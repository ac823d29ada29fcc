SPECIFICATION Spec
CONSTANTS
    ada = ada
    ben = ben
    coffee = coffee
    tote = tote
    k1 = k1
    k2 = k2
    Wallets = {ada}
    Keys = {k1, k2}
    Payloads = {coffee, tote}
    Points <- MCPoints
    Opening <- MCOpening
    Requests <- OneRedemption
    Ids = {o1}
    Handlers = {h1, h2}
    Workers = {v1, v2}
    None = None
    Window = 2
    MaxHeight = 4
SYMMETRY Symmetric
INVARIANTS TypeOK ExpiredNeverLands OutcomeIsFinalized CodeIsFinal
PROPERTIES RowsMoveForward
