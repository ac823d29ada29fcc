SPECIFICATION Spec
CONSTANTS
    ada = ada
    ben = ben
    coffee = coffee
    tote = tote
    k1 = k1
    k2 = k2
    Wallets = {ada}
    Keys = {k1, k2}
    Payloads = {coffee, tote}
    Points <- MCPoints
    Opening <- NoOpening
    Requests <- OneKey
    Ids = {o1, o2}
    Handlers = {h1, h2}
    Workers = {v1}
    None = None
    Window = 1
    MaxHeight = 3
SYMMETRY Symmetric
INVARIANTS SentIsJournaled OneEffectPerKey OneAnswerPerKey PointsConserved
PROPERTIES PromiseKept
