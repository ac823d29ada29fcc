SPECIFICATION Spec
CONSTANTS
    ada = ada
    ben = ben
    coffee = coffee
    tote = tote
    k1 = k1
    k2 = k2
    Wallets = {ada, ben}
    Keys = {k1, k2}
    Payloads = {coffee, tote}
    Points <- MCPoints
    Opening <- NoOpening
    Requests <- TwoWallets
    Ids = {o1, o2}
    Handlers = {h1}
    Workers = {v1}
    None = None
    Window = 1
    MaxHeight = 3
INVARIANTS AwardKeyReuseRefused
