SPECIFICATION MCSpec
CONSTANTS
    Invocations = {i1, i2}
    Uris = {u1, u2}
    Fees = {0, 5}
    MaxSupply = 1
    None = None
    Runs = {r1, r2, r3}
    Missing = Missing
    Processes = {p1, p2}
    Mints = {m1, m2}
    Clients = {c1}
    Limit = 1
    Minute = 2
    Slots = {q1, q2}
    TTL = 2
    Deadline = 1
    Edits = 2
    Ids = {o1, o2}
    Handlers = {h1}
    Workers = {v1}
    Window = 2
    MaxHeight = 4
    ada = ada
    k1 = k1
    k2 = k2
    coffee = coffee
    tote = tote
SYMMETRY Symmetric
INVARIANTS TypesOK VerifiedStays ServerTakesTheMint OneMint EveryMintHasItsKeys NamesAFinalMint
INVARIANTS HistoriesAreNotMixed ServersAgree RefusalsEnd CatalogIsRecent PointsConserved
PROPERTIES KnownFeeStays
CHECK_DEADLOCK FALSE
