SPECIFICATION Spec
CONSTANTS
    Invocations = {i1, i2}
    Uris = {u1, u2}
    Fees = {0, 5}
    MaxSupply = 1
    None = None
PROPERTIES KeepsTheFee
CHECK_DEADLOCK FALSE
