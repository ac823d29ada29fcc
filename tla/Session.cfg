SPECIFICATION Spec
CONSTANTS
    Wallets = {ada, ben}
    Nonces = {n1, n2, n3}
    None = None
    Patient = TRUE
SYMMETRY Symmetric
INVARIANTS TypeOK ActsAsShown DataIsTheMembers
