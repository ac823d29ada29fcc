SPECIFICATION Spec
CONSTANTS
    Keys = {k1, k2, k3}
    Pages = {p1, p2}
    None = None
SYMMETRY Symmetric
PROPERTIES PendingKeepsItsKey
