SPECIFICATION Spec
CONSTANTS
    p1 = p1
    p2 = p2
    p3 = p3
    b1 = b1
    b2 = b2
    b3 = b3
    d0 = d0
    d1 = d1
    Proc = {p1, p2, p3}
    NBUF = 2
    Block = {b1, b2, b3}
    None = None
    Data = {d0, d1}
SYMMETRY MCSymmetry
INVARIANTS
    OneCopy
    HoldsLock
PROPERTIES
    Coherent
