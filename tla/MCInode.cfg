SPECIFICATION Spec
CONSTANTS
    p1 = p1
    p2 = p2
    p3 = p3
    n1 = n1
    n2 = n2
    Proc = {p1, p2}
    Name = {n1, n2}
    None = None
    NINODES = 3
    NINODE = 2
    NFILE = 2
SYMMETRY MCSymmetry
INVARIANTS
    RefCounts
    LinkCounts
    OpenFileLive
    CopyCurrent
