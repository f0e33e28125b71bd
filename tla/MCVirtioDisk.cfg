SPECIFICATION Spec
CONSTANTS
    x1 = x1
    x2 = x2
    x3 = x3
    d0 = d0
    d1 = d1
    Buf = {x1, x2, x3}
    None = None
    Data = {d0, d1}
    NUM = 7
    UINT16 = 7
SYMMETRY MCSymmetry
INVARIANTS
    DescriptorsAccounted
    NoLostCompletion
PROPERTIES
    ReadsAndWrites
