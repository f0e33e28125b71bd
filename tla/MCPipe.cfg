SPECIFICATION Spec
CONSTANTS
    w1 = w1
    w2 = w2
    r1 = r1
    r2 = r2
    x = x
    y = y
    Writer = {w1, w2}
    Reader = {r1}
    Free = Free
    Byte = {x, y}
    PIPESIZE = 2
    UINT = 4
    MaxN = 3
SYMMETRY MCSymmetry
INVARIANTS
    SleepersWait
    NoUseAfterFree
PROPERTY Fifo
