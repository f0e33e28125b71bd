SPECIFICATION Spec
CONSTANTS
    c1 = c1
    c2 = c2
    NPROC = 3
    CPU = {c1, c2}
    Free = Free
    MaxPid = 4
    KillPids = {0, 2}
    PreemptAt = {"setparent", "setrunnable", "exit", "relock"}
SYMMETRY MCSymmetry
INVARIANTS
    OneStack
    ParentAlive
    NoMissedExit
