SPECIFICATION Spec
CONSTANTS
    NCPU = 2
    NPROC = 2
    UINT = 3
    SleepArgs = {2}
    Boot <- MCBoot
INVARIANTS
    NoPanic
    TrapTransparent
    InterruptsRestored
    SleepsNoLonger
PROPERTIES
    SleepsLongEnough
