SPECIFICATION Spec
CONSTANTS
    p1 = p1
    p2 = p2
    Reader = {p1, p2}
    Free = Free
    Keys = {"a", "b", "A", "B", "^P", "^U", "^H", "^D", "NL", "CR", "NUL"}
    INPUT_BUF_SIZE = 3
    UINT = 6
    MAX_HISTORY = 2
    PAD = 1
    MaxScan = 4
    MaxN = 2
VIEW MCView
SYMMETRY MCSymmetry
INVARIANTS
    ReaderSleepsOnEmpty
    CommandInStep
PROPERTIES
    LineAtATime
    HistoryRecordsLine
