SPECIFICATION Spec
CHECK_DEADLOCK FALSE
CONSTANTS
    None = None
    NPROC = 6
    NOFILE = 5
    PIPESIZE = 1
    MAXARGS = 3
    MaxText = 5
    Text <- MCText
    Line <- MCLine
INVARIANTS
    ParserMatchesGrammar
    ExecWired
PROPERTIES
    ForegroundDone
    LineEnds
