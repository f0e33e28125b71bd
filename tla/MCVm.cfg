SPECIFICATION Spec
CONSTANTS
    NPAGES = 17
    FANOUT = 4
    PGSIZE = 2
    UINT64 = 256
    NPROC = 2
    Incr <- MCIncr
    Buf <- MCBuf
    Image <- MCImage
INVARIANTS
    PageAccounting
    OwnMemory
VIEW View
