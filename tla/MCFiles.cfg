SPECIFICATION Spec
CONSTANTS
    p1 = p1
    p2 = p2
    None = None
    Proc = {p1, p2}
    BSIZE = 2
    NDIRECT = 1
    FSSIZE = 14
    BPB = 10
    MAXOPBLOCKS = 6
    MaxWrites = 2
    Path = {2, 3}
    UINT = 64
    Image <- MCImage
    Buf <- MCBuf
    Count <- MCCount
VIEW View
SYMMETRY Symmetry
INVARIANTS BlocksAccounted FileContents TransactionFits
