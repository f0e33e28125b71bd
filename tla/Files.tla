-------------------------------- MODULE Files --------------------------------
(***************************************************************************)
(* The contents of files: block allocation, bmap, itrunc, readi and writei *)
(* of fs.c, fileread and filewrite of file.c, open with O_TRUNC, on a disk *)
(* image made by mkfs and inside the log's transactions.                   *)
(*                                                                         *)
(* The log is what Log.tla proves of it: when the last operation in        *)
(* progress ends, the blocks that were logged go to the disk together; a   *)
(* crash loses everything since.  A buffer that was changed and not logged *)
(* may be recycled and read again at any time.                             *)
(*                                                                         *)
(* A number on the disk (a byte, a block address, a directory entry) takes *)
(* one cell; a block has BSIZE cells.  The superblock and the log's own    *)
(* blocks are left out of the layout.                                      *)
(***************************************************************************)
EXTENDS Integers, Sequences, FiniteSets, FiniteSetsExt, SequencesExt

CONSTANTS
    Proc,
    BSIZE, NDIRECT, FSSIZE,
    BPB,          \* bits of a bitmap block
    MAXOPBLOCKS,
    UINT,         \* the number of values of a uint
    Image,        \* the lengths of the files mkfs puts into the image
    Path,         \* the inodes that are opened
    Count,        \* the n of a read
    Buf,          \* a write's n, and how many of its bytes are mapped
    MaxWrites,    \* a bound on the calls of write
    None

NINDIRECT == BSIZE
MAXFILE == NDIRECT + NINDIRECT
ROOTINO == 1
Inum == 1 .. Len(Image) + 1
NBITMAP == FSSIZE \div BPB + 1
IBLOCK == 1
BBLOCK(b) == 2 + b \div BPB
NMETA == 2 + NBITMAP
Data == NMETA .. FSSIZE - 1

VARIABLES
    d,        \* blocks, as bread returns them
    disk,     \* blocks, as the last committed transaction left them
    trans,    \* blocks logged since then
    op,       \* op[p]: blocks logged by the operation p is in, or None
    ip,       \* in-memory inodes: valid, size, addrs
    lock,     \* lock[i]: the holder of ip->lock
    fd,       \* fd[p]: the file p has open
    file,     \* struct file: ip, off
    th,       \* the call each process is in, with its locals
    panicked,
    writes,   \* calls of write so far
    content,  \* history: the bytes of each file
    saved,    \* history: the same, at the last commit
    overran   \* history: an operation has logged more than MAXOPBLOCKS blocks

vars ==
    <<d, disk, trans, op, ip, lock, fd, file, th, panicked, writes, content, saved,
      overran>>

Cell == 0 .. BSIZE - 1
Zeroes == [c \in Cell |-> 0]
Noaddrs == [n \in 0 .. NDIRECT |-> 0]
Torn == -1     \* a byte whose value depends on when its buffer was recycled

\* F(x).  TLC computes x once, however often F uses it.
With(x, F(_)) == CHOOSE y \in {F(z) : z \in {x}} : TRUE

-----------------------------------------------------------------------------
(* mkfs: a state is the blocks, and the first block not used yet.          *)

\* The address of block fbn of an inode, in memory or on the disk, or 0.
Address(dd, addrs, fbn) ==
    IF fbn < NDIRECT THEN addrs[fbn]
    ELSE IF addrs[NDIRECT] = 0 THEN 0
    ELSE dd[addrs[NDIRECT]][fbn - NDIRECT]

\* iappend of one cell v to inode i.
Iappend(s, i, v) ==
    LET din == s.d[IBLOCK][i]
        fbn == din.size \div BSIZE
        indirect == fbn >= NDIRECT
        newind == indirect /\ din.addrs[NDIRECT] = 0
        ind == IF newind THEN s.freeblock ELSE din.addrs[NDIRECT]
        new == Address(s.d, din.addrs, fbn) = 0
        x == IF ~new THEN Address(s.d, din.addrs, fbn)
             ELSE IF newind THEN s.freeblock + 1 ELSE s.freeblock
        addrs == IF indirect THEN [din.addrs EXCEPT ![NDIRECT] = ind]
                 ELSE [din.addrs EXCEPT ![fbn] = x]
        pointed == IF indirect THEN [s.d EXCEPT ![ind][fbn - NDIRECT] = x] ELSE s.d
    IN [d |-> [pointed EXCEPT ![x][din.size % BSIZE] = v,
                              ![IBLOCK][i] = [size |-> din.size + 1, addrs |-> addrs]],
        freeblock |-> s.freeblock + (IF new THEN 1 ELSE 0) + (IF newind THEN 1 ELSE 0)]

\* The cells appended: entries ".", ".." and one for each file to the root
\* directory, and each file's bytes.
Cells ==
    <<<<ROOTINO, ROOTINO>>, <<ROOTINO, ROOTINO>>>>
        \o FlattenSeq([k \in DOMAIN Image |->
              <<<<ROOTINO, k + 1>>>> \o [n \in 1 .. Image[k] |-> <<k + 1, 1>>]])

Appended ==
    LET blank == [b \in 0 .. FSSIZE - 1 |->
                    IF b = IBLOCK
                    THEN [i \in Inum |-> [size |-> 0, addrs |-> Noaddrs]]
                    ELSE IF b \in 2 .. NMETA - 1 THEN {} ELSE Zeroes]
    IN FoldLeft(LAMBDA s, cell : With(Iappend(s, cell[1], cell[2]), LAMBDA t : t),
                [d |-> blank, freeblock |-> NMETA], Cells)

\* The root directory's size is rounded up to a whole block.
RootSize(n) == (n \div BSIZE + 1) * BSIZE

\* balloc marks the blocks that were used, all in the first bitmap block.
Mkfs ==
    With(Appended, LAMBDA s :
        [s.d EXCEPT ![IBLOCK][ROOTINO].size = RootSize(@),
                    ![BBLOCK(0)] = 0 .. s.freeblock - 1])

\* What mkfs has put into the files; the rounded directory ends in zeroes.
MkfsContent ==
    LET Bytes(i) == SelectSeq(Cells, LAMBDA cell : cell[1] = i)
        zeroes == RootSize(Len(Image) + 2) - (Len(Image) + 2)
    IN [i \in Inum |->
          [k \in DOMAIN Bytes(i) |-> Bytes(i)[k][2]]
            \o (IF i = ROOTINO THEN [k \in 1 .. zeroes |-> 0] ELSE <<>>)]

ASSUME FilesAssumption ==
    /\ {BSIZE, NDIRECT, FSSIZE, BPB, MAXOPBLOCKS} \subseteq Nat \ {0}
    \* the assertion of mkfs's balloc
    /\ Appended.freeblock < BPB
    \* mkfs leaves a hole after a root directory that fills its last block
    /\ (Len(Image) + 2) % BSIZE # 0

-----------------------------------------------------------------------------
(* fs.c.  A state s has the blocks s.d and the blocks logged, s.log.       *)

Unused(dd) == {b \in Data : b \notin dd[BBLOCK(b)]}

\* balloc: the block, or 0, in b.
Balloc(s) ==
    IF Unused(s.d) = {} THEN [d |-> s.d, log |-> s.log, b |-> 0]
    ELSE With(Min(Unused(s.d)), LAMBDA b :
         [d |-> [s.d EXCEPT ![BBLOCK(b)] = @ \cup {b}, ![b] = Zeroes],
          log |-> s.log \cup {BBLOCK(b), b}, b |-> b])

\* bfree of the blocks in bs.
Bfree(s, bs) ==
    [d |-> [b \in DOMAIN s.d |-> IF b \in 2 .. NMETA - 1 THEN s.d[b] \ bs ELSE s.d[b]],
     log |-> s.log \cup {BBLOCK(b) : b \in bs},
     panic |-> bs \cap Unused(s.d) # {}]

\* bmap: addr is the block's address, or 0; addrs the inode's, updated.
Bmap(s, addrs, bn) ==
    LET Slot(t, n) ==    \* addrs[n], allocated if it is 0
            IF addrs[n] # 0
            THEN [d |-> t.d, log |-> t.log, addrs |-> addrs, addr |-> addrs[n]]
            ELSE With(Balloc(t), LAMBDA r :
                    [d |-> r.d, log |-> r.log,
                     addrs |-> [addrs EXCEPT ![n] = r.b], addr |-> r.b])
        Entry(t, n) ==   \* a[n] of the indirect block
            IF t.d[t.addr][n] # 0 THEN [t EXCEPT !.addr = t.d[@][n]]
            ELSE With(Balloc(t), LAMBDA r :
                    IF r.b = 0 THEN [t EXCEPT !.addr = 0]
                    ELSE [d |-> [r.d EXCEPT ![t.addr][n] = r.b],
                          log |-> r.log \cup {t.addr},
                          addrs |-> t.addrs, addr |-> r.b])
    IN IF bn < NDIRECT THEN Slot(s, bn)
       ELSE With(Slot(s, NDIRECT), LAMBDA t :
                IF t.addr = 0 THEN t ELSE Entry(t, bn - NDIRECT))

\* iupdate of inode i, to size and addrs.
Iupdate(s, i, size, addrs) ==
    [s EXCEPT !.d = [@ EXCEPT ![IBLOCK][i] = [size |-> size, addrs |-> addrs]],
              !.log = @ \cup {IBLOCK}]

\* A mutant: the indirect block itself stays allocated.
ItruncLeak(s, i, addrs) ==
    LET entries == IF addrs[NDIRECT] = 0 THEN {} ELSE Range(s.d[addrs[NDIRECT]])
        direct == {addrs[n] : n \in 0 .. NDIRECT - 1}
    IN With(Bfree(s, (direct \cup entries) \ {0}), LAMBDA t :
            Iupdate(t, i, 0, Noaddrs))

\* itrunc.
Itrunc(s, i, addrs) ==
    LET entries == IF addrs[NDIRECT] = 0 THEN {} ELSE Range(s.d[addrs[NDIRECT]])
    IN With(Bfree(s, (Range(addrs) \cup entries) \ {0}), LAMBDA t :
            Iupdate(t, i, 0, Noaddrs))

-----------------------------------------------------------------------------
(* Transactions and inode locks.                                           *)

Idle == [at |-> "user"]
Log(p) == [d |-> d, log |-> op[p]]

\* The blocks of s go to the cache, and to p's operation.
Put(p, s) ==
    /\ d' = s.d
    /\ trans' = trans \cup s.log
    /\ op' = [op EXCEPT ![p] = s.log]
    /\ overran' = (overran \/ Cardinality(s.log) > MAXOPBLOCKS)
    /\ UNCHANGED <<disk, saved>>

\* The same, and end_op: the last operation commits.
PutEnd(p, s, cont) ==
    /\ d' = s.d
    /\ op' = [op EXCEPT ![p] = None]
    /\ overran' = (overran \/ Cardinality(s.log) > MAXOPBLOCKS)
    /\ IF \A q \in Proc \ {p} : op[q] = None
       THEN /\ disk' = [b \in DOMAIN disk |->
                          IF b \in trans \cup s.log THEN s.d[b] ELSE disk[b]]
            /\ trans' = {}
            /\ saved' = cont
       ELSE /\ trans' = trans \cup s.log
            /\ UNCHANGED <<disk, saved>>

\* ilock's reading of the inode.
Loaded(i) ==
    IF ip[i].valid THEN ip[i]
    ELSE [valid |-> TRUE, size |-> d[IBLOCK][i].size, addrs |-> d[IBLOCK][i].addrs]

NoIp == [valid |-> FALSE, size |-> 0, addrs |-> Noaddrs]
File == 1 .. Cardinality(Proc)

Init ==
    /\ disk = Mkfs
    /\ d = disk
    /\ trans = {}
    /\ op = [p \in Proc |-> None]
    /\ ip = [i \in Inum |-> NoIp]
    /\ lock = [i \in Inum |-> None]
    /\ fd = [p \in Proc |-> None]
    /\ file = [f \in File |-> None]
    /\ th = [p \in Proc |-> Idle]
    /\ panicked = FALSE
    /\ writes = 0
    /\ content = MkfsContent
    /\ saved = content
    /\ overran = FALSE

\* The machine stops at any time, and starts again from the disk.
Crash ==
    /\ d' = disk
    /\ trans' = {}
    /\ op' = [p \in Proc |-> None]
    /\ ip' = [i \in Inum |-> NoIp]
    /\ lock' = [i \in Inum |-> None]
    /\ fd' = [p \in Proc |-> None]
    /\ file' = [f \in File |-> None]
    /\ th' = [p \in Proc |-> Idle]
    /\ content' = saved
    /\ UNCHANGED <<disk, saved, panicked, writes, overran>>

\* bget recycles a buffer that no transaction has pinned; bread reads it again.
Recycle(b) ==
    /\ b \notin trans
    /\ d[b] # disk[b]
    /\ d' = [d EXCEPT ![b] = disk[b]]
    /\ UNCHANGED <<disk, trans, op, ip, lock, fd, file, th, panicked, writes, content, saved,
                   overran>>

-----------------------------------------------------------------------------
(* System calls.                                                           *)

\* Someone besides p holds a reference to inode i.
Referenced(i, p) ==
    \E q \in Proc \ {p} :
        \/ fd[q] # None /\ file[fd[q]].i = i
        \/ th[q].at = "open" /\ th[q].i = i

\* sys_open of a file, to begin_op and the reference namei returns.
Open(p, i, trunc) ==
    /\ th[p].at = "user"
    /\ fd[p] = None
    /\ op' = [op EXCEPT ![p] = {}]
    /\ th' = [th EXCEPT ![p] = [at |-> "open", i |-> i, trunc |-> trunc]]
    /\ UNCHANGED <<d, disk, trans, ip, lock, fd, file, panicked, writes, content, saved,
                   overran>>

\* The rest, with the inode locked.
Open2(p) ==
    LET i == th[p].i
        f == Min({g \in File : g \notin Range(fd)})
    IN /\ th[p].at = "open"
       /\ lock[i] = None
       /\ th' = [th EXCEPT ![p] = Idle]
       /\ fd' = [fd EXCEPT ![p] = f]
       /\ file' = [file EXCEPT ![f] = [i |-> i, off |-> 0]]
       /\ IF th[p].trunc
          THEN /\ content' = [content EXCEPT ![i] = <<>>]
               /\ ip' = [ip EXCEPT ![i] = [valid |-> TRUE, size |-> 0, addrs |-> Noaddrs]]
               /\ \E s \in {Itrunc(Log(p), i, Loaded(i).addrs)} :
                    PutEnd(p, s, content') /\ panicked' = (panicked \/ s.panic)
          ELSE /\ ip' = [ip EXCEPT ![i] = Loaded(i)]
               /\ PutEnd(p, Log(p), content)
               /\ UNCHANGED <<content, panicked>>
       /\ UNCHANGED <<lock, writes>>

\* fork and filedup: q gets p's open file.
Fork(p, q) ==
    /\ th[p].at = "user" /\ th[q].at = "user"
    /\ fd[p] # None /\ fd[q] = None
    /\ fd' = [fd EXCEPT ![q] = fd[p]]
    /\ UNCHANGED <<d, disk, trans, op, ip, lock, file, th, panicked, writes, content, saved,
                   overran>>

\* fileclose; iput of a linked inode lets its table entry go.
Close(p) ==
    /\ th[p].at = "user"
    /\ fd[p] # None
    /\ fd' = [fd EXCEPT ![p] = None]
    /\ IF \E q \in Proc \ {p} : fd[q] = fd[p] THEN UNCHANGED <<file, ip>>
       ELSE /\ file' = [file EXCEPT ![fd[p]] = None]
            /\ ip' = IF Referenced(file[fd[p]].i, p) THEN ip
                     ELSE [ip EXCEPT ![file[fd[p]].i] = NoIp]
    /\ UNCHANGED <<d, disk, trans, op, lock, th, panicked, writes, content, saved,
                   overran>>

\* readi: how many of the n bytes from off on it returns.
Readi(i, off, n) ==
    LET size == Loaded(i).size
    IN IF off > size \/ (off + n) % UINT < off THEN 0
       ELSE IF off + n > size THEN size - off ELSE n

\* fileread; ok is either_copyout's success.
Read(p, n, ok) ==
    LET f == file[fd[p]]
        cnt == Readi(f.i, f.off, n % UINT)
    IN /\ th[p].at = "user"
       /\ fd[p] # None
       /\ lock[f.i] = None
       /\ ip' = [ip EXCEPT ![f.i] = Loaded(f.i)]
       /\ IF ~ok THEN UNCHANGED <<file, panicked>>
          ELSE /\ file' = [file EXCEPT ![fd[p]].off = f.off + cnt]
               \* bmap of a hole calls log_write outside a transaction
               /\ panicked' = (panicked \/ \E k \in f.off .. f.off + cnt - 1 :
                                   Address(d, Loaded(f.i).addrs, k \div BSIZE) = 0)
       /\ UNCHANGED <<d, disk, trans, op, lock, fd, th, writes, content, saved,
                      overran>>

\* A mutant: no slop for a write that is not aligned.
MaxWriteNoSlop == ((MAXOPBLOCKS - 1 - 1) \div 2) * BSIZE

\* filewrite writes at most MaxWrite bytes in a transaction.
MaxWrite == ((MAXOPBLOCKS - 1 - 1 - 2) \div 2) * BSIZE

\* begin_op for the bytes of buf from i on.
Chunk(p, buf, i) ==
    /\ op' = [op EXCEPT ![p] = {}]
    /\ th' = [th EXCEPT ![p] = [at |-> "lock", buf |-> buf, i |-> i,
                               n1 |-> Min({buf.n - i, MaxWrite}), tot |-> 0]]
    /\ UNCHANGED <<d, disk, trans, ip, lock, fd, file, panicked, content, saved,
                   overran>>

Write(p, buf) ==
    /\ th[p].at = "user"
    /\ fd[p] # None
    /\ buf.n > 0
    /\ writes < MaxWrites
    /\ writes' = writes + 1
    /\ Chunk(p, buf, 0)

WriteNext(p) ==
    /\ th[p].at = "next"
    /\ Chunk(p, th[p].buf, th[p].i)
    /\ UNCHANGED writes

\* ilock, and the checks of writei.
Writei(p) ==
    LET f == file[fd[p]]
        n1 == th[p].n1
    IN /\ th[p].at = "lock"
       /\ lock[f.i] = None
       /\ lock' = [lock EXCEPT ![f.i] = p]
       /\ ip' = [ip EXCEPT ![f.i] = Loaded(f.i)]
       /\ th' = IF f.off > Loaded(f.i).size \/ f.off + n1 > MAXFILE * BSIZE
                THEN [th EXCEPT ![p].at = "end", ![p].tot = -1]
                ELSE [th EXCEPT ![p].at = "loop"]
       /\ UNCHANGED <<d, disk, trans, op, fd, file, panicked, writes, content, saved,
                      overran>>

\* bytes with m of them, from off on, replaced by v.
Overwrite(bytes, off, m, v) ==
    [k \in 1 .. Max({Len(bytes), off + m}) |->
        IF k \in off + 1 .. off + m THEN v ELSE bytes[k]]

\* m cells of block b become v.
Fill(dd, b, off, m, v) ==
    LET first == off % BSIZE
    IN [dd EXCEPT ![b] =
          [c \in Cell |-> IF c \in first .. first + m - 1 THEN v ELSE @[c]]]

\* An iteration of writei's loop: every byte written to file i is i.
WriteLoop(p) ==
    LET i == file[fd[p]].i
        tot == th[p].tot
        off == file[fd[p]].off + tot
        m == Min({th[p].n1 - tot, BSIZE - (off % BSIZE)})
        j == Max({0, th[p].buf.mapped - (th[p].i + tot)})
    IN /\ th[p].at = "loop"
       /\ tot < th[p].n1
       /\ \E r \in {Bmap(Log(p), ip[i].addrs, off \div BSIZE)} :
            /\ ip' = [ip EXCEPT ![i].addrs = r.addrs]
            /\ \/ /\ r.addr = 0
                  /\ Put(p, r)
                  /\ th' = [th EXCEPT ![p].at = "end"]
                  /\ UNCHANGED content
               \/ /\ r.addr # 0 /\ j >= m
                  /\ Put(p, [d |-> Fill(r.d, r.addr, off, m, i),
                             log |-> r.log \cup {r.addr}])
                  /\ th' = [th EXCEPT ![p].tot = tot + m]
                  /\ content' = [content EXCEPT ![i] = Overwrite(@, off, m, i)]
               \* either_copyin fails after j bytes: the buffer is not logged
               \/ /\ r.addr # 0 /\ j < m
                  /\ Put(p, [d |-> Fill(r.d, r.addr, off, j, i), log |-> r.log])
                  /\ th' = [th EXCEPT ![p].at = "end"]
                  /\ content' = [content EXCEPT ![i] =
                        [k \in DOMAIN @ |->
                            IF k \in off + 1 .. off + j THEN Torn ELSE @[k]]]
       /\ UNCHANGED <<lock, fd, file, panicked, writes>>

\* A mutant: a write that ends before the file does shortens it.
GrownShort(off, size) == off

\* ip->size after a write that ended at off.
Grown(off, size) == IF off > size THEN off ELSE size

\* The end of writei, iunlock, end_op, and the tail of filewrite's loop.
WriteEnd(p) ==
    LET t == th[p]
        f == file[fd[p]]
        size == Grown(f.off + t.tot, ip[f.i].size)
    IN /\ \/ t.at = "end"
          \/ t.at = "loop" /\ t.tot = t.n1
       /\ IF t.tot = -1
          THEN PutEnd(p, Log(p), content) /\ UNCHANGED <<ip, file>>
          ELSE /\ ip' = [ip EXCEPT ![f.i].size = size]
               /\ PutEnd(p, Iupdate(Log(p), f.i, size, ip[f.i].addrs), content)
               /\ file' = [file EXCEPT ![fd[p]].off = @ + t.tot]
       /\ lock' = [lock EXCEPT ![f.i] = None]
       /\ th' = [th EXCEPT ![p] =
                    IF t.tot = t.n1 /\ t.i + t.tot < t.buf.n
                    THEN [at |-> "next", buf |-> t.buf, i |-> t.i + t.tot]
                    ELSE Idle]
       /\ UNCHANGED <<fd, panicked, writes, content>>

Next ==
    \/ \E p \in Proc :
        \/ \E i \in Path, trunc \in BOOLEAN : Open(p, i, trunc)
        \/ Open2(p)
        \/ \E q \in Proc : Fork(p, q)
        \/ Close(p)
        \/ \E n \in Count, ok \in BOOLEAN : Read(p, n, ok)
        \/ \E buf \in Buf : Write(p, buf)
        \/ WriteNext(p) \/ Writei(p) \/ WriteLoop(p) \/ WriteEnd(p)
    \/ Crash
    \/ \E b \in Data : Recycle(b)

Spec == Init /\ [][Next]_vars

-----------------------------------------------------------------------------
Slot == Inum \X (0 .. MAXFILE)

\* The block in a slot of inode i: a block of the file, or the indirect one.
SlotBlock(dd, addrs, k) == IF k = MAXFILE THEN addrs[NDIRECT] ELSE Address(dd, addrs, k)

\* Every data block marked in the bitmap is in one slot of one inode, and no
\* other block is in a slot; Inode(i) is the inode to go by.
Accounted(dd, Inode(_)) ==
    \E at \in {[s \in Slot |-> SlotBlock(dd, Inode(s[1]).addrs, s[2])]} :
        LET filled == {s \in Slot : at[s] # 0}
            blocks == {at[s] : s \in filled}
        IN /\ Cardinality(blocks) = Cardinality(filled)
           /\ blocks = {b \in Data : b \in dd[BBLOCK(b)]}

(***************************************************************************)
(* balloc, bmap and itrunc neither lose a block nor give it to two files:  *)
(* through a disk that fills up, a copy from user space that fails and a   *)
(* crash, the bitmap marks the blocks of the files and no others, in the   *)
(* image on the disk and in the cached one; bfree never panics.            *)
(***************************************************************************)
BlocksAccounted ==
    /\ ~panicked
    /\ Accounted(disk, LAMBDA i : disk[IBLOCK][i])
    /\ Accounted(d, LAMBDA i : IF lock[i] = None THEN d[IBLOCK][i] ELSE ip[i])

\* The inode's blocks hold the bytes, and there is no hole among them.
Holds(dd, inode, bytes) ==
    /\ inode.size = Len(bytes)
    /\ \A k \in DOMAIN bytes :
        LET b == Address(dd, inode.addrs, (k - 1) \div BSIZE)
        IN b # 0 /\ (bytes[k] # Torn => dd[b][(k - 1) % BSIZE] = bytes[k])

(***************************************************************************)
(* A file that nobody has locked holds what the writes to it put there,    *)
(* whichever processes, files and offsets they came through, and the image *)
(* on the disk what it held at the last commit; an inode loaded by ilock   *)
(* and kept in memory is the one in the image.                             *)
(***************************************************************************)
FileContents ==
    /\ \A i \in Inum : Holds(disk, disk[IBLOCK][i], saved[i])
    /\ \A i \in Inum : lock[i] = None =>
        /\ Holds(d, d[IBLOCK][i], content[i])
        /\ ip[i].valid => /\ ip[i].size = d[IBLOCK][i].size
                          /\ ip[i].addrs = d[IBLOCK][i].addrs

(***************************************************************************)
(* No operation writes more blocks than begin_op reserved for it: the      *)
(* chunks of filewrite leave room for the inode, the indirect block, the   *)
(* bitmap blocks and a write that is not aligned, and itrunc fits too.     *)
(***************************************************************************)
TransactionFits == ~overran
=============================================================================
