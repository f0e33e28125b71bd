----------------------------- MODULE BufferCache ----------------------------
(***************************************************************************)
(* kernel/bio.c and kernel/sleeplock.c: bget, bread, bwrite, brelse, bpin  *)
(* and bunpin by processes that work on one block at a time, on top of a   *)
(* disk driver that keeps the promise of module BlockDevice.               *)
(*                                                                         *)
(* bcache.lock and the spinlock inside a sleep lock are held for one step. *)
(* The callers keep the discipline of log.c: a block that was changed is   *)
(* written, or pinned until it has been written.  kill() wakes a process   *)
(* from any sleep, at any time.                                            *)
(***************************************************************************)
EXTENDS Integers, Sequences, FiniteSets, SequencesExt

CONSTANTS
    Proc,     \* processes
    Block,    \* block numbers
    None,     \* no process, no buffer; the block number of a buffer never used
    Data,     \* contents of a block
    NBUF

ASSUME BufferCacheAssumption ==
    /\ None \notin Proc \cup Block
    /\ NBUF \in Nat \ {0}

Buf == 1 .. NBUF

VARIABLES
    blockno, valid, refcnt, data,   \* struct buf
    lru,           \* the list of buffers, head.next first
    locked, pid,   \* locked[x], pid[x]: the sleep lock of buffer x
    blocks, req,   \* the disk and its driver
    pc, my,        \* my[p]: the buffer p is working with
    panicked

bufvars == <<blockno, valid, refcnt, lru>>
lockvars == <<locked, pid>>
diskvars == <<blocks, data, req>>
vars == <<bufvars, lockvars, diskvars, pc, my, panicked>>

Disk == INSTANCE BlockDevice

Init ==
    /\ Disk!Init
    /\ blockno = [x \in Buf |-> None]
    /\ valid = [x \in Buf |-> FALSE]
    /\ refcnt = [x \in Buf |-> 0]
    /\ lru = [i \in Buf |-> NBUF + 1 - i]
    /\ locked = [x \in Buf |-> FALSE]
    /\ pid = [x \in Buf |-> None]
    /\ pc = [p \in Proc |-> "idle"]
    /\ my = [p \in Proc |-> None]
    /\ panicked = FALSE

At(p, label) == ~panicked /\ pc[p] = label

Goto(p, label) == pc' = [pc EXCEPT ![p] = label]

\* holdingsleep(&b->lock)
Holding(p) == locked[my[p]] /\ pid[my[p]] = p

-----------------------------------------------------------------------------
(* bget and bread.                                                         *)

Cached(b) == {x \in Buf : blockno[x] = b}

BgetHit(p, b) ==
    /\ At(p, "idle")
    /\ \E x \in Cached(b) :
          /\ refcnt' = [refcnt EXCEPT ![x] = @ + 1]
          /\ my' = [my EXCEPT ![p] = x]
    /\ Goto(p, "lock")
    /\ UNCHANGED <<blockno, valid, lru, lockvars, diskvars, panicked>>

\* Take buffer x for block b.
Recycle(p, b, x) ==
    /\ blockno' = [blockno EXCEPT ![x] = b]
    /\ valid' = [valid EXCEPT ![x] = FALSE]
    /\ refcnt' = [refcnt EXCEPT ![x] = 1]
    /\ my' = [my EXCEPT ![p] = x]
    /\ Goto(p, "lock")

\* Mutant: bget recycles the most recently used buffer, in use or not.
VictimFirst == 1

\* The place in the list of the least recently used buffer without users.
Victim ==
    CHOOSE i \in Buf : /\ refcnt[lru[i]] = 0
                       /\ \A j \in i + 1 .. NBUF : refcnt[lru[j]] # 0

BgetMiss(p, b) ==
    /\ At(p, "idle")
    /\ Cached(b) = {}
    /\ IF \E x \in Buf : refcnt[x] = 0
       THEN Recycle(p, b, lru[Victim]) /\ UNCHANGED panicked
       ELSE panicked' = TRUE /\ UNCHANGED <<blockno, valid, refcnt, my, pc>>
    /\ UNCHANGED <<lru, lockvars, diskvars>>

\* lk->locked = 1; lk->pid = myproc()->pid
Lock(p) ==
    /\ locked' = [locked EXCEPT ![my[p]] = TRUE]
    /\ pid' = [pid EXCEPT ![my[p]] = p]
    /\ Goto(p, "got")

\* Mutant: "if" instead of "while" around sleep(lk, &lk->lk).
AcquireSleepIf(p) ==
    /\ At(p, "lock") \/ At(p, "lwoken")
    /\ IF locked[my[p]] /\ pc[p] = "lock"
       THEN Goto(p, "lsleep") /\ UNCHANGED lockvars
       ELSE Lock(p)
    /\ UNCHANGED <<bufvars, diskvars, my, panicked>>

\* acquiresleep(&b->lock)
AcquireSleep(p) ==
    /\ At(p, "lock") \/ At(p, "lwoken")
    /\ IF locked[my[p]]
       THEN Goto(p, "lsleep") /\ UNCHANGED lockvars
       ELSE Lock(p)
    /\ UNCHANGED <<bufvars, diskvars, my, panicked>>

\* bread after bget: the data is there, or has to be read.
Bread(p) ==
    LET x == my[p] IN
    /\ At(p, "got")
    /\ \/ valid[x] /\ Goto(p, "hold") /\ UNCHANGED diskvars
       \/ ~valid[x] /\ Goto(p, "reading") /\ Disk!Start(x, blockno[x], FALSE)
    /\ UNCHANGED <<bufvars, lockvars, my, panicked>>

BreadDone(p) ==
    /\ At(p, "reading")
    /\ Disk!Finish(my[p])
    /\ valid' = [valid EXCEPT ![my[p]] = TRUE]
    /\ Goto(p, "hold")
    /\ UNCHANGED <<blockno, refcnt, lru, lockvars, my, panicked>>

-----------------------------------------------------------------------------
(* The holder of a buffer.                                                 *)

Change(p, v) ==
    /\ At(p, "hold")
    /\ Disk!Change(my[p], v)
    /\ Goto(p, "dirty")
    /\ UNCHANGED <<bufvars, lockvars, my, panicked>>

Bwrite(p) ==
    /\ At(p, "dirty") \/ At(p, "hold")
    /\ IF Holding(p)
       THEN /\ Disk!Start(my[p], blockno[my[p]], TRUE)
            /\ Goto(p, "writing")
            /\ UNCHANGED panicked
       ELSE panicked' = TRUE /\ UNCHANGED <<diskvars, pc>>
    /\ UNCHANGED <<bufvars, lockvars, my>>

BwriteDone(p) ==
    /\ At(p, "writing")
    /\ Disk!Finish(my[p])
    /\ Goto(p, "written")
    /\ UNCHANGED <<bufvars, lockvars, my, panicked>>

\* The number of pins of buffer x.
Pins(x) == refcnt[x] - Cardinality({p \in Proc : my[p] = x})

\* Mutant: log_write does not pin the buffer.
NoPin(x) == refcnt' = refcnt

\* bpin
Pin(x) == refcnt' = [refcnt EXCEPT ![x] = @ + 1]

\* log_write: bpin, unless the block is in the log already.
Bpin(p) ==
    /\ At(p, "dirty")
    /\ IF Pins(my[p]) = 0 THEN Pin(my[p]) ELSE UNCHANGED refcnt
    /\ Goto(p, "hold")
    /\ UNCHANGED <<blockno, valid, lru, lockvars, diskvars, my, panicked>>

\* install_trans: bunpin after bwrite.
Bunpin(p) ==
    /\ At(p, "written")
    /\ Pins(my[p]) > 0
    /\ refcnt' = [refcnt EXCEPT ![my[p]] = @ - 1]
    /\ Goto(p, "hold")
    /\ UNCHANGED <<blockno, valid, lru, lockvars, diskvars, my, panicked>>

\* Mutant: releasesleep does not call wakeup.
NoWakeup(f, x) == f

\* wakeup(lk): f with the processes that sleep for buffer x runnable.
Wakeup(f, x) ==
    [p \in Proc |-> IF f[p] = "lsleep" /\ my[p] = x THEN "lwoken" ELSE f[p]]

\* brelse: releasesleep, and then, under bcache.lock, the reference count.
Brelse(p) ==
    LET x == my[p] IN
    /\ At(p, "hold") \/ At(p, "written")
    /\ IF Holding(p)
       THEN /\ locked' = [locked EXCEPT ![x] = FALSE]
            /\ pid' = [pid EXCEPT ![x] = None]
            /\ pc' = [Wakeup(pc, x) EXCEPT ![p] = "rel"]
            /\ UNCHANGED panicked
       ELSE panicked' = TRUE /\ UNCHANGED <<lockvars, pc>>
    /\ UNCHANGED <<bufvars, diskvars, my>>

\* Move x to the head of the list.
ToFront(x) == <<x>> \o SelectSeq(lru, LAMBDA y : y # x)

BrelseCount(p) ==
    LET x == my[p] IN
    /\ At(p, "rel")
    /\ refcnt' = [refcnt EXCEPT ![x] = @ - 1]
    /\ lru' = IF refcnt[x] = 1 THEN ToFront(x) ELSE lru
    /\ my' = [my EXCEPT ![p] = None]
    /\ Goto(p, "idle")
    /\ UNCHANGED <<blockno, valid, lockvars, diskvars, panicked>>

-----------------------------------------------------------------------------
\* kill() makes a sleeper runnable; the sleeps in virtio_disk_rw are module
\* VirtioDisk's.
Kill(p) ==
    /\ At(p, "lsleep")
    /\ Goto(p, "lwoken")
    /\ UNCHANGED <<bufvars, lockvars, diskvars, my, panicked>>

\* The disk.
Transfer(x) ==
    /\ Disk!Do(x)
    /\ UNCHANGED <<bufvars, lockvars, pc, my, panicked>>

PanicSpin == panicked /\ UNCHANGED vars

Next ==
    \/ \E p \in Proc :
          \/ \E b \in Block : BgetHit(p, b) \/ BgetMiss(p, b)
          \/ \E v \in Data : Change(p, v)
          \/ AcquireSleep(p) \/ Bread(p) \/ BreadDone(p)
          \/ Bwrite(p) \/ BwriteDone(p) \/ Bpin(p) \/ Bunpin(p)
          \/ Brelse(p) \/ BrelseCount(p) \/ Kill(p)
    \/ \E x \in Buf : Transfer(x)
    \/ PanicSpin

Spec == Init /\ [][Next]_vars

-----------------------------------------------------------------------------
(* Properties.                                                             *)

TypeOK ==
    /\ blockno \in [Buf -> Block \cup {None}]
    /\ valid \in [Buf -> BOOLEAN]
    /\ refcnt \in [Buf -> Nat]
    /\ data \in [Buf -> Data]
    /\ lru \in [Buf -> Buf] /\ Range(lru) = Buf
    /\ locked \in [Buf -> BOOLEAN]
    /\ pid \in [Buf -> Proc \cup {None}]
    /\ blocks \in [Block -> Data]
    /\ req \in [Buf -> [st : {"none", "sent", "done"}, write : BOOLEAN,
                        blk : Block \cup {None}]]
    /\ pc \in [Proc -> {"idle", "lock", "lsleep", "lwoken", "got", "reading",
                        "hold", "dirty", "writing", "written", "rel"}]
    /\ my \in [Proc -> Buf \cup {None}]
    /\ panicked \in BOOLEAN

\* The buffer whose contents bread returns for block b, if there is one.
Current(b) == {x \in Cached(b) : valid[x]}

AbsMem ==
    [b \in Block |-> IF Current(b) = {} THEN blocks[b]
                     ELSE data[CHOOSE x \in Current(b) : TRUE]]

AbsHolder ==
    [b \in Block |-> IF Current(b) = {} THEN None
                     ELSE pid[CHOOSE x \in Current(b) : TRUE]]

Store == INSTANCE BlockStore WITH mem <- AbsMem, holder <- AbsHolder

\* "A synchronization point for disk blocks used by multiple processes"
\* (bio.c): recycling, transfers and spurious wakeups never change what bread
\* returns; only the process that holds the buffer does.
Coherent == Store!Spec

\* A block is cached in one buffer at most, and reference counts cover every
\* process that waits for a buffer or holds it.
OneCopy ==
    /\ TypeOK
    /\ \A x, y \in Buf : blockno[x] = blockno[y] /\ x # y => blockno[x] = None
    /\ \A x \in Buf : Pins(x) >= 0

\* A sleep lock excludes and loses no wakeup: between bget and brelse a process
\* is the holder of its buffer's lock, so that bwrite and brelse never panic,
\* and a process sleeps for a buffer only while it is locked.
HoldsLock ==
    /\ \A p \in Proc :
          pc[p] \in {"got", "reading", "hold", "dirty", "writing", "written"}
             => Holding(p)
    /\ \A p \in Proc : pc[p] = "lsleep" => locked[my[p]]
=============================================================================
