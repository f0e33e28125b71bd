-------------------------------- MODULE Log --------------------------------
(***************************************************************************)
(* The write-ahead redo log of kernel/log.c, together with the part of the *)
(* buffer cache (kernel/bio.c) its correctness rests on: buffer locks,     *)
(* reference counts, pinning and recycling.                                *)
(*                                                                         *)
(* Processes bracket file-system operations with begin_op/end_op and       *)
(* update blocks with bread, log_write, brelse.  The last end_op runs      *)
(* commit(), one step per disk write.  The machine can crash between any   *)
(* two disk writes, during recovery too; only the disk survives.           *)
(*                                                                         *)
(* A buffer with refcnt 0 may be recycled at any time, after which bread   *)
(* reads the home block again.  A write of one block is atomic on the      *)
(* disk.  The buffers of the log blocks themselves are written through at  *)
(* once, so the model reads and writes the log on the disk directly.       *)
(***************************************************************************)
EXTENDS Integers, Sequences, FiniteSets

CONSTANTS
    Proc,         \* processes
    NoProc,       \* "no process holds this buffer"
    Block,        \* home blocks: what the file system logs
    Data,         \* contents of a block
    NoData,       \* "the block is not cached"
    LOGSIZE,      \* param.h: entries of the log header
    MAXOPBLOCKS,  \* param.h: most distinct blocks one operation logs
    NLOG,         \* superblock nlog = log.size: header block and data blocks
    MaxCrashes    \* bound on the number of crashes of a behaviour

ASSUME LogAssumption ==
    /\ IsFiniteSet(Proc)
    /\ NoProc \notin Proc
    /\ NoData \notin Data
    /\ LOGSIZE \in Nat \ {0}
    /\ MAXOPBLOCKS \in 1 .. LOGSIZE
    /\ NLOG \in Nat \ {0, 1}
    /\ MaxCrashes \in Nat

VARIABLES
    \* the disk
    home,         \* home[b]: block b in its home location
    logdata,      \* logdata[i]: i-th data block of the log
    header,       \* block list of the on-disk log header
    \* struct log, in memory
    lh,           \* log.lh: blocks of the current transaction
    outstanding,  \* log.outstanding
    committing,   \* log.committing
    \* buffer cache
    cache,        \* cache[b]: data of the valid buffer for b, or NoData
    refcnt,       \* refcnt[b]: b->refcnt
    holder,       \* holder[b]: process holding b->lock
    \* control
    pc,           \* pc[p]: where process p is in begin_op/end_op/commit
    used,         \* used[p]: blocks p's operation has logged
    tail,         \* loop counter of write_log/install_trans
    sys,          \* boot phase of the machine
    crashes       \* number of crashes so far

disk == <<home, logdata, header>>
logvars == <<lh, outstanding, committing>>
bufvars == <<cache, refcnt, holder>>
vars == <<disk, logvars, bufvars, pc, used, tail, sys, crashes>>

-----------------------------------------------------------------------------
(* Helpers.                                                                *)

Logged == {lh[i] : i \in 1 .. Len(lh)}

\* What bread(b) returns.
Content(b) == IF cache[b] = NoData THEN home[b] ELSE cache[b]

\* The process holds no buffer: file-system code calls begin_op and end_op
\* only between brelse and bread.
HoldsNone(p) == \A b \in Block : holder[b] # p

\* Mutant: the calling operation itself is not counted.
NoRoomOffByOne ==
    \/ committing
    \/ Len(lh) + outstanding * MAXOPBLOCKS > LOGSIZE

\* begin_op sleeps when a commit runs or this operation might exhaust the log.
NoRoom ==
    \/ committing
    \/ Len(lh) + (outstanding + 1) * MAXOPBLOCKS > LOGSIZE

\* Mutant: wakeup(&log) is missing.
NoWakeup(f) == f

\* wakeup(&log): everyone asleep in begin_op tests the condition again.
Wakeup(f) == [q \in Proc |-> IF f[q] = "sleep" THEN "woken" ELSE f[q]]

\* log_write: the conditions that panic.
TooBig == Len(lh) >= LOGSIZE \/ Len(lh) >= NLOG - 1

PanicNow ==
    /\ sys' = "panic"
    /\ UNCHANGED <<disk, logvars, bufvars, pc, used, tail, crashes>>

-----------------------------------------------------------------------------
\* mkfs leaves an empty log; memory at power-on is zero, with no block cached.
Init ==
    /\ home \in [Block -> Data]
    /\ logdata \in [1 .. NLOG - 1 -> Data]
    /\ header = <<>>
    /\ lh = <<>>
    /\ outstanding = 0
    /\ committing = FALSE
    /\ cache = [b \in Block |-> NoData]
    /\ refcnt = [b \in Block |-> 0]
    /\ holder = [b \in Block |-> NoProc]
    /\ pc = [p \in Proc |-> "user"]
    /\ used = [p \in Proc |-> {}]
    /\ tail = 1
    /\ sys = "read_head"
    /\ crashes = 0

-----------------------------------------------------------------------------
(* Recovery: initlog -> recover_from_log, before any process can run.      *)

ReadHead ==
    /\ sys = "read_head"
    /\ lh' = header
    /\ tail' = 1
    /\ sys' = "install"
    /\ UNCHANGED <<disk, outstanding, committing, bufvars, pc, used, crashes>>

\* Mutant: the reference of the pin is kept.
NoBunpin(b) == refcnt

\* refcnt after bunpin(b).
Bunpin(b) == [refcnt EXCEPT ![b] = @ - 1]

\* One iteration of install_trans: log block to home block, through the cache.
InstallBlock(recovering) ==
    /\ tail <= Len(lh)
    /\ holder[lh[tail]] = NoProc
    /\ home' = [home EXCEPT ![lh[tail]] = logdata[tail]]
    /\ cache' = [cache EXCEPT ![lh[tail]] = logdata[tail]]
    /\ refcnt' = IF recovering THEN refcnt ELSE Bunpin(lh[tail])
    /\ tail' = tail + 1
    /\ UNCHANGED <<logdata, header, logvars, holder, pc, used, sys, crashes>>

\* Mutant: the header on the disk is not erased.
ClearHeadMemory ==
    /\ tail > Len(lh)
    /\ lh' = <<>>
    /\ UNCHANGED header

\* lh.n = 0; write_head() erases the transaction from the log.
ClearHead ==
    /\ tail > Len(lh)
    /\ lh' = <<>>
    /\ header' = <<>>

RecoverInstall == sys = "install" /\ InstallBlock(TRUE)

\* Mutant: the log is erased before it is installed.
RecoverClearEarly ==
    /\ sys = "install"
    /\ lh' = <<>>
    /\ header' = <<>>
    /\ sys' = "up"
    /\ UNCHANGED <<home, logdata, outstanding, committing, bufvars, pc, used,
                   tail, crashes>>

RecoverClear ==
    /\ sys = "install"
    /\ ClearHead
    /\ sys' = "up"
    /\ UNCHANGED <<home, logdata, outstanding, committing, bufvars, pc, used,
                   tail, crashes>>

-----------------------------------------------------------------------------
(* The buffer cache as the file system uses it.  A process holds one       *)
(* buffer at a time.                                                       *)

Bread(p, b) ==
    /\ sys = "up"
    /\ pc[p] \in {"user", "op"}
    /\ HoldsNone(p)
    /\ holder[b] = NoProc
    /\ holder' = [holder EXCEPT ![b] = p]
    /\ refcnt' = [refcnt EXCEPT ![b] = @ + 1]
    /\ cache' = [cache EXCEPT ![b] = Content(b)]
    /\ UNCHANGED <<disk, logvars, pc, used, tail, sys, crashes>>

Brelse(p, b) ==
    /\ sys = "up"
    /\ holder[b] = p
    /\ holder' = [holder EXCEPT ![b] = NoProc]
    /\ refcnt' = [refcnt EXCEPT ![b] = @ - 1]
    /\ UNCHANGED <<disk, logvars, cache, pc, used, tail, sys, crashes>>

\* bget recycles an unreferenced buffer for another block.
Recycle(b) ==
    /\ sys \in {"install", "up"}
    /\ refcnt[b] = 0
    /\ cache[b] # NoData
    /\ cache' = [cache EXCEPT ![b] = NoData]
    /\ UNCHANGED <<disk, logvars, refcnt, holder, pc, used, tail, sys, crashes>>

-----------------------------------------------------------------------------
(* Operations.                                                             *)

BeginOp(p) ==
    /\ sys = "up"
    /\ pc[p] \in {"user", "woken"}
    /\ HoldsNone(p)
    /\ \/ /\ NoRoom
          /\ pc' = [pc EXCEPT ![p] = "sleep"]
          /\ UNCHANGED outstanding
       \/ /\ ~NoRoom
          /\ outstanding' = outstanding + 1
          /\ pc' = [pc EXCEPT ![p] = "op"]
    /\ UNCHANGED <<disk, lh, committing, bufvars, used, tail, sys, crashes>>

\* The holder of b modifies b->data and calls log_write(b).
LogWrite(p, b, v) ==
    /\ sys = "up"
    /\ pc[p] = "op"
    /\ holder[b] = p
    /\ Cardinality(used[p] \cup {b}) <= MAXOPBLOCKS
    /\ IF TooBig \/ outstanding < 1 THEN PanicNow
       ELSE /\ cache' = [cache EXCEPT ![b] = v]
            /\ used' = [used EXCEPT ![p] = @ \cup {b}]
            /\ IF b \in Logged           \* absorption
               THEN UNCHANGED <<lh, refcnt>>
               ELSE /\ lh' = Append(lh, b)
                    /\ refcnt' = [refcnt EXCEPT ![b] = @ + 1]   \* bpin
            /\ UNCHANGED <<disk, outstanding, committing, holder, pc, tail,
                           sys, crashes>>

EndOp(p) ==
    /\ sys = "up"
    /\ pc[p] = "op"
    /\ HoldsNone(p)
    /\ IF committing THEN PanicNow
       ELSE /\ outstanding' = outstanding - 1
            /\ used' = [used EXCEPT ![p] = {}]
            /\ IF outstanding = 1
               THEN /\ committing' = TRUE
                    /\ pc' = [pc EXCEPT ![p] = "write_log"]
                    /\ tail' = 1
               ELSE /\ pc' = Wakeup([pc EXCEPT ![p] = "user"])
                    /\ UNCHANGED <<committing, tail>>
            /\ UNCHANGED <<disk, lh, bufvars, sys, crashes>>

-----------------------------------------------------------------------------
(* commit(), run by the process whose end_op found no other operation.     *)

\* Mutant: the loop of write_log does not advance.
WriteLogStuck(p) ==
    /\ sys = "up"
    /\ pc[p] = "write_log"
    /\ tail <= Len(lh)
    /\ holder[lh[tail]] = NoProc
    /\ logdata' = [logdata EXCEPT ![tail] = Content(lh[tail])]
    /\ cache' = [cache EXCEPT ![lh[tail]] = Content(lh[tail])]
    /\ UNCHANGED <<home, header, logvars, refcnt, holder, pc, used, tail, sys,
                   crashes>>

\* One iteration of write_log: cached block to log block.
WriteLog(p) ==
    /\ sys = "up"
    /\ pc[p] = "write_log"
    /\ tail <= Len(lh)
    /\ holder[lh[tail]] = NoProc
    /\ logdata' = [logdata EXCEPT ![tail] = Content(lh[tail])]
    /\ cache' = [cache EXCEPT ![lh[tail]] = Content(lh[tail])]
    /\ tail' = tail + 1
    /\ UNCHANGED <<home, header, logvars, refcnt, holder, pc, used, sys,
                   crashes>>

\* write_head: the true point at which the transaction commits.
WriteHead(p) ==
    /\ sys = "up"
    /\ pc[p] = "write_log"
    /\ lh # <<>>
    /\ tail > Len(lh)
    /\ header' = lh
    /\ tail' = 1
    /\ pc' = [pc EXCEPT ![p] = "install"]
    /\ UNCHANGED <<home, logdata, logvars, bufvars, used, sys, crashes>>

Install(p) ==
    /\ sys = "up"
    /\ pc[p] = "install"
    /\ InstallBlock(FALSE)

CommitClear(p) ==
    /\ sys = "up"
    /\ pc[p] = "install"
    /\ ClearHead
    /\ pc' = [pc EXCEPT ![p] = "committed"]
    /\ UNCHANGED <<home, logdata, outstanding, committing, bufvars, used, tail,
                   sys, crashes>>

\* The tail of end_op; commit() does nothing for an empty transaction.
EndCommit(p) ==
    /\ sys = "up"
    /\ \/ pc[p] = "committed"
       \/ pc[p] = "write_log" /\ lh = <<>>
    /\ committing' = FALSE
    /\ pc' = Wakeup([pc EXCEPT ![p] = "user"])
    /\ UNCHANGED <<disk, lh, outstanding, bufvars, used, tail, sys, crashes>>

-----------------------------------------------------------------------------
\* panic() spins; power is cut at any time and the machine boots again.
PanicSpin == sys = "panic" /\ UNCHANGED vars

Crash ==
    /\ crashes < MaxCrashes
    /\ crashes' = crashes + 1
    /\ lh' = <<>>
    /\ outstanding' = 0
    /\ committing' = FALSE
    /\ cache' = [b \in Block |-> NoData]
    /\ refcnt' = [b \in Block |-> 0]
    /\ holder' = [b \in Block |-> NoProc]
    /\ pc' = [p \in Proc |-> "user"]
    /\ used' = [p \in Proc |-> {}]
    /\ tail' = 1
    /\ sys' = "read_head"
    /\ UNCHANGED disk

ProcStep(p) ==
    \/ BeginOp(p) \/ EndOp(p)
    \/ WriteLog(p) \/ WriteHead(p) \/ Install(p) \/ CommitClear(p)
    \/ EndCommit(p)
    \/ \E b \in Block : Brelse(p, b)

Next ==
    \/ ReadHead \/ RecoverInstall \/ RecoverClear
    \/ \E p \in Proc :
          \/ ProcStep(p)
          \/ \E b \in Block : Bread(p, b) \/ \E v \in Data : LogWrite(p, b, v)
    \/ \E b \in Block : Recycle(b)
    \/ PanicSpin
    \/ Crash

Spec == Init /\ [][Next]_vars

(* A process that can go on is scheduled, and so is recovery.  This says    *)
(* nothing of a lock that is free only now and then: acquiresleep has no   *)
(* queue, and a process that waits in it may find the lock taken again.    *)
Fairness ==
    /\ WF_vars(ReadHead \/ RecoverInstall \/ RecoverClear)
    /\ \A p \in Proc :
          /\ WF_vars(EndOp(p))
          /\ WF_vars(\E b \in Block : Brelse(p, b))
          /\ WF_vars(WriteLog(p) \/ WriteHead(p) \/ Install(p)
                        \/ CommitClear(p) \/ EndCommit(p))

FairSpec == Spec /\ Fairness

-----------------------------------------------------------------------------
(* Properties.                                                             *)

TypeOK ==
    /\ home \in [Block -> Data]
    /\ logdata \in [1 .. NLOG - 1 -> Data]
    /\ header \in Seq(Block)
    /\ lh \in Seq(Block)
    /\ outstanding \in Nat
    /\ committing \in BOOLEAN
    /\ cache \in [Block -> Data \cup {NoData}]
    /\ refcnt \in [Block -> Nat]
    /\ holder \in [Block -> Proc \cup {NoProc}]
    /\ pc \in [Proc -> {"user", "sleep", "woken", "op", "write_log",
                        "install", "committed"}]
    /\ used \in [Proc -> SUBSET Block]
    /\ tail \in Nat \ {0}
    /\ sys \in {"read_head", "install", "up", "panic"}
    /\ crashes \in 0 .. MaxCrashes

\* What block b holds once recovery has run on the present disk.
Recovered(b) ==
    IF \E i \in 1 .. Len(header) : header[i] = b
    THEN logdata[CHOOSE i \in 1 .. Len(header) : header[i] = b]
    ELSE home[b]

AbsMem ==
    [b \in Block |-> IF sys \in {"read_head", "install"} THEN Recovered(b)
                     ELSE Content(b)]

AbsDurable == [b \in Block |-> Recovered(b)]

AbsOps == {p \in Proc : pc[p] = "op"}

Abs == INSTANCE AtomicDisk
         WITH ops <- AbsOps, mem <- AbsMem, durable <- AbsDurable

\* Crash atomicity (log.c:10-31): what a crash at any point leaves, after
\* recovery, is the effect of all operations up to some moment at which none
\* was in progress, and until then every bread returns the newest data.
AbsSpec == Abs!Spec

\* The blocks operation p may still log, one token each.
Slack ==
    {t \in Proc \X (1 .. MAXOPBLOCKS) :
        pc[t[1]] = "op" /\ t[2] > Cardinality(used[t[1]])}

\* begin_op's admission test (log.c:133): whatever the admitted operations
\* may still log fits in the header beside what is already logged, so an
\* operation that stays within MAXOPBLOCKS finds room for each new block.
ReservationInv == Len(lh) + Cardinality(Slack) <= LOGSIZE

\* Blocks whose only copy of the newest data is in the cache, or that
\* install_trans has not unpinned yet.
Pinned ==
    IF sys \in {"read_head", "install"} THEN {}
    ELSE IF \E p \in Proc : pc[p] = "install"
         THEN {lh[i] : i \in tail .. Len(lh)}
         ELSE Logged

\* bpin and bunpin balance (log_write, install_trans): a buffer is counted
\* once for its holder and once while its block is in the transaction.
PinInv ==
    \A b \in Block :
        refcnt[b] = (IF holder[b] = NoProc THEN 0 ELSE 1)
                    + (IF b \in Pinned THEN 1 ELSE 0)

\* No lost wakeup in begin_op: whoever sleeps on &log has someone to wake it,
\* an operation that will call end_op or a commit in progress.
SleeperHasWaker ==
    (\E p \in Proc : pc[p] = "sleep") => outstanding > 0 \/ committing

(* The parts of the inductive invariant that the crash-atomicity proof     *)
(* needs besides TypeOK, ReservationInv and PinInv.                        *)

Booting == sys \in {"read_head", "install"}

Committer(p) == pc[p] \in {"write_log", "install", "committed"}

Injective(s) == \A i, j \in 1 .. Len(s) : s[i] = s[j] => i = j

\* During recovery nothing else runs and the transaction is the one on disk.
BootInv ==
    Booting =>
        /\ outstanding = 0 /\ ~committing
        /\ pc = [p \in Proc |-> "user"]
        /\ holder = [b \in Block |-> NoProc]
        /\ lh = IF sys = "install" THEN header ELSE <<>>

\* log.outstanding counts the operations; only a commit that finds none runs.
OpsInv ==
    /\ outstanding = Cardinality(AbsOps)
    /\ committing => outstanding = 0
    /\ \A p \in Proc : Committer(p) => committing
    /\ \A p, q \in Proc : Committer(p) /\ Committer(q) => p = q
    /\ committing => \E p \in Proc : Committer(p)

\* An operation is charged only for blocks that are in the transaction.
UsedInv ==
    \A p \in Proc : used[p] \subseteq (IF pc[p] = "op" THEN Logged ELSE {})

\* No block is logged twice, the transaction fits in the log, and the header
\* on the disk is empty except between the commit point and the erase.
HeaderInv ==
    /\ Injective(lh) /\ Len(lh) <= NLOG - 1
    /\ Injective(header) /\ Len(header) <= NLOG - 1 /\ Len(header) <= LOGSIZE
    /\ ~Booting =>
          header = IF \E p \in Proc : pc[p] = "install" THEN lh ELSE <<>>
    /\ \A p \in Proc : pc[p] = "committed" => lh = <<>>

\* Where the copies of a block agree: unlogged blocks are clean, the log
\* holds what write_log copied, home holds what install_trans installed.
CopyInv ==
    /\ \A b \in Block : Booting \/ b \notin Logged => Content(b) = home[b]
    /\ \A p \in Proc : pc[p] = "write_log" =>
          \A i \in 1 .. Len(lh) : i < tail => logdata[i] = Content(lh[i])
    /\ \A p \in Proc : pc[p] = "install" =>
          \A i \in 1 .. Len(lh) : logdata[i] = Content(lh[i])
    /\ (sys = "install" \/ \E p \in Proc : pc[p] = "install") =>
          \A i \in 1 .. Len(lh) : i < tail => logdata[i] = home[lh[i]]

\* Between transactions the log is empty, so a lone operation always fits.
IdleInv == ~Booting /\ outstanding = 0 /\ ~committing => lh = <<>>

\* All of the above: what makes a crash at any point harmless.
LogInv ==
    /\ TypeOK /\ BootInv /\ OpsInv /\ UsedInv /\ HeaderInv /\ CopyInv /\ PinInv
    /\ ReservationInv /\ IdleInv /\ SleeperHasWaker

\* Somebody has locked a buffer that the running commit will need.
Contended == committing /\ \E b \in Logged : holder[b] # NoProc

\* Recovery ends once the crashes stop.  A commit that has begun ends, unless
\* processes lock the blocks it has to copy again and again; they may use all
\* other blocks as they like.  And whoever sleeps in begin_op is woken, unless
\* the operations it waits for never stop reading.
LogEnds ==
    /\ (sys = "read_head") ~> (sys = "up")
    /\ <>[]~Contended => (committing ~> ~committing)
    /\ <>[](\A b \in Block : holder[b] = NoProc)
          => \A p \in Proc : pc[p] = "sleep" ~> pc[p] # "sleep"

=============================================================================
