----------------------------- MODULE LogProofs ------------------------------
(***************************************************************************)
(* Proofs about Log, third part: recovery, the buffer cache and crashes    *)
(* preserve LogInv, and the theorems that follow.                          *)
(***************************************************************************)
EXTENDS LogCommitProofs

\* Read_head copies the header into log.lh; nothing runs yet.
LEMMA ReadHeadInv ==
    ASSUME LogInv, ReadHead
    PROVE  LogInv'
<1> USE LogAssumption DEF ReadHead, disk, logvars, bufvars
<1>0. /\ TypeOK /\ BootInv /\ OpsInv /\ UsedInv /\ HeaderInv /\ CopyInv /\ PinInv
      /\ ReservationInv /\ IdleInv /\ SleeperHasWaker
  BY DEF LogInv
<1>1. TypeOK'
  BY <1>0 DEF TypeOK, BootInv, Booting, HeaderInv
<1>2. BootInv'
  BY <1>0 DEF BootInv, Booting
<1>3. OpsInv'
  BY <1>0 DEF OpsInv, AbsOps, Committer, TypeOK
<1>4. UsedInv'
  BY <1>0 DEF UsedInv, BootInv, Booting
<1>5. HeaderInv'
  BY <1>0 DEF HeaderInv, Booting, Injective, BootInv, TypeOK
<1>6. CopyInv'
  BY <1>0 DEF CopyInv, Booting, Content, BootInv, TypeOK
<1>7. PinInv'
  BY <1>0 DEF PinInv, Pinned, Booting
<1>8. ReservationInv'
  <2>1. \A q \in Proc : pc[q] = "user"
    BY <1>0 DEF BootInv, Booting
  <2>2. Slack' = {}
    BY <2>1 DEF Slack
  <2> QED
    BY <2>2, <1>0, FS_EmptySet DEF ReservationInv, HeaderInv, TypeOK
<1>9. IdleInv'
  BY <1>0 DEF IdleInv, Booting
<1>10. SleeperHasWaker'
  BY <1>0 DEF SleeperHasWaker, BootInv, Booting
<1> QED
  BY <1>1, <1>2, <1>3, <1>4, <1>5, <1>6, <1>7, <1>8, <1>9, <1>10 DEF LogInv

\* Install_trans(1) redoes one logged block.
LEMMA RecoverInstallInv ==
    ASSUME LogInv, RecoverInstall
    PROVE  LogInv'
<1> USE LogAssumption DEF RecoverInstall, InstallBlock, disk, logvars, bufvars
<1>0. /\ TypeOK /\ BootInv /\ OpsInv /\ UsedInv /\ HeaderInv /\ CopyInv /\ PinInv
      /\ ReservationInv /\ IdleInv /\ SleeperHasWaker
  BY DEF LogInv
<1>1. TypeOK'
  BY <1>0 DEF TypeOK, BootInv, Booting, HeaderInv
<1>2. BootInv'
  BY <1>0 DEF BootInv, Booting
<1>3. OpsInv'
  BY <1>0 DEF OpsInv, AbsOps, Committer, TypeOK
<1>4. UsedInv'
  BY <1>0 DEF UsedInv, Logged, TypeOK
<1>5. HeaderInv'
  BY <1>0 DEF HeaderInv, Booting
<1>6. CopyInv'
  <2>1. Booting /\ lh[tail] \in Block
    BY <1>0 DEF Booting, TypeOK
  <2>2. \A c \in Block : Content(c)' = home'[c]
    BY <2>1, <1>0 DEF CopyInv, Content, TypeOK, HeaderInv
  <2>3. ASSUME NEW i \in 1 .. Len(lh), i < tail' PROVE logdata[i] = home'[lh[i]]
    <3>1. CASE i = tail
      BY <3>1, <2>1, <1>0 DEF TypeOK
    <3>2. CASE i # tail
      <4>1. i < tail /\ lh[i] # lh[tail]
        BY <2>3, <3>2, <1>0 DEF HeaderInv, Injective, TypeOK
      <4> QED
        BY <4>1, <1>0 DEF CopyInv, TypeOK
    <3> QED
      BY <3>1, <3>2
  <2>4. \A q \in Proc : pc[q] = "user"
    BY <2>1, <1>0 DEF BootInv
  <2> QED
    BY <2>2, <2>3, <2>4 DEF CopyInv
<1>7. PinInv'
  BY <1>0 DEF PinInv, Pinned, Logged, Booting, TypeOK, OpsInv, Committer
<1>8. ReservationInv'
  BY <1>0 DEF ReservationInv, Slack
<1>9. IdleInv'
  BY <1>0 DEF IdleInv, Booting
<1>10. SleeperHasWaker'
  BY <1>0 DEF SleeperHasWaker, TypeOK
<1> QED
  BY <1>1, <1>2, <1>3, <1>4, <1>5, <1>6, <1>7, <1>8, <1>9, <1>10 DEF LogInv

\* Recovery erases the log and the system is up.
LEMMA RecoverClearInv ==
    ASSUME LogInv, RecoverClear
    PROVE  LogInv'
<1> USE LogAssumption DEF RecoverClear, ClearHead, disk, logvars, bufvars
<1>0. /\ TypeOK /\ BootInv /\ OpsInv /\ UsedInv /\ HeaderInv /\ CopyInv /\ PinInv
      /\ ReservationInv /\ IdleInv /\ SleeperHasWaker
  BY DEF LogInv
<1>1. TypeOK'
  BY <1>0 DEF TypeOK, BootInv, Booting, HeaderInv
<1>2. BootInv'
  BY <1>0 DEF BootInv, Booting
<1>3. OpsInv'
  BY <1>0 DEF OpsInv, AbsOps, Committer, TypeOK
<1>4. UsedInv'
  BY <1>0 DEF UsedInv, BootInv, Booting
<1>5. HeaderInv'
  BY <1>0 DEF HeaderInv, Booting, Injective, BootInv, TypeOK
<1>6. CopyInv'
  BY <1>0 DEF CopyInv, Booting, Content, Logged, TypeOK, HeaderInv, BootInv, OpsInv, Committer
<1>7. PinInv'
  BY <1>0 DEF PinInv, Pinned, Logged, Booting, TypeOK, OpsInv, Committer
<1>8. ReservationInv'
  <2>1. \A q \in Proc : pc[q] = "user"
    BY <1>0 DEF BootInv, Booting
  <2>2. Slack' = {}
    BY <2>1 DEF Slack
  <2> QED
    BY <2>2, <1>0, FS_EmptySet DEF ReservationInv, HeaderInv, TypeOK
<1>9. IdleInv'
  BY <1>0 DEF IdleInv, Booting
<1>10. SleeperHasWaker'
  BY <1>0 DEF SleeperHasWaker, BootInv, Booting
<1> QED
  BY <1>1, <1>2, <1>3, <1>4, <1>5, <1>6, <1>7, <1>8, <1>9, <1>10 DEF LogInv

\* Bread locks a buffer and may fill it from its home block.
LEMMA BreadInv ==
    ASSUME LogInv, NEW p \in Proc, NEW b \in Block, Bread(p, b)
    PROVE  LogInv'
<1> USE LogAssumption DEF Bread, disk, logvars, bufvars
<1>0. /\ TypeOK /\ BootInv /\ OpsInv /\ UsedInv /\ HeaderInv /\ CopyInv /\ PinInv
      /\ ReservationInv /\ IdleInv /\ SleeperHasWaker
  BY DEF LogInv
<1>1. TypeOK'
  <2>1. Content(b) \in Data
    BY <1>0 DEF Content, TypeOK
  <2> QED
    BY <2>1, <1>0 DEF TypeOK
<1>2. BootInv'
  BY <1>0 DEF BootInv, Booting
<1>3. OpsInv'
  BY <1>0 DEF OpsInv, AbsOps, Committer, TypeOK
<1>4. UsedInv'
  BY <1>0 DEF UsedInv, Logged, TypeOK
<1>5. HeaderInv'
  BY <1>0 DEF HeaderInv, Booting
<1>6. CopyInv'
  <2>1. \A c \in Block : Content(c)' = Content(c)
    BY <1>0 DEF Content, TypeOK
  <2>2. UNCHANGED <<Booting, Logged>>
    BY DEF Booting, Logged
  <2>3. \A i \in 1 .. Len(lh) : lh[i] \in Block
    BY <1>0 DEF TypeOK
  <2> QED
    BY <2>1, <2>2, <2>3, <1>0 DEF CopyInv
<1>7. PinInv'
  <2>1. Pinned' = Pinned
    BY DEF Pinned, Logged
  <2> QED
    BY <2>1, <1>0 DEF PinInv, TypeOK
<1>8. ReservationInv'
  BY <1>0 DEF ReservationInv, Slack
<1>9. IdleInv'
  BY <1>0 DEF IdleInv, Booting
<1>10. SleeperHasWaker'
  BY <1>0 DEF SleeperHasWaker, TypeOK
<1> QED
  BY <1>1, <1>2, <1>3, <1>4, <1>5, <1>6, <1>7, <1>8, <1>9, <1>10 DEF LogInv

\* Brelse drops the lock and the reference bread took.
LEMMA BrelseInv ==
    ASSUME LogInv, NEW p \in Proc, NEW b \in Block, Brelse(p, b)
    PROVE  LogInv'
<1> USE LogAssumption DEF Brelse, disk, logvars, bufvars
<1>0. /\ TypeOK /\ BootInv /\ OpsInv /\ UsedInv /\ HeaderInv /\ CopyInv /\ PinInv
      /\ ReservationInv /\ IdleInv /\ SleeperHasWaker
  BY DEF LogInv
<1>1. TypeOK'
  <2>1. refcnt[b] = 1 + (IF b \in Pinned THEN 1 ELSE 0)
    BY <1>0 DEF PinInv
  <2>2. refcnt[b] - 1 \in Nat
    BY <2>1
  <2> QED
    BY <2>2, <1>0 DEF TypeOK
<1>2. BootInv'
  BY <1>0 DEF BootInv, Booting
<1>3. OpsInv'
  BY <1>0 DEF OpsInv, AbsOps, Committer, TypeOK
<1>4. UsedInv'
  BY <1>0 DEF UsedInv, Logged, TypeOK
<1>5. HeaderInv'
  BY <1>0 DEF HeaderInv, Booting
<1>6. CopyInv'
  <2>1. UNCHANGED <<Booting, Logged>> /\ \A c \in Block : Content(c)' = Content(c)
    BY DEF Booting, Logged, Content
  <2> QED
    BY <2>1, <1>0 DEF CopyInv, Content
<1>7. PinInv'
  <2>1. Pinned' = Pinned
    BY DEF Pinned, Logged
  <2> QED
    BY <2>1, <1>0 DEF PinInv, TypeOK
<1>8. ReservationInv'
  BY <1>0 DEF ReservationInv, Slack
<1>9. IdleInv'
  BY <1>0 DEF IdleInv, Booting
<1>10. SleeperHasWaker'
  BY <1>0 DEF SleeperHasWaker, TypeOK
<1> QED
  BY <1>1, <1>2, <1>3, <1>4, <1>5, <1>6, <1>7, <1>8, <1>9, <1>10 DEF LogInv

\* Bget may recycle a buffer nobody references: its block is not logged.
LEMMA RecycleInv ==
    ASSUME LogInv, NEW b \in Block, Recycle(b)
    PROVE  LogInv'
<1> USE LogAssumption DEF Recycle, disk, logvars, bufvars
<1>0. /\ TypeOK /\ BootInv /\ OpsInv /\ UsedInv /\ HeaderInv /\ CopyInv /\ PinInv
      /\ ReservationInv /\ IdleInv /\ SleeperHasWaker
  BY DEF LogInv
<1>1. TypeOK'
  BY <1>0 DEF TypeOK
<1>2. BootInv'
  BY <1>0 DEF BootInv, Booting
<1>3. OpsInv'
  BY <1>0 DEF OpsInv, AbsOps, Committer, TypeOK
<1>4. UsedInv'
  BY <1>0 DEF UsedInv, Logged, TypeOK
<1>5. HeaderInv'
  BY <1>0 DEF HeaderInv, Booting
<1>6. CopyInv'
  <2>0. b \notin Pinned
    <3>1. SUFFICES ASSUME b \in Pinned PROVE FALSE
      OBVIOUS
    <3>2. refcnt[b] = (IF holder[b] = NoProc THEN 0 ELSE 1) + 1
      BY <3>1, <1>0 DEF PinInv
    <3> QED
      BY <3>2
  <2>1. \/ b \notin Logged
        \/ Booting
        \/ \E q \in Proc : pc[q] = "install" /\ \A i \in tail .. Len(lh) : lh[i] # b
    BY <2>0 DEF Pinned, Logged, Booting
  <2>2. Content(b) = home[b]
    BY <2>1, <1>0 DEF CopyInv, Logged, TypeOK
  <2>3. \A c \in Block : Content(c)' = Content(c)
    BY <2>2, <1>0 DEF Content, TypeOK
  <2>4. UNCHANGED <<Booting, Logged>>
    BY DEF Booting, Logged
  <2>5. \A i \in 1 .. Len(lh) : lh[i] \in Block
    BY <1>0 DEF TypeOK
  <2> QED
    BY <2>3, <2>4, <2>5, <1>0 DEF CopyInv
<1>7. PinInv'
  <2>1. Pinned' = Pinned
    BY DEF Pinned, Logged
  <2> QED
    BY <2>1, <1>0 DEF PinInv, TypeOK
<1>8. ReservationInv'
  BY <1>0 DEF ReservationInv, Slack
<1>9. IdleInv'
  BY <1>0 DEF IdleInv, Booting
<1>10. SleeperHasWaker'
  BY <1>0 DEF SleeperHasWaker, TypeOK
<1> QED
  BY <1>1, <1>2, <1>3, <1>4, <1>5, <1>6, <1>7, <1>8, <1>9, <1>10 DEF LogInv

\* A crash keeps the disk only.
LEMMA CrashInv ==
    ASSUME LogInv, Crash
    PROVE  LogInv'
<1> USE LogAssumption DEF Crash, disk, logvars, bufvars
<1>0. /\ TypeOK /\ BootInv /\ OpsInv /\ UsedInv /\ HeaderInv /\ CopyInv /\ PinInv
      /\ ReservationInv /\ IdleInv /\ SleeperHasWaker
  BY DEF LogInv
<1>c. Booting' /\ \A q \in Proc : pc'[q] = "user"
  BY DEF Booting
<1>1. TypeOK'
  <2>1. home' \in [Block -> Data] /\ logdata' \in [1 .. NLOG - 1 -> Data]
    BY <1>0 DEF TypeOK
  <2>2. header' \in Seq(Block) /\ lh' \in Seq(Block)
    BY <1>0 DEF TypeOK
  <2>3. outstanding' \in Nat /\ tail' \in Nat \ {0} /\ crashes' \in 0 .. MaxCrashes
    BY <1>0 DEF TypeOK
  <2>4. committing' \in BOOLEAN
    BY <1>0 DEF TypeOK
  <2>5. /\ cache' \in [Block -> Data \cup {NoData}] /\ refcnt' \in [Block -> Nat]
        /\ holder' \in [Block -> Proc \cup {NoProc}]
    BY <1>0 DEF TypeOK
  <2>6. pc' \in [Proc -> {"user", "sleep", "woken", "op", "write_log", "install",
                         "committed"}]
    BY <1>0 DEF TypeOK
  <2>7. used' \in [Proc -> SUBSET Block] /\ sys' \in {"read_head", "install", "up", "panic"}
    BY <1>0 DEF TypeOK
  <2> QED
    BY ONLY <2>1, <2>2, <2>3, <2>4, <2>5, <2>6, <2>7 DEF TypeOK
<1>2. BootInv'
  BY DEF BootInv
<1>3. OpsInv'
  <2>1. AbsOps' = {}
    BY DEF AbsOps
  <2>2. Cardinality(AbsOps') = 0
    BY <2>1, FS_EmptySet
  <2> QED
    BY <2>2, <1>c DEF OpsInv, Committer
<1>4. UsedInv'
  BY DEF UsedInv
<1>5. HeaderInv'
  BY <1>c, <1>0 DEF HeaderInv, Injective
<1>6. CopyInv'
  BY <1>c DEF CopyInv, Content
<1>7. PinInv'
  BY <1>c DEF PinInv, Pinned, Booting
<1>8. ReservationInv'
  <2>1. Slack' = {}
    BY <1>c DEF Slack
  <2> QED
    BY <2>1, FS_EmptySet DEF ReservationInv
<1>9. IdleInv'
  BY <1>c DEF IdleInv
<1>10. SleeperHasWaker'
  BY <1>c DEF SleeperHasWaker
<1> QED
  BY <1>1, <1>2, <1>3, <1>4, <1>5, <1>6, <1>7, <1>8, <1>9, <1>10 DEF LogInv

\* The initial state: an empty log, nobody running.
LEMMA InitInv == Init => LogInv
<1> SUFFICES ASSUME Init PROVE LogInv
  OBVIOUS
<1> USE LogAssumption DEF Init
<1>1. Booting /\ \A q \in Proc : pc[q] = "user"
  BY DEF Booting
<1>2. TypeOK
  <2>1. home \in [Block -> Data] /\ logdata \in [1 .. NLOG - 1 -> Data]
    OBVIOUS
  <2>2. header \in Seq(Block) /\ lh \in Seq(Block)
    OBVIOUS
  <2>3. outstanding \in Nat /\ tail \in Nat \ {0} /\ crashes \in 0 .. MaxCrashes
    OBVIOUS
  <2>4. committing \in BOOLEAN
    OBVIOUS
  <2>5. /\ cache \in [Block -> Data \cup {NoData}] /\ refcnt \in [Block -> Nat]
        /\ holder \in [Block -> Proc \cup {NoProc}]
    OBVIOUS
  <2>6. pc \in [Proc -> {"user", "sleep", "woken", "op", "write_log", "install",
                         "committed"}]
    OBVIOUS
  <2>7. used \in [Proc -> SUBSET Block] /\ sys \in {"read_head", "install", "up", "panic"}
    OBVIOUS
  <2> QED
    BY ONLY <2>1, <2>2, <2>3, <2>4, <2>5, <2>6, <2>7 DEF TypeOK
<1>3. BootInv /\ UsedInv /\ IdleInv /\ SleeperHasWaker
  BY <1>1 DEF BootInv, UsedInv, IdleInv, SleeperHasWaker
<1>4. OpsInv
  <2>1. AbsOps = {}
    BY <1>1 DEF AbsOps
  <2>2. Cardinality(AbsOps) = 0
    BY <2>1, FS_EmptySet
  <2> QED
    BY <2>2, <1>1 DEF OpsInv, Committer
<1>5. HeaderInv
  BY <1>1 DEF HeaderInv, Injective
<1>6. CopyInv
  BY <1>1 DEF CopyInv, Content
<1>7. PinInv
  BY <1>1 DEF PinInv, Pinned, Booting
<1>8. ReservationInv
  <2>1. Slack = {}
    BY <1>1 DEF Slack
  <2> QED
    BY <2>1, FS_EmptySet DEF ReservationInv
<1> QED
  BY <1>2, <1>3, <1>4, <1>5, <1>6, <1>7, <1>8 DEF LogInv

\* A step that changes no variable keeps the invariant.
LEMMA StutterInv == ASSUME LogInv, UNCHANGED vars PROVE LogInv'
<1> USE DEF vars, disk, logvars, bufvars
<1>1. UNCHANGED <<Booting, AbsOps, Logged, Slack, Pinned>>
  BY DEF Booting, AbsOps, Logged, Slack, Pinned
<1>2. (\A p \in Proc : Committer(p)' <=> Committer(p)) /\ (\A b \in Block : Content(b)' = Content(b))
  BY DEF Committer, Content
<1>3. TypeOK'
  BY DEF LogInv, TypeOK
<1>4. BootInv' /\ OpsInv' /\ UsedInv' /\ ReservationInv' /\ IdleInv' /\ SleeperHasWaker'
  BY <1>1, <1>2 DEF LogInv, BootInv, OpsInv, UsedInv, ReservationInv, IdleInv, SleeperHasWaker
<1>5. HeaderInv' /\ PinInv'
  BY <1>1 DEF LogInv, HeaderInv, PinInv, Injective
<1>6. CopyInv'
  BY <1>1 DEF LogInv, CopyInv, Content
<1> QED
  BY <1>3, <1>4, <1>5, <1>6 DEF LogInv

\* LogInv is an invariant: through every interleaving of operations, commits,
\* buffer recycling, crashes and recoveries, the copies of each block in the
\* cache, the log and its home location agree as log.c relies on.
THEOREM LogInvariant == Spec => []LogInv
<1>1. ASSUME LogInv, [Next]_vars PROVE LogInv'
  <2>1. CASE ReadHead \/ RecoverInstall \/ RecoverClear
    BY <1>1, <2>1, ReadHeadInv, RecoverInstallInv, RecoverClearInv
  <2>2. ASSUME NEW p \in Proc, ProcStep(p) PROVE LogInv'
    BY <1>1, <2>2, BeginOpInv, EndOpInv, WriteLogInv, WriteHeadInv, InstallInv,
       CommitClearInv, EndCommitInv, BrelseInv DEF ProcStep
  <2>3. ASSUME NEW p \in Proc, NEW b \in Block,
               Bread(p, b) \/ \E v \in Data : LogWrite(p, b, v)
        PROVE  LogInv'
    BY <1>1, <2>3, BreadInv, LogWriteInv
  <2>4. ASSUME NEW b \in Block, Recycle(b) PROVE LogInv'
    BY <1>1, <2>4, RecycleInv
  <2>5. CASE PanicSpin \/ UNCHANGED vars
    BY <1>1, <2>5, StutterInv DEF PanicSpin
  <2>6. CASE Crash
    BY <1>1, <2>6, CrashInv
  <2> QED
    BY <1>1, <2>1, <2>2, <2>3, <2>4, <2>5, <2>6 DEF Next
<1> QED
  BY InitInv, <1>1, PTL DEF Spec

\* The fields of struct log, the buffers and the disk keep their types in all
\* of log.c's operations, crashes and recovery.
THEOREM TypeCorrect == Spec => []TypeOK
<1>1. LogInv => TypeOK
  BY DEF LogInv
<1> QED
  BY <1>1, LogInvariant, PTL

\* begin_op's reservation: an admitted operation that stays within MAXOPBLOCKS
\* always finds a free entry in the log header.
THEOREM Reservation == Spec => []ReservationInv
<1>1. LogInv => ReservationInv
  BY DEF LogInv
<1> QED
  BY <1>1, LogInvariant, PTL

\* bpin and bunpin balance: a buffer whose newest data is not home yet cannot
\* be recycled, and after install_trans nothing stays pinned.
THEOREM PinBalance == Spec => []PinInv
<1>1. LogInv => PinInv
  BY DEF LogInv
<1> QED
  BY <1>1, LogInvariant, PTL

\* No lost wakeup in begin_op: a sleeper always has an operation or a commit
\* that will wake it.
THEOREM NoLostWakeup == Spec => []SleeperHasWaker
<1>1. LogInv => SleeperHasWaker
  BY DEF LogInv
<1> QED
  BY <1>1, LogInvariant, PTL

=============================================================================
