-------------------------- MODULE LogCommitProofs ---------------------------
(***************************************************************************)
(* Proofs about Log, second part: the steps of commit() preserve LogInv.   *)
(***************************************************************************)
EXTENDS LogOpProofs

\* Write_log copies one cached block into the log.
LEMMA WriteLogInv ==
    ASSUME LogInv, NEW p \in Proc, WriteLog(p)
    PROVE  LogInv'
<1> USE LogAssumption DEF WriteLog, disk, logvars, bufvars
<1>0. /\ TypeOK /\ BootInv /\ OpsInv /\ UsedInv /\ HeaderInv /\ CopyInv /\ PinInv
      /\ ReservationInv /\ IdleInv /\ SleeperHasWaker
  BY DEF LogInv
<1>a. \A q \in Proc : Committer(q) <=> q = p
  BY <1>0 DEF OpsInv, Committer
<1>i. tail \in 1 .. Len(lh) /\ tail \in 1 .. NLOG - 1 /\ lh[tail] \in Block
  BY <1>0 DEF TypeOK, HeaderInv
<1>c. \A c \in Block : Content(c) \in Data /\ Content(c)' = Content(c)
  BY <1>i, <1>0 DEF Content, TypeOK
<1>1. TypeOK'
  <2>1. logdata' \in [1 .. NLOG - 1 -> Data] /\ cache' \in [Block -> Data \cup {NoData}]
    BY <1>i, <1>c, <1>0 DEF TypeOK
  <2>2. tail' \in Nat \ {0}
    BY <1>0 DEF TypeOK
  <2> QED
    BY <2>1, <2>2, <1>0 DEF TypeOK
<1>2. BootInv'
  BY <1>0 DEF BootInv, Booting
<1>3. OpsInv'
  BY <1>0 DEF OpsInv, AbsOps, Committer, TypeOK
<1>4. UsedInv'
  BY <1>0 DEF UsedInv, Logged, TypeOK
<1>5. HeaderInv'
  BY <1>0 DEF HeaderInv, Booting, Injective
<1>6. CopyInv'
  <2>1. \A i \in 1 .. Len(lh) : lh[i] \in Block
    BY <1>0 DEF TypeOK
  <2>2. ASSUME NEW i \in 1 .. Len(lh), i < tail' PROVE logdata'[i] = Content(lh[i])'
    <3>1. CASE i = tail
      BY <3>1, <1>i, <1>c, <1>0 DEF TypeOK
    <3>2. CASE i # tail
      BY <2>2, <3>2, <2>1, <1>c, <1>0 DEF CopyInv, TypeOK
    <3> QED
      BY <3>1, <3>2
  <2>3. \A q \in Proc : pc[q] # "install"
    BY <1>a DEF Committer
  <2> QED
    BY <2>2, <2>3, <1>c, <1>0 DEF CopyInv, Booting, Logged
<1>7. PinInv'
  <2>1. Pinned' = Pinned
    BY <1>a DEF Pinned, Logged, Committer
  <2> QED
    BY <2>1, <1>0 DEF PinInv
<1>8. ReservationInv'
  BY <1>0 DEF ReservationInv, Slack
<1>9. IdleInv'
  BY <1>0 DEF IdleInv, Booting
<1>10. SleeperHasWaker'
  BY <1>0 DEF SleeperHasWaker, TypeOK
<1> QED
  BY <1>1, <1>2, <1>3, <1>4, <1>5, <1>6, <1>7, <1>8, <1>9, <1>10 DEF LogInv

\* Write_head makes the transaction the one on the disk.
LEMMA WriteHeadInv ==
    ASSUME LogInv, NEW p \in Proc, WriteHead(p)
    PROVE  LogInv'
<1> USE LogAssumption DEF WriteHead, disk, logvars, bufvars
<1>0. /\ TypeOK /\ BootInv /\ OpsInv /\ UsedInv /\ HeaderInv /\ CopyInv /\ PinInv
      /\ ReservationInv /\ IdleInv /\ SleeperHasWaker
  BY DEF LogInv
<1>a. \A q \in Proc : Committer(q) <=> q = p
  BY <1>0 DEF OpsInv, Committer
<1>c. \A q \in Proc : (Committer(q)' <=> q = p) /\ (pc'[q] = "op" <=> pc[q] = "op")
  BY <1>a, <1>0 DEF Committer, TypeOK
<1>1. TypeOK'
  BY <1>0 DEF TypeOK
<1>2. BootInv'
  BY <1>0 DEF BootInv, Booting
<1>3. OpsInv'
  <2>1. AbsOps' = AbsOps
    BY <1>c DEF AbsOps
  <2> QED
    BY <2>1, <1>a, <1>c, <1>0 DEF OpsInv
<1>4. UsedInv'
  BY <1>c, <1>0 DEF UsedInv, Logged, TypeOK
<1>5. HeaderInv'
  <2>1. Len(lh) <= LOGSIZE
    BY <1>0, SlackFacts DEF ReservationInv, TypeOK
  <2>2. pc'[p] = "install" /\ \A q \in Proc : pc'[q] # "committed"
    BY <1>c, <1>0 DEF Committer, TypeOK
  <2> QED
    BY <2>1, <2>2, <1>0 DEF HeaderInv, Injective
<1>6. CopyInv'
  <2>1. \A i \in 1 .. Len(lh) : i < tail /\ ~(i < tail')
    BY <1>0 DEF TypeOK
  <2>2. \A q \in Proc : pc'[q] # "write_log"
    BY <1>c, <1>0 DEF Committer, TypeOK
  <2> QED
    BY <2>1, <2>2, <1>0 DEF CopyInv, Content, Booting, Logged
<1>7. PinInv'
  <2>1. Pinned = Logged
    BY <1>a DEF Pinned, Committer
  <2>2. pc'[p] = "install"
    BY <1>0 DEF TypeOK
  <2>3. Pinned' = Logged
    BY <2>2 DEF Pinned, Logged
  <2> QED
    BY <2>1, <2>3, <1>0 DEF PinInv
<1>8. ReservationInv'
  <2>1. Slack' = Slack
    BY <1>c DEF Slack
  <2> QED
    BY <2>1, <1>0 DEF ReservationInv
<1>9. IdleInv'
  BY <1>0 DEF IdleInv, Booting
<1>10. SleeperHasWaker'
  BY <1>0 DEF SleeperHasWaker, TypeOK
<1> QED
  BY <1>1, <1>2, <1>3, <1>4, <1>5, <1>6, <1>7, <1>8, <1>9, <1>10 DEF LogInv

\* Install_trans(0) copies one log block home and unpins its buffer.
LEMMA InstallInv ==
    ASSUME LogInv, NEW p \in Proc, Install(p)
    PROVE  LogInv'
<1> USE LogAssumption DEF disk, logvars, bufvars
<1>0. /\ TypeOK /\ BootInv /\ OpsInv /\ UsedInv /\ HeaderInv /\ CopyInv /\ PinInv
      /\ ReservationInv /\ IdleInv /\ SleeperHasWaker
  BY DEF LogInv
<1>h. /\ sys = "up" /\ pc[p] = "install" /\ tail <= Len(lh) /\ holder[lh[tail]] = NoProc
      /\ home' = [home EXCEPT ![lh[tail]] = logdata[tail]]
      /\ cache' = [cache EXCEPT ![lh[tail]] = logdata[tail]]
      /\ refcnt' = [refcnt EXCEPT ![lh[tail]] = @ - 1]
      /\ tail' = tail + 1
      /\ UNCHANGED <<logdata, header, lh, outstanding, committing, holder, pc, used,
                     sys, crashes>>
  BY DEF Install, InstallBlock, Bunpin
<1>a. \A q \in Proc : Committer(q) <=> q = p
  BY <1>h, <1>0 DEF OpsInv, Committer
<1>i. tail \in 1 .. Len(lh) /\ tail \in 1 .. NLOG - 1 /\ lh[tail] \in Block
  BY <1>h, <1>0 DEF TypeOK, HeaderInv
<1>d. logdata[tail] \in Data /\ Content(lh[tail]) = logdata[tail]
  BY <1>h, <1>i, <1>0 DEF CopyInv, TypeOK
<1>c. \A c \in Block : Content(c)' = Content(c)
  BY <1>h, <1>i, <1>d, <1>0 DEF Content, TypeOK
<1>r. Pinned = {lh[i] : i \in tail .. Len(lh)} /\ Pinned' = {lh[i] : i \in tail + 1 .. Len(lh)}
  BY <1>h DEF Pinned
<1>q. lh[tail] \in Pinned /\ Pinned' = Pinned \ {lh[tail]}
  <2>1. tail .. Len(lh) = {tail} \cup (tail + 1 .. Len(lh))
    BY <1>h, <1>i, <1>0 DEF TypeOK
  <2>2. \A i \in tail + 1 .. Len(lh) : lh[i] # lh[tail]
    <3>1. \A i \in tail + 1 .. Len(lh) : i \in 1 .. Len(lh) /\ i # tail
      BY <1>i, <1>0 DEF TypeOK
    <3> QED
      BY <3>1, <1>i, <1>0 DEF HeaderInv, Injective
  <2> QED
    BY <2>1, <2>2, <1>r
<1>1. TypeOK'
  <2>0. refcnt[lh[tail]] = (IF holder[lh[tail]] = NoProc THEN 0 ELSE 1)
                           + (IF lh[tail] \in Pinned THEN 1 ELSE 0)
    BY <1>i, <1>0, <1>h DEF PinInv
  <2>1. refcnt[lh[tail]] = 1
    BY ONLY <2>0, <1>q, <1>h
  <2>2. refcnt' \in [Block -> Nat]
    BY <2>1, <1>i, <1>0, <1>h DEF TypeOK
  <2>3. home' \in [Block -> Data] /\ cache' \in [Block -> Data \cup {NoData}]
    BY <1>d, <1>0, <1>h DEF TypeOK
  <2>4. tail' \in Nat \ {0}
    BY <1>0, <1>h DEF TypeOK
  <2> QED
    BY <2>2, <2>3, <2>4, <1>0, <1>h DEF TypeOK
<1>2. BootInv'
  BY <1>0, <1>h DEF BootInv, Booting
<1>3. OpsInv'
  BY <1>0, <1>h DEF OpsInv, AbsOps, Committer, TypeOK
<1>4. UsedInv'
  BY <1>0, <1>h DEF UsedInv, Logged
<1>5. HeaderInv'
  BY <1>0, <1>h DEF HeaderInv, Booting, Injective
<1>6. CopyInv'
  <2>1. \A i \in 1 .. Len(lh) : lh[i] \in Block
    BY <1>0, <1>h DEF TypeOK
  <2>2. \A c \in Block : c \notin Logged => Content(c)' = home'[c]
    BY <1>i, <1>c, <1>0, <1>h DEF CopyInv, Logged, TypeOK
  <2>3. ASSUME NEW i \in 1 .. Len(lh), i < tail' PROVE logdata[i] = home'[lh[i]]
    <3>1. CASE i = tail
      BY <3>1, <1>i, <1>0, <1>h DEF TypeOK
    <3>2. CASE i # tail
      <4>1. i < tail /\ lh[i] # lh[tail]
        BY <2>3, <3>2, <1>i, <1>0, <1>h DEF HeaderInv, Injective, TypeOK
      <4> QED
        BY <4>1, <2>1, <1>0, <1>h DEF CopyInv, TypeOK
    <3> QED
      BY <3>1, <3>2
  <2>4. \A q \in Proc : pc[q] # "write_log"
    BY <1>a, <1>h DEF Committer
  <2>5. ~Booting' /\ Logged' = Logged /\ sys' # "install"
    BY <1>h DEF Booting, Logged
  <2>6. \A q \in Proc : pc'[q] = "install" =>
           \A i \in 1 .. Len(lh') : logdata'[i] = Content(lh[i])'
    BY <2>1, <1>c, <1>0, <1>h DEF CopyInv
  <2>7. \A i \in 1 .. Len(lh') : i < tail' => logdata'[i] = home'[lh'[i]]
    BY <2>3, <1>h
  <2>8. UNCHANGED pc
    BY <1>h
  <2> QED
    BY ONLY <2>2, <2>4, <2>5, <2>6, <2>7, <2>8 DEF CopyInv
<1>7. PinInv'
  <2> SUFFICES ASSUME NEW c \in Block
               PROVE  refcnt'[c] = (IF holder'[c] = NoProc THEN 0 ELSE 1)
                                   + (IF c \in Pinned' THEN 1 ELSE 0)
    BY DEF PinInv
  <2>1. refcnt[c] = (IF holder[c] = NoProc THEN 0 ELSE 1) + (IF c \in Pinned THEN 1 ELSE 0)
    BY <1>0 DEF PinInv
  <2>2. CASE c = lh[tail]
    <3>1. refcnt'[c] = refcnt[c] - 1
      BY <2>2, <1>h, <1>0 DEF TypeOK
    <3> QED
      BY ONLY <2>1, <2>2, <3>1, <1>q, <1>h
  <2>3. CASE c # lh[tail]
    BY <2>1, <2>3, <1>q, <1>h, <1>0 DEF TypeOK
  <2> QED
    BY <2>2, <2>3
<1>8. ReservationInv'
  BY <1>0, <1>h DEF ReservationInv, Slack
<1>9. IdleInv'
  BY <1>0, <1>h DEF IdleInv, Booting
<1>10. SleeperHasWaker'
  BY <1>0, <1>h DEF SleeperHasWaker, TypeOK
<1> QED
  BY <1>1, <1>2, <1>3, <1>4, <1>5, <1>6, <1>7, <1>8, <1>9, <1>10 DEF LogInv

\* Commit erases the transaction once every block is home.
LEMMA CommitClearInv ==
    ASSUME LogInv, NEW p \in Proc, CommitClear(p)
    PROVE  LogInv'
<1> USE LogAssumption DEF CommitClear, ClearHead, disk, logvars, bufvars
<1>0. /\ TypeOK /\ BootInv /\ OpsInv /\ UsedInv /\ HeaderInv /\ CopyInv /\ PinInv
      /\ ReservationInv /\ IdleInv /\ SleeperHasWaker
  BY DEF LogInv
<1>a. \A q \in Proc : Committer(q) <=> q = p
  BY <1>0 DEF OpsInv, Committer
<1>c. /\ \A q \in Proc : (Committer(q)' <=> q = p) /\ (pc'[q] = "op" <=> pc[q] = "op")
      /\ \A q \in Proc : pc'[q] \notin {"write_log", "install"}
  BY <1>a, <1>0 DEF Committer, TypeOK
<1>d. \A i \in 1 .. Len(lh) : i < tail
  BY <1>0 DEF TypeOK
<1>l. Logged' = {}
  BY DEF Logged
<1>1. TypeOK'
  BY <1>0 DEF TypeOK
<1>2. BootInv'
  BY <1>0 DEF BootInv, Booting
<1>3. OpsInv'
  <2>1. AbsOps' = AbsOps
    BY <1>c DEF AbsOps
  <2> QED
    BY <2>1, <1>a, <1>c, <1>0 DEF OpsInv
<1>4. UsedInv'
  <2>1. \A q \in Proc : pc[q] # "op"
    BY <1>a, <1>0, OpsFacts DEF OpsInv, AbsOps
  <2> QED
    BY <2>1, <1>c, <1>0 DEF UsedInv
<1>5. HeaderInv'
  BY <1>c, <1>0 DEF HeaderInv, Injective
<1>6. CopyInv'
  <2>1. \A i \in 1 .. Len(lh) : Content(lh[i]) = home[lh[i]]
    BY <1>d, <1>0 DEF CopyInv
  <2>2. \A c \in Block : Content(c) = home[c]
    BY <2>1, <1>0 DEF CopyInv, Logged
  <2> QED
    BY <2>2, <1>c DEF CopyInv, Content, Booting
<1>7. PinInv'
  <2>1. Pinned = {}
    BY <1>d, <1>0 DEF Pinned, TypeOK
  <2>2. Pinned' = {}
    BY <1>c, <1>l DEF Pinned
  <2> QED
    BY <2>1, <2>2, <1>0 DEF PinInv
<1>8. ReservationInv'
  <2>1. Slack' = Slack
    BY <1>c DEF Slack
  <2>2. Len(lh) \in Nat /\ Len(lh') = 0
    BY <1>0 DEF TypeOK
  <2> QED
    BY <2>1, <2>2, <1>0, SlackFacts DEF ReservationInv
<1>9. IdleInv'
  BY DEF IdleInv
<1>10. SleeperHasWaker'
  BY <1>0 DEF SleeperHasWaker, TypeOK
<1> QED
  BY <1>1, <1>2, <1>3, <1>4, <1>5, <1>6, <1>7, <1>8, <1>9, <1>10 DEF LogInv

\* End_op clears committing and wakes the sleepers.
LEMMA EndCommitInv ==
    ASSUME LogInv, NEW p \in Proc, EndCommit(p)
    PROVE  LogInv'
<1> USE LogAssumption DEF EndCommit, Wakeup, disk, logvars, bufvars
<1>0. /\ TypeOK /\ BootInv /\ OpsInv /\ UsedInv /\ HeaderInv /\ CopyInv /\ PinInv
      /\ ReservationInv /\ IdleInv /\ SleeperHasWaker
  BY DEF LogInv
<1>a. \A q \in Proc : Committer(q) <=> q = p
  BY <1>0 DEF OpsInv, Committer
<1>c. \A q \in Proc : /\ pc'[q] \notin {"sleep", "write_log", "install", "committed"}
                      /\ ~Committer(q)'
                      /\ pc'[q] = "op" <=> pc[q] = "op"
  BY <1>a, <1>0 DEF Committer, TypeOK
<1>l. lh = <<>>
  BY <1>0 DEF HeaderInv
<1>1. TypeOK'
  BY <1>0 DEF TypeOK
<1>2. BootInv'
  BY <1>0 DEF BootInv, Booting
<1>3. OpsInv'
  <2>1. AbsOps' = AbsOps
    BY <1>c DEF AbsOps
  <2>2. ~committing' /\ outstanding' = outstanding
    OBVIOUS
  <2>3. \A q \in Proc : ~Committer(q)'
    BY <1>c
  <2>4. outstanding = Cardinality(AbsOps)
    BY <1>0 DEF OpsInv
  <2> QED
    BY ONLY <2>1, <2>2, <2>3, <2>4 DEF OpsInv
<1>4. UsedInv'
  BY <1>c, <1>0 DEF UsedInv, Logged
<1>5. HeaderInv'
  BY <1>a, <1>c, <1>0 DEF HeaderInv, Booting, Injective, Committer
<1>6. CopyInv'
  <2>1. \A c \in Block : Content(c)' = Content(c)
    BY DEF Content
  <2>2. UNCHANGED <<Booting, Logged, home>> /\ sys' # "install"
    BY DEF Booting, Logged
  <2>3. \A c \in Block : Booting \/ c \notin Logged => Content(c) = home[c]
    BY <1>0 DEF CopyInv
  <2> QED
    BY ONLY <2>1, <2>2, <2>3, <1>c DEF CopyInv
<1>7. PinInv'
  <2>1. Pinned' = Pinned
    BY <1>a, <1>c DEF Pinned, Logged, Committer
  <2> QED
    BY <2>1, <1>0 DEF PinInv
<1>8. ReservationInv'
  <2>1. Slack' = Slack
    BY <1>c DEF Slack
  <2> QED
    BY <2>1, <1>0 DEF ReservationInv
<1>9. IdleInv'
  BY <1>l DEF IdleInv
<1>10. SleeperHasWaker'
  BY <1>c DEF SleeperHasWaker
<1> QED
  BY <1>1, <1>2, <1>3, <1>4, <1>5, <1>6, <1>7, <1>8, <1>9, <1>10 DEF LogInv

=============================================================================
