---------------------------- MODULE LogOpProofs -----------------------------
(***************************************************************************)
(* Proofs about Log for every number of processes and blocks and every     *)
(* LOGSIZE, MAXOPBLOCKS and NLOG, first part: facts about the sets the     *)
(* invariant counts, and begin_op, log_write and end_op preserve LogInv.   *)
(* Each lemma has one step for each conjunct of LogInv.                    *)
(***************************************************************************)
EXTENDS Log, FiniteSetTheorems, TLAPS

\* The tokens that Slack is made of: a finite set.
LEMMA TokensFinite == IsFiniteSet(Proc \X (1 .. MAXOPBLOCKS))
<1>1. IsFiniteSet(1 .. MAXOPBLOCKS)
  BY LogAssumption, FS_Interval
<1> QED
  BY <1>1, LogAssumption, FS_Product

\* Slack is finite, and empty when no operation runs.
LEMMA SlackFacts ==
    /\ IsFiniteSet(Slack) /\ Cardinality(Slack) \in Nat
    /\ AbsOps = {} => Cardinality(Slack) = 0
<1>1. IsFiniteSet(Slack)
  BY TokensFinite, FS_Subset DEF Slack
<1>2. Cardinality(Slack) \in Nat
  BY <1>1, FS_CardinalityType
<1>3. ASSUME AbsOps = {} PROVE Cardinality(Slack) = 0
  <2>1. Slack = {}
    BY <1>3 DEF Slack, AbsOps
  <2> QED
    BY <2>1, FS_EmptySet
<1> QED
  BY <1>1, <1>2, <1>3

\* The set of operations is finite, and empty exactly when its size is 0.
LEMMA OpsFacts ==
    /\ IsFiniteSet(AbsOps) /\ Cardinality(AbsOps) \in Nat
    /\ Cardinality(AbsOps) = 0 <=> AbsOps = {}
<1>1. IsFiniteSet(AbsOps)
  BY LogAssumption, FS_Subset DEF AbsOps
<1> QED
  BY <1>1, FS_CardinalityType, FS_EmptySet

\* Operations together may still log at most MAXOPBLOCKS blocks each.
LEMMA SlackBound == Cardinality(Slack) <= Cardinality(AbsOps) * MAXOPBLOCKS
<1>1. IsFiniteSet(1 .. MAXOPBLOCKS) /\ Cardinality(1 .. MAXOPBLOCKS) = MAXOPBLOCKS
  BY LogAssumption, FS_Interval
<1>2. /\ IsFiniteSet(AbsOps \X (1 .. MAXOPBLOCKS))
      /\ Cardinality(AbsOps \X (1 .. MAXOPBLOCKS)) = Cardinality(AbsOps) * MAXOPBLOCKS
  BY <1>1, OpsFacts, FS_Product
<1>3. Slack \subseteq AbsOps \X (1 .. MAXOPBLOCKS)
  BY DEF Slack, AbsOps
<1> QED
  BY <1>2, <1>3, FS_Subset

\* A transaction is a finite set of blocks.
LEMMA LoggedFinite == ASSUME TypeOK PROVE IsFiniteSet(Logged)
<1> DEFINE f == [i \in 1 .. Len(lh) |-> lh[i]]
<1>1. f \in Surjection(1 .. Len(lh), Logged)
  BY DEF Surjection, Logged
<1>2. Len(lh) \in Nat
  BY DEF TypeOK
<1>3. IsFiniteSet(1 .. Len(lh))
  BY <1>2, FS_Interval
<1> QED
  BY <1>1, <1>3, FS_Surjection

\* What log_write's append to the block list does.
LEMMA AppendFacts ==
    ASSUME NEW s \in Seq(Block), NEW b \in Block
    PROVE  /\ Append(s, b) \in Seq(Block) /\ Len(s) \in Nat
           /\ Len(Append(s, b)) = Len(s) + 1
           /\ \A i \in 1 .. Len(s) : Append(s, b)[i] = s[i]
           /\ Append(s, b)[Len(s) + 1] = b
  OBVIOUS

\* panic() changes no state that the invariant is about.
LEMMA PanicInv ==
    ASSUME LogInv, sys = "up", PanicNow
    PROVE  LogInv'
<1> USE DEF PanicNow, disk, logvars, bufvars
<1>1. UNCHANGED <<Booting, AbsOps, Logged, Slack, Pinned>>
  BY DEF Booting, AbsOps, Logged, Slack, Pinned
<1>2. (\A p \in Proc : Committer(p)' <=> Committer(p)) /\ (\A b \in Block : Content(b)' = Content(b))
  BY DEF Committer, Content
<1>3. TypeOK'
  BY DEF LogInv, TypeOK
<1>4. BootInv' /\ OpsInv' /\ UsedInv' /\ ReservationInv' /\ IdleInv' /\ SleeperHasWaker'
  BY <1>1, <1>2 DEF LogInv, BootInv, OpsInv, UsedInv, ReservationInv, IdleInv, SleeperHasWaker, Booting
<1>5. HeaderInv' /\ PinInv'
  BY <1>1, <1>2 DEF LogInv, HeaderInv, PinInv, Booting, Injective
<1>6. CopyInv'
  BY <1>1 DEF LogInv, CopyInv, Content, Booting
<1> QED
  BY <1>3, <1>4, <1>5, <1>6 DEF LogInv

\* Begin_op admits an operation only with room for MAXOPBLOCKS blocks.
LEMMA BeginOpInv ==
    ASSUME LogInv, NEW p \in Proc, BeginOp(p)
    PROVE  LogInv'
<1> USE LogAssumption DEF BeginOp, disk, logvars, bufvars
<1>0. /\ TypeOK /\ BootInv /\ OpsInv /\ UsedInv /\ HeaderInv /\ CopyInv /\ PinInv
      /\ ReservationInv /\ IdleInv /\ SleeperHasWaker
  BY DEF LogInv
<1>a. \A q \in Proc : Committer(q)' <=> Committer(q)
  BY <1>0 DEF Committer, TypeOK
<1>1. TypeOK'
  <2>1. outstanding' \in Nat
    BY <1>0 DEF TypeOK
  <2>2. pc' \in [Proc -> {"user", "sleep", "woken", "op", "write_log", "install",
                         "committed"}]
    BY <1>0 DEF TypeOK
  <2> QED
    BY <2>1, <2>2, <1>0 DEF TypeOK
<1>2. BootInv'
  BY <1>0 DEF BootInv, Booting
<1>3. OpsInv'
  <2>1. CASE NoRoom
    <3>1. AbsOps' = AbsOps
      BY <2>1, <1>0 DEF AbsOps, TypeOK
    <3> QED
      BY <2>1, <3>1, <1>0, <1>a DEF OpsInv
  <2>2. CASE ~NoRoom
    <3>1. AbsOps' = AbsOps \cup {p} /\ p \notin AbsOps
      BY <2>2, <1>0 DEF AbsOps, TypeOK
    <3>2. Cardinality(AbsOps') = Cardinality(AbsOps) + 1
      BY <3>1, OpsFacts, FS_AddElement
    <3>3. ~committing
      BY <2>2 DEF NoRoom
    <3> QED
      BY <2>2, <3>2, <3>3, <1>0, <1>a DEF OpsInv
  <2> QED
    BY <2>1, <2>2
<1>4. UsedInv'
  BY <1>0 DEF UsedInv, Logged, TypeOK
<1>5. HeaderInv'
  BY <1>0 DEF HeaderInv, Booting, TypeOK
<1>6. CopyInv'
  <2>1. \A q \in Proc : pc'[q] = pc[q] \/ pc'[q] \in {"sleep", "op"}
    BY <1>0 DEF TypeOK
  <2>2. \A q \in Proc : pc[q] = "install" => pc'[q] = "install"
    BY <1>0 DEF TypeOK
  <2>3. \A c \in Block : Content(c)' = Content(c)
    BY DEF Content
  <2>4. UNCHANGED <<Booting, Logged>>
    BY DEF Booting, Logged
  <2>5. \A i \in 1 .. Len(lh) : lh[i] \in Block
    BY <1>0 DEF TypeOK
  <2> QED
    BY <2>1, <2>2, <2>3, <2>4, <2>5, <1>0 DEF CopyInv
<1>7. PinInv'
  <2>1. (\E q \in Proc : pc'[q] = "install") <=> (\E q \in Proc : pc[q] = "install")
    BY <1>0 DEF TypeOK
  <2>2. Pinned' = Pinned
    BY <2>1 DEF Pinned, Logged
  <2> QED
    BY <2>2, <1>0 DEF PinInv
<1>8. ReservationInv'
  <2>1. CASE NoRoom
    <3>1. Slack' = Slack
      BY <2>1, <1>0 DEF Slack, TypeOK
    <3> QED
      BY <3>1, <1>0 DEF ReservationInv
  <2>2. CASE ~NoRoom
    <3>1. (Cardinality(Slack) <= Cardinality(AbsOps) * MAXOPBLOCKS)'
      BY SlackBound, PTL
    <3>2. Cardinality(Slack') <= (outstanding + 1) * MAXOPBLOCKS
      BY <2>2, <3>1, <1>3 DEF OpsInv
    <3>3. Len(lh) + (outstanding + 1) * MAXOPBLOCKS <= LOGSIZE
      BY <2>2, <1>0 DEF NoRoom, TypeOK
    <3>4. (IsFiniteSet(Slack) /\ Cardinality(Slack) \in Nat)'
      BY SlackFacts, PTL
    <3> QED
      BY <3>2, <3>3, <3>4, <1>0 DEF ReservationInv, TypeOK
  <2> QED
    BY <2>1, <2>2
<1>9. IdleInv'
  BY <1>0 DEF IdleInv, Booting, TypeOK
<1>10. SleeperHasWaker'
  <2>1. CASE NoRoom
    <3>1. outstanding > 0 \/ committing
      BY <2>1, <1>0 DEF NoRoom, IdleInv, Booting, TypeOK
    <3> QED
      BY <2>1, <3>1, <1>0 DEF SleeperHasWaker, TypeOK
  <2>2. CASE ~NoRoom
    BY <2>2, <1>0 DEF SleeperHasWaker, TypeOK
  <2> QED
    BY <2>1, <2>2
<1> QED
  BY <1>1, <1>2, <1>3, <1>4, <1>5, <1>6, <1>7, <1>8, <1>9, <1>10 DEF LogInv

\* Log_write uses up one reserved block, or absorbs the write.
LEMMA LogWriteInv ==
    ASSUME LogInv, NEW p \in Proc, NEW b \in Block, NEW v \in Data, LogWrite(p, b, v)
    PROVE  LogInv'
<1> USE LogAssumption DEF disk, logvars, bufvars
<1>0. /\ TypeOK /\ BootInv /\ OpsInv /\ UsedInv /\ HeaderInv /\ CopyInv /\ PinInv
      /\ ReservationInv /\ IdleInv /\ SleeperHasWaker
  BY DEF LogInv
<1>p. SUFFICES ASSUME ~(TooBig \/ outstanding < 1) PROVE LogInv'
  BY PanicInv DEF LogWrite
<1>w. /\ sys = "up" /\ pc[p] = "op" /\ holder[b] = p
      /\ Cardinality(used[p] \cup {b}) <= MAXOPBLOCKS
      /\ cache' = [cache EXCEPT ![b] = v]
      /\ used' = [used EXCEPT ![p] = @ \cup {b}]
      /\ UNCHANGED <<home, logdata, header, outstanding, committing, holder, pc,
                     tail, sys, crashes>>
  BY <1>p DEF LogWrite
<1>a. \/ b \in Logged /\ UNCHANGED <<lh, refcnt>>
      \/ /\ b \notin Logged /\ lh' = Append(lh, b)
         /\ refcnt' = [refcnt EXCEPT ![b] = @ + 1]
  BY <1>p DEF LogWrite
<1>r. outstanding >= 1 /\ Len(lh) < LOGSIZE /\ Len(lh) < NLOG - 1
  BY <1>p, <1>0 DEF TooBig, TypeOK
<1>n. \A q \in Proc : ~Committer(q)
  BY <1>r, <1>0 DEF OpsInv
<1>l. Logged' = Logged \cup {b}
  <2>1. CASE b \in Logged /\ UNCHANGED lh
    BY <2>1 DEF Logged
  <2>2. CASE lh' = Append(lh, b)
    <3>1. 1 .. Len(lh') = (1 .. Len(lh)) \cup {Len(lh) + 1}
      BY <2>2, <1>0, AppendFacts DEF TypeOK
    <3> QED
      BY <2>2, <3>1, <1>0, AppendFacts DEF Logged, TypeOK
  <2> QED
    BY <2>1, <2>2, <1>a
<1>1. TypeOK'
  <2>1. CASE UNCHANGED <<lh, refcnt>>
    BY <2>1, <1>w, <1>0 DEF TypeOK
  <2>2. CASE lh' = Append(lh, b) /\ refcnt' = [refcnt EXCEPT ![b] = @ + 1]
    <3>1. lh' \in Seq(Block)
      BY <2>2, <1>0, AppendFacts DEF TypeOK
    <3>2. refcnt' \in [Block -> Nat]
      BY <2>2, <1>0 DEF TypeOK
    <3> QED
      BY <3>1, <3>2, <1>w, <1>0 DEF TypeOK
  <2> QED
    BY <2>1, <2>2, <1>a
<1>2. BootInv'
  BY <1>w DEF BootInv, Booting
<1>3. OpsInv'
  BY <1>w, <1>0 DEF OpsInv, AbsOps, Committer
<1>4. UsedInv'
  BY <1>w, <1>l, <1>0 DEF UsedInv, TypeOK
<1>5. HeaderInv'
  <2>1. Injective(lh') /\ Len(lh') <= NLOG - 1
    <3>1. CASE UNCHANGED lh
      BY <3>1, <1>0 DEF HeaderInv, Injective
    <3>2. CASE b \notin Logged /\ lh' = Append(lh, b)
      <4>1. Len(lh') = Len(lh) + 1 /\ Len(lh') <= NLOG - 1
        BY <3>2, <1>r, <1>0, AppendFacts DEF TypeOK
      <4>2. /\ lh'[Len(lh) + 1] = b
            /\ \A i \in 1 .. Len(lh) : lh'[i] = lh[i] /\ lh[i] # b
        BY <3>2, <1>0, AppendFacts DEF TypeOK, Logged
      <4>3. \A i \in 1 .. Len(lh') : i \in 1 .. Len(lh) \/ i = Len(lh) + 1
        BY <4>1, <1>0, AppendFacts DEF TypeOK
      <4> QED
        BY <4>1, <4>2, <4>3, <1>0 DEF HeaderInv, Injective
    <3> QED
      BY <3>1, <3>2, <1>a
  <2>2. \A q \in Proc : pc[q] \notin {"install", "committed"}
    BY <1>n DEF Committer
  <2> QED
    BY <2>1, <2>2, <1>w, <1>0 DEF HeaderInv, Booting
<1>6. CopyInv'
  <2>1. \A c \in Block \ {b} : Content(c)' = Content(c)
    BY <1>w, <1>0 DEF Content, TypeOK
  <2>2. \A q \in Proc : pc[q] \notin {"write_log", "install"}
    BY <1>n DEF Committer
  <2> QED
    BY <2>1, <2>2, <1>w, <1>l, <1>0 DEF CopyInv, Booting
<1>7. PinInv'
  <2>1. Pinned = Logged /\ Pinned' = Logged'
    BY <1>n, <1>w DEF Pinned, Committer
  <2> QED
    BY <2>1, <1>a, <1>l, <1>w, <1>0 DEF PinInv, TypeOK
<1>8. ReservationInv'
  <2>1. IsFiniteSet(used[p]) /\ Cardinality(used[p]) \in Nat
    <3>1. used[p] \subseteq Logged
      BY <1>w, <1>0 DEF UsedInv
    <3> QED
      BY <3>1, <1>0, LoggedFinite, FS_Subset, FS_CardinalityType DEF TypeOK
  <2>2. used'[p] = used[p] \cup {b} /\ \A q \in Proc \ {p} : used'[q] = used[q]
    BY <1>w, <1>0 DEF TypeOK
  <2>3. CASE UNCHANGED lh
    <3>1. Cardinality(used[p] \cup {b}) \in {Cardinality(used[p]), Cardinality(used[p]) + 1}
      BY <2>1, FS_AddElement
    <3>2. \A k \in 1 .. MAXOPBLOCKS :
             k > Cardinality(used[p] \cup {b}) => k > Cardinality(used[p])
      BY <2>1, <3>1
    <3>3. Slack' \subseteq Slack
      BY <2>2, <3>2, <1>w DEF Slack
    <3>4. Cardinality(Slack') <= Cardinality(Slack) /\ Cardinality(Slack') \in Nat
      BY <3>3, SlackFacts, FS_Subset, FS_CardinalityType
    <3> QED
      BY <2>3, <3>4, <1>0, SlackFacts DEF ReservationInv, TypeOK
  <2>4. CASE b \notin Logged /\ lh' = Append(lh, b)
    <3> DEFINE token == <<p, Cardinality(used[p]) + 1>>
    <3>1. b \notin used[p]
      BY <2>4, <1>w, <1>0 DEF UsedInv
    <3>2. Cardinality(used'[p]) = Cardinality(used[p]) + 1
      BY <2>1, <2>2, <3>1, FS_AddElement
    <3>3. token \in Slack
      BY <2>1, <2>2, <3>2, <1>w DEF Slack
    <3>4. Slack' \subseteq Slack \ {token}
      BY <2>1, <2>2, <3>2, <1>w DEF Slack
    <3>5. /\ IsFiniteSet(Slack \ {token})
          /\ Cardinality(Slack \ {token}) = Cardinality(Slack) - 1
      BY <3>3, SlackFacts, FS_RemoveElement
    <3>6. Cardinality(Slack') <= Cardinality(Slack) - 1
      BY <3>4, <3>5, FS_Subset
    <3>7. Len(lh') = Len(lh) + 1 /\ Len(lh) \in Nat
      BY <2>4, <1>0 DEF TypeOK
    <3>8. (Cardinality(Slack) \in Nat)'
      BY SlackFacts, PTL
    <3> QED
      BY <3>6, <3>7, <3>8, <1>0, SlackFacts DEF ReservationInv
  <2> QED
    BY <2>3, <2>4, <1>a
<1>9. IdleInv'
  BY <1>r, <1>w DEF IdleInv
<1>10. SleeperHasWaker'
  BY <1>w, <1>0 DEF SleeperHasWaker
<1> QED
  BY <1>1, <1>2, <1>3, <1>4, <1>5, <1>6, <1>7, <1>8, <1>9, <1>10 DEF LogInv

\* End_op gives the unused reservation back; the last one commits.
LEMMA EndOpInv ==
    ASSUME LogInv, NEW p \in Proc, EndOp(p)
    PROVE  LogInv'
<1> USE LogAssumption DEF disk, logvars, bufvars
<1>0. /\ TypeOK /\ BootInv /\ OpsInv /\ UsedInv /\ HeaderInv /\ CopyInv /\ PinInv
      /\ ReservationInv /\ IdleInv /\ SleeperHasWaker
  BY DEF LogInv
<1>p. SUFFICES ASSUME ~committing PROVE LogInv'
  BY PanicInv DEF EndOp
<1>e. /\ sys = "up" /\ pc[p] = "op"
      /\ outstanding' = outstanding - 1
      /\ used' = [used EXCEPT ![p] = {}]
      /\ UNCHANGED <<home, logdata, header, lh, cache, refcnt, holder, sys, crashes>>
  BY <1>p DEF EndOp
<1>a. \/ /\ outstanding = 1 /\ committing' = TRUE /\ tail' = 1
         /\ pc' = [pc EXCEPT ![p] = "write_log"]
      \/ /\ outstanding # 1 /\ UNCHANGED <<committing, tail>>
         /\ pc' = Wakeup([pc EXCEPT ![p] = "user"])
  BY <1>p DEF EndOp
<1>n. \A q \in Proc : pc[q] \notin {"write_log", "install", "committed"}
  BY <1>p, <1>0 DEF OpsInv, Committer
<1>c. /\ \A q \in Proc : pc'[q] = "op" <=> pc[q] = "op" /\ q # p
      /\ \A q \in Proc : pc'[q] \notin {"install", "committed"}
      /\ \A q \in Proc : pc'[q] = "write_log" <=> outstanding = 1 /\ q = p
      /\ pc' \in [Proc -> {"user", "sleep", "woken", "op", "write_log", "install",
                         "committed"}]
  BY <1>a, <1>n, <1>e, <1>0 DEF Wakeup, TypeOK
<1>o. /\ AbsOps' = AbsOps \ {p} /\ p \in AbsOps
      /\ Cardinality(AbsOps') = Cardinality(AbsOps) - 1
      /\ Cardinality(AbsOps) \in Nat \ {0}
  <2>1. AbsOps' = AbsOps \ {p} /\ p \in AbsOps
    BY <1>c, <1>e DEF AbsOps
  <2>2. Cardinality(AbsOps) \in Nat \ {0}
    BY <2>1, OpsFacts
  <2> QED
    BY <2>1, <2>2, OpsFacts, FS_RemoveElement
<1>1. TypeOK'
  <2>1. outstanding' \in Nat
    BY <1>e, <1>o, <1>0 DEF OpsInv
  <2>2. tail' \in Nat \ {0}
    BY <1>a, <1>0 DEF TypeOK
  <2>3. committing' \in BOOLEAN
    BY <1>a, <1>0 DEF TypeOK
  <2> QED
    BY <2>1, <2>2, <2>3, <1>c, <1>e, <1>0 DEF TypeOK
<1>2. BootInv'
  BY <1>e DEF BootInv, Booting
<1>3. OpsInv'
  <2>1. outstanding' = Cardinality(AbsOps')
    BY <1>e, <1>o, <1>0 DEF OpsInv
  <2>2. \A q \in Proc : Committer(q)' <=> outstanding = 1 /\ q = p
    BY <1>c DEF Committer
  <2>3. committing' <=> outstanding = 1
    BY <1>a, <1>p
  <2>4. committing' => outstanding' = 0
    BY <2>3, <1>e
  <2> QED
    BY <2>1, <2>2, <2>3, <2>4 DEF OpsInv
<1>4. UsedInv'
  <2>1. Logged' = Logged
    BY <1>e DEF Logged
  <2> QED
    BY <2>1, <1>c, <1>e, <1>0 DEF UsedInv, TypeOK
<1>5. HeaderInv'
  BY <1>c, <1>e, <1>n, <1>0 DEF HeaderInv, Booting, Injective
<1>6. CopyInv'
  <2>1. \A c \in Block : Content(c)' = Content(c)
    BY <1>e DEF Content
  <2>2. Logged' = Logged
    BY <1>e DEF Logged
  <2>3. outstanding = 1 => \A i \in 1 .. Len(lh) : ~(i < tail')
    BY <1>a
  <2> QED
    BY <2>1, <2>2, <2>3, <1>c, <1>e, <1>0 DEF CopyInv, Booting
<1>7. PinInv'
  <2>1. Pinned' = Pinned
    BY <1>c, <1>n, <1>e DEF Pinned, Logged
  <2> QED
    BY <2>1, <1>e, <1>0 DEF PinInv
<1>8. ReservationInv'
  <2>1. \A q \in Proc \ {p} : used'[q] = used[q]
    BY <1>e, <1>0 DEF TypeOK
  <2>2. Slack' \subseteq Slack
    BY <2>1, <1>c DEF Slack
  <2>3. Cardinality(Slack') <= Cardinality(Slack) /\ Cardinality(Slack') \in Nat
    BY <2>2, SlackFacts, FS_Subset, FS_CardinalityType
  <2> QED
    BY <2>3, <1>e, <1>0, SlackFacts DEF ReservationInv, TypeOK
<1>9. IdleInv'
  BY <1>a, <1>e, <1>o, <1>0 DEF IdleInv, OpsInv
<1>10. SleeperHasWaker'
  BY <1>a, <1>e, <1>o, <1>0 DEF SleeperHasWaker, OpsInv
<1> QED
  BY <1>1, <1>2, <1>3, <1>4, <1>5, <1>6, <1>7, <1>8, <1>9, <1>10 DEF LogInv

=============================================================================
