----------------------------- MODULE BlockStore -----------------------------
(* What bread, bwrite and brelse promise the file system: one copy of each *)
(* block, in the hands of one process at a time, which alone changes it.   *)
CONSTANTS Proc, Block, Data, None

VARIABLES
    mem,      \* mem[b]: the contents of block b
    holder    \* holder[b]: the process that has the block's buffer

Init ==
    /\ mem \in [Block -> Data]
    /\ holder = [b \in Block |-> None]

Bread(p, b) ==
    /\ holder[b] = None
    /\ holder' = [holder EXCEPT ![b] = p]
    /\ UNCHANGED mem

Change(p, b) ==
    /\ holder[b] = p
    /\ \E v \in Data : mem' = [mem EXCEPT ![b] = v]
    /\ UNCHANGED holder

Brelse(p, b) ==
    /\ holder[b] = p
    /\ holder' = [holder EXCEPT ![b] = None]
    /\ UNCHANGED mem

Next ==
    \E p \in Proc, b \in Block : Bread(p, b) \/ Change(p, b) \/ Brelse(p, b)

Spec == Init /\ [][Next]_<<mem, holder>>
=============================================================================
