----------------------------- MODULE AtomicDisk -----------------------------
(***************************************************************************)
(* What the logging layer (kernel/log.c) promises to the file system: a    *)
(* disk whose contents after a crash are those left by a whole number of   *)
(* completed file-system operations.  Operations run concurrently and      *)
(* update the blocks in memory; the memory contents become durable only    *)
(* when no operation is in progress, all blocks at once; a crash falls     *)
(* back to the last durable contents.                                      *)
(***************************************************************************)
CONSTANTS
    Proc,    \* processes that run file-system operations
    Block,   \* home (non-log) disk blocks
    Data     \* contents of a block

VARIABLES
    ops,     \* processes between begin_op and end_op
    mem,     \* what a read of each block returns now
    durable  \* what each block will hold after a crash

vars == <<ops, mem, durable>>

Init ==
    /\ ops = {}
    /\ durable \in [Block -> Data]
    /\ mem = durable

Begin(p) ==
    /\ p \notin ops
    /\ ops' = ops \cup {p}
    /\ UNCHANGED <<mem, durable>>

Write(p, b, v) ==
    /\ p \in ops
    /\ mem' = [mem EXCEPT ![b] = v]
    /\ UNCHANGED <<ops, durable>>

End(p) ==
    /\ p \in ops
    /\ ops' = ops \ {p}
    /\ UNCHANGED <<mem, durable>>

Commit ==
    /\ ops = {}
    /\ durable' = mem
    /\ UNCHANGED <<ops, mem>>

Crash ==
    /\ ops' = {}
    /\ mem' = durable
    /\ UNCHANGED durable

Next ==
    \/ \E p \in Proc : Begin(p) \/ End(p)
    \/ \E p \in Proc, b \in Block, v \in Data : Write(p, b, v)
    \/ Commit
    \/ Crash

Spec == Init /\ [][Next]_vars
=============================================================================
