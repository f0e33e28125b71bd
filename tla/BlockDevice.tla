----------------------------- MODULE BlockDevice ----------------------------
(* What virtio_disk_rw promises its caller: the buffer's block is read or  *)
(* written in one step between the call and the return.  A request is      *)
(* identified by its buffer, which the caller has locked.                  *)
CONSTANTS Buf, Block, Data, None

VARIABLES
    blocks,   \* the disk
    data,     \* data[x]: the contents of buffer x
    req       \* req[x]: state of the request for x: st, write, blk

NoReq == [st |-> "none", write |-> FALSE, blk |-> None]

Init ==
    /\ blocks \in [Block -> Data]
    /\ data \in [Buf -> Data]
    /\ req = [x \in Buf |-> NoReq]

\* virtio_disk_rw is called with v in the buffer.
StartWith(x, b, w, v) ==
    /\ req[x].st = "none"
    /\ data' = [data EXCEPT ![x] = v]
    /\ req' = [req EXCEPT ![x] = [st |-> "sent", write |-> w, blk |-> b]]
    /\ UNCHANGED blocks

Start(x, b, w) == StartWith(x, b, w, data[x])

\* The transfer.
Do(x) ==
    LET b == req[x].blk IN
    /\ req[x].st = "sent"
    /\ req' = [req EXCEPT ![x].st = "done"]
    /\ IF req[x].write
       THEN blocks' = [blocks EXCEPT ![b] = data[x]] /\ UNCHANGED data
       ELSE data' = [data EXCEPT ![x] = blocks[b]] /\ UNCHANGED blocks

\* virtio_disk_rw returns.
Finish(x) ==
    /\ req[x].st = "done"
    /\ req' = [req EXCEPT ![x] = NoReq]
    /\ UNCHANGED <<blocks, data>>

\* The holder of the buffer changes it between calls.
Change(x, v) ==
    /\ req[x].st = "none"
    /\ data' = [data EXCEPT ![x] = v]
    /\ UNCHANGED <<blocks, req>>

Next ==
    \E x \in Buf :
        \/ Do(x) \/ Finish(x)
        \/ /\ req[x].st = "none"
           /\ \/ \E v \in Data : Change(x, v)
              \/ /\ req'[x].st = "sent"
                 /\ \E b \in Block, w \in BOOLEAN, v \in Data : StartWith(x, b, w, v)

Spec == Init /\ [][Next]_<<blocks, data, req>>
=============================================================================
