---------------------------- MODULE ByteChannel ----------------------------
(* What a pipe promises: a bounded first-in first-out channel of bytes.    *)
EXTENDS Naturals, Sequences

CONSTANTS
    Reader,    \* processes that read
    Byte,      \* values of a byte
    Capacity   \* bytes the channel holds

VARIABLES
    queue,     \* bytes written and not yet read, oldest first
    last       \* last[r]: last byte taken by reader r

Init ==
    /\ queue = <<>>
    /\ last \in [Reader -> Byte]

Put(x) ==
    /\ Len(queue) < Capacity
    /\ queue' = Append(queue, x)
    /\ UNCHANGED last

Get(r) ==
    /\ queue # <<>>
    /\ last' = [last EXCEPT ![r] = Head(queue)]
    /\ queue' = Tail(queue)

Next == (\E x \in Byte : Put(x)) \/ (\E r \in Reader : Get(r))

Spec == Init /\ [][Next]_<<queue, last>>
=============================================================================
