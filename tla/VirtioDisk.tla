----------------------------- MODULE VirtioDisk -----------------------------
(***************************************************************************)
(* kernel/virtio_disk.c: the driver of the disk, and the device it talks   *)
(* to through shared memory.                                               *)
(*                                                                         *)
(* virtio_disk_rw holds vdisk_lock except while it sleeps and takes no     *)
(* other lock meanwhile, so each of its stretches is one step.  The        *)
(* interrupt handler holds the lock for one step per entry of the used     *)
(* ring, because the device adds entries at the same time.  The device is  *)
(* external: it takes requests from the avail ring in order, completes     *)
(* them in any order, and raises an interrupt for each.                    *)
(*                                                                         *)
(* A caller has locked its buffer, and no other buffer holds the block, so *)
(* a buffer stands for its block and its caller too.                       *)
(* Ring entries and command headers that have been used are cleared, which *)
(* the code does not bother to do; a step that read one would fail.        *)
(***************************************************************************)
EXTENDS Integers, FiniteSets, FiniteSetsExt

CONSTANTS
    Buf,      \* buffers
    None,     \* a null pointer, or a cleared field
    Data,     \* contents of a block
    NUM,      \* descriptors, and entries of each ring
    UINT16    \* number of values of a ring's idx: 2^16

ASSUME VirtioAssumption ==
    /\ None \notin Buf
    /\ NUM \in Nat /\ NUM >= 3
    /\ UINT16 \in Nat \ {0} /\ UINT16 % NUM = 0

VARIABLES
    data, disk,    \* struct buf: disk[x] while the disk owns buffer x
    \* struct disk
    free, desc, info, ops, avail, used_idx,
    vdisk,         \* who holds vdisk_lock: "free", or "intr" for the handler;
                   \* "boot" before virtio_disk_init, "panic" if that failed
    \* the device
    used, seen, inflight, irq, blocks,
    \* virtio_disk_rw: program counter, idx[0], arguments
    pc, idx, args

queuevars == <<free, desc, info, ops, avail>>
devvars == <<used, seen, inflight, irq, blocks>>
vars == <<data, disk, queuevars, used_idx, vdisk, devvars, pc, idx, args>>

Desc == 0 .. NUM - 1

\* next of a descriptor without VRING_DESC_F_NEXT.
NoNext == NUM

ZeroDesc == [addr |-> None, next |-> NoNext]
NoInfo == [b |-> None, status |-> 0]
NoOp == [write |-> FALSE, sector |-> None]
EmptyRing == [ring |-> [i \in Desc |-> None], idx |-> 0]

\* struct disk is zero, so no descriptor is free yet.
Init ==
    /\ blocks \in [Buf -> Data]
    /\ data = blocks
    /\ disk = [x \in Buf |-> FALSE]
    /\ free = [i \in Desc |-> FALSE]
    /\ desc = [i \in Desc |-> ZeroDesc]
    /\ info = [i \in Desc |-> NoInfo]
    /\ ops = [i \in Desc |-> NoOp]
    /\ avail = EmptyRing /\ used = EmptyRing
    /\ used_idx = 0 /\ seen = 0
    /\ vdisk = "boot"
    /\ inflight = {}
    /\ irq = FALSE
    /\ pc = [x \in Buf |-> "idle"]
    /\ idx = [x \in Buf |-> None]
    /\ args = [x \in Buf |-> NoOp]

\* What virtio_disk_init finds: the identity registers, FEATURES_OK and
\* QUEUE_READY as it reads them, the device's longest queue, and whether kalloc
\* has the three pages.
Found == [disk : BOOLEAN, features_ok : BOOLEAN, ready : BOOLEAN,
          max : {0, NUM - 1, NUM}, pages : BOOLEAN]

\* Any of its checks panics; otherwise the rings are zeroed and every descriptor
\* is free.
VirtioDiskInit(found) ==
    LET ok == /\ found.disk /\ found.features_ok /\ ~found.ready
              /\ found.max # 0 /\ found.max >= NUM
              /\ found.pages
    IN
    /\ vdisk = "boot"
    /\ vdisk' = IF ok THEN "free" ELSE "panic"
    /\ free' = [i \in Desc |-> ok]
    /\ desc' = [i \in Desc |-> ZeroDesc]
    /\ avail' = EmptyRing /\ used' = EmptyRing
    /\ UNCHANGED <<data, disk, info, ops, used_idx, seen, inflight, irq, blocks,
                   pc, idx, args>>

Panicked == vdisk = "panic" /\ UNCHANGED vars

Inc(n) == (n + 1) % UINT16

\* wakeup(&disk.free[0]): f with the callers that wait for descriptors runnable.
Wakeup(f) == [x \in Buf |-> IF f[x] = "dsleep" THEN "dwoken" ELSE f[x]]

-----------------------------------------------------------------------------
(* virtio_disk_rw for buffer x.                                            *)

FreeDescs == {i \in Desc : free[i]}

\* alloc3_desc fails: the descriptors it took are given back with free_desc,
\* which wakes the others that wait for descriptors; then sleep.
NoDescs(x) ==
    /\ Cardinality(FreeDescs) < 3
    /\ pc' = [(IF FreeDescs = {} THEN pc ELSE Wakeup(pc)) EXCEPT ![x] = "dsleep"]
    /\ UNCHANGED <<disk, queuevars, idx>>

\* Take the three lowest free descriptors, format them, hand the chain to the
\* device, and sleep.
Submit(x, op) ==
    LET i == Min(FreeDescs)
        j == Min(FreeDescs \ {i})
        k == Min(FreeDescs \ {i, j})
    IN
    /\ Cardinality(FreeDescs) >= 3
    /\ free' = [free EXCEPT ![i] = FALSE, ![j] = FALSE, ![k] = FALSE]
    /\ ops' = [ops EXCEPT ![i] = op]
    /\ desc' = [desc EXCEPT ![i] = [addr |-> i, next |-> j],
                            ![j] = [addr |-> x, next |-> k],
                            ![k] = [addr |-> i, next |-> NoNext]]
    /\ info' = [info EXCEPT ![i] = [b |-> x, status |-> 255]]
    /\ disk' = [disk EXCEPT ![x] = TRUE]
    /\ avail' = [ring |-> [avail.ring EXCEPT ![avail.idx % NUM] = i],
                 idx |-> Inc(avail.idx)]
    /\ idx' = [idx EXCEPT ![x] = i]
    /\ pc' = [pc EXCEPT ![x] = "iosleep"]

\* From acquire(&disk.vdisk_lock), on entry or after a sleep for descriptors,
\* to the next sleep.
Rw(x, op) ==
    /\ vdisk = "free"
    /\ args' = [args EXCEPT ![x] = op]
    /\ NoDescs(x) \/ Submit(x, op)
    /\ UNCHANGED <<used_idx, vdisk, devvars>>

\* Since the last call the holder of the buffer has left v in it.
RwCall(x, write, v) ==
    /\ pc[x] = "idle"
    /\ Rw(x, [write |-> write, sector |-> x])
    /\ data' = [data EXCEPT ![x] = v]

RwRetry(x) == pc[x] = "dwoken" /\ Rw(x, args[x]) /\ UNCHANGED data

\* Woken by kill() before the request has finished.
RwAgain(x) ==
    /\ pc[x] = "iowoken"
    /\ vdisk = "free"
    /\ disk[x]
    /\ pc' = [pc EXCEPT ![x] = "iosleep"]
    /\ UNCHANGED <<data, disk, queuevars, used_idx, vdisk, devvars, idx, args>>

\* Mutant: free_chain stops one descriptor early.
ChainShort(i) == {i, desc[i].next}

\* The descriptors free_chain(i) frees.
Chain(i) == {i, desc[i].next, desc[desc[i].next].next}

\* Return of the chain to the free descriptors, and of the call.
RwReturn(x) ==
    LET c == Chain(idx[x]) IN
    /\ pc[x] = "iowoken"
    /\ vdisk = "free"
    /\ info' = [info EXCEPT ![idx[x]] = NoInfo]
    /\ ops' = [ops EXCEPT ![idx[x]] = NoOp]
    /\ desc' = [i \in Desc |-> IF i \in c THEN ZeroDesc ELSE desc[i]]
    /\ free' = [i \in Desc |-> free[i] \/ i \in c]
    /\ idx' = [idx EXCEPT ![x] = None]
    /\ args' = [args EXCEPT ![x] = NoOp]
    /\ pc' = [Wakeup(pc) EXCEPT ![x] = "idle"]
    /\ UNCHANGED <<data, disk, avail, used_idx, vdisk, devvars>>

\* Mutant: "if" instead of "while" around sleep(b, &disk.vdisk_lock).
RwEndIf(x) == RwReturn(x)

\* The request has finished.
RwEnd(x) == ~disk[x] /\ RwReturn(x)

-----------------------------------------------------------------------------
(* virtio_disk_intr.                                                       *)

\* acquire(&disk.vdisk_lock), and acknowledge the interrupt.
Intr ==
    /\ irq /\ vdisk = "free"
    /\ vdisk' = "intr"
    /\ irq' = FALSE
    /\ UNCHANGED <<data, disk, queuevars, used_idx, used, seen, inflight, blocks,
                   pc, idx, args>>

\* One entry of the used ring, leaving the lock with holder next.  The code
\* panics if the status is not 0; NoLostCompletion says that it is.
Entry(next) ==
    LET id == used.ring[used_idx % NUM]
        x == info[id].b
    IN
    /\ vdisk = "intr"
    /\ used_idx # used.idx
    /\ disk' = [disk EXCEPT ![x] = FALSE]
    /\ pc' = [pc EXCEPT ![x] = IF @ = "iosleep" THEN "iowoken" ELSE @]
    /\ used' = [used EXCEPT !.ring[used_idx % NUM] = None]
    /\ used_idx' = Inc(used_idx)
    /\ vdisk' = next
    /\ UNCHANGED <<data, queuevars, seen, inflight, irq, blocks, idx, args>>

\* Mutant: "if" instead of "while" around the handling of an entry.
IntrEntryIf == Entry("free")

IntrEntry == Entry("intr")

IntrDone ==
    /\ vdisk = "intr"
    /\ used_idx = used.idx
    /\ vdisk' = "free"
    /\ UNCHANGED <<data, disk, queuevars, used_idx, devvars, pc, idx, args>>

-----------------------------------------------------------------------------
(* The device.                                                             *)

DevFetch ==
    /\ seen # avail.idx
    /\ inflight' = inflight \cup {avail.ring[seen % NUM]}
    /\ avail' = [avail EXCEPT !.ring[seen % NUM] = None]
    /\ seen' = Inc(seen)
    /\ UNCHANGED <<data, disk, free, desc, info, ops, used_idx, vdisk, used, irq,
                   blocks, pc, idx, args>>

\* The transfer, the status byte, the entry of the used ring, the interrupt.
DevComplete(i) ==
    LET op == ops[desc[i].addr]
        j == desc[i].next
        x == desc[j].addr
        status == desc[desc[j].next].addr
    IN
    /\ i \in inflight
    /\ IF op.write
       THEN blocks' = [blocks EXCEPT ![op.sector] = data[x]] /\ UNCHANGED data
       ELSE data' = [data EXCEPT ![x] = blocks[op.sector]] /\ UNCHANGED blocks
    /\ info' = [info EXCEPT ![status].status = 0]
    /\ used' = [ring |-> [used.ring EXCEPT ![used.idx % NUM] = i],
                idx |-> Inc(used.idx)]
    /\ inflight' = inflight \ {i}
    /\ irq' = TRUE
    /\ UNCHANGED <<disk, free, desc, ops, avail, used_idx, vdisk, seen, pc, idx,
                   args>>

-----------------------------------------------------------------------------
(* The rest of the kernel.                                                 *)

\* kill() makes a sleeper runnable whatever it sleeps for.
Kill(x) ==
    /\ pc[x] \in {"dsleep", "iosleep"}
    /\ pc' = [pc EXCEPT ![x] = IF @ = "dsleep" THEN "dwoken" ELSE "iowoken"]
    /\ UNCHANGED <<data, disk, queuevars, used_idx, vdisk, devvars, idx, args>>

Next ==
    \/ (\E found \in Found : VirtioDiskInit(found)) \/ Panicked
    \/ \E x \in Buf :
          \/ \E write \in BOOLEAN, v \in Data : RwCall(x, write, v)
          \/ RwRetry(x) \/ RwAgain(x) \/ RwEnd(x)
          \/ Kill(x)
    \/ Intr \/ IntrEntry \/ IntrDone
    \/ DevFetch \/ \E i \in Desc : DevComplete(i)

Spec == Init /\ [][Next]_vars

-----------------------------------------------------------------------------
(* Properties.                                                             *)

TypeOK ==
    /\ data \in [Buf -> Data]
    /\ disk \in [Buf -> BOOLEAN]
    /\ free \in [Desc -> BOOLEAN]
    /\ desc \in [Desc -> [addr : Desc \cup Buf \cup {None}, next : 0 .. NUM]]
    /\ info \in [Desc -> [b : Buf \cup {None}, status : {0, 255}]]
    /\ {avail.idx, used.idx, used_idx, seen} \subseteq 0 .. UINT16 - 1
    /\ inflight \subseteq Desc
    /\ vdisk \in {"boot", "panic", "free", "intr"}
    /\ irq \in BOOLEAN
    /\ blocks \in [Buf -> Data]
    /\ pc \in [Buf -> {"idle", "dsleep", "dwoken", "iosleep", "iowoken"}]
    /\ idx \in [Buf -> Desc \cup {None}]

InIo(x) == pc[x] \in {"iosleep", "iowoken"}

AbsReq ==
    [x \in Buf |->
        [st |-> IF pc[x] = "idle" THEN "none"
                ELSE IF InIo(x) /\ info[idx[x]].status = 0 THEN "done" ELSE "sent",
         write |-> args[x].write, blk |-> args[x].sector]]

Device == INSTANCE BlockDevice WITH Block <- Buf, req <- AbsReq

\* virtio_disk_rw performs its transfer, on the right block and buffer, before
\* it returns, whoever is killed, however the device reorders requests and
\* however its interrupts are merged.
ReadsAndWrites == Device!Spec

\* Once virtio_disk_init has found its device, every descriptor is free or in
\* the chain of exactly one request, so that free_desc never finds one that is
\* already free (its panic).
DescriptorsAccounted ==
    /\ TypeOK
    /\ vdisk \in {"free", "intr"} =>
          \A i \in Desc : free[i] = (\A x \in Buf : InIo(x) => i \notin Chain(idx[x]))
    /\ \A x, y \in Buf : InIo(x) /\ InIo(y) /\ x # y
                            => Chain(idx[x]) \cap Chain(idx[y]) = {}

\* "This may race with the device writing new entries [...] which is
\* harmless" (virtio_disk.c): when the handler is not running and no
\* interrupt is pending, every completion has been seen, and the status the
\* handler looks at is that of a finished request.  And no wakeup is lost: a
\* caller sleeps for its request only while the disk owns the buffer, and for
\* descriptors only while three are not free.
NoLostCompletion ==
    /\ \A x \in Buf : /\ pc[x] = "iosleep" => disk[x]
                      /\ pc[x] = "dsleep" => Cardinality(FreeDescs) < 3
    /\ vdisk = "free" /\ ~irq => used_idx = used.idx
    /\ used_idx # used.idx => info[used.ring[used_idx % NUM]].status = 0
=============================================================================
