-------------------------------- MODULE Pipe --------------------------------
(***************************************************************************)
(* kernel/pipe.c: processes that share the two ends of one pipe.           *)
(*                                                                         *)
(* pi->lock is held in the state; the loops of pipewrite and piperead run  *)
(* one byte per step under it.  sleep() releases the lock and a sleeper    *)
(* that is woken has to acquire it again; that nothing is lost between the *)
(* two is the subject of module Proc.  kill() may come at any time, copyin *)
(* and copyout may fail at any byte.  The counters nread and nwrite are    *)
(* unsigned and wrap around at UINT.                                       *)
(***************************************************************************)
EXTENDS Integers, Sequences, FiniteSets

CONSTANTS
    Writer,    \* processes with the write end open
    Reader,    \* processes with the read end open
    Free,      \* "the lock is free"
    Byte,      \* values of a byte
    PIPESIZE,
    UINT,      \* number of values of an unsigned int: 2^32
    MaxN       \* bound on the number of bytes of one call

ASSUME PipeAssumption ==
    /\ Writer \cap Reader = {}
    /\ Free \notin Writer \cup Reader
    /\ PIPESIZE \in Nat \ {0}
    /\ UINT \in Nat /\ UINT > PIPESIZE /\ UINT % PIPESIZE = 0
    /\ MaxN \in Nat

VARIABLES
    data, nread, nwrite, readopen, writeopen,   \* struct pipe
    lock,     \* holder of pi->lock
    freed,    \* kfree((char*)pi) has been called
    fds,      \* processes whose descriptor of the pipe is open
    pc,       \* where each process is in pipewrite or piperead
    left,     \* n - i: bytes the call has still to transfer, or, of a writer that
              \* gave up, did not transfer
    killed,   \* p->killed
    last      \* last[r]: the byte the last copyout of reader r was given

pipevars == <<data, nread, nwrite, readopen, writeopen>>
vars == <<pipevars, lock, freed, fds, pc, left, killed, last>>

Proc == Writer \cup Reader

Init ==
    /\ data \in [0 .. PIPESIZE - 1 -> Byte]
    /\ nread = 0 /\ nwrite = 0
    /\ readopen = TRUE /\ writeopen = TRUE
    /\ lock = Free
    /\ freed = FALSE
    /\ fds = Proc
    /\ pc = [p \in Proc |-> "idle"]
    /\ left = [p \in Proc |-> 0]
    /\ killed = [p \in Proc |-> FALSE]
    /\ last \in [Reader -> Byte]

\* Mutant: the test for a full pipe comes one byte late.
FullLate == nwrite = (nread + PIPESIZE + 1) % UINT

Full == nwrite = (nread + PIPESIZE) % UINT

Empty == nread = nwrite

\* Mutant: the call of wakeup is missing.
NoWakeup(f) == f

\* wakeup(&pi->nread), wakeup(&pi->nwrite): f with the sleepers made runnable.
WakeReaders(f) == [p \in Proc |-> IF f[p] = "rsleep" THEN "rwoken" ELSE f[p]]

WakeWriters(f) == [p \in Proc |-> IF f[p] = "wsleep" THEN "wwoken" ELSE f[p]]

Inc(x) == (x + 1) % UINT

Goto(p, label) == pc' = [pc EXCEPT ![p] = label]

-----------------------------------------------------------------------------
(* System calls: entering with acquire(&pi->lock), and leaving.            *)

Call(p) ==
    /\ pc[p] = "idle" /\ p \in fds /\ ~killed[p]
    /\ lock = Free
    /\ lock' = p
    /\ \E n \in 0 .. MaxN : left' = [left EXCEPT ![p] = n]
    /\ Goto(p, IF p \in Writer THEN "write" ELSE "read")
    /\ UNCHANGED <<pipevars, freed, fds, killed, last>>

\* A sleeper that was woken gets pi->lock back.
Relock(p) ==
    /\ pc[p] \in {"wwoken", "rwoken"}
    /\ lock = Free
    /\ lock' = p
    /\ Goto(p, IF p \in Writer THEN "write" ELSE "read")
    /\ UNCHANGED <<pipevars, freed, fds, left, killed, last>>

\* release(&pi->lock); return, with f the program counters of the others.
Leave(p, f) ==
    /\ pc' = [f EXCEPT ![p] = "idle"]
    /\ lock' = Free
    /\ left' = [left EXCEPT ![p] = 0]

-----------------------------------------------------------------------------
(* pipewrite.                                                              *)

\* The head of the loop: done, give up, or go on.
WriteTest(p) ==
    /\ pc[p] = "write"
    /\ \/ left[p] = 0 /\ Leave(p, WakeReaders(pc))
       \/ /\ left[p] > 0 /\ (~readopen \/ killed[p])
          /\ Goto(p, "idle")
          /\ lock' = Free
          /\ UNCHANGED left
       \/ /\ left[p] > 0 /\ readopen /\ ~killed[p]
          /\ Goto(p, "write_body")
          /\ UNCHANGED <<lock, left>>
    /\ UNCHANGED <<pipevars, freed, fds, killed, last>>

WriteFull(p) ==
    /\ pc[p] = "write_body"
    /\ Full
    /\ pc' = [WakeReaders(pc) EXCEPT ![p] = "wsleep"]
    /\ lock' = Free
    /\ UNCHANGED <<pipevars, freed, fds, left, killed, last>>

WriteByte(p) ==
    /\ pc[p] = "write_body"
    /\ ~Full
    /\ \E x \in Byte : data' = [data EXCEPT ![nwrite % PIPESIZE] = x]
    /\ nwrite' = Inc(nwrite)
    /\ left' = [left EXCEPT ![p] = @ - 1]
    /\ Goto(p, "write")
    /\ UNCHANGED <<nread, readopen, writeopen, lock, freed, fds, killed, last>>

\* copyin fails: leave the loop.
WriteFault(p) ==
    /\ pc[p] = "write_body"
    /\ ~Full
    /\ Leave(p, WakeReaders(pc))
    /\ UNCHANGED <<pipevars, freed, fds, killed, last>>

-----------------------------------------------------------------------------
(* piperead.                                                               *)

ReadTest(p) ==
    /\ pc[p] = "read"
    /\ \/ /\ Empty /\ writeopen /\ killed[p]
          /\ Leave(p, pc)
       \/ /\ Empty /\ writeopen /\ ~killed[p]
          /\ Goto(p, "read_sleep")
          /\ UNCHANGED <<lock, left>>
       \/ /\ ~(Empty /\ writeopen)
          /\ Goto(p, "copy")
          /\ UNCHANGED <<lock, left>>
    /\ UNCHANGED <<pipevars, freed, fds, killed, last>>

ReadSleep(p) ==
    /\ pc[p] = "read_sleep"
    /\ Goto(p, "rsleep")
    /\ lock' = Free
    /\ UNCHANGED <<pipevars, freed, fds, left, killed, last>>

\* One byte leaves the pipe; a failing copyout ends the loop after it.
ReadByte(p) ==
    /\ pc[p] = "copy"
    /\ left[p] > 0 /\ ~Empty
    /\ last' = [last EXCEPT ![p] = data[nread % PIPESIZE]]
    /\ nread' = Inc(nread)
    /\ \/ /\ left' = [left EXCEPT ![p] = @ - 1]
          /\ UNCHANGED pc
       \/ /\ Goto(p, "copied")
          /\ UNCHANGED left
    /\ UNCHANGED <<data, nwrite, readopen, writeopen, lock, freed, fds, killed>>

ReadDone(p) ==
    /\ \/ pc[p] = "copied"
       \/ pc[p] = "copy" /\ (left[p] = 0 \/ Empty)
    /\ Leave(p, WakeWriters(pc))
    /\ UNCHANGED <<pipevars, freed, fds, killed, last>>

-----------------------------------------------------------------------------
\* Mutant: the first end to close frees the pipe.
FreedEarly(wopen, ropen) == ~wopen \/ ~ropen

\* pipeclose: whether the pipe is freed.
Freed(wopen, ropen) == ~wopen /\ ~ropen

(* fileclose by p; the last descriptor of an end calls pipeclose.          *)
Close(p) ==
    LET rest == fds \ {p}
        wopen == writeopen /\ rest \cap Writer # {}
        ropen == readopen /\ rest \cap Reader # {}
    IN
    /\ pc[p] = "idle" /\ p \in fds
    /\ lock = Free
    /\ fds' = rest
    /\ writeopen' = wopen
    /\ readopen' = ropen
    /\ pc' = IF p \in Writer
             THEN IF wopen THEN pc ELSE WakeReaders(pc)
             ELSE IF ropen THEN pc ELSE WakeWriters(pc)
    /\ freed' = Freed(wopen, ropen)
    /\ UNCHANGED <<data, nread, nwrite, lock, left, killed, last>>

\* kill(), seen from the pipe: mark the victim and wake it if it sleeps.
Kill(p) ==
    /\ ~killed[p]
    /\ killed' = [killed EXCEPT ![p] = TRUE]
    /\ Goto(p, CASE pc[p] = "rsleep" -> "rwoken"
               [] pc[p] = "wsleep" -> "wwoken"
               [] OTHER -> pc[p])
    /\ UNCHANGED <<pipevars, lock, freed, fds, left, last>>

InCall(p) ==
    \/ WriteTest(p) \/ WriteFull(p) \/ WriteByte(p) \/ WriteFault(p)
    \/ ReadTest(p) \/ ReadSleep(p) \/ ReadByte(p) \/ ReadDone(p)

\* Everyone has closed the pipe.
Done == fds = {} /\ UNCHANGED vars

Next ==
    \/ \E p \in Proc : Call(p) \/ Relock(p) \/ InCall(p) \/ Close(p) \/ Kill(p)
    \/ Done

Spec == Init /\ [][Next]_vars

-----------------------------------------------------------------------------
(* Properties.                                                             *)

TypeOK ==
    /\ data \in [0 .. PIPESIZE - 1 -> Byte]
    /\ nread \in 0 .. UINT - 1 /\ nwrite \in 0 .. UINT - 1
    /\ readopen \in BOOLEAN /\ writeopen \in BOOLEAN
    /\ lock \in Proc \cup {Free}
    /\ freed \in BOOLEAN
    /\ fds \subseteq Proc
    /\ pc \in [Proc -> {"idle", "write", "write_body", "wsleep", "wwoken",
                        "read", "read_sleep", "rsleep", "rwoken", "copy",
                        "copied"}]
    /\ left \in [Proc -> 0 .. MaxN]
    /\ killed \in [Proc -> BOOLEAN]
    /\ last \in [Reader -> Byte]

Count == (nwrite - nread) % UINT

Channel ==
    INSTANCE ByteChannel
      WITH Capacity <- PIPESIZE,
           queue <- [k \in 1 .. Count |->
                       data[((nread + k - 1) % UINT) % PIPESIZE]]

\* Bytes come out of the pipe in the order they went in, none lost, repeated
\* or overwritten, also where nread and nwrite wrap around.
Fifo == Channel!Spec

\* No lost wakeup: with the lock free, a writer sleeps only on a full pipe
\* that can still be read, and a reader only on an empty pipe that can still
\* be written.  One return wakes nobody: that of a writer that was killed before
\* its last byte, which may leave a reader asleep over the bytes it did write.
SleepersWait ==
    lock = Free =>
        /\ \A p \in Writer : pc[p] = "wsleep" => Full /\ readopen
        /\ \A p \in Reader : pc[p] = "rsleep" =>
              /\ writeopen
              /\ Empty \/ \E w \in Writer : killed[w] /\ pc[w] = "idle" /\ left[w] > 0

\* pipeclose frees the pipe after the last use: nobody is in pipewrite or
\* piperead, or asleep on the pipe, when it is gone.
NoUseAfterFree == TypeOK /\ (freed => \A p \in Proc : pc[p] = "idle")
=============================================================================
