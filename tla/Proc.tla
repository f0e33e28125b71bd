-------------------------------- MODULE Proc --------------------------------
(***************************************************************************)
(* The life of a process in kernel/proc.c: fork, exit, wait, kill, yield,  *)
(* sleep, wakeup and the per-CPU scheduler, at the granularity of spinlock *)
(* acquisitions.                                                           *)
(*                                                                         *)
(* A critical section that takes one lock, and no other lock inside it, is *)
(* one step that needs the lock to be free.  A lock that is held while     *)
(* something else happens (wait_lock in exit and wait, p->lock across the  *)
(* context switch) is held in the state, by the CPU that acquired it, as   *)
(* lk->cpu records.  The kernel thread of slot s runs exactly while some   *)
(* CPU c has c->proc = s; th[s] is its program counter and local variables.*)
(*                                                                         *)
(* Memory allocation and copyout may fail at any call.  Files, the current *)
(* directory and user memory are left out.                                 *)
(***************************************************************************)
EXTENDS Integers, FiniteSets

CONSTANTS
    NPROC,   \* slots of the process table
    CPU,     \* harts
    Free,    \* "no CPU holds this lock"
    MaxPid,  \* bound: no fork once nextpid exceeds it
    KillPids, \* the arguments kill is called with
    PreemptAt \* where in the kernel the timer may strike, see Preemptible

\* Kernel code that runs with interrupts on, and so can be preempted.
Preemptible == {"allocproc", "setparent", "setrunnable", "exit", "wait",
                "kill", "ret", "relock"}

ASSUME ProcAssumption ==
    /\ NPROC \in Nat \ {0}
    /\ Free \notin CPU
    /\ MaxPid \in Nat \ {0}
    /\ KillPids \subseteq Nat
    /\ PreemptAt \subseteq Preemptible

VARIABLES
    proc,       \* proc[s]: state, chan, killed, pid, parent (0 is a null pointer)
    nextpid,
    plock,      \* plock[s]: CPU holding proc[s].lock
    wait_lock,  \* CPU holding wait_lock
    cpu,        \* cpu[c]: c->proc (0: the CPU is in scheduler())
    th,         \* th[s]: kernel thread of slot s
    panicked

vars == <<proc, nextpid, plock, wait_lock, cpu, th, panicked>>

Slot == 1 .. NPROC

initproc == 1

NoThread == [pc |-> "none", i |-> 0, j |-> 0, chan |-> 0, np |-> 0,
             havekids |-> FALSE, pid |-> 0, back |-> "none"]

\* freeproc: what an unused slot holds.
FreeProc == [state |-> "UNUSED", chan |-> 0, killed |-> FALSE, pid |-> 0,
             parent |-> 0]

\* userinit has made the first process runnable; the CPUs enter scheduler().
Init ==
    /\ proc = [s \in Slot |-> IF s = initproc
                  THEN [FreeProc EXCEPT !.state = "RUNNABLE", !.pid = 1]
                  ELSE FreeProc]
    /\ nextpid = 2
    /\ plock = [s \in Slot |-> Free]
    /\ wait_lock = Free
    /\ cpu = [c \in CPU |-> 0]
    /\ th = [s \in Slot |-> IF s = initproc
                THEN [NoThread EXCEPT !.pc = "forkret"] ELSE NoThread]
    /\ panicked = FALSE

-----------------------------------------------------------------------------
(* The scheduler of CPU c.                                                 *)

\* An iteration of the loop that finds slot s RUNNABLE, under s's lock, and
\* switches to it; the process starts with its lock held.  The loop goes
\* round the table for ever, which is here a choice among the slots.
Scheduler(c, s) ==
    /\ ~panicked /\ cpu[c] = 0
    /\ plock[s] = Free
    /\ proc[s].state = "RUNNABLE"
    /\ proc' = [proc EXCEPT ![s].state = "RUNNING"]
    /\ plock' = [plock EXCEPT ![s] = c]
    /\ cpu' = [cpu EXCEPT ![c] = s]
    /\ UNCHANGED <<nextpid, wait_lock, th, panicked>>

\* Where a thread that calls sched() from yield, sleep or exit continues.
AfterSched == [sw_yield |-> "yielded", sw_sleep |-> "awake", sw_exit |-> "dead"]

\* sched() in the process and the scheduler's side of swtch: c->proc = 0,
\* then release(p->lock).
Swtch(c, s) ==
    /\ ~panicked /\ cpu[c] = s
    /\ th[s].pc \in DOMAIN AfterSched
    /\ cpu' = [cpu EXCEPT ![c] = 0]
    /\ plock' = [plock EXCEPT ![s] = Free]
    /\ th' = [th EXCEPT ![s].pc = AfterSched[@]]
    /\ UNCHANGED <<proc, nextpid, wait_lock, panicked>>

-----------------------------------------------------------------------------
(* Steps of the thread s that CPU c runs.                                  *)

At(c, s, label) == ~panicked /\ cpu[c] = s /\ th[s].pc = label

Goto(s, label) == th' = [th EXCEPT ![s].pc = label]

\* forkret, and the end of yield: release(&p->lock).
Unlock(c, s) ==
    /\ \/ At(c, s, "forkret") /\ Goto(s, "user")
       \/ At(c, s, "yielded")
          /\ th' = [th EXCEPT ![s].pc = th[s].back, ![s].back = "none"]
    /\ plock' = [plock EXCEPT ![s] = Free]
    /\ UNCHANGED <<proc, nextpid, wait_lock, cpu, panicked>>

\* usertrap from a system call or the timer, and its killed(p) tests on the
\* way in; init.c never calls exit but on an error.
Trap(c, s) ==
    /\ At(c, s, "user")
    /\ plock[s] = Free
    /\ IF proc[s].killed THEN Goto(s, "exit")
       ELSE \/ s # initproc /\ Goto(s, "exit")
            \/ Goto(s, "wait")
            \/ Goto(s, "timer")
            \/ nextpid <= MaxPid
               /\ th' = [th EXCEPT ![s].pc = "allocproc", ![s].i = 1]
            \/ \E k \in KillPids :
                  th' = [th EXCEPT ![s].pc = "kill", ![s].i = 1, ![s].pid = k]
    /\ UNCHANGED <<proc, nextpid, plock, wait_lock, cpu, panicked>>

\* usertrap for an exception: setkilled(p).
Fault(c, s) ==
    /\ At(c, s, "user")
    /\ plock[s] = Free
    /\ proc' = [proc EXCEPT ![s].killed = TRUE]
    /\ Goto(s, "ret")
    /\ UNCHANGED <<nextpid, plock, wait_lock, cpu, panicked>>

\* The end of usertrap: if(killed(p)) exit(-1).
Return(c, s) ==
    /\ At(c, s, "ret")
    /\ plock[s] = Free
    /\ Goto(s, IF proc[s].killed THEN "exit" ELSE "user")
    /\ UNCHANGED <<proc, nextpid, plock, wait_lock, cpu, panicked>>

\* Mutant: yield does not take p->lock.
YieldUnlocked(c, s) ==
    /\ \E b \in PreemptAt \cup {"timer"} :
          /\ At(c, s, b)
          /\ th' = [th EXCEPT ![s].pc = "sw_yield",
                             ![s].back = IF b = "timer" THEN "user" ELSE b]
    /\ proc' = [proc EXCEPT ![s].state = "RUNNABLE"]
    /\ UNCHANGED <<nextpid, plock, wait_lock, cpu, panicked>>

\* yield(), from usertrap or kerneltrap on a timer interrupt.
Yield(c, s) ==
    /\ \E b \in PreemptAt \cup {"timer"} :
          /\ At(c, s, b)
          /\ th' = [th EXCEPT ![s].pc = "sw_yield",
                             ![s].back = IF b = "timer" THEN "user" ELSE b]
    /\ plock[s] = Free
    /\ plock' = [plock EXCEPT ![s] = c]
    /\ proc' = [proc EXCEPT ![s].state = "RUNNABLE"]
    /\ UNCHANGED <<nextpid, wait_lock, cpu, panicked>>

-----------------------------------------------------------------------------
(* fork.                                                                   *)

\* allocpid, under pid_lock.
AllocPid == nextpid' = nextpid + 1

\* One slot of allocproc's scan, up to the release of np->lock in fork: the
\* slot is in use, or memory runs out and freeproc undoes the allocation, or
\* the child is ready but for its parent.
AllocProc(c, s) ==
    LET i == th[s].i IN
    /\ At(c, s, "allocproc")
    /\ i <= NPROC
    /\ plock[i] = Free
    /\ IF proc[i].state # "UNUSED"
       THEN th' = [th EXCEPT ![s].i = i + 1] /\ UNCHANGED <<proc, nextpid>>
       ELSE /\ AllocPid
            /\ \/ /\ proc' = [proc EXCEPT ![i] = FreeProc]
                  /\ th' = [th EXCEPT ![s].pc = "ret", ![s].i = 0]
               \/ /\ proc' = [proc EXCEPT ![i].state = "USED", ![i].pid = nextpid]
                  /\ th' = [th EXCEPT ![s].pc = "setparent", ![s].i = 0,
                                     ![s].np = i]
    /\ UNCHANGED <<plock, wait_lock, cpu, panicked>>

\* The table is full: fork returns -1.
AllocFail(c, s) ==
    /\ At(c, s, "allocproc")
    /\ th[s].i > NPROC
    /\ th' = [th EXCEPT ![s].pc = "ret", ![s].i = 0]
    /\ UNCHANGED <<proc, nextpid, plock, wait_lock, cpu, panicked>>

SetParent(c, s) ==
    /\ At(c, s, "setparent")
    /\ wait_lock = Free
    /\ proc' = [proc EXCEPT ![th[s].np].parent = s]
    /\ Goto(s, "setrunnable")
    /\ UNCHANGED <<nextpid, plock, wait_lock, cpu, panicked>>

SetRunnable(c, s) ==
    LET np == th[s].np IN
    /\ At(c, s, "setrunnable")
    /\ plock[np] = Free
    /\ proc' = [proc EXCEPT ![np].state = "RUNNABLE"]
    /\ th' = [th EXCEPT ![s].pc = "ret", ![s].np = 0,
                       ![np] = [NoThread EXCEPT !.pc = "forkret"]]
    /\ UNCHANGED <<nextpid, plock, wait_lock, cpu, panicked>>

-----------------------------------------------------------------------------
(* exit.                                                                   *)

\* Mutant: exit does not call reparent.
ExitNoReparent(c, s) ==
    /\ At(c, s, "exit")
    /\ s # initproc
    /\ wait_lock = Free
    /\ wait_lock' = c
    /\ th' = [th EXCEPT ![s].pc = "wakeup", ![s].j = 1,
                       ![s].chan = proc[s].parent, ![s].back = "zombie"]
    /\ UNCHANGED <<proc, nextpid, plock, cpu, panicked>>

Exit(c, s) ==
    /\ At(c, s, "exit")
    /\ IF s = initproc
       THEN panicked' = TRUE /\ UNCHANGED <<wait_lock, th>>   \* "init exiting"
       ELSE /\ wait_lock = Free
            /\ wait_lock' = c
            /\ th' = [th EXCEPT ![s].pc = "reparent", ![s].i = 1]
            /\ UNCHANGED panicked
    /\ UNCHANGED <<proc, nextpid, plock, cpu>>

\* One slot of reparent; wakeup(initproc) for each child handed over, and
\* wakeup(p->parent) after the last slot.
Reparent(c, s) ==
    LET i == th[s].i IN
    /\ At(c, s, "reparent")
    /\ \/ /\ i > NPROC
          /\ th' = [th EXCEPT ![s].pc = "wakeup", ![s].j = 1,
                             ![s].chan = proc[s].parent, ![s].back = "zombie"]
          /\ UNCHANGED proc
       \/ /\ i <= NPROC /\ proc[i].parent = s
          /\ proc' = [proc EXCEPT ![i].parent = initproc]
          /\ th' = [th EXCEPT ![s].pc = "wakeup", ![s].i = i + 1, ![s].j = 1,
                             ![s].chan = initproc, ![s].back = "reparent"]
       \/ /\ i <= NPROC /\ proc[i].parent # s
          /\ th' = [th EXCEPT ![s].i = i + 1]
          /\ UNCHANGED proc
    /\ UNCHANGED <<nextpid, plock, wait_lock, cpu, panicked>>

\* p != myproc()
NotMe(j, s) == j # s

\* One slot of wakeup(chan), which skips the caller's own slot.
Wakeup(c, s) ==
    LET j == th[s].j
        hit == proc[j].state = "SLEEPING" /\ proc[j].chan = th[s].chan
    IN
    /\ At(c, s, "wakeup")
    /\ j <= NPROC
    /\ NotMe(j, s) => plock[j] = Free
    /\ proc' = IF NotMe(j, s) /\ hit THEN [proc EXCEPT ![j].state = "RUNNABLE"]
               ELSE proc
    /\ th' = [th EXCEPT ![s].j = j + 1]
    /\ UNCHANGED <<nextpid, plock, wait_lock, cpu, panicked>>

\* wakeup returns into reparent's loop or to exit.
WakeupDone(c, s) ==
    /\ At(c, s, "wakeup")
    /\ th[s].j > NPROC
    /\ th' = [th EXCEPT ![s].pc = th[s].back, ![s].j = 0, ![s].chan = 0,
                       ![s].back = "none"]
    /\ UNCHANGED <<proc, nextpid, plock, wait_lock, cpu, panicked>>

\* acquire(p->lock), ZOMBIE, release(wait_lock), sched().
Zombie(c, s) ==
    /\ At(c, s, "zombie")
    /\ plock[s] = Free
    /\ plock' = [plock EXCEPT ![s] = c]
    /\ proc' = [proc EXCEPT ![s].state = "ZOMBIE"]
    /\ wait_lock' = Free
    /\ th' = [th EXCEPT ![s] = [NoThread EXCEPT !.pc = "sw_exit"]]
    /\ UNCHANGED <<nextpid, cpu, panicked>>

-----------------------------------------------------------------------------
(* wait and sleep.                                                         *)

\* acquire(wait_lock), on entry to wait and at the end of sleep, and the
\* start of a scan.
WaitLock(c, s) ==
    /\ At(c, s, "wait") \/ At(c, s, "relock")
    /\ wait_lock = Free
    /\ wait_lock' = c
    /\ th' = [th EXCEPT ![s].pc = "scan", ![s].i = 1, ![s].havekids = FALSE]
    /\ UNCHANGED <<proc, nextpid, plock, cpu, panicked>>

WaitReturn(s) ==
    /\ wait_lock' = Free
    /\ th' = [th EXCEPT ![s] = [NoThread EXCEPT !.pc = "ret"]]

\* One slot of the scan: not a child; a child that has not exited; a zombie,
\* whose status may fail to be copied out, or which freeproc frees.
Scan(c, s) ==
    LET i == th[s].i IN
    /\ At(c, s, "scan")
    /\ i <= NPROC
    /\ \/ /\ proc[i].parent # s
          /\ th' = [th EXCEPT ![s].i = i + 1]
          /\ UNCHANGED <<proc, wait_lock>>
       \/ /\ proc[i].parent = s /\ plock[i] = Free
          /\ proc[i].state # "ZOMBIE"
          /\ th' = [th EXCEPT ![s].i = i + 1, ![s].havekids = TRUE]
          /\ UNCHANGED <<proc, wait_lock>>
       \/ /\ proc[i].parent = s /\ plock[i] = Free
          /\ proc[i].state = "ZOMBIE"
          /\ WaitReturn(s)
          /\ \/ s # initproc /\ UNCHANGED proc   \* init.c passes no address
             \/ proc' = [proc EXCEPT ![i] = FreeProc]
    /\ UNCHANGED <<nextpid, plock, cpu, panicked>>

\* Mutant: wait releases wait_lock before it goes to sleep.
ScanDoneUnlocked(c, s) ==
    /\ At(c, s, "scan")
    /\ th[s].i > NPROC
    /\ th[s].havekids => plock[s] = Free
    /\ IF ~th[s].havekids \/ proc[s].killed THEN WaitReturn(s)
       ELSE /\ th' = [th EXCEPT ![s] = [NoThread EXCEPT !.pc = "sleep"]]
            /\ wait_lock' = Free
    /\ UNCHANGED <<proc, nextpid, plock, cpu, panicked>>

\* No zombie: give up without children or when killed, else go to sleep.
ScanDone(c, s) ==
    /\ At(c, s, "scan")
    /\ th[s].i > NPROC
    /\ th[s].havekids => plock[s] = Free
    /\ IF ~th[s].havekids \/ proc[s].killed THEN WaitReturn(s)
       ELSE /\ th' = [th EXCEPT ![s] = [NoThread EXCEPT !.pc = "sleep"]]
            /\ UNCHANGED wait_lock
    /\ UNCHANGED <<proc, nextpid, plock, cpu, panicked>>

\* sleep(p, &wait_lock) up to sched().
Sleep(c, s) ==
    /\ At(c, s, "sleep")
    /\ plock[s] = Free
    /\ plock' = [plock EXCEPT ![s] = c]
    /\ wait_lock' = Free
    /\ proc' = [proc EXCEPT ![s].chan = s, ![s].state = "SLEEPING"]
    /\ Goto(s, "sw_sleep")
    /\ UNCHANGED <<nextpid, cpu, panicked>>

\* The rest of sleep, up to acquire(lk).
Awake(c, s) ==
    /\ At(c, s, "awake")
    /\ proc' = [proc EXCEPT ![s].chan = 0]
    /\ plock' = [plock EXCEPT ![s] = Free]
    /\ Goto(s, "relock")
    /\ UNCHANGED <<nextpid, wait_lock, cpu, panicked>>

-----------------------------------------------------------------------------
\* One slot of kill(pid): the first match is marked and woken.
Kill(c, s) ==
    LET i == th[s].i IN
    /\ At(c, s, "kill")
    /\ IF i > NPROC
       THEN th' = [th EXCEPT ![s] = [NoThread EXCEPT !.pc = "ret"]]
            /\ UNCHANGED proc
       ELSE /\ plock[i] = Free
            /\ IF proc[i].pid = th[s].pid
               THEN /\ proc' = [proc EXCEPT ![i].killed = TRUE,
                            ![i].state = IF @ = "SLEEPING" THEN "RUNNABLE" ELSE @]
                    /\ th' = [th EXCEPT ![s] = [NoThread EXCEPT !.pc = "ret"]]
               ELSE /\ th' = [th EXCEPT ![s].i = i + 1]
                    /\ UNCHANGED proc
    /\ UNCHANGED <<nextpid, plock, wait_lock, cpu, panicked>>

KernelStep(c, s) ==
    \/ Return(c, s) \/ Kill(c, s)
    \/ AllocProc(c, s) \/ AllocFail(c, s) \/ SetParent(c, s) \/ SetRunnable(c, s)
    \/ Exit(c, s) \/ Reparent(c, s) \/ Wakeup(c, s) \/ WakeupDone(c, s)
    \/ Zombie(c, s) \/ WaitLock(c, s) \/ Scan(c, s) \/ ScanDone(c, s)
    \/ Sleep(c, s) \/ Awake(c, s)

\* A panicked kernel spins.
PanicSpin == panicked /\ UNCHANGED vars

Next ==
    \/ PanicSpin
    \/ \E c \in CPU, s \in Slot :
          \/ Scheduler(c, s) \/ Swtch(c, s) \/ Unlock(c, s) \/ KernelStep(c, s)
          \/ Trap(c, s) \/ Fault(c, s) \/ Yield(c, s)

Spec == Init /\ [][Next]_vars

-----------------------------------------------------------------------------
(* Properties.                                                             *)

TypeOK ==
    /\ proc \in [Slot -> [state : {"UNUSED", "USED", "SLEEPING", "RUNNABLE",
                                   "RUNNING", "ZOMBIE"},
                          chan : 0 .. NPROC, killed : BOOLEAN,
                          pid : Nat, parent : 0 .. NPROC]]
    /\ nextpid \in Nat
    /\ plock \in [Slot -> CPU \cup {Free}]
    /\ wait_lock \in CPU \cup {Free}
    /\ cpu \in [CPU -> 0 .. NPROC]
    /\ th \in [Slot -> [pc : {"none", "forkret", "user", "timer", "ret",
                  "sw_yield", "yielded", "allocproc", "setparent",
                  "setrunnable", "exit", "reparent", "wakeup", "zombie",
                  "sw_exit", "dead", "wait", "scan", "sleep", "sw_sleep",
                  "awake", "relock", "kill"},
                i : 0 .. NPROC + 1, j : 0 .. NPROC + 1, chan : 0 .. NPROC,
                np : 0 .. NPROC, havekids : BOOLEAN, pid : Nat,
                back : Preemptible \cup {"none", "user", "reparent", "zombie"}]]
    /\ panicked \in BOOLEAN

Live(s) == proc[s].state \notin {"UNUSED", "USED"}

\* A kernel stack is used by one CPU at a time: while a CPU runs a process,
\* the process is RUNNING or the CPU still holds its lock, so that no other
\* CPU can schedule it and no parent can free it (the swtch window).
OneStack ==
    /\ TypeOK
    /\ \A c, d \in CPU : cpu[c] = cpu[d] /\ cpu[c] # 0 => c = d
    /\ \A c \in CPU : cpu[c] # 0 =>
          proc[cpu[c]].state = "RUNNING" \/ plock[cpu[c]] = c
    /\ \A s \in Slot : proc[s].state = "RUNNING" => \E c \in CPU : cpu[c] = s

\* Whenever wait_lock is free, the parent of every process but init is a
\* process that has not exited, so no zombie is ever left without a reaper.
ParentAlive ==
    wait_lock = Free =>
        \A s \in Slot : Live(s) /\ s # initproc =>
            /\ proc[s].parent # 0
            /\ Live(proc[s].parent)
            /\ proc[proc[s].parent].state # "ZOMBIE"

\* No lost wakeup between exit and wait: whenever wait_lock is free, a parent
\* asleep in wait has no zombie child.
NoMissedExit ==
    wait_lock = Free =>
        \A s, q \in Slot :
            proc[s].state = "SLEEPING" /\ proc[q].parent = s =>
                proc[q].state # "ZOMBIE"
=============================================================================
