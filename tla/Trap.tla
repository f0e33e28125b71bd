-------------------------------- MODULE Trap --------------------------------
(***************************************************************************)
(* Traps, context switches, spin locks and the clock: trampoline.S,        *)
(* kernelvec.S, swtch.S, trap.c, spinlock.c, scheduler, sched, yield and   *)
(* sleep of proc.c, syscall.c and sys_sleep.                               *)
(*                                                                         *)
(* A hart executes one labelled piece of code per step; it takes an        *)
(* interrupt between two steps whenever its sstatus allows it, so a piece  *)
(* of code that is one step runs with interrupts off or touches nothing    *)
(* that a handler touches.  The registers of a hart other than tp, sp and  *)
(* a0 are one value, which names the thread and the code that use them.    *)
(* Thread p \in Proc is the kernel thread of process p, thread -1-h the    *)
(* scheduler of hart h.  A lock is a process (p->lock), 0 (tickslock) or   *)
(* NPROC + 1 (wait_lock).                                                  *)
(* A saved value that has been used is cleared (None), which the code does *)
(* not bother to do; a step that used it again would fail.                 *)
(***************************************************************************)
EXTENDS Integers, Sequences, SequencesExt

CONSTANTS
    NCPU, NPROC,
    UINT,        \* number of values of ticks: 2^32
    SleepArgs,   \* arguments of sleep()
    Boot         \* pairs: the harts that have started, the processes that exist

ASSUME TrapAssumption ==
    /\ NCPU \in Nat \ {0} /\ NPROC \in Nat \ {0} /\ UINT \in Nat \ {0}
    /\ SleepArgs \subseteq 0 .. UINT - 1
    /\ \A b \in Boot : b[1] \subseteq 0 .. NCPU - 1 /\ b[2] \subseteq 1 .. NPROC

VARIABLES
    hart,      \* the registers of each hart
    cpu,       \* struct cpu: proc, noff, intena
    lock,      \* the hart that holds each lock, or Free
    kstk,      \* kernel stack of each thread: frames of its callers
    context,   \* struct context of each thread that swtch has left
    tf,        \* struct trapframe of each process
    state, killed, ticks,
    user,      \* history: the instruction each user program has come to
    since      \* history: ticks since process p called sleep(), or NotAsleep

vars == <<hart, cpu, lock, kstk, context, tf, state, killed, ticks, user, since>>

Hart == 0 .. NCPU - 1
Proc == 1 .. NPROC
Lock == 0 .. NPROC + 1
TickLock == 0
WaitLock == NPROC + 1
NoProc == 0
KernelSatp == 0
Free == -1
NotAsleep == -1
None == "none"
NoRegs == <<0, None>>
Scheduler(h) == -1 - h
Thread == Proc \cup {Scheduler(h) : h \in Hart}

\* A user program makes a system call at u0 and looks at its result in a0 at
\* u1, again and again.
NextPc(pc) == IF pc = "u0" THEN "u1" ELSE "u0"
UserA0(pc) == IF pc = "u0" THEN "own" ELSE "ok"
UserRegs(p) == <<p, "user">>

\* start() has jumped to main() on every hart there is; each process is about to
\* run for the first time, with the context that allocproc and the trapframe
\* that userinit or fork made.
Init == \E b \in Boot :
    /\ hart = [h \in Hart |->
          LET pc == IF h \in b[1] THEN "main" ELSE "off" IN
          [mode |-> "S", pc |-> pc, x |-> <<Scheduler(h), pc>>, sp |-> Scheduler(h),
           tp |-> h, a0 |-> "own", satp |-> KernelSatp,
           sie |-> FALSE, spie |-> FALSE, spp |-> "U", sepc |-> None, scause |-> None,
           stvec |-> None]]
    /\ cpu = [h \in Hart |-> [proc |-> NoProc, noff |-> 0, intena |-> FALSE]]
    /\ lock = [l \in Lock |-> Free]
    /\ kstk = [t \in Thread |-> <<>>]
    /\ context = [t \in Thread |-> [pc |-> "forkret", x |-> <<t, "forkret">>]]
    /\ tf = [p \in Proc |->
                [epc |-> "u0", x |-> UserRegs(p), a0 |-> "own", hartid |-> 0]]
    /\ state = [p \in Proc |-> IF p \in b[2] THEN "RUNNABLE" ELSE "UNUSED"]
    /\ killed = [p \in Proc |-> FALSE]
    /\ ticks = 0
    /\ user = [p \in Proc |-> "u0"]
    /\ since = [p \in Proc |-> NotAsleep]

At(h, l) == hart[h].pc = l
Me(h) == hart[h].sp
Mycpu(h) == cpu[hart[h].tp]
Myproc(h) == Mycpu(h).proc
Top(h) == Last(kstk[Me(h)])
Push(h, f) == [kstk EXCEPT ![Me(h)] = Append(@, f)]
Pop(h) == [kstk EXCEPT ![Me(h)] = Front(@)]

\* Register file r of a hart that goes on in the kernel at l.
Go(r, l) == [r EXCEPT !.pc = l, !.x = <<r.sp, l>>]
SetHart(h, r) == hart' = [hart EXCEPT ![h] = r]
Goto(h, l) == SetHart(h, Go(hart[h], l))
PanicUnless(ok, l) == IF ok THEN l ELSE "panic"

-----------------------------------------------------------------------------
(* spinlock.c                                                              *)

Holding(h, l) == lock[l] = hart[h].tp

\* push_off on the cpu structure c of a hart whose SIE is sie.
PushOff(c, sie) == [c EXCEPT !.noff = @ + 1, !.intena = IF c.noff = 0 THEN sie ELSE @]

\* Call of acquire(l): its loop ends at once or the hart spins at "acquire";
\* the caller goes on at next.
Acquire(h, l, next) ==
    /\ SetHart(h, [Go(hart[h], IF lock[l] = Free THEN next
                               ELSE PanicUnless(~Holding(h, l), "acquire"))
                      EXCEPT !.sie = FALSE])
    /\ cpu' = [cpu EXCEPT ![hart[h].tp] = PushOff(@, hart[h].sie)]
    /\ lock' = IF lock[l] = Free THEN [lock EXCEPT ![l] = hart[h].tp] ELSE lock
    /\ kstk' = IF lock[l] = Free THEN kstk ELSE Push(h, [lk |-> l, ret |-> next])

\* The loop of acquire finds the lock free at last.
Spin(h) ==
    /\ At(h, "acquire")
    /\ lock[Top(h).lk] = Free
    /\ lock' = [lock EXCEPT ![Top(h).lk] = hart[h].tp]
    /\ Goto(h, Top(h).ret)
    /\ kstk' = Pop(h)
    /\ UNCHANGED <<cpu, context, tf, state, killed, ticks, user, since>>

\* pop_off on the cpu structure c.  (intena is cleared where the code leaves
\* a value that the next push_off overwrites.)
PopOff(c) == [c EXCEPT !.noff = @ - 1, !.intena = c.noff > 1 /\ @]

\* release(l); the caller goes on at next.
Release(h, l, next) ==
    /\ SetHart(h, [Go(hart[h], PanicUnless(Holding(h, l) /\ ~hart[h].sie
                                              /\ Mycpu(h).noff >= 1, next))
                      EXCEPT !.sie = Mycpu(h).noff = 1 /\ Mycpu(h).intena])
    /\ cpu' = [cpu EXCEPT ![hart[h].tp] = PopOff(@)]
    /\ lock' = [lock EXCEPT ![l] = Free]

-----------------------------------------------------------------------------
(* The hardware: user instructions, traps, the timer and the devices.      *)

UserStep(h) ==
    LET r == hart[h] IN
    /\ r.mode = "U" /\ r.pc = "u1"
    /\ SetHart(h, [r EXCEPT !.pc = "u0", !.a0 = "own"])
    /\ user' = [user EXCEPT ![r.satp] = "u0"]
    /\ UNCHANGED <<cpu, lock, kstk, context, tf, state, killed, ticks, since>>

TakeTrap(h, cause) ==
    LET r == hart[h] IN
    SetHart(h, [r EXCEPT !.mode = "S", !.sie = FALSE, !.spie = r.sie, !.spp = r.mode,
                         !.sepc = r.pc, !.scause = cause, !.pc = r.stvec])

Exception(h, cause) ==
    LET r == hart[h] IN
    /\ r.mode = "U" /\ r.pc = "u0"
    /\ TakeTrap(h, cause)
    /\ user' = IF cause = "ecall" THEN [user EXCEPT ![r.satp] = "u1"] ELSE user
    /\ UNCHANGED <<cpu, lock, kstk, context, tf, state, killed, ticks, since>>

\* A device, or timervec in machine mode, may have raised an interrupt at any
\* time; the hart takes it when it can.
Interrupt(h, cause) ==
    /\ hart[h].mode = "U" \/ hart[h].sie
    /\ TakeTrap(h, cause)
    /\ UNCHANGED <<cpu, lock, kstk, context, tf, state, killed, ticks, user, since>>

-----------------------------------------------------------------------------
(* Traps from user space.                                                  *)

\* uservec: the user's registers go to the trapframe, and the kernel's stack,
\* hartid and page table come from it.
UservecFrame(r) == [tf[r.satp] EXCEPT !.x = r.x, !.a0 = r.a0, !.hartid = 0]
Uservec(r) == [r EXCEPT !.sp = r.satp, !.tp = tf[r.satp].hartid, !.a0 = "own",
                        !.satp = KernelSatp]

\* usertrap, from uservec up to intr_on, devintr or setkilled.
Usertrap(h) ==
    LET r == hart[h]
        p == r.satp
        in == [Uservec(r) EXCEPT !.sepc = None, !.stvec = "kernelvec"]
    IN
    /\ At(h, "uservec")
    /\ IF r.spp # "U"
       THEN Goto(h, "panic") /\ UNCHANGED <<kstk, tf, killed>>
       ELSE /\ tf' = [tf EXCEPT ![p] =
                         [UservecFrame(r) EXCEPT
                             !.epc = IF r.scause = "ecall" /\ ~killed[p]
                                     THEN NextPc(r.sepc) ELSE r.sepc]]
            /\ \/ /\ r.scause = "ecall"
                  /\ SetHart(h, IF killed[p] THEN Go(in, "exit")
                                ELSE [Go(in, "syscall")
                                         EXCEPT !.sie = TRUE, !.scause = None])
                  /\ UNCHANGED <<kstk, killed>>
               \/ /\ r.scause \in {"timer", "ext"}
                  /\ SetHart(h, Go(in, "devintr"))
                  /\ kstk' = [kstk EXCEPT ![p] =
                                 <<[ret |-> "usertrap2", timer |-> "usertimer"]>>]
                  /\ UNCHANGED killed
               \/ /\ r.scause = "fault"
                  /\ SetHart(h, Go(in, "usertrap2"))
                  /\ killed' = [killed EXCEPT ![p] = TRUE]
                  /\ UNCHANGED kstk
    /\ UNCHANGED <<cpu, lock, context, state, ticks, user, since>>

\* The end of usertrap: exit if killed, yield after a timer interrupt.
Usertrap2(h) ==
    /\ \/ /\ At(h, "usertrap2")
          /\ Goto(h, IF killed[Myproc(h)] THEN "exit" ELSE "usertrapret")
          /\ UNCHANGED kstk
       \/ /\ At(h, "usertimer") /\ killed[Myproc(h)]
          /\ Goto(h, "exit")
          /\ UNCHANGED kstk
       \/ /\ At(h, "usertimer") /\ ~killed[Myproc(h)]
          /\ Goto(h, "yield")
          /\ kstk' = Push(h, [ret |-> "usertrapret"])
    /\ UNCHANGED <<cpu, lock, context, tf, state, killed, ticks, user, since>>

Usertrapret(h) ==
    /\ At(h, "usertrapret")
    /\ SetHart(h, [Go(hart[h], "userret") EXCEPT
                      !.sie = FALSE, !.stvec = "uservec", !.spp = "U", !.spie = TRUE,
                      !.sepc = tf[Myproc(h)].epc])
    /\ tf' = [tf EXCEPT ![Myproc(h)].hartid = hart[h].tp]
    /\ UNCHANGED <<cpu, lock, kstk, context, state, killed, ticks, user, since>>

\* What sret does to the registers r.
Sret(r) == [r EXCEPT !.mode = r.spp, !.sie = r.spie, !.spie = TRUE, !.spp = "U",
                     !.pc = r.sepc, !.sepc = None]

\* userret: the user's page table and registers, and sret.
Userret(h) ==
    LET p == Me(h) IN
    /\ At(h, "userret")
    /\ SetHart(h, [Sret(hart[h]) EXCEPT !.satp = p, !.x = tf[p].x, !.a0 = tf[p].a0])
    /\ tf' = [tf EXCEPT ![p] =
                 [epc |-> None, x |-> NoRegs, a0 |-> None, hartid |-> @.hartid]]
    /\ UNCHANGED <<cpu, lock, kstk, context, state, killed, ticks, user, since>>

-----------------------------------------------------------------------------
(* Traps from the kernel, and interrupts.                                  *)

\* The registers kernelvec pushes, with the sepc and sstatus kerneltrap keeps.
Kernelvec(r) == [x |-> r.x, tp |-> r.tp, sepc |-> r.sepc, spp |-> r.spp, spie |-> r.spie]

\* kerneltrap, from kernelvec: it reads sepc and sstatus, checks them and
\* calls devintr.
Kerneltrap(h) ==
    LET r == hart[h] IN
    /\ At(h, "kernelvec")
    /\ SetHart(h, [Go(r, PanicUnless(r.spp = "S" /\ ~r.sie, "devintr"))
                      EXCEPT !.sepc = None, !.spp = "U", !.spie = TRUE])
    /\ kstk' = [kstk EXCEPT ![Me(h)] = @ \o
                   << Kernelvec(r), [ret |-> "kernelret", timer |-> "kerneltimer"] >>]
    /\ UNCHANGED <<cpu, lock, context, tf, state, killed, ticks, user, since>>

\* kerneltrap after a timer interrupt: yield unless no process runs here.
Kerneltimer(h) ==
    /\ At(h, "kerneltimer")
    /\ IF Myproc(h) # NoProc /\ state[Myproc(h)] = "RUNNING"
       THEN Goto(h, "yield") /\ kstk' = Push(h, [ret |-> "kernelret"])
       ELSE Goto(h, "kernelret") /\ UNCHANGED kstk
    /\ UNCHANGED <<cpu, lock, context, tf, state, killed, ticks, user, since>>

\* Mutant: kerneltrap does not restore sepc.
KernelregsSepc(h) == [hart[h] EXCEPT !.spp = Top(h).spp, !.spie = Top(h).spie]

\* The trap registers that kerneltrap restores.
Kernelregs(h) == [hart[h] EXCEPT !.sepc = Top(h).sepc, !.spp = Top(h).spp,
                                 !.spie = Top(h).spie, !.sie = FALSE]

\* kernelvec restores the registers, all but tp, and returns.
Kernelret(h) ==
    /\ At(h, "kernelret")
    /\ SetHart(h, Sret([Kernelregs(h) EXCEPT !.x = Top(h).x]))
    /\ kstk' = Pop(h)
    /\ UNCHANGED <<cpu, lock, context, tf, state, killed, ticks, user, since>>

\* devintr: a device, whose handler is not modelled here, or the clock, which
\* only hart 0 counts.
Devintr(h) ==
    /\ At(h, "devintr")
    /\ \/ /\ hart[h].scause = "ext"
          /\ SetHart(h, [Go(hart[h], Top(h).ret) EXCEPT !.scause = None])
          /\ kstk' = Pop(h)
          /\ UNCHANGED <<cpu, lock>>
       \/ /\ hart[h].scause = "timer" /\ hart[h].tp = 0
          /\ Acquire(h, TickLock, "clockintr")
       \/ /\ hart[h].scause = "timer" /\ hart[h].tp # 0
          /\ Goto(h, "ack")
          /\ UNCHANGED <<cpu, lock, kstk>>
    /\ UNCHANGED <<context, tf, state, killed, ticks, user, since>>

Clockintr(h) ==
    /\ At(h, "clockintr")
    /\ ticks' = (ticks + 1) % UINT
    /\ since' = [p \in Proc |-> IF since[p] \in {NotAsleep, UINT} THEN since[p]
                              ELSE since[p] + 1]
    /\ Goto(h, "wakeup")
    /\ kstk' = Push(h, [i |-> 1])
    /\ UNCHANGED <<cpu, lock, context, tf, state, killed, user>>

\* Mutant: wakeup stops before the last process.
WakeLimitShort == NPROC - 1

WakeLimit == NPROC

\* One turn of wakeup(&ticks); a process sleeps on nothing else here.
Wakeup(h) ==
    LET i == Top(h).i IN
    /\ At(h, "wakeup")
    /\ i <= WakeLimit
    /\ \/ i = Myproc(h) /\ UNCHANGED <<hart, state>>
       \/ i # Myproc(h) /\ Holding(h, i) /\ Goto(h, "panic") /\ UNCHANGED state
       \/ /\ i # Myproc(h) /\ lock[i] = Free
          /\ state' = [state EXCEPT ![i] = IF @ = "SLEEPING" THEN "RUNNABLE" ELSE @]
          /\ UNCHANGED hart
    /\ kstk' = [kstk EXCEPT ![Me(h)] = Append(Front(@), [i |-> i + 1])]
    /\ UNCHANGED <<cpu, lock, context, tf, killed, ticks, user, since>>

WakeupEnd(h) ==
    /\ At(h, "wakeup")
    /\ Top(h).i > WakeLimit
    /\ Release(h, TickLock, "ack")
    /\ kstk' = Pop(h)
    /\ UNCHANGED <<context, tf, state, killed, ticks, user, since>>

\* devintr clears SSIP and returns 2.
Ack(h) ==
    /\ At(h, "ack")
    /\ SetHart(h, [Go(hart[h], Top(h).timer) EXCEPT !.scause = None])
    /\ kstk' = Pop(h)
    /\ UNCHANGED <<cpu, lock, context, tf, state, killed, ticks, user, since>>

-----------------------------------------------------------------------------
(* Context switches.                                                       *)

\* swtch from the thread of hart h, which goes on at l, to thread t.
Swtch(h, l, t) ==
    /\ context' = [context EXCEPT ![Me(h)] = [pc |-> l, x |-> <<Me(h), l>>],
                                  ![t] = [pc |-> None, x |-> NoRegs]]
    /\ SetHart(h, [hart[h] EXCEPT !.sp = t, !.pc = context[t].pc, !.x = context[t].x])

\* The process takes state st and calls sched, which checks and switches to
\* the scheduler of this hart; the caller goes on at l.
Sched(h, st, l) ==
    LET p == Myproc(h) IN
    /\ state' = [state EXCEPT ![p] = st]
    /\ IF Holding(h, p) /\ Mycpu(h).noff = 1 /\ ~hart[h].sie
       THEN Swtch(h, "sched2", Scheduler(hart[h].tp))
       ELSE Goto(h, "panic") /\ UNCHANGED context
    /\ kstk' = Push(h, [ret |-> l, intena |-> Mycpu(h).intena])

\* Mutant: sched does not restore intena.
SchedIntenaNot(h) == Mycpu(h).intena

SchedIntena(h) == Top(h).intena

\* The rest of sched, on whatever hart the thread now is.
Sched2(h) ==
    /\ At(h, "sched2")
    /\ cpu' = [cpu EXCEPT ![hart[h].tp].intena = SchedIntena(h)]
    /\ Goto(h, Top(h).ret)
    /\ kstk' = Pop(h)
    /\ UNCHANGED <<lock, context, tf, state, killed, ticks, user, since>>

Yield(h) ==
    /\ At(h, "yield")
    /\ Acquire(h, Myproc(h), "yield2")
    /\ UNCHANGED <<context, tf, state, killed, ticks, user, since>>

Yield2(h) ==
    /\ At(h, "yield2")
    /\ Sched(h, "RUNNABLE", "yield3")
    /\ UNCHANGED <<cpu, lock, tf, killed, ticks, user, since>>

Yield3(h) ==
    /\ At(h, "yield3")
    /\ Release(h, Myproc(h), Top(h).ret)
    /\ kstk' = Pop(h)
    /\ UNCHANGED <<context, tf, state, killed, ticks, user, since>>

\* main(): hart 0 sets everything up and then started, for which the others wait;
\* each installs the kernel's trap vector and calls scheduler.
Started == ~At(0, "main")
Main(h) ==
    /\ At(h, "main")
    /\ h = 0 \/ Started
    /\ SetHart(h, [Go(hart[h], "scheduler") EXCEPT !.stvec = "kernelvec"])
    /\ UNCHANGED <<cpu, lock, kstk, context, tf, state, killed, ticks, user, since>>

\* scheduler: intr_on at the top of a pass over the table.
SchedulerTop(h) ==
    /\ At(h, "scheduler")
    /\ SetHart(h, [Go(hart[h], "pick") EXCEPT !.sie = TRUE])
    /\ kstk' = Push(h, [i |-> 1])
    /\ UNCHANGED <<cpu, lock, context, tf, state, killed, ticks, user, since>>

SchedulerPick(h) ==
    /\ At(h, "pick")
    /\ \/ /\ Top(h).i <= NPROC
          /\ Acquire(h, Top(h).i, "picked")
       \/ /\ Top(h).i > NPROC
          /\ Goto(h, "scheduler")
          /\ kstk' = Pop(h)
          /\ UNCHANGED <<cpu, lock>>
    /\ UNCHANGED <<context, tf, state, killed, ticks, user, since>>

SchedulerRun(h) ==
    LET p == Top(h).i IN
    /\ At(h, "picked")
    /\ \/ /\ state[p] = "RUNNABLE"
          /\ state' = [state EXCEPT ![p] = "RUNNING"]
          /\ cpu' = [cpu EXCEPT ![hart[h].tp].proc = p]
          /\ Swtch(h, "back", p)
       \/ /\ state[p] # "RUNNABLE"
          /\ Goto(h, "next")
          /\ UNCHANGED <<state, cpu, context>>
    /\ UNCHANGED <<lock, kstk, tf, killed, ticks, user, since>>

SchedulerBack(h) ==
    /\ At(h, "back")
    /\ cpu' = [cpu EXCEPT ![hart[h].tp].proc = NoProc]
    /\ Goto(h, "next")
    /\ UNCHANGED <<lock, kstk, context, tf, state, killed, ticks, user, since>>

SchedulerNext(h) ==
    /\ At(h, "next")
    /\ Release(h, Top(h).i, "pick")
    /\ kstk' = [kstk EXCEPT ![Me(h)] = Append(Front(@), [i |-> Top(h).i + 1])]
    /\ UNCHANGED <<context, tf, state, killed, ticks, user, since>>

Forkret(h) ==
    /\ At(h, "forkret")
    /\ Release(h, Myproc(h), "usertrapret")
    /\ UNCHANGED <<kstk, context, tf, state, killed, ticks, user, since>>

\* exit(), from acquire(&wait_lock) on.  What reparent and wakeup do with
\* wait_lock held is in Proc.
Exit(h) ==
    /\ \/ At(h, "exit") /\ Acquire(h, WaitLock, "exit2")
       \/ At(h, "exit2") /\ Acquire(h, Myproc(h), "exit3")
    /\ UNCHANGED <<context, tf, state, killed, ticks, user, since>>

Exit3(h) ==
    /\ At(h, "exit3")
    /\ state' = [state EXCEPT ![Myproc(h)] = "ZOMBIE"]
    /\ Release(h, WaitLock, "exit4")
    /\ UNCHANGED <<kstk, context, tf, killed, ticks, user, since>>

Exit4(h) ==
    /\ At(h, "exit4")
    /\ Sched(h, "ZOMBIE", "panic")
    /\ UNCHANGED <<cpu, lock, tf, killed, ticks, user, since>>

-----------------------------------------------------------------------------
(* System calls.                                                           *)

\* syscall(): a call that only computes its result, or sys_sleep(n).
Syscall(h) ==
    /\ At(h, "syscall")
    /\ \/ /\ tf' = [tf EXCEPT ![Myproc(h)].a0 = "ok"]
          /\ Goto(h, "usertrap2")
          /\ UNCHANGED kstk
       \/ \E n \in SleepArgs :
          /\ Goto(h, "sys_sleep")
          /\ kstk' = Push(h, [n |-> n, ticks0 |-> 0])
          /\ UNCHANGED tf
    /\ UNCHANGED <<cpu, lock, context, state, killed, ticks, user, since>>

SysSleep(h) ==
    /\ \/ At(h, "sys_sleep") /\ Acquire(h, TickLock, "ticks0")
       \/ At(h, "sleep4") /\ Acquire(h, TickLock, "while")
    /\ UNCHANGED <<context, tf, state, killed, ticks, user, since>>

SysSleepStart(h) ==
    /\ At(h, "ticks0")
    /\ kstk' = [kstk EXCEPT ![Me(h)] = Append(Front(@), [Last(@) EXCEPT !.ticks0 = ticks])]
    /\ since' = [since EXCEPT ![Myproc(h)] = 0]
    /\ Goto(h, "while")
    /\ UNCHANGED <<cpu, lock, context, tf, state, killed, ticks, user>>

\* Mutant: the deadline is computed first, and compared with ticks.
TooEarlyDeadline(t0, n) == ticks < (t0 + n) % UINT

\* ticks - ticks0 < n, on unsigned ints.
TooEarly(t0, n) == (ticks - t0) % UINT < n

\* The loop of sys_sleep: call sleep(&ticks, &tickslock), or return.
SysSleepLoop(h) ==
    LET early == TooEarly(Top(h).ticks0, Top(h).n) IN
    /\ At(h, "while")
    /\ \/ /\ early /\ ~killed[Myproc(h)]
          /\ Acquire(h, Myproc(h), "sleep2")
          /\ UNCHANGED <<tf, since>>
       \/ /\ ~early \/ killed[Myproc(h)]
          /\ Release(h, TickLock, "usertrap2")
          /\ tf' = [tf EXCEPT ![Myproc(h)].a0 = IF early THEN "err" ELSE "ok"]
          /\ since' = [since EXCEPT ![Myproc(h)] = NotAsleep]
          /\ kstk' = Pop(h)
    /\ UNCHANGED <<context, state, killed, ticks, user>>

\* Mutant: sleep keeps lk.
Sleep2Keeps(h) ==
    /\ At(h, "sleep2")
    /\ Goto(h, "sleep2b")
    /\ UNCHANGED <<cpu, lock, kstk, context, tf, state, killed, ticks, user, since>>

\* sleep() once it holds p->lock: release(lk), and sched.
Sleep2(h) ==
    /\ At(h, "sleep2")
    /\ Release(h, TickLock, "sleep2b")
    /\ UNCHANGED <<kstk, context, tf, state, killed, ticks, user, since>>

Sleep2b(h) ==
    /\ At(h, "sleep2b")
    /\ Sched(h, "SLEEPING", "sleep3")
    /\ UNCHANGED <<cpu, lock, tf, killed, ticks, user, since>>

Sleep3(h) ==
    /\ At(h, "sleep3")
    /\ Release(h, Myproc(h), "sleep4")
    /\ UNCHANGED <<kstk, context, tf, state, killed, ticks, user, since>>

\* kill() by another process.
Kill(p) ==
    /\ Started
    /\ lock[p] = Free
    /\ state[p] # "UNUSED" /\ ~killed[p]
    /\ killed' = [killed EXCEPT ![p] = TRUE]
    /\ state' = [state EXCEPT ![p] = IF @ = "SLEEPING" THEN "RUNNABLE" ELSE @]
    /\ UNCHANGED <<hart, cpu, lock, kstk, context, tf, ticks, user, since>>

HartStep(h) ==
    \/ Spin(h) \/ Usertrap(h) \/ Usertrap2(h) \/ Usertrapret(h) \/ Userret(h)
    \/ Kerneltrap(h) \/ Kerneltimer(h) \/ Kernelret(h)
    \/ Devintr(h) \/ Clockintr(h) \/ Wakeup(h) \/ WakeupEnd(h) \/ Ack(h)
    \/ Yield(h) \/ Yield2(h) \/ Yield3(h) \/ Sched2(h)
    \/ SchedulerTop(h) \/ SchedulerPick(h) \/ SchedulerRun(h) \/ SchedulerBack(h)
    \/ Main(h) \/ SchedulerNext(h) \/ Forkret(h) \/ Exit(h) \/ Exit3(h) \/ Exit4(h)
    \/ Syscall(h) \/ SysSleep(h) \/ SysSleepStart(h) \/ SysSleepLoop(h)
    \/ Sleep2(h) \/ Sleep2b(h) \/ Sleep3(h)

Next ==
    \/ \E h \in Hart :
          \/ HartStep(h)
          \/ UserStep(h)
          \/ \E c \in {"ecall", "fault"} : Exception(h, c)
          \/ \E c \in {"timer", "ext"} : Interrupt(h, c)
    \/ \E p \in Proc : Kill(p)

Spec == Init /\ [][Next]_vars

-----------------------------------------------------------------------------
(* Properties.                                                             *)

\* No hart reaches a panic: usertrap and kerneltrap find the mode and the
\* interrupt state they expect, acquire never finds its own lock, release and
\* pop_off match acquire and push_off, and sched is called with exactly
\* p->lock held, whenever interrupts strike and wherever threads migrate.
NoPanic == \A h \in Hart : hart[h].pc # "panic"

\* A trap is invisible to the code it interrupts: whatever else has run on the
\* hart since, and whichever hart the thread resumes on, code runs with its
\* own registers, on its own stack, and with tp the number of the hart it
\* really runs on (mycpu() depends on it); in user space, with the pc and the
\* a0 the program has computed or its system call has returned.
TrapTransparent ==
    \A h \in Hart :
        LET r == hart[h]
            pc == IF r.pc \in {"uservec", "kernelvec"} THEN r.sepc ELSE r.pc
        IN
        /\ r.mode = "S" /\ r.pc # "uservec" => r.x = <<r.sp, pc>> /\ r.tp = h
        /\ r.mode = "U" => /\ r.x = UserRegs(r.satp)
                           /\ r.pc = user[r.satp] /\ r.a0 = UserA0(r.pc)

\* Interrupts are enabled in the kernel exactly where they must be: never
\* with a lock held, or with traps sent to uservec; and always in code that
\* runs with interrupts on and holds no lock, although intena belongs to the
\* cpu and the thread may have changed cpus inside sched().
InterruptsRestored ==
    \A h \in Hart :
        LET r == hart[h] IN
        /\ r.sie /\ r.mode = "S" => /\ cpu[h].noff = 0
                                    /\ \A l \in Lock : lock[l] # h
                                    /\ r.stvec = "kernelvec"
        /\ r.pc \in {"syscall", "sys_sleep", "sleep4"} => r.sie

\* A process that sys_sleep has put to sleep is woken by the tick that ends
\* its sleep: while tickslock is free, it does not sleep on with its condition
\* false.
SleepsNoLonger ==
    \A p \in Proc :
        state[p] = "SLEEPING" /\ lock[TickLock] = Free
            => (ticks - kstk[p][1].ticks0) % UINT < kstk[p][1].n

\* sleep(n) returns 0 only after n ticks, wherever the counter wraps around.
SleepsLongEnough ==
    [][\A h \in Hart :
          At(h, "while") /\ hart'[h].pc = "usertrap2"
              => since[Me(h)] >= Top(h).n \/ killed[Me(h)]]_vars
=============================================================================
