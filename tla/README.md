# A TLA+ model of the xv6 kernel in this repository

The repository is xv6 for RISC-V, a small multiprocessor Unix kernel, with two
additions: a console command history (`kernel/console.c`,
`kernel/historyBuffer.h`, the `history` system call) and a `top` system call.
This directory holds TLA+ modules for the parts of the kernel, and for the shell,
where concurrency, crashes or full tables make correctness hard to test, TLC configurations for
small instances, and TLAPS proofs about the write-ahead log.

## 1. Inventory

| Part | State | Operations | What is hard about it | Module |
|---|---|---|---|---|
| Log (`log.c`) | `struct log`, on-disk header and log blocks | `begin_op`, `log_write`, `end_op`, `commit`, `install_trans`, recovery | crashes between disk writes and during recovery, group commit, reservations, pinned buffers | `Log`, `AtomicDisk` |
| Buffer cache (`bio.c`) and sleep locks (`sleeplock.c`) | `bcache`, LRU list, `refcnt`, `valid` | `bget`, `bread`, `bwrite`, `brelse`, `bpin`, `bunpin`, `acquiresleep`, `releasesleep` | one copy per block, recycling while others wait, spurious wakeups | `BufferCache`, `BlockStore` |
| Disk driver (`virtio_disk.c`) | descriptors, avail and used rings, `info` | `virtio_disk_rw`, `virtio_disk_intr` | the device runs concurrently, interrupts merge, descriptors run out, 16-bit indices wrap | `VirtioDisk`, `BlockDevice` |
| Inodes and names (`fs.c`, `file.c`, `sysfile.c`) | `itable`, `ftable`, disk inodes, directory entries, descriptors | `open`, `create`, `link`, `unlink`, `read`, `close`, `fork` | two counts (`ref`, `nlink`) decide about freeing, read without the inode's lock; error paths undo half of a call | `Inode` |
| File contents (`fs.c`, `file.c`, `mkfs.c`) | blocks, bitmap, block addresses, sizes, offsets | `balloc`, `bfree`, `bmap`, `itrunc`, `readi`, `writei`, `fileread`, `filewrite`, `open` with `O_TRUNC` | writes in chunks, a full disk, a bad buffer half way, offsets shared by `fork`, crashes | `Files` |
| Processes (`proc.c`) | `proc[]`, `cpus[]`, `wait_lock`, `p->lock` | `fork`, `exit`, `wait`, `kill`, `sleep`, `wakeup`, `yield`, `sched`, `scheduler` | locks held across `swtch`, lost wakeups, orphans | `Proc` |
| Traps, switches, spin locks, clock (`trampoline.S`, `kernelvec.S`, `swtch.S`, `trap.c`, `spinlock.c`, `syscall.c`, `sys_sleep`) | registers of each hart, `struct cpu`, trapframes, contexts, `ticks` | `uservec`, `usertrap`, `usertrapret`, `userret`, `kernelvec`, `kerneltrap`, `clockintr`, `acquire`, `release`, `push_off`, `pop_off`, `swtch` | an interrupt between any two instructions, threads that change harts, `ticks` wraps | `Trap` |
| User memory (`kalloc.c`, `vm.c`, `exec.c`, part of `proc.c`) | free list, page tables, `p->sz` | `kalloc`, `kfree`, `walk`, `mappages`, `uvmalloc`, `uvmcopy`, `uvmunmap`, `sbrk`, `fork`, `exit`, `wait`, `exec`, `copyin`, `copyout` | memory runs out half way through any of them | `Vm` |
| Pipes (`pipe.c`) | ring, `nread`, `nwrite`, open flags | `pipewrite`, `piperead`, `pipeclose` | counters wrap, lost wakeups, freeing while in use | `Pipe`, `ByteChannel` |
| Console (`console.c`) | `cons`, `historyBuf`, `index`, `row` | `consoleintr`, `consoleread`, `call_sys_history` | three wrapping indices, a second copy of the line for the history | `Console`, `LineDiscipline` |
| Shell and init (`sh.c`, `init.c`) | descriptors, pipes, children | the parser, `runcmd`, `fork1`, `main` | a hand-written parser; ends of pipes left open in some process; nobody waits for a child | `Shell` |

The layers call each other from top to bottom: file system calls run inside
transactions of the log; the log works on buffers and relies on their pins; the
cache calls the driver; all of them sleep and are woken through `proc.c`, and
`kill` makes any sleeper runnable, whatever it sleeps for.

### Not modelled

- *Serial port.* The transmit ring of `uart.c` has the shape of a pipe with one
  reader; the properties would be those of `Pipe`.
- *Path walking, `mkdir`, `chdir`, `mknod`, `fstat`.* `Inode` has one directory
  and the files in it. Trees of directories multiply its states beyond what TLC
  finishes.
- *Arguments of system calls.* `fetchaddr`, `fetchstr` and the `arg` functions
  read saved registers and call the `copyin` and `copyinstr` of `Vm`.
- *`history`, `top`, `procdump`.* They read and print. What `history` prints is
  recorded by `Console`.
- *`start.c`, `entry.S`, interrupt controller, the kernel's page table.*
  Straight-line set-up code whose results are the initial states of the modules.
  `main()` is a step of `Trap`, `virtio_disk_init` one of `VirtioDisk`.
- *Formatting, strings, `umalloc.c`, the other user programs.* Sequential code
  of one process, without shared state.
- *`ramdisk.c`* is not part of the build.

## 2. Modules

A module with a name from the table above models a component. `MC...` modules
only declare model values and a symmetry set. `AtomicDisk`, `BlockStore`,
`BlockDevice`, `ByteChannel` and `LineDiscipline` are abstract specifications:
what a component promises, in terms of its users.

    commands                 Shell
                               |          (system calls of Proc, Pipe and of)
    file system calls        Inode, Files
                               |          (each call is one operation of)
    log                      Log           implements  AtomicDisk
                               |          (bread, bwrite, bpin of)
    buffer cache             BufferCache   implements  BlockStore
                               |          (uses the actions of BlockDevice)
    disk driver              VirtioDisk    implements  BlockDevice

`BufferCache` instantiates `BlockDevice` and takes its actions for the calls of
`virtio_disk_rw`; `VirtioDisk` is shown to implement the same module, so the two
runs together cover the stack. `Log` contains its own, smaller cache (contents,
reference count and holder of a block) in place of `BufferCache`. `Files` takes
from `Log` what is proved there: the blocks of a transaction reach the disk
together or not at all. `Shell` uses pipes as bounded queues, as `Pipe` is shown to
implement them. `Trap` justifies the step size of all the others (see below).

**Granularity.** A stretch of code that holds one spinlock, and takes no other
lock meanwhile, is one step. A lock that is still held when something else
happens is part of the state, with its holder. `Trap` models the locks
themselves, with interrupts between any two instructions that a handler could tell
apart, and shows that no handler runs on a hart that holds a lock. A `sleep` ends a step: the
process is then asleep until a `wakeup` step, or `kill`, makes it runnable, and
it goes on with a step of its own that needs the lock again. Where the code does
something observable between two such points (a disk write, a change of the
device) there is one step for each.

**Data.** Blocks, bytes, names and pids are members of small sets. Counters keep
their wrap-around: `UINT` stands for 2^32 and `UINT16` for 2^16, and the ring
sizes divide them, as they do in the code. Array cells and fields that the code
leaves stale, and never reads again, are cleared in some places to keep the
state space small; a step that did read one would fail an invariant or stop TLC.

**Failures.** Memory allocation, `copyin`, `copyout` and the growth of a
directory may fail at any call. A panic is a state in which nothing happens any
more.

### Log

`home`, `logdata` and `header` are the disk; `lh`, `outstanding` and
`committing` are `struct log`; `cache`, `refcnt` and `holder` are the buffers;
`pc`, `used` and `tail` are the processes' positions; `sys` is the boot phase.
`BeginOp`, `LogWrite` and `EndOp` are the functions of that name. `commit()` is
`WriteLog` (one step per block), `WriteHead` (the commit point), `Install` (one
step per block), `CommitClear` and `EndCommit`. `Crash` may happen at any time
and leaves the disk alone; `ReadHead`, `RecoverInstall` and `RecoverClear` are
`recover_from_log`. `Recycle` lets the cache forget any block with reference
count 0. The refinement to `AtomicDisk` maps `durable` to what recovery would
make of the disk now, and `mem` to what a `bread` returns.

### BufferCache

`lru` is the doubly linked list; `locked` and `pid` are the sleep locks. A
process works on one block at a time: `BgetHit` or `BgetMiss`, `AcquireSleep`,
`Bread`, then any of `Change`, `Bwrite`, `Bpin`, `Bunpin`, and `Brelse`. The
last releases the sleep lock and drops the reference in two steps, because
`bcache.lock` is only taken for the second. The callers keep the discipline of
`log.c`: a changed block is written or pinned before it is released.

### VirtioDisk

`VirtioDiskInit` is `virtio_disk_init`: what the device answers is a choice, and a
wrong answer is the panic the code has for it. `virtio_disk_rw` runs from the acquisition of `vdisk_lock` to its next sleep in
one step (`RwCall`, `RwRetry`, `RwAgain`, `RwEnd`). The handler holds the lock
over several steps, one per used-ring entry, since the device may add entries
meanwhile. `DevFetch` and `DevComplete` are the device; it completes requests in
any order and raises one interrupt line.

### Inode

One directory `dir` with the lock `dlock`; `dinode` is the disk, `inode` the
table, `file` and `ofile` the open files. Each system call is a chain of steps
given by the places where it holds and releases locks. `iput` has four: the test
under `itable.lock` (`Iput`), the freeing on the disk (`IputFree`), the release
of the sleep lock (`IputUnlock`), and the drop of the reference under
`itable.lock` again (`IputDrop`).

### Proc

`proc` is the table, `plock` and `wait_lock` are locks with the CPU that holds
them, `cpu[c]` is `c->proc`, and `th[s]` is the kernel thread of slot `s`. The
loops of `allocproc`, `reparent`, `wakeup`, `wait` and `kill` over the table are
one step per slot, because each iteration takes and releases a lock. `Swtch` is
`sched` together with the scheduler's half of the switch. `PreemptAt` names the
places in the kernel where the timer may strike.

### Pipe, Console

`Pipe` has `pi->lock` in the state, since `pipewrite` and `piperead` hold it
from byte to byte.

`Console` keeps `cons`, the history's copy of the line (`current_cm`, `index`) and
the recorded rows. `call_sys_history` can leave its arrays, and the module goes on
as the code does. A scan that finds no newline in `current_cm` ends anywhere up to
`MaxScan`; a row that is too long runs into the next ones. What is written behind
`bufferArr` lands in the rest of `struct historyBufferArray`: from then on
(`status = "stray"`) the recorded history is not followed, while the input ring,
the readers and `index` are. The module stops only at an access that faults and at
a store behind the struct, on variables of other files.

### Trap

`hart[h]` holds the registers of a hart: mode, `pc` (a label of the code), `sp`,
`tp`, `a0`, `satp`, the fields of `sstatus`, `sepc`, `scause`, `stvec`, and one
value `x` for all the others, which names the thread and the place they belong to.
`cpu` is `struct cpu`, `kstk` the frames on each kernel stack, `context` what
`swtch` saved, `tf` the trapframes. One labelled piece of code is one step;
`Interrupt` is possible before every step while `sie` is set or the hart is in user
mode. `Uservec`, `Usertrap`, `Usertrapret`, `Userret`, `Kernelvec`, `Kerneltrap`,
`Devintr`, `Clockintr`, `Wakeup`, `Sched`, `Yield`, the `Scheduler...` steps,
`Forkret`, `Exit`, `Syscall`, `SysSleep...` and `Sleep...` are the functions of those
names; `Acquire` and `Release` include `push_off` and `pop_off`. A hart begins in
`Main`, where all but hart 0 wait for `started`. `Exit` takes `wait_lock` and
`p->lock` and gives the first one back before `sched`; what `reparent` and `wakeup`
do in between is in `Proc`. The history
variables `user` and `since` say what a program and a sleeper should see.

### Vm

`m` is physical memory: the free list and the contents of each page, page tables
included (three levels with `FANOUT` entries). The operators `Walk`, `Mappages`,
`Uvmunmap`, `Uvmalloc...`, `Uvmcopy...`, `Freewalk`, `ProcPagetable` and so on take
memory and return memory. The actions are the system calls `sbrk`, `fork`, `exit`,
`wait`, `exec` and a call that copies to the user, with one step per turn of the
loops of `uvmalloc` and `uvmcopy`, so that two processes compete for the last page
in the middle of them. The history variable `image` has the bytes each process
should find.

### Files

`d` is what `bread` returns, `disk` what the last commit left there, `trans` and
`op` the blocks logged by the transaction and by each operation. `Write`,
`WriteNext`, `Writei`, `WriteLoop` and `WriteEnd` are `filewrite` with its chunks of
`MaxWrite` bytes, one transaction each, and `writei`'s loop over blocks. `Open` and
`Open2` are `sys_open` (with `itrunc` for `O_TRUNC`), `Read` is `fileread`, `Fork`
shares the open file. `Crash` starts again from `disk`; `Recycle` lets the cache
forget a buffer that was changed but not logged, as after an `either_copyin` that
failed half way: such bytes are `Torn`, they may have either value. The initial
state is computed as `mkfs.c` computes it.

### Shell

The parser is a set of functions on positions in a line, one per function of
`sh.c`; they are compared with a grammar on tokens. `Runcmd` gives the system calls
that a process makes for a command, up to its next `fork`. `proc[p]` has the
process's descriptors, parent, and the calls still to make; one call is one step.
A program that is run writes more than a pipe holds and ends, or copies its input to
its output. `Main`, `Cd`, `Getcmd` and `Eof` are the shell's loop and what is typed,
`InitWait` and `InitFork` the loop of `init.c`. Any `fork`, `pipe`, `open` and `exec`
may fail, those of `main()` and of `init` too: a shell whose `fork` fails exits and
init starts another; an init whose `fork` fails exits, which is a panic (`halted`).
The lines that are typed fit in `buf`, and their newline is one more blank to the
parser.

## 3. Runs

| Run | Instance | What it shows |
|---|---|---|
| `log_atomic` | 2 processes, 2 blocks, 2 values, `LOGSIZE` 2, 2 crashes, fairness | `Log` implements `AtomicDisk` (`AbsSpec`); reservations, pins, wakeups and the inductive invariant `LogInv` hold; recovery, commits and sleeps in `begin_op` end (`LogEnds`) |
| `proc_table` | 2 CPUs, 3 slots, 4 pids | one CPU per kernel stack (`OneStack`), live parents, no exit is missed by `wait` |
| `traps` | 2 harts and 1 process, or 1 hart and 2 processes | traps and switches are invisible to what they interrupt, no assertion of `trap.c`, `spinlock.c` or `sched` fails, interrupts come back on, `sleep(n)` lasts `n` ticks and ends with the last of them |
| `user_memory` | 17 pages, 2 processes, 2 programs | every page is in exactly one place after any failure (`PageAccounting`); each process finds its own bytes (`OwnMemory`) |
| `file_contents` | 2 processes, root directory and 3 files, 14 blocks, 2 writes, any number of crashes | every block is free or in one file (`BlocksAccounted`); files hold what was written (`FileContents`); no operation logs more than `MAXOPBLOCKS` blocks (`TransactionFits`) |
| `inode_refs` | 2 processes, 2 names, 3 inodes on the disk, 2 in memory, 2 open files | reference and link counts are exact, no assertion of the kernel fails, nothing in use is freed, in-memory copies are current |
| `inode_leak` | 2 processes, 2 inodes, 1 open file | **violation**: an inode can leak, see 5 |
| `pipe_fifo` | 2 writers, 1 reader, 2 cells | `Pipe` implements a bounded FIFO, no lost wakeup, no use after free |
| `console_line` | 2 readers, ring of 3, all keys, 2 letters, 2 rows | `Console` implements line-at-a-time input, also when the history has left its arrays; history rows are faithful while `index` agrees with the line |
| `buffer_cache` | 3 processes, 2 buffers, 3 blocks | `BufferCache` implements `BlockStore`, one copy per block, sleep locks exclude |
| `disk_driver` | 3 requests, 7 descriptors | `virtio_disk_init` finds its device or panics; `VirtioDisk` implements `BlockDevice`; no completion or descriptor is lost |
| `shell` | lines of up to 5 of 9 characters; 11 commands, 6 slots, 5 descriptors, pipes of 1 byte | the parser accepts the grammar and gives its meaning (`ParserMatchesGrammar`); programs start with the descriptors the line asks for (`ExecWired`); a command begins when those before it in the foreground are done (`ForegroundDone`); the prompt comes back or the shell ends (`LineEnds`) |

**Why these bounds.** Every table is small enough to be full in some state, and
there are more users than places: three processes for two buffers; three requests
for seven descriptors, of which each takes three; a log with room for two
operations while a third begins; fewer pages than two processes with a program
each and one under construction need; fewer blocks than the writes ask for. Six
slots are just enough for `a|a|a`, and too few for `&;||` while its background
process has not been reaped. The counters
wrap within a behaviour. Two crashes let one strike the recovery from another. Two
CPUs suffice for the races between a process and the CPU that would run it next;
three slots are init, a parent and a child. Two names allow `link`, and its failure
on a name that exists. A file has one direct block and an indirect one, so a write
of three blocks crosses the border, and the bitmap has two blocks, so a
transaction of `filewrite` meets its worst case. Bounds that the code does not
have: `MaxCrashes`, `MaxPid`, `KillPids`, `PreemptAt`, `MaxN` (bytes of one call),
`MaxWrites`, `MaxText`, `SleepArgs`, `MaxScan` (where a scan for a newline that
leaves `current_cm` ends at the latest) and `PAD` (how far below its array `index`
may run).

**Views.** Three runs tell states apart by a view. `user_memory` leaves out which
pages a process has and what is in free pages: no operation depends on the number
of a page. `file_contents` leaves out what is in free blocks, because `balloc`
zeroes a block before anybody reads it. `console_line` leaves out what is only
written (the rows of the history, `last`) and what is overwritten before it is read
again (the read part of the ring; `current_cm` from `index` on, but for the
newlines in it). The properties depend only on what is in the view and on what the
step itself writes.

Deadlock is checked in every run but `shell`, where the shell may wait for a line
that is never typed. A panic, a pipe that everybody has closed and the place where
`Console` stops are explicit stuttering steps.

**Fairness.** It is used in two runs only, and it is weak in both: a process that
can go on from some point on for ever is scheduled, which the scheduler's round trips
through the table give.

- `Log`: recovery proceeds; each process finishes its operations, releases its
  buffers and goes on with its commit. Nothing is assumed about when operations
  begin, and crashes are not fair. `acquiresleep` hands a buffer to whoever is
  scheduled first, so that a committer can lose every race for a logged block
  against readers of it. `LogEnds` says so: recovery ends; a commit ends if from
  some time on nobody else holds a logged block during a commit; and a sleeper in
  `begin_op` wakes if from some time on nobody keeps a buffer (a process that
  reads for ever inside an operation never calls `end_op`). Without either
  hypothesis TLC finds such a behaviour.
- `Shell`: while some process can make a system call, one is made (for all of them
  together). Which one is left open, and nothing is assumed about what is typed.
  That is enough because no process of the shell runs for ever. A shell that exits
  because `fork` failed counts as the end of the line (`sh = None`).

## 4. Proofs

`LogOpProofs`, `LogCommitProofs` and `LogProofs` prove about `Log`, for every
finite set of processes, every set of blocks and data, all sizes with
`1 <= MAXOPBLOCKS <= LOGSIZE` and `NLOG >= 2`, and any bound on crashes
(`LogAssumption`):

- `LogInvariant`: `Spec => []LogInv`;
- `TypeCorrect`, `Reservation`, `PinBalance`, `NoLostWakeup`: its conjuncts
  `TypeOK`, `ReservationInv`, `PinInv` and `SleeperHasWaker`.

None of the conjuncts is inductive alone. `LogInv` is the conjunction of

- `BootInv`: while the machine boots nobody is in an operation;
- `OpsInv`: `outstanding` is the number of processes in operations, and there is
  one committer exactly while `committing` is set;
- `UsedInv`: what an operation has logged is in `lh`;
- `HeaderInv`: `lh` and the header on the disk have no duplicates and fit, and
  the header is not empty only between commit point and clearing;
- `CopyInv`: at each point of `commit` and recovery, which log blocks and which
  home blocks already agree with the buffers;
- `PinInv`: a reference count is holder plus pin, so what is logged and not
  installed is not recycled;
- `ReservationInv`: the length of `lh` plus what admitted operations may still
  add is at most `LOGSIZE`;
- `IdleInv`: between transactions the log is empty;
- `SleeperHasWaker`: a sleeper in `begin_op` has an operation or a commit to
  wake it.

`CopyInv` needs `PinInv` (else a recycled buffer would lose an update),
`PinInv` needs `HeaderInv` (a block is pinned once because it is listed once),
and both need `OpsInv` (`lh` does not change while there is a committer). The
reservation argument is about cardinalities: `Slack` is a finite set with
`MAXOPBLOCKS` places for each process in an operation, less those it has used,
and `log_write` of a new block moves one place from `Slack` to `lh`.

`LogOpProofs` treats the steps of operations, `LogCommitProofs` those of commit,
and `LogProofs` recovery, crashes and the theorems.

Only model-checked: all refinements, all of the other modules, and liveness
(ENABLED and fairness are outside what the proof system handles). The parser of
`Shell` and the image of `Files` are recursive, and what a recursive definition
computes needs induction over data, which the installed provers cannot do: they
are compared with their references on all bounded inputs.

## 5. Findings

- **Leaked inode** (`inode_leak`). Between `releasesleep` and the second
  `acquire(&itable.lock)` in `iput`, the inode is already free on the disk, and
  `ialloc` can reuse its number while the table entry still has `iput`'s
  reference. If the new file loses its only link in that window, its own `iput`
  sees `ref == 2` and does not free it, and the first `iput` drops the last
  reference unseen. The comment in `fs.c` says that `iput` frees when both counts
  have fallen to zero. The file's content is lost either way; only the inode
  and its blocks stay allocated.

The models also show, where no comment promises otherwise or where only the
arithmetic of two constants is concerned:

- `log_write` panics once `lh.n` reaches `log.size - 1` (`log.c:220`). `mkfs` sets
  `nlog = LOGSIZE` with the header included (`mkfs.c:25`), so one block less fits
  than `begin_op` reserves and than `param.h:10` calls "max data blocks in on-disk
  log". `log_atomic` takes `NLOG = LOGSIZE + 1`; the proofs allow any `NLOG`, and
  `LogInv` then still holds, because a panic stops the machine.
- `call_sys_history` increments `row` and never wraps it (`console.c:70`), while
  the comment at `console.c:278` takes rows modulo `MAX_HISTORY`. Line
  `MAX_HISTORY + 1` goes to row 16, which is `lengthsArr`, `lastCommandIndex`,
  `numOfCommandsInMem`, `currentHistory` and the start of `current_cm`. The
  following rows leave the struct: in a build of this source row 17 reaches the
  lock of `printf`, and rows 18 and 19 `uart_tx_lock`, `uart_tx_buf` and
  `cpus[0].context`. `lengthsArr[row]` is overrun in the same way. `Console`
  follows the code to the end of the struct and stops there.
- A line ended by `^D`, or by a full `cons.buf`, has no newline in `current_cm`
  unless one is left of an earlier line: the scan at `console.c:58` then runs on
  behind the array, and as many bytes are copied (`Sizes`).
- `index` of the history drifts from the line after `^U` or a backspace on an empty
  line (`console.c:196`, a hypothesis of `CommandInStep` and `HistoryRecordsLine`),
  and may leave `current_cm` at either end.
- The letters `A` and `B` cannot be typed: `consoleintr` takes them for keys of the
  history (`console.c:203-215`) and does not store them, though neither the list of
  special characters (`console.c:4-10`) nor the comment on `consoleintr`
  (`console.c:171-174`: "do erase/kill processing, append to cons.buf") has them.
  `A` before the first line reads `lengthsArr[-1]` as an unsigned index, which
  faults. `LineAtATime` is about the characters that are stored.
- A writer killed before its last byte returns without `wakeup(&pi->nread)` and
  leaves a reader asleep over the bytes it wrote (`pipe.c:85`). `SleepersWait`
  excuses this return and no other.
- `kill(0)` marks an unused slot (`proc.c:609`).
- A write that faults half way through a block leaves a changed buffer that is not
  logged. Until the buffer is recycled a reader sees the new bytes, afterwards the
  old ones (`fs.c`, `writei`). `FileContents` allows both.
- `mkfs` rounds the size of the root directory up (`mkfs.c:166`), which leaves a
  hole at its end when the entries fill their blocks exactly; `FilesAssumption`
  excludes such images.
- Of several redirections of one descriptor the first on the line wins, since the
  last is the outermost and is opened first (`sh.c:381`).
- If the second `fork` of a pipeline fails, the shell's child ends and the program
  already started runs on without anybody waiting for it (`sh.c:112`). The
  properties of `Shell` allow for that (`Abandoned`).
- If the `fork` of the shell's `main()` fails the shell exits, and if then init's
  `fork` fails too the kernel panics with "init exiting" (`proc.c:370`).

## 6. Open

Proofs worth adding: the refinement of `Log` to `AtomicDisk` step by step from
`LogInv`; `OneCopy` and `HoldsLock` of `BufferCache`; `DescriptorsAccounted` of
`VirtioDisk`; `RefCounts` and `LinkCounts` of `Inode`. Models worth adding:
directories that are created and removed, with path walking and the lock order
from parent to child; the free list of `umalloc.c` against a reference.
