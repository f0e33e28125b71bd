--------------------------------- MODULE Vm ---------------------------------
(***************************************************************************)
(* Physical pages, page tables and user memory: kalloc.c, vm.c, exec.c and *)
(* the parts of proc.c and sysproc.c that make, copy, resize and free the  *)
(* memory of a process.                                                    *)
(*                                                                         *)
(* Page tables are real: they live in physical pages, have three levels    *)
(* and FANOUT entries per page.  Virtual page numbers stand for addresses  *)
(* of pages; sizes of processes are in bytes, PGSIZE to a page.  One step  *)
(* is one turn of the loop of uvmalloc or uvmcopy, or a stretch of code    *)
(* between two of them: processes compete for pages in between.            *)
(***************************************************************************)
EXTENDS Integers, Sequences, FiniteSets, FiniteSetsExt

CONSTANTS
    NPAGES,    \* physical pages between end and PHYSTOP
    FANOUT,    \* entries of a page-table page: 512
    PGSIZE,    \* bytes of a page: 4096
    UINT64,    \* number of values of a uint64
    NPROC,
    Incr,      \* arguments of sbrk()
    Buf,       \* pairs <<address, length>> that system calls copy to
    Image      \* program files: sequences of [vaddr, memsz, filesz]

Page == 1 .. NPAGES
Proc == 1 .. NPROC
Null == 0
Trampoline == -1     \* the page of the kernel's text
MAXVA == (FANOUT * FANOUT * FANOUT) \div 2
TRAMPOLINE == MAXVA - 1
TRAPFRAME == TRAMPOLINE - 1

ASSUME VmAssumption ==
    /\ NPAGES < TRAPFRAME    \* memory ends before the address space
    /\ UINT64 > 2 * MAXVA * PGSIZE
    /\ \A img \in Image : \A i \in DOMAIN img : img[i].vaddr % PGSIZE = 0

VARIABLES
    m,         \* [free |-> set of pages on the free list, mem |-> their contents]
    state, pagetable, sz, trapframe,
    call,      \* the system call each process is in, with its locals
    panicked,
    image      \* history: the bytes each process should find in its memory

vars == <<m, state, pagetable, sz, trapframe, call, panicked, image>>

PGROUNDUP(n) == ((n + PGSIZE - 1) \div PGSIZE) * PGSIZE
Pages(n) == PGROUNDUP(n) \div PGSIZE
PX(level, va) == (va \div FANOUT ^ level) % FANOUT

Junk == [b \in 0 .. PGSIZE - 1 |-> -1]
Zeroes == [b \in 0 .. PGSIZE - 1 |-> 0]
Nopte == [pa |-> Null, flags |-> {}]
ZeroedTable == [i \in 0 .. FANOUT - 1 |-> Nopte]

\* F(x).  TLC computes x once, however often F uses it.
With(x, F(_)) == CHOOSE y \in {F(z) : z \in {x}} : TRUE

-----------------------------------------------------------------------------
(* kalloc.c.  The list hands out the page freed last; which one that is    *)
(* makes no difference to anybody, and here it is the smallest.            *)

Head1(mm) == IF mm.free = {} THEN Null ELSE Min(mm.free)
Kfree(mm, ps) ==
    [free |-> mm.free \cup ps,
     mem |-> [p \in Page |-> IF p \in ps THEN Junk ELSE mm.mem[p]]]

\* kalloc of page pg, the head of the list, and what is first stored in it.
Kalloc(mm, pg, v) == [free |-> mm.free \ {pg}, mem |-> [mm.mem EXCEPT ![pg] = v]]

-----------------------------------------------------------------------------
(* vm.c.  An operator that changes memory returns it in the field m.       *)

\* One turn of the loop of walk: from the table at down to the next.
WalkDown(mm, at, level, va, alloc) ==
    LET pte == mm.mem[at][PX(level, va)]
        pg == Head1(mm)
    IN IF at = Null THEN [m |-> mm, at |-> Null]
       ELSE IF "V" \in pte.flags THEN [m |-> mm, at |-> pte.pa]
       ELSE IF ~alloc \/ pg = Null THEN [m |-> mm, at |-> Null]
       ELSE [at |-> pg,
             m |-> [Kalloc(mm, pg, ZeroedTable) EXCEPT
                       !.mem[at][PX(level, va)] = [pa |-> pg, flags |-> {"V"}]]]

\* walk: the last-level table with the entry of va, or Null.
Walk(mm, pt, va, alloc) ==
    With(WalkDown(mm, pt, 2, va, alloc), LAMBDA w : WalkDown(w.m, w.at, 1, va, alloc))

\* The entry of va, without walk's allocation.
Pte(mm, pt, va) ==
    With(Walk(mm, pt, va, FALSE).at,
         LAMBDA at : IF at = Null THEN Nopte ELSE mm.mem[at][PX(0, va)])

Walkaddr(mm, pt, va) ==
    With(Pte(mm, pt, va),
         LAMBDA pte : IF va < MAXVA /\ {"V", "U"} \subseteq pte.flags THEN pte.pa
                      ELSE Null)

\* mappages for one page, which is what all callers but kvmmap ask for.
Mappages(mm, pt, va, pa, perm) ==
    With(Walk(mm, pt, va, TRUE), LAMBDA w :
        IF w.at = Null THEN [m |-> w.m, ok |-> FALSE, panic |-> FALSE]
        ELSE [m |-> [w.m EXCEPT !.mem[w.at][PX(0, va)] =
                        [pa |-> pa, flags |-> perm \cup {"V"}]],
              ok |-> TRUE,
              panic |-> va >= MAXVA \/ "V" \in w.m.mem[w.at][PX(0, va)].flags])

\* mm without the entries in slots.
Clear(mm, slots) ==
    [mm EXCEPT !.mem = [p \in Page |->
        IF \E s \in slots : s[1] = p
        THEN [i \in 0 .. FANOUT - 1 |-> IF <<p, i>> \in slots THEN Nopte ELSE mm.mem[p][i]]
        ELSE mm.mem[p]]]

\* uvmunmap of the pages in vas.
Uvmunmap(mm, pt, vas, free) ==
    With({<<Walk(mm, pt, va, FALSE).at, PX(0, va)>> : va \in vas}, LAMBDA slots :
    With({Pte(mm, pt, va) : va \in vas}, LAMBDA ptes :
        [m |-> With(Clear(mm, slots), LAMBDA mc :
                   IF free THEN Kfree(mc, {e.pa : e \in ptes}) ELSE mc),
         panic |-> \E e \in ptes : "V" \notin e.flags \/ e.flags = {"V"}]))

\* The page-table pages of pt.
Children(mm, t) == {mm.mem[t][i].pa : i \in {j \in 0 .. FANOUT - 1 :
                                               mm.mem[t][j].flags = {"V"}}}
Tables(mm, pt) ==
    With(Children(mm, pt), LAMBDA mid :
        {pt} \cup mid \cup UNION {Children(mm, t) : t \in mid})

Freewalk(mm, pt) ==
    With(Tables(mm, pt), LAMBDA tables :
        [m |-> Kfree(mm, tables),
         panic |-> \E t \in tables : \E i \in 0 .. FANOUT - 1 :
                      mm.mem[t][i].flags \notin {{}, {"V"}}])

Uvmfree(mm, pt, n) ==
    With(Uvmunmap(mm, pt, 0 .. Pages(n) - 1, TRUE), LAMBDA u :
    With(Freewalk(u.m, pt), LAMBDA f : [m |-> f.m, panic |-> u.panic \/ f.panic]))

\* uvmdealloc: the new size and the memory.
Uvmdealloc(mm, pt, oldsz, newsz) ==
    IF newsz >= oldsz THEN [m |-> mm, panic |-> FALSE, sz |-> oldsz]
    ELSE With(Uvmunmap(mm, pt, Pages(newsz) .. Pages(oldsz) - 1, TRUE), LAMBDA u :
              [m |-> u.m, panic |-> u.panic, sz |-> newsz])

Failed(r) == [m |-> r.m, ok |-> FALSE, panic |-> r.panic]

\* Mutant: the page is not given back when it cannot be mapped.
UvmallocUndoLeak(mm, pt, a, oldsz, pa) == Uvmdealloc(mm, pt, a, oldsz)

\* uvmalloc gives up: the page it could not map and those it has mapped.
UvmallocUndo(mm, pt, a, oldsz, pa) ==
    With(Kfree(mm, {pa}), LAMBDA mf : Uvmdealloc(mf, pt, a, oldsz))

\* Mutant: new memory is not cleared.
FreshJunk == Junk

Fresh == Zeroes

\* One turn of the loop of uvmalloc, at address a.
UvmallocPage(mm, pt, a, oldsz, perm) ==
    With(Head1(mm), LAMBDA pa :
        IF pa = Null THEN Failed(Uvmdealloc(mm, pt, a, oldsz))
        ELSE With(Kalloc(mm, pa, Fresh), LAMBDA mk :
             With(Mappages(mk, pt, a \div PGSIZE, pa, {"R", "U"} \cup perm), LAMBDA map :
                  IF map.ok THEN map
                  ELSE Failed(UvmallocUndo(map.m, pt, a, oldsz, pa)))))

\* One turn of the loop of uvmcopy, for page i, or what is done at err.
UvmcopyPage(mm, old, new, i) ==
    LET Err(me) == Failed(Uvmunmap(me, new, 0 .. i - 1, TRUE)) IN
    With(Head1(mm), LAMBDA pa :
    With(Pte(mm, old, i), LAMBDA pte :
        IF pa = Null THEN Err(mm)
        ELSE With(Kalloc(mm, pa, mm.mem[pte.pa]), LAMBDA mk :
             With(Mappages(mk, new, i, pa, pte.flags), LAMBDA map :
                  IF map.ok THEN [map EXCEPT !.panic = @ \/ "V" \notin pte.flags]
                  ELSE With(Kfree(map.m, {pa}), Err)))))

\* uvmfirst: the first page of the first process.
Uvmfirst(mm, pt) ==
    With(Head1(mm), LAMBDA pa :
        Mappages(Kalloc(mm, pa, Zeroes), pt, 0, pa, {"W", "R", "X", "U"}))

Uvmclear(mm, pt, va) ==
    [mm EXCEPT !.mem[Walk(mm, pt, va, FALSE).at][PX(0, va)].flags = @ \ {"U"}]

\* The physical addresses of the bytes of a .. a + len - 1 that copyout, copyin
\* and copyinstr come to before they find a page that is not the user's.
Reach(mm, pt, a, len) ==
    With([va \in a \div PGSIZE .. (a + len - 1) \div PGSIZE |-> Walkaddr(mm, pt, va)],
    LAMBDA pa :
        [b \in {c \in a .. a + len - 1 :
                   \A va \in a \div PGSIZE .. c \div PGSIZE : pa[va] # Null} |->
            <<pa[b \div PGSIZE], b % PGSIZE>>])

\* copyout of len bytes v.
Copyout(mm, pt, a, len, v) ==
    With({Reach(mm, pt, a, len)[b] : b \in DOMAIN Reach(mm, pt, a, len)}, LAMBDA to :
        [mm EXCEPT !.mem = [p \in Page |->
            IF \E t \in to : t[1] = p
            THEN [o \in 0 .. PGSIZE - 1 |-> IF <<p, o>> \in to THEN v ELSE mm.mem[p][o]]
            ELSE mm.mem[p]]])

Fault == <<-1>>

\* copyin: the bytes, or Fault.
Copyin(mm, pt, a, len) ==
    With(Reach(mm, pt, a, len), LAMBDA at :
        IF Cardinality(DOMAIN at) < len THEN Fault
        ELSE [k \in 1 .. len |-> mm.mem[at[a + k - 1][1]][at[a + k - 1][2]]])

\* copyinstr: the bytes before the first 0, or Fault.
Copyinstr(mm, pt, a, max) ==
    With(Reach(mm, pt, a, max), LAMBDA at :
    With({b \in DOMAIN at : mm.mem[at[b][1]][at[b][2]] = 0}, LAMBDA ends :
        IF ends = {} THEN Fault
        ELSE Copyin(mm, pt, a, Min(ends) - a)))

-----------------------------------------------------------------------------
(* proc.c: page tables of processes.                                       *)

NoTable(r) == [m |-> r.m, pt |-> Null, panic |-> r.panic]

ProcPagetable(mm, tf) ==
    With(Head1(mm), LAMBDA pt :
        IF pt = Null THEN [m |-> mm, pt |-> Null, panic |-> FALSE]
        ELSE With(Kalloc(mm, pt, ZeroedTable), LAMBDA mk :
             With(Mappages(mk, pt, TRAMPOLINE, Trampoline, {"R", "X"}), LAMBDA tramp :
                 IF ~tramp.ok THEN NoTable(Uvmfree(tramp.m, pt, 0))
                 ELSE With(Mappages(tramp.m, pt, TRAPFRAME, tf, {"R", "W"}), LAMBDA frame :
                      IF frame.ok
                      THEN [m |-> frame.m, pt |-> pt, panic |-> tramp.panic \/ frame.panic]
                      ELSE With(Uvmunmap(frame.m, pt, {TRAMPOLINE}, FALSE), LAMBDA u :
                                NoTable(Uvmfree(u.m, pt, 0)))))))

ProcFreepagetable(mm, pt, n) ==
    With(Uvmunmap(mm, pt, {TRAMPOLINE, TRAPFRAME}, FALSE), LAMBDA u :
    With(Uvmfree(u.m, pt, n), LAMBDA f : [m |-> f.m, panic |-> u.panic \/ f.panic]))

\* What freeproc does to memory; it is called with a trapframe.
FreeprocMem(mm, tf, pt, n) ==
    With(Kfree(mm, {tf}), LAMBDA mf :
        IF pt = Null THEN [m |-> mf, panic |-> FALSE] ELSE ProcFreepagetable(mf, pt, n))

\* allocproc, once it has found a slot.
AllocprocMem(mm) ==
    With(Head1(mm), LAMBDA tf :
        IF tf = Null THEN [m |-> mm, pt |-> Null, tf |-> Null, panic |-> FALSE]
        ELSE With(Kalloc(mm, tf, Junk), LAMBDA mk :
             With(ProcPagetable(mk, tf), LAMBDA new :
                 IF new.pt # Null
                 THEN [m |-> new.m, pt |-> new.pt, tf |-> tf, panic |-> new.panic]
                 ELSE With(FreeprocMem(new.m, tf, Null, 0), LAMBDA f :
                      [m |-> f.m, pt |-> Null, tf |-> Null,
                       panic |-> new.panic \/ f.panic]))))

-----------------------------------------------------------------------------

User == [op |-> "user"]

\* The bytes of memory a process of size n has, each 0.
ZeroImage(n) == [b \in 0 .. PGROUNDUP(n) - 1 |-> 0]
Guard == -2

\* userinit has made process 1, with one page.
Init ==
    LET Only1(v, none) == [p \in Proc |-> IF p = 1 THEN v ELSE none] IN
    \E boot \in {AllocprocMem([free |-> Page, mem |-> [p \in Page |-> Junk]])} :
    \E first \in {Uvmfirst(boot.m, boot.pt)} :
       /\ m = first.m
       /\ state = Only1("RUNNING", "UNUSED")
       /\ pagetable = Only1(boot.pt, Null)
       /\ trapframe = Only1(boot.tf, Null)
       /\ sz = Only1(PGSIZE, 0)
       /\ call = [p \in Proc |-> User]
       /\ panicked = (boot.panic \/ first.panic)
       /\ image = Only1(ZeroImage(PGSIZE), <<>>)

InUser(p) == ~panicked /\ state[p] = "RUNNING" /\ call[p] = User
In(p, ops) == ~panicked /\ call[p].op \in ops
SetCall(p, c) == call' = [call EXCEPT ![p] = c]
Becomes(r) == m' = r.m /\ panicked' = r.panic

\* sys_sbrk and growproc, up to the loop of uvmalloc.
Sbrk(p, n) ==
    /\ InUser(p)
    /\ \/ /\ n > 0
          /\ SetCall(p, [op |-> "grow", pt |-> pagetable[p], perm |-> {"W"},
                         old |-> PGROUNDUP(sz[p]), a |-> PGROUNDUP(sz[p]),
                         new |-> sz[p] + n])
          /\ UNCHANGED <<m, sz, panicked, image>>
       \/ \E d \in {Uvmdealloc(m, pagetable[p], sz[p], (sz[p] + n) % UINT64)} :
          /\ n < 0
          /\ Becomes(d)
          /\ sz' = [sz EXCEPT ![p] = d.sz]
          /\ image' = [image EXCEPT ![p] = [b \in DOMAIN ZeroImage(d.sz) |-> @[b]]]
          /\ UNCHANGED call
    /\ UNCHANGED <<state, pagetable, trapframe>>

\* uvmalloc in growproc or exec: a page, or the end of the call.
UvmallocTurn(p) ==
    LET c == call[p] IN
    /\ In(p, {"grow", "segment", "stack"})
    /\ c.a < c.new
    /\ \E r \in {UvmallocPage(m, c.pt, c.a, c.old, c.perm)} :
       \/ r.ok /\ Becomes(r) /\ SetCall(p, [c EXCEPT !.a = @ + PGSIZE])
       \/ ~r.ok /\ c.op = "grow" /\ Becomes(r) /\ SetCall(p, User)
       \/ /\ ~r.ok /\ c.op # "grow"
          /\ \E bad \in {ProcFreepagetable(r.m, c.pt, c.sz)} : Becomes(bad)
          /\ SetCall(p, User)
    /\ UNCHANGED <<state, pagetable, sz, trapframe, image>>

GrowEnd(p) ==
    LET n == call[p].new IN
    /\ In(p, {"grow"})
    /\ call[p].a >= n
    /\ sz' = [sz EXCEPT ![p] = n]
    /\ image' = [image EXCEPT ![p] = [b \in DOMAIN ZeroImage(n) |->
                                         IF b \in DOMAIN @ THEN @[b] ELSE 0]]
    /\ SetCall(p, User)
    /\ UNCHANGED <<m, state, pagetable, trapframe, panicked>>

\* fork, up to the loop of uvmcopy.  allocproc takes an unused slot.
Fork(p, np) ==
    /\ InUser(p)
    /\ state[np] = "UNUSED" /\ \A q \in 1 .. np - 1 : state[q] # "UNUSED"
    /\ \E r \in {AllocprocMem(m)} :
          /\ Becomes(r)
          /\ pagetable' = [pagetable EXCEPT ![np] = r.pt]
          /\ trapframe' = [trapframe EXCEPT ![np] = r.tf]
          /\ state' = [state EXCEPT ![np] = IF r.pt = Null THEN "UNUSED" ELSE "USED"]
          /\ SetCall(p, IF r.pt = Null THEN User
                        ELSE [op |-> "fork", np |-> np, i |-> 0])
    /\ UNCHANGED <<sz, image>>

\* freeproc, on memory mm.
Freeproc(p, mm) ==
    /\ \E r \in {FreeprocMem(mm, trapframe[p], pagetable[p], sz[p])} : Becomes(r)
    /\ state' = [state EXCEPT ![p] = "UNUSED"]
    /\ pagetable' = [pagetable EXCEPT ![p] = Null]
    /\ trapframe' = [trapframe EXCEPT ![p] = Null]
    /\ sz' = [sz EXCEPT ![p] = 0]
    /\ image' = [image EXCEPT ![p] = <<>>]

UvmcopyTurn(p) ==
    LET np == call[p].np IN
    /\ In(p, {"fork"})
    /\ call[p].i * PGSIZE < sz[p]
    /\ \E r \in {UvmcopyPage(m, pagetable[p], pagetable[np], call[p].i)} :
       \/ /\ r.ok
          /\ Becomes(r)
          /\ SetCall(p, [call[p] EXCEPT !.i = @ + 1])
          /\ UNCHANGED <<state, pagetable, sz, trapframe, image>>
       \/ /\ ~r.ok
          /\ Freeproc(np, r.m)
          /\ SetCall(p, User)

ForkEnd(p) ==
    LET np == call[p].np IN
    /\ In(p, {"fork"})
    /\ call[p].i * PGSIZE >= sz[p]
    /\ sz' = [sz EXCEPT ![np] = sz[p]]
    /\ state' = [state EXCEPT ![np] = "RUNNING"]
    /\ image' = [image EXCEPT ![np] = image[p]]
    /\ SetCall(p, User)
    /\ UNCHANGED <<m, pagetable, trapframe, panicked>>

\* exit keeps the memory; wait, in another process, frees it.
Exit(p) ==
    /\ InUser(p) /\ p # 1
    /\ state' = [state EXCEPT ![p] = "ZOMBIE"]
    /\ UNCHANGED <<m, pagetable, sz, trapframe, call, panicked, image>>

Wait(p, z) ==
    /\ InUser(p) /\ state[z] = "ZOMBIE"
    /\ Freeproc(z, m)
    /\ UNCHANGED call

-----------------------------------------------------------------------------
(* exec.c                                                                  *)

\* The call of uvmalloc for segment i of the file, or for the stack and its
\* guard page after the last; n is sz so far.
Allocate(img, i, pt, n, arg) ==
    LET old == PGROUNDUP(n)
        last == i > Len(img)
    IN [op |-> IF last THEN "stack" ELSE "segment",
        img |-> img, i |-> i, pt |-> pt, arg |-> arg, old |-> old, a |-> old,
        sz |-> IF last THEN old ELSE n,
        new |-> IF last THEN old + 2 * PGSIZE ELSE img[i].vaddr + img[i].memsz,
        perm |-> {"W"}]

\* exec(file, argv): the file is found and is an ELF file; arg bytes of
\* arguments will be pushed.
Exec(p, img, arg) ==
    /\ InUser(p)
    /\ \E r \in {ProcPagetable(m, trapframe[p])} :
          /\ Becomes(r)
          /\ SetCall(p, IF r.pt = Null THEN User ELSE Allocate(img, 1, r.pt, 0, arg))
    /\ UNCHANGED <<state, pagetable, sz, trapframe, image>>

\* What uvmalloc returns to exec.
Sz1(c) == IF c.new < c.sz THEN c.sz ELSE c.new

\* uvmalloc has returned; loadseg reads the segment.
SegmentEnd(p) ==
    LET c == call[p]
        seg == c.img[c.i]
    IN
    /\ In(p, {"segment"})
    /\ c.a >= c.new /\ Sz1(c) # 0
    /\ m' = Copyout(m, c.pt, seg.vaddr, seg.filesz, 1)
    /\ panicked' = (DOMAIN Reach(m, c.pt, seg.vaddr, seg.filesz)
                        # seg.vaddr .. seg.vaddr + seg.filesz - 1)
    /\ SetCall(p, Allocate(c.img, c.i + 1, c.pt, Sz1(c), c.arg))
    /\ UNCHANGED <<state, pagetable, sz, trapframe, image>>

BadSize(c) == IF c.a >= c.new THEN Sz1(c) ELSE c.sz

\* exec gives up: a bad or truncated program header (before uvmalloc) or
\* segment (after it), uvmalloc's 0, or arguments that do not fit the stack.
ExecBad(p) ==
    LET c == call[p] IN
    /\ In(p, {"segment", "stack"})
    /\ \/ c.op = "segment" /\ (c.a = c.old \/ c.a >= c.new)
       \/ c.op = "stack" /\ c.a >= c.new /\ c.arg > PGSIZE
    /\ \E r \in {ProcFreepagetable(m, c.pt, BadSize(c))} : Becomes(r)
    /\ SetCall(p, User)
    /\ UNCHANGED <<state, pagetable, sz, trapframe, image>>

\* The memory the new program should find.
ExecImage(c) ==
    [b \in 0 .. c.new - 1 |->
        IF b \in c.sz .. c.sz + PGSIZE - 1 THEN Guard
        ELSE IF b >= c.new - c.arg
                \/ \E i \in DOMAIN c.img : b - c.img[i].vaddr \in 0 .. c.img[i].filesz - 1
        THEN 1 ELSE 0]

\* The stack is there: guard page, arguments, and the commit.
ExecCommit(p) ==
    LET c == call[p] IN
    /\ In(p, {"stack"})
    /\ c.a >= c.new /\ c.arg <= PGSIZE
    /\ pagetable' = [pagetable EXCEPT ![p] = c.pt]
    /\ sz' = [sz EXCEPT ![p] = c.new]
    /\ \E guarded \in {Uvmclear(m, c.pt, (c.new - 2 * PGSIZE) \div PGSIZE)} :
       \E pushed \in {Copyout(guarded, c.pt, c.new - c.arg, c.arg, 1)} :
       \E r \in {ProcFreepagetable(pushed, pagetable[p], sz[p])} : Becomes(r)
    /\ image' = [image EXCEPT ![p] = ExecImage(c)]
    /\ SetCall(p, User)
    /\ UNCHANGED <<state, trapframe>>

\* A system call that copies to the user, for example read().
CopyToUser(p, a, len) ==
    LET Own(b) == b \in DOMAIN image[p] /\ image[p][b] # Guard IN
    /\ InUser(p)
    /\ m' = Copyout(m, pagetable[p], a, len, 1)
    /\ image' = [image EXCEPT ![p] = [b \in DOMAIN @ |->
                    IF b \in a .. a + len - 1 /\ \A c \in a .. b : Own(c)
                    THEN 1 ELSE @[b]]]
    /\ UNCHANGED <<state, pagetable, sz, trapframe, call, panicked>>

Next ==
    \E p \in Proc :
        \/ UvmallocTurn(p) \/ GrowEnd(p)
        \/ \E n \in Incr : Sbrk(p, n)
        \/ \E np \in Proc : Fork(p, np)
        \/ UvmcopyTurn(p) \/ ForkEnd(p)
        \/ Exit(p)
        \/ \E z \in Proc : Wait(p, z)
        \/ \E img \in Image, arg \in {1, PGSIZE + 1} : Exec(p, img, arg)
        \/ SegmentEnd(p) \/ ExecBad(p) \/ ExecCommit(p)
        \/ \E b \in Buf : CopyToUser(p, b[1], b[2])

Spec == Init /\ [][Next]_vars

-----------------------------------------------------------------------------
(* Properties.                                                             *)

\* The page tables that exist: each process's, and the one exec is building.
Roots(p) == ({pagetable[p]} \cup IF call[p].op \in {"segment", "stack"}
                                  THEN {call[p].pt} ELSE {}) \ {Null}

FrameSlot(pt) == <<Walk(m, pt, TRAPFRAME, FALSE).at, PX(0, TRAPFRAME)>>

\* Every physical page is in exactly one place: on the free list, a page
\* table, a trapframe, or mapped once by one page table.  So no failure of
\* fork, exec or sbrk half way loses a page or frees it twice, and no page is
\* shared by two processes, whatever the others allocate in between.  The
\* kernel's own checks agree: no page is mapped over another, uvmunmap and
\* uvmcopy find every page below sz, freewalk finds no page left.
PageAccounting ==
    LET roots == UNION {{<<p, pt>> : pt \in Roots(p)} : p \in Proc}
        entries == UNION {{<<t, i>> : t \in Tables(m, r[2]), i \in 0 .. FANOUT - 1} :
                             r \in roots} \ {FrameSlot(r[2]) : r \in roots}
        Pa(e) == m.mem[e[1]][e[2]].pa
        uses == {<<"free", <<g, 0>>, g>> : g \in m.free}
                \cup {<<"frame", <<p, 0>>, trapframe[p]>> :
                         p \in {q \in Proc : trapframe[q] # Null}}
                \cup {<<"root", r, r[2]>> : r \in roots}
                \cup {<<"pte", e, Pa(e)>> : e \in {x \in entries : Pa(x) \in Page}}
    IN /\ ~panicked
       /\ Cardinality(uses) = NPAGES
       /\ {u[3] : u \in uses} = Page
       /\ \A p \in Proc : \A pt \in Roots(p) :
             Pte(m, pt, TRAPFRAME).pa = trapframe[p]

\* Each process finds its own bytes in its memory and nothing else there:
\* copies of its parent's bytes after fork, the file's bytes and zeroes after
\* exec, zeroes where it grew, what was copied to it, and all it had before a
\* call that failed; copyin and copyinstr return these bytes, and fail on the
\* guard page and beyond the last page.
OwnMemory ==
    \A p \in {q \in Proc : state[q] = "RUNNING" /\ call[q].op # "grow"} :
        LET Own(a, n) == \A b \in a .. a + n - 1 :
                            b \in DOMAIN image[p] /\ image[p][b] # Guard
            Ends(a) == {b \in a .. a + PGSIZE : Own(a, b - a + 1) /\ image[p][b] = 0}
        IN \A a \in 0 .. PGROUNDUP(sz[p]) :
             /\ Copyin(m, pagetable[p], a, 2) =
                   IF Own(a, 2) THEN <<image[p][a], image[p][a + 1]>> ELSE Fault
             /\ Copyinstr(m, pagetable[p], a, PGSIZE + 1) =
                   IF Ends(a) = {} THEN Fault
                   ELSE [k \in 1 .. Min(Ends(a)) - a |-> 1]
=============================================================================
