------------------------------- MODULE Inode -------------------------------
(***************************************************************************)
(* The life of a file: its directory entries, its inode on the disk, the   *)
(* inode table (kernel/fs.c), the file table (kernel/file.c) and the file  *)
(* descriptors, under open, link, unlink, read, close and fork             *)
(* (kernel/sysfile.c).                                                     *)
(*                                                                         *)
(* There is one directory, the root, which somebody's cwd keeps in the     *)
(* inode table; its sleep lock is dlock.  A step covers what happens under *)
(* one spinlock, or under sleep locks that are already held; a sleep lock  *)
(* held from one step to the next is in the state.  Contents, truncation   *)
(* and block allocation are left out.  So are crashes: each of the calls   *)
(* is a transaction of module Log.                                         *)
(***************************************************************************)
EXTENDS Integers, FiniteSets, FiniteSetsExt

CONSTANTS
    Proc,     \* processes
    Name,     \* names in the directory
    None,     \* no process, no entry, no file
    NINODES,  \* inodes on the disk, numbered from 1 (root not counted)
    NINODE,   \* entries of the inode table
    NFILE     \* entries of the file table

ASSUME InodeAssumption ==
    /\ None \notin Proc \cup Nat
    /\ NINODES \in Nat \ {0} /\ NINODE \in Nat \ {0} /\ NFILE \in Nat \ {0}

VARIABLES
    dir,      \* dir[n]: inode number, 0 for no entry
    dlock,    \* holder of the directory's lock
    dinode,   \* dinode[i]: alloc (type # 0) and nlink on the disk
    inode,    \* inode[e]: entry of itable: inum, ref, valid, alloc, nlink, lock
    file,     \* file[f]: entry of ftable: ref, ip
    ofile,    \* ofile[p]: the file p has open (NOFILE is 1)
    th,       \* th[p]: the system call p is in: pc, op, ip, and the name and
              \* the inode number it still needs
    panicked  \* "no", or the panic that stopped the kernel

vars == <<dir, dlock, dinode, inode, file, ofile, th, panicked>>

Inum == 1 .. NINODES
Entry == 1 .. NINODE
File == 1 .. NFILE

Idle == [pc |-> "idle", op |-> "none", name |-> None, ip |-> None, inum |-> 0]

\* An entry of the inode table that is not in use.  The code leaves the old
\* fields there; nothing reads them before iget and ilock have set them.
Blank == [inum |-> 0, ref |-> 0, valid |-> FALSE, alloc |-> FALSE, nlink |-> 0,
          lock |-> None]

Init ==
    /\ dir = [n \in Name |-> 0]
    /\ dlock = None
    /\ dinode = [i \in Inum |-> [alloc |-> FALSE, nlink |-> 0]]
    /\ inode = [e \in Entry |-> Blank]
    /\ file = [f \in File |-> [ref |-> 0, ip |-> None]]
    /\ ofile = [p \in Proc |-> None]
    /\ th = [p \in Proc |-> Idle]
    /\ panicked = "no"

At(p, label) == panicked = "no" /\ th[p].pc = label

Goto(p, label) == th' = [th EXCEPT ![p].pc = label]

\* The rest of the call is iput(e).
GotoIput(p, e) == th' = [th EXCEPT ![p] = [Idle EXCEPT !.pc = "iput", !.ip = e]]

Panic(what) ==
    /\ panicked' = what
    /\ UNCHANGED <<dir, dlock, dinode, inode, file, ofile, th>>

-----------------------------------------------------------------------------
(* iget.                                                                   *)

InTable(i) == {e \in Entry : inode[e].ref > 0 /\ inode[e].inum = i}

Empty == {e \in Entry : inode[e].ref = 0}

\* The entry iget(i) returns, and its panic.
IgetEntry(i) == IF InTable(i) # {} THEN Min(InTable(i)) ELSE Min(Empty)
IgetFails(i) == InTable(i) = {} /\ Empty = {}

\* The table after iget(i).
Iget(i) ==
    [inode EXCEPT ![IgetEntry(i)] =
        IF InTable(i) # {} THEN [@ EXCEPT !.ref = @ + 1]
        ELSE [@ EXCEPT !.inum = i, !.ref = 1, !.valid = FALSE]]

-----------------------------------------------------------------------------
(* The start of a system call, up to the iget of the file it is about:     *)
(* the directory is locked, searched and, for open and link, unlocked.     *)

\* open of an existing file, with O_CREATE or without, and link: namei.
Namei(p, op, n, new) ==
    LET i == dir[n] IN
    /\ At(p, "idle")
    /\ dlock = None
    /\ i # 0
    /\ IF IgetFails(i) THEN Panic("iget")
       ELSE /\ inode' = Iget(i)
            /\ th' = [th EXCEPT ![p] = [Idle EXCEPT !.pc = "ilock", !.op = op,
                                       !.name = new, !.ip = IgetEntry(i)]]
            /\ UNCHANGED <<dir, dlock, dinode, file, ofile, panicked>>

\* unlink: the directory stays locked.
Unlink(p, n) ==
    LET i == dir[n] IN
    /\ At(p, "idle")
    /\ dlock = None
    /\ i # 0
    /\ IF IgetFails(i) THEN Panic("iget")
       ELSE /\ inode' = Iget(i)
            /\ dlock' = p
            /\ th' = [th EXCEPT ![p] = [Idle EXCEPT !.pc = "ilock", !.op = "unlink",
                                       !.name = n, !.ip = IgetEntry(i)]]
            /\ UNCHANGED <<dir, dinode, file, ofile, panicked>>

\* open with O_CREATE of a name that does not exist: create.
Create(p, n) ==
    /\ At(p, "idle")
    /\ dlock = None
    /\ dir[n] = 0
    /\ dlock' = p
    /\ th' = [th EXCEPT ![p] = [Idle EXCEPT !.pc = "ialloc", !.op = "create",
                               !.name = n]]
    /\ UNCHANGED <<dir, dinode, inode, file, ofile, panicked>>

\* ialloc: the first free inode is marked allocated on the disk.
Ialloc(p) ==
    LET unused == {i \in Inum : ~dinode[i].alloc} IN
    /\ At(p, "ialloc")
    /\ IF unused = {}
       THEN /\ dlock' = None
            /\ th' = [th EXCEPT ![p] = Idle]
            /\ UNCHANGED dinode
       ELSE /\ dinode' = [dinode EXCEPT ![Min(unused)] = [alloc |-> TRUE, nlink |-> 0]]
            /\ th' = [th EXCEPT ![p].pc = "iget", ![p].inum = Min(unused)]
            /\ UNCHANGED dlock
    /\ UNCHANGED <<dir, inode, file, ofile, panicked>>

\* ialloc returns iget(inum).
IallocIget(p) ==
    LET i == th[p].inum IN
    /\ At(p, "iget")
    /\ IF IgetFails(i) THEN Panic("iget")
       ELSE /\ inode' = Iget(i)
            /\ th' = [th EXCEPT ![p].pc = "ilock", ![p].ip = IgetEntry(i),
                               ![p].inum = 0]
            /\ UNCHANGED <<dir, dlock, dinode, file, ofile, panicked>>

-----------------------------------------------------------------------------
(* ilock, and what the calls do with the inode locked.                     *)

\* Read the inode from the disk if necessary.
Load(e) ==
    IF inode[e].valid THEN inode[e]
    ELSE [inode[e] EXCEPT !.valid = TRUE, !.alloc = dinode[inode[e].inum].alloc,
                          !.nlink = dinode[inode[e].inum].nlink]

Ilock(p) ==
    LET e == th[p].ip IN
    /\ At(p, "ilock")
    /\ inode[e].lock = None
    /\ IF inode[e].ref < 1 \/ ~(inode[e].valid \/ Load(e).alloc)
       THEN Panic("ilock")
       ELSE /\ inode' = [inode EXCEPT ![e] = [Load(e) EXCEPT !.lock = p]]
            /\ Goto(p, "locked")
            /\ UNCHANGED <<dir, dlock, dinode, file, ofile, panicked>>

\* ip->nlink = k; iupdate(ip); and, unless the caller goes on, iunlock(ip).
SetNlink(e, k, holder) ==
    /\ inode' = [inode EXCEPT ![e].nlink = k, ![e].lock = holder]
    /\ dinode' = [dinode EXCEPT ![inode[e].inum] =
                     [alloc |-> inode[e].alloc, nlink |-> k]]

\* create: the new inode gets its name.
CreateLink(p) ==
    LET e == th[p].ip IN
    /\ At(p, "locked") /\ th[p].op = "create"
    /\ SetNlink(e, 1, p)
    /\ dir' = [dir EXCEPT ![th[p].name] = inode[e].inum]
    /\ dlock' = None
    /\ th' = [th EXCEPT ![p].op = "open", ![p].name = None]
    /\ UNCHANGED <<file, ofile, panicked>>

\* create, when the directory cannot grow.
CreateFail(p) ==
    LET e == th[p].ip IN
    /\ At(p, "locked") /\ th[p].op = "create"
    /\ SetNlink(e, 0, None)
    /\ GotoIput(p, e)
    /\ UNCHANGED <<dir, dlock, file, ofile, panicked>>

\* The end of sys_open: filealloc, fdalloc, iunlock; or it gives the inode
\* back when the file table is full or p has no descriptor left.
Open(p) ==
    LET e == th[p].ip
        spare == {f \in File : file[f].ref = 0}
    IN
    /\ At(p, "locked") /\ th[p].op = "open"
    /\ inode' = [inode EXCEPT ![e].lock = None]
    /\ IF spare = {} \/ ofile[p] # None
       THEN GotoIput(p, e) /\ UNCHANGED <<file, ofile>>
       ELSE /\ file' = [file EXCEPT ![Min(spare)] = [ref |-> 1, ip |-> e]]
            /\ ofile' = [ofile EXCEPT ![p] = Min(spare)]
            /\ th' = [th EXCEPT ![p] = Idle]
    /\ UNCHANGED <<dir, dlock, dinode, panicked>>

\* sys_link: ip->nlink++, before the directory is locked.
LinkCount(p) ==
    LET e == th[p].ip IN
    /\ At(p, "locked") /\ th[p].op = "link"
    /\ SetNlink(e, inode[e].nlink + 1, None)
    /\ Goto(p, "dirlink")
    /\ UNCHANGED <<dir, dlock, file, ofile, panicked>>

\* dirlink(dp, new, ip->inum): fails if the name exists or the directory
\* cannot grow.  (The lookup takes and gives back a reference.)
LinkEntry(p) ==
    LET i == dir[th[p].name] IN
    /\ At(p, "dirlink")
    /\ dlock = None
    /\ IF i # 0 /\ IgetFails(i) THEN Panic("iget")
       ELSE /\ \/ /\ i = 0
                  /\ dir' = [dir EXCEPT ![th[p].name] = inode[th[p].ip].inum]
                  /\ GotoIput(p, th[p].ip)
               \/ /\ UNCHANGED dir
                  /\ th' = [th EXCEPT ![p].pc = "ilock", ![p].op = "bad",
                                      ![p].name = None]
            /\ UNCHANGED <<dlock, dinode, inode, file, ofile, panicked>>

\* Mutant: the error path of sys_link leaves the count.
LinkBadForgets(p) ==
    LET e == th[p].ip IN
    /\ At(p, "locked") /\ th[p].op = "bad"
    /\ SetNlink(e, inode[e].nlink, None)
    /\ GotoIput(p, e)
    /\ UNCHANGED <<dir, dlock, file, ofile, panicked>>

\* bad: ip->nlink--.
LinkBad(p) ==
    LET e == th[p].ip IN
    /\ At(p, "locked") /\ th[p].op = "bad"
    /\ SetNlink(e, inode[e].nlink - 1, None)
    /\ GotoIput(p, e)
    /\ UNCHANGED <<dir, dlock, file, ofile, panicked>>

\* sys_unlink with both locked: the entry goes, the directory is unlocked.
UnlinkEntry(p) ==
    /\ At(p, "locked") /\ th[p].op = "unlink"
    /\ IF inode[th[p].ip].nlink < 1 THEN Panic("unlink")
       ELSE /\ dir' = [dir EXCEPT ![th[p].name] = 0]
            /\ dlock' = None
            /\ th' = [th EXCEPT ![p].pc = "unlinked", ![p].name = None]
            /\ UNCHANGED <<dinode, inode, file, ofile, panicked>>

UnlinkCount(p) ==
    LET e == th[p].ip IN
    /\ At(p, "unlinked")
    /\ SetNlink(e, inode[e].nlink - 1, None)
    /\ GotoIput(p, e)
    /\ UNCHANGED <<dir, dlock, file, ofile, panicked>>

-----------------------------------------------------------------------------
(* iput.                                                                   *)

\* Mutant: iput does not look at the reference count.
LastLinkAnyRef(e) == inode[e].valid /\ inode[e].nlink = 0

\* No links and no other references.
LastLink(e) == inode[e].ref = 1 /\ inode[e].valid /\ inode[e].nlink = 0

\* ip->ref--, and the end of the call; a directory still locked is unlocked.
Drop(p) ==
    /\ inode' = [inode EXCEPT ![th[p].ip] =
                    IF @.ref = 1 THEN Blank ELSE [@ EXCEPT !.ref = @ - 1]]
    /\ th' = [th EXCEPT ![p] = Idle]
    /\ dlock' = IF dlock = p THEN None ELSE dlock

\* Under itable.lock: acquiresleep must not block here.
Iput(p) ==
    LET e == th[p].ip IN
    /\ At(p, "iput")
    /\ IF LastLink(e)
       THEN IF inode[e].lock # None THEN Panic("iput")
            ELSE /\ inode' = [inode EXCEPT ![e].lock = p]
                 /\ Goto(p, "free")
                 /\ UNCHANGED <<dir, dlock, dinode, file, ofile, panicked>>
       ELSE Drop(p) /\ UNCHANGED <<dir, dinode, file, ofile, panicked>>

\* itrunc(ip); ip->type = 0; iupdate(ip).
IputFree(p) ==
    LET e == th[p].ip IN
    /\ At(p, "free")
    /\ inode' = [inode EXCEPT ![e].alloc = FALSE]
    /\ dinode' = [dinode EXCEPT ![inode[e].inum] =
                     [alloc |-> FALSE, nlink |-> inode[e].nlink]]
    /\ Goto(p, "freed")
    /\ UNCHANGED <<dir, dlock, file, ofile, panicked>>

\* Mutant: valid is not cleared.
IputUnlockValid(p) ==
    /\ At(p, "freed")
    /\ inode' = [inode EXCEPT ![th[p].ip].lock = None]
    /\ Goto(p, "drop")
    /\ UNCHANGED <<dir, dlock, dinode, file, ofile, panicked>>

\* ip->valid = 0; releasesleep(&ip->lock).
IputUnlock(p) ==
    /\ At(p, "freed")
    /\ inode' = [inode EXCEPT ![th[p].ip] =
                    [Blank EXCEPT !.inum = inode[th[p].ip].inum,
                                  !.ref = inode[th[p].ip].ref]]
    /\ Goto(p, "drop")
    /\ UNCHANGED <<dir, dlock, dinode, file, ofile, panicked>>

IputDrop(p) ==
    /\ At(p, "drop")
    /\ Drop(p)
    /\ UNCHANGED <<dir, dinode, file, ofile, panicked>>

-----------------------------------------------------------------------------
(* Open files.                                                             *)

\* sys_close and exit: fileclose, whose iput is the rest of the call.
Close(p) ==
    LET f == ofile[p] IN
    /\ At(p, "idle")
    /\ f # None
    /\ IF file[f].ref < 1 THEN Panic("fileclose")
       ELSE /\ ofile' = [ofile EXCEPT ![p] = None]
            /\ IF file[f].ref = 1
               THEN /\ file' = [file EXCEPT ![f] = [ref |-> 0, ip |-> None]]
                    /\ GotoIput(p, file[f].ip)
               ELSE /\ file' = [file EXCEPT ![f].ref = @ - 1]
                    /\ UNCHANGED th
            /\ UNCHANGED <<dir, dlock, dinode, inode, panicked>>

\* Mutant: fork copies the descriptor without filedup.
FiledupNot(f) == file' = file

\* filedup
Filedup(f) == file' = [file EXCEPT ![f].ref = @ + 1]

\* fork: q is born with p's descriptor.
Fork(p, q) ==
    /\ At(p, "idle") /\ At(q, "idle")
    /\ ofile[p] # None /\ ofile[q] = None
    /\ IF file[ofile[p]].ref < 1 THEN Panic("filedup")
       ELSE /\ Filedup(ofile[p])
            /\ ofile' = [ofile EXCEPT ![q] = ofile[p]]
            /\ UNCHANGED <<dir, dlock, dinode, inode, th, panicked>>

\* fileread, filewrite: ilock(f->ip), and iunlock.
Read(p) ==
    /\ At(p, "idle")
    /\ ofile[p] # None
    /\ th' = [th EXCEPT ![p] = [Idle EXCEPT !.pc = "ilock", !.op = "read",
                                !.ip = file[ofile[p]].ip]]
    /\ UNCHANGED <<dir, dlock, dinode, inode, file, ofile, panicked>>

ReadDone(p) ==
    /\ At(p, "locked") /\ th[p].op = "read"
    /\ inode' = [inode EXCEPT ![th[p].ip].lock = None]
    /\ th' = [th EXCEPT ![p] = Idle]
    /\ UNCHANGED <<dir, dlock, dinode, file, ofile, panicked>>

PanicSpin == panicked # "no" /\ UNCHANGED vars

Step(p) ==
    \/ Ialloc(p) \/ IallocIget(p) \/ Ilock(p)
    \/ CreateLink(p) \/ CreateFail(p) \/ Open(p)
    \/ LinkCount(p) \/ LinkEntry(p) \/ LinkBad(p)
    \/ UnlinkEntry(p) \/ UnlinkCount(p)
    \/ Iput(p) \/ IputFree(p) \/ IputUnlock(p) \/ IputDrop(p)
    \/ ReadDone(p)

Next ==
    \/ \E p \in Proc :
          \/ Step(p)
          \/ \E n \in Name : Namei(p, "open", n, None) \/ Unlink(p, n) \/ Create(p, n)
          \/ \E n, new \in Name : Namei(p, "link", n, new)
          \/ Close(p) \/ Read(p)
          \/ \E q \in Proc : Fork(p, q)
    \/ PanicSpin

Spec == Init /\ [][Next]_vars

-----------------------------------------------------------------------------
(* Properties.                                                             *)

TypeOK ==
    /\ dir \in [Name -> 0 .. NINODES]
    /\ dlock \in Proc \cup {None}
    /\ dinode \in [Inum -> [alloc : BOOLEAN, nlink : Nat]]
    /\ inode \in [Entry -> [inum : 0 .. NINODES, ref : Nat, valid : BOOLEAN,
                            alloc : BOOLEAN, nlink : Nat, lock : Proc \cup {None}]]
    /\ file \in [File -> [ref : Nat, ip : Entry \cup {None}]]
    /\ ofile \in [Proc -> File \cup {None}]
    /\ \A p \in Proc :
          /\ th[p].pc \in {"idle", "ialloc", "iget", "ilock", "locked", "dirlink",
                          "unlinked", "iput", "free", "freed", "drop"}
          /\ th[p].op \in {"none", "open", "create", "link", "bad", "unlink",
                          "read"}
          /\ th[p].ip \in Entry \cup {None}

\* References process p holds to entry e of the inode table.
Holds(p, e) == th[p].ip = e /\ th[p].op # "read"

\* ref "tracks the number of in-memory pointers to the entry" (fs.c), and an
\* inode has one entry at most.  The assertions of fs.c, file.c and sysfile.c
\* hold: ilock never meets a free inode, unlink never finds a link count of
\* zero, a file in use has a reference; only the inode table may overflow.
RefCounts ==
    /\ TypeOK
    /\ panicked \in {"no", "iget"}
    /\ \A e \in Entry :
          inode[e].ref = Cardinality({p \in Proc : Holds(p, e)})
                            + Cardinality({f \in File : file[f].ip = e})
    /\ \A f \in File : file[f].ref = Cardinality({p \in Proc : ofile[p] = f})
    /\ \A e, d \in Entry :
          inode[e].ref > 0 /\ inode[d].ref > 0 /\ inode[e].inum = inode[d].inum
             => e = d

\* Process p has counted a link to i that is not in the directory: in link
\* before dirlink or after its failure, in unlink after the entry is gone.
Uncounted(p, i) ==
    /\ th[p].ip # None /\ inode[th[p].ip].inum = i
    /\ \/ th[p].pc \in {"dirlink", "unlinked"}
       \/ th[p].op = "bad" /\ th[p].pc \in {"ilock", "locked"}

\* The link count on the disk is the number of directory entries, give or
\* take the calls in progress, so that a name never leads to a free inode.
LinkCounts ==
    \A i \in Inum :
        /\ dinode[i].nlink = Cardinality({n \in Name : dir[n] = i})
                               + Cardinality({p \in Proc : Uncounted(p, i)})
        /\ dinode[i].nlink > 0 => dinode[i].alloc

\* "iput() frees if the reference and link counts have fallen to zero" (fs.c):
\* an inode without links and without references is free, so the disk never
\* fills up with files nobody can reach.
NoLeak ==
    \A i \in Inum :
        dinode[i].alloc =>
            \/ dinode[i].nlink > 0
            \/ InTable(i) # {}
            \/ \E p \in Proc : th[p].inum = i

\* An open file has an inode and is not somebody else's file: no unlink, and
\* no close of another descriptor, frees the inode under it.
OpenFileLive ==
    \A f \in File : file[f].ref > 0 => dinode[inode[file[f].ip].inum].alloc

\* The copy of an inode in the table agrees with the disk whenever nobody has
\* it locked.
CopyCurrent ==
    \A e \in Entry :
        inode[e].ref > 0 /\ inode[e].valid /\ inode[e].lock = None =>
            /\ inode[e].alloc = dinode[inode[e].inum].alloc
            /\ inode[e].nlink = dinode[inode[e].inum].nlink
=============================================================================
