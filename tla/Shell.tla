-------------------------------- MODULE Shell --------------------------------
(***************************************************************************)
(* The shell: sh.c's parser, as functions on the characters of a line, and *)
(* runcmd, as the system calls that the processes it forks make one by one *)
(* on descriptors, pipes and children.  The calls that hand out            *)
(* descriptors are those of sysfile.c; the rest of the kernel is what      *)
(* Proc.tla and Pipe.tla say of it.                                        *)
(***************************************************************************)
EXTENDS Integers, Sequences, FiniteSets, FiniteSetsExt, SequencesExt

CONSTANTS
    NPROC, NOFILE, PIPESIZE,
    MAXARGS,
    Text,       \* the lines that are parsed, without their newline
    Line,       \* Line[i] are the texts that may be typed as the i-th line
    None

Pid == 1 .. NPROC      \* the slots beside init's
InitPid == 0
Fd == 0 .. NOFILE - 1

VARIABLES
    line,     \* buf in main(), between getcmd and fork1
    lines,    \* lines, and ends of the input, read so far
    sh,       \* pid in init's main(): the shell, or None when init starts one
    halted,   \* the kernel has panicked, because init has exited
    proc,     \* processes: parent, ofile, p[2], calls to make, ...
    pipe      \* bytes in each pipe

vars == <<line, lines, sh, halted, proc, pipe>>

-----------------------------------------------------------------------------
(* The parser.  s is a position in the line buf; a result has the position *)
(* after what was read, and cmd or a token; cmd is Panic after panic().    *)

Whitespace == {" "}
Symbols == {"<", "|", ">", "&", ";", "(", ")"}
Panic == [type |-> "panic"]
At(buf, s) == IF s <= Len(buf) THEN buf[s] ELSE "NUL"

\* F(x).  TLC computes x once, however often F uses it.
With(x, F(_)) == CHOOSE y \in {F(z) : z \in {x}} : TRUE

\* The first position from s on whose character is not in chars.
Past(buf, s, chars) == Min({i \in s .. Len(buf) + 1 : At(buf, i) \notin chars})

\* The characters of words that occur in buf.
WordChars(buf) == Range(buf) \ (Whitespace \cup Symbols)

Peek(buf, s, toks) == At(buf, Past(buf, s, Whitespace)) \in toks

\* gettoken: the token, where it starts and ends, and the next position.
Gettoken(buf, ps) ==
    With(Past(buf, ps, Whitespace), LAMBDA q :
    With([c |-> At(buf, q), two |-> At(buf, q) = ">" /\ At(buf, q + 1) = ">"], LAMBDA t :
    With(IF t.c = "NUL" THEN q
         ELSE IF t.two THEN q + 2
         ELSE IF t.c \in Symbols THEN q + 1
         ELSE Past(buf, q, WordChars(buf)), LAMBDA eq :
    [tok |-> IF t.two THEN "+" ELSE IF t.c \in Symbols \cup {"NUL"} THEN t.c ELSE "a",
     q |-> q, eq |-> eq, s |-> Past(buf, eq, Whitespace)])))

Execcmd(argv) == [type |-> "EXEC", argv |-> argv]
Pipecmd(left, right) == [type |-> "PIPE", left |-> left, right |-> right]
Listcmd(left, right) == [type |-> "LIST", left |-> left, right |-> right]
Backcmd(sub) == [type |-> "BACK", cmd |-> sub]
Redircmd(sub, tok, file) ==
    [type |-> "REDIR", cmd |-> sub, file |-> file, trunc |-> tok = ">",
     fd |-> IF tok = "<" THEN 0 ELSE 1]

\* The loop of parseredirs: the redirections from position ps on.
Parseredirs(buf, ps) ==
    LET Loop[s \in 1 .. Len(buf) + 1] ==
            IF ~Peek(buf, s, {"<", ">"}) THEN [s |-> s, ok |-> TRUE, redirs |-> <<>>]
            ELSE With(Gettoken(buf, s), LAMBDA t :
                 With(Gettoken(buf, t.s), LAMBDA f :
                 IF f.tok # "a" THEN [s |-> s, ok |-> FALSE, redirs |-> <<>>]
                 ELSE With(Loop[f.s], LAMBDA r :
                      [r EXCEPT !.redirs =
                          <<[tok |-> t.tok, file |-> <<f.q, f.eq>>]>> \o @])))
    IN Loop[ps]

\* Each redirection becomes a redircmd around the command so far.
Redirect(cmd, redirs) ==
    FoldLeft(LAMBDA c, r : Redircmd(c, r.tok, r.file), cmd, redirs)

\* P[<<nt, s>>] is what parsing nt from position s returns.
Parseblock(buf, P, ps) ==
    With(P[<<"line", Gettoken(buf, ps).s>>], LAMBDA r :
    IF r.cmd = Panic \/ ~Peek(buf, r.s, {")"}) THEN [s |-> r.s, cmd |-> Panic]
    ELSE With(Parseredirs(buf, Gettoken(buf, r.s).s), LAMBDA rr :
         [s |-> rr.s, cmd |-> IF rr.ok THEN Redirect(r.cmd, rr.redirs) ELSE Panic]))

\* The loop of parseexec: words, each with the redirections after it.
Parseargs(buf, ps) ==
    LET Loop[s \in 1 .. Len(buf) + 1] ==
            With(Gettoken(buf, s), LAMBDA t :
            IF t.tok \in {"|", ")", "&", ";", "NUL"}
            THEN [s |-> s, ok |-> TRUE, redirs |-> <<>>, argv |-> <<>>]
            ELSE With(Parseredirs(buf, t.s), LAMBDA r :
                 IF t.tok # "a" \/ ~r.ok
                 THEN [s |-> s, ok |-> FALSE, redirs |-> <<>>, argv |-> <<>>]
                 ELSE With(Loop[r.s], LAMBDA l :
                      [l EXCEPT !.redirs = r.redirs \o @,
                                !.argv = <<<<t.q, t.eq>>>> \o @])))
    IN Loop[ps]

\* Mutant: one word too many is accepted.
TooManyArgsLate(argc) == argc > MAXARGS

\* There is no room left for the null pointer that ends argv.
TooManyArgs(argc) == argc >= MAXARGS

Parseexec(buf, P, ps) ==
    IF Peek(buf, ps, {"("}) THEN Parseblock(buf, P, ps)
    ELSE With(Parseredirs(buf, ps), LAMBDA r :
         IF ~r.ok THEN [s |-> r.s, cmd |-> Panic]
         ELSE With(Parseargs(buf, r.s), LAMBDA l :
              [s |-> l.s,
               cmd |-> IF ~l.ok \/ TooManyArgs(Len(l.argv)) THEN Panic
                       ELSE Redirect(Execcmd(l.argv), r.redirs \o l.redirs)]))

Parsepipe(buf, P, ps) ==
    With(P[<<"exec", ps>>], LAMBDA left :
    IF left.cmd = Panic \/ ~Peek(buf, left.s, {"|"}) THEN left
    ELSE With(P[<<"pipe", Gettoken(buf, left.s).s>>], LAMBDA right :
         [s |-> right.s,
          cmd |-> IF right.cmd = Panic THEN Panic ELSE Pipecmd(left.cmd, right.cmd)]))

\* The loop of parseline over "&".
Parsebacks(buf, ps) ==
    LET Loop[s \in 1 .. Len(buf) + 1] ==
            IF ~Peek(buf, s, {"&"}) THEN [s |-> s, n |-> 0]
            ELSE With(Loop[Gettoken(buf, s).s], LAMBDA r : [r EXCEPT !.n = @ + 1])
    IN Loop[ps]

Parseline(buf, P, ps) ==
    With(P[<<"pipe", ps>>], LAMBDA first :
    IF first.cmd = Panic THEN first
    ELSE With(Parsebacks(buf, first.s), LAMBDA b :
         With(FoldLeft(LAMBDA c, i : Backcmd(c), first.cmd, [i \in 1 .. b.n |-> i]),
              LAMBDA left :
         IF ~Peek(buf, b.s, {";"}) THEN [s |-> b.s, cmd |-> left]
         ELSE With(P[<<"line", Gettoken(buf, b.s).s>>], LAMBDA right :
              [s |-> right.s,
               cmd |-> IF right.cmd = Panic THEN Panic ELSE Listcmd(left, right.cmd)]))))

\* nulterminate: the ends of the words that argv and file point to.
RECURSIVE Ends(_)
Ends(cmd) ==
    CASE cmd.type = "EXEC" -> {w[2] : w \in Range(cmd.argv)}
      [] cmd.type = "REDIR" -> Ends(cmd.cmd) \cup {cmd.file[2]}
      [] cmd.type = "BACK" -> Ends(cmd.cmd)
      [] OTHER -> Ends(cmd.left) \cup Ends(cmd.right)

Nulterminate(buf, cmd) ==
    [s \in DOMAIN buf |-> IF s \in Ends(cmd) THEN "NUL" ELSE buf[s]]

\* The command with the strings its pointers lead to in buf.
RECURSIVE Strings(_, _)
Strings(buf, cmd) ==
    LET Str(w) == SubSeq(buf, w[1], Past(buf, w[1], Range(buf) \ {"NUL"}) - 1)
    IN CASE cmd.type = "EXEC" ->
                [cmd EXCEPT !.argv = [i \in DOMAIN @ |-> Str(@[i])]]
         [] cmd.type = "REDIR" ->
                [cmd EXCEPT !.cmd = Strings(buf, @), !.file = Str(@)]
         [] cmd.type = "BACK" -> [cmd EXCEPT !.cmd = Strings(buf, @)]
         [] OTHER ->
                [cmd EXCEPT !.left = Strings(buf, @), !.right = Strings(buf, @)]

Parsecmd(buf) ==
    LET P[x \in {"line", "pipe", "exec"} \X (1 .. Len(buf) + 1)] ==
            CASE x[1] = "line" -> Parseline(buf, P, x[2])
              [] x[1] = "pipe" -> Parsepipe(buf, P, x[2])
              [] x[1] = "exec" -> Parseexec(buf, P, x[2])
    IN With(P[<<"line", 1>>], LAMBDA r :
       IF r.cmd = Panic \/ At(buf, Past(buf, r.s, Whitespace)) # "NUL" THEN Panic
       ELSE Strings(Nulterminate(buf, r.cmd), r.cmd))

-----------------------------------------------------------------------------
(* What a line means, without positions or recursive descent: the line is  *)
(* cut into tokens, and a token sequence is cut at the operators that lie  *)
(* outside all parentheses, the loosest one first.                         *)

Increasing(S) ==        \* the numbers of S in order
    [n \in 1 .. Cardinality(S) |->
        CHOOSE i \in S : Cardinality({j \in S : j <= i}) = n]

Arrows(buf, i) ==       \* how many > stand right before position i
    Cardinality({j \in 1 .. i - 1 : \A k \in j .. i - 1 : buf[k] = ">"})
InWord(buf, i) == buf[i] \notin Whitespace \cup Symbols
Starts(buf) ==
    {i \in DOMAIN buf : /\ buf[i] \notin Whitespace
                        /\ InWord(buf, i) /\ i > 1 => ~InWord(buf, i - 1)
                        /\ buf[i] = ">" => Arrows(buf, i) % 2 = 0}
Token(buf, i) ==
    IF InWord(buf, i)
    THEN SubSeq(buf, i, Max({j \in i .. Len(buf) : \A k \in i .. j : InWord(buf, k)}))
    ELSE IF buf[i] = ">" /\ i < Len(buf) /\ buf[i + 1] = ">" THEN <<">", ">">>
    ELSE <<buf[i]>>
Tokens(buf) ==
    LET at == Increasing(Starts(buf)) IN [n \in DOMAIN at |-> Token(buf, at[n])]

Depth(t, i) ==          \* parentheses open after the first i tokens
    Cardinality({k \in 1 .. i : t[k] = <<"(">>})
        - Cardinality({k \in 1 .. i : t[k] = <<")">>})
Balanced(t) == Depth(t, Len(t)) = 0 /\ \A i \in DOMAIN t : Depth(t, i) >= 0
Cuts(t, op) == {i \in DOMAIN t : t[i] = <<op>> /\ Depth(t, i) = 0}
Before(t, i) == SubSeq(t, 1, i - 1)
After(t, i) == SubSeq(t, i + 1, Len(t))
IsWord(w) == w[1] \notin Symbols
Join(kind, left, right) ==
    IF Panic \in {left, right} THEN Panic
    ELSE [type |-> kind, left |-> left, right |-> right]

\* Words and redirections, each > or < with the word after it; later ones
\* are applied first.
Files(t) == {i \in DOMAIN t : i > 1 /\ t[i - 1][1] \in {"<", ">"}}
Words(t) == {i \in DOMAIN t \ Files(t) : IsWord(t[i])}
Plain(t) ==
    /\ \A i \in DOMAIN t : t[i][1] \in {"<", ">"} => i < Len(t)
    /\ \A i \in Files(t) : IsWord(t[i])
    /\ \A i \in DOMAIN t \ (Files(t) \cup Words(t)) : t[i][1] \in {"<", ">"}
Redirected(t, cmd) ==
    FoldLeft(LAMBDA c, i : [type |-> "REDIR", cmd |-> c, file |-> t[i],
                            trunc |-> t[i - 1] = <<">">>,
                            fd |-> IF t[i - 1] = <<"<">> THEN 0 ELSE 1],
             cmd, Increasing(Files(t)))

RECURSIVE Meaning(_)
Meaning(t) ==
    LET backs == Cuts(t, "&")
        last == Len(t)
    IN IF Cuts(t, ";") # {}
       THEN LET i == Min(Cuts(t, ";"))
            IN Join("LIST", Meaning(Before(t, i)), Meaning(After(t, i)))
       ELSE IF backs # {}
       THEN IF t[last] # <<"&">> \/ Meaning(Before(t, last)) = Panic THEN Panic
            ELSE [type |-> "BACK", cmd |-> Meaning(Before(t, last))]
       ELSE IF Cuts(t, "|") # {}
       THEN LET i == Min(Cuts(t, "|"))
            IN Join("PIPE", Meaning(Before(t, i)), Meaning(After(t, i)))
       ELSE IF t # <<>> /\ t[1] = <<"(">>
       THEN LET i == Min({j \in DOMAIN t : Depth(t, j) = 0})
                inner == Meaning(SubSeq(t, 2, i - 1))
            IN IF inner = Panic \/ ~Plain(After(t, i)) \/ Words(After(t, i)) # {}
               THEN Panic
               ELSE Redirected(After(t, i), inner)
       ELSE IF ~Plain(t) \/ Cardinality(Words(t)) >= MAXARGS THEN Panic
       ELSE LET w == Increasing(Words(t))
            IN Redirected(t, [type |-> "EXEC", argv |-> [n \in DOMAIN w |-> t[w[n]]]])

Grammar(buf) == IF Balanced(Tokens(buf)) THEN Meaning(Tokens(buf)) ELSE Panic

-----------------------------------------------------------------------------
(* runcmd, as the calls a process makes in order.  A call made on p[i]     *)
(* names i.  A node of the tree is known by its path from the root, and    *)
(* io[0], io[1] are what the node's standard input and output should be.   *)

Console == [kind |-> "console", job |-> 0, id |-> <<>>]
OnDisk(name) == [kind |-> "file", job |-> 0, id |-> name]
PipeEnd(job, path, end) == [kind |-> end, job |-> job, id |-> path]

Close(fd) == [call |-> "close", fd |-> fd]
CloseP(i) == [call |-> "closep", i |-> i]
DupP(i) == [call |-> "dup", i |-> i]
Fork(bg, path, calls) == [call |-> "fork", bg |-> bg, path |-> path, calls |-> calls]
WaitOne == [call |-> "wait", all |-> FALSE, path |-> <<>>]
WaitFor(path) == [call |-> "wait", all |-> TRUE, path |-> path]
Exit == [call |-> "exit"]

\* Mutant: the other end of the pipe stays open.
PipeChildKeeps(side) == <<Close(side), DupP(side), CloseP(side)>>

\* The calls of a pipeline's left (side = 1) and right (side = 0) child before
\* it runs its command.
PipeChild(side) == <<Close(side), DupP(side), CloseP(0), CloseP(1)>>

\* Mutants: the parent keeps the writing end; it waits for one child only.
PipeParentKeeps(path) == <<CloseP(0), WaitOne, WaitFor(path), Exit>>
PipeParentHasty(path) == <<CloseP(0), CloseP(1), WaitFor(path), Exit>>

\* What the parent of a pipeline does after the two forks.
PipeParent(path) == <<CloseP(0), CloseP(1), WaitOne, WaitFor(path), Exit>>

RECURSIVE Runcmd(_, _, _, _)
Runcmd(cmd, job, path, io) ==
    LET l == Append(path, "l")
        r == Append(path, "r")
    IN CASE cmd.type = "EXEC" ->
              IF cmd.argv = <<>> THEN <<Exit>>
              ELSE <<[call |-> "exec", io |-> io], Exit>>
         [] cmd.type = "REDIR" ->
              <<Close(cmd.fd), [call |-> "open", file |-> OnDisk(cmd.file)]>>
              \o Runcmd(cmd.cmd, job, path, [io EXCEPT ![cmd.fd] = OnDisk(cmd.file)])
         [] cmd.type = "LIST" ->
              <<Fork(FALSE, l, Runcmd(cmd.left, job, l, io)), WaitFor(l)>>
              \o Runcmd(cmd.right, job, r, io)
         [] cmd.type = "PIPE" ->
              <<[call |-> "pipe", path |-> path],
                Fork(FALSE, l, PipeChild(1) \o Runcmd(cmd.left, job, l,
                                  [io EXCEPT ![1] = PipeEnd(job, path, "w")])),
                Fork(FALSE, r, PipeChild(0) \o Runcmd(cmd.right, job, r,
                                  [io EXCEPT ![0] = PipeEnd(job, path, "r")]))>>
              \o PipeParent(path)
         [] cmd.type = "BACK" ->
              <<Fork(TRUE, l, Runcmd(cmd.cmd, job, l, io)), Exit>>
         [] OTHER -> <<Exit>>     \* parsecmd has panicked

-----------------------------------------------------------------------------
(* The processes.                                                          *)

Running(pr) == {p \in Pid : pr[p] # None /\ ~pr[p].zombie}
Call(p, name) ==
    /\ proc[p] # None /\ proc[p].todo # <<>>
    /\ Head(proc[p].todo).call = name
Now(p) == Head(proc[p].todo)
Later(p) == [proc[p] EXCEPT !.todo = Tail(@)]
Panicked(p) == [proc[p] EXCEPT !.todo = <<Exit>>]

\* What main() of the shell opens until descriptors 0, 1 and 2 are in use.
OpenConsole(ofile) == [fd \in Fd |-> IF fd < 3 THEN Console ELSE ofile[fd]]

\* A child of init, whose descriptors 0, 1 and 2 are the console, with its exec
\* of the shell done.
NewSh == [parent |-> InitPid, zombie |-> FALSE, bg |-> FALSE, job |-> 0, path |-> <<>>,
          ofile |-> OpenConsole([fd \in Fd |-> IF fd < 3 THEN Console ELSE None]),
          p |-> <<0, 0>>, io |-> None, todo |-> <<>>]

Init ==
    /\ line = None
    /\ lines = 0
    /\ sh = None
    /\ halted = FALSE
    /\ proc = [p \in Pid |-> None]
    /\ pipe = [x \in {} |-> 0]

Holders(pr, f) == {p \in Running(pr) : f \in Range(pr[p].ofile)}
Readers(pr, x) == Holders(pr, PipeEnd(x[1], x[2], "r"))
Writers(pr, x) == Holders(pr, PipeEnd(x[1], x[2], "w"))

\* pipeclose frees a pipe when both its ends are closed.
Pipeclose(pr) ==
    IF pipe = <<>> THEN pipe
    ELSE [x \in {y \in DOMAIN pipe : Readers(pr, y) \cup Writers(pr, y) # {}} |-> pipe[x]]

SetProc(p, r) ==
    /\ proc' = [proc EXCEPT ![p] = r]
    /\ pipe' = Pipeclose(proc')
    /\ UNCHANGED <<line, lines, sh, halted>>

\* fdalloc: the lowest free descriptor, or -1.
Fdalloc(ofile) ==
    LET free == {fd \in Fd : ofile[fd] = None} IN IF free = {} THEN -1 ELSE Min(free)

\* sys_close; argfd refuses a descriptor that is not open.
SysClose(p) ==
    /\ Call(p, "close") \/ Call(p, "closep")
    /\ \E fd \in {IF Now(p).call = "close" THEN Now(p).fd ELSE proc[p].p[Now(p).i + 1]} :
         SetProc(p, [Later(p) EXCEPT !.ofile[fd] = None])

SysDup(p) ==
    /\ Call(p, "dup")
    /\ \E f \in {proc[p].ofile[proc[p].p[Now(p).i + 1]]} :
       \E fd \in {Fdalloc(proc[p].ofile)} :
         SetProc(p, IF f = None \/ fd = -1 THEN Later(p)
                    ELSE [Later(p) EXCEPT !.ofile[fd] = f])

\* sys_open may fail; the command then exits.
SysOpen(p) ==
    /\ Call(p, "open")
    /\ \E fd \in {-1, Fdalloc(proc[p].ofile)} :
         SetProc(p, IF fd = -1 THEN Panicked(p)
                    ELSE [Later(p) EXCEPT !.ofile[fd] = Now(p).file])

\* sys_pipe: fails without memory, and when there are not two descriptors.
SysPipe(p) ==
    /\ Call(p, "pipe")
    /\ \E x \in {<<proc[p].job, Now(p).path>>} :
       \E fd0 \in {-1, Fdalloc(proc[p].ofile)} :
       \E fd1 \in {IF fd0 = -1 THEN -1
                   ELSE Fdalloc([proc[p].ofile EXCEPT ![fd0] = Console])} :
            /\ proc' = [proc EXCEPT ![p] =
                 IF fd1 = -1 THEN Panicked(p)
                 ELSE [Later(p) EXCEPT !.p = <<fd0, fd1>>,
                                       !.ofile[fd0] = PipeEnd(x[1], x[2], "r"),
                                       !.ofile[fd1] = PipeEnd(x[1], x[2], "w")]]
            /\ pipe' = IF fd1 = -1 THEN pipe
                       ELSE [y \in DOMAIN pipe \cup {x} |-> IF y = x THEN 0 ELSE pipe[y]]
            /\ UNCHANGED <<line, lines, sh, halted>>

\* The slots allocproc may take.
Free == {q \in Pid : proc[q] = None}

\* Nobody waits any more for what a process that gives up has started.
Below(q, p) ==
    /\ proc[q] # None
    /\ proc[q].job = proc[p].job
    /\ IsPrefix(proc[p].path, proc[q].path)
Abandoned(p) ==
    [q \in Pid |-> IF q = p THEN Panicked(p)
                   ELSE IF Below(q, p) THEN [proc[q] EXCEPT !.bg = TRUE] ELSE proc[q]]

\* fork1: a copy of the process, with calls of its own to make.  fork fails
\* when there is no slot, and at any time for lack of memory.
Fork1(p, r, child) ==
    \/ proc' = Abandoned(p)
    \/ /\ Free # {}
       /\ proc' = [proc EXCEPT ![p] = r, ![Min(Free)] = [child EXCEPT !.parent = p]]

SysFork(p) ==
    /\ Call(p, "fork")
    /\ Fork1(p, Later(p), [proc[p] EXCEPT !.bg = @ \/ Now(p).bg,
                                          !.path = Now(p).path, !.todo = Now(p).calls])
    /\ UNCHANGED <<line, lines, sh, halted, pipe>>

SysWait(p) ==
    /\ Call(p, "wait")
    /\ \E kids \in {{q \in Pid : proc[q] # None /\ proc[q].parent = p}} :
       \E q \in IF kids = {} THEN {p} ELSE {k \in kids : proc[k].zombie} :
         proc' = [proc EXCEPT ![q] = None, ![p] = Later(p)]
    /\ UNCHANGED <<line, lines, sh, halted, pipe>>

SysExit(p) ==
    /\ Call(p, "exit")
    /\ proc' = [q \in Pid |->
          IF q = p THEN [proc[p] EXCEPT !.zombie = TRUE, !.todo = <<>>, !.io = None,
                                        !.ofile = [fd \in Fd |-> None]]
          ELSE IF proc[q] # None /\ proc[q].parent = p
          THEN [proc[q] EXCEPT !.parent = InitPid]
          ELSE proc[q]]
    /\ pipe' = Pipeclose(proc')
    /\ UNCHANGED <<line, lines, sh, halted>>

\* exec fails, or starts a program that writes and ends, or one that copies its
\* input to its output.
SysExec(p) ==
    /\ Call(p, "exec")
    /\ \/ SetProc(p, Later(p))
       \/ \E prog \in {<<[call |-> "write", n |-> PIPESIZE + 1], Exit>>,
                       <<[call |-> "read"], Exit>>} :
            SetProc(p, [proc[p] EXCEPT !.todo = prog, !.io = Now(p).io])

\* A program writes to its output: a pipe may be full, or have no reader left.
Write(p) ==
    /\ Call(p, "write")
    /\ \E f \in {proc[p].ofile[1]} :
       \E x \in {<<f.job, f.id>>} :
         IF f.kind # "w" \/ Readers(proc, x) = {} \/ Now(p).n = 0
         THEN SetProc(p, Later(p))
         ELSE /\ pipe[x] < PIPESIZE
              /\ pipe' = [pipe EXCEPT ![x] = @ + 1]
              /\ proc' = [proc EXCEPT ![p].todo[1].n = @ - 1]
              /\ UNCHANGED <<line, lines, sh, halted>>

\* A program reads its input: the next byte, or the end, which a pipe has once
\* it is empty and nobody can write to it.
Read(p) ==
    /\ Call(p, "read")
    /\ \E f \in {proc[p].ofile[0]} :
       \E x \in {<<f.job, f.id>>} :
         IF f.kind # "r" THEN SetProc(p, Later(p))
         ELSE IF pipe[x] = 0 THEN Writers(proc, x) = {} /\ SetProc(p, Later(p))
         ELSE /\ pipe' = [pipe EXCEPT ![x] = @ - 1]
              /\ proc' = [proc EXCEPT ![p].todo = <<[call |-> "write", n |-> 1]>> \o @]
              /\ UNCHANGED <<line, lines, sh, halted>>

AtPrompt == sh # None /\ ~proc[sh].zombie /\ proc[sh].todo = <<>> /\ line = None

\* A line that fits in buf; its newline is one more blank.
Getcmd ==
    /\ AtPrompt
    /\ lines < Len(Line)
    /\ line' \in {Append(l, " ") : l \in Line[lines + 1]}
    /\ lines' = lines + 1
    /\ UNCHANGED <<sh, halted, proc, pipe>>

\* The end of the input: main() exits.
Eof ==
    /\ AtPrompt
    /\ lines < Len(Line)
    /\ lines' = lines + 1
    /\ proc' = [proc EXCEPT ![sh] = Panicked(sh)]
    /\ UNCHANGED <<line, sh, halted, pipe>>

IsCd == IsPrefix(<<"c", "d", " ">>, line)

\* chdir in the shell itself, whether it fails or not; no process is started.
Cd ==
    /\ line # None /\ IsCd
    /\ line' = None
    /\ UNCHANGED <<lines, sh, halted, proc, pipe>>

\* main() forks; the child parses the line and runs it.
Main ==
    /\ line # None /\ ~IsCd
    /\ line' = None
    /\ \E calls \in {Runcmd(Parsecmd(line), lines, <<>>, [fd \in {0, 1} |-> Console])} :
         Fork1(sh, [proc[sh] EXCEPT !.job = lines, !.todo = <<WaitFor(<<>>)>>],
               [proc[sh] EXCEPT !.job = lines, !.todo = calls])
    /\ UNCHANGED <<lines, sh, halted, pipe>>

\* init reaps the shell and what others left.  It always has the shell for a
\* child here, so that its wait() does not fail.
InitWait ==
    /\ sh # None
    /\ \E q \in Pid : /\ proc[q] # None /\ proc[q].zombie /\ proc[q].parent = InitPid
                     /\ proc' = [proc EXCEPT ![q] = None]
                     /\ sh' = IF q = sh THEN None ELSE sh
    /\ UNCHANGED <<line, lines, halted, pipe>>

\* init starts the shell.  If fork fails, init exits and the kernel panics; if
\* exec fails, the child exits and init will try again.
InitFork ==
    /\ sh = None
    /\ \/ halted' = TRUE /\ UNCHANGED <<sh, proc>>
       \/ /\ Free # {}
          /\ sh' = Min(Free)
          /\ \E todo \in {<<>>, <<Exit>>} :
               proc' = [proc EXCEPT ![sh'] = [NewSh EXCEPT !.todo = todo]]
          /\ UNCHANGED halted
    /\ UNCHANGED <<line, lines, pipe>>

Syscall(p) ==
    \/ SysClose(p) \/ SysDup(p) \/ SysOpen(p) \/ SysPipe(p) \/ SysFork(p)
    \/ SysWait(p) \/ SysExit(p) \/ SysExec(p) \/ Write(p) \/ Read(p)

Run == ~halted /\ (Cd \/ Main \/ InitWait \/ InitFork \/ \E p \in Pid : Syscall(p))

Next == Getcmd \/ Eof \/ Run

\* The processor does not idle while some process can run.
Spec == Init /\ [][Next]_vars /\ WF_vars(Run)

-----------------------------------------------------------------------------
\* The parser (parsecmd and what it calls, with gettoken, peek and
\* nulterminate) builds exactly the command that the line's grammar gives it,
\* with the words of the line as its strings, and panics on every other line.
ParserMatchesGrammar ==
    sh = None /\ lines = 0 /\ ~halted =>
        \A l \in Text : Parsecmd(Append(l, " ")) = Grammar(Append(l, " "))

TypeOK ==
    /\ lines \in 0 .. Len(Line)
    /\ \A p \in Pid : proc[p] # None => proc[p].parent \in Pid \cup {InitPid}
    /\ \A x \in DOMAIN pipe : pipe[x] \in 0 .. PIPESIZE

\* When runcmd starts a program, descriptors 0 and 1 are the pipe ends and the
\* files its place in the command calls for, 2 is the console, and no other
\* descriptor is open: no end of a pipe leaks into a program.
ExecWired ==
    /\ TypeOK
    /\ \A p \in Running(proc) : proc[p].io # None =>
          proc[p].ofile = [fd \in Fd |-> IF fd < 2 THEN proc[p].io[fd]
                                         ELSE IF fd = 2 THEN Console ELSE None]

\* When the wait() that ends a command returns, in main() or after the left side
\* of a list or both sides of a pipeline, every process the command started has
\* ended, but those put in the background and those whose starter had to give up
\* when fork failed.
ForegroundDone ==
    [][\A p \in Pid :
         Call(p, "wait") /\ Now(p).all /\ proc'[p] = Later(p) =>
            ~ \E q \in Running(proc') :
                /\ q \notin {p, sh} /\ proc'[q].job = proc[p].job /\ ~proc'[q].bg
                /\ IsPrefix(Now(p).path, proc'[q].path)]_vars

\* Every line that is read ends: the shell is at its prompt again, or it has
\* exited because main()'s own fork failed, and init has reaped it and starts
\* another.  So it is whatever fork, pipe, open and exec answer, when pipes fill
\* up, and when a reader or a writer dies early.
LineEnds == (line # None) ~> (AtPrompt \/ sh = None)
=============================================================================
