------------------------------ MODULE Console ------------------------------
(***************************************************************************)
(* Console input (kernel/console.c) with this kernel's command history:    *)
(* consoleintr, one step per character received, under cons.lock;          *)
(* consoleread, one step per character under the same lock; and            *)
(* call_sys_history, which copies every completed line to the next row of  *)
(* struct historyBufferArray.                                              *)
(*                                                                         *)
(* Echo is left out, and with it what consoleintr and the history read     *)
(* only in order to print it.  The history code can leave its arrays.  The *)
(* model follows the layout of struct historyBufferArray: what lies PAD    *)
(* bytes below and above current_cm is unused; a row that is too long runs *)
(* into the rows after it; and what leaves bufferArr overwrites the rest   *)
(* of the struct, after which the history is not followed any more         *)
(* (status "stray") while the input goes on.  An access that faults, or a  *)
(* store behind the struct (where the linker has put the lock of printf),  *)
(* stops the model.                                                        *)
(***************************************************************************)
EXTENDS Integers, Sequences, FiniteSets

CONSTANTS
    Reader,          \* processes that read the console
    Free,            \* "cons.lock is free"
    Keys,            \* the characters that are typed
    INPUT_BUF_SIZE,
    UINT,            \* number of values of an unsigned int: 2^32
    MAX_HISTORY,
    PAD,             \* unused bytes below and above current_cm; bounds index
    MaxScan,         \* bound on where a scan that leaves current_cm ends
    MaxN             \* bound on the number of bytes of one read

\* Characters: ordinary letters, the two letters consoleintr treats as
\* history keys, and the control characters it knows.
Letter == {"a", "b"}
Arrow == {"A", "B"}
Control == {"^P", "^U", "^H", "DEL", "^D", "NL", "CR", "NUL"}

\* What can be in cons.buf and current_cm.
Char == Letter \cup {"^D", "NL", "NUL"}

ASSUME ConsoleAssumption ==
    /\ Free \notin Reader
    /\ Keys \subseteq Letter \cup Arrow \cup Control
    /\ INPUT_BUF_SIZE \in Nat \ {0}
    /\ UINT \in Nat /\ UINT > INPUT_BUF_SIZE /\ UINT % INPUT_BUF_SIZE = 0
    /\ MAX_HISTORY \in Nat \ {0, 1}
    /\ PAD \in Nat
    /\ MaxScan \in Nat /\ MaxScan >= INPUT_BUF_SIZE
    /\ MaxN \in Nat

VARIABLES
    buf, r, w, e,      \* struct cons
    lock,              \* holder of cons.lock
    \* struct historyBufferArray historyBuf, and index, row
    current_cm, index, row, lengthsArr, bufferArr, lastCommandIndex,
    \* consoleread
    pc, left, got, killed,
    last,              \* the character a reader took last
    status             \* "ok", "stray", or why the model stops

consvars == <<buf, r, w, e>>
histvars == <<current_cm, index, row, lengthsArr, bufferArr, lastCommandIndex>>
readvars == <<pc, left, got, killed, last>>
vars == <<consvars, lock, histvars, readvars, status>>

Cells == 0 .. INPUT_BUF_SIZE - 1

\* The history's arrays in zeroed memory; also once they are not followed.
ZeroLine == [k \in Cells |-> "NUL"]
ZeroLengths == [k \in 0 .. MAX_HISTORY - 1 |-> 0]
ZeroRows == [k \in 0 .. MAX_HISTORY - 1 |-> ZeroLine]

Init ==
    /\ buf = [k \in Cells |-> "NUL"]
    /\ r = 0 /\ w = 0 /\ e = 0
    /\ lock = Free
    /\ index = 0 /\ row = 0 /\ lastCommandIndex = 0
    /\ current_cm = ZeroLine
    /\ lengthsArr = ZeroLengths
    /\ bufferArr = ZeroRows
    /\ pc = [p \in Reader |-> "idle"]
    /\ left = [p \in Reader |-> 0]
    /\ got = [p \in Reader |-> FALSE]
    /\ killed = [p \in Reader |-> FALSE]
    /\ last = "NUL"
    /\ status = "ok"

\* Unsigned difference.
Minus(x, y) == (x - y) % UINT

\* Mutant: wakeup(&cons.r) is missing.
NoWakeup(f) == f

\* wakeup(&cons.r)
Wakeup(f) == [p \in Reader |-> IF f[p] = "sleep" THEN "woken" ELSE f[p]]

-----------------------------------------------------------------------------
(* consoleintr(c): the interrupt handler needs cons.lock.                  *)

Live == status \in {"ok", "stray"}
Intr == Live /\ lock = Free

\* ^U: back to w, or to a newline.
KillLine ==
    LET stops == {k \in 0 .. Minus(e, w) :
                     k = Minus(e, w) \/ buf[Minus(e, k + 1) % INPUT_BUF_SIZE] = "NL"}
    IN
    /\ Intr /\ "^U" \in Keys
    /\ e' = Minus(e, CHOOSE k \in stops : \A j \in stops : k <= j)
    /\ UNCHANGED <<buf, r, w, lock, histvars, readvars, status>>

\* Mutant: erasing goes on into lines that are already complete.
BackspaceTooFar ==
    /\ Intr /\ Keys \cap {"^H", "DEL"} # {}
    /\ index >= -PAD
    /\ index' = index - 1
    /\ e' = IF e # r THEN Minus(e, 1) ELSE e
    /\ UNCHANGED <<buf, r, w, lock, current_cm, row, lengthsArr, bufferArr,
                   lastCommandIndex, readvars, status>>

\* ^H and DEL: index moves even when there is nothing to erase.  The bound on
\* index is one below the last place where a store is harmless.
Backspace ==
    /\ Intr /\ Keys \cap {"^H", "DEL"} # {}
    /\ index >= -PAD
    /\ index' = index - 1
    /\ e' = IF e # w THEN Minus(e, 1) ELSE e
    /\ UNCHANGED <<buf, r, w, lock, current_cm, row, lengthsArr, bufferArr,
                   lastCommandIndex, readvars, status>>

\* 'A' echoes row lastCommandIndex-1 and 'B' row lastCommandIndex+2; neither
\* stores anything.  The former faults when the unsigned subtraction wraps, and
\* both may when lengthsArr and lastCommandIndex have been overwritten.
HistoryKey(c) ==
    /\ Intr /\ c \in Keys \cap Arrow
    /\ status' \in IF status = "stray" THEN {"stray", "fault"}
                   ELSE IF c = "A" /\ lastCommandIndex = 0 THEN {"fault"} ELSE {"ok"}
    /\ UNCHANGED <<consvars, lock, histvars, readvars>>

\* The byte i places from the start of cm; what lies behind it is not known.
Byte(cm, i) == IF i \in Cells THEN cm[i] ELSE "NUL"

\* Mutant: the last character of the line is not copied.
CopyRowsShort(rows, cm, size) ==
    [j \in DOMAIN rows |-> [k \in Cells |->
        LET i == (j - row) * INPUT_BUF_SIZE + k
        IN  IF i \in 0 .. size - 2 THEN Byte(cm, i) ELSE rows[j][k]]]

\* The loop that copies size bytes of current_cm to the row, and beyond it.
CopyRows(rows, cm, size) ==
    [j \in DOMAIN rows |-> [k \in Cells |->
        LET i == (j - row) * INPUT_BUF_SIZE + k
        IN  IF i \in 0 .. size - 1 THEN Byte(cm, i) ELSE rows[j][k]]]

\* The sizes call_sys_history can find: up to the first newline, which is
\* behind current_cm if there is none in it.
Sizes(cm) ==
    IF \A k \in Cells : cm[k] # "NL" THEN INPUT_BUF_SIZE .. MaxScan
    ELSE {k \in Cells : cm[k] = "NL" /\ \A j \in Cells : j < k => cm[j] # "NL"}

\* call_sys_history() and lastCommandIndex++, given the new current_cm.
SaveHistory(cm) ==
    \E size \in Sizes(cm) :
        /\ row' = row + 1
        /\ IF /\ status = "ok" /\ row < MAX_HISTORY
              /\ row * INPUT_BUF_SIZE + size <= MAX_HISTORY * INPUT_BUF_SIZE
           THEN /\ current_cm' = cm
                /\ lengthsArr' = [lengthsArr EXCEPT ![row] = size]
                /\ bufferArr' = CopyRows(bufferArr, cm, size)
                /\ lastCommandIndex' =
                     1 + (IF lastCommandIndex = MAX_HISTORY - 1 THEN 0 ELSE lastCommandIndex)
                /\ UNCHANGED status
           ELSE /\ status' = "stray"
                /\ current_cm' = ZeroLine /\ lengthsArr' = ZeroLengths
                /\ bufferArr' = ZeroRows /\ lastCommandIndex' = 0

\* Mutant: index is advanced before the store.
RememberNext(c) ==
    IF status = "ok" /\ index + 1 \in Cells
    THEN [current_cm EXCEPT ![index + 1] = c] ELSE current_cm

\* historyBuf.current_cm[index] = c
Remember(c) ==
    IF status = "ok" /\ index \in Cells
    THEN [current_cm EXCEPT ![index] = c] ELSE current_cm

\* The store, or the row, is behind the struct.
Outside(complete) ==
    \/ index >= INPUT_BUF_SIZE + PAD \/ index < -PAD
    \/ complete /\ row > MAX_HISTORY

\* Any other character, if there is room in cons.buf.
Store(key) ==
    LET c == IF key = "CR" THEN "NL" ELSE key
        cm == Remember(c)
        e1 == (e + 1) % UINT
        complete == c \in {"NL", "^D"} \/ Minus(e1, r) = INPUT_BUF_SIZE
    IN
    /\ Intr /\ key \in Keys \cap (Letter \cup {"^D", "NL", "CR"})
    /\ Minus(e, r) < INPUT_BUF_SIZE
    /\ IF Outside(complete)
       THEN status' = "outside" /\ UNCHANGED <<consvars, histvars, pc>>
       ELSE /\ buf' = [buf EXCEPT ![e % INPUT_BUF_SIZE] = c]
            /\ e' = e1
            /\ IF complete
               THEN /\ index' = 0
                    /\ SaveHistory(cm)
                    /\ w' = e1
                    /\ pc' = Wakeup(pc)
               ELSE /\ current_cm' = cm
                    /\ index' = index + 1
                    /\ UNCHANGED <<w, row, lengthsArr, bufferArr,
                                   lastCommandIndex, pc, status>>
            /\ UNCHANGED r
    /\ UNCHANGED <<lock, left, got, killed, last>>

\* ^P prints the process list; NUL, and a character that finds the buffer
\* full, is dropped.
Ignore(key) ==
    /\ Intr /\ key \in Keys
    /\ \/ key \in {"^P", "NUL"}
       \/ key \in Char \cup {"CR"} /\ Minus(e, r) >= INPUT_BUF_SIZE
    /\ UNCHANGED vars

-----------------------------------------------------------------------------
(* consoleread by process p.                                               *)

ReadCall(p) ==
    /\ Live
    /\ pc[p] = "idle" /\ ~killed[p]
    /\ lock = Free
    /\ lock' = p
    /\ \E n \in 0 .. MaxN : left' = [left EXCEPT ![p] = n]
    /\ got' = [got EXCEPT ![p] = FALSE]
    /\ pc' = [pc EXCEPT ![p] = "read"]
    /\ UNCHANGED <<consvars, histvars, killed, last, status>>

\* release(&cons.lock); return
Leave(p) ==
    /\ lock' = Free
    /\ pc' = [pc EXCEPT ![p] = "idle"]
    /\ left' = [left EXCEPT ![p] = 0]
    /\ got' = [got EXCEPT ![p] = FALSE]

\* The loop conditions: all bytes read, killed, or nothing to read.
ReadTest(p) ==
    /\ pc[p] = "read"
    /\ \/ left[p] = 0 /\ Leave(p)
       \/ left[p] > 0 /\ r = w /\ killed[p] /\ Leave(p)
       \/ /\ left[p] > 0 /\ r = w /\ ~killed[p]
          /\ pc' = [pc EXCEPT ![p] = "read_sleep"]
          /\ UNCHANGED <<lock, left, got>>
    /\ UNCHANGED <<consvars, histvars, killed, last, status>>

\* sleep(&cons.r, &cons.lock)
ReadSleep(p) ==
    /\ pc[p] = "read_sleep"
    /\ pc' = [pc EXCEPT ![p] = "sleep"]
    /\ lock' = Free
    /\ UNCHANGED <<consvars, histvars, left, got, killed, last, status>>

Relock(p) ==
    /\ Live
    /\ pc[p] = "woken"
    /\ lock = Free
    /\ lock' = p
    /\ pc' = [pc EXCEPT ![p] = "read"]
    /\ UNCHANGED <<consvars, histvars, left, got, killed, last, status>>

\* cons.r++, undone when ^D ends a read that got something.
Advance(p, c) ==
    IF c = "^D" /\ got[p]
    THEN UNCHANGED <<r, last>>
    ELSE r' = (r + 1) % UINT /\ last' = c

\* One character: ^D ends the read, and stays for the next read unless this
\* one is empty; a failing copyout loses the character; a newline ends it.
ReadChar(p) ==
    LET c == buf[r % INPUT_BUF_SIZE] IN
    /\ pc[p] = "read"
    /\ left[p] > 0 /\ r # w
    /\ Advance(p, c)
    /\ \/ Leave(p)
       \/ /\ c \notin {"^D", "NL"}
          /\ left' = [left EXCEPT ![p] = @ - 1]
          /\ got' = [got EXCEPT ![p] = TRUE]
          /\ UNCHANGED <<lock, pc>>
    /\ UNCHANGED <<buf, w, e, histvars, killed, status>>

\* kill(), seen from the console.
Kill(p) ==
    /\ Live
    /\ ~killed[p]
    /\ killed' = [killed EXCEPT ![p] = TRUE]
    /\ pc' = [pc EXCEPT ![p] = IF @ = "sleep" THEN "woken" ELSE @]
    /\ UNCHANGED <<consvars, lock, histvars, left, got, last, status>>

\* The model stops here.
Stopped == ~Live /\ UNCHANGED vars

Next ==
    \/ KillLine \/ Backspace
    \/ \E key \in Keys : HistoryKey(key) \/ Store(key) \/ Ignore(key)
    \/ \E p \in Reader :
          \/ ReadCall(p) \/ ReadTest(p) \/ ReadSleep(p) \/ Relock(p)
          \/ ReadChar(p) \/ Kill(p)
    \/ Stopped

Spec == Init /\ [][Next]_vars

-----------------------------------------------------------------------------
(* Properties.                                                             *)

TypeOK ==
    /\ buf \in [Cells -> Char]
    /\ {r, w, e} \subseteq 0 .. UINT - 1
    /\ lock \in Reader \cup {Free}
    /\ current_cm \in [Cells -> Char]
    /\ index \in Int
    /\ row \in 0 .. MAX_HISTORY + 1
    /\ lengthsArr \in [0 .. MAX_HISTORY - 1 -> 0 .. MaxScan]
    /\ bufferArr \in [0 .. MAX_HISTORY - 1 -> [Cells -> Char]]
    /\ lastCommandIndex \in 0 .. MAX_HISTORY - 1
    /\ pc \in [Reader -> {"idle", "read", "read_sleep", "sleep", "woken"}]
    /\ left \in [Reader -> 0 .. MaxN]
    /\ got \in [Reader -> BOOLEAN]
    /\ killed \in [Reader -> BOOLEAN]
    /\ last \in Char
    /\ status \in {"ok", "stray", "fault", "outside"}

\* The characters of the ring from index x up to index y.
Between(x, y) ==
    [k \in 1 .. Minus(y, x) |-> buf[((x + k - 1) % UINT) % INPUT_BUF_SIZE]]

Discipline ==
    INSTANCE LineDiscipline
      WITH Ends <- {"NL", "^D"}, Size <- INPUT_BUF_SIZE,
           ready <- Between(r, w), line <- Between(w, e)

\* "Reads are line at a time" (console.c): the ring buffer with its three
\* wrapping indices edits the current line and hands complete lines to
\* consoleread in order, losing and repeating nothing that was stored, while the
\* history goes astray or not.  The letters 'A' and 'B' are never stored:
\* consoleintr takes them for keys of the history, though the list of special
\* characters at the head of console.c does not have them.
LineAtATime == Discipline!Spec

\* No lost wakeup: with the lock free, a reader sleeps only when no complete
\* line is waiting.
ReaderSleepsOnEmpty ==
    lock = Free => \A p \in Reader : pc[p] = "sleep" => r = w

\* As long as index agrees with the length of the line being edited, the
\* history's copy of that line agrees with it too.
CommandInStep ==
    /\ TypeOK
    /\ status = "ok" /\ index = Minus(e, w) =>
        \A k \in 0 .. index - 1 : current_cm[k] = Between(w, e)[k + 1]

\* A line that ends with a newline while index agrees with its length is
\* recorded in its row as consoleread will deliver it, without the newline.
HistoryRecordsLine ==
    [][row' # row /\ status' = "ok" /\ index = Minus(e, w)
            /\ buf'[(w' - 1) % INPUT_BUF_SIZE] = "NL"
        => /\ lengthsArr'[row] = Minus(w', w) - 1
           /\ \A k \in 0 .. lengthsArr'[row] - 1 :
                 bufferArr'[row][k] = buf'[(w + k) % INPUT_BUF_SIZE]]_vars

=============================================================================
