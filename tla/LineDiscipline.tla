--------------------------- MODULE LineDiscipline ---------------------------
(* What console input promises: characters are edited until a line is      *)
(* complete (or the buffer is full), and are then read in order.           *)
EXTENDS Naturals, Sequences, SequencesExt

CONSTANTS
    Char,     \* characters that can be stored
    Ends,     \* the characters that complete a line
    Size      \* capacity of the input buffer

VARIABLES
    ready,    \* complete input, not read yet
    line,     \* the line being edited
    last      \* the character that was taken last

Init ==
    /\ ready = <<>>
    /\ line = <<>>
    /\ last \in Char

Type(c) ==
    LET l == Append(line, c)
        complete == c \in Ends \/ Len(ready) + Len(l) = Size
    IN
    /\ Len(ready) + Len(line) < Size
    /\ ready' = IF complete THEN ready \o l ELSE ready
    /\ line' = IF complete THEN <<>> ELSE l
    /\ UNCHANGED last

Erase ==
    /\ line # <<>>
    /\ line' = Front(line)
    /\ UNCHANGED <<ready, last>>

KillLine ==
    /\ line' = <<>>
    /\ UNCHANGED <<ready, last>>

Take ==
    /\ ready # <<>>
    /\ last' = Head(ready)
    /\ ready' = Tail(ready)
    /\ UNCHANGED line

Next ==
    \/ \E c \in Char : Type(c)
    \/ Erase \/ KillLine
    \/ Take

Spec == Init /\ [][Next]_<<ready, line, last>>
=============================================================================
