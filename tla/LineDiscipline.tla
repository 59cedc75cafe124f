---------------------------- MODULE LineDiscipline ----------------------------
(***************************************************************************)
(* What the console promises a reader: the lines typed, as edited before   *)
(* they were ended, in order; at most Size characters are held.            *)
(***************************************************************************)
EXTENDS Naturals, Sequences

CONSTANTS Char, Ends, Size

VARIABLES
  ready,  \* characters that a reader may take
  line    \* the line that is being typed

vars == <<ready, line>>

Init == ready = <<>> /\ line = <<>>

\* A character is typed.  It is dropped if there is no room; the line is over when
\* c ends it or when nothing more would fit.
Type(c) ==
  /\ Len(ready) + Len(line) < Size
  /\ IF c \in Ends \/ Len(ready) + Len(line) + 1 = Size
     THEN ready' = ready \o Append(line, c) /\ line' = <<>>
     ELSE line' = Append(line, c) /\ UNCHANGED ready

\* The last characters of the line are erased.
Erase == \E k \in 0 .. Len(line) - 1 : line' = SubSeq(line, 1, k) /\ UNCHANGED ready

Take == ready # <<>> /\ ready' = Tail(ready) /\ UNCHANGED line

Next == (\E c \in Char : Type(c)) \/ Erase \/ Take

Spec == Init /\ [][Next]_vars
=============================================================================
