------------------------------- MODULE LineBuffer -------------------------------
(* What the console's input buffer promises: characters are edited in the line *)
(* that is being typed, a finished line is handed over and read in order, and  *)
(* at most SIZE characters are kept.                                           *)
EXTENDS Integers, Sequences

CONSTANTS Chars, Enders,     \* all characters; those that finish a line
          SIZE

VARIABLES ready, line

Init == ready = <<>> /\ line = <<>>

Type(c) ==
  LET l == Append(line, c) IN
  /\ Len(ready) + Len(line) < SIZE
  /\ IF c \in Enders \/ Len(ready) + Len(l) = SIZE
     THEN ready' = ready \o l /\ line' = <<>>
     ELSE line' = l /\ UNCHANGED ready

Erase == /\ line # <<>>
         /\ line' = SubSeq(line, 1, Len(line) - 1)
         /\ UNCHANGED ready

Take == /\ ready # <<>>
        /\ ready' = Tail(ready)
        /\ UNCHANGED line

Next == Erase \/ Take \/ \E c \in Chars : Type(c)
Spec == Init /\ [][Next]_<<ready, line>>
=============================================================================
