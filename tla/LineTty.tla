------------------------------ MODULE LineTty -------------------------------
(***************************************************************************)
(* What the console promises of its input: characters join the line that   *)
(* is being edited and can be taken back only from there; the line is      *)
(* added to the input as a whole; the input is taken from the front, at    *)
(* most a line at a time.                                                  *)
(***************************************************************************)
EXTENDS Naturals, Sequences

CONSTANTS Char, LineEnd, Capacity

VARIABLES input, line
vars == <<input, line>>

Init == input = <<>> /\ line = <<>>

(* A character is added, which may end the line. *)
Type ==
  /\ Len(input) + Len(line) < Capacity
  /\ \E c \in Char :
       \/ input' = input /\ line' = Append(line, c)
       \/ input' = input \o Append(line, c) /\ line' = <<>>

Erase == \E k \in 0..Len(line) : line' = SubSeq(line, 1, k) /\ input' = input

Take ==
  \E k \in 1..Len(input) :
    /\ \A j \in 1..(k - 1) : input[j] \notin LineEnd
    /\ input' = SubSeq(input, k + 1, Len(input))
    /\ line' = line

Next == Type \/ Erase \/ Take

Spec == Init /\ [][Next]_vars
=============================================================================
