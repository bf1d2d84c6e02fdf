------------------------------ MODULE PipeQueue ------------------------------
(***************************************************************************)
(* What a pipe promises to its users, whatever ring buffer, counters and   *)
(* sleeping implement it: every pipe is a bounded first-in first-out queue *)
(* of bytes.  A write appends a run of bytes, a read removes a run from    *)
(* the front, and a new pipe is empty.                                     *)
(***************************************************************************)
EXTENDS Naturals, Sequences

CONSTANTS PipeId, Byte, Capacity

VARIABLE queue

Init == queue = [x \in PipeId |-> <<>>]

Put(x) ==
  \E k \in 1..Capacity : \E s \in [1..k -> Byte] :
    /\ Len(queue[x]) + k <= Capacity
    /\ queue' = [queue EXCEPT ![x] = @ \o s]

Get(x) ==
  \E k \in 1..Len(queue[x]) :
    queue' = [queue EXCEPT ![x] = SubSeq(@, k + 1, Len(@))]

New(x) == queue' = [queue EXCEPT ![x] = <<>>]

Next == \E x \in PipeId : Put(x) \/ Get(x) \/ New(x)

Spec == Init /\ [][Next]_queue
=============================================================================
