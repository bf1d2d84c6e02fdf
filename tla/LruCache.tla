------------------------------ MODULE LruCache ------------------------------
(***************************************************************************)
(* What the buffer cache (kernel/src/buf.rs) promises about its buffers: a *)
(* block is in at most one buffer, a buffer is given to another block only *)
(* when nobody uses it, and the one given away is the one whose last use   *)
(* ended longest ago.                                                      *)
(***************************************************************************)
EXTENDS Naturals, FiniteSets

CONSTANTS Usable,   \* buffers that can hold a block
          Blocks,   \* the blocks of the disk
          NoBlock   \* a buffer that has not held a block yet

VARIABLES order,    \* the buffers, most recently used first
          ref,      \* users of each buffer
          block     \* the block each buffer holds

vars == <<order, ref, block>>

Init ==
  /\ order \in [1..Cardinality(Usable) -> Usable]
  /\ \A i \in Usable : \E n \in DOMAIN order : order[n] = i
  /\ ref = [i \in Usable |-> 0]
  /\ block = [i \in Usable |-> NoBlock]

\* A use of a buffer begins: a hit, or a pin.
Take(i) ==
  /\ block[i] # NoBlock
  /\ ref' = [ref EXCEPT ![i] = @ + 1]
  /\ UNCHANGED <<order, block>>

\* The least recently used buffer nobody uses is given to block b.
Recycle(i, b) ==
  /\ \A j \in Usable : block[j] # b
  /\ \E n \in DOMAIN order :
       /\ order[n] = i /\ ref[i] = 0
       /\ \A m \in DOMAIN order : m > n => ref[order[m]] > 0
  /\ block' = [block EXCEPT ![i] = b]
  /\ ref' = [ref EXCEPT ![i] = 1]
  /\ UNCHANGED order

\* The n-th buffer becomes the first one.
ToFront(n) ==
  [m \in DOMAIN order |->
     IF m = 1 THEN order[n] ELSE IF m <= n THEN order[m - 1] ELSE order[m]]

\* A use ends; the last one makes the buffer the most recently used.
Drop(i) ==
  /\ ref[i] > 0
  /\ ref' = [ref EXCEPT ![i] = @ - 1]
  /\ \E n \in DOMAIN order :
       order[n] = i /\ order' = IF ref[i] = 1 THEN ToFront(n) ELSE order
  /\ UNCHANGED block

\* The log's extra reference ends while a process still uses the buffer.
Unpin(i) ==
  /\ ref[i] > 1
  /\ ref' = [ref EXCEPT ![i] = @ - 1]
  /\ UNCHANGED <<order, block>>

Next ==
  \E i \in Usable :
    Take(i) \/ Drop(i) \/ Unpin(i) \/ \E b \in Blocks : Recycle(i, b)

Spec == Init /\ [][Next]_vars
=============================================================================
