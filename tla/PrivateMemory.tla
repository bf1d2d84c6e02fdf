--------------------------- MODULE PrivateMemory ---------------------------
(***************************************************************************)
(* What virtual memory promises to a process: a memory of its own that     *)
(* reads as zero where nothing was written, changes only by its own stores *)
(* (of other values than zero), is copied by fork and replaced by exec,    *)
(* and loses pages only at or above its limit.                             *)
(***************************************************************************)
EXTENDS Naturals

CONSTANTS Proc, Page, Val, Zero, Image

VARIABLES
  view,   \* what each process finds in each of its pages
  limit   \* the first page a process has given up

Empty == [g \in Page |-> Zero]

Init ==
  /\ view \in [Proc -> [Page -> Val]]
  /\ limit \in [Proc -> Nat]

Store(p, g, v) == view' = [view EXCEPT ![p][g] = v]
Discard(p, g) == g >= limit[p] /\ view' = [view EXCEPT ![p][g] = Zero]

(* The child starts with the memory of its parent. *)
Fork(p, c) == view[c] = Empty /\ view' = [view EXCEPT ![c] = view[p]]

(* A new program image replaces the whole memory. *)
Exec(p) == view' = [view EXCEPT ![p] = Image]

(* The limits move as the processes ask. *)
Next ==
  /\ limit' \in [Proc -> Nat]
  /\ \/ UNCHANGED view
     \/ \E p \in Proc :
          \/ \E g \in Page : Discard(p, g) \/ \E v \in Val \ {Zero} : Store(p, g, v)
          \/ \E c \in Proc \ {p} : Fork(p, c)
          \/ Exec(p)

Spec == Init /\ [][Next]_<<view, limit>>
=============================================================================
