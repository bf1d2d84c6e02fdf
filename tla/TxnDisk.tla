------------------------------ MODULE TxnDisk ------------------------------
(***************************************************************************)
(* What the log (kernel/src/log.rs) promises to the file system: a disk    *)
(* that is updated by group transactions.  Operations of several processes *)
(* write one shared volatile image; that image becomes durable as a whole, *)
(* and only at a moment when no operation is open.  A crash throws the     *)
(* volatile image away and leaves the last durable one.                    *)
(***************************************************************************)
CONSTANTS Procs,    \* the processes that run file-system operations
          Blocks,   \* the home blocks of the disk
          Val       \* the contents of a block

VARIABLES durable,  \* the image a reboot would expose
          volatile, \* the image the operations read and write
          open      \* the processes that are inside an operation

vars == <<durable, volatile, open>>

TypeOK ==
  /\ durable \in [Blocks -> Val]
  /\ volatile \in [Blocks -> Val]
  /\ open \subseteq Procs

Init ==
  /\ durable \in [Blocks -> Val]
  /\ volatile = durable
  /\ open = {}

Begin(p) ==
  /\ p \notin open
  /\ open' = open \cup {p}
  /\ UNCHANGED <<durable, volatile>>

Write(p, b, v) ==
  /\ p \in open
  /\ volatile' = [volatile EXCEPT ![b] = v]
  /\ UNCHANGED <<durable, open>>

End(p) ==
  /\ p \in open
  /\ open' = open \ {p}
  /\ UNCHANGED <<durable, volatile>>

Commit ==
  /\ open = {}
  /\ durable' = volatile
  /\ UNCHANGED <<volatile, open>>

Crash ==
  /\ volatile' = durable
  /\ open' = {}
  /\ UNCHANGED durable

Next ==
  \/ \E p \in Procs : Begin(p) \/ End(p)
  \/ \E p \in Procs, b \in Blocks, v \in Val : Write(p, b, v)
  \/ Commit
  \/ Crash

Spec == Init /\ [][Next]_vars
=============================================================================
