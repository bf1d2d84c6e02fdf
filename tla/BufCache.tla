------------------------------ MODULE BufCache ------------------------------
(***************************************************************************)
(* The buffer cache of kernel/src/buf.rs and the sleep lock of each buffer *)
(* (kernel/src/sleeplock.rs): get, read, write, release, pin and unpin,    *)
(* with the LRU list as the code links it.                                 *)
(*                                                                         *)
(* Abstractions.  A block number stands for (dev, block_no) with dev # 0:  *)
(* the kernel only uses ROOTDEV = 1.  NoBlock is the (0, 0) of BufMeta's   *)
(* initial state, which no caller asks for.  BCACHE.inner is a spin lock,  *)
(* so each of its critical sections is one step; a disk transfer is one    *)
(* step, during which only its caller holds the buffer's sleep lock.  Of   *)
(* the contents of a buffer or of a block on the disk the model keeps      *)
(* whether they are what was last stored in the block.                     *)
(* The callers are the log and the file system: a changed buffer is        *)
(* written or pinned before it is released, and an unpinned one was        *)
(* written (log.rs:86-101, 318-341).                                       *)
(***************************************************************************)
EXTENDS Integers, FiniteSets

CONSTANTS Procs, Blocks,
          NBUF,     \* buffers
          NoBlock,  \* the block of a buffer that was never used
          None      \* no process

ASSUME BufAssumption ==
  /\ NBUF \in Nat /\ NBUF >= 2
  /\ IsFiniteSet(Procs)
  /\ NoBlock \notin Blocks /\ None \notin Procs

Ids == 0..(NBUF - 1)

VARIABLES
  block,  \* meta[_].block_no
  valid,  \* meta[_].valid
  ref,    \* meta[_].ref_count
  prev,   \* meta[_].prev
  next,   \* meta[_].next
  holder, \* the process that holds the sleep lock of a buffer
  data,   \* a buffer holds what was last stored in its block
  disk,   \* the disk holds what was last stored in a block
  pinned, \* blocks whose buffer the log has pinned
  pc,     \* where a process is in the interface
  id,     \* the buffer a process uses (Buf.id)
  asleep  \* processes asleep on the sleep lock of their buffer

metaVars == <<block, valid, ref, prev, next>>
dataVars == <<data, disk, pinned>>
vars == <<metaVars, holder, dataVars, pc, id, asleep>>

TypeOK ==
  /\ block \in [Ids -> Blocks \cup {NoBlock}]
  /\ valid \in [Ids -> BOOLEAN]
  /\ ref \in [Ids -> Nat]
  /\ prev \in [Ids -> Ids] /\ next \in [Ids -> Ids]
  /\ holder \in [Ids -> Procs \cup {None}]
  /\ data \in [Ids -> BOOLEAN] /\ disk \in [Blocks -> BOOLEAN]
  /\ pinned \subseteq Blocks
  /\ pc \in [Procs -> {"idle", "lock", "check", "held", "changed", "unlocked",
                       "panicked"}]
  /\ id \in [Procs -> Ids]
  /\ asleep \subseteq Procs

\* inner.head, which init sets and nothing changes.
Head == 0

-----------------------------------------------------------------------------
(* get.                                                                    *)

\* The buffers that get visits from the tail: prev of the head, and so on.
Back[n \in 1..NBUF] == IF n = 1 THEN prev[Head] ELSE prev[Back[n - 1]]

\* Mutant of Victim: the walk begins one buffer late.
VictimLate(i) ==
  \E n \in 2..NBUF :
    /\ Back[n] = i
    /\ i = Head \/ ref[i] = 0
    /\ \A m \in 2..(n - 1) : Back[m] # Head /\ ref[Back[m]] > 0

\* get's loop ends at buffer i: it is the head, or the first unused buffer from
\* the tail.
Victim(i) ==
  \E n \in 1..NBUF :
    /\ Back[n] = i
    /\ i = Head \/ ref[i] = 0
    /\ \A m \in 1..(n - 1) : Back[m] # Head /\ ref[Back[m]] > 0

\* get finds the block in the first buffer that holds it.
GetHit(p, b) ==
  /\ pc[p] = "idle"
  /\ \E i \in Ids :
       /\ block[i] = b
       /\ \A j \in 0..(i - 1) : block[j] # b
       /\ ref' = [ref EXCEPT ![i] = @ + 1]
       /\ id' = [id EXCEPT ![p] = i]
  /\ pc' = [pc EXCEPT ![p] = "lock"]
  /\ UNCHANGED <<block, valid, prev, next, holder, dataVars, asleep>>

\* Mutant of GetMiss: valid is not cleared.
GetMissStale(p, b) ==
  /\ pc[p] = "idle"
  /\ \A i \in Ids : block[i] # b
  /\ \E i \in Ids \ {Head} :
       /\ Victim(i)
       /\ block' = [block EXCEPT ![i] = b]
       /\ data' = [data EXCEPT ![i] = FALSE]
       /\ ref' = [ref EXCEPT ![i] = @ + 1]
       /\ id' = [id EXCEPT ![p] = i]
  /\ pc' = [pc EXCEPT ![p] = "lock"]
  /\ UNCHANGED <<valid, prev, next, holder, disk, pinned, asleep>>

\* get recycles a buffer, whose contents are those of another block, or panics
\* with "bcache get no buffers".
GetMiss(p, b) ==
  /\ pc[p] = "idle"
  /\ \A i \in Ids : block[i] # b
  /\ \E i \in Ids :
       /\ Victim(i)
       /\ IF i = Head
          THEN /\ pc' = [pc EXCEPT ![p] = "panicked"]
               /\ UNCHANGED <<metaVars, data, id>>
          ELSE /\ block' = [block EXCEPT ![i] = b]
               /\ data' = [data EXCEPT ![i] = FALSE]
               /\ valid' = [valid EXCEPT ![i] = FALSE]
               /\ ref' = [ref EXCEPT ![i] = @ + 1]
               /\ id' = [id EXCEPT ![p] = i]
               /\ pc' = [pc EXCEPT ![p] = "lock"]
               /\ UNCHANGED <<prev, next>>
  /\ UNCHANGED <<holder, disk, pinned, asleep>>

\* SleepLock::lock at the end of get.
Lock(p) ==
  /\ pc[p] = "lock" /\ p \notin asleep
  /\ IF holder[id[p]] # None
     THEN /\ asleep' = asleep \cup {p}
          /\ UNCHANGED <<holder, pc>>
     ELSE /\ holder' = [holder EXCEPT ![id[p]] = p]
          /\ pc' = [pc EXCEPT ![p] = "check"]
          /\ UNCHANGED asleep
  /\ UNCHANGED <<metaVars, dataVars, id>>

\* read looks at valid and reads the disk into a buffer that is not.
Read(p) ==
  /\ pc[p] = "check"
  /\ data' = IF valid[id[p]] THEN data
             ELSE [data EXCEPT ![id[p]] = disk[block[id[p]]]]
  /\ valid' = [valid EXCEPT ![id[p]] = TRUE]
  /\ pc' = [pc EXCEPT ![p] = "held"]
  /\ UNCHANGED <<block, ref, prev, next, holder, disk, pinned, id, asleep>>

-----------------------------------------------------------------------------
(* What a caller does with the buffer it holds.                            *)

\* New contents: every other copy of the block is now old.
Change(p) ==
  /\ pc[p] \in {"held", "changed"}
  /\ data' = [i \in Ids |-> IF block[i] = block[id[p]] THEN i = id[p] ELSE data[i]]
  /\ disk' = [disk EXCEPT ![block[id[p]]] = FALSE]
  /\ pc' = [pc EXCEPT ![p] = "changed"]
  /\ UNCHANGED <<metaVars, holder, pinned, id, asleep>>

Write(p) ==
  /\ pc[p] \in {"held", "changed"}
  /\ disk' = [disk EXCEPT ![block[id[p]]] = data[id[p]]]
  /\ pc' = [pc EXCEPT ![p] = "held"]
  /\ UNCHANGED <<metaVars, holder, data, pinned, id, asleep>>

\* Mutant of Pin: a block that is in the log already is pinned again.
PinAlways(p) ==
  /\ pc[p] = "changed"
  /\ ref' = [ref EXCEPT ![id[p]] = @ + 1]
  /\ pinned' = pinned \cup {block[id[p]]}
  /\ pc' = [pc EXCEPT ![p] = "held"]
  /\ UNCHANGED <<block, valid, prev, next, holder, data, disk, id, asleep>>

\* The log pins a changed block once (log::write).
Pin(p) ==
  /\ pc[p] = "changed"
  /\ IF block[id[p]] \in pinned
     THEN UNCHANGED <<ref, pinned>>
     ELSE /\ ref' = [ref EXCEPT ![id[p]] = @ + 1]
          /\ pinned' = pinned \cup {block[id[p]]}
  /\ pc' = [pc EXCEPT ![p] = "held"]
  /\ UNCHANGED <<block, valid, prev, next, holder, data, disk, id, asleep>>

\* install_trans unpins a block that it has just written.
WriteUnpin(p) ==
  /\ pc[p] = "held" /\ block[id[p]] \in pinned
  /\ disk' = [disk EXCEPT ![block[id[p]]] = data[id[p]]]
  /\ ref' = [ref EXCEPT ![id[p]] = @ - 1]
  /\ pinned' = pinned \ {block[id[p]]}
  /\ UNCHANGED <<block, valid, prev, next, holder, data, pc, id, asleep>>

-----------------------------------------------------------------------------
(* release.                                                                *)

\* Mutant of Unlock: nobody is woken.
UnlockNoWake(p) ==
  /\ pc[p] = "held"
  /\ holder' = [holder EXCEPT ![id[p]] = None]
  /\ pc' = [pc EXCEPT ![p] = "unlocked"]
  /\ UNCHANGED <<metaVars, dataVars, id, asleep>>

\* The guard is dropped first: the sleep lock is free and its waiters wake.
Unlock(p) ==
  /\ pc[p] = "held"
  /\ holder' = [holder EXCEPT ![id[p]] = None]
  /\ asleep' = {q \in asleep : id[q] # id[p]}
  /\ pc' = [pc EXCEPT ![p] = "unlocked"]
  /\ UNCHANGED <<metaVars, dataVars, id>>

\* Mutant of Relink: head.next is overwritten before it is read.
RelinkSwapped(i) ==
  LET prev1 == [prev EXCEPT ![next[i]] = prev[i]]
      next1 == [next EXCEPT ![prev[i]] = next[i], ![Head] = i]
      first == next1[Head]
  IN  /\ next' = [next1 EXCEPT ![i] = first]
      /\ prev' = [prev1 EXCEPT ![i] = Head, ![first] = i]

\* The list after buffer i has been unlinked and put behind the head, with
\* the assignments in the order of the source.
Relink(i) ==
  LET prev1 == [prev EXCEPT ![next[i]] = prev[i]]
      next1 == [next EXCEPT ![prev[i]] = next[i]]
      first == next1[Head]
  IN  /\ next' = [next1 EXCEPT ![i] = first, ![Head] = i]
      /\ prev' = [prev1 EXCEPT ![i] = Head, ![first] = i]

\* Then, in a separate critical section, the reference is given up.
Release(p) ==
  /\ pc[p] = "unlocked"
  /\ ref' = [ref EXCEPT ![id[p]] = @ - 1]
  /\ IF ref'[id[p]] = 0 THEN Relink(id[p]) ELSE UNCHANGED <<prev, next>>
  /\ pc' = [pc EXCEPT ![p] = "idle"]
  /\ UNCHANGED <<block, valid, holder, dataVars, id, asleep>>

\* kill makes a sleeper runnable; SleepLock::lock tests again.
KillWakes(p) ==
  /\ p \in asleep
  /\ asleep' = asleep \ {p}
  /\ UNCHANGED <<metaVars, holder, dataVars, pc, id>>

-----------------------------------------------------------------------------
\* buf::init.
Init ==
  /\ block = [i \in Ids |-> NoBlock]
  /\ valid = [i \in Ids |-> FALSE]
  /\ ref = [i \in Ids |-> 0]
  /\ prev = [i \in Ids |-> IF i = 0 THEN NBUF - 1 ELSE i - 1]
  /\ next = [i \in Ids |-> IF i = NBUF - 1 THEN 0 ELSE i + 1]
  /\ holder = [i \in Ids |-> None]
  /\ data = [i \in Ids |-> FALSE] /\ disk = [b \in Blocks |-> TRUE]
  /\ pinned = {}
  /\ pc = [p \in Procs |-> "idle"]
  /\ id = [p \in Procs |-> Head]
  /\ asleep = {}

Next ==
  \/ \E p \in Procs, b \in Blocks : GetHit(p, b) \/ GetMiss(p, b)
  \/ \E p \in Procs :
       \/ Lock(p) \/ Read(p) \/ Change(p) \/ Write(p) \/ Pin(p) \/ WriteUnpin(p)
       \/ Unlock(p) \/ Release(p) \/ KillWakes(p)

Spec == Init /\ [][Next]_vars

-----------------------------------------------------------------------------
(* Properties.                                                             *)

Using(i) == {p \in Procs : pc[p] \notin {"idle", "panicked"} /\ id[p] = i}

\* A buffer is recycled only when nobody holds it, waits for it or has pinned
\* it: the count is exact at every moment, also between the two halves of
\* release, and so never wraps below zero.
RefCountExact ==
  \A i \in Ids : ref[i] = Cardinality(Using(i)) + (IF block[i] \in pinned THEN 1 ELSE 0)

\* A process that has read a block sees what was last stored in it, whatever
\* was recycled or read back from the disk in between.
Coherent ==
  \A p \in Procs : pc[p] \in {"held", "changed"} =>
    holder[id[p]] = p /\ valid[id[p]] /\ data[id[p]]

\* Following next from the head lists the buffers, most recently used first.
Forward[n \in 1..(NBUF - 1)] == IF n = 1 THEN next[Head] ELSE next[Forward[n - 1]]

\* The list stays circular and complete.  This rests on buffer 0, which
\* serves as the list head, never being given to a caller: release would link
\* it to itself (buf.rs:195-203).
ListIntact ==
  /\ \A i \in Ids : prev[next[i]] = i /\ next[prev[i]] = i
  /\ {Forward[n] : n \in 1..(NBUF - 1)} = Ids \ {Head}
  /\ \A p \in Procs : pc[p] \notin {"idle", "panicked"} => id[p] # Head

Lru == INSTANCE LruCache WITH
         Usable <- Ids \ {Head}, order <- Forward,
         ref <- [i \in Ids \ {Head} |-> ref[i]],
         block <- [i \in Ids \ {Head} |-> block[i]]

\* The linked list implements least-recently-used replacement (buf.rs:124).
ImplementsLru == Lru!Spec

\* No lost wakeup of a sleep lock: a process sleeps on a buffer's lock only
\* while another one holds it, whose release will wake it (sleeplock.rs:46-78).
LockSleeperHasWaker ==
  \A p \in asleep : holder[id[p]] \notin {None, p}

\* get panics with "bcache get no buffers" (buf.rs:129) only when every buffer
\* but the head of the list is in use.  The head is buffer 0 itself: it is never
\* handed out, so the cache holds NBUF - 1 blocks.
PanicOnlyWhenFull ==
  [][\A p \in Procs : pc'[p] = "panicked" /\ pc[p] # "panicked" =>
       \A i \in Ids \ {Head} : ref[i] > 0]_vars
=============================================================================
