--------------------------- MODULE BufCacheProofs ---------------------------
(***************************************************************************)
(* Proofs about BufCache: for every number of buffers (two at least), any  *)
(* finite set of processes and any blocks, the reference counts are exact, *)
(* a reader sees what was last stored, no wakeup of a sleep lock is lost,  *)
(* the doubly linked list stays a ring of all buffers, and it implements   *)
(* least-recently-used replacement.                                        *)
(*                                                                         *)
(* The list is described by the positions of the buffers on a ring that    *)
(* begins and ends at the head.  What the walks of get compute along prev  *)
(* and next then follows by taking the least position where a walk would   *)
(* leave the ring.                                                         *)
(***************************************************************************)
EXTENDS BufCache, FiniteSetTheorems, TLAPS

\* Where a process holds the sleep lock of its buffer.
Places == {"check", "held", "changed"}
\* The process counts as a user of its buffer.
InUse(p) == pc[p] \notin {"idle", "panicked"}

\* A user has a buffer with a block, never the head; a block is in one buffer.
UseInv ==
  /\ \A p \in Procs : InUse(p) => id[p] # Head /\ block[id[p]] \in Blocks
  /\ block[Head] = NoBlock
  /\ \A i, j \in Ids : block[i] = block[j] /\ block[i] \in Blocks => i = j

\* The holder of a sleep lock and the place of the process agree, and a sleeper
\* sleeps on a lock that is held.
LockInv ==
  /\ \A p \in Procs : pc[p] \in Places => holder[id[p]] = p
  /\ \A i \in Ids : holder[i] # None =>
       pc[holder[i]] \in Places /\ id[holder[i]] = i
  /\ \A p \in asleep : pc[p] = "lock" /\ holder[id[p]] # None

\* A valid buffer holds what was last stored in its block; the disk is behind
\* only where the block is pinned in a valid buffer or its changed buffer is
\* still held.
DataInv ==
  /\ \A p \in Procs : pc[p] \in {"held", "changed"} => valid[id[p]]
  /\ \A i \in Ids : valid[i] => data[i]
  /\ \A b \in pinned : \E i \in Ids : block[i] = b /\ valid[i]
  /\ \A b \in Blocks : ~disk[b] =>
       b \in pinned \/ \E p \in Procs : pc[p] = "changed" /\ block[id[p]] = b

\* c lists the buffers from the head back to the head, and nx and pv link
\* neighbours.
Ring(c, nx, pv) ==
  /\ c \in [0..NBUF -> Ids]
  /\ c[0] = Head /\ c[NBUF] = Head
  /\ \A m, n \in 0..(NBUF - 1) : c[m] = c[n] => m = n
  /\ \A i \in Ids : \E n \in 0..(NBUF - 1) : c[n] = i
  /\ \A n \in 0..(NBUF - 1) : nx[c[n]] = c[n + 1] /\ pv[c[n + 1]] = c[n]

ListInv == \E c \in [0..NBUF -> Ids] : Ring(c, next, prev)

\* The inductive invariant of the buffer cache.
Inv == TypeOK /\ UseInv /\ LockInv /\ DataInv /\ RefCountExact /\ ListInv

-----------------------------------------------------------------------------
(* Facts about buffers and counts.                                         *)

\* The head is a buffer, and no block or process is mistaken for none.
LEMMA IdFacts ==
  /\ Head \in Ids /\ NoBlock \notin Blocks /\ None \notin Procs
  /\ NBUF \in Nat /\ NBUF >= 2
BY BufAssumption DEF Ids, Head

\* The users of a buffer can be counted.
LEMMA UsingFinite == \A i : IsFiniteSet(Using(i)) /\ Cardinality(Using(i)) \in Nat
<1> SUFFICES ASSUME NEW i PROVE IsFiniteSet(Using(i)) /\ Cardinality(Using(i)) \in Nat
  OBVIOUS
<1>1. Using(i) \subseteq Procs
  BY DEF Using
<1> QED
  BY <1>1, BufAssumption, FS_Subset, FS_CardinalityType

\* What an exact count says: a buffer with count zero has no user and no pin,
\* and a user, a pin and a user at once, are counted.
LEMMA CountedUse ==
  ASSUME TypeOK, RefCountExact
  PROVE  /\ \A i \in Ids : ref[i] = 0 =>
              block[i] \notin pinned /\ \A p \in Procs : InUse(p) => id[p] # i
         /\ \A p \in Procs : InUse(p) => ref[id[p]] - 1 \in Nat
         /\ \A p \in Procs : InUse(p) /\ block[id[p]] \in pinned => ref[id[p]] - 2 \in Nat
<1>1. ASSUME NEW p \in Procs, InUse(p) PROVE Cardinality(Using(id[p])) - 1 \in Nat
  <2>1. p \in Using(id[p])
    BY <1>1 DEF Using, InUse
  <2>2. Cardinality(Using(id[p])) # 0
    BY <2>1, UsingFinite, FS_EmptySet
  <2> QED
    BY <2>2, UsingFinite
<1>2. \A p \in Procs : InUse(p) => id[p] \in Ids
  BY DEF TypeOK
<1> QED
  BY <1>1, <1>2, UsingFinite DEF RefCountExact

\* get walks back to the head: "bcache get no buffers".
Panics(p) ==
  /\ pc' = [pc EXCEPT ![p] = "panicked"]
  /\ UNCHANGED <<block, valid, ref, prev, next, holder, data, disk, pinned, id, asleep>>

\* get gives buffer i to block b.
Recycles(p, b, i) ==
  /\ i # Head /\ ref[i] = 0
  /\ block' = [block EXCEPT ![i] = b]
  /\ data' = [data EXCEPT ![i] = FALSE]
  /\ valid' = [valid EXCEPT ![i] = FALSE]
  /\ ref' = [ref EXCEPT ![i] = @ + 1]
  /\ id' = [id EXCEPT ![p] = i]
  /\ pc' = [pc EXCEPT ![p] = "lock"]
  /\ UNCHANGED <<prev, next, holder, disk, pinned, asleep>>

\* A miss ends in one of these two ways.
LEMMA MissCases ==
  ASSUME NEW p, NEW b, GetMiss(p, b)
  PROVE  /\ pc[p] = "idle" /\ \A i \in Ids : block[i] # b
         /\ \/ Panics(p)
            \/ \E i \in Ids : Recycles(p, b, i) /\ Victim(i)
<1>1. PICK i \in Ids :
        /\ Victim(i)
        /\ IF i = Head
           THEN Panics(p)
           ELSE /\ block' = [block EXCEPT ![i] = b]
                /\ data' = [data EXCEPT ![i] = FALSE]
                /\ valid' = [valid EXCEPT ![i] = FALSE]
                /\ ref' = [ref EXCEPT ![i] = @ + 1]
                /\ id' = [id EXCEPT ![p] = i]
                /\ pc' = [pc EXCEPT ![p] = "lock"]
                /\ UNCHANGED <<prev, next, holder, disk, pinned, asleep>>
  BY DEF GetMiss, Panics, metaVars
<1>2. i = Head \/ ref[i] = 0
  BY <1>1 DEF Victim
<1> QED
  BY <1>1, <1>2 DEF GetMiss, Recycles

-----------------------------------------------------------------------------
(* Every step keeps the invariant, part by part.                           *)

\* A step keeps the variables in their types; a count does not go below zero.
LEMMA TypeStep == Inv /\ Next => TypeOK'
<1> SUFFICES ASSUME Inv, Next PROVE TypeOK'
  OBVIOUS
<1>1. ASSUME NEW p \in Procs, NEW b \in Blocks, GetHit(p, b) PROVE TypeOK'
  BY <1>1 DEF GetHit, dataVars, TypeOK, Inv
<1>2. ASSUME NEW p \in Procs, NEW b \in Blocks, GetMiss(p, b) PROVE TypeOK'
  <2>1. pc[p] = "idle" /\ \A i \in Ids : block[i] # b
    BY <1>2, MissCases
  <2>2. CASE Panics(p)
    BY <2>2 DEF Panics, TypeOK, Inv
  <2>3. ASSUME NEW i \in Ids, Recycles(p, b, i) PROVE TypeOK'
    BY <2>3, CountedUse DEF Recycles, TypeOK, Inv
  <2> QED
    BY <1>2, <2>2, <2>3, MissCases
<1>3. ASSUME NEW p \in Procs, Lock(p) PROVE TypeOK'
  <2>1. CASE holder[id[p]] # None
    BY <1>3 DEF Lock, metaVars, dataVars, TypeOK, Inv
  <2>2. CASE holder[id[p]] = None
    BY <1>3 DEF Lock, metaVars, dataVars, TypeOK, Inv
  <2> QED
    BY <2>1, <2>2
<1>4. ASSUME NEW p \in Procs, Read(p) PROVE TypeOK'
  BY <1>4, Zenon DEF Read, TypeOK, UseInv, InUse, Inv
<1>5. ASSUME NEW p \in Procs, Change(p) PROVE TypeOK'
  BY <1>5, Zenon DEF Change, metaVars, TypeOK, Inv
<1>6. ASSUME NEW p \in Procs, Write(p) PROVE TypeOK'
  BY <1>6, Zenon DEF Write, metaVars, TypeOK, Inv
<1>7. ASSUME NEW p \in Procs, Pin(p) PROVE TypeOK'
  <2>1. block[id[p]] \in Blocks
    BY <1>7 DEF Pin, UseInv, InUse, Inv
  <2>2. ref' \in [Ids -> Nat] /\ pinned' \subseteq Blocks
    BY <1>7, <2>1 DEF Pin, TypeOK, Inv
  <2> QED
    BY <1>7, <2>2 DEF Pin, TypeOK, Inv
<1>8. ASSUME NEW p \in Procs, WriteUnpin(p) PROVE TypeOK'
  BY CountedUse, <1>8 DEF WriteUnpin, TypeOK, InUse, Inv
<1>9. ASSUME NEW p \in Procs, Unlock(p) PROVE TypeOK'
  BY <1>9 DEF Unlock, metaVars, dataVars, TypeOK, Inv
<1>10. ASSUME NEW p \in Procs, Release(p) PROVE TypeOK'
  <2>1. ref' \in [Ids -> Nat]
    BY <1>10, CountedUse DEF Release, TypeOK, InUse, Inv
  <2>2. prev' \in [Ids -> Ids] /\ next' \in [Ids -> Ids]
    <3>1. CASE Relink(id[p])
      BY <3>1, IdFacts, SMTT(60) DEF Relink, TypeOK, Inv
    <3> QED
      BY <1>10, <3>1 DEF Release, TypeOK, Inv
  <2> QED
    BY <1>10, <2>1, <2>2 DEF Release, dataVars, TypeOK, Inv
<1>11. ASSUME NEW p \in Procs, KillWakes(p) PROVE TypeOK'
  BY <1>11 DEF KillWakes, metaVars, dataVars, TypeOK, Inv
<1> QED
  BY <1>1, <1>2, <1>3, <1>4, <1>5, <1>6, <1>7, <1>8, <1>9, <1>10, <1>11 DEF Next

\* A step gives nobody the head, and no block to two buffers.
LEMMA UseStep == Inv /\ Next => UseInv'
<1> SUFFICES ASSUME Inv, Next PROVE UseInv'
  OBVIOUS
<1>1. ASSUME NEW p \in Procs, NEW b \in Blocks, GetHit(p, b) PROVE UseInv'
  BY <1>1, IdFacts DEF GetHit, TypeOK, UseInv, InUse, Inv
<1>2. ASSUME NEW p \in Procs, NEW b \in Blocks, GetMiss(p, b) PROVE UseInv'
  <2>1. pc[p] = "idle" /\ \A i \in Ids : block[i] # b
    BY <1>2, MissCases
  <2>2. CASE Panics(p)
    BY <2>2 DEF Panics, UseInv, InUse, Inv
  <2>3. ASSUME NEW i \in Ids, Recycles(p, b, i) PROVE UseInv'
    BY <2>1, <2>3 DEF Recycles, TypeOK, UseInv, InUse, Inv
  <2> QED
    BY <1>2, <2>2, <2>3, MissCases
<1>3. ASSUME NEW p \in Procs, Lock(p) PROVE UseInv'
  BY <1>3 DEF Lock, metaVars, TypeOK, UseInv, InUse, Inv
<1>4. ASSUME NEW p \in Procs, Read(p) PROVE UseInv'
  BY <1>4 DEF Read, UseInv, InUse, Inv
<1>5. ASSUME NEW p \in Procs, Change(p) PROVE UseInv'
  BY <1>5 DEF Change, metaVars, UseInv, InUse, Inv
<1>6. ASSUME NEW p \in Procs, Write(p) PROVE UseInv'
  BY <1>6 DEF Write, metaVars, UseInv, InUse, Inv
<1>7. ASSUME NEW p \in Procs, Pin(p) PROVE UseInv'
  BY <1>7 DEF Pin, UseInv, InUse, Inv
<1>8. ASSUME NEW p \in Procs, WriteUnpin(p) PROVE UseInv'
  BY <1>8 DEF WriteUnpin, UseInv, InUse, Inv
<1>9. ASSUME NEW p \in Procs, Unlock(p) PROVE UseInv'
  BY <1>9 DEF Unlock, metaVars, UseInv, InUse, Inv
<1>10. ASSUME NEW p \in Procs, Release(p) PROVE UseInv'
  BY <1>10 DEF Release, UseInv, InUse, Inv
<1>11. ASSUME NEW p \in Procs, KillWakes(p) PROVE UseInv'
  BY <1>11 DEF KillWakes, metaVars, UseInv, InUse, Inv
<1> QED
  BY <1>1, <1>2, <1>3, <1>4, <1>5, <1>6, <1>7, <1>8, <1>9, <1>10, <1>11 DEF Next

\* A step leaves no sleeper on a free sleep lock.
LEMMA LockStep == Inv /\ Next => LockInv'
<1> SUFFICES ASSUME Inv, Next PROVE LockInv'
  OBVIOUS
<1>1. ASSUME NEW p \in Procs, NEW b \in Blocks, GetHit(p, b) PROVE LockInv'
  BY <1>1 DEF GetHit, LockInv, Places, Inv
<1>2. ASSUME NEW p \in Procs, NEW b \in Blocks, GetMiss(p, b) PROVE LockInv'
  BY <1>2 DEF GetMiss, TypeOK, LockInv, Places, Inv
<1>3. ASSUME NEW p \in Procs, Lock(p) PROVE LockInv'
  BY <1>3, IdFacts DEF Lock, TypeOK, LockInv, Places, Inv
<1>4. ASSUME NEW p \in Procs, Read(p) PROVE LockInv'
  BY <1>4 DEF Read, LockInv, Places, Inv
<1>5. ASSUME NEW p \in Procs, Change(p) PROVE LockInv'
  BY <1>5 DEF Change, LockInv, Places, Inv
<1>6. ASSUME NEW p \in Procs, Write(p) PROVE LockInv'
  BY <1>6 DEF Write, LockInv, Places, Inv
<1>7. ASSUME NEW p \in Procs, Pin(p) PROVE LockInv'
  BY <1>7 DEF Pin, LockInv, Places, Inv
<1>8. ASSUME NEW p \in Procs, WriteUnpin(p) PROVE LockInv'
  BY <1>8 DEF WriteUnpin, LockInv, Inv
<1>9. ASSUME NEW p \in Procs, Unlock(p) PROVE LockInv'
  BY <1>9 DEF Unlock, metaVars, dataVars, TypeOK, LockInv, Places, Inv
<1>10. ASSUME NEW p \in Procs, Release(p) PROVE LockInv'
  BY <1>10 DEF Release, LockInv, Places, Inv
<1>11. ASSUME NEW p \in Procs, KillWakes(p) PROVE LockInv'
  BY <1>11 DEF KillWakes, LockInv, Inv
<1> QED
  BY <1>1, <1>2, <1>3, <1>4, <1>5, <1>6, <1>7, <1>8, <1>9, <1>10, <1>11 DEF Next

\* A step keeps valid buffers, pins and the disk in agreement.
LEMMA DataStep == Inv /\ Next => DataInv'
<1> SUFFICES ASSUME Inv, Next PROVE DataInv'
  OBVIOUS
<1>1. ASSUME NEW p \in Procs, NEW b \in Blocks, GetHit(p, b) PROVE DataInv'
  <2> PICK i \in Ids : block[i] = b /\ id' = [id EXCEPT ![p] = i]
    BY <1>1, Zenon DEF GetHit
  <2>0. pc[p] = "idle" /\ pc' = [pc EXCEPT ![p] = "lock"]
        /\ UNCHANGED <<block, valid, data, disk, pinned>>
    BY <1>1 DEF GetHit, dataVars
  <2>1. \A q \in Procs : pc'[q] \in {"held", "changed"} => valid'[id'[q]]
    BY <2>0 DEF DataInv, Inv
  <2>2. \A j \in Ids : valid'[j] => data'[j]
    BY <2>0 DEF DataInv, Inv
  <2>3. \A c \in pinned' : \E j \in Ids : block'[j] = c /\ valid'[j]
    BY <2>0 DEF DataInv, Inv
  <2>4. \A c \in Blocks : ~disk'[c] =>
           \/ c \in pinned'
           \/ \E q \in Procs : pc'[q] = "changed" /\ block'[id'[q]] = c
    BY <2>0 DEF DataInv, Inv
  <2> QED
    BY <2>1, <2>2, <2>3, <2>4 DEF DataInv
<1>2. ASSUME NEW p \in Procs, NEW b \in Blocks, GetMiss(p, b) PROVE DataInv'
  <2>1. pc[p] = "idle" /\ \A i \in Ids : block[i] # b
    BY <1>2, MissCases
  <2>2. CASE Panics(p)
    BY <2>1, <2>2 DEF Panics, DataInv, Inv
  <2>3. ASSUME NEW i \in Ids, Recycles(p, b, i) PROVE DataInv'
    <3>1. \A q \in Procs : pc'[q] \in {"held", "changed"} => valid'[id'[q]]
      BY <2>1, <2>3, CountedUse DEF Recycles, InUse, DataInv, Inv
    <3>2. \A j \in Ids : valid'[j] => data'[j]
      BY <2>3 DEF Recycles, TypeOK, DataInv, Inv
    <3>3. \A c \in pinned' : \E j \in Ids : block'[j] = c /\ valid'[j]
      BY <2>3, CountedUse DEF Recycles, DataInv, Inv
    <3>4. \A c \in Blocks : ~disk'[c] =>
             \/ c \in pinned'
             \/ \E q \in Procs : pc'[q] = "changed" /\ block'[id'[q]] = c
      BY <2>1, <2>3, CountedUse DEF Recycles, InUse, DataInv, Inv
    <3> QED
      BY <3>1, <3>2, <3>3, <3>4 DEF DataInv
  <2> QED
    BY <1>2, <2>2, <2>3, MissCases
<1>3. ASSUME NEW p \in Procs, Lock(p) PROVE DataInv'
  BY <1>3 DEF Lock, metaVars, dataVars, TypeOK, DataInv, Inv
<1>4. ASSUME NEW p \in Procs, Read(p) PROVE DataInv'
  BY <1>4, IdFacts DEF Read, TypeOK, UseInv, DataInv, InUse, Inv
<1>5. ASSUME NEW p \in Procs, Change(p) PROVE DataInv'
  <2>1. \A q \in Procs : pc'[q] \in {"held", "changed"} => valid'[id'[q]]
    BY <1>5 DEF Change, metaVars, DataInv, Inv
  <2>2. \A j \in Ids : valid'[j] => data'[j]
    BY <1>5 DEF Change, metaVars, TypeOK, UseInv, InUse, DataInv, Inv
  <2>3. \A c \in pinned' : \E j \in Ids : block'[j] = c /\ valid'[j]
    BY <1>5 DEF Change, metaVars, DataInv, Inv
  <2>4. \A c \in Blocks : ~disk'[c] =>
           \/ c \in pinned'
           \/ \E q \in Procs : pc'[q] = "changed" /\ block'[id'[q]] = c
    BY <1>5 DEF Change, metaVars, TypeOK, DataInv, Inv
  <2> QED
    BY <2>1, <2>2, <2>3, <2>4 DEF DataInv
<1>6. ASSUME NEW p \in Procs, Write(p) PROVE DataInv'
  BY <1>6 DEF Write, metaVars, TypeOK, DataInv, Inv
<1>7. ASSUME NEW p \in Procs, Pin(p) PROVE DataInv'
  BY <1>7 DEF Pin, TypeOK, DataInv, Inv
<1>8. ASSUME NEW p \in Procs, WriteUnpin(p) PROVE DataInv'
  BY <1>8 DEF WriteUnpin, TypeOK, DataInv, Inv
<1>9. ASSUME NEW p \in Procs, Unlock(p) PROVE DataInv'
  BY <1>9 DEF Unlock, metaVars, dataVars, DataInv, Inv
<1>10. ASSUME NEW p \in Procs, Release(p) PROVE DataInv'
  BY <1>10 DEF Release, dataVars, DataInv, Inv
<1>11. ASSUME NEW p \in Procs, KillWakes(p) PROVE DataInv'
  BY <1>11 DEF KillWakes, metaVars, dataVars, DataInv, Inv
<1> QED
  BY <1>1, <1>2, <1>3, <1>4, <1>5, <1>6, <1>7, <1>8, <1>9, <1>10, <1>11 DEF Next

\* get adds one user to one buffer.
LEMMA UsingAdd ==
  ASSUME NEW p \in Procs, NEW i \in Ids, ~InUse(p), TypeOK,
         pc' = [pc EXCEPT ![p] = "lock"], id' = [id EXCEPT ![p] = i]
  PROVE  /\ Cardinality(Using(i)') = Cardinality(Using(i)) + 1
         /\ \A j \in Ids \ {i} : Using(j)' = Using(j)
<1>1. Using(i)' = Using(i) \cup {p} /\ p \notin Using(i)
  BY DEF Using, InUse, TypeOK
<1>2. \A j \in Ids \ {i} : Using(j)' = Using(j)
  BY DEF Using, InUse, TypeOK
<1> QED
  BY ZenonT(60), <1>1, <1>2, UsingFinite, FS_AddElement

\* A process that goes on using its buffer changes nobody's users.
LEMMA UsingKept ==
  ASSUME NEW p \in Procs, NEW s, InUse(p), s \notin {"idle", "panicked"}, TypeOK,
         pc' = [pc EXCEPT ![p] = s], id' = id
  PROVE  \A i \in Ids : Using(i)' = Using(i)
BY DEF Using, InUse

\* Every step counts what it takes and gives back.
LEMMA CountStep == Inv /\ Next => RefCountExact'
<1> SUFFICES ASSUME Inv, Next PROVE RefCountExact'
  OBVIOUS
<1> DEFINE Pins(i) == IF block[i] \in pinned THEN 1 ELSE 0
<1>1. ASSUME NEW p \in Procs, NEW b \in Blocks, GetHit(p, b) PROVE RefCountExact'
  <2>1. PICK i \in Ids : ref' = [ref EXCEPT ![i] = @ + 1] /\ id' = [id EXCEPT ![p] = i]
    BY <1>1, Zenon DEF GetHit
  <2>2. /\ pc[p] = "idle" /\ pc' = [pc EXCEPT ![p] = "lock"]
        /\ UNCHANGED <<block, pinned>>
    BY <1>1 DEF GetHit, dataVars
  <2>3. /\ Cardinality(Using(i)') = Cardinality(Using(i)) + 1
        /\ \A j \in Ids \ {i} : Using(j)' = Using(j)
    BY <2>1, <2>2, UsingAdd, Zenon DEF InUse, Inv
  <2> QED
    BY <2>1, <2>2, <2>3, UsingFinite DEF RefCountExact, TypeOK, Inv
<1>2. ASSUME NEW p \in Procs, NEW b \in Blocks, GetMiss(p, b) PROVE RefCountExact'
  <2>1. pc[p] = "idle" /\ \A i \in Ids : block[i] # b
    BY <1>2, MissCases
  <2>2. CASE Panics(p)
    <3>1. \A i \in Ids : Using(i)' = Using(i)
      BY <2>1, <2>2 DEF Using, Panics
    <3> QED
      BY <2>2, <3>1 DEF Panics, RefCountExact, Inv
  <2>3. ASSUME NEW i \in Ids, Recycles(p, b, i) PROVE RefCountExact'
    <3>1. /\ Cardinality(Using(i)') = Cardinality(Using(i)) + 1
          /\ \A j \in Ids \ {i} : Using(j)' = Using(j)
      BY <2>1, <2>3, UsingAdd, Zenon DEF InUse, Recycles, Inv
    <3>2. block[i] \notin pinned /\ block'[i] \notin pinned'
      BY <2>1, <2>3, CountedUse DEF Recycles, DataInv, Inv
    <3> QED
      BY <2>3, <3>1, <3>2, UsingFinite DEF Recycles, RefCountExact, TypeOK, Inv
  <2> QED
    BY <1>2, <2>2, <2>3, MissCases
<1>3. ASSUME NEW p \in Procs, Lock(p) PROVE RefCountExact'
  <2>1. \A i \in Ids : Using(i)' = Using(i)
    BY <1>3 DEF Lock, Using, TypeOK, Inv
  <2> QED
    BY <1>3, <2>1 DEF Lock, metaVars, dataVars, RefCountExact, Inv
<1>4. ASSUME NEW p \in Procs, Read(p) PROVE RefCountExact'
  <2>1. \A i \in Ids : Using(i)' = Using(i)
    BY <1>4, UsingKept, Zenon DEF Read, InUse, Inv
  <2> QED
    BY <1>4, <2>1 DEF Read, RefCountExact, Inv
<1>5. ASSUME NEW p \in Procs, Change(p) PROVE RefCountExact'
  <2>1. \A i \in Ids : Using(i)' = Using(i)
    BY <1>5, UsingKept, Zenon DEF Change, InUse, Inv
  <2> QED
    BY <1>5, <2>1 DEF Change, metaVars, RefCountExact, Inv
<1>6. ASSUME NEW p \in Procs, Write(p) PROVE RefCountExact'
  <2>1. \A i \in Ids : Using(i)' = Using(i)
    BY <1>6, UsingKept, Zenon DEF Write, InUse, Inv
  <2> QED
    BY <1>6, <2>1 DEF Write, metaVars, RefCountExact, Inv
<1>7. ASSUME NEW p \in Procs, Pin(p) PROVE RefCountExact'
  <2>1. \A i \in Ids : Using(i)' = Using(i)
    BY <1>7, UsingKept, Zenon DEF Pin, InUse, Inv
  <2>2. \A i \in Ids : block[i] = block[id[p]] <=> i = id[p]
    BY <1>7 DEF Pin, UseInv, InUse, TypeOK, Inv
  <2> QED
    BY <1>7, <2>1, <2>2, UsingFinite DEF Pin, RefCountExact, TypeOK, Inv
<1>8. ASSUME NEW p \in Procs, WriteUnpin(p) PROVE RefCountExact'
  <2>1. \A i \in Ids : Using(i)' = Using(i)
    BY <1>8 DEF WriteUnpin, Using
  <2>2. \A i \in Ids : block[i] = block[id[p]] <=> i = id[p]
    BY <1>8 DEF WriteUnpin, UseInv, TypeOK, Inv
  <2> QED
    BY <1>8, <2>1, <2>2, UsingFinite DEF WriteUnpin, RefCountExact, TypeOK, Inv
<1>9. ASSUME NEW p \in Procs, Unlock(p) PROVE RefCountExact'
  <2>1. \A i \in Ids : Using(i)' = Using(i)
    BY <1>9, UsingKept, Zenon DEF Unlock, InUse, Inv
  <2> QED
    BY <1>9, <2>1 DEF Unlock, metaVars, dataVars, RefCountExact, Inv
<1>10. ASSUME NEW p \in Procs, Release(p) PROVE RefCountExact'
  <2>0. PICK i \in Ids : i = id[p]
    BY DEF TypeOK, Inv
  <2>1. p \in Using(i) /\ Using(i)' = Using(i) \ {p}
    BY <1>10, <2>0 DEF Release, Using, TypeOK, Inv
  <2>2. \A j \in Ids \ {i} : Using(j)' = Using(j)
    BY <1>10, <2>0 DEF Release, Using
  <2>3. Cardinality(Using(i)') = Cardinality(Using(i)) - 1
    BY <2>1, UsingFinite, FS_RemoveElement, Zenon
  <2>4. ref' = [ref EXCEPT ![i] = @ - 1] /\ UNCHANGED <<block, pinned>>
    BY <1>10, <2>0 DEF Release, dataVars
  <2>5. ref'[i] = Cardinality(Using(i)') + (IF block'[i] \in pinned' THEN 1 ELSE 0)
    BY <2>3, <2>4, UsingFinite DEF RefCountExact, TypeOK, Inv
  <2>6. \A j \in Ids \ {i} : ref'[j] = ref[j]
    BY <2>4
  <2> QED
    BY <2>2, <2>4, <2>5 DEF RefCountExact, Inv
<1>11. ASSUME NEW p \in Procs, KillWakes(p) PROVE RefCountExact'
  BY <1>11 DEF KillWakes, metaVars, dataVars, RefCountExact, Using, Inv
<1> QED
  BY <1>1, <1>2, <1>3, <1>4, <1>5, <1>6, <1>7, <1>8, <1>9, <1>10, <1>11 DEF Next

\* release moves the buffer at position k to the front of the ring; the order
\* of its assignments does not matter even for neighbours of the head.
LEMMA RelinkRing ==
  ASSUME NEW c, Ring(c, next, prev), TypeOK, NEW k \in 1..(NBUF - 1), Relink(c[k])
  PROVE  Ring([n \in 0..NBUF |->
                 IF n = 1 THEN c[k] ELSE IF 1 < n /\ n <= k THEN c[n - 1] ELSE c[n]],
              next', prev')
<1> DEFINE d == [n \in 0..NBUF |->
                   IF n = 1 THEN c[k] ELSE IF 1 < n /\ n <= k THEN c[n - 1] ELSE c[n]]
           first == IF k = 1 THEN c[2] ELSE c[1]
<1>1. /\ c \in [0..NBUF -> Ids] /\ c[0] = Head /\ c[NBUF] = Head
      /\ \A m, n \in 0..(NBUF - 1) : c[m] = c[n] => m = n
      /\ \A n \in 0..(NBUF - 1) : next[c[n]] = c[n + 1] /\ prev[c[n + 1]] = c[n]
  BY DEF Ring
<1>2. prev[c[k]] = c[k - 1] /\ next[c[k]] = c[k + 1]
  BY <1>1, IdFacts
<1>3. /\ next' = [next EXCEPT ![c[k - 1]] = c[k + 1], ![c[k]] = first, ![Head] = c[k]]
      /\ prev' = [prev EXCEPT ![c[k + 1]] = c[k - 1], ![c[k]] = Head, ![first] = c[k]]
  <2>1. c[k - 1] \in Ids /\ c[k + 1] \in Ids /\ c[1] \in Ids /\ (c[k - 1] = Head <=> k = 1)
    BY <1>1, IdFacts
  <2>2. [next EXCEPT ![c[k - 1]] = c[k + 1]][Head] = first
    BY <1>1, IdFacts, SMTT(60) DEF TypeOK
  <2> HIDE DEF first
  <2> QED
    BY <1>2, <2>2, Zenon DEF Relink
<1>4. d \in [0..NBUF -> Ids] /\ d[0] = Head /\ d[NBUF] = Head
  BY <1>1, IdFacts
<1>5. \A m, n \in 0..(NBUF - 1) : d[m] = d[n] => m = n
  BY SMTT(60), <1>1, IdFacts
<1>6. \A i \in Ids : \E n \in 0..(NBUF - 1) : d[n] = i
  <2> SUFFICES ASSUME NEW i \in Ids PROVE \E n \in 0..(NBUF - 1) : d[n] = i
    OBVIOUS
  <2>1. PICK n \in 0..(NBUF - 1) : c[n] = i
    BY DEF Ring
  <2>2. CASE n = 0 \/ n > k
    BY <2>1, <2>2, IdFacts
  <2>3. CASE n = k
    <3>1. d[1] = i /\ 1 \in 0..(NBUF - 1)
      BY <2>1, <2>3, IdFacts
    <3> QED
      BY <3>1, Zenon
  <2>4. CASE n > 0 /\ n < k
    <3>1. d[n + 1] = i /\ n + 1 \in 0..(NBUF - 1)
      BY <2>1, <2>4, IdFacts
    <3> QED
      BY <3>1, Zenon
  <2>5. n = 0 \/ n > k \/ n = k \/ (n > 0 /\ n < k)
    OBVIOUS
  <2> QED
    BY <2>2, <2>3, <2>4, <2>5, Zenon
<1>7. ASSUME NEW n \in 0..(NBUF - 1) PROVE next'[d[n]] = d[n + 1]
  <2>1. next'[Head] = c[k] /\ next'[c[k]] = first
    BY <1>1, <1>3, IdFacts, SMTT(60) DEF TypeOK
  <2>2. k # 1 => next'[c[k - 1]] = c[k + 1]
    BY <1>1, <1>3, IdFacts DEF TypeOK
  <2>3. ASSUME NEW m \in 1..(NBUF - 1), m # k, m # k - 1 PROVE next'[c[m]] = c[m + 1]
    <3>1. /\ c[m] \in Ids /\ c[m] # Head /\ c[m] # c[k] /\ c[m] # c[k - 1]
          /\ next[c[m]] = c[m + 1]
      BY <1>1, <2>3, IdFacts
    <3> QED
      BY <1>3, <3>1 DEF TypeOK
  <2>4. CASE n = 0
    BY <1>1, <2>1, <2>4, IdFacts
  <2>5. CASE n = 1
    BY <2>1, <2>5, IdFacts
  <2>6. CASE 1 < n /\ n < k
    BY <2>3, <2>6, IdFacts
  <2>7. CASE 1 < n /\ n = k
    BY <2>2, <2>7, IdFacts
  <2>8. CASE 1 < n /\ n > k
    BY <2>3, <2>8, IdFacts
  <2>9. n = 0 \/ n = 1 \/ (1 < n /\ n < k) \/ (1 < n /\ n = k) \/ (1 < n /\ n > k)
    OBVIOUS
  <2> QED
    BY <2>4, <2>5, <2>6, <2>7, <2>8, <2>9, Zenon
<1>8. ASSUME NEW n \in 0..(NBUF - 1) PROVE prev'[d[n + 1]] = d[n]
  <2>1. prev'[first] = c[k] /\ prev'[c[k]] = Head
    BY <1>1, <1>3, IdFacts, SMTT(60) DEF TypeOK
  <2>2. k # 1 => prev'[c[k + 1]] = c[k - 1]
    BY <1>1, <1>3, IdFacts, SMTT(60) DEF TypeOK
  <2>3. ASSUME NEW m \in 1..(NBUF - 1), m # k, m # k - 1 PROVE prev'[c[m + 1]] = c[m]
    <3>1. c[m + 1] \in Ids /\ prev[c[m + 1]] = c[m]
      BY <1>1, IdFacts
    <3>2. CASE m = NBUF - 1
      <4>1. c[m + 1] = Head /\ c[k] # Head /\ c[k + 1] # Head /\ first # Head
        BY <1>1, <2>3, <3>2, IdFacts
      <4> QED
        BY <1>3, <3>1, <4>1 DEF TypeOK
    <3>3. CASE m # NBUF - 1
      <4>1. m + 1 \in 0..(NBUF - 1) /\ m + 1 # 0
        BY <3>3, IdFacts
      <4>2. c[m + 1] # c[k] /\ c[m + 1] # c[k + 1]
        BY SMTT(60), <1>1, <2>3, IdFacts
      <4>3. c[m + 1] # first
        BY <1>1, <2>3, IdFacts
      <4> QED
        BY <1>3, <3>1, <4>2, <4>3 DEF TypeOK
    <3> QED
      BY <3>2, <3>3
  <2>4. CASE n = 0
    BY <1>1, <2>1, <2>4, IdFacts
  <2>5. CASE n = 1
    BY <2>1, <2>5, IdFacts
  <2>6. CASE 1 < n /\ n < k
    BY <2>3, <2>6, IdFacts
  <2>7. CASE 1 < n /\ n = k
    BY <2>2, <2>7, IdFacts
  <2>8. CASE 1 < n /\ n > k
    BY <2>3, <2>8, IdFacts
  <2>9. n = 0 \/ n = 1 \/ (1 < n /\ n < k) \/ (1 < n /\ n = k) \/ (1 < n /\ n > k)
    OBVIOUS
  <2> QED
    BY ZenonT(60), <2>4, <2>5, <2>6, <2>7, <2>8, <2>9
<1> QED
  BY <1>4, <1>5, <1>6, <1>7, <1>8, Zenon DEF Ring

\* Only release changes the list, and it never relinks the head.
LEMMA ListStep == Inv /\ Next => ListInv'
<1> SUFFICES ASSUME Inv, Next PROVE ListInv'
  OBVIOUS
<1>1. PICK c \in [0..NBUF -> Ids] : Ring(c, next, prev)
  BY DEF Inv, ListInv
<1>2. CASE UNCHANGED <<next, prev>>
  BY <1>1, <1>2 DEF ListInv
<1>3. ASSUME NEW i \in Ids \ {Head}, Relink(i) PROVE ListInv'
  <2>1. PICK k \in 0..(NBUF - 1) : c[k] = i
    BY <1>1 DEF Ring
  <2>2. k \in 1..(NBUF - 1)
    BY <1>1, <2>1 DEF Ring
  <2>3. \E d : Ring(d, next', prev')
    BY <1>1, <1>3, <2>1, <2>2, RelinkRing, ZenonT(60) DEF Inv
  <2> QED
    BY <2>3, Zenon DEF ListInv, Ring
<1>4. UNCHANGED <<next, prev>> \/ \E p \in Procs : Release(p)
  BY DEF Next, GetHit, GetMiss, Lock, Read, Change, Write, Pin, WriteUnpin,
     Unlock, KillWakes, metaVars
<1>5. ASSUME NEW p \in Procs, Release(p) PROVE UNCHANGED <<next, prev>> \/ Relink(id[p])
  BY <1>5 DEF Release
<1>6. ASSUME NEW p \in Procs, Release(p) PROVE id[p] \in Ids \ {Head}
  BY <1>6, Zenon DEF Release, Inv, TypeOK, UseInv, InUse
<1> QED
  BY <1>2, <1>3, <1>4, <1>5, <1>6

-----------------------------------------------------------------------------
(* The walks along the list.                                               *)

\* A nonempty set of naturals has a least element.
LEMMA LeastNumber ==
  ASSUME NEW T, T \subseteq Nat, T # {}
  PROVE  \E x \in T : \A y \in T : x <= y
<1> DEFINE R == {ss \in Nat \X Nat : ss[1] < ss[2]}
<1>1. OpToRel(<, Nat) = R
  BY Zenon DEF OpToRel
<1>2. IsWellFoundedOn(R, Nat)
  BY Zenon, <1>1, NatLessThanWellFounded
<1>3. PICK x \in T : \A y \in T : ~(<<y, x>> \in R)
  BY <1>2, WFMin, Zenon
<1>4. ASSUME NEW y \in T PROVE x <= y
  <2>1. <<y, x>> \in Nat \X Nat
    OBVIOUS
  <2>2. ~(<<y, x>>[1] < <<y, x>>[2])
    BY <1>3, Zenon
  <2> QED
    BY <2>2
<1> QED
  BY <1>4

\* Following next from the head visits the ring in order.
LEMMA ForwardWalk ==
  \A c : Ring(c, next, prev) => Forward = [n \in 1..(NBUF - 1) |-> c[n]]
<1> SUFFICES ASSUME NEW c, Ring(c, next, prev)
             PROVE  Forward = [n \in 1..(NBUF - 1) |-> c[n]]
  OBVIOUS
<1> DEFINE g == [n \in 1..(NBUF - 1) |-> c[n]]
<1>0. next[Head] = c[1] /\ \A n \in 2..(NBUF - 1) : next[c[n - 1]] = c[n]
  <2>1. next[c[0]] = c[0 + 1]
    BY IdFacts DEF Ring
  <2>2. ASSUME NEW n \in 2..(NBUF - 1) PROVE next[c[n - 1]] = c[n]
    <3>1. n - 1 \in 0..(NBUF - 1) /\ (n - 1) + 1 = n
      BY IdFacts
    <3> QED
      BY <3>1 DEF Ring
  <2> QED
    BY <2>2, IdFacts DEF Ring
<1>1. g = [n \in 1..(NBUF - 1) |-> IF n = 1 THEN next[Head] ELSE next[g[n - 1]]]
  BY <1>0, IdFacts
<1>2. Forward = [n \in 1..(NBUF - 1) |->
                   IF n = 1 THEN next[Head] ELSE next[Forward[n - 1]]]
  BY <1>1, Zenon DEF Forward
<1> DEFINE T == {n \in 1..(NBUF - 1) : Forward[n] # c[n]}
<1>3. T = {}
  <2> SUFFICES ASSUME T # {} PROVE FALSE
    OBVIOUS
  <2>1. T \subseteq Nat
    OBVIOUS
  <2>2. PICK x \in T : \A y \in T : x <= y
    BY <2>1, LeastNumber, Zenon
  <2>3. x # 1
    BY <1>0, <1>2
  <2>4. x - 1 \in 1..(NBUF - 1) /\ x - 1 \notin T
    BY <2>2, <2>3, IdFacts
  <2>5. Forward[x - 1] = c[x - 1]
    BY <2>4
  <2>6. Forward[x] = next[Forward[x - 1]]
    BY <1>2, <2>3, IdFacts
  <2>7. Forward[x] # c[x] /\ x \in 2..(NBUF - 1)
    BY <2>3
  <2> QED
    BY <1>0, <2>5, <2>6, <2>7
<1> QED
  BY <1>2, <1>3

\* Following prev from the head, as get does, visits the ring backwards.
LEMMA BackWalk ==
  \A c : Ring(c, next, prev) => \A n \in 1..NBUF : Back[n] = c[NBUF - n]
<1> SUFFICES ASSUME NEW c, Ring(c, next, prev)
             PROVE  \A n \in 1..NBUF : Back[n] = c[NBUF - n]
  OBVIOUS
<1> DEFINE g == [n \in 1..NBUF |-> c[NBUF - n]]
<1>0. prev[Head] = c[NBUF - 1] /\ \A n \in 2..NBUF : prev[c[NBUF - (n - 1)]] = c[NBUF - n]
  <2>1. prev[c[(NBUF - 1) + 1]] = c[NBUF - 1]
    BY IdFacts DEF Ring
  <2>2. ASSUME NEW n \in 2..NBUF PROVE prev[c[NBUF - (n - 1)]] = c[NBUF - n]
    <3>1. NBUF - n \in 0..(NBUF - 1) /\ (NBUF - n) + 1 = NBUF - (n - 1)
      BY IdFacts
    <3> QED
      BY <3>1 DEF Ring
  <2> QED
    BY <2>2, IdFacts DEF Ring
<1>1. g = [n \in 1..NBUF |-> IF n = 1 THEN prev[Head] ELSE prev[g[n - 1]]]
  BY <1>0, IdFacts
<1>2. Back = [n \in 1..NBUF |-> IF n = 1 THEN prev[Head] ELSE prev[Back[n - 1]]]
  BY <1>1, Zenon DEF Back
<1> DEFINE T == {n \in 1..NBUF : Back[n] # c[NBUF - n]}
<1>3. T = {}
  <2> SUFFICES ASSUME T # {} PROVE FALSE
    OBVIOUS
  <2>1. T \subseteq Nat
    OBVIOUS
  <2>2. PICK x \in T : \A y \in T : x <= y
    BY <2>1, LeastNumber, Zenon
  <2>3. x # 1
    BY <1>0, <1>2
  <2>4. x - 1 \in 1..NBUF /\ x - 1 \notin T
    BY <2>2, <2>3, IdFacts
  <2>5. Back[x - 1] = c[NBUF - (x - 1)]
    BY <2>4
  <2>6. Back[x] = prev[Back[x - 1]]
    BY <1>2, <2>3, IdFacts
  <2>7. Back[x] # c[NBUF - x] /\ x \in 2..NBUF
    BY <2>3
  <2> QED
    BY <1>0, <2>5, <2>6, <2>7
<1> QED
  BY <1>3

\* get stops at the last unused buffer of the ring, or at the head.
LEMMA VictimLast ==
  ASSUME NEW c, Ring(c, next, prev), NEW i, Victim(i)
  PROVE  \E k \in 0..(NBUF - 1) :
           c[k] = i /\ \A m \in 1..(NBUF - 1) : m > k => ref[c[m]] > 0
<1>1. PICK n \in 1..NBUF :
        Back[n] = i /\ \A m \in 1..(n - 1) : Back[m] # Head /\ ref[Back[m]] > 0
  BY DEF Victim
<1>2. \A m \in 1..NBUF : Back[m] = c[NBUF - m]
  BY BackWalk
<1>3. ASSUME NEW m \in 1..(NBUF - 1), m > NBUF - n PROVE ref[c[m]] > 0
  <2>1. NBUF - m \in 1..(n - 1) /\ NBUF - (NBUF - m) = m /\ NBUF - m \in 1..NBUF
    BY <1>3, IdFacts
  <2> QED
    BY <1>1, <1>2, <2>1
<1>4. NBUF - n \in 0..(NBUF - 1) /\ c[NBUF - n] = i
  BY <1>1, <1>2, IdFacts
<1> QED
  BY <1>3, <1>4

-----------------------------------------------------------------------------
(* Theorems.                                                               *)

\* buf::init links the buffers in the order of their indices.
LEMMA InitRing == Init => Ring([n \in 0..NBUF |-> IF n = NBUF THEN 0 ELSE n], next, prev)
<1> SUFFICES ASSUME Init
             PROVE  Ring([n \in 0..NBUF |-> IF n = NBUF THEN 0 ELSE n], next, prev)
  OBVIOUS
<1> DEFINE c == [n \in 0..NBUF |-> IF n = NBUF THEN 0 ELSE n]
<1>1. c \in [0..NBUF -> Ids] /\ c[0] = Head /\ c[NBUF] = Head
  BY IdFacts DEF Ids, Head
<1>2. \A m, n \in 0..(NBUF - 1) : c[m] = c[n] => m = n
  BY IdFacts
<1>3. \A i \in Ids : \E n \in 0..(NBUF - 1) : c[n] = i
  BY IdFacts DEF Ids
<1>4. \A n \in 0..(NBUF - 1) : next[c[n]] = c[n + 1] /\ prev[c[n + 1]] = c[n]
  BY IdFacts DEF Init, Ids
<1> QED
  BY <1>1, <1>2, <1>3, <1>4, Zenon DEF Ring

\* buf::init leaves an empty cache.
LEMMA InitHolds == Init => Inv
<1> SUFFICES ASSUME Init PROVE Inv
  OBVIOUS
<1>1. TypeOK
  <2>1. prev \in [Ids -> Ids] /\ next \in [Ids -> Ids]
    BY IdFacts DEF Init, Ids
  <2> QED
    BY <2>1, IdFacts DEF Init, TypeOK
<1>2. UseInv /\ LockInv /\ DataInv
  BY IdFacts DEF Init, UseInv, LockInv, DataInv, InUse, Places
<1>3. RefCountExact
  <2>1. \A i \in Ids : Using(i) = {}
    BY DEF Init, Using
  <2> QED
    BY <2>1, UsingFinite, FS_EmptySet DEF Init, RefCountExact
<1>4. ListInv
  BY InitRing, Zenon DEF ListInv, Ring
<1> QED
  BY <1>1, <1>2, <1>3, <1>4 DEF Inv

\* Every part of the invariant is kept, and a stuttering step changes nothing.
LEMMA StepHolds == Inv /\ [Next]_vars => Inv'
<1> SUFFICES ASSUME Inv, [Next]_vars PROVE Inv'
  OBVIOUS
<1>1. CASE Next
  BY <1>1, TypeStep, UseStep, LockStep, DataStep, CountStep, ListStep DEF Inv
<1>2. CASE UNCHANGED vars
  BY <1>2 DEF vars, metaVars, dataVars, Inv, TypeOK, UseInv, LockInv,
     DataInv, RefCountExact, ListInv, InUse, Using
<1> QED
  BY <1>1, <1>2

\* The invariant holds in every state of get, read, write, pin, unpin and
\* release.
THEOREM Invariance == Spec => []Inv
BY InitHolds, StepHolds, PTL DEF Spec

\* Type correctness; in particular no reference count of meta ever wraps below
\* zero.
THEOREM TypeCorrect == Spec => []TypeOK
<1>1. Inv => TypeOK
  BY DEF Inv
<1> QED
  BY <1>1, Invariance, PTL

\* ref_count is the number of users and pins of a buffer at every moment.
THEOREM CountsExact == Spec => []RefCountExact
<1>1. Inv => RefCountExact
  BY DEF Inv
<1> QED
  BY <1>1, Invariance, PTL

\* A process that has read a block sees what was last stored in it.
THEOREM ReadersCoherent == Spec => []Coherent
<1>1. Inv => Coherent
  BY DEF Inv, LockInv, DataInv, Coherent, Places, TypeOK
<1> QED
  BY <1>1, Invariance, PTL

\* Nobody sleeps on the sleep lock of a buffer that is free.
THEOREM NoLostWakeup == Spec => []LockSleeperHasWaker
<1>1. Inv => LockSleeperHasWaker
  BY DEF Inv, TypeOK, LockInv, LockSleeperHasWaker, Places
<1> QED
  BY <1>1, Invariance, PTL

\* The list of buf.rs stays circular and complete, and no caller is given the
\* buffer that serves as its head.
THEOREM ListComplete == Spec => []ListIntact
<1>1. Inv => ListIntact
  <2> SUFFICES ASSUME Inv PROVE ListIntact
    OBVIOUS
  <2>1. PICK c \in [0..NBUF -> Ids] : Ring(c, next, prev)
    BY DEF Inv, ListInv
  <2>2. Forward = [n \in 1..(NBUF - 1) |-> c[n]]
    BY <2>1, ForwardWalk, IdFacts
  <2>3. ASSUME NEW i \in Ids PROVE prev[next[i]] = i /\ next[prev[i]] = i
    <3>1. PICK n \in 0..(NBUF - 1) : c[n] = i
      BY <2>1 DEF Ring
    <3>2. prev[next[i]] = i
      BY <2>1 DEF Ring
    <3>3. PICK m \in 0..(NBUF - 1) : c[m + 1] = i
      <4>1. CASE n = 0
        <5>1. c[(NBUF - 1) + 1] = i /\ NBUF - 1 \in 0..(NBUF - 1)
          BY <2>1, <3>1, <4>1, IdFacts DEF Ring
        <5> QED
          BY <5>1
      <4>2. CASE n # 0
        <5>1. c[(n - 1) + 1] = i /\ n - 1 \in 0..(NBUF - 1)
          BY <3>1, <4>2, IdFacts
        <5> QED
          BY <5>1
      <4> QED
        BY <4>1, <4>2
    <3> QED
      BY <2>1, <3>2, <3>3 DEF Ring
  <2>4. {Forward[n] : n \in 1..(NBUF - 1)} = Ids \ {Head}
    <3>1. \A n \in 1..(NBUF - 1) : c[n] \in Ids \ {Head}
      BY <2>1, IdFacts DEF Ring
    <3>2. ASSUME NEW i \in Ids \ {Head} PROVE \E n \in 1..(NBUF - 1) : c[n] = i
      <4>1. PICK n \in 0..(NBUF - 1) : c[n] = i
        BY <2>1 DEF Ring
      <4>2. n \in 1..(NBUF - 1)
        BY <2>1, <4>1 DEF Ring
      <4> QED
        BY <4>1, <4>2
    <3>3. \A n \in 1..(NBUF - 1) : Forward[n] = c[n]
      BY <2>2
    <3> QED
      BY <3>1, <3>2, <3>3
  <2>5. \A p \in Procs : pc[p] \notin {"idle", "panicked"} => id[p] # Head
    BY DEF Inv, UseInv, InUse
  <2> QED
    BY <2>3, <2>4, <2>5 DEF ListIntact
<1> QED
  BY <1>1, Invariance, PTL

\* get panics only when every buffer but the head has a user or a pin.
THEOREM PanicsOnlyFull == Spec => PanicOnlyWhenFull
<1> DEFINE Full(p) == pc'[p] = "panicked" /\ pc[p] # "panicked" =>
                        \A i \in Ids \ {Head} : ref[i] > 0
<1>1. ASSUME Inv, [Next]_vars, NEW p \in Procs, pc'[p] = "panicked", pc[p] # "panicked"
      PROVE  \A i \in Ids \ {Head} : ref[i] > 0
  <2>1. PICK b \in Blocks : GetMiss(p, b) /\ Victim(Head)
    <3>1. \E q \in Procs, b \in Blocks : GetMiss(q, b)
      <4>1. \A q \in Procs, b \in Blocks : ~GetHit(q, b)
        BY <1>1 DEF GetHit, Inv, TypeOK
      <4>2. \A q \in Procs : ~Lock(q) /\ ~Read(q) /\ ~Change(q) /\ ~Write(q) /\ ~Pin(q)
        BY <1>1 DEF Lock, Read, Change, Write, Pin, Inv, TypeOK
      <4>3. \A q \in Procs : ~WriteUnpin(q) /\ ~Unlock(q) /\ ~Release(q) /\ ~KillWakes(q)
        BY <1>1 DEF WriteUnpin, Unlock, Release, KillWakes, Inv, TypeOK
      <4> QED
        BY <1>1, <4>1, <4>2, <4>3 DEF Next, vars
    <3>2. PICK q \in Procs, b \in Blocks : GetMiss(q, b)
      BY <3>1
    <3>3. q = p /\ Victim(Head)
      BY <1>1, <3>2 DEF GetMiss, Inv, TypeOK
    <3> QED
      BY <3>2, <3>3
  <2>2. PICK c \in [0..NBUF -> Ids] : Ring(c, next, prev)
    BY <1>1 DEF Inv, ListInv
  <2>3. PICK k \in 0..(NBUF - 1) :
          c[k] = Head /\ \A m \in 1..(NBUF - 1) : m > k => ref[c[m]] > 0
    BY ZenonT(60), <2>1, <2>2, VictimLast
  <2>4. k = 0
    BY <2>2, <2>3, IdFacts DEF Ring
  <2>5. ASSUME NEW i \in Ids \ {Head} PROVE ref[i] > 0
    <3>1. PICK m \in 0..(NBUF - 1) : c[m] = i
      BY <2>2 DEF Ring
    <3>2. m # 0
      BY <2>2, <3>1 DEF Ring
    <3>3. m \in 1..(NBUF - 1) /\ m > k
      BY <2>4, <3>2
    <3> QED
      BY <2>3, <3>1, <3>3
  <2> QED
    BY <2>5
<1>2. Inv /\ [Next]_vars => [\A p \in Procs : Full(p)]_vars
  BY <1>1
<1> QED
  BY <1>2, Invariance, PTL DEF Spec, PanicOnlyWhenFull

-----------------------------------------------------------------------------
(* The refinement.                                                         *)

\* The buffers that the abstract cache knows.
Usable == Ids \ {Head}

\* The initial list is an order of the usable buffers.
LEMMA ForwardInit == Init => Lru!Init
<1> SUFFICES ASSUME Init PROVE Lru!Init
  OBVIOUS
<1> DEFINE c == [n \in 0..NBUF |-> IF n = NBUF THEN 0 ELSE n]
<1>1. Forward = [n \in 1..(NBUF - 1) |-> c[n]]
  BY InitRing, ForwardWalk, IdFacts
<1>2. Ids \ {Head} = 1..(NBUF - 1)
  BY DEF Ids, Head
<1>3. Cardinality(1..(NBUF - 1)) = NBUF - 1
  BY FS_Interval, IdFacts
<1>4. Forward = [n \in 1..(NBUF - 1) |-> n]
  BY <1>1, IdFacts
<1>9. \A S : Lru!Cardinality(S) = Cardinality(S)
  BY Zenon DEF Lru!Cardinality, Cardinality
<1>5. [i \in Usable |-> ref[i]] = [i \in Usable |-> 0]
  BY DEF Init, Usable
<1>6. [i \in Usable |-> block[i]] = [i \in Usable |-> NoBlock]
  BY DEF Init, Usable
<1> HIDE DEF c
<1> QED
  BY <1>2, <1>3, <1>4, <1>5, <1>6, <1>9, Zenon DEF Lru!Init, Usable

\* ForwardWalk after a step.
LEMMA NextForward == (\A c : Ring(c, next, prev) => Forward = [n \in 1..(NBUF - 1) |-> c[n]])'
BY ForwardWalk, PTL

\* The order changes only when the list does.
LEMMA SameOrder == Inv /\ UNCHANGED <<next, prev>> => Forward' = Forward
<1> SUFFICES ASSUME Inv, UNCHANGED <<next, prev>> PROVE Forward' = Forward
  OBVIOUS
<1>1. PICK c \in [0..NBUF -> Ids] : Ring(c, next, prev)
  BY DEF Inv, ListInv
<1>2. Ring(c, next', prev')
  BY <1>1
<1> QED
  BY <1>2, ForwardWalk, NextForward, Zenon

\* Every step of the cache is a step of the abstract cache or changes nothing
\* it knows of.
LEMMA LruStep == Inv /\ Next => Lru!Next \/ UNCHANGED Lru!vars
<1> SUFFICES ASSUME Inv, Next PROVE Lru!Next \/ UNCHANGED Lru!vars
  OBVIOUS
<1> DEFINE R == [i \in Usable |-> ref[i]]
           B == [i \in Usable |-> block[i]]
<1>1. ASSUME NEW p \in Procs, NEW b \in Blocks, GetHit(p, b) PROVE Lru!Next
  <2>1. PICK i \in Ids : block[i] = b /\ ref' = [ref EXCEPT ![i] = @ + 1]
    BY <1>1, Zenon DEF GetHit
  <2>2. i \in Usable
    BY <2>1, IdFacts DEF UseInv, Usable, Inv
  <2>3. B[i] # NoBlock /\ R' = [R EXCEPT ![i] = @ + 1] /\ B' = B
    <3>1. B[i] # NoBlock
      BY <2>1, <2>2, IdFacts
    <3>2. B' = B
      BY <1>1 DEF GetHit
    <3>3. R' = [R EXCEPT ![i] = @ + 1]
      BY <2>1, <2>2, Zenon DEF Usable, TypeOK, Inv
    <3> QED
      BY <3>1, <3>2, <3>3
  <2>4. Forward' = Forward
    BY <1>1, SameOrder DEF GetHit
  <2>5. Lru!Take(i)
    BY <2>3, <2>4 DEF Lru!Take, Usable
  <2> QED
    BY <2>2, <2>5 DEF Lru!Next, Usable
<1>2. ASSUME NEW p \in Procs, NEW b \in Blocks, GetMiss(p, b) PROVE Lru!Next \/ UNCHANGED Lru!vars
  <2>1. CASE Panics(p)
    BY <2>1, SameOrder DEF Panics, Lru!vars
  <2>2. ASSUME NEW i \in Ids, Recycles(p, b, i), Victim(i) PROVE Lru!Next
    <3>1. PICK c \in [0..NBUF -> Ids] : Ring(c, next, prev)
      BY DEF ListInv, Inv
    <3>2. Forward = [n \in 1..(NBUF - 1) |-> c[n]]
      BY <3>1, ForwardWalk, IdFacts
    <3>3. PICK k \in 0..(NBUF - 1) :
            c[k] = i /\ \A m \in 1..(NBUF - 1) : m > k => ref[c[m]] > 0
      BY <2>2, <3>1, VictimLast, IdFacts
    <3>4. i \in Usable /\ k \in 1..(NBUF - 1)
      BY <2>2, <3>1, <3>3 DEF Recycles, Ring, Usable
    <3>5. \A m \in 1..(NBUF - 1) : c[m] \in Usable
      BY <3>1, IdFacts DEF Ring, Usable
    <3>6. /\ k \in DOMAIN Forward /\ Forward[k] = i /\ R[i] = 0
          /\ \A m \in DOMAIN Forward : m > k => R[Forward[m]] > 0
      BY <2>2, <3>2, <3>3, <3>4, <3>5 DEF Recycles
    <3>7. /\ \A j \in Usable : B[j] # b
          /\ B' = [B EXCEPT ![i] = b] /\ R' = [R EXCEPT ![i] = 1]
      <4>1. \A j \in Usable : B[j] # b
        BY <1>2, MissCases DEF Usable
      <4>2. B' = [B EXCEPT ![i] = b]
        BY <2>2, Zenon DEF Recycles, Usable, TypeOK, Inv
      <4>3. ref' = [ref EXCEPT ![i] = 1]
        BY <2>2 DEF Recycles
      <4>4. R' = [R EXCEPT ![i] = 1]
        BY <4>3, Zenon DEF Usable, TypeOK, Inv
      <4> QED
        BY <4>1, <4>2, <4>4
    <3>8. Forward' = Forward
      BY <2>2, SameOrder DEF Recycles
    <3>9. Lru!Recycle(i, b)
      BY <3>6, <3>7, <3>8, Zenon DEF Lru!Recycle, Usable
    <3> QED
      BY <3>4, <3>9 DEF Lru!Next, Usable
  <2> QED
    BY <1>2, <2>1, <2>2, MissCases
<1>3. ASSUME UNCHANGED <<next, prev, ref, block>> PROVE UNCHANGED Lru!vars
  BY <1>3, SameOrder DEF Lru!vars
<1>4. ASSUME NEW p \in Procs,
             Lock(p) \/ Read(p) \/ Change(p) \/ Write(p) \/ Unlock(p) \/ KillWakes(p)
      PROVE  UNCHANGED Lru!vars
  BY <1>3, <1>4 DEF Lock, Read, Change, Write, Unlock, KillWakes, metaVars
<1>5. ASSUME NEW p \in Procs, Pin(p) PROVE Lru!Next \/ UNCHANGED Lru!vars
  <2>1. CASE block[id[p]] \in pinned
    BY <1>3, <1>5, <2>1 DEF Pin
  <2>2. CASE block[id[p]] \notin pinned
    <3>0. PICK i \in Ids : i = id[p]
      BY DEF TypeOK, Inv
    <3>1. i \in Usable /\ B[i] # NoBlock
      BY <1>5, <3>0, IdFacts DEF Pin, UseInv, InUse, Usable, Inv
    <3>2. R' = [R EXCEPT ![i] = @ + 1] /\ B' = B
      BY <1>5, <2>2, <3>0, Zenon DEF Pin, Usable, TypeOK, Inv
    <3>3. Forward' = Forward
      BY <1>5, SameOrder DEF Pin
    <3>4. Lru!Take(i)
      BY <3>1, <3>2, <3>3 DEF Lru!Take, Usable
    <3> QED
      BY <3>1, <3>4 DEF Lru!Next, Usable
  <2> QED
    BY <2>1, <2>2
<1>6. ASSUME NEW p \in Procs, WriteUnpin(p) PROVE Lru!Next
  <2>0. PICK i \in Ids : i = id[p]
    BY DEF TypeOK, Inv
  <2>1. i \in Usable /\ R[i] > 1
    <3>1. i \in Usable
      BY <1>6, <2>0 DEF WriteUnpin, UseInv, InUse, Usable, Inv
    <3>2. ref[i] - 2 \in Nat /\ ref[i] \in Nat
      BY <1>6, <2>0, CountedUse DEF WriteUnpin, InUse, TypeOK, Inv
    <3> QED
      BY <3>1, <3>2
  <2>2. R' = [R EXCEPT ![i] = @ - 1] /\ B' = B
    BY <1>6, <2>0, Zenon DEF WriteUnpin, Usable, TypeOK, Inv
  <2>3. Forward' = Forward
    BY <1>6, SameOrder DEF WriteUnpin
  <2>4. Lru!Unpin(i)
    BY <2>1, <2>2, <2>3 DEF Lru!Unpin, Usable
  <2> QED
    BY <2>1, <2>4 DEF Lru!Next, Usable
<1>7. ASSUME NEW p \in Procs, Release(p) PROVE Lru!Next
  <2>0. PICK i \in Ids : i = id[p]
    BY DEF TypeOK, Inv
  <2>1. i \in Usable /\ R[i] > 0
    <3>1. i \in Usable
      BY <1>7, <2>0 DEF Release, UseInv, InUse, Usable, Inv
    <3>2. ref[i] - 1 \in Nat /\ ref[i] \in Nat
      BY <1>7, <2>0, CountedUse DEF Release, InUse, TypeOK, Inv
    <3> QED
      BY <3>1, <3>2
  <2>2. R' = [R EXCEPT ![i] = @ - 1] /\ B' = B
    BY <1>7, <2>0, Zenon DEF Release, Usable, TypeOK, Inv
  <2>3. PICK c \in [0..NBUF -> Ids] : Ring(c, next, prev)
    BY DEF ListInv, Inv
  <2>4. Forward = [n \in 1..(NBUF - 1) |-> c[n]]
    BY <2>3, ForwardWalk, IdFacts
  <2>5. PICK k \in 1..(NBUF - 1) : c[k] = i
    <3>1. PICK k \in 0..(NBUF - 1) : c[k] = i
      BY <2>3 DEF Ring
    <3>2. k # 0
      BY <2>1, <2>3, <3>1 DEF Ring, Usable
    <3> QED
      BY <3>1, <3>2
  <2>6. k \in DOMAIN Forward /\ Forward[k] = i
    BY <2>4, <2>5
  <2>7. Forward' = IF R[i] = 1 THEN Lru!ToFront(k) ELSE Forward
    <3>1. CASE ref[i] = 1
      <4>1. Relink(c[k])
        BY <1>7, <2>0, <2>5, <3>1 DEF Release, TypeOK, Inv
      <4> DEFINE d == [n \in 0..NBUF |-> IF n = 1 THEN c[k]
                         ELSE IF 1 < n /\ n <= k THEN c[n - 1] ELSE c[n]]
      <4>2. Ring(d, next', prev')
        BY <2>3, <4>1, RelinkRing, IdFacts DEF Inv
      <4>3. Forward' = [n \in 1..(NBUF - 1) |-> d[n]]
        BY <4>2, NextForward, IdFacts
      <4>4. Lru!ToFront(k) = [n \in 1..(NBUF - 1) |-> d[n]]
        BY <2>4, IdFacts DEF Lru!ToFront
      <4> QED
        BY <2>1, <3>1, <4>3, <4>4
    <3>2. CASE ref[i] # 1
      <4>1. UNCHANGED <<next, prev>>
        BY <1>7, <2>0, <3>2 DEF Release, TypeOK, Inv
      <4> QED
        BY <2>1, <3>2, <4>1, SameOrder
    <3> QED
      BY <3>1, <3>2
  <2>8. Lru!Drop(i)
    BY <2>1, <2>2, <2>6, <2>7 DEF Lru!Drop, Usable
  <2> QED
    BY <2>1, <2>8 DEF Lru!Next, Usable
<1> QED
  BY <1>1, <1>2, <1>4, <1>5, <1>6, <1>7 DEF Next

\* The linked list implements least-recently-used replacement: what get
\* recycles is the unused buffer whose last use ended longest ago.
THEOREM LruRefinement == Spec => ImplementsLru
<1>1. Inv /\ [Next]_vars => [Lru!Next]_Lru!vars
  <2> SUFFICES ASSUME Inv, [Next]_vars PROVE [Lru!Next]_Lru!vars
    OBVIOUS
  <2>1. CASE UNCHANGED vars
    BY <2>1, SameOrder DEF vars, metaVars, Lru!vars
  <2> QED
    BY <2>1, LruStep
<1> QED
  BY <1>1, ForwardInit, Invariance, PTL DEF Spec, ImplementsLru, Lru!Spec
=============================================================================
