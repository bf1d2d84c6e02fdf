---------------------------- MODULE VirtioProofs ----------------------------
(***************************************************************************)
(* Proofs about VirtioDisk: for any number of processes and buffers, any   *)
(* ring size from three on and any width of the indices, the device        *)
(* transfers only for processes that still wait, every completion finds    *)
(* its process, and nobody sleeps without a waker.                         *)
(*                                                                         *)
(* The rings are treated as queues (PushQueue, PopQueue): the indices may  *)
(* wrap, and there is room because the entries are different descriptors.  *)
(***************************************************************************)
EXTENDS VirtioDisk, FiniteSetTheorems, TLAPS

-----------------------------------------------------------------------------
(* Arithmetic of the rings.                                                *)

\* % as the provers take it best: known by the three lemmas that follow only.
Rem(a, n) == a % n

\* The remainder of a number that is at most once too large.
LEMMA Remainder ==
  ASSUME NEW n \in Nat \ {0}
  PROVE  /\ \A a \in 0..(n - 1) : Rem(a, n) = a
         /\ \A a \in n..(2 * n - 1) : Rem(a, n) = a - n
         /\ \A a \in Int : Rem(a, n) \in 0..(n - 1)
BY DEF Rem

\* Numbers less than n apart have different remainders.
LEMMA Apart ==
  ASSUME NEW n \in Nat \ {0}, NEW a \in Nat, NEW b \in Nat, a < b, b < a + n
  PROVE  Rem(a, n) # Rem(b, n)
<1> SUFFICES ASSUME a % n = b % n PROVE FALSE
  BY DEF Rem
<1> DEFINE k == (b \div n) - (a \div n)
<1>1. k \in Int /\ b - a = k * n
  <2>1. a = (a \div n) * n + (a % n) /\ b = (b \div n) * n + (b % n)
    OBVIOUS
  <2>2. a \div n \in Int /\ b \div n \in Int
    OBVIOUS
  <2> QED
    OBVIOUS
<1>2. \A x \in Int : (x <= 0 => x * n <= 0) /\ (x >= 1 => x * n >= n)
  OBVIOUS
<1> HIDE DEF k
<1>3. k <= 0 \/ k >= 1
  BY <1>1
<1>4. k * n <= 0 \/ k * n >= n
  BY <1>1
<1>5. b - a > 0 /\ b - a < n
  OBVIOUS
<1> QED
  BY <1>1

\* A multiple of n does not change the remainder.
LEMMA Multiple ==
  ASSUME NEW n \in Nat \ {0}, NEW m \in Nat, m % n = 0, NEW a \in Nat, a >= m
  PROVE  Rem(a - m, n) = Rem(a, n)
<1>1. m = (m \div n) * n /\ m \div n \in Int
  OBVIOUS
<1>2. a = (a \div n) * n + (a % n) /\ a \div n \in Int /\ a % n \in 0..(n - 1)
  OBVIOUS
<1> DEFINE q == (a \div n) - (m \div n)
<1>3. a - m = q * n + (a % n) /\ q \in Int
  OBVIOUS
<1>4. \A p \in Int, r \in 0..(n - 1) : (p * n + r) % n = r
  OBVIOUS
<1> QED
  BY <1>2, <1>3, <1>4, Zenon DEF Rem

\* The two moduli, and the ring operators in terms of Rem.
LEMMA Moduli ==
  /\ IDX \in Nat \ {0} /\ NUM \in Nat \ {0} /\ IDX > NUM
  /\ \A a \in Nat : a >= IDX => Rem(a - IDX, NUM) = Rem(a, NUM)
  /\ \A a \in Int : Rem(a, IDX) \in 0..(IDX - 1) /\ Rem(a, NUM) \in Desc
  /\ \A i, j : Entries(i, j) = Rem((j - i) + IDX, IDX)
<1>1. IDX \in Nat \ {0} /\ NUM \in Nat \ {0} /\ IDX > NUM /\ IDX % NUM = 0
  BY VirtioAssumption
<1>2. \A a \in Nat : a >= IDX => Rem(a - IDX, NUM) = Rem(a, NUM)
  BY <1>1, Multiple, Zenon
<1>3. \A a \in Int : Rem(a, IDX) \in 0..(IDX - 1) /\ Rem(a, NUM) \in Desc
  BY <1>1, Remainder, Zenon DEF Desc
<1>4. \A i, j : Entries(i, j) = Rem((j - i) + IDX, IDX)
  BY DEF Entries, Rem
<1> QED
  BY <1>1, <1>2, <1>3, <1>4

\* Entry n after position i of a ring.
Slot(ring, i, n) == ring[Rem(i + n, NUM)]

\* A ring with x stored at index j.
Stored(ring, j, x) == [ring EXCEPT ![Rem(j, NUM)] = x]

\* How many entries a ring has between two indices.
LEMMA EntriesIs ==
  ASSUME NEW i \in 0..(IDX - 1), NEW j \in 0..(IDX - 1)
  PROVE  /\ Entries(i, j) = (IF i <= j THEN j - i ELSE (j - i) + IDX)
         /\ Entries(i, j) \in 0..(IDX - 1)
<1>1. CASE i <= j
  <2>1. (j - i) + IDX \in IDX..(2 * IDX - 1)
    BY <1>1, Moduli
  <2>2. Rem((j - i) + IDX, IDX) = ((j - i) + IDX) - IDX
    BY <2>1, Moduli, Remainder
  <2>3. Entries(i, j) = j - i
    BY <2>2, Moduli
  <2> QED
    BY <2>3, Moduli
<1>2. CASE i > j
  <2>1. (j - i) + IDX \in 0..(IDX - 1)
    BY <1>2, Moduli
  <2>2. Rem((j - i) + IDX, IDX) = (j - i) + IDX
    BY <2>1, Moduli, Remainder
  <2> QED
    BY <2>2, Moduli
<1> QED
  BY <1>1, <1>2

\* The index after i.
LEMMA NextIndex ==
  ASSUME NEW i \in 0..(IDX - 1)
  PROVE  /\ Rem(i + 1, IDX) = (IF i = IDX - 1 THEN 0 ELSE i + 1)
         /\ Rem(i + 1, IDX) \in 0..(IDX - 1)
<1>1. CASE i = IDX - 1
  <2>1. i + 1 \in IDX..(2 * IDX - 1)
    BY <1>1, Moduli
  <2>2. Rem(i + 1, IDX) = (i + 1) - IDX
    BY <2>1, Moduli, Remainder
  <2>3. Rem(i + 1, IDX) = 0
    BY <2>2, Moduli
  <2> QED
    BY <1>1, <2>3
<1>2. CASE i # IDX - 1
  <2>1. i + 1 \in 0..(IDX - 1)
    BY <1>2, Moduli
  <2>2. Rem(i + 1, IDX) = i + 1
    BY <2>1, Moduli, Remainder
  <2> QED
    BY <2>1, <2>2
<1> QED
  BY <1>1, <1>2

\* A ring with room takes one entry more, and keeps the ones it has.
LEMMA Push ==
  ASSUME NEW i \in 0..(IDX - 1), NEW j \in 0..(IDX - 1), Entries(i, j) < NUM,
         NEW ring \in [Desc -> Desc], NEW x \in Desc
  PROVE  /\ Stored(ring, j, x) \in [Desc -> Desc]
         /\ Entries(i, Rem(j + 1, IDX)) = Entries(i, j) + 1
         /\ \A n \in 0..(Entries(i, j) - 1) : Slot(Stored(ring, j, x), i, n) = Slot(ring, i, n)
         /\ Slot(Stored(ring, j, x), i, Entries(i, j)) = x
<1> DEFINE e == Entries(i, j)
           new == Stored(ring, j, x)
           k == Rem(j + 1, IDX)
<1>1. e = (IF i <= j THEN j - i ELSE (j - i) + IDX) /\ e \in 0..(IDX - 1)
  BY EntriesIs
<1>2. k = (IF j = IDX - 1 THEN 0 ELSE j + 1) /\ k \in 0..(IDX - 1)
  BY NextIndex
<1>3. Entries(i, k) = e + 1
  <2> HIDE DEF k
  <2>1. Entries(i, k) = IF i <= k THEN k - i ELSE (k - i) + IDX
    BY <1>2, EntriesIs, Zenon
  <2> HIDE DEF e
  <2> QED
    BY <1>1, <1>2, <2>1, Moduli DEF e
<1>4. Rem(j, NUM) = Rem(i + e, NUM)
  <2> HIDE DEF e
  <2>1. CASE i <= j
    <3>1. i + e = j
      BY <1>1, <2>1
    <3> QED
      BY <3>1
  <2>2. CASE i > j
    <3>1. i + e \in Nat /\ i + e >= IDX /\ (i + e) - IDX = j
      BY <1>1, <2>2, Moduli
    <3>2. Rem((i + e) - IDX, NUM) = Rem(i + e, NUM)
      BY <3>1, Moduli
    <3> QED
      BY <3>1, <3>2
  <2> QED
    BY <2>1, <2>2
<1>5. \A n \in Nat : Rem(i + n, NUM) \in Desc
  BY Moduli
<1>6. \A n \in 0..(e - 1) : Slot(new, i, n) = Slot(ring, i, n)
  <2> SUFFICES ASSUME NEW n \in 0..(e - 1) PROVE Slot(new, i, n) = Slot(ring, i, n)
    OBVIOUS
  <2>1. i + n \in Nat /\ i + e \in Nat /\ i + n < i + e /\ i + e < (i + n) + NUM
    BY Moduli
  <2>2. Rem(i + n, NUM) # Rem(i + e, NUM)
    BY <2>1, Moduli, Apart
  <2> QED
    BY <1>4, <2>2 DEF Slot, Stored
<1>7. Slot(new, i, e) = x
  BY <1>1, <1>4, <1>5 DEF Slot, Stored
<1>8. new \in [Desc -> Desc]
  BY Zenon DEF Stored
<1> QED
  BY <1>3, <1>6, <1>7, <1>8

\* A ring that is not empty loses its first entry.
LEMMA Pop ==
  ASSUME NEW i \in 0..(IDX - 1), NEW j \in 0..(IDX - 1), i # j, NEW ring
  PROVE  /\ Entries(i, j) > 0 /\ Entries(Rem(i + 1, IDX), j) = Entries(i, j) - 1
         /\ \A n \in Nat : Slot(ring, Rem(i + 1, IDX), n) = Slot(ring, i, n + 1)
         /\ ring[Rem(i, NUM)] = Slot(ring, i, 0)
<1> DEFINE k == Rem(i + 1, IDX)
<1>1. k = (IF i = IDX - 1 THEN 0 ELSE i + 1) /\ k \in 0..(IDX - 1)
  BY NextIndex
<1> HIDE DEF k
<1>2. Entries(i, j) > 0 /\ Entries(k, j) = Entries(i, j) - 1
  <2>1. /\ Entries(i, j) = (IF i <= j THEN j - i ELSE (j - i) + IDX)
        /\ Entries(k, j) = (IF k <= j THEN j - k ELSE (j - k) + IDX)
    BY <1>1, EntriesIs, Zenon
  <2> QED
    BY <1>1, <2>1, Moduli
<1>3. ASSUME NEW n \in Nat PROVE Slot(ring, k, n) = Slot(ring, i, n + 1)
  <2>1. CASE i = IDX - 1
    <3>1. i + (n + 1) \in Nat /\ i + (n + 1) >= IDX /\ (i + (n + 1)) - IDX = k + n
      BY <1>1, <2>1, Moduli
    <3>2. Rem((i + (n + 1)) - IDX, NUM) = Rem(i + (n + 1), NUM)
      BY <3>1, Moduli
    <3> QED
      BY <3>1, <3>2 DEF Slot
  <2>2. CASE i # IDX - 1
    <3>1. k + n = i + (n + 1)
      BY <1>1, <2>2
    <3> QED
      BY <3>1 DEF Slot
  <2> QED
    BY <2>1, <2>2
<1>4. ring[Rem(i, NUM)] = Slot(ring, i, 0)
  <2>1. i + 0 = i
    OBVIOUS
  <2> QED
    BY DEF Slot
<1> QED
  BY <1>2, <1>3, <1>4 DEF k

\* The entries of a ring between two indices, and that no two are the same.
Queue(ring, i, j) == {Slot(ring, i, n) : n \in 0..(Entries(i, j) - 1)}
Distinct(ring, i, j) ==
  \A n, m \in 0..(Entries(i, j) - 1) : Slot(ring, i, n) = Slot(ring, i, m) => n = m

\* The queue between two indices that are equal.
LEMMA EmptyQueue ==
  ASSUME NEW i \in 0..(IDX - 1), NEW ring
  PROVE  Queue(ring, i, i) = {} /\ Distinct(ring, i, i)
<1>1. Entries(i, i) = 0
  BY EntriesIs
<1> QED
  BY <1>1 DEF Queue, Distinct

\* The size of an interval from 0 on.
LEMMA Interval == \A n \in Nat : IsFiniteSet(0..(n - 1)) /\ Cardinality(0..(n - 1)) = n
<1> SUFFICES ASSUME NEW n \in Nat
             PROVE  IsFiniteSet(0..(n - 1)) /\ Cardinality(0..(n - 1)) = n
  OBVIOUS
<1> DEFINE b == n - 1
<1>1. 0 \in Int /\ b \in Int
  OBVIOUS
<1>2. IsFiniteSet(0..b) /\ Cardinality(0..b) = IF 0 > b THEN 0 ELSE b - 0 + 1
  <2> HIDE DEF b
  <2> QED
    BY <1>1, FS_Interval, Zenon
<1> QED
  BY <1>2

\* A ring that holds different descriptors, and not all of them, has room.
LEMMA Room ==
  ASSUME NEW i \in 0..(IDX - 1), NEW j \in 0..(IDX - 1), NEW ring \in [Desc -> Desc],
         Distinct(ring, i, j), NEW x \in Desc, x \notin Queue(ring, i, j)
  PROVE  Entries(i, j) < NUM
<1> DEFINE e == Entries(i, j)
           S == 0..(e - 1)
           T == Desc \ {x}
           f == [n \in S |-> Slot(ring, i, n)]
<1>1. e \in Nat
  BY EntriesIs
<1>2. IsFiniteSet(S) /\ Cardinality(S) = e
  BY <1>1, Interval
<1>3. IsFiniteSet(T) /\ Cardinality(T) = NUM - 1
  <2>1. IsFiniteSet(Desc) /\ Cardinality(Desc) = NUM
    BY Interval, Moduli DEF Desc
  <2> QED
    BY <2>1, FS_RemoveElement
<1>4. f \in [S -> T]
  <2> SUFFICES ASSUME NEW n \in S PROVE Slot(ring, i, n) \in Desc /\ Slot(ring, i, n) # x
    OBVIOUS
  <2>1. i + n \in Int
    OBVIOUS
  <2>2. Slot(ring, i, n) \in Desc
    BY Moduli DEF Slot
  <2> QED
    BY <2>2 DEF Queue
<1>5. \A n, m \in S : f[n] = f[m] => n = m
  BY DEF Distinct
<1> HIDE DEF e, S, T, f
<1>6. ~(Cardinality(T) < Cardinality(S))
  BY <1>2, <1>3, <1>4, <1>5, FS_PigeonHole
<1>7. e < NUM
  BY <1>1, <1>2, <1>3, <1>6, Moduli
<1> QED
  BY <1>7 DEF e

\* A queue of different entries has as many as its indices say.
LEMMA QueueSize ==
  ASSUME NEW i \in 0..(IDX - 1), NEW j \in 0..(IDX - 1), NEW ring, Distinct(ring, i, j)
  PROVE  Cardinality(Queue(ring, i, j)) = Entries(i, j)
<1> DEFINE e == Entries(i, j)
           S == 0..(e - 1)
           T == Queue(ring, i, j)
           f == [n \in S |-> Slot(ring, i, n)]
<1>1. e \in Nat
  BY EntriesIs
<1>2. IsFiniteSet(S) /\ Cardinality(S) = e
  BY <1>1, Interval
<1>3. f \in [S -> T] /\ \A t \in T : \E n \in S : f[n] = t
  BY DEF Queue
<1>4. \A n, m \in S : f[n] = f[m] => n = m
  BY DEF Distinct
<1> HIDE DEF e, S, T, f
<1>5. f \in Injection(S, T) /\ f \in Surjection(S, T)
  BY <1>3, <1>4 DEF Injection, Surjection, IsInjective
<1>6. Cardinality(T) = Cardinality(S)
  BY <1>2, <1>5, FS_Surjection
<1> QED
  BY <1>2, <1>6 DEF e, T

\* Publishing an entry that is not there.
LEMMA PushQueue ==
  ASSUME NEW i \in 0..(IDX - 1), NEW j \in 0..(IDX - 1), NEW ring \in [Desc -> Desc],
         Distinct(ring, i, j), NEW x \in Desc, x \notin Queue(ring, i, j)
  PROVE  /\ Rem(j + 1, IDX) \in 0..(IDX - 1) /\ Stored(ring, j, x) \in [Desc -> Desc]
         /\ Distinct(Stored(ring, j, x), i, Rem(j + 1, IDX))
         /\ Queue(Stored(ring, j, x), i, Rem(j + 1, IDX)) = Queue(ring, i, j) \cup {x}
<1> DEFINE new == Stored(ring, j, x)
           k == Rem(j + 1, IDX)
           e == Entries(i, j)
<1>1. /\ new \in [Desc -> Desc] /\ Entries(i, k) = e + 1
      /\ \A n \in 0..(e - 1) : Slot(new, i, n) = Slot(ring, i, n)
      /\ Slot(new, i, e) = x
  <2>1. e < NUM
    BY Room
  <2> QED
    BY <2>1, Push
<1>2. k \in 0..(IDX - 1) /\ e \in Nat
  BY NextIndex, EntriesIs
<1> HIDE DEF new, k
<1>3. \A n \in 0..(Entries(i, k) - 1) : n \in 0..(e - 1) \/ n = e
  BY <1>1, <1>2
<1>4. \A n \in 0..(e - 1) : n \in 0..(Entries(i, k) - 1) /\ n # e
  BY <1>1, <1>2
<1>5. e \in 0..(Entries(i, k) - 1)
  BY <1>1, <1>2
<1>6. \A n \in 0..(e - 1) : Slot(new, i, n) # x
  BY <1>1 DEF Queue
<1>7. Distinct(new, i, k)
  BY <1>1, <1>3, <1>6 DEF Distinct
<1>8. Queue(new, i, k) = Queue(ring, i, j) \cup {x}
  <2>1. ASSUME NEW h \in Queue(new, i, k) PROVE h \in Queue(ring, i, j) \cup {x}
    BY <1>1, <1>3 DEF Queue
  <2>2. ASSUME NEW h \in Queue(ring, i, j) PROVE h \in Queue(new, i, k)
    BY <1>1, <1>4 DEF Queue
  <2>3. x \in Queue(new, i, k)
    BY <1>1, <1>5 DEF Queue
  <2> QED
    BY <2>1, <2>2, <2>3
<1> QED
  BY <1>1, <1>2, <1>7, <1>8 DEF new, k

\* Taking the first entry.
LEMMA PopQueue ==
  ASSUME NEW i \in 0..(IDX - 1), NEW j \in 0..(IDX - 1), i # j, NEW ring,
         Distinct(ring, i, j)
  PROVE  /\ Rem(i + 1, IDX) \in 0..(IDX - 1)
         /\ ring[Rem(i, NUM)] \in Queue(ring, i, j)
         /\ Distinct(ring, Rem(i + 1, IDX), j)
         /\ Queue(ring, Rem(i + 1, IDX), j) = Queue(ring, i, j) \ {ring[Rem(i, NUM)]}
<1> DEFINE k == Rem(i + 1, IDX)
           e == Entries(i, j)
           x == ring[Rem(i, NUM)]
<1>1. /\ e > 0 /\ Entries(k, j) = e - 1 /\ x = Slot(ring, i, 0)
      /\ \A n \in Nat : Slot(ring, k, n) = Slot(ring, i, n + 1)
  BY Pop
<1>2. k \in 0..(IDX - 1) /\ e \in Nat
  BY NextIndex, EntriesIs
<1> HIDE DEF k, x
<1>3. \A n \in 0..(Entries(k, j) - 1) : n \in Nat /\ n + 1 \in 0..(e - 1) /\ n + 1 # 0
  BY <1>1, <1>2
<1>4. \A n \in 0..(e - 1) : n # 0 => n - 1 \in 0..(Entries(k, j) - 1) /\ (n - 1) + 1 = n
  BY <1>1, <1>2
<1>5. 0 \in 0..(e - 1)
  BY <1>1, <1>2
<1>6. Distinct(ring, k, j)
  <2> SUFFICES ASSUME NEW n \in 0..(Entries(k, j) - 1), NEW m \in 0..(Entries(k, j) - 1),
                      Slot(ring, k, n) = Slot(ring, k, m)
               PROVE  n = m
    BY DEF Distinct
  <2>1. n + 1 = m + 1
    BY <1>1, <1>3 DEF Distinct
  <2> QED
    BY <2>1
<1>7. Queue(ring, k, j) = Queue(ring, i, j) \ {x}
  <2>1. ASSUME NEW h \in Queue(ring, k, j) PROVE h \in Queue(ring, i, j) /\ h # x
    <3>1. PICK n \in 0..(Entries(k, j) - 1) : h = Slot(ring, k, n)
      BY DEF Queue
    <3>2. n + 1 \in 0..(e - 1) /\ n + 1 # 0 /\ h = Slot(ring, i, n + 1)
      BY <1>1, <1>3, <3>1
    <3> QED
      BY <1>1, <1>5, <3>2 DEF Queue, Distinct
  <2>2. ASSUME NEW h \in Queue(ring, i, j), h # x PROVE h \in Queue(ring, k, j)
    <3>1. PICK n \in 0..(e - 1) : h = Slot(ring, i, n)
      BY DEF Queue
    <3>2. n - 1 \in 0..(Entries(k, j) - 1) /\ (n - 1) + 1 = n
      BY <1>1, <1>4, <2>2, <3>1
    <3>3. h = Slot(ring, k, n - 1)
      BY <1>1, <3>1, <3>2
    <3> QED
      BY <3>2, <3>3 DEF Queue
  <2> QED
    BY <2>1, <2>2
<1>8. x \in Queue(ring, i, j)
  BY <1>1, <1>5 DEF Queue
<1> QED
  BY <1>2, <1>6, <1>7, <1>8 DEF k, x
-----------------------------------------------------------------------------
(* The inductive invariant.                                                *)

\* Requests that are published and not taken, and that are completed and not
\* looked at.
Sent == Queue(avail.ring, seen, avail.idx)
Done == Queue(used.ring, used_idx, used.idx)

Waiters == {p \in Procs : pc[p] = "wait"}

\* Who is in rw has a buffer, which is nobody else's.
RwInv ==
  /\ \A p \in Procs : pc[p] = "idle" <=> buf[p] = None
  /\ \A p \in Waiters : head[p] \in Desc
  /\ \A p, q \in Procs : p # q /\ buf[p] # None => buf[p] # buf[q]

\* The chain of a request is three descriptors in a row from a multiple of three
\* on, because alloc3_desc takes the lowest free ones and chains are freed as a
\* whole; what no chain has is free.
ChainInv ==
  /\ \A p \in Waiters :
       /\ \E t \in Nat : head[p] = 3 * t
       /\ head[p] + 1 \in Desc /\ head[p] + 2 \in Desc
       /\ next[head[p]] = head[p] + 1 /\ next[head[p] + 1] = head[p] + 2
       /\ next[head[p] + 2] = None
       /\ info[head[p]] = buf[p]
  /\ \A p, q \in Waiters : head[p] = head[q] => p = q
  /\ \A i \in Desc : ~free[i] <=> \E p \in Waiters : i \in head[p]..(head[p] + 2)

\* A request is in one place: published, at the device, completed, or (once
\* handle_interrupt has cleared its buffer's flag) nowhere.
RingInv ==
  /\ Distinct(avail.ring, seen, avail.idx) /\ Distinct(used.ring, used_idx, used.idx)
  /\ Sent \cap inflight = {} /\ Sent \cap Done = {} /\ inflight \cap Done = {}
  /\ \A h \in Sent \cup inflight \cup Done : \E p \in Waiters : head[p] = h
  /\ \A p \in Waiters : disk[buf[p]] <=> head[p] \in Sent \cup inflight \cup Done
  /\ \A p \in Waiters : head[p] \notin Sent \cup inflight => status[head[p]] = 0

\* Who sleeps, and that a completion will be looked at.
WakeInv ==
  /\ \A p \in Waiters : chan[p] # None => chan[p] = buf[p] /\ disk[buf[p]]
  /\ \A p \in Procs : chan[p] = Free0 => ~free[0]
  /\ Done # {} => irq \/ handler

Inv == TypeOK /\ RwInv /\ ChainInv /\ RingInv /\ WakeInv

-----------------------------------------------------------------------------
(* Facts of a state of the invariant.                                      *)

\* A chain is the three descriptors from its head on, and two chains have none
\* in common.
LEMMA ChainIs ==
  ASSUME Inv, NEW p \in Waiters
  PROVE  /\ Chain(head[p]) = {head[p], head[p] + 1, head[p] + 2}
         /\ Chain(head[p]) = head[p]..(head[p] + 2)
         /\ Chain(head[p]) \subseteq Desc
         /\ \A i \in Chain(head[p]) : ~free[i]
         /\ \A q \in Waiters : q # p => Chain(head[p]) \cap (head[q]..(head[q] + 2)) = {}
<1> DEFINE h == head[p]
<1>1. /\ h \in Nat /\ h \in Desc /\ h + 1 \in Desc /\ h + 2 \in Desc
      /\ next[h] = h + 1 /\ next[h + 1] = h + 2 /\ next[h + 2] = None
  BY DEF Inv, RwInv, ChainInv
<1>2. None \notin Nat
  BY VirtioAssumption
<1>3. Chain(h) = {h, h + 1, h + 2}
  BY <1>1, <1>2 DEF Chain
<1>4. {h, h + 1, h + 2} = h..(h + 2)
  BY <1>1
<1>5. \A i \in h..(h + 2) : ~free[i]
  BY <1>1, <1>4 DEF Inv, ChainInv
<1>6. ASSUME NEW q \in Waiters, q # p PROVE (h..(h + 2)) \cap (head[q]..(head[q] + 2)) = {}
  <2>1. PICK t \in Nat, u \in Nat : h = 3 * t /\ head[q] = 3 * u
    BY DEF Inv, ChainInv
  <2>2. h # head[q]
    BY <1>6 DEF Inv, ChainInv
  <2>3. t < u \/ u < t
    BY <2>1, <2>2
  <2> QED
    BY <2>1, <2>3
<1> QED
  BY <1>1, <1>3, <1>5, <1>6

\* The three lowest free descriptors are a chain's worth in a row.
LEMMA AllocIs ==
  ASSUME Inv, NEW i \in Desc, NEW j \in Desc, NEW k \in Desc, Alloc3(i, j, k)
  PROVE  j = i + 1 /\ k = i + 2 /\ \E t \in Nat : i = 3 * t
<1>0. /\ i \in Nat /\ j \in Nat /\ k \in Nat /\ i < j /\ j < k
      /\ \A m \in 0..(k - 1) : m \in Desc
      /\ free[i] /\ free[j] /\ free[k]
      /\ \A m \in Desc : m < k /\ free[m] => m \in {i, j}
  BY Moduli DEF Alloc3, Desc
<1>1. \A m \in Desc :
        ~free[m] => \E u \in Nat : /\ m \in (3 * u)..(3 * u + 2)
                                  /\ \A n \in (3 * u)..(3 * u + 2) : n \in Desc /\ ~free[n]
  <2> SUFFICES ASSUME NEW m \in Desc, ~free[m]
               PROVE  \E u \in Nat : /\ m \in (3 * u)..(3 * u + 2)
                                     /\ \A n \in (3 * u)..(3 * u + 2) : n \in Desc /\ ~free[n]
    OBVIOUS
  <2>1. PICK q \in Waiters : m \in head[q]..(head[q] + 2)
    BY DEF Inv, ChainInv
  <2>2. PICK u \in Nat : head[q] = 3 * u
    BY DEF Inv, ChainInv
  <2> QED
    BY SMTT(60), <2>1, <2>2, ChainIs
<1>2. PICK t \in Nat : 3 * t <= i /\ i <= 3 * t + 2
  <2> DEFINE t == i \div 3
  <2>1. t \in Nat /\ 3 * t <= i /\ i <= 3 * t + 2
    BY <1>0
  <2> QED
    BY <2>1
<1>3. i = 3 * t
  <2> SUFFICES ASSUME i # 3 * t PROVE FALSE
    OBVIOUS
  <2>1. 3 * t \in Desc /\ 3 * t < i /\ 3 * t < k
    BY <1>0, <1>2
  <2>2. ~free[3 * t]
    BY <1>0, <2>1
  <2>3. PICK u \in Nat : /\ 3 * t \in (3 * u)..(3 * u + 2)
                         /\ \A n \in (3 * u)..(3 * u + 2) : n \in Desc /\ ~free[n]
    BY <1>1, <2>1, <2>2
  <2>4. t = u
    BY <2>3
  <2>5. i \in (3 * u)..(3 * u + 2)
    BY <1>0, <1>2, <2>4
  <2> QED
    BY <1>0, <2>3, <2>5
<1>4. ASSUME NEW m \in Desc, m \in {i + 1, i + 2} PROVE free[m]
  <2> SUFFICES ASSUME ~free[m] PROVE FALSE
    OBVIOUS
  <2>1. PICK u \in Nat : /\ m \in (3 * u)..(3 * u + 2)
                         /\ \A n \in (3 * u)..(3 * u + 2) : n \in Desc /\ ~free[n]
    BY <1>1
  <2>2. i \in (3 * u)..(3 * u + 2)
    BY <1>3, <1>4, <2>1
  <2> QED
    BY <1>0, <2>1, <2>2
<1>5. j = i + 1
  <2>1. i + 1 \in Desc /\ i + 1 < k
    BY <1>0
  <2>2. i + 1 \in {i, j}
    BY <1>0, <1>4
  <2> QED
    BY <1>0, <2>2
<1>6. k = i + 2
  <2> SUFFICES ASSUME k # i + 2 PROVE FALSE
    OBVIOUS
  <2>1. i + 2 \in Desc /\ i + 2 < k
    BY <1>0
  <2>2. i + 2 \in {i, j}
    BY <1>0, <1>4
  <2> QED
    BY <1>5, <2>2
<1> QED
  BY <1>3, <1>5, <1>6

\* When alloc3_desc fails descriptor 0 is in use.
LEMMA ZeroInUse == Inv /\ ~CanAlloc3 => ~free[0]
<1> SUFFICES ASSUME Inv, free[0] PROVE CanAlloc3
  OBVIOUS
<1>1. 0 \in Desc /\ 1 \in Desc /\ 2 \in Desc
  BY VirtioAssumption DEF Desc
<1>2. ASSUME NEW m \in {1, 2} PROVE free[m]
  <2> SUFFICES ASSUME ~free[m] PROVE FALSE
    OBVIOUS
  <2>1. PICK q \in Waiters : m \in head[q]..(head[q] + 2)
    BY <1>1 DEF Inv, ChainInv
  <2>2. PICK u \in Nat : head[q] = 3 * u
    BY DEF Inv, ChainInv
  <2>3. 0 \in head[q]..(head[q] + 2)
    BY <2>1, <2>2
  <2> QED
    BY <1>1 DEF Inv, ChainInv
<1>3. Alloc3(0, 1, 2)
  BY <1>2 DEF Alloc3, Desc
<1> QED
  BY <1>1, <1>3 DEF CanAlloc3

\* A request at the device or completed has a waiter that owns its buffer.
LEMMA Owner ==
  ASSUME Inv, NEW h \in Sent \cup inflight \cup Done
  PROVE  /\ \E p \in Waiters : head[p] = h /\ info[h] = buf[p] /\ buf[p] \in Bufs
         /\ h \in Desc /\ ~free[h]
<1>1. PICK p \in Waiters : head[p] = h
  BY DEF Inv, RingInv
<1>2. h \in Desc /\ info[h] = buf[p]
  BY <1>1 DEF Inv, RwInv, ChainInv
<1>3. buf[p] \in Bufs
  BY DEF Inv, TypeOK, RwInv, Waiters
<1>4. ~free[h]
  BY <1>1, ChainIs
<1> QED
  BY <1>1, <1>2, <1>3, <1>4

-----------------------------------------------------------------------------
(* The steps that leave the rings and the chains alone.                    *)

\* Entering rw with a buffer that is nobody's.
LEMMA EnterHolds ==
  ASSUME Inv, NEW p \in Procs, NEW b \in BufsOf[p], RwEnter(p, b) PROVE Inv'
<1>1. b \in Bufs /\ b # None
  BY VirtioAssumption
<1>2. /\ pc[p] = "idle" /\ \A q \in Procs : buf[q] # b
      /\ pc' = [pc EXCEPT ![p] = "alloc"] /\ buf' = [buf EXCEPT ![p] = b]
      /\ UNCHANGED <<descVars, avail, used, used_idx, disk, head, chan, devVars, irq, handler>>
  BY DEF RwEnter
<1>3. TypeOK'
  BY <1>1, <1>2 DEF Inv, TypeOK, descVars, devVars
<1>4. /\ Waiters' = Waiters /\ p \notin Waiters
      /\ \A q \in Procs : q # p => pc'[q] = pc[q] /\ buf'[q] = buf[q]
      /\ pc'[p] = "alloc" /\ buf'[p] = b
  BY <1>2 DEF Inv, TypeOK, Waiters
<1>5. \A q \in Waiters : q \in Procs /\ buf'[q] = buf[q]
  BY <1>4 DEF Waiters
<1>6. Sent' = Sent /\ Done' = Done
  BY <1>2 DEF Sent, Done, devVars
<1>7. RwInv'
  BY <1>2, <1>4 DEF Inv, RwInv
<1>8. ChainInv'
  BY <1>2, <1>4 DEF Inv, ChainInv, descVars
<1>9. RingInv'
  BY <1>2, <1>4, <1>6 DEF Inv, RingInv, descVars, devVars
<1>10. WakeInv'
  BY <1>2, <1>4, <1>6 DEF Inv, WakeInv, descVars
<1> QED
  BY <1>3, <1>7, <1>8, <1>9, <1>10 DEF Inv

\* Steps that change nothing but channels and the interrupt keep the invariant
\* when they keep WakeInv.
LEMMA QuietHolds ==
  ASSUME Inv, UNCHANGED <<descVars, avail, used, used_idx, disk, procVars, devVars>>,
         chan' \in [Procs -> Bufs \cup {Free0, None}], irq' \in BOOLEAN, handler' \in BOOLEAN,
         \A p \in Waiters : chan'[p] # None => chan'[p] = buf[p] /\ disk[buf[p]],
         \A p \in Procs : chan'[p] = Free0 => ~free[0],
         Done # {} => irq' \/ handler'
  PROVE  Inv'
<1>1. TypeOK'
  BY DEF Inv, TypeOK, descVars, procVars, devVars
<1>2. Waiters' = Waiters /\ Sent' = Sent /\ Done' = Done
  BY DEF Waiters, Sent, Done, procVars, devVars
<1>3. RwInv' /\ ChainInv'
  BY <1>2 DEF Inv, RwInv, ChainInv, descVars, procVars
<1>4. RingInv'
  BY <1>2 DEF Inv, RingInv, descVars, procVars, devVars
<1>5. WakeInv'
  BY <1>2 DEF WakeInv, descVars, procVars
<1> QED
  BY <1>1, <1>3, <1>4, <1>5 DEF Inv

\* The steps of rw that only sleep, kill, and the ends of the handler.
LEMMA SleepHolds ==
  ASSUME Inv, NEW p \in Procs, RwNoDesc(p) \/ RwSleepAgain(p) \/ KillWakes(p) PROVE Inv'
<1>0. /\ UNCHANGED <<descVars, avail, used, used_idx, disk, procVars, devVars>>
      /\ irq' \in BOOLEAN /\ handler' \in BOOLEAN /\ (Done # {} => irq' \/ handler')
  BY DEF RwNoDesc, RwSleepAgain, KillWakes, Inv, TypeOK, WakeInv
<1>1. CASE RwNoDesc(p)
  <2> DEFINE w == Woken(chan, {i \in Desc : free[i]})
  <2>1. pc[p] = "alloc" /\ ~CanAlloc3 /\ chan' = [w EXCEPT ![p] = Free0]
    BY <1>1 DEF RwNoDesc
  <2>2. w \in [Procs -> Bufs \cup {Free0, None}] /\ \A q \in Procs : w[q] \in {chan[q], None}
    BY DEF Woken, Inv, TypeOK
  <2> HIDE DEF w
  <2>3. /\ chan' \in [Procs -> Bufs \cup {Free0, None}]
        /\ \A q \in Waiters : q \in Procs /\ q # p /\ chan'[q] \in {chan[q], None}
    BY <2>1, <2>2 DEF Waiters
  <2>4. ~free[0]
    BY <2>1, ZeroInUse
  <2> QED
    BY <1>0, <2>3, <2>4, QuietHolds, ZenonT(60) DEF Inv, WakeInv
<1>2. CASE RwSleepAgain(p)
  <2>1. pc[p] = "wait" /\ disk[buf[p]] /\ chan' = [chan EXCEPT ![p] = buf[p]]
    BY <1>2 DEF RwSleepAgain
  <2>2. buf[p] \in Bufs /\ buf[p] # Free0
    BY <2>1, VirtioAssumption DEF Inv, TypeOK, RwInv
  <2>3. /\ chan' \in [Procs -> Bufs \cup {Free0, None}]
        /\ \A q \in Procs : chan'[q] = IF q = p THEN buf[p] ELSE chan[q]
    BY <2>1 DEF Inv, TypeOK
  <2>4. \A q \in Waiters : q \in Procs
    BY DEF Waiters
  <2> QED
    BY <1>0, <2>1, <2>2, <2>3, QuietHolds DEF Inv, WakeInv
<1>3. CASE KillWakes(p)
  <2>1. chan' = [chan EXCEPT ![p] = None]
    BY <1>3 DEF KillWakes
  <2>2. /\ chan' \in [Procs -> Bufs \cup {Free0, None}]
        /\ \A q \in Procs : chan'[q] = IF q = p THEN None ELSE chan[q]
    BY <2>1 DEF Inv, TypeOK
  <2>3. None # Free0 /\ \A q \in Waiters : q \in Procs
    BY VirtioAssumption DEF Waiters
  <2> QED
    BY <1>0, <2>2, <2>3, QuietHolds, Zenon DEF Inv, WakeInv
<1> QED
  BY <1>1, <1>2, <1>3

\* handle_interrupt acknowledges, and returns when it has seen every completion.
LEMMA IntrEndsHold == ASSUME Inv, IntrAck \/ IntrReturn PROVE Inv'
<1>1. /\ UNCHANGED <<descVars, avail, used, used_idx, disk, procVars, devVars, chan>>
      /\ irq' \in BOOLEAN /\ handler' \in BOOLEAN
  BY Zenon DEF IntrAck, IntrReturn, Inv, TypeOK
<1>2. Done # {} => irq' \/ handler'
  <2>1. CASE IntrAck
    BY <2>1 DEF IntrAck
  <2>2. CASE IntrReturn
    BY <2>2, EmptyQueue DEF IntrReturn, Done, Inv, TypeOK
  <2> QED
    BY <2>1, <2>2
<1> QED
  BY <1>1, <1>2, QuietHolds, Zenon DEF Inv, TypeOK, WakeInv

-----------------------------------------------------------------------------
(* The steps that move a request.                                          *)

\* rw publishes a chain of free descriptors.
LEMMA SubmitHolds == ASSUME Inv, NEW p \in Procs, RwSubmit(p) PROVE Inv'
<1>1. PICK i \in Desc, j \in Desc, k \in Desc :
        /\ Alloc3(i, j, k)
        /\ free' = [free EXCEPT ![i] = FALSE, ![j] = FALSE, ![k] = FALSE]
        /\ next' = [next EXCEPT ![i] = j, ![j] = k, ![k] = None]
        /\ info' = [info EXCEPT ![i] = buf[p]]
        /\ status' = [status EXCEPT ![i] = 255]
        /\ avail' = [idx |-> (avail.idx + 1) % IDX,
                     ring |-> [avail.ring EXCEPT ![avail.idx % NUM] = i]]
        /\ head' = [head EXCEPT ![p] = i]
  BY ZenonT(60) DEF RwSubmit
<1>2. /\ pc[p] = "alloc" /\ chan[p] = None
      /\ disk' = [disk EXCEPT ![buf[p]] = TRUE]
      /\ pc' = [pc EXCEPT ![p] = "wait"] /\ chan' = [chan EXCEPT ![p] = buf[p]]
      /\ UNCHANGED <<used, used_idx, buf, devVars, irq, handler>>
  BY DEF RwSubmit
<1>3. j = i + 1 /\ k = i + 2 /\ \E t \in Nat : i = 3 * t
  BY <1>1, AllocIs
<1>4. free[i] /\ free[j] /\ free[k] /\ i \in Nat /\ i # j /\ j # k /\ i # k
  BY <1>1, <1>3 DEF Alloc3
<1>5. buf[p] \in Bufs /\ buf[p] # None /\ buf[p] # Free0
  BY <1>2, VirtioAssumption DEF Inv, TypeOK, RwInv
<1>6. i \notin Sent \cup inflight \cup Done
  BY <1>4, Owner
<1>7. /\ avail'.idx = Rem(avail.idx + 1, IDX) /\ avail'.ring = Stored(avail.ring, avail.idx, i)
      /\ avail' = [idx |-> avail'.idx, ring |-> avail'.ring]
  BY <1>1 DEF Rem, Stored
<1>8. /\ avail.idx \in 0..(IDX - 1) /\ avail.ring \in [Desc -> Desc] /\ seen \in 0..(IDX - 1)
      /\ Distinct(avail.ring, seen, avail.idx) /\ i \notin Queue(avail.ring, seen, avail.idx)
  BY <1>6 DEF Inv, TypeOK, RingInv, Sent
<1>9. /\ avail'.idx \in 0..(IDX - 1) /\ avail'.ring \in [Desc -> Desc]
      /\ Distinct(avail'.ring, seen, avail'.idx)
      /\ Queue(avail'.ring, seen, avail'.idx) = Queue(avail.ring, seen, avail.idx) \cup {i}
  BY <1>7, <1>8, PushQueue
<1>10. /\ Sent' = Sent \cup {i} /\ Done' = Done
  BY <1>2, <1>9 DEF Sent, Done, devVars
<1>11. /\ Waiters' = Waiters \cup {p} /\ p \notin Waiters /\ \A q \in Waiters : q \in Procs
       /\ head'[p] = i /\ chan'[p] = buf[p] /\ pc'[p] = "wait"
       /\ \A q \in Procs : q # p => head'[q] = head[q] /\ chan'[q] = chan[q] /\ pc'[q] = pc[q]
  <2>1. DOMAIN head = Procs /\ DOMAIN chan = Procs /\ DOMAIN pc = Procs
    BY DEF Inv, TypeOK
  <2>2. /\ head'[p] = i /\ chan'[p] = buf[p] /\ pc'[p] = "wait"
        /\ \A q \in Procs : q # p => head'[q] = head[q] /\ chan'[q] = chan[q] /\ pc'[q] = pc[q]
    BY <1>1, <1>2, <2>1
  <2> QED
    BY <1>2, <2>2 DEF Waiters
<1>12. TypeOK'
  <2>1. avail' \in [idx : 0..(IDX - 1), ring : [Desc -> Desc]]
    BY <1>7, <1>9
  <2>2. free' \in [Desc -> BOOLEAN]
    BY <1>1, ZenonT(60) DEF Inv, TypeOK
  <2>3. /\ next' \in [Desc -> Desc \cup {None}] /\ info' \in [Desc -> Bufs \cup {None}]
        /\ status' \in [Desc -> {0, 255}]
    BY <1>1, <1>5 DEF Inv, TypeOK
  <2>4. disk' \in [Bufs -> BOOLEAN]
    BY <1>2, <1>5 DEF Inv, TypeOK
  <2> QED
    BY <1>1, <1>2, <1>5, <2>1, <2>2, <2>3, <2>4, ZenonT(60) DEF Inv, TypeOK, devVars
<1>13. /\ \A m \in Desc : m \notin {i, j, k} => free'[m] = free[m] /\ next'[m] = next[m]
       /\ \A m \in Desc : m # i => info'[m] = info[m] /\ status'[m] = status[m]
       /\ ~free'[i] /\ ~free'[j] /\ ~free'[k]
       /\ next'[i] = j /\ next'[j] = k /\ next'[k] = None /\ info'[i] = buf[p]
  <2>1. free \in [Desc -> BOOLEAN] /\ next \in [Desc -> Desc \cup {None}]
    BY DEF Inv, TypeOK
  <2>2. info \in [Desc -> Bufs \cup {None}] /\ status \in [Desc -> {0, 255}]
    BY DEF Inv, TypeOK
  <2>3. /\ \A m \in Desc : m \notin {i, j, k} => free'[m] = free[m]
        /\ ~free'[i] /\ ~free'[j] /\ ~free'[k]
    BY ZenonT(60), <1>1, <2>1
  <2>4. /\ \A m \in Desc : m \notin {i, j, k} => next'[m] = next[m]
        /\ next'[i] = j /\ next'[j] = k /\ next'[k] = None
    BY <1>1, <2>1
  <2>5. /\ \A m \in Desc : m # i => info'[m] = info[m] /\ status'[m] = status[m]
        /\ info'[i] = buf[p]
    BY <1>1, <2>2
  <2> QED
    BY ZenonT(60), <2>3, <2>4, <2>5
<1>14. /\ disk'[buf[p]] /\ \A q \in Waiters : disk'[buf[q]] = disk[buf[q]] /\ buf[q] # buf[p]
  <2>1. \A q \in Waiters : buf[q] \in Bufs /\ buf[q] # buf[p]
    BY <1>11 DEF Inv, TypeOK, RwInv, Waiters
  <2>2. disk \in [Bufs -> BOOLEAN]
    BY DEF Inv, TypeOK
  <2>3. disk'[buf[p]] /\ \A b \in Bufs : b # buf[p] => disk'[b] = disk[b]
    BY <1>2, <1>5, <2>2
  <2> QED
    BY <2>1, <2>3
<1>15. \A q \in Waiters : /\ head[q] \in Desc /\ head[q] + 1 \in Desc /\ head[q] + 2 \in Desc
                          /\ head[q] \notin {i, j, k} /\ head[q] + 1 \notin {i, j, k}
                          /\ head[q] + 2 \notin {i, j, k}
  <2> SUFFICES ASSUME NEW q \in Waiters, NEW m \in {head[q], head[q] + 1, head[q] + 2}
               PROVE  m \in Desc /\ m \notin {i, j, k}
    BY Zenon
  <2>1. m \in Desc /\ ~free[m]
    BY ZenonT(60), ChainIs
  <2> QED
    BY <1>4, <2>1
<1>16. RwInv'
  BY <1>2, <1>11 DEF Inv, RwInv
<1>17. ChainInv'
  <2>1. ASSUME NEW q \in Waiters
        PROVE  /\ \E t \in Nat : head'[q] = 3 * t
               /\ head'[q] + 1 \in Desc /\ head'[q] + 2 \in Desc
               /\ next'[head'[q]] = head'[q] + 1 /\ next'[head'[q] + 1] = head'[q] + 2
               /\ next'[head'[q] + 2] = None /\ info'[head'[q]] = buf'[q]
    <3>1. head'[q] = head[q] /\ buf'[q] = buf[q]
      BY <1>2, <1>11
    <3> QED
      BY <1>13, <1>15, <3>1 DEF Inv, ChainInv
  <2>2. \A q, r \in Waiters' : head'[q] = head'[r] => q = r
    BY <1>11, <1>15 DEF Inv, ChainInv
  <2>3. ASSUME NEW m \in Desc
        PROVE  ~free'[m] <=> \E q \in Waiters' : m \in head'[q]..(head'[q] + 2)
    <3>1. m \in {i, j, k} <=> m \in head'[p]..(head'[p] + 2)
      BY <1>3, <1>11
    <3>2. \A q \in Waiters : head'[q] = head[q]
      BY <1>11
    <3>3. CASE m \in {i, j, k}
      BY <1>11, <1>13, <3>1, <3>3
    <3>4. CASE m \notin {i, j, k}
      <4>1. ~free[m] <=> \E q \in Waiters : m \in head[q]..(head[q] + 2)
        BY DEF Inv, ChainInv
      <4> QED
        BY <1>11, <1>13, <3>1, <4>1
    <3> QED
      BY <3>3, <3>4
  <2>4. /\ \E t \in Nat : head'[p] = 3 * t
        /\ head'[p] + 1 \in Desc /\ head'[p] + 2 \in Desc
        /\ next'[head'[p]] = head'[p] + 1 /\ next'[head'[p] + 1] = head'[p] + 2
        /\ next'[head'[p] + 2] = None /\ info'[head'[p]] = buf'[p]
    BY <1>2, <1>3, <1>11, <1>13
  <2> QED
    BY <1>11, <2>1, <2>2, <2>3, <2>4 DEF ChainInv
<1>18. RingInv'
  <2>1. Distinct(avail.ring, seen, avail.idx)' /\ Distinct(used.ring, used_idx, used.idx)'
    BY <1>2, <1>9 DEF Inv, RingInv, devVars
  <2>2. inflight' = inflight
    BY <1>2 DEF devVars
  <2>3. \A h \in (Sent \cup inflight \cup Done)' : \E q \in Waiters' : head'[q] = h
    BY <1>10, <1>11, <2>2 DEF Inv, RingInv
  <2>4. \A q \in Waiters' : disk'[buf'[q]] <=> head'[q] \in (Sent \cup inflight \cup Done)'
    <3>1. disk'[buf'[p]] /\ head'[p] \in Sent'
      BY <1>2, <1>10, <1>11, <1>14
    <3>2. ASSUME NEW q \in Waiters
          PROVE  disk'[buf'[q]] <=> head'[q] \in (Sent \cup inflight \cup Done)'
      <4>1. head'[q] = head[q] /\ buf'[q] = buf[q] /\ head[q] # i
        BY <1>2, <1>11, <1>15
      <4>2. head'[q] \in (Sent \cup inflight \cup Done)'
            <=> head[q] \in Sent \cup inflight \cup Done
        BY <1>10, <2>2, <4>1
      <4>3. disk[buf[q]] <=> head[q] \in Sent \cup inflight \cup Done
        BY DEF Inv, RingInv
      <4>4. disk'[buf[q]] = disk[buf[q]]
        BY <1>14
      <4> QED
        BY <4>1, <4>2, <4>3, <4>4
    <3> QED
      BY <1>11, <3>1, <3>2
  <2>5. ASSUME NEW q \in Waiters', head'[q] \notin (Sent \cup inflight)'
        PROVE  status'[head'[q]] = 0
    <3>1. q # p
      BY <1>10, <1>11, <2>5
    <3>2. q \in Waiters /\ head'[q] = head[q] /\ head[q] \notin Sent \cup inflight
      BY <1>10, <1>11, <2>2, <2>5, <3>1
    <3>3. status[head[q]] = 0
      BY <3>2 DEF Inv, RingInv
    <3>4. status'[head[q]] = status[head[q]]
      BY <1>13, <1>15, <3>2
    <3> QED
      BY <3>2, <3>3, <3>4
  <2>6. Sent \cap inflight = {} /\ Sent \cap Done = {} /\ inflight \cap Done = {}
    BY DEF Inv, RingInv
  <2>7. (Sent \cap inflight = {} /\ Sent \cap Done = {} /\ inflight \cap Done = {})'
    BY <1>6, <1>10, <2>2, <2>6
  <2> QED
    BY <2>1, <2>3, <2>4, <2>5, <2>7 DEF RingInv
<1>19. WakeInv'
  <2>1. ~free[0] => ~free'[0]
    <3>1. 0 \in Desc
      BY Moduli DEF Desc
    <3>2. ~free[0] => 0 \notin {i, j, k}
      BY <1>4
    <3> QED
      BY <1>13, <3>1
  <2> QED
    BY <1>2, <1>5, <1>10, <1>11, <1>14, <2>1 DEF Inv, WakeInv
<1> QED
  BY <1>12, <1>16, <1>17, <1>18, <1>19 DEF Inv

\* rw frees the chain of a transfer that is over.
LEMMA FinishHolds == ASSUME Inv, NEW p \in Procs, RwFinish(p) PROVE Inv'
<1> DEFINE h == head[p]
           freed == Chain(h)
<1>1. /\ pc[p] = "wait" /\ chan[p] = None /\ ~disk[buf[p]]
      /\ info' = [info EXCEPT ![h] = None]
      /\ free' = [i \in Desc |-> free[i] \/ i \in freed]
      /\ next' = [i \in Desc |-> IF i \in freed THEN None ELSE next[i]]
      /\ chan' = Woken(chan, freed)
      /\ pc' = [pc EXCEPT ![p] = "idle"] /\ buf' = [buf EXCEPT ![p] = None]
      /\ head' = [head EXCEPT ![p] = None]
      /\ UNCHANGED <<status, avail, used, used_idx, disk, devVars, irq, handler>>
  BY ZenonT(60) DEF RwFinish
<1>2. p \in Waiters
  BY <1>1, ZenonT(60) DEF Waiters
<1>3. /\ freed = h..(h + 2) /\ freed \subseteq Desc /\ h \in freed
      /\ \A q \in Waiters : q # p => freed \cap (head[q]..(head[q] + 2)) = {}
  <2>1. /\ freed = h..(h + 2) /\ h \in Desc /\ h + 1 \in Desc /\ h + 2 \in Desc
        /\ \A q \in Waiters : q # p => freed \cap (head[q]..(head[q] + 2)) = {}
    BY ZenonT(60), <1>2, ChainIs
  <2> HIDE DEF freed, h
  <2> QED
    BY <2>1 DEF Desc
<1> HIDE DEF freed
<1>4. h \notin Sent \cup inflight \cup Done
  BY <1>1, <1>2 DEF Inv, RingInv
<1>5. /\ Waiters' = Waiters \ {p} /\ \A q \in Waiters : q \in Procs
      /\ \A q \in Procs : q # p => head'[q] = head[q] /\ buf'[q] = buf[q] /\ pc'[q] = pc[q]
      /\ pc'[p] = "idle" /\ buf'[p] = None
  BY <1>1 DEF Inv, TypeOK, Waiters
<1>6. /\ Sent' = Sent /\ Done' = Done /\ inflight' = inflight
  BY <1>1 DEF Sent, Done, devVars
<1>7. /\ chan' \in [Procs -> Bufs \cup {Free0, None}]
      /\ \A q \in Procs : chan'[q] = chan[q] \/ (chan'[q] = None /\ chan[q] = Free0)
      /\ \A q \in Procs : chan'[q] = Free0 => chan[q] = Free0 /\ 0 \notin freed
  BY <1>1, VirtioAssumption DEF Inv, TypeOK, Woken
<1>8. TypeOK'
  <2>1. h \in Desc
    BY <1>2 DEF Inv, RwInv
  <2>2. free' \in [Desc -> BOOLEAN]
    BY <1>1 DEF Inv, TypeOK
  <2>3. next' \in [Desc -> Desc \cup {None}] /\ info' \in [Desc -> Bufs \cup {None}]
    BY <1>1, ZenonT(60) DEF Inv, TypeOK
  <2>4. head' \in [Procs -> Desc \cup {None}] /\ buf' \in [Procs -> Bufs \cup {None}]
    BY <1>1 DEF Inv, TypeOK
  <2> QED
    BY <1>1, <1>7, <2>2, <2>3, <2>4 DEF Inv, TypeOK, devVars
<1>9. RwInv'
  BY <1>5 DEF Inv, RwInv
<1>10. \A q \in Waiters' : /\ q \in Waiters /\ q # p /\ head'[q] = head[q] /\ buf'[q] = buf[q]
                           /\ head[q] \in Desc /\ head[q] + 1 \in Desc /\ head[q] + 2 \in Desc
                           /\ head[q] \notin freed /\ head[q] + 1 \notin freed
                           /\ head[q] + 2 \notin freed /\ head[q] # h
  <2> SUFFICES ASSUME NEW q \in Waiters'
               PROVE  /\ q \in Waiters /\ q # p /\ head'[q] = head[q] /\ buf'[q] = buf[q]
                      /\ head[q] \in Desc /\ head[q] + 1 \in Desc /\ head[q] + 2 \in Desc
                      /\ head[q] \notin freed /\ head[q] + 1 \notin freed
                      /\ head[q] + 2 \notin freed /\ head[q] # h
    OBVIOUS
  <2>1. q \in Waiters /\ q # p /\ head'[q] = head[q] /\ buf'[q] = buf[q]
    BY <1>5
  <2>2. /\ head[q] \in Nat /\ head[q] \in Desc /\ head[q] + 1 \in Desc /\ head[q] + 2 \in Desc
    BY <2>1 DEF Inv, RwInv, ChainInv
  <2>3. \A i \in {head[q], head[q] + 1, head[q] + 2} : i \in head[q]..(head[q] + 2)
    BY <2>2
  <2> QED
    BY <1>3, <2>1, <2>2
<1>11. ChainInv'
  <2>1. ASSUME NEW q \in Waiters'
        PROVE  /\ \E t \in Nat : head'[q] = 3 * t
               /\ head'[q] + 1 \in Desc /\ head'[q] + 2 \in Desc
               /\ next'[head'[q]] = head'[q] + 1 /\ next'[head'[q] + 1] = head'[q] + 2
               /\ next'[head'[q] + 2] = None /\ info'[head'[q]] = buf'[q]
    <3>1. /\ \E t \in Nat : head[q] = 3 * t
          /\ next[head[q]] = head[q] + 1 /\ next[head[q] + 1] = head[q] + 2
          /\ next[head[q] + 2] = None /\ info[head[q]] = buf[q]
      BY <1>10 DEF Inv, ChainInv
    <3>2. \A m \in Desc : m \notin freed => next'[m] = next[m]
      BY <1>1
    <3>3. \A m \in Desc : m # h => info'[m] = info[m]
      BY <1>1 DEF Inv, TypeOK
    <3> QED
      BY <1>10, <3>1, <3>2, <3>3
  <2>2. \A q, r \in Waiters' : head'[q] = head'[r] => q = r
    BY <1>10 DEF Inv, ChainInv
  <2>3. ASSUME NEW m \in Desc
        PROVE  ~free'[m] <=> \E q \in Waiters' : m \in head'[q]..(head'[q] + 2)
    <3>1. ~free'[m] <=> ~free[m] /\ m \notin freed
      BY ZenonT(60), <1>1
    <3>2. ~free[m] <=> \E q \in Waiters : m \in head[q]..(head[q] + 2)
      BY DEF Inv, ChainInv
    <3> QED
      BY <1>3, <1>5, <3>1, <3>2
  <2> QED
    BY <2>1, <2>2, <2>3 DEF ChainInv
<1>12. RingInv'
  <2>1. Distinct(avail.ring, seen, avail.idx)' /\ Distinct(used.ring, used_idx, used.idx)'
    BY <1>1, ZenonT(60) DEF Inv, RingInv, devVars
  <2>2. \A x \in (Sent \cup inflight \cup Done)' : \E q \in Waiters' : head'[q] = x
    BY <1>4, <1>5, <1>6 DEF Inv, RingInv
  <2>3. /\ \A q \in Waiters' : disk'[buf'[q]] <=> head'[q] \in (Sent \cup inflight \cup Done)'
        /\ \A q \in Waiters' : head'[q] \notin (Sent \cup inflight)' => status'[head'[q]] = 0
    <3> SUFFICES ASSUME NEW q \in Waiters'
                 PROVE  /\ disk'[buf'[q]] <=> head'[q] \in (Sent \cup inflight \cup Done)'
                        /\ head'[q] \notin (Sent \cup inflight)' => status'[head'[q]] = 0
      OBVIOUS
    <3>1. /\ disk[buf[q]] <=> head[q] \in Sent \cup inflight \cup Done
          /\ head[q] \notin Sent \cup inflight => status[head[q]] = 0
      BY <1>10 DEF Inv, RingInv
    <3> QED
      BY <1>1, <1>6, <1>10, <3>1
  <2> QED
    BY <1>6, <2>1, <2>2, <2>3 DEF Inv, RingInv
<1>13. WakeInv'
  <2>1. \A q \in Waiters' : chan'[q] # None => chan'[q] = buf'[q] /\ disk'[buf'[q]]
    <3> SUFFICES ASSUME NEW q \in Waiters', chan'[q] # None
                 PROVE  chan'[q] = buf'[q] /\ disk'[buf'[q]]
      OBVIOUS
    <3>1. q \in Waiters /\ q \in Procs /\ buf'[q] = buf[q] /\ chan'[q] = chan[q]
      BY <1>5, <1>7
    <3> QED
      BY <1>1, <3>1, Zenon DEF Inv, WakeInv
  <2>2. \A q \in Procs : chan'[q] = Free0 => ~free'[0]
    <3>1. 0 \in Desc
      BY Moduli DEF Desc
    <3>2. \A q \in Procs : chan[q] = Free0 => ~free[0]
      BY DEF Inv, WakeInv
    <3>3. 0 \notin freed => free'[0] = free[0]
      BY <1>1, <3>1 DEF Inv, TypeOK
    <3> QED
      BY <1>7, <3>2, <3>3
  <2> QED
    BY <1>1, <1>6, <2>1, <2>2 DEF Inv, WakeInv
<1> QED
  BY <1>8, <1>9, <1>11, <1>12, <1>13 DEF Inv

\* The steps that only move a request between the places of RingInv: the chains
\* and who is in rw stay.
LEMMA MoveHolds ==
  ASSUME Inv, TypeOK', UNCHANGED <<free, next, info, procVars>>, RingInv', WakeInv'
  PROVE  Inv'
<1>1. Waiters' = Waiters
  BY DEF Waiters, procVars
<1>2. RwInv' /\ ChainInv'
  BY <1>1 DEF Inv, RwInv, ChainInv, procVars
<1> QED
  BY <1>2 DEF Inv

\* handle_interrupt clears the flag of the first completed transfer and wakes
\* its process.
LEMMA CompleteHolds == ASSUME Inv, IntrComplete PROVE Inv'
<1> DEFINE h == used.ring[used_idx % NUM]
           b == info[h]
<1>1. /\ handler /\ used_idx # used.idx /\ b # None
      /\ disk' = [disk EXCEPT ![b] = FALSE]
      /\ chan' = [q \in Procs |-> IF chan[q] = b THEN None ELSE chan[q]]
      /\ used_idx' = (used_idx + 1) % IDX
      /\ UNCHANGED <<descVars, avail, used, procVars, devVars, irq, handler>>
  BY DEF IntrComplete, Completing
<1>2. /\ used_idx \in 0..(IDX - 1) /\ used.idx \in 0..(IDX - 1)
      /\ Distinct(used.ring, used_idx, used.idx)
  BY DEF Inv, TypeOK, RingInv
<1>3. used_idx' = Rem(used_idx + 1, IDX) /\ h = used.ring[Rem(used_idx, NUM)]
  BY <1>1 DEF Rem
<1> HIDE DEF h
<1>4. /\ used_idx' \in 0..(IDX - 1) /\ h \in Done /\ Done' = Done \ {h}
      /\ Distinct(used.ring, used_idx, used.idx)'
  BY <1>1, <1>2, <1>3, PopQueue DEF Done
<1>5. PICK p \in Waiters : head[p] = h /\ b = buf[p] /\ buf[p] \in Bufs
  BY <1>4, Owner
<1> HIDE DEF b
<1>6. TypeOK'
  BY <1>1, <1>4, <1>5 DEF Inv, TypeOK, descVars, procVars, devVars
<1>7. Sent' = Sent /\ inflight' = inflight /\ Waiters' = Waiters
  BY <1>1 DEF Sent, Waiters, devVars, procVars
<1>8. \A q \in Waiters : q # p => /\ head[q] # h /\ buf[q] # b /\ buf[q] \in Bufs
  BY <1>5 DEF Inv, TypeOK, RwInv, ChainInv, Waiters
<1>9. ~disk'[b] /\ \A q \in Waiters : q # p => disk'[buf[q]] = disk[buf[q]]
  <2>1. disk \in [Bufs -> BOOLEAN]
    BY DEF Inv, TypeOK
  <2>2. ~disk'[b] /\ \A c \in Bufs : c # b => disk'[c] = disk[c]
    BY <1>1, <1>5, <2>1
  <2> QED
    BY <1>8, <2>2
<1>10. h \notin Sent \cup inflight
  BY <1>4 DEF Inv, RingInv
<1>11. RingInv'
  <2>1. Distinct(avail.ring, seen, avail.idx)'
    BY <1>1 DEF Inv, RingInv, devVars
  <2>2. \A x \in (Sent \cup inflight \cup Done)' : \E q \in Waiters' : head'[q] = x
    BY <1>1, <1>4, <1>7 DEF Inv, RingInv, procVars
  <2>3. ASSUME NEW q \in Waiters
        PROVE  disk'[buf'[q]] <=> head'[q] \in (Sent \cup inflight \cup Done)'
    <3>1. buf'[q] = buf[q] /\ head'[q] = head[q]
      BY <1>1 DEF procVars
    <3>2. CASE q = p
      BY <1>4, <1>5, <1>7, <1>9, <1>10, <3>1, <3>2
    <3>3. CASE q # p
      <4>1. disk[buf[q]] <=> head[q] \in Sent \cup inflight \cup Done
        BY DEF Inv, RingInv
      <4> QED
        BY <1>4, <1>7, <1>8, <1>9, <3>1, <3>3, <4>1
    <3> QED
      BY <3>2, <3>3
  <2>4. \A q \in Waiters : head'[q] \notin (Sent \cup inflight)' => status'[head'[q]] = 0
    BY <1>1, <1>7 DEF Inv, RingInv, procVars, descVars
  <2> QED
    BY <1>4, <1>7, <2>1, <2>2, <2>3, <2>4 DEF Inv, RingInv
<1>12. WakeInv'
  <2>1. ASSUME NEW q \in Waiters, chan'[q] # None PROVE chan'[q] = buf'[q] /\ disk'[buf'[q]]
    <3>1. q \in Procs /\ buf'[q] = buf[q]
      BY <1>1 DEF Waiters, procVars
    <3>2. chan'[q] = chan[q] /\ chan[q] # b /\ chan[q] # None
      BY <1>1, <2>1, <3>1
    <3>3. chan[q] = buf[q] /\ disk[buf[q]]
      BY <3>2 DEF Inv, WakeInv
    <3> QED
      BY <1>5, <1>9, <3>1, <3>2, <3>3
  <2>2. \A q \in Procs : chan'[q] = Free0 => chan[q] = Free0
    BY <1>1, VirtioAssumption
  <2> QED
    BY <1>1, <1>7, <2>1, <2>2 DEF Inv, WakeInv, descVars
<1> QED
  BY <1>1, <1>6, <1>11, <1>12, MoveHolds DEF descVars

\* The device takes the first published request.
LEMMA TakeHolds == ASSUME Inv, DeviceTake PROVE Inv'
<1> DEFINE h == avail.ring[seen % NUM]
<1>1. /\ seen # avail.idx /\ inflight' = inflight \cup {h} /\ seen' = (seen + 1) % IDX
      /\ UNCHANGED <<descVars, avail, used, used_idx, disk, procVars, chan, irq, handler>>
  BY DEF DeviceTake
<1>2. /\ seen \in 0..(IDX - 1) /\ avail.idx \in 0..(IDX - 1)
      /\ Distinct(avail.ring, seen, avail.idx)
  BY DEF Inv, TypeOK, RingInv
<1>3. seen' = Rem(seen + 1, IDX) /\ h = avail.ring[Rem(seen, NUM)]
  BY <1>1 DEF Rem
<1> HIDE DEF h
<1>4. /\ seen' \in 0..(IDX - 1) /\ h \in Sent /\ Sent' = Sent \ {h}
      /\ Distinct(avail.ring, seen, avail.idx)'
  BY <1>1, <1>2, <1>3, PopQueue DEF Sent
<1>5. Done' = Done /\ Waiters' = Waiters
  BY <1>1 DEF Done, Waiters, procVars
<1>6. TypeOK'
  <2>1. h \in Desc
    BY <1>4, Owner
  <2> QED
    BY <1>1, <1>4, <2>1 DEF Inv, TypeOK, descVars, procVars
<1>7. RingInv'
  <2>1. (Sent \cup inflight \cup Done)' = Sent \cup inflight \cup Done
    BY <1>1, <1>4, <1>5
  <2>2. (Sent \cup inflight)' = Sent \cup inflight
    BY <1>1, <1>4
  <2>3. /\ Sent' \cap inflight' = {} /\ Sent' \cap Done' = {} /\ inflight' \cap Done' = {}
    BY <1>1, <1>4, <1>5 DEF Inv, RingInv
  <2>4. Distinct(used.ring, used_idx, used.idx)'
    BY <1>1 DEF Inv, RingInv
  <2>5. /\ \A x \in (Sent \cup inflight \cup Done)' : \E p \in Waiters' : head'[p] = x
        /\ \A p \in Waiters' : disk'[buf'[p]] <=> head'[p] \in (Sent \cup inflight \cup Done)'
        /\ \A p \in Waiters' : head'[p] \notin (Sent \cup inflight)' => status'[head'[p]] = 0
    BY <1>1, <1>5, <2>2, ZenonT(60) DEF Inv, RingInv, procVars, descVars
  <2> QED
    BY <1>4, <2>3, <2>4, <2>5 DEF RingInv
<1>8. WakeInv'
  BY <1>1, <1>5 DEF Inv, WakeInv, procVars, descVars
<1> QED
  BY <1>1, <1>6, <1>7, <1>8, MoveHolds DEF descVars

\* The device completes a request it has taken.
LEMMA DeviceHolds == ASSUME Inv, NEW h \in Desc, DeviceComplete(h) PROVE Inv'
<1>1. /\ h \in inflight /\ inflight' = inflight \ {h} /\ irq'
      /\ status' = [status EXCEPT ![h] = 0]
      /\ used' = [idx |-> (used.idx + 1) % IDX,
                  ring |-> [used.ring EXCEPT ![used.idx % NUM] = h]]
      /\ UNCHANGED <<free, next, info, avail, used_idx, disk, procVars, chan, seen, handler>>
  BY DEF DeviceComplete
<1>2. irq' = TRUE
  BY DEF DeviceComplete
<1>3. /\ used'.idx = Rem(used.idx + 1, IDX) /\ used'.ring = Stored(used.ring, used.idx, h)
      /\ used' = [idx |-> used'.idx, ring |-> used'.ring]
  BY <1>1 DEF Rem, Stored
<1>4. /\ used.idx \in 0..(IDX - 1) /\ used.ring \in [Desc -> Desc] /\ used_idx \in 0..(IDX - 1)
      /\ Distinct(used.ring, used_idx, used.idx) /\ h \notin Queue(used.ring, used_idx, used.idx)
  BY <1>1 DEF Inv, TypeOK, RingInv, Done
<1>5. /\ used'.idx \in 0..(IDX - 1) /\ used'.ring \in [Desc -> Desc]
      /\ Distinct(used'.ring, used_idx, used'.idx)
      /\ Queue(used'.ring, used_idx, used'.idx) = Queue(used.ring, used_idx, used.idx) \cup {h}
  BY <1>3, <1>4, PushQueue
<1>6. Sent' = Sent /\ Done' = Done \cup {h} /\ Waiters' = Waiters
  BY <1>1, <1>5, ZenonT(60) DEF Sent, Done, Waiters, procVars
<1>7. TypeOK'
  <2>1. used' \in [idx : 0..(IDX - 1), ring : [Desc -> Desc]]
    BY <1>3, <1>5
  <2> QED
    BY <1>1, <2>1 DEF Inv, TypeOK, procVars
<1>8. RingInv'
  <2>1. (Sent \cup inflight \cup Done)' = Sent \cup inflight \cup Done
    BY ZenonT(60), <1>1, <1>6
  <2>2. /\ Sent' \cap inflight' = {} /\ Sent' \cap Done' = {} /\ inflight' \cap Done' = {}
    <3>1. Sent \cap inflight = {} /\ Sent \cap Done = {} /\ inflight \cap Done = {}
      BY Zenon DEF Inv, RingInv
    <3> QED
      BY Zenon, <1>1, <1>6, <3>1
  <2>3. Distinct(used.ring, used_idx, used.idx)' /\ Distinct(avail.ring, seen, avail.idx)'
    BY <1>1, <1>5, ZenonT(60) DEF Inv, RingInv
  <2>4. /\ \A x \in (Sent \cup inflight \cup Done)' : \E p \in Waiters' : head'[p] = x
        /\ \A p \in Waiters' : disk'[buf'[p]] <=> head'[p] \in (Sent \cup inflight \cup Done)'
    BY <1>1, <1>6, ZenonT(60) DEF Inv, RingInv, procVars
  <2>5. ASSUME NEW p \in Waiters, head[p] \notin (Sent \cup inflight)'
        PROVE  status'[head[p]] = 0
    <3>1. head[p] \in Desc
      BY DEF Inv, RwInv
    <3>2. CASE head[p] = h
      BY <1>1, <3>2 DEF Inv, TypeOK
    <3>3. CASE head[p] # h
      <4>1. head[p] \notin Sent \cup inflight
        BY ZenonT(60), <1>1, <1>6, <2>5, <3>3
      <4>2. status[head[p]] = 0
        BY <4>1, Zenon DEF Inv, RingInv
      <4>3. status'[head[p]] = status[head[p]]
        <5>1. status \in [Desc -> {0, 255}]
          BY DEF Inv, TypeOK
        <5>2. status' = [status EXCEPT ![h] = 0]
          BY <1>1
        <5> QED
          BY <3>1, <3>3, <5>1, <5>2
      <4> QED
        BY <4>2, <4>3
    <3> QED
      BY <3>2, <3>3
  <2> QED
    BY <1>1, <1>6, <2>2, <2>3, <2>4, <2>5, Zenon DEF RingInv, procVars
<1>9. WakeInv'
  BY <1>1, <1>6, Zenon DEF Inv, WakeInv, procVars
<1> QED
  BY <1>1, <1>7, <1>8, <1>9, MoveHolds

\* Disk::new.
LEMMA InitHolds == Init => Inv
<1> SUFFICES ASSUME Init PROVE Inv
  OBVIOUS
<1>1. 0 \in Desc /\ 0 \in 0..(IDX - 1)
  BY Moduli DEF Desc
<1>2. Waiters = {}
  BY DEF Init, Waiters
<1>3. TypeOK
  <2>1. avail \in [idx : 0..(IDX - 1), ring : [Desc -> Desc]]
    BY <1>1 DEF Init
  <2>2. used \in [idx : 0..(IDX - 1), ring : [Desc -> Desc]]
    BY <1>1 DEF Init
  <2> QED
    BY <1>1, <2>1, <2>2, ZenonT(60) DEF Init, TypeOK
<1>4. Sent = {} /\ Done = {}
  BY <1>1, EmptyQueue DEF Init, Sent, Done
<1>5. Distinct(avail.ring, seen, avail.idx) /\ Distinct(used.ring, used_idx, used.idx)
  BY <1>1, EmptyQueue DEF Init
<1>6. RwInv
  BY <1>2 DEF Init, RwInv
<1>7. ChainInv
  BY <1>2 DEF Init, ChainInv
<1>8. RingInv
  BY <1>2, <1>4, <1>5 DEF Init, RingInv
<1>9. WakeInv
  BY <1>2, <1>4, VirtioAssumption DEF Init, WakeInv
<1> QED
  BY <1>3, <1>6, <1>7, <1>8, <1>9 DEF Inv

\* Every step keeps the invariant.
LEMMA StepHolds == ASSUME Inv, [Next]_vars PROVE Inv'
<1>1. CASE UNCHANGED vars
  <2>1. Sent' = Sent /\ Done' = Done /\ Waiters' = Waiters
    BY <1>1, Zenon DEF vars, devVars, procVars, Sent, Done, Waiters
  <2>2. TypeOK' /\ RwInv' /\ ChainInv'
    BY <1>1, <2>1, ZenonT(60) DEF Inv, TypeOK, RwInv, ChainInv, vars, descVars,
       procVars, devVars
  <2>3. RingInv' /\ WakeInv'
    BY <1>1, <2>1, Zenon DEF Inv, RingInv, WakeInv, vars, descVars, procVars, devVars
  <2> QED
    BY <2>2, <2>3 DEF Inv
<1> QED
  BY Zenon, <1>1, EnterHolds, SleepHolds, SubmitHolds, FinishHolds, IntrEndsHold,
     CompleteHolds, TakeHolds, DeviceHolds DEF Next, Rw, Interrupt

-----------------------------------------------------------------------------
(* Results.                                                                *)

\* The sets of the properties are the queues of the invariant.
LEMMA Places == AtDevice = inflight \cup Sent /\ Completed = Done
BY DEF AtDevice, Completed, Sent, Done, Queue, Slot, Rem

\* Of any ring and any number of processes: chains are aligned triples, a
\* request is in one place, and who sleeps has a reason.
THEOREM Invariance == Spec => []Inv
BY InitHolds, StepHolds, PTL DEF Spec

\* The device never transfers into a buffer whose owner has left rw.
THEOREM DmaSafe == Spec => []DmaOwned
<1>1. Inv => DmaOwned
  <2> SUFFICES ASSUME Inv, NEW h \in AtDevice
               PROVE  \E p \in Procs :
                        /\ pc[p] = "wait" /\ head[p] = h /\ disk[buf[p]] /\ info[h] = buf[p]
                        /\ \A i \in Chain(h) : ~free[i]
    BY DEF DmaOwned
  <2>1. h \in Sent \cup inflight
    BY Places
  <2>2. PICK p \in Waiters : head[p] = h /\ info[h] = buf[p]
    BY <2>1, Owner
  <2>3. disk[buf[p]]
    BY <2>1, <2>2, Zenon DEF Inv, RingInv
  <2>4. \A i \in Chain(h) : ~free[i]
    BY <2>2, ChainIs
  <2> QED
    BY <2>2, <2>3, <2>4 DEF Waiters
<1> QED
  BY <1>1, Invariance, PTL

\* handle_interrupt meets only transfers that a process waits for, no used entry
\* is lost however the indices wrap, and rw returns only after the device has
\* written the status byte.
THEOREM CompletionsMatched == Spec => []CompletionsKnown
<1>1. Inv => CompletionsKnown
  <2> SUFFICES ASSUME Inv PROVE CompletionsKnown
    OBVIOUS
  <2>1. ASSUME NEW h \in Completed
        PROVE  /\ h \notin AtDevice
               /\ \E p \in Procs : pc[p] = "wait" /\ head[p] = h /\ disk[info[h]]
    <3>1. h \in Done
      BY Places
    <3>2. PICK p \in Waiters : head[p] = h /\ info[h] = buf[p]
      BY <3>1, Owner
    <3>3. disk[buf[p]]
      BY <3>1, <3>2 DEF Inv, RingInv
    <3>4. h \notin AtDevice
      BY Places DEF Inv, RingInv
    <3> QED
      BY <3>2, <3>3, <3>4 DEF Waiters
  <2>2. Cardinality(Completed) = Entries(used_idx, used.idx)
    BY Places, QueueSize DEF Done, Inv, TypeOK, RingInv
  <2>3. ASSUME NEW p \in Procs, pc[p] = "wait", ~disk[buf[p]]
        PROVE  status[head[p]] = 0 /\ head[p] \notin AtDevice
    <3>1. p \in Waiters
      BY <2>3, Zenon DEF Waiters
    <3> QED
      BY <2>3, <3>1, Places, Zenon DEF Inv, RingInv
  <2> QED
    BY <2>1, <2>2, <2>3, Zenon DEF CompletionsKnown
<1> QED
  BY <1>1, Invariance, PTL

\* No process is asleep in rw without a transfer or a chain whose end wakes it,
\* although only descriptor 0 wakes those that wait for descriptors.
THEOREM NoLostWakeup == Spec => []SleeperHasWaker
<1>1. Inv => SleeperHasWaker
  <2> SUFFICES ASSUME Inv, NEW p \in Procs
               PROVE  /\ chan[p] = Free0 =>
                           \E q \in Procs : pc[q] = "wait" /\ 0 \in Chain(head[q])
                      /\ pc[p] = "wait" /\ chan[p] # None =>
                           \/ head[p] \in AtDevice
                           \/ head[p] \in Completed /\ (irq \/ handler)
    BY DEF SleeperHasWaker
  <2>1. ASSUME chan[p] = Free0 PROVE \E q \in Procs : pc[q] = "wait" /\ 0 \in Chain(head[q])
    <3>1. 0 \in Desc /\ ~free[0]
      BY <2>1, Moduli DEF Desc, Inv, WakeInv
    <3>2. PICK q \in Waiters : 0 \in head[q]..(head[q] + 2)
      BY <3>1, Zenon DEF Inv, ChainInv
    <3>3. Chain(head[q]) = head[q]..(head[q] + 2)
      BY ChainIs
    <3> QED
      BY <3>2, <3>3, ZenonT(60) DEF Waiters
  <2>2. ASSUME pc[p] = "wait", chan[p] # None
        PROVE  head[p] \in AtDevice \/ (head[p] \in Completed /\ (irq \/ handler))
    <3>1. p \in Waiters
      BY <2>2 DEF Waiters
    <3>2. head[p] \in Sent \cup inflight \cup Done
      BY <2>2, <3>1 DEF Inv, WakeInv, RingInv
    <3> QED
      BY <3>2, Places DEF Inv, WakeInv
  <2> QED
    BY <2>1, <2>2
<1> QED
  BY <1>1, Invariance, PTL
=============================================================================
