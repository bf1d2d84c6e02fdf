--------------------------- MODULE LockOrderProofs ---------------------------
(***************************************************************************)
(* Proofs about LockOrder: for every number of CPUs and of processes, the  *)
(* kernel's paths other than put of a linked inode never spin on each      *)
(* other's locks, and a switch carries the process's own lock only.        *)
(*                                                                         *)
(* The invariant says at which stage of a path a CPU is: what it still has *)
(* to do fixes what it holds (StageInv), and no two CPUs have to do with   *)
(* one process (ClaimInv).                                                 *)
(***************************************************************************)
EXTENDS LockOrder, TLAPS

\* The locks a CPU holds.
Held(c) == {l \in Locks : holder[l] = c}

\* The locks a sleep releases after it has taken the process's own lock.
SleepLocks == {Parents, Cond, ConsoleL, UartL}

\* Locks under which nothing is ever taken.
Leaf == {Kmem, Bcache}

\* What is left of the console's half of UartIntr.
Echo == <<Acq(ConsoleL), Pass({UartL} \cup Inners), Rel(ConsoleL)>>

-----------------------------------------------------------------------------
(* The stages of the paths.  A CPU whose path still has r to do holds h; p is  *)
(* the process it is on and n the one it has claimed.                      *)

\* A path that was chosen and has not taken its first lock.
Enters(r, h, p, n) ==
  /\ h = {}
  /\ \/ /\ p \in Slots
        /\ \E name \in Named \ {"put_linked"}, q \in Slots :
             r = ProcPath(name, p, q) /\ (name = "fork" => n = q)
     \/ r \in {CondWake, UartIntr, Echo}
     \/ p = None /\ n \in Slots /\ r = Schedule(n)

\* The last release of a path.
Ends(r, h) == \E l \in Locks \ Leaf : h = {l} /\ r = <<Rel(l)>>

\* From the test of the condition to the switch of a sleep (or of exit).
Tests(r, h, p) ==
  /\ p \in Slots
  /\ \E l \in SleepLocks, L \in SUBSET (Inners \cup Leaf) :
       h = {l} /\ r = <<Pass(L), Acq(Inner(p)), Rel(l), Off(p), Rel(Inner(p))>>
Sleeps(r, h, p) ==
  p \in Slots /\ \E l \in SleepLocks : h = {l} /\ r = SleepOn(p, l)
Unlocks(r, h, p) ==
  /\ p \in Slots
  /\ \E l \in SleepLocks : h = {l, Inner(p)} /\ r = <<Rel(l), Off(p), Rel(Inner(p))>>
Leaves(r, h, p) == p \in Slots /\ h = {Inner(p)} /\ r = <<Off(p), Rel(Inner(p))>>

\* fork with the new process locked.
Copies(r, h, n) ==
  n \in Slots /\ h = {Inner(n)} /\ r = <<Pass({Kmem, Ftable, Itable}), Rel(Inner(n))>>

\* wait with the parents locked, and then the zombie.
Finds(r, h) ==
  \E q \in Slots : /\ h = {Parents}
                   /\ r = <<Acq(Inner(q)), Pass({Kmem}), Rel(Inner(q)), Rel(Parents)>>
Reaps(r, h) ==
  \E q \in Slots : /\ h = {Parents, Inner(q)}
                   /\ r \in {<<Pass({Kmem}), Rel(Inner(q)), Rel(Parents)>>,
                             <<Rel(Inner(q)), Rel(Parents)>>}

\* A change of a condition, and the wakeup after it.
Wakes(r, h) ==
  \/ h = {Cond} /\ r \in {<<Pass({Bcache, Kmem}), Wakeup, Rel(Cond)>>, <<Wakeup, Rel(Cond)>>}
  \/ /\ h = {UartL}
     /\ r \in {<<Wakeup, Rel(UartL), Acq(ConsoleL), Pass({UartL} \cup Inners), Rel(ConsoleL)>>,
               <<Rel(UartL), Acq(ConsoleL), Pass({UartL} \cup Inners), Rel(ConsoleL)>>}
  \/ h = {ConsoleL} /\ r = <<Pass({UartL} \cup Inners), Rel(ConsoleL)>>

\* A sleep lock taken under the lock of the file or the inode table.
Nests(r, h, p) ==
  p \in Slots /\ \E l \in {Ftable, Itable} : h = {l} /\ r = <<Pass({Inner(p)}), Rel(l)>>

\* The scheduler with the process it has chosen locked.
Dispatches(r, h, n) == n \in Slots /\ h = {Inner(n)} /\ r = <<On(n), Rel(Inner(n))>>

Stage(r, h, p, n) ==
  \/ r = <<>> /\ h = {}
  \/ Enters(r, h, p, n) \/ Ends(r, h)
  \/ Tests(r, h, p) \/ Sleeps(r, h, p) \/ Unlocks(r, h, p) \/ Leaves(r, h, p)
  \/ Copies(r, h, n) \/ Finds(r, h) \/ Reaps(r, h)
  \/ Wakes(r, h) \/ Nests(r, h, p) \/ Dispatches(r, h, n)

StageInv == \A c \in CPUs : Stage(rest[c], Held(c), cur[c], claimed[c])

\* No process is on two CPUs, or claimed by one and on another, or claimed twice.
ClaimInv ==
  \A c, d \in CPUs : c # d =>
    /\ cur[c] # None => cur[c] # cur[d] /\ cur[c] # claimed[d]
    /\ claimed[c] # None => claimed[c] # claimed[d]

\* The inductive invariant of the lock order.
Inv == TypeOK /\ StageInv /\ ClaimInv
-----------------------------------------------------------------------------
(* Facts about locks and paths.                                            *)

\* The locks are pairwise different.
LEMMA LockFacts ==
  /\ \A i, j \in Slots : Inner(i) = Inner(j) => i = j
  /\ \A i \in Slots : Inner(i) \in Inners
  /\ \A l \in Inners : \E i \in Slots : l = Inner(i)
  /\ Inners \subseteq Locks /\ SleepLocks \cup Leaf \cup {Ftable, Itable} \subseteq Locks
  /\ Inners \cap (SleepLocks \cup Leaf \cup {Ftable, Itable}) = {}
  /\ Parents # Cond /\ Parents # ConsoleL /\ Parents # UartL
  /\ Cond # ConsoleL /\ Cond # UartL /\ ConsoleL # UartL
  /\ Ftable # Itable /\ Ftable \notin SleepLocks \cup Leaf /\ Itable \notin SleepLocks \cup Leaf
  /\ Kmem # Bcache /\ SleepLocks \cap Leaf = {}
  /\ None \notin Slots
BY LockOrderAssumption DEF Inner, Inners, Locks, SleepLocks, Leaf, Slots,
  Parents, Ftable, Itable, Kmem, Bcache, Cond, ConsoleL, UartL

\* Concatenation, by length and element.
LEMMA ConcatIs ==
  ASSUME NEW S, NEW s \in Seq(S), NEW t \in Seq(S)
  PROVE  /\ s \o t \in Seq(S)
         /\ Len(s \o t) = Len(s) + Len(t)
         /\ \A i \in 1..(Len(s) + Len(t)) :
              (s \o t)[i] = IF i <= Len(s) THEN s[i] ELSE t[i - Len(s)]
<1>1. s \o t \in Seq(S) /\ Len(s \o t) = Len(s) + Len(t)
  OBVIOUS
<1>2. \A i \in 1..(Len(s) + Len(t)) :
        (s \o t)[i] = IF i <= Len(s) THEN s[i] ELSE t[i - Len(s)]
  OBVIOUS
<1> QED
  BY <1>1, <1>2

\* Sequences that agree in length and elements are equal.
LEMMA SeqsAgree ==
  ASSUME NEW S, NEW s \in Seq(S), NEW t \in Seq(S),
         Len(s) = Len(t), \A i \in 1..Len(s) : s[i] = t[i]
  PROVE  s = t
OBVIOUS

\* A prefix of one or two operations before a sleep.
LEMMA Prefix ==
  /\ \A a, p, l : <<a>> \o SleepOn(p, l)
                  = <<a, Acq(Inner(p)), Rel(l), Off(p), Rel(Inner(p))>>
  /\ \A a, b, p, l : <<a, b>> \o SleepOn(p, l)
                     = <<a, b, Acq(Inner(p)), Rel(l), Off(p), Rel(Inner(p))>>
<1>1. ASSUME NEW a, NEW p, NEW l
      PROVE  <<a>> \o SleepOn(p, l) = <<a, Acq(Inner(p)), Rel(l), Off(p), Rel(Inner(p))>>
  <2> DEFINE s == <<a>>
             t == SleepOn(p, l)
             u == <<a, Acq(Inner(p)), Rel(l), Off(p), Rel(Inner(p))>>
             S == {a, Acq(Inner(p)), Rel(l), Off(p), Rel(Inner(p))}
  <2>1. s \in Seq(S) /\ t \in Seq(S) /\ u \in Seq(S)
    BY DEF SleepOn
  <2>2. Len(s) = 1 /\ Len(t) = 4 /\ Len(u) = 5
    BY DEF SleepOn
  <2>3. /\ s \o t \in Seq(S) /\ Len(s \o t) = 5
        /\ \A i \in 1..5 : (s \o t)[i] = IF i <= 1 THEN s[i] ELSE t[i - 1]
    <3>1. /\ s \o t \in Seq(S) /\ Len(s \o t) = Len(s) + Len(t)
          /\ \A i \in 1..(Len(s) + Len(t)) :
               (s \o t)[i] = IF i <= Len(s) THEN s[i] ELSE t[i - Len(s)]
      <4> HIDE DEF s, t, S
      <4> QED
        BY <2>1, ConcatIs
    <3> HIDE DEF s, t
    <3> QED
      BY <2>2, <3>1
  <2>4. \A i \in 1..5 : (s \o t)[i] = u[i]
    BY <2>3 DEF SleepOn
  <2> QED
    BY <2>1, <2>2, <2>3, <2>4, SeqsAgree, Zenon
<1>2. ASSUME NEW a, NEW b, NEW p, NEW l
      PROVE  <<a, b>> \o SleepOn(p, l) = <<a, b, Acq(Inner(p)), Rel(l), Off(p), Rel(Inner(p))>>
  <2> DEFINE s == <<a, b>>
             t == SleepOn(p, l)
             u == <<a, b, Acq(Inner(p)), Rel(l), Off(p), Rel(Inner(p))>>
             S == {a, b, Acq(Inner(p)), Rel(l), Off(p), Rel(Inner(p))}
  <2>1. s \in Seq(S) /\ t \in Seq(S) /\ u \in Seq(S)
    BY DEF SleepOn
  <2>2. Len(s) = 2 /\ Len(t) = 4 /\ Len(u) = 6
    BY DEF SleepOn
  <2>3. /\ s \o t \in Seq(S) /\ Len(s \o t) = 6
        /\ \A i \in 1..6 : (s \o t)[i] = IF i <= 2 THEN s[i] ELSE t[i - 2]
    <3>1. /\ s \o t \in Seq(S) /\ Len(s \o t) = Len(s) + Len(t)
          /\ \A i \in 1..(Len(s) + Len(t)) :
               (s \o t)[i] = IF i <= Len(s) THEN s[i] ELSE t[i - Len(s)]
      <4> HIDE DEF s, t, S
      <4> QED
        BY <2>1, ConcatIs
    <3> HIDE DEF s, t
    <3> QED
      BY SMTT(60), <2>2, <3>1
  <2>4. \A i \in 1..6 : (s \o t)[i] = u[i]
    BY <2>3 DEF SleepOn
  <2> QED
    BY <2>1, <2>2, <2>3, <2>4, SeqsAgree, Zenon
<1> QED
  BY <1>1, <1>2, Zenon

-----------------------------------------------------------------------------
(* From one stage to the next.                                             *)

\* The next operation of a path leads to another stage of it; only a lock that
\* is held is released, and a switch holds the lock of its process alone.  m is
\* what is claimed afterwards.
Goes(r, h, p, m) ==
  LET op == Head(r)
  IN  /\ r # <<>> /\ op.do \in {"acq", "rel", "pass", "on", "off"}
      /\ op.do = "acq" => /\ \E l : op.locks = {l}
                          /\ Stage(Tail(r), h \cup op.locks, p, m)
      /\ op.do = "pass" => Stage(Tail(r), h, p, m)
      /\ op.do = "rel" => op.locks \subseteq h /\ Stage(Tail(r), h \ op.locks, p, m)
      /\ op.do = "off" => /\ op.proc = p /\ h = {Inner(p)}
                          /\ Stage(Tail(r), h, None, m)
      /\ op.do = "on" => /\ op.proc = m /\ m \in Slots /\ h = {Inner(m)}
                         /\ Stage(Tail(r), h, m, m)

\* One operation of each kind.
LEMMA OneOp ==
  ASSUME NEW r, NEW h, NEW p, NEW m, r # <<>>
  PROVE  /\ \A l : Head(r) = Acq(l) /\ Stage(Tail(r), h \cup {l}, p, m) => Goes(r, h, p, m)
         /\ \A L : Head(r) = Pass(L) /\ Stage(Tail(r), h, p, m) => Goes(r, h, p, m)
         /\ \A l : Head(r) = Rel(l) /\ l \in h /\ Stage(Tail(r), h \ {l}, p, m)
                  => Goes(r, h, p, m)
         /\ Head(r) = Off(p) /\ h = {Inner(p)} /\ Stage(Tail(r), h, None, m)
              => Goes(r, h, p, m)
         /\ Head(r) = On(m) /\ m \in Slots /\ h = {Inner(m)} /\ Stage(Tail(r), h, m, m)
              => Goes(r, h, p, m)
<1>1. ASSUME NEW l, Head(r) = Acq(l), Stage(Tail(r), h \cup {l}, p, m) PROVE Goes(r, h, p, m)
  <2>1. Head(r).do = "acq" /\ Head(r).locks = {l}
    BY <1>1 DEF Acq
  <2> QED
    BY <1>1, <2>1, Zenon DEF Goes
<1>2. ASSUME NEW L, Head(r) = Pass(L), Stage(Tail(r), h, p, m) PROVE Goes(r, h, p, m)
  <2>1. Head(r).do = "pass"
    BY <1>2 DEF Pass
  <2> QED
    BY <1>2, <2>1 DEF Goes
<1>3. ASSUME NEW l, Head(r) = Rel(l), l \in h, Stage(Tail(r), h \ {l}, p, m) PROVE Goes(r, h, p, m)
  <2>1. Head(r).do = "rel" /\ Head(r).locks = {l}
    BY <1>3 DEF Rel
  <2> QED
    BY <1>3, <2>1, Zenon DEF Goes
<1>4. ASSUME Head(r) = Off(p), h = {Inner(p)}, Stage(Tail(r), h, None, m) PROVE Goes(r, h, p, m)
  <2>1. Head(r).do = "off" /\ Head(r).proc = p
    BY <1>4 DEF Off
  <2> QED
    BY <1>4, <2>1 DEF Goes
<1>5. ASSUME Head(r) = On(m), m \in Slots, h = {Inner(m)}, Stage(Tail(r), h, m, m)
      PROVE  Goes(r, h, p, m)
  <2>1. Head(r).do = "on" /\ Head(r).proc = m
    BY <1>5 DEF On
  <2> QED
    BY <1>5, <2>1 DEF Goes
<1> QED
  BY <1>1, <1>2, <1>3, <1>4, <1>5

\* A sleep, from the test of its condition to the switch.
LEMMA SleepGoes ==
  ASSUME NEW r, NEW h, NEW p, NEW m,
         Tests(r, h, p) \/ Sleeps(r, h, p) \/ Unlocks(r, h, p) \/ Leaves(r, h, p)
  PROVE  Goes(r, h, p, m)
<1>1. CASE Tests(r, h, p)
  <2>1. PICK l \in SleepLocks, L \in SUBSET (Inners \cup Leaf) :
          h = {l} /\ r = <<Pass(L), Acq(Inner(p)), Rel(l), Off(p), Rel(Inner(p))>>
    BY <1>1 DEF Tests
  <2>2. Stage(SleepOn(p, l), h, p, m)
    BY <1>1, <2>1 DEF Tests, Stage, Sleeps
  <2>3. r # <<>> /\ Head(r) = Pass(L) /\ Tail(r) = SleepOn(p, l)
    BY <2>1 DEF SleepOn
  <2> QED
    BY <2>2, <2>3, OneOp, Zenon
<1>2. CASE Sleeps(r, h, p)
  <2>1. PICK l \in SleepLocks : h = {l} /\ r = SleepOn(p, l)
    BY <1>2 DEF Sleeps
  <2>2. Stage(<<Rel(l), Off(p), Rel(Inner(p))>>, h \cup {Inner(p)}, p, m)
    BY <1>2, <2>1 DEF Sleeps, Stage, Unlocks
  <2>3. r # <<>> /\ Head(r) = Acq(Inner(p)) /\ Tail(r) = <<Rel(l), Off(p), Rel(Inner(p))>>
    BY <2>1 DEF SleepOn
  <2> QED
    BY <2>2, <2>3, OneOp, Zenon
<1>3. CASE Unlocks(r, h, p)
  <2>1. PICK l \in SleepLocks : h = {l, Inner(p)} /\ r = <<Rel(l), Off(p), Rel(Inner(p))>>
    BY <1>3 DEF Unlocks
  <2>2. Stage(<<Off(p), Rel(Inner(p))>>, h \ {l}, p, m)
    BY <1>3, <2>1, LockFacts DEF Unlocks, Stage, Leaves
  <2>3. r # <<>> /\ Head(r) = Rel(l) /\ Tail(r) = <<Off(p), Rel(Inner(p))>> /\ l \in h
    BY <2>1
  <2> QED
    BY <2>2, <2>3, OneOp, Zenon
<1>4. CASE Leaves(r, h, p)
  <2>1. Stage(<<Rel(Inner(p))>>, h, None, m)
    BY <1>4, LockFacts DEF Leaves, Ends, Stage
  <2>2. r # <<>> /\ Head(r) = Off(p) /\ Tail(r) = <<Rel(Inner(p))>> /\ h = {Inner(p)}
    BY <1>4 DEF Leaves
  <2> QED
    BY <2>1, <2>2, OneOp, Zenon
<1> QED
  BY <1>1, <1>2, <1>3, <1>4

\* A path that takes its first lock.
LEMMA EntersGoes ==
  ASSUME NEW r, NEW h, NEW p, NEW n, NEW m, Enters(r, h, p, n), Len(r) # 1 => m = n
  PROVE  Goes(r, h, p, m)
<1>0. h = {}
  BY DEF Enters
<1>1. ASSUME NEW name \in Named \ {"put_linked"}, NEW q \in Slots, p \in Slots,
             r = ProcPath(name, p, q), name = "fork" => n = q
      PROVE  Goes(r, h, p, m)
  <2>1. CASE name = "fork"
    <3>1. r = Fork(q)
      BY <1>1, <2>1 DEF ProcPath
    <3>2. /\ r # <<>> /\ Head(r) = Acq(Inner(q))
          /\ Tail(r) = <<Pass({Kmem, Ftable, Itable}), Rel(Inner(q))>> /\ Len(r) = 3
      BY <3>1 DEF Fork
    <3>3. m = q
      BY SMTT(60), <1>1, <2>1, <3>2
    <3>4. Copies(Tail(r), h \cup {Inner(q)}, m)
      BY <1>0, <1>1, <3>2, <3>3 DEF Copies
    <3> QED
      BY <3>2, <3>4, OneOp DEF Stage
  <2>2. CASE name = "exit"
    <3>1. r = Exit(p)
      BY <1>1, <2>2 DEF ProcPath
    <3>2. /\ r # <<>> /\ Head(r) = Acq(Parents)
          /\ Tail(r) = <<Pass(Inners), Acq(Inner(p)), Rel(Parents), Off(p), Rel(Inner(p))>>
      BY <3>1 DEF Exit, Wakeup
    <3>3. Inners \in SUBSET (Inners \cup Leaf)
      BY <1>1, LockFacts DEF Leaf
    <3>4. Tests(Tail(r), h \cup {Parents}, p)
      BY <1>0, <1>1, <3>2, <3>3 DEF Tests, SleepLocks
    <3> QED
      BY <3>2, <3>4, OneOp, Zenon DEF Stage
  <2>3. CASE name = "wait_reap"
    <3>1. r = WaitReap(q)
      BY <1>1, <2>3 DEF ProcPath
    <3>2. /\ r # <<>> /\ Head(r) = Acq(Parents)
          /\ Tail(r) = <<Acq(Inner(q)), Pass({Kmem}), Rel(Inner(q)), Rel(Parents)>>
      BY <3>1 DEF WaitReap
    <3>3. Finds(Tail(r), h \cup {Parents})
      BY <1>0, <1>1, <3>2 DEF Finds
    <3> QED
      BY <3>2, <3>3, OneOp, Zenon DEF Stage
  <2>4. CASE name = "wait_sleep"
    <3>1. r = WaitSleep(p, q)
      BY <1>1, <2>4 DEF ProcPath
    <3>2. r = <<Acq(Parents), Pass({Inner(q), Inner(p)}),
                Acq(Inner(p)), Rel(Parents), Off(p), Rel(Inner(p))>>
      BY <3>1, Prefix DEF WaitSleep
    <3>3. /\ r # <<>> /\ Head(r) = Acq(Parents)
          /\ Tail(r) = <<Pass({Inner(q), Inner(p)}),
                         Acq(Inner(p)), Rel(Parents), Off(p), Rel(Inner(p))>>
      BY <3>2
    <3>4. {Inner(q), Inner(p)} \in SUBSET (Inners \cup Leaf)
      BY <1>1, LockFacts DEF Leaf
    <3>5. Tests(Tail(r), h \cup {Parents}, p)
      BY <1>0, <1>1, <3>3, <3>4 DEF Tests, SleepLocks
    <3> QED
      BY <3>3, <3>5, OneOp, Zenon DEF Stage
  <2>5. CASE name = "yield"
    <3>1. r = Yield(p)
      BY <1>1, <2>5 DEF ProcPath
    <3>2. r # <<>> /\ Head(r) = Acq(Inner(p)) /\ Tail(r) = <<Off(p), Rel(Inner(p))>>
      BY <3>1 DEF Yield
    <3>3. Leaves(Tail(r), h \cup {Inner(p)}, p)
      BY <1>0, <1>1, <3>2 DEF Leaves
    <3> QED
      BY <3>2, <3>3, OneOp, Zenon DEF Stage
  <2>6. CASE name = "cond_sleep"
    <3>1. r = CondSleep(p)
      BY <1>1, <2>6 DEF ProcPath
    <3>2. r = <<Acq(Cond), Pass({Inner(p), Bcache, Kmem}),
                Acq(Inner(p)), Rel(Cond), Off(p), Rel(Inner(p))>>
      BY <3>1, Prefix DEF CondSleep
    <3>3. /\ r # <<>> /\ Head(r) = Acq(Cond)
          /\ Tail(r) = <<Pass({Inner(p), Bcache, Kmem}),
                         Acq(Inner(p)), Rel(Cond), Off(p), Rel(Inner(p))>>
      BY <3>2
    <3>4. {Inner(p), Bcache, Kmem} \in SUBSET (Inners \cup Leaf)
      BY <1>1, LockFacts DEF Leaf
    <3>5. Tests(Tail(r), h \cup {Cond}, p)
      BY <1>0, <1>1, <3>3, <3>4 DEF Tests, SleepLocks
    <3> QED
      BY <3>3, <3>5, OneOp, Zenon DEF Stage
  <2>7. CASE name = "close"
    <3>1. r = Close(p)
      BY <1>1, <2>7 DEF ProcPath
    <3>2. r # <<>> /\ Head(r) = Acq(Ftable) /\ Tail(r) = <<Pass({Inner(p)}), Rel(Ftable)>>
      BY <3>1 DEF Close
    <3>3. Nests(Tail(r), h \cup {Ftable}, p)
      BY <1>0, <1>1, <3>2 DEF Nests
    <3> QED
      BY <3>2, <3>3, OneOp DEF Stage
  <2>8. CASE name = "put_unlinked"
    <3>1. r = PutUnlinked(p)
      BY <1>1, <2>8 DEF ProcPath
    <3>2. r # <<>> /\ Head(r) = Acq(Itable) /\ Tail(r) = <<Pass({Inner(p)}), Rel(Itable)>>
      BY <3>1 DEF PutUnlinked
    <3>3. Nests(Tail(r), h \cup {Itable}, p)
      BY <1>0, <1>1, <3>2 DEF Nests
    <3> QED
      BY <3>2, <3>3, OneOp DEF Stage
  <2>9. CASE name = "cons_read"
    <3>1. r = ConsoleRead(p)
      BY <1>1, <2>9 DEF ProcPath
    <3>2. r = <<Acq(ConsoleL), Pass({Inner(p), Kmem}),
                Acq(Inner(p)), Rel(ConsoleL), Off(p), Rel(Inner(p))>>
      BY <3>1, Prefix DEF ConsoleRead
    <3>3. /\ r # <<>> /\ Head(r) = Acq(ConsoleL)
          /\ Tail(r) = <<Pass({Inner(p), Kmem}),
                         Acq(Inner(p)), Rel(ConsoleL), Off(p), Rel(Inner(p))>>
      BY <3>2
    <3>4. {Inner(p), Kmem} \in SUBSET (Inners \cup Leaf)
      BY <1>1, LockFacts DEF Leaf
    <3>5. Tests(Tail(r), h \cup {ConsoleL}, p)
      BY <1>0, <1>1, <3>3, <3>4 DEF Tests, SleepLocks
    <3> QED
      BY <3>3, <3>5, OneOp, Zenon DEF Stage
  <2>10. CASE name = "cons_write"
    <3>1. r = ConsoleWrite(p)
      BY <1>1, <2>10 DEF ProcPath
    <3>2. r = <<Acq(UartL), Acq(Inner(p)), Rel(UartL), Off(p), Rel(Inner(p))>>
      BY <3>1, Prefix DEF ConsoleWrite
    <3>3. r # <<>> /\ Head(r) = Acq(UartL) /\ Tail(r) = SleepOn(p, UartL)
      BY <3>2 DEF SleepOn
    <3>4. Sleeps(Tail(r), h \cup {UartL}, p)
      BY <1>0, <1>1, <3>3 DEF Sleeps, SleepLocks
    <3> QED
      BY <3>3, <3>4, OneOp, Zenon DEF Stage
  <2> QED
    BY <2>1, <2>2, <2>3, <2>4, <2>5, <2>6, <2>7, <2>8, <2>9, <2>10 DEF Named
<1>2. CASE r = CondWake
  <2>1. /\ r # <<>> /\ Head(r) = Acq(Cond)
        /\ Tail(r) = <<Pass({Bcache, Kmem}), Wakeup, Rel(Cond)>>
    BY <1>2 DEF CondWake
  <2>2. Wakes(Tail(r), h \cup {Cond})
    BY <1>0, <1>2, <2>1 DEF Wakes
  <2> QED
    BY <2>1, <2>2, OneOp, Zenon DEF Stage
<1>3. CASE r = UartIntr
  <2>1. /\ r # <<>> /\ Head(r) = Acq(UartL)
        /\ Tail(r) = <<Wakeup, Rel(UartL), Acq(ConsoleL), Pass({UartL} \cup Inners), Rel(ConsoleL)>>
    BY <1>3 DEF UartIntr
  <2>2. Wakes(Tail(r), h \cup {UartL})
    BY <1>0, <1>3, <2>1 DEF Wakes
  <2> QED
    BY <2>1, <2>2, OneOp, Zenon DEF Stage
<1>4. CASE r = Echo
  <2>1. /\ r # <<>> /\ Head(r) = Acq(ConsoleL)
        /\ Tail(r) = <<Pass({UartL} \cup Inners), Rel(ConsoleL)>>
    BY <1>4 DEF Echo
  <2>2. Wakes(Tail(r), h \cup {ConsoleL})
    BY <1>0, <1>4, <2>1 DEF Wakes
  <2> QED
    BY <2>1, <2>2, OneOp DEF Stage
<1>5. CASE n \in Slots /\ r = Schedule(n)
  <2>1. /\ r # <<>> /\ Head(r) = Acq(Inner(n)) /\ m = n
        /\ Tail(r) = <<On(n), Rel(Inner(n))>>
    BY <1>5 DEF Schedule
  <2>2. Dispatches(Tail(r), h \cup {Inner(n)}, m)
    BY <1>0, <1>5, <2>1 DEF Dispatches
  <2> QED
    BY <2>1, <2>2, OneOp, Zenon DEF Stage
<1> QED
  BY <1>1, <1>2, <1>3, <1>4, <1>5 DEF Enters

\* The other stages.
LEMMA RestGoes ==
  ASSUME NEW r, NEW h, NEW p, NEW n, NEW m, Len(r) # 1 => m = n,
         \/ Ends(r, h) \/ Copies(r, h, n) \/ Finds(r, h) \/ Reaps(r, h)
         \/ Wakes(r, h) \/ Nests(r, h, p) \/ Dispatches(r, h, n)
  PROVE  Goes(r, h, p, m)
<1>1. CASE Ends(r, h)
  <2>1. PICK l \in Locks \ Leaf : h = {l} /\ r = <<Rel(l)>>
    BY <1>1 DEF Ends
  <2>2. r # <<>> /\ Head(r) = Rel(l) /\ Tail(r) = <<>> /\ l \in h /\ h \ {l} = {}
    BY <2>1
  <2> QED
    BY <2>2, OneOp, Zenon DEF Stage
<1>2. CASE Copies(r, h, n)
  <2>1. r # <<>> /\ Head(r) = Pass({Kmem, Ftable, Itable}) /\ Tail(r) = <<Rel(Inner(n))>>
    BY <1>2 DEF Copies
  <2>2. Ends(Tail(r), h)
    BY <1>2, <2>1, LockFacts DEF Copies, Ends
  <2> QED
    BY <2>1, <2>2, OneOp DEF Stage
<1>3. CASE Finds(r, h)
  <2>1. PICK q \in Slots : /\ h = {Parents}
                           /\ r = <<Acq(Inner(q)), Pass({Kmem}), Rel(Inner(q)), Rel(Parents)>>
    BY <1>3 DEF Finds
  <2>2. /\ r # <<>> /\ Head(r) = Acq(Inner(q))
        /\ Tail(r) = <<Pass({Kmem}), Rel(Inner(q)), Rel(Parents)>>
    BY <2>1
  <2>3. Reaps(Tail(r), h \cup {Inner(q)})
    BY <2>1, <2>2 DEF Reaps
  <2> QED
    BY <2>2, <2>3, OneOp, Zenon DEF Stage
<1>4. CASE Reaps(r, h)
  <2>1. PICK q \in Slots : /\ h = {Parents, Inner(q)}
                           /\ r \in {<<Pass({Kmem}), Rel(Inner(q)), Rel(Parents)>>,
                                     <<Rel(Inner(q)), Rel(Parents)>>}
    BY <1>4 DEF Reaps
  <2>2. CASE r = <<Pass({Kmem}), Rel(Inner(q)), Rel(Parents)>>
    <3>1. r # <<>> /\ Head(r) = Pass({Kmem}) /\ Tail(r) = <<Rel(Inner(q)), Rel(Parents)>>
      BY <2>2
    <3>2. Reaps(Tail(r), h)
      BY <2>1, <3>1 DEF Reaps
    <3> QED
      BY <3>1, <3>2, OneOp DEF Stage
  <2>3. CASE r = <<Rel(Inner(q)), Rel(Parents)>>
    <3>1. r # <<>> /\ Head(r) = Rel(Inner(q)) /\ Tail(r) = <<Rel(Parents)>> /\ Inner(q) \in h
      BY <2>1, <2>3
    <3>2. h \ {Inner(q)} = {Parents} /\ Parents \in Locks \ Leaf
      BY <2>1, LockFacts DEF SleepLocks
    <3>3. Ends(Tail(r), h \ {Inner(q)})
      BY <3>1, <3>2 DEF Ends
    <3> QED
      BY <3>1, <3>3, OneOp DEF Stage
  <2> QED
    BY <2>1, <2>2, <2>3
<1>5. CASE Wakes(r, h)
  <2>1. CASE h = {Cond} /\ r = <<Pass({Bcache, Kmem}), Wakeup, Rel(Cond)>>
    <3>1. /\ r # <<>> /\ Head(r) = Pass({Bcache, Kmem})
          /\ Tail(r) = <<Wakeup, Rel(Cond)>>
      BY <2>1
    <3>2. Wakes(Tail(r), h)
      BY <2>1, <3>1 DEF Wakes
    <3> QED
      BY <3>1, <3>2, OneOp DEF Stage
  <2>2. CASE h = {Cond} /\ r = <<Wakeup, Rel(Cond)>>
    <3>1. /\ r # <<>> /\ Head(r) = Pass(Inners)
          /\ Tail(r) = <<Rel(Cond)>>
      BY <2>2 DEF Wakeup
    <3>2. Ends(Tail(r), h)
      BY <2>2, <3>1, LockFacts DEF Ends, SleepLocks
    <3> QED
      BY <3>1, <3>2, OneOp DEF Stage
  <2>3. CASE /\ h = {UartL}
             /\ r = <<Wakeup, Rel(UartL), Acq(ConsoleL), Pass({UartL} \cup Inners), Rel(ConsoleL)>>
    <3>1. /\ r # <<>> /\ Head(r) = Pass(Inners)
          /\ Tail(r) = <<Rel(UartL), Acq(ConsoleL), Pass({UartL} \cup Inners), Rel(ConsoleL)>>
      BY <2>3 DEF Wakeup
    <3>2. Wakes(Tail(r), h)
      BY <2>3, <3>1 DEF Wakes
    <3> QED
      BY <3>1, <3>2, OneOp DEF Stage
  <2>4. CASE /\ h = {UartL}
             /\ r = <<Rel(UartL), Acq(ConsoleL), Pass({UartL} \cup Inners), Rel(ConsoleL)>>
    <3>1. /\ r # <<>> /\ Head(r) = Rel(UartL)
          /\ Tail(r) = Echo
      BY <2>4 DEF Echo
    <3>2. UartL \in h /\ Enters(Tail(r), h \ {UartL}, p, m)
      BY <2>4, <3>1 DEF Enters
    <3> QED
      BY <3>1, <3>2, OneOp DEF Stage
  <2>5. CASE h = {ConsoleL} /\ r = <<Pass({UartL} \cup Inners), Rel(ConsoleL)>>
    <3>1. /\ r # <<>> /\ Head(r) = Pass({UartL} \cup Inners)
          /\ Tail(r) = <<Rel(ConsoleL)>>
      BY <2>5
    <3>2. Ends(Tail(r), h)
      BY <2>5, <3>1, LockFacts DEF Ends, SleepLocks
    <3> QED
      BY <3>1, <3>2, OneOp DEF Stage
  <2> QED
    BY <1>5, <2>1, <2>2, <2>3, <2>4, <2>5 DEF Wakes
<1>6. CASE Nests(r, h, p)
  <2>1. PICK l \in {Ftable, Itable} : h = {l} /\ r = <<Pass({Inner(p)}), Rel(l)>>
    BY <1>6 DEF Nests
  <2>2. r # <<>> /\ Head(r) = Pass({Inner(p)}) /\ Tail(r) = <<Rel(l)>>
    BY <2>1
  <2>3. Ends(Tail(r), h)
    BY <2>1, <2>2, LockFacts DEF Ends
  <2> QED
    BY <2>2, <2>3, OneOp DEF Stage
<1>7. CASE Dispatches(r, h, n)
  <2>1. r # <<>> /\ Head(r) = On(n) /\ Tail(r) = <<Rel(Inner(n))>> /\ Len(r) = 2
    BY <1>7 DEF Dispatches
  <2>2. m = n /\ n \in Slots /\ h = {Inner(n)}
    BY <1>7, <2>1 DEF Dispatches
  <2>3. Ends(Tail(r), h)
    BY <2>1, <2>2, LockFacts DEF Ends
  <2> QED
    BY <2>1, <2>2, <2>3, OneOp DEF Stage
<1> QED
  BY <1>1, <1>2, <1>3, <1>4, <1>5, <1>6, <1>7

\* Every operation leads from a stage to a stage.
LEMMA StageGoes ==
  ASSUME NEW r, NEW h, NEW p, NEW n, NEW m, Stage(r, h, p, n), r # <<>>,
         Len(r) # 1 => m = n
  PROVE  Goes(r, h, p, m)
BY SleepGoes, EntersGoes, RestGoes, Zenon DEF Stage

-----------------------------------------------------------------------------
(* What a stage wants, and under which locks.                              *)

Wants(r) == IF r = <<>> \/ Head(r).do \notin {"acq", "pass"} THEN {} ELSE Head(r).locks

\* A lock l may be wanted under the locks h: the order of the locks, and the one
\* exception, the sleep lock that close and put take under a table lock.
Ordered(h, p, n, l) ==
  /\ Ftable \in h \/ Itable \in h => p \in Slots /\ l = Inner(p) /\ h \cap Inners = {}
  /\ \A i \in Slots : Inner(i) \in h =>
       l = Kmem \/ (l \in {Kmem, Ftable, Itable} /\ n = i)
  /\ UartL \in h => l \in Inners \cup Leaf
  /\ h \cap {Parents, Cond, ConsoleL} # {} => l \in Inners \cup Leaf \cup {UartL}

\* Nothing waits while it holds KMEM or the lock of the buffer cache.
LEMMA LeafFree ==
  ASSUME NEW r, NEW h, NEW p, NEW n, Stage(r, h, p, n)
  PROVE  h \cap Leaf = {}
BY LockFacts DEF Stage, Enters, Ends, Tests, Sleeps, Unlocks, Leaves, Copies, Finds,
   Reaps, Wakes, Nests, Dispatches, SleepLocks

\* What the operations want.
LEMMA OpWants ==
  ASSUME NEW r, r # <<>>
  PROVE  /\ \A l : Head(r) = Acq(l) => Wants(r) = {l}
         /\ \A L : Head(r) = Pass(L) => Wants(r) = L
         /\ \A l : Head(r) = Rel(l) => Wants(r) = {}
         /\ \A p : Head(r) = Off(p) \/ Head(r) = On(p) => Wants(r) = {}
<1>1. ASSUME NEW l, Head(r) = Acq(l) PROVE Wants(r) = {l}
  <2>1. Head(r).do = "acq" /\ Head(r).locks = {l}
    BY <1>1 DEF Acq
  <2> QED
    BY <2>1 DEF Wants
<1>2. ASSUME NEW L, Head(r) = Pass(L) PROVE Wants(r) = L
  <2>1. Head(r).do = "pass" /\ Head(r).locks = L
    BY <1>2 DEF Pass
  <2> QED
    BY <2>1 DEF Wants
<1>3. ASSUME NEW l, Head(r) = Rel(l) PROVE Wants(r) = {}
  <2>1. Head(r).do = "rel"
    BY <1>3 DEF Rel
  <2> QED
    BY <2>1 DEF Wants
<1>4. ASSUME NEW p, Head(r) = Off(p) \/ Head(r) = On(p) PROVE Wants(r) = {}
  <2>1. Head(r).do \in {"on", "off"}
    BY <1>4 DEF On, Off
  <2> QED
    BY <2>1 DEF Wants
<1> QED
  BY <1>1, <1>2, <1>3, <1>4

\* Every stage keeps the order.
LEMMA StageOrdered ==
  ASSUME NEW r, NEW h, NEW p, NEW n, Stage(r, h, p, n), NEW l \in Wants(r)
  PROVE  Ordered(h, p, n, l)
<1>1. CASE h = {}
  BY <1>1 DEF Ordered
<1>2. CASE Ends(r, h) \/ Unlocks(r, h, p) \/ Leaves(r, h, p) \/ Dispatches(r, h, n)
  <2>1. r # <<>> /\ \E k : Head(r) = Rel(k) \/ Head(r) = Off(k) \/ Head(r) = On(k)
    BY <1>2 DEF Ends, Unlocks, Leaves, Dispatches
  <2> QED
    BY <2>1, OpWants
<1>3. CASE Tests(r, h, p)
  <2>1. PICK k \in SleepLocks, L \in SUBSET (Inners \cup Leaf) :
          h = {k} /\ r # <<>> /\ Head(r) = Pass(L)
    BY <1>3 DEF Tests
  <2>2. l \in Inners \cup Leaf
    BY <2>1, OpWants
  <2> QED
    BY <2>1, <2>2, LockFacts DEF Ordered, SleepLocks
<1>4. CASE Sleeps(r, h, p)
  <2>1. PICK k \in SleepLocks : h = {k} /\ r # <<>> /\ Head(r) = Acq(Inner(p)) /\ p \in Slots
    BY <1>4 DEF Sleeps, SleepOn
  <2>2. l \in Inners
    BY <2>1, OpWants, LockFacts
  <2> QED
    BY <2>1, <2>2, LockFacts DEF Ordered, SleepLocks
<1>5. CASE Copies(r, h, n)
  <2>1. n \in Slots /\ h = {Inner(n)} /\ r # <<>> /\ Head(r) = Pass({Kmem, Ftable, Itable})
    BY <1>5 DEF Copies
  <2>2. l \in {Kmem, Ftable, Itable}
    BY <2>1, OpWants
  <2> QED
    BY <2>1, <2>2, LockFacts DEF Ordered, SleepLocks
<1>6. CASE Finds(r, h)
  <2>1. PICK q \in Slots : h = {Parents} /\ r # <<>> /\ Head(r) = Acq(Inner(q))
    BY <1>6 DEF Finds
  <2>2. l \in Inners
    BY <2>1, OpWants, LockFacts
  <2> QED
    BY <2>1, <2>2, LockFacts DEF Ordered, SleepLocks
<1>7. CASE Reaps(r, h)
  <2>1. PICK q \in Slots : /\ h = {Parents, Inner(q)} /\ r # <<>>
                           /\ Head(r) = Pass({Kmem}) \/ Head(r) = Rel(Inner(q))
    BY <1>7 DEF Reaps
  <2>2. Wants(r) = {Kmem} \/ Wants(r) = {}
    BY <2>1, OpWants
  <2>3. l = Kmem
    BY <2>2
  <2>4. Ftable \notin h /\ Itable \notin h /\ UartL \notin h
    BY <2>1, LockFacts DEF SleepLocks
  <2> QED
    BY <2>3, <2>4 DEF Ordered, Leaf
<1>8. CASE Wakes(r, h)
  <2>1. /\ r # <<>>
        /\ \/ h = {Cond} /\ (Head(r) = Pass({Bcache, Kmem}) \/ Head(r) = Pass(Inners))
           \/ h = {UartL} /\ (Head(r) = Pass(Inners) \/ Head(r) = Rel(UartL))
           \/ h = {ConsoleL} /\ Head(r) = Pass({UartL} \cup Inners)
    BY <1>8, SMTT(60) DEF Wakes, Wakeup
  <2>2. \/ h = {Cond} /\ l \in Inners \cup Leaf
        \/ h = {UartL} /\ l \in Inners
        \/ h = {ConsoleL} /\ l \in {UartL} \cup Inners
    BY <2>1, OpWants DEF Leaf
  <2> QED
    BY <2>2, LockFacts DEF Ordered, SleepLocks
<1>9. CASE Nests(r, h, p)
  <2>1. PICK k \in {Ftable, Itable} :
          h = {k} /\ p \in Slots /\ r # <<>> /\ Head(r) = Pass({Inner(p)})
    BY <1>9 DEF Nests
  <2>2. l = Inner(p)
    BY <2>1, OpWants
  <2> QED
    BY <2>1, <2>2, LockFacts DEF Ordered, SleepLocks
<1> QED
  BY <1>1, <1>2, <1>3, <1>4, <1>5, <1>6, <1>7, <1>8, <1>9 DEF Stage, Enters

-----------------------------------------------------------------------------
(* The invariant.                                                          *)

\* The operations of a path are of the type TypeOK gives them.
LEMMA OpTypes ==
  /\ \A l \in Locks : Acq(l) \in Op /\ Rel(l) \in Op
  /\ \A L \in SUBSET Locks : Pass(L) \in Op
  /\ \A p \in Slots : On(p) \in Op /\ Off(p) \in Op
  /\ Wakeup \in Op
BY LockFacts DEF Acq, Rel, Pass, On, Off, Op, Wakeup

\* The paths are sequences of operations.
LEMMA PathTypes ==
  ASSUME NEW p \in Slots, NEW q \in Slots
  PROVE  /\ \A name \in Named : ProcPath(name, p, q) \in Seq(Op)
         /\ CondWake \in Seq(Op) /\ UartIntr \in Seq(Op) /\ Schedule(q) \in Seq(Op)
<1>1. /\ {Inner(p), Inner(q), Parents, Ftable, Itable, Kmem, Bcache, Cond, ConsoleL,
          UartL} \subseteq Locks
      /\ Inners \subseteq Locks
  BY LockFacts DEF Locks
<1>2. /\ \A l \in Locks : Acq(l) \in Op /\ Rel(l) \in Op
      /\ \A L \in SUBSET Locks : Pass(L) \in Op
      /\ On(q) \in Op /\ Off(p) \in Op /\ Wakeup \in Op
  BY OpTypes
<1>3. \A l \in SleepLocks : SleepOn(p, l) \in Seq(Op)
  BY <1>1, <1>2 DEF SleepOn, SleepLocks
<1>4. CondWake \in Seq(Op) /\ UartIntr \in Seq(Op) /\ Schedule(q) \in Seq(Op)
  BY <1>1, <1>2 DEF CondWake, UartIntr, Schedule
<1>5. Fork(q) \in Seq(Op) /\ Exit(p) \in Seq(Op) /\ WaitReap(q) \in Seq(Op) /\ Yield(p) \in Seq(Op)
  BY <1>1, <1>2 DEF Fork, Exit, WaitReap, Yield
<1>6. Close(p) \in Seq(Op) /\ PutUnlinked(p) \in Seq(Op) /\ PutLinked(p) \in Seq(Op)
  BY <1>1, <1>2 DEF Close, PutUnlinked, PutLinked
<1>7. /\ WaitSleep(p, q) \in Seq(Op) /\ CondSleep(p) \in Seq(Op)
      /\ ConsoleRead(p) \in Seq(Op) /\ ConsoleWrite(p) \in Seq(Op)
  BY <1>1, <1>2, <1>3 DEF WaitSleep, CondSleep, ConsoleRead, ConsoleWrite, SleepLocks
<1>8. \A name \in Named : ProcPath(name, p, q) \in Seq(Op)
  BY <1>5, <1>6, <1>7 DEF Named, ProcPath
<1> QED
  BY <1>4, <1>8

\* A lock operation keeps every CPU at a stage of its path.
LEMMA LockStepHolds == ASSUME Inv, NEW c \in CPUs, LockStep(c) PROVE Inv'
<1> DEFINE op == Head(rest[c])
<1>1. rest[c] \in Seq(Op) /\ rest[c] # <<>>
  BY DEF Inv, TypeOK, LockStep, Idle
<1>2. op \in Op /\ op.do \in {"acq", "rel", "pass"} /\ Tail(rest[c]) \in Seq(Op)
  BY <1>1 DEF LockStep
<1>3. op.locks \subseteq Locks
  BY <1>2 DEF Op
<1>4. /\ rest' = [rest EXCEPT ![c] = Tail(rest[c])] /\ cur' = cur
      /\ claimed' = [claimed EXCEPT ![c] = IF Len(rest[c]) = 1 THEN None ELSE @]
      /\ op.do # "rel" => \E l \in op.locks : holder[l] = None
      /\ holder' = [l \in Locks |-> IF op.do = "pass" \/ l \notin op.locks THEN holder[l]
                                    ELSE IF op.do = "acq" THEN c ELSE None]
  BY DEF LockStep
<1>5. TypeOK'
  BY <1>2, <1>4 DEF Inv, TypeOK
<1>6. Goes(rest[c], Held(c), cur[c], claimed'[c])
  <2>1. Stage(rest[c], Held(c), cur[c], claimed[c])
    BY DEF Inv, StageInv
  <2>2. Len(rest[c]) # 1 => claimed'[c] = claimed[c]
    BY <1>4 DEF Inv, TypeOK
  <2> QED
    BY <1>1, <2>1, <2>2, StageGoes
<1>7. /\ op.do = "acq" => \E l : op.locks = {l}
      /\ op.do = "rel" => op.locks \subseteq Held(c)
  BY <1>6, SMTT(60) DEF Goes
<1>8. \A d \in CPUs : d # c => Held(d)' = Held(d)
  BY <1>2, <1>4, <1>7, LockOrderAssumption DEF Held
<1>9. Held(c)' = IF op.do = "pass" THEN Held(c)
                 ELSE IF op.do = "acq" THEN Held(c) \cup op.locks ELSE Held(c) \ op.locks
  BY <1>2, <1>3, <1>4, LockOrderAssumption DEF Held
<1>10. Stage(Tail(rest[c]), Held(c)', cur[c], claimed'[c])
  BY <1>2, <1>6, <1>9 DEF Goes
<1>11. StageInv'
  <2>1. ASSUME NEW d \in CPUs, d # c PROVE Stage(rest[d], Held(d), cur[d], claimed[d])'
    <3>1. /\ rest'[d] = rest[d] /\ Held(d)' = Held(d)
          /\ cur'[d] = cur[d] /\ claimed'[d] = claimed[d]
      BY <1>4, <1>8, <2>1 DEF Inv, TypeOK
    <3> QED
      BY <3>1 DEF Inv, StageInv
  <2>2. Stage(rest[c], Held(c), cur[c], claimed[c])'
    <3>1. rest'[c] = Tail(rest[c]) /\ cur'[c] = cur[c]
      BY <1>4 DEF Inv, TypeOK
    <3> QED
      BY <1>10, <3>1
  <2> QED
    BY <2>1, <2>2 DEF StageInv
<1>12. ClaimInv'
  BY <1>4 DEF Inv, TypeOK, ClaimInv
<1> QED
  BY <1>5, <1>11, <1>12 DEF Inv

\* So does a switch.
LEMMA SwitchHolds == ASSUME Inv, NEW c \in CPUs, Switch(c) PROVE Inv'
<1> DEFINE op == Head(rest[c])
<1>1. rest[c] \in Seq(Op) /\ rest[c] # <<>> /\ Tail(rest[c]) \in Seq(Op)
  BY DEF Inv, TypeOK, Switch, Idle
<1>2. /\ rest' = [rest EXCEPT ![c] = Tail(rest[c])] /\ UNCHANGED <<holder, claimed>>
      /\ \/ op.do = "off" /\ cur' = [cur EXCEPT ![c] = None]
         \/ op.do = "on" /\ cur' = [cur EXCEPT ![c] = op.proc]
  BY DEF Switch
<1>3. Goes(rest[c], Held(c), cur[c], claimed[c])
  <2>1. Stage(rest[c], Held(c), cur[c], claimed[c])
    BY DEF Inv, StageInv
  <2> QED
    BY <1>1, <2>1, StageGoes
<1>4. /\ Stage(Tail(rest[c]), Held(c), cur'[c], claimed[c])
      /\ cur'[c] = None \/ (cur'[c] = claimed[c] /\ claimed[c] \in Slots)
  <2>1. CASE op.do = "off" /\ cur' = [cur EXCEPT ![c] = None]
    BY <1>3, <2>1 DEF Goes, Inv, TypeOK
  <2>2. CASE op.do = "on" /\ cur' = [cur EXCEPT ![c] = op.proc]
    <3>1. /\ op.proc = claimed[c] /\ claimed[c] \in Slots
          /\ Stage(Tail(rest[c]), Held(c), claimed[c], claimed[c])
      BY <1>3, <2>2 DEF Goes
    <3>2. cur'[c] = claimed[c]
      BY <2>2, <3>1 DEF Inv, TypeOK
    <3> QED
      BY <3>1, <3>2
  <2> QED
    BY <1>2, <2>1, <2>2
<1>5. \A d \in CPUs : Held(d)' = Held(d)
  BY <1>2 DEF Held
<1>6. \A d \in CPUs : d # c => rest'[d] = rest[d] /\ cur'[d] = cur[d]
  BY <1>2 DEF Inv, TypeOK
<1>7. TypeOK'
  BY <1>1, <1>2, <1>4, Zenon DEF Inv, TypeOK
<1>8. StageInv'
  <2>1. ASSUME NEW d \in CPUs, d # c PROVE Stage(rest[d], Held(d), cur[d], claimed[d])'
    BY <1>2, <1>5, <1>6, <2>1 DEF Inv, StageInv
  <2>2. Stage(rest[c], Held(c), cur[c], claimed[c])'
    <3>1. rest'[c] = Tail(rest[c]) /\ Held(c)' = Held(c) /\ claimed'[c] = claimed[c]
      BY <1>2, <1>5 DEF Inv, TypeOK
    <3> QED
      BY <1>4, <3>1
  <2> QED
    BY <2>1, <2>2 DEF StageInv
<1>9. ClaimInv'
  BY <1>2, <1>4, <1>6, LockFacts DEF Inv, ClaimInv
<1> QED
  BY <1>7, <1>8, <1>9 DEF Inv

\* Between two paths a CPU holds no lock.
LEMMA IdleHoldsNothing ==
  ASSUME NEW h, NEW p, NEW n, Stage(<<>>, h, p, n) PROVE h = {}
BY DEF Stage, Enters, Ends, Tests, Sleeps, SleepOn, Unlocks, Leaves, Copies, Finds, Reaps,
  Wakes, Nests, Dispatches

\* A path may start on an idle CPU when it claims a free process or none.
LEMMA StartHolds ==
  ASSUME Inv, NEW c \in CPUs, Idle(c), NEW path \in Seq(Op), NEW m \in Slots \cup {None},
         m \in {None, claimed[c]} \/ m \notin Claimed,
         Enters(path, {}, cur[c], m),
         rest' = [rest EXCEPT ![c] = path], claimed' = [claimed EXCEPT ![c] = m],
         UNCHANGED <<holder, cur>>
  PROVE  Inv'
<1>1. TypeOK'
  BY DEF Inv, TypeOK
<1>2. \A d \in CPUs : Held(d)' = Held(d)
  BY DEF Held
<1>3. Held(c) = {}
  BY IdleHoldsNothing DEF Inv, StageInv, Idle
<1>4. StageInv'
  <2>1. ASSUME NEW d \in CPUs, d # c PROVE Stage(rest[d], Held(d), cur[d], claimed[d])'
    <3>1. rest'[d] = rest[d] /\ Held(d)' = Held(d) /\ cur'[d] = cur[d] /\ claimed'[d] = claimed[d]
      BY <1>2, <2>1 DEF Inv, TypeOK
    <3> QED
      BY <3>1 DEF Inv, StageInv
  <2>2. Stage(rest[c], Held(c), cur[c], claimed[c])'
    <3>1. rest'[c] = path /\ Held(c)' = {} /\ cur'[c] = cur[c] /\ claimed'[c] = m
      BY <1>2, <1>3 DEF Inv, TypeOK
    <3>2. Stage(path, {}, cur[c], m)
      BY DEF Stage
    <3> QED
      BY <3>1, <3>2
  <2> QED
    BY <2>1, <2>2 DEF StageInv
<1>5. ClaimInv'
  <2>1. \A d \in CPUs : d # c => claimed'[d] = claimed[d]
    BY DEF Inv, TypeOK
  <2>2. claimed'[c] = m /\ cur' = cur
    BY DEF Inv, TypeOK
  <2>3. m # None => \A d \in CPUs : d # c => m # claimed[d] /\ m # cur[d]
    <3>1. CASE m = claimed[c]
      BY <3>1 DEF Inv, ClaimInv
    <3>2. CASE m \notin Claimed
      BY <3>2 DEF Claimed
    <3> QED
      BY <3>1, <3>2
  <2> QED
    BY <2>1, <2>2, <2>3 DEF Inv, ClaimInv
<1> QED
  BY <1>1, <1>4, <1>5 DEF Inv

\* The boot state satisfies the invariant.
LEMMA InitHolds == Init => Inv
<1> SUFFICES ASSUME Init PROVE Inv
  OBVIOUS
<1>1. TypeOK
  BY DEF Init, TypeOK
<1>2. \A c \in CPUs : Held(c) = {}
  BY LockOrderAssumption DEF Init, Held
<1>3. StageInv
  BY <1>2 DEF Init, StageInv, Stage
<1>4. ClaimInv
  BY DEF Init, ClaimInv
<1> QED
  BY <1>1, <1>3, <1>4 DEF Inv

\* The invariant is inductive as long as no path puts a linked inode.
LEMMA StepHolds == ASSUME "put_linked" \notin Paths, Inv, [Next]_vars PROVE Inv'
<1>1. ASSUME NEW c \in CPUs, StartIntr(c) PROVE Inv'
  <2>1. PICK path \in {CondWake, UartIntr} : rest' = [rest EXCEPT ![c] = path]
    BY <1>1, Zenon DEF StartIntr
  <2>2. 0 \in Slots
    BY LockOrderAssumption DEF Slots
  <2>3. path \in Seq(Op)
    BY <2>1, <2>2, PathTypes
  <2>4. Enters(path, {}, cur[c], claimed[c])
    BY <2>1 DEF Enters
  <2>5. /\ claimed' = [claimed EXCEPT ![c] = claimed[c]]
        /\ claimed[c] \in Slots \cup {None}
        /\ Idle(c) /\ UNCHANGED <<holder, cur>>
    BY <1>1 DEF StartIntr, Inv, TypeOK
  <2> QED
    BY <2>1, <2>3, <2>4, <2>5, StartHolds, Zenon
<1>2. ASSUME NEW c \in CPUs, NEW q \in Slots, StartSched(c, q) PROVE Inv'
  <2>1. Schedule(q) \in Seq(Op)
    BY PathTypes
  <2>2. Enters(Schedule(q), {}, cur[c], q)
    BY <1>2 DEF StartSched, Enters
  <2> QED
    BY <1>2, <2>1, <2>2, StartHolds, Zenon DEF StartSched
<1>3. ASSUME NEW c \in CPUs, NEW name \in Paths, NEW q \in Slots, StartProc(c, name, q)
      PROVE  Inv'
  <2> DEFINE m == IF name = "fork" THEN q ELSE None
  <2>1. cur[c] \in Slots
    BY <1>3 DEF StartProc, Inv, TypeOK
  <2>2. name \in Named \ {"put_linked"}
    BY LockOrderAssumption
  <2>3. ProcPath(name, cur[c], q) \in Seq(Op)
    BY <2>1, <2>2, PathTypes
  <2>4. Enters(ProcPath(name, cur[c], q), {}, cur[c], m)
    BY <2>1, <2>2 DEF Enters
  <2>5. m \in Slots \cup {None} /\ (m \in {None, claimed[c]} \/ m \notin Claimed)
    BY <1>3 DEF StartProc
  <2> QED
    BY <1>3, <2>3, <2>4, <2>5, StartHolds, Zenon DEF StartProc
<1>4. CASE UNCHANGED vars
  BY <1>4 DEF vars, Inv, TypeOK, StageInv, ClaimInv, Held
<1> QED
  BY <1>1, <1>2, <1>3, <1>4, LockStepHolds, SwitchHolds DEF Next

\* In every state of the invariant the waiting is not circular: follow a lock
\* that is wanted to its holder, which wants a lock further down the order.
LEMMA OrderHolds == Inv => NoCircularWait
<1> SUFFICES ASSUME Inv, NEW S \in (SUBSET CPUs) \ {{}},
                    ~\E c \in S : \A l \in Wanted(c) : holder[l] \notin S
             PROVE  FALSE
  BY Zenon DEF NoCircularWait
<1>1. ASSUME NEW c \in S
      PROVE  \E d \in S, l \in Locks : l \in Held(d) /\ Ordered(Held(c), cur[c], claimed[c], l)
  <2>1. PICK l \in Wanted(c) : holder[l] \in S
    OBVIOUS
  <2>2. l \in Wants(rest[c])
    BY <2>1 DEF Wanted, Idle, Wants
  <2>3. l \in Locks
    <3>1. rest[c] \in Seq(Op) /\ rest[c] # <<>> /\ Head(rest[c]).do \in {"acq", "pass"}
      BY <2>2 DEF Wants, Inv, TypeOK
    <3>2. Head(rest[c]) \in Op
      BY <3>1
    <3>3. Head(rest[c]).locks \subseteq Locks
      BY <3>1, <3>2 DEF Op
    <3> QED
      BY <2>2, <3>3 DEF Wants
  <2>4. Ordered(Held(c), cur[c], claimed[c], l)
    BY <2>2, StageOrdered DEF Inv, StageInv
  <2> QED
    BY <2>1, <2>3, <2>4, Zenon DEF Held
<1>2. \A c \in S : Held(c) \cap Leaf = {}
  BY LeafFree DEF Inv, StageInv
<1>3. ASSUME NEW c \in S PROVE Ftable \notin Held(c) /\ Itable \notin Held(c)
  <2> SUFFICES ASSUME Ftable \in Held(c) \/ Itable \in Held(c) PROVE FALSE
    OBVIOUS
  <2>1. PICK d \in S : /\ cur[c] \in Slots /\ Held(c) \cap Inners = {}
                       /\ Inner(cur[c]) \in Held(d)
    BY <1>1 DEF Ordered
  <2>2. d # c
    BY <2>1, LockFacts
  <2>3. claimed[d] = cur[c]
    <3>1. PICK e \in S, k \in Locks : k \in Held(e) /\ Ordered(Held(d), cur[d], claimed[d], k)
      BY <1>1
    <3>2. k # Kmem
      BY <1>2, <3>1 DEF Leaf
    <3> QED
      BY <2>1, <3>1, <3>2 DEF Ordered
  <2> QED
    BY <2>1, <2>2, <2>3, LockFacts DEF Inv, ClaimInv
<1>4. ASSUME NEW c \in S PROVE Held(c) \cap Inners = {}
  <2>1. PICK d \in S, l \in Locks : l \in Held(d) /\ Ordered(Held(c), cur[c], claimed[c], l)
    BY <1>1
  <2>2. l \notin {Kmem, Ftable, Itable}
    BY <1>2, <1>3, <2>1 DEF Leaf
  <2> QED
    BY <2>1, <2>2, LockFacts DEF Ordered
<1>5. ASSUME NEW c \in S PROVE UartL \notin Held(c)
  BY <1>1, <1>2, <1>4 DEF Ordered
<1>6. ASSUME NEW c \in S PROVE Held(c) \cap {Parents, Cond, ConsoleL} = {}
  BY <1>1, <1>2, <1>4, <1>5 DEF Ordered
<1>7. PICK c \in S, l \in Locks : l \in Held(c)
  <2>1. S # {}
    OBVIOUS
  <2> QED
    BY <1>1, <2>1
<1> QED
  BY <1>2, <1>3, <1>4, <1>5, <1>6, <1>7 DEF Locks, Leaf

-----------------------------------------------------------------------------
(* Results.  "put_linked" \notin Paths: Inode::put of a linked inode drops  *)
(* the inode's sleep lock, and so wakes its sleepers, under the table lock,*)
(* which the counterexample to PutSafe shows to be circular.               *)

\* For any number of CPUs and processes, each CPU is at a stage of its path
\* that fixes the locks it holds, and no process is claimed twice (fork,
\* stride_scheduler).
THEOREM Invariance == "put_linked" \notin Paths => (Spec => []Inv)
<1> SUFFICES ASSUME "put_linked" \notin Paths PROVE Spec => []Inv
  OBVIOUS
<1>1. Inv /\ [Next]_vars => Inv'
  BY StepHolds
<1> QED
  BY <1>1, InitHolds, PTL DEF Spec

\* No set of CPUs ever spins on locks held inside the set, so that every
\* SpinLock::lock on the modelled paths returns once the holders run on.
THEOREM NoSpinDeadlock == "put_linked" \notin Paths => (Spec => []NoCircularWait)
BY Invariance, OrderHolds, PTL

\* swtch is reached with the lock of the process that is left or entered and no
\* other, as sched asserts (proc.rs:1079).
THEOREM SwitchSafe == "put_linked" \notin Paths => (Spec => []SwitchHoldsInnerOnly)
<1>1. Inv => SwitchHoldsInnerOnly
  <2> SUFFICES ASSUME Inv, NEW c \in CPUs, ~Idle(c), Head(rest[c]).do \in {"on", "off"}
               PROVE  Held(c) = {Inner(Head(rest[c]).proc)}
    BY DEF SwitchHoldsInnerOnly, Held
  <2>1. Goes(rest[c], Held(c), cur[c], claimed[c])
    BY StageGoes DEF Inv, StageInv, Idle
  <2> QED
    BY <2>1 DEF Goes
<1> QED
  BY <1>1, Invariance, PTL
=============================================================================
