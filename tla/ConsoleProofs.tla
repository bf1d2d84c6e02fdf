--------------------------- MODULE ConsoleProofs ----------------------------
(***************************************************************************)
(* Proofs about Console and Uart: for any number of processes, any ring    *)
(* and any lengths of reads and outputs, the drivers keep their indices in *)
(* order, lose no wakeup, do not overrun the device and fall silent after  *)
(* a panic; and the ring implements the line-edited input of LineTty.      *)
(*                                                                         *)
(* The invariant is in two parts that share no variable: UartInv is about  *)
(* the transmitter, LineInv about the ring and its readers.                *)
(***************************************************************************)
EXTENDS Console, WellFoundedInduction, TLAPS

OutState == [pc : {"idle", "write", "asleep", "sync", "panic", "dying", "dead"}, left : 0..MaxOut]
Busy == {"write", "asleep", "sync", "panic"}

(* An output that is under way has bytes left, and whoever holds the lock polls. *)
OutputInv ==
  \A p \in Proc :
    /\ out[p].pc \in Busy => out[p].left >= 1
    /\ ulock = p => out[p].pc \in {"sync", "panic"}

(* tx_busy is down only while the device has at most the byte of a write_sync,
   and up only while an interrupt is to come; sleepers wait for it to go down. *)
BusyInv ==
  /\ ~tx_busy => fifo <= 1
  /\ tx_busy => fifo > 0 \/ txirq \/ ulock = INTR
  /\ \A p \in Proc : out[p].pc = "asleep" => tx_busy

(* Who printed after the panic holds the lock for it or will not poll again. *)
LateInv ==
  \A p \in Proc :
    late[p] # 0 => panicked /\ (out[p].pc \in {"sync", "panic"} => ulock = p)

UartInv ==
  /\ fifo \in 0..2
  /\ txirq \in BOOLEAN /\ tx_busy \in BOOLEAN /\ panicking \in BOOLEAN /\ panicked \in BOOLEAN
  /\ ulock \in Proc \cup {NONE, INTR}
  /\ out \in [Proc -> OutState] /\ late \in [Proc -> 0..1]
  /\ OutputInv /\ BusyInv /\ LateInv

RdState == [pc : {"idle", "read", "asleep"}, left : 0..ReadLen, got : 0..ReadLen]

(* A read lacks what it has not got; it sleeps while nothing is published. *)
ReadInv ==
  \A p \in Proc :
    /\ rd[p].pc # "idle" => rd[p].left >= 1 /\ rd[p].left + rd[p].got = ReadLen
    /\ rd[p].pc = "asleep" => r = w /\ p \notin killed

LineInv ==
  /\ buf \in [0..(INPUT_BUF_SIZE - 1) -> Char \cup {NONE}]
  /\ r \in Nat /\ w \in Nat /\ e \in Nat /\ IndicesOrdered
  /\ raw \in BOOLEAN /\ foreground_pid \in Proc \cup {NONE} /\ killed \subseteq Proc
  /\ rd \in [Proc -> RdState] /\ ReadInv
  /\ keys \in 0..MaxKeys /\ budget \in 0..MaxCalls

Inv == UartInv /\ LineInv

-----------------------------------------------------------------------------
(* The transmitter.                                                        *)

\* Nothing of the transmitter changes.
LEMMA UartQuiet == ASSUME UartInv, UNCHANGED uartVars PROVE UartInv'
BY DEF UartInv, OutputInv, BusyInv, LateInv, uartVars

\* A byte leaves the device, and the last one raises the interrupt.
LEMMA TransmitHolds == ASSUME UartInv, Transmit PROVE UartInv'
<1>0. txirq' \in BOOLEAN /\ (fifo = 1 => txirq')
  BY Zenon DEF Transmit
<1>1. /\ fifo' \in 0..2 /\ txirq' \in BOOLEAN /\ fifo' <= fifo
      /\ fifo' > 0 \/ txirq'
      /\ UNCHANGED <<tx_busy, ulock, out, panicking, panicked, late>>
  BY <1>0 DEF UartInv, Transmit
<1>2. OutputInv' /\ LateInv'
  BY <1>1 DEF UartInv, OutputInv, LateInv
<1>3. BusyInv'
  BY <1>1 DEF UartInv, BusyInv
<1> QED
  BY <1>1, <1>2, <1>3 DEF UartInv

\* The handler takes the lock; until it has read the status it stands for the
\* interrupt.
LEMMA AckHolds == ASSUME UartInv, Ack PROVE UartInv'
<1>1. OutputInv'
  BY UartAssumption DEF UartInv, OutputInv, Ack
<1>2. LateInv'
  BY UartAssumption DEF UartInv, LateInv, Ack
<1>3. BusyInv'
  BY DEF UartInv, BusyInv, Ack
<1> QED
  BY <1>1, <1>2, <1>3, Zenon DEF UartInv, Ack

\* The handler wakes the sleepers exactly when it clears tx_busy.
LEMMA IntrTestHolds == ASSUME UartInv, IntrTest PROVE UartInv'
<1>1. CASE fifo = 0
  <2>1. out' = Woken /\ tx_busy' = FALSE /\ ulock' = NONE /\ fifo' = 0
        /\ UNCHANGED <<txirq, panicking, panicked, late>>
    BY <1>1 DEF IntrTest
  <2>2. \A p \in Proc : /\ out'[p] \in OutState
                        /\ out'[p].pc = IF out[p].pc = "asleep" THEN "write" ELSE out[p].pc
                        /\ out'[p].left = out[p].left
    BY <2>1 DEF Woken, UartInv, OutState
  <2>3. out' \in [Proc -> OutState]
    BY <2>1, <2>2, Zenon DEF Woken
  <2>4. OutputInv'
    BY <2>1, <2>2, UartAssumption DEF UartInv, OutputInv, Busy
  <2>5. BusyInv'
    BY <2>1, <2>2 DEF BusyInv
  <2>6. LateInv'
    BY <2>2, UartAssumption DEF UartInv, LateInv, IntrTest
  <2>7. fifo' \in 0..2 /\ ulock' \in Proc \cup {NONE, INTR}
    BY <2>1
  <2>8. tx_busy' \in BOOLEAN
    BY <2>1, Zenon
  <2> QED
    BY <2>1, <2>3, <2>4, <2>5, <2>6, <2>8 DEF UartInv
<1>2. CASE fifo # 0
  <2>1. ulock = INTR /\ ulock' = NONE
        /\ UNCHANGED <<fifo, txirq, tx_busy, out, panicking, panicked, late>>
    BY <1>2 DEF IntrTest
  <2>2. OutputInv' /\ LateInv'
    BY <2>1, UartAssumption DEF UartInv, OutputInv, LateInv
  <2>3. BusyInv'
    BY <1>2, <2>1 DEF UartInv, BusyInv
  <2> QED
    BY <2>1, <2>2, <2>3 DEF UartInv
<1> QED
  BY <1>1, <1>2

\* write sends a byte only into a device that has at most one.
LEMMA WriteHolds == ASSUME UartInv, NEW p \in Proc, Write(p) PROVE UartInv'
<1>1. /\ out[p].pc = "write" /\ out[p].left \in 1..MaxOut /\ ulock = NONE
      /\ out[p] = [pc |-> "write", left |-> out[p].left]
      /\ UNCHANGED <<txirq, ulock, panicking, panicked, late>>
  BY DEF Write, UartInv, OutputInv, Busy, OutState
<1>2. PICK o : /\ Emit(p, o)
               /\ o \in OutState /\ o.pc \in {"idle", "asleep"}
               /\ o.pc = "asleep" => o.left >= 1 /\ tx_busy'
  <2>1. CASE panicking
    <3>1. Emit(p, Silent)
      BY <2>1 DEF Write
    <3> QED
      BY <3>1, UartAssumption DEF Silent, OutState
  <2>2. CASE ~panicking /\ tx_busy
    <3> DEFINE o == [out[p] EXCEPT !.pc = "asleep"]
    <3>1. Emit(p, o) /\ tx_busy'
      BY <2>2 DEF Write
    <3>2. o = [pc |-> "asleep", left |-> out[p].left]
      BY <1>1
    <3> QED
      BY <1>1, <3>1 DEF OutState
  <2>3. CASE ~panicking /\ ~tx_busy /\ out[p].left = 1
    <3>1. Emit(p, Silent)
      BY <2>3 DEF Write
    <3> QED
      BY <3>1, UartAssumption DEF Silent, OutState
  <2>4. CASE ~panicking /\ ~tx_busy /\ out[p].left # 1
    <3> DEFINE o == [pc |-> "asleep", left |-> out[p].left - 1]
    <3>1. Emit(p, o) /\ tx_busy'
      BY <2>4 DEF Write
    <3>2. o \in OutState /\ o.left >= 1
      BY <1>1, <2>4, UartAssumption DEF OutState
    <3> QED
      BY <3>1, <3>2
  <2> QED
    BY <2>1, <2>2, <2>3, <2>4
<1>3. /\ fifo' \in 0..2 /\ tx_busy' \in BOOLEAN
      /\ ~tx_busy' => fifo' <= 1
      /\ tx_busy' => fifo' > 0 \/ txirq
      /\ tx_busy => tx_busy'
  <2>1. fifo \in 0..2 /\ (~tx_busy => fifo <= 1) /\ (tx_busy => fifo > 0 \/ txirq)
        /\ tx_busy \in BOOLEAN
    BY <1>1, UartAssumption DEF UartInv, BusyInv
  <2>2. \/ UNCHANGED <<fifo, tx_busy>>
        \/ ~tx_busy /\ fifo' = fifo + 1 /\ tx_busy' = TRUE
    BY DEF Write
  <2>3. CASE UNCHANGED <<fifo, tx_busy>>
    BY <2>1, <2>3
  <2>4. CASE ~tx_busy /\ fifo' = fifo + 1 /\ tx_busy' = TRUE
    <3>1. tx_busy' \in BOOLEAN /\ tx_busy'
      BY <2>4, Zenon
    <3> QED
      BY <2>1, <2>4
  <2> QED
    BY <2>2, <2>3, <2>4, Zenon
<1>4. out' \in [Proc -> OutState] /\ out'[p] = o /\ \A q \in Proc \ {p} : out'[q] = out[q]
  BY <1>2 DEF Emit, UartInv
<1>5. OutputInv'
  BY <1>1, <1>2, <1>4 DEF UartInv, OutputInv, Busy
<1>6. BusyInv'
  BY <1>1, <1>2, <1>3, <1>4 DEF UartInv, BusyInv
<1>7. LateInv'
  BY <1>1, <1>2, <1>4 DEF UartInv, LateInv
<1> QED
  BY <1>1, <1>3, <1>4, <1>5, <1>6, <1>7 DEF UartInv

\* write_sync takes the lock; if the panic message is out, this is the one
\* output it had passed the test for.
LEMMA SyncLockHolds == ASSUME UartInv, NEW p \in Proc, SyncLock(p) PROVE UartInv'
<1>1. /\ out[p].pc \in {"sync", "panic"} /\ ulock = NONE /\ ulock' = p
      /\ late' = [late EXCEPT ![p] = IF panicked THEN late[p] + 1 ELSE late[p]]
      /\ UNCHANGED <<fifo, txirq, tx_busy, out, panicking, panicked>>
  BY DEF SyncLock
<1>2. late[p] = 0
  BY <1>1, UartAssumption DEF UartInv, LateInv
<1>3. late' \in [Proc -> 0..1] /\ (late'[p] # 0 => panicked)
      /\ \A q \in Proc \ {p} : late'[q] = late[q]
  BY <1>1, <1>2 DEF UartInv
<1>4. OutputInv'
  BY <1>1 DEF UartInv, OutputInv
<1>5. BusyInv'
  BY <1>1, UartAssumption DEF UartInv, BusyInv
<1>6. LateInv'
  <2>1. ASSUME NEW q \in Proc, late'[q] # 0
        PROVE  panicked /\ (out[q].pc \in {"sync", "panic"} => ulock' = q)
    <3>1. CASE q = p
      BY <1>1, <1>3, <2>1, <3>1
    <3>2. CASE q # p
      BY <1>1, <2>1, UartAssumption DEF UartInv, LateInv
    <3> QED
      BY <3>1, <3>2
  <2> QED
    BY <1>1, <2>1 DEF LateInv
<1> QED
  BY <1>1, <1>3, <1>4, <1>5, <1>6 DEF UartInv

\* write_sync sends into an empty device and lets go after the last byte.
LEMMA SyncByteHolds == ASSUME UartInv, NEW p \in Proc, SyncByte(p) PROVE UartInv'
<1>1. /\ ulock = p /\ out[p].pc \in {"sync", "panic"} /\ out[p].left \in 1..MaxOut
      /\ out[p] = [pc |-> out[p].pc, left |-> out[p].left]
      /\ fifo' = 1
      /\ UNCHANGED <<txirq, tx_busy, panicking, panicked, late>>
  BY DEF SyncByte, UartInv, OutputInv, Busy, OutState
<1>2. PICK o : /\ Emit(p, o)
               /\ o \in OutState
               /\ \/ o.pc = out[p].pc /\ o.left >= 1 /\ ulock' = p
                  \/ o.pc \in {"idle", "dying"} /\ ulock' = NONE
  <2>1. CASE out[p].left > 1
    <3> DEFINE o == [out[p] EXCEPT !.left = out[p].left - 1]
    <3>1. Emit(p, o) /\ ulock' = p
      BY <2>1 DEF SyncByte
    <3>2. o = [pc |-> out[p].pc, left |-> out[p].left - 1]
      BY <1>1
    <3>3. o \in OutState /\ o.left >= 1 /\ o.pc = out[p].pc
      BY <1>1, <2>1, UartAssumption DEF OutState
    <3> QED
      BY <3>1, <3>3, Zenon
  <2>2. CASE ~(out[p].left > 1)
    <3> DEFINE o == IF out[p].pc = "panic" THEN [pc |-> "dying", left |-> 0] ELSE Silent
    <3>1. Emit(p, o) /\ ulock' = NONE
      BY <2>2 DEF SyncByte
    <3>2. o \in OutState /\ o.pc \in {"idle", "dying"}
      BY UartAssumption DEF OutState, Silent
    <3> QED
      BY <3>1, <3>2
  <2> QED
    BY <2>1, <2>2
<1>3. out' \in [Proc -> OutState] /\ out'[p] = o /\ \A q \in Proc \ {p} : out'[q] = out[q]
  BY <1>2 DEF Emit, UartInv
<1>4. OutputInv'
  BY <1>1, <1>2, <1>3, UartAssumption DEF UartInv, OutputInv, Busy
<1>5. BusyInv'
  BY <1>1, <1>2, <1>3 DEF UartInv, BusyInv
<1>6. LateInv'
  BY <1>1, <1>2, <1>3 DEF UartInv, LateInv
<1> QED
  BY <1>1, <1>2, <1>3, <1>4, <1>5, <1>6 DEF UartInv

\* The output of one process becomes something that neither sleeps nor polls.
LEMMA EmitHolds ==
  ASSUME UartInv, NEW p \in Proc, NEW o \in OutState, Emit(p, o),
         out[p].pc \in {"idle", "dying"},
         o.pc \in Busy => o.left >= 1 /\ o.pc # "asleep",
         o.pc \in {"sync", "panic"} => ~panicked,
         UNCHANGED <<fifo, txirq, tx_busy, ulock, late>>,
         panicking' \in BOOLEAN, panicked' \in BOOLEAN, panicked => panicked'
  PROVE  UartInv'
<1>1. out' \in [Proc -> OutState] /\ out'[p] = o /\ \A q \in Proc \ {p} : out'[q] = out[q]
  BY DEF Emit, UartInv
<1>2. OutputInv'
  BY <1>1 DEF UartInv, OutputInv
<1>3. BusyInv'
  BY <1>1 DEF UartInv, BusyInv, Busy
<1>4. LateInv'
  BY <1>1 DEF UartInv, LateInv
<1> QED
  BY <1>1, <1>2, <1>3, <1>4 DEF UartInv

\* The panic message is out.
LEMMA PanicDoneHolds == ASSUME UartInv, NEW p \in Proc, PanicDone(p) PROVE UartInv'
<1>1. Dead \in OutState /\ Dead.pc = "dead"
  BY UartAssumption DEF Dead, OutState
<1> QED
  BY <1>1, EmitHolds DEF PanicDone, UartInv, Busy

\* An output begins, or is refused because the panic message is out.
LEMMA StartHolds ==
  ASSUME UartInv, NEW p \in Proc,
         \/ StartWrite(p, MaxOut) /\ UNCHANGED panicking
         \/ StartSync(p, MaxOut) /\ UNCHANGED panicking
         \/ Panic(p),
         UNCHANGED <<fifo, txirq, tx_busy, ulock, panicked, late>>
  PROVE  UartInv'
<1>1. Dead \in OutState /\ Dead.pc = "dead"
  BY UartAssumption DEF Dead, OutState
<1>2. ASSUME NEW a \in {"write", "sync", "panic"}
      PROVE  [pc |-> a, left |-> MaxOut] \in OutState
  BY UartAssumption DEF OutState
<1>3. PICK o \in OutState : /\ Emit(p, o)
                            /\ o.pc \in Busy => o.left >= 1 /\ o.pc # "asleep"
                            /\ o.pc \in {"sync", "panic"} => ~panicked
  <2>1. CASE StartWrite(p, MaxOut)
    BY <1>2, <2>1, UartAssumption DEF StartWrite
  <2>2. CASE StartSync(p, MaxOut)
    BY <1>1, <1>2, <2>2, UartAssumption DEF StartSync, Busy
  <2>3. CASE Panic(p)
    BY <1>1, <1>2, <2>3, UartAssumption DEF Panic, Busy
  <2> QED
    BY <2>1, <2>2, <2>3
<1>4. out[p].pc = "idle" /\ panicking' \in BOOLEAN
  BY Zenon DEF StartWrite, StartSync, Panic, UartInv
<1>5. panicked' \in BOOLEAN /\ (panicked => panicked')
  BY DEF UartInv
<1> QED
  BY <1>3, <1>4, <1>5, EmitHolds

\* The echo of a character goes into an empty device.
LEMMA EchoHolds ==
  ASSUME UartInv, Echo, UNCHANGED <<tx_busy, ulock, out, panicking, panicked, late>>
  PROVE  UartInv'
<1>1. OutputInv' /\ LateInv'
  BY DEF UartInv, OutputInv, LateInv
<1>2. BusyInv'
  BY DEF UartInv, BusyInv, Echo
<1> QED
  BY <1>1, <1>2 DEF UartInv, Echo

-----------------------------------------------------------------------------
(* Least and greatest numbers.                                             *)

\* A nonempty set of naturals has a least element.
LEMMA LeastNumber ==
  ASSUME NEW T, T \subseteq Nat, T # {}
  PROVE  \E x \in T : \A y \in T : x <= y
<1> DEFINE R == {ss \in Nat \X Nat : ss[1] < ss[2]}
<1>1. OpToRel(<, Nat) = R
  BY Zenon DEF OpToRel
<1>2. IsWellFoundedOn(R, Nat)
  BY Zenon, <1>1, NatLessThanWellFounded
<1>3. PICK x \in T : \A y \in T : ~(<<y, x>> \in R)
  BY <1>2, WFMin, Zenon
<1>4. ASSUME NEW y \in T PROVE x <= y
  <2>1. <<y, x>> \in Nat \X Nat
    OBVIOUS
  <2>2. ~(<<y, x>>[1] < <<y, x>>[2])
    BY <1>3, Zenon
  <2> QED
    BY <2>2
<1> QED
  BY <1>4

\* Min of a nonempty set of naturals.
LEMMA MinIs ==
  ASSUME NEW S, S \subseteq Nat, S # {}
  PROVE  Min(S) \in S /\ \A y \in S : Min(S) <= y
<1>1. \E x \in S : \A y \in S : x <= y
  BY LeastNumber, Zenon
<1> QED
  BY <1>1, Zenon DEF Min

\* Max of a nonempty set of naturals with an upper bound.
LEMMA MaxIs ==
  ASSUME NEW S, S \subseteq Nat, S # {}, NEW b \in Nat, \A y \in S : y <= b
  PROVE  Max(S) \in S /\ \A y \in S : Max(S) >= y
<1> DEFINE T == {b - y : y \in S}
<1>1. T \subseteq Nat /\ T # {}
  <2>1. \A y \in S : b - y \in Nat
    OBVIOUS
  <2> QED
    BY <2>1, Zenon
<1>2. PICK x \in T : \A y \in T : x <= y
  BY <1>1, LeastNumber, Zenon
<1>3. PICK z \in S : x = b - z
  OBVIOUS
<1>4. \A y \in S : z >= y
  <2> SUFFICES ASSUME NEW y \in S PROVE z >= y
    OBVIOUS
  <2>1. b - y \in T
    OBVIOUS
  <2>2. x <= b - y
    BY <1>2
  <2>3. y \in Nat /\ z \in Nat
    OBVIOUS
  <2> HIDE DEF T
  <2> QED
    BY <1>3, <2>2
<1>5. \E u \in S : \A y \in S : u >= y
  BY <1>4
<1> QED
  BY <1>5, Zenon DEF Max

-----------------------------------------------------------------------------
(* The ring and its readers.                                               *)

\* A stored character has its place in the ring.
LEMMA SlotIs == \A i \in Nat : i % INPUT_BUF_SIZE \in 0..(INPUT_BUF_SIZE - 1)
BY ConsoleAssumption

\* Nothing of the ring changes.
LEMMA LineQuiet ==
  ASSUME LineInv, UNCHANGED <<buf, r, w, e, raw, foreground_pid, rd, killed>>,
         keys' \in 0..MaxKeys, budget' \in 0..MaxCalls
  PROVE  LineInv'
BY DEF LineInv, ReadInv, IndicesOrdered

\* What a wakeup of readers leaves.
LEMMA WakeupIs ==
  ASSUME LineInv
  PROVE  \A p \in Proc : /\ Wakeup(rd)[p] \in RdState
                         /\ Wakeup(rd)[p].pc # "asleep"
                         /\ Wakeup(rd)[p].pc = "idle" <=> rd[p].pc = "idle"
                         /\ Wakeup(rd)[p].left = rd[p].left /\ Wakeup(rd)[p].got = rd[p].got
BY Zenon DEF LineInv, Wakeup, RdState

\* A character is published: everybody who waits for one is awake.
LEMMA PublishHolds ==
  ASSUME LineInv, Room, NEW c \in Char,
         buf' = [buf EXCEPT ![e % INPUT_BUF_SIZE] = c],
         e' = e + 1, w' = e + 1, rd' = Wakeup(rd), UNCHANGED <<r, raw, foreground_pid, killed>>,
         keys' \in 0..MaxKeys, budget' \in 0..MaxCalls
  PROVE  LineInv'
<1>1. IndicesOrdered' /\ r' \in Nat /\ w' \in Nat /\ e' \in Nat
  BY ConsoleAssumption DEF LineInv, IndicesOrdered, Room
<1>2. buf' \in [0..(INPUT_BUF_SIZE - 1) -> Char \cup {NONE}]
  BY Zenon DEF LineInv
<1>3. rd' \in [Proc -> RdState]
  BY WakeupIs DEF Wakeup
<1>4. ReadInv'
  BY WakeupIs DEF LineInv, ReadInv
<1> QED
  BY <1>1, <1>2, <1>3, <1>4 DEF LineInv

\* The line that is edited changes, and nobody is to be woken for it.
LEMMA EditHolds ==
  ASSUME LineInv, e' \in w..(r + INPUT_BUF_SIZE),
         buf' \in [0..(INPUT_BUF_SIZE - 1) -> Char \cup {NONE}],
         UNCHANGED <<r, w, foreground_pid, rd, killed>>, raw' \in BOOLEAN,
         keys' \in 0..MaxKeys, budget' \in 0..MaxCalls
  PROVE  LineInv'
<1>1. IndicesOrdered' /\ e' \in Nat
  BY DEF LineInv, IndicesOrdered
<1>2. ReadInv'
  BY DEF LineInv, ReadInv
<1> QED
  BY <1>1, <1>2 DEF LineInv

\* Erasing a line stops at what was published, or before.
LEMMA KillLineIs ==
  ASSUME LineInv, NEW c, KeyKillLine(c)
  PROVE  e' \in w..e /\ (e' # e => Echo) /\ (e' = e => UNCHANGED <<fifo, txirq>>)
<1> DEFINE S == {w} \cup {i \in (w + 1)..e : At(i - 1) = NL}
<1>1. S \subseteq Nat /\ S # {} /\ \A y \in S : y <= e
  BY DEF LineInv, IndicesOrdered
<1>2. Max(S) \in S /\ \A y \in S : Max(S) >= y
  <2> HIDE DEF S
  <2> QED
    BY <1>1, MaxIs, Zenon DEF LineInv
<1>3. Max(S) \in w..e
  BY <1>1, <1>2
<1>4. IF e # Max(S) THEN e' = Max(S) /\ Echo ELSE UNCHANGED <<e, fifo, txirq>>
  BY DEF KeyKillLine
<1> HIDE DEF S
<1> QED
  BY <1>3, <1>4

\* A typed character, in either mode.
LEMMA KeyHolds == ASSUME Inv, NEW c \in Char, Key(c) PROVE Inv'
<1>1. /\ keys' \in 0..MaxKeys /\ budget' \in 0..MaxCalls
      /\ UNCHANGED <<raw, foreground_pid, tx_busy, ulock, out, panicking, panicked, late>>
  BY ConsoleAssumption DEF Key, Inv, LineInv
<1>2. raw' \in BOOLEAN
  BY <1>1 DEF Inv, LineInv
<1>3. ASSUME UNCHANGED <<fifo, txirq>> PROVE UartInv'
  BY <1>1, <1>3, UartQuiet DEF Inv, uartVars
<1>4. ASSUME Echo PROVE UartInv'
  BY <1>1, <1>4, EchoHolds DEF Inv
<1>5. CASE KeyRaw(c)
  <2>1. LineInv'
    BY <1>1, <1>5, PublishHolds, Zenon DEF KeyRaw, Inv
  <2> QED
    BY <1>3, <1>5, <2>1 DEF KeyRaw, Inv
<1>6. CASE KeyErase(c)
  <2>1. e' \in w..(r + INPUT_BUF_SIZE) /\ UNCHANGED <<buf, r, w, rd, killed>>
    BY <1>6, ConsoleAssumption DEF KeyErase, Inv, LineInv, IndicesOrdered
  <2>2. LineInv'
    BY <1>1, <2>1, EditHolds DEF Inv, LineInv
  <2>3. UartInv'
    BY <1>3, <1>4, <1>6 DEF KeyErase
  <2> QED
    BY <2>2, <2>3 DEF Inv
<1>7. CASE KeyKillLine(c)
  <2>1. e' \in w..e /\ (e' # e => Echo) /\ (e' = e => UNCHANGED <<fifo, txirq>>)
    BY <1>7, KillLineIs DEF Inv
  <2>2. e' \in w..(r + INPUT_BUF_SIZE) /\ UNCHANGED <<buf, r, w, rd, killed>>
    BY <1>7, <2>1, ConsoleAssumption DEF KeyKillLine, Inv, LineInv,
       IndicesOrdered
  <2>3. LineInv'
    BY <1>1, <2>2, EditHolds DEF Inv, LineInv
  <2>4. UartInv'
    BY <1>3, <1>4, <2>1
  <2> QED
    BY <2>3, <2>4 DEF Inv
<1>8. CASE KeyInterrupt(c)
  <2>1. /\ killed' = IF foreground_pid = NONE THEN killed ELSE killed \cup {foreground_pid}
        /\ rd' = [p \in Proc |-> IF p = foreground_pid THEN Wakeup(rd)[p] ELSE rd[p]]
        /\ UNCHANGED <<buf, r, w, e, fifo, txirq>>
    BY <1>8 DEF KeyInterrupt
  <2>2. rd' \in [Proc -> RdState]
    BY <2>1, WakeupIs DEF Inv, LineInv
  <2>3. killed' \subseteq Proc
    BY <2>1 DEF Inv, LineInv
  <2>4. ReadInv'
    <3> SUFFICES ASSUME NEW p \in Proc
                 PROVE  /\ rd'[p].pc # "idle" => /\ rd'[p].left >= 1
                                                 /\ rd'[p].left + rd'[p].got = ReadLen
                        /\ rd'[p].pc = "asleep" => r' = w' /\ p \notin killed'
      BY DEF ReadInv
    <3>1. CASE p = foreground_pid
      BY <2>1, WakeupIs DEF Inv, LineInv, ReadInv
    <3>2. CASE p # foreground_pid
      BY <2>1, <3>2 DEF Inv, LineInv, ReadInv
    <3> QED
      BY <3>1, <3>2
  <2>5. IndicesOrdered'
    BY <2>1 DEF Inv, LineInv, IndicesOrdered
  <2>6. LineInv'
    BY <1>1, <2>1, <2>2, <2>4, <2>5 DEF Inv, LineInv
  <2> QED
    BY <1>3, <2>1, <2>6 DEF Inv
<1>9. CASE KeyPlain(c)
  <2>1. CASE Room /\ Publishes(c)
    <3>1. LineInv'
      BY <1>1, <1>9, <2>1, PublishHolds DEF KeyPlain, Inv
    <3>2. Echo
      BY <1>9, <2>1 DEF KeyPlain
    <3> QED
      BY <1>4, <3>1, <3>2 DEF Inv
  <2>2. CASE Room /\ ~Publishes(c)
    <3>1. /\ Echo /\ e' = e + 1 /\ buf' = [buf EXCEPT ![e % INPUT_BUF_SIZE] = c]
          /\ UNCHANGED <<r, w, rd, killed>>
      BY <1>9, <2>2 DEF KeyPlain
    <3>2. e' \in w..(r + INPUT_BUF_SIZE)
      BY <2>2, <3>1, ConsoleAssumption DEF Inv, LineInv, IndicesOrdered, Room
    <3>3. buf' \in [0..(INPUT_BUF_SIZE - 1) -> Char \cup {NONE}]
      BY <3>1, Zenon DEF Inv, LineInv
    <3>4. LineInv'
      BY <1>1, <1>2, <3>1, <3>2, <3>3, EditHolds DEF Inv
    <3> QED
      BY <1>4, <3>1, <3>4 DEF Inv
  <2>3. CASE ~Room
    <3>1. UNCHANGED <<buf, r, w, e, rd, killed, fifo, txirq>>
      BY <1>9, <2>3 DEF KeyPlain
    <3>2. LineInv'
      BY <1>1, <3>1, LineQuiet DEF Inv
    <3> QED
      BY <1>3, <3>1, <3>2 DEF Inv
  <2> QED
    BY <2>1, <2>2, <2>3
<1> QED
  BY <1>5, <1>6, <1>7, <1>8, <1>9 DEF Key

\* What a step of read takes from the ring: nothing behind the end of a line, and
\* all there is before it sleeps.
LEMMA ReadTakes ==
  ASSUME LineInv, NEW p \in Proc, ReadStep(p)
  PROVE  /\ \E n \in 0..(w - r) : /\ r' = r + n
                                  /\ \A j \in 1..(n - 1) : At(r + j - 1) \notin {NL, EOT}
         /\ \E x \in RdState :
              /\ rd' = [rd EXCEPT ![p] = x]
              /\ \/ x.pc = "idle"
                 \/ /\ x.pc = "asleep" /\ r' = w /\ p \notin killed
                    /\ x.left >= 1 /\ x.left + x.got = ReadLen
<1> DEFINE s == rd[p]
           unread == w - r
           ends == {j \in 1..unread : At(r + j - 1) \in {NL, EOT}}
           first == IF raw THEN 1 ELSE IF ends = {} THEN unread + 1 ELSE Min(ends)
           eof == ~raw /\ first <= unread /\ At(r + first - 1) = EOT
<1>1. /\ unread \in Nat /\ r \in Nat /\ w = r + unread
      /\ s \in RdState /\ s.left \in Nat /\ s.got \in Nat
  BY DEF LineInv, IndicesOrdered, RdState
<1>2. s.pc = "read" /\ s.left >= 1 /\ s.left + s.got = ReadLen
  BY DEF ReadStep, LineInv, ReadInv
<1>3. ends # {} => Min(ends) \in ends /\ \A j \in ends : Min(ends) <= j
  <2>1. ends \subseteq Nat
    OBVIOUS
  <2> HIDE DEF ends
  <2> QED
    BY <2>1, MinIs, Zenon
<1>4. /\ first \in Nat /\ first >= 1
      /\ ~raw => \A j \in 1..unread : j < first => At(r + j - 1) \notin {NL, EOT}
      /\ raw => first = 1
  <2>1. CASE raw
    BY <2>1
  <2>2. CASE ~raw /\ ends = {}
    BY <1>1, <2>2
  <2>3. CASE ~raw /\ ends # {}
    <3>1. Min(ends) \in 1..unread /\ first = Min(ends)
      BY <1>3, <2>3
    <3>2. ASSUME NEW j \in 1..unread, j < Min(ends) PROVE At(r + j - 1) \notin {NL, EOT}
      <4>1. j \notin ends
        BY <1>3, <3>2
      <4> QED
        BY <4>1
    <3> QED
      BY <3>1, <3>2
  <2> QED
    BY <2>2, <2>3
<1>5. \A n \in 0..unread : n <= first => \A j \in 1..(n - 1) : At(r + j - 1) \notin {NL, EOT}
  <2> HIDE DEF first, ends, unread
  <2>1. ASSUME NEW n \in 0..unread, n <= first, NEW j \in 1..(n - 1)
        PROVE  At(r + j - 1) \notin {NL, EOT}
    <3>1. ~raw /\ j \in 1..unread /\ j < first
      BY <1>1, <1>4, <2>1
    <3> QED
      BY <1>4, <3>1
  <2> QED
    BY <2>1
<1>6. /\ Min({unread, s.left}) <= unread /\ Min({unread, s.left}) <= s.left
      /\ Min({unread, s.left}) \in Nat
  <2> DEFINE S == {unread, s.left}
  <2>1. S \subseteq Nat /\ S # {} /\ unread \in S /\ s.left \in S
    BY <1>1
  <2> HIDE DEF S, unread, ends, first, eof, s
  <2>2. Min(S) \in S /\ \A y \in S : Min(S) <= y
    BY <2>1, MinIs, Zenon
  <2> QED
    BY <2>1, <2>2 DEF S
<1>7. /\ Min({unread, s.left, first}) <= unread /\ Min({unread, s.left, first}) <= first
      /\ Min({unread, s.left, first}) \in Nat
  <2> DEFINE S == {unread, s.left, first}
  <2>1. S \subseteq Nat /\ S # {} /\ unread \in S /\ first \in S
    BY <1>1, <1>4
  <2> HIDE DEF S, unread, ends, first, eof, s
  <2>2. Min(S) \in S /\ \A y \in S : Min(S) <= y
    BY <2>1, MinIs, Zenon
  <2> QED
    BY <2>1, <2>2 DEF S
<1>8. NotReading \in RdState /\ NotReading.pc = "idle"
  BY ConsoleAssumption DEF NotReading, RdState
<1>9. \/ /\ first <= Min({unread, s.left})
         /\ Done(p, IF eof /\ s.got + first > 1 THEN first - 1 ELSE first)
      \/ /\ first > s.left /\ s.left <= unread
         /\ Done(p, s.left)
      \/ \E k \in 1..Min({unread, s.left, first}) :
           /\ ~(eof /\ k = first)
           /\ Done(p, k)
      \/ /\ first > unread /\ unread < s.left
         /\ r' = w
         /\ rd' = [rd EXCEPT ![p] = IF p \in killed THEN NotReading
                   ELSE [pc |-> "asleep", left |-> s.left - unread, got |-> s.got + unread]]
  BY Zenon DEF ReadStep
<1> HIDE DEF unread, ends, first, eof, s
<1>10. ASSUME NEW n \in 0..unread, n <= first, Done(p, n)
       PROVE  /\ \E m \in 0..unread : /\ r' = r + m
                                      /\ \A j \in 1..(m - 1) : At(r + j - 1) \notin {NL, EOT}
              /\ \E x \in RdState : rd' = [rd EXCEPT ![p] = x] /\ x.pc = "idle"
  <2>1. r' = r + n /\ rd' = [rd EXCEPT ![p] = NotReading]
    BY <1>10 DEF Done
  <2> QED
    BY <1>5, <1>8, <1>10, <2>1, Zenon
<1>11. CASE /\ first <= Min({unread, s.left})
            /\ Done(p, IF eof /\ s.got + first > 1 THEN first - 1 ELSE first)
  <2> DEFINE n == IF eof /\ s.got + first > 1 THEN first - 1 ELSE first
  <2>1. n \in 0..unread /\ n <= first /\ Done(p, n)
    BY <1>1, <1>4, <1>6, <1>11
  <2> HIDE DEF n
  <2> QED
    BY <1>10, <2>1 DEF unread
<1>12. CASE first > s.left /\ s.left <= unread /\ Done(p, s.left)
  <2>1. s.left \in 0..unread /\ s.left <= first
    BY <1>1, <1>4, <1>12
  <2> QED
    BY <1>10, <1>12, <2>1 DEF unread
<1>13. CASE \E k \in 1..Min({unread, s.left, first}) : ~(eof /\ k = first) /\ Done(p, k)
  <2>1. PICK k \in 1..Min({unread, s.left, first}) : Done(p, k)
    BY <1>13
  <2>2. k \in 0..unread /\ k <= first
    BY <1>1, <1>4, <1>7
  <2> QED
    BY <1>10, <2>1, <2>2 DEF unread
<1>14. CASE /\ first > unread /\ unread < s.left
            /\ r' = w
            /\ rd' = [rd EXCEPT ![p] = IF p \in killed THEN NotReading
                      ELSE [pc |-> "asleep", left |-> s.left - unread, got |-> s.got + unread]]
  <2> DEFINE y == [pc |-> "asleep", left |-> s.left - unread, got |-> s.got + unread]
  <2>1. y \in RdState /\ y.left >= 1 /\ y.left + y.got = ReadLen /\ y.pc = "asleep"
    BY <1>1, <1>2, <1>14 DEF RdState
  <2>2. unread \in 0..unread /\ unread <= first /\ r' = r + unread
    BY <1>1, <1>4, <1>14
  <2>3. \E n \in 0..(w - r) : r' = r + n /\ \A j \in 1..(n - 1) : At(r + j - 1) \notin {NL, EOT}
    BY <1>5, <2>2 DEF unread
  <2> HIDE DEF y
  <2>4. CASE p \in killed
    BY <1>8, <1>14, <2>3, <2>4, Zenon
  <2>5. CASE p \notin killed
    <3>1. rd' = [rd EXCEPT ![p] = y] /\ r' = w
      BY <1>14, <2>5 DEF y
    <3> QED
      BY ZenonT(60), <2>1, <2>3, <2>5, <3>1
  <2> QED
    BY <2>4, <2>5
<1> QED
  BY <1>9, <1>11, <1>12, <1>13, <1>14

\* A step of read.
LEMMA ReadHolds == ASSUME Inv, NEW p \in Proc, ReadStep(p) PROVE Inv'
<1>1. UNCHANGED <<buf, w, e, raw, foreground_pid, killed, keys, budget, uartVars>>
  BY DEF ReadStep
<1>2. PICK n \in 0..(w - r) : r' = r + n
  BY ReadTakes DEF Inv
<1>3. PICK x \in RdState : /\ rd' = [rd EXCEPT ![p] = x]
                           /\ \/ x.pc = "idle"
                              \/ /\ x.pc = "asleep" /\ r' = w /\ p \notin killed
                                 /\ x.left >= 1 /\ x.left + x.got = ReadLen
  BY ReadTakes DEF Inv
<1>4. r' \in Nat /\ r' <= w /\ (r = w => r' = w) /\ IndicesOrdered'
  BY <1>1, <1>2, ConsoleAssumption DEF Inv, LineInv, IndicesOrdered
<1>5. rd' \in [Proc -> RdState] /\ rd'[p] = x /\ \A q \in Proc \ {p} : rd'[q] = rd[q]
  BY <1>3 DEF Inv, LineInv
<1>6. ReadInv'
  <2>1. ASSUME NEW q \in Proc
        PROVE  /\ rd'[q].pc # "idle" => rd'[q].left >= 1 /\ rd'[q].left + rd'[q].got = ReadLen
               /\ rd'[q].pc = "asleep" => r' = w' /\ q \notin killed'
    <3>1. CASE q = p
      BY <1>1, <1>3, <1>5, <3>1
    <3>2. CASE q # p
      BY <1>1, <1>4, <1>5, <3>2 DEF Inv, LineInv, ReadInv
    <3> QED
      BY <3>1, <3>2
  <2> QED
    BY <2>1 DEF ReadInv
<1>7. LineInv'
  BY <1>1, <1>4, <1>5, <1>6 DEF Inv, LineInv
<1> QED
  BY <1>1, <1>7, UartQuiet DEF Inv

\* A system call begins: it reads, prints, panics or sets the mode.
LEMMA CallHolds == ASSUME Inv, NEW p \in Proc, Call(p) PROVE Inv'
<1>1. CASE Read(p)
  <2> DEFINE x == [pc |-> "read", left |-> ReadLen, got |-> 0]
  <2>1. /\ rd' = [rd EXCEPT ![p] = x] /\ budget' \in 0..MaxCalls
        /\ UNCHANGED <<buf, r, w, e, raw, foreground_pid, killed, keys, uartVars>>
    BY <1>1, ConsoleAssumption DEF Read, CanCall, Inv, LineInv
  <2>2. x \in RdState /\ x.left >= 1 /\ x.left + x.got = ReadLen /\ x.pc # "asleep"
    BY ConsoleAssumption DEF RdState
  <2> HIDE DEF x
  <2>3. rd' \in [Proc -> RdState] /\ rd'[p] = x /\ \A q \in Proc \ {p} : rd'[q] = rd[q]
    BY <2>1, <2>2 DEF Inv, LineInv
  <2>4. ReadInv' /\ IndicesOrdered'
    BY <2>1, <2>2 DEF Inv, LineInv, ReadInv, IndicesOrdered
  <2>5. LineInv'
    BY <2>1, <2>3, <2>4 DEF Inv, LineInv
  <2> QED
    BY <2>1, <2>5, UartQuiet DEF Inv
<1>2. CASE WriteCall(p) \/ KernelPrint(p) \/ KernelPanic(p)
  <2>1. /\ budget' \in 0..MaxCalls /\ keys' \in 0..MaxKeys
        /\ UNCHANGED <<buf, r, w, e, raw, foreground_pid, rd, killed>>
    BY <1>2, ConsoleAssumption DEF WriteCall, KernelPrint, KernelPanic,
       CanCall, Inv, LineInv
  <2>2. LineInv'
    BY <2>1, LineQuiet DEF Inv
  <2>3. /\ \/ StartWrite(p, MaxOut) /\ UNCHANGED panicking
           \/ StartSync(p, MaxOut) /\ UNCHANGED panicking
           \/ Panic(p)
        /\ UNCHANGED <<fifo, txirq, tx_busy, ulock, panicked, late>>
    BY <1>2 DEF WriteCall, KernelPrint, KernelPanic, Panic
  <2>4. UartInv'
    BY <2>3, StartHolds DEF Inv
  <2> QED
    BY <2>2, <2>4 DEF Inv
<1>3. ASSUME NEW on \in BOOLEAN, SetRaw(p, on) PROVE Inv'
  <2>1. /\ raw' = on /\ e' \in {w, e} /\ budget' \in 0..MaxCalls
        /\ UNCHANGED <<buf, r, w, foreground_pid, rd, killed, keys, uartVars>>
    BY <1>3, ConsoleAssumption DEF SetRaw, CanCall, Inv, LineInv
  <2>2. e' \in w..(r + INPUT_BUF_SIZE)
    BY <2>1, ConsoleAssumption DEF Inv, LineInv, IndicesOrdered
  <2>3. LineInv'
    BY <2>1, <2>2, EditHolds DEF Inv, LineInv
  <2> QED
    BY <2>1, <2>3, UartQuiet DEF Inv
<1>4. ASSUME NEW q \in Proc \cup {NONE}, SetForeground(p, q) PROVE Inv'
  <2>1. /\ foreground_pid' = q /\ budget' \in 0..MaxCalls
        /\ UNCHANGED <<buf, r, w, e, raw, rd, killed, keys, uartVars>>
    BY <1>4, ConsoleAssumption DEF SetForeground, CanCall, Inv, LineInv
  <2>2. ReadInv' /\ IndicesOrdered'
    BY <2>1 DEF Inv, LineInv, ReadInv, IndicesOrdered
  <2>3. LineInv'
    BY <2>1, <2>2 DEF Inv, LineInv
  <2> QED
    BY <2>1, <2>3, UartQuiet DEF Inv
<1> QED
  BY <1>1, <1>2, <1>3, <1>4 DEF Call

\* The steps of the transmitter leave the ring alone.
LEMMA UartHolds ==
  ASSUME Inv, Hardware \/ Received \/ \E p \in Proc : Output(p)
  PROVE  Inv'
<1>1. /\ UNCHANGED <<buf, r, w, e, raw, foreground_pid, rd, killed>>
      /\ keys' \in 0..MaxKeys /\ budget' \in 0..MaxCalls
  BY ConsoleAssumption DEF Hardware, Received, Output, consVars, Inv, LineInv
<1>2. LineInv'
  BY <1>1, LineQuiet DEF Inv
<1>3. UartInv'
  BY TransmitHolds, AckHolds, IntrTestHolds, WriteHolds, SyncLockHolds,
     SyncByteHolds, PanicDoneHolds DEF Hardware, Device, IntrAck, Received,
     Output, UartStep, Inv
<1> QED
  BY <1>2, <1>3 DEF Inv

\* Console and Uart as they start.
LEMMA InitHolds == Init => Inv
<1> SUFFICES ASSUME Init PROVE Inv
  OBVIOUS
<1>1. Silent \in OutState /\ Silent.pc = "idle"
  BY UartAssumption DEF Silent, OutState
<1>2. out \in [Proc -> OutState] /\ \A p \in Proc : out[p].pc = "idle"
  BY <1>1 DEF Init, UartInit
<1>3. fifo = 0 /\ ulock = NONE /\ late = [p \in Proc |-> 0]
  BY DEF Init, UartInit
<1>4. OutputInv /\ LateInv
  BY <1>2, <1>3, UartAssumption DEF OutputInv, LateInv, Busy
<1>5. BusyInv
  BY <1>2 DEF Init, UartInit, BusyInv
<1>a. /\ txirq \in BOOLEAN /\ tx_busy \in BOOLEAN /\ panicking \in BOOLEAN
      /\ panicked \in BOOLEAN /\ raw \in BOOLEAN
  BY Zenon DEF Init, UartInit
<1>6. UartInv
  BY <1>2, <1>3, <1>4, <1>5, <1>a DEF UartInv
<1>7. NotReading \in RdState /\ NotReading.pc = "idle"
  BY ConsoleAssumption DEF NotReading, RdState
<1>8. rd \in [Proc -> RdState] /\ \A p \in Proc : rd[p].pc = "idle"
  BY <1>7 DEF Init
<1>9. LineInv
  BY <1>8, <1>a, ConsoleAssumption DEF Init, LineInv, ReadInv, IndicesOrdered
<1> QED
  BY <1>6, <1>9 DEF Inv

\* Every step keeps the invariant.
LEMMA StepHolds == ASSUME Inv, [Next]_vars PROVE Inv'
<1>1. CASE UNCHANGED vars
  <2>1. UartInv'
    BY <1>1, UartQuiet DEF vars, Inv
  <2>2. LineInv'
    BY <1>1, LineQuiet DEF vars, consVars, Inv, LineInv
  <2> QED
    BY <2>1, <2>2 DEF Inv
<1> QED
  BY <1>1, KeyHolds, ReadHolds, CallHolds, UartHolds DEF Next

-----------------------------------------------------------------------------
(* Results.                                                                *)

\* For any ring, device and number of processes: the transmitter and the ring
\* keep their invariants.
THEOREM Invariance == Spec => []Inv
BY InitHolds, StepHolds, PTL DEF Spec

\* The drivers are safe: r, w and e stay in order and within the ring, no reader
\* and no writer sleeps without a reason, the device is not overrun, and each
\* process prints at most once after the panic message.
THEOREM DriversSafe == Spec => []DriverSafe
<1>1. Inv => DriverSafe
  <2> SUFFICES ASSUME Inv PROVE DriverSafe
    OBVIOUS
  <2>1. fifo \in 0..FIFO /\ NoOverrun
    BY UartAssumption DEF Inv, UartInv, NoOverrun
  <2>2. late \in [Proc -> Nat] /\ PanicFreezes
    BY DEF Inv, UartInv, PanicFreezes
  <2>3. TypeOK
    BY <2>1, <2>2, SMTT(60) DEF Inv, UartInv, LineInv, TypeOK, OutState, RdState
  <2>4. SleepersHaveReason
    BY Zenon DEF Inv, UartInv, LineInv, BusyInv, ReadInv, SleepersHaveReason
  <2> QED
    BY <2>1, <2>2, <2>3, <2>4 DEF DriverSafe, Inv, LineInv
<1> QED
  BY <1>1, Invariance, PTL

-----------------------------------------------------------------------------
(* The ring as two sequences.                                              *)

\* % as the provers take it best: known by the two lemmas that follow only.
Rem(a, n) == a % n

\* Numbers less than n apart have different remainders.
LEMMA Apart ==
  ASSUME NEW n \in Nat \ {0}, NEW a \in Nat, NEW b \in Nat, a < b, b < a + n
  PROVE  Rem(a, n) # Rem(b, n)
<1> SUFFICES ASSUME a % n = b % n PROVE FALSE
  BY DEF Rem
<1> DEFINE k == (b \div n) - (a \div n)
<1>1. k \in Int /\ b - a = k * n
  <2>1. a = (a \div n) * n + (a % n) /\ b = (b \div n) * n + (b % n)
    OBVIOUS
  <2>2. a \div n \in Int /\ b \div n \in Int
    OBVIOUS
  <2> QED
    OBVIOUS
<1>2. \A x \in Int : (x <= 0 => x * n <= 0) /\ (x >= 1 => x * n >= n)
  OBVIOUS
<1> HIDE DEF k
<1>3. k <= 0 \/ k >= 1
  BY <1>1
<1>4. k * n <= 0 \/ k * n >= n
  BY <1>1
<1>5. b - a > 0 /\ b - a < n
  OBVIOUS
<1> QED
  BY <1>1

\* The characters of a ring from index a up to index b.
Segment(ring, a, b) == [j \in 1..(b - a) |-> ring[Rem(a + j - 1, INPUT_BUF_SIZE)]]
Rings == [0..(INPUT_BUF_SIZE - 1) -> Char \cup {NONE}]

\* A ring with c stored at index i.
Stored(ring, i, c) == [ring EXCEPT ![Rem(i, INPUT_BUF_SIZE)] = c]

\* Every index has a place in the ring.
LEMMA RemIs == \A i \in Int : Rem(i, INPUT_BUF_SIZE) \in 0..(INPUT_BUF_SIZE - 1)
BY ConsoleAssumption DEF Rem

\* Concatenation, by length and element.
LEMMA ConcatIs ==
  ASSUME NEW S, NEW s \in Seq(S), NEW t \in Seq(S)
  PROVE  /\ s \o t \in Seq(S)
         /\ Len(s \o t) = Len(s) + Len(t)
         /\ \A i \in 1..(Len(s) + Len(t)) :
              (s \o t)[i] = IF i <= Len(s) THEN s[i] ELSE t[i - Len(s)]
<1>1. s \o t \in Seq(S) /\ Len(s \o t) = Len(s) + Len(t)
  OBVIOUS
<1>2. \A i \in 1..(Len(s) + Len(t)) :
        (s \o t)[i] = IF i <= Len(s) THEN s[i] ELSE t[i - Len(s)]
  OBVIOUS
<1> QED
  BY <1>1, <1>2

\* Sequences that agree in length and elements are equal.
LEMMA SeqsAgree ==
  ASSUME NEW S, NEW s \in Seq(S), NEW t \in Seq(S),
         Len(s) = Len(t), \A i \in 1..Len(s) : s[i] = t[i]
  PROVE  s = t
OBVIOUS

\* Functions on 1..n are sequences of length n, equal when they agree.
LEMMA FunctionIsSeq ==
  ASSUME NEW T, NEW n \in Nat, NEW f \in [1..n -> T]
  PROVE  f \in Seq(T) /\ Len(f) = n
<1>1. f \in Seq(T)
  OBVIOUS
<1>2. Len(f) \in Nat /\ DOMAIN f = 1..Len(f) /\ DOMAIN f = 1..n
  OBVIOUS
<1> QED
  OBVIOUS

\* A segment is a sequence.
LEMMA SegmentIs ==
  ASSUME NEW ring \in Rings, NEW a \in Nat, NEW b \in Nat, a <= b
  PROVE  /\ Segment(ring, a, b) \in Seq(Char \cup {NONE})
         /\ Len(Segment(ring, a, b)) = b - a
         /\ \A j \in 1..(b - a) :
              Segment(ring, a, b)[j] = ring[Rem(a + j - 1, INPUT_BUF_SIZE)]
<1> DEFINE f == Segment(ring, a, b)
           n == b - a
<1>1. n \in Nat
  OBVIOUS
<1>2. f \in [1..n -> Char \cup {NONE}]
  <2>1. ASSUME NEW j \in 1..n PROVE ring[Rem(a + j - 1, INPUT_BUF_SIZE)] \in Char \cup {NONE}
    BY RemIs DEF Rings
  <2> QED
    BY <2>1 DEF Segment
<1>3. \A j \in 1..n : f[j] = ring[Rem(a + j - 1, INPUT_BUF_SIZE)]
  BY DEF Segment
<1> HIDE DEF f, n
<1>4. f \in Seq(Char \cup {NONE}) /\ Len(f) = n
  BY <1>1, <1>2
<1> QED
  BY <1>3, <1>4 DEF f, n

\* An empty segment.
LEMMA SegmentEmpty ==
  ASSUME NEW ring \in Rings, NEW a \in Nat
  PROVE  Segment(ring, a, a) = <<>>
<1> DEFINE f == Segment(ring, a, a)
<1>1. a <= a /\ a - a = 0
  OBVIOUS
<1>2. f \in Seq(Char \cup {NONE}) /\ Len(f) = a - a
  BY <1>1, SegmentIs, Zenon
<1> HIDE DEF f
<1>3. f = <<>>
  BY <1>1, <1>2
<1> QED
  BY <1>3, Zenon DEF f

\* A stored character makes a segment that ends there one longer.
LEMMA SegmentGrows ==
  ASSUME NEW ring \in Rings, NEW a \in Nat, NEW b \in Nat, a <= b, b < a + INPUT_BUF_SIZE,
         NEW c \in Char
  PROVE  /\ Stored(ring, b, c) \in Rings
         /\ Segment(Stored(ring, b, c), a, b + 1) = Append(Segment(ring, a, b), c)
         /\ \A m \in a..b : Segment(Stored(ring, b, c), a, m) = Segment(ring, a, m)
<1> DEFINE new == Stored(ring, b, c)
           T == Char \cup {NONE}
<1>1. new \in Rings
  BY RemIs DEF Rings, Stored
<1>2. \A i \in a..(b - 1) : new[Rem(i, INPUT_BUF_SIZE)] = ring[Rem(i, INPUT_BUF_SIZE)]
  <2> SUFFICES ASSUME NEW i \in a..(b - 1)
               PROVE  new[Rem(i, INPUT_BUF_SIZE)] = ring[Rem(i, INPUT_BUF_SIZE)]
    OBVIOUS
  <2>1. Rem(i, INPUT_BUF_SIZE) # Rem(b, INPUT_BUF_SIZE)
    BY Apart, ConsoleAssumption
  <2> QED
    BY <2>1 DEF Stored
<1>3. new[Rem(b, INPUT_BUF_SIZE)] = c
  BY RemIs DEF Stored, Rings
<1> HIDE DEF new
<1>4. \A m \in a..b : Segment(new, a, m) = Segment(ring, a, m)
  <2> SUFFICES ASSUME NEW m \in a..b PROVE Segment(new, a, m) = Segment(ring, a, m)
    OBVIOUS
  <2>1. \A j \in 1..(m - a) : a + j - 1 \in a..(b - 1)
    OBVIOUS
  <2> QED
    BY <1>2 DEF Segment
<1>5. Segment(new, a, b + 1) = Append(Segment(ring, a, b), c)
  <2> DEFINE s == Segment(new, a, b + 1)
             t == Segment(ring, a, b)
  <2>1. s \in Seq(T) /\ Len(s) = (b - a) + 1
        /\ \A j \in 1..((b - a) + 1) : s[j] = new[Rem(a + j - 1, INPUT_BUF_SIZE)]
    <3> DEFINE d == b + 1
    <3>1. d \in Nat /\ a <= d /\ d - a = (b - a) + 1
      OBVIOUS
    <3> HIDE DEF d
    <3>2. /\ Segment(new, a, d) \in Seq(T) /\ Len(Segment(new, a, d)) = d - a
          /\ \A j \in 1..(d - a) : Segment(new, a, d)[j] = new[Rem(a + j - 1, INPUT_BUF_SIZE)]
      BY <1>1, <3>1, SegmentIs, Zenon
    <3> QED
      BY <3>1, <3>2
  <2>2. t \in Seq(T) /\ Len(t) = b - a
        /\ \A j \in 1..(b - a) : t[j] = ring[Rem(a + j - 1, INPUT_BUF_SIZE)]
    BY SegmentIs, Zenon
  <2> HIDE DEF s, t
  <2>3. /\ Append(t, c) \in Seq(T) /\ Len(Append(t, c)) = (b - a) + 1
        /\ \A j \in 1..(b - a) : Append(t, c)[j] = t[j]
        /\ Append(t, c)[(b - a) + 1] = c
    BY <2>2
  <2>4. ASSUME NEW j \in 1..((b - a) + 1) PROVE s[j] = Append(t, c)[j]
    <3>1. CASE j = (b - a) + 1
      <4>1. a + j - 1 = b
        BY <3>1
      <4> QED
        BY <1>3, <2>1, <2>3, <4>1
    <3>2. CASE j # (b - a) + 1
      <4>1. j \in 1..(b - a) /\ a + j - 1 \in a..(b - 1)
        BY <3>2
      <4> QED
        BY <1>2, <2>1, <2>2, <4>1
    <3> QED
      BY <3>1, <3>2, Zenon
  <2>5. s = Append(t, c)
    BY SMTT(60), <2>1, <2>3, <2>4
  <2> QED
    BY <2>5 DEF s, t
<1> QED
  BY <1>1, <1>4, <1>5 DEF new

\* Adjacent segments make one.
LEMMA SegmentJoin ==
  ASSUME NEW ring \in Rings, NEW a \in Nat, NEW b \in Nat, NEW c \in Nat, a <= b, b <= c
  PROVE  Segment(ring, a, c) = Segment(ring, a, b) \o Segment(ring, b, c)
<1> DEFINE T == Char \cup {NONE}
           s == Segment(ring, a, c)
           t == Segment(ring, a, b)
           u == Segment(ring, b, c)
<1>1. s \in Seq(T) /\ Len(s) = c - a
      /\ \A j \in 1..(c - a) : s[j] = ring[Rem(a + j - 1, INPUT_BUF_SIZE)]
  BY SMTT(60), SegmentIs
<1>2. t \in Seq(T) /\ Len(t) = b - a
      /\ \A j \in 1..(b - a) : t[j] = ring[Rem(a + j - 1, INPUT_BUF_SIZE)]
  BY SegmentIs, Zenon
<1>3. u \in Seq(T) /\ Len(u) = c - b
      /\ \A j \in 1..(c - b) : u[j] = ring[Rem(b + j - 1, INPUT_BUF_SIZE)]
  BY SegmentIs, Zenon
<1> HIDE DEF s, t, u
<1>4. /\ t \o u \in Seq(T) /\ Len(t \o u) = c - a
      /\ \A j \in 1..(c - a) : (t \o u)[j] = IF j <= b - a THEN t[j] ELSE u[j - (b - a)]
  <2>1. /\ t \o u \in Seq(T) /\ Len(t \o u) = Len(t) + Len(u)
        /\ \A j \in 1..(Len(t) + Len(u)) :
             (t \o u)[j] = IF j <= Len(t) THEN t[j] ELSE u[j - Len(t)]
    BY <1>2, <1>3, ConcatIs, Zenon
  <2>2. Len(t) + Len(u) = c - a
    BY <1>2, <1>3
  <2> QED
    BY <1>2, <2>1, <2>2
<1>5. ASSUME NEW j \in 1..(c - a) PROVE s[j] = (t \o u)[j]
  <2>1. CASE j <= b - a
    <3>1. j \in 1..(b - a)
      BY <2>1
    <3> QED
      BY <1>1, <1>2, <3>1
  <2>2. CASE j > b - a
    <3>1. j - (b - a) \in 1..(c - b) /\ b + (j - (b - a)) - 1 = a + j - 1
      BY <2>2
    <3>2. u[j - (b - a)] = ring[Rem(a + j - 1, INPUT_BUF_SIZE)]
      BY <1>3, <3>1, Zenon
    <3> QED
      BY SMTT(60), <1>1, <1>4, <2>2, <3>2
  <2>3. j <= b - a \/ j > b - a
    OBVIOUS
  <2> QED
    BY ZenonT(60), <2>1, <2>2, <2>3
<1>6. s = t \o u
  BY <1>1, <1>4, <1>5, SeqsAgree, Zenon
<1> QED
  BY <1>6 DEF s, t, u

\* Part of a segment is a segment.
LEMMA SegmentPart ==
  ASSUME NEW ring \in Rings, NEW a \in Nat, NEW b \in Nat, a <= b, NEW k \in 0..(b - a)
  PROVE  /\ SubSeq(Segment(ring, a, b), 1, k) = Segment(ring, a, a + k)
         /\ SubSeq(Segment(ring, a, b), k + 1, b - a) = Segment(ring, a + k, b)
<1> DEFINE T == Char \cup {NONE}
           s == Segment(ring, a, b)
           t == Segment(ring, a, a + k)
           u == Segment(ring, a + k, b)
<1>1. s \in Seq(T) /\ Len(s) = b - a
      /\ \A j \in 1..(b - a) : s[j] = ring[Rem(a + j - 1, INPUT_BUF_SIZE)]
  BY ZenonT(60), SegmentIs
<1>2. t \in Seq(T) /\ Len(t) = k
      /\ \A j \in 1..k : t[j] = ring[Rem(a + j - 1, INPUT_BUF_SIZE)]
  <2> DEFINE d == a + k
  <2>1. d \in Nat /\ a <= d /\ d - a = k
    OBVIOUS
  <2> HIDE DEF d
  <2>2. /\ Segment(ring, a, d) \in Seq(T) /\ Len(Segment(ring, a, d)) = d - a
        /\ \A j \in 1..(d - a) : Segment(ring, a, d)[j] = ring[Rem(a + j - 1, INPUT_BUF_SIZE)]
    BY ZenonT(60), <2>1, SegmentIs
  <2> QED
    BY SMTT(60), <2>1, <2>2
<1>3. u \in Seq(T) /\ Len(u) = (b - a) - k
      /\ \A j \in 1..((b - a) - k) : u[j] = ring[Rem((a + k) + j - 1, INPUT_BUF_SIZE)]
  <2> DEFINE d == a + k
  <2>1. d \in Nat /\ d <= b /\ b - d = (b - a) - k
    OBVIOUS
  <2> HIDE DEF d
  <2>2. /\ Segment(ring, d, b) \in Seq(T) /\ Len(Segment(ring, d, b)) = b - d
        /\ \A j \in 1..(b - d) : Segment(ring, d, b)[j] = ring[Rem(d + j - 1, INPUT_BUF_SIZE)]
    BY <2>1, SegmentIs, Zenon
  <2> QED
    BY <2>2 DEF d
<1> HIDE DEF s, t, u
<1>4. \A i \in 1..(b - a) : s[i] \in T
  BY <1>1
<1>5. SubSeq(s, 1, k) = t
  <2>1. /\ SubSeq(s, 1, k) \in Seq(T) /\ Len(SubSeq(s, 1, k)) = k
        /\ \A j \in 1..k : SubSeq(s, 1, k)[j] = s[j]
    BY <1>4
  <2>2. ASSUME NEW j \in 1..k PROVE SubSeq(s, 1, k)[j] = t[j]
    <3>1. j \in 1..(b - a)
      OBVIOUS
    <3>2. s[j] = t[j]
      BY ZenonT(60), <1>1, <1>2, <3>1
    <3> QED
      BY <2>1, <3>2, Zenon
  <2> QED
    BY <1>2, <2>1, <2>2
<1>6. SubSeq(s, k + 1, b - a) = u
  <2>1. \A i \in (k + 1)..(b - a) : s[i] \in T
    BY <1>4
  <2>2. k + 1 \in Int /\ b - a \in Int
    OBVIOUS
  <2>3. /\ SubSeq(s, k + 1, b - a) \in Seq(T) /\ Len(SubSeq(s, k + 1, b - a)) = (b - a) - k
        /\ \A j \in 1..((b - a) - k) : SubSeq(s, k + 1, b - a)[j] = s[k + j]
    BY <2>1
  <2>4. ASSUME NEW j \in 1..((b - a) - k) PROVE SubSeq(s, k + 1, b - a)[j] = u[j]
    <3>1. k + j \in 1..(b - a) /\ a + (k + j) - 1 = (a + k) + j - 1
      OBVIOUS
    <3>2. s[k + j] = ring[Rem((a + k) + j - 1, INPUT_BUF_SIZE)]
      BY <1>1, <3>1
    <3> QED
      BY <1>3, <2>3, <3>2, Zenon
  <2> QED
    BY <1>3, <2>3, <2>4
<1> QED
  BY <1>5, <1>6 DEF s, t, u

-----------------------------------------------------------------------------
(* The ring implements a line-edited input queue.                          *)

Input == Segment(buf, r, w)
Line == Segment(buf, w, e)

\* The steps of LineTty under the refinement.
LEMMA TtySteps ==
  /\ Tty!Type <=> /\ Len(Input) + Len(Line) < INPUT_BUF_SIZE
                  /\ \E c \in Char :
                       \/ Input' = Input /\ Line' = Append(Line, c)
                       \/ Input' = Input \o Append(Line, c) /\ Line' = <<>>
  /\ Tty!Erase <=> \E k \in 0..Len(Line) : Line' = SubSeq(Line, 1, k) /\ Input' = Input
  /\ Tty!Take <=> \E k \in 1..Len(Input) :
                    /\ \A j \in 1..(k - 1) : Input[j] \notin {NL, EOT}
                    /\ Input' = SubSeq(Input, k + 1, Len(Input))
                    /\ Line' = Line
<1>1. Input = [j \in 1..(w - r) |-> At(r + j - 1)]
  BY DEF Input, Segment, At, Rem
<1>2. Line = [j \in 1..(e - w) |-> At(w + j - 1)]
  BY DEF Line, Segment, At, Rem
<1>3. Input' = [j \in 1..(w - r) |-> At(r + j - 1)]'
  BY DEF Input, Segment, At, Rem
<1>4. Line' = [j \in 1..(e - w) |-> At(w + j - 1)]'
  BY DEF Line, Segment, At, Rem
<1> HIDE DEF Input, Line
<1>5. Tty!Type <=> /\ Len(Input) + Len(Line) < INPUT_BUF_SIZE
                   /\ \E c \in Char :
                        \/ Input' = Input /\ Line' = Append(Line, c)
                        \/ Input' = Input \o Append(Line, c) /\ Line' = <<>>
  BY <1>1, <1>2, <1>3, <1>4, Zenon DEF Tty!Type
<1>6. Tty!Erase <=> \E k \in 0..Len(Line) : Line' = SubSeq(Line, 1, k) /\ Input' = Input
  BY <1>1, <1>2, <1>3, <1>4, Zenon DEF Tty!Erase
<1>7. Tty!Take <=> \E k \in 1..Len(Input) :
                     /\ \A j \in 1..(k - 1) : Input[j] \notin {NL, EOT}
                     /\ Input' = SubSeq(Input, k + 1, Len(Input))
                     /\ Line' = Line
  BY <1>1, <1>2, <1>3, <1>4, Zenon DEF Tty!Take
<1> QED
  BY <1>5, <1>6, <1>7, Zenon

\* The two sequences of a state of the invariant.
LEMMA InputIs ==
  ASSUME LineInv
  PROVE  /\ buf \in Rings
         /\ Len(Input) = w - r /\ Len(Line) = e - w /\ w - r \in Nat /\ e - w \in Nat
         /\ \A j \in 1..(w - r) : Input[j] = At(r + j - 1)
<1>1. buf \in Rings /\ r \in Nat /\ w \in Nat /\ e \in Nat /\ r <= w /\ w <= e
  BY DEF LineInv, Rings, IndicesOrdered
<1>2. w - r \in Nat /\ e - w \in Nat
  BY <1>1
<1>3. /\ Len(Input) = w - r
      /\ \A j \in 1..(w - r) : Input[j] = buf[Rem(r + j - 1, INPUT_BUF_SIZE)]
  BY <1>1, SegmentIs, Zenon DEF Input
<1>4. Len(Line) = e - w
  BY <1>1, SegmentIs, Zenon DEF Line
<1>5. \A i : At(i) = buf[Rem(i, INPUT_BUF_SIZE)]
  BY DEF At, Rem
<1> QED
  BY <1>1, <1>2, <1>3, <1>4, <1>5, Zenon

\* A character joins the line, or ends it.
LEMMA TypeStep ==
  ASSUME LineInv, Room, NEW c \in Char,
         buf' = [buf EXCEPT ![e % INPUT_BUF_SIZE] = c], e' = e + 1, w' \in {w, e + 1}, r' = r
  PROVE  Tty!Type
<1>1. /\ buf \in Rings /\ r \in Nat /\ w \in Nat /\ e \in Nat /\ r <= w /\ w <= e
      /\ e < r + INPUT_BUF_SIZE /\ e < w + INPUT_BUF_SIZE
  BY ConsoleAssumption DEF LineInv, Rings, IndicesOrdered, Room
<1>2. buf' = Stored(buf, e, c)
  BY DEF Stored, Rem
<1>3. /\ buf' \in Rings
      /\ Segment(buf', w, e + 1) = Append(Line, c)
      /\ Segment(buf', r, w) = Input
  <2>1. /\ Stored(buf, e, c) \in Rings
        /\ Segment(Stored(buf, e, c), w, e + 1) = Append(Segment(buf, w, e), c)
    BY <1>1, SegmentGrows
  <2>2. \A m \in r..e : Segment(Stored(buf, e, c), r, m) = Segment(buf, r, m)
    <3>1. r <= e
      BY <1>1
    <3> QED
      BY ZenonT(60), <1>1, <3>1, SegmentGrows
  <2>3. w \in r..e
    BY <1>1
  <2> QED
    BY <1>2, <2>1, <2>2, <2>3, ZenonT(60) DEF Line, Input
<1>4. Len(Input) + Len(Line) < INPUT_BUF_SIZE
  BY <1>1, InputIs, ConsoleAssumption
<1>5. CASE w' = w
  <2>1. Input' = Input /\ Line' = Append(Line, c)
    BY <1>3, <1>5, Zenon DEF Input, Line
  <2> QED
    BY <1>4, <2>1, TtySteps
<1>6. CASE w' = e + 1
  <2>1. Line' = <<>>
    BY <1>1, <1>3, <1>6, SegmentEmpty DEF Line
  <2>2. Segment(buf', r, e + 1) = Segment(buf', r, w) \o Segment(buf', w, e + 1)
    <3> DEFINE d == e + 1
    <3>1. d \in Nat /\ w <= d
      BY <1>1
    <3> HIDE DEF d
    <3>2. buf' \in Rings /\ r \in Nat /\ w \in Nat /\ r <= w
      BY <1>1, <1>3
    <3>3. Segment(buf', r, d) = Segment(buf', r, w) \o Segment(buf', w, d)
      BY ZenonT(60), <3>1, <3>2, SegmentJoin
    <3> QED
      BY <3>3, Zenon DEF d
  <2>3. Input' = Input \o Append(Line, c)
    BY <1>3, <1>6, <2>2, Zenon DEF Input
  <2> QED
    BY ZenonT(60), <1>4, <2>1, <2>3, TtySteps
<1> QED
  BY <1>5, <1>6

\* The line gets shorter.
LEMMA EraseStep ==
  ASSUME LineInv, e' \in w..e, UNCHANGED <<buf, r, w>>
  PROVE  Tty!Erase
<1> DEFINE k == e' - w
<1>0. buf \in Rings /\ w \in Nat /\ e \in Nat /\ w <= e
  BY DEF LineInv, Rings
<1>a. e' \in Nat /\ w <= e' /\ e' <= e
  BY <1>0
<1>b. \A a, b, c \in Nat : a <= c /\ c <= b => c - a \in 0..(b - a) /\ a + (c - a) = c
  OBVIOUS
<1>c. k \in 0..(e - w) /\ w + k = e'
  BY <1>0, <1>a, <1>b, Zenon
<1>1. /\ buf \in Rings /\ w \in Nat /\ e \in Nat /\ w <= e
      /\ k \in 0..(e - w) /\ w + k = e'
  BY <1>0, <1>c, Zenon
<1> HIDE DEF k
<1>2. SubSeq(Line, 1, k) = Segment(buf, w, w + k)
  BY <1>1, SegmentPart, Zenon DEF Line
<1>3. Line' = SubSeq(Line, 1, k) /\ Input' = Input
  BY <1>1, <1>2 DEF Line, Input
<1> QED
  BY <1>1, <1>3, InputIs, TtySteps

\* read takes from the front, at most to the end of a line.
LEMMA TakeStep ==
  ASSUME LineInv, NEW p \in Proc, ReadStep(p)
  PROVE  Tty!Take \/ (Input' = Input /\ Line' = Line)
<1>1. UNCHANGED <<buf, w, e>>
  BY Zenon DEF ReadStep
<1>2. PICK n \in 0..(w - r) : /\ r' = r + n
                              /\ \A j \in 1..(n - 1) : At(r + j - 1) \notin {NL, EOT}
  BY ReadTakes
<1>3. Line' = Line
  BY <1>1 DEF Line
<1>4. CASE n = 0
  <2>1. r' = r
    BY <1>2, <1>4 DEF LineInv
  <2> QED
    BY <1>1, <1>3, <2>1 DEF Input
<1>5. CASE n # 0
  <2>1. buf \in Rings /\ r \in Nat /\ w \in Nat /\ r <= w /\ n \in 1..(w - r)
    BY <1>5 DEF LineInv, Rings
  <2>2. SubSeq(Input, n + 1, w - r) = Segment(buf, r + n, w)
    BY <2>1, SegmentPart, SMTT(60) DEF Input
  <2>3. Input' = SubSeq(Input, n + 1, Len(Input)) /\ n \in 1..Len(Input)
    <3>1. Input' = Segment(buf, r + n, w)
      BY <1>1, <1>2 DEF Input
    <3> QED
      BY <2>1, <2>2, <3>1, InputIs, Zenon
  <2>4. \A j \in 1..(n - 1) : Input[j] \notin {NL, EOT}
    <3> SUFFICES ASSUME NEW j \in 1..(n - 1) PROVE Input[j] \notin {NL, EOT}
      OBVIOUS
    <3>1. j \in 1..(w - r)
      BY <2>1
    <3> QED
      BY <1>2, InputIs
  <2> QED
    BY SMTT(60), <1>3, <2>3, <2>4, TtySteps
<1> QED
  BY <1>4, <1>5

\* What leaves the ring alone.
LEMMA QuietStep == ASSUME UNCHANGED <<buf, r, w, e>> PROVE Input' = Input /\ Line' = Line
BY DEF Input, Line

\* Every step of the console is a step of LineTty or leaves it alone.
LEMMA TtyStep ==
  ASSUME Inv, [Next]_vars
  PROVE  (Tty!Type \/ Tty!Erase \/ Tty!Take) \/ (Input' = Input /\ Line' = Line)
<1>1. CASE UNCHANGED vars
  BY <1>1, QuietStep DEF vars, consVars
<1>2. CASE Hardware \/ Received
  BY <1>2, QuietStep DEF Hardware, Received, consVars
<1>3. ASSUME NEW c \in Char, Key(c)
      PROVE  (Tty!Type \/ Tty!Erase \/ Tty!Take) \/ (Input' = Input /\ Line' = Line)
  <2>1. CASE KeyRaw(c)
    BY <2>1, TypeStep, Zenon DEF KeyRaw, Inv
  <2>2. CASE KeyErase(c)
    <3>1. e' \in w..e /\ UNCHANGED <<buf, r, w>>
      BY <2>2 DEF KeyErase, Inv, LineInv, IndicesOrdered
    <3> QED
      BY <3>1, EraseStep DEF Inv
  <2>3. CASE KeyKillLine(c)
    <3>1. e' \in w..e /\ UNCHANGED <<buf, r, w>>
      BY <2>3, KillLineIs DEF KeyKillLine, Inv
    <3> QED
      BY <3>1, EraseStep DEF Inv
  <2>4. CASE KeyInterrupt(c)
    BY <2>4, QuietStep, Zenon DEF KeyInterrupt
  <2>5. CASE KeyPlain(c)
    <3>1. CASE Room
      <4>1. /\ buf' = [buf EXCEPT ![e % INPUT_BUF_SIZE] = c] /\ e' = e + 1
            /\ w' \in {w, e + 1} /\ r' = r
        BY <2>5, <3>1 DEF KeyPlain
      <4> QED
        BY <3>1, <4>1, TypeStep, ZenonT(60) DEF Inv
    <3>2. CASE ~Room
      BY <2>5, <3>2, QuietStep DEF KeyPlain
    <3> QED
      BY <3>1, <3>2
  <2> QED
    BY <1>3, <2>1, <2>2, <2>3, <2>4, <2>5 DEF Key
<1>4. ASSUME NEW p \in Proc, Output(p) PROVE Input' = Input /\ Line' = Line
  BY <1>4, QuietStep DEF Output, consVars
<1>5. ASSUME NEW p \in Proc, ReadStep(p) PROVE Tty!Take \/ (Input' = Input /\ Line' = Line)
  BY <1>5, TakeStep DEF Inv
<1>6. ASSUME NEW p \in Proc, Call(p) PROVE Tty!Erase \/ (Input' = Input /\ Line' = Line)
  <2>1. CASE Read(p) \/ WriteCall(p) \/ KernelPrint(p) \/ KernelPanic(p)
             \/ \E q \in Proc \cup {NONE} : SetForeground(p, q)
    <3>1. UNCHANGED <<buf, r, w, e>>
      BY <2>1 DEF Read, WriteCall, KernelPrint, KernelPanic, SetForeground
    <3> QED
      BY <3>1, QuietStep
  <2>2. ASSUME NEW on \in BOOLEAN, SetRaw(p, on) PROVE Tty!Erase
    <3>1. e' \in w..e /\ UNCHANGED <<buf, r, w>>
      BY <2>2 DEF SetRaw, Inv, LineInv, IndicesOrdered
    <3> QED
      BY <3>1, EraseStep DEF Inv
  <2> QED
    BY <1>6, <2>1, <2>2 DEF Call
<1> QED
  BY <1>1, <1>2, <1>3, <1>4, <1>5, <1>6 DEF Next

\* For any size of the ring: what processes read is what was typed, line by line,
\* edited only before its line was ended, each character once and in order.
THEOREM RingIsTty == Spec => ImplementsLineTty
<1>1. Init => Tty!Init
  <2> SUFFICES ASSUME Init PROVE Tty!Init
    OBVIOUS
  <2>1. [j \in 1..(w - r) |-> At(r + j - 1)] = <<>> /\ [j \in 1..(e - w) |-> At(w + j - 1)] = <<>>
    BY DEF Init
  <2> QED
    BY <2>1 DEF Tty!Init
<1>2. Inv /\ [Next]_vars => [Tty!Next]_Tty!vars
  BY TtyStep, Zenon DEF Tty!Next, Tty!vars, Input, Line, Segment, At, Rem
<1> QED
  BY <1>1, <1>2, Invariance, PTL DEF Spec, ImplementsLineTty, Tty!Spec
=============================================================================
