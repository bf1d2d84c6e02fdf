------------------------------- MODULE Console ------------------------------
(***************************************************************************)
(* The console (console.rs) on the serial port of module Uart: the ring of *)
(* typed characters with its indices r, w and e, line editing and raw      *)
(* mode, reads that sleep until a line is there, and the foreground        *)
(* process that ^C kills.                                                  *)
(*                                                                         *)
(* Everything happens under CONSOLE.lock() and is one step, except that a  *)
(* read sleeps and that output goes on in Uart.  The echo of a character   *)
(* polls the device: the step waits for it to be empty.                    *)
(***************************************************************************)
EXTENDS Uart, Sequences, FiniteSets, FiniteSetsExt

CONSTANTS
  INPUT_BUF_SIZE,
  Plain,                \* ordinary characters
  NL, EOT, BS, NAK, ETX, \* newline, ^D, backspace, ^U, ^C
  ReadLen,              \* bound: length of a read
  MaxKeys, MaxCalls     \* bounds: characters typed, system calls made

ASSUME ConsoleAssumption ==
  INPUT_BUF_SIZE \in Nat \ {0} /\ ReadLen \in Nat \ {0} /\ MaxKeys \in Nat /\ MaxCalls \in Nat

Char == Plain \cup {NL, EOT, BS, NAK, ETX}

VARIABLES
  buf, r, w, e, raw, foreground_pid,
  rd,        \* read of each process: where it is, the bytes left, the bytes it got
  killed,
  keys, budget

consVars == <<buf, r, w, e, raw, foreground_pid, rd, killed, keys, budget>>
vars == <<uartVars, consVars>>

NotReading == [pc |-> "idle", left |-> 0, got |-> 0]

Init ==
  /\ UartInit
  /\ buf = [x \in 0..(INPUT_BUF_SIZE - 1) |-> NONE]
  /\ r = 0 /\ w = 0 /\ e = 0 /\ raw = FALSE /\ foreground_pid = NONE
  /\ rd = [p \in Proc |-> NotReading]
  /\ killed = {}
  /\ keys = MaxKeys /\ budget = MaxCalls

At(i) == buf[i % INPUT_BUF_SIZE]
Room == e - r < INPUT_BUF_SIZE
Wakeup(s) == [p \in Proc |-> IF s[p].pc = "asleep" THEN [s[p] EXCEPT !.pc = "read"] ELSE s[p]]

-----------------------------------------------------------------------------
KeyRawNoWake(c) ==
  /\ raw /\ Room
  /\ buf' = [buf EXCEPT ![e % INPUT_BUF_SIZE] = c]
  /\ e' = e + 1 /\ w' = e + 1
  /\ UNCHANGED <<r, rd, killed, fifo, txirq>>

(* handle_interrupt of a character.  In raw mode it is published at once. *)
KeyRaw(c) ==
  /\ raw /\ Room
  /\ buf' = [buf EXCEPT ![e % INPUT_BUF_SIZE] = c]
  /\ e' = e + 1 /\ w' = e + 1
  /\ rd' = Wakeup(rd)
  /\ UNCHANGED <<r, killed, fifo, txirq>>

(* Output that polls the device, for a step that is over when it is done. *)
Echo == ulock = NONE /\ fifo = 0 /\ ~panicked /\ fifo' = 1 /\ UNCHANGED txirq

KeyEraseUnguarded(c) ==
  /\ c = BS /\ e > 0
  /\ e' = e - 1 /\ Echo
  /\ UNCHANGED <<buf, r, w, rd, killed>>

(* Cooked mode, and raw mode when the ring is full. *)
KeyErase(c) ==
  /\ c = BS
  /\ IF e # w THEN e' = e - 1 /\ Echo ELSE UNCHANGED <<e, fifo, txirq>>
  /\ UNCHANGED <<buf, r, w, rd, killed>>

(* The line is erased back to what was published, or to a newline. *)
KeyKillLine(c) ==
  /\ c = NAK
  /\ LET stop == Max({w} \cup {i \in (w + 1)..e : At(i - 1) = NL}) IN
     IF e # stop THEN e' = stop /\ Echo ELSE UNCHANGED <<e, fifo, txirq>>
  /\ UNCHANGED <<buf, r, w, rd, killed>>

(* kill wakes the process if it sleeps. *)
KeyInterrupt(c) ==
  /\ c = ETX
  /\ killed' = IF foreground_pid = NONE THEN killed ELSE killed \cup {foreground_pid}
  /\ rd' = [p \in Proc |-> IF p = foreground_pid THEN Wakeup(rd)[p] ELSE rd[p]]
  /\ UNCHANGED <<buf, r, w, e, fifo, txirq>>

Publishes(c) == c \in {NL, EOT} \/ e + 1 - r = INPUT_BUF_SIZE

KeyPlain(c) ==
  /\ c \in Plain \cup {NL, EOT}
  /\ IF Room
     THEN /\ Echo
          /\ buf' = [buf EXCEPT ![e % INPUT_BUF_SIZE] = c]
          /\ e' = e + 1
          /\ IF Publishes(c) THEN w' = e + 1 /\ rd' = Wakeup(rd) ELSE UNCHANGED <<w, rd>>
     ELSE UNCHANGED <<buf, e, w, rd, fifo, txirq>>
  /\ UNCHANGED <<r, killed>>

Key(c) ==
  /\ keys > 0 /\ keys' = keys - 1 /\ ~panicked
  /\ \/ KeyRaw(c)
     \/ /\ ~(raw /\ Room)
        /\ KeyErase(c) \/ KeyKillLine(c) \/ KeyInterrupt(c) \/ KeyPlain(c)
  /\ UNCHANGED <<raw, foreground_pid, budget, tx_busy, ulock, out, panicking, panicked, late>>

-----------------------------------------------------------------------------
(* read, from the point where it holds the lock to its return or its next sleep:
   it takes characters until it has what was asked for, a newline, or ^D, which
   is left for the next read if this one has something; in raw mode it takes one. *)
Done(p, n) ==
  /\ r' = r + n
  /\ rd' = [rd EXCEPT ![p] = NotReading]

ReadStep(p) ==
  LET s == rd[p]
      unread == w - r
      ends == {j \in 1..unread : At(r + j - 1) \in {NL, EOT}}
      first == IF raw THEN 1 ELSE IF ends = {} THEN unread + 1 ELSE Min(ends)
      eof == ~raw /\ first <= unread /\ At(r + first - 1) = EOT
  IN /\ s.pc = "read" /\ ~panicked
     /\ \/ /\ first <= Min({unread, s.left})                   \* up to the end of a line
           /\ Done(p, IF eof /\ s.got + first > 1 THEN first - 1 ELSE first)
        \/ /\ first > s.left /\ s.left <= unread               \* as much as was asked for
           /\ Done(p, s.left)
        \/ \E k \in 1..Min({unread, s.left, first}) :          \* the copy to the user fails
             /\ ~(eof /\ k = first)
             /\ Done(p, k)
        \/ /\ first > unread /\ unread < s.left                \* everything, and not enough
           /\ r' = w
           /\ rd' = [rd EXCEPT ![p] = IF p \in killed THEN NotReading
                                      ELSE [pc |-> "asleep", left |-> s.left - unread, got |-> s.got + unread]]
     /\ UNCHANGED <<buf, w, e, raw, foreground_pid, killed, keys, budget, uartVars>>

-----------------------------------------------------------------------------
CanCall(p) == budget > 0 /\ ~panicked /\ rd[p].pc = "idle" /\ out[p].pc = "idle" /\ p \notin killed

Read(p) ==
  /\ CanCall(p)
  /\ rd' = [rd EXCEPT ![p] = [pc |-> "read", left |-> ReadLen, got |-> 0]]
  /\ budget' = budget - 1
  /\ UNCHANGED <<buf, r, w, e, raw, foreground_pid, killed, keys, uartVars>>

(* Console::write: in raw mode the output polls the device. *)
WriteCall(p) ==
  /\ CanCall(p)
  /\ IF raw THEN StartSync(p, MaxOut) ELSE StartWrite(p, MaxOut)
  /\ budget' = budget - 1
  /\ UNCHANGED <<buf, r, w, e, raw, foreground_pid, rd, killed, keys>>
  /\ UNCHANGED <<fifo, txirq, tx_busy, ulock, panicking, panicked, late>>

(* The kernel prints on behalf of a process, or panics. *)
KernelPrint(p) ==
  /\ rd[p].pc = "idle" /\ budget > 0 /\ StartSync(p, MaxOut)
  /\ budget' = budget - 1
  /\ UNCHANGED <<buf, r, w, e, raw, foreground_pid, rd, killed, keys>>
  /\ UNCHANGED <<fifo, txirq, tx_busy, ulock, panicking, panicked, late>>

KernelPanic(p) == rd[p].pc = "idle" /\ budget > 0 /\ Panic(p) /\ budget' = budget - 1
  /\ UNCHANGED <<buf, r, w, e, raw, foreground_pid, rd, killed, keys>>

(* Switching raw mode on drops the line that is being edited. *)
SetRaw(p, on) ==
  /\ CanCall(p)
  /\ raw' = on /\ e' = IF on THEN w ELSE e
  /\ budget' = budget - 1
  /\ UNCHANGED <<buf, r, w, foreground_pid, rd, killed, keys, uartVars>>

SetForeground(p, q) ==
  /\ CanCall(p)
  /\ foreground_pid' = q
  /\ budget' = budget - 1
  /\ UNCHANGED <<buf, r, w, e, raw, rd, killed, keys, uartVars>>

Call(p) ==
  \/ Read(p) \/ WriteCall(p) \/ KernelPrint(p) \/ KernelPanic(p)
  \/ \E on \in BOOLEAN : SetRaw(p, on)
  \/ \E q \in Proc \cup {NONE} : SetForeground(p, q)

Output(p) == UartStep(p) /\ UNCHANGED consVars
Hardware == Device /\ UNCHANGED consVars

(* The interrupt of a received byte, which is taken from the bound on those. *)
Received ==
  /\ keys > 0 /\ keys' = keys - 1
  /\ Ack
  /\ UNCHANGED <<buf, r, w, e, raw, foreground_pid, rd, killed, budget>>

Next ==
  \/ Hardware \/ Received
  \/ \E c \in Char : Key(c)
  \/ \E p \in Proc : Output(p) \/ ReadStep(p) \/ Call(p)

(* The device sends, interrupts are taken and processes run. *)
Spec ==
  /\ Init /\ [][Next]_vars
  /\ WF_vars(Transmit /\ UNCHANGED consVars) /\ WF_vars(IntrAck /\ UNCHANGED consVars)
  /\ WF_vars(IntrTest /\ UNCHANGED consVars)
  /\ \A p \in Proc : WF_vars(Output(p))

-----------------------------------------------------------------------------
TypeOK ==
  /\ fifo \in 0..FIFO /\ {txirq, tx_busy, panicking, panicked, raw} \subseteq BOOLEAN
  /\ ulock \in Proc \cup {NONE, INTR} /\ late \in [Proc -> Nat]
  /\ out \in [Proc -> [pc : {"idle", "write", "asleep", "sync", "panic", "dying", "dead"}, left : 0..MaxOut]]
  /\ buf \in [0..(INPUT_BUF_SIZE - 1) -> Char \cup {NONE}]
  /\ rd \in [Proc -> [pc : {"idle", "read", "asleep"}, left : 0..ReadLen, got : 0..ReadLen]]
  /\ foreground_pid \in Proc \cup {NONE} /\ killed \subseteq Proc
  /\ keys \in 0..MaxKeys /\ budget \in 0..MaxCalls

(* The indices stay in the order that the comment on Console gives, and no more
   than the ring is in use, through editing, saved ^D, full rings and changes of
   mode. *)
IndicesOrdered == r <= w /\ w <= e /\ e <= r + INPUT_BUF_SIZE

(* No lost wakeup.  A process sleeps in Console::read only while nothing is
   published, and not once ^C has killed it; it sleeps in uart::write only while
   the transmit interrupt is still to come: the device has bytes, has raised it,
   or it is being handled. *)
SleepersHaveReason ==
  \A p \in Proc :
    /\ rd[p].pc = "asleep" => r = w /\ p \notin killed
    /\ out[p].pc = "asleep" => tx_busy /\ (fifo > 0 \/ txirq \/ ulock = INTR)

(* write trusts tx_busy and write_sync the line status, and neither looks at the
   other's: together they still put no more than two bytes into the device. *)
NoOverrun == fifo <= 2

(* After the message of a panic every process prints at most the one output that
   had passed write_sync's test before. *)
PanicFreezes == \A p \in Proc : late[p] <= 1

(* The two drivers together: ordered indices, no lost wakeup, no overrun of the
   device, and silence after a panic. *)
DriverSafe == TypeOK /\ IndicesOrdered /\ SleepersHaveReason /\ NoOverrun /\ PanicFreezes

(* The ring with its three indices is a line-edited input queue. *)
Tty == INSTANCE LineTty WITH
  LineEnd <- {NL, EOT}, Capacity <- INPUT_BUF_SIZE,
  input <- [j \in 1..(w - r) |-> At(r + j - 1)], line <- [j \in 1..(e - w) |-> At(w + j - 1)]
ImplementsLineTty == Tty!Spec

(* A user's output ends: interrupts keep waking it, whatever the kernel prints in
   between and whoever panics. *)
OutputEnds == \A p \in Proc : (out[p].pc = "asleep") ~> (out[p].pc = "idle")
=============================================================================
