-------------------------------- MODULE Uart --------------------------------
(***************************************************************************)
(* The transmit side of the serial port (uart.rs): write, which sleeps     *)
(* until an interrupt clears tx_busy, write_sync, which polls the device   *)
(* under the same lock, the interrupt handler, and the panic message       *)
(* (printf.rs) that must get past all of them.                             *)
(*                                                                         *)
(* The bytes themselves do not matter; what counts is how many are in the  *)
(* device, who waits and who will wake it.                                 *)
(***************************************************************************)
EXTENDS Integers

CONSTANTS
  Proc,
  FIFO,       \* bytes the device can hold
  MaxOut,     \* bound: bytes of one output
  NONE, INTR  \* holders of the lock that are not processes

ASSUME UartAssumption ==
  /\ FIFO \in Nat /\ FIFO >= 2 /\ MaxOut \in Nat \ {0}
  /\ NONE \notin Proc /\ INTR \notin Proc \cup {NONE}

VARIABLES
  fifo,       \* bytes in the device
  txirq,      \* it has raised its transmit interrupt
  tx_busy,
  ulock,      \* holder of UART.lock()
  out,        \* output of each process: where it is, and the bytes left
  panicking, panicked,
  late        \* history: outputs each process made after the panic message

uartVars == <<fifo, txirq, tx_busy, ulock, out, panicking, panicked, late>>

Silent == [pc |-> "idle", left |-> 0]
Dead == [pc |-> "dead", left |-> 0]

UartInit ==
  /\ fifo = 0 /\ txirq = FALSE /\ tx_busy = FALSE /\ ulock = NONE
  /\ out = [p \in Proc |-> Silent]
  /\ panicking = FALSE /\ panicked = FALSE
  /\ late = [p \in Proc |-> 0]

Emit(p, o) == out' = [out EXCEPT ![p] = o]

-----------------------------------------------------------------------------
(* The device sends a byte; when it has none left it raises its interrupt. *)
Transmit ==
  /\ fifo > 0
  /\ fifo' = fifo - 1
  /\ txirq' = (txirq \/ fifo = 1)
  /\ UNCHANGED <<tx_busy, ulock, out, panicking, panicked, late>>

(* handle_interrupt, under the lock: the interrupt is acknowledged first and the
   line status read after it.  A received byte interrupts as well, whatever the
   transmitter does. *)
Ack ==
  /\ ulock = NONE
  /\ txirq' = FALSE /\ ulock' = INTR
  /\ UNCHANGED <<fifo, tx_busy, out, panicking, panicked, late>>

IntrAck == txirq /\ Ack

Woken == [p \in Proc |-> IF out[p].pc = "asleep" THEN [out[p] EXCEPT !.pc = "write"] ELSE out[p]]

IntrTestNoWake ==
  /\ ulock = INTR /\ ulock' = NONE
  /\ IF fifo = 0 THEN tx_busy' = FALSE ELSE UNCHANGED tx_busy
  /\ UNCHANGED <<fifo, txirq, out, panicking, panicked, late>>

IntrTest ==
  /\ ulock = INTR /\ ulock' = NONE
  /\ IF fifo = 0 THEN tx_busy' = FALSE /\ out' = Woken ELSE UNCHANGED <<tx_busy, out>>
  /\ UNCHANGED <<fifo, txirq, panicking, panicked, late>>

-----------------------------------------------------------------------------

(* write: nothing more is sent once a panic began.  Otherwise a byte is sent and
   the next one waits for the interrupt; sleeping gives the lock up. *)
Write(p) ==
  LET o == out[p] IN
  /\ o.pc = "write" /\ ulock = NONE
  /\ IF panicking THEN Emit(p, Silent) /\ UNCHANGED <<fifo, tx_busy>>
     ELSE IF tx_busy THEN Emit(p, [o EXCEPT !.pc = "asleep"]) /\ UNCHANGED <<fifo, tx_busy>>
     ELSE /\ fifo' = fifo + 1 /\ tx_busy' = TRUE
          /\ Emit(p, IF o.left = 1 THEN Silent ELSE [pc |-> "asleep", left |-> o.left - 1])
  /\ UNCHANGED <<txirq, ulock, panicking, panicked, late>>

(* write_sync: the test for the panic comes before the lock, *)
SyncLock(p) ==
  /\ out[p].pc \in {"sync", "panic"} /\ ulock = NONE
  /\ ulock' = p
  /\ late' = [late EXCEPT ![p] = IF panicked THEN @ + 1 ELSE @]
  /\ UNCHANGED <<fifo, txirq, tx_busy, out, panicking, panicked>>

(* and the lock is held until the last byte is in the device.  The message of a
   panic is followed by the flag that stops the others. *)
SyncByte(p) ==
  LET o == out[p] IN
  /\ ulock = p /\ fifo = 0
  /\ fifo' = 1
  /\ IF o.left > 1 THEN Emit(p, [o EXCEPT !.left = @ - 1]) /\ UNCHANGED ulock
     ELSE Emit(p, IF o.pc = "panic" THEN [pc |-> "dying", left |-> 0] ELSE Silent) /\ ulock' = NONE
  /\ UNCHANGED <<txirq, tx_busy, panicking, panicked, late>>

PanicDone(p) ==
  /\ out[p].pc = "dying"
  /\ panicked' = TRUE
  /\ Emit(p, Dead)
  /\ UNCHANGED <<fifo, txirq, tx_busy, ulock, panicking, late>>

(* Where an output begins: a user's write, a print of the kernel, a panic. *)
StartWrite(p, n) == out[p].pc = "idle" /\ Emit(p, [pc |-> "write", left |-> n])
StartSync(p, n) ==
  /\ out[p].pc = "idle"
  /\ Emit(p, IF panicked THEN Dead ELSE [pc |-> "sync", left |-> n])
Panic(p) ==
  /\ out[p].pc = "idle"
  /\ panicking' = TRUE
  /\ Emit(p, IF panicked THEN Dead ELSE [pc |-> "panic", left |-> MaxOut])
  /\ UNCHANGED <<fifo, txirq, tx_busy, ulock, panicked, late>>

UartStep(p) == Write(p) \/ SyncLock(p) \/ SyncByte(p) \/ PanicDone(p)
Device == Transmit \/ IntrAck \/ IntrTest
=============================================================================
