----------------------------- MODULE VirtioDisk -----------------------------
(***************************************************************************)
(* The virtio block driver of kernel/src/virtio_disk.rs: processes that    *)
(* transfer a locked buffer with `rw`, the completion interrupt, and the   *)
(* device, which takes requests from the avail ring and completes them in  *)
(* any order on the used ring.                                             *)
(*                                                                         *)
(* Abstractions.  The VIRTIO_DISK spin lock is held from one sleep to the  *)
(* next, so each such stretch of `rw` is one step; the device runs between *)
(* any two steps, also while the interrupt handler holds the lock.  Block  *)
(* contents, sectors and addresses are left out: a transfer is over when   *)
(* the device has written the request's status byte.  Ring stores are      *)
(* taken in program order (the source has no fences).                      *)
(***************************************************************************)
EXTENDS Integers, FiniteSets

CONSTANTS Procs,    \* processes that call rw
          Bufs,     \* buffers of the cache
          BufsOf,   \* the buffers each process transfers: a bound of the model
          NUM,      \* descriptors, and entries of each ring
          IDX,      \* the ring indices count modulo IDX (2^16: they are u16)
          None      \* no buffer, no chain, no channel

\* rw sleeps on &disk.free[0] for descriptors and on the buffer id for the
\* completion.
Free0 == "free0"

ASSUME VirtioAssumption ==
  /\ NUM \in Nat /\ NUM >= 3
  /\ IDX \in Nat /\ IDX > NUM /\ IDX % NUM = 0
  /\ None \notin Bufs /\ None \notin Nat /\ Free0 \notin Bufs \cup {None}
  /\ BufsOf \in [Procs -> SUBSET Bufs]

Desc == 0..(NUM - 1)

VARIABLES
  free,     \* Disk.free
  next,     \* Disk.desc: the next descriptor when VRING_DESC_F_NEXT is set
  info,     \* Disk.info[_].buf_id, None for usize::MAX
  status,   \* Disk.info[_].status: 255 until the device writes 0
  avail,    \* Disk.avail: idx and ring
  used,     \* Disk.used: idx and ring
  used_idx, \* Disk.used_idx
  disk,     \* meta[_].disk in the buffer cache
  pc,       \* "idle", "alloc" or "wait": where a process is in rw
  buf,      \* the buffer a process transfers
  head,     \* ids[0] of a process in "wait"
  chan,     \* the channel a process sleeps on, None when it is runnable
  seen,     \* the device's position in the avail ring
  inflight, \* chains the device has taken and not completed
  irq,      \* the interrupt line
  handler   \* handle_interrupt is running and holds the lock

descVars == <<free, next, info, status>>
procVars == <<pc, buf, head>>
devVars == <<seen, inflight>>
vars == <<descVars, avail, used, used_idx, disk, procVars, chan, devVars, irq,
          handler>>

TypeOK ==
  /\ free \in [Desc -> BOOLEAN]
  /\ next \in [Desc -> Desc \cup {None}]
  /\ info \in [Desc -> Bufs \cup {None}]
  /\ status \in [Desc -> {0, 255}]
  /\ avail \in [idx : 0..(IDX - 1), ring : [Desc -> Desc]]
  /\ used \in [idx : 0..(IDX - 1), ring : [Desc -> Desc]]
  /\ used_idx \in 0..(IDX - 1)
  /\ disk \in [Bufs -> BOOLEAN]
  /\ pc \in [Procs -> {"idle", "alloc", "wait"}]
  /\ buf \in [Procs -> Bufs \cup {None}]
  /\ head \in [Procs -> Desc \cup {None}]
  /\ chan \in [Procs -> Bufs \cup {Free0, None}]
  /\ seen \in 0..(IDX - 1)
  /\ inflight \subseteq Desc
  /\ irq \in BOOLEAN
  /\ handler \in BOOLEAN

-----------------------------------------------------------------------------
(* Descriptors.                                                            *)

\* Three calls of alloc_desc, each taking the lowest free descriptor.
Alloc3(i, j, k) ==
  /\ i < j /\ j < k
  /\ free[i] /\ free[j] /\ free[k]
  /\ \A m \in Desc : m < k /\ free[m] => m \in {i, j}

CanAlloc3 == \E i, j, k \in Desc : Alloc3(i, j, k)

\* free_desc wakes the sleepers on the address of the freed entry, so only
\* freeing descriptor 0 wakes the processes that wait for descriptors.
Woken(c, freed) ==
  [p \in Procs |-> IF c[p] = Free0 /\ 0 \in freed THEN None ELSE c[p]]

\* free_chain follows the NEXT flags from the head; rw links three.
Chain(h) ==
  {h} \cup (IF next[h] = None THEN {}
            ELSE {next[h]} \cup (IF next[next[h]] = None THEN {}
                                 ELSE {next[next[h]]}))

-----------------------------------------------------------------------------
(* rw.                                                                     *)

\* A process enters rw with a buffer it has locked.
RwEnter(p, b) ==
  /\ pc[p] = "idle"
  /\ \A q \in Procs : buf[q] # b
  /\ pc' = [pc EXCEPT ![p] = "alloc"]
  /\ buf' = [buf EXCEPT ![p] = b]
  /\ UNCHANGED <<descVars, avail, used, used_idx, disk, head, chan, devVars, irq,
                 handler>>

\* alloc3_desc fails: it frees what it got, which may wake sleepers, and rw
\* sleeps on &disk.free[0].
RwNoDesc(p) ==
  /\ pc[p] = "alloc" /\ chan[p] = None /\ ~handler
  /\ ~CanAlloc3
  /\ chan' = [Woken(chan, {i \in Desc : free[i]}) EXCEPT ![p] = Free0]
  /\ UNCHANGED <<descVars, avail, used, used_idx, disk, procVars, devVars, irq,
                 handler>>

\* alloc3_desc succeeds: rw formats the chain, publishes its head, notifies
\* the device and sleeps on the buffer.
RwSubmit(p) ==
  /\ pc[p] = "alloc" /\ chan[p] = None /\ ~handler
  /\ \E i, j, k \in Desc :
       /\ Alloc3(i, j, k)
       /\ free' = [free EXCEPT ![i] = FALSE, ![j] = FALSE, ![k] = FALSE]
       /\ next' = [next EXCEPT ![i] = j, ![j] = k, ![k] = None]
       /\ info' = [info EXCEPT ![i] = buf[p]]
       /\ status' = [status EXCEPT ![i] = 255]
       /\ avail' = [idx |-> (avail.idx + 1) % IDX,
                    ring |-> [avail.ring EXCEPT ![avail.idx % NUM] = i]]
       /\ head' = [head EXCEPT ![p] = i]
  /\ disk' = [disk EXCEPT ![buf[p]] = TRUE]
  /\ pc' = [pc EXCEPT ![p] = "wait"]
  /\ chan' = [chan EXCEPT ![p] = buf[p]]
  /\ UNCHANGED <<used, used_idx, buf, devVars, irq, handler>>

\* rw is awake while its transfer is still in progress: it sleeps again.
RwSleepAgain(p) ==
  /\ pc[p] = "wait" /\ chan[p] = None /\ ~handler
  /\ disk[buf[p]]
  /\ chan' = [chan EXCEPT ![p] = buf[p]]
  /\ UNCHANGED <<descVars, avail, used, used_idx, disk, procVars, devVars, irq,
                 handler>>

\* Mutant of RwFinish: rw does not test the flag again after its sleep.
RwFinishAnyWakeup(p) ==
  /\ pc[p] = "wait" /\ chan[p] = None /\ ~handler
  /\ info' = [info EXCEPT ![head[p]] = None]
  /\ LET freed == Chain(head[p])
     IN  /\ free' = [i \in Desc |-> free[i] \/ i \in freed]
         /\ next' = [i \in Desc |-> IF i \in freed THEN None ELSE next[i]]
         /\ chan' = Woken(chan, freed)
  /\ pc' = [pc EXCEPT ![p] = "idle"]
  /\ buf' = [buf EXCEPT ![p] = None]
  /\ head' = [head EXCEPT ![p] = None]
  /\ UNCHANGED <<status, avail, used, used_idx, disk, devVars, irq, handler>>

\* The transfer is over: rw frees the chain and returns.
RwFinish(p) ==
  /\ pc[p] = "wait" /\ chan[p] = None /\ ~handler
  /\ ~disk[buf[p]]
  /\ info' = [info EXCEPT ![head[p]] = None]
  /\ LET freed == Chain(head[p])
     IN  /\ free' = [i \in Desc |-> free[i] \/ i \in freed]
         /\ next' = [i \in Desc |-> IF i \in freed THEN None ELSE next[i]]
         /\ chan' = Woken(chan, freed)
  /\ pc' = [pc EXCEPT ![p] = "idle"]
  /\ buf' = [buf EXCEPT ![p] = None]
  /\ head' = [head EXCEPT ![p] = None]
  /\ UNCHANGED <<status, avail, used, used_idx, disk, devVars, irq, handler>>

\* kill makes a sleeping process runnable.
KillWakes(p) ==
  /\ chan[p] # None
  /\ chan' = [chan EXCEPT ![p] = None]
  /\ UNCHANGED <<descVars, avail, used, used_idx, disk, procVars, devVars, irq,
                 handler>>

-----------------------------------------------------------------------------
(* handle_interrupt.                                                       *)

\* The handler takes the lock and acknowledges the interrupt.
IntrAck ==
  /\ irq /\ ~handler
  /\ irq' = FALSE
  /\ handler' = TRUE
  /\ UNCHANGED <<descVars, avail, used, used_idx, disk, procVars, chan, devVars>>

\* The state change of IntrComplete with the given wakeup and next index.
Completing(wakes, idx) ==
  /\ handler /\ used_idx # used.idx
  /\ LET b == info[used.ring[used_idx % NUM]]
     IN  /\ b # None
         /\ disk' = [disk EXCEPT ![b] = FALSE]
         /\ chan' = [p \in Procs |-> IF wakes /\ chan[p] = b THEN None ELSE chan[p]]
  /\ used_idx' = idx
  /\ UNCHANGED <<descVars, avail, used, procVars, devVars, irq, handler>>

\* Mutants of IntrComplete: used_idx is not advanced; the sleeper is not woken.
IntrCompleteStuck == Completing(TRUE, used_idx)
IntrCompleteNoWake == Completing(FALSE, (used_idx + 1) % IDX)

\* One iteration: the buffer of the completed chain is no longer the disk's
\* and its process is woken.  Without a buffer the index panics; the model
\* stops there.
IntrComplete == Completing(TRUE, (used_idx + 1) % IDX)

\* Mutant of IntrReturn: the handler returns before the used ring is empty.
IntrReturnEarly ==
  /\ handler
  /\ handler' = FALSE
  /\ UNCHANGED <<descVars, avail, used, used_idx, disk, procVars, chan, devVars,
                 irq>>

\* The handler finds no more entries and releases the lock.
IntrReturn ==
  /\ handler /\ used_idx = used.idx
  /\ handler' = FALSE
  /\ UNCHANGED <<descVars, avail, used, used_idx, disk, procVars, chan, devVars,
                 irq>>

-----------------------------------------------------------------------------
(* The device.                                                             *)

DeviceTake ==
  /\ seen # avail.idx
  /\ inflight' = inflight \cup {avail.ring[seen % NUM]}
  /\ seen' = (seen + 1) % IDX
  /\ UNCHANGED <<descVars, avail, used, used_idx, disk, procVars, chan, irq,
                 handler>>

\* The device writes the status byte and the used entry, and interrupts.
DeviceComplete(h) ==
  /\ h \in inflight
  /\ status' = [status EXCEPT ![h] = 0]
  /\ used' = [idx |-> (used.idx + 1) % IDX,
              ring |-> [used.ring EXCEPT ![used.idx % NUM] = h]]
  /\ inflight' = inflight \ {h}
  /\ irq' = TRUE
  /\ UNCHANGED <<free, next, info, avail, used_idx, disk, procVars, chan, seen,
                 handler>>

-----------------------------------------------------------------------------
\* Disk::new.
Init ==
  /\ free = [i \in Desc |-> TRUE]
  /\ next = [i \in Desc |-> None]
  /\ info = [i \in Desc |-> None]
  /\ status = [i \in Desc |-> 0]
  /\ avail = [idx |-> 0, ring |-> [i \in Desc |-> 0]]
  /\ used = [idx |-> 0, ring |-> [i \in Desc |-> 0]]
  /\ used_idx = 0
  /\ disk = [b \in Bufs |-> FALSE]
  /\ pc = [p \in Procs |-> "idle"]
  /\ buf = [p \in Procs |-> None]
  /\ head = [p \in Procs |-> None]
  /\ chan = [p \in Procs |-> None]
  /\ seen = 0
  /\ inflight = {}
  /\ irq = FALSE
  /\ handler = FALSE

Rw(p) == RwNoDesc(p) \/ RwSubmit(p) \/ RwSleepAgain(p) \/ RwFinish(p)

Interrupt == IntrAck \/ IntrComplete \/ IntrReturn

Next ==
  \/ \E p \in Procs : \E b \in BufsOf[p] : RwEnter(p, b)
  \/ \E p \in Procs : Rw(p) \/ KillWakes(p)
  \/ Interrupt
  \/ DeviceTake
  \/ \E h \in Desc : DeviceComplete(h)

Spec == Init /\ [][Next]_vars

\* A process that can return is scheduled and gets the lock in the end even if
\* the interrupt handler takes it in between, a pending interrupt is taken,
\* and the device completes every request it is given.
Fairness ==
  /\ \A p \in Procs : SF_vars(RwFinish(p))
  /\ WF_vars(Interrupt)
  /\ WF_vars(DeviceTake)
  /\ \A h \in Desc : WF_vars(DeviceComplete(h))

FairSpec == Spec /\ Fairness

-----------------------------------------------------------------------------
(* Properties.                                                             *)

\* Ring entries from position i up to index j.
Entries(i, j) == (j - i + IDX) % IDX

\* The requests the device may still read or write: published and not taken,
\* or taken and not completed.
AtDevice ==
  inflight \cup {avail.ring[(seen + n) % NUM] : n \in 0..(Entries(seen, avail.idx) - 1)}

\* Used entries the handler has not looked at.
Completed ==
  {used.ring[(used_idx + n) % NUM] : n \in 0..(Entries(used_idx, used.idx) - 1)}

\* The device transfers only into buffers whose owner is still inside rw: a
\* chain at the device belongs to a process that waits for it, is allocated
\* as a whole, and names that process's buffer.
DmaOwned ==
  \A h \in AtDevice :
    \E p \in Procs :
      /\ pc[p] = "wait" /\ head[p] = h /\ disk[buf[p]] /\ info[h] = buf[p]
      /\ \A i \in Chain(h) : ~free[i]

\* Every entry handle_interrupt finds in the used ring is a transfer some
\* process still waits for, so meta[buf_id] is never indexed with usize::MAX,
\* and no entry is overwritten before it is read.  rw returns only after the
\* device has finished its transfer: the status byte has been written.
CompletionsKnown ==
  /\ \A h \in Completed :
       /\ h \notin AtDevice
       /\ \E p \in Procs : pc[p] = "wait" /\ head[p] = h /\ disk[info[h]]
  /\ Cardinality(Completed) = Entries(used_idx, used.idx)
  /\ \A p \in Procs : pc[p] = "wait" /\ ~disk[buf[p]] =>
       status[head[p]] = 0 /\ head[p] \notin AtDevice

\* No lost wakeup.  free_desc(i) wakes the channel &free[i] but rw sleeps for
\* descriptors on &free[0] (virtio_disk.rs:230, 296); such a sleeper is still
\* woken, because descriptor 0 is in use whenever three cannot be found.  A
\* process asleep for its transfer has the request at the device, or the
\* completion is in the used ring and will be looked at.
SleeperHasWaker ==
  \A p \in Procs :
    /\ chan[p] = Free0 => \E q \in Procs : pc[q] = "wait" /\ 0 \in Chain(head[q])
    /\ pc[p] = "wait" /\ chan[p] # None =>
         \/ head[p] \in AtDevice
         \/ head[p] \in Completed /\ (irq \/ handler)

\* Every transfer given to the device returns to its caller.
TransferReturns == \A p \in Procs : pc[p] = "wait" ~> pc[p] = "idle"
=============================================================================
