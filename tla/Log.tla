-------------------------------- MODULE Log --------------------------------
(***************************************************************************)
(* The write-ahead redo log of kernel/src/log.rs, with the part of the     *)
(* buffer cache (kernel/src/buf.rs) it depends on: pinning, write-through  *)
(* and recycling of buffers.  Several processes run file-system operations *)
(* concurrently; a crash may happen between any two disk writes and is     *)
(* followed by recovery.                                                   *)
(*                                                                         *)
(* Abstractions.  A block's contents is an element of Val.  A header is    *)
(* the sequence of its first n block numbers: the entries past n are never *)
(* read.  LOG.inner is a spin lock held over each critical section, so a   *)
(* critical section is one step; every disk write is a step of its own.    *)
(* The superblock's nlogs is LOGBLOCKS + 1, as mkfs writes it, so the two  *)
(* tests of log::write for a full log coincide.                            *)
(***************************************************************************)
EXTENDS Integers, Sequences, FiniteSets

CONSTANTS Procs,        \* processes that run file-system operations
          Blocks,       \* home blocks that operations modify
          Val,          \* contents of a block
          LOGBLOCKS,    \* data blocks in the on-disk log
          MAXOPBLOCKS,  \* log blocks that begin_op reserves for an operation
          OpBlocks,     \* distinct blocks an operation really modifies
          NoBlock,      \* "no buffer is held"
          NotCached     \* "no valid buffer holds the block"

ASSUME LogAssumption ==
  /\ LOGBLOCKS \in Nat
  /\ MAXOPBLOCKS \in Nat \ {0}
  /\ MAXOPBLOCKS <= LOGBLOCKS
  /\ OpBlocks \in Nat
  /\ OpBlocks < MAXOPBLOCKS
  /\ IsFiniteSet(Procs)
  /\ IsFiniteSet(Blocks)
  /\ NoBlock \notin Blocks
  /\ NotCached \notin Val

VARIABLES
  disk,         \* home location of every block
  dlog,         \* data blocks of the on-disk log
  dhead,        \* header block of the on-disk log
  cache,        \* contents of the buffer that caches a block
  pins,         \* references to a block's buffer taken by BCACHE.pin
  header,       \* in-memory log header
  outstanding,  \* operations in progress
  committing,   \* a commit is in progress
  pc,           \* what each process is doing
  tail,         \* loop index of write_log and install_trans
  hold,         \* the buffer a process has locked and modified
  wrote,        \* blocks the current operation of a process has logged
  asleep,       \* processes asleep on Channel::Log
  boot,         \* where recovery stands
  btail         \* loop index of install_trans during recovery

diskVars == <<disk, dlog, dhead>>
memVars == <<cache, pins, header>>
lockVars == <<outstanding, committing, asleep>>
procVars == <<pc, tail, hold, wrote>>
bootVars == <<boot, btail>>
vars == <<diskVars, memVars, lockVars, procVars, bootVars>>

Slots == 1..LOGBLOCKS

LoggedBlocks(h) == {h[i] : i \in 1..Len(h)}

TypeOK ==
  /\ disk \in [Blocks -> Val]
  /\ dlog \in [Slots -> Val]
  /\ dhead \in Seq(Blocks)
  /\ cache \in [Blocks -> Val \cup {NotCached}]
  /\ pins \in [Blocks -> Int]
  /\ header \in Seq(Blocks)
  /\ outstanding \in Int
  /\ committing \in BOOLEAN
  /\ asleep \subseteq Procs
  /\ pc \in [Procs -> {"idle", "begin", "op", "commit", "write_log",
                       "install", "done", "panicked"}]
  /\ tail \in [Procs -> Nat]
  /\ hold \in [Procs -> Blocks \cup {NoBlock}]
  /\ wrote \in [Procs -> SUBSET Blocks]
  /\ boot \in {"read_head", "install", "up"}
  /\ btail \in Nat

-----------------------------------------------------------------------------
(* The buffer cache as the log uses it.                                    *)

\* BCACHE.read: the contents of a cached block, else what the disk holds.
BRead(b) == IF cache[b] = NotCached THEN disk[b] ELSE cache[b]

\* BCACHE.get recycles a buffer whose reference count is zero: nobody has
\* it locked and it is not pinned.  Its contents are dropped, not written.
Recycle(b) ==
  /\ cache[b] # NotCached
  /\ pins[b] = 0
  /\ \A p \in Procs : hold[p] # b
  /\ cache' = [cache EXCEPT ![b] = NotCached]
  /\ UNCHANGED <<diskVars, pins, header, lockVars, procVars, bootVars>>

-----------------------------------------------------------------------------
(* Operations: begin_op, the changes an operation makes, end_op.           *)

\* begin_op's test for log space.
NoSpace == Len(header) + (outstanding + 1) * MAXOPBLOCKS > LOGBLOCKS

\* Mutant of BeginOp: does not wait for a commit.
BeginOpWhileCommitting(p) ==
  /\ boot = "up"
  /\ pc[p] \in {"idle", "begin"} /\ p \notin asleep
  /\ ~NoSpace
  /\ outstanding' = outstanding + 1
  /\ pc' = [pc EXCEPT ![p] = "op"]
  /\ wrote' = [wrote EXCEPT ![p] = {}]
  /\ UNCHANGED <<diskVars, memVars, committing, asleep, tail, hold, bootVars>>

\* begin_op on the path that finds the log free and with room.
BeginOp(p) ==
  /\ boot = "up"
  /\ pc[p] \in {"idle", "begin"} /\ p \notin asleep
  /\ ~committing /\ ~NoSpace
  /\ outstanding' = outstanding + 1
  /\ pc' = [pc EXCEPT ![p] = "op"]
  /\ wrote' = [wrote EXCEPT ![p] = {}]
  /\ UNCHANGED <<diskVars, memVars, committing, asleep, tail, hold, bootVars>>

\* begin_op on the paths that sleep on Channel::Log.
BeginSleep(p) ==
  /\ boot = "up"
  /\ pc[p] \in {"idle", "begin"} /\ p \notin asleep
  /\ committing \/ NoSpace
  /\ asleep' = asleep \cup {p}
  /\ pc' = [pc EXCEPT ![p] = "begin"]
  /\ UNCHANGED <<diskVars, memVars, outstanding, committing, tail, hold, wrote,
                 bootVars>>

\* kill makes any sleeping process runnable; the loop in begin_op tests its
\* condition again.
KillWakes(p) ==
  /\ p \in asleep
  /\ asleep' = asleep \ {p}
  /\ UNCHANGED <<diskVars, memVars, outstanding, committing, procVars, bootVars>>

\* An operation reads a block, which locks its buffer, and modifies it.  The
\* blocks it modifies are at most OpBlocks distinct ones.
ModifyBuf(p, b, v) ==
  /\ pc[p] = "op" /\ hold[p] = NoBlock
  /\ \A q \in Procs : hold[q] # b
  /\ Cardinality(wrote[p] \cup {b}) <= OpBlocks
  /\ cache' = [cache EXCEPT ![b] = v]
  /\ hold' = [hold EXCEPT ![p] = b]
  /\ UNCHANGED <<diskVars, pins, header, lockVars, pc, tail, wrote, bootVars>>

\* log::write on the modified buffer, then BCACHE.release.
LogWrite(p) ==
  /\ pc[p] = "op" /\ hold[p] # NoBlock
  /\ IF Len(header) >= LOGBLOCKS \/ outstanding < 1
     THEN /\ pc' = [pc EXCEPT ![p] = "panicked"]
          /\ UNCHANGED <<pins, header, hold, wrote>>
     ELSE /\ IF hold[p] \in LoggedBlocks(header)
             THEN UNCHANGED <<pins, header>>
             ELSE /\ header' = Append(header, hold[p])
                  /\ pins' = [pins EXCEPT ![hold[p]] = @ + 1]
          /\ hold' = [hold EXCEPT ![p] = NoBlock]
          /\ wrote' = [wrote EXCEPT ![p] = @ \cup {hold[p]}]
          /\ UNCHANGED pc
  /\ UNCHANGED <<diskVars, cache, lockVars, tail, bootVars>>

\* end_op up to the release of LOG.inner: the last operation starts a commit,
\* an earlier one gives its reservation back and wakes the sleepers.
EndOp(p) ==
  /\ pc[p] = "op" /\ hold[p] = NoBlock
  /\ outstanding' = outstanding - 1
  /\ IF committing
     THEN /\ pc' = [pc EXCEPT ![p] = "panicked"]
          /\ UNCHANGED <<committing, asleep>>
     ELSE IF outstanding' = 0
     THEN /\ pc' = [pc EXCEPT ![p] = "commit"]
          /\ committing' = TRUE
          /\ UNCHANGED asleep
     ELSE /\ pc' = [pc EXCEPT ![p] = "idle"]
          /\ asleep' = {}
          /\ UNCHANGED committing
  /\ UNCHANGED <<diskVars, memVars, tail, hold, wrote, bootVars>>

-----------------------------------------------------------------------------
(* commit, one step per disk write.                                        *)

\* commit reads header.n and skips everything when nothing was logged.
CommitStart(p) ==
  /\ pc[p] = "commit"
  /\ pc' = [pc EXCEPT ![p] = IF Len(header) > 0 THEN "write_log" ELSE "done"]
  /\ tail' = [tail EXCEPT ![p] = 0]
  /\ UNCHANGED <<diskVars, memVars, lockVars, hold, wrote, bootVars>>

\* One iteration of write_log: cache block to log block.
WriteLog(p) ==
  /\ pc[p] = "write_log" /\ tail[p] < Len(header)
  /\ LET b == header[tail[p] + 1]
     IN  /\ dlog' = [dlog EXCEPT ![tail[p] + 1] = BRead(b)]
         /\ cache' = [cache EXCEPT ![b] = BRead(b)]
  /\ tail' = [tail EXCEPT ![p] = @ + 1]
  /\ UNCHANGED <<disk, dhead, pins, header, lockVars, pc, hold, wrote, bootVars>>

\* Mutant of WriteHead: the header does not wait for all log blocks.
WriteHeadEarly(p) ==
  /\ pc[p] = "write_log"
  /\ dhead' = header
  /\ pc' = [pc EXCEPT ![p] = "install"]
  /\ tail' = [tail EXCEPT ![p] = 0]
  /\ UNCHANGED <<disk, dlog, memVars, lockVars, hold, wrote, bootVars>>

\* write_head after write_log: the commit point.
WriteHead(p) ==
  /\ pc[p] = "write_log" /\ tail[p] = Len(header)
  /\ dhead' = header
  /\ pc' = [pc EXCEPT ![p] = "install"]
  /\ tail' = [tail EXCEPT ![p] = 0]
  /\ UNCHANGED <<disk, dlog, memVars, lockVars, hold, wrote, bootVars>>

\* Mutant of InstallTrans: the buffer stays pinned.
InstallTransNoUnpin(p) ==
  /\ pc[p] = "install" /\ tail[p] < Len(header)
  /\ LET b == header[tail[p] + 1]
     IN  /\ cache' = [cache EXCEPT ![b] = dlog[tail[p] + 1]]
         /\ disk' = [disk EXCEPT ![b] = dlog[tail[p] + 1]]
  /\ tail' = [tail EXCEPT ![p] = @ + 1]
  /\ UNCHANGED <<dlog, dhead, pins, header, lockVars, pc, hold, wrote, bootVars>>

\* One iteration of install_trans(false): log block to home block, unpin.
InstallTrans(p) ==
  /\ pc[p] = "install" /\ tail[p] < Len(header)
  /\ LET b == header[tail[p] + 1]
     IN  /\ cache' = [cache EXCEPT ![b] = dlog[tail[p] + 1]]
         /\ disk' = [disk EXCEPT ![b] = dlog[tail[p] + 1]]
         /\ pins' = [pins EXCEPT ![b] = @ - 1]
  /\ tail' = [tail EXCEPT ![p] = @ + 1]
  /\ UNCHANGED <<dlog, dhead, header, lockVars, pc, hold, wrote, bootVars>>

\* header.n = 0 and the second write_head, which erases the transaction.
EraseHead(p) ==
  /\ pc[p] = "install" /\ tail[p] = Len(header)
  /\ header' = <<>>
  /\ dhead' = <<>>
  /\ pc' = [pc EXCEPT ![p] = "done"]
  /\ UNCHANGED <<disk, dlog, cache, pins, lockVars, tail, hold, wrote, bootVars>>

\* Mutant of CommitDone: nobody is woken.
CommitDoneNoWake(p) ==
  /\ pc[p] = "done"
  /\ committing' = FALSE
  /\ pc' = [pc EXCEPT ![p] = "idle"]
  /\ UNCHANGED <<diskVars, memVars, outstanding, asleep, tail, hold, wrote, bootVars>>

\* The end of end_op after commit.
CommitDone(p) ==
  /\ pc[p] = "done"
  /\ committing' = FALSE
  /\ asleep' = {}
  /\ pc' = [pc EXCEPT ![p] = "idle"]
  /\ UNCHANGED <<diskVars, memVars, outstanding, tail, hold, wrote, bootVars>>

-----------------------------------------------------------------------------
(* Crash and recovery (init, recover_from_log).                            *)

\* Power fails: everything but the disk is lost.
Crash ==
  /\ cache' = [b \in Blocks |-> NotCached]
  /\ pins' = [b \in Blocks |-> 0]
  /\ header' = <<>>
  /\ outstanding' = 0
  /\ committing' = FALSE
  /\ asleep' = {}
  /\ pc' = [p \in Procs |-> "idle"]
  /\ tail' = [p \in Procs |-> 0]
  /\ hold' = [p \in Procs |-> NoBlock]
  /\ wrote' = [p \in Procs |-> {}]
  /\ boot' = "read_head"
  /\ btail' = 0
  /\ UNCHANGED diskVars

\* read_head.
ReadHead ==
  /\ boot = "read_head"
  /\ header' = dhead
  /\ boot' = "install"
  /\ btail' = 0
  /\ UNCHANGED <<diskVars, cache, pins, lockVars, procVars>>

\* Mutant of RecoverBlock: the loop does not advance.
RecoverBlockStuck ==
  /\ boot = "install" /\ btail < Len(header)
  /\ LET b == header[btail + 1]
     IN  /\ cache' = [cache EXCEPT ![b] = dlog[btail + 1]]
         /\ disk' = [disk EXCEPT ![b] = dlog[btail + 1]]
  /\ UNCHANGED <<dlog, dhead, pins, header, lockVars, procVars, boot, btail>>

\* One iteration of install_trans(true).
RecoverBlock ==
  /\ boot = "install" /\ btail < Len(header)
  /\ LET b == header[btail + 1]
     IN  /\ cache' = [cache EXCEPT ![b] = dlog[btail + 1]]
         /\ disk' = [disk EXCEPT ![b] = dlog[btail + 1]]
  /\ btail' = btail + 1
  /\ UNCHANGED <<dlog, dhead, pins, header, lockVars, procVars, boot>>

\* header.n = 0 and write_head: the log is clear and the system is up.
RecoverDone ==
  /\ boot = "install" /\ btail = Len(header)
  /\ header' = <<>>
  /\ dhead' = <<>>
  /\ boot' = "up"
  /\ UNCHANGED <<disk, dlog, cache, pins, lockVars, procVars, btail>>

-----------------------------------------------------------------------------
\* mkfs leaves an empty log of equal (zero) blocks; the first boot goes
\* through recovery like any other.
Init ==
  /\ disk \in [Blocks -> Val]
  /\ \E v \in Val : dlog = [s \in Slots |-> v]
  /\ dhead = <<>>
  /\ cache = [b \in Blocks |-> NotCached]
  /\ pins = [b \in Blocks |-> 0]
  /\ header = <<>>
  /\ outstanding = 0
  /\ committing = FALSE
  /\ asleep = {}
  /\ pc = [p \in Procs |-> "idle"]
  /\ tail = [p \in Procs |-> 0]
  /\ hold = [p \in Procs |-> NoBlock]
  /\ wrote = [p \in Procs |-> {}]
  /\ boot = "read_head"
  /\ btail = 0

Commit(p) ==
  \/ CommitStart(p)
  \/ WriteLog(p)
  \/ WriteHead(p)
  \/ InstallTrans(p)
  \/ EraseHead(p)
  \/ CommitDone(p)

Recover == ReadHead \/ RecoverBlock \/ RecoverDone

Next ==
  \/ \E p \in Procs :
       \/ BeginOp(p) \/ BeginSleep(p) \/ KillWakes(p)
       \/ LogWrite(p) \/ EndOp(p) \/ Commit(p)
  \/ \E p \in Procs, b \in Blocks, v \in Val : ModifyBuf(p, b, v)
  \/ \E b \in Blocks : Recycle(b)
  \/ Recover
  \/ Crash

Spec == Init /\ [][Next]_vars

\* Every process is scheduled again and again, so each step a process or
\* recovery can take is weakly fair.  A system call makes finitely many
\* changes and then ends its operation, which is the strong fairness of
\* EndOp.  Crashes eventually stop.
Fairness ==
  /\ \A p \in Procs : /\ WF_vars(LogWrite(p))
                      /\ SF_vars(EndOp(p))
                      /\ WF_vars(Commit(p))
                      /\ WF_vars(BeginOp(p) \/ BeginSleep(p))
  /\ WF_vars(Recover)
  /\ <>[][~Crash]_vars

FairSpec == Spec /\ Fairness

-----------------------------------------------------------------------------
(* What the log promises.                                                  *)

\* The image that a reboot would restore: the home blocks, overridden by
\* the log when its header is not empty.
Durable ==
  [b \in Blocks |->
     IF b \in LoggedBlocks(dhead)
     THEN dlog[CHOOSE i \in 1..Len(dhead) : dhead[i] = b]
     ELSE disk[b]]

\* The image that BCACHE.read returns to operations.
Volatile == IF boot = "up" THEN [b \in Blocks |-> BRead(b)] ELSE Durable

\* The processes between begin_op and end_op.
OpenProcs == {p \in Procs : pc[p] = "op"}

Txn == INSTANCE TxnDisk WITH durable <- Durable, volatile <- Volatile,
                             open <- OpenProcs

\* Crash atomicity.  Whatever the interleaving of operations, commit steps,
\* buffer recycling and crashes (also crashes during recovery), the disk
\* after recovery is the image at the last commit point, and a commit point
\* never contains part of an operation: log.rs:3-5, log.rs:130-131.
ImplementsTxnDisk == Txn!Spec

\* No operation that keeps to OpBlocks < MAXOPBLOCKS distinct blocks makes
\* log::write panic with "transaction too big" or "outside of trans", nor
\* end_op with "log committing" (log.rs:257, 313, 317).
NoPanic == \A p \in Procs : pc[p] # "panicked"

\* Between transactions nothing is left in memory only: when no operation is
\* outstanding and no commit runs, both headers are empty, no buffer is
\* pinned and the cache agrees with the disk.  This is why the end_op of the
\* last operation may return to its caller (log.rs:261-277).
QuiescentIsDurable ==
  boot = "up" /\ outstanding = 0 /\ ~committing =>
    /\ header = <<>> /\ dhead = <<>>
    /\ \A b \in Blocks : pins[b] = 0 /\ BRead(b) = disk[b]

\* No lost wakeup on Channel::Log: a process asleep in begin_op is waiting
\* for an operation or a commit that will wake it (log.rs:232-238, 264-276).
SleeperHasWaker == asleep # {} => outstanding > 0 \/ committing

\* After the last crash recovery brings the system up for good.
RecoveryEnds == <>[](boot = "up")
=============================================================================
