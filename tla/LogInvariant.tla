---------------------------- MODULE LogInvariant ----------------------------
(***************************************************************************)
(* The inductive invariant IInv of module Log, for every number of         *)
(* processes and blocks and every log size, the proofs that under it every *)
(* step of the log is a step of TxnDisk, and the proofs that the steps of  *)
(* an operation (begin_op, log::write, end_op) preserve it.                *)
(***************************************************************************)
EXTENDS Log, FiniteSetTheorems, TLAPS

CommitPcs == {"commit", "write_log", "install", "done"}

Committers == {p \in Procs : pc[p] \in CommitPcs}

\* Reserved log blocks not yet used up: begin_op reserves MAXOPBLOCKS for an
\* operation, and every block the operation logs takes one.
Credit ==
  {x \in Procs \X (1..MAXOPBLOCKS) :
     pc[x[1]] = "op" /\ x[2] > Cardinality(wrote[x[1]])}

Distinct(h) == \A i, j \in 1..Len(h) : h[i] = h[j] => i = j

\* The i-th header entry still has its pin: it is logged and not installed.
Pinned(b) ==
  \E i \in 1..Len(header) :
    /\ header[i] = b
    /\ \A p \in Procs : pc[p] = "install" => i > tail[p]

Dirty(b) == cache[b] # NotCached /\ cache[b] # disk[b]

\* Headers name distinct blocks and fit in the log.
HeaderInv ==
  /\ Distinct(header) /\ Len(header) <= LOGBLOCKS
  /\ Distinct(dhead) /\ Len(dhead) <= LOGBLOCKS

\* The log space that open operations may still use is reserved.
SpaceInv ==
  /\ outstanding = Cardinality(OpenProcs)
  /\ Len(header) + Cardinality(Credit) <= LOGBLOCKS

\* A held buffer belongs to one open operation and is within its budget.
HoldInv ==
  \A p \in Procs : hold[p] # NoBlock =>
    /\ pc[p] = "op"
    /\ cache[hold[p]] # NotCached
    /\ Cardinality(wrote[p] \cup {hold[p]}) <= OpBlocks
    /\ \A q \in Procs : hold[q] = hold[p] => q = p

\* What an open operation has logged is in the header and within its budget.
WroteInv ==
  \A p \in Procs : pc[p] = "op" =>
    /\ wrote[p] \subseteq LoggedBlocks(header)
    /\ Cardinality(wrote[p]) <= OpBlocks

\* At most one process commits, and only when no operation is open.
CommitInv ==
  /\ committing <=> Committers # {}
  /\ \A p, q \in Committers : p = q
  /\ committing => OpenProcs = {}
  /\ boot = "up" /\ OpenProcs = {} /\ ~committing => header = <<>>
  /\ \A p \in Procs : pc[p] \in {"write_log", "install"} => tail[p] <= Len(header)
  /\ \A p \in Procs : pc[p] = "done" => header = <<>>

\* Buffers of logged blocks stay in the cache until they are installed, and
\* nothing else is dirty.
CacheInv ==
  boot = "up" =>
    /\ \A b \in Blocks : pins[b] = IF Pinned(b) THEN 1 ELSE 0
    /\ \A b \in Blocks : Pinned(b) => cache[b] # NotCached
    /\ \A b \in Blocks : Dirty(b) => Pinned(b) \/ \E p \in Procs : hold[p] = b

\* The on-disk header is empty except while its transaction is installed; the
\* log blocks then hold what the operations wrote.
DiskLogInv ==
  boot = "up" =>
    /\ dhead # <<>> => \E p \in Procs : pc[p] = "install"
    /\ \A p \in Procs : pc[p] = "write_log" =>
         \A i \in 1..tail[p] : dlog[i] = cache[header[i]]
    /\ \A p \in Procs : pc[p] = "install" =>
         /\ dhead = header
         /\ \A i \in 1..Len(header) : dlog[i] = BRead(header[i])
         /\ \A i \in 1..tail[p] : disk[header[i]] = dlog[i]

\* Recovery: nobody else runs; installed blocks hold their log contents.
BootInv ==
  boot # "up" =>
    /\ \A p \in Procs : pc[p] = "idle" /\ hold[p] = NoBlock
    /\ \A b \in Blocks : pins[b] = 0 /\ cache[b] \in {NotCached, disk[b]}
    /\ boot = "read_head" => header = <<>>
    /\ boot = "install" => /\ header = dhead
                           /\ btail <= Len(header)
                           /\ \A i \in 1..btail : disk[header[i]] = dlog[i]

SleepInv == SleeperHasWaker /\ (asleep # {} => boot = "up")

IInv ==
  /\ TypeOK
  /\ HeaderInv
  /\ SpaceInv
  /\ NoPanic
  /\ HoldInv
  /\ WroteInv
  /\ CommitInv
  /\ CacheInv
  /\ DiskLogInv
  /\ BootInv
  /\ SleepInv

-----------------------------------------------------------------------------
(* Proofs.                                                                 *)

\* Finiteness and type of the cardinalities in the invariant.
LEMMA FiniteCounts ==
  ASSUME TypeOK
  PROVE  /\ IsFiniteSet(OpenProcs) /\ Cardinality(OpenProcs) \in Nat
         /\ IsFiniteSet(Credit) /\ Cardinality(Credit) \in Nat
         /\ \A p \in Procs : IsFiniteSet(wrote[p]) /\ Cardinality(wrote[p]) \in Nat
<1>1. IsFiniteSet(OpenProcs)
  BY LogAssumption, FS_Subset DEF OpenProcs
<1>2. IsFiniteSet(Credit)
  <2>1. IsFiniteSet(1..MAXOPBLOCKS)
    BY LogAssumption, FS_Interval
  <2>2. IsFiniteSet(Procs \X (1..MAXOPBLOCKS))
    BY <2>1, LogAssumption, FS_Product
  <2> QED BY <2>2, FS_Subset DEF Credit
<1>3. \A p \in Procs : IsFiniteSet(wrote[p])
  BY LogAssumption, FS_Subset DEF TypeOK
<1> QED BY <1>1, <1>2, <1>3, FS_CardinalityType

\* begin_op reserves MAXOPBLOCKS blocks per operation.
LEMMA Reservation ==
  IsFiniteSet(1..MAXOPBLOCKS) /\ Cardinality(1..MAXOPBLOCKS) = MAXOPBLOCKS
BY LogAssumption, FS_Interval

\* The arithmetic of begin_op's test for log space.
LEMMA Fits ==
  ASSUME NEW l \in Nat, NEW n \in Nat, NEW c \in Nat,
         ~(l + n * MAXOPBLOCKS > LOGBLOCKS), c <= n * MAXOPBLOCKS
  PROVE  l + c <= LOGBLOCKS
<1>1. n * MAXOPBLOCKS \in Nat
  BY LogAssumption
<1> QED BY LogAssumption

\* An operation in progress excludes a commit and implies that the system
\* is up, that the log has a free slot and that the operation is counted.
LEMMA OpenFacts ==
  ASSUME IInv, NEW p \in Procs, pc[p] = "op"
  PROVE  /\ boot = "up" /\ ~committing
         /\ \A q \in Procs : pc[q] \notin CommitPcs
         /\ outstanding >= 1
         /\ Len(header) < LOGBLOCKS
         /\ Len(header) \in Nat
<1>1. boot = "up" /\ ~committing /\ \A q \in Procs : pc[q] \notin CommitPcs
  BY DEF BootInv, CommitInv, OpenProcs, Committers, IInv
<1>2. outstanding >= 1
  <2>1. OpenProcs # {}
    BY DEF OpenProcs
  <2>2. Cardinality(OpenProcs) # 0
    BY <2>1, FiniteCounts, FS_EmptySet DEF IInv
  <2> QED BY <2>2, FiniteCounts DEF SpaceInv, IInv
<1>3. <<p, MAXOPBLOCKS>> \in Credit
  BY FiniteCounts, LogAssumption DEF WroteInv, Credit, IInv
<1>4. Cardinality(Credit) >= 1
  BY <1>3, FiniteCounts, FS_EmptySet DEF IInv
<1> QED BY <1>1, <1>2, <1>4, FiniteCounts, LogAssumption DEF SpaceInv, IInv

\* A committing process excludes open operations and other committers.
LEMMA CommitFacts ==
  ASSUME IInv, NEW p \in Procs, pc[p] \in CommitPcs
  PROVE  /\ boot = "up" /\ committing
         /\ \A q \in Procs : pc[q] # "op" /\ hold[q] = NoBlock
         /\ \A q \in Procs : pc[q] \in CommitPcs => q = p
         /\ Len(header) \in Nat
         /\ \A i \in 1..Len(header) : header[i] \in Blocks /\ i \in Slots
         /\ Credit = {}
<1>1. boot = "up" /\ committing
  BY DEF BootInv, CommitInv, Committers, CommitPcs, IInv
<1>2. \A q \in Procs : pc[q] # "op" /\ hold[q] = NoBlock
  BY Zenon, <1>1 DEF CommitInv, OpenProcs, HoldInv, IInv
<1>3. \A q \in Procs : pc[q] \in CommitPcs => q = p
  BY DEF CommitInv, Committers, IInv
<1>4. Len(header) \in Nat /\ \A i \in 1..Len(header) : header[i] \in Blocks /\ i \in Slots
  BY LogAssumption, SMTT(60) DEF HeaderInv, TypeOK, Slots, IInv
<1> QED BY <1>1, <1>2, <1>3, <1>4 DEF Credit

-----------------------------------------------------------------------------
(* The steps of the log under the refinement mapping to TxnDisk.          *)

\* While a transaction is installed, a reboot restores exactly the image that
\* operations read from the cache.
LEMMA DurableWhileInstalling ==
  ASSUME IInv, NEW p \in Procs, pc[p] = "install"
  PROVE  Durable = [b \in Blocks |-> BRead(b)]
<1>1. /\ boot = "up" /\ \A q \in Procs : hold[q] = NoBlock
      /\ dhead = header
      /\ \A i \in 1..Len(header) : dlog[i] = BRead(header[i])
  BY CommitFacts DEF CommitPcs, DiskLogInv, IInv
<1>2. ASSUME NEW b \in Blocks, b \in LoggedBlocks(dhead)
      PROVE  dlog[CHOOSE i \in 1..Len(dhead) : dhead[i] = b] = BRead(b)
  <2>1. \E i \in 1..Len(dhead) : dhead[i] = b
    BY <1>2 DEF LoggedBlocks
  <2> DEFINE k == CHOOSE i \in 1..Len(dhead) : dhead[i] = b
  <2>2. k \in 1..Len(dhead) /\ dhead[k] = b
    BY <2>1
  <2> HIDE DEF k
  <2>3. dlog[k] = BRead(b)
    BY <2>2, <1>1
  <2> QED BY <2>3 DEF k
<1>3. ASSUME NEW b \in Blocks, b \notin LoggedBlocks(dhead)
      PROVE  disk[b] = BRead(b)
  <2>1. ~Pinned(b)
    BY <1>1, <1>3 DEF Pinned, LoggedBlocks
  <2>2. ~Dirty(b)
    BY <2>1, <1>1, LogAssumption DEF CacheInv, IInv
  <2> QED BY <2>2 DEF Dirty, BRead
<1>4. \A b \in Blocks : Durable[b] = BRead(b)
  BY Zenon, <1>2, <1>3 DEF Durable
<1>5. Durable = [b \in Blocks |-> Durable[b]]
  BY DEF Durable
<1> QED BY <1>4, <1>5

\* Steps of processes and of the cache that leave the disk alone.
LEMMA MemorySteps ==
  ASSUME IInv,
         \/ \E p \in Procs : \/ BeginOp(p) \/ BeginSleep(p) \/ KillWakes(p)
                             \/ LogWrite(p) \/ EndOp(p)
                             \/ CommitStart(p) \/ CommitDone(p)
         \/ \E p \in Procs, b \in Blocks, v \in Val : ModifyBuf(p, b, v)
         \/ \E b \in Blocks : Recycle(b)
  PROVE  [Txn!Next]_Txn!vars
<1>1. Durable' = Durable /\ boot' = boot
  <2>1. disk' = disk /\ dlog' = dlog /\ dhead' = dhead /\ boot' = boot
    BY Zenon DEF BeginOp, BeginSleep, KillWakes, LogWrite, EndOp, CommitStart,
       CommitDone, ModifyBuf, Recycle, diskVars, bootVars
  <2> QED BY <2>1 DEF Durable
<1>2. ASSUME NEW p \in Procs, BeginOp(p) PROVE [Txn!Next]_Txn!vars
  <2>1. Volatile' = Volatile
    BY <1>1, <1>2 DEF BeginOp, Volatile, BRead, diskVars, memVars
  <2>2. p \notin OpenProcs /\ OpenProcs' = OpenProcs \cup {p}
    BY <1>2 DEF BeginOp, OpenProcs, TypeOK, IInv
  <2> QED BY <1>1, <2>1, <2>2 DEF Txn!Begin, Txn!Next
<1>3. ASSUME NEW p \in Procs, BeginSleep(p) \/ KillWakes(p) \/ CommitStart(p) \/ CommitDone(p)
      PROVE  [Txn!Next]_Txn!vars
  <2>1. Volatile' = Volatile
    BY <1>1, <1>3 DEF BeginSleep, KillWakes, CommitStart, CommitDone,
       Volatile, BRead, diskVars, memVars
  <2>2. OpenProcs' = OpenProcs
    BY <1>3 DEF BeginSleep, KillWakes, CommitStart, CommitDone, OpenProcs,
       TypeOK, IInv, procVars
  <2> QED BY <1>1, <2>1, <2>2 DEF Txn!vars
<1>4. ASSUME NEW p \in Procs, LogWrite(p) PROVE [Txn!Next]_Txn!vars
  <2>1. Volatile' = Volatile
    BY <1>1, <1>4 DEF LogWrite, Volatile, BRead, diskVars
  <2>2. OpenProcs' = OpenProcs
    BY <1>4, OpenFacts, LogAssumption, SMTT(60) DEF LogWrite, OpenProcs, TypeOK, IInv
  <2> QED BY <1>1, <2>1, <2>2 DEF Txn!vars
<1>5. ASSUME NEW p \in Procs, EndOp(p) PROVE [Txn!Next]_Txn!vars
  <2>1. Volatile' = Volatile
    BY <1>1, <1>5 DEF EndOp, Volatile, BRead, diskVars, memVars
  <2>2. p \in OpenProcs /\ OpenProcs' = OpenProcs \ {p}
    BY <1>5 DEF EndOp, OpenProcs, TypeOK, IInv
  <2> QED BY <1>1, <2>1, <2>2 DEF Txn!End, Txn!Next
<1>6. ASSUME NEW p \in Procs, NEW b \in Blocks, NEW v \in Val, ModifyBuf(p, b, v)
      PROVE  [Txn!Next]_Txn!vars
  <2>1. boot = "up"
    BY <1>6, OpenFacts DEF ModifyBuf
  <2>2. Volatile' = [Volatile EXCEPT ![b] = v]
    BY Zenon, <1>1, <1>6, <2>1, LogAssumption DEF ModifyBuf, Volatile, BRead,
       TypeOK, IInv, diskVars
  <2>3. p \in OpenProcs /\ OpenProcs' = OpenProcs
    BY <1>6 DEF ModifyBuf, OpenProcs
  <2>4. Txn!Write(p, b, v)
    BY <1>1, <2>2, <2>3 DEF Txn!Write
  <2> QED BY <2>4 DEF Txn!Next
<1>7. ASSUME NEW b \in Blocks, Recycle(b) PROVE [Txn!Next]_Txn!vars
  <2>1. boot = "up" => ~Dirty(b)
    <3>1. boot = "up" => ~Pinned(b)
      BY <1>7 DEF Recycle, CacheInv, IInv
    <3> QED BY <1>7 DEF Recycle, CacheInv, IInv
  <2>2. Volatile' = Volatile
    <3>1. CASE boot = "up"
      <4>1. \A c \in Blocks : BRead(c)' = BRead(c)
        BY <1>7, <2>1, <3>1 DEF Recycle, BRead, Dirty, diskVars
      <4> QED BY <4>1, <1>1 DEF Volatile
    <3>2. CASE boot # "up"
      BY <3>2, <1>1 DEF Volatile
    <3> QED BY <3>1, <3>2
  <2>3. OpenProcs' = OpenProcs
    BY <1>7 DEF Recycle, OpenProcs, procVars
  <2> QED BY <1>1, <2>2, <2>3 DEF Txn!vars
<1> QED BY <1>2, <1>3, <1>4, <1>5, <1>6, <1>7

\* Steps of a commit that write the disk: only write_head before
\* install_trans changes the durable image.
LEMMA CommitSteps ==
  ASSUME IInv, IInv', NEW p \in Procs,
         WriteLog(p) \/ WriteHead(p) \/ InstallTrans(p) \/ EraseHead(p)
  PROVE  [Txn!Next]_Txn!vars
<1>1. /\ boot = "up" /\ boot' = "up"
      /\ OpenProcs = {} /\ OpenProcs' = {}
      /\ \A q \in Procs : hold[q] = NoBlock
      /\ \A q \in Procs : pc[q] \in CommitPcs => q = p
      /\ Len(header) \in Nat
      /\ \A i \in 1..Len(header) : header[i] \in Blocks /\ i \in Slots
  <2>1. pc[p] \in CommitPcs
    BY DEF WriteLog, WriteHead, InstallTrans, EraseHead, CommitPcs
  <2>2. OpenProcs = {}
    BY <2>1, CommitFacts DEF OpenProcs
  <2>3. OpenProcs' = {}
    BY <2>2, LogAssumption, Zenon DEF WriteLog, WriteHead, InstallTrans,
       EraseHead, OpenProcs, TypeOK, IInv, memVars, bootVars
  <2>4. boot' = boot
    BY DEF WriteLog, WriteHead, InstallTrans, EraseHead, bootVars
  <2> QED BY <2>1, <2>2, <2>3, <2>4, CommitFacts
<1>2. CASE WriteLog(p)
  <2>1. \A q \in Procs : pc[q] # "install"
    BY <1>1, <1>2 DEF WriteLog, CommitPcs
  <2>2. dhead = <<>> /\ dhead' = <<>> /\ disk' = disk
    BY <1>1, <1>2, <2>1, Zenon DEF DiskLogInv, WriteLog, IInv
  <2>3. Durable' = Durable
    BY <2>2 DEF Durable, LoggedBlocks
  <2>4. PICK i \in 1..Len(header) : i = tail[p] + 1
    <3>1. tail[p] \in Nat /\ tail[p] < Len(header)
      BY <1>2 DEF WriteLog, TypeOK, IInv
    <3> QED BY <3>1
  <2>5. /\ header[i] \in Blocks
        /\ cache' = [cache EXCEPT ![header[i]] = BRead(header[i])]
    BY <1>1, <1>2, <2>4, Zenon DEF WriteLog
  <2>6. \A b \in Blocks : BRead(b)' = BRead(b)
    BY <2>2, <2>5 DEF BRead
  <2>7. Volatile' = Volatile
    BY <2>6, <1>1 DEF Volatile
  <2> QED BY <1>1, <2>3, <2>7 DEF Txn!vars
<1>3. CASE WriteHead(p)
  <2>1. \A b \in Blocks : BRead(b)' = BRead(b)
    BY <1>3 DEF WriteHead, BRead, memVars
  <2>2. Volatile' = Volatile /\ Volatile = [b \in Blocks |-> BRead(b)]
    BY <2>1, <1>1 DEF Volatile
  <2>3. Durable' = [b \in Blocks |-> BRead(b)']
    <3>1. pc'[p] = "install"
      BY <1>3 DEF WriteHead, TypeOK, IInv
    <3>2. (IInv /\ p \in Procs /\ pc[p] = "install" => Durable = [b \in Blocks |-> BRead(b)])'
      BY DurableWhileInstalling, PTL
    <3> QED BY <3>1, <3>2
  <2>4. Txn!Commit
    BY <1>1, <2>1, <2>2, <2>3 DEF Txn!Commit
  <2> QED BY <2>4 DEF Txn!Next
<1>4. CASE InstallTrans(p)
  <2>1. PICK i \in 1..Len(header) : i = tail[p] + 1
    <3>1. tail[p] \in Nat /\ tail[p] < Len(header)
      BY <1>4 DEF InstallTrans, TypeOK, IInv
    <3> QED BY <3>1
  <2>2. /\ dhead = header /\ header[i] \in Blocks
        /\ dlog[i] = BRead(header[i]) /\ dlog[i] \in Val
        /\ header[i] \in LoggedBlocks(dhead)
    <3>1. dhead = header /\ dlog[i] = BRead(header[i])
      BY <1>1, <1>4 DEF InstallTrans, DiskLogInv, IInv
    <3>2. header[i] \in Blocks /\ dlog[i] \in Val
      BY <1>1 DEF TypeOK, IInv
    <3> QED BY <3>1, <3>2 DEF LoggedBlocks
  <2>3. /\ cache' = [cache EXCEPT ![header[i]] = dlog[i]]
        /\ disk' = [disk EXCEPT ![header[i]] = dlog[i]]
        /\ dhead' = dhead /\ dlog' = dlog
    BY <1>4, <2>1 DEF InstallTrans
  <2>4. \A b \in Blocks : b \notin LoggedBlocks(dhead) => disk'[b] = disk[b]
    BY <2>2, <2>3
  <2>5. Durable' = Durable
    BY <2>3, <2>4 DEF Durable
  <2>6. \A b \in Blocks : BRead(b)' = BRead(b)
    BY <2>2, <2>3 DEF BRead
  <2>7. Volatile' = Volatile
    BY <2>6, <1>1 DEF Volatile
  <2> QED BY <1>1, <2>5, <2>7 DEF Txn!vars
<1>5. CASE EraseHead(p)
  <2>1. Durable = [b \in Blocks |-> BRead(b)]
    BY <1>5, DurableWhileInstalling DEF EraseHead
  <2>2. \A b \in Blocks : ~Pinned(b)
    BY <1>5 DEF EraseHead, Pinned
  <2>3. \A b \in Blocks : BRead(b) = disk[b]
    <3>1. \A b \in Blocks : ~Dirty(b)
      BY <2>2, <1>1, LogAssumption DEF CacheInv, IInv
    <3> QED BY <3>1 DEF Dirty, BRead
  <2>4. Durable' = disk
    BY <1>5 DEF EraseHead, Durable, LoggedBlocks, TypeOK, IInv
  <2>5. Durable' = Durable
    BY <2>1, <2>3, <2>4 DEF TypeOK, IInv
  <2>6. Volatile' = Volatile
    BY <1>1, <1>5 DEF EraseHead, Volatile, BRead
  <2> QED BY <1>1, <2>5, <2>6 DEF Txn!vars
<1> QED BY <1>2, <1>3, <1>4, <1>5

\* Crash and recovery: a crash drops the volatile image; recovery leaves the
\* durable image alone, even when it is itself interrupted.
LEMMA BootSteps ==
  ASSUME IInv, Recover \/ Crash
  PROVE  [Txn!Next]_Txn!vars
<1>1. CASE Crash
  <2>1. Durable' = Durable
    <3>1. disk' = disk /\ dlog' = dlog /\ dhead' = dhead
      BY <1>1 DEF Crash, diskVars
    <3> QED BY <3>1 DEF Durable
  <2>2. Volatile' = Durable
    BY <1>1, <2>1 DEF Crash, Volatile
  <2>3. OpenProcs' = {}
    BY <1>1 DEF Crash, OpenProcs
  <2> QED BY <2>1, <2>2, <2>3 DEF Txn!Next, Txn!Crash
<1>2. CASE ReadHead
  <2>1. Durable' = Durable
    BY <1>2 DEF ReadHead, Durable, diskVars
  <2>2. Volatile' = Volatile
    BY <1>2, <2>1 DEF ReadHead, Volatile
  <2>3. OpenProcs' = OpenProcs
    BY <1>2 DEF ReadHead, OpenProcs, procVars
  <2> QED BY <2>1, <2>2, <2>3 DEF Txn!vars
<1>3. CASE RecoverBlock
  <2>1. PICK i \in 1..Len(header) : i = btail + 1
    BY <1>3 DEF RecoverBlock, TypeOK, IInv
  <2>2. header[i] \in LoggedBlocks(dhead) /\ header[i] \in Blocks
    BY <1>3 DEF RecoverBlock, BootInv, LoggedBlocks, TypeOK, IInv
  <2>3. disk' = [disk EXCEPT ![header[i]] = dlog[i]] /\ dhead' = dhead /\ dlog' = dlog
    BY <1>3, <2>1 DEF RecoverBlock
  <2>4. \A b \in Blocks : b \notin LoggedBlocks(dhead) => disk'[b] = disk[b]
    BY <2>2, <2>3
  <2>5. Durable' = Durable
    BY <2>3, <2>4 DEF Durable
  <2>6. Volatile' = Volatile
    BY <1>3, <2>5 DEF RecoverBlock, Volatile
  <2>7. OpenProcs' = OpenProcs
    BY <1>3 DEF RecoverBlock, OpenProcs, procVars
  <2> QED BY <2>5, <2>6, <2>7 DEF Txn!vars
<1>4. CASE RecoverDone
  <2>1. /\ header = dhead
        /\ \A i \in 1..Len(dhead) : disk[dhead[i]] = dlog[i]
        /\ \A b \in Blocks : cache[b] \in {NotCached, disk[b]}
    BY <1>4 DEF RecoverDone, BootInv, IInv
  <2>2. ASSUME NEW b \in Blocks, b \in LoggedBlocks(dhead)
        PROVE  dlog[CHOOSE i \in 1..Len(dhead) : dhead[i] = b] = disk[b]
    <3>1. \E i \in 1..Len(dhead) : dhead[i] = b
      BY <2>2 DEF LoggedBlocks
    <3> DEFINE k == CHOOSE i \in 1..Len(dhead) : dhead[i] = b
    <3>2. k \in 1..Len(dhead) /\ dhead[k] = b
      BY <3>1
    <3> HIDE DEF k
    <3>3. dlog[k] = disk[b]
      BY <3>2, <2>1
    <3> QED BY <3>3 DEF k
  <2>3. Durable = disk
    BY <2>2 DEF Durable, TypeOK, IInv
  <2>4. Durable' = disk
    BY <1>4 DEF RecoverDone, Durable, LoggedBlocks, TypeOK, IInv
  <2>5. Volatile = disk /\ Volatile' = disk
    BY <1>4, <2>1, <2>3 DEF RecoverDone, Volatile, BRead, TypeOK, IInv
  <2>6. OpenProcs' = OpenProcs
    BY <1>4 DEF RecoverDone, OpenProcs, procVars
  <2> QED BY <2>3, <2>4, <2>5, <2>6 DEF Txn!vars
<1> QED BY <1>1, <1>2, <1>3, <1>4 DEF Recover

-----------------------------------------------------------------------------
(* The steps of an operation preserve IInv.                               *)

\* begin_op that finds room reserves MAXOPBLOCKS blocks for the operation.
LEMMA BeginOpStep ==
  ASSUME IInv, NEW p \in Procs, BeginOp(p)
  PROVE  IInv'
<1>1. TypeOK'
  BY DEF IInv, TypeOK, BeginOp, diskVars, memVars, bootVars
<1>2. HeaderInv'
  BY DEF HeaderInv, IInv, BeginOp, diskVars, memVars
<1>3. SpaceInv'
  <2>1. OpenProcs' = OpenProcs \cup {p} /\ p \notin OpenProcs
    BY DEF OpenProcs, IInv, TypeOK, BeginOp
  <2>2. IsFiniteSet(OpenProcs') /\ Cardinality(OpenProcs') = Cardinality(OpenProcs) + 1
    BY <2>1, FiniteCounts, FS_AddElement DEF IInv
  <2>3. IsFiniteSet(1..MAXOPBLOCKS) /\ Cardinality(1..MAXOPBLOCKS) = MAXOPBLOCKS
    BY Reservation
  <2>4. /\ IsFiniteSet(OpenProcs' \X (1..MAXOPBLOCKS))
        /\ Cardinality(OpenProcs' \X (1..MAXOPBLOCKS)) = Cardinality(OpenProcs') * MAXOPBLOCKS
    BY Zenon, <2>2, <2>3, FS_Product
  <2>5. Credit' \subseteq OpenProcs' \X (1..MAXOPBLOCKS)
    BY DEF Credit, OpenProcs
  <2>6. Cardinality(Credit') <= Cardinality(OpenProcs') * MAXOPBLOCKS
    BY <2>4, <2>5, FS_Subset
  <2>7. outstanding' = Cardinality(OpenProcs') /\ outstanding + 1 = Cardinality(OpenProcs')
    BY <2>2 DEF SpaceInv, IInv, BeginOp
  <2>8. Cardinality(Credit') \in Nat
    BY <2>4, <2>5, FS_Subset, FS_CardinalityType
  <2>9. ~(Len(header) + Cardinality(OpenProcs') * MAXOPBLOCKS > LOGBLOCKS)
    BY <2>7 DEF NoSpace, BeginOp
  <2>10. Len(header) \in Nat /\ Cardinality(OpenProcs') \in Nat /\ header' = header
    BY <2>2, FiniteCounts DEF IInv, BeginOp, memVars
  <2>11. Len(header) + Cardinality(Credit') <= LOGBLOCKS
    BY <2>6, <2>8, <2>9, <2>10, LogAssumption
  <2> QED BY <2>7, <2>10, <2>11 DEF SpaceInv
<1>4. NoPanic'
  BY DEF NoPanic, IInv, BeginOp
<1>5. HoldInv'
  BY Zenon DEF HoldInv, IInv, TypeOK, BeginOp, memVars
<1>6. WroteInv'
  BY FS_EmptySet, LogAssumption DEF WroteInv, IInv, TypeOK, BeginOp, memVars
<1>7. CommitInv'
  BY DEF CommitInv, Committers, CommitPcs, OpenProcs, IInv, BeginOp, memVars
<1>8. CacheInv'
  BY DEF CacheInv, Pinned, Dirty, IInv, BeginOp, diskVars, memVars
<1>9. DiskLogInv'
  BY DEF DiskLogInv, BRead, IInv, BeginOp, diskVars, memVars
<1>10. BootInv'
  BY DEF BootInv, BeginOp, bootVars
<1>11. SleepInv'
  BY DEF SleepInv, SleeperHasWaker, IInv, TypeOK, BeginOp, bootVars
<1> QED BY <1>1, <1>2, <1>3, <1>4, <1>5, <1>6, <1>7, <1>8, <1>9, <1>10, <1>11
    DEF IInv

\* begin_op sleeps only while an operation or a commit is in progress.
LEMMA BeginSleepStep ==
  ASSUME IInv, NEW p \in Procs, BeginSleep(p)
  PROVE  IInv'
<1>1. TypeOK'
  BY DEF IInv, TypeOK, BeginSleep, diskVars, memVars, bootVars
<1>2. HeaderInv'
  BY DEF HeaderInv, IInv, BeginSleep, diskVars, memVars
<1>3. SpaceInv'
  BY Zenon DEF SpaceInv, OpenProcs, Credit, IInv, TypeOK, BeginSleep, memVars
<1>4. NoPanic'
  BY DEF NoPanic, IInv, BeginSleep
<1>5. HoldInv'
  BY DEF HoldInv, IInv, BeginSleep, memVars, bootVars
<1>6. WroteInv'
  BY DEF WroteInv, IInv, BeginSleep, memVars
<1>7. CommitInv'
  BY DEF CommitInv, Committers, CommitPcs, OpenProcs, IInv, BeginSleep, memVars
<1>8. CacheInv'
  BY DEF CacheInv, Pinned, Dirty, IInv, BeginSleep, diskVars, memVars
<1>9. DiskLogInv'
  BY DEF DiskLogInv, BRead, IInv, BeginSleep, diskVars, memVars
<1>10. BootInv'
  BY DEF BootInv, BeginSleep, bootVars
<1>11. SleepInv'
  <2>1. CASE committing
    BY <2>1 DEF SleepInv, SleeperHasWaker, BeginSleep, bootVars
  <2>2. CASE ~committing /\ outstanding = 0
    <3>1. header = <<>>
      BY Zenon, <2>2, FiniteCounts, FS_EmptySet DEF SpaceInv, CommitInv, IInv,
         BeginSleep
    <3> QED BY <2>2, <3>1, LogAssumption DEF NoSpace, BeginSleep
  <2>3. CASE ~committing /\ outstanding # 0
    BY <2>3, FiniteCounts DEF SpaceInv, SleepInv, SleeperHasWaker, IInv,
       BeginSleep, bootVars
  <2> QED BY <2>1, <2>2, <2>3
<1> QED BY <1>1, <1>2, <1>3, <1>4, <1>5, <1>6, <1>7, <1>8, <1>9, <1>10, <1>11
    DEF IInv

\* kill removes a process from the sleepers and changes nothing else.
LEMMA KillWakesStep ==
  ASSUME IInv, NEW p \in Procs, KillWakes(p)
  PROVE  IInv'
<1>1. TypeOK'
  BY DEF IInv, TypeOK, KillWakes, diskVars, memVars, procVars, bootVars
<1>2. HeaderInv'
  BY DEF HeaderInv, IInv, KillWakes, diskVars, memVars
<1>3. SpaceInv'
  BY DEF SpaceInv, OpenProcs, Credit, IInv, KillWakes, memVars, procVars
<1>4. NoPanic'
  BY DEF NoPanic, IInv, KillWakes, procVars
<1>5. HoldInv'
  BY LogAssumption, SMTT(60) DEF HoldInv, IInv, KillWakes, memVars, procVars
<1>6. WroteInv'
  BY DEF WroteInv, IInv, KillWakes, memVars, procVars
<1>7. CommitInv'
  BY DEF CommitInv, Committers, OpenProcs, IInv, KillWakes, memVars,
     procVars, bootVars
<1>8. CacheInv'
  BY DEF CacheInv, Pinned, Dirty, IInv, KillWakes, diskVars, memVars,
     procVars, bootVars
<1>9. DiskLogInv'
  BY DEF DiskLogInv, BRead, IInv, KillWakes, diskVars, memVars, procVars,
     bootVars
<1>10. BootInv'
  BY DEF BootInv, IInv, KillWakes, diskVars, memVars, procVars, bootVars
<1>11. SleepInv'
  BY DEF SleepInv, SleeperHasWaker, IInv, KillWakes, bootVars
<1> QED BY <1>1, <1>2, <1>3, <1>4, <1>5, <1>6, <1>7, <1>8, <1>9, <1>10, <1>11
    DEF IInv

\* A modified buffer is dirty but held by its operation.
LEMMA ModifyBufStep ==
  ASSUME IInv, NEW p \in Procs, NEW b \in Blocks, NEW v \in Val, ModifyBuf(p, b, v)
  PROVE  IInv'
<1>a1. boot = "up" /\ ~committing /\ \A q \in Procs : pc[q] \notin CommitPcs
  BY OpenFacts DEF ModifyBuf
<1>1. TypeOK'
  BY DEF IInv, TypeOK, ModifyBuf, diskVars, lockVars, bootVars
<1>2. HeaderInv'
  BY ZenonT(60) DEF HeaderInv, IInv, ModifyBuf, diskVars
<1>3. SpaceInv'
  BY Zenon DEF SpaceInv, OpenProcs, Credit, IInv, ModifyBuf, lockVars
<1>4. NoPanic'
  BY Zenon DEF NoPanic, IInv, ModifyBuf
<1>5. HoldInv'
  BY LogAssumption, ZenonT(60) DEF HoldInv, IInv, TypeOK, ModifyBuf, diskVars, memVars,
     lockVars, procVars, bootVars
<1>6. WroteInv'
  BY ZenonT(60) DEF WroteInv, IInv, ModifyBuf
<1>7. CommitInv'
  BY DEF CommitInv, Committers, OpenProcs, IInv, ModifyBuf, lockVars
<1>8. CacheInv'
  BY LogAssumption, SMTT(60) DEF CacheInv, Pinned, Dirty, CommitInv, CommitPcs, IInv,
     TypeOK, ModifyBuf, diskVars, memVars, lockVars, procVars, bootVars
<1>9. DiskLogInv'
  BY <1>a1, Zenon DEF DiskLogInv, CommitPcs, IInv, ModifyBuf, diskVars
<1>10. BootInv'
  BY Zenon DEF BootInv, IInv, ModifyBuf, bootVars
<1>11. SleepInv'
  BY DEF SleepInv, SleeperHasWaker, IInv, ModifyBuf, lockVars, bootVars
<1> QED BY <1>1, <1>2, <1>3, <1>4, <1>5, <1>6, <1>7, <1>8, <1>9, <1>10, <1>11
    DEF IInv

\* log::write passes the dirty buffer from the operation to the log: it is
\* pinned, and a block that is new in the header uses up one reserved block.
LEMMA LogWriteStep ==
  ASSUME IInv, NEW p \in Procs, LogWrite(p)
  PROVE  IInv'
<1> DEFINE h == hold[p]
<1>a1. /\ boot = "up" /\ ~committing /\ \A q \in Procs : pc[q] \notin CommitPcs
       /\ outstanding >= 1 /\ Len(header) < LOGBLOCKS /\ Len(header) \in Nat
  BY OpenFacts DEF LogWrite
<1>a2. /\ pc' = pc /\ h \in Blocks
       /\ hold' = [hold EXCEPT ![p] = NoBlock]
       /\ wrote' = [wrote EXCEPT ![p] = @ \cup {h}]
  BY <1>a1, LogAssumption DEF IInv, TypeOK, LogWrite
<1>a3. \/ h \in LoggedBlocks(header) /\ header' = header /\ pins' = pins
       \/ /\ h \notin LoggedBlocks(header)
          /\ header' = Append(header, h)
          /\ pins' = [pins EXCEPT ![h] = @ + 1]
  BY <1>a1, LogAssumption DEF IInv, TypeOK, LogWrite
<1>a4. /\ header' \in Seq(Blocks)
       /\ Len(header') <= LOGBLOCKS
       /\ LoggedBlocks(header') = LoggedBlocks(header) \cup {h}
  <2>1. CASE h \in LoggedBlocks(header) /\ header' = header
    BY <2>1, <1>a1, LogAssumption DEF IInv, TypeOK
  <2>2. CASE header' = Append(header, h)
    <3>1. header \in Seq(Blocks)
      BY DEF IInv, TypeOK
    <3>2. /\ header' \in Seq(Blocks) /\ Len(header') = Len(header) + 1
          /\ header'[Len(header) + 1] = h
          /\ \A i \in 1..Len(header) : header'[i] = header[i]
      BY SMTT(20), <2>2, <3>1, <1>a1, <1>a2
    <3>3. Len(header') <= LOGBLOCKS
      <4>1. \A n, k \in Nat : n < k => n + 1 <= k
        OBVIOUS
      <4> QED BY Zenon, <4>1, <3>2, <1>a1, LogAssumption
    <3>4. 1..Len(header') = 1..Len(header) \cup {Len(header) + 1}
      BY <3>2, <1>a1
    <3>5. LoggedBlocks(header') = LoggedBlocks(header) \cup {h}
      BY <3>2, <3>4 DEF LoggedBlocks
    <3> QED BY <3>2, <3>3, <3>5
  <2> QED BY <2>1, <2>2, <1>a3
<1>a5. /\ \A b \in Blocks : Pinned(b) <=> b \in LoggedBlocks(header)
       /\ \A b \in Blocks : Pinned(b)' <=> b \in LoggedBlocks(header')
  <2>1. \A q \in Procs : pc[q] # "install" /\ pc'[q] # "install"
    BY <1>a1, <1>a2 DEF CommitPcs
  <2>2. \A b \in Blocks : Pinned(b) <=> b \in LoggedBlocks(header)
    BY <2>1 DEF Pinned, LoggedBlocks
  <2>3. \A b \in Blocks : Pinned(b)' <=> b \in LoggedBlocks(header')
    BY <2>1 DEF Pinned, LoggedBlocks
  <2> QED BY <2>2, <2>3
<1>1. TypeOK'
  <2>1. pins' \in [Blocks -> Int] /\ wrote' \in [Procs -> SUBSET Blocks]
    BY <1>a2, <1>a3 DEF IInv, TypeOK
  <2> QED BY <1>a2, <1>a4 DEF IInv, TypeOK, LogWrite, diskVars, lockVars,
      bootVars
<1>2. HeaderInv'
  <2>1. CASE header' = header
    BY <2>1 DEF HeaderInv, IInv, LogWrite, diskVars
  <2>2. CASE h \notin LoggedBlocks(header) /\ header' = Append(header, h)
    BY <2>2, LogAssumption DEF HeaderInv, Distinct, LoggedBlocks, IInv,
       LogWrite, diskVars
  <2> QED BY <2>1, <2>2, <1>a3
<1>3. SpaceInv'
  <2>1. OpenProcs' = OpenProcs
    BY <1>a2 DEF OpenProcs
  <2> DEFINE c == Cardinality(wrote[p])
  <2>2. c \in Nat /\ IsFiniteSet(wrote[p]) /\ IsFiniteSet(Credit) /\ Cardinality(Credit) \in Nat
    BY FiniteCounts DEF IInv
  <2>a. wrote'[p] = wrote[p] \cup {h}
    BY <1>a2 DEF IInv, TypeOK
  <2>b. Cardinality(wrote[p] \cup {h}) = IF h \in wrote[p] THEN c ELSE c + 1
    BY ZenonT(60), <2>2, FS_AddElement
  <2>3. CASE h \in LoggedBlocks(header) /\ header' = header
    <3>1. Cardinality(wrote'[p]) \in Nat /\ Cardinality(wrote'[p]) >= c
      BY <2>a, <2>b, <2>2
    <3>2. Credit' \subseteq Credit
      <4>1. pc' = pc /\ \A q \in Procs : q # p => wrote'[q] = wrote[q]
        BY <1>a2
      <4>2. \A n \in 1..MAXOPBLOCKS : n > Cardinality(wrote'[p]) => n > c
        BY <3>1, <2>2
      <4>3. \A q \in Procs : \A n \in 1..MAXOPBLOCKS :
              n > Cardinality(wrote'[q]) => n > Cardinality(wrote[q])
        BY Zenon, <4>1, <4>2
      <4> QED BY Zenon, <4>1, <4>3 DEF Credit
    <3>3. Cardinality(Credit') <= Cardinality(Credit)
      BY <3>2, <2>2, FS_Subset
    <3>4. Cardinality(Credit') \in Nat
      BY <3>2, <2>2, FS_Subset, FS_CardinalityType
    <3>5. outstanding' = outstanding /\ Len(header') = Len(header)
      BY <2>3 DEF LogWrite, lockVars
    <3>6. /\ outstanding = Cardinality(OpenProcs)
          /\ Len(header) + Cardinality(Credit) <= LOGBLOCKS
      BY DEF SpaceInv, IInv
    <3> QED BY <2>1, <2>2, <3>3, <3>4, <3>5, <3>6, <1>a1, LogAssumption
        DEF SpaceInv
  <2>4. CASE h \notin LoggedBlocks(header) /\ header' = Append(header, h)
    <3>1. h \notin wrote[p]
      BY <2>4 DEF WroteInv, IInv, LogWrite
    <3>2. Cardinality(wrote'[p]) = c + 1 /\ wrote'[p] = wrote[p] \cup {h}
      BY <2>a, <2>b, <3>1
    <3>3. c + 1 \in 1..MAXOPBLOCKS
      <4>1. Cardinality(wrote[p] \cup {h}) <= OpBlocks
        BY <1>a2, LogAssumption, SMTT(60) DEF HoldInv, IInv
      <4> QED BY <2>2, <3>2, <4>1, LogAssumption
    <3>4. <<p, c + 1>> \in Credit
      BY <2>2, <3>3 DEF Credit, LogWrite
    <3>5. Credit' = Credit \ {<<p, c + 1>>}
      <4>1. ASSUME NEW q \in Procs, NEW k \in 1..MAXOPBLOCKS
            PROVE  <<q, k>> \in Credit' <=> <<q, k>> \in Credit /\ <<q, k>> # <<p, c + 1>>
        <5>1. CASE q = p
          <6>1. <<p, k>> \in Credit <=> pc[p] = "op" /\ k > c
            BY DEF Credit
          <6>2. <<p, k>> \in Credit' <=> pc[p] = "op" /\ k > c + 1
            BY <3>2, <1>a2, Zenon DEF Credit
          <6>3. k > c + 1 <=> k > c /\ k # c + 1
            BY <2>2, LogAssumption
          <6> QED BY <5>1, <6>1, <6>2, <6>3
        <5>2. CASE q # p
          BY <5>2, <1>a2 DEF Credit
        <5> QED BY <5>1, <5>2
      <4>2. Credit \subseteq Procs \X (1..MAXOPBLOCKS) /\ Credit' \subseteq Procs \X (1..MAXOPBLOCKS)
        BY DEF Credit
      <4>3. \A x \in Procs \X (1..MAXOPBLOCKS) : x \in Credit' <=> x \in Credit /\ x # <<p, c + 1>>
        BY <4>1
      <4> QED BY <4>2, <4>3
    <3>6. Cardinality(Credit') = Cardinality(Credit) - 1
      <4> DEFINE x == <<p, c + 1>>
      <4>1. x \in Credit /\ Credit' = Credit \ {x}
        BY <3>4, <3>5
      <4> HIDE DEF x
      <4> QED BY Zenon, <4>1, <2>2, FS_RemoveElement
    <3>7. Len(header') = Len(header) + 1
      BY <2>4
    <3> QED BY <2>1, <2>2, <3>6, LogAssumption DEF SpaceInv, IInv, LogWrite,
        lockVars
  <2> QED BY <2>3, <2>4, <1>a3
<1>4. NoPanic'
  BY <1>a2 DEF NoPanic, IInv
<1>5. HoldInv'
  <2> SUFFICES ASSUME NEW q \in Procs, hold'[q] # NoBlock
               PROVE  /\ pc'[q] = "op"
                      /\ cache'[hold'[q]] # NotCached
                      /\ Cardinality(wrote'[q] \cup {hold'[q]}) <= OpBlocks
                      /\ \A r \in Procs : hold'[r] = hold'[q] => r = q
    BY LogAssumption DEF HoldInv
  <2>1. q # p /\ hold'[q] = hold[q] /\ wrote'[q] = wrote[q]
    BY <1>a2 DEF IInv, TypeOK
  <2> QED BY <1>a2, ZenonT(60) DEF HoldInv, IInv, TypeOK, LogWrite
<1>6. WroteInv'
  <2>1. ASSUME NEW q \in Procs, pc'[q] = "op"
        PROVE  wrote'[q] \subseteq LoggedBlocks(header') /\ Cardinality(wrote'[q]) <= OpBlocks
    <3>1. CASE q = p
      BY <3>1, <1>a2, <1>a4, LogAssumption DEF HoldInv, WroteInv, IInv,
         LogWrite, diskVars, lockVars, bootVars
    <3>2. CASE q # p
      BY <2>1, <3>2, <1>a2, <1>a4 DEF WroteInv, IInv
    <3> QED BY <3>1, <3>2
  <2> QED BY <2>1 DEF WroteInv
<1>7. CommitInv'
  <2>1. p \in OpenProcs /\ OpenProcs' = OpenProcs /\ Committers' = Committers
    BY <1>a2 DEF OpenProcs, Committers, LogWrite
  <2>2. Committers = {}
    BY <1>a1 DEF Committers
  <2> QED BY <2>1, <2>2, <1>a1, <1>a2 DEF CommitInv, CommitPcs, LogWrite,
      lockVars
<1>8. CacheInv'
  <2>1. ASSUME NEW b \in Blocks
        PROVE  /\ pins'[b] = IF Pinned(b)' THEN 1 ELSE 0
               /\ Pinned(b)' => cache'[b] # NotCached
    <3>1. /\ Pinned(b) <=> b \in LoggedBlocks(header)
          /\ Pinned(b)' <=> b \in LoggedBlocks(header')
          /\ LoggedBlocks(header') = LoggedBlocks(header) \cup {h}
      BY <1>a4, <1>a5
    <3>2. /\ pins[b] = IF Pinned(b) THEN 1 ELSE 0
          /\ Pinned(b) => cache[b] # NotCached
          /\ cache[h] # NotCached
      BY <1>a1, <1>a2, LogAssumption, ZenonT(60) DEF CacheInv, HoldInv, IInv
    <3>3. CASE h \in LoggedBlocks(header) /\ pins' = pins
      BY ONLY <3>1, <3>2, <3>3, cache' = cache DEF LogWrite
    <3>4. CASE h \notin LoggedBlocks(header) /\ pins' = [pins EXCEPT ![h] = @ + 1]
      <4>1. CASE b = h
        BY <3>1, <3>2 DEF IInv, TypeOK, LogWrite
      <4>2. CASE b # h
        <5>1. pins'[b] = pins[b]
          BY <3>4, <4>2
        <5> QED BY Zenon, <5>1, <4>2, <3>1, <3>2 DEF LogWrite
      <4> QED BY <4>1, <4>2
    <3> QED BY <3>3, <3>4, <1>a3
  <2>2. ASSUME NEW b \in Blocks, Dirty(b)'
        PROVE  Pinned(b)' \/ \E q \in Procs : hold'[q] = b
    <3>1. CASE b = h
      BY Zenon, <3>1, <1>a4, <1>a5
    <3>2. CASE b # h
      <4>1. Pinned(b) \/ \E q \in Procs : hold[q] = b
        BY <2>2, <1>a1 DEF CacheInv, Dirty, IInv, LogWrite, diskVars
      <4>2. CASE Pinned(b)
        BY <4>2, <1>a4, <1>a5
      <4>3. ASSUME NEW q \in Procs, hold[q] = b
            PROVE  hold'[q] = b
        BY <4>3, <3>2, <1>a2
      <4> QED BY <4>1, <4>2, <4>3
    <3> QED BY <3>1, <3>2
  <2> QED BY <2>1, <2>2 DEF CacheInv
<1>9. DiskLogInv'
  BY <1>a1, <1>a2 DEF DiskLogInv, CommitPcs, IInv, LogWrite, diskVars
<1>10. BootInv'
  BY DEF BootInv, IInv, LogWrite, bootVars
<1>11. SleepInv'
  BY DEF SleepInv, SleeperHasWaker, IInv, LogWrite, lockVars, bootVars
<1> QED BY <1>1, <1>2, <1>3, <1>4, <1>5, <1>6, <1>7, <1>8, <1>9, <1>10, <1>11
    DEF IInv

\* end_op returns the reservation; the last operation becomes the committer.
LEMMA EndOpStep ==
  ASSUME IInv, NEW p \in Procs, EndOp(p)
  PROVE  IInv'
<1>a1. /\ boot = "up" /\ ~committing /\ \A q \in Procs : pc[q] \notin CommitPcs
       /\ outstanding >= 1
  BY OpenFacts DEF EndOp
<1>a2. \/ /\ outstanding' = 0 /\ pc' = [pc EXCEPT ![p] = "commit"]
          /\ committing' = TRUE /\ asleep' = asleep
       \/ /\ outstanding' # 0 /\ pc' = [pc EXCEPT ![p] = "idle"]
          /\ committing' = FALSE /\ asleep' = {}
  BY <1>a1 DEF EndOp
<1>a3. /\ OpenProcs' = OpenProcs \ {p} /\ p \in OpenProcs
       /\ Cardinality(OpenProcs') = Cardinality(OpenProcs) - 1
       /\ outstanding' = Cardinality(OpenProcs')
  <2>1. OpenProcs' = OpenProcs \ {p} /\ p \in OpenProcs
    BY DEF OpenProcs, IInv, TypeOK, EndOp
  <2> QED BY <2>1, FiniteCounts, FS_RemoveElement, ZenonT(60) DEF SpaceInv, IInv, EndOp
<1>a4. \A b \in Blocks : Pinned(b)' <=> Pinned(b)
  BY <1>a1 DEF Pinned, IInv, TypeOK, EndOp, memVars
<1>1. TypeOK'
  <2>1. CASE pc' = [pc EXCEPT ![p] = "commit"] /\ committing' = TRUE /\ asleep' = asleep
    BY <2>1 DEF IInv, TypeOK, EndOp, diskVars, memVars, bootVars
  <2>2. CASE pc' = [pc EXCEPT ![p] = "idle"] /\ committing' = FALSE /\ asleep' = {}
    BY <2>2 DEF IInv, TypeOK, EndOp, diskVars, memVars, bootVars
  <2> QED BY Zenon, <2>1, <2>2, <1>a2
<1>2. HeaderInv'
  BY DEF HeaderInv, IInv, EndOp, diskVars, memVars
<1>3. SpaceInv'
  <2>1. Credit' \subseteq Credit
    BY DEF Credit, IInv, TypeOK, EndOp
  <2>2. Cardinality(Credit') <= Cardinality(Credit) /\ Cardinality(Credit') \in Nat
    BY <2>1, FiniteCounts, FS_Subset, FS_CardinalityType DEF IInv
  <2> QED BY <1>a3, <2>2, FiniteCounts, LogAssumption, SMTT(60) DEF SpaceInv, IInv, EndOp,
      memVars
<1>4. NoPanic'
  BY <1>a2 DEF NoPanic, IInv, TypeOK
<1>5. HoldInv'
  BY Zenon DEF HoldInv, IInv, TypeOK, EndOp, memVars
<1>6. WroteInv'
  BY DEF WroteInv, IInv, TypeOK, EndOp, memVars
<1>7. CommitInv'
  <2>1. CASE outstanding' = 0 /\ pc' = [pc EXCEPT ![p] = "commit"] /\ committing' = TRUE
    <3>1. OpenProcs' = {}
      <4>1. IsFiniteSet(OpenProcs')
        BY <1>a3, FiniteCounts, FS_RemoveElement DEF IInv
      <4> QED BY <4>1, <2>1, <1>a3, FS_EmptySet
    <3>2. Committers' = {p}
      BY <2>1, <1>a1 DEF Committers, CommitPcs, IInv, TypeOK
    <3>3. \A q \in Procs : pc'[q] \notin {"write_log", "install", "done"}
      BY <2>1, <1>a1 DEF CommitPcs
    <3> QED BY <2>1, <3>1, <3>2, <3>3 DEF CommitInv
  <2>2. CASE outstanding' # 0 /\ pc' = [pc EXCEPT ![p] = "idle"] /\ committing' = FALSE
    <3>1. OpenProcs' # {}
      BY Zenon, <2>2, <1>a3, FS_EmptySet
    <3>2. \A q \in Procs : pc'[q] \notin CommitPcs
      BY <2>2, <1>a1 DEF CommitPcs
    <3> QED BY <2>2, <3>1, <3>2 DEF CommitInv, Committers, IInv, EndOp, memVars
  <2> QED BY Zenon, <2>1, <2>2, <1>a2
<1>8. CacheInv'
  BY <1>a4 DEF CacheInv, Dirty, IInv, EndOp, diskVars, memVars, bootVars
<1>9. DiskLogInv'
  BY <1>a1 DEF DiskLogInv, CommitPcs, IInv, TypeOK, EndOp, diskVars
<1>10. BootInv'
  BY <1>a1, ZenonT(60) DEF BootInv, EndOp, bootVars
<1>11. SleepInv'
  BY <1>a1 DEF SleepInv, SleeperHasWaker, EndOp, bootVars
<1> QED BY <1>1, <1>2, <1>3, <1>4, <1>5, <1>6, <1>7, <1>8, <1>9, <1>10, <1>11
    DEF IInv
=============================================================================
