----------------------------- MODULE LogProofs ------------------------------
(***************************************************************************)
(* Theorems about module Log, for every number of processes and blocks and *)
(* every log size: the inductive invariant, freedom from panics, durability*)
(* at quiescence, no lost wakeup on Channel::Log and crash atomicity.  The *)
(* steps of commit, of recycling, of recovery and of a crash are proved    *)
(* here, those of the operations in LogInvariant.                          *)
(***************************************************************************)
EXTENDS LogInvariant

-----------------------------------------------------------------------------
(* commit: write_log, both calls of write_head, install_trans and the end  *)
(* of end_op.                                                              *)

\* commit begins with nothing copied.
LEMMA CommitStartStep ==
  ASSUME IInv, NEW p \in Procs, CommitStart(p)
  PROVE  IInv'
<1>a1. /\ boot = "up" /\ committing
       /\ \A q \in Procs : pc[q] # "op" /\ hold[q] = NoBlock
       /\ \A q \in Procs : pc[q] \in CommitPcs => q = p
       /\ Len(header) \in Nat
       /\ \A i \in 1..Len(header) : header[i] \in Blocks /\ i \in Slots
       /\ Credit = {}
  BY CommitFacts DEF CommitPcs, CommitStart
<1>a2. \A b \in Blocks : Pinned(b)' <=> Pinned(b)
  BY DEF Pinned, CommitStart, memVars
<1>1. TypeOK'
  BY DEF IInv, TypeOK, CommitStart, diskVars, memVars, lockVars, bootVars
<1>2. HeaderInv'
  BY DEF HeaderInv, IInv, CommitStart, diskVars, memVars
<1>3. SpaceInv'
  BY Zenon DEF SpaceInv, OpenProcs, Credit, IInv, TypeOK, CommitStart, memVars,
     lockVars
<1>4. NoPanic'
  BY DEF NoPanic, IInv, CommitStart
<1>5. HoldInv'
  BY Zenon DEF HoldInv, IInv, TypeOK, CommitStart, memVars
<1>6. WroteInv'
  BY DEF WroteInv, IInv, CommitStart, memVars
<1>7. CommitInv'
  BY DEF CommitInv, Committers, CommitPcs, OpenProcs, IInv, TypeOK,
     CommitStart, memVars, lockVars
<1>8. CacheInv'
  BY <1>a2 DEF CacheInv, Dirty, IInv, CommitStart, diskVars, memVars, bootVars
<1>9. DiskLogInv'
  BY DEF DiskLogInv, BRead, IInv, TypeOK, CommitStart, diskVars, memVars,
     bootVars
<1>10. BootInv'
  BY DEF BootInv, IInv, CommitStart, bootVars
<1>11. SleepInv'
  BY DEF SleepInv, SleeperHasWaker, IInv, CommitStart, lockVars, bootVars
<1> QED BY <1>1, <1>2, <1>3, <1>4, <1>5, <1>6, <1>7, <1>8, <1>9, <1>10, <1>11
    DEF IInv

\* write_log finds every logged block in the cache, so it copies what the
\* operations wrote.
LEMMA WriteLogStep ==
  ASSUME IInv, NEW p \in Procs, WriteLog(p)
  PROVE  IInv'
<1>a1. /\ boot = "up" /\ committing
       /\ \A q \in Procs : pc[q] # "op" /\ hold[q] = NoBlock
       /\ \A q \in Procs : pc[q] \in CommitPcs => q = p
       /\ Len(header) \in Nat
       /\ \A i \in 1..Len(header) : header[i] \in Blocks /\ i \in Slots
       /\ Credit = {}
  BY CommitFacts DEF CommitPcs, WriteLog
<1> DEFINE b == header[tail[p] + 1]
<1>a2. tail[p] + 1 \in 1..Len(header) /\ b \in Blocks /\ tail[p] + 1 \in Slots
  <2>1. tail[p] \in Nat /\ tail[p] < Len(header)
    BY DEF IInv, TypeOK, WriteLog
  <2>2. tail[p] + 1 \in 1..Len(header)
    BY <2>1
  <2>3. PICK i \in 1..Len(header) : i = tail[p] + 1
    BY <2>2
  <2>4. header[i] \in Blocks /\ i \in Slots
    BY <1>a1
  <2> QED BY <2>3, <2>4
<1>a3. cache[b] # NotCached /\ cache' = cache /\ BRead(b) = cache[b] /\ BRead(b) \in Val
  <2>1. Pinned(b)
    BY <1>a1, <1>a2 DEF Pinned, CommitPcs, WriteLog
  <2>2. cache[b] # NotCached
    BY <2>1, <1>a1, <1>a2 DEF CacheInv, IInv
  <2> QED BY <2>2 DEF BRead, IInv, TypeOK, WriteLog
<1>a4. \A c \in Blocks : Pinned(c)' <=> Pinned(c)
  <2>1. \A q \in Procs : pc[q] # "install"
    BY <1>a1 DEF CommitPcs, WriteLog
  <2>2. \A q \in Procs : pc'[q] = "install" => tail'[q] = 0
    BY <2>1 DEF WriteLog
  <2>3. \A i \in 1..Len(header) : i > 0
    OBVIOUS
  <2>4. header' = header
    BY DEF WriteLog
  <2> QED BY <2>1, <2>2, <2>4 DEF Pinned
<1>1. TypeOK'
  BY <1>a2, <1>a3 DEF IInv, TypeOK, WriteLog, lockVars, bootVars
<1>2. HeaderInv'
  BY DEF HeaderInv, IInv, WriteLog
<1>3. SpaceInv'
  BY DEF SpaceInv, OpenProcs, Credit, IInv, WriteLog, lockVars
<1>4. NoPanic'
  BY DEF NoPanic, IInv, WriteLog
<1>5. HoldInv'
  BY <1>a1 DEF HoldInv, WriteLog
<1>6. WroteInv'
  BY DEF WroteInv, IInv, WriteLog
<1>7. CommitInv'
  BY DEF CommitInv, Committers, OpenProcs, IInv, TypeOK, WriteLog,
     lockVars, bootVars
<1>8. CacheInv'
  BY <1>a3, <1>a4 DEF CacheInv, Dirty, IInv, WriteLog, bootVars
<1>9. DiskLogInv'
  BY <1>a1, <1>a2, <1>a3, LogAssumption, SMTT(60) DEF DiskLogInv, CommitPcs, IInv,
     TypeOK, WriteLog, diskVars, memVars, lockVars, procVars, bootVars
<1>10. BootInv'
  BY DEF BootInv, IInv, WriteLog, bootVars
<1>11. SleepInv'
  BY DEF SleepInv, SleeperHasWaker, IInv, WriteLog, lockVars, bootVars
<1> QED BY <1>1, <1>2, <1>3, <1>4, <1>5, <1>6, <1>7, <1>8, <1>9, <1>10, <1>11
    DEF IInv

\* The commit point: all logged blocks are in the log when write_head runs.
LEMMA WriteHeadStep ==
  ASSUME IInv, NEW p \in Procs, WriteHead(p)
  PROVE  IInv'
<1>a1. /\ boot = "up" /\ committing
       /\ \A q \in Procs : pc[q] # "op" /\ hold[q] = NoBlock
       /\ \A q \in Procs : pc[q] \in CommitPcs => q = p
       /\ Len(header) \in Nat
       /\ \A i \in 1..Len(header) : header[i] \in Blocks /\ i \in Slots
       /\ Credit = {}
  BY CommitFacts DEF CommitPcs, WriteHead
<1>a2. \A i \in 1..Len(header) : dlog[i] = BRead(header[i])
  <2> SUFFICES ASSUME NEW i \in 1..Len(header)
                 PROVE  dlog[i] = BRead(header[i])
    OBVIOUS
  <2>1. Pinned(header[i])
    BY <1>a1 DEF Pinned, CommitPcs, WriteHead
  <2>2. cache[header[i]] # NotCached
    BY <2>1, <1>a1 DEF CacheInv, IInv
  <2>3. dlog[i] = cache[header[i]]
    BY <1>a1 DEF DiskLogInv, IInv, WriteHead
  <2> QED BY <2>2, <2>3 DEF BRead
<1>a3. \A c \in Blocks : Pinned(c)' <=> Pinned(c)
  <2>1. \A q \in Procs : pc[q] # "install"
    BY <1>a1 DEF CommitPcs, WriteHead
  <2>2. \A q \in Procs : pc'[q] = "install" => tail'[q] = 0
    BY <2>1 DEF IInv, TypeOK, WriteHead
  <2>3. \A i \in 1..Len(header) : i > 0
    OBVIOUS
  <2>4. header' = header
    BY DEF WriteHead, memVars
  <2> QED BY <2>1, <2>2, <2>4 DEF Pinned
<1>1. TypeOK'
  BY DEF IInv, TypeOK, WriteHead, memVars, lockVars, bootVars
<1>2. HeaderInv'
  BY DEF HeaderInv, IInv, WriteHead, memVars
<1>3. SpaceInv'
  BY Zenon DEF SpaceInv, OpenProcs, Credit, IInv, TypeOK, WriteHead, memVars, lockVars
<1>4. NoPanic'
  BY DEF NoPanic, IInv, WriteHead
<1>5. HoldInv'
  BY Zenon DEF HoldInv, IInv, TypeOK, WriteHead, memVars
<1>6. WroteInv'
  BY DEF WroteInv, IInv, WriteHead, memVars
<1>7. CommitInv'
  BY DEF CommitInv, Committers, CommitPcs, OpenProcs, IInv, WriteHead,
     memVars, lockVars
<1>8. CacheInv'
  BY <1>a3 DEF CacheInv, Dirty, IInv, WriteHead, memVars, bootVars
<1>9. DiskLogInv'
  <2>1. \A i \in 1..Len(header) : BRead(header[i])' = BRead(header[i])
    BY DEF BRead, WriteHead, memVars
  <2> QED BY <1>a1, <1>a2, <2>1 DEF DiskLogInv, IInv, TypeOK, WriteHead, memVars
<1>10. BootInv'
  BY DEF BootInv, IInv, WriteHead, bootVars
<1>11. SleepInv'
  BY DEF SleepInv, SleeperHasWaker, IInv, WriteHead, lockVars, bootVars
<1> QED BY <1>1, <1>2, <1>3, <1>4, <1>5, <1>6, <1>7, <1>8, <1>9, <1>10, <1>11
    DEF IInv

\* install_trans writes a home block and drops exactly that block's pin.
LEMMA InstallTransStep ==
  ASSUME IInv, NEW p \in Procs, InstallTrans(p)
  PROVE  IInv'
<1>a1. /\ boot = "up" /\ committing
       /\ \A q \in Procs : pc[q] # "op" /\ hold[q] = NoBlock
       /\ \A q \in Procs : pc[q] \in CommitPcs => q = p
       /\ Len(header) \in Nat
       /\ \A i \in 1..Len(header) : header[i] \in Blocks /\ i \in Slots
       /\ Credit = {}
  BY CommitFacts DEF CommitPcs, InstallTrans
<1> DEFINE k == tail[p] + 1
<1> DEFINE b == header[k]
<1>a2. k \in 1..Len(header) /\ b \in Blocks /\ k \in Slots /\ k \in Nat /\ k > tail[p]
  <2>1. tail[p] \in Nat /\ tail[p] < Len(header)
    BY DEF IInv, TypeOK, InstallTrans
  <2>2. k \in 1..Len(header) /\ k \in Nat /\ k > tail[p]
    BY <2>1
  <2>3. PICK i \in 1..Len(header) : i = tail[p] + 1
    BY <2>2
  <2>4. header[i] \in Blocks /\ i \in Slots
    BY <1>a1
  <2> QED BY <2>2, <2>3, <2>4
<1>a3. Pinned(b) /\ cache[b] = dlog[k] /\ cache' = cache /\ dlog[k] \in Val
  <2>1. Pinned(b)
    BY <1>a1, <1>a2 DEF Pinned, CommitPcs
  <2>2. cache[b] # NotCached
    BY <2>1, <1>a1, <1>a2 DEF CacheInv, IInv
  <2>3. dlog[k] = BRead(b)
    BY <1>a1, <1>a2 DEF DiskLogInv, IInv, InstallTrans
  <2> QED BY <2>1, <2>2, <2>3 DEF BRead, IInv, TypeOK, InstallTrans
<1>a4. \A c \in Blocks : Pinned(c)' <=> Pinned(c) /\ c # b
  <2> SUFFICES ASSUME NEW c \in Blocks
                 PROVE  Pinned(c)' <=> Pinned(c) /\ c # b
    OBVIOUS
  <2>1. Pinned(c) <=> \E i \in 1..Len(header) : header[i] = c /\ i > tail[p]
    BY <1>a1 DEF Pinned, CommitPcs, InstallTrans
  <2>2. Pinned(c)' <=> \E i \in 1..Len(header) : header[i] = c /\ i > k
    BY <1>a1, Zenon DEF Pinned, CommitPcs, IInv, TypeOK, InstallTrans, diskVars,
       memVars, lockVars, procVars, bootVars
  <2> QED BY <2>1, <2>2, <1>a2, LogAssumption, SMTT(60) DEF HeaderInv, Distinct, IInv,
      TypeOK, InstallTrans, diskVars, memVars, lockVars, procVars, bootVars
<1>1. TypeOK'
  BY <1>a2, SMTT(60) DEF IInv, TypeOK, InstallTrans, diskVars, lockVars, bootVars
<1>2. HeaderInv'
  BY DEF HeaderInv, IInv, InstallTrans
<1>3. SpaceInv'
  BY DEF SpaceInv, OpenProcs, Credit, IInv, InstallTrans, lockVars
<1>4. NoPanic'
  BY DEF NoPanic, IInv, InstallTrans
<1>5. HoldInv'
  BY <1>a1 DEF HoldInv, InstallTrans
<1>6. WroteInv'
  BY DEF WroteInv, IInv, InstallTrans
<1>7. CommitInv'
  BY DEF CommitInv, Committers, OpenProcs, IInv, TypeOK, InstallTrans,
     lockVars, bootVars
<1>8. CacheInv'
  <2> SUFFICES ASSUME NEW c \in Blocks
               PROVE  /\ pins'[c] = IF Pinned(c)' THEN 1 ELSE 0
                      /\ Pinned(c)' => cache'[c] # NotCached
                      /\ Dirty(c)' => Pinned(c)'
    BY DEF CacheInv
  <2>1. CASE c = b
    BY <1>a1, <1>a3, <1>a4, LogAssumption, SMTT(60) DEF CacheInv, Dirty, IInv,
       TypeOK, InstallTrans
  <2>2. CASE c # b
    BY <2>2, <1>a1, <1>a4, LogAssumption DEF CacheInv, Dirty, IInv, InstallTrans
  <2> QED BY <2>1, <2>2
<1>9. DiskLogInv'
  <2>1. \A i \in 1..Len(header) : BRead(header[i])' = BRead(header[i])
    <3> SUFFICES ASSUME NEW i \in 1..Len(header)
                 PROVE  BRead(header[i])' = BRead(header[i])
      OBVIOUS
    <3>1. CASE header[i] = b
      BY <1>a3, LogAssumption DEF BRead, InstallTrans
    <3>2. CASE header[i] # b
      BY <1>a3, LogAssumption DEF BRead, InstallTrans
    <3> QED BY <3>1, <3>2
  <2>2. \A i \in 1..k : disk'[header[i]] = dlog[i]
    <3> SUFFICES ASSUME NEW i \in 1..k
                 PROVE  disk'[header[i]] = dlog[i]
      OBVIOUS
    <3>1. i \in 1..Len(header) /\ header[i] \in Blocks
      BY <1>a1, <1>a2
    <3>2. CASE i = k
      BY <3>2 DEF IInv, TypeOK, InstallTrans
    <3>3. CASE i # k
      <4>1. i \in 1..tail[p] /\ header[i] # b
        BY <3>1, <3>3, <1>a2, LogAssumption, SMTT(20) DEF HeaderInv, Distinct, IInv,
           TypeOK, InstallTrans, diskVars, memVars, lockVars, procVars,
           bootVars
      <4> QED BY <4>1, <1>a1 DEF DiskLogInv, IInv, InstallTrans
    <3> QED BY <3>2, <3>3
  <2>3. \A q \in Procs : pc'[q] = pc[q] /\ (pc[q] \in CommitPcs => q = p) /\ tail'[p] = k
    BY <1>a1 DEF IInv, TypeOK, InstallTrans
  <2>4. dhead' = dhead /\ dlog' = dlog /\ header' = header /\ dhead = header
    BY <1>a1 DEF DiskLogInv, IInv, InstallTrans
  <2>5. \A i \in 1..Len(header) : dlog[i] = BRead(header[i])
    BY <1>a1 DEF DiskLogInv, IInv, InstallTrans
  <2>6. \A i \in 1..Len(header') : dlog'[i] = BRead(header[i])'
    BY <2>1, <2>4, <2>5
  <2>7. pc[p] = "install"
    BY DEF InstallTrans
  <2>8. \A q \in Procs : pc'[q] # "write_log" /\ (pc'[q] = "install" => q = p)
    BY <2>3, <2>7 DEF CommitPcs
  <2> QED BY <2>2, <2>3, <2>4, <2>6, <2>7, <2>8 DEF DiskLogInv
<1>10. BootInv'
  BY DEF BootInv, IInv, InstallTrans, bootVars
<1>11. SleepInv'
  BY DEF SleepInv, SleeperHasWaker, IInv, InstallTrans, lockVars, bootVars
<1> QED BY <1>1, <1>2, <1>3, <1>4, <1>5, <1>6, <1>7, <1>8, <1>9, <1>10, <1>11
    DEF IInv

\* The header is erased when every block is installed and unpinned.
LEMMA EraseHeadStep ==
  ASSUME IInv, NEW p \in Procs, EraseHead(p)
  PROVE  IInv'
<1>a1. /\ boot = "up" /\ committing
       /\ \A q \in Procs : pc[q] # "op" /\ hold[q] = NoBlock
       /\ \A q \in Procs : pc[q] \in CommitPcs => q = p
       /\ Len(header) \in Nat
       /\ \A i \in 1..Len(header) : header[i] \in Blocks /\ i \in Slots
       /\ Credit = {}
  BY CommitFacts DEF CommitPcs, EraseHead
<1>a2. \A b \in Blocks : ~Pinned(b) /\ ~Pinned(b)'
  BY DEF Pinned, EraseHead
<1>1. TypeOK'
  BY DEF IInv, TypeOK, EraseHead, lockVars, bootVars
<1>2. HeaderInv'
  BY LogAssumption DEF HeaderInv, Distinct, EraseHead
<1>3. SpaceInv'
  <2>1. Credit' = Credit /\ OpenProcs' = OpenProcs
    BY DEF Credit, OpenProcs, EraseHead
  <2> QED BY <2>1, FiniteCounts, LogAssumption DEF SpaceInv, IInv, EraseHead,
      lockVars
<1>4. NoPanic'
  BY DEF NoPanic, IInv, EraseHead
<1>5. HoldInv'
  BY Zenon DEF HoldInv, IInv, TypeOK, EraseHead
<1>6. WroteInv'
  BY <1>a1 DEF WroteInv, EraseHead
<1>7. CommitInv'
  BY DEF CommitInv, Committers, CommitPcs, OpenProcs, IInv, TypeOK,
     EraseHead, lockVars
<1>8. CacheInv'
  BY <1>a1, <1>a2 DEF CacheInv, Dirty, IInv, EraseHead
<1>9. DiskLogInv'
  BY <1>a1 DEF DiskLogInv, CommitPcs, IInv, TypeOK, EraseHead
<1>10. BootInv'
  BY DEF BootInv, IInv, EraseHead, bootVars
<1>11. SleepInv'
  BY DEF SleepInv, SleeperHasWaker, IInv, EraseHead, lockVars, bootVars
<1> QED BY <1>1, <1>2, <1>3, <1>4, <1>5, <1>6, <1>7, <1>8, <1>9, <1>10, <1>11
    DEF IInv

\* The end of a commit reopens the log.
LEMMA CommitDoneStep ==
  ASSUME IInv, NEW p \in Procs, CommitDone(p)
  PROVE  IInv'
<1>1. TypeOK'
  BY Zenon DEF IInv, TypeOK, CommitDone, diskVars, memVars, bootVars
<1>2. HeaderInv'
  BY DEF HeaderInv, IInv, CommitDone, diskVars, memVars
<1>3. SpaceInv'
  BY Zenon DEF SpaceInv, OpenProcs, Credit, IInv, TypeOK, CommitDone, memVars
<1>4. NoPanic'
  BY DEF NoPanic, IInv, CommitDone
<1>5. HoldInv'
  BY Zenon DEF HoldInv, IInv, TypeOK, CommitDone, memVars
<1>6. WroteInv'
  BY DEF WroteInv, IInv, CommitDone, memVars
<1>7. CommitInv'
  BY DEF CommitInv, Committers, CommitPcs, IInv, TypeOK, CommitDone, memVars
<1>8. CacheInv'
  BY DEF CacheInv, Pinned, Dirty, IInv, CommitDone, diskVars, memVars, bootVars
<1>9. DiskLogInv'
  BY DEF DiskLogInv, CommitInv, IInv, CommitDone, diskVars, memVars, bootVars
<1>10. BootInv'
  BY DEF BootInv, IInv, CommitDone, bootVars
<1>11. SleepInv'
  BY DEF SleepInv, SleeperHasWaker, CommitDone
<1> QED BY <1>1, <1>2, <1>3, <1>4, <1>5, <1>6, <1>7, <1>8, <1>9, <1>10, <1>11
    DEF IInv

-----------------------------------------------------------------------------
(* Recycling, recovery and crashes.                                        *)

\* A recycled buffer is clean: dirty buffers are held or pinned.
LEMMA RecycleStep ==
  ASSUME IInv, NEW b \in Blocks, Recycle(b)
  PROVE  IInv'
<1>1. TypeOK'
  BY DEF IInv, TypeOK, Recycle, diskVars, lockVars, procVars, bootVars
<1>2. HeaderInv'
  BY DEF HeaderInv, IInv, Recycle, diskVars
<1>3. SpaceInv'
  BY DEF SpaceInv, OpenProcs, Credit, IInv, Recycle, lockVars, procVars
<1>4. NoPanic'
  BY DEF NoPanic, IInv, Recycle, procVars
<1>5. HoldInv'
  BY DEF HoldInv, IInv, Recycle, procVars
<1>6. WroteInv'
  BY DEF WroteInv, IInv, Recycle, procVars
<1>7. CommitInv'
  BY DEF CommitInv, Committers, OpenProcs, IInv, Recycle, lockVars,
     procVars, bootVars
<1>8. CacheInv'
  <2>1. \A c \in Blocks : Pinned(c)' <=> Pinned(c)
    BY DEF Pinned, Recycle, procVars
  <2>2. boot = "up" => ~Pinned(b)
    BY DEF CacheInv, IInv, Recycle
  <2> QED BY <2>1 DEF CacheInv, Dirty, IInv, Recycle, diskVars, procVars,
      bootVars
<1>9. DiskLogInv'
  <2> SUFFICES ASSUME boot = "up" PROVE DiskLogInv'
    BY DEF DiskLogInv, Recycle, bootVars
  <2>1. ~Pinned(b) /\ cache[b] = disk[b]
    BY DEF CacheInv, Dirty, IInv, Recycle
  <2>2. \A c \in Blocks : BRead(c)' = BRead(c)
    BY <2>1 DEF BRead, Recycle, diskVars
  <2>3. ASSUME NEW q \in Procs, pc[q] = "write_log", NEW i \in 1..tail[q]
        PROVE  dlog[i] = cache'[header[i]]
    <3>1. /\ \A r \in Procs : pc[r] # "install"
          /\ i \in 1..Len(header)
      BY <2>3 DEF CommitInv, Committers, CommitPcs, IInv, TypeOK
    <3>2. header[i] # b /\ header[i] \in Blocks
      BY <3>1, <2>1 DEF Pinned, IInv, TypeOK
    <3> QED BY <3>2, <2>3 DEF DiskLogInv, IInv, Recycle
  <2>4. ASSUME NEW q \in Procs, pc[q] = "install"
        PROVE  \A i \in 1..Len(header) : dlog[i] = BRead(header[i])'
    <3>1. \A i \in 1..Len(header) : header[i] \in Blocks
      BY DEF IInv, TypeOK
    <3> QED BY <2>4, <2>2, <3>1 DEF DiskLogInv, IInv, Recycle
  <2> QED BY <2>3, <2>4 DEF DiskLogInv, IInv, Recycle, diskVars, procVars
<1>10. BootInv'
  BY DEF BootInv, IInv, Recycle, diskVars, procVars, bootVars
<1>11. SleepInv'
  BY DEF SleepInv, SleeperHasWaker, IInv, Recycle, lockVars, bootVars
<1> QED BY <1>1, <1>2, <1>3, <1>4, <1>5, <1>6, <1>7, <1>8, <1>9, <1>10, <1>11
    DEF IInv

\* Recovery starts from the on-disk header.
LEMMA ReadHeadStep ==
  ASSUME IInv, ReadHead
  PROVE  IInv'
<1>a1. /\ \A q \in Procs : pc[q] = "idle" /\ hold[q] = NoBlock /\ pc'[q] = "idle"
       /\ ~committing /\ OpenProcs = {} /\ Credit = {}
  BY DEF BootInv, CommitInv, Committers, CommitPcs, OpenProcs, Credit,
     IInv, ReadHead, procVars
<1>1. TypeOK'
  BY DEF IInv, TypeOK, ReadHead, diskVars, lockVars, procVars
<1>2. HeaderInv'
  BY DEF HeaderInv, IInv, ReadHead, diskVars
<1>3. SpaceInv'
  <2>1. OpenProcs' = OpenProcs /\ Credit' = Credit
    BY DEF OpenProcs, Credit, ReadHead, procVars
  <2>2. Cardinality(OpenProcs') = 0 /\ Cardinality(Credit') = 0 /\ Cardinality(OpenProcs) = 0
    BY <2>1, <1>a1, FS_EmptySet, Zenon
  <2>3. outstanding' = outstanding /\ outstanding = Cardinality(OpenProcs)
    BY DEF SpaceInv, IInv, ReadHead, lockVars
  <2>4. header' = dhead /\ Len(dhead) \in Nat /\ Len(dhead) <= LOGBLOCKS
    BY DEF HeaderInv, TypeOK, IInv, ReadHead
  <2> QED BY <2>2, <2>3, <2>4 DEF SpaceInv
<1>4. NoPanic'
  BY DEF NoPanic, IInv, ReadHead, procVars
<1>5. HoldInv'
  BY <1>a1 DEF HoldInv, ReadHead, procVars
<1>6. WroteInv'
  BY <1>a1 DEF WroteInv
<1>7. CommitInv'
  BY <1>a1 DEF CommitInv, Committers, IInv, ReadHead, lockVars
<1>8. CacheInv'
  BY DEF CacheInv, ReadHead
<1>9. DiskLogInv'
  BY DEF DiskLogInv, ReadHead
<1>10. BootInv'
  BY DEF BootInv, IInv, ReadHead, diskVars, procVars
<1>11. SleepInv'
  BY DEF SleepInv, SleeperHasWaker, IInv, ReadHead, lockVars
<1> QED BY <1>1, <1>2, <1>3, <1>4, <1>5, <1>6, <1>7, <1>8, <1>9, <1>10, <1>11
    DEF IInv

\* Recovery installs one block; no process runs yet.
LEMMA RecoverBlockStep ==
  ASSUME IInv, RecoverBlock
  PROVE  IInv'
<1>a1. /\ \A q \in Procs : pc[q] = "idle" /\ hold[q] = NoBlock /\ pc'[q] = "idle"
       /\ ~committing /\ OpenProcs = {} /\ Credit = {}
  BY DEF BootInv, CommitInv, Committers, CommitPcs, OpenProcs, Credit,
     IInv, RecoverBlock, procVars
<1> DEFINE k == btail + 1
<1> DEFINE b == header[k]
<1>a2. k \in 1..Len(header) /\ b \in Blocks /\ k \in Slots /\ dlog[k] \in Val /\ k \in Nat
  BY LogAssumption DEF BootInv, HeaderInv, Slots, IInv, TypeOK, RecoverBlock
<1>1. TypeOK'
  BY <1>a2 DEF IInv, TypeOK, RecoverBlock, lockVars, procVars
<1>2. HeaderInv'
  BY DEF HeaderInv, IInv, RecoverBlock
<1>3. SpaceInv'
  <2>1. OpenProcs' = OpenProcs /\ Credit' = Credit
    BY DEF OpenProcs, Credit, RecoverBlock, procVars
  <2> QED BY <2>1 DEF SpaceInv, IInv, RecoverBlock, lockVars
<1>4. NoPanic'
  BY DEF NoPanic, IInv, RecoverBlock, procVars
<1>5. HoldInv'
  BY <1>a1 DEF HoldInv, RecoverBlock, procVars
<1>6. WroteInv'
  BY <1>a1 DEF WroteInv
<1>7. CommitInv'
  BY <1>a1 DEF CommitInv, Committers, IInv, RecoverBlock, lockVars
<1>8. CacheInv'
  BY DEF CacheInv, RecoverBlock
<1>9. DiskLogInv'
  BY DEF DiskLogInv, RecoverBlock
<1>10. BootInv'
  <2>1. \A c \in Blocks : cache'[c] \in {NotCached, disk'[c]}
    BY DEF BootInv, IInv, TypeOK, RecoverBlock
  <2>2. \A i \in 1..k : disk'[header[i]] = dlog[i]
    <3> SUFFICES ASSUME NEW i \in 1..k
                 PROVE  disk'[header[i]] = dlog[i]
      OBVIOUS
    <3>1. i \in 1..Len(header) /\ header[i] \in Blocks
      BY <1>a2 DEF IInv, TypeOK
    <3>2. CASE i = k
      BY <3>2 DEF IInv, TypeOK, RecoverBlock
    <3>3. CASE i # k
      <4>1. i \in 1..btail /\ header[i] # b
        BY <3>3, <1>a2 DEF HeaderInv, Distinct, IInv, TypeOK
      <4> QED BY <4>1 DEF BootInv, IInv, RecoverBlock
    <3> QED BY <3>2, <3>3
  <2> QED BY <2>1, <2>2, <1>a2 DEF BootInv, IInv, RecoverBlock, procVars
<1>11. SleepInv'
  BY DEF SleepInv, SleeperHasWaker, IInv, RecoverBlock, lockVars
<1> QED BY <1>1, <1>2, <1>3, <1>4, <1>5, <1>6, <1>7, <1>8, <1>9, <1>10, <1>11
    DEF IInv

\* Recovery leaves an empty log and a cache that agrees with the disk.
LEMMA RecoverDoneStep ==
  ASSUME IInv, RecoverDone
  PROVE  IInv'
<1>a1. /\ \A q \in Procs : pc[q] = "idle" /\ hold[q] = NoBlock /\ pc'[q] = "idle"
       /\ ~committing /\ OpenProcs = {} /\ Credit = {}
  BY DEF BootInv, CommitInv, Committers, CommitPcs, OpenProcs, Credit,
     IInv, RecoverDone, procVars
<1>1. TypeOK'
  BY DEF IInv, TypeOK, RecoverDone, lockVars, procVars
<1>2. HeaderInv'
  BY LogAssumption DEF HeaderInv, Distinct, RecoverDone
<1>3. SpaceInv'
  <2>1. OpenProcs' = OpenProcs /\ Credit' = Credit
    BY DEF OpenProcs, Credit, RecoverDone, procVars
  <2> QED BY <2>1, <1>a1, FS_EmptySet, LogAssumption DEF SpaceInv, IInv,
      RecoverDone, lockVars
<1>4. NoPanic'
  BY DEF NoPanic, IInv, RecoverDone, procVars
<1>5. HoldInv'
  BY <1>a1 DEF HoldInv, RecoverDone, procVars
<1>6. WroteInv'
  BY <1>a1 DEF WroteInv
<1>7. CommitInv'
  BY <1>a1 DEF CommitInv, Committers, IInv, RecoverDone, lockVars
<1>8. CacheInv'
  <2>1. \A c \in Blocks : ~Pinned(c)'
    BY DEF Pinned, RecoverDone
  <2> QED BY <2>1 DEF CacheInv, Dirty, BootInv, IInv, RecoverDone
<1>9. DiskLogInv'
  BY <1>a1 DEF DiskLogInv, RecoverDone
<1>10. BootInv'
  BY DEF BootInv, RecoverDone
<1>11. SleepInv'
  BY DEF SleepInv, SleeperHasWaker, IInv, RecoverDone, lockVars
<1> QED BY <1>1, <1>2, <1>3, <1>4, <1>5, <1>6, <1>7, <1>8, <1>9, <1>10, <1>11
    DEF IInv

\* A crash keeps the on-disk header, which is all recovery needs.
LEMMA CrashStep ==
  ASSUME IInv, Crash
  PROVE  IInv'
<1>1. TypeOK'
  <2>1. header' \in Seq(Blocks) /\ btail' \in Nat /\ outstanding' \in Int
    BY DEF Crash
  <2>2. /\ cache' \in [Blocks -> Val \cup {NotCached}]
        /\ pins' \in [Blocks -> Int]
        /\ tail' \in [Procs -> Nat]
        /\ hold' \in [Procs -> Blocks \cup {NoBlock}]
        /\ wrote' \in [Procs -> SUBSET Blocks]
    BY DEF Crash
  <2>3. pc' \in [Procs -> {"idle", "begin", "op", "commit", "write_log",
                            "install", "done", "panicked"}]
    BY DEF Crash
  <2> QED BY Zenon, <2>1 DEF IInv, TypeOK, Crash, diskVars
<1>2. HeaderInv'
  BY LogAssumption DEF HeaderInv, Distinct, IInv, Crash, diskVars
<1>3. SpaceInv'
  <2>1. OpenProcs' = {} /\ Credit' = {}
    BY DEF OpenProcs, Credit, Crash
  <2> QED BY <2>1, FS_EmptySet, LogAssumption DEF SpaceInv, Crash
<1>4. NoPanic'
  BY DEF NoPanic, Crash
<1>5. HoldInv'
  BY DEF HoldInv, Crash
<1>6. WroteInv'
  BY DEF WroteInv, Crash
<1>7. CommitInv'
  BY DEF CommitInv, Committers, CommitPcs, Crash
<1>8. CacheInv'
  BY DEF CacheInv, Crash
<1>9. DiskLogInv'
  BY DEF DiskLogInv, Crash
<1>10. BootInv'
  BY DEF BootInv, Crash
<1>11. SleepInv'
  BY DEF SleepInv, SleeperHasWaker, Crash
<1> QED BY <1>1, <1>2, <1>3, <1>4, <1>5, <1>6, <1>7, <1>8, <1>9, <1>10, <1>11
    DEF IInv

\* The boot state satisfies the inductive invariant.
LEMMA InitInv == Init => IInv
<1> SUFFICES ASSUME Init PROVE IInv
  OBVIOUS
<1>1. TypeOK
  <2>1. dlog \in [Slots -> Val]
    BY DEF Init
  <2>2. dhead \in Seq(Blocks) /\ header \in Seq(Blocks)
    BY DEF Init
  <2>3. /\ disk \in [Blocks -> Val] /\ cache \in [Blocks -> Val \cup {NotCached}]
        /\ pins \in [Blocks -> Int]
    BY DEF Init
  <2>4. /\ tail \in [Procs -> Nat] /\ hold \in [Procs -> Blocks \cup {NoBlock}]
        /\ wrote \in [Procs -> SUBSET Blocks]
    BY DEF Init
  <2>5. pc \in [Procs -> {"idle", "begin", "op", "commit", "write_log", "install",
                          "done", "panicked"}]
    BY DEF Init
  <2>6. /\ outstanding \in Int /\ asleep \subseteq Procs
        /\ boot \in {"read_head", "install", "up"} /\ btail \in Nat
    BY DEF Init
  <2>7. committing \in BOOLEAN
    BY Zenon DEF Init
  <2> HIDE DEF Init
  <2> QED BY <2>1, <2>2, <2>3, <2>4, <2>5, <2>6, <2>7 DEF TypeOK
<1>2. OpenProcs = {} /\ Credit = {} /\ Committers = {}
  BY DEF OpenProcs, Credit, Committers, CommitPcs, Init
<1>3. SpaceInv
  BY <1>2, FS_EmptySet, LogAssumption DEF SpaceInv, Init
<1>4. HeaderInv
  BY LogAssumption DEF HeaderInv, Distinct, Init
<1>5. CommitInv
  BY <1>2 DEF CommitInv, Init
<1>6. NoPanic /\ HoldInv /\ WroteInv /\ SleepInv
  BY DEF NoPanic, HoldInv, WroteInv, SleepInv, SleeperHasWaker, Init
<1>7. CacheInv /\ DiskLogInv /\ BootInv
  BY DEF CacheInv, DiskLogInv, BootInv, Init
<1> QED BY <1>1, <1>3, <1>4, <1>5, <1>6, <1>7 DEF IInv

\* A stuttering step keeps the inductive invariant.
LEMMA StutterInv ==
  ASSUME IInv, UNCHANGED vars
  PROVE  IInv'
<1>1. TypeOK' /\ HeaderInv' /\ NoPanic' /\ HoldInv' /\ WroteInv' /\ SleepInv'
  BY DEF TypeOK, HeaderInv, Distinct, NoPanic, HoldInv, WroteInv, SleepInv,
     SleeperHasWaker, IInv, vars, diskVars, memVars, lockVars, procVars,
     bootVars
<1>2. SpaceInv' /\ CommitInv'
  BY Zenon DEF SpaceInv, CommitInv, OpenProcs, Credit, Committers, IInv, vars,
     memVars, lockVars, procVars, bootVars
<1>3. CacheInv' /\ DiskLogInv' /\ BootInv'
  BY DEF CacheInv, DiskLogInv, BootInv, Pinned, Dirty, BRead, IInv, vars,
     diskVars, memVars, procVars, bootVars
<1> QED BY <1>1, <1>2, <1>3 DEF IInv

\* Every step of the log preserves the inductive invariant.
LEMMA NextInv == IInv /\ [Next]_vars => IInv'
<1> SUFFICES ASSUME IInv, [Next]_vars PROVE IInv'
  OBVIOUS
<1>1. ASSUME NEW p \in Procs,
             BeginOp(p) \/ BeginSleep(p) \/ KillWakes(p) \/ LogWrite(p) \/ EndOp(p)
      PROVE  IInv'
  BY <1>1, BeginOpStep, BeginSleepStep, KillWakesStep, LogWriteStep, EndOpStep
<1>2. ASSUME NEW p \in Procs, Commit(p)
      PROVE  IInv'
  BY <1>2, CommitStartStep, WriteLogStep, WriteHeadStep, InstallTransStep,
     EraseHeadStep, CommitDoneStep DEF Commit
<1>3. ASSUME NEW p \in Procs, NEW b \in Blocks, NEW v \in Val, ModifyBuf(p, b, v)
      PROVE  IInv'
  BY <1>3, ModifyBufStep
<1>4. ASSUME NEW b \in Blocks, Recycle(b)
      PROVE  IInv'
  BY <1>4, RecycleStep
<1>5. CASE Recover
  BY <1>5, ReadHeadStep, RecoverBlockStep, RecoverDoneStep DEF Recover
<1>6. CASE Crash
  BY <1>6, CrashStep
<1>7. CASE UNCHANGED vars
  BY <1>7, StutterInv
<1> QED BY <1>1, <1>2, <1>3, <1>4, <1>5, <1>6, <1>7 DEF Next

\* The inductive invariant holds in every reachable state of the log, for any
\* number of processes and blocks and any log that fits one reservation.
THEOREM Invariance == Spec => []IInv
BY InitInv, NextInv, PTL DEF Spec

\* Type correctness of the log's state.
THEOREM TypeCorrect == Spec => []TypeOK
<1>1. IInv => TypeOK
  BY DEF IInv
<1> QED BY <1>1, Invariance, PTL

\* log::write and end_op never panic, for operations that stay within the
\* reservation begin_op made for them.
THEOREM PanicFree == Spec => []NoPanic
<1>1. IInv => NoPanic
  BY DEF IInv
<1> QED BY <1>1, Invariance, PTL

\* No process sleeps on Channel::Log without an operation or a commit in
\* progress that will wake it.
THEOREM NoLostWakeup == Spec => []SleeperHasWaker
<1>1. IInv => SleeperHasWaker
  BY DEF IInv, SleepInv
<1> QED BY <1>1, Invariance, PTL

\* When the last end_op has returned, all that the operations wrote is in the
\* home blocks and the log is empty.
THEOREM Quiescence == Spec => []QuiescentIsDurable
<1>1. IInv => QuiescentIsDurable
  <2> SUFFICES ASSUME IInv, boot = "up", outstanding = 0, ~committing
               PROVE  /\ header = <<>> /\ dhead = <<>>
                      /\ \A b \in Blocks : pins[b] = 0 /\ BRead(b) = disk[b]
    BY DEF QuiescentIsDurable
  <2>1. OpenProcs = {}
    BY Zenon, FiniteCounts, FS_EmptySet DEF SpaceInv, IInv
  <2>2. header = <<>> /\ \A p \in Procs : pc[p] # "install" /\ hold[p] = NoBlock
    BY Zenon, <2>1 DEF CommitInv, Committers, CommitPcs, HoldInv, OpenProcs, IInv
  <2>3. dhead = <<>>
    BY <2>2 DEF DiskLogInv, IInv
  <2>4. \A b \in Blocks : ~Pinned(b)
    BY <2>2 DEF Pinned
  <2>5. \A b \in Blocks : pins[b] = 0 /\ ~Dirty(b)
    BY <2>2, <2>4, LogAssumption DEF CacheInv, IInv
  <2> QED BY <2>2, <2>3, <2>5 DEF BRead, Dirty
<1> QED BY <1>1, Invariance, PTL

\* Crash atomicity for every instance: the log implements the transactional
\* disk, so after any crash the disk is the image of a commit point.
THEOREM CrashAtomicity == Spec => ImplementsTxnDisk
<1>1. Init => Txn!Init
  <2> SUFFICES ASSUME Init PROVE Txn!Init
    OBVIOUS
  <2>1. Durable = disk /\ Volatile = Durable /\ OpenProcs = {}
    BY DEF Init, Durable, Volatile, LoggedBlocks, OpenProcs
  <2> QED BY <2>1 DEF Init, Txn!Init
<1>2. IInv /\ IInv' /\ [Next]_vars => [Txn!Next]_Txn!vars
  <2> SUFFICES ASSUME IInv, IInv', [Next]_vars PROVE [Txn!Next]_Txn!vars
    OBVIOUS
  <2>1. CASE UNCHANGED vars
    BY <2>1 DEF vars, diskVars, memVars, procVars, bootVars, Txn!vars,
       Durable, Volatile, BRead, OpenProcs
  <2> QED BY <2>1, MemorySteps, CommitSteps, BootSteps DEF Next, Commit
<1> QED BY <1>1, <1>2, Invariance, PTL DEF Spec, ImplementsTxnDisk, Txn!Spec
=============================================================================
