----------------------------- MODULE ProcProofs -----------------------------
(***************************************************************************)
(* Proofs about Proc: for every number of slots and any set of CPUs, no    *)
(* kernel stack is used twice, nobody is orphaned, no wakeup between exit  *)
(* and wait is lost, a killed process sleeps only by the known race, and   *)
(* wait frees only what it may.                                            *)
(*                                                                         *)
(* The invariant Inv has one part for each protocol: the hand-over of a    *)
(* process's lock (StackInv), where a process can be in each state (PcInv),*)
(* the slot a fork owns (ForkInv), parents and children (FamilyInv), who   *)
(* holds PROC_TABLE.parents (LockInv), the wakeup of a waiting parent      *)
(* (WaitInv) and the tests of killed (KillInv).                            *)
(***************************************************************************)
EXTENDS Proc, TLAPS

\* Where a process holds PROC_TABLE.parents; "zombie" is one of them until the
\* state is Zombie.
Held == {"wake_init", "wake_parent", "wait_scan", "wait_sleep"}

\* Where exit has given the children away.
Leaves == {"wake_init", "wake_parent", "zombie"}

Forks == {"fork_parent", "fork_run"}

\* OneStack, and that a lock of a process is held over steps only while a CPU
\* is on its stack.
StackInv ==
  /\ OneStack
  /\ \A p \in Slots : ilock[p] => OnCpu(p)

\* What a state says of where the process is in the kernel.
PcInv ==
  \A p \in Slots :
    /\ state[p] = "Zombie" => pc[p] = "zombie"
    /\ state[p] \in {"Unused", "Used"} => pc[p] = "user"
    /\ child[p] # None <=> pc[p] \in Forks
    /\ pc[p] # "wait_scan" => scan[p] = 0

\* The slot of an unfinished fork is in use and belongs to that fork alone.
ForkInv ==
  /\ \A p \in Slots : child[p] # None => state[child[p]] = "Used"
  /\ \A p, q \in Slots : child[p] = child[q] /\ child[p] # None => p = q

\* Init never exits; who is not alive, or has given its children away in exit,
\* is nobody's parent.
FamilyInv ==
  /\ Alive(InitProc) /\ pc[InitProc] \notin Leaves
  /\ ParentAlive
  /\ \A p, q \in Slots : ~Alive(p) \/ pc[p] \in Leaves => parents[q] # p
  /\ \A p \in Slots : pc[p] = "fork_run" => parents[child[p]] = p

LockInv ==
  \A p \in Slots :
    pc[p] \in Held \/ (pc[p] = "zombie" /\ state[p] # "Zombie") => plock = p

AsleepInWait(p) == state[p] = "Sleeping" /\ channel[p] = p
ZombieChild(p, q) == parents[q] = p /\ state[q] = "Zombie"

\* What wait has scanned holds no zombie child; a zombie child of a sleeper was
\* given to init by an exit that is about to wake it; and a parent is awake
\* from exit's wakeup until its child is a zombie.
WaitInv ==
  \A p, q \in Slots :
    /\ pc[p] = "wait_scan" /\ q < scan[p] => ~ZombieChild(p, q)
    /\ pc[p] = "wait_sleep" => ~ZombieChild(p, q)
    /\ AsleepInWait(p) /\ ZombieChild(p, q) =>
         p = InitProc /\ plock # None /\ pc[plock] = "wake_init"
    /\ pc[q] = "zombie" /\ state[q] # "Zombie" /\ parents[q] = p => ~AsleepInWait(p)

\* A killed process past its last test of killed was killed after that test.
KillInv ==
  \A p \in Slots :
    killed[p] /\ (state[p] = "Sleeping" \/ pc[p] \in {"wait_sleep", "sleep_ticks"})
      => p \in raced

\* The inductive invariant of the process table.
Inv ==
  /\ TypeOK /\ StackInv /\ PcInv /\ ForkInv
  /\ FamilyInv /\ LockInv /\ WaitInv /\ KillInv

-----------------------------------------------------------------------------
(* Facts about slots.                                                      *)

\* Init has a slot, and no slot is mistaken for None or for Ticks.
LEMMA SlotFacts ==
  InitProc \in Slots /\ None \notin Slots /\ Ticks \notin Slots /\ Ticks # None
BY ProcAssumption DEF Slots, InitProc

\* The bounds of wait's loop over the slots.
LEMMA ScanFacts ==
  /\ \A q \in Slots : q \in Int /\ 0 <= q /\ q < NPROC /\ q + 1 \in 0..NPROC
  /\ \A n \in 0..NPROC : n < NPROC => n \in Slots
  /\ 0 \in 0..NPROC /\ NPROC \in Nat
BY ProcAssumption DEF Slots

-----------------------------------------------------------------------------
(* Every step keeps the invariant, part by part.                           *)

\* A step keeps the variables in their types.
LEMMA TypeStep == Inv /\ Next => TypeOK'
<1> SUFFICES ASSUME Inv, Next PROVE TypeOK'
  OBVIOUS
<1>0. raced' \subseteq Slots
  BY DEF Next
<1>1. ASSUME NEW c \in CPUs, SwitchBack(c) PROVE TypeOK'
  BY <1>0, <1>1 DEF SwitchBack, procVars, locVars, TypeOK, Inv
<1>2. ASSUME NEW c \in CPUs, NEW p \in Slots, Dispatch(c, p) PROVE TypeOK'
  BY <1>0, <1>2 DEF Dispatch, locVars, TypeOK, Inv
<1>3. ASSUME NEW p \in Slots, Resume(p) PROVE TypeOK'
  BY <1>0, <1>3 DEF Resume, ctxVars, locVars, TypeOK, Inv
<1>4. ASSUME NEW p \in Slots, Yield(p) PROVE TypeOK'
  BY <1>0, <1>4 DEF Yield, Sched, locVars, TypeOK, Inv
<1>5. ASSUME NEW p \in Slots, NEW n \in Slots, Fork(p, n) PROVE TypeOK'
  BY <1>0, <1>5 DEF Fork, Alloc, Goto, lockVars, ctxVars, TypeOK,
     FamilyInv, Alive, Inv
<1>6. ASSUME NEW p \in Slots, ForkParent(p) PROVE TypeOK'
  BY <1>0, <1>6, Zenon DEF ForkParent, Goto, lockVars, ctxVars, locVars, TypeOK, Inv
<1>7. ASSUME NEW p \in Slots, ForkRun(p) PROVE TypeOK'
  BY <1>0, <1>7, Zenon DEF ForkRun, Goto, lockVars, ctxVars, TypeOK, Inv
<1>8. ASSUME NEW p \in Slots, ForkFails(p) PROVE TypeOK'
  BY <1>0, <1>8, SlotFacts DEF ForkFails, Goto, procVars, lockVars,
     ctxVars, locVars, TypeOK, Inv
<1>9. ASSUME NEW p \in Slots, NEW q \in Slots, Kill(p, q) PROVE TypeOK'
  BY <1>0, <1>9 DEF Kill, Goto, lockVars, ctxVars, locVars, TypeOK, Inv
<1>10. ASSUME NEW p \in Slots, Trap(p) PROVE TypeOK'
  BY <1>0, <1>10, SlotFacts DEF Trap, Goto, procVars, lockVars, ctxVars,
     locVars, TypeOK, Inv
<1>11. ASSUME NEW p \in Slots, ExitReparent(p) PROVE TypeOK'
  BY <1>0, <1>11, SlotFacts DEF ExitReparent, Goto, ctxVars, locVars,
     TypeOK, Inv
<1>12. ASSUME NEW p \in Slots, ExitWakeInit(p) PROVE TypeOK'
  BY <1>0, <1>12, SlotFacts DEF ExitWakeInit, Wake, Goto, lockVars,
     ctxVars, locVars, TypeOK, Inv
<1>13. ASSUME NEW p \in Slots, ExitWakeParent(p) PROVE TypeOK'
  BY <1>0, <1>13 DEF ExitWakeParent, Wake, Goto, lockVars, ctxVars,
     locVars, TypeOK, Inv
<1>14. ASSUME NEW p \in Slots, ExitZombie(p) PROVE TypeOK'
  BY <1>0, <1>14 DEF ExitZombie, Sched, locVars, TypeOK, Inv
<1>15. ASSUME NEW p \in Slots, WaitLock(p) PROVE TypeOK'
  BY <1>0, <1>15 DEF WaitLock, Goto, procVars, ctxVars, locVars, TypeOK, Inv
<1>16. ASSUME NEW p \in Slots, WaitLook(p) PROVE TypeOK'
  <2> DEFINE q == scan[p]
  <2>1. q \in Slots
    BY <1>16, ScanFacts DEF WaitLook, TypeOK, Inv
  <2>2. CASE parents[q] = p /\ state[q] = "Zombie"
    <3>1. /\ parents' = [parents EXCEPT ![q] = None]
          /\ state' = [state EXCEPT ![q] = "Unused"]
          /\ channel' = [channel EXCEPT ![q] = None]
          /\ killed' = [killed EXCEPT ![q] = FALSE]
          /\ plock' = None
          /\ pc' = [pc EXCEPT ![p] = "user", ![q] = "user"]
          /\ scan' = [scan EXCEPT ![p] = 0]
          /\ kids' = [kids EXCEPT ![p] = FALSE]
          /\ UNCHANGED <<ilock, ctxVars, child>>
      BY <1>16, <2>2 DEF WaitLook, EndScan
    <3> QED
      BY <1>0, <2>1, <3>1, ScanFacts DEF TypeOK, ctxVars, Inv
  <2>3. CASE ~(parents[q] = p /\ state[q] = "Zombie")
    <3>1. /\ scan' = [scan EXCEPT ![p] = q + 1]
          /\ kids' = kids \/ kids' = [kids EXCEPT ![p] = TRUE]
          /\ UNCHANGED <<procVars, plock, pc, ilock, ctxVars, child>>
      BY <1>16, <2>3 DEF WaitLook
    <3>2. q + 1 \in 0..NPROC
      BY <2>1, ScanFacts
    <3> QED
      BY <1>0, <3>1, <3>2, Zenon DEF TypeOK, procVars, ctxVars, Inv
  <2> QED
    BY <2>2, <2>3
<1>17. ASSUME NEW p \in Slots, WaitNone(p) PROVE TypeOK'
  BY <1>0, <1>17 DEF WaitNone, Goto, EndScan, procVars, ctxVars, TypeOK, Inv
<1>18. ASSUME NEW p \in Slots, WaitDecide(p) PROVE TypeOK'
  BY <1>0, <1>18 DEF WaitDecide, Goto, EndScan, procVars, lockVars,
     ctxVars, TypeOK, Inv
<1>19. ASSUME NEW p \in Slots, WaitSleep(p) PROVE TypeOK'
  BY <1>0, <1>19, SlotFacts DEF WaitSleep, Sched, Goto, locVars, TypeOK, Inv
<1>20. ASSUME NEW p \in Slots, SleepTest(p) PROVE TypeOK'
  BY <1>0, <1>20 DEF SleepTest, Goto, procVars, lockVars, ctxVars, locVars,
     TypeOK, Inv
<1>21. ASSUME NEW p \in Slots, SleepTicks(p) PROVE TypeOK'
  BY <1>0, <1>21 DEF SleepTicks, Sched, Goto, locVars, TypeOK, Inv
<1>22. ASSUME NEW p \in Slots, ClockIntr(p) PROVE TypeOK'
  BY <1>0, <1>22 DEF ClockIntr, lockVars, ctxVars, locVars, TypeOK, Inv
<1> QED
  BY <1>1, <1>2, <1>3, <1>4, <1>5, <1>6, <1>7, <1>8, <1>9, <1>10, <1>11,
     <1>12, <1>13, <1>14, <1>15, <1>16, <1>17, <1>18, <1>19, <1>20, <1>21,
     <1>22 DEF Next, Step, Exit, Wait, Sleep

\* The lock handed over a context switch keeps two CPUs off one stack.
LEMMA StackStep == Inv /\ Next => StackInv'
<1> SUFFICES ASSUME Inv, Next PROVE StackInv'
  OBVIOUS
<1>1. ASSUME NEW c \in CPUs, SwitchBack(c) PROVE StackInv'
  BY <1>1, SlotFacts DEF SwitchBack, procVars, TypeOK, StackInv, OneStack,
     OnCpu, Runs, Inv
<1>2. ASSUME NEW c \in CPUs, NEW p \in Slots, Dispatch(c, p) PROVE StackInv'
  BY <1>2, SlotFacts DEF Dispatch, TypeOK, StackInv, OneStack, OnCpu, Runs, Inv
<1>3. ASSUME NEW p \in Slots, Resume(p) PROVE StackInv'
  BY <1>3 DEF Resume, ctxVars, Runs, StackInv, OneStack, OnCpu, Inv
<1>4. ASSUME NEW p \in Slots, Yield(p) PROVE StackInv'
  BY <1>4 DEF Yield, Interruptible, Runs, Sched, TypeOK, StackInv,
     OneStack, OnCpu, Inv
<1>5. ASSUME NEW p \in Slots, NEW n \in Slots, Fork(p, n) PROVE StackInv'
  BY <1>5 DEF Fork, Runs, Alloc, lockVars, ctxVars, StackInv, OneStack,
     OnCpu, Inv
<1>6. ASSUME NEW p \in Slots, ForkParent(p) PROVE StackInv'
  BY <1>6 DEF ForkParent, Runs, lockVars, ctxVars, StackInv, OneStack,
     OnCpu, Inv
<1>7. ASSUME NEW p \in Slots, ForkRun(p) PROVE StackInv'
  BY <1>7, SlotFacts DEF ForkRun, Runs, lockVars, ctxVars, StackInv,
     OneStack, OnCpu, ForkInv, Inv
<1>8. ASSUME NEW p \in Slots, ForkFails(p) PROVE StackInv'
  BY <1>8 DEF ForkFails, Runs, procVars, lockVars, ctxVars, StackInv,
     OneStack, OnCpu, Inv
<1>9. ASSUME NEW p \in Slots, NEW q \in Slots, Kill(p, q) PROVE StackInv'
  BY <1>9 DEF Kill, Runs, lockVars, ctxVars, StackInv, OneStack, OnCpu, Inv
<1>10. ASSUME NEW p \in Slots, Trap(p) PROVE StackInv'
  BY <1>10 DEF Trap, Runs, procVars, lockVars, ctxVars, StackInv, OneStack,
     OnCpu, Inv
<1>11. ASSUME NEW p \in Slots, ExitReparent(p) PROVE StackInv'
  BY <1>11 DEF ExitReparent, Runs, ctxVars, StackInv, OneStack, OnCpu, Inv
<1>12. ASSUME NEW p \in Slots, ExitWakeInit(p) PROVE StackInv'
  BY <1>12 DEF ExitWakeInit, Runs, Wake, lockVars, ctxVars, StackInv,
     OneStack, OnCpu, Inv
<1>13. ASSUME NEW p \in Slots, ExitWakeParent(p) PROVE StackInv'
  BY <1>13 DEF ExitWakeParent, Runs, Wake, lockVars, ctxVars, StackInv,
     OneStack, OnCpu, Inv
<1>14. ASSUME NEW p \in Slots, ExitZombie(p) PROVE StackInv'
  BY <1>14 DEF ExitZombie, Executes, Runs, Sched, TypeOK, StackInv,
     OneStack, OnCpu, Inv
<1>15. ASSUME NEW p \in Slots, WaitLock(p) PROVE StackInv'
  BY <1>15 DEF WaitLock, Runs, procVars, ctxVars, StackInv, OneStack, OnCpu, Inv
<1>16. ASSUME NEW p \in Slots, WaitLook(p) PROVE StackInv'
  BY <1>16 DEF WaitLook, Runs, procVars, ctxVars, TypeOK, StackInv,
     OneStack, OnCpu, Inv
<1>17. ASSUME NEW p \in Slots, WaitNone(p) PROVE StackInv'
  BY <1>17 DEF WaitNone, Runs, procVars, ctxVars, StackInv, OneStack, OnCpu, Inv
<1>18. ASSUME NEW p \in Slots, WaitDecide(p) PROVE StackInv'
  BY <1>18 DEF WaitDecide, Runs, procVars, lockVars, ctxVars, StackInv,
     OneStack, OnCpu, Inv
<1>19. ASSUME NEW p \in Slots, WaitSleep(p) PROVE StackInv'
  BY <1>19 DEF WaitSleep, Executes, Runs, Sched, TypeOK, StackInv,
     OneStack, OnCpu, Inv
<1>20. ASSUME NEW p \in Slots, SleepTest(p) PROVE StackInv'
  BY <1>20 DEF SleepTest, Runs, procVars, lockVars, ctxVars, StackInv,
     OneStack, OnCpu, Inv
<1>21. ASSUME NEW p \in Slots, SleepTicks(p) PROVE StackInv'
  BY <1>21 DEF SleepTicks, Executes, Runs, Sched, TypeOK, StackInv,
     OneStack, OnCpu, Inv
<1>22. ASSUME NEW p \in Slots, ClockIntr(p) PROVE StackInv'
  BY <1>22 DEF ClockIntr, lockVars, ctxVars, StackInv, OneStack, OnCpu,
     Runs, Inv
<1> QED
  BY <1>1, <1>2, <1>3, <1>4, <1>5, <1>6, <1>7, <1>8, <1>9, <1>10, <1>11,
     <1>12, <1>13, <1>14, <1>15, <1>16, <1>17, <1>18, <1>19, <1>20, <1>21,
     <1>22 DEF Next, Step, Exit, Wait, Sleep

\* A step keeps states and places in the kernel in agreement.
LEMMA PcStep == Inv /\ Next => PcInv'
<1> SUFFICES ASSUME Inv, Next PROVE PcInv'
  OBVIOUS
<1>1. ASSUME NEW c \in CPUs, SwitchBack(c) PROVE PcInv'
  BY <1>1 DEF SwitchBack, procVars, locVars, PcInv, Inv
<1>2. ASSUME NEW c \in CPUs, NEW p \in Slots, Dispatch(c, p) PROVE PcInv'
  BY <1>2 DEF Dispatch, locVars, PcInv, Inv
<1>3. ASSUME NEW p \in Slots, Resume(p) PROVE PcInv'
  BY <1>3 DEF Resume, locVars, PcInv, Inv
<1>4. ASSUME NEW p \in Slots, Yield(p) PROVE PcInv'
  BY <1>4 DEF Yield, Sched, locVars, PcInv, Inv
<1>5. ASSUME NEW p \in Slots, NEW n \in Slots, Fork(p, n) PROVE PcInv'
  BY <1>5, SlotFacts DEF Fork, Executes, Alloc, Goto, TypeOK, PcInv, Forks, Inv
<1>6. ASSUME NEW p \in Slots, ForkParent(p) PROVE PcInv'
  BY <1>6 DEF ForkParent, Executes, Goto, locVars, PcInv, Forks, Inv
<1>7. ASSUME NEW p \in Slots, ForkRun(p) PROVE PcInv'
  BY <1>7 DEF ForkRun, Executes, Goto, TypeOK, PcInv, Forks, Inv
<1>8. ASSUME NEW p \in Slots, ForkFails(p) PROVE PcInv'
  BY <1>8 DEF ForkFails, Executes, Goto, procVars, locVars, PcInv, Forks, Inv
<1>9. ASSUME NEW p \in Slots, NEW q \in Slots, Kill(p, q) PROVE PcInv'
  BY <1>9 DEF Kill, Executes, Goto, locVars, PcInv, Forks, Inv
<1>10. ASSUME NEW p \in Slots, Trap(p) PROVE PcInv'
  BY <1>10 DEF Trap, Executes, Goto, procVars, locVars, StackInv, OneStack,
     PcInv, Forks, Inv
<1>11. ASSUME NEW p \in Slots, ExitReparent(p) PROVE PcInv'
  BY <1>11 DEF ExitReparent, Executes, Goto, locVars, PcInv, Forks, Inv
<1>12. ASSUME NEW p \in Slots, ExitWakeInit(p) PROVE PcInv'
  BY <1>12 DEF ExitWakeInit, Executes, Wake, Goto, locVars, PcInv, Forks, Inv
<1>13. ASSUME NEW p \in Slots, ExitWakeParent(p) PROVE PcInv'
  BY <1>13 DEF ExitWakeParent, Executes, Wake, Goto, locVars, PcInv, Forks, Inv
<1>14. ASSUME NEW p \in Slots, ExitZombie(p) PROVE PcInv'
  BY <1>14 DEF ExitZombie, Executes, Sched, locVars, PcInv, Inv
<1>15. ASSUME NEW p \in Slots, WaitLock(p) PROVE PcInv'
  BY <1>15 DEF WaitLock, Executes, Goto, procVars, locVars, PcInv, Forks, Inv
<1>16. ASSUME NEW p \in Slots, WaitLook(p) PROVE PcInv'
  BY <1>16 DEF WaitLook, Executes, EndScan, procVars, TypeOK, PcInv, Forks, Inv
<1>17. ASSUME NEW p \in Slots, WaitNone(p) PROVE PcInv'
  BY ScanFacts, <1>17 DEF WaitNone, Goto, EndScan, procVars, TypeOK, PcInv,
     Forks, Inv
<1>18. ASSUME NEW p \in Slots, WaitDecide(p) PROVE PcInv'
  BY ScanFacts, <1>18 DEF WaitDecide, Goto, EndScan, procVars, TypeOK,
     PcInv, Forks, Inv
<1>19. ASSUME NEW p \in Slots, WaitSleep(p) PROVE PcInv'
  BY <1>19 DEF WaitSleep, Executes, Sched, Goto, locVars, PcInv, Forks, Inv
<1>20. ASSUME NEW p \in Slots, SleepTest(p) PROVE PcInv'
  BY <1>20 DEF SleepTest, Executes, Goto, procVars, locVars, TypeOK, PcInv,
     Forks, Inv
<1>21. ASSUME NEW p \in Slots, SleepTicks(p) PROVE PcInv'
  BY <1>21 DEF SleepTicks, Executes, Sched, Goto, locVars, PcInv, Forks, Inv
<1>22. ASSUME NEW p \in Slots, ClockIntr(p) PROVE PcInv'
  BY <1>22 DEF ClockIntr, locVars, PcInv, Inv
<1> QED
  BY <1>1, <1>2, <1>3, <1>4, <1>5, <1>6, <1>7, <1>8, <1>9, <1>10, <1>11,
     <1>12, <1>13, <1>14, <1>15, <1>16, <1>17, <1>18, <1>19, <1>20, <1>21,
     <1>22 DEF Next, Step, Exit, Wait, Sleep

\* A step keeps the slots of unfinished forks apart.
LEMMA ForkStep == Inv /\ Next => ForkInv'
<1> SUFFICES ASSUME Inv, Next PROVE ForkInv'
  OBVIOUS
<1>1. ASSUME NEW c \in CPUs, SwitchBack(c) PROVE ForkInv'
  BY <1>1 DEF SwitchBack, procVars, locVars, ForkInv, Inv
<1>2. ASSUME NEW c \in CPUs, NEW p \in Slots, Dispatch(c, p) PROVE ForkInv'
  BY <1>2 DEF Dispatch, locVars, ForkInv, Inv
<1>3. ASSUME NEW p \in Slots, Resume(p) PROVE ForkInv'
  BY <1>3 DEF Resume, locVars, ForkInv, Inv
<1>4. ASSUME NEW p \in Slots, Yield(p) PROVE ForkInv'
  BY <1>4 DEF Yield, Interruptible, Sched, locVars, StackInv, OneStack,
     ForkInv, Inv
<1>5. ASSUME NEW p \in Slots, NEW n \in Slots, Fork(p, n) PROVE ForkInv'
  BY <1>5 DEF Fork, Alloc, TypeOK, ForkInv, Inv
<1>6. ASSUME NEW p \in Slots, ForkParent(p) PROVE ForkInv'
  BY <1>6 DEF ForkParent, locVars, ForkInv, Inv
<1>7. ASSUME NEW p \in Slots, ForkRun(p) PROVE ForkInv'
  BY <1>7 DEF ForkRun, TypeOK, ForkInv, Inv
<1>8. ASSUME NEW p \in Slots, ForkFails(p) PROVE ForkInv'
  BY <1>8 DEF ForkFails, procVars, locVars, ForkInv, Inv
<1>9. ASSUME NEW p \in Slots, NEW q \in Slots, Kill(p, q) PROVE ForkInv'
  BY <1>9 DEF Kill, locVars, ForkInv, Inv
<1>10. ASSUME NEW p \in Slots, Trap(p) PROVE ForkInv'
  BY <1>10 DEF Trap, procVars, locVars, ForkInv, Inv
<1>11. ASSUME NEW p \in Slots, ExitReparent(p) PROVE ForkInv'
  BY <1>11 DEF ExitReparent, locVars, ForkInv, Inv
<1>12. ASSUME NEW p \in Slots, ExitWakeInit(p) PROVE ForkInv'
  BY <1>12 DEF ExitWakeInit, Wake, locVars, ForkInv, Inv
<1>13. ASSUME NEW p \in Slots, ExitWakeParent(p) PROVE ForkInv'
  BY <1>13 DEF ExitWakeParent, Wake, locVars, ForkInv, Inv
<1>14. ASSUME NEW p \in Slots, ExitZombie(p) PROVE ForkInv'
  BY <1>14 DEF ExitZombie, Executes, Sched, locVars, PcInv, ForkInv, Inv
<1>15. ASSUME NEW p \in Slots, WaitLock(p) PROVE ForkInv'
  BY <1>15 DEF WaitLock, procVars, locVars, ForkInv, Inv
<1>16. ASSUME NEW p \in Slots, WaitLook(p) PROVE ForkInv'
  BY <1>16 DEF WaitLook, procVars, TypeOK, ForkInv, Inv
<1>17. ASSUME NEW p \in Slots, WaitNone(p) PROVE ForkInv'
  BY <1>17 DEF WaitNone, procVars, ForkInv, Inv
<1>18. ASSUME NEW p \in Slots, WaitDecide(p) PROVE ForkInv'
  BY <1>18 DEF WaitDecide, procVars, ForkInv, Inv
<1>19. ASSUME NEW p \in Slots, WaitSleep(p) PROVE ForkInv'
  BY <1>19 DEF WaitSleep, Executes, Sched, locVars, PcInv, ForkInv, Inv
<1>20. ASSUME NEW p \in Slots, SleepTest(p) PROVE ForkInv'
  BY <1>20 DEF SleepTest, procVars, locVars, ForkInv, Inv
<1>21. ASSUME NEW p \in Slots, SleepTicks(p) PROVE ForkInv'
  BY <1>21 DEF SleepTicks, Executes, Sched, locVars, PcInv, ForkInv, Inv
<1>22. ASSUME NEW p \in Slots, ClockIntr(p) PROVE ForkInv'
  BY <1>22 DEF ClockIntr, locVars, ForkInv, Inv
<1> QED
  BY <1>1, <1>2, <1>3, <1>4, <1>5, <1>6, <1>7, <1>8, <1>9, <1>10, <1>11,
     <1>12, <1>13, <1>14, <1>15, <1>16, <1>17, <1>18, <1>19, <1>20, <1>21,
     <1>22 DEF Next, Step, Exit, Wait, Sleep

\* A step leaves nobody with a parent that cannot wait for it.
LEMMA FamilyStep == Inv /\ Next => FamilyInv'
<1> SUFFICES ASSUME Inv, Next PROVE FamilyInv'
  OBVIOUS
<1>1. ASSUME NEW c \in CPUs, SwitchBack(c) PROVE FamilyInv'
  BY <1>1 DEF SwitchBack, procVars, locVars, FamilyInv, ParentAlive, Alive, Inv
<1>2. ASSUME NEW c \in CPUs, NEW p \in Slots, Dispatch(c, p) PROVE FamilyInv'
  BY <1>2 DEF Dispatch, locVars, FamilyInv, ParentAlive, Alive, Inv
<1>3. ASSUME NEW p \in Slots, Resume(p) PROVE FamilyInv'
  BY <1>3 DEF Resume, locVars, FamilyInv, ParentAlive, Alive, Inv
<1>4. ASSUME NEW p \in Slots, Yield(p) PROVE FamilyInv'
  BY <1>4 DEF Yield, Interruptible, Sched, locVars, StackInv, OneStack,
     FamilyInv, ParentAlive, Alive, Inv
<1>5. ASSUME NEW p \in Slots, NEW n \in Slots, Fork(p, n) PROVE FamilyInv'
  BY <1>5 DEF Fork, Executes, Alloc, Goto, FamilyInv, ParentAlive, Alive,
     Leaves, Inv
<1>6. ASSUME NEW p \in Slots, ForkParent(p) PROVE FamilyInv'
  BY <1>6 DEF ForkParent, Executes, Goto, locVars, TypeOK, PcInv, ForkInv,
     FamilyInv, ParentAlive, Alive, Forks, Leaves, Inv
<1>7. ASSUME NEW p \in Slots, ForkRun(p) PROVE FamilyInv'
  BY <1>7, SlotFacts DEF ForkRun, Executes, Goto, TypeOK, FamilyInv,
     ParentAlive, Alive, Leaves, Inv
<1>8. ASSUME NEW p \in Slots, ForkFails(p) PROVE FamilyInv'
  <2>1. UNCHANGED <<state, parents, child>> /\ pc' = [pc EXCEPT ![p] = "user"]
    BY <1>8 DEF ForkFails, Goto, procVars, locVars
  <2> QED
    BY <2>1 DEF FamilyInv, ParentAlive, Alive, Leaves, TypeOK, Inv
<1>9. ASSUME NEW p \in Slots, NEW q \in Slots, Kill(p, q) PROVE FamilyInv'
  BY <1>9 DEF Kill, Goto, locVars, FamilyInv, ParentAlive, Alive, Leaves, Inv
<1>10. ASSUME NEW p \in Slots, Trap(p) PROVE FamilyInv'
  BY <1>10 DEF Trap, Goto, procVars, locVars, FamilyInv, ParentAlive,
     Alive, Leaves, Inv
<1>11. ASSUME NEW p \in Slots, ExitReparent(p) PROVE FamilyInv'
  BY <1>11, SlotFacts DEF ExitReparent, Goto, locVars, TypeOK, PcInv,
     FamilyInv, ParentAlive, Alive, Forks, Inv
<1>12. ASSUME NEW p \in Slots, ExitWakeInit(p) PROVE FamilyInv'
  BY <1>12 DEF ExitWakeInit, Executes, Wake, Goto, locVars, FamilyInv,
     ParentAlive, Alive, Leaves, Inv
<1>13. ASSUME NEW p \in Slots, ExitWakeParent(p) PROVE FamilyInv'
  BY <1>13 DEF ExitWakeParent, Executes, Wake, Goto, locVars, FamilyInv,
     ParentAlive, Alive, Leaves, Inv
<1>14. ASSUME NEW p \in Slots, ExitZombie(p) PROVE FamilyInv'
  BY <1>14 DEF ExitZombie, Executes, Sched, locVars, PcInv, FamilyInv,
     ParentAlive, Alive, Leaves, Inv
<1>15. ASSUME NEW p \in Slots, WaitLock(p) PROVE FamilyInv'
  BY <1>15 DEF WaitLock, Goto, procVars, locVars, FamilyInv, ParentAlive,
     Alive, Leaves, Inv
<1>16. ASSUME NEW p \in Slots, WaitLook(p) PROVE FamilyInv'
  <2> DEFINE q == scan[p]
  <2>1. q \in Slots
    BY <1>16, ScanFacts DEF WaitLook, TypeOK, Inv
  <2>2. CASE parents[q] = p /\ state[q] = "Zombie"
    <3>1. /\ state' = [state EXCEPT ![q] = "Unused"]
          /\ parents' = [parents EXCEPT ![q] = None]
          /\ pc' = [pc EXCEPT ![p] = "user", ![q] = "user"]
          /\ child' = child
      BY <1>16, <2>2 DEF WaitLook
    <3>2. p # q /\ q # InitProc /\ pc[q] = "zombie"
      BY <1>16, <2>1, <2>2 DEF WaitLook, Executes, FamilyInv, Alive, PcInv, Inv
    <3>3. \A x \in Slots : x # q => (Alive(x)' <=> Alive(x)) /\ parents'[x] = parents[x]
      BY <2>1, <3>1 DEF Alive, TypeOK, Inv
    <3>4. \A x \in Slots : parents[x] # q
      BY <2>1, <2>2 DEF FamilyInv, Alive, Inv
    <3>5. \A x \in Slots : x # q /\ pc'[x] \in Leaves => pc[x] \in Leaves
      BY <3>1 DEF TypeOK, Leaves, Inv
    <3>6. Alive(InitProc)' /\ (pc[InitProc] \notin Leaves)'
      BY <3>2, <3>3, <3>5, SlotFacts DEF FamilyInv, Inv
    <3>7. ParentAlive'
      <4>1. SUFFICES ASSUME NEW x \in Slots, x # InitProc, state'[x] \notin {"Unused", "Used"}
                     PROVE  parents'[x] # None /\ Alive(parents[x])'
        BY DEF ParentAlive
      <4>2. x # q /\ state'[x] = state[x]
        BY <2>1, <3>1, <4>1 DEF TypeOK, Inv
      <4>3. parents[x] \in Slots /\ parents[x] # None /\ Alive(parents[x])
        BY <4>1, <4>2 DEF ParentAlive, FamilyInv, TypeOK, Inv
      <4> QED
        BY <3>3, <3>4, <4>2, <4>3 DEF Alive
    <3>8. \A x, y \in Slots : ~Alive(x)' \/ pc'[x] \in Leaves => parents'[y] # x
      BY <2>1, <3>1, <3>3, <3>4, <3>5, SlotFacts DEF FamilyInv, TypeOK, Inv
    <3>9. \A x \in Slots : pc'[x] = "fork_run" => parents'[child'[x]] = x
      BY <2>1, <2>2, <3>1 DEF FamilyInv, ForkInv, PcInv, Forks, TypeOK, Inv
    <3> QED
      BY <3>6, <3>7, <3>8, <3>9 DEF FamilyInv
  <2>3. CASE ~(parents[q] = p /\ state[q] = "Zombie")
    BY <1>16, <2>3 DEF WaitLook, procVars, FamilyInv, ParentAlive, Alive, Inv
  <2> QED
    BY <2>2, <2>3
<1>17. ASSUME NEW p \in Slots, WaitNone(p) PROVE FamilyInv'
  BY <1>17 DEF WaitNone, Goto, procVars, FamilyInv, ParentAlive, Alive,
     Leaves, Inv
<1>18. ASSUME NEW p \in Slots, WaitDecide(p) PROVE FamilyInv'
  BY <1>18 DEF WaitDecide, Goto, procVars, FamilyInv, ParentAlive, Alive,
     Leaves, Inv
<1>19. ASSUME NEW p \in Slots, WaitSleep(p) PROVE FamilyInv'
  BY <1>19 DEF WaitSleep, Executes, Sched, Goto, locVars, PcInv, FamilyInv,
     ParentAlive, Alive, Leaves, Inv
<1>20. ASSUME NEW p \in Slots, SleepTest(p) PROVE FamilyInv'
  BY <1>20, SlotFacts DEF SleepTest, Goto, procVars, locVars, TypeOK,
     FamilyInv, ParentAlive, Alive, Leaves, Inv
<1>21. ASSUME NEW p \in Slots, SleepTicks(p) PROVE FamilyInv'
  BY <1>21 DEF SleepTicks, Executes, Runs, Sched, Goto, locVars, PcInv,
     FamilyInv, ParentAlive, Alive, Leaves, Inv
<1>22. ASSUME NEW p \in Slots, ClockIntr(p) PROVE FamilyInv'
  BY <1>22 DEF ClockIntr, locVars, FamilyInv, ParentAlive, Alive, Inv
<1> QED
  BY <1>1, <1>2, <1>3, <1>4, <1>5, <1>6, <1>7, <1>8, <1>9, <1>10, <1>11,
     <1>12, <1>13, <1>14, <1>15, <1>16, <1>17, <1>18, <1>19, <1>20, <1>21,
     <1>22 DEF Next, Step, Exit, Wait, Sleep

\* A step keeps PROC_TABLE.parents with one process.
LEMMA LockStep == Inv /\ Next => LockInv'
<1> SUFFICES ASSUME Inv, Next PROVE LockInv'
  OBVIOUS
<1>1. ASSUME NEW c \in CPUs, SwitchBack(c) PROVE LockInv'
  BY <1>1 DEF SwitchBack, procVars, LockInv, Inv
<1>2. ASSUME NEW c \in CPUs, NEW p \in Slots, Dispatch(c, p) PROVE LockInv'
  BY <1>2 DEF Dispatch, LockInv, Inv
<1>3. ASSUME NEW p \in Slots, Resume(p) PROVE LockInv'
  BY <1>3 DEF Resume, LockInv, Inv
<1>4. ASSUME NEW p \in Slots, Yield(p) PROVE LockInv'
  BY <1>4 DEF Yield, Interruptible, Sched, StackInv, OneStack, LockInv, Inv
<1>5. ASSUME NEW p \in Slots, NEW n \in Slots, Fork(p, n) PROVE LockInv'
  BY <1>5 DEF Fork, Alloc, Goto, lockVars, LockInv, Held, Inv
<1>6. ASSUME NEW p \in Slots, ForkParent(p) PROVE LockInv'
  BY <1>6, SlotFacts DEF ForkParent, Goto, LockInv, Held, Inv
<1>7. ASSUME NEW p \in Slots, ForkRun(p) PROVE LockInv'
  BY <1>7, SlotFacts DEF ForkRun, Goto, lockVars, LockInv, Held, ForkInv, Inv
<1>8. ASSUME NEW p \in Slots, ForkFails(p) PROVE LockInv'
  BY <1>8 DEF ForkFails, Goto, procVars, lockVars, LockInv, Held, Inv
<1>9. ASSUME NEW p \in Slots, NEW q \in Slots, Kill(p, q) PROVE LockInv'
  BY <1>9 DEF Kill, Goto, lockVars, LockInv, Held, Inv
<1>10. ASSUME NEW p \in Slots, Trap(p) PROVE LockInv'
  BY <1>10 DEF Trap, Goto, procVars, lockVars, LockInv, Held, Inv
<1>11. ASSUME NEW p \in Slots, ExitReparent(p) PROVE LockInv'
  BY <1>11, SlotFacts DEF ExitReparent, Goto, LockInv, Inv
<1>12. ASSUME NEW p \in Slots, ExitWakeInit(p) PROVE LockInv'
  BY <1>12 DEF ExitWakeInit, Executes, Wake, Goto, lockVars, LockInv, Held, Inv
<1>13. ASSUME NEW p \in Slots, ExitWakeParent(p) PROVE LockInv'
  BY <1>13 DEF ExitWakeParent, Executes, Wake, Goto, lockVars, LockInv,
     Held, Inv
<1>14. ASSUME NEW p \in Slots, ExitZombie(p) PROVE LockInv'
  BY <1>14 DEF ExitZombie, Executes, Sched, TypeOK, StackInv, OneStack,
     LockInv, Held, Inv
<1>15. ASSUME NEW p \in Slots, WaitLock(p) PROVE LockInv'
  BY <1>15, SlotFacts DEF WaitLock, Goto, procVars, LockInv, Inv
<1>16. ASSUME NEW p \in Slots, WaitLook(p) PROVE LockInv'
  BY <1>16 DEF WaitLook, Executes, procVars, TypeOK, LockInv, Held, Inv
<1>17. ASSUME NEW p \in Slots, WaitNone(p) PROVE LockInv'
  BY <1>17 DEF WaitNone, Executes, Goto, procVars, TypeOK, LockInv, Held, Inv
<1>18. ASSUME NEW p \in Slots, WaitDecide(p) PROVE LockInv'
  BY <1>18 DEF WaitDecide, Executes, Goto, procVars, lockVars, LockInv,
     Held, Inv
<1>19. ASSUME NEW p \in Slots, WaitSleep(p) PROVE LockInv'
  BY <1>19 DEF WaitSleep, Executes, Sched, Goto, TypeOK, LockInv, Held, Inv
<1>20. ASSUME NEW p \in Slots, SleepTest(p) PROVE LockInv'
  BY <1>20 DEF SleepTest, Goto, procVars, lockVars, TypeOK, LockInv, Held, Inv
<1>21. ASSUME NEW p \in Slots, SleepTicks(p) PROVE LockInv'
  BY <1>21 DEF SleepTicks, Executes, Sched, Goto, LockInv, Held, Inv
<1>22. ASSUME NEW p \in Slots, ClockIntr(p) PROVE LockInv'
  BY <1>22 DEF ClockIntr, lockVars, LockInv, Inv
<1> QED
  BY <1>1, <1>2, <1>3, <1>4, <1>5, <1>6, <1>7, <1>8, <1>9, <1>10, <1>11,
     <1>12, <1>13, <1>14, <1>15, <1>16, <1>17, <1>18, <1>19, <1>20, <1>21,
     <1>22 DEF Next, Step, Exit, Wait, Sleep

\* A step loses no wakeup between exit and wait.
LEMMA WaitStep == Inv /\ Next => WaitInv'
<1> SUFFICES ASSUME Inv, Next PROVE WaitInv'
  OBVIOUS
<1>1. ASSUME NEW c \in CPUs, SwitchBack(c) PROVE WaitInv'
  BY <1>1 DEF SwitchBack, procVars, locVars, WaitInv, AsleepInWait,
     ZombieChild, Inv
<1>2. ASSUME NEW c \in CPUs, NEW p \in Slots, Dispatch(c, p) PROVE WaitInv'
  BY <1>2 DEF Dispatch, locVars, WaitInv, AsleepInWait, ZombieChild, Inv
<1>3. ASSUME NEW p \in Slots, Resume(p) PROVE WaitInv'
  BY <1>3, SlotFacts DEF Resume, locVars, WaitInv, AsleepInWait,
     ZombieChild, Inv
<1>4. ASSUME NEW p \in Slots, Yield(p) PROVE WaitInv'
  BY <1>4 DEF Yield, Interruptible, Sched, locVars, StackInv, OneStack,
     WaitInv, AsleepInWait, ZombieChild, Inv
<1>5. ASSUME NEW p \in Slots, NEW n \in Slots, Fork(p, n) PROVE WaitInv'
  BY <1>5 DEF Fork, Executes, Alloc, Goto, lockVars, WaitInv, AsleepInWait,
     ZombieChild, Inv
<1>6. ASSUME NEW p \in Slots, ForkParent(p) PROVE WaitInv'
  BY <1>6, SlotFacts DEF ForkParent, Executes, Goto, StackInv, OneStack,
     LockInv, WaitInv, AsleepInWait, ZombieChild, Held, Inv
<1>7. ASSUME NEW p \in Slots, ForkRun(p) PROVE WaitInv'
  BY <1>7, SlotFacts DEF ForkRun, Executes, Goto, lockVars, WaitInv,
     AsleepInWait, ZombieChild, ForkInv, Inv
<1>8. ASSUME NEW p \in Slots, ForkFails(p) PROVE WaitInv'
  BY <1>8 DEF ForkFails, Executes, Goto, procVars, lockVars, locVars,
     WaitInv, AsleepInWait, ZombieChild, Inv
<1>9. ASSUME NEW p \in Slots, NEW q \in Slots, Kill(p, q) PROVE WaitInv'
  BY <1>9 DEF Kill, Executes, Goto, lockVars, locVars, WaitInv,
     AsleepInWait, ZombieChild, Inv
<1>10. ASSUME NEW p \in Slots, Trap(p) PROVE WaitInv'
  BY <1>10 DEF Trap, Executes, Goto, procVars, lockVars, locVars, WaitInv,
     AsleepInWait, ZombieChild, Inv
<1>11. ASSUME NEW p \in Slots, ExitReparent(p) PROVE WaitInv'
  BY <1>11, SlotFacts DEF ExitReparent, Goto, TypeOK, LockInv, WaitInv,
     AsleepInWait, ZombieChild, Held, Inv
<1>12. ASSUME NEW p \in Slots, ExitWakeInit(p) PROVE WaitInv'
  BY <1>12 DEF ExitWakeInit, Wake, Goto, locVars, TypeOK, WaitInv,
     AsleepInWait, ZombieChild, Inv
<1>13. ASSUME NEW p \in Slots, ExitWakeParent(p) PROVE WaitInv'
  BY <1>13 DEF ExitWakeParent, Executes, Wake, Goto, TypeOK, LockInv,
     WaitInv, AsleepInWait, ZombieChild, Held, Inv
<1>14. ASSUME NEW p \in Slots, ExitZombie(p) PROVE WaitInv'
  BY <1>14 DEF ExitZombie, Executes, Sched, StackInv, OneStack, LockInv,
     WaitInv, AsleepInWait, ZombieChild, Held, Inv
<1>15. ASSUME NEW p \in Slots, WaitLock(p) PROVE WaitInv'
  BY ScanFacts, <1>15 DEF WaitLock, Goto, procVars, locVars, PcInv,
     WaitInv, AsleepInWait, ZombieChild, Inv
<1>16. ASSUME NEW p \in Slots, WaitLook(p) PROVE WaitInv'
  <2> DEFINE q == scan[p]
  <2>1. q \in Slots
    BY <1>16, ScanFacts DEF WaitLook, TypeOK, Inv
  <2>2. CASE parents[q] = p /\ state[q] = "Zombie"
    <3>1. /\ state' = [state EXCEPT ![q] = "Unused"]
          /\ channel' = [channel EXCEPT ![q] = None]
          /\ parents' = [parents EXCEPT ![q] = None]
          /\ pc' = [pc EXCEPT ![p] = "user", ![q] = "user"]
      BY <1>16, <2>2 DEF WaitLook
    <3>2. pc[p] = "wait_scan" /\ plock = p
      BY <1>16 DEF WaitLook, Executes, LockInv, Held, Inv
    <3>3. \A x \in Slots : /\ pc'[x] \notin Held
                           /\ pc'[x] = "zombie" => state'[x] = "Zombie"
      BY <2>1, <3>1, <3>2 DEF LockInv, Held, TypeOK, Inv
    <3>4. ASSUME NEW x \in Slots, NEW y \in Slots PROVE ~(AsleepInWait(x)' /\ ZombieChild(x, y)')
      BY <2>1, <3>1, <3>2 DEF WaitInv, AsleepInWait, ZombieChild, TypeOK, Inv
    <3> QED
      BY <3>3, <3>4 DEF WaitInv, Held
  <2>3. CASE ~(parents[q] = p /\ state[q] = "Zombie")
    <3>1. /\ scan' = [scan EXCEPT ![p] = q + 1]
          /\ UNCHANGED <<state, channel, parents, plock, pc>>
      BY <1>16, <2>3 DEF WaitLook, procVars
    <3>2. \A x \in Slots : x < q + 1 => x < q \/ x = q
      BY <2>1, ScanFacts
    <3> QED
      BY <2>1, <2>3, <3>1, <3>2 DEF TypeOK, WaitInv, AsleepInWait, ZombieChild, Inv
  <2> QED
    BY <2>2, <2>3
<1>17. ASSUME NEW p \in Slots, WaitNone(p) PROVE WaitInv'
  BY ScanFacts, <1>17 DEF WaitNone, Goto, procVars, PcInv, LockInv,
     WaitInv, AsleepInWait, ZombieChild, Held, Inv
<1>18. ASSUME NEW p \in Slots, WaitDecide(p) PROVE WaitInv'
  BY ScanFacts, <1>18, SlotFacts DEF WaitDecide, Goto, procVars, PcInv,
     LockInv, WaitInv, AsleepInWait, ZombieChild, Held, Inv
<1>19. ASSUME NEW p \in Slots, WaitSleep(p) PROVE WaitInv'
  BY <1>19 DEF WaitSleep, Executes, Sched, Goto, LockInv, WaitInv,
     AsleepInWait, ZombieChild, Held, Inv
<1>20. ASSUME NEW p \in Slots, SleepTest(p) PROVE WaitInv'
  BY <1>20 DEF SleepTest, Executes, Goto, procVars, lockVars, locVars,
     TypeOK, WaitInv, AsleepInWait, ZombieChild, Inv
<1>21. ASSUME NEW p \in Slots, SleepTicks(p) PROVE WaitInv'
  BY <1>21, SlotFacts DEF SleepTicks, Executes, Sched, Goto, locVars,
     TypeOK, WaitInv, AsleepInWait, ZombieChild, Inv
<1>22. ASSUME NEW p \in Slots, ClockIntr(p) PROVE WaitInv'
  BY <1>22 DEF ClockIntr, lockVars, locVars, WaitInv, AsleepInWait,
     ZombieChild, Inv
<1> QED
  BY <1>1, <1>2, <1>3, <1>4, <1>5, <1>6, <1>7, <1>8, <1>9, <1>10, <1>11,
     <1>12, <1>13, <1>14, <1>15, <1>16, <1>17, <1>18, <1>19, <1>20, <1>21,
     <1>22 DEF Next, Step, Exit, Wait, Sleep

\* A step makes a killed process sleep only if it was killed in the window
\* between its test and its sleep.
LEMMA KillStep == Inv /\ Next => KillInv'
<1> SUFFICES ASSUME Inv, Next PROVE KillInv'
  OBVIOUS
<1>1. ASSUME NEW c \in CPUs, SwitchBack(c) PROVE KillInv'
  BY <1>1 DEF SwitchBack, procVars, PcInv, KillInv, Next, Inv
<1>2. ASSUME NEW c \in CPUs, NEW p \in Slots, Dispatch(c, p) PROVE KillInv'
  BY <1>2 DEF Dispatch, PcInv, KillInv, Next, Inv
<1>3. ASSUME NEW p \in Slots, Resume(p) PROVE KillInv'
  BY <1>3 DEF Resume, PcInv, KillInv, Next, Inv
<1>4. ASSUME NEW p \in Slots, Yield(p) PROVE KillInv'
  BY <1>4 DEF Yield, Sched, PcInv, KillInv, Next, Inv
<1>5. ASSUME NEW p \in Slots, NEW n \in Slots, Fork(p, n) PROVE KillInv'
  BY <1>5 DEF Fork, Alloc, Goto, PcInv, KillInv, Next, Inv
<1>6. ASSUME NEW p \in Slots, ForkParent(p) PROVE KillInv'
  BY <1>6 DEF ForkParent, Goto, PcInv, KillInv, Next, Inv
<1>7. ASSUME NEW p \in Slots, ForkRun(p) PROVE KillInv'
  BY <1>7 DEF ForkRun, Goto, PcInv, KillInv, Next, Inv
<1>8. ASSUME NEW p \in Slots, ForkFails(p) PROVE KillInv'
  BY <1>8 DEF ForkFails, Goto, procVars, PcInv, KillInv, Next, Inv
<1>9. ASSUME NEW p \in Slots, NEW q \in Slots, Kill(p, q) PROVE KillInv'
  BY <1>9 DEF Kill, Goto, TypeOK, PcInv, KillInv, Next, InWindow, Inv
<1>10. ASSUME NEW p \in Slots, Trap(p) PROVE KillInv'
  BY <1>10 DEF Trap, Goto, procVars, PcInv, KillInv, Next, Inv
<1>11. ASSUME NEW p \in Slots, ExitReparent(p) PROVE KillInv'
  BY <1>11 DEF ExitReparent, Goto, PcInv, KillInv, Next, Inv
<1>12. ASSUME NEW p \in Slots, ExitWakeInit(p) PROVE KillInv'
  BY <1>12 DEF ExitWakeInit, Wake, Goto, PcInv, KillInv, Next, Inv
<1>13. ASSUME NEW p \in Slots, ExitWakeParent(p) PROVE KillInv'
  BY <1>13 DEF ExitWakeParent, Wake, Goto, PcInv, KillInv, Next, Inv
<1>14. ASSUME NEW p \in Slots, ExitZombie(p) PROVE KillInv'
  BY <1>14 DEF ExitZombie, Sched, PcInv, KillInv, Next, Inv
<1>15. ASSUME NEW p \in Slots, WaitLock(p) PROVE KillInv'
  BY <1>15 DEF WaitLock, Goto, procVars, PcInv, KillInv, Next, Inv
<1>16. ASSUME NEW p \in Slots, WaitLook(p) PROVE KillInv'
  <2> DEFINE q == scan[p]
  <2>1. q \in Slots
    BY <1>16, ScanFacts DEF WaitLook, TypeOK, Inv
  <2>2. CASE parents[q] = p /\ state[q] = "Zombie"
    <3>1. /\ state' = [state EXCEPT ![q] = "Unused"]
          /\ killed' = [killed EXCEPT ![q] = FALSE]
          /\ pc' = [pc EXCEPT ![p] = "user", ![q] = "user"]
      BY <1>16, <2>2 DEF WaitLook
    <3> QED
      BY <2>1, <3>1 DEF TypeOK, PcInv, KillInv, Next, Inv
  <2>3. CASE ~(parents[q] = p /\ state[q] = "Zombie")
    <3>1. UNCHANGED <<state, killed, pc>>
      BY <1>16, <2>3 DEF WaitLook, procVars
    <3> QED
      BY <3>1 DEF PcInv, KillInv, Next, Inv
  <2> QED
    BY <2>2, <2>3
<1>17. ASSUME NEW p \in Slots, WaitNone(p) PROVE KillInv'
  BY <1>17 DEF WaitNone, Goto, procVars, PcInv, KillInv, Next, Inv
<1>18. ASSUME NEW p \in Slots, WaitDecide(p) PROVE KillInv'
  BY <1>18 DEF WaitDecide, Goto, procVars, PcInv, KillInv, Next, Inv
<1>19. ASSUME NEW p \in Slots, WaitSleep(p) PROVE KillInv'
  BY <1>19 DEF WaitSleep, Executes, Sched, Goto, PcInv, KillInv, Next, Inv
<1>20. ASSUME NEW p \in Slots, SleepTest(p) PROVE KillInv'
  BY <1>20 DEF SleepTest, Goto, procVars, TypeOK, PcInv, KillInv, Next, Inv
<1>21. ASSUME NEW p \in Slots, SleepTicks(p) PROVE KillInv'
  BY <1>21 DEF SleepTicks, Executes, Sched, Goto, PcInv, KillInv, Next, Inv
<1>22. ASSUME NEW p \in Slots, ClockIntr(p) PROVE KillInv'
  BY <1>22 DEF ClockIntr, PcInv, KillInv, Next, Inv
<1> QED
  BY <1>1, <1>2, <1>3, <1>4, <1>5, <1>6, <1>7, <1>8, <1>9, <1>10, <1>11,
     <1>12, <1>13, <1>14, <1>15, <1>16, <1>17, <1>18, <1>19, <1>20, <1>21,
     <1>22 DEF Next, Step, Exit, Wait, Sleep

-----------------------------------------------------------------------------
(* Theorems.                                                               *)

\* user_init leaves one runnable process and nothing locked.
LEMMA InitHolds == Init => Inv
<1> SUFFICES ASSUME Init PROVE Inv
  OBVIOUS
<1>1. TypeOK
  BY ScanFacts DEF Init, TypeOK
<1>2. StackInv
  BY SlotFacts DEF Init, StackInv, OneStack, OnCpu, Runs
<1>3. PcInv /\ ForkInv /\ LockInv
  BY DEF Init, PcInv, ForkInv, LockInv, Forks, Held
<1>4. FamilyInv
  BY SlotFacts DEF Init, FamilyInv, ParentAlive, Alive, Leaves
<1>5. WaitInv /\ KillInv
  BY DEF Init, WaitInv, KillInv, ZombieChild
<1> QED
  BY <1>1, <1>2, <1>3, <1>4, <1>5 DEF Inv

\* Every part of the invariant is kept, and a stuttering step changes nothing.
LEMMA StepHolds == Inv /\ [Next]_vars => Inv'
<1> SUFFICES ASSUME Inv, [Next]_vars PROVE Inv'
  OBVIOUS
<1>1. CASE Next
  BY <1>1, TypeStep, StackStep, PcStep, ForkStep, FamilyStep, LockStep,
     WaitStep, KillStep DEF Inv
<1>2. CASE UNCHANGED vars
  <2>1. TypeOK' /\ PcInv' /\ ForkInv' /\ LockInv' /\ KillInv'
    BY <1>2 DEF Inv, TypeOK, PcInv, ForkInv, LockInv, KillInv, vars,
       procVars, lockVars, ctxVars, locVars
  <2>2. StackInv'
    BY <1>2, Zenon DEF Inv, StackInv, OneStack, OnCpu, Runs, vars, procVars,
       lockVars, ctxVars
  <2>3. FamilyInv' /\ WaitInv'
    BY <1>2 DEF Inv, FamilyInv, ParentAlive, Alive, WaitInv, AsleepInWait,
       ZombieChild, vars, procVars, lockVars, locVars
  <2> QED
    BY <2>1, <2>2, <2>3 DEF Inv
<1> QED
  BY <1>1, <1>2

\* The invariant holds in every state of fork, exit, wait, kill, sleep and the
\* schedulers, for any number of slots and CPUs.
THEOREM Invariance == Spec => []Inv
BY InitHolds, StepHolds, PTL DEF Spec

\* No kernel stack is ever used by two CPUs, and only a process marked Running
\* runs: what sched, the scheduler and fork_ret do with the lock of a process
\* is enough.
THEOREM StackExclusive == Spec => []OneStack
<1>1. Inv => OneStack
  BY DEF Inv, StackInv
<1> QED
  BY <1>1, Invariance, PTL

\* exit never finds that it has no parent, and the parent can always still wait.
THEOREM NoOrphans == Spec => []ParentAlive
<1>1. Inv => ParentAlive
  BY DEF Inv, FamilyInv
<1> QED
  BY <1>1, Invariance, PTL

\* A slot that fork has taken is changed by that fork alone until the child
\* is runnable.
THEOREM ForkExclusive == Spec => []ForkOwnsChild
<1>1. Inv => ForkOwnsChild
  BY DEF Inv, PcInv, ForkInv, ForkOwnsChild, Forks
<1> QED
  BY <1>1, Invariance, PTL

\* A process never sleeps in wait on a zombie child nobody will wake it for.
THEOREM NoLostExit == Spec => []WaiterHasNoZombie
<1>1. Inv => WaiterHasNoZombie
  BY DEF Inv, WaitInv, WaiterHasNoZombie, AsleepInWait, ZombieChild
<1> QED
  BY <1>1, Invariance, PTL

\* The window between a test of killed and the sleep after it is the only way
\* a killed process comes to sleep.
THEOREM KillWindow == Spec => []KilledSleepsByRaceOnly
<1>1. Inv => KilledSleepsByRaceOnly
  BY DEF Inv, KillInv, KilledSleepsByRaceOnly
<1> QED
  BY <1>1, Invariance, PTL

\* Only wait in the parent, under PROC_TABLE.parents, frees a slot, and only
\* that of a zombie that has left its stack.
THEOREM ReapSafe == Spec => ReapsOnlyOwnZombie
<1> DEFINE Reap(q) == state[q] # "Unused" /\ state'[q] = "Unused" =>
                        /\ state[q] = "Zombie" /\ ~OnCpu(q)
                        /\ plock = parents[q]
<1>1. ASSUME Inv, [Next]_vars, NEW q \in Slots PROVE Reap(q)
  <2>1. ASSUME NEW p \in Slots, WaitLook(p), scan[p] = q PROVE Reap(q)
    <3>1. plock = p
      BY <1>1, <2>1 DEF WaitLook, Executes, LockInv, Held, Inv
    <3>2. (state[q] = "Zombie" /\ parents[q] = p /\ ~ilock[q]) \/ state'[q] = state[q]
      BY <2>1 DEF WaitLook, procVars
    <3>3. state[q] = "Zombie" /\ ~ilock[q] => ~OnCpu(q)
      BY <1>1 DEF StackInv, OneStack, Runs, Inv
    <3> QED
      BY <3>1, <3>2, <3>3
  <2>2. ASSUME NEW p \in Slots, WaitLook(p), scan[p] # q PROVE Reap(q)
    BY <1>1, <2>2 DEF WaitLook, procVars, TypeOK, Inv
  <2>3. ASSUME NEW p \in Slots, Exit(p) \/ Sleep(p) PROVE Reap(q)
    BY <1>1, <2>3 DEF Exit, Sleep, ExitReparent, ExitWakeInit, ExitWakeParent, Wake,
       ExitZombie, Sched, SleepTest, SleepTicks, procVars, TypeOK, Inv
  <2>4. ASSUME NEW p \in Slots, WaitLock(p) \/ WaitNone(p) \/ WaitDecide(p) \/ WaitSleep(p)
        PROVE  Reap(q)
    BY <1>1, <2>4 DEF WaitLock, WaitNone, WaitDecide, WaitSleep, Sched, procVars,
       TypeOK, Inv
  <2>5. ASSUME NEW c \in CPUs, SwitchBack(c) \/ \E p \in Slots : Dispatch(c, p)
        PROVE  Reap(q)
    BY <1>1, <2>5 DEF SwitchBack, Dispatch, procVars, TypeOK, Inv
  <2>6. ASSUME NEW p \in Slots,
               \/ Resume(p) \/ Yield(p) \/ Trap(p)
               \/ ForkParent(p) \/ ForkRun(p) \/ ForkFails(p)
               \/ \E n \in Slots : Fork(p, n) \/ Kill(p, n)
        PROVE  Reap(q)
    BY <1>1, <2>6 DEF Resume, Yield, Sched, Trap, ForkParent, ForkRun, ForkFails,
       Fork, Alloc, Kill, procVars, TypeOK, Inv
  <2>7. ASSUME NEW p \in Slots, ClockIntr(p) PROVE Reap(q)
    BY <1>1, <2>7 DEF ClockIntr, Wake, TypeOK, Inv
  <2>8. CASE UNCHANGED vars
    BY <2>8 DEF vars, procVars
  <2> QED
    BY <1>1, <2>1, <2>2, <2>3, <2>4, <2>5, <2>6, <2>7, <2>8, Zenon DEF Next, Step, Wait
<1>2. Inv /\ [Next]_vars => [\A q \in Slots : Reap(q)]_vars
  BY <1>1
<1> QED
  BY <1>2, Invariance, PTL DEF Spec, ReapsOnlyOwnZombie
=============================================================================
