-------------------------------- MODULE Proc --------------------------------
(***************************************************************************)
(* Processes (kernel/src/proc.rs): fork, exit, wait, kill, the sleep       *)
(* system call, preemption, and the schedulers of several CPUs, which hand *)
(* a process's lock over a context switch.                                 *)
(*                                                                         *)
(* Abstractions.  The lock of a process (proc.inner) and PROC_TABLE.parents*)
(* are modelled as locks because they are held across a context switch or  *)
(* several steps; a critical section that takes one lock of a process and  *)
(* gives it back is one step.  Memory, files and the working directory are *)
(* left out, as is the choice among runnable processes (the scheduler      *)
(* tests the state again under the lock, so min_pass is only a hint).      *)
(* A process id is the slot: Pid::alloc never gives out a number twice.    *)
(* The process in slot InitProc is INIT_PROC: its program forks and waits  *)
(* for ever (user/bin/init.rs), and no program kills it.                   *)
(***************************************************************************)
EXTENDS Integers, FiniteSets

CONSTANTS NPROC,    \* slots of PROC_TABLE
          CPUs,     \* harts
          Ticks,    \* Channel::Ticks
          None      \* no process, no channel

ASSUME ProcAssumption ==
  /\ NPROC \in Nat \ {0}
  /\ None \notin Nat /\ Ticks \notin Nat /\ Ticks # None

Slots == 0..(NPROC - 1)

\* INIT_PROC: user_init takes the first slot.
InitProc == 0

VARIABLES
  state,    \* inner.state
  channel,  \* inner.channel
  killed,   \* inner.killed
  parents,  \* PROC_TABLE.parents
  plock,    \* the process that holds PROC_TABLE.parents
  ilock,    \* who holds proc.inner across steps: the process or its CPU
  cpu,      \* the process whose kernel stack a CPU is on
  pc,       \* where a process is in the kernel
  leaving,  \* it has called sched and its CPU is still on its stack
  scan,     \* index of wait's loop
  kids,     \* have_kids
  child,    \* new_proc of fork
  raced     \* history: processes killed between their last test and a sleep

procVars == <<state, channel, killed, parents>>
lockVars == <<plock, ilock>>
ctxVars == <<cpu, leaving>>
locVars == <<scan, kids, child>>
vars == <<procVars, lockVars, ctxVars, pc, locVars, raced>>

TypeOK ==
  /\ state \in [Slots -> {"Unused", "Used", "Sleeping", "Runnable", "Running", "Zombie"}]
  /\ channel \in [Slots -> Slots \cup {Ticks, None}]
  /\ killed \in [Slots -> BOOLEAN]
  /\ parents \in [Slots -> Slots \cup {None}]
  /\ plock \in Slots \cup {None}
  /\ ilock \in [Slots -> BOOLEAN]
  /\ cpu \in [CPUs -> Slots \cup {None}]
  /\ leaving \in [Slots -> BOOLEAN]
  /\ pc \in [Slots -> {"user", "syscall", "fork_parent", "fork_run", "exit",
                       "wake_init", "wake_parent", "zombie", "wait", "wait_scan",
                       "wait_sleep", "sleep", "sleep_ticks"}]
  /\ scan \in [Slots -> 0..NPROC]
  /\ kids \in [Slots -> BOOLEAN]
  /\ child \in [Slots -> (Slots \ {InitProc}) \cup {None}]
  /\ raced \subseteq Slots

\* The process executes its own code on some CPU.
OnCpu(p) == \E c \in CPUs : cpu[c] = p
Runs(p) == OnCpu(p) /\ ~leaving[p]

Goto(p, where) == pc' = [pc EXCEPT ![p] = where]

-----------------------------------------------------------------------------
(* The scheduler and sched.                                                *)

\* stride_scheduler locks a runnable process, marks it running and switches
\* to it; the process now owns the lock and will give it back (Resume).
Dispatch(c, p) ==
  /\ cpu[c] = None
  /\ state[p] = "Runnable" /\ ~ilock[p]
  /\ state' = [state EXCEPT ![p] = "Running"]
  /\ ilock' = [ilock EXCEPT ![p] = TRUE]
  /\ cpu' = [cpu EXCEPT ![c] = p]
  /\ UNCHANGED <<channel, killed, parents, plock, leaving, pc, locVars>>

\* After sched returns in the process, or in fork_ret: sleep clears the
\* channel, and the lock is released.
Resume(p) ==
  /\ Runs(p) /\ ilock[p]
  /\ channel' = [channel EXCEPT ![p] = None]
  /\ ilock' = [ilock EXCEPT ![p] = FALSE]
  /\ UNCHANGED <<state, killed, parents, plock, ctxVars, pc, locVars>>

\* swtch to the scheduler: it is off the process's stack and drops the lock
\* that the process took.
SwitchBack(c) ==
  /\ cpu[c] # None /\ leaving[cpu[c]]
  /\ leaving' = [leaving EXCEPT ![cpu[c]] = FALSE]
  /\ ilock' = [ilock EXCEPT ![cpu[c]] = FALSE]
  /\ cpu' = [cpu EXCEPT ![c] = None]
  /\ UNCHANGED <<procVars, plock, pc, locVars>>

\* Mutant of Sched: the lock is not held over the switch.
SchedUnlocked(p, s) ==
  /\ ~ilock[p]
  /\ state' = [state EXCEPT ![p] = s]
  /\ leaving' = [leaving EXCEPT ![p] = TRUE]
  /\ UNCHANGED ilock

\* A process takes its own lock, changes its state and calls sched.
Sched(p, s) ==
  /\ ~ilock[p]
  /\ ilock' = [ilock EXCEPT ![p] = TRUE]
  /\ state' = [state EXCEPT ![p] = s]
  /\ leaving' = [leaving EXCEPT ![p] = TRUE]

\* A process runs code of its own: not the hand-over of its lock, and not
\* while it is leaving its CPU.
Executes(p, where) == Runs(p) /\ ~ilock[p] /\ pc[p] \in where

\* kerneltrap: an interrupt is taken in the kernel only where no spin lock is
\* held (locks keep interrupts off), and in user mode anywhere.
Interruptible(p) == Runs(p) /\ ~ilock[p] /\ plock # p /\ pc[p] # "sleep_ticks"

\* A timer interrupt: yield.
Yield(p) ==
  /\ Interruptible(p)
  /\ Sched(p, "Runnable")
  /\ UNCHANGED <<channel, killed, parents, plock, cpu, pc, locVars>>

\* wakeup on a channel only process q can sleep on.
Wake(q) ==
  /\ ~ilock[q]
  /\ state' = [state EXCEPT ![q] = IF @ = "Sleeping" /\ channel[q] = q
                                   THEN "Runnable" ELSE @]

-----------------------------------------------------------------------------
(* System calls.                                                           *)

\* ProcTable::alloc takes an unused slot, under that slot's lock.  The scan
\* locks one slot at a time, so any unused slot may be the one it takes.
Alloc(n) ==
  /\ state[n] = "Unused" /\ ~ilock[n]
  /\ state' = [state EXCEPT ![n] = "Used"]

\* fork allocates a slot and fills it before it releases the slot's lock.
Fork(p, n) ==
  /\ Executes(p, {"syscall"})
  /\ Alloc(n)
  /\ child' = [child EXCEPT ![p] = n]
  /\ Goto(p, "fork_parent")
  /\ UNCHANGED <<channel, killed, parents, lockVars, ctxVars, scan, kids>>

ForkParent(p) ==
  /\ Executes(p, {"fork_parent"})
  /\ plock = None
  /\ parents' = [parents EXCEPT ![child[p]] = p]
  /\ Goto(p, "fork_run")
  /\ UNCHANGED <<state, channel, killed, lockVars, ctxVars, locVars>>

\* The child starts in fork_ret, which goes to user space.
ForkRun(p) ==
  /\ Executes(p, {"fork_run"})
  /\ ~ilock[child[p]]
  /\ state' = [state EXCEPT ![child[p]] = "Runnable"]
  /\ Goto(p, "user")
  /\ child' = [child EXCEPT ![p] = None]
  /\ UNCHANGED <<channel, killed, parents, lockVars, ctxVars, scan, kids>>

\* Mutant of Kill: a sleeping process is not woken.
KillNoWake(p, q) ==
  /\ Executes(p, {"syscall"})
  /\ p # InitProc /\ q # InitProc
  /\ state[q] # "Unused" /\ ~ilock[q]
  /\ killed' = [killed EXCEPT ![q] = TRUE]
  /\ Goto(p, "user")
  /\ UNCHANGED <<state, channel, parents, lockVars, ctxVars, locVars>>

\* kill marks a process and makes it runnable when it sleeps.
Kill(p, q) ==
  /\ Executes(p, {"syscall"})
  /\ p # InitProc /\ q # InitProc
  /\ state[q] # "Unused" /\ ~ilock[q]
  /\ killed' = [killed EXCEPT ![q] = TRUE]
  /\ state' = [state EXCEPT ![q] = IF @ = "Sleeping" THEN "Runnable" ELSE @]
  /\ Goto(p, "user")
  /\ UNCHANGED <<channel, parents, lockVars, ctxVars, locVars>>

\* fork fails for want of a slot or of memory: it has freed what it took.
\* The same step stands for a system call that changes nothing here.
ForkFails(p) ==
  /\ Executes(p, {"syscall"}) /\ p # InitProc
  /\ Goto(p, "user")
  /\ UNCHANGED <<procVars, lockVars, ctxVars, locVars>>

\* usertrap at the entry of a system call, at its end and in a timer
\* interrupt: a killed process exits.
Trap(p) ==
  /\ Executes(p, {"user"})
  /\ Goto(p, IF killed[p] THEN "exit" ELSE "syscall")
  /\ UNCHANGED <<procVars, lockVars, ctxVars, locVars>>

-----------------------------------------------------------------------------
(* exit.                                                                   *)

\* Mutant of ExitReparent: the children keep their parent.
ExitNoReparent(p) ==
  /\ Executes(p, {"syscall", "exit"})
  /\ p # InitProc /\ plock = None
  /\ plock' = p
  /\ Goto(p, "wake_parent")
  /\ UNCHANGED <<procVars, ilock, ctxVars, locVars>>

\* exit, called by usertrap or as a system call, locks the parents and gives
\* the children to init; nobody sees the parents before it unlocks them.
ExitReparent(p) ==
  /\ Executes(p, {"syscall", "exit"})
  /\ p # InitProc /\ plock = None
  /\ plock' = p
  /\ parents' = [q \in Slots |-> IF parents[q] = p THEN InitProc ELSE parents[q]]
  /\ Goto(p, IF \E q \in Slots : parents[q] = p THEN "wake_init" ELSE "wake_parent")
  /\ UNCHANGED <<state, channel, killed, ilock, ctxVars, locVars>>

ExitWakeInit(p) ==
  /\ Executes(p, {"wake_init"})
  /\ Wake(InitProc)
  /\ Goto(p, "wake_parent")
  /\ UNCHANGED <<channel, killed, parents, lockVars, ctxVars, locVars>>

ExitWakeParent(p) ==
  /\ Executes(p, {"wake_parent"})
  /\ parents[p] # None
  /\ Wake(parents[p])
  /\ Goto(p, "zombie")
  /\ UNCHANGED <<channel, killed, parents, lockVars, ctxVars, locVars>>

\* The state becomes Zombie before the parents are unlocked.
ExitZombie(p) ==
  /\ Executes(p, {"zombie"})
  /\ Sched(p, "Zombie")
  /\ plock' = None
  /\ UNCHANGED <<channel, killed, parents, cpu, pc, locVars>>

-----------------------------------------------------------------------------
(* wait.                                                                   *)

WaitLock(p) ==
  /\ Executes(p, {"syscall", "wait"})
  /\ plock = None
  /\ plock' = p
  /\ Goto(p, "wait_scan")
  /\ UNCHANGED <<procVars, ilock, ctxVars, locVars>>

\* The loop variables start afresh in every round.
EndScan(p) ==
  /\ scan' = [scan EXCEPT ![p] = 0]
  /\ kids' = [kids EXCEPT ![p] = FALSE]

\* Mutant of WaitLook: the lock of the child is not taken.
WaitLookUnlocked(p) ==
  /\ Executes(p, {"wait_scan"}) /\ scan[p] < NPROC
  /\ LET q == scan[p]
     IN  IF parents[q] = p /\ state[q] = "Zombie"
         THEN /\ parents' = [parents EXCEPT ![q] = None]
              /\ state' = [state EXCEPT ![q] = "Unused"]
              /\ plock' = None
              /\ pc' = [pc EXCEPT ![p] = "user", ![q] = "user"]
              /\ EndScan(p)
         ELSE /\ scan' = [scan EXCEPT ![p] = q + 1]
              /\ kids' = [kids EXCEPT ![p] = @ \/ parents[q] = p]
              /\ UNCHANGED <<state, parents, plock, pc>>
  /\ UNCHANGED <<channel, killed, ilock, ctxVars, child>>

\* One slot of the scan: skipped unless it is a child.  Proc::free clears a
\* zombie child, whose slot will start again in fork_ret.
WaitLook(p) ==
  /\ Executes(p, {"wait_scan"}) /\ scan[p] < NPROC
  /\ LET q == scan[p]
     IN  IF parents[q] # p
         THEN /\ scan' = [scan EXCEPT ![p] = q + 1]
              /\ UNCHANGED <<procVars, plock, pc, kids>>
         ELSE /\ ~ilock[q]
              /\ IF state[q] = "Zombie"
                 THEN /\ parents' = [parents EXCEPT ![q] = None]
                      /\ state' = [state EXCEPT ![q] = "Unused"]
                      /\ channel' = [channel EXCEPT ![q] = None]
                      /\ killed' = [killed EXCEPT ![q] = FALSE]
                      /\ plock' = None
                      /\ pc' = [pc EXCEPT ![p] = "user", ![q] = "user"]
                      /\ EndScan(p)
                 ELSE /\ scan' = [scan EXCEPT ![p] = q + 1]
                      /\ kids' = [kids EXCEPT ![p] = TRUE]
                      /\ UNCHANGED <<procVars, plock, pc>>
  /\ UNCHANGED <<ilock, ctxVars, child>>

\* No child, or the process was killed: wait returns None.
WaitNone(p) ==
  /\ Executes(p, {"wait_scan"}) /\ scan[p] = NPROC
  /\ ~kids[p] \/ killed[p]
  /\ plock' = None
  /\ Goto(p, "user")
  /\ EndScan(p)
  /\ UNCHANGED <<procVars, ilock, ctxVars, child>>

\* Mutant of WaitDecide: the parents are unlocked before the process takes its
\* own lock.
WaitDecideUnlocks(p) ==
  /\ Executes(p, {"wait_scan"}) /\ scan[p] = NPROC
  /\ kids[p] /\ ~killed[p]
  /\ plock' = None
  /\ Goto(p, "wait_sleep")
  /\ EndScan(p)
  /\ UNCHANGED <<procVars, ilock, ctxVars, child>>

\* The test of killed comes first, in a critical section of its own.
WaitDecide(p) ==
  /\ Executes(p, {"wait_scan"}) /\ scan[p] = NPROC
  /\ kids[p] /\ ~killed[p]
  /\ Goto(p, "wait_sleep")
  /\ EndScan(p)
  /\ UNCHANGED <<procVars, lockVars, ctxVars, child>>

\* sleep: the process's own lock is taken before the parents are unlocked.
\* When it returns, wait locks the parents and scans again.
WaitSleep(p) ==
  /\ Executes(p, {"wait_sleep"})
  /\ Sched(p, "Sleeping")
  /\ channel' = [channel EXCEPT ![p] = p]
  /\ plock' = None
  /\ Goto(p, "wait")
  /\ UNCHANGED <<killed, parents, cpu, locVars>>

-----------------------------------------------------------------------------
(* The sleep system call (sysproc.rs): sleep on the ticks until enough of  *)
(* them have passed.                                                       *)

\* The loop ends, or the process is killed, or it goes to sleep.
SleepTest(p) ==
  /\ \/ Executes(p, {"sleep"}) /\ Goto(p, "user")
     \/ /\ Executes(p, {"syscall", "sleep"}) /\ p # InitProc
        /\ ~killed[p] /\ Goto(p, "sleep_ticks")
  /\ UNCHANGED <<procVars, lockVars, ctxVars, locVars>>

SleepTicks(p) ==
  /\ Executes(p, {"sleep_ticks"})
  /\ Sched(p, "Sleeping")
  /\ channel' = [channel EXCEPT ![p] = Ticks]
  /\ Goto(p, "sleep")
  /\ UNCHANGED <<killed, parents, plock, cpu, locVars>>

\* clock_intr wakes the processes that sleep on the ticks, one by one.
ClockIntr(p) ==
  /\ state[p] = "Sleeping" /\ channel[p] = Ticks /\ ~ilock[p]
  /\ state' = [state EXCEPT ![p] = "Runnable"]
  /\ UNCHANGED <<channel, killed, parents, lockVars, ctxVars, pc, locVars>>

-----------------------------------------------------------------------------
\* user_init: the first process is runnable and starts in fork_ret.
Init ==
  /\ state = [p \in Slots |-> IF p = InitProc THEN "Runnable" ELSE "Unused"]
  /\ channel = [p \in Slots |-> None]
  /\ killed = [p \in Slots |-> FALSE]
  /\ parents = [p \in Slots |-> None]
  /\ plock = None
  /\ ilock = [p \in Slots |-> FALSE]
  /\ cpu = [c \in CPUs |-> None]
  /\ leaving = [p \in Slots |-> FALSE]
  /\ pc = [p \in Slots |-> "user"]
  /\ scan = [p \in Slots |-> 0]
  /\ kids = [p \in Slots |-> FALSE]
  /\ child = [p \in Slots |-> None]
  /\ raced = {}

Exit(p) ==
  \/ ExitReparent(p) \/ ExitWakeInit(p) \/ ExitWakeParent(p) \/ ExitZombie(p)

Wait(p) ==
  \/ WaitLock(p) \/ WaitLook(p) \/ WaitNone(p) \/ WaitDecide(p) \/ WaitSleep(p)

Sleep(p) == SleepTest(p) \/ SleepTicks(p)

Step ==
  \/ \E c \in CPUs : SwitchBack(c) \/ \E p \in Slots : Dispatch(c, p)
  \/ \E p, q \in Slots : Fork(p, q) \/ Kill(p, q)
  \/ \E p \in Slots :
       \/ Resume(p) \/ Yield(p) \/ Trap(p)
       \/ ForkParent(p) \/ ForkRun(p) \/ ForkFails(p)
       \/ Exit(p) \/ Wait(p) \/ Sleep(p) \/ ClockIntr(p)

\* History: the process has made its last test of killed and will sleep.
InWindow(p) == pc[p] \in {"wait_sleep", "sleep_ticks"} /\ ~killed[p] /\ killed'[p]

Next ==
  /\ Step
  /\ raced' = {p \in Slots : (p \in raced \/ InWindow(p)) /\ state'[p] # "Unused"}

Spec == Init /\ [][Next]_vars

-----------------------------------------------------------------------------
(* Properties.                                                             *)

\* A kernel stack is never used by two CPUs, a process runs or sleeps or is
\* freed only when no CPU is on its stack, and a CPU runs only a process that
\* is marked Running: the lock handed over the context switch keeps wakeup,
\* wait and the other schedulers away until swtch is done (proc.rs:972-973,
\* 915).
OneStack ==
  /\ \A c, d \in CPUs : cpu[c] = cpu[d] /\ cpu[c] # None => c = d
  /\ \A p \in Slots : Runs(p) <=> state[p] = "Running"
  /\ \A p \in Slots : leaving[p] => OnCpu(p) /\ ilock[p]
  /\ \A p \in Slots : OnCpu(p) /\ state[p] \in {"Unused", "Used"} => FALSE

\* Processes that exist and can still run.
Alive(p) == state[p] \notin {"Unused", "Used", "Zombie"}

\* Every process but init has a parent that can still wait for it, also while
\* its parent exits: exit never meets "exit no parent".
ParentAlive ==
  \A p \in Slots : p # InitProc /\ state[p] \notin {"Unused", "Used"} =>
    parents[p] # None /\ Alive(parents[p])

\* No lost wakeup between exit and wait: a process asleep in wait has no
\* zombie child, except while the process that made the child its own holds
\* the parents and is about to wake it.
WaiterHasNoZombie ==
  \A p, q \in Slots :
    state[p] = "Sleeping" /\ channel[p] = p /\ parents[q] = p /\ state[q] = "Zombie" =>
      plock # None /\ pc[plock] = "wake_init"

\* A slot that fork has taken belongs to one fork.
ForkOwnsChild ==
  \A p, q \in Slots :
    /\ pc[p] \in {"fork_parent", "fork_run"} => state[child[p]] = "Used"
    /\ child[p] = child[q] /\ child[p] # None => p = q

\* A killed process does not sleep in wait or in the sleep system call, unless
\* the kill fell between its last test of killed and its sleep (proc.rs:945-950):
\* kill wakes whom it finds asleep, and every way into a sleep tests killed.
KilledSleepsByRaceOnly ==
  \A p \in Slots : killed[p] /\ state[p] = "Sleeping" => p \in raced

\* What wait frees is a zombie child of the caller that has left its CPU, and
\* nothing else makes a process disappear.
ReapsOnlyOwnZombie ==
  [][\A q \in Slots : state[q] # "Unused" /\ state'[q] = "Unused" =>
       /\ state[q] = "Zombie" /\ ~OnCpu(q)
       /\ plock = parents[q]]_vars
=============================================================================
