----------------------------- MODULE LockOrder -----------------------------
(***************************************************************************)
(* The spin locks of the kernel and the order in which its paths take      *)
(* them.  A spin lock belongs to a CPU (spinlock.rs:56-84); a CPU runs one *)
(* kernel path at a time, because interrupts are off while it holds a      *)
(* lock.  A path is the sequence of its lock operations:                   *)
(*                                                                         *)
(*   acq, rel   a lock is taken, and held until it is released;            *)
(*   pass       locks that are taken one after the other, each released    *)
(*              before the next (a scan of PROC_TABLE, an allocation);     *)
(*   off, on    swtch: the CPU leaves, or enters, a process's kernel stack.*)
(*                                                                         *)
(* Abstractions.  What the locks protect is left out: a path may start     *)
(* whenever a CPU is on the stack of a process (or of the scheduler), and  *)
(* picks its second process freely.  A lock that is taken and released     *)
(* while nothing else is held cannot close a cycle and is left out; so is  *)
(* one that nobody else can want at that point.  The locks that protect    *)
(* the condition of a sleep and are taken first (LOG, a pipe, TICKS,       *)
(* VIRTIO_DISK, the spin lock of a sleep lock) are one lock, which only    *)
(* adds waiting.  The release build prints nothing on these paths.         *)
(***************************************************************************)
EXTENDS Integers, Sequences

CONSTANTS NPROC,    \* slots of PROC_TABLE
          CPUs,     \* harts
          Paths,    \* the kernel paths that run
          None      \* no CPU, no process

\* The paths on the stack of a process.
Named == {"fork", "exit", "wait_reap", "wait_sleep", "yield", "cond_sleep", "close",
          "put_unlinked", "put_linked", "cons_read", "cons_write"}

ASSUME LockOrderAssumption ==
  /\ NPROC \in Nat \ {0}
  /\ None \notin CPUs /\ None \notin Nat
  /\ Paths \subseteq Named

Slots == 0..(NPROC - 1)

\* PROC_TABLE[i].inner.
Inner(i) == <<"inner", i>>
Inners == {Inner(i) : i \in Slots}

Parents  == <<"parents", 0>>  \* PROC_TABLE.parents
Ftable   == <<"ftable", 0>>   \* FILE_TABLE.meta
Itable   == <<"itable", 0>>   \* INODE_TABLE.meta
Kmem     == <<"kmem", 0>>     \* KMEM
Bcache   == <<"bcache", 0>>   \* BCACHE.inner
Cond     == <<"cond", 0>>     \* the condition of a sleep
ConsoleL == <<"console", 0>>  \* CONSOLE
UartL    == <<"uart", 0>>     \* UART

Locks == Inners \cup
         {Parents, Ftable, Itable, Kmem, Bcache, Cond, ConsoleL, UartL}

Op == [do : {"acq", "rel", "pass"}, locks : SUBSET Locks] \cup
      [do : {"on", "off"}, proc : Slots]

VARIABLES
  holder,  \* SpinLock.cpu
  cur,     \* Cpu.proc
  rest,    \* what is left of the path a CPU runs
  claimed  \* the other process the path is about

vars == <<holder, cur, rest, claimed>>

TypeOK ==
  /\ holder \in [Locks -> CPUs \cup {None}]
  /\ cur \in [CPUs -> Slots \cup {None}]
  /\ rest \in [CPUs -> Seq(Op)]
  /\ claimed \in [CPUs -> Slots \cup {None}]

-----------------------------------------------------------------------------
(* Pieces of paths.                                                        *)

Acq(l) == [do |-> "acq", locks |-> {l}]
Rel(l) == [do |-> "rel", locks |-> {l}]
Pass(L) == [do |-> "pass", locks |-> L]
On(p) == [do |-> "on", proc |-> p]
Off(p) == [do |-> "off", proc |-> p]

\* wakeup: min_pass locks one process after the other, and so does the loop.
Wakeup == Pass(Inners)

\* Mutant of SleepOn: the condition's lock is kept over the switch.
SleepOnHolding(p, l) == <<Acq(Inner(p)), Off(p), Rel(l), Rel(Inner(p))>>

\* sleep with the condition's lock held: the process's own lock is taken
\* first, and released by the scheduler.
SleepOn(p, l) == <<Acq(Inner(p)), Rel(l), Off(p), Rel(Inner(p))>>

-----------------------------------------------------------------------------
(* Paths.                                                                  *)

\* Mutant of Fork: the parents are locked under the lock of the new process.
ForkNested(n) == <<Acq(Inner(n)), Pass({Parents}), Rel(Inner(n))>>

\* fork keeps the lock of the new process while memory, files and the working
\* directory are copied; the parents are locked later.
Fork(n) == <<Acq(Inner(n)), Pass({Kmem, Ftable, Itable}), Rel(Inner(n))>>

\* exit: reparent and the wakeup of the parent run with the parents locked,
\* which are released under the process's own lock.
Exit(p) ==
  <<Acq(Parents), Wakeup, Acq(Inner(p)), Rel(Parents), Off(p), Rel(Inner(p))>>

\* wait finds the zombie q, copies its status out and frees it.
WaitReap(q) ==
  <<Acq(Parents), Acq(Inner(q)), Pass({Kmem}), Rel(Inner(q)), Rel(Parents)>>

\* wait finds no zombie among its children.
WaitSleep(p, q) ==
  <<Acq(Parents), Pass({Inner(q), Inner(p)})>> \o SleepOn(p, Parents)

\* yield.
Yield(p) == <<Acq(Inner(p)), Off(p), Rel(Inner(p))>>

\* begin_op, rw, sys_sleep, SleepLock::lock, and pipe read and write test a
\* condition (and killed, and copy user data) and sleep.
CondSleep(p) == <<Acq(Cond), Pass({Inner(p), Bcache, Kmem})>> \o SleepOn(p, Cond)

\* end_op, rw, handle_interrupt of the disk, clock_intr, the drop of a sleep
\* lock's guard, and pipe read, write and close change a condition and wake
\* the sleepers.
CondWake == <<Acq(Cond), Pass({Bcache, Kmem}), Wakeup, Rel(Cond)>>

\* File::close of the last reference, which takes the sleep lock of the file
\* under the table lock.  Nobody else uses the file (a slot that is reused
\* while its last close is still dropping that lock is not considered).
Close(p) == <<Acq(Ftable), Pass({Inner(p)}), Rel(Ftable)>>

\* Inode::put of the last reference to an inode without links: the table lock
\* is released before the inode is freed and its sleep lock is dropped.
PutUnlinked(p) == <<Acq(Itable), Pass({Inner(p)}), Rel(Itable)>>

\* Inode::put of the last reference to a linked inode: the guard of the sleep
\* lock is dropped at the end of the block, and meta at the end of put.
PutLinked(p) == <<Acq(Itable), Pass({Inner(p)}), Wakeup, Rel(Itable)>>

\* Console::read, and Console::write, which sleeps in uart::write.
ConsoleRead(p) == <<Acq(ConsoleL), Pass({Inner(p), Kmem})>> \o SleepOn(p, ConsoleL)
ConsoleWrite(p) == <<Acq(UartL)>> \o SleepOn(p, UartL)

\* The path of the given name on the stack of process p, about process q.
ProcPath(name, p, q) ==
  CASE name = "fork"         -> Fork(q)
    [] name = "exit"         -> Exit(p)
    [] name = "wait_reap"    -> WaitReap(q)
    [] name = "wait_sleep"   -> WaitSleep(p, q)
    [] name = "yield"        -> Yield(p)
    [] name = "cond_sleep"   -> CondSleep(p)
    [] name = "close"        -> Close(p)
    [] name = "put_unlinked" -> PutUnlinked(p)
    [] name = "put_linked"   -> PutLinked(p)
    [] name = "cons_read"    -> ConsoleRead(p)
    [] name = "cons_write"   -> ConsoleWrite(p)

\* uart::handle_interrupt: the transmit side, then Console::handle_interrupt
\* with its echo and its wakeup or kill.
UartIntr ==
  <<Acq(UartL), Wakeup, Rel(UartL),
    Acq(ConsoleL), Pass({UartL} \cup Inners), Rel(ConsoleL)>>

\* stride_scheduler locks the process it has chosen and switches to it; the
\* process releases its lock (sleep, yield, fork_ret).
Schedule(q) == <<Acq(Inner(q)), On(q), Rel(Inner(q))>>

-----------------------------------------------------------------------------
(* CPUs.                                                                   *)

Idle(c) == rest[c] = <<>>

\* Processes that some CPU runs, or has chosen for a fork or a switch.
Claimed == {cur[c] : c \in CPUs} \cup {claimed[c] : c \in CPUs}

\* A system call or an exception on the stack of a process.
StartProc(c, name, q) ==
  /\ Idle(c) /\ cur[c] # None
  /\ q \notin Claimed
  /\ rest' = [rest EXCEPT ![c] = ProcPath(name, cur[c], q)]
  /\ claimed' = [claimed EXCEPT ![c] = IF name = "fork" THEN q ELSE None]
  /\ UNCHANGED <<holder, cur>>

\* An interrupt, on any stack; CondWake also stands for system calls.
StartIntr(c) ==
  /\ Idle(c)
  /\ \E path \in {CondWake, UartIntr} : rest' = [rest EXCEPT ![c] = path]
  /\ UNCHANGED <<holder, cur, claimed>>

\* The scheduler of an idle CPU.
StartSched(c, q) ==
  /\ Idle(c) /\ cur[c] = None
  /\ q \notin Claimed
  /\ rest' = [rest EXCEPT ![c] = Schedule(q)]
  /\ claimed' = [claimed EXCEPT ![c] = q]
  /\ UNCHANGED <<holder, cur>>

\* One lock operation, which waits until the lock is free.  A pass ends when
\* the last of its locks, whichever that is, is free.
LockStep(c) ==
  /\ ~Idle(c)
  /\ LET op == Head(rest[c])
     IN  /\ op.do \in {"acq", "rel", "pass"}
         /\ op.do # "rel" => \E l \in op.locks : holder[l] = None
         /\ holder' = [l \in Locks |->
              IF op.do = "pass" \/ l \notin op.locks THEN holder[l]
              ELSE IF op.do = "acq" THEN c ELSE None]
  /\ rest' = [rest EXCEPT ![c] = Tail(@)]
  /\ claimed' = [claimed EXCEPT ![c] = IF Len(rest[c]) = 1 THEN None ELSE @]
  /\ UNCHANGED cur

\* swtch from or to the stack of a process.
Switch(c) ==
  /\ ~Idle(c)
  /\ LET op == Head(rest[c])
     IN  \/ op.do = "off" /\ cur' = [cur EXCEPT ![c] = None]
         \/ op.do = "on" /\ cur' = [cur EXCEPT ![c] = op.proc]
  /\ rest' = [rest EXCEPT ![c] = Tail(@)]
  /\ UNCHANGED <<holder, claimed>>

Init ==
  /\ holder = [l \in Locks |-> None]
  /\ cur = [c \in CPUs |-> None]
  /\ rest = [c \in CPUs |-> <<>>]
  /\ claimed = [c \in CPUs |-> None]

Next ==
  \E c \in CPUs :
    \/ LockStep(c) \/ Switch(c) \/ StartIntr(c)
    \/ \E q \in Slots : StartSched(c, q)
    \/ \E name \in Paths, q \in Slots : StartProc(c, name, q)

Spec == Init /\ [][Next]_vars

-----------------------------------------------------------------------------
(* Properties.                                                             *)

\* The locks CPU c spins on.
Wanted(c) ==
  IF Idle(c) \/ Head(rest[c]).do \notin {"acq", "pass"} THEN {}
  ELSE Head(rest[c]).locks

\* No set of CPUs spins on locks that are held inside the set.  A set of one
\* is a CPU that takes a lock it holds, which SpinLock::lock asserts against
\* (spinlock.rs:61).
NoCircularWait ==
  \A S \in (SUBSET CPUs) \ {{}} :
    \E c \in S : \A l \in Wanted(c) : holder[l] \notin S

\* A CPU leaves a process's stack with that process's lock and no other: what
\* sched asserts with num_off (proc.rs:1079).
SwitchHoldsInnerOnly ==
  \A c \in CPUs :
    ~Idle(c) /\ Head(rest[c]).do \in {"on", "off"} =>
      {l \in Locks : holder[l] = c} = {Inner(Head(rest[c]).proc)}

\* "This is normally problematic [...] but, ref == 1 means no other process can
\* have ip locked" (fs.rs:448-449): put may take and drop the inode's sleep lock
\* under the table lock.
PutSafe == NoCircularWait
=============================================================================
