------------------------------- MODULE Stride -------------------------------
(***************************************************************************)
(* The stride scheduler (proc.rs): every process has a pass that grows by  *)
(* its stride whenever it has run, and the runnable process with the least *)
(* pass runs next.  fork and wakeup give a process a pass near the others';*)
(* passes that would overflow are reduced.                                 *)
(*                                                                         *)
(* Scheduling alone is modelled: what makes a process sleep, wake or exit  *)
(* is free here and is the subject of Proc, and the locks are of no        *)
(* concern, since the scheduler holds one process lock at a time.  A scan  *)
(* of the table is one step; what it found is used in later ones.          *)
(***************************************************************************)
EXTENDS Integers, FiniteSets, FiniteSetsExt

CONSTANTS
  NPROC, Cpu,
  Onlines,     \* the sets of CPUs that may be in use
  MaxPass,     \* the largest pass: usize::MAX
  Strides,     \* strides that tickets can give
  Ticketed,    \* bound: slots whose processes change their tickets
  NONE

ASSUME StrideAssumption ==
  /\ Onlines \subseteq SUBSET Cpu /\ NPROC \in Nat /\ MaxPass \in Nat
  /\ Strides # {} /\ Strides \subseteq 1..MaxPass /\ Ticketed \subseteq 1..NPROC

Proc == 1..NPROC
MaxStride == Max(Strides)         \* what the ten tickets of a new process give

VARIABLES
  state, pass, stride,
  cpu,         \* each CPU: where it is in the scheduler, its process, a baseline, a slot
  online,      \* the CPUs in use
  raised,      \* history: running processes whose stride grew since they were dispatched
  skewed       \* history: on one CPU, a process was made runnable with a pass of its own

vars == <<state, pass, stride, cpu, online, raised, skewed>>

Scanning == [pc |-> "scan", p |-> NONE, base |-> 0, next |-> 0]

(* user_init's process is the first; its pass has never been set. *)
Init ==
  /\ state = [p \in Proc |-> IF p = 1 THEN "Runnable" ELSE "Unused"]
  /\ pass = [p \in Proc |-> 0]
  /\ stride = [p \in Proc |-> MaxStride]
  /\ cpu = [c \in Cpu |-> Scanning]
  /\ online \in Onlines
  /\ raised = {} /\ skewed = FALSE

Competing(s) == {p \in Proc : s[p] \in {"Runnable", "Running"}}
In(states) == {p \in Proc : state[p] \in states}

(* min_pass: the first of those with the least pass. *)
MinPass(set) == Min({p \in set : \A q \in set : pass[p] <= pass[q]})

(* No process is more than a stride ahead of one that competes for a CPU, and a
   running one is not ahead of any. *)
Level(s, t) ==
  \A q \in Competing(s) : \A p \in Proc :
    s[p] # "Unused" => t[p] <= t[q] + IF s[p] = "Running" THEN 0 ELSE MaxStride
Alone == Cardinality(online) = 1
Settle == skewed' = (skewed /\ ~Level(state', pass'))
Skew == skewed' = (Alone /\ (skewed \/ ~Level(state', pass')))

-----------------------------------------------------------------------------
(* stride_scheduler: choose, ... *)
Scan(c) ==
  /\ cpu[c].pc = "scan" /\ In({"Runnable"}) # {}
  /\ cpu' = [cpu EXCEPT ![c] = [@ EXCEPT !.pc = "chosen", !.p = MinPass(In({"Runnable"}))]]
  /\ UNCHANGED <<state, pass, stride, online, raised, skewed>>

(* ... look again under the lock, and run the process, unless it is no longer
   runnable or its pass would overflow. *)
Overflows(p) == pass[p] + stride[p] > MaxPass

DispatchBlind(c) ==
  LET p == cpu[c].p IN
  /\ cpu[c].pc = "chosen"
  /\ cpu' = [cpu EXCEPT ![c] = [@ EXCEPT !.pc = "run"]]
  /\ state' = [state EXCEPT ![p] = "Running"]
  /\ UNCHANGED <<pass, stride, online, raised, skewed>>

DispatchUntested(c) == cpu[c].pc = "chosen" /\ state[cpu[c].p] = "Runnable" /\ DispatchBlind(c)

Dispatch(c) ==
  LET p == cpu[c].p IN
  /\ cpu[c].pc = "chosen"
  /\ IF state[p] # "Runnable" THEN
       cpu' = [cpu EXCEPT ![c] = Scanning] /\ UNCHANGED state
     ELSE IF Overflows(p) THEN
       /\ cpu' = [cpu EXCEPT ![c] = [pc |-> "norm", p |-> NONE, next |-> 1,
                                     base |-> pass[MinPass(In({"Running", "Runnable"}))]]]
       /\ UNCHANGED state
     ELSE
       /\ cpu' = [cpu EXCEPT ![c] = [@ EXCEPT !.pc = "run"]]
       /\ state' = [state EXCEPT ![p] = "Running"]
  /\ UNCHANGED <<pass, stride, online, raised, skewed>>

(* The passes are reduced one after the other, down to zero. *)
Normalise(c) ==
  LET p == cpu[c].next IN
  /\ cpu[c].pc = "norm"
  /\ pass' = [pass EXCEPT ![p] = Max({0, @ - cpu[c].base})]
  /\ cpu' = [cpu EXCEPT ![c] = IF p = NPROC THEN Scanning ELSE [@ EXCEPT !.next = p + 1]]
  /\ UNCHANGED <<state, stride, online, raised>>
  /\ IF p < NPROC THEN UNCHANGED skewed ELSE Settle

SwitchBackFree(c, s) ==
  LET p == cpu[c].p IN
  /\ cpu[c].pc = "run"
  /\ state' = [state EXCEPT ![p] = s]
  /\ cpu' = [cpu EXCEPT ![c] = Scanning]
  /\ raised' = raised \ {p}
  /\ UNCHANGED <<pass, stride, online, skewed>>

(* The process comes back having yielded, gone to sleep or exited, and its pass
   grows, by what its stride is now. *)
SwitchBack(c, s) ==
  LET p == cpu[c].p IN
  /\ cpu[c].pc = "run"
  /\ state' = [state EXCEPT ![p] = s]
  /\ pass' = [pass EXCEPT ![p] = IF s = "Unused" THEN 0 ELSE (@ + stride[p]) % (MaxPass + 1)]
  /\ stride' = [stride EXCEPT ![p] = IF s = "Unused" THEN MaxStride ELSE @]
  /\ raised' = raised \ {p}
  /\ cpu' = [cpu EXCEPT ![c] = Scanning]
  /\ IF Overflows(p) THEN Skew ELSE Settle
  /\ UNCHANGED online

-----------------------------------------------------------------------------
(* set_tickets, by the running process. *)
SetTickets(c, s) ==
  LET p == cpu[c].p IN
  /\ cpu[c].pc = "run" /\ p \in Ticketed /\ s # stride[p]
  /\ stride' = [stride EXCEPT ![p] = s]
  /\ raised' = IF s > stride[p] THEN raised \cup {p} ELSE raised
  /\ UNCHANGED <<state, pass, cpu, online, skewed>>

(* The pass of the runnable process that is next, or else that of p. *)
Baseline(p) == IF In({"Runnable"}) # {} THEN pass[MinPass(In({"Runnable"}))] ELSE pass[p]

(* fork: the new process starts where the next one is. *)
Fork(c) ==
  /\ cpu[c].pc = "run" /\ In({"Unused"}) # {}
  /\ LET child == Min(In({"Unused"})) IN
     /\ state' = [state EXCEPT ![child] = "Runnable"]
     /\ pass' = [pass EXCEPT ![child] = Baseline(cpu[c].p)]
  /\ Settle
  /\ UNCHANGED <<stride, cpu, online, raised>>

(* wakeup of the processes that sleep on a channel. *)
Woken(set, t) ==
  /\ set # {} /\ set \subseteq In({"Sleeping"})
  /\ state' = [p \in Proc |-> IF p \in set THEN "Runnable" ELSE state[p]]
  /\ pass' = [p \in Proc |-> IF p \in set THEN Max({pass[p], t}) ELSE pass[p]]

(* By a process, or by an interrupt it takes: no sleeper is left behind. *)
Wakeup(c, set) ==
  /\ cpu[c].pc = "run"
  /\ Woken(set, Baseline(cpu[c].p))
  /\ Settle
  /\ UNCHANGED <<stride, cpu, online, raised>>

(* By an interrupt that an idle CPU takes: with no process runnable and none of
   its own, there is no pass to start from. *)
WakeupIdle(c, set) ==
  /\ cpu[c].pc = "scan" /\ c \in online
  /\ IF In({"Runnable"}) = {} THEN Woken(set, 0) /\ Skew
     ELSE Woken(set, pass[MinPass(In({"Runnable"}))]) /\ Settle
  /\ UNCHANGED <<stride, cpu, online, raised>>

(* kill wakes a process without any regard to its pass. *)
Kill(q) ==
  /\ state[q] = "Sleeping" /\ In({"Running"}) # {}
  /\ state' = [state EXCEPT ![q] = "Runnable"]
  /\ UNCHANGED pass
  /\ Skew
  /\ UNCHANGED <<stride, cpu, online, raised>>

Schedule(c) == c \in online /\ (Scan(c) \/ Dispatch(c) \/ Normalise(c))
Gives(c) == \E s \in {"Runnable", "Sleeping", "Unused"} : SwitchBack(c, s)

Next ==
  \/ \E c \in Cpu :
       \/ Schedule(c) \/ Gives(c) \/ Fork(c)
       \/ \E s \in Strides : SetTickets(c, s)
       \/ \E set \in SUBSET Proc : Wakeup(c, set) \/ WakeupIdle(c, set)
  \/ \E q \in Proc : Kill(q)

(* CPUs go on, and the timer takes each from its process. *)
Spec == Init /\ [][Next]_vars /\ \A c \in Cpu : WF_vars(Schedule(c)) /\ WF_vars(Gives(c))

-----------------------------------------------------------------------------
TypeOK ==
  /\ state \in [Proc -> {"Unused", "Runnable", "Running", "Sleeping"}]
  /\ pass \in [Proc -> 0..MaxPass] /\ stride \in [Proc -> Strides]
  /\ online \subseteq Cpu /\ raised \subseteq Proc

(* A running process is run by exactly one CPU, although CPUs choose from scans
   that are out of date. *)
OneCpu ==
  \A p \in Proc : Cardinality({c \in Cpu : cpu[c].pc = "run" /\ cpu[c].p = p}) = IF state[p] = "Running" THEN 1 ELSE 0

(* The test before a process runs keeps its pass from overflowing after it, with
   normalisations of other CPUs in between, unless set_tickets gives it a larger
   stride while it runs. *)
NextPassFits == \A p \in Proc : state[p] = "Running" /\ p \notin raised => ~Overflows(p)

(* On one CPU no process gets ahead of another by more than a stride, and the one
   that runs is not ahead of any, through
   forks, sleeps, changes of tickets and normalisations, as long as nobody was
   woken by kill or by an idle CPU, which leave it its old pass, and no pass
   wrapped around. *)
LagBounded == Alone /\ (\A c \in Cpu : cpu[c].pc # "norm") /\ ~skewed => Level(state, pass)

(* What makes the choice by least pass fair: one CPU per process, passes that do
   not overflow, and a bounded lag. *)
PassesFair == TypeOK /\ OneCpu /\ NextPassFits /\ LagBounded

(* A runnable process runs in the end, whatever sleeps, wakes and normalises, on
   one CPU and on two.  Two things are excluded that need not end: strides that
   grow while their process runs, which can wrap its pass around, and a chain of
   processes that fork and exit at once, each starting at the least pass. *)
NoStarvation ==
  <>[](raised = {}) /\ <>[][\A c \in Cpu : ~Fork(c)]_vars
    => \A p \in Proc : (state[p] = "Runnable") ~> (state[p] # "Runnable")
=============================================================================
