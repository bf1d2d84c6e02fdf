------------------------------- MODULE Files -------------------------------
(***************************************************************************)
(* The open-file table, the per-process descriptor tables and the pipes,   *)
(* composed (file.rs, pipe.rs, the descriptor half of sysfile.rs, and what *)
(* fork and exit do to descriptors).                                       *)
(*                                                                         *)
(* A step is one critical section of the code: a section under             *)
(* FILE_TABLE.meta, or a stretch of Pipe::read/write between taking the    *)
(* pipe's spin lock and sleeping or returning.  Sleep locks are waited for *)
(* by a guard and sleep/wakeup is atomic; module Proc shows what those two *)
(* rest on.                                                                *)
(***************************************************************************)
EXTENDS Integers, Sequences, FiniteSets, FiniteSetsExt

CONSTANTS
  Proc,      \* process slots
  NFILE,     \* size of FILE_TABLE
  NOFILE,    \* descriptors per process
  PipeId,    \* heap addresses Arc<Pipe> can have
  PIPESIZE,  \* bytes in a pipe's ring
  Inode,     \* inodes sys_open can resolve a path to
  MaxWrite,  \* bound: bytes asked for by one read or write
  MaxCalls,  \* bound: system calls made, exits aside
  NONE

ASSUME FilesAssumption ==
  /\ NFILE \in Nat /\ NFILE >= 2 /\ NOFILE \in Nat /\ NOFILE >= 2
  /\ PIPESIZE \in Nat \ {0} /\ MaxWrite \in Nat \ {0} /\ MaxCalls \in Nat
  /\ IsFiniteSet(Proc) /\ PipeId \cap Inode = {}
  /\ NONE \notin Proc \cup PipeId \cup Inode \cup Nat

File == 0..(NFILE - 1)
Fd == 0..(NOFILE - 1)

VARIABLES
  ref_count,  \* FileMeta::ref_count
  inner,      \* FileInner: type, what it refers to, readable, writeable
  holder,     \* who holds FILE_TABLE.inner[f], the file's sleep lock
  pipe,       \* PipeInner of every pipe address
  open_files, \* data.open_files of every process
  pc,         \* where each process is
  op,         \* the read or write a process is in
  got,        \* files a process has references to outside its descriptors
  pend,       \* what File::close still has to release after the meta section
  next,       \* where a process goes when its closes are done
  killed,     \* inner.killed of every process
  iref,       \* references the file layer holds on every inode
  missed,     \* history: the ring changed and its sleepers were not woken
  budget      \* system calls that may still be made

vars == <<ref_count, inner, holder, pipe, open_files, pc, op, got, pend, next,
          killed, iref, missed, budget>>

NoFile == [type |-> "none", obj |-> NONE, readable |-> FALSE, writeable |-> FALSE]
ReadEnd(x) == [type |-> "pipe", obj |-> x, readable |-> TRUE, writeable |-> FALSE]
WriteEnd(x) == [type |-> "pipe", obj |-> x, readable |-> FALSE, writeable |-> TRUE]
NoOp == [f |-> NONE, kind |-> "none", n |-> 0, i |-> 0]
NewPipe == [data |-> [k \in 0..(PIPESIZE - 1) |-> 0],
            num_read |-> 0, num_write |-> 0, read_open |-> TRUE, write_open |-> TRUE]
NoMiss == [read |-> FALSE, write |-> FALSE]

(* The bytes written and not yet read, oldest first. *)
Unread(x) ==
  [j \in 1..(pipe[x].num_write - pipe[x].num_read) |->
     pipe[x].data[(pipe[x].num_read + j - 1) % PIPESIZE]]

(* An Arc<Pipe> is freed when the last file, and the last copy a File::close
   took of it, are gone. *)
Dropped(x) ==
  /\ \A f \in File : inner[f].obj # x
  /\ \A p \in Proc : pend[p].obj # x

NoPend == [obj |-> NONE, type |-> "none", writeable |-> FALSE]

(* The state after a process made a pipe and forked: the live processes share
   both ends, the lowest two files. *)
Init ==
  /\ holder = [f \in File |-> NONE]
  /\ pipe = [x \in PipeId |-> NewPipe]
  /\ \E live \in (SUBSET Proc) \ {{}}, x \in PipeId :
       /\ pc = [p \in Proc |-> IF p \in live THEN "user" ELSE "unused"]
       /\ open_files = [p \in Proc |-> [fd \in Fd |-> IF p \in live /\ fd < 2 THEN fd ELSE NONE]]
       /\ ref_count = [f \in File |-> IF f < 2 THEN Cardinality(live) ELSE 0]
       /\ inner = [f \in File |-> CASE f = 0 -> ReadEnd(x) [] f = 1 -> WriteEnd(x) [] OTHER -> NoFile]
  /\ op = [p \in Proc |-> NoOp]
  /\ got = [p \in Proc |-> <<>>]
  /\ pend = [p \in Proc |-> NoPend]
  /\ next = [p \in Proc |-> "user"]
  /\ killed = [p \in Proc |-> FALSE]
  /\ iref = [i \in Inode |-> 0]
  /\ missed = [x \in PipeId |-> NoMiss]
  /\ budget = MaxCalls

(* A process that was killed runs no further system call: usertrap exits. *)
InUser(p) == pc[p] = "user" /\ ~killed[p]

Count == budget > 0 /\ budget' = budget - 1

Goto(p, l) == pc' = [pc EXCEPT ![p] = l]

FreeFiles == {f \in File : ref_count[f] = 0}
FreeFds(p) == {fd \in Fd : open_files[p][fd] = NONE}

-----------------------------------------------------------------------------
(* Descriptors. *)

(* fd_alloc takes the lowest free descriptor, then the file is dupped. *)
SysDup(p, fd) ==
  /\ InUser(p) /\ Count /\ open_files[p][fd] # NONE /\ FreeFds(p) # {}
  /\ LET f == open_files[p][fd] IN
       /\ open_files' = [open_files EXCEPT ![p][Min(FreeFds(p))] = f]
       /\ ref_count' = [ref_count EXCEPT ![f] = @ + 1]
  /\ UNCHANGED <<inner, holder, pipe, pc, op, got, pend, next, killed, iref, missed>>

SysClose(p, fd) ==
  /\ InUser(p) /\ Count /\ open_files[p][fd] # NONE
  /\ open_files' = [open_files EXCEPT ![p][fd] = NONE]
  /\ got' = [got EXCEPT ![p] = <<open_files[p][fd]>>]
  /\ next' = [next EXCEPT ![p] = "user"]
  /\ Goto(p, "close")
  /\ UNCHANGED <<ref_count, inner, holder, pipe, op, pend, killed, iref, missed>>

(* Mutant: the child shares the parent's references. *)
ForkNoDup(p, q) ==
  /\ InUser(p) /\ Count /\ pc[q] = "unused"
  /\ open_files' = [open_files EXCEPT ![q] = open_files[p]]
  /\ Goto(q, "user")
  /\ killed' = [killed EXCEPT ![q] = FALSE]
  /\ UNCHANGED <<ref_count, inner, holder, pipe, op, got, pend, next, iref, missed>>

(* The child gets a reference of its own to each of the parent's files; the
   increments only add to counts the parent keeps above zero, so other
   processes cannot tell them from one step. *)
Fork(p, q) ==
  /\ InUser(p) /\ Count /\ pc[q] = "unused"
  /\ open_files' = [open_files EXCEPT ![q] = open_files[p]]
  /\ ref_count' = [f \in File |->
       ref_count[f] + Cardinality({fd \in Fd : open_files[p][fd] = f})]
  /\ Goto(q, "user")
  /\ killed' = [killed EXCEPT ![q] = FALSE]
  /\ UNCHANGED <<inner, holder, pipe, op, got, pend, next, iref, missed>>

(* exit takes every descriptor in turn and closes it (ExitFile); the slot is
   free again once the parent has reaped it. *)
Exit(p) ==
  /\ pc[p] = "user"
  /\ next' = [next EXCEPT ![p] = "unused"]
  /\ Goto(p, "close")
  /\ UNCHANGED <<ref_count, inner, holder, pipe, open_files, op, got, pend, killed, iref, missed, budget>>

-----------------------------------------------------------------------------
(* File::close: a section under FILE_TABLE.meta, then the release of what the
   file referred to. *)

Unlocked(p) == \A f \in File : holder[f] # p
Closing(p) == pc[p] = "close" /\ got[p] # <<>> /\ pend[p] = NoPend /\ Unlocked(p)
Closed(p) == pc[p] = "close" /\ got[p] = <<>> /\ pend[p] = NoPend /\ Unlocked(p)
OpenFds(p) == {fd \in Fd : open_files[p][fd] # NONE}

ExitFile(p) ==
  /\ Closed(p) /\ next[p] = "unused" /\ OpenFds(p) # {}
  /\ LET fd == Min(OpenFds(p)) IN
       /\ got' = [got EXCEPT ![p] = <<open_files[p][fd]>>]
       /\ open_files' = [open_files EXCEPT ![p][fd] = NONE]
  /\ UNCHANGED <<ref_count, inner, holder, pipe, pc, op, pend, next, killed, iref, missed, budget>>

CloseShared(p) ==
  /\ Closing(p)
  /\ ref_count[Head(got[p])] > 1
  /\ ref_count' = [ref_count EXCEPT ![Head(got[p])] = @ - 1]
  /\ got' = [got EXCEPT ![p] = Tail(@)]
  /\ UNCHANGED <<inner, holder, pipe, open_files, pc, op, pend, next, killed, iref, missed, budget>>

(* The last reference: the sleep lock is taken with the spin lock held, the
   inner state copied and its type reset (the other fields are set again
   before a file of another type is made of the entry).  The spin lock is
   dropped first: the entry can be allocated while the sleep lock is held. *)
CloseLast(p) ==
  /\ Closing(p)
  /\ LET f == Head(got[p]) IN
       /\ ref_count[f] = 1 /\ holder[f] = NONE
       /\ holder' = [holder EXCEPT ![f] = p]
       /\ ref_count' = [ref_count EXCEPT ![f] = 0]
       /\ inner' = [inner EXCEPT ![f] = NoFile]
       /\ pend' = [pend EXCEPT ![p] = IF inner[f].type = "none" THEN NoPend
                    ELSE [obj |-> inner[f].obj, type |-> inner[f].type,
                          writeable |-> inner[f].writeable]]
  /\ got' = [got EXCEPT ![p] = Tail(@)]
  /\ UNCHANGED <<pipe, open_files, pc, op, next, killed, iref, missed, budget>>

CloseUnlock(p) ==
  /\ pc[p] = "close"
  /\ \E f \in File : holder[f] = p /\ holder' = [holder EXCEPT ![f] = NONE]
  /\ UNCHANGED <<ref_count, inner, pipe, open_files, pc, op, got, pend, next, killed, iref, missed, budget>>

(* pc after wakeup(PipeRead(x)) (l = "rsleep") or wakeup(PipeWrite(x)), with
   process p itself at label to. *)
Woken(x, l, p, to) ==
  [q \in Proc |->
     IF q = p THEN to
     ELSE IF pc[q] = l /\ inner[op[q].f].obj = x
          THEN IF l = "rsleep" THEN "read" ELSE "write"
          ELSE pc[q]]

(* Mutant: the other end is not woken. *)
PipeCloseQuiet(p) ==
  /\ pend[p].type = "pipe" /\ Unlocked(p)
  /\ LET x == pend[p].obj
         w == pend[p].writeable
         last == /\ \A f \in File : inner[f].obj # x
                 /\ \A q \in Proc \ {p} : pend[q].obj # x
         b == IF w THEN [pipe[x] EXCEPT !.write_open = FALSE]
                   ELSE [pipe[x] EXCEPT !.read_open = FALSE]
     IN /\ pipe' = [pipe EXCEPT ![x] = IF last THEN NewPipe ELSE b]
        /\ UNCHANGED pc
        /\ missed' = [missed EXCEPT ![x] =
             IF last THEN NoMiss
             ELSE IF w THEN [@ EXCEPT !.read = FALSE] ELSE [@ EXCEPT !.write = FALSE]]
  /\ pend' = [pend EXCEPT ![p] = NoPend]
  /\ UNCHANGED <<ref_count, inner, holder, open_files, op, got, next, killed, iref, budget>>

(* Pipe::close: one end is gone and the other end's sleepers are woken.  The
   memory of a pipe nobody refers to any more reads as a new one. *)
PipeClose(p) ==
  /\ pend[p].type = "pipe" /\ Unlocked(p)
  /\ LET x == pend[p].obj
         w == pend[p].writeable
         last == /\ \A f \in File : inner[f].obj # x
                 /\ \A q \in Proc \ {p} : pend[q].obj # x
         b == IF w THEN [pipe[x] EXCEPT !.write_open = FALSE]
                   ELSE [pipe[x] EXCEPT !.read_open = FALSE]
     IN /\ pipe' = [pipe EXCEPT ![x] = IF last THEN NewPipe ELSE b]
        /\ pc' = Woken(x, IF w THEN "rsleep" ELSE "wsleep", p, "close")
        /\ missed' = [missed EXCEPT ![x] =
             IF last THEN NoMiss
             ELSE IF w THEN [@ EXCEPT !.read = FALSE] ELSE [@ EXCEPT !.write = FALSE]]
  /\ pend' = [pend EXCEPT ![p] = NoPend]
  /\ UNCHANGED <<ref_count, inner, holder, open_files, op, got, next, killed, iref, budget>>

(* Operation::begin, inode.put. *)
CloseInode(p) ==
  /\ pend[p].type = "inode" /\ Unlocked(p)
  /\ iref' = [iref EXCEPT ![pend[p].obj] = @ - 1]
  /\ pend' = [pend EXCEPT ![p] = NoPend]
  /\ UNCHANGED <<ref_count, inner, holder, pipe, open_files, pc, op, got, next, killed, missed, budget>>

CloseDone(p) ==
  /\ Closed(p) /\ (next[p] = "unused" => OpenFds(p) = {})
  /\ Goto(p, next[p])
  /\ next' = [next EXCEPT ![p] = "user"]
  /\ killed' = [killed EXCEPT ![p] = @ /\ next[p] = "user"]
  /\ UNCHANGED <<ref_count, inner, holder, pipe, open_files, op, got, pend, iref, missed, budget>>

-----------------------------------------------------------------------------
(* sys_open and sys_pipe: File::alloc is a section of its own under
   FILE_TABLE.meta, so other processes may take entries in between. *)

FileAlloc(p, l) ==
  /\ FreeFiles # {}
  /\ ref_count' = [ref_count EXCEPT ![Min(FreeFiles)] = 1]
  /\ got' = [got EXCEPT ![p] = Append(@, Min(FreeFiles))]
  /\ Goto(p, l)

(* The path names inode i.  With the table full the inode is put back at once
   and nothing has changed. *)
SysOpen(p, i) ==
  /\ InUser(p) /\ Count
  /\ FileAlloc(p, "open")
  /\ iref' = [iref EXCEPT ![i] = @ + 1]
  /\ op' = [op EXCEPT ![p].f = i]
  /\ UNCHANGED <<inner, holder, pipe, open_files, pend, next, killed, missed>>

(* Mutant: the inode is not put. *)
OpenNoFdLeaks(p) ==
  /\ pc[p] = "open" /\ FreeFds(p) = {} /\ holder[Head(got[p])] = NONE
  /\ ref_count' = [ref_count EXCEPT ![Head(got[p])] = 0]
  /\ got' = [got EXCEPT ![p] = <<>>]
  /\ op' = [op EXCEPT ![p] = NoOp]
  /\ Goto(p, "user")
  /\ UNCHANGED <<inner, holder, pipe, open_files, pend, next, killed, iref, missed, budget>>

(* No descriptor is free: the file, still of type None, is closed and the
   inode put. *)
OpenNoFd(p) ==
  /\ pc[p] = "open" /\ FreeFds(p) = {} /\ holder[Head(got[p])] = NONE
  /\ ref_count' = [ref_count EXCEPT ![Head(got[p])] = 0]
  /\ iref' = [iref EXCEPT ![op[p].f] = @ - 1]
  /\ got' = [got EXCEPT ![p] = <<>>]
  /\ op' = [op EXCEPT ![p] = NoOp]
  /\ Goto(p, "user")
  /\ UNCHANGED <<inner, holder, pipe, open_files, pend, next, killed, missed, budget>>

OpenInstall(p) ==
  /\ pc[p] = "open" /\ FreeFds(p) # {} /\ holder[Head(got[p])] = NONE
  /\ open_files' = [open_files EXCEPT ![p][Min(FreeFds(p))] = Head(got[p])]
  /\ \E r, w \in BOOLEAN :
       /\ r \/ w
       /\ inner' = [inner EXCEPT ![Head(got[p])] =
            [type |-> "inode", obj |-> op[p].f, readable |-> r, writeable |-> w]]
  /\ got' = [got EXCEPT ![p] = <<>>]
  /\ op' = [op EXCEPT ![p] = NoOp]
  /\ Goto(p, "user")
  /\ UNCHANGED <<ref_count, holder, pipe, pend, next, killed, iref, missed, budget>>

SysPipe(p) ==
  /\ InUser(p) /\ Count
  /\ FileAlloc(p, "pipe1")
  /\ UNCHANGED <<inner, holder, pipe, open_files, op, pend, next, killed, iref, missed>>

PipeSecond(p) ==
  /\ pc[p] = "pipe1"
  /\ FileAlloc(p, "pipe2")
  /\ UNCHANGED <<inner, holder, pipe, open_files, op, pend, next, killed, iref, missed, budget>>

(* The second File::alloc, or Arc::try_new, failed: what was allocated is
   closed. *)
PipeNoMemory(p) ==
  /\ \/ pc[p] = "pipe1" /\ FreeFiles = {}
     \/ pc[p] = "pipe2"
  /\ Goto(p, "close")
  /\ UNCHANGED <<ref_count, inner, holder, pipe, open_files, op, got, pend, next, killed, iref, missed, budget>>

(* The ends are tied to a new pipe.  Descriptors may be short, or the copy of
   their numbers to the user fail: then both files are closed again. *)
PipeInstall(p) ==
  /\ pc[p] = "pipe2" /\ \A k \in 1..2 : holder[got[p][k]] = NONE
  /\ \E x \in PipeId :
       /\ Dropped(x)
       /\ inner' = [inner EXCEPT ![got[p][1]] = ReadEnd(x), ![got[p][2]] = WriteEnd(x)]
       /\ pipe' = [pipe EXCEPT ![x] = NewPipe]
  /\ \/ /\ Cardinality(FreeFds(p)) >= 2
        /\ LET fd0 == Min(FreeFds(p))
               fd1 == Min(FreeFds(p) \ {fd0})
           IN open_files' = [open_files EXCEPT ![p][fd0] = got[p][1], ![p][fd1] = got[p][2]]
        /\ got' = [got EXCEPT ![p] = <<>>]
        /\ Goto(p, "user")
     \/ /\ Goto(p, "close")
        /\ UNCHANGED <<open_files, got>>
  /\ UNCHANGED <<ref_count, holder, op, pend, next, killed, iref, missed, budget>>

-----------------------------------------------------------------------------
(* read, write, fstat and ioctl: each takes the file's sleep lock and keeps it
   until it returns, through every sleep on a pipe. *)

SysIO(p, fd, kind, n) ==
  /\ InUser(p) /\ Count /\ open_files[p][fd] # NONE
  /\ op' = [op EXCEPT ![p] = [f |-> open_files[p][fd], kind |-> kind, n |-> n, i |-> 0]]
  /\ Goto(p, "lock")
  /\ UNCHANGED <<ref_count, inner, holder, pipe, open_files, got, pend, next, killed, iref, missed>>

(* A file not open for the operation, stat and ioctl, and inode files (whose
   data is module InodeData) give the lock up without sleeping on another
   process; a pipe keeps it. *)
LockFile(p) ==
  /\ pc[p] = "lock"
  /\ LET f == op[p].f
         blocks == /\ inner[f].type = "pipe"
                   /\ \/ op[p].kind = "read" /\ inner[f].readable
                      \/ op[p].kind = "write" /\ inner[f].writeable
     IN /\ holder[f] = NONE
        /\ IF blocks
           THEN /\ holder' = [holder EXCEPT ![f] = p]
                /\ Goto(p, op[p].kind)
                /\ UNCHANGED op
           ELSE /\ op' = [op EXCEPT ![p] = NoOp]
                /\ Goto(p, "user")
                /\ UNCHANGED holder
  /\ UNCHANGED <<ref_count, inner, pipe, open_files, got, pend, next, killed, iref, missed, budget>>

(* The call returns and the guard on the file is dropped. *)
Release(p) ==
  /\ holder' = [holder EXCEPT ![op[p].f] = NONE]
  /\ op' = [op EXCEPT ![p] = NoOp]

(* Pipe::read, from taking the pipe's lock to sleeping or returning. *)

Ring(p) == inner[op[p].f].obj
Available(x) == pipe[x].num_write - pipe[x].num_read
Waits(x) == Available(x) = 0 /\ pipe[x].write_open

ReadSleep(p) ==
  /\ pc[p] = "read" /\ Waits(Ring(p)) /\ ~killed[p]
  /\ Goto(p, "rsleep")
  /\ UNCHANGED <<ref_count, inner, holder, pipe, open_files, op, got, pend, next, killed, iref, missed, budget>>

ReadInterrupted(p) ==
  /\ pc[p] = "read" /\ Waits(Ring(p)) /\ killed[p]
  /\ Release(p) /\ Goto(p, "user")
  /\ UNCHANGED <<ref_count, inner, pipe, open_files, got, pend, next, killed, iref, missed, budget>>

ReadBytes(p) ==
  /\ pc[p] = "read" /\ ~Waits(Ring(p))
  /\ LET x == Ring(p) IN
       /\ pipe' = [pipe EXCEPT ![x].num_read = @ + Min({op[p].n, Available(x)})]
       /\ pc' = Woken(x, "wsleep", p, "user")
       /\ missed' = [missed EXCEPT ![x].write = FALSE]
  /\ Release(p)
  /\ UNCHANGED <<ref_count, inner, open_files, got, pend, next, killed, iref, budget>>

(* The copy of byte k + 1 to the user fails: the k bytes before it are gone
   from the ring and no writer is woken. *)
ReadFault(p, k) ==
  /\ pc[p] = "read" /\ ~Waits(Ring(p))
  /\ LET x == Ring(p) IN
       /\ k < Min({op[p].n, Available(x)})
       /\ pipe' = [pipe EXCEPT ![x].num_read = @ + k]
       /\ missed' = [missed EXCEPT ![x].write = @ \/ k > 0]
  /\ Release(p) /\ Goto(p, "user")
  /\ UNCHANGED <<ref_count, inner, open_files, got, pend, next, killed, iref, budget>>

(* Pipe::write likewise. *)

Full(x) == pipe[x].num_write = pipe[x].num_read + PIPESIZE
Room(x) == PIPESIZE - Available(x)
Left(p) == op[p].n - op[p].i

(* Mutant: the ring is indexed from the read counter. *)
StoredAtRead(x, k) ==
  [pipe[x] EXCEPT
     !.data = [j \in 0..(PIPESIZE - 1) |->
        LET d == (j - pipe[x].num_read) % PIPESIZE
        IN IF d < k THEN (pipe[x].num_write + d) % (PIPESIZE + 1) ELSE @[j]],
     !.num_write = @ + k]

(* The ring of x after k more bytes were stored at num_write % PIPESIZE
   onwards.  The code never looks at a byte, so bytes are numbered, modulo a
   number larger than the ring, to tell those in the ring apart. *)
Stored(x, k) ==
  [pipe[x] EXCEPT
     !.data = [j \in 0..(PIPESIZE - 1) |->
        LET d == (j - pipe[x].num_write) % PIPESIZE
        IN IF d < k THEN (pipe[x].num_write + d) % (PIPESIZE + 1) ELSE @[j]],
     !.num_write = @ + k]

WriteRefused(p) ==
  /\ pc[p] = "write" /\ (killed[p] \/ ~pipe[Ring(p)].read_open)
  /\ Release(p) /\ Goto(p, "user")
  /\ UNCHANGED <<ref_count, inner, pipe, open_files, got, pend, next, killed, iref, missed, budget>>

(* The flag is set by a kill on another CPU while the loop runs: the bytes
   stored so far stay in the ring and no reader is woken. *)
WriteInterrupted(p, k) ==
  /\ pc[p] = "write" /\ ~killed[p] /\ pipe[Ring(p)].read_open
  /\ k <= Room(Ring(p)) /\ k < Left(p)
  /\ pipe' = [pipe EXCEPT ![Ring(p)] = Stored(Ring(p), k)]
  /\ missed' = [missed EXCEPT ![Ring(p)].read = @ \/ k > 0]
  /\ killed' = [killed EXCEPT ![p] = TRUE]
  /\ Release(p) /\ Goto(p, "user")
  /\ UNCHANGED <<ref_count, inner, open_files, got, pend, next, iref, budget>>

(* The ring fills before everything is stored. *)
WriteSleep(p, k) ==
  /\ pc[p] = "write" /\ ~killed[p] /\ pipe[Ring(p)].read_open
  /\ k = Room(Ring(p)) /\ k < Left(p)
  /\ pipe' = [pipe EXCEPT ![Ring(p)] = Stored(Ring(p), k)]
  /\ missed' = [missed EXCEPT ![Ring(p)].read = FALSE]
  /\ op' = [op EXCEPT ![p].i = @ + k]
  /\ pc' = Woken(Ring(p), "rsleep", p, "wsleep")
  /\ UNCHANGED <<ref_count, inner, holder, open_files, got, pend, next, killed, iref, budget>>

(* Everything is stored, or the copy of a byte from the user fails and the
   loop ends with what it has. *)
WriteBytes(p, k) ==
  /\ pc[p] = "write" /\ ~killed[p] /\ pipe[Ring(p)].read_open
  /\ \/ k = Left(p) /\ k <= Room(Ring(p))
     \/ k < Left(p) /\ k < Room(Ring(p))
  /\ pipe' = [pipe EXCEPT ![Ring(p)] = Stored(Ring(p), k)]
  /\ missed' = [missed EXCEPT ![Ring(p)].read = FALSE]
  /\ pc' = Woken(Ring(p), "rsleep", p, "user")
  /\ Release(p)
  /\ UNCHANGED <<ref_count, inner, open_files, got, pend, next, killed, iref, budget>>

(* proc::kill: sets the flag and makes a sleeper runnable.  At any other place
   a kill is only seen at the next of these, or at the return to user mode,
   where it is an Exit. *)
Kill(p) ==
  /\ pc[p] \in {"lock", "rsleep", "wsleep"} /\ ~killed[p]
  /\ killed' = [killed EXCEPT ![p] = TRUE]
  /\ pc' = [pc EXCEPT ![p] = IF @ = "rsleep" THEN "read" ELSE IF @ = "wsleep" THEN "write" ELSE @]
  /\ UNCHANGED <<ref_count, inner, holder, pipe, open_files, op, got, pend, next, iref, missed, budget>>

(* What a process does inside the kernel once it has made a system call. *)
Step(p) ==
  \/ CloseShared(p) \/ CloseLast(p) \/ CloseUnlock(p) \/ PipeClose(p) \/ CloseInode(p)
  \/ ExitFile(p) \/ CloseDone(p)
  \/ OpenNoFd(p) \/ OpenInstall(p) \/ PipeSecond(p) \/ PipeNoMemory(p) \/ PipeInstall(p)
  \/ LockFile(p)
  \/ ReadSleep(p) \/ ReadInterrupted(p) \/ ReadBytes(p) \/ \E k \in 0..(PIPESIZE - 1) : ReadFault(p, k)
  \/ WriteRefused(p)
  \/ \E k \in 0..PIPESIZE : WriteInterrupted(p, k) \/ WriteSleep(p, k) \/ WriteBytes(p, k)

Call(p) ==
  \/ \E fd \in Fd : SysDup(p, fd) \/ SysClose(p, fd)
  \/ \E q \in Proc : Fork(p, q)
  \/ \E i \in Inode : SysOpen(p, i)
  \/ SysPipe(p)
  \/ \E fd \in Fd, kind \in {"read", "write", "stat"}, n \in {1, MaxWrite} : SysIO(p, fd, kind, n)

Next == \E p \in Proc : Step(p) \/ Call(p) \/ Exit(p) \/ Kill(p)

Spec == Init /\ [][Next]_vars

-----------------------------------------------------------------------------
(* Properties. *)

TypeOK ==
  /\ ref_count \in [File -> Nat]
  /\ \A f \in File : /\ inner[f].type \in {"none", "pipe", "inode"}
                      /\ inner[f].obj \in PipeId \cup Inode \cup {NONE}
  /\ holder \in [File -> Proc \cup {NONE}]
  /\ \A x \in PipeId : Available(x) \in 0..PIPESIZE
  /\ open_files \in [Proc -> [Fd -> File \cup {NONE}]]
  /\ pc \in [Proc -> {"unused", "user", "close", "open", "pipe1", "pipe2", "lock",
                      "read", "write", "rsleep", "wsleep"}]
  /\ got \in [Proc -> Seq(File)]
  /\ \A p \in Proc : Len(got[p]) <= 2 /\ (Len(got[p]) = 2 => got[p][1] # got[p][2])
  /\ iref \in [Inode -> Nat]

(* The count File::dup and File::close keep under FILE_TABLE.meta is, at every
   moment, the number of references that exist, in descriptors and in the hands
   of a call, whatever dup, fork, pipe, open and their undo paths did. *)
RefCountExact ==
  \A f \in File :
    ref_count[f] =
      Cardinality({r \in Proc \X Fd : open_files[r[1]][r[2]] = f})
      + Cardinality({p \in Proc : \E k \in 1..Len(got[p]) : got[p][k] = f})

(* p is about to take the sleep lock of a file in File::close, with the spin
   lock FILE_TABLE.meta held. *)
TakesUnderMeta(p, f) ==
  \/ Closing(p) /\ f = Head(got[p]) /\ ref_count[f] = 1
  \/ pc[p] = "open" /\ FreeFds(p) = {} /\ f = Head(got[p])

(* File::close takes the file's sleep lock with FILE_TABLE.meta, a spin lock,
   held.  It never finds it with a process inside read or write, however long
   those block; the one holder it can meet is the previous close of the same
   entry, which gave up the spin lock before the sleep lock. *)
LastCloseMeetsNoUser ==
  \A p \in Proc, f \in File :
    TakesUnderMeta(p, f) /\ holder[f] # NONE => pc[holder[f]] = "close"

(* The assertions "fileclose" and "filedup" and the panics "fileread" and
   "filewrite" cannot happen: a file a call works on is counted and typed. *)
NoFilePanic ==
  \A p \in Proc :
    /\ Closing(p) => ref_count[Head(got[p])] >= 1
    /\ pc[p] \in {"lock", "read", "write", "rsleep", "wsleep"} => inner[op[p].f].type # "none"
    /\ \A fd \in Fd : open_files[p][fd] # NONE => ref_count[open_files[p][fd]] >= 1

(* read_open and write_open of a live pipe say whether that end still exists:
   they are cleared once, by the close of the last reference to the end. *)
PipeEndsExact ==
  \A x \in PipeId : ~Dropped(x) =>
    /\ pipe[x].read_open <=> \/ \E f \in File : inner[f] = ReadEnd(x)
                             \/ \E p \in Proc : pend[p].obj = x /\ ~pend[p].writeable
    /\ pipe[x].write_open <=> \/ \E f \in File : inner[f] = WriteEnd(x)
                              \/ \E p \in Proc : pend[p].obj = x /\ pend[p].writeable

(* sys_open's inode reference goes to exactly one file and File::close puts it
   exactly once, on every failure path too. *)
InodeRefExact ==
  \A i \in Inode :
    iref[i] = Cardinality({f \in File : inner[f].obj = i})
              + Cardinality({p \in Proc : pend[p].obj = i})
              + Cardinality({p \in Proc : pc[p] = "open" /\ op[p].f = i})

(* The counts and flags by which File::close decides what to release are exact:
   files by descriptors, inodes by files, pipe ends by files.  So nothing is
   released early, twice or never, and no assertion on a file fails. *)
CountsExact == TypeOK /\ RefCountExact /\ InodeRefExact /\ PipeEndsExact /\ NoFilePanic

(* No lost wakeup, as far as the code goes: a process sleeps in Pipe::read
   only while the pipe is empty and a writer may come, in Pipe::write only
   while it is full and a reader may come - unless the last change to the ring
   was made by a write cut short by a kill or a read cut short by a bad
   address, the two returns that skip the wakeup. *)
SleepersHaveReason ==
  \A p \in Proc :
    /\ pc[p] = "rsleep" => Waits(Ring(p)) \/ missed[Ring(p)].read
    /\ pc[p] = "wsleep" => \/ Full(Ring(p)) /\ pipe[Ring(p)].read_open
                           \/ missed[Ring(p)].write

Queue == INSTANCE PipeQueue WITH
  Byte <- 0..PIPESIZE, Capacity <- PIPESIZE, queue <- [x \in PipeId |-> Unread(x)]

(* Every pipe is a bounded FIFO queue of bytes: the ring, its two counters and
   the sleeping of Pipe::read and Pipe::write never lose, repeat or reorder a
   byte, even when calls are interrupted or pipes are closed and made anew. *)
ImplementsPipeQueue == Queue!Spec
=============================================================================
