--------------------------------- MODULE Fs ---------------------------------
(***************************************************************************)
(* The name space of the file system: on-disk inodes and directory         *)
(* entries, the in-memory inode table, path resolution and the system      *)
(* calls that create, link, unlink, open, close, change directory and      *)
(* print the working directory, with crashes and the reclaiming of orphans *)
(* at boot (fs.rs, sysfile.rs).                                            *)
(*                                                                         *)
(* A step is a section under the sleep lock of an inode, or a part of      *)
(* Inode::put between its spin-lock sections.  Every call is one log       *)
(* operation: what it wrote becomes durable when the last open operation   *)
(* ends (module Log), and a crash goes back to what was durable.           *)
(* Directories are sets of (name, inode) pairs next to "..".               *)
(***************************************************************************)
EXTENDS Integers, Sequences, FiniteSets, FiniteSetsExt

LOCAL INSTANCE SequencesExt

CONSTANTS
  Proc,    \* processes
  NINODE,  \* slots of the in-memory inode table
  NInum,   \* inodes on disk, 1 is the root directory
  Name,    \* file names
  MaxPath, \* bound: components of a path
  MaxCalls,\* bound: system calls made
  NONE

ASSUME FsAssumption ==
  /\ NINODE \in Nat \ {0} /\ NInum \in Nat \ {0} /\ MaxPath \in Nat \ {0} /\ MaxCalls \in Nat
  /\ NONE \notin Name

Inum == 1..NInum
ROOT == 1
DotDot == ".."

(* Bound: a path is one component from the current directory, or MaxPath
   different names from the root. *)
Paths ==
  {[abs |-> FALSE, comp |-> <<n>>] : n \in Name \cup {DotDot}}
  \cup {[abs |-> TRUE, comp |-> c] : c \in {x \in [1..MaxPath -> Name] : IsInjective(x)}}

VARIABLES
  fs,       \* on-disk inodes as the buffer cache and the log hold them
  durable,  \* what a crash goes back to
  table,    \* INODE_TABLE, by inode number: ref, valid and the copies
  st,       \* where each process is
  leaked,   \* history: inodes without links that nobody will free before a boot
  blind,    \* history: a lookup failed for want of a table slot
  panic,    \* history: the assertion that stopped the kernel
  boot,     \* the inode Inode::reclaim looks at next, 0 when the system is up
  budget    \* system calls that may still be made

vars == <<fs, durable, table, st, leaked, blind, panic, boot, budget>>

-----------------------------------------------------------------------------
(* mkfs leaves a root directory; history lost counts the entries for an inode
   that vanished with the directory they were in. *)
Mkfs ==
  [type  |-> [i \in Inum |-> IF i = ROOT THEN "dir" ELSE "free"],
   nlink |-> [i \in Inum |-> IF i = ROOT THEN 1 ELSE 0],
   ent   |-> [i \in Inum |-> {}],
   up    |-> [i \in Inum |-> IF i = ROOT THEN ROOT ELSE 0],
   lost  |-> [i \in Inum |-> 0]]

FreeSlot == [ref |-> 0, valid |-> FALSE, type |-> "free", nlink |-> 0]
FreeTable == [i \in Inum |-> FreeSlot]

Idle(cwd, fd) ==
  [pc |-> "idle", call |-> "none", path |-> <<>>, name |-> NONE, cur |-> 0, old |-> 0,
   stale |-> FALSE, cwd |-> cwd, fd |-> fd, puts |-> <<>>, freed |-> FALSE]

(* init and its children start in the root directory. *)
BootTable(n) ==
  [FreeTable EXCEPT ![ROOT] = [ref |-> Cardinality(Proc), valid |-> TRUE, type |-> "dir", nlink |-> n]]

(* f with inode i made under name n in directory d. *)
Made(f, d, n, i, ty) ==
  [f EXCEPT !.type[i] = ty, !.nlink[i] = 1, !.ent[d] = @ \cup {<<n, i>>},
            !.up[i] = IF ty = "dir" THEN d ELSE 0,
            !.nlink[d] = IF ty = "dir" THEN @ + 1 ELSE @]

(* f with inode i of directory d removed while it is in use. *)
Removed(f, d, n, i) ==
  [f EXCEPT !.nlink[i] = 0, !.ent[d] = @ \ {<<n, i>>},
            !.nlink[d] = IF f.type[i] = "dir" THEN @ - 1 ELSE @]

(* Bound: a file system with up to three files or directories, one inside
   another, and each process in one of the directories, or in the root with a
   file open.  The inner one may have been removed while a process uses it. *)
Trees ==
  {Mkfs}
  \cup {Made(Mkfs, ROOT, n, 2, ty) : n \in Name, ty \in {"dir", "file"}}
  \cup UNION {UNION {LET f == Made(Made(Mkfs, ROOT, n, 2, "dir"), 2, k, 3, ty)
                     IN {Removed(f, 2, k, 3), Made(f, ROOT, k, 4, "file")}
                     : k \in Name \ {n}} : n \in Name, ty \in {"dir", "file"}}

Init ==
  /\ fs \in Trees /\ durable = fs
  /\ \E cwd \in [Proc -> {i \in Inum : fs.type[i] = "dir"}],
       fd \in [Proc -> {0} \cup {i \in Inum : fs.type[i] = "file"}] :
       LET users(i) == Cardinality({p \in Proc : cwd[p] = i}) + Cardinality({p \in Proc : fd[p] = i}) IN
       /\ st = [p \in Proc |-> Idle(cwd[p], fd[p])]
       /\ table = [i \in Inum |-> IF users(i) = 0 THEN FreeSlot
            ELSE [ref |-> users(i), valid |-> TRUE, type |-> fs.type[i], nlink |-> fs.nlink[i]]]
  /\ Cardinality({i \in Inum : table[i].ref > 0}) <= NINODE
  /\ \A p \in Proc : st[p].fd # 0 => st[p].cwd = ROOT
  /\ \A i \in Inum : fs.type[i] # "free" /\ fs.nlink[i] = 0 => table[i].ref > 0
  /\ leaked = {} /\ blind = FALSE /\ panic = "" /\ boot = 0 /\ budget = MaxCalls

-----------------------------------------------------------------------------
(* The inode table. *)

(* Inode::get scans the whole table under its lock, so an inode never has two
   slots: a slot is named by the inode it holds.  get fails when all slots are
   taken by other inodes. *)
CanGet(t, i) == t[i].ref > 0 \/ Cardinality({j \in Inum : t[j].ref > 0}) < NINODE
Get(t, i) == [t EXCEPT ![i].ref = @ + 1, ![i].valid = @ /\ t[i].ref > 0]

(* Inode::lock: the copies are read from disk if they are not valid. *)
Loaded(t, i, f) ==
  IF t[i].valid THEN t
  ELSE [t EXCEPT ![i].valid = TRUE, ![i].type = f.type[i], ![i].nlink = f.nlink[i]]

NoType(t, i, f) == ~t[i].valid /\ f.type[i] = "free"

(* Inode::update: the copies are written to disk. *)
Updated(t, i, f) == [f EXCEPT !.type[i] = t[i].type, !.nlink[i] = t[i].nlink]

(* The inode numbers a name stands for in directory d. *)
Named(f, d, n) == IF n = DotDot THEN {f.up[d]} \ {0} ELSE {e[2] : e \in {x \in f.ent[d] : x[1] = n}}

Up == boot = 0 /\ panic = ""
Ready(p, l) == Up /\ st[p].pc = l /\ st[p].puts = <<>>
Go(p, r) == st' = [st EXCEPT ![p] = r]

-----------------------------------------------------------------------------
(* Inode::put of the first of the references a process still has to drop. *)

Putting(p) == Up /\ st[p].puts # <<>>
PutInum(p) == Head(st[p].puts)

(* The last reference to an inode without links: it is truncated and freed
   with the table unlocked, so its number, and with it this slot, may be in use
   again before the reference is dropped. *)
LastPutLinked(i) == table[i].ref = 1 /\ table[i].valid
LastPut(i) == table[i].ref = 1 /\ table[i].valid /\ table[i].nlink = 0

Freed(f, i) ==
  [f EXCEPT !.type[i] = "free", !.nlink[i] = 0, !.ent[i] = {}, !.up[i] = 0,
            !.lost = [j \in Inum |-> IF j = i THEN 0
                        ELSE @[j] + Cardinality({e \in f.ent[i] : e[2] = j})]]

PutFree(p) ==
  /\ Putting(p) /\ ~st[p].freed /\ LastPut(PutInum(p))
  /\ fs' = Freed(fs, PutInum(p))
  /\ table' = [table EXCEPT ![PutInum(p)].valid = FALSE, ![PutInum(p)].type = "free"]
  /\ st' = [st EXCEPT ![p].freed = TRUE]
  /\ UNCHANGED <<durable, leaked, blind, panic, boot, budget>>

PutDrop(p) ==
  /\ Putting(p) /\ (st[p].freed \/ ~LastPut(PutInum(p)))
  /\ LET i == PutInum(p) IN
       /\ table' = [table EXCEPT ![i] = IF @.ref = 1 THEN FreeSlot ELSE [@ EXCEPT !.ref = @ - 1]]
       /\ leaked' = IF st[p].freed /\ table[i].ref = 1 /\ fs.type[i] # "free" /\ fs.nlink[i] = 0
                    THEN leaked \cup {i} ELSE leaked
  /\ st' = [st EXCEPT ![p].puts = Tail(@), ![p].freed = FALSE]
  /\ UNCHANGED <<fs, durable, blind, panic, boot, budget>>

-----------------------------------------------------------------------------
(* Path::resolve_inner. *)

(* The calls that resolve a parent keep the last component for themselves. *)
ToParent(call) == call \in {"create", "mkdir", "mknod", "unlink", "link2"}
Rest(call, path) == IF ToParent(call) THEN SubSeq(path, 1, Len(path) - 1) ELSE path

(* The call ends, well or not, after the references in puts are dropped; a
   failed link takes its count back first. *)
Done(r, puts) == [Idle(r.cwd, r.fd) EXCEPT !.pc = "end", !.puts = puts]
ErrorForgets(r, puts) == Done(r, puts)
Error(r, puts) ==
  IF r.call = "link2" THEN [Done(r, puts) EXCEPT !.pc = "bad", !.old = r.old] ELSE Done(r, puts)

(* Where resolution starts: the root, or the current directory. *)
Start(p, t, r, path) ==
  LET i == IF path.abs THEN ROOT ELSE r.cwd
      last == path.comp[Len(path.comp)]
      q == [r EXCEPT !.path = Rest(r.call, path.comp), !.name = IF ToParent(r.call) THEN last ELSE NONE]
  IN /\ ToParent(r.call) => last \in Name
     /\ IF CanGet(t, i) THEN table' = Get(t, i) /\ Go(p, [q EXCEPT !.pc = "walk", !.cur = i])
        ELSE table' = t /\ Go(p, Error(q, <<>>))

Begin(p, call, path) ==
  /\ Ready(p, "idle")
  /\ budget > 0 /\ budget' = budget - 1
  /\ Start(p, table, [st[p] EXCEPT !.call = call], path)
  /\ UNCHANGED <<fs, durable, leaked, blind, panic, boot>>

(* Inode::lock asserts the type it has just read. *)
LockNoType(p) ==
  /\ Ready(p, "walk") \/ Ready(p, "hit") \/ Ready(p, "up") \/ Ready(p, "name")
  /\ NoType(table, st[p].cur, fs)
  /\ panic' = "ilock: no type"
  /\ UNCHANGED <<fs, durable, table, st, leaked, blind, boot, budget>>

Locks(p, l) == Ready(p, l) /\ ~NoType(table, st[p].cur, fs)

(* One component: lock the directory, look the name up, take a reference to
   what it names, unlock and put the directory. *)
Walk(p) ==
  /\ Locks(p, "walk") /\ st[p].path # <<>>
  /\ LET r == st[p]
         d == r.cur
         t == Loaded(table, d, fs)
         n == Head(r.path)
     IN IF t[d].type # "dir" \/ Named(fs, d, n) = {}
        THEN table' = t /\ Go(p, Error(r, <<d>>)) /\ UNCHANGED blind
        ELSE \E i \in Named(fs, d, n) :
               IF CanGet(t, i)
               THEN /\ table' = Get(t, i) /\ UNCHANGED blind
                    /\ Go(p, [r EXCEPT !.cur = i, !.puts = <<d>>, !.path = Tail(@),
                                       !.stale = n = DotDot /\ fs.nlink[d] = 0])
               ELSE table' = t /\ blind' = TRUE /\ Go(p, Error(r, <<d>>))
  /\ UNCHANGED <<fs, durable, leaked, panic, boot, budget>>

(* The parent was asked for: resolve_inner has checked its type, and the
   caller locks it again.  It cannot become anything else in between, since
   this process holds a reference. *)
AtParent(p, calls) ==
  /\ Locks(p, "walk") /\ st[p].path = <<>> /\ st[p].call \in calls
  /\ fs.type[st[p].cur] = "dir"

NotDirectory(p) ==
  /\ Locks(p, "walk") /\ st[p].path = <<>> /\ ToParent(st[p].call)
  /\ LET t == Loaded(table, st[p].cur, fs) IN
       /\ t[st[p].cur].type # "dir"
       /\ table' = t /\ Go(p, Error(st[p], <<st[p].cur>>))
  /\ UNCHANGED <<fs, durable, leaked, blind, panic, boot, budget>>

(* The inode itself was asked for. *)
Found(p, call) == Locks(p, "walk") /\ st[p].path = <<>> /\ st[p].call = call

-----------------------------------------------------------------------------
(* Directory::link looks the name up first; a lookup that finds the inode table
   full counts as "not there".  The write may find the disk full. *)
Present(t, d, n) == \E i \in Named(fs, d, n) : CanGet(t, i)
Unseen(t, d, n) == \E i \in Named(fs, d, n) : ~CanGet(t, i)

(* What open does with the inode: it becomes the file's, or, with no file to
   be had, is put. *)
Opened(r, i, puts) ==
  IF r.fd = 0 THEN [Done(r, puts) EXCEPT !.fd = i] ELSE Done(r, puts \o <<i>>)

(* Inode::create when the name is there. *)
CreateHit(p) ==
  /\ AtParent(p, {"create", "mkdir", "mknod"})
  /\ \E i \in Named(fs, st[p].cur, st[p].name) :
       /\ CanGet(table, i)
       /\ table' = Get(Loaded(table, st[p].cur, fs), i)
       /\ Go(p, [st[p] EXCEPT !.pc = "hit", !.cur = i, !.puts = <<st[p].cur>>])
  /\ UNCHANGED <<fs, durable, leaked, blind, panic, boot, budget>>

Hit(p) ==
  /\ Locks(p, "hit")
  /\ table' = Loaded(table, st[p].cur, fs)
  /\ Go(p, IF st[p].call = "create" /\ table'[st[p].cur].type \in {"file", "dev"}
           THEN Opened(st[p], st[p].cur, <<>>)
           ELSE Error(st[p], <<st[p].cur>>))
  /\ UNCHANGED <<fs, durable, leaked, blind, panic, boot, budget>>

(* Inode::alloc marks the first free inode on disk... *)
FreeInums == {i \in Inum : fs.type[i] = "free"}
Alloc(ty) == [fs EXCEPT !.type[Min(FreeInums)] = ty]

(* Directory::link writes an entry; with "..", for a new directory. *)
Linked(f, d, n, i) == [f EXCEPT !.ent[d] = @ \cup {<<n, i>>}]

(* What the call makes. *)
TypeOf(call) == CASE call = "mkdir" -> "dir" [] call = "mknod" -> "dev" [] OTHER -> "file"

(* Inode::create when it is not: alloc needs a free inode and then a slot of the
   table; links are made in the new directory and in the parent, and a failure
   takes the new inode's only link back.  mkdir and mknod put what they made,
   open keeps it. *)
Create(p) ==
  /\ AtParent(p, {"create", "mkdir", "mknod"})
  /\ LET r == st[p]
         d == r.cur
         tab == Loaded(table, d, fs)
         ty == TypeOf(r.call)
         i == Min(FreeInums)
         t == Loaded(Get(tab, i), i, Alloc(ty))
     IN /\ ~Present(table, d, r.name)
        /\ blind' = (blind \/ Unseen(table, d, r.name))
        /\ \/ /\ FreeInums = {}
              /\ table' = tab /\ Go(p, Error(r, <<d>>)) /\ UNCHANGED <<fs, leaked>>
           \/ /\ FreeInums # {} /\ ~CanGet(table, i)
              /\ fs' = Alloc(ty) /\ leaked' = leaked \cup {i}
              /\ table' = tab /\ Go(p, Error(r, <<d>>))
           \/ /\ FreeInums # {} /\ CanGet(table, i)
              /\ table' = [t EXCEPT ![i].nlink = 0]
              /\ fs' = Updated(table', i, Alloc(ty))
              /\ Go(p, Error(r, <<i, d>>)) /\ UNCHANGED leaked
           \/ /\ FreeInums # {} /\ CanGet(table, i) /\ ~Present(t, d, r.name)
              /\ table' = [t EXCEPT ![i].nlink = 1, ![d].nlink = IF ty = "dir" THEN @ + 1 ELSE @]
              /\ fs' = Updated(table', d, Updated(table', i,
                   [Linked(Alloc(ty), d, r.name, i) EXCEPT !.up[i] = IF ty = "dir" THEN d ELSE 0]))
              /\ Go(p, IF r.call = "create" THEN Opened(r, i, <<d>>) ELSE Done(r, <<d, i>>))
              /\ UNCHANGED leaked
  /\ UNCHANGED <<durable, panic, boot, budget>>

IsEmpty(i) == fs.ent[i] = {}

(* sys_unlink: parent and child are locked together; the entry goes, and with
   a directory the parent's link through "..".  The child is unlocked later
   than the parent, but nobody sees it in between. *)
Unlink(p) ==
  /\ AtParent(p, {"unlink"})
  /\ LET r == st[p]
         d == r.cur
         tab == Loaded(table, d, fs)
         T(i) == Loaded(Get(tab, i), i, fs)
     IN \/ /\ \/ Named(fs, d, r.name) = {}
              \/ Unseen(table, d, r.name)
           /\ blind' = (blind \/ Unseen(table, d, r.name))
           /\ table' = tab /\ Go(p, Error(r, <<d>>)) /\ UNCHANGED <<fs, panic>>
        \/ \E i \in Named(fs, d, r.name) :
             /\ CanGet(table, i) /\ UNCHANGED blind
             /\ IF T(i)[i].type = "free" \/ T(i)[i].nlink < 1
                THEN panic' = "unlink nlink < 1" /\ UNCHANGED <<fs, table, st>>
                ELSE IF T(i)[i].type = "dir" /\ ~IsEmpty(i)
                THEN table' = T(i) /\ Go(p, Error(r, <<i, d>>)) /\ UNCHANGED <<fs, panic>>
                ELSE /\ table' = [T(i) EXCEPT ![i].nlink = @ - 1,
                                              ![d].nlink = IF T(i)[i].type = "dir" THEN @ - 1 ELSE @]
                     /\ fs' = Updated(table', d, Updated(table', i,
                          [fs EXCEPT !.ent[d] = @ \ {<<r.name, i>>}]))
                     /\ Go(p, Done(r, <<d, i>>)) /\ UNCHANGED panic
  /\ UNCHANGED <<durable, leaked, boot, budget>>

(* sys_link: the count goes up before the new name is resolved... *)
LinkOld(p, path) ==
  /\ Found(p, "link")
  /\ LET r == st[p]
         t == Loaded(table, r.cur, fs)
         u == [t EXCEPT ![r.cur].nlink = @ + 1]
     IN IF t[r.cur].type = "dir"
        THEN table' = t /\ Go(p, Error(r, <<r.cur>>)) /\ UNCHANGED fs
        ELSE /\ fs' = Updated(u, r.cur, fs)
             /\ Start(p, u, [r EXCEPT !.call = "link2", !.old = r.cur], path)
  /\ UNCHANGED <<durable, leaked, blind, panic, boot, budget>>

(* ... then the entry is made in the new parent ... *)
LinkNew(p) ==
  /\ AtParent(p, {"link2"})
  /\ LET r == st[p]
         d == r.cur
     IN /\ blind' = (blind \/ Unseen(table, d, r.name))
        /\ \/ Go(p, Error(r, <<r.cur>>)) /\ UNCHANGED fs
           \/ /\ ~Present(table, d, r.name)
              /\ fs' = Linked(fs, d, r.name, r.old)
              /\ Go(p, Done(r, <<d, r.old>>))
  /\ table' = Loaded(table, st[p].cur, fs)
  /\ UNCHANGED <<durable, leaked, panic, boot, budget>>

(* ... and every failure after the increment takes it back. *)

LinkBad(p) ==
  /\ Ready(p, "bad")
  /\ table' = [table EXCEPT ![st[p].old].nlink = @ - 1]
  /\ fs' = Updated(table', st[p].old, fs)
  /\ Go(p, Done(st[p], <<st[p].old>>))
  /\ UNCHANGED <<durable, leaked, blind, panic, boot, budget>>

(* sys_open without CREATE; a directory can only be read. *)
Open(p) ==
  /\ Found(p, "open")
  /\ table' = Loaded(table, st[p].cur, fs)
  /\ \/ Go(p, Opened(st[p], st[p].cur, <<>>))
     \/ table'[st[p].cur].type = "dir" /\ Go(p, Error(st[p], <<st[p].cur>>))
  /\ UNCHANGED <<fs, durable, leaked, blind, panic, boot, budget>>

ChdirKeepsOld(p) ==
  /\ Found(p, "chdir")
  /\ table' = Loaded(table, st[p].cur, fs)
  /\ LET r == st[p] IN
       Go(p, IF table'[r.cur].type # "dir" THEN Error(r, <<r.cur>>)
             ELSE [Done(r, <<>>) EXCEPT !.cwd = r.cur])
  /\ UNCHANGED <<fs, durable, leaked, blind, panic, boot, budget>>

Chdir(p) ==
  /\ Found(p, "chdir")
  /\ table' = Loaded(table, st[p].cur, fs)
  /\ LET r == st[p] IN
       Go(p, IF table'[r.cur].type # "dir" THEN Error(r, <<r.cur>>)
             ELSE [Done(r, <<r.cwd>>) EXCEPT !.cwd = r.cur])
  /\ UNCHANGED <<fs, durable, leaked, blind, panic, boot, budget>>

(* sys_pwd takes a second reference to the working directory. *)
PwdStart(p) ==
  /\ Ready(p, "idle") /\ budget > 0 /\ budget' = budget - 1
  /\ table' = [table EXCEPT ![st[p].cwd].ref = @ + 1]
  /\ Go(p, [st[p] EXCEPT !.pc = "up", !.call = "pwd", !.cur = st[p].cwd])
  /\ UNCHANGED <<fs, durable, leaked, blind, panic, boot>>

(* make_path, one level: lock the directory and look ".." up ... *)
PwdUp(p) ==
  /\ Locks(p, "up")
  /\ LET r == st[p]
         d == r.cur
         t == Loaded(table, d, fs)
         parents == {i \in Named(fs, d, DotDot) : CanGet(t, i)}
     IN IF d = ROOT
        THEN table' = t /\ Go(p, [Done(r, <<d>>) EXCEPT !.call = "pwd", !.path = r.path]) /\ UNCHANGED panic
        ELSE IF t[d].type # "dir"
        THEN panic' = "dirlookup not DIR" /\ UNCHANGED <<table, st>>
        ELSE /\ UNCHANGED panic
             /\ \/ parents = {} /\ table' = t /\ Go(p, Done(r, <<d>>))
                \/ \E i \in parents :
                     /\ table' = Get(t, i)
                     /\ Go(p, [r EXCEPT !.pc = "name", !.cur = i, !.old = d, !.stale = @ \/ fs.nlink[d] = 0])
  /\ UNCHANGED <<fs, durable, leaked, blind, boot, budget>>

(* Names are pushed on the way up and reversed at the end. *)
PushedUnreversed(path, n) == path \o <<n>>
Pushed(path, n) == <<n>> \o path

(* ... then lock the parent and look for an entry with the directory's number.
   The type of the parent is not looked at: what is read from a file may be any
   name.  It may not be there, or not be a string (a name cut at DIRSIZE). *)
PwdName(p) ==
  /\ Locks(p, "name")
  /\ LET r == st[p]
         d == r.cur
         names == IF fs.type[d] = "dir" THEN {e[1] : e \in {x \in fs.ent[d] : x[2] = r.old}} ELSE Name
     IN \/ Go(p, Done(r, <<r.old, d>>))
        \/ \E n \in names :
             Go(p, [r EXCEPT !.pc = "up", !.puts = <<r.old>>, !.old = 0, !.path = Pushed(@, n)])
  /\ table' = Loaded(table, st[p].cur, fs)
  /\ UNCHANGED <<fs, durable, leaked, blind, panic, boot, budget>>

(* File::close of the last reference to the file. *)
Close(p) ==
  /\ Ready(p, "idle") /\ st[p].fd # 0
  /\ Go(p, [Done(st[p], <<st[p].fd>>) EXCEPT !.fd = 0])
  /\ UNCHANGED <<fs, durable, table, leaked, blind, panic, boot, budget>>

(* The operation ends; the last one to end commits the group. *)
End(p) ==
  /\ Ready(p, "end")
  /\ Go(p, Idle(st[p].cwd, st[p].fd))
  /\ durable' = IF \A q \in Proc \ {p} : st[q].pc = "idle" THEN fs ELSE durable
  /\ UNCHANGED <<fs, table, leaked, blind, panic, boot, budget>>

-----------------------------------------------------------------------------
(* Power is lost, or the kernel has panicked and is restarted.  Bound: not
   before the last call has begun. *)
Crash ==
  /\ boot = 0 /\ (budget = 0 \/ panic # "")
  /\ fs' = durable
  /\ table' = FreeTable
  /\ st' = [p \in Proc |-> Idle(0, 0)]
  /\ panic' = "" /\ boot' = 1
  /\ UNCHANGED <<durable, leaked, blind, budget>>

(* Inode::reclaim at boot, one inode at a time, each in its own operation; the
   last is followed by the first process. *)
Reclaim ==
  /\ boot # 0
  /\ LET orphan == fs.type[boot] # "free" /\ fs.nlink[boot] = 0
     IN /\ fs' = IF orphan THEN Freed(fs, boot) ELSE fs
        /\ durable' = fs'
        /\ leaked' = leaked \ {boot}
  /\ boot' = IF boot = NInum THEN 0 ELSE boot + 1
  /\ IF boot = NInum
     THEN table' = BootTable(fs'.nlink[ROOT]) /\ st' = [p \in Proc |-> Idle(ROOT, 0)]
     ELSE UNCHANGED <<table, st>>
  /\ UNCHANGED <<blind, panic, budget>>

Step(p) ==
  \/ PutFree(p) \/ PutDrop(p) \/ LockNoType(p) \/ Walk(p) \/ NotDirectory(p)
  \/ CreateHit(p) \/ Hit(p) \/ Create(p) \/ Unlink(p)
  \/ \E path \in Paths : ~path.abs /\ LinkOld(p, path)  \* bound: a new name in the current directory
  \/ LinkNew(p) \/ LinkBad(p) \/ Open(p) \/ Chdir(p) \/ PwdUp(p) \/ PwdName(p) \/ End(p)

Call(p) ==
  \/ \E call \in {"create", "mkdir", "unlink", "link", "open", "chdir"}, path \in Paths :
       Begin(p, call, path)
  \/ \E path \in Paths : ~path.abs /\ Begin(p, "mknod", path)  \* bound: as for link
  \/ PwdStart(p) \/ Close(p)

Next == Crash \/ Reclaim \/ \E p \in Proc : Step(p) \/ Call(p)

Spec == Init /\ [][Next]_vars

-----------------------------------------------------------------------------
Count(S) == Cardinality(S)

(* Values have their types, and the inode table has no more than NINODE slots. *)
TypeOK ==
  /\ \A f \in {fs, durable} :
       /\ f.type \in [Inum -> {"free", "file", "dir", "dev"}]
       /\ f.nlink \in [Inum -> Nat] /\ f.lost \in [Inum -> Nat]
       /\ f.ent \in [Inum -> SUBSET (Name \X Inum)] /\ f.up \in [Inum -> 0..NInum]
  /\ table \in [Inum -> [ref : Nat, valid : BOOLEAN, type : {"free", "file", "dir", "dev"}, nlink : Nat]]
  /\ Count({i \in Inum : table[i].ref > 0}) <= NINODE
  /\ \A p \in Proc : st[p].cwd \in 0..NInum /\ st[p].fd \in 0..NInum
  /\ leaked \subseteq Inum /\ blind \in BOOLEAN /\ boot \in 0..NInum /\ budget \in 0..MaxCalls

Linking(i) == {p \in Proc : st[p].old = i /\ (st[p].pc = "bad" \/ st[p].call = "link2")}

(* The reference count of an inode in the table is the number of working
   directories, open files and calls under way that hold it: every early return
   of resolve_inner, create, link, unlink, open and chdir puts what it took. *)
RefExact ==
  \A i \in Inum : table[i].ref =
    FoldSet(LAMBDA p, n : n + Count({k \in DOMAIN st[p].puts : st[p].puts[k] = i}), 0, Proc)
    + Count({p \in Proc : st[p].cwd = i}) + Count({p \in Proc : st[p].fd = i}) + Count(Linking(i))
    + Count({p \in Proc : st[p].cur = i /\ st[p].pc \in {"walk", "hit", "up", "name"}})
    + Count({p \in Proc : st[p].old = i /\ st[p].pc = "name"})

(* A valid copy in the inode table agrees with the disk, across the window in
   which put frees an inode with the table unlocked and create takes it again. *)
Coherent ==
  \A i \in Inum : table[i].valid /\ table[i].ref > 0 =>
    table[i].type = fs.type[i] /\ table[i].nlink = fs.nlink[i]

(* The inode table is exact: an inode is in it as long as someone refers to it,
   and what is in it is what the disk says. *)
TableExact == TypeOK /\ RefExact /\ Coherent

Entries(i) == UNION {{<<d, e>> : e \in {x \in fs.ent[d] : x[2] = i}} : d \in Inum}
Subdirs(i) == {j \in Inum \ {ROOT} : fs.type[j] = "dir" /\ Entries(j) # {} /\ fs.up[j] = i}

(* The link count of an inode is the number of entries that name it, plus the
   linked directories whose ".." it is, plus a link call between its increment
   and its entry (or its undoing), plus the entries that vanished with a
   directory that was removed while a process still created files in it. *)
NlinkExact ==
  \A i \in Inum : fs.nlink[i] =
    Count(Entries(i)) + Count(Subdirs(i)) + Count(Linking(i)) + fs.lost[i] + (IF i = ROOT THEN 1 ELSE 0)

(* No entry names a free inode; a directory has one entry at most, and its ".."
   is the directory that entry is in.  Holds on disk after a crash as well. *)
TreeShape ==
  \A d \in Inum : \A e \in fs.ent[d] :
    /\ fs.type[d] = "dir" /\ fs.type[e[2]] # "free"
    /\ fs.type[e[2]] = "dir" => fs.up[e[2]] = d /\ Count(Entries(e[2])) = 1

(* No directory has two entries of one name, as long as no lookup was refused
   for want of a slot of the inode table (create and link take that for "no
   such name"). *)
UniqueNames ==
  blind \/ \A d \in Inum : \A e, x \in fs.ent[d] : e[1] = x[1] => e = x

(* An inode without links is freed with its last reference, except when create
   marked it and got no slot, or when put's window let it be taken and unlinked
   again; reclaim frees what a crash left. *)
OrphanOwned ==
  \A i \in Inum : fs.type[i] # "free" /\ fs.nlink[i] = 0 =>
    IF boot = 0 THEN table[i].ref > 0 \/ i \in leaked ELSE i >= boot

(* The tree on the disk is sound at every moment and after every crash: link
   counts, the shape of the tree, unique names, and no inode without links that
   nobody will free. *)
LinksExact == NlinkExact /\ TreeShape /\ UniqueNames /\ OrphanOwned

(* The assertions on inodes: unlink never meets an inode without links; lock
   meets a free inode, and lookup something other than a directory, only through
   the ".." of a removed directory. *)
PanicOnlyAbove ==
  /\ panic # "unlink nlink < 1"
  /\ panic # "" => \E p \in Proc : st[p].stale /\ fs.type[st[p].cur] # "dir"

(* The path that pwd returns leads from the root to the working directory, unless
   that was removed meanwhile: make_path holds one lock at a time and the tree
   changes under it. *)
PwdExact ==
  \A p \in Proc : st[p].pc = "end" /\ st[p].call = "pwd" /\ fs.nlink[st[p].cwd] > 0 /\ ~blind =>
    st[p].cwd \in FoldLeft(LAMBDA ds, n : UNION {Named(fs, d, n) : d \in ds}, {ROOT}, st[p].path)
=============================================================================
