--------------------------------- MODULE Vm ---------------------------------
(***************************************************************************)
(* User memory: page tables, copy-on-write fork, page faults, lazy growth, *)
(* exec, exit and the reference counts of physical pages (vm.rs,           *)
(* kalloc.rs, exec.rs, proc.rs, trap.rs), with processes on several CPUs.  *)
(*                                                                         *)
(* A page table belongs to one process, so the steps are those between     *)
(* which another CPU can be seen: an allocation, an increment of a         *)
(* reference count, its decrement, and the return of a page to the         *)
(* allocator.  A page holds one value.  Page-table pages, the trampoline   *)
(* and the trapframe are left out: a mapping may fail for want of one.     *)
(***************************************************************************)
EXTENDS Integers, FiniteSets, FiniteSetsExt

CONSTANTS
  Proc,    \* process slots
  INITPROC,    \* the first process, which never exits
  NFrame,  \* physical pages
  NPage,   \* bound: user pages of a page table
  PGSIZE,  \* addresses of a page
  NSeg,    \* pages of a program's segments
  RefMod,  \* values of a reference count: 256 in the code
  MaxCopies, \* bound: physical pages for one page number
  Stored,  \* bound: pages that are written to; the others are only touched
  MaxCalls,\* bound: calls of fork, exec and sbrk
  NONE

ASSUME VmAssumption ==
  /\ INITPROC \in Proc /\ PGSIZE \in Nat \ {0} /\ NSeg \in Nat \ {0}
  /\ NPage \in Nat /\ NPage > NSeg + 2 /\ MaxCalls \in Nat
  /\ RefMod \in Nat /\ RefMod > Cardinality(Proc)
  /\ NFrame \in Nat /\ NFrame >= NSeg + 2

Page == 0..(NPage - 1)
(* A physical page only ever serves one page number, so that is part of its
   name; NFrame of them can be in use. *)
Frame == Page \X (1..MaxCopies)
Val == {0, 1}
Segments == 0..(NSeg - 1)
Guard == NSeg                   \* the page below the stack
ImagePages == NSeg + 2          \* segments, guard page and stack
RoundUp(n) == (n + PGSIZE - 1) \div PGSIZE

VARIABLES
  free,   \* what the buddy allocator can hand out
  refs,   \* PAGE_REFS
  mem,    \* contents of the physical pages
  pt,     \* page table of each process
  new,    \* page table that exec builds, and then the one it replaces
  size,   \* data.size, in addresses
  k,      \* what each process is doing
  parent, \* PROC_TABLE.parents
  leaked, \* history: pages of page tables that exec forgot
  panic,  \* history: wait's expect failed
  budget  \* calls that may still be made

vars == <<free, refs, mem, pt, new, size, k, parent, leaked, panic, budget>>
memory == <<free, refs, mem, pt, new>>

NoPte == [pa |-> NONE, w |-> FALSE, cow |-> FALSE, u |-> FALSE]
Pte(f, w, u) == [pa |-> f, w |-> w, cow |-> FALSE, u |-> u]
Mapped(e) == e.pa # NONE
NoTable == [g \in Page |-> NoPte]

At(pc) == [pc |-> pc, i |-> 0, hi |-> 0, q |-> NONE, fr |-> NONE, v |-> 0, nxt |-> "user"]
Go(p, r) == k' = [k EXCEPT ![p] = r]
Up == panic = ""
Live(p) == k[p].pc \notin {"unused", "embryo"}

(* The image of the first program, as exec leaves it, grown by one address. *)
Init ==
  /\ free = Frame \ {<<g, 1>> : g \in 0..(ImagePages - 1)}
  /\ refs = [f \in Frame |-> IF f \in free THEN 0 ELSE 1]
  /\ mem = [f \in Frame |-> 0]
  /\ pt = [p \in Proc |-> [g \in Page |->
       IF p = INITPROC /\ g < ImagePages THEN Pte(<<g, 1>>, g >= NSeg, g # Guard) ELSE NoPte]]
  /\ new = [p \in Proc |-> NoTable]
  /\ size = [p \in Proc |-> IF p = INITPROC THEN ImagePages * PGSIZE + 1 ELSE 0]
  /\ k = [p \in Proc |-> At(IF p = INITPROC THEN "user" ELSE "unused")]
  /\ parent = [p \in Proc |-> NONE]
  /\ leaked = {} /\ panic = "" /\ budget = MaxCalls

-----------------------------------------------------------------------------
(* Page allocator. *)

NoMemory == Cardinality(Frame \ free) = NFrame
FrameFor(g) == <<g, Min({n \in 1..MaxCopies : <<g, n>> \in free})>>
Alloc(f) == ~NoMemory /\ free' = free \ {f}

(* dealloc: the count goes down, and only the one who took it from 1 gives the
   page back, in a step of its own. *)
IsLast(f) == refs[f] = 1
Free(f) == free' = free \cup {f} /\ mem' = [mem EXCEPT ![f] = 0]   \* nobody reads it before it is zeroed
Dropped(f) == [refs EXCEPT ![f] = (@ - 1) % RefMod]

-----------------------------------------------------------------------------
(* Uvm::unmap with free set: pages k.i to k.hi - 1 of a table, absent ones
   skipped; then k.nxt says what comes next.  k.q is the process whose table it
   is, or NONE for the table exec has put aside. *)
Unmapping(p, q, lo, hi, nxt) == [At("unmap") EXCEPT !.q = q, !.i = lo, !.hi = hi, !.nxt = nxt]
TableOf(p) == IF k[p].q = NONE THEN new[p] ELSE pt[k[p].q]
Present(p) == {g \in k[p].i..(k[p].hi - 1) : Mapped(TableOf(p)[g])}
Cleared(p, g) ==
  IF k[p].q = NONE THEN new' = [new EXCEPT ![p][g] = NoPte] /\ UNCHANGED pt
  ELSE pt' = [pt EXCEPT ![k[p].q][g] = NoPte] /\ UNCHANGED new

Unmap(p) ==
  /\ Up /\ k[p].pc = "unmap" /\ Present(p) # {}
  /\ LET g == Min(Present(p))
         f == TableOf(p)[g].pa
     IN /\ refs' = Dropped(f)
        /\ IF IsLast(f) THEN Go(p, [k[p] EXCEPT !.pc = "unmapfree", !.i = g]) /\ UNCHANGED <<pt, new>>
           ELSE Go(p, [k[p] EXCEPT !.i = g + 1]) /\ Cleared(p, g)
  /\ UNCHANGED <<free, mem, size, parent, leaked, panic, budget>>

UnmapFree(p) ==
  /\ Up /\ k[p].pc = "unmapfree"
  /\ Free(TableOf(p)[k[p].i].pa)
  /\ Cleared(p, k[p].i)
  /\ Go(p, [k[p] EXCEPT !.pc = "unmap", !.i = @ + 1])
  /\ UNCHANGED <<refs, size, parent, leaked, panic, budget>>

(* The range is done: sbrk stores the new size (k.v), a failed fork or a wait
   has freed the slot of the child, exec returns. *)
UnmapDone(p) ==
  /\ Up /\ k[p].pc = "unmap" /\ Present(p) = {}
  /\ CASE k[p].nxt = "shrink" ->
            size' = [size EXCEPT ![p] = k[p].v] /\ Go(p, At("user")) /\ UNCHANGED parent
       [] k[p].nxt = "freed" ->
            /\ size' = [size EXCEPT ![k[p].q] = 0] /\ parent' = [parent EXCEPT ![k[p].q] = NONE]
            /\ k' = [k EXCEPT ![p] = At("user"), ![k[p].q] = At("unused")]
       [] OTHER -> Go(p, At("user")) /\ UNCHANGED <<size, parent>>
  /\ UNCHANGED <<memory, leaked, panic, budget>>

-----------------------------------------------------------------------------
(* exit: children go to init; the memory stays until the parent has waited. *)
Dies(p) ==
  /\ Go(p, At("zombie"))
  /\ parent' = [q \in Proc |-> IF parent[q] = p THEN INITPROC ELSE parent[q]]

Exit(p) ==
  /\ Up /\ k[p].pc = "user" /\ p # INITPROC
  /\ Dies(p)
  /\ UNCHANGED <<memory, size, leaked, panic, budget>>

(* How a process uses an address: "read" by a load or by copy_from, "store" by a
   store, "to" by copy_to, "wait" by the copy_to of a child's exit status. *)
Reap(c) == Unmapping(NONE, c, 0, RoundUp(size[c]), "freed")

Resumes(p, how, c) == Go(p, IF how = "wait" THEN Reap(c) ELSE At("user"))

(* A fault that cannot be resolved kills the process, or fails the system call
   and changes nothing, or trips the expect of wait. *)
Fails(p, how) ==
  CASE how \in {"read", "store"} -> p # INITPROC /\ Dies(p) /\ UNCHANGED panic
    [] how = "wait" -> panic' = "wait copy out xstate" /\ UNCHANGED <<k, parent>>
    [] OTHER -> FALSE

Writes(how) == how \in {"store", "to", "wait"}

(* The page is mapped for this access: the load or store happens, or walk_addr
   succeeds; copy_to refuses a page that is not writable, be it copy-on-write. *)
Hits(e, how) == Mapped(e) /\ e.u /\ (how = "store" => e.w)
Refuses(e, how) == how \in {"to", "wait"} /\ ~e.w

Access(p, va, how, v, c) ==
  LET e == pt[p][va \div PGSIZE] IN
  /\ Hits(e, how)
  /\ Writes(how)   \* what is only read changes nothing
  /\ IF Refuses(e, how) THEN Fails(p, how) /\ UNCHANGED mem
     ELSE mem' = [mem EXCEPT ![e.pa] = v] /\ Resumes(p, how, c) /\ UNCHANGED <<parent, panic>>
  /\ UNCHANGED <<free, refs, pt, new, size, leaked, budget>>

(* Uvm::vmfault. *)
OutOfBounds(p, va) == va >= size[p]

FaultFails(p, va, how) ==
  LET e == pt[p][va \div PGSIZE] IN
  /\ ~Hits(e, how)
  /\ OutOfBounds(p, va) \/ (Mapped(e) /\ ~e.cow) \/ NoMemory \/ ~Mapped(e)  \* no page, or no page-table page
  /\ Fails(p, how)
  /\ UNCHANGED <<memory, size, leaked, budget>>

(* Absent: a zeroed page is mapped, and copy_to goes on with it. *)
FaultLazy(p, va, how, v, c) ==
  LET g == va \div PGSIZE IN
  /\ ~Mapped(pt[p][g]) /\ ~OutOfBounds(p, va)
  /\ LET f == FrameFor(g) IN
       /\ Alloc(f)
       /\ refs' = [refs EXCEPT ![f] = 1]
       /\ mem' = [mem EXCEPT ![f] = IF how \in {"to", "wait"} THEN v ELSE 0]
       /\ pt' = [pt EXCEPT ![p][g] = Pte(f, TRUE, TRUE)]
  /\ Resumes(p, how, c)
  /\ UNCHANGED <<new, size, parent, leaked, panic, budget>>

(* Copy-on-write: the page is copied and the copy installed; the reference to
   the original is dropped afterwards. *)
FaultCowZeroed(p, va, how, v, c) ==
  LET g == va \div PGSIZE
      e == pt[p][g]
      f == FrameFor(g)
  IN /\ Mapped(e) /\ e.cow /\ ~Hits(e, how) /\ ~OutOfBounds(p, va)
     /\ Alloc(f)
     /\ refs' = [refs EXCEPT ![f] = 1] /\ UNCHANGED mem
     /\ pt' = [pt EXCEPT ![p][g] = Pte(f, TRUE, e.u)]
     /\ Go(p, [At("drop") EXCEPT !.fr = e.pa, !.nxt = how, !.q = c])
     /\ UNCHANGED <<new, size, parent, leaked, panic, budget>>

FaultCow(p, va, how, v, c) ==
  LET g == va \div PGSIZE
      e == pt[p][g]
  IN /\ Mapped(e) /\ e.cow /\ ~Hits(e, how) /\ ~OutOfBounds(p, va)
     /\ LET f == FrameFor(g) IN
          /\ Alloc(f)
          /\ refs' = [refs EXCEPT ![f] = 1]
          /\ mem' = [mem EXCEPT ![f] = IF how \in {"to", "wait"} THEN v ELSE mem[e.pa]]
          /\ pt' = [pt EXCEPT ![p][g] = Pte(f, TRUE, e.u)]
     /\ Go(p, [At("drop") EXCEPT !.fr = e.pa, !.nxt = how, !.q = c])
     /\ UNCHANGED <<new, size, parent, leaked, panic, budget>>

FaultDrop(p) ==
  /\ Up /\ k[p].pc = "drop"
  /\ refs' = Dropped(k[p].fr)
  /\ IF IsLast(k[p].fr) THEN Go(p, [k[p] EXCEPT !.pc = "dropfree"]) ELSE Resumes(p, k[p].nxt, k[p].q)
  /\ UNCHANGED <<free, mem, pt, new, size, parent, leaked, panic, budget>>

FaultFree(p) ==
  /\ Up /\ k[p].pc = "dropfree"
  /\ Free(k[p].fr)
  /\ Resumes(p, k[p].nxt, k[p].q)
  /\ UNCHANGED <<refs, pt, new, size, parent, leaked, panic, budget>>

Touch(p, va, how, v, c) ==
  /\ Up /\ k[p].pc = "user"
  /\ Access(p, va, how, v, c) \/ FaultFails(p, va, how) \/ FaultLazy(p, va, how, v, c) \/ FaultCow(p, va, how, v, c)

(* Stores are of another value than zero, so that a page that falls back to zero
   can be told. *)
Value(va) == IF va \div PGSIZE \in Stored THEN 1 ELSE 0

(* wait finds zombie c and copies its status out, if asked to, before it frees
   the child. *)
Wait(p, c, va) == k[c].pc = "zombie" /\ parent[c] = p /\ Touch(p, va, "wait", Value(va), c)

WaitNoStatus(p, c) ==
  /\ Up /\ k[p].pc = "user" /\ k[c].pc = "zombie" /\ parent[c] = p
  /\ Go(p, Reap(c))
  /\ UNCHANGED <<memory, size, parent, leaked, panic, budget>>

-----------------------------------------------------------------------------
(* fork: a slot, then Uvm::copy page by page. *)
ForkStart(p, c) ==
  /\ Up /\ k[p].pc = "user" /\ k[c].pc = "unused" /\ budget > 0
  /\ k' = [k EXCEPT ![p] = [At("fork") EXCEPT !.q = c], ![c] = At("embryo")]
  /\ budget' = budget - 1
  /\ UNCHANGED <<memory, size, parent, leaked, panic>>

ToCopy(p) == {g \in k[p].i..(RoundUp(size[p]) - 1) : Mapped(pt[p][g])}
Shared(e) == IF e.w THEN [e EXCEPT !.w = FALSE, !.cow = TRUE] ELSE e

(* The parent's entry loses its write bit, the child's is a copy of it... *)
ForkPage(p) ==
  /\ Up /\ k[p].pc = "fork" /\ ToCopy(p) # {}
  /\ LET g == Min(ToCopy(p))
         e == Shared(pt[p][g])
     IN /\ pt' = [pt EXCEPT ![p][g] = e, ![k[p].q][g] = e]
        /\ Go(p, [k[p] EXCEPT !.pc = "forkinc", !.i = g])
  /\ UNCHANGED <<free, refs, mem, new, size, parent, leaked, panic, budget>>

(* ... and the page gets its reference. *)
ForkIncMissing(p) ==
  /\ Up /\ k[p].pc = "forkinc"
  /\ Go(p, [k[p] EXCEPT !.pc = "fork", !.i = @ + 1])
  /\ UNCHANGED <<memory, size, parent, leaked, panic, budget>>

ForkInc(p) ==
  /\ Up /\ k[p].pc = "forkinc"
  /\ refs' = [refs EXCEPT ![pt[p][k[p].i].pa] = (@ + 1) % RefMod]
  /\ Go(p, [k[p] EXCEPT !.pc = "fork", !.i = @ + 1])
  /\ UNCHANGED <<free, mem, pt, new, size, parent, leaked, panic, budget>>

(* map_pages finds no page for the child's page table: what the child has is
   unmapped, and its slot freed. *)
ForkFails(p) ==
  /\ Up /\ k[p].pc = "fork" /\ ToCopy(p) # {}
  /\ LET g == Min(ToCopy(p)) IN
       /\ pt' = [pt EXCEPT ![p][g] = Shared(@)]
       /\ Go(p, Unmapping(p, k[p].q, 0, g, "freed"))
  /\ UNCHANGED <<free, refs, mem, new, size, parent, leaked, panic, budget>>

ForkDone(p) ==
  /\ Up /\ k[p].pc = "fork" /\ ToCopy(p) = {}
  /\ size' = [size EXCEPT ![k[p].q] = size[p]]
  /\ parent' = [parent EXCEPT ![k[p].q] = p]
  /\ k' = [k EXCEPT ![p] = At("user"), ![k[p].q] = At("user")]
  /\ UNCHANGED <<memory, leaked, panic, budget>>

-----------------------------------------------------------------------------
(* sbrk: growth is lazy, shrinking gives pages back. *)
Grow(p, n) ==
  /\ Up /\ k[p].pc = "user" /\ budget > 0
  /\ size[p] + n <= NPage * PGSIZE      \* bound
  /\ size' = [size EXCEPT ![p] = @ + n]
  /\ budget' = budget - 1
  /\ UNCHANGED <<memory, k, parent, leaked, panic>>

Shrink(p, n) ==
  /\ Up /\ k[p].pc = "user" /\ budget > 0 /\ n <= size[p]
  /\ Go(p, [Unmapping(p, p, RoundUp(size[p] - n), RoundUp(size[p]), "shrink") EXCEPT !.v = size[p] - n])
  /\ budget' = budget - 1
  /\ UNCHANGED <<memory, size, parent, leaked, panic>>

-----------------------------------------------------------------------------
(* exec builds a page table beside the old one, page by page: segments, read-only
   or not, with what the file holds, then the guard page and the stack. *)
ExecStart(p) ==
  /\ Up /\ k[p].pc = "user" /\ budget > 0
  /\ Go(p, At("exec"))
  /\ budget' = budget - 1
  /\ UNCHANGED <<memory, size, parent, leaked, panic>>

Image == [g \in Page |-> IF g \in Segments THEN 1 ELSE 0]

ExecPage(p) ==
  /\ Up /\ k[p].pc = "exec" /\ k[p].i < ImagePages
  /\ \E w \in IF k[p].i \in Segments THEN BOOLEAN ELSE {TRUE} : LET f == FrameFor(k[p].i) IN
       /\ Alloc(f)
       /\ refs' = [refs EXCEPT ![f] = 1]
       /\ mem' = [mem EXCEPT ![f] = Image[k[p].i]]
       /\ new' = [new EXCEPT ![p][k[p].i] = Pte(f, w, k[p].i # Guard)]
  /\ Go(p, [k[p] EXCEPT !.i = @ + 1])
  /\ UNCHANGED <<pt, size, parent, leaked, panic, budget>>

(* No memory, a bad header, a short read of a segment, arguments that do not
   fit: the new table is freed and the old image goes on. *)
ExecFails(p) ==
  /\ Up /\ k[p].pc = "exec"
  /\ Go(p, Unmapping(p, NONE, 0, k[p].i, "user"))
  /\ UNCHANGED <<memory, size, parent, leaked, panic, budget>>

(* A program header cannot be read: the new table is forgotten. *)
ExecForgets(p) ==
  /\ Up /\ k[p].pc = "exec" /\ k[p].i <= NSeg
  /\ leaked' = leaked \cup ({new[p][g].pa : g \in Page} \ {NONE})
  /\ new' = [new EXCEPT ![p] = NoTable]
  /\ Go(p, At("user"))
  /\ UNCHANGED <<free, refs, mem, pt, size, parent, panic, budget>>

ExecCommit(p) ==
  /\ Up /\ k[p].pc = "exec" /\ k[p].i = ImagePages
  /\ pt' = [pt EXCEPT ![p] = new[p]]
  /\ new' = [new EXCEPT ![p] = pt[p]]
  /\ size' = [size EXCEPT ![p] = ImagePages * PGSIZE]
  /\ Go(p, Unmapping(p, NONE, 0, RoundUp(size[p]), "user"))
  /\ UNCHANGED <<free, refs, mem, parent, leaked, panic, budget>>

-----------------------------------------------------------------------------
Step(p) ==
  \/ Unmap(p) \/ UnmapFree(p) \/ UnmapDone(p) \/ FaultDrop(p) \/ FaultFree(p)
  \/ ForkPage(p) \/ ForkInc(p) \/ ForkFails(p) \/ ForkDone(p)
  \/ ExecPage(p) \/ ExecFails(p) \/ ExecForgets(p) \/ ExecCommit(p)

(* Bound: the first address of each page, and the last of all. *)
Address == {g * PGSIZE : g \in Page} \cup {NPage * PGSIZE - 1}

Call(p) ==
  \/ \E c \in Proc : ForkStart(p, c) \/ WaitNoStatus(p, c) \/ \E va \in Address : Wait(p, c, va)
  \/ \E n \in {1, PGSIZE + 1, NPage * PGSIZE} : Grow(p, n) \/ Shrink(p, n)
  \/ ExecStart(p) \/ Exit(p)
  \/ \E va \in Address, how \in {"read", "store", "to"} :
       Touch(p, va, how, Value(va), NONE)

Next == \E p \in Proc : Step(p) \/ Call(p)

Spec == Init /\ [][Next]_vars

-----------------------------------------------------------------------------
(* Values have their types; a size is a number of addresses below the bound. *)
TypeOK ==
  /\ free \subseteq Frame /\ Cardinality(Frame \ free) <= NFrame
  /\ refs \in [Frame -> 0..(RefMod - 1)] /\ mem \in [Frame -> Val]
  /\ \A p \in Proc, g \in Page :
       \A e \in {pt[p][g], new[p][g]} : e.pa \in Frame \cup {NONE} /\ ~(e.w /\ e.cow)
  /\ size \in [Proc -> 0..(NPage * PGSIZE)]
  /\ parent \in [Proc -> Proc \cup {NONE}]

Maps(f) == {<<p, g>> \in Proc \X Page : pt[p][g].pa = f}
NewMaps(f) == {<<p, g>> \in Proc \X Page : new[p][g].pa = f}
Doing(pc, f) == {p \in Proc : k[p].pc = pc /\ f = (IF pc = "forkinc" THEN pt[p][k[p].i].pa
                                     ELSE IF pc = "unmapfree" THEN TableOf(p)[k[p].i].pa ELSE k[p].fr)}

(* The reference count of a page is the number of page-table entries that map
   it, up to the one that fork has not counted yet or that unmap has already
   given up, the original that a fault still has to drop, and pages of tables
   that exec forgot.  So it never wraps: it is at most the number of processes. *)
RefsExact ==
  \A f \in Frame :
    refs[f] + Cardinality(Doing("forkinc", f)) + Cardinality(Doing("unmapfree", f))
    = Cardinality(Maps(f)) + Cardinality(NewMaps(f)) + Cardinality(Doing("drop", f))
      + Cardinality({f} \cap leaked)

(* A page is with the allocator exactly when nobody refers to it, except between
   the decrement that found it unreferenced and its return: no page in use is
   handed out, none is given back twice, and none is lost but by exec. *)
FreeExact ==
  \A f \in Frame :
    LET returning == Doing("unmapfree", f) \cup Doing("dropfree", f) IN
    /\ f \in free <=> refs[f] = 0 /\ returning = {}
    /\ Cardinality(returning) <= 1

(* A page that is mapped writable is mapped once: no process sees another's
   stores after fork, whichever of them faults first. *)
NoSharedWrite ==
  \A p \in Proc, g \in Page :
    pt[p][g].w => Cardinality(Maps(pt[p][g].pa)) + Cardinality(NewMaps(pt[p][g].pa)) = 1

(* No page is mapped at or above the size of the process, and a table that is
   being freed has its pages left in the range still to be unmapped: free_walk
   finds no leaf, on the error paths of fork and exec as well. *)
TableWithinSize ==
  \A p \in Proc :
    /\ k[p].pc \notin {"embryo"} => \A g \in Page : Mapped(pt[p][g]) => g < RoundUp(size[p])
    /\ k[p].pc = "unmap" /\ k[p].nxt # "shrink" =>
         \A g \in Page : Mapped(TableOf(p)[g]) => g \in k[p].i..(k[p].hi - 1)
    /\ k[p].pc \notin {"exec", "unmap", "unmapfree"} => new[p] = NoTable

(* Physical pages are accounted for exactly, through fork, faults, grow, exec,
   exit and all their failures: counts, the free list, sole ownership of what
   is writable, and tables that hold no page outside the process. *)
FramesExact == TypeOK /\ RefsExact /\ FreeExact /\ NoSharedWrite /\ TableWithinSize

Unmapper(p) == {x \in Proc : k[x].pc \in {"unmap", "unmapfree"} /\ k[x].q = p}

(* Processes have private memories: copy-on-write, lazy pages, the reuse of
   physical pages and the steps of exec and exit are not to be seen. *)
Private == INSTANCE PrivateMemory WITH
  Zero <- 0,
  view <- [p \in Proc |-> [g \in Page |->
             IF Live(p) /\ Mapped(pt[p][g]) THEN mem[pt[p][g].pa] ELSE 0]],
  limit <- [p \in Proc |-> IF Unmapper(p) # {} THEN k[CHOOSE x \in Unmapper(p) : TRUE].i
                           ELSE RoundUp(size[p])]

ImplementsPrivateMemory == Private!Spec
=============================================================================
