------------------------------ MODULE InodeData ------------------------------
(***************************************************************************)
(* The contents of files: the block bitmap, direct and indirect addresses, *)
(* Inode::map, read, write and trunc (fs.rs), and the loops of File::read  *)
(* and File::write with their shared offsets (file.rs).                    *)
(*                                                                         *)
(* An inode is worked on under its sleep lock, one step per block, since   *)
(* other inodes take blocks from the same bitmap meanwhile.  The buffer    *)
(* cache is seen where it shows: a block has the contents of its buffer    *)
(* and the contents that were logged, and an unpinned buffer may be        *)
(* recycled.  Crashes are the subject of module Log.                       *)
(***************************************************************************)
EXTENDS Integers, FiniteSets, FiniteSetsExt

CONSTANTS
  Proc, Inode, File,
  NBlock,      \* data blocks on disk
  NDIRECT, NINDIRECT, BSIZE, MAXOPBLOCKS,
  Opens,       \* inodes the open files may be on
  Lengths,     \* bound: lengths of reads and writes
  MaxCalls,    \* bound: system calls made
  NONE

ASSUME InodeDataAssumption ==
  /\ NBlock \in Nat /\ NDIRECT \in Nat /\ NINDIRECT \in Nat /\ BSIZE \in Nat \ {0}
  /\ MAXOPBLOCKS \in Nat /\ MAXOPBLOCKS >= 6 /\ MaxCalls \in Nat
  /\ Lengths \subseteq Nat \ {0} /\ Opens \subseteq [File -> Inode]

Block == 1..NBlock
MAXFILE == NDIRECT + NINDIRECT
Pos == 0..(MAXFILE * BSIZE - 1)
Byte == {NONE} \cup Proc               \* NONE is the zero byte
Zeros == [o \in 0..(BSIZE - 1) |-> NONE]
BITMAP == NBlock + 1                   \* the blocks of the bitmap and of the inodes
INODES == NBlock + 2
NoChildren == [c \in 0..(NINDIRECT - 1) |-> 0]

ChunkOfWholeOp == MAXOPBLOCKS * BSIZE

(* File::write: the bytes of one log operation. *)
Chunk == ((MAXOPBLOCKS - 1 - 1 - 2) \div 2) * BSIZE

VARIABLES
  bitmap,   \* blocks marked in use
  addrs,    \* addresses of each inode; the one at NDIRECT is the indirect block
  ind,      \* addresses in a block, if it is used as an indirect block
  cached,   \* data in a block, if it is a data block, as its buffer holds it
  logged,   \* ... and as it was logged
  size,     \* size of each inode
  offset,   \* offset of each open file
  on,       \* inode of each open file
  st,       \* what each process is doing
  content,  \* what was written to each inode
  torn,     \* history: positions a failed write changed in a buffer only
  budget    \* calls that may still be made

vars == <<bitmap, addrs, ind, cached, logged, size, offset, on, st, content, torn, budget>>
disk == <<bitmap, addrs, ind, cached, logged>>

Idle == [pc |-> "idle", f |-> NONE, i |-> NONE, left |-> 0, n |-> 0, done |-> 0,
         next |-> 0, ops |-> {}, spun |-> FALSE]

Init ==
  /\ bitmap = {}
  /\ addrs = [i \in Inode |-> [a \in 0..NDIRECT |-> 0]]
  /\ ind = [b \in Block |-> NoChildren]
  /\ cached = [b \in Block |-> Zeros] /\ logged = cached
  /\ size = [i \in Inode |-> 0]
  /\ offset = [f \in File |-> 0] /\ on \in Opens
  /\ st = [p \in Proc |-> Idle]
  /\ content = [i \in Inode |-> [x \in Pos |-> NONE]]
  /\ torn = [i \in Inode |-> {}]
  /\ budget = MaxCalls

Go(p, r) == st' = [st EXCEPT ![p] = r]
FileFree(f) == \A p \in Proc : st[p].f # f
InodeFree(i) == \A p \in Proc : st[p].i # i

-----------------------------------------------------------------------------
(* Block::alloc takes the first block that is not marked, and zeroes it. *)
FirstFree(used) == Min(Block \ used)

ZeroSkipped(old) == old

Zero(old) == NoChildren

(* Inode::map of block number bn: the block, if there is one or one can be had,
   with what it did to the bitmap, the addresses and the indirect block. *)
Map(i, bn) ==
  LET old == [ok |-> TRUE, b |-> 0, used |-> bitmap, addrs |-> addrs[i], ind |-> ind, fresh |-> {}, ops |-> {}]
      At(r, a) ==      \* addrs[a], allocated if it is 0
        IF r.addrs[a] # 0 THEN [r EXCEPT !.b = r.addrs[a]]
        ELSE IF Block \ r.used = {} THEN [r EXCEPT !.ok = FALSE]
        ELSE LET b == FirstFree(r.used) IN
             [r EXCEPT !.b = b, !.used = @ \cup {b}, !.addrs[a] = b, !.ind[b] = Zero(@),
                       !.fresh = @ \cup {b}, !.ops = @ \cup {BITMAP, b}]
      Child(r, c) ==   \* entry c of the indirect block r.b
        IF r.ind[r.b][c] # 0 THEN [r EXCEPT !.b = r.ind[r.b][c]]
        ELSE IF Block \ r.used = {} THEN [r EXCEPT !.ok = FALSE]
        ELSE LET b == FirstFree(r.used) IN
             [r EXCEPT !.b = b, !.used = @ \cup {b}, !.ind = [@ EXCEPT ![r.b][c] = b, ![b] = Zero(@)],
                       !.fresh = @ \cup {b}, !.ops = @ \cup {BITMAP, b, r.b}]
  IN IF bn < NDIRECT THEN At(old, bn)
     ELSE LET r == At(old, NDIRECT) IN IF r.ok THEN Child(r, bn - NDIRECT) ELSE r

(* The block an inode has for a position, 0 if none. *)
BlockAt(i, x) ==
  LET bn == x \div BSIZE IN
  IF bn < NDIRECT THEN addrs[i][bn]
  ELSE IF addrs[i][NDIRECT] = 0 THEN 0 ELSE ind[addrs[i][NDIRECT]][bn - NDIRECT]

-----------------------------------------------------------------------------

(* Inode::read refuses an offset beyond the end and stops at the end. *)
Readable(i, from) == from <= size[i]
ReadTotal(i, from, n) == Min({n, size[i] - from})

(* File::read: the file's and the inode's lock are held to the end, so it is one
   step.  Nothing changes if the read is refused or the copy fails. *)
Read(p, f, n) ==
  LET i == on[f] IN
  /\ st[p].pc = "idle" /\ FileFree(f) /\ InodeFree(i) /\ budget > 0
  /\ Readable(i, offset[f])
  /\ offset' = [offset EXCEPT ![f] = @ + ReadTotal(i, @, n)]
  /\ budget' = budget - 1
  /\ UNCHANGED <<disk, size, on, st, content, torn>>

(* File::write takes the lock of the file for all of its chunks... *)
WriteStart(p, f, n) ==
  /\ st[p].pc = "idle" /\ FileFree(f) /\ budget > 0
  /\ Go(p, [Idle EXCEPT !.pc = "chunk", !.f = f, !.left = n])
  /\ budget' = budget - 1
  /\ UNCHANGED <<disk, size, offset, on, content, torn>>

(* ... and for each an operation and the lock of the inode.  A write beyond the
   end or the largest file is an error, which ends the call. *)
WriteChunk(p) ==
  LET r == st[p]
      i == on[r.f]
      n == Min({r.left, Chunk})
  IN /\ r.pc = "chunk" /\ InodeFree(i)
     /\ Go(p, IF offset[r.f] > size[i] \/ offset[r.f] + n > MAXFILE * BSIZE THEN Idle
              ELSE [r EXCEPT !.pc = "block", !.i = i, !.n = n, !.done = 0, !.ops = {}])
     /\ UNCHANGED <<disk, size, offset, on, content, torn, budget>>

PatchedOneMore(old, x, m, v) ==
  LET from == x % BSIZE IN [o \in DOMAIN old |-> IF o \in from..(from + m) THEN v ELSE old[o]]

(* The part of a block from position x on, m bytes of it, set to v. *)
Patched(old, x, m, v) ==
  LET from == x % BSIZE IN [o \in DOMAIN old |-> IF o \in from..(from + m - 1) THEN v ELSE old[o]]

WriteBlock(p) ==
  LET r == st[p]
      i == r.i
      x == offset[r.f] + r.done
      m == Min({r.n - r.done, BSIZE - (x % BSIZE)})
      d == Map(i, x \div BSIZE)
      Fresh(c) == [b \in Block |-> IF b \in d.fresh THEN Zeros ELSE c[b]]
  IN /\ r.pc = "block"
     /\ bitmap' = d.used /\ addrs' = [addrs EXCEPT ![i] = d.addrs] /\ ind' = d.ind
     /\ \/ /\ ~d.ok                                   \* no block to be had
           /\ cached' = Fresh(cached) /\ logged' = Fresh(logged)
           /\ Go(p, [r EXCEPT !.pc = "end", !.ops = @ \cup d.ops])
           /\ UNCHANGED <<content, torn>>
        \/ /\ d.ok                                    \* the copy from user memory fails after c bytes
           /\ \E c \in 0..(m - 1) :
                /\ cached' = [Fresh(cached) EXCEPT ![d.b] = Patched(@, x, c, p)]
                /\ torn' = [torn EXCEPT ![i] = @ \cup x..(x + c - 1)]
           /\ logged' = Fresh(logged)
           /\ Go(p, [r EXCEPT !.pc = "end", !.ops = @ \cup d.ops])
           /\ UNCHANGED content
        \/ /\ d.ok
           /\ cached' = [Fresh(cached) EXCEPT ![d.b] = Patched(@, x, m, p)]
           /\ logged' = [Fresh(logged) EXCEPT ![d.b] = cached'[d.b]]
           /\ content' = [content EXCEPT ![i] = [y \in Pos |-> IF y \in x..(x + m - 1) THEN p ELSE @[y]]]
           /\ torn' = [torn EXCEPT ![i] = @ \ x..(x + m - 1)]
           /\ Go(p, [r EXCEPT !.pc = IF r.done + m = r.n THEN "end" ELSE "block",
                              !.done = @ + m, !.ops = @ \cup d.ops \cup {d.b}])
     /\ UNCHANGED <<size, offset, on, budget>>

WriteEndKeepsInode(p) ==
  LET r == st[p] IN
  /\ r.pc = "end"
  /\ size' = [size EXCEPT ![r.i] = Max({@, offset[r.f] + r.done})]
  /\ offset' = [offset EXCEPT ![r.f] = @ + r.done]
  /\ Go(p, IF r.done = r.left THEN Idle
           ELSE [r EXCEPT !.pc = "chunk", !.left = r.left - r.done, !.spun = r.spun \/ r.done = 0])
  /\ UNCHANGED <<disk, on, content, torn, budget>>

(* The inode is updated and unlocked, the offset moves, and the loop goes on
   with what is left, whether or not anything was written. *)
WriteEnd(p) ==
  LET r == st[p] IN
  /\ r.pc = "end"
  /\ size' = [size EXCEPT ![r.i] = Max({@, offset[r.f] + r.done})]
  /\ offset' = [offset EXCEPT ![r.f] = @ + r.done]
  /\ Go(p, IF r.done = r.left THEN Idle
           ELSE [Idle EXCEPT !.pc = "chunk", !.f = r.f, !.left = r.left - r.done, !.spun = r.spun \/ r.done = 0])
  /\ UNCHANGED <<disk, on, content, torn, budget>>

(* Inode::map reads the address of an indirect block's entry once more, after it
   released the block's buffer.  A buffer that the operation has not logged may
   hold another block by then, and the address is some word of that one.  What
   is written through it is not followed. *)
WriteStray(p) ==
  LET r == st[p]
      bn == (offset[r.f] + r.done) \div BSIZE
  IN /\ r.pc = "block" /\ bn >= NDIRECT
     /\ BlockAt(r.i, bn * BSIZE) # 0 /\ addrs[r.i][NDIRECT] \notin r.ops
     /\ Go(p, [r EXCEPT !.pc = "astray"])
     /\ UNCHANGED <<disk, size, offset, on, content, torn, budget>>

(* A buffer that no open operation has logged is recycled, and read again. *)
Recycle(b) ==
  /\ \A p \in Proc : st[p].pc \notin {"block", "end", "trunc"}
  /\ cached[b] # logged[b]
  /\ cached' = [cached EXCEPT ![b] = logged[b]]
  /\ UNCHANGED <<bitmap, addrs, ind, logged, size, offset, on, st, content, torn, budget>>

-----------------------------------------------------------------------------
(* Block::free; BitmapExact says that the block was marked. *)
Freed(b) == bitmap \ {b}

(* Inode::trunc, from open or from the last put: block by block, the indirect
   block after its entries. *)
TruncStart(p, i) ==
  /\ st[p].pc = "idle" /\ InodeFree(i)
  /\ \E a \in 0..NDIRECT : addrs[i][a] # 0
  /\ Go(p, [Idle EXCEPT !.pc = "trunc", !.i = i])
  /\ UNCHANGED <<disk, size, offset, on, content, torn, budget>>

TruncDirect(p) ==
  LET i == st[p].i
      a == st[p].next
  IN /\ st[p].pc = "trunc" /\ a < NDIRECT
     /\ bitmap' = Freed(addrs[i][a])
     /\ addrs' = [addrs EXCEPT ![i][a] = 0]
     /\ Go(p, [st[p] EXCEPT !.next = a + 1])
     /\ UNCHANGED <<ind, cached, logged, size, offset, on, content, torn, budget>>

TruncChild(p) ==
  LET i == st[p].i
      c == st[p].next - NDIRECT
  IN /\ st[p].pc = "trunc" /\ c \in 0..(NINDIRECT - 1) /\ addrs[i][NDIRECT] # 0
     /\ bitmap' = Freed(ind[addrs[i][NDIRECT]][c])
     /\ Go(p, [st[p] EXCEPT !.next = @ + 1])
     /\ UNCHANGED <<addrs, ind, cached, logged, size, offset, on, content, torn, budget>>

TruncDone(p) ==
  LET i == st[p].i IN
  /\ st[p].pc = "trunc" /\ st[p].next >= NDIRECT
  /\ st[p].next = MAXFILE \/ addrs[i][NDIRECT] = 0
  /\ bitmap' = Freed(addrs[i][NDIRECT])
  /\ addrs' = [addrs EXCEPT ![i][NDIRECT] = 0]
  /\ size' = [size EXCEPT ![i] = 0]
  /\ content' = [content EXCEPT ![i] = [x \in Pos |-> NONE]]
  /\ torn' = [torn EXCEPT ![i] = {}]
  /\ Go(p, Idle)
  /\ UNCHANGED <<ind, cached, logged, offset, on, budget>>

Step(p) == WriteChunk(p) \/ WriteBlock(p) \/ WriteStray(p) \/ WriteEnd(p) \/ TruncDirect(p) \/ TruncChild(p) \/ TruncDone(p)

Call(p) ==
  \/ \E f \in File, n \in Lengths : Read(p, f, n) \/ WriteStart(p, f, n)
  \/ \E i \in Inode : TruncStart(p, i)

Next == (\E p \in Proc : Step(p) \/ Call(p)) \/ \E b \in Block : Recycle(b)

(* A process that holds a lock is scheduled again. *)
Spec == Init /\ [][Next]_vars /\ \A p \in Proc : WF_vars(Step(p))

-----------------------------------------------------------------------------
TypeOK ==
  /\ bitmap \subseteq Block
  /\ addrs \in [Inode -> [0..NDIRECT -> {0} \cup Block]]
  /\ ind \in [Block -> [0..(NINDIRECT - 1) -> {0} \cup Block]]
  /\ cached \in [Block -> [0..(BSIZE - 1) -> Byte]] /\ logged \in [Block -> [0..(BSIZE - 1) -> Byte]]
  /\ size \in [Inode -> 0..(MAXFILE * BSIZE)] /\ offset \in [File -> 0..(MAXFILE * BSIZE)]
  /\ on \in [File -> Inode] /\ budget \in 0..MaxCalls
  /\ torn \in [Inode -> SUBSET Pos]

(* The references to block b: direct and indirect addresses, and the entries of
   indirect blocks that a truncation in progress has not freed yet. *)
Truncating(i, c) == \E p \in Proc : st[p].pc = "trunc" /\ st[p].i = i /\ st[p].next > NDIRECT + c
Refs(b) ==
  LET direct == {ia \in Inode \X (0..NDIRECT) : addrs[ia[1]][ia[2]] = b}
      entries == {ic \in Inode \X (0..(NINDIRECT - 1)) :
                    /\ addrs[ic[1]][NDIRECT] # 0 /\ ind[addrs[ic[1]][NDIRECT]][ic[2]] = b
                    /\ ~Truncating(ic[1], ic[2])}
  IN Cardinality(direct) + Cardinality(entries)

(* A block is marked in use exactly if one inode refers to it, and it refers to
   it once: no block is lost, shared by two files or freed twice ("bfree: block
   already free"), however allocations and truncations interleave. *)
BitmapExact == TypeOK /\ \A b \in Block : Refs(b) = IF b \in bitmap THEN 1 ELSE 0

(* Every position below an inode's size has a block, so Inode::read, which maps
   outside of any log operation, never has to allocate one.  A file holds what was
   last written at each position, except where a write failed in the middle of a
   copy: Inode::write leaves those bytes in a buffer it does not log. *)
ContentExact ==
  \A i \in Inode : InodeFree(i) =>
    \A x \in 0..(size[i] - 1) :
      BlockAt(i, x) # 0 /\ (x \notin torn[i] => cached[BlockAt(i, x)][x % BSIZE] = content[i][x])

(* A chunk of File::write logs no more blocks than begin_op reserved for it. *)
OpFits == \A p \in Proc : Cardinality(st[p].ops \cup {INODES}) <= MAXOPBLOCKS

(* A write returns, unless a chunk of some write moved nothing (the disk is full
   or the source cannot be read) or followed a stray address.  File::write makes
   no difference between a chunk that moved and one that did not: it tries for
   ever, and keeps the others from the locks. *)
Stuck(p) == st[p].spun \/ st[p].pc = "astray"
WriteEnds == \A p \in Proc : (st[p].pc = "chunk") ~> (st[p].pc = "idle" \/ \E q \in Proc : Stuck(q))
=============================================================================
