-------------------------------- MODULE Heap --------------------------------
(***************************************************************************)
(* The allocator of malloc-lab-main/mm.c, as operators on its memory.      *)
(*                                                                         *)
(* Every address and size mm.c handles is a multiple of 8 bytes, so the    *)
(* heap is counted in UNITS of 8 bytes.  Unit q (1 <= q) is the two words  *)
(* at bytes 8q-8 and 8q-4 from mem_heap_lo().  The block whose payload     *)
(* starts at byte 8p is called block p; with a size of n units it has      *)
(*    - its header in the high word of unit p,                             *)
(*    - its payload in units p+1 .. p+n-1,                                 *)
(*    - its footer in the low word of unit p+n,                            *)
(* so a boundary unit holds the footer of one block and the header of the  *)
(* next.  hdr and ftr are those words; a word that is payload, or beyond   *)
(* the break, is NoTag: whatever is left there, mm.c must not read it as a *)
(* tag.  Block 1 is the prologue, block brk the epilogue.                  *)
(*                                                                         *)
(* A function of mm.c is an operator from the memory before the call to    *)
(* the memory after it.  The lists are sequences of blocks, head first     *)
(* (their links live in the payload of free blocks), and the AVL tree is   *)
(* the set of its blocks.                                                  *)
(***************************************************************************)
EXTENDS Integers, Sequences, FiniteSets

CONSTANTS
  Ids,        \* the client's names for its blocks (indices of a trace)
  Requests,   \* the sizes in bytes the client asks for
  MaxHeap,    \* MAX_HEAP: units mem_sbrk can hand out
  ChunkSize,  \* CHUNKSIZE, in units
  SegBounds,  \* largest block, in units, of each segregated list
  Bumped      \* the size mm_malloc replaces each request by (448 -> 512, ...)

SmallBlockMax == SegBounds[Len(SegBounds)]     \* SMALL_BLOCK_MAX
NumSegLists   == Len(SegBounds) + 1            \* NUM_SEG_LISTS
DSize         == 8                             \* DSIZE: bytes in a unit
MinBlockSize  == 2                             \* MIN_BLOCK_SIZE
Null          == 0                             \* NULL, and mem_sbrk's -1
Junk          == "junk"                        \* bytes nobody relies on

Unit == 1 .. MaxHeap
Tag  == [size : Nat, alloc : BOOLEAN]

NoTag    == [size |-> 0, alloc |-> FALSE]
Epilogue == [size |-> 0, alloc |-> TRUE]
FirstBlock == 2                                \* after pad and prologue

\* The program's constants: the heap holds what mm_init takes, an AVL node
\* (20 bytes) fits a block that is too large for the lists, and no request is
\* so large that size_t arithmetic on it would wrap.
ASSUME HeapAssumption ==
  /\ ChunkSize \in Nat /\ ChunkSize >= MinBlockSize
  /\ MaxHeap \in Nat /\ MaxHeap >= FirstBlock + ChunkSize
ASSUME SegAssumption ==
  /\ SegBounds \in Seq(Nat) /\ Len(SegBounds) > 0
  /\ \A i, j \in DOMAIN SegBounds : i < j => SegBounds[i] < SegBounds[j]
  /\ SmallBlockMax >= 3
ASSUME RequestAssumption ==
  /\ Requests \subseteq Nat
  /\ Bumped \in [Requests -> Nat]
  /\ \A s \in Requests : Bumped[s] >= s /\ (s = 0 => Bumped[s] = 0)
ASSUME JunkAssumption == Junk \notin Ids

\* Bytes rounded up to units.
Units(bytes) == (bytes + DSize - 1) \div DSize

\* A mistake: room for the header only.
AdjustedSizeNoFooter(bytes) ==
  IF bytes <= DSize THEN MinBlockSize ELSE Units(bytes + DSize \div 2)

\* The block size, in units, that serves a request: header and footer added,
\* rounded up to 8 bytes, never below the smallest block.
AdjustedSize(bytes) ==
  IF bytes <= DSize THEN MinBlockSize ELSE Units(bytes + DSize)

Larger(a, b)  == IF a > b THEN a ELSE b
Smaller(a, b) == IF a < b THEN a ELSE b

-----------------------------------------------------------------------------
(* Boundary tags.                                                          *)

Size(m, p)  == m.hdr[p].size                   \* GET_SIZE(HDRP(bp))
NextBlk(m, p) == p + m.hdr[p].size             \* NEXT_BLKP(bp)
PrevBlk(m, p) == p - m.ftr[p].size             \* PREV_BLKP(bp)

\* Write the header and the footer of block p, n units long.  The units
\* between them become its payload: a tag left there is no tag any more, and
\* the payload of a free block holds nothing a client may rely on.
PutTags(m, p, n, alloc) ==
  LET tag == [size |-> n, alloc |-> alloc] IN
  [m EXCEPT
    !.hdr = [q \in Unit |-> IF q = p THEN tag
                            ELSE IF q > p /\ q < p + n THEN NoTag ELSE @[q]],
    !.ftr = [q \in Unit |-> IF q = p + n THEN tag
                            ELSE IF q > p /\ q < p + n THEN NoTag ELSE @[q]],
    !.data = [q \in Unit |->
                IF \/ q = p \/ q = p + n
                   \/ ~alloc /\ q > p /\ q < p + n
                THEN Junk ELSE @[q]]]

-----------------------------------------------------------------------------
(* The index of free blocks: segregated lists and the AVL tree.            *)

\* The list for blocks of n units: the first whose bound is not below n; past
\* the last bound, the list that stays empty.
SegIndex(n) == Cardinality({i \in DOMAIN SegBounds : SegBounds[i] < n}) + 1

\* Sequence s without its element at place i.
Without(s, i) == SubSeq(s, 1, i-1) \o SubSeq(s, i+1, Len(s))

SegListInsert(m, p) ==
  [m EXCEPT !.seg[SegIndex(Size(m, p))] = <<p>> \o @]

SegListRemove(m, p) ==
  LET list == SegIndex(Size(m, p))
      at   == {i \in DOMAIN m.seg[list] : m.seg[list][i] = p}
  IN IF at = {} THEN m
     ELSE [m EXCEPT !.seg[list] = Without(@, CHOOSE i \in at : TRUE)]

\* The links of a list node take the first payload unit of its block, the
\* fields of a tree node the first three.
PutLinks(m, p, n) ==
  [m EXCEPT !.data = [q \in Unit |-> IF q > p /\ q <= p + n THEN Junk ELSE @[q]]]

AddToList(m, p) ==
  IF Size(m, p) <= SmallBlockMax
  THEN SegListInsert(PutLinks(m, p, 1), p)
  ELSE [PutLinks(m, p, 3) EXCEPT !.tree = @ \union {p}]

\* A mistake: the largest list size sought in the tree.
RemoveFromListStrict(m, p) ==
  IF Size(m, p) < SmallBlockMax
  THEN SegListRemove(m, p)
  ELSE [m EXCEPT !.tree = @ \ {p}]

RemoveFromList(m, p) ==
  IF Size(m, p) <= SmallBlockMax
  THEN SegListRemove(m, p)
  ELSE [m EXCEPT !.tree = @ \ {p}]

\* The places of the lists searched for n units where a block fits.
SegFits(m, n) ==
  {f \in (SegIndex(n) .. NumSegLists - 1) \X Unit :
      f[2] \in DOMAIN m.seg[f[1]] /\ Size(m, m.seg[f[1]][f[2]]) >= n}

\* First fit: the earliest list, and in it the first block that fits.
SegListFindFit(m, n) ==
  LET first == {f \in SegFits(m, n) : \A g \in SegFits(m, n) :
                   f[1] < g[1] \/ (f[1] = g[1] /\ f[2] <= g[2])}
  IN {m.seg[f[1]][f[2]] : f \in first}

\* Best fit: any block of the least sufficient size.
AvlFindFit(m, n) ==
  {p \in m.tree : /\ Size(m, p) >= n
                  /\ \A q \in m.tree : Size(m, q) >= n => Size(m, p) <= Size(m, q)}

\* The blocks mm_malloc's search may return (at most one for the lists).
FindFit(m, n) ==
  IF n <= SmallBlockMax THEN SegListFindFit(m, n) ELSE AvlFindFit(m, n)

-----------------------------------------------------------------------------
(* Splitting, coalescing, growing the heap.                                *)

\* A mistake: any rest split off, even one too small for a block.
CarveAnyRest(m, p, total, n) ==
  IF total > n
  THEN AddToList(PutTags(PutTags(m, p, n, TRUE), p + n, total - n, FALSE), p + n)
  ELSE PutTags(m, p, total, TRUE)

\* Make block p, of total units, an allocated block of n units; the rest
\* becomes a free block when it is large enough for one.
Carve(m, p, total, n) ==
  IF total - n >= MinBlockSize
  THEN AddToList(PutTags(PutTags(m, p, n, TRUE), p + n, total - n, FALSE), p + n)
  ELSE PutTags(m, p, total, TRUE)

Place(m, p, n) == Carve(m, p, Size(m, p), n)

\* Is the block before p, or the one after p, merged with p?  A free block
\* before p is, unless it is the first block of the heap.
MergesPrev(m, p) ==
  LET prev == PrevBlk(m, p) IN
  prev # m.only_for_16 /\ ~m.ftr[NextBlk(m, prev)].alloc

MergesNext(m, p) == ~m.hdr[NextBlk(m, p)].alloc

\* Where the merged block starts, and the memory after the merge.  The result
\* is in no list.
CoalescedBlk(m, p) == IF MergesPrev(m, p) THEN PrevBlk(m, p) ELSE p

Coalesce(m, p) ==
  LET prev == PrevBlk(m, p)
      next == NextBlk(m, p)
      m1   == IF MergesPrev(m, p) THEN RemoveFromList(m, prev) ELSE m
      m2   == IF MergesNext(m, p) THEN RemoveFromList(m1, next) ELSE m1
      n    == Size(m, p) + (IF MergesPrev(m, p) THEN Size(m, prev) ELSE 0)
                         + (IF MergesNext(m, p) THEN Size(m, next) ELSE 0)
  IN IF MergesPrev(m, p) \/ MergesNext(m, p)
     THEN PutTags(m2, CoalescedBlk(m, p), n, FALSE)
     ELSE m

\* mem_sbrk refuses to go beyond the end of the simulated heap.
CanSbrk(m, n) == m.brk + n <= MaxHeap

\* The break moved n units up and an epilogue header written there.
MoveBrk(m, n) ==
  [m EXCEPT !.brk = @ + n, !.hdr[m.brk + n] = Epilogue]

\* extend_heap up to its last call: a free block of n units at the old break.
Extended(m, n) == PutTags(MoveBrk(m, n), m.brk, n, FALSE)

-----------------------------------------------------------------------------
(* The entry points.  Each returns the memory and the block pointer.       *)

\* mem_sbrk(4*WSIZE), prologue and epilogue, every list and the tree empty.
EmptyHeap(only16) ==
  [hdr  |-> [q \in Unit |-> IF q = 1 THEN [size |-> 1, alloc |-> TRUE]
                            ELSE IF q = FirstBlock THEN Epilogue ELSE NoTag],
   ftr  |-> [q \in Unit |-> IF q = FirstBlock THEN [size |-> 1, alloc |-> TRUE]
                            ELSE NoTag],
   data |-> [q \in Unit |-> Junk],
   brk  |-> FirstBlock,
   seg  |-> [i \in 1 .. NumSegLists |-> <<>>],
   tree |-> {},
   only_for_16 |-> only16]

\* mm_init: the empty heap extended by a chunk.  only_for_16 still has its old
\* value while extend_heap coalesces.
MmInit(only16) ==
  LET m  == Extended(EmptyHeap(only16), ChunkSize)
      bp == CoalescedBlk(m, FirstBlock)
  IN [AddToList(Coalesce(m, FirstBlock), bp) EXCEPT !.only_for_16 = bp]

\* mm_malloc.  A set: the tree may choose among equal blocks.
MmMalloc(m, bytes) ==
  LET n      == AdjustedSize(Bumped[bytes])
      more   == Larger(n, ChunkSize)
      grown  == Extended(m, more)
      merged == CoalescedBlk(grown, m.brk)
  IN IF bytes = 0 THEN {[heap |-> m, bp |-> Null]}
     ELSE IF FindFit(m, n) # {}
     THEN {[heap |-> Place(RemoveFromList(m, p), p, n), bp |-> p] : p \in FindFit(m, n)}
     ELSE IF CanSbrk(m, more)
     THEN {[heap |-> Place(Coalesce(grown, m.brk), merged, n), bp |-> merged]}
     ELSE {[heap |-> m, bp |-> Null]}

\* mm_free.
Freed(m, p) == PutTags(m, p, Size(m, p), FALSE)

MmFree(m, p) ==
  AddToList(Coalesce(Freed(m, p), p), CoalescedBlk(Freed(m, p), p))

\* memcpy of the first bytes of one payload to another.
Copy(m, from, to, bytes) ==
  [m EXCEPT !.data = [q \in Unit |-> IF q > to /\ q <= to + Units(bytes)
                                     THEN @[q - to + from] ELSE @[q]]]

\* A mistake: the old block freed before its bytes are copied.
MoveBlockFreeFirst(m, p, bytes) ==
  LET copySize == Smaller(DSize * Size(m, p) - DSize, bytes) IN
  {IF r.bp = Null THEN r
   ELSE [heap |-> Copy(MmFree(r.heap, p), p, r.bp, copySize), bp |-> r.bp] :
     r \in MmMalloc(m, bytes)}

\* mm_realloc's last resort: allocate, copy, free.
MoveBlock(m, p, bytes) ==
  LET copySize == Smaller(DSize * Size(m, p) - DSize, bytes) IN
  {IF r.bp = Null THEN r
   ELSE [heap |-> MmFree(Copy(r.heap, p, r.bp, copySize), p), bp |-> r.bp] :
     r \in MmMalloc(m, bytes)}

\* A mistake: mem_sbrk's refusal not noticed.
GrowLastUnchecked(m, p, n) ==
  [heap |-> PutTags(MoveBrk(m, n - Size(m, p)), p, n, TRUE), bp |-> p]

\* mm_realloc of the last block of the heap: grown by moving the break.
GrowLast(m, p, n) ==
  IF CanSbrk(m, n - Size(m, p))
  THEN [heap |-> PutTags(MoveBrk(m, n - Size(m, p)), p, n, TRUE), bp |-> p]
  ELSE [heap |-> m, bp |-> Null]

\* mm_realloc of block p (not NULL).
MmRealloc(m, p, bytes) ==
  LET n     == AdjustedSize(bytes)
      old   == Size(m, p)
      next  == NextBlk(m, p)
      total == old + Size(m, next)
  IN IF bytes = 0 THEN {[heap |-> MmFree(m, p), bp |-> Null]}
     ELSE IF n <= old
     THEN {[heap |-> IF old - n >= MinBlockSize THEN Carve(m, p, old, n) ELSE m,
            bp |-> p]}
     ELSE IF ~m.hdr[next].alloc /\ total >= n
     THEN {[heap |-> Carve(RemoveFromList(m, next), p, total, n), bp |-> p]}
     ELSE IF Size(m, next) = 0
     THEN {GrowLast(m, p, n)}
     ELSE MoveBlock(m, p, bytes)
=============================================================================
