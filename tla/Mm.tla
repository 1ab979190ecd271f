--------------------------------- MODULE Mm ---------------------------------
(***************************************************************************)
(* The allocator of malloc-lab-main/mm.c and a client that keeps to its    *)
(* interface: it asks for blocks, fills them, resizes them, gives them     *)
(* back, and starts over on an empty heap.  Its books are those of         *)
(* eval_mm_valid in mdriver.c; unlike the tester, which gives up, it may   *)
(* go on after a call returned NULL.                                       *)
(***************************************************************************)
EXTENDS Heap

VARIABLES
  heap,     \* the allocator's memory: see module Heap
  blocks,   \* trace_t.blocks: the block of each id, Null when it has none
  sizes,    \* trace_t.block_sizes: the bytes last asked for
  filled,   \* how many leading bytes of the block the client has written
  failed    \* did the last call return NULL for a non-zero size?

vars == <<heap, blocks, sizes, filled, failed>>

Live == {id \in Ids : blocks[id] # Null}

\* memset of the first bytes of block p by the client that owns it.
Fill(m, id, p, bytes) ==
  [m EXCEPT !.data = [q \in Unit |-> IF q > p /\ q <= p + Units(bytes)
                                     THEN id ELSE @[q]]]

Init ==
  /\ heap = MmInit(Null)
  /\ blocks = [id \in Ids |-> Null]
  /\ sizes = [id \in Ids |-> 0]
  /\ filled = [id \in Ids |-> 0]
  /\ failed = FALSE

\* The client's record of a block: where it is, how long, how much is written.
Remember(id, p, bytes, written) ==
  /\ blocks' = [blocks EXCEPT ![id] = p]
  /\ sizes' = [sizes EXCEPT ![id] = bytes]
  /\ filled' = [filled EXCEPT ![id] = written]

\* ALLOC: mm_malloc, then the client fills what it got.
Malloc(id, bytes) ==
  /\ blocks[id] = Null
  /\ \E r \in MmMalloc(heap, bytes) :
       IF r.bp = Null
       THEN /\ heap' = r.heap
            /\ failed' = (bytes > 0)
            /\ UNCHANGED <<blocks, sizes, filled>>
       ELSE /\ heap' = Fill(r.heap, id, r.bp, bytes)
            /\ failed' = FALSE
            /\ Remember(id, r.bp, bytes, bytes)

\* FREE.
Free(id) ==
  /\ blocks[id] # Null
  /\ heap' = MmFree(heap, blocks[id])
  /\ failed' = FALSE
  /\ Remember(id, Null, 0, 0)

\* REALLOC: the client may count on the bytes it wrote before, up to the new
\* size.  A refused growth leaves it its old block; size 0 takes it away.
Realloc(id, bytes) ==
  /\ blocks[id] # Null
  /\ \E r \in MmRealloc(heap, blocks[id], bytes) :
       /\ heap' = r.heap
       /\ failed' = (r.bp = Null /\ bytes > 0)
       /\ IF r.bp = Null
          THEN IF bytes = 0 THEN Remember(id, Null, 0, 0)
               ELSE UNCHANGED <<blocks, sizes, filled>>
          ELSE Remember(id, r.bp, bytes, Smaller(filled[id], bytes))

\* The client fills a block it has resized.
Refill(id) ==
  /\ blocks[id] # Null
  /\ filled[id] < sizes[id]
  /\ heap' = Fill(heap, id, blocks[id], sizes[id])
  /\ filled' = [filled EXCEPT ![id] = sizes[id]]
  /\ UNCHANGED <<blocks, sizes, failed>>

\* The next trace: mem_reset_brk, then mm_init on the same memory.
Restart ==
  /\ heap' = MmInit(heap.only_for_16)
  /\ blocks' = [id \in Ids |-> Null]
  /\ sizes' = [id \in Ids |-> 0]
  /\ filled' = [id \in Ids |-> 0]
  /\ failed' = FALSE

Next ==
  \/ \E id \in Ids : \/ \E bytes \in Requests : Malloc(id, bytes) \/ Realloc(id, bytes)
                     \/ Free(id)
                     \/ Refill(id)
  \/ Restart

Spec == Init /\ [][Next]_vars

-----------------------------------------------------------------------------
(* What the allocator owes its client.                                     *)

HeapRecord ==
  [hdr : [Unit -> Tag], ftr : [Unit -> Tag], data : [Unit -> Ids \union {Junk}],
   brk : Unit, seg : [1 .. NumSegLists -> Seq(Unit)], tree : SUBSET Unit,
   only_for_16 : Unit \union {Null}]

\* Every variable, every tag word and every list entry has its type.
TypeOK ==
  /\ heap \in HeapRecord
  /\ blocks \in [Ids -> Unit \union {Null}]
  /\ sizes \in [Ids -> Nat]
  /\ filled \in [Ids -> Nat]
  /\ failed \in BOOLEAN

\* The blocks of the heap, prologue included: where a header is.
Starts(m) == {p \in 1 .. m.brk - 1 : m.hdr[p].size > 0}

\* The ends of blocks: every header of Starts, and the epilogue.
Bounds(m) == Starts(m) \union {m.brk}

\* The prologue and the epilogue.
TiledEnds(m) ==
  /\ m.brk >= FirstBlock
  /\ m.hdr[1] = [size |-> 1, alloc |-> TRUE]
  /\ m.hdr[m.brk] = Epilogue

\* From block p to the next one.
TiledForward(m) ==
  \A p \in Starts(m) :
    /\ p > 1 => Size(m, p) >= MinBlockSize
    /\ NextBlk(m, p) \in Bounds(m)
    /\ m.ftr[NextBlk(m, p)] = m.hdr[p]
    /\ \A q \in Unit : p < q /\ q < NextBlk(m, p) => m.hdr[q] = NoTag

\* From the end of a block back to its start.
TiledBack(m) ==
  \A q \in Bounds(m) \ {1} :
    PrevBlk(m, q) \in Starts(m) /\ m.hdr[PrevBlk(m, q)] = m.ftr[q]

\* NEXT_BLKP and PREV_BLKP agree on where the blocks are: from the prologue to
\* the epilogue each block ends where the next one starts, the footer there is
\* its own, and no stale tag is left inside a block.  Splitting, merging and
\* growing (mm.c place, coalesce, extend_heap, mm_realloc) must keep it so.
Tiled(m) == TiledEnds(m) /\ TiledForward(m) /\ TiledBack(m)

HeapTiled == Tiled(heap)

FreeBlocks(m)  == {p \in Starts(m) : ~m.hdr[p].alloc}
AllocBlocks(m) == {p \in Starts(m) \ {1} : m.hdr[p].alloc}

\* Blocks a call has taken off the index and not finished with are in hand.
\* Every list holds free blocks of its sizes, each once, and none in hand.
ListsSound(m, inhand) ==
  \A i \in 1 .. NumSegLists : \A k \in DOMAIN m.seg[i] :
    /\ m.seg[i][k] \in FreeBlocks(m) \ inhand
    /\ Size(m, m.seg[i][k]) <= SmallBlockMax
    /\ SegIndex(Size(m, m.seg[i][k])) = i
    /\ \A l \in DOMAIN m.seg[i] : m.seg[i][l] = m.seg[i][k] => l = k

\* So does the tree.
TreeSound(m, inhand) ==
  \A p \in m.tree : p \in FreeBlocks(m) \ inhand /\ Size(m, p) > SmallBlockMax

\* Every free block is in the list of its size, or in the tree, or in hand.
NoneLost(m, inhand) ==
  \A p \in FreeBlocks(m) \ inhand :
    IF Size(m, p) <= SmallBlockMax
    THEN \E k \in DOMAIN m.seg[SegIndex(Size(m, p))] :
           m.seg[SegIndex(Size(m, p))][k] = p
    ELSE p \in m.tree

Indexed(m, inhand) ==
  ListsSound(m, inhand) /\ TreeSound(m, inhand) /\ NoneLost(m, inhand)

\* Between calls no free block is lost to the index, and no block that is
\* allocated, or was merged away, can be found there and handed out again
\* (mm.c add_to_list, remove_from_list and the order of their calls).
FreeIndexExact == Indexed(heap, {})

\* Every allocated block but the prologue belongs to exactly one id and is large
\* enough for what that id asked for: nothing is handed out twice, nothing leaks.
OwnedOnce ==
  /\ \A p \in AllocBlocks(heap) : \E id \in Ids : blocks[id] = p
  /\ \A id \in Live :
       /\ blocks[id] \in AllocBlocks(heap)
       /\ DSize * Size(heap, blocks[id]) - DSize >= sizes[id]
       /\ \A other \in Live : blocks[other] = blocks[id] => other = id

\* What a client wrote to its block is still there, whatever the allocator did
\* for it or for others since: no tag, link or copy lands in a live payload, and
\* a realloc that moves or resizes keeps the common prefix (mdriver.c 646-656).
DataKept ==
  \A id \in Live : \A q \in 1 .. Units(filled[id]) :
    heap.data[blocks[id] + q] = id

\* mm_free's comment, mm.c:525, "merge with the adjacent free blocks": the block
\* a free leaves has no free neighbour.  The code makes an exception of the
\* first block of the heap, which its successor is never merged into.
FreeMergesNeighbours ==
  [][\A id \in Ids : Free(id) =>
       \A p \in FreeBlocks(heap') :
         LET next == NextBlk(heap', p) IN
         ~heap'.hdr[next].alloc =>
           blocks[id] \notin p .. NextBlk(heap', next) - 1]_vars

-----------------------------------------------------------------------------
(* The allocator implements the abstract one.                              *)

\* The bytes of its block that still hold what id wrote, as far as it wrote.
Kept(id) ==
  IF \A q \in 1 .. Units(filled[id]) : heap.data[blocks[id] + q] = id
  THEN filled[id] ELSE 0

Abstract == INSTANCE Allocator WITH
  Align <- DSize, Top <- DSize * MaxHeap,
  at <- [id \in Ids |-> DSize * blocks[id]], len <- sizes,
  kept <- [id \in Ids |-> IF blocks[id] = Null THEN 0 ELSE Kept(id)]

\* Seen from the client, a call changes its own block and no other: what it is
\* given is aligned, inside the heap and clear of every live payload, byte by
\* byte; a refused call changes nothing (mdriver.c eval_mm_valid's tests).
ImplementsAllocator == Abstract!Spec
=============================================================================
