------------------------------ MODULE MmProofs ------------------------------
(***************************************************************************)
(* mm.c's heap stays in order, and Mm implements Allocator, for every      *)
(* heap, chunk and list size, every set of ids and requests.               *)
(*   - Boundary tags: what writing them leaves, and the two ways the code  *)
(*     rearranges blocks, each of which keeps the heap tiled.  Retile      *)
(*     writes one block over a run of blocks (coalesce, extend_heap,       *)
(*     realloc's growth); Cut makes two blocks of one (place, realloc's    *)
(*     shrinking).                                                         *)
(*   - The index of free blocks: entering a block in hand, taking one in   *)
(*     hand.  Blocks in hand are free, and in no list; every lemma says    *)
(*     which they are before and after.                                    *)
(*   - What each function of mm.c does to a heap in order: the heap it     *)
(*     leaves is in order, the blocks in hand are the ones it has not      *)
(*     returned to the index, and the allocated blocks it was not asked    *)
(*     about keep their place, their size and their payload.               *)
(*   - The invariants, and the refinement.                                 *)
(***************************************************************************)
EXTENDS Mm, SequenceTheorems, FiniteSetTheorems, TLAPS

\* What writing the tags of block p leaves (the PUTs of mm.c place, coalesce,
\* extend_heap, mm_free, mm_realloc).
LEMMA PutTagsFields ==
  ASSUME NEW m \in HeapRecord, NEW p \in Unit, NEW n \in Nat, p + n \in Unit,
         NEW alloc \in BOOLEAN
  PROVE  LET r == PutTags(m, p, n, alloc) IN
         /\ r \in HeapRecord
         /\ r.brk = m.brk /\ r.seg = m.seg /\ r.tree = m.tree
         /\ r.only_for_16 = m.only_for_16
         /\ \A q \in Unit :
              /\ r.hdr[q] = IF q = p THEN [size |-> n, alloc |-> alloc]
                            ELSE IF q > p /\ q < p + n THEN NoTag ELSE m.hdr[q]
              /\ r.ftr[q] = IF q = p + n THEN [size |-> n, alloc |-> alloc]
                            ELSE IF q > p /\ q < p + n THEN NoTag ELSE m.ftr[q]
              /\ q # p /\ q # p + n /\ (alloc \/ q < p \/ q > p + n) => r.data[q] = m.data[q]
<1>1. [size |-> n, alloc |-> alloc] \in Tag /\ NoTag \in Tag
  BY DEF Tag, NoTag
<1> DEFINE h == [q \in Unit |-> IF q = p THEN [size |-> n, alloc |-> alloc]
                            ELSE IF q > p /\ q < p + n THEN NoTag ELSE m.hdr[q]]
           f == [q \in Unit |-> IF q = p + n THEN [size |-> n, alloc |-> alloc]
                            ELSE IF q > p /\ q < p + n THEN NoTag ELSE m.ftr[q]]
           d == [q \in Unit |->
                IF \/ q = p \/ q = p + n
                   \/ ~alloc /\ q > p /\ q < p + n
                THEN Junk ELSE m.data[q]]
<1>2. PutTags(m, p, n, alloc) = [m EXCEPT !.hdr = h, !.ftr = f, !.data = d]
  BY DEF PutTags
<1>3. h \in [Unit -> Tag] /\ f \in [Unit -> Tag] /\ d \in [Unit -> Ids \union {Junk}]
  BY <1>1 DEF HeapRecord
<1>4. \A q \in Unit : q # p /\ q # p + n /\ (alloc \/ q < p \/ q > p + n) => d[q] = m.data[q]
  BY DEF Unit
<1> HIDE DEF d
<1>5. PutTags(m, p, n, alloc) = [hdr |-> h, ftr |-> f, data |-> d, brk |-> m.brk,
         seg |-> m.seg, tree |-> m.tree, only_for_16 |-> m.only_for_16]
  BY <1>2 DEF HeapRecord
<1> QED
  BY <1>3, <1>4, <1>5 DEF HeapRecord

\* Writing tags leaves the index alone.
LEMMA PutTagsIndex ==
  ASSUME NEW m \in HeapRecord, NEW p, NEW n, NEW alloc
  PROVE  PutTags(m, p, n, alloc).seg = m.seg /\ PutTags(m, p, n, alloc).tree = m.tree
BY DEF PutTags, HeapRecord

\* The types of what mm.c reads off a heap: tags, the break, block starts.
LEMMA Types ==
  ASSUME NEW m \in HeapRecord
  PROVE  /\ m.hdr \in [Unit -> Tag] /\ m.ftr \in [Unit -> Tag] /\ m.brk \in Unit
         /\ \A q \in Unit : m.hdr[q].size \in Nat /\ m.ftr[q].size \in Nat
         /\ \A p \in Starts(m) : p \in Unit /\ p < m.brk /\ m.hdr[p].size \in Nat
                                 /\ m.hdr[p].size > 0
         /\ \A p \in Bounds(m) : p \in Unit /\ p <= m.brk
<1>1. m.hdr \in [Unit -> Tag] /\ m.ftr \in [Unit -> Tag] /\ m.brk \in Unit
  BY DEF HeapRecord
<1>2. \A q \in Unit : m.hdr[q].size \in Nat /\ m.ftr[q].size \in Nat
  BY <1>1 DEF Tag
<1>3. \A p \in Starts(m) : p \in Unit /\ p < m.brk /\ m.hdr[p].size > 0
  BY <1>1, HeapAssumption DEF Starts, Unit
<1> QED
  BY <1>1, <1>2, <1>3 DEF Bounds, Unit

\* No block starts inside another: the next block's start is the nearest one
\* (NEXT_BLKP of mm.c skips none).
LEMMA InsideIsNoStart ==
  ASSUME NEW m \in HeapRecord, TiledForward(m), NEW p \in Starts(m), NEW x \in Bounds(m),
         p < x
  PROVE  NextBlk(m, p) <= x
<1>1. p \in Unit /\ x \in Unit /\ m.hdr[p].size \in Nat /\ x <= m.brk /\ m.brk \in Unit
  BY Types
<1>2. NextBlk(m, p) \in Bounds(m) /\ NextBlk(m, p) \in Unit /\ NextBlk(m, p) <= m.brk
  BY Types DEF TiledForward
<1>3. CASE x = m.brk
  BY <1>2, <1>3
<1>4. CASE x \in Starts(m)
  <2>1. x < NextBlk(m, p) => m.hdr[x] = NoTag
    BY <1>1 DEF TiledForward
  <2>2. m.hdr[x] # NoTag
    BY <1>4, Types DEF NoTag
  <2> QED BY <2>1, <2>2, <1>1, <1>2 DEF Unit
<1> QED BY <1>3, <1>4 DEF Bounds

\* r is m with p .. e turned into one block with tag t; e is the end of some
\* block of m, or a new break.
Retagged(m, r, p, e, t) ==
  /\ r.hdr[p] = t /\ r.ftr[e] = t
  /\ \A q \in Unit : p < q /\ q < e => r.hdr[q] = NoTag
  /\ \A q \in Unit : q < p \/ q > e => r.hdr[q] = m.hdr[q]
  /\ \A q \in Unit : q <= p \/ q > e => r.ftr[q] = m.ftr[q]

SameEnd(m, r, e) == e \in Bounds(m) /\ r.brk = m.brk /\ r.hdr[e] = m.hdr[e]
NewEnd(m, r, e)  == e > m.brk /\ r.brk = e /\ r.hdr[e] = Epilogue

\* A heap stays tiled when one block is written over all from p to e: the step
\* shared by coalesce, extend_heap and mm_realloc's growth.
LEMMA Retile ==
  ASSUME NEW m \in HeapRecord, NEW r \in HeapRecord, Tiled(m),
         NEW p \in Bounds(m), p > 1, NEW e \in Unit, e - p >= MinBlockSize,
         NEW t \in Tag, t.size = e - p, Retagged(m, r, p, e, t),
         SameEnd(m, r, e) \/ NewEnd(m, r, e)
  PROVE  /\ Tiled(r)
         /\ \A q : q \in Starts(r) <=> q = p \/ (q \in Starts(m) /\ (q < p \/ q >= e))
<1>1. p \in Unit /\ e \in Unit /\ p < e /\ p <= m.brk /\ m.brk \in Unit /\ r.brk \in Unit
  BY Types DEF Unit, MinBlockSize
<1>a. e <= r.brk /\ m.brk <= r.brk /\ p < r.brk
  BY <1>1, Types DEF SameEnd, NewEnd, Unit
<1>b. t.size > 0
  BY <1>1 DEF Unit
<1>2. \A q \in Unit : q \in Starts(r) <=> q = p \/ (q \in Starts(m) /\ (q < p \/ q >= e))
  <2> SUFFICES ASSUME NEW q \in Unit
               PROVE q \in Starts(r) <=> q = p \/ (q \in Starts(m) /\ (q < p \/ q >= e))
    OBVIOUS
  <2>1. q \in Starts(m) <=> q < m.brk /\ m.hdr[q].size > 0
    BY <1>1 DEF Starts, Unit
  <2>2. q \in Starts(r) <=> q < r.brk /\ r.hdr[q].size > 0
    BY <1>1 DEF Starts, Unit
  <2>3. CASE p < q /\ q < e
    BY <2>2, <2>3, <1>1 DEF Retagged, NoTag, Unit
  <2>4. CASE q = p
    BY <2>2, <2>4, <1>1, <1>a, <1>b DEF Retagged
  <2>5. CASE q < p
    BY <2>1, <2>2, <2>5, <1>1, <1>a DEF Retagged, Unit
  <2>6. CASE q >= e /\ SameEnd(m, r, e)
    BY <2>1, <2>2, <2>6, <1>1 DEF Retagged, Unit, SameEnd
  <2>7. CASE q >= e /\ NewEnd(m, r, e)
    BY <2>1, <2>2, <2>7, <1>1 DEF Unit, NewEnd
  <2> QED BY <2>3, <2>4, <2>5, <2>6, <2>7, <1>1 DEF Unit
<1>3. \A q : q \in Starts(r) <=> q = p \/ (q \in Starts(m) /\ (q < p \/ q >= e))
  BY <1>1, <1>2, Types
<1>4. \A q : q \in Bounds(r) <=> q = p \/ q = e \/ (q \in Bounds(m) /\ (q < p \/ q > e))
  <2> SUFFICES ASSUME NEW q
               PROVE q \in Bounds(r) <=>
                       q = p \/ q = e \/ (q \in Bounds(m) /\ (q < p \/ q > e))
    OBVIOUS
  <2>1. q \in Bounds(r) <=> q \in Starts(r) \/ q = r.brk
    BY DEF Bounds
  <2>2. q \in Bounds(m) <=> q \in Starts(m) \/ q = m.brk
    BY DEF Bounds
  <2>3. q \in Starts(m) => q \in Unit /\ q < m.brk
    BY Types
  <2>4. CASE SameEnd(m, r, e)
    <3>1. (e \in Starts(m) \/ e = m.brk) /\ r.brk = m.brk
      BY <2>4 DEF SameEnd, Bounds
    <3> QED BY <2>1, <2>2, <2>3, <3>1, <1>1, <1>3, <1>a DEF Unit
  <2>5. CASE NewEnd(m, r, e)
    BY <2>1, <2>2, <2>3, <2>5, <1>1, <1>3 DEF Unit, NewEnd
  <2> QED BY <2>4, <2>5
<1>5. ASSUME NEW q \in Starts(r)
      PROVE  /\ q > 1 => Size(r, q) >= MinBlockSize
             /\ NextBlk(r, q) \in Bounds(r)
             /\ r.ftr[NextBlk(r, q)] = r.hdr[q]
             /\ \A x \in Unit : q < x /\ x < NextBlk(r, q) => r.hdr[x] = NoTag
  <2>1. q = p \/ (q \in Starts(m) /\ q \in Unit /\ (q < p \/ q >= e))
    BY <1>3, Types
  <2>2. CASE q = p
    <3>1. r.hdr[q] = t /\ NextBlk(r, q) = e
      BY <2>2, <1>1 DEF NextBlk, Retagged, Unit
    <3>2. e \in Bounds(r)
      BY <1>4
    <3>3. Size(r, q) >= MinBlockSize
      BY <3>1 DEF Size
    <3>4. r.ftr[NextBlk(r, q)] = r.hdr[q]
      BY <3>1 DEF Retagged
    <3>5. \A x \in Unit : q < x /\ x < NextBlk(r, q) => r.hdr[x] = NoTag
      BY <3>1, <2>2 DEF Retagged
    <3> QED
      BY <3>1, <3>2, <3>3, <3>4, <3>5
  <2>3. CASE q # p
    <3>0. q >= e => SameEnd(m, r, e)
      BY <2>1, <2>3, <1>1, Types DEF NewEnd, Unit
    <3>1. r.hdr[q] = m.hdr[q] /\ NextBlk(r, q) = NextBlk(m, q)
      BY <2>1, <2>3, <3>0, <1>1 DEF NextBlk, Retagged, Unit, SameEnd
    <3>2. NextBlk(m, q) \in Bounds(m) /\ NextBlk(m, q) \in Unit /\ NextBlk(m, q) > q
      BY <2>1, <2>3, Types DEF Tiled, TiledForward, NextBlk, Unit
    <3>3. (q < p /\ NextBlk(m, q) <= p) \/ (q >= e /\ NextBlk(m, q) > e)
      <4>2. q < p => NextBlk(m, q) <= p
        BY <2>1, <2>3, InsideIsNoStart DEF Tiled
      <4> QED BY <4>2, <2>1, <2>3, <1>1, <3>2 DEF Unit
    <3>4. NextBlk(m, q) \in Bounds(r)
      BY <1>4, <3>2, <3>3, <1>1 DEF Unit
    <3>5. r.ftr[NextBlk(m, q)] = m.ftr[NextBlk(m, q)]
      BY <3>2, <3>3, <1>1 DEF Retagged, Unit
    <3>6. \A x \in Unit : q < x /\ x < NextBlk(m, q) => r.hdr[x] = m.hdr[x]
      BY <2>1, <2>3, <3>2, <3>3, <1>1 DEF Retagged, Unit
    <3> QED
      BY <2>1, <2>3, <3>1, <3>4, <3>5, <3>6 DEF Tiled, TiledForward, Size
  <2> QED BY <2>2, <2>3
<1>6. ASSUME NEW q \in Bounds(r) \ {1}
      PROVE  PrevBlk(r, q) \in Starts(r) /\ r.hdr[PrevBlk(r, q)] = r.ftr[q]
  <2>2. CASE q = e
    <3>1. PrevBlk(r, q) = p
      BY <2>2, <1>1 DEF PrevBlk, Retagged, Unit
    <3> QED BY <3>1, <2>2, <1>3, <1>1 DEF Retagged, Unit
  <2>3. CASE q # e
    <3>0. q \in Bounds(m) \ {1} /\ q \in Unit /\ (q <= p \/ q > e)
      BY <1>4, <1>1, <2>3, Types DEF Unit
    <3>1. r.ftr[q] = m.ftr[q] /\ PrevBlk(r, q) = PrevBlk(m, q)
      BY <3>0, <1>1 DEF PrevBlk, Retagged, Unit
    <3> DEFINE v == PrevBlk(m, q)
    <3>2. v \in Starts(m) /\ m.hdr[v] = m.ftr[q] /\ v \in Unit
      BY <3>0, Types DEF Tiled, TiledBack
    <3>3. v + m.hdr[v].size = q /\ v < q
      <4>1. v = q - m.ftr[q].size
        BY DEF PrevBlk
      <4>2. m.ftr[q].size > 0 /\ m.ftr[q].size \in Nat
        BY <3>2, Types
      <4> HIDE DEF v
      <4> QED BY <4>1, <4>2, <3>2, <3>0 DEF Unit
    <3>4. v < p \/ (v >= e /\ SameEnd(m, r, e))
      <4>1. ASSUME q > e PROVE v >= e /\ SameEnd(m, r, e)
        <5>1. SameEnd(m, r, e)
          BY <4>1, <3>0, <1>1, Types DEF NewEnd, Unit
        <5>2. CASE v < e
          <6>1. NextBlk(m, v) <= e
            BY <5>1, <5>2, <3>2, InsideIsNoStart DEF Tiled, SameEnd
          <6> QED BY <4>1, <6>1, <3>3, <3>0, <1>1 DEF NextBlk, Unit
        <5> QED BY <5>1, <5>2, <3>2, <1>1 DEF Unit
      <4> QED BY <4>1, <3>0, <3>2, <3>3, <1>1 DEF Unit
    <3> QED
      BY <3>1, <3>2, <3>4, <1>1, <1>3 DEF Retagged, Unit, SameEnd
  <2> QED BY <2>2, <2>3
<1>7. TiledEnds(r)
  <2>1. r.brk >= FirstBlock
    <3>1. m.brk >= FirstBlock
      BY DEF TiledEnds, Tiled
    <3> QED BY <3>1, <1>1, <1>a DEF Unit, FirstBlock
  <2>2. r.hdr[1] = m.hdr[1]
    <3>1. 1 \in Unit
      BY HeapAssumption DEF Unit, FirstBlock, MinBlockSize
    <3> QED BY <3>1 DEF Retagged
  <2>3. r.hdr[r.brk] = Epilogue
    <3>1. CASE NewEnd(m, r, e)
      BY <3>1 DEF NewEnd
    <3>2. CASE SameEnd(m, r, e)
      <4>1. m.brk = e \/ m.brk > e
        BY <3>2, <1>1, <1>a DEF SameEnd, Unit
      <4> QED BY <4>1, <3>2, <1>1 DEF SameEnd, Retagged, Tiled, TiledEnds
    <3> QED BY <3>1, <3>2
  <2> QED BY <2>1, <2>2, <2>3 DEF TiledEnds, Tiled
<1> QED
  BY <1>3, <1>5, <1>6, <1>7 DEF Tiled, TiledForward, TiledBack

\* r is m with the block at p cut in two at x.
CutAt(m, r, p, x, t, u) ==
  LET e == NextBlk(m, p) IN
  /\ r.brk = m.brk
  /\ r.hdr[p] = t /\ r.ftr[x] = t /\ r.hdr[x] = u /\ r.ftr[e] = u
  /\ \A q \in Unit : q # p /\ q # x => r.hdr[q] = m.hdr[q]
  /\ \A q \in Unit : q # x /\ q # e => r.ftr[q] = m.ftr[q]

\* A heap stays tiled when one block is cut in two: place and the splits of
\* mm_realloc.
LEMMA Cut ==
  ASSUME NEW m \in HeapRecord, NEW r \in HeapRecord, Tiled(m),
         NEW p \in Starts(m), p > 1, NEW x \in Unit,
         x - p >= MinBlockSize, NextBlk(m, p) - x >= MinBlockSize,
         NEW t \in Tag, t.size = x - p, NEW u \in Tag, u.size = NextBlk(m, p) - x,
         CutAt(m, r, p, x, t, u)
  PROVE  /\ Tiled(r)
         /\ \A q : q \in Starts(r) <=> q = x \/ q \in Starts(m)
<1> DEFINE e == NextBlk(m, p)
<1>1. /\ p \in Unit /\ e \in Unit /\ e \in Bounds(m) /\ p < x /\ x < e
      /\ m.brk \in Unit /\ e <= m.brk
  BY Types DEF Unit, MinBlockSize, Tiled, TiledForward
<1>2. m.hdr[x] = NoTag /\ x \notin Bounds(m)
  <2>1. m.hdr[x] = NoTag
    BY <1>1 DEF Tiled, TiledForward
  <2>2. x \notin Starts(m)
    BY <2>1 DEF NoTag, Starts
  <2> QED BY <2>1, <2>2, <1>1 DEF Bounds, Unit
<1>3. t.size > 0 /\ u.size > 0
  BY <1>1 DEF Unit
<1>4. \A q : q \in Starts(r) <=> q = x \/ q \in Starts(m)
  <2> SUFFICES ASSUME NEW q \in Unit
               PROVE q \in Starts(r) <=> q = x \/ q \in Starts(m)
    BY Types
  <2>1. q \in Starts(m) <=> q < m.brk /\ m.hdr[q].size > 0
    BY <1>1 DEF Starts, Unit
  <2>2. q \in Starts(r) <=> q < m.brk /\ r.hdr[q].size > 0
    BY <1>1 DEF Starts, Unit, CutAt
  <2>3. CASE q = p
    BY <2>1, <2>2, <2>3, <1>3 DEF CutAt
  <2>4. CASE q = x
    BY <2>2, <2>4, <1>1, <1>3 DEF CutAt, Unit
  <2>5. CASE q # p /\ q # x
    BY <2>1, <2>2, <2>5 DEF CutAt
  <2> QED BY <2>3, <2>4, <2>5
<1>5. \A q : q \in Bounds(r) <=> q = x \/ q \in Bounds(m)
  BY <1>4 DEF Bounds, CutAt
<1>6. ASSUME NEW q \in Starts(r)
      PROVE  /\ q > 1 => Size(r, q) >= MinBlockSize
             /\ NextBlk(r, q) \in Bounds(r)
             /\ r.ftr[NextBlk(r, q)] = r.hdr[q]
             /\ \A y \in Unit : q < y /\ y < NextBlk(r, q) => r.hdr[y] = NoTag
  <2>1. CASE q = p
    <3>1. r.hdr[q] = t /\ NextBlk(r, q) = x
      BY <2>1, <1>1 DEF NextBlk, CutAt, Unit
    <3>2. \A y \in Unit : q < y /\ y < x => r.hdr[y] = NoTag
      <4>1. \A y \in Unit : p < y /\ y < e => m.hdr[y] = NoTag
        BY DEF Tiled, TiledForward
      <4> QED BY <4>1, <2>1, <1>1 DEF CutAt, Unit
    <3> QED
      BY <3>1, <3>2, <1>5 DEF Size, CutAt
  <2>2. CASE q = x
    <3>1. r.hdr[q] = u /\ NextBlk(r, q) = e
      BY <2>2, <1>1 DEF NextBlk, CutAt, Unit
    <3>2. \A y \in Unit : q < y /\ y < e => r.hdr[y] = NoTag
      <4>1. \A y \in Unit : p < y /\ y < e => m.hdr[y] = NoTag
        BY DEF Tiled, TiledForward
      <4> QED BY <4>1, <2>2, <1>1 DEF CutAt, Unit
    <3> QED
      BY <3>1, <3>2, <1>1, <1>5 DEF Size, CutAt
  <2>3. CASE q # p /\ q # x
    <3>1. q \in Starts(m) /\ q \in Unit
      BY <2>3, <1>4, Types
    <3>2. r.hdr[q] = m.hdr[q] /\ NextBlk(r, q) = NextBlk(m, q)
      BY <3>1, <2>3 DEF NextBlk, CutAt
    <3>3. NextBlk(m, q) \in Bounds(m) /\ NextBlk(m, q) \in Unit /\ NextBlk(m, q) > q
      BY <3>1, Types DEF Tiled, TiledForward, NextBlk, Unit
    <3>4. NextBlk(m, q) <= p \/ q >= e
      <4>1. q < p => NextBlk(m, q) <= p
        BY <3>1, InsideIsNoStart DEF Tiled, Bounds
      <4>2. p < q => e <= q
        BY <3>1, InsideIsNoStart DEF Tiled, Bounds
      <4> QED BY <4>1, <4>2, <3>1, <3>3, <2>3, <1>1 DEF Unit
    <3>5. r.ftr[NextBlk(m, q)] = m.ftr[NextBlk(m, q)]
      BY <3>1, <3>3, <3>4, <1>1 DEF CutAt, Unit
    <3>6. \A y \in Unit : q < y /\ y < NextBlk(m, q) => r.hdr[y] = m.hdr[y]
      BY <3>1, <3>3, <3>4, <1>1 DEF CutAt, Unit
    <3> QED
      BY <3>1, <3>2, <3>3, <3>5, <3>6, <1>5 DEF Tiled, TiledForward, Size
  <2> QED BY <2>1, <2>2, <2>3
<1>7. ASSUME NEW q \in Bounds(r) \ {1}
      PROVE  PrevBlk(r, q) \in Starts(r) /\ r.hdr[PrevBlk(r, q)] = r.ftr[q]
  <2>1. CASE q = x
    <3>1. PrevBlk(r, q) = p
      BY <2>1, <1>1 DEF PrevBlk, CutAt, Unit
    <3> QED BY <3>1, <2>1, <1>4 DEF CutAt
  <2>2. CASE q = e
    <3>1. PrevBlk(r, q) = x
      BY <2>2, <1>1 DEF PrevBlk, CutAt, Unit
    <3> QED BY <3>1, <2>2, <1>4 DEF CutAt
  <2>3. CASE q # x /\ q # e
    <3>1. q \in Bounds(m) \ {1} /\ q \in Unit
      BY <2>3, <1>5, Types
    <3>2. r.ftr[q] = m.ftr[q] /\ PrevBlk(r, q) = PrevBlk(m, q)
      BY <3>1, <2>3 DEF PrevBlk, CutAt
    <3> DEFINE v == PrevBlk(m, q)
    <3>3. v \in Starts(m) /\ m.hdr[v] = m.ftr[q] /\ v \in Unit
      BY <3>1, Types DEF Tiled, TiledBack
    <3>4. NextBlk(m, v) = q
      <4>1. v = q - m.ftr[q].size /\ m.ftr[q].size \in Nat
        BY <3>3, Types DEF PrevBlk
      <4> HIDE DEF v
      <4> QED BY <4>1, <3>3, <3>1 DEF NextBlk, Unit
    <3>5. v # p /\ v # x
      BY <3>3, <3>4, <2>3, <1>2 DEF Bounds
    <3> QED
      BY <3>2, <3>3, <3>5, <1>4 DEF CutAt
  <2> QED BY <2>1, <2>2, <2>3
<1>8. TiledEnds(r)
  <2>1. 1 \in Unit
    BY HeapAssumption DEF Unit, FirstBlock, MinBlockSize
  <2>2. m.brk # p /\ m.brk # x
    BY <1>1 DEF Unit
  <2> QED
    BY <2>1, <2>2, <1>1 DEF TiledEnds, Tiled, CutAt, Unit
<1> QED
  BY <1>4, <1>6, <1>7, <1>8 DEF Tiled, TiledForward, TiledBack

-----------------------------------------------------------------------------
(* Lists.                                                                  *)

\* A sequence with an element put in front (seg_list_insert).
LEMMA ConsProperties ==
  ASSUME NEW S, NEW s \in Seq(S), NEW p \in S
  PROVE  /\ <<p>> \o s \in Seq(S)
         /\ Len(<<p>> \o s) = Len(s) + 1
         /\ (<<p>> \o s)[1] = p
         /\ \A k \in 1 .. Len(s) : (<<p>> \o s)[k + 1] = s[k]
OBVIOUS

\* A sequence with one place taken out (seg_list_remove).
LEMMA WithoutProperties ==
  ASSUME NEW S, NEW s \in Seq(S), NEW i \in 1 .. Len(s)
  PROVE  /\ Without(s, i) \in Seq(S)
         /\ Len(Without(s, i)) = Len(s) - 1
         /\ \A k \in 1 .. Len(s) - 1 :
              Without(s, i)[k] = IF k < i THEN s[k] ELSE s[k + 1]
<1> DEFINE front == SubSeq(s, 1, i - 1)
           back  == SubSeq(s, i + 1, Len(s))
<1>1. Len(s) \in Nat /\ \A k \in 1 .. Len(s) : s[k] \in S
  OBVIOUS
<1>2. /\ front \in Seq(S) /\ Len(front) = i - 1
      /\ \A k \in 1 .. i - 1 : front[k] = s[k]
  <2>1. /\ SubSeq(s, 1, i - 1) \in Seq(S)
        /\ Len(SubSeq(s, 1, i - 1)) = IF 1 <= i - 1 THEN (i - 1) - 1 + 1 ELSE 0
        /\ \A k \in 1 .. (i - 1) - 1 + 1 : SubSeq(s, 1, i - 1)[k] = s[1 + k - 1]
    BY <1>1, SubSeqProperties
  <2> QED BY <2>1, <1>1
<1>3. /\ back \in Seq(S) /\ Len(back) = Len(s) - i
      /\ \A k \in 1 .. Len(s) - i : back[k] = s[i + k]
  <2>1. /\ SubSeq(s, i + 1, Len(s)) \in Seq(S)
        /\ Len(SubSeq(s, i + 1, Len(s))) = IF i + 1 <= Len(s) THEN Len(s) - (i + 1) + 1 ELSE 0
        /\ \A k \in 1 .. Len(s) - (i + 1) + 1 : SubSeq(s, i + 1, Len(s))[k] = s[i + 1 + k - 1]
    BY <1>1, SubSeqProperties
  <2> QED BY <2>1, <1>1
<1> HIDE DEF front, back
<1>4. /\ front \o back \in Seq(S)
      /\ Len(front \o back) = Len(front) + Len(back)
      /\ \A k \in 1 .. Len(front) + Len(back) :
           (front \o back)[k] = IF k <= Len(front) THEN front[k] ELSE back[k - Len(front)]
  BY <1>2, <1>3, ConcatProperties
<1>5. Without(s, i) = front \o back
  BY DEF Without, front, back
<1>6. ASSUME NEW k \in 1 .. Len(s) - 1
      PROVE (front \o back)[k] = IF k < i THEN s[k] ELSE s[k + 1]
  <2>1. CASE k < i
    BY <2>1, <1>1, <1>2, <1>3, <1>4
  <2>2. CASE ~(k < i)
    <3>1. (front \o back)[k] = back[k - (i - 1)]
      BY <2>2, <1>1, <1>2, <1>3, <1>4
    <3>2. k - (i - 1) \in 1 .. Len(s) - i
      BY <2>2, <1>1
    <3> QED BY <3>1, <3>2, <2>2, <1>1, <1>3
  <2> QED BY <2>1, <2>2
<1>7. front \o back \in Seq(S) /\ Len(front \o back) = Len(s) - 1
  BY <1>1, <1>2, <1>3, <1>4
<1> QED
  BY <1>5, <1>6, <1>7

\* get_seg_list_index always names one of the lists.
LEMMA SegIndexRange ==
  ASSUME NEW n \in Nat
  PROVE  SegIndex(n) \in 1 .. NumSegLists
<1> DEFINE below == {i \in DOMAIN SegBounds : SegBounds[i] < n}
<1>1. Len(SegBounds) \in Nat /\ DOMAIN SegBounds = 1 .. Len(SegBounds)
  BY SegAssumption
<1>2. IsFiniteSet(1 .. Len(SegBounds)) /\ Cardinality(1 .. Len(SegBounds)) = Len(SegBounds)
  <2> DEFINE top == Len(SegBounds)
  <2>1. top \in Nat
    BY <1>1
  <2> HIDE DEF top
  <2>2. /\ IsFiniteSet(1 .. top)
        /\ Cardinality(1 .. top) = IF 1 > top THEN 0 ELSE top - 1 + 1
    BY <2>1, FS_Interval
  <2>3. (IF 1 > top THEN 0 ELSE top - 1 + 1) = top
    BY <2>1
  <2>4. IsFiniteSet(1 .. top) /\ Cardinality(1 .. top) = top
    BY <2>2, <2>3
  <2> QED BY <2>4 DEF top
<1>3. below \subseteq 1 .. Len(SegBounds)
  BY <1>1
<1>4. IsFiniteSet(below) /\ Cardinality(below) <= Len(SegBounds)
  BY <1>2, <1>3, FS_Subset
<1>5. Cardinality(below) \in Nat
  BY <1>4, FS_CardinalityType
<1> QED
  BY <1>1, <1>4, <1>5 DEF SegIndex, NumSegLists

\* r differs from m in the index only (and in payload nobody owns).
SameTags(m, r) ==
  /\ r \in HeapRecord
  /\ r.hdr = m.hdr /\ r.ftr = m.ftr /\ r.brk = m.brk /\ r.only_for_16 = m.only_for_16

\* Who touches the index alone moves no block.
LEMMA SameTagsSameBlocks ==
  ASSUME NEW m, NEW r, SameTags(m, r)
  PROVE  /\ Starts(r) = Starts(m) /\ Bounds(r) = Bounds(m)
         /\ FreeBlocks(r) = FreeBlocks(m) /\ AllocBlocks(r) = AllocBlocks(m)
         /\ \A p : Size(r, p) = Size(m, p)
         /\ Tiled(m) => Tiled(r)
<1>1. Starts(r) = Starts(m) /\ \A p : Size(r, p) = Size(m, p)
  BY DEF SameTags, Starts, Size
<1>2. Bounds(r) = Bounds(m) /\ FreeBlocks(r) = FreeBlocks(m) /\ AllocBlocks(r) = AllocBlocks(m)
  BY <1>1 DEF SameTags, Bounds, FreeBlocks, AllocBlocks
<1>3. \A p : NextBlk(r, p) = NextBlk(m, p) /\ PrevBlk(r, p) = PrevBlk(m, p)
  BY DEF SameTags, NextBlk, PrevBlk
<1>4. Tiled(m) => Tiled(r)
  BY <1>1, <1>2, <1>3 DEF SameTags, Tiled, TiledEnds, TiledForward, TiledBack
<1> QED BY <1>1, <1>2, <1>4

\* Block p entered at the head of the list of its size leaves the index exact.
LEMMA InsertedIndexed ==
  ASSUME NEW m \in HeapRecord, NEW r, NEW H, Indexed(m, H), SameTags(m, r),
         NEW p \in FreeBlocks(m), p \in H, Size(m, p) <= SmallBlockMax,
         r.tree = m.tree,
         r.seg = [m.seg EXCEPT ![SegIndex(Size(m, p))] = <<p>> \o @]
  PROVE  Indexed(r, H \ {p})
<1> DEFINE i0 == SegIndex(Size(m, p))
<1>1. p \in Unit /\ Size(m, p) \in Nat
  BY Types DEF FreeBlocks, Size
<1>2. i0 \in 1 .. NumSegLists
  BY <1>1, SegIndexRange
<1>3. m.seg \in [1 .. NumSegLists -> Seq(Unit)] /\ m.seg[i0] \in Seq(Unit)
  BY <1>2 DEF HeapRecord
<1>4. r.seg[i0] = <<p>> \o m.seg[i0] /\ \A i \in 1 .. NumSegLists : i # i0 => r.seg[i] = m.seg[i]
  BY <1>2, <1>3
<1>5. /\ DOMAIN r.seg[i0] = 1 .. Len(m.seg[i0]) + 1
      /\ Len(m.seg[i0]) \in Nat /\ DOMAIN m.seg[i0] = 1 .. Len(m.seg[i0])
      /\ r.seg[i0][1] = p
      /\ \A k \in 1 .. Len(m.seg[i0]) : r.seg[i0][k + 1] = m.seg[i0][k]
  <2>1. /\ <<p>> \o m.seg[i0] \in Seq(Unit)
        /\ Len(<<p>> \o m.seg[i0]) = Len(m.seg[i0]) + 1
        /\ (<<p>> \o m.seg[i0])[1] = p
        /\ \A k \in 1 .. Len(m.seg[i0]) : (<<p>> \o m.seg[i0])[k + 1] = m.seg[i0][k]
    BY <1>1, <1>3, ConsProperties
  <2> QED BY <2>1, <1>3, <1>4
<1> HIDE DEF i0
<1>6. FreeBlocks(r) = FreeBlocks(m) /\ \A q : Size(r, q) = Size(m, q)
  BY SameTagsSameBlocks
<1>7. ListsSound(r, H \ {p})
  <2> SUFFICES ASSUME NEW i \in 1 .. NumSegLists, NEW k \in DOMAIN r.seg[i]
               PROVE  /\ r.seg[i][k] \in FreeBlocks(m) \ (H \ {p})
                      /\ Size(m, r.seg[i][k]) <= SmallBlockMax
                      /\ SegIndex(Size(m, r.seg[i][k])) = i
                      /\ \A l \in DOMAIN r.seg[i] : r.seg[i][l] = r.seg[i][k] => l = k
    BY <1>6 DEF ListsSound
  <2>1. CASE i # i0
    BY <2>1, <1>4 DEF Indexed, ListsSound
  <2>2. CASE i = i0
    <3>1. \A j \in 1 .. Len(m.seg[i0]) :
            /\ m.seg[i0][j] \in FreeBlocks(m) \ H
            /\ Size(m, m.seg[i0][j]) <= SmallBlockMax
            /\ SegIndex(Size(m, m.seg[i0][j])) = i0
            /\ \A l \in 1 .. Len(m.seg[i0]) : m.seg[i0][l] = m.seg[i0][j] => l = j
      BY <1>2, <1>5 DEF Indexed, ListsSound
    <3>2. \A j \in 2 .. Len(m.seg[i0]) + 1 :
            j - 1 \in 1 .. Len(m.seg[i0]) /\ r.seg[i0][j] = m.seg[i0][j - 1]
      <4> TAKE j \in 2 .. Len(m.seg[i0]) + 1
      <4>1. j - 1 \in 1 .. Len(m.seg[i0]) /\ (j - 1) + 1 = j
        BY <1>5
      <4>2. r.seg[i0][(j - 1) + 1] = m.seg[i0][j - 1]
        BY <4>1, <1>5
      <4> QED BY <4>1, <4>2
    <3>3. CASE k = 1
      <4>1. r.seg[i][k] = p
        BY <3>3, <2>2, <1>5
      <4>2. \A l \in DOMAIN r.seg[i] : r.seg[i][l] = p => l = 1
        BY <2>2, <3>1, <3>2, <1>5
      <4> QED BY <4>1, <4>2, <3>3, <2>2 DEF i0
    <3>4. CASE k # 1
      <4>1. k \in 2 .. Len(m.seg[i0]) + 1
        BY <3>4, <2>2, <1>5
      <4>2. r.seg[i][k] = m.seg[i0][k - 1] /\ k - 1 \in 1 .. Len(m.seg[i0])
        BY <4>1, <3>2, <2>2
      <4>3. ASSUME NEW l \in DOMAIN r.seg[i], r.seg[i][l] = r.seg[i][k] PROVE l = k
        <5>1. l # 1
          BY <4>2, <4>3, <3>1, <1>5, <2>2
        <5>2. l \in 2 .. Len(m.seg[i0]) + 1
          BY <5>1, <1>5, <2>2
        <5>3. m.seg[i0][l - 1] = m.seg[i0][k - 1] /\ l - 1 \in 1 .. Len(m.seg[i0])
          BY <5>2, <4>2, <4>3, <3>2, <2>2
        <5>4. l - 1 = k - 1
          BY <5>3, <4>2, <3>1
        <5> QED BY <5>4, <5>2, <4>1
      <4> QED BY <4>2, <4>3, <3>1, <2>2
    <3> QED BY <3>3, <3>4
  <2> QED BY <2>1, <2>2
<1>8. TreeSound(r, H \ {p})
  BY <1>6 DEF Indexed, TreeSound
<1>9. NoneLost(r, H \ {p})
  <2> SUFFICES ASSUME NEW q \in FreeBlocks(m) \ (H \ {p})
               PROVE IF Size(m, q) <= SmallBlockMax
                     THEN \E k \in DOMAIN r.seg[SegIndex(Size(m, q))] :
                            r.seg[SegIndex(Size(m, q))][k] = q
                     ELSE q \in m.tree
    BY <1>6 DEF NoneLost
  <2>1. CASE q = p
    <3>1. 1 \in DOMAIN r.seg[i0] /\ r.seg[i0][1] = p
      BY <1>5
    <3> QED BY <3>1, <2>1 DEF i0
  <2>2. CASE q # p /\ Size(m, q) <= SmallBlockMax
    <3> DEFINE i == SegIndex(Size(m, q))
    <3>1. i \in 1 .. NumSegLists
      BY SegIndexRange, Types DEF FreeBlocks, Size
    <3>2. PICK k \in DOMAIN m.seg[i] : m.seg[i][k] = q
      BY <2>2 DEF Indexed, NoneLost
    <3> HIDE DEF i
    <3>3. CASE i = i0
      <4>1. k + 1 \in DOMAIN r.seg[i] /\ r.seg[i][k + 1] = q
        BY <3>2, <3>3, <1>5
      <4> QED BY <4>1, <2>2 DEF i
    <3>4. CASE i # i0
      BY <3>1, <3>2, <3>4, <1>4, <2>2 DEF i
    <3> QED BY <3>3, <3>4
  <2>3. CASE q # p /\ ~(Size(m, q) <= SmallBlockMax)
    BY <2>3 DEF Indexed, NoneLost
  <2> QED BY <2>1, <2>2, <2>3
<1> QED
  BY <1>7, <1>8, <1>9 DEF Indexed

\* The block at place j of a list taken out of it leaves the index exact.
LEMMA RemovedIndexed ==
  ASSUME NEW m \in HeapRecord, NEW r, NEW H, Indexed(m, H), SameTags(m, r),
         NEW i0 \in 1 .. NumSegLists, NEW j \in DOMAIN m.seg[i0],
         r.tree = m.tree,
         r.seg = [m.seg EXCEPT ![i0] = Without(@, j)]
  PROVE  Indexed(r, H \union {m.seg[i0][j]})
<1> DEFINE p == m.seg[i0][j]
           n == Len(m.seg[i0])
           back(k) == IF k < j THEN k ELSE k + 1
<1>1. /\ m.seg \in [1 .. NumSegLists -> Seq(Unit)] /\ m.seg[i0] \in Seq(Unit)
      /\ n \in Nat /\ DOMAIN m.seg[i0] = 1 .. n /\ j \in 1 .. n
  <2>1. m.seg \in [1 .. NumSegLists -> Seq(Unit)]
    BY DEF HeapRecord
  <2>2. m.seg[i0] \in Seq(Unit)
    BY <2>1
  <2> QED BY <2>1, <2>2
<1>2. /\ r.seg[i0] = Without(m.seg[i0], j)
      /\ \A i \in 1 .. NumSegLists : i # i0 => r.seg[i] = m.seg[i]
  BY <1>1
<1>3. /\ DOMAIN r.seg[i0] = 1 .. n - 1
      /\ \A k \in 1 .. n - 1 : /\ r.seg[i0][k] = m.seg[i0][back(k)]
                               /\ back(k) \in 1 .. n /\ back(k) # j
  <2>1. /\ Without(m.seg[i0], j) \in Seq(Unit)
        /\ Len(Without(m.seg[i0], j)) = n - 1
        /\ \A k \in 1 .. n - 1 : Without(m.seg[i0], j)[k] =
              IF k < j THEN m.seg[i0][k] ELSE m.seg[i0][k + 1]
    BY <1>1, WithoutProperties
  <2>2. \A k \in 1 .. n - 1 : back(k) \in 1 .. n /\ back(k) # j
    BY <1>1
  <2> QED BY <1>1, <1>2, <2>1, <2>2
<1>4. \A k \in 1 .. n : /\ m.seg[i0][k] \in FreeBlocks(m) \ H
                        /\ Size(m, m.seg[i0][k]) <= SmallBlockMax
                        /\ SegIndex(Size(m, m.seg[i0][k])) = i0
                        /\ \A l \in 1 .. n : m.seg[i0][l] = m.seg[i0][k] => l = k
  BY <1>1 DEF Indexed, ListsSound
<1>5. FreeBlocks(r) = FreeBlocks(m) /\ \A q : Size(r, q) = Size(m, q)
  BY SameTagsSameBlocks
<1>6. ListsSound(r, H \union {p})
  <2> SUFFICES ASSUME NEW i \in 1 .. NumSegLists, NEW k \in DOMAIN r.seg[i]
               PROVE  /\ r.seg[i][k] \in FreeBlocks(m) \ (H \union {p})
                      /\ Size(m, r.seg[i][k]) <= SmallBlockMax
                      /\ SegIndex(Size(m, r.seg[i][k])) = i
                      /\ \A l \in DOMAIN r.seg[i] : r.seg[i][l] = r.seg[i][k] => l = k
    BY <1>5 DEF ListsSound
  <2>1. CASE i # i0
    <3>1. /\ m.seg[i][k] \in FreeBlocks(m) \ H
          /\ Size(m, m.seg[i][k]) <= SmallBlockMax
          /\ SegIndex(Size(m, m.seg[i][k])) = i
          /\ \A l \in DOMAIN m.seg[i] : m.seg[i][l] = m.seg[i][k] => l = k
      BY <2>1, <1>2 DEF Indexed, ListsSound
    <3>2. m.seg[i][k] # p
      BY <3>1, <2>1, <1>1, <1>4
    <3> QED BY <3>1, <3>2, <2>1, <1>2
  <2>2. CASE i = i0
    <3>1. /\ k \in 1 .. n - 1 /\ r.seg[i][k] = m.seg[i0][back(k)]
          /\ back(k) \in 1 .. n /\ back(k) # j
      BY <2>2, <1>3
    <3>2. m.seg[i0][back(k)] # p
      BY <3>1, <1>1, <1>4
    <3>3. ASSUME NEW l \in DOMAIN r.seg[i], r.seg[i][l] = r.seg[i][k] PROVE l = k
      <4>1. /\ l \in 1 .. n - 1 /\ m.seg[i0][back(l)] = m.seg[i0][back(k)]
            /\ back(l) \in 1 .. n
        BY <2>2, <3>1, <3>3, <1>3
      <4>2. back(l) = back(k)
        BY <4>1, <3>1, <1>4
      <4> QED BY <4>1, <4>2, <3>1, <1>1
    <3> QED BY <3>1, <3>2, <3>3, <1>4, <2>2
  <2> QED BY <2>1, <2>2
<1>7. TreeSound(r, H \union {p})
  <2>1. p \notin m.tree
    <3>1. Size(m, p) <= SmallBlockMax
      BY <1>1, <1>4
    <3>2. p \in m.tree => Size(m, p) > SmallBlockMax
      BY DEF Indexed, TreeSound
    <3>3. Size(m, p) \in Int /\ SmallBlockMax \in Int
      <4>1. p \in FreeBlocks(m)
        BY <1>1, <1>4
      <4> QED BY <4>1, Types, SegAssumption DEF FreeBlocks, Size, SmallBlockMax
    <3> HIDE DEF p
    <3> QED BY <3>1, <3>2, <3>3
  <2> QED BY <2>1, <1>5 DEF Indexed, TreeSound
<1>8. NoneLost(r, H \union {p})
  <2> SUFFICES ASSUME NEW q \in FreeBlocks(m) \ (H \union {p})
               PROVE IF Size(m, q) <= SmallBlockMax
                     THEN \E k \in DOMAIN r.seg[SegIndex(Size(m, q))] :
                            r.seg[SegIndex(Size(m, q))][k] = q
                     ELSE q \in m.tree
    BY <1>5 DEF NoneLost
  <2>1. CASE Size(m, q) <= SmallBlockMax
    <3> DEFINE i == SegIndex(Size(m, q))
    <3>1. i \in 1 .. NumSegLists
      BY SegIndexRange, Types DEF FreeBlocks, Size
    <3>2. PICK k \in DOMAIN m.seg[i] : m.seg[i][k] = q
      BY <2>1 DEF Indexed, NoneLost
    <3> HIDE DEF i
    <3>3. CASE i = i0
      <4>1. k \in 1 .. n /\ k # j
        BY <3>2, <3>3, <1>1
      <4> DEFINE l == IF k < j THEN k ELSE k - 1
      <4>2. l \in 1 .. n - 1 /\ back(l) = k
        BY <4>1, <1>1
      <4>3. r.seg[i0][l] = m.seg[i0][back(l)]
        BY <4>2, <1>3
      <4> HIDE DEF l
      <4>4. l \in DOMAIN r.seg[i] /\ r.seg[i][l] = q
        BY <4>2, <4>3, <3>2, <3>3, <1>3
      <4> QED BY <4>4, <2>1 DEF i
    <3>4. CASE i # i0
      BY <3>1, <3>2, <3>4, <1>2, <2>1 DEF i
    <3> QED BY <3>3, <3>4
  <2>2. CASE ~(Size(m, q) <= SmallBlockMax)
    BY <2>2 DEF Indexed, NoneLost
  <2> QED BY <2>1, <2>2
<1> QED
  BY <1>6, <1>7, <1>8 DEF Indexed

\* A block of the tree's sizes entered into the tree leaves the index exact.
LEMMA TreeInsertedIndexed ==
  ASSUME NEW m \in HeapRecord, NEW r, NEW H, Indexed(m, H), SameTags(m, r),
         NEW p \in FreeBlocks(m), p \in H, ~(Size(m, p) <= SmallBlockMax),
         r.seg = m.seg, r.tree = m.tree \union {p}
  PROVE  Indexed(r, H \ {p})
<1>1. FreeBlocks(r) = FreeBlocks(m) /\ \A q : Size(r, q) = Size(m, q)
  BY SameTagsSameBlocks
<1>2. Size(m, p) > SmallBlockMax
  <2>1. Size(m, p) \in Int /\ SmallBlockMax \in Int
    BY Types, SegAssumption DEF FreeBlocks, Size, SmallBlockMax
  <2> QED BY <2>1
<1>3. ListsSound(r, H \ {p}) /\ TreeSound(r, H \ {p})
  BY <1>1, <1>2 DEF Indexed, ListsSound, TreeSound
<1>4. NoneLost(r, H \ {p})
  BY <1>1 DEF Indexed, NoneLost
<1> QED BY <1>3, <1>4 DEF Indexed

\* A block of the tree's sizes taken out of the tree leaves the index exact.
LEMMA TreeRemovedIndexed ==
  ASSUME NEW m \in HeapRecord, NEW r, NEW H, Indexed(m, H), SameTags(m, r),
         NEW p \in FreeBlocks(m), ~(Size(m, p) <= SmallBlockMax),
         r.seg = m.seg, r.tree = m.tree \ {p}
  PROVE  Indexed(r, H \union {p})
<1>1. FreeBlocks(r) = FreeBlocks(m) /\ \A q : Size(r, q) = Size(m, q)
  BY SameTagsSameBlocks
<1>2. ListsSound(r, H \union {p}) /\ TreeSound(r, H \union {p})
  BY <1>1 DEF Indexed, ListsSound, TreeSound
<1>3. NoneLost(r, H \union {p})
  BY <1>1 DEF Indexed, NoneLost
<1> QED BY <1>2, <1>3 DEF Indexed

-----------------------------------------------------------------------------
(* The operators of Heap on a heap in order.                               *)

\* m is a heap in order but for the free blocks in hand.
Good(m, inhand) ==
  /\ m \in HeapRecord /\ Tiled(m) /\ Indexed(m, inhand)
  /\ inhand \subseteq FreeBlocks(m)

\* Outside lo < q < hi no payload changed.
DataOutside(m, r, lo, hi) ==
  \A q \in Unit : q <= lo \/ q >= hi => r.data[q] = m.data[q]

\* Writing links or node fields changes nothing but the payload they lie in.
LEMMA PutLinksFields ==
  ASSUME NEW m \in HeapRecord, NEW p \in Unit, NEW n \in Nat
  PROVE  /\ SameTags(m, PutLinks(m, p, n))
         /\ PutLinks(m, p, n).seg = m.seg /\ PutLinks(m, p, n).tree = m.tree
         /\ \A q \in Unit : q <= p \/ q > p + n => PutLinks(m, p, n).data[q] = m.data[q]
<1> DEFINE d == [q \in Unit |-> IF q > p /\ q <= p + n THEN Junk ELSE m.data[q]]
<1>1. PutLinks(m, p, n) = [m EXCEPT !.data = d]
  BY DEF PutLinks
<1>2. d \in [Unit -> Ids \union {Junk}]
  BY DEF HeapRecord
<1>3. \A q \in Unit : q <= p \/ q > p + n => d[q] = m.data[q]
  BY DEF Unit
<1> HIDE DEF d
<1> QED BY <1>1, <1>2, <1>3 DEF SameTags, HeapRecord

\* add_to_list enters a block in hand and writes inside its payload only.
LEMMA AddToListGood ==
  ASSUME NEW m, NEW H, Good(m, H), NEW p \in H
  PROVE  LET r == AddToList(m, p) IN
         /\ Good(r, H \ {p}) /\ SameTags(m, r)
         /\ DataOutside(m, r, p, NextBlk(m, p))
<1> DEFINE r == AddToList(m, p)
           n == Size(m, p)
<1>1. /\ m \in HeapRecord /\ p \in FreeBlocks(m) /\ p \in Unit /\ n \in Nat
      /\ Tiled(m) /\ Indexed(m, H) /\ H \subseteq FreeBlocks(m)
  BY Types DEF Good, FreeBlocks, Size
<1>2. n >= MinBlockSize
  <2>1. p \in Starts(m) /\ p # 1
    <3>1. m.hdr[1].alloc
      BY <1>1 DEF Tiled, TiledEnds
    <3> QED BY <1>1, <3>1 DEF FreeBlocks
  <2> QED BY <2>1, <1>1 DEF Tiled, TiledForward, Unit
<1>3. SmallBlockMax \in Nat /\ SmallBlockMax >= 3
  BY SegAssumption DEF SmallBlockMax
<1>4. NextBlk(m, p) = p + n
  BY DEF NextBlk, Size
<1>5. CASE n <= SmallBlockMax
  <2> DEFINE k == PutLinks(m, p, 1)
             i == SegIndex(n)
  <2>1. /\ SameTags(m, k) /\ k.seg = m.seg /\ k.tree = m.tree
        /\ \A q \in Unit : q <= p \/ q > p + 1 => k.data[q] = m.data[q]
    BY <1>1, PutLinksFields
  <2>2. k \in HeapRecord /\ Size(k, p) = n
    BY <2>1, SameTagsSameBlocks DEF SameTags
  <2> HIDE DEF k
  <2>3. r = [k EXCEPT !.seg[i] = <<p>> \o @]
    BY <2>2, <1>5 DEF AddToList, SegListInsert, k
  <2> DEFINE sg == [k.seg EXCEPT ![i] = <<p>> \o @]
  <2>4. r = [k EXCEPT !.seg = sg]
    BY <2>3
  <2>5. sg \in [1 .. NumSegLists -> Seq(Unit)]
    <3>1. i \in 1 .. NumSegLists
      BY <1>1, SegIndexRange
    <3>2. k.seg \in [1 .. NumSegLists -> Seq(Unit)]
      BY <2>2 DEF HeapRecord
    <3>3. <<p>> \o k.seg[i] \in Seq(Unit)
      BY <3>1, <3>2, <1>1, ConsProperties
    <3> QED BY <3>1, <3>2, <3>3
  <2> HIDE DEF sg
  <2>6. SameTags(k, r) /\ r.seg = sg /\ r.tree = k.tree /\ r.data = k.data
    BY <2>2, <2>4, <2>5 DEF HeapRecord, SameTags
  <2>7. SameTags(m, r)
    BY <2>1, <2>6 DEF SameTags
  <2>8. Indexed(r, H \ {p})
    BY <1>1, <1>5, <2>1, <2>6, <2>7, InsertedIndexed DEF sg
  <2>9. DataOutside(m, r, p, NextBlk(m, p))
    BY <1>1, <1>2, <1>4, <2>1, <2>6 DEF DataOutside, Unit, MinBlockSize
  <2> QED
    BY <1>1, <2>7, <2>8, <2>9, SameTagsSameBlocks DEF Good, SameTags
<1>6. CASE ~(n <= SmallBlockMax)
  <2> DEFINE k == PutLinks(m, p, 3)
  <2>1. /\ SameTags(m, k) /\ k.seg = m.seg /\ k.tree = m.tree
        /\ \A q \in Unit : q <= p \/ q > p + 3 => k.data[q] = m.data[q]
    BY <1>1, PutLinksFields
  <2>2. k \in HeapRecord /\ Size(k, p) = n
    BY <2>1, SameTagsSameBlocks DEF SameTags
  <2>3. r = [k EXCEPT !.tree = @ \union {p}]
    BY <2>2, <1>6 DEF AddToList
  <2> HIDE DEF k
  <2>4. SameTags(k, r) /\ r.seg = k.seg /\ r.tree = k.tree \union {p} /\ r.data = k.data
    BY <2>2, <2>3, <1>1 DEF HeapRecord, SameTags
  <2>5. SameTags(m, r)
    BY <2>1, <2>4 DEF SameTags
  <2>6. Indexed(r, H \ {p})
    BY <1>1, <1>6, <2>1, <2>4, <2>5, TreeInsertedIndexed
  <2>7. DataOutside(m, r, p, NextBlk(m, p))
    BY <1>1, <1>3, <1>4, <1>6, <2>1, <2>4 DEF DataOutside, Unit
  <2> QED
    BY <1>1, <2>5, <2>6, <2>7, SameTagsSameBlocks DEF Good, SameTags
<1> QED BY <1>5, <1>6

\* remove_from_list takes a block in hand and writes to no payload.
LEMMA RemoveFromListGood ==
  ASSUME NEW m, NEW H, Good(m, H), NEW p \in FreeBlocks(m) \ H
  PROVE  LET r == RemoveFromList(m, p) IN
         /\ Good(r, H \union {p}) /\ SameTags(m, r) /\ r.data = m.data
<1> DEFINE r == RemoveFromList(m, p)
           n == Size(m, p)
           i == SegIndex(n)
           at == {k \in DOMAIN m.seg[i] : m.seg[i][k] = p}
<1>1. /\ m \in HeapRecord /\ p \in Unit /\ n \in Nat
      /\ Tiled(m) /\ Indexed(m, H) /\ H \subseteq FreeBlocks(m)
  BY Types DEF Good, FreeBlocks, Size
<1>2. i \in 1 .. NumSegLists /\ m.seg \in [1 .. NumSegLists -> Seq(Unit)]
  BY <1>1, SegIndexRange DEF HeapRecord
<1>3. CASE n <= SmallBlockMax
  <2> DEFINE j == CHOOSE k \in at : TRUE
  <2>1. at # {}
    BY <1>3 DEF Good, Indexed, NoneLost
  <2>2. j \in at
    BY <2>1
  <2>3. j \in DOMAIN m.seg[i] /\ m.seg[i][j] = p
    BY <2>2
  <2>4. r = [m EXCEPT !.seg[i] = Without(@, j)]
    BY <1>3, <2>1 DEF RemoveFromList, SegListRemove
  <2> HIDE DEF j, at, i, n
  <2> DEFINE sg == [m.seg EXCEPT ![i] = Without(@, j)]
  <2>5. r = [m EXCEPT !.seg = sg]
    BY <2>4
  <2>6. sg \in [1 .. NumSegLists -> Seq(Unit)]
    <3>1. m.seg[i] \in Seq(Unit)
      BY <1>2
    <3>2. j \in 1 .. Len(m.seg[i])
      BY <3>1, <2>3
    <3>3. Without(m.seg[i], j) \in Seq(Unit)
      BY <3>1, <3>2, WithoutProperties
    <3> QED BY <3>3, <1>2
  <2> HIDE DEF sg
  <2>7. SameTags(m, r) /\ r.seg = sg /\ r.tree = m.tree /\ r.data = m.data
    BY <1>1, <2>5, <2>6 DEF HeapRecord, SameTags
  <2>8. Indexed(r, H \union {p})
    BY <1>1, <1>2, <2>3, <2>7, RemovedIndexed DEF sg
  <2> QED
    BY <1>1, <2>7, <2>8, SameTagsSameBlocks DEF Good, SameTags
<1>4. CASE ~(n <= SmallBlockMax)
  <2>1. r = [m EXCEPT !.tree = @ \ {p}]
    BY <1>4 DEF RemoveFromList
  <2>2. SameTags(m, r) /\ r.seg = m.seg /\ r.tree = m.tree \ {p} /\ r.data = m.data
    BY <1>1, <2>1 DEF HeapRecord, SameTags
  <2>3. Indexed(r, H \union {p})
    BY <1>1, <1>4, <2>2, TreeRemovedIndexed
  <2> QED
    BY <1>1, <2>2, <2>3, SameTagsSameBlocks DEF Good, SameTags
<1> QED BY <1>3, <1>4

-----------------------------------------------------------------------------
(* What each function does.                                               *)

\* From m to r, the allocated blocks other than mine are the same blocks with
\* the same payload.
Untouched(m, r, mine) ==
  /\ AllocBlocks(r) \ mine = AllocBlocks(m) \ mine
  /\ \A b \in AllocBlocks(m) \ mine :
       /\ Size(r, b) = Size(m, b)
       /\ \A x \in Unit : b < x /\ x < NextBlk(m, b) => r.data[x] = m.data[x]

\* Steps that leave others alone compose.
LEMMA UntouchedTrans ==
  ASSUME NEW m, NEW r, NEW s, NEW A, NEW B, Untouched(m, r, A), Untouched(r, s, B)
  PROVE  Untouched(m, s, A \union B)
<1>1. \A b : Size(r, b) = Size(m, b) => NextBlk(r, b) = NextBlk(m, b)
  BY DEF Size, NextBlk
<1>2. AllocBlocks(s) \ (A \union B) = AllocBlocks(m) \ (A \union B)
  BY DEF Untouched
<1>3. ASSUME NEW b \in AllocBlocks(m) \ (A \union B)
      PROVE  /\ Size(s, b) = Size(m, b)
             /\ \A x \in Unit : b < x /\ x < NextBlk(m, b) => s.data[x] = m.data[x]
  <2>1. b \in AllocBlocks(m) \ A /\ b \in AllocBlocks(r) \ B
    BY DEF Untouched
  <2>2. Size(r, b) = Size(m, b) /\ Size(s, b) = Size(r, b) /\ NextBlk(r, b) = NextBlk(m, b)
    BY <1>1, <2>1 DEF Untouched
  <2> QED BY <2>1, <2>2 DEF Untouched
<1> QED BY <1>2, <1>3 DEF Untouched

\* Who leaves all but p alone, and does not find p allocated nor leaves it so,
\* leaves all alone.
LEMMA UntouchedAll ==
  ASSUME NEW m, NEW r, NEW p, Untouched(m, r, {p}),
         p \notin AllocBlocks(m), p \notin AllocBlocks(r)
  PROVE  Untouched(m, r, {})
<1>1. AllocBlocks(r) = AllocBlocks(m)
  BY DEF Untouched
<1> QED BY <1>1 DEF Untouched

\* Who writes to the index and to the payload of a free block leaves all
\* allocated blocks alone (add_to_list, remove_from_list).
LEMMA IndexUntouched ==
  ASSUME NEW m, NEW r, NEW H, Good(m, H), SameTags(m, r), NEW p \in FreeBlocks(m),
         DataOutside(m, r, p, NextBlk(m, p))
  PROVE  Untouched(m, r, {})
<1>1. AllocBlocks(r) = AllocBlocks(m) /\ \A q : Size(r, q) = Size(m, q)
  BY SameTagsSameBlocks
<1>2. ASSUME NEW b \in AllocBlocks(m), NEW x \in Unit, b < x, x < NextBlk(m, b)
      PROVE  r.data[x] = m.data[x]
  <2>1. b \in Starts(m) /\ p \in Starts(m) /\ b # p
    BY DEF AllocBlocks, FreeBlocks
  <2>2. b \in Unit /\ p \in Unit /\ NextBlk(m, b) \in Unit /\ NextBlk(m, p) \in Unit
    BY <2>1, Types DEF Good, Tiled, TiledForward
  <2>3. NextBlk(m, b) <= p \/ NextBlk(m, p) <= b
    BY <2>1, <2>2, InsideIsNoStart DEF Good, Tiled, Bounds, Unit
  <2> QED BY <1>2, <2>2, <2>3 DEF DataOutside, Unit
<1> QED BY <1>1, <1>2 DEF Untouched

\* The index stays exact while the free blocks out of hand and their sizes stay.
LEMMA IndexStays ==
  ASSUME NEW m, NEW r, NEW H, NEW G, Indexed(m, H), r.seg = m.seg, r.tree = m.tree,
         FreeBlocks(r) \ G = FreeBlocks(m) \ H,
         \A q \in FreeBlocks(m) \ H : Size(r, q) = Size(m, q)
  PROVE  Indexed(r, G)
<1>1. ListsSound(r, G)
  BY DEF Indexed, ListsSound
<1>2. TreeSound(r, G)
  BY DEF Indexed, TreeSound
<1>3. NoneLost(r, G)
  BY DEF Indexed, NoneLost
<1> QED BY <1>1, <1>2, <1>3 DEF Indexed

\* Blocks p up to e rewritten as one: which blocks there are then.
LEMMA Rewritten ==
  ASSUME NEW m \in HeapRecord, NEW r \in HeapRecord, Tiled(m),
         NEW p \in Bounds(m), p > 1, NEW e \in Unit, e - p >= MinBlockSize,
         NEW t \in Tag, t.size = e - p, Retagged(m, r, p, e, t),
         SameEnd(m, r, e) \/ NewEnd(m, r, e),
         \A q \in Unit : q < p \/ q > e => r.data[q] = m.data[q],
         \A q \in AllocBlocks(m) : q <= p \/ q >= e
  PROVE  /\ Tiled(r) /\ Untouched(m, r, {p}) /\ p \in Starts(r) /\ r.hdr[p] = t
         /\ \A q : q \in FreeBlocks(r) \ {p} <=> q \in FreeBlocks(m) /\ (q < p \/ q >= e)
         /\ \A q \in FreeBlocks(m) : q < p \/ q >= e => Size(r, q) = Size(m, q)
<1>1. Tiled(r) /\ \A q : q \in Starts(r) <=> q = p \/ (q \in Starts(m) /\ (q < p \/ q >= e))
  BY Retile
<1>2. p \in Unit /\ p < e
  BY Types DEF Unit, MinBlockSize
<1>3. ASSUME NEW q \in Starts(m), q < p \/ q >= e
      PROVE  q \in Unit /\ r.hdr[q] = m.hdr[q] /\ q # p
  <2>1. q \in Unit /\ q < m.brk /\ m.brk \in Unit
    BY Types
  <2>2. q >= e => SameEnd(m, r, e)
    BY <2>1 DEF NewEnd, Unit
  <2> QED BY <1>2, <1>3, <2>1, <2>2 DEF Retagged, SameEnd, Unit
<1>4. \A q : q \in FreeBlocks(r) \ {p} <=> q \in FreeBlocks(m) /\ (q < p \/ q >= e)
  BY <1>1, <1>3 DEF FreeBlocks
<1>5. AllocBlocks(r) \ {p} = AllocBlocks(m) \ {p}
  <2>1. \A q \in AllocBlocks(m) \ {p} : q < p \/ q >= e
    BY <1>2, Types DEF AllocBlocks, Unit
  <2> QED BY <1>1, <1>3, <2>1 DEF AllocBlocks
<1>6. ASSUME NEW b \in AllocBlocks(m) \ {p}
      PROVE  /\ Size(r, b) = Size(m, b)
             /\ \A x \in Unit : b < x /\ x < NextBlk(m, b) => r.data[x] = m.data[x]
  <2>1. b \in Starts(m) /\ b \in Unit /\ (b < p \/ b >= e)
    BY <1>2, Types DEF AllocBlocks, Unit
  <2>2. b < p => NextBlk(m, b) <= p
    BY <2>1, InsideIsNoStart DEF Tiled
  <2>3. NextBlk(m, b) \in Unit
    BY <2>1, Types DEF Tiled, TiledForward
  <2>4. \A x \in Unit : b < x /\ x < NextBlk(m, b) => x < p \/ x > e
    BY <1>2, <2>1, <2>2, <2>3 DEF Unit
  <2> QED BY <1>3, <2>1, <2>4 DEF Size
<1> QED
  BY <1>1, <1>3, <1>4, <1>5, <1>6 DEF Untouched, FreeBlocks, Size, Retagged

\* The blocks in hand lie from p up to e, and no other block but p does.
Alone(m, H, p, e) ==
  /\ \A q \in AllocBlocks(m) : q <= p \/ q >= e
  /\ \A q \in FreeBlocks(m) \ H : q < p \/ q >= e
  /\ \A q \in H : p <= q /\ q < e

\* r is m with block p made n units long, allocated with its payload as it was
\* up to old, or free and in hand.
Became(m, r, p, n, alloc, old) ==
  /\ Untouched(m, r, {p})
  /\ alloc => Good(r, {})
  /\ ~alloc => Good(r, {p})
  /\ p \in Starts(r) /\ r.hdr[p] = [size |-> n, alloc |-> alloc]
  /\ alloc => \A x \in Unit : p < x /\ x < old => r.data[x] = m.data[x]

\* A run of blocks from p to e, its free ones in hand, made one block.
LEMMA PutTagsGood ==
  ASSUME NEW m, NEW H, Good(m, H), NEW p \in Starts(m), p > 1, NEW e \in Bounds(m),
         e - p >= MinBlockSize, NEW alloc \in BOOLEAN, Alone(m, H, p, e)
  PROVE  LET r == PutTags(m, p, e - p, alloc) IN
         Became(m, r, p, e - p, alloc, e) /\ r.brk = m.brk
<1> DEFINE t == [size |-> e - p, alloc |-> alloc]
           r == PutTags(m, p, e - p, alloc)
<1>1. /\ m \in HeapRecord /\ Tiled(m) /\ Indexed(m, H) /\ H \subseteq FreeBlocks(m)
      /\ p \in Unit /\ e \in Unit /\ p < e /\ p \in Bounds(m) /\ m.brk \in Unit /\ e <= m.brk
      /\ e - p \in Nat /\ p + (e - p) = e
  BY Types DEF Good, Unit, MinBlockSize, Bounds
<1>2. /\ r \in HeapRecord /\ r.brk = m.brk /\ r.seg = m.seg /\ r.tree = m.tree
      /\ \A q \in Unit :
              /\ r.hdr[q] = IF q = p THEN t
                            ELSE IF q > p /\ q < e THEN NoTag ELSE m.hdr[q]
              /\ r.ftr[q] = IF q = e THEN t
                            ELSE IF q > p /\ q < e THEN NoTag ELSE m.ftr[q]
              /\ q # p /\ q # e /\ (alloc \/ q < p \/ q > e) => r.data[q] = m.data[q]
  BY <1>1, PutTagsFields
<1>3. t \in Tag /\ t.size = e - p /\ t.alloc = alloc
  BY <1>1 DEF Tag
<1> HIDE DEF r, t
<1>4. Retagged(m, r, p, e, t) /\ SameEnd(m, r, e)
  BY <1>1, <1>2 DEF Retagged, SameEnd, Unit
<1>5. /\ \A q \in Unit : q < p \/ q > e => r.data[q] = m.data[q]
      /\ alloc => \A x \in Unit : p < x /\ x < e => r.data[x] = m.data[x]
  BY <1>1, <1>2 DEF Unit
<1>6. /\ Tiled(r) /\ Untouched(m, r, {p}) /\ p \in Starts(r) /\ r.hdr[p] = t
      /\ \A q : q \in FreeBlocks(r) \ {p} <=> q \in FreeBlocks(m) /\ (q < p \/ q >= e)
      /\ \A q \in FreeBlocks(m) : q < p \/ q >= e => Size(r, q) = Size(m, q)
  <2>1. r \in HeapRecord
    BY <1>2
  <2>2. t \in Tag /\ t.size = e - p
    BY <1>3
  <2>3. \A q \in Unit : q < p \/ q > e => r.data[q] = m.data[q]
    BY <1>5
  <2>4. m \in HeapRecord /\ Tiled(m) /\ p \in Bounds(m) /\ e \in Unit
    BY <1>1
  <2>5. \A q \in AllocBlocks(m) : q <= p \/ q >= e
    BY DEF Alone
  <2> QED BY <2>1, <2>2, <2>3, <2>4, <2>5, <1>4, Rewritten
<1>7. FreeBlocks(r) \ {p} = FreeBlocks(m) \ H
  <2>1. \A q \in H : ~(q < p \/ q >= e)
    BY <1>1, Types DEF FreeBlocks, Unit, Alone
  <2> QED BY <2>1, <1>1, <1>6 DEF Alone
<1>8. Indexed(r, {p})
  BY <1>1, <1>2, <1>6, <1>7, IndexStays
<1>9. p \in FreeBlocks(r) <=> ~alloc
  BY <1>3, <1>6 DEF FreeBlocks
<1>10. (alloc => Good(r, {})) /\ (~alloc => Good(r, {p}))
  <2>1. CASE alloc
    <3>1. FreeBlocks(r) \ {} = FreeBlocks(m) \ H
      BY <2>1, <1>6, <1>7, <1>9
    <3>2. Indexed(r, {})
      BY <3>1, <1>1, <1>2, <1>6, <1>7, IndexStays
    <3> QED BY <2>1, <3>2, <1>2, <1>6 DEF Good
  <2>2. CASE ~alloc
    BY <2>2, <1>2, <1>6, <1>8, <1>9 DEF Good
  <2> QED BY <2>1, <2>2
<1> QED
  BY <1>2, <1>5, <1>6, <1>10 DEF r, t, Became

\* mm_free's first step: the block is free, in hand, and nothing else changed.
LEMMA FreedGood ==
  ASSUME NEW m, Good(m, {}), NEW p \in AllocBlocks(m)
  PROVE  LET r == Freed(m, p) IN
         /\ Good(r, {p}) /\ Untouched(m, r, {p})
         /\ p \notin AllocBlocks(r) /\ Size(r, p) = Size(m, p)
<1> DEFINE e == NextBlk(m, p)
           r == Freed(m, p)
<1>1. /\ m \in HeapRecord /\ Tiled(m) /\ p \in Starts(m) /\ p \in Unit
      /\ Size(m, p) \in Nat /\ e \in Bounds(m) /\ e \in Unit /\ p # 1
      /\ Size(m, p) >= MinBlockSize /\ e = p + Size(m, p)
  <2>1. m \in HeapRecord /\ Tiled(m) /\ p \in Starts(m) /\ p # 1
    BY DEF Good, AllocBlocks
  <2>2. p \in Unit /\ p > 1
    BY <2>1, Types DEF Unit
  <2> QED BY <2>1, <2>2, Types DEF Tiled, TiledForward, Size, NextBlk
<1>2. p > 1 /\ e - p = Size(m, p) /\ e - p >= MinBlockSize
  BY <1>1 DEF Unit
<1>3. \A q \in Starts(m) : q # p => q < p \/ q >= e
  <2> TAKE q \in Starts(m)
  <2>1. q \in Unit /\ q \in Bounds(m)
    BY Types, <1>1 DEF Bounds
  <2> QED BY <2>1, <1>1, InsideIsNoStart DEF Tiled, Unit
<1>4. /\ \A q \in AllocBlocks(m) : q <= p \/ q >= e
      /\ \A q \in FreeBlocks(m) \ {} : q < p \/ q >= e
  <2>1. p \notin FreeBlocks(m)
    BY DEF AllocBlocks, FreeBlocks
  <2> QED BY <2>1, <1>1, <1>3, Types DEF AllocBlocks, FreeBlocks, Unit
<1>5. r = PutTags(m, p, e - p, FALSE)
  BY <1>2 DEF Freed
<1> HIDE DEF e, r
<1>6. /\ Good(r, {p}) /\ Untouched(m, r, {p})
      /\ r.hdr[p] = [size |-> e - p, alloc |-> FALSE]
  <2> DEFINE no == FALSE
             none == {}
  <2>1. /\ no \in BOOLEAN /\ ~no
        /\ Good(m, none) /\ r = PutTags(m, p, e - p, no)
    BY <1>5
  <2>2. /\ p \in Starts(m) /\ p > 1 /\ e \in Bounds(m) /\ e - p >= MinBlockSize
        /\ Alone(m, none, p, e)
    BY <1>1, <1>2, <1>4 DEF Alone
  <2> HIDE DEF no, none
  <2>3. Became(m, r, p, e - p, no, e)
    BY <2>1, <2>2, PutTagsGood
  <2>4. /\ Good(r, {p}) /\ Untouched(m, r, {p}) /\ r.hdr[p] = [size |-> e - p, alloc |-> no]
    BY <2>1, <2>3 DEF Became
  <2> QED BY <2>4 DEF no
<1>7. r.hdr[p].size = e - p /\ ~r.hdr[p].alloc
  BY <1>6
<1>8. p \notin AllocBlocks(r) /\ Size(r, p) = Size(m, p)
  BY <1>2, <1>7 DEF AllocBlocks, Size
<1> QED
  BY <1>6, <1>8 DEF r

\* A block and the end of it, on a heap in order.
LEMMA BlockEnds ==
  ASSUME NEW m \in HeapRecord, Tiled(m), NEW p \in Starts(m), p # 1
  PROVE  /\ p \in Unit /\ p > 1 /\ Size(m, p) \in Nat /\ Size(m, p) >= MinBlockSize
         /\ NextBlk(m, p) \in Bounds(m) /\ NextBlk(m, p) \in Unit
         /\ NextBlk(m, p) = p + Size(m, p) /\ p < NextBlk(m, p)
         /\ \A q \in Starts(m) : q <= p \/ q >= NextBlk(m, p)
<1>1. p \in Unit /\ p > 1
  BY Types DEF Unit
<1>2. /\ Size(m, p) >= MinBlockSize /\ NextBlk(m, p) \in Bounds(m)
      /\ NextBlk(m, p) \in Unit /\ Size(m, p) \in Nat
      /\ NextBlk(m, p) = p + Size(m, p)
  BY <1>1, Types DEF Tiled, TiledForward, Size, NextBlk
<1>3. \A q \in Starts(m) : q <= p \/ q >= NextBlk(m, p)
  <2> TAKE q \in Starts(m)
  <2>1. q \in Unit /\ q \in Bounds(m)
    BY Types DEF Bounds
  <2> QED BY <2>1, <1>1, <1>2, InsideIsNoStart DEF Tiled, Unit
<1> QED BY <1>1, <1>2, <1>3 DEF Unit, MinBlockSize

\* The blocks coalesce merges are free and adjacent.
LEMMA Neighbours ==
  ASSUME NEW m \in HeapRecord, Tiled(m), NEW p \in Starts(m), p # 1
  PROVE  /\ MergesNext(m, p) =>
              /\ NextBlk(m, p) \in FreeBlocks(m) /\ NextBlk(m, p) # 1
         /\ MergesPrev(m, p) =>
              /\ PrevBlk(m, p) \in FreeBlocks(m) /\ PrevBlk(m, p) # 1
              /\ NextBlk(m, PrevBlk(m, p)) = p
<1>1. /\ p \in Unit /\ p > 1 /\ NextBlk(m, p) \in Bounds(m) /\ NextBlk(m, p) \in Unit
      /\ p < NextBlk(m, p)
  BY BlockEnds
<1>2. m.hdr[1].alloc /\ m.hdr[m.brk].alloc
  BY DEF Tiled, TiledEnds, Epilogue
<1>3. ASSUME MergesNext(m, p)
      PROVE  NextBlk(m, p) \in FreeBlocks(m) /\ NextBlk(m, p) # 1
  <2>1. ~m.hdr[NextBlk(m, p)].alloc
    BY <1>3 DEF MergesNext
  <2> QED BY <1>1, <1>2, <2>1 DEF Bounds, FreeBlocks
<1>4. ASSUME MergesPrev(m, p)
      PROVE  /\ PrevBlk(m, p) \in FreeBlocks(m) /\ PrevBlk(m, p) # 1
             /\ NextBlk(m, PrevBlk(m, p)) = p
  <2> DEFINE v == PrevBlk(m, p)
  <2>1. v \in Starts(m) /\ m.hdr[v] = m.ftr[p] /\ v \in Unit /\ m.ftr[p].size \in Nat
    <3>1. p \in Bounds(m) \ {1}
      BY DEF Bounds
    <3> QED BY <3>1, <1>1, Types DEF Tiled, TiledBack
  <2>2. v = p - m.ftr[p].size
    BY DEF PrevBlk
  <2> HIDE DEF v
  <2>3. NextBlk(m, v) = p
    BY <2>1, <2>2, <1>1 DEF NextBlk, Unit
  <2>4. ~m.ftr[NextBlk(m, v)].alloc
    BY <1>4 DEF MergesPrev, v
  <2> QED BY <2>1, <2>3, <2>4, <1>2 DEF FreeBlocks, v
<1> QED BY <1>3, <1>4

\* Free blocks in hand, with nothing between them, made one free block in hand.
LEMMA MergeGood ==
  ASSUME NEW m, NEW H, Good(m, H), NEW b \in H, b > 1, NEW e \in Bounds(m),
         e - b >= MinBlockSize,
         \A q \in Starts(m) : q \in H <=> b <= q /\ q < e
  PROVE  LET r == PutTags(m, b, e - b, FALSE) IN
         /\ Good(r, {b}) /\ Untouched(m, r, {}) /\ Size(r, b) = e - b
<1> DEFINE no == FALSE
           r == PutTags(m, b, e - b, no)
<1>1. no \in BOOLEAN /\ ~no
  OBVIOUS
<1>2. /\ b \in Starts(m) /\ b \in Unit /\ e \in Unit /\ H \subseteq FreeBlocks(m)
      /\ m \in HeapRecord
  BY Types DEF Good, FreeBlocks
<1>3. \A q \in Starts(m) : q \in Unit /\ (q \in H \/ q < b \/ q >= e)
  BY <1>2, Types DEF Unit
<1>4. /\ \A q \in AllocBlocks(m) : q <= b \/ q >= e
      /\ \A q \in FreeBlocks(m) \ H : q < b \/ q >= e
      /\ \A q \in H : b <= q /\ q < e
      /\ b \notin AllocBlocks(m)
  <2>1. \A q \in AllocBlocks(m) : q \in Starts(m) /\ q \notin H
    BY <1>2 DEF AllocBlocks, FreeBlocks
  <2>2. \A q \in FreeBlocks(m) : q \in Starts(m)
    BY DEF FreeBlocks
  <2>3. b \in H /\ b \in FreeBlocks(m)
    BY <1>2
  <2>4. \A q \in H : q \in Starts(m)
    BY <2>2, <1>2
  <2>5. \A q \in AllocBlocks(m) : q <= b \/ q >= e
    <3> TAKE q \in AllocBlocks(m)
    <3>1. q \in Unit /\ (q < b \/ q >= e)
      BY <1>3, <2>1
    <3> QED BY <1>2, <3>1 DEF Unit
  <2>6. \A q \in FreeBlocks(m) \ H : q < b \/ q >= e
    BY <1>3, <2>2
  <2> QED BY <2>1, <2>3, <2>4, <2>5, <2>6
<1> HIDE DEF no, r
<1>5. /\ Good(r, {b}) /\ Untouched(m, r, {b}) /\ r.hdr[b] = [size |-> e - b, alloc |-> no]
  <2>1. Alone(m, H, b, e)
    BY <1>4 DEF Alone
  <2>2. Became(m, r, b, e - b, no, e)
    BY <1>1, <1>2, <2>1, PutTagsGood DEF r
  <2> QED BY <1>1, <2>2 DEF Became
<1>6. b \notin AllocBlocks(r) /\ Size(r, b) = e - b
  BY <1>1, <1>5 DEF AllocBlocks, Size
<1>7. Untouched(m, r, {})
  BY <1>4, <1>5, <1>6, UntouchedAll
<1> QED BY <1>5, <1>6, <1>7 DEF r, no

\* coalesce takes its free neighbours off the index: one free block is left in
\* hand, no smaller than the one it was given, and no allocated block is touched.
LEMMA CoalesceGood ==
  ASSUME NEW m, NEW p, Good(m, {p})
  PROVE  LET r == Coalesce(m, p)
             b == CoalescedBlk(m, p)
         IN  Good(r, {b}) /\ Untouched(m, r, {}) /\ Size(r, b) >= Size(m, p)
<1> DEFINE prev == PrevBlk(m, p)
           next == NextBlk(m, p)
           b == CoalescedBlk(m, p)
           e == IF MergesNext(m, p) THEN NextBlk(m, next) ELSE next
           P == IF MergesPrev(m, p) THEN {prev} ELSE {}
           N == IF MergesNext(m, p) THEN {next} ELSE {}
           m1 == IF MergesPrev(m, p) THEN RemoveFromList(m, prev) ELSE m
           m2 == IF MergesNext(m, p) THEN RemoveFromList(m1, next) ELSE m1
           n == Size(m, p) + (IF MergesPrev(m, p) THEN Size(m, prev) ELSE 0)
                           + (IF MergesNext(m, p) THEN Size(m, next) ELSE 0)
<1>1. /\ m \in HeapRecord /\ Tiled(m) /\ p \in FreeBlocks(m) /\ p \in Starts(m) /\ p # 1
  <2>1. m.hdr[1].alloc
    BY DEF Good, Tiled, TiledEnds
  <2> QED BY <2>1 DEF Good, FreeBlocks
<1>2. /\ p \in Unit /\ p > 1 /\ Size(m, p) \in Nat /\ Size(m, p) >= MinBlockSize
      /\ next \in Bounds(m) /\ next \in Unit /\ next = p + Size(m, p) /\ p < next
      /\ \A q \in Starts(m) : q <= p \/ q >= next
  BY <1>1, BlockEnds
<1>3. ASSUME MergesPrev(m, p)
      PROVE  /\ prev \in FreeBlocks(m) /\ prev \in Unit /\ prev > 1 /\ Size(m, prev) \in Nat
             /\ p = prev + Size(m, prev) /\ prev < p
             /\ \A q \in Starts(m) : q <= prev \/ q >= p
  <2>1. prev \in FreeBlocks(m) /\ prev # 1 /\ NextBlk(m, prev) = p
    BY <1>1, <1>3, Neighbours
  <2>2. prev \in Starts(m)
    BY <2>1 DEF FreeBlocks
  <2> QED BY <1>1, <2>1, <2>2, BlockEnds
<1>4. ASSUME MergesNext(m, p)
      PROVE  /\ next \in FreeBlocks(m) /\ Size(m, next) \in Nat
             /\ NextBlk(m, next) \in Bounds(m) /\ NextBlk(m, next) \in Unit
             /\ NextBlk(m, next) = next + Size(m, next) /\ next < NextBlk(m, next)
             /\ \A q \in Starts(m) : q <= next \/ q >= NextBlk(m, next)
  <2>1. next \in FreeBlocks(m) /\ next # 1
    BY <1>1, <1>4, Neighbours
  <2>2. next \in Starts(m)
    BY <2>1 DEF FreeBlocks
  <2> QED BY <1>1, <2>1, <2>2, BlockEnds
<1>5. Good(m1, {p} \union P) /\ SameTags(m, m1) /\ m1.data = m.data
  <2>1. CASE MergesPrev(m, p)
    <3>1. prev \in FreeBlocks(m) \ {p}
      BY <1>2, <1>3, <2>1 DEF Unit
    <3> QED BY <3>1, <2>1, RemoveFromListGood
  <2>2. CASE ~MergesPrev(m, p)
    BY <2>2, <1>1 DEF SameTags
  <2> QED BY <2>1, <2>2
<1> HIDE DEF m1
<1>6. Good(m2, {p} \union P \union N) /\ SameTags(m, m2) /\ m2.data = m.data
  <2>1. CASE MergesNext(m, p)
    <3>1. next \in FreeBlocks(m1) \ ({p} \union P)
      <4>1. next \in FreeBlocks(m1)
        BY <1>4, <1>5, <2>1, SameTagsSameBlocks
      <4>2. next # p /\ next \notin P
        BY <1>2, <1>3 DEF Unit
      <4> QED BY <4>1, <4>2
    <3>2. /\ Good(m2, {p} \union P \union {next}) /\ SameTags(m1, m2) /\ m2.data = m1.data
      BY <3>1, <1>5, <2>1, RemoveFromListGood
    <3> QED BY <3>2, <1>5, <2>1 DEF SameTags
  <2>2. CASE ~MergesNext(m, p)
    BY <2>2, <1>5
  <2> QED BY <2>1, <2>2
<1> HIDE DEF m2
<1>7. /\ b = (IF MergesPrev(m, p) THEN prev ELSE p) /\ b \in Unit /\ b > 1 /\ b <= p
      /\ b \in {p} \union P /\ e \in Bounds(m) /\ e \in Unit /\ next <= e /\ n = e - b
  <2>1. b = IF MergesPrev(m, p) THEN prev ELSE p
    BY DEF CoalescedBlk
  <2>2. b \in Unit /\ b > 1 /\ b <= p
    BY <2>1, <1>2, <1>3 DEF Unit
  <2>3. e \in Bounds(m) /\ e \in Unit /\ next <= e
    BY <1>2, <1>4 DEF Unit
  <2>4. n = e - b
    BY <2>1, <1>2, <1>3, <1>4 DEF Unit
  <2> QED BY <2>1, <2>2, <2>3, <2>4
<1>8. \A q \in Starts(m) : q \in {p} \union P \union N <=> b <= q /\ q < e
  <2> TAKE q \in Starts(m)
  <2>0. q \in Unit
    BY <1>1, Types
  <2>1. MergesPrev(m, p) => (b <= q /\ q < p <=> q = prev)
    BY <2>0, <1>3, <1>7 DEF Unit
  <2>2. ~MergesPrev(m, p) => ~(b <= q /\ q < p)
    BY <2>0, <1>2, <1>7 DEF Unit
  <2>3. MergesNext(m, p) => (next <= q /\ q < e <=> q = next)
    BY <2>0, <1>2, <1>4 DEF Unit
  <2>4. ~MergesNext(m, p) => ~(next <= q /\ q < e)
    BY <2>0, <1>2 DEF Unit
  <2>5. p <= q /\ q < next <=> q = p
    BY <2>0, <1>2 DEF Unit
  <2> HIDE DEF b, e, next, prev
  <2>6. b <= q /\ q < e <=>
          (b <= q /\ q < p) \/ (p <= q /\ q < next) \/ (next <= q /\ q < e)
    BY <2>0, <1>2, <1>7 DEF Unit
  <2> QED BY <2>1, <2>2, <2>3, <2>4, <2>5, <2>6
<1>9. Untouched(m, m2, {})
  BY <1>6, SameTagsSameBlocks DEF Untouched
<1> DEFINE r == PutTags(m2, b, e - b, FALSE)
<1>10. Good(r, {b}) /\ Untouched(m2, r, {}) /\ Size(r, b) = e - b
  <2> DEFINE H == {p} \union P \union N
  <2>1. Good(m2, H) /\ b \in H /\ b > 1 /\ e \in Bounds(m2)
    BY <1>6, <1>7, SameTagsSameBlocks
  <2>2. \A q \in Starts(m2) : q \in H <=> b <= q /\ q < e
    BY <1>6, <1>8, SameTagsSameBlocks
  <2>3. e - b >= MinBlockSize
    BY <1>2, <1>7 DEF Unit, MinBlockSize
  <2> HIDE DEF H, b, e
  <2> QED BY <2>1, <2>2, <2>3, MergeGood
<1>11. Untouched(m, r, {})
  <2> HIDE DEF r
  <2>1. Untouched(m, r, {} \union {})
    BY <1>9, <1>10, UntouchedTrans
  <2> QED BY <2>1
<1>12. CASE MergesPrev(m, p) \/ MergesNext(m, p)
  <2>1. Coalesce(m, p) = PutTags(m2, b, n, FALSE)
    BY <1>12 DEF Coalesce, m1, m2
  <2>2. e - b >= Size(m, p)
    BY <1>2, <1>7 DEF Unit
  <2> QED BY <2>1, <2>2, <1>7, <1>10, <1>11
<1>13. CASE ~(MergesPrev(m, p) \/ MergesNext(m, p))
  <2>1. Coalesce(m, p) = m /\ b = p
    BY <1>13 DEF Coalesce, CoalescedBlk
  <2> QED BY <2>1, <1>2 DEF Untouched
<1> QED BY <1>12, <1>13

\* Moving the break writes an epilogue header and nothing else.
LEMMA MoveBrkFields ==
  ASSUME NEW m \in HeapRecord, NEW k \in Nat, m.brk + k \in Unit
  PROVE  LET s == MoveBrk(m, k) IN
         /\ s \in HeapRecord /\ s.brk = m.brk + k /\ s.hdr[m.brk + k] = Epilogue
         /\ \A q \in Unit : q # m.brk + k => s.hdr[q] = m.hdr[q]
         /\ s.ftr = m.ftr /\ s.data = m.data /\ s.seg = m.seg /\ s.tree = m.tree
<1> DEFINE s == MoveBrk(m, k)
           e == m.brk + k
           h == [m.hdr EXCEPT ![e] = Epilogue]
<1>1. Epilogue \in Tag
  BY DEF Tag, Epilogue
<1>2. s = [m EXCEPT !.brk = e, !.hdr = h]
  BY DEF MoveBrk
<1>3. h \in [Unit -> Tag] /\ h[e] = Epilogue /\ \A q \in Unit : q # e => h[q] = m.hdr[q]
  BY <1>1 DEF HeapRecord
<1> HIDE DEF h, e, s
<1>4. s = [hdr |-> h, ftr |-> m.ftr, data |-> m.data, brk |-> e,
           seg |-> m.seg, tree |-> m.tree, only_for_16 |-> m.only_for_16]
  BY <1>2 DEF HeapRecord
<1>5. /\ s \in HeapRecord /\ s.brk = e /\ s.hdr = h
      /\ s.ftr = m.ftr /\ s.data = m.data /\ s.seg = m.seg /\ s.tree = m.tree
  BY <1>3, <1>4 DEF HeapRecord, e
<1> QED BY <1>3, <1>5 DEF s, e

\* The heap grown by k units, and the last block, or what was the epilogue,
\* made a block that reaches up to the new one (extend_heap, mm_realloc).
LEMMA GrownGood ==
  ASSUME NEW m, Good(m, {}), NEW k \in Nat, NEW p \in Unit, NEW alloc \in BOOLEAN,
         k > 0, CanSbrk(m, k), (m.brk + k) - p >= MinBlockSize,
         \/ p = m.brk
         \/ p \in AllocBlocks(m) /\ NextBlk(m, p) = m.brk
  PROVE  LET n == (m.brk + k) - p
         IN  Became(m, PutTags(MoveBrk(m, k), p, n, alloc), p, n, alloc, m.brk)
<1> DEFINE e == m.brk + k
           n == e - p
           s == MoveBrk(m, k)
           r == PutTags(s, p, n, alloc)
           t == [size |-> n, alloc |-> alloc]
<1>0. /\ r = PutTags(MoveBrk(m, k), p, (m.brk + k) - p, alloc)
      /\ t = [size |-> (m.brk + k) - p, alloc |-> alloc]
  OBVIOUS
<1>1. /\ m \in HeapRecord /\ Tiled(m) /\ Indexed(m, {}) /\ m.brk \in Unit
      /\ m.brk >= FirstBlock
  BY Types DEF Good, Tiled, TiledEnds
<1>2. e \in Unit /\ e > m.brk
  <2>1. MaxHeap \in Int
    BY HeapAssumption
  <2> QED BY <1>1, <2>1 DEF Unit, CanSbrk
<1>3. p \in Bounds(m) /\ p > 1 /\ p <= m.brk /\ p # e
  <2>1. CASE p = m.brk
    BY <2>1, <1>1, <1>2 DEF Bounds, FirstBlock, Unit
  <2>2. CASE p \in AllocBlocks(m) /\ NextBlk(m, p) = m.brk
    <3>1. p \in Starts(m) /\ p # 1
      BY <2>2 DEF AllocBlocks
    <3> QED BY <3>1, <1>1, <1>2, Types DEF Bounds, Unit
  <2> QED BY <2>1, <2>2
<1>4. n \in Nat /\ p + n = e /\ n >= MinBlockSize /\ p < e
  BY <1>1, <1>2, <1>3 DEF Unit, MinBlockSize
<1>5. \A q \in Starts(m) : q <= p /\ q \in Unit
  <2> TAKE q \in Starts(m)
  <2>1. q \in Unit /\ q < m.brk
    BY <1>1, Types
  <2>2. CASE p = m.brk
    BY <2>1, <2>2, <1>1 DEF Unit
  <2>3. CASE p \in AllocBlocks(m) /\ NextBlk(m, p) = m.brk
    <3>1. p \in Starts(m) /\ p # 1
      BY <2>3 DEF AllocBlocks
    <3>2. q <= p \/ q >= m.brk
      BY <3>1, <2>3, <1>1, BlockEnds
    <3> QED BY <2>1, <3>2, <1>1 DEF Unit
  <2> QED BY <2>2, <2>3
<1>6. /\ s \in HeapRecord /\ s.brk = e /\ s.hdr[e] = Epilogue
      /\ \A q \in Unit : q # e => s.hdr[q] = m.hdr[q]
      /\ s.ftr = m.ftr /\ s.data = m.data /\ s.seg = m.seg /\ s.tree = m.tree
  BY <1>1, <1>2, MoveBrkFields
<1> HIDE DEF s
<1>7. /\ r \in HeapRecord /\ r.brk = s.brk /\ r.seg = s.seg /\ r.tree = s.tree
      /\ \A q \in Unit :
              /\ r.hdr[q] = IF q = p THEN t
                            ELSE IF q > p /\ q < p + n THEN NoTag ELSE s.hdr[q]
              /\ r.ftr[q] = IF q = p + n THEN t
                            ELSE IF q > p /\ q < p + n THEN NoTag ELSE s.ftr[q]
              /\ q # p /\ q # p + n /\ (alloc \/ q < p \/ q > p + n) => r.data[q] = s.data[q]
  <2> HIDE DEF n, e
  <2>1. p + n \in Unit /\ n \in Nat
    BY <1>2, <1>4
  <2> QED BY <1>6, <2>1, PutTagsFields
<1>8. t \in Tag /\ t.size = e - p /\ t.alloc = alloc
  BY <1>4 DEF Tag
<1> HIDE DEF n, e, r, t
<1>9. Retagged(m, r, p, e, t) /\ NewEnd(m, r, e)
  <2>1. r.hdr[p] = t /\ r.ftr[e] = t
    BY <1>2, <1>4, <1>7
  <2>2. \A q \in Unit : p < q /\ q < e => r.hdr[q] = NoTag
    BY <1>4, <1>7 DEF Unit
  <2>3. \A q \in Unit : q < p \/ q > e => r.hdr[q] = m.hdr[q]
    BY <1>2, <1>4, <1>6, <1>7 DEF Unit
  <2>4. \A q \in Unit : q <= p \/ q > e => r.ftr[q] = m.ftr[q]
    BY <1>2, <1>4, <1>6, <1>7 DEF Unit
  <2>5. r.hdr[e] = Epilogue /\ r.brk = e
    BY <1>2, <1>3, <1>4, <1>6, <1>7 DEF Unit
  <2> QED BY <2>1, <2>2, <2>3, <2>4, <2>5, <1>2 DEF Retagged, NewEnd
<1>10. /\ \A q \in Unit : q < p \/ q > e => r.data[q] = m.data[q]
       /\ alloc => \A x \in Unit : p < x /\ x < m.brk => r.data[x] = m.data[x]
  BY <1>1, <1>2, <1>4, <1>6, <1>7 DEF Unit
<1>11. \A q \in AllocBlocks(m) : q <= p \/ q >= e
  BY <1>5 DEF AllocBlocks
<1>12. /\ Tiled(r) /\ Untouched(m, r, {p}) /\ p \in Starts(r) /\ r.hdr[p] = t
       /\ \A q : q \in FreeBlocks(r) \ {p} <=> q \in FreeBlocks(m) /\ (q < p \/ q >= e)
       /\ \A q \in FreeBlocks(m) : q < p \/ q >= e => Size(r, q) = Size(m, q)
  <2>1. r \in HeapRecord /\ e - p >= MinBlockSize
    BY <1>4, <1>7 DEF n
  <2>2. \A q \in Unit : q < p \/ q > e => r.data[q] = m.data[q]
    BY <1>10
  <2>3. t \in Tag /\ t.size = e - p
    BY <1>8
  <2>4. p \in Bounds(m) /\ p > 1 /\ e \in Unit
    BY <1>2, <1>3
  <2> QED BY <1>1, <1>9, <1>11, <2>1, <2>2, <2>3, <2>4, Rewritten
<1>13. p \notin FreeBlocks(m)
  <2>1. CASE p = m.brk
    BY <2>1, <1>1, Types DEF FreeBlocks, Unit
  <2>2. CASE p \in AllocBlocks(m)
    BY <2>2 DEF AllocBlocks, FreeBlocks
  <2> QED BY <2>1, <2>2
<1>14. FreeBlocks(r) \ {p} = FreeBlocks(m) \ {}
  <2>1. \A q \in FreeBlocks(m) : q < p
    <3> TAKE q \in FreeBlocks(m)
    <3>1. q \in Starts(m) /\ q # p
      BY <1>13 DEF FreeBlocks
    <3> QED BY <3>1, <1>5 DEF Unit
  <2> QED BY <2>1, <1>12
<1>15. \A q \in FreeBlocks(m) \ {} : Size(r, q) = Size(m, q)
  <2>1. \A q \in FreeBlocks(m) : q \in FreeBlocks(r) \ {p}
    BY <1>14
  <2> QED BY <2>1, <1>12
<1>16. r.seg = m.seg /\ r.tree = m.tree /\ r \in HeapRecord
  BY <1>6, <1>7
<1>17. p \in FreeBlocks(r) <=> ~alloc
  BY <1>8, <1>12 DEF FreeBlocks
<1>18. alloc => Good(r, {})
  <2>1. SUFFICES ASSUME alloc PROVE Indexed(r, {})
    BY <1>12, <1>16 DEF Good
  <2>2. FreeBlocks(r) \ {} = FreeBlocks(m) \ {}
    BY <1>14, <1>17, <2>1
  <2> QED BY <2>2, <1>1, <1>15, <1>16, IndexStays
<1>19. ~alloc => Good(r, {p})
  <2>1. Indexed(r, {p})
    BY <1>1, <1>14, <1>15, <1>16, IndexStays
  <2> QED BY <1>12, <1>16, <1>17, <2>1 DEF Good
<1>20. /\ Untouched(m, r, {p}) /\ p \in Starts(r) /\ r.hdr[p] = t
       /\ alloc => \A x \in Unit : p < x /\ x < m.brk => r.data[x] = m.data[x]
  BY <1>10, <1>12
<1> QED BY <1>0, <1>18, <1>19, <1>20 DEF Became

\* extend_heap leaves the new block in hand and touches no allocated block.
LEMMA ExtendedGood ==
  ASSUME NEW m, Good(m, {}), NEW n \in Nat, n >= MinBlockSize, CanSbrk(m, n)
  PROVE  LET r == Extended(m, n) IN
         Good(r, {m.brk}) /\ Untouched(m, r, {}) /\ Size(r, m.brk) = n
<1> DEFINE p == m.brk
           no == FALSE
           r == PutTags(MoveBrk(m, n), p, (m.brk + n) - p, no)
<1>1. m.brk \in Unit /\ p = m.brk /\ p \in Unit /\ no \in BOOLEAN /\ ~no /\ m \in HeapRecord
  <2>1. m \in HeapRecord
    BY DEF Good
  <2> QED BY <2>1, Types
<1>2. (m.brk + n) - p = n /\ n > 0
  BY <1>1 DEF Unit, MinBlockSize
<1>3. r = Extended(m, n)
  BY <1>2 DEF Extended
<1> HIDE DEF p, no, r
<1>4. /\ (m.brk + n) - p >= MinBlockSize
      /\ p = m.brk \/ (p \in AllocBlocks(m) /\ NextBlk(m, p) = m.brk)
      /\ p \in Unit /\ no \in BOOLEAN /\ n > 0
  BY <1>1, <1>2
<1>5. /\ Untouched(m, r, {p}) /\ Good(r, {p})
      /\ r.hdr[p] = [size |-> (m.brk + n) - p, alloc |-> no]
  <2>1. Became(m, r, p, (m.brk + n) - p, no, m.brk)
    BY <1>4, GrownGood DEF r
  <2> QED BY <2>1, <1>1 DEF Became
<1>6. Size(r, p) = n /\ p \notin AllocBlocks(r)
  BY <1>1, <1>2, <1>5 DEF Size, AllocBlocks
<1>7. p \notin AllocBlocks(m)
  BY <1>1, Types DEF AllocBlocks, Unit
<1> QED BY <1>1, <1>3, <1>5, <1>6, <1>7, UntouchedAll

\* An allocated block cut in two, the second one free and in hand.
LEMMA SplitGood ==
  ASSUME NEW m, Good(m, {}), NEW p \in AllocBlocks(m), NEW r \in HeapRecord, NEW x \in Unit,
         x - p >= MinBlockSize, NextBlk(m, p) - x >= MinBlockSize,
         NEW t \in Tag, t.size = x - p, t.alloc,
         NEW u \in Tag, u.size = NextBlk(m, p) - x, ~u.alloc,
         CutAt(m, r, p, x, t, u), r.seg = m.seg, r.tree = m.tree,
         \A q \in Unit : q < p \/ q > NextBlk(m, p) => r.data[q] = m.data[q]
  PROVE  /\ Good(r, {x}) /\ Untouched(m, r, {p})
         /\ p \in AllocBlocks(r) /\ Size(r, p) = x - p /\ NextBlk(r, x) = NextBlk(m, p)
<1> DEFINE e == NextBlk(m, p)
<1>1. /\ m \in HeapRecord /\ Tiled(m) /\ Indexed(m, {}) /\ p \in Starts(m) /\ p # 1
  BY DEF Good, AllocBlocks
<1>2. /\ p \in Unit /\ p > 1 /\ e \in Bounds(m) /\ e \in Unit /\ p < e
      /\ \A q \in Starts(m) : q <= p \/ q >= e
  BY <1>1, BlockEnds
<1>3. Tiled(r) /\ \A q : q \in Starts(r) <=> q = x \/ q \in Starts(m)
  BY <1>1, <1>2, Cut
<1>4. p < x /\ x < e
  BY <1>2 DEF Unit, MinBlockSize
<1>5. x \notin Starts(m)
  BY <1>2, <1>4 DEF Unit
<1>6. /\ r.hdr[p] = t /\ r.hdr[x] = u
      /\ \A q \in Starts(m) : q # p => r.hdr[q] = m.hdr[q]
  BY <1>1, <1>5, Types DEF CutAt
<1>7. FreeBlocks(r) = FreeBlocks(m) \union {x} /\ x \notin FreeBlocks(m)
  BY <1>3, <1>5, <1>6 DEF FreeBlocks, AllocBlocks
<1>8. AllocBlocks(r) = AllocBlocks(m)
  BY <1>2, <1>3, <1>4, <1>5, <1>6 DEF AllocBlocks, Unit
<1>9. \A q \in Starts(m) : q # p => Size(r, q) = Size(m, q)
  BY <1>6 DEF Size
<1>10. Indexed(r, {x})
  <2>1. FreeBlocks(r) \ {x} = FreeBlocks(m) \ {}
    BY <1>7
  <2>2. \A q \in FreeBlocks(m) \ {} : Size(r, q) = Size(m, q)
    BY <1>9 DEF FreeBlocks, AllocBlocks
  <2> QED BY <2>1, <2>2, <1>1, IndexStays
<1>11. ASSUME NEW b \in AllocBlocks(m), b # p, NEW y \in Unit, b < y, y < NextBlk(m, b)
       PROVE  r.data[y] = m.data[y]
  <2>1. b \in Starts(m) /\ b \in Unit /\ (b < p \/ b >= e)
    BY <1>1, <1>2, <1>11, Types DEF AllocBlocks, Unit
  <2>2. b < p => NextBlk(m, b) <= p
    BY <1>1, <2>1, InsideIsNoStart DEF Tiled, Bounds
  <2>3. NextBlk(m, b) \in Unit
    BY <1>1, <2>1, Types DEF Tiled, TiledForward
  <2>4. y < p \/ y > e
    BY <1>2, <1>11, <2>1, <2>2, <2>3 DEF Unit
  <2> QED BY <2>4
<1>12. Untouched(m, r, {p})
  BY <1>8, <1>9, <1>11 DEF Untouched, AllocBlocks
<1>13. Good(r, {x})
  BY <1>3, <1>7, <1>10 DEF Good
<1>14. Size(r, p) = x - p
  BY <1>6 DEF Size
<1>15. NextBlk(r, x) = e
  BY <1>2, <1>6 DEF NextBlk, Unit
<1> QED BY <1>8, <1>12, <1>13, <1>14, <1>15

\* The first n - 1 units of block p's payload are in r what they were in m.
SamePayload(m, r, p, n) == \A x \in Unit : p < x /\ x < p + n => r.data[x] = m.data[x]

\* place, and the splits of mm_realloc: the block serves the request, a rest
\* large enough to be a block is back in the index, what the block held up to
\* its new size is still there.
LEMMA CarveGood ==
  ASSUME NEW m, NEW H, Good(m, H), NEW p \in Starts(m), p > 1,
         NEW total \in Nat, p + total \in Bounds(m),
         NEW n \in Nat, n >= MinBlockSize, n <= total,
         \A q \in AllocBlocks(m) : q <= p \/ q >= p + total,
         \A q \in FreeBlocks(m) \ H : q < p \/ q >= p + total,
         \A q \in H : p <= q /\ q < p + total
  PROVE  LET r == Carve(m, p, total, n) IN
         /\ Good(r, {}) /\ Untouched(m, r, {p})
         /\ p \in AllocBlocks(r) /\ Size(r, p) >= n
         /\ SamePayload(m, r, p, n)
<1> DEFINE e == p + total
           yes == TRUE
           no == FALSE
           k == PutTags(m, p, e - p, yes)
           r == Carve(m, p, total, n)
<1>1. /\ m \in HeapRecord /\ Tiled(m) /\ p \in Unit /\ e \in Unit /\ e \in Bounds(m)
  BY Types DEF Good
<1>2. e - p = total /\ e - p >= MinBlockSize /\ e = p + total /\ p < e
  BY <1>1 DEF Unit, MinBlockSize
<1>3. yes \in BOOLEAN /\ yes /\ no \in BOOLEAN /\ ~no
  OBVIOUS
<1>4. k = PutTags(m, p, total, yes)
  BY <1>2
<1>a. r = IF total - n >= MinBlockSize
          THEN AddToList(PutTags(PutTags(m, p, n, yes), p + n, total - n, no), p + n)
          ELSE PutTags(m, p, total, yes)
  BY DEF Carve
<1> HIDE DEF e, yes, no, k, r
<1>5. /\ Good(k, {}) /\ Untouched(m, k, {p}) /\ p \in Starts(k)
      /\ k.hdr[p] = [size |-> e - p, alloc |-> yes] /\ k.brk = m.brk
      /\ \A x \in Unit : p < x /\ x < e => k.data[x] = m.data[x]
  <2>1. Alone(m, H, p, e)
    BY <1>2 DEF Alone
  <2>2. p \in Starts(m) /\ p > 1 /\ e \in Bounds(m) /\ e - p >= MinBlockSize
    BY <1>1, <1>2
  <2>3. Became(m, k, p, e - p, yes, e) /\ k.brk = m.brk
    BY <1>3, <2>1, <2>2, PutTagsGood DEF k
  <2> QED BY <1>3, <2>3 DEF Became
<1>6. p \in AllocBlocks(k) /\ Size(k, p) = total /\ NextBlk(k, p) = e /\ p # 1
  <2>1. p # 1
    BY <1>1 DEF Unit
  <2> QED BY <1>2, <1>3, <1>5, <2>1 DEF AllocBlocks, Size, NextBlk
<1>7. CASE ~(total - n >= MinBlockSize)
  <2>1. r = k
    BY <1>4, <1>7, <1>a
  <2>2. \A x \in Unit : p < x /\ x < p + n => x < e
    BY <1>1, <1>2 DEF Unit
  <2>3. Good(r, {}) /\ Untouched(m, r, {p}) /\ p \in AllocBlocks(r) /\ Size(r, p) >= n
    BY <1>5, <1>6, <2>1
  <2>4. \A x \in Unit : p < x /\ x < p + n => r.data[x] = m.data[x]
    BY <1>5, <2>1, <2>2
  <2> QED BY <2>3, <2>4 DEF r, SamePayload
<1>8. CASE total - n >= MinBlockSize
  <2> DEFINE x == p + n
             t == [size |-> n, alloc |-> yes]
             u == [size |-> total - n, alloc |-> no]
             s1 == PutTags(m, p, n, yes)
             s2 == PutTags(s1, x, total - n, no)
  <2>0. r = AddToList(s2, x)
    BY <1>8, <1>a
  <2>1. /\ x = p + n /\ x \in Unit /\ p < x /\ x < e /\ total - n \in Nat
        /\ x + (total - n) = e /\ x - p = n /\ e - x = total - n
    <3>1. p \in Int /\ e \in Int /\ MaxHeap \in Int /\ 1 <= p /\ e <= MaxHeap
      BY <1>1, HeapAssumption DEF Unit
    <3> QED BY <3>1, <1>2, <1>8 DEF Unit, MinBlockSize
  <2>2. /\ t \in Tag /\ t.size = n /\ t.alloc
        /\ u \in Tag /\ u.size = total - n /\ ~u.alloc
    BY <1>3, <2>1 DEF Tag
  <2>3. /\ s1 \in HeapRecord /\ s1.brk = m.brk /\ s1.seg = m.seg /\ s1.tree = m.tree
        /\ \A q \in Unit :
              /\ s1.hdr[q] = IF q = p THEN t
                             ELSE IF q > p /\ q < x THEN NoTag ELSE m.hdr[q]
              /\ s1.ftr[q] = IF q = x THEN t
                             ELSE IF q > p /\ q < x THEN NoTag ELSE m.ftr[q]
              /\ q # p /\ q # x /\ (yes \/ q < p \/ q > x) => s1.data[q] = m.data[q]
    <3>1. m \in HeapRecord /\ p \in Unit /\ n \in Nat /\ p + n \in Unit /\ yes \in BOOLEAN
      BY <1>1, <1>3, <2>1
    <3> QED BY <3>1, PutTagsFields
  <2> HIDE DEF x, t, s1
  <2>4. /\ s2 \in HeapRecord /\ s2.brk = s1.brk /\ s2.seg = s1.seg /\ s2.tree = s1.tree
        /\ \A q \in Unit :
              /\ s2.hdr[q] = IF q = x THEN u
                             ELSE IF q > x /\ q < x + (total - n) THEN NoTag ELSE s1.hdr[q]
              /\ s2.ftr[q] = IF q = x + (total - n) THEN u
                             ELSE IF q > x /\ q < x + (total - n) THEN NoTag ELSE s1.ftr[q]
              /\ q # x /\ q # x + (total - n) /\ (no \/ q < x \/ q > x + (total - n))
                   => s2.data[q] = s1.data[q]
    <3>1. /\ s1 \in HeapRecord /\ x \in Unit /\ total - n \in Nat
          /\ x + (total - n) \in Unit /\ no \in BOOLEAN
      BY <1>1, <1>3, <2>1, <2>3
    <3> QED BY <3>1, PutTagsFields
  <2> HIDE DEF u, s2
  <2>5. \A q \in Unit :
          /\ k.hdr[q] = IF q = p THEN [size |-> total, alloc |-> yes]
                        ELSE IF q > p /\ q < e THEN NoTag ELSE m.hdr[q]
          /\ k.ftr[q] = IF q = e THEN [size |-> total, alloc |-> yes]
                        ELSE IF q > p /\ q < e THEN NoTag ELSE m.ftr[q]
          /\ q # p /\ q # e /\ (yes \/ q < p \/ q > e) => k.data[q] = m.data[q]
    <3>1. m \in HeapRecord /\ p \in Unit /\ p + total \in Unit /\ yes \in BOOLEAN
      BY <1>1, <1>2, <1>3
    <3> QED BY <3>1, <1>2, <1>4, PutTagsFields
  <2>6. k.seg = m.seg /\ k.tree = m.tree
    BY <1>1, <1>4, PutTagsIndex
  <2>7. CutAt(k, s2, p, x, t, u)
    <3>1. s2.brk = k.brk
      BY <1>5, <2>3, <2>4
    <3>2. s2.hdr[p] = t /\ s2.hdr[x] = u
      BY <1>1, <2>1, <2>3, <2>4 DEF Unit
    <3>3. s2.ftr[x] = t /\ s2.ftr[e] = u
      BY <1>1, <2>1, <2>3, <2>4 DEF Unit
    <3>4. \A q \in Unit : q # p /\ q # x => s2.hdr[q] = k.hdr[q]
      BY <1>1, <2>1, <2>3, <2>4, <2>5 DEF Unit
    <3>5. \A q \in Unit : q # x /\ q # e => s2.ftr[q] = k.ftr[q]
      BY <1>1, <2>1, <2>3, <2>4, <2>5 DEF Unit
    <3> QED BY <1>6, <3>1, <3>2, <3>3, <3>4, <3>5 DEF CutAt
  <2>8. \A q \in Unit : q < p \/ q > e => s2.data[q] = k.data[q]
    BY <1>1, <2>1, <2>3, <2>4, <2>5 DEF Unit
  <2>9. /\ Good(s2, {x}) /\ Untouched(k, s2, {p}) /\ p \in AllocBlocks(s2)
        /\ Size(s2, p) = x - p
    <3>1. x - p >= MinBlockSize /\ NextBlk(k, p) - x >= MinBlockSize
      BY <1>6, <1>8, <2>1
    <3>2. s2 \in HeapRecord /\ s2.seg = k.seg /\ s2.tree = k.tree
      BY <2>3, <2>4, <2>6
    <3>3. t.size = x - p /\ u.size = NextBlk(k, p) - x
      BY <1>6, <2>1, <2>2
    <3>4. \A q \in Unit : q < p \/ q > NextBlk(k, p) => s2.data[q] = k.data[q]
      BY <1>6, <2>8
    <3>5. Good(k, {}) /\ p \in AllocBlocks(k) /\ x \in Unit
      BY <1>5, <1>6, <2>1
    <3>6. t \in Tag /\ t.alloc /\ u \in Tag /\ ~u.alloc
      BY <2>2
    <3> QED BY <2>7, <3>1, <3>2, <3>3, <3>4, <3>5, <3>6, SplitGood
  <2>10. Good(r, {}) /\ SameTags(s2, r) /\ DataOutside(s2, r, x, NextBlk(s2, x))
    <3>1. x \in {x} /\ {x} \ {x} = {}
      OBVIOUS
    <3>2. Good(r, {x} \ {x}) /\ SameTags(s2, r) /\ DataOutside(s2, r, x, NextBlk(s2, x))
      BY <2>0, <2>9, <3>1, AddToListGood
    <3> QED BY <3>1, <3>2
  <2>11. Untouched(s2, r, {})
    <3>1. x \in FreeBlocks(s2)
      BY <2>9 DEF Good
    <3> QED BY <2>9, <2>10, <3>1, IndexUntouched
  <2>12. Untouched(m, r, {p})
    <3>1. Untouched(m, s2, {p} \union {p})
      BY <1>5, <2>9, UntouchedTrans
    <3>2. Untouched(m, r, ({p} \union {p}) \union {})
      BY <2>11, <3>1, UntouchedTrans
    <3>3. ({p} \union {p}) \union {} = {p}
      OBVIOUS
    <3> QED BY <3>2, <3>3
  <2>13. p \in AllocBlocks(r) /\ Size(r, p) >= n
    BY <2>1, <2>9, <2>10, SameTagsSameBlocks
  <2>14. SamePayload(m, r, p, n)
    <3> SUFFICES ASSUME NEW y \in Unit, p < y, y < x PROVE r.data[y] = m.data[y]
      BY <2>1 DEF SamePayload
    <3>1. y < p + n /\ y # p /\ y # x /\ y # x + (total - n)
      BY <1>1, <1>2, <2>1 DEF Unit
    <3>2. r.data[y] = s2.data[y]
      BY <2>10, <2>1 DEF DataOutside, Unit
    <3>3. s2.data[y] = s1.data[y] /\ s1.data[y] = m.data[y]
      BY <1>3, <2>3, <2>4, <3>1
    <3> QED BY <3>2, <3>3
  <2> QED BY <2>10, <2>12, <2>13, <2>14 DEF r
<1> QED BY <1>7, <1>8 DEF r

-----------------------------------------------------------------------------
(* Sizes.                                                                  *)

\* Rounding bytes up to units (ALIGN) loses none and wastes less than a unit.
LEMMA UnitsBound ==
  ASSUME NEW n \in Nat
  PROVE  /\ Units(n) \in Nat /\ 8 * Units(n) >= n
         /\ \A k \in Nat : 8 * k >= n => Units(n) <= k
<1> DEFINE u == (n + 7) \div 8
<1>1. u \in Int /\ 8 * u <= n + 7 /\ n + 7 < 8 * u + 8
  OBVIOUS
<1>2. Units(n) = u
  BY DEF Units, DSize
<1> HIDE DEF u
<1>3. u >= 0 /\ 8 * u >= n
  BY <1>1
<1>4. \A k \in Nat : 8 * k >= n => u <= k
  BY <1>1
<1> QED BY <1>1, <1>2, <1>3, <1>4

\* Units grow with bytes.
LEMMA UnitsMono ==
  ASSUME NEW a \in Nat, NEW b \in Nat, a <= b
  PROVE  Units(a) <= Units(b)
<1>1. Units(b) \in Nat /\ 8 * Units(b) >= a
  BY UnitsBound
<1> QED BY <1>1, UnitsBound

\* The block size chosen for a request leaves room for it between the tags.
LEMMA AdjustedSizeBound ==
  ASSUME NEW bytes \in Nat
  PROVE  /\ AdjustedSize(bytes) \in Nat /\ AdjustedSize(bytes) >= MinBlockSize
         /\ DSize * AdjustedSize(bytes) - DSize >= bytes
<1>1. CASE bytes <= DSize
  BY <1>1 DEF AdjustedSize, DSize, MinBlockSize
<1>2. CASE ~(bytes <= DSize)
  <2> DEFINE n == bytes + 8
             u == Units(n)
  <2>1. AdjustedSize(bytes) = u
    BY <1>2 DEF AdjustedSize, DSize
  <2>2. n \in Nat /\ n = bytes + 8 /\ bytes > 8
    BY <1>2 DEF DSize
  <2> HIDE DEF n
  <2>3. u \in Nat /\ 8 * u >= n
    BY <2>2, UnitsBound
  <2> HIDE DEF u
  <2>4. u >= 2 /\ 8 * u - 8 >= bytes
    BY <2>2, <2>3
  <2> QED BY <2>1, <2>3, <2>4 DEF DSize, MinBlockSize
<1> QED BY <1>1, <1>2

-----------------------------------------------------------------------------
(* Finding and placing.                                                    *)

\* What the search returns is a free block, large enough.
LEMMA FindFitSound ==
  ASSUME NEW m, Good(m, {}), NEW n \in Nat, NEW p \in FindFit(m, n)
  PROVE  p \in FreeBlocks(m) /\ Size(m, p) >= n
<1>1. CASE n <= SmallBlockMax
  <2>1. p \in SegListFindFit(m, n)
    BY <1>1 DEF FindFit
  <2>2. PICK f \in SegFits(m, n) : p = m.seg[f[1]][f[2]]
    BY <2>1 DEF SegListFindFit
  <2> DEFINE i == f[1]
             j == f[2]
  <2>3. /\ i \in SegIndex(n) .. NumSegLists - 1 /\ j \in DOMAIN m.seg[i]
        /\ Size(m, m.seg[i][j]) >= n
    BY DEF SegFits
  <2>4. i \in 1 .. NumSegLists
    <3>1. SegIndex(n) \in 1 .. NumSegLists /\ NumSegLists \in Int
      <4>1. Len(SegBounds) \in Nat
        BY SegAssumption
      <4> QED BY <4>1, SegIndexRange DEF NumSegLists
    <3> HIDE DEF i
    <3> QED BY <2>3, <3>1
  <2>5. m.seg[i][j] \in FreeBlocks(m) \ {}
    BY <2>3, <2>4 DEF Good, Indexed, ListsSound
  <2> QED BY <2>2, <2>3, <2>5
<1>2. CASE ~(n <= SmallBlockMax)
  <2>1. p \in m.tree /\ Size(m, p) >= n
    BY <1>2 DEF FindFit, AvlFindFit
  <2> QED BY <2>1 DEF Good, Indexed, TreeSound
<1> QED BY <1>1, <1>2

\* place turns a free block in hand into an allocated one.
LEMMA PlaceGood ==
  ASSUME NEW m, NEW p, Good(m, {p}), NEW n \in Nat, n >= MinBlockSize, Size(m, p) >= n
  PROVE  LET r == Place(m, p, n) IN
         /\ Good(r, {}) /\ Untouched(m, r, {p})
         /\ p \in AllocBlocks(r) /\ Size(r, p) >= n
<1>1. m \in HeapRecord /\ Tiled(m) /\ p \in FreeBlocks(m) /\ p \in Starts(m) /\ p # 1
  <2>1. m.hdr[1].alloc
    BY DEF Good, Tiled, TiledEnds
  <2> QED BY <2>1 DEF Good, FreeBlocks
<1>2. /\ p \in Unit /\ p > 1 /\ Size(m, p) \in Nat
      /\ NextBlk(m, p) \in Bounds(m) /\ NextBlk(m, p) = p + Size(m, p) /\ p < NextBlk(m, p)
      /\ \A q \in Starts(m) : q <= p \/ q >= NextBlk(m, p)
  BY <1>1, BlockEnds
<1> DEFINE total == Size(m, p)
<1>3. /\ total \in Nat /\ p + total \in Bounds(m) /\ n <= total
      /\ \A q \in AllocBlocks(m) : q <= p \/ q >= p + total
      /\ \A q \in {p} : p <= q /\ q < p + total
  <2>1. total \in Nat /\ n <= total /\ p + total = NextBlk(m, p) /\ p < p + total /\ p <= p
    BY <1>2 DEF Unit
  <2>2. \A q \in AllocBlocks(m) : q <= p \/ q >= NextBlk(m, p)
    BY <1>2 DEF AllocBlocks
  <2> HIDE DEF total
  <2>3. \A q \in AllocBlocks(m) : q <= p \/ q >= p + total
    BY <2>1, <2>2
  <2>4. \A q \in {p} : p <= q /\ q < p + total
    BY <2>1
  <2>5. p + total \in Bounds(m)
    BY <2>1, <1>2
  <2> QED BY <2>1, <2>3, <2>4, <2>5
<1>4. \A q \in FreeBlocks(m) \ {p} : q < p \/ q >= p + total
  <2> TAKE q \in FreeBlocks(m) \ {p}
  <2>1. q \in Unit /\ q # p /\ (q <= p \/ q >= p + total)
    BY <1>1, <1>2, Types DEF FreeBlocks
  <2> QED BY <1>2, <2>1 DEF Unit
<1>5. Place(m, p, n) = Carve(m, p, total, n)
  BY DEF Place
<1> HIDE DEF total
<1> DEFINE H == {p}
           r == Carve(m, p, total, n)
<1>6. /\ Good(m, H)
      /\ \A q \in FreeBlocks(m) \ H : q < p \/ q >= p + total
      /\ \A q \in H : p <= q /\ q < p + total
  BY <1>3, <1>4
<1>7. p \in Starts(m) /\ p > 1
  BY <1>1, <1>2
<1> HIDE DEF H, r
<1>8. /\ Good(r, {}) /\ Untouched(m, r, {p})
      /\ p \in AllocBlocks(r) /\ Size(r, p) >= n
  BY <1>3, <1>6, <1>7, CarveGood DEF r
<1> QED BY <1>5, <1>8 DEF r

\* mm_malloc's way with a free block in hand: from m, where all is indexed, to a
\* heap where the block is allocated and all the rest is as it was.
LEMMA ServeGood ==
  ASSUME NEW m, Good(m, {}), NEW s, NEW p, Good(s, {p}), Untouched(m, s, {}),
         NEW n \in Nat, n >= MinBlockSize, Size(s, p) >= n
  PROVE  LET r == Place(s, p, n) IN
         /\ Good(r, {}) /\ Untouched(m, r, {p}) /\ p \notin AllocBlocks(m)
         /\ p \in AllocBlocks(r) /\ Size(r, p) >= n
<1> DEFINE r == Place(s, p, n)
<1>1. /\ Good(r, {}) /\ Untouched(s, r, {p})
      /\ p \in AllocBlocks(r) /\ Size(r, p) >= n
  BY PlaceGood
<1> HIDE DEF r
<1>2. Untouched(m, r, {p})
  <2>1. Untouched(m, r, {} \union {p})
    BY <1>1, UntouchedTrans
  <2> QED BY <2>1
<1>3. p \notin AllocBlocks(m)
  <2>1. p \notin AllocBlocks(s)
    BY DEF Good, FreeBlocks, AllocBlocks
  <2> QED BY <2>1 DEF Untouched
<1> QED BY <1>1, <1>2, <1>3 DEF r

-----------------------------------------------------------------------------
(* The entry points.                                                       *)

\* Block p of heap h holds bytes bytes.
Holds(h, p, bytes) == p \in AllocBlocks(h) /\ DSize * Size(h, p) - DSize >= bytes

\* mm_malloc: NULL and nothing changed, or a new block of the size asked for and
\* nothing else changed for anyone who has a block.
LEMMA MmMallocGood ==
  ASSUME NEW m, Good(m, {}), NEW bytes \in Requests, NEW r \in MmMalloc(m, bytes)
  PROVE  /\ r.bp = Null => r.heap = m
         /\ r.bp # Null =>
              /\ Good(r.heap, {}) /\ Untouched(m, r.heap, {r.bp})
              /\ r.bp \notin AllocBlocks(m) /\ Holds(r.heap, r.bp, bytes)
<1> DEFINE n == AdjustedSize(Bumped[bytes])
           more == Larger(n, ChunkSize)
           grown == Extended(m, more)
           merged == CoalescedBlk(grown, m.brk)
<1>1. bytes \in Nat /\ Bumped[bytes] \in Nat /\ Bumped[bytes] >= bytes
  BY RequestAssumption
<1>2. n \in Nat /\ n >= MinBlockSize /\ DSize * n - DSize >= bytes
  <2> DEFINE asked == Bumped[bytes]
  <2>1. asked \in Nat /\ asked >= bytes
    BY <1>1
  <2> HIDE DEF asked
  <2>2. /\ AdjustedSize(asked) \in Nat /\ AdjustedSize(asked) >= MinBlockSize
        /\ DSize * AdjustedSize(asked) - DSize >= asked
    BY <2>1, AdjustedSizeBound
  <2> QED BY <1>1, <2>1, <2>2 DEF asked, DSize
<1>3. r \in (IF bytes = 0 THEN {[heap |-> m, bp |-> Null]}
     ELSE IF FindFit(m, n) # {}
     THEN {[heap |-> Place(RemoveFromList(m, p), p, n), bp |-> p] : p \in FindFit(m, n)}
     ELSE IF CanSbrk(m, more)
     THEN {[heap |-> Place(Coalesce(grown, m.brk), merged, n), bp |-> merged]}
     ELSE {[heap |-> m, bp |-> Null]})
  BY DEF MmMalloc
<1> HIDE DEF n
<1>4. ASSUME NEW h, NEW p, Good(h, {}), p \in AllocBlocks(h), Size(h, p) >= n
      PROVE  Holds(h, p, bytes)
  <2>1. Size(h, p) \in Nat
    BY <1>4, Types DEF Good, AllocBlocks, Size
  <2> QED BY <1>1, <1>2, <1>4, <2>1 DEF Holds, DSize
<1>5. CASE r = [heap |-> m, bp |-> Null]
  BY <1>5
<1>6. ASSUME NEW p \in FindFit(m, n),
             r = [heap |-> Place(RemoveFromList(m, p), p, n), bp |-> p]
      PROVE  /\ Good(r.heap, {}) /\ Untouched(m, r.heap, {r.bp})
             /\ r.bp \notin AllocBlocks(m) /\ Holds(r.heap, r.bp, bytes)
  <2> DEFINE s == RemoveFromList(m, p)
             h == Place(s, p, n)
  <2>1. p \in FreeBlocks(m) /\ Size(m, p) >= n
    BY <1>2, FindFitSound
  <2>2. Good(s, {p}) /\ Untouched(m, s, {}) /\ Size(s, p) >= n
    <3>1. p \in FreeBlocks(m) \ {}
      BY <2>1
    <3>2. Good(s, {} \union {p}) /\ SameTags(m, s) /\ s.data = m.data
      BY <3>1, RemoveFromListGood
    <3> HIDE DEF s
    <3>3. Untouched(m, s, {}) /\ Size(s, p) = Size(m, p)
      BY <3>2, SameTagsSameBlocks DEF Untouched
    <3> QED BY <3>2, <3>3, <2>1
  <2> HIDE DEF s
  <2>3. /\ Good(h, {}) /\ Untouched(m, h, {p}) /\ p \notin AllocBlocks(m)
        /\ p \in AllocBlocks(h) /\ Size(h, p) >= n
    BY <1>2, <2>2, ServeGood
  <2>4. r.heap = h /\ r.bp = p
    BY <1>6 DEF s
  <2> HIDE DEF h
  <2> QED BY <1>4, <2>3, <2>4
<1>7. ASSUME CanSbrk(m, more),
             r = [heap |-> Place(Coalesce(grown, m.brk), merged, n), bp |-> merged]
      PROVE  /\ Good(r.heap, {}) /\ Untouched(m, r.heap, {r.bp})
             /\ r.bp \notin AllocBlocks(m) /\ Holds(r.heap, r.bp, bytes)
  <2> DEFINE s == Coalesce(grown, m.brk)
             h == Place(s, merged, n)
  <2>1. more \in Nat /\ more >= n /\ more >= MinBlockSize
    BY <1>2, HeapAssumption DEF Larger, MinBlockSize
  <2> HIDE DEF more
  <2>2. Good(grown, {m.brk}) /\ Untouched(m, grown, {}) /\ Size(grown, m.brk) = more
    BY <1>7, <2>1, ExtendedGood
  <2> HIDE DEF grown
  <2>3. Good(s, {merged}) /\ Untouched(grown, s, {}) /\ Size(s, merged) >= more
    BY <2>2, CoalesceGood
  <2> HIDE DEF s, merged
  <2>4. Untouched(m, s, {})
    <3>1. Untouched(m, s, {} \union {})
      BY <2>2, <2>3, UntouchedTrans
    <3> QED BY <3>1
  <2>5. Size(s, merged) >= n
    <3>1. Size(s, merged) \in Nat
      BY <2>3, Types DEF Good, FreeBlocks, Size
    <3> QED BY <1>2, <2>1, <2>3, <3>1
  <2>6. /\ Good(h, {}) /\ Untouched(m, h, {merged}) /\ merged \notin AllocBlocks(m)
        /\ merged \in AllocBlocks(h) /\ Size(h, merged) >= n
    BY <1>2, <2>3, <2>4, <2>5, ServeGood
  <2>7. r.heap = h /\ r.bp = merged
    BY <1>7 DEF s
  <2> HIDE DEF h
  <2> QED BY <1>4, <2>6, <2>7
<1> HIDE DEF more, grown, merged
<1>8. \/ r = [heap |-> m, bp |-> Null]
      \/ \E p \in FindFit(m, n) : r = [heap |-> Place(RemoveFromList(m, p), p, n), bp |-> p]
      \/ CanSbrk(m, more)
         /\ r = [heap |-> Place(Coalesce(grown, m.brk), merged, n), bp |-> merged]
  BY <1>3
<1>9. ASSUME NEW p \in FindFit(m, n)
      PROVE  p # Null
  <2>1. p \in FreeBlocks(m)
    BY <1>2, FindFitSound
  <2> QED BY <2>1, Types DEF Good, FreeBlocks, Unit, Null
<1>10. CASE \E p \in FindFit(m, n) : r = [heap |-> Place(RemoveFromList(m, p), p, n), bp |-> p]
  <2>1. PICK p \in FindFit(m, n) : r = [heap |-> Place(RemoveFromList(m, p), p, n), bp |-> p]
    BY <1>10
  <2>2. r.bp = p /\ p # Null
    BY <1>9, <2>1
  <2> QED BY <1>6, <2>1, <2>2
<1>11. CASE /\ CanSbrk(m, more)
            /\ r = [heap |-> Place(Coalesce(grown, m.brk), merged, n), bp |-> merged]
  <2>1. /\ Good(r.heap, {}) /\ Untouched(m, r.heap, {r.bp})
        /\ r.bp \notin AllocBlocks(m) /\ Holds(r.heap, r.bp, bytes)
    BY <1>7, <1>11
  <2>2. r.bp # Null
    BY <2>1, Types DEF Holds, Good, AllocBlocks, Unit, Null
  <2> QED BY <2>1, <2>2
<1> QED BY <1>5, <1>8, <1>10, <1>11

\* mm_free: the block is gone and nothing else changed for anyone who has one.
LEMMA MmFreeGood ==
  ASSUME NEW m, Good(m, {}), NEW p \in AllocBlocks(m)
  PROVE  LET r == MmFree(m, p) IN
         /\ Good(r, {}) /\ Untouched(m, r, {p}) /\ p \notin AllocBlocks(r)
<1> DEFINE s == Freed(m, p)
           b == CoalescedBlk(s, p)
           k == Coalesce(s, p)
           r == AddToList(k, b)
<1>1. Good(s, {p}) /\ Untouched(m, s, {p}) /\ p \notin AllocBlocks(s)
  BY FreedGood
<1>2. MmFree(m, p) = r
  BY DEF MmFree
<1> HIDE DEF s
<1>3. Good(k, {b}) /\ Untouched(s, k, {})
  BY <1>1, CoalesceGood
<1> HIDE DEF k, b
<1>4. Good(r, {}) /\ Untouched(k, r, {})
  <2>1. b \in {b} /\ {b} \ {b} = {}
    OBVIOUS
  <2>2. Good(r, {b} \ {b}) /\ SameTags(k, r) /\ DataOutside(k, r, b, NextBlk(k, b))
    BY <1>3, <2>1, AddToListGood
  <2> HIDE DEF r
  <2>3. b \in FreeBlocks(k)
    BY <1>3 DEF Good
  <2> QED BY <1>3, <2>1, <2>2, <2>3, IndexUntouched
<1> HIDE DEF r
<1>5. Untouched(m, r, {p}) /\ AllocBlocks(r) = AllocBlocks(s)
  <2>1. Untouched(m, k, {p} \union {})
    BY <1>1, <1>3, UntouchedTrans
  <2>2. Untouched(m, r, ({p} \union {}) \union {})
    BY <1>4, <2>1, UntouchedTrans
  <2>3. ({p} \union {}) \union {} = {p}
    OBVIOUS
  <2>4. AllocBlocks(k) = AllocBlocks(s) /\ AllocBlocks(r) = AllocBlocks(k)
    BY <1>3, <1>4 DEF Untouched
  <2> QED BY <2>2, <2>3, <2>4
<1> QED BY <1>1, <1>2, <1>4, <1>5

\* Writing inside the payload of one's own block touches nobody else's.
LEMMA PayloadWrite ==
  ASSUME NEW m, Good(m, {}), NEW q \in AllocBlocks(m), NEW k \in Nat, k < Size(m, q),
         NEW d \in [Unit -> Ids \union {Junk}],
         \A x \in Unit : x <= q \/ x > q + k => d[x] = m.data[x]
  PROVE  LET r == [m EXCEPT !.data = d] IN
         /\ Good(r, {}) /\ SameTags(m, r) /\ r.data = d /\ Untouched(m, r, {q})
<1> DEFINE r == [m EXCEPT !.data = d]
<1>1. m \in HeapRecord /\ Tiled(m) /\ q \in Starts(m) /\ q # 1
  BY DEF Good, AllocBlocks
<1>2. SameTags(m, r) /\ r.seg = m.seg /\ r.tree = m.tree /\ r.data = d
  BY <1>1 DEF SameTags, HeapRecord
<1> HIDE DEF r
<1>3. /\ FreeBlocks(r) = FreeBlocks(m) /\ AllocBlocks(r) = AllocBlocks(m)
      /\ \A p : Size(r, p) = Size(m, p)
      /\ Tiled(r)
  BY <1>1, <1>2, SameTagsSameBlocks
<1>4. Good(r, {})
  <2>1. Indexed(r, {})
    BY <1>2, <1>3, IndexStays DEF Good
  <2> QED BY <1>2, <1>3, <2>1 DEF Good, SameTags
<1>5. ASSUME NEW b \in AllocBlocks(m) \ {q}, NEW x \in Unit, b < x, x < NextBlk(m, b)
      PROVE  d[x] = m.data[x]
  <2>1. b \in Starts(m) /\ b # 1 /\ b # q
    BY DEF AllocBlocks
  <2>2. /\ b \in Unit /\ NextBlk(m, b) \in Unit
        /\ \A y \in Starts(m) : y <= b \/ y >= NextBlk(m, b)
    BY <1>1, <2>1, BlockEnds
  <2>3. /\ q \in Unit /\ Size(m, q) \in Nat /\ NextBlk(m, q) = q + Size(m, q)
        /\ \A y \in Starts(m) : y <= q \/ y >= NextBlk(m, q)
    BY <1>1, BlockEnds
  <2>4. (q <= b \/ q >= NextBlk(m, b)) /\ (b <= q \/ b >= q + Size(m, q))
    BY <1>1, <2>1, <2>2, <2>3
  <2>5. x <= q \/ x > q + k
    BY <1>5, <2>1, <2>2, <2>3, <2>4 DEF Unit
  <2> QED BY <2>5
<1>6. Untouched(m, r, {q})
  BY <1>2, <1>3, <1>5 DEF Untouched
<1> QED BY <1>2, <1>4, <1>6 DEF r

\* A block's payload lies in the heap, and room for bytes is room for their units.
LEMMA PayloadRoom ==
  ASSUME NEW m, Good(m, {}), NEW p, NEW bytes \in Nat, Holds(m, p, bytes)
  PROVE  /\ p \in Unit /\ Size(m, p) \in Nat /\ Units(bytes) \in Nat
         /\ Units(bytes) < Size(m, p)
         /\ \A i \in Nat : i < Size(m, p) => p + i \in Unit
<1>1. p \in Starts(m) /\ p # 1 /\ m \in HeapRecord /\ Tiled(m)
  BY DEF Good, Holds, AllocBlocks
<1>2. /\ p \in Unit /\ Size(m, p) \in Nat /\ Size(m, p) >= MinBlockSize
      /\ NextBlk(m, p) \in Unit /\ NextBlk(m, p) = p + Size(m, p)
  BY <1>1, BlockEnds
<1>3. Units(bytes) < Size(m, p) /\ Units(bytes) \in Nat
  <2> DEFINE k == Size(m, p) - 1
  <2>1. k \in Nat /\ 8 * k >= bytes
    BY <1>2 DEF Holds, DSize, MinBlockSize
  <2>2. Units(bytes) <= k /\ Units(bytes) \in Nat
    BY <2>1, UnitsBound
  <2> QED BY <1>2, <2>2
<1>4. ASSUME NEW i \in Nat, i < Size(m, p)
      PROVE  p + i \in Unit
  <2>1. MaxHeap \in Int
    BY HeapAssumption
  <2> QED BY <1>2, <1>4, <2>1 DEF Unit
<1> QED BY <1>2, <1>3, <1>4

\* The first units of block q in g are those of block p in h.
SamePrefix(h, p, g, q, units) ==
  \A i \in Nat : 0 < i /\ i <= units => g.data[q + i] = h.data[p + i]

\* memcpy of one payload to another touches nothing else.
LEMMA CopyGood ==
  ASSUME NEW m, Good(m, {}), NEW p, NEW q, NEW bytes \in Nat,
         Holds(m, p, bytes), Holds(m, q, bytes)
  PROVE  LET r == Copy(m, p, q, bytes) IN
         /\ Good(r, {}) /\ SameTags(m, r) /\ Untouched(m, r, {q})
         /\ SamePrefix(m, p, r, q, Units(bytes))
<1> DEFINE k == Units(bytes)
           d == [x \in Unit |-> IF x > q /\ x <= q + k THEN m.data[x - q + p] ELSE m.data[x]]
           r == Copy(m, p, q, bytes)
<1>1. r = [m EXCEPT !.data = d]
  BY DEF Copy
<1>2. /\ k \in Nat /\ p \in Unit /\ q \in Unit
      /\ k < Size(m, p) /\ Size(m, p) \in Nat /\ k < Size(m, q) /\ Size(m, q) \in Nat
      /\ \A i \in Nat : i < Size(m, p) => p + i \in Unit
      /\ \A i \in Nat : i < Size(m, q) => q + i \in Unit
      /\ m.data \in [Unit -> Ids \union {Junk}] /\ q \in AllocBlocks(m)
  BY PayloadRoom DEF Good, HeapRecord, Holds
<1> HIDE DEF k
<1>3. \A x \in Unit : x > q /\ x <= q + k => x - q + p \in Unit
  <2> TAKE x \in Unit
  <2> HAVE x > q /\ x <= q + k
  <2> DEFINE i == x - q
  <2>1. i \in Nat /\ i < Size(m, p) /\ x - q + p = p + i
    BY <1>2 DEF Unit
  <2> HIDE DEF i
  <2> QED BY <1>2, <2>1
<1>4. d \in [Unit -> Ids \union {Junk}]
  BY <1>2, <1>3
<1>5. \A x \in Unit : x <= q \/ x > q + k => d[x] = m.data[x]
  BY <1>2 DEF Unit
<1>6. \A i \in Nat : 0 < i /\ i <= k => d[q + i] = m.data[p + i]
  <2> TAKE i \in Nat
  <2> HAVE 0 < i /\ i <= k
  <2>1. /\ q + i \in Unit /\ q + i > q /\ q + i <= q + k
        /\ (q + i) - q + p = p + i
    BY <1>2 DEF Unit
  <2> QED BY <2>1
<1> HIDE DEF d, r
<1>7. Good(r, {}) /\ SameTags(m, r) /\ r.data = d /\ Untouched(m, r, {q})
  BY <1>1, <1>2, <1>4, <1>5, PayloadWrite
<1> QED BY <1>6, <1>7 DEF r, k, SamePrefix

\* What block p holds of a client's bytes when it is resized to bytes.
Common(m, p, bytes) == Smaller(DSize * Size(m, p) - DSize, bytes)

\* h is m after block p became block q (p itself, or a new one) with room for
\* bytes and the same first bytes, and nothing else changed.
Resized(m, p, bytes, h, q) ==
  /\ Good(h, {}) /\ Holds(h, q, bytes)
  /\ \/ q = p /\ Untouched(m, h, {p})
     \/ q \notin AllocBlocks(m) /\ p \notin AllocBlocks(h) /\ Untouched(m, h, {p, q})
  /\ SamePrefix(m, p, h, q, Units(Common(m, p, bytes)))

\* The bytes kept fit the old block and the request.
LEMMA CommonBound ==
  ASSUME NEW m, Good(m, {}), NEW p \in AllocBlocks(m), NEW bytes \in Nat
  PROVE  /\ Common(m, p, bytes) \in Nat /\ Common(m, p, bytes) <= bytes
         /\ Holds(m, p, Common(m, p, bytes))
<1>1. Size(m, p) \in Nat /\ Size(m, p) >= MinBlockSize
  <2>1. p \in Starts(m) /\ p # 1 /\ m \in HeapRecord /\ Tiled(m)
    BY DEF Good, AllocBlocks
  <2> QED BY <2>1, BlockEnds
<1>2. 8 * Size(m, p) - 8 \in Nat
  BY <1>1 DEF MinBlockSize
<1>3. Common(m, p, bytes) \in Nat /\ Common(m, p, bytes) <= bytes
  BY <1>2 DEF Common, Smaller, DSize
<1>4. 8 * Size(m, p) - 8 >= Common(m, p, bytes)
  BY <1>2 DEF Common, Smaller, DSize
<1> QED BY <1>3, <1>4 DEF Holds, DSize

\* A block that is rewritten in place, with size n and its payload kept so far as
\* both blocks reach, is resized.
LEMMA InPlace ==
  ASSUME NEW m, Good(m, {}), NEW p \in AllocBlocks(m), NEW bytes \in Nat, NEW h,
         NEW n \in Nat, DSize * n - DSize >= bytes,
         Good(h, {}), Untouched(m, h, {p}), p \in AllocBlocks(h), Size(h, p) >= n,
         \A x \in Unit : p < x /\ x < p + n /\ x < p + Size(m, p) => h.data[x] = m.data[x]
  PROVE  Resized(m, p, bytes, h, p)
<1> DEFINE c == Common(m, p, bytes)
<1>1. c \in Nat /\ c <= bytes /\ Holds(m, p, c)
  BY CommonBound
<1> HIDE DEF c
<1>2. Size(h, p) \in Nat
  BY Types DEF Good, AllocBlocks, Size
<1>3. Holds(h, p, bytes)
  BY <1>2 DEF Holds, DSize
<1>4. /\ p \in Unit /\ Size(m, p) \in Nat /\ Units(c) \in Nat /\ Units(c) < Size(m, p)
      /\ \A i \in Nat : i < Size(m, p) => p + i \in Unit
  BY <1>1, PayloadRoom
<1>5. Units(c) < n
  <2>1. 8 * (n - 1) >= c /\ n - 1 \in Nat
    BY <1>1 DEF DSize
  <2>2. Units(c) <= n - 1
    BY <1>1, <2>1, UnitsBound
  <2> QED BY <1>4, <2>2
<1>6. ASSUME NEW i \in Nat, 0 < i, i <= Units(c)
      PROVE  h.data[p + i] = m.data[p + i]
  <2>1. p + i \in Unit /\ p < p + i /\ p + i < p + n /\ p + i < p + Size(m, p)
    BY <1>4, <1>5, <1>6 DEF Unit
  <2> QED BY <2>1
<1> QED BY <1>3, <1>6 DEF Resized, SamePrefix, c

\* mm_realloc to a smaller block, or one of the same size.
LEMMA ShrinkGood ==
  ASSUME NEW m, Good(m, {}), NEW p \in AllocBlocks(m), NEW bytes \in Nat, NEW n \in Nat,
         n >= MinBlockSize, DSize * n - DSize >= bytes, n <= Size(m, p)
  PROVE  /\ Resized(m, p, bytes, m, p)
         /\ Resized(m, p, bytes, Carve(m, p, Size(m, p), n), p)
<1>1. p \in Starts(m) /\ p # 1 /\ m \in HeapRecord /\ Tiled(m)
  BY DEF Good, AllocBlocks
<1>2. /\ p \in Unit /\ p > 1 /\ Size(m, p) \in Nat
      /\ NextBlk(m, p) \in Bounds(m) /\ NextBlk(m, p) = p + Size(m, p)
      /\ \A q \in Starts(m) : q <= p \/ q >= NextBlk(m, p)
  BY <1>1, BlockEnds
<1>3. Resized(m, p, bytes, m, p)
  <2>1. Untouched(m, m, {p})
    BY DEF Untouched
  <2> QED BY <2>1, InPlace
<1> DEFINE total == Size(m, p)
           none == {}
           h == Carve(m, p, total, n)
<1>4. /\ Good(m, none) /\ total \in Nat /\ n <= total /\ total = Size(m, p)
      /\ \A q \in none : p <= q /\ q < p + total
  BY <1>2
<1> HIDE DEF total, h
<1>5. p + total \in Bounds(m) /\ p + total = NextBlk(m, p) /\ p + total \in Unit
  BY <1>2, <1>4, Types DEF Good
<1>6. \A q \in AllocBlocks(m) : q <= p \/ q >= p + total
  BY <1>2, <1>5 DEF AllocBlocks
<1>7. \A q \in FreeBlocks(m) \ none : q < p \/ q >= p + total
  <2> TAKE q \in FreeBlocks(m)
  <2>1. q \in Starts(m) /\ q # p /\ q \in Unit
    BY <1>1, Types DEF FreeBlocks, AllocBlocks
  <2> QED BY <1>2, <1>5, <2>1 DEF Unit
<1> HIDE DEF none
<1>8. /\ Good(h, {}) /\ Untouched(m, h, {p}) /\ p \in AllocBlocks(h) /\ Size(h, p) >= n
      /\ \A x \in Unit : p < x /\ x < p + n => h.data[x] = m.data[x]
  <2>1. /\ Good(m, none) /\ p \in Starts(m) /\ p > 1 /\ total \in Nat
        /\ p + total \in Bounds(m) /\ n <= total
        /\ \A q \in none : p <= q /\ q < p + total
    BY <1>1, <1>2, <1>4, <1>5
  <2>2. /\ Good(h, {}) /\ Untouched(m, h, {p}) /\ p \in AllocBlocks(h) /\ Size(h, p) >= n
    BY <2>1, <1>6, <1>7, CarveGood DEF h
  <2>3. SamePayload(m, h, p, n)
    BY <2>1, <1>6, <1>7, CarveGood DEF h
  <2> QED BY <2>2, <2>3 DEF SamePayload
<1>9. Resized(m, p, bytes, h, p)
  BY <1>8, InPlace
<1> QED BY <1>3, <1>9 DEF h, total

\* mm_realloc into the free block that follows.
LEMMA MergeNextGood ==
  ASSUME NEW m, Good(m, {}), NEW p \in AllocBlocks(m), NEW bytes \in Nat, NEW n \in Nat,
         n >= MinBlockSize, DSize * n - DSize >= bytes,
         ~m.hdr[NextBlk(m, p)].alloc, Size(m, p) + Size(m, NextBlk(m, p)) >= n
  PROVE  Resized(m, p, bytes,
           Carve(RemoveFromList(m, NextBlk(m, p)), p,
                 Size(m, p) + Size(m, NextBlk(m, p)), n), p)
<1> DEFINE next == NextBlk(m, p)
           total == Size(m, p) + Size(m, next)
           s == RemoveFromList(m, next)
           H == {next}
           h == Carve(s, p, total, n)
<1>1. p \in Starts(m) /\ p # 1 /\ m \in HeapRecord /\ Tiled(m)
  BY DEF Good, AllocBlocks
<1>2. /\ p \in Unit /\ p > 1 /\ Size(m, p) \in Nat
      /\ next \in Bounds(m) /\ next = p + Size(m, p) /\ p < next /\ next \in Unit
      /\ \A q \in Starts(m) : q <= p \/ q >= next
  BY <1>1, BlockEnds
<1>3. next \in FreeBlocks(m) /\ next \in Starts(m) /\ next # 1
  <2>1. m.hdr[m.brk].alloc
    BY <1>1 DEF Tiled, TiledEnds, Epilogue
  <2>2. next \in Starts(m)
    BY <1>2, <2>1 DEF Bounds
  <2>3. next # 1
    BY <1>2 DEF Unit
  <2> QED BY <2>2, <2>3 DEF FreeBlocks
<1>4. /\ Size(m, next) \in Nat /\ NextBlk(m, next) \in Bounds(m)
      /\ NextBlk(m, next) = next + Size(m, next) /\ next < NextBlk(m, next)
      /\ \A q \in Starts(m) : q <= next \/ q >= NextBlk(m, next)
      /\ NextBlk(m, next) \in Unit
  BY <1>1, <1>3, BlockEnds
<1>5. Good(s, H) /\ SameTags(m, s) /\ s.data = m.data
  <2>1. next \in FreeBlocks(m) \ {}
    BY <1>3
  <2>2. Good(s, {} \union {next}) /\ SameTags(m, s) /\ s.data = m.data
    BY <2>1, RemoveFromListGood
  <2>3. {} \union {next} = H
    OBVIOUS
  <2> QED BY <2>2, <2>3
<1> HIDE DEF s
<1>6. /\ total \in Nat /\ n <= total /\ p + total = NextBlk(m, next)
      /\ next < p + total /\ total >= Size(m, p)
  BY <1>2, <1>4 DEF Unit
<1>7. /\ Starts(s) = Starts(m) /\ Bounds(s) = Bounds(m) /\ FreeBlocks(s) = FreeBlocks(m)
      /\ AllocBlocks(s) = AllocBlocks(m)
  BY <1>5, SameTagsSameBlocks
<1> HIDE DEF total, next
<1>8. p + total \in Bounds(s) /\ p \in Starts(s)
  BY <1>1, <1>4, <1>6, <1>7
<1>9. \A q \in Starts(m) : q \in Unit /\ (q <= p \/ q = next \/ q >= p + total)
  <2> TAKE q \in Starts(m)
  <2>1. q \in Unit
    BY <1>1, Types
  <2> QED BY <1>2, <1>4, <1>6, <2>1 DEF Unit
<1>10. \A q \in AllocBlocks(s) : q <= p \/ q >= p + total
  <2>1. next \notin AllocBlocks(m)
    BY <1>3 DEF AllocBlocks, FreeBlocks
  <2>2. \A q \in AllocBlocks(m) : q \in Starts(m) /\ q # next
    BY <2>1 DEF AllocBlocks
  <2> QED BY <1>7, <1>9, <2>2
<1>11. \A q \in FreeBlocks(s) \ H : q < p \/ q >= p + total
  <2> TAKE q \in FreeBlocks(s) \ H
  <2>1. q \in Starts(m) /\ q # p /\ q # next
    BY <1>7 DEF FreeBlocks, AllocBlocks
  <2>2. q \in Unit /\ (q <= p \/ q >= p + total)
    BY <1>9, <2>1
  <2> QED BY <1>2, <2>1, <2>2 DEF Unit
<1>12. \A q \in H : p <= q /\ q < p + total
  BY <1>2, <1>6 DEF Unit
<1> HIDE DEF H, h
<1>13. /\ Good(h, {}) /\ Untouched(s, h, {p})
       /\ p \in AllocBlocks(h) /\ Size(h, p) >= n /\ SamePayload(s, h, p, n)
  <2>1. p > 1 /\ total \in Nat /\ n <= total
    BY <1>2, <1>6
  <2>2. /\ Good(h, {}) /\ Untouched(s, h, {p})
        /\ p \in AllocBlocks(h) /\ Size(h, p) >= n
    BY <1>5, <1>8, <1>10, <1>11, <1>12, <2>1, CarveGood DEF h
  <2>3. SamePayload(s, h, p, n)
    BY <1>5, <1>8, <1>10, <1>11, <1>12, <2>1, CarveGood DEF h
  <2> QED BY <2>2, <2>3
<1>14. Untouched(m, h, {p})
  <2>1. Untouched(m, s, {})
    BY <1>5, <1>7, SameTagsSameBlocks DEF Untouched
  <2>2. Untouched(m, h, {} \union {p})
    BY <1>13, <2>1, UntouchedTrans
  <2> QED BY <2>2
<1>15. \A x \in Unit : p < x /\ x < p + n => h.data[x] = m.data[x]
  BY <1>5, <1>13 DEF SamePayload
<1>16. Resized(m, p, bytes, h, p)
  BY <1>13, <1>14, <1>15, InPlace
<1> QED BY <1>16 DEF h, s, total, next

\* mm_realloc of the last block by growing the heap.
LEMMA GrowGood ==
  ASSUME NEW m, Good(m, {}), NEW p \in AllocBlocks(m), NEW bytes \in Nat, NEW n \in Nat,
         DSize * n - DSize >= bytes, n >= MinBlockSize,
         n > Size(m, p), Size(m, NextBlk(m, p)) = 0, CanSbrk(m, n - Size(m, p))
  PROVE  Resized(m, p, bytes, PutTags(MoveBrk(m, n - Size(m, p)), p, n, TRUE), p)
<1> DEFINE k == n - Size(m, p)
           yes == TRUE
           h == PutTags(MoveBrk(m, k), p, n, yes)
<1>1. p \in Starts(m) /\ p # 1 /\ m \in HeapRecord /\ Tiled(m)
  BY DEF Good, AllocBlocks
<1>2. /\ p \in Unit /\ p > 1 /\ Size(m, p) \in Nat
      /\ NextBlk(m, p) \in Bounds(m) /\ NextBlk(m, p) = p + Size(m, p)
  BY <1>1, BlockEnds
<1>3. NextBlk(m, p) = m.brk
  <2>1. NextBlk(m, p) \notin Starts(m)
    BY Types, <1>1 DEF Size
  <2> QED BY <1>2, <2>1 DEF Bounds
<1>4. k \in Nat /\ k > 0 /\ (m.brk + k) - p = n /\ CanSbrk(m, k)
  BY <1>2, <1>3 DEF Unit
<1>5. yes \in BOOLEAN /\ yes
  OBVIOUS
<1> HIDE DEF k, yes, h
<1>6. h = PutTags(MoveBrk(m, k), p, (m.brk + k) - p, yes)
  BY <1>4 DEF h
<1>7. /\ Good(h, {}) /\ Untouched(m, h, {p}) /\ p \in Starts(h)
      /\ h.hdr[p] = [size |-> (m.brk + k) - p, alloc |-> yes]
      /\ \A x \in Unit : p < x /\ x < m.brk => h.data[x] = m.data[x]
  <2>1. /\ (m.brk + k) - p >= MinBlockSize /\ k \in Nat /\ k > 0 /\ CanSbrk(m, k)
        /\ p = m.brk \/ (p \in AllocBlocks(m) /\ NextBlk(m, p) = m.brk)
        /\ p \in Unit
    BY <1>2, <1>3, <1>4
  <2>2. Became(m, h, p, (m.brk + k) - p, yes, m.brk)
    BY <1>5, <1>6, <2>1, GrownGood
  <2> QED BY <1>5, <2>2 DEF Became
<1>8. p \in AllocBlocks(h) /\ Size(h, p) >= n
  BY <1>1, <1>4, <1>5, <1>7 DEF AllocBlocks, Size
<1>9. \A x \in Unit : p < x /\ x < p + n /\ x < p + Size(m, p) => h.data[x] = m.data[x]
  BY <1>2, <1>3, <1>7
<1>10. Resized(m, p, bytes, h, p)
  BY <1>7, <1>8, <1>9, InPlace
<1> QED BY <1>10 DEF h, k, yes

\* mm_realloc by moving: a new block with the old one's first bytes, the old one
\* gone; or, if there is none, nothing changed.
LEMMA MoveGood ==
  ASSUME NEW m, Good(m, {}), NEW p \in AllocBlocks(m), NEW bytes \in Requests,
         NEW r \in MoveBlock(m, p, bytes)
  PROVE  /\ r.bp = Null => r.heap = m
         /\ r.bp # Null => Resized(m, p, bytes, r.heap, r.bp)
<1> DEFINE c == Common(m, p, bytes)
<1>1. PICK r0 \in MmMalloc(m, bytes) :
        r = IF r0.bp = Null THEN r0
            ELSE [heap |-> MmFree(Copy(r0.heap, p, r0.bp, c), p), bp |-> r0.bp]
  BY DEF MoveBlock, Common
<1>2. /\ r0.bp = Null => r0.heap = m
      /\ r0.bp # Null =>
           /\ Good(r0.heap, {}) /\ Untouched(m, r0.heap, {r0.bp})
           /\ r0.bp \notin AllocBlocks(m) /\ Holds(r0.heap, r0.bp, bytes)
  BY MmMallocGood
<1>3. bytes \in Nat
  BY RequestAssumption
<1>4. c \in Nat /\ c <= bytes /\ Holds(m, p, c)
  BY <1>3, CommonBound
<1> HIDE DEF c
<1>5. CASE r0.bp = Null
  BY <1>1, <1>2, <1>5
<1>6. CASE r0.bp # Null
  <2> DEFINE q == r0.bp
             h == r0.heap
             g == Copy(h, p, q, c)
             f == MmFree(g, p)
  <2>1. r.heap = f /\ r.bp = q /\ q # Null
    BY <1>1, <1>6
  <2>2. /\ Good(h, {}) /\ Untouched(m, h, {q}) /\ q \notin AllocBlocks(m)
        /\ Holds(h, q, bytes)
    BY <1>2, <1>6
  <2> HIDE DEF q, h
  <2>3. /\ p # q /\ p \in AllocBlocks(h) /\ Size(h, p) = Size(m, p)
        /\ \A x \in Unit : p < x /\ x < NextBlk(m, p) => h.data[x] = m.data[x]
    BY <2>2 DEF Untouched
  <2>4. Holds(h, p, c)
    BY <1>4, <2>3 DEF Holds
  <2>5. Holds(h, q, c)
    <3>1. Size(h, q) \in Nat
      BY <2>2, Types DEF Good, Holds, AllocBlocks, Size
    <3> QED BY <1>3, <1>4, <2>2, <3>1 DEF Holds, DSize
  <2>6. /\ Good(g, {}) /\ SameTags(h, g) /\ Untouched(h, g, {q})
        /\ SamePrefix(h, p, g, q, Units(c))
    <3>1. c \in Nat /\ Good(h, {}) /\ Holds(h, p, c) /\ Holds(h, q, c)
      BY <1>4, <2>2, <2>4, <2>5
    <3> QED BY <3>1, CopyGood
  <2> HIDE DEF g
  <2>7. AllocBlocks(g) = AllocBlocks(h) /\ \A b : Size(g, b) = Size(h, b)
    BY <2>6, SameTagsSameBlocks
  <2>8. Good(f, {}) /\ Untouched(g, f, {p}) /\ p \notin AllocBlocks(f)
    BY <2>3, <2>6, <2>7, MmFreeGood
  <2> HIDE DEF f
  <2>9. Untouched(m, f, {p, q})
    <3>1. Untouched(m, g, {q} \union {q})
      BY <2>2, <2>6, UntouchedTrans
    <3>2. Untouched(m, f, ({q} \union {q}) \union {p})
      BY <2>8, <3>1, UntouchedTrans
    <3>3. ({q} \union {q}) \union {p} = {p, q}
      OBVIOUS
    <3> QED BY <3>2, <3>3
  <2>10. /\ q \in AllocBlocks(f) /\ Size(f, q) = Size(h, q)
         /\ \A x \in Unit : q < x /\ x < NextBlk(g, q) => f.data[x] = g.data[x]
    <3>1. q \in AllocBlocks(g) \ {p}
      BY <2>2, <2>3, <2>7 DEF Holds
    <3>2. AllocBlocks(f) \ {p} = AllocBlocks(g) \ {p} /\ Size(f, q) = Size(g, q)
      BY <2>8, <3>1 DEF Untouched
    <3>3. \A x \in Unit : q < x /\ x < NextBlk(g, q) => f.data[x] = g.data[x]
      BY <2>8, <3>1 DEF Untouched
    <3> QED BY <2>7, <3>1, <3>2, <3>3
  <2>11. Holds(f, q, bytes)
    BY <2>2, <2>10 DEF Holds
  <2>12. ASSUME NEW i \in Nat, 0 < i, i <= Units(c)
         PROVE  f.data[q + i] = m.data[p + i]
    <3>1. /\ p \in Unit /\ Units(c) \in Nat /\ Units(c) < Size(m, p) /\ Size(m, p) \in Nat
          /\ \A j \in Nat : j < Size(m, p) => p + j \in Unit
      BY <1>4, PayloadRoom
    <3>2. /\ q \in Unit /\ Units(c) < Size(h, q) /\ Size(h, q) \in Nat
          /\ \A j \in Nat : j < Size(h, q) => q + j \in Unit
      BY <1>4, <2>2, <2>5, PayloadRoom
    <3>3. q + i \in Unit /\ q < q + i /\ q + i < NextBlk(g, q)
      <4>1. NextBlk(g, q) = q + Size(h, q)
        BY <2>7 DEF NextBlk, Size
      <4> QED BY <2>12, <3>1, <3>2, <4>1 DEF Unit
    <3>4. p + i \in Unit /\ p < p + i /\ p + i < NextBlk(m, p)
      <4>1. NextBlk(m, p) = p + Size(m, p)
        BY DEF NextBlk, Size
      <4> QED BY <2>12, <3>1, <4>1 DEF Unit
    <3>5. f.data[q + i] = g.data[q + i]
      BY <2>10, <3>3
    <3>6. g.data[q + i] = h.data[p + i]
      BY <2>6, <2>12 DEF SamePrefix
    <3>7. h.data[p + i] = m.data[p + i]
      BY <2>3, <3>4
    <3> QED BY <3>5, <3>6, <3>7
  <2>13. Resized(m, p, bytes, f, q)
    <3>1. SamePrefix(m, p, f, q, Units(c))
      BY <2>12 DEF SamePrefix
    <3> QED BY <2>2, <2>8, <2>9, <2>11, <3>1 DEF Resized, c
  <2> QED BY <2>1, <2>13
<1> QED BY <1>5, <1>6

\* mm_realloc: with size 0 it frees; else it resizes the block, or returns NULL
\* and changes nothing.
LEMMA MmReallocGood ==
  ASSUME NEW m, Good(m, {}), NEW p \in AllocBlocks(m), NEW bytes \in Requests,
         NEW r \in MmRealloc(m, p, bytes)
  PROVE  /\ bytes = 0 =>
              /\ r.bp = Null /\ Good(r.heap, {}) /\ Untouched(m, r.heap, {p})
              /\ p \notin AllocBlocks(r.heap)
         /\ bytes # 0 /\ r.bp = Null => r.heap = m
         /\ bytes # 0 /\ r.bp # Null => Resized(m, p, bytes, r.heap, r.bp)
<1> DEFINE n == AdjustedSize(bytes)
           old == Size(m, p)
           next == NextBlk(m, p)
           total == old + Size(m, next)
<1>1. r \in (IF bytes = 0 THEN {[heap |-> MmFree(m, p), bp |-> Null]}
     ELSE IF n <= old
     THEN {[heap |-> IF old - n >= MinBlockSize THEN Carve(m, p, old, n) ELSE m,
            bp |-> p]}
     ELSE IF ~m.hdr[next].alloc /\ total >= n
     THEN {[heap |-> Carve(RemoveFromList(m, next), p, total, n), bp |-> p]}
     ELSE IF Size(m, next) = 0
     THEN {IF CanSbrk(m, n - old)
           THEN [heap |-> PutTags(MoveBrk(m, n - old), p, n, TRUE), bp |-> p]
           ELSE [heap |-> m, bp |-> Null]}
     ELSE MoveBlock(m, p, bytes))
  BY DEF MmRealloc, GrowLast
<1>2. /\ bytes \in Nat /\ n \in Nat /\ n >= MinBlockSize /\ DSize * n - DSize >= bytes
  BY RequestAssumption, AdjustedSizeBound
<1>3. old \in Nat
  BY Types DEF Good, AllocBlocks, Size
<1> HIDE DEF n
<1>4. CASE bytes = 0
  <2> DEFINE h == MmFree(m, p)
  <2>1. r.heap = h /\ r.bp = Null
    BY <1>1, <1>4
  <2>2. Good(h, {}) /\ Untouched(m, h, {p}) /\ p \notin AllocBlocks(h)
    BY MmFreeGood
  <2> HIDE DEF h
  <2> QED BY <1>4, <2>1, <2>2
<1>5. CASE bytes # 0
  <2> SUFFICES /\ r.bp = Null => r.heap = m
               /\ r.bp # Null => Resized(m, p, bytes, r.heap, r.bp)
    BY <1>5
  <2>1. CASE n <= old
    <3>1. r.bp = p /\ r.heap \in {m, Carve(m, p, Size(m, p), n)}
      BY <1>1, <1>5, <2>1
    <3>2. /\ Resized(m, p, bytes, m, p)
          /\ Resized(m, p, bytes, Carve(m, p, Size(m, p), n), p)
      BY <1>2, <2>1, ShrinkGood
    <3> QED BY <3>1, <3>2, Types DEF Good, AllocBlocks, Unit, Null
  <2>2. CASE ~(n <= old) /\ ~m.hdr[next].alloc /\ total >= n
    <3> DEFINE h == Carve(RemoveFromList(m, next), p, total, n)
    <3>1. r.heap = h /\ r.bp = p
      BY <1>1, <1>5, <2>2
    <3>2. Resized(m, p, bytes, h, p)
      BY <1>2, <2>2, MergeNextGood
    <3> HIDE DEF h
    <3> QED BY <3>1, <3>2, Types DEF Good, AllocBlocks, Unit, Null
  <2>3. CASE ~(n <= old) /\ ~(~m.hdr[next].alloc /\ total >= n) /\ Size(m, next) = 0
    <3>1. CASE CanSbrk(m, n - old)
      <4> DEFINE h == PutTags(MoveBrk(m, n - old), p, n, TRUE)
      <4>1. r = [heap |-> h, bp |-> p]
        BY <1>1, <1>5, <2>3, <3>1
      <4>2. n > Size(m, p) /\ Size(m, NextBlk(m, p)) = 0 /\ CanSbrk(m, n - Size(m, p))
        BY <1>2, <1>3, <2>3, <3>1
      <4>3. Resized(m, p, bytes, h, p)
        BY <1>2, <4>2, GrowGood
      <4> HIDE DEF h
      <4> QED BY <4>1, <4>3, Types DEF Good, AllocBlocks, Unit, Null
    <3>2. CASE ~CanSbrk(m, n - old)
      <4>1. r.heap = m /\ r.bp = Null
        BY <1>1, <1>5, <2>3, <3>2
      <4> QED BY <4>1
    <3> QED BY <3>1, <3>2
  <2>4. CASE ~(n <= old) /\ ~(~m.hdr[next].alloc /\ total >= n) /\ ~(Size(m, next) = 0)
    <3>1. r \in MoveBlock(m, p, bytes)
      BY <1>1, <1>5, <2>4
    <3> QED BY <3>1, MoveGood
  <2> QED BY <2>1, <2>2, <2>3, <2>4
<1> QED BY <1>4, <1>5

\* Changing only_for_16 disturbs nothing: it is not read off the heap.
LEMMA Only16Good ==
  ASSUME NEW m, Good(m, {}), NEW p \in Unit \union {Null}
  PROVE  LET r == [m EXCEPT !.only_for_16 = p] IN
         Good(r, {}) /\ AllocBlocks(r) = AllocBlocks(m)
<1> DEFINE r == [m EXCEPT !.only_for_16 = p]
<1>1. /\ r \in HeapRecord /\ r.hdr = m.hdr /\ r.ftr = m.ftr /\ r.brk = m.brk
      /\ r.seg = m.seg /\ r.tree = m.tree
  BY DEF Good, HeapRecord
<1> HIDE DEF r
<1>2. /\ Starts(r) = Starts(m) /\ \A q : Size(r, q) = Size(m, q)
      /\ \A q : NextBlk(r, q) = NextBlk(m, q) /\ PrevBlk(r, q) = PrevBlk(m, q)
  BY <1>1 DEF Starts, Size, NextBlk, PrevBlk
<1>3. Bounds(r) = Bounds(m) /\ FreeBlocks(r) = FreeBlocks(m) /\ AllocBlocks(r) = AllocBlocks(m)
  BY <1>1, <1>2 DEF Bounds, FreeBlocks, AllocBlocks
<1>4. Tiled(r)
  BY <1>1, <1>2, <1>3 DEF Good, Tiled, TiledEnds, TiledForward, TiledBack
<1>5. Indexed(r, {})
  BY <1>1, <1>2, <1>3, IndexStays DEF Good
<1> QED BY <1>1, <1>3, <1>4, <1>5 DEF Good, r

\* The heap between mem_sbrk(4*WSIZE) and extend_heap: two sentinels, no block.
LEMMA EmptyHeapGood ==
  ASSUME NEW only16 \in Unit \union {Null}
  PROVE  LET m == EmptyHeap(only16) IN
         Good(m, {}) /\ AllocBlocks(m) = {} /\ m.brk = FirstBlock
<1> DEFINE m == EmptyHeap(only16)
           t == [size |-> 1, alloc |-> TRUE]
<1>1. 1 \in Unit /\ 2 \in Unit
  BY HeapAssumption DEF Unit, FirstBlock, MinBlockSize
<1>2. t \in Tag /\ Epilogue \in Tag /\ NoTag \in Tag
  BY DEF Tag, Epilogue, NoTag
<1>3. /\ m.brk = 2 /\ m.tree = {} /\ m.only_for_16 = only16
      /\ m.seg = [i \in 1 .. NumSegLists |-> <<>>]
      /\ m.hdr = [q \in Unit |-> IF q = 1 THEN t ELSE IF q = 2 THEN Epilogue ELSE NoTag]
      /\ m.ftr = [q \in Unit |-> IF q = 2 THEN t ELSE NoTag]
      /\ m.data = [q \in Unit |-> Junk]
  BY DEF EmptyHeap, FirstBlock
<1>4. m = [hdr |-> m.hdr, ftr |-> m.ftr, data |-> m.data, brk |-> m.brk,
           seg |-> m.seg, tree |-> m.tree, only_for_16 |-> m.only_for_16]
  BY DEF EmptyHeap
<1>a. t.size = 1 /\ t.alloc
  OBVIOUS
<1> HIDE DEF m, t
<1>5. m \in HeapRecord
  <2>1. m.hdr \in [Unit -> Tag] /\ m.ftr \in [Unit -> Tag]
    BY <1>2, <1>3
  <2>2. m.data \in [Unit -> Ids \union {Junk}]
    BY <1>3
  <2>3. m.seg \in [1 .. NumSegLists -> Seq(Unit)]
    <3>1. <<>> \in Seq(Unit)
      OBVIOUS
    <3> QED BY <1>3, <3>1
  <2>4. m.brk \in Unit /\ m.tree \in SUBSET Unit /\ m.only_for_16 \in Unit \union {Null}
    BY <1>1, <1>3
  <2> QED BY <1>4, <2>1, <2>2, <2>3, <2>4 DEF HeapRecord
<1>6. m.hdr[1] = t /\ m.hdr[2] = Epilogue /\ m.ftr[2] = t
  BY <1>1, <1>3
<1>7. Starts(m) = {1} /\ Bounds(m) = {1, 2}
  <2>1. \A p : p \in 1 .. 2 - 1 <=> p = 1
    OBVIOUS
  <2>2. \A p : p \in Starts(m) <=> p = 1
    BY <1>3, <1>6, <1>a, <2>1 DEF Starts
  <2> QED BY <1>3, <2>2 DEF Bounds
<1>8. NextBlk(m, 1) = 2 /\ PrevBlk(m, 2) = 1
  BY <1>6, <1>a DEF NextBlk, PrevBlk
<1>9. TiledEnds(m) /\ TiledForward(m) /\ TiledBack(m)
  <2>1. TiledEnds(m)
    BY <1>3, <1>6 DEF TiledEnds, FirstBlock, t
  <2>2. TiledForward(m)
    <3>1. \A q \in Unit : ~(1 < q /\ q < 2)
      BY DEF Unit
    <3> QED BY <1>6, <1>7, <1>8, <3>1 DEF TiledForward
  <2>3. TiledBack(m)
    BY <1>6, <1>7, <1>8 DEF TiledBack
  <2> QED BY <2>1, <2>2, <2>3
<1>10. FreeBlocks(m) = {} /\ AllocBlocks(m) = {}
  BY <1>6, <1>7, <1>a DEF FreeBlocks, AllocBlocks
<1>11. Indexed(m, {})
  <2>1. ListsSound(m, {})
    BY <1>3 DEF ListsSound
  <2> QED BY <1>3, <1>10, <2>1 DEF Indexed, TreeSound, NoneLost
<1> QED BY <1>3, <1>5, <1>9, <1>10, <1>11 DEF Good, Tiled, FirstBlock, m

\* mm_init: a heap in order with nothing allocated, whatever only_for_16 was.
LEMMA MmInitGood ==
  ASSUME NEW only16 \in Unit \union {Null}
  PROVE  Good(MmInit(only16), {}) /\ AllocBlocks(MmInit(only16)) = {}
<1> DEFINE z == EmptyHeap(only16)
           m == Extended(z, ChunkSize)
           bp == CoalescedBlk(m, FirstBlock)
           k == Coalesce(m, FirstBlock)
           a == AddToList(k, bp)
           r == [a EXCEPT !.only_for_16 = bp]
<1>1. MmInit(only16) = r
  BY DEF MmInit
<1>2. Good(z, {}) /\ AllocBlocks(z) = {} /\ z.brk = FirstBlock
  BY EmptyHeapGood
<1> HIDE DEF z
<1>3. Good(m, {FirstBlock}) /\ AllocBlocks(m) = {}
  <2>1. ChunkSize \in Nat /\ ChunkSize >= MinBlockSize /\ CanSbrk(z, ChunkSize)
    BY <1>2, HeapAssumption DEF CanSbrk
  <2>2. Good(m, {z.brk}) /\ Untouched(z, m, {})
    BY <1>2, <2>1, ExtendedGood
  <2> HIDE DEF m
  <2> QED BY <1>2, <2>2 DEF Untouched
<1> HIDE DEF m
<1>4. Good(k, {bp}) /\ AllocBlocks(k) = {}
  <2>1. Good(k, {bp}) /\ Untouched(m, k, {})
    BY <1>3, CoalesceGood
  <2> HIDE DEF k, bp
  <2> QED BY <1>3, <2>1 DEF Untouched
<1> HIDE DEF k, bp
<1>5. Good(a, {}) /\ AllocBlocks(a) = {}
  <2>1. bp \in {bp} /\ {bp} \ {bp} = {}
    OBVIOUS
  <2>2. Good(a, {bp} \ {bp}) /\ SameTags(k, a)
    BY <1>4, <2>1, AddToListGood
  <2> HIDE DEF a
  <2> QED BY <1>4, <2>1, <2>2, SameTagsSameBlocks
<1> HIDE DEF a
<1>6. bp \in Unit \union {Null}
  BY <1>4, Types DEF Good, FreeBlocks
<1>7. Good(r, {}) /\ AllocBlocks(r) = {}
  BY <1>5, <1>6, Only16Good
<1> QED BY <1>1, <1>7

-----------------------------------------------------------------------------
(* The client's books.                                                     *)

\* Block p of h has room for size bytes and holds what id wrote.
Owns(h, p, id, size, written) ==
  /\ Holds(h, p, size) /\ written <= size
  /\ \A q \in 1 .. Units(written) : h.data[p + q] = id

\* The books (blocks, sizes, bytes written) match the heap.
Ledger(h, B, S, F) ==
  /\ Good(h, {})
  /\ B \in [Ids -> Unit \union {Null}] /\ S \in [Ids -> Nat] /\ F \in [Ids -> Nat]
  /\ \A p \in AllocBlocks(h) : \E id \in Ids : B[id] = p
  /\ \A id \in Ids : B[id] # Null => Owns(h, B[id], id, S[id], F[id])
  /\ \A id, other \in Ids : B[id] # Null /\ B[other] = B[id] => other = id

\* What id owns it still owns after a step that leaves its block alone.
LEMMA OwnsStays ==
  ASSUME NEW m, NEW h, NEW mine, Good(m, {}), Untouched(m, h, mine),
         NEW p, NEW id, NEW s \in Nat, NEW f \in Nat, Owns(m, p, id, s, f), p \notin mine
  PROVE  Owns(h, p, id, s, f)
<1>1. p \in AllocBlocks(m) \ mine
  BY DEF Owns, Holds
<1>2. /\ p \in AllocBlocks(h) /\ Size(h, p) = Size(m, p)
      /\ \A x \in Unit : p < x /\ x < NextBlk(m, p) => h.data[x] = m.data[x]
  BY <1>1 DEF Untouched
<1>3. /\ p \in Unit /\ Size(m, p) \in Nat /\ Units(s) \in Nat /\ Units(s) < Size(m, p)
      /\ \A i \in Nat : i < Size(m, p) => p + i \in Unit
  <2>1. Holds(m, p, s)
    BY DEF Owns
  <2> QED BY <2>1, PayloadRoom
<1>4. Units(f) \in Nat /\ Units(f) <= Units(s)
  BY UnitsBound, UnitsMono DEF Owns
<1>5. \A q \in 1 .. Units(f) : h.data[p + q] = id
  <2> TAKE q \in 1 .. Units(f)
  <2>1. NextBlk(m, p) = p + Size(m, p)
    BY DEF NextBlk, Size
  <2>2. p + q \in Unit /\ p < p + q /\ p + q < NextBlk(m, p)
    BY <1>3, <1>4, <2>1 DEF Unit
  <2>3. m.data[p + q] = id
    BY DEF Owns
  <2> QED BY <1>2, <2>2, <2>3
<1>6. Holds(h, p, s)
  BY <1>2 DEF Owns, Holds
<1> QED BY <1>5, <1>6 DEF Owns

\* The books match again after a call for id: whatever changed was id's block or
\* the block it got, and the entry for id says what it got.
LEMMA Rebooked ==
  ASSUME NEW m, NEW B, NEW S, NEW F, Ledger(m, B, S, F), NEW id \in Ids,
         NEW h, Good(h, {}), NEW q \in Unit \union {Null}, NEW s \in Nat, NEW f \in Nat,
         NEW mine, Untouched(m, h, mine), mine \subseteq {B[id], q},
         q # Null => Owns(h, q, id, s, f),
         q = B[id] \/ q \notin AllocBlocks(m),
         q # B[id] => B[id] \notin AllocBlocks(h)
  PROVE  Ledger(h, [B EXCEPT ![id] = q], [S EXCEPT ![id] = s], [F EXCEPT ![id] = f])
<1> DEFINE B2 == [B EXCEPT ![id] = q]
           S2 == [S EXCEPT ![id] = s]
           F2 == [F EXCEPT ![id] = f]
<1>1. /\ B \in [Ids -> Unit \union {Null}] /\ S \in [Ids -> Nat] /\ F \in [Ids -> Nat]
      /\ Good(m, {})
      /\ \A p \in AllocBlocks(m) : \E o \in Ids : B[o] = p
      /\ \A o \in Ids : B[o] # Null => Owns(m, B[o], o, S[o], F[o])
      /\ \A a, b \in Ids : B[a] # Null /\ B[b] = B[a] => b = a
  BY DEF Ledger
<1>2. /\ B2 \in [Ids -> Unit \union {Null}] /\ S2 \in [Ids -> Nat] /\ F2 \in [Ids -> Nat]
      /\ B2[id] = q /\ S2[id] = s /\ F2[id] = f
      /\ \A o \in Ids : o # id => B2[o] = B[o] /\ S2[o] = S[o] /\ F2[o] = F[o]
  BY <1>1
<1> HIDE DEF B2, S2, F2
<1>3. ASSUME NEW o \in Ids, o # id, B[o] # Null
      PROVE  B[o] # q /\ Owns(h, B[o], o, S[o], F[o])
  <2>1. Owns(m, B[o], o, S[o], F[o]) /\ B[o] # B[id]
    BY <1>1, <1>3
  <2>2. B[o] \in AllocBlocks(m)
    BY <2>1 DEF Owns, Holds
  <2>3. B[o] # q /\ B[o] \notin mine
    BY <2>1, <2>2
  <2>4. S[o] \in Nat /\ F[o] \in Nat
    BY <1>1
  <2> QED BY <1>1, <2>1, <2>3, <2>4, OwnsStays
<1>4. ASSUME NEW p \in AllocBlocks(h)
      PROVE  \E o \in Ids : B2[o] = p
  <2>1. CASE p = q
    BY <1>2, <2>1
  <2>2. CASE p # q
    <3>1. p # B[id]
      BY <2>2
    <3>2. p \in AllocBlocks(m)
      BY <2>2, <3>1 DEF Untouched
    <3>3. PICK o \in Ids : B[o] = p
      BY <1>1, <3>2
    <3>4. B2[o] = p
      BY <1>2, <3>1, <3>3
    <3> QED BY <3>4
  <2> QED BY <2>1, <2>2
<1>5. ASSUME NEW o \in Ids, B2[o] # Null
      PROVE  Owns(h, B2[o], o, S2[o], F2[o])
  BY <1>2, <1>3, <1>5
<1>6. ASSUME NEW a \in Ids, NEW b \in Ids, B2[a] # Null, B2[b] = B2[a]
      PROVE  b = a
  BY <1>1, <1>2, <1>3, <1>6
<1> QED BY <1>2, <1>4, <1>5, <1>6 DEF Ledger, B2, S2, F2

\* A block the client fills: it owns what it wrote, and nobody else's changed.
LEMMA FillGood ==
  ASSUME NEW m, Good(m, {}), NEW p, NEW id \in Ids, NEW bytes \in Nat, Holds(m, p, bytes)
  PROVE  LET r == Fill(m, id, p, bytes) IN
         /\ Good(r, {}) /\ Untouched(m, r, {p}) /\ AllocBlocks(r) = AllocBlocks(m)
         /\ Owns(r, p, id, bytes, bytes)
<1> DEFINE k == Units(bytes)
           d == [x \in Unit |-> IF x > p /\ x <= p + k THEN id ELSE m.data[x]]
           r == Fill(m, id, p, bytes)
<1>1. r = [m EXCEPT !.data = d]
  BY DEF Fill
<1>2. /\ k \in Nat /\ p \in Unit /\ k < Size(m, p) /\ Size(m, p) \in Nat
      /\ \A i \in Nat : i < Size(m, p) => p + i \in Unit
      /\ m.data \in [Unit -> Ids \union {Junk}] /\ p \in AllocBlocks(m)
  BY PayloadRoom DEF Good, HeapRecord, Holds
<1> HIDE DEF k
<1>3. d \in [Unit -> Ids \union {Junk}]
  BY <1>2
<1>4. \A x \in Unit : x <= p \/ x > p + k => d[x] = m.data[x]
  BY <1>2 DEF Unit
<1>5. \A q \in 1 .. k : d[p + q] = id
  <2> TAKE q \in 1 .. k
  <2>1. p + q \in Unit /\ p + q > p /\ p + q <= p + k
    BY <1>2 DEF Unit
  <2> QED BY <2>1
<1> HIDE DEF d, r
<1>6. Good(r, {}) /\ SameTags(m, r) /\ r.data = d /\ Untouched(m, r, {p})
  BY <1>1, <1>2, <1>3, <1>4, PayloadWrite
<1>7. AllocBlocks(r) = AllocBlocks(m) /\ Size(r, p) = Size(m, p)
  BY <1>6, SameTagsSameBlocks
<1>8. Owns(r, p, id, bytes, bytes)
  BY <1>5, <1>6, <1>7 DEF Owns, Holds, k
<1> QED BY <1>6, <1>7, <1>8 DEF r

-----------------------------------------------------------------------------
(* The invariant.                                                          *)

\* The heap is in order and the client's books match it.
IInv == Ledger(heap, blocks, sizes, filled) /\ failed \in BOOLEAN

\* The books of a client that has no block match any heap without one.
LEMMA EmptyLedger ==
  ASSUME NEW h, Good(h, {}), AllocBlocks(h) = {}
  PROVE  Ledger(h, [id \in Ids |-> Null], [id \in Ids |-> 0], [id \in Ids |-> 0])
BY DEF Ledger

\* The invariant holds after the first mm_init.
LEMMA InitIInv == Init => IInv
<1> SUFFICES ASSUME Init PROVE IInv
  OBVIOUS
<1>1. Good(heap, {}) /\ AllocBlocks(heap) = {}
  BY MmInitGood DEF Init
<1> QED BY <1>1, EmptyLedger DEF Init, IInv

\* mm_malloc and the client's fill keep the invariant.
LEMMA MallocIInv ==
  ASSUME IInv, NEW id \in Ids, NEW bytes \in Requests, Malloc(id, bytes)
  PROVE  IInv'
<1>1. Good(heap, {}) /\ bytes \in Nat /\ blocks[id] = Null
  BY RequestAssumption DEF IInv, Ledger, Malloc
<1>2. PICK r \in MmMalloc(heap, bytes) :
        IF r.bp = Null
        THEN /\ heap' = r.heap
             /\ failed' = (bytes > 0)
             /\ UNCHANGED <<blocks, sizes, filled>>
        ELSE /\ heap' = Fill(r.heap, id, r.bp, bytes)
             /\ failed' = FALSE
             /\ Remember(id, r.bp, bytes, bytes)
  BY DEF Malloc
<1>3. /\ r.bp = Null => r.heap = heap
      /\ r.bp # Null =>
           /\ Good(r.heap, {}) /\ Untouched(heap, r.heap, {r.bp})
           /\ r.bp \notin AllocBlocks(heap) /\ Holds(r.heap, r.bp, bytes)
  BY <1>1, MmMallocGood
<1>4. CASE r.bp = Null
  <2>1. /\ heap' = heap /\ blocks' = blocks /\ sizes' = sizes /\ filled' = filled
        /\ failed' \in BOOLEAN
    BY <1>2, <1>3, <1>4
  <2> QED BY <2>1 DEF IInv
<1>5. CASE r.bp # Null
  <2> DEFINE q == r.bp
             m == r.heap
             h == Fill(m, id, q, bytes)
  <2>1. /\ Good(m, {}) /\ Untouched(heap, m, {q}) /\ q \notin AllocBlocks(heap)
        /\ Holds(m, q, bytes)
    BY <1>3, <1>5
  <2>2. /\ heap' = h /\ failed' = FALSE
        /\ blocks' = [blocks EXCEPT ![id] = q]
        /\ sizes' = [sizes EXCEPT ![id] = bytes]
        /\ filled' = [filled EXCEPT ![id] = bytes]
    BY <1>2, <1>5 DEF Remember
  <2> HIDE DEF q, m
  <2>3. /\ Good(h, {}) /\ Untouched(m, h, {q}) /\ AllocBlocks(h) = AllocBlocks(m)
        /\ Owns(h, q, id, bytes, bytes)
    BY <1>1, <2>1, FillGood
  <2> HIDE DEF h
  <2>4. Untouched(heap, h, {q})
    <3>1. Untouched(heap, h, {q} \union {q})
      BY <2>1, <2>3, UntouchedTrans
    <3>2. {q} \union {q} = {q}
      OBVIOUS
    <3> QED BY <3>1, <3>2
  <2>5. q \in Unit /\ blocks[id] \notin AllocBlocks(h)
    <3>1. q \in Unit
      BY <2>1, Types DEF Holds, Good, AllocBlocks
    <3>2. Null \notin AllocBlocks(h)
      BY <2>3, Types DEF Good, AllocBlocks, Unit, Null
    <3> QED BY <1>1, <3>1, <3>2
  <2>6. Ledger(h, blocks', sizes', filled')
    <3> DEFINE mine == {q}
    <3>1. /\ Ledger(heap, blocks, sizes, filled) /\ q \in Unit \union {Null}
          /\ mine \subseteq {blocks[id], q} /\ Untouched(heap, h, mine)
      BY <2>4, <2>5 DEF IInv
    <3> HIDE DEF mine
    <3>2. Ledger(h, [blocks EXCEPT ![id] = q], [sizes EXCEPT ![id] = bytes],
                    [filled EXCEPT ![id] = bytes])
      BY <1>1, <2>1, <2>3, <2>5, <3>1, Rebooked
    <3> QED BY <2>2, <3>2
  <2> QED BY <2>2, <2>6 DEF IInv
<1> QED BY <1>4, <1>5

\* mm_free keeps the invariant.
LEMMA FreeIInv ==
  ASSUME IInv, NEW id \in Ids, Free(id)
  PROVE  IInv'
<1> DEFINE p == blocks[id]
           h == MmFree(heap, p)
           mine == {p}
<1>1. /\ Ledger(heap, blocks, sizes, filled) /\ Good(heap, {}) /\ p \in AllocBlocks(heap)
  BY DEF IInv, Ledger, Free, Owns, Holds
<1>2. /\ heap' = h /\ failed' = FALSE
      /\ blocks' = [blocks EXCEPT ![id] = Null]
      /\ sizes' = [sizes EXCEPT ![id] = 0]
      /\ filled' = [filled EXCEPT ![id] = 0]
  BY DEF Free, Remember
<1>3. Good(h, {}) /\ Untouched(heap, h, mine) /\ p \notin AllocBlocks(h)
  BY <1>1, MmFreeGood
<1>4. Null \notin AllocBlocks(heap) /\ mine \subseteq {blocks[id], Null}
  BY <1>1, Types DEF Good, AllocBlocks, Unit, Null
<1> HIDE DEF h, mine
<1>5. Ledger(h, [blocks EXCEPT ![id] = Null], [sizes EXCEPT ![id] = 0],
                [filled EXCEPT ![id] = 0])
  <2> DEFINE q == Null
             none == 0
  <2>1. q \in Unit \union {Null} /\ q = Null /\ none \in Nat
    OBVIOUS
  <2> HIDE DEF q, none
  <2>2. Ledger(h, [blocks EXCEPT ![id] = q], [sizes EXCEPT ![id] = none],
                  [filled EXCEPT ![id] = none])
    BY <1>1, <1>3, <1>4, <2>1, Rebooked
  <2> QED BY <2>2 DEF q, none
<1> QED BY <1>2, <1>5 DEF IInv

\* What the client may still count on after a realloc was written before it, and
\* is in the bytes the allocator keeps.
LEMMA ResizedOwns ==
  ASSUME NEW m, Good(m, {}), NEW p, NEW id, NEW s \in Nat, NEW f \in Nat, Owns(m, p, id, s, f),
         NEW bytes \in Nat, NEW h, NEW q, Resized(m, p, bytes, h, q)
  PROVE  Smaller(f, bytes) \in Nat /\ Owns(h, q, id, bytes, Smaller(f, bytes))
<1> DEFINE w == Smaller(f, bytes)
           c == Common(m, p, bytes)
<1>1. p \in AllocBlocks(m) /\ DSize * Size(m, p) - DSize >= s /\ f <= s
  BY DEF Owns, Holds
<1>2. c \in Nat
  BY <1>1, CommonBound
<1>3. w \in Nat /\ w <= f /\ w <= bytes
  BY DEF Smaller
<1>4. w <= c
  <2>1. Size(m, p) \in Nat
    BY <1>1, Types DEF Good, AllocBlocks, Size
  <2> QED BY <1>1, <1>3, <2>1 DEF Common, Smaller, DSize
<1> HIDE DEF w, c
<1>5. /\ Units(w) \in Nat /\ Units(f) \in Nat /\ Units(c) \in Nat
      /\ Units(w) <= Units(f) /\ Units(w) <= Units(c)
  BY <1>2, <1>3, <1>4, UnitsBound, UnitsMono
<1>6. \A i \in 1 .. Units(w) : h.data[q + i] = id
  <2> TAKE i \in 1 .. Units(w)
  <2>1. i \in Nat /\ 0 < i /\ i <= Units(c) /\ i \in 1 .. Units(f)
    BY <1>5
  <2>2. m.data[p + i] = id
    BY <2>1 DEF Owns
  <2>3. h.data[q + i] = m.data[p + i]
    BY <2>1 DEF Resized, SamePrefix, c
  <2> QED BY <2>2, <2>3
<1>7. Holds(h, q, bytes)
  BY DEF Resized
<1> QED BY <1>3, <1>6, <1>7 DEF Owns, w

\* mm_realloc keeps the invariant.
LEMMA ReallocIInv ==
  ASSUME IInv, NEW id \in Ids, NEW bytes \in Requests, Realloc(id, bytes)
  PROVE  IInv'
<1> DEFINE p == blocks[id]
<1>1. /\ Ledger(heap, blocks, sizes, filled) /\ Good(heap, {}) /\ p \in AllocBlocks(heap)
      /\ Owns(heap, p, id, sizes[id], filled[id]) /\ bytes \in Nat
      /\ sizes[id] \in Nat /\ filled[id] \in Nat
  BY RequestAssumption DEF IInv, Ledger, Realloc, Owns, Holds
<1>2. PICK r \in MmRealloc(heap, p, bytes) :
       /\ heap' = r.heap
       /\ failed' = (r.bp = Null /\ bytes > 0)
       /\ IF r.bp = Null
          THEN IF bytes = 0 THEN Remember(id, Null, 0, 0)
               ELSE UNCHANGED <<blocks, sizes, filled>>
          ELSE Remember(id, r.bp, bytes, Smaller(filled[id], bytes))
  BY DEF Realloc
<1>3. /\ bytes = 0 =>
              /\ r.bp = Null /\ Good(r.heap, {}) /\ Untouched(heap, r.heap, {p})
              /\ p \notin AllocBlocks(r.heap)
      /\ bytes # 0 /\ r.bp = Null => r.heap = heap
      /\ bytes # 0 /\ r.bp # Null => Resized(heap, p, bytes, r.heap, r.bp)
  BY <1>1, MmReallocGood
<1>4. failed' \in BOOLEAN
  BY <1>2
<1>5. Null \notin AllocBlocks(heap)
  BY <1>1, Types DEF Good, AllocBlocks, Unit, Null
<1>6. CASE bytes = 0
  <2> DEFINE h == r.heap
             mine == {p}
             q == Null
             none == 0
  <2>1. Good(h, {}) /\ Untouched(heap, h, mine) /\ p \notin AllocBlocks(h)
    BY <1>3, <1>6
  <2>2. q \in Unit \union {Null} /\ q = Null /\ none \in Nat /\ mine \subseteq {blocks[id], q}
    OBVIOUS
  <2>3. /\ heap' = h
        /\ blocks' = [blocks EXCEPT ![id] = q]
        /\ sizes' = [sizes EXCEPT ![id] = none]
        /\ filled' = [filled EXCEPT ![id] = none]
    BY <1>2, <1>3, <1>6 DEF Remember
  <2> HIDE DEF h, mine, q, none
  <2>4. Ledger(h, [blocks EXCEPT ![id] = q], [sizes EXCEPT ![id] = none],
                  [filled EXCEPT ![id] = none])
    BY <1>1, <1>5, <2>1, <2>2, Rebooked
  <2> QED BY <1>4, <2>3, <2>4 DEF IInv
<1>7. CASE bytes # 0 /\ r.bp = Null
  <2>1. heap' = heap /\ blocks' = blocks /\ sizes' = sizes /\ filled' = filled
    BY <1>2, <1>3, <1>7
  <2> QED BY <1>4, <2>1 DEF IInv
<1>8. CASE bytes # 0 /\ r.bp # Null
  <2> DEFINE h == r.heap
             q == r.bp
             w == Smaller(filled[id], bytes)
  <2>1. Resized(heap, p, bytes, h, q)
    BY <1>3, <1>8
  <2>2. /\ heap' = h
        /\ blocks' = [blocks EXCEPT ![id] = q]
        /\ sizes' = [sizes EXCEPT ![id] = bytes]
        /\ filled' = [filled EXCEPT ![id] = w]
    BY <1>2, <1>8 DEF Remember
  <2> HIDE DEF h, q, p
  <2>3. w \in Nat /\ Owns(h, q, id, bytes, w)
    BY <1>1, <2>1, ResizedOwns
  <2> HIDE DEF w
  <2>4. /\ Good(h, {}) /\ Holds(h, q, bytes)
        /\ \/ q = p /\ Untouched(heap, h, {p})
           \/ q \notin AllocBlocks(heap) /\ p \notin AllocBlocks(h) /\ Untouched(heap, h, {p, q})
    BY <2>1 DEF Resized
  <2>5. q \in Unit \union {Null}
    BY <2>4, Types DEF Good, Holds, AllocBlocks
  <2>6. PICK mine : /\ Untouched(heap, h, mine) /\ mine \subseteq {p, q}
                    /\ q = p \/ q \notin AllocBlocks(heap)
                    /\ q # p => p \notin AllocBlocks(h)
    BY <2>4
  <2>7. Ledger(h, [blocks EXCEPT ![id] = q], [sizes EXCEPT ![id] = bytes],
                  [filled EXCEPT ![id] = w])
    BY <1>1, <2>3, <2>4, <2>5, <2>6, Rebooked DEF p
  <2> QED BY <1>4, <2>2, <2>7 DEF IInv
<1> QED BY <1>6, <1>7, <1>8

\* The client's second fill keeps the invariant.
LEMMA RefillIInv ==
  ASSUME IInv, NEW id \in Ids, Refill(id)
  PROVE  IInv'
<1> DEFINE p == blocks[id]
           s == sizes[id]
           h == Fill(heap, id, p, s)
           mine == {p}
<1>1. /\ Ledger(heap, blocks, sizes, filled) /\ Good(heap, {}) /\ Holds(heap, p, s) /\ s \in Nat
      /\ blocks \in [Ids -> Unit \union {Null}] /\ sizes \in [Ids -> Nat]
      /\ p \in Unit \union {Null}
  BY DEF IInv, Ledger, Refill, Owns
<1>2. /\ heap' = h /\ blocks' = blocks /\ sizes' = sizes /\ failed' = failed
      /\ filled' = [filled EXCEPT ![id] = s]
  BY DEF Refill
<1>3. /\ Good(h, {}) /\ Untouched(heap, h, mine) /\ Owns(h, p, id, s, s)
  BY <1>1, FillGood
<1>4. mine \subseteq {blocks[id], p} /\ p = blocks[id]
  OBVIOUS
<1>5. /\ [blocks EXCEPT ![id] = p] = blocks
      /\ [sizes EXCEPT ![id] = s] = sizes
  BY <1>1
<1> HIDE DEF h, mine, p, s
<1>6. Ledger(h, [blocks EXCEPT ![id] = p], [sizes EXCEPT ![id] = s],
                [filled EXCEPT ![id] = s])
  BY <1>1, <1>3, <1>4, Rebooked
<1> QED BY <1>2, <1>5, <1>6 DEF IInv

\* A new trace on the old memory keeps the invariant.
LEMMA RestartIInv ==
  ASSUME IInv, Restart
  PROVE  IInv'
<1> DEFINE x == heap.only_for_16
           h == MmInit(x)
<1>1. x \in Unit \union {Null}
  BY DEF IInv, Ledger, Good, HeapRecord
<1>2. /\ heap' = h /\ failed' = FALSE
      /\ blocks' = [id \in Ids |-> Null]
      /\ sizes' = [id \in Ids |-> 0]
      /\ filled' = [id \in Ids |-> 0]
  BY DEF Restart
<1> HIDE DEF x
<1>3. Good(h, {}) /\ AllocBlocks(h) = {}
  BY <1>1, MmInitGood
<1> HIDE DEF h
<1> QED BY <1>2, <1>3, EmptyLedger DEF IInv

\* Every step keeps the invariant.
LEMMA NextIInv == IInv /\ [Next]_vars => IInv'
<1> SUFFICES ASSUME IInv, [Next]_vars PROVE IInv'
  OBVIOUS
<1>1. ASSUME NEW id \in Ids, NEW bytes \in Requests, Malloc(id, bytes) PROVE IInv'
  BY <1>1, MallocIInv
<1>2. ASSUME NEW id \in Ids, NEW bytes \in Requests, Realloc(id, bytes) PROVE IInv'
  BY <1>2, ReallocIInv
<1>3. ASSUME NEW id \in Ids, Free(id) PROVE IInv'
  BY <1>3, FreeIInv
<1>4. ASSUME NEW id \in Ids, Refill(id) PROVE IInv'
  BY <1>4, RefillIInv
<1>5. CASE Restart
  BY <1>5, RestartIInv
<1>6. CASE UNCHANGED vars
  BY <1>6 DEF IInv, vars
<1> QED BY <1>1, <1>2, <1>3, <1>4, <1>5, <1>6 DEF Next

\* The invariant holds in every reachable state.
LEMMA AlwaysIInv == Spec => []IInv
<1>1. Init => IInv
  BY InitIInv
<1>2. IInv /\ [Next]_vars => IInv'
  BY NextIInv
<1> QED BY <1>1, <1>2, PTL DEF Spec

-----------------------------------------------------------------------------
(* The properties the runs check.                                          *)

\* Every variable keeps its type: no tag word, list entry or address the calls
\* compute leaves the heap that mem_init reserved.
THEOREM TypeCorrect == Spec => []TypeOK
<1>1. IInv => TypeOK
  BY DEF IInv, Ledger, Good, TypeOK
<1> QED BY <1>1, AlwaysIInv, PTL

\* However the calls split, merge, grow and reset, headers, footers and the
\* epilogue always cut the heap into whole blocks, read from either end.
THEOREM AlwaysTiled == Spec => []HeapTiled
<1>1. IInv => HeapTiled
  BY DEF IInv, Ledger, Good, HeapTiled
<1> QED BY <1>1, AlwaysIInv, PTL

\* Between calls the segregated lists and the tree index exactly the free blocks,
\* each under its size: none is lost, none is stale.
THEOREM AlwaysIndexed == Spec => []FreeIndexExact
<1>1. IInv => FreeIndexExact
  BY DEF IInv, Ledger, Good, FreeIndexExact
<1> QED BY <1>1, AlwaysIInv, PTL

\* Each allocated block belongs to one id, and holds what that id asked for:
\* mm_malloc and mm_realloc hand nothing out twice and leak nothing.
THEOREM AlwaysOwnedOnce == Spec => []OwnedOnce
<1>1. IInv => OwnedOnce
  <2> SUFFICES ASSUME IInv PROVE OwnedOnce
    OBVIOUS
  <2>1. /\ \A p \in AllocBlocks(heap) : \E id \in Ids : blocks[id] = p
        /\ \A id \in Ids : blocks[id] # Null => Owns(heap, blocks[id], id, sizes[id], filled[id])
        /\ \A id, other \in Ids : blocks[id] # Null /\ blocks[other] = blocks[id] => other = id
    BY DEF IInv, Ledger
  <2> QED BY <2>1 DEF OwnedOnce, Live, Owns, Holds
<1> QED BY <1>1, AlwaysIInv, PTL

\* What a client wrote to its block stays there through any calls, its own
\* reallocs included, up to the smaller size.
THEOREM AlwaysDataKept == Spec => []DataKept
<1>1. IInv => DataKept
  BY DEF IInv, Ledger, Owns, DataKept, Live
<1> QED BY <1>1, AlwaysIInv, PTL

-----------------------------------------------------------------------------
(* The refinement: the allocator of Mm implements the abstract one of      *)
(* Allocator, for every value of the constants.                            *)

\* Two blocks of a heap in order, allocated both: the bytes each can hold lie in
\* the heap, and before or after those of the other.
LEMMA BlocksApart ==
  ASSUME NEW m, Good(m, {}), NEW p, NEW s \in Nat, Holds(m, p, s)
  PROVE  /\ p \in Unit /\ DSize * p + s <= DSize * MaxHeap
         /\ \A q : \A k \in Nat : Holds(m, q, k) /\ q # p =>
              DSize * p + s <= DSize * q \/ DSize * q + k <= DSize * p
<1>1. m \in HeapRecord /\ Tiled(m)
  BY DEF Good
<1>2. ASSUME NEW a, NEW k \in Nat, Holds(m, a, k)
      PROVE  /\ a \in Starts(m) /\ a \in Unit /\ Size(m, a) \in Nat
             /\ NextBlk(m, a) = a + Size(m, a) /\ NextBlk(m, a) \in Unit
             /\ 8 * a + k <= 8 * NextBlk(m, a) - 8
  <2>1. a \in Starts(m) /\ a # 1 /\ 8 * Size(m, a) - 8 >= k
    BY <1>2 DEF Holds, AllocBlocks, DSize
  <2>2. /\ a \in Unit /\ Size(m, a) \in Nat
        /\ NextBlk(m, a) \in Unit /\ NextBlk(m, a) = a + Size(m, a)
    BY <1>1, <2>1, BlockEnds
  <2>3. 8 * NextBlk(m, a) = 8 * a + 8 * Size(m, a)
    BY <2>2 DEF Unit
  <2> QED BY <2>1, <2>2, <2>3 DEF Unit
<1>3. ASSUME NEW a \in Starts(m), NEW b \in Starts(m), a < b
      PROVE  NextBlk(m, a) <= b
  <2>1. a \in Unit /\ b \in Unit /\ m.hdr[b].size > 0 /\ NextBlk(m, a) \in Unit
    BY <1>1, <1>3, Types DEF Tiled, TiledForward
  <2>2. a < b /\ b < NextBlk(m, a) => m.hdr[b] = NoTag
    BY <1>1, <2>1 DEF Tiled, TiledForward
  <2>3. ~(b < NextBlk(m, a))
    BY <1>3, <2>1, <2>2 DEF NoTag
  <2> QED BY <2>1, <2>3 DEF Unit
<1>4. p \in Unit /\ DSize * p + s <= DSize * MaxHeap
  <2>1. MaxHeap \in Nat
    BY HeapAssumption
  <2> QED BY <1>2, <2>1 DEF Unit, DSize
<1>5. ASSUME NEW q, NEW k \in Nat, Holds(m, q, k), q # p
      PROVE  DSize * p + s <= DSize * q \/ DSize * q + k <= DSize * p
  <2>1. /\ p \in Starts(m) /\ p \in Unit /\ NextBlk(m, p) \in Unit
        /\ 8 * p + s <= 8 * NextBlk(m, p) - 8
    BY <1>2
  <2>2. /\ q \in Starts(m) /\ q \in Unit /\ NextBlk(m, q) \in Unit
        /\ 8 * q + k <= 8 * NextBlk(m, q) - 8
    BY <1>2, <1>5
  <2>3. CASE p < q
    BY <1>3, <2>1, <2>2, <2>3 DEF Unit, DSize
  <2>4. CASE q < p
    BY <1>3, <2>1, <2>2, <2>4 DEF Unit, DSize
  <2> QED BY <1>5, <2>1, <2>2, <2>3, <2>4 DEF Unit
<1> QED BY <1>4, <1>5

\* While the books match, all a client wrote is kept.
LEMMA AllKept ==
  ASSUME IInv, NEW id \in Ids, blocks[id] # Null
  PROVE  Kept(id) = filled[id]
BY DEF IInv, Ledger, Owns, Kept

\* The variables of the abstract allocator.
At  == [id \in Ids |-> DSize * blocks[id]]
All == [id \in Ids |-> IF blocks[id] = Null THEN 0 ELSE Kept(id)]

\* A new entry in the client's books is an abstract Set.
LEMMA BooksSet ==
  ASSUME IInv, IInv', NEW id \in Ids, NEW p \in Unit \union {Null}, NEW s \in Nat,
         NEW w \in Nat, p = Null => w = 0,
         blocks' = [blocks EXCEPT ![id] = p], sizes' = [sizes EXCEPT ![id] = s],
         filled' = [filled EXCEPT ![id] = w]
  PROVE  Abstract!Set(id, DSize * p, s, w)
<1>1. /\ blocks \in [Ids -> Unit \union {Null}] /\ filled \in [Ids -> Nat]
      /\ blocks' \in [Ids -> Unit \union {Null}] /\ filled' \in [Ids -> Nat]
  BY DEF IInv, Ledger
<1>2. At' = [At EXCEPT ![id] = DSize * p]
  <2>1. \A o \in Ids : DSize * blocks'[o] = IF o = id THEN DSize * p ELSE DSize * blocks[o]
    BY <1>1
  <2> QED BY <2>1 DEF At
<1>3. All = [o \in Ids |-> IF blocks[o] = Null THEN 0 ELSE filled[o]]
  BY AllKept DEF All
<1>4. All' = [o \in Ids |-> IF blocks'[o] = Null THEN 0 ELSE filled'[o]]
  <2>1. \A o \in Ids : blocks'[o] # Null => Kept(o)' = filled'[o]
    BY DEF IInv, Ledger, Owns, Kept
  <2> QED BY <2>1 DEF All
<1>5. All' = [All EXCEPT ![id] = w]
  <2>1. \A o \in Ids : (IF blocks'[o] = Null THEN 0 ELSE filled'[o])
                       = IF o = id THEN w ELSE IF blocks[o] = Null THEN 0 ELSE filled[o]
    BY <1>1
  <2> QED BY <1>3, <1>4, <2>1
<1> QED BY <1>2, <1>5 DEF Abstract!Set, At, All

\* Books that stay as they are: the abstract store stays.
LEMMA BooksSame ==
  ASSUME IInv, IInv', blocks' = blocks, sizes' = sizes, filled' = filled
  PROVE  UNCHANGED Abstract!store
<1>1. All = [o \in Ids |-> IF blocks[o] = Null THEN 0 ELSE filled[o]]
  BY AllKept DEF All
<1>2. All' = [o \in Ids |-> IF blocks'[o] = Null THEN 0 ELSE filled'[o]]
  <2>1. \A o \in Ids : blocks'[o] # Null => Kept(o)' = filled'[o]
    BY DEF IInv, Ledger, Owns, Kept
  <2> QED BY <2>1 DEF All
<1>3. All' = All /\ At' = At
  BY <1>1, <1>2 DEF At
<1> QED BY <1>3 DEF Abstract!store, At, All

\* What a client is given after a call is clear of what others had before it.
LEMMA GivenClear ==
  ASSUME IInv, IInv', NEW id \in Ids, NEW p, p # Null, NEW s \in Nat,
         blocks' = [blocks EXCEPT ![id] = p], sizes' = [sizes EXCEPT ![id] = s]
  PROVE  DSize * p \in Abstract!Aligned /\ Abstract!Clear(id, DSize * p, s)
<1>1. /\ blocks \in [Ids -> Unit \union {Null}] /\ sizes \in [Ids -> Nat]
      /\ blocks'[id] = p /\ sizes'[id] = s
      /\ \A o \in Ids \ {id} : blocks'[o] = blocks[o] /\ sizes'[o] = sizes[o]
  BY DEF IInv, Ledger
<1>2. Good(heap', {}) /\ Holds(heap', p, s)
  BY <1>1 DEF IInv, Ledger, Owns
<1>3. ASSUME NEW o \in Ids \ {id}, blocks[o] # Null
      PROVE  Holds(heap', blocks[o], sizes[o]) /\ blocks[o] # p
  BY <1>1, <1>3 DEF IInv, Ledger, Owns
<1> DEFINE m == heap'
<1> HIDE DEF m
<1>4. /\ p \in Unit /\ DSize * p + s <= DSize * MaxHeap
      /\ \A q : \A k \in Nat : Holds(m, q, k) /\ q # p =>
           DSize * p + s <= DSize * q \/ DSize * q + k <= DSize * p
  BY <1>2, BlocksApart DEF m
<1>5. ASSUME NEW o \in Ids \ {id}, DSize * blocks[o] # 0
      PROVE  DSize * p + s <= DSize * blocks[o] \/ DSize * blocks[o] + sizes[o] <= DSize * p
  <2>1. blocks[o] # Null
    BY <1>5 DEF Null, DSize
  <2>2. Holds(m, blocks[o], sizes[o]) /\ blocks[o] # p /\ sizes[o] \in Nat
    BY <1>1, <1>3, <2>1 DEF m
  <2> QED BY <1>4, <2>2
<1>6. (DSize * p) % DSize = 0 /\ DSize * p > 0
  BY <1>4 DEF DSize, Unit
<1>7. DSize * p \in Abstract!Aligned
  <2>1. MaxHeap \in Nat /\ (8 * MaxHeap) \div 8 = MaxHeap
    BY HeapAssumption
  <2> QED BY <1>4, <2>1 DEF Abstract!Aligned, Unit, DSize
<1>8. \A o \in Ids \ {id} : At[o] = DSize * blocks[o]
  BY DEF At
<1> QED BY <1>4, <1>5, <1>6, <1>7 DEF Abstract!Clear

\* The books of a step that starts over.
LEMMA BooksReset ==
  ASSUME IInv, IInv', Restart
  PROVE  Abstract!Reset
<1>1. At' = [id \in Ids |-> 0]
  <2>1. \A id \in Ids : DSize * blocks'[id] = 0
    BY DEF Restart, Null, DSize
  <2> QED BY <2>1 DEF At
<1>2. All' = [id \in Ids |-> 0]
  BY DEF Restart, All
<1> QED BY <1>1, <1>2 DEF Abstract!Reset, Restart, At, All

\* The first state is the abstract allocator's.
LEMMA InitRefines == Init => Abstract!Init
<1> SUFFICES ASSUME Init PROVE Abstract!Init
  OBVIOUS
<1>1. \A id \in Ids : DSize * blocks[id] = 0
  BY DEF Init, Null, DSize
<1> QED BY <1>1 DEF Init, Abstract!Init

\* Every step is a step of the abstract allocator, or leaves its store alone.
LEMMA NextRefines ==
  IInv /\ IInv' /\ [Next]_vars => [Abstract!Next]_(Abstract!store)
<1> SUFFICES ASSUME IInv, IInv', [Next]_vars
             PROVE  Abstract!Next \/ UNCHANGED Abstract!store
  OBVIOUS
<1>1. \A id \in Ids : /\ DSize * blocks[id] = 0 <=> blocks[id] = Null
                      /\ blocks'[id] \in Unit \union {Null}
                      /\ blocks[id] \in Unit \union {Null}
                      /\ filled[id] \in Nat
  BY DEF IInv, Ledger, Unit, Null, DSize
<1>2. Requests \subseteq Nat
  BY RequestAssumption
<1>3. ASSUME NEW id \in Ids, NEW bytes \in Requests, Malloc(id, bytes)
      PROVE  Abstract!Next \/ UNCHANGED Abstract!store
  <2>1. PICK r \in MmMalloc(heap, bytes) :
          IF r.bp = Null
          THEN heap' = r.heap /\ UNCHANGED <<blocks, sizes, filled>>
          ELSE Remember(id, r.bp, bytes, bytes)
    BY <1>3 DEF Malloc
  <2>2. CASE r.bp = Null
    <3>1. blocks' = blocks /\ sizes' = sizes /\ filled' = filled
      BY <2>1, <2>2
    <3> QED BY <3>1, BooksSame
  <2>3. CASE r.bp # Null
    <3> DEFINE p == r.bp
    <3>1. /\ blocks' = [blocks EXCEPT ![id] = p] /\ sizes' = [sizes EXCEPT ![id] = bytes]
          /\ filled' = [filled EXCEPT ![id] = bytes]
      BY <2>1, <2>3 DEF Remember
    <3>2. p # Null /\ bytes \in Nat
      BY <1>2, <2>3
    <3> HIDE DEF p
    <3>3. p \in Unit \union {Null}
      BY <1>1, <3>1, <3>2 DEF IInv, Ledger
    <3>4. Abstract!Set(id, DSize * p, bytes, bytes)
      BY <3>1, <3>2, <3>3, BooksSet
    <3>5. DSize * p \in Abstract!Aligned /\ Abstract!Clear(id, DSize * p, bytes)
      BY <3>1, <3>2, GivenClear
    <3>6. At[id] = 0
      BY <1>1, <1>3 DEF At, Malloc
    <3>7. Abstract!Allocate(id, bytes)
      BY <3>4, <3>5, <3>6 DEF Abstract!Allocate, At
    <3> QED BY <3>7 DEF Abstract!Next
  <2> QED BY <2>2, <2>3
<1>4. ASSUME NEW id \in Ids, Free(id)
      PROVE  Abstract!Next
  <2> DEFINE p == Null
             s == 0
  <2>1. /\ blocks' = [blocks EXCEPT ![id] = p] /\ sizes' = [sizes EXCEPT ![id] = s]
        /\ filled' = [filled EXCEPT ![id] = s]
    BY <1>4 DEF Free, Remember
  <2>2. p \in Unit \union {Null} /\ s \in Nat /\ s = 0
    OBVIOUS
  <2>3. DSize * p = 0
    BY DEF Null, DSize
  <2> HIDE DEF p, s
  <2>4. Abstract!Set(id, DSize * p, s, s)
    BY <2>1, <2>2, BooksSet
  <2>5. Abstract!Set(id, 0, 0, 0)
    BY <2>2, <2>3, <2>4
  <2>6. At[id] # 0
    BY <1>1, <1>4 DEF At, Free
  <2>7. Abstract!Release(id)
    BY <2>5, <2>6 DEF Abstract!Release, At
  <2> QED BY <2>7 DEF Abstract!Next
<1>5. ASSUME NEW id \in Ids, NEW bytes \in Requests, Realloc(id, bytes)
      PROVE  Abstract!Next \/ UNCHANGED Abstract!store
  <2>1. PICK r \in MmRealloc(heap, blocks[id], bytes) :
          IF r.bp = Null
          THEN IF bytes = 0 THEN Remember(id, Null, 0, 0)
               ELSE UNCHANGED <<blocks, sizes, filled>>
          ELSE Remember(id, r.bp, bytes, Smaller(filled[id], bytes))
    BY <1>5 DEF Realloc
  <2>2. At[id] # 0
    BY <1>1, <1>5 DEF At, Realloc
  <2>3. CASE r.bp = Null /\ bytes = 0
    <3> DEFINE p == Null
               s == 0
    <3>1. /\ blocks' = [blocks EXCEPT ![id] = p] /\ sizes' = [sizes EXCEPT ![id] = s]
          /\ filled' = [filled EXCEPT ![id] = s]
      BY <2>1, <2>3 DEF Remember
    <3>2. p \in Unit \union {Null} /\ s \in Nat /\ s = 0 /\ DSize * p = 0
      BY DEF Null, DSize
    <3> HIDE DEF p, s
    <3>3. Abstract!Set(id, DSize * p, s, s)
      BY <3>1, <3>2, BooksSet
    <3>4. Abstract!Release(id)
      BY <2>2, <3>2, <3>3 DEF Abstract!Release, At
    <3> QED BY <3>4 DEF Abstract!Next
  <2>4. CASE r.bp = Null /\ bytes # 0
    <3>1. blocks' = blocks /\ sizes' = sizes /\ filled' = filled
      BY <2>1, <2>4
    <3> QED BY <3>1, BooksSame
  <2>5. CASE r.bp # Null
    <3> DEFINE p == r.bp
    <3>1. p # Null /\ bytes \in Nat
      BY <1>2, <2>5
    <3>2. PICK w \in Nat : w = Smaller(filled[id], bytes)
      BY <1>1, <3>1 DEF Smaller
    <3>3. /\ blocks' = [blocks EXCEPT ![id] = p] /\ sizes' = [sizes EXCEPT ![id] = bytes]
          /\ filled' = [filled EXCEPT ![id] = w]
      BY <2>1, <2>5, <3>2 DEF Remember
    <3>4. All[id] = filled[id]
      BY <1>5, AllKept DEF All, Realloc
    <3>5. w = IF All[id] < bytes THEN All[id] ELSE bytes
      BY <3>2, <3>4 DEF Smaller
    <3> HIDE DEF p
    <3>6. p \in Unit \union {Null}
      BY <1>1, <3>1, <3>3 DEF IInv, Ledger
    <3>7. Abstract!Set(id, DSize * p, bytes, w)
      BY <3>1, <3>2, <3>3, <3>6, BooksSet
    <3>8. DSize * p \in Abstract!Aligned /\ Abstract!Clear(id, DSize * p, bytes)
      BY <3>1, <3>3, GivenClear
    <3>9. Abstract!Resize(id, bytes)
      BY <2>2, <3>5, <3>7, <3>8 DEF Abstract!Resize, Abstract!Set, At, All
    <3> QED BY <3>9 DEF Abstract!Next
  <2> QED BY <2>3, <2>4, <2>5
<1>6. ASSUME NEW id \in Ids, Refill(id)
      PROVE  Abstract!Next
  <2>1. PICK p \in Unit, s \in Nat : p = blocks[id] /\ s = sizes[id]
    BY <1>1, <1>6 DEF Refill, IInv, Ledger
  <2>2. /\ blocks' = [blocks EXCEPT ![id] = p] /\ sizes' = [sizes EXCEPT ![id] = s]
        /\ filled' = [filled EXCEPT ![id] = s]
    BY <1>6, <2>1 DEF Refill, IInv, Ledger
  <2>3. At[id] = DSize * p /\ DSize * p # 0 /\ p # Null
    BY <2>1 DEF At, Unit, Null, DSize
  <2>4. Abstract!Set(id, DSize * p, s, s)
    BY <2>1, <2>2, <2>3, BooksSet
  <2>5. Abstract!Set(id, At[id], sizes[id], sizes[id])
    BY <2>1, <2>3, <2>4 DEF Abstract!Set
  <2>6. Abstract!Write(id)
    BY <2>3, <2>5 DEF Abstract!Write, At
  <2> QED BY <2>6 DEF Abstract!Next
<1>7. CASE Restart
  BY <1>7, BooksReset DEF Abstract!Next
<1>8. CASE UNCHANGED vars
  <2>1. blocks' = blocks /\ sizes' = sizes /\ filled' = filled
    BY <1>8 DEF vars
  <2> QED BY <2>1, BooksSame
<1> QED BY <1>3, <1>4, <1>5, <1>6, <1>7, <1>8 DEF Next

\* The allocator implements the abstract one: seen from the client, a call of
\* mm.c changes its own block and no other, gives aligned bytes inside the heap
\* and clear of every live payload, and a refused call changes nothing.
THEOREM Refinement == Spec => ImplementsAllocator
<1>1. Init => Abstract!Init
  BY InitRefines
<1>2. IInv /\ IInv' /\ [Next]_vars => [Abstract!Next]_(Abstract!store)
  BY NextRefines
<1> QED BY <1>1, <1>2, AlwaysIInv, PTL DEF Spec, Abstract!Spec, ImplementsAllocator

=============================================================================
