--------------------------- MODULE MdriverProofs ---------------------------
(***************************************************************************)
(* Proofs about Mdriver: for all consistent traces, any number of them and *)
(* any answers of the allocator, the tester's books agree with what the    *)
(* allocator owes, and an allocator that is right is not rejected.         *)
(***************************************************************************)
EXTENDS Mdriver, FiniteSetTheorems, SequenceTheorems, TLAPS

-----------------------------------------------------------------------------
(* The ids that are live.                                                  *)

\* Before the first request nothing is live.
LEMMA LiveFirst == ASSUME NEW tr PROVE LiveBefore(tr, 1) = {}
BY DEF LiveBefore

\* The block that the request at i allocated is live before the one at k.
Since(tr, k, i) ==
  tr[i].type = "alloc" /\ \A h \in i + 1 .. k - 1 : ~(tr[h].type = "free" /\ tr[h].id = tr[i].id)

\* What a request does to the ids that are live.
LEMMA LiveAfter ==
  ASSUME NEW tr, NEW k \in Nat \ {0}
  PROVE  /\ tr[k].type = "alloc" => LiveBefore(tr, k + 1) = LiveBefore(tr, k) \union {tr[k].id}
         /\ tr[k].type = "free" => LiveBefore(tr, k + 1) = LiveBefore(tr, k) \ {tr[k].id}
         /\ tr[k].type = "realloc" => LiveBefore(tr, k + 1) = LiveBefore(tr, k)
<1>1. \A n \in Nat \ {0} : \A x : x \in LiveBefore(tr, n) <=> \E i \in 1 .. n - 1 : Since(tr, n, i) /\ tr[i].id = x
  BY DEF LiveBefore, Since
<1>2. ASSUME NEW i \in 1 .. k - 1
      PROVE  Since(tr, k + 1, i) <=> Since(tr, k, i) /\ ~(tr[k].type = "free" /\ tr[k].id = tr[i].id)
  <2>1. \A h : h \in i + 1 .. (k + 1) - 1 <=> h \in i + 1 .. k - 1 \/ h = k
    OBVIOUS
  <2> QED
    BY <2>1 DEF Since
<1>3. Since(tr, k + 1, k) <=> tr[k].type = "alloc"
  BY DEF Since
<1>4. \A x : x \in LiveBefore(tr, k) <=> \E i \in 1 .. k - 1 : Since(tr, k, i) /\ tr[i].id = x
  BY <1>1
<1>5. \A x : x \in LiveBefore(tr, k + 1) <=> \E i \in 1 .. k : Since(tr, k + 1, i) /\ tr[i].id = x
  <2>1. k + 1 \in Nat \ {0} /\ (k + 1) - 1 = k
    OBVIOUS
  <2> QED
    BY <1>1, <2>1
<1>6. \A i : i \in 1 .. k <=> i \in 1 .. k - 1 \/ i = k
  OBVIOUS
<1>7. ASSUME NEW x
      PROVE  x \in LiveBefore(tr, k + 1) <=>
               \/ x \in LiveBefore(tr, k) /\ ~(tr[k].type = "free" /\ tr[k].id = x)
               \/ tr[k].type = "alloc" /\ tr[k].id = x
  BY <1>2, <1>3, <1>4, <1>5, <1>6
<1>8. tr[k].type = "alloc" => LiveBefore(tr, k + 1) = LiveBefore(tr, k) \union {tr[k].id}
  BY <1>7
<1>9. tr[k].type = "free" => LiveBefore(tr, k + 1) = LiveBefore(tr, k) \ {tr[k].id}
  BY <1>7
<1>10. tr[k].type = "realloc" => LiveBefore(tr, k + 1) = LiveBefore(tr, k)
  BY <1>7
<1> QED
  BY <1>8, <1>9, <1>10

-----------------------------------------------------------------------------
(* The bytes of blocks.                                                    *)

Blocks(b) == b \in [DOMAIN b -> [lo : Int, size : Nat \ {0}]] /\ IsFiniteSet(DOMAIN b)
OwedBy(b) == UNION {{id} \X Payload(b[id].lo, b[id].size) : id \in DOMAIN b}
Bytes(id, lo, size) == {id} \X Payload(lo, size)
Without(b, id) == [x \in DOMAIN b \ {id} |-> b[x]]

\* A block has as many bytes as its size.
LEMMA OwedByOne ==
  ASSUME NEW id, NEW lo \in Int, NEW size \in Nat
  PROVE  IsFiniteSet(Bytes(id, lo, size)) /\ Cardinality(Bytes(id, lo, size)) = size
<1> DEFINE S == {id} \X Payload(lo, size)
           f == [k \in 1 .. size |-> <<id, lo + k - 1>>]
<1>1. f \in Bijection(1 .. size, S)
  <2>1. f \in [1 .. size -> S]
    BY DEF Payload
  <2>2. \A j, k \in 1 .. size : f[j] = f[k] => j = k
    OBVIOUS
  <2>3. \A x \in S : \E k \in 1 .. size : f[k] = x
    <3> TAKE x \in S
    <3>1. PICK a \in Payload(lo, size) : x = <<id, a>>
      OBVIOUS
    <3>2. a - lo + 1 \in 1 .. size /\ lo + (a - lo + 1) - 1 = a
      BY <3>1 DEF Payload
    <3>3. f[a - lo + 1] = <<id, lo + (a - lo + 1) - 1>>
      BY <3>2
    <3> QED
      BY <3>1, <3>2, <3>3
  <2> HIDE DEF f, S
  <2> QED
    BY <2>1, <2>2, <2>3 DEF Bijection, Injection, Surjection, IsInjective
<1>2. ExistsBijection(1 .. size, S)
  BY <1>1 DEF ExistsBijection
<1> HIDE DEF S
<1>3. IsFiniteSet(1 .. size)
  BY FS_Interval
<1>4. IsFiniteSet(S)
  BY <1>2, <1>3, FS_Bijection
<1>5. Cardinality(S) = size
  BY <1>2, FS_CountingElements
<1> QED
  BY <1>4, <1>5 DEF S, Bytes

\* The bytes of all blocks but one, and those of that one.
LEMMA OwedSplit ==
  ASSUME NEW b, Blocks(b), NEW id \in DOMAIN b, IsFiniteSet(OwedBy(Without(b, id)))
  PROVE  /\ IsFiniteSet(OwedBy(b))
         /\ Cardinality(OwedBy(b)) = Cardinality(OwedBy(Without(b, id))) + b[id].size
<1> DEFINE R == OwedBy(Without(b, id))
           S == {id} \X Payload(b[id].lo, b[id].size)
<1>1. OwedBy(b) = R \union S
  <2>1. \A x \in DOMAIN b \ {id} : Without(b, id)[x] = b[x]
    BY DEF Without
  <2>2. DOMAIN Without(b, id) = DOMAIN b \ {id}
    BY DEF Without
  <2> QED
    BY <2>1, <2>2 DEF OwedBy
<1>2. R \intersect S = {}
  <2> SUFFICES ASSUME NEW x \in R, x \in S PROVE FALSE
    OBVIOUS
  <2>1. PICK y \in DOMAIN b \ {id} : x \in {y} \X Payload(Without(b, id)[y].lo, Without(b, id)[y].size)
    BY DEF OwedBy, Without
  <2>2. x[1] = y /\ x[1] = id
    BY <2>1
  <2> QED
    BY <2>1, <2>2
<1>3. IsFiniteSet(S) /\ Cardinality(S) = b[id].size
  <2>1. b[id].lo \in Int /\ b[id].size \in Nat
    BY DEF Blocks
  <2>2. S = Bytes(id, b[id].lo, b[id].size)
    BY DEF Bytes
  <2> HIDE DEF S
  <2> QED
    BY <2>1, <2>2, OwedByOne
<1> HIDE DEF R, S
<1>4. IsFiniteSet(R)
  BY DEF R
<1>5. /\ IsFiniteSet(R \union S)
      /\ Cardinality(R \union S) = Cardinality(R) + Cardinality(S) - Cardinality(R \intersect S)
  BY <1>3, <1>4, FS_Union
<1>6. Cardinality({}) = 0
  BY FS_EmptySet
<1>7. Cardinality(R) \in Nat /\ b[id].size \in Nat
  BY <1>3, <1>4, FS_CardinalityType
<1>8. Cardinality(R \union S) = Cardinality(R) + b[id].size
  <2>1. Cardinality(R \intersect S) = 0
    BY <1>2, <1>6, Zenon
  <2>2. Cardinality(R \union S) = Cardinality(R) + Cardinality(S) - Cardinality(R \intersect S)
    BY <1>5
  <2>3. Cardinality(R \union S) = Cardinality(R) + b[id].size - 0
    BY <1>3, <2>1, <2>2, Zenon
  <2> QED
    BY <1>7, <2>3
<1> QED
  BY <1>1, <1>5, <1>8 DEF R

\* Fewer blocks owe fewer bytes.
LEMMA OwedWithout ==
  ASSUME NEW b, NEW id, IsFiniteSet(OwedBy(b))
  PROVE  IsFiniteSet(OwedBy(Without(b, id)))
<1>1. OwedBy(Without(b, id)) \subseteq OwedBy(b)
  BY DEF OwedBy, Without
<1> QED
  BY <1>1, FS_Subset

\* Blocks that lie apart in a heap have no more bytes than it.
LEMMA OwedFits ==
  ASSUME NEW b, NEW top \in Nat,
         \A id \in DOMAIN b : Payload(b[id].lo, b[id].size) \subseteq 0 .. top - 1,
         \A i, j \in DOMAIN b : i # j =>
           Payload(b[i].lo, b[i].size) \intersect Payload(b[j].lo, b[j].size) = {}
  PROVE  IsFiniteSet(OwedBy(b)) /\ Cardinality(OwedBy(b)) <= top
<1> DEFINE f == [x \in OwedBy(b) |-> x[2]]
<1>1. \A x \in OwedBy(b) :
        \E id \in DOMAIN b : x = <<id, x[2]>> /\ x[2] \in Payload(b[id].lo, b[id].size)
  <2> TAKE x \in OwedBy(b)
  <2>1. PICK id \in DOMAIN b : x \in {id} \X Payload(b[id].lo, b[id].size)
    BY DEF OwedBy
  <2> QED
    BY <2>1
<1>2. f \in [OwedBy(b) -> 0 .. top - 1]
  BY <1>1
<1>3. ASSUME NEW x \in OwedBy(b), NEW y \in OwedBy(b), x[2] = y[2]
      PROVE  x = y
  <2>1. PICK i \in DOMAIN b : x = <<i, x[2]>> /\ x[2] \in Payload(b[i].lo, b[i].size)
    BY <1>1
  <2>2. PICK j \in DOMAIN b : y = <<j, y[2]>> /\ y[2] \in Payload(b[j].lo, b[j].size)
    BY <1>1
  <2>3. i = j
    BY <1>3, <2>1, <2>2
  <2>4. <<i, x[2]>> = <<j, y[2]>>
    BY <1>3, <2>3
  <2> QED
    BY <2>1, <2>2, <2>4, Zenon
<1>4. f \in Injection(OwedBy(b), 0 .. top - 1)
  BY <1>2, <1>3 DEF Injection, IsInjective
<1>5. IsFiniteSet(0 .. top - 1) /\ Cardinality(0 .. top - 1) = top
  <2>1. 0 \in Int /\ top - 1 \in Int
    OBVIOUS
  <2>2. IsFiniteSet(0 .. top - 1) /\ Cardinality(0 .. top - 1) = IF 0 > top - 1 THEN 0 ELSE (top - 1) - 0 + 1
    BY <2>1, FS_Interval, Zenon
  <2> QED
    BY <2>2
<1> HIDE DEF f
<1> QED
  BY <1>4, <1>5, FS_Injection

-----------------------------------------------------------------------------
(* The range list.                                                         *)

RangeRecord == [lo : Int, hi : Int]

\* Removing a place of a sequence leaves the others, in their order.
LEMMA RemoveAtProperties ==
  ASSUME NEW S, NEW s \in Seq(S), NEW i \in 1 .. Len(s)
  PROVE  /\ RemoveAt(s, i) \in Seq(S)
         /\ Len(RemoveAt(s, i)) = Len(s) - 1
         /\ \A k \in 1 .. Len(s) - 1 : RemoveAt(s, i)[k] = IF k < i THEN s[k] ELSE s[k + 1]
<1> DEFINE front == SubSeq(s, 1, i - 1)
           back  == SubSeq(s, i + 1, Len(s))
<1>1. Len(s) \in Nat /\ \A k \in 1 .. Len(s) : s[k] \in S
  OBVIOUS
<1>2. /\ front \in Seq(S) /\ Len(front) = i - 1
      /\ \A k \in 1 .. i - 1 : front[k] = s[k]
  <2>1. /\ SubSeq(s, 1, i - 1) \in Seq(S)
        /\ Len(SubSeq(s, 1, i - 1)) = IF 1 <= i - 1 THEN (i - 1) - 1 + 1 ELSE 0
        /\ \A k \in 1 .. (i - 1) - 1 + 1 : SubSeq(s, 1, i - 1)[k] = s[1 + k - 1]
    BY <1>1, SubSeqProperties
  <2> QED BY <2>1, <1>1
<1>3. /\ back \in Seq(S) /\ Len(back) = Len(s) - i
      /\ \A k \in 1 .. Len(s) - i : back[k] = s[i + k]
  <2>1. /\ SubSeq(s, i + 1, Len(s)) \in Seq(S)
        /\ Len(SubSeq(s, i + 1, Len(s))) = IF i + 1 <= Len(s) THEN Len(s) - (i + 1) + 1 ELSE 0
        /\ \A k \in 1 .. Len(s) - (i + 1) + 1 : SubSeq(s, i + 1, Len(s))[k] = s[i + 1 + k - 1]
    BY <1>1, SubSeqProperties
  <2> QED BY <2>1, <1>1
<1> HIDE DEF front, back
<1>4. /\ front \o back \in Seq(S)
      /\ Len(front \o back) = Len(front) + Len(back)
      /\ \A k \in 1 .. Len(front) + Len(back) :
           (front \o back)[k] = IF k <= Len(front) THEN front[k] ELSE back[k - Len(front)]
  BY <1>2, <1>3, ConcatProperties
<1>5. RemoveAt(s, i) = front \o back
  BY DEF RemoveAt, front, back
<1>6. ASSUME NEW k \in 1 .. Len(s) - 1
      PROVE (front \o back)[k] = IF k < i THEN s[k] ELSE s[k + 1]
  <2>1. CASE k < i
    BY <2>1, <1>1, <1>2, <1>3, <1>4
  <2>2. CASE ~(k < i)
    <3>1. (front \o back)[k] = back[k - (i - 1)]
      BY <2>2, <1>1, <1>2, <1>3, <1>4
    <3>2. k - (i - 1) \in 1 .. Len(s) - i
      BY <2>2, <1>1
    <3> QED BY <3>1, <3>2, <2>2, <1>1, <1>3
  <2> QED BY <2>1, <2>2
<1>7. front \o back \in Seq(S) /\ Len(front \o back) = Len(s) - 1
  BY <1>1, <1>2, <1>3, <1>4
<1> QED
  BY <1>5, <1>6, <1>7

\* A record in front of others.
LEMMA InFront ==
  ASSUME NEW S, NEW s \in Seq(S), NEW p \in S
  PROVE  /\ <<p>> \o s \in Seq(S) /\ Len(<<p>> \o s) = Len(s) + 1
         /\ (<<p>> \o s)[1] = p /\ \A k \in 1 .. Len(s) : (<<p>> \o s)[k + 1] = s[k]
OBVIOUS

\* The ends of a range are numbers.
LEMMA RangeEnds ==
  ASSUME NEW list \in Seq(RangeRecord), NEW k \in 1 .. Len(list)
  PROVE  list[k].lo \in Int /\ list[k].hi \in Int
<1>1. list[k] \in RangeRecord
  OBVIOUS
<1> QED
  BY <1>1 DEF RangeRecord

\* A newer range and an older one.
Beside(new, old) ==
  \/ new.hi < old.lo \/ old.hi < new.lo
  \/ new.lo < old.lo /\ old.hi < new.hi

\* A list of ranges that were accepted one by one.
Grown(list) ==
  /\ list \in Seq(RangeRecord)
  /\ \A k \in 1 .. Len(list) : list[k].lo % Alignment = 0 /\ list[k].lo >= 0 /\ list[k].lo <= list[k].hi
  /\ \A j, k \in 1 .. Len(list) : j < k => Beside(list[j], list[k])

\* No two of them start at one place.
LEMMA GrownApart ==
  ASSUME NEW list, Grown(list), NEW j \in 1 .. Len(list), NEW k \in 1 .. Len(list),
         list[j].lo = list[k].lo
  PROVE  j = k
<1>1. /\ list[j].lo \in Int /\ list[j].hi \in Int /\ list[k].lo \in Int /\ list[k].hi \in Int
      /\ list[j].lo <= list[j].hi /\ list[k].lo <= list[k].hi
  BY RangeEnds DEF Grown
<1>2. ~(j < k)
  BY <1>1 DEF Grown, Beside
<1>3. ~(k < j)
  BY <1>1 DEF Grown, Beside
<1>4. j \in Int /\ k \in Int
  OBVIOUS
<1> QED
  BY <1>2, <1>3, <1>4

\* What is left of such a list is one.
LEMMA GrownRemove ==
  ASSUME NEW list, Grown(list), NEW i \in 1 .. Len(list)
  PROVE  Grown(RemoveAt(list, i))
<1> DEFINE rest == RemoveAt(list, i)
           old(k) == IF k < i THEN k ELSE k + 1
<1>0. list \in Seq(RangeRecord) /\ Len(list) \in Nat
  BY DEF Grown
<1>1. /\ rest \in Seq(RangeRecord) /\ Len(rest) = Len(list) - 1
      /\ \A k \in 1 .. Len(list) - 1 : rest[k] = IF k < i THEN list[k] ELSE list[k + 1]
  BY <1>0, RemoveAtProperties
<1> HIDE DEF rest
<1>2. \A k \in 1 .. Len(rest) : rest[k] = list[old(k)] /\ old(k) \in 1 .. Len(list)
  BY <1>0, <1>1
<1>3. \A j, k \in 1 .. Len(rest) : j < k => old(j) < old(k)
  BY <1>0, <1>1
<1> HIDE DEF old
<1>4. \A k \in 1 .. Len(rest) : rest[k].lo % Alignment = 0 /\ rest[k].lo >= 0 /\ rest[k].lo <= rest[k].hi
  BY <1>2 DEF Grown
<1>5. \A j, k \in 1 .. Len(rest) : j < k => Beside(rest[j], rest[k])
  BY <1>2, <1>3 DEF Grown
<1> QED
  BY <1>1, <1>4, <1>5 DEF Grown, rest

\* add_range adds one that keeps it so.
LEMMA GrownAdd ==
  ASSUME NEW list, Grown(list), NEW top, NEW lo \in Int, NEW size \in Nat \ {0},
         Accepts(list, top, lo, size)
  PROVE  Grown(AddRange(list, lo, size))
<1> DEFINE new == [lo |-> lo, hi |-> lo + size - 1]
           more == <<new>> \o list
<1>0. list \in Seq(RangeRecord) /\ Len(list) \in Nat /\ DOMAIN list = 1 .. Len(list)
  BY DEF Grown
<1>1. new \in RangeRecord /\ new.lo = lo /\ new.hi = lo + size - 1
  BY DEF RangeRecord
<1> HIDE DEF new
<1>2. /\ more \in Seq(RangeRecord) /\ Len(more) = Len(list) + 1
      /\ more[1] = new /\ \A k \in 1 .. Len(list) : more[k + 1] = list[k]
  BY <1>0, <1>1, InFront
<1> HIDE DEF more
<1>3. \A k \in 1 .. Len(more) : k = 1 \/ (k - 1 \in 1 .. Len(list) /\ more[k] = list[k - 1])
  <2> TAKE k \in 1 .. Len(more)
  <2>1. k # 1 => k - 1 \in 1 .. Len(list) /\ (k - 1) + 1 = k
    BY <1>0, <1>2
  <2> QED
    BY <1>2, <2>1
<1>4. new.lo % Alignment = 0 /\ new.lo >= 0 /\ new.lo <= new.hi
  BY <1>1 DEF Accepts
<1>5. ASSUME NEW k \in 1 .. Len(list) PROVE Beside(new, list[k])
  <2>1. list[k].lo \in Int /\ list[k].hi \in Int /\ list[k].lo <= list[k].hi
    BY <1>0, RangeEnds DEF Grown
  <2>2. lo \notin list[k].lo .. list[k].hi /\ lo + size - 1 \notin list[k].lo .. list[k].hi
    BY <1>0 DEF Accepts, Overlaps
  <2> QED
    BY <1>1, <2>1, <2>2 DEF Beside
<1>6. \A k \in 1 .. Len(more) : more[k].lo % Alignment = 0 /\ more[k].lo >= 0 /\ more[k].lo <= more[k].hi
  BY <1>2, <1>3, <1>4 DEF Grown
<1>7. ASSUME NEW j \in 1 .. Len(more), NEW k \in 1 .. Len(more), j < k
      PROVE  Beside(more[j], more[k])
  <2>1. k - 1 \in 1 .. Len(list) /\ more[k] = list[k - 1]
    BY <1>0, <1>2, <1>3, <1>7
  <2>2. CASE j = 1
    BY <1>2, <1>5, <2>1, <2>2
  <2>3. CASE j # 1
    <3>1. j - 1 \in 1 .. Len(list) /\ more[j] = list[j - 1] /\ j - 1 < k - 1
      BY <1>0, <1>2, <1>3, <1>7, <2>3
    <3> QED
      BY <2>1, <3>1 DEF Grown
  <2> QED
    BY <2>2, <2>3
<1> QED
  BY <1>2, <1>6, <1>7 DEF Grown, AddRange, more, new

\* The list holds the blocks of b, each once.
IsOf(r, block) == r.lo = block.lo /\ r.hi = block.lo + block.size - 1
Lists(list, b) ==
  /\ Grown(list) /\ Len(list) = Cardinality(DOMAIN b)
  /\ \A id \in DOMAIN b : \E k \in 1 .. Len(list) : IsOf(list[k], b[id])
  /\ \A k \in 1 .. Len(list) : \E id \in DOMAIN b : IsOf(list[k], b[id])
  /\ \A i, j \in DOMAIN b : i # j => b[i].lo # b[j].lo

\* remove_range takes off the block at lo and no other.
LEMMA ListsRemove ==
  ASSUME NEW list, NEW b, Blocks(b), Lists(list, b), NEW id \in DOMAIN b
  PROVE  Lists(RemoveRange(list, b[id].lo), Without(b, id))
<1> DEFINE lo == b[id].lo
           n == Len(list)
<1>0. list \in Seq(RangeRecord) /\ n \in Nat /\ Grown(list)
  BY DEF Lists, Grown
<1>1. PICK i \in 1 .. n : IsOf(list[i], b[id])
  BY DEF Lists
<1>2. list[i].lo = lo /\ \A k \in 1 .. n : list[k].lo = lo => k = i
  BY <1>0, <1>1, GrownApart DEF IsOf
<1>3. RemoveRange(list, lo) = RemoveAt(list, i)
  <2>1. {k \in 1 .. Len(list) : list[k].lo = lo} = {i}
    BY <1>2
  <2>2. Min({i}) = i
    <3>1. i \in Int
      OBVIOUS
    <3> QED
      BY <3>1 DEF Min
  <2>3. i # 0
    OBVIOUS
  <2>4. SelectInSeq(list, LAMBDA r : r.lo = lo) = i
    <3> HIDE DEF lo
    <3> QED
      BY <2>1, <2>2 DEF SelectInSeq
  <2> QED
    BY <2>3, <2>4 DEF RemoveRange
<1> DEFINE rest == RemoveAt(list, i)
           c == Without(b, id)
<1>4. Grown(rest)
  BY <1>0, GrownRemove
<1>5. /\ Len(rest) = n - 1
      /\ \A k \in 1 .. n - 1 : rest[k] = IF k < i THEN list[k] ELSE list[k + 1]
  BY <1>0, RemoveAtProperties
<1> HIDE DEF rest
<1>6. DOMAIN c = DOMAIN b \ {id} /\ \A x \in DOMAIN b \ {id} : c[x] = b[x]
  BY DEF Without
<1> HIDE DEF c
<1>7. Cardinality(DOMAIN c) = Cardinality(DOMAIN b) - 1
  BY <1>6, FS_RemoveElement DEF Blocks
<1>8. ASSUME NEW x \in DOMAIN c PROVE \E k \in 1 .. Len(rest) : IsOf(rest[k], c[x])
  <2>1. x \in DOMAIN b /\ x # id /\ c[x] = b[x]
    BY <1>6
  <2>2. PICK k \in 1 .. n : IsOf(list[k], b[x])
    BY <2>1 DEF Lists
  <2>3. k # i
    <3>1. b[x].lo # b[id].lo
      BY <2>1 DEF Lists
    <3> QED
      BY <1>1, <2>2, <3>1 DEF IsOf
  <2>4. CASE k < i
    <3>1. k \in 1 .. n - 1 /\ rest[k] = list[k]
      BY <1>0, <1>5, <2>4
    <3> QED
      BY <1>5, <2>1, <2>2, <3>1
  <2>5. CASE k > i
    <3>1. k - 1 \in 1 .. n - 1 /\ ~(k - 1 < i) /\ (k - 1) + 1 = k
      BY <1>0, <2>5
    <3>2. rest[k - 1] = list[k]
      BY <1>5, <3>1
    <3> QED
      BY <1>5, <2>1, <2>2, <3>1, <3>2
  <2> QED
    BY <1>0, <2>3, <2>4, <2>5
<1>9. ASSUME NEW k \in 1 .. Len(rest) PROVE \E x \in DOMAIN c : IsOf(rest[k], c[x])
  <2>1. PICK m \in 1 .. n : m # i /\ rest[k] = list[m]
    <3>1. CASE k < i
      BY <1>0, <1>5, <3>1
    <3>2. CASE k >= i
      <4>1. k + 1 \in 1 .. n /\ k + 1 # i /\ rest[k] = list[k + 1]
        BY <1>0, <1>5, <3>2
      <4> QED
        BY <4>1
    <3> QED
      BY <1>0, <1>5, <3>1, <3>2
  <2>2. PICK x \in DOMAIN b : IsOf(list[m], b[x])
    BY DEF Lists
  <2>3. x # id
    BY <1>2, <2>1, <2>2 DEF IsOf
  <2> QED
    BY <1>6, <2>1, <2>2, <2>3
<1>10. \A x, y \in DOMAIN c : x # y => c[x].lo # c[y].lo
  BY <1>6 DEF Lists
<1>11. Len(rest) = Cardinality(DOMAIN c)
  BY <1>5, <1>7 DEF Lists
<1> QED
  BY <1>3, <1>4, <1>8, <1>9, <1>10, <1>11 DEF Lists, rest, c

\* An accepted block joins the list.
LEMMA ListsAdd ==
  ASSUME NEW list, NEW b, Blocks(b), Lists(list, b), NEW id, id \notin DOMAIN b,
         NEW top, NEW p \in Int, NEW size \in Nat \ {0}, Accepts(list, top, p, size),
         NEW c, DOMAIN c = DOMAIN b \union {id}, c[id] = [lo |-> p, size |-> size],
         \A x \in DOMAIN b : c[x] = b[x]
  PROVE  Lists(AddRange(list, p, size), c)
<1> DEFINE new == [lo |-> p, hi |-> p + size - 1]
           more == AddRange(list, p, size)
           n == Len(list)
<1>0. list \in Seq(RangeRecord) /\ n \in Nat /\ Grown(list) /\ DOMAIN list = 1 .. n
  BY DEF Lists, Grown
<1>1. Grown(more)
  BY <1>0, GrownAdd
<1>2. new \in RangeRecord /\ new.lo = p /\ new.hi = p + size - 1
  BY DEF RangeRecord
<1>3. /\ Len(more) = n + 1
      /\ more[1] = new /\ \A k \in 1 .. n : more[k + 1] = list[k]
  <2> HIDE DEF new
  <2> QED
    BY <1>0, <1>2, InFront DEF AddRange, new
<1> HIDE DEF more
<1>4. IsOf(new, c[id])
  BY <1>2 DEF IsOf
<1> HIDE DEF new
<1>5. Cardinality(DOMAIN c) = Cardinality(DOMAIN b) + 1
  BY FS_AddElement DEF Blocks
<1>6. ASSUME NEW x \in DOMAIN c PROVE \E k \in 1 .. Len(more) : IsOf(more[k], c[x])
  <2>1. CASE x = id
    <3>1. 1 \in 1 .. Len(more)
      BY <1>0, <1>3
    <3> QED
      BY <1>3, <1>4, <2>1, <3>1
  <2>2. CASE x # id
    <3>1. PICK k \in 1 .. n : IsOf(list[k], b[x])
      BY <2>2 DEF Lists
    <3>2. k + 1 \in 1 .. Len(more) /\ more[k + 1] = list[k] /\ c[x] = b[x]
      BY <1>0, <1>3, <2>2
    <3> QED
      BY <3>1, <3>2
  <2> QED
    BY <2>1, <2>2
<1>7. ASSUME NEW k \in 1 .. Len(more) PROVE \E x \in DOMAIN c : IsOf(more[k], c[x])
  <2>1. CASE k = 1
    BY <1>3, <1>4, <2>1
  <2>2. CASE k # 1
    <3>1. k - 1 \in 1 .. n /\ (k - 1) + 1 = k
      BY <1>0, <1>3, <2>2
    <3>2. more[k] = list[k - 1]
      BY <1>3, <3>1
    <3>3. PICK x \in DOMAIN b : IsOf(list[k - 1], b[x])
      BY <3>1 DEF Lists
    <3> QED
      BY <3>2, <3>3
  <2> QED
    BY <2>1, <2>2
<1>8. ASSUME NEW x \in DOMAIN b PROVE b[x].lo # p
  <2>1. PICK k \in 1 .. n : IsOf(list[k], b[x])
    BY DEF Lists
  <2>2. list[k].lo \in Int /\ list[k].hi \in Int /\ list[k].lo <= list[k].hi
    BY <1>0, RangeEnds DEF Grown
  <2>3. p \notin list[k].lo .. list[k].hi
    BY <1>0 DEF Accepts, Overlaps
  <2> QED
    BY <2>1, <2>2, <2>3 DEF IsOf
<1>9. \A x, y \in DOMAIN c : x # y => c[x].lo # c[y].lo
  <2>1. c[id].lo = p
    OBVIOUS
  <2> QED
    BY <1>8, <2>1 DEF Lists
<1>10. Len(more) = Cardinality(DOMAIN c)
  BY <1>3, <1>5 DEF Lists
<1> QED
  BY <1>1, <1>6, <1>7, <1>9, <1>10 DEF Lists, more

\* A right place is accepted.
LEMMA RightAccepted ==
  ASSUME NEW list, NEW b, Blocks(b), Lists(list, b), NEW top \in Nat, NEW p \in Int, NEW size \in Nat \ {0},
         p % Alignment = 0, Payload(p, size) \subseteq 0 .. top - 1,
         \A id \in DOMAIN b : Payload(p, size) \intersect Payload(b[id].lo, b[id].size) = {}
  PROVE  Accepts(list, top, p, size)
<1>1. p \in Payload(p, size) /\ p + size - 1 \in Payload(p, size)
  BY DEF Payload
<1>2. p \in 0 .. top - 1 /\ p + size - 1 \in 0 .. top - 1
  BY <1>1
<1>3. ASSUME NEW k \in 1 .. Len(list) PROVE ~Overlaps(p, p + size - 1, list[k])
  <2>1. PICK id \in DOMAIN b : IsOf(list[k], b[id])
    BY DEF Lists
  <2>2. list[k].lo .. list[k].hi = Payload(b[id].lo, b[id].size)
    BY <2>1 DEF IsOf, Payload
  <2>3. Payload(p, size) \intersect Payload(b[id].lo, b[id].size) = {}
    OBVIOUS
  <2> HIDE DEF Payload
  <2> QED
    BY <1>1, <2>2, <2>3 DEF Overlaps
<1>4. DOMAIN list = 1 .. Len(list)
  BY DEF Lists, Grown
<1> QED
  BY <1>2, <1>3, <1>4 DEF Accepts

-----------------------------------------------------------------------------
(* Where blocks lie and what they hold.                                    *)

Placed(b, top) ==
  /\ \A id \in DOMAIN b : Payload(b[id].lo, b[id].size) \subseteq 0 .. top - 1
  /\ \A i, j \in DOMAIN b : i # j =>
       Payload(b[i].lo, b[i].size) \intersect Payload(b[j].lo, b[j].size) = {}

\* Every byte of a block is the low byte of its id.
Holds(b, m) == \A id \in DOMAIN b : \A a \in Payload(b[id].lo, b[id].size) : m[a] = LowByte(id)

\* c is b with a block more.
Joined(c, b, id, p, size) ==
  /\ id \notin DOMAIN b /\ DOMAIN c = DOMAIN b \union {id} /\ c = [x \in DOMAIN c |-> c[x]]
  /\ c[id] = [lo |-> p, size |-> size] /\ \A x \in DOMAIN b : c[x] = b[x]

\* A block without another is where it was.
LEMMA PlacedWithout ==
  ASSUME NEW b, NEW top, Placed(b, top), NEW id
  PROVE  Placed(Without(b, id), top)
<1>1. DOMAIN Without(b, id) \subseteq DOMAIN b /\ \A x \in DOMAIN Without(b, id) : Without(b, id)[x] = b[x]
  BY DEF Without
<1> QED
  BY <1>1 DEF Placed

\* A right place leaves the blocks apart.
LEMMA PlacedJoined ==
  ASSUME NEW b, NEW old \in Int, NEW top \in Int, old <= top, Placed(b, old),
         NEW c, NEW id, NEW p \in Int, NEW size \in Nat, Joined(c, b, id, p, size),
         Payload(p, size) \subseteq 0 .. top - 1,
         \A x \in DOMAIN b : Payload(p, size) \intersect Payload(b[x].lo, b[x].size) = {}
  PROVE  Placed(c, top)
<1>1. c[id].lo = p /\ c[id].size = size /\ \A x \in DOMAIN b : c[x] = b[x]
  BY DEF Joined
<1>2. \A x \in DOMAIN c : x \in DOMAIN b \/ x = id
  BY DEF Joined
<1>3. 0 .. old - 1 \subseteq 0 .. top - 1
  OBVIOUS
<1>4. \A x \in DOMAIN c : Payload(c[x].lo, c[x].size) \subseteq 0 .. top - 1
  BY <1>1, <1>2, <1>3 DEF Placed
<1>5. \A i, j \in DOMAIN c : i # j =>
        Payload(c[i].lo, c[i].size) \intersect Payload(c[j].lo, c[j].size) = {}
  <2> SUFFICES ASSUME NEW i \in DOMAIN c, NEW j \in DOMAIN c, i # j
               PROVE  Payload(c[i].lo, c[i].size) \intersect Payload(c[j].lo, c[j].size) = {}
    OBVIOUS
  <2>1. CASE i \in DOMAIN b /\ j \in DOMAIN b
    BY <1>1, <2>1 DEF Placed
  <2>2. CASE i = id /\ j \in DOMAIN b
    BY <1>1, <2>2
  <2>3. CASE i \in DOMAIN b /\ j = id
    BY <1>1, <2>3
  <2> QED
    BY <1>2, <2>1, <2>2, <2>3
<1> QED
  BY <1>4, <1>5 DEF Placed

\* A block that is filled leaves the others' bytes.
LEMMA FilledHolds ==
  ASSUME NEW b, NEW old, Holds(b, old), NEW m, DOMAIN m = 0 .. HeapMax - 1,
         \A x \in DOMAIN b : \A a \in Payload(b[x].lo, b[x].size) : m[a] = old[a],
         NEW c, NEW id, NEW p, NEW size, Joined(c, b, id, p, size), Placed(c, HeapMax)
  PROVE  Holds(c, Filled(m, p, size, id))
<1>1. c[id].lo = p /\ c[id].size = size /\ \A x \in DOMAIN b : c[x] = b[x]
  BY DEF Joined
<1> SUFFICES ASSUME NEW x \in DOMAIN c, NEW a \in Payload(c[x].lo, c[x].size)
             PROVE  Filled(m, p, size, id)[a] = LowByte(x)
  BY DEF Holds
<1>2. a \in DOMAIN m
  BY DEF Placed
<1>3. Filled(m, p, size, id)[a] = IF a \in Payload(p, size) THEN LowByte(id) ELSE m[a]
  BY <1>2 DEF Filled
<1>4. CASE x = id
  BY <1>1, <1>3, <1>4
<1>5. CASE x # id
  <2>1. x \in DOMAIN b /\ a \in Payload(b[x].lo, b[x].size)
    BY <1>1, <1>5 DEF Joined
  <2>2. Payload(c[x].lo, c[x].size) \intersect Payload(c[id].lo, c[id].size) = {}
    BY <1>5 DEF Placed, Joined
  <2>3. a \notin Payload(p, size)
    BY <1>1, <2>2
  <2>4. m[a] = old[a] /\ old[a] = LowByte(x)
    BY <2>1 DEF Holds
  <2> QED
    BY <1>3, <2>3, <2>4
<1> QED
  BY <1>4, <1>5

\* The block that joined owes the bytes it was asked for.
LEMMA JoinedOwed ==
  ASSUME NEW b, Blocks(b), NEW c, NEW id, NEW p \in Int, NEW size \in Nat \ {0},
         Joined(c, b, id, p, size)
  PROVE  /\ Blocks(c) /\ Without(c, id) = b
         /\ IsFiniteSet(OwedBy(b)) =>
              /\ IsFiniteSet(OwedBy(c))
              /\ Cardinality(OwedBy(c)) = Cardinality(OwedBy(b)) + size
<1>0. b = [x \in DOMAIN b |-> b[x]] /\ \A x \in DOMAIN b : b[x] \in [lo : Int, size : Nat \ {0}]
  BY DEF Blocks
<1>1. Without(c, id) = b
  <2>1. DOMAIN c \ {id} = DOMAIN b
    BY DEF Joined
  <2>2. [x \in DOMAIN b |-> c[x]] = [x \in DOMAIN b |-> b[x]]
    BY DEF Joined
  <2> QED
    BY <1>0, <2>1, <2>2 DEF Without
<1>2. IsFiniteSet(DOMAIN c)
  BY FS_AddElement DEF Joined, Blocks
<1>3. Blocks(c)
  <2>1. [lo |-> p, size |-> size] \in [lo : Int, size : Nat \ {0}]
    OBVIOUS
  <2>2. \A x \in DOMAIN c : c[x] \in [lo : Int, size : Nat \ {0}]
    BY <1>0, <2>1 DEF Joined
  <2>3. c \in [DOMAIN c -> [lo : Int, size : Nat \ {0}]]
    BY <2>2 DEF Joined
  <2> QED
    BY <1>2, <2>3 DEF Blocks
<1>4. id \in DOMAIN c /\ c[id].size = size
  BY DEF Joined
<1> QED
  BY <1>1, <1>3, <1>4, OwedSplit

-----------------------------------------------------------------------------
(* The inductive invariant.                                                *)

Replaying == {"valid", "util", "speed"}

Types ==
  /\ package \in {"libc", "mm"} /\ num \in 1 .. NumTraces /\ good \in BOOLEAN
  /\ stage \in Replaying \union {"read", "free", "index", "errors", "failed"}
  /\ stage \notin Replaying => op = 0
  /\ stage \in Replaying =>
       /\ trace \in Traces /\ op \in 0 .. Len(trace) + 1
       /\ blocks \in [Ids -> Int] /\ sizes \in [Ids -> Int]
  /\ brk \in 0 .. HeapMax /\ DOMAIN mem = 0 .. HeapMax - 1
  /\ total \in Int /\ hwm \in Int
  /\ errors \in Nat /\ valid \in [1 .. NumTraces -> BOOLEAN]

\* The allocator owes the blocks that are live in the trace.
Owing == Books => Blocks(live) /\ DOMAIN live = LiveBefore(trace, op) /\ DOMAIN live \subseteq Ids

\* The range list holds them, when it is used.
Checks == Books /\ Checked => Lists(ranges, live)

\* A good allocator has put them where they may be, filled as the check fills them.
Sound == Books /\ good => Placed(live, brk) /\ (Checked => Holds(live, mem))

\* eval_mm_util has counted their bytes.
Utils == Books /\ package = "mm" /\ stage = "util" =>
  /\ IsFiniteSet(OwedBy(live)) /\ total = Cardinality(OwedBy(live))
  /\ hwm >= total /\ (good => hwm <= brk)

\* A trace is measured after a check that found no error; it is rejected only
\* where an answer was wrong, or the comparison reads a byte wrong.
Verdict == package = "mm" =>
  /\ stage \in {"util", "speed"} => valid[num]
  /\ stage = "free" => valid[num] \/ ~good \/ Misread

\* The traces mm.c is through with, and those of them that are not valid.
Done == IF stage \in {"free", "index", "errors"} THEN 1 .. num ELSE 1 .. num - 1
Invalid(v, done) == {n \in done : ~v[n]}

Tally ==
  /\ package = "libc" => errors = 0 /\ \A n \in 1 .. NumTraces : ~valid[n]
  /\ package = "mm" /\ stage # "failed" => errors = Cardinality(Invalid(valid, Done))
  /\ package = "mm" /\ stage \in {"read", "valid"} => ~valid[num]
  /\ \A n \in 1 .. NumTraces : n > num => ~valid[n]
  /\ stage \in {"index", "errors"} => package = "mm" /\ num = NumTraces
  /\ stage = "index" => errors = 0

IInv ==
  Types /\ Grown(ranges) /\ Owing /\ CallsAreLegal /\ Checks /\ Sound /\ Utils /\ Verdict /\ Tally

\* The request that comes next.
LEMMA NextRequest ==
  ASSUME MdriverAssumption, IInv, NEW type, Playing(type)
  PROVE  /\ Books /\ op \in 1 .. Len(trace) /\ op \in Nat \ {0}
         /\ trace' = trace => op + 1 \in 1 .. Len(trace') + 1
         /\ Request.type = type /\ Request.id \in Ids /\ Request.id \in Nat /\ Request.size \in Nat
         /\ type # "free" => Request.size \in Nat \ {0}
         /\ type = "alloc" <=> Request.id \notin DOMAIN live
         /\ Blocks(live) /\ DOMAIN live = LiveBefore(trace, op) /\ DOMAIN live \subseteq Ids
         /\ blocks \in [Ids -> Int] /\ sizes \in [Ids -> Int]
<1>1. /\ stage \in Replaying /\ trace \in Traces /\ op \in DOMAIN trace /\ Request.type = type
      /\ blocks \in [Ids -> Int] /\ sizes \in [Ids -> Int]
  BY DEF Playing, IInv, Types, Replaying
<1>2. trace \in Seq(Requests) /\ Consistent(trace)
  BY <1>1 DEF MdriverAssumption
<1>3. DOMAIN trace = 1 .. Len(trace) /\ Len(trace) \in Nat
  BY <1>2
<1>4. Request \in Requests
  BY <1>1, <1>2, <1>3 DEF Request
<1>5. Request.id \in Nat /\ Request.size \in Nat
  BY <1>4 DEF Requests
<1>6. Request.id \in Ids
  BY <1>1 DEF Ids, Request
<1>7. op \in 1 .. Len(trace) /\ Books
  BY <1>1, <1>3 DEF Books, Replaying
<1>8. Blocks(live) /\ DOMAIN live = LiveBefore(trace, op) /\ DOMAIN live \subseteq Ids
  BY <1>7 DEF IInv, Owing
<1>9. /\ type = "alloc" <=> Request.id \notin DOMAIN live
      /\ type # "free" => Request.size > 0
  BY <1>1, <1>2, <1>8 DEF Consistent, Request
<1>10. trace' = trace => op + 1 \in 1 .. Len(trace') + 1
  BY <1>3, <1>7
<1> QED
  BY <1>1, <1>5, <1>6, <1>7, <1>8, <1>9, <1>10

\* Where no replay goes on nothing is owed.
LEMMA Quiet ==
  ASSUME op' = 0
  PROVE  Owing' /\ CallsAreLegal' /\ Checks' /\ Sound' /\ Utils'
<1>1. ~Books'
  BY DEF Books
<1> QED
  BY <1>1 DEF Owing, CallsAreLegal, Checks, Sound, Utils

\* The invariant holds at the start.
LEMMA InitHolds == ASSUME MdriverAssumption, Init PROVE IInv
<1>1. Types
  <2>1. DOMAIN mem = 0 .. HeapMax - 1 /\ valid \in [1 .. NumTraces -> BOOLEAN]
    BY DEF Init
  <2> QED
    BY <2>1 DEF Types, Init, MdriverAssumption, Replaying
<1>2. Grown(ranges)
  <2>1. ranges = <<>>
    BY DEF Init
  <2> QED
    BY <2>1 DEF Grown
<1>3. ~Books
  BY DEF Init, Books
<1>4. Owing /\ CallsAreLegal /\ Checks /\ Sound /\ Utils
  BY <1>3 DEF Owing, CallsAreLegal, Checks, Sound, Utils
<1>5. Verdict
  BY DEF Verdict, Init
<1>6. Tally
  <2>1. \A n \in 1 .. NumTraces : ~valid[n]
    BY DEF Init
  <2>2. Invalid(valid, Done) = {}
    BY DEF Invalid, Done, Init
  <2>3. num \in 1 .. NumTraces /\ stage = "read" /\ errors = 0
    BY DEF Init, MdriverAssumption
  <2> QED
    BY <2>1, <2>2, <2>3, FS_EmptySet DEF Tally
<1> QED
  BY <1>1, <1>2, <1>4, <1>5, <1>6 DEF IInv

-----------------------------------------------------------------------------
(* The steps between the requests.                                         *)

\* Steps that leave main's state alone.
LEMMA NoStep ==
  ASSUME IInv, UNCHANGED vars
  PROVE  IInv'
BY DEF IInv, Types, Owing, CallsAreLegal, Checks, Sound, Utils, Verdict, Tally, Books, Checked, Done,
       Misread, vars, replay

\* A new trace owes nothing yet.
LEMMA ReadTraceKeeps == ASSUME MdriverAssumption, IInv, ReadTrace PROVE IInv'
<1>1. op' = 0 /\ stage = "read" /\ stage' = "valid"
  BY DEF ReadTrace, Goto
<1>2. Types'
  <2>1. blocks' \in [Ids -> Int] /\ sizes' \in [Ids -> Int] /\ trace' \in Traces
    BY DEF ReadTrace, Wild
  <2>2. Len(trace') \in Nat
    BY <2>1 DEF MdriverAssumption
  <2> QED
    BY <1>1, <2>1, <2>2 DEF IInv, Types, ReadTrace, Replaying
<1>3. Grown(ranges')
  BY DEF IInv, ReadTrace
<1>4. Verdict'
  BY <1>1 DEF Verdict
<1>5. Tally'
  <2>1. Done' = Done
    BY <1>1 DEF Done, ReadTrace
  <2> QED
    BY <1>1, <2>1 DEF IInv, Tally, ReadTrace
<1> QED
  BY <1>1, <1>2, <1>3, <1>4, <1>5, Quiet DEF IInv

\* A replay starts with no block, no range and no byte counted.
LEMMA SetUpKeeps == ASSUME MdriverAssumption, IInv, SetUp PROVE IInv'
<1>1. /\ op = 0 /\ op' = 1 /\ stage \in Replaying /\ stage' = stage /\ package' = package
      /\ trace' = trace /\ live' = <<>> /\ DOMAIN live' = {} /\ total' = 0 /\ hwm' = 0
  BY DEF SetUp, Replaying
<1>2. trace \in Traces /\ trace \in Seq(Requests) /\ Len(trace) \in Nat
  BY <1>1 DEF IInv, Types, MdriverAssumption
<1>3. 0 \in 0 .. HeapMax
  BY DEF MdriverAssumption
<1>4. brk' \in 0 .. HeapMax
  BY <1>3 DEF SetUp, IInv, Types
<1>5. Types'
  BY <1>1, <1>2, <1>4 DEF IInv, Types, SetUp, Replaying
<1>6. Grown(<<>>)
  BY DEF Grown
<1>7. Grown(ranges')
  BY <1>6 DEF SetUp, IInv
<1>8. Blocks(live') /\ LiveBefore(trace', op') = {}
  <2>1. live' \in [DOMAIN live' -> [lo : Int, size : Nat \ {0}]]
    BY <1>1
  <2> QED
    BY <1>1, <2>1, LiveFirst, FS_EmptySet DEF Blocks
<1>9. Owing'
  BY <1>1, <1>8 DEF Owing
<1>10. CallsAreLegal'
  BY <1>1 DEF CallsAreLegal
<1>11. Checks'
  <2>1. SUFFICES ASSUME Checked' PROVE Lists(ranges', live')
    BY DEF Checks
  <2>2. ranges' = <<>>
    BY <1>1, <2>1 DEF SetUp, Checked
  <2>3. Len(ranges') = Cardinality(DOMAIN live')
    BY <1>1, <2>2, FS_EmptySet
  <2> QED
    BY <1>1, <1>7, <2>2, <2>3 DEF Lists
<1>12. Sound'
  BY <1>1 DEF Sound, Placed, Holds
<1>13. Utils'
  <2>1. OwedBy(live') = {}
    BY <1>1 DEF OwedBy
  <2>2. IsFiniteSet(OwedBy(live')) /\ Cardinality(OwedBy(live')) = 0
    BY <2>1, FS_EmptySet, Zenon
  <2>3. hwm' >= total' /\ hwm' <= brk'
    BY <1>1, <1>4
  <2> QED
    BY <1>1, <2>2, <2>3 DEF Utils
<1>14. Verdict'
  BY <1>1 DEF IInv, Verdict, SetUp, Replaying
<1>15. Tally'
  <2>1. Done' = Done
    BY DEF Done, SetUp
  <2> QED
    BY <2>1 DEF IInv, Tally, SetUp
<1> QED
  BY <1>5, <1>7, <1>9, <1>10, <1>11, <1>12, <1>13, <1>14, <1>15 DEF IInv

\* One more trace is through.
LEMMA InvalidMore ==
  ASSUME NEW v, NEW n \in Nat \ {0}
  PROVE  /\ v[n] => Invalid(v, 1 .. n) = Invalid(v, 1 .. n - 1)
         /\ ~v[n] => /\ Cardinality(Invalid(v, 1 .. n)) = Cardinality(Invalid(v, 1 .. n - 1)) + 1
<1>1. \A i : i \in 1 .. n <=> i \in 1 .. n - 1 \/ i = n
  OBVIOUS
<1>2. v[n] => Invalid(v, 1 .. n) = Invalid(v, 1 .. n - 1)
  BY <1>1 DEF Invalid
<1>3. ASSUME ~v[n] PROVE Cardinality(Invalid(v, 1 .. n)) = Cardinality(Invalid(v, 1 .. n - 1)) + 1
  <2>1. Invalid(v, 1 .. n) = Invalid(v, 1 .. n - 1) \union {n}
    BY <1>1, <1>3 DEF Invalid
  <2>2. n \notin Invalid(v, 1 .. n - 1)
    BY DEF Invalid
  <2>3. IsFiniteSet(1 .. n - 1)
    BY FS_Interval
  <2>4. IsFiniteSet(Invalid(v, 1 .. n - 1))
    <3>1. Invalid(v, 1 .. n - 1) \subseteq 1 .. n - 1
      BY DEF Invalid
    <3> QED
      BY <2>3, <3>1, FS_Subset
  <2> QED
    BY <2>1, <2>2, <2>4, FS_AddElement
<1> QED
  BY <1>2, <1>3

\* An error of the check is counted once for its trace.
LEMMA RejectKeeps ==
  ASSUME MdriverAssumption, IInv, stage \in Replaying, Checked, Reject, Grown(ranges'),
         DOMAIN mem' = DOMAIN mem, brk' \in 0 .. HeapMax, good' \in BOOLEAN,
         UNCHANGED <<trace, total, hwm>>, ~good' \/ Misread
  PROVE  IInv'
<1>1. /\ package = "mm" /\ package' = "mm" /\ stage = "valid" /\ stage' = "free" /\ op' = 0
      /\ num' = num /\ valid' = valid /\ errors' = errors + 1
  BY DEF Checked, Reject, Goto
<1>2. Types'
  BY <1>1 DEF IInv, Types, Replaying
<1>3. Verdict'
  BY <1>1 DEF Verdict, Misread
<1>4. Tally'
  <2>1. num \in Nat \ {0} /\ ~valid[num]
    BY <1>1 DEF IInv, Types, Tally, MdriverAssumption
  <2>2. Done = 1 .. num - 1 /\ Done' = 1 .. num
    BY <1>1 DEF Done
  <2>3. Cardinality(Invalid(valid, 1 .. num)) = Cardinality(Invalid(valid, 1 .. num - 1)) + 1
    BY <2>1, InvalidMore
  <2>4. errors' = Cardinality(Invalid(valid', Done'))
    BY <1>1, <2>2, <2>3 DEF IInv, Tally
  <2> QED
    BY <1>1, <2>4 DEF IInv, Tally
<1> QED
  BY <1>1, <1>2, <1>3, <1>4, Quiet DEF IInv

\* Another error ends the run.
LEMMA LeaveKeeps ==
  ASSUME MdriverAssumption, IInv, stage \in Replaying, Leave, ranges' = ranges,
         DOMAIN mem' = DOMAIN mem, brk' \in 0 .. HeapMax, good' \in BOOLEAN, UNCHANGED <<total, hwm>>
  PROVE  IInv'
<1>1. stage' = "failed" /\ op' = 0 /\ UNCHANGED <<package, num, valid, errors>>
  BY DEF Leave, Goto
<1>2. Types'
  BY <1>1 DEF IInv, Types, Replaying
<1>3. Verdict'
  BY <1>1 DEF Verdict
<1>4. Tally'
  BY <1>1 DEF IInv, Tally
<1> QED
  BY <1>1, <1>2, <1>3, <1>4, Quiet DEF IInv

\* An allocator that gives nothing is not a good one.
LEMMA RefusedKeeps == ASSUME MdriverAssumption, IInv, Refused PROVE IInv'
<1>1. /\ stage \in Replaying /\ good' = FALSE
      /\ UNCHANGED <<trace, ranges, mem, brk, total, hwm>>
  BY DEF Refused, Replaying
<1>2. Grown(ranges') /\ DOMAIN mem' = DOMAIN mem /\ brk' \in 0 .. HeapMax
  BY <1>1 DEF IInv, Types
<1>3. CASE Checked
  <2>1. Reject
    BY <1>3 DEF Refused, Checked
  <2> QED
    BY <1>1, <1>2, <1>3, <2>1, RejectKeeps
<1>4. CASE ~Checked
  <2>1. Leave
    BY <1>4 DEF Refused, Checked
  <2> QED
    BY <1>1, <1>2, <2>1, LeaveKeeps
<1> QED
  BY <1>3, <1>4

\* A trace becomes valid at the end of its check, and not later.
LEMMA EndReplayKeeps == ASSUME MdriverAssumption, IInv, EndReplay PROVE IInv'
<1>1. /\ stage \in Replaying /\ op' = 0 /\ UNCHANGED <<package, num, errors, replay>>
      /\ stage' \in {"util", "speed", "free"}
      /\ stage = "valid" => stage' = IF package = "mm" THEN "util" ELSE "speed"
      /\ stage' = "free" => stage = "speed"
      /\ valid' = IF Checked THEN [valid EXCEPT ![num] = TRUE] ELSE valid
  BY DEF EndReplay, Goto, Replaying
<1>2. /\ trace' = trace /\ blocks' = blocks /\ sizes' = sizes /\ ranges' = ranges /\ mem' = mem
      /\ brk' = brk /\ total' = total /\ hwm' = hwm /\ good' = good
  BY <1>1 DEF replay
<1>3. num \in 1 .. NumTraces /\ valid \in [1 .. NumTraces -> BOOLEAN] /\ NumTraces \in Nat
  BY DEF IInv, Types, MdriverAssumption
<1>4. /\ valid' \in [1 .. NumTraces -> BOOLEAN]
      /\ \A n \in 1 .. NumTraces : n # num => valid'[n] = valid[n]
      /\ Checked => valid'[num]
      /\ ~Checked => valid' = valid
  BY <1>1, <1>3
<1>5. 0 \in 0 .. Len(trace) + 1
  BY <1>1 DEF IInv, Types, MdriverAssumption
<1>6. Types'
  BY <1>1, <1>2, <1>4, <1>5 DEF IInv, Types, Replaying
<1>7. package = "mm" => valid'[num]
  <2>1. CASE Checked
    BY <1>4, <2>1
  <2>2. CASE ~Checked
    BY <1>1, <1>4, <2>2 DEF IInv, Verdict, Checked, Replaying
  <2> QED
    BY <2>1, <2>2
<1>8. Verdict'
  BY <1>1, <1>7 DEF Verdict
<1>9. Tally'
  <2>1. Invalid(valid', 1 .. num - 1) = Invalid(valid, 1 .. num - 1)
    <3>1. \A n \in 1 .. num - 1 : n \in 1 .. NumTraces /\ n # num
      BY <1>3
    <3> QED
      BY <1>4, <3>1 DEF Invalid
  <2>2. package = "mm" => Invalid(valid', Done') = Invalid(valid, Done)
    <3>1. Done = 1 .. num - 1 /\ num \in Nat \ {0}
      BY <1>1, <1>3 DEF Done, Replaying
    <3>2. Done' = 1 .. num - 1 \/ Done' = 1 .. num
      BY <1>1 DEF Done
    <3>3. valid'[num] => Invalid(valid', 1 .. num) = Invalid(valid', 1 .. num - 1)
      BY <3>1, InvalidMore
    <3> QED
      BY <1>7, <2>1, <3>1, <3>2, <3>3
  <2>3. package = "libc" => \A n \in 1 .. NumTraces : ~valid'[n]
    BY <1>4 DEF IInv, Tally, Checked
  <2>4. \A n \in 1 .. NumTraces : n > num => ~valid'[n]
    BY <1>3, <1>4 DEF IInv, Tally
  <2> QED
    BY <1>1, <2>2, <2>3, <2>4 DEF IInv, Tally, Replaying
<1> QED
  BY <1>1, <1>2, <1>6, <1>8, <1>9, Quiet DEF IInv

\* The next trace, the next package or the report.
LEMMA FreeTraceKeeps == ASSUME MdriverAssumption, IInv, FreeTrace PROVE IInv'
<1>1. /\ stage = "free" /\ op' = 0 /\ UNCHANGED <<errors, valid, ranges, mem, brk, total, hwm, good>>
      /\ \/ /\ num < NumTraces /\ num' = num + 1 /\ package' = package /\ stage' = "read"
         \/ /\ num >= NumTraces /\ package = "libc" /\ num' = 1 /\ package' = "mm" /\ stage' = "read"
         \/ /\ num >= NumTraces /\ package # "libc" /\ num' = num /\ package' = package
            /\ stage' = IF errors = 0 THEN "index" ELSE "errors"
  BY DEF FreeTrace, Goto, IInv, Types, MdriverAssumption
<1>2. num \in 1 .. NumTraces /\ NumTraces \in Nat \ {0} /\ package \in {"libc", "mm"}
  BY DEF IInv, Types, MdriverAssumption
<1>3. Types'
  BY <1>1, <1>2 DEF IInv, Types, Replaying
<1>4. Verdict'
  BY <1>1 DEF Verdict
<1>5. Tally'
  <2>1. Done = 1 .. num
    BY <1>1 DEF Done
  <2>2. CASE num < NumTraces /\ num' = num + 1 /\ package' = package /\ stage' = "read"
    <3>1. Done' = 1 .. num
      BY <1>2, <2>2 DEF Done
    <3>2. ~valid[num + 1] /\ \A n \in 1 .. NumTraces : n > num + 1 => ~valid[n]
      BY <1>2, <2>2 DEF IInv, Tally
    <3> QED
      BY <1>1, <2>1, <2>2, <3>1, <3>2 DEF IInv, Tally
  <2>3. CASE package = "libc" /\ num' = 1 /\ package' = "mm" /\ stage' = "read"
    <3>1. Invalid(valid', Done') = {}
      BY <2>3 DEF Invalid, Done
    <3>2. errors = 0 /\ \A n \in 1 .. NumTraces : ~valid[n]
      BY <2>3 DEF IInv, Tally
    <3> QED
      BY <1>1, <1>2, <2>3, <3>1, <3>2, FS_EmptySet DEF Tally
  <2>4. CASE /\ num >= NumTraces /\ package # "libc" /\ num' = num /\ package' = package
             /\ stage' = IF errors = 0 THEN "index" ELSE "errors"
    <3>1. Done' = 1 .. num
      BY <2>4 DEF Done
    <3>2. package = "mm" /\ num = NumTraces
      BY <1>2, <2>4
    <3> QED
      BY <1>1, <2>1, <2>4, <3>1, <3>2 DEF IInv, Tally
  <2> QED
    BY <1>1, <2>2, <2>3, <2>4
<1> QED
  BY <1>1, <1>3, <1>4, <1>5, Quiet DEF IInv

-----------------------------------------------------------------------------
(* The requests.                                                           *)

\* A request that is answered leaves main where it was.
LEMMA ProceedKeeps ==
  ASSUME MdriverAssumption, IInv, Books, Proceed, trace' = trace, op + 1 \in 1 .. Len(trace') + 1,
         blocks' \in [Ids -> Int], sizes' \in [Ids -> Int],
         brk' \in 0 .. HeapMax, DOMAIN mem' = DOMAIN mem, total' \in Int, hwm' \in Int, good' \in BOOLEAN
  PROVE  Types' /\ Verdict' /\ Tally' /\ Books' /\ (Checked' <=> Checked)
<1>1. UNCHANGED <<package, num, stage, errors, valid, trace>> /\ op' = op + 1 /\ stage \in Replaying
  BY DEF Proceed, Books, Replaying
<1>2. op + 1 \in 0 .. Len(trace') + 1
  OBVIOUS
<1>3. Types'
  BY <1>1, <1>2 DEF IInv, Types, Replaying
<1>4. Verdict'
  BY <1>1 DEF IInv, Verdict, Replaying
<1>5. Tally'
  <2>1. Done' = Done
    BY <1>1 DEF Done
  <2> QED
    BY <1>1, <2>1 DEF IInv, Tally
<1>6. Books' /\ (Checked' <=> Checked)
  BY <1>1 DEF Books, Checked, Replaying
<1> QED
  BY <1>3, <1>4, <1>5, <1>6

\* free takes a block off the books, the list and the count.
LEMMA FreeBlockKeeps == ASSUME MdriverAssumption, IInv, FreeBlock PROVE IInv'
<1> DEFINE id == Request.id
           rest == Without(live, id)
<1>1. /\ Playing("free") /\ Proceed /\ live' = rest
      /\ ranges' = IF Checked THEN RemoveRange(ranges, blocks[id]) ELSE ranges
      /\ Count(-sizes[id])
      /\ UNCHANGED <<trace, blocks, sizes, mem, brk, good>>
  BY DEF FreeBlock, Without
<1>2. /\ Books /\ op \in Nat \ {0} /\ op + 1 \in 1 .. Len(trace') + 1
      /\ id \in DOMAIN live /\ Request.type = "free" /\ id \in Ids
      /\ Blocks(live) /\ DOMAIN live = LiveBefore(trace, op) /\ DOMAIN live \subseteq Ids
      /\ blocks \in [Ids -> Int] /\ sizes \in [Ids -> Int]
  <2>1. "free" # "alloc" /\ Playing("free") /\ trace' = trace
    BY <1>1
  <2> QED
    BY <2>1, NextRequest
<1>3. op' = op + 1 /\ stage' = stage /\ package' = package
  BY <1>1 DEF Proceed
<1>4. live[id].size \in Nat \ {0} /\ live[id].lo \in Int
  BY <1>2 DEF Blocks
<1>5. DOMAIN rest = DOMAIN live \ {id} /\ \A x \in DOMAIN rest : rest[x] = live[x]
  BY DEF Without
<1>6. blocks[id] = live[id].lo /\ (package = "mm" /\ stage # "speed" => sizes[id] = live[id].size)
  BY <1>2 DEF IInv, CallsAreLegal
<1>7. sizes[id] \in Int /\ total \in Int /\ hwm \in Int /\ brk \in Int
  BY <1>2 DEF IInv, Types, MdriverAssumption
<1> HIDE DEF id, rest
<1>8. total' \in Int /\ hwm' \in Int
  BY <1>1, <1>7 DEF Count
<1>9. Types' /\ Verdict' /\ Tally' /\ Books' /\ (Checked' <=> Checked)
  <2>1. brk' \in 0 .. HeapMax /\ DOMAIN mem' = DOMAIN mem /\ good' \in BOOLEAN
    BY <1>1 DEF IInv, Types
  <2> QED
    BY <1>1, <1>2, <1>8, <2>1, ProceedKeeps
<1>10. Checked => Lists(ranges', live')
  <2>1. Checked => Lists(ranges, live)
    BY <1>2 DEF IInv, Checks
  <2> QED
    BY <1>1, <1>2, <1>6, <2>1, ListsRemove DEF rest
<1>11. Grown(ranges')
  BY <1>1, <1>10 DEF IInv, Lists
<1>12. Owing'
  <2>1. LiveBefore(trace, op + 1) = LiveBefore(trace, op) \ {id}
    BY <1>2, LiveAfter DEF Request, id
  <2>2. IsFiniteSet(DOMAIN rest)
    BY <1>2, <1>5, FS_Subset DEF Blocks
  <2>3. rest \in [DOMAIN rest -> [lo : Int, size : Nat \ {0}]]
    BY <1>2, <1>5 DEF Blocks, Without, rest
  <2> QED
    BY <1>1, <1>2, <1>3, <1>5, <2>1, <2>2, <2>3 DEF Owing, Blocks
<1>13. CallsAreLegal'
  BY <1>1, <1>2, <1>3, <1>5 DEF IInv, CallsAreLegal
<1>14. Checks'
  BY <1>9, <1>10 DEF Checks
<1>15. Sound'
  <2>1. SUFFICES ASSUME good PROVE Placed(rest, brk) /\ (Checked => Holds(rest, mem))
    BY <1>1, <1>9 DEF Sound
  <2>2. Placed(live, brk) /\ (Checked => Holds(live, mem))
    BY <1>2, <2>1 DEF IInv, Sound
  <2>3. Placed(rest, brk)
    BY <2>2, PlacedWithout DEF rest
  <2>4. Checked => Holds(rest, mem)
    BY <1>5, <2>2 DEF Holds
  <2> QED
    BY <2>3, <2>4
<1>16. Utils'
  <2>1. SUFFICES ASSUME package = "mm", stage = "util"
                 PROVE  /\ IsFiniteSet(OwedBy(rest)) /\ total' = Cardinality(OwedBy(rest))
                        /\ hwm' >= total' /\ (good => hwm' <= brk)
    BY <1>1, <1>3 DEF Utils
  <2>2. /\ IsFiniteSet(OwedBy(live)) /\ total = Cardinality(OwedBy(live))
        /\ hwm >= total /\ (good => hwm <= brk)
    BY <1>2, <2>1 DEF IInv, Utils
  <2>3. IsFiniteSet(OwedBy(rest))
    BY <2>2, OwedWithout DEF rest
  <2>4. total = Cardinality(OwedBy(rest)) + live[id].size
    BY <1>2, <2>2, <2>3, OwedSplit DEF rest
  <2>5. total' = total + -live[id].size /\ hwm' = IF total + -live[id].size > hwm THEN total + -live[id].size ELSE hwm
    BY <1>1, <1>6, <2>1 DEF Count, id
  <2>6. Cardinality(OwedBy(rest)) \in Nat
    BY <2>3, FS_CardinalityType
  <2>7. total' = Cardinality(OwedBy(rest)) /\ hwm' = hwm /\ hwm >= total'
    BY <1>4, <1>7, <2>2, <2>4, <2>5, <2>6
  <2> QED
    BY <2>2, <2>3, <2>7
<1> QED
  BY <1>9, <1>11, <1>12, <1>13, <1>14, <1>15, <1>16 DEF IInv

\* What a step leaves of the bytes of the blocks of b.
Kept(m, old, b) == \A x \in DOMAIN b : \A a \in Payload(b[x].lo, b[x].size) : m[a] = old[a]

\* The payload at p is apart from the blocks of b.
Apart(p, size, b) == \A x \in DOMAIN b : Payload(p, size) \intersect Payload(b[x].lo, b[x].size) = {}

\* The books agree with the blocks of b.
Agree(b) == \A x \in DOMAIN b :
  /\ blocks[x] = b[x].lo
  /\ package = "mm" /\ stage # "speed" => sizes[x] = b[x].size

\* A request that is answered with a block, whose place is taken.
LEMMA AnsweredKeeps ==
  ASSUME MdriverAssumption, IInv, Books,
         NEW id \in Ids, NEW p \in Int, NEW size \in Nat \ {0}, NEW top \in brk .. HeapMax,
         NEW b, Blocks(b), Joined(live', b, id, p, size), DOMAIN b \subseteq Ids,
         DOMAIN live' = LiveBefore(trace, op + 1), op + 1 \in 1 .. Len(trace') + 1, Agree(b),
         NEW m, DOMAIN m = DOMAIN mem,
         NEW list, Checked => Lists(list, b) /\ Accepts(list, top, p, size),
         ranges' = IF Checked THEN AddRange(list, p, size) ELSE ranges,
         mem' = IF Checked THEN Filled(m, p, size, id) ELSE m,
         brk' = top, trace' = trace, Remember(id, p, size), Proceed, good' \in BOOLEAN,
         good' => good /\ Payload(p, size) \subseteq 0 .. top - 1 /\ Apart(p, size, b) /\ Kept(m, mem, b),
         good => Placed(b, brk) /\ (Checked => Holds(b, mem)),
         total' \in Int, hwm' \in Int,
         package = "mm" /\ stage = "util" =>
           /\ IsFiniteSet(OwedBy(b)) /\ total' = Cardinality(OwedBy(b)) + size
           /\ hwm' = IF total' > hwm THEN total' ELSE hwm
  PROVE  IInv'
<1>0. /\ brk \in Int /\ HeapMax \in Int /\ brk <= top /\ top <= HeapMax /\ top \in 0 .. HeapMax
      /\ DOMAIN mem = 0 .. HeapMax - 1 /\ hwm \in Int
      /\ blocks \in [Ids -> Int] /\ sizes \in [Ids -> Int]
  BY DEF IInv, Types, MdriverAssumption, Books, Replaying
<1>1. op' = op + 1 /\ stage' = stage /\ package' = package
  BY DEF Proceed
<1>2. blocks' \in [Ids -> Int] /\ sizes' \in [Ids -> Int]
  BY <1>0 DEF Remember
<1>3. DOMAIN mem' = DOMAIN mem
  BY DEF Filled
<1>4. Types' /\ Verdict' /\ Tally' /\ Books' /\ (Checked' <=> Checked)
  BY <1>0, <1>2, <1>3, ProceedKeeps
<1>5. Blocks(live') /\ Without(live', id) = b /\ (IsFiniteSet(OwedBy(b)) =>
        IsFiniteSet(OwedBy(live')) /\ Cardinality(OwedBy(live')) = Cardinality(OwedBy(b)) + size)
  BY JoinedOwed
<1>6. /\ DOMAIN live' = DOMAIN b \union {id} /\ \A x \in DOMAIN b : live'[x] = b[x]
      /\ live'[id].lo = p /\ live'[id].size = size /\ live'[id] = [lo |-> p, size |-> size] /\ id \notin DOMAIN b
  BY DEF Joined
<1>7. Checked => Lists(ranges', live')
  <2>1. SUFFICES ASSUME Checked PROVE Lists(AddRange(list, p, size), live')
    OBVIOUS
  <2>2. Lists(list, b) /\ Accepts(list, top, p, size)
    BY <2>1
  <2> QED
    BY <1>6, <2>2, ListsAdd
<1>8. Grown(ranges')
  BY <1>7 DEF IInv, Lists
<1>9. Owing'
  BY <1>1, <1>5, <1>6 DEF Owing
<1>10. CallsAreLegal'
  <2>1. blocks'[id] = p /\ \A x \in DOMAIN b : blocks'[x] = blocks[x]
    BY <1>0, <1>6 DEF Remember
  <2>2. package = "mm" /\ stage # "speed" => sizes'[id] = size /\ \A x \in DOMAIN b : sizes'[x] = sizes[x]
    BY <1>0, <1>6 DEF Remember
  <2> QED
    BY <1>1, <1>6, <2>1, <2>2 DEF CallsAreLegal, Agree
<1>11. Checks'
  BY <1>4, <1>7 DEF Checks
<1>12. good' => Placed(live', top) /\ Placed(live', HeapMax)
  <2>1. SUFFICES ASSUME good' PROVE Placed(live', top) /\ Placed(live', HeapMax)
    OBVIOUS
  <2>2. /\ Payload(p, size) \subseteq 0 .. top - 1 /\ Placed(b, brk)
        /\ \A x \in DOMAIN b : Payload(p, size) \intersect Payload(b[x].lo, b[x].size) = {}
    BY <2>1 DEF Apart
  <2>3. top \in Int /\ size \in Nat
    BY <1>0
  <2>4. Placed(live', top)
    BY <1>0, <2>2, <2>3, PlacedJoined
  <2>5. 0 .. top - 1 \subseteq 0 .. HeapMax - 1
    BY <1>0
  <2> QED
    BY <2>4, <2>5 DEF Placed
<1>13. Sound'
  <2>1. SUFFICES ASSUME good', Checked PROVE Holds(live', mem')
    BY <1>4, <1>12 DEF Sound
  <2>2. Holds(b, mem) /\ Placed(live', HeapMax) /\ DOMAIN m = 0 .. HeapMax - 1
    BY <1>0, <1>12, <2>1
  <2>3. \A x \in DOMAIN b : \A a \in Payload(b[x].lo, b[x].size) : m[a] = mem[a]
    BY <2>1 DEF Kept
  <2>4. Holds(live', Filled(m, p, size, id))
    BY <2>2, <2>3, FilledHolds
  <2> QED
    BY <2>1, <2>4
<1>14. Utils'
  <2>1. SUFFICES ASSUME package = "mm", stage = "util"
                 PROVE  /\ IsFiniteSet(OwedBy(live')) /\ total' = Cardinality(OwedBy(live'))
                        /\ hwm' >= total' /\ (good' => hwm' <= top)
    BY <1>1 DEF Utils
  <2>2. IsFiniteSet(OwedBy(live')) /\ total' = Cardinality(OwedBy(live'))
    BY <1>5, <2>1
  <2>3. hwm' = (IF total' > hwm THEN total' ELSE hwm) /\ hwm' >= total'
    BY <1>0, <2>1
  <2>4. ASSUME good' PROVE hwm' <= top
    <3>1. hwm <= brk
      BY <2>1, <2>4 DEF IInv, Utils
    <3>2. top \in Nat
      BY <1>0
    <3>3. Cardinality(OwedBy(live')) <= top
      <4>1. Placed(live', top)
        BY <1>12, <2>4
      <4> QED
        BY <3>2, <4>1, OwedFits DEF Placed
    <3> QED
      BY <1>0, <2>2, <2>3, <3>1, <3>3
  <2> QED
    BY <2>2, <2>3, <2>4
<1> QED
  BY <1>4, <1>8, <1>9, <1>10, <1>11, <1>13, <1>14 DEF IInv

\* A byte that is written leaves the domain of the memory.
LEMMA ScribbledDomain ==
  ASSUME NEW old, NEW m \in Scribbled(old) PROVE DOMAIN m = DOMAIN old
BY DEF Scribbled

\* Data that is kept is kept byte by byte.
LEMMA KeptBytes ==
  ASSUME NEW b, Blocks(b), NEW m,
         \A x \in DOMAIN b : SameBytes(m, b[x].lo, b[x].lo, b[x].size)
  PROVE  Kept(m, mem, b)
<1> SUFFICES ASSUME NEW x \in DOMAIN b, NEW a \in Payload(b[x].lo, b[x].size) PROVE m[a] = mem[a]
  BY DEF Kept
<1>1. b[x].lo \in Int /\ b[x].size \in Nat
  BY DEF Blocks
<1>2. a - b[x].lo \in 0 .. b[x].size - 1 /\ b[x].lo + (a - b[x].lo) = a
  BY <1>1 DEF Payload
<1>3. m[b[x].lo + (a - b[x].lo)] = mem[b[x].lo + (a - b[x].lo)]
  BY <1>2 DEF SameBytes
<1> QED
  BY <1>2, <1>3

\* malloc, with its place accepted or not.
LEMMA AllocKeeps ==
  ASSUME MdriverAssumption, IInv, NEW p \in Addresses, NEW top \in Tops, NEW m \in Scribbled(mem),
         Alloc(p, top, m)
  PROVE  IInv'
<1> DEFINE id == Request.id
           size == Request.size
           taken == ~Checked \/ Accepts(ranges, top, p, size)
<1>1. /\ Playing("alloc") /\ trace' = trace /\ brk' = top
      /\ good' = (good /\ RightPlace(p, size, DOMAIN live, top) /\ KeepsData(m, DOMAIN live))
      /\ live' = [x \in DOMAIN live \union {id} |-> IF x = id THEN [lo |-> p, size |-> size] ELSE live[x]]
      /\ taken => /\ ranges' = IF Checked THEN AddRange(ranges, p, size) ELSE ranges
                  /\ mem' = IF Checked THEN Filled(m, p, size, id) ELSE m
                  /\ Remember(id, p, size) /\ Count(size) /\ Proceed
      /\ ~taken => Reject /\ mem' = m /\ UNCHANGED <<ranges, blocks, sizes, total, hwm>>
  BY DEF Alloc
<1>2. /\ Books /\ op \in Nat \ {0} /\ op + 1 \in 1 .. Len(trace') + 1
      /\ id \notin DOMAIN live /\ Request.type = "alloc" /\ id \in Ids /\ size \in Nat \ {0}
      /\ Blocks(live) /\ DOMAIN live = LiveBefore(trace, op) /\ DOMAIN live \subseteq Ids
  <2>1. "alloc" # "free" /\ Playing("alloc") /\ trace' = trace
    BY <1>1
  <2> QED
    BY <2>1, NextRequest
<1>3. p \in Int /\ top \in brk .. HeapMax /\ top \in 0 .. HeapMax /\ top \in Nat /\ DOMAIN m = DOMAIN mem
  BY ScribbledDomain DEF Addresses, Tops, IInv, Types, MdriverAssumption
<1>4. Joined(live', live, id, p, size)
  BY <1>1, <1>2 DEF Joined
<1>5. DOMAIN live' = LiveBefore(trace, op + 1)
  <2>1. LiveBefore(trace, op + 1) = LiveBefore(trace, op) \union {id}
    BY <1>2, LiveAfter DEF Request
  <2> QED
    BY <1>2, <1>4, <2>1 DEF Joined
<1>6. good' \in BOOLEAN
  BY <1>1 DEF IInv, Types
<1>7. good' => /\ good /\ p % Alignment = 0 /\ Payload(p, size) \subseteq 0 .. top - 1
               /\ Apart(p, size, live) /\ Kept(m, mem, live)
  <2>1. SUFFICES ASSUME good'
                 PROVE  /\ good /\ p % Alignment = 0 /\ Payload(p, size) \subseteq 0 .. top - 1
                        /\ Apart(p, size, live) /\ Kept(m, mem, live)
    OBVIOUS
  <2>2. good /\ RightPlace(p, size, DOMAIN live, top) /\ KeepsData(m, DOMAIN live)
    BY <1>1, <2>1
  <2>3. Kept(m, mem, live)
    BY <1>2, <2>2, KeptBytes DEF KeepsData
  <2> HIDE DEF id, size
  <2> QED
    BY <2>2, <2>3 DEF RightPlace, Disjoint, Apart
<1>8. Checked => Lists(ranges, live)
  BY <1>2 DEF IInv, Checks
<1>9. total \in Int /\ hwm \in Int /\ Grown(ranges)
  BY DEF IInv, Types
<1> HIDE DEF id, size
<1>10. CASE taken
  <2>1. Agree(live)
    BY <1>2 DEF IInv, CallsAreLegal, Agree
  <2>2. good => Placed(live, brk) /\ (Checked => Holds(live, mem))
    BY <1>2 DEF IInv, Sound
  <2>3. total' \in Int /\ hwm' \in Int
    BY <1>1, <1>2, <1>9, <1>10 DEF Count
  <2>4. package = "mm" /\ stage = "util" =>
          /\ IsFiniteSet(OwedBy(live)) /\ total' = Cardinality(OwedBy(live)) + size
          /\ hwm' = IF total' > hwm THEN total' ELSE hwm
    BY <1>1, <1>2, <1>10 DEF Count, IInv, Utils
  <2>5. Checked => Accepts(ranges, top, p, size)
    BY <1>10
  <2>6. /\ ranges' = IF Checked THEN AddRange(ranges, p, size) ELSE ranges
        /\ mem' = IF Checked THEN Filled(m, p, size, id) ELSE m
        /\ Remember(id, p, size) /\ Proceed
    BY <1>1, <1>10
  <2> HIDE DEF taken
  <2> QED
    BY <1>1, <1>2, <1>3, <1>4, <1>5, <1>6, <1>7, <1>8, <2>1, <2>2, <2>3, <2>4, <2>5, <2>6, AnsweredKeeps
<1>11. CASE ~taken
  <2>1. Checked /\ ~Accepts(ranges, top, p, size)
    BY <1>11
  <2>2. ~good'
    BY <1>2, <1>3, <1>7, <1>8, <2>1, RightAccepted DEF Apart
  <2>3. /\ Reject /\ Grown(ranges') /\ DOMAIN mem' = DOMAIN mem /\ brk' \in 0 .. HeapMax
        /\ UNCHANGED <<trace, total, hwm>>
    BY <1>1, <1>3, <1>9, <1>11
  <2>4. stage \in Replaying
    BY <1>1 DEF Playing, Replaying
  <2> QED
    BY <1>6, <2>1, <2>2, <2>3, <2>4, RejectKeeps
<1> QED
  BY <1>10, <1>11

\* Where the old bytes are there and read right the comparison succeeds.
LEMMA ComparisonSucceeds ==
  ASSUME NEW m, NEW b, Holds(b, mem), NEW id \in DOMAIN b, Blocks(b), NEW p \in Int, NEW size \in Nat,
         SameBytes(m, p, b[id].lo, Lesser(b[id].size, size)), AsChar(LowByte(id)) = LowByte(id),
         NEW j \in 0 .. Compared(b[id].size, size) - 1
  PROVE  AsChar(m[p + j]) = LowByte(id)
<1>1. b[id].lo \in Int /\ b[id].size \in Nat
  BY DEF Blocks
<1>2. j \in 0 .. Lesser(b[id].size, size) - 1 /\ b[id].lo + j \in Payload(b[id].lo, b[id].size)
  BY <1>1 DEF Compared, Lesser, Payload
<1>3. m[p + j] = mem[b[id].lo + j]
  BY <1>2 DEF SameBytes
<1>4. mem[b[id].lo + j] = LowByte(id)
  BY <1>2 DEF Holds
<1> QED
  BY <1>3, <1>4

\* realloc, accepted, rejected for its place, or rejected for its bytes.
LEMMA ReallocKeeps ==
  ASSUME MdriverAssumption, IInv, NEW p \in Addresses, NEW top \in Tops, Realloc(p, top)
  PROVE  IInv'
<1> DEFINE id == Request.id
           size == Request.size
           b == Without(live, id)
           list == RemoveRange(ranges, blocks[id])
           accepted == Accepts(list, top, p, size)
           kept(m) == \A j \in 0 .. Compared(sizes[id], size) - 1 : AsChar(m[p + j]) = LowByte(id)
<1>1. PICK m \in Scribbled(Moved(live[id], p, size)) :
        /\ Playing("realloc") /\ trace' = trace /\ brk' = top
        /\ good' = (/\ good /\ RightPlace(p, size, DOMAIN live \ {id}, top) /\ KeepsData(m, DOMAIN live \ {id})
                    /\ SameBytes(m, p, live[id].lo, Lesser(live[id].size, size)))
        /\ live' = [live EXCEPT ![id] = [lo |-> p, size |-> size]]
        /\ ~Checked => mem' = m /\ Remember(id, p, size) /\ Count(size - sizes[id]) /\ Proceed /\ ranges' = ranges
        /\ Checked /\ ~accepted =>
             Reject /\ ranges' = list /\ mem' = m /\ UNCHANGED <<blocks, sizes, total, hwm>>
        /\ Checked /\ accepted =>
             /\ ranges' = AddRange(list, p, size) /\ UNCHANGED <<total, hwm>>
             /\ kept(m) => mem' = Filled(m, p, size, id) /\ Remember(id, p, size) /\ Proceed
             /\ ~kept(m) => Reject /\ mem' = m /\ UNCHANGED <<blocks, sizes>>
  BY DEF Realloc
<1>2. /\ Books /\ op \in Nat \ {0} /\ op \in 1 .. Len(trace) /\ op + 1 \in 1 .. Len(trace') + 1
      /\ id \in DOMAIN live /\ Request.type = "realloc" /\ id \in Ids /\ size \in Nat \ {0}
      /\ Blocks(live) /\ DOMAIN live = LiveBefore(trace, op) /\ DOMAIN live \subseteq Ids
  <2>1. "realloc" # "free" /\ "realloc" # "alloc" /\ Playing("realloc") /\ trace' = trace
    BY <1>1
  <2> QED
    BY <2>1, NextRequest
<1>3. p \in Int /\ top \in brk .. HeapMax /\ top \in 0 .. HeapMax /\ top \in Nat /\ DOMAIN m = DOMAIN mem
  BY ScribbledDomain DEF Moved, Addresses, Tops, IInv, Types, MdriverAssumption
<1>4. DOMAIN b = DOMAIN live \ {id} /\ \A x \in DOMAIN b : b[x] = live[x]
  BY DEF Without
<1>5. Blocks(b)
  <2>1. b \in [DOMAIN b -> [lo : Int, size : Nat \ {0}]]
    BY <1>2 DEF Blocks, Without
  <2>2. IsFiniteSet(DOMAIN b)
    BY <1>2, <1>4, FS_Subset DEF Blocks
  <2> QED
    BY <2>1, <2>2 DEF Blocks
<1>6. Joined(live', b, id, p, size)
  <2>1. live' = [x \in DOMAIN live |-> IF x = id THEN [lo |-> p, size |-> size] ELSE live[x]]
    BY <1>1
  <2> QED
    BY <1>2, <1>4, <2>1 DEF Joined
<1>7. DOMAIN live' = LiveBefore(trace, op + 1) /\ DOMAIN b \subseteq Ids
  <2>1. LiveBefore(trace, op + 1) = LiveBefore(trace, op)
    BY <1>2, LiveAfter DEF Request
  <2> QED
    BY <1>1, <1>2, <1>4, <2>1
<1>8. good' \in BOOLEAN
  BY <1>1 DEF IInv, Types
<1>9. Agree(live) /\ Agree(b)
  BY <1>2, <1>4 DEF IInv, CallsAreLegal, Agree
<1>10. Checked => Lists(list, b)
  <2>1. blocks[id] = live[id].lo
    BY <1>2, <1>9 DEF Agree
  <2>2. Checked => Lists(ranges, live)
    BY <1>2 DEF IInv, Checks
  <2> QED
    BY <1>2, <2>1, <2>2, ListsRemove
<1>11. total \in Int /\ hwm \in Int /\ Grown(ranges) /\ live[id].size \in Nat \ {0} /\ sizes[id] \in Int
  BY <1>2 DEF IInv, Types, Blocks, Books, Replaying
<1>12. good => /\ Placed(live, brk) /\ Placed(b, brk)
               /\ Checked => Holds(live, mem) /\ Holds(b, mem)
  <2>1. SUFFICES ASSUME good
                 PROVE  Placed(live, brk) /\ Placed(b, brk) /\ (Checked => Holds(live, mem) /\ Holds(b, mem))
    OBVIOUS
  <2>2. Placed(live, brk) /\ (Checked => Holds(live, mem))
    BY <1>2, <2>1 DEF IInv, Sound
  <2>3. Placed(b, brk)
    BY <2>2, PlacedWithout
  <2>4. Checked => Holds(b, mem)
    BY <1>4, <2>2 DEF Holds
  <2> QED
    BY <2>2, <2>3, <2>4
<1>13. stage \in Replaying
  BY <1>1 DEF Playing, Replaying
<1> HIDE DEF id, size, b, list
<1>14. good' => /\ good /\ p % Alignment = 0 /\ Payload(p, size) \subseteq 0 .. top - 1
                /\ Apart(p, size, b) /\ Kept(m, mem, b)
                /\ SameBytes(m, p, live[id].lo, Lesser(live[id].size, size))
  <2>1. SUFFICES ASSUME good'
                 PROVE  /\ good /\ p % Alignment = 0 /\ Payload(p, size) \subseteq 0 .. top - 1
                        /\ Apart(p, size, b) /\ Kept(m, mem, b)
                        /\ SameBytes(m, p, live[id].lo, Lesser(live[id].size, size))
    OBVIOUS
  <2>2. /\ good /\ RightPlace(p, size, DOMAIN b, top) /\ KeepsData(m, DOMAIN b)
        /\ SameBytes(m, p, live[id].lo, Lesser(live[id].size, size))
    BY <1>1, <1>4, <2>1
  <2>3. Kept(m, mem, b)
    BY <1>4, <1>5, <2>2, KeptBytes DEF KeepsData
  <2> QED
    BY <1>4, <2>2, <2>3 DEF RightPlace, Disjoint, Apart
<1>15. CASE ~Checked \/ (accepted /\ kept(m))
  <2>1. /\ ranges' = IF Checked THEN AddRange(list, p, size) ELSE ranges
        /\ mem' = IF Checked THEN Filled(m, p, size, id) ELSE m
        /\ Remember(id, p, size) /\ Proceed
        /\ Checked => Accepts(list, top, p, size)
    BY <1>1, <1>15
  <2>2. /\ ~Checked => Count(size - sizes[id])
        /\ Checked => total' = total /\ hwm' = hwm
    BY <1>1, <1>15
  <2>3. total' \in Int /\ hwm' \in Int
    BY <1>2, <1>11, <2>2 DEF Count
  <2>4. ASSUME package = "mm", stage = "util"
        PROVE  /\ IsFiniteSet(OwedBy(b)) /\ total' = Cardinality(OwedBy(b)) + size
               /\ hwm' = IF total' > hwm THEN total' ELSE hwm
    <3>1. IsFiniteSet(OwedBy(live)) /\ total = Cardinality(OwedBy(live))
      BY <1>2, <2>4 DEF IInv, Utils
    <3>2. IsFiniteSet(OwedBy(b))
      BY <3>1, OwedWithout DEF b
    <3>3. Cardinality(OwedBy(live)) = Cardinality(OwedBy(b)) + live[id].size
      BY <1>2, <3>2, OwedSplit DEF b
    <3>4. sizes[id] = live[id].size
      BY <1>2, <1>9, <2>4 DEF Agree
    <3>5. total' = total + (size - sizes[id]) /\ hwm' = IF total' > hwm THEN total' ELSE hwm
      BY <2>2, <2>4 DEF Count, Checked
    <3>6. Cardinality(OwedBy(b)) \in Nat
      BY <3>2, FS_CardinalityType
    <3>7. total' = Cardinality(OwedBy(b)) + size
      BY <1>2, <1>11, <3>1, <3>3, <3>4, <3>5, <3>6
    <3> QED
      BY <3>2, <3>5, <3>7
  <2> HIDE DEF accepted, kept
  <2>5. /\ good' => good /\ Payload(p, size) \subseteq 0 .. top - 1 /\ Apart(p, size, b) /\ Kept(m, mem, b)
        /\ good => Placed(b, brk) /\ (Checked => Holds(b, mem))
        /\ brk' = top /\ trace' = trace
    BY <1>1, <1>12, <1>14
  <2> QED
    BY <1>2, <1>3, <1>5, <1>6, <1>7, <1>8, <1>9, <1>10, <2>1, <2>3, <2>4, <2>5, AnsweredKeeps
<1>16. CASE Checked /\ ~accepted
  <2>1. ~good'
    BY <1>2, <1>3, <1>5, <1>10, <1>14, <1>16, RightAccepted DEF Apart
  <2>2. /\ Reject /\ Grown(ranges') /\ DOMAIN mem' = DOMAIN mem /\ brk' \in 0 .. HeapMax
        /\ UNCHANGED <<trace, total, hwm>>
    BY <1>1, <1>3, <1>10, <1>16 DEF Lists
  <2> QED
    BY <1>8, <1>13, <1>16, <2>1, <2>2, RejectKeeps
<1>17. CASE Checked /\ accepted /\ ~kept(m)
  <2>1. ASSUME good', ~Misread PROVE kept(m)
    <3>1. AsChar(LowByte(id)) = LowByte(id)
      <4>1. op \in DOMAIN trace /\ trace[op].type = "realloc" /\ trace[op].id = id
        BY <1>1, <1>2 DEF Playing, Request, id
      <4> QED
        BY <2>1, <4>1 DEF Misread
    <3>2. sizes[id] = live[id].size
      BY <1>2, <1>9, <1>17 DEF Agree, Checked
    <3>3. Holds(live, mem) /\ SameBytes(m, p, live[id].lo, Lesser(live[id].size, size))
      BY <1>12, <1>14, <1>17, <2>1
    <3>4. \A j \in 0 .. Compared(live[id].size, size) - 1 : AsChar(m[p + j]) = LowByte(id)
      BY <1>2, <1>3, <3>1, <3>3, ComparisonSucceeds
    <3> QED
      BY <3>2, <3>4
  <2>2. Grown(ranges')
    <3>1. Grown(list) /\ ranges' = AddRange(list, p, size)
      BY <1>1, <1>10, <1>17 DEF Lists
    <3> QED
      BY <1>2, <1>3, <1>17, <3>1, GrownAdd
  <2>3. Reject /\ DOMAIN mem' = DOMAIN mem /\ brk' \in 0 .. HeapMax /\ UNCHANGED <<trace, total, hwm>>
    BY <1>1, <1>3, <1>17
  <2>4. ~good' \/ Misread
    BY <1>17, <2>1
  <2> QED
    BY <1>8, <1>13, <1>17, <2>2, <2>3, <2>4, RejectKeeps
<1> QED
  BY <1>15, <1>16, <1>17

\* Every step keeps the invariant.
LEMMA NextHolds == ASSUME MdriverAssumption, IInv, [Next]_vars PROVE IInv'
<1>1. CASE ReadTrace
  BY <1>1, ReadTraceKeeps
<1>2. CASE SetUp
  BY <1>2, SetUpKeeps
<1>3. CASE Refused
  BY <1>3, RefusedKeeps
<1>4. CASE FreeBlock
  BY <1>4, FreeBlockKeeps
<1>5. CASE EndReplay
  BY <1>5, EndReplayKeeps
<1>6. CASE FreeTrace
  BY <1>6, FreeTraceKeeps
<1>7. CASE Idle
  BY <1>7, NoStep DEF Idle
<1>8. CASE \E p \in Addresses, top \in Tops : \E m \in Scribbled(mem) : Alloc(p, top, m)
  BY <1>8, AllocKeeps
<1>9. CASE \E p \in Addresses, top \in Tops : Realloc(p, top)
  BY <1>9, ReallocKeeps
<1>10. CASE UNCHANGED vars
  BY <1>10, NoStep
<1> QED
  BY <1>1, <1>2, <1>3, <1>4, <1>5, <1>6, <1>7, <1>8, <1>9, <1>10 DEF Next

-----------------------------------------------------------------------------
(* The theorems.                                                           *)

\* The invariant of main's replays: what the allocator owes, the tester's books,
\* the range list, the counts and the verdicts agree all the time.
THEOREM AlwaysIInv == ASSUME MdriverAssumption PROVE Spec => []IInv
<1>1. Init => IInv
  BY InitHolds
<1>2. IInv /\ [Next]_vars => IInv'
  BY NextHolds
<1> QED
  BY <1>1, <1>2, PTL DEF Spec

\* realloc and free are called only with pointers that the allocator has
\* returned in this replay, and the sizes the tester uses are theirs.
THEOREM AlwaysCallsAreLegal == ASSUME MdriverAssumption PROVE Spec => []CallsAreLegal
<1>1. IInv => CallsAreLegal
  BY DEF IInv
<1> QED
  BY <1>1, AlwaysIInv, PTL

\* The range list is the live blocks, and of two ranges on it that meet the
\* newer one encloses the older one.
THEOREM AlwaysRangesRight == ASSUME MdriverAssumption PROVE Spec => []RangesRight
<1>1. ASSUME IInv PROVE RangesAreLive
  <2>1. SUFFICES ASSUME Books, Checked
                 PROVE  /\ Len(ranges) = Cardinality(DOMAIN live)
                        /\ \A id \in DOMAIN live : \E k \in DOMAIN ranges :
                             ranges[k].lo = live[id].lo /\ ranges[k].hi = live[id].lo + live[id].size - 1
    BY DEF RangesAreLive
  <2>2. Lists(ranges, live) /\ DOMAIN ranges = 1 .. Len(ranges)
    BY <1>1, <2>1 DEF IInv, Checks, Grown
  <2> QED
    BY <2>2 DEF Lists, IsOf
<1>2. ASSUME IInv PROVE AcceptedRanges
  <2>1. Grown(ranges) /\ DOMAIN ranges = 1 .. Len(ranges)
    BY <1>2 DEF IInv, Grown
  <2> QED
    BY <2>1 DEF Grown, Beside, AcceptedRanges
<1>3. IInv => RangesRight
  BY <1>1, <1>2 DEF RangesRight
<1> QED
  BY <1>3, AlwaysIInv, PTL

\* An allocator whose answers have all been right is found valid, on every trace
\* whose ids the comparison of eval_mm_valid reads right.
THEOREM AlwaysGoodIsAccepted == ASSUME MdriverAssumption PROVE Spec => []GoodIsAccepted
<1>1. IInv => GoodIsAccepted
  BY DEF IInv, Verdict, GoodIsAccepted
<1> QED
  BY <1>1, AlwaysIInv, PTL

\* eval_mm_util's totals are the bytes owed, its high water mark stays in a good
\* allocator's heap, and main counts one error for every trace that is not valid.
THEOREM AlwaysBooksRight == ASSUME MdriverAssumption PROVE Spec => []BooksRight
<1>1. Owed = OwedBy(live)
  BY DEF Owed, OwedBy
<1>2. IInv => UtilCounts
  BY <1>1 DEF IInv, Utils, UtilCounts
<1>3. ASSUME IInv PROVE ErrorsCounted
  <2>1. DOMAIN valid = 1 .. NumTraces /\ NumTraces \in Nat
    BY <1>3 DEF IInv, Types, MdriverAssumption
  <2>2. ASSUME stage \in {"index", "errors"}
        PROVE  errors = Cardinality({n \in DOMAIN valid : ~valid[n]})
    <3>1. package = "mm" /\ num = NumTraces /\ errors = Cardinality(Invalid(valid, Done))
      BY <1>3, <2>2 DEF IInv, Tally
    <3>2. Done = DOMAIN valid
      BY <2>1, <2>2, <3>1 DEF Done
    <3> QED
      BY <3>1, <3>2 DEF Invalid
  <2>3. ASSUME stage = "index" PROVE \A n \in DOMAIN valid : valid[n]
    <3>1. {n \in DOMAIN valid : ~valid[n]} \subseteq 1 .. NumTraces
      BY <2>1
    <3>2. IsFiniteSet({n \in DOMAIN valid : ~valid[n]})
      BY <2>1, <3>1, FS_Interval, FS_Subset
    <3>3. Cardinality({n \in DOMAIN valid : ~valid[n]}) = 0
      BY <1>3, <2>2, <2>3 DEF IInv, Tally
    <3>4. {n \in DOMAIN valid : ~valid[n]} = {}
      BY <3>2, <3>3, FS_EmptySet
    <3> QED
      BY <3>4
  <2> QED
    BY <2>2, <2>3 DEF ErrorsCounted
<1>4. IInv => BooksRight
  BY <1>2, <1>3 DEF BooksRight
<1> QED
  BY <1>4, AlwaysIInv, PTL
=============================================================================
