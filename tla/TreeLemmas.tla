----------------------------- MODULE TreeLemmas -----------------------------
(***************************************************************************)
(* Search trees in general: what loops along the links compute, and what a *)
(* rotation, an insertion of a leaf, a removal and a replacement do to a   *)
(* tree of the nodes M when D[n] names what hangs below n and k orders the *)
(* nodes.  Nothing here depends on how a tree is balanced.                 *)
(***************************************************************************)
EXTENDS Trees, FiniteSetTheorems, WellFoundedInduction, TLAPS

(* Loops.                                                                  *)

\* In a set of natural numbers that is not empty, one is the least.
LEMMA Least ==
  ASSUME NEW T, T \subseteq Nat, T # {}
  PROVE  \E x \in T : \A y \in T : x <= y
<1> DEFINE R == OpToRel(<, Nat)
<1>1. IsWellFoundedOn(R, Nat)
  BY NatLessThanWellFounded
<1>2. \A x, y \in Nat : x < y => <<x, y>> \in R
  BY DEF OpToRel
<1> HIDE DEF R
<1>3. PICK x \in T : \A y \in T : ~(<<y, x>> \in R)
  BY <1>1, WFMin
<1>4. \A y \in T : x \in Nat /\ y \in Nat /\ ~(y < x)
  BY <1>2, <1>3
<1> QED
  BY <1>4

\* Induction, for a property given as the set of the numbers that have it.
LEMMA Induction ==
  ASSUME NEW P, P \subseteq Nat, 0 \in P, \A n \in P : n + 1 \in P
  PROVE  P = Nat
<1>1. SUFFICES ASSUME Nat \ P # {} PROVE FALSE
  OBVIOUS
<1>2. PICK n \in Nat \ P : \A y \in Nat \ P : n <= y
  BY <1>1, Least
<1>3. n # 0 /\ n - 1 \in Nat /\ n - 1 + 1 = n
  BY <1>2
<1>4. n - 1 \in P
  BY <1>2, <1>3
<1> QED
  BY <1>2, <1>3, <1>4

\* H repeated n times from b, as a function of the number of times.
HasIterates(B, b, H, n) == \E f \in [0 .. n -> B] : f[0] = b /\ \A k \in 1 .. n : f[k] = H[f[k - 1]]

\* A step can be repeated any number of times.
LEMMA Iterates ==
  ASSUME NEW B, NEW b \in B, NEW H \in [B -> B], NEW n \in Nat
  PROVE  HasIterates(B, b, H, n)
<1> USE DEF HasIterates
<1> DEFINE P == {m \in Nat : HasIterates(B, b, H, m)}
<1>1. 0 \in P
  <2> DEFINE f == [k \in 0 .. 0 |-> b]
  <2>1. f \in [0 .. 0 -> B] /\ f[0] = b /\ 1 .. 0 = {}
    OBVIOUS
  <2> HIDE DEF f
  <2>2. HasIterates(B, b, H, 0)
    BY <2>1
  <2> QED
    BY <2>2
<1>2. ASSUME NEW m \in P PROVE m + 1 \in P
  <2>1. PICK f \in [0 .. m -> B] : f[0] = b /\ \A k \in 1 .. m : f[k] = H[f[k - 1]]
    OBVIOUS
  <2> DEFINE g == [k \in 0 .. m + 1 |-> IF k = m + 1 THEN H[f[m]] ELSE f[k]]
  <2>2. \A k \in 0 .. m : g[k] = f[k]
    OBVIOUS
  <2>3. g[m + 1] = H[f[m]] /\ f[m] \in B
    OBVIOUS
  <2>4. g \in [0 .. m + 1 -> B]
    BY <2>3
  <2> HIDE DEF g
  <2>5. ASSUME NEW k \in 1 .. m + 1 PROVE g[k] = H[g[k - 1]]
    <3>1. CASE k = m + 1
      BY <2>2, <2>3, <3>1
    <3>2. CASE k \in 1 .. m
      BY <2>1, <2>2, <3>2
    <3> QED
      BY <3>1, <3>2
  <2> QED
    BY <2>1, <2>2, <2>4, <2>5
<1> HIDE DEF P
<1>3. P \subseteq Nat
  BY DEF P
<1>4. n \in P
  BY <1>1, <1>2, <1>3, Induction
<1> QED
  BY <1>4 DEF P

\* What Turns computes, step by step.
Runs(turn, f) ==
  /\ \A r \in DOMAIN turn : f[0][r] = r
  /\ \A k \in 1 .. Cardinality(Nodes), r \in DOMAIN turn :
       f[k][r] = IF turn[r] = r THEN r ELSE f[k - 1][turn[r]]

\* The recursion of Turns has a solution, so that its definition is one.
LEMMA TurnsRun ==
  ASSUME NEW A, NEW turn \in [A -> A], NEW start \in A
  PROVE  \E f : Runs(turn, f) /\ Turns(turn, start) = f[Cardinality(Nodes)][start]
<1> DEFINE N == Cardinality(Nodes)
           Body(f) == [k \in 0 .. N |-> [r \in DOMAIN turn |->
                         LET next == turn[r] IN IF k = 0 \/ next = r THEN r ELSE f[k - 1][next]]]
           go == CHOOSE f : f = Body(f)
<1>1. Turns(turn, start) = go[N][start]
  BY DEF Turns
<1>2. N \in Nat
  BY TreesAssumption, FS_CardinalityType
<1>3. \E f : f = Body(f)
  <2> DEFINE B == [A -> A]
             id == [r \in A |-> r]
             H == [F \in B |-> [r \in A |-> IF turn[r] = r THEN r ELSE F[turn[r]]]]
  <2>1. id \in B /\ H \in [B -> B]
    OBVIOUS
  <2> HIDE DEF N, B, id, H
  <2>2. HasIterates(B, id, H, N)
    BY <1>2, <2>1, Iterates
  <2>3. PICK f \in [0 .. N -> B] : f[0] = id /\ \A k \in 1 .. N : f[k] = H[f[k - 1]]
    BY <2>2 DEF HasIterates
  <2> USE DEF B, id, H
  <2>4. ASSUME NEW k \in 0 .. N
        PROVE  f[k] = [r \in A |-> IF k = 0 \/ turn[r] = r THEN r ELSE f[k - 1][turn[r]]]
    <3>1. CASE k = 0
      BY <2>3, <3>1
    <3>2. CASE k # 0
      <4>1. k \in 1 .. N /\ k - 1 \in 0 .. N
        BY <1>2, <3>2
      <4> QED
        BY <2>3, <3>2, <4>1
    <3> QED
      BY <3>1, <3>2
  <2>5. f = Body(f)
    BY <2>4
  <2> QED
    BY <2>5
<1>4. go = Body(go)
  BY <1>3
<1> HIDE DEF go, N
<1>5. Runs(turn, go)
  <2>1. \A k \in 0 .. N, r \in DOMAIN turn :
           go[k][r] = IF k = 0 \/ turn[r] = r THEN r ELSE go[k - 1][turn[r]]
    <3> SUFFICES ASSUME NEW k \in 0 .. N, NEW r \in DOMAIN turn
                 PROVE  go[k][r] = IF k = 0 \/ turn[r] = r THEN r ELSE go[k - 1][turn[r]]
      OBVIOUS
    <3>1. go[k] = Body(go)[k]
      BY <1>4
    <3>2. Body(go)[k] = [q \in DOMAIN turn |->
                           IF k = 0 \/ turn[q] = q THEN q ELSE go[k - 1][turn[q]]]
      OBVIOUS
    <3> QED
      BY <3>1, <3>2
  <2> QED
    BY <1>2, <2>1 DEF Runs, N
<1> QED
  BY <1>1, <1>5 DEF N

\* What holds at the start, and after a turn if it held before, holds at the end; the
\* number of turns may be counted, since a turn that changes nothing may be repeated.
LEMMA TurnsKeep ==
  ASSUME NEW A, NEW turn \in [A -> A], NEW start \in A, NEW I,
         <<0, start>> \in I,
         \A k \in Nat, r \in A : <<k, r>> \in I => <<k + 1, turn[r]>> \in I
  PROVE  Turns(turn, start) \in A /\ <<Cardinality(Nodes), Turns(turn, start)>> \in I
<1> DEFINE N == Cardinality(Nodes)
<1>1. PICK f : Runs(turn, f) /\ Turns(turn, start) = f[N][start]
  BY TurnsRun
<1>2. N \in Nat
  BY TreesAssumption, FS_CardinalityType
<1>3. \A r \in A : f[0][r] = r
  BY <1>1 DEF Runs
<1>4. \A k \in 1 .. N, r \in A : f[k][r] = IF turn[r] = r THEN r ELSE f[k - 1][turn[r]]
  BY <1>1 DEF Runs
<1> HIDE DEF N
<1>5. ASSUME NEW j \in Nat, NEW r \in A, turn[r] = r, <<j, r>> \in I, NEW m \in Nat
      PROVE  <<j + m, r>> \in I
  <2> DEFINE P == {k \in Nat : <<j + k, r>> \in I}
  <2>1. 0 \in P
    BY <1>5
  <2>2. ASSUME NEW k \in P PROVE k + 1 \in P
    <3>1. <<(j + k) + 1, r>> \in I
      BY <1>5
    <3>2. (j + k) + 1 = j + (k + 1)
      OBVIOUS
    <3> QED
      BY <3>1, <3>2
  <2> HIDE DEF P
  <2>3. P \subseteq Nat
    BY DEF P
  <2>4. m \in P
    BY <2>1, <2>2, <2>3, Induction
  <2> QED
    BY <2>4 DEF P
<1> DEFINE Kept(k) == \A j \in Nat, r \in A : <<j, r>> \in I => f[k][r] \in A /\ <<j + k, f[k][r]>> \in I
           Q == {k \in Nat : k <= N => Kept(k)}
<1>6. 0 \in Q
  BY <1>3
<1>7. ASSUME NEW k \in Q PROVE k + 1 \in Q
  <2> SUFFICES ASSUME k + 1 <= N, NEW j \in Nat, NEW r \in A, <<j, r>> \in I
               PROVE  f[k + 1][r] \in A /\ <<j + (k + 1), f[k + 1][r]>> \in I
    OBVIOUS
  <2>1. k \in Nat /\ k + 1 \in 1 .. N /\ (k + 1) - 1 = k /\ k <= N
    BY <1>2
  <2>2. Kept(k)
    BY <2>1
  <2>3. f[k + 1][r] = IF turn[r] = r THEN r ELSE f[k][turn[r]]
    BY <1>4, <2>1
  <2>4. CASE turn[r] = r
    <3>1. k + 1 \in Nat
      BY <2>1
    <3> QED
      BY <1>5, <2>3, <2>4, <3>1
  <2>5. CASE turn[r] # r
    <3>1. <<j + 1, turn[r]>> \in I /\ turn[r] \in A
      OBVIOUS
    <3>2. f[k][turn[r]] \in A /\ <<(j + 1) + k, f[k][turn[r]]>> \in I
      BY <2>2, <3>1
    <3>3. (j + 1) + k = j + (k + 1)
      BY <2>1
    <3> QED
      BY <2>3, <2>5, <3>2, <3>3
  <2> QED
    BY <2>4, <2>5
<1> HIDE DEF Q
<1>8. Q \subseteq Nat
  BY DEF Q
<1>9. N \in Q
  BY <1>2, <1>6, <1>7, <1>8, Induction
<1>10. Kept(N)
  BY <1>2, <1>9 DEF Q
<1>11. 0 + N = N
  BY <1>2
<1> QED
  BY <1>1, <1>10, <1>11 DEF N

-----------------------------------------------------------------------------
(* Trees.                                                                  *)

\* m stands on side q of n in the order of k.
Before(k, q, m, n) == IF q = "left" THEN k[m] <= k[n] ELSE k[n] <= k[m]

\* The fields that link the nodes.
Links(t) == /\ t.root \in Node /\ t.child \in [Side -> [Node -> Node]]
            /\ t.parent \in [Node -> Node]

\* The links stay among the nodes M, and a child knows its parent.
Linked(t, M) ==
  /\ Links(t) /\ M \subseteq Nodes
  /\ t.root \in M \union {Nil}
  /\ \A q \in Side, n \in M : t.child[q][n] \in M \union {Nil}
  /\ \A q \in Side : t.child[q][Nil] = Nil
  /\ t.root # Nil => t.parent[t.root] = Nil
  /\ \A q \in Side, n \in M : t.child[q][n] # Nil => t.parent[t.child[q][n]] = n

\* D[n] is n and what hangs below it, each node once; all of M hangs below the root.
Hanging(t, M, D) ==
  /\ D \in [Node -> SUBSET M]
  /\ D[Nil] = {} /\ D[t.root] = M
  /\ \A q \in Side, n \in M :
       /\ D[n] = {n} \union D[t.child[q][n]] \union D[t.child[Other(q)][n]]
       /\ n \notin D[t.child[q][n]]
       /\ D[t.child[q][n]] \intersect D[t.child[Other(q)][n]] = {}

\* What hangs on a side of a node is on that side in the order of k.
Sorted(t, k, M, D) ==
  /\ k \in [Node -> Int]
  /\ \A q \in Side, n \in M : \A m \in D[t.child[q][n]] : Before(k, q, m, n)

\* A search tree of the nodes M.
SearchTree(t, k, M, D) == Linked(t, M) /\ Hanging(t, M, D) /\ Sorted(t, k, M, D)

\* The two sides.
LEMMA Sides ==
  /\ \A q \in Side : Other(q) \in Side /\ Other(q) # q /\ Other(Other(q)) = q
  /\ \A q, r \in Side : q = r \/ q = Other(r)
BY DEF Side, Other

\* A node hangs below itself, and its child below it.
LEMMA Hangs ==
  ASSUME NEW t, NEW M, NEW D, Linked(t, M), Hanging(t, M, D), NEW n \in M
  PROVE  /\ n \in D[n] /\ n # Nil
         /\ \A q \in Side : /\ D[t.child[q][n]] \subseteq D[n] /\ t.child[q][n] # n
                            /\ t.child[q][n] # Nil => t.child[q][n] \in D[t.child[q][n]]
                            /\ t.child[q][n] # Nil => t.child[q][n] # t.child[Other(q)][n]
<1>1. n \in D[n] /\ "left" \in Side /\ n # Nil
  BY TreesAssumption DEF Hanging, Linked, Side
<1>2. ASSUME NEW q \in Side
      PROVE  /\ D[t.child[q][n]] \subseteq D[n] /\ t.child[q][n] # n
             /\ t.child[q][n] # Nil => t.child[q][n] \in D[t.child[q][n]]
             /\ t.child[q][n] # Nil => t.child[q][n] # t.child[Other(q)][n]
  <2> DEFINE c == t.child[q][n]
  <2>1. D[n] = {n} \union D[c] \union D[t.child[Other(q)][n]] /\ n \notin D[c]
        /\ D[c] \intersect D[t.child[Other(q)][n]] = {}
    BY DEF Hanging
  <2>2. c \in M \union {Nil}
    BY DEF Linked
  <2> HIDE DEF c
  <2>3. c # Nil => c \in D[c]
    BY <2>2, Sides DEF Hanging, Side
  <2>4. c # n
    BY <1>1, <2>1
  <2>5. c # Nil => c # t.child[Other(q)][n]
    BY <2>1, <2>3
  <2> QED
    BY <2>1, <2>3, <2>4, <2>5 DEF c
<1> QED
  BY <1>1, <1>2

\* Whatever hangs below a node has its parent there too.
LEMMA HasParent ==
  ASSUME NEW t, NEW M, NEW D, Linked(t, M), Hanging(t, M, D), NEW c \in M, NEW n \in D[c], n # c
  PROVE  t.parent[n] \in D[c] /\ \E q \in Side : t.child[q][t.parent[n]] = n
<1> DEFINE Orphan(d) == d \in M /\ n \in D[d] /\ n # d
                          /\ ~(t.parent[n] \in D[d] /\ \E q \in Side : t.child[q][t.parent[n]] = n)
           T == {Cardinality(D[d]) : d \in {e \in M : Orphan(e)}}
<1>1. SUFFICES ASSUME Orphan(c) PROVE FALSE
  OBVIOUS
<1>2. ASSUME NEW d \in M PROVE IsFiniteSet(D[d]) /\ Cardinality(D[d]) \in Nat
  BY TreesAssumption, FS_Subset, FS_CardinalityType DEF Linked, Hanging, Node
<1>3. T # {} /\ T \subseteq Nat
  BY <1>1, <1>2
<1>4. PICK k \in T : \A j \in T : k <= j
  <2> HIDE DEF T
  <2> QED
    BY <1>3, Least
<1>5. PICK d \in M : Orphan(d) /\ k = Cardinality(D[d])
  OBVIOUS
<1>6. PICK q \in Side : n \in D[t.child[q][d]]
  BY <1>5 DEF Hanging, Side, Other
<1> DEFINE e == t.child[q][d]
<1>7. e \in M /\ D[e] \subseteq D[d] /\ d \notin D[e] /\ d \in D[d]
  BY <1>5, <1>6, Hangs DEF Linked, Hanging
<1>8. t.parent[e] = d /\ t.child[q][d] = e
  BY <1>7, TreesAssumption DEF Linked
<1> HIDE DEF e
<1>9. n # e
  BY <1>5, <1>7, <1>8
<1>10. Orphan(e)
  BY <1>5, <1>6, <1>7, <1>9 DEF e
<1>11. Cardinality(D[e]) < Cardinality(D[d])
  <2>1. D[e] \in SUBSET D[d] /\ D[e] # D[d]
    BY <1>7
  <2>2. Cardinality(D[e]) <= Cardinality(D[d]) /\ Cardinality(D[e]) # Cardinality(D[d])
    BY <1>2, <2>1, FS_Subset
  <2> QED
    BY <1>2, <1>7, <2>2
<1>12. Cardinality(D[e]) \in T
  BY <1>7, <1>10
<1> QED
  BY <1>2, <1>4, <1>5, <1>7, <1>11, <1>12

\* Where u is linked from: the root, or one side of its parent, and nowhere else.
Placed(t, M, u) ==
  /\ t.parent[u] \in M \union {Nil}
  /\ \A q \in Side, n \in M : t.child[q][n] = u => n = t.parent[u] /\ t.child[Other(q)][n] # u
  /\ t.root = u <=> t.parent[u] = Nil
  /\ t.parent[u] # Nil => \E q \in Side : t.child[q][t.parent[u]] = u

\* Every node of a tree has its place.
LEMMA EachPlaced ==
  ASSUME NEW t, NEW M, NEW D, Linked(t, M), Hanging(t, M, D), NEW u \in M
  PROVE  Placed(t, M, u)
<1>1. u # Nil /\ Nil \notin M
  BY TreesAssumption DEF Linked
<1>2. ASSUME NEW q \in Side, NEW n \in M, t.child[q][n] = u
      PROVE  n = t.parent[u] /\ t.child[Other(q)][n] # u
  BY <1>1, <1>2, Hangs DEF Linked
<1>3. CASE t.root = u
  BY <1>1, <1>2, <1>3 DEF Linked, Placed
<1>4. CASE t.root # u
  <2>1. t.root \in M /\ u \in D[t.root]
    BY <1>1 DEF Linked, Hanging
  <2>2. t.parent[u] \in M /\ \E q \in Side : t.child[q][t.parent[u]] = u
    <3>1. t.parent[u] \in D[t.root] /\ \E q \in Side : t.child[q][t.parent[u]] = u
      BY <1>4, <2>1, HasParent
    <3>2. D[t.root] = M
      BY DEF Hanging
    <3> QED
      BY <3>1, <3>2
  <2> QED
    BY <1>1, <1>2, <1>4, <2>2 DEF Placed
<1> QED
  BY <1>3, <1>4

\* transplant, field by field: r is t after v took u's place.
Transplanted(t, r, M, u, v) ==
  /\ Links(r)
  /\ r.root = IF t.root = u THEN v ELSE t.root
  /\ r.parent = [t.parent EXCEPT ![v] = t.parent[u]]
  /\ \A q \in Side, n \in M : r.child[q][n] = IF t.child[q][n] = u THEN v ELSE t.child[q][n]
  /\ \A q \in Side, n \in Node \ M : r.child[q][n] = t.child[q][n]

\* A rotation, field by field: r is t after x went down to side s.
Rotated(t, r, M, s, x) ==
  LET o   == Other(s)
      y   == t.child[o][x]
      mid == t.child[s][y]
  IN /\ Links(r)
     /\ r.root = IF t.root = x THEN y ELSE t.root
     /\ \A q \in Side, n \in M :
          r.child[q][n] = IF n = x THEN IF q = o THEN mid ELSE t.child[q][n]
                          ELSE IF n = y THEN IF q = s THEN x ELSE t.child[q][n]
                          ELSE IF t.child[q][n] = x THEN y ELSE t.child[q][n]
     /\ \A q \in Side : r.child[q][Nil] = t.child[q][Nil]
     /\ \A n \in M : r.parent[n] = IF n = x THEN y ELSE IF n = y THEN t.parent[x]
                                   ELSE IF n = mid THEN x ELSE t.parent[n]

\* The order of k, seen from either side.
LEMMA BeforeFacts ==
  ASSUME NEW k \in [Node -> Int], NEW q \in Side, NEW a \in Node, NEW b \in Node
  PROVE  /\ Before(k, q, a, b) <=> Before(k, Other(q), b, a)
         /\ \A c \in Node : Before(k, q, a, b) /\ Before(k, q, b, c) => Before(k, q, a, c)
BY DEF Before, Side, Other

\* What hangs below each node after a rotation at x to side s.
Turned(t, D, s, x) ==
  LET y == t.child[Other(s)][x]
  IN [D EXCEPT ![x] = {x} \union D[t.child[s][x]] \union D[t.child[s][y]], ![y] = D[x]]

\* A rotation keeps a search tree of the same nodes, below x's place in particular.
LEMMA RotationKeeps ==
  ASSUME NEW t, NEW k, NEW M, NEW D, SearchTree(t, k, M, D), NEW s \in Side, NEW x \in M,
         t.child[Other(s)][x] # Nil, NEW r, Rotated(t, r, M, s, x), NEW E, E = Turned(t, D, s, x)
  PROVE  SearchTree(r, k, M, E)
<1> DEFINE o == Other(s)
           y == t.child[o][x]
           mid == t.child[s][y]
           cs == t.child[s][x]
           co == t.child[o][y]
<1>1. Linked(t, M) /\ Hanging(t, M, D) /\ Sorted(t, k, M, D)
  BY DEF SearchTree
<1>2. /\ Links(t) /\ M \subseteq Nodes /\ M \subseteq Node /\ Nil \in Node /\ Nil \notin M
      /\ o \in Side /\ o # s /\ Other(o) = s /\ \A q \in Side : q = s \/ q = o
  BY <1>1, TreesAssumption, Sides DEF Linked, Node
<1>3. Placed(t, M, x)
  BY <1>1, EachPlaced
<1>4. y \in M /\ y # x /\ t.parent[y] = x /\ y # cs /\ cs # x /\ cs \in M \union {Nil}
  BY <1>1, <1>2, Hangs DEF Linked
<1>5. mid \in M \union {Nil} /\ mid # y /\ co \in M \union {Nil} /\ co # y /\ co # x /\ mid # x
      /\ (mid # Nil => mid # co)
  <2>1. mid \in M \union {Nil} /\ mid # y /\ co \in M \union {Nil} /\ co # y
        /\ (mid # Nil => mid # co)
    BY <1>1, <1>2, <1>4, Hangs DEF Linked
  <2>2. t.child[o][x] = y /\ y # x
    BY <1>4
  <2>3. \A q \in Side : t.child[q][y] # x
    <3>1. \A q \in Side : D[t.child[q][y]] \subseteq D[y]
      BY <1>1, <1>4, Hangs
    <3>2. x \notin D[y] /\ x \in D[x]
      BY <1>1, <1>2, Hangs DEF Hanging
    <3> QED
      BY <3>1, <3>2
  <2> QED
    BY <1>2, <2>1, <2>3
<1>6. /\ mid # Nil => t.parent[mid] = y
      /\ co # Nil => t.parent[co] = y
      /\ cs # Nil => t.parent[cs] = x
      /\ cs # Nil => cs # mid
  BY <1>1, <1>2, <1>4 DEF Linked
<1>7. ASSUME NEW n \in M, n # x, n # y, NEW q \in Side
      PROVE  t.child[q][n] # y /\ (t.child[q][n] # Nil => t.child[q][n] # mid) /\ t.child[q][n] \in M \union {Nil}
             /\ (t.child[q][n] # Nil => t.parent[t.child[q][n]] = n)
  BY <1>1, <1>2, <1>4, <1>6, <1>7 DEF Linked
<1>8. /\ D[x] = {x} \union D[cs] \union D[y] /\ x \notin D[cs] /\ x \notin D[y]
      /\ D[cs] \intersect D[y] = {}
      /\ D[y] = {y} \union D[mid] \union D[co] /\ y \notin D[mid] /\ y \notin D[co]
      /\ D[mid] \intersect D[co] = {}
      /\ D \in [Node -> SUBSET M] /\ D[Nil] = {} /\ D[t.root] = M
  BY <1>1, <1>2, <1>4 DEF Hanging
<1>9. /\ Links(r)
      /\ r.root = IF t.root = x THEN y ELSE t.root
      /\ \A q \in Side : r.child[q][Nil] = t.child[q][Nil]
      /\ \A n \in M : r.parent[n] = IF n = x THEN y ELSE IF n = y THEN t.parent[x]
                                    ELSE IF n = mid THEN x ELSE t.parent[n]
  BY DEF Rotated
<1>10. \A q \in Side, n \in M :
          r.child[q][n] = IF n = x THEN IF q = o THEN mid ELSE t.child[q][n]
                          ELSE IF n = y THEN IF q = s THEN x ELSE t.child[q][n]
                          ELSE IF t.child[q][n] = x THEN y ELSE t.child[q][n]
  BY DEF Rotated
<1>11. r.child[s][x] = cs /\ r.child[o][x] = mid /\ r.child[s][y] = x /\ r.child[o][y] = co
  BY <1>2, <1>4, <1>10
<1>12. \A n \in Node : E[n] = IF n = y THEN D[x]
                              ELSE IF n = x THEN {x} \union D[cs] \union D[mid] ELSE D[n]
  BY <1>2, <1>4, <1>8 DEF Turned
<1>13. E \in [Node -> SUBSET M]
  <2>1. {x} \union D[cs] \union D[mid] \in SUBSET M /\ D[x] \in SUBSET M
    BY <1>2, <1>4, <1>5, <1>8
  <2> QED
    BY <1>8, <2>1 DEF Turned
<1> HIDE DEF o, y, mid, cs, co
<1>14. Linked(r, M)
  <2>1. r.root \in M \union {Nil} /\ (r.root # Nil => r.parent[r.root] = Nil)
    <3>1. CASE t.root = x
      BY <1>2, <1>3, <1>4, <1>9, <3>1 DEF Placed
    <3>2. CASE t.root # x
      <4>1. t.root \in M \union {Nil} /\ (t.root # Nil => t.parent[t.root] = Nil)
        BY <1>1 DEF Linked
      <4> QED
        BY <1>2, <1>4, <1>6, <1>9, <3>2, <4>1
    <3> QED
      BY <3>1, <3>2
  <2>2. ASSUME NEW q \in Side, NEW n \in M
        PROVE  r.child[q][n] \in M \union {Nil} /\ (r.child[q][n] # Nil => r.parent[r.child[q][n]] = n)
    <3>1. CASE n = x
      <4>1. q = s \/ q = o
        BY <1>2
      <4> QED
        BY <1>2, <1>4, <1>5, <1>6, <1>9, <1>11, <3>1, <4>1
    <3>2. CASE n = y
      <4>1. q = s \/ q = o
        BY <1>2
      <4> QED
        BY <1>2, <1>4, <1>5, <1>6, <1>9, <1>11, <3>2, <4>1
    <3>3. CASE n # x /\ n # y
      <4>1. t.child[q][n] = x => t.parent[x] = n
        BY <1>3 DEF Placed
      <4> QED
        BY <1>2, <1>4, <1>7, <1>9, <1>10, <3>3, <4>1
    <3> QED
      BY <3>1, <3>2, <3>3
  <2> QED
    BY <1>1, <1>2, <1>9, <2>1, <2>2 DEF Linked
<1>15. /\ E[x] = {x} \union D[cs] \union D[mid] /\ E[y] = D[x]
       /\ E[cs] = D[cs] /\ E[mid] = D[mid] /\ E[co] = D[co] /\ E[Nil] = {}
  BY <1>2, <1>4, <1>5, <1>8, <1>12
<1>16. ASSUME NEW n \in M, n # x, n # y
       PROVE  E[n] = D[n] /\ \A q \in Side : E[r.child[q][n]] = D[t.child[q][n]]
  <2>1. E[n] = D[n]
    BY <1>2, <1>12, <1>16
  <2>2. ASSUME NEW q \in Side PROVE E[r.child[q][n]] = D[t.child[q][n]]
    <3>1. r.child[q][n] = IF t.child[q][n] = x THEN y ELSE t.child[q][n]
      BY <1>10, <1>16
    <3>2. t.child[q][n] # y /\ t.child[q][n] \in Node
      BY <1>2, <1>7, <1>16
    <3> QED
      BY <1>12, <1>15, <3>1, <3>2
  <2> QED
    BY <2>1, <2>2
<1>17. Hanging(r, M, E)
  <2>1. E[r.root] = M
    <3>1. t.root \in Node /\ t.root # y
      <4>1. t.root # Nil => t.parent[t.root] = Nil
        BY <1>1 DEF Linked
      <4> QED
        BY <1>2, <1>4, <4>1 DEF Links
    <3> QED
      BY <1>8, <1>9, <1>12, <1>15, <3>1
  <2>2. ASSUME NEW q \in Side, NEW n \in M
        PROVE  /\ E[n] = {n} \union E[r.child[q][n]] \union E[r.child[Other(q)][n]]
               /\ n \notin E[r.child[q][n]]
               /\ E[r.child[q][n]] \intersect E[r.child[Other(q)][n]] = {}
    <3>1. (q = s /\ Other(q) = o) \/ (q = o /\ Other(q) = s)
      BY <1>2 DEF o
    <3>2. CASE n = x
      BY <1>8, <1>11, <1>15, <3>1, <3>2
    <3>3. CASE n = y
      <4>1. E[x] \intersect D[co] = {} /\ y \notin E[x]
        <5>1. D[mid] \subseteq D[y] /\ D[co] \subseteq D[y] /\ y \in D[y]
          BY <1>8
        <5> QED
          BY <1>4, <1>8, <1>15, <5>1
      <4>2. D[x] = {y} \union E[x] \union D[co]
        BY <1>8, <1>15
      <4> QED
        BY <1>8, <1>11, <1>15, <3>1, <3>3, <4>1, <4>2
    <3>4. CASE n # x /\ n # y
      <4>1. /\ D[n] = {n} \union D[t.child[q][n]] \union D[t.child[Other(q)][n]]
            /\ n \notin D[t.child[q][n]]
            /\ D[t.child[q][n]] \intersect D[t.child[Other(q)][n]] = {}
        BY <1>1 DEF Hanging
      <4>2. Other(q) \in Side
        BY Sides
      <4> QED
        BY <1>16, <3>4, <4>1, <4>2
    <3> QED
      BY <3>2, <3>3, <3>4
  <2> QED
    BY <1>13, <1>15, <2>1, <2>2 DEF Hanging
<1>18. k \in [Node -> Int]
  BY <1>1 DEF Sorted
<1>19. Sorted(r, k, M, E)
  <2>1. \A n \in M, q \in Side : D[t.child[q][n]] \subseteq M /\ \A m \in D[t.child[q][n]] : Before(k, q, m, n)
    BY <1>1, <1>2, <1>8 DEF Sorted, Linked
  <2> SUFFICES ASSUME NEW q \in Side, NEW n \in M, NEW m \in E[r.child[q][n]]
               PROVE  Before(k, q, m, n)
    <3>1. \A q \in Side, n \in M : r.child[q][n] \in Node /\ E[r.child[q][n]] \subseteq M
      BY <1>2, <1>9, <1>13 DEF Links
    <3> QED
      BY <1>2, <1>18, <3>1 DEF Sorted
  <2>2. q = s \/ q = o
    BY <1>2
  <2>3. t.child[o][x] = y /\ t.child[s][x] = cs /\ t.child[s][y] = mid /\ t.child[o][y] = co
    BY DEF o, y, cs, mid, co
  <2>4. CASE n = x
    <3>1. D[mid] \subseteq D[y]
      BY <1>8
    <3> QED
      BY <1>2, <1>11, <1>15, <2>1, <2>2, <2>3, <2>4, <3>1
  <2>5. CASE n = y /\ q = s
    <3>1. m \in {x} \union D[cs] \union D[mid]
      BY <1>11, <1>15, <2>5
    <3>2. Before(k, s, x, y)
      <4>1. y \in D[y]
        BY <1>8
      <4>2. Before(k, o, y, x)
        BY <1>2, <2>1, <2>3, <4>1
      <4> QED
        BY <1>2, <1>4, <1>18, <4>2, BeforeFacts
    <3>3. CASE m \in D[cs]
      <4>1. Before(k, s, m, x) /\ m \in Node
        BY <1>2, <2>1, <2>3, <3>3
      <4> QED
        BY <1>2, <1>4, <1>18, <2>5, <3>2, <4>1, BeforeFacts
    <3>4. CASE m \in D[mid]
      BY <1>4, <2>1, <2>3, <2>5, <3>4
    <3> QED
      BY <2>5, <3>1, <3>2, <3>3, <3>4
  <2>6. CASE n = y /\ q = o
    BY <1>2, <1>4, <1>11, <1>15, <2>1, <2>3, <2>6
  <2>7. CASE n # x /\ n # y
    BY <1>16, <2>1, <2>7
  <2> QED
    BY <2>2, <2>4, <2>5, <2>6, <2>7
<1> QED
  BY <1>14, <1>17, <1>19 DEF SearchTree

-----------------------------------------------------------------------------
(* Heights.                                                                *)
\* Sets of nodes are finite, and fewer hang below a node than below its parent.
LEMMA Smaller ==
  ASSUME NEW t, NEW M, NEW D, Linked(t, M), Hanging(t, M, D)
  PROVE  /\ \A n \in Node : /\ IsFiniteSet(D[n]) /\ Cardinality(D[n]) \in Nat
                            /\ Cardinality(D[n]) <= Cardinality(Nodes)
         /\ \A n \in M, q \in Side : Cardinality(D[t.child[q][n]]) < Cardinality(D[n])
<1>1. ASSUME NEW n \in Node
      PROVE  IsFiniteSet(D[n]) /\ Cardinality(D[n]) \in Nat /\ Cardinality(D[n]) <= Cardinality(Nodes)
  <2>1. D[n] \subseteq Nodes
    BY DEF Linked, Hanging
  <2> QED
    BY <2>1, TreesAssumption, FS_Subset, FS_CardinalityType
<1>2. ASSUME NEW n \in M, NEW q \in Side PROVE Cardinality(D[t.child[q][n]]) < Cardinality(D[n])
  <2> DEFINE c == t.child[q][n]
  <2>1. c \in Node /\ n \in Node
    BY DEF Linked, Node
  <2>2. D[c] \in SUBSET D[n] /\ n \in D[n] /\ n \notin D[c]
    BY Hangs DEF Hanging
  <2> HIDE DEF c
  <2>3. Cardinality(D[c]) <= Cardinality(D[n]) /\ Cardinality(D[c]) # Cardinality(D[n])
    BY <1>1, <2>1, <2>2, FS_Subset
  <2> QED
    BY <1>1, <2>1, <2>3 DEF c
<1> QED
  BY <1>1, <1>2

-----------------------------------------------------------------------------
(* Insertion of a leaf.                                                    *)

\* A node of key s may hang on side q of n.
Fits(k, s, q, n) == IF q = "left" THEN s <= k[n] ELSE k[n] <= s

\* toward says of each node on which side of it the key s belongs.
Points(toward, k, s) == toward \in [Node -> Side] /\ \A n \in Node : Fits(k, s, toward[n], n)

\* The descent may be at y: whatever y hangs below lets s hang there too.
Leads(t, k, M, D, s, y) == \A q \in Side, n \in M : y \in D[t.child[q][n]] => Fits(k, s, q, n)

\* The place of a new node of key s: on the empty side of y where s belongs, or at the
\* root of an empty tree.
Place(t, k, M, D, s, toward, y) ==
  /\ y = Nil => t.root = Nil
  /\ y # Nil => y \in M /\ t.child[toward[y]][y] = Nil /\ Leads(t, k, M, D, s, y)

\* One step of the descent.
LEMMA LeadsOn ==
  ASSUME NEW t, NEW k, NEW M, NEW D, SearchTree(t, k, M, D), NEW s \in Int,
         NEW toward, Points(toward, k, s), NEW y \in M \union {Nil}, NEW c \in M,
         y = Nil => t.root = c,
         y # Nil => t.child[toward[y]][y] = c /\ Leads(t, k, M, D, s, y)
  PROVE  Leads(t, k, M, D, s, c)
<1>1. Linked(t, M) /\ Hanging(t, M, D) /\ Nil \notin M /\ M \subseteq Node /\ Links(t)
  BY TreesAssumption DEF SearchTree, Linked, Node
<1> SUFFICES ASSUME NEW q \in Side, NEW n \in M, c \in D[t.child[q][n]] PROVE Fits(k, s, q, n)
  BY DEF Leads
<1> DEFINE e == t.child[q][n]
<1>2. e \in M
  <2>1. e \in M \union {Nil} /\ D[Nil] = {}
    BY <1>1 DEF Linked, Hanging
  <2> QED
    BY <2>1
<1>3. CASE c = e
  <2>1. t.parent[c] = n /\ t.parent[c] # Nil
    BY <1>1, <1>2, <1>3 DEF Linked
  <2>2. y # Nil
    BY <1>1, <2>1 DEF Linked
  <2>3. toward[y] \in Side /\ y \in M
    BY <1>1, <2>2 DEF Points
  <2>4. Placed(t, M, c)
    BY <1>1, EachPlaced
  <2>5. y = n /\ q = toward[y]
    BY <1>3, <2>1, <2>2, <2>3, <2>4, Sides DEF Placed
  <2>6. n \in Node
    BY <1>1
  <2> QED
    BY <2>5, <2>6 DEF Points
<1>4. CASE c # e
  <2>1. t.parent[c] \in D[e]
    BY <1>1, <1>2, <1>4, HasParent
  <2>2. D[e] \subseteq M
    BY <1>1, <1>2 DEF Hanging
  <2>3. y # Nil
    BY <1>1, <2>1, <2>2 DEF Linked
  <2>4. toward[y] \in Side /\ y \in M
    BY <1>1, <2>3 DEF Points
  <2>5. t.parent[c] = y
    BY <1>1, <2>3, <2>4 DEF Linked
  <2> QED
    BY <2>1, <2>3, <2>5 DEF Leads
<1> QED
  BY <1>3, <1>4

\* The descent ends at the place of the new node.
LEMMA DescendIs ==
  ASSUME NEW t, NEW k, NEW M, NEW D, SearchTree(t, k, M, D), NEW s \in Int,
         NEW toward, Points(toward, k, s)
  PROVE  Place(t, k, M, D, s, toward, Descend(t, toward))
<1> DEFINE A == [last : Node, at : Node]
           turn == [r \in A |-> IF r.at = Nil THEN r
                                ELSE [last |-> r.at, at |-> t.child[toward[r.at]][r.at]]]
           start == [last |-> Nil, at |-> t.root]
           Descending(j, r) == /\ r.last \in M \union {Nil} /\ r.at \in M \union {Nil}
                               /\ r.last = Nil => t.root = r.at
                               /\ r.last # Nil => t.child[toward[r.last]][r.last] = r.at /\ Leads(t, k, M, D, s, r.last)
                               /\ r.at # Nil => Cardinality(D[r.at]) + j <= Cardinality(Nodes)
           I == {i \in Nat \X A : Descending(i[1], i[2])}
           last == Turns(turn, start)
<1>1. Descend(t, toward) = last.last
  BY DEF Descend
<1>2. /\ Linked(t, M) /\ Hanging(t, M, D) /\ Nil \notin M /\ M \subseteq Node /\ Links(t) /\ Nil \in Node
      /\ Cardinality(Nodes) \in Nat /\ \A n \in Node : toward[n] \in Side
  BY TreesAssumption, FS_CardinalityType DEF SearchTree, Linked, Node, Points
<1>3. turn \in [A -> A] /\ start \in A
  BY <1>2 DEF Links
<1>4. <<0, start>> \in I
  <2>1. start.last = Nil /\ start.at = t.root /\ t.root \in M \union {Nil}
    BY <1>2 DEF Linked
  <2>2. t.root # Nil => Cardinality(D[t.root]) \in Nat /\ Cardinality(D[t.root]) <= Cardinality(Nodes)
    BY <1>2, <2>1, Smaller
  <2>3. Descending(0, start)
    BY <2>1, <2>2
  <2> HIDE DEF Descending, A, start
  <2> QED
    BY <1>3, <2>3
<1>5. ASSUME NEW j \in Nat, NEW r \in A, <<j, r>> \in I PROVE <<j + 1, turn[r]>> \in I
  <2>1. Descending(j, r)
    BY <1>5
  <2>2. j + 1 \in Nat /\ turn[r] \in A
    BY <1>3
  <2>3. CASE r.at = Nil
    <3>1. turn[r] = r
      BY <2>3
    <3>2. Descending(j + 1, r)
      BY <2>1, <2>3
    <3> HIDE DEF Descending, turn
    <3> QED
      BY <2>2, <3>1, <3>2
  <2>4. CASE r.at # Nil
    <3> DEFINE c == r.at
               q == toward[c]
               d == t.child[q][c]
    <3>1. turn[r] = [last |-> c, at |-> d]
      BY <2>4
    <3>2. c \in M /\ q \in Side /\ r.last \in M \union {Nil}
      BY <1>2, <2>1, <2>4
    <3>3. Leads(t, k, M, D, s, c)
      BY <2>1, <3>2, LeadsOn
    <3>4. d \in M \union {Nil} /\ d \in Node /\ c # Nil
      BY <1>2, <3>2 DEF Linked
    <3>5. /\ Cardinality(D[d]) < Cardinality(D[c]) /\ Cardinality(D[d]) \in Nat
          /\ Cardinality(D[c]) \in Nat
      BY <1>2, <3>2, <3>4, Smaller
    <3>6. Cardinality(D[c]) + j <= Cardinality(Nodes)
      BY <2>1, <2>4
    <3>7. Cardinality(D[d]) + (j + 1) <= Cardinality(Nodes)
      BY <1>2, <3>5, <3>6
    <3>8. turn[r].last = c /\ turn[r].at = d /\ t.child[toward[c]][c] = d
      BY <3>1
    <3> HIDE DEF c, q, d, turn
    <3>9. Descending(j + 1, turn[r])
      BY <3>2, <3>3, <3>4, <3>7, <3>8
    <3> HIDE DEF Descending
    <3> QED
      BY <2>2, <3>9
  <2> QED
    BY <2>3, <2>4
<1> HIDE DEF turn, A, start
<1>6. <<Cardinality(Nodes), last>> \in I
  <2> HIDE DEF I
  <2> QED
    BY <1>3, <1>4, <1>5, TurnsKeep
<1>7. Descending(Cardinality(Nodes), last)
  BY <1>6
<1> HIDE DEF last
<1>8. last.at = Nil
  <2> SUFFICES ASSUME last.at # Nil PROVE FALSE
    OBVIOUS
  <2>1. last.at \in M /\ Cardinality(D[last.at]) + Cardinality(Nodes) <= Cardinality(Nodes)
    BY <1>7
  <2>2. t.child["left"][last.at] \in Node /\ "left" \in Side
    BY <1>2, <2>1 DEF Links, Side
  <2>3. /\ Cardinality(D[t.child["left"][last.at]]) < Cardinality(D[last.at])
        /\ Cardinality(D[t.child["left"][last.at]]) \in Nat /\ Cardinality(D[last.at]) \in Nat
    BY <1>2, <2>1, <2>2, Smaller
  <2> QED
    BY <1>2, <2>1, <2>3
<1> QED
  BY <1>1, <1>7, <1>8 DEF Place

\* A leaf, field by field: r is t after z was hung on side g of y, or made the root.
Hung(t, r, z, g, y) ==
  /\ Links(r) /\ r.root = IF y = Nil THEN z ELSE t.root
  /\ r.parent = [t.parent EXCEPT ![z] = y]
  /\ \A p \in Side, n \in Node :
       r.child[p][n] = IF n = z THEN Nil
                       ELSE IF n = y /\ y # Nil /\ p = g THEN z
                       ELSE t.child[p][n]

\* What hangs below each node when z was hung below y.
Grown(M, D, z, y) ==
  [n \in Node |-> IF n = z THEN {z}
                  ELSE IF n # Nil /\ y \in D[n] THEN D[n] \union {z} ELSE D[n] \ {z}]

\* A new node in its place makes a search tree with that node.
LEMMA HangKeeps ==
  ASSUME NEW t, NEW k, NEW M, NEW D, SearchTree(t, k, M, D), NEW z \in Nodes \ M, NEW s \in Int,
         NEW toward, Points(toward, k, s), NEW y, Place(t, k, M, D, s, toward, y),
         NEW r, Hung(t, r, z, toward[y], y), NEW l, l = [k EXCEPT ![z] = s],
         NEW E, E = Grown(M, D, z, y)
  PROVE  SearchTree(r, l, M \union {z}, E) /\ y \in M \union {Nil} /\ y # z
<1> DEFINE N == M \union {z}
           g == toward[y]
<1>1. /\ Linked(t, M) /\ Hanging(t, M, D) /\ Sorted(t, k, M, D)
      /\ Links(t) /\ M \subseteq Node /\ Nil \notin M /\ z \in Node /\ z # Nil /\ N \subseteq Nodes
      /\ g \in Side /\ y \in M \union {Nil} /\ y # z /\ y \in Node /\ Nil \in Node
  BY TreesAssumption DEF SearchTree, Linked, Node, Points, Place
<1>2. /\ Links(r) /\ r.root = IF y = Nil THEN z ELSE t.root
      /\ r.parent = [t.parent EXCEPT ![z] = y]
      /\ \A p \in Side, n \in Node :
           r.child[p][n] = IF n = z THEN Nil ELSE IF n = y /\ y # Nil /\ p = g THEN z ELSE t.child[p][n]
  BY DEF Hung
<1>3. /\ l[z] = s /\ \A n \in Node \ {z} : l[n] = k[n]
      /\ r.parent[z] = y /\ \A n \in Node \ {z} : r.parent[n] = t.parent[n]
      /\ l \in [Node -> Int]
  BY <1>1, <1>2 DEF Links, Sorted
<1>4. /\ D \in [Node -> SUBSET M] /\ D[Nil] = {} /\ D[t.root] = M /\ z \notin M
      /\ \A n \in M, p \in Side : t.child[p][n] \in M \union {Nil} /\ t.child[p][n] # z
  BY <1>1 DEF Hanging, Linked
<1>5. y = Nil => M = {} /\ t.root = Nil
  BY <1>4 DEF Place
<1>6. y # Nil => y \in M /\ t.child[g][y] = Nil /\ Leads(t, k, M, D, s, y)
  BY DEF Place
<1> HIDE DEF g
<1>7. /\ E[z] = {z} /\ E[Nil] = {}
      /\ \A n \in M \union {Nil} : E[n] = IF y \in D[n] THEN D[n] \union {z} ELSE D[n]
  <2>1. \A n \in Node : E[n] = IF n = z THEN {z}
                               ELSE IF n # Nil /\ y \in D[n] THEN D[n] \union {z} ELSE D[n] \ {z}
    BY DEF Grown
  <2>2. \A n \in M \union {Nil} : n \in Node /\ n # z /\ z \notin D[n]
    BY <1>1, <1>4
  <2>3. \A n \in M \union {Nil} : y \in D[n] => n # Nil
    BY <1>4
  <2>4. E[z] = {z} /\ E[Nil] = {}
    BY <1>1, <1>4, <2>1
  <2>5. ASSUME NEW n \in M \union {Nil} PROVE E[n] = IF y \in D[n] THEN D[n] \union {z} ELSE D[n]
    <3>1. CASE y \in D[n]
      BY <2>1, <2>2, <2>3, <3>1
    <3>2. CASE y \notin D[n]
      <4>1. E[n] = D[n] \ {z}
        BY <2>1, <2>2, <3>2
      <4> QED
        BY <2>2, <3>2, <4>1
    <3> QED
      BY <3>1, <3>2
  <2> QED
    BY <2>4, <2>5
<1>8. E \in [Node -> SUBSET N]
  BY <1>4 DEF Grown
<1> HIDE DEF N
<1>9. Linked(r, N)
  <2>1. r.root \in N \union {Nil} /\ (r.root # Nil => r.parent[r.root] = Nil)
    <3>1. CASE y = Nil
      BY <1>2, <1>3, <3>1 DEF N
    <3>2. CASE y # Nil
      <4>1. r.root = t.root /\ t.root \in M \union {Nil} /\ (t.root # Nil => t.parent[t.root] = Nil)
        BY <1>1, <1>2, <3>2 DEF Linked
      <4> QED
        BY <1>1, <1>3, <1>4, <4>1 DEF N
    <3> QED
      BY <3>1, <3>2
  <2>2. ASSUME NEW q \in Side, NEW n \in N
        PROVE  r.child[q][n] \in N \union {Nil} /\ (r.child[q][n] # Nil => r.parent[r.child[q][n]] = n)
    <3>1. CASE n = z
      BY <1>1, <1>2, <3>1
    <3>2. CASE n = y /\ y # Nil /\ q = g
      BY <1>1, <1>2, <1>3, <3>2 DEF N
    <3>3. CASE n # z /\ ~(n = y /\ y # Nil /\ q = g)
      <4>1. n \in M /\ r.child[q][n] = t.child[q][n]
        BY <1>1, <1>2, <3>3 DEF N
      <4>2. t.child[q][n] \in M \union {Nil} /\ (t.child[q][n] # Nil => t.parent[t.child[q][n]] = n)
        BY <1>1, <4>1 DEF Linked
      <4> QED
        BY <1>1, <1>3, <1>4, <4>1, <4>2 DEF N
    <3> QED
      BY <3>1, <3>2, <3>3
  <2>3. \A q \in Side : r.child[q][Nil] = Nil
    BY <1>1, <1>2 DEF Linked
  <2> QED
    BY <1>1, <1>2, <2>1, <2>2, <2>3 DEF Linked, N
<1>10. Hanging(r, N, E)
  <2>1. E[r.root] = N
    <3>1. CASE y = Nil
      BY <1>2, <1>5, <1>7, <3>1 DEF N
    <3>2. CASE y # Nil
      <4>1. t.root \in M \union {Nil} /\ y \in M
        BY <1>1, <1>6, <3>2 DEF Linked
      <4> QED
        BY <1>2, <1>4, <1>7, <3>2, <4>1 DEF N
    <3> QED
      BY <3>1, <3>2
  <2>2. ASSUME NEW q \in Side, NEW n \in N
        PROVE  /\ E[n] = {n} \union E[r.child[q][n]] \union E[r.child[Other(q)][n]]
               /\ n \notin E[r.child[q][n]]
               /\ E[r.child[q][n]] \intersect E[r.child[Other(q)][n]] = {}
    <3>1. Other(q) \in Side /\ Other(q) # q /\ (q = g \/ Other(q) = g)
      BY <1>1, Sides
    <3>2. CASE n = z
      BY <1>1, <1>2, <1>7, <3>1, <3>2
    <3>3. CASE n # z
      <4>1. n \in M
        BY <3>3 DEF N
      <4>2. /\ D[n] = {n} \union D[t.child[q][n]] \union D[t.child[Other(q)][n]]
            /\ n \notin D[t.child[q][n]] /\ n \notin D[t.child[Other(q)][n]]
            /\ D[t.child[q][n]] \intersect D[t.child[Other(q)][n]] = {}
        BY <1>1, <3>1, <4>1 DEF Hanging
      <4>3. /\ t.child[q][n] \in M \union {Nil} /\ t.child[Other(q)][n] \in M \union {Nil}
            /\ D[t.child[q][n]] \subseteq M /\ D[t.child[Other(q)][n]] \subseteq M
        BY <1>1, <1>4, <3>1, <4>1
      <4>6. /\ \A c \in {n, t.child[q][n], t.child[Other(q)][n]} :
                 E[c] = IF y \in D[c] THEN D[c] \union {z} ELSE D[c]
            /\ n # z /\ z \notin D[t.child[q][n]] /\ z \notin D[t.child[Other(q)][n]]
        BY <1>4, <1>7, <3>3, <4>1, <4>3
      <4>4. CASE n = y
        <5>1. y # Nil /\ t.child[g][n] = Nil
          BY <1>1, <1>6, <4>1, <4>4
        <5>2. CASE q = g
          <6>1. r.child[q][n] = z /\ r.child[Other(q)][n] = t.child[Other(q)][n]
            BY <1>1, <1>2, <3>1, <4>4, <5>1, <5>2
          <6> QED
            BY <1>4, <1>7, <4>2, <4>4, <4>6, <5>1, <5>2, <6>1
        <5>3. CASE Other(q) = g
          <6>1. r.child[Other(q)][n] = z /\ r.child[q][n] = t.child[q][n]
            BY <1>1, <1>2, <3>1, <4>4, <5>1, <5>3
          <6> QED
            BY <1>4, <1>7, <4>2, <4>4, <4>6, <5>1, <5>3, <6>1
        <5> QED
          BY <3>1, <5>2, <5>3
      <4>5. CASE n # y
        <5>1. r.child[q][n] = t.child[q][n] /\ r.child[Other(q)][n] = t.child[Other(q)][n]
          BY <1>1, <1>2, <3>1, <3>3, <4>1, <4>5
        <5> QED
          BY <4>2, <4>5, <4>6, <5>1
      <4> QED
        BY <4>4, <4>5
    <3> QED
      BY <3>2, <3>3
  <2> QED
    BY <1>7, <1>8, <2>1, <2>2 DEF Hanging
<1>11. Sorted(r, l, N, E)
  <2> SUFFICES ASSUME NEW q \in Side, NEW n \in N, NEW m \in E[r.child[q][n]] PROVE Before(l, q, m, n)
    BY <1>3 DEF Sorted
  <2>1. n # z
    <3> SUFFICES ASSUME n = z PROVE FALSE
      OBVIOUS
    <3> QED
      BY <1>1, <1>2, <1>7
  <2>2. n \in M /\ n \in Node
    BY <1>1, <2>1 DEF N
  <2>3. \A i \in M \ {z} : Before(k, q, i, n) => Before(l, q, i, n)
    BY <1>1, <1>3, <2>1, <2>2 DEF Before
  <2>4. Fits(k, s, q, n) => Before(l, q, z, n)
    BY <1>3, <2>1, <2>2 DEF Before, Fits
  <2>5. CASE n = y /\ y # Nil /\ q = g
    <3>1. m = z
      BY <1>2, <1>7, <2>1, <2>2, <2>5
    <3>3. Fits(k, s, q, n)
      BY <2>2, <2>5 DEF Points, g
    <3> QED
      BY <2>4, <3>1, <3>3
  <2>6. CASE ~(n = y /\ y # Nil /\ q = g)
    <3>1. r.child[q][n] = t.child[q][n] /\ t.child[q][n] \in M \union {Nil} /\ D[t.child[q][n]] \subseteq M
      BY <1>1, <1>2, <1>4, <2>1, <2>2, <2>6
    <3>2. CASE m = z
      <4>1. y \in D[t.child[q][n]]
        BY <1>4, <1>7, <3>1, <3>2
      <4>2. y # Nil
        BY <1>1, <3>1, <4>1
      <4> QED
        BY <1>6, <2>2, <2>4, <3>2, <4>1, <4>2 DEF Leads
    <3>3. CASE m # z
      <4>1. m \in D[t.child[q][n]]
        BY <1>7, <3>1, <3>3
      <4> QED
        BY <1>1, <2>2, <2>3, <3>1, <3>3, <4>1 DEF Sorted
    <3> QED
      BY <3>2, <3>3
  <2> QED
    BY <2>5, <2>6
<1> QED
  BY <1>1, <1>2, <1>9, <1>10, <1>11 DEF SearchTree, N

-----------------------------------------------------------------------------
(* Removal.                                                                *)

\* What hangs below a node hangs below whatever that node hangs below.
LEMMA Below ==
  ASSUME NEW t, NEW M, NEW D, Linked(t, M), Hanging(t, M, D), NEW c \in M, NEW n \in D[c]
  PROVE  D[n] \subseteq D[c]
<1> DEFINE Astray(d) == d \in M /\ n \in D[d] /\ ~(D[n] \subseteq D[d])
           T == {Cardinality(D[d]) : d \in {e \in M : Astray(e)}}
<1>1. SUFFICES ASSUME Astray(c) PROVE FALSE
  OBVIOUS
<1>2. ASSUME NEW d \in M PROVE IsFiniteSet(D[d]) /\ Cardinality(D[d]) \in Nat
  BY Smaller DEF Linked, Node
<1>3. T # {} /\ T \subseteq Nat
  BY <1>1, <1>2
<1>4. PICK l \in T : \A j \in T : l <= j
  <2> HIDE DEF T
  <2> QED
    BY <1>3, Least
<1>5. PICK d \in M : Astray(d) /\ l = Cardinality(D[d])
  OBVIOUS
<1>6. d # n
  BY <1>5
<1>7. PICK q \in Side : n \in D[t.child[q][d]]
  BY <1>5, <1>6 DEF Hanging, Side, Other
<1> DEFINE e == t.child[q][d]
<1>8. e \in M /\ D[e] \subseteq D[d]
  BY <1>7, Hangs DEF Linked, Hanging
<1>9. Cardinality(D[e]) < Cardinality(D[d])
  BY Smaller
<1> HIDE DEF e
<1>10. Astray(e)
  BY <1>5, <1>7, <1>8 DEF e
<1>11. Cardinality(D[e]) \in T
  BY <1>8, <1>10
<1> QED
  BY <1>2, <1>4, <1>5, <1>8, <1>9, <1>11

\* m is the last node below n on side s: nothing hangs there, and it stands there of all
\* the others.
Extreme(t, k, M, D, s, n, m) ==
  /\ m \in M /\ m \in D[n] /\ t.child[s][m] = Nil
  /\ \A i \in D[n] : Before(k, s, m, i)

\* Furthest finds it.
LEMMA FurthestIs ==
  ASSUME NEW t, NEW k, NEW M, NEW D, SearchTree(t, k, M, D), NEW n \in M, NEW s \in Side
  PROVE  Extreme(t, k, M, D, s, n, Furthest(t, n, s))
<1> DEFINE far == t.child[s]
           near == t.child[Other(s)]
           turn == [m \in Node |-> IF far[m] = Nil THEN m ELSE far[m]]
           Descending(j, m) == /\ m \in M /\ m \in D[n]
                               /\ \A i \in D[n] : i \in D[m] \/ Before(k, s, m, i)
                               /\ far[m] # Nil => Cardinality(D[m]) + j <= Cardinality(Nodes)
           I == {j \in Nat \X Node : Descending(j[1], j[2])}
           last == Turns(turn, n)
<1>1. Furthest(t, n, s) = last
  BY DEF Furthest
<1>2. /\ Linked(t, M) /\ Hanging(t, M, D) /\ Sorted(t, k, M, D) /\ Nil \notin M /\ M \subseteq Node
      /\ Links(t) /\ Nil \in Node /\ Cardinality(Nodes) \in Nat /\ Other(s) \in Side
      /\ k \in [Node -> Int] /\ n \in Node
  BY TreesAssumption, FS_CardinalityType, Sides DEF SearchTree, Linked, Node, Sorted
<1>3. far \in [Node -> Node] /\ \A m \in M : D[m] \subseteq Node
  BY <1>2 DEF Links, Hanging
<1>4. turn \in [Node -> Node]
  BY <1>3
<1>5. \A m \in M : /\ far[m] \in M \union {Nil} /\ m \in D[m] /\ Cardinality(D[m]) \in Nat
                   /\ Cardinality(D[m]) <= Cardinality(Nodes)
                   /\ Cardinality(D[far[m]]) < Cardinality(D[m]) /\ D[far[m]] \subseteq D[m]
                   /\ D[m] = {m} \union D[far[m]] \union D[near[m]]
                   /\ \A i \in D[far[m]] : Before(k, s, i, m)
                   /\ \A i \in D[near[m]] : Before(k, s, m, i)
  <2> SUFFICES ASSUME NEW m \in M
               PROVE  /\ far[m] \in M \union {Nil} /\ m \in D[m] /\ Cardinality(D[m]) \in Nat
                      /\ Cardinality(D[m]) <= Cardinality(Nodes)
                      /\ Cardinality(D[far[m]]) < Cardinality(D[m]) /\ D[far[m]] \subseteq D[m]
                      /\ D[m] = {m} \union D[far[m]] \union D[near[m]]
                      /\ \A i \in D[far[m]] : Before(k, s, i, m)
                      /\ \A i \in D[near[m]] : Before(k, s, m, i)
    OBVIOUS
  <2>1. far[m] \in M \union {Nil} /\ D[m] = {m} \union D[far[m]] \union D[near[m]]
    BY <1>2 DEF Linked, Hanging
  <2>2. m \in D[m] /\ D[far[m]] \subseteq D[m]
    BY <1>2, Hangs
  <2>3. /\ Cardinality(D[m]) \in Nat /\ Cardinality(D[m]) <= Cardinality(Nodes)
        /\ Cardinality(D[far[m]]) < Cardinality(D[m])
    BY <1>2, Smaller
  <2>4. \A i \in D[far[m]] : Before(k, s, i, m)
    BY <1>2 DEF Sorted
  <2>5. ASSUME NEW i \in D[near[m]] PROVE Before(k, s, m, i)
    <3>1. Before(k, Other(s), i, m)
      BY <1>2 DEF Sorted
    <3>2. i \in Node /\ m \in Node
      BY <1>2, <1>3, <2>1
    <3> QED
      BY <1>2, <3>1, <3>2, BeforeFacts
  <2> QED
    BY <2>1, <2>2, <2>3, <2>4, <2>5
<1> HIDE DEF far, near
<1>6. <<0, n>> \in I
  <2>1. Descending(0, n)
    BY <1>5
  <2> HIDE DEF Descending
  <2> QED
    BY <1>2, <2>1
<1>7. ASSUME NEW j \in Nat, NEW m \in Node, <<j, m>> \in I PROVE <<j + 1, turn[m]>> \in I
  <2>1. Descending(j, m)
    BY <1>7
  <2>2. j + 1 \in Nat /\ turn[m] \in Node
    BY <1>4
  <2>3. CASE far[m] = Nil
    <3>1. turn[m] = m
      BY <2>3
    <3>2. Descending(j + 1, m)
      BY <2>1, <2>3
    <3> HIDE DEF Descending, turn
    <3> QED
      BY <2>2, <3>1, <3>2
  <2>4. CASE far[m] # Nil
    <3> DEFINE c == far[m]
    <3>1. turn[m] = c /\ m \in M /\ c \in M /\ c \in Node
      BY <1>2, <1>5, <2>1, <2>4
    <3>2. c \in D[c] /\ D[c] \subseteq D[m] /\ Before(k, s, c, m)
      BY <1>5, <3>1
    <3>3. c \in D[n] /\ D[n] \subseteq Node
      <4>1. D[m] \subseteq D[n]
        BY <1>2, <2>1, Below
      <4> QED
        BY <1>3, <3>2, <4>1
    <3>4. ASSUME NEW i \in D[n] PROVE i \in D[c] \/ Before(k, s, c, i)
      <4>1. i \in Node
        BY <3>3
      <4>2. CASE i \in D[m]
        <5>1. i = m \/ i \in D[c] \/ Before(k, s, m, i)
          BY <1>5, <3>1, <4>2
        <5> QED
          BY <1>2, <3>1, <3>2, <4>1, <5>1, BeforeFacts
      <4>3. CASE i \notin D[m]
        <5>1. Before(k, s, m, i)
          BY <2>1, <4>3
        <5> QED
          BY <1>2, <3>1, <3>2, <4>1, <5>1, BeforeFacts
      <4> QED
        BY <4>2, <4>3
    <3>5. Cardinality(D[c]) + (j + 1) <= Cardinality(Nodes)
      <4>1. /\ Cardinality(D[c]) < Cardinality(D[m]) /\ Cardinality(D[c]) \in Nat
            /\ Cardinality(D[m]) \in Nat
        BY <1>5, <3>1
      <4>2. Cardinality(D[m]) + j <= Cardinality(Nodes)
        BY <2>1, <2>4
      <4> QED
        BY <1>2, <4>1, <4>2
    <3> HIDE DEF c
    <3>6. Descending(j + 1, c)
      BY <3>1, <3>3, <3>4, <3>5
    <3> HIDE DEF Descending, turn
    <3> QED
      BY <2>2, <3>1, <3>6
  <2> QED
    BY <2>3, <2>4
<1> HIDE DEF turn
<1>8. <<Cardinality(Nodes), last>> \in I
  <2> HIDE DEF I
  <2> QED
    BY <1>2, <1>4, <1>6, <1>7, TurnsKeep
<1>9. Descending(Cardinality(Nodes), last)
  BY <1>8
<1> HIDE DEF last
<1>10. far[last] = Nil
  <2> SUFFICES ASSUME far[last] # Nil PROVE FALSE
    OBVIOUS
  <2>1. last \in M /\ far[last] \in M /\ Cardinality(D[last]) + Cardinality(Nodes) <= Cardinality(Nodes)
    BY <1>5, <1>9
  <2>2. /\ Cardinality(D[far[last]]) < Cardinality(D[last]) /\ Cardinality(D[far[last]]) \in Nat
        /\ Cardinality(D[last]) \in Nat
    BY <1>5, <2>1
  <2> QED
    BY <1>2, <2>1, <2>2
<1>11. ASSUME NEW i \in D[n] PROVE Before(k, s, last, i)
  <2>1. last \in M /\ last \in Node
    BY <1>2, <1>9
  <2>2. CASE i \in D[last]
    <3>1. D[far[last]] = {}
      BY <1>2, <1>10 DEF Hanging
    <3>2. i = last \/ i \in D[near[last]]
      BY <1>5, <2>1, <2>2, <3>1
    <3>3. Before(k, s, last, last)
      BY <1>2, <2>1 DEF Before
    <3> QED
      BY <1>5, <2>1, <3>2, <3>3
  <2>3. CASE i \notin D[last]
    BY <1>9, <2>3
  <2> QED
    BY <2>2, <2>3
<1> QED
  BY <1>1, <1>9, <1>10, <1>11 DEF Extreme, far

\* What hangs below each node without y.
Pruned(D, y) == [n \in Node |-> D[n] \ {y}]

\* r is the tree t without y, in whose place there is x now.
DetachDone(t, k, M, D, y, r, x, E) ==
  /\ SearchTree(r, k, M \ {y}, E) /\ r.parent[x] = t.parent[y]
  /\ t.parent[y] \in (M \ {y}) \union {Nil} /\ x \in (M \ {y}) \union {Nil}
  /\ \A n \in M, q \in Side : E[r.child[q][n]] = D[t.child[q][n]] \ {y}

\* A node with a free side is taken out of its place.
LEMMA DetachKeeps ==
  ASSUME NEW t, NEW k, NEW M, NEW D, SearchTree(t, k, M, D), NEW y \in M, NEW a \in Side,
         t.child[a][y] = Nil, NEW x, x = t.child[Other(a)][y], NEW r, Transplanted(t, r, M, y, x),
         NEW E, E = Pruned(D, y)
  PROVE  DetachDone(t, k, M, D, y, r, x, E)
<1> DEFINE N == M \ {y}
           start == t.parent[y]
           b == Other(a)
<1>1. /\ Linked(t, M) /\ Hanging(t, M, D) /\ Sorted(t, k, M, D) /\ Links(t) /\ M \subseteq Node
      /\ Nil \notin M /\ Nil \in Node /\ y # Nil /\ y \in Node /\ b \in Side /\ Other(b) = a /\ N \subseteq M
      /\ \A q \in Side : q = a \/ q = b
  BY TreesAssumption, Sides DEF SearchTree, Linked, Node
<1>2. /\ Links(r)
      /\ r.root = IF t.root = y THEN x ELSE t.root
      /\ r.parent = [t.parent EXCEPT ![x] = t.parent[y]]
      /\ \A q \in Side, n \in M : r.child[q][n] = IF t.child[q][n] = y THEN x ELSE t.child[q][n]
      /\ \A q \in Side, n \in Node \ M : r.child[q][n] = t.child[q][n]
  BY DEF Transplanted
<1>3. x \in M \union {Nil} /\ x # y /\ (x # Nil => t.parent[x] = y) /\ x \in Node
  BY <1>1, Hangs DEF Linked
<1>4. Placed(t, M, y)
  BY <1>1, EachPlaced
<1>5. /\ D \in [Node -> SUBSET M] /\ D[Nil] = {} /\ D[t.root] = M
      /\ D[y] = {y} \union D[x] /\ y \notin D[x]
  BY <1>1 DEF Hanging
<1>6. start \in N \union {Nil}
  <2>1. \A q \in Side : t.child[q][y] # y
    BY <1>1, Hangs
  <2> QED
    BY <1>4, <2>1 DEF Placed
<1>7. r.parent[x] = start /\ \A n \in Node \ {x} : r.parent[n] = t.parent[n]
  BY <1>1, <1>2, <1>3, <1>6 DEF Links
<1> HIDE DEF start, b
<1>8. \A n \in Node : E[n] = D[n] \ {y}
  BY DEF Pruned
<1>9. ASSUME NEW n \in M, NEW q \in Side
      PROVE  /\ r.child[q][n] = IF t.child[q][n] = y THEN x ELSE t.child[q][n]
             /\ t.child[q][n] \in M \union {Nil} /\ r.child[q][n] \in N \union {Nil}
             /\ E[r.child[q][n]] = D[t.child[q][n]] \ {y}
  <2>1. r.child[q][n] = IF t.child[q][n] = y THEN x ELSE t.child[q][n]
    BY <1>2
  <2>2. t.child[q][n] \in M \union {Nil}
    BY <1>1 DEF Linked
  <2>3. r.child[q][n] \in N \union {Nil}
    BY <1>1, <1>3, <2>1, <2>2
  <2>4. CASE t.child[q][n] = y
    BY <1>3, <1>5, <1>8, <2>1, <2>4
  <2>5. CASE t.child[q][n] # y
    BY <1>1, <1>8, <2>1, <2>2, <2>5
  <2> QED
    BY <2>1, <2>2, <2>3, <2>4, <2>5
<1> HIDE DEF N
<1>10. Linked(r, N)
  <2>1. r.root \in N \union {Nil} /\ (r.root # Nil => r.parent[r.root] = Nil)
    <3>1. CASE t.root = y
      <4>1. start = Nil
        BY <1>4, <3>1 DEF Placed, start
      <4> QED
        BY <1>2, <1>3, <1>7, <3>1, <4>1 DEF N
    <3>2. CASE t.root # y
      <4>1. t.root \in M \union {Nil} /\ (t.root # Nil => t.parent[t.root] = Nil)
        BY <1>1 DEF Linked
      <4>2. r.root = t.root /\ (t.root # Nil => t.root # x)
        BY <1>1, <1>2, <1>3, <3>2, <4>1
      <4> QED
        BY <1>1, <1>7, <3>2, <4>1, <4>2 DEF N
    <3> QED
      BY <3>1, <3>2
  <2>2. ASSUME NEW q \in Side, NEW n \in N
        PROVE  r.child[q][n] \in N \union {Nil} /\ (r.child[q][n] # Nil => r.parent[r.child[q][n]] = n)
    <3>1. n \in M /\ n # y
      BY DEF N
    <3>2. CASE t.child[q][n] = y
      <4>1. n = start
        BY <1>4, <3>1, <3>2 DEF Placed, start
      <4> QED
        BY <1>7, <1>9, <3>1, <3>2, <4>1
    <3>3. CASE t.child[q][n] # y
      <4>1. r.child[q][n] = t.child[q][n] /\ (t.child[q][n] # Nil => t.parent[t.child[q][n]] = n)
        BY <1>1, <1>9, <3>1, <3>3 DEF Linked
      <4>2. t.child[q][n] # Nil => t.child[q][n] # x /\ t.child[q][n] \in Node
        BY <1>1, <1>3, <1>9, <3>1, <4>1
      <4> QED
        BY <1>7, <1>9, <3>1, <4>1, <4>2
    <3> QED
      BY <3>2, <3>3
  <2>3. \A q \in Side : r.child[q][Nil] = Nil
    BY <1>1, <1>2 DEF Linked
  <2>4. N \subseteq Nodes
    BY <1>1, <1>2 DEF Linked, N
  <2> QED
    BY <1>2, <2>1, <2>2, <2>3, <2>4 DEF Linked
<1>11. Hanging(r, N, E)
  <2>1. E \in [Node -> SUBSET N]
    BY <1>5 DEF Pruned, N
  <2>2. E[Nil] = {}
    BY <1>1, <1>5, <1>8
  <2>3. E[r.root] = N
    <3>1. CASE t.root = y
      BY <1>2, <1>3, <1>5, <1>8, <3>1 DEF N
    <3>2. CASE t.root # y
      <4>1. t.root \in Node
        BY <1>1 DEF Links
      <4> QED
        BY <1>2, <1>5, <1>8, <3>2, <4>1 DEF N
    <3> QED
      BY <3>1, <3>2
  <2>4. ASSUME NEW q \in Side, NEW n \in N
        PROVE  /\ E[n] = {n} \union E[r.child[q][n]] \union E[r.child[Other(q)][n]]
               /\ n \notin E[r.child[q][n]]
               /\ E[r.child[q][n]] \intersect E[r.child[Other(q)][n]] = {}
    <3>1. n \in M /\ n # y /\ Other(q) \in Side /\ n \in Node
      BY <1>1, Sides DEF N
    <3>2. /\ D[n] = {n} \union D[t.child[q][n]] \union D[t.child[Other(q)][n]]
          /\ n \notin D[t.child[q][n]]
          /\ D[t.child[q][n]] \intersect D[t.child[Other(q)][n]] = {}
      BY <1>1, <3>1 DEF Hanging
    <3>3. /\ E[r.child[q][n]] = D[t.child[q][n]] \ {y}
          /\ E[r.child[Other(q)][n]] = D[t.child[Other(q)][n]] \ {y}
          /\ E[n] = D[n] \ {y}
      BY <1>8, <1>9, <3>1
    <3> QED
      BY <3>1, <3>2, <3>3
  <2> QED
    BY <2>1, <2>2, <2>3, <2>4 DEF Hanging
<1>12. Sorted(r, k, N, E)
  <2> SUFFICES ASSUME NEW q \in Side, NEW n \in N, NEW m \in E[r.child[q][n]] PROVE Before(k, q, m, n)
    BY <1>1 DEF Sorted
  <2>1. n \in M /\ m \in D[t.child[q][n]]
    BY <1>9 DEF N
  <2>2. Before(k, q, m, n)
    BY <1>1, <2>1 DEF Sorted
  <2> QED
    BY <2>2
<1> QED
  BY <1>1, <1>2, <1>3, <1>6, <1>7, <1>9, <1>10, <1>11, <1>12 DEF SearchTree, N, start, DetachDone

\* A replacement, field by field: y, which is not in the tree, took z's place.
Replaced(t, r, M, z, y) ==
  /\ Links(r)
  /\ r.root = IF t.root = z THEN y ELSE t.root
  /\ \A q \in Side, n \in M \ {z} : r.child[q][n] = IF t.child[q][n] = z THEN y ELSE t.child[q][n]
  /\ \A q \in Side : r.child[q][y] = t.child[q][z] /\ r.child[q][Nil] = t.child[q][Nil]
  /\ r.parent[y] = t.parent[z]
  /\ \A n \in M \ {z} : r.parent[n] = IF t.parent[n] = z THEN y ELSE t.parent[n]

\* y in place of z.
Swap(S, z, y) == IF z \in S THEN (S \ {z}) \union {y} ELSE S

\* The node there once y takes the place of z.
Instead(n, z, y) == IF n = z THEN y ELSE n

\* What hangs below each node when y has taken z's place.
Renamed(D, z, y) == [n \in Node |-> IF n = Nil THEN {} ELSE Swap(D[Instead(n, y, z)], z, y)]

\* y's key suits z's place.
Suits(t, k, M, D, z, y) ==
  /\ \A q \in Side : \A m \in D[t.child[q][z]] : Before(k, q, m, y)
  /\ \A q \in Side, n \in M \ {z} : z \in D[t.child[q][n]] => Before(k, q, y, n)

\* A node that suits z's place may take it.
LEMMA ReplaceKeeps ==
  ASSUME NEW t, NEW k, NEW M, NEW D, SearchTree(t, k, M, D), NEW z \in M, NEW y \in Nodes \ M,
         Suits(t, k, M, D, z, y), NEW r, Replaced(t, r, M, z, y), NEW E, E = Renamed(D, z, y),
         NEW N, N = (M \ {z}) \union {y}
  PROVE  SearchTree(r, k, N, E)
<1>1. /\ Linked(t, M) /\ Hanging(t, M, D) /\ Sorted(t, k, M, D) /\ Links(t) /\ M \subseteq Node
      /\ Nil \notin M /\ Nil \in Node /\ y # Nil /\ y \in Node /\ y \notin M /\ z # Nil /\ z # y /\ z \in Node
      /\ N \subseteq Nodes /\ N \subseteq Node /\ Nil \notin N /\ z \notin N
  BY TreesAssumption DEF SearchTree, Linked, Node
<1>2. /\ Links(r)
      /\ r.root = IF t.root = z THEN y ELSE t.root
      /\ \A q \in Side, n \in M \ {z} : r.child[q][n] = IF t.child[q][n] = z THEN y ELSE t.child[q][n]
      /\ \A q \in Side : r.child[q][y] = t.child[q][z] /\ r.child[q][Nil] = t.child[q][Nil]
      /\ r.parent[y] = t.parent[z]
      /\ \A n \in M \ {z} : r.parent[n] = IF t.parent[n] = z THEN y ELSE t.parent[n]
  BY DEF Replaced
<1>3. /\ D \in [Node -> SUBSET M] /\ D[Nil] = {} /\ D[t.root] = M
  BY <1>1 DEF Hanging
<1>4. ASSUME NEW n \in N
      PROVE  /\ Instead(n, y, z) \in M /\ Instead(Instead(n, y, z), z, y) = n
             /\ E[n] = Swap(D[Instead(n, y, z)], z, y)
  BY <1>1 DEF Instead, Renamed
<1>5. ASSUME NEW c \in M \union {Nil}
      PROVE  Instead(c, z, y) \in N \union {Nil} /\ E[Instead(c, z, y)] = Swap(D[c], z, y)
  <2>1. CASE c = z
    <3>1. Instead(c, z, y) = y /\ Instead(y, y, z) = z
      BY <2>1 DEF Instead
    <3> QED
      BY <1>1, <2>1, <3>1 DEF Renamed
  <2>2. CASE c = Nil
    <3>1. Instead(c, z, y) = Nil /\ Swap({}, z, y) = {}
      BY <1>1, <2>2 DEF Instead, Swap
    <3> QED
      BY <1>1, <1>3, <2>2, <3>1 DEF Renamed
  <2>3. CASE c # z /\ c # Nil
    <3>1. c \in M /\ c # y
      BY <1>1, <2>3
    <3>2. Instead(c, z, y) = c /\ Instead(c, y, z) = c
      BY <2>3, <3>1 DEF Instead
    <3> QED
      BY <1>1, <2>3, <3>1, <3>2 DEF Renamed
  <2> QED
    BY <2>1, <2>2, <2>3
<1>6. ASSUME NEW n \in N, NEW q \in Side
      PROVE  LET o == Instead(n, y, z)
                 c == t.child[q][o]
             IN /\ o \in M /\ c \in M \union {Nil} /\ r.child[q][n] = Instead(c, z, y)
                /\ E[r.child[q][n]] = Swap(D[c], z, y) /\ c # o
  <2> DEFINE o == Instead(n, y, z)
             c == t.child[q][o]
  <2>1. o \in M
    BY <1>4
  <2>2. c \in M \union {Nil} /\ c # o
    BY <1>1, <2>1, Hangs DEF Linked
  <2>3. r.child[q][n] = Instead(c, z, y)
    <3>1. CASE n = y
      <4>1. o = z
        BY <3>1 DEF Instead
      <4>2. r.child[q][n] = c /\ c # z
        BY <1>2, <2>2, <3>1, <4>1
      <4> QED
        BY <4>2 DEF Instead
    <3>2. CASE n # y
      <4>1. o = n /\ n \in M \ {z}
        BY <3>2 DEF Instead
      <4> QED
        BY <1>2, <4>1 DEF Instead
    <3> QED
      BY <3>1, <3>2
  <2> HIDE DEF c
  <2>4. E[r.child[q][n]] = Swap(D[c], z, y)
    BY <1>5, <2>2, <2>3
  <2> QED
    BY <2>1, <2>2, <2>3, <2>4 DEF c
<1>7. Linked(r, N)
  <2>1. r.root = Instead(t.root, z, y) /\ t.root \in M \union {Nil} /\ (t.root # Nil => t.parent[t.root] = Nil)
    BY <1>1, <1>2 DEF Instead, Linked
  <2>2. r.root \in N \union {Nil}
    BY <1>5, <2>1
  <2>3. ASSUME r.root # Nil PROVE r.parent[r.root] = Nil
    <3>1. CASE t.root = z
      BY <1>1, <1>2, <2>1, <3>1
    <3>2. CASE t.root # z
      <4>1. r.root = t.root /\ t.root \in M \ {z}
        BY <1>2, <2>1, <2>3, <3>2
      <4> QED
        BY <1>1, <1>2, <2>1, <4>1
    <3> QED
      BY <3>1, <3>2
  <2>4. ASSUME NEW q \in Side, NEW n \in N
        PROVE  r.child[q][n] \in N \union {Nil} /\ (r.child[q][n] # Nil => r.parent[r.child[q][n]] = n)
    <3> DEFINE o == Instead(n, y, z)
               c == t.child[q][o]
    <3>1. o \in M /\ c \in M \union {Nil} /\ r.child[q][n] = Instead(c, z, y) /\ c # o /\ Instead(o, z, y) = n
      BY <1>4, <1>6
    <3>2. r.child[q][n] \in N \union {Nil}
      BY <1>5, <3>1
    <3>3. c # Nil => t.parent[c] = o
      BY <1>1, <3>1 DEF Linked
    <3> HIDE DEF c, o
    <3>4. CASE c = z
      BY <1>1, <1>2, <3>1, <3>2, <3>3, <3>4 DEF Instead
    <3>5. CASE c = Nil
      BY <1>1, <3>1, <3>2, <3>5 DEF Instead
    <3>6. CASE c # z /\ c # Nil
      <4>1. r.child[q][n] = c /\ c \in M \ {z}
        BY <3>1, <3>6 DEF Instead
      <4>2. r.parent[c] = Instead(t.parent[c], z, y)
        BY <1>2, <4>1 DEF Instead
      <4> QED
        BY <3>1, <3>2, <3>3, <3>6, <4>1, <4>2
    <3> QED
      BY <3>4, <3>5, <3>6
  <2>5. \A q \in Side : r.child[q][Nil] = Nil
    BY <1>1, <1>2 DEF Linked
  <2> QED
    BY <1>1, <1>2, <2>2, <2>3, <2>4, <2>5 DEF Linked
<1>8. Hanging(r, N, E)
  <2>1. E \in [Node -> SUBSET N]
    <3>1. \A n \in Node : Instead(n, y, z) \in Node
      BY <1>1 DEF Instead
    <3>2. \A S \in SUBSET M : Swap(S, z, y) \in SUBSET N
      BY <1>1 DEF Swap
    <3>3. \A n \in Node : (IF n = Nil THEN {} ELSE Swap(D[Instead(n, y, z)], z, y)) \in SUBSET N
      BY <1>3, <3>1, <3>2
    <3> QED
      BY <3>3 DEF Renamed
  <2>2. E[Nil] = {}
    BY <1>1 DEF Renamed
  <2>3. E[r.root] = N
    <3>1. r.root = Instead(t.root, z, y) /\ t.root \in M \union {Nil}
      BY <1>1, <1>2 DEF Instead, Linked
    <3>2. E[r.root] = Swap(M, z, y)
      BY <1>3, <1>5, <3>1
    <3> QED
      BY <3>2 DEF Swap
  <2>4. ASSUME NEW q \in Side, NEW n \in N
        PROVE  /\ E[n] = {n} \union E[r.child[q][n]] \union E[r.child[Other(q)][n]]
               /\ n \notin E[r.child[q][n]]
               /\ E[r.child[q][n]] \intersect E[r.child[Other(q)][n]] = {}
    <3> DEFINE o == Instead(n, y, z)
               c == t.child[q][o]
               d == t.child[Other(q)][o]
    <3>1. o \in M /\ Other(q) \in Side /\ n = Instead(o, z, y) /\ E[n] = Swap(D[o], z, y)
      BY <1>4, Sides
    <3>2. /\ E[r.child[q][n]] = Swap(D[c], z, y) /\ E[r.child[Other(q)][n]] = Swap(D[d], z, y)
          /\ c \in M \union {Nil} /\ d \in M \union {Nil}
      BY <1>6, <3>1
    <3>3. D[o] = {o} \union D[c] \union D[d] /\ o \notin D[c] /\ D[c] \intersect D[d] = {} /\ o \notin D[d]
      BY <1>1, <3>1 DEF Hanging
    <3>4. y \notin D[o] /\ y \notin D[c] /\ y \notin D[d] /\ o # y
      BY <1>1, <1>3, <3>1, <3>2
    <3> DEFINE Dc == D[c]
               Dd == D[d]
               Do == D[o]
    <3>5. /\ Do = {o} \union Dc \union Dd /\ o \notin Dc /\ Dc \intersect Dd = {} /\ o \notin Dd
          /\ y \notin Do /\ y \notin Dc /\ y \notin Dd /\ o # y /\ n = Instead(o, z, y)
      BY <3>1, <3>3, <3>4
    <3> HIDE DEF Dc, Dd, Do, o, c, d
    <3>6. Swap(Do, z, y) = {n} \union Swap(Dc, z, y) \union Swap(Dd, z, y)
      <4>1. CASE o = z
        BY <3>5, <4>1 DEF Swap, Instead
      <4>2. CASE o # z /\ z \in Dc
        BY <3>5, <4>2 DEF Swap, Instead
      <4>3. CASE o # z /\ z \in Dd
        BY <3>5, <4>3 DEF Swap, Instead
      <4>4. CASE o # z /\ z \notin Dc /\ z \notin Dd
        BY <3>5, <4>4 DEF Swap, Instead
      <4> QED
        BY <4>1, <4>2, <4>3, <4>4
    <3>7. n \notin Swap(Dc, z, y) /\ Swap(Dc, z, y) \intersect Swap(Dd, z, y) = {}
      BY <1>1, <3>5 DEF Swap, Instead
    <3> QED
      BY <3>1, <3>2, <3>6, <3>7 DEF Dc, Dd, Do
  <2> QED
    BY <2>1, <2>2, <2>3, <2>4 DEF Hanging
<1>9. Sorted(r, k, N, E)
  <2> SUFFICES ASSUME NEW q \in Side, NEW n \in N, NEW m \in E[r.child[q][n]] PROVE Before(k, q, m, n)
    BY <1>1 DEF Sorted
  <2> DEFINE o == Instead(n, y, z)
             c == t.child[q][o]
  <2>1. o \in M /\ c \in M \union {Nil} /\ m \in Swap(D[c], z, y)
    BY <1>6
  <2>2. o \notin D[c] /\ \A i \in D[c] : Before(k, q, i, o)
    BY <1>1, <2>1 DEF Hanging, Sorted
  <2>3. (m \in D[c] /\ m # z) \/ (m = y /\ z \in D[c])
    BY <2>1 DEF Swap
  <2>4. CASE n = y
    <3>1. o = z
      BY <2>4 DEF Instead
    <3>2. m \in D[t.child[q][z]]
      BY <2>2, <2>3, <3>1
    <3> QED
      BY <2>4, <3>2 DEF Suits
  <2>5. CASE n # y
    <3>1. o = n /\ n \in M \ {z}
      BY <2>5 DEF Instead
    <3> QED
      BY <2>2, <2>3, <3>1 DEF Suits
  <2> QED
    BY <2>4, <2>5
<1> QED
  BY <1>7, <1>8, <1>9 DEF SearchTree

\* The key of the first node on z's right suits z's place.
LEMMA SuccessorSuits ==
  ASSUME NEW t, NEW k, NEW M, NEW D, SearchTree(t, k, M, D), NEW z \in M, NEW y \in M, y # z,
         t.child["right"][z] \in M, Extreme(t, k, M, D, "left", t.child["right"][z], y),
         NEW r, NEW E,
         \A n \in M, q \in Side : E[r.child[q][n]] = D[t.child[q][n]] \ {y}
  PROVE  Suits(r, k, M \ {y}, E, z, y)
<1> DEFINE w == t.child["right"][z]
<1>1. /\ Linked(t, M) /\ Hanging(t, M, D) /\ Sorted(t, k, M, D) /\ Links(t) /\ M \subseteq Node
      /\ "right" \in Side /\ "left" \in Side /\ \A q \in Side : q = "left" \/ q = "right"
      /\ \A n \in Node : D[n] \subseteq M
  BY DEF SearchTree, Linked, Node, Side, Hanging
<1>2. y \in D[w] /\ \A i \in D[w] : k[y] <= k[i]
  BY DEF Extreme, Before
<1>3. \A i \in M : k[i] \in Int
  BY <1>1 DEF Sorted
<1>4. \A q \in Side, n \in M : t.child[q][n] \in M \union {Nil} /\ t.child[q][n] \in Node
  BY <1>1 DEF Linked, Links
<1>5. ASSUME NEW q \in Side, NEW m \in E[r.child[q][z]] PROVE Before(k, q, m, y)
  <2>1. m \in D[t.child[q][z]] /\ m \in M
    BY <1>1, <1>4, <1>5
  <2>2. CASE q = "right"
    BY <1>2, <2>1, <2>2 DEF Before
  <2>3. CASE q = "left"
    <3>1. Before(k, "left", m, z) /\ Before(k, "right", y, z)
      BY <1>1, <1>2, <2>1, <2>3 DEF Sorted
    <3>2. k[m] <= k[z] /\ k[z] <= k[y]
      BY <3>1 DEF Before
    <3>3. k[m] <= k[y]
      BY <1>3, <2>1, <3>2
    <3> QED
      BY <2>3, <3>3 DEF Before
  <2> QED
    BY <1>1, <2>2, <2>3
<1>6. ASSUME NEW q \in Side, NEW n \in M \ {y, z}, z \in E[r.child[q][n]] PROVE Before(k, q, y, n)
  <2>1. z \in D[t.child[q][n]] /\ t.child[q][n] \in M
    <3>1. D[Nil] = {}
      BY <1>1 DEF Hanging
    <3> QED
      BY <1>4, <1>6, <3>1
  <2>2. D[z] \subseteq D[t.child[q][n]]
    BY <1>1, <2>1, Below
  <2>3. y \in D[z]
    BY <1>1, <1>2, Hangs
  <2>4. Before(k, q, y, n)
    BY <1>1, <2>2, <2>3 DEF Sorted
  <2> QED
    BY <2>4 DEF Before
<1> QED
  BY <1>5, <1>6 DEF Suits

\* The nodes M are linked in r as they are in t.
Alike(t, r, M) ==
  /\ Links(r) /\ r.root = t.root
  /\ \A n \in M : r.parent[n] = t.parent[n]
  /\ \A q \in Side, n \in M \union {Nil} : r.child[q][n] = t.child[q][n]

\* A search tree does not depend on the words of a node that is not in it.
LEMMA AlikeKeeps ==
  ASSUME NEW t, NEW k, NEW M, NEW D, SearchTree(t, k, M, D), NEW r, Alike(t, r, M),
         NEW l \in [Node -> Int], \A n \in M : l[n] = k[n]
  PROVE  SearchTree(r, l, M, D)
<1>1. Linked(t, M) /\ Hanging(t, M, D) /\ Sorted(t, k, M, D)
  BY DEF SearchTree
<1>2. Linked(r, M)
  BY <1>1 DEF Linked, Alike
<1>3. Hanging(r, M, D)
  <2>1. \A q \in Side : Other(q) \in Side
    BY Sides
  <2> QED
    BY <1>1, <2>1 DEF Hanging, Alike
<1>4. Sorted(r, l, M, D)
  <2> SUFFICES ASSUME NEW q \in Side, NEW n \in M, NEW m \in D[r.child[q][n]] PROVE Before(l, q, m, n)
    BY DEF Sorted
  <2>1. r.child[q][n] = t.child[q][n] /\ t.child[q][n] \in Node
    BY <1>1 DEF Alike, Linked, Links, Node
  <2>2. Before(k, q, m, n)
    BY <1>1, <2>1 DEF Sorted
  <2>3. m \in M
    BY <1>1, <2>1 DEF Hanging
  <2> QED
    BY <2>2, <2>3 DEF Before
<1> QED
  BY <1>2, <1>3, <1>4 DEF SearchTree

-----------------------------------------------------------------------------
(* The nodes in order.                                                     *)

\* w is the nodes S, each once, in the order of k.
IsWalk(k, w, S) ==
  /\ w \in Seq(Node) /\ Len(w) = Cardinality(S)
  /\ {w[i] : i \in 1 .. Len(w)} = S
  /\ \A i, j \in 1 .. Len(w) : i < j => k[w[i]] <= k[w[j]]

\* w is a, then n, then b.
Threaded(a, n, b, w) ==
  /\ Len(w) = Len(a) + 1 + Len(b)
  /\ \A i \in 1 .. Len(a) : w[i] = a[i]
  /\ w[Len(a) + 1] = n
  /\ \A i \in 1 .. Len(b) : w[Len(a) + 1 + i] = b[i]

\* The entries of three sequences, the second of one entry, one after the other.
LEMMA Joined ==
  ASSUME NEW V, NEW a \in Seq(V), NEW b \in Seq(V), NEW n \in V, NEW w, w = a \o <<n>> \o b
  PROVE  w \in Seq(V) /\ Threaded(a, n, b, w)
<1> DEFINE f == a \o <<n>>
<1>1. /\ f \in Seq(V) /\ Len(f) = Len(a) + 1 /\ \A i \in 1 .. Len(a) : f[i] = a[i]
      /\ f[Len(a) + 1] = n
  OBVIOUS
<1>2. w = f \o b
  OBVIOUS
<1> HIDE DEF f
<1>3. /\ w \in Seq(V) /\ Len(w) = Len(f) + Len(b) /\ \A i \in 1 .. Len(f) : w[i] = f[i]
      /\ \A i \in 1 .. Len(b) : w[Len(f) + i] = b[i]
  BY <1>1, <1>2
<1>4. Len(a) \in Nat /\ Len(b) \in Nat
  OBVIOUS
<1> QED
  BY <1>1, <1>3, <1>4 DEF Threaded

\* The walk of a node's left side, the node and the walk of its right side are its walk.
LEMMA WalkJoined ==
  ASSUME NEW k \in [Node -> Int], NEW A \in SUBSET Nodes, NEW B \in SUBSET Nodes, NEW n \in Nodes,
         n \notin A, n \notin B, A \intersect B = {},
         \A m \in A : k[m] <= k[n], \A m \in B : k[n] <= k[m],
         NEW a, IsWalk(k, a, A), NEW b, IsWalk(k, b, B), NEW w, w = a \o <<n>> \o b,
         NEW S, S = {n} \union A \union B
  PROVE  IsWalk(k, w, S)
<1>1. n \in Node /\ A \subseteq Node /\ B \subseteq Node /\ \A m \in Node : k[m] \in Int
  BY DEF Node
<1>2. /\ a \in Seq(Node) /\ Len(a) = Cardinality(A) /\ {a[i] : i \in 1 .. Len(a)} = A
      /\ b \in Seq(Node) /\ Len(b) = Cardinality(B) /\ {b[i] : i \in 1 .. Len(b)} = B
  BY DEF IsWalk
<1>3. /\ \A i, j \in 1 .. Len(a) : i < j => k[a[i]] <= k[a[j]]
      /\ \A i, j \in 1 .. Len(b) : i < j => k[b[i]] <= k[b[j]]
  BY DEF IsWalk
<1>4. /\ w \in Seq(Node) /\ Len(w) = Len(a) + 1 + Len(b)
      /\ \A i \in 1 .. Len(a) : w[i] = a[i]
      /\ w[Len(a) + 1] = n
      /\ \A i \in 1 .. Len(b) : w[Len(a) + 1 + i] = b[i]
  <2>1. w \in Seq(Node) /\ Threaded(a, n, b, w)
    BY <1>1, <1>2, Joined, Zenon
  <2> QED
    BY <2>1 DEF Threaded
<1> DEFINE la == Len(a)
           lb == Len(b)
<1>5. la \in Nat /\ lb \in Nat
  BY <1>2
<1>6. Cardinality(S) = la + 1 + lb
  <2>1. IsFiniteSet(A) /\ IsFiniteSet(B)
    BY TreesAssumption, FS_Subset
  <2>2. A \intersect B = {} /\ Cardinality(A \intersect B) = 0
    BY FS_EmptySet
  <2>3. IsFiniteSet(A \union B) /\ Cardinality(A \union B) = la + lb - 0
    BY <1>2, <2>1, <2>2, FS_Union
  <2>4. n \notin A \union B
    OBVIOUS
  <2>5. Cardinality((A \union B) \union {n}) = Cardinality(A \union B) + 1
    BY <2>3, <2>4, FS_AddElement
  <2>6. S = (A \union B) \union {n}
    OBVIOUS
  <2> HIDE DEF la, lb
  <2>7. Cardinality(S) = Cardinality(A \union B) + 1
    BY <2>5, <2>6, Zenon
  <2> DEFINE c == Cardinality(A \union B)
  <2>8. c = la + lb - 0 /\ Cardinality(S) = c + 1
    BY <2>3, <2>7
  <2> HIDE DEF c
  <2> QED
    BY <1>5, <2>8
<1>7. /\ \A i \in 1 .. la : a[i] \in A /\ a[i] \in Node
      /\ \A i \in 1 .. lb : b[i] \in B /\ b[i] \in Node
  BY <1>1, <1>2
<1> DEFINE Where(i) == \/ i \in 1 .. la /\ w[i] = a[i]
                       \/ i = la + 1 /\ w[i] = n
                       \/ \E e \in 1 .. lb : i = la + 1 + e /\ w[i] = b[e]
<1>8. ASSUME NEW i \in 1 .. Len(w) PROVE Where(i)
  <2>1. Len(w) = la + 1 + lb
    BY <1>4
  <2>2. CASE i <= la
    BY <1>4, <1>5, <2>1, <2>2
  <2>3. CASE i = la + 1
    BY <1>4, <2>3
  <2>4. CASE i > la + 1
    <3> DEFINE e == i - (la + 1)
    <3>1. e \in 1 .. lb /\ i = la + 1 + e
      BY <1>5, <2>1, <2>4
    <3> HIDE DEF e
    <3>2. w[i] = b[e]
      BY <1>4, <3>1
    <3> QED
      BY <3>1, <3>2
  <2> QED
    BY <1>5, <2>1, <2>2, <2>3, <2>4
<1>9. {w[i] : i \in 1 .. Len(w)} = S
  <2>1. ASSUME NEW i \in 1 .. Len(w) PROVE w[i] \in S
    BY <1>7, <1>8
  <2>2. ASSUME NEW m \in S PROVE \E i \in 1 .. Len(w) : w[i] = m
    <3>1. CASE m = n
      <4>1. la + 1 \in 1 .. Len(w)
        BY <1>4, <1>5
      <4> QED
        BY <1>4, <3>1, <4>1
    <3>2. CASE m \in A
      <4>1. PICK i \in 1 .. la : a[i] = m
        BY <1>2, <3>2
      <4>2. i \in 1 .. Len(w)
        BY <1>4, <1>5
      <4> QED
        BY <1>4, <4>1, <4>2
    <3>3. CASE m \in B
      <4>1. PICK i \in 1 .. lb : b[i] = m
        BY <1>2, <3>3
      <4>2. la + 1 + i \in 1 .. Len(w)
        BY <1>4, <1>5
      <4> QED
        BY <1>4, <4>1, <4>2
    <3> QED
      BY <3>1, <3>2, <3>3
  <2> DEFINE T == {w[i] : i \in 1 .. Len(w)}
  <2>3. T \subseteq S
    BY <2>1
  <2>4. S \subseteq T
    BY <2>2
  <2> HIDE DEF T
  <2>5. T = S
    BY <2>3, <2>4
  <2> QED
    BY <2>5 DEF T
<1>10. ASSUME NEW i \in 1 .. Len(w), NEW j \in 1 .. Len(w), i < j PROVE k[w[i]] <= k[w[j]]
  <2>1. Where(i) /\ Where(j) /\ i \in Int /\ j \in Int
    <3>1. Where(i) /\ Where(j)
      BY <1>8
    <3>2. i \in Int /\ j \in Int
      OBVIOUS
    <3> QED
      BY <3>1, <3>2
  <2>2. ASSUME NEW x \in A, NEW y \in B PROVE k[x] <= k[y]
    <3>1. k[x] <= k[n] /\ k[n] <= k[y]
      OBVIOUS
    <3>2. k[x] \in Int /\ k[n] \in Int /\ k[y] \in Int
      BY <1>1
    <3> QED
      BY <3>1, <3>2
  <2>3. CASE i \in 1 .. la /\ w[i] = a[i]
    <3>1. CASE j \in 1 .. la /\ w[j] = a[j]
      BY <1>3, <1>10, <2>3, <3>1
    <3>2. CASE j = la + 1 /\ w[j] = n
      BY <1>7, <2>3, <3>2
    <3>3. CASE \E e \in 1 .. lb : j = la + 1 + e /\ w[j] = b[e]
      BY <1>7, <2>2, <2>3, <3>3
    <3> QED
      BY <2>1, <3>1, <3>2, <3>3
  <2>4. CASE i = la + 1 /\ w[i] = n
    <3>1. ~(j \in 1 .. la) /\ j # la + 1
      BY <1>5, <1>10, <2>1, <2>4
    <3>2. PICK e \in 1 .. lb : j = la + 1 + e /\ w[j] = b[e]
      BY <2>1, <3>1
    <3> QED
      BY <1>7, <2>4, <3>2
  <2>5. CASE \E e \in 1 .. lb : i = la + 1 + e /\ w[i] = b[e]
    <3>1. PICK e \in 1 .. lb : i = la + 1 + e /\ w[i] = b[e]
      BY <2>5
    <3>2. ~(j \in 1 .. la) /\ j # la + 1
      BY <1>5, <1>10, <2>1, <3>1
    <3>3. PICK l \in 1 .. lb : j = la + 1 + l /\ w[j] = b[l]
      BY <2>1, <3>2
    <3>4. e < l
      BY <1>5, <1>10, <3>1, <3>3
    <3> QED
      BY <1>3, <3>1, <3>3, <3>4
  <2> QED
    BY <2>1, <2>3, <2>4, <2>5
<1>11. Len(w) = Cardinality(S)
  BY <1>4, <1>6
<1> HIDE DEF Where, la, lb
<1> QED
  BY <1>4, <1>9, <1>10, <1>11 DEF IsWalk
\* A recursion along the links: right holds what may be computed for each node, and a
\* turn computes it for a node whose children have it.
Recurses(t, M, V, right, turn, start) ==
  /\ turn \in [[Node -> V] -> [Node -> V]] /\ start \in [Node -> V]
  /\ <<Nil, start[Nil]>> \in right
  /\ \A f \in [Node -> V] : <<Nil, turn[f][Nil]>> \in right
  /\ \A f \in [Node -> V], n \in M :
       (\A q \in Side : <<t.child[q][n], f[t.child[q][n]]>> \in right)
       => <<n, turn[f][n]>> \in right

\* At its end every node has it.
LEMMA Recursion ==
  ASSUME NEW t, NEW M, NEW D, Linked(t, M), Hanging(t, M, D), NEW V, NEW right,
         NEW turn, NEW start, Recurses(t, M, V, right, turn, start)
  PROVE  /\ Turns(turn, start) \in [Node -> V]
         /\ \A n \in M \union {Nil} : <<n, Turns(turn, start)[n]>> \in right
<1> DEFINE W == [Node -> V]
           Done(k, f) == \A n \in M \union {Nil} : Cardinality(D[n]) <= k => <<n, f[n]>> \in right
           I == {i \in Nat \X W : Done(i[1], i[2])}
           last == Turns(turn, start)
<1> USE DEF Recurses
<1>1. /\ M \subseteq Node /\ Nil \notin M /\ Nil \in Node /\ D[Nil] = {} /\ Cardinality(Nodes) \in Nat
  BY TreesAssumption, FS_CardinalityType DEF Linked, Hanging, Node
<1>2. /\ \A n \in M \union {Nil} : /\ IsFiniteSet(D[n]) /\ Cardinality(D[n]) \in Nat
                                   /\ Cardinality(D[n]) <= Cardinality(Nodes)
      /\ \A n \in M, q \in Side : Cardinality(D[t.child[q][n]]) < Cardinality(D[n])
  BY <1>1, Smaller
<1>3. \A n \in M : n \in D[n] /\ \A q \in Side : t.child[q][n] \in M \union {Nil}
  BY Hangs DEF Linked
<1>4. <<0, start>> \in I
  <2>1. ASSUME NEW n \in M, Cardinality(D[n]) <= 0 PROVE FALSE
    <3>1. Cardinality(D[n]) = 0
      BY <1>2, <2>1
    <3>2. D[n] = {}
      BY <1>2, <3>1, FS_EmptySet
    <3> QED
      BY <1>3, <3>2
  <2>2. Done(0, start)
    BY <2>1
  <2> QED
    BY <2>2
<1>5. ASSUME NEW k \in Nat, NEW f \in W, <<k, f>> \in I PROVE <<k + 1, turn[f]>> \in I
  <2>1. Done(k, f)
    BY <1>5
  <2>2. ASSUME NEW n \in M, Cardinality(D[n]) <= k + 1 PROVE <<n, turn[f][n]>> \in right
    <3>1. ASSUME NEW q \in Side PROVE <<t.child[q][n], f[t.child[q][n]]>> \in right
      <4> DEFINE c == t.child[q][n]
                 dc == Cardinality(D[c])
                 dn == Cardinality(D[n])
      <4>1. c \in M \union {Nil} /\ dc \in Nat /\ dn \in Nat /\ dc < dn /\ dn <= k + 1
        BY <1>2, <1>3, <2>2
      <4> HIDE DEF dn
      <4>2. dc <= k
        <5> HIDE DEF dc
        <5> QED
          BY <4>1
      <4> QED
        BY <2>1, <4>1, <4>2
    <3> QED
      BY <3>1
  <2>3. Done(k + 1, turn[f])
    BY <2>2
  <2>4. turn[f] \in W /\ k + 1 \in Nat
    OBVIOUS
  <2> HIDE DEF Done, W
  <2> QED
    BY <2>3, <2>4
<1>6. last \in W /\ <<Cardinality(Nodes), last>> \in I
  <2> HIDE DEF I
  <2> QED
    BY <1>4, <1>5, TurnsKeep
<1>7. Done(Cardinality(Nodes), last)
  BY <1>6
<1> HIDE DEF last
<1>8. ASSUME NEW n \in M \union {Nil} PROVE <<n, last[n]>> \in right
  BY <1>2, <1>7
<1> QED
  BY <1>6, <1>8 DEF last

\* InOrder gives the nodes of a search tree in order.
LEMMA InOrderIs ==
  ASSUME NEW t, NEW k, NEW M, NEW D, SearchTree(t, k, M, D)
  PROVE  \A n \in M \union {Nil} : IsWalk(k, InOrder(t)[n], D[n])
<1> DEFINE W == Seq(Node)
           lc(n) == t.child["left"][n]
           rc(n) == t.child["right"][n]
           turn == [walk \in [Node -> W] |-> [n \in Node |-> IF n = Nil THEN <<>>
                                                   ELSE walk[lc(n)] \o <<n>> \o walk[rc(n)]]]
           start == [n \in Node |-> <<>>]
           right == {r \in Node \X W : IsWalk(k, r[2], D[r[1]])}
<1>1. InOrder(t) = Turns(turn, start)
  BY DEF InOrder
<1>2. /\ Linked(t, M) /\ Hanging(t, M, D) /\ Sorted(t, k, M, D) /\ Nil \notin M /\ M \subseteq Node
      /\ Links(t) /\ Nil \in Node /\ k \in [Node -> Int] /\ M \subseteq Nodes /\ D[Nil] = {}
      /\ D \in [Node -> SUBSET M]
      /\ "left" \in Side /\ "right" \in Side /\ Other("left") = "right"
  BY TreesAssumption DEF SearchTree, Linked, Hanging, Sorted, Node, Side, Other
<1>3. \A n \in Node : lc(n) \in Node /\ rc(n) \in Node
  BY <1>2 DEF Links
<1> HIDE DEF lc, rc
<1>4. turn \in [[Node -> W] -> [Node -> W]] /\ start \in [Node -> W]
  <2>1. ASSUME NEW walk \in [Node -> W], NEW n \in Node
        PROVE  (IF n = Nil THEN <<>> ELSE walk[lc(n)] \o <<n>> \o walk[rc(n)]) \in W
    <3>1. walk[lc(n)] \in Seq(Node) /\ walk[rc(n)] \in Seq(Node) /\ <<n>> \in Seq(Node)
      BY <1>3
    <3> QED
      BY <3>1
  <2>2. start \in [Node -> W]
    OBVIOUS
  <2> HIDE DEF W
  <2> QED
    BY <2>1, <2>2
<1>5. IsWalk(k, <<>>, {}) /\ <<>> \in W
  BY FS_EmptySet DEF IsWalk
<1>6. <<Nil, start[Nil]>> \in right /\ \A f \in [Node -> W] : <<Nil, turn[f][Nil]>> \in right
  <2>1. start[Nil] = <<>> /\ \A f \in [Node -> W] : turn[f][Nil] = <<>>
    BY <1>2
  <2> HIDE DEF start, turn, W
  <2> QED
    BY <1>2, <1>5, <2>1
<1>7. ASSUME NEW f \in [Node -> W], NEW n \in M,
             \A q \in Side : <<t.child[q][n], f[t.child[q][n]]>> \in right
      PROVE  <<n, turn[f][n]>> \in right
  <2> DEFINE A == D[lc(n)]
             B == D[rc(n)]
             a == f[lc(n)]
             b == f[rc(n)]
             w == turn[f][n]
             S == D[n]
  <2>1. w = a \o <<n>> \o b /\ w \in W
    <3>1. w = IF n = Nil THEN <<>> ELSE f[lc(n)] \o <<n>> \o f[rc(n)]
      BY <1>2
    <3>2. turn[f] \in [Node -> W]
      BY <1>4
    <3> HIDE DEF turn, W
    <3>3. w \in W
      BY <1>2, <3>2
    <3> QED
      BY <1>2, <3>1, <3>3
  <2>2. IsWalk(k, a, A) /\ IsWalk(k, b, B)
    BY <1>2, <1>7 DEF lc, rc
  <2>3. /\ S = {n} \union A \union B /\ n \notin A /\ n \notin B /\ A \intersect B = {}
    <3>1. \A q \in Side : /\ D[n] = {n} \union D[t.child[q][n]] \union D[t.child[Other(q)][n]]
                          /\ n \notin D[t.child[q][n]]
                          /\ D[t.child[q][n]] \intersect D[t.child[Other(q)][n]] = {}
      BY <1>2 DEF Hanging
    <3> QED
      BY <1>2, <3>1 DEF lc, rc
  <2>4. A \in SUBSET Nodes /\ B \in SUBSET Nodes /\ n \in Nodes
    BY <1>2, <1>3
  <2>5. (\A m \in A : k[m] <= k[n]) /\ (\A m \in B : k[n] <= k[m])
    <3>1. (\A m \in A : Before(k, "left", m, n)) /\ (\A m \in B : Before(k, "right", m, n))
      BY <1>2 DEF Sorted, lc, rc
    <3> QED
      BY <3>1 DEF Before
  <2> HIDE DEF A, B, a, b, w, S
  <2>6. IsWalk(k, w, S)
    BY <1>2, <2>1, <2>2, <2>3, <2>4, <2>5, WalkJoined, Zenon
  <2> HIDE DEF W
  <2> QED
    BY <1>2, <2>1, <2>6 DEF w, S
<1> HIDE DEF turn, W, start, right
<1>8. \A n \in M \union {Nil} : <<n, Turns(turn, start)[n]>> \in right
  <2>1. Recurses(t, M, W, right, turn, start)
    BY <1>4, <1>6, <1>7 DEF Recurses
  <2> QED
    BY <1>2, <2>1, Recursion
<1> QED
  BY <1>1, <1>8 DEF right

\* A start that the first turn does not change is the end.
LEMMA TurnsStay ==
  ASSUME NEW A, NEW turn \in [A -> A], NEW start \in A, turn[start] = start
  PROVE  Turns(turn, start) = start
<1> DEFINE I == {i \in Nat \X A : i[2] = start}
<1>1. <<0, start>> \in I
  OBVIOUS
<1>2. ASSUME NEW k \in Nat, NEW r \in A, <<k, r>> \in I PROVE <<k + 1, turn[r]>> \in I
  BY <1>2
<1>3. <<Cardinality(Nodes), Turns(turn, start)>> \in I
  <2> HIDE DEF I
  <2> QED
    BY <1>1, <1>2, TurnsKeep
<1> QED
  BY <1>3

\* The walk of a node from the walks of its two sides.
LEMMA WalkStep ==
  ASSUME NEW t, NEW k, NEW M, NEW D, SearchTree(t, k, M, D), NEW n \in M,
         NEW a, IsWalk(k, a, D[t.child["left"][n]]), NEW b, IsWalk(k, b, D[t.child["right"][n]])
  PROVE  /\ a \in Seq(Node) /\ b \in Seq(Node)
         /\ \E w \in Seq(Node) : IsWalk(k, w, D[n]) /\ Threaded(a, n, b, w)
<1> DEFINE A == D[t.child["left"][n]]
           B == D[t.child["right"][n]]
           S == D[n]
           w == a \o <<n>> \o b
<1>1. /\ Linked(t, M) /\ Hanging(t, M, D) /\ Sorted(t, k, M, D) /\ k \in [Node -> Int]
      /\ M \subseteq Nodes /\ M \subseteq Node /\ n \in Nodes /\ n \in Node
      /\ "left" \in Side /\ "right" \in Side /\ Other("left") = "right"
  BY DEF SearchTree, Linked, Sorted, Node, Side, Other
<1>2. S = {n} \union A \union B /\ n \notin A /\ n \notin B /\ A \intersect B = {}
  <2>1. \A q \in Side : /\ D[n] = {n} \union D[t.child[q][n]] \union D[t.child[Other(q)][n]]
                        /\ n \notin D[t.child[q][n]]
                        /\ D[t.child[q][n]] \intersect D[t.child[Other(q)][n]] = {}
    BY <1>1 DEF Hanging
  <2> QED
    BY <1>1, <2>1
<1>3. A \in SUBSET Nodes /\ B \in SUBSET Nodes
  <2>1. \A q \in Side : t.child[q][n] \in Node
    BY <1>1 DEF Linked, Links
  <2> QED
    BY <1>1, <2>1 DEF Hanging
<1>4. (\A m \in A : k[m] <= k[n]) /\ (\A m \in B : k[n] <= k[m])
  <2>1. (\A m \in A : Before(k, "left", m, n)) /\ (\A m \in B : Before(k, "right", m, n))
    BY <1>1 DEF Sorted
  <2> QED
    BY <2>1 DEF Before
<1>5. w = a \o <<n>> \o b
  OBVIOUS
<1> HIDE DEF A, B, S, w
<1>6. IsWalk(k, a, A) /\ IsWalk(k, b, B)
  BY DEF A, B
<1>7. IsWalk(k, w, S)
  BY <1>1, <1>2, <1>3, <1>4, <1>5, <1>6, WalkJoined, Zenon
<1>8. a \in Seq(Node) /\ b \in Seq(Node)
  BY DEF IsWalk
<1>9. w \in Seq(Node) /\ Threaded(a, n, b, w)
  BY <1>1, <1>5, <1>8, Joined, Zenon
<1> QED
  BY <1>7, <1>8, <1>9 DEF S

\* l is the keys of the first nodes of w, as many as there is room for.
Lists(k, w, room, l) ==
  /\ l \in Seq(Int)
  /\ Len(l) = IF room < Len(w) THEN room ELSE Len(w)
  /\ \A i \in 1 .. Len(l) : l[i] = k[w[i]]

\* w is a, m and b, whose keys are la and lb, as far as there is room.
Parted(k, a, m, b, w, room, la, lb) ==
  /\ k \in [Node -> Int] /\ m \in Node /\ a \in Seq(Node) /\ b \in Seq(Node) /\ w \in Seq(Node)
  /\ Threaded(a, m, b, w) /\ room \in Nat /\ Lists(k, a, room, la)
  /\ room > Len(a) => Lists(k, b, room - Len(a) - 1, lb)

\* Then its keys are those of its parts.
LEMMA ListsJoined ==
  ASSUME NEW k, NEW a, NEW m, NEW b, NEW w, NEW room, NEW la, NEW lb, Parted(k, a, m, b, w, room, la, lb),
         NEW l, l = IF Len(la) >= room THEN la ELSE la \o <<k[m]>> \o lb
  PROVE  Lists(k, w, room, l)
<1>0. /\ k \in [Node -> Int] /\ m \in Node /\ a \in Seq(Node) /\ b \in Seq(Node) /\ w \in Seq(Node)
      /\ Threaded(a, m, b, w) /\ room \in Nat /\ Lists(k, a, room, la)
      /\ room > Len(a) => Lists(k, b, room - Len(a) - 1, lb)
  BY DEF Parted
<1> USE <1>0
<1> DEFINE na == Len(a)
           nb == Len(b)
           nw == Len(w)
           nla == Len(la)
           nlb == Len(lb)
           nl == Len(l)
<1>1. /\ nw = na + 1 + nb /\ na \in Nat /\ nb \in Nat
      /\ \A i \in 1 .. na : w[i] = a[i]
      /\ w[na + 1] = m
      /\ \A i \in 1 .. nb : w[na + 1 + i] = b[i]
  BY DEF Threaded
<1>2. /\ la \in Seq(Int) /\ nla = IF room < na THEN room ELSE na
      /\ \A i \in 1 .. nla : la[i] = k[a[i]]
  BY DEF Lists
<1>3. CASE room <= na
  <2>1. l = la /\ nl = nla
    BY <1>1, <1>2, <1>3
  <2> HIDE DEF na, nb, nw, nla, nl
  <2>2. nla = room /\ (IF room < nw THEN room ELSE nw) = room
    BY <1>1, <1>2, <1>3
  <2>3. ASSUME NEW i \in 1 .. nl PROVE l[i] = k[w[i]]
    <3>1. i \in 1 .. nla /\ i \in 1 .. na
      BY <1>1, <1>3, <2>1, <2>2
    <3> QED
      BY <1>1, <1>2, <2>1, <3>1
  <2> QED
    BY <1>2, <2>1, <2>2, <2>3 DEF Lists, nw, nl
<1>4. CASE room > na
  <2>1. nla = na /\ l = la \o <<k[m]>> \o lb
    BY <1>1, <1>2, <1>4
  <2>2. /\ lb \in Seq(Int) /\ nlb = IF room - na - 1 < nb THEN room - na - 1 ELSE nb
        /\ \A i \in 1 .. nlb : lb[i] = k[b[i]]
    BY <1>4 DEF Lists
  <2>3. l \in Seq(Int) /\ Threaded(la, k[m], lb, l)
    BY <1>2, <2>1, <2>2, Joined, Zenon
  <2>4. /\ nl = nla + 1 + nlb
        /\ \A i \in 1 .. nla : l[i] = la[i]
        /\ l[nla + 1] = k[m]
        /\ \A i \in 1 .. nlb : l[nla + 1 + i] = lb[i]
    BY <2>3 DEF Threaded
  <2>5. nl \in Nat /\ nlb \in Nat
    BY <2>2, <2>3
  <2> HIDE DEF na, nb, nw, nla, nlb, nl
  <2>6. nl = IF room < nw THEN room ELSE nw
    BY <1>1, <1>4, <2>1, <2>2, <2>4, <2>5
  <2>7. ASSUME NEW i \in 1 .. nl PROVE l[i] = k[w[i]]
    <3>1. CASE i <= na
      <4>1. i \in 1 .. na /\ i \in 1 .. nla
        BY <2>1, <3>1
      <4> QED
        BY <1>1, <1>2, <2>4, <4>1
    <3>2. CASE i = na + 1
      BY <1>1, <2>1, <2>4, <3>2
    <3>3. CASE i > na + 1
      <4> DEFINE j == i - (na + 1)
      <4>1. j \in 1 .. nlb /\ j \in 1 .. nb /\ i = na + 1 + j
        BY <1>1, <2>1, <2>2, <2>4, <2>5, <3>3
      <4> HIDE DEF j
      <4>2. l[i] = lb[j] /\ w[i] = b[j]
        BY <1>1, <2>1, <2>4, <4>1
      <4> QED
        BY <2>2, <4>1, <4>2
    <3>4. i <= na \/ i = na + 1 \/ i > na + 1
      BY <1>1, <2>5
    <3> QED
      BY <3>1, <3>2, <3>3, <3>4
  <2> QED
    BY <2>3, <2>6, <2>7 DEF Lists, nw, nl
<1> QED
  BY <1>1, <1>3, <1>4
=============================================================================
