----------------------------- MODULE AvlProofs -----------------------------
(***************************************************************************)
(* The tree of avl.c holds its blocks once each, in order and balanced,    *)
(* and finds the best fit, for any finite set of blocks of any sizes.      *)
(* Sound says so of a tree by naming, for each node, what hangs below it.  *)
(***************************************************************************)
EXTENDS Avl, FiniteSetTheorems, WellFoundedInduction, TLAPS

-----------------------------------------------------------------------------
(* Loops.                                                                  *)

\* In a set of natural numbers that is not empty, one is the least.
LEMMA Least ==
  ASSUME NEW T, T \subseteq Nat, T # {}
  PROVE  \E x \in T : \A y \in T : x <= y
<1> DEFINE R == OpToRel(<, Nat)
<1>1. IsWellFoundedOn(R, Nat)
  BY NatLessThanWellFounded
<1>2. \A x, y \in Nat : x < y => <<x, y>> \in R
  BY DEF OpToRel
<1> HIDE DEF R
<1>3. PICK x \in T : \A y \in T : ~(<<y, x>> \in R)
  BY <1>1, WFMin
<1>4. \A y \in T : x \in Nat /\ y \in Nat /\ ~(y < x)
  BY <1>2, <1>3
<1> QED
  BY <1>4

\* Induction, for a property given as the set of the numbers that have it.
LEMMA Induction ==
  ASSUME NEW P, P \subseteq Nat, 0 \in P, \A n \in P : n + 1 \in P
  PROVE  P = Nat
<1>1. SUFFICES ASSUME Nat \ P # {} PROVE FALSE
  OBVIOUS
<1>2. PICK n \in Nat \ P : \A y \in Nat \ P : n <= y
  BY <1>1, Least
<1>3. n # 0 /\ n - 1 \in Nat /\ n - 1 + 1 = n
  BY <1>2
<1>4. n - 1 \in P
  BY <1>2, <1>3
<1> QED
  BY <1>2, <1>3, <1>4

\* H repeated n times from b, as a function of the number of times.
HasIterates(B, b, H, n) == \E f \in [0 .. n -> B] : f[0] = b /\ \A k \in 1 .. n : f[k] = H[f[k - 1]]

\* A step can be repeated any number of times.
LEMMA Iterates ==
  ASSUME NEW B, NEW b \in B, NEW H \in [B -> B], NEW n \in Nat
  PROVE  HasIterates(B, b, H, n)
<1> USE DEF HasIterates
<1> DEFINE P == {m \in Nat : HasIterates(B, b, H, m)}
<1>1. 0 \in P
  <2> DEFINE f == [k \in 0 .. 0 |-> b]
  <2>1. f \in [0 .. 0 -> B] /\ f[0] = b /\ 1 .. 0 = {}
    OBVIOUS
  <2> HIDE DEF f
  <2>2. HasIterates(B, b, H, 0)
    BY <2>1
  <2> QED
    BY <2>2
<1>2. ASSUME NEW m \in P PROVE m + 1 \in P
  <2>1. PICK f \in [0 .. m -> B] : f[0] = b /\ \A k \in 1 .. m : f[k] = H[f[k - 1]]
    OBVIOUS
  <2> DEFINE g == [k \in 0 .. m + 1 |-> IF k = m + 1 THEN H[f[m]] ELSE f[k]]
  <2>2. \A k \in 0 .. m : g[k] = f[k]
    OBVIOUS
  <2>3. g[m + 1] = H[f[m]] /\ f[m] \in B
    OBVIOUS
  <2>4. g \in [0 .. m + 1 -> B]
    BY <2>3
  <2> HIDE DEF g
  <2>5. ASSUME NEW k \in 1 .. m + 1 PROVE g[k] = H[g[k - 1]]
    <3>1. CASE k = m + 1
      BY <2>2, <2>3, <3>1
    <3>2. CASE k \in 1 .. m
      BY <2>1, <2>2, <3>2
    <3> QED
      BY <3>1, <3>2
  <2> QED
    BY <2>1, <2>2, <2>4, <2>5
<1> HIDE DEF P
<1>3. P \subseteq Nat
  BY DEF P
<1>4. n \in P
  BY <1>1, <1>2, <1>3, Induction
<1> QED
  BY <1>4 DEF P

\* What Turns computes, step by step.
Runs(turn, f) ==
  /\ \A r \in DOMAIN turn : f[0][r] = r
  /\ \A k \in 1 .. Cardinality(Nodes), r \in DOMAIN turn :
       f[k][r] = IF turn[r] = r THEN r ELSE f[k - 1][turn[r]]

\* The recursion of Turns has a solution, so that its definition is one.
LEMMA TurnsRun ==
  ASSUME NEW A, NEW turn \in [A -> A], NEW start \in A
  PROVE  \E f : Runs(turn, f) /\ Turns(turn, start) = f[Cardinality(Nodes)][start]
<1> DEFINE N == Cardinality(Nodes)
           Body(f) == [k \in 0 .. N |-> [r \in DOMAIN turn |->
                         LET next == turn[r] IN IF k = 0 \/ next = r THEN r ELSE f[k - 1][next]]]
           go == CHOOSE f : f = Body(f)
<1>1. Turns(turn, start) = go[N][start]
  BY DEF Turns
<1>2. N \in Nat
  BY AvlAssumption, FS_CardinalityType
<1>3. \E f : f = Body(f)
  <2> DEFINE B == [A -> A]
             id == [r \in A |-> r]
             H == [F \in B |-> [r \in A |-> IF turn[r] = r THEN r ELSE F[turn[r]]]]
  <2>1. id \in B /\ H \in [B -> B]
    OBVIOUS
  <2> HIDE DEF N, B, id, H
  <2>2. HasIterates(B, id, H, N)
    BY <1>2, <2>1, Iterates
  <2>3. PICK f \in [0 .. N -> B] : f[0] = id /\ \A k \in 1 .. N : f[k] = H[f[k - 1]]
    BY <2>2 DEF HasIterates
  <2> USE DEF B, id, H
  <2>4. ASSUME NEW k \in 0 .. N
        PROVE  f[k] = [r \in A |-> IF k = 0 \/ turn[r] = r THEN r ELSE f[k - 1][turn[r]]]
    <3>1. CASE k = 0
      BY <2>3, <3>1
    <3>2. CASE k # 0
      <4>1. k \in 1 .. N /\ k - 1 \in 0 .. N
        BY <1>2, <3>2
      <4> QED
        BY <2>3, <3>2, <4>1
    <3> QED
      BY <3>1, <3>2
  <2>5. f = Body(f)
    BY <2>4
  <2> QED
    BY <2>5
<1>4. go = Body(go)
  BY <1>3
<1> HIDE DEF go, N
<1>5. Runs(turn, go)
  <2>1. \A k \in 0 .. N, r \in DOMAIN turn :
           go[k][r] = IF k = 0 \/ turn[r] = r THEN r ELSE go[k - 1][turn[r]]
    <3> SUFFICES ASSUME NEW k \in 0 .. N, NEW r \in DOMAIN turn
                 PROVE  go[k][r] = IF k = 0 \/ turn[r] = r THEN r ELSE go[k - 1][turn[r]]
      OBVIOUS
    <3>1. go[k] = Body(go)[k]
      BY <1>4
    <3>2. Body(go)[k] = [q \in DOMAIN turn |->
                           IF k = 0 \/ turn[q] = q THEN q ELSE go[k - 1][turn[q]]]
      OBVIOUS
    <3> QED
      BY <3>1, <3>2
  <2> QED
    BY <1>2, <2>1 DEF Runs, N
<1> QED
  BY <1>1, <1>5 DEF N

\* What holds at the start, and after a turn if it held before, holds at the end; the
\* number of turns may be counted, since a turn that changes nothing may be repeated.
LEMMA TurnsKeep ==
  ASSUME NEW A, NEW turn \in [A -> A], NEW start \in A, NEW I,
         <<0, start>> \in I,
         \A k \in Nat, r \in A : <<k, r>> \in I => <<k + 1, turn[r]>> \in I
  PROVE  Turns(turn, start) \in A /\ <<Cardinality(Nodes), Turns(turn, start)>> \in I
<1> DEFINE N == Cardinality(Nodes)
<1>1. PICK f : Runs(turn, f) /\ Turns(turn, start) = f[N][start]
  BY TurnsRun
<1>2. N \in Nat
  BY AvlAssumption, FS_CardinalityType
<1>3. \A r \in A : f[0][r] = r
  BY <1>1 DEF Runs
<1>4. \A k \in 1 .. N, r \in A : f[k][r] = IF turn[r] = r THEN r ELSE f[k - 1][turn[r]]
  BY <1>1 DEF Runs
<1> HIDE DEF N
<1>5. ASSUME NEW j \in Nat, NEW r \in A, turn[r] = r, <<j, r>> \in I, NEW m \in Nat
      PROVE  <<j + m, r>> \in I
  <2> DEFINE P == {k \in Nat : <<j + k, r>> \in I}
  <2>1. 0 \in P
    BY <1>5
  <2>2. ASSUME NEW k \in P PROVE k + 1 \in P
    <3>1. <<(j + k) + 1, r>> \in I
      BY <1>5
    <3>2. (j + k) + 1 = j + (k + 1)
      OBVIOUS
    <3> QED
      BY <3>1, <3>2
  <2> HIDE DEF P
  <2>3. P \subseteq Nat
    BY DEF P
  <2>4. m \in P
    BY <2>1, <2>2, <2>3, Induction
  <2> QED
    BY <2>4 DEF P
<1> DEFINE Kept(k) == \A j \in Nat, r \in A : <<j, r>> \in I => f[k][r] \in A /\ <<j + k, f[k][r]>> \in I
           Q == {k \in Nat : k <= N => Kept(k)}
<1>6. 0 \in Q
  BY <1>3
<1>7. ASSUME NEW k \in Q PROVE k + 1 \in Q
  <2> SUFFICES ASSUME k + 1 <= N, NEW j \in Nat, NEW r \in A, <<j, r>> \in I
               PROVE  f[k + 1][r] \in A /\ <<j + (k + 1), f[k + 1][r]>> \in I
    OBVIOUS
  <2>1. k \in Nat /\ k + 1 \in 1 .. N /\ (k + 1) - 1 = k /\ k <= N
    BY <1>2
  <2>2. Kept(k)
    BY <2>1
  <2>3. f[k + 1][r] = IF turn[r] = r THEN r ELSE f[k][turn[r]]
    BY <1>4, <2>1
  <2>4. CASE turn[r] = r
    <3>1. k + 1 \in Nat
      BY <2>1
    <3> QED
      BY <1>5, <2>3, <2>4, <3>1
  <2>5. CASE turn[r] # r
    <3>1. <<j + 1, turn[r]>> \in I /\ turn[r] \in A
      OBVIOUS
    <3>2. f[k][turn[r]] \in A /\ <<(j + 1) + k, f[k][turn[r]]>> \in I
      BY <2>2, <3>1
    <3>3. (j + 1) + k = j + (k + 1)
      BY <2>1
    <3> QED
      BY <2>3, <2>5, <3>2, <3>3
  <2> QED
    BY <2>4, <2>5
<1> HIDE DEF Q
<1>8. Q \subseteq Nat
  BY DEF Q
<1>9. N \in Q
  BY <1>2, <1>6, <1>7, <1>8, Induction
<1>10. Kept(N)
  BY <1>2, <1>9 DEF Q
<1>11. 0 + N = N
  BY <1>2
<1> QED
  BY <1>1, <1>10, <1>11 DEF N

-----------------------------------------------------------------------------
(* Trees.                                                                  *)

\* m stands on side q of n in the order of sizes.
Before(t, q, m, n) == IF q = "left" THEN t.size[m] <= t.size[n] ELSE t.size[n] <= t.size[m]

\* The links stay among the nodes M, and a child knows its parent.
Linked(t, M) ==
  /\ t \in Tree /\ M \subseteq Nodes
  /\ t.root \in M \union {Nil}
  /\ \A q \in Side, n \in M : t.child[q][n] \in M \union {Nil}
  /\ \A q \in Side : t.child[q][Nil] = Nil
  /\ t.size[Nil] = 0
  /\ t.root # Nil => t.parent[t.root] = Nil
  /\ \A q \in Side, n \in M : t.child[q][n] # Nil => t.parent[t.child[q][n]] = n

\* D[n] is n and what hangs below it, each node once; all of M hangs below the root.
Hanging(t, M, D) ==
  /\ D \in [Node -> SUBSET M]
  /\ D[Nil] = {} /\ D[t.root] = M
  /\ \A q \in Side, n \in M :
       /\ D[n] = {n} \union D[t.child[q][n]] \union D[t.child[Other(q)][n]]
       /\ n \notin D[t.child[q][n]]
       /\ D[t.child[q][n]] \intersect D[t.child[Other(q)][n]] = {}

\* What hangs on a side of a node is on that side in the order of sizes.
Sorted(t, M, D) == \A q \in Side, n \in M : \A m \in D[t.child[q][n]] : Before(t, q, m, n)

\* A search tree of the nodes M.
Shape(t, M, D) == Linked(t, M) /\ Hanging(t, M, D) /\ Sorted(t, M, D)

\* The two sides.
LEMMA Sides ==
  /\ \A q \in Side : Other(q) \in Side /\ Other(q) # q /\ Other(Other(q)) = q
  /\ \A q, r \in Side : q = r \/ q = Other(r)
BY DEF Side, Other

\* A node hangs below itself, and its child below it.
LEMMA Hangs ==
  ASSUME NEW t, NEW M, NEW D, Linked(t, M), Hanging(t, M, D), NEW n \in M
  PROVE  /\ n \in D[n] /\ n # Nil
         /\ \A q \in Side : /\ D[t.child[q][n]] \subseteq D[n] /\ t.child[q][n] # n
                            /\ t.child[q][n] # Nil => t.child[q][n] \in D[t.child[q][n]]
                            /\ t.child[q][n] # Nil => t.child[q][n] # t.child[Other(q)][n]
<1>1. n \in D[n] /\ "left" \in Side /\ n # Nil
  BY AvlAssumption DEF Hanging, Linked, Side
<1>2. ASSUME NEW q \in Side
      PROVE  /\ D[t.child[q][n]] \subseteq D[n] /\ t.child[q][n] # n
             /\ t.child[q][n] # Nil => t.child[q][n] \in D[t.child[q][n]]
             /\ t.child[q][n] # Nil => t.child[q][n] # t.child[Other(q)][n]
  <2> DEFINE c == t.child[q][n]
  <2>1. D[n] = {n} \union D[c] \union D[t.child[Other(q)][n]] /\ n \notin D[c]
        /\ D[c] \intersect D[t.child[Other(q)][n]] = {}
    BY DEF Hanging
  <2>2. c \in M \union {Nil}
    BY DEF Linked
  <2> HIDE DEF c
  <2>3. c # Nil => c \in D[c]
    BY <2>2, Sides DEF Hanging, Side
  <2>4. c # n
    BY <1>1, <2>1
  <2>5. c # Nil => c # t.child[Other(q)][n]
    BY <2>1, <2>3
  <2> QED
    BY <2>1, <2>3, <2>4, <2>5 DEF c
<1> QED
  BY <1>1, <1>2

\* Whatever hangs below a node has its parent there too.
LEMMA HasParent ==
  ASSUME NEW t, NEW M, NEW D, Linked(t, M), Hanging(t, M, D), NEW c \in M, NEW n \in D[c], n # c
  PROVE  t.parent[n] \in D[c] /\ \E q \in Side : t.child[q][t.parent[n]] = n
<1> DEFINE Orphan(d) == d \in M /\ n \in D[d] /\ n # d
                          /\ ~(t.parent[n] \in D[d] /\ \E q \in Side : t.child[q][t.parent[n]] = n)
           T == {Cardinality(D[d]) : d \in {e \in M : Orphan(e)}}
<1>1. SUFFICES ASSUME Orphan(c) PROVE FALSE
  OBVIOUS
<1>2. ASSUME NEW d \in M PROVE IsFiniteSet(D[d]) /\ Cardinality(D[d]) \in Nat
  BY AvlAssumption, FS_Subset, FS_CardinalityType DEF Linked, Hanging, Node
<1>3. T # {} /\ T \subseteq Nat
  BY <1>1, <1>2
<1>4. PICK k \in T : \A j \in T : k <= j
  <2> HIDE DEF T
  <2> QED
    BY <1>3, Least
<1>5. PICK d \in M : Orphan(d) /\ k = Cardinality(D[d])
  OBVIOUS
<1>6. PICK q \in Side : n \in D[t.child[q][d]]
  BY <1>5 DEF Hanging, Side, Other
<1> DEFINE e == t.child[q][d]
<1>7. e \in M /\ D[e] \subseteq D[d] /\ d \notin D[e] /\ d \in D[d]
  BY <1>5, <1>6, Hangs DEF Linked, Hanging
<1>8. t.parent[e] = d /\ t.child[q][d] = e
  BY <1>7, AvlAssumption DEF Linked
<1> HIDE DEF e
<1>9. n # e
  BY <1>5, <1>7, <1>8
<1>10. Orphan(e)
  BY <1>5, <1>6, <1>7, <1>9 DEF e
<1>11. Cardinality(D[e]) < Cardinality(D[d])
  <2>1. D[e] \in SUBSET D[d] /\ D[e] # D[d]
    BY <1>7
  <2>2. Cardinality(D[e]) <= Cardinality(D[d]) /\ Cardinality(D[e]) # Cardinality(D[d])
    BY <1>2, <2>1, FS_Subset
  <2> QED
    BY <1>2, <1>7, <2>2
<1>12. Cardinality(D[e]) \in T
  BY <1>7, <1>10
<1> QED
  BY <1>2, <1>4, <1>5, <1>7, <1>11, <1>12

\* An assignment to a field of a tree.
PutRoot(t, v) == [t EXCEPT !.root = v]
PutChild(t, q, n, v) == [t EXCEPT !.child[q][n] = v]
PutParent(t, n, v) == [t EXCEPT !.parent[n] = v]
PutHeight(t, n, v) == [t EXCEPT !.height[n] = v]
PutSize(t, n, v) == [t EXCEPT !.size[n] = v]

\* r has t's links but for one, which is v.
Relinked(t, r, s, n, v) ==
  \A q \in Side, m \in Node : r.child[q][m] = IF q = s /\ m = n THEN v ELSE t.child[q][m]

\* The fields after an assignment.
LEMMA SetRoot ==
  ASSUME NEW t \in Tree, NEW v \in Node, NEW r, r = PutRoot(t, v)
  PROVE  /\ r \in Tree /\ r.root = v /\ r.child = t.child /\ r.parent = t.parent
         /\ r.height = t.height /\ r.size = t.size
BY DEF PutRoot, Tree

\* The same.
LEMMA SetParent ==
  ASSUME NEW t \in Tree, NEW n \in Node, NEW v \in Node, NEW r, r = PutParent(t, n, v)
  PROVE  /\ r \in Tree /\ r.root = t.root /\ r.child = t.child
         /\ r.parent = [t.parent EXCEPT ![n] = v] /\ r.height = t.height /\ r.size = t.size
<1>1. r = [t EXCEPT !.parent = [t.parent EXCEPT ![n] = v]] /\ [t.parent EXCEPT ![n] = v] \in [Node -> Node]
  BY DEF PutParent, Tree
<1> QED
  BY <1>1 DEF Tree

\* The same.
LEMMA SetHeight ==
  ASSUME NEW t \in Tree, NEW n \in Node, NEW v \in Nat, NEW r, r = PutHeight(t, n, v)
  PROVE  /\ r \in Tree /\ r.root = t.root /\ r.child = t.child /\ r.parent = t.parent
         /\ r.height = [t.height EXCEPT ![n] = v] /\ r.size = t.size
<1>1. r = [t EXCEPT !.height = [t.height EXCEPT ![n] = v]] /\ [t.height EXCEPT ![n] = v] \in [Node -> Nat]
  BY DEF PutHeight, Tree
<1> QED
  BY <1>1 DEF Tree

\* The same.
LEMMA SetSize ==
  ASSUME NEW t \in Tree, NEW n \in Node, NEW v \in Nat, NEW r, r = PutSize(t, n, v)
  PROVE  /\ r \in Tree /\ r.root = t.root /\ r.child = t.child /\ r.parent = t.parent
         /\ r.height = t.height /\ r.size = [t.size EXCEPT ![n] = v]
<1>1. r = [t EXCEPT !.size = [t.size EXCEPT ![n] = v]] /\ [t.size EXCEPT ![n] = v] \in [Node -> Nat]
  BY DEF PutSize, Tree
<1> QED
  BY <1>1 DEF Tree

\* The same.
LEMMA SetChild ==
  ASSUME NEW t \in Tree, NEW s \in Side, NEW n \in Node, NEW v \in Node, NEW r,
         r = PutChild(t, s, n, v)
  PROVE  /\ r \in Tree /\ r.root = t.root /\ r.parent = t.parent
         /\ r.height = t.height /\ r.size = t.size
         /\ Relinked(t, r, s, n, v)
<1> DEFINE below == [t.child[s] EXCEPT ![n] = v]
           child == [t.child EXCEPT ![s] = below]
<1>1. t.child \in [Side -> [Node -> Node]]
  BY DEF Tree
<1>2. below \in [Node -> Node] /\ \A m \in Node : below[m] = IF m = n THEN v ELSE t.child[s][m]
  BY <1>1
<1>3. r = [t EXCEPT !.child = child]
  BY DEF PutChild, Tree
<1> HIDE DEF below
<1>4. child \in [Side -> [Node -> Node]]
  BY <1>1, <1>2
<1>5. \A q \in Side, m \in Node : child[q][m] = IF q = s /\ m = n THEN v ELSE t.child[q][m]
  BY <1>1, <1>2
<1> HIDE DEF child
<1> QED
  BY <1>3, <1>4, <1>5 DEF Tree, Relinked

\* Where u is linked from: the root, or one side of its parent, and nowhere else.
Placed(t, M, u) ==
  /\ t.parent[u] \in M \union {Nil}
  /\ \A q \in Side, n \in M : t.child[q][n] = u => n = t.parent[u] /\ t.child[Other(q)][n] # u
  /\ t.root = u <=> t.parent[u] = Nil
  /\ t.parent[u] # Nil => \E q \in Side : t.child[q][t.parent[u]] = u

\* Every node of a tree has its place.
LEMMA EachPlaced ==
  ASSUME NEW t, NEW M, NEW D, Linked(t, M), Hanging(t, M, D), NEW u \in M
  PROVE  Placed(t, M, u)
<1>1. u # Nil /\ Nil \notin M
  BY AvlAssumption DEF Linked
<1>2. ASSUME NEW q \in Side, NEW n \in M, t.child[q][n] = u
      PROVE  n = t.parent[u] /\ t.child[Other(q)][n] # u
  BY <1>1, <1>2, Hangs DEF Linked
<1>3. CASE t.root = u
  BY <1>1, <1>2, <1>3 DEF Linked, Placed
<1>4. CASE t.root # u
  <2>1. t.root \in M /\ u \in D[t.root]
    BY <1>1 DEF Linked, Hanging
  <2>2. t.parent[u] \in M /\ \E q \in Side : t.child[q][t.parent[u]] = u
    <3>1. t.parent[u] \in D[t.root] /\ \E q \in Side : t.child[q][t.parent[u]] = u
      BY <1>4, <2>1, HasParent
    <3>2. D[t.root] = M
      BY DEF Hanging
    <3> QED
      BY <3>1, <3>2
  <2> QED
    BY <1>1, <1>2, <1>4, <2>2 DEF Placed
<1> QED
  BY <1>3, <1>4

\* transplant, field by field: r is t after v took u's place.
Transplanted(t, r, M, u, v) ==
  /\ r \in Tree /\ r.size = t.size /\ r.height = t.height
  /\ r.root = IF t.root = u THEN v ELSE t.root
  /\ r.parent = [t.parent EXCEPT ![v] = t.parent[u]]
  /\ \A q \in Side, n \in M : r.child[q][n] = IF t.child[q][n] = u THEN v ELSE t.child[q][n]
  /\ \A q \in Side, n \in Node \ M : r.child[q][n] = t.child[q][n]

\* transplant does what Transplanted says.
LEMMA TransplantIs ==
  ASSUME NEW t \in Tree, NEW M, M \subseteq Nodes, NEW u \in M, NEW v \in Node, Placed(t, M, u),
         NEW r, r = Transplant(t, u, v)
  PROVE  Transplanted(t, r, M, u, v)
<1> USE DEF Transplanted
<1> DEFINE up == t.parent[u]
<1>1. up \in Node /\ up \in M \union {Nil} /\ M \subseteq Node /\ Nil \notin M /\ u \in Node
  BY AvlAssumption DEF Placed, Tree, Node
<1>2. CASE up = Nil
  <2> DEFINE t1 == PutRoot(t, v)
  <2>1. r = PutParent(t1, v, up)
    BY <1>2 DEF Transplant, PutRoot, PutParent
  <2>2. t.root = u /\ \A q \in Side, n \in M : t.child[q][n] # u
    BY <1>1, <1>2 DEF Placed
  <2>4. /\ t1 \in Tree /\ t1.size = t.size /\ t1.height = t.height /\ t1.root = v
        /\ t1.parent = t.parent /\ t1.child = t.child
    BY SetRoot
  <2> HIDE DEF up, t1
  <2>3. /\ r \in Tree /\ r.size = t.size /\ r.height = t.height /\ r.root = v
        /\ r.parent = [t.parent EXCEPT ![v] = up] /\ r.child = t.child
    BY <1>1, <2>1, <2>4, SetParent
  <2> QED
    BY <2>2, <2>3 DEF up
<1>3. ASSUME NEW s \in Side, up # Nil, t.child[s][up] = u,
             r = [[t EXCEPT !.child[s][up] = v] EXCEPT !.parent[v] = up]
      PROVE  Transplanted(t, r, M, u, v)
  <2>1. t.root # u /\ up \in M
    BY <1>1, <1>3 DEF Placed
  <2>2. \A q \in Side, n \in M : t.child[q][n] = u <=> q = s /\ n = up
    BY <1>3, <2>1, Sides DEF Placed
  <2> DEFINE t1 == PutChild(t, s, up, v)
  <2>4. r = PutParent(t1, v, up)
    BY <1>3 DEF PutChild, PutParent
  <2> HIDE DEF up
  <2>5. /\ t1 \in Tree /\ t1.size = t.size /\ t1.height = t.height /\ t1.root = t.root
        /\ t1.parent = t.parent /\ Relinked(t, t1, s, up, v)
    BY <1>1, SetChild
  <2> HIDE DEF t1
  <2>3. /\ r \in Tree /\ r.size = t.size /\ r.height = t.height /\ r.root = t.root
        /\ r.parent = [t.parent EXCEPT ![v] = up]
        /\ \A q \in Side, n \in Node : r.child[q][n] = IF q = s /\ n = up THEN v ELSE t.child[q][n]
    BY <1>1, <2>4, <2>5, SetParent DEF Relinked
  <2> QED
    BY <1>1, <2>1, <2>2, <2>3 DEF up
<1>4. CASE up # Nil
  <2>1. CASE u = t.child["left"][up]
    BY <1>3, <1>4, <2>1 DEF Transplant, Side
  <2>2. CASE u # t.child["left"][up]
    <3>1. u = t.child["right"][up] /\ "right" \in Side
      BY <1>4, <2>2 DEF Placed, Side
    <3> QED
      BY <1>3, <1>4, <2>2, <3>1 DEF Transplant
  <2> QED
    BY <2>1, <2>2
<1> QED
  BY <1>2, <1>4

\* rotate_left or rotate_right, field by field: r is t after x went down to side s.
Rotated(t, r, M, s, x) ==
  LET o   == Other(s)
      y   == t.child[o][x]
      mid == t.child[s][y]
  IN /\ r \in Tree /\ r.size = t.size
     /\ r.root = IF t.root = x THEN y ELSE t.root
     /\ \A q \in Side, n \in M :
          r.child[q][n] = IF n = x THEN IF q = o THEN mid ELSE t.child[q][n]
                          ELSE IF n = y THEN IF q = s THEN x ELSE t.child[q][n]
                          ELSE IF t.child[q][n] = x THEN y ELSE t.child[q][n]
     /\ \A q \in Side : r.child[q][Nil] = t.child[q][Nil]
     /\ \A n \in M : r.parent[n] = IF n = x THEN y ELSE IF n = y THEN t.parent[x]
                                   ELSE IF n = mid THEN x ELSE t.parent[n]
     /\ \A n \in Node \ {x, y} : r.height[n] = t.height[n]
     /\ r.height[x] = 1 + Larger(t.height[t.child[s][x]], t.height[mid])
     /\ r.height[y] = 1 + Larger(r.height[x], t.height[t.child[o][y]])

\* update_height assigns a height.
LEMMA UpdateHeightIs ==
  ASSUME NEW t \in Tree, NEW n \in Node
  PROVE  /\ UpdateHeight(t, n) =
              PutHeight(t, n, 1 + Larger(t.height[t.child["left"][n]], t.height[t.child["right"][n]]))
         /\ 1 + Larger(t.height[t.child["left"][n]], t.height[t.child["right"][n]]) \in Nat
         /\ \A s \in Side : 1 + Larger(t.height[t.child["left"][n]], t.height[t.child["right"][n]])
                              = 1 + Larger(t.height[t.child[s][n]], t.height[t.child[Other(s)][n]])
<1>1. t.height[t.child["left"][n]] \in Nat /\ t.height[t.child["right"][n]] \in Nat
  BY DEF Tree, Side
<1>2. \A a, b \in Nat : Larger(a, b) \in Nat /\ Larger(a, b) = Larger(b, a)
  BY DEF Larger
<1>3. \A a, b \in Nat : 1 + Larger(a, b) \in Nat
  BY <1>2
<1> QED
  BY <1>1, <1>2, <1>3 DEF UpdateHeight, PutHeight, Side, Other

\* A rotation does what Rotated says.
LEMMA RotateIs ==
  ASSUME NEW t, NEW M, NEW D, Linked(t, M), Hanging(t, M, D), NEW s \in Side, NEW x \in M,
         t.child[Other(s)][x] # Nil
  PROVE  Rotated(t, Rotate(t, s, x), M, s, x)
<1> DEFINE o == Other(s)
           y == t.child[o][x]
           mid == t.child[s][y]
           ta == PutChild(t, o, x, mid)
           tb == PutParent(ta, mid, IF mid = Nil THEN t.parent[mid] ELSE x)
           tc == Transplant(tb, x, y)
           td == PutChild(tc, s, y, x)
           te == PutParent(td, x, y)
           tf == UpdateHeight(te, x)
           tg == UpdateHeight(tf, y)
<1>1. Rotate(t, s, x) = tg
  BY DEF Rotate, PutChild, PutParent
<1>2. /\ t \in Tree /\ M \subseteq Nodes /\ M \subseteq Node /\ Nil \in Node /\ Nil \notin M
      /\ o \in Side /\ o # s /\ Other(o) = s
  BY AvlAssumption, Sides DEF Linked, Node
<1>3. y \in M /\ y # x /\ x \notin D[y] /\ t.parent[y] = x
  BY <1>2, Hangs DEF Linked, Hanging
<1>4. mid \in M \union {Nil} /\ mid # x /\ mid # y
  <2>1. mid \in M \union {Nil} /\ mid # y
    BY <1>2, <1>3, Hangs DEF Linked
  <2>2. mid # Nil => mid \in D[mid] /\ D[mid] \subseteq D[y]
    BY <1>3, <2>1, Hangs
  <2> QED
    BY <1>2, <1>3, <2>1, <2>2
<1>5. Placed(t, M, x)
  BY EachPlaced
<1>6. t.child[o][y] # x /\ \A q \in Side : t.child[q][x] # x
  BY <1>2, <1>3, <1>5, Hangs DEF Linked, Placed
<1>7. t.parent[mid] \in Node /\ t.parent[x] \in Node /\ t.parent[x] # x
  BY <1>2, <1>4, <1>5, <1>6 DEF Tree, Placed
<1> HIDE DEF o, y, mid
<1>8. /\ ta \in Tree /\ ta.root = t.root /\ ta.parent = t.parent /\ ta.height = t.height /\ ta.size = t.size
      /\ Relinked(t, ta, o, x, mid)
  BY <1>2, <1>4, SetChild
<1> HIDE DEF ta
<1>9. /\ tb \in Tree /\ tb.root = t.root /\ tb.height = t.height /\ tb.size = t.size
      /\ tb.parent = [t.parent EXCEPT ![mid] = IF mid = Nil THEN t.parent[mid] ELSE x]
      /\ \A q \in Side, m \in Node : tb.child[q][m] = IF q = o /\ m = x THEN mid ELSE t.child[q][m]
  <2>1. (IF mid = Nil THEN t.parent[mid] ELSE x) \in Node /\ mid \in Node
    BY <1>2, <1>4, <1>7
  <2> QED
    BY <1>8, <2>1, SetParent DEF Relinked
<1>10. \A m \in Node : tb.parent[m] = IF m = mid /\ m # Nil THEN x ELSE t.parent[m]
  BY <1>2, <1>9 DEF Tree
<1> HIDE DEF tb
<1>11. Placed(tb, M, x)
  <2>1. tb.parent[x] = t.parent[x] /\ tb.root = t.root
    BY <1>2, <1>4, <1>9, <1>10
  <2>2. \A q \in Side, n \in M : tb.child[q][n] = x <=> t.child[q][n] = x /\ n # x
    BY <1>2, <1>4, <1>6, <1>9
  <2>3. \A q \in Side, n \in M : t.child[q][n] = x => n # x
    BY <1>6
  <2> QED
    BY <1>2, <1>5, <1>7, <2>1, <2>2, <2>3, Sides DEF Placed
<1>12. /\ tc \in Tree /\ tc.size = t.size /\ tc.height = t.height
       /\ tc.root = IF t.root = x THEN y ELSE t.root
       /\ tc.parent = [tb.parent EXCEPT ![y] = tb.parent[x]]
       /\ \A q \in Side, n \in M : tc.child[q][n] = IF tb.child[q][n] = x THEN y ELSE tb.child[q][n]
       /\ \A q \in Side, n \in Node \ M : tc.child[q][n] = tb.child[q][n]
  <2>1. y \in Node /\ tc = Transplant(tb, x, y)
    BY <1>2, <1>3
  <2> HIDE DEF tc
  <2> QED
    <3>1. tb \in Tree /\ M \subseteq Nodes
      BY <1>2, <1>9
    <3>2. Transplanted(tb, tc, M, x, y)
      BY <1>11, <2>1, <3>1, TransplantIs
    <3> QED
      BY <1>9, <3>2 DEF Transplanted
<1> HIDE DEF tc
<1>13. /\ td \in Tree /\ td.size = t.size /\ td.height = t.height /\ td.root = tc.root /\ td.parent = tc.parent
       /\ \A q \in Side, n \in Node : td.child[q][n] = IF q = s /\ n = y THEN x ELSE tc.child[q][n]
  <2>1. td = PutChild(tc, s, y, x) /\ x \in Node /\ y \in Node
    BY <1>2, <1>3
  <2> HIDE DEF td
  <2> QED
    <3>1. tc \in Tree
      BY <1>12
    <3>2. /\ td \in Tree /\ td.size = tc.size /\ td.height = tc.height
          /\ td.root = tc.root /\ td.parent = tc.parent /\ Relinked(tc, td, s, y, x)
      BY <2>1, <3>1, SetChild
    <3> QED
      BY <1>12, <3>2 DEF Relinked
<1> HIDE DEF td
<1>14. /\ te \in Tree /\ te.size = t.size /\ te.height = t.height /\ te.root = tc.root
       /\ te.parent = [tc.parent EXCEPT ![x] = y]
       /\ \A q \in Side, n \in Node : te.child[q][n] = IF q = s /\ n = y THEN x ELSE tc.child[q][n]
  BY <1>2, <1>3, <1>13, SetParent
<1> HIDE DEF te
<1>15. \A q \in Side, n \in M :
          te.child[q][n] = IF n = x THEN IF q = o THEN mid ELSE t.child[q][n]
                           ELSE IF n = y THEN IF q = s THEN x ELSE t.child[q][n]
                           ELSE IF t.child[q][n] = x THEN y ELSE t.child[q][n]
  <2> TAKE q \in Side, n \in M
  <2>1. n \in Node /\ te.child[q][n] = IF q = s /\ n = y THEN x ELSE tc.child[q][n]
    BY <1>2, <1>14
  <2>2. tc.child[q][n] = IF tb.child[q][n] = x THEN y ELSE tb.child[q][n]
    BY <1>12
  <2>3. tb.child[q][n] = IF q = o /\ n = x THEN mid ELSE t.child[q][n]
    BY <1>9, <2>1
  <2>4. q = s \/ q = o
    BY Sides DEF o
  <2> QED
    BY <1>2, <1>3, <1>4, <1>6, <2>1, <2>2, <2>3, <2>4
<1>16. \A q \in Side : te.child[q][Nil] = t.child[q][Nil]
  BY <1>2, <1>3, <1>9, <1>12, <1>14
<1>17. \A n \in M : te.parent[n] = IF n = x THEN y ELSE IF n = y THEN t.parent[x]
                                   ELSE IF n = mid THEN x ELSE t.parent[n]
  <2>1. \A n \in Node : tc.parent[n] = IF n = y THEN tb.parent[x] ELSE tb.parent[n]
    BY <1>9, <1>12 DEF Tree
  <2>2. \A n \in Node : te.parent[n] = IF n = x THEN y ELSE tc.parent[n]
    BY <1>12, <1>14 DEF Tree
  <2> QED
    BY <1>2, <1>3, <1>4, <1>10, <2>1, <2>2
<1>18. /\ te.child[s][x] = t.child[s][x] /\ te.child[o][x] = mid
       /\ te.child[s][y] = x /\ te.child[o][y] = t.child[o][y]
  BY <1>2, <1>3, <1>6, <1>15
<1>19. /\ tf \in Tree /\ tf.size = t.size /\ tf.root = te.root /\ tf.child = te.child /\ tf.parent = te.parent
       /\ tf.height = [t.height EXCEPT ![x] = 1 + Larger(t.height[t.child[s][x]], t.height[mid])]
  <2> DEFINE h == 1 + Larger(te.height[te.child["left"][x]], te.height[te.child["right"][x]])
  <2>1. tf = PutHeight(te, x, h) /\ h \in Nat
    BY <1>2, <1>14, UpdateHeightIs
  <2>2. h = 1 + Larger(te.height[te.child[s][x]], te.height[te.child[o][x]])
    BY <1>2, <1>14, UpdateHeightIs DEF o
  <2>3. h = 1 + Larger(t.height[t.child[s][x]], t.height[mid])
    BY <1>14, <1>18, <2>2
  <2> HIDE DEF h, tf
  <2> QED
    BY <1>2, <1>14, <2>1, <2>3, SetHeight
<1> HIDE DEF tf
<1>20. /\ tg \in Tree /\ tg.size = t.size /\ tg.root = te.root /\ tg.child = te.child /\ tg.parent = te.parent
       /\ tg.height = [tf.height EXCEPT ![y] = 1 + Larger(tf.height[x], tf.height[t.child[o][y]])]
  <2> DEFINE h == 1 + Larger(tf.height[tf.child["left"][y]], tf.height[tf.child["right"][y]])
  <2>1. tg = PutHeight(tf, y, h) /\ h \in Nat
    BY <1>2, <1>3, <1>19, UpdateHeightIs
  <2>2. h = 1 + Larger(tf.height[tf.child[s][y]], tf.height[tf.child[o][y]])
    BY <1>2, <1>3, <1>19, UpdateHeightIs DEF o
  <2>3. h = 1 + Larger(tf.height[x], tf.height[t.child[o][y]])
    BY <1>18, <1>19, <2>2
  <2> HIDE DEF h, tg
  <2>4. /\ tg \in Tree /\ tg.size = tf.size /\ tg.root = tf.root /\ tg.child = tf.child
        /\ tg.parent = tf.parent /\ tg.height = [tf.height EXCEPT ![y] = h]
    <3>1. tf \in Tree /\ y \in Node
      BY <1>2, <1>3, <1>19
    <3> QED
      BY <2>1, <3>1, SetHeight
  <2> QED
    BY <1>19, <2>3, <2>4
<1>21. /\ \A n \in Node \ {x, y} : tg.height[n] = t.height[n]
       /\ tg.height[x] = 1 + Larger(t.height[t.child[s][x]], t.height[mid])
       /\ tg.height[y] = 1 + Larger(tg.height[x], t.height[t.child[o][y]])
  <2>1. t.height \in [Node -> Nat] /\ x \in Node /\ y \in Node
    BY <1>2, <1>3 DEF Tree
  <2>2. tf.height[t.child[o][y]] = t.height[t.child[o][y]]
    BY <1>2, <1>3, <1>6, <1>19, <2>1 DEF Tree
  <2> HIDE DEF tg
  <2>3. tf.height[x] = 1 + Larger(t.height[t.child[s][x]], t.height[mid])
        /\ \A n \in Node \ {x} : tf.height[n] = t.height[n]
    BY <1>19, <2>1
  <2>4. tf.height \in [Node -> Nat]
    BY <1>19 DEF Tree
  <2>5. tg.height[y] = 1 + Larger(tf.height[x], tf.height[t.child[o][y]])
        /\ \A n \in Node \ {y} : tg.height[n] = tf.height[n]
    BY <1>20, <2>1, <2>4
  <2> QED
    BY <1>3, <2>1, <2>2, <2>3, <2>5
<1> HIDE DEF tg
<1>22. Rotated(t, tg, M, s, x)
  <2>1. /\ tg \in Tree /\ tg.size = t.size /\ tg.root = IF t.root = x THEN y ELSE t.root
        /\ \A q \in Side : tg.child[q][Nil] = t.child[q][Nil]
    BY <1>12, <1>14, <1>16, <1>19, <1>20
  <2>2. \A q \in Side, n \in M :
          tg.child[q][n] = IF n = x THEN IF q = o THEN mid ELSE t.child[q][n]
                           ELSE IF n = y THEN IF q = s THEN x ELSE t.child[q][n]
                           ELSE IF t.child[q][n] = x THEN y ELSE t.child[q][n]
    BY <1>15, <1>19, <1>20
  <2>3. \A n \in M : tg.parent[n] = IF n = x THEN y ELSE IF n = y THEN t.parent[x]
                                     ELSE IF n = mid THEN x ELSE t.parent[n]
    BY <1>17, <1>19, <1>20
  <2> QED
    BY <1>21, <2>1, <2>2, <2>3 DEF Rotated, o, y, mid
<1> QED
  BY <1>1, <1>22

\* The order of sizes does not depend on the side it is looked at from.
LEMMA BeforeFacts ==
  ASSUME NEW t \in Tree, NEW q \in Side, NEW a \in Node, NEW b \in Node
  PROVE  /\ Before(t, q, a, b) <=> Before(t, Other(q), b, a)
         /\ \A c \in Node : Before(t, q, a, b) /\ Before(t, q, b, c) => Before(t, q, a, c)
BY DEF Before, Tree, Side, Other

\* What hangs below each node after a rotation at x to side s.
Turned(t, D, s, x) ==
  LET y == t.child[Other(s)][x]
  IN [D EXCEPT ![x] = {x} \union D[t.child[s][x]] \union D[t.child[s][y]], ![y] = D[x]]

\* A rotation keeps a search tree of the same nodes, below x's place in particular.
LEMMA RotationKeeps ==
  ASSUME NEW t, NEW M, NEW D, Shape(t, M, D), NEW s \in Side, NEW x \in M,
         t.child[Other(s)][x] # Nil, NEW r, Rotated(t, r, M, s, x), NEW E, E = Turned(t, D, s, x)
  PROVE  Shape(r, M, E)
<1> DEFINE o == Other(s)
           y == t.child[o][x]
           mid == t.child[s][y]
           cs == t.child[s][x]
           co == t.child[o][y]
<1>1. Linked(t, M) /\ Hanging(t, M, D) /\ Sorted(t, M, D)
  BY DEF Shape
<1>2. /\ t \in Tree /\ M \subseteq Nodes /\ M \subseteq Node /\ Nil \in Node /\ Nil \notin M
      /\ o \in Side /\ o # s /\ Other(o) = s /\ \A q \in Side : q = s \/ q = o
  BY <1>1, AvlAssumption, Sides DEF Linked, Node
<1>3. Placed(t, M, x)
  BY <1>1, EachPlaced
<1>4. y \in M /\ y # x /\ t.parent[y] = x /\ y # cs /\ cs # x /\ cs \in M \union {Nil}
  BY <1>1, <1>2, Hangs DEF Linked
<1>5. mid \in M \union {Nil} /\ mid # y /\ co \in M \union {Nil} /\ co # y /\ co # x /\ mid # x
      /\ (mid # Nil => mid # co)
  <2>1. mid \in M \union {Nil} /\ mid # y /\ co \in M \union {Nil} /\ co # y
        /\ (mid # Nil => mid # co)
    BY <1>1, <1>2, <1>4, Hangs DEF Linked
  <2>2. t.child[o][x] = y /\ y # x
    BY <1>4
  <2>3. \A q \in Side : t.child[q][y] # x
    <3>1. \A q \in Side : D[t.child[q][y]] \subseteq D[y]
      BY <1>1, <1>4, Hangs
    <3>2. x \notin D[y] /\ x \in D[x]
      BY <1>1, <1>2, Hangs DEF Hanging
    <3> QED
      BY <3>1, <3>2
  <2> QED
    BY <1>2, <2>1, <2>3
<1>6. /\ mid # Nil => t.parent[mid] = y
      /\ co # Nil => t.parent[co] = y
      /\ cs # Nil => t.parent[cs] = x
      /\ cs # Nil => cs # mid
  BY <1>1, <1>2, <1>4 DEF Linked
<1>7. ASSUME NEW n \in M, n # x, n # y, NEW q \in Side
      PROVE  t.child[q][n] # y /\ (t.child[q][n] # Nil => t.child[q][n] # mid) /\ t.child[q][n] \in M \union {Nil}
             /\ (t.child[q][n] # Nil => t.parent[t.child[q][n]] = n)
  BY <1>1, <1>2, <1>4, <1>6, <1>7 DEF Linked
<1>8. /\ D[x] = {x} \union D[cs] \union D[y] /\ x \notin D[cs] /\ x \notin D[y]
      /\ D[cs] \intersect D[y] = {}
      /\ D[y] = {y} \union D[mid] \union D[co] /\ y \notin D[mid] /\ y \notin D[co]
      /\ D[mid] \intersect D[co] = {}
      /\ D \in [Node -> SUBSET M] /\ D[Nil] = {} /\ D[t.root] = M
  BY <1>1, <1>2, <1>4 DEF Hanging
<1>9. /\ r \in Tree /\ r.size = t.size
      /\ r.root = IF t.root = x THEN y ELSE t.root
      /\ \A q \in Side : r.child[q][Nil] = t.child[q][Nil]
      /\ \A n \in M : r.parent[n] = IF n = x THEN y ELSE IF n = y THEN t.parent[x]
                                    ELSE IF n = mid THEN x ELSE t.parent[n]
  BY DEF Rotated
<1>10. \A q \in Side, n \in M :
          r.child[q][n] = IF n = x THEN IF q = o THEN mid ELSE t.child[q][n]
                          ELSE IF n = y THEN IF q = s THEN x ELSE t.child[q][n]
                          ELSE IF t.child[q][n] = x THEN y ELSE t.child[q][n]
  BY DEF Rotated
<1>11. r.child[s][x] = cs /\ r.child[o][x] = mid /\ r.child[s][y] = x /\ r.child[o][y] = co
  BY <1>2, <1>4, <1>10
<1>12. \A n \in Node : E[n] = IF n = y THEN D[x]
                              ELSE IF n = x THEN {x} \union D[cs] \union D[mid] ELSE D[n]
  BY <1>2, <1>4, <1>8 DEF Turned
<1>13. E \in [Node -> SUBSET M]
  <2>1. {x} \union D[cs] \union D[mid] \in SUBSET M /\ D[x] \in SUBSET M
    BY <1>2, <1>4, <1>5, <1>8
  <2> QED
    BY <1>8, <2>1 DEF Turned
<1> HIDE DEF o, y, mid, cs, co
<1>14. Linked(r, M)
  <2>1. r.root \in M \union {Nil} /\ (r.root # Nil => r.parent[r.root] = Nil)
    <3>1. CASE t.root = x
      BY <1>2, <1>3, <1>4, <1>9, <3>1 DEF Placed
    <3>2. CASE t.root # x
      <4>1. t.root \in M \union {Nil} /\ (t.root # Nil => t.parent[t.root] = Nil)
        BY <1>1 DEF Linked
      <4> QED
        BY <1>2, <1>4, <1>6, <1>9, <3>2, <4>1
    <3> QED
      BY <3>1, <3>2
  <2>2. ASSUME NEW q \in Side, NEW n \in M
        PROVE  r.child[q][n] \in M \union {Nil} /\ (r.child[q][n] # Nil => r.parent[r.child[q][n]] = n)
    <3>1. CASE n = x
      <4>1. q = s \/ q = o
        BY <1>2
      <4> QED
        BY <1>2, <1>4, <1>5, <1>6, <1>9, <1>11, <3>1, <4>1
    <3>2. CASE n = y
      <4>1. q = s \/ q = o
        BY <1>2
      <4> QED
        BY <1>2, <1>4, <1>5, <1>6, <1>9, <1>11, <3>2, <4>1
    <3>3. CASE n # x /\ n # y
      <4>1. t.child[q][n] = x => t.parent[x] = n
        BY <1>3 DEF Placed
      <4> QED
        BY <1>2, <1>4, <1>7, <1>9, <1>10, <3>3, <4>1
    <3> QED
      BY <3>1, <3>2, <3>3
  <2> QED
    BY <1>1, <1>2, <1>9, <2>1, <2>2 DEF Linked
<1>15. /\ E[x] = {x} \union D[cs] \union D[mid] /\ E[y] = D[x]
       /\ E[cs] = D[cs] /\ E[mid] = D[mid] /\ E[co] = D[co] /\ E[Nil] = {}
  BY <1>2, <1>4, <1>5, <1>8, <1>12
<1>16. ASSUME NEW n \in M, n # x, n # y
       PROVE  E[n] = D[n] /\ \A q \in Side : E[r.child[q][n]] = D[t.child[q][n]]
  <2>1. E[n] = D[n]
    BY <1>2, <1>12, <1>16
  <2>2. ASSUME NEW q \in Side PROVE E[r.child[q][n]] = D[t.child[q][n]]
    <3>1. r.child[q][n] = IF t.child[q][n] = x THEN y ELSE t.child[q][n]
      BY <1>10, <1>16
    <3>2. t.child[q][n] # y /\ t.child[q][n] \in Node
      BY <1>2, <1>7, <1>16
    <3> QED
      BY <1>12, <1>15, <3>1, <3>2
  <2> QED
    BY <2>1, <2>2
<1>17. Hanging(r, M, E)
  <2>1. E[r.root] = M
    <3>1. t.root \in Node /\ t.root # y
      <4>1. t.root # Nil => t.parent[t.root] = Nil
        BY <1>1 DEF Linked
      <4> QED
        BY <1>2, <1>4, <4>1 DEF Tree
    <3> QED
      BY <1>8, <1>9, <1>12, <1>15, <3>1
  <2>2. ASSUME NEW q \in Side, NEW n \in M
        PROVE  /\ E[n] = {n} \union E[r.child[q][n]] \union E[r.child[Other(q)][n]]
               /\ n \notin E[r.child[q][n]]
               /\ E[r.child[q][n]] \intersect E[r.child[Other(q)][n]] = {}
    <3>1. (q = s /\ Other(q) = o) \/ (q = o /\ Other(q) = s)
      BY <1>2 DEF o
    <3>2. CASE n = x
      BY <1>8, <1>11, <1>15, <3>1, <3>2
    <3>3. CASE n = y
      <4>1. E[x] \intersect D[co] = {} /\ y \notin E[x]
        <5>1. D[mid] \subseteq D[y] /\ D[co] \subseteq D[y] /\ y \in D[y]
          BY <1>8
        <5> QED
          BY <1>4, <1>8, <1>15, <5>1
      <4>2. D[x] = {y} \union E[x] \union D[co]
        BY <1>8, <1>15
      <4> QED
        BY <1>8, <1>11, <1>15, <3>1, <3>3, <4>1, <4>2
    <3>4. CASE n # x /\ n # y
      <4>1. /\ D[n] = {n} \union D[t.child[q][n]] \union D[t.child[Other(q)][n]]
            /\ n \notin D[t.child[q][n]]
            /\ D[t.child[q][n]] \intersect D[t.child[Other(q)][n]] = {}
        BY <1>1 DEF Hanging
      <4>2. Other(q) \in Side
        BY Sides
      <4> QED
        BY <1>16, <3>4, <4>1, <4>2
    <3> QED
      BY <3>2, <3>3, <3>4
  <2> QED
    BY <1>13, <1>15, <2>1, <2>2 DEF Hanging
<1>18. \A q \in Side, a, b \in Node : Before(r, q, a, b) <=> Before(t, q, a, b)
  BY <1>9 DEF Before
<1>19. Sorted(r, M, E)
  <2>1. \A n \in M, q \in Side : D[t.child[q][n]] \subseteq M /\ \A m \in D[t.child[q][n]] : Before(t, q, m, n)
    BY <1>1, <1>2, <1>8 DEF Sorted, Linked
  <2> SUFFICES ASSUME NEW q \in Side, NEW n \in M, NEW m \in E[r.child[q][n]]
               PROVE  Before(t, q, m, n)
    <3>1. \A q \in Side, n \in M : r.child[q][n] \in Node /\ E[r.child[q][n]] \subseteq M
      BY <1>2, <1>9, <1>13 DEF Tree
    <3> QED
      BY <1>2, <1>18, <3>1 DEF Sorted
  <2>2. q = s \/ q = o
    BY <1>2
  <2>3. t.child[o][x] = y /\ t.child[s][x] = cs /\ t.child[s][y] = mid /\ t.child[o][y] = co
    BY DEF o, y, cs, mid, co
  <2>4. CASE n = x
    <3>1. D[mid] \subseteq D[y]
      BY <1>8
    <3> QED
      BY <1>2, <1>11, <1>15, <2>1, <2>2, <2>3, <2>4, <3>1
  <2>5. CASE n = y /\ q = s
    <3>1. m \in {x} \union D[cs] \union D[mid]
      BY <1>11, <1>15, <2>5
    <3>2. Before(t, s, x, y)
      <4>1. y \in D[y]
        BY <1>8
      <4>2. Before(t, o, y, x)
        BY <1>2, <2>1, <2>3, <4>1
      <4> QED
        BY <1>2, <1>4, <4>2, BeforeFacts
    <3>3. CASE m \in D[cs]
      <4>1. Before(t, s, m, x) /\ m \in Node
        BY <1>2, <2>1, <2>3, <3>3
      <4> QED
        BY <1>2, <1>4, <2>5, <3>2, <4>1, BeforeFacts
    <3>4. CASE m \in D[mid]
      BY <1>4, <2>1, <2>3, <2>5, <3>4
    <3> QED
      BY <2>5, <3>1, <3>2, <3>3, <3>4
  <2>6. CASE n = y /\ q = o
    BY <1>2, <1>4, <1>11, <1>15, <2>1, <2>3, <2>6
  <2>7. CASE n # x /\ n # y
    BY <1>16, <2>1, <2>7
  <2> QED
    BY <2>2, <2>4, <2>5, <2>6, <2>7
<1> QED
  BY <1>14, <1>17, <1>19 DEF Shape

-----------------------------------------------------------------------------
(* Heights.                                                                *)

\* A node of height h may have children of heights a and b.
Level(h, a, b) == h = 1 + Larger(a, b) /\ a - b \in -1 .. 1

\* The height of c, or h while c is x, the node to be rebalanced, whose height has not
\* been told to its parent.
Told(t, x, h, c) == IF c = x THEN h ELSE t.height[c]

\* One child of x has grown or shrunk by one since x had height h, at most.
Off(t, x, h) ==
  \E q \in Side, a \in Nat : /\ a - t.height[t.child[q][x]] \in -1 .. 1
                             /\ Level(h, a, t.height[t.child[Other(q)][x]])

\* Every node is level, but for x if that is a node.
Heights(t, M, x, h) ==
  /\ t.height[Nil] = 0 /\ h \in Nat /\ (x = Nil => h = 0)
  /\ \A n \in M \ {x}, q \in Side :
       Level(t.height[n], Told(t, x, h, t.child[q][n]), Told(t, x, h, t.child[Other(q)][n]))
  /\ x # Nil => Off(t, x, h)

\* A child of a node that is not below x is not below x either, unless it is x.
LEMMA Outside ==
  ASSUME NEW t, NEW M, NEW D, Linked(t, M), Hanging(t, M, D), NEW x \in M, NEW n \in M \ D[x], NEW q \in Side
  PROVE  t.child[q][n] = x \/ t.child[q][n] \notin D[x]
<1> SUFFICES ASSUME t.child[q][n] # x, t.child[q][n] \in D[x] PROVE FALSE
  OBVIOUS
<1>1. t.child[q][n] # Nil
  BY AvlAssumption DEF Linked, Hanging, Node
<1>2. t.parent[t.child[q][n]] = n
  BY <1>1 DEF Linked
<1>3. t.parent[t.child[q][n]] \in D[x]
  BY HasParent
<1> QED
  BY <1>2, <1>3

\* When everything below x's place is level again and its height has changed by one at
\* most, the next node to be rebalanced is the parent.
LEMMA Settled ==
  ASSUME NEW t, NEW M, NEW D, Shape(t, M, D), NEW x \in M, NEW h, Heights(t, M, x, h),
         NEW r \in Tree, NEW top \in M, NEW E, Shape(r, M, E), E[top] = D[x],
         r.parent[top] = t.parent[x],
         \A n \in M \ D[x], q \in Side :
           r.child[q][n] = IF t.child[q][n] = x THEN top ELSE t.child[q][n],
         \A n \in Node \ D[x] : r.height[n] = t.height[n],
         \A n \in D[x], q \in Side :
           Level(r.height[n], r.height[r.child[q][n]], r.height[r.child[Other(q)][n]]),
         r.height[top] - h \in -1 .. 1
  PROVE  LET p == r.parent[top] IN p \in M \union {Nil} /\ Heights(r, M, p, r.height[p])
<1> DEFINE p == r.parent[top]
<1>1. Linked(t, M) /\ Hanging(t, M, D) /\ Linked(r, M) /\ Hanging(r, M, E)
  BY DEF Shape
<1>2. /\ M \subseteq Node /\ Nil \in Node /\ Nil \notin M /\ x \in D[x] /\ D[x] \subseteq M
      /\ r.height \in [Node -> Nat] /\ t.height \in [Node -> Nat]
      /\ \A n \in M, q \in Side : t.child[q][n] \in Node /\ r.child[q][n] \in Node
      /\ top # Nil /\ x # Nil
  <2>1. M \subseteq Node /\ Nil \in Node /\ Nil \notin M /\ top # Nil /\ x # Nil
    BY <1>1, AvlAssumption DEF Linked, Node
  <2>2. x \in D[x] /\ D[x] \subseteq M
    BY <1>1, <2>1, Hangs DEF Hanging
  <2>3. \A u \in Tree : u.height \in [Node -> Nat] /\ \A q \in Side, n \in Node : u.child[q][n] \in Node
    BY DEF Tree
  <2>4. t \in Tree
    BY <1>1 DEF Linked
  <2> QED
    BY <2>1, <2>2, <2>3, <2>4
<1>3. Placed(r, M, top) /\ Placed(t, M, x)
  BY <1>1, EachPlaced
<1>4. p \in M \union {Nil} /\ p = t.parent[x]
  BY <1>3 DEF Placed
<1>5. r.height[Nil] = 0 /\ r.height[p] \in Nat
  BY <1>2, <1>4 DEF Heights
<1>6. p \in M => p \notin D[x]
  <2> SUFFICES ASSUME p \in M, p \in D[x] PROVE FALSE
    OBVIOUS
  <2>1. PICK q \in Side : t.child[q][p] = x
    BY <1>2, <1>3, <1>4 DEF Placed
  <2>2. x \in D[t.child[q][p]]
    BY <1>2, <2>1
  <2>3. x # p /\ p \notin D[x]
    BY <1>1, <2>1, Hangs DEF Hanging
  <2> QED
    BY <2>3
<1> HIDE DEF p
<1>7. ASSUME NEW n \in M \ D[x], NEW q \in Side
      PROVE  /\ Level(t.height[n], Told(t, x, h, t.child[q][n]), Told(t, x, h, t.child[Other(q)][n]))
             /\ r.height[n] = t.height[n]
             /\ t.child[q][n] # x => r.height[r.child[q][n]] = t.height[t.child[q][n]]
             /\ t.child[q][n] = x => n = p /\ r.child[q][n] = top
  <2>1. n # x /\ n \in M
    BY <1>2
  <2>2. Level(t.height[n], Told(t, x, h, t.child[q][n]), Told(t, x, h, t.child[Other(q)][n]))
    BY <2>1 DEF Heights
  <2>3. r.height[n] = t.height[n]
    BY <1>2
  <2>4. t.child[q][n] # x => t.child[q][n] \notin D[x]
    BY <1>1, Outside
  <2>5. t.child[q][n] # x => r.height[r.child[q][n]] = t.height[t.child[q][n]]
    BY <1>2, <2>4
  <2>6. t.child[q][n] = x => n = p /\ r.child[q][n] = top
    BY <1>3, <1>4 DEF Placed
  <2> QED
    BY <2>2, <2>3, <2>5, <2>6
<1>8. ASSUME NEW n \in M \ {p}, NEW q \in Side
      PROVE  Level(r.height[n], Told(r, p, r.height[p], r.child[q][n]),
                   Told(r, p, r.height[p], r.child[Other(q)][n]))
  <2>1. \A c \in Node : Told(r, p, r.height[p], c) = r.height[c]
    BY DEF Told
  <2>2. Other(q) \in Side
    BY Sides
  <2> SUFFICES Level(r.height[n], r.height[r.child[q][n]], r.height[r.child[Other(q)][n]])
    BY <1>2, <2>1, <2>2
  <2>3. CASE n \in D[x]
    BY <2>3
  <2>4. CASE n \notin D[x]
    BY <1>7, <2>2, <2>4 DEF Told
  <2> QED
    BY <2>3, <2>4
<1>9. ASSUME p # Nil PROVE Off(r, p, r.height[p])
  <2>1. p \in M \ D[x]
    BY <1>4, <1>6, <1>9
  <2>2. PICK q \in Side : t.child[q][p] = x
    BY <1>3, <1>4, <1>9 DEF Placed
  <2>3. Other(q) \in Side /\ t.child[Other(q)][p] # x
    BY <1>2, <1>3, <2>1, <2>2, Sides DEF Placed
  <2>4. r.child[q][p] = top /\ r.height[r.child[Other(q)][p]] = t.height[t.child[Other(q)][p]]
        /\ r.height[p] = t.height[p]
    BY <1>7, <2>1, <2>2, <2>3
  <2>5. Level(r.height[p], h, r.height[r.child[Other(q)][p]])
    BY <1>7, <2>1, <2>2, <2>3, <2>4 DEF Told
  <2>6. h \in Nat /\ h - r.height[r.child[q][p]] \in -1 .. 1
    BY <1>2, <2>4 DEF Heights
  <2> QED
    BY <2>5, <2>6 DEF Off
<1>10. p = Nil => r.height[p] = 0
  BY <1>5
<1> QED
  BY <1>4, <1>5, <1>8, <1>9, <1>10 DEF Heights, p

\* The shape of a tree does not depend on its heights.
LEMMA HeightsAside ==
  ASSUME NEW t, NEW M, NEW D, Shape(t, M, D), NEW r \in Tree,
         r.root = t.root, r.child = t.child, r.parent = t.parent, r.size = t.size
  PROVE  Shape(r, M, D)
<1>1. Linked(r, M)
  BY DEF Shape, Linked
<1>2. Hanging(r, M, D)
  BY DEF Shape, Hanging
<1>3. Sorted(r, M, D)
  BY DEF Shape, Sorted, Before
<1> QED
  BY <1>1, <1>2, <1>3 DEF Shape

\* Below x, where no height is in doubt, nodes are level.
LEMMA LevelBelow ==
  ASSUME NEW t, NEW M, NEW D, Shape(t, M, D), NEW x \in M, NEW h, Heights(t, M, x, h),
         NEW n \in D[x], n # x, NEW q \in Side
  PROVE  Level(t.height[n], t.height[t.child[q][n]], t.height[t.child[Other(q)][n]])
<1>1. Linked(t, M) /\ Hanging(t, M, D) /\ n \in M /\ Other(q) \in Side
  BY Sides DEF Shape, Linked, Hanging, Node
<1>2. \A p \in Side : t.child[p][n] # x
  BY <1>1 DEF Hanging
<1>3. Level(t.height[n], Told(t, x, h, t.child[q][n]), Told(t, x, h, t.child[Other(q)][n]))
  BY <1>1 DEF Heights
<1> QED
  BY <1>1, <1>2, <1>3 DEF Told

\* Which heights there are when x leans by two to one side, c being the child there.
LEMMA Leaning ==
  ASSUME NEW t, NEW M, NEW D, Shape(t, M, D), NEW x \in M, NEW h, Heights(t, M, x, h), NEW s \in Side,
         t.height[t.child[s][x]] - t.height[t.child[Other(s)][x]] > 1
  PROVE  LET hc == t.height[t.child[s][x]] IN
         /\ t.height[t.child[Other(s)][x]] = hc - 2 /\ h \in {hc, hc + 1} /\ hc \in Nat /\ hc - 2 \in Nat
         /\ t.child[s][x] \in M
<1> DEFINE c == t.child[s][x]
           d == t.child[Other(s)][x]
<1>1. t \in Tree /\ Other(s) \in Side /\ Other(Other(s)) = s /\ x \in Node /\ x # Nil
      /\ c \in M \union {Nil} /\ t.height[Nil] = 0 /\ h \in Nat
      /\ \A q \in Side : q = s \/ q = Other(s)
  BY AvlAssumption, Sides DEF Shape, Linked, Node, Heights
<1>2. t.height[c] \in Nat /\ t.height[d] \in Nat
  BY <1>1 DEF Tree
<1>3. PICK q \in Side, a \in Nat : /\ a - t.height[t.child[q][x]] \in -1 .. 1
                                   /\ Level(h, a, t.height[t.child[Other(q)][x]])
  BY <1>1 DEF Heights, Off
<1>4. (q = s /\ Other(q) = Other(s)) \/ (q = Other(s) /\ Other(q) = s)
  BY <1>1
<1> HIDE DEF c, d
<1>5. t.height[c] - t.height[d] > 1
  BY DEF c, d
<1>6. \/ a - t.height[c] \in -1 .. 1 /\ Level(h, a, t.height[d])
      \/ a - t.height[d] \in -1 .. 1 /\ Level(h, a, t.height[c])
  BY <1>3, <1>4 DEF c, d
<1>7. t.height[d] = t.height[c] - 2 /\ h \in {t.height[c], t.height[c] + 1} /\ t.height[c] - 2 \in Nat
  BY <1>1, <1>2, <1>5, <1>6 DEF Level, Larger
<1>8. c # Nil
  BY <1>1, <1>2, <1>5
<1> QED
  BY <1>1, <1>2, <1>7, <1>8 DEF c, d

\* What a turn of rebalance_upwards at x leaves, with top in x's place.
TurnDone(t, M, D, x, r, top) ==
  \E E : /\ Shape(r, M, E) /\ top \in M /\ E[top] = D[x] /\ r.size = t.size
         /\ r.parent[top] \in M \union {Nil}
         /\ Heights(r, M, r.parent[top], r.height[r.parent[top]])

\* The heights after a single rotation: d, mid and cc are those below, from left to right
\* or from right to left, x and c what the nodes that turn get.
LEMMA SingleHeights ==
  ASSUME NEW hc \in Nat, NEW h \in {hc, hc + 1}, NEW cc \in Nat, NEW mid \in Nat, NEW d \in Nat,
         d = hc - 2, Level(hc, cc, mid), cc >= mid, NEW x, x = 1 + Larger(d, mid), NEW c, c = 1 + Larger(x, cc)
  PROVE  Level(x, mid, d) /\ Level(c, x, cc) /\ c - h \in -1 .. 1
<1>1. cc = hc - 1 /\ mid \in {hc - 1, hc - 2}
  BY DEF Level, Larger
<1>2. x = mid + 1
  BY <1>1 DEF Larger
<1>3. c = x + 1 \/ c = x
  BY <1>1, <1>2 DEF Larger
<1> QED
  BY <1>1, <1>2, <1>3 DEF Level, Larger

\* The single rotation.
LEMMA SingleRotation ==
  ASSUME NEW t, NEW M, NEW D, Shape(t, M, D), NEW x \in M, NEW h, Heights(t, M, x, h), NEW s \in Side,
         t.height[t.child[s][x]] - t.height[t.child[Other(s)][x]] > 1,
         ~(t.height[t.child[s][t.child[s][x]]] < t.height[t.child[Other(s)][t.child[s][x]]])
  PROVE  TurnDone(t, M, D, x, Rotate(t, Other(s), x), t.child[s][x])
<1> DEFINE o == Other(s)
           c == t.child[s][x]
           d == t.child[o][x]
           mid == t.child[o][c]
           cc == t.child[s][c]
           r == Rotate(t, o, x)
           E == Turned(t, D, o, x)
<1>1. o \in Side /\ Other(o) = s /\ o # s /\ \A q \in Side : q = s \/ q = o
  BY Sides
<1>2. Linked(t, M) /\ Hanging(t, M, D)
  BY DEF Shape
<1>3. /\ t.height[d] = t.height[c] - 2 /\ h \in {t.height[c], t.height[c] + 1}
      /\ t.height[c] \in Nat /\ t.height[c] - 2 \in Nat /\ c \in M
  BY Leaning
<1>4. M \subseteq Node /\ Nil \notin M /\ c # Nil /\ t \in Tree
  BY <1>2, <1>3, AvlAssumption DEF Linked, Node
<1>5. Rotated(t, r, M, o, x)
  BY <1>1, <1>2, <1>4, RotateIs
<1>6. Shape(r, M, E)
  BY <1>1, <1>4, <1>5, RotationKeeps
<1>7. c \in D[x] /\ c # x
  BY <1>2, <1>3, <1>4, Hangs
<1>8. mid # x /\ cc # x /\ d # x /\ mid # c /\ cc # c /\ (d # Nil => d # c)
  <2>1. mid # c /\ cc # c /\ d # x /\ (d # Nil => d # c)
    BY <1>1, <1>2, <1>3, Hangs
  <2>2. Placed(t, M, x)
    BY <1>2, EachPlaced
  <2>3. \A q \in Side : t.child[q][c] # x
    <3>1. x \notin D[c] /\ x \in D[x] /\ \A q \in Side : D[t.child[q][c]] \subseteq D[c]
      BY <1>2, <1>3, Hangs DEF Hanging
    <3> QED
      BY <3>1
  <2> QED
    BY <1>1, <2>1, <2>3
<1>9. Level(t.height[c], t.height[cc], t.height[mid])
  BY <1>7, LevelBelow
<1>10. t.height[cc] \in Nat /\ t.height[mid] \in Nat /\ t.height[d] \in Nat /\ cc \in Node /\ mid \in Node /\ d \in Node
  BY <1>1, <1>3, <1>4 DEF Tree
<1> HIDE DEF r, E
<1>11. /\ r \in Tree /\ r.size = t.size
       /\ \A q \in Side, n \in M :
            r.child[q][n] = IF n = x THEN IF q = s THEN mid ELSE t.child[q][n]
                            ELSE IF n = c THEN IF q = o THEN x ELSE t.child[q][n]
                            ELSE IF t.child[q][n] = x THEN c ELSE t.child[q][n]
       /\ r.parent[c] = t.parent[x]
       /\ \A n \in Node \ {x, c} : r.height[n] = t.height[n]
       /\ r.height[x] = 1 + Larger(t.height[d], t.height[mid])
       /\ r.height[c] = 1 + Larger(r.height[x], t.height[cc])
  <2>1. r \in Tree /\ r.size = t.size
    BY <1>5 DEF Rotated
  <2>2. \A q \in Side, n \in M :
          r.child[q][n] = IF n = x THEN IF q = s THEN mid ELSE t.child[q][n]
                          ELSE IF n = c THEN IF q = o THEN x ELSE t.child[q][n]
                          ELSE IF t.child[q][n] = x THEN c ELSE t.child[q][n]
    <3>1. \A q \in Side, n \in M :
            r.child[q][n] = IF n = x THEN IF q = Other(o) THEN t.child[o][t.child[Other(o)][x]] ELSE t.child[q][n]
                            ELSE IF n = t.child[Other(o)][x] THEN IF q = o THEN x ELSE t.child[q][n]
                            ELSE IF t.child[q][n] = x THEN t.child[Other(o)][x] ELSE t.child[q][n]
      BY <1>5, Zenon DEF Rotated
    <3>2. Other(o) = s
      BY <1>1
    <3> QED
      BY <3>1, <3>2
  <2>3. r.parent[c] = t.parent[x]
    BY <1>1, <1>3, <1>5, <1>7 DEF Rotated
  <2>4. /\ \A n \in Node \ {x, c} : r.height[n] = t.height[n]
        /\ r.height[x] = 1 + Larger(t.height[d], t.height[mid])
        /\ r.height[c] = 1 + Larger(r.height[x], t.height[cc])
    BY <1>1, <1>5 DEF Rotated
  <2> QED
    BY <2>1, <2>2, <2>3, <2>4
<1>12. E[c] = D[x]
  BY <1>1, <1>2, <1>4, <1>3 DEF E, Turned, Hanging
<1> HIDE DEF o, c, d, mid, cc
<1>13. t.height[cc] >= t.height[mid]
  BY <1>10 DEF cc, mid, c, o
<1>14. /\ Level(r.height[x], t.height[mid], t.height[d])
       /\ Level(r.height[c], r.height[x], t.height[cc])
       /\ r.height[c] - h \in -1 .. 1
  BY <1>3, <1>9, <1>10, <1>11, <1>13, SingleHeights
<1>15. \A a, b, g \in Nat : Level(g, a, b) => Level(g, b, a)
  BY DEF Level, Larger
<1>16. ASSUME NEW n \in D[x], NEW q \in Side
       PROVE  Level(r.height[n], r.height[r.child[q][n]], r.height[r.child[Other(q)][n]])
  <2>1. n \in M
    BY <1>2, <1>4 DEF Hanging
  <2>2. (q = s /\ Other(q) = o) \/ (q = o /\ Other(q) = s)
    BY <1>1 DEF o
  <2>3. r.height \in [Node -> Nat]
    BY <1>11 DEF Tree
  <2>4. CASE n = x
    <3>1. r.child[s][x] = mid /\ r.child[o][x] = d
      BY <1>1, <1>11 DEF d
    <3>2. r.height[mid] = t.height[mid] /\ r.height[d] = t.height[d]
      <4>1. d # c
        BY <1>3, <1>4, <1>8
      <4> QED
        BY <1>8, <1>10, <1>11, <4>1
    <3>3. r.height[x] \in Nat
      BY <1>4, <2>3
    <3> QED
      BY <1>10, <1>14, <1>15, <2>2, <2>4, <3>1, <3>2, <3>3
  <2>5. CASE n = c
    <3>1. r.child[o][c] = x /\ r.child[s][c] = cc
      BY <1>1, <1>3, <1>7, <1>11 DEF cc
    <3>2. r.height[cc] = t.height[cc]
      BY <1>8, <1>10, <1>11
    <3>3. r.height[x] \in Nat /\ r.height[c] \in Nat
      BY <1>3, <1>4, <2>3
    <3> QED
      BY <1>10, <1>14, <1>15, <2>2, <2>5, <3>1, <3>2, <3>3
  <2>6. CASE n # x /\ n # c
    <3>1. Level(t.height[n], t.height[t.child[q][n]], t.height[t.child[Other(q)][n]])
      BY <2>6, LevelBelow
    <3>2. ASSUME NEW p \in Side
          PROVE  r.child[p][n] = t.child[p][n] /\ r.height[t.child[p][n]] = t.height[t.child[p][n]]
      <4>1. t.child[p][n] # x
        BY <1>2, <2>1 DEF Hanging
      <4>2. t.child[p][n] # c
        BY <1>1, <1>2, <1>3, <1>4, <2>1, <2>6 DEF Linked, c
      <4>3. t.child[p][n] \in Node
        BY <1>4, <2>1 DEF Tree
      <4> QED
        BY <1>11, <2>1, <2>6, <4>1, <4>2, <4>3
    <3> QED
      BY <1>4, <1>11, <2>1, <2>2, <2>6, <3>1, <3>2, Sides
  <2> QED
    BY <2>4, <2>5, <2>6
<1>17. ASSUME NEW n \in M \ D[x], NEW q \in Side
       PROVE  r.child[q][n] = IF t.child[q][n] = x THEN c ELSE t.child[q][n]
  <2>1. n # x /\ n # c
    BY <1>2, <1>7, Hangs
  <2> QED
    BY <1>11, <2>1
<1>18. \A n \in Node \ D[x] : r.height[n] = t.height[n]
  BY <1>2, <1>7, <1>11, Hangs
<1>19. r.parent[c] \in M \union {Nil} /\ Heights(r, M, r.parent[c], r.height[r.parent[c]])
  BY <1>3, <1>6, <1>11, <1>12, <1>14, <1>16, <1>17, <1>18, Settled
<1>20. TurnDone(t, M, D, x, r, c)
  BY <1>3, <1>6, <1>11, <1>12, <1>19 DEF TurnDone
<1> QED
  BY <1>20 DEF r, c, o

\* To assign what is there changes nothing.
LEMMA SetSame ==
  ASSUME NEW r \in Tree, NEW s \in Side, NEW n \in Node
  PROVE  [r EXCEPT !.child[s][n] = r.child[s][n]] = r
<1>1. r.child \in [Side -> [Node -> Node]]
  BY DEF Tree
<1>2. [r.child[s] EXCEPT ![n] = r.child[s][n]] = r.child[s]
  BY <1>1
<1>3. [r.child EXCEPT ![s] = [r.child[s] EXCEPT ![n] = r.child[s][n]]] = r.child
  BY <1>1, <1>2
<1>4. [r EXCEPT !.child = r.child] = r
  BY DEF Tree
<1> QED
  BY <1>3, <1>4

\* The double rotation.
LEMMA DoubleRotation ==
  ASSUME NEW t, NEW M, NEW D, Shape(t, M, D), NEW x \in M, NEW h, Heights(t, M, x, h), NEW s \in Side,
         t.height[t.child[s][x]] - t.height[t.child[Other(s)][x]] > 1,
         t.height[t.child[s][t.child[s][x]]] < t.height[t.child[Other(s)][t.child[s][x]]],
         NEW r1, r1 = Rotate(t, s, t.child[s][x])
  PROVE  LET m == t.child[Other(s)][t.child[s][x]]
         IN r1 \in Tree /\ r1.child[s][x] = m /\ TurnDone(t, M, D, x, Rotate(r1, Other(s), x), m)
<1> DEFINE o == Other(s)
           c == t.child[s][x]
           d == t.child[o][x]
           m == t.child[o][c]
           cc == t.child[s][c]
           ms == t.child[s][m]
           mo == t.child[o][m]
           E1 == Turned(t, D, s, c)
           r == Rotate(r1, o, x)
           E == Turned(r1, E1, o, x)
<1>1. o \in Side /\ Other(o) = s /\ o # s /\ \A q \in Side : q = s \/ q = o
  BY Sides
<1>2. Linked(t, M) /\ Hanging(t, M, D)
  BY DEF Shape
<1>3. /\ t.height[d] = t.height[c] - 2 /\ h \in {t.height[c], t.height[c] + 1}
      /\ t.height[c] \in Nat /\ t.height[c] - 2 \in Nat /\ c \in M
  BY Leaning
<1>4. M \subseteq Node /\ Nil \notin M /\ Nil \in Node /\ t \in Tree
  BY <1>2, AvlAssumption DEF Linked, Node
<1>5. t.height \in [Node -> Nat] /\ t.height[Nil] = 0 /\ \A q \in Side, n \in Node : t.child[q][n] \in Node
  BY <1>4 DEF Tree, Heights
<1>6. m \in M
  <2>1. m \in M \union {Nil} /\ cc \in Node
    BY <1>1, <1>2, <1>3, <1>4, <1>5 DEF Linked
  <2>2. t.height[cc] \in Nat /\ t.height[cc] < t.height[m]
    BY <1>5, <2>1
  <2> QED
    BY <1>5, <2>1, <2>2
<1>7. /\ D[x] = {x} \union D[c] \union D[d] /\ x \notin D[c] /\ x \notin D[d] /\ D[c] \intersect D[d] = {}
      /\ D[c] = {c} \union D[cc] \union D[m] /\ c \notin D[cc] /\ c \notin D[m] /\ D[cc] \intersect D[m] = {}
      /\ D[m] = {m} \union D[ms] \union D[mo] /\ m \notin D[ms] /\ m \notin D[mo]
      /\ D[ms] \intersect D[mo] = {}
  BY <1>1, <1>2, <1>3, <1>6 DEF Hanging
<1>8. /\ d \in M \union {Nil} /\ cc \in M \union {Nil} /\ ms \in M \union {Nil} /\ mo \in M \union {Nil}
      /\ \A n \in M : n \in D[n] /\ D[n] \subseteq M
  <2>1. \A q \in Side, n \in M : t.child[q][n] \in M \union {Nil}
    BY <1>2 DEF Linked
  <2>2. \A n \in M : n \in D[n] /\ D[n] \subseteq M
    BY <1>2, <1>4, Hangs DEF Hanging
  <2> QED
    BY <1>1, <1>3, <1>6, <2>1, <2>2
<1> HIDE DEF o, c, d, m, cc, ms, mo
<1>9. /\ x # c /\ x # m /\ c # m /\ x \in D[x] /\ c \in D[x] /\ m \in D[x]
      /\ \A n \in {d, cc, ms, mo} : n # x /\ n # c /\ n # m
  BY <1>3, <1>4, <1>6, <1>7, <1>8
<1>10. \A p \in Side, n \in D[x] : t.child[p][n] # x
  BY <1>2, <1>8 DEF Hanging
<1>11. Rotated(t, r1, M, s, c) /\ Shape(r1, M, E1)
  <2>1. t.child[Other(s)][c] # Nil /\ r1 = Rotate(t, s, c)
    BY <1>4, <1>6 DEF m, o, c
  <2>2. Rotated(t, r1, M, s, c)
    BY <1>2, <1>3, <2>1, RotateIs
  <2> QED
    BY <1>3, <2>1, <2>2, RotationKeeps
<1>12. /\ r1 \in Tree /\ r1.size = t.size
       /\ \A q \in Side, n \in M :
            r1.child[q][n] = IF n = c THEN IF q = o THEN ms ELSE t.child[q][n]
                             ELSE IF n = m THEN IF q = s THEN c ELSE t.child[q][n]
                             ELSE IF t.child[q][n] = c THEN m ELSE t.child[q][n]
       /\ r1.parent[x] = t.parent[x]
       /\ \A n \in Node \ {c, m} : r1.height[n] = t.height[n]
       /\ r1.height[c] = 1 + Larger(t.height[cc], t.height[ms])
  BY <1>9, <1>11 DEF Rotated, o, m, ms, cc
<1>13. /\ r1.child[s][x] = m /\ r1.child[o][x] = d /\ r1.child[s][m] = c /\ r1.child[o][m] = mo
       /\ r1.child[s][c] = cc /\ r1.child[o][c] = ms
  <2>1. t.child[s][x] = c /\ t.child[o][x] = d /\ t.child[o][m] = mo /\ t.child[s][c] = cc
    BY DEF c, d, mo, cc
  <2> QED
    BY <1>1, <1>3, <1>6, <1>9, <1>12, <2>1
<1>14. Rotated(r1, r, M, o, x) /\ Shape(r, M, E)
  <2>1. r1.child[Other(o)][x] # Nil /\ Linked(r1, M) /\ Hanging(r1, M, E1)
    BY <1>1, <1>4, <1>6, <1>11, <1>13 DEF Shape
  <2>2. Rotated(r1, r, M, o, x)
    BY <1>1, <2>1, RotateIs
  <2> QED
    BY <1>1, <1>11, <2>1, <2>2, RotationKeeps
<1> HIDE DEF r, E, E1
<1>15. /\ r \in Tree /\ r.size = t.size
       /\ \A q \in Side, n \in M :
            r.child[q][n] = IF n = x THEN IF q = s THEN mo ELSE r1.child[q][n]
                            ELSE IF n = m THEN IF q = o THEN x ELSE r1.child[q][n]
                            ELSE IF r1.child[q][n] = x THEN m ELSE r1.child[q][n]
       /\ r.parent[m] = t.parent[x]
       /\ \A n \in Node \ {x, m} : r.height[n] = r1.height[n]
       /\ r.height[x] = 1 + Larger(r1.height[d], r1.height[mo])
       /\ r.height[m] = 1 + Larger(r.height[x], r1.height[c])
  <2>1. Other(o) = s /\ r1.child[s][x] = m /\ r1.child[o][x] = d /\ r1.child[o][m] = mo /\ r1.child[s][m] = c
    BY <1>1, <1>13
  <2>2. r \in Tree /\ r.size = t.size
    BY <1>12, <1>14 DEF Rotated
  <2>5. \A q \in Side, n \in M :
          r.child[q][n] = IF n = x THEN IF q = s THEN mo ELSE r1.child[q][n]
                          ELSE IF n = m THEN IF q = o THEN x ELSE r1.child[q][n]
                          ELSE IF r1.child[q][n] = x THEN m ELSE r1.child[q][n]
    <3>1. Rotated(r1, r, M, o, x)
      BY <1>14
    <3>2. r1.child[Other(o)][x] = m /\ r1.child[o][r1.child[Other(o)][x]] = mo
      BY <2>1
    <3>3. \A q \in Side, n \in M :
            r.child[q][n] = IF n = x THEN IF q = Other(o) THEN r1.child[o][r1.child[Other(o)][x]] ELSE r1.child[q][n]
                            ELSE IF n = r1.child[Other(o)][x] THEN IF q = o THEN x ELSE r1.child[q][n]
                            ELSE IF r1.child[q][n] = x THEN r1.child[Other(o)][x] ELSE r1.child[q][n]
      BY <3>1, Zenon DEF Rotated
    <3> QED
      BY <2>1, <3>2, <3>3
  <2>3. r.parent[m] = t.parent[x]
    <3>1. r.parent[m] = r1.parent[x]
      BY <1>6, <1>9, <1>14, <2>1 DEF Rotated
    <3> QED
      BY <1>12, <3>1
  <2>4. /\ \A n \in Node \ {x, m} : r.height[n] = r1.height[n]
        /\ r.height[x] = 1 + Larger(r1.height[d], r1.height[mo])
        /\ r.height[m] = 1 + Larger(r.height[x], r1.height[c])
    BY <1>14, <2>1 DEF Rotated
  <2> QED
    BY <2>2, <2>3, <2>4, <2>5
<1>16. /\ r.child[s][x] = mo /\ r.child[o][x] = d /\ r.child[s][m] = c /\ r.child[o][m] = x
       /\ r.child[s][c] = cc /\ r.child[o][c] = ms
  <2>1. s \in Side /\ o \in Side /\ o # s
    BY <1>1
  <2>2. x \in M /\ c \in M /\ m \in M /\ x # c /\ x # m /\ c # m /\ cc # x /\ ms # x
    BY <1>3, <1>6, <1>9
  <2>3. r.child[s][x] = mo /\ r.child[o][x] = d
    BY <1>13, <1>15, <2>1, <2>2
  <2>4. r.child[s][m] = c /\ r.child[o][m] = x
    BY <1>13, <1>15, <2>1, <2>2
  <2>5. r.child[s][c] = cc /\ r.child[o][c] = ms
    BY <1>13, <1>15, <2>1, <2>2
  <2> QED
    BY <2>3, <2>4, <2>5
<1>17. E[m] = D[x]
  <2>1. E1[x] = D[x]
    <3>1. t.child[Other(s)][c] # x /\ c # x
      BY <1>9 DEF m, o
    <3>2. D \in [Node -> SUBSET M] /\ x \in Node
      BY <1>2, <1>4 DEF Hanging
    <3> QED
      BY <3>1, <3>2 DEF E1, Turned
  <2>2. E1 \in [Node -> SUBSET M]
    BY <1>11 DEF Shape, Hanging
  <2> QED
    BY <1>1, <1>4, <1>6, <1>13, <2>1, <2>2 DEF E, Turned
<1>18. d \in Node /\ cc \in Node /\ ms \in Node /\ mo \in Node /\ c \in Node /\ m \in Node /\ x \in Node
  BY <1>3, <1>4, <1>6, <1>8
<1>19. /\ Level(t.height[c], t.height[cc], t.height[m])
       /\ Level(t.height[m], t.height[ms], t.height[mo])
       /\ t.height[cc] < t.height[m]
  BY <1>1, <1>9, LevelBelow DEF cc, m, ms, mo, o, c
<1>20. /\ r.height[d] = t.height[d] /\ r.height[mo] = t.height[mo] /\ r.height[cc] = t.height[cc]
       /\ r.height[ms] = t.height[ms] /\ r.height[c] = r1.height[c]
       /\ r1.height[d] = t.height[d] /\ r1.height[mo] = t.height[mo]
  BY <1>9, <1>12, <1>15, <1>18
<1>21. /\ Level(r.height[c], r.height[cc], r.height[ms])
       /\ Level(r.height[x], r.height[mo], r.height[d])
       /\ Level(r.height[m], r.height[x], r.height[c])
       /\ r.height[m] - h \in -1 .. 1
  <2>1. /\ t.height[cc] \in Nat /\ t.height[ms] \in Nat /\ t.height[mo] \in Nat /\ t.height[d] \in Nat
        /\ t.height[m] \in Nat
    BY <1>5, <1>18
  <2> QED
    <3>1. /\ r.height[c] = 1 + Larger(t.height[cc], t.height[ms])
          /\ r.height[x] = 1 + Larger(t.height[d], t.height[mo])
          /\ r.height[m] = 1 + Larger(r.height[x], r.height[c])
      BY <1>12, <1>15, <1>20
    <3>2. /\ Level(r.height[c], t.height[cc], t.height[ms])
          /\ Level(r.height[x], t.height[mo], t.height[d])
          /\ Level(r.height[m], r.height[x], r.height[c])
          /\ r.height[m] - h \in -1 .. 1
      <4> DEFINE hc == t.height[c]
                 hd == t.height[d]
                 hcc == t.height[cc]
                 hm == t.height[m]
                 hs == t.height[ms]
                 ho == t.height[mo]
                 gc == r.height[c]
                 gx == r.height[x]
                 gm == r.height[m]
      <4>1. /\ hc \in Nat /\ hd = hc - 2 /\ h \in {hc, hc + 1} /\ hcc \in Nat /\ hs \in Nat /\ ho \in Nat
            /\ hd \in Nat /\ hm \in Nat
        BY <1>3, <2>1
      <4>2. Level(hc, hcc, hm) /\ Level(hm, hs, ho) /\ hcc < hm
        BY <1>19
      <4>3. gc = 1 + Larger(hcc, hs) /\ gx = 1 + Larger(hd, ho) /\ gm = 1 + Larger(gx, gc)
        BY <3>1
      <4> HIDE DEF hc, hd, hcc, hm, hs, ho, gc, gx, gm
      <4>4. Level(gc, hcc, hs) /\ Level(gx, ho, hd) /\ Level(gm, gx, gc) /\ gm - h \in -1 .. 1
        <5>1. hm = hc - 1 /\ hcc = hc - 2
          BY <4>1, <4>2 DEF Level, Larger
        <5>2. hs \in {hc - 2, hc - 3} /\ ho \in {hc - 2, hc - 3} /\ (hs = hc - 2 \/ ho = hc - 2)
          BY <4>1, <4>2, <5>1 DEF Level, Larger
        <5>3. gc = hc - 1 /\ gx = hc - 1
          BY <4>1, <4>3, <5>1, <5>2 DEF Larger
        <5>4. gm = hc
          BY <4>1, <4>3, <5>3 DEF Larger
        <5> QED
          BY <4>1, <5>1, <5>2, <5>3, <5>4 DEF Level, Larger
      <4> QED
        BY <4>4 DEF hc, hd, hcc, hm, hs, ho, gc, gx, gm
    <3> QED
      BY <1>20, <3>2
<1>22. \A a, b, g \in Nat : Level(g, a, b) => Level(g, b, a)
  BY DEF Level, Larger
<1>23. ASSUME NEW n \in D[x], NEW q \in Side
       PROVE  Level(r.height[n], r.height[r.child[q][n]], r.height[r.child[Other(q)][n]])
  <2>1. n \in M
    BY <1>8
  <2>2. (q = s /\ Other(q) = o) \/ (q = o /\ Other(q) = s)
    BY <1>1 DEF o
  <2>3. /\ r.height[x] \in Nat /\ r.height[c] \in Nat /\ r.height[m] \in Nat /\ r.height[d] \in Nat
        /\ r.height[cc] \in Nat /\ r.height[ms] \in Nat /\ r.height[mo] \in Nat
    BY <1>15, <1>18 DEF Tree
  <2>4. CASE n \in {x, c, m}
    BY <1>16, <1>21, <1>22, <2>2, <2>3, <2>4
  <2>5. CASE n \notin {x, c, m}
    <3>1. Level(t.height[n], t.height[t.child[q][n]], t.height[t.child[Other(q)][n]])
      BY <2>5, LevelBelow
    <3>2. ASSUME NEW p \in Side
          PROVE  r.child[p][n] = t.child[p][n] /\ r.height[t.child[p][n]] = t.height[t.child[p][n]]
      <4>1. t.child[p][n] # x
        BY <1>10
      <4>2. t.child[p][n] # c
        BY <1>1, <1>2, <1>3, <1>4, <2>1, <2>5 DEF Linked, c
      <4>3. t.child[p][n] # m
        BY <1>1, <1>2, <1>3, <1>4, <1>6, <2>1, <2>5 DEF Linked, m
      <4>4. t.child[p][n] \in Node
        BY <1>4, <1>5, <2>1
      <4> QED
        <5>1. r1.child[p][n] = t.child[p][n]
          BY <1>12, <2>1, <2>5, <4>2
        <5>2. r.child[p][n] = t.child[p][n]
          BY <1>15, <2>1, <2>5, <4>1, <5>1
        <5>3. r1.height[t.child[p][n]] = t.height[t.child[p][n]]
          BY <1>12, <4>2, <4>3, <4>4
        <5>4. r.height[t.child[p][n]] = r1.height[t.child[p][n]]
          BY <1>15, <4>1, <4>3, <4>4
        <5> QED
          BY <5>2, <5>3, <5>4
    <3>3. r.height[n] = t.height[n]
      BY <1>4, <1>12, <1>15, <2>1, <2>5
    <3> QED
      BY <3>1, <3>2, <3>3, Sides
  <2> QED
    BY <2>4, <2>5
<1>24. ASSUME NEW n \in M \ D[x], NEW q \in Side
       PROVE  r.child[q][n] = IF t.child[q][n] = x THEN m ELSE t.child[q][n]
  <2>1. n # x /\ n # c /\ n # m
    BY <1>9
  <2>2. t.child[q][n] # c
    BY <1>1, <1>2, <1>3, <1>4, <2>1 DEF Linked, c
  <2>3. r1.child[q][n] = t.child[q][n]
    BY <1>12, <2>1, <2>2
  <2>4. r.child[q][n] = IF r1.child[q][n] = x THEN m ELSE r1.child[q][n]
    <3>1. \A p \in Side, a \in M : a # x /\ a # m =>
            r.child[p][a] = IF r1.child[p][a] = x THEN m ELSE r1.child[p][a]
      BY <1>15
    <3> QED
      BY <2>1, <3>1
  <2> QED
    BY <2>3, <2>4
<1>25. \A n \in Node \ D[x] : r.height[n] = t.height[n]
  BY <1>9, <1>12, <1>15
<1>26. r.parent[m] \in M \union {Nil} /\ Heights(r, M, r.parent[m], r.height[r.parent[m]])
  <2>1. r \in Tree /\ r.parent[m] = t.parent[x] /\ r.height[m] - h \in -1 .. 1 /\ Shape(r, M, E)
    BY <1>14, <1>15, <1>21
  <2> QED
    BY <1>6, <1>17, <1>23, <1>24, <1>25, <2>1, Settled
<1>27. TurnDone(t, M, D, x, r, m)
  BY <1>6, <1>14, <1>15, <1>17, <1>26 DEF TurnDone
<1> QED
  BY <1>12, <1>13, <1>27 DEF r, m, c, o
\* The rotations of one turn.
LEMMA StraightenedDone ==
  ASSUME NEW t, NEW M, NEW D, Shape(t, M, D), NEW x \in M, NEW h, Heights(t, M, x, h), NEW s \in Side,
         t.height[t.child[s][x]] - t.height[t.child[Other(s)][x]] > 1
  PROVE  TurnDone(t, M, D, x, Straightened(t, s, x).tree, Straightened(t, s, x).top)
<1> DEFINE c == t.child[s][x]
           inner == t.child[Other(s)][c]
<1>1. CASE t.height[t.child[s][c]] < t.height[inner]
  <2> DEFINE r1 == Rotate(t, s, c)
  <2>1. r1 \in Tree /\ r1.child[s][x] = inner /\ TurnDone(t, M, D, x, Rotate(r1, Other(s), x), inner)
    BY <1>1, DoubleRotation
  <2>2. x \in Node
    BY DEF Shape, Linked, Node
  <2>3. /\ Straightened(t, s, x).tree = Rotate([r1 EXCEPT !.child[s][x] = inner], Other(s), x)
        /\ Straightened(t, s, x).top = [r1 EXCEPT !.child[s][x] = inner].child[s][x]
    BY <1>1 DEF Straightened
  <2> HIDE DEF r1
  <2>4. [r1 EXCEPT !.child[s][x] = inner] = r1
    BY <2>1, <2>2, SetSame
  <2> QED
    BY <2>1, <2>3, <2>4
<1>2. CASE ~(t.height[t.child[s][c]] < t.height[inner])
  <2>1. Straightened(t, s, x).tree = Rotate(t, Other(s), x) /\ Straightened(t, s, x).top = c
    BY <1>2 DEF Straightened
  <2> QED
    BY <1>2, <2>1, SingleRotation
<1> QED
  BY <1>1, <1>2

\* The height of the node to be rebalanced is not relied on.
LEMMA OwnHeight ==
  ASSUME NEW t, NEW M, NEW D, Shape(t, M, D), NEW x \in M, NEW h, Heights(t, M, x, h),
         NEW r, NEW v \in Nat, r = PutHeight(t, x, v)
  PROVE  /\ Shape(r, M, D) /\ Heights(r, M, x, h) /\ r.size = t.size /\ r.child = t.child
         /\ r.parent = t.parent /\ r.height[x] = v /\ r \in Tree /\ \A n \in Node \ {x} : r.height[n] = t.height[n]
<1>1. /\ t \in Tree /\ M \subseteq Node /\ Nil \notin M /\ Linked(t, M) /\ Hanging(t, M, D)
      /\ \A q \in Side, n \in M : t.child[q][n] \in Node
  BY AvlAssumption DEF Shape, Linked, Tree, Node
<1>2. /\ r \in Tree /\ r.root = t.root /\ r.child = t.child /\ r.parent = t.parent /\ r.size = t.size
      /\ r.height = [t.height EXCEPT ![x] = v]
  BY <1>1, SetHeight
<1>3. r.height[x] = v /\ \A n \in Node \ {x} : r.height[n] = t.height[n]
  BY <1>1, <1>2 DEF Tree
<1>4. Shape(r, M, D)
  BY <1>2, HeightsAside
<1>5. \A c \in Node : Told(r, x, h, c) = Told(t, x, h, c)
  BY <1>3 DEF Told
<1>6. r.height[Nil] = 0 /\ h \in Nat /\ x # Nil
  BY <1>1, <1>3 DEF Heights, Node
<1>7. Off(r, x, h)
  <2>1. \A q \in Side : r.height[r.child[q][x]] = t.height[t.child[q][x]]
    BY <1>1, <1>2, <1>3, Hangs
  <2>2. PICK q \in Side, a \in Nat : /\ a - t.height[t.child[q][x]] \in -1 .. 1
                                     /\ Level(h, a, t.height[t.child[Other(q)][x]])
    BY <1>6 DEF Heights, Off
  <2> QED
    BY <2>1, <2>2, Sides DEF Off
<1>8. ASSUME NEW n \in M \ {x}, NEW q \in Side
      PROVE  Level(r.height[n], Told(r, x, h, r.child[q][n]), Told(r, x, h, r.child[Other(q)][n]))
  <2>1. Level(t.height[n], Told(t, x, h, t.child[q][n]), Told(t, x, h, t.child[Other(q)][n]))
    BY DEF Heights
  <2>2. r.height[n] = t.height[n] /\ t.child[q][n] \in Node /\ t.child[Other(q)][n] \in Node
    BY <1>1, <1>3, Sides
  <2> QED
    BY <1>2, <1>5, <2>1, <2>2
<1>9. Heights(r, M, x, h)
  BY <1>6, <1>7, <1>8 DEF Heights
<1> QED
  BY <1>2, <1>3, <1>4, <1>9

\* A node whose children are level, with its height brought up to date, has changed by
\* one at most.
LEMMA PlainHeights ==
  ASSUME NEW a \in Nat, NEW hq \in Nat, NEW ho \in Nat, NEW h \in Nat,
         a - hq \in -1 .. 1, Level(h, a, ho), hq - ho \in -1 .. 1, NEW v, v = 1 + Larger(hq, ho)
  PROVE  Level(v, hq, ho) /\ Level(v, ho, hq) /\ v - h \in -1 .. 1 /\ v \in Nat
<1>1. v = 1 + Larger(ho, hq) /\ ho - hq \in -1 .. 1 /\ v \in Nat
  BY DEF Larger
<1>2. Larger(hq, ho) - Larger(a, ho) \in -1 .. 1
  BY DEF Larger
<1> QED
  BY <1>1, <1>2 DEF Level, Larger

\* A turn of rebalance_upwards.
LEMMA RebalancedDone ==
  ASSUME NEW t, NEW M, NEW D, Shape(t, M, D), NEW x \in M, NEW h, Heights(t, M, x, h)
  PROVE  TurnDone(t, M, D, x, Rebalanced(t, x).tree, Rebalanced(t, x).top)
<1> DEFINE v == 1 + Larger(t.height[t.child["left"][x]], t.height[t.child["right"][x]])
           r == UpdateHeight(t, x)
<1>1. /\ t \in Tree /\ M \subseteq Node /\ Nil \notin M /\ Linked(t, M) /\ Hanging(t, M, D)
      /\ \A q \in Side, n \in M : t.child[q][n] \in Node
  BY AvlAssumption DEF Shape, Linked, Tree, Node
<1>2. /\ r = PutHeight(t, x, v) /\ v \in Nat
      /\ \A s \in Side : v = 1 + Larger(t.height[t.child[s][x]], t.height[t.child[Other(s)][x]])
  BY <1>1, UpdateHeightIs
<1> HIDE DEF v
<1>3. /\ Rebalanced(t, x).tree = IF BalanceFactor(r, x) > 1 THEN Straightened(r, "left", x).tree
                                 ELSE IF BalanceFactor(r, x) < -1 THEN Straightened(r, "right", x).tree
                                 ELSE r
      /\ Rebalanced(t, x).top = IF BalanceFactor(r, x) > 1 THEN Straightened(r, "left", x).top
                                ELSE IF BalanceFactor(r, x) < -1 THEN Straightened(r, "right", x).top
                                ELSE x
  BY DEF Rebalanced
<1> HIDE DEF r
<1>4. /\ Shape(r, M, D) /\ Heights(r, M, x, h) /\ r.size = t.size /\ r.child = t.child
      /\ r.parent = t.parent /\ r.height[x] = v /\ r \in Tree /\ \A n \in Node \ {x} : r.height[n] = t.height[n]
  BY <1>2, OwnHeight
<1>5. "left" \in Side /\ "right" \in Side /\ Other("left") = "right" /\ Other("right") = "left"
  BY DEF Side, Other
<1>6. \A q \in Side : r.height[r.child[q][x]] \in Nat /\ r.height[r.child[q][x]] = t.height[t.child[q][x]]
  BY <1>1, <1>4, Hangs DEF Tree
<1>7. CASE BalanceFactor(r, x) > 1
  <2>1. TurnDone(r, M, D, x, Straightened(r, "left", x).tree, Straightened(r, "left", x).top)
    BY <1>4, <1>5, <1>7, StraightenedDone DEF BalanceFactor
  <2> QED
    BY <1>3, <1>4, <1>7, <2>1 DEF TurnDone
<1>8. CASE ~(BalanceFactor(r, x) > 1) /\ BalanceFactor(r, x) < -1
  <2>1. r.height[r.child["right"][x]] - r.height[r.child["left"][x]] > 1
    BY <1>5, <1>6, <1>8 DEF BalanceFactor
  <2>2. TurnDone(r, M, D, x, Straightened(r, "right", x).tree, Straightened(r, "right", x).top)
    BY <1>4, <1>5, <2>1, StraightenedDone
  <2> QED
    BY <1>3, <1>4, <1>8, <2>2 DEF TurnDone
<1>9. CASE ~(BalanceFactor(r, x) > 1) /\ ~(BalanceFactor(r, x) < -1)
  <2>1. r.height[r.child["left"][x]] - r.height[r.child["right"][x]] \in -1 .. 1
    BY <1>5, <1>6, <1>9 DEF BalanceFactor
  <2>2. PICK q \in Side, a \in Nat : /\ a - r.height[r.child[q][x]] \in -1 .. 1
                                     /\ Level(h, a, r.height[r.child[Other(q)][x]])
    BY <1>1, <1>4 DEF Heights, Off
  <2> DEFINE hq == r.height[r.child[q][x]]
             ho == r.height[r.child[Other(q)][x]]
  <2>3. hq \in Nat /\ ho \in Nat /\ h \in Nat /\ v = 1 + Larger(hq, ho) /\ hq - ho \in -1 .. 1
    <3>1. q = "left" \/ q = "right"
      BY DEF Side
    <3> QED
      BY <1>2, <1>4, <1>5, <1>6, <2>1, <3>1 DEF Heights
  <2>4. a - hq \in -1 .. 1 /\ Level(h, a, ho)
    BY <2>2
  <2> HIDE DEF hq, ho
  <2>5. Level(v, hq, ho) /\ Level(v, ho, hq) /\ v - h \in -1 .. 1
    BY <2>3, <2>4, PlainHeights
  <2>6. ASSUME NEW n \in D[x], NEW p \in Side
        PROVE  Level(r.height[n], r.height[r.child[p][n]], r.height[r.child[Other(p)][n]])
    <3>1. CASE n = x
      <4>1. (p = q /\ Other(p) = Other(q)) \/ (p = Other(q) /\ Other(p) = q)
        BY Sides
      <4> QED
        BY <1>4, <2>5, <3>1, <4>1 DEF hq, ho
    <3>2. CASE n # x
      BY <1>4, <3>2, LevelBelow
    <3> QED
      BY <3>1, <3>2
  <2>7. r.height[x] - h \in -1 .. 1
    BY <1>4, <2>5
  <2>8. r.parent[x] \in M \union {Nil} /\ Heights(r, M, r.parent[x], r.height[r.parent[x]])
    <3>1. \A n \in M \ D[x], p \in Side : r.child[p][n] = IF r.child[p][n] = x THEN x ELSE r.child[p][n]
      OBVIOUS
    <3>2. \A n \in Node \ D[x] : r.height[n] = r.height[n]
      OBVIOUS
    <3> QED
      BY <1>4, <2>6, <2>7, <3>1, <3>2, Settled
  <2>9. TurnDone(t, M, D, x, r, x)
    BY <1>4, <2>8 DEF TurnDone
  <2> QED
    BY <1>3, <1>9, <2>9
<1> QED
  BY <1>7, <1>8, <1>9
-----------------------------------------------------------------------------
(* The way up.                                                             *)

\* Sets of nodes are finite, and fewer hang below a node than below its parent.
LEMMA Smaller ==
  ASSUME NEW t, NEW M, NEW D, Linked(t, M), Hanging(t, M, D)
  PROVE  /\ \A n \in Node : /\ IsFiniteSet(D[n]) /\ Cardinality(D[n]) \in Nat
                            /\ Cardinality(D[n]) <= Cardinality(Nodes)
         /\ \A n \in M, q \in Side : Cardinality(D[t.child[q][n]]) < Cardinality(D[n])
<1>1. ASSUME NEW n \in Node
      PROVE  IsFiniteSet(D[n]) /\ Cardinality(D[n]) \in Nat /\ Cardinality(D[n]) <= Cardinality(Nodes)
  <2>1. D[n] \subseteq Nodes
    BY DEF Linked, Hanging
  <2> QED
    BY <2>1, AvlAssumption, FS_Subset, FS_CardinalityType
<1>2. ASSUME NEW n \in M, NEW q \in Side PROVE Cardinality(D[t.child[q][n]]) < Cardinality(D[n])
  <2> DEFINE c == t.child[q][n]
  <2>1. c \in Node /\ n \in Node
    BY DEF Linked, Node
  <2>2. D[c] \in SUBSET D[n] /\ n \in D[n] /\ n \notin D[c]
    BY Hangs DEF Hanging
  <2> HIDE DEF c
  <2>3. Cardinality(D[c]) <= Cardinality(D[n]) /\ Cardinality(D[c]) # Cardinality(D[n])
    BY <1>1, <2>1, <2>2, FS_Subset
  <2> QED
    BY <1>1, <2>1, <2>3 DEF c
<1> QED
  BY <1>1, <1>2

\* transplant gives a tree, whatever it is given.
LEMMA TransplantType ==
  ASSUME NEW t \in Tree, NEW u \in Node, NEW v \in Node
  PROVE  Transplant(t, u, v) \in Tree
<1> DEFINE up == t.parent[u]
           t1 == IF up = Nil THEN PutRoot(t, v)
                 ELSE IF u = t.child["left"][up] THEN PutChild(t, "left", up, v)
                 ELSE PutChild(t, "right", up, v)
<1>1. up \in Node /\ "left" \in Side /\ "right" \in Side
  BY DEF Tree, Side
<1>2. Transplant(t, u, v) = PutParent(t1, v, up)
  BY DEF Transplant, PutRoot, PutChild, PutParent
<1> HIDE DEF up
<1>3. t1 \in Tree
  BY <1>1, SetRoot, SetChild
<1> HIDE DEF t1
<1> QED
  BY <1>1, <1>2, <1>3, SetParent

\* So does update_height.
LEMMA UpdateHeightType ==
  ASSUME NEW t \in Tree, NEW n \in Node
  PROVE  UpdateHeight(t, n) \in Tree
<1> DEFINE v == 1 + Larger(t.height[t.child["left"][n]], t.height[t.child["right"][n]])
           r == UpdateHeight(t, n)
<1>1. r = PutHeight(t, n, v) /\ v \in Nat
  BY UpdateHeightIs
<1> HIDE DEF v, r
<1>2. r \in Tree
  BY <1>1, SetHeight
<1> QED
  BY <1>2 DEF r

\* So does a rotation.
LEMMA RotateType ==
  ASSUME NEW t \in Tree, NEW s \in Side, NEW x \in Node
  PROVE  Rotate(t, s, x) \in Tree
<1> DEFINE o == Other(s)
           y == t.child[o][x]
           mid == t.child[s][y]
           up == IF mid = Nil THEN t.parent[mid] ELSE x
           ta == PutChild(t, o, x, mid)
           tb == PutParent(ta, mid, up)
           tc == Transplant(tb, x, y)
           td == PutChild(tc, s, y, x)
           te == PutParent(td, x, y)
           tf == UpdateHeight(te, x)
           tg == UpdateHeight(tf, y)
<1>1. Rotate(t, s, x) = tg
  <2>1. [t EXCEPT !.child[Other(s)][x] = mid, !.parent[mid] = IF mid = Nil THEN @ ELSE x] = tb
    BY DEF PutChild, PutParent
  <2> QED
    BY <2>1 DEF Rotate, PutChild, PutParent
<1>2. o \in Side /\ y \in Node /\ mid \in Node /\ up \in Node
  BY Sides DEF Tree
<1>3. \A u \in Tree, n \in Node : UpdateHeight(u, n) \in Tree
  BY UpdateHeightType
<1> HIDE DEF o, y, mid, up
<1>4. ta \in Tree
  BY <1>2, SetChild
<1> HIDE DEF ta
<1>5. tb \in Tree
  BY <1>2, <1>4, SetParent
<1> HIDE DEF tb
<1>6. tc \in Tree
  BY <1>2, <1>5, TransplantType
<1> HIDE DEF tc
<1>7. td \in Tree
  BY <1>2, <1>6, SetChild
<1> HIDE DEF td
<1>8. te \in Tree
  BY <1>2, <1>7, SetParent
<1> HIDE DEF te
<1> QED
  BY <1>1, <1>2, <1>3, <1>8

\* And a turn of rebalance_upwards.
LEMMA RebalancedType ==
  ASSUME NEW t \in Tree, NEW x \in Node
  PROVE  Rebalanced(t, x).tree \in Tree /\ Rebalanced(t, x).top \in Node
<1>1. ASSUME NEW u \in Tree, NEW s \in Side
      PROVE  Straightened(u, s, x).tree \in Tree /\ Straightened(u, s, x).top \in Node
  <2> DEFINE c == u.child[s][x]
             inner == u.child[Other(s)][c]
             t1 == IF u.height[u.child[s][c]] < u.height[inner]
                   THEN PutChild(Rotate(u, s, c), s, x, inner) ELSE u
  <2>1. Straightened(u, s, x).tree = Rotate(t1, Other(s), x) /\ Straightened(u, s, x).top = t1.child[s][x]
    BY DEF Straightened, PutChild
  <2>2. c \in Node /\ inner \in Node /\ Other(s) \in Side
    BY Sides DEF Tree
  <2> HIDE DEF c, inner
  <2>3. t1 \in Tree
    BY <2>2, RotateType, SetChild
  <2> HIDE DEF t1
  <2> QED
    BY <2>1, <2>2, <2>3, RotateType DEF Tree
<1>2. UpdateHeight(t, x) \in Tree
  BY UpdateHeightType
<1>3. "left" \in Side /\ "right" \in Side
  BY DEF Side
<1> QED
  BY <1>1, <1>2, <1>3 DEF Rebalanced

\* r is a balanced search tree of the same nodes.
Rebuilt(t, M, r) == \E E : Shape(r, M, E) /\ Heights(r, M, Nil, 0) /\ r.size = t.size

\* rebalance_upwards from the one node whose height may be wrong makes a tree balanced.
LEMMA RebalanceUpwardsKeeps ==
  ASSUME NEW t, NEW M, NEW D, Shape(t, M, D), NEW x \in M \union {Nil}, NEW h, Heights(t, M, x, h)
  PROVE  Rebuilt(t, M, RebalanceUpwards(t, x))
<1> DEFINE A == [tree : Tree, at : Node]
           turn == [r \in A |-> IF r.at = Nil THEN r
                                ELSE LET b == Rebalanced(r.tree, r.at)
                                     IN [tree |-> b.tree, at |-> b.tree.parent[b.top]]]
           start == [tree |-> t, at |-> x]
           Climbing(k, r, E) == /\ Shape(r.tree, M, E) /\ (\E g : Heights(r.tree, M, r.at, g))
                                /\ (r.at # Nil => r.at \in M /\ Cardinality(E[r.at]) > k)
           I == {i \in Nat \X A : i[2].tree.size = t.size /\ \E E : Climbing(i[1], i[2], E)}
           last == Turns(turn, start)
<1>1. RebalanceUpwards(t, x) = last.tree
  BY DEF RebalanceUpwards
<1>2. turn \in [A -> A]
  <2> SUFFICES ASSUME NEW r \in A PROVE turn[r] \in A
    OBVIOUS
  <2>1. CASE r.at = Nil
    BY <2>1
  <2>2. CASE r.at # Nil
    <3> DEFINE b == Rebalanced(r.tree, r.at)
    <3>1. b.tree \in Tree /\ b.top \in Node
      BY RebalancedType
    <3>2. b.tree.parent[b.top] \in Node
      BY <3>1 DEF Tree
    <3>3. turn[r] = [tree |-> b.tree, at |-> b.tree.parent[b.top]]
      BY <2>2
    <3> HIDE DEF b, turn
    <3> QED
      BY <3>1, <3>2, <3>3
  <2> QED
    BY <2>1, <2>2
<1>3. t \in Tree /\ M \subseteq Node /\ Nil \in Node /\ Nil \notin M /\ start \in A /\ x \in Node
  BY AvlAssumption DEF Shape, Linked, Node
<1>4. <<0, start>> \in I
  <2>1. x # Nil => x \in M /\ Cardinality(D[x]) > 0
    <3> SUFFICES ASSUME x # Nil PROVE Cardinality(D[x]) > 0
      OBVIOUS
    <3>1. Linked(t, M) /\ Hanging(t, M, D) /\ x \in M /\ "left" \in Side
      BY DEF Shape, Side
    <3>2. t.child["left"][x] \in Node
      BY <1>3, <3>1 DEF Tree
    <3>3. /\ Cardinality(D[t.child["left"][x]]) < Cardinality(D[x])
          /\ Cardinality(D[t.child["left"][x]]) \in Nat /\ Cardinality(D[x]) \in Nat
      BY <1>3, <3>1, <3>2, Smaller
    <3> QED
      BY <3>3
  <2>2. Climbing(0, start, D)
    BY <2>1
  <2> HIDE DEF Climbing
  <2> QED
    BY <1>3, <2>2
<1>5. ASSUME NEW k \in Nat, NEW r \in A, <<k, r>> \in I PROVE <<k + 1, turn[r]>> \in I
  <2>1. r.tree.size = t.size
    BY <1>5
  <2>2. PICK E : Climbing(k, r, E)
    BY <1>5
  <2>3. k + 1 \in Nat /\ turn[r] \in A
    BY <1>2
  <2>4. CASE r.at = Nil
    <3>1. turn[r] = r
      BY <2>4
    <3>2. Climbing(k + 1, r, E)
      BY <2>2, <2>4
    <3> HIDE DEF Climbing, turn
    <3> QED
      BY <2>1, <2>3, <3>1, <3>2
  <2>5. CASE r.at # Nil
    <3> DEFINE b == Rebalanced(r.tree, r.at)
               p == b.tree.parent[b.top]
    <3>1. turn[r] = [tree |-> b.tree, at |-> p]
      BY <2>5
    <3>2. TurnDone(r.tree, M, E, r.at, b.tree, b.top)
      BY <2>2, <2>5, RebalancedDone
    <3> HIDE DEF b
    <3>3. PICK F : /\ Shape(b.tree, M, F) /\ b.top \in M /\ F[b.top] = E[r.at] /\ b.tree.size = r.tree.size
                   /\ p \in M \union {Nil}
                   /\ Heights(b.tree, M, p, b.tree.height[p])
      BY <3>2 DEF TurnDone
    <3>4. ASSUME p # Nil PROVE Cardinality(F[p]) > k + 1
      <4>1. Linked(b.tree, M) /\ Hanging(b.tree, M, F) /\ p \in M
        BY <3>3, <3>4 DEF Shape
      <4>2. Placed(b.tree, M, b.top)
        BY <3>3, <4>1, EachPlaced
      <4>3. PICK q \in Side : b.tree.child[q][p] = b.top
        BY <3>4, <4>2 DEF Placed
      <4>4. Cardinality(F[b.top]) < Cardinality(F[p])
        BY <4>1, <4>3, Smaller
      <4>5. Cardinality(E[r.at]) > k /\ Cardinality(F[b.top]) \in Nat /\ Cardinality(F[p]) \in Nat
        BY <1>3, <2>2, <2>5, <3>3, <4>1, Smaller
      <4> QED
        BY <3>3, <4>4, <4>5
    <3>5. Climbing(k + 1, turn[r], F)
      <4> HIDE DEF p, turn
      <4>1. turn[r].tree = b.tree /\ turn[r].at = p
        BY <3>1
      <4> QED
        BY <3>3, <3>4, <4>1
    <3>6. turn[r].tree.size = t.size
      BY <2>1, <3>1, <3>3
    <3> HIDE DEF Climbing, turn
    <3> QED
      BY <2>3, <3>5, <3>6
  <2> QED
    BY <2>4, <2>5
<1> HIDE DEF turn, A, start
<1>6. <<Cardinality(Nodes), last>> \in I
  <2> HIDE DEF I
  <2> QED
    BY <1>2, <1>3, <1>4, <1>5, TurnsKeep
<1>7. last.tree.size = t.size
  BY <1>6
<1>8. PICK E : Climbing(Cardinality(Nodes), last, E)
  BY <1>6
<1>9. last.at = Nil
  <2> SUFFICES ASSUME last.at # Nil PROVE FALSE
    OBVIOUS
  <2>1. last.at \in M /\ Cardinality(E[last.at]) > Cardinality(Nodes)
    BY <1>8
  <2>2. Linked(last.tree, M) /\ Hanging(last.tree, M, E)
    BY <1>8 DEF Shape
  <2>3. Cardinality(E[last.at]) \in Nat /\ Cardinality(E[last.at]) <= Cardinality(Nodes)
    BY <1>3, <2>1, <2>2, Smaller
  <2>4. Cardinality(Nodes) \in Nat
    BY AvlAssumption, FS_CardinalityType
  <2> QED
    BY <2>1, <2>3, <2>4
<1>10. PICK g : Heights(last.tree, M, Nil, g)
  BY <1>8, <1>9
<1>11. g = 0
  BY <1>10 DEF Heights
<1> QED
  BY <1>1, <1>7, <1>8, <1>10, <1>11 DEF Rebuilt
-----------------------------------------------------------------------------
(* Insertion.                                                              *)

\* A node of size s may hang on side q of n.
Fits(t, s, q, n) == IF q = "left" THEN s <= t.size[n] ELSE t.size[n] <= s

\* The descent may be at y: whatever y hangs below lets size s hang there too.
Leads(t, M, D, s, y) == \A q \in Side, n \in M : y \in D[t.child[q][n]] => Fits(t, s, q, n)

\* The place of a new node of size s: on the empty side of y where s belongs, or at the
\* root of an empty tree.
Place(t, M, D, s, y) ==
  /\ y = Nil => t.root = Nil
  /\ y # Nil => y \in M /\ t.child[SideFor(s, t.size[y])][y] = Nil /\ Leads(t, M, D, s, y)

\* One step of the descent.
LEMMA LeadsOn ==
  ASSUME NEW t, NEW M, NEW D, Shape(t, M, D), NEW s \in Nat, NEW y \in M \union {Nil}, NEW c \in M,
         y = Nil => t.root = c,
         y # Nil => t.child[SideFor(s, t.size[y])][y] = c /\ Leads(t, M, D, s, y)
  PROVE  Leads(t, M, D, s, c)
<1>1. Linked(t, M) /\ Hanging(t, M, D) /\ Nil \notin M /\ M \subseteq Node /\ t \in Tree
  BY AvlAssumption DEF Shape, Linked, Node
<1> SUFFICES ASSUME NEW q \in Side, NEW n \in M, c \in D[t.child[q][n]] PROVE Fits(t, s, q, n)
  BY DEF Leads
<1> DEFINE e == t.child[q][n]
<1>2. e \in M
  <2>1. e \in M \union {Nil} /\ D[Nil] = {}
    BY <1>1 DEF Linked, Hanging
  <2> QED
    BY <2>1
<1>3. CASE c = e
  <2>1. t.parent[c] = n /\ t.parent[c] # Nil
    BY <1>1, <1>2, <1>3 DEF Linked
  <2>2. y # Nil
    BY <1>1, <2>1 DEF Linked
  <2>3. SideFor(s, t.size[y]) \in Side /\ y \in M
    BY <2>2 DEF SideFor, Side
  <2>4. Placed(t, M, c)
    BY <1>1, EachPlaced
  <2>5. y = n /\ q = SideFor(s, t.size[y])
    BY <1>3, <2>1, <2>2, <2>3, <2>4, Sides DEF Placed
  <2>6. t.size[n] \in Nat
    BY <1>1 DEF Tree
  <2> QED
    BY <2>5, <2>6 DEF Fits, SideFor
<1>4. CASE c # e
  <2>1. t.parent[c] \in D[e]
    BY <1>1, <1>2, <1>4, HasParent
  <2>2. D[e] \subseteq M
    BY <1>1, <1>2 DEF Hanging
  <2>3. y # Nil
    BY <1>1, <2>1, <2>2 DEF Linked
  <2>4. SideFor(s, t.size[y]) \in Side /\ y \in M
    BY <2>3 DEF SideFor, Side
  <2>5. t.parent[c] = y
    BY <1>1, <2>3, <2>4 DEF Linked
  <2> QED
    BY <2>1, <2>3, <2>5 DEF Leads
<1> QED
  BY <1>3, <1>4

\* The descent of avl_insert ends at the place of the new node.
LEMMA InsertionParentIs ==
  ASSUME NEW t, NEW M, NEW D, Shape(t, M, D), NEW s \in Nat
  PROVE  Place(t, M, D, s, InsertionParent(t, s))
<1> DEFINE A == [y : Node, x : Node]
           turn == [r \in A |-> IF r.x = Nil THEN r
                                ELSE [y |-> r.x, x |-> t.child[SideFor(s, t.size[r.x])][r.x]]]
           start == [y |-> Nil, x |-> t.root]
           Descending(k, r) == /\ r.y \in M \union {Nil} /\ r.x \in M \union {Nil}
                               /\ r.y = Nil => t.root = r.x
                               /\ r.y # Nil => t.child[SideFor(s, t.size[r.y])][r.y] = r.x /\ Leads(t, M, D, s, r.y)
                               /\ r.x # Nil => Cardinality(D[r.x]) + k <= Cardinality(Nodes)
           I == {i \in Nat \X A : Descending(i[1], i[2])}
           last == Turns(turn, start)
<1>1. InsertionParent(t, s) = last.y
  BY DEF InsertionParent
<1>2. /\ Linked(t, M) /\ Hanging(t, M, D) /\ Nil \notin M /\ M \subseteq Node /\ t \in Tree /\ Nil \in Node
      /\ Cardinality(Nodes) \in Nat /\ \A k : SideFor(s, k) \in Side
  BY AvlAssumption, FS_CardinalityType DEF Shape, Linked, Node, SideFor, Side
<1>3. turn \in [A -> A] /\ start \in A
  BY <1>2 DEF Tree
<1>4. <<0, start>> \in I
  <2>1. start.y = Nil /\ start.x = t.root /\ t.root \in M \union {Nil}
    BY <1>2 DEF Linked
  <2>2. t.root # Nil => Cardinality(D[t.root]) \in Nat /\ Cardinality(D[t.root]) <= Cardinality(Nodes)
    BY <1>2, <2>1, Smaller
  <2>3. Descending(0, start)
    BY <2>1, <2>2
  <2> HIDE DEF Descending, A, start
  <2> QED
    BY <1>3, <2>3
<1>5. ASSUME NEW k \in Nat, NEW r \in A, <<k, r>> \in I PROVE <<k + 1, turn[r]>> \in I
  <2>1. Descending(k, r)
    BY <1>5
  <2>2. k + 1 \in Nat /\ turn[r] \in A
    BY <1>3
  <2>3. CASE r.x = Nil
    <3>1. turn[r] = r
      BY <2>3
    <3>2. Descending(k + 1, r)
      BY <2>1, <2>3
    <3> HIDE DEF Descending, turn
    <3> QED
      BY <2>2, <3>1, <3>2
  <2>4. CASE r.x # Nil
    <3> DEFINE c == r.x
               q == SideFor(s, t.size[c])
               d == t.child[q][c]
    <3>1. turn[r] = [y |-> c, x |-> d]
      BY <2>4
    <3>2. c \in M /\ q \in Side /\ r.y \in M \union {Nil}
      BY <1>2, <2>1, <2>4
    <3>3. Leads(t, M, D, s, c)
      BY <2>1, <3>2, LeadsOn
    <3>4. d \in M \union {Nil} /\ d \in Node /\ c # Nil
      BY <1>2, <3>2 DEF Linked
    <3>5. /\ Cardinality(D[d]) < Cardinality(D[c]) /\ Cardinality(D[d]) \in Nat
          /\ Cardinality(D[c]) \in Nat
      BY <1>2, <3>2, <3>4, Smaller
    <3>6. Cardinality(D[c]) + k <= Cardinality(Nodes)
      BY <2>1, <2>4
    <3>7. Cardinality(D[d]) + (k + 1) <= Cardinality(Nodes)
      BY <1>2, <3>5, <3>6
    <3>8. turn[r].y = c /\ turn[r].x = d /\ t.child[SideFor(s, t.size[c])][c] = d
      BY <3>1
    <3> HIDE DEF c, q, d, turn
    <3>9. Descending(k + 1, turn[r])
      BY <3>2, <3>3, <3>4, <3>7, <3>8
    <3> HIDE DEF Descending
    <3> QED
      BY <2>2, <3>9
  <2> QED
    BY <2>3, <2>4
<1> HIDE DEF turn, A, start
<1>6. <<Cardinality(Nodes), last>> \in I
  <2> HIDE DEF I
  <2> QED
    BY <1>3, <1>4, <1>5, TurnsKeep
<1>7. Descending(Cardinality(Nodes), last)
  BY <1>6
<1> HIDE DEF last
<1>8. last.x = Nil
  <2> SUFFICES ASSUME last.x # Nil PROVE FALSE
    OBVIOUS
  <2>1. last.x \in M /\ Cardinality(D[last.x]) + Cardinality(Nodes) <= Cardinality(Nodes)
    BY <1>7
  <2>2. t.child["left"][last.x] \in Node /\ "left" \in Side
    BY <1>2, <2>1 DEF Tree, Side
  <2>3. /\ Cardinality(D[t.child["left"][last.x]]) < Cardinality(D[last.x])
        /\ Cardinality(D[t.child["left"][last.x]]) \in Nat /\ Cardinality(D[last.x]) \in Nat
    BY <1>2, <2>1, <2>2, Smaller
  <2> QED
    BY <1>2, <2>1, <2>3
<1> QED
  BY <1>1, <1>7, <1>8 DEF Place
\* The fields of a tree after node z of size s was hung below y.
Hung(t, r, z, s, y) ==
  /\ r \in Tree /\ r.root = IF y = Nil THEN z ELSE t.root
  /\ r.size = [t.size EXCEPT ![z] = s] /\ r.parent = [t.parent EXCEPT ![z] = y]
  /\ r.height = [t.height EXCEPT ![z] = 1]
  /\ \A p \in Side, n \in Node :
       r.child[p][n] = IF n = z THEN Nil
                       ELSE IF n = y /\ y # Nil /\ p = SideFor(s, t.size[y]) THEN z
                       ELSE t.child[p][n]

\* Hang does what Hung says.
LEMMA HangIs ==
  ASSUME NEW t \in Tree, NEW z \in Node, NEW k \in Nat, NEW y \in Node, y # z
  PROVE  Hung(t, Hang(t, z, k, y), z, k, y)
<1> DEFINE lt == "left"
           rt == "right"
           ta == PutSize(t, z, k)
           tb == PutParent(ta, z, y)
           tc == PutHeight(tb, z, 1)
           td == PutChild(tc, lt, z, Nil)
           te == PutChild(td, rt, z, Nil)
           q == SideFor(k, t.size[y])
           r == IF y = Nil THEN PutRoot(te, z) ELSE PutChild(te, q, y, z)
<1>1. Hang(t, z, k, y) = r
  BY DEF Hang, PutSize, PutParent, PutHeight, PutChild, PutRoot
<1>2. q \in Side /\ lt \in Side /\ rt \in Side /\ Nil \in Node /\ 1 \in Nat
      /\ \A p \in Side : p = lt \/ p = rt
  BY DEF SideFor, Side, Node
<1> HIDE DEF q, lt, rt
<1>13. q \in Side
  BY <1>2
<1>14. lt \in Side
  BY <1>2
<1>15. rt \in Side
  BY <1>2
<1>16. Nil \in Node
  BY <1>2
<1>17. 1 \in Nat
  OBVIOUS
<1>3. /\ ta \in Tree /\ ta.root = t.root /\ ta.child = t.child /\ ta.parent = t.parent
      /\ ta.height = t.height /\ ta.size = [t.size EXCEPT ![z] = k]
  BY SetSize
<1>12. td = PutChild(tc, lt, z, Nil) /\ te = PutChild(td, rt, z, Nil)
  OBVIOUS
<1> HIDE DEF ta
<1>4. /\ tb \in Tree /\ tb.root = t.root /\ tb.child = t.child /\ tb.parent = [t.parent EXCEPT ![z] = y]
      /\ tb.height = t.height /\ tb.size = [t.size EXCEPT ![z] = k]
  BY <1>3, SetParent
<1> HIDE DEF tb, td, te
<1>5. /\ tc \in Tree /\ tc.root = t.root /\ tc.child = t.child /\ tc.parent = [t.parent EXCEPT ![z] = y]
      /\ tc.height = [t.height EXCEPT ![z] = 1] /\ tc.size = [t.size EXCEPT ![z] = k]
  BY <1>17, <1>4, SetHeight
<1> HIDE DEF tc
<1>6. /\ td \in Tree /\ td.root = t.root /\ td.parent = [t.parent EXCEPT ![z] = y]
      /\ td.height = [t.height EXCEPT ![z] = 1] /\ td.size = [t.size EXCEPT ![z] = k]
      /\ Relinked(tc, td, lt, z, Nil)
  BY <1>14, <1>16, <1>5, <1>12, SetChild
<1>7. /\ te \in Tree /\ te.root = t.root /\ te.parent = [t.parent EXCEPT ![z] = y]
      /\ te.height = [t.height EXCEPT ![z] = 1] /\ te.size = [t.size EXCEPT ![z] = k]
      /\ Relinked(td, te, rt, z, Nil)
  BY <1>15, <1>16, <1>6, <1>12, SetChild
<1>8. \A p \in Side, n \in Node : te.child[p][n] = IF n = z THEN Nil ELSE t.child[p][n]
  BY <1>2, <1>5, <1>6, <1>7 DEF Relinked
<1>9. CASE y = Nil
  <2>1. r = PutRoot(te, z)
    BY <1>9
  <2> HIDE DEF r
  <2>2. /\ r \in Tree /\ r.root = z /\ r.child = te.child /\ r.parent = te.parent
        /\ r.height = te.height /\ r.size = te.size
    BY <1>7, <2>1, SetRoot
  <2> QED
    BY <1>1, <1>7, <1>8, <1>9, <2>2 DEF Hung
<1>10. CASE y # Nil
  <2>1. r = PutChild(te, q, y, z)
    BY <1>10
  <2> HIDE DEF r
  <2>2. /\ r \in Tree /\ r.root = te.root /\ r.parent = te.parent
        /\ r.height = te.height /\ r.size = te.size /\ Relinked(te, r, q, y, z)
    <3>1. te \in Tree
      BY <1>7
    <3> QED
      BY <1>13, <2>1, <3>1, SetChild
  <2>3. \A p \in Side, n \in Node :
          r.child[p][n] = IF n = z THEN Nil ELSE IF n = y /\ p = q THEN z ELSE t.child[p][n]
    BY <1>8, <2>2 DEF Relinked
  <2> QED
    BY <1>1, <1>7, <1>10, <2>2, <2>3 DEF Hung, q
<1> QED
  BY <1>9, <1>10

\* What hangs below each node when z was hung below y.
Grown(M, D, z, y) ==
  [n \in Node |-> IF n = z THEN {z}
                  ELSE IF n # Nil /\ y \in D[n] THEN D[n] \union {z} ELSE D[n] \ {z}]

\* In a balanced tree every node is level.
LEMMA AllLevel ==
  ASSUME NEW t, NEW M, NEW D, Shape(t, M, D), Heights(t, M, Nil, 0), NEW n \in M, NEW q \in Side
  PROVE  Level(t.height[n], t.height[t.child[q][n]], t.height[t.child[Other(q)][n]])
<1>1. Nil \notin M /\ t.height[Nil] = 0
  BY AvlAssumption DEF Shape, Linked, Heights
<1>2. Level(t.height[n], Told(t, Nil, 0, t.child[q][n]), Told(t, Nil, 0, t.child[Other(q)][n]))
  BY <1>1 DEF Heights
<1> QED
  BY <1>1, <1>2 DEF Told

\* A new node in its place makes a search tree with that node, whose parent may be out
\* of balance.
LEMMA HangKeeps ==
  ASSUME NEW t, NEW M, NEW D, Shape(t, M, D), Heights(t, M, Nil, 0), NEW z \in Nodes \ M, NEW s \in Nat,
         NEW y, Place(t, M, D, s, y), NEW r, Hung(t, r, z, s, y), NEW E, E = Grown(M, D, z, y)
  PROVE  /\ Shape(r, M \union {z}, E) /\ r.size = [t.size EXCEPT ![z] = s]
         /\ y \in M \union {z, Nil} /\ Heights(r, M \union {z}, y, r.height[y])
<1> DEFINE N == M \union {z}
           g == SideFor(s, t.size[y])
<1>1. /\ Linked(t, M) /\ Hanging(t, M, D) /\ Sorted(t, M, D)
      /\ t \in Tree /\ M \subseteq Node /\ Nil \notin M /\ z \in Node /\ z # Nil /\ N \subseteq Nodes
      /\ g \in Side /\ y \in M \union {Nil} /\ y # z /\ y \in Node /\ Nil \in Node
  BY AvlAssumption DEF Shape, Linked, Node, SideFor, Side, Place
<1>2. /\ r \in Tree /\ r.root = IF y = Nil THEN z ELSE t.root
      /\ r.size = [t.size EXCEPT ![z] = s] /\ r.parent = [t.parent EXCEPT ![z] = y]
      /\ r.height = [t.height EXCEPT ![z] = 1]
      /\ \A p \in Side, n \in Node :
           r.child[p][n] = IF n = z THEN Nil ELSE IF n = y /\ y # Nil /\ p = g THEN z ELSE t.child[p][n]
  BY DEF Hung
<1>3. /\ r.size[z] = s /\ \A n \in Node \ {z} : r.size[n] = t.size[n]
      /\ r.parent[z] = y /\ \A n \in Node \ {z} : r.parent[n] = t.parent[n]
      /\ r.height[z] = 1 /\ \A n \in Node \ {z} : r.height[n] = t.height[n]
  BY <1>1, <1>2 DEF Tree
<1>4. /\ D \in [Node -> SUBSET M] /\ D[Nil] = {} /\ D[t.root] = M /\ z \notin M
      /\ \A n \in M, p \in Side : t.child[p][n] \in M \union {Nil} /\ t.child[p][n] # z
  BY <1>1 DEF Hanging, Linked
<1>5. y = Nil => M = {} /\ t.root = Nil
  BY <1>4 DEF Place
<1>6. y # Nil => y \in M /\ t.child[g][y] = Nil /\ Leads(t, M, D, s, y)
  BY DEF Place
<1> HIDE DEF g
<1>7. /\ E[z] = {z} /\ E[Nil] = {}
      /\ \A n \in M \union {Nil} : E[n] = IF y \in D[n] THEN D[n] \union {z} ELSE D[n]
  <2>1. \A n \in Node : E[n] = IF n = z THEN {z}
                               ELSE IF n # Nil /\ y \in D[n] THEN D[n] \union {z} ELSE D[n] \ {z}
    BY DEF Grown
  <2>2. \A n \in M \union {Nil} : n \in Node /\ n # z /\ z \notin D[n]
    BY <1>1, <1>4
  <2>3. \A n \in M \union {Nil} : y \in D[n] => n # Nil
    BY <1>4
  <2>4. E[z] = {z} /\ E[Nil] = {}
    BY <1>1, <1>4, <2>1
  <2>5. ASSUME NEW n \in M \union {Nil} PROVE E[n] = IF y \in D[n] THEN D[n] \union {z} ELSE D[n]
    <3>1. CASE y \in D[n]
      BY <2>1, <2>2, <2>3, <3>1
    <3>2. CASE y \notin D[n]
      <4>1. E[n] = D[n] \ {z}
        BY <2>1, <2>2, <3>2
      <4> QED
        BY <2>2, <3>2, <4>1
    <3> QED
      BY <3>1, <3>2
  <2> QED
    BY <2>4, <2>5
<1>8. E \in [Node -> SUBSET N]
  BY <1>4 DEF Grown
<1> HIDE DEF N
<1>9. Linked(r, N)
  <2>1. r.root \in N \union {Nil} /\ (r.root # Nil => r.parent[r.root] = Nil)
    <3>1. CASE y = Nil
      BY <1>2, <1>3, <3>1 DEF N
    <3>2. CASE y # Nil
      <4>1. r.root = t.root /\ t.root \in M \union {Nil} /\ (t.root # Nil => t.parent[t.root] = Nil)
        BY <1>1, <1>2, <3>2 DEF Linked
      <4> QED
        BY <1>1, <1>3, <1>4, <4>1 DEF N
    <3> QED
      BY <3>1, <3>2
  <2>2. ASSUME NEW q \in Side, NEW n \in N
        PROVE  r.child[q][n] \in N \union {Nil} /\ (r.child[q][n] # Nil => r.parent[r.child[q][n]] = n)
    <3>1. CASE n = z
      BY <1>1, <1>2, <3>1
    <3>2. CASE n = y /\ y # Nil /\ q = g
      BY <1>1, <1>2, <1>3, <3>2 DEF N
    <3>3. CASE n # z /\ ~(n = y /\ y # Nil /\ q = g)
      <4>1. n \in M /\ r.child[q][n] = t.child[q][n]
        BY <1>1, <1>2, <3>3 DEF N
      <4>2. t.child[q][n] \in M \union {Nil} /\ (t.child[q][n] # Nil => t.parent[t.child[q][n]] = n)
        BY <1>1, <4>1 DEF Linked
      <4> QED
        BY <1>1, <1>3, <1>4, <4>1, <4>2 DEF N
    <3> QED
      BY <3>1, <3>2, <3>3
  <2>3. \A q \in Side : r.child[q][Nil] = Nil
    BY <1>1, <1>2 DEF Linked
  <2>4. r.size[Nil] = 0
    BY <1>1, <1>3 DEF Linked
  <2> QED
    BY <1>1, <1>2, <2>1, <2>2, <2>3, <2>4 DEF Linked
<1>10. Hanging(r, N, E)
  <2>1. E[r.root] = N
    <3>1. CASE y = Nil
      BY <1>2, <1>5, <1>7, <3>1 DEF N
    <3>2. CASE y # Nil
      <4>1. t.root \in M \union {Nil} /\ y \in M
        BY <1>1, <1>6, <3>2 DEF Linked
      <4> QED
        BY <1>2, <1>4, <1>7, <3>2, <4>1 DEF N
    <3> QED
      BY <3>1, <3>2
  <2>2. ASSUME NEW q \in Side, NEW n \in N
        PROVE  /\ E[n] = {n} \union E[r.child[q][n]] \union E[r.child[Other(q)][n]]
               /\ n \notin E[r.child[q][n]]
               /\ E[r.child[q][n]] \intersect E[r.child[Other(q)][n]] = {}
    <3>1. Other(q) \in Side /\ Other(q) # q /\ (q = g \/ Other(q) = g)
      BY <1>1, Sides
    <3>2. CASE n = z
      BY <1>1, <1>2, <1>7, <3>1, <3>2
    <3>3. CASE n # z
      <4>1. n \in M
        BY <3>3 DEF N
      <4>2. /\ D[n] = {n} \union D[t.child[q][n]] \union D[t.child[Other(q)][n]]
            /\ n \notin D[t.child[q][n]] /\ n \notin D[t.child[Other(q)][n]]
            /\ D[t.child[q][n]] \intersect D[t.child[Other(q)][n]] = {}
        BY <1>1, <3>1, <4>1 DEF Hanging
      <4>3. /\ t.child[q][n] \in M \union {Nil} /\ t.child[Other(q)][n] \in M \union {Nil}
            /\ D[t.child[q][n]] \subseteq M /\ D[t.child[Other(q)][n]] \subseteq M
        BY <1>1, <1>4, <3>1, <4>1
      <4>6. /\ \A c \in {n, t.child[q][n], t.child[Other(q)][n]} :
                 E[c] = IF y \in D[c] THEN D[c] \union {z} ELSE D[c]
            /\ n # z /\ z \notin D[t.child[q][n]] /\ z \notin D[t.child[Other(q)][n]]
        BY <1>4, <1>7, <3>3, <4>1, <4>3
      <4>4. CASE n = y
        <5>1. y # Nil /\ t.child[g][n] = Nil
          BY <1>1, <1>6, <4>1, <4>4
        <5>2. CASE q = g
          <6>1. r.child[q][n] = z /\ r.child[Other(q)][n] = t.child[Other(q)][n]
            BY <1>1, <1>2, <3>1, <4>4, <5>1, <5>2
          <6> QED
            BY <1>4, <1>7, <4>2, <4>4, <4>6, <5>1, <5>2, <6>1
        <5>3. CASE Other(q) = g
          <6>1. r.child[Other(q)][n] = z /\ r.child[q][n] = t.child[q][n]
            BY <1>1, <1>2, <3>1, <4>4, <5>1, <5>3
          <6> QED
            BY <1>4, <1>7, <4>2, <4>4, <4>6, <5>1, <5>3, <6>1
        <5> QED
          BY <3>1, <5>2, <5>3
      <4>5. CASE n # y
        <5>1. r.child[q][n] = t.child[q][n] /\ r.child[Other(q)][n] = t.child[Other(q)][n]
          BY <1>1, <1>2, <3>1, <3>3, <4>1, <4>5
        <5> QED
          BY <4>2, <4>5, <4>6, <5>1
      <4> QED
        BY <4>4, <4>5
    <3> QED
      BY <3>2, <3>3
  <2> QED
    BY <1>7, <1>8, <2>1, <2>2 DEF Hanging
<1>11. Sorted(r, N, E)
  <2> SUFFICES ASSUME NEW q \in Side, NEW n \in N, NEW m \in E[r.child[q][n]] PROVE Before(r, q, m, n)
    BY DEF Sorted
  <2>1. n # z
    <3> SUFFICES ASSUME n = z PROVE FALSE
      OBVIOUS
    <3> QED
      BY <1>1, <1>2, <1>7
  <2>2. n \in M /\ n \in Node
    BY <1>1, <2>1 DEF N
  <2>3. \A i \in M \ {z} : Before(t, q, i, n) => Before(r, q, i, n)
    BY <1>1, <1>3, <2>1, <2>2 DEF Before
  <2>4. Fits(t, s, q, n) => Before(r, q, z, n)
    BY <1>3, <2>1, <2>2 DEF Before, Fits
  <2>5. CASE n = y /\ y # Nil /\ q = g
    <3>1. m = z
      BY <1>2, <1>7, <2>1, <2>2, <2>5
    <3>2. t.size[y] \in Nat
      BY <1>1 DEF Tree
    <3>3. Fits(t, s, q, n)
      BY <2>5, <3>2 DEF Fits, SideFor, g
    <3> QED
      BY <2>4, <3>1, <3>3
  <2>6. CASE ~(n = y /\ y # Nil /\ q = g)
    <3>1. r.child[q][n] = t.child[q][n] /\ t.child[q][n] \in M \union {Nil} /\ D[t.child[q][n]] \subseteq M
      BY <1>1, <1>2, <1>4, <2>1, <2>2, <2>6
    <3>2. CASE m = z
      <4>1. y \in D[t.child[q][n]]
        BY <1>4, <1>7, <3>1, <3>2
      <4>2. y # Nil
        BY <1>1, <3>1, <4>1
      <4> QED
        BY <1>6, <2>2, <2>4, <3>2, <4>1, <4>2 DEF Leads
    <3>3. CASE m # z
      <4>1. m \in D[t.child[q][n]]
        BY <1>7, <3>1, <3>3
      <4> QED
        BY <1>1, <2>2, <2>3, <3>1, <3>3, <4>1 DEF Sorted
    <3> QED
      BY <3>2, <3>3
  <2> QED
    BY <2>5, <2>6
<1>12. Heights(r, N, y, r.height[y])
  <2>1. r.height[Nil] = 0 /\ r.height[y] \in Nat
    BY <1>1, <1>2, <1>3 DEF Tree, Heights
  <2>2. ASSUME NEW n \in N \ {y}, NEW q \in Side
        PROVE  Level(r.height[n], Told(r, y, r.height[y], r.child[q][n]),
                     Told(r, y, r.height[y], r.child[Other(q)][n]))
    <3>1. \A c \in Node : Told(r, y, r.height[y], c) = r.height[c]
      BY DEF Told
    <3>2. Other(q) \in Side
      BY Sides
    <3>3. CASE n = z
      <4>1. r.child[q][n] = Nil /\ r.child[Other(q)][n] = Nil
        BY <1>1, <1>2, <3>2, <3>3
      <4>2. Level(1, 0, 0)
        BY DEF Level, Larger
      <4> QED
        BY <1>1, <1>3, <2>1, <3>1, <3>3, <4>1, <4>2
    <3>4. CASE n # z
      <4>1. n \in M /\ n \in Node
        BY <1>1, <3>4 DEF N
      <4>2. r.child[q][n] = t.child[q][n] /\ r.child[Other(q)][n] = t.child[Other(q)][n]
        BY <1>2, <3>2, <3>4, <4>1
      <4>3. /\ t.child[q][n] \in Node \ {z} /\ t.child[Other(q)][n] \in Node \ {z}
        BY <1>1, <1>4, <3>2, <4>1
      <4>4. Level(t.height[n], t.height[t.child[q][n]], t.height[t.child[Other(q)][n]])
        BY <4>1, AllLevel
      <4> QED
        BY <1>3, <3>1, <3>4, <4>1, <4>2, <4>3, <4>4
    <3> QED
      BY <3>3, <3>4
  <2>3. ASSUME y # Nil PROVE Off(r, y, r.height[y])
    <3> DEFINE a == 0
    <3>1. y \in M /\ t.child[g][y] = Nil /\ Other(g) \in Side /\ Other(g) # g
      BY <1>1, <1>6, <2>3, Sides
    <3>2. r.child[g][y] = z /\ r.child[Other(g)][y] = t.child[Other(g)][y]
      BY <1>1, <1>2, <2>3, <3>1
    <3>3. t.child[Other(g)][y] \in Node \ {z}
      BY <1>1, <1>4, <3>1
    <3>4. Level(t.height[y], t.height[t.child[g][y]], t.height[t.child[Other(g)][y]])
      BY <1>1, <3>1, AllLevel
    <3>5. Level(r.height[y], 0, r.height[r.child[Other(g)][y]])
      BY <1>1, <1>3, <2>1, <3>1, <3>2, <3>3, <3>4
    <3>6. 0 \in Nat /\ 0 - r.height[r.child[g][y]] \in -1 .. 1
      BY <1>3, <3>2
    <3> QED
      BY <1>1, <3>5, <3>6 DEF Off
  <2>4. y = Nil => r.height[y] = 0
    BY <2>1
  <2> QED
    BY <2>1, <2>2, <2>3, <2>4 DEF Heights
<1> QED
  BY <1>1, <1>2, <1>9, <1>10, <1>11, <1>12 DEF Shape, N

\* A balanced search tree of the nodes M.
Sound(t, M) == (\E D : Shape(t, M, D)) /\ Heights(t, M, Nil, 0)

\* avl_insert.
LEMMA InsertKeeps ==
  ASSUME NEW t, NEW M, Sound(t, M), NEW z \in Nodes \ M, NEW s \in Nat
  PROVE  Sound(AvlInsert(t, z, s), M \union {z})
<1> DEFINE y == InsertionParent(t, s)
           r == Hang(t, z, s, y)
           u == RebalanceUpwards(r, y)
<1>1. PICK D : Shape(t, M, D)
  BY DEF Sound
<1>2. Heights(t, M, Nil, 0)
  BY DEF Sound
<1>3. AvlInsert(t, z, s) = u
  BY DEF AvlInsert
<1>4. Place(t, M, D, s, y)
  BY <1>1, InsertionParentIs
<1> HIDE DEF y
<1>5. t \in Tree /\ z \in Node /\ y \in Node /\ y # z
  BY <1>1, <1>4, AvlAssumption DEF Shape, Linked, Node, Place
<1>6. Hung(t, r, z, s, y)
  BY <1>5, HangIs
<1> HIDE DEF r
<1> DEFINE E == Grown(M, D, z, y)
           N == M \union {z}
<1>7. Shape(r, N, E) /\ y \in M \union {z, Nil} /\ Heights(r, N, y, r.height[y])
  BY <1>1, <1>2, <1>4, <1>6, HangKeeps
<1> HIDE DEF E
<1>8. y \in N \union {Nil}
  BY <1>7
<1> HIDE DEF N
<1>9. Rebuilt(r, N, u)
  BY <1>7, <1>8, RebalanceUpwardsKeeps
<1> QED
  BY <1>3, <1>9 DEF Rebuilt, Sound, N
-----------------------------------------------------------------------------
(* Deletion.                                                               *)

\* What hangs below a node hangs below whatever that node hangs below.
LEMMA Below ==
  ASSUME NEW t, NEW M, NEW D, Linked(t, M), Hanging(t, M, D), NEW c \in M, NEW n \in D[c]
  PROVE  D[n] \subseteq D[c]
<1> DEFINE Astray(d) == d \in M /\ n \in D[d] /\ ~(D[n] \subseteq D[d])
           T == {Cardinality(D[d]) : d \in {e \in M : Astray(e)}}
<1>1. SUFFICES ASSUME Astray(c) PROVE FALSE
  OBVIOUS
<1>2. ASSUME NEW d \in M PROVE IsFiniteSet(D[d]) /\ Cardinality(D[d]) \in Nat
  BY Smaller DEF Linked, Node
<1>3. T # {} /\ T \subseteq Nat
  BY <1>1, <1>2
<1>4. PICK k \in T : \A j \in T : k <= j
  <2> HIDE DEF T
  <2> QED
    BY <1>3, Least
<1>5. PICK d \in M : Astray(d) /\ k = Cardinality(D[d])
  OBVIOUS
<1>6. d # n
  BY <1>5
<1>7. PICK q \in Side : n \in D[t.child[q][d]]
  BY <1>5, <1>6 DEF Hanging, Side, Other
<1> DEFINE e == t.child[q][d]
<1>8. e \in M /\ D[e] \subseteq D[d]
  BY <1>7, Hangs DEF Linked, Hanging
<1>9. Cardinality(D[e]) < Cardinality(D[d])
  BY Smaller
<1> HIDE DEF e
<1>10. Astray(e)
  BY <1>5, <1>7, <1>8 DEF e
<1>11. Cardinality(D[e]) \in T
  BY <1>8, <1>10
<1> QED
  BY <1>2, <1>4, <1>5, <1>8, <1>9, <1>11

\* m is the leftmost node below n: nothing to its left, and no size there is smaller.
Leftmost(t, M, D, n, m) ==
  /\ m \in M /\ m \in D[n] /\ t.child["left"][m] = Nil
  /\ \A i \in D[n] : t.size[m] <= t.size[i]

\* avl_get_minimum.
LEMMA MinimumIs ==
  ASSUME NEW t, NEW M, NEW D, Shape(t, M, D), NEW n \in M
  PROVE  Leftmost(t, M, D, n, Minimum(t, n))
<1> DEFINE left == t.child["left"]
           turn == [m \in Node |-> IF left[m] = Nil THEN m ELSE left[m]]
           Descending(k, m) == /\ m \in M /\ m \in D[n]
                               /\ \A i \in D[n] : i \in D[m] \/ t.size[m] <= t.size[i]
                               /\ left[m] # Nil => Cardinality(D[m]) + k <= Cardinality(Nodes)
           I == {j \in Nat \X Node : Descending(j[1], j[2])}
           last == Turns(turn, n)
<1>1. Minimum(t, n) = last
  BY DEF Minimum
<1>2. /\ Linked(t, M) /\ Hanging(t, M, D) /\ Sorted(t, M, D) /\ Nil \notin M /\ M \subseteq Node
      /\ t \in Tree /\ Nil \in Node /\ Cardinality(Nodes) \in Nat /\ "left" \in Side /\ "right" \in Side
      /\ Other("left") = "right" /\ n \in Node
  BY AvlAssumption, FS_CardinalityType DEF Shape, Linked, Node, Side, Other
<1>3. left \in [Node -> Node] /\ t.size \in [Node -> Nat] /\ \A m \in M : D[m] \subseteq Node
  BY <1>2 DEF Tree, Hanging
<1>4. turn \in [Node -> Node]
  BY <1>3
<1>5. \A m \in M : /\ left[m] \in M \union {Nil} /\ m \in D[m] /\ Cardinality(D[m]) \in Nat
                   /\ Cardinality(D[m]) <= Cardinality(Nodes)
                   /\ Cardinality(D[left[m]]) < Cardinality(D[m]) /\ D[left[m]] \subseteq D[m]
                   /\ D[m] = {m} \union D[left[m]] \union D[t.child["right"][m]]
                   /\ \A i \in D[left[m]] : t.size[i] <= t.size[m]
                   /\ \A i \in D[t.child["right"][m]] : t.size[m] <= t.size[i]
  <2> SUFFICES ASSUME NEW m \in M
               PROVE  /\ left[m] \in M \union {Nil} /\ m \in D[m] /\ Cardinality(D[m]) \in Nat
                      /\ Cardinality(D[m]) <= Cardinality(Nodes)
                      /\ Cardinality(D[left[m]]) < Cardinality(D[m]) /\ D[left[m]] \subseteq D[m]
                      /\ D[m] = {m} \union D[left[m]] \union D[t.child["right"][m]]
                      /\ \A i \in D[left[m]] : t.size[i] <= t.size[m]
                      /\ \A i \in D[t.child["right"][m]] : t.size[m] <= t.size[i]
    OBVIOUS
  <2>1. left[m] \in M \union {Nil} /\ D[m] = {m} \union D[left[m]] \union D[t.child["right"][m]]
    BY <1>2 DEF Linked, Hanging
  <2>2. m \in D[m] /\ D[left[m]] \subseteq D[m]
    BY <1>2, Hangs
  <2>3. /\ Cardinality(D[m]) \in Nat /\ Cardinality(D[m]) <= Cardinality(Nodes)
        /\ Cardinality(D[left[m]]) < Cardinality(D[m])
    BY <1>2, Smaller
  <2>4. /\ \A i \in D[left[m]] : t.size[i] <= t.size[m]
        /\ \A i \in D[t.child["right"][m]] : t.size[m] <= t.size[i]
    <3>1. /\ \A i \in D[left[m]] : Before(t, "left", i, m)
          /\ \A i \in D[t.child["right"][m]] : Before(t, "right", i, m)
      BY <1>2 DEF Sorted
    <3> QED
      BY <3>1 DEF Before
  <2> QED
    BY <2>1, <2>2, <2>3, <2>4
<1> HIDE DEF left
<1>6. <<0, n>> \in I
  <2>1. Descending(0, n)
    BY <1>5
  <2> HIDE DEF Descending
  <2> QED
    BY <1>2, <2>1
<1>7. ASSUME NEW k \in Nat, NEW m \in Node, <<k, m>> \in I PROVE <<k + 1, turn[m]>> \in I
  <2>1. Descending(k, m)
    BY <1>7
  <2>2. k + 1 \in Nat /\ turn[m] \in Node
    BY <1>4
  <2>3. CASE left[m] = Nil
    <3>1. turn[m] = m
      BY <2>3
    <3>2. Descending(k + 1, m)
      BY <2>1, <2>3
    <3> HIDE DEF Descending, turn
    <3> QED
      BY <2>2, <3>1, <3>2
  <2>4. CASE left[m] # Nil
    <3> DEFINE c == left[m]
    <3>1. turn[m] = c /\ m \in M /\ c \in M /\ c \in Node
      BY <1>2, <1>5, <2>1, <2>4
    <3>2. c \in D[c] /\ D[c] \subseteq D[m] /\ t.size[c] <= t.size[m]
      BY <1>5, <3>1
    <3>3. c \in D[n]
      <4>1. D[m] \subseteq D[n]
        BY <1>2, <2>1, Below
      <4> QED
        BY <3>2, <4>1
    <3>4. ASSUME NEW i \in D[n] PROVE i \in D[c] \/ t.size[c] <= t.size[i]
      <4>1. t.size[i] \in Nat /\ t.size[m] \in Nat /\ t.size[c] \in Nat
        BY <1>2, <1>3, <3>1
      <4>2. CASE i \in D[m]
        <5>1. i = m \/ i \in D[c] \/ t.size[m] <= t.size[i]
          BY <1>5, <3>1, <4>2
        <5> QED
          BY <3>2, <4>1, <5>1
      <4>3. CASE i \notin D[m]
        BY <2>1, <3>2, <4>1, <4>3
      <4> QED
        BY <4>2, <4>3
    <3>5. Cardinality(D[c]) + (k + 1) <= Cardinality(Nodes)
      <4>1. /\ Cardinality(D[c]) < Cardinality(D[m]) /\ Cardinality(D[c]) \in Nat
            /\ Cardinality(D[m]) \in Nat
        BY <1>5, <3>1
      <4>2. Cardinality(D[m]) + k <= Cardinality(Nodes)
        BY <2>1, <2>4
      <4> QED
        BY <1>2, <4>1, <4>2
    <3> HIDE DEF c
    <3>6. Descending(k + 1, c)
      BY <3>1, <3>3, <3>4, <3>5
    <3> HIDE DEF Descending, turn
    <3> QED
      BY <2>2, <3>1, <3>6
  <2> QED
    BY <2>3, <2>4
<1> HIDE DEF turn
<1>8. <<Cardinality(Nodes), last>> \in I
  <2> HIDE DEF I
  <2> QED
    BY <1>2, <1>4, <1>6, <1>7, TurnsKeep
<1>9. Descending(Cardinality(Nodes), last)
  BY <1>8
<1> HIDE DEF last
<1>10. left[last] = Nil
  <2> SUFFICES ASSUME left[last] # Nil PROVE FALSE
    OBVIOUS
  <2>1. last \in M /\ left[last] \in M /\ Cardinality(D[last]) + Cardinality(Nodes) <= Cardinality(Nodes)
    BY <1>5, <1>9
  <2>2. /\ Cardinality(D[left[last]]) < Cardinality(D[last]) /\ Cardinality(D[left[last]]) \in Nat
        /\ Cardinality(D[last]) \in Nat
    BY <1>5, <2>1
  <2> QED
    BY <1>2, <2>1, <2>2
<1>11. ASSUME NEW i \in D[n] PROVE t.size[last] <= t.size[i]
  <2>1. last \in M /\ last \in Node /\ i \in Node /\ t.size[last] \in Nat
    BY <1>2, <1>3, <1>9
  <2>2. CASE i \in D[last]
    <3>1. D[left[last]] = {}
      BY <1>2, <1>10 DEF Hanging
    <3>2. i = last \/ i \in D[t.child["right"][last]]
      BY <1>5, <2>1, <2>2, <3>1
    <3> QED
      BY <1>5, <2>1, <3>2
  <2>3. CASE i \notin D[last]
    BY <1>9, <2>3
  <2> QED
    BY <2>2, <2>3
<1> QED
  BY <1>1, <1>9, <1>10, <1>11 DEF Leftmost, left
\* What hangs below each node without y.
Pruned(D, y) == [n \in Node |-> D[n] \ {y}]

\* r is the tree t without y, in whose place there is x now; y's parent may be out of
\* balance.
DetachDone(t, M, D, y, r, x, E) ==
  LET start == r.parent[x] IN
  /\ Shape(r, M \ {y}, E) /\ r.size = t.size /\ start = t.parent[y]
  /\ start \in (M \ {y}) \union {Nil} /\ Heights(r, M \ {y}, start, r.height[start])
  /\ \A n \in M, q \in Side : E[r.child[q][n]] = D[t.child[q][n]] \ {y}

\* A node with a free side is taken out of its place.
LEMMA DetachKeeps ==
  ASSUME NEW t, NEW M, NEW D, Shape(t, M, D), Heights(t, M, Nil, 0), NEW y \in M, NEW a \in Side,
         t.child[a][y] = Nil, NEW x, x = t.child[Other(a)][y], NEW r, Transplanted(t, r, M, y, x),
         NEW E, E = Pruned(D, y)
  PROVE  DetachDone(t, M, D, y, r, x, E)
<1> DEFINE N == M \ {y}
           start == t.parent[y]
           b == Other(a)
<1>1. /\ Linked(t, M) /\ Hanging(t, M, D) /\ Sorted(t, M, D) /\ t \in Tree /\ M \subseteq Node
      /\ Nil \notin M /\ Nil \in Node /\ y # Nil /\ y \in Node /\ b \in Side /\ Other(b) = a /\ N \subseteq M
      /\ \A q \in Side : q = a \/ q = b
  BY AvlAssumption, Sides DEF Shape, Linked, Node
<1>2. /\ r \in Tree /\ r.size = t.size /\ r.height = t.height
      /\ r.root = IF t.root = y THEN x ELSE t.root
      /\ r.parent = [t.parent EXCEPT ![x] = t.parent[y]]
      /\ \A q \in Side, n \in M : r.child[q][n] = IF t.child[q][n] = y THEN x ELSE t.child[q][n]
      /\ \A q \in Side, n \in Node \ M : r.child[q][n] = t.child[q][n]
  BY DEF Transplanted
<1>3. x \in M \union {Nil} /\ x # y /\ (x # Nil => t.parent[x] = y) /\ x \in Node
  BY <1>1, Hangs DEF Linked
<1>4. Placed(t, M, y)
  BY <1>1, EachPlaced
<1>5. /\ D \in [Node -> SUBSET M] /\ D[Nil] = {} /\ D[t.root] = M
      /\ D[y] = {y} \union D[x] /\ y \notin D[x]
  BY <1>1 DEF Hanging
<1>6. start \in N \union {Nil}
  <2>1. \A q \in Side : t.child[q][y] # y
    BY <1>1, Hangs
  <2> QED
    BY <1>4, <2>1 DEF Placed
<1>7. r.parent[x] = start /\ \A n \in Node \ {x} : r.parent[n] = t.parent[n]
  BY <1>1, <1>2, <1>3, <1>6 DEF Tree
<1> HIDE DEF start, b
<1>8. \A n \in Node : E[n] = D[n] \ {y}
  BY DEF Pruned
<1>9. ASSUME NEW n \in M, NEW q \in Side
      PROVE  /\ r.child[q][n] = IF t.child[q][n] = y THEN x ELSE t.child[q][n]
             /\ t.child[q][n] \in M \union {Nil} /\ r.child[q][n] \in N \union {Nil}
             /\ E[r.child[q][n]] = D[t.child[q][n]] \ {y}
  <2>1. r.child[q][n] = IF t.child[q][n] = y THEN x ELSE t.child[q][n]
    BY <1>2
  <2>2. t.child[q][n] \in M \union {Nil}
    BY <1>1 DEF Linked
  <2>3. r.child[q][n] \in N \union {Nil}
    BY <1>1, <1>3, <2>1, <2>2
  <2>4. CASE t.child[q][n] = y
    BY <1>3, <1>5, <1>8, <2>1, <2>4
  <2>5. CASE t.child[q][n] # y
    BY <1>1, <1>8, <2>1, <2>2, <2>5
  <2> QED
    BY <2>1, <2>2, <2>3, <2>4, <2>5
<1> HIDE DEF N
<1>10. Linked(r, N)
  <2>1. r.root \in N \union {Nil} /\ (r.root # Nil => r.parent[r.root] = Nil)
    <3>1. CASE t.root = y
      <4>1. start = Nil
        BY <1>4, <3>1 DEF Placed, start
      <4> QED
        BY <1>2, <1>3, <1>7, <3>1, <4>1 DEF N
    <3>2. CASE t.root # y
      <4>1. t.root \in M \union {Nil} /\ (t.root # Nil => t.parent[t.root] = Nil)
        BY <1>1 DEF Linked
      <4>2. r.root = t.root /\ (t.root # Nil => t.root # x)
        BY <1>1, <1>2, <1>3, <3>2, <4>1
      <4> QED
        BY <1>1, <1>7, <3>2, <4>1, <4>2 DEF N
    <3> QED
      BY <3>1, <3>2
  <2>2. ASSUME NEW q \in Side, NEW n \in N
        PROVE  r.child[q][n] \in N \union {Nil} /\ (r.child[q][n] # Nil => r.parent[r.child[q][n]] = n)
    <3>1. n \in M /\ n # y
      BY DEF N
    <3>2. CASE t.child[q][n] = y
      <4>1. n = start
        BY <1>4, <3>1, <3>2 DEF Placed, start
      <4> QED
        BY <1>7, <1>9, <3>1, <3>2, <4>1
    <3>3. CASE t.child[q][n] # y
      <4>1. r.child[q][n] = t.child[q][n] /\ (t.child[q][n] # Nil => t.parent[t.child[q][n]] = n)
        BY <1>1, <1>9, <3>1, <3>3 DEF Linked
      <4>2. t.child[q][n] # Nil => t.child[q][n] # x /\ t.child[q][n] \in Node
        BY <1>1, <1>3, <1>9, <3>1, <4>1
      <4> QED
        BY <1>7, <1>9, <3>1, <4>1, <4>2
    <3> QED
      BY <3>2, <3>3
  <2>3. \A q \in Side : r.child[q][Nil] = Nil
    BY <1>1, <1>2 DEF Linked
  <2>4. r.size[Nil] = 0 /\ N \subseteq Nodes
    BY <1>1, <1>2 DEF Linked, N
  <2> QED
    BY <1>2, <2>1, <2>2, <2>3, <2>4 DEF Linked
<1>11. Hanging(r, N, E)
  <2>1. E \in [Node -> SUBSET N]
    BY <1>5 DEF Pruned, N
  <2>2. E[Nil] = {}
    BY <1>1, <1>5, <1>8
  <2>3. E[r.root] = N
    <3>1. CASE t.root = y
      BY <1>2, <1>3, <1>5, <1>8, <3>1 DEF N
    <3>2. CASE t.root # y
      <4>1. t.root \in Node
        BY <1>1 DEF Tree
      <4> QED
        BY <1>2, <1>5, <1>8, <3>2, <4>1 DEF N
    <3> QED
      BY <3>1, <3>2
  <2>4. ASSUME NEW q \in Side, NEW n \in N
        PROVE  /\ E[n] = {n} \union E[r.child[q][n]] \union E[r.child[Other(q)][n]]
               /\ n \notin E[r.child[q][n]]
               /\ E[r.child[q][n]] \intersect E[r.child[Other(q)][n]] = {}
    <3>1. n \in M /\ n # y /\ Other(q) \in Side /\ n \in Node
      BY <1>1, Sides DEF N
    <3>2. /\ D[n] = {n} \union D[t.child[q][n]] \union D[t.child[Other(q)][n]]
          /\ n \notin D[t.child[q][n]]
          /\ D[t.child[q][n]] \intersect D[t.child[Other(q)][n]] = {}
      BY <1>1, <3>1 DEF Hanging
    <3>3. /\ E[r.child[q][n]] = D[t.child[q][n]] \ {y}
          /\ E[r.child[Other(q)][n]] = D[t.child[Other(q)][n]] \ {y}
          /\ E[n] = D[n] \ {y}
      BY <1>8, <1>9, <3>1
    <3> QED
      BY <3>1, <3>2, <3>3
  <2> QED
    BY <2>1, <2>2, <2>3, <2>4 DEF Hanging
<1>12. Sorted(r, N, E)
  <2> SUFFICES ASSUME NEW q \in Side, NEW n \in N, NEW m \in E[r.child[q][n]] PROVE Before(r, q, m, n)
    BY DEF Sorted
  <2>1. n \in M /\ m \in D[t.child[q][n]]
    BY <1>9 DEF N
  <2>2. Before(t, q, m, n)
    BY <1>1, <2>1 DEF Sorted
  <2> QED
    BY <1>2, <2>2 DEF Before
<1>13. Heights(r, N, start, r.height[start])
  <2>1. r.height[Nil] = 0 /\ r.height[start] \in Nat
    <3>1. start \in Node
      BY <1>1, <1>6 DEF N
    <3> QED
      BY <1>2, <3>1 DEF Heights, Tree
  <2>2. ASSUME NEW n \in N \ {start}, NEW q \in Side
        PROVE  Level(r.height[n], Told(r, start, r.height[start], r.child[q][n]),
                     Told(r, start, r.height[start], r.child[Other(q)][n]))
    <3>1. \A c \in Node : Told(r, start, r.height[start], c) = r.height[c]
      BY DEF Told
    <3>2. n \in M /\ Other(q) \in Side
      BY Sides DEF N
    <3>3. t.child[q][n] # y /\ t.child[Other(q)][n] # y
      BY <1>4, <3>2 DEF Placed, start
    <3>4. r.child[q][n] = t.child[q][n] /\ r.child[Other(q)][n] = t.child[Other(q)][n]
      BY <1>9, <3>2, <3>3
    <3>5. Level(t.height[n], t.height[t.child[q][n]], t.height[t.child[Other(q)][n]])
      BY <3>2, AllLevel
    <3>6. r.child[q][n] \in Node /\ r.child[Other(q)][n] \in Node
      BY <1>1, <1>9, <3>2 DEF N
    <3> QED
      BY <1>2, <3>1, <3>4, <3>5, <3>6
  <2>3. ASSUME start # Nil PROVE Off(r, start, r.height[start])
    <3>1. start \in M
      BY <1>6, <2>3 DEF N
    <3>2. PICK q \in Side : t.child[q][start] = y
      BY <1>4, <2>3 DEF Placed, start
    <3>3. Other(q) \in Side /\ t.child[Other(q)][start] # y
      BY <1>4, <3>1, <3>2, Sides DEF Placed
    <3>4. r.child[q][start] = x /\ r.child[Other(q)][start] = t.child[Other(q)][start]
      BY <1>9, <3>1, <3>2, <3>3
    <3>5. Level(t.height[start], t.height[y], t.height[t.child[Other(q)][start]])
      BY <3>1, <3>2, AllLevel
    <3>6. Level(t.height[y], 0, t.height[x])
      <4>1. Level(t.height[y], t.height[t.child[a][y]], t.height[t.child[Other(a)][y]])
        BY AllLevel
      <4> QED
        BY <1>2, <2>1, <4>1
    <3>7. t.height[x] \in Nat /\ t.height[y] \in Nat
      BY <1>1, <1>3 DEF Tree
    <3>8. t.height[y] - t.height[x] \in -1 .. 1
      BY <3>6, <3>7 DEF Level, Larger
    <3>9. /\ t.height[y] - r.height[r.child[q][start]] \in -1 .. 1
          /\ Level(r.height[start], t.height[y], r.height[r.child[Other(q)][start]])
      BY <1>2, <3>4, <3>5, <3>8
    <3> QED
      BY <3>7, <3>9 DEF Off
  <2>4. start = Nil => r.height[start] = 0
    BY <2>1
  <2> QED
    BY <2>1, <2>2, <2>3, <2>4 DEF Heights
<1> QED
  BY <1>2, <1>6, <1>7, <1>9, <1>10, <1>11, <1>12, <1>13 DEF Shape, N, start, DetachDone
\* The fields of a tree after y, which is not in it, took z's place.
Replaced(t, r, M, z, y) ==
  /\ r \in Tree /\ r.size = t.size
  /\ r.root = IF t.root = z THEN y ELSE t.root
  /\ \A q \in Side, n \in M \ {z} : r.child[q][n] = IF t.child[q][n] = z THEN y ELSE t.child[q][n]
  /\ \A q \in Side : r.child[q][y] = t.child[q][z] /\ r.child[q][Nil] = t.child[q][Nil]
  /\ r.parent[y] = t.parent[z]
  /\ \A n \in M \ {z} : r.parent[n] = IF t.parent[n] = z THEN y ELSE t.parent[n]
  /\ \A n \in Node \ {y} : r.height[n] = t.height[n]
  /\ \A q \in Side : r.height[y] = 1 + Larger(t.height[t.child[q][z]], t.height[t.child[Other(q)][z]])

\* Replace does what Replaced says.
LEMMA ReplaceIs ==
  ASSUME NEW t, NEW M, NEW D, Linked(t, M), Hanging(t, M, D), NEW z \in M, NEW y \in Nodes \ M
  PROVE  Replaced(t, Replace(t, z, y), M, z, y)
<1> DEFINE lt == "left"
           rt == "right"
           cl == t.child[lt][z]
           cr == t.child[rt][z]
           t0 == Transplant(t, z, y)
           ta == PutChild(t0, lt, y, cl)
           tb == PutParent(ta, ta.child[lt][y], y)
           tc == PutChild(tb, rt, y, tb.child[rt][z])
           td == PutParent(tc, tc.child[rt][y], y)
           te == UpdateHeight(td, y)
<1>1. Replace(t, z, y) = te
  BY DEF Replace, PutChild, PutParent
<1>2. lt \in Side /\ rt \in Side /\ Other(lt) = rt /\ Other(rt) = lt /\ lt # rt /\ \A p \in Side : p = lt \/ p = rt
  BY DEF Side, Other
<1>3. lt \in Side
  BY <1>2
<1>4. rt \in Side
  BY <1>2
<1>5. /\ t \in Tree /\ M \subseteq Node /\ Nil \notin M /\ Nil \in Node /\ y \in Node /\ y # Nil /\ y \notin M
      /\ z \in Node /\ y # z /\ M \subseteq Nodes
  BY AvlAssumption DEF Linked, Node
<1>32. y \in Node
  BY <1>5
<1>6. cl \in M \union {Nil} /\ cr \in M \union {Nil} /\ cl # z /\ cr # z /\ (cl # Nil => cl # cr)
      /\ (cl # Nil => t.parent[cl] = z) /\ (cr # Nil => t.parent[cr] = z)
  BY <1>2, Hangs DEF Linked
<1>7. cl \in Node /\ cr \in Node /\ cl # y /\ cr # y
  BY <1>5, <1>6
<1>8. Placed(t, M, z)
  BY EachPlaced
<1>20. /\ ta = PutChild(t0, lt, y, cl) /\ tb = PutParent(ta, ta.child[lt][y], y)
       /\ tc = PutChild(tb, rt, y, tb.child[rt][z]) /\ td = PutParent(tc, tc.child[rt][y], y)
  OBVIOUS
<1>21. ta = PutChild(t0, lt, y, cl)
  OBVIOUS
<1>22. te = UpdateHeight(td, y) /\ cl = t.child[lt][z] /\ cr = t.child[rt][z]
  OBVIOUS
<1>9. Transplanted(t, t0, M, z, y)
  BY <1>5, <1>8, TransplantIs
<1> HIDE DEF lt, rt, cl, cr, t0, ta, tb, tc, td, te
<1>10. t0 \in Tree /\ t0.size = t.size /\ t0.height = t.height
  BY <1>9 DEF Transplanted
<1>11. /\ ta \in Tree /\ ta.root = t0.root /\ ta.parent = t0.parent
       /\ ta.height = t0.height /\ ta.size = t0.size
       /\ Relinked(t0, ta, lt, y, cl)
  BY <1>3, <1>7, <1>10, <1>21, <1>32, SetChild
<1>12. ta.child[lt][y] = cl
  BY <1>3, <1>5, <1>11 DEF Relinked
<1>13. /\ tb \in Tree /\ tb.root = t0.root /\ tb.child = ta.child /\ tb.parent = [t0.parent EXCEPT ![cl] = y]
       /\ tb.height = t0.height /\ tb.size = t0.size
  <2>1. tb = PutParent(ta, cl, y)
    BY <1>12, <1>20
  <2> QED
    BY <1>7, <1>11, <1>32, <2>1, SetParent
<1>14. tb.child[rt][z] = cr
  <2>1. tb.child[rt][z] = t0.child[rt][z]
    BY <1>4, <1>5, <1>11, <1>13 DEF Relinked
  <2>2. t0.child[rt][z] = t.child[rt][z]
    BY <1>4, <1>6, <1>9, <1>22 DEF Transplanted
  <2> QED
    BY <2>1, <2>2, <1>22
<1>15. tc = PutChild(tb, rt, y, cr)
  BY <1>14, <1>20
<1>16. /\ tc \in Tree /\ tc.root = tb.root /\ tc.parent = tb.parent
       /\ tc.height = tb.height /\ tc.size = tb.size
       /\ Relinked(tb, tc, rt, y, cr)
  BY <1>4, <1>7, <1>13, <1>15, <1>32, SetChild
<1>17. tc.child[rt][y] = cr
  BY <1>4, <1>5, <1>16 DEF Relinked
<1>18. /\ td \in Tree /\ td.root = tc.root /\ td.child = tc.child /\ td.parent = [tc.parent EXCEPT ![cr] = y]
       /\ td.height = tc.height /\ td.size = tc.size
  <2>1. td = PutParent(tc, cr, y)
    BY <1>17, <1>20
  <2> QED
    BY <1>7, <1>16, <1>32, <2>1, SetParent
<1>19. \A q \in Side, n \in Node :
         td.child[q][n] = IF n = y THEN t.child[q][z] ELSE t0.child[q][n]
  <2> SUFFICES ASSUME NEW q \in Side, NEW n \in Node
               PROVE  td.child[q][n] = IF n = y THEN t.child[q][z] ELSE t0.child[q][n]
    OBVIOUS
  <2>1. td.child[q][n] = IF q = rt /\ n = y THEN cr ELSE ta.child[q][n]
    BY <1>13, <1>16, <1>18 DEF Relinked
  <2>2. ta.child[q][n] = IF q = lt /\ n = y THEN cl ELSE t0.child[q][n]
    BY <1>11 DEF Relinked
  <2> QED
    BY <1>2, <1>22, <2>1, <2>2
<1>23. \A n \in M \ {z} : td.parent[n] = IF t.parent[n] = z THEN y ELSE t.parent[n]
  <2> SUFFICES ASSUME NEW n \in M \ {z} PROVE td.parent[n] = IF t.parent[n] = z THEN y ELSE t.parent[n]
    OBVIOUS
  <2>1. t0.parent[n] = t.parent[n] /\ t0.parent \in [Node -> Node]
    BY <1>5, <1>9 DEF Transplanted, Tree
  <2>2. td.parent[n] = IF n = cr \/ n = cl THEN y ELSE t.parent[n]
    BY <1>5, <1>13, <1>16, <1>18, <2>1
  <2>3. t.parent[n] = z <=> n = cr \/ n = cl
    <3>1. n \in M /\ n # Nil /\ Placed(t, M, n)
      BY <1>5, EachPlaced
    <3>2. ASSUME t.parent[n] = z PROVE n = cr \/ n = cl
      <4>1. PICK q \in Side : t.child[q][z] = n
        BY <1>5, <3>1, <3>2 DEF Placed
      <4> QED
        BY <1>2, <1>22, <4>1
    <3> QED
      BY <1>6, <3>1, <3>2
  <2> QED
    BY <2>2, <2>3
<1>24. td.parent[y] = t.parent[z]
  <2>1. t0.parent[y] = t.parent[z] /\ t0.parent \in [Node -> Node]
    BY <1>5, <1>9 DEF Transplanted, Tree
  <2> QED
    BY <1>5, <1>7, <1>13, <1>16, <1>18, <2>1
<1>25. td \in Tree /\ td.height = t.height /\ td.size = t.size /\ td.root = t0.root
  BY <1>10, <1>13, <1>16, <1>18
<1>26. /\ te \in Tree /\ te.root = td.root /\ te.child = td.child /\ te.parent = td.parent
       /\ te.size = td.size /\ \A n \in Node \ {y} : te.height[n] = td.height[n]
       /\ \A q \in Side : te.height[y] = 1 + Larger(td.height[td.child[q][y]], td.height[td.child[Other(q)][y]])
  <2> DEFINE v == 1 + Larger(td.height[td.child["left"][y]], td.height[td.child["right"][y]])
  <2>1. /\ te = PutHeight(td, y, v) /\ v \in Nat
        /\ \A q \in Side : v = 1 + Larger(td.height[td.child[q][y]], td.height[td.child[Other(q)][y]])
    BY <1>5, <1>22, <1>25, UpdateHeightIs
  <2> HIDE DEF v
  <2>2. /\ te \in Tree /\ te.root = td.root /\ te.child = td.child /\ te.parent = td.parent
        /\ te.size = td.size /\ te.height = [td.height EXCEPT ![y] = v]
    BY <1>5, <1>25, <2>1, SetHeight
  <2>3. te.height[y] = v /\ \A n \in Node \ {y} : te.height[n] = td.height[n]
    BY <1>5, <1>25, <2>2 DEF Tree
  <2> QED
    BY <2>1, <2>2, <2>3
<1>27. /\ t0.root = IF t.root = z THEN y ELSE t.root
       /\ \A q \in Side, n \in M : t0.child[q][n] = IF t.child[q][n] = z THEN y ELSE t.child[q][n]
       /\ \A q \in Side : t0.child[q][Nil] = t.child[q][Nil]
  BY <1>5, <1>9 DEF Transplanted
<1>28. \A q \in Side, n \in M \ {z} : te.child[q][n] = IF t.child[q][n] = z THEN y ELSE t.child[q][n]
  BY <1>5, <1>19, <1>26, <1>27
<1>29. \A q \in Side : te.child[q][y] = t.child[q][z] /\ te.child[q][Nil] = t.child[q][Nil]
  BY <1>5, <1>19, <1>26, <1>27
<1>30. \A q \in Side : te.height[y] = 1 + Larger(t.height[t.child[q][z]], t.height[t.child[Other(q)][z]])
  <2> SUFFICES ASSUME NEW q \in Side
               PROVE  te.height[y] = 1 + Larger(t.height[t.child[q][z]], t.height[t.child[Other(q)][z]])
    OBVIOUS
  <2>1. te.height[y] = 1 + Larger(td.height[td.child[q][y]], td.height[td.child[Other(q)][y]])
    BY <1>26
  <2>2. td.child[q][y] = t.child[q][z] /\ td.child[Other(q)][y] = t.child[Other(q)][z]
    BY <1>5, <1>19, Sides
  <2> QED
    BY <1>25, <2>1, <2>2
<1>31. Replaced(t, te, M, z, y)
  <2>1. te \in Tree /\ te.size = t.size /\ te.root = IF t.root = z THEN y ELSE t.root
    BY <1>25, <1>26, <1>27
  <2>2. te.parent[y] = t.parent[z] /\ \A n \in M \ {z} : te.parent[n] = IF t.parent[n] = z THEN y ELSE t.parent[n]
    BY <1>23, <1>24, <1>26
  <2>3. \A n \in Node \ {y} : te.height[n] = t.height[n]
    BY <1>25, <1>26
  <2> QED
    BY <1>28, <1>29, <1>30, <2>1, <2>2, <2>3 DEF Replaced
<1> QED
  BY <1>1, <1>31
\* y in place of z.
Swap(S, z, y) == IF z \in S THEN (S \ {z}) \union {y} ELSE S
Instead(n, z, y) == IF n = z THEN y ELSE n

\* What hangs below each node when y has taken z's place.
Renamed(D, z, y) == [n \in Node |-> IF n = Nil THEN {} ELSE Swap(D[Instead(n, y, z)], z, y)]

\* y's size suits z's place.
Suits(t, M, D, z, y) ==
  /\ \A q \in Side : \A m \in D[t.child[q][z]] : Before(t, q, m, y)
  /\ \A q \in Side, n \in M \ {z} : z \in D[t.child[q][n]] => Before(t, q, y, n)

\* A node that suits z's place may take it; if z was out of balance, the new node is.
LEMMA ReplaceKeeps ==
  ASSUME NEW t, NEW M, NEW D, Shape(t, M, D), NEW z \in M, NEW y \in Nodes \ M,
         NEW u \in M \union {Nil}, Heights(t, M, u, t.height[u]), Suits(t, M, D, z, y),
         NEW r, Replaced(t, r, M, z, y), NEW E, E = Renamed(D, z, y),
         NEW N, N = (M \ {z}) \union {y}, NEW v, v = Instead(u, z, y)
  PROVE  Shape(r, N, E) /\ r.size = t.size /\ v \in N \union {Nil} /\ Heights(r, N, v, t.height[u])
<1>1. /\ Linked(t, M) /\ Hanging(t, M, D) /\ Sorted(t, M, D) /\ t \in Tree /\ M \subseteq Node
      /\ Nil \notin M /\ Nil \in Node /\ y # Nil /\ y \in Node /\ y \notin M /\ z # Nil /\ z # y /\ z \in Node
      /\ N \subseteq Nodes /\ N \subseteq Node /\ Nil \notin N /\ z \notin N
  BY AvlAssumption DEF Shape, Linked, Node
<1>2. /\ r \in Tree /\ r.size = t.size
      /\ r.root = IF t.root = z THEN y ELSE t.root
      /\ \A q \in Side, n \in M \ {z} : r.child[q][n] = IF t.child[q][n] = z THEN y ELSE t.child[q][n]
      /\ \A q \in Side : r.child[q][y] = t.child[q][z] /\ r.child[q][Nil] = t.child[q][Nil]
      /\ r.parent[y] = t.parent[z]
      /\ \A n \in M \ {z} : r.parent[n] = IF t.parent[n] = z THEN y ELSE t.parent[n]
      /\ \A n \in Node \ {y} : r.height[n] = t.height[n]
      /\ \A q \in Side : r.height[y] = 1 + Larger(t.height[t.child[q][z]], t.height[t.child[Other(q)][z]])
  BY DEF Replaced
<1>3. /\ D \in [Node -> SUBSET M] /\ D[Nil] = {} /\ D[t.root] = M
  BY <1>1 DEF Hanging
<1>4. ASSUME NEW n \in N
      PROVE  /\ Instead(n, y, z) \in M /\ Instead(Instead(n, y, z), z, y) = n
             /\ E[n] = Swap(D[Instead(n, y, z)], z, y)
  BY <1>1 DEF Instead, Renamed
<1>5. ASSUME NEW c \in M \union {Nil}
      PROVE  Instead(c, z, y) \in N \union {Nil} /\ E[Instead(c, z, y)] = Swap(D[c], z, y)
  <2>1. CASE c = z
    <3>1. Instead(c, z, y) = y /\ Instead(y, y, z) = z
      BY <2>1 DEF Instead
    <3> QED
      BY <1>1, <2>1, <3>1 DEF Renamed
  <2>2. CASE c = Nil
    <3>1. Instead(c, z, y) = Nil /\ Swap({}, z, y) = {}
      BY <1>1, <2>2 DEF Instead, Swap
    <3> QED
      BY <1>1, <1>3, <2>2, <3>1 DEF Renamed
  <2>3. CASE c # z /\ c # Nil
    <3>1. c \in M /\ c # y
      BY <1>1, <2>3
    <3>2. Instead(c, z, y) = c /\ Instead(c, y, z) = c
      BY <2>3, <3>1 DEF Instead
    <3> QED
      BY <1>1, <2>3, <3>1, <3>2 DEF Renamed
  <2> QED
    BY <2>1, <2>2, <2>3
<1>6. ASSUME NEW n \in N, NEW q \in Side
      PROVE  LET o == Instead(n, y, z)
                 c == t.child[q][o]
             IN /\ o \in M /\ c \in M \union {Nil} /\ r.child[q][n] = Instead(c, z, y)
                /\ E[r.child[q][n]] = Swap(D[c], z, y) /\ c # o
  <2> DEFINE o == Instead(n, y, z)
             c == t.child[q][o]
  <2>1. o \in M
    BY <1>4
  <2>2. c \in M \union {Nil} /\ c # o
    BY <1>1, <2>1, Hangs DEF Linked
  <2>3. r.child[q][n] = Instead(c, z, y)
    <3>1. CASE n = y
      <4>1. o = z
        BY <3>1 DEF Instead
      <4>2. r.child[q][n] = c /\ c # z
        BY <1>2, <2>2, <3>1, <4>1
      <4> QED
        BY <4>2 DEF Instead
    <3>2. CASE n # y
      <4>1. o = n /\ n \in M \ {z}
        BY <3>2 DEF Instead
      <4> QED
        BY <1>2, <4>1 DEF Instead
    <3> QED
      BY <3>1, <3>2
  <2> HIDE DEF c
  <2>4. E[r.child[q][n]] = Swap(D[c], z, y)
    BY <1>5, <2>2, <2>3
  <2> QED
    BY <2>1, <2>2, <2>3, <2>4 DEF c
<1>7. Linked(r, N)
  <2>1. r.root = Instead(t.root, z, y) /\ t.root \in M \union {Nil} /\ (t.root # Nil => t.parent[t.root] = Nil)
    BY <1>1, <1>2 DEF Instead, Linked
  <2>2. r.root \in N \union {Nil}
    BY <1>5, <2>1
  <2>3. ASSUME r.root # Nil PROVE r.parent[r.root] = Nil
    <3>1. CASE t.root = z
      BY <1>1, <1>2, <2>1, <3>1
    <3>2. CASE t.root # z
      <4>1. r.root = t.root /\ t.root \in M \ {z}
        BY <1>2, <2>1, <2>3, <3>2
      <4> QED
        BY <1>1, <1>2, <2>1, <4>1
    <3> QED
      BY <3>1, <3>2
  <2>4. ASSUME NEW q \in Side, NEW n \in N
        PROVE  r.child[q][n] \in N \union {Nil} /\ (r.child[q][n] # Nil => r.parent[r.child[q][n]] = n)
    <3> DEFINE o == Instead(n, y, z)
               c == t.child[q][o]
    <3>1. o \in M /\ c \in M \union {Nil} /\ r.child[q][n] = Instead(c, z, y) /\ c # o /\ Instead(o, z, y) = n
      BY <1>4, <1>6
    <3>2. r.child[q][n] \in N \union {Nil}
      BY <1>5, <3>1
    <3>3. c # Nil => t.parent[c] = o
      BY <1>1, <3>1 DEF Linked
    <3> HIDE DEF c, o
    <3>4. CASE c = z
      BY <1>1, <1>2, <3>1, <3>2, <3>3, <3>4 DEF Instead
    <3>5. CASE c = Nil
      BY <1>1, <3>1, <3>2, <3>5 DEF Instead
    <3>6. CASE c # z /\ c # Nil
      <4>1. r.child[q][n] = c /\ c \in M \ {z}
        BY <3>1, <3>6 DEF Instead
      <4>2. r.parent[c] = Instead(t.parent[c], z, y)
        BY <1>2, <4>1 DEF Instead
      <4> QED
        BY <3>1, <3>2, <3>3, <3>6, <4>1, <4>2
    <3> QED
      BY <3>4, <3>5, <3>6
  <2>5. \A q \in Side : r.child[q][Nil] = Nil
    BY <1>1, <1>2 DEF Linked
  <2>6. r.size[Nil] = 0
    BY <1>1, <1>2 DEF Linked
  <2> QED
    BY <1>1, <1>2, <2>2, <2>3, <2>4, <2>5, <2>6 DEF Linked
<1>8. Hanging(r, N, E)
  <2>1. E \in [Node -> SUBSET N]
    <3>1. \A n \in Node : Instead(n, y, z) \in Node
      BY <1>1 DEF Instead
    <3>2. \A S \in SUBSET M : Swap(S, z, y) \in SUBSET N
      BY <1>1 DEF Swap
    <3>3. \A n \in Node : (IF n = Nil THEN {} ELSE Swap(D[Instead(n, y, z)], z, y)) \in SUBSET N
      BY <1>3, <3>1, <3>2
    <3> QED
      BY <3>3 DEF Renamed
  <2>2. E[Nil] = {}
    BY <1>1 DEF Renamed
  <2>3. E[r.root] = N
    <3>1. r.root = Instead(t.root, z, y) /\ t.root \in M \union {Nil}
      BY <1>1, <1>2 DEF Instead, Linked
    <3>2. E[r.root] = Swap(M, z, y)
      BY <1>3, <1>5, <3>1
    <3> QED
      BY <3>2 DEF Swap
  <2>4. ASSUME NEW q \in Side, NEW n \in N
        PROVE  /\ E[n] = {n} \union E[r.child[q][n]] \union E[r.child[Other(q)][n]]
               /\ n \notin E[r.child[q][n]]
               /\ E[r.child[q][n]] \intersect E[r.child[Other(q)][n]] = {}
    <3> DEFINE o == Instead(n, y, z)
               c == t.child[q][o]
               d == t.child[Other(q)][o]
    <3>1. o \in M /\ Other(q) \in Side /\ n = Instead(o, z, y) /\ E[n] = Swap(D[o], z, y)
      BY <1>4, Sides
    <3>2. /\ E[r.child[q][n]] = Swap(D[c], z, y) /\ E[r.child[Other(q)][n]] = Swap(D[d], z, y)
          /\ c \in M \union {Nil} /\ d \in M \union {Nil}
      BY <1>6, <3>1
    <3>3. D[o] = {o} \union D[c] \union D[d] /\ o \notin D[c] /\ D[c] \intersect D[d] = {} /\ o \notin D[d]
      BY <1>1, <3>1 DEF Hanging
    <3>4. y \notin D[o] /\ y \notin D[c] /\ y \notin D[d] /\ o # y
      BY <1>1, <1>3, <3>1, <3>2
    <3> DEFINE Dc == D[c]
               Dd == D[d]
               Do == D[o]
    <3>5. /\ Do = {o} \union Dc \union Dd /\ o \notin Dc /\ Dc \intersect Dd = {} /\ o \notin Dd
          /\ y \notin Do /\ y \notin Dc /\ y \notin Dd /\ o # y /\ n = Instead(o, z, y)
      BY <3>1, <3>3, <3>4
    <3> HIDE DEF Dc, Dd, Do, o, c, d
    <3>6. Swap(Do, z, y) = {n} \union Swap(Dc, z, y) \union Swap(Dd, z, y)
      <4>1. CASE o = z
        BY <3>5, <4>1 DEF Swap, Instead
      <4>2. CASE o # z /\ z \in Dc
        BY <3>5, <4>2 DEF Swap, Instead
      <4>3. CASE o # z /\ z \in Dd
        BY <3>5, <4>3 DEF Swap, Instead
      <4>4. CASE o # z /\ z \notin Dc /\ z \notin Dd
        BY <3>5, <4>4 DEF Swap, Instead
      <4> QED
        BY <4>1, <4>2, <4>3, <4>4
    <3>7. n \notin Swap(Dc, z, y) /\ Swap(Dc, z, y) \intersect Swap(Dd, z, y) = {}
      BY <1>1, <3>5 DEF Swap, Instead
    <3> QED
      BY <3>1, <3>2, <3>6, <3>7 DEF Dc, Dd, Do
  <2> QED
    BY <2>1, <2>2, <2>3, <2>4 DEF Hanging
<1>9. Sorted(r, N, E)
  <2> SUFFICES ASSUME NEW q \in Side, NEW n \in N, NEW m \in E[r.child[q][n]] PROVE Before(t, q, m, n)
    BY <1>2 DEF Sorted, Before
  <2> DEFINE o == Instead(n, y, z)
             c == t.child[q][o]
  <2>1. o \in M /\ c \in M \union {Nil} /\ m \in Swap(D[c], z, y)
    BY <1>6
  <2>2. o \notin D[c] /\ \A i \in D[c] : Before(t, q, i, o)
    BY <1>1, <2>1 DEF Hanging, Sorted
  <2>3. (m \in D[c] /\ m # z) \/ (m = y /\ z \in D[c])
    BY <2>1 DEF Swap
  <2>4. CASE n = y
    <3>1. o = z
      BY <2>4 DEF Instead
    <3>2. m \in D[t.child[q][z]]
      BY <2>2, <2>3, <3>1
    <3> QED
      BY <2>4, <3>2 DEF Suits
  <2>5. CASE n # y
    <3>1. o = n /\ n \in M \ {z}
      BY <2>5 DEF Instead
    <3> QED
      BY <2>2, <2>3, <3>1 DEF Suits
  <2> QED
    BY <2>4, <2>5
<1> DEFINE h == t.height[u]
<1>10. t.height \in [Node -> Nat] /\ u \in Node /\ h \in Nat /\ t.height[Nil] = 0
  BY <1>1 DEF Tree, Heights
<1>11. \A c \in Node : Told(t, u, h, c) = t.height[c]
  BY DEF Told
<1>12. ASSUME NEW n \in M \ {u}, NEW q \in Side
       PROVE  Level(t.height[n], t.height[t.child[q][n]], t.height[t.child[Other(q)][n]])
  <2>1. t.child[q][n] \in Node /\ t.child[Other(q)][n] \in Node
    BY <1>1, Sides DEF Tree
  <2> QED
    BY <1>11, <2>1 DEF Heights
<1>13. u # z => r.height[y] = t.height[z]
  <2> SUFFICES ASSUME u # z PROVE r.height[y] = t.height[z]
    OBVIOUS
  <2>1. "left" \in Side
    BY DEF Side
  <2>2. Level(t.height[z], t.height[t.child["left"][z]], t.height[t.child[Other("left")][z]])
    BY <1>12, <2>1
  <2> QED
    BY <1>2, <2>1, <2>2 DEF Level
<1>14. ASSUME NEW c \in M \union {Nil}, c # z \/ u # z
       PROVE  r.height[Instead(c, z, y)] = t.height[c]
  <2>1. CASE c = z
    BY <1>13, <1>14, <2>1 DEF Instead
  <2>2. CASE c # z
    BY <1>1, <1>2, <2>2 DEF Instead
  <2> QED
    BY <2>1, <2>2
<1>15. ASSUME NEW c \in M \union {Nil} PROVE Told(r, v, h, Instead(c, z, y)) = t.height[c]
  <2>1. CASE c = u
    BY <2>1 DEF Told
  <2>2. CASE c # u
    <3>1. Instead(c, z, y) # v /\ (c # z \/ u # z)
      BY <1>1, <2>2 DEF Instead
    <3> QED
      BY <1>14, <3>1 DEF Told
  <2> QED
    BY <2>1, <2>2
<1>16. v \in N \union {Nil} /\ (v = Nil <=> u = Nil)
  BY <1>1 DEF Instead
<1> HIDE DEF h
<1>17. ASSUME NEW n \in N \ {v}, NEW q \in Side
       PROVE  Level(r.height[n], Told(r, v, h, r.child[q][n]), Told(r, v, h, r.child[Other(q)][n]))
  <2> DEFINE o == Instead(n, y, z)
             c == t.child[q][o]
             d == t.child[Other(q)][o]
  <2>1. o \in M /\ Other(q) \in Side /\ n = Instead(o, z, y) /\ o # u
    BY <1>4, Sides
  <2>2. /\ c \in M \union {Nil} /\ r.child[q][n] = Instead(c, z, y)
        /\ d \in M \union {Nil} /\ r.child[Other(q)][n] = Instead(d, z, y)
    BY <1>6, <2>1
  <2>3. Told(r, v, h, r.child[q][n]) = t.height[c] /\ Told(r, v, h, r.child[Other(q)][n]) = t.height[d]
    BY <1>15, <2>2
  <2>4. r.height[n] = t.height[o]
    BY <1>14, <2>1
  <2>5. Level(t.height[o], t.height[c], t.height[d])
    BY <1>12, <2>1
  <2> QED
    BY <2>3, <2>4, <2>5
<1>18. ASSUME v # Nil PROVE Off(r, v, h)
  <2>1. u \in M /\ v \in N /\ Instead(v, y, z) = u
    BY <1>1, <1>16, <1>18 DEF Instead
  <2>2. Off(t, u, h)
    BY <1>1, <2>1 DEF Heights, h
  <2>3. PICK q \in Side, a \in Nat : /\ a - t.height[t.child[q][u]] \in -1 .. 1
                                     /\ Level(h, a, t.height[t.child[Other(q)][u]])
    BY <2>2 DEF Off
  <2>4. ASSUME NEW p \in Side PROVE r.height[r.child[p][v]] = t.height[t.child[p][u]]
    <3> DEFINE c == t.child[p][u]
    <3>1. c \in M \union {Nil} /\ r.child[p][v] = Instead(c, z, y) /\ c # u
      BY <1>6, <2>1
    <3>2. c # z \/ u # z
      BY <3>1
    <3> HIDE DEF c
    <3>3. r.height[Instead(c, z, y)] = t.height[c]
      BY <1>14, <3>1, <3>2
    <3> QED
      BY <3>1, <3>3 DEF c
  <2>5. Other(q) \in Side
    BY Sides
  <2> QED
    BY <2>3, <2>4, <2>5 DEF Off
<1>19. r.height[Nil] = 0 /\ h \in Nat /\ (v = Nil => h = 0)
  BY <1>1, <1>2, <1>10, <1>16 DEF h
<1>20. Heights(r, N, v, h)
  BY <1>17, <1>18, <1>19 DEF Heights
<1> QED
  BY <1>2, <1>7, <1>8, <1>9, <1>16, <1>20 DEF Shape, h
\* The node that leaves its place has a free side, and when it is not z itself, it is
\* the leftmost node on z's right.
LEMMA DetachedIs ==
  ASSUME NEW t, NEW M, NEW D, Shape(t, M, D), NEW z \in M, NEW y, y = Detached(t, z)
  PROVE  /\ y \in M /\ \E a \in Side : t.child[a][y] = Nil /\ Heir(t, y) = t.child[Other(a)][y]
         /\ y # z => t.child["right"][z] \in M /\ Leftmost(t, M, D, t.child["right"][z], y)
<1>1. "left" \in Side /\ "right" \in Side /\ Other("left") = "right" /\ Other("right") = "left"
  BY DEF Side, Other
<1>2. CASE t.child["left"][z] = Nil \/ t.child["right"][z] = Nil
  <2>1. y = z
    BY <1>2 DEF Detached
  <2>2. CASE t.child["left"][z] = Nil
    BY <1>1, <2>1, <2>2 DEF Heir
  <2>3. CASE t.child["left"][z] # Nil
    BY <1>1, <1>2, <2>1, <2>3 DEF Heir
  <2> QED
    BY <2>1, <2>2, <2>3
<1>3. CASE ~(t.child["left"][z] = Nil \/ t.child["right"][z] = Nil)
  <2>1. y = Minimum(t, t.child["right"][z])
    BY <1>3 DEF Detached
  <2>2. t.child["right"][z] \in M
    BY <1>1, <1>3 DEF Shape, Linked
  <2>3. Leftmost(t, M, D, t.child["right"][z], y)
    BY <2>1, <2>2, MinimumIs
  <2>4. y \in M /\ t.child["left"][y] = Nil
    BY <2>3 DEF Leftmost
  <2> QED
    BY <1>1, <2>2, <2>3, <2>4 DEF Heir
<1> QED
  BY <1>2, <1>3

\* The successor's size suits z's place.
LEMMA SuccessorSuits ==
  ASSUME NEW t, NEW M, NEW D, Shape(t, M, D), NEW z \in M, NEW y \in M, y # z,
         t.child["right"][z] \in M, Leftmost(t, M, D, t.child["right"][z], y),
         NEW r, r.size = t.size, NEW E,
         \A n \in M, q \in Side : E[r.child[q][n]] = D[t.child[q][n]] \ {y}
  PROVE  Suits(r, M \ {y}, E, z, y)
<1> DEFINE w == t.child["right"][z]
<1>1. /\ Linked(t, M) /\ Hanging(t, M, D) /\ Sorted(t, M, D) /\ t \in Tree /\ M \subseteq Node
      /\ "right" \in Side /\ "left" \in Side /\ \A q \in Side : q = "left" \/ q = "right"
      /\ \A n \in Node : D[n] \subseteq M
  BY DEF Shape, Linked, Node, Side, Hanging
<1>2. y \in D[w] /\ \A i \in D[w] : t.size[y] <= t.size[i]
  BY DEF Leftmost
<1>3. \A i \in M : t.size[i] \in Nat
  BY <1>1 DEF Tree
<1>4. \A q \in Side, n \in M : t.child[q][n] \in M \union {Nil} /\ t.child[q][n] \in Node
  BY <1>1 DEF Linked, Tree
<1>5. ASSUME NEW q \in Side, NEW m \in E[r.child[q][z]] PROVE Before(r, q, m, y)
  <2>1. m \in D[t.child[q][z]] /\ m \in M
    BY <1>1, <1>4, <1>5
  <2>2. CASE q = "right"
    BY <1>2, <2>1, <2>2 DEF Before
  <2>3. CASE q = "left"
    <3>1. Before(t, "left", m, z) /\ Before(t, "right", y, z)
      BY <1>1, <1>2, <2>1, <2>3 DEF Sorted
    <3>2. t.size[m] <= t.size[z] /\ t.size[z] <= t.size[y]
      BY <3>1 DEF Before
    <3>3. t.size[m] <= t.size[y]
      BY <1>3, <2>1, <3>2
    <3> QED
      BY <2>3, <3>3 DEF Before
  <2> QED
    BY <1>1, <2>2, <2>3
<1>6. ASSUME NEW q \in Side, NEW n \in M \ {y, z}, z \in E[r.child[q][n]] PROVE Before(r, q, y, n)
  <2>1. z \in D[t.child[q][n]] /\ t.child[q][n] \in M
    <3>1. D[Nil] = {}
      BY <1>1 DEF Hanging
    <3> QED
      BY <1>4, <1>6, <3>1
  <2>2. D[z] \subseteq D[t.child[q][n]]
    BY <1>1, <2>1, Below
  <2>3. y \in D[z]
    BY <1>1, <1>2, Hangs
  <2>4. Before(t, q, y, n)
    BY <1>1, <2>2, <2>3 DEF Sorted
  <2> QED
    BY <2>4 DEF Before
<1> QED
  BY <1>5, <1>6 DEF Suits

\* A balanced search tree does not depend on the words of a block that is not in it.
LEMMA ForgetKeeps ==
  ASSUME NEW t, NEW M, Sound(t, M), NEW z \in Nodes \ M
  PROVE  Sound(Forget(t, z), M)
<1> DEFINE lt == "left"
           rt == "right"
           ta == PutChild(t, lt, z, Nil)
           tb == PutChild(ta, rt, z, Nil)
           tc == PutParent(tb, z, Nil)
           td == PutHeight(tc, z, 0)
           r == PutSize(td, z, 0)
<1>1. Forget(t, z) = r
  BY DEF Forget, PutChild, PutParent, PutHeight, PutSize
<1>2. lt \in Side /\ rt \in Side
  BY DEF Side
<1>3. PICK D : Shape(t, M, D)
  BY DEF Sound
<1>4. Heights(t, M, Nil, 0)
  BY DEF Sound
<1>5. /\ t \in Tree /\ Nil \in Node /\ z \in Node /\ z # Nil /\ Nil \notin M /\ M \subseteq Node /\ z \notin M
      /\ Linked(t, M) /\ Hanging(t, M, D) /\ Sorted(t, M, D)
  BY <1>3, AvlAssumption DEF Shape, Linked, Node
<1>6. lt \in Side
  BY <1>2
<1>7. rt \in Side
  BY <1>2
<1>8. z \in Node
  BY <1>5
<1>9. Nil \in Node
  BY <1>5
<1>10. t \in Tree
  BY <1>5
<1>11. ta = PutChild(t, lt, z, Nil) /\ tb = PutChild(ta, rt, z, Nil)
  OBVIOUS
<1> HIDE DEF lt, rt, ta, tb
<1>12. /\ ta \in Tree /\ ta.root = t.root /\ ta.parent = t.parent
       /\ ta.height = t.height /\ ta.size = t.size /\ Relinked(t, ta, lt, z, Nil)
  BY <1>6, <1>8, <1>9, <1>10, <1>11, SetChild
<1>13. /\ tb \in Tree /\ tb.root = t.root /\ tb.parent = t.parent
       /\ tb.height = t.height /\ tb.size = t.size /\ Relinked(ta, tb, rt, z, Nil)
  BY <1>7, <1>8, <1>9, <1>11, <1>12, SetChild
<1>14. \A q \in Side, n \in Node \ {z} : tb.child[q][n] = t.child[q][n]
  BY <1>12, <1>13 DEF Relinked
<1>15. /\ tc \in Tree /\ tc.root = t.root /\ tc.child = tb.child /\ tc.parent = [t.parent EXCEPT ![z] = Nil]
       /\ tc.height = t.height /\ tc.size = t.size
  BY <1>8, <1>9, <1>13, SetParent
<1> HIDE DEF tc
<1>16. /\ td \in Tree /\ td.root = t.root /\ td.child = tb.child /\ td.parent = [t.parent EXCEPT ![z] = Nil]
       /\ td.height = [t.height EXCEPT ![z] = 0] /\ td.size = t.size
  BY <1>8, <1>15, SetHeight
<1> HIDE DEF td
<1>17. /\ r \in Tree /\ r.root = t.root /\ r.child = tb.child /\ r.parent = [t.parent EXCEPT ![z] = Nil]
       /\ r.height = [t.height EXCEPT ![z] = 0] /\ r.size = [t.size EXCEPT ![z] = 0]
  BY <1>8, <1>16, SetSize
<1> HIDE DEF r
<1>18. \A n \in Node \ {z} : /\ r.parent[n] = t.parent[n] /\ r.height[n] = t.height[n] /\ r.size[n] = t.size[n]
                             /\ \A q \in Side : r.child[q][n] = t.child[q][n]
  <2>1. t.parent \in [Node -> Node] /\ t.height \in [Node -> Nat] /\ t.size \in [Node -> Nat]
    BY <1>10 DEF Tree
  <2> QED
    BY <1>14, <1>17, <2>1
<1>19. Linked(r, M)
  <2>1. t.root \in Node \ {z} /\ Nil \in Node \ {z} /\ M \subseteq Node \ {z}
    BY <1>5 DEF Linked
  <2>2. \A q \in Side, n \in M : t.child[q][n] \in M \union {Nil} /\ t.child[q][n] \in Node \ {z}
    BY <1>5, <2>1 DEF Linked
  <2> QED
    BY <1>5, <1>17, <1>18, <2>1, <2>2 DEF Linked
<1>20. Hanging(r, M, D)
  <2>1. \A q \in Side, n \in M : r.child[q][n] = t.child[q][n] /\ r.child[Other(q)][n] = t.child[Other(q)][n]
    BY <1>5, <1>18, Sides
  <2>2. D \in [Node -> SUBSET M] /\ D[Nil] = {} /\ D[r.root] = M
    BY <1>5, <1>17 DEF Hanging
  <2>3. ASSUME NEW q \in Side, NEW n \in M
        PROVE  /\ D[n] = {n} \union D[r.child[q][n]] \union D[r.child[Other(q)][n]]
               /\ n \notin D[r.child[q][n]]
               /\ D[r.child[q][n]] \intersect D[r.child[Other(q)][n]] = {}
    <3>1. r.child[q][n] = t.child[q][n] /\ r.child[Other(q)][n] = t.child[Other(q)][n]
      BY <2>1
    <3> QED
      BY <1>5, <3>1 DEF Hanging
  <2> QED
    BY <2>2, <2>3 DEF Hanging
<1>21. Sorted(r, M, D)
  <2>1. \A q \in Side, n \in M : r.child[q][n] = t.child[q][n] /\ t.child[q][n] \in Node
    BY <1>5, <1>18 DEF Tree
  <2>2. \A n \in Node : D[n] \subseteq M
    BY <1>5 DEF Hanging
  <2>3. \A m \in M, n \in M, q \in Side : Before(t, q, m, n) => Before(r, q, m, n)
    BY <1>5, <1>18 DEF Before
  <2> QED
    BY <1>5, <2>1, <2>2, <2>3 DEF Sorted
<1>22. Heights(r, M, Nil, 0)
  <2>1. r.height[Nil] = 0
    BY <1>4, <1>5, <1>18 DEF Heights
  <2>2. ASSUME NEW n \in M \ {Nil}, NEW q \in Side
        PROVE  Level(r.height[n], Told(r, Nil, 0, r.child[q][n]), Told(r, Nil, 0, r.child[Other(q)][n]))
    <3>1. n \in M /\ Other(q) \in Side
      BY Sides
    <3>2. t.child[q][n] \in M \union {Nil} /\ t.child[Other(q)][n] \in M \union {Nil}
      BY <1>5, <3>1 DEF Linked
    <3>3. r.child[q][n] = t.child[q][n] /\ r.child[Other(q)][n] = t.child[Other(q)][n] /\ r.height[n] = t.height[n]
      BY <1>5, <1>18, <3>1
    <3>4. \A c \in M \union {Nil} : Told(r, Nil, 0, c) = Told(t, Nil, 0, c)
      BY <1>5, <1>18 DEF Told
    <3>5. Level(t.height[n], Told(t, Nil, 0, t.child[q][n]), Told(t, Nil, 0, t.child[Other(q)][n]))
      BY <1>4 DEF Heights
    <3> QED
      BY <3>2, <3>3, <3>4, <3>5
  <2> QED
    BY <2>1, <2>2 DEF Heights
<1> QED
  BY <1>1, <1>19, <1>20, <1>21, <1>22 DEF Sound, Shape

\* avl_delete, and the client's use of the block.
LEMMA DeleteKeeps ==
  ASSUME NEW t, NEW M, Sound(t, M), NEW z \in M
  PROVE  Sound(Forget(AvlDelete(t, z), z), M \ {z})
<1> DEFINE y == Detached(t, z)
           x == Heir(t, y)
           t1 == Transplant(t, y, x)
           start == t1.parent[x]
<1>1. PICK D : Shape(t, M, D)
  BY DEF Sound
<1>2. Heights(t, M, Nil, 0)
  BY DEF Sound
<1>3. AvlDelete(t, z) = IF y = z THEN RebalanceUpwards(t1, start)
                        ELSE RebalanceUpwards(Replace(t1, z, y), IF start = z THEN y ELSE start)
  BY DEF AvlDelete
<1>4. /\ y \in M
      /\ y # z => t.child["right"][z] \in M /\ Leftmost(t, M, D, t.child["right"][z], y)
  BY <1>1, DetachedIs
<1>5. PICK a \in Side : t.child[a][y] = Nil /\ x = t.child[Other(a)][y]
  BY <1>1, DetachedIs
<1> HIDE DEF y, x
<1>6. /\ Linked(t, M) /\ Hanging(t, M, D) /\ t \in Tree /\ M \subseteq Nodes /\ x \in Node /\ z \in Nodes
  <2>1. Linked(t, M) /\ Hanging(t, M, D) /\ t \in Tree /\ M \subseteq Nodes
    BY <1>1 DEF Shape, Linked
  <2>2. Other(a) \in Side /\ y \in Node
    BY <1>4, <2>1, Sides DEF Node
  <2> QED
    BY <1>5, <2>1, <2>2 DEF Tree
<1>7. Transplanted(t, t1, M, y, x)
  <2>1. Placed(t, M, y)
    BY <1>4, <1>6, EachPlaced
  <2> QED
    BY <1>4, <1>6, <2>1, TransplantIs
<1> DEFINE E == Pruned(D, y)
           N == M \ {y}
<1> HIDE DEF t1
<1>8. /\ Shape(t1, N, E) /\ t1.size = t.size
      /\ start \in N \union {Nil} /\ Heights(t1, N, start, t1.height[start])
      /\ \A n \in M, q \in Side : E[t1.child[q][n]] = D[t.child[q][n]] \ {y}
  <2>1. E = Pruned(D, y) /\ Shape(t, M, D) /\ Heights(t, M, Nil, 0) /\ y \in M /\ a \in Side
        /\ t.child[a][y] = Nil /\ x = t.child[Other(a)][y] /\ Transplanted(t, t1, M, y, x)
    BY <1>1, <1>2, <1>4, <1>5, <1>7
  <2> HIDE DEF E
  <2>2. DetachDone(t, M, D, y, t1, x, E)
    BY <2>1, DetachKeeps
  <2> QED
    BY <2>2 DEF DetachDone
<1> HIDE DEF E, start
<1>9. CASE y = z
  <2>1. AvlDelete(t, z) = RebalanceUpwards(t1, start) /\ N = M \ {z} /\ z \in Nodes \ (M \ {z})
    BY <1>3, <1>6, <1>9
  <2> HIDE DEF N
  <2>2. Rebuilt(t1, N, RebalanceUpwards(t1, start))
    BY <1>8, RebalanceUpwardsKeeps
  <2>3. Sound(AvlDelete(t, z), M \ {z})
    BY <2>1, <2>2 DEF Rebuilt, Sound
  <2> QED
    BY <2>1, <2>3, ForgetKeeps
<1>10. CASE y # z
  <2> DEFINE r == Replace(t1, z, y)
             v == Instead(start, z, y)
             P == (N \ {z}) \union {y}
             F == Renamed(E, z, y)
  <2>1. /\ AvlDelete(t, z) = RebalanceUpwards(r, v) /\ P = M \ {z} /\ z \in Nodes \ (M \ {z})
        /\ z \in N /\ y \in Nodes \ N
    BY <1>3, <1>4, <1>6, <1>10 DEF Instead
  <2>2. Suits(t1, N, E, z, y)
    BY <1>1, <1>4, <1>8, <1>10, SuccessorSuits
  <2>3. Replaced(t1, r, N, z, y)
    <3> HIDE DEF N
    <3>1. Linked(t1, N) /\ Hanging(t1, N, E)
      BY <1>8 DEF Shape
    <3> QED
      BY <2>1, <3>1, ReplaceIs
  <2> HIDE DEF r, N
  <2>4. \A f, p, w : f = Renamed(E, z, y) /\ p = (N \ {z}) \union {y} /\ w = Instead(start, z, y) =>
          Shape(r, p, f) /\ w \in p \union {Nil} /\ Heights(r, p, w, t1.height[start])
    BY <1>8, <2>1, <2>2, <2>3, ReplaceKeeps
  <2>5. Shape(r, P, F) /\ v \in P \union {Nil} /\ Heights(r, P, v, t1.height[start])
    BY <2>4
  <2> HIDE DEF P, F, v
  <2>6. Rebuilt(r, P, RebalanceUpwards(r, v))
    BY <2>5, RebalanceUpwardsKeeps
  <2>7. Sound(AvlDelete(t, z), M \ {z})
    BY <2>1, <2>6 DEF Rebuilt, Sound
  <2> QED
    BY <2>1, <2>7, ForgetKeeps
<1> QED
  BY <1>9, <1>10
-----------------------------------------------------------------------------
(* Searching.                                                              *)

\* b is a node of the least size that is enough for s, or Nil when there is none.
BestFit(t, M, s, b) ==
  LET fits == {n \in M : t.size[n] >= s}
  IN IF fits = {} THEN b = Nil ELSE b \in fits /\ \A n \in fits : t.size[b] <= t.size[n]

\* avl_find_best_fit.
LEMMA FindBestFitIs ==
  ASSUME NEW t, NEW M, NEW D, Shape(t, M, D), NEW s \in Nat
  PROVE  BestFit(t, M, s, AvlFindBestFit(t, s))
<1> DEFINE A == [node : Node, best : Node]
           turn == [r \in A |-> IF r.node = Nil THEN r
                                ELSE IF t.size[r.node] >= s
                                THEN [node |-> t.child["left"][r.node], best |-> r.node]
                                ELSE [r EXCEPT !.node = t.child["right"][r.node]]]
           start == [node |-> t.root, best |-> Nil]
           Looking(k, c, b) ==
             /\ c \in M \union {Nil} /\ b \in M \union {Nil}
             /\ b # Nil => t.size[b] >= s /\ \A m \in D[c] : t.size[m] <= t.size[b]
             /\ \A n \in M : t.size[n] >= s => n \in D[c] \/ (b # Nil /\ t.size[b] <= t.size[n])
             /\ c # Nil => Cardinality(D[c]) + k <= Cardinality(Nodes)
           I == {i \in Nat \X A : Looking(i[1], i[2].node, i[2].best)}
           last == Turns(turn, start)
<1>1. AvlFindBestFit(t, s) = last.best
  BY DEF AvlFindBestFit
<1>2. /\ Linked(t, M) /\ Hanging(t, M, D) /\ Sorted(t, M, D) /\ Nil \notin M /\ M \subseteq Node
      /\ t \in Tree /\ Nil \in Node /\ Cardinality(Nodes) \in Nat
      /\ "left" \in Side /\ "right" \in Side /\ Other("left") = "right"
  BY AvlAssumption, FS_CardinalityType DEF Shape, Linked, Node, Side, Other
<1>3. turn \in [A -> A] /\ start \in A
  BY <1>2 DEF Tree
<1>4. /\ \A n \in Node : t.size[n] \in Nat /\ D[n] \subseteq M
      /\ D[Nil] = {} /\ D[t.root] = M /\ t.root \in M \union {Nil}
  BY <1>2 DEF Tree, Hanging, Linked
<1>5. ASSUME NEW c \in M
      PROVE  LET l == t.child["left"][c]
                 g == t.child["right"][c]
             IN /\ l \in M \union {Nil} /\ g \in M \union {Nil} /\ D[c] = {c} \union D[l] \union D[g]
                /\ \A m \in D[l] : t.size[m] <= t.size[c]
                /\ \A m \in D[g] : t.size[c] <= t.size[m]
                /\ Cardinality(D[l]) < Cardinality(D[c]) /\ Cardinality(D[g]) < Cardinality(D[c])
                /\ Cardinality(D[l]) \in Nat /\ Cardinality(D[g]) \in Nat /\ Cardinality(D[c]) \in Nat
                /\ Cardinality(D[c]) <= Cardinality(Nodes)
  <2> DEFINE l == t.child["left"][c]
             g == t.child["right"][c]
  <2>1. l \in M \union {Nil} /\ g \in M \union {Nil} /\ D[c] = {c} \union D[l] \union D[g]
    BY <1>2 DEF Linked, Hanging
  <2>2. /\ \A m \in D[l] : Before(t, "left", m, c)
        /\ \A m \in D[g] : Before(t, "right", m, c)
    BY <1>2 DEF Sorted
  <2>3. Cardinality(D[l]) < Cardinality(D[c]) /\ Cardinality(D[g]) < Cardinality(D[c])
    BY <1>2, Smaller
  <2>4. /\ Cardinality(D[l]) \in Nat /\ Cardinality(D[g]) \in Nat /\ Cardinality(D[c]) \in Nat
        /\ Cardinality(D[c]) <= Cardinality(Nodes)
    BY <1>2, <2>1, Smaller
  <2> QED
    BY <2>1, <2>2, <2>3, <2>4 DEF Before
<1>6. <<0, start>> \in I
  <2>1. t.root # Nil => Cardinality(D[t.root]) + 0 <= Cardinality(Nodes)
    BY <1>4, <1>5
  <2>2. start.node = t.root /\ start.best = Nil
    OBVIOUS
  <2>3. Looking(0, t.root, Nil)
    BY <1>4, <2>1
  <2> HIDE DEF Looking, A, start
  <2> QED
    BY <1>3, <2>2, <2>3
<1>7. ASSUME NEW k \in Nat, NEW r \in A, <<k, r>> \in I PROVE <<k + 1, turn[r]>> \in I
  <2> DEFINE c == r.node
             b == r.best
  <2>1. Looking(k, c, b)
    BY <1>7
  <2>2. k + 1 \in Nat /\ turn[r] \in A
    BY <1>3
  <2>3. CASE c = Nil
    <3>1. turn[r] = r
      BY <2>3
    <3>2. Looking(k + 1, c, b)
      BY <2>1, <2>3
    <3> HIDE DEF Looking, turn
    <3> QED
      BY <2>2, <3>1, <3>2
  <2>4. CASE c # Nil /\ t.size[c] >= s
    <3> DEFINE l == t.child["left"][c]
               g == t.child["right"][c]
    <3>1. turn[r] = [node |-> l, best |-> c]
      BY <2>4
    <3>2. turn[r].node = l /\ turn[r].best = c /\ c \in M
      BY <2>1, <2>4, <3>1
    <3>3. /\ l \in M \union {Nil} /\ D[c] = {c} \union D[l] \union D[g]
          /\ \A m \in D[l] : t.size[m] <= t.size[c]
          /\ \A m \in D[g] : t.size[c] <= t.size[m]
          /\ Cardinality(D[l]) < Cardinality(D[c])
          /\ Cardinality(D[l]) \in Nat /\ Cardinality(D[c]) \in Nat
      BY <1>5, <3>2
    <3> HIDE DEF l, g
    <3>4. ASSUME NEW n \in M, t.size[n] >= s PROVE n \in D[l] \/ t.size[c] <= t.size[n]
      <4>1. t.size[n] \in Nat /\ t.size[c] \in Nat /\ (b # Nil => t.size[b] \in Nat)
        BY <1>2, <1>4, <2>1, <3>2
      <4>2. CASE n \in D[c]
        BY <3>3, <4>1, <4>2
      <4>3. CASE n \notin D[c]
        <5>1. b # Nil /\ t.size[b] <= t.size[n] /\ t.size[c] <= t.size[b]
          BY <2>1, <3>3, <3>4, <4>3
        <5> QED
          BY <4>1, <5>1
      <4> QED
        BY <4>2, <4>3
    <3>5. Cardinality(D[l]) + (k + 1) <= Cardinality(Nodes)
      <4>1. Cardinality(D[c]) + k <= Cardinality(Nodes)
        BY <2>1, <2>4
      <4> QED
        BY <1>2, <3>3, <4>1
    <3>6. Looking(k + 1, l, c)
      BY <1>2, <2>4, <3>2, <3>3, <3>4, <3>5
    <3> HIDE DEF Looking, turn
    <3> QED
      BY <2>2, <3>2, <3>6
  <2>5. CASE c # Nil /\ ~(t.size[c] >= s)
    <3> DEFINE l == t.child["left"][c]
               g == t.child["right"][c]
    <3>1. turn[r] = [node |-> g, best |-> b]
      BY <2>5
    <3>2. turn[r].node = g /\ turn[r].best = b /\ c \in M
      BY <2>1, <2>5, <3>1
    <3>3. /\ g \in M \union {Nil} /\ l \in M \union {Nil} /\ D[c] = {c} \union D[l] \union D[g]
          /\ \A m \in D[l] : t.size[m] <= t.size[c]
          /\ Cardinality(D[g]) < Cardinality(D[c])
          /\ Cardinality(D[g]) \in Nat /\ Cardinality(D[c]) \in Nat
      BY <1>5, <3>2
    <3> HIDE DEF l, g
    <3>4. ASSUME NEW n \in M, t.size[n] >= s PROVE n \in D[g] \/ (b # Nil /\ t.size[b] <= t.size[n])
      <4>1. t.size[n] \in Nat /\ t.size[c] \in Nat
        BY <1>2, <1>4, <3>2
      <4>2. n # c /\ n \notin D[l]
        BY <2>5, <3>3, <3>4, <4>1
      <4> QED
        BY <2>1, <3>3, <3>4, <4>2
    <3>5. Cardinality(D[g]) + (k + 1) <= Cardinality(Nodes)
      <4>1. Cardinality(D[c]) + k <= Cardinality(Nodes)
        BY <2>1, <2>5
      <4> QED
        BY <1>2, <3>3, <4>1
    <3>6. b # Nil => \A m \in D[g] : t.size[m] <= t.size[b]
      BY <2>1, <3>3
    <3>7. Looking(k + 1, g, b)
      BY <2>1, <3>3, <3>4, <3>5, <3>6
    <3> HIDE DEF Looking, turn
    <3> QED
      BY <2>2, <3>2, <3>7
  <2> QED
    BY <2>3, <2>4, <2>5
<1> HIDE DEF turn, A, start
<1>8. <<Cardinality(Nodes), last>> \in I
  <2> HIDE DEF I
  <2> QED
    BY <1>3, <1>6, <1>7, TurnsKeep
<1>9. Looking(Cardinality(Nodes), last.node, last.best)
  BY <1>8
<1> HIDE DEF last
<1>10. last.node = Nil
  <2> SUFFICES ASSUME last.node # Nil PROVE FALSE
    OBVIOUS
  <2>1. last.node \in M /\ Cardinality(D[last.node]) + Cardinality(Nodes) <= Cardinality(Nodes)
    BY <1>9
  <2>2. /\ Cardinality(D[t.child["left"][last.node]]) < Cardinality(D[last.node])
        /\ Cardinality(D[t.child["left"][last.node]]) \in Nat /\ Cardinality(D[last.node]) \in Nat
    BY <1>5, <2>1
  <2> QED
    BY <1>2, <2>1, <2>2
<1>11. \A n \in M : t.size[n] >= s => last.best # Nil /\ t.size[last.best] <= t.size[n]
  BY <1>4, <1>9, <1>10
<1>12. last.best # Nil => last.best \in M /\ t.size[last.best] >= s
  BY <1>9
<1> HIDE DEF Looking, I
<1> QED
  BY <1>1, <1>11, <1>12 DEF BestFit
-----------------------------------------------------------------------------
(* The nodes in order.                                                     *)

\* w is the nodes S, each once, by size.
IsWalk(t, w, S) ==
  /\ w \in Seq(Node) /\ Len(w) = Cardinality(S)
  /\ {w[i] : i \in 1 .. Len(w)} = S
  /\ \A i, j \in 1 .. Len(w) : i < j => t.size[w[i]] <= t.size[w[j]]

\* w is a, then n, then b.
Threaded(a, n, b, w) ==
  /\ w \in Seq(Node) /\ Len(w) = Len(a) + 1 + Len(b)
  /\ \A i \in 1 .. Len(a) : w[i] = a[i]
  /\ w[Len(a) + 1] = n
  /\ \A i \in 1 .. Len(b) : w[Len(a) + 1 + i] = b[i]

\* The entries of three sequences, the second of one entry, one after the other.
LEMMA Joined ==
  ASSUME NEW a \in Seq(Node), NEW b \in Seq(Node), NEW n \in Node, NEW w, w = a \o <<n>> \o b
  PROVE  Threaded(a, n, b, w)
<1> DEFINE f == a \o <<n>>
<1>1. /\ f \in Seq(Node) /\ Len(f) = Len(a) + 1 /\ \A i \in 1 .. Len(a) : f[i] = a[i]
      /\ f[Len(a) + 1] = n
  OBVIOUS
<1>2. w = f \o b
  OBVIOUS
<1> HIDE DEF f
<1>3. /\ w \in Seq(Node) /\ Len(w) = Len(f) + Len(b) /\ \A i \in 1 .. Len(f) : w[i] = f[i]
      /\ \A i \in 1 .. Len(b) : w[Len(f) + i] = b[i]
  BY <1>1, <1>2
<1>4. Len(a) \in Nat /\ Len(b) \in Nat
  OBVIOUS
<1> QED
  BY <1>1, <1>3, <1>4 DEF Threaded

\* The walk of a node's left side, the node and the walk of its right side are its walk.
LEMMA WalkJoined ==
  ASSUME NEW t \in Tree, NEW A \in SUBSET Nodes, NEW B \in SUBSET Nodes, NEW n \in Nodes,
         n \notin A, n \notin B, A \intersect B = {},
         \A m \in A : t.size[m] <= t.size[n], \A m \in B : t.size[n] <= t.size[m],
         NEW a, IsWalk(t, a, A), NEW b, IsWalk(t, b, B), NEW w, w = a \o <<n>> \o b,
         NEW S, S = {n} \union A \union B
  PROVE  IsWalk(t, w, S)
<1>1. n \in Node /\ A \subseteq Node /\ B \subseteq Node /\ \A m \in Node : t.size[m] \in Nat
  BY DEF Node, Tree
<1>2. /\ a \in Seq(Node) /\ Len(a) = Cardinality(A) /\ {a[i] : i \in 1 .. Len(a)} = A
      /\ b \in Seq(Node) /\ Len(b) = Cardinality(B) /\ {b[i] : i \in 1 .. Len(b)} = B
  BY DEF IsWalk
<1>3. /\ \A i, j \in 1 .. Len(a) : i < j => t.size[a[i]] <= t.size[a[j]]
      /\ \A i, j \in 1 .. Len(b) : i < j => t.size[b[i]] <= t.size[b[j]]
  BY DEF IsWalk
<1>4. /\ w \in Seq(Node) /\ Len(w) = Len(a) + 1 + Len(b)
      /\ \A i \in 1 .. Len(a) : w[i] = a[i]
      /\ w[Len(a) + 1] = n
      /\ \A i \in 1 .. Len(b) : w[Len(a) + 1 + i] = b[i]
  <2>1. Threaded(a, n, b, w)
    BY <1>1, <1>2, Joined, Zenon
  <2> QED
    BY <2>1 DEF Threaded
<1> DEFINE la == Len(a)
           lb == Len(b)
<1>5. la \in Nat /\ lb \in Nat
  BY <1>2
<1>6. Cardinality(S) = la + 1 + lb
  <2>1. IsFiniteSet(A) /\ IsFiniteSet(B)
    BY AvlAssumption, FS_Subset
  <2>2. A \intersect B = {} /\ Cardinality(A \intersect B) = 0
    BY FS_EmptySet
  <2>3. IsFiniteSet(A \union B) /\ Cardinality(A \union B) = la + lb - 0
    BY <1>2, <2>1, <2>2, FS_Union
  <2>4. n \notin A \union B
    OBVIOUS
  <2>5. Cardinality((A \union B) \union {n}) = Cardinality(A \union B) + 1
    BY <2>3, <2>4, FS_AddElement
  <2>6. S = (A \union B) \union {n}
    OBVIOUS
  <2> HIDE DEF la, lb
  <2>7. Cardinality(S) = Cardinality(A \union B) + 1
    BY <2>5, <2>6, Zenon
  <2> DEFINE c == Cardinality(A \union B)
  <2>8. c = la + lb - 0 /\ Cardinality(S) = c + 1
    BY <2>3, <2>7
  <2> HIDE DEF c
  <2> QED
    BY <1>5, <2>8
<1>7. /\ \A i \in 1 .. la : a[i] \in A /\ a[i] \in Node
      /\ \A i \in 1 .. lb : b[i] \in B /\ b[i] \in Node
  BY <1>1, <1>2
<1> DEFINE Where(i) == \/ i \in 1 .. la /\ w[i] = a[i]
                       \/ i = la + 1 /\ w[i] = n
                       \/ \E k \in 1 .. lb : i = la + 1 + k /\ w[i] = b[k]
<1>8. ASSUME NEW i \in 1 .. Len(w) PROVE Where(i)
  <2>1. Len(w) = la + 1 + lb
    BY <1>4
  <2>2. CASE i <= la
    BY <1>4, <1>5, <2>1, <2>2
  <2>3. CASE i = la + 1
    BY <1>4, <2>3
  <2>4. CASE i > la + 1
    <3> DEFINE k == i - (la + 1)
    <3>1. k \in 1 .. lb /\ i = la + 1 + k
      BY <1>5, <2>1, <2>4
    <3> HIDE DEF k
    <3>2. w[i] = b[k]
      BY <1>4, <3>1
    <3> QED
      BY <3>1, <3>2
  <2> QED
    BY <1>5, <2>1, <2>2, <2>3, <2>4
<1>9. {w[i] : i \in 1 .. Len(w)} = S
  <2>1. ASSUME NEW i \in 1 .. Len(w) PROVE w[i] \in S
    BY <1>7, <1>8
  <2>2. ASSUME NEW m \in S PROVE \E i \in 1 .. Len(w) : w[i] = m
    <3>1. CASE m = n
      <4>1. la + 1 \in 1 .. Len(w)
        BY <1>4, <1>5
      <4> QED
        BY <1>4, <3>1, <4>1
    <3>2. CASE m \in A
      <4>1. PICK i \in 1 .. la : a[i] = m
        BY <1>2, <3>2
      <4>2. i \in 1 .. Len(w)
        BY <1>4, <1>5
      <4> QED
        BY <1>4, <4>1, <4>2
    <3>3. CASE m \in B
      <4>1. PICK i \in 1 .. lb : b[i] = m
        BY <1>2, <3>3
      <4>2. la + 1 + i \in 1 .. Len(w)
        BY <1>4, <1>5
      <4> QED
        BY <1>4, <4>1, <4>2
    <3> QED
      BY <3>1, <3>2, <3>3
  <2> QED
    BY <2>1, <2>2
<1>10. ASSUME NEW i \in 1 .. Len(w), NEW j \in 1 .. Len(w), i < j PROVE t.size[w[i]] <= t.size[w[j]]
  <2>1. Where(i) /\ Where(j) /\ i \in Int /\ j \in Int
    <3>1. Where(i) /\ Where(j)
      BY <1>8
    <3>2. i \in Int /\ j \in Int
      OBVIOUS
    <3> QED
      BY <3>1, <3>2
  <2>2. ASSUME NEW x \in A, NEW y \in B PROVE t.size[x] <= t.size[y]
    <3>1. t.size[x] <= t.size[n] /\ t.size[n] <= t.size[y]
      OBVIOUS
    <3>2. t.size[x] \in Nat /\ t.size[n] \in Nat /\ t.size[y] \in Nat
      BY <1>1
    <3> QED
      BY <3>1, <3>2
  <2>3. CASE i \in 1 .. la /\ w[i] = a[i]
    <3>1. CASE j \in 1 .. la /\ w[j] = a[j]
      BY <1>3, <1>10, <2>3, <3>1
    <3>2. CASE j = la + 1 /\ w[j] = n
      BY <1>7, <2>3, <3>2
    <3>3. CASE \E k \in 1 .. lb : j = la + 1 + k /\ w[j] = b[k]
      BY <1>7, <2>2, <2>3, <3>3
    <3> QED
      BY <2>1, <3>1, <3>2, <3>3
  <2>4. CASE i = la + 1 /\ w[i] = n
    <3>1. ~(j \in 1 .. la) /\ j # la + 1
      BY <1>5, <1>10, <2>1, <2>4
    <3>2. PICK k \in 1 .. lb : j = la + 1 + k /\ w[j] = b[k]
      BY <2>1, <3>1
    <3> QED
      BY <1>7, <2>4, <3>2
  <2>5. CASE \E k \in 1 .. lb : i = la + 1 + k /\ w[i] = b[k]
    <3>1. PICK k \in 1 .. lb : i = la + 1 + k /\ w[i] = b[k]
      BY <2>5
    <3>2. ~(j \in 1 .. la) /\ j # la + 1
      BY <1>5, <1>10, <2>1, <3>1
    <3>3. PICK l \in 1 .. lb : j = la + 1 + l /\ w[j] = b[l]
      BY <2>1, <3>2
    <3>4. k < l
      BY <1>5, <1>10, <3>1, <3>3
    <3> QED
      BY <1>3, <3>1, <3>3, <3>4
  <2> QED
    BY <2>1, <2>3, <2>4, <2>5
<1>11. Len(w) = Cardinality(S)
  BY <1>4, <1>6
<1> HIDE DEF Where, la, lb
<1> QED
  BY <1>4, <1>9, <1>10, <1>11 DEF IsWalk
\* InOrder gives the nodes of a search tree in order.
LEMMA InOrderIs ==
  ASSUME NEW t, NEW M, NEW D, Shape(t, M, D)
  PROVE  IsWalk(t, InOrder(t)[t.root], M)
<1> DEFINE W == [Node -> Seq(Node)]
           lc(n) == t.child["left"][n]
           rc(n) == t.child["right"][n]
           turn == [walk \in W |-> [n \in Node |-> IF n = Nil THEN <<>>
                                                   ELSE walk[lc(n)] \o <<n>> \o walk[rc(n)]]]
           start == [n \in Node |-> <<>>]
           Done(k, walk) == \A n \in M \union {Nil} : Cardinality(D[n]) <= k => IsWalk(t, walk[n], D[n])
           I == {i \in Nat \X W : Done(i[1], i[2])}
           last == Turns(turn, start)
<1>1. InOrder(t) = last
  BY DEF InOrder
<1>2. /\ Linked(t, M) /\ Hanging(t, M, D) /\ Sorted(t, M, D) /\ Nil \notin M /\ M \subseteq Node /\ M \subseteq Nodes
      /\ t \in Tree /\ Nil \in Node /\ Cardinality(Nodes) \in Nat
      /\ "left" \in Side /\ "right" \in Side /\ Other("left") = "right" /\ t.root \in M \union {Nil}
  BY AvlAssumption, FS_CardinalityType DEF Shape, Linked, Node, Side, Other
<1>3. \A n \in Node : lc(n) \in Node /\ rc(n) \in Node
  BY <1>2 DEF Tree
<1> HIDE DEF lc, rc
<1>4. turn \in [W -> W] /\ start \in W
  <2>1. ASSUME NEW walk \in W, NEW n \in Node
        PROVE  (IF n = Nil THEN <<>> ELSE walk[lc(n)] \o <<n>> \o walk[rc(n)]) \in Seq(Node)
    <3>1. walk[lc(n)] \in Seq(Node) /\ walk[rc(n)] \in Seq(Node) /\ <<n>> \in Seq(Node)
      BY <1>3
    <3> HIDE DEF W
    <3> QED
      BY <3>1
  <2>2. \A walk \in W : [n \in Node |-> IF n = Nil THEN <<>>
                                        ELSE walk[lc(n)] \o <<n>> \o walk[rc(n)]] \in W
    BY <2>1
  <2>3. start \in W
    OBVIOUS
  <2> HIDE DEF W
  <2> QED
    BY <2>2, <2>3
<1>5. \A n \in M \union {Nil} : IsFiniteSet(D[n]) /\ Cardinality(D[n]) \in Nat /\ D[n] \in SUBSET Nodes
  <2>1. \A n \in M \union {Nil} : n \in Node /\ D[n] \in SUBSET Nodes
    BY <1>2 DEF Hanging
  <2>2. \A n \in Node : IsFiniteSet(D[n]) /\ Cardinality(D[n]) \in Nat
    BY <1>2, Smaller
  <2> QED
    BY <2>1, <2>2
<1>6. D[Nil] = {} /\ D[t.root] = M
  BY <1>2 DEF Hanging
<1>7. IsWalk(t, <<>>, {})
  BY FS_EmptySet DEF IsWalk
<1>8. <<0, start>> \in I
  <2>1. ASSUME NEW n \in M \union {Nil}, Cardinality(D[n]) <= 0 PROVE IsWalk(t, start[n], D[n])
    <3>1. D[n] = {}
      <4>1. Cardinality(D[n]) = 0
        BY <1>5, <2>1
      <4> QED
        BY <1>5, <4>1, FS_EmptySet
    <3>2. start[n] = <<>>
      BY <1>2
    <3> QED
      BY <1>7, <3>1, <3>2
  <2>2. Done(0, start)
    BY <2>1
  <2> HIDE DEF Done, start, W
  <2> QED
    BY <1>4, <2>2
<1>9. ASSUME NEW k \in Nat, NEW walk \in W, <<k, walk>> \in I PROVE <<k + 1, turn[walk]>> \in I
  <2>1. Done(k, walk)
    BY <1>9
  <2>2. k + 1 \in Nat /\ turn[walk] \in W
    BY <1>4
  <2>3. \A n \in Node : turn[walk][n] = IF n = Nil THEN <<>> ELSE walk[lc(n)] \o <<n>> \o walk[rc(n)]
    OBVIOUS
  <2> HIDE DEF W, turn
  <2>4. ASSUME NEW n \in M, Cardinality(D[n]) <= k + 1 PROVE IsWalk(t, turn[walk][n], D[n])
    <3> DEFINE l == lc(n)
               r == rc(n)
    <3>1. /\ l \in M \union {Nil} /\ r \in M \union {Nil}
          /\ D[n] = {n} \union D[l] \union D[r] /\ n \notin D[l] /\ n \notin D[r]
          /\ D[l] \intersect D[r] = {}
      <4>1. \A q \in Side : /\ D[n] = {n} \union D[t.child[q][n]] \union D[t.child[Other(q)][n]]
                            /\ n \notin D[t.child[q][n]]
                            /\ D[t.child[q][n]] \intersect D[t.child[Other(q)][n]] = {}
                            /\ t.child[q][n] \in M \union {Nil}
        BY <1>2 DEF Hanging, Linked
      <4> QED
        BY <1>2, <4>1 DEF lc, rc
    <3>2. /\ \A m \in D[l] : Before(t, "left", m, n)
          /\ \A m \in D[r] : Before(t, "right", m, n)
      BY <1>2 DEF Sorted, lc, rc
    <3>3. Cardinality(D[l]) < Cardinality(D[n]) /\ Cardinality(D[r]) < Cardinality(D[n])
      BY <1>2, Smaller DEF lc, rc
    <3> HIDE DEF l, r
    <3>4. Cardinality(D[l]) <= k /\ Cardinality(D[r]) <= k
      <4>1. Cardinality(D[l]) \in Nat /\ Cardinality(D[r]) \in Nat /\ Cardinality(D[n]) \in Nat
        BY <1>5, <3>1
      <4> DEFINE cl == Cardinality(D[l])
                 cr == Cardinality(D[r])
                 cn == Cardinality(D[n])
      <4>2. cl \in Nat /\ cr \in Nat /\ cn \in Nat /\ cl < cn /\ cr < cn /\ cn <= k + 1
        BY <2>4, <3>3, <4>1
      <4> HIDE DEF cl, cr, cn
      <4>3. cl <= k /\ cr <= k
        BY <4>2
      <4> QED
        BY <4>3 DEF cl, cr
    <3>5. IsWalk(t, walk[l], D[l]) /\ IsWalk(t, walk[r], D[r])
      BY <2>1, <3>1, <3>4
    <3>6. turn[walk][n] = walk[l] \o <<n>> \o walk[r]
      BY <1>2, <2>3 DEF l, r
    <3>7. /\ \A m \in D[l] : t.size[m] <= t.size[n]
          /\ \A m \in D[r] : t.size[n] <= t.size[m]
      BY <3>2 DEF Before
    <3>8. D[l] \in SUBSET Nodes /\ D[r] \in SUBSET Nodes /\ n \in Nodes
      BY <1>2, <1>5, <3>1
    <3> DEFINE A == D[l]
               B == D[r]
               a == walk[l]
               b == walk[r]
               w == turn[walk][n]
               S == D[n]
    <3>9. /\ A \in SUBSET Nodes /\ B \in SUBSET Nodes /\ n \notin A /\ n \notin B /\ A \intersect B = {}
          /\ (\A m \in A : t.size[m] <= t.size[n]) /\ (\A m \in B : t.size[n] <= t.size[m])
          /\ IsWalk(t, a, A) /\ IsWalk(t, b, B) /\ w = a \o <<n>> \o b /\ S = {n} \union A \union B
      BY <3>1, <3>5, <3>6, <3>7, <3>8
    <3> HIDE DEF A, B, a, b, w, S
    <3>10. IsWalk(t, w, S)
      BY <1>2, <3>8, <3>9, WalkJoined, Zenon
    <3> QED
      BY <3>10 DEF w, S
  <2>5. IsWalk(t, turn[walk][Nil], D[Nil])
    BY <1>2, <1>6, <1>7, <2>3
  <2>6. Done(k + 1, turn[walk])
    BY <2>4, <2>5
  <2> HIDE DEF Done
  <2> QED
    BY <2>2, <2>6
<1> HIDE DEF turn, W, start
<1>10. <<Cardinality(Nodes), last>> \in I
  <2> HIDE DEF I
  <2> QED
    BY <1>4, <1>8, <1>9, TurnsKeep
<1>11. Done(Cardinality(Nodes), last)
  BY <1>10
<1>12. Cardinality(D[t.root]) <= Cardinality(Nodes)
  BY <1>2, Smaller
<1> HIDE DEF last
<1> QED
  BY <1>1, <1>2, <1>6, <1>11, <1>12

-----------------------------------------------------------------------------
(* The tree in use.                                                        *)

\* An empty tree is balanced.
LEMMA InitIsSound == Sound(AvlInit, {})
<1> DEFINE t == AvlInit
           D == [n \in Node |-> {}]
<1>1. /\ t \in Tree /\ t.root = Nil /\ t.height[Nil] = 0 /\ t.size[Nil] = 0
      /\ \A q \in Side : t.child[q][Nil] = Nil
  BY DEF AvlInit, Tree, Blank, Node
<1> HIDE DEF t
<1>2. Linked(t, {})
  BY <1>1 DEF Linked
<1>3. Hanging(t, {}, D)
  BY <1>1 DEF Hanging, Node
<1>4. Sorted(t, {}, D)
  BY DEF Sorted
<1>5. Heights(t, {}, Nil, 0)
  BY <1>1 DEF Heights
<1> HIDE DEF D
<1>6. Sound(t, {})
  BY <1>2, <1>3, <1>4, <1>5 DEF Sound, Shape
<1> QED
  BY <1>6 DEF t

\* The inductive invariant: the members are the nodes of a balanced search tree.
IInv == members \subseteq Nodes /\ Sound(tree, members)

\* The initial state has it.
LEMMA InitIInv == Init => IInv
BY InitIsSound DEF Init, IInv

\* A search in a balanced tree gives the best fit.
LEMMA FindBestFitFits ==
  ASSUME IInv, NEW s \in Wanted
  PROVE  BestFit(tree, members, s, AvlFindBestFit(tree, s))
<1>1. s \in Nat
  BY AvlAssumption
<1>2. PICK D : Shape(tree, members, D)
  BY DEF IInv, Sound
<1> QED
  BY <1>1, <1>2, FindBestFitIs

\* Every step keeps it.
LEMMA NextIInv == IInv /\ [Next]_vars => IInv'
<1> SUFFICES ASSUME IInv, [Next]_vars PROVE IInv'
  OBVIOUS
<1>1. ASSUME NEW n \in Nodes, NEW s \in SizesOf[n], Insert(n, s) PROVE IInv'
  <2>1. s \in Nat /\ n \in Nodes \ members
    BY <1>1, AvlAssumption DEF Insert
  <2>2. Sound(AvlInsert(tree, n, s), members \union {n})
    BY <2>1, InsertKeeps DEF IInv
  <2> QED
    BY <1>1, <2>2 DEF Insert, IInv
<1>2. ASSUME NEW n \in members PROVE Sound(Forget(AvlDelete(tree, n), n), members \ {n})
  BY DeleteKeeps DEF IInv
<1>3. ASSUME NEW n \in Nodes, Delete(n) PROVE IInv'
  BY <1>2, <1>3 DEF Delete, IInv
<1>4. ASSUME NEW s \in Wanted, FindFit(s) PROVE IInv'
  <2> DEFINE best == AvlFindBestFit(tree, s)
  <2>1. best # Nil /\ BestFit(tree, members, s, best)
    BY <1>4, FindBestFitFits DEF FindFit
  <2>2. tree' = Forget(AvlDelete(tree, best), best) /\ members' = members \ {best}
    BY <1>4 DEF FindFit
  <2> HIDE DEF best
  <2>3. best \in members
    BY <2>1 DEF BestFit
  <2> QED
    BY <1>2, <2>2, <2>3 DEF IInv
<1>5. CASE Reset
  BY <1>5, InitIsSound DEF Reset, IInv
<1>6. CASE UNCHANGED vars
  BY <1>6 DEF vars, IInv
<1> QED
  BY <1>1, <1>3, <1>4, <1>5, <1>6 DEF Next

\* The members are always the nodes of a balanced search tree.
THEOREM AlwaysIInv == Spec => []IInv
BY InitIInv, NextIInv, PTL DEF Spec

\* Fields always hold what they may, and nothing in the tree points out of it.
THEOREM TypeCorrect == Spec => []TypeOK
<1>1. IInv => TypeOK
  <2> SUFFICES ASSUME IInv PROVE TypeOK
    OBVIOUS
  <2>1. PICK D : Shape(tree, members, D)
    BY DEF IInv, Sound
  <2>2. Linked(tree, members) /\ Hanging(tree, members, D) /\ Nil \notin members
    BY <2>1, AvlAssumption DEF Shape, Linked
  <2>3. ASSUME NEW n \in members PROVE tree.parent[n] \in members \union {Nil}
    BY <2>2, EachPlaced DEF Placed
  <2> QED
    BY <2>2, <2>3 DEF TypeOK, Linked
<1> QED
  BY <1>1, AlwaysIInv, PTL

\* The walk is always the members, by size.
LEMMA WalkIs == IInv => IsWalk(tree, Walk, members)
<1> SUFFICES ASSUME IInv PROVE IsWalk(tree, Walk, members)
  OBVIOUS
<1>1. PICK D : Shape(tree, members, D)
  BY DEF IInv, Sound
<1>2. IsWalk(tree, InOrder(tree)[tree.root], members)
  BY <1>1, InOrderIs
<1> QED
  BY <1>2 DEF Walk

\* The tree always holds the blocks inserted and not deleted since, each once, and
\* every child knows its parent.
THEOREM AlwaysHoldsMembers == Spec => []HoldsMembers
<1>1. IInv => HoldsMembers
  <2> SUFFICES ASSUME IInv PROVE HoldsMembers
    OBVIOUS
  <2>1. IsWalk(tree, Walk, members)
    BY WalkIs
  <2>2. Linked(tree, members)
    BY DEF IInv, Sound, Shape
  <2>3. Len(Walk) = Cardinality(members) /\ {Walk[i] : i \in DOMAIN Walk} = members
    <3> DEFINE w == Walk
    <3> HIDE DEF w
    <3>1. IsWalk(tree, w, members)
      BY <2>1 DEF w
    <3>2. DOMAIN w = 1 .. Len(w) /\ Len(w) = Cardinality(members) /\ {w[i] : i \in 1 .. Len(w)} = members
      BY <3>1 DEF IsWalk
    <3> QED
      BY <3>2 DEF w
  <2> QED
    BY <2>2, <2>3 DEF HoldsMembers, Linked
<1> QED
  BY <1>1, AlwaysIInv, PTL

\* In order the sizes never decrease.
THEOREM AlwaysOrdered == Spec => []Ordered
<1>1. IInv => Ordered
  <2> SUFFICES ASSUME IInv PROVE Ordered
    OBVIOUS
  <2> DEFINE w == Walk
  <2>1. IsWalk(tree, w, members)
    BY WalkIs
  <2> HIDE DEF w
  <2>2. ASSUME NEW i \in 1 .. Len(w) - 1 PROVE tree.size[w[i]] <= tree.size[w[i + 1]]
    <3>1. Len(w) \in Nat
      BY <2>1 DEF IsWalk
    <3>2. i \in 1 .. Len(w) /\ i + 1 \in 1 .. Len(w) /\ i < i + 1
      BY <3>1
    <3> QED
      BY <2>1, <3>2 DEF IsWalk
  <2> QED
    BY <2>2 DEF Ordered, w
<1> QED
  BY <1>1, AlwaysIInv, PTL

\* Recorded heights are always the real ones, and no node leans by more than one.
THEOREM AlwaysBalanced == Spec => []Balanced
<1>1. IInv => Balanced
  <2> SUFFICES ASSUME IInv PROVE Balanced
    OBVIOUS
  <2>1. PICK D : Shape(tree, members, D)
    BY DEF IInv, Sound
  <2>2. Heights(tree, members, Nil, 0) /\ tree \in Tree /\ members \subseteq Node
    BY <2>1 DEF IInv, Sound, Shape, Linked, Node
  <2>3. "left" \in Side /\ "right" \in Side /\ Other("left") = "right"
    BY DEF Side, Other
  <2>4. ASSUME NEW n \in members
        PROVE  /\ tree.height[n] = 1 + Larger(tree.height[tree.child["left"][n]],
                                              tree.height[tree.child["right"][n]])
               /\ BalanceFactor(tree, n) \in {-1, 0, 1}
    <3>1. Level(tree.height[n], tree.height[tree.child["left"][n]], tree.height[tree.child["right"][n]])
      BY <2>1, <2>2, <2>3, AllLevel
    <3>2. BalanceFactor(tree, n) \in -1 .. 1
      BY <3>1 DEF Level, BalanceFactor
    <3> QED
      BY <3>1, <3>2 DEF Level
  <2> QED
    BY <2>2, <2>4 DEF Balanced, Heights
<1> QED
  BY <1>1, AlwaysIInv, PTL

\* A search always returns a block of the least sufficient size, if there is one.
THEOREM AlwaysFindsBestFit == Spec => []FindsBestFit
<1>1. IInv => FindsBestFit
  BY FindBestFitFits DEF FindsBestFit, BestFit
<1> QED
  BY <1>1, AlwaysIInv, PTL
=============================================================================
