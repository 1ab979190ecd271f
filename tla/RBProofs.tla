------------------------------ MODULE RBProofs ------------------------------
(***************************************************************************)
(* The red-black tree keeps its rules and is an ordered multiset, and the  *)
(* menu over it loses no node, whatever the cells and the keys: proofs of  *)
(* what RBClient and RBDriver promise.                                     *)
(***************************************************************************)
EXTENDS RBClient, RBDriver, TreeLemmas

(* What the assignments do, field by field.                                *)

\* One assignment to a field.
PutRoot(t, v) == [t EXCEPT !.root = v]
PutChild(t, q, n, v) == [t EXCEPT !.child[q][n] = v]
PutParent(t, n, v) == [t EXCEPT !.parent[n] = v]
PutKey(t, n, v) == [t EXCEPT !.key[n] = v]

\* r has t's links but for one, which is v.
Relinked(t, r, s, n, v) ==
  \A q \in Side, m \in Node : r.child[q][m] = IF q = s /\ m = n THEN v ELSE t.child[q][m]

\* r has t's nodes: their colours and keys.
SameNodes(t, r) == r \in Tree /\ r.color = t.color /\ r.key = t.key

\* The fields after an assignment.
LEMMA SetRoot ==
  ASSUME NEW t \in Tree, NEW v \in Node \union {Null}, NEW r, r = PutRoot(t, v)
  PROVE  SameNodes(t, r) /\ r.root = v /\ r.child = t.child /\ r.parent = t.parent
BY DEF PutRoot, Tree, SameNodes

\* The same.
LEMMA SetParent ==
  ASSUME NEW t \in Tree, NEW n \in Node, NEW v \in Node, NEW r, r = PutParent(t, n, v)
  PROVE  /\ SameNodes(t, r) /\ r.root = t.root /\ r.child = t.child
         /\ r.parent = [t.parent EXCEPT ![n] = v]
<1>1. r = [t EXCEPT !.parent = [t.parent EXCEPT ![n] = v]] /\ [t.parent EXCEPT ![n] = v] \in [Node -> Node]
  BY DEF PutParent, Tree
<1> QED
  BY <1>1 DEF Tree, SameNodes

\* The same.
LEMMA SetColor ==
  ASSUME NEW t \in Tree, NEW n \in Node, NEW c \in Colors, NEW r, r = Paint(t, n, c)
  PROVE  /\ r \in Tree /\ r.root = t.root /\ r.child = t.child /\ r.parent = t.parent
         /\ r.color = [t.color EXCEPT ![n] = c] /\ r.key = t.key
<1>1. r = [t EXCEPT !.color = [t.color EXCEPT ![n] = c]] /\ [t.color EXCEPT ![n] = c] \in [Node -> Colors]
  BY DEF Paint, Tree
<1> QED
  BY <1>1 DEF Tree

\* The same.
LEMMA SetKey ==
  ASSUME NEW t \in Tree, NEW n \in Node, NEW v \in Int, NEW r, r = PutKey(t, n, v)
  PROVE  /\ r \in Tree /\ r.root = t.root /\ r.child = t.child /\ r.parent = t.parent
         /\ r.color = t.color /\ r.key = [t.key EXCEPT ![n] = v]
<1>1. r = [t EXCEPT !.key = [t.key EXCEPT ![n] = v]] /\ [t.key EXCEPT ![n] = v] \in [Node -> Int]
  BY DEF PutKey, Tree
<1> QED
  BY <1>1 DEF Tree

\* The same.
LEMMA SetChild ==
  ASSUME NEW t \in Tree, NEW s \in Side, NEW n \in Node, NEW v \in Node, NEW r,
         r = PutChild(t, s, n, v)
  PROVE  /\ SameNodes(t, r) /\ r.root = t.root /\ r.parent = t.parent
         /\ Relinked(t, r, s, n, v)
<1> DEFINE below == [t.child[s] EXCEPT ![n] = v]
           child == [t.child EXCEPT ![s] = below]
<1>1. t.child \in [Side -> [Node -> Node]]
  BY DEF Tree
<1>2. below \in [Node -> Node] /\ \A m \in Node : below[m] = IF m = n THEN v ELSE t.child[s][m]
  BY <1>1
<1>3. r = [t EXCEPT !.child = child]
  BY DEF PutChild, Tree
<1> HIDE DEF below
<1>4. child \in [Side -> [Node -> Node]]
  BY <1>1, <1>2
<1>5. \A q \in Side, m \in Node : child[q][m] = IF q = s /\ m = n THEN v ELSE t.child[q][m]
  BY <1>1, <1>2
<1> HIDE DEF child
<1> QED
  BY ONLY <1>3, <1>4, <1>5 DEF Tree, Relinked, SameNodes

\* rbtree_transplant does what Transplanted says.
LEMMA TransplantIs ==
  ASSUME NEW t \in Tree, t.root \in Node, NEW M, M \subseteq Nodes, NEW u \in M, NEW v \in Node, Placed(t, M, u),
         NEW r, r = Transplant(t, u, v)
  PROVE  SameNodes(t, r) /\ Transplanted(t, r, M, u, v)
<1> DEFINE up == t.parent[u]
<1>1. up \in Node /\ up \in M \union {Nil} /\ M \subseteq Node /\ Nil \notin M /\ u \in Node
  BY TreesAssumption DEF Placed, Tree, Node
<1>2. CASE up = Nil
  <2> DEFINE t1 == PutRoot(t, v)
  <2>1. r = PutParent(t1, v, up)
    BY <1>2 DEF Transplant, PutRoot, PutParent
  <2>2. t.root = u /\ \A q \in Side, n \in M : t.child[q][n] # u
    BY <1>1, <1>2 DEF Placed
  <2>4. /\ SameNodes(t, t1) /\ t1.root = v
        /\ t1.parent = t.parent /\ t1.child = t.child
    BY SetRoot
  <2> HIDE DEF up, t1
  <2>3. /\ SameNodes(t, r) /\ r.root = v
        /\ r.parent = [t.parent EXCEPT ![v] = up] /\ r.child = t.child
    BY <1>1, <2>1, <2>4, SetParent DEF SameNodes
  <2> QED
    BY <2>2, <2>3 DEF up, Transplanted, Links, SameNodes, Tree
<1>3. ASSUME NEW s \in Side, up # Nil, t.child[s][up] = u,
             r = [[t EXCEPT !.child[s][up] = v] EXCEPT !.parent[v] = up]
      PROVE  SameNodes(t, r) /\ Transplanted(t, r, M, u, v)
  <2>1. t.root # u /\ up \in M
    BY <1>1, <1>3 DEF Placed
  <2>2. \A q \in Side, n \in M : t.child[q][n] = u <=> q = s /\ n = up
    BY <1>3, <2>1, Sides DEF Placed
  <2> DEFINE t1 == PutChild(t, s, up, v)
  <2>4. r = PutParent(t1, v, up)
    BY <1>3 DEF PutChild, PutParent
  <2> HIDE DEF up, Transplanted, Links, SameNodes, Tree
  <2>5. /\ SameNodes(t, t1) /\ t1.root = t.root
        /\ t1.parent = t.parent /\ Relinked(t, t1, s, up, v)
    BY <1>1, SetChild
  <2> HIDE DEF t1
  <2>3. /\ SameNodes(t, r) /\ r.root = t.root
        /\ r.parent = [t.parent EXCEPT ![v] = up]
        /\ \A q \in Side, n \in Node : r.child[q][n] = IF q = s /\ n = up THEN v ELSE t.child[q][n]
    BY <1>1, <2>4, <2>5, SetParent DEF Relinked, SameNodes
  <2> QED
    BY <1>1, <2>1, <2>2, <2>3 DEF up, Transplanted, Links, SameNodes, Tree
<1>4. CASE up # Nil
  <2>1. CASE u = t.child["left"][up]
    BY <1>3, <1>4, <2>1 DEF Transplant, Side
  <2>2. CASE u # t.child["left"][up]
    <3>1. u = t.child["right"][up] /\ "right" \in Side
      BY <1>4, <2>2 DEF Placed, Side
    <3> QED
      BY ZenonT(60), <1>3, <1>4, <2>2, <3>1 DEF Transplant
  <2> QED
    BY <2>1, <2>2
<1> QED
  BY <1>2, <1>4

\* A rotation does what Rotated says, and leaves the rest alone.
LEMMA RotateIs ==
  ASSUME NEW t \in Tree, NEW M, NEW D, Linked(t, M), Hanging(t, M, D), NEW s \in Side, NEW x \in M,
         t.child[Other(s)][x] # Nil, NEW r, r = Rotate(t, x, s)
  PROVE  SameNodes(t, r) /\ Rotated(t, r, M, s, x) /\ r.parent[Nil] = t.parent[Nil]
<1> DEFINE o == Other(s)
           y == t.child[o][x]
           mid == t.child[s][y]
           ta == PutChild(t, o, x, mid)
           tb == PutParent(ta, mid, IF mid = Nil THEN t.parent[mid] ELSE x)
           td == Transplant(tb, x, y)
           te == PutParent(td, x, y)
           tf == PutChild(te, s, y, x)
<1>1. r = tf
  BY ZenonT(60) DEF Rotate, PutChild, PutParent
<1>2. /\ t \in Tree /\ M \subseteq Nodes /\ M \subseteq Node /\ Nil \in Node /\ Nil \notin M
      /\ o \in Side /\ o # s /\ Other(o) = s /\ t.root \in Node
  BY TreesAssumption, Sides DEF Linked, Node
<1>3. y \in M /\ y # x /\ x \notin D[y] /\ t.parent[y] = x
  BY <1>2, Hangs DEF Linked, Hanging
<1>4. mid \in M \union {Nil} /\ mid # x /\ mid # y
  <2>1. mid \in M \union {Nil} /\ mid # y
    BY <1>2, <1>3, Hangs DEF Linked
  <2>2. mid # Nil => mid \in D[mid] /\ D[mid] \subseteq D[y]
    BY <1>3, <2>1, Hangs
  <2> QED
    BY <1>2, <1>3, <2>1, <2>2
<1>5. Placed(t, M, x)
  BY EachPlaced
<1>6. t.child[o][y] # x /\ \A q \in Side : t.child[q][x] # x
  BY <1>2, <1>3, <1>5, Hangs DEF Linked, Placed
<1>7. t.parent[mid] \in Node /\ t.parent[x] \in Node /\ t.parent[x] # x
  BY <1>2, <1>4, <1>5, <1>6 DEF Tree, Placed
<1> HIDE DEF o, y, mid
<1>8. SameNodes(t, ta) /\ ta.root = t.root /\ ta.parent = t.parent /\ Relinked(t, ta, o, x, mid)
  BY <1>2, <1>4, SetChild
<1> HIDE DEF ta
<1>9. /\ SameNodes(t, tb) /\ tb.root = t.root
      /\ tb.parent = [t.parent EXCEPT ![mid] = IF mid = Nil THEN t.parent[mid] ELSE x]
      /\ tb.child = ta.child
  <2>1. (IF mid = Nil THEN t.parent[mid] ELSE x) \in Node /\ mid \in Node /\ ta \in Tree
    BY <1>2, <1>4, <1>7, <1>8 DEF SameNodes
  <2> QED
    BY <1>8, <2>1, SetParent DEF SameNodes
<1>10. \A m \in Node : tb.parent[m] = IF m = mid /\ m # Nil THEN x ELSE t.parent[m]
  BY <1>2, <1>9 DEF Tree
<1> HIDE DEF tb
<1>11. tb.root = t.root /\ tb.parent[x] = t.parent[x] /\ tb \in Tree
  BY <1>2, <1>4, <1>9, <1>10 DEF SameNodes
<1>12. Placed(tb, M, x)
  <2>2. \A q \in Side, n \in M : tb.child[q][n] = x <=> t.child[q][n] = x /\ n # x
    BY <1>2, <1>4, <1>6, <1>8, <1>9 DEF Relinked
  <2>3. \A q \in Side, n \in M : t.child[q][n] = x => n # x
    BY <1>6
  <2> QED
    BY <1>2, <1>5, <1>7, <1>11, <2>2, <2>3, Sides DEF Placed
<1>13. SameNodes(tb, td) /\ Transplanted(tb, td, M, x, y)
  <2>1. y \in Node /\ M \subseteq Nodes /\ tb \in Tree
    BY <1>2, <1>3, <1>11
  <2>2. td = Transplant(tb, x, y)
    OBVIOUS
  <2> HIDE DEF td
  <2> QED
    BY <1>2, <1>11, <1>12, <2>1, <2>2, TransplantIs
<1> HIDE DEF td
<1>14. /\ SameNodes(td, te) /\ te.root = td.root /\ te.child = td.child
       /\ te.parent = [td.parent EXCEPT ![x] = y]
  <2>1. td \in Tree /\ x \in Node /\ y \in Node
    BY <1>2, <1>3, <1>13 DEF SameNodes
  <2> QED
    BY <2>1, SetParent
<1> HIDE DEF te
<1>15. SameNodes(te, tf) /\ tf.root = te.root /\ tf.parent = te.parent /\ Relinked(te, tf, s, y, x)
  <2>1. te \in Tree /\ x \in Node /\ y \in Node
    BY <1>2, <1>3, <1>14 DEF SameNodes
  <2> QED
    BY <2>1, SetChild
<1> HIDE DEF tf
<1>16. ASSUME NEW q \in Side, NEW n \in M
       PROVE  tf.child[q][n] = IF n = x THEN IF q = o THEN mid ELSE t.child[q][n]
                               ELSE IF n = y THEN IF q = s THEN x ELSE t.child[q][n]
                               ELSE IF t.child[q][n] = x THEN y ELSE t.child[q][n]
  <2>1. n \in Node /\ tf.child[q][n] = IF q = s /\ n = y THEN x ELSE td.child[q][n]
    BY <1>2, <1>14, <1>15 DEF Relinked
  <2>2. td.child[q][n] = IF tb.child[q][n] = x THEN y ELSE tb.child[q][n]
    BY <1>13 DEF Transplanted
  <2>3. tb.child[q][n] = IF q = o /\ n = x THEN mid ELSE t.child[q][n]
    BY <1>8, <1>9, <2>1 DEF Relinked
  <2>4. q = s \/ q = o
    BY Sides DEF o
  <2> QED
    BY <1>2, <1>3, <1>4, <1>6, <2>1, <2>2, <2>3, <2>4
<1>17. \A q \in Side : tf.child[q][Nil] = t.child[q][Nil]
  <2>1. \A q \in Side : tf.child[q][Nil] = te.child[q][Nil]
    BY <1>2, <1>3, <1>15 DEF Relinked
  <2>2. \A q \in Side : td.child[q][Nil] = tb.child[q][Nil]
    BY <1>2, <1>13 DEF Transplanted
  <2>3. \A q \in Side : tb.child[q][Nil] = t.child[q][Nil]
    BY <1>2, <1>8, <1>9 DEF Relinked
  <2> QED
    BY <1>14, <2>1, <2>2, <2>3
<1>18. \A n \in Node : tf.parent[n] = IF n = x THEN y ELSE IF n = y THEN t.parent[x]
                                      ELSE IF n = mid /\ n # Nil THEN x ELSE t.parent[n]
  <2>1. tb.parent \in [Node -> Node] /\ td.parent \in [Node -> Node]
    BY <1>11, <1>13 DEF SameNodes, Tree
  <2>2. \A n \in Node : td.parent[n] = IF n = y THEN t.parent[x] ELSE tb.parent[n]
    BY <1>11, <1>13, <2>1 DEF Transplanted
  <2>3. \A n \in Node : tf.parent[n] = IF n = x THEN y ELSE td.parent[n]
    BY <1>14, <1>15, <2>1
  <2> QED
    BY <1>2, <1>3, <1>10, <2>2, <2>3
<1>19. SameNodes(t, tf) /\ tf.root = IF t.root = x THEN y ELSE t.root
  BY <1>9, <1>13, <1>14, <1>15 DEF SameNodes, Transplanted
<1>20. Links(tf)
  <2>1. tf.root \in Node
    BY <1>2, <1>3, <1>19
  <2> QED
    BY <1>19, <2>1 DEF Links, SameNodes, Tree
<1>21. \A n \in M : tf.parent[n] = IF n = x THEN y ELSE IF n = y THEN t.parent[x]
                                   ELSE IF n = mid THEN x ELSE t.parent[n]
  BY <1>2, <1>18
<1>22. tf.parent[Nil] = t.parent[Nil]
  BY <1>2, <1>3, <1>18
<1>23. Rotated(t, tf, M, s, x)
  BY <1>16, <1>17, <1>19, <1>20, <1>21 DEF Rotated, o, y, mid
<1> QED
  BY <1>1, <1>19, <1>22, <1>23


-----------------------------------------------------------------------------
(* Whatever the tree, its fields keep their types, and it keeps a root.    *)

\* A tree of the right type, in use.
Rooted(t) == t \in Tree /\ t.root # Null

\* So does an assignment to a link.
LEMMA PutType ==
  ASSUME NEW t, Rooted(t), NEW n \in Node, NEW v \in Node
  PROVE  Rooted(PutParent(t, n, v)) /\ \A s \in Side : Rooted(PutChild(t, s, n, v))
<1>1. t \in Tree /\ t.root # Null
  BY DEF Rooted
<1> DEFINE r == PutParent(t, n, v)
<1>0. r = PutParent(t, n, v)
  OBVIOUS
<1> HIDE DEF r
<1>2. r \in Tree /\ r.root = t.root /\ r.parent = [t.parent EXCEPT ![n] = v]
  BY <1>0, <1>1, SetParent DEF SameNodes
<1>3. ASSUME NEW s \in Side PROVE PutChild(t, s, n, v) \in Tree /\ PutChild(t, s, n, v).root = t.root
  BY <1>1, SetChild DEF SameNodes
<1> QED
  BY <1>0, <1>1, <1>2, <1>3 DEF Rooted

\* So does rbtree_transplant.
LEMMA TransplantType ==
  ASSUME NEW t, Rooted(t), NEW u \in Node, NEW v \in Node, NEW r, r = Transplant(t, u, v)
  PROVE  Rooted(r)
<1> DEFINE up == t.parent[u]
           t1 == IF up = Nil THEN PutRoot(t, v)
                 ELSE IF u = t.child["left"][up] THEN PutChild(t, "left", up, v)
                 ELSE PutChild(t, "right", up, v)
<1>1. t \in Tree /\ up \in Node /\ "left" \in Side /\ "right" \in Side /\ v # Null
  BY NullAssumption DEF Rooted, Tree, Side
<1>2. r = PutParent(t1, v, up)
  BY DEF Transplant, PutRoot, PutChild, PutParent
<1> HIDE DEF up
<1>3. Rooted(t1)
  <2>1. CASE up = Nil
    BY <1>1, <2>1, SetRoot DEF SameNodes, Rooted
  <2>2. CASE up # Nil /\ u = t.child["left"][up]
    BY <1>1, <2>2, PutType
  <2>3. CASE up # Nil /\ u # t.child["left"][up]
    BY <1>1, <2>3, PutType
  <2> QED
    BY <2>1, <2>2, <2>3
<1> HIDE DEF t1
<1> QED
  BY <1>1, <1>2, <1>3, PutType

\* So does a rotation.
LEMMA RotateType ==
  ASSUME NEW t, Rooted(t), NEW x \in Node, NEW s \in Side, NEW r, r = Rotate(t, x, s)
  PROVE  Rooted(r)
<1> DEFINE o == Other(s)
           y == t.child[o][x]
           mid == t.child[s][y]
           ta == PutChild(t, o, x, mid)
           tb == PutParent(ta, mid, IF mid = Nil THEN t.parent[mid] ELSE x)
           td == Transplant(tb, x, y)
           te == PutParent(td, x, y)
           tf == PutChild(te, s, y, x)
<1>1. r = tf
  BY ZenonT(60) DEF Rotate, PutChild, PutParent
<1>2. t \in Tree /\ o \in Side /\ y \in Node /\ mid \in Node /\ t.parent[mid] \in Node
  BY Sides DEF Rooted, Tree
<1> HIDE DEF o, y, mid
<1>3. Rooted(ta)
  BY <1>2, PutType
<1> HIDE DEF ta
<1>4. Rooted(tb)
  <2>1. (IF mid = Nil THEN t.parent[mid] ELSE x) \in Node
    BY <1>2
  <2> QED
    BY <1>2, <1>3, <2>1, PutType
<1> HIDE DEF tb
<1>5. Rooted(td)
  BY <1>2, <1>4, TransplantType
<1> HIDE DEF td
<1>6. Rooted(te)
  BY <1>2, <1>5, PutType
<1> HIDE DEF te
<1>7. Rooted(tf)
  BY <1>2, <1>6, PutType
<1> QED
  BY <1>1, <1>7

\* So does a change of colour.
LEMMA PaintType ==
  ASSUME NEW t, Rooted(t), NEW n \in Node, NEW c \in Colors, NEW r, r = Paint(t, n, c)
  PROVE  Rooted(r)
<1>1. t \in Tree /\ t.root # Null
  BY DEF Rooted
<1>2. r \in Tree /\ r.root = t.root /\ r.color = [t.color EXCEPT ![n] = c]
  BY <1>1, SetColor
<1> QED
  BY <1>1, <1>2 DEF Rooted

\* So does a turn of insert_fix_up.
LEMMA InsertTurnType ==
  ASSUME NEW i \in Repair
  PROVE  InsertTurn(i.tree, i.at) \in Repair
<1> DEFINE t == i.tree
           c == i.at
           side == SideOf(t, t.parent[c])
           u == t.child[Other(side)][t.parent[t.parent[c]]]
<1>1. Rooted(t) /\ t \in Tree /\ c \in Node
  BY DEF Repair, Rooted
<1> HIDE DEF t, c
<1>2. /\ side \in Side /\ Other(side) \in Side /\ u \in Node /\ \A n \in Node : t.parent[n] \in Node
      /\ "red" \in Colors /\ "black" \in Colors
  <2>1. side \in Side
    BY DEF SideOf, Side
  <2> QED
    BY <1>1, <2>1, Sides DEF Tree, Colors
<1> HIDE DEF side, u
<1>3. InsertTurn(t, c) = IF t.color[u] = "red" THEN RedUncle(t, c, u) ELSE BlackUncle(t, c, side)
  BY DEF InsertTurn, side, u
<1>4. RedUncle(t, c, u) \in Repair
  <2> DEFINE p == t.parent[c]
             g == t.parent[p]
             t1 == Paint(t, g, "red")
             t2 == Paint(t1, u, "black")
             t3 == Paint(t2, p, "black")
  <2>1. p \in Node /\ g \in Node /\ RedUncle(t, c, u) = [tree |-> t3, at |-> g]
    BY <1>1, <1>2 DEF RedUncle
  <2> HIDE DEF p, g
  <2>2. Rooted(t1)
    BY <1>1, <1>2, <2>1, PaintType
  <2> HIDE DEF t1
  <2>3. Rooted(t2)
    BY <1>2, <2>2, PaintType
  <2> HIDE DEF t2
  <2>4. Rooted(t3)
    BY <1>2, <2>1, <2>3, PaintType
  <2> HIDE DEF t3
  <2> QED
    BY <2>1, <2>4 DEF Repair, Rooted
<1>5. BlackUncle(t, c, side) \in Repair
  <2> DEFINE inner == c = t.child[Other(side)][t.parent[c]]
             d == IF inner THEN t.parent[c] ELSE c
             t1 == IF inner THEN Rotate(t, d, side) ELSE t
             p == t1.parent[d]
             g == t1.parent[p]
             t2 == Paint(t1, p, "black")
             t3 == Paint(t2, g, "red")
             t4 == Rotate(t3, g, Other(side))
  <2>1. d \in Node /\ BlackUncle(t, c, side) = [tree |-> t4, at |-> d]
    BY <1>1, <1>2 DEF BlackUncle
  <2>2. Rooted(t1)
    <3>1. CASE inner
      BY <1>1, <1>2, <2>1, <3>1, RotateType
    <3>2. CASE ~inner
      BY <1>1, <3>2
    <3> QED
      BY <3>1, <3>2
  <2> HIDE DEF d, t1
  <2>3. p \in Node /\ g \in Node
    BY <2>1, <2>2 DEF Rooted, Tree
  <2> HIDE DEF p, g
  <2>4. Rooted(t2)
    BY <1>2, <2>2, <2>3, PaintType
  <2> HIDE DEF t2
  <2>5. Rooted(t3)
    BY <1>2, <2>3, <2>4, PaintType
  <2> HIDE DEF t3
  <2>6. Rooted(t4)
    BY <1>2, <2>3, <2>5, RotateType
  <2> HIDE DEF t4
  <2> QED
    BY <2>1, <2>6 DEF Repair, Rooted
<1> QED
  BY <1>3, <1>4, <1>5 DEF t, c

\* So does a turn of erase_fix_up.
LEMMA EraseTurnType ==
  ASSUME NEW i \in Repair
  PROVE  EraseTurn(i.tree, i.at) \in Repair
<1> DEFINE t == i.tree
           n == i.at
           side == SideOf(t, n)
           far == Other(side)
<1>1. Rooted(t) /\ t \in Tree /\ n \in Node
  BY DEF Repair, Rooted
<1> HIDE DEF t, n
<1>2. side \in Side /\ far \in Side /\ "red" \in Colors /\ "black" \in Colors
  <2>1. side \in Side
    BY DEF SideOf, Side
  <2> QED
    BY <2>1, Sides DEF Colors
<1> HIDE DEF side
<1>3. \A v : Rooted(v) => /\ v.root \in Node /\ \A m \in Node : v.parent[m] \in Node
                          /\ \A m \in Node, q \in Side : v.child[q][m] \in Node
                          /\ \A m \in Node : v.color[m] \in Colors
  BY DEF Rooted, Tree
<1>4. ASSUME NEW v, Rooted(v), NEW w, w = RedBrother(v, n, side) PROVE Rooted(w)
  <2> DEFINE p == v.parent[n]
             bro == v.child[far][p]
             t1 == Paint(v, bro, "black")
             t2 == Paint(t1, p, "red")
  <2>1. p \in Node /\ bro \in Node
    BY <1>1, <1>2, <1>3, <1>4
  <2>2. w = IF v.color[bro] = "red" THEN Rotate(t2, p, side) ELSE v
    BY <1>4 DEF RedBrother
  <2> HIDE DEF p, bro
  <2>3. Rooted(t1)
    BY <1>2, <1>4, <2>1, PaintType
  <2> HIDE DEF t1
  <2>4. Rooted(t2)
    BY <1>2, <2>1, <2>3, PaintType
  <2> HIDE DEF t2
  <2>5. Rooted(Rotate(t2, p, side))
    BY <1>2, <2>1, <2>4, RotateType
  <2> QED
    BY <1>4, <2>2, <2>5
<1>5. ASSUME NEW v, Rooted(v), NEW w, w = RedNephew(v, n, side) PROVE Rooted(w)
  <2> DEFINE bro == v.child[far][v.parent[n]]
             near == v.child[side][bro]
             t1 == Paint(v, near, "black")
             t2 == Paint(t1, bro, "red")
  <2>1. near \in Node /\ bro \in Node
    BY <1>1, <1>2, <1>3, <1>5
  <2>2. w = IF v.color[v.child[far][bro]] = "red" THEN v ELSE Rotate(t2, bro, far)
    BY <1>5 DEF RedNephew
  <2> HIDE DEF near, bro
  <2>3. Rooted(t1)
    BY <1>2, <1>5, <2>1, PaintType
  <2> HIDE DEF t1
  <2>4. Rooted(t2)
    BY <1>2, <2>1, <2>3, PaintType
  <2> HIDE DEF t2
  <2>5. Rooted(Rotate(t2, bro, far))
    BY <1>2, <2>1, <2>4, RotateType
  <2> QED
    BY <1>5, <2>2, <2>5
<1>6. ASSUME NEW v, Rooted(v), NEW w, w = RedFarNephew(v, n, side) PROVE Rooted(w)
  <2> DEFINE p == v.parent[n]
             bro == v.child[far][p]
             t1 == Paint(v, bro, v.color[p])
             t2 == Paint(t1, p, "black")
             up == t2.child[far][bro]
             t3 == Paint(t2, up, "black")
  <2>1. p \in Node /\ bro \in Node /\ v.color[p] \in Colors
    BY <1>1, <1>2, <1>3, <1>6
  <2>2. w = Rotate(t3, p, side)
    BY <1>6 DEF RedFarNephew
  <2> HIDE DEF p, bro
  <2>3. Rooted(t1)
    BY <1>6, <2>1, PaintType
  <2> HIDE DEF t1
  <2>4. Rooted(t2)
    BY <1>2, <2>1, <2>3, PaintType
  <2> HIDE DEF t2
  <2>5. up \in Node
    BY <1>2, <1>3, <2>1, <2>4
  <2> HIDE DEF up
  <2>6. Rooted(t3)
    BY <1>2, <2>4, <2>5, PaintType
  <2> HIDE DEF t3
  <2> QED
    BY <1>2, <2>1, <2>2, <2>6, RotateType
<1> DEFINE t1 == RedBrother(t, n, side)
           bro == t1.child[far][t1.parent[n]]
           t2 == RedNephew(t1, n, side)
           t3 == RedFarNephew(t2, n, side)
           t4 == Paint(t1, bro, "red")
<1>7. EraseTurn(t, n) = IF \A s \in Side : t1.color[t1.child[s][bro]] = "black"
                        THEN [tree |-> t4, at |-> t1.parent[n]] ELSE [tree |-> t3, at |-> t3.root]
  BY DEF EraseTurn, side
<1>8. Rooted(t1)
  BY <1>1, <1>4
<1> HIDE DEF t1, far
<1>9. t1.parent[n] \in Node /\ bro \in Node
  BY <1>1, <1>2, <1>3, <1>8
<1>10. Rooted(t2)
  BY <1>5, <1>8
<1> HIDE DEF bro, t2
<1>11. Rooted(t3)
  BY <1>6, <1>10
<1>12. Rooted(t4)
  BY <1>2, <1>8, <1>9, PaintType
<1> HIDE DEF t3, t4
<1>13. [tree |-> t4, at |-> t1.parent[n]] \in Repair /\ [tree |-> t3, at |-> t3.root] \in Repair
  BY <1>3, <1>9, <1>11, <1>12 DEF Repair, Rooted
<1> QED
  BY <1>7, <1>13 DEF t, n
-----------------------------------------------------------------------------
(* Red and black.                                                          *)

\* What a node counts for on a way down, and where one black node may be missing.
Red(t, n) == t.color[n] = "red"
Weight(t, n) == IF t.color[n] = "black" THEN 1 ELSE 0
Lack(p, a, n, q) == IF n = p /\ q = a THEN 1 ELSE 0

\* B[n] black nodes are on every way down from n, once one is counted for the link on
\* side a of p, where one may be missing. No node is missing when p is the sentinel.
Heights(t, M, B, p, a) ==
  /\ B \in [Node -> Nat] /\ B[Nil] = 0
  /\ \A n \in M, q \in Side : B[n] = Weight(t, n) + B[t.child[q][n]] + Lack(p, a, n, q)

\* No red node has a red child, unless one of them is c.
Apart(t, M, c) == \A n \in M, q \in Side :
                    Red(t, n) /\ Red(t, t.child[q][n]) => c \in {n, t.child[q][n]}

\* The rules, but for what may be wrong at the link below p and at the node c.
Coloured(t, M, B, p, a, c) ==
  /\ t \in Tree /\ ~Red(t, Nil)
  /\ Heights(t, M, B, p, a) /\ Apart(t, M, c)
  /\ Red(t, t.root) => t.root = c

\* The rules.
Kept(t, M, B) == Coloured(t, M, B, Nil, "left", Nil)

\* r has t's links.
SameLinks(t, r) == r.root = t.root /\ r.child = t.child /\ r.parent = t.parent

\* Colours do not matter to a search tree, nor to a rotation.
LEMMA Repainted ==
  ASSUME NEW t, NEW u, SameLinks(t, u), NEW M
  PROVE  /\ \A D, k : SearchTree(t, k, M, D) => SearchTree(u, k, M, D)
         /\ \A r, s, x : Rotated(u, r, M, s, x) => Rotated(t, r, M, s, x)
<1>1. Linked(t, M) => Linked(u, M)
  BY DEF Linked, Links, SameLinks
<1>2. \A D : Hanging(t, M, D) => Hanging(u, M, D)
  BY DEF Hanging, SameLinks
<1>3. \A D, k : Sorted(t, k, M, D) => Sorted(u, k, M, D)
  BY DEF Sorted, SameLinks
<1>4. \A r, s, x : Rotated(u, r, M, s, x) => Rotated(t, r, M, s, x)
  BY DEF Rotated, SameLinks
<1> QED
  BY <1>1, <1>2, <1>3, <1>4 DEF SearchTree

\* Around a rotation the nodes are all different.
LEMMA Around ==
  ASSUME NEW t, NEW M, NEW D, Linked(t, M), Hanging(t, M, D), NEW s \in Side, NEW x \in M,
         NEW y, y = t.child[Other(s)][x], y # Nil
  PROVE  /\ y \in M /\ y # x /\ t.parent[y] = x /\ t.root # y /\ x # Nil /\ Other(s) \in Side /\ Other(s) # s
         /\ t.child[s][x] \in (M \union {Nil}) \ {x, y}
         /\ t.child[s][y] \in (M \union {Nil}) \ {x, y}
         /\ t.child[Other(s)][y] \in (M \union {Nil}) \ {x, y}
         /\ \A n \in M, q \in Side : t.child[q][n] = y => n = x /\ q = Other(s)
<1> DEFINE o == Other(s)
<1>1. /\ o \in Side /\ o # s /\ Other(o) = s /\ Nil \notin M /\ M \subseteq Nodes
      /\ \A q \in Side : q = s \/ q = o
  BY TreesAssumption, Sides DEF Linked
<1>2. y \in M /\ t.parent[y] = x
  BY <1>1 DEF Linked
<1>3. y # x /\ t.child[s][x] # x /\ t.child[s][x] # y
  BY <1>1, <1>2, Hangs
<1>4. t.child[s][y] # y /\ t.child[o][y] # y
  BY <1>1, <1>2, Hangs
<1>5. \A q \in Side : t.child[q][y] # x
  <2>1. \A q \in Side : t.child[q][y] \in D[t.child[q][y]] \/ t.child[q][y] = Nil
    BY <1>2, Hangs
  <2>2. x \notin D[y]
    BY <1>1 DEF Hanging
  <2>3. \A q \in Side : D[t.child[q][y]] \subseteq D[y]
    BY <1>2, Hangs
  <2> QED
    BY <1>1, <2>1, <2>2, <2>3
<1>6. \A n \in M, q \in Side : t.child[q][n] = y => n = x /\ q = o
  BY <1>1, <1>2, <1>3 DEF Linked
<1>7. t.root # y
  BY <1>1, <1>2 DEF Linked
<1> QED
  BY <1>1, <1>2, <1>3, <1>4, <1>5, <1>6, <1>7 DEF Linked

\* With b for x's black height and x's old one for y's, the four links from x and y are
\* right after a rotation.
Level(t, r, B, s, x, y, b, p, a) ==
  /\ b = Weight(r, x) + B[t.child[s][x]] + Lack(p, a, x, s)
  /\ b = Weight(r, x) + B[t.child[s][y]] + Lack(p, a, x, Other(s))
  /\ B[x] = Weight(r, y) + b + Lack(p, a, y, s)
  /\ B[x] = Weight(r, y) + B[t.child[Other(s)][y]] + Lack(p, a, y, Other(s))

\* At the other nodes nothing changes.
Elsewhere(t, r, M, x, y, p, a, p2, a2) ==
  \A n \in M \ {x, y} : /\ r.color[n] = t.color[n]
                        /\ \A q \in Side : Lack(p, a, n, q) = Lack(p2, a2, n, q)

\* Black heights after a rotation, when they are right at the two nodes that turned.
LEMMA HeightsTurned ==
  ASSUME NEW t, NEW M, NEW D, Linked(t, M), Hanging(t, M, D), NEW s \in Side, NEW x \in M,
         NEW y, y = t.child[Other(s)][x], y # Nil, NEW r, Rotated(t, r, M, s, x),
         NEW B, NEW p, NEW a, Heights(t, M, B, p, a), NEW p2, NEW a2,
         NEW b \in Nat, NEW E, E = [B EXCEPT ![x] = b, ![y] = B[x]],
         Elsewhere(t, r, M, x, y, p, a, p2, a2),
         Level(t, r, B, s, x, y, b, p2, a2)
  PROVE  Heights(r, M, E, p2, a2)
<1> DEFINE o == Other(s)
<1>0. /\ b = Weight(r, x) + B[t.child[s][x]] + Lack(p2, a2, x, s)
      /\ b = Weight(r, x) + B[t.child[s][y]] + Lack(p2, a2, x, o)
      /\ B[x] = Weight(r, y) + b + Lack(p2, a2, y, s)
      /\ B[x] = Weight(r, y) + B[t.child[o][y]] + Lack(p2, a2, y, o)
  BY DEF Level
<1>1. /\ y \in M /\ y # x /\ x # Nil /\ o \in Side /\ o # s
      /\ t.child[s][x] \in (M \union {Nil}) \ {x, y}
      /\ t.child[s][y] \in (M \union {Nil}) \ {x, y}
      /\ t.child[o][y] \in (M \union {Nil}) \ {x, y}
      /\ \A n \in M, q \in Side : t.child[q][n] = y => n = x /\ q = o
  BY Around
<1>2. /\ B \in [Node -> Nat] /\ M \subseteq Node /\ B[Nil] = 0 /\ Nil \in Node
      /\ \A q \in Side, n \in M : t.child[q][n] \in M \union {Nil}
      /\ \A q \in Side : q = s \/ q = o
  BY Sides DEF Heights, Linked, Node
<1>3. /\ E \in [Node -> Nat] /\ E[x] = b /\ E[y] = B[x]
      /\ \A n \in Node \ {x, y} : E[n] = B[n]
  BY <1>1, <1>2
<1> HIDE DEF o
<1>4. /\ r.child[s][x] = t.child[s][x] /\ r.child[o][x] = t.child[s][y]
      /\ r.child[s][y] = x /\ r.child[o][y] = t.child[o][y]
      /\ \A q \in Side, n \in M \ {x, y} :
            r.child[q][n] = IF t.child[q][n] = x THEN y ELSE t.child[q][n]
  BY <1>1 DEF Rotated, o
<1>5. ASSUME NEW n \in M \ {x, y}, NEW q \in Side
      PROVE  E[n] = Weight(r, n) + E[r.child[q][n]] + Lack(p2, a2, n, q)
  <2>1. B[n] = Weight(t, n) + B[t.child[q][n]] + Lack(p, a, n, q)
    BY DEF Heights
  <2>2. E[r.child[q][n]] = B[t.child[q][n]]
    <3>1. CASE t.child[q][n] = x
      BY <1>3, <1>4, <3>1
    <3>2. CASE t.child[q][n] # x
      <4>1. t.child[q][n] # y /\ t.child[q][n] \in Node
        BY <1>1, <1>2
      <4> QED
        BY <1>3, <1>4, <3>2, <4>1
    <3> QED
      BY <3>1, <3>2
  <2>3. E[n] = B[n] /\ Weight(r, n) = Weight(t, n)
    BY <1>2, <1>3 DEF Weight, Elsewhere
  <2>4. Lack(p, a, n, q) = Lack(p2, a2, n, q)
    BY DEF Elsewhere
  <2> QED
    BY <2>1, <2>2, <2>3, <2>4
<1>6. E[t.child[s][x]] = B[t.child[s][x]] /\ E[t.child[s][y]] = B[t.child[s][y]]
      /\ E[t.child[o][y]] = B[t.child[o][y]]
  BY <1>1, <1>2, <1>3
<1>7. ASSUME NEW q \in Side PROVE E[x] = Weight(r, x) + E[r.child[q][x]] + Lack(p2, a2, x, q)
  <2>1. CASE q = s
    BY ZenonT(60), <1>0, <1>3, <1>4, <1>6, <2>1
  <2>2. CASE q = o
    BY ZenonT(60), <1>0, <1>3, <1>4, <1>6, <2>2
  <2> QED
    BY <1>2, <2>1, <2>2
<1>8. ASSUME NEW q \in Side PROVE E[y] = Weight(r, y) + E[r.child[q][y]] + Lack(p2, a2, y, q)
  <2>1. CASE q = s
    BY ZenonT(60), <1>0, <1>3, <1>4, <1>6, <2>1
  <2>2. CASE q = o
    BY ZenonT(60), <1>0, <1>3, <1>4, <1>6, <2>2
  <2> QED
    BY <1>2, <2>1, <2>2
<1>9. E[Nil] = 0
  BY <1>1, <1>2, <1>3, TreesAssumption DEF Linked
<1>10. \A n \in M, q \in Side : E[n] = Weight(r, n) + E[r.child[q][n]] + Lack(p2, a2, n, q)
  BY <1>5, <1>7, <1>8
<1> QED
  BY <1>3, <1>9, <1>10 DEF Heights

\* A rotation that brings a red node up and exchanges its colour with the node that
\* goes down.
Swung(t, r, M, s, x) ==
  /\ t \in Tree /\ r \in Tree /\ Rotated(t, r, M, s, x)
  /\ Red(t, t.child[Other(s)][x])
  /\ r.color = [t.color EXCEPT ![x] = "red", ![t.child[Other(s)][x]] = t.color[x]]

\* It keeps black heights.
LEMMA SwingHeights ==
  ASSUME NEW t, NEW M, NEW D, Linked(t, M), Hanging(t, M, D), NEW s \in Side, NEW x \in M,
         NEW y, y = t.child[Other(s)][x], y # Nil, NEW r, Swung(t, r, M, s, x),
         NEW B, NEW p, NEW a, Heights(t, M, B, p, a), p # y, p = x => a # Other(s),
         NEW E, E = [B EXCEPT ![x] = B[y], ![y] = B[x]]
  PROVE  Heights(r, M, E, p, a)
<1> DEFINE o == Other(s)
           mid == t.child[s][y]
           below == t.child[s][x]
           up == t.child[o][y]
<1>1. /\ y \in M /\ y # x /\ o \in Side /\ o # s /\ M \subseteq Node /\ below \in Node /\ mid \in Node
  BY Around DEF Linked, Node
<1>2. B[y] \in Nat /\ B[x] \in Nat /\ B[mid] \in Nat /\ B[below] \in Nat
  BY <1>1 DEF Heights
<1>3. Weight(t, y) = 0 /\ Weight(r, x) = 0 /\ Weight(r, y) = Weight(t, x) /\ Weight(t, x) \in Nat
  <2>1. r.color[x] = "red" /\ r.color[y] = t.color[x]
    BY <1>1 DEF Swung, Tree
  <2> QED
    BY <2>1 DEF Weight, Red, Swung
<1>4. /\ B[y] = B[mid] /\ B[y] = B[up]
      /\ B[x] = Weight(t, x) + B[y] /\ B[x] = Weight(t, x) + B[below] + Lack(p, a, x, s)
  <2>1. \A n \in M, q \in Side : B[n] = Weight(t, n) + B[t.child[q][n]] + Lack(p, a, n, q)
    BY DEF Heights
  <2>2. Lack(p, a, y, s) = 0 /\ Lack(p, a, y, o) = 0 /\ Lack(p, a, x, o) = 0
    BY DEF Lack
  <2>3. B[up] \in Nat
    BY <1>1, Around DEF Linked, Node, Heights
  <2>4. /\ B[y] = 0 + B[mid] + 0 /\ B[y] = 0 + B[up] + 0
        /\ B[x] = Weight(t, x) + B[y] + 0 /\ B[x] = Weight(t, x) + B[below] + Lack(p, a, x, s)
    BY <1>1, <1>3, <2>1, <2>2
  <2> HIDE DEF mid, below, up
  <2> QED
    BY <1>2, <1>3, <2>3, <2>4
<1>5. Lack(p, a, x, s) \in {0, 1} /\ Lack(p, a, y, s) = 0 /\ Lack(p, a, y, o) = 0 /\ Lack(p, a, x, o) = 0
  BY DEF Lack
<1>6. \A n \in M \ {x, y} : r.color[n] = t.color[n]
  BY <1>1 DEF Swung, Tree
<1>7. /\ B[y] = Weight(r, x) + B[below] + Lack(p, a, x, s)
      /\ B[y] = Weight(r, x) + B[mid] + Lack(p, a, x, o)
      /\ B[x] = Weight(r, y) + B[y] + Lack(p, a, y, s)
      /\ B[x] = Weight(r, y) + B[up] + Lack(p, a, y, o)
  <2> HIDE DEF mid, below, up, o
  <2> QED
    BY <1>2, <1>3, <1>4, <1>5
<1>8. Level(t, r, B, s, x, y, B[y], p, a)
  BY <1>7 DEF Level
<1>9. Elsewhere(t, r, M, x, y, p, a, p, a)
  BY <1>6 DEF Elsewhere
<1> DEFINE b == B[y]
<1>10. Level(t, r, B, s, x, y, b, p, a) /\ b \in Nat /\ E = [B EXCEPT ![x] = b, ![y] = B[x]] /\ Rotated(t, r, M, s, x)
  BY <1>2, <1>8 DEF Swung
<1> HIDE DEF b, o, mid, below, up
<1> QED
  BY <1>9, <1>10, HeightsTurned

\* It keeps red nodes apart, as far as the colours around allow.
LEMMA SwingApart ==
  ASSUME NEW t, NEW M, NEW D, Linked(t, M), Hanging(t, M, D), NEW s \in Side, NEW x \in M,
         NEW y, y = t.child[Other(s)][x], y # Nil, NEW r, Swung(t, r, M, s, x), ~Red(t, Nil),
         \A n \in M \ {x, y}, q \in Side : ~(Red(t, n) /\ Red(t, t.child[q][n])),
         ~Red(t, t.child[s][y]), ~Red(t, t.child[s][x]), ~Red(t, t.root),
         ~Red(t, x) \/ ~Red(t, t.child[Other(s)][y])
  PROVE  ~Red(r, Nil) /\ ~Red(r, r.root) /\ Apart(r, M, IF Red(t, x) THEN x ELSE Nil)
<1> DEFINE o == Other(s)
<1>1. /\ y \in M /\ y # x /\ x # Nil /\ o \in Side /\ o # s /\ t.root # y
      /\ t.child[s][x] \in (M \union {Nil}) \ {x, y}
      /\ t.child[s][y] \in (M \union {Nil}) \ {x, y}
      /\ t.child[o][y] \in (M \union {Nil}) \ {x, y}
      /\ \A n \in M, q \in Side : t.child[q][n] = y => n = x /\ q = o
  BY Around
<1>2. /\ M \subseteq Node /\ Nil \in Node /\ t.root \in M \union {Nil}
      /\ \A q \in Side, n \in M : t.child[q][n] \in M \union {Nil}
      /\ \A q \in Side : q = s \/ q = o
  BY Sides DEF Linked, Node
<1>3. /\ Red(r, x) /\ (Red(r, y) <=> Red(t, x))
      /\ \A n \in Node \ {x, y} : Red(r, n) <=> Red(t, n)
  <2>1. /\ r.color[x] = "red" /\ r.color[y] = t.color[x]
        /\ \A n \in Node \ {x, y} : r.color[n] = t.color[n]
    BY <1>1, <1>2 DEF Swung, Tree
  <2> QED
    BY <2>1 DEF Red
<1>4. ~Red(t, t.child[s][y]) /\ ~Red(t, t.child[s][x]) /\ (~Red(t, x) \/ ~Red(t, t.child[o][y]))
  OBVIOUS
<1> HIDE DEF o
<1>5. /\ r.child[s][x] = t.child[s][x] /\ r.child[o][x] = t.child[s][y]
      /\ r.child[s][y] = x /\ r.child[o][y] = t.child[o][y]
      /\ r.root = IF t.root = x THEN y ELSE t.root
      /\ \A q \in Side, n \in M \ {x, y} :
            r.child[q][n] = IF t.child[q][n] = x THEN y ELSE t.child[q][n]
  BY <1>1 DEF Rotated, Swung, o
<1>6. ~Red(r, Nil)
  BY <1>1, <1>2, <1>3, TreesAssumption DEF Linked
<1>7. ~Red(r, r.root)
  BY <1>1, <1>2, <1>3, <1>5
<1>8. ASSUME NEW n \in M, NEW q \in Side, Red(r, n), Red(r, r.child[q][n])
      PROVE  Red(t, x) /\ n = y /\ r.child[q][n] = x
  <2>1. CASE n = x
    BY <1>1, <1>2, <1>3, <1>4, <1>5, <1>8, <2>1
  <2>2. CASE n = y
    <3>1. CASE q = s
      BY <1>3, <1>5, <1>8, <2>2, <3>1
    <3>2. CASE q = o
      BY <1>1, <1>2, <1>3, <1>4, <1>5, <1>8, <2>2, <3>2
    <3> QED
      BY <1>2, <3>1, <3>2
  <2>3. CASE n \notin {x, y}
    <3>1. Red(t, n) /\ ~Red(t, t.child[q][n]) /\ t.child[q][n] \in Node /\ t.child[q][n] # y
      BY <1>1, <1>2, <1>3, <1>8, <2>3
    <3> QED
      BY <1>1, <1>3, <1>5, <1>8, <2>3, <3>1
  <2> QED
    BY <2>1, <2>2, <2>3
<1> QED
  BY <1>6, <1>7, <1>8 DEF Apart

\* The side a node stands on.
LEMMA SideOfIs ==
  ASSUME NEW t, NEW M, NEW D, Linked(t, M), Hanging(t, M, D), NEW n \in M, n # t.root
  PROVE  /\ t.parent[n] \in M /\ t.parent[n] # n
         /\ SideOf(t, n) \in Side /\ t.child[SideOf(t, n)][t.parent[n]] = n
         /\ t.child[Other(SideOf(t, n))][t.parent[n]] # n
         /\ \A m \in M, q \in Side : t.child[q][m] = n => m = t.parent[n] /\ q = SideOf(t, n)
<1>1. Placed(t, M, n)
  BY EachPlaced
<1>2. t.parent[n] \in M /\ n # Nil
  BY <1>1, TreesAssumption DEF Placed, Linked
<1>3. SideOf(t, n) \in Side /\ t.child[SideOf(t, n)][t.parent[n]] = n
  BY <1>1, <1>2 DEF SideOf, Placed, Side
<1>4. t.parent[n] # n /\ t.child[Other(SideOf(t, n))][t.parent[n]] # n
  BY <1>2, <1>3, Hangs
<1>5. \A m \in M, q \in Side : t.child[q][m] = n => m = t.parent[n]
  BY <1>2 DEF Linked
<1> QED
  BY <1>2, <1>3, <1>4, <1>5, Sides

\* A red node under which a black one is missing, or with a red parent and no other link
\* wrong, repairs the tree when it gets black; so does a black root, which stays so.
LEMMA PaintedBlack ==
  ASSUME NEW t, NEW k, NEW M, NEW D, SearchTree(t, k, M, D), NEW B, NEW p, NEW a \in Side, NEW c,
         Coloured(t, M, B, p, a, c), c \in M \union {Nil},
         \/ p = Nil /\ c = t.root
         \/ p \in M /\ t.child[a][p] = c /\ Red(t, c),
         NEW r, r = Paint(t, c, "black")
  PROVE  SameLinks(t, r) /\ r \in Tree /\ r.key = t.key /\ \E E : Kept(r, M, E)
<1>1. /\ t \in Tree /\ ~Red(t, Nil) /\ Heights(t, M, B, p, a) /\ Apart(t, M, c)
      /\ Red(t, t.root) => t.root = c
  BY DEF Coloured
<1>2. /\ Linked(t, M) /\ Hanging(t, M, D) /\ M \subseteq Node /\ Nil \notin M /\ Nil \in Node
      /\ c \in Node /\ t.root \in M \union {Nil}
      /\ \A q \in Side, n \in M : t.child[q][n] \in M \union {Nil}
  BY TreesAssumption DEF SearchTree, Linked, Node
<1>3. /\ r \in Tree /\ SameLinks(t, r) /\ r.key = t.key /\ r.color = [t.color EXCEPT ![c] = "black"]
  <2>1. "black" \in Colors
    BY DEF Colors
  <2> QED
    BY <1>1, <1>2, <2>1, SetColor DEF SameLinks
<1>4. t.color \in [Node -> Colors]
  BY <1>1 DEF Tree
<1>5. \A n \in Node : Red(r, n) <=> Red(t, n) /\ n # c
  BY <1>3, <1>4 DEF Red
<1>6. ~Red(r, Nil) /\ ~Red(r, r.root) /\ Apart(r, M, Nil)
  <2>1. r.root = t.root /\ r.child = t.child
    BY <1>3 DEF SameLinks
  <2>2. \A n \in M, q \in Side : ~(Red(r, n) /\ Red(r, r.child[q][n]))
    BY <1>1, <1>2, <1>5, <2>1 DEF Apart
  <2> QED
    BY <1>1, <1>2, <1>5, <2>1, <2>2 DEF Apart
<1>7. \E E : Heights(r, M, E, Nil, "left")
  <2>1. CASE ~Red(t, c)
    <3>1. p = Nil /\ r.color = t.color
      BY <1>2, <1>3, <1>4, <2>1 DEF Red, Colors
    <3>2. Heights(r, M, B, Nil, "left")
      BY <1>1, <1>2, <1>3, <3>1 DEF Heights, Weight, Lack, SameLinks
    <3> QED
      BY <3>2
  <2>2. CASE Red(t, c)
    <3> DEFINE E == [B EXCEPT ![c] = B[c] + 1]
    <3>1. c \in M /\ c # Nil
      BY <1>1, <1>2, <2>2
    <3>2. \A n \in M, q \in Side : t.child[q][n] = c <=> p \in M /\ n = p /\ q = a
      <4>1. CASE p = Nil /\ c = t.root
        <5>1. t.parent[c] = Nil
          BY <1>2, <3>1, <4>1 DEF Linked
        <5> QED
          BY <1>2, <3>1, <4>1, <5>1 DEF Linked
      <4>2. CASE p \in M /\ t.child[a][p] = c
        <5>1. c # t.root
          BY <1>2, <3>1, <4>2 DEF Linked
        <5>2. \A m \in M, q \in Side : t.child[q][m] = c => m = t.parent[c] /\ q = SideOf(t, c)
          BY <1>2, <3>1, <5>1, SideOfIs
        <5> QED
          BY <4>2, <5>2
      <4> QED
        BY <4>1, <4>2
    <3>3. E \in [Node -> Nat] /\ E[c] = B[c] + 1 /\ \A n \in Node \ {c} : E[n] = B[n]
      BY <1>1, <1>2 DEF Heights
    <3>4. ASSUME NEW n \in M, NEW q \in Side PROVE E[n] = Weight(r, n) + E[r.child[q][n]] + Lack(Nil, "left", n, q)
      <4>1. B[n] = Weight(t, n) + B[t.child[q][n]] + Lack(p, a, n, q)
        BY <1>1 DEF Heights
      <4>2. t.child[q][n] \in Node /\ n \in Node /\ r.child = t.child /\ n # Nil
        BY <1>2, <1>3 DEF SameLinks
      <4>3. Weight(r, n) = IF n = c THEN Weight(t, n) + 1 ELSE Weight(t, n)
        BY <1>3, <1>4, <2>2, <4>2 DEF Weight, Red
      <4>4. Lack(p, a, n, q) = IF t.child[q][n] = c THEN 1 ELSE 0
        BY <3>2, <4>2, <1>2 DEF Lack
      <4>5. E[t.child[q][n]] = IF t.child[q][n] = c THEN B[t.child[q][n]] + 1 ELSE B[t.child[q][n]]
        BY <3>3, <4>2
      <4>6. E[n] = IF n = c THEN B[n] + 1 ELSE B[n]
        BY <3>3, <4>2
      <4>7. /\ Weight(t, n) \in Nat /\ B[n] \in Nat /\ B[t.child[q][n]] \in Nat
            /\ Lack(Nil, "left", n, q) = 0
        BY <1>1, <4>2 DEF Heights, Weight, Lack
      <4>8. ~(n = c /\ t.child[q][n] = c)
        BY <1>2, <3>1, Hangs
      <4> HIDE DEF E
      <4> QED
        BY <4>1, <4>2, <4>3, <4>4, <4>5, <4>6, <4>7, <4>8
    <3>5. E[Nil] = 0
      BY <1>1, <1>2, <3>1, <3>3 DEF Heights
    <3> HIDE DEF E
    <3>6. Heights(r, M, E, Nil, "left")
      BY <3>3, <3>4, <3>5 DEF Heights
    <3> QED
      BY <3>6
  <2> QED
    BY <2>1, <2>2
<1> QED
  BY <1>3, <1>6, <1>7 DEF Kept, Coloured

-----------------------------------------------------------------------------
(* Repairing after an insertion.                                           *)

\* What holds in the loop of insert_fix_up: only the red node c may be wrong, as a child
\* or as the root.
Fixing(t, k, M, D, B, c) ==
  /\ SearchTree(t, k, M, D) /\ Coloured(t, M, B, Nil, "left", c)
  /\ c \in M /\ Red(t, c) /\ \A q \in Side : ~Red(t, t.child[q][c])

\* Where the loop ends.
Fixed(t, c) == c = t.root \/ t.color[t.parent[c]] = "black"

\* The family of a node whose parent is red: p is red and the grandparent g black.
Family(t, M, c, p, g, side, a) ==
  /\ p = t.parent[c] /\ g = t.parent[p] /\ a \in Side
  /\ p \in M /\ g \in M /\ side \in Side /\ t.child[side][g] = p /\ t.child[a][p] = c
  /\ c # p /\ g # p /\ c # g
  /\ Red(t, p) /\ ~Red(t, g) /\ ~Red(t, t.root)

\* There is one while the loop goes on.
LEMMA FamilyIs ==
  ASSUME NEW t, NEW k, NEW M, NEW D, NEW B, NEW c, Fixing(t, k, M, D, B, c), ~Fixed(t, c)
  PROVE  \E a : Family(t, M, c, t.parent[c], t.parent[t.parent[c]], SideOf(t, t.parent[c]), a)
<1> DEFINE p == t.parent[c]
           g == t.parent[p]
           side == SideOf(t, p)
           a == SideOf(t, c)
<1>1. /\ Linked(t, M) /\ Hanging(t, M, D) /\ c \in M /\ Apart(t, M, c) /\ t \in Tree
      /\ Red(t, c) /\ (Red(t, t.root) => t.root = c) /\ c # t.root
      /\ \A q \in Side : ~Red(t, t.child[q][c])
  BY DEF Fixing, SearchTree, Coloured, Fixed
<1>2. p \in M /\ p # c /\ a \in Side /\ t.child[a][p] = c
  BY <1>1, SideOfIs
<1>3. Red(t, p)
  <2>1. t.color[p] \in Colors
    BY <1>1, <1>2 DEF Tree, Linked, Node
  <2> QED
    BY <2>1 DEF Fixed, Red, Colors
<1>4. ~Red(t, t.root) /\ p # t.root
  BY <1>1, <1>2, <1>3
<1>5. g \in M /\ g # p /\ side \in Side /\ t.child[side][g] = p
  BY <1>1, <1>2, <1>4, SideOfIs
<1>6. c # g
  BY <1>1, <1>3, <1>5
<1>7. ~Red(t, g)
  BY <1>1, <1>2, <1>3, <1>5, <1>6 DEF Apart
<1> QED
  BY <1>2, <1>3, <1>4, <1>5, <1>6, <1>7 DEF Family

\* A turn with a red uncle moves what is wrong up to the grandparent.
LEMMA RedUncleKeeps ==
  ASSUME NEW t, NEW k, NEW M, NEW D, NEW B, NEW c, Fixing(t, k, M, D, B, c),
         NEW p, NEW g, NEW side, NEW a, Family(t, M, c, p, g, side, a),
         NEW u, u = t.child[Other(side)][g], Red(t, u), NEW r, r = RedUncle(t, c, u)
  PROVE  /\ r.at = g /\ r.tree \in Tree /\ r.tree.key = t.key /\ SameLinks(t, r.tree)
         /\ \E E : Fixing(r.tree, k, M, D, E, g)
<1> DEFINE o == Other(side)
           t1 == Paint(t, g, "red")
           t2 == Paint(t1, u, "black")
           t3 == Paint(t2, p, "black")
           E == [B EXCEPT ![u] = B[u] + 1, ![p] = B[p] + 1]
<1>1. /\ t \in Tree /\ Linked(t, M) /\ Hanging(t, M, D) /\ SearchTree(t, k, M, D) /\ c \in M
      /\ Apart(t, M, c) /\ ~Red(t, Nil) /\ Heights(t, M, B, Nil, "left") /\ Red(t, c)
      /\ \A q \in Side : ~Red(t, t.child[q][c])
  BY DEF Fixing, SearchTree, Coloured
<1>2. /\ p = t.parent[c] /\ g = t.parent[p] /\ p \in M /\ g \in M /\ side \in Side
      /\ t.child[side][g] = p /\ g # p /\ c # g /\ Red(t, p) /\ ~Red(t, g) /\ ~Red(t, t.root)
  BY DEF Family
<1>3. /\ o \in Side /\ o # side /\ M \subseteq Node /\ Nil \notin M /\ Nil \in Node
      /\ \A q \in Side, n \in M : t.child[q][n] \in M \union {Nil}
      /\ \A q \in Side : q = side \/ q = o
  BY <1>1, <1>2, TreesAssumption, Sides DEF Linked, Node
<1>4. u \in M /\ u # p /\ u # g /\ t.parent[u] = g
  <2>1. u \in M
    BY <1>1, <1>2, <1>3
  <2>2. t.child[side][g] # t.child[Other(side)][g] /\ t.child[o][g] # g
    BY ONLY <1>1, <1>2, <1>3, Hangs
  <2> QED
    BY <1>1, <1>2, <1>3, <2>1, <2>2 DEF Linked
<1>5. r = [tree |-> t3, at |-> g]
  BY <1>2 DEF RedUncle
<1>6. "red" \in Colors /\ "black" \in Colors
  BY DEF Colors
<1>7. /\ t1 \in Tree /\ SameLinks(t, t1) /\ t1.key = t.key /\ t1.color = [t.color EXCEPT ![g] = "red"]
  BY <1>1, <1>2, <1>3, <1>6, SetColor DEF SameLinks
<1> HIDE DEF t1
<1>8. /\ t2 \in Tree /\ SameLinks(t, t2) /\ t2.key = t.key /\ t2.color = [t1.color EXCEPT ![u] = "black"]
  BY <1>3, <1>4, <1>6, <1>7, SetColor DEF SameLinks
<1> HIDE DEF t2
<1>9. /\ t3 \in Tree /\ SameLinks(t, t3) /\ t3.key = t.key /\ t3.color = [t2.color EXCEPT ![p] = "black"]
  BY ONLY <1>2, <1>3, <1>6, <1>8, SetColor DEF SameLinks
<1> HIDE DEF t3
<1>10. \A n \in Node : t3.color[n] = IF n \in {u, p} THEN "black" ELSE IF n = g THEN "red" ELSE t.color[n]
  BY ONLY <1>1, <1>2, <1>3, <1>4, <1>7, <1>8, <1>9 DEF Tree
<1>11. \A n \in Node : Red(t3, n) <=> n \notin {u, p} /\ (n = g \/ Red(t, n))
  BY <1>10 DEF Red
<1>12. t3.root = t.root /\ t3.child = t.child /\ t3.parent = t.parent
  BY <1>9 DEF SameLinks
<1>13. /\ \A n \in M, q \in Side : t.child[q][n] = p => n = g
       /\ \A n \in M, q \in Side : t.child[q][n] = u => n = g
  BY ONLY <1>1, <1>2, <1>3, <1>4 DEF Linked
<1>14. Apart(t3, M, g) /\ ~Red(t3, Nil) /\ Red(t3, g) /\ (Red(t3, t3.root) => t3.root = g)
       /\ \A q \in Side : ~Red(t3, t3.child[q][g])
  <2>1. ASSUME NEW n \in M, NEW q \in Side, Red(t3, n), Red(t3, t.child[q][n])
        PROVE  g \in {n, t.child[q][n]}
    <3>1. t.child[q][n] \in Node /\ n \in Node
      BY <1>3
    <3>2. CASE Red(t, n) /\ Red(t, t.child[q][n])
      <4>1. n = c \/ t.child[q][n] = c
        BY <1>1, <3>2 DEF Apart
      <4>2. t.child[q][n] = c
        BY <1>1, <3>2, <4>1
      <4>3. n = p
        BY <1>1, <1>2, <1>3, <4>2 DEF Linked
      <4> QED
        BY <1>11, <2>1, <3>1, <4>3
    <3> QED
      BY <1>11, <2>1, <3>1, <3>2
  <2>2. \A q \in Side : ~Red(t3, t.child[q][g])
    BY <1>2, <1>3, <1>4, <1>11
  <2>3. t.root \in Node
    BY <1>1, <1>3 DEF Linked
  <2> QED
    BY ZenonT(60), <1>1, <1>2, <1>3, <1>4, <1>11, <1>12, <2>1, <2>2, <2>3 DEF Apart
<1>15. /\ E \in [Node -> Nat] /\ E[u] = B[u] + 1 /\ E[p] = B[p] + 1
       /\ \A n \in Node \ {u, p} : E[n] = B[n]
  <2>1. B \in [Node -> Nat] /\ u \in Node /\ p \in Node /\ u # p
    BY <1>1, <1>2, <1>3, <1>4 DEF Heights
  <2> QED
    BY <2>1
<1>16. ASSUME NEW n \in M, NEW q \in Side
       PROVE  E[n] = Weight(t3, n) + E[t3.child[q][n]] + Lack(Nil, "left", n, q)
  <2> DEFINE m == t.child[q][n]
  <2>1. B[n] = Weight(t, n) + B[m] + Lack(Nil, "left", n, q)
    BY <1>1 DEF Heights
  <2>2. m \in Node /\ n \in Node /\ B[n] \in Nat /\ B[m] \in Nat /\ Lack(Nil, "left", n, q) = 0
    BY <1>1, <1>3 DEF Heights, Lack
  <2> HIDE DEF E
  <2>3. CASE n = g
    <3>1. m \in {u, p}
      BY <1>2, <1>3, <2>3
    <3>2. Weight(t, n) = 1 /\ Weight(t3, n) = 0
      <4>1. t.color[g] \in Colors
        BY <1>1, <2>2, <2>3 DEF Tree
      <4> QED
        BY <1>2, <1>4, <1>10, <2>2, <2>3, <4>1 DEF Weight, Red, Colors
    <3>3. E[m] = B[m] + 1 /\ E[n] = B[n]
      BY ZenonT(60), <1>2, <1>4, <1>15, <2>2, <2>3, <3>1
    <3> HIDE DEF m
    <3>4. B[n] = 1 + B[m] + 0
      BY <2>1, <2>2, <3>2
    <3> QED
      BY <1>12, <2>2, <3>2, <3>3, <3>4 DEF m
  <2>4. CASE n \in {u, p}
    <3>1. m \notin {u, p}
      BY <1>2, <1>4, <1>13, <2>4
    <3>2. Weight(t, n) = 0 /\ Weight(t3, n) = 1
      BY <1>2, <1>10, <2>2, <2>4 DEF Weight, Red
    <3>3. E[m] = B[m] /\ E[n] = B[n] + 1
      BY <1>15, <2>2, <2>4, <3>1
    <3> HIDE DEF m
    <3>4. B[n] = 0 + B[m] + 0
      BY <2>1, <2>2, <3>2
    <3> QED
      BY <1>12, <2>2, <3>2, <3>3, <3>4 DEF m
  <2>5. CASE n \notin {u, p, g}
    <3>1. m \notin {u, p}
      BY <1>13, <2>5
    <3>2. Weight(t, n) = Weight(t3, n)
      BY <1>10, <2>2, <2>5 DEF Weight
    <3>3. E[m] = B[m] /\ E[n] = B[n]
      BY <1>15, <2>2, <2>5, <3>1
    <3> QED
      BY <1>12, <2>1, <3>2, <3>3
  <2> QED
    BY <2>3, <2>4, <2>5
<1>17. E[Nil] = 0
  BY ZenonT(60), <1>1, <1>2, <1>3, <1>4, <1>15 DEF Heights
<1> HIDE DEF E
<1>18. Heights(t3, M, E, Nil, "left")
  BY <1>15, <1>16, <1>17 DEF Heights
<1>19. SearchTree(t3, k, M, D)
  BY <1>1, <1>9, Repainted
<1>20. Fixing(t3, k, M, D, E, g)
  BY <1>2, <1>9, <1>14, <1>18, <1>19 DEF Fixing, Coloured
<1> QED
  BY <1>5, <1>9, <1>20

\* An inner child is rotated outwards, and then its old parent is the wrong one.
LEMMA InnerTurned ==
  ASSUME NEW t, NEW k, NEW M, NEW D, NEW B, NEW c, Fixing(t, k, M, D, B, c),
         NEW p, NEW g, NEW side, Family(t, M, c, p, g, side, Other(side)),
         ~Red(t, t.child[Other(side)][g]), NEW r, r = Rotate(t, p, side)
  PROVE  /\ r.key = t.key /\ r.parent[p] = c /\ Family(r, M, p, c, g, side, side)
         /\ ~Red(r, r.child[Other(side)][g]) /\ \E E, F : Fixing(r, k, M, E, F, p)
<1> DEFINE o == Other(side)
           u == t.child[o][g]
           E == Turned(t, D, side, p)
           F == [B EXCEPT ![p] = B[c], ![c] = B[p]]
<1>1. /\ t \in Tree /\ Linked(t, M) /\ Hanging(t, M, D) /\ SearchTree(t, k, M, D) /\ c \in M
      /\ Apart(t, M, c) /\ ~Red(t, Nil) /\ Heights(t, M, B, Nil, "left") /\ Red(t, c)
      /\ \A q \in Side : ~Red(t, t.child[q][c])
  BY DEF Fixing, SearchTree, Coloured
<1>2. /\ p = t.parent[c] /\ g = t.parent[p] /\ p \in M /\ g \in M /\ side \in Side /\ t.child[o][p] = c
      /\ t.child[side][g] = p /\ g # p /\ c # g /\ c # p /\ Red(t, p) /\ ~Red(t, g) /\ ~Red(t, t.root)
  BY DEF Family
<1>3. /\ o \in Side /\ o # side /\ M \subseteq Node /\ Nil \notin M /\ Nil \in Node
      /\ \A q \in Side, n \in M : t.child[q][n] \in M \union {Nil}
  BY <1>1, <1>2, TreesAssumption, Sides DEF Linked, Node
<1>4. t.child[Other(side)][p] # Nil
  BY <1>1, <1>2, <1>3
<1>5. SameNodes(t, r) /\ Rotated(t, r, M, side, p)
  BY <1>1, <1>2, <1>4, RotateIs
<1>6. SearchTree(r, k, M, E)
  BY <1>1, <1>2, <1>4, <1>5, RotationKeeps
<1>7. Swung(t, r, M, side, p)
  <2>1. r.color = t.color /\ r \in Tree /\ t.color \in [Node -> Colors] /\ t.color[p] = "red" /\ t.color[c] = "red"
    BY <1>1, <1>2, <1>5 DEF SameNodes, Red, Tree
  <2>2. r.color = [t.color EXCEPT ![p] = "red", ![c] = t.color[p]]
    BY <2>1
  <2> QED
    BY <1>1, <1>2, <1>5, <2>1, <2>2 DEF Swung
<1>8. Heights(r, M, F, Nil, "left")
  <2>1. c = t.child[Other(side)][p] /\ c # Nil /\ Nil # c /\ (Nil = p => "left" # Other(side))
    BY <1>1, <1>2, <1>3
  <2> QED
    BY <1>1, <1>2, <1>7, <2>1, SwingHeights
<1>9. ~Red(r, Nil) /\ ~Red(r, r.root) /\ Apart(r, M, p)
  <2>1. ASSUME NEW n \in M \ {p, c}, NEW q \in Side, Red(t, n), Red(t, t.child[q][n]) PROVE FALSE
    <3>1. t.child[q][n] = c
      BY <1>1, <2>1 DEF Apart
    <3> QED
      BY <1>1, <1>2, <1>3, <2>1, <3>1 DEF Linked
  <2>2. ~Red(t, t.child[side][p])
    <3>1. t.child[side][p] # c \/ t.child[side][p] = Nil
      BY <1>1, <1>2, <1>3, Around
    <3> QED
      BY <1>1, <1>2, <3>1 DEF Apart
  <2>3. c = t.child[Other(side)][p] /\ c # Nil /\ ~Red(t, t.child[side][c]) /\ ~Red(t, t.child[Other(side)][c])
    BY <1>1, <1>2, <1>3
  <2>4. ~Red(r, Nil) /\ ~Red(r, r.root) /\ Apart(r, M, IF Red(t, p) THEN p ELSE Nil)
    BY <1>1, <1>2, <1>7, <2>1, <2>2, <2>3, SwingApart
  <2> QED
    BY <1>2, <2>4
<1>10. /\ t.child[side][p] \notin {p, c} /\ t.child[side][c] \notin {p, c}
       /\ \A n \in M, q \in Side : t.child[q][n] = c => n = p
  BY <1>1, <1>2, <1>3, Around
<1>11. u # p /\ u # c /\ u \in Node
  BY <1>1, <1>2, <1>3, Hangs DEF Linked
<1>12. /\ r.child[side][p] = t.child[side][p] /\ r.child[o][p] = t.child[side][c]
       /\ r.child[side][c] = p /\ r.child[side][g] = c /\ r.child[o][g] = u
       /\ r.parent[p] = c /\ r.parent[c] = g
  BY <1>1, <1>2, <1>3, <1>5, <1>11 DEF Rotated
<1>13. \A n \in Node : Red(r, n) <=> Red(t, n)
  BY <1>5 DEF SameNodes, Red
<1>14. Family(r, M, p, c, g, side, side)
  BY <1>1, <1>2, <1>3, <1>9, <1>12, <1>13 DEF Family
<1>15. \A q \in Side : ~Red(r, r.child[q][p])
  <2>1. ASSUME NEW q \in Side, Red(r, r.child[q][p]) PROVE FALSE
    <3>1. r.child[q][p] \in {t.child[side][p], t.child[side][c]}
      BY <1>2, <1>12, Sides
    <3>2. ~Red(t, t.child[side][p])
      BY <1>1, <1>2, <1>10 DEF Apart
    <3>3. t.child[side][p] \in Node /\ t.child[side][c] \in Node
      BY <1>1, <1>2, <1>3
    <3> QED
      BY <1>1, <1>2, <1>13, <2>1, <3>1, <3>2, <3>3
  <2> QED
    BY <2>1
<1>16. ~Red(r, r.child[o][g])
  BY <1>11, <1>12, <1>13
<1>17. Fixing(r, k, M, E, F, p)
  <2>1. r \in Tree /\ Red(r, p)
    BY <1>2, <1>3, <1>5, <1>13 DEF SameNodes
  <2> HIDE DEF E, F
  <2> QED
    BY <1>2, <1>6, <1>8, <1>9, <1>15, <2>1 DEF Fixing, Coloured
<1> QED
  BY <1>5, <1>12, <1>14, <1>16, <1>17 DEF SameNodes

\* With an outer child the grandparent goes down, and nothing is wrong any more.
LEMMA OuterTurned ==
  ASSUME NEW t, NEW k, NEW M, NEW D, NEW B, NEW c, Fixing(t, k, M, D, B, c),
         NEW p, NEW g, NEW side, Family(t, M, c, p, g, side, side),
         ~Red(t, t.child[Other(side)][g]),
         NEW r, r = Rotate(Paint(Paint(t, p, "black"), g, "red"), g, Other(side))
  PROVE  /\ r.key = t.key /\ r.color[r.parent[c]] = "black"
         /\ \E E, F : Fixing(r, k, M, E, F, c)
<1> DEFINE o == Other(side)
           t1 == Paint(t, p, "black")
           t2 == Paint(t1, g, "red")
           E == Turned(t, D, o, g)
           F == [B EXCEPT ![g] = B[p], ![p] = B[g]]
<1>1. /\ t \in Tree /\ Linked(t, M) /\ Hanging(t, M, D) /\ SearchTree(t, k, M, D) /\ c \in M
      /\ Apart(t, M, c) /\ ~Red(t, Nil) /\ Heights(t, M, B, Nil, "left") /\ Red(t, c)
      /\ \A q \in Side : ~Red(t, t.child[q][c])
  BY DEF Fixing, SearchTree, Coloured
<1>2. /\ p = t.parent[c] /\ g = t.parent[p] /\ p \in M /\ g \in M /\ side \in Side /\ t.child[side][p] = c
      /\ t.child[side][g] = p /\ g # p /\ c # g /\ c # p /\ Red(t, p) /\ ~Red(t, g) /\ ~Red(t, t.root)
  BY DEF Family
<1>3. /\ o \in Side /\ o # side /\ Other(o) = side /\ M \subseteq Node /\ Nil \notin M /\ Nil \in Node
      /\ \A q \in Side, n \in M : t.child[q][n] \in M \union {Nil}
  BY <1>1, <1>2, TreesAssumption, Sides DEF Linked, Node
<1>4. "red" \in Colors /\ "black" \in Colors
  BY DEF Colors
<1>5. /\ t1 \in Tree /\ SameLinks(t, t1) /\ t1.key = t.key /\ t1.color = [t.color EXCEPT ![p] = "black"]
  BY <1>1, <1>2, <1>3, <1>4, SetColor DEF SameLinks
<1>6. r = Rotate(t2, g, o)
  OBVIOUS
<1> HIDE DEF t1
<1>7. /\ t2 \in Tree /\ SameLinks(t, t2) /\ t2.key = t.key /\ t2.color = [t1.color EXCEPT ![g] = "red"]
  BY <1>2, <1>3, <1>4, <1>5, SetColor DEF SameLinks
<1> HIDE DEF t2
<1>8. t.child[Other(o)][g] # Nil /\ t2.child[Other(o)][g] # Nil
  BY <1>2, <1>3, <1>7 DEF SameLinks
<1>9. SameNodes(t2, r) /\ Rotated(t, r, M, o, g)
  <2>1. SearchTree(t2, k, M, D)
    BY <1>1, <1>7, Repainted
  <2>2. Linked(t2, M) /\ Hanging(t2, M, D)
    BY <2>1 DEF SearchTree
  <2>3. SameNodes(t2, r) /\ Rotated(t2, r, M, o, g)
    BY <1>2, <1>3, <1>6, <1>7, <1>8, <2>2, RotateIs
  <2> QED
    BY <1>7, <2>3, Repainted
<1>10. SearchTree(r, k, M, E)
  BY <1>1, <1>2, <1>3, <1>8, <1>9, RotationKeeps
<1>11. Swung(t, r, M, o, g)
  <2>1. r.color = t2.color /\ r \in Tree /\ t.color \in [Node -> Colors] /\ t.color[g] = "black"
    BY ONLY <1>1, <1>2, <1>3, <1>9 DEF SameNodes, Red, Tree, Colors
  <2>2. r.color = [t.color EXCEPT ![g] = "red", ![p] = t.color[g]]
    BY <1>2, <1>3, <1>5, <1>7, <2>1
  <2> QED
    BY <1>1, <1>2, <1>3, <1>9, <2>1, <2>2 DEF Swung
<1>12. p = t.child[Other(o)][g] /\ p # Nil /\ Nil # p /\ (Nil = g => "left" # Other(o))
  BY <1>2, <1>3
<1>13. Heights(r, M, F, Nil, "left")
  BY <1>1, <1>2, <1>3, <1>11, <1>12, SwingHeights
<1>14. t.child[o][p] # c \/ t.child[o][p] = Nil
  BY <1>1, <1>2, <1>3, Hangs
<1>15. ~Red(r, Nil) /\ ~Red(r, r.root) /\ Apart(r, M, Nil)
  <2>1. ASSUME NEW n \in M \ {g, p}, NEW q \in Side, Red(t, n), Red(t, t.child[q][n]) PROVE FALSE
    <3>1. t.child[q][n] = c
      BY <1>1, <2>1 DEF Apart
    <3> QED
      BY <1>1, <1>2, <1>3, <2>1, <3>1 DEF Linked
  <2>2. ~Red(t, t.child[o][p])
    BY <1>1, <1>2, <1>3, <1>14 DEF Apart
  <2>3. ~Red(t, t.child[o][g])
    OBVIOUS
  <2> HIDE DEF o
  <2>4. ~Red(r, Nil) /\ ~Red(r, r.root) /\ Apart(r, M, IF Red(t, g) THEN g ELSE Nil)
    BY <1>1, <1>2, <1>3, <1>11, <1>12, <2>1, <2>2, <2>3, SwingApart
  <2> QED
    BY <1>2, <2>4
<1>16. Red(r, c) /\ r.color[p] = "black" /\ r.parent[c] = p
  <2>1. r.color[c] = t.color[c] /\ r.color[p] = "black"
    <3>1. t.color[g] = "black"
      BY <1>1, <1>2, <1>3 DEF Red, Tree, Colors
    <3> QED
      BY ONLY <1>1, <1>2, <1>3, <1>11, <3>1 DEF Swung, Tree
  <2>2. r.parent[c] = p
    <3>1. r.parent[c] = IF c = g THEN p ELSE IF c = p THEN t.parent[g]
                        ELSE IF c = t.child[o][p] THEN g ELSE t.parent[c]
      BY <1>1, <1>9, <1>12 DEF Rotated
    <3>2. c # t.child[o][p]
      BY <1>1, <1>3, <1>14
    <3> QED
      BY <1>2, <3>1, <3>2
  <2> QED
    BY <1>1, <2>1, <2>2 DEF Red
<1>17. \A q \in Side : ~Red(r, r.child[q][c])
  BY <1>1, <1>3, <1>15, <1>16 DEF Apart
<1>18. Fixing(r, k, M, E, F, c)
  <2>1. r \in Tree /\ Apart(r, M, c)
    BY <1>9, <1>15, <1>3 DEF SameNodes, Apart
  <2> HIDE DEF E, F
  <2> QED
    BY <1>1, <1>10, <1>13, <1>15, <1>16, <1>17, <2>1 DEF Fixing, Coloured
<1> QED
  BY <1>7, <1>9, <1>16, <1>18 DEF SameNodes

\* A turn of the loop.
LEMMA InsertTurnKeeps ==
  ASSUME NEW t, NEW k, NEW M, NEW D, NEW B, NEW c, Fixing(t, k, M, D, B, c), ~Fixed(t, c),
         NEW r, r = InsertTurn(t, c)
  PROVE  /\ r \in [tree : Tree, at : Node] /\ r.tree.key = t.key
         /\ \E E, F : /\ Fixing(r.tree, k, M, E, F, r.at)
                      /\ Fixed(r.tree, r.at) \/ Cardinality(D[c]) < Cardinality(E[r.at])
<1> DEFINE p == t.parent[c]
           g == t.parent[p]
           side == SideOf(t, p)
           o == Other(side)
           u == t.child[o][g]
<1>1. PICK a : Family(t, M, c, p, g, side, a)
  BY FamilyIs
<1>2. /\ t \in Tree /\ Linked(t, M) /\ Hanging(t, M, D) /\ c \in M /\ M \subseteq Node
  BY DEF Fixing, SearchTree, Coloured, Linked, Node
<1>3. p \in M /\ g \in M /\ side \in Side /\ a \in Side /\ t.child[side][g] = p /\ t.child[a][p] = c /\ c # Nil
  BY <1>1, <1>2, TreesAssumption DEF Family, Linked
<1>4. CASE Red(t, u)
  <2>1. r = RedUncle(t, c, u)
    BY <1>4 DEF InsertTurn, Red
  <2>2. /\ r.at = g /\ r.tree \in Tree /\ r.tree.key = t.key
        /\ \E F : Fixing(r.tree, k, M, D, F, g)
    <3>1. Fixing(t, k, M, D, B, c) /\ u = t.child[Other(side)][g]
      OBVIOUS
    <3> HIDE DEF p, g, side, o, u
    <3> QED
      BY <1>1, <1>4, <2>1, <3>1, RedUncleKeeps
  <2>3. Cardinality(D[c]) < Cardinality(D[g])
    <3>1. /\ \A n \in Node : Cardinality(D[n]) \in Nat
          /\ \A n \in M, q \in Side : Cardinality(D[t.child[q][n]]) < Cardinality(D[n])
      BY <1>2, Smaller
    <3> DEFINE dc == Cardinality(D[c])
               dp == Cardinality(D[p])
               dg == Cardinality(D[g])
    <3>2. dc \in Nat /\ dp \in Nat /\ dg \in Nat /\ dc < dp /\ dp < dg
      BY <1>2, <1>3, <3>1
    <3> HIDE DEF dc, dp, dg
    <3>3. dc < dg
      BY <3>2
    <3> QED
      BY <3>3 DEF dc, dg
  <2>4. r \in [tree : Tree, at : Node]
    BY <1>2, <1>3, <2>1, <2>2 DEF RedUncle
  <2> QED
    BY <2>2, <2>3, <2>4
<1>5. CASE ~Red(t, u)
  <2>1. r = BlackUncle(t, c, side)
    BY <1>5 DEF InsertTurn, Red
  <2>2. CASE a = side
    <3>1. c # t.child[o][p]
      BY <1>2, <1>3, <2>2, Hangs
    <3> DEFINE r1 == Rotate(Paint(Paint(t, p, "black"), g, "red"), g, o)
    <3>2. r = [tree |-> r1, at |-> c]
      BY ONLY <2>1, <3>1 DEF BlackUncle
    <3>3. PICK E, F : /\ r1.key = t.key /\ r1.color[r1.parent[c]] = "black"
                      /\ Fixing(r1, k, M, E, F, c)
      <4>1. /\ Fixing(t, k, M, D, B, c) /\ Family(t, M, c, p, g, side, side) /\ ~Red(t, t.child[Other(side)][g])
            /\ r1 = Rotate(Paint(Paint(t, p, "black"), g, "red"), g, Other(side))
        BY <1>1, <1>5, <2>2
      <4> HIDE DEF p, g, side, r1
      <4> QED
        BY ONLY <4>1, OuterTurned
    <3> HIDE DEF r1
    <3>4. r1 \in Tree /\ Fixed(r1, c)
      BY <3>3 DEF Fixing, Coloured, Fixed
    <3> QED
      BY <1>2, <3>2, <3>3, <3>4
  <2>3. CASE a = o
    <3> DEFINE t1 == Rotate(t, p, side)
               r1 == Rotate(Paint(Paint(t1, c, "black"), g, "red"), g, o)
    <3>1. PICK E1, F1 : /\ t1.key = t.key /\ t1.parent[p] = c /\ Family(t1, M, p, c, g, side, side)
                        /\ ~Red(t1, t1.child[o][g]) /\ Fixing(t1, k, M, E1, F1, p)
      BY <1>1, <1>5, <2>3, InnerTurned
    <3>2. t1.parent[c] = g
      BY <3>1 DEF Family
    <3>3. r = [tree |-> r1, at |-> p]
      <4>1. c = t.child[o][p]
        BY <1>3, <2>3
      <4> QED
        BY <2>1, <3>1, <3>2, <4>1 DEF BlackUncle
    <3> HIDE DEF t1
    <3>4. PICK E, F : /\ r1.key = t1.key /\ r1.color[r1.parent[p]] = "black"
                      /\ Fixing(r1, k, M, E, F, p)
      <4>1. /\ Fixing(t1, k, M, E1, F1, p) /\ Family(t1, M, p, c, g, side, side) /\ ~Red(t1, t1.child[Other(side)][g])
            /\ r1 = Rotate(Paint(Paint(t1, c, "black"), g, "red"), g, Other(side))
        BY <3>1
      <4> HIDE DEF p, g, side, r1
      <4> QED
        BY ONLY <4>1, OuterTurned
    <3> HIDE DEF r1
    <3>5. r1 \in Tree /\ Fixed(r1, p)
      BY <3>4 DEF Fixing, Coloured, Fixed
    <3> QED
      BY <1>2, <1>3, <3>1, <3>3, <3>4, <3>5
  <2> QED
    BY <1>3, <2>2, <2>3, Sides
<1> QED
  BY <1>4, <1>5

\* insert_fix_up repairs the tree.
LEMMA InsertFixUpKeeps ==
  ASSUME NEW t, NEW k, NEW M, NEW D, NEW B, NEW c, Fixing(t, k, M, D, B, c),
         NEW r, r = InsertFixUp(t, c)
  PROVE  r \in Tree /\ r.key = t.key /\ \E E, F : SearchTree(r, k, M, E) /\ Kept(r, M, F)
<1> DEFINE Over(i) == i.at = i.tree.root \/ i.tree.color[i.tree.parent[i.at]] = "black"
           turn == [i \in Repair |-> IF Over(i) THEN i ELSE InsertTurn(i.tree, i.at)]
           start == [tree |-> t, at |-> c]
           Looping(j, i) == /\ i.tree.key = t.key
                            /\ \E E, F : /\ Fixing(i.tree, k, M, E, F, i.at)
                                         /\ Fixed(i.tree, i.at) \/ j < Cardinality(E[i.at])
           I == {i \in Nat \X Repair : Looping(i[1], i[2])}
           end == Turns(turn, start)
           last == end.tree
<1>1. r = Paint(last, last.root, "black")
  BY DEF InsertFixUp
<1>2. /\ t \in Tree /\ Linked(t, M) /\ Hanging(t, M, D) /\ c \in M /\ M \subseteq Node
  BY DEF Fixing, SearchTree, Coloured, Linked, Node
<1>3. start \in Repair
  <2>1. t.root \in Node
    BY <1>2 DEF Linked, Node
  <2> QED
    BY <1>2, <2>1, NullAssumption DEF Repair
<1>4. turn \in [Repair -> Repair]
  <2>1. ASSUME NEW i \in Repair PROVE (IF Over(i) THEN i ELSE InsertTurn(i.tree, i.at)) \in Repair
    BY InsertTurnType
  <2> HIDE DEF Over
  <2> QED
    BY <2>1
<1>5. ASSUME NEW j \in Nat, NEW i \in Repair, Looping(j, i) PROVE Looping(j + 1, turn[i])
  <2>1. PICK E, F : /\ Fixing(i.tree, k, M, E, F, i.at)
                    /\ Fixed(i.tree, i.at) \/ j < Cardinality(E[i.at])
    BY <1>5
  <2>2. CASE Fixed(i.tree, i.at)
    <3>1. turn[i] = i
      BY <2>2 DEF Fixed
    <3> HIDE DEF turn
    <3> QED
      BY <1>5, <2>1, <2>2, <3>1
  <2>3. CASE ~Fixed(i.tree, i.at)
    <3>1. turn[i] = InsertTurn(i.tree, i.at)
      BY <2>3 DEF Fixed
    <3> DEFINE r1 == turn[i]
    <3> HIDE DEF turn, r1
    <3>2. r1 = InsertTurn(i.tree, i.at)
      BY <3>1 DEF r1
    <3>3. r1.tree.key = i.tree.key
      BY <2>1, <2>3, <3>2, InsertTurnKeeps
    <3>4. PICK E1, F1 : /\ Fixing(r1.tree, k, M, E1, F1, r1.at)
                        /\ Fixed(r1.tree, r1.at) \/ Cardinality(E[i.at]) < Cardinality(E1[r1.at])
      BY <2>1, <2>3, <3>2, InsertTurnKeeps
    <3>5. Fixed(r1.tree, r1.at) \/ j + 1 < Cardinality(E1[r1.at])
      <4>1. Linked(i.tree, M) /\ Hanging(i.tree, M, E) /\ i.at \in Node
        BY <1>2, <2>1 DEF Fixing, SearchTree
      <4>2. Linked(r1.tree, M) /\ Hanging(r1.tree, M, E1) /\ r1.at \in Node
        BY <1>2, <3>4 DEF Fixing, SearchTree
      <4>3. Cardinality(E[i.at]) \in Nat
        BY <4>1, Smaller
      <4>4. Cardinality(E1[r1.at]) \in Nat
        BY <4>2, Smaller
      <4> DEFINE x == Cardinality(E[i.at])
                 y == Cardinality(E1[r1.at])
      <4>5. x \in Nat /\ y \in Nat /\ j < x /\ (Fixed(r1.tree, r1.at) \/ x < y)
        BY <2>1, <2>3, <3>4, <4>3, <4>4
      <4> HIDE DEF x, y
      <4>6. Fixed(r1.tree, r1.at) \/ j + 1 < y
        BY <4>5
      <4> QED
        BY <4>6 DEF y
    <3>6. Looping(j + 1, r1)
      BY <1>5, <3>3, <3>4, <3>5
    <3> QED
      BY <3>6 DEF r1
  <2> QED
    BY <2>2, <2>3
<1>6. Looping(0, start)
  <2>1. Cardinality(D[c]) > 0
    <3>1. c \in D[c] /\ IsFiniteSet(D[c]) /\ Cardinality(D[c]) \in Nat
      BY <1>2, Hangs, Smaller
    <3>2. Cardinality(D[c]) # 0
      BY <3>1, FS_EmptySet
    <3> QED
      BY <3>1, <3>2
  <2> QED
    BY <2>1
<1> HIDE DEF Looping
<1>7. end \in Repair /\ Looping(Cardinality(Nodes), end)
  <2> HIDE DEF turn, start
  <2>1. <<0, start>> \in I
    BY <1>3, <1>6
  <2>2. \A j \in Nat, i \in Repair : <<j, i>> \in I => <<j + 1, turn[i]>> \in I
    BY <1>4, <1>5
  <2> HIDE DEF I
  <2>3. end \in Repair /\ <<Cardinality(Nodes), end>> \in I
    BY <1>3, <1>4, <2>1, <2>2, TurnsKeep
  <2> HIDE DEF end
  <2> QED
    BY <2>3 DEF I
<1> HIDE DEF end, turn
<1>8. PICK E, F : Fixing(last, k, M, E, F, end.at) /\ Fixed(last, end.at) /\ last.key = t.key
  <2>1. PICK E, F : /\ last.key = t.key /\ Fixing(last, k, M, E, F, end.at)
                    /\ Fixed(last, end.at) \/ Cardinality(Nodes) < Cardinality(E[end.at])
    BY <1>7 DEF Looping
  <2>2. Linked(last, M) /\ Hanging(last, M, E) /\ end.at \in Node
    BY <1>2, <2>1 DEF Fixing, SearchTree
  <2>3. Cardinality(E[end.at]) \in Nat /\ Cardinality(E[end.at]) <= Cardinality(Nodes)
    BY <2>2, Smaller
  <2>4. Cardinality(Nodes) \in Nat
    BY TreesAssumption, FS_CardinalityType
  <2>5. ~(Cardinality(Nodes) < Cardinality(E[end.at]))
    BY <2>3, <2>4
  <2> QED
    BY <2>1, <2>5
<1> DEFINE at == end.at
<1> HIDE DEF last, at
<1>9. Fixing(last, k, M, E, F, at) /\ Fixed(last, at) /\ last.key = t.key
  BY <1>8 DEF at
<1>10. /\ SearchTree(last, k, M, E) /\ Coloured(last, M, F, Nil, "left", at) /\ Linked(last, M) /\ Hanging(last, M, E)
       /\ at \in M /\ Red(last, at) /\ \A q \in Side : ~Red(last, last.child[q][at])
  BY <1>9 DEF Fixing, SearchTree
<1>11. Coloured(last, M, F, Nil, "left", last.root)
  <2>1. CASE at = last.root
    BY <1>10, <2>1
  <2>2. CASE at # last.root
    <3>1. ~Red(last, last.parent[at])
      BY <1>9, <2>2 DEF Fixed, Red
    <3>2. ASSUME NEW n \in M, NEW q \in Side, Red(last, n), Red(last, last.child[q][n]) PROVE FALSE
      <4>1. n = at \/ last.child[q][n] = at
        BY <1>10, <3>2 DEF Coloured, Apart
      <4>2. last.child[q][n] = at
        BY <1>10, <3>2, <4>1
      <4>3. last.parent[at] = n
        BY <1>10, <4>2, Hangs DEF Linked
      <4> QED
        BY <3>1, <3>2, <4>3
    <3> QED
      BY <1>10, <2>2, <3>2 DEF Coloured, Apart
  <2> QED
    BY <2>1, <2>2
<1>12. last.root \in M \union {Nil} /\ "left" \in Side
  BY <1>10 DEF Linked, Side
<1>13. SameLinks(last, r) /\ r \in Tree /\ r.key = last.key /\ \E G : Kept(r, M, G)
  <2> DEFINE top == last.root
  <2>1. /\ SearchTree(last, k, M, E) /\ Coloured(last, M, F, Nil, "left", top) /\ top \in M \union {Nil}
        /\ \/ Nil = Nil /\ top = last.root
           \/ Nil \in M /\ last.child["left"][Nil] = top /\ Red(last, top)
        /\ r = Paint(last, top, "black")
    BY <1>1, <1>10, <1>11, <1>12
  <2> HIDE DEF top
  <2> QED
    BY <1>12, <2>1, PaintedBlack
<1>14. SearchTree(r, k, M, E)
  BY <1>10, <1>13, Repainted
<1> QED
  BY <1>9, <1>13, <1>14

-----------------------------------------------------------------------------
(* Insertion.                                                              *)

\* make_node, assignment by assignment.
LEMMA MakeNodeIs ==
  ASSUME NEW t, NEW n, NEW c, NEW s, NEW p
  PROVE  MakeNode(t, n, c, s, p) =
           PutChild(PutChild(PutParent(PutKey(Paint(t, n, c), n, s), n, p), "left", n, Nil), "right", n, Nil)
BY DEF MakeNode, PutChild, PutParent, PutKey, Paint

\* The fields after make_node.
LEMMA MadeNode ==
  ASSUME NEW t \in Tree, NEW n \in Node, NEW c \in Colors, NEW s \in Int, NEW p \in Node,
         NEW r, r = MakeNode(t, n, c, s, p)
  PROVE  /\ r \in Tree /\ r.root = t.root
         /\ r.color = [t.color EXCEPT ![n] = c] /\ r.key = [t.key EXCEPT ![n] = s]
         /\ r.parent = [t.parent EXCEPT ![n] = p]
         /\ \A q \in Side, m \in Node : r.child[q][m] = IF m = n THEN Nil ELSE t.child[q][m]
<1> DEFINE t1 == Paint(t, n, c)
           t2 == PutKey(t1, n, s)
           t3 == PutParent(t2, n, p)
           t4 == PutChild(t3, "left", n, Nil)
           t5 == PutChild(t4, "right", n, Nil)
<1>1. r = t5
  BY MakeNodeIs
<1>2. "left" \in Side /\ "right" \in Side /\ Nil \in Node /\ \A q \in Side : q \in {"left", "right"}
  BY DEF Side, Node
<1>3. t1 \in Tree /\ t1.root = t.root /\ t1.child = t.child /\ t1.parent = t.parent
      /\ t1.color = [t.color EXCEPT ![n] = c] /\ t1.key = t.key
  BY SetColor
<1> HIDE DEF t1
<1>4. t2 \in Tree /\ t2.root = t1.root /\ t2.child = t1.child /\ t2.parent = t1.parent
      /\ t2.color = t1.color /\ t2.key = [t1.key EXCEPT ![n] = s]
  BY <1>3, SetKey
<1> HIDE DEF t2
<1>5. SameNodes(t2, t3) /\ t3.root = t2.root /\ t3.child = t2.child /\ t3.parent = [t2.parent EXCEPT ![n] = p]
  BY <1>4, SetParent
<1> HIDE DEF t3
<1>6. SameNodes(t3, t4) /\ t4.root = t3.root /\ t4.parent = t3.parent /\ Relinked(t3, t4, "left", n, Nil)
  <2>1. t3 \in Tree
    BY <1>5 DEF SameNodes
  <2> QED
    BY <1>2, <2>1, SetChild
<1> HIDE DEF t4
<1>7. SameNodes(t4, t5) /\ t5.root = t4.root /\ t5.parent = t4.parent /\ Relinked(t4, t5, "right", n, Nil)
  <2>1. t4 \in Tree
    BY <1>6 DEF SameNodes
  <2> QED
    BY <1>2, <2>1, SetChild
<1> HIDE DEF t5
<1>8. \A q \in Side, m \in Node : t5.child[q][m] = IF m = n THEN Nil ELSE t.child[q][m]
  BY <1>2, <1>3, <1>4, <1>5, <1>6, <1>7 DEF Relinked
<1> QED
  BY <1>1, <1>3, <1>4, <1>5, <1>6, <1>7, <1>8 DEF SameNodes

\* A search tree with the rules of red and black, of the nodes M.
Valid(t, M) ==
  /\ t \in Tree
  /\ \E D, B : SearchTree(t, t.key, M, D) /\ Kept(t, M, B)

\* SideFor points the way to a key's place.
LEMMA SideForPoints ==
  ASSUME NEW t \in Tree, NEW s \in Int, NEW toward, toward = [n \in Node |-> SideFor(s, t.key[n])]
  PROVE  Points(toward, t.key, s)
<1>1. \A n \in Node : t.key[n] \in Int
  BY DEF Tree
<1> QED
  BY <1>1 DEF Points, SideFor, Fits, Side

\* A red leaf in its place leaves at most itself wrong.
LEMMA RedLeaf ==
  ASSUME NEW t, NEW M, NEW D, SearchTree(t, t.key, M, D), NEW B, Kept(t, M, B),
         NEW z \in Nodes \ M, NEW s \in Int, NEW toward, Points(toward, t.key, s),
         NEW y \in M, Place(t, t.key, M, D, s, toward, y),
         NEW r, r \in Tree, Hung(t, r, z, toward[y], y),
         r.color = [t.color EXCEPT ![z] = "red"], r.key = [t.key EXCEPT ![z] = s]
  PROVE  \E E, F : Fixing(r, r.key, M \union {z}, E, F, z)
<1> DEFINE E == Grown(M, D, z, y)
           F == [B EXCEPT ![z] = 0]
           N == M \union {z}
           g == toward[y]
<1>1. /\ t \in Tree /\ Linked(t, M) /\ Hanging(t, M, D) /\ ~Red(t, Nil) /\ ~Red(t, t.root)
      /\ Heights(t, M, B, Nil, "left") /\ Apart(t, M, Nil)
  BY DEF Kept, Coloured, SearchTree
<1>2. /\ M \subseteq Node /\ Nil \notin M /\ z \in Node /\ z # Nil /\ Nil \in Node /\ z \notin M /\ y # Nil
      /\ t.root \in M \union {Nil} /\ \A q \in Side, n \in M : t.child[q][n] \in M \union {Nil}
  BY <1>1, TreesAssumption DEF Linked, Node
<1>3. SearchTree(r, r.key, N, E)
  <2>1. Hung(t, r, z, toward[y], y)
    OBVIOUS
  <2> HIDE DEF N, E, g
  <2> QED
    BY <2>1, HangKeeps DEF N, E
<1>4. /\ r.root = t.root /\ t.child[g][y] = Nil
      /\ \A q \in Side : r.child[q][z] = Nil
      /\ \A q \in Side, n \in M : r.child[q][n] = IF n = y /\ q = g THEN z ELSE t.child[q][n]
  BY <1>2 DEF Hung, Place
<1>5. /\ Red(r, z) /\ \A n \in Node \ {z} : (Red(r, n) <=> Red(t, n)) /\ Weight(r, n) = Weight(t, n)
      /\ Weight(r, z) = 0
  <2>1. t.color \in [Node -> Colors]
    BY <1>1 DEF Tree
  <2>2. r.color[z] = "red" /\ \A n \in Node \ {z} : r.color[n] = t.color[n]
    BY <1>2, <2>1
  <2> QED
    BY <2>2 DEF Red, Weight
<1>6. /\ F \in [Node -> Nat] /\ F[z] = 0 /\ F[Nil] = 0 /\ B[Nil] = 0
      /\ \A n \in Node \ {z} : F[n] = B[n]
  BY <1>1, <1>2 DEF Heights
<1>7. ASSUME NEW n \in N, NEW q \in Side
      PROVE  F[n] = Weight(r, n) + F[r.child[q][n]] + Lack(Nil, "left", n, q)
  <2>1. Lack(Nil, "left", n, q) = 0
    BY <1>2 DEF Lack
  <2>2. CASE n = z
    BY <1>4, <1>5, <1>6, <2>1, <2>2
  <2>3. CASE n # z
    <3>1. B[n] = Weight(t, n) + B[t.child[q][n]] + Lack(Nil, "left", n, q) /\ n \in M
      BY <1>1, <2>3 DEF Heights
    <3>2. F[r.child[q][n]] = B[t.child[q][n]]
      <4>1. CASE n = y /\ q = g
        BY <1>4, <1>6, <3>1, <4>1
      <4>2. CASE ~(n = y /\ q = g)
        <5>1. t.child[q][n] \in Node \ {z} /\ r.child[q][n] = t.child[q][n]
          BY <1>2, <1>4, <3>1, <4>2
        <5> QED
          BY <1>6, <5>1
      <4> QED
        BY <4>1, <4>2
    <3>3. Weight(r, n) = Weight(t, n) /\ F[n] = B[n]
      BY <1>2, <1>5, <1>6, <2>3, <3>1
    <3> QED
      BY <3>1, <3>2, <3>3
  <2> QED
    BY <2>2, <2>3
<1>8. Heights(r, N, F, Nil, "left")
  <2> HIDE DEF N, F
  <2> QED
    BY <1>6, <1>7 DEF Heights
<1>9. Apart(r, N, z)
  <2>1. ASSUME NEW n \in N, NEW q \in Side, Red(r, n), Red(r, r.child[q][n]), n # z, r.child[q][n] # z
        PROVE  FALSE
    <3>1. n \in M /\ r.child[q][n] = t.child[q][n]
      BY <1>4, <2>1
    <3>2. Red(t, n) /\ Red(t, t.child[q][n]) /\ t.child[q][n] # Nil
      BY <1>1, <1>2, <1>5, <2>1, <3>1
    <3> QED
      BY <1>1, <1>2, <3>1, <3>2 DEF Apart
  <2> QED
    BY <2>1 DEF Apart
<1>10. ~Red(r, Nil) /\ ~Red(r, r.root) /\ \A q \in Side : ~Red(r, r.child[q][z])
  BY <1>1, <1>2, <1>4, <1>5
<1> HIDE DEF E, F
<1>11. Fixing(r, r.key, N, E, F, z)
  BY <1>3, <1>5, <1>8, <1>9, <1>10 DEF Fixing, Coloured
<1> QED
  BY <1>11

\* A black leaf alone is a valid tree.
LEMMA BlackLeaf ==
  ASSUME NEW t, NEW M, NEW D, SearchTree(t, t.key, M, D), NEW B, Kept(t, M, B), t.root = Nil,
         NEW z \in Nodes, NEW s \in Int, NEW g \in Side, NEW r, r \in Tree, Hung(t, r, z, g, Nil),
         r.color = [t.color EXCEPT ![z] = "black"], r.key = [t.key EXCEPT ![z] = s]
  PROVE  Valid(r, {z}) /\ M = {}
<1> DEFINE E == Grown(M, D, z, Nil)
           F == [B EXCEPT ![z] = 1]
           toward == [n \in Node |-> IF n = Nil THEN g ELSE SideFor(s, t.key[n])]
<1>1. /\ t \in Tree /\ Hanging(t, M, D) /\ ~Red(t, Nil) /\ Heights(t, M, B, Nil, "left")
  BY DEF Kept, Coloured, SearchTree
<1>2. M = {} /\ z \in Node /\ z # Nil /\ Nil \in Node
  BY <1>1, TreesAssumption DEF Hanging, Node
<1>3. SearchTree(r, r.key, {z}, E)
  <2> DEFINE go == [n \in Node |-> SideFor(s, t.key[n])]
  <2>1. Points(go, t.key, s)
    BY <1>1, SideForPoints
  <2>2. Hung(t, r, z, go[Nil], Nil)
    BY DEF Hung
  <2>3. Place(t, t.key, M, D, s, go, Nil)
    BY DEF Place
  <2> HIDE DEF E, go
  <2>4. SearchTree(r, r.key, M \union {z}, E)
    BY <1>2, <2>1, <2>2, <2>3, HangKeeps DEF E
  <2> QED
    BY <1>2, <2>4
<1>4. r.root = z /\ \A q \in Side : r.child[q][z] = Nil
  BY <1>2 DEF Hung
<1>5. r.color[z] = "black" /\ ~Red(r, z) /\ ~Red(r, Nil) /\ Weight(r, z) = 1
  <2>1. t.color \in [Node -> Colors]
    BY <1>1 DEF Tree
  <2> QED
    BY <1>1, <1>2, <2>1 DEF Red, Weight
<1>6. F \in [Node -> Nat] /\ F[z] = 1 /\ F[Nil] = 0
  BY <1>1, <1>2 DEF Heights
<1> HIDE DEF F
<1>7. Heights(r, {z}, F, Nil, "left")
  BY <1>2, <1>4, <1>5, <1>6 DEF Heights, Lack
<1>8. Apart(r, {z}, Nil)
  BY <1>5 DEF Apart
<1> HIDE DEF E
<1> QED
  BY <1>2, <1>3, <1>4, <1>5, <1>7, <1>8 DEF Valid, Kept, Coloured

\* rbtree_insert makes a valid tree with the new node.
LEMMA InsertKeeps ==
  ASSUME NEW t, NEW M, Valid(t, M), NEW z \in Nodes \ M, NEW s \in Int,
         NEW r, r = RbtreeInsert(t, z, s)
  PROVE  Valid(r, M \union {z}) /\ r.key = [t.key EXCEPT ![z] = s]
<1> DEFINE toward == [n \in Node |-> SideFor(s, t.key[n])]
           y == Descend(t, toward)
           g == toward[y]
<1>1. PICK D, B : t \in Tree /\ SearchTree(t, t.key, M, D) /\ Kept(t, M, B)
  BY DEF Valid
<1>2. Points(toward, t.key, s)
  BY <1>1, SideForPoints
<1>3. Place(t, t.key, M, D, s, toward, y)
  <2> HIDE DEF toward
  <2> QED
    BY <1>1, <1>2, DescendIs
<1>4. /\ Links(t) /\ z \in Node /\ z # Nil /\ "red" \in Colors /\ "black" \in Colors /\ Nil \in Node /\ M \subseteq Node
      /\ z \notin M
  BY <1>1, TreesAssumption DEF SearchTree, Linked, Node, Colors
<1>5. CASE t.root = Nil
  <2> DEFINE t1 == MakeNode(t, z, "black", s, Nil)
  <2>1. r = PutRoot(t1, z)
    BY <1>5 DEF RbtreeInsert, PutRoot
  <2>2. /\ t1 \in Tree /\ t1.root = t.root
        /\ t1.color = [t.color EXCEPT ![z] = "black"] /\ t1.key = [t.key EXCEPT ![z] = s]
        /\ t1.parent = [t.parent EXCEPT ![z] = Nil]
        /\ \A q \in Side, m \in Node : t1.child[q][m] = IF m = z THEN Nil ELSE t.child[q][m]
    BY <1>1, <1>4, MadeNode
  <2> HIDE DEF t1
  <2>3. SameNodes(t1, r) /\ r.root = z /\ r.child = t1.child /\ r.parent = t1.parent
    BY <1>4, <2>1, <2>2, SetRoot
  <2>4. Hung(t, r, z, "left", Nil)
    BY <1>4, <2>2, <2>3 DEF Hung, Links, SameNodes, Tree
  <2>5. Valid(r, {z}) /\ M = {}
    <3>1. /\ "left" \in Side /\ z \in Nodes /\ r \in Tree
          /\ r.color = [t.color EXCEPT ![z] = "black"] /\ r.key = [t.key EXCEPT ![z] = s]
      BY <2>2, <2>3 DEF SameNodes, Side
    <3>2. SearchTree(t, t.key, M, D) /\ Kept(t, M, B)
      BY <1>1
    <3> QED
      BY <1>5, <2>4, <3>1, <3>2, BlackLeaf
  <2> QED
    BY <2>2, <2>3, <2>5 DEF SameNodes
<1>6. CASE t.root # Nil
  <2> DEFINE t1 == MakeNode(t, z, "red", s, y)
             t2 == PutChild(t1, g, y, z)
  <2>1. y \in M /\ y \in Node /\ g \in Side /\ y # Nil
    BY <1>2, <1>3, <1>4, <1>6, TreesAssumption DEF Place, Points, Linked
  <2>2. r = InsertFixUp(t2, z)
    BY <1>6, <2>1 DEF RbtreeInsert, InsertionParent, PutChild
  <2> HIDE DEF y, g, toward
  <2>3. /\ t1 \in Tree /\ t1.root = t.root
        /\ t1.color = [t.color EXCEPT ![z] = "red"] /\ t1.key = [t.key EXCEPT ![z] = s]
        /\ t1.parent = [t.parent EXCEPT ![z] = y]
        /\ \A q \in Side, m \in Node : t1.child[q][m] = IF m = z THEN Nil ELSE t.child[q][m]
    BY <1>1, <1>4, <2>1, MadeNode
  <2> HIDE DEF t1
  <2>4. SameNodes(t1, t2) /\ t2.root = t1.root /\ t2.parent = t1.parent /\ Relinked(t1, t2, g, y, z)
    BY <1>4, <2>1, <2>3, SetChild
  <2> HIDE DEF t2
  <2>5. Hung(t, t2, z, g, y)
    <3>1. \A p \in Side, n \in Node : t2.child[p][n] = IF n = z THEN Nil
                       ELSE IF n = y /\ y # Nil /\ p = g THEN z ELSE t.child[p][n]
      BY <1>4, <2>1, <2>3, <2>4 DEF Relinked
    <3>2. Links(t2) /\ t2.root = t.root /\ t2.parent = [t.parent EXCEPT ![z] = y]
      BY <1>4, <2>3, <2>4 DEF Links, SameNodes, Tree
    <3> QED
      BY <2>1, <3>1, <3>2 DEF Hung
  <2>6. t2 \in Tree /\ t2.color = [t.color EXCEPT ![z] = "red"] /\ t2.key = [t.key EXCEPT ![z] = s]
    BY <2>3, <2>4 DEF SameNodes
  <2>7. \E E, F : Fixing(t2, t2.key, M \union {z}, E, F, z)
    BY <1>1, <1>2, <1>3, <2>1, <2>5, <2>6, RedLeaf DEF g
  <2>8. r \in Tree /\ r.key = t2.key /\ \E E, F : SearchTree(r, t2.key, M \union {z}, E) /\ Kept(r, M \union {z}, F)
    BY <2>2, <2>7, InsertFixUpKeeps
  <2> QED
    BY <2>6, <2>8 DEF Valid
<1> QED
  BY <1>5, <1>6

-----------------------------------------------------------------------------
(* Repairing after an erasure.                                             *)

\* What holds in the loop of erase_fix_up: a black node is missing at the link to c, on side
\* a of its parent p, unless c is the root. c may be the sentinel, whose parent counts too.
Erasing(t, k, M, D, B, c, p, a) ==
  /\ SearchTree(t, k, M, D) /\ Coloured(t, M, B, p, a, c)
  /\ c \in M \union {Nil} /\ a \in Side /\ t.parent[c] = p
  /\ \/ p = Nil /\ c = t.root
     \/ p \in M /\ t.child[a][p] = c

\* Where the loop ends.
Cured(t, c) == c = t.root \/ Red(t, c)

\* The brother bro of c, when the loop goes on.
Brother(t, M, B, c, p, a, bro) ==
  /\ p \in M /\ p # c /\ SideOf(t, c) = a /\ t.child[a][p] = c /\ t.parent[c] = p
  /\ bro = t.child[Other(a)][p] /\ bro \in M /\ bro # p /\ bro # c /\ bro # t.root
  /\ B[bro] = B[c] + 1 /\ B[p] = Weight(t, p) + B[bro]
  /\ ~Red(t, c) /\ ~Red(t, t.root) /\ ~Red(t, Nil)
  /\ \A n \in M, q \in Side : ~(Red(t, n) /\ Red(t, t.child[q][n]))

\* There is one, since more black nodes hang there than below c.
LEMMA BrotherIs ==
  ASSUME NEW t, NEW k, NEW M, NEW D, NEW B, NEW c, NEW p, NEW a, Erasing(t, k, M, D, B, c, p, a), ~Cured(t, c)
  PROVE  Brother(t, M, B, c, p, a, t.child[Other(a)][p])
<1> DEFINE o == Other(a)
           bro == t.child[o][p]
<1>1. /\ t \in Tree /\ Linked(t, M) /\ Hanging(t, M, D) /\ Heights(t, M, B, p, a) /\ Apart(t, M, c)
      /\ c \in M \union {Nil} /\ a \in Side /\ t.parent[c] = p /\ p \in M /\ t.child[a][p] = c
      /\ ~Red(t, t.root) /\ ~Red(t, c) /\ c # t.root /\ ~Red(t, Nil)
  BY DEF Erasing, Cured, SearchTree, Coloured
<1>2. /\ o \in Side /\ o # a /\ Nil \notin M /\ Nil \in Node /\ M \subseteq Node /\ p # Nil /\ bro \in M \union {Nil}
      /\ \A q \in Side : q = a \/ q = o
  BY <1>1, TreesAssumption, Sides DEF Linked, Node
<1>3. /\ B[p] = Weight(t, p) + B[c] + 1 /\ B[p] = Weight(t, p) + B[bro] + 0
      /\ B[c] \in Nat /\ B[bro] \in Nat /\ B[p] \in Nat /\ Weight(t, p) \in Nat /\ B[Nil] = 0
  <2>1. Lack(p, a, p, a) = 1 /\ Lack(p, a, p, o) = 0
    BY <1>2 DEF Lack
  <2>2. /\ B[p] = Weight(t, p) + B[t.child[a][p]] + Lack(p, a, p, a)
        /\ B[p] = Weight(t, p) + B[t.child[o][p]] + Lack(p, a, p, o)
    BY <1>1, <1>2 DEF Heights
  <2>3. B \in [Node -> Nat] /\ B[Nil] = 0 /\ Weight(t, p) \in Nat /\ c \in Node /\ bro \in Node /\ p \in Node
    BY <1>1, <1>2 DEF Heights, Weight
  <2> HIDE DEF bro
  <2>4. B[p] = Weight(t, p) + B[c] + 1
    BY <1>1, <2>1, <2>2
  <2> QED
    BY <2>1, <2>2, <2>3, <2>4 DEF bro
<1>4. B[bro] = B[c] + 1 /\ B[p] = Weight(t, p) + B[bro]
  <2> HIDE DEF bro
  <2> QED
    BY <1>3
<1>5. bro \in M
  <2>1. B[bro] # 0
    BY <1>3, <1>4
  <2> QED
    BY <1>2, <1>3, <2>1
<1>6. bro # c /\ bro # p /\ p # c
  BY <1>1, <1>2, <1>5, Hangs
<1>7. bro # t.root
  BY <1>1, <1>2, <1>5 DEF Linked
<1>8. SideOf(t, c) = a
  BY <1>1, <1>2, <1>6 DEF SideOf, Side
<1>9. \A n \in M, q \in Side : ~(Red(t, n) /\ Red(t, t.child[q][n]))
  BY <1>1 DEF Apart
<1> QED
  BY <1>1, <1>2, <1>4, <1>5, <1>6, <1>7, <1>8, <1>9 DEF Brother

\* Two changes of colour before a rotation.
LEMMA PaintTwo ==
  ASSUME NEW t \in Tree, NEW m \in Node, NEW n \in Node, m # n, NEW c \in Colors, NEW d \in Colors,
         NEW r, r = Paint(Paint(t, m, c), n, d)
  PROVE  /\ r \in Tree /\ SameLinks(t, r) /\ r.key = t.key
         /\ r.color \in [Node -> Colors] /\ r.color[m] = c /\ r.color[n] = d
         /\ \A i \in Node \ {m, n} : r.color[i] = t.color[i]
<1> DEFINE t1 == Paint(t, m, c)
<1>1. /\ t1 \in Tree /\ t1.root = t.root /\ t1.child = t.child /\ t1.parent = t.parent
      /\ t1.color = [t.color EXCEPT ![m] = c] /\ t1.key = t.key
  BY SetColor
<1>2. r = Paint(t1, n, d)
  OBVIOUS
<1> HIDE DEF t1
<1>3. /\ r \in Tree /\ r.root = t1.root /\ r.child = t1.child /\ r.parent = t1.parent
      /\ r.color = [t1.color EXCEPT ![n] = d] /\ r.key = t1.key
  BY <1>1, <1>2, SetColor
<1>4. t.color \in [Node -> Colors] /\ t1.color \in [Node -> Colors]
  BY <1>1 DEF Tree
<1> QED
  BY <1>1, <1>3, <1>4 DEF SameLinks

\* A rotation of a repainted tree, which brings a red node y up.
LEMMA SwungIs ==
  ASSUME NEW t \in Tree, NEW M, NEW D, NEW k, SearchTree(t, k, M, D), NEW s \in Side, NEW x \in M,
         NEW y, y = t.child[Other(s)][x], y # Nil, Red(t, y), t.color[x] = "black",
         NEW u, u = Paint(Paint(t, y, "black"), x, "red"), NEW r, r = Rotate(u, x, s)
  PROVE  Swung(t, r, M, s, x) /\ r.key = t.key /\ r.parent[Nil] = t.parent[Nil]
<1>1. /\ Linked(t, M) /\ Hanging(t, M, D) /\ M \subseteq Node /\ y \in M /\ y # x
      /\ "red" \in Colors /\ "black" \in Colors
  BY Around DEF SearchTree, Linked, Node, Colors
<1>2. /\ u \in Tree /\ SameLinks(t, u) /\ u.key = t.key /\ u.color \in [Node -> Colors]
      /\ u.color[y] = "black" /\ u.color[x] = "red" /\ \A i \in Node \ {x, y} : u.color[i] = t.color[i]
  <2>1. t \in Tree /\ y \in Node /\ x \in Node /\ y # x /\ u = Paint(Paint(t, y, "black"), x, "red")
    BY <1>1
  <2> QED
    BY ONLY <1>1, <2>1, PaintTwo
<1>3. SearchTree(u, k, M, D)
  BY <1>2, Repainted
<1>4. SameNodes(u, r) /\ Rotated(u, r, M, s, x) /\ r.parent[Nil] = u.parent[Nil]
  <2>1. u.child[Other(s)][x] # Nil /\ Linked(u, M) /\ Hanging(u, M, D)
    BY <1>2, <1>3 DEF SameLinks, SearchTree
  <2> QED
    BY <1>2, <2>1, RotateIs
<1>5. Rotated(t, r, M, s, x) /\ r.parent[Nil] = t.parent[Nil] /\ r.key = t.key /\ r \in Tree
  BY <1>2, <1>4, Repainted DEF SameNodes, SameLinks
<1>6. r.color = [t.color EXCEPT ![x] = "red", ![t.child[Other(s)][x]] = t.color[x]]
  <2>1. t.color \in [Node -> Colors] /\ r.color = u.color /\ x \in Node /\ y \in Node
    BY <1>1, <1>4 DEF SameNodes, Tree
  <2>2. r.color = [t.color EXCEPT ![x] = "red", ![y] = t.color[x]]
    BY <1>1, <1>2, <2>1
  <2> QED
    BY <2>2
<1> QED
  BY <1>5, <1>6 DEF Swung

\* A red brother goes up, and c has a black brother below a red parent.
LEMMA RedBrotherKeeps ==
  ASSUME NEW t, NEW k, NEW M, NEW D, NEW B, NEW c, NEW p, NEW a, Erasing(t, k, M, D, B, c, p, a), ~Cured(t, c),
         Red(t, t.child[Other(a)][p]), NEW r, r = RedBrother(t, c, a)
  PROVE  /\ r.key = t.key /\ ~Cured(r, c) /\ ~Red(r, r.child[Other(a)][p]) /\ Red(r, p)
         /\ \E E, F : Erasing(r, k, M, E, F, c, p, a)
<1> DEFINE o == Other(a)
           bro == t.child[o][p]
           E == Turned(t, D, a, p)
           F == [B EXCEPT ![p] = B[bro], ![bro] = B[p]]
           u == Paint(Paint(t, bro, "black"), p, "red")
<1>1. Brother(t, M, B, c, p, a, bro)
  BY BrotherIs
<1>2. /\ t \in Tree /\ SearchTree(t, k, M, D) /\ Linked(t, M) /\ Hanging(t, M, D) /\ Heights(t, M, B, p, a)
      /\ c \in M \union {Nil} /\ a \in Side /\ c # t.root
  BY DEF Erasing, Cured, SearchTree, Coloured
<1>3. /\ o \in Side /\ o # a /\ Nil \notin M /\ Nil \in Node /\ M \subseteq Node /\ p \in M /\ bro \in M /\ bro # Nil /\ bro # p
      /\ c # p /\ bro # c /\ t.child[a][p] = c /\ t.parent[c] = p
      /\ \A q \in Side : q = a \/ q = o
  BY <1>1, <1>2, TreesAssumption, Sides DEF Linked, Node, Brother
<1>4. r = Rotate(u, p, a)
  BY <1>1 DEF RedBrother, Red, Brother
<1>5. t.color[p] = "black" /\ ~Red(t, p)
  <2>1. ~Red(t, p)
    BY <1>1, <1>3 DEF Brother
  <2> QED
    BY <1>2, <1>3, <2>1 DEF Red, Tree, Colors
<1>6. Swung(t, r, M, a, p) /\ r.key = t.key /\ r.parent[Nil] = t.parent[Nil]
  <2>1. bro = t.child[Other(a)][p] /\ Red(t, bro)
    OBVIOUS
  <2>2. u = Paint(Paint(t, bro, "black"), p, "red")
    OBVIOUS
  <2> HIDE DEF u, bro, o
  <2> QED
    BY <1>2, <1>3, <1>4, <1>5, <2>1, <2>2, SwungIs
<1>7. SearchTree(r, k, M, E)
  <2>1. Rotated(t, r, M, a, p) /\ t.child[Other(a)][p] # Nil
    BY <1>3, <1>6 DEF Swung
  <2> QED
    BY <1>2, <1>3, <2>1, RotationKeeps
<1>8. Heights(r, M, F, p, a)
  <2>1. bro = t.child[Other(a)][p] /\ p # bro /\ (p = p => a # Other(a)) /\ F = [B EXCEPT ![p] = B[bro], ![bro] = B[p]]
    BY <1>3
  <2>2. bro # Nil /\ p \in M /\ a \in Side /\ Swung(t, r, M, a, p)
    BY <1>2, <1>3, <1>6
  <2> HIDE DEF bro
  <2> QED
    BY <1>2, <2>1, <2>2, SwingHeights
<1>9. ~Red(r, Nil) /\ ~Red(r, r.root) /\ Apart(r, M, Nil)
  <2>1. bro = t.child[Other(a)][p] /\ ~Red(t, t.child[a][bro]) /\ ~Red(t, t.child[a][p]) /\ ~Red(t, t.root) /\ ~Red(t, Nil)
    BY <1>1, <1>2, <1>3 DEF Brother
  <2>2. \A n \in M \ {p, bro}, q \in Side : ~(Red(t, n) /\ Red(t, t.child[q][n]))
    BY <1>1 DEF Brother
  <2> HIDE DEF bro, o
  <2>3. ~Red(r, Nil) /\ ~Red(r, r.root) /\ Apart(r, M, IF Red(t, p) THEN p ELSE Nil)
    BY <1>2, <1>3, <1>5, <1>6, <2>1, <2>2, SwingApart
  <2> QED
    BY <1>5, <2>3
<1>10. /\ r.child[a][p] = c /\ r.child[o][p] = t.child[a][bro] /\ r.root = IF t.root = p THEN bro ELSE t.root
       /\ \A n \in M : r.parent[n] = IF n = p THEN bro ELSE IF n = bro THEN t.parent[p]
                                     ELSE IF n = t.child[a][bro] THEN p ELSE t.parent[n]
  BY <1>2, <1>3, <1>6 DEF Swung, Rotated
<1>11. r.parent[c] = p
  BY <1>2, <1>3, <1>6, <1>10
<1>12. /\ r.color[p] = "red" /\ r.color[bro] = "black" /\ \A n \in Node \ {p, bro} : r.color[n] = t.color[n]
  BY <1>2, <1>3, <1>5, <1>6 DEF Swung, Tree
<1>13. ~Cured(r, c) /\ Red(r, p)
  BY <1>1, <1>2, <1>3, <1>10, <1>12 DEF Cured, Red, Brother
<1>14. ~Red(r, r.child[o][p])
  <2>1. t.child[a][bro] \in (M \union {Nil}) \ {p, bro} /\ ~Red(t, t.child[a][bro])
    BY <1>1, <1>2, <1>3, Around DEF Brother
  <2> QED
    BY <1>3, <1>10, <1>12, <2>1 DEF Red
<1>15. Erasing(r, k, M, E, F, c, p, a)
  <2>1. r \in Tree /\ Apart(r, M, c)
    BY <1>3, <1>6, <1>9 DEF Swung, Apart
  <2> HIDE DEF E, F
  <2> QED
    BY <1>2, <1>3, <1>7, <1>8, <1>9, <1>10, <1>11, <2>1 DEF Erasing, Coloured
<1> QED
  BY <1>6, <1>13, <1>14, <1>15

\* With black nephews the brother gets red, and what is missing is missing above.
LEMMA BlackNephewsKeep ==
  ASSUME NEW t, NEW k, NEW M, NEW D, NEW B, NEW c, NEW p, NEW a, Erasing(t, k, M, D, B, c, p, a), ~Cured(t, c),
         NEW bro, bro = t.child[Other(a)][p], ~Red(t, bro), \A q \in Side : ~Red(t, t.child[q][bro]),
         NEW r, r = Paint(t, bro, "red")
  PROVE  r.key = t.key /\ \E F, b : Erasing(r, k, M, D, F, p, t.parent[p], b)
<1> DEFINE o == Other(a)
           g == t.parent[p]
           b == IF p = t.root THEN "left" ELSE SideOf(t, p)
           F == [B EXCEPT ![bro] = B[bro] - 1, ![p] = B[p] - 1]
<1>1. Brother(t, M, B, c, p, a, bro)
  BY BrotherIs
<1>2. /\ t \in Tree /\ SearchTree(t, k, M, D) /\ Linked(t, M) /\ Hanging(t, M, D) /\ Heights(t, M, B, p, a)
      /\ c \in M \union {Nil} /\ a \in Side
  BY DEF Erasing, SearchTree, Coloured
<1>3. /\ o \in Side /\ o # a /\ Nil \notin M /\ Nil \in Node /\ M \subseteq Node /\ p \in M /\ bro \in M
      /\ bro # Nil /\ bro # p /\ bro = t.child[o][p] /\ t.root \in M \union {Nil}
      /\ c # p /\ bro # c /\ t.child[a][p] = c /\ p # Nil
      /\ \A q \in Side, n \in M : t.child[q][n] \in M \union {Nil}
      /\ \A q \in Side : q = a \/ q = o
  BY <1>1, <1>2, TreesAssumption, Sides DEF Linked, Node, Brother
<1>4. r \in Tree /\ SameLinks(t, r) /\ r.key = t.key /\ r.color = [t.color EXCEPT ![bro] = "red"]
  <2>1. "red" \in Colors /\ bro \in Node
    BY <1>3 DEF Colors
  <2> QED
    BY <1>2, <2>1, SetColor DEF SameLinks
<1>5. /\ r.root = t.root /\ r.child = t.child /\ r.parent = t.parent
      /\ r.color[bro] = "red" /\ \A n \in Node \ {bro} : r.color[n] = t.color[n]
  BY <1>2, <1>3, <1>4 DEF SameLinks, Tree
<1>6. /\ b \in Side
      /\ \/ g = Nil /\ p = t.root
         \/ g \in M /\ t.child[b][g] = p
      /\ \A n \in M, q \in Side : t.child[q][n] = p <=> g \in M /\ n = g /\ q = b
      /\ g # p
  <2>1. CASE p = t.root
    <3>1. g = Nil
      BY <1>2, <1>3, <2>1 DEF Linked
    <3>2. \A n \in M, q \in Side : t.child[q][n] # p
      BY <1>2, <1>3, <3>1 DEF Linked
    <3> QED
      BY <1>3, <2>1, <3>1, <3>2 DEF Side
  <2>2. CASE p # t.root
    <3>1. /\ g \in M /\ g # p /\ b \in Side /\ t.child[b][g] = p
          /\ \A m \in M, q \in Side : t.child[q][m] = p => m = g /\ q = b
      BY <1>2, <1>3, <2>2, SideOfIs
    <3> QED
      BY <3>1
  <2> QED
    BY <2>1, <2>2
<1> HIDE DEF b, g
<1>7. /\ B \in [Node -> Nat] /\ B[bro] - 1 \in Nat /\ B[p] - 1 \in Nat /\ B[Nil] = 0
      /\ B[bro] = B[c] + 1 /\ B[p] = Weight(t, p) + B[bro]
  <2>1. B \in [Node -> Nat] /\ B[Nil] = 0 /\ c \in Node /\ Weight(t, p) \in Nat
    BY <1>2, <1>3 DEF Heights, Weight
  <2> QED
    BY <1>1, <1>3, <2>1 DEF Brother
<1>8. /\ F \in [Node -> Nat] /\ F[bro] = B[bro] - 1 /\ F[p] = B[p] - 1 /\ F[Nil] = 0
      /\ \A n \in Node \ {bro, p} : F[n] = B[n]
  <2>1. bro \in Node /\ p \in Node
    BY <1>3
  <2> QED
    BY <1>3, <1>7, <2>1
<1> HIDE DEF F
<1>9. ASSUME NEW n \in M, NEW q \in Side
      PROVE  F[n] = Weight(r, n) + F[r.child[q][n]] + Lack(g, b, n, q)
  <2> DEFINE m == t.child[q][n]
  <2>1. B[n] = Weight(t, n) + B[m] + Lack(p, a, n, q)
    BY <1>2 DEF Heights
  <2>2. m \in Node /\ m \in M \union {Nil} /\ n \in Node /\ B[n] \in Nat /\ B[m] \in Nat /\ Weight(t, n) \in Nat
    BY <1>3, <1>7 DEF Weight
  <2>3. m = bro => n = p /\ q = o
    <3>1. m = bro => n = p
      BY <1>2, <1>3 DEF Linked
    <3> QED
      BY <1>3, <3>1
  <2>4. Lack(g, b, n, q) = IF m = p THEN 1 ELSE 0
    BY <1>3, <1>6 DEF Lack
  <2>5. r.child[q][n] = m
    BY <1>5
  <2>6. m # n
    BY <1>2, Hangs
  <2> HIDE DEF m
  <2>7. CASE n = p
    <3>1. F[n] = B[n] - 1 /\ Weight(r, n) = Weight(t, n) /\ Lack(g, b, n, q) = 0
      BY <1>3, <1>5, <1>8, <2>2, <2>4, <2>6, <2>7 DEF Weight
    <3>2. CASE q = a
      <4>1. m = c /\ F[m] = B[m] /\ B[c] \in Nat
        BY <1>3, <1>8, <2>2, <2>7, <3>2 DEF m
      <4>2. B[n] = Weight(t, n) + B[bro] /\ B[bro] = B[m] + 1
        BY <1>7, <2>7, <4>1
      <4> QED
        BY <2>2, <2>5, <3>1, <4>1, <4>2
    <3>3. CASE q = o
      <4>1. m = bro /\ F[m] = B[m] - 1
        BY <1>3, <1>8, <2>7, <3>3 DEF m
      <4>2. B[n] = Weight(t, n) + B[m]
        BY <1>7, <2>7, <4>1
      <4> QED
        BY <2>2, <2>5, <3>1, <4>1, <4>2
    <3> QED
      BY <1>3, <3>2, <3>3
  <2>8. CASE n = bro
    <3>1. Lack(p, a, n, q) = 0 /\ m # p /\ m # bro
      <4>1. m # p
        <5>1. m \in {t.child["left"][bro], t.child["right"][bro]} /\ bro = t.child[Other(a)][p]
          BY <1>3, <2>8 DEF m, Side
        <5>2. t.child[a][bro] # p /\ t.child[Other(a)][bro] # p
          BY <1>2, <1>3, Around
        <5>3. t.child[q][bro] # p
          BY <1>3, <5>2
        <5> QED
          BY <2>8, <5>3 DEF m
      <4> QED
        BY <1>3, <2>6, <2>8, <4>1 DEF Lack
    <3>2. Weight(t, n) = 1 /\ Weight(r, n) = 0
      <4>1. t.color[bro] = "black"
        BY <1>2, <1>3 DEF Red, Tree, Colors
      <4> QED
        BY <1>5, <2>8, <4>1 DEF Weight
    <3>3. F[n] = B[n] - 1 /\ F[m] = B[m] /\ Lack(g, b, n, q) = 0
      BY <1>8, <2>2, <2>4, <2>8, <3>1
    <3> QED
      BY <2>1, <2>2, <2>5, <3>1, <3>2, <3>3
  <2>9. CASE n \notin {p, bro}
    <3>1. Lack(p, a, n, q) = 0 /\ Weight(r, n) = Weight(t, n) /\ F[n] = B[n] /\ m # bro
      BY <1>5, <1>8, <2>2, <2>3, <2>9 DEF Lack, Weight
    <3>2. CASE m = p
      <4>1. F[m] = B[m] - 1 /\ Lack(g, b, n, q) = 1
        BY <1>8, <2>4, <3>2
      <4> QED
        BY <2>1, <2>2, <2>5, <3>1, <4>1
    <3>3. CASE m # p
      <4>1. F[m] = B[m] /\ Lack(g, b, n, q) = 0
        BY <1>8, <2>2, <2>4, <3>1, <3>3
      <4> QED
        BY <2>1, <2>2, <2>5, <3>1, <4>1
    <3> QED
      BY <3>2, <3>3
  <2> QED
    BY <2>7, <2>8, <2>9
<1>10. Heights(r, M, F, g, b)
  BY <1>8, <1>9 DEF Heights
<1>11. Apart(r, M, p) /\ ~Red(r, Nil) /\ ~Red(r, r.root)
  <2>1. \A n \in Node \ {bro} : Red(r, n) <=> Red(t, n)
    BY <1>5 DEF Red
  <2>2. ASSUME NEW n \in M, NEW q \in Side, Red(r, n), Red(r, r.child[q][n]), p \notin {n, r.child[q][n]} PROVE FALSE
    <3>1. r.child[q][n] = t.child[q][n] /\ t.child[q][n] \in Node
      BY <1>3, <1>5
    <3>2. n # bro
      <4>1. ASSUME n = bro PROVE FALSE
        <5>1. t.child[q][bro] # bro /\ ~Red(t, t.child[q][bro])
          BY <1>2, <1>3, Hangs
        <5> QED
          BY <2>1, <2>2, <3>1, <4>1, <5>1
      <4> QED
        BY <4>1
    <3>3. t.child[q][n] # bro
      BY <1>2, <1>3, <2>2 DEF Linked
    <3> QED
      BY <1>1, <1>3, <2>1, <2>2, <3>1, <3>2, <3>3 DEF Brother
  <2> QED
    BY <1>1, <1>3, <1>5, <2>1, <2>2 DEF Apart, Brother
<1>12. SearchTree(r, k, M, D)
  BY <1>2, <1>4, Repainted
<1>13. Erasing(r, k, M, D, F, p, g, b)
  BY <1>3, <1>4, <1>5, <1>6, <1>10, <1>11, <1>12 DEF Erasing, Coloured, g
<1> QED
  BY <1>4, <1>13 DEF g

\* A red near nephew goes up to the brother's place, and then the far one is red.
LEMMA RedNephewKeeps ==
  ASSUME NEW t, NEW k, NEW M, NEW D, NEW B, NEW c, NEW p, NEW a, Erasing(t, k, M, D, B, c, p, a), ~Cured(t, c),
         NEW bro, bro = t.child[Other(a)][p], ~Red(t, bro), ~Red(t, t.child[Other(a)][bro]), Red(t, t.child[a][bro]),
         NEW r, r = RedNephew(t, c, a)
  PROVE  /\ r.key = t.key /\ ~Cured(r, c) /\ ~Red(r, r.child[Other(a)][p])
         /\ Red(r, r.child[Other(a)][r.child[Other(a)][p]])
         /\ \E E, F : Erasing(r, k, M, E, F, c, p, a)
<1> DEFINE o == Other(a)
           near == t.child[a][bro]
           E == Turned(t, D, o, bro)
           F == [B EXCEPT ![bro] = B[near], ![near] = B[bro]]
           u == Paint(Paint(t, near, "black"), bro, "red")
<1>1. Brother(t, M, B, c, p, a, bro)
  BY BrotherIs
<1>2. /\ t \in Tree /\ SearchTree(t, k, M, D) /\ Linked(t, M) /\ Hanging(t, M, D) /\ Heights(t, M, B, p, a)
      /\ c \in M \union {Nil} /\ a \in Side /\ c # t.root
  BY DEF Erasing, Cured, SearchTree, Coloured
<1>3. /\ o \in Side /\ o # a /\ Other(o) = a /\ Nil \notin M /\ Nil \in Node /\ M \subseteq Node
      /\ p \in M /\ bro \in M /\ bro # Nil /\ bro # p /\ bro = t.child[o][p] /\ bro # t.root
      /\ c # p /\ bro # c /\ t.child[a][p] = c /\ t.parent[c] = p
      /\ \A q \in Side : q = a \/ q = o
  BY <1>1, <1>2, TreesAssumption, Sides DEF Linked, Node, Brother
<1>4. near \in M /\ near # Nil /\ near # bro /\ near # p /\ t.parent[near] = bro /\ near # c
  <2>1. near \in M /\ near # Nil
    BY <1>1, <1>2, <1>3 DEF Brother, Linked
  <2>2. t.child[a][bro] \in (M \union {Nil}) \ {p, bro}
    BY <1>2, <1>3, Around
  <2>3. t.parent[near] = bro
    BY <1>2, <1>3, <2>1 DEF Linked
  <2> QED
    BY <1>3, <2>1, <2>2, <2>3
<1>5. r = Rotate(u, bro, o)
  BY <1>1 DEF RedNephew, Red, Brother
<1>6. t.color[bro] = "black" /\ near = t.child[Other(o)][bro] /\ Red(t, near)
  BY <1>2, <1>3 DEF Red, Tree, Colors
<1>7. Swung(t, r, M, o, bro) /\ r.key = t.key /\ r.parent[Nil] = t.parent[Nil]
  <2>1. u = Paint(Paint(t, near, "black"), bro, "red")
    OBVIOUS
  <2> HIDE DEF u, near, o
  <2> QED
    BY ONLY <1>2, <1>3, <1>4, <1>5, <1>6, <2>1, SwungIs
<1>8. SearchTree(r, k, M, E)
  <2>1. Rotated(t, r, M, o, bro) /\ t.child[Other(o)][bro] # Nil
    BY <1>3, <1>4, <1>7 DEF Swung
  <2> HIDE DEF o, near
  <2> QED
    BY <1>2, <1>3, <2>1, RotationKeeps
<1>9. Heights(r, M, F, p, a)
  <2>1. /\ near = t.child[Other(o)][bro] /\ near # Nil /\ p # near /\ (p = bro => a # Other(o))
        /\ F = [B EXCEPT ![bro] = B[near], ![near] = B[bro]]
    BY <1>3, <1>4
  <2>2. Swung(t, r, M, o, bro) /\ o \in Side /\ bro \in M
    BY <1>3, <1>7
  <2> HIDE DEF near, o
  <2> QED
    BY <1>2, <2>1, <2>2, SwingHeights
<1>10. ~Red(r, Nil) /\ ~Red(r, r.root) /\ Apart(r, M, Nil)
  <2>1. /\ near = t.child[Other(o)][bro] /\ near # Nil /\ ~Red(t, t.child[o][near]) /\ ~Red(t, t.child[o][bro])
        /\ ~Red(t, t.root) /\ ~Red(t, Nil) /\ ~Red(t, bro)
    BY <1>1, <1>3, <1>4, <1>6 DEF Brother
  <2>2. \A n \in M \ {bro, near}, q \in Side : ~(Red(t, n) /\ Red(t, t.child[q][n]))
    BY <1>1 DEF Brother
  <2> HIDE DEF near, o
  <2>3. ~Red(r, Nil) /\ ~Red(r, r.root) /\ Apart(r, M, IF Red(t, bro) THEN bro ELSE Nil)
    BY <1>2, <1>3, <1>7, <2>1, <2>2, SwingApart
  <2> QED
    BY <2>1, <2>3
<1>11. /\ r.child[a][p] = c /\ r.child[o][p] = near /\ r.child[o][near] = bro /\ r.root = t.root
       /\ \A n \in M : r.parent[n] = IF n = bro THEN near ELSE IF n = near THEN t.parent[bro]
                                     ELSE IF n = t.child[o][near] THEN bro ELSE t.parent[n]
  <2>1. Rotated(t, r, M, o, bro)
    BY <1>7 DEF Swung
  <2> HIDE DEF o
  <2> QED
    BY ZenonT(60), <1>2, <1>3, <1>4, <2>1 DEF Rotated
<1>12. r.parent[c] = p
  <2>1. c \in M => c # t.child[o][near]
    <3>1. t.child[o][near] # Nil => t.parent[t.child[o][near]] = near
      BY ONLY <1>2, <1>3, <1>4 DEF Linked
    <3> QED
      BY <1>3, <1>4, <3>1
  <2> QED
    BY <1>2, <1>3, <1>4, <1>7, <1>11, <2>1
<1>13. /\ r.color[bro] = "red" /\ r.color[near] = "black" /\ \A n \in Node \ {bro, near} : r.color[n] = t.color[n]
  BY <1>2, <1>3, <1>4, <1>6, <1>7 DEF Swung, Tree
<1>14. ~Cured(r, c) /\ ~Red(r, r.child[o][p]) /\ Red(r, r.child[o][r.child[o][p]])
  BY ONLY <1>1, <1>2, <1>3, <1>4, <1>11, <1>13 DEF Cured, Red, Brother
<1>15. Erasing(r, k, M, E, F, c, p, a)
  <2>1. r \in Tree /\ Apart(r, M, c)
    BY <1>3, <1>7, <1>10 DEF Swung, Apart
  <2> HIDE DEF E, F
  <2> QED
    BY <1>2, <1>3, <1>8, <1>9, <1>10, <1>11, <1>12, <2>1 DEF Erasing, Coloured
<1> QED
  BY <1>7, <1>14, <1>15

\* A red far nephew gets black and the parent goes down: nothing is missing any more.
LEMMA RedFarNephewKeeps ==
  ASSUME NEW t, NEW k, NEW M, NEW D, NEW B, NEW c, NEW p, NEW a, Erasing(t, k, M, D, B, c, p, a), ~Cured(t, c),
         NEW bro, bro = t.child[Other(a)][p], ~Red(t, bro), Red(t, t.child[Other(a)][bro]),
         NEW r, r = RedFarNephew(t, c, a)
  PROVE  r \in Tree /\ r.key = t.key /\ \E E, F : SearchTree(r, k, M, E) /\ Kept(r, M, F)
<1> DEFINE o == Other(a)
           f == t.child[o][bro]
           near == t.child[a][bro]
           E == Turned(t, D, a, p)
           b == B[c] + 1
           F == [B EXCEPT ![p] = b, ![bro] = B[p]]
           u == Paint(Paint(t, bro, t.color[p]), p, "black")
           w == Paint(u, f, "black")
           v == Paint(r, f, "red")
           e == Paint(v, f, "black")
<1>1. Brother(t, M, B, c, p, a, bro)
  BY BrotherIs
<1>2. /\ t \in Tree /\ SearchTree(t, k, M, D) /\ Linked(t, M) /\ Hanging(t, M, D) /\ Heights(t, M, B, p, a)
      /\ c \in M \union {Nil} /\ a \in Side /\ c # t.root
  BY DEF Erasing, Cured, SearchTree, Coloured
<1>3. /\ o \in Side /\ o # a /\ Nil \notin M /\ Nil \in Node /\ M \subseteq Node
      /\ p \in M /\ bro \in M /\ bro # Nil /\ bro # p /\ bro = t.child[o][p] /\ bro # t.root
      /\ c # p /\ bro # c /\ t.child[a][p] = c /\ t.parent[c] = p
      /\ \A q \in Side : q = a \/ q = o
  BY <1>1, <1>2, TreesAssumption, Sides DEF Linked, Node, Brother
<1>4. f \in M /\ f # Nil /\ f # bro /\ f # p /\ near \in (M \union {Nil}) \ {p, bro} /\ Red(t, f)
  <2>1. f \in M /\ f # Nil
    BY <1>1, <1>2, <1>3 DEF Brother, Linked
  <2>2. t.child[a][bro] \in (M \union {Nil}) \ {p, bro} /\ t.child[Other(a)][bro] \in (M \union {Nil}) \ {p, bro}
    BY <1>2, <1>3, Around
  <2> QED
    BY <2>1, <2>2
<1>5. "red" \in Colors /\ "black" \in Colors /\ t.color[p] \in Colors /\ t.color[bro] = "black" /\ t.color \in [Node -> Colors]
  BY <1>2, <1>3 DEF Colors, Tree, Red
<1>6. /\ u \in Tree /\ SameLinks(t, u) /\ u.key = t.key /\ u.color \in [Node -> Colors]
      /\ u.color[bro] = t.color[p] /\ u.color[p] = "black"
      /\ \A i \in Node \ {bro, p} : u.color[i] = t.color[i]
  <2> DEFINE col == t.color[p]
  <2>1. u = Paint(Paint(t, bro, col), p, "black") /\ col \in Colors
    BY <1>5
  <2> HIDE DEF col, u
  <2>2. /\ u \in Tree /\ SameLinks(t, u) /\ u.key = t.key /\ u.color \in [Node -> Colors]
        /\ u.color[bro] = col /\ u.color[p] = "black" /\ \A i \in Node \ {bro, p} : u.color[i] = t.color[i]
    <3>1. t \in Tree /\ bro \in Node /\ p \in Node /\ bro # p /\ col \in Colors /\ "black" \in Colors
      BY <1>2, <1>3, <1>5, <2>1
    <3> QED
      BY <2>1, <3>1, PaintTwo
  <2> QED
    BY <2>2 DEF col
<1>7. r = Rotate(w, p, a)
  <2>1. u.child = t.child
    BY <1>6 DEF SameLinks
  <2> QED
    BY <1>1, <2>1 DEF RedFarNephew, Brother
<1> HIDE DEF u, f, near
<1>8. w \in Tree /\ SameLinks(t, w) /\ w.key = t.key /\ w.color = [u.color EXCEPT ![f] = "black"]
  BY <1>3, <1>4, <1>5, <1>6, SetColor DEF SameLinks
<1> HIDE DEF w
<1>9. SameNodes(w, r) /\ Rotated(t, r, M, a, p)
  <2>1. SearchTree(w, k, M, D)
    BY <1>2, <1>8, Repainted
  <2>2. Linked(w, M) /\ Hanging(w, M, D) /\ w.child[Other(a)][p] # Nil
    BY <1>3, <1>8, <2>1 DEF SearchTree, SameLinks
  <2>3. SameNodes(w, r) /\ Rotated(w, r, M, a, p)
    BY <1>2, <1>3, <1>7, <1>8, <2>2, RotateIs
  <2> QED
    BY <1>8, <2>3, Repainted
<1>10. v \in Tree /\ SameLinks(r, v) /\ v.key = r.key /\ v.color = [r.color EXCEPT ![f] = "red"]
  <2>1. r \in Tree
    BY <1>9 DEF SameNodes
  <2> QED
    BY <1>3, <1>4, <1>5, <2>1, SetColor DEF SameLinks
<1> HIDE DEF v
<1>11. Rotated(t, v, M, a, p)
  BY <1>9, <1>10 DEF Rotated, SameLinks, Links
<1>12. /\ v.color[p] = "black" /\ v.color[bro] = t.color[p]
       /\ \A i \in Node \ {bro, p} : v.color[i] = t.color[i]
  <2>1. r.color = w.color /\ t.color[f] = "red"
    BY <1>4, <1>9 DEF SameNodes, Red
  <2> QED
    BY <1>3, <1>4, <1>5, <1>6, <1>8, <1>10, <2>1
<1>13. SearchTree(v, k, M, E)
  <2>1. t.child[Other(a)][p] # Nil
    BY <1>3
  <2> QED
    BY <1>2, <1>3, <1>11, <2>1, RotationKeeps
<1>14. /\ B \in [Node -> Nat] /\ B[c] \in Nat /\ B[near] = B[c] /\ B[f] = B[c] /\ B[bro] = B[c] + 1
       /\ B[p] = Weight(t, p) + B[bro] /\ Weight(t, p) \in Nat
  <2>1. B \in [Node -> Nat] /\ c \in Node /\ near \in Node /\ f \in Node /\ Weight(t, p) \in Nat
    BY <1>2, <1>3, <1>4 DEF Heights, Weight
  <2>2. Weight(t, bro) = 1 /\ Lack(p, a, bro, a) = 0 /\ Lack(p, a, bro, o) = 0
    BY <1>3, <1>5 DEF Weight, Lack
  <2>3. B[bro] = Weight(t, bro) + B[near] + Lack(p, a, bro, a) /\ B[bro] = Weight(t, bro) + B[f] + Lack(p, a, bro, o)
    BY <1>2, <1>3 DEF Heights, f, near
  <2>4. B[bro] = 1 + B[near] + 0 /\ B[bro] = 1 + B[f] + 0 /\ B[bro] = B[c] + 1 /\ B[near] \in Nat /\ B[f] \in Nat /\ B[c] \in Nat
    BY <1>1, <2>1, <2>2, <2>3 DEF Brother
  <2>5. B[near] = B[c] /\ B[f] = B[c]
    BY <2>4
  <2> QED
    BY <1>1, <2>1, <2>4, <2>5 DEF Brother
<1>15. Level(t, v, B, a, p, bro, b, bro, o)
  <2>1. Weight(v, p) = 1 /\ Weight(v, bro) = Weight(t, p)
    BY <1>12 DEF Weight
  <2>2. Lack(bro, o, p, a) = 0 /\ Lack(bro, o, p, o) = 0 /\ Lack(bro, o, bro, a) = 0 /\ Lack(bro, o, bro, o) = 1
    BY <1>3 DEF Lack
  <2>3. /\ b = Weight(v, p) + B[c] + Lack(bro, o, p, a)
        /\ b = Weight(v, p) + B[near] + Lack(bro, o, p, o)
        /\ B[p] = Weight(v, bro) + b + Lack(bro, o, bro, a)
        /\ B[p] = Weight(v, bro) + B[f] + Lack(bro, o, bro, o)
    BY <1>14, <2>1, <2>2
  <2> HIDE DEF b
  <2> QED
    BY <1>3, <2>3 DEF Level, f, near
<1>16. Elsewhere(t, v, M, p, bro, p, a, bro, o)
  BY <1>3, <1>12 DEF Elsewhere, Lack
<1>17. Heights(v, M, F, bro, o)
  <2>1. bro = t.child[Other(a)][p] /\ b \in Nat /\ F = [B EXCEPT ![p] = b, ![bro] = B[p]]
    BY <1>3, <1>14
  <2> HIDE DEF b, F, o
  <2> QED
    BY <1>2, <1>3, <1>11, <1>15, <1>16, <2>1, HeightsTurned
<1>18. /\ v.child[a][p] = c /\ v.child[o][p] = near /\ v.child[a][bro] = p /\ v.child[o][bro] = f
       /\ v.root = IF t.root = p THEN bro ELSE t.root
       /\ \A n \in M \ {p, bro}, q \in Side : v.child[q][n] = IF t.child[q][n] = p THEN bro ELSE t.child[q][n]
  BY <1>2, <1>3, <1>4, <1>11 DEF Rotated, f, near
<1>19. /\ ~Red(v, p) /\ (Red(v, bro) <=> Red(t, p)) /\ \A n \in Node \ {p, bro} : Red(v, n) <=> Red(t, n)
  BY <1>12 DEF Red
<1>20. ~Red(v, Nil) /\ ~Red(v, v.root) /\ Red(v, f)
  <2>1. t.root \in M \union {Nil}
    BY <1>2 DEF Linked
  <2> QED
    BY <1>1, <1>3, <1>4, <1>18, <1>19, <2>1 DEF Brother
<1>21. Apart(v, M, f)
  <2>1. ASSUME NEW n \in M, NEW q \in Side, Red(v, n), Red(v, v.child[q][n]) PROVE v.child[q][n] = f
    <3>1. CASE n = bro
      BY <1>3, <1>18, <1>19, <2>1, <3>1
    <3>2. CASE n # bro
      <4>1. n \in M \ {p, bro} /\ Red(t, n)
        BY <1>3, <1>19, <2>1, <3>2
      <4>2. CASE t.child[q][n] = p
        <5>1. Red(t, p)
          BY <1>18, <1>19, <2>1, <4>1, <4>2
        <5> QED
          BY <1>1, <4>1, <4>2, <5>1 DEF Brother
      <4>3. CASE t.child[q][n] # p
        <5>1. t.child[q][n] \in Node \ {p, bro}
          BY <1>2, <1>3, <4>1, <4>3 DEF Linked
        <5> QED
          BY <1>1, <1>18, <1>19, <2>1, <4>1, <4>3, <5>1 DEF Brother
      <4> QED
        BY <4>2, <4>3
    <3> QED
      BY <3>1, <3>2
  <2> QED
    BY <2>1 DEF Apart
<1>22. Coloured(v, M, F, bro, o, f)
  BY <1>10, <1>17, <1>20, <1>21 DEF Coloured
<1>23. PICK G : SameLinks(v, e) /\ e \in Tree /\ Kept(e, M, G)
  <2>1. /\ f \in M \union {Nil} /\ o \in Side /\ e = Paint(v, f, "black")
        /\ \/ bro = Nil /\ f = v.root
           \/ bro \in M /\ v.child[o][bro] = f /\ Red(v, f)
    BY <1>3, <1>4, <1>18, <1>20
  <2> HIDE DEF E, F, e, o
  <2> QED
    BY <1>13, <1>22, <2>1, PaintedBlack
<1>24. e.color = r.color
  <2>1. e.color = [v.color EXCEPT ![f] = "black"]
    BY <1>3, <1>4, <1>5, <1>10, SetColor
  <2>2. r.color \in [Node -> Colors] /\ r.color[f] = "black"
    BY <1>3, <1>4, <1>6, <1>8, <1>9 DEF SameNodes, Tree
  <2> QED
    BY <1>3, <1>4, <1>10, <2>1, <2>2
<1>25. r \in Tree /\ r.key = t.key /\ SameLinks(v, r)
  BY <1>8, <1>9, <1>10 DEF SameNodes, SameLinks
<1> HIDE DEF e
<1>26. Kept(r, M, G)
  <2>1. r.color = e.color /\ r.root = e.root /\ r.child = e.child
    BY <1>23, <1>24, <1>25 DEF SameLinks
  <2> QED
    BY <1>23, <1>25, <2>1 DEF Kept, Coloured, Heights, Apart, Red, Weight
<1>27. SearchTree(r, k, M, E)
  BY <1>13, <1>25, Repainted
<1> QED
  BY <1>25, <1>26, <1>27

\* The brother is black before the nephews are looked at; when that took a rotation, the
\* parent is red.
LEMMA BrotherBlack ==
  ASSUME NEW t, NEW k, NEW M, NEW D, NEW B, NEW c, NEW p, NEW a, Erasing(t, k, M, D, B, c, p, a), ~Cured(t, c),
         NEW r, r = RedBrother(t, c, a)
  PROVE  /\ r.key = t.key /\ ~Cured(r, c) /\ ~Red(r, r.child[Other(a)][p])
         /\ \E E, F : Erasing(r, k, M, E, F, c, p, a) /\ (Red(r, p) \/ E = D)
<1>1. CASE Red(t, t.child[Other(a)][p])
  BY <1>1, RedBrotherKeeps
<1>2. CASE ~Red(t, t.child[Other(a)][p])
  <2>1. t.parent[c] = p
    BY DEF Erasing
  <2>2. r = t
    BY <1>2, <2>1 DEF RedBrother, Red
  <2> QED
    BY <1>2, <2>2
<1> QED
  BY <1>1, <1>2

\* A red nephew, near or far, and the rules are kept.
LEMMA RedNephewsCure ==
  ASSUME NEW t, NEW k, NEW M, NEW D, NEW B, NEW c, NEW p, NEW a, Erasing(t, k, M, D, B, c, p, a), ~Cured(t, c),
         NEW bro, bro = t.child[Other(a)][p], ~Red(t, bro), \E q \in Side : Red(t, t.child[q][bro]),
         NEW r, r = RedFarNephew(RedNephew(t, c, a), c, a)
  PROVE  r \in Tree /\ r.key = t.key /\ \E E, F : SearchTree(r, k, M, E) /\ Kept(r, M, F)
<1> DEFINE o == Other(a)
           u == RedNephew(t, c, a)
<1>1. t.parent[c] = p /\ a \in Side /\ \A q \in Side : q = a \/ q = o
  BY Sides DEF Erasing
<1>2. /\ u.key = t.key /\ ~Cured(u, c) /\ ~Red(u, u.child[o][p]) /\ Red(u, u.child[o][u.child[o][p]])
      /\ \E E, F : Erasing(u, k, M, E, F, c, p, a)
  <2>1. CASE Red(t, t.child[o][bro])
    <3>1. u = t
      BY <1>1, <2>1 DEF RedNephew, Red
    <3> HIDE DEF u
    <3> QED
      BY <2>1, <3>1
  <2>2. CASE ~Red(t, t.child[o][bro])
    <3>1. Red(t, t.child[a][bro])
      BY <1>1, <2>2
    <3>2. u = RedNephew(t, c, a)
      OBVIOUS
    <3> HIDE DEF u
    <3> QED
      BY <2>2, <3>1, <3>2, RedNephewKeeps
  <2> QED
    BY <2>1, <2>2
<1>3. r = RedFarNephew(u, c, a)
  OBVIOUS
<1> HIDE DEF u
<1>4. PICK E, F : Erasing(u, k, M, E, F, c, p, a)
  BY <1>2
<1> DEFINE b == u.child[o][p]
<1>5. b = u.child[Other(a)][p] /\ ~Red(u, b) /\ Red(u, u.child[Other(a)][b])
  BY <1>2
<1> HIDE DEF b, o
<1>6. r \in Tree /\ r.key = u.key /\ \E E1, F1 : SearchTree(r, k, M, E1) /\ Kept(r, M, F1)
  BY <1>2, <1>3, <1>4, <1>5, RedFarNephewKeeps
<1> QED
  BY <1>2, <1>6

\* A turn of the loop.
LEMMA EraseTurnKeeps ==
  ASSUME NEW t, NEW k, NEW M, NEW D, NEW B, NEW c, NEW p, NEW a, Erasing(t, k, M, D, B, c, p, a), ~Cured(t, c),
         NEW r, r = EraseTurn(t, c)
  PROVE  /\ r.tree.key = t.key
         /\ \E E, F, g, b : /\ Erasing(r.tree, k, M, E, F, r.at, g, b)
                            /\ Cured(r.tree, r.at) \/ Cardinality(D[c]) < Cardinality(E[r.at])
<1> DEFINE o == Other(a)
           t1 == RedBrother(t, c, a)
           bro == t1.child[o][p]
           t2 == RedFarNephew(RedNephew(t1, c, a), c, a)
           t3 == Paint(t1, bro, "red")
<1>1. SideOf(t, c) = a
  BY BrotherIs DEF Brother
<1>2. t1.key = t.key /\ ~Cured(t1, c) /\ ~Red(t1, bro)
  BY BrotherBlack
<1>3. PICK E, F : Erasing(t1, k, M, E, F, c, p, a) /\ (Red(t1, p) \/ E = D)
  <2>1. t1 = RedBrother(t, c, a)
    OBVIOUS
  <2> HIDE DEF t1
  <2> QED
    BY <2>1, BrotherBlack
<1>4. t1.parent[c] = p
  BY <1>3 DEF Erasing
<1>5. r = IF \A s \in Side : t1.color[t1.child[s][bro]] = "black"
          THEN [tree |-> t3, at |-> p] ELSE [tree |-> t2, at |-> t2.root]
  BY <1>1, <1>4 DEF EraseTurn
<1> HIDE DEF t1
<1>6. Brother(t1, M, F, c, p, a, bro)
  BY <1>2, <1>3, BrotherIs
<1>7. /\ t1 \in Tree /\ Linked(t1, M) /\ Hanging(t1, M, E) /\ M \subseteq Node /\ a \in Side /\ p \in M /\ bro \in M
      /\ bro # p /\ t1.child[a][p] = c /\ \A q \in Side : t1.child[q][bro] \in Node
  BY <1>3, <1>6 DEF Erasing, SearchTree, Coloured, Brother, Linked, Node
<1>8. \A q \in Side : t1.color[t1.child[q][bro]] = "black" <=> ~Red(t1, t1.child[q][bro])
  BY <1>7 DEF Red, Tree, Colors
<1>9. bro = t1.child[Other(a)][p]
  OBVIOUS
<1> HIDE DEF bro
<1>10. CASE \A s \in Side : t1.color[t1.child[s][bro]] = "black"
  <2>1. r = [tree |-> t3, at |-> p]
    BY <1>5, <1>10
  <2>2. t3.key = t1.key /\ \E G, b : Erasing(t3, k, M, E, G, p, t1.parent[p], b)
    BY <1>2, <1>3, <1>8, <1>9, <1>10, BlackNephewsKeep
  <2>3. Cured(t3, p) \/ Cardinality(D[c]) < Cardinality(E[p])
    <3>1. CASE Red(t1, p)
      <4>1. t3.color = [t1.color EXCEPT ![bro] = "red"]
        <5>1. bro \in Node /\ "red" \in Colors
          BY <1>7 DEF Colors
        <5> QED
          BY <1>7, <5>1, SetColor
      <4>2. t3.color[p] = t1.color[p]
        BY <1>7, <4>1 DEF Tree
      <4> QED
        BY <3>1, <4>2 DEF Cured, Red
    <3>2. CASE E = D
      BY <1>7, <3>2, Smaller
    <3> QED
      BY <1>3, <3>1, <3>2
  <2> HIDE DEF t3
  <2> QED
    BY <1>2, <2>1, <2>2, <2>3
<1>11. CASE ~(\A s \in Side : t1.color[t1.child[s][bro]] = "black")
  <2>1. r = [tree |-> t2, at |-> t2.root]
    BY <1>5, <1>11
  <2>2. \E q \in Side : Red(t1, t1.child[q][bro])
    BY <1>8, <1>11
  <2>3. t2 \in Tree /\ t2.key = t1.key /\ \E E1, F1 : SearchTree(t2, k, M, E1) /\ Kept(t2, M, F1)
    <3>1. t2 = RedFarNephew(RedNephew(t1, c, a), c, a)
      OBVIOUS
    <3> HIDE DEF t2
    <3> QED
      BY <1>2, <1>3, <1>9, <2>2, <3>1, RedNephewsCure
  <2> HIDE DEF t2
  <2>4. PICK E1, F1 : SearchTree(t2, k, M, E1) /\ Kept(t2, M, F1)
    BY <2>3
  <2>5. Erasing(t2, k, M, E1, F1, t2.root, Nil, "left")
    <3>1. Linked(t2, M) /\ t2.root # Nil
      <4>1. Linked(t2, M) /\ Hanging(t2, M, E1)
        BY <2>4 DEF SearchTree
      <4> QED
        BY <1>7, <4>1 DEF Hanging
    <3>2. t2.root \in M \union {Nil} /\ t2.parent[t2.root] = Nil /\ "left" \in Side
      BY <3>1 DEF Linked, Side
    <3>3. Coloured(t2, M, F1, Nil, "left", t2.root)
      <4>1. ~Red(t2, Nil)
        BY <2>4 DEF Kept, Coloured
      <4>2. \A n \in M, q \in Side : ~(Red(t2, n) /\ Red(t2, t2.child[q][n]))
        <5>1. Nil \notin M
          BY <3>1, TreesAssumption DEF Linked
        <5> QED
          BY <2>4, <4>1, <5>1 DEF Kept, Coloured, Apart
      <4> QED
        BY <2>4, <4>2 DEF Kept, Coloured, Apart
    <3> QED
      BY <2>4, <3>2, <3>3 DEF Erasing
  <2>6. Cured(t2, t2.root)
    BY DEF Cured
  <2> QED
    BY <1>2, <2>1, <2>3, <2>5, <2>6
<1> QED
  BY <1>10, <1>11

\* erase_fix_up repairs the tree.
LEMMA EraseFixUpKeeps ==
  ASSUME NEW t, NEW k, NEW M, NEW D, NEW B, NEW c, NEW p, NEW a, Erasing(t, k, M, D, B, c, p, a),
         NEW r, r = EraseFixUp(t, c)
  PROVE  r \in Tree /\ r.key = t.key /\ \E E, F : SearchTree(r, k, M, E) /\ Kept(r, M, F)
<1> DEFINE Over(i) == i.at = i.tree.root \/ i.tree.color[i.at] = "red"
           turn == [i \in Repair |-> IF Over(i) THEN i ELSE EraseTurn(i.tree, i.at)]
           start == [tree |-> t, at |-> c]
           Looping(j, i) == /\ i.tree.key = t.key
                            /\ \E E, F, g, b : /\ Erasing(i.tree, k, M, E, F, i.at, g, b)
                                               /\ Cured(i.tree, i.at) \/ j <= Cardinality(E[i.at])
           I == {i \in Nat \X Repair : Looping(i[1], i[2])}
           end == Turns(turn, start)
           last == end.tree
           at == end.at
<1>1. r = Paint(last, at, "black")
  BY DEF EraseFixUp, Red
<1>2. /\ t \in Tree /\ Linked(t, M) /\ Hanging(t, M, D) /\ c \in M \union {Nil} /\ M \subseteq Node /\ Nil \in Node
  BY DEF Erasing, SearchTree, Coloured, Linked, Node
<1>3. start \in Repair
  <2>1. t.root \in Node /\ c \in Node
    BY <1>2 DEF Linked, Node
  <2> QED
    BY <1>2, <2>1, NullAssumption DEF Repair
<1>4. turn \in [Repair -> Repair]
  <2>1. ASSUME NEW i \in Repair PROVE (IF Over(i) THEN i ELSE EraseTurn(i.tree, i.at)) \in Repair
    BY EraseTurnType
  <2> HIDE DEF Over
  <2> QED
    BY <2>1
<1>5. ASSUME NEW j \in Nat, NEW i \in Repair, Looping(j, i) PROVE Looping(j + 1, turn[i])
  <2>1. PICK E, F, g, b : /\ Erasing(i.tree, k, M, E, F, i.at, g, b)
                          /\ Cured(i.tree, i.at) \/ j <= Cardinality(E[i.at])
    BY <1>5
  <2>2. CASE Cured(i.tree, i.at)
    <3>1. turn[i] = i
      BY <2>2 DEF Cured, Red
    <3> HIDE DEF turn
    <3> QED
      BY <1>5, <2>1, <2>2, <3>1
  <2>3. CASE ~Cured(i.tree, i.at)
    <3>1. turn[i] = EraseTurn(i.tree, i.at)
      BY <2>3 DEF Cured, Red
    <3> DEFINE r1 == turn[i]
    <3> HIDE DEF turn, r1
    <3>2. r1 = EraseTurn(i.tree, i.at)
      BY <3>1 DEF r1
    <3>3. r1.tree.key = i.tree.key
      BY <2>1, <2>3, <3>2, EraseTurnKeeps
    <3>4. PICK E1, F1, g1, b1 : /\ Erasing(r1.tree, k, M, E1, F1, r1.at, g1, b1)
                                /\ Cured(r1.tree, r1.at) \/ Cardinality(E[i.at]) < Cardinality(E1[r1.at])
      BY <2>1, <2>3, <3>2, EraseTurnKeeps
    <3>5. Cured(r1.tree, r1.at) \/ j + 1 <= Cardinality(E1[r1.at])
      <4>1. Linked(i.tree, M) /\ Hanging(i.tree, M, E) /\ i.at \in Node
        BY <1>2, <2>1 DEF Erasing, SearchTree
      <4>2. Linked(r1.tree, M) /\ Hanging(r1.tree, M, E1) /\ r1.at \in Node
        BY <1>2, <3>4 DEF Erasing, SearchTree
      <4>3. Cardinality(E[i.at]) \in Nat
        BY <4>1, Smaller
      <4>4. Cardinality(E1[r1.at]) \in Nat
        BY <4>2, Smaller
      <4> DEFINE x == Cardinality(E[i.at])
                 y == Cardinality(E1[r1.at])
      <4>5. x \in Nat /\ y \in Nat /\ j <= x /\ (Cured(r1.tree, r1.at) \/ x < y)
        BY <2>1, <2>3, <3>4, <4>3, <4>4
      <4> HIDE DEF x, y
      <4>6. Cured(r1.tree, r1.at) \/ j + 1 <= y
        BY <4>5
      <4> QED
        BY <4>6 DEF y
    <3>6. Looping(j + 1, r1)
      BY <1>5, <3>3, <3>4, <3>5
    <3> QED
      BY <3>6 DEF r1
  <2> QED
    BY <2>2, <2>3
<1>6. Looping(0, start)
  <2>1. Cardinality(D[c]) >= 0
    <3>1. Cardinality(D[c]) \in Nat
      BY <1>2, Smaller
    <3> QED
      BY <3>1
  <2> QED
    BY <2>1
<1> HIDE DEF Looping
<1>7. end \in Repair /\ Looping(Cardinality(Nodes), end)
  <2> HIDE DEF turn, start
  <2>1. <<0, start>> \in I
    BY <1>3, <1>6
  <2>2. \A j \in Nat, i \in Repair : <<j, i>> \in I => <<j + 1, turn[i]>> \in I
    BY <1>4, <1>5
  <2> HIDE DEF I
  <2>3. end \in Repair /\ <<Cardinality(Nodes), end>> \in I
    BY <1>3, <1>4, <2>1, <2>2, TurnsKeep
  <2> HIDE DEF end
  <2> QED
    BY <2>3 DEF I
<1> HIDE DEF end, turn
<1>8. PICK E, F, g, b : /\ last.key = t.key /\ Erasing(last, k, M, E, F, at, g, b)
                        /\ Cured(last, at) \/ Cardinality(Nodes) <= Cardinality(E[at])
  BY <1>7 DEF Looping
<1> HIDE DEF last, at
<1>9. /\ SearchTree(last, k, M, E) /\ Linked(last, M) /\ Hanging(last, M, E) /\ Coloured(last, M, F, g, b, at)
      /\ at \in M \union {Nil} /\ b \in Side
      /\ \/ g = Nil /\ at = last.root
         \/ g \in M /\ last.child[b][g] = at
  BY <1>8 DEF Erasing, SearchTree
<1>10. Cured(last, at)
  <2>1. CASE g = Nil /\ at = last.root
    BY <2>1 DEF Cured
  <2>2. CASE g \in M /\ last.child[b][g] = at
    <3>1. Cardinality(E[at]) < Cardinality(E[g]) /\ Cardinality(E[g]) <= Cardinality(Nodes)
      BY <1>2, <1>9, <2>2, Smaller
    <3>2. Cardinality(Nodes) \in Nat /\ Cardinality(E[g]) \in Nat /\ Cardinality(E[at]) \in Nat
      BY <1>2, <1>9, <2>2, Smaller, TreesAssumption, FS_CardinalityType
    <3> DEFINE x == Cardinality(E[at])
               y == Cardinality(E[g])
               z == Cardinality(Nodes)
    <3>3. x < y /\ y <= z /\ x \in Nat /\ y \in Nat /\ z \in Nat /\ (Cured(last, at) \/ z <= x)
      BY <1>8, <3>1, <3>2
    <3> HIDE DEF x, y, z
    <3> QED
      BY <3>3
  <2> QED
    BY <1>9, <2>1, <2>2
<1>11. \/ g = Nil /\ at = last.root
       \/ g \in M /\ last.child[b][g] = at /\ Red(last, at)
  <2>1. CASE g \in M /\ last.child[b][g] = at /\ ~Red(last, at)
    <3>1. at = last.root
      BY <1>10, <2>1 DEF Cured
    <3>2. CASE at = Nil
      BY <1>9, <2>1, <3>1, <3>2 DEF Hanging
    <3>3. CASE at # Nil
      <4>1. last.parent[at] = Nil /\ last.parent[at] = g
        BY <1>9, <2>1, <3>1, <3>3 DEF Linked
      <4> QED
        BY <1>9, <2>1, <4>1, TreesAssumption DEF Linked
    <3> QED
      BY <3>2, <3>3
  <2> QED
    BY <1>9, <2>1
<1>12. SameLinks(last, r) /\ r \in Tree /\ r.key = last.key /\ \E G : Kept(r, M, G)
  BY <1>1, <1>9, <1>11, PaintedBlack
<1>13. SearchTree(r, k, M, E)
  BY <1>9, <1>12, Repainted
<1> QED
  BY <1>8, <1>12, <1>13

-----------------------------------------------------------------------------
(* Erasure.                                                                *)

\* What is missing when y, with a free side, has left its place to x: its blackness at the
\* link to x, if it was black.
LEMMA DetachColours ==
  ASSUME NEW t, NEW k, NEW M, NEW D, SearchTree(t, k, M, D), NEW B, Kept(t, M, B),
         NEW y \in M, NEW a \in Side, t.child[a][y] = Nil, NEW x, x = t.child[Other(a)][y],
         NEW r, SameNodes(t, r), Transplanted(t, r, M, y, x), NEW E, E = Pruned(D, y)
  PROVE  /\ DetachDone(t, k, M, D, y, r, x, E)
         /\ Red(t, y) => Kept(r, M \ {y}, B)
         /\ ~Red(t, y) => \E b : Erasing(r, k, M \ {y}, E, B, x, t.parent[y], b)
<1> DEFINE o == Other(a)
           g == t.parent[y]
           b == IF y = t.root THEN "left" ELSE SideOf(t, y)
           N == M \ {y}
<1>1. /\ t \in Tree /\ Linked(t, M) /\ Hanging(t, M, D) /\ Heights(t, M, B, Nil, "left") /\ ~Red(t, Nil)
      /\ Apart(t, M, Nil) /\ ~Red(t, t.root)
  BY DEF SearchTree, Kept, Coloured
<1>2. /\ o \in Side /\ o # a /\ Nil \notin M /\ Nil \in Node /\ M \subseteq Node /\ y # Nil
      /\ \A q \in Side, n \in M : t.child[q][n] \in M \union {Nil}
      /\ \A q \in Side : q = a \/ q = o
  BY <1>1, TreesAssumption, Sides DEF Linked, Node
<1>3. x \in M \union {Nil} /\ x # y /\ x \in Node
  BY <1>1, <1>2, Hangs
<1>4. DetachDone(t, k, M, D, y, r, x, E)
  BY DetachKeeps
<1>5. /\ SearchTree(r, k, N, E) /\ r.parent[x] = g /\ g \in N \union {Nil} /\ x \in N \union {Nil}
  BY <1>4 DEF DetachDone
<1>6. /\ b \in Side
      /\ \/ g = Nil /\ y = t.root
         \/ g \in N /\ t.child[b][g] = y
      /\ \A n \in M, q \in Side : t.child[q][n] = y <=> g \in N /\ n = g /\ q = b
  <2>1. CASE y = t.root
    <3>1. g = Nil
      BY <1>1, <1>2, <2>1 DEF Linked
    <3>2. \A n \in M, q \in Side : t.child[q][n] # y
      BY <1>1, <1>2, <3>1 DEF Linked
    <3> QED
      BY <1>2, <2>1, <3>1, <3>2 DEF Side
  <2>2. CASE y # t.root
    <3>1. /\ g \in M /\ g # y /\ b \in Side /\ t.child[b][g] = y
          /\ \A m \in M, q \in Side : t.child[q][m] = y => m = g /\ q = b
      BY <1>1, <1>2, <2>2, SideOfIs
    <3> QED
      BY <3>1
  <2> QED
    BY <2>1, <2>2
<1>7. /\ r \in Tree /\ r.color = t.color /\ r.root = IF t.root = y THEN x ELSE t.root
      /\ \A q \in Side, n \in M : r.child[q][n] = IF t.child[q][n] = y THEN x ELSE t.child[q][n]
  BY DEF Transplanted, SameNodes
<1> HIDE DEF b, g
<1>8. /\ \A n \in Node : Red(r, n) <=> Red(t, n)
      /\ \A n \in Node : Weight(r, n) = Weight(t, n)
  BY <1>7 DEF Red, Weight
<1>9. B[y] = Weight(t, y) + B[x] /\ B \in [Node -> Nat] /\ B[Nil] = 0
  <2>1. B[y] = Weight(t, y) + B[t.child[o][y]] + Lack(Nil, "left", y, o)
    BY <1>1, <1>2 DEF Heights
  <2>2. Lack(Nil, "left", y, o) = 0 /\ B \in [Node -> Nat] /\ B[Nil] = 0 /\ Weight(t, y) \in Nat
    BY <1>1, <1>2 DEF Lack, Heights, Weight
  <2>3. B[x] \in Nat
    BY <1>3, <2>2
  <2> QED
    BY <2>1, <2>2, <2>3
<1>10. ASSUME NEW n \in N, NEW q \in Side
       PROVE  B[n] = Weight(r, n) + B[r.child[q][n]] + (IF n = g /\ q = b THEN Weight(t, y) ELSE 0)
  <2> DEFINE m == t.child[q][n]
  <2>1. B[n] = Weight(t, n) + B[m] + Lack(Nil, "left", n, q) /\ n \in M /\ n \in Node
    BY <1>1, <1>2 DEF Heights
  <2>2. Lack(Nil, "left", n, q) = 0 /\ B[m] \in Nat /\ Weight(t, n) \in Nat /\ m \in Node /\ Weight(t, y) \in Nat /\ B[x] \in Nat
    BY <1>2, <1>3, <1>9 DEF Lack, Weight
  <2>3. r.child[q][n] = IF m = y THEN x ELSE m
    BY <1>7
  <2>4. m = y <=> n = g /\ q = b
    <3>1. n \in M /\ n \in N
      BY <2>1
    <3> QED
      BY <1>6, <3>1
  <2> HIDE DEF m
  <2>5. CASE m = y
    BY <1>8, <1>9, <2>1, <2>2, <2>3, <2>4, <2>5
  <2>6. CASE m # y
    BY <1>8, <2>1, <2>2, <2>3, <2>4, <2>6
  <2> QED
    BY <2>5, <2>6
<1>11. ~Red(r, Nil) /\ Apart(r, N, x) /\ (Red(r, r.root) => r.root = x)
  <2>1. t.root \in Node /\ x \in Node
    BY <1>1, <1>2, <1>3 DEF Linked
  <2>2. ASSUME NEW n \in N, NEW q \in Side, Red(r, n), Red(r, r.child[q][n]) PROVE r.child[q][n] = x
    <3>1. n \in M /\ t.child[q][n] \in Node /\ (r.child[q][n] = IF t.child[q][n] = y THEN x ELSE t.child[q][n])
      BY <1>2, <1>7
    <3> QED
      BY <1>1, <1>2, <1>8, <2>2, <3>1 DEF Apart
  <2> QED
    BY <1>1, <1>2, <1>7, <1>8, <2>1, <2>2 DEF Apart
<1>12. ASSUME Red(t, y) PROVE Kept(r, N, B)
  <2>1. Weight(t, y) = 0 /\ ~Red(t, x) /\ y # t.root
    <3>1. ~Red(t, x)
      BY <1>1, <1>2, <1>12 DEF Apart
    <3> QED
      BY <1>1, <1>12, <3>1 DEF Weight, Red
  <2>2. Heights(r, N, B, Nil, "left")
    <3>1. \A n \in N, q \in Side : B[n] = Weight(r, n) + B[r.child[q][n]] + 0
      BY <1>10, <2>1
    <3>2. \A n \in N, q \in Side : Lack(Nil, "left", n, q) = 0
      BY <1>2 DEF Lack
    <3> QED
      BY <1>9, <3>1, <3>2 DEF Heights
  <2>3. ASSUME NEW n \in N, NEW q \in Side PROVE ~(Red(r, n) /\ Red(r, r.child[q][n]))
    <3>1. ASSUME Red(r, n), Red(r, r.child[q][n]) PROVE FALSE
      <4>1. r.child[q][n] = x
        <5>1. \/ n = x
              \/ r.child[q][n] = x
          BY <1>11, <3>1 DEF Apart
        <5>2. n \in Node
          BY <1>2
        <5> QED
          BY <1>8, <2>1, <3>1, <5>1, <5>2
      <4> QED
        BY <1>3, <1>8, <2>1, <3>1, <4>1
    <3> QED
      BY <3>1
  <2>4. ~Red(r, r.root)
    BY <1>3, <1>8, <1>11, <2>1
  <2> QED
    BY <1>7, <1>11, <2>2, <2>3, <2>4 DEF Kept, Coloured, Apart
<1>13. ASSUME ~Red(t, y) PROVE Erasing(r, k, N, E, B, x, g, b)
  <2>1. Weight(t, y) = 1
    <3>1. t.color[y] = "black"
      BY <1>1, <1>2, <1>13 DEF Red, Tree, Colors
    <3> QED
      BY <3>1 DEF Weight
  <2>2. Heights(r, N, B, g, b)
    <3>1. \A n \in N, q \in Side : B[n] = Weight(r, n) + B[r.child[q][n]] + Lack(g, b, n, q)
      BY <1>10, <2>1 DEF Lack
    <3> QED
      BY <1>9, <3>1 DEF Heights
  <2>3. \/ g = Nil /\ x = r.root
        \/ g \in N /\ r.child[b][g] = x
    BY <1>6, <1>7
  <2> QED
    BY <1>5, <1>6, <1>7, <1>11, <2>2, <2>3 DEF Erasing, Coloured
<1> QED
  BY <1>4, <1>12, <1>13 DEF g

\* r is t with y in z's place and colour.
InPlace(t, r, M, D, z, y) ==
  /\ Linked(t, M) /\ Hanging(t, M, D) /\ z \in M /\ y \in Nodes \ M
  /\ r \in Tree /\ Replaced(t, r, M, z, y)
  /\ \A n \in Node : r.color[n] = IF n = y THEN t.color[z] ELSE t.color[n]

\* A node that takes another's place and colour keeps the rules, or what is left of them.
LEMMA ReplaceColours ==
  ASSUME NEW t, NEW M, NEW D, NEW z, NEW y, NEW r, InPlace(t, r, M, D, z, y), NEW B, NEW p, NEW a, NEW c,
         Coloured(t, M, B, p, a, c), p \in M \union {Nil}, NEW N, N = (M \ {z}) \union {y}
  PROVE  \E F : Coloured(r, N, F, Instead(p, z, y), a, Instead(c, z, y))
<1> DEFINE F == [B EXCEPT ![y] = B[z]]
           p2 == Instead(p, z, y)
           c2 == Instead(c, z, y)
<1>0. /\ Linked(t, M) /\ Hanging(t, M, D) /\ z \in M /\ y \in Nodes \ M
      /\ r \in Tree /\ Replaced(t, r, M, z, y)
      /\ \A n \in Node : r.color[n] = IF n = y THEN t.color[z] ELSE t.color[n]
  BY DEF InPlace
<1> USE <1>0
<1>1. /\ t \in Tree /\ Heights(t, M, B, p, a) /\ ~Red(t, Nil) /\ Apart(t, M, c) /\ (Red(t, t.root) => t.root = c)
  BY DEF Coloured
<1>2. /\ Nil \notin M /\ Nil \in Node /\ M \subseteq Node /\ N \subseteq Node /\ z # Nil /\ y # Nil /\ y \notin M /\ y # z /\ y \in Node
      /\ t.root \in M \union {Nil} /\ \A q \in Side, n \in M : t.child[q][n] \in M \union {Nil}
  BY TreesAssumption DEF Linked, Node
<1>3. /\ B \in [Node -> Nat] /\ B[Nil] = 0 /\ F \in [Node -> Nat] /\ F[y] = B[z] /\ F[Nil] = 0
      /\ \A n \in Node \ {y} : F[n] = B[n]
  BY <1>1, <1>2 DEF Heights
<1>4. /\ r.root = IF t.root = z THEN y ELSE t.root
      /\ \A q \in Side, n \in M \ {z} : r.child[q][n] = IF t.child[q][n] = z THEN y ELSE t.child[q][n]
      /\ \A q \in Side : r.child[q][y] = t.child[q][z]
  BY DEF Replaced
<1>5. /\ \A n \in Node \ {y} : (Red(r, n) <=> Red(t, n)) /\ Weight(r, n) = Weight(t, n)
      /\ (Red(r, y) <=> Red(t, z)) /\ Weight(r, y) = Weight(t, z)
  BY <1>2 DEF Red, Weight
<1>6. \A q \in Side : t.child[q][z] # z
  BY Hangs
<1>7. p2 = IF p = z THEN y ELSE p
  BY DEF Instead
<1> HIDE DEF F, p2
<1>8. ASSUME NEW n \in N, NEW q \in Side
      PROVE  F[n] = Weight(r, n) + F[r.child[q][n]] + Lack(p2, a, n, q)
  <2>1. CASE n = y
    <3> DEFINE m == t.child[q][z]
    <3>1. B[z] = Weight(t, z) + B[m] + Lack(p, a, z, q)
      BY <1>1 DEF Heights
    <3>2. r.child[q][n] = m /\ F[m] = B[m] /\ F[n] = B[z] /\ Weight(r, n) = Weight(t, z)
      BY <1>2, <1>3, <1>4, <1>5, <2>1
    <3>3. Lack(p2, a, n, q) = Lack(p, a, z, q)
      BY <1>2, <1>7, <2>1 DEF Lack
    <3> HIDE DEF m
    <3> QED
      BY <3>1, <3>2, <3>3
  <2>2. CASE n # y
    <3> DEFINE m == t.child[q][n]
    <3>1. n \in M \ {z} /\ n \in Node
      BY <1>2, <2>2
    <3>2. B[n] = Weight(t, n) + B[m] + Lack(p, a, n, q) /\ m \in Node \ {y}
      BY <1>1, <1>2, <3>1 DEF Heights
    <3>3. (r.child[q][n] = IF m = z THEN y ELSE m) /\ F[n] = B[n] /\ Weight(r, n) = Weight(t, n)
      BY <1>3, <1>4, <1>5, <2>2, <3>1
    <3>4. Lack(p2, a, n, q) = Lack(p, a, n, q)
      BY <1>7, <2>2, <3>1 DEF Lack
    <3> HIDE DEF m
    <3>5. F[r.child[q][n]] = B[m]
      BY <1>3, <3>2, <3>3
    <3> QED
      BY <3>2, <3>3, <3>4, <3>5
  <2> QED
    BY <2>1, <2>2
<1>9. Heights(r, N, F, p2, a)
  BY <1>3, <1>8 DEF Heights
<1>10. Apart(r, N, c2)
  <2>1. ASSUME NEW n \in N, NEW q \in Side, Red(r, n), Red(r, r.child[q][n]) PROVE c2 \in {n, r.child[q][n]}
    <3>1. CASE n = y
      <4>1. r.child[q][n] = t.child[q][z] /\ t.child[q][z] \in Node \ {y} /\ t.child[q][z] # z
        BY <1>2, <1>4, <1>6, <3>1
      <4>2. c \in {z, t.child[q][z]}
        BY <1>1, <1>5, <2>1, <3>1, <4>1 DEF Apart
      <4> QED
        BY <3>1, <4>1, <4>2 DEF Instead
    <3>2. CASE n # y
      <4>1. n \in M \ {z} /\ n \in Node /\ t.child[q][n] \in Node \ {y}
            /\ (r.child[q][n] = IF t.child[q][n] = z THEN y ELSE t.child[q][n])
        BY <1>2, <1>4, <3>2
      <4>2. Red(t, n) /\ Red(t, t.child[q][n])
        BY <1>2, <1>5, <2>1, <3>2, <4>1
      <4>3. c \in {n, t.child[q][n]}
        BY <1>1, <4>1, <4>2 DEF Apart
      <4> QED
        BY <4>1, <4>3 DEF Instead
    <3> QED
      BY <3>1, <3>2
  <2> QED
    BY <2>1 DEF Apart
<1>11. ~Red(r, Nil) /\ (Red(r, r.root) => r.root = c2)
  <2>1. t.root \in Node \ {y}
    BY <1>2
  <2> QED
    BY <1>1, <1>2, <1>4, <1>5, <2>1 DEF Instead
<1> QED
  BY <1>9, <1>10, <1>11 DEF Coloured, p2

\* In ta, y has got the right side of p's as it is in t, and nothing else is different
\* for the nodes M.
Ready(t, ta, M, p, y) ==
  /\ ta \in Tree /\ ta.root = t.root
  /\ \A q \in Side, n \in M \ {p} : ta.child[q][n] = t.child[q][n]
  /\ ta.child["left"][p] = t.child["left"][p] /\ ta.child["right"][p] # p
  /\ ta.child["right"][y] = t.child["right"][p]
  /\ \A q \in Side : ta.child[q][Nil] = t.child[q][Nil]
  /\ ta.parent[p] = t.parent[p]
  /\ \A n \in M \ {p} : ta.parent[n] = IF n = t.child["right"][p] THEN y ELSE t.parent[n]

\* The rest of what rbtree_erase does with the successor: it takes p's place, left side
\* and colour.
TakeOver(t, p, y) ==
  LET t1   == Transplant(t, p, y)
      left == t1.child["left"][p]
  IN Paint(PutParent(PutChild(t1, "left", y, left), left, y), y, t1.color[p])

\* Then y has taken p's place in t.
LEMMA TakeOverIs ==
  ASSUME NEW t, NEW M, NEW D, Linked(t, M), Hanging(t, M, D), NEW p \in M, NEW y \in Nodes \ M,
         t.child["left"][p] # Nil, NEW ta, Ready(t, ta, M, p, y), NEW r, r = TakeOver(ta, p, y)
  PROVE  /\ Replaced(t, r, M, p, y) /\ r \in Tree /\ r.key = ta.key /\ r.parent[Nil] = ta.parent[Nil]
         /\ \A n \in Node : r.color[n] = IF n = y THEN ta.color[p] ELSE ta.color[n]
<1> DEFINE t1 == Transplant(ta, p, y)
           left == t1.child["left"][p]
           right == t.child["right"][p]
           t2 == PutChild(t1, "left", y, left)
           t3 == PutParent(t2, left, y)
           col == t1.color[p]
           t4 == Paint(t3, y, col)
<1>1. /\ Nil \notin M /\ Nil \in Node /\ M \subseteq Node /\ M \subseteq Nodes /\ p # Nil /\ y # Nil /\ y # p /\ y \in Node
      /\ t.root \in M \union {Nil} /\ "left" \in Side /\ "right" \in Side /\ \A q \in Side : q \in {"left", "right"}
      /\ \A q \in Side, n \in M : t.child[q][n] \in M \union {Nil}
  BY TreesAssumption DEF Linked, Node, Side
<1>2. \A q \in Side : t.child[q][p] # p
  BY Hangs
<1>3. Placed(t, M, p) /\ t.parent[p] # p
  <2>1. Placed(t, M, p)
    BY EachPlaced
  <2> QED
    BY <1>1, <1>2, <2>1 DEF Placed
<1>4. ta \in Tree /\ ta.root \in Node
  BY <1>1 DEF Ready, Node
<1>5. Placed(ta, M, p)
  <2>1. \A q \in Side : ta.child[q][p] # p
    BY <1>1, <1>2 DEF Ready
  <2>2. \A q \in Side, n \in M : ta.child[q][n] = p <=> t.child[q][n] = p
    BY <1>2, <2>1 DEF Ready
  <2>3. ta.parent[p] = t.parent[p] /\ ta.root = t.root
    BY DEF Ready
  <2> QED
    BY <1>1, <1>3, <2>2, <2>3, Sides DEF Placed
<1>6. SameNodes(ta, t1) /\ Transplanted(ta, t1, M, p, y)
  BY <1>1, <1>4, <1>5, TransplantIs
<1>7. r = t4
  BY DEF TakeOver
<1> HIDE DEF t1
<1>8. left = t.child["left"][p] /\ left \in M /\ left # p /\ left \in Node /\ left # y
  BY <1>1, <1>2, <1>6 DEF Ready, Transplanted
<1> HIDE DEF left
<1>9. t1 \in Tree /\ t1.color = ta.color /\ t1.key = ta.key /\ col \in Colors
  <2>1. t1 \in Tree /\ p \in Node
    BY <1>1, <1>6 DEF SameNodes
  <2> QED
    BY <1>6, <2>1 DEF SameNodes, Tree
<1> HIDE DEF col
<1>10. SameNodes(t1, t2) /\ t2.root = t1.root /\ t2.parent = t1.parent /\ Relinked(t1, t2, "left", y, left)
  BY <1>1, <1>8, <1>9, SetChild
<1> HIDE DEF t2
<1>11. SameNodes(t2, t3) /\ t3.root = t2.root /\ t3.child = t2.child /\ t3.parent = [t2.parent EXCEPT ![left] = y]
  <2>1. t2 \in Tree
    BY <1>10 DEF SameNodes
  <2> QED
    BY <1>1, <1>8, <2>1, SetParent
<1> HIDE DEF t3
<1>12. t4 \in Tree /\ t4.root = t3.root /\ t4.child = t3.child /\ t4.parent = t3.parent
       /\ t4.color = [t3.color EXCEPT ![y] = col] /\ t4.key = t3.key
  <2>1. t3 \in Tree
    BY <1>11 DEF SameNodes
  <2> QED
    BY <1>1, <1>9, <2>1, SetColor
<1> HIDE DEF t4
<1>13. /\ t4.root = IF t.root = p THEN y ELSE t.root
       /\ \A q \in Side, n \in M \ {p} : t4.child[q][n] = IF t.child[q][n] = p THEN y ELSE t.child[q][n]
       /\ \A q \in Side : t4.child[q][y] = t.child[q][p] /\ t4.child[q][Nil] = t.child[q][Nil]
  <2>1. \A q \in Side, n \in Node : t4.child[q][n] = IF q = "left" /\ n = y THEN left ELSE t1.child[q][n]
    BY <1>10, <1>11, <1>12 DEF Relinked
  <2>2. /\ \A q \in Side, n \in M : t1.child[q][n] = IF ta.child[q][n] = p THEN y ELSE ta.child[q][n]
        /\ \A q \in Side, n \in Node \ M : t1.child[q][n] = ta.child[q][n]
        /\ t1.root = IF ta.root = p THEN y ELSE ta.root
    BY <1>6 DEF Transplanted
  <2>3. t4.root = t1.root
    BY <1>10, <1>11, <1>12
  <2>4. \A q \in Side, n \in M \ {p} : t4.child[q][n] = IF t.child[q][n] = p THEN y ELSE t.child[q][n]
    BY <1>1, <2>1, <2>2 DEF Ready
  <2>5. \A q \in Side : t4.child[q][y] = t.child[q][p]
    <3>1. t4.child["left"][y] = t.child["left"][p]
      BY <1>1, <1>8, <2>1
    <3>2. t4.child["right"][y] = t.child["right"][p]
      BY <1>1, <2>1, <2>2 DEF Ready
    <3> QED
      BY <1>1, <3>1, <3>2
  <2>6. \A q \in Side : t4.child[q][Nil] = t.child[q][Nil]
    BY <1>1, <2>1, <2>2 DEF Ready
  <2> QED
    BY <2>2, <2>3, <2>4, <2>5, <2>6 DEF Ready
<1>14. \A n \in Node : t4.parent[n] = IF n = left THEN y ELSE IF n = y THEN t.parent[p] ELSE ta.parent[n]
  <2>1. t1.parent = [ta.parent EXCEPT ![y] = ta.parent[p]] /\ ta.parent \in [Node -> Node] /\ ta.parent[p] = t.parent[p]
    BY <1>4, <1>6 DEF Transplanted, Tree, Ready
  <2>2. t4.parent = [t1.parent EXCEPT ![left] = y] /\ t1.parent \in [Node -> Node]
    BY <1>9, <1>10, <1>11, <1>12 DEF Tree
  <2> QED
    BY <1>1, <2>1, <2>2
<1>15. ASSUME NEW n \in M \ {p} PROVE t4.parent[n] = IF t.parent[n] = p THEN y ELSE t.parent[n]
  <2>1. t.parent[n] = p <=> n \in {left, right}
    <3>1. n \in {left, right} => t.parent[n] = p
      BY <1>1, <1>8 DEF Linked
    <3>2. ASSUME t.parent[n] = p PROVE n \in {left, right}
      <4>1. Placed(t, M, n)
        BY EachPlaced
      <4> QED
        BY <1>1, <1>8, <3>2, <4>1 DEF Placed
    <3> QED
      BY <3>1, <3>2
  <2>2. ta.parent[n] = IF n = right THEN y ELSE t.parent[n]
    BY DEF Ready
  <2>3. n \in Node /\ n # y
    BY <1>1
  <2> HIDE DEF right
  <2> QED
    BY <1>14, <2>1, <2>2, <2>3
<1>16. t4.parent[y] = t.parent[p] /\ t4.parent[Nil] = ta.parent[Nil]
  BY <1>1, <1>8, <1>14
<1>17. Links(t4)
  <2>1. t4.root \in Node
    BY <1>1, <1>13
  <2> QED
    BY <1>12, <2>1 DEF Links, Tree
<1>18. \A n \in Node : t4.color[n] = IF n = y THEN ta.color[p] ELSE ta.color[n]
  BY <1>1, <1>4, <1>9, <1>10, <1>11, <1>12 DEF SameNodes, Tree, col
<1>19. t4.key = ta.key
  BY <1>9, <1>10, <1>11, <1>12 DEF SameNodes
<1> QED
  BY <1>7, <1>12, <1>13, <1>15, <1>16, <1>17, <1>18, <1>19 DEF Replaced

\* g is t without p's successor y, whose only child x is in its place.
Detached(t, M, D, p, y, x, g, N, E) ==
  /\ t \in Tree /\ Linked(t, M) /\ Hanging(t, M, D)
  /\ p \in M /\ t.child["left"][p] # Nil /\ t.child["right"][p] # Nil
  /\ y \in M /\ y \in D[t.child["right"][p]] /\ t.child["left"][y] = Nil
  /\ x = t.child["right"][y] /\ g = Transplant(t, y, x)
  /\ N = M \ {y} /\ Linked(g, N) /\ Hanging(g, N, E)

\* rbtree_erase of a node with two children puts the successor y in its place, as if y
\* had left its own before; g is that tree.
LEMMA ReplaceBySuccessorIs ==
  ASSUME NEW t, NEW M, NEW D, NEW p, NEW y, NEW x, NEW g, NEW N, NEW E, Detached(t, M, D, p, y, x, g, N, E),
         NEW r, r = ReplaceBySuccessor(t, p, y, x)
  PROVE  /\ Replaced(g, r, N, p, y) /\ r \in Tree /\ r.key = t.key /\ p \in N /\ y \notin N /\ x # p
         /\ r.parent[x] = Instead(t.parent[y], p, y)
         /\ \A n \in Node : r.color[n] = IF n = y THEN t.color[p] ELSE t.color[n]
<1> DEFINE right == t.child["right"][p]
           left == t.child["left"][p]
<1>0. /\ t \in Tree /\ Linked(t, M) /\ Hanging(t, M, D)
      /\ p \in M /\ t.child["left"][p] # Nil /\ t.child["right"][p] # Nil
      /\ y \in M /\ y \in D[t.child["right"][p]] /\ t.child["left"][y] = Nil
      /\ x = t.child["right"][y] /\ g = Transplant(t, y, x)
      /\ N = M \ {y} /\ Linked(g, N) /\ Hanging(g, N, E)
  BY DEF Detached
<1> USE <1>0
<1>1. /\ Nil \notin M /\ Nil \in Node /\ M \subseteq Node /\ M \subseteq Nodes /\ p # Nil /\ y # Nil /\ t.root \in Node
      /\ "left" \in Side /\ "right" \in Side /\ Other("left") = "right" /\ Other("right") = "left"
      /\ \A q \in Side : q \in {"left", "right"}
      /\ \A q \in Side, n \in M : t.child[q][n] \in M \union {Nil}
  BY TreesAssumption DEF Linked, Node, Side, Other
<1>2. /\ right \in M /\ left \in M /\ t.parent[right] = p /\ t.parent[left] = p
      /\ left # right /\ left # p /\ right # p
  BY <1>1, Hangs DEF Linked
<1>3. p \notin D[right] /\ left \notin D[right]
  <2>1. left \in D[left]
    BY <1>2, Hangs
  <2>2. p \notin D[right] /\ D[right] \intersect D[left] = {}
    BY <1>1 DEF Hanging
  <2> QED
    BY <2>1, <2>2
<1>4. y # p /\ y # left /\ p \in N /\ y \notin N /\ y \in Nodes \ N
  BY <1>1, <1>3
<1>5. x \in M \union {Nil} /\ x # y /\ x \in Node
  BY <1>1, Hangs
<1>6. x # p
  <2>1. CASE x = Nil
    BY <1>1, <2>1
  <2>2. CASE x # Nil
    <3>1. x \in D[x] /\ D[x] \subseteq D[y] /\ D[y] \subseteq D[right]
      BY <1>1, <1>2, <1>5, <2>2, Hangs, Below
    <3> QED
      BY <1>3, <3>1
  <2> QED
    BY <2>1, <2>2
<1>7. Placed(t, M, y)
  BY EachPlaced
<1>8. t.parent[y] # Nil /\ t.root # y
  <2>1. CASE y = right
    BY <1>1, <1>2, <1>7, <2>1 DEF Placed
  <2>2. CASE y # right
    <3>1. t.parent[y] \in D[right]
      BY <1>2, <2>2, HasParent
    <3>2. D[right] \subseteq M
      BY <1>1, <1>2 DEF Hanging
    <3> QED
      BY <1>1, <1>7, <3>1, <3>2 DEF Placed
  <2> QED
    BY <2>1, <2>2
<1>9. SameNodes(t, g) /\ Transplanted(t, g, M, y, x)
  BY <1>1, <1>5, <1>7, TransplantIs
<1>10. /\ g.root = t.root
       /\ \A n \in Node : g.parent[n] = IF n = x THEN t.parent[y] ELSE t.parent[n]
       /\ \A q \in Side, n \in M : g.child[q][n] = IF t.child[q][n] = y THEN x ELSE t.child[q][n]
       /\ \A q \in Side : g.child[q][Nil] = t.child[q][Nil]
       /\ g \in Tree /\ g.key = t.key /\ g.color = t.color
  BY <1>1, <1>5, <1>8, <1>9 DEF Transplanted, SameNodes, Tree
<1> HIDE DEF right, left
<1>11. g.child["left"][p] = left /\ left # Nil
  BY <1>1, <1>4, <1>10 DEF left
<1> DEFINE ta == IF t.parent[y] = p THEN PutParent(t, x, y) ELSE PutParent(PutChild(g, "right", y, right), right, y)
<1>12. r = TakeOver(ta, p, y)
  BY ZenonT(60) DEF ReplaceBySuccessor, TakeOver, PutChild, PutParent, Paint, right
<1>13. Ready(g, ta, N, p, y) /\ ta.key = t.key /\ ta.color = t.color /\ ta.parent[x] = Instead(t.parent[y], p, y)
  <2>1. CASE t.parent[y] = p
    <3>1. ta = PutParent(t, x, y)
      BY <2>1
    <3> HIDE DEF ta
    <3>2. SameNodes(t, ta) /\ ta.root = t.root /\ ta.child = t.child /\ ta.parent = [t.parent EXCEPT ![x] = y]
      BY <1>1, <1>5, <3>1, SetParent
    <3>3. right = y
      BY <1>1, <1>4, <1>7, <2>1, <1>8 DEF Placed, right, left
    <3>4. \A n \in Node : ta.parent[n] = IF n = x THEN y ELSE t.parent[n]
      BY <1>1, <1>5, <3>2 DEF Tree
    <3>5. \A q \in Side, n \in N \ {p} : t.child[q][n] # y
      BY <1>7, <2>1 DEF Placed
    <3>6. g.child["right"][p] = x /\ ta.child["right"][y] = x /\ ta.child["right"][p] = y
      BY <1>1, <1>10, <3>2, <3>3 DEF right
    <3>7. ta.child["left"][p] = g.child["left"][p]
      BY <1>11, <3>2 DEF left
    <3>8. \A q \in Side, n \in N \ {p} : ta.child[q][n] = g.child[q][n]
      BY <1>10, <3>2, <3>5
    <3>9. ta.parent[p] = g.parent[p] /\ \A n \in N \ {p} : ta.parent[n] = IF n = x THEN y ELSE g.parent[n]
      BY <1>1, <1>6, <1>10, <3>4
    <3>10. Ready(g, ta, N, p, y)
      BY ONLY <1>4, <1>10, <3>2, <3>6, <3>7, <3>8, <3>9 DEF Ready, SameNodes
    <3> QED
      BY <1>5, <2>1, <3>2, <3>4, <3>10 DEF SameNodes, Instead
  <2>2. CASE t.parent[y] # p
    <3> DEFINE tc == PutChild(g, "right", y, right)
    <3>1. ta = PutParent(tc, right, y)
      BY <2>2
    <3> HIDE DEF ta
    <3>2. SameNodes(g, tc) /\ tc.root = g.root /\ tc.parent = g.parent /\ Relinked(g, tc, "right", y, right)
      BY <1>1, <1>2, <1>10, SetChild
    <3> HIDE DEF tc
    <3>3. SameNodes(tc, ta) /\ ta.root = tc.root /\ ta.child = tc.child /\ ta.parent = [tc.parent EXCEPT ![right] = y]
      <4>1. tc \in Tree
        BY <3>2 DEF SameNodes
      <4> QED
        BY <1>1, <1>2, <3>1, <4>1, SetParent
    <3>4. right # y
      BY <1>2, <2>2
    <3>5. \A n \in Node : ta.parent[n] = IF n = right THEN y ELSE g.parent[n]
      BY <1>1, <1>2, <1>10, <3>2, <3>3 DEF Tree
    <3>6. \A q \in Side, n \in Node : ta.child[q][n] = IF q = "right" /\ n = y THEN right ELSE g.child[q][n]
      BY <3>2, <3>3 DEF Relinked
    <3>7. g.child["right"][p] = right
      BY <1>1, <1>10, <3>4 DEF right
    <3>8. /\ ta.child["right"][y] = right /\ ta.child["right"][p] = right /\ ta.child["left"][p] = g.child["left"][p]
          /\ \A q \in Side : ta.child[q][Nil] = g.child[q][Nil]
          /\ \A q \in Side, n \in N \ {p} : ta.child[q][n] = g.child[q][n]
      BY <1>1, <1>4, <3>6, <3>7
    <3>9. ta.parent[p] = g.parent[p] /\ \A n \in N \ {p} : ta.parent[n] = IF n = right THEN y ELSE g.parent[n]
      BY <1>1, <1>2, <3>5
    <3>10. Ready(g, ta, N, p, y)
      BY ONLY <1>2, <3>2, <3>3, <3>7, <3>8, <3>9 DEF Ready, SameNodes
    <3>11. ta.parent[x] = t.parent[y]
      <4>1. x # right
        <5>1. x # Nil => t.parent[x] = y
          BY <1>1 DEF Linked
        <5> QED
          BY <1>1, <1>2, <1>4, <5>1
      <4> QED
        BY <1>5, <1>10, <3>5, <4>1
    <3> QED
      BY <1>10, <2>2, <3>2, <3>3, <3>10, <3>11 DEF SameNodes, Instead
  <2> QED
    BY <2>1, <2>2
<1> HIDE DEF ta
<1>14. /\ Replaced(g, r, N, p, y) /\ r \in Tree /\ r.key = ta.key /\ r.parent[Nil] = ta.parent[Nil]
       /\ \A n \in Node : r.color[n] = IF n = y THEN ta.color[p] ELSE ta.color[n]
  BY <1>4, <1>11, <1>12, <1>13, TakeOverIs
<1>15. r.parent[x] = Instead(t.parent[y], p, y)
  <2>1. CASE x = Nil
    BY <1>13, <1>14, <2>1
  <2>2. CASE x # Nil
    <3>1. x \in N \ {p} /\ g.parent[x] = t.parent[y]
      BY <1>5, <1>6, <1>10, <2>2
    <3> QED
      BY ONLY <1>14, <3>1 DEF Replaced, Instead
  <2> QED
    BY <2>1, <2>2
<1> QED
  BY <1>4, <1>6, <1>13, <1>14, <1>15

\* r is the tree of the nodes N with the keys k that is left for erase_fix_up at x, or not
\* when the node that left its place was red.
Leaves(r, k, N, x, t, y) ==
  /\ r \in Tree
  /\ IF Red(t, y) THEN \E E, F : SearchTree(r, k, N, E) /\ Kept(r, N, F)
            ELSE \E E, F, g, b : Erasing(r, k, N, E, F, x, g, b)

\* A node with a free side is taken out of its place.
LEMMA OneLeaves ==
  ASSUME NEW t, NEW M, Valid(t, M), NEW p \in M, NEW a \in Side, t.child[a][p] = Nil,
         NEW x, x = t.child[Other(a)][p], NEW r, r = Transplant(t, p, x)
  PROVE  Leaves(r, t.key, M \ {p}, x, t, p) /\ r.key = t.key
<1>1. PICK D, B : t \in Tree /\ SearchTree(t, t.key, M, D) /\ Kept(t, M, B)
  BY DEF Valid
<1>2. /\ t.root \in Node /\ M \subseteq Nodes /\ x \in Node /\ Linked(t, M) /\ Hanging(t, M, D)
  BY <1>1, Sides DEF SearchTree, Linked, Node
<1>3. SameNodes(t, r) /\ Transplanted(t, r, M, p, x)
  <2>1. Placed(t, M, p)
    BY <1>2, EachPlaced
  <2> QED
    BY <1>1, <1>2, <2>1, TransplantIs
<1> DEFINE E == Pruned(D, p)
<1>4. E = Pruned(D, p)
  OBVIOUS
<1> HIDE DEF E
<1>5. /\ DetachDone(t, t.key, M, D, p, r, x, E)
      /\ Red(t, p) => Kept(r, M \ {p}, B)
      /\ ~Red(t, p) => \E b : Erasing(r, t.key, M \ {p}, E, B, x, t.parent[p], b)
  BY <1>1, <1>3, <1>4, DetachColours
<1> QED
  BY <1>3, <1>5 DEF Leaves, DetachDone, SameNodes

\* p has two children, y is its successor and x the only child of that.
Succeeds(t, p, y, x) ==
  /\ \A q \in Side : t.child[q][p] # Nil
  /\ y = Furthest(t, t.child["right"][p], "left")
  /\ x = t.child["right"][y]

\* The successor leaves its place for p's.
LEMMA TwoLeave ==
  ASSUME NEW t, NEW M, Valid(t, M), NEW p \in M, NEW y, NEW x, Succeeds(t, p, y, x),
         NEW r, r = ReplaceBySuccessor(t, p, y, x)
  PROVE  Leaves(r, t.key, M \ {p}, x, t, y) /\ r.key = t.key /\ y \in M /\ t.child["left"][y] = Nil
<1> DEFINE right == t.child["right"][p]
           g == Transplant(t, y, x)
           N == M \ {y}
           K == (N \ {p}) \union {y}
           k == t.key
<1>0. (\A q \in Side : t.child[q][p] # Nil) /\ y = Furthest(t, right, "left") /\ x = t.child["right"][y]
  BY DEF Succeeds
<1>1. PICK D, B : t \in Tree /\ SearchTree(t, k, M, D) /\ Kept(t, M, B)
  BY DEF Valid
<1>2. /\ t.root \in Node /\ M \subseteq Nodes /\ M \subseteq Node /\ Nil \notin M /\ Linked(t, M) /\ Hanging(t, M, D)
      /\ "left" \in Side /\ "right" \in Side /\ Other("left") = "right"
  BY <1>1, TreesAssumption DEF SearchTree, Linked, Node, Side, Other
<1>3. right \in M /\ t.child["left"][p] # Nil /\ right # Nil
  BY <1>0, <1>2 DEF Linked
<1>4. Extreme(t, k, M, D, "left", right, y)
  <2> HIDE DEF right
  <2> QED
    BY <1>0, <1>1, <1>2, <1>3, FurthestIs DEF right
<1>5. y \in M /\ y \in D[right] /\ t.child["left"][y] = Nil
  BY <1>4 DEF Extreme
<1>6. x \in Node /\ x \in M \union {Nil}
  BY <1>0, <1>2, <1>5 DEF Linked, Node
<1>7. SameNodes(t, g) /\ Transplanted(t, g, M, y, x)
  <2>1. Placed(t, M, y)
    BY <1>2, <1>5, EachPlaced
  <2> QED
    BY <1>1, <1>2, <1>5, <1>6, <2>1, TransplantIs
<1> DEFINE E == Pruned(D, y)
<1>8. E = Pruned(D, y) /\ g = Transplant(t, y, x)
  OBVIOUS
<1> HIDE DEF E, g
<1>9. /\ DetachDone(t, k, M, D, y, g, x, E)
      /\ Red(t, y) => Kept(g, N, B)
      /\ ~Red(t, y) => \E b : Erasing(g, k, N, E, B, x, t.parent[y], b)
  <2>1. x = t.child[Other("left")][y]
    BY <1>0, <1>2
  <2> QED
    BY ZenonT(60), <1>1, <1>2, <1>5, <1>7, <1>8, <2>1, DetachColours
<1>10. SearchTree(g, k, N, E) /\ Linked(g, N) /\ Hanging(g, N, E)
       /\ \A n \in M, q \in Side : E[g.child[q][n]] = D[t.child[q][n]] \ {y}
  BY <1>9 DEF DetachDone, SearchTree
<1>11. /\ Replaced(g, r, N, p, y) /\ r \in Tree /\ r.key = t.key /\ p \in N /\ y \notin N /\ x # p
       /\ r.parent[x] = Instead(t.parent[y], p, y)
       /\ \A n \in Node : r.color[n] = IF n = y THEN t.color[p] ELSE t.color[n]
  <2>1. /\ t \in Tree /\ Linked(t, M) /\ Hanging(t, M, D) /\ t.child["left"][p] # Nil /\ t.child["right"][p] # Nil
        /\ p \in M /\ y \in M /\ y \in D[t.child["right"][p]] /\ t.child["left"][y] = Nil /\ x = t.child["right"][y]
        /\ g = Transplant(t, y, x) /\ N = M \ {y} /\ Linked(g, N) /\ Hanging(g, N, E)
    BY ZenonT(60), <1>0, <1>1, <1>2, <1>3, <1>5, <1>8, <1>10
  <2>2. Detached(t, M, D, p, y, x, g, N, E)
    BY <2>1 DEF Detached
  <2> HIDE DEF N, right, k
  <2> QED
    BY <2>2, ReplaceBySuccessorIs
<1>12. y \in Nodes \ N /\ y # p
  BY <1>2, <1>5, <1>11
<1>13. K = M \ {p}
  BY <1>5, <1>11
<1>14. Suits(g, k, N, E, p, y)
  BY <1>1, <1>3, <1>4, <1>5, <1>10, <1>12, SuccessorSuits
<1> DEFINE F == Renamed(E, p, y)
<1>15. SearchTree(r, k, K, F)
  <2>1. K = (N \ {p}) \union {y} /\ F = Renamed(E, p, y)
    OBVIOUS
  <2> HIDE DEF K, F, N
  <2> QED
    BY <1>10, <1>11, <1>12, <1>14, <2>1, ReplaceKeeps
<1>16. \A n \in Node : r.color[n] = IF n = y THEN g.color[p] ELSE g.color[n]
  BY <1>7, <1>11 DEF SameNodes
<1>17. ASSUME Red(t, y) PROVE \E G : Kept(r, K, G)
  <2>1. Coloured(g, N, B, Nil, "left", Nil) /\ Nil \in N \union {Nil} /\ K = (N \ {p}) \union {y}
    BY <1>9, <1>17 DEF Kept
  <2>2. Instead(Nil, p, y) = Nil
    BY <1>2, <1>11 DEF Instead
  <2>4. InPlace(g, r, N, E, p, y)
    BY <1>10, <1>11, <1>12, <1>16 DEF InPlace
  <2> HIDE DEF K, N
  <2>3. \E G : Coloured(r, K, G, Instead(Nil, p, y), "left", Instead(Nil, p, y))
    BY <2>1, <2>4, ReplaceColours
  <2> QED
    BY <2>2, <2>3 DEF Kept
<1>18. ASSUME ~Red(t, y) PROVE \E G, pp, b : Erasing(r, k, K, F, G, x, pp, b)
  <2>1. PICK b : Erasing(g, k, N, E, B, x, t.parent[y], b)
    BY <1>9, <1>18
  <2> DEFINE pp == t.parent[y]
             p2 == Instead(pp, p, y)
  <2>2. /\ Coloured(g, N, B, pp, b, x) /\ x \in N \union {Nil} /\ b \in Side
        /\ \/ pp = Nil /\ x = g.root
           \/ pp \in N /\ g.child[b][pp] = x
    BY <2>1 DEF Erasing
  <2> HIDE DEF pp
  <2>3. pp \in N \union {Nil} /\ K = (N \ {p}) \union {y}
    BY <2>2
  <2> HIDE DEF K
  <2>4. PICK G : Coloured(r, K, G, p2, b, Instead(x, p, y))
    <3> HIDE DEF N, p2
    <3>1. InPlace(g, r, N, E, p, y)
      BY <1>10, <1>11, <1>12, <1>16 DEF InPlace
    <3>2. \E G : Coloured(r, K, G, Instead(pp, p, y), b, Instead(x, p, y))
      BY <2>2, <2>3, <3>1, ReplaceColours
    <3> QED
      BY <3>2 DEF p2
  <2>5. Instead(x, p, y) = x
    BY <1>11 DEF Instead
  <2>6. x \in K \union {Nil}
    BY <1>11, <2>2, <2>3
  <2>7. \/ p2 = Nil /\ x = r.root
        \/ p2 \in K /\ r.child[b][p2] = x
    <3>1. CASE pp = Nil /\ x = g.root
      BY <1>2, <1>11, <3>1 DEF Instead, Replaced
    <3>2. CASE pp \in N /\ g.child[b][pp] = x /\ pp = p
      BY <1>11, <2>2, <2>3, <3>2 DEF Instead, Replaced
    <3>3. CASE pp \in N /\ g.child[b][pp] = x /\ pp # p
      <4>1. p2 = pp /\ pp \in K
        BY <2>3, <3>3 DEF Instead
      <4>2. r.child[b][pp] = IF g.child[b][pp] = p THEN y ELSE g.child[b][pp]
        BY <1>11, <2>2, <3>3 DEF Replaced
      <4> QED
        BY <1>11, <3>3, <4>1, <4>2
    <3> QED
      BY <2>2, <3>1, <3>2, <3>3
  <2>8. r.parent[x] = p2
    BY <1>11 DEF pp
  <2>9. Erasing(r, k, K, F, G, x, p2, b)
    <3> HIDE DEF F, p2, N
    <3> QED
      BY <1>15, <2>2, <2>4, <2>5, <2>6, <2>7, <2>8 DEF Erasing
  <2> QED
    BY <2>9
<1> HIDE DEF F
<1>19. Leaves(r, k, K, x, t, y)
  BY <1>11, <1>15, <1>17, <1>18 DEF Leaves
<1> QED
  BY <1>5, <1>11, <1>13, <1>19

\* r is t with the words of p as calloc gives them.
Emptied(t, r, p) ==
  /\ r \in Tree /\ r.root = t.root
  /\ \A q \in Side, n \in Node : r.child[q][n] = IF n = p THEN Nil ELSE t.child[q][n]
  /\ \A n \in Node : /\ r.parent[n] = IF n = p THEN Nil ELSE t.parent[n]
                     /\ r.color[n] = IF n = p THEN "black" ELSE t.color[n]
  /\ r.key = [t.key EXCEPT ![p] = 0]

\* Free, assignment by assignment.
LEMMA FreeIs ==
  ASSUME NEW t \in Tree, NEW p \in Node, NEW r, r = Free(t, p)
  PROVE  Emptied(t, r, p)
<1> DEFINE t1 == PutChild(t, "left", p, Nil)
           t2 == PutChild(t1, "right", p, Nil)
           t3 == PutParent(t2, p, Nil)
           t4 == Paint(t3, p, "black")
           t5 == PutKey(t4, p, 0)
<1>1. r = t5
  BY DEF Free, PutChild, PutParent, Paint, PutKey
<1>2. "left" \in Side /\ "right" \in Side /\ Nil \in Node /\ "black" \in Colors /\ 0 \in Int
      /\ \A q \in Side : q \in {"left", "right"}
  BY DEF Side, Node, Colors
<1>3. SameNodes(t, t1) /\ t1.root = t.root /\ t1.parent = t.parent /\ Relinked(t, t1, "left", p, Nil)
  BY <1>2, SetChild
<1> HIDE DEF t1
<1>4. SameNodes(t1, t2) /\ t2.root = t1.root /\ t2.parent = t1.parent /\ Relinked(t1, t2, "right", p, Nil)
  <2>1. t1 \in Tree
    BY <1>3 DEF SameNodes
  <2> QED
    BY <1>2, <2>1, SetChild
<1> HIDE DEF t2
<1>5. SameNodes(t2, t3) /\ t3.root = t2.root /\ t3.child = t2.child /\ t3.parent = [t2.parent EXCEPT ![p] = Nil]
  <2>1. t2 \in Tree
    BY <1>4 DEF SameNodes
  <2> QED
    BY <1>2, <2>1, SetParent
<1> HIDE DEF t3
<1>6. t4 \in Tree /\ t4.root = t3.root /\ t4.child = t3.child /\ t4.parent = t3.parent
      /\ t4.color = [t3.color EXCEPT ![p] = "black"] /\ t4.key = t3.key
  <2>1. t3 \in Tree
    BY <1>5 DEF SameNodes
  <2> QED
    BY <1>2, <2>1, SetColor
<1> HIDE DEF t4
<1>7. t5 \in Tree /\ t5.root = t4.root /\ t5.child = t4.child /\ t5.parent = t4.parent
      /\ t5.color = t4.color /\ t5.key = [t4.key EXCEPT ![p] = 0]
  BY <1>2, <1>6, SetKey
<1> HIDE DEF t5
<1>8. \A q \in Side, n \in Node : t5.child[q][n] = IF n = p THEN Nil ELSE t.child[q][n]
  BY <1>2, <1>3, <1>4, <1>5, <1>6, <1>7 DEF Relinked
<1>9. \A n \in Node : t5.parent[n] = IF n = p THEN Nil ELSE t.parent[n]
  BY <1>3, <1>4, <1>5, <1>6, <1>7 DEF Tree
<1>10. \A n \in Node : t5.color[n] = IF n = p THEN "black" ELSE t.color[n]
  BY <1>3, <1>4, <1>5, <1>6, <1>7 DEF Tree, SameNodes
<1>11. t5.key = [t.key EXCEPT ![p] = 0] /\ t5.root = t.root
  BY <1>3, <1>4, <1>5, <1>6, <1>7 DEF SameNodes
<1> QED
  BY <1>1, <1>7, <1>8, <1>9, <1>10, <1>11 DEF Emptied

\* A node that is not in the tree can be freed.
LEMMA FreeKeeps ==
  ASSUME NEW t \in Tree, NEW N, NEW D, SearchTree(t, t.key, N, D), NEW B, Kept(t, N, B),
         NEW p \in Nodes \ N, NEW r, r = Free(t, p)
  PROVE  Valid(r, N) /\ r.key = [t.key EXCEPT ![p] = 0]
<1>1. /\ p \in Node /\ N \subseteq Node /\ Nil # p /\ Nil \in Node /\ p \notin N /\ t.root \in N \union {Nil}
      /\ \A q \in Side, n \in N : t.child[q][n] \in N \union {Nil}
  BY TreesAssumption DEF SearchTree, Linked, Node
<1>2. /\ r \in Tree /\ r.root = t.root
      /\ \A q \in Side, n \in Node : r.child[q][n] = IF n = p THEN Nil ELSE t.child[q][n]
      /\ \A n \in Node : /\ r.parent[n] = IF n = p THEN Nil ELSE t.parent[n]
                         /\ r.color[n] = IF n = p THEN "black" ELSE t.color[n]
      /\ r.key = [t.key EXCEPT ![p] = 0]
  <2>1. Emptied(t, r, p)
    BY <1>1, FreeIs
  <2> QED
    BY <2>1 DEF Emptied
<1>3. SearchTree(r, r.key, N, D)
  <2>1. Links(r)
    <3>1. r.root \in Node
      BY <1>1, <1>2
    <3> QED
      BY <1>2, <3>1 DEF Links, Tree
  <2>2. Alike(t, r, N)
    BY <1>1, <1>2, <2>1 DEF Alike
  <2>3. r.key \in [Node -> Int] /\ \A n \in N : r.key[n] = t.key[n]
    BY <1>1, <1>2 DEF Tree
  <2> QED
    BY <2>2, <2>3, AlikeKeeps
<1>4. Kept(r, N, B)
  <2>1. /\ \A n \in N \union {Nil} : r.color[n] = t.color[n]
        /\ \A n \in N, q \in Side : r.child[q][n] = t.child[q][n] /\ r.child[q][n] \in N \union {Nil}
        /\ r.root \in N \union {Nil} /\ r.root = t.root
    BY <1>1, <1>2
  <2>2. \A n \in N \union {Nil} : (Red(r, n) <=> Red(t, n)) /\ Weight(r, n) = Weight(t, n)
    BY <2>1 DEF Red, Weight
  <2>3. Heights(r, N, B, Nil, "left")
    BY <2>1, <2>2 DEF Kept, Coloured, Heights
  <2>4. ~Red(r, Nil) /\ Apart(r, N, Nil) /\ ~Red(r, r.root)
    BY <2>1, <2>2 DEF Kept, Coloured, Apart
  <2> QED
    BY <1>2, <2>3, <2>4 DEF Kept, Coloured
<1> QED
  BY <1>2, <1>3, <1>4 DEF Valid

\* rbtree_erase makes a valid tree without the node.
LEMMA EraseKeeps ==
  ASSUME NEW t, NEW M, Valid(t, M), NEW p \in M, NEW r, r = RbtreeErase(t, p)
  PROVE  Valid(r, M \ {p}) /\ r.key = [t.key EXCEPT ![p] = 0]
<1> DEFINE two == t.child["left"][p] # Nil /\ t.child["right"][p] # Nil
           y == IF two THEN Furthest(t, t.child["right"][p], "left") ELSE p
           x == t.child[IF t.child["left"][y] = Nil THEN "right" ELSE "left"][y]
           t1 == IF two THEN ReplaceBySuccessor(t, p, y, x) ELSE Transplant(t, p, x)
           t2 == IF t.color[y] = "black" THEN EraseFixUp(t1, x) ELSE t1
           N == M \ {p}
           k == t.key
<1>1. r = Free(t2, p)
  BY DEF RbtreeErase
<1>2. /\ "left" \in Side /\ "right" \in Side /\ \A q \in Side : q \in {"left", "right"}
      /\ Other("left") = "right" /\ Other("right") = "left" /\ t \in Tree /\ M \subseteq Nodes /\ M \subseteq Node
  <2>1. \E D : SearchTree(t, t.key, M, D)
    BY DEF Valid
  <2> QED
    BY <2>1 DEF Side, Other, Valid, SearchTree, Linked, Node
<1>3. Leaves(t1, k, N, x, t, y) /\ t1.key = k /\ y \in M
  <2>1. CASE two
    <3> DEFINE s == Furthest(t, t.child["right"][p], "left")
               w == t.child["right"][s]
               v == ReplaceBySuccessor(t, p, s, w)
    <3>1. \A q \in Side : t.child[q][p] # Nil
      BY <1>2, <2>1
    <3>2. s = Furthest(t, t.child["right"][p], "left") /\ w = t.child["right"][s] /\ v = ReplaceBySuccessor(t, p, s, w)
      OBVIOUS
    <3> HIDE DEF s, w, v
    <3> HIDE DEF two, y, x, t1, t2, N, k
    <3>7. Succeeds(t, p, s, w)
      BY <3>1, <3>2 DEF Succeeds
    <3>3. Leaves(v, t.key, M \ {p}, w, t, s) /\ v.key = t.key /\ s \in M /\ t.child["left"][s] = Nil
      <4>1. v = ReplaceBySuccessor(t, p, s, w)
        BY <3>2
      <4> QED
        BY <3>7, <4>1, TwoLeave
    <3> USE DEF two, y, x, t1, t2, N, k
    <3>4. y = s
      BY <2>1 DEF s
    <3>5. x = w
      BY <3>3, <3>4 DEF w
    <3>6. t1 = v
      BY <2>1, <3>4, <3>5 DEF v
    <3> QED
      BY <3>3, <3>4, <3>5, <3>6
  <2>2. CASE ~two
    <3> DEFINE a == IF t.child["left"][p] = Nil THEN "left" ELSE "right"
               w == t.child[Other(a)][p]
               v == Transplant(t, p, w)
    <3>1. y = p
      BY <2>2
    <3>2. x = w
      BY <1>2, <3>1
    <3>3. a \in Side /\ t.child[a][p] = Nil
      BY <1>2, <2>2
    <3>4. t1 = v
      BY <2>2, <3>2
    <3>5. w = t.child[Other(a)][p] /\ v = Transplant(t, p, w)
      OBVIOUS
    <3> HIDE DEF a, w, v
    <3>6. Leaves(v, t.key, M \ {p}, w, t, p) /\ v.key = t.key
      BY <3>3, <3>5, OneLeaves
    <3> QED
      BY <3>1, <3>2, <3>4, <3>6
  <2> QED
    BY ZenonT(60), <2>1, <2>2
<1> HIDE DEF t1, x, y
<1>4. t.color[y] = "black" <=> ~Red(t, y)
  BY <1>2, <1>3 DEF Tree, Red, Colors
<1>5. t2 \in Tree /\ t2.key = k /\ \E E, F : SearchTree(t2, k, N, E) /\ Kept(t2, N, F)
  <2>1. CASE Red(t, y)
    <3>1. t2 = t1
      BY <1>4, <2>1
    <3> HIDE DEF t2
    <3> QED
      BY <1>3, <2>1, <3>1 DEF Leaves
  <2>2. CASE ~Red(t, y)
    <3>1. t2 = EraseFixUp(t1, x)
      BY <1>4, <2>2
    <3> HIDE DEF t2
    <3>2. PICK E, F, g, b : Erasing(t1, k, N, E, F, x, g, b)
      BY <1>3, <2>2 DEF Leaves
    <3> QED
      BY <1>3, <3>1, <3>2, EraseFixUpKeeps
  <2> QED
    BY <2>1, <2>2
<1> HIDE DEF t2
<1>6. PICK E, F : SearchTree(t2, t2.key, N, E) /\ Kept(t2, N, F)
  BY <1>5
<1>7. p \in Nodes \ N
  BY <1>2
<1> HIDE DEF N
<1>8. Valid(r, N) /\ r.key = [t2.key EXCEPT ![p] = 0]
  BY <1>1, <1>5, <1>6, <1>7, FreeKeeps
<1> QED
  BY <1>5, <1>8 DEF N

-----------------------------------------------------------------------------
(* The invariant.                                                          *)

\* An empty tree is valid.
LEMMA EmptyIsValid ==
  ASSUME NEW t \in Tree, t.root = Nil, \A q \in Side : t.child[q][Nil] = Nil, ~Red(t, Nil)
  PROVE  Valid(t, {})
<1> DEFINE D == [n \in Node |-> {}]
           B == [n \in Node |-> 0]
<1>1. Nil \in Node /\ Links(t) /\ t.key \in [Node -> Int]
  BY DEF Node, Links, Tree
<1>2. D \in [Node -> SUBSET {}] /\ D[Nil] = {} /\ B \in [Node -> Nat] /\ B[Nil] = 0
  BY <1>1
<1> HIDE DEF D, B
<1>3. SearchTree(t, t.key, {}, D)
  BY <1>1, <1>2 DEF SearchTree, Linked, Hanging, Sorted
<1>4. Kept(t, {}, B)
  BY <1>2 DEF Kept, Coloured, Heights, Apart
<1> QED
  BY <1>3, <1>4 DEF Valid

\* new_rbtree's among them.
LEMMA NewTreeIsValid == Valid(NewTree, {}) /\ NewTree.root # Null
<1>1. Nil \in Node /\ "black" \in Colors /\ Blank \in [Node -> Node] /\ Blank[Nil] = Nil
  BY DEF Node, Colors, Blank
<1>2. NewTree \in Tree /\ NewTree.root = Nil /\ ~Red(NewTree, Nil) /\ \A q \in Side : NewTree.child[q][Nil] = Nil
  BY <1>1 DEF NewTree, Tree, Red
<1>3. NewTree.root # Null
  BY <1>1, <1>2, NullAssumption
<1> QED
  BY <1>2, <1>3, EmptyIsValid

\* What a valid tree is, without the words for what hangs where.
LEMMA ValidIs ==
  ASSUME NEW t, NEW M, Valid(t, M)
  PROVE  /\ t \in Tree /\ t.root \in M \union {Nil} /\ t.root # Null /\ M \subseteq Nodes /\ M \subseteq Node
         /\ \A n \in M : t.parent[n] \in M \union {Nil} /\ \A q \in Side : t.child[q][n] \in M \union {Nil}
         /\ \A q \in Side : t.child[q][Nil] = Nil
         /\ t.color[Nil] = "black" /\ t.color[t.root] = "black"
         /\ t.root \in M => t.parent[t.root] = Nil
         /\ \A n \in M, q \in Side : t.child[q][n] # Nil => t.parent[t.child[q][n]] = n
         /\ t.root = Nil => M = {}
<1>1. PICK D, B : t \in Tree /\ SearchTree(t, t.key, M, D) /\ Kept(t, M, B)
  BY DEF Valid
<1>2. Linked(t, M) /\ Hanging(t, M, D) /\ ~Red(t, Nil) /\ ~Red(t, t.root) /\ Nil \in Node
  BY <1>1, TreesAssumption DEF SearchTree, Kept, Coloured, Node
<1>3. \A n \in M : t.parent[n] \in M \union {Nil}
  BY <1>2, EachPlaced DEF Placed
<1>4. t.root \in Node /\ \A n \in Node : t.color[n] \in {"red", "black"}
  BY <1>1, <1>2 DEF Tree, Linked, Links, Colors
<1>5. t.root # Null
  BY <1>4, NullAssumption
<1>6. M \subseteq Nodes /\ M \subseteq Node /\ Nil \notin M
  BY <1>2, TreesAssumption DEF Linked, Node
<1>7. t.root = Nil => M = {}
  BY <1>2 DEF Hanging
<1> QED
  BY <1>1, <1>2, <1>3, <1>4, <1>5, <1>6, <1>7 DEF Linked, Red

\* The client's tree is valid for the pointers it holds, or has lost its root, and then
\* holds nothing.
ClientInv ==
  /\ crashed \in BOOLEAN
  /\ tree.root # Null => Valid(tree, members)
  /\ tree.root = Null => /\ members = {} /\ tree \in Tree /\ tree.color[Nil] = "black"
                         /\ \A s \in Side : tree.child[s][Nil] = Nil

\* An insertion that fails takes an empty tree's root, and nothing else.
LEMMA FailureIs ==
  ASSUME NEW t, NEW M, Valid(t, M), NEW r, r = RbtreeInsertFails(t)
  PROVE  /\ r.key = t.key
         /\ \/ r = t
            \/ /\ r.root = Null /\ M = {} /\ r \in Tree /\ r.color[Nil] = "black"
               /\ \A s \in Side : r.child[s][Nil] = Nil
<1>1. CASE t.root = Nil
  <2>1. r = PutRoot(t, Null)
    BY <1>1 DEF RbtreeInsertFails, PutRoot
  <2>2. t \in Tree
    BY ValidIs
  <2>3. SameNodes(t, r) /\ r.root = Null /\ r.child = t.child /\ r.parent = t.parent
    BY <2>1, <2>2, SetRoot
  <2> QED
    BY <1>1, <2>3, ValidIs DEF SameNodes
<1>2. CASE t.root # Nil
  BY <1>2 DEF RbtreeInsertFails
<1> QED
  BY <1>1, <1>2

\* Every step keeps the invariant.
LEMMA ClientKeeps == ASSUME ClientInv, [Next]_vars PROVE ClientInv'
<1> USE DEF ClientInv
<1>1. ASSUME NEW n \in Nodes, NEW key \in KeysOf[n], Insert(n, key) PROVE ClientInv'
  <2>1. Valid(tree, members) /\ n \in Nodes \ members /\ key \in Int
    BY <1>1, KeysAssumption DEF Insert, Usable
  <2>2. tree' = RbtreeInsert(tree, n, key) /\ members' = members \union {n} /\ crashed' = crashed
    BY <1>1 DEF Insert
  <2>3. Valid(tree', members')
    BY <2>1, <2>2, InsertKeeps
  <2>4. tree'.root # Null
    BY <2>3, ValidIs
  <2> QED
    BY <2>2, <2>3, <2>4
<1>2. ASSUME NEW n \in Nodes, Erase(n) PROVE ClientInv'
  <2>1. Valid(tree, members) /\ n \in members
    BY <1>2 DEF Erase, Usable
  <2>2. tree' = RbtreeErase(tree, n) /\ members' = members \ {n} /\ crashed' = crashed
    BY <1>2 DEF Erase
  <2>3. Valid(tree', members')
    BY <2>1, <2>2, EraseKeeps
  <2>4. tree'.root # Null
    BY <2>3, ValidIs
  <2> QED
    BY <2>2, <2>3, <2>4
<1>3. ASSUME InsertFails PROVE ClientInv'
  <2>1. Valid(tree, members) /\ tree.root # Null
    BY <1>3 DEF InsertFails, Usable
  <2>2. tree' = RbtreeInsertFails(tree) /\ members' = members /\ crashed' = crashed
    BY <1>3 DEF InsertFails
  <2>3. \/ tree' = tree
        \/ /\ tree'.root = Null /\ members = {} /\ tree' \in Tree /\ tree'.color[Nil] = "black"
           /\ \A s \in Side : tree'.child[s][Nil] = Nil
    BY <2>1, <2>2, FailureIs
  <2> QED
    BY <2>1, <2>2, <2>3
<1>4. ASSUME Renew PROVE ClientInv'
  BY <1>4, NewTreeIsValid DEF Renew
<1>5. ASSUME Crash PROVE ClientInv'
  BY <1>5 DEF Crash
<1>6. ASSUME UNCHANGED <<tree, members, crashed>> PROVE ClientInv'
  BY <1>6
<1>7. ASSUME NEW reply, Ask(reply) PROVE ClientInv'
  BY <1>6, <1>7 DEF Ask
<1> QED
  BY <1>1, <1>2, <1>3, <1>4, <1>5, <1>6, <1>7 DEF Next, EraseNull, Ended, vars

\* So it always holds.
LEMMA ClientAlways == Spec => []ClientInv
<1>1. Init => ClientInv
  BY NewTreeIsValid DEF Init, ClientInv
<1>2. ClientInv /\ [Next]_vars => ClientInv'
  BY ClientKeeps
<1> QED
  BY <1>1, <1>2, PTL DEF Spec

\* Fields hold cells, no node points at a freed cell, and of the sentinel's words only the
\* parent changes (RBClient.TypeOK), through every insertion and erasure.
THEOREM TreeTyped == Spec => []TypeOK
<1>1. ClientInv => TypeOK
  <2>1. ASSUME ClientInv, tree.root # Null PROVE TypeOK
    BY <2>1, ValidIs DEF ClientInv, TypeOK
  <2>2. ASSUME ClientInv, tree.root = Null PROVE TypeOK
    BY <2>2 DEF ClientInv, TypeOK
  <2> QED
    BY <2>1, <2>2
<1> QED
  BY <1>1, ClientAlways, PTL

\* The walk of a valid tree.
LEMMA WalkIs ==
  ASSUME NEW t, NEW M, Valid(t, M)
  PROVE  IsWalk(t.key, Walk(t), M)
<1>1. PICK D : SearchTree(t, t.key, M, D)
  BY DEF Valid
<1>2. t.root \in M \union {Nil} /\ t.root # Null /\ D[t.root] = M
  BY <1>1, ValidIs DEF SearchTree, Hanging
<1>3. IsWalk(t.key, InOrder(t)[t.root], D[t.root])
  BY <1>1, <1>2, InOrderIs
<1> QED
  BY <1>2, <1>3 DEF Walk

\* The tree holds what was inserted and not erased, each cell once, and every child knows
\* its parent (HoldsMembers), whatever the rotations and the transplanting did.
THEOREM TreeHoldsMembers == Spec => []HoldsMembers
<1>1. ClientInv => HoldsMembers
  <2>1. ASSUME ClientInv, tree.root # Null PROVE HoldsMembers
    <3>1. Valid(tree, members)
      BY <2>1 DEF ClientInv
    <3>2. IsWalk(tree.key, Walk(tree), members)
      BY <3>1, WalkIs
    <3>3. Len(Walk(tree)) = Cardinality(members) /\ {Walk(tree)[i] : i \in DOMAIN Walk(tree)} = members
      BY <3>2 DEF IsWalk
    <3> QED
      BY <3>1, <3>3, ValidIs DEF HoldsMembers
  <2>2. ASSUME ClientInv, tree.root = Null PROVE HoldsMembers
    <3>1. Walk(tree) = <<>> /\ members = {} /\ Cardinality({}) = 0
      BY <2>2, FS_EmptySet DEF ClientInv, Walk
    <3>2. {Walk(tree)[i] : i \in DOMAIN Walk(tree)} = {}
      BY <3>1
    <3> QED
      BY <3>1, <3>2 DEF HoldsMembers
  <2> QED
    BY <2>1, <2>2
<1> QED
  BY <1>1, ClientAlways, PTL

\* The counts of black nodes below each node agree.
LEMMA BlackHeightsIs ==
  ASSUME NEW t, NEW M, NEW D, SearchTree(t, t.key, M, D), NEW B, Kept(t, M, B)
  PROVE  \A n \in M \union {Nil} : BlackHeights(t)[n] = {B[n] + 1}
<1> DEFINE V == SUBSET Nat
           w(n) == IF t.color[n] = "black" THEN 1 ELSE 0
           turn == [below \in [Node -> V] |->
                     [n \in Node |-> IF n = Nil THEN {1}
                                     ELSE {h + w(n) : h \in UNION {below[t.child[s][n]] : s \in Side}}]]
           start == [n \in Node |-> {1}]
           right == {r \in Node \X V : r[2] = {B[r[1]] + 1}}
<1>1. BlackHeights(t) = Turns(turn, start)
  BY DEF BlackHeights
<1>2. /\ Linked(t, M) /\ Hanging(t, M, D) /\ Nil \notin M /\ M \subseteq Node /\ Nil \in Node
      /\ \A q \in Side, n \in Node : t.child[q][n] \in Node
      /\ B \in [Node -> Nat] /\ B[Nil] = 0 /\ \A n \in M, q \in Side : B[n] = w(n) + B[t.child[q][n]]
  <2>1. /\ Linked(t, M) /\ Hanging(t, M, D) /\ Nil \notin M /\ M \subseteq Node /\ Nil \in Node
        /\ Heights(t, M, B, Nil, "left") /\ \A q \in Side, n \in Node : t.child[q][n] \in Node
    <3>1. Linked(t, M) /\ Hanging(t, M, D) /\ Heights(t, M, B, Nil, "left")
      BY DEF SearchTree, Kept, Coloured
    <3>2. Nil \notin M /\ M \subseteq Node /\ Nil \in Node
      BY <3>1, TreesAssumption DEF Linked, Node
    <3>3. t.child \in [Side -> [Node -> Node]]
      BY <3>1 DEF Linked, Links
    <3> QED
      BY <3>1, <3>2, <3>3
  <2>2. ASSUME NEW n \in M, NEW q \in Side PROVE B[n] = w(n) + B[t.child[q][n]]
    <3>1. B[n] = Weight(t, n) + B[t.child[q][n]] + Lack(Nil, "left", n, q) /\ Lack(Nil, "left", n, q) = 0
      BY <2>1 DEF Heights, Lack
    <3>2. B[t.child[q][n]] \in Nat /\ Weight(t, n) \in Nat /\ Weight(t, n) = w(n)
      BY <2>1 DEF Heights, Weight
    <3> QED
      BY <3>1, <3>2
  <2> QED
    BY <2>1, <2>2 DEF Heights
<1>3. \A n \in Node : w(n) \in Nat
  OBVIOUS
<1> HIDE DEF w
<1>4. turn \in [[Node -> V] -> [Node -> V]] /\ start \in [Node -> V]
  <2>1. ASSUME NEW below \in [Node -> V], NEW n \in Node
        PROVE  {h + w(n) : h \in UNION {below[t.child[s][n]] : s \in Side}} \in V
    BY <1>2, <1>3
  <2>2. {1} \in V
    OBVIOUS
  <2> HIDE DEF V
  <2> QED
    BY <2>1, <2>2
<1>5. <<Nil, start[Nil]>> \in right /\ \A f \in [Node -> V] : <<Nil, turn[f][Nil]>> \in right
  <2>1. start[Nil] = {1} /\ \A f \in [Node -> V] : turn[f][Nil] = {1}
    BY <1>2
  <2> HIDE DEF start, turn
  <2> QED
    BY <1>2, <2>1
<1>6. ASSUME NEW f \in [Node -> V], NEW n \in M,
             \A q \in Side : <<t.child[q][n], f[t.child[q][n]]>> \in right
      PROVE  <<n, turn[f][n]>> \in right
  <2>1. turn[f][n] = {h + w(n) : h \in UNION {f[t.child[s][n]] : s \in Side}}
    BY <1>2
  <2> HIDE DEF turn
  <2>2. \A q \in Side : f[t.child[q][n]] = {B[t.child[q][n]] + 1}
    BY <1>6
  <2>3. \A q \in Side : B[t.child[q][n]] \in Nat /\ B[n] = w(n) + B[t.child[q][n]] /\ w(n) \in Nat /\ B[n] \in Nat
    BY <1>2, <1>3
  <2> DEFINE b == B[t.child["left"][n]]
  <2>4. b \in Nat /\ B[n] = w(n) + b /\ \A q \in Side : f[t.child[q][n]] = {b + 1}
    <3>1. "left" \in Side
      BY DEF Side
    <3> QED
      BY <2>2, <2>3, <3>1
  <2> HIDE DEF b
  <2>5. UNION {f[t.child[s][n]] : s \in Side} = {b + 1}
    BY <2>4 DEF Side
  <2>6. {h + w(n) : h \in {b + 1}} = {b + 1 + w(n)}
    OBVIOUS
  <2>7. turn[f][n] = {B[n] + 1}
    <3>1. turn[f][n] = {b + 1 + w(n)}
      BY <2>1, <2>5, <2>6
    <3>2. b + 1 + w(n) = B[n] + 1
      BY <1>2, <1>3, <2>4
    <3> QED
      BY <3>1, <3>2
  <2> QED
    BY <1>2, <2>3, <2>7
<1> HIDE DEF turn, start, right, V
<1>7. Recurses(t, M, V, right, turn, start)
  BY <1>4, <1>5, <1>6 DEF Recurses
<1>8. \A n \in M \union {Nil} : <<n, Turns(turn, start)[n]>> \in right
  BY <1>2, <1>7, Recursion
<1> QED
  BY <1>1, <1>8 DEF right

\* The rules of red and black (test_color_constraint) and the order of the keys hold
\* after every insertion and every erasure (ValidTree): in a tree of any size, with any
\* keys, equal ones included.
THEOREM TreeStaysValid == Spec => []ValidTree
<1>1. ClientInv => Ordered
  <2>1. ASSUME ClientInv, tree.root # Null PROVE Ordered
    <3>1. IsWalk(tree.key, Walk(tree), members)
      BY <2>1, WalkIs DEF ClientInv
    <3>2. Len(Walk(tree)) \in Nat /\ \A i, j \in 1 .. Len(Walk(tree)) : i < j => tree.key[Walk(tree)[i]] <= tree.key[Walk(tree)[j]]
      BY <3>1 DEF IsWalk
    <3>3. ASSUME NEW i \in 1 .. Len(Walk(tree)) - 1 PROVE tree.key[Walk(tree)[i]] <= tree.key[Walk(tree)[i + 1]]
      <4>1. i \in 1 .. Len(Walk(tree)) /\ i + 1 \in 1 .. Len(Walk(tree)) /\ i < i + 1
        BY <3>2
      <4> QED
        BY <3>2, <4>1
    <3> QED
      BY <3>3 DEF Ordered
  <2>2. ASSUME tree.root = Null PROVE Ordered
    <3>1. Walk(tree) = <<>>
      BY <2>2 DEF Walk
    <3>2. Len(Walk(tree)) = 0
      BY <3>1
    <3> QED
      BY <3>2 DEF Ordered
  <2> QED
    BY <2>1, <2>2
<1>2. ClientInv => RedBlack
  <2>1. SUFFICES ASSUME ClientInv, tree.root # Null PROVE RedBlack
    BY DEF RedBlack
  <2>2. PICK D, B : SearchTree(tree, tree.key, members, D) /\ Kept(tree, members, B)
    BY <2>1 DEF ClientInv, Valid
  <2>3. /\ tree.color[tree.root] = "black" /\ tree.color[Nil] = "black" /\ tree.root \in members \union {Nil}
        /\ tree \in Tree /\ members \subseteq Node /\ Nil \notin members
        /\ \A n \in members, q \in Side : tree.child[q][n] \in members \union {Nil}
    BY <2>1, ValidIs, TreesAssumption DEF ClientInv
  <2>4. ASSUME NEW n \in members, tree.color[n] = "red", NEW s \in Side PROVE tree.color[tree.child[s][n]] = "black"
    <3>1. ~(Red(tree, n) /\ Red(tree, tree.child[s][n])) \/ Nil \in {n, tree.child[s][n]}
      BY <2>2 DEF Kept, Coloured, Apart
    <3>2. tree.child[s][n] \in Node /\ tree.color \in [Node -> Colors]
      BY <2>3 DEF Tree, Node
    <3> QED
      BY <2>3, <2>4, <3>1, <3>2 DEF Red, Colors
  <2>5. BlackHeights(tree)[tree.root] = {B[tree.root] + 1}
    <3>1. \A n \in members \union {Nil} : BlackHeights(tree)[n] = {B[n] + 1}
      <4>1. SearchTree(tree, tree.key, members, D)
        BY <2>2
      <4>2. Kept(tree, members, B)
        BY <2>2
      <4> QED
        BY ONLY ZenonT(60), <4>1, <4>2, BlackHeightsIs
    <3> QED
      BY <2>3, <3>1
  <2>6. Cardinality(BlackHeights(tree)[tree.root]) = 1
    BY <2>5, FS_Singleton
  <2> QED
    BY <2>3, <2>4, <2>6 DEF RedBlack
<1>3. ClientInv => ValidTree
  BY <1>1, <1>2 DEF ValidTree
<1> QED
  BY <1>3, ClientAlways, PTL

-----------------------------------------------------------------------------
(* The questions.                                                          *)

\* rbtree_find answers a node with the key, or NULL when no node has it.
LEMMA FindIs ==
  ASSUME NEW t, NEW M, Valid(t, M), NEW s \in Int, NEW r, r = RbtreeFind(t, s)
  PROVE  \/ r \in M /\ t.key[r] = s
         \/ r = Null /\ \A m \in M : t.key[m] # s
<1> DEFINE k == t.key
           next(n) == t.child[SideFor(s, k[n])][n]
           turn == [n \in Node |-> IF n = Nil \/ k[n] = s THEN n ELSE next(n)]
           last == Turns(turn, t.root)
<1>1. PICK D : t \in Tree /\ SearchTree(t, k, M, D)
  BY DEF Valid
<1>2. /\ Linked(t, M) /\ Hanging(t, M, D) /\ Sorted(t, k, M, D) /\ k \in [Node -> Int]
      /\ Nil \in Node /\ M \subseteq Node /\ Nil \notin M /\ t.root \in M \union {Nil} /\ t.root \in Node
      /\ \A n \in Node : SideFor(s, k[n]) \in Side
      /\ Cardinality(Nodes) \in Nat /\ D[t.root] = M /\ D[Nil] = {}
      /\ D \in [Node -> SUBSET M]
  BY <1>1, TreesAssumption, FS_CardinalityType DEF SearchTree, Linked, Hanging, Sorted, Node, SideFor, Side
<1>3. /\ \A n \in Node : next(n) \in Node
      /\ \A n \in M : next(n) \in M \union {Nil}
  BY <1>2 DEF Linked, Links
<1>4. ASSUME NEW n \in M, k[n] # s
      PROVE  /\ Cardinality(D[next(n)]) < Cardinality(D[n])
             /\ \A m \in D[n] : k[m] = s => m \in D[next(n)]
  <2> DEFINE q == SideFor(s, k[n])
  <2>1. q \in Side /\ n \in Node
    BY <1>2
  <2>2. Cardinality(D[next(n)]) < Cardinality(D[n])
    BY <1>2, <2>1, Smaller
  <2>3. ASSUME NEW m \in D[n], k[m] = s PROVE m \in D[t.child[q][n]]
    <3>1. D[n] = {n} \union D[t.child[q][n]] \union D[t.child[Other(q)][n]]
      BY <1>2, <2>1 DEF Hanging
    <3>2. ASSUME m \in D[t.child[Other(q)][n]] PROVE FALSE
      <4>1. Other(q) \in Side
        BY <2>1, Sides
      <4>2. Before(k, Other(q), m, n)
        BY <1>2, <3>2, <4>1 DEF Sorted
      <4>3. k[n] \in Int
        BY <1>2, <2>1
      <4> QED
        BY <1>4, <2>3, <4>2, <4>3 DEF Before, Other, SideFor
    <3> QED
      BY <1>4, <2>3, <3>1, <3>2
  <2> QED
    BY <2>2, <2>3
<1> HIDE DEF next, k
<1> DEFINE Descending(j, n) == /\ n \in M \union {Nil} /\ \A m \in M : k[m] = s => m \in D[n]
                               /\ n # Nil /\ k[n] # s => Cardinality(D[n]) + j <= Cardinality(Nodes)
           I == {i \in Nat \X Node : Descending(i[1], i[2])}
<1>5. turn \in [Node -> Node]
  BY <1>3
<1>6. \A n \in Node : Cardinality(D[n]) \in Nat /\ Cardinality(D[n]) <= Cardinality(Nodes)
  BY <1>2, Smaller
<1>7. <<0, t.root>> \in I
  <2>1. Descending(0, t.root)
    BY <1>2, <1>6
  <2> HIDE DEF Descending
  <2> QED
    BY <1>2, <2>1
<1>8. ASSUME NEW j \in Nat, NEW n \in Node, <<j, n>> \in I PROVE <<j + 1, turn[n]>> \in I
  <2>1. Descending(j, n)
    BY <1>8
  <2>2. CASE n = Nil \/ k[n] = s
    <3>1. turn[n] = n /\ Descending(j + 1, n)
      BY <2>1, <2>2
    <3> HIDE DEF Descending, turn
    <3> QED
      BY <3>1
  <2>3. CASE ~(n = Nil \/ k[n] = s)
    <3>1. turn[n] = next(n) /\ n \in M
      BY <2>1, <2>3
    <3>2. next(n) \in M \union {Nil} /\ next(n) \in Node
      BY <1>3, <3>1
    <3>3. Cardinality(D[next(n)]) < Cardinality(D[n]) /\ \A m \in D[n] : k[m] = s => m \in D[next(n)]
      BY <1>4, <2>3, <3>1
    <3>4. Cardinality(D[n]) + j <= Cardinality(Nodes)
      BY <2>1, <2>3
    <3>5. Cardinality(D[next(n)]) + (j + 1) <= Cardinality(Nodes)
      BY <1>2, <1>6, <3>2, <3>3, <3>4
    <3>6. Descending(j + 1, next(n))
      BY <2>1, <3>2, <3>3, <3>5
    <3> HIDE DEF Descending, turn
    <3> QED
      BY <3>1, <3>2, <3>6
  <2> QED
    BY <2>2, <2>3
<1> HIDE DEF turn
<1>9. <<Cardinality(Nodes), last>> \in I
  <2> HIDE DEF I
  <2> QED
    BY <1>2, <1>5, <1>7, <1>8, TurnsKeep
<1>10. Descending(Cardinality(Nodes), last)
  BY <1>9
<1>11. r = OrNull(last)
  BY DEF RbtreeFind, turn, next, k
<1> HIDE DEF last
<1>12. last = Nil \/ k[last] = s
  <2> SUFFICES ASSUME last # Nil, k[last] # s PROVE FALSE
    OBVIOUS
  <2>1. last \in M /\ Cardinality(D[last]) + Cardinality(Nodes) <= Cardinality(Nodes)
    BY <1>10
  <2>2. Cardinality(D[next(last)]) < Cardinality(D[last])
    BY <1>4, <2>1
  <2>3. next(last) \in Node /\ last \in Node
    BY <1>2, <1>3, <2>1
  <2> QED
    BY <1>2, <1>6, <2>1, <2>2, <2>3
<1>13. CASE last = Nil
  BY <1>2, <1>10, <1>11, <1>13 DEF OrNull, k
<1>14. CASE last # Nil
  BY <1>10, <1>11, <1>12, <1>14 DEF OrNull, k
<1> QED
  BY <1>13, <1>14

\* rbtree_min and rbtree_max answer the first and the last node, or NULL when there is
\* none.
LEMMA EndIs ==
  ASSUME NEW t, NEW M, Valid(t, M), NEW s \in Side, NEW r, r = OrNull(Furthest(t, t.root, s))
  PROVE  \/ M = {} /\ r = Null
         \/ r \in M /\ \A m \in M : Before(t.key, s, r, m)
<1>1. PICK D : t \in Tree /\ SearchTree(t, t.key, M, D)
  BY DEF Valid
<1>2. /\ t.root \in M \union {Nil} /\ D[t.root] = M /\ Nil \notin M /\ Nil \in Node
      /\ t.child[s] \in [Node -> Node] /\ t.child[s][Nil] = Nil
  BY <1>1, TreesAssumption DEF SearchTree, Linked, Links, Hanging, Node
<1>3. CASE t.root = Nil
  <2> DEFINE turn == [m \in Node |-> IF t.child[s][m] = Nil THEN m ELSE t.child[s][m]]
  <2>1. turn \in [Node -> Node] /\ turn[Nil] = Nil
    BY <1>2
  <2>2. Furthest(t, Nil, s) = Turns(turn, Nil)
    BY DEF Furthest
  <2> HIDE DEF turn
  <2>3. Furthest(t, Nil, s) = Nil
    BY <1>2, <2>1, <2>2, TurnsStay
  <2>4. M = {}
    BY <1>3, ValidIs
  <2> QED
    BY <1>3, <2>3, <2>4 DEF OrNull
<1>4. CASE t.root # Nil
  <2> DEFINE m == Furthest(t, t.root, s)
  <2>1. Extreme(t, t.key, M, D, s, t.root, m)
    BY <1>1, <1>2, <1>4, FurthestIs
  <2> QED
    BY <1>2, <2>1 DEF Extreme, OrNull
<1> QED
  BY <1>3, <1>4

\* l is the keys in order of the nodes M, as many as there is room for.
Sequence(k, M, room, l) == \E w \in Seq(Node) : IsWalk(k, w, M) /\ Lists(k, w, room, l)

\* rbtree_to_array stores the first keys in order.
LEMMA ArrayIs ==
  ASSUME NEW t, NEW M, Valid(t, M), NEW n \in Nat
  PROVE  Sequence(t.key, M, n, RbtreeToArray(t, n))
<1> DEFINE k == t.key
           V == [0 .. n -> Seq(Int)]
           lc(m) == t.child["left"][m]
           rc(m) == t.child["right"][m]
           Stores(f, m, room) == IF m = Nil THEN <<>>
                                 ELSE IF Len(f[lc(m)][room]) >= room THEN f[lc(m)][room]
                                 ELSE f[lc(m)][room] \o <<k[m]>> \o f[rc(m)][room - Len(f[lc(m)][room]) - 1]
           turn == [f \in [Node -> V] |-> [m \in Node |-> [room \in 0 .. n |-> Stores(f, m, room)]]]
           start == [m \in Node |-> [room \in 0 .. n |-> <<>>]]
<1>1. InorderHelper(t, n) = Turns(turn, start)
  BY DEF InorderHelper
<1>2. PICK D : t \in Tree /\ SearchTree(t, k, M, D)
  BY DEF Valid
<1>3. /\ Linked(t, M) /\ Hanging(t, M, D) /\ Sorted(t, k, M, D) /\ k \in [Node -> Int]
      /\ Nil \in Node /\ M \subseteq Node /\ Nil \notin M /\ t.root \in M \union {Nil}
      /\ D[t.root] = M /\ D[Nil] = {} /\ "left" \in Side /\ "right" \in Side
  BY <1>2, TreesAssumption DEF SearchTree, Linked, Hanging, Sorted, Node, Side
<1>4. \A m \in Node : lc(m) \in Node /\ rc(m) \in Node
  BY <1>3 DEF Linked, Links
<1> DEFINE Stored(m, g) == \E w \in Seq(Node) : IsWalk(k, w, D[m]) /\ \A room \in 0 .. n : Lists(k, w, room, g[room])
           right == {r \in Node \X V : Stored(r[1], r[2])}
<1>5. ASSUME NEW f \in [Node -> V], NEW m \in Node, NEW room \in 0 .. n PROVE Stores(f, m, room) \in Seq(Int)
  <2> HIDE DEF lc, rc, k
  <2>1. f[lc(m)] \in V /\ f[rc(m)] \in V
    BY <1>4
  <2>2. f[lc(m)][room] \in Seq(Int)
    BY <2>1
  <2>3. CASE m = Nil \/ Len(f[lc(m)][room]) >= room
    BY <2>2, <2>3
  <2>4. CASE m # Nil /\ ~(Len(f[lc(m)][room]) >= room)
    <3> DEFINE l == f[lc(m)][room]
               rest == room - Len(l) - 1
    <3>1. l \in Seq(Int) /\ Len(l) \in Nat /\ ~(Len(l) >= room)
      BY <2>2, <2>4
    <3>2. rest \in 0 .. n
      BY <3>1
    <3> HIDE DEF rest
    <3>3. f[rc(m)][rest] \in Seq(Int) /\ <<k[m]>> \in Seq(Int)
      <4>1. k[m] \in Int
        BY <1>3
      <4> QED
        BY <2>1, <3>2, <4>1
    <3>4. Stores(f, m, room) = l \o <<k[m]>> \o f[rc(m)][rest]
      BY <2>4 DEF rest
    <3> HIDE DEF l, Stores
    <3> QED
      BY <3>1, <3>3, <3>4
  <2> QED
    BY <2>3, <2>4
<1> HIDE DEF lc, rc, Stores
<1>6. turn \in [[Node -> V] -> [Node -> V]] /\ start \in [Node -> V]
  <2>1. ASSUME NEW f \in [Node -> V], NEW m \in Node PROVE [room \in 0 .. n |-> Stores(f, m, room)] \in V
    BY <1>5
  <2>2. [room \in 0 .. n |-> <<>>] \in V
    OBVIOUS
  <2> HIDE DEF V
  <2> QED
    BY <2>1, <2>2
<1>7. \A f \in [Node -> V], m \in Node, room \in 0 .. n : turn[f][m][room] = Stores(f, m, room)
  OBVIOUS
<1>8. ASSUME NEW g \in V, \A room \in 0 .. n : g[room] = <<>> PROVE <<Nil, g>> \in right
  <2>1. IsWalk(k, <<>>, D[Nil]) /\ <<>> \in Seq(Node)
    BY <1>3, FS_EmptySet DEF IsWalk
  <2>2. ASSUME NEW room \in 0 .. n PROVE Lists(k, <<>>, room, g[room])
    <3>1. g[room] = <<>> /\ <<>> \in Seq(Int) /\ Len(<<>>) = 0 /\ ~(room < 0)
      BY <1>8
    <3> QED
      BY <3>1 DEF Lists
  <2>3. Stored(Nil, g)
    BY <2>1, <2>2
  <2> HIDE DEF Stored, V
  <2> QED
    BY <1>3, <2>3
<1>9. <<Nil, start[Nil]>> \in right /\ \A f \in [Node -> V] : <<Nil, turn[f][Nil]>> \in right
  <2>1. start[Nil] \in V /\ \A room \in 0 .. n : start[Nil][room] = <<>>
    BY <1>3
  <2>2. ASSUME NEW f \in [Node -> V]
        PROVE  turn[f][Nil] \in V /\ \A room \in 0 .. n : turn[f][Nil][room] = <<>>
    <3>1. turn[f] \in [Node -> V]
      BY <1>6
    <3>2. \A room \in 0 .. n : turn[f][Nil][room] = Stores(f, Nil, room)
      BY <1>3, <1>7
    <3> HIDE DEF turn, V
    <3> QED
      BY <1>3, <3>1, <3>2 DEF Stores
  <2> HIDE DEF start, turn, V, right
  <2> QED
    BY <1>8, <2>1, <2>2
<1>10. ASSUME NEW f \in [Node -> V], NEW m \in M,
              \A q \in Side : <<t.child[q][m], f[t.child[q][m]]>> \in right
       PROVE  <<m, turn[f][m]>> \in right
  <2>1. <<lc(m), f[lc(m)]>> \in right /\ <<rc(m), f[rc(m)]>> \in right
    BY <1>3, <1>10 DEF lc, rc
  <2>2. Stored(lc(m), f[lc(m)]) /\ Stored(rc(m), f[rc(m)])
    <3> HIDE DEF Stored, V
    <3> QED
      BY <2>1
  <2> HIDE DEF right
  <2>3. PICK a \in Seq(Node) : IsWalk(k, a, D[lc(m)]) /\ \A room \in 0 .. n : Lists(k, a, room, f[lc(m)][room])
    BY <2>2
  <2>4. PICK b \in Seq(Node) : IsWalk(k, b, D[rc(m)]) /\ \A room \in 0 .. n : Lists(k, b, room, f[rc(m)][room])
    BY <2>2
  <2>5. PICK w \in Seq(Node) : IsWalk(k, w, D[m]) /\ Threaded(a, m, b, w)
    <3> HIDE DEF k
    <3> QED
      BY <1>2, <2>3, <2>4, WalkStep DEF lc, rc
  <2>6. ASSUME NEW room \in 0 .. n PROVE Lists(k, w, room, turn[f][m][room])
    <3> DEFINE la == f[lc(m)][room]
               rest == room - Len(a) - 1
               lb == f[rc(m)][rest]
               l == IF Len(la) >= room THEN la ELSE la \o <<k[m]>> \o lb
    <3>1. Lists(k, a, room, la) /\ room \in Nat /\ Len(a) \in Nat
      BY <2>3
    <3>2. room > Len(a) => Lists(k, b, rest, lb)
      <4>1. room > Len(a) => rest \in 0 .. n
        BY <3>1
      <4> HIDE DEF rest
      <4> QED
        BY <2>4, <4>1
    <3>3. turn[f][m][room] = l
      <4>1. turn[f][m][room] = Stores(f, m, room) /\ m # Nil
        BY <1>3, <1>7
      <4>2. Len(la) >= room \/ Len(la) = Len(a)
        BY <3>1 DEF Lists
      <4> HIDE DEF turn
      <4> QED
        BY <4>1, <4>2 DEF Stores
    <3>4. l = IF Len(la) >= room THEN la ELSE la \o <<k[m]>> \o lb
      OBVIOUS
    <3> HIDE DEF l, la, lb, k, turn
    <3>5. Lists(k, w, room, l)
      <4>1. room > Len(a) => Lists(k, b, room - Len(a) - 1, lb)
        BY <3>2
      <4>2. Parted(k, a, m, b, w, room, la, lb)
        BY <1>3, <2>5, <3>1, <4>1 DEF Parted
      <4> HIDE DEF rest
      <4> QED
        BY <3>4, <4>2, ListsJoined
    <3> QED
      BY <3>3, <3>5
  <2>7. Stored(m, turn[f][m])
    BY <2>5, <2>6
  <2>8. turn[f] \in [Node -> V] /\ m \in Node
    BY <1>3, <1>6
  <2> HIDE DEF Stored, turn, V
  <2> QED
    BY <2>7, <2>8 DEF right
<1> HIDE DEF turn, start, right, V
<1>11. Recurses(t, M, V, right, turn, start)
  BY <1>6, <1>9, <1>10 DEF Recurses
<1>12. \A m \in M \union {Nil} : <<m, Turns(turn, start)[m]>> \in right
  BY <1>3, <1>11, Recursion
<1>13. Stored(t.root, InorderHelper(t, n)[t.root])
  <2> HIDE DEF Stored
  <2> QED
    BY <1>1, <1>3, <1>12 DEF right
<1>14. n \in 0 .. n /\ RbtreeToArray(t, n) = InorderHelper(t, n)[t.root][n]
  BY DEF RbtreeToArray
<1> QED
  BY <1>3, <1>13, <1>14 DEF Sequence

-----------------------------------------------------------------------------
(* The ordered multiset.                                                   *)

\* A walk of M meets each node once.
LEMMA WalkOnce ==
  ASSUME NEW k, NEW w, NEW M, M \subseteq Nodes, IsWalk(k, w, M)
  PROVE  \A i, j \in 1 .. Cardinality(M) : i # j => w[i] # w[j]
<1> DEFINE N == Cardinality(M)
           f == [i \in 1 .. N |-> w[i]]
<1>1. IsFiniteSet(M) /\ N \in Nat /\ Len(w) = N /\ {w[i] : i \in 1 .. N} = M
  BY TreesAssumption, FS_Subset, FS_CardinalityType DEF IsWalk
<1>2. IsFiniteSet(1 .. N) /\ Cardinality(1 .. N) = N
  BY <1>1, FS_Interval
<1>3. f \in Surjection(1 .. N, M)
  BY <1>1 DEF Surjection
<1>4. f \in Injection(1 .. N, M)
  <2> HIDE DEF f, N
  <2>1. Cardinality(1 .. N) = Cardinality(M)
    BY <1>2 DEF N
  <2> QED
    BY <1>2, <1>3, <2>1, FS_SurjSameCardinalityImpliesInj
<1> QED
  BY <1>4 DEF Injection, IsInjective

\* The array as OrderedMultiset describes it.
LEMMA ArrayOrders ==
  ASSUME NEW k \in [Node -> Int], NEW M, M \subseteq Nodes, NEW room \in Nat, NEW l, Sequence(k, M, room, l)
  PROVE  \E order \in [1 .. Cardinality(M) -> M] :
           /\ Len(order) = Cardinality(M)
           /\ \A i, j \in 1 .. Cardinality(M) : i < j => order[i] # order[j] /\ k[order[i]] <= k[order[j]]
           /\ l = [i \in 1 .. (IF room < Cardinality(M) THEN room ELSE Cardinality(M)) |-> k[order[i]]]
<1> DEFINE N == Cardinality(M)
           c == IF room < N THEN room ELSE N
<1>1. PICK w \in Seq(Node) : IsWalk(k, w, M) /\ Lists(k, w, room, l)
  BY DEF Sequence
<1>2. N \in Nat /\ Len(w) = N /\ {w[i] : i \in 1 .. N} = M
  BY <1>1, TreesAssumption, FS_Subset, FS_CardinalityType DEF IsWalk
<1> DEFINE order == [i \in 1 .. N |-> w[i]]
<1>3. order \in [1 .. N -> M] /\ Len(order) = N
  BY <1>2
<1>4. \A i, j \in 1 .. N : i < j => w[i] # w[j] /\ k[w[i]] <= k[w[j]]
  <2>1. \A i, j \in 1 .. N : i # j => w[i] # w[j]
    BY <1>1, WalkOnce
  <2>2. \A i, j \in 1 .. N : i < j => k[w[i]] <= k[w[j]]
    BY <1>1, <1>2 DEF IsWalk
  <2>3. \A i, j \in 1 .. N : i < j => i # j
    BY <1>2
  <2> QED
    BY <2>1, <2>2, <2>3
<1>5. l \in Seq(Int) /\ Len(l) = c /\ \A i \in 1 .. c : l[i] = k[w[i]]
  BY <1>1, <1>2 DEF Lists
<1>6. c \in Nat /\ \A i \in 1 .. c : i \in 1 .. N
  BY <1>2
<1>7. l = [i \in 1 .. c |-> k[w[i]]]
  <2> HIDE DEF c, N
  <2> QED
    BY <1>5, <1>6
<1>8. l = [i \in 1 .. c |-> k[order[i]]]
  BY <1>6, <1>7
<1>9. \A i, j \in 1 .. N : i < j => order[i] # order[j] /\ k[order[i]] <= k[order[j]]
  BY <1>4
<1> HIDE DEF order
<1> QED
  BY <1>3, <1>8, <1>9

\* Each question is the one that OrderedMultiset describes.
LEMMA AskRefines ==
  ASSUME ClientInv, Usable, UNCHANGED <<tree, members, crashed>>
  PROVE  /\ \A key \in Asked : answer' = Pointer(RbtreeFind(tree, key)) => Multiset!Find(key)
         /\ answer' = Pointer(RbtreeMin(tree)) => Multiset!Min
         /\ answer' = Pointer(RbtreeMax(tree)) => Multiset!Max
         /\ \A n \in ArraySizes : answer' = Array(RbtreeToArray(tree, n)) =>
              \E size \in 0 .. Cardinality(Nodes) : Multiset!ToArray(size)
<1>1. Valid(tree, members) /\ Held' = Held
  BY DEF ClientInv, Usable, Held
<1>2. /\ DOMAIN Held = members /\ \A n \in members : Held[n] = tree.key[n]
  BY DEF Held
<1>3. members \subseteq Node /\ members \subseteq Nodes /\ tree.key \in [Node -> Int]
  BY <1>1, ValidIs DEF Tree
<1>4. ASSUME NEW key \in Asked, answer' = Pointer(RbtreeFind(tree, key)) PROVE Multiset!Find(key)
  <2> DEFINE found == {n \in members : Held[n] = key}
             r == RbtreeFind(tree, key)
  <2>1. \/ r \in members /\ tree.key[r] = key
        \/ r = Null /\ \A m \in members : tree.key[m] # key
    <3>1. key \in Int
      BY KeysAssumption
    <3> HIDE DEF r
    <3> QED
      BY <1>1, <3>1, FindIs DEF r
  <2>2. answer' = <<"pointer", r>>
    BY <1>4 DEF Pointer
  <2> HIDE DEF r
  <2>3. r \in IF found = {} THEN {Null} ELSE found
    BY <1>2, <2>1
  <2> QED
    BY <1>1, <1>2, <2>2, <2>3 DEF Multiset!Find, Multiset!Present, Multiset!Pointer
<1>5. ASSUME NEW s \in Side, NEW r, r = OrNull(Furthest(tree, tree.root, s))
      PROVE  r \in IF members = {} THEN {Null} ELSE {n \in members : \A m \in members : Before(Held, s, n, m)}
  <2>1. \/ members = {} /\ r = Null
        \/ r \in members /\ \A m \in members : Before(tree.key, s, r, m)
    BY <1>1, <1>5, EndIs
  <2> QED
    BY <1>2, <2>1 DEF Before
<1>6. ASSUME answer' = Pointer(RbtreeMin(tree)) PROVE Multiset!Min
  <2>1. "left" \in Side
    BY DEF Side
  <2> DEFINE r == RbtreeMin(tree)
  <2>2. r = OrNull(Furthest(tree, tree.root, "left")) /\ answer' = <<"pointer", r>>
    BY <1>6 DEF RbtreeMin, Pointer
  <2> HIDE DEF r
  <2>3. r \in IF members = {} THEN {Null} ELSE {n \in members : \A m \in members : Held[n] <= Held[m]}
    BY <1>5, <2>1, <2>2 DEF Before
  <2> QED
    BY <1>1, <1>2, <2>2, <2>3 DEF Multiset!Min, Multiset!Present, Multiset!Pointer
<1>7. ASSUME answer' = Pointer(RbtreeMax(tree)) PROVE Multiset!Max
  <2>1. "right" \in Side
    BY DEF Side
  <2> DEFINE r == RbtreeMax(tree)
  <2>2. r = OrNull(Furthest(tree, tree.root, "right")) /\ answer' = <<"pointer", r>>
    BY <1>7 DEF RbtreeMax, Pointer
  <2> HIDE DEF r
  <2>3. r \in IF members = {} THEN {Null} ELSE {n \in members : \A m \in members : Held[m] <= Held[n]}
    BY <1>5, <2>1, <2>2 DEF Before
  <2>4. \A n, m \in members : Held[m] <= Held[n] <=> Held[n] >= Held[m]
    BY <1>2, <1>3
  <2>5. {n \in members : \A m \in members : Held[m] <= Held[n]} = {n \in members : \A m \in members : Held[n] >= Held[m]}
    BY <2>4
  <2> QED
    BY <1>1, <1>2, <2>2, <2>3, <2>5 DEF Multiset!Max, Multiset!Present, Multiset!Pointer
<1>8. ASSUME NEW n \in ArraySizes, answer' = Array(RbtreeToArray(tree, n))
      PROVE  \E size \in 0 .. Cardinality(Nodes) : Multiset!ToArray(size)
  <2> DEFINE N == Cardinality(members)
             size == IF n < Cardinality(Nodes) THEN n ELSE Cardinality(Nodes)
             l == RbtreeToArray(tree, n)
  <2>1. n \in Nat /\ N \in Nat /\ Cardinality(Nodes) \in Nat /\ N <= Cardinality(Nodes)
    BY <1>3, KeysAssumption, TreesAssumption, FS_CardinalityType, FS_Subset
  <2>2. size \in 0 .. Cardinality(Nodes) /\ (IF n < N THEN n ELSE N) = IF size < N THEN size ELSE N
    <3> DEFINE c == Cardinality(Nodes)
    <3>1. n \in Nat /\ N \in Nat /\ c \in Nat /\ N <= c
      BY <2>1
    <3> HIDE DEF N, c
    <3> QED
      BY <3>1 DEF c
  <2>3. Sequence(tree.key, members, n, l)
    <3> HIDE DEF l
    <3> QED
      BY <1>1, <2>1, ArrayIs DEF l
  <2> HIDE DEF l
  <2>4. PICK order \in [1 .. N -> members] :
          /\ Len(order) = N
          /\ \A i, j \in 1 .. N : i < j => order[i] # order[j] /\ tree.key[order[i]] <= tree.key[order[j]]
          /\ l = [i \in 1 .. (IF n < N THEN n ELSE N) |-> tree.key[order[i]]]
    BY <1>3, <2>1, <2>3, ArrayOrders
  <2> HIDE DEF N
  <2>5. \A i, j \in DOMAIN order : i < j => order[i] # order[j] /\ Held[order[i]] <= Held[order[j]]
    BY <1>2, <2>4
  <2>6. l = [i \in 1 .. (IF size < Len(order) THEN size ELSE Len(order)) |-> Held[order[i]]]
    <3> DEFINE c == IF n < N THEN n ELSE N
    <3>1. c = IF size < Len(order) THEN size ELSE Len(order)
      BY <2>2, <2>4
    <3>2. \A i \in 1 .. c : i \in 1 .. N
      <4>1. N \in Nat
        BY <2>1 DEF N
      <4> QED
        BY <2>1, <4>1
    <3>3. \A i \in 1 .. c : tree.key[order[i]] = Held[order[i]]
      BY <1>2, <3>2
    <3>4. l = [i \in 1 .. c |-> tree.key[order[i]]]
      BY <2>4
    <3> HIDE DEF c, size
    <3>5. l = [i \in 1 .. c |-> Held[order[i]]]
      BY <3>3, <3>4
    <3> QED
      BY <3>1, <3>5
  <2>7. answer' = <<"array", l>>
    BY <1>8 DEF l, Array
  <2> HIDE DEF size
  <2>8. Multiset!ToArray(size)
    <3>1. Multiset!Present = members
      BY <1>2 DEF Multiset!Present
    <3>2. order \in [1 .. Cardinality(Multiset!Present) -> Multiset!Present]
      BY <2>4, <3>1 DEF N
    <3>3. answer' = Multiset!Array([i \in 1 .. (IF size < Len(order) THEN size ELSE Len(order)) |-> Held[order[i]]])
      BY <2>6, <2>7 DEF Multiset!Array
    <3>4. \E ord \in [1 .. Cardinality(Multiset!Present) -> Multiset!Present] :
            /\ \A i, j \in DOMAIN ord : i < j => ord[i] # ord[j] /\ Held[ord[i]] <= Held[ord[j]]
            /\ answer' = Multiset!Array([i \in 1 .. (IF size < Len(ord) THEN size ELSE Len(ord)) |-> Held[ord[i]]])
      BY <2>5, <3>2, <3>3
    <3> QED
      BY <1>1, <3>4 DEF Multiset!ToArray, Multiset!Cardinality, Cardinality
  <2> QED
    BY <2>2, <2>8
<1> QED
  BY <1>4, <1>6, <1>7, <1>8

\* Each step of the client is a step of the multiset.
LEMMA ClientRefines ==
  ASSUME ClientInv, [Next]_vars
  PROVE  Multiset!Next \/ UNCHANGED Multiset!vars
<1> DEFINE Keys == Asked \union UNION {KeysOf[n] : n \in Nodes}
<1>1. ASSUME NEW n \in Nodes, NEW key \in KeysOf[n], Insert(n, key) PROVE Multiset!Add(n, key)
  <2>1. Valid(tree, members) /\ n \in Nodes \ members /\ key \in Int
    BY <1>1, KeysAssumption DEF Insert, Usable, ClientInv
  <2>2. /\ tree' = RbtreeInsert(tree, n, key) /\ members' = members \union {n}
        /\ answer' = <<"pointer", n>>
    BY <1>1 DEF Insert, Pointer
  <2>3. tree'.key = [tree.key EXCEPT ![n] = key]
    BY <2>1, <2>2, InsertKeeps
  <2>4. tree.key \in [Node -> Int] /\ members \subseteq Node /\ n \in Node
    <3>1. tree \in Tree /\ members \subseteq Node
      BY <2>1, ValidIs
    <3> QED
      BY <3>1 DEF Tree, Node
  <2>5. Held' = [m \in members \union {n} |-> IF m = n THEN key ELSE Held[m]]
    <3>1. \A m \in members \union {n} : tree'.key[m] = IF m = n THEN key ELSE Held[m]
      BY <2>1, <2>3, <2>4 DEF Held
    <3> QED
      BY <2>2, <3>1 DEF Held
  <2>6. DOMAIN Held = members
    BY DEF Held
  <2> QED
    BY <2>1, <2>2, <2>5, <2>6 DEF Multiset!Add, Multiset!Present, Multiset!Pointer
<1>2. ASSUME NEW n \in Nodes, Erase(n) PROVE Multiset!Remove(n)
  <2>1. Valid(tree, members) /\ n \in members
    BY <1>2 DEF Erase, Usable, ClientInv
  <2>2. /\ tree' = RbtreeErase(tree, n) /\ members' = members \ {n}
        /\ answer' = <<"code", 1>>
    BY <1>2 DEF Erase, Code
  <2>3. tree'.key = [tree.key EXCEPT ![n] = 0]
    BY <2>1, <2>2, EraseKeeps
  <2>4. tree.key \in [Node -> Int] /\ members \subseteq Node
    BY <2>1, ValidIs DEF Tree
  <2>5. Held' = [m \in members \ {n} |-> Held[m]]
    <3>1. \A m \in members \ {n} : tree'.key[m] = Held[m]
      BY <2>1, <2>3, <2>4 DEF Held
    <3> QED
      BY <2>2, <3>1 DEF Held
  <2>6. DOMAIN Held = members
    BY DEF Held
  <2> QED
    BY <2>1, <2>2, <2>5, <2>6 DEF Multiset!Remove, Multiset!Present, Multiset!Code
<1>3. ASSUME InsertFails PROVE Multiset!Refuse
  <2>1. Valid(tree, members)
    BY <1>3 DEF InsertFails, Usable, ClientInv
  <2>2. tree' = RbtreeInsertFails(tree) /\ members' = members /\ answer' = <<"pointer", Null>>
    BY <1>3 DEF InsertFails, Pointer
  <2>3. tree'.key = tree.key
    BY <2>1, <2>2, FailureIs
  <2>4. Held' = Held
    BY <2>2, <2>3 DEF Held
  <2> QED
    BY <2>2, <2>4 DEF Multiset!Refuse, Multiset!Pointer
<1>4. ASSUME EraseNull PROVE Multiset!RemoveNothing
  BY <1>4 DEF EraseNull, Code, Held, Multiset!RemoveNothing, Multiset!Code
<1>5. ASSUME Renew PROVE Multiset!Clear
  <2>1. members' = {} /\ answer' = <<"pointer", Null>>
    BY <1>5 DEF Renew, Pointer
  <2>2. Held' = [n \in {} |-> 0]
    BY <2>1 DEF Held
  <2> QED
    BY <2>1, <2>2 DEF Multiset!Clear, Multiset!Nothing, Multiset!Pointer
<1>6. ASSUME UNCHANGED <<tree, members, answer>> PROVE UNCHANGED Multiset!vars
  BY <1>6 DEF Held, Multiset!vars
<1>7. ASSUME NEW key \in Asked, Ask(Pointer(RbtreeFind(tree, key))) PROVE Multiset!Find(key)
  BY <1>7, AskRefines DEF Ask
<1>8. ASSUME Ask(Pointer(RbtreeMin(tree))) PROVE Multiset!Min
  BY <1>8, AskRefines DEF Ask
<1>9. ASSUME Ask(Pointer(RbtreeMax(tree))) PROVE Multiset!Max
  BY <1>9, AskRefines DEF Ask
<1>10. ASSUME NEW n \in ArraySizes, Ask(Array(RbtreeToArray(tree, n)))
       PROVE  \E size \in 0 .. Cardinality(Nodes) : Multiset!ToArray(size)
  BY <1>10, AskRefines DEF Ask
<1>11. \A n \in Nodes : KeysOf[n] \subseteq Keys
  OBVIOUS
<1>12. Asked \subseteq Keys
  OBVIOUS
<1>13. CASE Crash \/ Ended \/ UNCHANGED vars
  BY <1>6, <1>13 DEF Crash, Ended, vars
<1>14. CASE \E n \in Nodes : (\E key \in KeysOf[n] : Insert(n, key)) \/ Erase(n)
  <2>1. PICK n \in Nodes : (\E key \in KeysOf[n] : Insert(n, key)) \/ Erase(n)
    BY <1>14
  <2>2. (\E key \in Keys : Multiset!Add(n, key)) \/ Multiset!Remove(n)
    BY <1>1, <1>2, <1>11, <2>1
  <2> QED
    BY <2>2 DEF Multiset!Next
<1>15. CASE InsertFails \/ EraseNull \/ Renew
  BY <1>3, <1>4, <1>5, <1>15 DEF Multiset!Next
<1>16. CASE \E key \in Asked : Ask(Pointer(RbtreeFind(tree, key)))
  BY <1>7, <1>12, <1>16 DEF Multiset!Next
<1>17. CASE Ask(Pointer(RbtreeMin(tree))) \/ Ask(Pointer(RbtreeMax(tree)))
  BY <1>8, <1>9, <1>17 DEF Multiset!Next
<1>18. CASE \E n \in ArraySizes : Ask(Array(RbtreeToArray(tree, n)))
  <2>1. \E size \in 0 .. Cardinality(Nodes) : Multiset!ToArray(size)
    BY <1>10, <1>18
  <2> QED
    BY <2>1 DEF Multiset!Next, Multiset!Cardinality, Cardinality
<1> QED
  BY <1>13, <1>14, <1>15, <1>16, <1>17, <1>18 DEF Next

\* rbtree.c is an ordered multiset (ImplementsMultiset): every call answers as
\* OrderedMultiset says, whatever the shape of the tree, its keys and the failures of calloc.
THEOREM TreeImplementsMultiset == Spec => ImplementsMultiset
<1>1. Init => Multiset!Init
  <2> SUFFICES ASSUME Init PROVE Multiset!Init
    OBVIOUS
  <2>1. members = {} /\ answer = <<"pointer", Null>>
    BY DEF Init, Pointer
  <2>2. Held = [n \in {} |-> 0]
    BY <2>1 DEF Held
  <2> QED
    BY <2>1, <2>2 DEF Multiset!Init, Multiset!Nothing, Multiset!Pointer
<1>2. ClientInv /\ [Next]_vars => [Multiset!Next]_(Multiset!vars)
  BY ClientRefines
<1> QED
  BY <1>1, <1>2, ClientAlways, PTL DEF Spec, ImplementsMultiset, Multiset!Spec

-----------------------------------------------------------------------------
(* The menu.                                                               *)

\* inOrderIterative prints the keys of a walk.
LEMMA KeysShown ==
  ASSUME NEW t, NEW M, Valid(t, M)
  PROVE  \E w \in Seq(Node) : IsWalk(t.key, w, M) /\ Lists(t.key, w, Len(w), InOrderKeys(t)[t.root])
<1> DEFINE k == t.key
           V == Seq(Int)
           lc(m) == t.child["left"][m]
           rc(m) == t.child["right"][m]
           Spell(f, m) == f[lc(m)] \o <<k[m]>> \o f[rc(m)]
           turn == [f \in [Node -> V] |-> [m \in Node |-> IF m = Nil THEN <<>> ELSE Spell(f, m)]]
           start == [m \in Node |-> <<>>]
<1>1. InOrderKeys(t) = Turns(turn, start)
  BY DEF InOrderKeys
<1>2. PICK D : t \in Tree /\ SearchTree(t, k, M, D)
  BY DEF Valid
<1>3. /\ Linked(t, M) /\ Hanging(t, M, D) /\ Sorted(t, k, M, D) /\ k \in [Node -> Int]
      /\ Nil \in Node /\ M \subseteq Node /\ Nil \notin M /\ t.root \in M \union {Nil}
      /\ D[t.root] = M /\ D[Nil] = {} /\ "left" \in Side /\ "right" \in Side
  BY <1>2, TreesAssumption DEF SearchTree, Linked, Hanging, Sorted, Node, Side
<1>4. \A m \in Node : lc(m) \in Node /\ rc(m) \in Node
  BY <1>3 DEF Linked, Links
<1> DEFINE Spelt(m, l) == \E w \in Seq(Node) : IsWalk(k, w, D[m]) /\ Lists(k, w, Len(w), l)
           right == {r \in Node \X V : Spelt(r[1], r[2])}
<1>5. ASSUME NEW f \in [Node -> V], NEW m \in Node PROVE Spell(f, m) \in V
  <2> HIDE DEF lc, rc, k
  <2>1. f[lc(m)] \in Seq(Int) /\ f[rc(m)] \in Seq(Int) /\ k[m] \in Int
    BY <1>3, <1>4
  <2> QED
    BY <2>1
<1> HIDE DEF lc, rc, Spell
<1>6. turn \in [[Node -> V] -> [Node -> V]] /\ start \in [Node -> V]
  <2>1. <<>> \in V
    OBVIOUS
  <2> HIDE DEF V
  <2> QED
    BY <1>5, <2>1
<1>7. \A f \in [Node -> V], m \in Node : turn[f][m] = IF m = Nil THEN <<>> ELSE Spell(f, m)
  OBVIOUS
<1>8. <<Nil, <<>>>> \in right
  <2>1. IsWalk(k, <<>>, D[Nil]) /\ <<>> \in Seq(Node) /\ <<>> \in V
    BY <1>3, FS_EmptySet DEF IsWalk
  <2>2. Lists(k, <<>>, Len(<<>>), <<>>)
    BY DEF Lists
  <2>3. Spelt(Nil, <<>>)
    BY <2>1, <2>2
  <2> HIDE DEF Spelt, V
  <2> QED
    BY <1>3, <2>1, <2>3
<1>9. <<Nil, start[Nil]>> \in right /\ \A f \in [Node -> V] : <<Nil, turn[f][Nil]>> \in right
  <2>1. start[Nil] = <<>> /\ \A f \in [Node -> V] : turn[f][Nil] = <<>>
    BY <1>3, <1>7
  <2> HIDE DEF start, turn, V, right
  <2> QED
    BY <1>8, <2>1
<1>10. ASSUME NEW f \in [Node -> V], NEW m \in M,
              \A q \in Side : <<t.child[q][m], f[t.child[q][m]]>> \in right
       PROVE  <<m, turn[f][m]>> \in right
  <2> DEFINE la == f[lc(m)]
             lb == f[rc(m)]
             l == turn[f][m]
  <2>1. <<lc(m), la>> \in right /\ <<rc(m), lb>> \in right
    BY <1>3, <1>10 DEF lc, rc
  <2>2. Spelt(lc(m), la) /\ Spelt(rc(m), lb)
    <3> HIDE DEF Spelt, V
    <3> QED
      BY <2>1
  <2> HIDE DEF right
  <2>3. PICK a \in Seq(Node) : IsWalk(k, a, D[lc(m)]) /\ Lists(k, a, Len(a), la)
    BY <2>2
  <2>4. PICK b \in Seq(Node) : IsWalk(k, b, D[rc(m)]) /\ Lists(k, b, Len(b), lb)
    BY <2>2
  <2>5. PICK w \in Seq(Node) : IsWalk(k, w, D[m]) /\ Threaded(a, m, b, w)
    <3> HIDE DEF k
    <3> QED
      BY <1>2, <2>3, <2>4, WalkStep DEF lc, rc
  <2> DEFINE na == Len(a)
             nb == Len(b)
             nw == Len(w)
             nla == Len(la)
  <2>6. na \in Nat /\ nb \in Nat /\ nw = na + 1 + nb /\ nla = na
    BY <2>3, <2>5 DEF Threaded, Lists
  <2>7. l = IF nla >= nw THEN la ELSE la \o <<k[m]>> \o lb
    <3>1. l = la \o <<k[m]>> \o lb
      BY <1>3, <1>7 DEF Spell
    <3>2. ~(nla >= nw)
      <4> HIDE DEF na, nb, nw, nla
      <4> QED
        BY <2>6
    <3> QED
      BY <3>1, <3>2
  <2>8. Lists(k, a, nw, la) /\ (nw > na => Lists(k, b, nw - na - 1, lb))
    <3>1. Lists(k, a, nw, la)
      <4>1. la \in Seq(Int) /\ \A i \in 1 .. nla : la[i] = k[a[i]]
        BY <2>3 DEF Lists
      <4>2. nla = IF nw < na THEN nw ELSE na
        <5> HIDE DEF na, nb, nw, nla
        <5> QED
          BY <2>6
      <4> QED
        BY <4>1, <4>2 DEF Lists
    <3>2. nw - na - 1 = nb
      <4> HIDE DEF na, nb, nw
      <4> QED
        BY <2>6
    <3> QED
      BY <2>4, <3>1, <3>2
  <2>9. Parted(k, a, m, b, w, nw, la, lb)
    <3>1. nw \in Nat
      BY <2>5
    <3> QED
      BY <1>3, <2>5, <2>8, <3>1 DEF Parted
  <2>10. Lists(k, w, nw, l)
    <3> HIDE DEF l, la, lb, k, nw, turn
    <3> QED
      BY <2>7, <2>9, ListsJoined DEF nla
  <2>11. Spelt(m, l)
    BY <2>5, <2>10
  <2>12. turn[f] \in [Node -> V] /\ m \in Node
    BY <1>3, <1>6
  <2> HIDE DEF Spelt, turn, V
  <2> QED
    BY <2>11, <2>12 DEF right
<1> HIDE DEF turn, start, right, V
<1>11. Recurses(t, M, V, right, turn, start)
  BY <1>6, <1>9, <1>10 DEF Recurses
<1>12. \A m \in M \union {Nil} : <<m, Turns(turn, start)[m]>> \in right
  BY <1>3, <1>11, Recursion
<1>13. Spelt(t.root, InOrderKeys(t)[t.root])
  <2> HIDE DEF Spelt
  <2> QED
    BY <1>1, <1>3, <1>12 DEF right
<1> QED
  BY <1>3, <1>13

\* check_red_children_are_black finds nothing.
LEMMA RedChildrenAreBlack ==
  ASSUME NEW t, NEW M, Valid(t, M)
  PROVE  CheckRedChildrenAreBlack(t)[t.root] = TRUE
<1> DEFINE V == BOOLEAN
           Kind(f, n) == \A s \in Side : /\ t.color[n] = "red" => t.color[t.child[s][n]] # "red"
                                         /\ f[t.child[s][n]]
           turn == [f \in [Node -> V] |-> [n \in Node |-> n = Nil \/ Kind(f, n)]]
           start == [n \in Node |-> TRUE]
           right == {r \in Node \X V : r[2] = TRUE}
<1>1. CheckRedChildrenAreBlack(t) = Turns(turn, start)
  BY DEF CheckRedChildrenAreBlack
<1>2. PICK D, B : t \in Tree /\ SearchTree(t, t.key, M, D) /\ Kept(t, M, B)
  BY DEF Valid
<1>3. /\ Linked(t, M) /\ Hanging(t, M, D) /\ Nil \in Node /\ M \subseteq Node /\ Nil \notin M
      /\ t.root \in M \union {Nil}
      /\ \A n \in M, q \in Side : t.child[q][n] \in M \union {Nil}
  BY <1>2, TreesAssumption DEF SearchTree, Linked, Node
<1>4. \A n \in M, s \in Side : ~(t.color[n] = "red" /\ t.color[t.child[s][n]] = "red")
  <2>1. Apart(t, M, Nil) /\ ~Red(t, Nil)
    BY <1>2 DEF Kept, Coloured
  <2> QED
    BY <1>3, <2>1 DEF Apart, Red
<1>5. \A f \in [Node -> V], n \in Node : (n = Nil \/ Kind(f, n)) \in BOOLEAN
  OBVIOUS
<1>6. ASSUME NEW f \in [Node -> V], NEW n \in M, \A q \in Side : f[t.child[q][n]] = TRUE PROVE Kind(f, n)
  BY <1>4, <1>6
<1> HIDE DEF Kind
<1>7. turn \in [[Node -> V] -> [Node -> V]] /\ start \in [Node -> V]
  BY <1>5
<1>8. <<Nil, start[Nil]>> \in right /\ \A f \in [Node -> V] : <<Nil, turn[f][Nil]>> \in right
  <2>1. start[Nil] = TRUE /\ \A f \in [Node -> V] : turn[f][Nil] = TRUE
    BY <1>3
  <2> HIDE DEF start, turn
  <2> QED
    BY <1>3, <2>1
<1>9. ASSUME NEW f \in [Node -> V], NEW n \in M,
             \A q \in Side : <<t.child[q][n], f[t.child[q][n]]>> \in right
      PROVE  <<n, turn[f][n]>> \in right
  <2>1. \A q \in Side : f[t.child[q][n]] = TRUE
    BY <1>9
  <2>2. Kind(f, n)
    BY <1>6, <2>1
  <2>3. turn[f][n] = TRUE
    BY <1>3, <2>2
  <2> HIDE DEF turn
  <2> QED
    BY <1>3, <2>3
<1> HIDE DEF turn, start, right, V
<1>10. Recurses(t, M, V, right, turn, start)
  BY <1>7, <1>8, <1>9 DEF Recurses
<1>11. \A n \in M \union {Nil} : <<n, Turns(turn, start)[n]>> \in right
  BY <1>3, <1>10, Recursion
<1> QED
  BY <1>1, <1>3, <1>11 DEF right

\* get_black_height counts the black nodes of every way.
LEMMA BlackHeightIs ==
  ASSUME NEW t, NEW M, Valid(t, M)
  PROVE  GetBlackHeight(t)[t.root] # -1
<1> DEFINE w(n) == IF t.color[n] = "black" THEN 1 ELSE 0
           lc(m) == t.child["left"][m]
           rc(m) == t.child["right"][m]
           Height(f, n) == IF n = Nil THEN 1
                           ELSE IF f[lc(n)] = -1 \/ f[lc(n)] # f[rc(n)] THEN -1
                           ELSE f[lc(n)] + w(n)
           turn == [f \in [Node -> Int] |-> [n \in Node |-> Height(f, n)]]
           start == [n \in Node |-> 1]
<1>1. GetBlackHeight(t) = Turns(turn, start)
  BY DEF GetBlackHeight
<1>2. PICK D, B : t \in Tree /\ SearchTree(t, t.key, M, D) /\ Kept(t, M, B)
  BY DEF Valid
<1>3. /\ Linked(t, M) /\ Hanging(t, M, D) /\ Nil \in Node /\ M \subseteq Node /\ Nil \notin M
      /\ t.root \in M \union {Nil} /\ t.root \in Node /\ Heights(t, M, B, Nil, "left")
      /\ "left" \in Side /\ "right" \in Side
  BY <1>2, TreesAssumption DEF SearchTree, Linked, Node, Kept, Coloured, Side
<1>4. \A m \in Node : lc(m) \in Node /\ rc(m) \in Node
  BY <1>3 DEF Linked, Links
<1>5. B \in [Node -> Nat] /\ B[Nil] = 0 /\ \A n \in M : B[n] = w(n) + B[lc(n)] /\ B[n] = w(n) + B[rc(n)]
  <2>1. ASSUME NEW n \in M, NEW q \in Side PROVE B[n] = w(n) + B[t.child[q][n]]
    <3>1. B[n] = Weight(t, n) + B[t.child[q][n]] + Lack(Nil, "left", n, q) /\ Lack(Nil, "left", n, q) = 0
      BY <1>3 DEF Heights, Lack
    <3>2. B[t.child[q][n]] \in Nat /\ Weight(t, n) \in Nat /\ Weight(t, n) = w(n)
      BY <1>3 DEF Heights, Weight, Linked, Links
    <3> QED
      BY <3>1, <3>2
  <2> QED
    BY <1>3, <2>1 DEF Heights
<1>6. \A n \in Node : w(n) \in Nat
  OBVIOUS
<1> HIDE DEF w, lc, rc
<1> DEFINE right == {r \in Node \X Int : r[2] = B[r[1]] + 1}
<1>7. turn \in [[Node -> Int] -> [Node -> Int]] /\ start \in [Node -> Int]
  <2>1. \A f \in [Node -> Int], n \in Node : Height(f, n) \in Int
    BY <1>4, <1>6
  <2> HIDE DEF Height
  <2> QED
    BY <2>1
<1>8. <<Nil, start[Nil]>> \in right /\ \A f \in [Node -> Int] : <<Nil, turn[f][Nil]>> \in right
  <2>1. start[Nil] = 1 /\ \A f \in [Node -> Int] : turn[f][Nil] = 1
    BY <1>3
  <2> HIDE DEF start, turn
  <2> QED
    BY <1>3, <1>5, <2>1
<1>9. ASSUME NEW f \in [Node -> Int], NEW n \in M,
             \A q \in Side : <<t.child[q][n], f[t.child[q][n]]>> \in right
      PROVE  <<n, turn[f][n]>> \in right
  <2>1. <<lc(n), f[lc(n)]>> \in right /\ <<rc(n), f[rc(n)]>> \in right
    BY <1>3, <1>9 DEF lc, rc
  <2> DEFINE a == B[lc(n)]
             b == B[rc(n)]
             c == w(n)
             e == B[n]
  <2>2. f[lc(n)] = a + 1 /\ f[rc(n)] = b + 1 /\ a \in Nat /\ b \in Nat /\ c \in Nat /\ e \in Nat /\ e = c + a /\ e = c + b
    BY <1>3, <1>4, <1>5, <1>6, <2>1
  <2>3. turn[f][n] = IF f[lc(n)] = -1 \/ f[lc(n)] # f[rc(n)] THEN -1 ELSE f[lc(n)] + c
    BY <1>3
  <2> HIDE DEF turn, a, b, c, e
  <2>4. turn[f][n] = e + 1
    BY <2>2, <2>3
  <2> QED
    BY <1>3, <2>2, <2>4 DEF e
<1> HIDE DEF turn, start, right
<1>10. Recurses(t, M, Int, right, turn, start)
  BY <1>7, <1>8, <1>9 DEF Recurses
<1>11. \A n \in M \union {Nil} : <<n, Turns(turn, start)[n]>> \in right
  BY <1>3, <1>10, Recursion
<1>12. GetBlackHeight(t)[t.root] = B[t.root] + 1 /\ B[t.root] \in Nat
  BY <1>1, <1>3, <1>5, <1>11 DEF right
<1> QED
  BY <1>12

\* The menu's tree is valid for the cells it has, or has lost its root and has none; there is
\* no tree only until it is shown, and after the end; what was shown is in order.
MenuInv ==
  /\ pc \in Places /\ line \in Seq(Int) /\ cells \subseteq Nodes
  /\ menuTree = NoTree => cells = {} /\ pc \in {"show"} \union Stopped
  /\ menuTree # NoTree => menuTree \in Tree
  /\ menuTree # NoTree /\ menuTree.root # Null => Valid(menuTree, cells)
  /\ menuTree # NoTree /\ menuTree.root = Null => cells = {}
  /\ pc = "done" => menuTree = NoTree
  /\ shown \in Seq(Int) /\ ShowsAValidTree

\* The nodes a valid tree's walk meets.
LEMMA ReachedIs ==
  ASSUME NEW t, NEW M, Valid(t, M)
  PROVE  Reached(t) = M
BY WalkIs DEF IsWalk, Reached

\* What the menu shows of a valid tree.
LEMMA ShownIs ==
  ASSUME NEW t, NEW M, Valid(t, M), NEW l, l = InOrderKeys(t)[t.root]
  PROVE  /\ l \in Seq(Int) /\ \A i \in 1 .. Len(l) - 1 : l[i] <= l[i + 1]
         /\ ValidateRbtree(t)
<1>1. PICK w \in Seq(Node) : IsWalk(t.key, w, M) /\ Lists(t.key, w, Len(w), l)
  BY KeysShown
<1> DEFINE n == Len(w)
<1>2. /\ n \in Nat /\ Len(l) = n /\ l \in Seq(Int) /\ \A i \in 1 .. n : l[i] = t.key[w[i]]
      /\ \A i, j \in 1 .. n : i < j => t.key[w[i]] <= t.key[w[j]]
  BY <1>1 DEF IsWalk, Lists
<1> HIDE DEF n
<1>3. ASSUME NEW i \in 1 .. Len(l) - 1 PROVE l[i] <= l[i + 1]
  <2>1. i \in 1 .. n /\ i + 1 \in 1 .. n /\ i < i + 1
    BY <1>2
  <2> QED
    BY <1>2, <2>1
<1>4. ValidateRbtree(t)
  <2>1. t.color[t.root] = "black"
    BY ValidIs
  <2>2. CheckRedChildrenAreBlack(t)[t.root]
    BY RedChildrenAreBlack
  <2>3. GetBlackHeight(t)[t.root] # -1
    BY BlackHeightIs
  <2> QED
    BY <2>1, <2>2, <2>3 DEF ValidateRbtree
<1> QED
  BY <1>2, <1>3, <1>4

\* An insertion, with or without a cell, or into a tree without a root.
LEMMA InsertKeyKeeps ==
  ASSUME MenuInv, NEW key \in Int, NEW place \in {"inserting", "show"}, pc \in {"inserting", "number"},
         InsertKey(key, place), line' \in Seq(Int), UNCHANGED <<shown, verdict>>
  PROVE  MenuInv'
<1>1. menuTree # NoTree /\ menuTree \in Tree
  BY DEF MenuInv, Stopped
<1>2. pc' \in Places /\ pc' # "done"
  BY DEF InsertKey, Places
<1>3. shown' \in Seq(Int) /\ ShowsAValidTree'
  BY DEF MenuInv, ShowsAValidTree
<1>4. CASE menuTree.root = Null
  <2>1. menuTree' = menuTree /\ cells' = cells
    BY <1>4 DEF InsertKey
  <2> QED
    BY <1>1, <1>2, <1>3, <1>4, <2>1 DEF MenuInv
<1>5. CASE menuTree.root # Null
  <2>1. Valid(menuTree, cells)
    BY <1>1, <1>5 DEF MenuInv
  <2>2. \/ \E n \in Nodes \ cells : menuTree' = RbtreeInsert(menuTree, n, key) /\ cells' = cells \union {n}
        \/ menuTree' = RbtreeInsertFails(menuTree) /\ cells' = cells
    BY <1>5 DEF InsertKey
  <2>3. CASE \E n \in Nodes \ cells : menuTree' = RbtreeInsert(menuTree, n, key) /\ cells' = cells \union {n}
    <3>1. PICK n \in Nodes \ cells : menuTree' = RbtreeInsert(menuTree, n, key) /\ cells' = cells \union {n}
      BY <2>3
    <3>2. Valid(menuTree', cells')
      BY <2>1, <3>1, InsertKeeps
    <3>3. menuTree' \in Tree /\ menuTree'.root # Null /\ cells' \subseteq Nodes
      BY <3>2, ValidIs
    <3>4. menuTree' # NoTree
      BY <3>3, LinesAssumption
    <3> QED
      BY <1>2, <1>3, <3>2, <3>3, <3>4 DEF MenuInv
  <2>4. CASE menuTree' = RbtreeInsertFails(menuTree) /\ cells' = cells
    <3>1. \/ menuTree' = menuTree
          \/ menuTree'.root = Null /\ cells = {} /\ menuTree' \in Tree
      BY <2>1, <2>4, FailureIs
    <3>2. menuTree' # NoTree
      BY <1>1, <3>1, LinesAssumption
    <3> QED
      BY <1>1, <1>2, <1>3, <1>5, <2>1, <2>4, <3>1, <3>2 DEF MenuInv
  <2> QED
    BY <2>2, <2>3, <2>4
<1> QED
  BY <1>4, <1>5

\* delete_rbtree gives back every cell, or is stopped at a tree without a root, which has none.
LEMMA DeleteKeeps ==
  ASSUME MenuInv, pc = "menu", NEW place \in {"show", "done"}, Delete(place),
         menuTree' = NoTree \/ (place = "show" /\ menuTree' = NewTree), UNCHANGED <<line, shown, verdict>>
  PROVE  MenuInv'
<1>1. menuTree # NoTree /\ menuTree \in Tree
  BY DEF MenuInv, Stopped
<1>2. pc' \in {place, "crashed"} /\ cells' = {}
  <2>1. CASE menuTree.root = Null
    BY <1>1, <2>1 DEF Delete, MenuInv
  <2>2. CASE menuTree.root # Null
    <3>1. Freed(menuTree) = cells
      BY <1>1, <2>2, ReachedIs DEF MenuInv, Freed
    <3> QED
      BY <2>2, <3>1 DEF Delete
  <2> QED
    BY <2>1, <2>2
<1>3. shown' \in Seq(Int) /\ ShowsAValidTree' /\ line' \in Seq(Int)
  BY DEF MenuInv, ShowsAValidTree
<1>4. pc' \in Places /\ pc' \in {"show"} \union Stopped
  BY <1>2 DEF Places, Stopped
<1>5. CASE menuTree' = NoTree
  BY <1>2, <1>3, <1>4, <1>5 DEF MenuInv
<1>6. CASE place = "show" /\ menuTree' = NewTree
  <2>1. Valid(NewTree, {}) /\ NewTree.root # Null /\ NewTree \in Tree
    BY NewTreeIsValid, ValidIs
  <2>2. pc' # "done"
    BY <1>2, <1>6
  <2> QED
    BY <1>2, <1>3, <1>4, <1>6, <2>1, <2>2, LinesAssumption DEF MenuInv
<1> QED
  BY <1>5, <1>6

\* The end of a turn.
LEMMA ShowKeeps == ASSUME MenuInv, Show PROVE MenuInv'
<1>1. UNCHANGED <<menuTree, cells, line>> /\ pc = "show"
  BY DEF Show
<1>2. CASE menuTree = NoTree \/ menuTree.root = Null
  <2>1. pc' = "crashed" /\ shown' = shown /\ verdict' = verdict
    BY <1>2 DEF Show
  <2> QED
    BY <1>1, <2>1 DEF MenuInv, Places, Stopped, ShowsAValidTree
<1>3. CASE ~(menuTree = NoTree \/ menuTree.root = Null)
  <2>1. Valid(menuTree, cells)
    BY <1>3 DEF MenuInv
  <2>2. /\ pc' = "menu" /\ shown' = InOrderKeys(menuTree)[menuTree.root]
        /\ verdict' = ValidateRbtree(menuTree)
    BY <1>3 DEF Show
  <2>3. /\ shown' \in Seq(Int) /\ \A i \in 1 .. Len(shown') - 1 : shown'[i] <= shown'[i + 1]
        /\ ValidateRbtree(menuTree)
    BY <2>1, <2>2, ShownIs
  <2>4. ShowsAValidTree'
    BY <2>2, <2>3 DEF ShowsAValidTree
  <2> QED
    BY <1>1, <1>3, <2>2, <2>3, <2>4 DEF MenuInv, Places
<1> QED
  BY <1>2, <1>3

\* Every step of the menu keeps the invariant.
LEMMA MenuKeeps == ASSUME MenuInv, [MenuNext]_menuVars PROVE MenuInv'
<1>1. ASSUME UNCHANGED menuVars PROVE MenuInv'
  BY <1>1 DEF MenuInv, menuVars, ShowsAValidTree
<1>2. ASSUME UNCHANGED <<menuTree, cells, shown, verdict>>, line' \in Seq(Int), pc \notin Stopped \union {"show"},
             pc' \in Places \ {"done"}
      PROVE  MenuInv'
  BY <1>2 DEF MenuInv, ShowsAValidTree
<1>3. line \in Seq(Int)
  BY DEF MenuInv
<1>4. CASE Choose("line") \/ Choose("number") \/ CloseInput \/ TypeWord \/ EndOfLine
  <2>1. UNCHANGED <<menuTree, cells, line, shown, verdict>>
    BY <1>4 DEF Choose, CloseInput, TypeWord, EndOfLine
  <2>2. pc \notin Stopped \union {"show"} /\ pc' \in Places \ {"done"}
    BY <1>4 DEF Choose, CloseInput, TypeWord, EndOfLine, Places, Stopped
  <2> QED
    BY <1>2, <1>3, <2>1, <2>2
<1>5. ASSUME NEW tokens \in Lines, TypeLine(tokens) PROVE MenuInv'
  <2>1. UNCHANGED <<menuTree, cells, shown, verdict>> /\ line' \in Seq(Int)
    BY <1>5, LinesAssumption DEF TypeLine
  <2>2. pc \notin Stopped \union {"show"} /\ pc' \in Places \ {"done"}
    BY <1>5 DEF TypeLine, Places, Stopped
  <2> QED
    BY <1>2, <2>1, <2>2
<1>6. CASE InsertToken
  <2>1. Head(line) \in Int /\ Tail(line) \in Seq(Int)
    BY <1>3, <1>6 DEF InsertToken
  <2>2. pc \in {"inserting", "number"} /\ "inserting" \in {"inserting", "show"}
    BY <1>6 DEF InsertToken
  <2>3. InsertKey(Head(line), "inserting") /\ line' \in Seq(Int) /\ UNCHANGED <<shown, verdict>>
    BY <1>6, <2>1 DEF InsertToken
  <2> QED
    BY <2>1, <2>2, <2>3, InsertKeyKeeps
<1>7. ASSUME NEW key \in UNION {{l[i] : i \in DOMAIN l} : l \in Lines}, TypeNumber(key) PROVE MenuInv'
  <2>1. key \in Int
    <3>1. PICK l \in Lines : key \in {l[i] : i \in DOMAIN l}
      BY <1>7
    <3>2. l \in Seq(Int)
      BY LinesAssumption
    <3> QED
      BY <3>1, <3>2
  <2>2. pc \in {"inserting", "number"} /\ "show" \in {"inserting", "show"}
    BY <1>7 DEF TypeNumber
  <2>3. InsertKey(key, "show") /\ line' \in Seq(Int) /\ UNCHANGED <<shown, verdict>>
    BY <1>3, <1>7 DEF TypeNumber
  <2> QED
    BY <2>1, <2>2, <2>3, InsertKeyKeeps
<1>8. CASE Clear
  <2>1. pc = "menu" /\ Delete("show") /\ UNCHANGED <<line, shown, verdict>> /\ menuTree' \in {NewTree, NoTree}
    BY <1>8 DEF Clear
  <2>2. "show" \in {"show", "done"} /\ (menuTree' = NoTree \/ ("show" = "show" /\ menuTree' = NewTree))
    BY <2>1
  <2> QED
    BY <2>1, <2>2, DeleteKeeps
<1>9. CASE Quit
  <2>1. pc = "menu" /\ Delete("done") /\ UNCHANGED <<line, shown, verdict>> /\ menuTree' = NoTree
    BY <1>9 DEF Quit
  <2>2. "done" \in {"show", "done"} /\ (menuTree' = NoTree \/ ("done" = "show" /\ menuTree' = NewTree))
    BY <2>1
  <2> QED
    BY <2>1, <2>2, DeleteKeeps
<1>10. CASE Show
  BY <1>10, ShowKeeps
<1>11. CASE BadChoice \/ Idle
  BY <1>1, <1>11 DEF BadChoice, Idle
<1> QED
  BY <1>1, <1>4, <1>5, <1>6, <1>7, <1>8, <1>9, <1>10, <1>11 DEF MenuNext, User, Program

\* The menu gives back every node, at the end and before a new tree (README.md:11 of the
\* lab), its own check of the tree never fails, and what it prints is in order
\* (MenuRight): for any input, and wherever calloc fails.
THEOREM MenuStaysRight == MenuSpec => []MenuRight
<1>1. MenuInit => MenuInv
  <2>1. Valid(NewTree, {}) /\ NewTree.root # Null /\ NewTree \in Tree
    BY NewTreeIsValid, ValidIs
  <2>2. NewTree # NoTree
    BY <2>1, LinesAssumption
  <2>3. <<>> \in Seq(Int) /\ Len(<<>>) = 0
    OBVIOUS
  <2> QED
    BY <2>1, <2>2, <2>3 DEF MenuInit, MenuInv, Places, ShowsAValidTree
<1>2. MenuInv /\ [MenuNext]_menuVars => MenuInv'
  BY MenuKeeps
<1>3. MenuInv => MenuRight
  <2> SUFFICES ASSUME MenuInv PROVE MenuRight
    OBVIOUS
  <2> USE DEF MenuInv
  <2>1. ASSUME menuTree # NoTree PROVE menuTree.root \in cells \union {Nil, Null} /\ cells = Reached(menuTree)
    <3>1. CASE menuTree.root = Null
      <4>1. Walk(menuTree) = <<>>
        BY <3>1 DEF Walk
      <4>2. Reached(menuTree) = {}
        BY <4>1 DEF Reached
      <4> QED
        BY <2>1, <3>1, <4>2
    <3>2. CASE menuTree.root # Null
      BY <2>1, <3>2, ValidIs, ReachedIs
    <3> QED
      BY <3>1, <3>2
  <2>2. MenuTypeOK
    BY <2>1 DEF MenuTypeOK
  <2>3. NothingLeaked
    BY <2>1 DEF NothingLeaked
  <2> QED
    BY <2>2, <2>3 DEF MenuRight
<1> QED
  BY <1>1, <1>2, <1>3, PTL DEF MenuSpec
=============================================================================
