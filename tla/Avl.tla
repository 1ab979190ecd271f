-------------------------------- MODULE Avl --------------------------------
(***************************************************************************)
(* The AVL tree of large free blocks, malloc-lab-main/avl.c, with its      *)
(* pointers.  A node is the payload of a free block; Nil is the shared     *)
(* sentinel nil_sentinel, whose parent field the code overwrites at will.  *)
(* A function of avl.c is an operator from the tree before the call to the *)
(* tree after it; the mirrored halves of a function are one definition     *)
(* with a side.                                                            *)
(***************************************************************************)
EXTENDS Integers, Sequences, FiniteSets

CONSTANTS
  Nodes,    \* blocks that may be in the tree
  Nil,      \* &nil_sentinel
  SizesOf,  \* the sizes each block may have when it is inserted
  Wanted    \* the sizes searched for

ASSUME AvlAssumption ==
  /\ IsFiniteSet(Nodes) /\ Nil \notin Nodes
  /\ Wanted \subseteq Nat /\ \A n \in Nodes : SizesOf[n] \subseteq Nat

VARIABLES
  tree,     \* root and the fields of the nodes
  members   \* the nodes inserted and not deleted since

vars == <<tree, members>>

Node == Nodes \union {Nil}
Side == {"left", "right"}
Other(side) == IF side = "left" THEN "right" ELSE "left"

\* avl_node_t, child["left"] being left, and the tree's root.
Tree == [root : Node, child : [Side -> [Node -> Node]], parent : [Node -> Node],
         height : [Node -> Nat], size : [Node -> Nat]]

Larger(a, b) == IF a > b THEN a ELSE b

\* What a node's words hold while its block is not in the tree.
Blank == [n \in Node |-> Nil]

\* avl_init.
AvlInit == [root |-> Nil, child |-> [q \in Side |-> Blank], parent |-> Blank,
            height |-> [n \in Node |-> 0], size |-> [n \in Node |-> 0]]

\* A loop or a recursion that goes along the links of the tree, turn by turn until a
\* turn changes nothing. It has left the tree after as many turns as there are nodes.
Turns(turn, start) ==
  LET go[k \in 0 .. Cardinality(Nodes)] ==
        [r \in DOMAIN turn |-> LET next == turn[r]
                               IN IF k = 0 \/ next = r THEN r ELSE go[k - 1][next]]
  IN go[Cardinality(Nodes)][start]

UpdateHeight(t, n) ==
  [t EXCEPT !.height[n] =
     1 + Larger(t.height[t.child["left"][n]], t.height[t.child["right"][n]])]

BalanceFactor(t, n) == t.height[t.child["left"][n]] - t.height[t.child["right"][n]]

\* v takes u's place below u's parent; v may be Nil.
Transplant(t, u, v) ==
  LET up == t.parent[u]
      t1 == IF up = Nil THEN [t EXCEPT !.root = v]
            ELSE IF u = t.child["left"][up] THEN [t EXCEPT !.child["left"][up] = v]
            ELSE [t EXCEPT !.child["right"][up] = v]
  IN [t1 EXCEPT !.parent[v] = up]

\* A mistake: the subtree that changes sides keeps its old parent.
RotateKeepsParent(t, side, x) ==
  LET y  == t.child[Other(side)][x]
      t1 == [t EXCEPT !.child[Other(side)][x] = t.child[side][y]]
      t2 == [Transplant(t1, x, y) EXCEPT !.child[side][y] = x, !.parent[x] = y]
  IN UpdateHeight(UpdateHeight(t2, x), y)

\* rotate_left and rotate_right: x goes down to the side, its other child comes up.
Rotate(t, side, x) ==
  LET y   == t.child[Other(side)][x]
      mid == t.child[side][y]
      t1  == [t EXCEPT !.child[Other(side)][x] = mid,
                       !.parent[mid] = IF mid = Nil THEN @ ELSE x]
      t2  == [Transplant(t1, x, y) EXCEPT !.child[side][y] = x, !.parent[x] = y]
  IN UpdateHeight(UpdateHeight(t2, x), y)

\* The rotations of rebalance_upwards at x, whose child c on the side is too high:
\* first at c if c leans the other way.
Straightened(t, side, x) ==
  LET c     == t.child[side][x]
      inner == t.child[Other(side)][c]
      leans == t.height[t.child[side][c]] < t.height[inner]
      t1    == IF leans THEN [Rotate(t, side, c) EXCEPT !.child[side][x] = inner] ELSE t
  IN [tree |-> Rotate(t1, Other(side), x), top |-> t1.child[side][x]]

\* One turn of rebalance_upwards at x, and what is then on top of the subtree.
Rebalanced(t, x) ==
  LET h == UpdateHeight(t, x)
  IN IF BalanceFactor(h, x) > 1 THEN Straightened(h, "left", x)
     ELSE IF BalanceFactor(h, x) < -1 THEN Straightened(h, "right", x)
     ELSE [tree |-> h, top |-> x]

RebalanceUpwards(t, x) ==
  LET turn == [r \in [tree : Tree, at : Node] |->
                 IF r.at = Nil THEN r
                 ELSE LET b == Rebalanced(r.tree, r.at)
                      IN [tree |-> b.tree, at |-> b.tree.parent[b.top]]]
  IN Turns(turn, [tree |-> t, at |-> x]).tree

\* avl_get_minimum of the subtree at n.
Minimum(t, n) ==
  Turns([m \in Node |-> IF t.child["left"][m] = Nil THEN m ELSE t.child["left"][m]], n)

\* Where size s belongs below a node of size k: equal sizes go right.
SideFor(s, k) == IF s < k THEN "left" ELSE "right"

\* The node a new node of size s is hung below.
InsertionParent(t, s) ==
  LET turn == [r \in [y : Node, x : Node] |->
                 IF r.x = Nil THEN r
                 ELSE [y |-> r.x, x |-> t.child[SideFor(s, t.size[r.x])][r.x]]]
  IN Turns(turn, [y |-> Nil, x |-> t.root]).y

\* A mistake: the descent and the hanging disagree on equal sizes.
HangEqualLeft(t, z, s, y) ==
  LET t1 == [t EXCEPT !.size[z] = s, !.parent[z] = y, !.height[z] = 1,
                      !.child["left"][z] = Nil, !.child["right"][z] = Nil]
  IN IF y = Nil THEN [t1 EXCEPT !.root = z]
     ELSE [t1 EXCEPT !.child[IF s <= t.size[y] THEN "left" ELSE "right"][y] = z]

\* z's fields, and its place below y.
Hang(t, z, s, y) ==
  LET t1 == [t EXCEPT !.size[z] = s, !.parent[z] = y, !.height[z] = 1,
                      !.child["left"][z] = Nil, !.child["right"][z] = Nil]
  IN IF y = Nil THEN [t1 EXCEPT !.root = z]
     ELSE [t1 EXCEPT !.child[SideFor(s, t.size[y])][y] = z]

\* avl_insert_block and avl_insert: node z with its block's size.
AvlInsert(t, z, s) ==
  LET y == InsertionParent(t, s) IN RebalanceUpwards(Hang(t, z, s, y), y)

\* A mistake: the right child keeps z for its parent.
ReplaceForgetsRight(t, z, y) ==
  LET t1 == [Transplant(t, z, y) EXCEPT !.child["left"][y] = t.child["left"][z]]
      t2 == [t1 EXCEPT !.parent[t1.child["left"][y]] = y]
  IN UpdateHeight([t2 EXCEPT !.child["right"][y] = t2.child["right"][z]], y)

\* z's successor y, already detached, takes z's place and z's children.
Replace(t, z, y) ==
  LET t1 == [Transplant(t, z, y) EXCEPT !.child["left"][y] = t.child["left"][z]]
      t2 == [t1 EXCEPT !.parent[t1.child["left"][y]] = y]
      t3 == [t2 EXCEPT !.child["right"][y] = t2.child["right"][z]]
      t4 == [t3 EXCEPT !.parent[t3.child["right"][y]] = y]
  IN UpdateHeight(t4, y)

\* The node that avl_delete takes out of its place: z, or its successor when z has
\* two children.
Detached(t, z) ==
  IF t.child["left"][z] = Nil \/ t.child["right"][z] = Nil THEN z
  ELSE Minimum(t, t.child["right"][z])

\* The child that takes that place.
Heir(t, y) == IF t.child["left"][y] # Nil THEN t.child["left"][y] ELSE t.child["right"][y]

\* A mistake: rebalancing starts at the node that took z's place.
AvlDeleteStartsHigh(t, z) ==
  LET y  == Detached(t, z)
      x  == Heir(t, y)
      t1 == Transplant(t, y, x)
  IN IF y = z THEN RebalanceUpwards(t1, t1.parent[x])
     ELSE RebalanceUpwards(Replace(t1, z, y), y)

AvlDelete(t, z) ==
  LET y     == Detached(t, z)
      x     == Heir(t, y)
      t1    == Transplant(t, y, x)
      start == t1.parent[x]
  IN IF y = z THEN RebalanceUpwards(t1, start)
     ELSE RebalanceUpwards(Replace(t1, z, y), IF start = z THEN y ELSE start)

\* A mistake: an equal size is taken for too small.
AvlFindBestFitStrict(t, s) ==
  LET turn == [r \in [node : Node, best : Node] |->
                 IF r.node = Nil THEN r
                 ELSE IF t.size[r.node] > s
                 THEN [node |-> t.child["left"][r.node], best |-> r.node]
                 ELSE [r EXCEPT !.node = t.child["right"][r.node]]]
  IN Turns(turn, [node |-> t.root, best |-> Nil]).best

\* avl_find_best_fit and find_best_fit_helper; Nil stands for NULL.
AvlFindBestFit(t, s) ==
  LET turn == [r \in [node : Node, best : Node] |->
                 IF r.node = Nil THEN r
                 ELSE IF t.size[r.node] >= s
                 THEN [node |-> t.child["left"][r.node], best |-> r.node]
                 ELSE [r EXCEPT !.node = t.child["right"][r.node]]]
  IN Turns(turn, [node |-> t.root, best |-> Nil]).best

-----------------------------------------------------------------------------
(* The allocator's use of the tree: a free block goes in with its size,    *)
(* comes out when it is merged or when a search picked it; mm_init makes   *)
(* the tree anew.                                                          *)

Init == tree = AvlInit /\ members = {}

\* add_to_list of a large block.
Insert(n, s) ==
  /\ n \notin members
  /\ tree' = AvlInsert(tree, n, s)
  /\ members' = members \union {n}

\* The words of a block that has left the tree are a client's again.
Forget(t, n) ==
  [t EXCEPT !.child["left"][n] = Nil, !.child["right"][n] = Nil, !.parent[n] = Nil,
            !.height[n] = 0, !.size[n] = 0]

\* remove_from_list of a large block.
Delete(n) ==
  /\ n \in members
  /\ tree' = Forget(AvlDelete(tree, n), n)
  /\ members' = members \ {n}

\* avl_find_fit: the block found is deleted.
FindFit(s) ==
  LET best == AvlFindBestFit(tree, s) IN
  /\ best # Nil
  /\ tree' = Forget(AvlDelete(tree, best), best)
  /\ members' = members \ {best}

\* mm_init.
Reset == tree' = AvlInit /\ members' = {}

Next ==
  \/ \E n \in Nodes : \/ \E s \in SizesOf[n] : Insert(n, s)
                      \/ Delete(n)
  \/ \E s \in Wanted : FindFit(s)
  \/ Reset

Spec == Init /\ [][Next]_vars

-----------------------------------------------------------------------------
(* What the tree promises.                                                 *)

\* Fields hold nodes, heights and sizes are natural; no node of the tree points
\* at a block that has left it, and of the sentinel's words only the parent is
\* ever overwritten (avl.c:46).
TypeOK ==
  /\ tree \in Tree
  /\ members \subseteq Nodes
  /\ tree.root \in members \union {Nil}
  /\ \A n \in members :
       /\ tree.parent[n] \in members \union {Nil}
       /\ \A q \in Side : tree.child[q][n] \in members \union {Nil}
  /\ \A q \in Side : tree.child[q][Nil] = Nil
  /\ tree.size[Nil] = 0

\* The nodes below each node in order, left to right.
InOrder(t) ==
  Turns([walk \in [Node -> Seq(Node)] |->
           [n \in Node |-> IF n = Nil THEN <<>>
                           ELSE walk[t.child["left"][n]] \o <<n>> \o walk[t.child["right"][n]]]],
        [n \in Node |-> <<>>])

Walk == InOrder(tree)[tree.root]

\* The tree holds the blocks that were inserted and not deleted, each once, and
\* every child knows its parent: rotations and the replacement by the successor
\* lose no subtree and leave no stale link.
HoldsMembers ==
  /\ LET walk == Walk IN
       Len(walk) = Cardinality(members) /\ {walk[i] : i \in DOMAIN walk} = members
  /\ tree.root # Nil => tree.parent[tree.root] = Nil
  /\ \A n \in members, q \in Side :
       tree.child[q][n] # Nil => tree.parent[tree.child[q][n]] = n

\* In order the sizes never decrease, rotations between equal sizes included.
Ordered ==
  LET walk == Walk IN \A i \in 1 .. Len(walk) - 1 : tree.size[walk[i]] <= tree.size[walk[i + 1]]

\* Recorded heights are the real ones and no node leans by more than one, the
\* sentinel's own height staying 0: deletion included (rebalance_upwards).
Balanced ==
  /\ tree.height[Nil] = 0
  /\ \A n \in members :
       /\ tree.height[n] = 1 + Larger(tree.height[tree.child["left"][n]],
                                      tree.height[tree.child["right"][n]])
       /\ BalanceFactor(tree, n) \in {-1, 0, 1}

\* A search returns a block of the least sufficient size, and finds one whenever
\* there is one (avl_find_best_fit; the answer module Heap relies on).
FindsBestFit ==
  \A s \in Wanted :
    LET fits == {n \in members : tree.size[n] >= s}
        best == AvlFindBestFit(tree, s)
    IN IF fits = {} THEN best = Nil
       ELSE best \in fits /\ \A n \in fits : tree.size[best] <= tree.size[n]

\* avl.c:199, "equal sizes go left": a new block precedes those of its size.
EqualGoesLeft ==
  [][\A n \in Nodes : \A s \in SizesOf[n] : Insert(n, s) =>
       LET walk == InOrder(tree')[tree'.root]
           at(m) == CHOOSE i \in DOMAIN walk : walk[i] = m
       IN \A m \in members : tree.size[m] = s => at(n) < at(m)]_vars
=============================================================================
