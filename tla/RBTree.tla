------------------------------- MODULE RBTree -------------------------------
(***************************************************************************)
(* rbtree-lab-main/src/rbtree.c with its pointers: a red-black tree of     *)
(* keys, equal keys allowed, over one sentinel per tree.  A function of    *)
(* rbtree.c is an operator from the tree before the call to the tree after *)
(* it.  The two mirrored halves of each fix-up are one definition with a   *)
(* side for parameter.  Nodes are the cells calloc may hand out, Nil is    *)
(* t->nil.                                                                 *)
(***************************************************************************)
EXTENDS Trees

CONSTANT Null     \* NULL

ASSUME NullAssumption == Null \notin Node

Colors == {"red", "black"}

\* The root is NULL after an insertion that found no memory in an empty tree.
Tree == [root : Node \union {Null}, child : [Side -> [Node -> Node]], parent : [Node -> Node],
         color : [Node -> Colors], key : [Node -> Int]]

\* new_rbtree when both callocs succeed.  Only the sentinel's parent is ever
\* written again.
NewTree == [root |-> Nil, child |-> [s \in Side |-> Blank], parent |-> Blank,
            color |-> [n \in Node |-> "black"], key |-> [n \in Node |-> 0]]

\* rbtree_transplant, and the same in the rotations: v takes u's place below u's parent,
\* or at the root. v may be the sentinel, whose parent is then u's.
Transplant(t, u, v) ==
  LET up == t.parent[u]
      t1 == IF up = Nil THEN [t EXCEPT !.root = v]
            ELSE IF u = t.child["left"][up] THEN [t EXCEPT !.child["left"][up] = v]
            ELSE [t EXCEPT !.child["right"][up] = v]
  IN [t1 EXCEPT !.parent[v] = up]

\* A mistake: the subtree that changes sides keeps its old parent.
RotateKeepsParent(t, x, side) ==
  LET y  == t.child[Other(side)][x]
      t1 == [t EXCEPT !.child[Other(side)][x] = t.child[side][y]]
  IN [Transplant(t1, x, y) EXCEPT !.parent[x] = y, !.child[side][y] = x]

\* L_rotate (side "left") and R_rotate (side "right"): x goes down to the
\* side, its other child y comes up.
Rotate(t, x, side) ==
  LET y   == t.child[Other(side)][x]
      mid == t.child[side][y]
      t1  == [t EXCEPT !.child[Other(side)][x] = mid,
                       !.parent[mid] = IF mid = Nil THEN @ ELSE x]
  IN [Transplant(t1, x, y) EXCEPT !.parent[x] = y, !.child[side][y] = x]

Paint(t, n, color) == [t EXCEPT !.color[n] = color]

\* The side of its parent a node stands on.
SideOf(t, n) == IF n = t.child["left"][t.parent[n]] THEN "left" ELSE "right"

\* insert_fix_up, red uncle: he and the parent get black, and the grandparent, now
\* red, is the next child to look at.
RedUncle(t, child, uncle) ==
  LET parent == t.parent[child]
      above  == t.parent[parent]
  IN [tree |-> Paint(Paint(Paint(t, above, "red"), uncle, "black"), parent, "black"), at |-> above]

\* insert_fix_up, black uncle: an inner child is first rotated outwards, then
\* the grandparent goes down.
BlackUncle(t, child, side) ==
  LET inner == child = t.child[Other(side)][t.parent[child]]
      c     == IF inner THEN t.parent[child] ELSE child
      t1    == IF inner THEN Rotate(t, c, side) ELSE t
      top   == t1.parent[t1.parent[c]]
  IN [tree |-> Rotate(Paint(Paint(t1, t1.parent[c], "black"), top, "red"), top, Other(side)),
      at   |-> c]

\* The states of a fix-up's loop. A tree to repair has a root.
Repair == {r \in [tree : Tree, at : Node] : r.tree.root # Null}

\* One turn of insert_fix_up's loop.
InsertTurn(t, child) ==
  LET side  == SideOf(t, t.parent[child])
      uncle == t.child[Other(side)][t.parent[t.parent[child]]]
  IN IF t.color[uncle] = "red" THEN RedUncle(t, child, uncle) ELSE BlackUncle(t, child, side)

\* insert_fix_up: the loop, and the root painted black after it.
InsertFixUp(t, child) ==
  LET turn == [r \in Repair |->
                 IF r.at = r.tree.root \/ r.tree.color[r.tree.parent[r.at]] = "black" THEN r
                 ELSE InsertTurn(r.tree, r.at)]
      last == Turns(turn, [tree |-> t, at |-> child]).tree
  IN Paint(last, last.root, "black")

\* make_node after a calloc that succeeded.
MakeNode(t, n, color, key, parent) ==
  [t EXCEPT !.color[n] = color, !.key[n] = key, !.parent[n] = parent,
            !.child["left"][n] = Nil, !.child["right"][n] = Nil]

\* Where key belongs below a node with key k: equal keys go right.
SideFor(key, k) == IF k > key THEN "left" ELSE "right"

\* The node a new key is hung below.
InsertionParent(t, key) == Descend(t, [n \in Node |-> SideFor(key, t.key[n])])

\* A mistake: the descent and the hanging disagree on equal keys.
RbtreeInsertEqualLeft(t, n, key) ==
  LET parent == InsertionParent(t, key)
      side   == IF t.key[parent] >= key THEN "left" ELSE "right"
  IN IF t.root = Nil THEN [MakeNode(t, n, "black", key, Nil) EXCEPT !.root = n]
     ELSE InsertFixUp([MakeNode(t, n, "red", key, parent) EXCEPT !.child[side][parent] = n], n)

\* rbtree_insert with the cell n that calloc returned.
RbtreeInsert(t, n, key) ==
  LET parent == InsertionParent(t, key)
      side   == SideFor(key, t.key[parent])
  IN IF t.root = Nil THEN [MakeNode(t, n, "black", key, Nil) EXCEPT !.root = n]
     ELSE InsertFixUp([MakeNode(t, n, "red", key, parent) EXCEPT !.child[side][parent] = n], n)

\* rbtree_insert when calloc returns NULL: an empty tree loses its sentinel
\* for a root, any other is left alone.
RbtreeInsertFails(t) == IF t.root = Nil THEN [t EXCEPT !.root = Null] ELSE t

OrNull(n) == IF n = Nil THEN Null ELSE n

\* rbtree_find.
RbtreeFind(t, key) ==
  LET turn == [n \in Node |-> IF n = Nil \/ t.key[n] = key THEN n
                              ELSE t.child[SideFor(key, t.key[n])][n]]
  IN OrNull(Turns(turn, t.root))

\* rbtree_min and rbtree_max; on an empty tree the walk reads the sentinel's own
\* child.
RbtreeMin(t) == OrNull(Furthest(t, t.root, "left"))
RbtreeMax(t) == OrNull(Furthest(t, t.root, "right"))

\* erase_fix_up, red brother: he goes up in black, and the node gets a black
\* brother.
RedBrother(t, node, side) ==
  LET parent == t.parent[node]
      bro    == t.child[Other(side)][parent]
  IN IF t.color[bro] = "red"
     THEN Rotate(Paint(Paint(t, bro, "black"), parent, "red"), parent, side)
     ELSE t

\* erase_fix_up, black brother with a red child: if his far child is not red he is
\* rotated and that child is.
RedNephew(t, node, side) ==
  LET far == Other(side)
      bro == t.child[far][t.parent[node]]
  IN IF t.color[t.child[far][bro]] = "red" THEN t
     ELSE Rotate(Paint(Paint(t, t.child[side][bro], "black"), bro, "red"), bro, far)

\* erase_fix_up, the far child of the brother is red: the parent goes down.
RedFarNephew(t, node, side) ==
  LET far    == Other(side)
      parent == t.parent[node]
      bro    == t.child[far][parent]
      t1     == Paint(Paint(t, bro, t.color[parent]), parent, "black")
  IN Rotate(Paint(t1, t1.child[far][bro], "black"), parent, side)

\* One turn of erase_fix_up's loop.
EraseTurn(t, node) ==
  LET side == SideOf(t, node)
      t1   == RedBrother(t, node, side)
      bro  == t1.child[Other(side)][t1.parent[node]]
      t2   == RedFarNephew(RedNephew(t1, node, side), node, side)
  IN IF \A s \in Side : t1.color[t1.child[s][bro]] = "black"
     THEN [tree |-> Paint(t1, bro, "red"), at |-> t1.parent[node]]
     ELSE [tree |-> t2, at |-> t2.root]

\* erase_fix_up: the loop, and the last node painted black after it.
EraseFixUp(t, node) ==
  LET turn == [r \in Repair |->
                 IF r.at = r.tree.root \/ r.tree.color[r.at] = "red" THEN r
                 ELSE EraseTurn(r.tree, r.at)]
      last == Turns(turn, [tree |-> t, at |-> node])
  IN Paint(last.tree, last.at, "black")

\* rbtree_erase with two children: y, the least node on the right, leaves x in
\* its place and takes p's place, children and colour.
ReplaceBySuccessor(t, p, y, x) ==
  LET right == t.child["right"][p]
      t1    == IF t.parent[y] = p THEN [t EXCEPT !.parent[x] = y]
               ELSE [Transplant(t, y, x) EXCEPT !.child["right"][y] = right, !.parent[right] = y]
      t2    == Transplant(t1, p, y)
      left  == t2.child["left"][p]
  IN [t2 EXCEPT !.child["left"][y] = left, !.parent[left] = y, !.color[y] = t2.color[p]]

\* The words of a freed node are calloc's again.
Free(t, p) ==
  [t EXCEPT !.child["left"][p] = Nil, !.child["right"][p] = Nil, !.parent[p] = Nil,
            !.color[p] = "black", !.key[p] = 0]

\* A mistake: the colour that counts is p's, whoever left the tree.
RbtreeEraseOwnColor(t, p) ==
  LET two == t.child["left"][p] # Nil /\ t.child["right"][p] # Nil
      y   == IF two THEN Furthest(t, t.child["right"][p], "left") ELSE p
      x   == t.child[IF t.child["left"][y] = Nil THEN "right" ELSE "left"][y]
      t1  == IF two THEN ReplaceBySuccessor(t, p, y, x) ELSE Transplant(t, p, x)
  IN Free(IF t.color[p] = "black" THEN EraseFixUp(t1, x) ELSE t1, p)

\* rbtree_erase of a node of the tree: y is the node that leaves its place, the
\* successor (rbtree_find_successor) when p has two children, and x its only child.
RbtreeErase(t, p) ==
  LET two == t.child["left"][p] # Nil /\ t.child["right"][p] # Nil
      y   == IF two THEN Furthest(t, t.child["right"][p], "left") ELSE p
      x   == t.child[IF t.child["left"][y] = Nil THEN "right" ELSE "left"][y]
      t1  == IF two THEN ReplaceBySuccessor(t, p, y, x) ELSE Transplant(t, p, x)
  IN Free(IF t.color[y] = "black" THEN EraseFixUp(t1, x) ELSE t1, p)

\* The nodes of the tree in order.
Walk(t) == IF t.root = Null THEN <<>> ELSE InOrder(t)[t.root]

\* inorder_helper: the keys each call stores when there are room places left; a full
\* array ends the call, and each caller above it when its own turn to store comes.
InorderHelper(t, n) ==
  Turns([stored \in [Node -> [0 .. n -> Seq(Int)]] |->
           [node \in Node |-> [room \in 0 .. n |->
              IF node = Nil THEN <<>>
              ELSE LET left == stored[t.child["left"][node]][room]
                   IN IF Len(left) >= room THEN left
                      ELSE left \o <<t.key[node]>>
                           \o stored[t.child["right"][node]][room - Len(left) - 1]]]],
        [node \in Node |-> [room \in 0 .. n |-> <<>>]])

\* rbtree_to_array: the keys stored in an array of n.
RbtreeToArray(t, n) == InorderHelper(t, n)[t.root][n]
=============================================================================
