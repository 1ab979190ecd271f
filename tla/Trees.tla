------------------------------- MODULE Trees -------------------------------
(***************************************************************************)
(* Binary trees whose nodes are linked in both directions, over a sentinel *)
(* that stands for "no node": what rbtree.c's tree is before its colours   *)
(* and keys.  A tree is a record with the fields root, child               *)
(* (child["left"] being left) and parent, besides its own.  Loops and      *)
(* recursions along the links are written with Turns.                      *)
(***************************************************************************)
EXTENDS Integers, Sequences, FiniteSets

CONSTANTS
  Nodes,    \* the nodes there may be
  Nil       \* the sentinel

ASSUME TreesAssumption == IsFiniteSet(Nodes) /\ Nil \notin Nodes

Node == Nodes \union {Nil}
Side == {"left", "right"}
Other(side) == IF side = "left" THEN "right" ELSE "left"

\* What a node's words hold while it is not in the tree.
Blank == [n \in Node |-> Nil]

\* A loop or a recursion that goes along the links of the tree, turn by turn until a
\* turn changes nothing. It has left the tree after as many turns as there are nodes.
Turns(turn, start) ==
  LET go[k \in 0 .. Cardinality(Nodes)] ==
        [r \in DOMAIN turn |-> LET next == turn[r]
                               IN IF k = 0 \/ next = r THEN r ELSE go[k - 1][next]]
  IN go[Cardinality(Nodes)][start]

\* The last node on the way down from the root, when toward says on which side of
\* each node the way goes on; Nil when there is no root.
Descend(t, toward) ==
  LET turn == [r \in [last : Node, at : Node] |->
                 IF r.at = Nil THEN r ELSE [last |-> r.at, at |-> t.child[toward[r.at]][r.at]]]
  IN Turns(turn, [last |-> Nil, at |-> t.root]).last

\* As far as one gets from n on one side.
Furthest(t, n, side) ==
  Turns([m \in Node |-> IF t.child[side][m] = Nil THEN m ELSE t.child[side][m]], n)

\* The nodes below each node in order, left to right.
InOrder(t) ==
  Turns([walk \in [Node -> Seq(Node)] |->
           [n \in Node |-> IF n = Nil THEN <<>>
                           ELSE walk[t.child["left"][n]] \o <<n>> \o walk[t.child["right"][n]]]],
        [n \in Node |-> <<>>])
=============================================================================
