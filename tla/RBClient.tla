------------------------------ MODULE RBClient ------------------------------
(***************************************************************************)
(* A tree of rbtree.c and a program that uses it: it inserts keys, keeps   *)
(* the pointers, asks, erases, and deletes the tree for a new one.  calloc *)
(* may fail.  Every call of rbtree.h is an action; a call that reads       *)
(* through NULL ends the program.                                          *)
(***************************************************************************)
EXTENDS RBTree

CONSTANTS
  KeysOf,        \* the keys each cell may be given
  Asked,         \* the keys looked for
  ArraySizes,    \* the sizes of the arrays handed to rbtree_to_array
  CallocFails    \* the outcomes of calloc: {FALSE} or {FALSE, TRUE}

ASSUME KeysAssumption ==
  /\ Asked \subseteq Int
  /\ ArraySizes \subseteq Nat
  /\ \A n \in Nodes : KeysOf[n] \subseteq Int

VARIABLES
  tree,      \* root, and the fields of the cells
  members,   \* the pointers the client holds
  answer,    \* what the last call returned
  crashed    \* has the program read through NULL?

vars == <<tree, members, answer, crashed>>

Pointer(n) == <<"pointer", n>>
Code(c) == <<"code", c>>
Array(keys) == <<"array", keys>>

Init == tree = NewTree /\ members = {} /\ answer = Pointer(Null) /\ crashed = FALSE

\* t->root is compared with the sentinel and read: NULL is not the sentinel.
Usable == ~crashed /\ tree.root # Null

Insert(n, key) ==
  /\ Usable
  /\ n \notin members
  /\ tree' = RbtreeInsert(tree, n, key)
  /\ members' = members \union {n}
  /\ answer' = Pointer(n)
  /\ UNCHANGED crashed

InsertFails ==
  /\ Usable
  /\ TRUE \in CallocFails
  /\ tree' = RbtreeInsertFails(tree)
  /\ answer' = Pointer(Null)
  /\ UNCHANGED <<members, crashed>>

Erase(n) ==
  /\ Usable
  /\ n \in members
  /\ tree' = RbtreeErase(tree, n)
  /\ members' = members \ {n}
  /\ answer' = Code(1)
  /\ UNCHANGED crashed

\* rbtree_erase of NULL, what rbtree_find or rbtree_min did not find: it
\* returns at once, whatever the root.
EraseNull == ~crashed /\ answer' = Code(0) /\ UNCHANGED <<tree, members, crashed>>

Ask(reply) == Usable /\ answer' = reply /\ UNCHANGED <<tree, members, crashed>>

\* A mistake: the freed tree stays in use.
RenewKeepsTree ==
  /\ Usable
  /\ members' = {}
  /\ answer' = Pointer(Null)
  /\ UNCHANGED <<tree, crashed>>

\* delete_rbtree frees the nodes it can reach and the sentinel; new_rbtree.
Renew ==
  /\ Usable
  /\ tree' = NewTree
  /\ members' = {}
  /\ answer' = Pointer(Null)
  /\ UNCHANGED crashed

\* Any other call on a tree whose root is NULL: none takes an early return.
Crash ==
  /\ ~crashed /\ tree.root = Null
  /\ crashed' = TRUE
  /\ UNCHANGED <<tree, members, answer>>

Ended == crashed /\ UNCHANGED vars

Next ==
  \/ \E n \in Nodes : \/ \E key \in KeysOf[n] : Insert(n, key)
                      \/ Erase(n)
  \/ InsertFails \/ EraseNull \/ Renew \/ Crash \/ Ended
  \/ \E key \in Asked : Ask(Pointer(RbtreeFind(tree, key)))
  \/ Ask(Pointer(RbtreeMin(tree))) \/ Ask(Pointer(RbtreeMax(tree)))
  \/ \E n \in ArraySizes : Ask(Array(RbtreeToArray(tree, n)))

Spec == Init /\ [][Next]_vars

-----------------------------------------------------------------------------
(* What the tree promises.                                                 *)

\* Fields hold cells, no node points at a cell that was freed, and of the
\* sentinel's words only the parent is ever overwritten.
TypeOK ==
  /\ tree \in Tree
  /\ members \subseteq Nodes
  /\ crashed \in BOOLEAN
  /\ tree.root \in members \union {Nil, Null}
  /\ \A n \in members :
       /\ tree.parent[n] \in members \union {Nil}
       /\ \A s \in Side : tree.child[s][n] \in members \union {Nil}
  /\ \A s \in Side : tree.child[s][Nil] = Nil
  /\ tree.color[Nil] = "black"

\* The tree holds what was inserted and not erased, each cell once, and every
\* child knows its parent (L_rotate, R_rotate, rbtree_transplant).
HoldsMembers ==
  LET walk == Walk(tree) IN
  /\ Len(walk) = Cardinality(members)
  /\ {walk[i] : i \in DOMAIN walk} = members
  /\ tree.root \in members => tree.parent[tree.root] = Nil
  /\ \A n \in members, s \in Side :
       tree.child[s][n] # Nil => tree.parent[tree.child[s][n]] = n

\* In order the keys never decrease: equal keys go right on insertion, but
\* rotations may move them left, where find must still meet one.
Ordered ==
  LET walk == Walk(tree) IN
  \A i \in 1 .. Len(walk) - 1 : tree.key[walk[i]] <= tree.key[walk[i + 1]]

\* Black nodes on the paths down from each node, the sentinel counted: the set of
\* the counts, a singleton when they agree.
BlackHeights(t) ==
  Turns([below \in [Node -> SUBSET Nat] |->
           [n \in Node |-> IF n = Nil THEN {1}
                           ELSE {h + (IF t.color[n] = "black" THEN 1 ELSE 0) :
                                   h \in UNION {below[t.child[s][n]] : s \in Side}}]],
        [n \in Node |-> {1}])

\* The red-black rules the tests check (test_color_constraint): the root is
\* black, a red node has black children, every path down has as many black
\* nodes.
RedBlack ==
  tree.root # Null =>
    /\ tree.color[tree.root] = "black"
    /\ \A n \in members : tree.color[n] = "red" =>
         \A s \in Side : tree.color[tree.child[s][n]] = "black"
    /\ Cardinality(BlackHeights(tree)[tree.root]) = 1

\* The rules of red and black after every insertion and every erasure, with the
\* keys in order, ties included.
ValidTree == RedBlack /\ Ordered

\* Seen through the pointers the client holds, the tree is what OrderedMultiset
\* describes: the key each of them stands for.
Held == [n \in members |-> tree.key[n]]

\* Every call of rbtree.h answers as an ordered multiset does, the failed
\* insertion included.
Multiset == INSTANCE OrderedMultiset WITH Keys <- Asked \union UNION {KeysOf[n] : n \in Nodes},
                                          held <- Held
ImplementsMultiset == Multiset!Spec
=============================================================================
