---------------------------- MODULE SearchTrees ----------------------------
(***************************************************************************)
(* Data-Structures-master/Binary_Search_Tree: five menu programs over one  *)
(* binary search tree, each with a traversal that keeps its own stack or   *)
(* queue instead of recurring.  A traversal is one action per turn of its  *)
(* loops; Q5's program can also take a key out.                            *)
(***************************************************************************)
EXTENDS Integers, Sequences, FiniteSets, SequencesExt, TLC

CONSTANTS
  Programs,      \* the files: a subset of {"Q1", "Q2", "Q3", "Q4", "Q5"}
  Keys,          \* the integers that may be typed
  Node,          \* addresses malloc may return
  NULL,
  MayFail,       \* whether malloc may return NULL
  Garbage        \* what Q4's uninitialised last may hold

SearchTreesAssumption ==
  /\ Programs \subseteq {"Q1", "Q2", "Q3", "Q4", "Q5"} /\ Keys \subseteq Int
  /\ IsFiniteSet(Node) /\ NULL \notin Node /\ MayFail \in BOOLEAN
  /\ Garbage \subseteq Node \cup {NULL}

VARIABLES
  program,       \* the one that runs
  mem,           \* the allocated BSTNodes: address -> [item, left, right]
  root,
  pc,            \* "menu", inside a traversal, "quit" or "crashed"
  cur, last,     \* a traversal's locals
  stk, stk2,     \* its stack s (or s1, or the queue) and its stack s2
  out,           \* what it has printed
  keys,          \* ghost: the keys the tree is to hold
  misled,        \* ghost: Q4 has met its unset last where the right child was
  failed         \* ghost: a malloc has failed

locals == <<cur, last, stk, stk2>>
vars == <<program, mem, root, pc, locals, out, keys, misled, failed>>

-----------------------------------------------------------------------------
(* The traversals and the set of nodes, as definitions over the tree.      *)

RECURSIVE Below(_, _)
Below(m, n) == IF n = NULL THEN {} ELSE {n} \cup Below(m, m[n].left) \cup Below(m, m[n].right)

RECURSIVE InOrder(_, _)
InOrder(m, n) ==
  IF n = NULL THEN <<>>
  ELSE InOrder(m, m[n].left) \o <<m[n].item>> \o InOrder(m, m[n].right)

RECURSIVE PreOrder(_, _)
PreOrder(m, n) ==
  IF n = NULL THEN <<>>
  ELSE <<m[n].item>> \o PreOrder(m, m[n].left) \o PreOrder(m, m[n].right)

RECURSIVE PostOrder(_, _)
PostOrder(m, n) ==
  IF n = NULL THEN <<>>
  ELSE PostOrder(m, m[n].left) \o PostOrder(m, m[n].right) \o <<m[n].item>>

\* The items at depth d, from left to right.
RECURSIVE Level(_, _, _)
Level(m, n, d) ==
  IF n = NULL THEN <<>>
  ELSE IF d = 0 THEN <<m[n].item>>
  ELSE Level(m, m[n].left, d - 1) \o Level(m, m[n].right, d - 1)
LevelOrder(m, n) ==
  FlattenSeq([d \in 1..Cardinality(Below(m, n)) |-> Level(m, n, d - 1)])

-----------------------------------------------------------------------------
(* The tree.                                                               *)

Init ==
  /\ program \in Programs
  /\ mem = <<>> /\ root = NULL /\ pc = "menu"
  /\ cur = NULL /\ last = NULL /\ stk = <<>> /\ stk2 = <<>> /\ out = <<>>
  /\ keys = {} /\ misled = FALSE /\ failed = FALSE

Item(n) == mem[n].item
Left(n) == mem[n].left
Right(n) == mem[n].right

\* insertBSTNode below n: the memory and what the pointer to n becomes; new is
\* what malloc returns should it be asked.
RECURSIVE InsertBSTNode(_, _, _, _)
InsertBSTNode(m, n, value, new) ==
  IF n = NULL THEN
    <<IF new = NULL THEN m ELSE m @@ (new :> [item |-> value, left |-> NULL, right |-> NULL]), new>>
  ELSE IF value < m[n].item THEN
    LET r == InsertBSTNode(m, m[n].left, value, new)
    IN <<[r[1] EXCEPT ![n].left = r[2]], n>>
  ELSE IF value > m[n].item THEN
    LET r == InsertBSTNode(m, m[n].right, value, new)
    IN <<[r[1] EXCEPT ![n].right = r[2]], n>>
  ELSE <<m, n>>

\* Option 1.
Insert(value) ==
  /\ pc = "menu"
  /\ \E new \in (IF MayFail THEN {NULL} ELSE {})
                \cup (IF DOMAIN mem = Node THEN {} ELSE {CHOOSE a \in Node \ DOMAIN mem : TRUE}) :
       /\ LET r == InsertBSTNode(mem, root, value, new)
          IN mem' = r[1] /\ root' = r[2]
       /\ keys' = IF new = NULL THEN keys ELSE keys \cup {value}
  /\ UNCHANGED <<program, pc, locals, out, misled, failed>>

Without(m, n) == [a \in DOMAIN m \ {n} |-> m[a]]

RECURSIVE FindInorderSuccessor(_, _)
FindInorderSuccessor(m, n) ==
  IF m[n].left = NULL THEN n ELSE FindInorderSuccessor(m, m[n].left)

\* A mistake: the successor's item moves up and the successor stays.
RECURSIVE RemoveNodeKeepsSuccessor(_, _, _)
RemoveNodeKeepsSuccessor(m, n, value) ==
  IF n = NULL THEN <<m, NULL>>
  ELSE IF value < m[n].item THEN
    LET r == RemoveNodeKeepsSuccessor(m, m[n].left, value)
    IN <<[r[1] EXCEPT ![n].left = r[2]], n>>
  ELSE IF value > m[n].item THEN
    LET r == RemoveNodeKeepsSuccessor(m, m[n].right, value)
    IN <<[r[1] EXCEPT ![n].right = r[2]], n>>
  ELSE IF m[n].left = NULL THEN <<Without(m, n), m[n].right>>
  ELSE IF m[n].right = NULL THEN <<Without(m, n), m[n].left>>
  ELSE <<[m EXCEPT ![n].item = m[FindInorderSuccessor(m, m[n].right)].item], n>>

\* removeNodeFromTree: a node with two children takes its successor's item and
\* the successor's key is removed from the right subtree.
RECURSIVE RemoveNodeFromTree(_, _, _)
RemoveNodeFromTree(m, n, value) ==
  IF n = NULL THEN <<m, NULL>>
  ELSE IF value < m[n].item THEN
    LET r == RemoveNodeFromTree(m, m[n].left, value)
    IN <<[r[1] EXCEPT ![n].left = r[2]], n>>
  ELSE IF value > m[n].item THEN
    LET r == RemoveNodeFromTree(m, m[n].right, value)
    IN <<[r[1] EXCEPT ![n].right = r[2]], n>>
  ELSE IF m[n].left = NULL THEN <<Without(m, n), m[n].right>>
  ELSE IF m[n].right = NULL THEN <<Without(m, n), m[n].left>>
  ELSE LET item == m[FindInorderSuccessor(m, m[n].right)].item
           r    == RemoveNodeFromTree([m EXCEPT ![n].item = item], m[n].right, item)
       IN <<[r[1] EXCEPT ![n].right = r[2]], n>>

\* Q5's option 4 removes a key and prints the new root's item, with no look at
\* whether there still is a root.
RemoveKey(value) ==
  /\ program = "Q5" /\ pc = "menu"
  /\ LET r == RemoveNodeFromTree(mem, root, value)
     IN mem' = r[1] /\ root' = r[2]
  /\ keys' = keys \ {value}
  /\ pc' = IF root' = NULL THEN "crashed" ELSE "menu"
  /\ UNCHANGED <<program, locals, out, misled, failed>>

\* A mistake: the right subtrees stay allocated.
QuitLeftOnly ==
  /\ pc = "menu"
  /\ mem' = [a \in DOMAIN mem \ Below([n \in DOMAIN mem |-> [mem[n] EXCEPT !.right = NULL]], root) |-> mem[a]]
  /\ root' = NULL /\ keys' = {} /\ pc' = "quit"
  /\ UNCHANGED <<program, locals, out, misled, failed>>

\* Option 0: removeAll frees what is below the root.
Quit ==
  /\ pc = "menu"
  /\ mem' = [a \in DOMAIN mem \ Below(mem, root) |-> mem[a]]
  /\ root' = NULL /\ keys' = {} /\ pc' = "quit"
  /\ UNCHANGED <<program, locals, out, misled, failed>>

\* Q5's option 3: printSimpleTree prints every node before its subtrees.
PrintSimpleTree ==
  /\ program = "Q5" /\ pc = "menu"
  /\ out' = PreOrder(mem, root)
  /\ pc' = "shown"
  /\ UNCHANGED <<program, mem, root, locals, keys, misled, failed>>

-----------------------------------------------------------------------------
(* The traversals.                                                         *)

steady == <<program, mem, root, keys, misled>>

\* push and enqueue: without memory the node is dropped, and nobody is told.
Push(s, n, t) == t \in {<<n>> \o s} \cup (IF MayFail THEN {s} ELSE {})
Enqueue(q, n, t) == t \in {Append(q, n)} \cup (IF MayFail THEN {q} ELSE {})
Dropped(s, t) == Len(t) = Len(s)

\* An empty tree is answered at once.
Start(name, place) ==
  /\ program = name /\ pc = "menu"
  /\ out' = <<>>
  /\ pc' = IF root = NULL THEN "empty" ELSE place
  /\ UNCHANGED steady

Printed(n) == out' = Append(out, Item(n))

\* Q1: the root is printed and queued; then a node's children are, as it
\* leaves the queue.
LevelOrderStart ==
  /\ Start("Q1", "root") /\ stk' = <<>> /\ UNCHANGED <<cur, last, stk2, failed>>

LevelOrderRoot ==
  /\ pc = "root"
  /\ Printed(root) /\ (\E t \in {<<>>, <<root>>} : Enqueue(stk, root, t) /\ stk' = t)
  /\ failed' = Dropped(stk, stk')
  /\ pc' = "level"
  /\ UNCHANGED <<steady, cur, last, stk2>>

\* A mistake: only one child is queued.
LevelOrderTurnOne ==
  /\ pc = "level"
  /\ IF stk = <<>> THEN pc' = "done" /\ UNCHANGED <<locals, out, failed>>
     ELSE LET temp == Head(stk)
              kids == SelectSeq(<<Left(temp), Right(temp)>>, LAMBDA n : n # NULL)
          IN /\ out' = out \o [i \in DOMAIN kids |-> Item(kids[i])]
             /\ stk' = Tail(stk) \o SubSeq(kids, 1, IF Len(kids) > 1 THEN 1 ELSE Len(kids))
             /\ UNCHANGED <<pc, cur, last, stk2, failed>>
  /\ UNCHANGED steady

LevelOrderTurn ==
  /\ pc = "level"
  /\ IF stk = <<>> THEN pc' = "done" /\ UNCHANGED <<locals, out, failed>>
     ELSE LET temp == Head(stk)
              kids == SelectSeq(<<Left(temp), Right(temp)>>, LAMBDA n : n # NULL)
          IN /\ out' = out \o [i \in DOMAIN kids |-> Item(kids[i])]
             /\ \E into \in IF MayFail THEN {SelectSeq(kids, LAMBDA n : n \in S) : S \in SUBSET Node}
                            ELSE {kids} :
                  /\ stk' = Tail(stk) \o into
                  /\ failed' = (failed \/ into # kids)
             /\ UNCHANGED <<pc, cur, last, stk2>>
  /\ UNCHANGED steady

\* Q2: down to the left, pushing; then a node comes off, is printed, and its
\* right subtree is next.
InOrderStart ==
  /\ Start("Q2", "in") /\ stk' = <<>> /\ cur' = root /\ UNCHANGED <<last, stk2, failed>>

InOrderTurn ==
  /\ pc = "in"
  /\ \/ /\ cur = NULL /\ stk = <<>>
        /\ pc' = "done" /\ UNCHANGED <<locals, out, failed>>
     \/ /\ cur # NULL
        /\ \E t \in {stk, <<cur>> \o stk} :
             Push(stk, cur, t) /\ stk' = t /\ failed' = (failed \/ Dropped(stk, t))
        /\ cur' = Left(cur)
        \* the inner loop ends with a pop, of an empty stack when no push succeeded
        /\ pc' = IF cur' = NULL /\ stk' = <<>> THEN "crashed" ELSE "in"
        /\ UNCHANGED <<last, stk2, out>>
     \/ /\ cur = NULL /\ stk # <<>>
        /\ stk' = Tail(stk) /\ Printed(Head(stk)) /\ cur' = Right(Head(stk))
        /\ UNCHANGED <<pc, last, stk2, failed>>
  /\ UNCHANGED steady

\* Q3: the right child is pushed below the left one.
PreOrderStart ==
  /\ Start("Q3", "pre")
  /\ \E t \in {<<>>, <<root>>} :
       /\ IF root = NULL THEN t = <<>> ELSE Push(<<>>, root, t)
       /\ stk' = t /\ failed' = (root # NULL /\ Dropped(<<>>, t))
  /\ UNCHANGED <<cur, last, stk2>>

\* A mistake: the right child is pushed in the left one's place too.
PreOrderTurnRightTwice ==
  /\ pc = "pre"
  /\ IF stk = <<>> THEN pc' = "done" /\ UNCHANGED <<stk, out, failed>>
     ELSE LET kids == SelectSeq(<<Right(Head(stk)), Right(Head(stk))>>, LAMBDA n : n # NULL)
          IN /\ Printed(Head(stk))
             /\ \E onto \in IF MayFail THEN {SelectSeq(kids, LAMBDA n : n \in S) : S \in SUBSET Node}
                            ELSE {kids} :
                  /\ stk' = onto \o Tail(stk)
                  /\ failed' = (failed \/ onto # kids)
             /\ UNCHANGED pc
  /\ UNCHANGED <<steady, cur, last, stk2>>

PreOrderTurn ==
  /\ pc = "pre"
  /\ IF stk = <<>> THEN pc' = "done" /\ UNCHANGED <<stk, out, failed>>
     ELSE LET kids == SelectSeq(<<Left(Head(stk)), Right(Head(stk))>>, LAMBDA n : n # NULL)
          IN /\ Printed(Head(stk))
             /\ \E onto \in IF MayFail THEN {SelectSeq(kids, LAMBDA n : n \in S) : S \in SUBSET Node}
                            ELSE {kids} :
                  /\ stk' = onto \o Tail(stk)
                  /\ failed' = (failed \/ onto # kids)
             /\ UNCHANGED pc
  /\ UNCHANGED <<steady, cur, last, stk2>>

\* Q4: down to the left, pushing; the node on top is printed when it has no
\* right subtree or has just come from there.
PostOrder1Start ==
  /\ Start("Q4", "post") /\ stk' = <<>> /\ cur' = root
  /\ last' \in Garbage
  /\ UNCHANGED <<stk2, failed>>

PostOrder1Turn ==
  /\ pc = "post"
  /\ \/ /\ cur = NULL /\ stk = <<>>
        /\ pc' = "done" /\ UNCHANGED <<locals, out, misled, failed>>
     \/ /\ cur # NULL
        /\ \E t \in {stk, <<cur>> \o stk} :
             Push(stk, cur, t) /\ stk' = t /\ failed' = (failed \/ Dropped(stk, t))
        /\ cur' = Left(cur)
        /\ UNCHANGED <<pc, last, stk2, out, misled>>
     \/ /\ cur = NULL /\ stk # <<>>
        /\ LET top == Head(stk)
           IN /\ misled' = (misled \/ (out = <<>> /\ Right(top) # NULL /\ Right(top) = last))
              /\ IF Right(top) # NULL /\ Right(top) # last
                 THEN cur' = Right(top) /\ UNCHANGED <<last, stk, out>>
                 ELSE stk' = Tail(stk) /\ Printed(top) /\ last' = top /\ UNCHANGED cur
        /\ UNCHANGED <<pc, stk2, failed>>
  /\ UNCHANGED <<program, mem, root, keys>>

\* Q5: a pre-order that goes right first fills s2, which is then printed.
PostOrder2Start ==
  /\ Start("Q5", "fill")
  /\ \E t \in {<<>>, <<root>>} :
       /\ IF root = NULL THEN t = <<>> ELSE Push(<<>>, root, t)
       /\ stk' = t /\ failed' = (root # NULL /\ Dropped(<<>>, t))
  /\ stk2' = <<>>
  /\ UNCHANGED <<cur, last>>

PostOrder2Turn ==
  /\ pc = "fill"
  /\ IF stk = <<>> THEN pc' = "empty s2" /\ UNCHANGED <<stk, stk2, failed>>
     ELSE LET kids == SelectSeq(<<Right(Head(stk)), Left(Head(stk))>>, LAMBDA n : n # NULL)
          IN /\ \E t \in {stk2, <<Head(stk)>> \o stk2} : Push(stk2, Head(stk), t) /\ stk2' = t
             /\ \E onto \in IF MayFail THEN {SelectSeq(kids, LAMBDA n : n \in S) : S \in SUBSET Node}
                            ELSE {kids} :
                  /\ stk' = onto \o Tail(stk)
                  /\ failed' = (failed \/ onto # kids \/ Dropped(stk2, stk2'))
             /\ UNCHANGED pc
  /\ UNCHANGED <<steady, cur, last, out>>

\* A mistake: the stack is looked at instead of popped.
PostOrder2PrintPeeks ==
  /\ pc = "empty s2"
  /\ IF stk2 = <<>> THEN pc' = "done" /\ UNCHANGED <<stk2, out>>
     ELSE /\ out' = IF Item(Head(stk2)) \in ToSet(out) THEN out ELSE Append(out, Item(Head(stk2)))
          /\ UNCHANGED <<pc, stk2>>
  /\ UNCHANGED <<steady, cur, last, stk, failed>>

PostOrder2Print ==
  /\ pc = "empty s2"
  /\ IF stk2 = <<>> THEN pc' = "done" /\ UNCHANGED <<stk2, out>>
     ELSE stk2' = Tail(stk2) /\ Printed(Head(stk2)) /\ UNCHANGED pc
  /\ UNCHANGED <<steady, cur, last, stk, failed>>

\* Back in the menu.
Menu ==
  /\ pc \in {"done", "empty", "shown"}
  /\ pc' = "menu" /\ out' = <<>> /\ misled' = FALSE /\ failed' = FALSE
  /\ cur' = NULL /\ last' = NULL /\ stk' = <<>> /\ stk2' = <<>>
  /\ UNCHANGED <<program, mem, root, keys>>

Turn ==
  \/ LevelOrderRoot \/ LevelOrderTurn \/ InOrderTurn \/ PreOrderTurn \/ PostOrder1Turn
  \/ PostOrder2Turn \/ PostOrder2Print

Next ==
  \/ (\E k \in Keys : Insert(k) \/ RemoveKey(k)) \/ PrintSimpleTree \/ Quit
  \/ LevelOrderStart \/ InOrderStart \/ PreOrderStart \/ PostOrder1Start \/ PostOrder2Start
  \/ Turn \/ Menu

\* A traversal goes on once it has begun.
Spec == Init /\ [][Next]_vars /\ WF_vars(Turn)

-----------------------------------------------------------------------------

\* The tree holds the keys put in and not taken out, once each and in order,
\* through insertions and removals in any order.
HoldsKeys ==
  pc \notin {"quit"} => /\ InOrder(mem, root) = SetToSortSeq(keys, <)

\* Every allocated node hangs in the tree: none is lost by a removal, and none
\* is left when the program has quit.
NothingLeaked == DOMAIN mem = Below(mem, root)

\* A finished traversal has printed the order it is named for; Q4's too, unless
\* its variable last, which nothing has set before the first node is printed,
\* happened to hold the right child of that node.
Traverses ==
  pc = "done" /\ ~failed /\ ~misled =>
    out = CASE program = "Q1" -> LevelOrder(mem, root)
            [] program = "Q2" -> InOrder(mem, root)
            [] program = "Q3" -> PreOrder(mem, root)
            [] program \in {"Q4", "Q5"} -> PostOrder(mem, root)

\* Even when memory runs out a traversal prints no node twice, and dereferences
\* NULL only in Q2, where the loop pops a stack it could not push on.
FailsSafely ==
  /\ \A i, j \in DOMAIN out : i # j => out[i] # out[j]
  /\ pc = "crashed" => (program = "Q2" /\ failed) \/ (program = "Q5" /\ root = NULL)

\* Every traversal ends.
Ends == pc \in {"root", "level", "in", "pre", "post", "fill", "empty s2"}
          ~> pc \in {"done", "crashed"}
=============================================================================
