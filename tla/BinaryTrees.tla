---------------------------- MODULE BinaryTrees ----------------------------
(***************************************************************************)
(* Data-Structures-master/Binary_Tree: eight menu programs that build a    *)
(* binary tree by asking for the children of each node in turn, answer one *)
(* question about it and give it back.                                     *)
(***************************************************************************)
EXTENDS Integers, Sequences, FiniteSets, SequencesExt, TLC

CONSTANTS
  Programs,      \* the files: a subset of {"Q1", ..., "Q8"}
  Items,         \* the integers that may be typed
  Node,          \* addresses malloc may return
  NULL,          \* also what is typed for no child: "Any Alpha value"
  IntMax,        \* 2147483647
  MayFail        \* whether malloc may return NULL

BinaryTreesAssumption ==
  /\ Programs \subseteq {"Q1", "Q2", "Q3", "Q4", "Q5", "Q6", "Q7", "Q8"}
  /\ Items \subseteq Int /\ IntMax \in Int /\ \A i \in Items : i <= IntMax
  /\ IsFiniteSet(Node) /\ NULL \notin Node \cup Items /\ MayFail \in BOOLEAN

VARIABLES
  program,       \* the one that runs
  mem,           \* the allocated BTNodes: address -> [item, left, right]
  roots,         \* root, and Q1's second
  which,         \* the one createTree is building
  temp, stk,     \* createTree's local and its stack
  pc,
  answer,        \* the number or the sequence that is shown
  asked,         \* ghost: how many questions createTree has put
  failed,        \* ghost: a push has found no memory
  before         \* ghost: the tree before it was mirrored

building == <<which, temp, stk, asked, failed>>
vars == <<program, mem, roots, building, pc, answer, before>>

-----------------------------------------------------------------------------

RECURSIVE Below(_, _)
Below(m, n) == IF n = NULL THEN {} ELSE {n} \cup Below(m, m[n].left) \cup Below(m, m[n].right)

\* Where each item is: the turns taken from the root, and the item.
RECURSIVE Places(_, _)
Places(m, n) ==
  IF n = NULL THEN {}
  ELSE {<< <<>>, m[n].item >>}
       \cup {<< <<"left">> \o p[1], p[2] >> : p \in Places(m, m[n].left)}
       \cup {<< <<"right">> \o p[1], p[2] >> : p \in Places(m, m[n].right)}

RECURSIVE PreOrder(_, _)
PreOrder(m, n) ==
  IF n = NULL THEN <<>>
  ELSE <<m[n].item>> \o PreOrder(m, m[n].left) \o PreOrder(m, m[n].right)

Depth(m, n) == Cardinality({a \in DOMAIN m : n \in Below(m, a)})

Larger(a, b) == IF a > b THEN a ELSE b
Smaller(a, b) == IF a > b THEN b ELSE a

-----------------------------------------------------------------------------
(* The menu and createTree.                                                *)

Init ==
  /\ program \in Programs
  /\ mem = <<>> /\ roots = <<NULL, NULL>> /\ which = 1 /\ temp = NULL /\ stk = <<>>
  /\ pc = "menu" /\ answer = NULL /\ asked = 0 /\ failed = FALSE /\ before = {}

\* removeAll of the trees in S.
RemoveAll(S) ==
  /\ mem' = [a \in DOMAIN mem \ UNION {Below(mem, roots[t]) : t \in S} |-> mem[a]]
  /\ roots' = [t \in 1..2 |-> IF t \in S THEN NULL ELSE roots[t]]

\* Options 1 and, in Q1, 2: the old tree is given back first.
Create(t) ==
  /\ pc = "menu" /\ (t = 2 => program = "Q1")
  /\ RemoveAll({t})
  /\ which' = t /\ temp' = NULL /\ stk' = <<>> /\ asked' = 0 /\ failed' = FALSE
  /\ pc' = "root"
  /\ UNCHANGED <<program, answer, before>>

\* createBTNode: where the next node comes from, none once the memory is used.
Fresh == IF DOMAIN mem = Node THEN {} ELSE {CHOOSE a \in Node \ DOMAIN mem : TRUE}
Leaf(item) == [item |-> item, left |-> NULL, right |-> NULL]

\* It does not look whether malloc gave it anything.
CreateBTNodeFails ==
  /\ MayFail /\ pc \in {"root", "left", "right"}
  /\ pc' = "crashed"
  /\ UNCHANGED <<program, mem, roots, building, answer, before>>

\* push: a node the stack has no memory for is dropped.
Pushed(s, n) == {<<n>> \o s} \cup (IF MayFail THEN {s} ELSE {})

AskRoot ==
  /\ pc = "root"
  /\ \/ \E item \in Items, n \in Fresh :
          /\ mem' = mem @@ (n :> Leaf(item))
          /\ roots' = [roots EXCEPT ![which] = n]
          /\ stk' \in Pushed(<<>>, n) /\ failed' = (stk' = <<>>)
     \/ UNCHANGED <<mem, roots, stk, failed>>
  /\ asked' = 1 /\ pc' = "pop"
  /\ UNCHANGED <<program, which, temp, answer, before>>

\* pop; the empty stack ends the construction.
PopNode ==
  /\ pc = "pop"
  /\ IF stk = <<>> THEN pc' = "menu" /\ temp' = NULL /\ UNCHANGED stk
     ELSE pc' = "left" /\ temp' = Head(stk) /\ stk' = Tail(stk)
  /\ UNCHANGED <<program, mem, roots, which, asked, failed, answer, before>>

\* A mistake: the question is put again until there is a child.
AskLeftInsists ==
  /\ pc = "left"
  /\ \E item \in Items, n \in Fresh :
       mem' = [mem EXCEPT ![temp].left = n] @@ (n :> Leaf(item))
  /\ asked' = asked + 1 /\ pc' = "right"
  /\ UNCHANGED <<program, roots, which, temp, stk, failed, answer, before>>

AskLeft ==
  /\ pc = "left"
  /\ \/ \E item \in Items, n \in Fresh :
          mem' = [mem EXCEPT ![temp].left = n] @@ (n :> Leaf(item))
     \/ UNCHANGED mem
  /\ asked' = asked + 1 /\ pc' = "right"
  /\ UNCHANGED <<program, roots, which, temp, stk, failed, answer, before>>

\* A mistake: a node without a right child pushes nothing.
AskRightAlone ==
  /\ pc = "right"
  /\ \/ \E item \in Items, n \in Fresh :
          mem' = [mem EXCEPT ![temp].right = n] @@ (n :> Leaf(item))
     \/ UNCHANGED mem
  /\ LET kids == IF mem'[temp].right = NULL THEN <<>>
                 ELSE SelectSeq(<<mem'[temp].left, mem'[temp].right>>, LAMBDA n : n # NULL)
     IN stk' = kids \o stk /\ UNCHANGED failed
  /\ asked' = asked + 1 /\ pc' = "pop"
  /\ UNCHANGED <<program, roots, which, temp, answer, before>>

\* ... and then the children are pushed, the left one on top.
AskRight ==
  /\ pc = "right"
  /\ \/ \E item \in Items, n \in Fresh :
          mem' = [mem EXCEPT ![temp].right = n] @@ (n :> Leaf(item))
     \/ UNCHANGED mem
  /\ LET kids == SelectSeq(<<mem'[temp].left, mem'[temp].right>>, LAMBDA n : n # NULL)
     IN \E S \in IF MayFail THEN SUBSET ToSet(kids) ELSE {ToSet(kids)} :
          /\ stk' = SelectSeq(kids, LAMBDA n : n \in S) \o stk
          /\ failed' = (failed \/ S # ToSet(kids))
  /\ asked' = asked + 1 /\ pc' = "pop"
  /\ UNCHANGED <<program, roots, which, temp, answer, before>>

-----------------------------------------------------------------------------
(* The questions.                                                          *)

RECURSIVE Identical(_, _)
Identical(a, b) ==
  IF a = NULL /\ b = NULL THEN 1
  ELSE IF a = NULL \/ b = NULL THEN 0
  ELSE IF mem[a].item = mem[b].item
       THEN IF Identical(mem[a].left, mem[b].left) = 1 /\ Identical(mem[a].right, mem[b].right) = 1
            THEN 1 ELSE 0
  ELSE 0

RECURSIVE MaxHeight(_)
MaxHeight(n) ==
  IF n = NULL THEN -1 ELSE 1 + Larger(MaxHeight(mem[n].left), MaxHeight(mem[n].right))

\* A mistake: leaves are counted, nodes with one child are not.
RECURSIVE CountLeaves(_)
CountLeaves(n) ==
  IF n = NULL THEN 0
  ELSE (IF (mem[n].left = NULL) = (mem[n].right = NULL) THEN 1 ELSE 0)
       + CountLeaves(mem[n].left) + CountLeaves(mem[n].right)

RECURSIVE CountOneChildNodes(_)
CountOneChildNodes(n) ==
  IF n = NULL THEN 0
  ELSE (IF (mem[n].left # NULL) # (mem[n].right # NULL) THEN 1 ELSE 0)
       + CountOneChildNodes(mem[n].left) + CountOneChildNodes(mem[n].right)

RECURSIVE SumOfOddNodes(_)
SumOfOddNodes(n) ==
  IF n = NULL THEN 0
  ELSE (IF mem[n].item % 2 # 0 THEN mem[n].item ELSE 0)
       + SumOfOddNodes(mem[n].left) + SumOfOddNodes(mem[n].right)

\* A mistake: the left child is overwritten before it is moved.
MirrorTreeNoTemp(n) ==
  [a \in DOMAIN mem |-> IF a \notin Below(mem, n) THEN mem[a]
                        ELSE [mem[a] EXCEPT !.left = mem[a].right]]

\* mirrorTree swaps the children of every node below n.
MirrorTree(n) ==
  [a \in DOMAIN mem |-> IF a \notin Below(mem, n) THEN mem[a]
                        ELSE [mem[a] EXCEPT !.left = mem[a].right, !.right = mem[a].left]]

RECURSIVE SmallerValues(_, _)
SmallerValues(n, m) ==
  IF n = NULL THEN <<>>
  ELSE (IF mem[n].item < m THEN <<mem[n].item>> ELSE <<>>)
       \o SmallerValues(mem[n].left, m) \o SmallerValues(mem[n].right, m)

RECURSIVE SmallestValue(_)
SmallestValue(n) ==
  IF n = NULL THEN IntMax
  ELSE Smaller(mem[n].item, Smaller(SmallestValue(mem[n].left), SmallestValue(mem[n].right)))

\* A mistake: grandchildren are enough.
RECURSIVE HasGrandchild(_)
HasGrandchild(n) ==
  IF n = NULL THEN [height |-> -1, shown |-> <<>>]
  ELSE LET l == HasGrandchild(mem[n].left)
           r == HasGrandchild(mem[n].right)
           h == Larger(l.height, r.height)
       IN [height |-> 1 + h,
           shown |-> l.shown \o r.shown \o (IF h >= 1 THEN <<mem[n].item>> ELSE <<>>)]

\* What hasGreatGrandchild prints on its way back, and the height it returns.
RECURSIVE HasGreatGrandchild(_)
HasGreatGrandchild(n) ==
  IF n = NULL THEN [height |-> -1, shown |-> <<>>]
  ELSE LET l == HasGreatGrandchild(mem[n].left)
           r == HasGreatGrandchild(mem[n].right)
           h == Larger(l.height, r.height)
       IN [height |-> 1 + h,
           shown |-> l.shown \o r.shown \o (IF h >= 2 THEN <<mem[n].item>> ELSE <<>>)]

\* The last option answers; x is the number Q6 asks for.
Answer(name, x) ==
  /\ program = name /\ pc = "menu"
  /\ answer' = x /\ pc' = "answered"
  /\ before' = Places(mem, roots[1])
  /\ UNCHANGED <<program, roots, building>>

Q1Answer == Answer("Q1", Identical(roots[1], roots[2])) /\ UNCHANGED mem
Q2Answer == Answer("Q2", MaxHeight(roots[1])) /\ UNCHANGED mem
Q3Answer == Answer("Q3", CountOneChildNodes(roots[1])) /\ UNCHANGED mem
Q4Answer == Answer("Q4", SumOfOddNodes(roots[1])) /\ UNCHANGED mem
Q5Answer == Answer("Q5", NULL) /\ mem' = MirrorTree(roots[1])
Q6Answer == \E v \in Items : Answer("Q6", [than |-> v, shown |-> SmallerValues(roots[1], v)])
                             /\ UNCHANGED mem
Q7Answer == Answer("Q7", SmallestValue(roots[1])) /\ UNCHANGED mem
Q8Answer == Answer("Q8", HasGreatGrandchild(roots[1]).shown) /\ UNCHANGED mem

Ask ==
  \/ Q1Answer \/ Q2Answer \/ Q3Answer \/ Q4Answer
  \/ Q5Answer \/ Q6Answer \/ Q7Answer \/ Q8Answer

\* Then the trees are given back.  Q2 keeps its height in the variable of the
\* menu's loop, which ends when that is 0.
GiveBack ==
  /\ pc = "answered"
  /\ RemoveAll({1, 2})
  /\ pc' = IF program = "Q2" /\ answer = 0 THEN "quit" ELSE "menu"
  /\ answer' = NULL /\ before' = {}
  /\ UNCHANGED <<program, building>>

\* A mistake: Q1's second tree is forgotten.
QuitOne ==
  /\ pc = "menu"
  /\ RemoveAll({1})
  /\ pc' = "quit"
  /\ UNCHANGED <<program, building, answer, before>>

\* Option 0.
Quit ==
  /\ pc = "menu"
  /\ RemoveAll({1, 2})
  /\ pc' = "quit"
  /\ UNCHANGED <<program, building, answer, before>>

Build == AskRoot \/ PopNode \/ AskLeft \/ AskRight

Next ==
  \/ Create(1) \/ Create(2) \/ Build \/ CreateBTNodeFails
  \/ Ask \/ GiveBack \/ Quit

\* The user who is asked for a node answers.
Spec == Init /\ [][Next]_vars /\ WF_vars(Build)

-----------------------------------------------------------------------------

\* The nodes that hang in the trees are the allocated ones, and a tree is a
\* tree: createTree and the mirror never share or lose a node.
NothingLeaked ==
  /\ DOMAIN mem = Below(mem, roots[1]) \cup Below(mem, roots[2])
  /\ pc = "quit" => mem = <<>>

ATree ==
  \A a \in DOMAIN mem :
    Cardinality({p \in DOMAIN mem : mem[p].left = a}) + Cardinality({p \in DOMAIN mem : mem[p].right = a})
      = (IF a \in {roots[1], roots[2]} THEN 0 ELSE 1)

\* When createTree returns it has asked for both children of every node, unless
\* the stack ran out of memory; then it has still not asked twice.
AsksForEveryNode ==
  pc = "menu" /\ asked > 0 /\ roots[which] # NULL =>
    LET all == 1 + 2 * Cardinality(Below(mem, roots[which]))
    IN IF failed THEN asked < all ELSE asked = all

\* The answers are what the question defines, over the whole set of nodes.
AnswersRight ==
  LET nodes   == Below(mem, roots[1])
      itemsOf == {mem[n].item : n \in nodes}
  IN pc = "answered" =>
       CASE program = "Q1" -> (answer = 1) = (Places(mem, roots[1]) = Places(mem, roots[2]))
         [] program = "Q2" -> /\ \A n \in nodes : Depth(mem, n) <= answer + 1
                              /\ nodes = {} \/ \E n \in nodes : Depth(mem, n) = answer + 1
         [] program = "Q3" -> answer = Cardinality({n \in nodes : Cardinality({mem[n].left, mem[n].right} \ {NULL}) = 1})
         [] program = "Q4" -> answer = FoldSet(LAMBDA n, s : s + mem[n].item, 0, {n \in nodes : mem[n].item % 2 = 1})
         [] program = "Q5" -> before = {<< [i \in DOMAIN p[1] |-> IF p[1][i] = "left" THEN "right" ELSE "left"], p[2] >> :
                                         p \in Places(mem, roots[1])}
         [] program = "Q6" -> answer.shown = SelectSeq(PreOrder(mem, roots[1]), LAMBDA i : i < answer.than)
         [] program = "Q7" -> IF nodes = {} THEN answer = IntMax
                              ELSE answer \in itemsOf /\ \A i \in itemsOf : answer <= i
         [] program = "Q8" -> LET grand == {n \in nodes : \E d \in Below(mem, n) : Depth(mem, d) = Depth(mem, n) + 3}
                              IN /\ Len(answer) = Cardinality(grand)
                                 /\ ToSet(answer) = {mem[n].item : n \in grand}

\* createTree ends: it never goes round a node again.
Built == pc \in {"root", "left", "right", "pop"} ~> pc \in {"menu", "crashed"}
=============================================================================
