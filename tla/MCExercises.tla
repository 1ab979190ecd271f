----------------------------- MODULE MCExercises -----------------------------
(***************************************************************************)
(* The programs of Data-Structures-master, one of them in each behaviour.  *)
(* The families with a malloc that may fail are "frail trees" and "frail   *)
(* search trees", on smaller trees.                                        *)
(***************************************************************************)
EXTENDS Integers, Sequences, FiniteSets

CONSTANTS
  Families,          \* those that are looked at
  ListItems,         \* the integers that may be typed into lists, stacks and queues,
  TreeItems,         \* into binary trees
  Keys,              \* and into search trees
  ListNode, TreeNode,
  NULL

VARIABLES
  family, program, pc, st, i, j, before, ll, held, temp, k, value, lost,
  mem, roots, which, stk, answer, asked, failed, root, cur, last, stk2, out, keys, misled

MinInt == -1000
Smaller == TreeNode \ {CHOOSE n \in TreeNode : TRUE}

Lists == INSTANCE Lists WITH
  Programs <- {"Q1", "Q2", "Q3", "Q4", "Q5", "Q6", "Q7"}, Items <- ListItems, Node <- ListNode,
  MaxItems <- 4
StacksQueues == INSTANCE StacksQueues WITH
  Programs <- {"Q1", "Q2", "Q3", "Q4", "Q5", "Q6", "Q7"}, Items <- ListItems,
  Chars <- {"(", ")", "[", "]", "x"}, MIN_INT <- MinInt, MaxItems <- 4
Trees == INSTANCE BinaryTrees WITH
  Programs <- {"Q1", "Q2", "Q3", "Q4", "Q5", "Q6", "Q7", "Q8"}, Items <- TreeItems,
  Node <- TreeNode, IntMax <- 9, MayFail <- FALSE
FrailTrees == INSTANCE BinaryTrees WITH
  Programs <- {"Q3", "Q5"}, Items <- {1}, Node <- TreeNode, IntMax <- 9, MayFail <- TRUE
SearchTrees == INSTANCE SearchTrees WITH
  Programs <- {"Q1", "Q2", "Q3", "Q4", "Q5"}, Node <- TreeNode, MayFail <- FALSE,
  Garbage <- TreeNode \union {NULL}
FrailSearchTrees == INSTANCE SearchTrees WITH
  Programs <- {"Q1", "Q2", "Q3", "Q5"}, Keys <- 1 .. 4, Node <- Smaller, MayFail <- TRUE,
  Garbage <- {NULL}

ASSUME MCAssumption ==
  /\ Lists!ListsAssumption /\ StacksQueues!StacksQueuesAssumption
  /\ Trees!BinaryTreesAssumption /\ FrailTrees!BinaryTreesAssumption
  /\ SearchTrees!SearchTreesAssumption /\ FrailSearchTrees!SearchTreesAssumption

\* The variables of each family that it does not share with all.
listVars == <<st, i, j>>
queueVars == <<ll, held, k, value, lost>>
treeVars == <<roots, which, answer, asked>>
searchVars == <<root, cur, last, stk2, out, keys, misled>>

NoLists == st = 0 /\ i = 0 /\ j = 0
NoQueues == ll = 0 /\ held = 0 /\ k = 0 /\ value = 0 /\ lost = 0
NoTrees == roots = 0 /\ which = 0 /\ answer = 0 /\ asked = 0
NoSearchTrees ==
  root = 0 /\ cur = 0 /\ last = 0 /\ stk2 = 0 /\ out = 0 /\ keys = 0 /\ misled = 0

Init ==
  /\ family \in Families
  /\ \/ /\ family = "lists" /\ Lists!Init
        /\ NoQueues /\ NoTrees /\ NoSearchTrees /\ temp = 0 /\ mem = 0 /\ stk = 0 /\ failed = 0
     \/ /\ family = "queues" /\ StacksQueues!Init
        /\ NoLists /\ NoTrees /\ NoSearchTrees /\ mem = 0 /\ stk = 0 /\ failed = 0
     \/ /\ family = "trees" /\ Trees!Init
        /\ NoLists /\ NoQueues /\ NoSearchTrees
     \/ /\ family = "frail trees" /\ FrailTrees!Init
        /\ NoLists /\ NoQueues /\ NoSearchTrees
     \/ /\ family = "search trees" /\ SearchTrees!Init
        /\ NoLists /\ NoQueues /\ NoTrees /\ temp = 0 /\ before = 0
     \/ /\ family = "frail search trees" /\ FrailSearchTrees!Init
        /\ NoLists /\ NoQueues /\ NoTrees /\ temp = 0 /\ before = 0

Next ==
  /\ UNCHANGED family
  /\ \/ /\ family = "lists" /\ Lists!Next
        /\ UNCHANGED <<queueVars, treeVars, searchVars, temp, mem, stk, failed>>
     \/ /\ family = "queues" /\ StacksQueues!Next
        /\ UNCHANGED <<listVars, treeVars, searchVars, mem, stk, failed>>
     \/ /\ family = "trees" /\ Trees!Next
        /\ UNCHANGED <<listVars, queueVars, searchVars>>
     \/ /\ family = "frail trees" /\ FrailTrees!Next
        /\ UNCHANGED <<listVars, queueVars, searchVars>>
     \/ /\ family = "search trees" /\ SearchTrees!Next
        /\ UNCHANGED <<listVars, queueVars, treeVars, temp, before>>
     \/ /\ family = "frail search trees" /\ FrailSearchTrees!Next
        /\ UNCHANGED <<listVars, queueVars, treeVars, temp, before>>

vars == <<family, program, pc, listVars, queueVars, treeVars, searchVars,
          before, temp, mem, stk, failed>>

\* A program that is in a loop goes on; the user who is asked for a node
\* answers.
Fairness ==
  /\ WF_vars(/\ family = "queues" /\ StacksQueues!Turn
             /\ UNCHANGED <<family, listVars, treeVars, searchVars, mem, stk, failed>>)
  /\ WF_vars(/\ family = "trees" /\ Trees!Build
             /\ UNCHANGED <<family, listVars, queueVars, searchVars>>)
  /\ WF_vars(/\ family = "search trees" /\ SearchTrees!Turn
             /\ UNCHANGED <<family, listVars, queueVars, treeVars, temp, before>>)

Spec == Init /\ [][Next]_vars /\ Fairness

-----------------------------------------------------------------------------

\* Lists and trees are well formed: a list's size field is the length of its
\* chain, Q1's list stays sorted and holds nothing twice, createTree and the
\* mirror build trees whose nodes have one parent, and the search tree holds the
\* keys in order through insertions and removals.
WellFormed ==
  /\ family = "lists" => Lists!SizesRight /\ Lists!StaysSorted
  /\ family = "trees" => Trees!ATree
  /\ family = "search trees" => SearchTrees!HoldsKeys

\* What is shown is what the menu promises of the lists, stacks, queues or trees
\* that were there when the option was chosen: contents, answers, traversals.
\* Left out are Q1's and Q2's second creation, which StartsFromEmpty is about, and
\* strings for Q7 whose only fault is a bracket closed by another kind.
ShowsTheResult ==
  /\ family = "lists" => Lists!ShowsTheResult
  /\ family = "queues" => StacksQueues!ShowsTheResult
  /\ family = "trees" => Trees!AnswersRight
  /\ family = "search trees" => SearchTrees!Traverses

\* Every node is held once, and given back at the end.
NothingLeaked ==
  /\ family = "lists" => Lists!NothingLeaked
  /\ family = "queues" => StacksQueues!NothingLeaked
  /\ family = "trees" => Trees!NothingLeaked
  /\ family = "search trees" => SearchTrees!NothingLeaked

\* A push that finds no memory repeats nothing: createTree asks once for each
\* child, and no traversal prints a node twice or reads through NULL.
FailsSafely ==
  /\ family = "trees" => Trees!AsksForEveryNode
  /\ family = "frail trees" => FrailTrees!AsksForEveryNode
  /\ family = "search trees" => SearchTrees!FailsSafely
  /\ family = "frail search trees" => FrailSearchTrees!FailsSafely

\* Calls on stacks and queues return, trees get built and traversals end.
CallsReturn ==
  /\ family = "queues" => StacksQueues!CallsReturn
  /\ family = "trees" => Trees!Built
  /\ family = "search trees" => SearchTrees!Ends

\* A second creation starts from an empty queue or stack.
StartsFromEmpty == family = "queues" => StacksQueues!StartsFromEmpty
=============================================================================
