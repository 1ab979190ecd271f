------------------------------ MODULE RBDriver ------------------------------
(***************************************************************************)
(* rbtree-lab-main/src/driver.c: a menu over one tree.  It reads a choice, *)
(* inserts the numbers of a line or a single one, empties the tree, or     *)
(* ends; after each it prints the tree and checks its rules.  The user may *)
(* type anything or close the input; calloc may fail.                      *)
(***************************************************************************)
EXTENDS RBTree

CONSTANTS
  Lines,    \* what the user may type for choice 1: sequences of numbers
  NoTree    \* the tree that new_rbtree could not make

ASSUME LinesAssumption == Lines \subseteq Seq(Int) /\ NoTree \notin Tree

VARIABLES
  pc,        \* where main is
  menuTree,  \* the tree, or NoTree
  cells,     \* the nodes calloc has handed out and not got back
  line,      \* the tokens of input_buffer not yet inserted
  shown,     \* the keys inOrderIterative printed last
  verdict    \* what validate_rbtree printed last: are the rules kept?

menuVars == <<pc, menuTree, cells, line, shown, verdict>>

\* menu: at scanf of the choice; line, number: at the input of choices 1 and
\* 2; inserting: in the strtok loop; show: after the switch; spinning: in a
\* getchar loop at the end of the input.
Places == {"menu", "line", "number", "inserting", "show", "spinning", "done", "crashed"}
Stopped == {"done", "crashed"}

MenuInit ==
  /\ menuTree = NewTree /\ pc = "menu"
  /\ cells = {} /\ line = <<>> /\ shown = <<>> /\ verdict = TRUE

\* allFreeInTree: the nodes reached from the root are freed.
Reached(t) == {Walk(t)[i] : i \in DOMAIN Walk(t)}

\* A word, or a number that is no choice: main asks again.
BadChoice == pc = "menu" /\ UNCHANGED menuVars

Choose(place) ==
  /\ pc = "menu"
  /\ pc' = place
  /\ UNCHANGED <<menuTree, cells, line, shown, verdict>>

\* The input is closed: scanf fails, and getchar never returns a newline.
CloseInput ==
  /\ pc \in {"menu", "line", "number"}
  /\ pc' = "spinning"
  /\ UNCHANGED <<menuTree, cells, line, shown, verdict>>

TypeLine(tokens) ==
  /\ pc = "line"
  /\ line' = tokens
  /\ pc' = "inserting"
  /\ UNCHANGED <<menuTree, cells, shown, verdict>>

\* rbtree_insert of key with or without a cell for it; a tree without a root
\* is read through NULL.
InsertKey(key, place) ==
  \/ /\ menuTree.root = Null
     /\ pc' = "crashed"
     /\ UNCHANGED <<menuTree, cells>>
  \/ /\ menuTree.root # Null
     /\ pc' = place
     /\ \/ \E n \in Nodes \ cells :
             menuTree' = RbtreeInsert(menuTree, n, key) /\ cells' = cells \union {n}
        \/ menuTree' = RbtreeInsertFails(menuTree) /\ UNCHANGED cells

\* One turn of the strtok loop, and its end.
InsertToken ==
  /\ pc = "inserting"
  /\ line # <<>>
  /\ InsertKey(Head(line), "inserting")
  /\ line' = Tail(line)
  /\ UNCHANGED <<shown, verdict>>
EndOfLine ==
  /\ pc = "inserting" /\ line = <<>>
  /\ pc' = "show"
  /\ UNCHANGED <<menuTree, cells, line, shown, verdict>>

\* Choice 2: a number is inserted, anything else is refused.
TypeNumber(key) ==
  /\ pc = "number"
  /\ InsertKey(key, "show")
  /\ UNCHANGED <<line, shown, verdict>>
TypeWord ==
  /\ pc = "number"
  /\ pc' = "show"
  /\ UNCHANGED <<menuTree, cells, line, shown, verdict>>

\* A mistake: only the root's node is freed.
FreedRootOnly(t) == {t.root} \ {Nil, Null}

\* What allFreeInTree frees: every node it reaches, children first.
Freed(t) == Reached(t)

\* delete_rbtree: allFreeInTree reads the root's children.
Delete(place) ==
  IF menuTree.root = Null THEN pc' = "crashed" /\ UNCHANGED cells
  ELSE pc' = place /\ cells' = cells \ Freed(menuTree)

\* Choice 3: delete_rbtree and new_rbtree, which may return NULL.
Clear ==
  /\ pc = "menu"
  /\ Delete("show")
  /\ menuTree' \in {NewTree, NoTree}
  /\ UNCHANGED <<line, shown, verdict>>

\* Choice 0.
Quit ==
  /\ pc = "menu"
  /\ Delete("done")
  /\ menuTree' = NoTree
  /\ UNCHANGED <<line, shown, verdict>>

\* check_red_children_are_black of each node.
CheckRedChildrenAreBlack(t) ==
  Turns([kept \in [Node -> BOOLEAN] |->
           [n \in Node |->
              \/ n = Nil
              \/ \A s \in Side : /\ t.color[n] = "red" => t.color[t.child[s][n]] # "red"
                                /\ kept[t.child[s][n]]]],
        [n \in Node |-> TRUE])

\* get_black_height of each node, -1 where two sides differ.
GetBlackHeight(t) ==
  Turns([height \in [Node -> Int] |->
           [n \in Node |->
              LET left  == height[t.child["left"][n]]
                  right == height[t.child["right"][n]]
              IN IF n = Nil THEN 1
                 ELSE IF left = -1 \/ left # right THEN -1
                 ELSE left + (IF t.color[n] = "black" THEN 1 ELSE 0)]],
        [n \in Node |-> 1])

\* validate_rbtree.
ValidateRbtree(t) ==
  \/ t.root = Nil
  \/ /\ t.color[t.root] = "black"
     /\ CheckRedChildrenAreBlack(t)[t.root]
     /\ GetBlackHeight(t)[t.root] # -1

\* inOrderIterative below each node.
InOrderKeys(t) ==
  Turns([keys \in [Node -> Seq(Int)] |->
           [n \in Node |-> IF n = Nil THEN <<>>
                           ELSE keys[t.child["left"][n]] \o <<t.key[n]>>
                                \o keys[t.child["right"][n]]]],
        [n \in Node |-> <<>>])

\* The end of a turn of main's loop; there may be no tree, or no root.
Show ==
  /\ pc = "show"
  /\ IF menuTree = NoTree \/ menuTree.root = Null
     THEN pc' = "crashed" /\ UNCHANGED <<shown, verdict>>
     ELSE /\ pc' = "menu"
          /\ shown' = InOrderKeys(menuTree)[menuTree.root]
          /\ verdict' = ValidateRbtree(menuTree)
  /\ UNCHANGED <<menuTree, cells, line>>

User ==
  \/ BadChoice \/ CloseInput \/ TypeWord \/ Clear \/ Quit
  \/ Choose("line") \/ Choose("number")
  \/ \E tokens \in Lines : TypeLine(tokens)
  \/ \E key \in UNION {{l[i] : i \in DOMAIN l} : l \in Lines} : TypeNumber(key)

Program == InsertToken \/ EndOfLine \/ Show

\* The end of the input keeps getchar's loop turning; a stopped program stays.
Idle == pc \in {"spinning"} \union Stopped /\ UNCHANGED menuVars

MenuNext == User \/ Program \/ Idle

MenuSpec == MenuInit /\ [][MenuNext]_menuVars

-----------------------------------------------------------------------------

MenuTypeOK ==
  /\ pc \in Places
  /\ menuTree \in Tree \union {NoTree}
  /\ cells \subseteq Nodes
  /\ menuTree # NoTree => menuTree.root \in cells \union {Nil, Null}
  /\ line \in Seq(Int) /\ shown \in Seq(Int)

\* Every cell calloc handed out is in the tree, and none is left when the
\* program ends: delete_rbtree, before a new tree and at the end, loses no node
\* (README.md:11 of the lab: all memory is given back).
NothingLeaked ==
  /\ pc \notin Stopped /\ menuTree # NoTree => cells = Reached(menuTree)
  /\ pc = "done" \/ menuTree = NoTree => cells = {}

\* The program's own check never finds a rule broken, and what it prints is in
\* order: the checks of driver.c agree with the tree for every input.
ShowsAValidTree ==
  /\ verdict
  /\ \A i \in 1 .. Len(shown) - 1 : shown[i] <= shown[i + 1]

\* The menu gives back every node, and shows a tree that keeps the rules.
MenuRight == MenuTypeOK /\ NothingLeaked /\ ShowsAValidTree
=============================================================================
