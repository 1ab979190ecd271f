------------------------------- MODULE Lists -------------------------------
(***************************************************************************)
(* Data-Structures-master/Linked_List: seven menu programs over singly     *)
(* linked lists.  The list functions they share work on nodes in memory;   *)
(* each program's own function is one step built from them, as the code    *)
(* builds it, loop by loop.                                                *)
(***************************************************************************)
EXTENDS Integers, Sequences, FiniteSets, SequencesExt, TLC

CONSTANTS
  Programs,      \* the files: a subset of {"Q1", ..., "Q7"}
  Items,         \* the integers that may be typed
  Node,          \* addresses malloc may return
  NULL,
  MaxItems       \* a bound on the integers typed into the lists at a time

ListsAssumption ==
  /\ Programs \subseteq {"Q1", "Q2", "Q3", "Q4", "Q5", "Q6", "Q7"}
  /\ Items \subseteq Int /\ NULL \notin Node
  /\ MaxItems \in Nat /\ IsFiniteSet(Node) /\ Cardinality(Node) >= 2 * MaxItems

VARIABLES
  program,       \* the one that runs
  st,            \* the nodes malloc gave, mem, and the LinkedLists, ll
  i, j,          \* Q1's last integer and the index it went to
  pc,            \* "menu", "shown" (a result is on the screen), "told", "quit"
  before         \* ghost: the lists before the last option

vars == <<program, st, i, j, pc, before>>

Names == {"ll", "second", "third", "local"}
Empty == [size |-> 0, head |-> NULL]
NothingBefore == [l \in Names |-> <<>>]

-----------------------------------------------------------------------------
(* The list functions.                                                     *)

\* The nodes from n to the end.
RECURSIVE Chain(_, _)
Chain(m, n) == IF n = NULL THEN <<>> ELSE <<n>> \o Chain(m, m[n].next)

ItemsOf(s, l) == LET c == Chain(s.mem, s.ll[l].head) IN [k \in DOMAIN c |-> s.mem[c[k]].item]

\* findNode walks index links.
RECURSIVE Walk(_, _, _)
Walk(m, n, index) == IF n = NULL \/ index = 0 THEN n ELSE Walk(m, m[n].next, index - 1)
FindNode(s, l, index) ==
  IF index < 0 \/ index >= s.ll[l].size THEN NULL ELSE Walk(s.mem, s.ll[l].head, index)

Fresh(s) == CHOOSE n \in Node \ DOMAIN s.mem : TRUE

\* insertNode: at the head, or behind the node before the index; an index
\* beyond the list changes nothing.
InsertNode(s, l, index, value) ==
  LET new  == Fresh(s)
      head == s.ll[l].head
      pre  == FindNode(s, l, index - 1)
  IN IF index < 0 \/ index > s.ll[l].size + 1 THEN s
     ELSE IF head = NULL \/ index = 0 THEN
       [mem |-> s.mem @@ (new :> [item |-> value, next |-> head]),
        ll  |-> [s.ll EXCEPT ![l] = [size |-> @.size + 1, head |-> new]]]
     ELSE IF pre = NULL THEN s
     ELSE [mem |-> [s.mem EXCEPT ![pre].next = new] @@ (new :> [item |-> value, next |-> s.mem[pre].next]),
           ll  |-> [s.ll EXCEPT ![l].size = @ + 1]]

FreeNodes(m, S) == [n \in DOMAIN m \ S |-> m[n]]

\* A mistake: the size is not counted down.
RemoveNodeKeepsSize(s, l, index) ==
  LET pre == FindNode(s, l, index - 1)
      cur == IF index = 0 THEN s.ll[l].head ELSE s.mem[pre].next
  IN IF index < 0 \/ index >= s.ll[l].size THEN s
     ELSE IF index = 0 THEN
       [mem |-> FreeNodes(s.mem, {cur}), ll |-> [s.ll EXCEPT ![l].head = s.mem[cur].next]]
     ELSE [mem |-> FreeNodes([s.mem EXCEPT ![pre].next = s.mem[cur].next], {cur}), ll |-> s.ll]

RemoveNode(s, l, index) ==
  LET pre == FindNode(s, l, index - 1)
      cur == IF index = 0 THEN s.ll[l].head ELSE s.mem[pre].next
  IN IF index < 0 \/ index >= s.ll[l].size THEN s
     ELSE IF index = 0 THEN
       [mem |-> FreeNodes(s.mem, {cur}),
        ll  |-> [s.ll EXCEPT ![l] = [size |-> @.size - 1, head |-> s.mem[cur].next]]]
     ELSE [mem |-> FreeNodes([s.mem EXCEPT ![pre].next = s.mem[cur].next], {cur}),
           ll  |-> [s.ll EXCEPT ![l].size = @ - 1]]

\* A mistake: the first node is not freed.
RemoveAllButHead(s, l) ==
  [mem |-> FreeNodes(s.mem, ToSet(Chain(s.mem, s.ll[l].head)) \ {s.ll[l].head}),
   ll  |-> [s.ll EXCEPT ![l] = Empty]]

RemoveAllItems(s, l) ==
  [mem |-> FreeNodes(s.mem, ToSet(Chain(s.mem, s.ll[l].head))), ll |-> [s.ll EXCEPT ![l] = Empty]]

-----------------------------------------------------------------------------
(* The programs' functions.                                                *)

\* A mistake: an item that is there already is put in again.
SortedIndexRepeats(s, item) == Len(SelectSeq(ItemsOf(s, "ll"), LAMBDA x : x < item))

\* Q1's insertSortedLL: the index is the number of smaller items, -1 when the
\* item is there.
SortedIndex(s, item) ==
  LET items == ItemsOf(s, "ll")
  IN IF item \in ToSet(items) THEN -1 ELSE Len(SelectSeq(items, LAMBDA x : x < item))

\* Q2's loop, with the number of turns it has left.
RECURSIVE AlternateMerge(_, _, _)
AlternateMerge(s, index, pos_count) ==
  IF s.ll["second"].head = NULL \/ pos_count = 0 THEN s
  ELSE AlternateMerge(RemoveNode(InsertNode(s, "ll", index, s.mem[s.ll["second"].head].item), "second", 0),
                      index + 2, pos_count - 1)

\* A mistake: the index moves on past the item that was taken out.
RECURSIVE SiftSkips(_, _, _, _)
SiftSkips(s, cur, index, parity) ==
  IF cur = NULL THEN s
  ELSE IF s.mem[cur].item % 2 = parity
       THEN SiftSkips(RemoveNode(InsertNode(s, "local", s.ll["local"].size, s.mem[cur].item), "ll", index),
                 s.mem[cur].next, index + 1, parity)
       ELSE SiftSkips(s, s.mem[cur].next, index + 1, parity)

\* The first loop of Q3 and Q4: the items of one parity move to a local list.
RECURSIVE Sift(_, _, _, _)
Sift(s, cur, index, parity) ==
  IF cur = NULL THEN s
  ELSE IF s.mem[cur].item % 2 = parity
       THEN Sift(RemoveNode(InsertNode(s, "local", s.ll["local"].size, s.mem[cur].item), "ll", index),
                 s.mem[cur].next, index, parity)
       ELSE Sift(s, s.mem[cur].next, index + 1, parity)

\* The second: what is behind cur is copied to the end of the list.
RECURSIVE CopyBack(_, _)
CopyBack(s, cur) ==
  IF cur = NULL THEN s
  ELSE CopyBack(InsertNode(s, "ll", s.ll["ll"].size, s.mem[cur].item), s.mem[cur].next)

MoveToBack(s, parity) ==
  LET sifted == Sift(s, s.ll["ll"].head, 0, parity)
  IN RemoveAllItems(CopyBack(sifted, sifted.ll["local"].head), "local")

\* Q5: n items of ll from count on, to the places from at on of another list.
RECURSIVE CopyOut(_, _, _, _, _)
CopyOut(s, l, count, at, n) ==
  IF n = 0 THEN s
  ELSE CopyOut(InsertNode(s, l, at, s.mem[FindNode(s, "ll", count)].item), l, count + 1, at + 1, n - 1)

FrontBackSplit(s) ==
  LET size  == s.ll["ll"].size
      front == (size \div 2) + (size % 2)
  IN CopyOut(CopyOut(s, "second", 0, 0, front), "third", front, 0, size \div 2)

\* Q6's moveMaxToFront unlinks the first greatest node and puts it in front.
MoveMaxToFront(s) ==
  LET c    == Chain(s.mem, s.ll["ll"].head)
      at   == CHOOSE k \in DOMAIN c :
                /\ \A x \in DOMAIN c : s.mem[c[x]].item <= s.mem[c[k]].item
                /\ \A x \in 1..(k - 1) : s.mem[c[x]].item < s.mem[c[k]].item
  IN IF Len(c) < 2 THEN s
     ELSE IF at = 1 THEN s
     ELSE [mem |-> [s.mem EXCEPT ![c[at - 1]].next = s.mem[c[at]].next, ![c[at]].next = c[1]],
           ll  |-> [s.ll EXCEPT !["ll"].head = c[at]]]

\* Q7's RecursiveReverse of the list that starts at h: the memory and the head.
RECURSIVE RecursiveReverse(_, _)
RecursiveReverse(m, h) ==
  IF h = NULL THEN <<m, h>>
  ELSE IF m[h].next = NULL THEN <<m, h>>
  ELSE LET r == RecursiveReverse(m, m[h].next)
       IN <<[r[1] EXCEPT ![m[h].next].next = h, ![h].next = NULL], r[2]>>

-----------------------------------------------------------------------------
(* The menus.                                                              *)

Init ==
  /\ program \in Programs
  /\ st = [mem |-> <<>>, ll |-> [l \in Names |-> Empty]]
  /\ i \in Items /\ j \in {-1, 0}      \* neither is initialized
  /\ pc = "menu"
  /\ before = NothingBefore

Option(name) == program = name /\ pc = "menu"
Typed == st.ll["ll"].size + st.ll["second"].size
KeepLast == UNCHANGED <<program, i, j>>

\* Option 1 of all but Q1, and Q2's option 2: an integer for the list's end.
Append1(l) ==
  /\ program # "Q1" /\ pc = "menu" /\ (l = "second" => program = "Q2")
  /\ Typed < MaxItems
  /\ \E value \in Items : st' = InsertNode(st, l, st.ll[l].size, value)
  /\ UNCHANGED pc /\ KeepLast /\ UNCHANGED before

Q1Insert ==
  /\ Option("Q1") /\ Typed < MaxItems
  /\ i' \in Items
  /\ j' = SortedIndex(st, i')
  /\ st' = IF j' = -1 THEN st ELSE InsertNode(st, "ll", j', i')
  /\ UNCHANGED <<program, pc, before>>

\* Option 2: "The value i was added at index j".
Q1Tell == Option("Q1") /\ pc' = "told" /\ UNCHANGED <<st, before>> /\ KeepLast

\* The list is shown and given back.
Q1Show == Option("Q1") /\ st' = RemoveAllItems(st, "ll") /\ UNCHANGED <<pc, before>> /\ KeepLast

Shows(next) ==
  /\ st' = next /\ before' = [l \in Names |-> ItemsOf(st, l)]
  /\ pc' = "shown" /\ KeepLast

Q2Merge == Option("Q2") /\ Shows(AlternateMerge(st, 1, st.ll["ll"].size))
Q3MoveOdd == Option("Q3") /\ Shows(MoveToBack(st, 1))
Q4MoveEven == Option("Q4") /\ Shows(MoveToBack(st, 0))
Q5Split == Option("Q5") /\ Shows(FrontBackSplit(st))
Q6MoveMax == Option("Q6") /\ Shows(MoveMaxToFront(st))
Q7Reverse ==
  LET r == RecursiveReverse(st.mem, st.ll["ll"].head)
  IN Option("Q7") /\ Shows([mem |-> r[1], ll |-> [st.ll EXCEPT !["ll"].head = r[2]]])

GiveBack(s) == RemoveAllItems(RemoveAllItems(RemoveAllItems(s, "ll"), "second"), "third")

\* After the result has been printed the lists are given back.
Menu ==
  /\ pc \in {"shown", "told"}
  /\ st' = IF pc = "shown" THEN GiveBack(st) ELSE st
  /\ pc' = "menu" /\ before' = NothingBefore
  /\ KeepLast

\* Option 0.
Quit ==
  /\ pc = "menu"
  /\ st' = GiveBack(st) /\ pc' = "quit"
  /\ KeepLast /\ UNCHANGED before

Next ==
  \/ Append1("ll") \/ Append1("second")
  \/ Q1Insert \/ Q1Tell \/ Q1Show
  \/ Q2Merge \/ Q3MoveOdd \/ Q4MoveEven \/ Q5Split \/ Q6MoveMax \/ Q7Reverse
  \/ Menu \/ Quit

Spec == Init /\ [][Next]_vars

-----------------------------------------------------------------------------

\* A list's size is the length of its chain, through every way of taking nodes
\* out and putting them in.
SizesRight == \A l \in Names : st.ll[l].size = Len(Chain(st.mem, st.ll[l].head))

\* Every allocated node is in exactly one list, and none is left at the end.
NothingLeaked ==
  /\ DOMAIN st.mem = UNION {ToSet(Chain(st.mem, st.ll[l].head)) : l \in Names}
  /\ \A k, l \in Names : k # l =>
       ToSet(Chain(st.mem, st.ll[k].head)) \cap ToSet(Chain(st.mem, st.ll[l].head)) = {}
  /\ pc = "quit" => st.mem = <<>>

\* Two sequences by turns, until one of them ends.
Alternated(a, b) ==
  LET n == IF Len(a) < Len(b) THEN Len(a) ELSE Len(b)
  IN FlattenSeq([k \in 1..n |-> <<a[k], b[k]>>]) \o SubSeq(a, n + 1, Len(a))

\* What each program shows is what its menu promises of the lists before.
ShowsTheResult ==
  LET a    == before["ll"]
      b    == before["second"]
      now  == ItemsOf(st, "ll")
      half == (Len(a) + 1) \div 2
  IN pc = "shown" =>
       CASE program = "Q2" -> /\ now = Alternated(a, b)
                              /\ ItemsOf(st, "second") = SubSeq(b, Len(a) + 1, Len(b))
         [] program = "Q3" -> now = SelectSeq(a, LAMBDA x : x % 2 = 0) \o SelectSeq(a, LAMBDA x : x % 2 = 1)
         [] program = "Q4" -> now = SelectSeq(a, LAMBDA x : x % 2 = 1) \o SelectSeq(a, LAMBDA x : x % 2 = 0)
         [] program = "Q5" -> /\ ItemsOf(st, "second") = SubSeq(a, 1, half)
                              /\ ItemsOf(st, "third") = SubSeq(a, half + 1, Len(a))
                              /\ now = a
         [] program = "Q6" -> \/ a = <<>> /\ now = <<>>
                              \/ \E k \in DOMAIN a : /\ \A x \in DOMAIN a : a[x] <= a[k]
                                                     /\ now = <<a[k]>> \o SubSeq(a, 1, k - 1) \o SubSeq(a, k + 1, Len(a))
         [] program = "Q7" -> now = Reverse(a)

\* Q1's list is sorted and holds no integer twice.
StaysSorted ==
  program = "Q1" =>
    LET a == ItemsOf(st, "ll") IN \A k \in 1..(Len(a) - 1) : a[k] < a[k + 1]
=============================================================================
