---------------------------- MODULE StacksQueues ----------------------------
(***************************************************************************)
(* Data-Structures-master/Stack_and_Queue: seven menu programs over stacks *)
(* and queues.  Both are the linked list of the list programs (see Lists), *)
(* here the sequence of its items: a stack's top and a queue's front are   *)
(* its first item.  A step is one turn of a loop.                          *)
(***************************************************************************)
EXTENDS Integers, Sequences, SequencesExt, FiniteSets

CONSTANTS
  Programs,      \* the files: a subset of {"Q1", ..., "Q7"}
  Items,         \* the integers that may be typed
  Chars,         \* the characters of Q7's string
  MIN_INT,       \* what pop returns of an empty stack
  MaxItems       \* a bound on the integers or characters typed at a time

StacksQueuesAssumption ==
  /\ Programs \subseteq {"Q1", "Q2", "Q3", "Q4", "Q5", "Q6", "Q7"}
  /\ MaxItems \in Nat /\ MIN_INT \in Int
  /\ Items \subseteq {n \in Int : n > MIN_INT + 1}

VARIABLES
  program,       \* the one that runs
  pc,            \* "menu", the loop it is in, "shown" (a result), "quit", "exit", "crashed"
  ll,            \* Q1's and Q2's linked list
  held,          \* the queue or the stack; Q7's string
  temp,          \* s_temp, or the frames of Q5's recursion
  k,             \* the items of ll, the turns or the characters still to go
  value,         \* what Q6 looks for; what Q3 and Q7 return
  before,        \* ghost: held when the option was chosen
  lost           \* ghost: the call left a stack behind

vars == <<program, pc, ll, held, temp, k, value, before, lost>>

Openers == {"(", "[", "{"}
Closers == {")", "]", "}"}

\* The code of a character divided by ten.
Tens(c) == CASE c \in {"(", ")"} -> 4 [] c \in {"[", "]"} -> 9 [] c \in {"{", "}"} -> 12

Enqueue(s, x) == Append(s, x)
Push(s, x) == <<x>> \o s
Rest(s) == IF s = <<>> THEN s ELSE Tail(s)       \* pop and dequeue change nothing of an empty list
Pop(s) == IF s = <<>> THEN MIN_INT ELSE Head(s)
Peek(s) == IF s = <<>> THEN MIN_INT ELSE Head(s)

Init ==
  /\ program \in Programs /\ pc = "menu"
  /\ ll = <<>> /\ held = <<>> /\ temp = <<>>
  /\ k = 0 /\ value = 0
  /\ before = <<>> /\ lost = FALSE

In(p, at) == program \in p /\ pc = at

-----------------------------------------------------------------------------
(* The menus.                                                              *)

\* Option 1 of Q1 and Q2.
InsertItem ==
  /\ In({"Q1", "Q2"}, "menu") /\ Len(ll) < MaxItems
  /\ \E x \in Items : ll' = Append(ll, x)
  /\ UNCHANGED <<program, pc, held, temp, k, value, before, lost>>

\* Option 1 of Q3 to Q6.
HoldItem ==
  /\ In({"Q3", "Q4", "Q5", "Q6"}, "menu") /\ Len(held) < MaxItems
  /\ \E x \in Items : held' = IF program \in {"Q4", "Q5"} THEN Enqueue(held, x) ELSE Push(held, x)
  /\ UNCHANGED <<program, pc, ll, temp, k, value, before, lost>>

\* Option 1 of Q7: the string.
TypeString ==
  /\ In({"Q7"}, "menu")
  /\ held' \in BoundedSeq(Chars, MaxItems) \ {<<>>}
  /\ UNCHANGED <<program, pc, ll, temp, k, value, before, lost>>

\* A call: its loop starts with n turns to go, over an empty s_temp.
Calls(p, loop, n) ==
  /\ In(p, "menu") /\ pc' = loop /\ k' = n
  /\ before' = held /\ temp' = <<>>
  /\ UNCHANGED <<program, ll, held, lost>>

\* Option 2 of Q1 and Q2: nothing happens when the list is empty, and
\* `!isEmptyQueue`, `!isEmptyStack` test a function's address, so what was
\* there stays.  MaxItems bounds how often the list is taken over.
Create ==
  /\ Calls({"Q1", "Q2"}, IF ll = <<>> THEN "shown" ELSE "creating", IF ll = <<>> THEN -1 ELSE Len(ll))
  /\ Len(held) < 2 * MaxItems
  /\ UNCHANGED value

\* A mistake: the turns are counted too low.
RemoveOddOrEvenShort ==
  Calls({"Q1", "Q2"}, IF held = <<>> THEN "shown" ELSE "removing", Len(held) - 1) /\ UNCHANGED value

\* Option 3 of Q1 and Q2.
RemoveOddOrEven ==
  Calls({"Q1", "Q2"}, IF held = <<>> THEN "shown" ELSE "removing", Len(held)) /\ UNCHANGED value

Pairwise == Calls({"Q3"}, "pairs", 0) /\ value' = 1

Reversed == Calls({"Q4", "Q5"}, "unloading", 0) /\ UNCHANGED value

\* The value need not be in the stack.
RemoveUntil ==
  /\ Calls({"Q6"}, IF held = <<>> THEN "shown" ELSE "until", 0)
  /\ value' \in Items

\* str is not initialized before option 1.
Balanced == held # <<>> /\ Calls({"Q7"}, "scanning", Len(held)) /\ UNCHANGED value

\* After the result: Q1's and Q2's option 2 keeps what it made, Q7 its
\* string, every other option empties the lists.
Menu ==
  /\ pc = "shown" /\ pc' = "menu"
  /\ IF k = -1 \/ program = "Q7" THEN UNCHANGED <<ll, held>> ELSE ll' = <<>> /\ held' = <<>>
  /\ k' = 0 /\ before' = <<>> /\ lost' = FALSE
  /\ UNCHANGED <<program, temp, value>>

\* Option 0.  Q7's string is no list.
Quit ==
  /\ pc = "menu" /\ pc' = "quit"
  /\ ll' = <<>> /\ held' = <<>>
  /\ UNCHANGED <<program, temp, k, value, before, lost>>

-----------------------------------------------------------------------------
(* The loops.                                                              *)

\* createQueueFromLinkedList and createStackFromLinkedList; k = -1 marks their result.
CreateTurn ==
  /\ In({"Q1", "Q2"}, "creating")
  /\ IF k = 0 THEN pc' = "shown" /\ k' = -1 /\ UNCHANGED held
     ELSE /\ LET cur == ll[Len(ll) - k + 1]
             IN held' = IF program = "Q1" THEN Enqueue(held, cur) ELSE Push(held, cur)
          /\ k' = k - 1 /\ UNCHANGED pc
  /\ UNCHANGED <<program, ll, temp, value, before, lost>>

\* removeOddValues: the even ones go round to the end of the queue.
RemoveOddTurn ==
  /\ In({"Q1"}, "removing")
  /\ IF k = 0 THEN pc' = "shown" /\ UNCHANGED <<held, k>>
     ELSE /\ held' = IF Head(held) % 2 = 0 THEN Enqueue(Rest(held), Head(held)) ELSE Rest(held)
          /\ k' = k - 1 /\ UNCHANGED pc
  /\ UNCHANGED <<program, ll, temp, value, before, lost>>

\* removeEvenValues: the odd ones go to s_temp, ...
RemoveEvenTurn ==
  /\ In({"Q2"}, "removing")
  /\ IF k = 0 THEN pc' = "refilling" /\ UNCHANGED <<held, temp, k>>
     ELSE /\ held' = Rest(held) /\ k' = k - 1
          /\ temp' = IF Pop(held) % 2 # 0 THEN Push(temp, Pop(held)) ELSE temp
          /\ UNCHANGED pc
  /\ UNCHANGED <<program, ll, value, before, lost>>

\* ... and from s_temp back; Q4's second loop; the returns of Q5's recursion.
RefillTurn ==
  /\ In({"Q2", "Q4", "Q5"}, "refilling")
  /\ IF temp = <<>> THEN pc' = "shown" /\ UNCHANGED <<held, temp>>
     ELSE /\ held' = IF program = "Q2" THEN Push(held, Head(temp)) ELSE Enqueue(held, Head(temp))
          /\ temp' = Tail(temp) /\ UNCHANGED pc
  /\ UNCHANGED <<program, ll, k, value, before, lost>>

\* Q4's first loop, and the calls of Q5's recursion.
UnloadTurn ==
  /\ In({"Q4", "Q5"}, "unloading")
  /\ IF held = <<>> THEN pc' = "refilling" /\ UNCHANGED <<held, temp>>
     ELSE temp' = Push(temp, Head(held)) /\ held' = Rest(held) /\ UNCHANGED pc
  /\ UNCHANGED <<program, ll, k, value, before, lost>>

\* isStackPairwiseConsecutive: two pops, the second of them perhaps of an
\* empty stack.  The items are above MIN_INT + 1 and the difference does not wrap
\* round to 1 or -1 unless the item is INT_MAX, which is not among Items.
PairsTurn ==
  LET pair1 == Pop(held)
      pair2 == Pop(Rest(held))
  IN /\ In({"Q3"}, "pairs")
     /\ IF held = <<>> THEN pc' = "shown" /\ UNCHANGED <<held, value>>
        ELSE /\ held' = Rest(Rest(held))
             /\ IF pair1 - pair2 \notin {1, -1} THEN value' = 0 /\ pc' = "shown" ELSE UNCHANGED <<value, pc>>
     /\ UNCHANGED <<program, ll, temp, k, before, lost>>

\* A mistake: the loop waits for the bottom.
UntilTurnForgetsToPop ==
  /\ In({"Q6"}, "until")
  /\ IF Peek(held) = value THEN pc' = "shown" /\ UNCHANGED held
     ELSE held' = held /\ UNCHANGED pc
  /\ UNCHANGED <<program, ll, temp, k, value, before, lost>>

\* removeUntil: popping an empty stack changes nothing, and it goes on.
UntilTurn ==
  /\ In({"Q6"}, "until")
  /\ IF Peek(held) = value THEN pc' = "shown" /\ UNCHANGED held
     ELSE held' = Rest(held) /\ UNCHANGED pc
  /\ UNCHANGED <<program, ll, temp, k, value, before, lost>>

\* balanced returns v; only at the end of the string does it empty s_temp.
Returns(v, left) ==
  /\ pc' = "shown" /\ value' = v /\ temp' = <<>>
  /\ lost' = (left # <<>>)
  /\ UNCHANGED k

\* A mistake: the end of the string does not empty s_temp.
ScanTurnLeaves ==
  LET c == held[Len(held) - k + 1]
      Go(s) == temp' = s /\ k' = k - 1 /\ UNCHANGED <<pc, value, lost>>
  IN /\ In({"Q7"}, "scanning")
     /\ IF k = 0 THEN Returns(IF temp = <<>> THEN 0 ELSE 1, temp)
        ELSE IF c \in Openers THEN Go(Push(temp, c))
        ELSE IF c \notin Closers THEN Returns(1, temp)
        ELSE IF temp = <<>> THEN Returns(1, temp)
        ELSE Go(Rest(temp))
     /\ UNCHANGED <<program, ll, held, before>>

ScanTurn ==
  LET c == held[Len(held) - k + 1]
      Differs == IF temp = <<>> THEN MIN_INT \div 10 # Tens(c) ELSE Tens(Head(temp)) # Tens(c)
      Go(s) == temp' = s /\ k' = k - 1 /\ UNCHANGED <<pc, value, lost>>
  IN /\ In({"Q7"}, "scanning")
     /\ IF k = 0 THEN Returns(IF temp = <<>> THEN 0 ELSE 1, <<>>)
        ELSE IF c \in Openers THEN Go(Push(temp, c))
        ELSE IF c \notin Closers THEN Returns(1, temp)
        ELSE IF temp = <<>> /\ Differs THEN Returns(1, temp)
        ELSE Go(Rest(temp))
     /\ UNCHANGED <<program, ll, held, before>>

Turn ==
  \/ CreateTurn \/ RemoveOddTurn \/ RemoveEvenTurn \/ RefillTurn \/ UnloadTurn
  \/ PairsTurn \/ UntilTurn \/ ScanTurn

\* The calls of insertNode in the next turn.
Inserts ==
  \/ pc = "menu" /\ program # "Q7"
  \/ pc = "creating" /\ k > 0
  \/ pc = "removing" /\ k > 0 /\ Head(held) % 2 = (IF program = "Q1" THEN 0 ELSE 1)
  \/ pc = "refilling" /\ temp # <<>>
  \/ In({"Q4"}, "unloading") /\ held # <<>>
  \/ pc = "scanning" /\ k > 0 /\ held[Len(held) - k + 1] \in Openers

\* When malloc fails insertNode ends the process with status 0; that of Q3 and
\* Q4 does not look and writes through NULL.
InsertFails ==
  /\ Inserts /\ pc' = IF program \in {"Q3", "Q4"} THEN "crashed" ELSE "exit"
  /\ UNCHANGED <<program, ll, held, temp, k, value, before, lost>>

Next ==
  \/ InsertItem \/ HoldItem \/ TypeString
  \/ Create \/ RemoveOddOrEven \/ Pairwise \/ Reversed \/ RemoveUntil \/ Balanced
  \/ Menu \/ Quit \/ Turn \/ InsertFails

\* The process runs on while it is in a loop; nobody has to type anything.
Spec == Init /\ [][Next]_vars /\ WF_vars(Turn)

-----------------------------------------------------------------------------

\* A string of brackets that closes what it opens, whatever the kinds.
Depth(s, n) == Cardinality({x \in 1..n : s[x] \in Openers}) - Cardinality({x \in 1..n : s[x] \in Closers})
Nested(s) ==
  /\ ToSet(s) \subseteq Openers \cup Closers
  /\ \A n \in DOMAIN s : Depth(s, n) >= 0
  /\ Depth(s, Len(s)) = 0

\* A closer and the opener it closes are of one kind.
KindsAgree(s) ==
  \A m, n \in DOMAIN s :
    /\ m < n /\ Depth(s, m - 1) = Depth(s, n)
    /\ \A x \in m .. n - 1 : Depth(s, x) > Depth(s, n)
    => Tens(s[m]) = Tens(s[n])

\* What each option shows is a function of the lists before it: the list (into
\* an empty queue or stack: see StartsFromEmpty), the even or the odd items in
\* their order, the reversed queue, the stack from the value on, whether the
\* pairs are consecutive, and whether the string is balanced (unless all that
\* is wrong with it are the kinds: line 116 compares those on an empty stack only).
ShowsTheResult ==
  pc = "shown" =>
    CASE program = "Q1" /\ k = -1 -> before = <<>> => held = ll
      [] program = "Q2" /\ k = -1 -> before = <<>> => held = Reverse(ll)
      [] program = "Q1" /\ k = 0 -> held = SelectSeq(before, LAMBDA x : x % 2 = 0)
      [] program = "Q2" /\ k = 0 -> held = SelectSeq(before, LAMBDA x : x % 2 = 1)
      [] program = "Q3" ->
           value = 1 <=> /\ Len(before) % 2 = 0
                         /\ \A n \in DOMAIN before :
                              n % 2 = 1 => before[n] - before[n + 1] \in {1, -1}
      [] program \in {"Q4", "Q5"} -> held = Reverse(before)
      [] program = "Q6" ->
           \/ before = <<>> /\ held = <<>>
           \/ \E n \in DOMAIN before : /\ held = SubSeq(before, n, Len(before))
                                       /\ before[n] = value
                                       /\ value \notin ToSet(SubSeq(before, 1, n - 1))
      [] program = "Q7" -> ~Nested(before) \/ KindsAgree(before) => (value = 0 <=> Nested(before))

\* Every node is given back by the end: only Q7 may leave a stack behind, at a
\* character that is no bracket.
NothingLeaked ==
  /\ pc = "quit" => ll = <<>> /\ held = <<>> /\ temp = <<>>
  /\ lost => program = "Q7" /\ ~(ToSet(before) \subseteq Openers \cup Closers)

\* Every call returns or leaves the process; removeUntil when the value is in
\* the stack, as its prompt (Q6_C_SQ.c:88) asks.
CallsReturn ==
  /\ pc = "until" /\ value \in ToSet(held) ~> pc = "shown"
  /\ pc \in {"creating", "removing", "refilling", "unloading", "pairs", "scanning"}
       ~> pc \in {"shown", "exit", "crashed"}

\* Q1_C_SQ.c:122 and Q2_C_SQ.c:119, "if it is not empty, empty it and start":
\* the new queue, or stack, holds the list and nothing else.
StartsFromEmpty ==
  pc = "shown" /\ k = -1 /\ ll # <<>> => held = IF program = "Q1" THEN ll ELSE Reverse(ll)
=============================================================================
