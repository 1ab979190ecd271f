--------------------------- MODULE OrderedMultiset ---------------------------
(***************************************************************************)
(* What rbtree-lab-main promises (README.md of the lab: an ordered         *)
(* multiset): pointers that each stand for one key from insertion to       *)
(* erasure, and questions about the keys present.                          *)
(***************************************************************************)
EXTENDS Integers, Sequences, FiniteSets

CONSTANTS Nodes, Null, Keys

VARIABLES
  held,    \* the key each pointer handed out and not erased stands for
  answer   \* what the last call returned: a pointer, a success code or an array

vars == <<held, answer>>

Present == DOMAIN held

Pointer(n) == <<"pointer", n>>
Code(c) == <<"code", c>>
Array(keys) == <<"array", keys>>

\* No pointer at all.
Nothing == [n \in {} |-> 0]

Init == held = Nothing /\ answer = Pointer(Null)

\* A new pointer for the key, equal to a present key or not.
Add(n, key) ==
  /\ n \notin Present
  /\ held' = [m \in Present \union {n} |-> IF m = n THEN key ELSE held[m]]
  /\ answer' = Pointer(n)

\* No memory: nothing changes.
Refuse == answer' = Pointer(Null) /\ UNCHANGED held

Remove(n) ==
  /\ n \in Present
  /\ held' = [m \in Present \ {n} |-> held[m]]
  /\ answer' = Code(1)

\* Erasing nothing, or from nothing.
RemoveNothing == answer' = Code(0) /\ UNCHANGED held

\* Any pointer to the key, or Null when there is none.
Find(key) ==
  /\ LET found == {n \in Present : held[n] = key}
     IN \E n \in IF found = {} THEN {Null} ELSE found : answer' = Pointer(n)
  /\ UNCHANGED held

Min ==
  /\ LET least == {n \in Present : \A m \in Present : held[n] <= held[m]}
     IN \E n \in IF Present = {} THEN {Null} ELSE least : answer' = Pointer(n)
  /\ UNCHANGED held

Max ==
  /\ LET greatest == {n \in Present : \A m \in Present : held[n] >= held[m]}
     IN \E n \in IF Present = {} THEN {Null} ELSE greatest : answer' = Pointer(n)
  /\ UNCHANGED held

\* The least keys in order, as many as fit in size.
ToArray(size) ==
  /\ \E order \in [1 .. Cardinality(Present) -> Present] :
       /\ \A i, j \in DOMAIN order :
            i < j => order[i] # order[j] /\ held[order[i]] <= held[order[j]]
       /\ LET n == IF size < Len(order) THEN size ELSE Len(order)
          IN answer' = Array([i \in 1 .. n |-> held[order[i]]])
  /\ UNCHANGED held

Clear == held' = Nothing /\ answer' = Pointer(Null)

Next ==
  \/ \E n \in Nodes : \/ \E key \in Keys : Add(n, key)
                      \/ Remove(n)
  \/ Refuse \/ RemoveNothing \/ Min \/ Max \/ Clear
  \/ \E key \in Keys : Find(key)
  \/ \E size \in 0 .. Cardinality(Nodes) : ToArray(size)

Spec == Init /\ [][Next]_vars
=============================================================================
