------------------------------ MODULE MCRBTree ------------------------------
(***************************************************************************)
(* The red-black tree in three settings, one of them in each behaviour:    *)
(* "deep", a client of many cells with a key each, two pairs of equal keys *)
(* among them, for insertions and erasures that repair several levels;     *)
(* "mixed", a client of few cells that come back with any key, for the     *)
(* questions and a calloc that fails; "driver", the menu of driver.c, with *)
(* lines that rise, fall, repeat and are empty.                            *)
(***************************************************************************)
EXTENDS RBClient, RBDriver

VARIABLE part

mcVars == <<vars, menuVars, part>>

Few == 1 .. 4
MixedKeys == 1 .. 3
DeepKey(n) == IF n \in {3, 7} THEN n - 1 ELSE n
MCKeys == [n \in Nodes |-> {DeepKey(n)} \union IF n \in Few THEN MixedKeys ELSE {}]
MCLines == {<<1, 2, 3>>, <<3, 2>>, <<2>>, <<>>}

\* The keys with which a cell is handed out in the part.
Allowed(n) == IF part = "deep" THEN {DeepKey(n)} ELSE IF n \in Few THEN MixedKeys ELSE {}

\* The client's actions in the part.
ClientNext ==
  \/ \E n \in Nodes : Erase(n) \/ \E key \in Allowed(n) : Insert(n, key)
  \/ Renew
  \/ /\ part = "mixed"
     /\ \/ InsertFails \/ EraseNull \/ Crash \/ Ended
        \/ \E key \in Asked : Ask(Pointer(RbtreeFind(tree, key)))
        \/ Ask(Pointer(RbtreeMin(tree))) \/ Ask(Pointer(RbtreeMax(tree)))
        \/ \E n \in ArraySizes : Ask(Array(RbtreeToArray(tree, n)))

MCInit == Init /\ MenuInit /\ part \in {"deep", "mixed", "driver"}

MCNext ==
  /\ \/ part \in {"deep", "mixed"} /\ ClientNext /\ UNCHANGED menuVars
     \/ part = "driver" /\ MenuNext /\ cells' \subseteq Few /\ UNCHANGED vars
  /\ UNCHANGED part

MCSpec == MCInit /\ [][MCNext]_mcVars
=============================================================================
