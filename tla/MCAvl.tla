-------------------------------- MODULE MCAvl --------------------------------
(***************************************************************************)
(* Two instances of Avl, one of them in each behaviour.  "deep": many      *)
(* nodes of fixed sizes, two of them equal to a neighbour, for deletions   *)
(* that rotate at several levels.  "mixed": few nodes of any size, for     *)
(* ties and reuse of a block at another size.                              *)
(***************************************************************************)
EXTENDS Avl

VARIABLE shape

Few == 1 .. 5
MixedSizes == 1 .. 3
DeepSize(n) == IF n \in {4, 9} THEN n - 1 ELSE n

MCSizes == [n \in Nodes |-> {DeepSize(n)} \union IF n \in Few THEN MixedSizes ELSE {}]

\* The sizes with which a node is inserted in a behaviour of the shape.
Allowed(n) ==
  IF shape = "deep" THEN {DeepSize(n)} ELSE IF n \in Few THEN MixedSizes ELSE {}

MCInit == Init /\ shape \in {"deep", "mixed"}

\* The actions of Next, with the sizes of the shape.
MCNext ==
  /\ \/ \E n \in Nodes : Delete(n) \/ \E s \in Allowed(n) : Insert(n, s)
     \/ \E s \in Wanted : FindFit(s)
     \/ Reset
  /\ UNCHANGED shape

mcVars == <<vars, shape>>
MCSpec == MCInit /\ [][MCNext]_mcVars
=============================================================================
