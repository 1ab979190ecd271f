-------------------------------- MODULE MCMm --------------------------------
(***************************************************************************)
(* A small instance of Mm: a heap of a few blocks, two segregated lists    *)
(* and the tree, requests around the class boundaries.                     *)
(***************************************************************************)
EXTENDS Mm

CONSTANTS a, b, c

MCSegBounds == <<2, 4>>
MCBumped    == [s \in Requests |-> IF s = 20 THEN 32 ELSE s]
=============================================================================
