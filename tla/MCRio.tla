-------------------------------- MODULE MCRio --------------------------------
(***************************************************************************)
(* A small instance of Rio: a stream of a few bytes with two newlines,     *)
(* a kernel buffer and a rio_buf that calls do not fit in.                 *)
(***************************************************************************)
EXTENDS Rio

ASSUME MCAssumption == RioAssumption
=============================================================================
