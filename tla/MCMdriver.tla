------------------------------ MODULE MCMdriver ------------------------------
(***************************************************************************)
(* Small instances of Mdriver: a heap of a few bytes, of which the         *)
(* allocator may give out any, and short traces.                           *)
(***************************************************************************)
EXTENDS Mdriver

A(id, size) == [type |-> "alloc", id |-> id, size |-> size]
R(id, size) == [type |-> "realloc", id |-> id, size |-> size]
F(id) == [type |-> "free", id |-> id, size |-> 0]

\* Two blocks, a block that grows and shrinks, one that does not fit with the one
\* before it, and an id whose low byte has its top bit set.
MCTraces ==
  {<<A(0, 2), A(1, 2), F(0)>>, <<A(1, 1), R(1, 3), R(1, 2), F(1)>>, <<A(0, 1), A(1, 4)>>,
   <<A(2, 1), R(2, 1)>>}
MCGrows == {<<A(0, 1), A(1, 4)>>}

ASSUME MCAssumption == MdriverAssumption
=============================================================================
