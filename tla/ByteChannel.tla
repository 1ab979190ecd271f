---------------------------- MODULE ByteChannel ----------------------------
(***************************************************************************)
(* What the Rio package promises its two ends: bytes that were accepted    *)
(* are handed over once each, in order, in pieces as the reader asks, and  *)
(* the end is reported only when nothing is left.                          *)
(***************************************************************************)
EXTENDS Integers, Sequences

CONSTANT Piece    \* how many bytes are accepted at once at most

VARIABLES
  queue,      \* accepted and not yet handed over
  delivered,  \* handed over
  sending,    \* may the writer still send?
  ended       \* has the reader been told that the end is reached?

vars == <<queue, delivered, sending, ended>>

Init == queue = <<>> /\ delivered = <<>> /\ sending = TRUE /\ ended = FALSE

\* The next bytes of the stream, numbered from 1.
Send ==
  /\ sending /\ ~ended
  /\ LET before == Len(delivered) + Len(queue)
     IN \E k \in 1 .. Piece : queue' = queue \o [i \in 1 .. k |-> before + i]
  /\ UNCHANGED <<delivered, sending, ended>>

StopSending == sending /\ sending' = FALSE /\ UNCHANGED <<queue, delivered, ended>>

Receive ==
  /\ ~ended
  /\ \E k \in 1 .. Len(queue) :
       /\ delivered' = delivered \o SubSeq(queue, 1, k)
       /\ queue' = SubSeq(queue, k + 1, Len(queue))
  /\ UNCHANGED <<sending, ended>>

ReportEnd ==
  /\ ~ended /\ ~sending /\ queue = <<>>
  /\ ended' = TRUE
  /\ UNCHANGED <<queue, delivered, sending>>

Next == Send \/ StopSending \/ Receive \/ ReportEnd

Spec == Init /\ [][Next]_vars
=============================================================================
