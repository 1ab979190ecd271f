-------------------------------- MODULE Sio --------------------------------
(***************************************************************************)
(* The signal-safe output of webproxy-lab-main/csapp.c: sio_putl called by *)
(* the program and by handlers that interrupt it, and one another, between *)
(* any two steps of the conversion.  A long is below Half, a power of two, *)
(* and not below its negation; characters are their codes.                 *)
(***************************************************************************)
EXTENDS Integers, Sequences, SequencesExt

CONSTANTS
  Half,      \* half as many as there are longs: 2 ^ 63 in the program
  Printed,   \* the numbers sio_putl is called with
  MaxSignals,   \* how many signals arrive at most
  MaxOutput  \* how many numbers are printed at most

Long == -Half .. Half - 1

SioAssumption == Half \in Nat \ {0} /\ MaxSignals \in Nat /\ MaxOutput \in Nat /\ Printed \subseteq Long

VARIABLES
  frames,    \* the activations of sio_putl, the running one last
  output,    \* what each write was given: the number meant and the text
  arrived,   \* signals so far
  exited     \* has sio_error ended the process?

vars == <<frames, output, arrived, exited>>

\* Two's complement, as the compiled code wraps.
Wrapped(x) == ((x + Half) % (2 * Half)) - Half

\* C's / and % round towards zero.
Quotient(v, b) == IF v < 0 THEN -((-v) \div b) ELSE v \div b
Remainder(v, b) == v - b * Quotient(v, b)

Base == 10
Minus == 45
Digit(c) == IF c < 10 THEN c + 48 ELSE c - 10 + 97

Init == frames = <<>> /\ output = <<>> /\ arrived = 0 /\ exited = FALSE

Top == frames[Len(frames)]
Running(pc) == frames # <<>> /\ ~exited /\ Top.pc = pc

\* A mistake: the digits are kept in one buffer for all.
UpdateShared(frame) ==
  frames' = [i \in DOMAIN frames |->
               IF i = Len(frames) THEN frame ELSE [frames[i] EXCEPT !.s = frame.s]]

\* Every step works on the locals of its own activation.
Update(frame) == frames' = [frames EXCEPT ![Len(frames)] = frame]

\* sio_putl(v), called by the program or by a handler.
Call(v) ==
  /\ ~exited
  /\ frames = <<>> \/ arrived < MaxSignals
  /\ arrived' = IF frames = <<>> THEN arrived ELSE arrived + 1
  /\ frames' = Append(frames, [pc |-> "sign", meant |-> v, v |-> v, neg |-> FALSE, s |-> <<>>, i |-> 1])
  /\ UNCHANGED <<output, exited>>

\* A mistake: the sign is not taken off.
TakeSignForgotten ==
  /\ Running("sign")
  /\ Update([Top EXCEPT !.pc = "digits", !.neg = Top.v < 0])
  /\ UNCHANGED <<output, arrived, exited>>

\* sio_ltoa: the sign is noted and taken off.
TakeSign ==
  /\ Running("sign")
  /\ Update([Top EXCEPT !.pc = "digits", !.neg = Top.v < 0,
                        !.v = IF @ < 0 THEN Wrapped(-@) ELSE @])
  /\ UNCHANGED <<output, arrived, exited>>

\* A mistake: the loop goes on at 0 (a few digits show it, so more are not kept).
PutDigitAgain ==
  /\ Running("digits")
  /\ Update([Top EXCEPT !.s = IF Len(@) > 3 THEN @ ELSE Append(@, Digit(Remainder(Top.v, Base))),
                        !.v = Quotient(@, Base)])
  /\ UNCHANGED <<output, arrived, exited>>

\* One turn of the do loop: the last digit first.
PutDigit ==
  /\ Running("digits")
  /\ LET rest == Quotient(Top.v, Base)
     IN Update([Top EXCEPT !.s = Append(@, Digit(Remainder(Top.v, Base))), !.v = rest,
                           !.pc = IF rest > 0 THEN "digits" ELSE "end"])
  /\ UNCHANGED <<output, arrived, exited>>

PutSign ==
  /\ Running("end")
  /\ Update([Top EXCEPT !.s = IF Top.neg THEN Append(@, Minus) ELSE @, !.pc = "reverse"])
  /\ UNCHANGED <<output, arrived, exited>>

\* sio_reverse: one swap, until the ends meet.
Swap ==
  /\ Running("reverse")
  /\ LET i == Top.i
         j == Len(Top.s) + 1 - i
     IN Update(IF i < j THEN [Top EXCEPT !.s = [@ EXCEPT ![i] = Top.s[j], ![j] = Top.s[i]],
                                         !.i = i + 1]
               ELSE [Top EXCEPT !.pc = "write"])
  /\ UNCHANGED <<output, arrived, exited>>

\* sio_puts: one write, from which the activation returns.
Write ==
  /\ Running("write")
  /\ output' = Append(output, [meant |-> Top.meant, text |-> Top.s])
  /\ frames' = Front(frames)
  /\ UNCHANGED <<arrived, exited>>

\* write fails: Sio_putl prints a message and leaves by _exit(1).
WriteFails ==
  /\ Running("write")
  /\ exited' = TRUE
  /\ UNCHANGED <<frames, output, arrived>>

Step == TakeSign \/ PutDigit \/ PutSign \/ Swap \/ Write \/ WriteFails

\* A bound on what is looked at; a process that has ended stays so.
Idle == (exited \/ Len(output) >= MaxOutput) /\ UNCHANGED vars

Next == (Len(output) < MaxOutput /\ \E v \in Printed : Call(v)) \/ Step \/ Idle

Spec == Init /\ [][Next]_vars /\ WF_vars(Step)

-----------------------------------------------------------------------------

\* What a text says: an optional sign and digits without a leading 0.
Digits(text) == IF text[1] = Minus THEN Tail(text) ELSE text
Said(text) ==
  LET value[k \in 0 .. Len(Digits(text))] ==
        IF k = 0 THEN 0 ELSE 10 * value[k - 1] + Digits(text)[k] - 48
      whole == value[Len(Digits(text))]
  IN IF text[1] = Minus THEN -whole ELSE whole
IsNumeral(text) ==
  /\ Digits(text) # <<>>
  /\ \A i \in DOMAIN Digits(text) : Digits(text)[i] \in 48 .. 57
  /\ Digits(text)[1] = 48 => Digits(text) = <<48>>

\* Every write is given the numeral of the number its caller meant, negative
\* ones too (csapp.c:5), however the activations interrupt one another
\* (csapp.c:17, reentrant signal-safe routines).  The least long is the
\* exception: it is its own negation, and its digits come out wrong.
PrintsTheNumber ==
  \A i \in DOMAIN output :
    output[i].meant # -Half =>
      IsNumeral(output[i].text) /\ Said(output[i].text) = output[i].meant

\* A call comes to an end: the conversion loops stop for every long, and
\* handlers return to what they interrupted.
CallsReturn == frames # <<>> ~> (frames = <<>> \/ exited)
=============================================================================
