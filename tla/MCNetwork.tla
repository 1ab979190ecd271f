------------------------------ MODULE MCNetwork ------------------------------
(***************************************************************************)
(* The parts of webproxy-lab-main beside Rio, one of them in each          *)
(* behaviour while the others stay where they start: "tiny", clients and   *)
(* the server, which this module extends; "wrappers", one process and its  *)
(* calls; "sio", printing from signal handlers.                            *)
(***************************************************************************)
EXTENDS Tiny

CONSTANTS
  Half, Printed, MaxSignals, MaxOutput   \* of sio

VARIABLES
  part,
  status, errno, call, result, restart, returned,
  frames, output, arrived, exited

\* One to three digits, both signs, and the least long.
MCPrinted == {0, 10, 127, -90, -128}

Wrappers == INSTANCE Wrappers
Sio == INSTANCE Sio

ASSUME MCAssumption == TinyAssumption /\ Sio!SioAssumption

MCInit ==
  /\ part \in {"tiny", "wrappers", "sio"}
  /\ Init /\ Wrappers!Init /\ Sio!Init

wrappersVars == <<status, errno, call, result, restart, returned>>
sioVars == <<frames, output, arrived, exited>>
mcVars == <<part, vars, wrappersVars, sioVars>>

TinyAlone == part = "tiny" /\ UNCHANGED <<part, wrappersVars, sioVars>>
WrappersAlone == part = "wrappers" /\ UNCHANGED <<part, vars, sioVars>>
SioAlone == part = "sio" /\ UNCHANGED <<part, vars, wrappersVars>>

MCNext ==
  \/ TinyAlone /\ Next
  \/ WrappersAlone /\ Wrappers!Next
  \/ SioAlone /\ Sio!Next

\* As in the modules: walks and the server go on, and doit returns; an
\* activation of sio_putl goes on.
Fairness ==
  /\ \A p \in Process : WF_mcVars(TinyAlone /\ GoesOn(p))
  /\ WF_mcVars(TinyAlone /\ Serve)
  /\ WF_mcVars(SioAlone /\ Sio!Step)

MCSpec == MCInit /\ [][MCNext]_mcVars /\ Fairness

-----------------------------------------------------------------------------
(* The wrappers and the signal-safe output.                                *)

\* No failure comes back as a result, only a failed call ends the process, and
\* signals do so in Select only.
ErrorsToldApart ==
  Wrappers!FailureNeverReturned /\ Wrappers!NoFalseAlarm /\ Wrappers!SignalsAreSurvived

\* Each number is printed whole, whoever interrupts whom.
PrintsTheNumber == Sio!PrintsTheNumber

\* Nobody waits for ever: connected clients are served, and calls of sio_putl
\* come to an end.
Progress == EveryoneServed /\ Sio!CallsReturn
=============================================================================
