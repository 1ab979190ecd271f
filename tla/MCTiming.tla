------------------------------ MODULE MCTiming ------------------------------
(***************************************************************************)
(* The timing package of malloc-lab-main, one part in each behaviour while *)
(* the others stay where they start: "fcyc", which this module extends,    *)
(* samples; "clock" counts cycles; "ftimer" measures runs.                 *)
(***************************************************************************)
EXTENDS Fcyc

CONSTANTS
  Word, TickCosts, Steps, Uptime, CycleHorizon, NEvent, Threshold, RecordThresh,   \* of clock
  Million, MaxEtime, Ns, RunCosts, Starts, TimeHorizon                     \* of ftimer

VARIABLES
  part,
  now, ticks, spent, cost, hi, lo, began, cpt, startTick, reading, cal, time, ctime, work, edge,
  package, clock, left, asked, made, start, tmeas, runs, opened, ended, timing

\* What the compensated counter may give: negative times too.
MCCompCounted == {-1, 0, 2}

Clock == INSTANCE Clock WITH Costs <- TickCosts, Horizon <- CycleHorizon, pc <- reading
Ftimer == INSTANCE Ftimer WITH
  Costs <- RunCosts, Horizon <- TimeHorizon, now <- clock, began <- opened, pc <- timing,
  n <- asked, i <- made

\* Two words of the counter last longer than it is looked at (at 4 GHz, 146
\* years), though both may wrap meanwhile.
NoSecondWrap == CycleHorizon - Uptime < Word * Word

ASSUME MCAssumption ==
  FcycAssumption /\ Clock!ClockAssumption /\ NoSecondWrap /\ Ftimer!FtimerAssumption

clockVars ==
  <<now, ticks, spent, cost, hi, lo, began, cpt, startTick, reading, cal, time, ctime, work, edge>>
ftimerVars == <<package, clock, left, asked, made, start, tmeas, runs, opened, ended, timing>>
mcVars == <<part, vars, clockVars, ftimerVars>>

\* A part that is not looked at starts in one place.
One(S) == CHOOSE x \in S : TRUE

MCInit ==
  /\ part \in {"fcyc", "clock", "ftimer"}
  /\ Init /\ Clock!Init /\ Ftimer!Init
  /\ part # "fcyc" => /\ kbest = One(Ks) /\ maxsamples = One(Maxima)
                      /\ cache_bytes = One(Sizes) /\ cache_block = One(Blocks)
  /\ part # "clock" => cost = One(TickCosts)
  /\ part # "ftimer" => package = "ITIMER" /\ clock = One(Starts)

FcycAlone == part = "fcyc" /\ UNCHANGED <<part, clockVars, ftimerVars>>
ClockAlone == part = "clock" /\ UNCHANGED <<part, vars, ftimerVars>>
FtimerAlone == part = "ftimer" /\ UNCHANGED <<part, vars, clockVars>>

MCNext ==
  \/ FcycAlone /\ Next
  \/ ClockAlone /\ Clock!Next
  \/ FtimerAlone /\ Ftimer!Next

\* A call of fcyc that has begun goes on: one thread runs it.
MCSpec == MCInit /\ [][MCNext]_mcVars /\ WF_mcVars(FcycAlone /\ Step)

-----------------------------------------------------------------------------

\* Two words and a borrow measure what elapsed.
MeasuresElapsed == Clock!MeasuresElapsed

\* Compensation takes off what interrupts cost; the time ftimer measures is that
\* of the runs just made, and the interval timer ends only a measurement as long
\* as its span.
TimersRight ==
  Clock!Compensated /\ Ftimer!MeasuresTheRuns /\ Ftimer!OnlyLongRunsAreKilled

\* The k least samples, in order; no more samples than allowed, and at least one.
SamplesRight == KeepsTheLeast /\ BoundedSamples
=============================================================================
