------------------------------- MODULE Ftimer -------------------------------
(***************************************************************************)
(* malloc-lab-main/ftimer.c, and the choice fsecs.c makes of it: the time  *)
(* of n runs of a function, by gettimeofday or by an interval timer that   *)
(* counts down from a day.  Both clocks are pairs of seconds and           *)
(* microseconds.                                                           *)
(***************************************************************************)
EXTENDS Integers

CONSTANTS
  Million,      \* microseconds in a second
  MaxEtime,     \* MAX_ETIME, in seconds
  Ns,           \* how many runs are asked for
  Costs,        \* microseconds that pass in a run, or between two calls
  Starts,       \* microseconds since the epoch when the first call is made
  Horizon       \* a bound on the time looked at

FtimerAssumption ==
  /\ Million \in Nat \ {0} /\ MaxEtime \in Nat \ {0} /\ Ns \subseteq Nat \ {0}
  /\ Costs \subseteq Nat /\ Starts \subseteq Nat /\ Horizon \in Nat

VARIABLES
  package,     \* the one of USE_ITIMER and USE_GETTOD that config.h sets
  now,         \* the time of day, in microseconds
  left,        \* what the real interval timer has left, 0 when it is not set
  n, i,        \* ftimer's argument and index
  start,       \* stv, or the start of ftimer_itimer
  tmeas,       \* the time of the n runs, in microseconds
  runs, began, ended,   \* ghost: the runs, and when they began and ended
  pc

vars == <<package, now, left, n, i, start, tmeas, runs, began, ended, pc>>

Split(t) == [sec |-> t \div Million, usec |-> t % Million]
Micros(sec, usec) == Million * sec + usec

-----------------------------------------------------------------------------

Init ==
  /\ package \in {"ITIMER", "GETTOD"} /\ now \in Starts /\ left = 0
  /\ n = 0 /\ i = 0 /\ start = 0 /\ tmeas = 0 /\ runs = 0 /\ began = 0 /\ ended = 0
  /\ pc = "idle"

\* Time passes; the interval timer counts down and is off at 0.
Pass(t) == now' = now + t /\ left' = IF left > t THEN left - t ELSE 0

\* SIGALRM, when the timer set a day ago expires: nobody handles it.
Expires(t) == left > 0 /\ t >= left

\* fsecs: a call of ftimer_itimer or ftimer_gettod.
Fsecs(m) ==
  /\ pc = "idle"
  /\ n' = m /\ i' = 0 /\ runs' = 0
  /\ pc' = IF package = "ITIMER" THEN "init" ELSE "start"
  /\ UNCHANGED <<package, now, left, start, tmeas, began, ended>>

\* A mistake: a timer that is running is left as it is.
InitEtimeOnce ==
  /\ pc = "init"
  /\ left' = IF left = 0 THEN Million * MaxEtime ELSE left
  /\ pc' = "start"
  /\ UNCHANGED <<package, now, n, i, start, tmeas, runs, began, ended>>

\* init_etime sets the three timers to MAX_ETIME; only the real one is used.
InitEtime ==
  /\ pc = "init"
  /\ left' = Million * MaxEtime
  /\ pc' = "start"
  /\ UNCHANGED <<package, now, n, i, start, tmeas, runs, began, ended>>

\* A mistake: the microseconds are added.
EtimeAdds(l) == Micros(MaxEtime - Split(l).sec, Split(l).usec)

\* get_etime: the initial value less the current one, part by part.
Etime(l) == Micros(MaxEtime - Split(l).sec, 0 - Split(l).usec)

\* The difference of two times of day.
Gettod(s, e) == Micros(Split(e).sec - Split(s).sec, Split(e).usec - Split(s).usec)

Start ==
  /\ pc = "start"
  /\ start' = IF package = "ITIMER" THEN Etime(left) ELSE now
  /\ began' = now
  /\ pc' = "loop"
  /\ UNCHANGED <<package, now, left, n, i, tmeas, runs, ended>>

\* A run of f.
Run(t) ==
  /\ pc = "loop" /\ i < n
  /\ ~Expires(t)
  /\ Pass(t)
  /\ i' = i + 1 /\ runs' = runs + 1
  /\ UNCHANGED <<package, n, start, tmeas, began, ended, pc>>

Alarm(t) ==
  /\ pc = "loop" /\ i < n
  /\ Expires(t)
  /\ Pass(t)
  /\ pc' = "killed"
  /\ UNCHANGED <<package, n, i, start, tmeas, runs, began, ended>>

Stop ==
  /\ pc = "loop" /\ i = n
  /\ tmeas' = IF package = "ITIMER" THEN Etime(left) - start ELSE Gettod(start, now)
  /\ ended' = now
  /\ pc' = "idle"
  /\ UNCHANGED <<package, now, left, n, i, start, runs, began>>

\* The interval timer of the last call goes on counting between two calls.
Between(t) ==
  /\ pc = "idle" /\ t > 0
  /\ Pass(t)
  /\ pc' = IF Expires(t) THEN "killed" ELSE "idle"
  /\ UNCHANGED <<package, n, i, start, tmeas, runs, began, ended>>

Next ==
  \/ (\E m \in Ns : Fsecs(m)) \/ InitEtime \/ Start \/ Stop
  \/ \E t \in Costs : now + t <= Horizon /\ (Run(t) \/ Alarm(t) \/ Between(t))

Spec == Init /\ [][Next]_vars

-----------------------------------------------------------------------------

\* The measured time is the time that passed between the two looks at the
\* clock, whatever seconds and microseconds they showed, and n runs took it.
MeasuresTheRuns == pc = "idle" => tmeas = ended - began /\ runs = n

\* The timer is set again before each measurement: no call of fsecs that uses
\* it ends with the alarm unless it ran for MAX_ETIME itself.
OnlyLongRunsAreKilled ==
  pc = "killed" /\ i < n => now - began >= Million * MaxEtime
=============================================================================
