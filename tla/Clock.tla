------------------------------- MODULE Clock -------------------------------
(***************************************************************************)
(* malloc-lab-main/clock.c: a 64-bit cycle counter read as two words and   *)
(* subtracted word by word, and the counter that takes off what the timer  *)
(* interrupts cost.  Cycles pass and interrupts arrive between any two     *)
(* reads.                                                                  *)
(***************************************************************************)
EXTENDS Integers

CONSTANTS
  Word,          \* 2^32: how many values a word has
  Costs,         \* cycles a timer interrupt may cost
  Steps,         \* cycles that may pass between two reads
  Uptime,        \* cycles since the machine started when the program does
  Horizon,       \* a bound on the cycles looked at
  NEvent,        \* NEVENT
  Threshold,     \* THRESHOLD
  RecordThresh   \* RECORDTHRESH

ClockAssumption ==
  /\ Word \in Nat \ {0} /\ Costs \subseteq Nat \ {0} /\ Steps \subseteq Nat \ {0}
  /\ Uptime \in Nat /\ Horizon \in Nat /\ Uptime <= Horizon
  /\ NEvent \in Nat /\ Threshold \in Nat /\ RecordThresh \in Nat

VARIABLES
  now,         \* cycles since the machine started
  ticks,       \* tms_utime: interrupts charged to the process
  spent,       \* ghost: the cycles that went to interrupts
  cost,        \* ghost: what one interrupt costs on this machine
  hi, lo,      \* cyc_hi, cyc_lo
  began,       \* ghost: now and spent when they were stored
  cpt,         \* cyc_per_tick
  startTick,   \* start_tick
  pc,          \* where the calls are
  cal,         \* callibrate's locals: e, oldt, oldc, newt
  time,        \* get_comp_counter's local
  ctime,       \* what get_comp_counter returned last
  work,        \* ghost: the cycles that measurement should have had
  edge         \* ghost: interrupts between the two reads of its two pairs

counter == <<hi, lo, began>>
machine == <<now, ticks, spent, cost>>
vars == <<machine, counter, cpt, startTick, pc, cal, time, ctime, work, edge>>

-----------------------------------------------------------------------------
(* The counter.                                                            *)

High(n) == (n \div Word) % Word
Low(n) == n % Word

\* A mistake: no borrow.
ElapsedNoBorrow(n, h, l) == ((High(n) - h) % Word) * Word + ((Low(n) - l) % Word)

\* get_counter at cycle n, after a start_counter that stored h and l: a double
\* precision subtraction in unsigned words.
Elapsed(n, h, l) ==
  LET low    == (Low(n) - l) % Word
      borrow == IF low > Low(n) THEN 1 ELSE 0
      high   == (High(n) - h - borrow) % Word
  IN high * Word + low

\* The Alpha's: its counter has one word, the high ones are 0.
AlphaElapsed(n, l) ==
  LET low    == (Low(n) - l) % Word
      borrow == IF low > Low(n) THEN 1 ELSE 0
      high   == (0 - 0 - borrow) % Word
  IN high * Word + low

StartCounter == hi' = High(now) /\ lo' = Low(now) /\ began' = [now |-> now, spent |-> spent]
GetCounter == Elapsed(now, hi, lo)

-----------------------------------------------------------------------------

Init ==
  /\ now = Uptime /\ ticks = 0 /\ spent = 0 /\ cost \in Costs
  /\ hi = 0 /\ lo = 0 /\ began = [now |-> 0, spent |-> 0]
  /\ cpt = 0 /\ startTick = 0 /\ time = 0
  /\ pc = "idle" /\ ctime = 0 /\ work = 0 /\ edge = 0
  /\ cal = [e |-> 0, oldt |-> 0, oldc |-> 0, newt |-> 0]

Goto(place) == pc' = place

\* The program runs: f, or the reads themselves.
Run(n) ==
  /\ now + n <= Horizon
  /\ now' = now + n
  /\ UNCHANGED <<ticks, spent, cost, counter, cpt, startTick, pc, cal, time, ctime, work, edge>>

\* A timer interrupt.
Tick ==
  /\ now + cost <= Horizon
  /\ now' = now + cost /\ spent' = spent + cost /\ ticks' = ticks + 1
  /\ UNCHANGED <<cost, counter, cpt, startTick, pc, cal, time, ctime, work, edge>>

\* callibrate, up to its loop: the ticks, the counter's start, the first time.
BeginCallibrate ==
  /\ pc = "idle" /\ cpt = 0
  /\ cal' = [e |-> 0, oldt |-> 0, oldc |-> ticks, newt |-> 0]
  /\ Goto("calstart")
  /\ UNCHANGED <<machine, counter, cpt, startTick, time, ctime, work, edge>>

CalStart ==
  /\ pc = "calstart"
  /\ StartCounter
  /\ Goto("first")
  /\ UNCHANGED <<machine, cpt, startTick, cal, time, ctime, work, edge>>

FirstTime ==
  /\ pc = "first"
  /\ cal' = [cal EXCEPT !.oldt = GetCounter]
  /\ Goto("poll")
  /\ UNCHANGED <<machine, counter, cpt, startTick, time, ctime, work, edge>>

\* One turn of its loop reads the counter, and where that jumped, the ticks.
Poll ==
  /\ pc = "poll" /\ cal.e < NEvent
  /\ cal' = [cal EXCEPT !.newt = GetCounter]
  /\ Goto(IF GetCounter - cal.oldt >= Threshold THEN "event" ELSE "poll")
  /\ UNCHANGED <<machine, counter, cpt, startTick, time, ctime, work, edge>>

\* An interval with ticks in it is an event: the least cost of a tick above
\* the recording threshold is kept.
Event ==
  /\ pc = "event"
  /\ LET c == (cal.newt - cal.oldt) \div (ticks - cal.oldc)
     IN IF ticks > cal.oldc
        THEN /\ cpt' = IF (cpt = 0 \/ cpt > c) /\ c > RecordThresh THEN c ELSE cpt
             /\ cal' = [cal EXCEPT !.e = @ + 1, !.oldc = ticks, !.oldt = cal.newt]
        ELSE cpt' = cpt /\ cal' = [cal EXCEPT !.oldt = cal.newt]
  /\ Goto("poll")
  /\ UNCHANGED <<machine, counter, startTick, time, ctime, work, edge>>

\* The end of callibrate, or start_comp_counter with a value from before: the
\* ticks are read, then the counter is started.
ReadStartTick ==
  /\ \/ pc = "idle" /\ cpt # 0
     \/ pc = "poll" /\ cal.e >= NEvent
  /\ startTick' = ticks
  /\ Goto("start")
  /\ UNCHANGED <<machine, counter, cpt, cal, time, ctime, work, edge>>

StartComp ==
  /\ pc = "start"
  /\ StartCounter
  /\ edge' = ticks - startTick
  /\ Goto("running")
  /\ UNCHANGED <<machine, cpt, startTick, cal, time, ctime, work>>

\* get_comp_counter: the counter is read, then the ticks.
ReadTime ==
  /\ pc = "running"
  /\ time' = GetCounter
  /\ work' = (now - began.now) - (spent - began.spent)
  /\ edge' = edge - ticks
  /\ Goto("compensate")
  /\ UNCHANGED <<machine, counter, cpt, startTick, cal, ctime>>

\* A mistake: the ticks since the machine started are taken off.
CompensateAll ==
  /\ pc = "compensate"
  /\ ctime' = time - ticks * cpt
  /\ edge' = edge + ticks
  /\ Goto("done")
  /\ UNCHANGED <<machine, counter, cpt, startTick, cal, time, work>>

Compensate ==
  /\ pc = "compensate"
  /\ ctime' = time - (ticks - startTick) * cpt
  /\ edge' = edge + ticks
  /\ Goto("done")
  /\ UNCHANGED <<machine, counter, cpt, startTick, cal, time, work>>

\* The caller asks for the next measurement.
Again ==
  /\ pc = "done"
  /\ Goto("idle")
  /\ UNCHANGED <<machine, counter, cpt, startTick, cal, time, ctime, work, edge>>

\* Nothing is looked at beyond the horizon.
Idle == UNCHANGED vars

Program ==
  \/ BeginCallibrate \/ CalStart \/ FirstTime \/ Poll \/ Event \/ ReadStartTick \/ StartComp
  \/ ReadTime \/ Compensate \/ Again

Next == (\E n \in Steps : Run(n)) \/ Tick \/ Program \/ Idle

Spec == Init /\ [][Next]_vars

-----------------------------------------------------------------------------

\* get_counter gives the cycles since start_counter whatever the words held
\* then, carries and borrows included, for intervals of less than two words
\* (get_counter, "double precision subtraction").  The Alpha's counter of one
\* word does until that word wraps, and is a multiple of a word off after it.
MeasuresElapsed ==
  /\ now - began.now < Word * Word => GetCounter = now - began.now
  /\ began.now \div Word = now \div Word => AlphaElapsed(now, lo) = now - began.now

\* Once cyc_per_tick is what an interrupt costs, a compensated measurement is
\* the program's own cycles, less the cost of the interrupts that fell between
\* a reading of the ticks and the reading of the counter beside it.
Compensated ==
  pc = "done" /\ cpt = cost => ctime = work - edge * cost
=============================================================================
