-------------------------------- MODULE Fcyc --------------------------------
(***************************************************************************)
(* malloc-lab-main/fcyc.c, with the parameters fsecs.c gives it: the       *)
(* running time of a function as the least of its samples, taken until the *)
(* kbest least of them agree or maxsamples have been taken.  The samples   *)
(* are what the counters of Clock measure.                                 *)
(***************************************************************************)
EXTENDS Integers, Sequences, FiniteSets, SequencesExt

CONSTANTS
  Ks, Maxima,          \* what set_fcyc_k and set_fcyc_maxsamples are given
  Sizes, Blocks,       \* what set_fcyc_cache_size and _block are given, in bytes
  IntSize,             \* sizeof(int)
  Counted,             \* what get_counter measures: never negative
  CompCounted,         \* what get_comp_counter measures
  EpsNum, EpsDen,      \* epsilon
  NULL

FcycAssumption ==
  /\ Ks \subseteq Nat \ {0} /\ Maxima \subseteq Nat
  /\ Sizes \subseteq Nat /\ IntSize \in Nat \ {0} /\ Blocks \subseteq Nat
  /\ Counted \subseteq Nat /\ CompCounted \subseteq Int
  /\ EpsNum \in Nat /\ EpsDen \in Nat \ {0}
  /\ NULL \notin Int

VARIABLES
  kbest, maxsamples, compensate, clear_cache, cache_bytes, cache_block,
  cache_buf,     \* NULL or the ints of the block malloc gave
  values,        \* NULL or the array
  samplecount,
  cptr,          \* clear's index in the buffer
  pc,            \* where fcyc is
  taken,         \* ghost: the samples of this call
  result         \* what fcyc returned last

params == <<kbest, maxsamples, compensate, clear_cache, cache_bytes, cache_block>>
sampler == <<values, samplecount, taken, result>>
vars == <<params, sampler, cache_buf, cptr, pc>>

-----------------------------------------------------------------------------

\* The file's initial values: the cache is not cleared, nothing is compensated.
Init ==
  /\ kbest \in Ks /\ maxsamples \in Maxima /\ compensate = FALSE /\ clear_cache = FALSE
  /\ cache_bytes \in Sizes /\ cache_block \in Blocks /\ cache_buf = NULL
  /\ values = NULL /\ samplecount = 0 /\ taken = <<>> /\ result = NULL
  /\ cptr = 0 /\ pc = "idle"

\* set_fcyc_k, _maxsamples, _compensate, _clear_cache, _cache_block.
SetK(k) == kbest' = k /\ UNCHANGED <<maxsamples, compensate, clear_cache, cache_block>>
SetMaxsamples(m) == maxsamples' = m /\ UNCHANGED <<kbest, compensate, clear_cache, cache_block>>
SetFlags(c, z) ==
  /\ compensate' = c /\ clear_cache' = z
  /\ UNCHANGED <<kbest, maxsamples, cache_block>>
SetCacheBlock(b) ==
  cache_block' = b /\ UNCHANGED <<kbest, maxsamples, compensate, clear_cache>>

Set ==
  /\ pc = "idle"
  /\ \/ \E k \in Ks : SetK(k)
     \/ \E m \in Maxima : SetMaxsamples(m)
     \/ \E c, z \in BOOLEAN : SetFlags(c, z)
     \/ \E b \in Blocks : SetCacheBlock(b)
  /\ UNCHANGED <<sampler, cache_buf, cache_bytes, cptr, pc>>

\* A mistake: the old buffer is kept.
SetCacheSizeKeepsBuf(n) ==
  /\ pc = "idle"
  /\ cache_bytes' = n
  /\ UNCHANGED <<kbest, maxsamples, compensate, clear_cache, cache_block, sampler,
                 cache_buf, cptr, pc>>

\* set_fcyc_cache_size frees a buffer of another size.
SetCacheSize(n) ==
  /\ pc = "idle"
  /\ cache_bytes' = n
  /\ cache_buf' = IF n # cache_bytes THEN NULL ELSE cache_buf
  /\ UNCHANGED <<kbest, maxsamples, compensate, clear_cache, cache_block, sampler, cptr, pc>>

\* init_fsecs with USE_FCYC: the caches are cleared and the interrupts
\* compensated, with a maximum and a k of its own.
InitFsecs(k, m) ==
  /\ pc = "idle"
  /\ kbest' = k /\ maxsamples' = m /\ compensate' = TRUE /\ clear_cache' = TRUE
  /\ UNCHANGED <<cache_bytes, cache_block, cache_buf, sampler, cptr, pc>>

-----------------------------------------------------------------------------
(* fcyc.                                                                   *)

ToSample == IF clear_cache THEN "clear" ELSE "measure"

\* init_sampler; calloc's zeros.
Fcyc ==
  /\ pc = "idle"
  /\ values' = [i \in 1..kbest |-> 0] /\ samplecount' = 0 /\ taken' = <<>> /\ result' = NULL
  /\ pc' = ToSample
  /\ UNCHANGED <<params, cache_buf, cptr>>

\* clear: the first call allocates the buffer.
ClearBegin ==
  /\ pc = "clear"
  /\ cache_buf' = IF cache_buf = NULL THEN cache_bytes \div IntSize ELSE cache_buf
  /\ cptr' = 0 /\ pc' = "clearing"
  /\ UNCHANGED <<params, sampler>>

\* ... and when malloc fails the program ends.
ClearFails ==
  /\ pc = "clear" /\ cache_buf = NULL
  /\ pc' = "exit"
  /\ UNCHANGED <<params, sampler, cache_buf, cptr>>

\* A mistake: the block's size is rounded down once more.
ClearStepStuck ==
  /\ pc = "clearing"
  /\ IF cptr < cache_bytes \div IntSize
     THEN cptr' = cptr + cache_block \div (IntSize * IntSize) /\ pc' = pc
     ELSE cptr' = 0 /\ pc' = "measure"
  /\ UNCHANGED <<params, sampler, cache_buf>>

\* One turn of clear's loop reads the int at cptr.
ClearStep ==
  /\ pc = "clearing"
  /\ IF cptr < cache_bytes \div IntSize
     THEN cptr' = cptr + cache_block \div IntSize /\ pc' = pc
     ELSE cptr' = 0 /\ pc' = "measure"
  /\ UNCHANGED <<params, sampler, cache_buf>>

\* add_sample's insertion sort of the value at pos into the sorted prefix
\* before it.
SinkFrom(a, pos) ==
  LET to == CHOOSE p \in 1..pos : /\ \A i \in 1..(p - 1) : a[i] <= a[pos]
                                  /\ \A i \in p..(pos - 1) : a[i] > a[pos]
  IN [i \in DOMAIN a |-> IF i < to \/ i > pos THEN a[i]
                         ELSE IF i = to THEN a[pos] ELSE a[i - 1]]

\* A mistake: a sample that is none of the first kbest replaces the greatest
\* whatever it is.
AddedAlways(val) ==
  LET pos == IF samplecount < kbest THEN samplecount + 1 ELSE kbest
  IN SinkFrom([values EXCEPT ![pos] = val], pos)

\* The array after add_sample(val).
Added(val) ==
  IF samplecount < kbest
  THEN SinkFrom([values EXCEPT ![samplecount + 1] = val], samplecount + 1)
  ELSE IF val < values[kbest] THEN SinkFrom([values EXCEPT ![kbest] = val], kbest)
  ELSE values

HasConverged(count, vals) ==
  count >= kbest /\ (EpsDen + EpsNum) * vals[1] >= EpsDen * vals[kbest]

\* A mistake: the limit is looked at before the sample is counted.
MeasureOneMore ==
  /\ pc = "measure"
  /\ \E val \in IF compensate THEN CompCounted ELSE Counted :
       /\ values' = Added(val)
       /\ taken' = Append(taken, val)
  /\ samplecount' = samplecount + 1
  /\ IF ~HasConverged(samplecount', values') /\ samplecount <= maxsamples
     THEN pc' = ToSample ELSE pc' = "return"
  /\ UNCHANGED <<params, cache_buf, cptr, result>>

\* A sample of f is taken and added; the loop goes on while the samples have
\* not converged and there are fewer than maxsamples.
Measure ==
  /\ pc = "measure"
  /\ \E val \in IF compensate THEN CompCounted ELSE Counted :
       /\ values' = Added(val)
       /\ taken' = Append(taken, val)
  /\ samplecount' = samplecount + 1
  /\ IF ~HasConverged(samplecount', values') /\ samplecount' < maxsamples
     THEN pc' = ToSample ELSE pc' = "return"
  /\ UNCHANGED <<params, cache_buf, cptr, result>>

Return ==
  /\ pc = "return"
  /\ result' = values[1] /\ values' = NULL
  /\ pc' = "idle"
  /\ UNCHANGED <<params, samplecount, taken, cache_buf, cptr>>

Exited == pc = "exit" /\ UNCHANGED vars

-----------------------------------------------------------------------------

Step == ClearBegin \/ ClearStep \/ Measure \/ Return

Next ==
  \/ Set \/ (\E n \in Sizes : SetCacheSize(n)) \/ (\E k \in Ks, m \in Maxima : InitFsecs(k, m))
  \/ Fcyc \/ Step \/ ClearFails \/ Exited

\* A call that has begun goes on: one thread runs it.
Spec == Init /\ [][Next]_vars /\ WF_vars(Step)

-----------------------------------------------------------------------------

\* How many values of the array are samples.
Many == IF samplecount < kbest THEN samplecount ELSE kbest

\* The array's first values are the least samples of the call, in order, each
\* sample as often as it was taken, and the answer is the least of all ("just
\* return best sample found").
KeepsTheLeast ==
  /\ values # NULL =>
       /\ \A i, j \in 1 .. Many : i < j => values[i] <= values[j]
       /\ \E at \in Injection(1 .. Many, DOMAIN taken) :
            /\ \A i \in 1 .. Many : values[i] = taken[at[i]]
            /\ \A j \in DOMAIN taken :
                 (\E i \in 1 .. Many : at[i] = j) \/ \A i \in 1 .. Many : values[i] <= taken[j]
  /\ result # NULL =>
       /\ \E j \in DOMAIN taken : result = taken[j]
       /\ \A j \in DOMAIN taken : result <= taken[j]

\* No call takes more than maxsamples samples, and every call takes one.
BoundedSamples ==
  /\ pc # "idle" => samplecount <= (IF maxsamples = 0 THEN 1 ELSE maxsamples)
  /\ pc = "return" => samplecount > 0

\* clear never reads beyond the buffer, whatever sizes were set before and
\* after it was allocated.
ReadsTheBuffer ==
  pc = "clearing" /\ cptr < cache_bytes \div IntSize => cptr < cache_buf

\* A call returns, or clear found no memory.
FcycReturns == pc \notin {"idle", "exit"} ~> pc \in {"idle", "exit"}
=============================================================================
