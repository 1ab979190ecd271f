---------------------------- MODULE TimingProofs ----------------------------
(***************************************************************************)
(* What the timing package keeps whatever it measures: fcyc's buffer, its  *)
(* limit and its order, the subtraction of two words and the compensation  *)
(* of clock.c, and ftimer's clocks, for words, seconds and costs of any    *)
(* size.                                                                   *)
(***************************************************************************)
EXTENDS MCTiming, WellFoundedInduction, TLAPS

-----------------------------------------------------------------------------
(* fcyc.                                                                   *)

\* A buffer is as long as the size now set says: set_fcyc_cache_size frees the
\* one of another size.  clear has one while it runs.
BufferFits ==
  /\ cache_bytes \in Nat
  /\ cache_buf # NULL => cache_buf = cache_bytes \div IntSize
  /\ pc = "clearing" => cache_buf # NULL

\* The places of a call, and how many samples it has taken at each.
SamplesLeft ==
  /\ pc \in {"idle", "clear", "clearing", "measure", "return", "exit"}
  /\ samplecount \in Nat /\ maxsamples \in Nat
  /\ pc \notin {"idle", "return"} => samplecount = 0 \/ samplecount < maxsamples
  /\ pc = "return" => samplecount > 0 /\ (samplecount <= maxsamples \/ samplecount = 1)

\* Before the first call there is no buffer.
LEMMA InitBufferFits == ASSUME FcycAssumption, Init PROVE BufferFits
BY DEF FcycAssumption, Init, BufferFits

\* The places of an int in so many bytes.
LEMMA Rounded ==
  ASSUME FcycAssumption, NEW n \in Nat
  PROVE  n \div IntSize \in Nat /\ n \div IntSize # NULL
<1>1. IntSize \in Nat \ {0} /\ NULL \notin Int
  BY DEF FcycAssumption
<1>2. n \div IntSize \in Nat
  BY <1>1
<1> QED
  BY <1>1, <1>2

\* Every step keeps the cleared part inside the allocated buffer.
LEMMA NextBufferFits ==
  ASSUME FcycAssumption, BufferFits, [Next]_vars
  PROVE  BufferFits'
<1> USE DEF BufferFits
<1>1. CASE Set
  BY <1>1 DEF Set, SetK, SetMaxsamples, SetFlags, SetCacheBlock
<1>2. ASSUME NEW n \in Sizes, SetCacheSize(n) PROVE BufferFits'
  BY <1>2 DEF SetCacheSize, FcycAssumption
<1>3. ASSUME NEW k \in Ks, NEW m \in Maxima, InitFsecs(k, m) PROVE BufferFits'
  BY <1>3 DEF InitFsecs
<1>4. CASE Fcyc
  BY <1>4 DEF Fcyc, ToSample, params
<1>5. CASE ClearBegin
  BY <1>5, Rounded DEF ClearBegin, params
<1>6. CASE ClearStep
  BY <1>6 DEF ClearStep, params
<1>7. CASE Measure
  BY <1>7 DEF Measure, ToSample, params
<1>8. CASE Return
  BY <1>8 DEF Return, params
<1>9. CASE ClearFails
  BY <1>9 DEF ClearFails, params
<1>10. CASE UNCHANGED vars
  BY <1>10 DEF vars, params
<1> QED
  BY <1>1, <1>2, <1>3, <1>4, <1>5, <1>6, <1>7, <1>8, <1>9, <1>10
  DEF Next, Step, Exited

\* clear never reads beyond its buffer, however the size was set before and
\* after the buffer was allocated (set_fcyc_cache_size, clear).
THEOREM ClearInside ==
  ASSUME FcycAssumption
  PROVE  MCSpec => []ReadsTheBuffer
<1>1. MCInit => BufferFits
  BY InitBufferFits DEF MCInit
<1>2. BufferFits /\ [MCNext]_mcVars => BufferFits'
  <2> SUFFICES ASSUME BufferFits, [MCNext]_mcVars PROVE BufferFits'
    OBVIOUS
  <2>1. [Next]_vars
    BY DEF MCNext, mcVars, FcycAlone, ClockAlone, FtimerAlone
  <2> QED
    BY <2>1, NextBufferFits
<1>3. BufferFits => ReadsTheBuffer
  BY DEF BufferFits, ReadsTheBuffer
<1> QED
  BY <1>1, <1>2, <1>3, PTL DEF MCSpec

\* Before the first call no sample was taken.
LEMMA InitSamplesLeft == ASSUME FcycAssumption, Init PROVE SamplesLeft
BY DEF FcycAssumption, Init, SamplesLeft

\* Every step keeps the count of samples within what may still be taken.
LEMMA NextSamplesLeft ==
  ASSUME FcycAssumption, SamplesLeft, [Next]_vars
  PROVE  SamplesLeft'
<1> USE DEF SamplesLeft
<1>1. CASE Set
  BY <1>1 DEF Set, SetK, SetMaxsamples, SetFlags, SetCacheBlock, sampler, FcycAssumption
<1>2. ASSUME NEW n \in Sizes, SetCacheSize(n) PROVE SamplesLeft'
  BY <1>2 DEF SetCacheSize, sampler
<1>3. ASSUME NEW k \in Ks, NEW m \in Maxima, InitFsecs(k, m) PROVE SamplesLeft'
  BY <1>3 DEF InitFsecs, sampler, FcycAssumption
<1>4. CASE Fcyc
  BY <1>4 DEF Fcyc, ToSample, params
<1>5. CASE ClearBegin
  BY <1>5 DEF ClearBegin, params, sampler
<1>6. CASE ClearStep
  BY <1>6 DEF ClearStep, params, sampler
<1>7. CASE Measure
  \* The loop goes on only below the limit; the last sample may reach it.
  <2>1. samplecount' = samplecount + 1 /\ maxsamples' = maxsamples
    BY <1>7 DEF Measure, params
  <2>2. \/ pc' \in {"clear", "measure"} /\ samplecount' < maxsamples
        \/ pc' = "return"
    BY <1>7 DEF Measure, ToSample
  <2>3. samplecount = 0 \/ samplecount < maxsamples
    BY <1>7 DEF Measure
  <2> QED
    BY <2>1, <2>2, <2>3
<1>8. CASE Return
  BY <1>8 DEF Return, params
<1>9. CASE ClearFails
  BY <1>9 DEF ClearFails, params, sampler
<1>10. CASE UNCHANGED vars
  BY <1>10 DEF vars, params, sampler
<1> QED
  BY <1>1, <1>2, <1>3, <1>4, <1>5, <1>6, <1>7, <1>8, <1>9, <1>10
  DEF Next, Step, Exited

\* What is left bounds what was taken.
LEMMA SamplesLeftBounds == ASSUME SamplesLeft PROVE BoundedSamples
BY DEF SamplesLeft, BoundedSamples

-----------------------------------------------------------------------------
(* The k least samples.                                                    *)

\* A set of numbers has a least one.
LEMMA LeastOf ==
  ASSUME NEW T, T \subseteq Nat, T # {}
  PROVE  \E x \in T : \A y \in T : x <= y
<1>1. \E R : IsWellFoundedOn(R, Nat) /\ \A x, y \in Nat : <<x, y>> \in R <=> x < y
  <2> DEFINE R == OpToRel(<, Nat)
  <2>1. IsWellFoundedOn(R, Nat)
    BY NatLessThanWellFounded
  <2>2. \A x, y \in Nat : <<x, y>> \in R <=> x < y
    BY DEF OpToRel
  <2> QED
    BY <2>1, <2>2, Zenon
<1>2. PICK R : IsWellFoundedOn(R, Nat) /\ \A x, y \in Nat : <<x, y>> \in R <=> x < y
  BY <1>1
<1>3. PICK x \in T : \A y \in T : ~ (<<y, x>> \in R)
  <2>1. IsWellFoundedOn(R, Nat)
    BY <1>2
  <2>2. \A S : IsWellFoundedOn(R, S) =>
          \A U : U \subseteq S /\ U # {} => \E m \in U : \A y \in U : ~ (<<y, m>> \in R)
    BY WFMin, Zenon
  <2> QED
    BY <2>1, <2>2, Zenon
<1>4. \A y \in T : ~ (y < x)
  <2> TAKE y \in T
  <2>1. x \in Nat /\ y \in Nat /\ ~(<<y, x>> \in R)
    BY <1>3
  <2> QED
    BY <1>2, <2>1, Zenon
<1> QED
  BY <1>4

\* The first m of a ascend.
Ascends(a, m) == \A j, k \in 1 .. m : j < k => a[j] <= a[k]

\* b is a with the value at p sunk into the ascending part before it, to the place t.
SunkTo(a, b, p, t) ==
  /\ t \in 1 .. p
  /\ DOMAIN b = DOMAIN a
  /\ \A j \in 1 .. t - 1 : b[j] = a[j] /\ a[j] <= a[p]
  /\ b[t] = a[p]
  /\ \A j \in t + 1 .. p : b[j] = a[j - 1] /\ a[j - 1] > a[p]

\* The insertion sort of add_sample finds its place.
LEMMA SinkFindsPlace ==
  ASSUME NEW len \in Nat, NEW a \in [1 .. len -> Int], NEW p \in 1 .. len, Ascends(a, p - 1)
  PROVE  \E t \in 1 .. p : SunkTo(a, SinkFrom(a, p), p, t) /\ SinkFrom(a, p) \in [1 .. len -> Int]
<1> DEFINE Above == {j \in 1 .. p : j = p \/ a[j] > a[p]}
           Fits(t) == /\ \A j \in 1 .. (t - 1) : a[j] <= a[p]
                      /\ \A j \in t .. (p - 1) : a[j] > a[p]
<1>1. \E t \in 1 .. p : Fits(t)
  <2>1. Above \subseteq Nat /\ Above # {}
    <3>1. p \in Above
      OBVIOUS
    <3> QED
      BY <3>1
  <2> HIDE DEF Above
  <2>2. PICK t \in Above : \A j \in Above : t <= j
    BY <2>1, LeastOf
  <2> USE DEF Above
  <2>3. t \in 1 .. p /\ (t = p \/ a[t] > a[p])
    BY <2>2
  <2>4. ASSUME NEW j \in 1 .. (t - 1) PROVE a[j] <= a[p]
    <3>1. j \in 1 .. p /\ ~(t <= j) /\ j # p
      BY <2>3
    <3>2. ~(a[j] > a[p])
      BY <2>2, <3>1
    <3> QED
      BY <3>1, <3>2
  <2>5. ASSUME NEW j \in t .. (p - 1) PROVE a[j] > a[p]
    <3>1. t < p /\ t \in 1 .. p - 1 /\ j \in 1 .. p - 1 /\ a[t] > a[p]
      BY <2>3
    <3>2. a[t] <= a[j]
      BY <3>1 DEF Ascends
    <3>3. a[t] \in Int /\ a[j] \in Int /\ a[p] \in Int
      BY <3>1
    <3> QED
      BY <3>1, <3>2, <3>3
  <2> QED
    BY <2>3, <2>4, <2>5
<1> DEFINE t == CHOOSE x \in 1 .. p : Fits(x)
<1>2. t \in 1 .. p /\ Fits(t)
  BY <1>1
<1>3. SinkFrom(a, p) = [j \in DOMAIN a |-> IF j < t \/ j > p THEN a[j]
                                          ELSE IF j = t THEN a[p] ELSE a[j - 1]]
  BY DEF SinkFrom
<1>4. /\ \A j \in 1 .. (t - 1) : a[j] <= a[p]
      /\ \A j \in t .. (p - 1) : a[j] > a[p]
  BY <1>2
<1> HIDE DEF t, Fits, Above
<1>5. SinkFrom(a, p) \in [1 .. len -> Int]
  BY <1>2, <1>3
<1>6. SunkTo(a, SinkFrom(a, p), p, t)
  <2>1. \A j \in 1 .. t - 1 : SinkFrom(a, p)[j] = a[j] /\ a[j] <= a[p]
    BY <1>2, <1>3, <1>4
  <2>2. SinkFrom(a, p)[t] = a[p]
    BY <1>2, <1>3
  <2>3. ASSUME NEW j \in t + 1 .. p PROVE SinkFrom(a, p)[j] = a[j - 1] /\ a[j - 1] > a[p]
    <3>1. j \in DOMAIN a /\ ~(j < t \/ j > p) /\ j # t /\ j - 1 \in t .. (p - 1)
      BY <1>2
    <3> QED
      BY <1>3, <1>4, <3>1
  <2>4. DOMAIN SinkFrom(a, p) = DOMAIN a
    BY <1>3
  <2> QED
    BY <1>2, <2>1, <2>2, <2>3, <2>4 DEF SunkTo
<1> QED
  BY <1>2, <1>5, <1>6

\* The first m of a are samples of s, each its own, in order.
Holds(a, m, s, at) ==
  /\ at \in [1 .. m -> DOMAIN s] /\ \A j, k \in 1 .. m : at[j] = at[k] => j = k
  /\ \A j \in 1 .. m : a[j] = s[at[j]]
  /\ Ascends(a, m)

\* A sunk value leaves the part before and at its place in order.
LEMMA SunkAscends ==
  ASSUME NEW len \in Nat, NEW a \in [1 .. len -> Int], NEW p \in 1 .. len, Ascends(a, p - 1),
         NEW b, NEW t \in 1 .. p, SunkTo(a, b, p, t)
  PROVE  Ascends(b, p)
<1> SUFFICES ASSUME NEW j \in 1 .. p, NEW k \in 1 .. p, j < k
             PROVE  b[j] <= b[k]
  BY DEF Ascends
<1>0. \A x \in 1 .. p : a[x] \in Int
  OBVIOUS
<1>1. CASE k < t
  <2>1. b[j] = a[j] /\ b[k] = a[k] /\ j \in 1 .. p - 1 /\ k \in 1 .. p - 1
    BY <1>1 DEF SunkTo
  <2> QED
    BY <2>1 DEF Ascends
<1>2. CASE k = t
  <2>1. b[j] = a[j] /\ a[j] <= a[p] /\ b[k] = a[p]
    BY <1>2 DEF SunkTo
  <2> QED
    BY <2>1
<1>3. CASE k > t
  <2>0. k \in t + 1 .. p /\ k - 1 \in 1 .. p - 1
    BY <1>3
  <2>1. b[k] = a[k - 1] /\ a[k - 1] > a[p] /\ k - 1 \in 1 .. p - 1
    BY <2>0 DEF SunkTo
  <2>2. CASE j < t
    <3>1. b[j] = a[j] /\ a[j] <= a[p]
      BY <2>2 DEF SunkTo
    <3> QED
      BY <1>0, <2>1, <3>1
  <2>3. CASE j = t
    <3>1. b[j] = a[p]
      BY <2>3 DEF SunkTo
    <3> QED
      BY <1>0, <2>1, <3>1
  <2>4. CASE j > t
    <3>1. b[j] = a[j - 1] /\ j - 1 \in 1 .. p - 1 /\ j - 1 < k - 1
      BY <2>4 DEF SunkTo
    <3> QED
      BY <2>1, <3>1 DEF Ascends
  <2> QED
    BY <2>2, <2>3, <2>4
<1> QED
  BY <1>1, <1>2, <1>3

\* b holds the samples a held and the one sunk.
Gains(a, b, m, p, s, at, to) ==
  /\ Holds(b, p, Append(s, a[p]), to)
  /\ \A j \in 1 .. m : \E k \in 1 .. p : to[k] = at[j]
  /\ \E k \in 1 .. p : to[k] = Len(s) + 1
  /\ \A k \in 1 .. p : \E j \in 1 .. p : b[k] = a[j]

\* The array holds one sample more after it has sunk, and what it held before.
LEMMA SunkHolds ==
  ASSUME NEW len \in Nat, NEW a \in [1 .. len -> Int], NEW m \in Nat, NEW p \in 1 .. len, p = m + 1,
         NEW s \in Seq(Int), NEW at, Holds(a, m, s, at),
         NEW b, NEW t \in 1 .. p, SunkTo(a, b, p, t)
  PROVE  \E to : Gains(a, b, m, p, s, at, to)
<1> DEFINE new == Append(s, a[p])
           to == [k \in 1 .. p |-> IF k < t THEN at[k] ELSE IF k = t THEN Len(s) + 1 ELSE at[k - 1]]
<1>1. /\ p \in 1 .. len /\ a[p] \in Int /\ Len(s) \in Nat /\ p - 1 = m
      /\ DOMAIN new = 1 .. Len(s) + 1 /\ new[Len(s) + 1] = a[p]
      /\ \A j \in 1 .. Len(s) : new[j] = s[j]
      /\ DOMAIN s = 1 .. Len(s)
  OBVIOUS
<1>2. at \in [1 .. m -> 1 .. Len(s)] /\ \A j \in 1 .. m : a[j] = s[at[j]]
  BY <1>1 DEF Holds
<1> HIDE DEF new
<1>3. to \in [1 .. p -> DOMAIN new]
  <2> SUFFICES ASSUME NEW k \in 1 .. p
               PROVE  (IF k < t THEN at[k] ELSE IF k = t THEN Len(s) + 1 ELSE at[k - 1]) \in 1 .. Len(s) + 1
    BY <1>1
  <2>1. k < t => k \in 1 .. m
    OBVIOUS
  <2>2. k > t => k - 1 \in 1 .. m
    OBVIOUS
  <2> QED
    BY <1>1, <1>2, <2>1, <2>2
<1>4. \A j, k \in 1 .. p : to[j] = to[k] => j = k
  <2> SUFFICES ASSUME NEW j \in 1 .. p, NEW k \in 1 .. p, to[j] = to[k] PROVE j = k
    OBVIOUS
  <2> DEFINE back(x) == IF x < t THEN x ELSE x - 1
  <2>1. \A x \in 1 .. p : x # t => back(x) \in 1 .. m /\ to[x] = at[back(x)] /\ to[x] \in 1 .. Len(s)
    <3> SUFFICES ASSUME NEW x \in 1 .. p, x # t
                 PROVE  back(x) \in 1 .. m /\ to[x] = at[back(x)] /\ to[x] \in 1 .. Len(s)
      OBVIOUS
    <3>1. back(x) \in 1 .. m
      OBVIOUS
    <3>2. to[x] = at[back(x)]
      OBVIOUS
    <3> QED
      BY <1>2, <3>1, <3>2
  <2>2. to[t] = Len(s) + 1
    OBVIOUS
  <2>3. j = t <=> k = t
    <3> HIDE DEF to, back
    <3> QED
      BY <1>1, <2>1, <2>2
  <2>4. ASSUME j # t, k # t PROVE j = k
    <3>1. back(j) = back(k)
      <4> HIDE DEF to, back
      <4> QED
        BY <2>1, <2>4 DEF Holds
    <3> QED
      BY <2>4, <3>1
  <2> QED
    BY <2>3, <2>4
<1>5. \A k \in 1 .. p : b[k] = new[to[k]]
  <2> TAKE k \in 1 .. p
  <2>1. CASE k < t
    <3>1. b[k] = a[k] /\ to[k] = at[k] /\ k \in 1 .. m
      BY <2>1 DEF SunkTo
    <3> HIDE DEF to
    <3>2. at[k] \in 1 .. Len(s) /\ a[k] = s[at[k]]
      BY <1>2, <3>1
    <3> QED
      BY <1>1, <3>1, <3>2
  <2>2. CASE k = t
    BY <1>1, <2>2 DEF SunkTo
  <2>3. CASE k > t
    <3>1. b[k] = a[k - 1] /\ to[k] = at[k - 1] /\ k - 1 \in 1 .. m
      BY <2>3 DEF SunkTo
    <3> HIDE DEF to
    <3>2. at[k - 1] \in 1 .. Len(s) /\ a[k - 1] = s[at[k - 1]]
      BY <1>2, <3>1
    <3> QED
      BY <1>1, <3>1, <3>2
  <2> QED
    BY <2>1, <2>2, <2>3
<1>6. Ascends(b, p)
  BY <1>1, SunkAscends DEF Holds
<1>7. \A j \in 1 .. m : \E k \in 1 .. p : to[k] = at[j]
  <2> TAKE j \in 1 .. m
  <2>1. CASE j < t
    <3>1. j \in 1 .. p /\ to[j] = at[j]
      BY <2>1
    <3> QED
      BY <3>1
  <2>2. CASE j >= t
    <3>1. j + 1 \in 1 .. p /\ to[j + 1] = at[j]
      BY <2>2
    <3> QED
      BY <3>1
  <2> QED
    BY <2>1, <2>2
<1>8. t \in 1 .. p /\ to[t] = Len(s) + 1
  OBVIOUS
<1>9. \A k \in 1 .. p : \E j \in 1 .. p : b[k] = a[j]
  <2> TAKE k \in 1 .. p
  <2>1. CASE k < t
    BY <2>1 DEF SunkTo
  <2>2. CASE k = t
    BY <2>2 DEF SunkTo
  <2>3. CASE k > t
    <3>1. k - 1 \in 1 .. p /\ b[k] = a[k - 1]
      BY <2>3 DEF SunkTo
    <3> QED
      BY <3>1
  <2> QED
    BY <2>1, <2>2, <2>3
<1> HIDE DEF to
<1>10. Holds(b, p, new, to)
  BY <1>3, <1>4, <1>5, <1>6 DEF Holds
<1> QED
  <2>1. Holds(b, p, Append(s, a[p]), to)
    BY <1>10 DEF new
  <2> QED
    BY <1>7, <1>8, <1>9, <2>1 DEF Gains

-----------------------------------------------------------------------------

ManyOf(count) == IF count < kbest THEN count ELSE kbest

\* The array's first values are the least samples of s; while it is not full,
\* all of them.
Keeps(vals, count, s, at) ==
  /\ Holds(vals, ManyOf(count), s, at)
  /\ \A j \in DOMAIN s :
       \/ \E k \in 1 .. ManyOf(count) : at[k] = j
       \/ count >= kbest /\ \A k \in 1 .. ManyOf(count) : vals[k] <= s[j]

\* What the sampler keeps between two samples.
Sampled ==
  /\ kbest \in Nat \ {0} /\ maxsamples \in Nat /\ samplecount \in Nat /\ taken \in Seq(Int)
  /\ pc = "idle" => values = NULL
  /\ pc # "idle" =>
       /\ values \in [1 .. kbest -> Int] /\ samplecount = Len(taken) /\ result = NULL
       /\ \E at : Keeps(values, samplecount, taken, at)
  /\ pc = "return" => samplecount > 0
  /\ result # NULL =>
       /\ \E j \in DOMAIN taken : result = taken[j]
       /\ \A j \in DOMAIN taken : result <= taken[j]

\* The array is not full: the sample takes a place of its own.
LEMMA AddedToPart ==
  ASSUME NEW val \in Int, Sampled, pc # "idle", samplecount < kbest
  PROVE  /\ Added(val) \in [1 .. kbest -> Int]
         /\ \E to : Keeps(Added(val), samplecount + 1, Append(taken, val), to)
<1> DEFINE m == samplecount
           q == m + 1
           a == [values EXCEPT ![q] = val]
           b == SinkFrom(a, q)
           s == Append(taken, val)
<1>1. /\ kbest \in Nat \ {0} /\ m \in Nat /\ m < kbest /\ taken \in Seq(Int) /\ m = Len(taken)
      /\ values \in [1 .. kbest -> Int] /\ q \in 1 .. kbest /\ q - 1 = m
  BY DEF Sampled
<1>2. PICK at : Keeps(values, m, taken, at)
  BY DEF Sampled
<1>3. a \in [1 .. kbest -> Int] /\ a[q] = val /\ \A j \in 1 .. m : a[j] = values[j]
  BY <1>1
<1> HIDE DEF a
<1>4. Holds(a, m, taken, at)
  BY <1>1, <1>2, <1>3 DEF Keeps, ManyOf, Holds, Ascends
<1> HIDE DEF m, q, b
<1>5. PICK t \in 1 .. q : SunkTo(a, b, q, t) /\ b \in [1 .. kbest -> Int]
  <2>1. Ascends(a, q - 1)
    BY <1>1, <1>4 DEF Holds
  <2> QED
    BY <1>1, <1>3, <2>1, SinkFindsPlace DEF b
<1>gains. PICK to : Gains(a, b, m, q, taken, at, to)
  <2>1. kbest \in Nat /\ m \in Nat /\ q \in 1 .. kbest /\ q = m + 1 /\ taken \in Seq(Int)
    BY <1>1 DEF q
  <2> QED
    BY <1>3, <1>4, <1>5, <2>1, SunkHolds
<1>6. /\ Holds(b, q, Append(taken, a[q]), to)
      /\ \A j \in 1 .. m : \E k \in 1 .. q : to[k] = at[j]
      /\ \E k \in 1 .. q : to[k] = Len(taken) + 1
  BY <1>gains DEF Gains
<1> USE DEF m, q
<1>7. Added(val) = b
  BY <1>1 DEF Added, a, b
<1> HIDE DEF b
<1>8. ManyOf(q) = q
  BY <1>1 DEF ManyOf
<1>9. ASSUME NEW j \in DOMAIN s PROVE \E k \in 1 .. q : to[k] = j
  <2>1. j \in 1 .. Len(taken) \/ j = Len(taken) + 1
    BY <1>1
  <2>2. CASE j \in 1 .. Len(taken)
    <3>1. \E k \in 1 .. m : at[k] = j
      BY <1>1, <1>2, <2>2 DEF Keeps, ManyOf
    <3> QED
      BY <1>6, <3>1
  <2> QED
    BY <1>6, <2>1, <2>2
<1>10. Keeps(b, q, s, to)
  <2>1. Holds(b, ManyOf(q), s, to)
    BY <1>3, <1>6, <1>8
  <2> QED
    BY <1>8, <1>9, <2>1 DEF Keeps
<1> QED
  BY <1>5, <1>7, <1>10

\* The array is full and the sample is less than the last: the last is dropped.
LEMMA AddedForLast ==
  ASSUME NEW val \in Int, Sampled, pc # "idle", samplecount >= kbest, val < values[kbest]
  PROVE  /\ Added(val) \in [1 .. kbest -> Int]
         /\ \E to : Keeps(Added(val), samplecount + 1, Append(taken, val), to)
<1> DEFINE m == kbest - 1
           a == [values EXCEPT ![kbest] = val]
           b == SinkFrom(a, kbest)
           s == Append(taken, val)
<1>1. /\ kbest \in Nat \ {0} /\ m \in Nat /\ m < kbest /\ m + 1 = kbest /\ taken \in Seq(Int)
      /\ values \in [1 .. kbest -> Int] /\ samplecount \in Nat /\ samplecount = Len(taken)
      /\ Len(taken) \in Nat /\ kbest \in 1 .. kbest /\ ManyOf(samplecount) = kbest /\ ManyOf(samplecount + 1) = kbest
  BY DEF Sampled, ManyOf
<1>2. PICK whole : Keeps(values, samplecount, taken, whole)
  BY DEF Sampled
<1>3. a \in [1 .. kbest -> Int] /\ a[kbest] = val /\ \A j \in 1 .. m : a[j] = values[j]
  BY <1>1
<1>4. Added(val) = b
  BY <1>1 DEF Added
<1> HIDE DEF a
<1> DEFINE at == [k \in 1 .. m |-> whole[k]]
<1>5. Holds(values, kbest, taken, whole)
  BY <1>1, <1>2 DEF Keeps
<1>6. Holds(a, m, taken, at)
  <2>1. whole \in [1 .. kbest -> DOMAIN taken] /\ 1 .. m \subseteq 1 .. kbest
    BY <1>1, <1>5 DEF Holds
  <2>2. at \in [1 .. m -> DOMAIN taken]
    BY <2>1
  <2>3. \A j, k \in 1 .. m : at[j] = at[k] => j = k
    BY <1>5, <2>1 DEF Holds
  <2>4. \A j \in 1 .. m : a[j] = taken[at[j]]
    BY <1>3, <1>5, <2>1 DEF Holds
  <2>5. Ascends(a, m)
    BY <1>3, <1>5, <2>1 DEF Holds, Ascends
  <2> QED
    BY <2>2, <2>3, <2>4, <2>5 DEF Holds
<1>7. PICK t \in 1 .. kbest : SunkTo(a, b, kbest, t) /\ b \in [1 .. kbest -> Int]
  <2>1. Ascends(a, kbest - 1)
    BY <1>6 DEF Holds
  <2> QED
    BY <1>1, <1>3, <2>1, SinkFindsPlace
<1> HIDE DEF b, m, at
<1>gains. PICK to : Gains(a, b, m, kbest, taken, at, to)
  <2>1. kbest \in Nat /\ m \in Nat /\ kbest \in 1 .. kbest /\ kbest = m + 1 /\ taken \in Seq(Int)
    BY <1>1
  <2> QED
    BY <1>3, <1>6, <1>7, <2>1, SunkHolds
<1>8. /\ Holds(b, kbest, Append(taken, a[kbest]), to)
      /\ \A j \in 1 .. m : \E k \in 1 .. kbest : to[k] = at[j]
      /\ \E k \in 1 .. kbest : to[k] = Len(taken) + 1
      /\ \A k \in 1 .. kbest : \E j \in 1 .. kbest : b[k] = a[j]
  BY <1>gains DEF Gains
<1> USE DEF at
\* Nothing the array holds now is greater than what was dropped.
<1>9. ASSUME NEW k \in 1 .. kbest PROVE b[k] \in Int /\ b[k] <= values[kbest]
  <2>1. PICK j \in 1 .. kbest : b[k] = a[j]
    BY <1>1, <1>8
  <2>2. CASE j = kbest
    BY <1>1, <1>3, <1>7, <2>1, <2>2
  <2>3. CASE j < kbest
    <3>1. j \in 1 .. m
      BY <1>1, <2>3
    <3>2. values[j] <= values[kbest]
      BY <1>1, <1>5, <2>3 DEF Holds, Ascends
    <3> QED
      BY <1>1, <1>3, <1>7, <2>1, <3>1, <3>2
  <2> QED
    BY <1>1, <2>2, <2>3
<1>10. ASSUME NEW j \in DOMAIN s
       PROVE  \/ \E k \in 1 .. kbest : to[k] = j
              \/ \A k \in 1 .. kbest : b[k] <= s[j]
  <2>1. j \in 1 .. Len(taken) \/ j = Len(taken) + 1
    BY <1>1
  <2>2. CASE j = Len(taken) + 1
    BY <1>1, <1>8, <2>2
  <2>3. CASE j \in 1 .. Len(taken)
    <3>1. s[j] = taken[j] /\ taken[j] \in Int /\ j \in DOMAIN taken
      BY <1>1, <2>3
    <3>2. CASE \E k \in 1 .. m : whole[k] = j
      BY <1>1, <1>8, <3>2
    <3>3. CASE whole[kbest] = j
      <4>1. taken[j] = values[kbest]
        BY <1>1, <1>5, <3>3 DEF Holds
      <4> QED
        BY <1>9, <3>1, <4>1
    <3>4. CASE \A k \in 1 .. kbest : values[k] <= taken[j]
      <4>1. values[kbest] <= taken[j] /\ values[kbest] \in Int
        BY <1>1, <3>4
      <4> HIDE DEF s
      <4> QED
        BY <1>9, <3>1, <4>1
    <3>5. (\E k \in 1 .. kbest : whole[k] = j) \/ \A k \in 1 .. kbest : values[k] <= taken[j]
      BY <1>1, <1>2, <3>1 DEF Keeps
    <3>6. \A k \in 1 .. kbest : k \in 1 .. m \/ k = kbest
      BY <1>1
    <3> QED
      BY <3>2, <3>3, <3>4, <3>5, <3>6
  <2> QED
    BY <2>1, <2>2, <2>3
<1>11. Keeps(b, samplecount + 1, s, to)
  <2>1. Holds(b, ManyOf(samplecount + 1), s, to)
    BY <1>1, <1>3, <1>8
  <2>2. samplecount + 1 >= kbest
    BY <1>1
  <2> QED
    BY <1>1, <1>10, <2>1, <2>2 DEF Keeps
<1> QED
  BY <1>4, <1>7, <1>11

\* The array is full and the sample none of the least.
LEMMA AddedNowhere ==
  ASSUME NEW val \in Int, Sampled, pc # "idle", samplecount >= kbest, ~(val < values[kbest])
  PROVE  /\ Added(val) \in [1 .. kbest -> Int]
         /\ \E to : Keeps(Added(val), samplecount + 1, Append(taken, val), to)
<1> DEFINE s == Append(taken, val)
<1>1. /\ kbest \in Nat \ {0} /\ taken \in Seq(Int)
      /\ values \in [1 .. kbest -> Int] /\ samplecount \in Nat /\ samplecount = Len(taken)
      /\ Len(taken) \in Nat /\ kbest \in 1 .. kbest /\ ManyOf(samplecount) = kbest /\ ManyOf(samplecount + 1) = kbest
  BY DEF Sampled, ManyOf
<1>2. PICK at : Keeps(values, samplecount, taken, at)
  BY DEF Sampled
<1>3. Added(val) = values
  BY <1>1 DEF Added
<1>4. Holds(values, kbest, taken, at)
  BY <1>1, <1>2 DEF Keeps
<1>5. /\ DOMAIN taken = 1 .. Len(taken) /\ DOMAIN s = 1 .. Len(taken) + 1
      /\ s[Len(taken) + 1] = val /\ \A j \in 1 .. Len(taken) : s[j] = taken[j]
  BY <1>1
<1> HIDE DEF s
<1>6. Holds(values, kbest, s, at)
  <2>1. at \in [1 .. kbest -> DOMAIN s]
    BY <1>1, <1>4, <1>5 DEF Holds
  <2>2. \A j \in 1 .. kbest : values[j] = s[at[j]]
    BY <1>4, <1>5 DEF Holds
  <2> QED
    BY <1>4, <2>1, <2>2 DEF Holds
<1>7. ASSUME NEW j \in DOMAIN s
      PROVE  (\E k \in 1 .. kbest : at[k] = j) \/ \A k \in 1 .. kbest : values[k] <= s[j]
  <2>1. CASE j \in 1 .. Len(taken)
    BY <1>1, <1>2, <1>5, <2>1 DEF Keeps
  <2>2. CASE j = Len(taken) + 1
    <3>1. ASSUME NEW k \in 1 .. kbest PROVE values[k] <= val
      <4>1. values[k] <= values[kbest]
        BY <1>1, <1>4 DEF Holds, Ascends
      <4> QED
        BY <1>1, <4>1
    <3> QED
      BY <1>5, <2>2, <3>1
  <2>3. j \in 1 .. Len(taken) \/ j = Len(taken) + 1
    BY <1>1, <1>5, SMTT(30)
  <2> QED
    BY <2>1, <2>2, <2>3
<1>8. Keeps(values, samplecount + 1, s, at)
  BY <1>1, <1>6, <1>7 DEF Keeps
<1> QED
  BY <1>1, <1>3, <1>8 DEF s

\* Before the first call nothing is sampled.
LEMMA InitSampled ==
  ASSUME FcycAssumption, Init
  PROVE  Sampled
<1>1. /\ pc = "idle" /\ values = NULL /\ samplecount = 0 /\ taken = <<>> /\ result = NULL
      /\ kbest \in Nat \ {0} /\ maxsamples \in Nat
  BY DEF FcycAssumption, Init
<1>2. taken \in Seq(Int)
  BY <1>1
<1> QED
  BY <1>1, <1>2 DEF Sampled

\* Every step keeps the least samples in order.
LEMMA NextSampled ==
  ASSUME FcycAssumption, Sampled, [Next]_vars
  PROVE  Sampled'
<1>0. Ks \subseteq Nat \ {0} /\ Maxima \subseteq Nat /\ NULL \notin Int
  BY DEF FcycAssumption
<1>1. CASE UNCHANGED vars
  BY <1>1 DEF vars, params, sampler, Sampled, Keeps, ManyOf
<1>2. ASSUME pc = "idle", UNCHANGED <<sampler, pc>>, kbest' \in Ks \/ kbest' = kbest,
             maxsamples' \in Maxima \/ maxsamples' = maxsamples
      PROVE  Sampled'
  BY <1>0, <1>2 DEF sampler, Sampled
<1>3. CASE Set
  <2>1. pc = "idle" /\ UNCHANGED <<sampler, pc>>
    BY <1>3 DEF Set
  <2>2. (kbest' \in Ks \/ kbest' = kbest) /\ (maxsamples' \in Maxima \/ maxsamples' = maxsamples)
    BY <1>3 DEF Set, SetK, SetMaxsamples, SetFlags, SetCacheBlock
  <2> QED
    BY <1>2, <2>1, <2>2
<1>4. CASE \E n \in Sizes : SetCacheSize(n)
  BY <1>2, <1>4 DEF SetCacheSize
<1>5. CASE \E k \in Ks, m \in Maxima : InitFsecs(k, m)
  BY <1>2, <1>5 DEF InitFsecs
<1>6. CASE Fcyc
  <2>1. /\ kbest' = kbest /\ maxsamples' = maxsamples /\ samplecount' = 0 /\ taken' = <<>>
        /\ result' = NULL /\ values' = [k \in 1 .. kbest |-> 0] /\ pc' \in {"clear", "measure"}
    BY <1>6 DEF Fcyc, ToSample, params
  <2>2. Keeps(values, samplecount, taken, <<>>)'
    BY <2>1 DEF Sampled, Keeps, ManyOf, Holds, Ascends
  <2>3. values' \in [1 .. kbest' -> Int]
    BY <2>1
  <2>4. kbest' \in Nat \ {0} /\ maxsamples' \in Nat
    BY <2>1 DEF Sampled
  <2> QED
    BY <2>1, <2>2, <2>3, <2>4 DEF Sampled
<1>7. ASSUME pc # "idle", pc' # "idle", pc' # "return", UNCHANGED <<params, sampler>>
      PROVE  Sampled'
  BY <1>7 DEF params, sampler, Sampled, Keeps, ManyOf
<1>8. CASE ClearBegin \/ ClearStep \/ ClearFails
  BY <1>7, <1>8 DEF ClearBegin, ClearStep, ClearFails
<1>9. CASE Measure
  <2>1. PICK val \in Int : values' = Added(val) /\ taken' = Append(taken, val)
    <3>1. CompCounted \subseteq Int /\ Counted \subseteq Int
      BY DEF FcycAssumption
    <3> QED
      BY <1>9, <3>1 DEF Measure
  <2>2. /\ samplecount' = samplecount + 1 /\ kbest' = kbest /\ maxsamples' = maxsamples
        /\ result' = result /\ pc' # "idle" /\ pc # "idle"
    BY <1>9 DEF Measure, params, ToSample
  <2>3. /\ Added(val) \in [1 .. kbest -> Int]
        /\ \E to : Keeps(Added(val), samplecount + 1, Append(taken, val), to)
    <3>1. samplecount \in Nat /\ kbest \in Nat
      BY DEF Sampled
    <3> QED
      BY <2>2, <3>1, AddedToPart, AddedForLast, AddedNowhere
  <2>4. \E at : Keeps(values, samplecount, taken, at)'
    BY <2>1, <2>2, <2>3 DEF Keeps, ManyOf
  <2>5. values' \in [1 .. kbest' -> Int]
    BY <2>1, <2>2, <2>3
  <2>6. /\ taken' \in Seq(Int) /\ samplecount' = Len(taken') /\ samplecount' \in Nat
        /\ samplecount' > 0 /\ result' = NULL /\ kbest' \in Nat \ {0} /\ maxsamples' \in Nat
    BY <2>1, <2>2 DEF Sampled
  <2> QED
    BY <2>2, <2>4, <2>5, <2>6 DEF Sampled
<1>10. CASE Return
  <2>1. /\ pc = "return" /\ result' = values[1] /\ values' = NULL /\ pc' = "idle"
        /\ UNCHANGED <<params, samplecount, taken>>
    BY <1>10 DEF Return
  <2>2. PICK at : Keeps(values, samplecount, taken, at)
    BY <2>1 DEF Sampled
  <2>3. /\ kbest \in Nat \ {0} /\ samplecount \in Nat /\ samplecount > 0 /\ taken \in Seq(Int)
        /\ values \in [1 .. kbest -> Int] /\ ManyOf(samplecount) \in Nat
        /\ ManyOf(samplecount) > 0 /\ ManyOf(samplecount) <= kbest
    BY <2>1 DEF Sampled, ManyOf
  <2> DEFINE many == ManyOf(samplecount)
  <2>4. /\ at \in [1 .. many -> DOMAIN taken] /\ \A j \in 1 .. many : values[j] = taken[at[j]]
        /\ Ascends(values, many)
    BY <2>2 DEF Keeps, Holds
  <2>5. \A j \in DOMAIN taken :
          (\E k \in 1 .. many : at[k] = j) \/ \A k \in 1 .. many : values[k] <= taken[j]
    BY <2>2 DEF Keeps
  <2> HIDE DEF many
  <2>6. many \in Nat /\ many > 0 /\ many <= kbest /\ 1 \in 1 .. many
    BY <2>3 DEF many
  <2>7. at[1] \in DOMAIN taken /\ values[1] = taken[at[1]]
    BY <2>4, <2>6
  <2>8. ASSUME NEW j \in DOMAIN taken PROVE values[1] <= taken[j]
    <3>1. CASE \A k \in 1 .. many : values[k] <= taken[j]
      BY <2>6, <3>1
    <3>2. ASSUME NEW k \in 1 .. many, at[k] = j PROVE values[1] <= taken[j]
      <4>1. values[k] = taken[j] /\ values[k] \in Int
        BY <2>3, <2>4, <2>6, <3>2
      <4>2. CASE k = 1
        BY <4>1, <4>2
      <4>3. CASE k > 1
        BY <2>4, <2>6, <4>1, <4>3 DEF Ascends
      <4> QED
        BY <4>2, <4>3
    <3> QED
      BY <2>5, <3>1, <3>2
  <2> QED
    BY <2>1, <2>7, <2>8 DEF Sampled, params
<1>11. CASE Exited
  BY <1>1, <1>11 DEF Exited
<1> QED
  BY <1>1, <1>3, <1>4, <1>5, <1>6, <1>8, <1>9, <1>10, <1>11 DEF Next, Step

\* What is kept is what KeepsTheLeast asks.
LEMMA SampledKeeps ==
  ASSUME FcycAssumption, Sampled
  PROVE  KeepsTheLeast
<1>1. NULL \notin Int
  BY DEF FcycAssumption
<1>2. ASSUME values # NULL
      PROVE  /\ \A i, j \in 1 .. Many : i < j => values[i] <= values[j]
             /\ \E at \in Injection(1 .. Many, DOMAIN taken) :
                  /\ \A i \in 1 .. Many : values[i] = taken[at[i]]
                  /\ \A j \in DOMAIN taken :
                       (\E i \in 1 .. Many : at[i] = j) \/ \A i \in 1 .. Many : values[i] <= taken[j]
  <2>1. Many = ManyOf(samplecount)
    BY DEF Many, ManyOf
  <2>2. PICK at : Keeps(values, samplecount, taken, at)
    BY <1>2 DEF Sampled
  <2>3. Holds(values, Many, taken, at)
    BY <2>1, <2>2 DEF Keeps
  <2>4. at \in Injection(1 .. Many, DOMAIN taken)
    BY <2>3 DEF Holds, Injection, IsInjective
  <2> QED
    BY <2>1, <2>2, <2>3, <2>4 DEF Keeps, Holds, Ascends
<1>3. result # NULL => /\ \E j \in DOMAIN taken : result = taken[j]
                       /\ \A j \in DOMAIN taken : result <= taken[j]
  BY DEF Sampled
<1> QED
  BY <1>2, <1>3 DEF KeepsTheLeast

\* The k least samples of a call are kept in order, its answer is the least of
\* all, and no call takes more samples than allowed or none.
THEOREM AlwaysSamplesRight ==
  ASSUME FcycAssumption
  PROVE  MCSpec => []SamplesRight
<1>1. MCInit => Sampled /\ SamplesLeft
  BY InitSampled, InitSamplesLeft DEF MCInit
<1>2. Sampled /\ SamplesLeft /\ [MCNext]_mcVars => (Sampled /\ SamplesLeft)'
  <2> SUFFICES ASSUME Sampled, SamplesLeft, [MCNext]_mcVars PROVE (Sampled /\ SamplesLeft)'
    OBVIOUS
  <2>1. [Next]_vars
    BY DEF MCNext, mcVars, FcycAlone, ClockAlone, FtimerAlone
  <2> QED
    BY <2>1, NextSampled, NextSamplesLeft
<1>3. Sampled /\ SamplesLeft => SamplesRight
  BY SampledKeeps, SamplesLeftBounds DEF SamplesRight
<1> QED
  BY <1>1, <1>2, <1>3, PTL DEF MCSpec

-----------------------------------------------------------------------------
(* Words and parts of words.                                               *)

\* A number is its quotient and its remainder.
LEMMA Parts ==
  ASSUME NEW w \in Nat \ {0}, NEW x \in Int
  PROVE  /\ x = w * (x \div w) + (x % w)
         /\ x % w \in 0 .. w - 1 /\ x \div w \in Int
         /\ x \in Nat => x \div w \in Nat
OBVIOUS

\* ... and no other.
LEMMA OnlyParts ==
  ASSUME NEW w \in Nat \ {0}, NEW q \in Int, NEW r \in 0 .. w - 1, NEW x \in Int, x = w * q + r
  PROVE  x % w = r /\ x \div w = q
OBVIOUS

\* Low words subtracted: the difference, or a word more where one is borrowed,
\* and the result above the minuend says which.
LEMMA LowWords ==
  ASSUME NEW w \in Nat \ {0}, NEW a \in 0 .. w - 1, NEW b \in 0 .. w - 1
  PROVE  LET low    == (a - b) % w
             borrow == IF low > a THEN 1 ELSE 0
         IN low = a - b + w * borrow /\ low \in 0 .. w - 1
<1>1. CASE a >= b
  <2>1. a - b \in 0 .. w - 1 /\ a - b = w * 0 + (a - b)
    BY <1>1
  <2>2. (a - b) % w = a - b
    BY <2>1, OnlyParts
  <2> QED
    BY <2>1, <2>2
<1>2. CASE a < b
  <2>1. a - b + w \in 0 .. w - 1 /\ a - b = w * (-1) + (a - b + w) /\ a - b + w > a
    BY <1>2
  <2>2. (a - b) % w = a - b + w
    BY <2>1, OnlyParts
  <2> QED
    BY <2>1, <2>2
<1> QED
  BY <1>1, <1>2

\* High words subtracted: what the words above them differ by, as long as that
\* fits in a word.
LEMMA HighWords ==
  ASSUME NEW w \in Nat \ {0}, NEW a \in Nat, NEW b \in Nat, NEW c \in 0 .. 1,
         a - b - c \in 0 .. w - 1
  PROVE  ((a % w) - (b % w) - c) % w = a - b - c
<1>1. /\ a = w * (a \div w) + (a % w) /\ b = w * (b \div w) + (b % w)
      /\ a % w \in Int /\ b % w \in Int /\ a \div w \in Int /\ b \div w \in Int
  BY Parts
<1> DEFINE z == (a % w) - (b % w) - c
           q == (b \div w) - (a \div w)
           r == a - b - c
<1>2. z = w * q + r /\ q \in Int /\ z \in Int /\ r \in 0 .. w - 1
  BY <1>1
<1> HIDE DEF z, q, r
<1>3. z % w = r
  BY <1>2, OnlyParts, Zenon
<1> QED
  BY <1>3 DEF z, r

\* The two-word subtraction gives the difference of the counts, if that fits in
\* two words.
LEMMA TwoWords ==
  ASSUME Clock!ClockAssumption, NEW x \in Nat, NEW y \in Nat, y <= x, x - y < Word * Word
  PROVE  Clock!Elapsed(x, Clock!High(y), Clock!Low(y)) = x - y
<1>0. Word \in Nat \ {0}
  BY DEF Clock!ClockAssumption
<1> DEFINE low    == ((x % Word) - (y % Word)) % Word
           borrow == IF low > x % Word THEN 1 ELSE 0
           X == x \div Word
           Y == y \div Word
<1>1. /\ x = Word * X + (x % Word) /\ y = Word * Y + (y % Word)
      /\ x % Word \in 0 .. Word - 1 /\ y % Word \in 0 .. Word - 1
      /\ X \in Nat /\ Y \in Nat
  <2>1. x \in Int /\ y \in Int
    OBVIOUS
  <2> QED
    BY <1>0, <2>1, Parts, Zenon
<1>2. low = (x % Word) - (y % Word) + Word * borrow /\ low \in 0 .. Word - 1 /\ borrow \in 0 .. 1
  <2>1. x % Word \in 0 .. Word - 1 /\ y % Word \in 0 .. Word - 1
    BY <1>1
  <2>2. low = (x % Word) - (y % Word) + Word * borrow /\ low \in 0 .. Word - 1
    BY <1>0, <2>1, LowWords, Zenon
  <2>3. borrow \in 0 .. 1
    OBVIOUS
  <2> QED
    BY <2>2, <2>3
<1>3. ((X % Word) - (Y % Word) - borrow) % Word = X - Y - borrow
  <2> HIDE DEF low, borrow, X, Y
  <2>1. x - y = Word * (X - Y - borrow) + low
    BY <1>0, <1>1, <1>2
  <2>2. X - Y - borrow >= 0
    <3> SUFFICES ASSUME X - Y - borrow < 0 PROVE FALSE
      BY <1>1, <1>2
    <3>1. Word * (X - Y - borrow) <= Word * (-1)
      BY <1>0, <1>1, <1>2
    <3> QED
      BY <1>0, <1>1, <1>2, <2>1, <3>1
  <2>3. X - Y - borrow <= Word - 1
    <3> SUFFICES ASSUME X - Y - borrow >= Word PROVE FALSE
      BY <1>0, <1>1, <1>2
    <3>1. Word * (X - Y - borrow) >= Word * Word
      BY <1>0, <1>1, <1>2
    <3> QED
      BY <1>0, <1>1, <1>2, <2>1, <3>1
  <2>4. X - Y - borrow \in 0 .. Word - 1
    BY <1>0, <1>1, <1>2, <2>2, <2>3
  <2> QED
    BY <1>0, <1>1, <1>2, <2>4, HighWords
<1>4. Clock!Elapsed(x, Clock!High(y), Clock!Low(y)) = (((X % Word) - (Y % Word) - borrow) % Word) * Word + low
  BY DEF Clock!Elapsed, Clock!High, Clock!Low
<1>5. (X - Y - borrow) * Word + low = x - y
  <2> HIDE DEF low, borrow, X, Y
  <2> QED
    BY <1>0, <1>1, <1>2
<1> QED
  <2> HIDE DEF low, borrow, X, Y
  <2> QED
    BY <1>3, <1>4, <1>5

\* The one-word counter gives it while that word has not wrapped.
LEMMA OneWord ==
  ASSUME Clock!ClockAssumption, NEW x \in Nat, NEW y \in Nat, y <= x, y \div Word = x \div Word
  PROVE  Clock!AlphaElapsed(x, Clock!Low(y)) = x - y
<1>0. Word \in Nat \ {0}
  BY DEF Clock!ClockAssumption
<1>1. /\ x = Word * (x \div Word) + (x % Word) /\ y = Word * (x \div Word) + (y % Word)
      /\ x % Word \in 0 .. Word - 1 /\ y % Word \in 0 .. Word - 1 /\ x \div Word \in Nat
  <2>1. x \in Int /\ y \in Int
    OBVIOUS
  <2>2. /\ x = Word * (x \div Word) + (x % Word) /\ y = Word * (y \div Word) + (y % Word)
        /\ x % Word \in 0 .. Word - 1 /\ y % Word \in 0 .. Word - 1 /\ x \div Word \in Nat
    BY <1>0, <2>1, Parts, Zenon
  <2> QED
    BY <2>2, Zenon
<1>2. (x % Word) - (y % Word) = x - y /\ x - y \in 0 .. Word - 1 /\ x % Word >= x - y
  BY <1>0, <1>1
<1>3. (x - y) % Word = x - y /\ (0 - 0 - 0) % Word = 0
  <2>1. x - y = Word * 0 + (x - y) /\ 0 - 0 - 0 = Word * 0 + 0 /\ 0 \in 0 .. Word - 1
    BY <1>0
  <2>2. 0 \in Int /\ x - y \in Int /\ 0 - 0 - 0 \in Int
    OBVIOUS
  <2>3. (x - y) % Word = x - y
    <3> DEFINE d == x - y
    <3>1. d = Word * 0 + d /\ d \in 0 .. Word - 1 /\ d \in Int /\ 0 \in Int
      BY <1>2, <2>1, <2>2
    <3> HIDE DEF d
    <3>2. d % Word = d
      BY <1>0, <3>1, OnlyParts, Zenon
    <3> QED
      BY <3>2 DEF d
  <2>4. (0 - 0 - 0) % Word = 0
    <3> DEFINE d == 0 - 0 - 0
    <3>1. d = Word * 0 + 0 /\ 0 \in 0 .. Word - 1 /\ d \in Int /\ 0 \in Int
      BY <2>1, <2>2
    <3> HIDE DEF d
    <3>2. d % Word = 0
      BY <1>0, <3>1, OnlyParts, Zenon
    <3> QED
      BY <3>2 DEF d
  <2> QED
    BY <2>3, <2>4
<1>4. ((x % Word) - (y % Word)) % Word = x - y
  BY <1>2, <1>3
<1>5. Clock!AlphaElapsed(x, Clock!Low(y)) =
         ((0 - 0 - (IF ((x % Word) - (y % Word)) % Word > x % Word THEN 1 ELSE 0)) % Word) * Word
           + (((x % Word) - (y % Word)) % Word)
  BY DEF Clock!AlphaElapsed, Clock!Low
<1>6. ~(((x % Word) - (y % Word)) % Word > x % Word)
  <2> DEFINE u == ((x % Word) - (y % Word)) % Word
             v == x % Word
  <2>1. u = x - y /\ v >= x - y /\ v \in Int /\ x - y \in Int
    BY <1>1, <1>2, <1>4
  <2> HIDE DEF u, v
  <2>2. ~(u > v)
    BY <2>1
  <2> QED
    BY <2>2 DEF u, v
<1>7. Clock!AlphaElapsed(x, Clock!Low(y)) = ((0 - 0 - 0) % Word) * Word + (x - y)
  BY <1>4, <1>5, <1>6, Zenon
<1>8. ((0 - 0 - 0) % Word) * Word + (x - y) = 0 * Word + (x - y)
  BY <1>3, Zenon
<1>9. 0 * Word + (x - y) = x - y
  BY <1>0
<1> QED
  BY <1>7, <1>8, <1>9

-----------------------------------------------------------------------------
(* clock.c.                                                                *)

\* The stored words are those of the count when they were stored.
Stored ==
  /\ now \in Nat /\ cost \in Nat /\ began.now \in Nat /\ began.now <= now
  /\ hi = Clock!High(began.now) /\ lo = Clock!Low(began.now)

\* All that interrupts took is ticks times what one costs, and at each place of
\* a compensated measurement the difference to the program's own cycles is the
\* cost of the interrupts between the two readings of a pair.
Charged ==
  /\ Uptime <= now /\ now <= CycleHorizon
  /\ reading = "running" => Uptime <= began.now
  /\ ticks \in Int /\ spent = ticks * cost /\ began.spent \in Int
  /\ startTick \in Int /\ edge \in Int /\ time \in Int /\ work \in Int
  /\ reading = "running" => began.spent = (edge + startTick) * cost
  /\ reading = "compensate" => work = time + (edge + startTick) * cost
  /\ reading = "done" /\ cpt = cost => ctime = work - edge * cost

\* Nothing has been measured.
LEMMA InitClock ==
  ASSUME Clock!ClockAssumption, Clock!Init
  PROVE  Stored /\ Charged
<1>1. /\ Word \in Nat \ {0} /\ CycleHorizon \in Nat /\ TickCosts \subseteq Nat
      /\ Uptime \in Nat /\ Uptime <= CycleHorizon
  BY DEF Clock!ClockAssumption
<1>2. 0 % Word = 0 /\ 0 \div Word = 0
  <2>1. 0 = Word * 0 + 0 /\ 0 \in 0 .. Word - 1
    BY <1>1
  <2> QED
    BY <1>1, <2>1, OnlyParts
<1> QED
  BY <1>1, <1>2 DEF Clock!Init, Stored, Charged, Clock!High, Clock!Low

\* Only start_counter writes the stored words, and both at once.
LEMMA NextStored ==
  ASSUME Clock!ClockAssumption, Stored, [Clock!Next]_(Clock!vars)
  PROVE  Stored'
<1> USE DEF Stored
<1>1. ASSUME NEW k \in Steps, Clock!Run(k) PROVE Stored'
  <2>1. k \in Nat
    BY DEF Clock!ClockAssumption
  <2> QED
    BY <1>1, <2>1 DEF Clock!Run, Clock!counter
<1>2. CASE Clock!Tick
  BY <1>2 DEF Clock!Tick, Clock!counter
<1>3. CASE Clock!CalStart \/ Clock!StartComp
  BY <1>3 DEF Clock!CalStart, Clock!StartComp, Clock!StartCounter, Clock!machine
<1>4. CASE \/ Clock!BeginCallibrate \/ Clock!FirstTime \/ Clock!Poll \/ Clock!Event
           \/ Clock!ReadStartTick \/ Clock!ReadTime \/ Clock!Compensate \/ Clock!Again
  <2>1. UNCHANGED <<now, cost, began, hi, lo>>
    BY <1>4 DEF Clock!BeginCallibrate, Clock!FirstTime, Clock!Poll, Clock!Event,
      Clock!ReadStartTick, Clock!ReadTime, Clock!Compensate, Clock!Again, Clock!machine,
      Clock!counter
  <2> QED
    BY <2>1
<1>5. CASE UNCHANGED Clock!vars
  BY <1>5 DEF Clock!vars, Clock!machine, Clock!counter
<1> QED
  BY <1>1, <1>2, <1>3, <1>4, <1>5 DEF Clock!Next, Clock!Program, Clock!Idle

\* The readings and the charge stay in step.
LEMMA NextCharged ==
  ASSUME Clock!ClockAssumption, NoSecondWrap, Stored, Charged, [Clock!Next]_(Clock!vars)
  PROVE  Charged'
<1>0. /\ CycleHorizon \in Nat /\ Word \in Nat \ {0} /\ now \in Int /\ cost \in Int /\ ticks \in Int
      /\ spent = ticks * cost /\ began.spent \in Int /\ began.now \in Int
      /\ startTick \in Int /\ edge \in Int /\ time \in Int /\ work \in Int /\ now <= CycleHorizon
      /\ Uptime \in Nat /\ Uptime <= now
      /\ \A k \in Steps : k \in Nat
  BY DEF Clock!ClockAssumption, Stored, Charged
<1>1. ASSUME NEW k \in Steps, Clock!Run(k) PROVE Charged'
  <2>1. now' = now + k /\ now' <= CycleHorizon /\ k \in Nat
    BY <1>0, <1>1 DEF Clock!Run
  <2>2. now' \in Int /\ Uptime <= now'
    BY <1>0, <2>1
  <2> QED
    BY <1>1, <2>1, <2>2 DEF Clock!Run, Clock!counter, Charged
<1>2. CASE Clock!Tick
  <2>1. (ticks + 1) * cost = ticks * cost + cost /\ ticks + 1 \in Int
    BY <1>0
  <2>2. spent' = ticks' * cost'
    BY <1>0, <1>2, <2>1 DEF Clock!Tick
  <2>3. Uptime <= now'
    <3>1. cost \in Nat
      BY DEF Clock!ClockAssumption, Stored
    <3> QED
      BY <1>0, <1>2, <3>1 DEF Clock!Tick
  <2> QED
    BY <1>2, <2>1, <2>2, <2>3 DEF Clock!Tick, Clock!counter, Charged
<1>3. CASE Clock!CalStart
  <2>1. spent \in Int
    BY <1>0
  <2> QED
    BY <1>3, <2>1 DEF Clock!CalStart, Clock!StartCounter, Clock!Goto, Clock!machine, Charged
<1>4. CASE Clock!StartComp
  <2>1. spent \in Int /\ ticks - startTick \in Int /\ spent = ((ticks - startTick) + startTick) * cost
    BY <1>0
  <2> QED
    BY <1>4, <2>1 DEF Clock!StartComp, Clock!StartCounter, Clock!Goto, Clock!machine, Charged
<1>5. CASE Clock!ReadTime
  <2>1. Clock!GetCounter = now - began.now
    <3>1. now - began.now < Word * Word
      <4>1. began.now >= Uptime
        BY <1>5 DEF Clock!ReadTime, Charged
      <4>2. Word * Word \in Int
        BY <1>0
      <4> QED
        BY <1>0, <4>1, <4>2 DEF NoSecondWrap
    <3> QED
      BY <3>1, TwoWords DEF Stored, Clock!GetCounter
  <2>2. /\ time' = now - began.now /\ work' = (now - began.now) - (spent - began.spent)
        /\ edge' = edge - ticks /\ reading' = "compensate"
        /\ UNCHANGED <<now, ticks, spent, cost, began, cpt, startTick, ctime>>
    BY <1>5, <2>1 DEF Clock!ReadTime, Clock!Goto, Clock!machine, Clock!counter
  <2>3. began.spent = (edge + startTick) * cost
    BY <1>5 DEF Clock!ReadTime, Charged
  <2>4. work' = time' + (edge' + startTick') * cost'
    <3>1. (edge + startTick) * cost - ticks * cost = ((edge - ticks) + startTick) * cost
      BY <1>0
    <3>2. (edge + startTick) * cost \in Int /\ ticks * cost \in Int
      BY <1>0
    <3> QED
      BY <1>0, <2>2, <2>3, <3>1, <3>2
  <2>5. time' \in Int /\ work' \in Int /\ edge' \in Int
    <3>1. spent \in Int
      BY <1>0
    <3> QED
      BY <1>0, <2>2, <3>1
  <2> QED
    BY <2>2, <2>4, <2>5 DEF Charged
<1>6. CASE Clock!Compensate
  <2>1. /\ ctime' = time - (ticks - startTick) * cpt /\ edge' = edge + ticks /\ reading' = "done"
        /\ UNCHANGED <<now, ticks, spent, cost, began, cpt, startTick, time, work>>
    BY <1>6 DEF Clock!Compensate, Clock!Goto, Clock!machine, Clock!counter
  <2>2. work = time + (edge + startTick) * cost
    BY <1>6 DEF Clock!Compensate, Charged
  <2>3. cpt' = cost' => ctime' = work' - edge' * cost'
    <3>1. (edge + startTick) * cost - (edge + ticks) * cost = -((ticks - startTick) * cost)
      BY <1>0
    <3>2. /\ (edge + startTick) * cost \in Int /\ (edge + ticks) * cost \in Int
          /\ (ticks - startTick) * cost \in Int
      BY <1>0
    <3> QED
      BY <1>0, <2>1, <2>2, <3>1, <3>2
  <2>4. edge' \in Int
    BY <1>0, <2>1
  <2> QED
    BY <2>1, <2>3, <2>4 DEF Charged
<1>7. CASE \/ Clock!BeginCallibrate \/ Clock!FirstTime \/ Clock!Poll \/ Clock!Event
           \/ Clock!ReadStartTick \/ Clock!Again
  <2>1. /\ UNCHANGED <<now, ticks, spent, cost, began, time, work, edge, ctime>>
        /\ reading' \in {"calstart", "poll", "event", "start", "idle"}
        /\ startTick' \in {startTick, ticks}
    BY <1>7 DEF Clock!BeginCallibrate, Clock!FirstTime, Clock!Poll, Clock!Event,
      Clock!ReadStartTick, Clock!Again, Clock!Goto, Clock!machine, Clock!counter
  <2> QED
    BY <1>0, <2>1 DEF Charged
<1>8. CASE UNCHANGED Clock!vars
  BY <1>8 DEF Clock!vars, Clock!machine, Clock!counter, Charged
<1> QED
  BY <1>1, <1>2, <1>3, <1>4, <1>5, <1>6, <1>7, <1>8 DEF Clock!Next, Clock!Program, Clock!Idle

\* From the stored words the counter measures what elapsed.
LEMMA StoredMeasures ==
  ASSUME Clock!ClockAssumption, Stored
  PROVE  Clock!MeasuresElapsed
BY TwoWords, OneWord DEF Stored, Clock!MeasuresElapsed, Clock!GetCounter

-----------------------------------------------------------------------------
(* ftimer.c.                                                               *)

\* The day of the interval timer, in microseconds.
Span == Million * MaxEtime

\* Of each measurement: how much of the span is left, and where the runs are.
Timed ==
  /\ clock \in Int /\ opened \in Int /\ left \in Int /\ made \in Int /\ asked \in Int
  /\ package \in {"ITIMER", "GETTOD"} /\ start \in Int
  /\ package = "GETTOD" => left = 0
  /\ timing \in {"idle", "init", "start", "loop", "killed"}
  /\ timing = "idle" => tmeas = ended - opened /\ runs = asked /\ made = asked
  /\ timing \in {"init", "start"} => made = 0 /\ runs = 0 /\ asked >= 0
  /\ timing = "init" => package = "ITIMER"
  /\ timing = "start" /\ package = "ITIMER" => left = Span
  /\ timing = "loop" =>
       /\ runs = made /\ made <= asked
       /\ package = "GETTOD" => start = opened
       /\ package = "ITIMER" => start = 0 /\ left > 0 /\ left = Span - (clock - opened)
  /\ timing = "killed" => made = asked \/ clock - opened >= Span

\* A span is some microseconds.
LEMMA SpanPositive == ASSUME Ftimer!FtimerAssumption PROVE Span \in Nat \ {0}
BY DEF Ftimer!FtimerAssumption, Span

\* Seconds and microseconds taken off each other are the time between.
LEMMA SplitTimes ==
  ASSUME Ftimer!FtimerAssumption, NEW s \in Int, NEW e \in Int
  PROVE  Ftimer!Gettod(s, e) = e - s /\ Ftimer!Etime(e) = Span - e
<1>0. Million \in Nat \ {0} /\ MaxEtime \in Nat
  BY DEF Ftimer!FtimerAssumption
<1> DEFINE S == s \div Million
           E == e \div Million
           su == s % Million
           eu == e % Million
<1>1. s = Million * S + su /\ e = Million * E + eu /\ su \in Int /\ eu \in Int /\ S \in Int /\ E \in Int
  BY <1>0, Parts
<1>2. /\ Ftimer!Gettod(s, e) = Million * (E - S) + (eu - su)
      /\ Ftimer!Etime(e) = Million * (MaxEtime - E) + (0 - eu)
  BY DEF Ftimer!Gettod, Ftimer!Etime, Ftimer!Micros, Ftimer!Split
<1> HIDE DEF S, E, su, eu
<1>3. /\ Million * (E - S) = Million * E - Million * S
      /\ Million * (MaxEtime - E) = Million * MaxEtime - Million * E
      /\ Million * E \in Int /\ Million * S \in Int /\ Million * MaxEtime \in Int
  BY <1>0, <1>1
<1> QED
  BY <1>0, <1>1, <1>2, <1>3 DEF Span

\* Before the first call.
LEMMA InitTimed == ASSUME Ftimer!FtimerAssumption, Ftimer!Init PROVE Timed
BY DEF Ftimer!FtimerAssumption, Ftimer!Init, Timed

\* The interval timer and the runs.
LEMMA NextTimed ==
  ASSUME Ftimer!FtimerAssumption, Timed, [Ftimer!Next]_(Ftimer!vars)
  PROVE  Timed'
<1>0. Span \in Nat \ {0} /\ Million * MaxEtime = Span
  BY SpanPositive DEF Span
<1>1. ASSUME NEW m \in Ns, Ftimer!Fsecs(m) PROVE Timed'
  <2>1. m \in Int /\ m >= 0
    BY DEF Ftimer!FtimerAssumption
  <2> QED
    BY <1>1, <2>1 DEF Ftimer!Fsecs, Timed
<1>2. CASE Ftimer!InitEtime
  BY <1>0, <1>2 DEF Ftimer!InitEtime, Timed
<1>3. CASE Ftimer!Start
  <2>1. Ftimer!Etime(left) = Span - left
    BY SplitTimes DEF Timed
  <2>2. /\ start' = IF package = "ITIMER" THEN Span - left ELSE clock
        /\ opened' = clock /\ timing' = "loop" /\ timing = "start"
        /\ UNCHANGED <<package, clock, left, asked, made, tmeas, runs, ended>>
    BY <1>3, <2>1 DEF Ftimer!Start
  <2> QED
    BY <1>0, <2>2 DEF Timed
<1>4. CASE Ftimer!Stop
  <2>1. Ftimer!Etime(left) = Span - left /\ Ftimer!Gettod(start, clock) = clock - start
    BY SplitTimes DEF Timed
  <2>2. /\ tmeas' = IF package = "ITIMER" THEN (Span - left) - start ELSE clock - start
        /\ ended' = clock /\ timing' = "idle" /\ timing = "loop" /\ made = asked
        /\ UNCHANGED <<package, clock, left, asked, made, start, runs, opened>>
    BY <1>4, <2>1 DEF Ftimer!Stop
  <2>3. tmeas' = clock - opened
    BY <1>0, <2>2 DEF Timed
  <2> QED
    BY <2>2, <2>3 DEF Timed
<1>5. ASSUME NEW t \in RunCosts, Ftimer!Run(t) \/ Ftimer!Alarm(t) \/ Ftimer!Between(t) PROVE Timed'
  <2>0. t \in Nat
    BY DEF Ftimer!FtimerAssumption
  <2>1. CASE Ftimer!Run(t)
    <3>1. /\ timing = "loop" /\ made < asked /\ ~(left > 0 /\ t >= left)
          /\ clock' = clock + t /\ left' = IF left > t THEN left - t ELSE 0
          /\ made' = made + 1 /\ runs' = runs + 1
          /\ UNCHANGED <<package, asked, start, tmeas, opened, ended, timing>>
      BY <2>1 DEF Ftimer!Run, Ftimer!Expires, Ftimer!Pass
    <3> QED
      BY <1>0, <2>0, <3>1 DEF Timed
  <2>2. CASE Ftimer!Alarm(t)
    <3>1. /\ timing = "loop" /\ made < asked /\ left > 0 /\ t >= left
          /\ clock' = clock + t /\ left' = IF left > t THEN left - t ELSE 0
          /\ timing' = "killed"
          /\ UNCHANGED <<package, asked, made, start, tmeas, runs, opened, ended>>
      BY <2>2 DEF Ftimer!Alarm, Ftimer!Expires, Ftimer!Pass
    <3> QED
      BY <1>0, <2>0, <3>1 DEF Timed
  <2>3. CASE Ftimer!Between(t)
    <3>1. /\ timing = "idle" /\ timing' \in {"idle", "killed"}
          /\ clock' = clock + t /\ left' = IF left > t THEN left - t ELSE 0
          /\ UNCHANGED <<package, asked, made, start, tmeas, runs, opened, ended>>
      BY <2>3 DEF Ftimer!Between, Ftimer!Expires, Ftimer!Pass
    <3> QED
      BY <1>0, <2>0, <3>1 DEF Timed
  <2> QED
    BY <1>5, <2>1, <2>2, <2>3
<1>6. CASE UNCHANGED Ftimer!vars
  BY <1>6 DEF Ftimer!vars, Timed
<1> QED
  BY <1>1, <1>2, <1>3, <1>4, <1>5, <1>6 DEF Ftimer!Next

\* What is measured is the time between the two looks, and only a run of the
\* whole span is cut off.
LEMMA TimedMeasures ==
  ASSUME Ftimer!FtimerAssumption, Timed
  PROVE  Ftimer!MeasuresTheRuns /\ Ftimer!OnlyLongRunsAreKilled
BY DEF Timed, Span, Ftimer!MeasuresTheRuns, Ftimer!OnlyLongRunsAreKilled

-----------------------------------------------------------------------------
(* The package.                                                            *)

\* A step of the suite is one of each part, or leaves it alone.
LEMMA Steps3 ==
  /\ MCInit => Init /\ Clock!Init /\ Ftimer!Init
  /\ [MCNext]_mcVars =>
       [Next]_vars /\ [Clock!Next]_(Clock!vars) /\ [Ftimer!Next]_(Ftimer!vars)
<1>1. MCInit => Init /\ Clock!Init /\ Ftimer!Init
  BY DEF MCInit
<1>2. ASSUME UNCHANGED clockVars PROVE UNCHANGED Clock!vars
  BY <1>2 DEF clockVars, Clock!vars, Clock!machine, Clock!counter
<1>3. ASSUME UNCHANGED ftimerVars PROVE UNCHANGED Ftimer!vars
  BY <1>3 DEF ftimerVars, Ftimer!vars
<1>4. ASSUME [MCNext]_mcVars
      PROVE  [Next]_vars /\ [Clock!Next]_(Clock!vars) /\ [Ftimer!Next]_(Ftimer!vars)
  <2>1. CASE FcycAlone /\ Next
    BY <1>2, <1>3, <2>1 DEF FcycAlone
  <2>2. CASE ClockAlone /\ Clock!Next
    BY <1>3, <2>2 DEF ClockAlone
  <2>3. CASE FtimerAlone /\ Ftimer!Next
    BY <1>2, <2>3 DEF FtimerAlone
  <2>4. CASE UNCHANGED mcVars
    BY <1>2, <1>3, <2>4 DEF mcVars
  <2> QED
    BY <1>4, <2>1, <2>2, <2>3, <2>4 DEF MCNext
<1> QED
  BY <1>1, <1>4

\* get_counter gives the cycles since start_counter for words of any size, over
\* every carry and borrow, up to two words; the Alpha's up to one (get_counter).
THEOREM AlwaysMeasuresElapsed ==
  ASSUME Clock!ClockAssumption
  PROVE  MCSpec => []MeasuresElapsed
<1>1. MCInit => Stored
  BY Steps3, InitClock
<1>2. Stored /\ [MCNext]_mcVars => Stored'
  BY Steps3, NextStored
<1>3. Stored => MeasuresElapsed
  BY StoredMeasures DEF MeasuresElapsed
<1> QED
  BY <1>1, <1>2, <1>3, PTL DEF MCSpec

\* Compensation takes off exactly the interrupts between the two pairs of
\* readings; ftimer measures the time its runs took, by either clock; and only
\* a measurement as long as the timer's span is ended by it.
THEOREM AlwaysTimersRight ==
  ASSUME Clock!ClockAssumption, NoSecondWrap, Ftimer!FtimerAssumption
  PROVE  MCSpec => []TimersRight
<1> DEFINE Both == Stored /\ Charged /\ Timed
<1>1. MCInit => Both
  BY Steps3, InitClock, InitTimed
<1>2. Both /\ [MCNext]_mcVars => Both'
  BY Steps3, NextStored, NextCharged, NextTimed
<1>3. Both => TimersRight
  BY TimedMeasures DEF TimersRight, Charged, Clock!Compensated
<1> HIDE DEF Both
<1> QED
  BY <1>1, <1>2, <1>3, PTL DEF MCSpec
=============================================================================
