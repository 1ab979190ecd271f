------------------------------ MODULE Mdriver ------------------------------
(***************************************************************************)
(* malloc-lab-main/mdriver.c as a judge: main reads traces and replays     *)
(* each of them on libc's malloc, if asked, and then on mm.c, to check it, *)
(* to measure its use of space and to time it.  The allocator is external  *)
(* here and may answer anything: Mm has the one of mm.c.  Its ghost `good` *)
(* says whether all its answers have been right.                           *)
(***************************************************************************)
EXTENDS Integers, Sequences, FiniteSets, SequencesExt

CONSTANTS
  Traces,      \* what a trace file may hold: sequences of requests
  NumTraces,   \* num_tracefiles
  HeapMax,     \* bytes of the simulated memory, from address 0 on
  Alignment,
  ByteBits,    \* the width of a char
  Replays,     \* how often fsecs calls the timed function at most
  RunLibc      \* the -l option

Requests == [type : {"alloc", "realloc", "free"}, id : Nat, size : Nat]

\* The ids that are live before the request at k: allocated, and not freed since.
LiveBefore(tr, k) ==
  {tr[j].id : j \in {i \in 1 .. k - 1 :
     /\ tr[i].type = "alloc"
     /\ \A h \in i + 1 .. k - 1 : ~(tr[h].type = "free" /\ tr[h].id = tr[i].id)}}

\* What traces/checktrace.pl checks of every trace of the lab, and add_range's
\* assert(size > 0).
Consistent(tr) == \A k \in DOMAIN tr :
  /\ tr[k].type = "alloc" <=> tr[k].id \notin LiveBefore(tr, k)
  /\ tr[k].type # "free" => tr[k].size > 0

MdriverAssumption ==
  /\ NumTraces \in Nat \ {0} /\ HeapMax \in Nat /\ Alignment \in Nat \ {0}
  /\ ByteBits \in Nat \ {0} /\ Replays \in Nat \ {0} /\ RunLibc \in BOOLEAN
  /\ \A tr \in Traces : tr \in Seq(Requests) /\ Consistent(tr)

Byte == 0 .. 2 ^ ByteBits - 1
Ids == UNION {{trace[k].id : k \in DOMAIN trace} : trace \in Traces}

VARIABLES
  package,   \* libc or mm: the loop of main
  num,       \* tracenum
  stage,     \* what main does with the trace
  trace,     \* the requests read_trace stored
  op,        \* the request to come; 0 before the replay is set up
  blocks,    \* trace->blocks
  sizes,     \* trace->block_sizes
  ranges,    \* the range list, newest first
  mem,       \* the bytes of the heap
  brk,       \* bytes the allocator has taken from the memory system
  total, hwm,   \* total_size and max_total_size of eval_mm_util
  replays,   \* replays left to the timing package
  errors,    \* the global count of malloc_error
  valid,     \* the valid field of mm_stats
  live,      \* ghost: the blocks the allocator owes, id by id: [lo, size]
  good       \* ghost: has every answer of this replay been right?

replay == <<trace, blocks, sizes, ranges, mem, brk, total, hwm, live, good>>
vars == <<package, num, stage, op, replays, errors, valid, replay>>

Wild == -1    \* the content of memory that malloc has just returned

Init ==
  /\ package = IF RunLibc THEN "libc" ELSE "mm"
  /\ num = 1 /\ stage = "read" /\ op = 0
  /\ trace = <<>> /\ blocks = <<>> /\ sizes = <<>> /\ ranges = <<>>
  /\ mem = [a \in 0 .. HeapMax - 1 |-> 0] /\ brk = 0
  /\ total = 0 /\ hwm = 0 /\ replays = 0 /\ errors = 0
  /\ valid = [n \in 1 .. NumTraces |-> FALSE]
  /\ live = <<>> /\ good = TRUE

Addresses == -Alignment .. HeapMax
Payload(lo, size) == lo .. lo + size - 1

-----------------------------------------------------------------------------
(* The range list.                                                         *)

Overlaps(lo, hi, r) == lo \in r.lo .. r.hi \/ hi \in r.lo .. r.hi

\* A mistake: only the payload's start is looked at.
AcceptsStartOnly(list, top, lo, size) ==
  /\ lo % Alignment = 0
  /\ lo \in 0 .. top - 1 /\ lo + size - 1 \in 0 .. top - 1
  /\ \A k \in DOMAIN list : lo \notin list[k].lo .. list[k].hi

\* add_range's tests: aligned, inside the heap, and no end in an old payload.
Accepts(list, top, lo, size) ==
  /\ lo % Alignment = 0
  /\ lo \in 0 .. top - 1 /\ lo + size - 1 \in 0 .. top - 1
  /\ \A k \in DOMAIN list : ~Overlaps(lo, lo + size - 1, list[k])

AddRange(list, lo, size) == <<[lo |-> lo, hi |-> lo + size - 1]>> \o list

\* A mistake: nothing is taken off the list.
RemoveNoRange(list, lo) == list

\* remove_range: the first record that starts at lo.
RemoveRange(list, lo) ==
  LET at == SelectInSeq(list, LAMBDA r : r.lo = lo)
  IN IF at = 0 THEN list ELSE RemoveAt(list, at)

-----------------------------------------------------------------------------
(* The allocator: its answers, right or wrong.                             *)

Request == trace[op]
Disjoint(p, size, others) ==
  \A id \in others : Payload(p, size) \intersect Payload(live[id].lo, live[id].size) = {}

\* A new payload among the blocks of `others`, in a heap of `top` bytes.
RightPlace(p, size, others, top) ==
  /\ p % Alignment = 0
  /\ Payload(p, size) \subseteq 0 .. top - 1
  /\ Disjoint(p, size, others)

\* What the allocator may do to the bytes: nothing, or write where it should
\* not.
Scribbled(m) ==
  {m} \union {[m EXCEPT ![a] = 2 ^ (ByteBits - 1) - 1 - @] : a \in {0, HeapMax - 1} \intersect DOMAIN m}

\* The bytes from `to` on are those that were from `from` on.
SameBytes(m, to, from, n) == \A j \in 0 .. n - 1 : m[to + j] = mem[from + j]
KeepsData(m, others) ==
  \A id \in others : SameBytes(m, live[id].lo, live[id].lo, live[id].size)

Lesser(a, b) == IF a < b THEN a ELSE b

\* The bytes of the old block moved to p.
Moved(old, p, size) ==
  [a \in DOMAIN mem |-> IF a \in Payload(p, Lesser(old.size, size)) /\ old.lo + (a - p) \in DOMAIN mem
                        THEN mem[old.lo + (a - p)] ELSE mem[a]]

-----------------------------------------------------------------------------
(* main's loops.                                                           *)

Goto(s) == stage' = s /\ op' = 0

\* read_trace, from a file whose header counts what follows; the arrays of
\* blocks and sizes come from malloc and are not set.
ReadTrace ==
  /\ stage = "read"
  /\ trace' \in Traces
  /\ blocks' = [id \in Ids |-> Wild] /\ sizes' = [id \in Ids |-> Wild]
  /\ Goto("valid")
  /\ UNCHANGED <<package, num, replays, errors, valid, ranges, mem, brk, total, hwm, live, good>>

\* The start of a replay: mem_reset_brk, clear_ranges where the trace is
\* checked, mm_init.
SetUp ==
  /\ stage \in {"valid", "util", "speed"} /\ op = 0
  /\ op' = 1
  /\ IF package = "mm" THEN brk' = 0 ELSE UNCHANGED brk
  /\ ranges' = IF package = "mm" /\ stage = "valid" THEN <<>> ELSE ranges
  /\ total' = 0 /\ hwm' = 0
  /\ live' = <<>> /\ good' = TRUE
  /\ UNCHANGED <<package, num, stage, trace, blocks, sizes, mem, replays, errors, valid>>

\* A mistake: the error is printed and not counted.
RejectUncounted ==
  /\ Goto("free")
  /\ UNCHANGED <<package, num, replays, errors, valid>>

\* malloc_error and return 0: the trace is not valid.
Reject ==
  /\ errors' = errors + 1
  /\ Goto("free")
  /\ UNCHANGED <<package, num, replays, valid>>

\* app_error and unix_error.
Leave ==
  /\ Goto("failed")
  /\ UNCHANGED <<package, num, replays, errors, valid>>

Proceed ==
  /\ op' = op + 1
  /\ UNCHANGED <<package, num, stage, replays, errors, valid>>

\* NULL from the allocator, or mm_init < 0.
Refused ==
  /\ stage \in {"valid", "util", "speed"}
  /\ \/ op = 0 /\ package = "mm"
     \/ op \in DOMAIN trace /\ Request.type # "free"
  /\ IF stage = "valid" /\ package = "mm" THEN Reject ELSE Leave
  /\ good' = FALSE
  /\ UNCHANGED <<trace, blocks, sizes, ranges, mem, brk, total, hwm, live>>

Playing(type) == stage \in {"valid", "util", "speed"} /\ op \in DOMAIN trace /\ Request.type = type
Checked == package = "mm" /\ stage = "valid"

\* A mistake: a replay without checks keeps the addresses of the one with.
RememberChecked(id, p, size) ==
  /\ blocks' = IF Checked \/ blocks[id] = Wild THEN [blocks EXCEPT ![id] = p] ELSE blocks
  /\ sizes' = [sizes EXCEPT ![id] = size]

\* A block of the tester's books.
Remember(id, p, size) ==
  /\ blocks' = [blocks EXCEPT ![id] = p]
  /\ sizes' = IF package = "mm" /\ stage # "speed" THEN [sizes EXCEPT ![id] = size] ELSE sizes

\* A mistake: the high water mark is kept before the change is counted.
CountLate(change) ==
  IF stage = "util" /\ package = "mm"
  THEN total' = total + change /\ hwm' = IF total > hwm THEN total ELSE hwm
  ELSE UNCHANGED <<total, hwm>>

\* eval_mm_util's count, of a change of the live bytes.
Count(change) ==
  IF stage = "util" /\ package = "mm"
  THEN /\ total' = total + change
       /\ hwm' = IF total + change > hwm THEN total + change ELSE hwm
  ELSE UNCHANGED <<total, hwm>>

\* The low byte of the id, as memset stores it.
LowByte(id) == id % 2 ^ ByteBits
Filled(m, p, size, id) == [a \in DOMAIN m |-> IF a \in Payload(p, size) THEN LowByte(id) ELSE m[a]]

\* A char that holds b, as an int: char is signed.
AsChar(b) == IF b >= 2 ^ (ByteBits - 1) THEN b - 2 ^ ByteBits ELSE b

\* A malloc request answered with p.
Alloc(p, top, m) ==
  /\ Playing("alloc")
  /\ LET id == Request.id
         size == Request.size
     IN /\ good' = (good /\ RightPlace(p, size, DOMAIN live, top) /\ KeepsData(m, DOMAIN live))
        /\ brk' = top
        /\ live' = [x \in DOMAIN live \union {id} |-> IF x = id THEN [lo |-> p, size |-> size] ELSE live[x]]
        /\ IF ~Checked \/ Accepts(ranges, top, p, size)
           THEN /\ ranges' = IF Checked THEN AddRange(ranges, p, size) ELSE ranges
                /\ mem' = IF Checked THEN Filled(m, p, size, id) ELSE m
                /\ Remember(id, p, size)
                /\ Count(size)
                /\ Proceed
           ELSE Reject /\ mem' = m /\ UNCHANGED <<ranges, blocks, sizes, total, hwm>>
  /\ UNCHANGED trace

\* A mistake: the whole new block is compared.
ComparedNewSize(old, size) == size

\* How many bytes of a reallocated block are compared.
Compared(old, size) == Lesser(size, old)

\* A realloc request answered with p.
Realloc(p, top) ==
  /\ Playing("realloc")
  /\ LET id == Request.id
         size == Request.size
         others == DOMAIN live \ {id}
         list == RemoveRange(ranges, blocks[id])
         kept(m) == \A j \in 0 .. Compared(sizes[id], size) - 1 : AsChar(m[p + j]) = LowByte(id)
     IN \E m \in Scribbled(Moved(live[id], p, size)) :
        /\ good' = (/\ good /\ RightPlace(p, size, others, top) /\ KeepsData(m, others)
                    /\ SameBytes(m, p, live[id].lo, Lesser(live[id].size, size)))
        /\ brk' = top
        /\ live' = [live EXCEPT ![id] = [lo |-> p, size |-> size]]
        /\ IF ~Checked
           THEN mem' = m /\ Remember(id, p, size) /\ Count(size - sizes[id]) /\ Proceed /\ UNCHANGED ranges
           ELSE IF ~Accepts(list, top, p, size)
           THEN Reject /\ ranges' = list /\ mem' = m /\ UNCHANGED <<blocks, sizes, total, hwm>>
           ELSE /\ ranges' = AddRange(list, p, size)
                /\ UNCHANGED <<total, hwm>>
                /\ IF kept(m) THEN mem' = Filled(m, p, size, id) /\ Remember(id, p, size) /\ Proceed
                   ELSE Reject /\ mem' = m /\ UNCHANGED <<blocks, sizes>>
  /\ UNCHANGED trace

FreeBlock ==
  /\ Playing("free")
  /\ ranges' = IF Checked THEN RemoveRange(ranges, blocks[Request.id]) ELSE ranges
  /\ Count(-sizes[Request.id])
  /\ live' = [x \in DOMAIN live \ {Request.id} |-> live[x]]
  /\ Proceed
  /\ UNCHANGED <<trace, blocks, sizes, mem, brk, good>>

\* The end of a replay: util only after a check that found no error, fsecs
\* after it; eval_mm_util's result is not looked at before the report.
EndReplay ==
  /\ stage \in {"valid", "util", "speed"} /\ op = Len(trace) + 1
  /\ \/ stage = "valid" /\ Goto(IF package = "mm" THEN "util" ELSE "speed")
     \/ stage = "util" /\ Goto("speed")
     \/ stage = "speed" /\ replays > 1 /\ Goto("speed")
     \/ stage = "speed" /\ replays = 1 /\ Goto("free")
  /\ \E n \in 1 .. Replays : replays' = IF stage = "speed" THEN replays - 1 ELSE n
  /\ valid' = IF Checked THEN [valid EXCEPT ![num] = TRUE] ELSE valid
  /\ UNCHANGED <<package, num, errors, replay>>

\* free_trace, and the next trace, the next loop or the report.
FreeTrace ==
  /\ stage = "free"
  /\ IF num < NumTraces THEN num' = num + 1 /\ UNCHANGED package /\ Goto("read")
     ELSE IF package = "libc" THEN num' = 1 /\ package' = "mm" /\ Goto("read")
     ELSE UNCHANGED <<num, package>> /\ Goto(IF errors = 0 THEN "index" ELSE "errors")
  /\ trace' = <<>> /\ blocks' = <<>> /\ sizes' = <<>>
  /\ UNCHANGED <<replays, errors, valid, ranges, mem, brk, total, hwm, live, good>>

\* The performance index, or the number of errors, has been printed.
Idle == stage \in {"index", "errors", "failed"} /\ UNCHANGED vars

\* libc's answers are right.
Tops == brk .. HeapMax
Next ==
  \/ ReadTrace \/ SetUp \/ Refused \/ FreeBlock \/ EndReplay \/ FreeTrace \/ Idle
  \/ \E p \in Addresses, top \in Tops : \E m \in Scribbled(mem) :
       Alloc(p, top, m) /\ (package = "libc" => good')
  \/ \E p \in Addresses, top \in Tops : Realloc(p, top) /\ (package = "libc" => good')

Spec == Init /\ [][Next]_vars

-----------------------------------------------------------------------------

\* While requests are replayed.
Books == stage \in {"valid", "util", "speed"} /\ op \in 1 .. Len(trace) + 1

\* The pointers the tester hands back are those of this replay, never one left
\* in trace->blocks by a replay before or by malloc's garbage; sizes too, where
\* they are used.
CallsAreLegal ==
  Books => \A id \in DOMAIN live :
    /\ blocks[id] = live[id].lo
    /\ package = "mm" /\ stage # "speed" => sizes[id] = live[id].size

\* The range list holds the live blocks, each once, and nothing from a trace
\* before.
RangesAreLive ==
  Books /\ Checked =>
    /\ Len(ranges) = Cardinality(DOMAIN live)
    /\ \A id \in DOMAIN live : \E k \in DOMAIN ranges :
         ranges[k].lo = live[id].lo /\ ranges[k].hi = live[id].lo + live[id].size - 1

\* Accepted payloads are aligned, in the heap, and where two overlap the newer
\* one encloses the older one, which is the case add_range does not see.
AcceptedRanges ==
  /\ \A k \in DOMAIN ranges : ranges[k].lo % Alignment = 0 /\ ranges[k].lo >= 0
  /\ \A j, k \in DOMAIN ranges : j < k =>
       \/ ranges[j].hi < ranges[k].lo \/ ranges[k].hi < ranges[j].lo
       \/ ranges[j].lo < ranges[k].lo /\ ranges[k].hi < ranges[j].hi

\* The range list is right: what is live, and nothing accepted that should not be.
RangesRight == RangesAreLive /\ AcceptedRanges

\* A resized block whose id has the top bit of its low byte set: newp[j] is a
\* signed char and is compared with the byte as an int (mdriver.c:656).
Misread == \E k \in DOMAIN trace :
  trace[k].type = "realloc" /\ AsChar(LowByte(trace[k].id)) # LowByte(trace[k].id)

\* An allocator whose answers have all been right is not rejected: no wrong
\* range, no byte compared that it did not owe (eval_mm_valid), on every trace
\* whose ids the comparison reads right.
GoodIsAccepted == stage = "free" /\ package = "mm" /\ good /\ ~Misread => valid[num]

\* The bytes of the live blocks, each with its block.
Owed == UNION {{id} \X Payload(live[id].lo, live[id].size) : id \in DOMAIN live}

\* eval_mm_util counts the bytes of the live blocks, and a good allocator never
\* gets a utilisation above 1: its high water mark fits in the heap.
UtilCounts ==
  Books /\ package = "mm" /\ stage = "util" =>
    /\ total = Cardinality(Owed)
    /\ hwm >= total
    /\ good => hwm <= brk

\* One error per invalid trace, and an index only when every trace is valid.
ErrorsCounted ==
  /\ stage \in {"index", "errors"} => errors = Cardinality({n \in DOMAIN valid : ~valid[n]})
  /\ stage = "index" => \A n \in DOMAIN valid : valid[n]

\* The totals of eval_mm_util and of main.
BooksRight == UtilCounts /\ ErrorsCounted

\* mdriver.c:371-373, the range list is there "to detect any overlapping
\* allocated blocks": accepted payloads do not overlap.
NoOverlap ==
  \A j, k \in DOMAIN ranges : j # k =>
    ranges[j].hi < ranges[k].lo \/ ranges[k].hi < ranges[j].lo
=============================================================================
