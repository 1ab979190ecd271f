# TLA+ for jungle_c_workspace

The repository is a set of C course projects: the memory allocator of
`malloc-lab-main` with its trace-driven tester, a red-black tree with a menu and
tests, the network helpers and the server skeleton of the web-proxy lab, and
twenty-seven data-structure exercises. This directory models all of them, checks
the models with TLC and proves what matters most about seven of them with TLAPS.

Run `tlc -config X.cfg M` for a run of `PROJECT.json`, `tlapm M.tla` for a proof.
The largest runs, `avl`, `rbtree` and `mm`, take one to three minutes each, the longest
proofs, `AvlProofs` and `RBProofs`, about six.

## Inventory

| part | state | operations | talks to | what is hard | what makes it right |
|---|---|---|---|---|---|
| Allocator `mm.c` | tag words in the heap, ten list heads, a tree, `only_for_16` | `mm_init`, `mm_malloc`, `mm_free`, `mm_realloc` | `mem_sbrk`; the tree; its client's payloads lie between its own words | splitting, merging with either neighbour, growing in place, a full heap, the order of index updates and tag writes | tags cut the heap into blocks; the index holds exactly the free blocks; no block has two owners; payloads survive |
| AVL tree `avl.c` | nodes in the payload of free blocks, one shared sentinel | insert, delete, best fit | `mm.c` | deletion through the successor, the sentinel's parent as a working variable, equal sizes | nothing lost, order, balance, best fit |
| Memory system `memlib.c` | break and end of the heap | `mem_init`, `mem_sbrk`, `mem_reset_brk` | `mm.c`, `mdriver.c` | the limit | never beyond the end |
| Tester `mdriver.c` | blocks and sizes per id, list of live ranges, error count | read a trace, replay it three ways | an allocator; the timing package | its own checks: overlap test, comparison of bytes, early returns | accepts what is right, rejects what is not, counts once |
| Timing `clock.c`, `fcyc.c`, `ftimer.c`, `fsecs.c` | two counter words, ticks; the k best samples; two clocks | start and read a counter, measure until k agree, time n runs | the timer interrupt; each other through `fsecs.c` | wraps, interrupts between two reads, samples that never agree, sizes set between calls | measures what elapsed; stops; reports the least sample it took |
| Red-black tree `rbtree.c`, `driver.c` | nodes, sentinel; the menu's tree | insert, find, min, max, erase, to array, delete; the menu | `calloc`; the user | both fix-ups, the successor that is a child, failed `calloc` | the rules of red and black, order, an ordered multiset, no leak |
| List, stack, queue, tree and search-tree exercises | linked nodes, a size field | one to eight functions each, a menu in `main` | `malloc`; the user | traversals that keep their own stack, moves between two lists, empty structures | the result the exercise states; calls return; every node freed |
| `csapp.c` | `rio_t` buffers, descriptors, `errno` | robust reads and writes, `open_clientfd`, `open_listenfd`, `sio_*`, wrappers | the kernel, signal handlers | short counts, interruptions, failing connects and closes, handlers in the middle of a call | every byte once and in order; no descriptor kept; failures told from results |
| `tiny.c`, `proxy.c` | one connection | accept, (undefined) doit, close | `csapp.c`, clients | failures anywhere, a full backlog, clients that close while they wait or are served | each connection closed; a client's descriptor is that of a live connection or one the server closed; whoever waits is served |

Nothing here survives a crash and nothing is threaded. Two processes meet over a
connection (`Rio`, `Tiny`), handlers interrupt a program (`Sio`, `Wrappers`,
`Clock`); elsewhere the hazards are long sequences of legal calls, boundaries, the
order of updates within a call, and calls that fail half way. `PROJECT.json` lists
them at their lines.

## What is modelled

| module | models |
|---|---|
| `Heap` | the functions of `mm.c` and `memlib.c`, as operators from the memory before a call to the memory after it |
| `Mm` | the allocator with a client: variables, one action per call, the properties |
| `Allocator` | abstract: disjoint, aligned byte ranges and what they keep |
| `Avl` | `avl.c` with its pointers and its sentinel, driven as `mm.c` drives it |
| `Mdriver` | `mdriver.c` as a judge of an allocator that may answer anything |
| `Clock`, `Fcyc`, `Ftimer` | the timing package, `fsecs.c`'s choices in the last two |
| `Trees` | nodes linked over a sentinel, and the loops that go along the links |
| `RBTree` | `rbtree.c` with its pointers, as operators from tree to tree |
| `RBClient`, `RBDriver` | a tree under any caller (the tests among them), and under the menu of `driver.c` |
| `OrderedMultiset` | abstract: what the lab's README promises of the tree |
| `Lists`, `StacksQueues`, `BinaryTrees`, `SearchTrees` | the 27 exercises with their menus |
| `Rio` | `rio_readn`, `rio_writen`, `rio_read`, `rio_readnb`, `rio_readlineb` over a kernel buffer |
| `ByteChannel` | abstract: bytes accepted are delivered once, in order; the end comes last |
| `Tiny` | `open_clientfd`, `open_listenfd`, `main` of `tiny.c`, and clients |
| `Wrappers` | the error tests of every other wrapper of `csapp.c` |
| `Sio` | `sio_putl`, `sio_ltoa`, `sio_reverse` under signals |
| `MCMm`, `MCAvl`, `MCRBTree`, `MCExercises`, `MCMdriver`, `MCTiming`, `MCRio`, `MCNetwork` | instances for TLC |
| `MmProofs` | proofs about the allocator: tags and index, then call by call, then its properties and the refinement |
| `TreeLemmas` | proofs about `Trees`: loops, and search trees of any shape under rotation, hanging and removal |
| `RBProofs` | proofs about `RBTree`, `RBClient` and `RBDriver` |
| `AvlProofs`, `MdriverProofs`, `RioProofs` | proofs about the module of that name |
| `TimingProofs`, `NetworkProofs` | proofs about the parts of `MCTiming` and of `MCNetwork` |

**Heap.** All addresses and sizes in `mm.c` are multiples of 8 bytes, so the heap is
counted in units of 8. A boundary unit is two words, the footer of a block and the
header of the next: `ftr[q]` and `hdr[q]`. `data[q]` says whose bytes unit `q` holds:
an id, or `Junk`. A word that the code leaves behind inside a payload is `NoTag`
(size 0): if any path read it as a tag, the next step would go astray and `HeapTiled`
would fail. Conversely every tag or link the allocator writes junks the payload
under it, which `DataKept` would notice. A segregated list is the sequence of its
blocks from the head; removal by the links of the block is removal from the sequence.
The tree is the set of its blocks and a search answers any block of the least
sufficient size; `Avl` shows that `avl.c` does that. The real bounds (9 list
limits, 3072 bytes, `CHUNKSIZE` 64, `MAX_HEAP` 20 MB, and the bumps 448 to 512 and
112 to 128) are constants with assumptions the program's values satisfy.

**Mm.** The client is any that keeps to the contract of `mm.h`: it frees and resizes
only blocks it has. Its books (`blocks`, `sizes`) and its fill are those of
`eval_mm_valid`; where that gives up after a NULL, this client may go on, so
that what a refused call leaves behind is put to use. `filled` is how much of a
block the client has written: `mm_realloc` must keep that much, up to the new size,
whether or not the client has filled the block again since (`Refill`).
`Restart` is `mem_reset_brk` and `mm_init` for the next trace, `only_for_16`
still holding its old value.

**Avl.** A node is its block; `Forget` gives the words of a deleted node back to the
client by clearing them, so a stale link to it shows. `left` and `right` are one field with a
side. A loop or a recursion of the code is one turn of it, taken until nothing changes and at most as
often as there are nodes (`Turns`); that this many turns always reach the end is proved, not assumed.

**Mdriver.** The allocator is outside: it answers with any address of the heap or
NULL, right or wrong, and the ghost `good` says whether all of them have been right.
The three replays, the range list, the fill and its comparison, the early
returns, libc's replay before that of `mm.c`, and the totals are those of the code. `Mm` has the
same client over the real allocator; together they say that the tester accepts
this allocator, but for the ids named under "Other disagreements". A trace is what
`traces/checktrace.pl` accepts, which is true of every trace of the lab: what is resized or freed is live,
what is allocated is not, and `add_range` asserts that sizes are positive (`Consistent`).

**Clock, Fcyc, Ftimer.** Time passes between any two reads of a counter. `Clock` has
words of 4 values, so that every wrap happens; an interrupt may fall anywhere, also between
the reading of the ticks and that of the counter. `Fcyc` takes samples from any
set, negative ones among them (the compensated counter gives those), and its parameters
are set between any two calls. `Ftimer` has the interval timer that ends the process.

**RBTree.** A function of `rbtree.c` is an operator on a record of root and cells; the two mirrored halves
of each fix-up are one definition with a side. The sentinel's parent is a field like any
other, since the code works with it. A loop is one turn of it, and `Turns` as in `Avl`: `Descend` goes down,
`InOrder` is the recursive walk, and a fix-up goes up. `RBClient` frees a cell on erasure and gives it out again, with any of
its keys; `calloc` may fail; a client whose tree has lost its root
may still erase NULL, which returns 0, and its next call of any other kind reads through NULL, which ends the program (`Crash`).

**The exercises.** `Lists` has nodes in memory, since its functions work on the
chain and on the size field apart. The stack and queue programs use the same nodes; there a list is
the sequence of its items, and a step is a turn of a loop. `BinaryTrees` has
`createTree` question by question with its stack; `SearchTrees` the five iterative traversals turn by turn. Where the code
reads a variable that nothing has set (`Q4_F_BST`'s `last`), the model takes any value.

**Rio.** A step is one system call or one copy out of `rio_buf`. The kernel moves
any number of bytes up to what there is, interrupts, or fails, which ends the
process through its wrapper. The bytes are numbered, so a byte lost, repeated or moved shows.
The reader keeps to one kind of call, `rio_readn` or the buffered ones: mixed on one descriptor
the first would pass by what `rio_buf` holds, and nothing in the package prevents or needs that.

**Tiny.** Every call of the two walks may fail; a client connects wherever the server
stands in its loop, waits in the backlog or is refused, leaves when it likes, and
comes again. It may leave while it waits, while it is served or after: the connection it leaves
behind keeps its place in the backlog, is accepted and served like any other, and the client may be back with
a new one by then. So a connection is a record of its maker and of whether the maker's end is open, and
`ended` has the clients whose connection the server has closed first. `doit` is declared in `tiny.c` and defined nowhere: it is external and
may only use the connection and return. A wrapper that meets an error ends the server,
and the kernel closes what it held.

**Wrappers, Sio.** A wrapper is its error test over the classes of results its call can give,
with the `errno` of earlier calls still there. `Sio` has activations of `sio_putl` that
interrupt one another between any two steps of the conversion, and a `long` of 8 bits.

**Suites.** `MCAvl`, `MCRBTree`, `MCExercises`, `MCTiming` and `MCNetwork` put several instances in
one run. They do not interact: each behaviour has one part moving while the variables of the
others stay where they start, so the states are the sum of the parts' states
and not the product, and a property of a part is that of its module. Where a property is the conjunction of
the parts' properties, its definition in the `MC` module names them. `MCNetwork` extends `Tiny`, and
the theorems about `Tiny` name the properties the run checks, as `MCRBTree` extends
`RBClient` and `RBDriver`; those about the timing package are stated of
`MCTiming` itself.

## What TLC checks

| run | questions | bounds |
|---|---|---|
| `mm` | `TypeOK`, `HeapTiled`, `FreeIndexExact`, `OwnedOnce`, `DataKept`, `ImplementsAllocator` | 3 ids, heap of 14 units, chunk 4, two lists (2 and 4 units) and the tree, requests 0, 8, 20, 32, 40 |
| `mm_merge` | `FreeMergesNeighbours` fails | 2 ids |
| `avl` | `HoldsMembers`, `Balanced`, `TypeOK`, `Ordered`, `FindsBestFit` | deep: 12 nodes, two pairs of equal sizes; mixed: 5 nodes that return at any of 3 sizes |
| `avl_tie` | `EqualGoesLeft` fails | 3 nodes |
| `rbtree` | `ValidTree` (rules, order), `HoldsMembers`, `TypeOK`, `ImplementsMultiset`, `MenuRight` (no leak, and what the menu prints and checks of its tree) | deep: 9 cells, two pairs of equal keys; mixed: 4 cells, 3 keys, failing `calloc`; menu: 4 cells, lines that rise, fall and are empty |
| `exercises` | `WellFormed`, `ShowsTheResult`, `NothingLeaked`, `FailsSafely`, `CallsReturn` | lists of up to 4 of 3 values, trees of 5 nodes, failing pushes on trees of 4 or 5 nodes |
| `mdriver` | `CallsAreLegal`, `RangesRight`, `GoodIsAccepted`, `BooksRight` | 2 traces out of 4, heap of 4, 2 replays |
| `timing` | `MeasuresElapsed`, `TimersRight`, `SamplesRight`, `ReadsTheBuffer`, `FcycReturns` | words of 4 values, 13 cycles from the 12th on, over which both words wrap; k to 2, maxima 0, 1, 4 |
| `rio` | `InOrder`, `ShortOnlyAtEnd`, `ImplementsChannel`, `StreamEnds` | 8 bytes, three newlines, kernel buffer 3, `rio_buf` 3, reads of 1 and 4, lines of 2, 4 and 6 |
| `network` | `DescriptorsCounted`, `Connected`; `ErrorsToldApart`; `PrintsTheNumber`; `Progress` | 2 clients, 2 addresses, backlog 3; 2 signals, 8-bit numbers |
| `mdriver_overlap` | `NoOverlap` fails | one trace of two blocks |
| `sq_twice` | `StartsFromEmpty` fails | stacks and queues alone |

The bounds, and why they are enough:

- The heap of 14 units holds the prologue, three blocks and room that runs out; 8 bytes
  make the smallest block, 20 is bumped by `mm_malloc` to 32, a unit more, as 448 is to 512, 32 makes a block one unit above
  the last list bound, 40 one that only the tree holds with a rest too small to
  split. Every branch of `coalesce` and of `mm_realloc` is taken.
- Twelve nodes are what an AVL tree needs for a deletion to rotate at two levels; nine
  cells give red-black trees in which a repair of either kind recolours, climbs and
  then rotates, on both sides.
- The tester's traces hold two blocks, a block that grows and shrinks, one that does
  not fit behind the one before it, and an id whose low byte has its top bit set.
- Four items make a list with a front, an end and two places between, of odd and even
  values and with ties; five nodes make a search tree in which the node removed has two
  children and its successor has one.
- A kernel buffer of 3 and a `rio_buf` of 3 against calls of 1 and 4 and lines of 2, 4 and 6 give every
  order of partial write, partial read, refill and partial copy; three newlines give a line that
  fits, one that does not, and one that ends the stream.
- Two clients that leave and return fill a backlog of three: connections left behind by either or both, before and
  after one that is waited at, one of either client in service, and a fifth refused.
- The machine has been up for 12 cycles of a counter that is back at 0 after 16, so that a measurement
  begins or ends on either side of a wrap of the low word and of both.

A bound is a constant of the instance. `MaxItems`, `Horizon` (cycles or microseconds that
pass), `Total` (bytes sent), `MaxSignals` and `MaxOutput` are bounds in guards.

**Fairness**, where something is promised to happen, is weak fairness of the steps the code itself
takes next, and no more:

- `Rio`: the kernel does not interrupt a process for ever: a call that can move bytes
  or report the end some time does. The reader goes on reading (a receiver that
  stops is not the package's fault); the writer need not send.
- `Tiny`: a walk that has begun and the server's loop go on, and `doit` returns. No client is
  obliged to call or to leave.
- `Sio`, `Fcyc`, the loops of the stack programs and the traversals: a call that has begun goes on; one
  thread runs it. The user who is asked for a node by `createTree` answers. No user is obliged to choose.

The refinements are three: `Mm` implements `Allocator`, `RBClient` implements `OrderedMultiset` (failed
insertions included), `Rio` implements `ByteChannel`, where the queue is what the call
in progress has stored, `rio_buf` and the kernel's buffer end to end.

### Findings

Four runs end in a violation, on purpose: they state what a comment says and the code does not do.

| run | the text | the code |
|---|---|---|
| `avl_tie` | `avl.c:199`: equal sizes go left | they go right |
| `mm_merge` | `mm.c:525`: a free merges with its neighbours | the first block of the heap is never merged with from behind |
| `mdriver_overlap` | `mdriver.c:371-373`: the range list detects any overlap | a payload that encloses an older one passes (`:409`) |
| `sq_twice` | `Q1_C_SQ.c:122`: if not empty, empty it and start | the test names the function without calling it, so nothing is emptied |

### Other disagreements

The models contain these too. The properties say where they step around them. `ShowsTheResult` also leaves
out the second creation in Q1 and Q2, which `sq_twice` is about.

- `rbtree.c:161`: a failed `calloc` on an empty tree leaves the root NULL, and the next call reads through it.
- `csapp.c:975`: `open_clientfd` returns past `freeaddrinfo` when a close fails (`Tiny`'s `listp`).
- `csapp.c:244`: the least `long` is its own negation, and `sio_ltoa` prints other characters for it (`PrintsTheNumber` excuses it).
- `mdriver.c:656`: a `signed char` is compared with `index & 0xFF`; a resized block whose id has a low byte of 128 or more is found corrupt (`GoodIsAccepted` excuses it).
- `clock.c:128`: on the Alpha a wrap is borrowed from a high word that is always 0 (`MeasuresElapsed` covers it up to the wrap).
- `fcyc.c:97`: with negative samples `(1 + epsilon)` moves the bound the wrong way, so equal samples do not converge; `maxsamples` ends the loop.
- `Q4_F_BST.c:116`: `last` is compared before it is set (`ShowsTheResult` excuses the behaviours it misleads).
- `Q5_F_BST.c:104`: `main` reads the root after the last node went.
- `Q2_E_BT.c:73`: the height is stored in the menu's choice; a tree of one node ends the program.
- `Q7_C_SQ.c:116`: the menu asks whether `()[]{}` is balanced (`:71`), but kinds are compared only on an empty stack, so `(]` is balanced (`ShowsTheResult` leaves out the strings whose only fault is a pair of two kinds).
- `Q1_A_LL.c:74`: the last value and index are told after the list changed.

### Hazards without a property

- `mm.c:491`: a small request never looks in the tree; with only large blocks free the heap is extended. A policy no text denies.
- `mm.c:94`, `mm.c:544`: sizes at which `ALIGN` wraps, and `mm_realloc(NULL)`. No caller makes them.
- `mdriver.c:525`: a trace longer than its header says. The text of the traces is not modelled.
- `clock.c:224`: `callibrate` waits for ticks; on a kernel without them it need not end.
- `fcyc.c:109`: a cache block below `sizeof(int)` makes `clear` stand still. Nothing sets one.
- `ftimer.c:50`: a time of day set back between two readings.
- `driver.c:151`, `Q1_E_BT.c:63` and the other menus: at the end of the input they read for ever.
- `Q4_F_BST.c:110`: with a push that failed the post-order may go down for ever.
- `Q7_C_SQ.c:121`: an early return leaves the stack's nodes.
- `csapp.c:889`: an error in the middle of a line loses the bytes already copied; `:876`: `maxlen` of 1 looks like the end; `:783`: a write of 0 leaves `errno` as it was.
- `csapp.c:586`: any error of `accept` ends the server; `tiny.c:40`: a client that never finishes keeps all others waiting.
- `csapp.c:273`, `csapp.c:464`: a short `sio_puts` goes unnoticed; `Realloc` to 0.

## What is proved

Every theorem is for all values of the constants that satisfy the assumption of its module.

| theorem | of | says |
|---|---|---|
| `MmProofs!TypeCorrect` | `TypeOK` | every word and address keeps its type |
| `MmProofs!AlwaysTiled` | `HeapTiled` | the tags cut the heap into whole blocks, read forwards or backwards |
| `MmProofs!AlwaysIndexed` | `FreeIndexExact` | lists and tree hold exactly the free blocks |
| `MmProofs!AlwaysOwnedOnce` | `OwnedOnce` | one owner per block, with the room it asked for |
| `MmProofs!AlwaysDataKept` | `DataKept` | payloads survive |
| `MmProofs!Refinement` | `ImplementsAllocator` | `Spec` implements `Allocator!Spec` |
| `AvlProofs!TypeCorrect` | `Avl!TypeOK` | fields hold what they may; nothing in the tree points out of it |
| `AvlProofs!AlwaysHoldsMembers` | `HoldsMembers` | every block inserted and not deleted is in the tree once, and children know their parents |
| `AvlProofs!AlwaysOrdered` | `Ordered` | in order the sizes never decrease |
| `AvlProofs!AlwaysBalanced` | `Balanced` | heights are the real ones; no node leans by more than one |
| `AvlProofs!AlwaysFindsBestFit` | `FindsBestFit` | the least sufficient size, whenever there is one |
| `RBProofs!InsertKeeps` | `RbtreeInsert` | a valid tree of `M` and a new cell give a valid tree of both, coloured and ordered |
| `RBProofs!EraseKeeps` | `RbtreeErase` | a valid tree of `M` without any cell of it is a valid tree of the others |
| `RBProofs!TreeTyped` | `RBClient!TypeOK` | fields hold what they may, and only cells in the tree are pointed to from it |
| `RBProofs!TreeHoldsMembers` | `HoldsMembers` | every cell inserted and not erased is in the tree once, and children know their parents |
| `RBProofs!TreeStaysValid` | `ValidTree` | the rules of red and black, and the order |
| `RBProofs!TreeImplementsMultiset` | `ImplementsMultiset` | `RBClient!Spec` implements `OrderedMultiset!Spec` |
| `RBProofs!MenuStaysRight` | `MenuRight` | the menu gives back every node; its walk prints the keys in order and its check finds no fault |
| `NetworkProofs!TypeCorrect` | `Tiny!TypeOK` | no process holds more than two descriptors |
| `NetworkProofs!NothingLeaks` | `DescriptorsCounted` | no failure and no connection leaves a descriptor behind |
| `NetworkProofs!AlwaysConnected` | `Connected` | a client has a descriptor exactly while its one connection waits, is served or was closed by the server |
| `NetworkProofs!AlwaysToldApart` | `ErrorsToldApart` | failures of wrapped calls told from results, after any calls and signals |
| `NetworkProofs!AlwaysPrintsTheNumber` | `PrintsTheNumber` | `sio_putl` writes the numeral of its number, for longs of any width but the least |
| `RioProofs!TypeCorrect` | `Rio!TypeOK` | counts and positions stay in their bounds |
| `RioProofs!EveryByteInOrder` | `Rio!InOrder` | every byte once and in order, over short counts, interruptions and failures |
| `RioProofs!NothingShortBeforeTheEnd` | `ShortOnlyAtEnd` | a short result means the end of the stream; a line ends at its first newline |
| `RioProofs!RioIsAChannel` | `ImplementsChannel` | `Spec` implements `ByteChannel!Spec` |
| `MdriverProofs!AlwaysCallsAreLegal` | `CallsAreLegal` | what is resized or freed is a pointer of this replay, with its size |
| `MdriverProofs!AlwaysRangesRight` | `RangesRight` | the range list is what is live; of two ranges that meet the newer encloses the older |
| `MdriverProofs!AlwaysGoodIsAccepted` | `GoodIsAccepted` | a right allocator is not rejected |
| `MdriverProofs!AlwaysBooksRight` | `BooksRight` | the totals of `eval_mm_util` and of `main` |
| `TimingProofs!AlwaysMeasuresElapsed` | `MeasuresElapsed` | carries and borrows of a counter of two words of any size |
| `TimingProofs!AlwaysTimersRight` | `TimersRight` | compensation and both clocks of `ftimer.c` |
| `TimingProofs!AlwaysSamplesRight` | `SamplesRight` | the k least samples, in order; the answer the least; never more than `maxsamples` |
| `TimingProofs!ClearInside` | `ReadsTheBuffer` | `clear` stays inside its buffer |

**The allocator.** None of its properties is inductive alone: that a merge keeps the payloads needs the
tags to be right, that a removal finds its block needs the index to be exact, that a
search returns a free block needs both. `IInv` says all at once: the heap is `Good`
(typed, tiled, indexed) and the `Ledger` of the client matches it. The argument goes
up the call graph of the code:

1. Tags and index: rewriting the tags of a run of whole blocks as one block, or cutting one
   in two, keeps the heap tiled (`Retile`, `Cut`); adding a free block to the index and
   taking one out keep it exact, except within a call for blocks *in hand*: `Good(m, inhand)`.
2. The inner functions (`coalesce`, `place`, `extend_heap`) map a good heap
   with something in hand to a good heap, and leave every other client's block, size and
   payload `Untouched`.
3. Each entry point maps a good heap to a good heap with nothing in hand and
   only its own block touched; hence `IInv` is inductive, action by action.
4. At the end: under `IInv` blocks are apart byte by byte, so each action is an
   abstract one or a stutter.

**Avl.** That a tree is a tree cannot be said along its links without induction over data, so the
invariant names the trees that hang below the nodes instead. `IInv` is `Sound(tree, members)`: there is a
map `D` from each node to the set of nodes of its subtree such that the sets of the children, with the
node itself, are the node's own, disjoint and on the right sides of it by size, the root's being all members
(`Shape`); and the heights are right (`Heights`, which has a form with one node exempt, for
the tree in the middle of a repair). The argument:

1. Loops. `TurnsKeep`: what each turn keeps holds at the end of `Turns`; and since what hangs
   below the place of a walk strictly shrinks going down, and strictly grows going up, the number of nodes
   bounds the number of turns. The induction is on the turns left, over a set of numbers.
2. Links. `Rotated`, `Transplanted`, `Hung` and `Replaced` say field by field what the
   assignments leave; `RotationKeeps`, `DetachKeeps`, `ReplaceKeeps` and `HangKeeps` give the new `D` for each, and
   `SuccessorSuits` that the successor may stand where the deleted node stood.
3. Heights. A turn of `rebalance_upwards` finds one node whose height may be off by one or which leans
   by two; `SingleRotation` and `DoubleRotation` give what it leaves, with at most the node
   above wrong (`RebalancedDone`); so at the root nothing is (`RebalanceUpwardsKeeps`).
4. `InsertKeeps`, `DeleteKeeps` and `ForgetKeeps` make `IInv` inductive. `FindBestFitIs` and `InOrderIs` are two
   more loops: the search never leaves behind a better fit than the one it carries, and the walk from the
   left lists each subtree's nodes once, in order (`WalkJoined`).

With `FindsBestFit` proved, the search of `Heap` (any block of the least sufficient size) is what `avl.c`
does, for any number of blocks.

**The red-black tree.** `Valid(t, M)`, the heart of both inductive invariants (`ClientInv`, `MenuInv`), says
that there is a map `D` as for `Avl` (`SearchTree`, here in `TreeLemmas` for trees of any kind), and a map `B`
of black heights for which the colours keep the rules (`Kept`). Rules alone are not inductive within a call, so
each part has a form with one place exempt: `Heights(t, M, B, p, a)`, where a black is missing on
the side `a` below `p`, and `Apart`, no red under a red but at one node. The argument:

1. `TreeLemmas` has what does not depend on colour: `TurnsKeep` for any loop, `DescendIs` and `FurthestIs` for
   the ways down, the new `D` after a rotation, a new leaf, a removal with one child or none (`DetachKeeps`) or by the
   successor (`ReplaceKeeps`, `SuccessorSuits`), and the recursive walk (`Recursion`, `InOrderIs`).
2. Links. `TransplantIs`, `RotateIs`, `TakeOverIs` and `ReplaceBySuccessorIs` say field by field what the
   assignments of `rbtree.c` leave; `SwingHeights` and `SwingApart` what a recoloured rotation does to heights and reds.
3. Insertion. The invariant of the loop is `Fixing`: all is well but that the node `c` may be red
   under a red. `RedUncleKeeps` moves `c` up, `InnerTurned` and `OuterTurned` end it. What hangs
   below `c` grows with each turn, so the loop ends (`InsertFixUpKeeps`), and `InsertKeeps` follows.
4. Erasure. The invariant is `Erasing`: a black is missing at the link to `c`, which may be the sentinel,
   whose parent field then says where the link is. `RedBrotherKeeps`, `BlackNephewsKeep`, `RedNephewKeeps` and
   `RedFarNephewKeeps` are the four cases, for both sides at once. `OneLeaves` and
   `TwoLeave` show that what `rbtree_erase` does before the loop leaves such a tree, also when
   the successor is the child of the erased node. `EraseKeeps` follows.
5. `ClientInv` is then inductive, a lost root included. For the refinement each question is a loop again:
   `FindIs` (the key sought is never left behind), `EndIs` for the least and the greatest, `ArrayIs`
   and `ArrayOrders` for the array, cut at its length.
6. `driver.c` judges its own tree by other loops; `KeysShown`, `RedChildrenAreBlack` and `BlackHeightIs` say
   that what it prints is the walk of the tree and that both of its checks succeed on a valid one.

**Tiny.** Descriptors alone are not inductive: that a refused client holds none needs
to know where it is in its walk, and that the server holds two needs the connection it
serves. `IInv` adds to the three invariants that a walk with a socket is inside its list
(`WalksInside`) and that clients are never at the server's places (`PlacesApart`). In `Connected`, that a client
which calls `connect` has no connection yet is what keeps its ends to one (`OneEnd`): it is not at an end
that waits or is served, nor among `ended`, because it holds no descriptor of `open_clientfd`. `Accept` and `Close`
move or end one connection only, since no other in the backlog is that client's with its end open;
`SameConnections` covers the steps that leave backlog and service alone.

**Wrappers.** `Reported` says that the error test of the wrapper in progress is true exactly of a call that failed
(`TestsAreRight`, section by section), and that handlers are installed with `SA_RESTART`, from which the
rest follows.

**Sio.** Powers of ten are beyond the provers, and not needed: a numeral is described by the quotients `q` that its
digits were taken from (`Divided`), each a tenth of the one before, the last 0. `Backwards` is such a text with its sign at
the end, `Mirrored` a text in the middle of its reversal. Reading a turned text from the left meets the same
quotients in the other order (`ReadBack`), so it says the number (`SaysIt`). `Activations` says
how far each activation has come; a step changes the last one only (`OneAtATime`).

**Rio.** `Places` says which numbers each place holds: the stream counts from 1,
`taken` is its beginning, `usr` goes on where `taken` ends, the unread part of
`rio_buf` where `usr` ends, and `recv` is their sum. `Apart` keeps `rio_readn`, which
goes past `rio_buf`, from a buffer with bytes in it. Four lemmas on sequences that count
(`Counts`) carry a write, a read, a refill and a copy from place to place; `InOrder` is then
the concatenation of all of them. `ShortOnlyAtEnd` needs `Ending` besides: an end is noted only
when the writer has closed and no byte is left in the kernel or in `rio_buf`, and the bytes
of a line so far hold no newline before their last. The refinement goes step by step: a write
that moves n bytes is n bytes accepted, a call that completes hands over what it stored, and every other
step leaves the channel's queue, which is what is stored, buffered and in the kernel end to end.

**Mdriver.** The conclusion that a right allocator is accepted needs three things the code never
writes down: that the blocks owed are those live in the trace (`Owing`), that the range list
holds exactly them (`Checks`), and that a right allocator has them apart, inside the heap and, during
the check, filled with the low bytes of their ids (`Sound`). `RightAccepted` and
`ComparisonSucceeds` then say that neither test of `eval_mm_valid` can fail. `Grown` is what
`add_range` keeps of a list, right allocator or not; `OwedFits` maps the bytes owed into the heap
one to one, which bounds the high water mark. `Tally` counts the traces of `mm.c` that are through and not valid.

**Timing.** `Fcyc`: a buffer is as long as the size now set says, since
`set_fcyc_cache_size` frees one of another size (`BufferFits`); at each place of the loop there
is a sample left to take (`SamplesLeft`); the `values` array holds the least of the samples of the
call, as an injection from its places to the samples that leaves none below the last one out (`Keeps`).
`Clock`: the two words are one number modulo the square of their size, whatever carries happened,
and the borrow of `get_counter` is the one of that subtraction. `Ftimer`: a reading of the timer is
what it was set to less what has run since, as long as no measurement outlasts it.

The assumptions are those of the modules: for `Heap`, a heap that `mm_init` fits in, increasing list
bounds with the tree's blocks large enough for a node, sizes that are naturals with
`Bumped` not below them, and `Junk` not an id; for `Avl`, finitely
many blocks of natural sizes, and a sentinel that is none of them; for the red-black tree, finitely many cells, a
sentinel and a NULL that are none of them, keys that are integers, array lengths that are naturals, and menu lines of
integers; for `Tiny`, at least one address and one place in the backlog, and a
server and a `None` that are no clients; for `Rio`, buffers of at least one byte and lines of at least two; for
`Mdriver`, consistent traces, and one trace, one byte of alignment and one bit of a byte at least; for
`Sio`, numbers that are longs; for
the timing package, sizes, samples and spans that are numbers, and for `Clock` a span from `Uptime` to `Horizon` within the two words. That `size_t` does not wrap is implicit in the naturals. TLC
evaluates each assumption for the constants of its run.

Checked by TLC only:

- What must eventually happen (`Progress`, `CallsReturn`, `StreamEnds`, `FcycReturns`): liveness is out of the prover's reach.
- The exercises: their functions and what they state are RECURSIVE operators over lists and trees, which keep
  a module from the provers, and their results are compared over the whole structure, which takes induction over it.

## Not modelled

- The links inside a segregated list (sequences stand for them); sizes at which `size_t` or
  `int` wraps; `mem_deinit`, which nothing calls.
- Of `mdriver.c`: options, the text of traces, the table of results and the
  performance index. Of `clock.c`: `ovhd` and `mhz`, which print or return one difference of two readings.
- The traces and their generators, which are data; the grading scripts of the proxy lab,
  which drive binaries that are not written yet.
- `doit` and what `tiny.c` declares under it: nothing defines them. `proxy.c` prints one
  line, `adder.c` is a page without a program.
- The text of error messages, prompts and printed trees.

## Plan

1. `SegLinks`: the doubly linked lists of `mm.c` with their pointers, shown to implement the
   sequences of `Heap`, with a theorem for the removal.
2. The loops of `Lists` and `StacksQueues` as recursive functions, as `Trees` has them, so that what holds of
   the menus for every input can be proved.
3. `doit` and the proxy, once they are written.
