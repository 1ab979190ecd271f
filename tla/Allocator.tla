----------------------------- MODULE Allocator -----------------------------
(***************************************************************************)
(* What mm.h promises and mdriver.c tests: the client's blocks as byte     *)
(* ranges of the heap.  Nothing here says where a block is put, only that  *)
(* it is aligned, inside the heap and clear of the others.                 *)
(***************************************************************************)
EXTENDS Integers

CONSTANTS
  Ids,       \* the client's names for its blocks
  Requests,  \* sizes in bytes
  Align,     \* alignment in bytes
  Top        \* size of the heap in bytes

VARIABLES
  at,    \* first byte of each id's block, 0 when it has none
  len,   \* its length in bytes
  kept   \* how many of its leading bytes hold what the client wrote

store == <<at, len, kept>>

\* May id have the bytes p .. p+n-1?
Clear(id, p, n) ==
  /\ p % Align = 0 /\ p > 0 /\ p + n <= Top
  /\ \A other \in Ids \ {id} :
       at[other] # 0 => p + n <= at[other] \/ at[other] + len[other] <= p

\* Addresses a block may have.
Aligned == {Align * q : q \in 1 .. Top \div Align}

Set(id, p, n, k) ==
  /\ at' = [at EXCEPT ![id] = p]
  /\ len' = [len EXCEPT ![id] = n]
  /\ kept' = [kept EXCEPT ![id] = k]

Init ==
  /\ at = [id \in Ids |-> 0]
  /\ len = [id \in Ids |-> 0]
  /\ kept = [id \in Ids |-> 0]

Allocate(id, n) ==
  /\ at[id] = 0
  /\ \E p \in Aligned : Clear(id, p, n) /\ Set(id, p, n, n)

Release(id) == at[id] # 0 /\ Set(id, 0, 0, 0)

\* The block may move; what it held is kept up to the smaller length.
Resize(id, n) ==
  /\ at[id] # 0
  /\ \E p \in Aligned : /\ Clear(id, p, n)
                        /\ Set(id, p, n, IF kept[id] < n THEN kept[id] ELSE n)

Write(id) == at[id] # 0 /\ Set(id, at[id], len[id], len[id])

\* A new heap.
Reset ==
  /\ at' = [id \in Ids |-> 0]
  /\ len' = [id \in Ids |-> 0]
  /\ kept' = [id \in Ids |-> 0]

Next ==
  \/ \E id \in Ids : \/ \E n \in Requests : Allocate(id, n) \/ Resize(id, n)
                     \/ Release(id)
                     \/ Write(id)
  \/ Reset

Spec == Init /\ [][Next]_store
=============================================================================
