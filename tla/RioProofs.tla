------------------------------ MODULE RioProofs ------------------------------
(***************************************************************************)
(* What Rio keeps for every number of bytes, every size of call, kernel    *)
(* buffer and rio_buf: no byte is lost, repeated or moved.  The invariant  *)
(* says of each place that can hold bytes which ones these are.            *)
(***************************************************************************)
EXTENDS Rio, SequenceTheorems, TLAPS

-----------------------------------------------------------------------------
(* Sequences of bytes that follow one another.                             *)

\* s is the bytes b + 1, b + 2, ... of the stream.
Counts(s, b) == s \in Seq(Nat) /\ \A i \in 1 .. Len(s) : s[i] = b + i

\* The empty sequence holds the bytes from any place on.
LEMMA CountsEmpty == ASSUME NEW b \in Nat PROVE Counts(<<>>, b) /\ Len(<<>>) = 0
BY DEF Counts

\* What follows on is appended.
LEMMA CountsConcat ==
  ASSUME NEW b \in Nat, NEW s, NEW t, Counts(s, b), Counts(t, b + Len(s))
  PROVE  Counts(s \o t, b) /\ Len(s \o t) = Len(s) + Len(t)
<1>1. s \in Seq(Nat) /\ t \in Seq(Nat) /\ Len(s) \in Nat /\ Len(t) \in Nat
  BY DEF Counts
<1>2. /\ s \o t \in Seq(Nat) /\ Len(s \o t) = Len(s) + Len(t)
      /\ \A i \in 1 .. Len(s) + Len(t) : (s \o t)[i] = IF i <= Len(s) THEN s[i] ELSE t[i - Len(s)]
  BY <1>1, ConcatProperties
<1>3. ASSUME NEW i \in 1 .. Len(s) + Len(t) PROVE (s \o t)[i] = b + i
  <2>1. CASE i <= Len(s)
    BY <1>1, <1>2, <2>1 DEF Counts
  <2>2. CASE i > Len(s)
    <3>1. i - Len(s) \in 1 .. Len(t)
      BY <1>1, <2>2
    <3> QED
      BY <1>1, <1>2, <2>2, <3>1 DEF Counts
  <2> QED
    BY <1>1, <2>1, <2>2
<1> QED
  BY <1>2, <1>3 DEF Counts

\* The bytes in the places m to n of whatever holds them.
LEMMA CountsPart ==
  ASSUME NEW b \in Nat, NEW s, NEW m \in Nat \ {0}, NEW n \in Nat, m <= n + 1,
         \A i \in m .. n : s[i] = b + (i - m) + 1
  PROVE  Counts(SubSeq(s, m, n), b) /\ Len(SubSeq(s, m, n)) = (n - m) + 1
<1>1. m \in Int /\ n \in Int /\ \A i \in m .. n : s[i] \in Nat
  OBVIOUS
<1>2. /\ SubSeq(s, m, n) \in Seq(Nat)
      /\ Len(SubSeq(s, m, n)) = IF m <= n THEN n - m + 1 ELSE 0
      /\ \A i \in 1 .. n - m + 1 : SubSeq(s, m, n)[i] = s[m + i - 1]
  BY <1>1, SubSeqProperties
<1>3. ASSUME NEW i \in 1 .. n - m + 1 PROVE s[m + i - 1] = b + i
  <2>1. m + i - 1 \in m .. n /\ (m + i - 1) - m + 1 = i
    OBVIOUS
  <2> QED
    BY <2>1
<1>4. Len(SubSeq(s, m, n)) = (n - m) + 1
  BY <1>2
<1> QED
  BY <1>2, <1>3, <1>4 DEF Counts

\* The bytes from the first on are all of them.
LEMMA CountsAll ==
  ASSUME NEW s, Counts(s, 0)
  PROVE  s = [i \in 1 .. Len(s) |-> i]
<1>1. s \in [1 .. Len(s) -> Nat]
  BY LenProperties DEF Counts
<1> QED
  BY <1>1 DEF Counts

-----------------------------------------------------------------------------
(* The inductive invariant.                                                *)

\* How many bytes of rio_buf are unread.
Buffered1 == IF rio.cnt > 0 THEN rio.cnt ELSE 0

Types ==
  /\ wpc \in {"idle", "writing", "closed", "failed"}
  /\ rpc \in {"idle", "ended", "failed"} \union Calls
  /\ recv \in Nat /\ bufp \in Nat /\ nleft \in Nat /\ want \in Nat
  /\ rio \in [buf : [1 .. BufSize -> Nat], ptr : Nat \ {0}, cnt : Int]
  /\ bufp + nleft <= Total + 1
  /\ InKernel \in 0 .. Capacity
  /\ rio.cnt \in -1 .. BufSize /\ rio.ptr + Buffered1 <= BufSize + 1

\* Which bytes each place holds.
Places ==
  /\ Counts(stream, 0) /\ bufp = Len(stream) + 1
  /\ Counts(taken, 0)
  /\ Counts(usr, Len(taken))
  /\ \A i \in 1 .. rio.cnt : rio.buf[rio.ptr + i - 1] = Len(taken) + Len(usr) + i
  /\ recv = Len(taken) + Len(usr) + Buffered1

\* A process that reads with rio_readn has nothing in rio_buf, no call stores
\* more than it was asked for, and between calls nothing is stored.
Apart ==
  /\ rio.cnt > 0 => rpc \in Buffered \/ last.call \in Buffered
  /\ rpc = "readn" => last.call \notin Buffered
  /\ rpc \in {"readn", "readnb"} => Len(usr) <= want
  /\ rpc \in {"idle", "ended"} => usr = <<>>

IInv == Types /\ Places /\ Apart

\* At the start nothing has been written, stored or read.
LEMMA InitIInv == ASSUME RioAssumption, Init PROVE IInv
<1> USE DEF Init, RioAssumption
<1>1. Types
  BY DEF Types, InKernel, Buffered1
<1>2. Places
  BY CountsEmpty DEF Places, Buffered1
<1>3. Apart
  BY DEF Apart, Buffered
<1> QED
  BY <1>1, <1>2, <1>3 DEF IInv

-----------------------------------------------------------------------------

\* What the invariant says of the numbers.
LEMMA Numbers ==
  ASSUME RioAssumption, IInv
  PROVE  /\ Types /\ Places /\ Apart
         /\ Len(stream) \in Nat /\ Len(taken) \in Nat /\ Len(usr) \in Nat /\ Buffered1 \in Nat
         /\ recv <= Len(stream) /\ InKernel = Len(stream) - recv
         /\ stream \in Seq(Nat) /\ taken \in Seq(Nat) /\ usr \in Seq(Nat)
         /\ Counts(stream, 0) /\ Counts(taken, 0) /\ Counts(usr, Len(taken))
         /\ recv \in Nat /\ want \in Nat /\ rio.cnt \in Int /\ rio.ptr \in Nat \ {0}
         /\ rio \in [buf : [1 .. BufSize -> Nat], ptr : Nat \ {0}, cnt : Int]
         /\ Capacity \in Nat /\ BufSize \in Nat /\ Total \in Nat
<1>1. Types /\ Places /\ Apart
  BY DEF IInv
<1>2. Counts(stream, 0) /\ Counts(taken, 0) /\ Counts(usr, Len(taken))
  BY <1>1 DEF Places
<1>3. stream \in Seq(Nat) /\ taken \in Seq(Nat) /\ usr \in Seq(Nat)
  BY <1>2 DEF Counts
<1>4. Len(stream) \in Nat /\ Len(taken) \in Nat /\ Len(usr) \in Nat
  BY <1>3
<1>5. /\ recv \in Nat /\ want \in Nat /\ InKernel \in 0 .. Capacity
      /\ rio \in [buf : [1 .. BufSize -> Nat], ptr : Nat \ {0}, cnt : Int]
  BY <1>1 DEF Types
<1>6. rio.cnt \in Int /\ rio.ptr \in Nat \ {0}
  BY <1>5
<1>7. Capacity \in Nat /\ BufSize \in Nat /\ Total \in Nat
  BY DEF RioAssumption
<1>8. Buffered1 \in Nat
  BY <1>6 DEF Buffered1
<1>9. recv <= Len(stream) /\ InKernel = Len(stream) - recv
  BY <1>4, <1>5, <1>7 DEF InKernel
<1> QED
  BY <1>1, <1>2, <1>3, <1>4, <1>5, <1>6, <1>7, <1>8, <1>9

\* The strengthened invariant implies the type invariant.
LEMMA TypesCorrect == ASSUME RioAssumption, IInv PROVE TypeOK
<1>1. Types /\ bufp = Len(stream) + 1
  BY DEF IInv, Places
<1>2. /\ Len(stream) \in Nat /\ Buffered1 \in Nat /\ BufSize \in Nat /\ Total \in Nat
      /\ rio.ptr \in Nat \ {0}
  BY Numbers
<1>3. nleft \in 0 .. Total /\ bufp + nleft \in 1 .. Total + 1
  BY <1>1, <1>2 DEF Types
<1>4. rio.ptr \in 1 .. BufSize + 1
  BY <1>1, <1>2 DEF Types
<1> QED
  BY <1>1, <1>3, <1>4 DEF Types, TypeOK

\* What is not yet handed over is the bytes after those that were.
LEMMA UnreadCounts ==
  ASSUME RioAssumption, IInv
  PROVE  Counts(Unread, Len(taken)) /\ Len(Unread) = Len(stream) - Len(taken)
<1> DEFINE kernel == SubSeq(stream, recv + 1, Len(stream))
           t == Len(taken)
           u == Len(usr)
<1>1. /\ recv = t + u + Buffered1 /\ Len(stream) = bufp - 1 /\ rio.ptr \in Nat \ {0}
      /\ rio.cnt \in Int /\ \A i \in 1 .. rio.cnt : rio.buf[rio.ptr + i - 1] = t + u + i
      /\ Counts(usr, t) /\ Counts(taken, 0) /\ Counts(stream, 0)
  BY Numbers DEF IInv, Places, Types
<1>2. /\ t \in Nat /\ u \in Nat /\ Buffered1 \in Nat /\ recv \in Nat /\ t + u \in Nat
      /\ Len(stream) \in Nat /\ recv <= Len(stream)
  BY Numbers, <1>1
<1> HIDE DEF t, u
<1>3. Counts(kernel, recv) /\ Len(kernel) = Len(stream) - recv
  <2>1. \A i \in recv + 1 .. Len(stream) : stream[i] = recv + (i - (recv + 1)) + 1
    <3> TAKE i \in recv + 1 .. Len(stream)
    <3>1. i \in 1 .. Len(stream) /\ recv + (i - (recv + 1)) + 1 = i
      BY <1>2
    <3> QED
      BY <1>1, <3>1 DEF Counts
  <2>2. recv \in Nat /\ recv + 1 \in Nat \ {0} /\ Len(stream) \in Nat /\ recv + 1 <= Len(stream) + 1
    BY <1>2
  <2>3. Counts(kernel, recv) /\ Len(kernel) = (Len(stream) - (recv + 1)) + 1
    BY <2>1, <2>2, CountsPart, ZenonT(30)
  <2> QED
    BY <1>2, <2>3
<1>4. Counts(InBuffer, t + u) /\ Len(InBuffer) = Buffered1
  <2>1. CASE rio.cnt > 0
    <3>1. \A i \in rio.ptr .. rio.ptr + rio.cnt - 1 : rio.buf[i] = (t + u) + (i - rio.ptr) + 1
      <4> TAKE i \in rio.ptr .. rio.ptr + rio.cnt - 1
      <4>1. i - rio.ptr + 1 \in 1 .. rio.cnt /\ rio.ptr + (i - rio.ptr + 1) - 1 = i
        BY <1>1
      <4> QED
        BY <1>1, <1>2, <4>1
    <3>. DEFINE p == rio.ptr
                n == rio.cnt
    <3>4. p \in Nat \ {0} /\ n \in Nat \ {0} /\ t + u \in Nat
      BY <1>1, <1>2, <2>1
    <3>5. p + n - 1 \in Nat /\ p <= (p + n - 1) + 1
      <4> HIDE DEF p, n
      <4> QED
        BY <3>4
    <3>2. /\ t + u \in Nat /\ rio.ptr \in Nat \ {0} /\ rio.ptr + rio.cnt - 1 \in Nat
          /\ rio.ptr <= (rio.ptr + rio.cnt - 1) + 1
      BY <3>4, <3>5, Zenon
    <3>3. /\ Counts(SubSeq(rio.buf, rio.ptr, rio.ptr + rio.cnt - 1), t + u)
          /\ Len(SubSeq(rio.buf, rio.ptr, rio.ptr + rio.cnt - 1)) = ((rio.ptr + rio.cnt - 1) - rio.ptr) + 1
      BY <3>1, <3>2, CountsPart, ZenonT(30)
    <3> QED
      BY <1>1, <2>1, <3>3 DEF InBuffer, Buffered1
  <2>2. CASE ~(rio.cnt > 0)
    BY <1>2, <2>2, CountsEmpty DEF InBuffer, Buffered1
  <2> QED
    BY <2>1, <2>2
<1> HIDE DEF kernel
<1> DEFINE middle == usr \o InBuffer
<1>5. Counts(middle, t) /\ Len(middle) = u + Buffered1
  BY <1>1, <1>2, <1>4, CountsConcat DEF t, u
<1> HIDE DEF middle
<1>6. Counts(middle \o kernel, t) /\ Len(middle \o kernel) = Len(stream) - t
  <2>1. Counts(kernel, t + Len(middle))
    BY <1>1, <1>2, <1>3, <1>5
  <2>2. Counts(middle \o kernel, t) /\ Len(middle \o kernel) = Len(middle) + Len(kernel)
    <3>1. t \in Nat /\ Counts(middle, t)
      BY <1>2, <1>5
    <3> QED
      BY <2>1, <3>1, CountsConcat, Zenon
  <2> QED
    BY <1>1, <1>2, <1>3, <1>5, <2>2
<1>7. Unread = middle \o kernel
  BY DEF Unread, middle, kernel
<1> QED
  BY <1>6, <1>7 DEF t

\* The strengthened invariant implies that the bytes arrive in order.
LEMMA OrderKept == ASSUME RioAssumption, IInv PROVE InOrder
<1>1. /\ Len(taken) \in Nat /\ Len(stream) \in Nat /\ Counts(taken, 0)
      /\ Len(stream) = bufp - 1 /\ bufp \in Nat
  BY Numbers DEF Places, Types
<1>2. Counts(taken \o Unread, 0) /\ Len(taken \o Unread) = Len(stream)
  <2>1. Counts(Unread, 0 + Len(taken)) /\ Len(Unread) = Len(stream) - Len(taken)
    BY <1>1, UnreadCounts
  <2>2. Counts(taken \o Unread, 0) /\ Len(taken \o Unread) = Len(taken) + Len(Unread)
    BY <1>1, <2>1, CountsConcat
  <2> QED
    BY <1>1, <2>1, <2>2
<1> QED
  BY <1>1, <1>2, CountsAll DEF InOrder

-----------------------------------------------------------------------------
(* The steps.                                                              *)

\* A call of rio_writen starts with nothing of it written.
LEMMA RioWritenIInv ==
  ASSUME RioAssumption, IInv, NEW n \in WriteSizes, RioWriten(n)
  PROVE  IInv'
<1> USE DEF IInv, RioWriten, reader, writer, Calls, Buffered, RioAssumption
<1>1. Types'
  BY DEF Types, InKernel, Buffered1
<1>2. Places'
  BY Numbers DEF Places, Types, Apart, Buffered1
<1>3. Apart'
  BY DEF Types, Apart
<1> QED
  BY <1>1, <1>2, <1>3

\* An interrupted write leaves every byte in its place.
LEMMA WriteInterruptedIInv ==
  ASSUME RioAssumption, IInv, WriteInterrupted
  PROVE  IInv'
<1> USE DEF IInv, WriteInterrupted, InterruptedCount, reader, writer, Calls, Buffered, RioAssumption
<1>1. Types'
  BY DEF Types, InKernel, Buffered1
<1>2. Places'
  BY Numbers DEF Places, Types, Apart, Buffered1
<1>3. Apart'
  BY DEF Types, Apart
<1> QED
  BY <1>1, <1>2, <1>3

\* A failed write leaves every byte in its place.
LEMMA WriteFailsIInv ==
  ASSUME RioAssumption, IInv, WriteFails
  PROVE  IInv'
<1> USE DEF IInv, WriteFails, reader, writer, Calls, Buffered, RioAssumption
<1>1. Types'
  BY DEF Types, InKernel, Buffered1
<1>2. Places'
  BY Numbers DEF Places, Types, Apart, Buffered1
<1>3. Apart'
  BY DEF Types, Apart
<1> QED
  BY <1>1, <1>2, <1>3

\* The return of rio_writen leaves every byte in its place.
LEMMA WriteReturnsIInv ==
  ASSUME RioAssumption, IInv, WriteReturns
  PROVE  IInv'
<1> USE DEF IInv, WriteReturns, reader, writer, Calls, Buffered, RioAssumption
<1>1. Types'
  BY DEF Types, InKernel, Buffered1
<1>2. Places'
  BY Numbers DEF Places, Types, Apart, Buffered1
<1>3. Apart'
  BY DEF Types, Apart
<1> QED
  BY <1>1, <1>2, <1>3

\* Closing the writing end leaves every byte in its place.
LEMMA CloseIInv ==
  ASSUME RioAssumption, IInv, Close
  PROVE  IInv'
<1> USE DEF IInv, Close, reader, writer, Calls, Buffered, RioAssumption
<1>1. Types'
  BY DEF Types, InKernel, Buffered1
<1>2. Places'
  BY Numbers DEF Places, Types, Apart, Buffered1
<1>3. Apart'
  BY DEF Types, Apart
<1> QED
  BY <1>1, <1>2, <1>3

\* A new call of the reader has stored nothing yet.
LEMMA CallIInv ==
  ASSUME RioAssumption, IInv, NEW call \in Calls, NEW n \in Nat, Call(call, n)
  PROVE  IInv'
<1> USE DEF IInv, Call, reader, writer, Calls, Buffered, RioAssumption
<1>1. Types'
  BY DEF Types, InKernel, Buffered1
<1>2. Places'
  BY CountsEmpty, Numbers DEF Places, Types, Apart, Buffered1
<1>3. Apart'
  BY CountsEmpty DEF Types, Apart
<1> QED
  BY <1>1, <1>2, <1>3

\* Only the count of rio_t changes when its buffer is found empty.
LEMMA CntChanged ==
  ASSUME NEW B, NEW r \in [buf : B, ptr : Nat \ {0}, cnt : Int]
  PROVE  /\ [r EXCEPT !.cnt = -1] \in [buf : B, ptr : Nat \ {0}, cnt : Int]
         /\ [r EXCEPT !.cnt = -1].ptr = r.ptr /\ [r EXCEPT !.cnt = -1].cnt = -1
OBVIOUS

\* An interrupted refill leaves the buffer empty.
LEMMA RefillInterruptedIInv ==
  ASSUME RioAssumption, IInv, RefillInterrupted
  PROVE  IInv'
<1> USE DEF IInv, RefillInterrupted, Empty, reader, writer, Calls, Buffered, RioAssumption
<1>1. Types'
  <2>1. /\ rio' \in [buf : [1 .. BufSize -> Nat], ptr : Nat \ {0}, cnt : Int]
        /\ rio'.ptr = rio.ptr /\ (rio'.cnt = rio.cnt \/ rio'.cnt = -1)
    <3>1. rio \in [buf : [1 .. BufSize -> Nat], ptr : Nat \ {0}, cnt : Int]
      BY DEF Types
    <3>2. rio' = rio \/ rio' = [rio EXCEPT !.cnt = -1]
      OBVIOUS
    <3> HIDE DEF IInv, RefillInterrupted, Empty
    <3> QED
      BY <3>1, <3>2, CntChanged
  <2>3. rio'.cnt \in -1 .. BufSize /\ rio'.ptr + Buffered1' <= BufSize + 1
    BY <2>1 DEF Types, Buffered1
  <2> QED
    BY <2>1, <2>3 DEF Types, InKernel
<1>2. Places'
  BY Numbers DEF Places, Types, Apart, Buffered1
<1>3. Apart'
  BY DEF Types, Apart
<1> QED
  BY <1>1, <1>2, <1>3

\* A failed read leaves every byte in its place.
LEMMA ReadFailsIInv ==
  ASSUME RioAssumption, IInv, ReadFails
  PROVE  IInv'
<1> USE DEF IInv, ReadFails, Reading, Empty, reader, writer, Calls, Buffered, RioAssumption
<1>1. Types'
  <2>1. /\ rio' \in [buf : [1 .. BufSize -> Nat], ptr : Nat \ {0}, cnt : Int]
        /\ rio'.ptr = rio.ptr /\ (rio'.cnt = rio.cnt \/ rio'.cnt = -1)
    <3>1. rio \in [buf : [1 .. BufSize -> Nat], ptr : Nat \ {0}, cnt : Int]
      BY DEF Types
    <3>2. rio' = rio \/ rio' = [rio EXCEPT !.cnt = -1]
      OBVIOUS
    <3> HIDE DEF IInv, ReadFails, Reading, Empty
    <3> QED
      BY <3>1, <3>2, CntChanged
  <2>3. rio'.cnt \in -1 .. BufSize /\ rio'.ptr + Buffered1' <= BufSize + 1
    BY <2>1 DEF Types, Buffered1
  <2> QED
    BY <2>1, <2>3 DEF Types, InKernel
<1>2. Places'
  <2>1. /\ Places /\ rio.cnt \in Int
        /\ UNCHANGED <<stream, recv, bufp, usr, taken>>
    BY Numbers
  <2>2. CASE rio' = rio
    BY <2>1, <2>2 DEF Places, Buffered1
  <2>3. CASE rpc \in Buffered
    <3>1. rio.cnt <= 0 /\ rio' = [rio EXCEPT !.cnt = -1]
      BY <2>3
    <3>2. rio'.cnt = -1
      BY <3>1, CntChanged, Numbers
    <3> QED
      BY <2>1, <3>1, <3>2 DEF Places, Buffered1
  <2> QED
    BY <2>2, <2>3
<1>3. Apart'
  BY DEF Types, Apart
<1> QED
  BY <1>1, <1>2, <1>3

\* The bytes a write adds come after those that are there.
LEMMA WriteSomeIInv ==
  ASSUME RioAssumption, IInv, NEW k \in 1 .. Lesser(nleft, Capacity - InKernel), WriteSome(k)
  PROVE  IInv'
<1> USE DEF WriteSome, reader
<1>0. /\ Types /\ Places /\ Apart
      /\ Len(stream) \in Nat /\ Len(taken) \in Nat /\ Len(usr) \in Nat /\ Buffered1 \in Nat
      /\ recv <= Len(stream) /\ InKernel = Len(stream) - recv
      /\ stream \in Seq(Nat) /\ Counts(stream, 0) /\ recv \in Nat /\ rio.cnt \in Int
      /\ Capacity \in Nat /\ BufSize \in Nat /\ Total \in Nat
  BY Numbers
<1>1. k \in Nat /\ k <= nleft /\ k <= Capacity - InKernel
  BY <1>0 DEF Lesser, Types
<1>2. Counts(stream', 0) /\ Len(stream') = Len(stream) + k
  <2> DEFINE written == [i \in 1 .. k |-> bufp + i - 1]
  <2>1. written \in Seq(Nat) /\ Len(written) = k
    BY <1>1, <1>0 DEF Places
  <2>2. \A i \in 1 .. k : written[i] = Len(stream) + i
    BY <1>1, <1>0 DEF Places
  <2>3. Counts(written, 0 + Len(stream)) /\ Counts(stream, 0)
    BY <2>1, <2>2, <1>0 DEF Counts, Places
  <2> HIDE DEF written
  <2>4. Counts(stream \o written, 0) /\ Len(stream \o written) = Len(stream) + k
    BY <2>1, <2>3, CountsConcat
  <2> QED
    BY <2>4 DEF written
<1>3. Types'
  BY <1>1, <1>2, <1>0 DEF Types, InKernel, Buffered1
<1>4. Places'
  BY <1>1, <1>2, <1>0 DEF Places, Types, Buffered1
<1>5. Apart'
  BY <1>0 DEF Apart, Buffered
<1> QED
  BY <1>3, <1>4, <1>5 DEF IInv

\* rio_readn takes the next k bytes from the kernel.
LEMMA ReadnSomeIInv ==
  ASSUME RioAssumption, IInv, NEW k \in 1 .. InKernel, ReadnSome(k)
  PROVE  IInv'
<1> USE DEF ReadnSome, writer
<1>0. /\ Types /\ Places /\ Apart
      /\ Len(stream) \in Nat /\ Len(taken) \in Nat /\ Len(usr) \in Nat /\ Buffered1 \in Nat
      /\ recv <= Len(stream) /\ InKernel = Len(stream) - recv
      /\ stream \in Seq(Nat) /\ Counts(stream, 0) /\ recv \in Nat /\ rio.cnt \in Int
      /\ Capacity \in Nat /\ BufSize \in Nat /\ Total \in Nat
  BY Numbers
<1>1. k \in Nat \ {0} /\ recv + k <= Len(stream) /\ recv \in Nat
  BY <1>0 DEF Types
<1>2. rio.cnt <= 0 /\ Buffered1 = 0 /\ recv = Len(taken) + Len(usr)
  <2>1. ~(rio.cnt > 0)
    BY <1>0 DEF Apart, Buffered
  <2>2. recv = Len(taken) + Len(usr) + Buffered1
    BY <1>0 DEF Places
  <2> QED
    BY <1>0, <2>1, <2>2, SMTT(30) DEF Buffered1
<1>3. Counts(usr', Len(taken)) /\ Len(usr') = Len(usr) + k
  <2> HIDE DEF ReadnSome, writer
  <2> DEFINE piece == SubSeq(stream, recv + 1, recv + k)
  <2>1. \A i \in recv + 1 .. recv + k : stream[i] = recv + (i - (recv + 1)) + 1
    <3> TAKE i \in recv + 1 .. recv + k
    <3>1. i \in 1 .. Len(stream) /\ recv + (i - (recv + 1)) + 1 = i
      BY <1>1, <1>0
    <3> QED
      BY <1>0, <3>1 DEF Counts
  <2>2. recv \in Nat /\ recv + 1 \in Nat \ {0} /\ recv + k \in Nat /\ recv + 1 <= (recv + k) + 1
    BY <1>1
  <2>3. Counts(piece, recv) /\ Len(piece) = ((recv + k) - (recv + 1)) + 1
    BY <2>1, <2>2, CountsPart, ZenonT(30)
  <2> HIDE DEF piece
  <2>4. Counts(usr, Len(taken)) /\ Counts(piece, Len(taken) + Len(usr)) /\ Len(piece) = k
    BY <1>0, <1>1, <1>2, <2>3 DEF Places
  <2>5. Counts(usr \o piece, Len(taken)) /\ Len(usr \o piece) = Len(usr) + k
    <3>1. Len(taken) \in Nat /\ Counts(usr, Len(taken)) /\ Counts(piece, Len(taken) + Len(usr)) /\ Len(piece) = k
      BY <2>4, <1>0
    <3>2. Counts(usr \o piece, Len(taken)) /\ Len(usr \o piece) = Len(usr) + Len(piece)
      BY <3>1, CountsConcat, ZenonT(30)
    <3> QED
      BY <3>1, <3>2
  <2> QED
    BY <2>5 DEF piece, ReadnSome
<1>4. Types'
  BY <1>1, <1>0 DEF Types, InKernel, Buffered1
<1>5. Places'
  <2>1. rio' = rio /\ taken' = taken /\ stream' = stream /\ bufp' = bufp /\ recv' = recv + k
    OBVIOUS
  <2>2. Buffered1' = 0 /\ ~(rio'.cnt >= 1)
    BY <1>0, <1>2, <2>1 DEF Buffered1
  <2>3. \A i \in 1 .. rio'.cnt : rio'.buf[rio'.ptr + i - 1] = Len(taken') + Len(usr') + i
    BY <1>0, <2>1, <2>2
  <2>4. recv' = Len(taken') + Len(usr') + Buffered1'
    BY <1>0, <1>1, <1>2, <1>3, <2>1, <2>2
  <2> QED
    BY <1>0, <1>3, <2>1, <2>3, <2>4 DEF Places
<1>6. Apart'
  BY <1>1, <1>2, <1>3, <1>0 DEF Types, Apart, Buffered, Calls
<1> QED
  BY <1>4, <1>5, <1>6 DEF IInv

\* A refill puts the next k bytes where rio_bufptr is set back to.
LEMMA RefillIInv ==
  ASSUME RioAssumption, IInv, NEW k \in 1 .. Lesser(BufSize, InKernel), Refill(k)
  PROVE  IInv'
<1> USE DEF Refill, Empty, writer
<1>0. /\ Types /\ Places /\ Apart
      /\ Len(stream) \in Nat /\ Len(taken) \in Nat /\ Len(usr) \in Nat /\ Buffered1 \in Nat
      /\ recv <= Len(stream) /\ InKernel = Len(stream) - recv
      /\ stream \in Seq(Nat) /\ Counts(stream, 0) /\ recv \in Nat /\ rio.cnt \in Int
      /\ Capacity \in Nat /\ BufSize \in Nat /\ Total \in Nat
  BY Numbers
<1>1. k \in Nat \ {0} /\ k <= BufSize /\ recv + k <= Len(stream) /\ recv \in Nat
  BY <1>0 DEF Lesser, Types
<1>2. recv = Len(taken) + Len(usr)
  <2>1. recv = Len(taken) + Len(usr) + Buffered1
    BY <1>0 DEF Places
  <2> QED
    BY <1>0, <2>1 DEF Buffered1
<1>3. \A i \in 1 .. k : stream[recv + i] = recv + i /\ recv + i \in Nat
  <2> TAKE i \in 1 .. k
  <2>1. recv + i \in 1 .. Len(stream)
    BY <1>0, <1>1
  <2> QED
    BY <1>0, <2>1 DEF Counts
<1>4. /\ rio'.ptr = 1 /\ rio'.cnt = k
      /\ rio' \in [buf : [1 .. BufSize -> Nat], ptr : Nat \ {0}, cnt : Int]
      /\ \A i \in 1 .. k : rio'.buf[1 + i - 1] = Len(taken) + Len(usr) + i
  <2> DEFINE filled == [i \in 1 .. BufSize |-> IF i <= k THEN stream[recv + i] ELSE rio.buf[i]]
  <2>1. rio' = [buf |-> filled, ptr |-> 1, cnt |-> k]
    OBVIOUS
  <2>2. filled \in [1 .. BufSize -> Nat]
    <3>1. rio.buf \in [1 .. BufSize -> Nat]
      BY <1>0 DEF Types
    <3>2. ASSUME NEW i \in 1 .. BufSize, i <= k PROVE i \in 1 .. k
      BY <1>0, <1>1, <3>2
    <3> QED
      BY <1>0, <1>3, <3>1, <3>2
  <2>3. \A i \in 1 .. k : filled[1 + i - 1] = Len(taken) + Len(usr) + i
    <3> TAKE i \in 1 .. k
    <3>1. 1 + i - 1 = i /\ i \in 1 .. BufSize /\ i <= k
      BY <1>0, <1>1
    <3> QED
      BY <1>2, <1>3, <3>1
  <2> HIDE DEF filled, Refill
  <2> QED
    BY <1>0, <1>1, <2>1, <2>2, <2>3
<1>5. Types'
  <2>1. /\ stream' = stream /\ recv' = recv + k
        /\ UNCHANGED <<wpc, bufp, nleft, rpc, want>>
    OBVIOUS
  <2>2. InKernel' = InKernel - k /\ InKernel' \in 0 .. Capacity
    BY <1>0, <1>1, <2>1 DEF InKernel, Types
  <2>3. Buffered1' = k
    BY <1>1, <1>4 DEF Buffered1
  <2>4. rio'.cnt \in -1 .. BufSize /\ rio'.ptr + Buffered1' <= BufSize + 1
    BY <1>0, <1>1, <1>4, <2>3
  <2>5. recv' \in Nat
    BY <1>0, <1>1, <2>1
  <2> HIDE DEF Refill
  <2> QED
    BY <1>0, <1>4, <2>1, <2>2, <2>4, <2>5 DEF Types
<1>6. Places'
  <2>1. usr' = usr /\ taken' = taken /\ stream' = stream /\ bufp' = bufp /\ recv' = recv + k
    OBVIOUS
  <2>2. Buffered1' = k
    BY <1>1, <1>4 DEF Buffered1
  <2>3. recv' = Len(taken') + Len(usr') + Buffered1'
    BY <1>0, <1>1, <1>2, <2>1, <2>2
  <2> QED
    BY <1>0, <1>4, <2>1, <2>3 DEF Places
<1>7. Apart'
  BY <1>0, <1>1, <1>4 DEF Types, Apart, Buffered, Calls
<1> QED
  BY <1>5, <1>6, <1>7 DEF IInv

\* A copy takes the next bytes off rio_buf.
LEMMA CopyIInv ==
  ASSUME RioAssumption, IInv, Copy
  PROVE  IInv'
<1>0. /\ Types /\ Places /\ Apart
      /\ Len(stream) \in Nat /\ Len(taken) \in Nat /\ Len(usr) \in Nat
      /\ recv <= Len(stream) /\ InKernel = Len(stream) - recv
      /\ recv \in Nat /\ rio.cnt \in Int /\ rio.cnt > 0 /\ rio.ptr \in Nat \ {0}
      /\ Counts(usr, Len(taken)) /\ rio \in [buf : [1 .. BufSize -> Nat], ptr : Nat \ {0}, cnt : Int]
      /\ Capacity \in Nat /\ BufSize \in Nat /\ want \in Nat
  BY Numbers DEF Copy
<1> DEFINE n == IF rpc = "readlineb" THEN 1 ELSE want - Len(usr)
           c == Lesser(n, rio.cnt)
           piece == SubSeq(rio.buf, rio.ptr, rio.ptr + c - 1)
<1>1. c \in Nat \ {0} /\ c <= rio.cnt /\ c <= n
  <2>1. n \in Nat \ {0}
    <3>1. CASE rpc = "readlineb"
      BY <3>1
    <3>2. CASE rpc # "readlineb"
      <4>1. Len(usr) <= want /\ Len(usr) # want
        BY <1>0, <3>2 DEF Copy, Apart, Buffered, Complete
      <4> QED
        BY <1>0, <3>2, <4>1
    <3> QED
      BY <3>1, <3>2
  <2> QED
    BY <1>0, <2>1 DEF Lesser
<1>2. /\ usr' = usr \o piece /\ rio' = [rio EXCEPT !.ptr = @ + c, !.cnt = @ - c]
      /\ UNCHANGED <<stream, recv, wpc, bufp, nleft, rpc, want, taken, last>>
  BY DEF Copy, writer
<1>3. rpc \in Buffered
  BY DEF Copy
<1> HIDE DEF c
<1>4. recv = Len(taken) + Len(usr) + rio.cnt /\ \A i \in 1 .. rio.cnt : rio.buf[rio.ptr + i - 1] = Len(taken) + Len(usr) + i
  BY <1>0 DEF Places, Buffered1
<1>5. Counts(usr', Len(taken)) /\ Len(usr') = Len(usr) + c
  <2>1. \A i \in rio.ptr .. rio.ptr + c - 1 : rio.buf[i] = (Len(taken) + Len(usr)) + (i - rio.ptr) + 1
    <3> TAKE i \in rio.ptr .. rio.ptr + c - 1
    <3>1. i - rio.ptr + 1 \in 1 .. rio.cnt /\ rio.ptr + (i - rio.ptr + 1) - 1 = i
      BY <1>0, <1>1
    <3>2. rio.buf[rio.ptr + (i - rio.ptr + 1) - 1] = Len(taken) + Len(usr) + (i - rio.ptr + 1)
      BY <1>4, <3>1
    <3>3. i \in Int
      OBVIOUS
    <3> QED
      BY <1>0, <3>1, <3>2, <3>3
  <2>2. /\ Len(taken) + Len(usr) \in Nat /\ rio.ptr \in Nat \ {0} /\ rio.ptr + c - 1 \in Nat
        /\ rio.ptr <= (rio.ptr + c - 1) + 1
    BY <1>0, <1>1
  <2>3. Counts(piece, Len(taken) + Len(usr)) /\ Len(piece) = ((rio.ptr + c - 1) - rio.ptr) + 1
    BY <2>1, <2>2, CountsPart, ZenonT(30)
  <2> HIDE DEF piece
  <2>4. Len(piece) = c
    BY <1>0, <1>1, <2>3
  <2>5. Counts(usr \o piece, Len(taken)) /\ Len(usr \o piece) = Len(usr) + Len(piece)
    <3>1. Counts(usr, Len(taken)) /\ Len(taken) \in Nat /\ Counts(piece, Len(taken) + Len(usr))
      BY <1>0, <2>3
    <3> QED
      BY <3>1, CountsConcat, Zenon
  <2> QED
    BY <1>2, <2>4, <2>5
<1> HIDE DEF piece, n
<1>6. /\ rio' \in [buf : [1 .. BufSize -> Nat], ptr : Nat \ {0}, cnt : Int]
      /\ rio'.buf = rio.buf /\ rio'.ptr = rio.ptr + c /\ rio'.cnt = rio.cnt - c
  <2>1. rio' = [rio EXCEPT !.ptr = rio.ptr + c, !.cnt = rio.cnt - c]
    BY <1>2
  <2>2. rio.ptr + c \in Nat \ {0} /\ rio.cnt - c \in Int
    BY <1>0, <1>1
  <2> QED
    BY <1>0, <2>1, <2>2
<1>7. Buffered1' = rio.cnt - c
  BY <1>0, <1>1, <1>6 DEF Buffered1
<1>8. Types'
  <2>1. rio'.cnt \in -1 .. BufSize /\ rio'.ptr + Buffered1' <= BufSize + 1
    <3>1. rio.ptr + rio.cnt <= BufSize + 1 /\ rio.cnt \in -1 .. BufSize
      BY <1>0 DEF Types, Buffered1
    <3>2. /\ rio.cnt \in Int /\ rio.ptr \in Nat /\ BufSize \in Nat
          /\ c \in Nat \ {0} /\ c <= rio.cnt
      BY <1>0, <1>1
    <3>3. rio'.ptr = rio.ptr + c /\ rio'.cnt = rio.cnt - c /\ Buffered1' = rio.cnt - c
      BY <1>6, <1>7
    <3> QED
      BY <3>1, <3>2, <3>3
  <2>2. InKernel' = InKernel
    BY <1>2 DEF InKernel
  <2> QED
    BY <1>0, <1>2, <1>6, <2>1, <2>2 DEF Types
<1>9. Places'
  <2>1. \A i \in 1 .. rio'.cnt : rio'.buf[rio'.ptr + i - 1] = Len(taken') + Len(usr') + i
    <3> TAKE i \in 1 .. rio'.cnt
    <3>1. c + i \in 1 .. rio.cnt /\ rio.ptr + (c + i) - 1 = rio'.ptr + i - 1
      BY <1>0, <1>1, <1>6
    <3>2. rio.buf[rio.ptr + (c + i) - 1] = Len(taken) + Len(usr) + (c + i)
      BY <1>4, <3>1
    <3>3. rio'.buf[rio'.ptr + i - 1] = Len(taken) + Len(usr) + (c + i)
      BY <1>6, <3>1, <3>2
    <3>4. Len(usr') = Len(usr) + c /\ taken' = taken /\ i \in Int
      BY <1>2, <1>5
    <3> QED
      BY <1>0, <1>1, <3>3, <3>4
  <2>2. recv' = Len(taken') + Len(usr') + Buffered1'
    BY <1>0, <1>1, <1>2, <1>4, <1>5, <1>7
  <2> QED
    BY <1>0, <1>2, <1>5, <2>1, <2>2 DEF Places
<1>10. Apart'
  <2>1. rpc = "readnb" => Len(usr') <= want
    <3>1. rpc = "readnb" => n = want - Len(usr)
      BY DEF n
    <3> QED
      BY <1>0, <1>1, <1>5, <3>1
  <2> QED
    BY <1>2, <1>3, <2>1 DEF Apart, Buffered
<1> QED
  BY <1>8, <1>9, <1>10 DEF IInv

\* What a call stored is handed to its caller, whole.
LEMMA ReturnIInv ==
  ASSUME RioAssumption, IInv, rpc \in Calls, NEW atEnd \in BOOLEAN, Return(atEnd),
         UNCHANGED <<stream, recv, wpc, bufp, nleft, want>>,
         \/ rio' = rio
         \/ rio.cnt <= 0 /\ rio' = [rio EXCEPT !.cnt = 0]
  PROVE  IInv'
<1>0. /\ Types /\ Places /\ Apart
      /\ Len(stream) \in Nat /\ Len(taken) \in Nat /\ Len(usr) \in Nat
      /\ Counts(usr, Len(taken)) /\ Counts(taken, 0) /\ rio.cnt \in Int
      /\ rio \in [buf : [1 .. BufSize -> Nat], ptr : Nat \ {0}, cnt : Int]
      /\ BufSize \in Nat /\ rpc' \in {"idle", "ended"} /\ usr' = <<>> /\ taken' = taken \o usr
      /\ last'.call = rpc
  BY Numbers DEF Return
<1>1. Counts(taken', 0) /\ Len(taken') = Len(taken) + Len(usr)
  <2>1. Counts(usr, 0 + Len(taken)) /\ Counts(taken, 0) /\ 0 \in Nat
    BY <1>0
  <2>2. Counts(taken \o usr, 0) /\ Len(taken \o usr) = Len(taken) + Len(usr)
    BY <2>1, CountsConcat, Zenon
  <2> QED
    BY <1>0, <2>2
<1>2. Counts(usr', Len(taken')) /\ Len(usr') = 0
  <2>1. Len(taken') \in Nat
    BY <1>0, <1>1
  <2> QED
    BY <1>0, <2>1, CountsEmpty
<1>3. /\ rio' \in [buf : [1 .. BufSize -> Nat], ptr : Nat \ {0}, cnt : Int]
      /\ rio'.buf = rio.buf /\ rio'.ptr = rio.ptr
      /\ rio'.cnt = rio.cnt \/ (rio.cnt <= 0 /\ rio'.cnt = 0)
  BY <1>0
<1>4. Buffered1' = Buffered1
  BY <1>0, <1>3 DEF Buffered1
<1>5. Types'
  <2>1. InKernel' = InKernel
    BY DEF InKernel
  <2>2. rio'.cnt \in -1 .. BufSize /\ rio'.ptr + Buffered1' <= BufSize + 1
    BY <1>0, <1>3, <1>4 DEF Types
  <2> QED
    BY <1>0, <1>3, <2>1, <2>2 DEF Types
<1>6. Places'
  <2>1. \A i \in 1 .. rio'.cnt : rio'.buf[rio'.ptr + i - 1] = Len(taken') + Len(usr') + i
    <3> TAKE i \in 1 .. rio'.cnt
    <3>1. i \in 1 .. rio.cnt
      BY <1>0, <1>3
    <3>2. rio.buf[rio.ptr + i - 1] = Len(taken) + Len(usr) + i
      BY <1>0, <3>1 DEF Places
    <3> QED
      BY <1>0, <1>1, <1>2, <1>3, <3>2
  <2>2. recv' = Len(taken') + Len(usr') + Buffered1'
    <3>1. recv = Len(taken) + Len(usr) + Buffered1
      BY <1>0 DEF Places
    <3> QED
      BY <1>0, <1>1, <1>2, <1>4, <3>1, Numbers
  <2> QED
    BY <1>0, <1>1, <1>2, <2>1, <2>2 DEF Places
<1>7. Apart'
  <2>1. rio'.cnt > 0 => rpc \in Buffered
    BY <1>0, <1>3 DEF Apart, Calls, Buffered
  <2> QED
    BY <1>0, <2>1 DEF Apart
<1> QED
  BY <1>5, <1>6, <1>7 DEF IInv

\* Every step preserves the strengthened invariant.
LEMMA NextIInv ==
  ASSUME RioAssumption, IInv, [Next]_vars
  PROVE  IInv'
<1>1. CASE UNCHANGED vars
  BY <1>1 DEF vars, writer, reader, IInv, Types, Places, Apart, Buffered1, InKernel
<1>2. ASSUME NEW n \in WriteSizes, RioWriten(n) PROVE IInv'
  BY <1>2, RioWritenIInv
<1>3. CASE Writes
  BY <1>3, WriteSomeIInv DEF Writes
<1>4. CASE WriteInterrupted \/ WriteFails \/ WriteReturns \/ Close
  BY <1>4, WriteInterruptedIInv, WriteFailsIInv, WriteReturnsIInv, CloseIInv
<1>5. CASE Calling
  <2>1. Reads \subseteq Nat /\ Lines \subseteq Nat /\ {"readn", "readnb", "readlineb"} \subseteq Calls
    BY DEF RioAssumption, Calls
  <2> QED
    BY <1>5, <2>1, CallIInv DEF Calling
<1>6. CASE ReturnFull
  <2>1. rpc \in Calls /\ Return(FALSE) /\ rio' = rio /\ UNCHANGED <<stream, recv, wpc, bufp, nleft, want>>
    BY <1>6 DEF ReturnFull, writer
  <2> QED
    BY <2>1, ReturnIInv
<1>7. CASE ReadsSome
  BY <1>7, ReadnSomeIInv, RefillIInv DEF ReadsSome
<1>8. CASE RefillInterrupted \/ Copy \/ ReadFails
  BY <1>8, RefillInterruptedIInv, CopyIInv, ReadFailsIInv
<1>9. CASE EndOfFile
  <2>1. rpc \in Calls /\ Return(TRUE) /\ UNCHANGED <<stream, recv, wpc, bufp, nleft, want>>
    BY <1>9 DEF EndOfFile, Reading, Empty, Calls, Buffered, writer
  <2>2. rio' = rio \/ (rio.cnt <= 0 /\ rio' = [rio EXCEPT !.cnt = 0])
    BY <1>9 DEF EndOfFile, Reading, Empty, Buffered
  <2> QED
    BY <2>1, <2>2, ReturnIInv
<1> QED
  BY <1>1, <1>2, <1>3, <1>4, <1>5, <1>6, <1>7, <1>8, <1>9 DEF Next, ReadnInterrupted, Idle

\* In every behaviour the counts of the reader and the writer fit together and every
\* byte stands in one place, in order, between the writer and the caller.
THEOREM AlwaysIInv == ASSUME RioAssumption PROVE Spec => []IInv
<1>1. Init => IInv
  BY InitIInv, RioAssumption
<1>2. IInv /\ [Next]_vars => IInv'
  BY NextIInv, RioAssumption
<1> QED
  BY <1>1, <1>2, PTL DEF Spec

-----------------------------------------------------------------------------

\* The kernel's buffer, the books of both processes and the indices into rio_buf
\* stay within their bounds, for buffers and calls of any size.
THEOREM TypeCorrect == ASSUME RioAssumption PROVE Spec => []TypeOK
<1>1. IInv => TypeOK
  BY TypesCorrect, RioAssumption
<1> QED
  BY <1>1, AlwaysIInv, RioAssumption, PTL

\* No byte is lost, repeated or moved, however the kernel cuts the calls short
\* or interrupts them and however counted reads and lines alternate on one
\* rio_t (rio_readn, rio_writen, rio_read).
THEOREM EveryByteInOrder == ASSUME RioAssumption PROVE Spec => []InOrder
<1>1. IInv => InOrder
  BY OrderKept, RioAssumption
<1> QED
  BY <1>1, AlwaysIInv, RioAssumption, PTL

-----------------------------------------------------------------------------
(* The end of the stream.                                                  *)

\* The writer is gone and all it sent has been handed over.
AtEnd == WriterGone /\ Len(stream) = Len(taken)

\* A line in progress is shorter than asked and its newline, if any, is last.
Line ==
  rpc = "readlineb" =>
    /\ Len(usr) + 1 <= want
    /\ \A i \in 1 .. Len(usr) : usr[i] \in Newlines => i = Len(usr)

\* How much a call that was asked for n may return.
Full(call, n) == IF call = "readlineb" THEN n - 1 ELSE n

LastCall ==
  /\ Len(last.got) <= Full(last.call, last.want)
  /\ last.call = "readlineb" => \A i \in DOMAIN last.got : last.got[i] \in Newlines => i = Len(last.got)
  /\ Len(last.got) < Full(last.call, last.want) =>
       \/ AtEnd
       \/ last.call = "readlineb" /\ \E i \in DOMAIN last.got : last.got[i] \in Newlines

\* Nothing is short before the end.
Ending == (rpc = "ended" => AtEnd) /\ Line /\ LastCall

\* Nobody has read yet.
LEMMA InitEnding == ASSUME RioAssumption, Init PROVE Ending
<1>1. rpc = "idle" /\ last = [call |-> "none", want |-> 0, got |-> <<>>]
  BY DEF Init
<1>2. Line
  BY <1>1 DEF Line
<1>3. last.call = "none" /\ last.want = 0 /\ last.got = <<>> /\ Len(last.got) = 0
  BY <1>1
<1>4. LastCall
  BY <1>3 DEF LastCall, Full
<1> QED
  BY <1>1, <1>2, <1>4 DEF Ending

\* No more is handed over than was read, and the rest follows on.
HandedOver ==
  /\ Len(taken) \in Nat /\ Len(stream) \in Nat /\ Len(usr) \in Nat
  /\ Len(taken) + Len(usr) <= Len(stream)
  /\ Counts(Unread, Len(taken)) /\ Len(Unread) = Len(stream) - Len(taken)

\* The invariant says so, before a step and after it.
LEMMA AllHandedOver ==
  ASSUME RioAssumption
  PROVE  (IInv => HandedOver) /\ (IInv' => HandedOver')
<1>1. IInv => HandedOver
  <2> SUFFICES ASSUME IInv PROVE HandedOver
    OBVIOUS
  <2>1. recv = Len(taken) + Len(usr) + Buffered1
    BY DEF IInv, Places
  <2> QED
    BY <2>1, Numbers, UnreadCounts DEF HandedOver
<1> QED
  BY <1>1, PTL

\* A writer that is gone sends nothing more.
LEMMA WriterStaysGone ==
  ASSUME WriterGone, [Next]_vars
  PROVE  WriterGone' /\ stream' = stream
<1> USE DEF WriterGone
<1>1. wpc \in {"closed", "failed"} /\ wpc # "idle" /\ wpc # "writing"
  OBVIOUS
<1>2. CASE \/ \E n \in WriteSizes : RioWriten(n)
           \/ Writes \/ WriteInterrupted \/ WriteFails \/ WriteReturns \/ Close
  BY <1>1, <1>2 DEF RioWriten, Writes, WriteSome, WriteInterrupted, WriteFails, WriteReturns, Close
<1>3. CASE Calling
  BY <1>3 DEF Calling, Call, writer
<1>4. CASE ReturnFull \/ EndOfFile
  BY <1>4 DEF ReturnFull, EndOfFile, writer
<1>5. CASE ReadsSome \/ RefillInterrupted \/ Copy \/ ReadFails
  BY <1>5 DEF ReadsSome, ReadnSome, Refill, RefillInterrupted, Copy, ReadFails, writer
<1>6. CASE UNCHANGED vars
  BY <1>6 DEF vars, writer
<1> QED
  BY <1>2, <1>3, <1>4, <1>5, <1>6 DEF Next, ReadnInterrupted, Idle

\* What completed calls returned only grows.
LEMMA TakenGrows ==
  ASSUME RioAssumption, IInv, [Next]_vars
  PROVE  Len(taken') >= Len(taken)
<1>1. taken \in Seq(Nat) /\ usr \in Seq(Nat) /\ Len(taken) \in Nat /\ Len(usr) \in Nat
  BY Numbers
<1>2. CASE \/ \E n \in WriteSizes : RioWriten(n)
           \/ Writes \/ WriteInterrupted \/ WriteFails \/ WriteReturns \/ Close
  BY <1>1, <1>2
  DEF RioWriten, Writes, WriteSome, WriteInterrupted, WriteFails, WriteReturns, Close, reader
<1>3. CASE Calling
  BY <1>1, <1>3 DEF Calling, Call
<1>4. CASE ReturnFull \/ EndOfFile
  <2>1. taken' = taken \o usr
    BY <1>4 DEF ReturnFull, EndOfFile, Return
  <2> QED
    BY <1>1, <2>1
<1>5. CASE ReadsSome \/ RefillInterrupted \/ Copy \/ ReadFails
  BY <1>1, <1>5 DEF ReadsSome, ReadnSome, Refill, RefillInterrupted, Copy, ReadFails
<1>6. CASE UNCHANGED vars
  BY <1>1, <1>6 DEF vars, reader
<1> QED
  BY <1>2, <1>3, <1>4, <1>5, <1>6 DEF Next, ReadnInterrupted, Idle

\* The end of the stream stays its end.
LEMMA EndStays ==
  ASSUME RioAssumption, IInv, IInv', AtEnd, [Next]_vars
  PROVE  AtEnd'
<1>1. WriterGone' /\ stream' = stream
  BY WriterStaysGone DEF AtEnd
<1> QED
  BY <1>1, AllHandedOver, TakenGrows DEF AtEnd, HandedOver

\* A byte more of a line, copied while the line went on.
LEMMA CopyLine ==
  ASSUME RioAssumption, IInv, Line, Copy
  PROVE  Line'
<1> SUFFICES ASSUME rpc = "readlineb" PROVE Line'
  BY DEF Copy, Line
<1>0. /\ usr \in Seq(Nat) /\ Len(usr) \in Nat /\ want \in Nat /\ rio.cnt \in Int /\ rio.cnt > 0
      /\ rio.ptr \in Nat \ {0} /\ rio.buf \in [1 .. BufSize -> Nat] /\ BufSize \in Nat
      /\ rio.ptr + rio.cnt <= BufSize + 1
  <2>1. rio.cnt > 0
    BY DEF Copy
  <2>2. rio.ptr + Buffered1 <= BufSize + 1 /\ rio \in [buf : [1 .. BufSize -> Nat], ptr : Nat \ {0}, cnt : Int]
    BY Numbers DEF Types
  <2> QED
    BY <2>1, <2>2, Numbers DEF Buffered1
<1>1. rpc' = "readlineb" /\ want' = want
  BY DEF Copy
<1>2. usr' = usr \o SubSeq(rio.buf, rio.ptr, rio.ptr)
  <2>1. Lesser(1, rio.cnt) = 1 /\ rio.ptr + 1 - 1 = rio.ptr
    BY <1>0 DEF Lesser
  <2> QED
    BY <2>1 DEF Copy
<1> DEFINE piece == SubSeq(rio.buf, rio.ptr, rio.ptr)
<1>3. piece \in Seq(Nat) /\ Len(piece) = 1
  <2>1. \A i \in rio.ptr .. rio.ptr : rio.buf[i] \in Nat
    BY <1>0
  <2> QED
    BY <1>0, <2>1, SubSeqProperties
<1> HIDE DEF piece
<1>4. /\ usr' \in Seq(Nat) /\ Len(usr') = Len(usr) + 1
      /\ \A i \in 1 .. Len(usr) : usr'[i] = usr[i]
  <2>1. usr' = usr \o piece
    BY <1>2 DEF piece
  <2>2. /\ usr \o piece \in Seq(Nat) /\ Len(usr \o piece) = Len(usr) + Len(piece)
        /\ \A i \in 1 .. Len(usr) + Len(piece) :
             (usr \o piece)[i] = IF i <= Len(usr) THEN usr[i] ELSE piece[i - Len(usr)]
    BY <1>0, <1>3, ConcatProperties
  <2>3. \A i \in 1 .. Len(usr) : i \in 1 .. Len(usr) + 1 /\ i <= Len(usr)
    BY <1>0
  <2> QED
    BY <1>0, <1>3, <2>1, <2>2, <2>3
<1>5. Len(usr) + 1 < want /\ \A i \in 1 .. Len(usr) : usr[i] \notin Newlines
  <2>1. ~(Len(usr) + 1 >= want) /\ ~(usr # <<>> /\ usr[Len(usr)] \in Newlines)
    BY DEF Copy, Complete
  <2>2. \A i \in 1 .. Len(usr) : usr[i] \in Newlines => i = Len(usr)
    BY DEF Line
  <2>3. \A i \in 1 .. Len(usr) : usr # <<>>
    BY <1>0
  <2> QED
    BY <1>0, <2>1, <2>2, <2>3
<1>6. \A i \in 1 .. Len(usr') : usr'[i] \in Newlines => i = Len(usr')
  <2> TAKE i \in 1 .. Len(usr')
  <2>1. i \in 1 .. Len(usr) \/ i = Len(usr')
    BY <1>0, <1>4
  <2> QED
    BY <1>4, <1>5, <2>1
<1> QED
  BY <1>0, <1>1, <1>4, <1>5, <1>6 DEF Line

\* A call that returns was given all it asked for, a line, or the rest.
LEMMA ReturnLast ==
  ASSUME RioAssumption, IInv, IInv', Line, rpc \in Calls, NEW atEnd \in BOOLEAN, Return(atEnd),
         Complete \/ AtEnd'
  PROVE  LastCall'
<1>1. /\ last'.call = rpc /\ last'.want = want /\ last'.got = usr
  BY DEF Return
<1>2. usr \in Seq(Nat) /\ DOMAIN usr = 1 .. Len(usr)
  BY Numbers
<1> DEFINE u == Len(usr)
<1>5. u \in Nat /\ want \in Nat
  BY Numbers
<1>3. CASE rpc = "readlineb"
  <2>1. /\ Len(usr) <= Full(rpc, want)
        /\ \A i \in DOMAIN usr : usr[i] \in Newlines => i = Len(usr)
    <3>1. Len(usr) + 1 <= want /\ \A i \in 1 .. Len(usr) : usr[i] \in Newlines => i = Len(usr)
      BY <1>3 DEF Line
    <3>2. Full(rpc, want) = want - 1
      BY <1>3 DEF Full
    <3>3. u <= want - 1
      <4>1. u + 1 <= want
        BY <3>1
      <4> HIDE DEF u
      <4> QED
        BY <1>5, <4>1
    <3> QED
      BY <1>2, <3>1, <3>2, <3>3
  <2>2. Len(usr) < Full(rpc, want) => AtEnd' \/ \E i \in DOMAIN usr : usr[i] \in Newlines
    <3>1. Complete /\ Len(usr) < Full(rpc, want) => usr # <<>> /\ usr[Len(usr)] \in Newlines
      <4>1. Complete => u + 1 >= want \/ (usr # <<>> /\ usr[Len(usr)] \in Newlines)
        BY <1>3 DEF Complete
      <4>2. Full(rpc, want) = want - 1
        BY <1>3 DEF Full
      <4>3. u < want - 1 => ~(u + 1 >= want)
        <5> HIDE DEF u
        <5> QED
          BY <1>5
      <4> QED
        BY <4>1, <4>2, <4>3
    <3>2. usr # <<>> => Len(usr) \in DOMAIN usr
      BY <1>2
    <3> QED
      BY <3>1, <3>2
  <2> QED
    BY <1>1, <1>3, <2>1, <2>2 DEF LastCall
<1>4. CASE rpc # "readlineb"
  <2>1. Len(usr) <= want
    BY <1>4, Numbers DEF Apart, Calls
  <2>2. Len(usr) < want => AtEnd'
    <3>1. Complete => u = want
      BY <1>4 DEF Complete
    <3>2. u = want => ~(u < want)
      <4> HIDE DEF u
      <4> QED
        BY <1>5
    <3> QED
      BY <3>1, <3>2
  <2> QED
    BY <1>1, <1>4, <2>1, <2>2 DEF LastCall, Full
<1> QED
  BY <1>3, <1>4

\* read reports the end when all has been handed over, with what the call stored.
LEMMA EndOfFileAtEnd ==
  ASSUME RioAssumption, IInv, EndOfFile
  PROVE  AtEnd' /\ Len(stream) = Len(taken) + Len(usr)
<1>1. WriterGone' /\ stream' = stream /\ recv = Len(stream)
  <2>1. InKernel = 0 /\ WriterGone /\ UNCHANGED <<stream, writer>>
    BY DEF EndOfFile
  <2>2. recv = Len(stream)
    BY <2>1, Numbers
  <2> QED
    BY <2>1, <2>2 DEF WriterGone, writer
<1>2. Buffered1 = 0
  <2>1. Reading
    BY DEF EndOfFile
  <2>2. rio.cnt <= 0
    <3>1. CASE rpc = "readn"
      BY <3>1, Numbers DEF Apart, Buffered
    <3>2. CASE Empty
      BY <3>2 DEF Empty
    <3> QED
      BY <2>1, <3>1, <3>2 DEF Reading
  <2> QED
    BY <2>2, Numbers DEF Buffered1
<1>3. recv = Len(taken) + Len(usr) + Buffered1
  BY DEF IInv, Places
<1>4. taken' = taken \o usr
  BY DEF EndOfFile, Return
<1>5. Len(taken') = Len(taken) + Len(usr)
  BY <1>4, Numbers
<1> QED
  BY <1>1, <1>2, <1>3, <1>5, Numbers DEF AtEnd

\* Every step keeps it.
LEMMA NextEnding ==
  ASSUME RioAssumption, IInv, IInv', Ending, [Next]_vars
  PROVE  Ending'
<1>0. AtEnd => AtEnd'
  BY EndStays
<1>1. ASSUME UNCHANGED reader PROVE Ending'
  BY <1>0, <1>1 DEF reader, Ending, Line, LastCall
<1>2. CASE \/ \E n \in WriteSizes : RioWriten(n)
           \/ Writes \/ WriteInterrupted \/ WriteFails \/ WriteReturns \/ Close
  BY <1>1, <1>2
  DEF RioWriten, Writes, WriteSome, WriteInterrupted, WriteFails, WriteReturns, Close
<1>3. CASE UNCHANGED vars
  BY <1>1, <1>3 DEF vars
<1>4. ASSUME last' = last, rpc' # "ended", Line' PROVE Ending'
  BY <1>0, <1>4 DEF Ending, LastCall
<1>5. CASE Calling
  <2>1. PICK call \in Calls, n \in Nat : Call(call, n) /\ (call = "readlineb" => n > 1)
    <3>1. Reads \subseteq Nat /\ Lines \subseteq Nat \ {0, 1}
      BY DEF RioAssumption
    <3>2. \A n \in Lines : n \in Nat /\ n > 1
      BY <3>1
    <3> QED
      BY <1>5, <3>1, <3>2 DEF Calling, Calls
  <2>2. last' = last /\ rpc' = call /\ want' = n /\ usr' = <<>>
    BY <2>1 DEF Call
  <2>3. Line'
    BY <2>1, <2>2 DEF Line
  <2> QED
    BY <1>4, <2>2, <2>3 DEF Calls
<1>6. CASE ReadsSome
  <2>1. last' = last /\ rpc' = rpc /\ rpc # "ended" /\ (rpc = "readn" \/ UNCHANGED <<usr, want>>)
    BY <1>6 DEF ReadsSome, ReadnSome, Refill, Empty, Buffered
  <2>2. Line'
    BY <2>1 DEF Line, Ending
  <2> QED
    BY <1>4, <2>1, <2>2
<1>7. CASE RefillInterrupted
  <2>1. last' = last /\ rpc' = rpc /\ rpc # "ended" /\ UNCHANGED <<usr, want>>
    BY <1>7 DEF RefillInterrupted, Empty, Buffered
  <2>2. Line'
    BY <2>1 DEF Line, Ending
  <2> QED
    BY <1>4, <2>1, <2>2
<1>8. CASE Copy
  <2>1. last' = last /\ rpc' = rpc /\ rpc # "ended"
    BY <1>8 DEF Copy, Buffered
  <2> QED
    BY <1>4, <1>8, <2>1, CopyLine DEF Ending
<1>9. CASE ReadFails
  <2>1. last' = last /\ rpc' = "failed"
    BY <1>9 DEF ReadFails
  <2> QED
    BY <1>4, <2>1 DEF Line
<1>10. CASE ReturnFull
  <2>1. rpc \in Calls /\ Complete /\ Return(FALSE) /\ rpc' = "idle"
    BY <1>10 DEF ReturnFull, Return
  <2>2. LastCall'
    BY <2>1, ReturnLast DEF Ending
  <2> QED
    BY <2>1, <2>2 DEF Ending, Line
<1>11. CASE EndOfFile
  <2>1. rpc \in Calls /\ Return(TRUE) /\ rpc' # "readlineb"
    BY <1>11 DEF EndOfFile, Reading, Empty, Calls, Buffered, Return
  <2>2. AtEnd'
    BY <1>11, EndOfFileAtEnd
  <2>3. LastCall'
    BY <2>1, <2>2, ReturnLast DEF Ending
  <2> QED
    BY <2>1, <2>2, <2>3 DEF Ending, Line
<1> QED
  BY <1>2, <1>3, <1>5, <1>6, <1>7, <1>8, <1>9, <1>10, <1>11 DEF Next, ReadnInterrupted, Idle

\* What the invariant says is what ShortOnlyAtEnd asks.
LEMMA EndingShort ==
  ASSUME RioAssumption, IInv, Ending
  PROVE  ShortOnlyAtEnd
<1> DEFINE got   == last.got
           full  == IF last.call = "readlineb" THEN last.want - 1 ELSE last.want
           lines == {i \in DOMAIN got : got[i] \in Newlines}
           isEnd == WriterGone /\ Unread = <<>>
<1>1. AtEnd => isEnd
  <2>1. Len(stream) = Len(taken) => Unread \in Seq(Nat) /\ Len(Unread) = 0
    BY AllHandedOver DEF HandedOver, Counts
  <2> QED
    BY <2>1 DEF AtEnd
<1>2. full = Full(last.call, last.want)
  BY DEF Full
<1>3. Len(got) <= full /\ (last.call = "readlineb" => lines \subseteq {Len(got)})
  BY <1>2 DEF Ending, LastCall
<1>4. Len(got) < full => AtEnd \/ (last.call = "readlineb" /\ lines # {})
  BY <1>2 DEF Ending, LastCall
<1>5. rpc = "ended" => isEnd
  BY <1>1 DEF Ending
<1> QED
  BY <1>1, <1>3, <1>4, <1>5 DEF ShortOnlyAtEnd

-----------------------------------------------------------------------------
(* The abstract channel.                                                   *)

\* Bytes from one place on, as many as others, are the same.
LEMMA CountsSame ==
  ASSUME NEW b \in Nat, NEW s, NEW t, Counts(s, b), Counts(t, b), Len(s) = Len(t)
  PROVE  s = t
<1>1. s \in Seq(Nat) /\ t \in Seq(Nat) /\ \A i \in 1 .. Len(s) : s[i] = t[i]
  BY DEF Counts
<1> QED
  BY <1>1, SeqEqual

\* A step that accepts and hands over nothing, and tells no end.
LEMMA SameToReader ==
  ASSUME RioAssumption, IInv, IInv', stream' = stream, taken' = taken,
         WriterGone' = WriterGone, (rpc = "ended")' = (rpc = "ended")
  PROVE  UNCHANGED Channel!vars
<1>1. HandedOver /\ HandedOver'
  BY AllHandedOver
<1>2. Counts(Unread, Len(taken)) /\ Counts(Unread', Len(taken)) /\ Len(Unread') = Len(Unread)
  BY <1>1 DEF HandedOver
<1>3. Unread' = Unread
  BY <1>1, <1>2, CountsSame DEF HandedOver
<1> QED
  BY <1>3 DEF Channel!vars

\* What write accepts is sent.
LEMMA WriteSends ==
  ASSUME RioAssumption, IInv, IInv', Ending, Writes
  PROVE  Channel!Send
<1>1. PICK k \in 1 .. Lesser(nleft, Capacity - InKernel) : WriteSome(k)
  BY DEF Writes
<1>2. HandedOver /\ HandedOver'
  BY AllHandedOver
<1> DEFINE t == Len(taken)
           n == Len(stream)
           sent == [i \in 1 .. k |-> t + (n - t) + i]
<1>3. /\ t \in Nat /\ n \in Nat /\ t <= n /\ Counts(Unread, t) /\ Len(Unread) = n - t
  BY <1>2 DEF HandedOver
<1>4. k \in Nat \ {0} /\ k <= Capacity
  <2>1. nleft \in Nat /\ Capacity \in Nat /\ InKernel \in Nat
    BY Numbers DEF Types
  <2> QED
    BY <2>1 DEF Lesser
<1>5. Len(stream') = n + k
  <2>1. stream' = stream \o [i \in 1 .. k |-> bufp + i - 1]
    BY <1>1 DEF WriteSome
  <2>2. [i \in 1 .. k |-> bufp + i - 1] \in Seq(Int) /\ Len([i \in 1 .. k |-> bufp + i - 1]) = k
    <3>1. bufp \in Nat
      BY Numbers DEF Types
    <3> QED
      BY <1>4, <3>1
  <2>3. stream \in Seq(Nat)
    BY Numbers
  <2> HIDE DEF sent
  <2> DEFINE piece == [i \in 1 .. k |-> bufp + i - 1]
  <2>4. stream \in Seq(Int) /\ piece \in Seq(Int) /\ Len(piece) = k /\ stream' = stream \o piece
    BY <2>1, <2>2, <2>3
  <2> HIDE DEF piece
  <2> QED
    BY <2>4, ConcatProperties
<1>6. taken' = taken /\ wpc = "writing" /\ wpc' = wpc /\ rpc' = rpc
  BY <1>1 DEF WriteSome, reader
<1>7. Counts(Unread', t) /\ Len(Unread') = (n + k) - t
  BY <1>2, <1>5, <1>6 DEF HandedOver
<1>8. Counts(sent, n) /\ Len(sent) = k
  <2>1. sent \in [1 .. k -> Nat]
    BY <1>3, <1>4
  <2>2. sent \in Seq(Nat) /\ Len(sent) = k
    BY <1>4, <2>1
  <2>3. \A i \in 1 .. k : sent[i] = n + i
    BY <1>3, <1>4
  <2> HIDE DEF sent
  <2> QED
    BY <2>2, <2>3 DEF Counts
<1> HIDE DEF t, n
<1>9. Unread' = Unread \o sent
  <2> HIDE DEF sent
  <2>1. Counts(sent, t + Len(Unread))
    <3>1. t + Len(Unread) = n
      BY <1>3
    <3> QED
      BY <1>8, <3>1
  <2>2. Counts(Unread \o sent, t) /\ Len(Unread \o sent) = Len(Unread) + Len(sent)
    BY <1>3, <2>1, CountsConcat
  <2>3. Len(Unread \o sent) = Len(Unread')
    BY <1>3, <1>4, <1>7, <1>8, <2>2
  <2> QED
    BY <1>3, <1>7, <2>2, <2>3, CountsSame
<1>10. sent = [i \in 1 .. k |-> (t + Len(Unread)) + i]
  BY <1>3
<1>11. ~WriterGone /\ ~WriterGone' /\ rpc # "ended"
  BY <1>6 DEF WriterGone, Ending, AtEnd
<1>12. Unread' = Unread \o [i \in 1 .. k |-> (Len(taken) + Len(Unread)) + i]
  BY <1>9, <1>10 DEF t
<1>13. k \in 1 .. Capacity
  BY <1>4
<1> QED
  BY <1>6, <1>11, <1>12, <1>13 DEF Channel!Send

\* What a call returns is received; a call that returns nothing is not seen.
LEMMA ReturnReceives ==
  ASSUME RioAssumption, IInv, IInv', rpc \in Calls, taken' = taken \o usr, rpc' # "ended",
         UNCHANGED <<stream, wpc>>
  PROVE  Channel!Receive \/ UNCHANGED Channel!vars
<1>0. rpc # "ended"
  BY DEF Calls
<1>1. /\ usr \in Seq(Nat) /\ taken \in Seq(Nat) /\ Len(usr) \in Nat /\ Counts(usr, Len(taken))
      /\ Len(taken') = Len(taken) + Len(usr)
  BY Numbers
<1>2. HandedOver /\ HandedOver'
  BY AllHandedOver
<1>3. CASE usr = <<>>
  <2>1. taken' = taken
    BY <1>1, <1>3
  <2>2. WriterGone' = WriterGone /\ (rpc = "ended")' = (rpc = "ended")
    BY <1>0 DEF WriterGone
  <2> QED
    BY <2>1, <2>2, SameToReader
<1>4. CASE usr # <<>>
  <2> DEFINE t == Len(taken)
             n == Len(stream)
             u == Len(usr)
  <2>1. /\ t \in Nat /\ n \in Nat /\ u \in Nat \ {0} /\ t + u <= n
        /\ Counts(Unread, t) /\ Len(Unread) = n - t
        /\ Counts(Unread', t + u) /\ Len(Unread') = n - (t + u)
    <3>1. u # 0
      BY <1>1, <1>4
    <3> QED
      BY <1>1, <1>2, <3>1 DEF HandedOver
  <2>2. Counts(usr, t)
    BY <1>1
  <2> HIDE DEF t, n, u
  <2>3. \A i \in 1 .. n - t : Unread[i] = t + i
    BY <2>1 DEF Counts
  <2>4. SubSeq(Unread, 1, u) = usr
    <3>1. \A i \in 1 .. u : Unread[i] = t + (i - 1) + 1
      <4> TAKE i \in 1 .. u
      <4>1. i \in 1 .. n - t
        BY <2>1
      <4> QED
        BY <2>1, <2>3, <4>1
    <3>2. 1 \in Nat \ {0} /\ u \in Nat /\ 1 <= u + 1
      BY <2>1
    <3>3. Counts(SubSeq(Unread, 1, u), t) /\ Len(SubSeq(Unread, 1, u)) = (u - 1) + 1
      BY <2>1, <3>1, <3>2, CountsPart, ZenonT(30)
    <3>4. (u - 1) + 1 = u
      BY <2>1
    <3> QED
      BY <2>1, <2>2, <3>3, <3>4, CountsSame DEF u
  <2>5. SubSeq(Unread, u + 1, n - t) = Unread'
    <3>1. \A i \in u + 1 .. n - t : Unread[i] = (t + u) + (i - (u + 1)) + 1
      <4> TAKE i \in u + 1 .. n - t
      <4>1. i \in 1 .. n - t
        BY <2>1
      <4> QED
        BY <2>1, <2>3, <4>1
    <3>2. t + u \in Nat /\ u + 1 \in Nat \ {0} /\ n - t \in Nat /\ u + 1 <= (n - t) + 1
      BY <2>1
    <3>3. /\ Counts(SubSeq(Unread, u + 1, n - t), t + u)
          /\ Len(SubSeq(Unread, u + 1, n - t)) = ((n - t) - (u + 1)) + 1
      BY <3>1, <3>2, CountsPart, ZenonT(30)
    <3>4. ((n - t) - (u + 1)) + 1 = n - (t + u)
      BY <2>1
    <3>5. Len(SubSeq(Unread, u + 1, n - t)) = Len(Unread')
      BY <2>1, <3>3, <3>4
    <3> QED
      BY <2>1, <3>2, <3>3, <3>5, CountsSame, Zenon
  <2>6. /\ taken' = taken \o SubSeq(Unread, 1, u) /\ Unread' = SubSeq(Unread, u + 1, Len(Unread))
        /\ u \in 1 .. Len(Unread)
    <3>1. u \in 1 .. n - t
      BY <2>1
    <3> QED
      BY <2>1, <2>4, <2>5, <3>1
  <2> QED
    BY <1>0, <2>6 DEF Channel!Receive, WriterGone
<1> QED
  BY <1>3, <1>4

\* The initial states of Rio are those of the channel.
LEMMA InitChannel ==
  ASSUME RioAssumption, Init
  PROVE  Channel!Init
<1>1. IInv
  BY InitIInv
<1>2. HandedOver
  BY <1>1, AllHandedOver
<1>3. stream = <<>> /\ taken = <<>> /\ wpc = "idle" /\ rpc = "idle"
  BY DEF Init
<1>4. Len(Unread) = 0 /\ Unread \in Seq(Nat)
  BY <1>2, <1>3 DEF HandedOver, Counts
<1>5. Unread = <<>>
  BY <1>4
<1> QED
  BY <1>3, <1>5 DEF Channel!Init, WriterGone

\* Every step of Rio is a step of the channel, or none.
LEMMA NextChannel ==
  ASSUME RioAssumption, IInv, IInv', Ending, [Next]_vars
  PROVE  [Channel!Next]_Channel!vars
<1>1. ASSUME UNCHANGED <<stream, taken, wpc>>, (rpc = "ended") <=> (rpc' = "ended")
      PROVE  UNCHANGED Channel!vars
  <2>1. WriterGone' = WriterGone /\ (rpc = "ended")' = (rpc = "ended")
    BY <1>1 DEF WriterGone
  <2> QED
    BY <1>1, <2>1, SameToReader
<1>2. CASE UNCHANGED vars
  BY <1>1, <1>2 DEF vars, writer, reader
<1>3. CASE Writes
  BY <1>3, WriteSends DEF Channel!Next
<1>4. ASSUME UNCHANGED <<stream, taken>>, rpc' = rpc, WriterGone' = WriterGone
      PROVE  UNCHANGED Channel!vars
  BY <1>4, SameToReader
<1>5. CASE (\E n \in WriteSizes : RioWriten(n)) \/ WriteInterrupted \/ WriteReturns
  <2>1. UNCHANGED <<stream, taken>> /\ rpc' = rpc /\ WriterGone' = WriterGone
    BY <1>5 DEF RioWriten, WriteInterrupted, WriteReturns, reader, WriterGone
  <2> QED
    BY <1>4, <2>1
<1>6. CASE WriteFails \/ Close
  <2>1. UNCHANGED <<stream, taken, rpc>> /\ ~WriterGone /\ WriterGone'
    BY <1>6 DEF WriteFails, Close, reader, WriterGone
  <2>2. Unread' = Unread
    BY <1>6 DEF WriteFails, Close, reader, Unread, InBuffer
  <2>3. Channel!StopSending
    BY <2>1, <2>2 DEF Channel!StopSending
  <2> QED
    BY <2>3 DEF Channel!Next
<1>7. CASE Calling
  <2>1. UNCHANGED <<stream, taken, wpc>> /\ rpc # "ended" /\ rpc' # "ended"
    BY <1>7 DEF Calling, Call, writer
  <2> QED
    BY <1>1, <2>1
<1>8. CASE ReadsSome \/ RefillInterrupted \/ Copy
  <2>1. UNCHANGED <<stream, taken, wpc, rpc>>
    BY <1>8 DEF ReadsSome, ReadnSome, Refill, RefillInterrupted, Copy, writer
  <2> QED
    BY <1>1, <2>1
<1>9. CASE ReadFails
  <2>1. UNCHANGED <<stream, taken, wpc>> /\ rpc # "ended" /\ rpc' # "ended"
    BY <1>9 DEF ReadFails, Reading, Empty, Buffered, writer
  <2> QED
    BY <1>1, <2>1
<1>10. CASE ReturnFull
  <2>1. /\ rpc \in Calls /\ taken' = taken \o usr /\ rpc' # "ended" /\ UNCHANGED <<stream, wpc>>
    BY <1>10 DEF ReturnFull, Return, writer
  <2> QED
    BY <2>1, ReturnReceives DEF Channel!Next
<1>11. CASE EndOfFile
  <2>1. /\ rpc \in Calls /\ taken' = taken \o usr /\ UNCHANGED <<stream, wpc>>
        /\ WriterGone /\ rpc' = IF usr = <<>> THEN "ended" ELSE "idle"
    BY <1>11 DEF EndOfFile, Return, writer, Reading, Empty, Buffered, Calls
  <2>2. CASE usr # <<>>
    BY <2>1, <2>2, ReturnReceives DEF Channel!Next
  <2>3. CASE usr = <<>>
    <3>1. AtEnd' /\ Len(stream) = Len(taken) + Len(usr)
      BY <1>11, EndOfFileAtEnd
    <3>2. HandedOver /\ HandedOver'
      BY AllHandedOver
    <3>3. taken' = taken /\ Len(usr) = 0
      BY <2>1, <2>3, Numbers
    <3>4. Len(stream) = Len(taken)
      BY <3>1, <3>2, <3>3 DEF HandedOver
    <3>5. Unread \in Seq(Nat) /\ Len(Unread) = 0 /\ Unread' \in Seq(Nat) /\ Len(Unread') = 0
      BY <2>1, <3>2, <3>3, <3>4 DEF HandedOver, Counts
    <3>6. Unread = <<>> /\ Unread' = <<>>
      BY <3>5
    <3>7. Channel!ReportEnd
      BY <2>1, <2>3, <3>3, <3>6 DEF Channel!ReportEnd, WriterGone, Calls
    <3> QED
      BY <3>7 DEF Channel!Next
  <2> QED
    BY <2>2, <2>3
<1> QED
  BY <1>2, <1>3, <1>5, <1>6, <1>7, <1>8, <1>9, <1>10, <1>11 DEF Next, ReadnInterrupted, Idle

-----------------------------------------------------------------------------

\* In every behaviour both hold.
LEMMA AlwaysEnding == ASSUME RioAssumption PROVE Spec => [](IInv /\ Ending)
<1>1. Init => IInv /\ Ending
  BY InitIInv, InitEnding
<1>2. IInv /\ Ending /\ [Next]_vars => (IInv /\ Ending)'
  BY NextIInv, NextEnding
<1> QED
  BY <1>1, <1>2, PTL DEF Spec

\* A call returns less than it was asked for only at the end of the stream, and
\* a line ends at its first newline, however read cuts the stream into pieces
\* (rio_readn, rio_readnb, rio_readlineb).
THEOREM NothingShortBeforeTheEnd == ASSUME RioAssumption PROVE Spec => []ShortOnlyAtEnd
<1>1. IInv /\ Ending => ShortOnlyAtEnd
  BY EndingShort
<1> QED
  BY <1>1, AlwaysEnding, PTL

\* The package implements the abstract channel: with short counts, interrupted
\* calls, refills and partial copies, its two ends see bytes accepted, handed
\* over once each in order, and an end reported when nothing is left.
THEOREM RioIsAChannel == ASSUME RioAssumption PROVE Spec => ImplementsChannel
<1>1. Init => Channel!Init
  BY InitChannel
<1>2. IInv /\ IInv' /\ Ending /\ [Next]_vars => [Channel!Next]_Channel!vars
  BY NextChannel
<1> QED
  BY <1>1, <1>2, AlwaysEnding, PTL DEF Spec, ImplementsChannel, Channel!Spec
=============================================================================
