-------------------------------- MODULE Rio --------------------------------
(***************************************************************************)
(* The Rio package of webproxy-lab-main/csapp.c: a process that sends with *)
(* Rio_writen and one that reads with Rio_readn, or with Rio_readnb and    *)
(* Rio_readlineb through a rio_t, over a kernel buffer.  read and write    *)
(* may move fewer bytes than asked, be interrupted by a signal, or fail; a *)
(* failed wrapper ends its process.  A step is one system call or one copy *)
(* out of rio_buf.  The bytes of the stream are numbered from 1.           *)
(***************************************************************************)
EXTENDS Integers, Sequences

CONSTANTS
  Total,       \* bytes the writer has to send
  Newlines,    \* those that are '\n'
  WriteSizes,  \* n of Rio_writen
  Reads,       \* n of Rio_readn and Rio_readnb
  Lines,       \* maxlen of Rio_readlineb
  Capacity,    \* of the kernel's buffer
  BufSize      \* RIO_BUFSIZE

RioAssumption ==
  /\ Total \in Nat /\ Capacity \in Nat \ {0} /\ BufSize \in Nat \ {0}
  /\ Newlines \subseteq Nat
  /\ WriteSizes \subseteq Nat /\ Reads \subseteq Nat \ {0}
  /\ Lines \subseteq Nat \ {0, 1}    \* with 1, a return of 0 is not the end

VARIABLES
  stream,   \* every byte the kernel accepted
  recv,     \* how many of them read has handed out
  wpc,      \* the writer: idle, writing, closed or failed
  bufp,     \* the number of the byte its bufp points at
  nleft,    \* rio_writen's nleft
  rpc,      \* the reader: idle, in a call, ended or failed
  want,     \* n or maxlen of its call
  usr,      \* what the call has stored in usrbuf
  rio,      \* the rio_t: buf, ptr, cnt
  taken,    \* what completed calls returned, end to end
  last      \* the last completed call, with the bytes it returned

writer == <<wpc, bufp, nleft>>
reader == <<rpc, want, usr, rio, taken, last>>
vars == <<stream, recv, writer, reader>>

Calls == {"readn", "readnb", "readlineb"}
Buffered == {"readnb", "readlineb"}

Lesser(a, b) == IF a < b THEN a ELSE b

InKernel == Len(stream) - recv
WriterGone == wpc \in {"closed", "failed"}

Init ==
  /\ stream = <<>> /\ recv = 0
  /\ wpc = "idle" /\ bufp = 1 /\ nleft = 0
  /\ rpc = "idle" /\ want = 0 /\ usr = <<>> /\ taken = <<>>
  /\ last = [call |-> "none", want |-> 0, got |-> <<>>]
  \* rio_readinitb; the words of rio_buf are whatever they were.
  /\ rio = [buf |-> [i \in 1 .. BufSize |-> 0], ptr |-> 1, cnt |-> 0]

-----------------------------------------------------------------------------
(* The writer.                                                             *)

RioWriten(n) ==
  /\ wpc = "idle"
  /\ bufp + n <= Total + 1
  /\ wpc' = "writing" /\ nleft' = n
  /\ UNCHANGED <<stream, recv, bufp, reader>>

\* A mistake: after a short count the call is made with the same pointer.
WriteSomeAgain(k) ==
  /\ wpc = "writing" /\ nleft > 0
  /\ rpc # "failed"
  /\ stream' = stream \o [i \in 1 .. k |-> bufp + i - 1]
  /\ nleft' = nleft - k
  /\ UNCHANGED <<recv, wpc, bufp, reader>>

\* write accepts k bytes.
WriteSome(k) ==
  /\ wpc = "writing" /\ nleft > 0
  /\ rpc # "failed"
  /\ stream' = stream \o [i \in 1 .. k |-> bufp + i - 1]
  /\ nleft' = nleft - k /\ bufp' = bufp + k
  /\ UNCHANGED <<recv, wpc, reader>>

\* A mistake: the -1 of an interrupted call is counted.
InterruptedCountKept == -1

\* What an interrupted call counts for.
InterruptedCount == 0

WriteInterrupted ==
  /\ wpc = "writing" /\ nleft > 0
  /\ nleft' = nleft - InterruptedCount /\ bufp' = bufp + InterruptedCount
  /\ UNCHANGED <<stream, recv, wpc, reader>>

\* A mistake: any error is taken for an interruption.
WriteFailsRetries == wpc = "writing" /\ nleft > 0 /\ UNCHANGED vars

\* Any other error, or a reader that is gone: unix_error.
WriteFails ==
  /\ wpc = "writing" /\ nleft > 0
  /\ wpc' = "failed"
  /\ UNCHANGED <<stream, recv, bufp, nleft, reader>>

WriteReturns ==
  /\ wpc = "writing" /\ nleft = 0
  /\ wpc' = "idle"
  /\ UNCHANGED <<stream, recv, bufp, nleft, reader>>

Close ==
  /\ wpc = "idle"
  /\ wpc' = "closed"
  /\ UNCHANGED <<stream, recv, bufp, nleft, reader>>

-----------------------------------------------------------------------------
(* The reader.  It reads to the end, with or without the buffer.           *)

\* Rio_readn and the buffered calls are not mixed on one descriptor.
Call(call, n) ==
  /\ rpc = "idle"
  /\ last.call = "none" \/ (last.call \in Buffered <=> call \in Buffered)
  /\ rpc' = call /\ want' = n /\ usr' = <<>>
  /\ UNCHANGED <<stream, recv, writer, rio, taken, last>>

\* A mistake: what one read gave is enough.
CompleteAtOnce ==
  IF rpc = "readlineb"
  THEN Len(usr) + 1 >= want \/ (usr # <<>> /\ usr[Len(usr)] \in Newlines)
  ELSE usr # <<>>

\* The loops' conditions: nleft = 0, or n = maxlen or a newline stored.
Complete ==
  IF rpc = "readlineb"
  THEN Len(usr) + 1 >= want \/ (usr # <<>> /\ usr[Len(usr)] \in Newlines)
  ELSE Len(usr) = want

\* The call returns Len(usr); 0 at the end of the stream tells the reader to
\* stop.
Return(atEnd) ==
  /\ rpc' = IF atEnd /\ usr = <<>> THEN "ended" ELSE "idle"
  /\ taken' = taken \o usr
  /\ last' = [call |-> rpc, want |-> want, got |-> usr]
  /\ usr' = <<>>

ReturnFull ==
  /\ rpc \in Calls /\ Complete
  /\ Return(FALSE)
  /\ UNCHANGED <<stream, recv, writer, want, rio>>

\* rio_readn: read hands out k bytes, or is interrupted.
ReadnSome(k) ==
  /\ rpc = "readn" /\ ~Complete
  /\ k <= want - Len(usr)
  /\ usr' = usr \o SubSeq(stream, recv + 1, recv + k)
  /\ recv' = recv + k
  /\ UNCHANGED <<stream, writer, rpc, want, rio, taken, last>>

\* nread is set to 0: the call is made again.
ReadnInterrupted == rpc = "readn" /\ ~Complete /\ UNCHANGED vars

\* A buffered call with nothing in rio_buf calls read.
Empty == rpc \in Buffered /\ ~Complete /\ rio.cnt <= 0

\* A mistake: rio_bufptr is not set back.
RefillKeepsPtr(k) ==
  /\ Empty
  /\ rio' = [rio EXCEPT !.cnt = k,
               !.buf = [i \in 1 .. BufSize |-> IF i <= k THEN stream[recv + i] ELSE @[i]]]
  /\ recv' = recv + k
  /\ UNCHANGED <<stream, writer, rpc, want, usr, taken, last>>

\* rio_read: read fills rio_buf with k bytes.
Refill(k) ==
  /\ Empty
  /\ rio' = [buf |-> [i \in 1 .. BufSize |-> IF i <= k THEN stream[recv + i] ELSE rio.buf[i]],
             ptr |-> 1, cnt |-> k]
  /\ recv' = recv + k
  /\ UNCHANGED <<stream, writer, rpc, want, usr, taken, last>>

RefillInterrupted ==
  /\ Empty
  /\ rio' = [rio EXCEPT !.cnt = -1]
  /\ UNCHANGED <<stream, recv, writer, rpc, want, usr, taken, last>>

\* rio_read: min(n, rio_cnt) bytes out of rio_buf.
Copy ==
  /\ rpc \in Buffered /\ ~Complete /\ rio.cnt > 0
  /\ LET n   == IF rpc = "readlineb" THEN 1 ELSE want - Len(usr)
         cnt == Lesser(n, rio.cnt)
     IN /\ usr' = usr \o SubSeq(rio.buf, rio.ptr, rio.ptr + cnt - 1)
        /\ rio' = [rio EXCEPT !.ptr = @ + cnt, !.cnt = @ - cnt]
  /\ UNCHANGED <<stream, recv, writer, rpc, want, taken, last>>

Reading == (rpc = "readn" /\ ~Complete) \/ Empty

\* A mistake: 0 is taken for an empty buffer.
EndOfFileRetries == Reading /\ InKernel = 0 /\ WriterGone /\ UNCHANGED vars

\* read returns 0: the call returns what it has.
EndOfFile ==
  /\ Reading
  /\ InKernel = 0 /\ WriterGone
  /\ Return(TRUE)
  /\ rio' = IF rpc \in Buffered THEN [rio EXCEPT !.cnt = 0] ELSE rio
  /\ UNCHANGED <<stream, recv, writer, want>>

\* Any other error: -1 and unix_error.
ReadFails ==
  /\ Reading
  /\ rpc' = "failed"
  /\ rio' = IF rpc \in Buffered THEN [rio EXCEPT !.cnt = -1] ELSE rio
  /\ UNCHANGED <<stream, recv, writer, want, usr, taken, last>>

Writes == \E k \in 1 .. Lesser(nleft, Capacity - InKernel) : WriteSome(k)
ReadsSome ==
  \/ \E k \in 1 .. InKernel : ReadnSome(k)
  \/ \E k \in 1 .. Lesser(BufSize, InKernel) : Refill(k)
Calling ==
  \/ \E n \in Reads : Call("readn", n) \/ Call("readnb", n)
  \/ \E n \in Lines : Call("readlineb", n)

\* Both processes have ended.
Idle == WriterGone /\ rpc \in {"ended", "failed"} /\ UNCHANGED vars

Next ==
  \/ \E n \in WriteSizes : RioWriten(n)
  \/ Writes \/ WriteInterrupted \/ WriteFails \/ WriteReturns \/ Close
  \/ Calling \/ ReturnFull \/ ReadsSome \/ ReadnInterrupted
  \/ RefillInterrupted \/ Copy \/ EndOfFile \/ ReadFails
  \/ Idle

\* The kernel does not interrupt a process for ever: a call that can move
\* bytes, or report the end or a broken pipe, some time does.  The reader goes
\* on reading; the writer need not send.
WriterGoesOn == Writes \/ WriteReturns \/ (rpc = "failed" /\ WriteFails)
ReaderGoesOn == Calling \/ ReturnFull \/ ReadsSome \/ Copy \/ EndOfFile

Spec == Init /\ [][Next]_vars /\ WF_vars(WriterGoesOn) /\ WF_vars(ReaderGoesOn)

-----------------------------------------------------------------------------

TypeOK ==
  /\ InKernel \in 0 .. Capacity
  /\ wpc \in {"idle", "writing", "closed", "failed"}
  /\ rpc \in {"idle", "ended", "failed"} \union Calls
  /\ nleft \in 0 .. Total /\ bufp + nleft \in 1 .. Total + 1
  /\ rio.cnt \in -1 .. BufSize /\ rio.ptr \in 1 .. BufSize + 1

\* The unread bytes of rio_buf.
InBuffer == IF rio.cnt > 0 THEN SubSeq(rio.buf, rio.ptr, rio.ptr + rio.cnt - 1) ELSE <<>>
Unread == usr \o InBuffer \o SubSeq(stream, recv + 1, Len(stream))

\* No byte is lost, repeated or moved by a short count, an interrupted call, a
\* refill or a partial copy: what was returned, what the call in progress has
\* stored, rio_buf and the kernel's buffer are, end to end, the bytes from the
\* first to the one before bufp (rio_readn, rio_writen, rio_read).
InOrder == taken \o Unread = [i \in 1 .. bufp - 1 |-> i]

\* A call returns less than it was asked for only at the end of the stream, and
\* rio_readlineb ends at the first newline, not after it.
ShortOnlyAtEnd ==
  LET got   == last.got
      full  == IF last.call = "readlineb" THEN last.want - 1 ELSE last.want
      lines == {i \in DOMAIN got : got[i] \in Newlines}
      isEnd == WriterGone /\ Unread = <<>>
  IN /\ Len(got) <= full
     /\ last.call = "readlineb" => lines \subseteq {Len(got)}
     /\ Len(got) < full => isEnd \/ (last.call = "readlineb" /\ lines # {})
     /\ rpc = "ended" => isEnd

\* The abstract channel sees the bytes and the end only.
Channel == INSTANCE ByteChannel WITH
  Piece <- Capacity, queue <- Unread, delivered <- taken, sending <- ~WriterGone, ended <- rpc = "ended"
ImplementsChannel == Channel!Spec

\* Nobody waits for ever.  Once the writer has closed, the reader is told the
\* end, after every byte, unless a system call fails; and Rio_writen comes back:
\* a full kernel buffer, short counts and interruptions do not keep it while the
\* reader reads.
StreamEnds ==
  /\ wpc = "closed" ~> rpc \in {"ended", "failed"}
  /\ wpc = "writing" ~> wpc # "writing"
=============================================================================
