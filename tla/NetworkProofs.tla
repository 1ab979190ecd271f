--------------------------- MODULE NetworkProofs ---------------------------
(***************************************************************************)
(* What the parts of MCNetwork keep for all values of their constants.     *)
(* Tiny, for any number of clients and addresses and any backlog:          *)
(* descriptors are counted right and the two ends of every connection      *)
(* agree.  The wrappers tell failures from results, and sio_putl prints    *)
(* longs of any width, whoever interrupts it.                              *)
(***************************************************************************)
EXTENDS MCNetwork, WellFoundedInduction, TLAPS

-----------------------------------------------------------------------------
(* The inductive invariant.                                                *)

\* A walk with a socket has not passed the end of its list.
WalksInside ==
  \A p \in Process : pc[p] \in {"attach", "close", "cleanup"} => addr[p] <= Addresses

\* A client is never at a place of the server, nor the server at "open".
PlacesApart ==
  /\ pc[Server] # "open"
  /\ \A c \in Clients : pc[c] \in Walking \union {"start", "failed", "open"}

IInv == TypeOK /\ WalksInside /\ PlacesApart /\ DescriptorsCounted /\ Connected

\* Whose a connection is, field by field.
LEMMA IsFrom ==
  ASSUME NEW k \in Connection \union {Nobody}, NEW c
  PROVE  k = From(c) <=> k.end = "open" /\ k.by = c
BY DEF Connection, Nobody, From

\* Init and every action establish the parts one by one.
LEMMA InitIInv == ASSUME TinyAssumption, Init PROVE IInv
<1> USE DEF Init, Process, Walking, Places
<1>1. TypeOK
  BY DEF TypeOK, TinyAssumption
<1>2. WalksInside
  BY DEF WalksInside
<1>3. PlacesApart
  BY DEF PlacesApart
<1>4. DescriptorsCounted
  BY DEF DescriptorsCounted
<1>5. Connected
  BY DEF Connected, OneEnd, Live, Waits, From, Nobody, Listening, TinyAssumption
<1> QED
  BY <1>1, <1>2, <1>3, <1>4, <1>5 DEF IInv

\* A step that moves no connection, no client into or out of what it holds and
\* no server into or out of a turn of its loop.
LEMMA SameConnections ==
  ASSUME Connected, UNCHANGED <<queue, conn, ended>>,
         \A c \in Clients : pc'[c] \in {"cleanup", "open"} <=> pc[c] \in {"cleanup", "open"},
         pc'[Server] \in {"name", "doit", "closing"} <=> pc[Server] \in {"name", "doit", "closing"},
         Listening => Listening'
  PROVE  Connected'
<1>1. \A c : Waits(c)' <=> Waits(c)
  BY DEF Waits
<1>2. \A c : Live(c)' <=> Live(c)
  BY <1>1 DEF Live
<1>3. OneEnd'
  BY <1>1, <1>2 DEF Connected, OneEnd
<1> QED
  BY <1>2, <1>3 DEF Connected

\* getaddrinfo holds no descriptor.
LEMMA ResolveIInv ==
  ASSUME TinyAssumption, IInv, NEW p \in Process, Resolve(p)
  PROVE  IInv'
<1> USE DEF IInv, TypeOK, Resolve, Goto, Process, Walking, Places, TinyAssumption
<1>1. TypeOK'
  BY DEF WalksInside, PlacesApart, DescriptorsCounted
<1>2. WalksInside'
  BY DEF WalksInside
<1>3. PlacesApart'
  BY DEF PlacesApart
<1>4. DescriptorsCounted'
  BY DEF PlacesApart, DescriptorsCounted
<1>5. Connected'
  BY SameConnections DEF PlacesApart, Listening
<1> QED
  BY <1>1, <1>2, <1>3, <1>4, <1>5

\* socket gives the process its first descriptor, or none.
LEMMA SocketIInv ==
  ASSUME TinyAssumption, IInv, NEW p \in Process, Socket(p)
  PROVE  IInv'
<1> USE DEF IInv, TypeOK, Socket, Goto, Process, Walking, Places, TinyAssumption
<1>1. TypeOK'
  <2>1. pc' \in [Process -> Places]
    OBVIOUS
  <2>2. addr' \in [Process -> 1 .. Addresses + 1]
    <3>1. addr[p] <= Addresses => addr[p] + 1 \in 1 .. Addresses + 1
      OBVIOUS
    <3> QED
      BY <3>1
  <2>3. fds' \in [Process -> 0 .. 2]
    <3>1. fds[p] + 1 \in 0 .. 2
      BY DEF DescriptorsCounted
    <3> QED
      BY <3>1
  <2> QED
    BY <2>1, <2>2, <2>3
<1>2. WalksInside'
  BY DEF WalksInside
<1>3. PlacesApart'
  BY DEF PlacesApart
<1>4. DescriptorsCounted'
  BY DEF PlacesApart, DescriptorsCounted
<1>5. Connected'
  BY SameConnections DEF PlacesApart, Listening
<1> QED
  BY <1>1, <1>2, <1>3, <1>4, <1>5

\* The close between two attempts gives the descriptor back.
LEMMA CloseAttemptIInv ==
  ASSUME TinyAssumption, IInv, NEW p \in Process, CloseAttempt(p)
  PROVE  IInv'
<1> USE DEF IInv, TypeOK, CloseAttempt, Goto, Process, Walking, Places, TinyAssumption
<1>1. TypeOK'
  BY DEF WalksInside, PlacesApart, DescriptorsCounted
<1>2. WalksInside'
  BY DEF WalksInside
<1>3. PlacesApart'
  BY DEF PlacesApart
<1>4. DescriptorsCounted'
  BY DEF PlacesApart, DescriptorsCounted
<1>5. Connected'
  BY SameConnections DEF PlacesApart, Listening
<1> QED
  BY <1>1, <1>2, <1>3, <1>4, <1>5

\* After the walk over the addresses a process holds what its return says.
LEMMA CleanUpIInv ==
  ASSUME TinyAssumption, IInv, NEW p \in Process, CleanUp(p)
  PROVE  IInv'
<1> USE DEF IInv, TypeOK, CleanUp, Goto, Process, Walking, Places, TinyAssumption
<1>1. TypeOK'
  BY DEF WalksInside, PlacesApart, DescriptorsCounted
<1>2. WalksInside'
  BY DEF WalksInside
<1>3. PlacesApart'
  BY DEF PlacesApart
<1>4. DescriptorsCounted'
  BY DEF PlacesApart, DescriptorsCounted
<1>5. Connected'
  BY SameConnections DEF PlacesApart, Listening
<1> QED
  BY <1>1, <1>2, <1>3, <1>4, <1>5

\* listen changes no descriptor, or gives the socket back and fails.
LEMMA ListenIInv ==
  ASSUME TinyAssumption, IInv, Listen
  PROVE  IInv'
<1> USE DEF IInv, TypeOK, Listen, Goto, Process, Walking, Places, TinyAssumption
<1>1. TypeOK'
  BY DEF WalksInside, PlacesApart, DescriptorsCounted
<1>2. WalksInside'
  BY DEF WalksInside
<1>3. PlacesApart'
  BY DEF PlacesApart
<1>4. DescriptorsCounted'
  BY DEF PlacesApart, DescriptorsCounted
<1>5. Connected'
  BY SameConnections DEF PlacesApart, Listening
<1> QED
  BY <1>1, <1>2, <1>3, <1>4, <1>5

\* Naming the client changes no descriptor.
LEMMA GetnameinfoIInv ==
  ASSUME TinyAssumption, IInv, Getnameinfo
  PROVE  IInv'
<1> USE DEF IInv, TypeOK, Getnameinfo, Goto, Process, Walking, Places, TinyAssumption
<1>1. TypeOK'
  BY DEF WalksInside, PlacesApart, DescriptorsCounted
<1>2. WalksInside'
  BY DEF WalksInside
<1>3. PlacesApart'
  BY DEF PlacesApart
<1>4. DescriptorsCounted'
  BY DEF PlacesApart, DescriptorsCounted
<1>5. Connected'
  BY SameConnections DEF PlacesApart, Listening
<1> QED
  BY <1>1, <1>2, <1>3, <1>4, <1>5

\* doit changes no descriptor of the server.
LEMMA DoitIInv ==
  ASSUME TinyAssumption, IInv, Doit
  PROVE  IInv'
<1> USE DEF IInv, TypeOK, Doit, Goto, Process, Walking, Places, TinyAssumption
<1>1. TypeOK'
  BY DEF WalksInside, PlacesApart, DescriptorsCounted
<1>2. WalksInside'
  BY DEF WalksInside
<1>3. PlacesApart'
  BY DEF PlacesApart
<1>4. DescriptorsCounted'
  BY DEF PlacesApart, DescriptorsCounted
<1>5. Connected'
  BY SameConnections DEF PlacesApart, Listening
<1> QED
  BY <1>1, <1>2, <1>3, <1>4, <1>5

\* The server closes the one connection it accepted, and ends it for the client
\* that is still there.
LEMMA CloseConnIInv ==
  ASSUME TinyAssumption, IInv, CloseConn
  PROVE  IInv'
<1> USE DEF IInv, TypeOK, CloseConn, Goto, Process, Walking, Places, TinyAssumption
<1>1. conn.end = "open" => conn.by \in Clients
  BY DEF Connection, Nobody
<1>2. TypeOK'
  BY <1>1 DEF WalksInside, PlacesApart, DescriptorsCounted
<1>3. WalksInside'
  BY DEF WalksInside
<1>4. PlacesApart'
  BY DEF PlacesApart
<1>5. DescriptorsCounted'
  BY DEF PlacesApart, DescriptorsCounted
<1>6. Connected'
  <2>1. \A c : Waits(c)' <=> Waits(c)
    BY DEF Waits
  <2>2. \A c : Live(c)' <=> Waits(c)
    BY <2>1 DEF Live, Nobody, From
  <2>3. \A c \in Clients : conn = From(c) <=> conn.end = "open" /\ conn.by = c
    BY IsFrom
  <2>4. OneEnd'
    <3>1. \A c \in ended' : ~Live(c)'
      BY <2>2 DEF Connected, OneEnd, Live
    <3> QED
      BY <3>1 DEF Connected, OneEnd, Nobody
  <2>5. \A c \in Clients : Live(c)' \/ c \in ended' <=> Live(c) \/ c \in ended
    BY <2>2, <2>3 DEF Live
  <2>6. Listening' /\ pc'[Server] = "accept" /\ \A c \in Clients : pc'[c] = pc[c]
    BY DEF Listening
  <2> QED
    BY <2>4, <2>5, <2>6 DEF Connected
<1> QED
  BY <1>2, <1>3, <1>4, <1>5, <1>6

\* A process that a wrapper ends holds nothing any more, and ends what it had.
LEMMA WrapperExitsIInv ==
  ASSUME TinyAssumption, IInv, WrapperExits
  PROVE  IInv'
<1> USE DEF IInv, TypeOK, WrapperExits, Goto, Exit, Process, Walking, Places, TinyAssumption
<1>1. TypeOK'
  BY DEF WalksInside, PlacesApart, DescriptorsCounted
<1>2. WalksInside'
  BY DEF WalksInside
<1>3. PlacesApart'
  BY DEF PlacesApart
<1>4. DescriptorsCounted'
  BY DEF PlacesApart, DescriptorsCounted
<1>5. Connected'
  <2>1. \A c : ~Waits(c)' /\ ~Live(c)'
    BY DEF Live, Waits, Nobody, From
  <2>2. OneEnd'
    BY <2>1 DEF OneEnd, Nobody
  <2>3. pc'[Server] = "exited" /\ \A c \in Clients : pc'[c] = pc[c]
    OBVIOUS
  <2> QED
    BY <2>1, <2>2, <2>3 DEF Connected
<1> QED
  BY <1>1, <1>2, <1>3, <1>4, <1>5

\* A client that leaves closes the descriptor it was given, and its end of the
\* connection wherever that is.
LEMMA LeaveIInv ==
  ASSUME TinyAssumption, IInv, NEW c \in Clients, Leave(c)
  PROVE  IInv'
<1> USE DEF IInv, TypeOK, Leave, Goto, Process, Walking, Places, TinyAssumption
<1>1. \A k \in Connection \union {Nobody} :
        /\ k \in Connection => HungUp(k, c) \in Connection
        /\ HungUp(k, c).by = k.by
        /\ HungUp(k, c).end = "open" <=> k.end = "open" /\ k.by # c
        /\ HungUp(k, c) = Nobody <=> k = Nobody
  BY DEF Connection, Nobody, HungUp
<1>2. /\ DOMAIN queue = 1 .. Len(queue) /\ Len(queue) \in Nat
      /\ \A i \in DOMAIN queue : queue[i] \in Connection
      /\ queue' \in Seq(Connection) /\ Len(queue') = Len(queue) /\ DOMAIN queue' = DOMAIN queue
      /\ \A i \in DOMAIN queue : queue'[i] = HungUp(queue[i], c)
  <2>1. DOMAIN queue = 1 .. Len(queue) /\ Len(queue) \in Nat
    OBVIOUS
  <2>2. \A i \in DOMAIN queue : queue[i] \in Connection /\ HungUp(queue[i], c) \in Connection
    BY <1>1
  <2>3. queue' = [i \in 1 .. Len(queue) |-> HungUp(queue[i], c)]
    BY <2>1
  <2> QED
    BY <2>1, <2>2, <2>3
<1>3. conn' = Nobody <=> conn = Nobody
  BY <1>1
<1>4. TypeOK'
  BY <1>1, <1>2 DEF PlacesApart
<1>5. WalksInside'
  BY DEF WalksInside
<1>6. PlacesApart'
  BY DEF PlacesApart
<1>7. DescriptorsCounted'
  BY DEF PlacesApart, DescriptorsCounted
<1>8. Connected'
  <2>1. \A d \in Clients : Waits(d)' <=> Waits(d) /\ d # c
    <3> SUFFICES ASSUME NEW d \in Clients, NEW i \in DOMAIN queue
                 PROVE  HungUp(queue[i], c) = From(d) <=> queue[i] = From(d) /\ d # c
      BY <1>2 DEF Waits
    <3>1. queue[i] \in Connection /\ HungUp(queue[i], c) \in Connection
      BY <1>1, <1>2
    <3> QED
      BY <1>1, <3>1, IsFrom
  <2>2. \A d \in Clients : conn' = From(d) <=> conn = From(d) /\ d # c
    <3>1. conn' \in Connection \union {Nobody}
      BY <1>4
    <3> QED
      BY <1>1, <3>1, IsFrom
  <2>3. \A d \in Clients : Live(d)' <=> Live(d) /\ d # c
    BY <2>1, <2>2 DEF Live
  <2>4. OneEnd'
    <3>1. \A i, j \in DOMAIN queue' :
            queue'[i].end = "open" /\ queue'[j].end = "open" /\ queue'[i].by = queue'[j].by => i = j
      BY <1>1, <1>2 DEF Connected, OneEnd
    <3>2. conn'.end = "open" => ~Waits(conn.by)
      BY <1>1 DEF Connected, OneEnd
    <3>3. conn'.end = "open" => conn'.by = conn.by /\ conn.by \in Clients
      BY <1>1 DEF Connection, Nobody
    <3>4. conn'.end = "open" => ~Waits(conn.by)'
      <4> SUFFICES ASSUME conn'.end = "open", NEW i \in DOMAIN queue', queue'[i] = From(conn'.by)
                   PROVE  FALSE
        BY DEF Waits
      <4>1. queue[i].end = "open" /\ queue[i].by = conn.by
        BY <1>1, <1>2, <3>3 DEF From
      <4>2. queue[i] = From(conn.by)
        BY <1>2, <4>1, IsFrom
      <4> QED
        BY <1>2, <3>2, <4>2 DEF Waits
    <3>5. \A d \in ended' : ~Live(d)'
      BY <2>3 DEF Connected, OneEnd
    <3> QED
      BY <3>1, <3>4, <3>5 DEF OneEnd
  <2>5. \A d \in Clients : pc'[d] = IF d = c THEN "start" ELSE pc[d]
    OBVIOUS
  <2>6. pc'[Server] = pc[Server] /\ (queue' # <<>> => queue # <<>>)
    BY <1>2
  <2>7. \A d \in Clients : pc'[d] \in {"cleanup", "open"} <=> Live(d)' \/ d \in ended'
    BY <2>3, <2>5 DEF Connected
  <2> QED
    BY <1>3, <2>4, <2>6, <2>7 DEF Connected, Listening
<1> QED
  BY <1>4, <1>5, <1>6, <1>7, <1>8

\* A client that failed starts again with nothing.
LEMMA RetryIInv ==
  ASSUME TinyAssumption, IInv, NEW c \in Clients, Retry(c)
  PROVE  IInv'
<1> USE DEF IInv, TypeOK, Retry, Goto, Process, Walking, Places, TinyAssumption
<1>1. TypeOK'
  BY DEF WalksInside, PlacesApart, DescriptorsCounted
<1>2. WalksInside'
  BY DEF WalksInside
<1>3. PlacesApart'
  BY DEF PlacesApart
<1>4. DescriptorsCounted'
  BY DEF PlacesApart, DescriptorsCounted
<1>5. Connected'
  BY SameConnections DEF PlacesApart, Listening
<1> QED
  BY <1>1, <1>2, <1>3, <1>4, <1>5

\* bind and connect change the descriptor of the caller only.
LEMMA AttachIInv ==
  ASSUME TinyAssumption, IInv, NEW p \in Process, Attach(p)
  PROVE  IInv'
<1> USE DEF IInv, TypeOK, Attach, Goto, Process, Walking, Places, TinyAssumption
<1>1. TypeOK'
  <2>1. pc' \in [Process -> Places]
    OBVIOUS
  <2>2. queue' \in Seq(Connection) /\ Len(queue') <= Backlog
    <3>1. CASE UNCHANGED queue
      BY <3>1
    <3>2. CASE p \in Clients /\ Len(queue) < Backlog /\ queue' = Append(queue, From(p))
      <4>1. From(p) \in Connection
        BY <3>2 DEF Connection, From
      <4>2. queue' \in Seq(Connection) /\ Len(queue') = Len(queue) + 1
        BY <3>2, <4>1
      <4>3. Len(queue) \in Nat
        OBVIOUS
      <4> QED
        BY <3>2, <4>2, <4>3
    <3> QED
      BY <3>1, <3>2
  <2> QED
    BY <2>1, <2>2
<1>2. WalksInside'
  BY DEF WalksInside
<1>3. PlacesApart'
  BY DEF PlacesApart
<1>4. DescriptorsCounted'
  BY DEF PlacesApart, DescriptorsCounted
<1>5. Connected'
  <2>1. CASE p = Server /\ pc' = [pc EXCEPT ![p] = "cleanup"] /\ UNCHANGED queue
    BY <2>1, SameConnections DEF PlacesApart, Listening
  <2>2. CASE pc' = [pc EXCEPT ![p] = "close"] /\ UNCHANGED queue
    BY <2>2, SameConnections DEF PlacesApart, Listening
  \* A client on its way has no connection yet, so the new one is its only one.
  <2>3. CASE p \in Clients /\ Listening /\ pc' = [pc EXCEPT ![p] = "cleanup"] /\ queue' = Append(queue, From(p))
    <3>1. /\ DOMAIN queue = 1 .. Len(queue) /\ DOMAIN queue' = 1 .. Len(queue) + 1
          /\ \A i \in DOMAIN queue : queue'[i] = queue[i]
          /\ queue'[Len(queue) + 1] = From(p) /\ Len(queue) \in Nat
          /\ \A i \in DOMAIN queue : queue[i] \in Connection
      BY <2>3
    <3>2. ~Live(p) /\ p \notin ended
      BY <2>3 DEF Connected
    <3>3. \A c \in Clients : Waits(c)' <=> Waits(c) \/ c = p
      <4>1. \A i \in DOMAIN queue' : i \in DOMAIN queue \/ i = Len(queue) + 1
        BY <3>1
      <4>2. \A i \in DOMAIN queue : i \in DOMAIN queue'
        BY <3>1
      <4>3. Len(queue) + 1 \in DOMAIN queue'
        BY <3>1
      <4>4. \A c : From(c) = From(p) => c = p
        BY DEF From
      <4> QED
        BY <3>1, <4>1, <4>2, <4>3, <4>4 DEF Waits
    <3>4. \A c \in Clients : Live(c)' <=> Live(c) \/ c = p
      BY <3>3 DEF Live
    <3>5. OneEnd'
      <4>1. \A i \in DOMAIN queue : queue[i].end = "open" => queue[i].by # p
        BY <3>1, <3>2, IsFrom DEF Live, Waits
      <4>2. From(p).end = "open" /\ From(p).by = p
        BY DEF From
      <4>3. ASSUME NEW i \in DOMAIN queue', NEW j \in DOMAIN queue',
                   queue'[i].end = "open", queue'[j].end = "open", queue'[i].by = queue'[j].by
            PROVE  i = j
        <5>1. \A x \in DOMAIN queue' : (x \in DOMAIN queue /\ queue'[x] = queue[x]) \/ (x = Len(queue) + 1 /\ queue'[x] = From(p))
          BY <3>1
        <5> HIDE DEF IInv, TypeOK, Attach, Goto, Process, Walking, Places, TinyAssumption
        <5>2. CASE queue'[i].by = p
          <6>1. i = Len(queue) + 1
            BY <4>1, <4>3, <5>1, <5>2
          <6>2. j = Len(queue) + 1
            BY <4>1, <4>3, <5>1, <5>2
          <6> QED
            BY <6>1, <6>2
        <5>3. CASE queue'[i].by # p
          <6>1. i \in DOMAIN queue /\ queue'[i] = queue[i]
            BY <4>2, <5>1, <5>3
          <6>2. j \in DOMAIN queue /\ queue'[j] = queue[j]
            BY <4>2, <4>3, <5>1, <5>3
          <6> QED
            BY <4>3, <6>1, <6>2 DEF IInv, Connected, OneEnd
        <5> QED
          BY <5>2, <5>3
      <4>4. conn'.end = "open" => ~Waits(conn.by)'
        <5>1. conn' = conn /\ (conn.end = "open" => conn.by \in Clients /\ conn = From(conn.by))
          <6>1. conn.end = "open" => conn.by \in Clients
            BY DEF Connection, Nobody
          <6> QED
            BY <6>1, IsFrom
        <5>2. conn.end = "open" => conn.by # p /\ ~Waits(conn.by)
          BY <3>2, <5>1 DEF Live, Connected, OneEnd
        <5>3. conn.end = "open" => ~Waits(conn.by)'
          BY <3>3, <5>1, <5>2
        <5> QED
          BY <5>1, <5>3
      <4>5. \A c \in ended' : ~Live(c)'
        BY <3>2, <3>4 DEF Connected, OneEnd
      <4> QED
        BY <4>3, <4>4, <4>5 DEF OneEnd
    <3>6. Listening' /\ pc'[Server] = pc[Server]
      BY <2>3 DEF Listening
    <3>7. \A c \in Clients : pc'[c] \in {"cleanup", "open"} <=> Live(c)' \/ c \in ended'
      BY <2>3, <3>4 DEF Connected
    <3> QED
      BY <3>5, <3>6, <3>7 DEF Connected
  <2> QED
    BY <2>1, <2>2, <2>3
<1> QED
  BY <1>1, <1>2, <1>3, <1>4, <1>5

\* accept gives the server a second descriptor and takes the connection that
\* waited longest; whose it is does not change.
LEMMA AcceptIInv ==
  ASSUME TinyAssumption, IInv, Accept
  PROVE  IInv'
<1> USE DEF IInv, TypeOK, Accept, Goto, Process, Walking, Places, TinyAssumption
<1>1. /\ DOMAIN queue = 1 .. Len(queue) /\ DOMAIN queue' = 1 .. Len(queue) - 1
      /\ \A i \in DOMAIN queue' : queue'[i] = queue[i + 1]
      /\ queue' \in Seq(Connection) /\ Len(queue') = Len(queue) - 1
      /\ Len(queue) \in Nat \ {0} /\ conn' = queue[1] /\ queue[1] \in Connection
  OBVIOUS
<1>2. TypeOK'
  BY <1>1 DEF DescriptorsCounted
<1>3. WalksInside'
  BY DEF WalksInside
<1>4. PlacesApart'
  BY DEF PlacesApart
<1>5. DescriptorsCounted'
  BY DEF DescriptorsCounted
<1>6. Connected'
  <2>1. 1 \in DOMAIN queue /\ \A i \in DOMAIN queue' : i + 1 \in DOMAIN queue /\ i + 1 # 1
    BY <1>1
  <2>2. \A i \in DOMAIN queue : i # 1 => i - 1 \in DOMAIN queue' /\ queue'[i - 1] = queue[i]
    <3>1. ASSUME NEW i \in DOMAIN queue, i # 1
          PROVE  i - 1 \in DOMAIN queue' /\ queue'[i - 1] = queue[i]
      <4>1. i - 1 \in 1 .. Len(queue) - 1 /\ (i - 1) + 1 = i
        BY <1>1, <3>1
      <4> QED
        BY <1>1, <4>1
    <3> HIDE DEF Accept, TypeOK, IInv
    <3> QED
      BY <3>1
  <2>3. conn = Nobody /\ conn' # Nobody
    <3>1. conn = Nobody
      BY DEF Connected
    <3>2. conn' # Nobody
      BY <1>1 DEF Connection, Nobody
    <3> QED
      BY <3>1, <3>2
  <2>4. \A c : Live(c)' <=> Live(c)
    <3>1. \A c : Waits(c) <=> conn' = From(c) \/ Waits(c)'
      <4>1. \A c : Waits(c) => conn' = From(c) \/ Waits(c)'
        BY <1>1, <2>2 DEF Waits
      <4>2. \A c : conn' = From(c) \/ Waits(c)' => Waits(c)
        BY <1>1, <2>1 DEF Waits
      <4> QED
        BY <4>1, <4>2
    <3>2. \A c : conn # From(c)
      BY <2>3 DEF Nobody, From
    <3> QED
      BY <3>1, <3>2 DEF Live
  <2>5. OneEnd'
    <3>1. ASSUME NEW i \in DOMAIN queue', NEW j \in DOMAIN queue',
                 queue'[i].end = "open", queue'[j].end = "open", queue'[i].by = queue'[j].by
          PROVE  i = j
      <4>1. i + 1 = j + 1
        BY <1>1, <2>1, <3>1 DEF Connected, OneEnd
      <4> QED
        BY <1>1, <4>1
    <3>2. conn'.end = "open" => ~Waits(conn.by)'
      <4> SUFFICES ASSUME conn'.end = "open", NEW i \in DOMAIN queue', queue'[i] = From(conn'.by)
                   PROVE  FALSE
        BY DEF Waits
      <4>1. queue[1].end = "open" /\ queue[i + 1].end = "open" /\ queue[1].by = queue[i + 1].by
        BY <1>1 DEF From
      <4> QED
        BY <2>1, <4>1 DEF Connected, OneEnd
    <3>3. \A c \in ended' : ~Live(c)'
      BY <2>4 DEF Connected, OneEnd
    <3> QED
      BY <3>1, <3>2, <3>3 DEF OneEnd
  <2>6. pc'[Server] = "name" /\ \A c \in Clients : pc'[c] = pc[c]
    OBVIOUS
  <2> QED
    BY <2>3, <2>4, <2>5, <2>6 DEF Connected, Listening
<1> QED
  BY <1>2, <1>3, <1>4, <1>5, <1>6

\* Every step preserves the strengthened invariant.
LEMMA NextIInv ==
  ASSUME TinyAssumption, IInv, [Next]_vars
  PROVE  IInv'
<1>1. CASE UNCHANGED vars
  <2>1. Connected'
    BY <1>1, SameConnections DEF vars, IInv, Listening
  <2> QED
    BY <1>1, <2>1 DEF vars, IInv, TypeOK, WalksInside, PlacesApart, DescriptorsCounted
<1>2. ASSUME NEW p \in Process, Walk(p) PROVE IInv'
  BY <1>2, ResolveIInv, SocketIInv, AttachIInv, CloseAttemptIInv, CleanUpIInv DEF Walk
<1>3. CASE Serve
  BY <1>3, ListenIInv, AcceptIInv, GetnameinfoIInv, DoitIInv, CloseConnIInv DEF Serve
<1>4. CASE WrapperExits
  BY <1>4, WrapperExitsIInv
<1>5. ASSUME NEW c \in Clients, Leave(c) \/ Retry(c) PROVE IInv'
  BY <1>5, LeaveIInv, RetryIInv
<1> QED
  BY <1>1, <1>2, <1>3, <1>4, <1>5 DEF Next

\* In every behaviour descriptors, connections and the queue of clients fit together.
THEOREM AlwaysIInv == ASSUME TinyAssumption PROVE Spec => []IInv
<1>1. Init => IInv
  BY InitIInv, TinyAssumption
<1>2. IInv /\ [Next]_vars => IInv'
  BY NextIInv, TinyAssumption
<1> QED
  BY <1>1, <1>2, PTL DEF Spec

-----------------------------------------------------------------------------

\* The table of descriptors, the queue and the places of every process keep
\* their types; in particular no process ever holds more than two descriptors.
THEOREM TypeCorrect == ASSUME TinyAssumption PROVE Spec => []TypeOK
<1>1. IInv => TypeOK
  BY DEF IInv
<1> QED
  BY <1>1, AlwaysIInv, TinyAssumption, PTL

\* No walk over the addresses, no accept and no failure of either leaks a
\* descriptor, with any number of clients (open_clientfd, open_listenfd, main).
THEOREM NothingLeaks == ASSUME TinyAssumption PROVE Spec => []DescriptorsCounted
<1>1. IInv => DescriptorsCounted
  BY DEF IInv
<1> QED
  BY <1>1, AlwaysIInv, TinyAssumption, PTL

\* With any number of clients that leave and connect again at any moment, a
\* client's descriptor and the server's side of its connection agree: one
\* connection each, handed out by open_clientfd only when it was made, ended
\* only by the client itself, by tiny's Close or by its exit.
THEOREM AlwaysConnected == ASSUME TinyAssumption PROVE Spec => []Connected
<1>1. IInv => Connected
  BY DEF IInv
<1> QED
  BY <1>1, AlwaysIInv, TinyAssumption, PTL

-----------------------------------------------------------------------------
(* The wrappers: failures and results told apart.                          *)

\* Between calls nothing has been returned for a failure, handlers have
\* SA_RESTART, and only a failure has ended the process.
Reported ==
  /\ restart /\ ~returned
  /\ status # "running" => call # "none"
  /\ call # "none" => /\ Wrappers!CallsError(call, result) <=> result.failed
                      /\ result.failed /\ errno = "EINTR" => call = "Select"
  /\ status # "running" => result.failed

\* The sections' tests, wrapper by wrapper, decide as the manual pages do.
LEMMA TestsAreRight ==
  ASSUME NEW c \in Wrappers!Wrapped, Wrappers!LibraryCall(c)
  PROVE  /\ Wrappers!CallsError(call, result)' <=> result'.failed
         /\ result'.failed => errno' # "EINTR"
<1> DEFINE Left(r) == IF c = "Readdir" /\ r = Wrappers!R("NULL", FALSE) THEN {Wrappers!Prepare(c)}
                      ELSE IF c \in {"Pause", "Sigsuspend"} /\ ~r.failed THEN {"EINTR"}
                      ELSE IF r.failed THEN {"EFAIL"} ELSE {Wrappers!Prepare(c), "EFAIL"}
           Sections == /\ call' = c /\ result' \in Wrappers!Results(c) /\ errno' \in Left(result')
<1>0. Sections
  BY DEF Wrappers!LibraryCall
<1>1. result'.failed => errno' # "EINTR"
  BY <1>0 DEF Wrappers!R
<1> USE DEF Wrappers!R, Wrappers!CallsError, Wrappers!ProcessControl, Wrappers!Signals, Wrappers!UnixIO,
    Wrappers!Directories, Wrappers!Memory, Wrappers!StandardIO, Wrappers!Sockets, Wrappers!ProtocolIndependent,
    Wrappers!Dns, Wrappers!Threads, Wrappers!Semaphores, Wrappers!Negative, Wrappers!IsNull
<1>2. CASE c \in Wrappers!Minus1
  <2>1. Wrappers!Results(c) = {Wrappers!R("zero", FALSE), Wrappers!R("positive", FALSE), Wrappers!R("minus_one", TRUE)}
    BY ONLY <1>2 DEF Wrappers!Results, Wrappers!Minus1, Wrappers!NullPointer, Wrappers!ErrorNumber, Wrappers!NeverFail
  <2> QED
    BY <1>0, <1>1, <1>2, <2>1 DEF Wrappers!Minus1
<1>3. CASE c \in Wrappers!NullPointer
  <2>1. Wrappers!Results(c) = {Wrappers!R("pointer", FALSE), Wrappers!R("NULL", TRUE)}
    BY ONLY <1>3 DEF Wrappers!Results, Wrappers!Minus1, Wrappers!NullPointer, Wrappers!ErrorNumber, Wrappers!NeverFail
  <2> QED
    BY <1>0, <1>1, <1>3, <2>1 DEF Wrappers!NullPointer
<1>4. CASE c \in Wrappers!ErrorNumber
  <2>1. Wrappers!Results(c) = {Wrappers!R("zero", FALSE), Wrappers!R("positive", TRUE)}
    BY ONLY <1>4 DEF Wrappers!Results, Wrappers!Minus1, Wrappers!NullPointer, Wrappers!ErrorNumber, Wrappers!NeverFail
  <2> QED
    BY <1>0, <1>1, <1>4, <2>1 DEF Wrappers!ErrorNumber
<1>5. CASE c \in Wrappers!NeverFail
  <2>1. Wrappers!Results(c) = {Wrappers!R("positive", FALSE)}
    BY ONLY <1>5 DEF Wrappers!Results, Wrappers!Minus1, Wrappers!NullPointer, Wrappers!ErrorNumber, Wrappers!NeverFail
  <2> QED
    BY <1>0, <1>1, <1>5, <2>1 DEF Wrappers!NeverFail
<1>6. CASE c \in {"Execve", "Mmap", "Readdir", "Fclose", "Fputs", "Fwrite", "Fgets", "Fread",
                  "Inet_pton", "Sleep", "Pause", "Sigsuspend"}
  <2>1. CASE c = "Readdir"
    BY <1>0, <1>1, <2>1 DEF Wrappers!Results, Wrappers!Minus1, Wrappers!NullPointer, Wrappers!ErrorNumber,
       Wrappers!NeverFail, Wrappers!Prepare
  <2>2. CASE c = "Sigsuspend"
    BY <1>0, <1>1, <2>2 DEF Wrappers!Results, Wrappers!Minus1, Wrappers!NullPointer, Wrappers!ErrorNumber,
       Wrappers!NeverFail
  <2>3. CASE c \notin {"Readdir", "Sigsuspend"}
    BY <1>0, <1>1, <1>6, <2>3 DEF Wrappers!Results, Wrappers!Minus1, Wrappers!NullPointer, Wrappers!ErrorNumber,
       Wrappers!NeverFail
  <2> QED
    BY <2>1, <2>2, <2>3
<1> QED
  BY <1>2, <1>3, <1>4, <1>5, <1>6 DEF Wrappers!Wrapped

\* Before the first call.
LEMMA InitReported == ASSUME Wrappers!Init PROVE Reported
BY DEF Wrappers!Init, Reported, Wrappers!R

\* Calls, signals and wrappers.
LEMMA NextReported ==
  ASSUME Reported, [Wrappers!Next]_(Wrappers!vars)
  PROVE  Reported'
<1>1. ASSUME NEW c \in Wrappers!Wrapped, Wrappers!LibraryCall(c) PROVE Reported'
  <2>1. UNCHANGED <<status, restart, returned>> /\ status = "running"
    BY <1>1 DEF Wrappers!LibraryCall
  <2> QED
    BY <1>1, <2>1, TestsAreRight DEF Reported
<1>2. ASSUME NEW c \in Wrappers!Wrapped, Wrappers!Interrupted(c) PROVE Reported'
  <2>1. call' = "Select" /\ result'.failed /\ result'.value = "minus_one"
    BY <1>2 DEF Wrappers!Interrupted, Wrappers!NotRestarted, Wrappers!R, Reported
  <2>2. Wrappers!CallsError(call, result)'
    BY <2>1 DEF Wrappers!CallsError, Wrappers!UnixIO, Wrappers!Negative
  <2> QED
    BY <1>2, <2>1, <2>2 DEF Wrappers!Interrupted, Reported
<1>3. CASE Wrappers!Install
  BY <1>3 DEF Wrappers!Install, Reported
<1>4. CASE Wrappers!WrapperReturns
  BY <1>4 DEF Wrappers!WrapperReturns, Reported
<1>5. CASE Wrappers!WrapperExits
  <2>1. Wrappers!CallsError(call, result)'
    BY <1>5 DEF Wrappers!WrapperExits, Wrappers!CallsError, Wrappers!ProcessControl, Wrappers!Signals,
       Wrappers!UnixIO, Wrappers!Directories, Wrappers!Memory, Wrappers!StandardIO, Wrappers!Sockets,
       Wrappers!ProtocolIndependent, Wrappers!Dns, Wrappers!Threads, Wrappers!Semaphores, Wrappers!Negative,
       Wrappers!IsNull
  <2> QED
    BY <1>5, <2>1 DEF Wrappers!WrapperExits, Reported
<1>6. CASE UNCHANGED Wrappers!vars
  <2>1. Wrappers!CallsError(call, result)' <=> Wrappers!CallsError(call, result)
    BY <1>6 DEF Wrappers!vars, Wrappers!CallsError, Wrappers!ProcessControl, Wrappers!Signals,
       Wrappers!UnixIO, Wrappers!Directories, Wrappers!Memory, Wrappers!StandardIO, Wrappers!Sockets,
       Wrappers!ProtocolIndependent, Wrappers!Dns, Wrappers!Threads, Wrappers!Semaphores, Wrappers!Negative,
       Wrappers!IsNull
  <2> QED
    BY <1>6, <2>1 DEF Wrappers!vars, Reported
<1> QED
  BY <1>1, <1>2, <1>3, <1>4, <1>5, <1>6 DEF Wrappers!Next, Wrappers!Idle

\* A step of the suite is a step of each part or leaves it alone.
LEMMA StepsApart ==
  /\ MCInit => Wrappers!Init /\ Sio!Init
  /\ [MCNext]_mcVars => [Wrappers!Next]_(Wrappers!vars) /\ [Sio!Next]_(Sio!vars)
<1>1. MCInit => Wrappers!Init /\ Sio!Init
  BY DEF MCInit
<1>2. UNCHANGED wrappersVars => UNCHANGED Wrappers!vars
  BY DEF wrappersVars, Wrappers!vars
<1>3. UNCHANGED sioVars => UNCHANGED Sio!vars
  BY DEF sioVars, Sio!vars
<1>4. ASSUME [MCNext]_mcVars PROVE [Wrappers!Next]_(Wrappers!vars) /\ [Sio!Next]_(Sio!vars)
  <2>1. CASE TinyAlone /\ Next
    BY <1>2, <1>3, <2>1 DEF TinyAlone
  <2>2. CASE WrappersAlone /\ Wrappers!Next
    BY <1>3, <2>2 DEF WrappersAlone
  <2>3. CASE SioAlone /\ Sio!Next
    BY <1>2, <2>3 DEF SioAlone
  <2>4. CASE UNCHANGED mcVars
    BY <1>2, <1>3, <2>4 DEF mcVars
  <2> QED
    BY <1>4, <2>1, <2>2, <2>3, <2>4 DEF MCNext
<1> QED
  BY <1>1, <1>4

\* No wrapper returns a failure of its call as a result, none takes the end of a
\* file or an old errno for a failure, and a signal at a handler ends the
\* process in Select only (the wrappers of csapp.c).
THEOREM AlwaysToldApart == MCSpec => []ErrorsToldApart
<1>1. MCInit => Reported
  BY StepsApart, InitReported
<1>2. Reported /\ [MCNext]_mcVars => Reported'
  BY StepsApart, NextReported
<1>3. Reported => ErrorsToldApart
  BY DEF Reported, ErrorsToldApart, Wrappers!FailureNeverReturned, Wrappers!NoFalseAlarm,
     Wrappers!SignalsAreSurvived
<1> QED
  BY <1>1, <1>2, <1>3, PTL DEF MCSpec

-----------------------------------------------------------------------------
(* sio_putl: the digits of a number, without powers of ten.                *)

Magnitude(m) == IF m < 0 THEN -m ELSE m

\* q[1], q[2], ... are what v holds before each turn of sio_ltoa's loop, n turns
\* done, and s has a digit for each.
Divided(m, q, n, s) ==
  /\ n \in Nat /\ q \in [1 .. n + 1 -> Nat] /\ q[1] = Magnitude(m)
  /\ \A k \in 1 .. n : q[k + 1] = q[k] \div 10 /\ s[k] = 48 + (q[k] % 10)

\* The loop has gone on as long as there was something left.
NonZero(q, n) == \A k \in 2 .. n : q[k] > 0

\* s is m's numeral from its last digit to its sign.
Backwards(m, s) ==
  \E q, n : /\ Divided(m, q, n, s) /\ NonZero(q, n) /\ n > 0 /\ q[n + 1] = 0
            /\ Len(s) = n + (IF m < 0 THEN 1 ELSE 0)
            /\ m < 0 => s[n + 1] = 45

\* The first n places of t are those of s, but that the ones before i hold what is
\* across from them, and the ones across from those too.
Across(t, s, n, i) ==
  \A k \in 1 .. n : t[k] = IF k < i \/ k > n + 1 - i THEN s[n + 1 - k] ELSE s[k]

\* t is s in the middle of being reversed, i the next place.
Mirrored(t, s, i) ==
  /\ Len(t) = Len(s)
  /\ Across(t, s, Len(s), i)

\* f[k] is the value of the first k of the n digits d, as in Said.
Reads(f, n, d) == \A k \in 0 .. n : f[k] = IF k = 0 THEN 0 ELSE 10 * f[k - 1] + d[k] - 48

\* A number that is divided by ten keeps its sign and has a digit.
LEMMA TenParts ==
  ASSUME NEW v \in Nat
  PROVE  v \div 10 \in Nat /\ v % 10 \in 0 .. 9 /\ v = 10 * (v \div 10) + (v % 10)
OBVIOUS

\* In a set of natural numbers that is not empty, one is the least.
LEMMA Least ==
  ASSUME NEW T, T \subseteq Nat, T # {}
  PROVE  \E x \in T : \A y \in T : x <= y
<1> DEFINE R == OpToRel(<, Nat)
<1>1. IsWellFoundedOn(R, Nat)
  BY NatLessThanWellFounded
<1>2. \A x, y \in Nat : x < y => <<x, y>> \in R
  BY DEF OpToRel
<1> HIDE DEF R
<1>3. PICK x \in T : \A y \in T : ~(<<y, x>> \in R)
  BY <1>1, WFMin
<1>4. \A y \in T : x \in Nat /\ y \in Nat /\ ~(y < x)
  BY <1>2, <1>3
<1> QED
  BY <1>4

\* Reading the digits from the left meets the same numbers as taking them off
\* from the right: after k digits the value is the one that had n - k digits taken
\* off. Stated for a function that satisfies the equation of Said's value.
LEMMA ReadBack ==
  ASSUME NEW m, NEW q, NEW n, NEW s, Divided(m, q, n, s), q[n + 1] = 0,
         NEW d, \A k \in 1 .. n : d[k] = s[n + 1 - k],
         NEW f, Reads(f, n, d)
  PROVE  f[n] = Magnitude(m)
<1> USE DEF Divided, Reads
<1>0. n \in 0 .. n /\ n + 1 - n = 1 /\ q[1] = Magnitude(m)
  OBVIOUS
<1>1. SUFFICES ASSUME NEW x \in 0 .. n, f[x] # q[n + 1 - x] PROVE FALSE
  BY <1>0
<1>2. PICK k \in 0 .. n : f[k] # q[n + 1 - k] /\ \A j \in 0 .. n : f[j] # q[n + 1 - j] => k <= j
  <2> DEFINE T == {k \in 0 .. n : f[k] # q[n + 1 - k]}
  <2>1. T \subseteq Nat /\ x \in T
    BY <1>1
  <2> HIDE DEF T
  <2>2. PICK y \in T : \A j \in T : y <= j
    BY <2>1, Least
  <2> QED
    BY <2>2 DEF T
<1>3. k # 0
  BY <1>2
<1>4. k - 1 \in 0 .. n /\ f[k - 1] = q[n + 2 - k]
  BY <1>2, <1>3
<1> DEFINE j == n + 1 - k
<1>5. j \in 1 .. n /\ j + 1 = n + 2 - k /\ q[j] \in Nat /\ q[j + 1] \in Nat
  BY <1>3
<1>6. q[j + 1] = q[j] \div 10 /\ d[k] = 48 + (q[j] % 10)
  BY <1>3, <1>5
<1>7. q[j] = 10 * q[j + 1] + (q[j] % 10)
  BY <1>5, <1>6, TenParts
<1>8. q[j] % 10 \in Int
  BY <1>5, TenParts
<1>9. f[k] = 10 * q[j + 1] + d[k] - 48
  BY <1>3, <1>4, <1>5
<1> HIDE DEF j
<1>10. f[k] = q[j]
  BY <1>5, <1>6, <1>7, <1>8, <1>9
<1> QED
  BY <1>2, <1>10 DEF j


\* A numeral turned round is one, and says its number.
LEMMA SaysIt ==
  ASSUME NEW m \in Int, NEW s \in Seq(Int), Backwards(m, s),
         NEW t \in Seq(Int), Mirrored(t, s, Len(s) + 1)
  PROVE  Sio!IsNumeral(t) /\ Sio!Said(t) = m
<1>1. PICK q, n : /\ Divided(m, q, n, s) /\ NonZero(q, n) /\ n > 0 /\ q[n + 1] = 0
                  /\ Len(s) = n + (IF m < 0 THEN 1 ELSE 0)
                  /\ m < 0 => s[n + 1] = 45
  BY DEF Backwards
<1> DEFINE d == Sio!Digits(t)
<1>2. n \in Nat \ {0} /\ Len(t) = Len(s) /\ \A k \in 1 .. Len(s) : t[k] = s[Len(s) + 1 - k]
  BY <1>1 DEF Divided, Mirrored, Across
<1>3. \A k \in 1 .. n : s[k] \in 48 .. 57 /\ q[k] \in Nat /\ q[k + 1] = q[k] \div 10
                          /\ s[k] = 48 + (q[k] % 10)
  <2> TAKE k \in 1 .. n
  <2>1. q[k] \in Nat /\ q[k + 1] = q[k] \div 10 /\ s[k] = 48 + (q[k] % 10)
    BY <1>1 DEF Divided
  <2> DEFINE x == q[k] % 10
  <2>2. x \in 0 .. 9
    BY <2>1, TenParts
  <2> HIDE DEF x
  <2>3. 48 + x \in 48 .. 57
    BY <2>2
  <2> QED
    BY <2>1, <2>3 DEF x
<1>4. t[1] = Sio!Minus <=> m < 0
  <2>1. CASE m < 0
    BY <1>1, <1>2, <2>1 DEF Sio!Minus
  <2>2. CASE ~(m < 0)
    <3>1. t[1] = s[n] /\ s[n] \in 48 .. 57
      BY <1>1, <1>2, <1>3, <2>2
    <3> QED
      BY <2>2, <3>1 DEF Sio!Minus
  <2> QED
    BY <2>1, <2>2
<1>5. d \in Seq(Int) /\ Len(d) = n /\ \A k \in 1 .. n : d[k] = s[n + 1 - k]
  <2>1. CASE m < 0
    <3>1. d = Tail(t)
      BY <1>4, <2>1 DEF Sio!Digits
    <3>2. Len(t) = n + 1 /\ \A k \in 1 .. n : d[k] = t[k + 1]
      BY <1>1, <1>2, <2>1, <3>1
    <3> QED
      BY <1>1, <1>2, <2>1, <3>1, <3>2
  <2>2. CASE ~(m < 0)
    <3>1. d = t
      BY <1>4, <2>2 DEF Sio!Digits
    <3> QED
      BY <1>1, <1>2, <2>2, <3>1
  <2> QED
    BY <2>1, <2>2
<1> HIDE DEF d
<1>6. Sio!IsNumeral(t)
  <2>1. d # <<>> /\ DOMAIN d = 1 .. n
    BY <1>2, <1>5
  <2>2. \A k \in DOMAIN d : d[k] \in 48 .. 57
    <3> TAKE k \in DOMAIN d
    <3>1. k \in 1 .. n /\ n + 1 - k \in 1 .. n
      BY <1>2, <2>1
    <3> QED
      BY <1>3, <1>5, <3>1
  <2>3. ASSUME d[1] = 48 PROVE d = <<48>>
    <3>1. d[1] = 48 + (q[n] % 10) /\ q[n] \div 10 = 0 /\ q[n] \in Nat
      <4>1. n \in 1 .. n /\ 1 \in 1 .. n /\ n + 1 - 1 = n
        BY <1>2
      <4> QED
        BY <1>1, <1>3, <1>5, <4>1
    <3>2. q[n] = 0
      BY <2>3, <3>1, TenParts
    <3>3. n = 1
      BY <1>1, <1>2, <3>2 DEF NonZero
    <3> QED
      BY <1>5, <2>3, <3>3
  <2> QED
    BY <2>1, <2>2, <2>3 DEF Sio!IsNumeral, d
<1>7. Sio!Said(t) = m
  <2> DEFINE value[k \in 0 .. n] == IF k = 0 THEN 0 ELSE 10 * value[k - 1] + d[k] - 48
             F(f) == f = [k \in 0 .. n |-> IF k = 0 THEN 0 ELSE 10 * f[k - 1] + d[k] - 48]
             h == [k \in 0 .. n |-> q[n + 1 - k]]
  <2>1. Reads(h, n, d)
    <3>1. h[0] = 0 /\ n \in Nat
      BY <1>1, <1>2
    <3>2. ASSUME NEW k \in 1 .. n PROVE h[k] = 10 * h[k - 1] + d[k] - 48
      <4> DEFINE j == n + 1 - k
      <4>1. j \in 1 .. n /\ j + 1 = n + 1 - (k - 1) /\ k - 1 \in 0 .. n /\ k \in 0 .. n
        BY <1>2
      <4>2. h[k] = q[j] /\ h[k - 1] = q[j + 1] /\ d[k] = s[j]
        BY <1>5, <4>1
      <4> HIDE DEF j, h
      <4>3. q[j] \in Nat /\ q[j + 1] = q[j] \div 10 /\ s[j] = 48 + (q[j] % 10)
        BY <1>3, <4>1
      <4>4. q[j] = 10 * q[j + 1] + (q[j] % 10) /\ q[j] % 10 \in Int /\ q[j + 1] \in Int
        BY <4>3, TenParts
      <4> QED
        BY <4>2, <4>3, <4>4
    <3> HIDE DEF h
    <3> QED
      BY <3>1, <3>2 DEF Reads
  <2>2. Reads(value, n, d)
    <3>1. F(h)
      BY <2>1 DEF Reads
    <3>2. value = CHOOSE f : F(f)
      OBVIOUS
    <3> HIDE DEF value
    <3>3. F(value)
      <4> HIDE DEF F, h
      <4> QED
        BY <3>1, <3>2
    <3> QED
      BY <3>3 DEF Reads
  <2>3. Sio!Said(t) = IF t[1] = Sio!Minus THEN -value[n] ELSE value[n]
    BY <1>5 DEF Sio!Said, d
  <2> HIDE DEF value, h, F
  <2>4. value[n] = Magnitude(m)
    <3>1. Divided(m, q, n, s) /\ q[n + 1] = 0
      BY <1>1
    <3>2. \A k \in 1 .. n : d[k] = s[n + 1 - k]
      BY <1>5
    <3> QED
      BY ONLY <3>1, <3>2, <2>2, ReadBack
  <2> QED
    BY <1>4, <2>3, <2>4 DEF Magnitude
<1> QED
  BY <1>6, <1>7

-----------------------------------------------------------------------------
(* sio_putl: activations.                                                  *)

Frame == [pc : {"sign", "digits", "end", "reverse", "write"}, meant : Int, v : Int, neg : BOOLEAN,
          s : Seq(Int), i : Nat \ {0}]

\* What an activation has done so far.
DoneSoFar(f) ==
  /\ f.pc # "sign" => (f.neg <=> f.meant < 0)
  /\ f.pc = "sign" => f.v = f.meant
  /\ f.pc \in {"sign", "digits", "end"} => f.i = 1
  /\ f.pc = "sign" => f.s = <<>>
  /\ f.pc = "digits" /\ f.s # <<>> => f.v > 0
  /\ f.pc = "digits" => \E q : /\ Divided(f.meant, q, Len(f.s), f.s) /\ NonZero(q, Len(f.s))
                               /\ f.v = q[Len(f.s) + 1]
  /\ f.pc = "end" => \E q : /\ Divided(f.meant, q, Len(f.s), f.s) /\ NonZero(q, Len(f.s))
                            /\ Len(f.s) > 0 /\ q[Len(f.s) + 1] = 0
  /\ f.pc = "reverse" => \E s \in Seq(Int) :
                           Backwards(f.meant, s) /\ Mirrored(f.s, s, f.i) /\ f.i \in 1 .. Len(s) + 1
  /\ f.pc = "write" => \E s \in Seq(Int) : Backwards(f.meant, s) /\ Mirrored(f.s, s, Len(s) + 1)

\* The least long is its own negation, and nothing is said of it.
Sound(f) == f \in Frame /\ (f.meant # -Half => DoneSoFar(f))

Activations ==
  /\ frames \in Seq(Frame)
  /\ \A k \in DOMAIN frames : frames[k].meant \in Sio!Long /\ Sound(frames[k])
  /\ \A k \in DOMAIN output : output[k].meant # -Half =>
       Sio!IsNumeral(output[k].text) /\ Sio!Said(output[k].text) = output[k].meant
  /\ output \in Seq([meant : Int, text : Seq(Int)])

\* Whoever is interrupted, a step is one of the activation that runs, and no other's locals
\* change: if it leaves its own as they should be, all are.
LEMMA OneAtATime ==
  ASSUME Activations, frames # <<>>, NEW f \in Frame, f.meant = Sio!Top.meant,
         f.meant # -Half => DoneSoFar(f), Sio!Update(f), UNCHANGED output
  PROVE  Activations'
<1>1. frames' = [frames EXCEPT ![Len(frames)] = f]
  BY DEF Sio!Update
<1>2. Len(frames) \in DOMAIN frames
  BY DEF Activations
<1>3. frames' \in Seq(Frame) /\ DOMAIN frames' = DOMAIN frames
  BY <1>1, <1>2 DEF Activations
<1>4. \A k \in DOMAIN frames' : frames'[k] = IF k = Len(frames) THEN f ELSE frames[k]
  BY <1>1, <1>2, <1>3
<1>5. f.meant \in Sio!Long
  BY <1>2 DEF Activations, Sio!Top
<1>6. \A k \in DOMAIN frames' : frames'[k].meant \in Sio!Long /\ Sound(frames'[k])
  BY <1>2, <1>3, <1>4, <1>5 DEF Activations, Sound
<1> QED
  BY <1>3, <1>6 DEF Activations

\* The running activation is sound.
LEMMA TopIs ==
  ASSUME Activations, NEW place, Sio!Running(place)
  PROVE  /\ frames # <<>> /\ Sio!Top \in Frame /\ Sio!Top.pc = place /\ Sio!Top.meant \in Sio!Long
         /\ Sio!Top.meant # -Half => DoneSoFar(Sio!Top)
<1>1. frames # <<>> /\ Sio!Top.pc = place
  BY DEF Sio!Running
<1>2. Len(frames) \in DOMAIN frames
  BY <1>1 DEF Activations
<1> QED
  BY <1>1, <1>2 DEF Activations, Sio!Top, Sound

\* What is wrapped is a number, whatever it was.
LEMMA WrappedIs ==
  ASSUME Sio!SioAssumption, NEW x \in Int
  PROVE  Sio!Wrapped(x) \in Int
<1>1. Half \in Nat \ {0}
  BY DEF Sio!SioAssumption
<1>2. (x + Half) % (2 * Half) \in Int
  BY <1>1
<1> QED
  BY <1>1, <1>2 DEF Sio!Wrapped

\* Taking off the sign gives the magnitude, but for the least long.
LEMMA SignTaken ==
  ASSUME Sio!SioAssumption, NEW m \in Sio!Long, m # -Half
  PROVE  Sio!Wrapped(-m) = -m
<1>1. Half \in Nat \ {0} /\ m \in Int /\ -Half <= m /\ m < Half
  BY DEF Sio!SioAssumption, Sio!Long
<1>2. (-m + Half) % (2 * Half) = -m + Half
  BY <1>1
<1> QED
  BY <1>1, <1>2 DEF Sio!Wrapped

\* Before the first call.
LEMMA InitActivations == ASSUME Sio!Init PROVE Activations
BY DEF Sio!Init, Activations

\* A call of the program or of a handler.
LEMMA CallKeeps ==
  ASSUME Sio!SioAssumption, Activations, NEW v \in Printed, Sio!Call(v)
  PROVE  Activations'
<1> DEFINE f == [pc |-> "sign", meant |-> v, v |-> v, neg |-> FALSE, s |-> <<>>, i |-> 1]
<1>1. v \in Sio!Long /\ v \in Int
  BY DEF Sio!SioAssumption, Sio!Long
<1>2. f \in Frame /\ f.meant \in Sio!Long /\ Sound(f)
  <2>1. <<>> \in Seq(Int)
    OBVIOUS
  <2>2. f \in Frame
    BY <1>1, <2>1 DEF Frame
  <2> QED
    BY <1>1, <2>2 DEF Sound, DoneSoFar
<1>3. frames' = Append(frames, f) /\ output' = output
  BY DEF Sio!Call
<1> HIDE DEF f
<1>4. /\ frames' \in Seq(Frame)
      /\ \A k \in DOMAIN frames' : frames'[k] = f \/ (k \in DOMAIN frames /\ frames'[k] = frames[k])
  <2>1. frames \in Seq(Frame)
    BY DEF Activations
  <2> QED
    BY ONLY <1>2, <1>3, <2>1
<1>5. \A k \in DOMAIN frames' : frames'[k].meant \in Sio!Long /\ Sound(frames'[k])
  BY <1>2, <1>4 DEF Activations
<1> QED
  BY <1>3, <1>4, <1>5 DEF Activations

\* The sign is taken off: the first quotient is the magnitude.
LEMMA TakeSignKeeps ==
  ASSUME Sio!SioAssumption, Activations, Sio!TakeSign
  PROVE  Activations'
<1> DEFINE top == Sio!Top
           neg == top.v < 0
           taken == IF top.v < 0 THEN Sio!Wrapped(-top.v) ELSE top.v
           f == [top EXCEPT !.pc = "digits", !.neg = neg, !.v = taken]
<1>1. Sio!Running("sign") /\ Sio!Update(f) /\ UNCHANGED output
  BY DEF Sio!TakeSign
<1>2. /\ frames # <<>> /\ top \in Frame /\ top.pc = "sign" /\ top.meant \in Sio!Long
      /\ top.meant # -Half => DoneSoFar(top)
  BY <1>1, TopIs
<1> HIDE DEF top
<1>3. top.v \in Int /\ top.meant \in Int /\ taken \in Int /\ neg \in BOOLEAN
  <2>1. top.v \in Int /\ top.meant \in Int
    BY <1>2 DEF Frame
  <2>2. Sio!Wrapped(-top.v) \in Int
    BY <2>1, WrappedIs
  <2> QED
    BY <2>1, <2>2
<1> HIDE DEF taken, neg
<1>4. f \in Frame /\ f.pc = "digits" /\ f.meant = top.meant /\ f.neg = neg /\ f.s = top.s /\ f.i = top.i /\ f.v = taken
  BY <1>2, <1>3 DEF Frame
<1> HIDE DEF f
<1>5. ASSUME top.meant # -Half PROVE DoneSoFar(f)
  <2>1. top.v = top.meant /\ top.s = <<>> /\ top.i = 1
    BY <1>2, <1>5 DEF DoneSoFar
  <2>2. Sio!Wrapped(-top.v) = -top.v
    BY <1>2, <1>5, <2>1, SignTaken
  <2>3. taken = Magnitude(f.meant) /\ (neg <=> f.meant < 0) /\ f.s = <<>>
    BY <1>4, <2>1, <2>2 DEF Magnitude, taken, neg
  <2>4. f.v \in Nat /\ f.v = Magnitude(f.meant)
    BY <1>3, <1>4, <2>3 DEF Magnitude
  <2>5. \E q : Divided(f.meant, q, Len(f.s), f.s) /\ NonZero(q, Len(f.s)) /\ f.v = q[Len(f.s) + 1]
    <3> DEFINE q == [k \in 1 .. 1 |-> f.v]
    <3>1. Divided(f.meant, q, 0, f.s) /\ NonZero(q, 0) /\ f.v = q[1]
      BY <2>4 DEF Divided, NonZero
    <3>2. Len(f.s) = 0
      BY <2>3
    <3> HIDE DEF q
    <3> QED
      BY <3>1, <3>2
  <2> QED
    BY <1>4, <2>1, <2>3, <2>5 DEF DoneSoFar
<1> QED
  BY <1>1, <1>2, <1>4, <1>5, OneAtATime DEF top

\* One digit more: the next quotient.
LEMMA PutDigitKeeps ==
  ASSUME Activations, Sio!PutDigit
  PROVE  Activations'
<1> DEFINE top == Sio!Top
           rest == Sio!Quotient(top.v, Sio!Base)
           digit == Sio!Digit(Sio!Remainder(top.v, Sio!Base))
           longer == Append(top.s, digit)
           after == IF rest > 0 THEN "digits" ELSE "end"
           f == [top EXCEPT !.s = longer, !.v = rest, !.pc = after]
<1>1. Sio!Running("digits") /\ Sio!Update(f) /\ UNCHANGED output
  BY DEF Sio!PutDigit
<1>2. /\ frames # <<>> /\ top \in Frame /\ top.pc = "digits" /\ top.meant \in Sio!Long
      /\ top.meant # -Half => DoneSoFar(top)
  BY <1>1, TopIs
<1> HIDE DEF top
<1>3. top.v \in Int /\ top.s \in Seq(Int) /\ top.meant \in Int
  BY <1>2 DEF Frame
<1>4. rest \in Int /\ digit \in Int
  BY <1>3 DEF Sio!Quotient, Sio!Remainder, Sio!Digit, Sio!Base
<1>5. top.v \in Nat => rest = top.v \div 10 /\ digit = 48 + (top.v % 10)
  <2> SUFFICES ASSUME top.v \in Nat PROVE rest = top.v \div 10 /\ digit = 48 + (top.v % 10)
    OBVIOUS
  <2>1. rest = top.v \div 10
    BY DEF Sio!Quotient, Sio!Base
  <2> DEFINE x == top.v % 10
  <2>2. x \in 0 .. 9 /\ top.v = 10 * rest + x
    BY <2>1, TenParts
  <2>3. Sio!Remainder(top.v, Sio!Base) = top.v - 10 * rest
    BY DEF Sio!Remainder, Sio!Base
  <2> HIDE DEF x, rest
  <2>4. Sio!Remainder(top.v, Sio!Base) = x
    BY <1>4, <2>2, <2>3
  <2> QED
    BY <2>1, <2>2, <2>4 DEF Sio!Digit, x
<1> HIDE DEF rest, digit
<1>6. longer \in Seq(Int) /\ after \in {"digits", "end"} /\ (after = "digits" <=> rest > 0)
  BY <1>3, <1>4
<1> HIDE DEF longer, after
<1>7. /\ f \in Frame /\ f.meant = top.meant /\ f.neg = top.neg /\ f.i = top.i /\ f.v = rest
      /\ f.s = longer /\ f.pc = after
  BY <1>2, <1>4, <1>6 DEF Frame
<1> HIDE DEF f
<1>8. ASSUME top.meant # -Half PROVE DoneSoFar(f)
  <2>1. DoneSoFar(top) /\ top.pc = "digits"
    BY <1>2, <1>8
  <2> DEFINE n == Len(top.s)
  <2>2. PICK q : Divided(top.meant, q, n, top.s) /\ NonZero(q, n) /\ top.v = q[n + 1]
    BY <2>1 DEF DoneSoFar
  <2>3. n \in Nat /\ q \in [1 .. n + 1 -> Nat] /\ top.v \in Nat
    BY <1>3, <2>2 DEF Divided
  <2>4. rest = top.v \div 10 /\ rest \in Nat /\ digit = 48 + (top.v % 10)
    BY <1>5, <2>3, TenParts
  <2> DEFINE r == [k \in 1 .. n + 2 |-> IF k = n + 2 THEN rest ELSE q[k]]
  <2>5. Len(f.s) = n + 1 /\ f.s[n + 1] = digit /\ \A k \in 1 .. n : f.s[k] = top.s[k]
    BY <1>3, <1>4, <1>7 DEF longer
  <2>6. r \in [1 .. n + 2 -> Nat] /\ r[n + 2] = rest /\ \A k \in 1 .. n + 1 : r[k] = q[k]
    BY <2>3, <2>4
  <2> HIDE DEF r
  <2>7. Divided(top.meant, r, n + 1, f.s)
    <3>1. n + 1 \in Nat /\ (n + 1) + 1 = n + 2 /\ r[1] = Magnitude(top.meant)
      BY <2>2, <2>3, <2>6 DEF Divided
    <3>2. ASSUME NEW k \in 1 .. n + 1
          PROVE  r[k + 1] = r[k] \div 10 /\ f.s[k] = 48 + (r[k] % 10)
      <4>1. CASE k = n + 1
        BY <2>2, <2>3, <2>4, <2>5, <2>6, <4>1
      <4>2. CASE k # n + 1
        <5>1. k \in 1 .. n /\ r[k] = q[k] /\ r[k + 1] = q[k + 1]
          BY <2>3, <2>6, <4>2
        <5> QED
          BY <2>2, <2>5, <5>1 DEF Divided
      <4> QED
        BY <4>1, <4>2
    <3> QED
      BY <2>6, <3>1, <3>2 DEF Divided
  <2>8. NonZero(r, n + 1)
    <3> SUFFICES ASSUME NEW k \in 2 .. n + 1 PROVE r[k] > 0
      BY DEF NonZero
    <3>1. r[k] = q[k]
      BY <2>6
    <3>2. CASE k = n + 1
      BY <1>3, <2>1, <2>2, <2>3, <3>1, <3>2 DEF DoneSoFar
    <3>3. CASE k # n + 1
      BY <2>2, <2>3, <3>1, <3>3 DEF NonZero
    <3> QED
      BY <3>2, <3>3
  <2>9. /\ Divided(f.meant, r, Len(f.s), f.s) /\ NonZero(r, Len(f.s)) /\ f.v = r[Len(f.s) + 1]
        /\ Len(f.s) > 0 /\ (f.pc = "end" => r[Len(f.s) + 1] = 0)
    <3>1. (n + 1) + 1 = n + 2 /\ n + 1 > 0
      BY <2>3
    <3>2. f.pc = "end" => rest = 0
      BY <1>4, <1>6, <1>7, <2>4
    <3> QED
      BY <1>7, <2>5, <2>6, <2>7, <2>8, <3>1, <3>2
  <2>10. (f.neg <=> f.meant < 0) /\ f.i = 1
    BY <1>7, <2>1 DEF DoneSoFar
  <2>11. f.pc = "digits" => f.v > 0
    BY <1>6, <1>7
  <2>12. f.pc \in {"digits", "end"}
    BY <1>6, <1>7
  <2> HIDE DEF n
  <2> QED
    BY <2>9, <2>10, <2>11, <2>12 DEF DoneSoFar
<1> QED
  BY <1>1, <1>2, <1>7, <1>8, OneAtATime DEF top

\* The sign ends the numeral that is still backwards.
LEMMA PutSignKeeps ==
  ASSUME Activations, Sio!PutSign
  PROVE  Activations'
<1> DEFINE top == Sio!Top
           signed == IF top.neg THEN Append(top.s, Sio!Minus) ELSE top.s
           f == [top EXCEPT !.s = signed, !.pc = "reverse"]
<1>1. Sio!Running("end") /\ Sio!Update(f) /\ UNCHANGED output
  BY DEF Sio!PutSign
<1>2. /\ frames # <<>> /\ top \in Frame /\ top.pc = "end" /\ top.meant \in Sio!Long
      /\ top.meant # -Half => DoneSoFar(top)
  BY <1>1, TopIs
<1> HIDE DEF top
<1>3. top.s \in Seq(Int) /\ top.meant \in Int /\ top.neg \in BOOLEAN
  BY <1>2 DEF Frame
<1>4. signed \in Seq(Int)
  BY <1>3 DEF Sio!Minus
<1> HIDE DEF signed
<1>5. f \in Frame /\ f.meant = top.meant /\ f.neg = top.neg /\ f.i = top.i /\ f.s = signed /\ f.pc = "reverse"
  BY <1>2, <1>4 DEF Frame
<1> HIDE DEF f
<1>6. ASSUME top.meant # -Half PROVE DoneSoFar(f)
  <2>1. DoneSoFar(top) /\ top.pc = "end"
    BY <1>2, <1>6
  <2> DEFINE n == Len(top.s)
  <2>2. PICK q : Divided(top.meant, q, n, top.s) /\ NonZero(q, n) /\ n > 0 /\ q[n + 1] = 0
    BY <2>1 DEF DoneSoFar
  <2>3. n \in Nat /\ (top.neg <=> top.meant < 0) /\ top.i = 1
    BY <1>3, <2>1 DEF DoneSoFar
  <2>4. /\ Len(signed) = n + (IF top.meant < 0 THEN 1 ELSE 0)
        /\ top.meant < 0 => signed[n + 1] = 45
        /\ \A k \in 1 .. n : signed[k] = top.s[k]
    <3>1. CASE top.meant < 0
      BY <1>3, <2>3, <3>1 DEF signed, Sio!Minus
    <3>2. CASE ~(top.meant < 0)
      BY <1>3, <2>3, <3>2 DEF signed
    <3> QED
      BY <3>1, <3>2
  <2>5. Divided(top.meant, q, n, signed)
    BY <2>2, <2>4 DEF Divided
  <2>6. Backwards(f.meant, signed)
    BY <1>5, <2>2, <2>4, <2>5 DEF Backwards
  <2>7. Mirrored(f.s, signed, f.i) /\ f.i \in 1 .. Len(signed) + 1
    <3>1. Len(signed) \in Nat
      BY <1>4
    <3>2. \A k \in 1 .. Len(signed) : ~(k < 1 \/ k > Len(signed) + 1 - 1)
      BY <3>1
    <3> QED
      BY <1>5, <2>3, <3>1, <3>2 DEF Mirrored, Across
  <2> QED
    BY <1>4, <1>5, <2>3, <2>6, <2>7 DEF DoneSoFar
<1> QED
  BY <1>1, <1>2, <1>5, <1>6, OneAtATime DEF top

\* u is t with the places i and j exchanged.
Exchanged(u, t, n, i, j) ==
  \A k \in 1 .. n : u[k] = IF k = i THEN t[j] ELSE IF k = j THEN t[i] ELSE t[k]

\* Two places across from each other are exchanged.
LEMMA SwapMirrors ==
  ASSUME NEW n \in Nat, NEW s, NEW t, NEW u, NEW i \in 1 .. n, NEW j \in 1 .. n, j = n + 1 - i, i < j,
         Across(t, s, n, i), Exchanged(u, t, n, i, j)
  PROVE  Across(u, s, n, i + 1)
<1> USE DEF Across, Exchanged
<1> SUFFICES ASSUME NEW k \in 1 .. n
             PROVE  u[k] = IF k < i + 1 \/ k > n + 1 - (i + 1) THEN s[n + 1 - k] ELSE s[k]
  OBVIOUS
<1>1. CASE k = i
  <2>1. u[k] = t[j] /\ t[j] = s[j] /\ n + 1 - k = j /\ k < i + 1
    BY <1>1
  <2> QED
    BY <2>1
<1>2. CASE k = j
  <2>1. u[k] = t[i] /\ t[i] = s[i] /\ n + 1 - k = i /\ k > n + 1 - (i + 1)
    BY <1>2
  <2> QED
    BY <2>1
<1>3. CASE k # i /\ k # j
  <2>1. u[k] = t[k] /\ (k < i + 1 <=> k < i) /\ (k > n + 1 - (i + 1) <=> k > n + 1 - i)
    BY <1>3
  <2> QED
    BY <2>1
<1> QED
  BY <1>1, <1>2, <1>3

\* When the ends have met, only the middle is left, which is across from itself.
LEMMA EndsMeet ==
  ASSUME NEW n \in Nat, NEW s, NEW t, NEW i \in 1 .. n + 1, NEW j, j = n + 1 - i, ~(i < j),
         \A k \in 1 .. n : t[k] = IF k < i \/ k > n + 1 - i THEN s[n + 1 - k] ELSE s[k]
  PROVE  \A k \in 1 .. n : t[k] = s[n + 1 - k]
<1> TAKE k \in 1 .. n
<1>1. CASE k < i \/ k > n + 1 - i
  BY <1>1
<1>2. CASE ~(k < i \/ k > n + 1 - i)
  <2>1. k = n + 1 - k
    BY <1>2
  <2> QED
    BY <1>2, <2>1
<1> QED
  BY <1>1, <1>2

\* A swap mirrors two places more; when the ends have met all are.
LEMMA SwapKeeps ==
  ASSUME Activations, Sio!Swap
  PROVE  Activations'
<1> DEFINE top == Sio!Top
           i == top.i
           j == Len(top.s) + 1 - i
           swapped == [top.s EXCEPT ![i] = top.s[j], ![j] = top.s[i]]
           up == i + 1
           f == [top EXCEPT !.s = swapped, !.i = up]
           g == [top EXCEPT !.pc = "write"]
<1>1. Sio!Running("reverse") /\ Sio!Update(IF i < j THEN f ELSE g) /\ UNCHANGED output
  BY DEF Sio!Swap
<1>2. /\ frames # <<>> /\ top \in Frame /\ top.pc = "reverse" /\ top.meant \in Sio!Long
      /\ top.meant # -Half => DoneSoFar(top)
  BY <1>1, TopIs
<1> HIDE DEF top
<1>3. top.s \in Seq(Int) /\ i \in Nat \ {0} /\ up \in Nat \ {0} /\ j \in Int /\ top.meant \in Int
  BY <1>2 DEF Frame
<1>4. CASE i < j
  <2>1. swapped \in Seq(Int) /\ Len(swapped) = Len(top.s)
    <3>1. \A k \in DOMAIN top.s : top.s[k] \in Int
      BY <1>3
    <3>2. i \in DOMAIN top.s /\ j \in DOMAIN top.s
      BY <1>3, <1>4
    <3> QED
      BY <1>3, <3>1, <3>2
  <2> HIDE DEF swapped, up
  <2>2. f \in Frame /\ f.meant = top.meant /\ f.neg = top.neg /\ f.i = up /\ f.s = swapped /\ f.pc = "reverse"
    BY <1>2, <1>3, <2>1 DEF Frame
  <2> HIDE DEF f
  <2>3. ASSUME top.meant # -Half PROVE DoneSoFar(f)
    <3>1. DoneSoFar(top) /\ top.pc = "reverse"
      BY <1>2, <2>3
    <3>2. PICK s \in Seq(Int) : Backwards(top.meant, s) /\ Mirrored(top.s, s, i) /\ i \in 1 .. Len(s) + 1
      BY <3>1 DEF DoneSoFar
    <3>3. /\ Len(s) = Len(top.s) /\ Len(s) \in Nat /\ j = Len(s) + 1 - i
          /\ \A k \in 1 .. Len(s) : top.s[k] = IF k < i \/ k > Len(s) + 1 - i THEN s[Len(s) + 1 - k] ELSE s[k]
      BY <3>2 DEF Mirrored, Across
    <3>4. i \in 1 .. Len(s) /\ j \in 1 .. Len(s) /\ DOMAIN top.s = 1 .. Len(s)
      BY <1>3, <1>4, <3>2, <3>3
    <3>5. \A k \in 1 .. Len(s) : swapped[k] = IF k = i THEN top.s[j] ELSE IF k = j THEN top.s[i] ELSE top.s[k]
      BY <1>4, <3>4 DEF swapped
    <3> DEFINE n == Len(s)
    <3> HIDE DEF n, j
    <3>6. Across(swapped, s, n, i + 1)
      <4>1. Across(top.s, s, n, i)
        BY <3>3 DEF n, Across
      <4>2. n \in Nat /\ i \in 1 .. n /\ j \in 1 .. n /\ j = n + 1 - i
        BY <3>3, <3>4 DEF n
      <4>3. Exchanged(swapped, top.s, n, i, j)
        BY <3>5 DEF n, Exchanged
      <4> QED
        BY <1>4, <4>1, <4>2, <4>3, SwapMirrors
    <3>7. Mirrored(f.s, s, f.i) /\ f.i \in 1 .. Len(s) + 1
      <4>1. up \in 1 .. Len(s) + 1
        BY <1>3, <3>4 DEF up
      <4>2. Mirrored(swapped, s, up)
        BY <2>1, <3>3, <3>6 DEF Mirrored, Across, up, n
      <4> QED
        BY <2>2, <4>1, <4>2
    <3>8. f.neg <=> f.meant < 0
      BY <2>2, <3>1 DEF DoneSoFar
    <3> QED
      BY <2>2, <3>2, <3>7, <3>8 DEF DoneSoFar
  <2> QED
    BY <1>1, <1>2, <1>4, <2>2, <2>3, OneAtATime DEF top
<1>5. CASE ~(i < j)
  <2>1. g \in Frame /\ g.meant = top.meant /\ g.neg = top.neg /\ g.s = top.s /\ g.pc = "write"
    BY <1>2 DEF Frame
  <2> HIDE DEF g
  <2>2. ASSUME top.meant # -Half PROVE DoneSoFar(g)
    <3>1. DoneSoFar(top) /\ top.pc = "reverse"
      BY <1>2, <2>2
    <3>2. PICK s \in Seq(Int) : Backwards(top.meant, s) /\ Mirrored(top.s, s, i) /\ i \in 1 .. Len(s) + 1
      BY <3>1 DEF DoneSoFar
    <3>3. /\ Len(s) = Len(top.s) /\ Len(s) \in Nat
          /\ \A k \in 1 .. Len(s) : top.s[k] = IF k < i \/ k > Len(s) + 1 - i THEN s[Len(s) + 1 - k] ELSE s[k]
      BY <3>2 DEF Mirrored, Across
    <3> DEFINE n == Len(s)
    <3> HIDE DEF n
    <3>4. \A k \in 1 .. n : top.s[k] = s[n + 1 - k]
      <4>1. \A k \in 1 .. n : top.s[k] = IF k < i \/ k > n + 1 - i THEN s[n + 1 - k] ELSE s[k]
        BY <3>3 DEF n
      <4>2. n \in Nat /\ j = n + 1 - i /\ i \in 1 .. n + 1
        BY <3>2, <3>3 DEF n
      <4> HIDE DEF j
      <4> QED
        BY <1>5, <4>1, <4>2, EndsMeet
    <3>5. Mirrored(g.s, s, Len(s) + 1)
      BY <2>1, <3>3, <3>4 DEF Mirrored, Across, n
    <3>6. g.neg <=> g.meant < 0
      BY <2>1, <3>1 DEF DoneSoFar
    <3> QED
      BY <2>1, <3>2, <3>5, <3>6 DEF DoneSoFar
  <2> QED
    BY <1>1, <1>2, <1>5, <2>1, <2>2, OneAtATime DEF top
<1> QED
  BY <1>3, <1>4, <1>5

\* The numeral is written, and what was interrupted goes on.
LEMMA WriteKeeps ==
  ASSUME Activations, Sio!Write
  PROVE  Activations'
<1> DEFINE top == Sio!Top
           w == [meant |-> top.meant, text |-> top.s]
<1>1. Sio!Running("write") /\ output' = Append(output, w) /\ frames' = SubSeq(frames, 1, Len(frames) - 1)
  BY DEF Sio!Write, Sio!Front
<1>2. /\ frames # <<>> /\ top \in Frame /\ top.pc = "write" /\ top.meant \in Sio!Long
      /\ top.meant # -Half => DoneSoFar(top)
  BY <1>1, TopIs
<1> HIDE DEF top
<1>3. top.s \in Seq(Int) /\ top.meant \in Int
  BY <1>2 DEF Frame
<1>4. top.meant # -Half => Sio!IsNumeral(top.s) /\ Sio!Said(top.s) = top.meant
  <2> SUFFICES ASSUME top.meant # -Half PROVE Sio!IsNumeral(top.s) /\ Sio!Said(top.s) = top.meant
    OBVIOUS
  <2>1. PICK s \in Seq(Int) : Backwards(top.meant, s) /\ Mirrored(top.s, s, Len(s) + 1)
    BY <1>2 DEF DoneSoFar
  <2> QED
    BY <1>3, <2>1, SaysIt
<1>5. w \in [meant : Int, text : Seq(Int)] /\ w.meant = top.meant /\ w.text = top.s
  BY <1>3
<1> HIDE DEF w
<1>6. /\ output' \in Seq([meant : Int, text : Seq(Int)])
      /\ \A k \in DOMAIN output' : output'[k] = w \/ (k \in DOMAIN output /\ output'[k] = output[k])
  <2>1. output \in Seq([meant : Int, text : Seq(Int)])
    BY DEF Activations
  <2> HIDE DEF w
  <2> QED
    BY ONLY <1>1, <1>5, <2>1
<1>7. \A k \in DOMAIN output' : output'[k].meant # -Half =>
        Sio!IsNumeral(output'[k].text) /\ Sio!Said(output'[k].text) = output'[k].meant
  BY <1>4, <1>5, <1>6 DEF Activations
<1>8. /\ frames' \in Seq(Frame)
      /\ \A k \in DOMAIN frames' : k \in DOMAIN frames /\ frames'[k] = frames[k]
  <2>1. frames \in Seq(Frame)
    BY DEF Activations
  <2> QED
    BY ONLY <1>1, <1>2, <2>1
<1>9. \A k \in DOMAIN frames' : frames'[k].meant \in Sio!Long /\ Sound(frames'[k])
  BY <1>8 DEF Activations
<1> QED
  BY <1>6, <1>7, <1>8, <1>9 DEF Activations

\* Calls, signals and steps.
LEMMA NextActivations ==
  ASSUME Sio!SioAssumption, Activations, [Sio!Next]_(Sio!vars)
  PROVE  Activations'
<1>1. CASE Sio!Step
  <2>1. CASE Sio!WriteFails
    BY <2>1 DEF Sio!WriteFails, Activations
  <2> QED
    BY <1>1, <2>1, TakeSignKeeps, PutDigitKeeps, PutSignKeeps, SwapKeeps, WriteKeeps DEF Sio!Step
<1>2. CASE UNCHANGED Sio!vars
  BY <1>2 DEF Sio!vars, Activations
<1> QED
  BY <1>1, <1>2, CallKeeps DEF Sio!Next, Sio!Idle

\* Every number is printed as its numeral, for longs of any width and however
\* activations interrupt one another, but for the least long (sio_ltoa,
\* sio_reverse, sio_putl).
THEOREM AlwaysPrintsTheNumber ==
  ASSUME Sio!SioAssumption
  PROVE  MCSpec => []PrintsTheNumber
<1>1. MCInit => Activations
  BY StepsApart, InitActivations
<1>2. Activations /\ [MCNext]_mcVars => Activations'
  BY StepsApart, NextActivations
<1>3. Activations => PrintsTheNumber
  BY DEF Activations, PrintsTheNumber, Sio!PrintsTheNumber
<1> QED
  BY <1>1, <1>2, <1>3, PTL DEF MCSpec
=============================================================================
