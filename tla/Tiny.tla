-------------------------------- MODULE Tiny --------------------------------
(***************************************************************************)
(* The iterative server of webproxy-lab-main/tiny/tiny.c and clients that  *)
(* reach it through open_clientfd: the walks of open_listenfd and          *)
(* open_clientfd over the addresses of getaddrinfo, the backlog of the     *)
(* listening socket, and main's accept loop.  Any call may fail.  doit is  *)
(* declared in tiny.c and defined nowhere: it is external, and may only    *)
(* use the connection and return.  A client may close its end at any time  *)
(* after open_clientfd gave it one, and connect again.                     *)
(***************************************************************************)
EXTENDS Integers, Sequences, FiniteSets, SequencesExt

CONSTANTS
  Clients,
  Server,
  Addresses,     \* how many addresses getaddrinfo returns
  ServerAddr,    \* the one a server that listens answers at
  Backlog,       \* LISTENQ
  CloseFails     \* the outcomes of a close in a walk: {FALSE} or {FALSE, TRUE}

Process == Clients \union {Server}
None == "none"

\* A connection as the server's side has it: the client that made it, and
\* how the client's end is.
Connection == [by : Clients, end : {"open", "closed"}]
From(c) == [by |-> c, end |-> "open"]
Nobody == [by |-> None, end |-> "closed"]

TinyAssumption ==
  /\ Server \notin Clients /\ None \notin Clients
  /\ Addresses \in Nat \ {0} /\ ServerAddr \in 1 .. Addresses /\ Backlog \in Nat \ {0}
  /\ CloseFails \subseteq BOOLEAN

VARIABLES
  pc,       \* where each process is
  addr,     \* the address each walk is at
  fds,      \* how many descriptors each process has open
  listp,    \* which processes hold a list of getaddrinfo
  queue,    \* connections that wait for accept, oldest first
  conn,     \* the connection that tiny serves, or Nobody
  ended     \* the clients whose connection the server has closed

vars == <<pc, addr, fds, listp, queue, conn, ended>>

Walking == {"walk", "attach", "close", "cleanup", "cleanup-failed"}
Places == Walking \union {"start", "failed", "open", "listen", "accept", "name", "doit", "closing", "exited"}

Init ==
  /\ pc = [p \in Process |-> "start"]
  /\ addr = [p \in Process |-> 1]
  /\ fds = [p \in Process |-> 0]
  /\ listp = {} /\ queue = <<>> /\ conn = Nobody /\ ended = {}

Goto(p, place) == pc' = [pc EXCEPT ![p] = place]

Listening == pc[Server] \in {"accept", "name", "doit", "closing"}

\* The client holds its end of a connection that waits, or is served.
Waits(c) == \E i \in DOMAIN queue : queue[i] = From(c)
Live(c) == Waits(c) \/ conn = From(c)

-----------------------------------------------------------------------------
(* open_clientfd and open_listenfd.                                        *)

\* getaddrinfo: a list, or -2.
Resolve(p) ==
  /\ pc[p] = "start"
  /\ \/ Goto(p, "walk") /\ listp' = listp \union {p}
     \/ Goto(p, "failed") /\ UNCHANGED listp
  /\ addr' = [addr EXCEPT ![p] = 1]
  /\ UNCHANGED <<fds, queue, conn, ended>>

\* The loop's head: the end of the list, or a socket for its next address.
Socket(p) ==
  /\ pc[p] = "walk"
  /\ \/ /\ addr[p] > Addresses
        /\ Goto(p, "cleanup-failed") /\ UNCHANGED <<addr, fds>>
     \/ /\ addr[p] <= Addresses
        /\ \/ Goto(p, "attach") /\ fds' = [fds EXCEPT ![p] = @ + 1] /\ UNCHANGED addr
           \/ addr' = [addr EXCEPT ![p] = @ + 1] /\ UNCHANGED <<pc, fds>>
  /\ UNCHANGED <<listp, queue, conn, ended>>

\* A mistake: the loop ends whatever connect says.
AttachUnchecked(p) ==
  /\ pc[p] = "attach"
  /\ \/ p = Server /\ Goto(p, "cleanup") /\ UNCHANGED queue
     \/ /\ p # Server /\ Listening /\ addr[p] = ServerAddr /\ Len(queue) < Backlog
        /\ Goto(p, "cleanup") /\ queue' = Append(queue, From(p))
     \/ Goto(p, "cleanup") /\ UNCHANGED queue
  /\ UNCHANGED <<addr, fds, listp, conn, ended>>

\* connect reaches a server that listens and has room, or fails; bind may
\* fail, and setsockopt before it is not looked at.
Attach(p) ==
  /\ pc[p] = "attach"
  /\ \/ p = Server /\ Goto(p, "cleanup") /\ UNCHANGED queue
     \/ /\ p # Server /\ Listening /\ addr[p] = ServerAddr /\ Len(queue) < Backlog
        /\ Goto(p, "cleanup") /\ queue' = Append(queue, From(p))
     \/ Goto(p, "close") /\ UNCHANGED queue
  /\ UNCHANGED <<addr, fds, listp, conn, ended>>

\* A mistake: the descriptor that could not be attached is kept.
CloseAttemptForgotten(p) ==
  /\ pc[p] = "close"
  /\ addr' = [addr EXCEPT ![p] = @ + 1] /\ Goto(p, "walk")
  /\ UNCHANGED <<fds, listp, queue, conn, ended>>

\* The descriptor is closed and the next address tried; where close reports an
\* error (the descriptor is gone all the same) the call returns -1.
CloseAttempt(p) ==
  /\ pc[p] = "close"
  /\ fds' = [fds EXCEPT ![p] = @ - 1]
  /\ addr' = [addr EXCEPT ![p] = @ + 1]
  /\ \E fails \in CloseFails : Goto(p, IF fails THEN "failed" ELSE "walk")
  /\ UNCHANGED <<listp, queue, conn, ended>>

\* freeaddrinfo; then open_clientfd returns and open_listenfd listens.
CleanUp(p) ==
  /\ pc[p] \in {"cleanup", "cleanup-failed"}
  /\ listp' = listp \ {p}
  /\ Goto(p, IF pc[p] = "cleanup-failed" THEN "failed"
             ELSE IF p = Server THEN "listen" ELSE "open")
  /\ UNCHANGED <<addr, fds, queue, conn, ended>>

\* listen; a socket that cannot listen is closed.
Listen ==
  /\ pc[Server] = "listen"
  /\ \/ Goto(Server, "accept") /\ UNCHANGED fds
     \/ Goto(Server, "failed") /\ fds' = [fds EXCEPT ![Server] = @ - 1]
  /\ UNCHANGED <<addr, listp, queue, conn, ended>>

-----------------------------------------------------------------------------
(* tiny's main, from Open_listenfd on.                                     *)

\* exit closes the server's descriptors: whoever waits or is served meets the
\* end of its connection.
Exit ==
  /\ Goto(Server, "exited")
  /\ fds' = [fds EXCEPT ![Server] = 0]
  /\ listp' = listp \ {Server}
  /\ queue' = <<>> /\ conn' = Nobody
  /\ ended' = ended \union {c \in Clients : Live(c)}
  /\ UNCHANGED addr

\* The error exits of Open_listenfd, Accept, Getnameinfo and Close.
WrapperExits ==
  /\ pc[Server] \in {"failed", "accept", "name", "closing"}
  /\ Exit

\* accept: the oldest connection that waits, whether or not its client is there.
Accept ==
  /\ pc[Server] = "accept" /\ queue # <<>>
  /\ conn' = Head(queue) /\ queue' = Tail(queue)
  /\ fds' = [fds EXCEPT ![Server] = @ + 1]
  /\ Goto(Server, "name")
  /\ UNCHANGED <<addr, listp, ended>>

Getnameinfo ==
  /\ pc[Server] = "name" /\ Goto(Server, "doit")
  /\ UNCHANGED <<addr, fds, listp, queue, conn, ended>>

\* doit returns.
Doit ==
  /\ pc[Server] = "doit" /\ Goto(Server, "closing")
  /\ UNCHANGED <<addr, fds, listp, queue, conn, ended>>

\* Close: a client that is still there meets the end of its connection.
CloseConn ==
  /\ pc[Server] = "closing"
  /\ fds' = [fds EXCEPT ![Server] = @ - 1] /\ conn' = Nobody
  /\ ended' = IF conn.end = "open" THEN ended \union {conn.by} ELSE ended
  /\ Goto(Server, "accept")
  /\ UNCHANGED <<addr, listp, queue>>

-----------------------------------------------------------------------------
(* The clients.                                                            *)

\* What becomes of a connection when client c closes its end.
HungUp(k, c) == IF k.by = c THEN [k EXCEPT !.end = "closed"] ELSE k

\* A client closes its end when it likes: while it waits, while it is served
\* or after.  The server still accepts and serves what it left behind.
Leave(c) ==
  /\ pc[c] = "open"
  /\ fds' = [fds EXCEPT ![c] = 0]
  /\ queue' = [i \in DOMAIN queue |-> HungUp(queue[i], c)]
  /\ conn' = HungUp(conn, c)
  /\ ended' = ended \ {c}
  /\ Goto(c, "start")
  /\ UNCHANGED <<addr, listp>>

\* open_clientfd said no: the client tries again.
Retry(c) ==
  /\ pc[c] = "failed"
  /\ Goto(c, "start")
  /\ UNCHANGED <<addr, fds, listp, queue, conn, ended>>

Walk(p) == Resolve(p) \/ Socket(p) \/ Attach(p) \/ CloseAttempt(p) \/ CleanUp(p)
Serve == Listen \/ Accept \/ Getnameinfo \/ Doit \/ CloseConn

Next ==
  \/ \E p \in Process : Walk(p)
  \/ Serve \/ WrapperExits
  \/ \E c \in Clients : Leave(c) \/ Retry(c)

\* A walk that has begun goes on.
GoesOn(p) == pc[p] # "start" /\ Walk(p)

\* The server goes on, and doit returns; a client need not call.
Spec == Init /\ [][Next]_vars /\ (\A p \in Process : WF_vars(GoesOn(p))) /\ WF_vars(Serve)

-----------------------------------------------------------------------------

TypeOK ==
  /\ pc \in [Process -> Places]
  /\ addr \in [Process -> 1 .. Addresses + 1]
  /\ fds \in [Process -> 0 .. 2]
  /\ listp \subseteq Process
  /\ queue \in Seq(Connection) /\ Len(queue) <= Backlog
  /\ conn \in Connection \union {Nobody} /\ ended \subseteq Clients

\* No walk, accept or failure leaks a descriptor: a call that fails leaves
\* none, one that succeeds leaves one, and tiny holds the listening socket and
\* at most the connection it serves, however many clients come and go.
DescriptorsCounted ==
  /\ \A p \in Process :
       /\ pc[p] \in {"start", "walk", "cleanup-failed", "failed", "exited"} => fds[p] = 0
       /\ pc[p] \in {"attach", "close", "cleanup", "open", "listen", "accept"} => fds[p] = 1
  /\ pc[Server] \in {"name", "doit", "closing"} => fds[Server] = 2

\* A client has at most one connection at whose end it is, and none that the
\* server has closed.
OneEnd ==
  /\ \A i, j \in DOMAIN queue : queue[i].end = "open" /\ queue[j].end = "open" /\ queue[i].by = queue[j].by => i = j
  /\ conn.end = "open" => ~Waits(conn.by)
  /\ \A c \in ended : ~Live(c)

\* The two sides agree although clients leave while they wait or are served and
\* connect again: a client holds a descriptor of open_clientfd exactly while one
\* connection of its own waits, is served or was closed by the server (what
\* connect refused is never handed out, what failed leaves no connection), and
\* tiny has a connection exactly from accept to Close.
Connected ==
  /\ \A c \in Clients : pc[c] \in {"cleanup", "open"} <=> Live(c) \/ c \in ended
  /\ OneEnd
  /\ conn # Nobody <=> pc[Server] \in {"name", "doit", "closing"}
  /\ queue # <<>> => Listening

\* Every client that waits is served, leaves, or finds that the server has
\* exited: the loop comes back to accept, also past connections left behind.
EveryoneServed ==
  \A c \in Clients : Waits(c) ~> (conn = From(c) \/ pc[c] = "start" \/ pc[Server] = "exited")
=============================================================================
