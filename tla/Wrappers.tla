------------------------------ MODULE Wrappers ------------------------------
(***************************************************************************)
(* The error-handling wrappers of webproxy-lab-main/csapp.c: a process     *)
(* that makes any sequence of calls through them while signals arrive at   *)
(* handlers installed by Signal.  A call's result is a class of values;    *)
(* errno is kept from call to call, as the system keeps it.                *)
(***************************************************************************)
EXTENDS Integers

VARIABLES
  status,    \* running, or how the process ended
  errno,     \* "0", "EINTR" or "EFAIL", any other error
  call,      \* the wrapper in progress, "none" between calls
  result,    \* what the library call gave: [value, failed, ferror]
  restart,   \* have handlers been installed with SA_RESTART?
  returned   \* did the last wrapper hand a failure to its caller?

vars == <<status, errno, call, result, restart, returned>>

\* The library calls by the way they report a failure (their manual pages).
Minus1 == {"Fork", "Wait", "Waitpid", "Kill", "Setpgid", "Signal", "Sigprocmask",
  "Sigemptyset", "Sigfillset", "Sigaddset", "Sigdelset", "Sigismember", "Open", "Read",
  "Write", "Lseek", "Close", "Select", "Dup2", "Stat", "Fstat", "Closedir", "Munmap",
  "Socket", "Setsockopt", "Bind", "Listen", "Accept", "Connect", "Sem_init", "P", "V"}
NullPointer == {"Opendir", "Malloc", "Realloc", "Calloc", "Fdopen", "Fopen",
  "Inet_ntop", "Gethostbyname", "Gethostbyaddr"}
ErrorNumber == {"Getaddrinfo", "Getnameinfo", "Pthread_create", "Pthread_cancel",
  "Pthread_join", "Pthread_detach"}
NeverFail == {"Getpgrp", "Alarm", "Free", "Freeaddrinfo", "Pthread_exit", "Pthread_self",
  "Pthread_once"}

R(value, failed) == [value |-> value, failed |-> failed, ferror |-> FALSE]

\* What each library call may give.  Sizes are not 0: realloc(p, 0) may return
\* NULL without failing.
Results(c) ==
  CASE c \in Minus1      -> {R("zero", FALSE), R("positive", FALSE), R("minus_one", TRUE)}
    [] c \in NullPointer -> {R("pointer", FALSE), R("NULL", TRUE)}
    [] c \in ErrorNumber -> {R("zero", FALSE), R("positive", TRUE)}
    [] c \in NeverFail   -> {R("positive", FALSE)}
    [] c = "Execve"      -> {R("minus_one", TRUE)}
    [] c = "Mmap"        -> {R("pointer", FALSE), R("minus_one", TRUE)}
    [] c = "Readdir"     -> {R("pointer", FALSE), R("NULL", FALSE), R("NULL", TRUE)}
    [] c = "Fclose"      -> {R("zero", FALSE), R("minus_one", TRUE)}
    [] c = "Fputs"       -> {R("positive", FALSE), R("minus_one", TRUE)}
    [] c = "Fwrite"      -> {R("full", FALSE), R("short", TRUE)}
    [] c = "Fgets"       -> {R("pointer", FALSE), R("NULL", FALSE),
                             [R("NULL", TRUE) EXCEPT !.ferror = TRUE]}
    [] c = "Fread"       -> {R("full", FALSE), R("short", FALSE),
                             [R("short", TRUE) EXCEPT !.ferror = TRUE]}
    [] c = "Inet_pton"   -> {R("positive", FALSE), R("zero", TRUE), R("minus_one", TRUE)}
    [] c = "Sleep"       -> {R("zero", FALSE), R("positive", FALSE)}
    [] c = "Pause"       -> {R("minus_one", FALSE)}
    [] c = "Sigsuspend"  -> {R("minus_one", FALSE), R("minus_one", TRUE)}

\* Calls a signal may cut short; with SA_RESTART the system starts most of them
\* again by itself.
Slow == {"Wait", "Waitpid", "Open", "Read", "Write", "Accept", "Connect", "Select", "P"}
NotRestarted == {"Select"}

-----------------------------------------------------------------------------
(* The tests of the wrappers, section by section: does it call an error    *)
(* function?                                                               *)

Negative(r) == r.value = "minus_one"
IsNull(r) == r.value = "NULL"

\* Sleep compares an unsigned value with 0.
ProcessControl(c, r) ==
  c \in {"Fork", "Execve", "Wait", "Waitpid", "Kill", "Setpgid"} /\ Negative(r)

\* Sigsuspend looks at errno, whose value the call has set.
Signals(c, r) ==
  \/ /\ c \in {"Signal", "Sigprocmask", "Sigemptyset", "Sigfillset", "Sigaddset",
               "Sigdelset", "Sigismember"}
     /\ Negative(r)
  \/ c = "Sigsuspend" /\ errno # "EINTR"

UnixIO(c, r) ==
  /\ c \in {"Open", "Read", "Write", "Lseek", "Close", "Select", "Dup2", "Stat", "Fstat"}
  /\ Negative(r)

Directories(c, r) ==
  \/ c = "Opendir" /\ IsNull(r)
  \/ c = "Readdir" /\ IsNull(r) /\ errno # "0"
  \/ c = "Closedir" /\ Negative(r)

Memory(c, r) ==
  \/ c \in {"Mmap", "Munmap"} /\ Negative(r)
  \/ c \in {"Malloc", "Realloc", "Calloc"} /\ IsNull(r)

\* A mistake: the end of a file is taken for an error.
StandardIOEndIsError(c, r) ==
  \/ c \in {"Fclose", "Fputs"} /\ Negative(r)
  \/ c \in {"Fdopen", "Fopen", "Fgets"} /\ IsNull(r)
  \/ c \in {"Fread", "Fwrite"} /\ r.value = "short"

StandardIO(c, r) ==
  \/ c \in {"Fclose", "Fputs"} /\ Negative(r)
  \/ c \in {"Fdopen", "Fopen"} /\ IsNull(r)
  \/ c = "Fgets" /\ IsNull(r) /\ r.ferror
  \/ c = "Fread" /\ r.value = "short" /\ r.ferror
  \/ c = "Fwrite" /\ r.value = "short"

Sockets(c, r) ==
  /\ c \in {"Socket", "Setsockopt", "Bind", "Listen", "Accept", "Connect"}
  /\ Negative(r)

\* A mistake: only -1 counts.
ProtocolIndependentNegative(c, r) ==
  \/ c \in {"Getaddrinfo", "Getnameinfo"} /\ Negative(r)
  \/ c = "Inet_ntop" /\ IsNull(r)
  \/ c = "Inet_pton" /\ r.value \in {"zero", "minus_one"}

ProtocolIndependent(c, r) ==
  \/ c \in {"Getaddrinfo", "Getnameinfo"} /\ r.value # "zero"
  \/ c = "Inet_ntop" /\ IsNull(r)
  \/ c = "Inet_pton" /\ r.value \in {"zero", "minus_one"}

Dns(c, r) == c \in {"Gethostbyname", "Gethostbyaddr"} /\ IsNull(r)

Threads(c, r) ==
  /\ c \in {"Pthread_create", "Pthread_cancel", "Pthread_join", "Pthread_detach"}
  /\ r.value # "zero"

Semaphores(c, r) == c \in {"Sem_init", "P", "V"} /\ Negative(r)

CallsError(c, r) ==
  \/ ProcessControl(c, r) \/ Signals(c, r) \/ UnixIO(c, r) \/ Directories(c, r)
  \/ Memory(c, r) \/ StandardIO(c, r) \/ Sockets(c, r) \/ ProtocolIndependent(c, r)
  \/ Dns(c, r) \/ Threads(c, r) \/ Semaphores(c, r)

-----------------------------------------------------------------------------

Wrapped == Minus1 \union NullPointer \union ErrorNumber \union NeverFail \union
  {"Execve", "Mmap", "Readdir", "Fclose", "Fputs", "Fwrite", "Fgets", "Fread",
   "Inet_pton", "Sleep", "Pause", "Sigsuspend"}

Init ==
  /\ status = "running" /\ errno = "0"
  /\ call = "none" /\ result = R("zero", FALSE)
  /\ restart = TRUE /\ returned = FALSE

\* A mistake: errno is left from an earlier call.
PrepareNothing(c) == errno

\* Readdir sets errno to 0 before it calls.
Prepare(c) == IF c = "Readdir" THEN "0" ELSE errno

\* The call is made.  A call that failed has set errno; one that did not may
\* leave anything there, but for readdir, which leaves it at its end.
LibraryCall(c) ==
  /\ status = "running" /\ call = "none"
  /\ call' = c
  /\ \E r \in Results(c) :
       /\ result' = r
       /\ errno' \in IF c = "Readdir" /\ r = R("NULL", FALSE) THEN {Prepare(c)}
                     ELSE IF c \in {"Pause", "Sigsuspend"} /\ ~r.failed THEN {"EINTR"}
                     ELSE IF r.failed THEN {"EFAIL"} ELSE {Prepare(c), "EFAIL"}
  /\ UNCHANGED <<status, restart, returned>>

\* A handler runs while the call waits: the system restarts the call, or the
\* call fails with EINTR.
Interrupted(c) ==
  /\ status = "running" /\ call = "none"
  /\ c \in Slow
  /\ ~restart \/ c \in NotRestarted
  /\ call' = c /\ result' = R("minus_one", TRUE) /\ errno' = "EINTR"
  /\ UNCHANGED <<status, restart, returned>>

\* A mistake: a handler installed without SA_RESTART.
InstallNoRestart ==
  /\ status = "running" /\ call = "Signal" /\ ~result.failed
  /\ restart' = FALSE
  /\ call' = "none" /\ returned' = FALSE
  /\ UNCHANGED <<status, errno, result>>

\* Signal installs the handler with SA_RESTART.
Install ==
  /\ status = "running" /\ call = "Signal" /\ ~result.failed
  /\ restart' = TRUE
  /\ call' = "none" /\ returned' = FALSE
  /\ UNCHANGED <<status, errno, result>>

\* The wrapper returns, or an error function prints and exits with status 0.
WrapperReturns ==
  /\ status = "running" /\ call \notin {"none", "Signal"}
  /\ ~CallsError(call, result)
  /\ returned' = result.failed
  /\ call' = "none"
  /\ UNCHANGED <<status, errno, result, restart>>
WrapperExits ==
  /\ status = "running" /\ call # "none"
  /\ CallsError(call, result)
  /\ status' = "exit_0"
  /\ UNCHANGED <<errno, call, result, restart, returned>>

\* A process that has ended stays so.
Idle == status # "running" /\ UNCHANGED vars

Next ==
  \/ \E c \in Wrapped : LibraryCall(c) \/ Interrupted(c)
  \/ Install \/ WrapperReturns \/ WrapperExits \/ Idle

Spec == Init /\ [][Next]_vars

-----------------------------------------------------------------------------

\* A caller of a wrapper need not test what it gets: no failed call, whichever
\* way its manual page says it reports the failure, comes back as a result.
FailureNeverReturned == ~returned \/ status # "running"

\* A wrapper ends the process only for a call that failed: neither the end of a
\* file or a directory nor an errno left from an earlier call does.
NoFalseAlarm == status = "exit_0" => result.failed

\* A signal that arrives at a handler installed by Signal ends the process only
\* in Select: every other wrapped call is restarted (csapp.c:158, "Restart
\* syscalls if possible").
SignalsAreSurvived == status = "exit_0" /\ errno = "EINTR" => call = "Select"
=============================================================================
