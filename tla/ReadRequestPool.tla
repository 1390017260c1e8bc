-------------------------- MODULE ReadRequestPool --------------------------
(***************************************************************************)
(* PocketPC reads SSL sockets on threads of a pool, so that the transport  *)
(* can give up waiting for them: ReadRequest, ReadRequestPool and          *)
(* ReadChunkWithMonitor of pockethttp/pocketpc/httpBase.h.                 *)
(*                                                                         *)
(* A step is a lock region, or one call or memory access outside the lock. *)
(* A ReadRequest is identified by its address, used again once it was      *)
(* deleted, and a socket by its handle, used again once it was closed.     *)
(***************************************************************************)
EXTENDS Integers, Sequences, FiniteSets

CONSTANTS
  Callers,     \* threads that read from a transport of their own
  Workers,     \* threads the pool may create
  Requests,    \* addresses of ReadRequests
  Handles,     \* socket handles
  NULL,        \* no request, no socket
  Patient      \* no answer takes longer than the timeout

ASSUME ReadPoolConstants ==
  /\ IsFiniteSet(Callers) /\ IsFiniteSet(Workers) /\ Callers \cap Workers = {}
  /\ NULL \notin Requests \cup Handles
  /\ Patient \in BOOLEAN

VARIABLES
  work,        \* m_work
  signal,      \* m_dowork, an auto-reset event
  avail,       \* m_availableThreads
  wpc, wreq,   \* where each pool thread is in ThreadProc, and its r
  cpc, creq,   \* where each caller is in ReadChunkWithMonitor, and its r
  sock,        \* the socket of each caller's connection
  req,         \* the memory of each ReadRequest
  reg          \* what each thread loaded of r->rc in Release()

readVars == <<work, signal, avail, wpc, wreq, cpc, creq, sock, req, reg>>
Threads == Callers \cup Workers
-----------------------------------------------------------------------------
\* ReadRequest, with its rc, finishedEvent, result (whether recv returned) and s
Request == [rc : 0..2, finished : BOOLEAN, result : BOOLEAN, s : Handles \cup {NULL}]
Deleted == [rc |-> 0, finished |-> FALSE, result |-> FALSE, s |-> NULL]
\* A mutant: the pool's own reference is not counted
BugNew(h) == [rc |-> 1, finished |-> FALSE, result |-> FALSE, s |-> h]

\* A new one on socket h, after the AddRef() of StartRequest
New(h) == [rc |-> 2, finished |-> FALSE, result |-> FALSE, s |-> h]

Queued == {work[i] : i \in DOMAIN work}
Held == {creq[c] : c \in Callers} \cup {wreq[w] : w \in Workers} \cup Queued

\* Release(), --rc in two steps: what it loads is stale when the other holder
\* stores in between
Load(t, r) == reg' = [reg EXCEPT ![t] = req[r].rc]
Store(t, r) ==
  req' = [req EXCEPT ![r] = IF reg[t] = 1 THEN Deleted ELSE [@ EXCEPT !.rc = reg[t] - 1]]
-----------------------------------------------------------------------------
(* Callers: connecting and disconnecting, and ReadChunkWithMonitor *)

Connect(c) ==
  /\ cpc[c] = "idle" /\ sock[c] = NULL
  /\ \E h \in Handles \ {sock[d] : d \in Callers} : sock' = [sock EXCEPT ![c] = h]
  /\ UNCHANGED <<work, signal, avail, wpc, wreq, cpc, creq, req, reg>>

Disconnect(c) ==
  /\ cpc[c] = "idle" /\ sock[c] # NULL
  /\ sock' = [sock EXCEPT ![c] = NULL]
  /\ UNCHANGED <<work, signal, avail, wpc, wreq, cpc, creq, req, reg>>

\* StartRequest up to Unlock(): a thread is created when none is available.
\* Workers bounds the threads: the step waits when there are no more.
StartRequest(c) ==
  /\ cpc[c] = "idle" /\ sock[c] # NULL
  /\ \E r \in Requests :
       /\ req[r] = Deleted
       /\ req' = [req EXCEPT ![r] = New(sock[c])]
       /\ creq' = [creq EXCEPT ![c] = r]
       /\ work' = Append(work, r)
  /\ IF avail = 0
     THEN \E w \in Workers : wpc[w] = "none" /\ wpc' = [wpc EXCEPT ![w] = "wait"]
     ELSE UNCHANGED wpc
  /\ avail' = IF avail = 0 THEN 1 ELSE avail
  /\ cpc' = [cpc EXCEPT ![c] = "signal"]
  /\ UNCHANGED <<signal, wreq, sock, reg>>

\* SetEvent(m_dowork)
SetDoWork(c) ==
  /\ cpc[c] = "signal"
  /\ signal' = TRUE
  /\ cpc' = [cpc EXCEPT ![c] = "wait"]
  /\ UNCHANGED <<work, avail, wpc, wreq, creq, sock, req, reg>>

\* A mutant: a read that has begun is waited for
BugTimesOut(c) ==
  /\ cpc[c] = "wait" /\ creq[c] \in Queued /\ ~Patient
  /\ sock' = [sock EXCEPT ![c] = NULL]
  /\ cpc' = [cpc EXCEPT ![c] = "timedout"]
  /\ UNCHANGED <<work, signal, avail, wpc, wreq, creq, req, reg>>

\* WaitForSingleObject on finishedEvent: it is set, or the timeout passes
Answered(c) ==
  /\ cpc[c] = "wait" /\ req[creq[c]].finished
  /\ cpc' = [cpc EXCEPT ![c] = "answered"]
  /\ UNCHANGED <<work, signal, avail, wpc, wreq, creq, sock, req, reg>>

TimesOut(c) ==
  /\ cpc[c] = "wait" /\ ~req[creq[c]].finished /\ ~Patient
  /\ sock' = [sock EXCEPT ![c] = NULL]
  /\ cpc' = [cpc EXCEPT ![c] = "timedout"]
  /\ UNCHANGED <<work, signal, avail, wpc, wreq, creq, req, reg>>

CallerLoads(c) ==
  /\ cpc[c] \in {"answered", "timedout"}
  /\ Load(c, creq[c])
  /\ cpc' = [cpc EXCEPT ![c] = "store"]
  /\ UNCHANGED <<work, signal, avail, wpc, wreq, creq, sock, req>>

\* The call returns, and its buffer is its caller's again
CallerStores(c) ==
  /\ cpc[c] = "store"
  /\ Store(c, creq[c])
  /\ reg' = [reg EXCEPT ![c] = 0]
  /\ creq' = [creq EXCEPT ![c] = NULL]
  /\ cpc' = [cpc EXCEPT ![c] = "idle"]
  /\ UNCHANGED <<work, signal, avail, wpc, wreq, sock>>
-----------------------------------------------------------------------------
(* ThreadProc *)

Goto(w, place) == wpc' = [wpc EXCEPT ![w] = place]

\* A mutant: the event is not reset by the wait
BugWake(w) ==
  /\ wpc[w] = "wait" /\ signal
  /\ Goto(w, "woken")
  /\ UNCHANGED <<work, signal, avail, wreq, cpc, creq, sock, req, reg>>

\* WaitForSingleObject on m_dowork: it resets the event, or a minute passes
Wake(w) ==
  /\ wpc[w] = "wait" /\ signal
  /\ signal' = FALSE
  /\ Goto(w, "woken")
  /\ UNCHANGED <<work, avail, wreq, cpc, creq, sock, req, reg>>

IdleTimeout(w) ==
  /\ wpc[w] = "wait" /\ ~signal
  /\ Goto(w, "minute")
  /\ UNCHANGED <<work, signal, avail, wreq, cpc, creq, sock, req, reg>>

\* "if there are other worker threads still available let this one go"
LetsGo == avail > 1
LetGo(w) ==
  /\ wpc[w] = "minute"
  /\ IF LetsGo THEN Goto(w, "none") /\ avail' = avail - 1
               ELSE Goto(w, "wait") /\ UNCHANGED avail
  /\ UNCHANGED <<work, signal, wreq, cpc, creq, sock, req, reg>>

\* The lock region that takes a request (WakeFindsWork: there is one)
Take(w) ==
  /\ wpc[w] = "woken" /\ work # <<>>
  /\ avail' = avail - 1
  /\ wreq' = [wreq EXCEPT ![w] = Head(work)]
  /\ work' = Tail(work)
  /\ Goto(w, "taken")
  /\ UNCHANGED <<signal, cpc, creq, sock, req, reg>>

\* recv() looks its handle up, and returns: with data, or with an error when the
\* socket is closed.  It need not return soon, or at all, on a closed socket.
RecvBegins(w) ==
  /\ wpc[w] = "taken"
  /\ Goto(w, "recv")
  /\ UNCHANGED <<work, signal, avail, wreq, cpc, creq, sock, req, reg>>

RecvReturns(w) ==
  /\ wpc[w] = "recv"
  /\ req' = [req EXCEPT ![wreq[w]].result = TRUE]
  /\ Goto(w, "read")
  /\ UNCHANGED <<work, signal, avail, wreq, cpc, creq, sock, reg>>

SetFinished(w) ==
  /\ wpc[w] = "read"
  /\ req' = [req EXCEPT ![wreq[w]].finished = TRUE]
  /\ Goto(w, "finished")
  /\ UNCHANGED <<work, signal, avail, wreq, cpc, creq, sock, reg>>

WorkerLoads(w) ==
  /\ wpc[w] = "finished"
  /\ Load(w, wreq[w])
  /\ Goto(w, "store")
  /\ UNCHANGED <<work, signal, avail, wreq, cpc, creq, sock, req>>

WorkerStores(w) ==
  /\ wpc[w] = "store"
  /\ Store(w, wreq[w])
  /\ reg' = [reg EXCEPT ![w] = 0]
  /\ wreq' = [wreq EXCEPT ![w] = NULL]
  /\ Goto(w, "back")
  /\ UNCHANGED <<work, signal, avail, cpc, creq, sock>>

\* A mutant: the thread forgets to count itself again
BugBack(w) ==
  /\ wpc[w] = "back"
  /\ Goto(w, "wait")
  /\ UNCHANGED <<work, signal, avail, wreq, cpc, creq, sock, req, reg>>

\* The lock region after it
Back(w) ==
  /\ wpc[w] = "back"
  /\ avail' = avail + 1
  /\ Goto(w, "wait")
  /\ UNCHANGED <<work, signal, wreq, cpc, creq, sock, req, reg>>
-----------------------------------------------------------------------------
ReadInit ==
  /\ work = <<>> /\ signal = FALSE /\ avail = 0
  /\ wpc = [w \in Workers |-> "none"] /\ wreq = [w \in Workers |-> NULL]
  /\ cpc = [c \in Callers |-> "idle"] /\ creq = [c \in Callers |-> NULL]
  /\ sock = [c \in Callers |-> NULL]
  /\ req = [r \in Requests |-> Deleted]
  /\ reg = [t \in Threads |-> 0]

\* What a thread does without waiting for anyone but the peer or a timeout
CallGoesOn(c) == SetDoWork(c) \/ Answered(c) \/ TimesOut(c) \/ CallerLoads(c) \/ CallerStores(c)
WorkGoesOn(w) ==
  \/ Wake(w) \/ LetGo(w) \/ Take(w) \/ RecvBegins(w)
  \/ SetFinished(w) \/ WorkerLoads(w) \/ WorkerStores(w) \/ Back(w)

ReadNext ==
  \/ \E c \in Callers : Connect(c) \/ Disconnect(c) \/ StartRequest(c) \/ CallGoesOn(c)
  \/ \E w \in Workers : IdleTimeout(w) \/ RecvReturns(w) \/ WorkGoesOn(w)

ReadSpec == ReadInit /\ [][ReadNext]_readVars

\* The scheduler runs every thread that can run.  A recv() returns only if its
\* peer answers in time (Patient): otherwise the comment at the head of the file
\* expects "some abandoned threads".
FairReadSpec ==
  /\ ReadSpec
  /\ \A c \in Callers : WF_readVars(CallGoesOn(c))
  /\ \A w \in Workers : WF_readVars(WorkGoesOn(w)) /\ (Patient => WF_readVars(RecvReturns(w)))
-----------------------------------------------------------------------------
(* Properties *)

ReadTypeOK ==
  /\ work \in Seq(Requests) /\ signal \in BOOLEAN /\ avail \in Nat
  /\ wpc \in [Workers -> {"none", "wait", "minute", "woken", "taken", "recv", "read",
                          "finished", "store", "back"}]
  /\ wreq \in [Workers -> Requests \cup {NULL}]
  /\ cpc \in [Callers -> {"idle", "signal", "wait", "answered", "timedout", "store"}]
  /\ creq \in [Callers -> Requests \cup {NULL}]
  /\ sock \in [Callers -> Handles \cup {NULL}]
  /\ req \in [Requests -> Request]
  /\ reg \in [Threads -> 0..2]

\* A thread woken by m_dowork finds a request: m_work.front() is never called on
\* an empty queue, however the signals of several callers run together.
Woken == {w \in Workers : wpc[w] = "woken"}
Unsignalled == {c \in Callers : cpc[c] = "signal"}
WakeFindsWork ==
  Cardinality(Woken) + Cardinality(Unsignalled) + (IF signal THEN 1 ELSE 0) <= Len(work)

\* m_availableThreads counts the threads that wait for work or are about to take it.
Available == {w \in Workers : wpc[w] \in {"wait", "minute", "woken"}}
AvailExact == avail = Cardinality(Available)

\* No thread or queue holds a deleted ReadRequest, with the decrements of its two
\* holders interleaved in any way.
NoUseAfterFree == \A r \in Held \ {NULL} : req[r].rc > 0

\* Every read ends, by an answer or by the timeout.
CallReturns == \A c \in Callers : cpc[c] # "idle" ~> cpc[c] = "idle"
=============================================================================
