-------------------------- MODULE ConnectionPool --------------------------
(***************************************************************************)
(* The process-wide pool of keep-alive connections of PocketHTTP           *)
(* (pockethttp/core/Connection.cpp) together with the life cycle that each *)
(* CHTTPTransport object gives the connection it holds                     *)
(* (pockethttp/core/HTTPTransport.cpp) and the two platform mix-ins that   *)
(* open, use and close its socket (win32/httpBase.h, pocketpc/httpBase.h). *)
(*                                                                         *)
(* Transports run in different threads: a step is what a thread does       *)
(* between two points where another thread can see or change the pool, the *)
(* list nodes or the socket handles (one lock region, one socket call).    *)
(*                                                                         *)
(* A std::list node is named by its address: an erased node is memory that *)
(* push_back may hand out again, and that keeps its last contents until    *)
(* then, so a stale m_connection pointer reads those contents or aliases   *)
(* the node's next life.  In the same way a socket handle that was closed  *)
(* is one that socket() may return again.                                  *)
(***************************************************************************)
EXTENDS Naturals, Integers

CONSTANTS
  Transport,            \* the CHTTPTransport objects, each used by one thread
  Key,                  \* the ConnectionKeys the requests build (records)
  Addr,                 \* addresses of list nodes (bounds the pool's size)
  Handle,               \* socket handles the OS gives out
  NULL,                 \* the null m_connection pointer
  INVALID_SOCKET,       \* no socket
  DestroyOnDisconnect,  \* TRUE: win32 mix-in, FALSE: PocketPC mix-in
  TickMod,              \* GetTickCount() wraps at this value (2^32 in ms)
  SCAVANGE_INTERVAL,    \* Connection.cpp: 60000
  MAX_CONNECTION_AGE,   \* Connection.cpp: 600000
  StartTime,            \* uptime when the process starts
  MaxTime               \* bound: time does not advance past this

ASSUME PoolConstants ==
  /\ NULL \notin Addr
  /\ INVALID_SOCKET \notin Handle
  /\ DestroyOnDisconnect \in BOOLEAN
  /\ TickMod \in Nat \ {0}
  /\ SCAVANGE_INTERVAL \in Nat
  /\ MAX_CONNECTION_AGE \in Nat
  /\ MAX_CONNECTION_AGE < TickMod
  /\ StartTime \in Nat
  /\ MaxTime \in Nat
  /\ Key # {} /\ \A k \in Key : k.ssl \in BOOLEAN

VARIABLES
  pool,     \* m_pool: the addresses of the list's nodes
  node,     \* what the memory at each address holds
  os,       \* the OS's view of each handle, and where it was dialed to
  conn,     \* m_connection of each transport
  lease,    \* history: the node findConnection gave the transport, NULL once
            \* that node was erased or the pointer overwritten
  pc,       \* where the transport is in Send() / Read()
  want,     \* the ConnectionKey of the request being sent
  pooled,   \* usingPooledConn
  now,      \* real time, in the unit of GetTickCount
  lastScavange,
  since,    \* history: real time of the last returnToPool of a node
  astray    \* history: some step went through a pointer to an erased node

vars == <<pool, node, os, conn, lease, pc, want, pooled, now, lastScavange, since,
          astray>>
-----------------------------------------------------------------------------
(* ConnectionKey *)

\* A mutant of KeyEq: the ssl flag left out through a proxy
BugKeyEqNoTunnel(a, b) ==
  /\ a.auth = b.auth /\ a.px = b.px /\ a.pxport = b.pxport
  /\ a.px = 0 => a.addr = b.addr /\ a.port = b.port /\ a.ssl = b.ssl

\* operator == on keys; px = 0 is a direct connection
KeyEq(a, b) ==
  /\ a.auth = b.auth
  /\ \/ /\ a.px = 0 /\ b.px = 0
        /\ a.addr = b.addr /\ a.port = b.port /\ a.ssl = b.ssl
     \/ /\ a.px # 0 /\ b.px # 0
        /\ a.px = b.px /\ a.pxport = b.pxport
        /\ \/ ~a.ssl /\ ~b.ssl
           \/ a.ssl /\ b.ssl /\ a.target = b.target /\ a.port = b.port

\* What a new connection for a key is wired to: the address connect() dials
\* (populateSockAddr) and, through a proxy with SSL, the CONNECT tunnel's end
Route(k) ==
  IF k.px = 0
  THEN [at |-> k.addr, port |-> k.port, ssl |-> k.ssl, target |-> 0, tport |-> 0]
  ELSE [at |-> k.px, port |-> k.pxport, ssl |-> k.ssl,
        target |-> IF k.ssl THEN k.target ELSE 0,
        tport  |-> IF k.ssl THEN k.port ELSE 0]

\* ConstructConnectionKey, of a request r to a server and port, through a proxy or not
NoProxy == 0
ConstructConnectionKey(r) ==
  IF r.proxy = NoProxy
  THEN [auth |-> r.auth, ssl |-> r.ssl, addr |-> r.server, port |-> r.port,
        px |-> 0, pxport |-> 0, target |-> 0]
  ELSE [auth |-> r.auth, ssl |-> r.ssl, addr |-> 0, port |-> r.port,
        px |-> r.proxy, pxport |-> r.proxyPort, target |-> IF r.ssl THEN r.server ELSE 0]

Node == [key : Key, inUse : BOOLEAN, socket : Handle \cup {INVALID_SOCKET},
         used : 0 .. TickMod - 1]
Socket == [st : {"closed", "up", "down"}, to : {Route(k) : k \in Key}]
PC == {"idle", "tidy", "find", "connect", "post", "send", "body", "recv", "drop"}

TypeOK ==
  /\ pool \subseteq Addr
  /\ node \in [Addr -> Node]
  /\ os \in [Handle -> Socket]
  /\ conn \in [Transport -> Addr \cup {NULL}]
  /\ lease \in [Transport -> Addr \cup {NULL}]
  /\ pc \in [Transport -> PC]
  /\ want \in [Transport -> Key]
  /\ pooled \in [Transport -> BOOLEAN]
  /\ now \in Nat
  /\ lastScavange \in 0 .. TickMod - 1
  /\ since \in [Addr -> Nat]
  /\ astray \in BOOLEAN

SomeKey == CHOOSE k \in Key : TRUE
BugTick == now            \* mutant: a counter that does not wrap
Tick == now % TickMod     \* GetTickCount()

Init ==
  /\ pool = {}
  /\ node = [a \in Addr |-> [key |-> SomeKey, inUse |-> FALSE,
                             socket |-> INVALID_SOCKET, used |-> 0]]
  /\ os = [h \in Handle |-> [st |-> "closed", to |-> Route(SomeKey)]]
  /\ conn = [t \in Transport |-> NULL]
  /\ lease = [t \in Transport |-> NULL]
  /\ pc = [t \in Transport |-> "idle"]
  /\ want = [t \in Transport |-> SomeKey]
  /\ pooled = [t \in Transport |-> FALSE]
  /\ now = StartTime
  /\ lastScavange = StartTime % TickMod
  /\ since = [a \in Addr |-> 0]
  /\ astray = FALSE
-----------------------------------------------------------------------------
\* A step of t goes through m_connection
Deref(t) == astray' = (astray \/ lease[t] # conn[t])

(* Closing: the handle as the OS sees it after closesocket(h). Closing a    *)
(* handle that is not open is an error the code ignores.                    *)
Closed(h) ==
  IF h = INVALID_SOCKET THEN os ELSE [os EXCEPT ![h].st = "closed"]

\* Does Disconnect() on the node at a erase it from the list? Only win32's
\* calls destroyConnection, and only when it had a socket to close
Destroys(a) ==
  DestroyOnDisconnect /\ node[a].socket # INVALID_SOCKET /\ a \in pool

\* httpTransportBase::Disconnect, called through the pointer of transport t
\* (destroyConnection erases the node whoever else has its address)
Disconnect(t) ==
  LET a == conn[t] IN
  /\ os' = Closed(node[a].socket)
  /\ node' = [node EXCEPT ![a].socket = INVALID_SOCKET]
  /\ pool' = IF Destroys(a) THEN pool \ {a} ELSE pool

\* The leases that survive Disconnect(t)
LeaseAfterDisconnect(t) ==
  [u \in Transport |->
     IF Destroys(conn[t]) /\ lease[u] = conn[t] THEN NULL ELSE lease[u]]

\* m_connection->Disconnect() and the pointer is kept
DisconnectKeep(t) ==
  Disconnect(t) /\ lease' = LeaseAfterDisconnect(t) /\ UNCHANGED conn

\* m_connection->Disconnect() ; m_connection = 0
DisconnectClear(t) ==
  /\ Disconnect(t)
  /\ lease' = [LeaseAfterDisconnect(t) EXCEPT ![t] = NULL]
  /\ conn' = [conn EXCEPT ![t] = NULL]
-----------------------------------------------------------------------------
(* The pool's operations, each inside m_lock *)

\* ConnectionOk: select() says there is nothing to read. A peer that closed
\* ("down"), or a handle that is no socket, is reported readable.
ConnectionOk(a) ==
  /\ node[a].socket # INVALID_SOCKET
  /\ os[node[a].socket].st = "up"

\* Mutant of Reusable: inUse is not looked at
BugReusable(k) == {a \in pool : KeyEq(k, node[a].key) /\ ConnectionOk(a)}

Reusable(k) ==
  {a \in pool : ~node[a].inUse /\ KeyEq(k, node[a].key) /\ ConnectionOk(a)}

\* findConnection hands the node at a to transport t
HandOut(t, a) ==
  /\ conn' = [conn EXCEPT ![t] = a]
  /\ lease' = [lease EXCEPT ![t] = a]

\* findConnection finds an idle connection with an equal key that still works
FindPooled(t) ==
  /\ pc[t] = "find"
  /\ \E a \in Reusable(want[t]) :
       /\ node' = [node EXCEPT ![a].inUse = TRUE]
       /\ HandOut(t, a)
  /\ pooled' = [pooled EXCEPT ![t] = TRUE]
  /\ pc' = [pc EXCEPT ![t] = "send"]
  /\ UNCHANGED <<pool, os, want, now, lastScavange, since, astray>>

\* findConnection pushes a new node, without a socket, at an unused address
FindNew(t) ==
  /\ pc[t] = "find"
  /\ Reusable(want[t]) = {}
  /\ \E a \in Addr \ pool :
       /\ pool' = pool \cup {a}
       /\ node' = [node EXCEPT ![a] = [key |-> want[t], inUse |-> TRUE,
                                       socket |-> INVALID_SOCKET, used |-> 0]]
       /\ HandOut(t, a)
  /\ pooled' = [pooled EXCEPT ![t] = FALSE]
  /\ pc' = [pc EXCEPT ![t] = "connect"]
  /\ UNCHANGED <<os, want, now, lastScavange, since, astray>>

\* Mutant of ScavangeDue: the age of an entry in place of the interval
BugScavangeDue == Tick > (lastScavange + MAX_CONNECTION_AGE) % TickMod

\* c->used > m_lastScavange + SCAVANGE_INTERVAL, in DWORDs
ScavangeDue == Tick > (lastScavange + SCAVANGE_INTERVAL) % TickMod

\* Mutant of OldestKept: one tick too young
BugOldestKept == (Tick - MAX_CONNECTION_AGE + 1) % TickMod

\* m_lastScavange - MAX_CONNECTION_AGE, in DWORDs
OldestKept == (Tick - MAX_CONNECTION_AGE) % TickMod

\* Mutant of Scavanged: only the entry just returned is considered
BugScavanged(a) == IF ScavangeDue /\ Tick < OldestKept THEN {a} ELSE {}

\* The entries scavangeConnections erases, the connection at a being already
\* marked as returned
Scavanged(a) ==
  IF ScavangeDue
  THEN {b \in pool : \/ b = a /\ Tick < OldestKept
                     \/ b # a /\ ~node[b].inUse /\ node[b].used < OldestKept}
  ELSE {}

\* returnToPool(m_connection), with the scavenging it may do: an erased node's
\* destructor disconnects it
ReturnToPool(a) ==
  LET gone == Scavanged(a) IN
  /\ node' = [b \in Addr |->
       [node[b] EXCEPT !.inUse  = IF b = a THEN FALSE ELSE @,
                       !.used   = IF b = a THEN Tick ELSE @,
                       !.socket = IF b \in gone THEN INVALID_SOCKET ELSE @]]
  /\ pool' = pool \ gone
  /\ os' = [h \in Handle |->
       IF \E b \in gone : node[b].socket = h THEN [os[h] EXCEPT !.st = "closed"]
                                             ELSE os[h]]
  /\ lastScavange' = IF ScavangeDue THEN Tick ELSE lastScavange
  /\ since' = [since EXCEPT ![a] = now]
-----------------------------------------------------------------------------
(* CHTTPTransport::Send *)

\* The application calls Send; it may do so before it has read the whole
\* response of the request before
Send(t) ==
  /\ pc[t] \in {"idle", "recv"}
  /\ \E k \in Key : want' = [want EXCEPT ![t] = k]
  /\ pc' = [pc EXCEPT ![t] = "tidy"]
  /\ UNCHANGED <<pool, node, os, conn, lease, pooled, now, lastScavange, since, astray>>

\* top of the retry loop: "tidy up from last time around"
Tidy(t) ==
  /\ pc[t] = "tidy"
  /\ IF conn[t] = NULL
     THEN UNCHANGED <<pool, node, os, conn, lease, astray>>
     ELSE DisconnectKeep(t) /\ Deref(t)
  /\ pc' = [pc EXCEPT ![t] = "find"]
  /\ UNCHANGED <<want, pooled, now, lastScavange, since>>

\* socket() gives a handle and connect() succeeds or fails; a connection that
\* failed keeps its unconnected socket
Connect(t) ==
  /\ pc[t] = "connect"
  /\ Deref(t)
  /\ \E h \in Handle, ok \in BOOLEAN :
       /\ os[h].st = "closed"
       /\ os' = [os EXCEPT ![h] = [st |-> IF ok THEN "up" ELSE "down",
                                   to |-> Route(node[conn[t]].key)]]
       /\ node' = [node EXCEPT ![conn[t]].socket = h]
       /\ pc' = [pc EXCEPT ![t] = IF ~ok THEN "idle"
                                  ELSE IF node[conn[t]].key.ssl THEN "post"
                                  ELSE "send"]
  /\ UNCHANGED <<pool, conn, lease, want, pooled, now, lastScavange, since>>

\* PostConnect: the CONNECT tunnel and the SSL handshake. A failure leaves the
\* connected socket in the node.
PostConnect(t) ==
  /\ pc[t] = "post"
  /\ Deref(t)
  /\ \E ok \in BOOLEAN : pc' = [pc EXCEPT ![t] = IF ok THEN "send" ELSE "idle"]
  /\ UNCHANGED <<pool, node, os, conn, lease, want, pooled, now, lastScavange, since>>

\* socket() itself fails
SocketFails(t) ==
  /\ pc[t] = "connect"
  /\ Deref(t)
  /\ pc' = [pc EXCEPT ![t] = "idle"]
  /\ UNCHANGED <<pool, node, os, conn, lease, want, pooled, now, lastScavange, since>>

\* the first packet is accepted; the rest of the body follows
SendFirst(t) ==
  /\ pc[t] = "send"
  /\ Deref(t)
  /\ LET h == node[conn[t]].socket IN
       h # INVALID_SOCKET /\ os[h].st # "closed"
  /\ pc' = [pc EXCEPT ![t] = "body"]
  /\ UNCHANGED <<pool, node, os, conn, lease, want, pooled, now, lastScavange, since>>

\* the loop that sends what is left of the body ends
SendRest(t) ==
  /\ pc[t] = "body"
  /\ Deref(t)
  /\ pc' = [pc EXCEPT ![t] = "recv"]
  /\ UNCHANGED <<pool, node, os, conn, lease, want, pooled, now, lastScavange, since>>

\* SendChunk of the PocketPC mix-in, when WriteWithSelect fails or times out: the
\* handle is closed and its value stays in the node
HandleClosed(t) ==
  os' = Closed(node[conn[t]].socket) /\ UNCHANGED <<pool, node, conn, lease>>

\* Mutant of SendFails: usingPooledConn is not tested before the retry
BugSendFails(t) ==
  /\ pc[t] \in {"send", "body"}
  /\ Deref(t)
  /\ IF DestroyOnDisconnect
     THEN DisconnectKeep(t)
     ELSE HandleClosed(t)
  /\ pc' = [pc EXCEPT ![t] = IF @ = "send" THEN "tidy" ELSE "idle"]
  /\ UNCHANGED <<want, pooled, now, lastScavange, since>>

\* SendChunk fails (reset, timeout). win32: it calls Disconnect(), which erases
\* the node, and m_connection still points there. Only the first packet on a pooled
\* connection is retried. SetupSSLProxy sends its CONNECT in the same way.
SendFails(t) ==
  /\ \/ pc[t] \in {"send", "body"}
     \/ pc[t] = "post" /\ node[conn[t]].key.px # 0
  /\ Deref(t)
  /\ IF DestroyOnDisconnect
     THEN DisconnectKeep(t)
     ELSE HandleClosed(t)
  /\ pc' = [pc EXCEPT ![t] = IF @ = "send" /\ pooled[t] THEN "tidy" ELSE "idle"]
  /\ UNCHANGED <<want, pooled, now, lastScavange, since>>
-----------------------------------------------------------------------------
(* CHTTPTransport::Receive and InternalRead *)

\* Response() after a Send or a read that failed: ReceiveImpl checks only that
\* there is a connection with a socket
Receive(t) ==
  /\ pc[t] = "idle" /\ conn[t] # NULL
  /\ Deref(t)
  /\ node[conn[t]].socket # INVALID_SOCKET
  /\ pc' = [pc EXCEPT ![t] = "recv"]
  /\ UNCHANGED <<pool, node, os, conn, lease, want, pooled, now, lastScavange, since>>

\* The end of the body: the connection is closed or returned to the pool. A
\* handle that is not a socket any more also reads as the end (WSAENOTSOCK).
ReadDone(t) ==
  /\ pc[t] = "recv"
  /\ Deref(t)
  /\ \/ DisconnectClear(t) /\ UNCHANGED <<lastScavange, since>>
     \/ /\ ReturnToPool(conn[t])
        /\ conn' = [conn EXCEPT ![t] = NULL]
        /\ lease' = [u \in Transport |->
             IF u = t \/ lease[u] \in Scavanged(conn[t]) THEN NULL ELSE lease[u]]
  /\ pc' = [pc EXCEPT ![t] = "idle"]
  /\ UNCHANGED <<want, pooled, now>>

\* PocketPC, SSL: the read timed out; the handle is closed, not invalidated
ReadTimesOut(t) ==
  /\ pc[t] = "recv"
  /\ Deref(t)
  /\ ~DestroyOnDisconnect /\ node[conn[t]].key.ssl
  /\ os' = Closed(node[conn[t]].socket)
  /\ pc' = [pc EXCEPT ![t] = "drop"]
  /\ UNCHANGED <<pool, node, conn, lease, want, pooled, now, lastScavange, since>>

\* recv failed: Disconnect(), the pointer is kept, the error is returned
ReadFails(t) ==
  /\ pc[t] \in {"recv", "drop"}
  /\ Deref(t)
  /\ DisconnectKeep(t)
  /\ pc' = [pc EXCEPT ![t] = "idle"]
  /\ UNCHANGED <<want, pooled, now, lastScavange, since>>

\* Mutant of Resend: m_connection = 0 without Disconnect()
BugResend(t) ==
  /\ pc[t] = "recv"
  /\ Deref(t)
  /\ conn' = [conn EXCEPT ![t] = NULL]
  /\ lease' = [lease EXCEPT ![t] = NULL]
  /\ \E k \in Key : want' = [want EXCEPT ![t] = k]
  /\ pc' = [pc EXCEPT ![t] = "tidy"]
  /\ UNCHANGED <<pool, node, os, pooled, now, lastScavange, since>>

\* OnRedirect, OnServerAuth, OnProxyAuth: drop the connection and send again,
\* a redirect to another key
Resend(t) ==
  /\ pc[t] = "recv"
  /\ Deref(t)
  /\ DisconnectClear(t)
  /\ \E k \in Key : want' = [want EXCEPT ![t] = k]
  /\ pc' = [pc EXCEPT ![t] = "tidy"]
  /\ UNCHANGED <<pooled, now, lastScavange, since>>

\* ~CHTTPTransport (another object then takes the name t)
Destroy(t) ==
  /\ pc[t] \in {"idle", "recv"}
  /\ Deref(t)
  /\ conn[t] # NULL
  /\ DisconnectClear(t)
  /\ pc' = [pc EXCEPT ![t] = "idle"]
  /\ UNCHANGED <<want, pooled, now, lastScavange, since>>
-----------------------------------------------------------------------------
(* The environment *)

\* the peer closes or resets a connection, or sends what nobody asked for
PeerCloses(h) ==
  /\ os[h].st = "up"
  /\ os' = [os EXCEPT ![h].st = "down"]
  /\ UNCHANGED <<pool, node, conn, lease, pc, want, pooled, now, lastScavange, since, astray>>

TimePasses ==
  /\ now < MaxTime
  /\ now' = now + 1
  /\ UNCHANGED <<pool, node, os, conn, lease, pc, want, pooled, lastScavange, since, astray>>

\* The steps Send() takes once the application has called it
SendStep(t) ==
  \/ Tidy(t) \/ FindPooled(t) \/ FindNew(t) \/ Connect(t) \/ SocketFails(t)
  \/ PostConnect(t) \/ SendFirst(t) \/ SendRest(t) \/ SendFails(t)

TransportStep(t) ==
  \/ Send(t) \/ SendStep(t)
  \/ Receive(t) \/ ReadDone(t) \/ ReadTimesOut(t) \/ ReadFails(t) \/ Resend(t) \/ Destroy(t)

Next ==
  \/ \E t \in Transport : TransportStep(t)
  \/ \E h \in Handle : PeerCloses(h)
  \/ TimePasses

Spec == Init /\ [][Next]_vars

\* A thread inside Send() is scheduled until Send returns; select() bounds each
\* of its socket calls by m_timeout
FairSpec == Spec /\ \A t \in Transport : WF_vars(SendStep(t))
-----------------------------------------------------------------------------
(* Properties *)

\* Without destroyConnection in Disconnect() (PocketPC) a pointer a transport
\* keeps after a failure never outlives the list node it points to.
NeverStale == ~DestroyOnDisconnect => ~astray

\* No two transports hold the same connection: findConnection marks a node in
\* use before another thread can look, and gives up no node twice.
PtrExclusive ==
  \A t, u \in Transport : conn[t] = conn[u] /\ conn[t] # NULL => t = u

\* The same of the nodes findConnection gave out, as long as no thread has
\* followed a pointer to an erased node: stale pointers are the only way two
\* requests can come to share a connection.
ExclusiveLease ==
  ~astray => \A t, u \in Transport : lease[t] = lease[u] /\ lease[t] # NULL => t = u

\* A connection in some transport's hands is in the list and marked in use, so
\* neither findConnection nor the scavenger touches it.
LeasedInUse ==
  ~astray => \A t \in Transport :
               lease[t] # NULL => lease[t] \in pool /\ node[lease[t]].inUse

\* A request travels on a socket dialed to where that request has to go, with
\* the credentials it has: key comparison, reuse, redirects and the reuse of
\* socket handles together never send it down another connection.
RightEndpoint ==
  ~astray => \A t \in Transport :
    LET n == node[conn[t]] IN
    /\ pc[t] \in {"send", "body", "recv"}
    /\ n.socket # INVALID_SOCKET
    => /\ n.key.auth = want[t].auth
       /\ os[n.socket].to = Route(want[t])

\* Every open socket is idle in the pool, where the scavenger finds it, or in
\* the hands of a transport: none is lost on an error, retry or redirect path.
SocketsAccountedFor ==
  ~astray => \A h \in Handle : os[h].st # "closed" =>
    \E a \in pool : /\ node[a].socket = h
                    /\ ~node[a].inUse \/ \E t \in Transport : lease[t] = a

\* Once the tick counter is past MAX_CONNECTION_AGE (until then a subtraction wraps),
\* the scavenger erases only connections idle for longer than that, never the one just
\* returned, while other threads use the list; and when it runs it leaves none as old that
\* was returned since the counter's last wrap.
Old(a) == now - since'[a] > MAX_CONNECTION_AGE
Scavanges ==
  [][Tick >= MAX_CONNECTION_AGE =>
       /\ \A a \in pool \ pool' : ~astray' /\ ~node'[a].inUse => Old(a)
       /\ lastScavange' # lastScavange =>
            \A a \in pool' : ~node'[a].inUse /\ now - since'[a] <= Tick => ~Old(a)]_vars

\* Idle connections "get scavanged away eventually": until the counter wraps,
\* no entry is idle for longer than MAX_CONNECTION_AGE plus one SCAVANGE_INTERVAL
\* after any return.
IdleAgeBounded ==
  [][(\E a \in pool : node[a].inUse /\ ~node'[a].inUse) /\ now < TickMod =>
       \A a \in pool' : ~astray' /\ ~node'[a].inUse
         => now - since'[a] <= MAX_CONNECTION_AGE + SCAVANGE_INTERVAL]_vars

\* The retry loop of Send() ends: a transport stays in it for ever only if others
\* keep putting back connections whose peers then close them, that is, only if
\* other requests complete for ever (or the model runs out of list nodes, its bound).
SendReturns ==
  \A t \in Transport :
    \/ []<>(\/ pc[t] \in {"idle", "recv"}
            \/ pc[t] = "find" /\ pool = Addr /\ Reusable(want[t]) = {})
    \/ []<><<\E u \in Transport \ {t} : pc[u] = "recv" /\ pc'[u] = "idle">>_vars
=============================================================================
