----------------------- MODULE ConnectionPoolProofs -----------------------
(***************************************************************************)
(* Machine-checked proofs about ConnectionPool, for every set of           *)
(* transports, keys, addresses and handles, on both platforms.             *)
(***************************************************************************)
EXTENDS ConnectionPool, TLAPS

\* A transport that is past findConnection has a connection.
PcHasConn ==
  \A t \in Transport :
    pc[t] \in {"connect", "post", "send", "body", "recv", "drop"} => conn[t] # NULL

TypeInv == TypeOK /\ PcHasConn

\* GetTickCount arithmetic stays in a DWORD.
LEMMA TickType ==
  ASSUME NEW n \in Int PROVE n % TickMod \in 0 .. TickMod - 1
BY PoolConstants

\* Some key exists, so the fillers of Init are of the right type.
LEMMA SomeKeyType == SomeKey \in Key
BY PoolConstants DEF SomeKey

\* The initial state is well typed.
LEMMA InitTypeInv == Init => TypeInv
<1> SUFFICES ASSUME Init PROVE TypeInv
  OBVIOUS
<1>1. lastScavange \in 0 .. TickMod - 1
  BY TickType, PoolConstants DEF Init
<1>2. 0 \in 0 .. TickMod - 1
  BY PoolConstants
<1>3. node \in [Addr -> Node]
  BY SomeKeyType, <1>2 DEF Init, Node
<1>4. os \in [Handle -> Socket]
  BY SomeKeyType DEF Init, Socket
<1> QED
  BY <1>1, <1>3, <1>4, SomeKeyType, PoolConstants DEF Init, TypeInv, TypeOK, PcHasConn, PC

\* Disconnect leaves memory, handles, list and leases well typed.
LEMMA DisconnectType ==
  ASSUME TypeOK, NEW t \in Transport, conn[t] \in Addr, Disconnect(t)
  PROVE  /\ os' \in [Handle -> Socket]
         /\ node' \in [Addr -> Node]
         /\ pool' \subseteq Addr
         /\ LeaseAfterDisconnect(t) \in [Transport -> Addr \cup {NULL}]
<1>1. node[conn[t]] \in Node
  BY DEF TypeOK
<1>2. os' \in [Handle -> Socket]
  BY <1>1 DEF TypeOK, Disconnect, Closed, Socket, Node
<1>3. node' \in [Addr -> Node]
  BY <1>1 DEF TypeOK, Disconnect, Node
<1> QED
  BY <1>2, <1>3 DEF TypeOK, Disconnect, LeaseAfterDisconnect

\* returnToPool, with its scavenging, leaves them well typed.
LEMMA ReturnType ==
  ASSUME TypeOK, NEW a \in Addr, ReturnToPool(a)
  PROVE  /\ os' \in [Handle -> Socket]
         /\ node' \in [Addr -> Node]
         /\ pool' \subseteq Addr
         /\ lastScavange' \in 0 .. TickMod - 1
         /\ since' \in [Addr -> Nat]
<1>1. Tick \in 0 .. TickMod - 1
  BY TickType DEF Tick, TypeOK
<1>2. node' \in [Addr -> Node]
  BY <1>1, ZenonT(60) DEF TypeOK, ReturnToPool, Node
<1>3. os' \in [Handle -> Socket]
  BY DEF TypeOK, ReturnToPool, Socket
<1> QED
  BY <1>1, <1>2, <1>3 DEF TypeOK, ReturnToPool

-----------------------------------------------------------------------------
\* Every step of Send() keeps the state well typed.
LEMMA SendStepType ==
  ASSUME TypeInv, NEW t \in Transport, SendStep(t)
  PROVE  TypeInv'
<1> USE DEF TypeInv
<1>1. CASE Tidy(t)
  <2>1. CASE conn[t] = NULL
    BY <1>1, <2>1 DEF Tidy, TypeOK, PcHasConn, PC
  <2>2. CASE conn[t] # NULL
    <3>1. conn[t] \in Addr
      BY <2>2 DEF TypeOK
    <3>2. Disconnect(t) /\ lease' = LeaseAfterDisconnect(t) /\ UNCHANGED conn
      BY <1>1, <2>2 DEF Tidy, DisconnectKeep
    <3>3. astray' \in BOOLEAN
      BY <1>1, <2>2 DEF Tidy, Deref, TypeOK
    <3> QED
      BY <1>1, <3>1, <3>2, <3>3, DisconnectType DEF Tidy, TypeOK, PcHasConn, PC
  <2> QED
    BY <2>1, <2>2
<1>2. CASE FindPooled(t)
  <2>1. PICK a \in Reusable(want[t]) :
          node' = [node EXCEPT ![a].inUse = TRUE] /\ HandOut(t, a)
    BY <1>2 DEF FindPooled
  <2>2. a \in Addr
    BY <2>1 DEF Reusable, TypeOK
  <2>3. node' \in [Addr -> Node]
    BY <2>1, <2>2 DEF TypeOK, Node
  <2> QED
    BY <1>2, <2>1, <2>2, <2>3, PoolConstants
    DEF FindPooled, HandOut, TypeOK, PcHasConn, PC
<1>3. CASE FindNew(t)
  <2>1. PICK a \in Addr \ pool :
          /\ pool' = pool \cup {a}
          /\ node' = [node EXCEPT ![a] = [key |-> want[t], inUse |-> TRUE,
                                          socket |-> INVALID_SOCKET, used |-> 0]]
          /\ HandOut(t, a)
    BY <1>3 DEF FindNew
  <2>2. 0 \in 0 .. TickMod - 1
    BY PoolConstants
  <2>3. node' \in [Addr -> Node]
    BY <2>1, <2>2 DEF TypeOK, Node
  <2> QED
    BY <1>3, <2>1, <2>3, PoolConstants
    DEF FindNew, HandOut, TypeOK, PcHasConn, PC
<1>4. CASE Connect(t)
  <2>1. conn[t] \in Addr
    BY <1>4 DEF Connect, TypeOK, PcHasConn
  <2>2. PICK h \in Handle, ok \in BOOLEAN :
          /\ os' = [os EXCEPT ![h] = [st |-> IF ok THEN "up" ELSE "down",
                                      to |-> Route(node[conn[t]].key)]]
          /\ node' = [node EXCEPT ![conn[t]].socket = h]
          /\ pc' = [pc EXCEPT ![t] = IF ~ok THEN "idle"
                                     ELSE IF node[conn[t]].key.ssl THEN "post"
                                     ELSE "send"]
    BY <1>4 DEF Connect
  <2>3. node[conn[t]].key \in Key
    BY <2>1 DEF TypeOK, Node
  <2>4. os' \in [Handle -> Socket]
    BY <2>2, <2>3 DEF TypeOK, Socket
  <2>5. node' \in [Addr -> Node]
    BY <2>1, <2>2 DEF TypeOK, Node
  <2>6. astray' \in BOOLEAN
    BY <1>4 DEF Connect, Deref, TypeOK
  <2> QED
    BY <1>4, <2>1, <2>2, <2>4, <2>5, <2>6, PoolConstants
    DEF Connect, TypeOK, PcHasConn, PC
<1>5. CASE SocketFails(t)
  <2>1. astray' \in BOOLEAN
    BY <1>5 DEF SocketFails, Deref, TypeOK
  <2> QED
    BY <1>5, <2>1 DEF SocketFails, TypeOK, PcHasConn, PC
<1>6. CASE SendFirst(t)
  <2>1. astray' \in BOOLEAN
    BY <1>6 DEF SendFirst, Deref, TypeOK
  <2> QED
    BY <1>6, <2>1 DEF SendFirst, TypeOK, PcHasConn, PC
<1>7. CASE SendRest(t)
  <2>1. astray' \in BOOLEAN
    BY <1>7 DEF SendRest, Deref, TypeOK
  <2> QED
    BY <1>7, <2>1 DEF SendRest, TypeOK, PcHasConn, PC
<1>8. CASE SendFails(t)
  <2>1. conn[t] \in Addr
    BY <1>8 DEF SendFails, HandleClosed, TypeOK, PcHasConn
  <2>2. astray' \in BOOLEAN
    BY <1>8 DEF SendFails, HandleClosed, Deref, TypeOK
  <2>3. CASE DestroyOnDisconnect
    BY <1>8, <2>1, <2>2, <2>3, DisconnectType
    DEF SendFails, HandleClosed, DisconnectKeep, TypeOK, PcHasConn, PC
  <2>4. CASE ~DestroyOnDisconnect
    <3>1. os' \in [Handle -> Socket]
      BY <1>8, <2>1, <2>4 DEF SendFails, HandleClosed, Closed, TypeOK, Socket, Node
    <3> QED
      BY <1>8, <2>2, <2>4, <3>1 DEF SendFails, HandleClosed, TypeOK, PcHasConn, PC
  <2> QED
    BY <2>3, <2>4
<1>9. CASE PostConnect(t)
  <2>1. astray' \in BOOLEAN
    BY <1>9 DEF PostConnect, Deref, TypeOK
  <2> QED
    BY <1>9, <2>1 DEF PostConnect, TypeOK, PcHasConn, PC
<1> QED
  BY <1>1, <1>2, <1>3, <1>4, <1>5, <1>6, <1>7, <1>8, <1>9 DEF SendStep

\* So does every other step.
LEMMA NextTypeInv == TypeInv /\ [Next]_vars => TypeInv'
<1> SUFFICES ASSUME TypeInv, [Next]_vars PROVE TypeInv'
  OBVIOUS
<1> USE DEF TypeInv
<1>1. ASSUME NEW t \in Transport, Send(t) PROVE TypeInv'
  BY <1>1 DEF Send, TypeOK, PcHasConn, PC
<1>2. ASSUME NEW t \in Transport, ReadDone(t) PROVE TypeInv'
  <2>1. conn[t] \in Addr
    BY <1>2 DEF ReadDone, TypeOK, PcHasConn
  <2>2. astray' \in BOOLEAN
    BY <1>2 DEF ReadDone, Deref, TypeOK
  <2>3. CASE DisconnectClear(t) /\ UNCHANGED <<lastScavange, since>>
    BY <1>2, <2>1, <2>2, <2>3, DisconnectType
    DEF ReadDone, DisconnectClear, TypeOK, PcHasConn, PC
  <2>4. CASE /\ ReturnToPool(conn[t])
             /\ conn' = [conn EXCEPT ![t] = NULL]
             /\ lease' = [u \in Transport |->
                  IF u = t \/ lease[u] \in Scavanged(conn[t]) THEN NULL ELSE lease[u]]
    BY <1>2, <2>1, <2>2, <2>4, ReturnType DEF ReadDone, TypeOK, PcHasConn, PC
  <2> QED
    BY <1>2, <2>3, <2>4 DEF ReadDone
<1>3. ASSUME NEW t \in Transport, ReadTimesOut(t) PROVE TypeInv'
  <2>1. conn[t] \in Addr
    BY <1>3 DEF ReadTimesOut, TypeOK, PcHasConn
  <2>2. os' \in [Handle -> Socket]
    BY <1>3, <2>1 DEF ReadTimesOut, Closed, TypeOK, Socket, Node
  <2>3. astray' \in BOOLEAN
    BY <1>3 DEF ReadTimesOut, Deref, TypeOK
  <2> QED
    BY <1>3, <2>1, <2>2, <2>3, PoolConstants DEF ReadTimesOut, TypeOK, PcHasConn, PC
<1>4. ASSUME NEW t \in Transport, ReadFails(t) PROVE TypeInv'
  <2>1. conn[t] \in Addr
    BY <1>4 DEF ReadFails, TypeOK, PcHasConn
  <2>2. astray' \in BOOLEAN
    BY <1>4 DEF ReadFails, Deref, TypeOK
  <2> QED
    BY <1>4, <2>1, <2>2, DisconnectType
    DEF ReadFails, DisconnectKeep, TypeOK, PcHasConn, PC
<1>5. ASSUME NEW t \in Transport, Resend(t) PROVE TypeInv'
  <2>1. conn[t] \in Addr
    BY <1>5 DEF Resend, TypeOK, PcHasConn
  <2>2. astray' \in BOOLEAN
    BY <1>5 DEF Resend, Deref, TypeOK
  <2> QED
    BY <1>5, <2>1, <2>2, DisconnectType
    DEF Resend, DisconnectClear, TypeOK, PcHasConn, PC
<1>6. ASSUME NEW t \in Transport, Destroy(t) PROVE TypeInv'
  <2>1. conn[t] \in Addr
    BY <1>6 DEF Destroy, TypeOK
  <2>2. astray' \in BOOLEAN
    BY <1>6 DEF Destroy, Deref, TypeOK
  <2> QED
    BY <1>6, <2>1, <2>2, DisconnectType
    DEF Destroy, DisconnectClear, TypeOK, PcHasConn, PC
<1>7. ASSUME NEW h \in Handle, PeerCloses(h) PROVE TypeInv'
  BY <1>7 DEF PeerCloses, TypeOK, PcHasConn, Socket
<1>8. CASE TimePasses
  BY <1>8 DEF TimePasses, TypeOK, PcHasConn
<1>9. CASE UNCHANGED vars
  BY <1>9 DEF vars, TypeOK, PcHasConn
<1>10. ASSUME NEW t \in Transport, Receive(t) PROVE TypeInv'
  <2>1. astray' \in BOOLEAN
    BY <1>10 DEF Receive, Deref, TypeOK
  <2> QED
    BY <1>10, <2>1 DEF Receive, TypeOK, PcHasConn, PC
<1> QED
  BY <1>1, <1>2, <1>3, <1>4, <1>5, <1>6, <1>7, <1>8, <1>9, <1>10, SendStepType
  DEF Next, TransportStep

\* Type correctness of the pool, its transports and their sockets.
THEOREM TypeCorrect == Spec => []TypeOK
<1>1. TypeInv => TypeOK
  BY DEF TypeInv
<1> QED
  BY <1>1, InitTypeInv, NextTypeInv, PTL DEF Spec

-----------------------------------------------------------------------------
(* Exclusive use.  Neither ExclusiveLease nor LeasedInUse is inductive by   *)
(* itself: each needs the other, and both need that a lease is the pointer  *)
(* itself.  On PocketPC the lease and the pointer never part, which gives   *)
(* NeverStale and PtrExclusive.                                             *)

LeaseInv ==
  /\ \A t \in Transport : lease[t] \in {NULL, conn[t]}
  /\ ~DestroyOnDisconnect => ~astray /\ lease = conn
  /\ ExclusiveLease
  /\ LeasedInUse

\* Disconnect through a pointer that is still leased ends no other lease and
\* keeps the exclusive use of every other connection.
LEMMA DisconnectLease ==
  ASSUME TypeInv, LeaseInv, NEW t \in Transport, conn[t] \in Addr,
         Disconnect(t), ~astray, lease[t] = conn[t]
  PROVE  /\ \A u \in Transport : u # t => LeaseAfterDisconnect(t)[u] = lease[u]
         /\ ~DestroyOnDisconnect => LeaseAfterDisconnect(t) = lease
         /\ \A u \in Transport : u # t /\ lease[u] # NULL =>
              lease[u] \in pool' /\ node'[lease[u]].inUse
         /\ LeaseAfterDisconnect(t)[t] # NULL =>
              lease[t] \in pool' /\ node'[lease[t]].inUse
<1>1. conn[t] # NULL
  BY PoolConstants
<1>2. \A u \in Transport : u # t => lease[u] # conn[t]
  BY <1>1 DEF LeaseInv, ExclusiveLease
<1>3. \A u \in Transport : u # t => LeaseAfterDisconnect(t)[u] = lease[u]
  BY <1>2 DEF LeaseAfterDisconnect
<1>4. \A a \in Addr : node'[a].inUse = node[a].inUse
  BY DEF Disconnect, TypeInv, TypeOK, Node
<1>5. \A u \in Transport : u # t /\ lease[u] # NULL =>
        lease[u] \in pool' /\ node'[lease[u]].inUse
  <2> SUFFICES ASSUME NEW u \in Transport, u # t, lease[u] # NULL
               PROVE  lease[u] \in pool' /\ node'[lease[u]].inUse
    OBVIOUS
  <2>1. lease[u] \in pool /\ node[lease[u]].inUse /\ lease[u] \in Addr
    BY DEF LeaseInv, LeasedInUse, TypeInv, TypeOK
  <2> QED
    BY <1>2, <1>4, <2>1 DEF Disconnect
<1>6. LeaseAfterDisconnect(t)[t] # NULL =>
        lease[t] \in pool' /\ node'[lease[t]].inUse
  <2> SUFFICES ASSUME LeaseAfterDisconnect(t)[t] # NULL
               PROVE  lease[t] \in pool' /\ node'[lease[t]].inUse
    OBVIOUS
  <2>1. ~Destroys(conn[t])
    BY DEF LeaseAfterDisconnect
  <2>2. lease[t] \in pool /\ node[lease[t]].inUse
    BY <1>1 DEF LeaseInv, LeasedInUse
  <2> QED
    BY <1>4, <2>1, <2>2 DEF Disconnect
<1>7. ~DestroyOnDisconnect => LeaseAfterDisconnect(t) = lease
  BY DEF LeaseAfterDisconnect, Destroys, TypeInv, TypeOK
<1> QED
  BY <1>3, <1>5, <1>6, <1>7

\* A step that goes through the pointer and disconnects, keeping the pointer.
LEMMA KeepLease ==
  ASSUME TypeInv, LeaseInv, NEW t \in Transport, conn[t] \in Addr,
         DisconnectKeep(t), Deref(t)
  PROVE  LeaseInv'
<1>1. lease' = LeaseAfterDisconnect(t) /\ conn' = conn /\ Disconnect(t)
  BY DEF DisconnectKeep
<1>2. \A u \in Transport : lease'[u] \in {NULL, conn'[u]}
  BY <1>1 DEF LeaseAfterDisconnect, LeaseInv
<1>3. CASE astray'
  <2>1. DestroyOnDisconnect
    BY <1>3 DEF Deref, LeaseInv
  <2> QED
    BY <1>2, <1>3, <2>1 DEF LeaseInv, ExclusiveLease, LeasedInUse
<1>4. CASE ~astray'
  <2>1. ~astray /\ lease[t] = conn[t]
    BY <1>4 DEF Deref
  <2>2. /\ \A u \in Transport : u # t => lease'[u] = lease[u]
        /\ ~DestroyOnDisconnect => lease' = lease
        /\ \A u \in Transport : u # t /\ lease[u] # NULL =>
             lease[u] \in pool' /\ node'[lease[u]].inUse
        /\ lease'[t] # NULL => lease[t] \in pool' /\ node'[lease[t]].inUse
    BY <1>1, <2>1, DisconnectLease
  <2>3. lease'[t] \in {NULL, lease[t]}
    BY <1>1, <1>2, <2>1
  <2>4. ExclusiveLease'
    BY <2>1, <2>2, <2>3 DEF ExclusiveLease, LeaseInv
  <2>5. LeasedInUse'
    BY <2>2, <2>3 DEF LeasedInUse
  <2>6. ~DestroyOnDisconnect => ~astray' /\ lease' = conn'
    BY <1>1, <1>4, <2>2 DEF LeaseInv
  <2> QED
    BY <1>2, <2>4, <2>5, <2>6 DEF LeaseInv
<1> QED
  BY <1>3, <1>4

\* A step that goes through the pointer, disconnects, and forgets it.
LEMMA ClearLease ==
  ASSUME TypeInv, LeaseInv, NEW t \in Transport, conn[t] \in Addr,
         DisconnectClear(t), Deref(t)
  PROVE  LeaseInv'
<1>1. /\ lease' = [LeaseAfterDisconnect(t) EXCEPT ![t] = NULL]
      /\ conn' = [conn EXCEPT ![t] = NULL]
      /\ Disconnect(t)
  BY DEF DisconnectClear
<1>2. \A u \in Transport : lease'[u] \in {NULL, conn'[u]}
  BY <1>1 DEF LeaseAfterDisconnect, LeaseInv, TypeInv, TypeOK
<1>3. CASE astray'
  <2>1. DestroyOnDisconnect
    BY <1>3 DEF Deref, LeaseInv
  <2> QED
    BY <1>2, <1>3, <2>1 DEF LeaseInv, ExclusiveLease, LeasedInUse
<1>4. CASE ~astray'
  <2>1. ~astray /\ lease[t] = conn[t]
    BY <1>4 DEF Deref
  <2>2. /\ \A u \in Transport : u # t => LeaseAfterDisconnect(t)[u] = lease[u]
        /\ ~DestroyOnDisconnect => LeaseAfterDisconnect(t) = lease
        /\ \A u \in Transport : u # t /\ lease[u] # NULL =>
             lease[u] \in pool' /\ node'[lease[u]].inUse
    BY <1>1, <2>1, DisconnectLease
  <2>3. lease'[t] = NULL /\ \A u \in Transport : u # t => lease'[u] = lease[u]
    BY <1>1, <2>2 DEF LeaseAfterDisconnect
  <2>4. ExclusiveLease'
    BY <2>1, <2>3 DEF ExclusiveLease, LeaseInv
  <2>5. LeasedInUse'
    BY <2>2, <2>3 DEF LeasedInUse
  <2>6. ~DestroyOnDisconnect => ~astray' /\ lease' = conn'
    BY <1>1, <1>4, <2>2 DEF LeaseInv
  <2> QED
    BY <1>2, <2>4, <2>5, <2>6 DEF LeaseInv
<1> QED
  BY <1>3, <1>4

\* returnToPool after the last use: the scavenger takes only idle entries, so no
\* other transport loses its lease.
LEMMA ReturnLease ==
  ASSUME TypeInv, LeaseInv, NEW t \in Transport, ReadDone(t),
         ReturnToPool(conn[t]), conn' = [conn EXCEPT ![t] = NULL],
         lease' = [u \in Transport |->
           IF u = t \/ lease[u] \in Scavanged(conn[t]) THEN NULL ELSE lease[u]]
  PROVE  LeaseInv'
<1>1. conn[t] \in Addr /\ conn[t] # NULL
  BY PoolConstants DEF ReadDone, TypeInv, TypeOK, PcHasConn
<1>2. \A u \in Transport : lease'[u] \in {NULL, conn'[u]}
  BY DEF LeaseInv, TypeInv, TypeOK
<1>3. CASE astray'
  <2>1. DestroyOnDisconnect
    BY <1>3 DEF ReadDone, Deref, LeaseInv
  <2> QED
    BY <1>2, <1>3, <2>1 DEF LeaseInv, ExclusiveLease, LeasedInUse
<1>4. CASE ~astray'
  <2>1. ~astray /\ lease[t] = conn[t]
    BY <1>4 DEF ReadDone, Deref
  <2>2. \A u \in Transport : u # t => lease[u] # conn[t]
    BY <1>1, <2>1 DEF LeaseInv, ExclusiveLease
  <2>3. \A u \in Transport : u # t => lease[u] \notin Scavanged(conn[t])
    <3> SUFFICES ASSUME NEW u \in Transport, u # t, lease[u] \in Scavanged(conn[t])
                 PROVE  FALSE
      OBVIOUS
    <3>1. lease[u] \in pool /\ ~node[lease[u]].inUse
      BY <2>2 DEF Scavanged
    <3>2. lease[u] # NULL
      BY <3>1, PoolConstants DEF TypeInv, TypeOK
    <3> QED
      BY <2>1, <3>1, <3>2 DEF LeaseInv, LeasedInUse
  <2>4. lease'[t] = NULL /\ \A u \in Transport : u # t => lease'[u] = lease[u]
    BY <2>3
  <2>5. ExclusiveLease'
    BY <2>1, <2>4 DEF ExclusiveLease, LeaseInv
  <2>6. LeasedInUse'
    <3> SUFFICES ASSUME NEW u \in Transport, lease'[u] # NULL
                 PROVE  lease'[u] \in pool' /\ node'[lease'[u]].inUse
      BY DEF LeasedInUse
    <3>1. u # t /\ lease'[u] = lease[u] /\ lease[u] \in Addr
      BY <2>4 DEF TypeInv, TypeOK
    <3>2. lease[u] \in pool /\ node[lease[u]].inUse
      BY <2>1, <3>1 DEF LeaseInv, LeasedInUse
    <3>3. node[lease[u]] \in Node
      BY <3>1 DEF TypeInv, TypeOK
    <3>4. node'[lease[u]].inUse = node[lease[u]].inUse
      BY <2>2, <3>1, <3>3 DEF ReturnToPool, Node
    <3> QED
      BY <2>3, <3>1, <3>2, <3>4 DEF ReturnToPool
  <2>7. ~DestroyOnDisconnect => ~astray' /\ lease' = conn'
    <3> SUFFICES ASSUME ~DestroyOnDisconnect PROVE lease' = conn'
      BY <1>4
    <3>1. lease = conn
      BY DEF LeaseInv
    <3>2. \A u \in Transport : lease'[u] = conn'[u]
      BY <2>4, <3>1 DEF TypeInv, TypeOK
    <3> QED
      BY <3>2 DEF TypeInv, TypeOK
  <2> QED
    BY <1>2, <2>5, <2>6, <2>7 DEF LeaseInv
<1> QED
  BY <1>3, <1>4

\* A step that moves no pointer, erases no node and releases none.
LEMMA SameLease ==
  ASSUME TypeInv, LeaseInv, NEW t \in Transport, lease' = lease, conn' = conn,
         pool' = pool, \A a \in Addr : node'[a].inUse = node[a].inUse,
         Deref(t) \/ astray' = astray
  PROVE  LeaseInv'
<1>1. ~DestroyOnDisconnect => ~astray' /\ lease' = conn'
  BY DEF LeaseInv, Deref
<1>2. ~astray' => ~astray
  BY DEF Deref
<1>3. ExclusiveLease'
  BY <1>2 DEF LeaseInv, ExclusiveLease
<1>4. LeasedInUse'
  BY <1>2 DEF LeaseInv, LeasedInUse, TypeInv, TypeOK
<1> QED
  BY <1>1, <1>3, <1>4 DEF LeaseInv

\* findConnection hands out a node that nobody holds, now in the list and
\* marked in use.
LEMMA HandOutLease ==
  ASSUME TypeInv, LeaseInv, NEW t \in Transport, NEW a \in Addr, HandOut(t, a),
         pool \subseteq pool', a \in pool', node'[a].inUse,
         \A b \in Addr \ {a} : node'[b] = node[b],
         a \notin pool \/ ~node[a].inUse, astray' = astray
  PROVE  LeaseInv'
<1>1. conn' = [conn EXCEPT ![t] = a] /\ lease' = [lease EXCEPT ![t] = a]
  BY DEF HandOut
<1>2. \A u \in Transport : lease'[u] \in {NULL, conn'[u]}
  BY <1>1 DEF LeaseInv, TypeInv, TypeOK
<1>3. ~DestroyOnDisconnect => ~astray' /\ lease' = conn'
  BY <1>1 DEF LeaseInv
<1>4. ASSUME ~astray, NEW u \in Transport, u # t, lease[u] # NULL
      PROVE  lease[u] \in pool' /\ node'[lease[u]].inUse /\ lease[u] # a
  <2>1. lease[u] \in pool /\ node[lease[u]].inUse
    BY <1>4 DEF LeaseInv, LeasedInUse
  <2>2. lease[u] # a /\ lease[u] \in Addr
    BY <2>1 DEF TypeInv, TypeOK
  <2> QED
    BY <2>1, <2>2
<1>5. ExclusiveLease'
  BY <1>1, <1>4 DEF LeaseInv, ExclusiveLease, TypeInv, TypeOK
<1>6. LeasedInUse'
  BY <1>1, <1>4 DEF LeasedInUse, TypeInv, TypeOK
<1> QED
  BY <1>2, <1>3, <1>5, <1>6 DEF LeaseInv

\* Every step of Send() preserves the lease invariant.
LEMMA SendStepLease ==
  ASSUME TypeInv, LeaseInv, NEW t \in Transport, SendStep(t)
  PROVE  LeaseInv'
<1>1. CASE Tidy(t)
  <2>1. CASE conn[t] = NULL
    BY <1>1, <2>1, SameLease DEF Tidy
  <2>2. CASE conn[t] # NULL
    <3>1. conn[t] \in Addr
      BY <2>2 DEF TypeInv, TypeOK
    <3> QED
      BY <1>1, <2>2, <3>1, KeepLease DEF Tidy
  <2> QED
    BY <2>1, <2>2
<1>2. CASE FindPooled(t)
  <2>1. PICK a \in Reusable(want[t]) :
          node' = [node EXCEPT ![a].inUse = TRUE] /\ HandOut(t, a)
    BY <1>2 DEF FindPooled
  <2>2. a \in pool /\ ~node[a].inUse /\ a \in Addr
    BY <2>1 DEF Reusable, TypeInv, TypeOK
  <2>3. node'[a].inUse /\ \A b \in Addr \ {a} : node'[b] = node[b]
    BY <2>1, <2>2 DEF TypeInv, TypeOK, Node
  <2>4. pool' = pool /\ astray' = astray
    BY <1>2 DEF FindPooled
  <2> QED
    BY <2>1, <2>2, <2>3, <2>4, HandOutLease
<1>3. CASE FindNew(t)
  <2>1. PICK a \in Addr \ pool :
          /\ pool' = pool \cup {a}
          /\ node' = [node EXCEPT ![a] = [key |-> want[t], inUse |-> TRUE,
                                          socket |-> INVALID_SOCKET, used |-> 0]]
          /\ HandOut(t, a)
    BY <1>3 DEF FindNew
  <2>2. node'[a].inUse /\ \A b \in Addr \ {a} : node'[b] = node[b]
    BY <2>1 DEF TypeInv, TypeOK
  <2>3. astray' = astray
    BY <1>3 DEF FindNew
  <2> QED
    BY <2>1, <2>2, <2>3, HandOutLease
<1>4. CASE Connect(t)
  <2>1. conn[t] \in Addr
    BY <1>4 DEF Connect, TypeInv, TypeOK, PcHasConn
  <2>2. \A a \in Addr : node'[a].inUse = node[a].inUse
    BY <1>4, <2>1 DEF Connect, TypeInv, TypeOK, Node
  <2> QED
    BY <1>4, <2>2, SameLease DEF Connect
<1>5. CASE SocketFails(t)
  BY <1>5, SameLease DEF SocketFails
<1>6. CASE SendFirst(t)
  BY <1>6, SameLease DEF SendFirst
<1>7. CASE SendRest(t)
  BY <1>7, SameLease DEF SendRest
<1>8. CASE SendFails(t)
  <2>1. conn[t] \in Addr
    BY <1>8 DEF SendFails, HandleClosed, TypeInv, TypeOK, PcHasConn
  <2>2. CASE DestroyOnDisconnect
    BY <1>8, <2>1, <2>2, KeepLease DEF SendFails, HandleClosed
  <2>3. CASE ~DestroyOnDisconnect
    BY <1>8, <2>3, SameLease DEF SendFails, HandleClosed
  <2> QED
    BY <2>2, <2>3
<1>9. CASE PostConnect(t)
  BY <1>9, SameLease DEF PostConnect
<1> QED
  BY <1>1, <1>2, <1>3, <1>4, <1>5, <1>6, <1>7, <1>8, <1>9 DEF SendStep

\* So does every other step.
LEMMA NextLease == TypeInv /\ LeaseInv /\ [Next]_vars => LeaseInv'
<1> SUFFICES ASSUME TypeInv, LeaseInv, [Next]_vars PROVE LeaseInv'
  OBVIOUS
<1>1. ASSUME NEW t \in Transport, Send(t) PROVE LeaseInv'
  BY <1>1, SameLease DEF Send
<1>2. ASSUME NEW t \in Transport, ReadDone(t) PROVE LeaseInv'
  <2>1. conn[t] \in Addr
    BY <1>2 DEF ReadDone, TypeInv, TypeOK, PcHasConn
  <2>2. CASE DisconnectClear(t)
    BY <1>2, <2>1, <2>2, ClearLease DEF ReadDone
  <2>3. CASE /\ ReturnToPool(conn[t])
             /\ conn' = [conn EXCEPT ![t] = NULL]
             /\ lease' = [u \in Transport |->
                  IF u = t \/ lease[u] \in Scavanged(conn[t]) THEN NULL ELSE lease[u]]
    BY <1>2, <2>3, ReturnLease
  <2> QED
    BY <1>2, <2>2, <2>3 DEF ReadDone
<1>3. ASSUME NEW t \in Transport, ReadTimesOut(t) PROVE LeaseInv'
  BY <1>3, SameLease DEF ReadTimesOut
<1>4. ASSUME NEW t \in Transport, ReadFails(t) PROVE LeaseInv'
  <2>1. conn[t] \in Addr
    BY <1>4 DEF ReadFails, TypeInv, TypeOK, PcHasConn
  <2> QED
    BY <1>4, <2>1, KeepLease DEF ReadFails
<1>5. ASSUME NEW t \in Transport, Resend(t) PROVE LeaseInv'
  <2>1. conn[t] \in Addr
    BY <1>5 DEF Resend, TypeInv, TypeOK, PcHasConn
  <2> QED
    BY <1>5, <2>1, ClearLease DEF Resend
<1>6. ASSUME NEW t \in Transport, Destroy(t) PROVE LeaseInv'
  <2>1. conn[t] \in Addr
    BY <1>6 DEF Destroy, TypeInv, TypeOK
  <2> QED
    BY <1>6, <2>1, ClearLease DEF Destroy
<1>8. ASSUME NEW t \in Transport, Receive(t) PROVE LeaseInv'
  BY <1>8, SameLease DEF Receive
<1>7. CASE \/ \E h \in Handle : PeerCloses(h)
           \/ TimePasses
           \/ UNCHANGED vars
  <2>1. UNCHANGED <<pool, node, conn, lease, astray>>
    BY <1>7 DEF PeerCloses, TimePasses, vars
  <2> QED
    BY <2>1 DEF LeaseInv, ExclusiveLease, LeasedInUse
<1> QED
  BY <1>1, <1>2, <1>3, <1>4, <1>5, <1>6, <1>7, <1>8, SendStepLease DEF Next, TransportStep

\* The lease invariant holds in every reachable state.
LEMMA LeaseCorrect == Spec => [](TypeInv /\ LeaseInv)
<1>1. Init => LeaseInv
  BY DEF Init, LeaseInv, ExclusiveLease, LeasedInUse
<1> QED
  BY <1>1, InitTypeInv, NextTypeInv, NextLease, PTL DEF Spec

\* findConnection never gives one list node to two requests, unless a thread
\* went through a pointer to an erased node.
THEOREM Exclusive == Spec => []ExclusiveLease
BY LeaseCorrect, PTL DEF LeaseInv

\* A leased connection stays in the list and in use: no other thread's
\* scavenging, lookup or return takes it away.
THEOREM InUse == Spec => []LeasedInUse
BY LeaseCorrect, PTL DEF LeaseInv

\* The PocketPC mix-in, whose Disconnect leaves the list alone, never follows a
\* pointer to an erased node.
THEOREM PocketPCNeverStale == Spec => []NeverStale
<1>1. LeaseInv => NeverStale
  BY DEF LeaseInv, NeverStale
<1> QED
  BY <1>1, LeaseCorrect, PTL

\* And there no two transports ever hold the same connection.
THEOREM PocketPCExclusive == ~DestroyOnDisconnect /\ Spec => []PtrExclusive
<1>1. ~DestroyOnDisconnect /\ LeaseInv => PtrExclusive
  BY DEF LeaseInv, PtrExclusive, ExclusiveLease
<1>2. CASE DestroyOnDisconnect
  BY <1>2
<1>3. CASE ~DestroyOnDisconnect
  <2>1. LeaseInv => PtrExclusive
    BY <1>1, <1>3
  <2> QED
    BY <2>1, LeaseCorrect, PTL
<1> QED
  BY <1>2, <1>3

-----------------------------------------------------------------------------
(* The sockets of the desktop build, until a thread goes through a pointer   *)
(* to an erased node.  A socket in a node belongs to that node alone, is     *)
(* open, goes where the node's key says, and its node is in the list and     *)
(* idle or leased; every open handle is in some node.                        *)

\* A transport that uses its connection has it leased.
AtWork == {"connect", "post", "send", "body", "recv"}
UsesLease == \A t \in Transport : pc[t] \in AtWork => lease[t] = conn[t]

\* The connection a transport has is one for its request; between Send and
\* findConnection it is still that of the request before.
KeyOfRequest ==
  \A t \in Transport :
    lease[t] # NULL /\ pc[t] \notin {"tidy", "find"} => KeyEq(want[t], node[lease[t]].key)

\* While a transport looks for a connection or connects, its node has no socket
\* that the next assignment to the pointer or to the node could lose.
NoSocketYet ==
  \A t \in Transport :
    pc[t] \in {"find", "connect"} /\ lease[t] # NULL => node[lease[t]].socket = INVALID_SOCKET

Wired ==
  \A a \in Addr : node[a].socket # INVALID_SOCKET =>
    /\ a \in pool
    /\ os[node[a].socket].st # "closed"
    /\ os[node[a].socket].to = Route(node[a].key)
    /\ \A b \in Addr : node[b].socket = node[a].socket => b = a
    /\ node[a].inUse => \E t \in Transport : lease[t] = a

Owned == \A h \in Handle : os[h].st # "closed" => \E a \in Addr : node[a].socket = h

Sockets == UsesLease /\ KeyOfRequest /\ NoSocketYet /\ Wired /\ Owned
SocketInv == DestroyOnDisconnect /\ ~astray => Sockets

\* A key equals itself, and equal keys have one route: a pooled connection goes
\* where a new one for the request's key would.
LEMMA SameKey == ASSUME NEW k PROVE KeyEq(k, k)
BY DEF KeyEq

\* Equal keys have one route and ask for the same authentication of the connection.
LEMMA SameRoute ==
  ASSUME NEW j \in Key, NEW k \in Key, KeyEq(j, k)
  PROVE  Route(j) = Route(k) /\ j.auth = k.auth
<1>1. j.ssl \in BOOLEAN /\ k.ssl \in BOOLEAN
  BY PoolConstants
<1> QED
  BY <1>1 DEF KeyEq, Route

\* Disconnect through a leased pointer takes the node's socket and nothing else.
LEMMA DisconnectSockets ==
  ASSUME TypeInv, Wired, Owned, DestroyOnDisconnect, NEW t \in Transport,
         conn[t] \in Addr, Disconnect(t),
         \A u \in Transport : lease[u] # conn[t] => lease'[u] = lease[u]
  PROVE  /\ Wired' /\ Owned'
         /\ node'[conn[t]].socket = INVALID_SOCKET
         /\ \A b \in Addr : node'[b].key = node[b].key
         /\ \A b \in Addr \ {conn[t]} : node'[b] = node[b]
<1> DEFINE a == conn[t]
           s == node[a].socket
<1>1. node[a] \in Node /\ s \in Handle \cup {INVALID_SOCKET}
  BY DEF TypeInv, TypeOK, Node
<1>2. /\ node'[a].socket = INVALID_SOCKET
      /\ \A b \in Addr : node'[b].key = node[b].key
      /\ \A b \in Addr \ {a} : node'[b] = node[b]
  BY <1>1 DEF Disconnect, TypeInv, TypeOK, Node
<1>3. /\ \A h \in Handle \ {s} : os'[h] = os[h]
      /\ s # INVALID_SOCKET => os'[s].st = "closed"
  BY <1>1 DEF Disconnect, Closed, TypeInv, TypeOK, Socket
<1>4. pool \ {a} \subseteq pool'
  BY DEF Disconnect
<1>5. Wired'
  <2> SUFFICES ASSUME NEW b \in Addr, node'[b].socket # INVALID_SOCKET
               PROVE  /\ b \in pool'
                      /\ os'[node'[b].socket].st # "closed"
                      /\ os'[node'[b].socket].to = Route(node'[b].key)
                      /\ \A c \in Addr : node'[c].socket = node'[b].socket => c = b
                      /\ node'[b].inUse => \E u \in Transport : lease'[u] = b
    BY DEF Wired
  <2>1. b # a /\ node'[b] = node[b]
    BY <1>2
  <2>2. node[b].socket \in Handle /\ node[b].socket # s
    BY <2>1 DEF Wired, TypeInv, TypeOK, Node
  <2>3. os'[node[b].socket] = os[node[b].socket]
    BY <1>3, <2>2
  <2>4. node[b].inUse => \E u \in Transport : lease'[u] = b
    BY <2>1 DEF Wired
  <2>5. \A c \in Addr : node'[c].socket = node'[b].socket => c = b
    BY <1>2, <2>1 DEF Wired
  <2> QED
    BY <1>4, <2>1, <2>3, <2>4, <2>5 DEF Wired
<1>6. Owned'
  <2> SUFFICES ASSUME NEW h \in Handle, os'[h].st # "closed"
               PROVE  \E b \in Addr : node'[b].socket = h
    BY DEF Owned
  <2>1. h # s /\ os'[h] = os[h]
    BY <1>1, <1>3, PoolConstants
  <2>2. PICK b \in Addr : node[b].socket = h
    BY <2>1 DEF Owned
  <2> QED
    BY <1>2, <2>1, <2>2
<1> QED
  BY <1>2, <1>5, <1>6

\* What LeaseAfterDisconnect leaves alone.
LEMMA OtherLeases ==
  ASSUME TypeInv, NEW t \in Transport
  PROVE  /\ \A u \in Transport : lease[u] # conn[t] => LeaseAfterDisconnect(t)[u] = lease[u]
         /\ \A u \in Transport : LeaseAfterDisconnect(t)[u] \in {NULL, lease[u]}
         /\ LeaseAfterDisconnect(t) \in [Transport -> Addr \cup {NULL}]
BY DEF LeaseAfterDisconnect, TypeInv, TypeOK

\* A step that goes through a leased pointer, disconnects, and leaves the transport
\* with nothing to send or read on.
LEMMA GiveUpSockets ==
  ASSUME TypeInv, LeaseInv, Sockets, DestroyOnDisconnect, NEW t \in Transport,
         ~astray, conn[t] \in Addr, lease[t] = conn[t], Disconnect(t),
         \/ lease' = LeaseAfterDisconnect(t)
         \/ lease' = [LeaseAfterDisconnect(t) EXCEPT ![t] = NULL],
         \A u \in Transport \ {t} : conn'[u] = conn[u] /\ pc'[u] = pc[u] /\ want'[u] = want[u],
         pc'[t] \notin AtWork,
         \/ lease'[t] = NULL
         \/ pc'[t] \in {"tidy", "find"}
         \/ pc[t] \notin {"tidy", "find"} /\ want'[t] = want[t]
  PROVE  Sockets'
<1>1. /\ \A u \in Transport : lease[u] # conn[t] => lease'[u] = lease[u]
      /\ \A u \in Transport : lease'[u] \in {NULL, lease[u]}
  BY OtherLeases
<1>2. /\ Wired' /\ Owned'
      /\ node'[conn[t]].socket = INVALID_SOCKET
      /\ \A b \in Addr : node'[b].key = node[b].key
      /\ \A b \in Addr \ {conn[t]} : node'[b] = node[b]
  BY <1>1, DisconnectSockets DEF Sockets
<1>3. \A u \in Transport \ {t} : lease[u] # conn[t]
  BY PoolConstants DEF LeaseInv, ExclusiveLease
<1>4. UsesLease'
  BY <1>1, <1>3 DEF Sockets, UsesLease
<1>5. \A u \in Transport : lease[u] \in Addr \cup {NULL}
  BY DEF TypeInv, TypeOK
<1>6. KeyOfRequest'
  <2> SUFFICES ASSUME NEW u \in Transport, lease'[u] # NULL, pc'[u] \notin {"tidy", "find"}
               PROVE  KeyEq(want'[u], node'[lease'[u]].key)
    BY DEF KeyOfRequest
  <2>1. lease'[u] = lease[u] /\ lease[u] \in Addr
    BY <1>1, <1>5
  <2>2. pc[u] \notin {"tidy", "find"} /\ want'[u] = want[u]
    OBVIOUS
  <2> QED
    BY <1>2, <2>1, <2>2 DEF Sockets, KeyOfRequest
<1>7. NoSocketYet'
  <2> SUFFICES ASSUME NEW u \in Transport, lease'[u] # NULL, pc'[u] \in {"find", "connect"}
               PROVE  node'[lease'[u]].socket = INVALID_SOCKET
    BY DEF NoSocketYet
  <2>1. lease'[u] = lease[u] /\ lease[u] \in Addr
    BY <1>1, <1>5
  <2>2. CASE u = t
    BY <1>2, <2>1, <2>2
  <2>3. CASE u # t
    BY <1>2, <1>3, <2>1, <2>3 DEF Sockets, NoSocketYet
  <2> QED
    BY <2>2, <2>3
<1> QED
  BY <1>2, <1>4, <1>6, <1>7 DEF Sockets

\* A step that moves no pointer and changes no node; the handles stay open or closed, and
\* dialed to where they were.
LEMMA SameSockets ==
  ASSUME TypeInv, Sockets, NEW t \in Transport,
         pool' = pool, node' = node, lease' = lease, conn' = conn,
         \A h \in Handle : os'[h].to = os[h].to /\ (os'[h].st = "closed" <=> os[h].st = "closed"),
         \A u \in Transport \ {t} : pc'[u] = pc[u] /\ want'[u] = want[u],
         pc'[t] \in AtWork => lease[t] = conn[t],
         pc'[t] \notin {"find", "connect"},
         \/ pc'[t] = "tidy"
         \/ pc[t] \notin {"tidy", "find"} /\ want'[t] = want[t]
  PROVE  Sockets'
<1>1. UsesLease'
  BY DEF Sockets, UsesLease
<1>2. KeyOfRequest'
  BY DEF Sockets, KeyOfRequest
<1>3. NoSocketYet'
  BY DEF Sockets, NoSocketYet
<1>4. \A a \in Addr : node[a].socket \in Handle \cup {INVALID_SOCKET}
  BY DEF TypeInv, TypeOK, Node
<1>5. Wired'
  BY <1>4 DEF Sockets, Wired
<1>6. Owned'
  BY DEF Sockets, Owned
<1> QED
  BY <1>1, <1>2, <1>3, <1>5, <1>6 DEF Sockets

\* Every step of Send() keeps the sockets in order.
LEMMA SendStepSockets ==
  ASSUME TypeInv, LeaseInv, Sockets, DestroyOnDisconnect, ~astray, ~astray',
         NEW t \in Transport, SendStep(t)
  PROVE  Sockets'
<1> USE DEF AtWork
<1>0. /\ pc \in [Transport -> PC] /\ want \in [Transport -> Key]
      /\ conn \in [Transport -> Addr \cup {NULL}] /\ lease \in [Transport -> Addr \cup {NULL}]
      /\ \A u \in Transport : lease[u] \in {NULL, conn[u]}
  BY DEF TypeInv, TypeOK, LeaseInv
<1>1. CASE Tidy(t)
  <2>1. CASE conn[t] = NULL
    <3>1. /\ UNCHANGED <<pool, node, os, conn, lease, want>>
          /\ pc' = [pc EXCEPT ![t] = "find"] /\ lease[t] = NULL
      BY <1>0, <1>1, <2>1 DEF Tidy
    <3>2. Wired' /\ Owned'
      BY <3>1 DEF Sockets, Wired, Owned
    <3>3. UsesLease' /\ KeyOfRequest' /\ NoSocketYet'
      BY <1>0, <3>1 DEF Sockets, UsesLease, KeyOfRequest, NoSocketYet
    <3> QED
      BY <3>2, <3>3 DEF Sockets
  <2>2. CASE conn[t] # NULL
    <3>1. conn[t] \in Addr /\ lease[t] = conn[t]
      BY <1>0, <1>1, <2>2 DEF Tidy, Deref
    <3>2. /\ Disconnect(t) /\ lease' = LeaseAfterDisconnect(t)
          /\ UNCHANGED <<conn, want>> /\ pc' = [pc EXCEPT ![t] = "find"]
      BY <1>1, <2>2 DEF Tidy, DisconnectKeep
    <3> QED
      BY <1>0, <3>1, <3>2, GiveUpSockets
  <2> QED
    BY <2>1, <2>2
<1>2. CASE FindPooled(t)
  <2>1. PICK a \in Reusable(want[t]) :
          node' = [node EXCEPT ![a].inUse = TRUE] /\ HandOut(t, a)
    BY <1>2 DEF FindPooled
  <2>2. /\ a \in Addr /\ a \in pool /\ ~node[a].inUse
        /\ KeyEq(want[t], node[a].key)
    BY <2>1 DEF Reusable, TypeInv, TypeOK
  <2>3. /\ UNCHANGED <<pool, os, want>> /\ pc' = [pc EXCEPT ![t] = "send"]
        /\ conn' = [conn EXCEPT ![t] = a] /\ lease' = [lease EXCEPT ![t] = a]
        /\ pc[t] = "find"
    BY <1>2, <2>1 DEF FindPooled, HandOut
  <2>4. \A b \in Addr : /\ node'[b].socket = node[b].socket /\ node'[b].key = node[b].key
                        /\ node'[b].inUse <=> (b = a \/ node[b].inUse)
    BY <2>1, <2>2 DEF TypeInv, TypeOK, Node
  <2>5. UsesLease'
    BY <1>0, <2>3 DEF Sockets, UsesLease
  <2>6. KeyOfRequest'
    BY <1>0, <2>2, <2>3, <2>4 DEF Sockets, KeyOfRequest
  <2>7. NoSocketYet'
    BY <1>0, <2>3, <2>4 DEF Sockets, NoSocketYet
  <2>8. Wired'
    <3> SUFFICES ASSUME NEW b \in Addr, node[b].socket # INVALID_SOCKET
                 PROVE  /\ b \in pool
                        /\ os[node[b].socket].st # "closed"
                        /\ os[node[b].socket].to = Route(node[b].key)
                        /\ \A c \in Addr : node[c].socket = node[b].socket => c = b
                        /\ node'[b].inUse => \E u \in Transport : lease'[u] = b
      BY <2>3, <2>4 DEF Wired
    <3>1. ASSUME node[b].inUse, b # a PROVE \E u \in Transport : lease'[u] = b
      <4>1. PICK u \in Transport : lease[u] = b
        BY <3>1 DEF Sockets, Wired
      <4>2. u # t
        BY <2>3, <4>1, PoolConstants DEF Sockets, NoSocketYet
      <4> QED
        BY <2>3, <4>1, <4>2
    <3>2. lease'[t] = a
      BY <1>0, <2>3
    <3> QED
      BY <2>4, <3>1, <3>2 DEF Sockets, Wired
  <2>9. Owned'
    BY <2>3, <2>4 DEF Sockets, Owned
  <2> QED
    BY <2>5, <2>6, <2>7, <2>8, <2>9 DEF Sockets
<1>3. CASE FindNew(t)
  <2>1. PICK a \in Addr \ pool :
          /\ pool' = pool \cup {a}
          /\ node' = [node EXCEPT ![a] = [key |-> want[t], inUse |-> TRUE,
                                          socket |-> INVALID_SOCKET, used |-> 0]]
          /\ HandOut(t, a)
    BY <1>3 DEF FindNew
  <2>2. /\ UNCHANGED <<os, want>> /\ pc' = [pc EXCEPT ![t] = "connect"]
        /\ conn' = [conn EXCEPT ![t] = a] /\ lease' = [lease EXCEPT ![t] = a]
        /\ pc[t] = "find"
    BY <1>3, <2>1 DEF FindNew, HandOut
  <2>3. /\ node'[a].socket = INVALID_SOCKET /\ node'[a].key = want[t]
        /\ \A b \in Addr \ {a} : node'[b] = node[b]
    BY <2>1 DEF TypeInv, TypeOK
  <2>4. node[a].socket = INVALID_SOCKET
    BY <2>1 DEF Sockets, Wired
  <2>5. \A u \in Transport \ {t} : lease[u] # NULL => lease[u] \in Addr \ {a}
    BY <1>0, <2>1 DEF LeaseInv, LeasedInUse
  <2>6. UsesLease'
    BY <1>0, <2>2 DEF Sockets, UsesLease
  <2>7. KeyOfRequest'
    BY <1>0, <2>2, <2>3, <2>5, SameKey DEF Sockets, KeyOfRequest
  <2>8. NoSocketYet'
    BY <1>0, <2>2, <2>3, <2>5 DEF Sockets, NoSocketYet
  <2>9. Wired'
    <3> SUFFICES ASSUME NEW b \in Addr, node'[b].socket # INVALID_SOCKET
                 PROVE  /\ b \in pool
                        /\ os[node[b].socket].st # "closed"
                        /\ os[node[b].socket].to = Route(node[b].key)
                        /\ \A c \in Addr : node'[c].socket = node[b].socket => c = b
                        /\ node[b].inUse => \E u \in Transport : lease'[u] = b
      BY <2>1, <2>2, <2>3 DEF Wired
    <3>1. b # a /\ node[b].socket # INVALID_SOCKET
      BY <2>3
    <3>2. ASSUME node[b].inUse PROVE \E u \in Transport : lease'[u] = b
      <4>1. PICK u \in Transport : lease[u] = b
        BY <3>1, <3>2 DEF Sockets, Wired
      <4>2. u # t
        BY <2>2, <3>1, <4>1, PoolConstants DEF Sockets, NoSocketYet
      <4> QED
        BY <2>2, <4>1, <4>2
    <3> QED
      BY <2>3, <2>4, <3>1, <3>2 DEF Sockets, Wired
  <2>10. Owned'
    BY <2>2, <2>3, <2>4, PoolConstants DEF Sockets, Owned
  <2> QED
    BY <2>6, <2>7, <2>8, <2>9, <2>10 DEF Sockets
<1>4. CASE Connect(t)
  <2>1. /\ conn[t] \in Addr /\ lease[t] = conn[t] /\ pc[t] = "connect"
        /\ lease[t] # NULL
    BY <1>0, <1>4, PoolConstants DEF Connect, Deref, TypeInv, PcHasConn
  <2>2. PICK h \in Handle, ok \in BOOLEAN :
          /\ os[h].st = "closed"
          /\ os' = [os EXCEPT ![h] = [st |-> IF ok THEN "up" ELSE "down",
                                      to |-> Route(node[conn[t]].key)]]
          /\ node' = [node EXCEPT ![conn[t]].socket = h]
          /\ pc' = [pc EXCEPT ![t] = IF ~ok THEN "idle"
                                     ELSE IF node[conn[t]].key.ssl THEN "post"
                                     ELSE "send"]
    BY <1>4 DEF Connect
  <2>3. UNCHANGED <<pool, conn, lease, want>>
    BY <1>4 DEF Connect
  <2>4. /\ node'[conn[t]].socket = h /\ \A b \in Addr \ {conn[t]} : node'[b] = node[b]
        /\ \A b \in Addr : node'[b].key = node[b].key /\ node'[b].inUse = node[b].inUse
    BY <2>1, <2>2 DEF TypeInv, TypeOK, Node
  <2>5. /\ os'[h].st # "closed" /\ os'[h].to = Route(node[conn[t]].key)
        /\ \A g \in Handle \ {h} : os'[g] = os[g]
    BY <2>2 DEF TypeInv, TypeOK, Socket
  <2>6. node[conn[t]].socket = INVALID_SOCKET
    BY <2>1 DEF Sockets, NoSocketYet
  <2>7. \A b \in Addr : node[b].socket # h
    BY <2>2, PoolConstants DEF Sockets, Wired
  <2>8. \A u \in Transport \ {t} : lease[u] # conn[t]
    BY <2>1 DEF LeaseInv, ExclusiveLease
  <2>9. UsesLease'
    BY <1>0, <2>1, <2>2, <2>3 DEF Sockets, UsesLease
  <2>10. KeyOfRequest'
    BY <1>0, <2>1, <2>2, <2>3, <2>4 DEF Sockets, KeyOfRequest
  <2>11. NoSocketYet'
    BY <1>0, <2>2, <2>3, <2>4, <2>8 DEF Sockets, NoSocketYet
  <2>12. Wired'
    <3> SUFFICES ASSUME NEW b \in Addr, node'[b].socket # INVALID_SOCKET
                 PROVE  /\ b \in pool
                        /\ os'[node'[b].socket].st # "closed"
                        /\ os'[node'[b].socket].to = Route(node[b].key)
                        /\ \A c \in Addr : node'[c].socket = node'[b].socket => c = b
                        /\ node[b].inUse => \E u \in Transport : lease[u] = b
      BY <2>3, <2>4 DEF Wired
    <3>1. CASE b = conn[t]
      <4>1. b \in pool
        BY <2>1, <3>1 DEF LeaseInv, LeasedInUse
      <4> QED
        BY <2>1, <2>4, <2>5, <2>7, <3>1, <4>1
    <3>2. CASE b # conn[t]
      <4>1. /\ node'[b] = node[b] /\ node[b].socket \in Handle
            /\ node[b].socket # h
        BY <2>4, <2>7, <3>2 DEF TypeInv, TypeOK, Node
      <4>2. \A c \in Addr : node'[c].socket = node[b].socket => c = b
        BY <2>4, <4>1 DEF Sockets, Wired
      <4> QED
        BY <2>5, <4>1, <4>2 DEF Sockets, Wired
    <3> QED
      BY <3>1, <3>2
  <2>13. Owned'
    <3> SUFFICES ASSUME NEW g \in Handle, os'[g].st # "closed"
                 PROVE  \E b \in Addr : node'[b].socket = g
      BY DEF Owned
    <3>1. CASE g = h
      BY <2>1, <2>4, <3>1
    <3>2. CASE g # h
      <4>1. PICK b \in Addr : node[b].socket = g
        BY <2>5, <3>2 DEF Sockets, Owned
      <4>2. b # conn[t]
        BY <2>6, <4>1, PoolConstants
      <4> QED
        BY <2>4, <4>1, <4>2
    <3> QED
      BY <3>1, <3>2
  <2> QED
    BY <2>9, <2>10, <2>11, <2>12, <2>13 DEF Sockets
<1>5. CASE SocketFails(t)
  BY <1>0, <1>5, SameSockets DEF SocketFails
<1>6. CASE SendFirst(t)
  BY <1>0, <1>6, SameSockets DEF SendFirst, Deref
<1>7. CASE SendRest(t)
  BY <1>0, <1>7, SameSockets DEF SendRest, Deref
<1>8. CASE PostConnect(t)
  BY <1>0, <1>8, SameSockets DEF PostConnect, Deref
<1>9. CASE SendFails(t)
  <2>1. /\ conn[t] \in Addr /\ lease[t] = conn[t] /\ pc[t] \in {"send", "body", "post"}
    BY <1>0, <1>9 DEF SendFails, Deref, TypeInv, PcHasConn
  <2>2. /\ Disconnect(t) /\ lease' = LeaseAfterDisconnect(t)
        /\ UNCHANGED <<conn, want>> /\ pc'[t] \in {"tidy", "idle"}
        /\ \A u \in Transport \ {t} : pc'[u] = pc[u]
    BY <1>0, <1>9 DEF SendFails, DisconnectKeep
  <2> QED
    BY <1>0, <2>1, <2>2, GiveUpSockets
<1> QED
  BY <1>1, <1>2, <1>3, <1>4, <1>5, <1>6, <1>7, <1>8, <1>9 DEF SendStep

\* returnToPool through a leased pointer: the node becomes idle, and what the scavenger
\* erases was idle, so no socket in use is closed.
LEMMA ReturnSockets ==
  ASSUME TypeInv, LeaseInv, Sockets, ~astray, NEW t \in Transport,
         conn[t] \in Addr, lease[t] = conn[t], ReturnToPool(conn[t]),
         conn' = [conn EXCEPT ![t] = NULL],
         lease' = [u \in Transport |->
           IF u = t \/ lease[u] \in Scavanged(conn[t]) THEN NULL ELSE lease[u]],
         pc' = [pc EXCEPT ![t] = "idle"], want' = want
  PROVE  Sockets'
<1> DEFINE a == conn[t]
           gone == Scavanged(a)
<1> USE DEF AtWork
<1>0. /\ pc \in [Transport -> PC] /\ conn \in [Transport -> Addr \cup {NULL}]
      /\ lease \in [Transport -> Addr \cup {NULL}]
      /\ \A u \in Transport : lease[u] \in {NULL, conn[u]}
      /\ \A b \in Addr : node[b] \in Node /\ node[b].socket \in Handle \cup {INVALID_SOCKET}
  BY DEF TypeInv, TypeOK, LeaseInv, Node
<1>1. \A u \in Transport \ {t} : lease[u] # NULL => lease[u] # a /\ lease[u] \notin gone
  <2> SUFFICES ASSUME NEW u \in Transport \ {t}, lease[u] # NULL
               PROVE  lease[u] # a /\ lease[u] \notin gone
    OBVIOUS
  <2>1. lease[u] # a
    BY DEF LeaseInv, ExclusiveLease
  <2>2. node[lease[u]].inUse
    BY DEF LeaseInv, LeasedInUse
  <2> QED
    BY <2>1, <2>2 DEF Scavanged
<1>2. \A u \in Transport \ {t} : lease'[u] = lease[u] /\ conn'[u] = conn[u] /\ pc'[u] = pc[u]
  BY <1>0, <1>1 DEF Scavanged, TypeInv, TypeOK
<1>3. lease'[t] = NULL /\ pc'[t] = "idle"
  BY <1>0
<1>4. \A b \in Addr :
        /\ node'[b].key = node[b].key
        /\ node'[b].inUse <=> (b # a /\ node[b].inUse)
        /\ node'[b].socket = IF b \in gone THEN INVALID_SOCKET ELSE node[b].socket
  BY <1>0 DEF ReturnToPool, Node
<1>5. /\ pool' = pool \ gone /\ gone \subseteq Addr
      /\ \A h \in Handle :
           os'[h] = IF \E b \in gone : node[b].socket = h THEN [os[h] EXCEPT !.st = "closed"]
                                                          ELSE os[h]
  BY DEF ReturnToPool, Scavanged, TypeInv, TypeOK
<1>6. UsesLease' /\ KeyOfRequest' /\ NoSocketYet'
  <2> HIDE DEF gone
  <2>1. UsesLease'
    BY <1>2, <1>3 DEF Sockets, UsesLease
  <2>2. KeyOfRequest'
    BY <1>0, <1>2, <1>3, <1>4 DEF Sockets, KeyOfRequest
  <2>3. NoSocketYet'
    BY <1>0, <1>2, <1>3, <1>4 DEF Sockets, NoSocketYet
  <2> QED
    BY <2>1, <2>2, <2>3
<1>7. Wired'
  <2> HIDE DEF gone
  <2> SUFFICES ASSUME NEW b \in Addr, node'[b].socket # INVALID_SOCKET
               PROVE  /\ b \in pool'
                      /\ os'[node'[b].socket].st # "closed"
                      /\ os'[node'[b].socket].to = Route(node'[b].key)
                      /\ \A c \in Addr : node'[c].socket = node'[b].socket => c = b
                      /\ node'[b].inUse => \E u \in Transport : lease'[u] = b
    BY DEF Wired
  <2>1. b \notin gone /\ node'[b].socket = node[b].socket /\ node[b].socket \in Handle
    BY <1>0, <1>4
  <2>2. \A c \in Addr : node[c].socket = node[b].socket => c = b
    BY <2>1, PoolConstants DEF Sockets, Wired
  <2>3. os'[node[b].socket] = os[node[b].socket]
    BY <1>5, <2>1, <2>2
  <2>4. \A c \in Addr : node'[c].socket = node'[b].socket => c = b
    BY <1>4, <2>1, <2>2, PoolConstants
  <2>5. ASSUME node'[b].inUse PROVE \E u \in Transport : lease'[u] = b
    <3>1. b # a /\ node[b].inUse
      BY <1>4, <2>5
    <3>2. PICK u \in Transport : lease[u] = b
      BY <2>1, <3>1, PoolConstants DEF Sockets, Wired
    <3> QED
      BY <1>2, <3>1, <3>2
  <2> QED
    BY <1>4, <1>5, <2>1, <2>3, <2>4, <2>5, PoolConstants DEF Sockets, Wired
<1>8. Owned'
  <2> HIDE DEF gone
  <2> SUFFICES ASSUME NEW h \in Handle, os'[h].st # "closed"
               PROVE  \E b \in Addr : node'[b].socket = h
    BY DEF Owned
  <2>1. ~ \E b \in gone : node[b].socket = h
    <3> SUFFICES ASSUME \E b \in gone : node[b].socket = h PROVE FALSE
      OBVIOUS
    <3>1. os'[h] = [os[h] EXCEPT !.st = "closed"]
      BY <1>5
    <3>2. os[h] \in Socket
      BY DEF TypeInv, TypeOK
    <3> QED
      BY <3>1, <3>2 DEF Socket
  <2>2. PICK b \in Addr : node[b].socket = h
    BY <1>5, <2>1 DEF Sockets, Owned
  <2> QED
    BY <1>4, <2>1, <2>2
<1> QED
  BY <1>6, <1>7, <1>8 DEF Sockets

\* So does every other step, as long as no pointer goes astray.
LEMMA NextSockets == TypeInv /\ LeaseInv /\ SocketInv /\ [Next]_vars => SocketInv'
<1> SUFFICES ASSUME TypeInv, LeaseInv, SocketInv, [Next]_vars,
                    DestroyOnDisconnect, ~astray'
             PROVE  Sockets'
  BY DEF SocketInv
<1> USE DEF AtWork
<1>0. ~astray
  BY DEF Next, TransportStep, SendStep, vars, Send, Tidy, FindPooled, FindNew, Connect, SocketFails,
         PostConnect, SendFirst, SendRest, SendFails, Receive, ReadDone, ReadTimesOut, ReadFails,
         Resend, Destroy, PeerCloses, TimePasses, Deref
<1>1. /\ Sockets
      /\ pc \in [Transport -> PC] /\ want \in [Transport -> Key]
      /\ conn \in [Transport -> Addr \cup {NULL}] /\ lease \in [Transport -> Addr \cup {NULL}]
      /\ \A u \in Transport : lease[u] \in {NULL, conn[u]}
  BY <1>0 DEF SocketInv, TypeInv, TypeOK, LeaseInv
<1>2. ASSUME NEW t \in Transport, Send(t) PROVE Sockets'
  BY <1>1, <1>2, SameSockets DEF Send
<1>3. ASSUME NEW t \in Transport, ReadDone(t) PROVE Sockets'
  <2>1. /\ conn[t] \in Addr /\ lease[t] = conn[t]
        /\ pc' = [pc EXCEPT ![t] = "idle"] /\ want' = want
    BY <1>1, <1>3 DEF ReadDone, Deref, TypeInv, PcHasConn
  <2>2. CASE DisconnectClear(t)
    <3>1. /\ Disconnect(t) /\ lease' = [LeaseAfterDisconnect(t) EXCEPT ![t] = NULL]
          /\ conn' = [conn EXCEPT ![t] = NULL]
      BY <2>2 DEF DisconnectClear
    <3>2. lease'[t] = NULL
      BY <3>1, OtherLeases
    <3> QED
      BY <1>0, <1>1, <2>1, <3>1, <3>2, GiveUpSockets
  <2>3. CASE /\ ReturnToPool(conn[t])
             /\ conn' = [conn EXCEPT ![t] = NULL]
             /\ lease' = [u \in Transport |->
                  IF u = t \/ lease[u] \in Scavanged(conn[t]) THEN NULL ELSE lease[u]]
    BY <1>0, <1>1, <2>1, <2>3, ReturnSockets
  <2> QED
    BY <1>3, <2>2, <2>3 DEF ReadDone
<1>4. ASSUME NEW t \in Transport, ReadTimesOut(t) PROVE Sockets'
  BY <1>4 DEF ReadTimesOut
<1>5. ASSUME NEW t \in Transport, ReadFails(t) PROVE Sockets'
  <2>1. /\ conn[t] \in Addr /\ lease[t] = conn[t] /\ pc[t] \in {"recv", "drop"}
        /\ pc' = [pc EXCEPT ![t] = "idle"] /\ UNCHANGED <<want, conn>>
        /\ Disconnect(t) /\ lease' = LeaseAfterDisconnect(t)
    BY <1>1, <1>5 DEF ReadFails, DisconnectKeep, Deref, TypeInv, PcHasConn
  <2> QED
    BY <1>0, <1>1, <2>1, GiveUpSockets
<1>6. ASSUME NEW t \in Transport, Resend(t) PROVE Sockets'
  <2>1. /\ conn[t] \in Addr /\ lease[t] = conn[t] /\ pc' = [pc EXCEPT ![t] = "tidy"]
        /\ \A u \in Transport \ {t} : want'[u] = want[u]
        /\ conn' = [conn EXCEPT ![t] = NULL]
        /\ Disconnect(t) /\ lease' = [LeaseAfterDisconnect(t) EXCEPT ![t] = NULL]
    BY <1>1, <1>6 DEF Resend, DisconnectClear, Deref, TypeInv, PcHasConn
  <2>2. lease'[t] = NULL
    BY <2>1, OtherLeases
  <2> QED
    BY <1>0, <1>1, <2>1, <2>2, GiveUpSockets
<1>7. ASSUME NEW t \in Transport, Destroy(t) PROVE Sockets'
  <2>1. /\ conn[t] \in Addr /\ lease[t] = conn[t] /\ pc' = [pc EXCEPT ![t] = "idle"]
        /\ want' = want /\ conn' = [conn EXCEPT ![t] = NULL]
        /\ Disconnect(t) /\ lease' = [LeaseAfterDisconnect(t) EXCEPT ![t] = NULL]
    BY <1>1, <1>7 DEF Destroy, DisconnectClear, Deref, TypeInv, TypeOK
  <2>2. lease'[t] = NULL
    BY <2>1, OtherLeases
  <2> QED
    BY <1>0, <1>1, <2>1, <2>2, GiveUpSockets
<1>8. ASSUME NEW t \in Transport, Receive(t) PROVE Sockets'
  BY <1>1, <1>8, SameSockets DEF Receive, Deref
<1>9. CASE \/ \E h \in Handle : PeerCloses(h)
           \/ TimePasses
           \/ UNCHANGED vars
  <2>1. UNCHANGED <<pool, node, conn, lease, pc, want>>
    BY <1>9 DEF PeerCloses, TimePasses, vars
  <2>2. \A h \in Handle : os'[h].to = os[h].to /\ (os'[h].st = "closed" <=> os[h].st = "closed")
    BY <1>9 DEF PeerCloses, TimePasses, vars, TypeInv, TypeOK, Socket
  <2>3. \A a \in Addr : node[a].socket \in Handle \cup {INVALID_SOCKET}
    BY DEF TypeInv, TypeOK, Node
  <2>4. Wired' /\ Owned'
    BY <1>1, <2>1, <2>2, <2>3 DEF Sockets, Wired, Owned
  <2> QED
    BY <1>1, <2>1, <2>4 DEF Sockets, UsesLease, KeyOfRequest, NoSocketYet
<1> QED
  BY <1>0, <1>1, <1>2, <1>3, <1>4, <1>5, <1>6, <1>7, <1>8, <1>9, SendStepSockets
  DEF Next, TransportStep

\* The socket invariant holds in every reachable state.
LEMMA SocketCorrect == Spec => [](TypeInv /\ LeaseInv /\ SocketInv)
<1>1. Init => SocketInv
  BY PoolConstants DEF Init, SocketInv, Sockets, UsesLease, KeyOfRequest, NoSocketYet, Wired,
     Owned, AtWork
<1>2. Init => LeaseInv
  BY DEF Init, LeaseInv, ExclusiveLease, LeasedInUse
<1> QED
  BY <1>1, <1>2, InitTypeInv, NextTypeInv, NextLease, NextSockets, PTL DEF Spec

\* On the desktop build a request travels on a socket dialed to where it has to go, with the
\* credentials it has, until a thread goes through a pointer to an erased node.
THEOREM GoesToRightEndpoint == DestroyOnDisconnect /\ Spec => []RightEndpoint
<1>1. ASSUME TypeInv, LeaseInv, SocketInv, DestroyOnDisconnect PROVE RightEndpoint
  <2> SUFFICES ASSUME ~astray, NEW t \in Transport, pc[t] \in {"send", "body", "recv"},
                      node[conn[t]].socket # INVALID_SOCKET
               PROVE  /\ node[conn[t]].key.auth = want[t].auth
                      /\ os[node[conn[t]].socket].to = Route(want[t])
    BY DEF RightEndpoint
  <2>1. lease[t] = conn[t] /\ conn[t] \in Addr
    BY <1>1 DEF SocketInv, Sockets, UsesLease, AtWork, TypeInv, TypeOK, PcHasConn
  <2>2. KeyEq(want[t], node[conn[t]].key)
    BY <1>1, <2>1, PoolConstants DEF SocketInv, Sockets, KeyOfRequest
  <2>3. want[t] \in Key /\ node[conn[t]].key \in Key
    BY <1>1, <2>1 DEF TypeInv, TypeOK, Node
  <2>4. os[node[conn[t]].socket].to = Route(node[conn[t]].key)
    BY <1>1, <2>1 DEF SocketInv, Sockets, Wired
  <2> QED
    BY <2>2, <2>3, <2>4, SameRoute
<1>2. CASE DestroyOnDisconnect
  <2>1. TypeInv /\ LeaseInv /\ SocketInv => RightEndpoint
    BY <1>1, <1>2
  <2> QED
    BY <2>1, SocketCorrect, PTL
<1> QED
  BY <1>2

\* And every open socket is idle in the pool or in the hands of a transport.
THEOREM NoSocketIsLost == DestroyOnDisconnect /\ Spec => []SocketsAccountedFor
<1>1. ASSUME SocketInv, DestroyOnDisconnect PROVE SocketsAccountedFor
  <2> SUFFICES ASSUME ~astray, NEW h \in Handle, os[h].st # "closed"
               PROVE  \E a \in pool : /\ node[a].socket = h
                                      /\ ~node[a].inUse \/ \E t \in Transport : lease[t] = a
    BY DEF SocketsAccountedFor
  <2>1. PICK a \in Addr : node[a].socket = h
    BY <1>1 DEF SocketInv, Sockets, Owned
  <2> QED
    BY <1>1, <2>1, PoolConstants DEF SocketInv, Sockets, Wired
<1>2. CASE DestroyOnDisconnect
  <2>1. SocketInv => SocketsAccountedFor
    BY <1>1, <1>2
  <2> QED
    BY <2>1, SocketCorrect, PTL
<1> QED
  BY <1>2

-----------------------------------------------------------------------------
(* The scavenger.  What it compares are ticks, which wrap; the properties    *)
(* speak of real time.  AgeInv ties the two together for the idle entries,   *)
(* and says, for the time before the first wrap, what the last scavenging    *)
(* has left.                                                                 *)

IdleEntries == {a \in pool : ~node[a].inUse}

StampInv == \A a \in IdleEntries : node[a].used = since[a] % TickMod /\ since[a] <= now

RecentInv ==
  now < TickMod =>
    /\ lastScavange <= now
    /\ \A a \in IdleEntries : lastScavange - since[a] <= MAX_CONNECTION_AGE

AgeInv == StampInv /\ RecentInv

\* A time is so many wraps of the counter and a tick.
LEMMA TickParts ==
  ASSUME NEW x \in Nat
  PROVE  /\ x \div TickMod \in Nat /\ x % TickMod \in 0 .. TickMod - 1
         /\ x = TickMod * (x \div TickMod) + (x % TickMod)
BY PoolConstants

\* A product grows with its factor.
LEMMA TimesMonotonic ==
  ASSUME NEW m \in Nat, NEW p \in Nat, NEW q \in Nat, p <= q
  PROVE  m * p <= m * q
<1>1. m * q = m * p + m * (q - p) /\ m * (q - p) \in Nat
  OBVIOUS
<1> QED
  BY <1>1

\* The difference of two ticks never exceeds the time between them, and is that time when
\* the counter has not wrapped in between.
LEMMA TickDifference ==
  ASSUME NEW x \in Nat, NEW y \in Nat, x <= y
  PROVE  /\ y - x >= (y % TickMod) - (x % TickMod)
         /\ y - x <= y % TickMod => y - x = (y % TickMod) - (x % TickMod)
<1> DEFINE p == x \div TickMod
           q == y \div TickMod
           r == x % TickMod
           s == y % TickMod
<1>1. /\ p \in Nat /\ q \in Nat /\ r \in 0 .. TickMod - 1 /\ s \in 0 .. TickMod - 1
      /\ x = TickMod * p + r /\ y = TickMod * q + s
  BY TickParts
<1> HIDE DEF p, q, r, s
<1>2. TickMod \in Nat
  BY PoolConstants
<1>3. p <= q
  <2> SUFFICES ASSUME q + 1 <= p PROVE FALSE
    BY <1>1
  <2>1. TickMod * (q + 1) <= TickMod * p
    BY <1>1, <1>2, TimesMonotonic
  <2>2. TickMod * (q + 1) = TickMod * q + TickMod
    BY <1>1, <1>2
  <2>3. TickMod * q \in Nat /\ TickMod * p \in Nat
    BY <1>1, <1>2
  <2> QED
    BY <1>1, <1>2, <2>1, <2>2, <2>3
<1>4. TickMod * p <= TickMod * q /\ TickMod * p \in Nat /\ TickMod * q \in Nat
  BY <1>1, <1>2, <1>3, TimesMonotonic
<1>5. y - x >= s - r
  BY <1>1, <1>4
<1>6. ASSUME y - x <= s PROVE y - x = s - r
  <2>1. x >= TickMod * q
    BY <1>1, <1>4, <1>6
  <2>2. q <= p
    <3> SUFFICES ASSUME p + 1 <= q PROVE FALSE
      BY <1>1
    <3>1. TickMod * (p + 1) <= TickMod * q
      BY <1>1, <1>2, TimesMonotonic
    <3>2. TickMod * (p + 1) = TickMod * p + TickMod
      BY <1>1, <1>2
    <3> QED
      BY <1>1, <1>2, <1>4, <2>1, <3>1, <3>2
  <2>3. p = q
    BY <1>1, <1>3, <2>2
  <2> QED
    BY <1>1, <1>4, <2>3
<1> QED
  BY <1>5, <1>6 DEF r, s

\* Until the counter wraps a tick is the time.
LEMMA TickIsTime == ASSUME NEW x \in Nat, x < TickMod PROVE x % TickMod = x
BY PoolConstants

\* Steps that return no connection to the pool leave the idle entries as they are, except
\* that findConnection takes one; and only connections in use are erased by them.
Quiet ==
  /\ UNCHANGED <<lastScavange, since>> /\ now' \in {now, now + 1}
  /\ \A a \in IdleEntries' : a \in IdleEntries /\ node'[a].used = node[a].used
  /\ \A a \in pool : node[a].inUse => node'[a].inUse
  /\ \A a \in pool \ pool' : ~astray' => node'[a].inUse

\* Giving a connection up is quiet: what it takes out of the pool was in use.
LEMMA DisconnectQuiet ==
  ASSUME TypeInv, LeaseInv, NEW t \in Transport, conn[t] \in Addr, Disconnect(t), Deref(t),
         UNCHANGED <<lastScavange, since, now>>
  PROVE  Quiet
<1>1. \A a \in Addr : node'[a].inUse = node[a].inUse /\ node'[a].used = node[a].used
  BY DEF Disconnect, TypeInv, TypeOK, Node
<1>2. pool' \subseteq pool /\ pool \subseteq Addr /\ pool \ pool' \subseteq {conn[t]}
  BY DEF Disconnect, TypeInv, TypeOK
<1>3. ASSUME ~astray', conn[t] \in pool PROVE node[conn[t]].inUse
  BY <1>3, PoolConstants DEF Deref, LeaseInv, LeasedInUse
<1> QED
  BY <1>1, <1>2, <1>3 DEF Quiet, IdleEntries

\* So is a step that leaves the pool and the times of use alone.
LEMMA SameQuiet ==
  ASSUME TypeInv, pool' = pool, UNCHANGED <<lastScavange, since>>, now' \in {now, now + 1},
         \A a \in pool : node'[a].used = node[a].used /\ (node[a].inUse => node'[a].inUse)
  PROVE  Quiet
BY DEF Quiet, IdleEntries

\* Only the return of a connection to the pool is not quiet, and it takes no time.
LEMMA StepQuiet ==
  ASSUME TypeInv, LeaseInv, [Next]_vars
  PROVE  Quiet \/ \E a \in Addr : ReturnToPool(a) /\ now' = now
<1>0. conn \in [Transport -> Addr \cup {NULL}] /\ pool \subseteq Addr
  BY DEF TypeInv, TypeOK
<1>1. ASSUME NEW t \in Transport, Tidy(t) PROVE Quiet
  <2>1. CASE conn[t] = NULL
    BY <1>1, <2>1, SameQuiet DEF Tidy
  <2>2. CASE conn[t] # NULL
    BY <1>0, <1>1, <2>2, DisconnectQuiet DEF Tidy, DisconnectKeep
  <2> QED
    BY <2>1, <2>2
<1>2. ASSUME NEW t \in Transport, FindPooled(t) PROVE Quiet
  <2>1. PICK a \in Reusable(want[t]) : node' = [node EXCEPT ![a].inUse = TRUE]
    BY <1>2 DEF FindPooled
  <2>2. \A b \in Addr : node'[b].used = node[b].used /\ (node[b].inUse => node'[b].inUse)
    BY <2>1 DEF TypeInv, TypeOK, Node
  <2> QED
    BY <1>0, <1>2, <2>2, SameQuiet DEF FindPooled
<1>3. ASSUME NEW t \in Transport, FindNew(t) PROVE Quiet
  <2>1. PICK a \in Addr \ pool :
          /\ pool' = pool \cup {a}
          /\ node' = [node EXCEPT ![a] = [key |-> want[t], inUse |-> TRUE,
                                          socket |-> INVALID_SOCKET, used |-> 0]]
    BY <1>3 DEF FindNew
  <2>2. node'[a].inUse /\ \A b \in Addr \ {a} : node'[b] = node[b]
    BY <2>1 DEF TypeInv, TypeOK
  <2>3. UNCHANGED <<lastScavange, since, now>>
    BY <1>3 DEF FindNew
  <2> QED
    BY <1>0, <2>1, <2>2, <2>3 DEF Quiet, IdleEntries
<1>4. ASSUME NEW t \in Transport, Connect(t) PROVE Quiet
  <2>1. conn[t] \in Addr
    BY <1>4 DEF Connect, TypeInv, TypeOK, PcHasConn
  <2>2. PICK h \in Handle : node' = [node EXCEPT ![conn[t]].socket = h]
    BY <1>4 DEF Connect
  <2>3. \A b \in Addr : node'[b].used = node[b].used /\ node'[b].inUse = node[b].inUse
    BY <2>1, <2>2 DEF TypeInv, TypeOK, Node
  <2> QED
    BY <1>0, <1>4, <2>3, SameQuiet DEF Connect
<1>5. ASSUME NEW t \in Transport, SendFails(t) PROVE Quiet
  <2>1. conn[t] \in Addr
    BY <1>5 DEF SendFails, TypeInv, TypeOK, PcHasConn
  <2>2. CASE DestroyOnDisconnect
    BY <1>5, <2>1, <2>2, DisconnectQuiet DEF SendFails, DisconnectKeep
  <2>3. CASE ~DestroyOnDisconnect
    BY <1>5, <2>3, SameQuiet DEF SendFails, HandleClosed
  <2> QED
    BY <2>2, <2>3
<1>6. ASSUME NEW t \in Transport, ReadDone(t)
      PROVE  Quiet \/ \E a \in Addr : ReturnToPool(a) /\ now' = now
  <2>1. conn[t] \in Addr
    BY <1>6 DEF ReadDone, TypeInv, TypeOK, PcHasConn
  <2>2. CASE DisconnectClear(t) /\ UNCHANGED <<lastScavange, since>>
    BY <1>6, <2>1, <2>2, DisconnectQuiet DEF ReadDone, DisconnectClear
  <2>3. CASE ReturnToPool(conn[t])
    BY <1>6, <2>1, <2>3 DEF ReadDone
  <2> QED
    BY <1>6, <2>2, <2>3 DEF ReadDone
<1>7. ASSUME NEW t \in Transport, ReadFails(t) \/ Resend(t) \/ Destroy(t) PROVE Quiet
  <2>1. conn[t] \in Addr
    BY <1>7 DEF ReadFails, Resend, Destroy, TypeInv, TypeOK, PcHasConn
  <2> QED
    BY <1>7, <2>1, DisconnectQuiet DEF ReadFails, Resend, Destroy, DisconnectKeep, DisconnectClear
<1>8. ASSUME NEW t \in Transport,
             \/ Send(t) \/ SocketFails(t) \/ PostConnect(t) \/ SendFirst(t) \/ SendRest(t)
             \/ Receive(t) \/ ReadTimesOut(t)
      PROVE  Quiet
  BY <1>8, SameQuiet DEF Send, SocketFails, PostConnect, SendFirst, SendRest, Receive, ReadTimesOut
<1>9. CASE (\E h \in Handle : PeerCloses(h)) \/ TimePasses \/ UNCHANGED vars
  BY <1>9, SameQuiet DEF PeerCloses, TimePasses, vars
<1> QED
  BY <1>1, <1>2, <1>3, <1>4, <1>5, <1>6, <1>7, <1>8, <1>9 DEF Next, TransportStep, SendStep

\* What returnToPool leaves idle: the entry at a with the time of now, others as they were, and,
\* when the scavenger ran, none with an older tick than OldestKept.
LEMMA AfterReturn ==
  ASSUME TypeInv, NEW a \in Addr, ReturnToPool(a)
  PROVE  /\ \A b \in IdleEntries' :
              \/ b = a /\ node'[b].used = Tick /\ since'[b] = now
              \/ b # a /\ b \in IdleEntries /\ node'[b].used = node[b].used /\ since'[b] = since[b]
         /\ ScavangeDue => lastScavange' = Tick
         /\ ~ScavangeDue => lastScavange' = lastScavange /\ pool' = pool
         /\ ScavangeDue => \A b \in IdleEntries' : ~(node'[b].used < OldestKept)
         /\ \A b \in pool \ pool' :
              \/ b = a /\ Tick < OldestKept
              \/ b # a /\ b \in IdleEntries /\ node[b].used < OldestKept /\ since'[b] = since[b]
<1>1. \A b \in Addr :
        /\ node'[b].inUse <=> (b # a /\ node[b].inUse)
        /\ node'[b].used = IF b = a THEN Tick ELSE node[b].used
        /\ since'[b] = IF b = a THEN now ELSE since[b]
  BY DEF ReturnToPool, TypeInv, TypeOK, Node
<1>2. pool' = pool \ Scavanged(a) /\ pool \subseteq Addr
  BY DEF ReturnToPool, TypeInv, TypeOK
<1>3. lastScavange' = IF ScavangeDue THEN Tick ELSE lastScavange
  BY DEF ReturnToPool
<1>4. ScavangeDue =>
        Scavanged(a) = {b \in pool : \/ b = a /\ Tick < OldestKept
                                     \/ b # a /\ ~node[b].inUse /\ node[b].used < OldestKept}
  BY DEF Scavanged
<1>5. ~ScavangeDue => Scavanged(a) = {}
  BY DEF Scavanged
<1> HIDE DEF Scavanged
<1> QED
  BY <1>1, <1>2, <1>3, <1>4, <1>5 DEF IdleEntries

\* Once the counter has passed MAX_CONNECTION_AGE, the subtraction does not wrap.
LEMMA OldestKeptIs ==
  ASSUME TypeInv, Tick >= MAX_CONNECTION_AGE
  PROVE  OldestKept = Tick - MAX_CONNECTION_AGE
<1>1. Tick \in 0 .. TickMod - 1
  BY TickType DEF Tick, TypeInv, TypeOK
<1>2. Tick - MAX_CONNECTION_AGE \in Nat /\ Tick - MAX_CONNECTION_AGE < TickMod
  BY <1>1, PoolConstants
<1> QED
  BY <1>2, TickIsTime DEF OldestKept

\* Every step keeps the bound on how long an idle entry stays.
LEMMA NextAge == TypeInv /\ LeaseInv /\ AgeInv /\ [Next]_vars => AgeInv'
<1> SUFFICES ASSUME TypeInv, LeaseInv, AgeInv, [Next]_vars PROVE AgeInv'
  OBVIOUS
<1>0. /\ now \in Nat /\ lastScavange \in Nat /\ since \in [Addr -> Nat] /\ pool \subseteq Addr
      /\ Tick \in 0 .. TickMod - 1
  BY TickType DEF Tick, TypeInv, TypeOK
<1>1. CASE Quiet
  <2>1. now <= now' /\ (now' < TickMod => now < TickMod)
    BY <1>0, <1>1, PoolConstants DEF Quiet
  <2>2. now' \in Nat
    BY <1>0, <1>1 DEF Quiet
  <2>3. StampInv'
    BY <1>0, <1>1, <2>1, <2>2 DEF Quiet, AgeInv, StampInv, IdleEntries
  <2>4. RecentInv'
    BY <1>0, <1>1, <2>1, <2>2 DEF Quiet, AgeInv, RecentInv, IdleEntries
  <2> QED
    BY <2>3, <2>4 DEF AgeInv
<1>2. ASSUME NEW a \in Addr, ReturnToPool(a), now' = now PROVE AgeInv'
  <2>1. \A b \in IdleEntries' :
          \/ b = a /\ node'[b].used = Tick /\ since'[b] = now
          \/ b # a /\ b \in IdleEntries /\ node'[b].used = node[b].used /\ since'[b] = since[b]
    BY <1>2, AfterReturn
  <2>2. StampInv'
    BY <1>0, <1>2, <2>1 DEF AgeInv, StampInv, Tick
  <2>3. ASSUME now < TickMod PROVE lastScavange' <= now'
    BY <1>0, <1>2, <2>3, AfterReturn, TickIsTime DEF Tick, AgeInv, RecentInv
  <2>4. ASSUME now < TickMod, NEW b \in IdleEntries'
        PROVE  lastScavange' - since'[b] <= MAX_CONNECTION_AGE
    <3>1. since'[b] \in Nat /\ since'[b] <= now
      <4>1. CASE b = a
        BY <1>0, <2>1, <4>1
      <4>2. CASE b # a
        BY <1>0, <2>1, <2>4, <4>2 DEF AgeInv, StampInv, IdleEntries
      <4> QED
        BY <4>1, <4>2
    <3>2. node'[b].used = since'[b]
      <4>1. node'[b].used = since'[b] % TickMod
        BY <2>2, <2>4 DEF StampInv
      <4>2. since'[b] < TickMod
        BY <2>4, <3>1, <1>0, PoolConstants
      <4> QED
        BY <3>1, <4>1, <4>2, TickIsTime
    <3>3. CASE ScavangeDue /\ Tick >= MAX_CONNECTION_AGE
      BY <1>0, <1>2, <2>4, <3>1, <3>2, <3>3, AfterReturn, OldestKeptIs, PoolConstants
    <3>4. CASE ScavangeDue /\ Tick < MAX_CONNECTION_AGE
      <4>1. lastScavange' = Tick
        BY <1>2, <3>4, AfterReturn
      <4> QED
        BY <1>0, <3>1, <3>4, <4>1, PoolConstants
    <3>5. CASE ~ScavangeDue
      <4>1. lastScavange' = lastScavange
        BY <1>2, <3>5, AfterReturn
      <4>2. CASE b = a
        BY <1>0, <2>1, <2>4, <4>1, <4>2, PoolConstants DEF AgeInv, RecentInv
      <4>3. CASE b # a
        BY <2>1, <2>4, <4>1, <4>3 DEF AgeInv, RecentInv
      <4> QED
        BY <4>2, <4>3
    <3> QED
      BY <1>0, <3>3, <3>4, <3>5, PoolConstants
  <2>5. RecentInv'
    BY <1>2, <2>3, <2>4 DEF RecentInv
  <2> QED
    BY <2>2, <2>5 DEF AgeInv
<1> QED
  BY <1>1, <1>2, StepQuiet

\* The stamps and ages of idle entries follow the clock throughout, with the invariants that needs.
LEMMA AgeCorrect == Spec => [](TypeInv /\ LeaseInv /\ AgeInv)
<1>1. Init => LeaseInv
  BY DEF Init, LeaseInv, ExclusiveLease, LeasedInUse
<1>2. Init => AgeInv
  <2> SUFFICES ASSUME Init PROVE AgeInv
    OBVIOUS
  <2>1. IdleEntries = {}
    BY DEF Init, IdleEntries
  <2>2. now < TickMod => lastScavange = now
    BY PoolConstants, TickIsTime DEF Init
  <2>3. now \in Nat
    BY PoolConstants DEF Init
  <2> QED
    BY <2>1, <2>2, <2>3 DEF AgeInv, StampInv, RecentInv
<1> QED
  BY <1>1, <1>2, InitTypeInv, NextTypeInv, NextLease, NextAge, PTL DEF Spec

\* Scavenging, in ticks, erases no connection that was used within MAX_CONNECTION_AGE of real
\* time and leaves none that is older, once the counter has passed that age.
LEMMA ScavangesStep ==
  ASSUME TypeInv, LeaseInv, AgeInv, [Next]_vars, Tick >= MAX_CONNECTION_AGE
  PROVE  /\ \A a \in pool \ pool' : ~astray' /\ ~node'[a].inUse => Old(a)
         /\ lastScavange' # lastScavange =>
              \A a \in pool' : ~node'[a].inUse /\ now - since'[a] <= Tick => ~Old(a)
<1>0. /\ now \in Nat /\ lastScavange \in Nat /\ since \in [Addr -> Nat] /\ pool \subseteq Addr
      /\ Tick \in 0 .. TickMod - 1 /\ Tick = now % TickMod
  BY TickType DEF Tick, TypeInv, TypeOK
<1>1. CASE Quiet
  BY <1>1 DEF Quiet
<1>2. ASSUME NEW a \in Addr, ReturnToPool(a), now' = now
      PROVE  /\ \A b \in pool \ pool' : Old(b)
             /\ lastScavange' # lastScavange =>
                  \A b \in pool' : ~node'[b].inUse /\ now - since'[b] <= Tick => ~Old(b)
  <2>1. AgeInv'
    BY NextAge
  <2>2. OldestKept = Tick - MAX_CONNECTION_AGE
    BY OldestKeptIs
  <2>3. ASSUME NEW b \in pool \ pool' PROVE Old(b)
    <3>1. b # a /\ b \in IdleEntries /\ node[b].used < OldestKept /\ since'[b] = since[b]
      BY <1>0, <1>2, <2>2, <2>3, AfterReturn, PoolConstants
    <3>2. since[b] \in Nat /\ since[b] <= now /\ node[b].used = since[b] % TickMod
      BY <1>0, <3>1 DEF AgeInv, StampInv, IdleEntries
    <3>3. now - since[b] >= Tick - node[b].used
      BY <1>0, <3>2, TickDifference
    <3>4. node[b].used \in Nat
      BY <3>2, TickParts
    <3> QED
      BY <1>0, <2>2, <3>1, <3>2, <3>3, <3>4, PoolConstants DEF Old
  <2>4. ASSUME lastScavange' # lastScavange, NEW b \in pool',
               ~node'[b].inUse, now - since'[b] <= Tick
        PROVE  ~Old(b)
    <3>1. b \in IdleEntries' /\ b \in Addr
      BY <2>4, NextTypeInv DEF IdleEntries, TypeInv, TypeOK
    <3>2. ~(node'[b].used < OldestKept)
      BY <1>2, <2>4, <3>1, AfterReturn
    <3>3. node'[b].used = since'[b] % TickMod /\ since'[b] <= now /\ since'[b] \in Nat
      BY <1>2, <2>1, <3>1, NextTypeInv DEF AgeInv, StampInv, TypeInv, TypeOK
    <3>4. now - since'[b] = Tick - node'[b].used
      BY <1>0, <2>4, <3>3, TickDifference
    <3>5. node'[b].used \in Nat
      BY <3>3, TickParts
    <3> QED
      BY <1>0, <2>2, <3>2, <3>3, <3>4, <3>5, PoolConstants DEF Old
  <2> QED
    BY <2>3, <2>4
<1> QED
  BY <1>1, <1>2, StepQuiet

\* Before the counter wraps, a return leaves nothing idle for longer than the age and the interval.
LEMMA IdleAgeStep ==
  ASSUME TypeInv, LeaseInv, AgeInv, [Next]_vars, now < TickMod,
         \E a \in pool : node[a].inUse /\ ~node'[a].inUse
  PROVE  \A a \in pool' : ~astray' /\ ~node'[a].inUse
           => now - since'[a] <= MAX_CONNECTION_AGE + SCAVANGE_INTERVAL
<1>0. /\ now \in Nat /\ lastScavange \in Nat /\ Tick = now
  BY TickIsTime DEF Tick, TypeInv, TypeOK
<1>1. CASE Quiet
  BY <1>1 DEF Quiet
<1>2. ASSUME NEW a \in Addr, ReturnToPool(a), now' = now, NEW b \in pool', ~node'[b].inUse
      PROVE  now - since'[b] <= MAX_CONNECTION_AGE + SCAVANGE_INTERVAL
  <2>1. AgeInv' /\ b \in IdleEntries' /\ since'[b] \in Nat
    BY <1>2, NextAge, NextTypeInv DEF IdleEntries, TypeInv, TypeOK
  <2>2. lastScavange' - since'[b] <= MAX_CONNECTION_AGE
    BY <1>2, <2>1 DEF AgeInv, RecentInv
  <2>3. CASE ScavangeDue
    BY <1>0, <1>2, <2>1, <2>2, <2>3, AfterReturn, PoolConstants
  <2>4. CASE ~ScavangeDue
    <3>1. lastScavange' = lastScavange
      BY <1>2, <2>4, AfterReturn
    <3>2. now <= lastScavange + SCAVANGE_INTERVAL
      <4>1. lastScavange + SCAVANGE_INTERVAL \in Nat
        BY <1>0, PoolConstants
      <4>2. (lastScavange + SCAVANGE_INTERVAL) % TickMod <= lastScavange + SCAVANGE_INTERVAL
        <5> DEFINE x == lastScavange + SCAVANGE_INTERVAL
        <5>1. /\ x \div TickMod \in Nat /\ x % TickMod \in 0 .. TickMod - 1
              /\ x = TickMod * (x \div TickMod) + (x % TickMod)
          BY <4>1, TickParts
        <5>2. TickMod * (x \div TickMod) \in Nat
          BY <5>1, PoolConstants
        <5> QED
          BY <5>1, <5>2
      <4>3. (lastScavange + SCAVANGE_INTERVAL) % TickMod \in Nat
        BY <4>1, TickParts
      <4>4. ~(now > (lastScavange + SCAVANGE_INTERVAL) % TickMod)
        BY <1>0, <2>4 DEF ScavangeDue
      <4> QED
        BY <1>0, <4>1, <4>2, <4>3, <4>4
    <3> QED
      BY <1>0, <2>1, <2>2, <3>1, <3>2, PoolConstants
  <2> QED
    BY <2>3, <2>4
<1> QED
  BY <1>1, <1>2, StepQuiet

\* scavangeConnections works on wrapping ticks beside the other threads, and still takes only
\* connections that were idle too long, and every one of them it can tell.
THEOREM ScavengesOnlyTheOld == Spec => Scavanges
<1>1. TypeInv /\ LeaseInv /\ AgeInv /\ [Next]_vars =>
        [Tick >= MAX_CONNECTION_AGE =>
           /\ \A a \in pool \ pool' : ~astray' /\ ~node'[a].inUse => Old(a)
           /\ lastScavange' # lastScavange =>
                \A a \in pool' : ~node'[a].inUse /\ now - since'[a] <= Tick => ~Old(a)]_vars
  BY ScavangesStep
<1> QED
  BY <1>1, AgeCorrect, PTL DEF Spec, Scavanges

\* No connection stays idle in the pool for longer than MAX_CONNECTION_AGE and SCAVANGE_INTERVAL
\* past a return, until the tick counter wraps.
THEOREM IdleAgeIsBounded == Spec => IdleAgeBounded
<1>1. TypeInv /\ LeaseInv /\ AgeInv /\ [Next]_vars =>
        [(\E a \in pool : node[a].inUse /\ ~node'[a].inUse) /\ now < TickMod =>
           \A a \in pool' : ~astray' /\ ~node'[a].inUse
             => now - since'[a] <= MAX_CONNECTION_AGE + SCAVANGE_INTERVAL]_vars
  BY IdleAgeStep
<1> QED
  BY <1>1, AgeCorrect, PTL DEF Spec, IdleAgeBounded
=============================================================================
