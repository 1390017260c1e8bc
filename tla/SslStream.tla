----------------------------- MODULE SslStream -----------------------------
(***************************************************************************)
(* One SSL connection of the desktop build: httpTransportBase of           *)
(* pockethttp/win32/httpBase.h, which opens a tunnel through the proxy, if *)
(* there is one, runs the SChannel handshake and then cuts records out of  *)
(* what recv returns (SSL_read) and packs requests into records            *)
(* (SSL_write), through one buffer for both directions.                    *)
(*                                                                         *)
(* A step is one call of recv, send or SChannel with what the code does    *)
(* until the next.  TCP may cut the server's bytes anywhere.  A byte on    *)
(* the wire is a pair <<r, j>>: byte j of record r, 0 being its header;    *)
(* a byte of data is the same pair, decrypted.                             *)
(***************************************************************************)
EXTENDS Integers, SequencesExt

CONSTANTS
  Sessions,      \* what servers send (see SessionType)
  Requests,      \* sizes of the requests of the application
  ReadSizes,     \* cbretBuff: what the transport asks SSL_read for
  MAX_MESSAGE,   \* m_Sizes.cbMaximumMessage: the most data in a record
  FIX,           \* SSL_BUF_SIZE_FIX
  IO_BUFFER_SIZE \* of the handshake's buffer

ASSUME SslConstants ==
  /\ Requests \subseteq Nat \ {0}
  /\ ReadSizes \subseteq Nat \ {0} /\ \E n \in ReadSizes : \A m \in ReadSizes : m <= n
  /\ MAX_MESSAGE \in Nat \ {0} /\ FIX \in Nat /\ IO_BUFFER_SIZE \in Nat \ {0}

VARIABLES
  session,     \* what this server does
  arrived,     \* how many bytes recv has taken from the wire
  asked,       \* requests the server has got
  schannel,    \* the records SChannel has taken: its m_hContext and sequence numbers
  cred,        \* m_CredHandle: "none", "held", "client" (with a certificate), "freed"
  context,     \* m_hContext: "none", "held" or "deleted"
  active,      \* m_sslActive
  res,         \* what the proxy said, in SetupSSLProxy
  io, doRead,  \* IoBuffer and fDoRead of ClientHandshakeLoop
  extra,       \* m_ExtraData
  buff,        \* m_sendBuff up to m_cbRead
  readBuffer,  \* m_readBuffer
  pc, cb,      \* where the connection is; what the call in progress asked for
  size,        \* what SendChunk still has to send
  got,         \* history: the data SSL_read has returned
  result       \* history: what the last call returned

tls == <<schannel, cred, context, active>>
handshake == <<res, io, doRead>>
vars == <<session, arrived, asked, tls, handshake, extra, buff, readBuffer, pc, cb,
          size, got, result>>

BUFF_SIZE == MAX_MESSAGE + 1 + FIX     \* cbBuff, and the size of m_sendBuff
Least(a, b) == IF a < b THEN a ELSE b
From(s, i) == SubSeq(s, i, Len(s))
-----------------------------------------------------------------------------
(* The server.  A session lists its records: what each is ("hs", a part of  *)
(* the handshake; "cert", one that asks for a certificate; "data"; "notify", *)
(* close_notify), its length, and after how many requests it is sent.  The  *)
(* server then closes the connection or keeps it; whole says that no recv    *)
(* or send fails and no record is damaged.  lacks names what this machine    *)
(* cannot do, or finds wanting in the server's certificate; chains says of   *)
(* each client certificate the server would take whether AcquireCredentials- *)
(* Handle accepts it; reply is what the proxy answers to CONNECT: "200" and  *)
(* other text, cut at its line ends ("eol") and its empty line ("end").      *)
SessionType ==
  [records : Seq([kind : {"hs", "cert", "data", "notify"}, n : 0..MAX_MESSAGE, after : Nat]),
   close : BOOLEAN, whole : BOOLEAN,
   lacks : SUBSET {"library", "store", "credentials", "certificate", "chain", "policy", "sizes"},
   chains : Seq(BOOLEAN), proxied : BOOLEAN, reply : Seq({"200", "text", "eol", "end"})]

ASSUME SslSessions == Sessions \subseteq SessionType

\* TLS sends no data before its handshake is over, and has one
IsShake(record) == record.kind \in {"hs", "cert"}
ASSUME SslHandshakes ==
  \A s \in Sessions :
    /\ \E r \in DOMAIN s.records : IsShake(s.records[r])
    /\ \A q, r \in DOMAIN s.records : q < r /\ IsShake(s.records[r]) => IsShake(s.records[q])

\* What a server that does not fail sends: its records in their order, data in every data record,
\* and nothing behind close_notify
ASSUME SslServers ==
  \A s \in Sessions : s.whole =>
    /\ \A q, r \in DOMAIN s.records :
         q < r => s.records[q].after <= s.records[r].after /\ s.records[q].kind # "notify"
    /\ \A r \in DOMAIN s.records : s.records[r].kind = "data" => s.records[r].n > 0

Records == DOMAIN session.records
Cells(r) == [j \in 1..session.records[r].n + 1 |-> <<r, j - 1>>]
IsData(r) == session.records[r].kind = "data"
Plain(r) == IF IsData(r) THEN Tail(Cells(r)) ELSE <<>>

Wire == FlattenSeq([r \in Records |-> Cells(r)])
Text == FlattenSeq([r \in Records |-> Plain(r)])

\* The records sent by now: the handshake's, and what the requests so far ask for
SentBy(q) == FlattenSeq([r \in Records |-> IF session.records[r].after <= q THEN Cells(r) ELSE <<>>])
DataSent == FlattenSeq([r \in Records |-> IF session.records[r].after <= asked THEN Plain(r) ELSE <<>>])
AllSent == Len(SentBy(asked)) = Len(Wire)

\* What a recv for n bytes may yield: bytes, or nothing for a closed connection
\* and for SOCKET_ERROR (a timeout too)
Recv(n) ==
  LET here == From(SentBy(asked), arrived + 1)
  IN {SubSeq(here, 1, k) : k \in 1..Least(n, Len(here))}
     \cup (IF n = 0 \/ (here = <<>> /\ session.close /\ AllSent) \/ ~session.whole
           THEN {<<>>} ELSE {})

\* The record SChannel expects is whole at the start of b, or may still become so
Next1 == schannel + 1
Complete(b) == Next1 \in Records /\ IsPrefix(Cells(Next1), b)
Partial(b) == Next1 \in Records /\ IsStrictPrefix(b, Cells(Next1))
Leftover(b) == From(b, Len(Cells(Next1)) + 1)
-----------------------------------------------------------------------------
(* PreConnect and PostConnect *)

\* What ClientHandshakeLoop begins with: an empty IoBuffer
LoopBegins == io' = <<>> /\ doRead' = TRUE

\* The connection is given up, as the caller does when it fails
Fails ==
  /\ pc' = "failed"
  /\ result' = "error"

\* SChannel's function table, and the store of the client's certificates; what
\* failed is tried again by the next connection
LoadSecurityLibrary == "library" \notin session.lacks
InitSSL == LoadSecurityLibrary /\ "store" \notin session.lacks

\* Credentials without a certificate.  The caller does not look at the result.
CreateCredentials == IF "credentials" \in session.lacks THEN "none" ELSE "held"

PreConnect ==
  /\ pc = "new"
  /\ IF InitSSL THEN /\ cred' = CreateCredentials
                     /\ pc' = IF session.proxied THEN "tunnel" ELSE "hello"
                     /\ UNCHANGED result
                ELSE Fails /\ UNCHANGED cred
  /\ UNCHANGED <<session, arrived, asked, schannel, context, active, handshake, extra, buff,
                 readBuffer, cb, size, got>>

\* The proxy said "200" in the first line of its answer, as far as it came
LineEnd(t) == t \in {"eol", "end"}
Opened(s) ==
  \E i \in DOMAIN s : /\ s[i] = "200" /\ \A j \in 1..i : ~LineEnd(s[j])
                      /\ \E j \in i..Len(s) : LineEnd(s[j])

\* SetupSSLProxy: the answer to CONNECT is read up to its empty line, or until recv
\* yields nothing, which is all that a CONNECT that could not be sent leads to
SetupSSLProxy ==
  /\ pc = "tunnel"
  /\ \E k \in Len(res)..Len(session.reply) :
       /\ k = Len(res) => res = session.reply \/ ~session.whole
       /\ res' = SubSeq(session.reply, 1, k)
       /\ IF k > Len(res) /\ ~Contains(res', "end") THEN UNCHANGED <<pc, result>>
          ELSE IF Opened(res') THEN pc' = "hello" /\ UNCHANGED result
          ELSE Fails
  /\ UNCHANGED <<session, arrived, asked, tls, io, doRead, extra, buff, readBuffer, cb, size, got>>

\* PerformClientHandshake up to its loop: SChannel makes the ClientHello, which is sent
Hello ==
  /\ pc = "hello"
  /\ \/ cred # "none" /\ pc' = "shake" /\ context' = "held" /\ UNCHANGED result
     \/ (cred = "none" \/ ~session.whole) /\ Fails /\ UNCHANGED context
     \/ cred # "none" /\ ~session.whole /\ Fails /\ context' = "deleted"
  /\ LoopBegins
  /\ UNCHANGED <<session, arrived, asked, schannel, cred, active, res, extra, buff, readBuffer,
                 cb, size, got>>

\* ClientHandshakeLoop reads when it has nothing, or not enough.  It skips one
\* read after a certificate was asked for.
NeedsInput == io = <<>> \/ Partial(io)
IoRoom == IO_BUFFER_SIZE - Len(io)
ShakeRead ==
  /\ pc = "shake" /\ NeedsInput
  /\ IF ~doRead THEN doRead' = TRUE /\ UNCHANGED <<io, arrived, pc, context, result>>
     ELSE \E bytes \in Recv(IoRoom) :
            /\ arrived' = arrived + Len(bytes)
            /\ io' = io \o bytes
            /\ IF bytes = <<>> THEN Fails /\ context' = "deleted"
               ELSE UNCHANGED <<pc, context, result>>
            /\ UNCHANGED doRead
  /\ UNCHANGED <<session, asked, schannel, cred, active, res, extra, buff, readBuffer, cb, size,
                 got>>

\* The client's first certificate that makes credentials replaces what is held
GetNewClientCredentials == IF Contains(session.chains, TRUE) THEN "client" ELSE cred

\* InitializeSecurityContext wants a certificate, and with one or without one the
\* same input is passed again
ShakeCert ==
  /\ pc = "shake" /\ Complete(io) /\ session.records[Next1].kind = "cert"
  /\ doRead                       \* not asked again for the same record
  /\ cred' = GetNewClientCredentials
  /\ doRead' = FALSE
  /\ UNCHANGED <<session, arrived, asked, schannel, context, active, res, io, extra, buff,
                 readBuffer, pc, cb, size, got, result>>

\* The bundled data that the handshake's last record leaves; a mutant drops it
BugBundled(rest) == <<>>
Bundled(rest) == rest

\* InitializeSecurityContext takes a record, and the answer to it is sent: the
\* handshake goes on with what is left, or is over (SEC_E_OK)
LastShake == \A r \in Records : r > Next1 => ~IsShake(session.records[r])
ShakeTakes ==
  /\ pc = "shake" /\ Complete(io)
  /\ session.records[Next1].kind = "cert" => ~doRead
  /\ schannel' = Next1
  /\ IF LastShake THEN extra' = Bundled(Leftover(io)) /\ io' = <<>> /\ pc' = "verify"
                  ELSE io' = Leftover(io) /\ UNCHANGED <<extra, pc>>
  /\ UNCHANGED <<session, arrived, asked, cred, context, active, res, doRead, buff, readBuffer,
                 cb, size, got, result>>

\* It fails, or its answer cannot be sent
ShakeFails ==
  /\ pc = "shake" /\ io # <<>> /\ ~session.whole
  /\ Fails /\ context' = "deleted"
  /\ UNCHANGED <<session, arrived, asked, schannel, cred, active, handshake, extra, buff,
                 readBuffer, cb, size, got>>

\* The server's certificate is there, leads to a trusted root, and is one for it
VerifyServerCertificate == {"certificate", "chain", "policy"} \cap session.lacks = {}

\* A call that checks the certificate fails.  VerifyServerCertificate returns GetLastError(),
\* which may be 0, a success, or positive, which is no failure to Send
Unchecked == {"chain", "policy"} \cap session.lacks # {} /\ "certificate" \notin session.lacks

\* What PostConnect checks before it allocates m_sendBuff.  A transport that goes on without
\* one writes at address 0
Verify ==
  /\ pc = "verify"
  /\ active' = TRUE
  /\ \/ /\ VerifyServerCertificate \/ Unchecked
        /\ "sizes" \notin session.lacks
        /\ pc' = "ready" /\ UNCHANGED result
     \/ Unchecked /\ pc' = "crashed" /\ UNCHANGED result
     \/ ({"certificate", "chain", "policy", "sizes"} \cap session.lacks # {}) /\ Fails
  /\ UNCHANGED <<session, arrived, asked, schannel, cred, context, handshake, extra, buff,
                 readBuffer, cb, size, got>>
-----------------------------------------------------------------------------
(* SendChunk *)

\* The transport sends a request when it has read what the server sent before, and was
\* not told of the end
SendChunk ==
  /\ pc = "ready" /\ result # "end" /\ got = DataSent /\ ~AllSent
  /\ \E n \in Requests : size' = n
  /\ pc' = "send"
  /\ UNCHANGED <<session, arrived, asked, tls, handshake, extra, buff, readBuffer, cb, got,
                 result>>

\* SSL_write of one record, in m_sendBuff whatever is there; the server answers
\* when the last one is out
SslWrite ==
  LET n == Least(size, MAX_MESSAGE) + 1 IN
  /\ pc = "send"
  /\ buff' = [i \in DOMAIN buff |-> IF i <= n THEN <<0, 0>> ELSE buff[i]]
  /\ size' = size - (n - 1)
  /\ IF size' = 0 THEN asked' = asked + 1 /\ pc' = "ready" ELSE UNCHANGED <<asked, pc>>
  /\ UNCHANGED <<session, arrived, tls, handshake, extra, readBuffer, cb, got, result>>

SslWriteFails ==
  /\ pc = "send" /\ ~session.whole
  /\ Fails
  /\ UNCHANGED <<session, arrived, asked, tls, handshake, extra, buff, readBuffer, cb, size, got>>
-----------------------------------------------------------------------------
(* SSL_read *)

Returns(data) ==
  /\ got' = got \o data
  /\ result' = IF data = <<>> THEN "end" ELSE "more"
  /\ pc' = "ready"

\* The transport reads while an answer is due, or to see the connection's end
MayRead == got # DataSent \/ (AllSent /\ session.close)

\* A mutant: what did not fit the caller's buffer is not looked for
BugRead(n) ==
  /\ pc = "ready" /\ MayRead
  /\ cb' = n
  /\ pc' = "read"
  /\ extra' = <<>>
  /\ buff' = IF extra # <<>> THEN extra ELSE buff
  /\ UNCHANGED <<readBuffer, got, result>>
  /\ UNCHANGED <<session, arrived, asked, tls, handshake, size>>

\* SSL_read up to its loop: data decrypted before, or bundled with the handshake
Read(n) ==
  /\ pc = "ready" /\ MayRead
  /\ cb' = n
  /\ IF readBuffer # <<>>
     THEN /\ Returns(SubSeq(readBuffer, 1, Least(n, Len(readBuffer))))
          /\ readBuffer' = From(readBuffer, n + 1)
          /\ UNCHANGED <<extra, buff>>
     ELSE /\ pc' = "read"
          /\ extra' = <<>>
          /\ buff' = IF extra # <<>> THEN extra ELSE buff
          /\ UNCHANGED <<readBuffer, got, result>>
  /\ UNCHANGED <<session, arrived, asked, tls, handshake, size>>

\* Does the loop call recv: nothing is there, or DecryptMessage found too little
Waits == buff = <<>> \/ Partial(buff)

\* recv in the loop; no bytes end the call
ReadRecv ==
  /\ pc = "read" /\ Waits
  /\ \E bytes \in Recv(BUFF_SIZE - Len(buff)) :
       /\ arrived' = arrived + Len(bytes)
       /\ buff' = buff \o bytes
       /\ IF bytes = <<>> THEN Returns(<<>>) ELSE UNCHANGED <<pc, got, result>>
  /\ UNCHANGED <<session, asked, tls, handshake, extra, readBuffer, cb, size>>

\* A mutant: what follows the record is dropped
BugLeft == <<>>

\* What stays in m_sendBuff once a record was taken (SECBUFFER_EXTRA)
Left == Leftover(buff)

\* DecryptMessage takes a record: its data goes to the caller, and to m_readBuffer
\* what does not fit
Decrypt ==
  /\ pc = "read" /\ ~Waits /\ Complete(buff)
  /\ LET data == Plain(Next1) IN
       /\ Returns(SubSeq(data, 1, Least(cb, Len(data))))
       /\ readBuffer' = From(data, cb + 1)
  /\ buff' = Left
  /\ schannel' = Next1
  /\ UNCHANGED <<session, arrived, asked, cred, context, active, handshake, extra, cb, size>>

\* DecryptMessage fails: what is there is no record, not the next one, or damaged
DecryptFails ==
  /\ pc = "read" /\ ~Waits /\ (~session.whole \/ ~Complete(buff))
  /\ buff' = <<>>
  /\ Returns(<<>>)
  /\ UNCHANGED <<session, arrived, asked, tls, handshake, extra, readBuffer, cb, size>>
-----------------------------------------------------------------------------
\* A mutant: no SSL shutdown
BugDisconnectFromServer == UNCHANGED <<context, cred>>

\* DisconnectFromServer (it deletes the context however it goes), and the
\* credentials with it
DisconnectFromServer ==
  IF active THEN context' = "deleted" /\ cred' = "freed" ELSE UNCHANGED <<context, cred>>

\* Disconnect(): the transport gives the connection up once an answer is due to
\* be over, or a call failed; the object goes with its list node
Disconnect ==
  /\ pc = "failed" \/ (pc = "ready" /\ (result = "end" \/ (got = DataSent /\ asked > 0)))
  /\ DisconnectFromServer
  /\ pc' = "closed"
  /\ UNCHANGED <<session, arrived, asked, schannel, active, handshake, extra, buff,
                 readBuffer, cb, size, got, result>>

Init ==
  /\ session \in Sessions
  /\ arrived = 0 /\ asked = 0 /\ schannel = 0
  /\ cred = "none" /\ context = "none" /\ active = FALSE
  /\ res = <<>> /\ io = <<>> /\ doRead = TRUE
  /\ extra = <<>> /\ buff = <<>> /\ readBuffer = <<>>
  /\ pc = "new" /\ cb = 0 /\ size = 0
  /\ got = <<>> /\ result = "none"

Connect ==
  PreConnect \/ SetupSSLProxy \/ Hello \/ ShakeRead \/ ShakeCert \/ ShakeTakes \/ ShakeFails \/ Verify
Write == SendChunk \/ SslWrite \/ SslWriteFails
ReadStep == ReadRecv \/ Decrypt \/ DecryptFails
Reads == result # "end" /\ \E n \in ReadSizes : Read(n)

Next == Connect \/ Write \/ Reads \/ ReadStep \/ Disconnect

Spec == Init /\ [][Next]_vars

\* The thread of the transport runs; every recv ends, by its timeout at the latest
FairSpec == Spec /\ WF_vars(Connect) /\ WF_vars(Write) /\ WF_vars(Reads) /\ WF_vars(ReadStep)
-----------------------------------------------------------------------------
(* Properties *)

TypeOK ==
  /\ session \in Sessions
  /\ arrived \in 0..Len(Wire) /\ asked \in Nat /\ schannel \in 0..Len(session.records)
  /\ cred \in {"none", "held", "client", "freed"} /\ context \in {"none", "held", "deleted"}
  /\ active \in BOOLEAN /\ doRead \in BOOLEAN
  /\ Len(io) <= IO_BUFFER_SIZE /\ Len(buff) <= BUFF_SIZE /\ Len(readBuffer) <= MAX_MESSAGE
  /\ pc \in {"new", "tunnel", "hello", "shake", "verify", "ready", "send", "read", "failed", "closed", "crashed"}
  /\ result \in {"none", "more", "end", "error"}

\* The connection never waits for the peer while a whole record, or data already
\* decrypted, lies in its own buffers: the peer may be waiting for the client by
\* then, and the answer would be lost to the timeout.
NeverWaitsWithData ==
  pc = "read" /\ Waits => ~Complete(buff) /\ readBuffer = <<>> /\ extra = <<>>

\* A connection that is closed has given its SChannel context back, however far the
\* handshake, the check of the certificate or the requests got.
ContextReleased == pc = "closed" => context # "held"

\* Whatever the records, the segments of TCP and the sizes of the reads, the
\* transport sees what BodyStream promises: the server's data in order, and of a
\* whole session all of it before an end is reported.  Every data record has data
\* in it, as SSL_read takes an empty one for the end.
Stream == INSTANCE BodyStream WITH
  MaxPiece <- CHOOSE n \in ReadSizes : \A m \in ReadSizes : m <= n,
  whole <- session.whole,
  given <- got,
  rest  <- From(Text, Len(got) + 1),
  ended <- result = "end",
  held  <- result # "end"
ImplementsStream == Stream!Spec

\* Of a session without failures, through a proxy that opens the tunnel or without
\* one, a request is sent in the end, and its answer, with all that came before it,
\* is read to its end.
AnswersArrive ==
  session.whole /\ session.lacks = {} /\ (session.proxied => Opened(session.reply)) ~> asked > 0 /\ got = DataSent
=============================================================================
