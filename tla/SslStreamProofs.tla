-------------------------- MODULE SslStreamProofs --------------------------
(***************************************************************************)
(* Machine-checked proofs about SslStream: for every server, every         *)
(* segmentation of its bytes and every size of requests, reads and         *)
(* records.                                                                *)
(***************************************************************************)
EXTENDS SslStream, SequenceLemmas

\* What the buffers hold is a sequence, of whatever arrived
IsSeq(x) == \E S : x \in Seq(S)
BuffInv == session \in Sessions /\ IsSeq(buff) /\ IsSeq(extra) /\ IsSeq(io)

\* SSL_read enters its loop with nothing left from the calls before but what is in
\* m_sendBuff, and keeps it so.
LoopInv == pc = "read" => readBuffer = <<>> /\ extra = <<>>

\* How far the connection got, and what Disconnect() has to give back: only a connection
\* with m_sslActive passes its handshake, and one that fails before has no context left.
ContextInv ==
  /\ active \in BOOLEAN
  /\ pc \in {"new", "tunnel", "hello"} => context = "none"
  /\ pc \in {"ready", "send", "read"} => active
  /\ pc \in {"failed", "closed"} => active \/ context # "held"
  /\ ContextReleased

\* The bytes of data, the data of each record, and what all records up to the k-th have
Cell == Nat \X Nat
Plains == [r \in Records |-> Plain(r)]
Given == CHOOSE sums \in [0..Len(Plains) -> Seq(Cell)] : Sums(sums, Plains)

\* What was decrypted is the data of the records SChannel has taken: the transport has it, or
\* m_readBuffer does.  The handshake takes no data, and a connection that told of the end is
\* not used again.
TakenInv ==
  /\ session \in Sessions
  /\ schannel \in 0..Len(session.records)
  /\ got \in Seq(Cell) /\ readBuffer \in Seq(Cell) /\ got \o readBuffer = Given[schannel]
PhaseInv ==
  /\ pc \in {"new", "tunnel", "hello", "shake"} =>
       \E r \in Records : r > schannel /\ IsShake(session.records[r])
  /\ pc = "read" => cb \in ReadSizes
  /\ result = "end" => pc \in {"ready", "closed"}
OrderInv == TakenInv /\ PhaseInv

\* What BodyStream promises, but for the promise that a whole session is read to its end
InOrder == INSTANCE BodyStream WITH
  MaxPiece <- CHOOSE n \in ReadSizes : \A m \in ReadSizes : m <= n,
  whole <- FALSE,
  given <- got,
  rest  <- From(Text, Len(got) + 1),
  ended <- result = "end",
  held  <- result # "end"
DeliversInOrder == InOrder!Spec
-----------------------------------------------------------------------------
(* Buffers *)

\* A sequence over S is one over any larger set.
LEMMA SeqGrows ==
  ASSUME NEW S, NEW T, S \subseteq T, NEW x \in Seq(S)
  PROVE  x \in Seq(T)
OBVIOUS

\* The first k elements of whatever there is.
LEMMA FirstIs ==
  ASSUME NEW h, NEW k \in Nat
  PROVE  SubSeq(h, 1, k) = [i \in 1..k |-> h[i]]
OBVIOUS

\* They are a sequence.
LEMMA FirstIsSeq ==
  ASSUME NEW h, NEW k \in Nat
  PROVE  IsSeq(SubSeq(h, 1, k))
<1>1. SubSeq(h, 1, k) \in Seq({h[i] : i \in 1..k})
  OBVIOUS
<1> QED
  BY <1>1 DEF IsSeq

\* The rest of a buffer.
LEMMA RestIsSeq ==
  ASSUME NEW x, IsSeq(x), NEW k \in Nat \ {0}
  PROVE  IsSeq(From(x, k))
<1>1. PICK S : x \in Seq(S)
  BY DEF IsSeq
<1>2. SubSeq(x, k, Len(x)) \in Seq(S)
  BY <1>1
<1> QED
  BY <1>2 DEF IsSeq, From

\* Bytes added to a buffer.
LEMMA AddedIsSeq ==
  ASSUME NEW x, NEW y, IsSeq(x), IsSeq(y)
  PROVE  IsSeq(x \o y)
<1>1. PICK S, T : x \in Seq(S) /\ y \in Seq(T)
  BY DEF IsSeq
<1>2. x \in Seq(S \cup T) /\ y \in Seq(S \cup T)
  BY <1>1, SeqGrows
<1>3. x \o y \in Seq(S \cup T)
  BY <1>2
<1> QED
  BY <1>3 DEF IsSeq

\* Nothing is a sequence.
LEMMA NoneIsSeq ==
  IsSeq(<<>>)
<1>1. <<>> \in Seq({})
  OBVIOUS
<1> QED
  BY <1>1 DEF IsSeq

\* What recv returns is a sequence of bytes.
LEMMA RecvIsSeq ==
  ASSUME NEW n, NEW bytes \in Recv(n)
  PROVE  IsSeq(bytes)
<1>1. PICK here : here = From(SentBy(asked), arrived + 1)
  OBVIOUS
<1>2. CASE bytes = <<>>
  BY <1>2, NoneIsSeq
<1>3. CASE \E k \in 1..Least(n, Len(here)) : bytes = SubSeq(here, 1, k)
  <2>1. PICK k \in 1..Least(n, Len(here)) : bytes = SubSeq(here, 1, k)
    BY <1>3
  <2>2. k \in Nat
    OBVIOUS
  <2> QED
    BY <2>1, <2>2, FirstIsSeq
<1> QED
  BY <1>1, <1>2, <1>3 DEF Recv

\* The record SChannel expects: its header and what follows.
LEMMA CellsAre ==
  ASSUME session \in Sessions, Next1 \in Records
  PROVE  Len(Cells(Next1)) = session.records[Next1].n + 1 /\ session.records[Next1].n \in Nat
<1>1. PICK rs, i, T : /\ rs = session.records /\ i = Next1
                      /\ T = [kind : {"hs", "cert", "data", "notify"}, n : 0..MAX_MESSAGE, after : Nat]
  OBVIOUS
<1>2. rs \in Seq(T)
  BY <1>1, SslSessions DEF SessionType
<1>3. i \in 1..Len(rs)
  BY <1>1, <1>2 DEF Records
<1>4. rs[i] \in T
  BY <1>2, <1>3
<1>5. session.records[Next1].n \in Nat
  BY <1>1, <1>4, SslConstants
<1> QED
  BY <1>5 DEF Cells

\* A buffer that holds a whole record is neither empty nor the beginning of that record.
LEMMA WholeRecord ==
  ASSUME session \in Sessions, IsSeq(buff), Waits
  PROVE  ~Complete(buff)
<1> SUFFICES ASSUME Complete(buff) PROVE FALSE
  OBVIOUS
<1>1. PICK S, c, n : buff \in Seq(S) /\ c = Cells(Next1) /\ n = session.records[Next1].n + 1
  BY DEF IsSeq
<1>2. n \in Nat /\ n > 0 /\ Len(c) = n /\ c = [j \in 1..n |-> <<Next1, j - 1>>]
  BY <1>1, CellsAre DEF Complete, Cells
<1>3. n <= Len(buff) /\ SubSeq(c, 1, n) = SubSeq(buff, 1, n)
  BY <1>1, <1>2 DEF Complete, IsPrefix
<1>4. buff # <<>>
  BY <1>1, <1>2, <1>3
<1>5. Len(buff) <= n /\ buff # c
  BY <1>1, <1>2, <1>4 DEF Waits, Partial, IsPrefix, IsStrictPrefix
<1>6. Len(buff) = n /\ Len(buff) \in Nat
  BY <1>1, <1>2, <1>3, <1>5
<1>7. \A j \in 1..n : buff[j] = c[j]
  <2>1. SubSeq(c, 1, n) = [j \in 1..n |-> c[j]] /\ SubSeq(buff, 1, n) = [j \in 1..n |-> buff[j]]
    BY <1>2, FirstIs
  <2>2. [j \in 1..n |-> buff[j]] = [j \in 1..n |-> c[j]]
    BY <1>3, <2>1
  <2> QED
    BY <2>2
<1>8. buff = c
  <2>1. buff = [j \in 1..n |-> buff[j]]
    BY <1>1, <1>6
  <2>2. c = [j \in 1..n |-> c[j]]
    BY <1>2
  <2>3. [j \in 1..n |-> buff[j]] = [j \in 1..n |-> c[j]]
    BY <1>7
  <2> QED
    BY <2>1, <2>2, <2>3
<1> QED
  BY <1>5, <1>8
-----------------------------------------------------------------------------
(* The steps *)

\* The first steps of a connection leave m_sendBuff and the buffers of SSL_read alone, but
\* for what the handshake leaves.
LEMMA ConnectKeepsBuffers ==
  ASSUME BuffInv, Connect
  PROVE  BuffInv'
<1>1. CASE ShakeRead
  <2>1. io' = io \/ \E bytes \in Recv(IoRoom) : io' = io \o bytes
    BY <1>1 DEF ShakeRead
  <2>2. IsSeq(io)'
    BY <2>1, RecvIsSeq, AddedIsSeq DEF BuffInv
  <2> QED
    BY <1>1, <2>2 DEF BuffInv, ShakeRead
<1>2. CASE ShakeTakes
  <2>1. Len(Cells(Next1)) + 1 \in Nat \ {0}
    BY <1>2, CellsAre DEF BuffInv, ShakeTakes, Complete
  <2>2. IsSeq(Leftover(io))
    BY <2>1, RestIsSeq DEF BuffInv, Leftover
  <2>3. IsSeq(io)' /\ IsSeq(extra)'
    BY <1>2, <2>2, NoneIsSeq DEF BuffInv, ShakeTakes, Bundled
  <2> QED
    BY <1>2, <2>3 DEF BuffInv, ShakeTakes
<1>3. CASE Hello
  BY <1>3, NoneIsSeq DEF BuffInv, Hello, LoopBegins
<1>4. CASE PreConnect \/ SetupSSLProxy \/ ShakeCert \/ ShakeFails \/ Verify
  BY <1>4 DEF BuffInv, PreConnect, SetupSSLProxy, ShakeCert, ShakeFails, Verify, Unchecked, Fails, handshake, tls
<1> QED
  BY <1>1, <1>2, <1>3, <1>4 DEF Connect

\* A request is packed into m_sendBuff, which stays a sequence.
LEMMA WriteKeepsBuffers ==
  ASSUME BuffInv, Write
  PROVE  BuffInv'
<1>1. CASE SslWrite
  <2>1. PICK S, n : buff \in Seq(S) /\ buff' = [i \in DOMAIN buff |-> IF i <= n THEN <<0, 0>> ELSE buff[i]]
    BY <1>1 DEF SslWrite, BuffInv, IsSeq
  <2>2. buff' \in Seq(S \cup {<<0, 0>>})
    BY <2>1
  <2> QED
    BY <1>1, <2>2 DEF BuffInv, IsSeq, SslWrite, handshake
<1>2. CASE SendChunk \/ SslWriteFails
  BY <1>2 DEF BuffInv, SendChunk, SslWriteFails, Fails, handshake
<1> QED
  BY <1>1, <1>2 DEF Write

\* SSL_read adds what arrived to m_sendBuff, and takes whole records from it.
LEMMA ReadKeepsBuffers ==
  ASSUME BuffInv, Reads \/ ReadStep
  PROVE  BuffInv'
<1>1. CASE Reads
  <2>1. PICK n \in ReadSizes : Read(n)
    BY <1>1 DEF Reads
  <2>2. buff' = buff \/ buff' = extra
    BY <2>1 DEF Read
  <2>3. extra' = extra \/ extra' = <<>>
    BY <2>1 DEF Read
  <2>4. session' = session /\ io' = io
    BY <2>1 DEF Read, handshake
  <2> QED
    BY <2>2, <2>3, <2>4, NoneIsSeq DEF BuffInv
<1>2. CASE ReadRecv
  <2>1. PICK bytes \in Recv(BUFF_SIZE - Len(buff)) : buff' = buff \o bytes
    BY <1>2 DEF ReadRecv
  <2>2. IsSeq(buff)'
    BY <2>1, RecvIsSeq, AddedIsSeq DEF BuffInv
  <2> QED
    BY <1>2, <2>2 DEF BuffInv, ReadRecv, handshake
<1>3. CASE Decrypt
  <2>1. Len(Cells(Next1)) + 1 \in Nat \ {0}
    BY <1>3, CellsAre DEF BuffInv, Decrypt, Complete
  <2>2. IsSeq(Leftover(buff))
    BY <2>1, RestIsSeq DEF BuffInv, Leftover
  <2> QED
    BY <1>3, <2>2 DEF BuffInv, Decrypt, Left, handshake
<1>4. CASE DecryptFails
  BY <1>4, NoneIsSeq DEF BuffInv, DecryptFails, handshake
<1> QED
  BY <1>1, <1>2, <1>3, <1>4 DEF ReadStep

\* m_sendBuff is never more than full.
LEMMA BuffStep ==
  ASSUME BuffInv, [Next]_vars
  PROVE  BuffInv'
<1>1. CASE Disconnect
  BY <1>1 DEF BuffInv, Disconnect, handshake
<1>2. CASE UNCHANGED vars
  BY <1>2 DEF BuffInv, vars, handshake
<1> QED
  BY <1>1, <1>2, ConnectKeepsBuffers, WriteKeepsBuffers, ReadKeepsBuffers DEF Next

\* Only the beginning of SSL_read enters its loop, and it takes what other calls left first.
LEMMA LoopStep ==
  ASSUME LoopInv, [Next]_vars
  PROVE  LoopInv'
<1>1. CASE Connect
  BY <1>1 DEF LoopInv, Connect, PreConnect, SetupSSLProxy, Hello, ShakeRead, ShakeCert, ShakeTakes,
              ShakeFails, Verify, Unchecked, Fails
<1>2. CASE Write
  BY <1>2 DEF LoopInv, Write, SendChunk, SslWrite, SslWriteFails, Fails
<1>3. CASE Reads
  <2>1. PICK n \in ReadSizes : Read(n)
    BY <1>3 DEF Reads
  <2> QED
    BY <2>1 DEF LoopInv, Read, Returns
<1>4. CASE ReadStep
  BY <1>4 DEF LoopInv, ReadStep, ReadRecv, Decrypt, DecryptFails, Returns
<1>5. CASE Disconnect
  BY <1>5 DEF LoopInv, Disconnect
<1>6. CASE UNCHANGED vars
  BY <1>6 DEF LoopInv, vars
<1> QED
  BY <1>1, <1>2, <1>3, <1>4, <1>5, <1>6 DEF Next

\* A step of the handshake that fails deletes the context, or the connection is active.
LEMMA ContextStep ==
  ASSUME ContextInv, [Next]_vars
  PROVE  ContextInv'
<1>1. CASE PreConnect
  BY <1>1 DEF ContextInv, ContextReleased, PreConnect, Fails
<1>2. CASE SetupSSLProxy
  BY <1>2 DEF ContextInv, ContextReleased, SetupSSLProxy, Fails, tls
<1>3. CASE Hello
  BY <1>3 DEF ContextInv, ContextReleased, Hello, Fails
<1>4. CASE ShakeRead
  BY <1>4 DEF ContextInv, ContextReleased, ShakeRead, Fails
<1>5. CASE ShakeCert \/ ShakeTakes
  BY <1>5 DEF ContextInv, ContextReleased, ShakeCert, ShakeTakes
<1>6. CASE ShakeFails \/ Verify
  BY <1>6 DEF ContextInv, ContextReleased, ShakeFails, Verify, Unchecked, Fails
<1>7. CASE Write
  BY <1>7 DEF ContextInv, ContextReleased, Write, SendChunk, SslWrite, SslWriteFails, Fails, tls
<1>8. CASE Reads
  <2>1. PICK n \in ReadSizes : Read(n)
    BY <1>8 DEF Reads
  <2> QED
    BY <2>1 DEF ContextInv, ContextReleased, Read, Returns, tls
<1>9. CASE ReadStep
  BY <1>9 DEF ContextInv, ContextReleased, ReadStep, ReadRecv, Decrypt, DecryptFails, Returns, tls
<1>10. CASE Disconnect
  BY <1>10 DEF ContextInv, ContextReleased, Disconnect, DisconnectFromServer
<1>11. CASE UNCHANGED vars
  BY <1>11 DEF ContextInv, ContextReleased, vars, tls
<1> QED
  BY <1>1, <1>2, <1>3, <1>4, <1>5, <1>6, <1>7, <1>8, <1>9, <1>10, <1>11 DEF Next, Connect
-----------------------------------------------------------------------------
(* The theorems *)

\* SSL_read never calls recv while a whole record lies in m_sendBuff, or data that is already
\* decrypted or came with the handshake in the other buffers.
THEOREM NeverWaits == Spec => []NeverWaitsWithData
<1>1. Init => BuffInv /\ LoopInv
  BY NoneIsSeq DEF Init, BuffInv, LoopInv
<1>2. BuffInv /\ LoopInv /\ [Next]_vars => BuffInv' /\ LoopInv'
  BY BuffStep, LoopStep
<1>3. BuffInv /\ LoopInv => NeverWaitsWithData
  BY WholeRecord DEF BuffInv, LoopInv, NeverWaitsWithData
<1> QED
  BY <1>1, <1>2, <1>3, PTL DEF Spec

\* A connection that is closed has no SChannel context, wherever it failed.
THEOREM GivesContextBack == Spec => []ContextReleased
<1>1. Init => ContextInv
  BY DEF Init, ContextInv, ContextReleased
<1>2. ContextInv /\ [Next]_vars => ContextInv'
  BY ContextStep
<1>3. ContextInv => ContextReleased
  BY DEF ContextInv
<1> QED
  BY <1>1, <1>2, <1>3, PTL DEF Spec
-----------------------------------------------------------------------------
(* The order of the data *)

\* The data of a record.
LEMMA PlainIs ==
  ASSUME session \in Sessions, NEW r \in Records
  PROVE  /\ Plain(r) \in Seq(Cell)
         /\ IsShake(session.records[r]) => Plain(r) = <<>>
<1>1. PICK rs, T : /\ rs = session.records
                   /\ T = [kind : {"hs", "cert", "data", "notify"}, n : 0..MAX_MESSAGE, after : Nat]
  OBVIOUS
<1>2. rs \in Seq(T)
  BY <1>1, SslSessions DEF SessionType
<1>3. r \in 1..Len(rs) /\ rs[r] \in T /\ r \in Nat
  <2>1. r \in 1..Len(rs)
    BY <1>1, <1>2 DEF Records
  <2> QED
    BY <1>2, <2>1
<1>4. PICK n : n = session.records[r].n + 1
  OBVIOUS
<1>5. n \in Nat /\ n > 0
  BY <1>1, <1>3, <1>4, SslConstants
<1>6. Cells(r) \in Seq(Cell) /\ Len(Cells(r)) = n
  <2>1. Cells(r) = [j \in 1..n |-> <<r, j - 1>>]
    BY <1>4 DEF Cells
  <2>2. \A j \in 1..n : <<r, j - 1>> \in Cell
    BY <1>3, <1>5 DEF Cell
  <2> QED
    BY <1>5, <2>1, <2>2
<1>7. Tail(Cells(r)) \in Seq(Cell)
  BY <1>5, <1>6
<1>8. <<>> \in Seq(Cell)
  OBVIOUS
<1> QED
  BY <1>7, <1>8 DEF Plain, IsData, IsShake

\* The data of all records is that of each, one after the other.
LEMMA GivenIs ==
  ASSUME session \in Sessions
  PROVE  /\ Len(session.records) \in Nat /\ Records = 1..Len(session.records)
         /\ Text \in Seq(Cell) /\ Given[0] = <<>>
         /\ \A k \in 0..Len(session.records) : Given[k] \in Seq(Cell) /\ Stands(Given[k], Text, 0)
         /\ \A k \in Records : Given[k] = Given[k - 1] \o Plain(k)
<1>1. PICK n, ps : n = Len(session.records) /\ ps = Plains
  OBVIOUS
<1>2. n \in Nat /\ Records = 1..n
  BY <1>1, SslSessions DEF SessionType, Records
<1>3. ps = [r \in 1..n |-> Plain(r)] /\ Text = FlattenSeq(ps)
  BY <1>1, <1>2 DEF Plains, Text
<1>4. \A r \in 1..n : Plain(r) \in Seq(Cell)
  BY <1>2, PlainIs
<1>5. ps \in Seq(Seq(Cell)) /\ Len(ps) = n
  BY <1>2, <1>3, <1>4
<1>6. PICK sums : sums = Given
  OBVIOUS
<1>7. sums \in [0..n -> Seq(Cell)] /\ Sums(sums, ps)
  BY <1>1, <1>5, <1>6, FlattenSums DEF Given
<1>8. \A k \in 0..n : Stands(sums[k], FlattenSeq(ps), 0) /\ FlattenSeq(ps) \in Seq(Cell)
  BY <1>5, <1>7, SumsStand
<1>9. sums[0] = <<>> /\ \A k \in 1..n : sums[k] = sums[k - 1] \o ps[k]
  BY <1>5, <1>7 DEF Sums
<1>10. \A k \in 1..n : ps[k] = Plain(k)
  BY <1>3
<1>11. 0 \in 0..n /\ \A k \in 0..n : sums[k] \in Seq(Cell)
  BY <1>2, <1>7
<1> QED
  BY <1>1, <1>2, <1>3, <1>6, <1>8, <1>9, <1>10, <1>11, Zenon

\* What does not fit the caller's buffer goes on where the caller's data ends.
LEMMA SplitIs ==
  ASSUME NEW g \in Seq(Cell), NEW r \in Seq(Cell), NEW n \in Nat
  PROVE  /\ SubSeq(r, 1, Least(n, Len(r))) \in Seq(Cell) /\ Len(SubSeq(r, 1, Least(n, Len(r)))) <= n
         /\ From(r, n + 1) \in Seq(Cell)
         /\ g \o SubSeq(r, 1, Least(n, Len(r))) \in Seq(Cell)
         /\ (g \o SubSeq(r, 1, Least(n, Len(r)))) \o From(r, n + 1) = g \o r
<1>1. PICK m, l, a, b, w : m = Least(n, l) /\ l = Len(r) /\ a = SubSeq(r, 1, m) /\ b = From(r, n + 1) /\ w = g \o r
  OBVIOUS
<1>2. m \in Nat /\ m <= n /\ m <= l /\ l \in Nat /\ m \in 0..Len(r)
  BY <1>1 DEF Least
<1>3. w \in Seq(Cell) /\ Len(w) = Len(g) + l /\ Len(g) \in Nat
  BY <1>1, ConcatIs
<1>4. Stands(w, w, 0)
  BY <1>3 DEF Stands
<1>5. Stands(g, w, 0) /\ Stands(r, w, 0 + Len(g)) /\ 0 + Len(g) = Len(g)
  <2>1. Stands(g \o r, w, 0) /\ 0 \in Nat
    BY <1>1, <1>4
  <2>2. Stands(g, w, 0) /\ Stands(r, w, 0 + Len(g))
    BY <1>3, <2>1, StandsConcat, Zenon
  <2> QED
    BY <1>3, <2>2
<1>6. b = SubSeq(r, m + 1, Len(r))
  <2>1. CASE n <= l
    <3>1. m = n
      BY <1>1, <1>2, <2>1 DEF Least
    <3> QED
      BY <1>1, <3>1, Zenon DEF From
  <2>2. CASE n > l
    <3>1. m = l
      BY <1>1, <1>2, <2>2 DEF Least
    <3>2. SubSeq(r, n + 1, Len(r)) = <<>> /\ SubSeq(r, m + 1, Len(r)) = <<>>
      BY <1>1, <1>2, <2>2, <3>1
    <3> QED
      BY <1>1, <3>2 DEF From
  <2> QED
    BY <1>2, <2>1, <2>2
<1>7. /\ a \in Seq(Cell) /\ Len(a) = m /\ Stands(a, w, Len(g))
      /\ b \in Seq(Cell) /\ Len(b) = l - m /\ Stands(b, w, Len(g) + m)
  <2>1. Stands(r, w, Len(g))
    BY <1>5
  <2>2. Stands(SubSeq(r, 1, m), w, Len(g)) /\ Stands(SubSeq(r, m + 1, Len(r)), w, Len(g) + m)
    BY <1>2, <1>3, <2>1, StandsCut
  <2>3. /\ SubSeq(r, 1, m) \in Seq(Cell) /\ Len(SubSeq(r, 1, m)) = m
        /\ SubSeq(r, m + 1, Len(r)) \in Seq(Cell) /\ Len(SubSeq(r, m + 1, Len(r))) = Len(r) - m
    BY <1>2
  <2> QED
    BY <1>1, <1>6, <2>2, <2>3, Zenon
<1>8. PICK h, x : h = g \o a /\ x = h \o b
  OBVIOUS
<1>9. h \in Seq(Cell) /\ Len(h) = Len(g) + m /\ Stands(h, w, 0)
  <2>1. Stands(a, w, 0 + Len(g)) /\ 0 \in Nat
    BY <1>5, <1>7
  <2>2. Stands(g \o a, w, 0)
    BY <1>3, <1>5, <1>7, <2>1, StandsConcat, Zenon
  <2> QED
    BY <1>7, <1>8, <2>2, ConcatIs
<1>10. x \in Seq(Cell) /\ Len(x) = Len(h) + (l - m) /\ Stands(x, w, 0)
  <2>1. Stands(b, w, 0 + Len(h)) /\ 0 \in Nat
    BY <1>2, <1>3, <1>7, <1>9
  <2>2. Stands(h \o b, w, 0)
    BY <1>3, <1>7, <1>9, <2>1, StandsConcat, Zenon
  <2> QED
    BY <1>7, <1>8, <1>9, <2>2, ConcatIs
<1>11. Len(x) = Len(w)
  BY <1>2, <1>3, <1>9, <1>10
<1>12. x = w
  BY <1>3, <1>4, <1>10, <1>11, StandsSame
<1>13. Len(a) <= n
  BY <1>2, <1>7
<1> QED
  BY <1>1, <1>7, <1>8, <1>9, <1>12, <1>13, Zenon

\* The session stays the same, and its data with it.
LEMMA SessionSame ==
  ASSUME session' = session
  PROVE  Text' = Text /\ Given' = Given /\ Records' = Records
<1>1. Text' = Text
  BY DEF Text, Records, Plain, IsData, Cells
<1>2. Plains' = Plains
  BY DEF Plains, Records, Plain, IsData, Cells
<1>3. Given' = Given
  BY <1>2 DEF Given
<1> QED
  BY <1>1, <1>3 DEF Records

\* What a step gives to the transport: nothing, or what a call of SSL_read returns.
Returned(d) ==
  /\ d \in Seq(Cell) /\ got' = got \o d /\ \E m \in ReadSizes : Len(d) <= m
  /\ result # "end" /\ result' = IF d = <<>> THEN "end" ELSE "more"
Delivers ==
  /\ session' = session
  /\ \/ got' = got /\ (result' = "end" <=> result = "end")
     \/ \E d : Returned(d)

\* A step that takes no record and gives nothing to the transport.
LEMMA NothingTaken ==
  ASSUME TakenInv, session' = session, schannel' = schannel, got' = got, readBuffer' = readBuffer
  PROVE  TakenInv'
BY SessionSame DEF TakenInv

\* SSL_read returns nothing.
LEMMA NothingReturned ==
  ASSUME TakenInv, cb \in ReadSizes, result # "end", Returns(<<>>),
         session' = session, schannel' = schannel, readBuffer' = readBuffer
  PROVE  TakenInv' /\ Delivers
<1>1. got \in Seq(Cell) /\ <<>> \in Seq(Cell) /\ Len(<<>>) = 0 /\ 0 <= cb
  BY SslConstants DEF TakenInv
<1>2. got \o <<>> = got
  BY <1>1
<1>3. Returned(<<>>)
  BY <1>1 DEF Returned, Returns
<1>4. got' = got
  BY <1>2 DEF Returns
<1> QED
  BY <1>3, <1>4, NothingTaken DEF Delivers

\* The handshake takes records that have no data.
LEMMA ConnectOrder ==
  ASSUME OrderInv, Connect
  PROVE  OrderInv' /\ Delivers
<1>1. session' = session /\ got' = got /\ readBuffer' = readBuffer /\ cb' = cb
  BY DEF Connect, PreConnect, SetupSSLProxy, Hello, ShakeRead, ShakeCert, ShakeTakes, ShakeFails, Verify
<1>2. Records' = Records
  BY <1>1, SessionSame
<1>3. Delivers
  BY <1>1 DEF OrderInv, PhaseInv, Delivers, Connect, PreConnect, SetupSSLProxy, Hello, ShakeRead, ShakeCert,
              ShakeTakes, ShakeFails, Verify, Unchecked, Fails
<1>4. CASE ShakeTakes
  <2>1. schannel' = Next1 /\ Next1 \in Records /\ result' = result
    BY <1>4 DEF ShakeTakes, Complete
  <2>2. pc = "shake"
    BY <1>4 DEF ShakeTakes
  <2>3. PICK r \in Records : r > schannel /\ IsShake(session.records[r])
    BY <2>2 DEF OrderInv, PhaseInv
  <2>4. session \in Sessions /\ schannel \in Nat /\ schannel + 1 = Next1 /\ Next1 - 1 = schannel
        /\ Len(session.records) \in Nat /\ Records = 1..Len(session.records)
    BY GivenIs DEF OrderInv, TakenInv, Next1
  <2>5. r = Next1 \/ Next1 < r
    BY <2>3, <2>4
  <2>6. IsShake(session.records[Next1])
    BY <2>1, <2>3, <2>4, <2>5, SslHandshakes DEF Records
  <2>7. Plain(Next1) = <<>>
    BY <2>1, <2>4, <2>6, PlainIs
  <2>8. Given[Next1] = Given[schannel]
    <3>1. Given[Next1] = Given[Next1 - 1] \o Plain(Next1) /\ Given[schannel] \in Seq(Cell)
      BY <2>1, <2>4, GivenIs DEF OrderInv, TakenInv
    <3>2. \A g \in Seq(Cell) : g \o <<>> = g
      OBVIOUS
    <3> QED
      BY <2>4, <2>7, <3>1, <3>2
  <2>9. TakenInv'
    <3>1. schannel' \in 0..Len(session.records)
      BY <2>1, <2>4
    <3> QED
      BY <1>1, <2>1, <2>8, <3>1, SessionSame DEF OrderInv, TakenInv
  <2>10. PhaseInv'
    <3>1. CASE LastShake
      BY <1>1, <1>4, <2>1, <2>2, <3>1 DEF OrderInv, PhaseInv, ShakeTakes
    <3>2. CASE ~LastShake
      <4>1. PICK q \in Records : q > Next1 /\ IsShake(session.records[q])
        BY <3>2 DEF LastShake
      <4> QED
        BY <1>1, <1>2, <1>4, <2>1, <2>2, <3>2, <4>1 DEF OrderInv, PhaseInv, ShakeTakes
    <3> QED
      BY <3>1, <3>2
  <2> QED
    BY <1>3, <2>9, <2>10 DEF OrderInv
<1>5. CASE ~ShakeTakes
  <2>1. schannel' = schannel
    BY <1>5 DEF Connect, PreConnect, SetupSSLProxy, Hello, ShakeRead, ShakeCert, ShakeFails, Verify, Unchecked, tls
  <2>2. TakenInv'
    BY <1>1, <2>1, NothingTaken DEF OrderInv
  <2>3. PhaseInv'
    BY <1>1, <1>2, <1>5, <2>1 DEF OrderInv, PhaseInv, Connect, PreConnect, SetupSSLProxy, Hello, ShakeRead, ShakeCert,
                             ShakeFails, Verify, Unchecked, Fails
  <2> QED
    BY <1>3, <2>2, <2>3 DEF OrderInv
<1> QED
  BY <1>4, <1>5

\* Nothing is sent after the end.
LEMMA WriteOrder ==
  ASSUME OrderInv, Write \/ Disconnect \/ UNCHANGED vars
  PROVE  OrderInv' /\ Delivers
<1>1. session' = session /\ got' = got /\ readBuffer' = readBuffer /\ schannel' = schannel
  BY DEF Write, SendChunk, SslWrite, SslWriteFails, Disconnect, vars, tls
<1>2. TakenInv'
  BY <1>1, NothingTaken DEF OrderInv
<1>3. /\ cb' = cb /\ (result' = result \/ result' = "error")
      /\ pc' = pc \/ pc' \in {"send", "ready", "failed", "closed"}
  BY DEF Write, SendChunk, SslWrite, SslWriteFails, Disconnect, vars, Fails
<1>4. result' = "end" <=> result = "end"
  <2>1. result' = "error" => result' = result \/ pc = "send"
    BY DEF Write, SendChunk, SslWrite, SslWriteFails, Disconnect, vars
  <2>2. pc = "send" => result # "end"
    BY DEF OrderInv, PhaseInv
  <2> QED
    BY <1>3, <2>1, <2>2
<1>5. Records' = Records
  BY <1>1, SessionSame
<1>6. PhaseInv'
  BY <1>1, <1>3, <1>4, <1>5 DEF OrderInv, PhaseInv, Write, SendChunk, SslWrite, SslWriteFails, Disconnect, vars
<1> QED
  BY <1>1, <1>2, <1>4, <1>6 DEF OrderInv, Delivers

\* A call of SSL_read that finds data decrypted before returns its beginning, and keeps the rest.
LEMMA ReadsOrder ==
  ASSUME OrderInv, Reads
  PROVE  OrderInv' /\ Delivers
<1>1. PICK n \in ReadSizes : Read(n)
  BY DEF Reads
<1>2. result # "end" /\ n \in Nat /\ session' = session /\ schannel' = schannel /\ cb' = n /\ pc = "ready"
  BY <1>1, SslConstants DEF Reads, Read, tls
<1>3. CASE readBuffer # <<>>
  <2>1. PICK a, b : /\ a = SubSeq(readBuffer, 1, Least(n, Len(readBuffer)))
                    /\ b = From(readBuffer, n + 1)
    OBVIOUS
  <2>2. got' = got \o a /\ readBuffer' = b /\ pc' = "ready" /\ result' = (IF a = <<>> THEN "end" ELSE "more")
    BY <1>1, <1>3, <2>1 DEF Read, Returns
  <2>3. a \in Seq(Cell) /\ Len(a) <= n /\ b \in Seq(Cell) /\ got \o a \in Seq(Cell)
        /\ (got \o a) \o b = got \o readBuffer
    <3>1. got \in Seq(Cell) /\ readBuffer \in Seq(Cell)
      BY DEF OrderInv, TakenInv
    <3> QED
      BY <1>2, <2>1, <3>1, SplitIs, Zenon
  <2>4. TakenInv'
    BY <1>2, <2>2, <2>3, SessionSame, Zenon DEF OrderInv, TakenInv
  <2>5. PhaseInv'
    BY <2>2 DEF PhaseInv
  <2>6. Returned(a)
    BY <1>2, <2>2, <2>3 DEF Returned
  <2> QED
    BY <1>2, <2>4, <2>5, <2>6 DEF OrderInv, Delivers
<1>4. CASE readBuffer = <<>>
  <2>1. got' = got /\ readBuffer' = readBuffer /\ pc' = "read" /\ result' = result
    BY <1>1, <1>4 DEF Read
  <2>2. TakenInv'
    BY <1>2, <2>1, NothingTaken DEF OrderInv
  <2>3. PhaseInv'
    BY <1>2, <2>1 DEF PhaseInv
  <2> QED
    BY <1>2, <2>1, <2>2, <2>3 DEF OrderInv, Delivers
<1> QED
  BY <1>3, <1>4

\* DecryptMessage takes the next record, and its data follows what was returned before.
LEMMA ReadStepOrder ==
  ASSUME OrderInv, LoopInv, ReadStep
  PROVE  OrderInv' /\ Delivers
<1>1. pc = "read" /\ session' = session /\ cb \in ReadSizes /\ result # "end" /\ readBuffer = <<>> /\ cb \in Nat
  BY SslConstants DEF OrderInv, PhaseInv, LoopInv, ReadStep, ReadRecv, Decrypt, DecryptFails
<1>2. CASE Decrypt
  <2>1. PICK data, a, b : /\ data = Plain(Next1)
                          /\ a = SubSeq(data, 1, Least(cb, Len(data)))
                          /\ b = From(data, cb + 1)
    OBVIOUS
  <2>2. got' = got \o a /\ readBuffer' = b /\ pc' = "ready" /\ result' = (IF a = <<>> THEN "end" ELSE "more")
        /\ schannel' = Next1 /\ Next1 \in Records
    BY <1>2, <2>1 DEF Decrypt, Returns, Complete
  <2>3. session \in Sessions /\ schannel \in 0..Len(session.records) /\ got \in Seq(Cell)
        /\ got \o readBuffer = Given[schannel]
    BY DEF OrderInv, TakenInv
  <2>4. data \in Seq(Cell)
    BY <2>1, <2>2, <2>3, PlainIs
  <2>5. a \in Seq(Cell) /\ Len(a) <= cb /\ b \in Seq(Cell) /\ got \o a \in Seq(Cell)
        /\ (got \o a) \o b = got \o data
    BY <1>1, <2>1, <2>3, <2>4, SplitIs, Zenon
  <2>6. got \o data = Given[Next1]
    <3>1. got = Given[schannel]
      BY <1>1, <2>3
    <3>2. Given[Next1] = Given[Next1 - 1] \o data
      BY <2>1, <2>2, <2>3, GivenIs
    <3>3. Next1 - 1 = schannel
      BY <2>3 DEF Next1
    <3> QED
      BY <3>1, <3>2, <3>3
  <2>7. Next1 \in 0..Len(session.records)
    BY <2>2, <2>3, GivenIs
  <2>8. TakenInv'
    BY <1>1, <2>2, <2>3, <2>5, <2>6, <2>7, SessionSame, Zenon DEF TakenInv
  <2>9. PhaseInv'
    BY <2>2 DEF PhaseInv
  <2>10. Returned(a)
    BY <1>1, <2>2, <2>5 DEF Returned
  <2> QED
    BY <1>1, <2>8, <2>9, <2>10 DEF OrderInv, Delivers
<1>3. CASE DecryptFails
  <2>1. Returns(<<>>) /\ schannel' = schannel /\ readBuffer' = readBuffer
    BY <1>3 DEF DecryptFails, tls
  <2>2. TakenInv' /\ Delivers
    BY <1>1, <2>1, NothingReturned DEF OrderInv
  <2>3. PhaseInv'
    BY <2>1 DEF PhaseInv, Returns
  <2> QED
    BY <2>2, <2>3 DEF OrderInv
<1>4. CASE ReadRecv
  <2>1. schannel' = schannel /\ readBuffer' = readBuffer /\ cb' = cb
        /\ (Returns(<<>>) \/ UNCHANGED <<pc, got, result>>)
    BY <1>4 DEF ReadRecv, tls
  <2>2. CASE Returns(<<>>)
    <3>1. TakenInv' /\ Delivers
      BY <1>1, <2>1, <2>2, NothingReturned DEF OrderInv
    <3>2. PhaseInv'
      BY <2>2 DEF PhaseInv, Returns
    <3> QED
      BY <3>1, <3>2 DEF OrderInv
  <2>3. CASE UNCHANGED <<pc, got, result>>
    <3>1. TakenInv'
      BY <1>1, <2>1, <2>3, NothingTaken DEF OrderInv
    <3>2. PhaseInv'
      BY <1>1, <2>1, <2>3 DEF PhaseInv
    <3> QED
      BY <1>1, <2>3, <3>1, <3>2 DEF OrderInv, Delivers
  <2> QED
    BY <2>1, <2>2, <2>3
<1> QED
  BY <1>2, <1>3, <1>4 DEF ReadStep

\* The order of the data, step by step.
LEMMA OrderStep ==
  ASSUME OrderInv, LoopInv, [Next]_vars
  PROVE  OrderInv' /\ Delivers
BY ConnectOrder, WriteOrder, ReadsOrder, ReadStepOrder DEF Next

\* Every step is one of BodyStream's, or none that it sees.
LEMMA InOrderStep ==
  ASSUME OrderInv, OrderInv', Delivers
  PROVE  [InOrder!Next]_(InOrder!vars)
<1>1. PICK M : M = CHOOSE n \in ReadSizes : \A m \in ReadSizes : m <= n
  OBVIOUS
<1>2. M \in Nat /\ \A m \in ReadSizes : m \in Nat /\ m <= M
  BY <1>1, SslConstants
<1>3. PICK v, x, z : v = Text /\ x = From(v, Len(got) + 1) /\ z = From(v, Len(got') + 1)
  OBVIOUS
<1>4. Text' = v /\ v \in Seq(Cell) /\ got \in Seq(Cell) /\ got' \in Seq(Cell) /\ session' = session
  BY <1>3, SessionSame, GivenIs DEF Delivers, OrderInv, TakenInv
<1>5. Stands(got', v, 0)
  <2>1. PICK k \in 0..Len(session.records), r \in Seq(Cell) : got' \o r = Given[k]
    BY <1>4, SessionSame DEF OrderInv, TakenInv
  <2>2. Stands(got' \o r, v, 0)
    <3>1. session \in Sessions
      BY DEF OrderInv, TakenInv
    <3>2. Stands(Given[k], v, 0)
      BY <1>3, <3>1, GivenIs
    <3> QED
      BY <2>1, <3>2
  <2> QED
    BY <1>4, <2>2, StandsConcat
<1>6. CASE got' = got /\ (result' = "end" <=> result = "end")
  <2>1. (result' = "end") = (result = "end") /\ (result' # "end") = (result # "end")
    BY <1>6
  <2>2. Text' = Text /\ From(Text, Len(got) + 1)' = From(Text, Len(got) + 1)
    BY <1>4, <1>3, <1>6 DEF From
  <2> QED
    BY <1>4, <1>6, <2>1, <2>2 DEF InOrder!vars
<1>7. ASSUME NEW d, Returned(d) PROVE InOrder!Next
  <2>1. /\ d \in Seq(Cell) /\ got' = got \o d /\ result # "end"
        /\ result' = (IF d = <<>> THEN "end" ELSE "more")
    BY <1>7 DEF Returned
  <2>2. CASE d = <<>>
    <3>1. got' = got
      BY <1>4, <2>1, <2>2
    <3> QED
      BY <1>3, <1>4, <2>1, <2>2, <3>1 DEF InOrder!Next, InOrder!End, InOrder!MayEnd
  <2>3. CASE d # <<>>
    <3>1. PICK n : n = Len(d)
      OBVIOUS
    <3>2. n \in Nat /\ n > 0 /\ n <= M
      BY <1>2, <1>7, <2>1, <2>3, <3>1 DEF Returned
    <3>3. n <= Len(x) /\ d = SubSeq(x, 1, n) /\ z = SubSeq(x, n + 1, Len(x))
      <4>1. Stands(got \o d, v, 0)
        BY <1>5, <2>1
      <4>2. /\ Len(d) <= Len(SubSeq(v, Len(got) + 1, Len(v)))
            /\ d = SubSeq(SubSeq(v, Len(got) + 1, Len(v)), 1, Len(d))
            /\ SubSeq(v, Len(got \o d) + 1, Len(v)) =
                 SubSeq(SubSeq(v, Len(got) + 1, Len(v)), Len(d) + 1, Len(SubSeq(v, Len(got) + 1, Len(v))))
        <5>1. v \in Seq(Cell) /\ got \in Seq(Cell) /\ d \in Seq(Cell)
          BY <1>4, <2>1
        <5> QED
          BY <4>1, <5>1, PieceStands, Zenon
      <4>3. z = SubSeq(v, Len(got \o d) + 1, Len(v)) /\ x = SubSeq(v, Len(got) + 1, Len(v))
        BY <1>3, <2>1, Zenon DEF From
      <4> QED
        BY <3>1, <4>2, <4>3, Zenon
    <3>4. n \in {m \in 1..M : m <= Len(x)}
      BY <1>2, <3>2, <3>3
    <3>5. got' = got \o SubSeq(x, 1, n) /\ result' = "more"
      BY <2>1, <2>3, <3>3
    <3> QED
      BY <1>1, <1>3, <1>4, <2>1, <3>3, <3>4, <3>5 DEF InOrder!Next, InOrder!Give, InOrder!MayEnd, InOrder!Spans
  <2> QED
    BY <2>2, <2>3
<1> QED
  BY <1>6, <1>7 DEF Delivers

\* At the start nothing was taken, and the handshake is to come.
LEMMA OrderBegins ==
  ASSUME Init
  PROVE  OrderInv /\ LoopInv /\ InOrder!Init
<1>1. session \in Sessions
  BY DEF Init
<1>2. <<>> \in Seq(Cell) /\ <<>> \o <<>> = <<>>
  OBVIOUS
<1>3. TakenInv
  BY <1>1, <1>2, GivenIs DEF Init, TakenInv
<1>4. \E r \in Records : r > 0 /\ IsShake(session.records[r])
  <2>1. PICK r \in Records : IsShake(session.records[r])
    BY <1>1, SslHandshakes DEF Records
  <2>2. r > 0
    BY <1>1, GivenIs
  <2> QED
    BY <2>1, <2>2
<1> QED
  BY <1>3, <1>4 DEF Init, OrderInv, PhaseInv, LoopInv, InOrder!Init

\* Whatever the records and however their bytes arrive, the transport is given the server's data
\* in order, nothing of it twice and nothing left out, no more in a call than it asked for, and
\* nothing after the end.
THEOREM DataInOrder == Spec => DeliversInOrder
<1>1. Init => OrderInv /\ LoopInv /\ InOrder!Init
  BY OrderBegins
<1>2. OrderInv /\ LoopInv /\ [Next]_vars => OrderInv' /\ LoopInv'
  BY OrderStep, LoopStep
<1>3. OrderInv /\ OrderInv' /\ LoopInv /\ [Next]_vars => [InOrder!Next]_(InOrder!vars)
  BY OrderStep, InOrderStep
<1> QED
  BY <1>1, <1>2, <1>3, PTL DEF Spec, DeliversInOrder, InOrder!Spec
-----------------------------------------------------------------------------
(* The records on the wire *)

\* The bytes of each record, what those of the first k make, and where the next one begins
Frames == [r \in Records |-> Cells(r)]
Framed == CHOOSE sums \in [0..Len(Frames) -> Seq(Cell)] : Sums(sums, Frames)
Place(k) == Len(Framed[k])

\* Exactly the first k records are sent by the time of q requests.
SentTo(q, k) == \A r \in Records : session.records[r].after <= q <=> r <= k

\* A record.
LEMMA RecordIs ==
  ASSUME session \in Sessions, NEW r \in Records
  PROVE  /\ session.records[r].n \in 0..MAX_MESSAGE /\ session.records[r].n \in Nat /\ session.records[r].after \in Nat
         /\ session.records[r].kind \in {"hs", "cert", "data", "notify"}
         /\ Cells(r) \in Seq(Cell) /\ Len(Cells(r)) = session.records[r].n + 1
<1>1. PICK rs, T : /\ rs = session.records
                   /\ T = [kind : {"hs", "cert", "data", "notify"}, n : 0..MAX_MESSAGE, after : Nat]
  OBVIOUS
<1>2. rs \in Seq(T)
  BY <1>1, SslSessions DEF SessionType
<1>3. r \in 1..Len(rs) /\ rs[r] \in T /\ r \in Nat
  <2>1. r \in 1..Len(rs)
    BY <1>1, <1>2 DEF Records
  <2> QED
    BY <1>2, <2>1
<1>4. /\ session.records[r].n \in 0..MAX_MESSAGE /\ session.records[r].n \in Nat /\ session.records[r].after \in Nat
      /\ session.records[r].kind \in {"hs", "cert", "data", "notify"}
  BY <1>1, <1>3, SslConstants
<1>5. PICK n \in Nat : n = session.records[r].n + 1
  BY <1>4
<1>6. Cells(r) = [j \in 1..n |-> <<r, j - 1>>]
  BY <1>5 DEF Cells
<1>7. \A j \in 1..n : <<r, j - 1>> \in Cell
  BY <1>3, <1>5 DEF Cell
<1>8. Cells(r) \in Seq(Cell) /\ Len(Cells(r)) = n
  BY <1>5, <1>6, <1>7
<1> QED
  BY <1>4, <1>5, <1>8

\* The bytes on the wire are those of the records, one after the other.
LEMMA FramesAre ==
  ASSUME session \in Sessions
  PROVE  /\ Wire \in Seq(Cell) /\ Place(0) = 0 /\ Place(Len(session.records)) = Len(Wire)
         /\ \A k \in 0..Len(session.records) : Place(k) \in Nat /\ Framed[k] \in Seq(Cell) /\ Stands(Framed[k], Wire, 0)
         /\ \A k \in Records : /\ Stands(Cells(k), Wire, Place(k - 1))
                               /\ Place(k) = Place(k - 1) + Len(Cells(k))
         /\ \A j, k \in 0..Len(session.records) : j <= k => Place(j) <= Place(k)
<1>1. PICK n, fs, w : n = Len(session.records) /\ fs = Frames /\ w = Wire
  OBVIOUS
<1>2. n \in Nat /\ Records = 1..n
  BY <1>1, SslSessions DEF SessionType, Records
<1>3. fs = [r \in 1..n |-> Cells(r)] /\ w = FlattenSeq(fs)
  BY <1>1, <1>2 DEF Frames, Wire
<1>4. \A r \in 1..n : Cells(r) \in Seq(Cell)
  BY <1>2, RecordIs
<1>5. fs \in Seq(Seq(Cell)) /\ Len(fs) = n
  BY <1>2, <1>3, <1>4
<1>6. PICK sums : sums = Framed
  OBVIOUS
<1>7. sums \in [0..n -> Seq(Cell)] /\ Sums(sums, fs)
  BY <1>1, <1>5, <1>6, FlattenSums DEF Framed
<1>8. \A k \in 0..n : sums[k] \in Seq(Cell) /\ Len(sums[k]) \in Nat
  <2>1. \A k \in 0..n : sums[k] \in Seq(Cell)
    BY <1>7
  <2> QED
    BY <2>1
<1>9. \A k \in 0..n : /\ w \in Seq(Cell) /\ Stands(sums[k], w, 0)
                      /\ k > 0 => Stands(fs[k], w, Len(sums[k - 1])) /\ Len(sums[k]) = Len(sums[k - 1]) + Len(fs[k])
  <2>1. TAKE k \in 0..n
  <2>2. fs \in Seq(Seq(Cell)) /\ sums \in [0..Len(fs) -> Seq(Cell)] /\ Sums(sums, fs) /\ k \in 0..Len(fs)
    BY <1>5, <1>7
  <2>3. /\ FlattenSeq(fs) \in Seq(Cell) /\ Stands(sums[k], FlattenSeq(fs), 0)
        /\ k > 0 => Stands(fs[k], FlattenSeq(fs), Len(sums[k - 1])) /\ Len(sums[k]) = Len(sums[k - 1]) + Len(fs[k])
    BY <2>2, SumsStand, Zenon
  <2> QED
    BY <1>3, <2>3, Zenon
<1>10. \A k \in 1..n : Stands(Cells(k), w, Len(sums[k - 1])) /\ Len(sums[k]) = Len(sums[k - 1]) + Len(Cells(k))
  <2>1. TAKE k \in 1..n
  <2>2. k \in 0..n /\ k > 0 /\ fs[k] = Cells(k)
    BY <1>2, <1>3
  <2> QED
    BY <1>9, <2>2
<1>11. \A j, k \in 0..n : j <= k => Len(sums[j]) <= Len(sums[k])
  <2>1. TAKE j, k \in 0..n
  <2>2. HAVE j <= k
  <2>3. j \in 0..Len(fs) /\ k \in j..Len(fs)
    BY <1>2, <1>5, <2>2
  <2> QED
    BY <1>5, <1>7, <2>3, SumsGrow
<1>12. sums[0] = <<>> /\ sums[n] = w /\ Len(<<>>) = 0 /\ 0 \in 0..n
  <2>1. sums[0] = <<>> /\ sums[n] = w
    BY <1>3, <1>5, <1>7 DEF Sums
  <2> QED
    BY <1>2, <2>1
<1>13. w \in Seq(Cell)
  BY <1>9, <1>12
<1> QED
  BY <1>1, <1>2, <1>6, <1>8, <1>9, <1>10, <1>11, <1>12, <1>13, Zenon DEF Place

\* A server that does not fail has sent the first so many records.
LEMMA SentIs ==
  ASSUME session \in Sessions, session.whole, NEW q \in Nat
  PROVE  \E k \in 0..Len(session.records) : SentTo(q, k)
<1>1. PICK n, rs : n = Len(session.records) /\ rs = session.records
  OBVIOUS
<1>2. n \in Nat /\ Records = 1..n /\ DOMAIN rs = 1..n
  BY <1>1, GivenIs DEF Records
<1>3. \A r, s \in 1..n : r < s => rs[r].after <= rs[s].after
  BY <1>1, <1>2, SslServers
<1>4. \A r \in 1..n : rs[r].after \in Nat
  BY <1>1, <1>2, RecordIs
<1> DEFINE T == {k \in Nat : k <= n /\ \A r \in 1..n : r > k => ~(rs[r].after <= q)}
<1>5. n \in T
  BY <1>2
<1>6. PICK k \in T : \A j \in T : k <= j
  <2>1. T \in SUBSET Nat /\ T # {}
    BY <1>5
  <2> HIDE DEF T
  <2> QED
    BY <2>1, LeastElement
<1>7. k \in 0..n /\ \A r \in 1..n : r > k => ~(rs[r].after <= q)
  BY <1>2
<1>8. ASSUME NEW r \in 1..n, r <= k PROVE rs[r].after <= q
  <2>1. k - 1 \in Nat /\ k - 1 <= n /\ k \in 1..n /\ ~(k <= k - 1)
    BY <1>2, <1>7, <1>8
  <2>2. k - 1 \notin T
    BY <1>6, <2>1
  <2>3. PICK s \in 1..n : s > k - 1 /\ rs[s].after <= q
    BY <2>1, <2>2
  <2>4. s = k
    BY <1>2, <1>7, <2>1, <2>3
  <2>5. CASE r = k
    BY <2>3, <2>4, <2>5
  <2>6. CASE r # k
    <3>1. rs[r].after <= rs[k].after
      BY <1>3, <1>8, <2>1, <2>6
    <3>2. rs[r].after \in Nat /\ rs[k].after \in Nat /\ rs[k].after <= q
      BY <1>4, <2>1, <2>3, <2>4
    <3> QED
      BY <3>1, <3>2
  <2> QED
    BY <2>5, <2>6
<1>9. \A r \in 1..n : rs[r].after <= q <=> r <= k
  BY <1>2, <1>7, <1>8
<1> QED
  BY <1>1, <1>2, <1>7, <1>9 DEF SentTo

\* These records are what recv can have, and their data what is due.
LEMMA SentTaken ==
  ASSUME session \in Sessions, NEW q \in Nat, NEW k \in 0..Len(session.records), SentTo(q, k)
  PROVE  /\ SentBy(q) = Framed[k]
         /\ q = asked => DataSent = Given[k]
<1>1. PICK n, fs, ps : n = Len(session.records) /\ fs = Frames /\ ps = Plains
  OBVIOUS
<1>2. n \in Nat /\ Records = 1..n
  BY <1>1, GivenIs
<1>3. \A r \in 1..n : Cells(r) \in Seq(Cell) /\ Plain(r) \in Seq(Cell)
  BY <1>2, RecordIs, PlainIs
<1>4. <<>> \in Seq(Cell)
  OBVIOUS
<1>5. fs = [r \in 1..n |-> Cells(r)] /\ ps = [r \in 1..n |-> Plain(r)]
  BY <1>1, <1>2 DEF Frames, Plains
<1>6. fs \in Seq(Seq(Cell)) /\ Len(fs) = n /\ ps \in Seq(Seq(Cell)) /\ Len(ps) = n
  BY <1>2, <1>3, <1>5
<1>7. /\ Framed \in [0..n -> Seq(Cell)] /\ Sums(Framed, fs)
      /\ Given \in [0..n -> Seq(Cell)] /\ Sums(Given, ps)
  BY <1>1, <1>6, FlattenSums DEF Framed, Given
<1>8. \A r \in 1..n : session.records[r].after <= q <=> r <= k
  BY <1>2 DEF SentTo
<1>9. PICK gs, qs : /\ gs = [r \in 1..n |-> IF session.records[r].after <= q THEN Cells(r) ELSE <<>>]
                    /\ qs = [r \in 1..n |-> IF session.records[r].after <= q THEN Plain(r) ELSE <<>>]
  OBVIOUS
<1>10. /\ gs \in Seq(Seq(Cell)) /\ Len(gs) = n /\ \A r \in 1..n : gs[r] = IF r <= k THEN fs[r] ELSE <<>>
       /\ qs \in Seq(Seq(Cell)) /\ Len(qs) = n /\ \A r \in 1..n : qs[r] = IF r <= k THEN ps[r] ELSE <<>>
  <2>1. gs \in Seq(Seq(Cell)) /\ Len(gs) = n /\ qs \in Seq(Seq(Cell)) /\ Len(qs) = n
    BY <1>2, <1>3, <1>4, <1>9
  <2>2. \A r \in 1..n : gs[r] = IF r <= k THEN fs[r] ELSE <<>>
    BY <1>5, <1>8, <1>9
  <2>3. \A r \in 1..n : qs[r] = IF r <= k THEN ps[r] ELSE <<>>
    BY <1>5, <1>8, <1>9
  <2> QED
    BY <2>1, <2>2, <2>3
<1>11. k \in 0..n
  BY <1>1
<1>12. FlattenSeq(gs) = Framed[k]
  <2>1. /\ fs \in Seq(Seq(Cell)) /\ Framed \in [0..Len(fs) -> Seq(Cell)] /\ Sums(Framed, fs) /\ gs \in Seq(Seq(Cell))
        /\ k \in 0..Len(fs) /\ KeepsFirst(gs, fs, k)
    BY <1>6, <1>7, <1>10, <1>11 DEF KeepsFirst
  <2> QED
    BY <2>1, FlattenKept, ZenonT(40)
<1>13. FlattenSeq(qs) = Given[k]
  <2>1. /\ ps \in Seq(Seq(Cell)) /\ Given \in [0..Len(ps) -> Seq(Cell)] /\ Sums(Given, ps) /\ qs \in Seq(Seq(Cell))
        /\ k \in 0..Len(ps) /\ KeepsFirst(qs, ps, k)
    BY <1>6, <1>7, <1>10, <1>11 DEF KeepsFirst
  <2> QED
    BY <2>1, FlattenKept, ZenonT(40)
<1>14. SentBy(q) = FlattenSeq(gs)
  BY <1>2, <1>9 DEF SentBy
<1>15. q = asked => DataSent = FlattenSeq(qs)
  BY <1>2, <1>9 DEF DataSent
<1> QED
  BY <1>12, <1>13, <1>14, <1>15

\* Where the bytes of a buffer stand: they are what recv has taken of the records behind those
\* that SChannel has.
Placed(b) ==
  /\ b \in Seq(Cell) /\ Stands(b, Wire, Place(schannel))
  /\ arrived = Place(schannel) + Len(b) /\ arrived <= Len(SentBy(asked))

\* While the session stays the same, so do its records.
LEMMA FramesSame ==
  ASSUME session' = session
  PROVE  /\ Wire' = Wire /\ Framed' = Framed
         /\ \A q : q = asked' => SentBy(asked)' = SentBy(q)
<1>1. Records' = Records /\ \A r : Cells(r)' = Cells(r)
  BY DEF Records, Cells
<1>2. Wire' = Wire /\ Frames' = Frames
  BY <1>1 DEF Wire, Frames, Records, Cells
<1>3. Framed' = Framed
  BY <1>2 DEF Framed
<1>4. \A q : q = asked' => SentBy(asked)' = SentBy(q)
  BY <1>1 DEF SentBy, Cells, Records
<1> QED
  BY <1>2, <1>3, <1>4

\* What recv returns stands behind the buffer it is added to.
LEMMA ReceivesMore ==
  ASSUME session \in Sessions, session.whole, asked \in Nat, schannel \in 0..Len(session.records),
         NEW b, Placed(b), NEW n \in Int, NEW bytes \in Recv(n), bytes # <<>>
  PROVE  /\ b \o bytes \in Seq(Cell) /\ Stands(b \o bytes, Wire, Place(schannel))
         /\ arrived + Len(bytes) = Place(schannel) + Len(b \o bytes)
         /\ arrived + Len(bytes) <= Len(SentBy(asked))
<1>1. PICK s, h, p, a, w : s = SentBy(asked) /\ h = From(s, arrived + 1) /\ p = Place(schannel) /\ a = arrived /\ w = Wire
  OBVIOUS
<1>2. PICK k \in 0..Len(session.records) : s = Framed[k]
  BY <1>1, SentIs, SentTaken
<1>3. s \in Seq(Cell) /\ Stands(s, w, 0) /\ w \in Seq(Cell) /\ p \in Nat
  BY <1>1, <1>2, FramesAre
<1>4. b \in Seq(Cell) /\ Stands(b, w, p) /\ a = p + Len(b) /\ a <= Len(s)
  BY <1>1 DEF Placed
<1>5. PICK l \in Nat : l = Len(b)
  BY <1>4
<1>6. a = p + l /\ a \in Nat /\ a \in 0..Len(s)
  BY <1>3, <1>4, <1>5
<1>7. Stands(h, w, 0 + a) /\ h \in Seq(Cell) /\ Len(h) = Len(s) - a
  <2>1. h = SubSeq(s, a + 1, Len(s))
    BY <1>1 DEF From
  <2> QED
    BY <1>3, <1>6, <2>1, StandsCut
<1>8. PICK m \in 1..Least(n, Len(h)) : bytes = SubSeq(h, 1, m)
  BY <1>1 DEF Recv
<1>9. m \in 0..Len(h) /\ m \in Nat
  <2>1. Len(h) \in Nat
    BY <1>7
  <2> QED
    BY <2>1 DEF Least
<1>10. Stands(bytes, w, a) /\ bytes \in Seq(Cell) /\ Len(bytes) = m
  <2>1. 0 + a = a
    BY <1>6
  <2>2. Stands(h, w, a)
    BY <1>7, <2>1
  <2> QED
    BY <1>3, <1>6, <1>7, <1>8, <1>9, <2>2, StandsCut, SMTT(30)
<1>11. b \o bytes \in Seq(Cell) /\ Len(b \o bytes) = l + m
  BY <1>4, <1>5, <1>10, ConcatIs
<1>12. Stands(b \o bytes, w, p)
  <2>1. Stands(bytes, w, p + Len(b))
    BY <1>4, <1>10
  <2> QED
    BY <1>3, <1>4, <1>10, <2>1, StandsConcat
<1>13. a + m <= Len(s) /\ a + m = p + (l + m)
  <2>1. Len(s) \in Nat
    BY <1>3
  <2> QED
    BY <1>3, <1>6, <1>7, <1>9, <2>1
<1> QED
  BY <1>1, <1>10, <1>11, <1>12, <1>13

\* When SChannel takes a record, what is left in the buffer stands behind it.
LEMMA TakesRecord ==
  ASSUME session \in Sessions, schannel \in 0..Len(session.records), NEW b, Placed(b), Complete(b)
  PROVE  /\ Leftover(b) \in Seq(Cell) /\ Stands(Leftover(b), Wire, Place(Next1))
         /\ arrived = Place(Next1) + Len(Leftover(b))
<1>1. PICK c, p, q, w, l : /\ c = Len(Cells(Next1)) /\ p = Place(schannel) /\ q = Place(Next1) /\ w = Wire
                           /\ l = Leftover(b)
  OBVIOUS
<1>2. Next1 \in Records /\ c <= Len(b) /\ c \in Nat
  BY <1>1, RecordIs DEF Complete, IsPrefix
<1>3. q = p + c /\ p \in Nat /\ w \in Seq(Cell)
  <2>1. Next1 - 1 = schannel
    BY DEF Next1
  <2> QED
    BY <1>1, <1>2, <2>1, FramesAre
<1>4. b \in Seq(Cell) /\ Stands(b, w, p) /\ arrived = p + Len(b)
  BY <1>1 DEF Placed
<1>5. c \in 0..Len(b)
  <2>1. Len(b) \in Nat
    BY <1>4
  <2> QED
    BY <1>2, <2>1
<1>6. l = SubSeq(b, c + 1, Len(b))
  BY <1>1 DEF Leftover, From
<1>7. l \in Seq(Cell) /\ Stands(l, w, p + c) /\ Len(l) = Len(b) - c
  BY <1>3, <1>4, <1>5, <1>6, StandsCut
<1>8. arrived = q + Len(l)
  <2>1. PICK m \in Nat : m = Len(b)
    BY <1>4
  <2>2. arrived = p + m /\ Len(l) = m - c
    BY <1>4, <1>7, <2>1
  <2> QED
    BY <1>2, <1>3, <2>1, <2>2
<1> QED
  BY <1>1, <1>3, <1>7, <1>8

\* A buffer is empty, or it has the next record or the beginning of it.
LEMMA HoldsNext ==
  ASSUME session \in Sessions, session.whole, asked \in Nat, schannel \in 0..Len(session.records), NEW b, Placed(b)
  PROVE  b = <<>> \/ Complete(b) \/ Partial(b)
<1>1. PICK p, w, s, N : p = Place(schannel) /\ w = Wire /\ s = SentBy(asked) /\ N = Len(session.records)
  OBVIOUS
<1>2. /\ b \in Seq(Cell) /\ Stands(b, w, p) /\ w \in Seq(Cell) /\ p \in Nat /\ Place(N) = Len(w)
      /\ N \in Nat /\ Records = 1..N
  BY <1>1, FramesAre, GivenIs DEF Placed
<1>3. CASE Next1 \notin Records
  <2>1. schannel = N
    BY <1>1, <1>2, <1>3 DEF Next1
  <2>2. p + Len(b) <= p
    BY <1>1, <1>2, <2>1 DEF Stands
  <2>3. PICK l \in Nat : l = Len(b)
    BY <1>2
  <2>4. l = 0
    BY <1>2, <2>2, <2>3
  <2>5. \A x \in Seq(Cell) : Len(x) = 0 => x = <<>>
    OBVIOUS
  <2> QED
    BY <1>2, <2>3, <2>4, <2>5
<1>4. CASE Next1 \in Records
  <2>1. PICK c, m, l : c = Cells(Next1) /\ m = Len(c) /\ l = Len(b)
    OBVIOUS
  <2>2. c \in Seq(Cell) /\ m \in Nat /\ l \in Nat /\ Stands(c, w, p)
    <3>1. Next1 - 1 = schannel
      BY DEF Next1
    <3> QED
      BY <1>1, <1>2, <1>4, <2>1, <3>1, FramesAre, RecordIs
  <2>3. CASE m <= l
    <3>1. \A i \in 1..m : c[i] = b[i]
      BY <1>2, <2>1, <2>2, <2>3 DEF Stands
    <3>2. SubSeq(c, 1, m) = [i \in 1..m |-> c[i]] /\ SubSeq(b, 1, m) = [i \in 1..m |-> b[i]]
      BY <2>2, FirstIs
    <3>3. SubSeq(c, 1, m) = SubSeq(b, 1, m)
      BY <3>1, <3>2
    <3> QED
      BY <1>4, <2>1, <2>3, <3>3 DEF Complete, IsPrefix
  <2>4. CASE ~(m <= l)
    <3>1. \A i \in 1..l : b[i] = c[i]
      BY <1>2, <2>1, <2>2, <2>4 DEF Stands
    <3>2. SubSeq(c, 1, l) = [i \in 1..l |-> c[i]] /\ SubSeq(b, 1, l) = [i \in 1..l |-> b[i]]
      BY <2>2, FirstIs
    <3>3. SubSeq(b, 1, l) = SubSeq(c, 1, l)
      BY <3>1, <3>2
    <3>4. l <= m /\ b # c
      BY <2>1, <2>2, <2>4
    <3> QED
      BY <1>4, <2>1, <3>3, <3>4 DEF Partial, IsStrictPrefix, IsPrefix
  <2> QED
    BY <2>3, <2>4
<1> QED
  BY <1>3, <1>4

\* The beginning of a record is shorter than the record.
LEMMA PartIsShorter ==
  ASSUME session \in Sessions, schannel \in 0..Len(session.records), NEW b, Placed(b), Partial(b)
  PROVE  Len(b) < Len(Cells(Next1)) /\ Len(Cells(Next1)) <= MAX_MESSAGE + 1
<1>1. PICK c, p, w, m, l : c = Cells(Next1) /\ p = Place(schannel) /\ w = Wire /\ m = Len(c) /\ l = Len(b)
  OBVIOUS
<1>2. Next1 \in Records /\ l <= m /\ b # c
  BY <1>1 DEF Partial, IsStrictPrefix, IsPrefix
<1>3. c \in Seq(Cell) /\ m = session.records[Next1].n + 1 /\ session.records[Next1].n \in 0..MAX_MESSAGE
  BY <1>1, <1>2, RecordIs
<1>4. Stands(c, w, p)
  <2>1. Next1 - 1 = schannel
    BY DEF Next1
  <2> QED
    BY <1>1, <1>2, <2>1, FramesAre
<1>5. b \in Seq(Cell) /\ Stands(b, w, p)
  BY <1>1 DEF Placed
<1>6. l # m
  <2> SUFFICES ASSUME l = m PROVE FALSE
    OBVIOUS
  <2>1. Len(b) = Len(c)
    BY <1>1
  <2>2. b = c
    BY <1>3, <1>4, <1>5, <2>1, StandsSame
  <2> QED
    BY <1>2, <2>2
<1>7. l \in Nat /\ m \in Nat
  BY <1>1, <1>3, <1>5, SMTT(30)
<1>8. m <= MAX_MESSAGE + 1
  <2>1. \A x \in 0..MAX_MESSAGE : x + 1 <= MAX_MESSAGE + 1
    BY SslConstants
  <2> QED
    BY <1>3, <2>1
<1> QED
  BY <1>1, <1>2, <1>6, <1>7, <1>8

\* When all of the wire has arrived and no whole record is there, SChannel has all records.
LEMMA AllTaken ==
  ASSUME session \in Sessions, schannel \in 0..Len(session.records), NEW b, Placed(b), b = <<>> \/ Partial(b),
         arrived >= Len(Wire)
  PROVE  schannel = Len(session.records)
<1> SUFFICES ASSUME schannel # Len(session.records) PROVE FALSE
  OBVIOUS
<1>1. PICK N, p, l : N = Len(session.records) /\ p = Place(schannel) /\ l = Len(b)
  OBVIOUS
<1>2. N \in Nat /\ Records = 1..N /\ Next1 \in 1..N /\ Next1 - 1 = schannel
  BY <1>1, GivenIs DEF Next1
<1>3. PICK m : m = Len(Cells(Next1))
  OBVIOUS
<1>4. m \in Nat /\ m > 0
  <2>1. Next1 \in Records
    BY <1>2
  <2>2. m = session.records[Next1].n + 1 /\ session.records[Next1].n \in Nat
    BY <1>3, <2>1, RecordIs
  <2> QED
    BY <2>2
<1>5. p + m <= Len(Wire) /\ p \in Nat /\ Len(Wire) \in Nat
  <2>1. Stands(Cells(Next1), Wire, p) /\ Wire \in Seq(Cell) /\ p \in Nat
    BY <1>1, <1>2, FramesAre
  <2> QED
    BY <1>3, <2>1 DEF Stands
<1>6. arrived = p + l /\ l \in Nat
  BY <1>1 DEF Placed
<1>7. m <= l
  BY <1>4, <1>5, <1>6
<1>8. CASE b = <<>>
  BY <1>1, <1>4, <1>7, <1>8
<1>9. CASE Partial(b)
  BY <1>1, <1>3, <1>4, <1>6, <1>7, <1>9, PartIsShorter
<1> QED
  BY <1>8, <1>9

\* The data of all records is all of the data.
LEMMA AllIsText ==
  ASSUME session \in Sessions
  PROVE  Given[Len(session.records)] = Text
<1>1. PICK n, ps : n = Len(session.records) /\ ps = Plains
  OBVIOUS
<1>2. n \in Nat /\ Records = 1..n
  BY <1>1, GivenIs
<1>3. ps = [r \in 1..n |-> Plain(r)] /\ Text = FlattenSeq(ps)
  BY <1>1, <1>2 DEF Plains, Text
<1>4. \A r \in 1..n : Plain(r) \in Seq(Cell)
  BY <1>2, PlainIs
<1>5. ps \in Seq(Seq(Cell)) /\ Len(ps) = n
  BY <1>2, <1>3, <1>4
<1>6. Sums(Given, ps)
  BY <1>1, <1>5, FlattenSums DEF Given
<1> QED
  BY <1>1, <1>3, <1>5, <1>6 DEF Sums

\* The data of the first records is no more than that of some more of them, and a record of data
\* has some.
LEMMA DataIs ==
  ASSUME session \in Sessions
  PROVE  /\ \A k \in 0..Len(session.records) : Given[k] \in Seq(Cell) /\ Len(Given[k]) \in Nat
         /\ \A j, k \in 0..Len(session.records) : j <= k => Len(Given[j]) <= Len(Given[k])
         /\ \A k \in Records : /\ Len(Given[k]) = Len(Given[k - 1]) + Len(Plain(k))
                               /\ session.whole /\ IsData(k) => Len(Plain(k)) > 0
<1>1. PICK n, ps : n = Len(session.records) /\ ps = Plains
  OBVIOUS
<1>2. n \in Nat /\ Records = 1..n
  BY <1>1, GivenIs
<1>3. ps = [r \in 1..n |-> Plain(r)]
  BY <1>1, <1>2 DEF Plains
<1>4. \A r \in 1..n : Plain(r) \in Seq(Cell)
  BY <1>2, PlainIs
<1>5. ps \in Seq(Seq(Cell)) /\ Len(ps) = n
  BY <1>2, <1>3, <1>4
<1>6. Given \in [0..n -> Seq(Cell)] /\ Sums(Given, ps)
  BY <1>1, <1>5, FlattenSums DEF Given
<1>7. \A k \in 0..n : Given[k] \in Seq(Cell) /\ Len(Given[k]) \in Nat
  <2>1. \A k \in 0..n : Given[k] \in Seq(Cell)
    BY <1>6
  <2> QED
    BY <2>1
<1>8. \A j, k \in 0..n : j <= k => Len(Given[j]) <= Len(Given[k])
  <2>1. TAKE j, k \in 0..n
  <2>2. HAVE j <= k
  <2>3. j \in 0..Len(ps) /\ k \in j..Len(ps)
    BY <1>2, <1>5, <2>2
  <2> QED
    BY <1>5, <1>6, <2>3, SumsGrow
<1>9. \A k \in 1..n : Len(Given[k]) = Len(Given[k - 1]) + Len(Plain(k))
  <2>1. TAKE k \in 1..n
  <2>2. Given[k] = Given[k - 1] \o Plain(k)
    BY <1>2, GivenIs
  <2>3. k - 1 \in 0..n /\ Given[k - 1] \in Seq(Cell) /\ Plain(k) \in Seq(Cell)
    BY <1>2, <1>4, <1>7
  <2> QED
    BY <2>2, <2>3, ConcatIs
<1>10. \A k \in 1..n : session.whole /\ IsData(k) => Len(Plain(k)) > 0
  <2>1. TAKE k \in 1..n
  <2>2. HAVE session.whole /\ IsData(k)
  <2>3. session.records[k].kind = "data" /\ k \in DOMAIN session.records
    BY <1>2, <2>2 DEF IsData, Records
  <2>4. session.records[k].n > 0
    BY <2>2, <2>3, SslServers
  <2>5. PICK c : c = Cells(k)
    OBVIOUS
  <2>6. c \in Seq(Cell) /\ Len(c) = session.records[k].n + 1 /\ session.records[k].n \in Nat
    BY <1>2, <2>5, RecordIs
  <2>7. Len(Tail(c)) = session.records[k].n
    BY <2>6
  <2> QED
    BY <2>2, <2>4, <2>5, <2>7 DEF Plain
<1> QED
  BY <1>1, <1>2, <1>7, <1>8, <1>9, <1>10, Zenon

\* The handshake is over.
Shaken == ~\E r \in Records : r > schannel /\ IsShake(session.records[r])

\* Where the bytes are that a session without failures has sent: what recv has taken and SChannel
\* has not is in one buffer, which has nothing else; and it is empty while a request is packed
\* into m_sendBuff.
PlaceInv ==
  /\ asked \in Nat
  /\ session.whole /\ pc \in {"new", "tunnel", "hello", "shake"} => extra = <<>> /\ buff = <<>> /\ Placed(io)
  /\ session.whole /\ pc \in {"new", "tunnel", "hello"} => io = <<>>
  /\ session.whole /\ pc \in {"verify", "ready", "send", "read"} =>
       Shaken /\ IF extra = <<>> THEN Placed(buff) ELSE buff = <<>> /\ Placed(extra)
  /\ session.whole /\ pc = "send" => extra = <<>> /\ buff = <<>>

\* When the transport has all that is due and sends a request, m_sendBuff is empty.
LEMMA NothingHeld ==
  ASSUME OrderInv, PlaceInv, session.whole, pc = "ready", got = DataSent, ~AllSent
  PROVE  extra = <<>> /\ buff = <<>>
<1>1. PICK N, b : N = Len(session.records) /\ b = IF extra = <<>> THEN buff ELSE extra
  OBVIOUS
<1>2. /\ session \in Sessions /\ schannel \in 0..N /\ N \in Nat /\ Records = 1..N /\ schannel \in Nat
      /\ got \in Seq(Cell) /\ readBuffer \in Seq(Cell) /\ got \o readBuffer = Given[schannel] /\ asked \in Nat
  BY <1>1, GivenIs DEF OrderInv, TakenInv, PlaceInv
<1>3. Shaken /\ Placed(b) /\ (extra # <<>> => b = extra /\ buff = <<>>) /\ (extra = <<>> => b = buff)
  BY <1>1 DEF PlaceInv
<1>4. PICK k \in 0..N : SentTo(asked, k)
  BY <1>1, <1>2, SentIs
<1>5. SentBy(asked) = Framed[k] /\ DataSent = Given[k]
  BY <1>1, <1>2, <1>4, SentTaken
<1>6. k < N
  <2>1. Place(N) = Len(Wire) /\ Len(SentBy(asked)) # Len(Wire)
    BY <1>1, <1>2, FramesAre DEF AllSent
  <2>2. k # N
    BY <1>5, <2>1 DEF Place
  <2> QED
    BY <1>2, <2>2
<1>7. schannel >= k
  <2> SUFFICES ASSUME schannel < k PROVE FALSE
    BY <1>2
  <2>1. PICK r : r = schannel + 1
    OBVIOUS
  <2>2. r \in Records /\ r - 1 = schannel /\ r > schannel /\ r <= k /\ r < N /\ N \in Records /\ r \in 0..N /\ k \in 0..N
    BY <1>2, <1>6, <2>1
  <2>3. ~IsShake(session.records[r])
    BY <1>3, <2>2 DEF Shaken
  <2>4. session.records[r].kind # "notify"
    BY <1>2, <2>2, SslServers DEF Records
  <2>5. session.records[r].kind \in {"hs", "cert", "data", "notify"}
    BY <1>2, <2>2, RecordIs
  <2>6. IsData(r)
    BY <2>3, <2>4, <2>5 DEF IsShake, IsData
  <2>7. /\ Len(Given[r]) = Len(Given[r - 1]) + Len(Plain(r)) /\ Len(Plain(r)) > 0
        /\ Len(Given[r]) <= Len(Given[k])
    BY <1>1, <1>2, <2>2, <2>6, DataIs
  <2>8. PICK g \in Nat, e \in Nat, m \in Nat, l \in Nat :
          g = Len(Given[schannel]) /\ e = Len(got) /\ m = Len(readBuffer) /\ l = Len(Plain(r))
    <3>1. Len(Given[schannel]) \in Nat /\ Len(got) \in Nat /\ Len(readBuffer) \in Nat
      BY <1>1, <1>2, DataIs
    <3>2. Plain(r) \in Seq(Cell)
      BY <1>2, <2>2, PlainIs
    <3>3. Len(Plain(r)) \in Nat
      BY <3>2
    <3> QED
      BY <3>1, <3>3
  <2>9. e + m = g
    <3>1. Len(got \o readBuffer) = Len(got) + Len(readBuffer)
      BY <1>2, ConcatIs
    <3> QED
      BY <1>2, <2>8, <3>1
  <2>10. g + l <= e /\ l > 0
    BY <1>5, <2>2, <2>7, <2>8
  <2> QED
    BY <2>8, <2>9, <2>10
<1>8. b = <<>>
  <2>1. PICK p, q : p = Place(schannel) /\ q = Place(k)
    OBVIOUS
  <2>2. p \in Nat /\ q \in Nat /\ q <= p
    BY <1>1, <1>2, <1>7, <2>1, FramesAre
  <2>3. b \in Seq(Cell) /\ arrived = p + Len(b) /\ arrived <= q
    BY <1>3, <1>5, <2>1 DEF Placed, Place
  <2>4. Len(b) = 0
    <3>1. PICK l \in Nat : l = Len(b)
      BY <2>3
    <3>2. l = 0
      BY <2>2, <2>3, <3>1
    <3> QED
      BY <3>1, <3>2
  <2>5. \A x \in Seq(Cell) : Len(x) = 0 => x = <<>>
    OBVIOUS
  <2> QED
    BY <2>3, <2>4, <2>5
<1> QED
  BY <1>3, <1>8

\* The handshake keeps the bytes in IoBuffer, until it leaves what follows it.
LEMMA ConnectPlaces ==
  ASSUME OrderInv, PlaceInv, Connect
  PROVE  PlaceInv'
<1>1. session \in Sessions /\ schannel \in 0..Len(session.records) /\ asked \in Nat
  BY DEF OrderInv, TakenInv, PlaceInv
<1>2. session' = session /\ asked' = asked /\ buff' = buff
  BY DEF Connect, PreConnect, SetupSSLProxy, Hello, ShakeRead, ShakeCert, ShakeTakes, ShakeFails, Verify
<1>3. Records' = Records /\ Wire' = Wire /\ Framed' = Framed /\ SentBy(asked)' = SentBy(asked)
  BY <1>2, SessionSame, FramesSame
<1>4. CASE ~session.whole
  BY <1>1, <1>2, <1>4 DEF PlaceInv
<1>5. CASE session.whole /\ ShakeTakes
  <2>1. /\ pc = "shake" /\ Complete(io) /\ schannel' = Next1 /\ arrived' = arrived
        /\ IF LastShake THEN extra' = Leftover(io) /\ io' = <<>> /\ pc' = "verify"
                        ELSE io' = Leftover(io) /\ UNCHANGED <<extra, pc>>
    BY <1>5 DEF ShakeTakes, Bundled
  <2>2. extra = <<>> /\ buff = <<>> /\ Placed(io)
    BY <1>5, <2>1 DEF PlaceInv
  <2>3. PICK l : l = Leftover(io)
    OBVIOUS
  <2>4. l \in Seq(Cell) /\ Stands(l, Wire, Place(Next1)) /\ arrived = Place(Next1) + Len(l)
        /\ arrived <= Len(SentBy(asked))
    BY <1>1, <2>1, <2>2, <2>3, TakesRecord DEF Placed
  <2>5. Place(schannel)' = Place(Next1)
    BY <1>3, <2>1 DEF Place
  <2>6. CASE LastShake
    <3>1. extra' = l /\ buff' = <<>> /\ pc' = "verify"
      BY <1>2, <2>1, <2>2, <2>3, <2>6
    <3>2. Placed(extra)' /\ (extra' = <<>> => Placed(buff)')
      BY <1>2, <1>3, <2>1, <2>4, <2>5, <3>1 DEF Placed
    <3>3. Shaken'
      <4>1. ~\E r \in Records : r > Next1 /\ IsShake(session.records[r])
        BY <2>6 DEF LastShake
      <4> QED
        BY <1>2, <1>3, <2>1, <4>1 DEF Shaken, IsShake
    <3> QED
      BY <1>1, <1>2, <3>1, <3>2, <3>3 DEF PlaceInv
  <2>7. CASE ~LastShake
    <3>1. io' = l /\ extra' = <<>> /\ buff' = <<>> /\ pc' = "shake"
      BY <1>2, <2>1, <2>2, <2>3, <2>7
    <3>2. Placed(io)'
      BY <1>2, <1>3, <2>1, <2>4, <2>5, <3>1 DEF Placed
    <3> QED
      BY <1>1, <1>2, <3>1, <3>2 DEF PlaceInv
  <2> QED
    BY <2>6, <2>7
<1>6. CASE session.whole /\ ShakeRead
  <2>1. pc = "shake" /\ schannel' = schannel /\ extra' = extra
    BY <1>6 DEF ShakeRead
  <2>2. extra = <<>> /\ buff = <<>> /\ Placed(io)
    BY <1>6, <2>1 DEF PlaceInv
  <2>3. CASE io' = io /\ arrived' = arrived /\ pc' = pc
    <3>1. Placed(io)'
      BY <1>2, <1>3, <2>1, <2>2, <2>3 DEF Placed, Place
    <3> QED
      BY <1>1, <1>2, <2>1, <2>2, <2>3, <3>1 DEF PlaceInv
  <2>4. CASE pc' = "failed"
    BY <1>1, <1>2, <2>4 DEF PlaceInv
  <2>5. ASSUME NEW bytes \in Recv(IoRoom), bytes # <<>>, arrived' = arrived + Len(bytes), io' = io \o bytes, pc' = pc
        PROVE  PlaceInv'
    <3>1. IoRoom \in Int
      <4>1. Len(io) \in Nat
        BY <2>2 DEF Placed
      <4> QED
        BY <4>1, SslConstants DEF IoRoom
    <3>2. /\ io \o bytes \in Seq(Cell) /\ Stands(io \o bytes, Wire, Place(schannel))
          /\ arrived + Len(bytes) = Place(schannel) + Len(io \o bytes)
          /\ arrived + Len(bytes) <= Len(SentBy(asked))
      BY <1>1, <1>6, <2>2, <2>5, <3>1, ReceivesMore
    <3>3. Placed(io)'
      BY <1>2, <1>3, <2>1, <2>5, <3>2 DEF Placed, Place
    <3> QED
      BY <1>1, <1>2, <2>1, <2>2, <2>5, <3>3 DEF PlaceInv
  <2> QED
    BY <1>6, <2>3, <2>4, <2>5 DEF ShakeRead, Fails
<1>7. CASE session.whole /\ (ShakeCert \/ ShakeFails)
  <2>1. pc = "shake" /\ pc' \in {"shake", "failed"} /\ UNCHANGED <<schannel, arrived, io, extra>>
    BY <1>7 DEF ShakeCert, ShakeFails, Fails, handshake
  <2>2. extra = <<>> /\ buff = <<>> /\ Placed(io)
    BY <1>7, <2>1 DEF PlaceInv
  <2>3. Placed(io)'
    BY <1>2, <1>3, <2>1, <2>2 DEF Placed, Place
  <2> QED
    BY <1>1, <1>2, <2>1, <2>2, <2>3 DEF PlaceInv
<1>8. CASE session.whole /\ (PreConnect \/ SetupSSLProxy \/ Hello)
  <2>1. /\ pc \in {"new", "tunnel", "hello"} /\ pc' \in {"tunnel", "hello", "shake", "failed"}
        /\ UNCHANGED <<schannel, arrived, extra>> /\ (io' = io \/ io' = <<>>)
    BY <1>8 DEF PreConnect, SetupSSLProxy, Hello, Fails, LoopBegins, handshake, tls
  <2>2. extra = <<>> /\ buff = <<>> /\ Placed(io) /\ io = <<>>
    BY <1>8, <2>1 DEF PlaceInv
  <2>3. Placed(io)'
    BY <1>2, <1>3, <2>1, <2>2 DEF Placed, Place
  <2> QED
    BY <1>1, <1>2, <2>1, <2>2, <2>3 DEF PlaceInv
<1>9. CASE session.whole /\ Verify
  <2>1. pc = "verify" /\ pc' \in {"ready", "failed", "crashed"} /\ UNCHANGED <<schannel, arrived, io, extra>>
    BY <1>9 DEF Verify, Unchecked, Fails, handshake
  <2>2. Shaken /\ IF extra = <<>> THEN Placed(buff) ELSE buff = <<>> /\ Placed(extra)
    BY <1>9, <2>1 DEF PlaceInv
  <2>3. Placed(buff) => Placed(buff)'
    BY <1>2, <1>3, <2>1 DEF Placed, Place
  <2>4. Placed(extra) => Placed(extra)'
    BY <1>2, <1>3, <2>1 DEF Placed, Place
  <2>5. Shaken'
    BY <1>2, <1>3, <2>1, <2>2 DEF Shaken, IsShake
  <2> QED
    BY <1>1, <1>2, <2>1, <2>2, <2>3, <2>4, <2>5 DEF PlaceInv
<1> QED
  BY <1>4, <1>5, <1>6, <1>7, <1>8, <1>9 DEF Connect

\* A request is packed into an empty m_sendBuff, and lets the server send no less than before.
LEMMA WritePlaces ==
  ASSUME OrderInv, PlaceInv, Write
  PROVE  PlaceInv'
<1>1. session \in Sessions /\ schannel \in 0..Len(session.records) /\ asked \in Nat
  BY DEF OrderInv, TakenInv, PlaceInv
<1>2. /\ session' = session /\ schannel' = schannel /\ arrived' = arrived /\ extra' = extra
      /\ asked' \in {asked, asked + 1} /\ pc' \in {"send", "ready", "failed"} /\ pc \in {"ready", "send"}
  BY DEF Write, SendChunk, SslWrite, SslWriteFails, Fails, tls
<1>3. Records' = Records /\ Wire' = Wire /\ Framed' = Framed /\ Place(schannel)' = Place(schannel)
  BY <1>2, SessionSame, FramesSame DEF Place
<1>4. asked' \in Nat
  BY <1>1, <1>2
<1>5. CASE ~session.whole
  BY <1>2, <1>4, <1>5 DEF PlaceInv
<1>6. CASE session.whole
  <2>1. Len(SentBy(asked)) <= Len(SentBy(asked)')
    <3>1. PICK j \in 0..Len(session.records) : SentTo(asked, j)
      BY <1>1, <1>6, SentIs
    <3>2. PICK k \in 0..Len(session.records) : SentTo(asked', k)
      BY <1>1, <1>4, <1>6, SentIs
    <3>3. SentBy(asked) = Framed[j] /\ SentBy(asked)' = Framed[k]
      <4>1. SentBy(asked) = Framed[j] /\ SentBy(asked') = Framed[k]
        BY <1>1, <1>4, <3>1, <3>2, SentTaken
      <4> QED
        BY <1>2, <4>1, FramesSame
    <3>4. j <= k
      <4> SUFFICES ASSUME j > k PROVE FALSE
        BY <1>1, GivenIs
      <4>1. j \in Records
        BY <1>1, GivenIs
      <4>2. session.records[j].after <= asked /\ ~(session.records[j].after <= asked')
        BY <1>1, <3>1, <3>2, <4>1, GivenIs DEF SentTo
      <4> QED
        BY <1>1, <1>2, <4>1, <4>2, RecordIs
    <3> QED
      BY <1>1, <3>3, <3>4, FramesAre DEF Place
  <2>2. Shaken /\ IF extra = <<>> THEN Placed(buff) ELSE buff = <<>> /\ Placed(extra)
    BY <1>2, <1>6 DEF PlaceInv
  <2>3. Shaken'
    BY <1>2, <1>3, <2>2 DEF Shaken, IsShake
  <2>4. buff' = buff /\ (pc' = "send" => extra = <<>> /\ buff = <<>>)
    <3>1. CASE SendChunk
      BY <1>6, <3>1, NothingHeld DEF SendChunk
    <3>2. CASE SslWrite
      <4>1. extra = <<>> /\ buff = <<>>
        BY <1>6, <3>2 DEF PlaceInv, SslWrite
      <4>2. PICK n : buff' = [i \in DOMAIN buff |-> IF i <= n THEN <<0, 0>> ELSE buff[i]]
        BY <3>2 DEF SslWrite
      <4>3. buff' = <<>>
        BY <4>1, <4>2
      <4> QED
        BY <4>1, <4>3
    <3>3. CASE SslWriteFails
      BY <3>3 DEF SslWriteFails, Fails
    <3> QED
      BY <3>1, <3>2, <3>3 DEF Write
  <2>5. arrived <= Len(SentBy(asked)) => arrived <= Len(SentBy(asked)')
    <3>1. PICK j \in 0..Len(session.records), k \in 0..Len(session.records) : SentTo(asked, j) /\ SentTo(asked', k)
      BY <1>1, <1>4, <1>6, SentIs
    <3>2. SentBy(asked) = Framed[j] /\ SentBy(asked') = Framed[k]
      BY <1>1, <1>4, <3>1, SentTaken
    <3>3. SentBy(asked)' = Framed[k]
      BY <1>2, <3>2, FramesSame
    <3>4. Len(SentBy(asked)) \in Nat /\ Len(SentBy(asked)') \in Nat
      BY <1>1, <3>2, <3>3, FramesAre DEF Place
    <3>5. arrived \in Nat
      <4>1. \E b \in Seq(Cell) : arrived = Place(schannel) + Len(b)
        BY <2>2 DEF Placed
      <4>2. Place(schannel) \in Nat /\ \A b \in Seq(Cell) : Len(b) \in Nat
        BY <1>1, FramesAre
      <4> QED
        BY <4>1, <4>2
    <3> QED
      BY <2>1, <3>4, <3>5
  <2>6. Placed(buff) => Placed(buff)'
    BY <1>2, <1>3, <2>4, <2>5 DEF Placed
  <2>7. Placed(extra) => Placed(extra)'
    BY <1>2, <1>3, <2>5 DEF Placed
  <2> QED
    BY <1>2, <1>4, <1>6, <2>2, <2>3, <2>4, <2>6, <2>7 DEF PlaceInv
<1> QED
  BY <1>5, <1>6

\* SSL_read takes the bytes that came with the handshake into m_sendBuff.
LEMMA ReadsPlaces ==
  ASSUME OrderInv, PlaceInv, Reads
  PROVE  PlaceInv' /\ (session.whole /\ result' = "end" => result = "end")
<1>1. PICK n \in ReadSizes : Read(n)
  BY DEF Reads
<1>2. /\ session' = session /\ schannel' = schannel /\ arrived' = arrived /\ asked' = asked /\ pc = "ready"
      /\ pc' \in {"ready", "read"} /\ n \in Nat /\ n > 0
      /\ \/ buff' = buff /\ extra' = extra
         \/ extra' = <<>> /\ buff' = (IF extra # <<>> THEN extra ELSE buff)
  BY <1>1, SslConstants DEF Read, Returns, tls
<1>3. Records' = Records /\ Wire' = Wire /\ Framed' = Framed /\ SentBy(asked)' = SentBy(asked)
      /\ Place(schannel)' = Place(schannel)
  BY <1>2, SessionSame, FramesSame DEF Place
<1>4. asked' \in Nat
  BY <1>2 DEF PlaceInv
<1>5. ASSUME ~session.whole PROVE PlaceInv'
  BY <1>2, <1>4, <1>5 DEF PlaceInv
<1>6. ASSUME session.whole PROVE PlaceInv'
  <2>1. Shaken /\ IF extra = <<>> THEN Placed(buff) ELSE buff = <<>> /\ Placed(extra)
    BY <1>2, <1>6 DEF PlaceInv
  <2>2. Shaken'
    BY <1>2, <1>3, <2>1 DEF Shaken, IsShake
  <2>3. CASE buff' = buff /\ extra' = extra
    <3>1. Placed(buff) => Placed(buff)'
      BY <1>2, <1>3, <2>3 DEF Placed
    <3>2. Placed(extra) => Placed(extra)'
      BY <1>2, <1>3, <2>3 DEF Placed
    <3> QED
      BY <1>2, <1>4, <2>1, <2>2, <2>3, <3>1, <3>2 DEF PlaceInv
  <2>4. CASE extra' = <<>> /\ buff' = IF extra # <<>> THEN extra ELSE buff
    <3>1. PICK b : b = IF extra # <<>> THEN extra ELSE buff
      OBVIOUS
    <3>2. Placed(b) /\ buff' = b
      BY <2>1, <2>4, <3>1
    <3>3. Placed(buff)'
      BY <1>2, <1>3, <3>2 DEF Placed
    <3> QED
      BY <1>2, <1>4, <2>2, <2>4, <3>3 DEF PlaceInv
  <2> QED
    BY <1>2, <2>3, <2>4
<1>7. result' = "end" => result = "end"
  <2> SUFFICES ASSUME result' = "end", result # "end" PROVE FALSE
    OBVIOUS
  <2>1. readBuffer # <<>> /\ SubSeq(readBuffer, 1, Least(n, Len(readBuffer))) = <<>>
    BY <1>1 DEF Read, Returns
  <2>2. readBuffer \in Seq(Cell)
    BY DEF OrderInv, TakenInv
  <2>3. Len(readBuffer) \in Nat /\ Len(readBuffer) > 0
    BY <2>1, <2>2
  <2>4. PICK m : m = Least(n, Len(readBuffer))
    OBVIOUS
  <2>5. m \in 1..Len(readBuffer)
    BY <1>2, <2>3, <2>4 DEF Least
  <2>6. Len(SubSeq(readBuffer, 1, m)) = m
    BY <2>2, <2>5
  <2> QED
    BY <2>1, <2>4, <2>5, <2>6
<1> QED
  BY <1>5, <1>6, <1>7
\* The loop of SSL_read adds to what is in m_sendBuff and takes records from its front.  In a whole
\* session nothing else can end a call but the end: when close_notify is taken, or recv has
\* nothing more, SChannel has all records and the transport all data.
LEMMA ReadStepPlaces ==
  ASSUME OrderInv, OrderInv', LoopInv, PlaceInv, ReadStep
  PROVE  PlaceInv' /\ (session.whole /\ result' = "end" => got' = Text)
<1>1. PICK N : N = Len(session.records)
  OBVIOUS
<1>2. /\ session \in Sessions /\ schannel \in 0..N /\ N \in Nat /\ Records = 1..N /\ asked \in Nat
      /\ got \in Seq(Cell) /\ got \o readBuffer = Given[schannel] /\ cb \in Nat /\ cb > 0
      /\ pc = "read" /\ readBuffer = <<>> /\ extra = <<>> /\ result # "end"
  <2>1. pc = "read" /\ session \in Sessions /\ schannel \in 0..N /\ got \in Seq(Cell) /\ got \o readBuffer = Given[schannel]
    BY <1>1 DEF OrderInv, TakenInv, ReadStep, ReadRecv, Decrypt, DecryptFails
  <2>2. cb \in ReadSizes /\ result # "end"
    BY <2>1 DEF OrderInv, PhaseInv
  <2>3. cb \in Nat /\ cb > 0
    BY <2>2, SslConstants
  <2> QED
    BY <1>1, <2>1, <2>2, <2>3, GivenIs DEF LoopInv, PlaceInv
<1>3. session' = session /\ asked' = asked /\ extra' = extra /\ pc' \in {"ready", "read"}
  BY <1>2 DEF ReadStep, ReadRecv, Decrypt, DecryptFails, Returns
<1>4. /\ Records' = Records /\ Wire' = Wire /\ Framed' = Framed /\ SentBy(asked)' = SentBy(asked)
      /\ Given' = Given
  BY <1>3, SessionSame, FramesSame
<1>5. ASSUME ~session.whole PROVE PlaceInv'
  BY <1>2, <1>3, <1>5 DEF PlaceInv
<1>6. ASSUME session.whole PROVE Shaken /\ Placed(buff)
  BY <1>2, <1>6 DEF PlaceInv
<1>7. ASSUME session.whole, Shaken', Placed(buff)' PROVE PlaceInv'
  BY <1>2, <1>3, <1>7 DEF PlaceInv
<1>8. got = Given[schannel]
  BY <1>2
<1>9. ASSUME session.whole, Decrypt PROVE PlaceInv' /\ (result' = "end" => got' = Text)
  <2>1. PICK data, a, l : /\ data = Plain(Next1) /\ a = SubSeq(data, 1, Least(cb, Len(data)))
                          /\ l = Leftover(buff)
    OBVIOUS
  <2>2. /\ got' = got \o a /\ readBuffer' = From(data, cb + 1) /\ result' = (IF a = <<>> THEN "end" ELSE "more")
        /\ schannel' = Next1 /\ buff' = l /\ arrived' = arrived /\ Complete(buff)
    BY <1>9, <2>1 DEF Decrypt, Returns, Left
  <2>3. Next1 \in Records /\ Next1 = schannel + 1 /\ Next1 \in 0..N
    BY <1>2, <2>2 DEF Complete, Next1
  <2>4. Placed(buff)'
    <3>1. l \in Seq(Cell) /\ Stands(l, Wire, Place(Next1)) /\ arrived = Place(Next1) + Len(l)
          /\ arrived <= Len(SentBy(asked))
      BY <1>1, <1>2, <1>6, <1>9, <2>1, <2>2, TakesRecord DEF Placed
    <3>2. Place(schannel)' = Place(Next1)
      BY <1>4, <2>2 DEF Place
    <3> QED
      BY <1>4, <2>2, <3>1, <3>2 DEF Placed
  <2>5. Shaken'
    <3>1. \A r \in Records : r > Next1 => r > schannel
      BY <1>2, <2>3
    <3> QED
      BY <1>3, <1>4, <1>6, <1>9, <2>2, <3>1 DEF Shaken, IsShake
  <2>6. ASSUME result' = "end" PROVE got' = Text
    <3>1. a = <<>> /\ data \in Seq(Cell)
      BY <1>2, <2>1, <2>2, <2>3, <2>6, PlainIs
    <3>2. data = <<>>
      <4>1. PICK n \in Nat : n = Len(data)
        BY <3>1
      <4>2. PICK m : m = Least(cb, n)
        OBVIOUS
      <4>3. m \in 0..n /\ (n > 0 => m > 0)
        BY <1>2, <4>2 DEF Least
      <4>4. Len(a) = m /\ Len(a) = 0
        BY <2>1, <3>1, <4>1, <4>2, <4>3
      <4>5. n = 0
        BY <4>1, <4>3, <4>4
      <4>6. \A x \in Seq(Cell) : Len(x) = 0 => x = <<>>
        OBVIOUS
      <4> QED
        BY <3>1, <4>1, <4>5, <4>6
    <3>3. ~IsData(Next1)
      <4>1. Len(Plain(Next1)) = 0
        BY <2>1, <3>2
      <4> QED
        BY <1>2, <1>9, <2>3, <4>1, DataIs
    <3>4. ~IsShake(session.records[Next1])
      <4>1. Next1 > schannel
        BY <1>2, <2>3
      <4> QED
        BY <1>6, <1>9, <2>3, <4>1 DEF Shaken
    <3>5. session.records[Next1].kind = "notify"
      BY <1>2, <2>3, <3>3, <3>4, RecordIs DEF IsData, IsShake
    <3>6. Next1 = N
      <4> SUFFICES ASSUME Next1 # N PROVE FALSE
        OBVIOUS
      <4>1. N \in Records /\ Next1 < N
        BY <1>2, <2>3
      <4> QED
        BY <1>2, <1>9, <2>3, <3>5, <4>1, SslServers DEF Records
    <3>7. got' \o readBuffer' = Given[N] /\ got' \in Seq(Cell)
      BY <1>4, <2>2, <3>6 DEF OrderInv, TakenInv
    <3>8. readBuffer' = <<>>
      <4>1. SubSeq(<<>>, cb + 1, 0) = <<>>
        BY <1>2
      <4> QED
        BY <2>2, <3>2, <4>1 DEF From
    <3>9. got' \o <<>> = got'
      BY <3>7
    <3> QED
      BY <1>1, <1>2, <3>7, <3>8, <3>9, AllIsText
  <2> QED
    BY <1>7, <1>9, <2>4, <2>5, <2>6
<1>10. ASSUME session.whole, ReadRecv PROVE PlaceInv' /\ (result' = "end" => got' = Text)
  <2>1. PICK n, bytes : n = BUFF_SIZE - Len(buff) /\ bytes \in Recv(n) /\ arrived' = arrived + Len(bytes)
                        /\ buff' = buff \o bytes /\ (IF bytes = <<>> THEN Returns(<<>>) ELSE UNCHANGED <<pc, got, result>>)
    BY <1>10 DEF ReadRecv
  <2>2. schannel' = schannel /\ (buff = <<>> \/ Partial(buff))
    BY <1>10 DEF ReadRecv, Waits, tls
  <2>3. Shaken'
    BY <1>3, <1>4, <1>6, <1>10, <2>2 DEF Shaken, IsShake
  <2>4. Place(schannel)' = Place(schannel)
    BY <1>4, <2>2 DEF Place
  <2>5. buff \in Seq(Cell) /\ Len(buff) \in Nat /\ arrived \in Nat
    <3>1. buff \in Seq(Cell) /\ arrived = Place(schannel) + Len(buff)
      BY <1>6, <1>10 DEF Placed
    <3>2. Place(schannel) \in Nat
      BY <1>1, <1>2, FramesAre
    <3> QED
      BY <3>1, <3>2
  <2>6. n \in Int /\ n > 0
    <3>1. PICK l \in Nat : l = Len(buff)
      BY <2>5
    <3>2. l < MAX_MESSAGE + 1
      <4>1. CASE buff = <<>>
        BY <3>1, <4>1, SslConstants
      <4>2. CASE Partial(buff)
        <5>1. PICK m : m = Len(Cells(Next1))
          OBVIOUS
        <5>2. l < m /\ m <= MAX_MESSAGE + 1
          BY <1>1, <1>2, <1>6, <1>10, <3>1, <4>2, <5>1, PartIsShorter
        <5>3. m \in Nat
          BY <1>2, <4>2, <5>1, RecordIs DEF Partial
        <5> QED
          BY <3>1, <5>2, <5>3, SslConstants
      <4> QED
        BY <2>2, <4>1, <4>2
    <3> QED
      BY <2>1, <3>1, <3>2, SslConstants DEF BUFF_SIZE
  <2>7. CASE bytes # <<>>
    <3>1. /\ buff \o bytes \in Seq(Cell) /\ Stands(buff \o bytes, Wire, Place(schannel))
          /\ arrived + Len(bytes) = Place(schannel) + Len(buff \o bytes)
          /\ arrived + Len(bytes) <= Len(SentBy(asked))
      BY <1>1, <1>2, <1>6, <1>10, <2>1, <2>6, <2>7, ReceivesMore
    <3>2. Placed(buff)'
      BY <1>4, <2>1, <2>4, <3>1 DEF Placed
    <3> QED
      BY <1>2, <1>7, <1>10, <2>1, <2>3, <2>7, <3>2
  <2>8. CASE bytes = <<>>
    <3>1. buff' = buff /\ arrived' = arrived /\ got' = got
      BY <1>2, <2>1, <2>5, <2>8 DEF Returns
    <3>2. Placed(buff)'
      BY <1>4, <1>6, <1>10, <2>4, <3>1 DEF Placed
    <3>3. PICK s, h : s = SentBy(asked) /\ h = From(s, arrived + 1)
      OBVIOUS
    <3>4. s \in Seq(Cell)
      <4>1. PICK k \in 0..N : s = Framed[k]
        BY <1>1, <1>2, <1>10, <3>3, SentIs, SentTaken
      <4> QED
        BY <1>1, <1>2, <4>1, FramesAre
    <3>5. PICK S \in Nat, A \in Nat : S = Len(s) /\ A = arrived
      BY <2>5, <3>4
    <3>6. h \in Seq(Cell) /\ h = SubSeq(s, A + 1, S) /\ Len(h) = (IF A <= S THEN S - A ELSE 0)
      BY <3>3, <3>4, <3>5 DEF From
    <3>7. h = <<>> /\ AllSent
      <4>1. ASSUME NEW k \in 1..Least(n, Len(h)), bytes = SubSeq(h, 1, k) PROVE FALSE
        <5>1. k \in 1..Len(h)
          BY <2>6, <3>5, <3>6, <4>1 DEF Least
        <5>2. Len(SubSeq(h, 1, k)) = k
          BY <3>6, <5>1
        <5> QED
          BY <2>8, <4>1, <5>1, <5>2
      <4> QED
        BY <1>10, <2>1, <2>6, <3>3, <4>1 DEF Recv
    <3>8. S <= A
      <4>1. Len(h) = 0
        BY <3>7
      <4> QED
        BY <3>5, <3>6, <4>1
    <3>9. arrived >= Len(Wire)
      <4>1. S = Len(Wire)
        BY <3>3, <3>5, <3>7 DEF AllSent
      <4> QED
        BY <3>5, <3>8, <4>1
    <3>10. schannel = N
      BY <1>1, <1>2, <1>6, <1>10, <2>2, <3>9, AllTaken
    <3>11. got' = Text
      BY <1>1, <1>2, <1>8, <3>1, <3>10, AllIsText
    <3> QED
      BY <1>7, <1>10, <2>3, <3>2, <3>11
  <2> QED
    BY <2>7, <2>8
<1>11. ASSUME session.whole PROVE ~DecryptFails
  BY <1>1, <1>2, <1>6, <1>11, HoldsNext DEF DecryptFails, Waits
<1>12. CASE session.whole
  BY <1>9, <1>10, <1>11, <1>12 DEF ReadStep
<1>13. CASE ~session.whole
  BY <1>5, <1>13
<1> QED
  BY <1>12, <1>13
\* The buffers, step by step; and the end of a whole session is reported when all data is.
LEMMA PlaceStep ==
  ASSUME OrderInv, OrderInv', LoopInv, PlaceInv, [Next]_vars
  PROVE  PlaceInv' /\ (session.whole /\ result' = "end" => result = "end" \/ got' = Text)
<1>1. CASE Connect
  <2>1. result' = "end" => result = "end"
    BY <1>1 DEF Connect, PreConnect, SetupSSLProxy, Hello, ShakeRead, ShakeCert, ShakeTakes, ShakeFails, Verify, Unchecked, Fails
  <2> QED
    BY <1>1, <2>1, ConnectPlaces
<1>2. CASE Write
  <2>1. result' = "end" => result = "end"
    BY <1>2 DEF Write, SendChunk, SslWrite, SslWriteFails, Fails
  <2> QED
    BY <1>2, <2>1, WritePlaces
<1>3. CASE Reads
  BY <1>3, ReadsPlaces
<1>4. CASE ReadStep
  BY <1>4, ReadStepPlaces
<1>5. CASE Disconnect \/ UNCHANGED vars
  <2>1. /\ UNCHANGED <<session, arrived, asked, schannel, io, extra, buff, result>>
        /\ pc' = pc \/ pc' = "closed"
    BY <1>5 DEF Disconnect, vars, handshake, tls
  <2>2. Records' = Records /\ Wire' = Wire /\ Place(schannel)' = Place(schannel) /\ SentBy(asked)' = SentBy(asked)
    BY <2>1, SessionSame, FramesSame DEF Place
  <2>3. (Placed(buff) => Placed(buff)') /\ (Placed(extra) => Placed(extra)') /\ (Placed(io) => Placed(io)')
    BY <2>1, <2>2 DEF Placed
  <2>4. Shaken => Shaken'
    BY <2>1, <2>2 DEF Shaken, IsShake
  <2>5. CASE pc' = pc
    BY <2>1, <2>3, <2>4, <2>5 DEF PlaceInv
  <2>6. CASE pc' = "closed"
    BY <2>1, <2>6 DEF PlaceInv
  <2> QED
    BY <2>1, <2>5, <2>6
<1> QED
  BY <1>1, <1>2, <1>3, <1>4, <1>5 DEF Next

\* At the start nothing has arrived.
LEMMA NothingPlaced ==
  ASSUME Init
  PROVE  PlaceInv
<1>1. session \in Sessions /\ schannel = 0 /\ asked = 0 /\ arrived = 0 /\ io = <<>> /\ buff = <<>> /\ extra = <<>> /\ pc = "new"
  BY DEF Init
<1>2. Wire \in Seq(Cell) /\ Place(0) = 0
  BY <1>1, FramesAre
<1>3. Stands(<<>>, Wire, 0) /\ <<>> \in Seq(Cell) /\ Len(<<>>) = 0
  BY <1>2 DEF Stands
<1>4. session.whole => Len(SentBy(asked)) \in Nat
  <2> SUFFICES ASSUME session.whole PROVE Len(SentBy(asked)) \in Nat
    OBVIOUS
  <2>1. PICK k \in 0..Len(session.records) : SentBy(asked) = Framed[k]
    BY <1>1, SentIs, SentTaken
  <2> QED
    BY <1>1, <2>1, FramesAre DEF Place
<1>5. session.whole => Placed(<<>>)
  BY <1>1, <1>2, <1>3, <1>4 DEF Placed
<1> QED
  BY <1>1, <1>5 DEF PlaceInv

\* Every step is one of BodyStream's or none that it sees, its promise about the end included.
LEMMA StreamStep ==
  ASSUME OrderInv, OrderInv', Delivers, session.whole /\ result' = "end" => result = "end" \/ got' = Text
  PROVE  [Stream!Next]_(Stream!vars)
<1>1. PICK R : R = From(Text, Len(got) + 1)
  OBVIOUS
<1>2. [InOrder!Next]_(InOrder!vars)
  BY InOrderStep
<1>3. session' = session
  BY DEF Delivers
<1>4. CASE UNCHANGED InOrder!vars
  BY <1>3, <1>4 DEF InOrder!vars, Stream!vars
<1>5. CASE InOrder!Give
  <2>1. PICK n \in 1..(CHOOSE n \in ReadSizes : \A m \in ReadSizes : m <= n) :
          /\ n <= Len(R) /\ got' = got \o SubSeq(R, 1, n) /\ From(Text, Len(got) + 1)' = SubSeq(R, n + 1, Len(R))
    BY <1>1, <1>5 DEF InOrder!Give, InOrder!Spans
  <2>2. (result' = "end") = (result = "end") /\ ~(result = "end")
    BY <1>5 DEF InOrder!Give
  <2>3. (result' # "end") = (result # "end")
    BY <2>2
  <2>4. Stream!Give
    BY <1>1, <1>3, <2>1, <2>2, <2>3 DEF Stream!Give, Stream!Spans, Stream!MayEnd
  <2> QED
    BY <2>4 DEF Stream!Next
<1>6. CASE InOrder!End
  <2>1. /\ (result' = "end") = TRUE /\ (result' # "end") = FALSE /\ got' = got
        /\ From(Text, Len(got) + 1)' = From(Text, Len(got) + 1)
    BY <1>6 DEF InOrder!End
  <2>2. CASE result = "end"
    <3>1. (result' = "end") = (result = "end") /\ (result' # "end") = (result # "end")
      BY <2>1, <2>2
    <3> QED
      BY <1>3, <2>1, <3>1 DEF Stream!vars
  <2>3. CASE result # "end"
    <3>1. session.whole => R = <<>>
      <4> SUFFICES ASSUME session.whole PROVE R = <<>>
        OBVIOUS
      <4>1. got = Text /\ got \in Seq(Cell)
        BY <2>1, <2>3 DEF OrderInv, TakenInv
      <4>2. SubSeq(got, Len(got) + 1, Len(got)) = <<>>
        BY <4>1
      <4> QED
        BY <1>1, <4>1, <4>2 DEF From
    <3>2. Stream!End
      BY <1>1, <1>3, <2>1, <3>1 DEF Stream!End, Stream!MayEnd
    <3> QED
      BY <3>2 DEF Stream!Next
  <2> QED
    BY <2>2, <2>3
<1>7. CASE InOrder!Drop
  BY <1>7 DEF InOrder!Drop
<1> QED
  BY <1>2, <1>4, <1>5, <1>6, <1>7 DEF InOrder!Next

\* The same for the whole of what BodyStream promises: of a whole session the transport has all
\* data when it is told of the end.
THEOREM SslImplementsStream == Spec => ImplementsStream
<1>1. Init => OrderInv /\ LoopInv /\ PlaceInv /\ Stream!Init
  <2>1. Init => OrderInv /\ LoopInv /\ InOrder!Init
    BY OrderBegins
  <2> QED
    BY <2>1, NothingPlaced DEF InOrder!Init, Stream!Init
<1>2. OrderInv /\ LoopInv /\ [Next]_vars => OrderInv' /\ LoopInv'
  BY OrderStep, LoopStep
<1>3. OrderInv /\ OrderInv' /\ LoopInv /\ PlaceInv /\ [Next]_vars => PlaceInv' /\ [Stream!Next]_(Stream!vars)
  BY OrderStep, PlaceStep, StreamStep
<1> QED
  BY <1>1, <1>2, <1>3, PTL DEF Spec, ImplementsStream, Stream!Spec
=============================================================================
