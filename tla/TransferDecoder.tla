-------------------------- MODULE TransferDecoder --------------------------
(***************************************************************************)
(* How the body of one HTTP response reaches the application: the three    *)
(* transfer decoders of pockethttp/core/ChunkedTE.cpp reading through      *)
(* CHTTPTransport::InternalRead (HTTPTransport.cpp), which takes bytes     *)
(* from the buffer of bytes put back, then from the socket, and gives the  *)
(* connection up when a read returns nothing.                              *)
(*                                                                         *)
(* A step is one InternalRead with what its caller does next: the network  *)
(* may cut the response anywhere, and a step may wait for it.  A byte of   *)
(* the wire is a pair <<kind, n>>; the digits of a chunk size are one byte.*)
(***************************************************************************)
EXTENDS Integers, SequencesExt

CONSTANTS
  Response,        \* the responses a server may send (see ResponseType)
  ReadSizes,       \* what the application asks of Read in one call
  SIZE_BUFF,       \* buff_size of getChunkSize: 80
  TRAILER_BUFF     \* buff_size of the trailers loop: 128

\* A call asks for something, and a ULONG bounds how much
ASSUME DecoderConstants ==
  /\ ReadSizes \subseteq Nat \ {0} /\ \E n \in ReadSizes : \A m \in ReadSizes : m <= n
  /\ SIZE_BUFF \in Nat \ {0}
  /\ TRAILER_BUFF \in Nat /\ TRAILER_BUFF \div 2 >= 4

VARIABLES
  resp,       \* the response: kind, chunks, ext, trailer, close, whole
  net,        \* what the server still sends of it
  conn,       \* m_connection: in use, its socket closed, or given up (NULL)
  buf,        \* m_responseBuffer
  state,      \* m_state of ChunkedTE
  left,       \* m_remainingInChunk, or m_length of contentLengthTE
  at,         \* where Read() is, "idle" when it is not being called
  cb,         \* what the call in progress asked for
  part,       \* what it has put into the caller's buffer
  scratch,    \* its local buffer
  got,        \* history: the bytes the application was given
  result      \* history: what the last call returned

vars == <<resp, net, conn, buf, state, left, at, cb, part, scratch, got, result>>
-----------------------------------------------------------------------------
(* Responses.  chunks gives the number of data bytes of each chunk (of the  *)
(* whole body when it is not chunked), ext and trailer the lengths of the   *)
(* chunk extensions and of the trailers; whole says that the server sends    *)
(* all of it and that no recv fails.                                        *)

Byte(kind, n) == <<kind, n>>
CRLF == <<Byte("CR", 0), Byte("LF", 0)>>
Filler(n) == [i \in 1..n |-> Byte("text", 0)]

\* The data bytes of the i-th chunk; together they are the body
Data(r, i) == [j \in 1..r.chunks[i] |-> Byte("data", 10 * i + j)]
Body(r) == FlattenSeq([i \in DOMAIN r.chunks |-> Data(r, i)])

SizeLine(r, n) == <<Byte("size", n)>> \o Filler(r.ext) \o CRLF
Wire(r) ==
  IF r.kind = "chunked"
  THEN FlattenSeq([i \in DOMAIN r.chunks |->
                     SizeLine(r, r.chunks[i]) \o Data(r, i) \o CRLF])
       \o SizeLine(r, 0)
       \o (IF r.trailer = 0 THEN <<>> ELSE Filler(r.trailer) \o CRLF)
       \o CRLF
  ELSE Body(r)

ResponseType ==
  [kind : {"length", "chunked", "close"}, chunks : Seq(Nat \ {0}), ext : Nat,
   trailer : Nat, close : BOOLEAN, whole : BOOLEAN]

\* A chunk-size line that does not fit getChunkSize's buffer is an error to it, not a response;
\* and ReceiveImpl refuses a body that only the end of the connection ends without its close
ASSUME DecoderResponses ==
  Response \subseteq {r \in ResponseType : r.ext + 3 <= SIZE_BUFF /\ (r.kind = "close" => r.close)}

\* CRLF, and CRLF CRLF, in s: the index std::search finds, 0 if it finds none
FirstAt(s, pat) ==
  LET ends == {i \in 1..(Len(s) - Len(pat) + 1) : SubSeq(s, i, i + Len(pat) - 1) = pat}
  IN IF ends = {} THEN 0 ELSE CHOOSE i \in ends : \A j \in ends : i <= j

\* s from index i on
From(s, i) == SubSeq(s, i, Len(s))
Least(a, b) == IF a < b THEN a ELSE b
-----------------------------------------------------------------------------
(* CHTTPTransport::InternalRead *)

\* What asking for n bytes may yield.  A recv on a socket that was closed
\* after an error yields nothing (WSAENOTSOCK), and so does a connection that
\* the server has closed; on one that stays open it waits and times out.
Yield(n) ==
  LET Gets(bytes, b, w) == [bytes |-> bytes, buf |-> b, net |-> w, err |-> FALSE]
      nothing == Gets(<<>>, buf, net)
      fails   == [nothing EXCEPT !.err = TRUE]
      k       == Least(n, Len(buf))
  IN IF buf # <<>> THEN {Gets(SubSeq(buf, 1, k), From(buf, k + 1), net)}
     ELSE IF n = 0 \/ conn # "held" THEN {nothing}
     ELSE {Gets(SubSeq(net, 1, i), <<>>, From(net, i + 1)) : i \in 1..Least(n, Len(net))}
          \cup (IF net = <<>> THEN IF resp.close THEN {nothing} ELSE {fails} ELSE {})
          \cup (IF resp.whole THEN {} ELSE {fails, [nothing EXCEPT !.net = <<>>]})

\* Its effect on the connection: Disconnect() keeps the pointer on an error; a
\* read of nothing closes or returns the connection and clears it
ConnAfter(y) ==
  IF y.err THEN "broken"
  ELSE IF y.bytes = <<>> /\ conn \in {"held", "broken"}
       THEN IF resp.close THEN "closed" ELSE "pooled"
  ELSE conn

\* A mutant: bytes are put back behind those that wait
BugReads(y, extra) ==
  /\ net' = y.net
  /\ buf' = y.buf \o extra
  /\ conn' = ConnAfter(y)
  /\ UNCHANGED resp

\* An InternalRead with outcome y, after which extra is put back in front
\* (BufferForNextRead)
Reads(y, extra) ==
  /\ net' = y.net
  /\ buf' = extra \o y.buf
  /\ conn' = ConnAfter(y)
  /\ UNCHANGED resp
-----------------------------------------------------------------------------
(* The application *)

\* HttpStream::Read
Read(n) ==
  /\ at = "idle"
  /\ at' = IF resp.kind = "chunked" THEN state ELSE "data"
  /\ cb' = n
  /\ part' = <<>>
  /\ scratch' = <<>>
  /\ UNCHANGED <<resp, net, conn, buf, state, left, got, result>>

\* Read returns S_OK with p in the caller's buffer, nothing meaning the end
Return(p) ==
  /\ at' = "idle"
  /\ got' = got \o p
  /\ result' = IF p = <<>> THEN "end" ELSE "more"
  /\ scratch' = <<>>
  /\ part' = <<>>

\* Read returns an error: the caller drops what its buffer holds
Fail ==
  /\ at' = "idle"
  /\ result' = "error"
  /\ scratch' = <<>>
  /\ part' = <<>>
  /\ UNCHANGED got

Goto(place) == at' = place /\ UNCHANGED <<got, result>>
-----------------------------------------------------------------------------
(* contentLengthTE::Read and connectionWillClose::Read *)

\* min(m_length, cb) and min(m_remainingInChunk, cb)
Ask == Least(left, cb)

\* One read of at most m_length bytes; at the end a read of nothing follows
LengthRead ==
  /\ at = "data" /\ resp.kind = "length"
  /\ \E y \in Yield(Ask) :
       /\ Reads(y, <<>>)
       /\ IF y.err THEN Fail /\ UNCHANGED left
          ELSE /\ left' = left - Len(y.bytes)
               /\ IF left' = 0 THEN Goto("tidy") /\ part' = y.bytes /\ UNCHANGED scratch
                               ELSE Return(y.bytes)
  /\ UNCHANGED <<state, cb>>

CloseRead ==
  /\ at = "data" /\ resp.kind = "close"
  /\ \E y \in Yield(cb) :
       /\ Reads(y, <<>>)
       /\ IF y.err THEN Fail ELSE Return(y.bytes)
  /\ UNCHANGED <<state, left, cb>>

\* The read of nothing that gives the connection up
Tidy ==
  /\ at = "tidy"
  /\ \E y \in Yield(0) : Reads(y, <<>>)
  /\ Return(part)
  /\ state' = IF resp.kind = "chunked" THEN "done" ELSE state
  /\ UNCHANGED <<left, cb>>
-----------------------------------------------------------------------------
(* ChunkedTE::Read *)

\* The bytes after a size of n whose line ends at eol.  The CRLF after the size of
\* the last chunk stays, as the first of the trailers; the mutant skips it too.
BugExtra(s, eol, n) == From(s, eol + 2)
Extra(s, eol, n) == From(s, IF n = 0 THEN eol ELSE eol + 2)

\* getChunkSize, with the header line so far in s: parse it and put the rest
\* back
ParseSize(s, y) ==
  LET n  == IF s # <<>> /\ s[1][1] = "size" THEN s[1][2] ELSE 0   \* strtoul
      eol == FirstAt(s, CRLF)
  IN IF eol = 0
     THEN Reads(y, <<>>) /\ Fail /\ left' = n /\ UNCHANGED <<state, part>>
     ELSE /\ left' = n
          /\ state' = IF n = 0 THEN "trailers" ELSE "data"
          /\ Reads(y, Extra(s, eol, n))
          /\ scratch' = <<>>
          /\ Goto(IF n = 0 THEN "trailers" ELSE "data")
          /\ UNCHANGED part

\* One turn of getChunkSize's loop
SizeRead ==
  /\ at = "size"
  /\ \E y \in Yield(SIZE_BUFF - Len(scratch)) :
       LET s == scratch \o y.bytes IN
       IF y.err THEN Reads(y, <<>>) /\ Fail /\ UNCHANGED <<state, left>>
       ELSE IF FirstAt(s, CRLF) = 0 /\ Len(s) < SIZE_BUFF
       THEN /\ Reads(y, <<>>)
            /\ scratch' = s
            /\ UNCHANGED <<state, left, at, part, got, result>>
       ELSE ParseSize(s, y)
  /\ UNCHANGED cb

\* The data of the chunk; the call goes on only when the chunk is complete
ChunkRead ==
  /\ at = "data" /\ resp.kind = "chunked"
  /\ \E y \in Yield(Ask) :
       /\ Reads(y, <<>>)
       /\ IF y.err THEN Fail /\ UNCHANGED <<state, left>>
          ELSE /\ left' = left - Len(y.bytes)
               /\ IF left' = 0
                  THEN /\ state' = "term" /\ Goto("term")
                       /\ part' = y.bytes /\ UNCHANGED scratch
                  ELSE Return(y.bytes) /\ UNCHANGED state
  /\ UNCHANGED cb

\* One turn of the loop over the two bytes after the data
TermRead ==
  /\ at = "term"
  /\ \E y \in Yield(2 - Len(scratch)) :
       LET s == scratch \o y.bytes IN
       /\ Reads(y, <<>>)
       /\ IF y.err THEN Fail /\ UNCHANGED state
          ELSE IF Len(s) < 2 THEN scratch' = s /\ UNCHANGED <<state, at, part, got, result>>
          ELSE Return(part) /\ state' = "size"
  /\ UNCHANGED <<left, cb>>

\* What ends the trailers
BugTerm == CRLF
Term == CRLF \o CRLF

\* What the loop over the trailers keeps of s to search again: when more than half
\* of its buffer is full, as many bytes as may be the start of Term.  The mutant
\* keeps too few.
BugKept(s) == IF Len(s) > TRAILER_BUFF \div 2 THEN From(s, Len(s) - 1) ELSE s
Kept(s) == IF Len(s) > TRAILER_BUFF \div 2 THEN From(s, Len(s) - 3) ELSE s

\* One turn of that loop
TrailerRead ==
  /\ at = "trailers"
  /\ \E y \in Yield(TRAILER_BUFF - Len(scratch)) :
       LET s == scratch \o y.bytes
           t == FirstAt(s, Term)
       IN IF y.err THEN Reads(y, <<>>) /\ Fail
          ELSE IF t = 0
          THEN Reads(y, <<>>) /\ scratch' = Kept(s) /\ UNCHANGED <<at, part, got, result>>
          ELSE /\ Reads(y, From(s, t + Len(Term)))
               /\ scratch' = <<>>
               /\ Goto("tidy") /\ UNCHANGED part
  /\ UNCHANGED <<state, left, cb>>

\* A call after the last one
DoneRead ==
  /\ at = "done"
  /\ Return(<<>>)
  /\ UNCHANGED <<resp, net, conn, buf, state, left, cb>>
-----------------------------------------------------------------------------
\* ReceiveImpl: it has read the headers, and perhaps part of what follows
Init ==
  /\ resp \in Response
  /\ \E k \in 0..Len(Wire(resp)) :
       buf = SubSeq(Wire(resp), 1, k) /\ net = From(Wire(resp), k + 1)
  /\ conn = "held"
  /\ state = "size"
  /\ left = IF resp.kind = "length" THEN Len(Body(resp)) ELSE 0
  /\ at = "idle"
  /\ cb = 0
  /\ part = <<>> /\ scratch = <<>> /\ got = <<>>
  /\ result = "none"

Decode ==
  LengthRead \/ CloseRead \/ Tidy \/ SizeRead \/ ChunkRead \/ TermRead
  \/ TrailerRead \/ DoneRead

Call == \E n \in ReadSizes : Read(n)

Next == Call \/ Decode

Spec == Init /\ [][Next]_vars

\* Read() goes on while its thread runs (a recv ends by data, close or time-out);
\* FairSpec adds an application that reads to the end, as get_Bytes does
CallsEnd == WF_vars(Decode)
FairSpec == Spec /\ CallsEnd /\ WF_vars(result \notin {"end", "error"} /\ Call)
-----------------------------------------------------------------------------
(* Properties *)

TypeOK ==
  /\ resp \in Response
  /\ conn \in {"held", "broken", "pooled", "closed"}
  /\ state \in {"size", "data", "term", "trailers", "done"}
  /\ at \in {"idle", "data", "size", "term", "trailers", "tidy", "done"}
  /\ left \in Nat /\ cb \in ReadSizes \cup {0}
  /\ result \in {"none", "more", "end", "error"}
  /\ Len(scratch) <= IF at = "size" THEN SIZE_BUFF ELSE TRAILER_BUFF

\* The decoders read a whole response to its last byte and never beyond: a read on a
\* connection that stays open would wait for the time-out, and one that goes back to the
\* pool with a rest of this response would give it to the next request.
InStep ==
  resp.whole =>
    /\ result # "error"
    /\ conn = "pooled" => net = <<>> /\ buf = <<>> /\ at \notin {"size", "trailers"}

\* An application that reads to the end of a whole response gets there, and the
\* transport is rid of the connection by then.
Completes == resp.whole => <>(result = "end" /\ conn \in {"pooled", "closed"})

\* Whichever the decoder and however reads, packets and failures fall, the
\* application sees what BodyStream promises: nothing but the body, in order, no
\* more than it asked for, and of a whole response all of it.
Stream == INSTANCE BodyStream WITH
  MaxPiece <- CHOOSE n \in ReadSizes : \A m \in ReadSizes : m <= n,
  whole <- resp.whole,
  given <- got,
  rest  <- From(Body(resp), Len(got) + 1),
  ended <- result = "end",
  held  <- conn = "held"
ImplementsStream == Stream!Spec
=============================================================================
