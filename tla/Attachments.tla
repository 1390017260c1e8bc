---------------------------- MODULE Attachments ----------------------------
(***************************************************************************)
(* A SOAP message with attachments: the packagers of                       *)
(* pocketsoap/Attachments_core.  An application sends an envelope and other *)
(* parts as one DIME or MIME message, which the transport reads twice (for *)
(* its length, then to send it); the answer is unpacked from a stream that *)
(* comes in pieces of any size.                                            *)
(*                                                                         *)
(* Messages are sequences of tokens: a CRLF ("N"), "--" ("D"), the fixed   *)
(* ("M") and the random part ("b") of the boundary, the lines of a part's  *)
(* headers ("H"), the records of DIME, a byte of data ("a").  One token    *)
(* takes one place in a buffer.                                            *)
(***************************************************************************)
EXTENDS Integers, SequencesExt

CONSTANTS
  Sessions,     \* see SessionType
  BUFF,         \* buff_size of the packagers: 8192
  SendSizes,    \* what the transport asks the packager for
  Pieces,       \* sizes of what the answer's stream gives
  LIMIT         \* m_sizeLimit: parts up to this size stay in memory

ALIGN == 4      \* DIME pads a payload to a multiple of this

\* buff_size has room for more than what boundaryInPart keeps of it
ASSUME AttachmentConstants ==
  /\ BUFF \in Nat /\ BUFF > 2 /\ LIMIT \in Nat
  /\ SendSizes \subseteq Nat \ {0} /\ Pieces \subseteq Nat \ {0}

VARIABLES
  session,
  pc,           \* where Manager's caller is
  boundary,     \* the random part of m_boundary
  at, window,   \* boundaryInPart: the part and how much of it was read; the buffer
  cur, pos,     \* m_currentRecord; m_pos, or WRITE_HEADER
  rpos,         \* of each payload: how much of it was read
  rbuf,         \* m_readBuffer
  cb, got,      \* the Read in progress: its room; what it has
  out, sized,   \* what was read in this pass; the length the first pass found
  wire,         \* what the answer's stream has to give
  buff, bdy, search,   \* MIME: buff up to endPos; bdy and searchPoint, as offsets
  rec, first,   \* DIME: hdr; chunkedHdr while chunking
  left, pad,    \* DIME: hdr.length and padding
  cid,          \* the part that the headers name
  builder,      \* AttachmentBuilder
  parts,        \* m_res: the answer's parts
  envelope      \* what Receive returns

sender   == <<boundary, at, window, cur, pos, rpos, rbuf, cb, got, out, sized>>
mime     == <<buff, bdy, search, cid>>
dime     == <<rec, first, left, pad>>
result   == <<builder, parts, envelope>>
receiver == <<wire, mime, dime, result>>
vars     == <<session, pc, sender, receiver>>

Least(a, b) == IF a < b THEN a ELSE b
From(s, i) == SubSeq(s, i, Len(s))
Upto(s, n) == SubSeq(s, 1, Least(n, Len(s)))
T(t, v) == [t |-> t, v |-> v]
CRLF == T("N", <<>>)

\* Where p starts in s from offset i on, or Len(s): std::search
Search(s, i, p) ==
  LET hits == {j \in i..Len(s) - Len(p) : SubSeq(s, j + 1, j + Len(p)) = p}
  IN IF hits = {} THEN Len(s) ELSE CHOOSE j \in hits : \A k \in hits : j <= k
-----------------------------------------------------------------------------
(* A session: the data of the parts, the envelope's first; the format; how  *)
(* the server writes its answer, which has the same parts: whether a line   *)
(* comes before the first boundary, in chunks of which size a DIME payload  *)
(* is cut, whether the Content-Type names the envelope's part; the parts of *)
(* an earlier answer; whether the answer comes whole; and whether the disk  *)
(* takes all that is written to it.                                         *)
Token == [t : {"N", "D", "M", "b", "H", "rec", "id", "type", "pad", "a"}, v : Seq(Nat)]
SessionType ==
  [parts : Seq(Seq(Token)), mime : BOOLEAN, preamble : BOOLEAN, chunk : Nat \ {0}, start : BOOLEAN,
   old : Seq([id : Nat, data : Seq(Token)]), whole : BOOLEAN, disk : BOOLEAN]

\* There is an envelope, if nothing else
ASSUME AttachmentSessions == Sessions \subseteq SessionType /\ \A s \in Sessions : s.parts # <<>>

N == Len(session.parts)
Data(i) == session.parts[i]
MIME == session.mime

Boundary(b) == <<T("M", <<>>), T("b", <<b>>)>>
TheBoundary(b) == <<CRLF, T("D", <<>>)>> \o Boundary(b)
TermBoundary(b) == TheBoundary(b) \o <<T("D", <<>>)>>

PadTo(n) == (ALIGN - (n % ALIGN)) % ALIGN
Padding(n) == [i \in 1..n |-> T("pad", <<>>)]
Flag(c) == IF c THEN 1 ELSE 0

\* A DIME record header: its flags, whether it has an id and a type, its length
Record(i, begin, end, chunked, named, n) ==
  <<T("rec", <<Flag(begin), Flag(end), Flag(chunked), Flag(named), n>>)>>
  \o IF named THEN <<T("id", <<i>>), T("type", <<i>>)>> ELSE <<>>

\* CreateCurrentHeader of both packagers
HeaderOf(i) ==
  IF MIME THEN TheBoundary(boundary) \o <<CRLF, T("H", <<i>>), CRLF, CRLF>>
          ELSE Record(i, i = 1, i = N, FALSE, TRUE, Len(Data(i)))
\* What follows the payload of part i
TrailerOf(i) ==
  IF MIME THEN IF i = N THEN TermBoundary(boundary) \o <<CRLF>> ELSE <<>>
          ELSE Padding(PadTo(Len(Data(i))))
Packaged == FlattenSeq([i \in 1..N |-> HeaderOf(i) \o Data(i) \o TrailerOf(i)])

\* The server's DIME records of part i: chunks of at most session.chunk tokens
Chunks(i) ==
  LET c == session.chunk
      count == IF Len(Data(i)) = 0 THEN 1 ELSE (Len(Data(i)) + c - 1) \div c
      Piece(k) == SubSeq(Data(i), (k - 1) * c + 1, Least(k * c, Len(Data(i))))
  IN FlattenSeq([k \in 1..count |->
       Record(i, i = 1 /\ k = 1, i = N /\ k = count, k < count, k = 1, Len(Piece(k)))
       \o Piece(k) \o Padding(PadTo(Len(Piece(k))))])
Answer ==
  IF MIME THEN IF session.preamble THEN Packaged ELSE Tail(Packaged)
          ELSE FlattenSeq([i \in 1..N |-> Chunks(i)])

\* The parts as an answer brings them
Expected == [i \in 1..N |-> [id |-> i, data |-> Data(i)]]
-----------------------------------------------------------------------------
(* PackageAndSend *)

\* A mutant: the end of what was read is not kept
BugKept(s, n) == <<>>
\* boundaryInPart keeps the end of its buffer, where the boundary may begin
Kept(s, n) == From(s, Len(s) - n + 1)

\* validBoundary: one read of boundaryInPart.  A boundary that is found is dropped
\* for another
CheckBoundary ==
  LET part == at[1]
      space == IF window = <<>> THEN BUFF - 1 ELSE BUFF - Len(window)
      bytes == SubSeq(Data(part), at[2] + 1, Least(at[2] + space, Len(Data(part))))
      seen == window \o bytes
  IN
  /\ pc = "check"
  /\ IF Search(seen, 0, Boundary(boundary)) # Len(seen)
     THEN /\ boundary' \in {0, 1} \ {boundary}
          /\ at' = <<1, 0>> /\ window' = <<>>
          /\ UNCHANGED pc
     ELSE /\ IF bytes # <<>>
             THEN /\ at' = <<part, at[2] + Len(bytes)>>
                  /\ window' = Kept(seen, Least(Len(Boundary(boundary)), Len(bytes)))
             ELSE at' = <<part + 1, 0>> /\ window' = <<>>
          /\ pc' = IF bytes = <<>> /\ part = N THEN "ask" ELSE "check"
          /\ UNCHANGED boundary
  /\ UNCHANGED <<session, cur, pos, rpos, rbuf, cb, got, out, sized, receiver>>

WRITE_HEADER == -1

\* PackagerStreamerImpl::Read: what was left over comes first
Ask(n) ==
  /\ pc = "ask"
  /\ got' = Upto(rbuf, n)
  /\ rbuf' = From(rbuf, n + 1)
  /\ cb' = n - Len(got')
  /\ pc' = "fill"
  /\ UNCHANGED <<session, boundary, at, window, cur, pos, rpos, out, sized, receiver>>

\* What does not fit is for the next Read
Puts(s) ==
  /\ got' = got \o Upto(s, cb)
  /\ cb' = cb - Len(Upto(s, cb))
  /\ rbuf' = rbuf \o From(s, cb + 1)

AddCurrentHeader ==
  /\ pc = "fill" /\ cb > 0 /\ cur <= N /\ pos = WRITE_HEADER
  /\ Puts(HeaderOf(cur))
  /\ pos' = 0
  /\ UNCHANGED <<session, pc, boundary, at, window, cur, rpos, out, sized, receiver>>

\* A mutant: a payload that fits is taken to be followed by nothing
BugTrailer == <<>>
Trailer == TrailerOf(cur)

\* AddNextChunk of both packagers; the record is over when its payload gives nothing
AddNextChunk ==
  LET bytes == SubSeq(Data(cur), rpos[cur] + 1, Least(rpos[cur] + cb, Len(Data(cur)))) IN
  /\ pc = "fill" /\ cb > 0 /\ cur <= N /\ pos # WRITE_HEADER
  /\ rpos' = [rpos EXCEPT ![cur] = @ + Len(bytes)]
  /\ IF bytes = <<>>
     THEN Puts(Trailer) /\ cur' = cur + 1 /\ pos' = WRITE_HEADER
     ELSE Puts(bytes) /\ pos' = pos + Len(bytes) /\ UNCHANGED cur
  /\ UNCHANGED <<session, pc, boundary, at, window, out, sized, receiver>>

\* A mutant: the payloads stay where they are
BugReset == cur' = 1 /\ pos' = WRITE_HEADER /\ UNCHANGED rpos

\* PackagerStreamerImpl::Reset
Reset == cur' = 1 /\ pos' = WRITE_HEADER /\ rpos' = [i \in 1..N |-> 0]

\* The Read returns; one of nothing ends the pass, and the second pass the request
Return ==
  /\ pc = "fill" /\ (cb = 0 \/ cur > N)
  /\ IF got # <<>>
     THEN pc' = "ask" /\ out' = out \o got /\ UNCHANGED <<cur, pos, rpos, sized, wire>>
     ELSE IF sized = -1
     THEN pc' = "ask" /\ sized' = Len(out) /\ out' = <<>> /\ Reset /\ UNCHANGED wire
     ELSE /\ pc' = IF MIME THEN "find" ELSE "record"
          /\ IF session.whole THEN wire' = Answer
             ELSE \E n \in 0..Len(Answer) - 1 : wire' = Upto(Answer, n)
          /\ UNCHANGED <<cur, pos, rpos, out, sized>>
  /\ UNCHANGED <<session, boundary, at, window, rbuf, cb, got, mime, dime, result>>

-----------------------------------------------------------------------------
(* AttachmentBuilder *)

NoPart == [payload |-> <<>>, toDisk |-> FALSE, file |-> <<>>]

\* The results of CreateFile and WriteFile are not looked at: when the disk is full,
\* what is written may be lost without an error
Written(file, s) == IF session.disk THEN {file \o s} ELSE {file, file \o s}

\* A mutant: what was in memory does not reach the file
BugMovedToDisk == {[payload |-> <<>>, toDisk |-> TRUE, file |-> <<>>]}
MovedToDisk == {[payload |-> <<>>, toDisk |-> TRUE, file |-> f] : f \in Written(<<>>, builder.payload)}

Spills(s) == Len(s) + Len(builder.payload) > LIMIT

\* What the builder may be afterwards
AddToPayload(s) ==
  UNION {IF b.toDisk THEN {[b EXCEPT !.file = f] : f \in Written(b.file, s)}
                     ELSE {[b EXCEPT !.payload = @ \o s]} :
           b \in IF ~builder.toDisk /\ s # <<>> /\ Spills(s) THEN MovedToDisk ELSE {builder}}

\* Generate and Append: b's payload, or its file, is the part of that id
Generate(b, id) ==
  /\ parts' = Append(parts, [id |-> id, data |-> IF b.toDisk THEN b.file ELSE b.payload])
  /\ builder' = NoPart
-----------------------------------------------------------------------------
(* MimePackager::Receive *)

\* Receive returns: its buffers are gone, the parts it has are not
Fails ==
  /\ pc' = "failed"
  /\ buff' = <<>> /\ bdy' = 0 /\ search' = 0 /\ builder' = NoPart
  /\ UNCHANGED <<cid, dime, parts, envelope>>

\* A read of the stream gives some of what is to come, less at its end, then nothing
Given(room) == {Least(Least(n, room), Len(wire)) : n \in Pieces}

\* ReadToBuffer: what buff has from offset i on, and the next read
ReadToBuffer(i) ==
  {[buff |-> From(buff, i + 1) \o Upto(wire, n), wire |-> From(wire, n + 1)] :
     n \in Given(BUFF - (Len(buff) - i))}
Holds(r) == buff' = r.buff /\ wire' = r.wire

\* The first read to come fails
ReadFails ==
  /\ pc \in {"find", "headers", "body", "next", "drain"} /\ ~session.whole
  /\ Fails
  /\ UNCHANGED <<session, sender, wire>>

\* The first boundary may come without its CRLF, but a whole theBoundary is skipped
FindBoundary ==
  /\ pc = "find"
  /\ \E r \in ReadToBuffer(0) :
       LET b == r.buff
           i == Search(b, 0, Tail(TheBoundary(boundary))) IN
       /\ Holds(r)
       /\ bdy' = i + Len(TheBoundary(boundary))
       /\ pc' = CASE i = Len(b)                 -> IF Len(b) < BUFF THEN "find" ELSE "failed"
                  [] i < Len(b) /\ bdy' > Len(b) -> "beyond"
                  [] OTHER                      -> "headers"
  /\ UNCHANGED <<session, sender, search, cid, dime, result>>

\* ParseMimePartHeader of the headers between two offsets
ContentId(i, j) ==
  LET h == {k \in i + 1..j : buff[k].t = "H"} IN IF h = {} THEN 0 ELSE buff[CHOOSE k \in h : TRUE].v[1]

EndOfHeaders == Search(buff, bdy, <<CRLF, CRLF>>)

ParseHeaders ==
  /\ pc = "headers" /\ EndOfHeaders < Len(buff)
  /\ cid' = ContentId(bdy, EndOfHeaders)
  /\ search' = EndOfHeaders + 2
  /\ pc' = "body"
  /\ UNCHANGED <<session, sender, wire, buff, bdy, dime, result>>

\* Headers that are not in buff as a whole.  eoh is still where buff ended before the
\* read: Receive fails when buff ends there again ("too big"), and takes that place
\* for the end of the headers when the read filled buff ("astray", where this ends)
ReadHeaders ==
  /\ pc = "headers" /\ EndOfHeaders = Len(buff)
  /\ \E r \in ReadToBuffer(bdy) :
       /\ Holds(r) /\ bdy' = 0
       /\ pc' = CASE Len(r.buff) = Len(buff)                         -> "too big"
                  [] Len(r.buff) # Len(buff) /\ Len(r.buff) = BUFF    -> "astray"
                  [] OTHER                                           -> "headers"
  /\ UNCHANGED <<session, sender, search, cid, dime, result>>

EndOfPart == Search(buff, search, TheBoundary(boundary))

\* A mutant: all of it, also what may begin a boundary
BugAccumulable == Len(buff)
\* The end of buff may be the start of a boundary, and is kept
Accumulable ==
  LET size == Len(TheBoundary(boundary)) IN
  IF Len(buff) - search > size THEN Len(buff) - size ELSE search

Accumulate ==
  /\ pc = "body" /\ EndOfPart = Len(buff)
  /\ \E r \in ReadToBuffer(Accumulable) : Holds(r)
  /\ builder' \in AddToPayload(SubSeq(buff, search + 1, Accumulable))
  /\ search' = 0
  /\ UNCHANGED <<session, pc, sender, bdy, cid, dime, parts, envelope>>

CompletePart ==
  /\ pc = "body" /\ EndOfPart < Len(buff)
  /\ \E b \in AddToPayload(SubSeq(buff, search + 1, EndOfPart)) : Generate(b, cid)
  /\ bdy' = EndOfPart
  /\ pc' = "next"
  /\ UNCHANGED <<session, sender, wire, buff, search, cid, dime, envelope>>

\* A mutant: a boundary is enough to tell whether it is the last
BugTold == Len(TheBoundary(boundary))
Told == Len(TermBoundary(boundary))

\* The last boundary is told by its "--"
ReadNext ==
  /\ pc = "next" /\ Len(buff) - bdy < Told
  /\ \E r \in ReadToBuffer(bdy) : Holds(r)
  /\ bdy' = 0
  /\ UNCHANGED <<session, pc, sender, search, cid, dime, result>>
TellLast ==
  /\ pc = "next" /\ Len(buff) - bdy >= Told
  /\ IF IsPrefix(TermBoundary(boundary), From(buff, bdy + 1))
     THEN pc' = "drain" /\ UNCHANGED bdy
     ELSE pc' = "headers" /\ bdy' = bdy + Len(TheBoundary(boundary))
  /\ UNCHANGED <<session, sender, wire, buff, search, cid, dime, result>>

\* One more read, so that the connection can be used again
Drain ==
  /\ pc = "drain"
  /\ \E r \in ReadToBuffer(Len(buff)) : Holds(r)
  /\ bdy' = 0 /\ search' = 0
  /\ pc' = "start"
  /\ UNCHANGED <<session, sender, cid, dime, result>>

\* Collection::Find by id, or its item 0
StartPart ==
  LET found == {k \in DOMAIN parts : ~session.mime \/ ~session.start \/ parts[k].id = 1}
  IN CHOOSE k \in found : \A l \in found : k <= l

GiveEnvelope ==
  /\ pc = "start"
  /\ envelope' = parts[StartPart].data
  /\ pc' = "done"
  /\ UNCHANGED <<session, sender, wire, mime, dime, builder, parts>>
-----------------------------------------------------------------------------
(* DimePackager::Receive.  StreamToBuffer reads until it has all it asks for, *)
(* and fails when the stream ends before                                      *)

StreamToBuffer(n) == Len(wire) >= n

ReadRecord ==
  LET h == wire[1].v
      size == 1 + 2 * h[4]
      head == [end |-> h[2] = 1, chunked |-> h[3] = 1, id |-> IF h[4] = 1 THEN wire[2].v[1] ELSE 0]
  IN
  /\ pc = "record"
  /\ IF wire # <<>> /\ StreamToBuffer(size)
     THEN /\ wire' = From(wire, size + 1)
          /\ rec' = head
          /\ first' = IF first = <<>> /\ head.chunked THEN <<head>> ELSE first
          /\ left' = h[5] /\ pad' = PadTo(h[5])
          /\ pc' = "payload"
          /\ UNCHANGED <<mime, result>>
     ELSE Fails /\ UNCHANGED wire
  /\ UNCHANGED <<session, sender>>

ReadPayload ==
  LET chunk == Least(BUFF, left) IN
  /\ pc = "payload" /\ left > 0
  /\ IF StreamToBuffer(chunk)
     THEN /\ wire' = From(wire, chunk + 1)
          /\ builder' \in AddToPayload(Upto(wire, chunk))
          /\ left' = left - chunk
          /\ UNCHANGED <<pc, mime, rec, first, pad, parts, envelope>>
     ELSE Fails /\ UNCHANGED wire
  /\ UNCHANGED <<session, sender>>

\* A mutant: the last record of the chunked ones gives the part its id
BugNamed == rec
Named == IF first = <<>> THEN rec ELSE first[1]

\* Whether the padding was there is not looked at; what could not be read is missed
\* when the next record is
EndRecord ==
  /\ pc = "payload" /\ left = 0
  /\ wire' = From(wire, pad + 1)
  /\ IF rec.chunked THEN UNCHANGED <<builder, parts, first>>
     ELSE Generate(builder, Named.id) /\ first' = <<>>
  /\ pc' = IF rec.end THEN "start" ELSE "record"
  /\ UNCHANGED <<session, sender, mime, rec, left, pad, envelope>>
-----------------------------------------------------------------------------
Init ==
  /\ session \in Sessions
  /\ pc = IF MIME THEN "check" ELSE "ask"
  /\ boundary \in IF MIME THEN {0, 1} ELSE {0}
  /\ at = <<1, 0>> /\ window = <<>>
  /\ cur = 1 /\ pos = WRITE_HEADER /\ rpos = [i \in 1..N |-> 0]
  /\ rbuf = <<>> /\ cb = 0 /\ got = <<>> /\ out = <<>> /\ sized = -1
  /\ wire = <<>> /\ buff = <<>> /\ bdy = 0 /\ search = 0 /\ cid = 0
  /\ rec = [end |-> FALSE, chunked |-> FALSE, id |-> 0] /\ first = <<>> /\ left = 0 /\ pad = 0
  /\ builder = NoPart /\ parts = session.old /\ envelope = <<>>

Sends == CheckBoundary \/ (\E n \in SendSizes : Ask(n)) \/ AddCurrentHeader \/ AddNextChunk \/ Return
ReceivesMime ==
  \/ ReadFails \/ FindBoundary \/ ParseHeaders \/ ReadHeaders \/ Accumulate \/ CompletePart
  \/ ReadNext \/ TellLast \/ Drain
ReceivesDime == ReadRecord \/ ReadPayload \/ EndRecord

Next == Sends \/ ReceivesMime \/ ReceivesDime \/ GiveEnvelope

Spec == Init /\ [][Next]_vars

\* One thread packs and unpacks, and a read of the stream ends
FairSpec == Spec /\ WF_vars(Next)
-----------------------------------------------------------------------------
(* Properties *)

Receiving == pc \notin {"check", "ask", "fill"}

\* The transport reads the message twice, with buffers of its own size, and the second
\* time gets what the first told the length of; the boundary is in no part.
Announced ==
  /\ sized >= 0 => sized = Len(Packaged) /\ IsPrefix(out, Packaged)
  /\ Receiving => out = Packaged
  /\ Receiving /\ MIME => \A i \in 1..N : Search(Data(i), 0, Boundary(boundary)) = Len(Data(i))

New == From(parts, Len(session.old) + 1)

\* A part that stays in memory, or whose file takes what is written
Stored(i) == session.disk \/ Len(Data(i)) <= LIMIT

\* Whatever the pieces an answer comes in, and where the payloads go, the parts are the
\* ones that were sent, in order and with their ids; the envelope is the first of the
\* collection or the one the Content-Type names.  Only the data of a part that went to
\* a file may be lost, when the disk is full, and no other part's with it.
Unpacked ==
  /\ Len(New) <= N
  /\ \A i \in DOMAIN New : New[i].id = i /\ (Stored(i) => New[i].data = Data(i))
  /\ pc = "done" => Len(New) = N /\ (session.old = <<>> /\ Stored(1) => envelope = Data(1))

\* A read that ends where buff ended, or that fills buff, misleads the search for the
\* end of a part's headers; a read that ends with the first boundary the skip over it.
Misled ==
  \/ pc \in {"beyond", "astray"}
  \/ pc = "too big" /\ (wire # <<>> \/ EndOfHeaders < Len(buff))

\* A whole answer is unpacked to its end, unless the pieces it came in mislead Receive.
AllArrive == session.whole ~> pc = "done" \/ Misled
=============================================================================
