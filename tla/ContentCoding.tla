--------------------------- MODULE ContentCoding ---------------------------
(***************************************************************************)
(* Compressed bodies: pockethttp/core/compressionHandlers.cpp.  A request  *)
(* is deflated while the transport reads it, once to learn its length and  *)
(* once to send it; the server decodes it and answers with the same text,  *)
(* which is inflated while the application reads it.                       *)
(*                                                                         *)
(* zlib is external.  A compressed stream is a sequence of tokens: one     *)
(* decodes to some bytes of the text, or is part of the framing.  deflate  *)
(* may keep what it took for later calls; inflate decodes all it has room  *)
(* for, and takes nothing but the start of a stream for one.  The stages   *)
(* of a Read are steps of their own.                                       *)
(***************************************************************************)
EXTENDS Integers, SequencesExt

CONSTANTS
  Sessions,     \* see SessionType
  BUF,          \* PH_BUFFER_SIZE: the transport's reads of the request
  TOP_UP,       \* 512: the room worth another turn of deflate
  READ_INPUT,   \* 4096: what ReadInput asks for at least
  Pieces,       \* sizes of what the application's stream and the network give
  ReadSizes     \* what the application asks for

HDR == 2        \* gzip_MIN_HDR_SIZE, as tokens: the identification, the flags
EXTRA == 2      \* tokens of an extra field after its length

ASSUME CodingConstants ==
  /\ BUF \in Nat \ {0} /\ TOP_UP \in Nat \ {0} /\ READ_INPUT \in Nat \ {0}
  /\ Pieces \subseteq Nat \ {0}
  /\ ReadSizes \subseteq Nat \ {0} /\ \E n \in ReadSizes : \A m \in ReadSizes : m <= n

VARIABLES
  session,
  pc,          \* where the transport is
  \* The request: the members of deflateHandler and gzipDeflateHandler
  pass,        \* "size", "send" or "done": which time it is read
  src,         \* how much of the text was read
  mBuff, zOut, zDone, \* m_buff; what m_stream took and has not put out; its end is there
  initDone, srcDone, eof,
  mOut, cOut,  \* m_outBuff and m_cOut
  crc,         \* m_crc32 and m_totalSize: the text they stand for
  cb, got,     \* the Read in progress: the room deflateHandler::Read has; what it returned
  body, total, \* what was read in this pass; what was read in the first
  spoilt,      \* history: a read of gzipDeflateHandler went wrong (see Understood)
  \* The response: the members of inflateHandler and gzipInflateHandler
  wire, open,  \* what the decoder below has to give; m_src is not null
  buff,        \* m_buff
  iInit, iEof, \* m_initDone, m_eof
  mode, held, late,  \* m_stream: its kind; decoded bytes it keeps; its end was seen
  iCrc,        \* m_crc32 and m_totalSize
  offset, need,\* of PreInit
  room, out,   \* what the Read in progress asked for, and has in the caller's buffer
  text, result \* history: what the application was given; the last call's result

reading  == <<src, mBuff, zOut, zDone, initDone, srcDone, eof, mOut, cOut, crc, cb, got>>
request  == <<pass, reading, body, total, spoilt>>
input    == <<wire, open, buff>>
zstream  == <<iInit, iEof, mode, held, late>>
header   == <<offset, need>>
response == <<input, zstream, iCrc, header, room, out, text, result>>
vars     == <<session, pc, request, response>>

Tok(k, v) == [k |-> k, v |-> v]
Least(a, b) == IF a < b THEN a ELSE b
From(s, i) == SubSeq(s, i, Len(s))
Bytes(toks) == FlattenSeq([i \in DOMAIN toks |-> IF toks[i].k = "z" THEN toks[i].v ELSE <<>>])
-----------------------------------------------------------------------------
(* A session: the text, the coding of request and response ("gzip", or      *)
(* "deflate" with or without the zlib header), the fields in the gzip       *)
(* header, where the server's zlib cuts the text into tokens, whether       *)
(* inflate has to look past the end, how much of the response comes at      *)
(* once, how much room the request's headers leave, and whether all of the  *)
(* text and the response can be read.                                       *)
SessionType ==
  [text : Seq(Nat), gzip : BOOLEAN, zhead : BOOLEAN,
   fields : SUBSET {"extra", "name", "comment", "hcrc"},
   cuts : Seq(Nat), looksPast : BOOLEAN, first : Nat, room : Nat, whole : BOOLEAN]

\* All of the text is cut
Cut(s) ==
  /\ \A i, j \in DOMAIN s.cuts : i <= j => s.cuts[i] <= s.cuts[j]
  /\ IF s.cuts = <<>> THEN s.text = <<>> ELSE s.cuts[Len(s.cuts)] = Len(s.text)
ASSUME CodingSessions == Sessions \subseteq SessionType /\ \A s \in Sessions : Cut(s)

Text == session.text

\* What the request should be: m_outBuff's header, one token for each byte, the
\* end of the stream, m_outBuff's trailer
RequestHeader == IF session.gzip THEN <<Tok("id", <<>>), Tok("flags", <<>>)>> ELSE <<Tok("zhead", <<>>)>>
Trailer(t) == <<Tok("crc", t), Tok("len", <<Len(t)>>)>>
EndOf(t) == IF session.gzip THEN <<Tok("end", <<>>)>> ELSE <<Tok("adler", t)>>
Coded(t) ==
  RequestHeader \o [i \in DOMAIN t |-> Tok("z", <<t[i]>>)] \o EndOf(t)
  \o IF session.gzip THEN Trailer(t) ELSE <<>>

\* The response
Field(f) ==
  CASE f = "extra"   -> <<Tok("xlen", <<EXTRA>>)>> \o [i \in 1..EXTRA |-> Tok("x", <<>>)]
    [] f = "name"    -> <<Tok("c", <<>>), Tok("c", <<>>), Tok("nul", <<>>)>>
    [] f = "comment" -> <<Tok("c", <<>>), Tok("nul", <<>>)>>
    [] f = "hcrc"    -> <<Tok("hc", <<>>), Tok("hc", <<>>)>>
Present(f) == IF f \in session.fields THEN <<f>> ELSE <<>>
Fields == Present("extra") \o Present("name") \o Present("comment") \o Present("hcrc")
StreamOf(t) ==
  LET at(i) == IF i = 0 THEN 0 ELSE session.cuts[i]
  IN <<Tok("start", <<>>)>> \o
     [i \in DOMAIN session.cuts |-> Tok("z", SubSeq(t, at(i - 1) + 1, at(i)))]
Response ==
  CASE session.gzip  -> <<Tok("id", <<>>), Tok("flags", <<>>)>>
                        \o FlattenSeq([i \in DOMAIN Fields |-> Field(Fields[i])])
                        \o StreamOf(Text) \o <<Tok("end", <<>>)>> \o Trailer(Text)
    [] session.zhead /\ ~session.gzip -> <<Tok("zhead", <<>>)>> \o StreamOf(Text) \o <<Tok("adler", Text)>>
    [] OTHER         -> StreamOf(Text) \o <<Tok("end", <<>>)>>
-----------------------------------------------------------------------------
(* Reading the request *)

\* A mutant: the checksum of an earlier pass stays
BugResetGzip == cOut' = 0 /\ UNCHANGED <<mOut, crc>>

\* gzipDeflateHandler::Init()
ResetGzip == cOut' = 0 /\ crc' = <<>> /\ UNCHANGED mOut

\* deflateHandler::Reset and gzipDeflateHandler::Reset
Reset ==
  /\ src' = 0 /\ mBuff' = <<>> /\ zOut' = <<>> /\ zDone' = FALSE
  /\ initDone' = FALSE /\ srcDone' = FALSE /\ eof' = FALSE
  /\ ResetGzip

\* What the transport asks for: BUF, but for the first packet the room its headers leave
Asked == IF pass = "send" /\ body = <<>> THEN session.room ELSE BUF

\* gzipDeflateHandler::Read puts the rest of m_outBuff first and then asks
\* deflateHandler for as much as if it had not: together they may write more than
\* was asked for, past the end of the caller's buffer
Ask ==
  LET first == session.gzip /\ ~initDone
      bytes == IF first THEN RequestHeader ELSE mOut
      have == IF first THEN HDR ELSE cOut
      c == IF session.gzip THEN Least(have, Asked) ELSE 0
  IN
  /\ pc = "ask"
  /\ mOut' = bytes /\ cOut' = have - c
  /\ got' = SubSeq(bytes, 1, c)
  /\ spoilt' = (spoilt \/ c # have)
  /\ cb' = Asked
  /\ pc' = "source"
  /\ UNCHANGED <<session, pass, src, mBuff, zOut, zDone, initDone, srcDone, eof, crc, body,
                 total, response>>

\* deflateHandler::Read reads its source; a read that fails brings nothing
Source ==
  /\ pc = "source"
  /\ \E n \in 0..Len(Text) - src :
       /\ ~srcDone => n \in Pieces \/ (n = 0 /\ (src = Len(Text) \/ ~session.whole))
       /\ srcDone => n = 0
       /\ mBuff' = mBuff \o SubSeq(Text, src + 1, src + n)
       /\ crc' = crc \o SubSeq(Text, src + 1, src + n)
       /\ src' = src + n
       /\ srcDone' = (n = 0)
  /\ pc' = IF eof THEN "return" ELSE "deflate"
  /\ UNCHANGED <<session, pass, zOut, zDone, initDone, eof, mOut, cOut, cb, got, body, total,
                 spoilt, response>>

GenerateTrailer == IF session.gzip THEN mOut' = Trailer(crc) /\ cOut' = 2 ELSE UNCHANGED <<mOut, cOut>>

\* deflateHandler::Read goes round again when a turn brought nothing or left room
TopsUp(k, left) == k = 0 \/ left >= TOP_UP

\* deflate puts out what it likes, or with Z_FINISH all it has room for; it takes
\* all input unless it runs out of room.  It reports the end when room is left
\* after it; where it just fits, never without a zlib header.
Deflate ==
  LET start == IF ~initDone /\ ~session.gzip THEN RequestHeader ELSE zOut IN
  /\ pc = "deflate"
  /\ initDone' = TRUE
  /\ \E m \in 0..Len(mBuff) :
       LET ends == srcDone /\ m = Len(mBuff) /\ ~zDone
           pending == start \o [i \in 1..m |-> Tok("z", <<mBuff[i]>>)]
                            \o IF ends THEN EndOf(crc) ELSE <<>>
       IN \E k \in 0..Least(cb, Len(pending)), over \in BOOLEAN :
            /\ m < Len(mBuff) => k = cb
            /\ srcDone => k = Least(cb, Len(pending))
            /\ mBuff' = From(mBuff, m + 1)
            /\ zOut' = From(pending, k + 1)
            /\ zDone' = (zDone \/ ends)
            /\ LET flushed == srcDone /\ zDone' /\ k = Len(pending)
               IN /\ over => flushed /\ (session.gzip => k < cb)
                  /\ flushed /\ k < cb => over
            /\ got' = got \o SubSeq(pending, 1, k)
            /\ cb' = cb - k
            /\ eof' = over
            /\ IF over THEN GenerateTrailer ELSE UNCHANGED <<mOut, cOut>>
            /\ pc' = IF ~over /\ TopsUp(k, cb - k) THEN "source" ELSE "return"
  /\ UNCHANGED <<session, pass, src, srcDone, crc, body, total, spoilt, response>>

\* The caller has what the Read brought.  Nothing means the end: of the sizing, after
\* which the stream is reset to be sent, or of the sending
Return ==
  /\ pc = "return"
  /\ IF got # <<>>
     THEN /\ body' = body \o got /\ pc' = "ask"
          /\ spoilt' = (spoilt \/ Len(got) > Asked)
          /\ UNCHANGED <<pass, reading, total>>
     ELSE /\ spoilt' = (spoilt \/ cOut > 0)
          /\ IF pass = "size"
             THEN /\ pass' = "send" /\ total' = Len(body) /\ body' = <<>> /\ pc' = "ask"
                  /\ Reset /\ UNCHANGED <<cb, got>>
             ELSE /\ pass' = "done" /\ pc' = "server"
                  /\ UNCHANGED <<reading, body, total>>
  /\ UNCHANGED <<session, response>>

\* The server takes a body of the announced length that decodes, and answers
Server ==
  /\ pc = "server"
  /\ IF body = Coded(Text) /\ Len(body) = total
     THEN pc' = "ready" /\ wire' = Response
     ELSE pc' = "refused" /\ UNCHANGED wire
  /\ UNCHANGED <<session, request, open, buff, zstream, iCrc, header, room, out, text, result>>
-----------------------------------------------------------------------------
(* Reading the response *)

Fails ==
  /\ pc' = "failed" /\ result' = "error"
  /\ UNCHANGED text

Returns(data) ==
  /\ text' = text \o data
  /\ result' = IF data = <<>> THEN "end" ELSE "more"
  /\ pc' = "ready"

\* The application reads until it is told of the end
Read(n) ==
  /\ pc = "ready" /\ result # "end"
  /\ room' = n
  /\ pc' = "input"
  /\ UNCHANGED <<session, request, input, zstream, iCrc, header, out, text, result>>

\* inflateHandler::ReadInput: a piece of what is left, nothing at the end, when the
\* source is released.  It may come cut short.
ReadInput ==
  IF ~open THEN UNCHANGED input
  ELSE \E n \in 0..Least(Len(wire), IF room \div 2 > READ_INPUT THEN room \div 2 ELSE READ_INPUT) :
         /\ n \in Pieces \cup {session.first}
            \/ (n = 0 /\ (wire = <<>> \/ ~session.whole))
         /\ wire = Response => n >= session.first \/ n = 0
         /\ buff' = buff \o SubSeq(wire, 1, n)
         /\ wire' = From(wire, n + 1)
         /\ open' = (n # 0)

\* Where EnsureBufferContains is called: PreInit's fields, and EndOfInflation
Ensures == {"fixed", "extra", "xdata", "name", "comment", "hcrc", "trailer"}

\* It fails
InputFails ==
  /\ pc \in {"input", "topup"} \/ (pc \in Ensures /\ Len(buff) < need)
  /\ open /\ ~session.whole
  /\ Fails
  /\ UNCHANGED <<session, request, input, zstream, iCrc, header, room, out>>

\* inflateHandler::Read up to the call of inflate or of PreInit
Input ==
  /\ pc = "input"
  /\ ReadInput
  /\ IF iEof THEN Returns(<<>>)
     ELSE /\ pc' = IF ~iInit THEN IF session.gzip THEN "fixed" ELSE "topup" ELSE "inflate"
          /\ UNCHANGED <<text, result>>
  /\ offset' = 0 /\ need' = HDR
  /\ UNCHANGED <<session, request, zstream, iCrc, room, out>>

\* EnsureBufferContains; at the end of the source it turns for ever
Ensure ==
  /\ pc \in Ensures /\ Len(buff) < need
  /\ ReadInput
  /\ UNCHANGED <<session, pc, request, zstream, iCrc, header, room, out, text, result>>

\* PreInit goes on with the next field that the flags name
Enter(f, at) ==
  /\ pc' = f
  /\ offset' = IF f = "hcrc" THEN at + 2 ELSE at
  /\ need' = CASE f = "extra" -> at + 1 [] f = "hcrc" -> at + 2 [] OTHER -> at
FieldAfter(f) ==
  LET later == IF f = "fixed" THEN Fields
               ELSE From(Fields, 1 + CHOOSE i \in DOMAIN Fields : Fields[i] = f)
  IN IF later = <<>> THEN "drop" ELSE later[1]

Fixed ==
  /\ pc = "fixed" /\ Len(buff) >= need
  /\ IF buff[1].k = "id" /\ buff[2].k = "flags"
     THEN Enter(FieldAfter("fixed"), HDR) /\ UNCHANGED <<text, result>>
     ELSE Fails /\ UNCHANGED header
  /\ UNCHANGED <<session, request, input, zstream, iCrc, room, out>>

\* The length of the extra field, then the field
Extra ==
  /\ pc \in {"extra", "xdata"} /\ Len(buff) >= need
  /\ IF pc = "extra"
     THEN /\ offset' = offset + 1 + buff[offset + 1].v[1] /\ need' = offset'
          /\ pc' = "xdata"
     ELSE Enter(FieldAfter("extra"), offset)
  /\ UNCHANGED <<session, request, input, zstream, iCrc, room, out, text, result>>

\* One turn of the loop over the name or the comment: it looks at a byte first, and
\* makes sure of it afterwards, so it may look at what lies behind the buffer
CString ==
  /\ pc \in {"name", "comment"} /\ Len(buff) >= need
  /\ \E nul \in IF offset < Len(buff) THEN {buff[offset + 1].k = "nul"} ELSE BOOLEAN :
       IF nul THEN Enter(FieldAfter(pc), offset + 1)
              ELSE offset' = offset + 1 /\ need' = offset' /\ UNCHANGED pc
  /\ UNCHANGED <<session, request, input, zstream, iCrc, room, out, text, result>>

\* The header's checksum is there to be skipped
HeaderCrc ==
  /\ pc = "hcrc" /\ Len(buff) >= need
  /\ pc' = "drop"
  /\ UNCHANGED <<session, request, response>>

\* The header is removed (erase past the buffer's end is undefined)
Drop ==
  /\ pc = "drop"
  /\ IF offset <= Len(buff) THEN pc' = "topup" /\ UNCHANGED <<text, result>> ELSE Fails
  /\ buff' = From(buff, offset + 1)
  /\ iCrc' = <<>>
  /\ UNCHANGED <<session, request, wire, open, zstream, header, room, out>>

TopUp ==
  /\ pc = "topup"
  /\ IF buff = <<>> THEN ReadInput ELSE UNCHANGED input
  /\ pc' = "inflate"
  /\ UNCHANGED <<session, request, zstream, iCrc, header, room, out, text, result>>

\* inflate of kind m ("raw" or "zlib") on m_buff with room bytes of room: the set of
\* its outcomes.  It takes tokens up to the end of the stream or the first that is
\* none of its kind, and stops earlier only for lack of room; when the last byte just
\* fits it may go on to tokens that decode to nothing.  No progress is an error.
Inflates(m) ==
  LET Good(i) == IF i = 1 /\ ~iInit THEN buff[i].k = (IF m = "raw" THEN "start" ELSE "zhead")
                 ELSE buff[i].k \in {"start", "z", IF m = "raw" THEN "end" ELSE "adler"}
      Ends(i) == buff[i].k \in {"end", "adler"}
      last == CHOOSE k \in 0..Len(buff) :
                /\ \A i \in 1..k : Good(i) /\ (i < k => ~Ends(i))
                /\ k = Len(buff) \/ ~Good(k + 1) \/ (k > 0 /\ Ends(k))
      Decoded(k) == held \o Bytes(SubSeq(buff, 1, k))
      Stops(k) == /\ k = last \/ Len(Decoded(k)) >= room
                  /\ k = 0 \/ Len(Decoded(k - 1)) < room \/ Len(Decoded(k)) = room
      Outcome(k) ==
        LET some == SubSeq(Decoded(k), 1, Least(room, Len(Decoded(k))))
            over == k > 0 /\ Ends(k) /\ Len(Decoded(k)) <= room
            past == over /\ m = "raw" /\ session.looksPast /\ k = Len(buff)
        IN [mode |-> m, used |-> k, out |-> some, held |-> From(Decoded(k), room + 1),
            end |-> over /\ ~past, late |-> past,
            ok |-> /\ k > 0 \/ some # <<>>
                   /\ k < Len(buff) /\ ~over => Len(Decoded(k)) >= room]
  IN {Outcome(k) : k \in {k \in 0..last : Stops(k)}}

\* What is left for a call when the last one saw the end without reporting it.  More
\* input, here a trailer, lets inflate report it.  With none it takes the dummy byte:
\* Read then has Z_STREAM_END, but goes round its loop all the same, begins two new
\* streams on no input, and fails.
ReportsEnd == [mode |-> "raw", used |-> 0, out |-> <<>>, held |-> <<>>, end |-> TRUE,
               late |-> FALSE, ok |-> TRUE]
\* A zlib header alone, taken for a raw stream; everything after it is an error
TakesHeader == [ReportsEnd EXCEPT !.mode = "lost", !.used = 1, !.end = FALSE]
Error == [ReportsEnd EXCEPT !.ok = FALSE]

\* A mutant: the zlib header is not tried
BugAttempts == IF iInit THEN Inflates(mode) ELSE Inflates("raw")

\* The call goes on as it began; the first tries a raw stream, then one with a header
Attempts ==
  CASE iInit /\ late                      -> {IF buff = <<>> THEN Error ELSE ReportsEnd}
    [] iInit /\ ~late /\ mode = "lost"   -> {Error}
    [] iInit /\ ~late /\ mode # "lost"   -> Inflates(mode)
    [] ~iInit /\ Len(buff) = 1 /\ buff[1].k = "zhead" -> {TakesHeader}
    [] OTHER -> LET raw == Inflates("raw")
                IN {o \in raw : o.ok} \cup (IF \E o \in raw : ~o.ok THEN Inflates("zlib") ELSE {})

\* A mutant: a call of inflate that decodes nothing ends the Read
BugGoesRound(o) == FALSE

\* A Read that would return nothing before the end goes round again
GoesRound(o) == ~o.end /\ o.out = <<>>

\* inflateHandler::Read from its loop on, and the gzip checksums
Inflate ==
  /\ pc = "inflate"
  /\ \E o \in Attempts :
       /\ iInit' = o.ok /\ mode' = o.mode
       /\ held' = o.held /\ late' = o.late
       /\ buff' = From(buff, o.used + 1)
       /\ iEof' = o.end
       /\ out' = o.out
       /\ iCrc' = iCrc \o o.out
       /\ CASE ~o.ok                            -> Fails
            [] o.ok /\ o.end /\ session.gzip    -> pc' = "trailer" /\ UNCHANGED <<text, result>>
            [] o.ok /\ GoesRound(o)                -> pc' = "input" /\ UNCHANGED <<text, result>>
            [] OTHER                            -> Returns(o.out)
  /\ need' = 2
  /\ UNCHANGED <<session, request, wire, open, offset, room>>

\* EndOfInflation: the trailer's checksum and length against the text's
EndOfInflation ==
  /\ pc = "trailer" /\ Len(buff) >= need
  /\ buff' = From(buff, 3)
  /\ IF SubSeq(buff, 1, 2) = Trailer(iCrc) THEN Returns(out) ELSE Fails
  /\ UNCHANGED <<session, request, wire, open, zstream, iCrc, header, room, out>>
-----------------------------------------------------------------------------
Init ==
  /\ session \in Sessions
  /\ pc = "ask" /\ pass = "size"
  /\ src = 0 /\ mBuff = <<>> /\ zOut = <<>> /\ zDone = FALSE
  /\ initDone = FALSE /\ srcDone = FALSE /\ eof = FALSE
  /\ mOut = <<>> /\ cOut = 0 /\ crc = <<>>
  /\ cb = 0 /\ got = <<>> /\ body = <<>> /\ total = 0 /\ spoilt = FALSE
  /\ wire = <<>> /\ open = TRUE /\ buff = <<>>
  /\ iInit = FALSE /\ iEof = FALSE /\ mode = "raw" /\ held = <<>> /\ late = FALSE
  /\ iCrc = <<>> /\ offset = 0 /\ need = 0 /\ room = 0 /\ out = <<>>
  /\ text = <<>> /\ result = "none"

Sends == Ask \/ Source \/ Deflate \/ Return
Reads == \E n \in ReadSizes : Read(n)
PreInit == Ensure \/ Fixed \/ Extra \/ CString \/ HeaderCrc \/ Drop \/ TopUp
Inflating == Input \/ InputFails \/ PreInit \/ Inflate \/ EndOfInflation

Next == Sends \/ Server \/ Reads \/ Inflating

Spec == Init /\ [][Next]_vars

\* One thread sends and reads; a read of the network ends
FairSpec == Spec /\ WF_vars(Sends) /\ WF_vars(Server) /\ WF_vars(Reads) /\ WF_vars(Inflating)
-----------------------------------------------------------------------------
(* Properties *)

\* A request goes out as the sizing announced it and as the server can decode it,
\* however deflate and the application's stream cut it, and although the two passes
\* read with different sizes.  With deflate this is always so.  With gzip, excepted
\* are requests with a read that gzipDeflateHandler::Read gets wrong: one smaller
\* than what m_outBuff holds; one that deflate ends without a byte, where the trailer
\* stays behind; and one that returns more than was asked for, because m_outBuff's
\* part of it was not taken from the room deflateHandler::Read has.
Understood == pc = "refused" => (spoilt /\ session.gzip) \/ ~session.whole

\* The response can be decoded however it is cut: a name or comment in the gzip header
\* comes with the first read (PreInit looks behind its buffer otherwise), and so do
\* the zlib header and what follows it (two kinds of deflate are told apart by the
\* first call of inflate).  A raw stream whose end inflate reports only when it can
\* look past it is followed by something, as gzip's is: otherwise the Read for the end
\* fails after all of the text.
Decodable ==
  /\ session.whole
  /\ session.gzip /\ session.fields \cap {"name", "comment"} # {}
       => session.first >= HDR + Len(FlattenSeq([i \in DOMAIN Fields |-> Field(Fields[i])]))
  /\ session.zhead /\ ~session.gzip => session.first >= 2
  /\ session.looksPast => session.gzip \/ session.zhead

\* The application reads what BodyStream promises, also through inflate: the text in
\* order, no piece larger than asked for, and all of it, its end and its checksums
\* before it is told of the end, also where the response is cut short or taken apart
\* in the wrong places: such a response is an error, or has no end.
Stream == INSTANCE BodyStream WITH
  MaxPiece <- CHOOSE n \in ReadSizes : \A m \in ReadSizes : m <= n,
  whole <- TRUE,
  given <- text,
  rest  <- From(Text, Len(text) + 1),
  ended <- result = "end",
  held  <- result # "end"
ImplementsStream == Stream!Spec

\* What was posted comes back, to its end, unless the request was spoilt.
EchoArrives == Decodable ~> spoilt \/ (text = Text /\ result = "end")
=============================================================================
