-------------------------- MODULE TransportProofs --------------------------
(***************************************************************************)
(* Machine-checked proofs about HttpExchange, for any servers, cookies,    *)
(* sizes of bodies and buffer, and number of redirects; and about          *)
(* ReadRequestPool, for any finite number of callers and pool threads, and *)
(* every set of request addresses.                                         *)
(***************************************************************************)
EXTENDS HttpExchange, ReadRequestPool, FiniteSetTheorems, TLAPS

(* HttpExchange *)

\* What the proofs need of the variables' types
DataInv ==
  /\ body \in Bodies \cup {NONE} /\ pos \in Nat /\ cb \in Nat
  /\ redirects \in Nat /\ authDepth \in 0..2 /\ sends \in Nat
  /\ creds \subseteq {"server", "proxy"}
  /\ pc \in {"app", "start", "first", "more", "headers", "crashed"}
  /\ IsFiniteSet(cookies) /\ IsFiniteSet(headers.cookies)

\* A request is under way: it is sent, or its answer may still come and may send it again
Live == pc \in {"start", "first", "more"} \/ (owes /\ conn = "open" /\ body # NONE)
Fresh == headers = Build(site, path, body, cookies)

\* Then its headers are those of the URL it goes to unless a cookie came since, and no more
\* redirects than are allowed led to it.  The body is gone early only after a failure.
Followed == IF MAX_REDIRECTS = 0 THEN 0 ELSE MAX_REDIRECTS - 1
LiveInv ==
  /\ Live => ~decoder /\ (dirty \/ Fresh) /\ redirects <= Followed
  /\ pc \in {"start", "first", "more"} => body # NONE
  /\ owes /\ conn = "open" => ~decoder /\ (body # NONE \/ failed)
  /\ pc \in {"more", "headers"} => conn = "open"
  /\ pc = "start" /\ call = "response" => conn = NONE
  /\ pc = "crashed" => failed /\ conn = NONE
  /\ FreshHeaders

\* What was read of the body is what was sent of it, or will be with the headers
PacketInv ==
  /\ pc = "start" => pos = 0
  /\ pc = "first" => cb = pos
  /\ pc = "more" => wire = [headers |-> headers, size |-> body, got |-> pos, cut |-> FALSE]
  /\ pc \in {"first", "more"} =>
       pos <= body /\ (cb = 0 /\ Size(headers) < BUFF_SIZE => pos = body)
  /\ WholeRequest

\* Every request but the first follows a redirect or answers a challenge
SendsInv ==
  /\ SendsBounded
  /\ Live => sends <= redirects + authDepth + 1
  /\ pc \in {"start", "first"} => sends <= redirects + authDepth

ExchangeInv == DataInv /\ LiveInv /\ PacketInv /\ SendsInv
-----------------------------------------------------------------------------
\* The cookies that apply are some of those there are.
LEMMA BuildFinite ==
  ASSUME NEW s, NEW p, NEW n, NEW C, IsFiniteSet(C)
  PROVE  IsFiniteSet(Build(s, p, n, C).cookies) /\ Build(s, p, n, C).length = n
<1>1. Applicable(C, s, p) \subseteq C
  BY DEF Applicable
<1>2. IsFiniteSet(Applicable(C, s, p))
  BY <1>1, FS_Subset
<1> QED
  BY <1>2 DEF Build

\* A cookie that is added to finitely many leaves finitely many.
LEMMA WithCookieFinite ==
  ASSUME NEW C, NEW c, IsFiniteSet(C) PROVE IsFiniteSet(WithCookie(C, c))
<1>1. IsFiniteSet({d \in C : d.name # c.name \/ d.domain # c.domain})
  BY FS_Subset
<1> QED
  BY <1>1, FS_AddElement DEF WithCookie

\* So do those of an answer.
LEMMA ExtractedFinite ==
  ASSUME NEW S, IsFiniteSet(cookies) PROVE IsFiniteSet(Extracted(S))
BY WithCookieFinite DEF Extracted

\* A request's size is a number.
LEMMA SizeType ==
  ASSUME NEW h, IsFiniteSet(h.cookies), creds \subseteq {"server", "proxy"}
  PROVE  Size(h) \in Nat
<1>1. IsFiniteSet({"server", "proxy"})
  <2>1. IsFiniteSet({"server"})
    BY FS_Singleton
  <2> QED
    BY <2>1, FS_AddElement
<1>2. Cardinality(creds) \in Nat /\ Cardinality(h.cookies) \in Nat
  BY <1>1, FS_Subset, FS_CardinalityType
<1> QED
  BY <1>2, ExchangeConstants DEF Size

\* A read gives no more than there is, and nothing only at the end or without room.
LEMMA ReadsBounds ==
  ASSUME NEW n \in Nat, body \in Nat, pos \in Nat, pos <= body, NEW k \in Reads(n)
  PROVE  k \in Nat /\ pos + k \in Nat /\ pos + k <= body /\ (k = 0 /\ n > 0 => pos = body)
<1> DEFINE most == Least(n, body - pos)
<1>1. most \in Nat /\ most <= body - pos /\ (most = 0 /\ n > 0 => pos = body)
  BY DEF Least
<1>2. k \in IF most = 0 THEN {0} ELSE 1..most
  BY DEF Reads
<1> HIDE DEF most
<1>3. k \in Nat /\ k <= most /\ (k = 0 => most = 0)
  BY <1>1, <1>2
<1> QED
  BY <1>1, <1>3
-----------------------------------------------------------------------------
\* A transport begins in the invariant.
LEMMA InitExchangeInv == Init => ExchangeInv
<1> SUFFICES ASSUME Init PROVE ExchangeInv
  OBVIOUS
<1>1. IsFiniteSet({})
  BY FS_EmptySet
<1>2. DataInv
  BY <1>1, BuildFinite DEF Init, DataInv
<1>3. LiveInv /\ PacketInv
  BY DEF Init, LiveInv, Live, FreshHeaders, PacketInv, WholeRequest
<1>4. SendsInv
  BY ExchangeConstants DEF Init, SendsInv, SendsBounded, Live
<1> QED
  BY <1>2, <1>3, <1>4 DEF ExchangeInv

\* A new request starts with nothing counted and nothing read.
LEMMA SendStep == ASSUME ExchangeInv, Send PROVE ExchangeInv'
<1> USE DEF ExchangeInv
<1>1. PICK u \in Urls, n \in Bodies :
        /\ site' = u.site /\ path' = u.path /\ body' = n
        /\ headers' = Build(u.site, u.path, n, cookies)
  BY DEF Send
<1>2. /\ pos' = 0 /\ redirects' = 0 /\ authDepth' = 0 /\ sends' = 0 /\ pc' = "start"
      /\ decoder' = FALSE /\ call' = "send" /\ UNCHANGED <<creds, cookies, conn, cb, wire, owes>>
  BY DEF Send, server
<1>3. DataInv'
  BY <1>1, <1>2, BuildFinite DEF DataInv
<1>4. LiveInv'
  BY <1>1, <1>2, ExchangeConstants DEF LiveInv, Live, Fresh, FreshHeaders, Followed
<1>5. PacketInv'
  BY <1>2 DEF PacketInv, WholeRequest, Size, Send
<1>6. SendsInv'
  BY <1>2, ExchangeConstants DEF SendsInv, SendsBounded, Live
<1> QED
  BY <1>3, <1>4, <1>5, <1>6

\* A Send() that ends before the first packet leaves the connection as it was.
LEMMA FirstFails ==
  ASSUME ExchangeInv, pc = "start", Ends("error"), headers' = Build(site, path, body, cookies),
         UNCHANGED <<site, path, creds, cookies, conn, decoder, redirects, authDepth, sends,
                     wire, owes>>
  PROVE  ExchangeInv'
<1> USE DEF ExchangeInv
<1>1. /\ pc' = "app" /\ call' = "none" /\ cb' = 0 /\ failed'
      /\ IF call = "response" THEN body' = NONE /\ pos' = 0 ELSE UNCHANGED <<body, pos>>
  BY DEF Ends
<1>2. owes' /\ conn' = "open" => UNCHANGED <<body, pos>>
  <2>1. call = "response" => conn' = NONE
    BY DEF LiveInv
  <2>2. NONE # "open"
    BY ExchangeConstants
  <2> QED
    BY <1>1, <2>1, <2>2
<1>3. Live /\ ~decoder /\ body # NONE
  BY DEF Live, LiveInv
<1>4. DataInv'
  BY <1>1, BuildFinite DEF DataInv
<1>5. LiveInv'
  BY <1>1, <1>2, <1>3 DEF LiveInv, Live, Fresh, FreshHeaders, Followed
<1>6. PacketInv'
  BY <1>1 DEF PacketInv, WholeRequest, Size
<1>7. SendsInv'
  BY <1>1, <1>3 DEF SendsInv, SendsBounded, Live
<1> QED
  BY <1>4, <1>5, <1>6, <1>7

\* Sending the headers: those of the request as it is now, and the body from its start.
LEMMA StartSendStep == ASSUME ExchangeInv, StartSend PROVE ExchangeInv'
<1> USE DEF ExchangeInv
<1>1. /\ headers' = Current /\ ~dirty' /\ pc = "start" /\ pos = 0 /\ body \in Nat
      /\ UNCHANGED <<site, path, creds, cookies, conn, decoder, redirects, authDepth, sends,
                     wire, owes>>
  BY ExchangeConstants DEF StartSend, request, counters, server, PacketInv, LiveInv, Live, DataInv
<1>2. Current = Build(site, path, body, cookies)
  BY <1>1 DEF Current, LiveInv, Live, Fresh
<1>3. IsFiniteSet(Current.cookies) /\ Size(Current) \in Nat
  BY <1>2, BuildFinite, SizeType DEF DataInv
<1>4. CASE Size(Current) > BUFF_SIZE
  <2>1. Ends("error")
    BY <1>4 DEF StartSend
  <2> QED
    BY <1>1, <1>2, <2>1, FirstFails
<1>5. CASE ~(Size(Current) > BUFF_SIZE)
  <2>1. PICK k \in Reads(BUFF_SIZE - Size(Current)) : cb' = k /\ pos' = pos + k
    BY <1>5 DEF StartSend
  <2>2. pc' = "first" /\ UNCHANGED <<body, call>>
    BY <1>5 DEF StartSend
  <2>3. BUFF_SIZE - Size(Current) \in Nat /\ (Size(Current) < BUFF_SIZE => BUFF_SIZE - Size(Current) > 0)
    BY <1>3, <1>5, ExchangeConstants
  <2>4. k \in Nat /\ pos + k \in Nat /\ pos + k <= body /\ (k = 0 /\ Size(Current) < BUFF_SIZE => pos = body)
    BY <1>1, <2>3, ReadsBounds
  <2>5. DataInv'
    BY <1>1, <1>3, <2>1, <2>2, <2>4 DEF DataInv
  <2>6. LiveInv'
    BY <1>1, <1>2, <2>2 DEF LiveInv, Live, Fresh, FreshHeaders, Followed
  <2>7. Size(headers)' = Size(Current)
    BY <1>1 DEF Size
  <2>8. PacketInv'
    BY <1>1, <2>1, <2>2, <2>4, <2>7 DEF PacketInv, WholeRequest, Size
  <2>9. SendsInv'
    BY <1>1, <2>2 DEF SendsInv, SendsBounded, Live
  <2> QED
    BY <2>5, <2>6, <2>8, <2>9
<1> QED
  BY <1>4, <1>5

\* The first packet carries what was read of the body so far.
LEMMA FirstPacketStep == ASSUME ExchangeInv, FirstPacket PROVE ExchangeInv'
<1> USE DEF ExchangeInv
<1>1. /\ pc = "first" /\ pc' = "more" /\ conn' = "open" /\ owes' = TRUE /\ sends' = sends + 1
      /\ wire' = [headers |-> headers, size |-> body, got |-> cb, cut |-> FALSE]
      /\ UNCHANGED <<site, path, creds, cookies, body, pos, dirty, headers, redirects, authDepth,
                     decoder, call, cb>>
  BY DEF FirstPacket, request
<1>2. Live
  BY <1>1 DEF Live
<1>3. DataInv'
  BY <1>1 DEF DataInv
<1>4. LiveInv'
  BY <1>1, <1>2 DEF LiveInv, Live, Fresh, FreshHeaders, Followed
<1>5. PacketInv'
  BY <1>1 DEF PacketInv, WholeRequest, Size
<1>6. SendsInv'
  <2>1. sends' <= redirects + authDepth + 1 /\ redirects <= Followed /\ authDepth <= 2
    BY <1>1, <1>2 DEF SendsInv, LiveInv, DataInv
  <2>2. SendsBounded'
    BY <1>1, <2>1, ExchangeConstants DEF SendsBounded, Followed, DataInv
  <2> QED
    BY <1>1, <2>1, <2>2 DEF SendsInv
<1> QED
  BY <1>3, <1>4, <1>5, <1>6

\* More of the body is sent, and the place in it is where the connection has it up to.
LEMMA MoreBodyStep == ASSUME ExchangeInv, MoreBody PROVE ExchangeInv'
<1> USE DEF ExchangeInv
<1>1. /\ pc = "more" /\ conn = "open" /\ body \in Nat /\ body # NONE /\ pos <= body
      /\ wire = [headers |-> headers, size |-> body, got |-> pos, cut |-> FALSE] /\ Fresh
      /\ UNCHANGED <<site, path, creds, cookies, dirty, headers, redirects, authDepth, sends,
                     conn, decoder, owes>>
  BY ExchangeConstants DEF MoreBody, request, counters, LiveInv, Live, FreshHeaders, Fresh,
     PacketInv, DataInv
<1>2. CASE cb > 0
  <2>1. PICK k \in Reads(BUFF_SIZE) :
          cb' = k /\ pos' = pos + k /\ wire' = [wire EXCEPT !.got = @ + k]
    BY <1>2 DEF MoreBody
  <2>2. UNCHANGED <<pc, call, body>>
    BY <1>2 DEF MoreBody
  <2>3. BUFF_SIZE \in Nat /\ BUFF_SIZE > 0
    BY ExchangeConstants
  <2>4. k \in Nat /\ pos + k \in Nat /\ pos + k <= body /\ (k = 0 => pos = body)
    BY <1>1, <2>3, ReadsBounds DEF DataInv
  <2>5. DataInv'
    BY <1>1, <2>1, <2>2, <2>4 DEF DataInv
  <2>6. LiveInv'
    BY <1>1, <2>2 DEF LiveInv, Live, Fresh, FreshHeaders, Followed
  <2>7. wire' = [headers |-> headers', size |-> body', got |-> pos', cut |-> FALSE]
    BY <1>1, <2>1, <2>2
  <2>8. PacketInv'
    <3>1. pc' = "more" /\ pos' <= body' /\ (cb' = 0 => pos' = body')
      BY <1>1, <2>1, <2>2, <2>4
    <3> QED
      BY <2>7, <3>1 DEF PacketInv, WholeRequest
  <2>9. SendsInv'
    BY <1>1, <2>2 DEF SendsInv, SendsBounded, Live
  <2> QED
    BY <2>5, <2>6, <2>8, <2>9
<1>3. CASE ~(cb > 0)
  <2>1. cb = 0
    BY <1>3 DEF DataInv
  <2>2. UNCHANGED <<cb, pos, wire, body>> /\ pc' \in {"app", "headers"} /\ (failed => failed')
    <3>1. CASE call = "send"
      BY <1>3, <2>1, <3>1 DEF MoreBody, Ends
    <3>2. CASE call # "send"
      BY <1>3, <3>2 DEF MoreBody, outcome
    <3> QED
      BY <3>1, <3>2
  <2>3. DataInv'
    BY <1>1, <2>2 DEF DataInv
  <2>4. LiveInv'
    BY <1>1, <2>2 DEF LiveInv, Live, Fresh, FreshHeaders, Followed
  <2>5. headers.length = body
    BY <1>1 DEF Fresh, Build
  <2>6. PacketInv'
    BY <1>1, <2>2, <2>1, <2>5 DEF PacketInv, WholeRequest, Size
  <2>7. SendsInv'
    BY <1>1, <2>2 DEF SendsInv, SendsBounded, Live
  <2> QED
    BY <2>3, <2>4, <2>6, <2>7
<1> QED
  BY <1>2, <1>3

\* The body's own failure ends Send(), and what was sent of it stays cut off.
LEMMA BodyFailsStep == ASSUME ExchangeInv, BodyFails PROVE ExchangeInv'
<1> USE DEF ExchangeInv
<1>1. /\ Ends("error")
      /\ UNCHANGED <<site, path, creds, cookies, conn, decoder, redirects, authDepth, sends, owes>>
  BY DEF BodyFails, request, counters
<1>2. CASE pc = "start"
  <2>1. headers' = Current /\ UNCHANGED wire
    BY <1>2 DEF BodyFails
  <2>2. Current = Build(site, path, body, cookies)
    BY <1>2 DEF Current, LiveInv, Live, Fresh
  <2> QED
    BY <1>1, <1>2, <2>1, <2>2, FirstFails
<1>3. CASE pc = "more"
  <2>1. wire' = [wire EXCEPT !.cut = TRUE] /\ UNCHANGED <<headers, dirty>>
    BY <1>3 DEF BodyFails
  <2>2. wire = [headers |-> headers, size |-> body, got |-> pos, cut |-> FALSE]
    BY <1>3 DEF PacketInv
  <2>3. wire'.cut
    BY <2>1, <2>2
  <2>4. pc' = "app" /\ cb' = 0 /\ failed' /\ pos' \in {pos, 0} /\ body' \in {body, NONE}
    BY <1>1 DEF Ends
  <2>5. Live /\ ~decoder /\ Fresh
    BY <1>3 DEF LiveInv, Live, FreshHeaders, Fresh
  <2>6. DataInv'
    BY <1>1, <2>1, <2>4 DEF DataInv
  <2>7. LiveInv'
    BY <1>1, <2>1, <2>4, <2>5 DEF LiveInv, Live, Fresh, FreshHeaders, Followed
  <2>8. PacketInv'
    BY <2>3, <2>4 DEF PacketInv, WholeRequest
  <2>9. SendsInv'
    BY <1>1, <2>4, <2>5 DEF SendsInv, SendsBounded, Live
  <2> QED
    BY <2>6, <2>7, <2>8, <2>9
<1> QED
  BY <1>2, <1>3 DEF BodyFails

\* A failure leaves nothing under way, except an answer that is late.
LEMMA FailSteps ==
  ASSUME ExchangeInv, SendFails \/ NoResponse \/ ReadBody PROVE ExchangeInv'
<1> USE DEF ExchangeInv
<1>1. CASE NoResponse /\ UNCHANGED server
  <2>1. /\ pc = "headers" /\ conn = "open"
        /\ pc' = "app" /\ cb' = 0 /\ failed' /\ pos' \in {pos, 0} /\ body' \in {body, NONE}
        /\ UNCHANGED <<site, path, creds, cookies, headers, dirty, redirects, authDepth, sends,
                       decoder, wire, owes>>
    BY <1>1 DEF NoResponse, Ends, request, counters, server, LiveInv
  <2>2. DataInv' /\ PacketInv'
    BY <2>1 DEF DataInv, PacketInv, WholeRequest, Size
  <2>3. LiveInv'
    BY <2>1 DEF LiveInv, Live, Fresh, FreshHeaders, Followed
  <2>4. SendsInv'
    BY <2>1 DEF SendsInv, SendsBounded, Live
  <2> QED
    BY <2>2, <2>3, <2>4
<1>2. CASE ~(NoResponse /\ UNCHANGED server)
  <2>1. /\ pc' = "app" /\ (conn' # "open" \/ ~owes') /\ cb' \in {cb, 0}
        /\ body' \in {body, NONE} /\ pos' \in {pos, 0}
        /\ UNCHANGED <<site, path, creds, cookies, headers, redirects, authDepth, sends>>
    <3>1. CASE SendFails
      BY <3>1 DEF SendFails, Ends, GivesUp, request, counters
    <3>2. CASE NoResponse
      BY <1>2, <3>2 DEF NoResponse, Ends, GivesUp, request, counters
    <3>3. CASE ReadBody
      BY <3>3, ExchangeConstants DEF ReadBody, request, counters, server
    <3> QED
      BY <3>1, <3>2, <3>3
  <2>2. DataInv'
    BY <2>1 DEF DataInv
  <2>3. LiveInv' /\ PacketInv'
    BY <2>1 DEF LiveInv, Live, FreshHeaders, PacketInv, WholeRequest
  <2>4. SendsInv'
    BY <2>1 DEF SendsInv, SendsBounded, Live
  <2> QED
    BY <2>2, <2>3, <2>4
<1> QED
  BY <1>1, <1>2

\* Response() waits for the answer that is due, if the connection lasts.
LEMMA ResponseStep == ASSUME ExchangeInv, Response PROVE ExchangeInv'
<1> USE DEF ExchangeInv
<1>1. /\ pc = "app"
      /\ UNCHANGED <<site, path, creds, cookies, dirty, headers, redirects, authDepth, sends,
                     conn, decoder, cb, wire, owes>>
  BY DEF Response, request, counters, server
<1>2. CASE conn = "open"
  <2>1. pc' = "headers" /\ UNCHANGED <<body, pos, failed>>
    BY <1>2 DEF Response
  <2>2. DataInv'
    BY <1>1, <2>1 DEF DataInv
  <2>3. LiveInv'
    BY <1>1, <1>2, <2>1 DEF LiveInv, Live, Fresh, FreshHeaders, Followed
  <2>4. PacketInv'
    BY <1>1, <2>1 DEF PacketInv, WholeRequest, Size
  <2>5. SendsInv'
    BY <1>1, <2>1 DEF SendsInv, SendsBounded, Live
  <2> QED
    BY <2>2, <2>3, <2>4, <2>5
<1>3. CASE conn # "open"
  <2>1. pc' = "app" /\ body' = NONE /\ pos' = 0
    BY <1>1, <1>3 DEF Response
  <2>2. DataInv'
    BY <1>1, <2>1 DEF DataInv
  <2>3. LiveInv' /\ PacketInv'
    BY <1>1, <1>3, <2>1 DEF LiveInv, Live, FreshHeaders, PacketInv, WholeRequest
  <2>4. SendsInv'
    BY <1>1, <2>1 DEF SendsInv, SendsBounded, Live
  <2> QED
    BY <2>2, <2>3, <2>4
<1> QED
  BY <1>2, <1>3

\* A cookie that comes between two steps makes the headers stale, and dirty tells.
LEMMA CookieSteps == ASSUME ExchangeInv, SetCookie \/ Continue PROVE ExchangeInv'
<1> USE DEF ExchangeInv
<1>1. CASE SetCookie
  <2>1. /\ pc = "app" /\ dirty' = TRUE
        /\ UNCHANGED <<creds, body, pos, headers, redirects, authDepth, sends, conn, decoder,
                       pc, call, cb, wire, owes, failed>>
    BY <1>1 DEF SetCookie, counters, server, outcome
  <2>2. IsFiniteSet(cookies')
    BY <1>1, WithCookieFinite DEF SetCookie, DataInv
  <2>3. DataInv'
    BY <2>1, <2>2 DEF DataInv
  <2>4. LiveInv'
    BY <2>1 DEF LiveInv, Live, FreshHeaders, Followed
  <2>5. PacketInv'
    BY <2>1 DEF PacketInv, WholeRequest, Size
  <2>6. SendsInv'
    BY <2>1 DEF SendsInv, SendsBounded, Live
  <2> QED
    BY <2>3, <2>4, <2>5, <2>6
<1>2. CASE Continue
  <2>1. UNCHANGED <<site, path, creds, cookies, body, pos, dirty, headers, redirects, authDepth,
                    sends, conn, decoder, pc, call, cb, wire, owes, failed>>
    BY <1>2 DEF Continue, request, counters, outcome
  <2>2. DataInv' /\ SendsInv'
    BY <2>1 DEF DataInv, SendsInv, SendsBounded, Live
  <2>3. LiveInv' /\ PacketInv'
    BY <2>1 DEF LiveInv, Live, Fresh, FreshHeaders, Followed, PacketInv, WholeRequest, Size
  <2> QED
    BY <2>2, <2>3
<1> QED
  BY <1>1, <1>2

\* What an answer that is handed over, refused or not followed leaves behind
LEMMA AnswerEnds ==
  ASSUME ExchangeInv, NEW r, Arrives(r), pc' = "app", body' \in {body, NONE},
         pos' \in {pos, 0}, cb' = 0, redirects' \in Nat, UNCHANGED <<headers, authDepth>>
  PROVE  ExchangeInv'
<1> USE DEF ExchangeInv
<1>1. cookies' = Extracted(r.set) /\ owes' = FALSE /\ UNCHANGED <<creds, sends>>
  BY DEF Arrives, GivesUp
<1>2. DataInv'
  BY <1>1, ExtractedFinite DEF DataInv
<1>3. LiveInv' /\ PacketInv'
  BY <1>1 DEF LiveInv, Live, FreshHeaders, PacketInv, WholeRequest
<1>4. SendsInv'
  BY <1>1 DEF SendsInv, SendsBounded, Live
<1> QED
  BY <1>2, <1>3, <1>4

\* One more request, for one more redirect or challenge.
LEMMA OneMore ==
  ASSUME NEW s \in Nat, NEW a \in Nat, NEW b \in Nat, NEW c \in Nat, NEW d \in Nat,
         s <= a + b + 1, c + d = a + b + 1
  PROVE  s <= c + d /\ s <= c + d + 1
OBVIOUS

\* The request that goes out again has its body at the start and headers of its own.
LEMMA AgainStep ==
  ASSUME ExchangeInv, NEW r, Arrives(r), SendAgain, body # NONE, decoder' = decoder,
         redirects' \in Nat, redirects' <= Followed, authDepth' \in 0..2,
         redirects' + authDepth' = redirects + authDepth + 1,
         IsFiniteSet(headers'.cookies), dirty' \/ Fresh'
  PROVE  ExchangeInv'
<1> USE DEF ExchangeInv
<1>1. /\ cookies' = Extracted(r.set) /\ owes /\ owes' = FALSE /\ pc = "headers"
      /\ UNCHANGED <<creds, sends>>
  BY DEF Arrives, GivesUp
<1>2. conn' = NONE /\ pos' = 0 /\ pc' = "start" /\ UNCHANGED <<call, body, cb>>
  BY DEF SendAgain
<1>3. Live
  BY <1>1 DEF Live, LiveInv
<1>4. DataInv'
  BY <1>1, <1>2, ExtractedFinite DEF DataInv
<1>5. LiveInv'
  BY <1>1, <1>2, <1>3 DEF LiveInv, Live, FreshHeaders, Followed
<1>6. PacketInv'
  BY <1>1, <1>2 DEF PacketInv, WholeRequest
<1>7. SendsInv'
  <2>1. sends <= redirects + authDepth + 1
    BY <1>3 DEF SendsInv
  <2>2. sends' <= redirects' + authDepth' /\ sends' <= redirects' + authDepth' + 1
    <3>1. /\ sends \in Nat /\ redirects \in Nat /\ authDepth \in Nat
          /\ redirects' \in Nat /\ authDepth' \in Nat
      BY DEF DataInv
    <3>2. sends' = sends
      BY <1>1
    <3> QED
      BY <2>1, <3>1, <3>2, OneMore
  <2>3. SendsBounded'
    BY <1>1 DEF SendsInv, SendsBounded
  <2> QED
    BY <1>2, <2>2, <2>3 DEF SendsInv
<1> QED
  BY <1>4, <1>5, <1>6, <1>7

\* Without a body the process ends there, and an earlier call had failed.
LEMMA CrashStep ==
  ASSUME ExchangeInv, NEW r, Arrives(r), SendAgain, body = NONE,
         redirects' \in Nat, authDepth' \in 0..2, IsFiniteSet(headers'.cookies)
  PROVE  ExchangeInv'
<1> USE DEF ExchangeInv
<1>1. /\ cookies' = Extracted(r.set) /\ owes /\ owes' = FALSE /\ pc = "headers"
      /\ UNCHANGED <<creds, sends>>
  BY DEF Arrives, GivesUp
<1>2. conn' = NONE /\ pc' = "crashed" /\ UNCHANGED <<pos, cb, body, failed>>
  BY DEF SendAgain, outcome
<1>3. failed
  BY <1>1 DEF LiveInv
<1>4. DataInv'
  BY <1>1, <1>2, ExtractedFinite DEF DataInv
<1>5. LiveInv' /\ PacketInv'
  BY <1>1, <1>2, <1>3 DEF LiveInv, Live, FreshHeaders, PacketInv, WholeRequest
<1>6. SendsInv'
  BY <1>1, <1>2 DEF SendsInv, SendsBounded, Live
<1> QED
  BY <1>4, <1>5, <1>6

\* An answer is final, redirects or challenges; only the last two send the request again.
LEMMA AnswerSteps == ASSUME ExchangeInv, Answer \/ Redirect \/ Challenge PROVE ExchangeInv'
<1> USE DEF ExchangeInv
<1>1. CASE Answer
  <2>1. PICK r : /\ Arrives(r) /\ pc' = "app" /\ body' \in {body, NONE}
                 /\ pos' \in {pos, 0} /\ cb' = 0
                 /\ UNCHANGED <<headers, redirects, authDepth>>
    BY <1>1 DEF Answer, Ends
  <2> QED
    BY <2>1, AnswerEnds DEF DataInv
<1>2. CASE Redirect
  <2> DEFINE why(r) == Refusal(r.to, redirects + 1)
             new(r) == Location(r.to)
  <2>1. redirects' = redirects + 1 /\ redirects' \in Nat /\ UNCHANGED <<authDepth, decoder>>
    BY <1>2 DEF Redirect, DataInv
  <2>2. PICK r : /\ Arrives(r)
                 /\ IF why(r) # "none"
                    THEN Ends(why(r)) /\ UNCHANGED headers
                    ELSE /\ site' = new(r).site /\ path' = new(r).path
                         /\ headers' = Build(new(r).site, new(r).path, body, cookies')
                         /\ SendAgain
    BY <1>2 DEF Redirect
  <2>3. CASE why(r) # "none"
    BY <2>1, <2>2, <2>3, AnswerEnds DEF Ends
  <2>4. CASE why(r) = "none"
    <3>1. redirects' <= Followed
      BY <2>1, <2>4, ExchangeConstants DEF Refusal, Followed, DataInv
    <3>2. IsFiniteSet(cookies')
      BY <2>2, ExtractedFinite DEF Arrives, DataInv
    <3>3. body' = body /\ SendAgain
      BY <2>2, <2>4 DEF SendAgain
    <3>4. IsFiniteSet(headers'.cookies) /\ Fresh'
      BY <2>2, <2>4, <3>2, <3>3, BuildFinite DEF Fresh
    <3> QED
      BY <2>1, <2>2, <3>1, <3>3, <3>4, AgainStep, CrashStep DEF DataInv
  <2> QED
    BY <2>3, <2>4
<1>3. CASE Challenge
  <2>1. UNCHANGED <<site, path, headers, redirects, decoder>>
    BY <1>3 DEF Challenge
  <2>2. PICK r : /\ Arrives(r) /\ dirty' = (dirty \/ r.set # {})
                 /\ IF MayAuth(r) THEN authDepth' = authDepth + 1 /\ SendAgain
                    ELSE Ends("error") /\ UNCHANGED authDepth
    BY <1>3 DEF Challenge
  <2>3. CASE ~MayAuth(r)
    BY <2>1, <2>2, <2>3, AnswerEnds DEF Ends, DataInv
  <2>4. CASE MayAuth(r)
    <3>1. authDepth' \in 0..2 /\ redirects' \in Nat
      BY <2>1, <2>2, <2>4 DEF MayAuth, DataInv
    <3>2. body # NONE => Live
      BY <2>2 DEF Live, LiveInv, Arrives
    <3>3. body # NONE => redirects' <= Followed /\ (dirty \/ Fresh)
      BY <2>1, <3>2 DEF LiveInv
    <3>4. body # NONE => dirty' \/ Fresh'
      <4>1. r.set = {} => cookies' = cookies
        BY <2>2 DEF Arrives, Extracted
      <4>2. body' = body
        BY <2>2, <2>4 DEF SendAgain
      <4> QED
        BY <2>1, <2>2, <3>3, <4>1, <4>2 DEF Fresh
    <3>5. redirects' + authDepth' = redirects + authDepth + 1
      BY <2>1, <2>2, <2>4 DEF DataInv
    <3> QED
      BY <2>1, <2>2, <2>4, <3>1, <3>3, <3>4, <3>5, AgainStep, CrashStep DEF DataInv
  <2> QED
    BY <2>3, <2>4
<1> QED
  BY <1>1, <1>2, <1>3
-----------------------------------------------------------------------------
\* The invariant of the exchange holds throughout.
LEMMA ExchangeInvariant == Spec => []ExchangeInv
<1>1. ExchangeInv /\ [Next]_vars => ExchangeInv'
  <2> SUFFICES ASSUME ExchangeInv, [Next]_vars PROVE ExchangeInv'
    OBVIOUS
  <2>1. CASE UNCHANGED vars
    BY <2>1 DEF vars, ExchangeInv, DataInv, LiveInv, Live, Fresh, FreshHeaders, Followed,
                PacketInv, WholeRequest, Size, SendsInv, SendsBounded
  <2> QED
    BY <2>1, SendStep, StartSendStep, FirstPacketStep, MoreBodyStep, BodyFailsStep, FailSteps,
       ResponseStep, CookieSteps, AnswerSteps DEF Next, CallStep, Crashed
<1> QED
  BY <1>1, InitExchangeInv, PTL DEF Spec

\* Whenever a send succeeds, also one for a redirect or a challenge, the server has the whole
\* body, for every size of body and buffer.
THEOREM WholeRequests == Spec => []WholeRequest
<1>1. ExchangeInv => WholeRequest
  BY DEF ExchangeInv, PacketInv
<1> QED
  BY <1>1, ExchangeInvariant, PTL

\* What goes out names the URL the redirects led to and the cookies known at that moment.
THEOREM HeadersAreFresh == Spec => []FreshHeaders
<1>1. ExchangeInv => FreshHeaders
  BY DEF ExchangeInv, LiveInv
<1> QED
  BY <1>1, ExchangeInvariant, PTL

\* The body is there whenever an answer may ask to send it again, and no decoder in its way:
\* Reset() goes through a NULL m_requestBody only after a call of this exchange failed.
THEOREM BodyStaysAtHand == Spec => []BodyAtHand
<1>1. ExchangeInv => BodyAtHand
  BY DEF ExchangeInv, LiveInv, Live, BodyAtHand
<1> QED
  BY <1>1, ExchangeInvariant, PTL

\* However servers answer, a request is sent no more often than the redirects that may be
\* followed and two answers to challenges explain.
THEOREM SendsAreBounded == Spec => []SendsBounded
<1>1. ExchangeInv => SendsBounded
  BY DEF ExchangeInv, SendsInv
<1> QED
  BY <1>1, ExchangeInvariant, PTL
-----------------------------------------------------------------------------
(* ReadRequestPool *)

\* Who holds a request: a call from StartRequest to its Release(), a thread from taking
\* it to its own Release().
HoldInv ==
  /\ \A c \in Callers : creq[c] = NULL <=> cpc[c] = "idle"
  /\ \A w \in Workers :
       wreq[w] # NULL <=> wpc[w] \in {"taken", "recv", "read", "finished", "store"}

\* What the counters say of the threads
CountInv == AvailExact /\ WakeFindsWork

TypeInv == ReadTypeOK /\ HoldInv

\* A request has two holders at most, the call that made it and one place in the pool
ByCaller(r) == \E c \in Callers : creq[c] = r
InPool(r) == r \in Queued \/ \E w \in Workers : wreq[w] = r

OneHolderEach ==
  /\ \A c, d \in Callers : creq[c] = creq[d] /\ creq[c] # NULL => c = d
  /\ \A v, w \in Workers : wreq[v] = wreq[w] /\ wreq[v] # NULL => v = w
  /\ \A i, j \in DOMAIN work : work[i] = work[j] => i = j
  /\ \A w \in Workers : wreq[w] \notin Queued

\* Nobody has stored yet while both hold it, so both have loaded 2, or will
Counted == \A r \in Requests :
  /\ ByCaller(r) \/ InPool(r) => req[r].rc \in 1..2
  /\ ByCaller(r) /\ InPool(r) => req[r].rc = 2

RegInv ==
  /\ \A c \in Callers : cpc[c] = "store" =>
       reg[c] \in 1..2 /\ (InPool(creq[c]) => reg[c] = 2)
  /\ \A w \in Workers : wpc[w] = "store" =>
       reg[w] \in 1..2 /\ (ByCaller(wreq[w]) => reg[w] = 2)

RefInv == OneHolderEach /\ Counted /\ RegInv

PoolInv == TypeInv /\ CountInv /\ RefInv
-----------------------------------------------------------------------------
\* The memory of a deleted request is of its type.
LEMMA DeletedType == Deleted \in Request
BY DEF Deleted, Request

\* A new request is of its type, with a reference for the caller and one for the pool.
LEMMA NewType ==
  ASSUME NEW h \in Handles \cup {NULL} PROVE New(h) \in Request /\ New(h).rc = 2
BY DEF New, Request

\* The memory of a request is of its type, whatever is stored
LEMMA StoreType ==
  ASSUME ReadTypeOK, NEW t \in Threads, NEW r \in Requests, Store(t, r), reg[t] \in 1..2
  PROVE  req' \in [Requests -> Request]
<1>1. req[r] \in Request
  BY DEF ReadTypeOK
<1>2. reg[t] - 1 \in 0..2
  OBVIOUS
<1>3. [req[r] EXCEPT !.rc = reg[t] - 1] \in Request
  BY <1>1, <1>2 DEF Request
<1> DEFINE stored == IF reg[t] = 1 THEN Deleted ELSE [req[r] EXCEPT !.rc = reg[t] - 1]
<1>4. stored \in Request /\ req' = [req EXCEPT ![r] = stored]
  BY <1>3, DeletedType DEF Store
<1> HIDE DEF stored
<1> QED
  BY <1>4 DEF ReadTypeOK

\* The pool of readers begins with the right types.
LEMMA InitTypeInv == ReadInit => TypeInv
<1> SUFFICES ASSUME ReadInit PROVE TypeInv
  OBVIOUS
<1>1. HoldInv
  BY ReadPoolConstants DEF ReadInit, HoldInv
<1>2. req \in [Requests -> Request]
  BY DeletedType DEF ReadInit
<1>3. work \in Seq(Requests)
  BY DEF ReadInit
<1>4. reg \in [Threads -> 0..2]
  BY DEF ReadInit
<1>5. wreq \in [Workers -> Requests \cup {NULL}] /\ creq \in [Callers -> Requests \cup {NULL}]
  BY DEF ReadInit
<1>6. signal \in BOOLEAN /\ avail \in Nat /\ sock \in [Callers -> Handles \cup {NULL}]
  BY DEF ReadInit
<1>7. /\ wpc \in [Workers -> {"none", "wait", "minute", "woken", "taken", "recv", "read",
                             "finished", "store", "back"}]
      /\ cpc \in [Callers -> {"idle", "signal", "wait", "answered", "timedout", "store"}]
  BY DEF ReadInit
<1> QED
  BY <1>1, <1>2, <1>3, <1>4, <1>5, <1>6, <1>7 DEF TypeInv, ReadTypeOK

\* The steps of a caller keep the types
LEMMA CallerType ==
  ASSUME TypeInv, RegInv, NEW c \in Callers,
         Connect(c) \/ Disconnect(c) \/ StartRequest(c) \/ CallGoesOn(c)
  PROVE  TypeInv'
<1> USE DEF TypeInv
<1>1. CASE Connect(c)
  BY <1>1 DEF Connect, ReadTypeOK, HoldInv
<1>2. CASE Disconnect(c)
  BY <1>2 DEF Disconnect, ReadTypeOK, HoldInv
<1>3. CASE StartRequest(c)
  <2>1. PICK r \in Requests :
          /\ req[r] = Deleted /\ req' = [req EXCEPT ![r] = New(sock[c])]
          /\ creq' = [creq EXCEPT ![c] = r] /\ work' = Append(work, r)
    BY <1>3 DEF StartRequest
  <2>2. New(sock[c]) \in Request
    BY NewType DEF ReadTypeOK
  <2>3. work' \in Seq(Requests) /\ req' \in [Requests -> Request]
    BY <2>1, <2>2 DEF ReadTypeOK
  <2>4. wpc' = wpc \/ \E w \in Workers : wpc[w] = "none" /\ wpc' = [wpc EXCEPT ![w] = "wait"]
    BY <1>3 DEF StartRequest
  <2>5. ReadTypeOK'
    BY <1>3, <2>1, <2>3, <2>4 DEF StartRequest, ReadTypeOK
  <2>6. HoldInv'
    BY <1>3, <2>1, <2>4, ReadPoolConstants DEF StartRequest, ReadTypeOK, HoldInv
  <2> QED
    BY <2>5, <2>6
<1>4. CASE SetDoWork(c)
  BY <1>4 DEF SetDoWork, ReadTypeOK, HoldInv
<1>5. CASE Answered(c)
  BY <1>5 DEF Answered, ReadTypeOK, HoldInv
<1>6. CASE TimesOut(c)
  BY <1>6 DEF TimesOut, ReadTypeOK, HoldInv
<1>7. CASE CallerLoads(c)
  <2>1. req[creq[c]].rc \in 0..2
    BY <1>7 DEF CallerLoads, ReadTypeOK, HoldInv, Request
  <2> QED
    BY <1>7, <2>1 DEF CallerLoads, Load, ReadTypeOK, HoldInv, Threads
<1>8. CASE CallerStores(c)
  <2>1. creq[c] \in Requests /\ c \in Threads /\ reg[c] \in 1..2
    BY <1>8 DEF CallerStores, ReadTypeOK, HoldInv, Threads, RegInv
  <2>2. req' \in [Requests -> Request]
    BY <1>8, <2>1, StoreType DEF CallerStores
  <2> QED
    BY <1>8, <2>1, <2>2 DEF CallerStores, ReadTypeOK, HoldInv
<1> QED
  BY <1>1, <1>2, <1>3, <1>4, <1>5, <1>6, <1>7, <1>8 DEF CallGoesOn

\* The steps of a pool thread keep the types
LEMMA WorkerType ==
  ASSUME TypeInv, RegInv, AvailExact, NEW w \in Workers,
         IdleTimeout(w) \/ RecvReturns(w) \/ WorkGoesOn(w)
  PROVE  TypeInv'
<1> USE DEF TypeInv, Goto
<1>1. CASE IdleTimeout(w)
  BY <1>1 DEF IdleTimeout, ReadTypeOK, HoldInv
<1>2. CASE RecvReturns(w)
  BY <1>2 DEF RecvReturns, ReadTypeOK, HoldInv, Request
<1>3. CASE Wake(w)
  BY <1>3 DEF Wake, ReadTypeOK, HoldInv
<1>4. CASE LetGo(w)
  <2>1. CASE LetsGo
    <3>1. avail - 1 \in Nat
      BY <2>1 DEF LetsGo, ReadTypeOK
    <3> QED
      BY <1>4, <2>1, <3>1 DEF LetGo, ReadTypeOK, HoldInv
  <2>2. CASE ~LetsGo
    BY <1>4, <2>2 DEF LetGo, ReadTypeOK, HoldInv
  <2> QED
    BY <2>1, <2>2
<1>5. CASE Take(w)
  <2>1. w \in Available
    BY <1>5 DEF Take, Available
  <2>2. IsFiniteSet(Available) /\ Cardinality(Available) \in Nat
    BY FS_Subset, FS_CardinalityType, ReadPoolConstants DEF Available
  <2>3. Cardinality(Available) # 0
    BY <2>1, <2>2, FS_EmptySet
  <2>4. avail - 1 \in Nat
    BY <2>2, <2>3 DEF AvailExact
  <2>5. Head(work) \in Requests /\ Tail(work) \in Seq(Requests)
    BY <1>5 DEF Take, ReadTypeOK
  <2> QED
    BY <1>5, <2>4, <2>5, ReadPoolConstants DEF Take, ReadTypeOK, HoldInv
<1>6. CASE RecvBegins(w)
  BY <1>6 DEF RecvBegins, ReadTypeOK, HoldInv
<1>7. CASE SetFinished(w)
  BY <1>7 DEF SetFinished, ReadTypeOK, HoldInv, Request
<1>8. CASE WorkerLoads(w)
  <2>1. req[wreq[w]].rc \in 0..2
    BY <1>8 DEF WorkerLoads, ReadTypeOK, HoldInv, Request
  <2> QED
    BY <1>8, <2>1 DEF WorkerLoads, Load, ReadTypeOK, HoldInv, Threads
<1>9. CASE WorkerStores(w)
  <2>1. wreq[w] \in Requests /\ w \in Threads /\ reg[w] \in 1..2
    BY <1>9 DEF WorkerStores, ReadTypeOK, HoldInv, Threads, RegInv
  <2>2. req' \in [Requests -> Request]
    BY <1>9, <2>1, StoreType DEF WorkerStores
  <2> QED
    BY <1>9, <2>1, <2>2 DEF WorkerStores, ReadTypeOK, HoldInv
<1>10. CASE Back(w)
  BY <1>10 DEF Back, ReadTypeOK, HoldInv
<1> QED
  BY <1>1, <1>2, <1>3, <1>4, <1>5, <1>6, <1>7, <1>8, <1>9, <1>10 DEF WorkGoesOn
-----------------------------------------------------------------------------
\* The sets that are counted are finite.
LEMMA CountedFinite ==
  /\ IsFiniteSet(Available) /\ Cardinality(Available) \in Nat
  /\ IsFiniteSet(Woken) /\ Cardinality(Woken) \in Nat
  /\ IsFiniteSet(Unsignalled) /\ Cardinality(Unsignalled) \in Nat
BY FS_Subset, FS_CardinalityType, ReadPoolConstants DEF Available, Woken, Unsignalled

\* Adding what is there and removing what is not changes no set.
LEMMA SameSet ==
  ASSUME NEW S, NEW e
  PROVE  (e \in S => S \cup {e} = S) /\ (e \notin S => S \ {e} = S)
OBVIOUS

\* A thread that goes to another place in ThreadProc is counted by where it is then.
LEMMA MoveWorker ==
  ASSUME ReadTypeOK, NEW w \in Workers, NEW place, wpc' = [wpc EXCEPT ![w] = place]
  PROVE  /\ Available' = IF place \in {"wait", "minute", "woken"}
                         THEN Available \cup {w} ELSE Available \ {w}
         /\ Woken' = IF place = "woken" THEN Woken \cup {w} ELSE Woken \ {w}
BY DEF Available, Woken, ReadTypeOK

\* So is a caller, while it has not signalled what it put into the queue.
LEMMA MoveCaller ==
  ASSUME ReadTypeOK, NEW c \in Callers, NEW place, cpc' = [cpc EXCEPT ![c] = place]
  PROVE  Unsignalled' = IF place = "signal" THEN Unsignalled \cup {c} ELSE Unsignalled \ {c}
BY DEF Unsignalled, ReadTypeOK

\* A step that changes neither the places that are counted, nor the queue, nor the event
LEMMA CountSame ==
  ASSUME CountInv, Available' = Available, Woken' = Woken, Unsignalled' = Unsignalled,
         UNCHANGED <<avail, signal, work>>
  PROVE  CountInv'
BY DEF CountInv, AvailExact, WakeFindsWork

\* In the beginning nobody waits and nothing is queued.
LEMMA InitCountInv == ReadInit => CountInv
<1> SUFFICES ASSUME ReadInit PROVE CountInv
  OBVIOUS
<1>1. Available = {} /\ Woken = {} /\ Unsignalled = {}
  BY DEF ReadInit, Available, Woken, Unsignalled
<1> QED
  BY <1>1, FS_EmptySet DEF ReadInit, CountInv, AvailExact, WakeFindsWork

\* The steps of a caller keep the counts: a request is queued before it is signalled, and
\* a thread is created when none is counted.
LEMMA CallerCount ==
  ASSUME TypeInv, CountInv, NEW c \in Callers,
         Connect(c) \/ Disconnect(c) \/ StartRequest(c) \/ CallGoesOn(c)
  PROVE  CountInv'
<1> USE DEF TypeInv
<1>1. CASE UNCHANGED <<wpc, cpc>> /\ UNCHANGED <<avail, signal, work>>
  BY <1>1, CountSame DEF Available, Woken, Unsignalled
<1>2. CASE Connect(c) \/ Disconnect(c)
  BY <1>1, <1>2 DEF Connect, Disconnect
<1>3. CASE StartRequest(c)
  <2>1. Unsignalled' = Unsignalled \cup {c} /\ c \notin Unsignalled
    BY <1>3, MoveCaller DEF StartRequest, Unsignalled
  <2>2. Cardinality(Unsignalled') = Cardinality(Unsignalled) + 1
    BY <2>1, CountedFinite, FS_AddElement
  <2>3. PICK r \in Requests : work' = Append(work, r)
    BY <1>3 DEF StartRequest
  <2>4. Len(work') = Len(work) + 1 /\ Len(work) \in Nat
    BY <2>3 DEF ReadTypeOK
  <2>5. Woken' = Woken /\ AvailExact'
    <3>1. CASE avail = 0
      <4>1. PICK w \in Workers : wpc[w] = "none" /\ wpc' = [wpc EXCEPT ![w] = "wait"]
        BY <1>3, <3>1 DEF StartRequest
      <4>2. Available = {}
        BY <3>1, CountedFinite, FS_EmptySet DEF CountInv, AvailExact
      <4>3. Available' = Available \cup {w} /\ Woken' = Woken \ {w}
        <5>1. "wait" \in {"wait", "minute", "woken"} /\ "wait" # "woken"
          OBVIOUS
        <5> QED
          BY <4>1, <5>1, MoveWorker
      <4>4. Woken' = Woken
        BY <4>1, <4>3, SameSet DEF Woken
      <4>5. w \notin Available
        BY <4>2
      <4>6. Cardinality(Available') = Cardinality(Available) + 1
        BY <4>3, <4>5, CountedFinite, FS_AddElement
      <4>7. avail' = 1 /\ Cardinality(Available) = 0
        BY <1>3, <3>1, <4>2, FS_EmptySet DEF StartRequest
      <4> QED
        BY <4>4, <4>6, <4>7 DEF AvailExact
    <3>2. CASE avail # 0
      BY <1>3, <3>2 DEF StartRequest, CountInv, AvailExact, Available, Woken
    <3> QED
      BY <3>1, <3>2
  <2>6. signal' = signal
    BY <1>3 DEF StartRequest
  <2> QED
    BY <2>2, <2>4, <2>5, <2>6, CountedFinite DEF CountInv, WakeFindsWork
<1>4. CASE SetDoWork(c)
  <2>1. c \in Unsignalled /\ Unsignalled' = Unsignalled \ {c}
    <3>1. c \in Unsignalled
      BY <1>4 DEF SetDoWork, Unsignalled
    <3>2. cpc' = [cpc EXCEPT ![c] = "wait"] /\ "wait" # "signal"
      BY <1>4 DEF SetDoWork
    <3> QED
      BY <3>1, <3>2, MoveCaller
  <2>2. Cardinality(Unsignalled') = Cardinality(Unsignalled) - 1
    BY <2>1, CountedFinite, FS_RemoveElement
  <2>3. Woken' = Woken /\ Available' = Available
    BY <1>4 DEF SetDoWork, Woken, Available
  <2>4. Len(work) \in Nat
    BY DEF ReadTypeOK
  <2> QED
    BY <1>4, <2>2, <2>3, <2>4, CountedFinite DEF SetDoWork, CountInv, AvailExact, WakeFindsWork
<1>5. CASE Answered(c) \/ TimesOut(c) \/ CallerLoads(c) \/ CallerStores(c)
  <2>1. PICK place \in {"answered", "timedout", "store", "idle"} : cpc' = [cpc EXCEPT ![c] = place]
    BY <1>5 DEF Answered, TimesOut, CallerLoads, CallerStores
  <2>2. cpc[c] # "signal"
    BY <1>5 DEF Answered, TimesOut, CallerLoads, CallerStores
  <2>3. Unsignalled' = Unsignalled
    BY <2>1, <2>2, MoveCaller DEF Unsignalled
  <2>4. UNCHANGED <<wpc, avail, signal, work>>
    BY <1>5 DEF Answered, TimesOut, CallerLoads, CallerStores
  <2> QED
    BY <2>3, <2>4, CountSame DEF Available, Woken
<1> QED
  BY <1>2, <1>3, <1>4, <1>5 DEF CallGoesOn

\* The steps of a pool thread keep them: one wakes for each signal, and takes one request.
LEMMA WorkerCount ==
  ASSUME TypeInv, CountInv, NEW w \in Workers,
         IdleTimeout(w) \/ RecvReturns(w) \/ WorkGoesOn(w)
  PROVE  CountInv'
<1> USE DEF TypeInv, Goto
<1>1. Unsignalled' = Unsignalled
  BY DEF IdleTimeout, RecvReturns, WorkGoesOn, Wake, LetGo, Take, RecvBegins, SetFinished,
         WorkerLoads, WorkerStores, Back, Unsignalled
<1>2. CASE IdleTimeout(w)
  <2>1. Available' = Available \cup {w} /\ Woken' = Woken \ {w} /\ w \in Available /\ w \notin Woken
    BY <1>2, MoveWorker DEF IdleTimeout, Available, Woken
  <2> QED
    BY <1>1, <1>2, <2>1, CountSame DEF IdleTimeout
<1>3. CASE RecvReturns(w) \/ RecvBegins(w) \/ SetFinished(w) \/ WorkerLoads(w) \/ WorkerStores(w)
  <2>1. PICK place \in {"recv", "read", "finished", "store", "back"} :
          wpc' = [wpc EXCEPT ![w] = place]
    BY <1>3 DEF RecvReturns, RecvBegins, SetFinished, WorkerLoads, WorkerStores
  <2>2. w \notin Available /\ w \notin Woken
    BY <1>3 DEF RecvReturns, RecvBegins, SetFinished, WorkerLoads, WorkerStores, Available, Woken
  <2>3. Available' = Available /\ Woken' = Woken
    <3>1. place \notin {"wait", "minute", "woken"}
      BY <2>1
    <3>2. Available' = Available \ {w} /\ Woken' = Woken \ {w}
      BY <2>1, <3>1, MoveWorker
    <3> QED
      BY <2>2, <3>2, SameSet
  <2>4. UNCHANGED <<avail, signal, work>>
    BY <1>3 DEF RecvReturns, RecvBegins, SetFinished, WorkerLoads, WorkerStores
  <2> QED
    BY <1>1, <2>3, <2>4, CountSame
<1>4. CASE Wake(w)
  <2>1. Available' = Available \cup {w} /\ Woken' = Woken \cup {w} /\ w \in Available /\ w \notin Woken
    BY <1>4, MoveWorker DEF Wake, Available, Woken
  <2>2. Cardinality(Woken') = Cardinality(Woken) + 1
    BY <2>1, CountedFinite, FS_AddElement
  <2>4. Available' = Available
    BY <2>1, SameSet
  <2>3. Len(work) \in Nat
    BY DEF ReadTypeOK
  <2> QED
    BY <1>1, <1>4, <2>2, <2>3, <2>4, CountedFinite DEF Wake, CountInv, AvailExact, WakeFindsWork
<1>5. CASE LetGo(w)
  <2>1. w \in Available /\ w \notin Woken
    BY <1>5 DEF LetGo, Available, Woken
  <2>2. CASE LetsGo
    <3>1. Available' = Available \ {w} /\ Woken' = Woken
      BY <1>5, <2>1, <2>2, MoveWorker DEF LetGo
    <3>2. Cardinality(Available') = Cardinality(Available) - 1
      BY <2>1, <3>1, CountedFinite, FS_RemoveElement
    <3> QED
      BY <1>1, <1>5, <2>2, <3>1, <3>2 DEF LetGo, CountInv, AvailExact, WakeFindsWork
  <2>3. CASE ~LetsGo
    <3>1. Available' = Available /\ Woken' = Woken
      BY <1>5, <2>1, <2>3, MoveWorker DEF LetGo
    <3> QED
      BY <1>1, <1>5, <2>3, <3>1, CountSame DEF LetGo
  <2> QED
    BY <2>2, <2>3
<1>6. CASE Take(w)
  <2>1. Available' = Available \ {w} /\ Woken' = Woken \ {w} /\ w \in Available /\ w \in Woken
    BY <1>6, MoveWorker DEF Take, Available, Woken
  <2>2. /\ Cardinality(Woken') = Cardinality(Woken) - 1
        /\ Cardinality(Available') = Cardinality(Available) - 1
    BY <2>1, CountedFinite, FS_RemoveElement
  <2>3. Len(work') = Len(work) - 1 /\ Len(work) \in Nat
    BY <1>6 DEF Take, ReadTypeOK
  <2> QED
    BY <1>1, <1>6, <2>2, <2>3, CountedFinite DEF Take, CountInv, AvailExact, WakeFindsWork
<1>7. CASE Back(w)
  <2>1. Available' = Available \cup {w} /\ Woken' = Woken \ {w} /\ w \notin Available /\ w \notin Woken
    BY <1>7, MoveWorker DEF Back, Available, Woken
  <2>2. Cardinality(Available') = Cardinality(Available) + 1
    BY <2>1, CountedFinite, FS_AddElement
  <2>3. Woken' = Woken
    BY <2>1, SameSet
  <2> QED
    BY <1>1, <1>7, <2>2, <2>3 DEF Back, CountInv, AvailExact, WakeFindsWork
<1> QED
  BY <1>2, <1>3, <1>4, <1>5, <1>6, <1>7 DEF WorkGoesOn
-----------------------------------------------------------------------------
\* In the beginning nobody holds a request.
LEMMA InitRefInv == ReadInit => RefInv
<1> SUFFICES ASSUME ReadInit PROVE RefInv
  OBVIOUS
<1>1. Queued = {} /\ work = <<>>
  BY DEF ReadInit, Queued
<1>2. \A r \in Requests : ~ByCaller(r) /\ ~InPool(r)
  BY <1>1, ReadPoolConstants DEF ReadInit, ByCaller, InPool
<1> QED
  BY <1>1, <1>2 DEF ReadInit, RefInv, OneHolderEach, Counted, RegInv

\* A step that moves no request and stores nothing keeps the counts
LEMMA RefSame ==
  ASSUME RefInv, TypeInv, UNCHANGED <<work, creq, wreq>>,
         req' \in [Requests -> Request], \A r \in Requests : req'[r].rc = req[r].rc, RegInv'
  PROVE  RefInv'
<1>1. OneHolderEach'
  BY DEF RefInv, OneHolderEach, Queued
<1>2. Counted'
  BY DEF RefInv, Counted, ByCaller, InPool, Queued
<1> QED
  BY <1>1, <1>2 DEF RefInv

\* A step that stores nothing keeps what the registers are about to store.
LEMMA RegSame ==
  ASSUME RefInv, TypeInv, UNCHANGED <<work, creq, wreq, reg>>,
         \A c \in Callers : cpc'[c] = "store" => cpc[c] = "store",
         \A w \in Workers : wpc'[w] = "store" => wpc[w] = "store"
  PROVE  RegInv'
BY DEF RefInv, RegInv, ByCaller, InPool, Queued

\* A request that is appended is in the queue, and the others are where they were
LEMMA Queueing ==
  ASSUME ReadTypeOK, NEW r \in Requests, work' = Append(work, r)
  PROVE  /\ Queued' = Queued \cup {r}
         /\ r \notin Queued /\ (\A i, j \in DOMAIN work : work[i] = work[j] => i = j)
              => \A i, j \in DOMAIN work' : work'[i] = work'[j] => i = j
<1>1. work \in Seq(Requests) /\ Len(work) \in Nat /\ DOMAIN work = 1..Len(work)
  BY DEF ReadTypeOK
<1>2. /\ DOMAIN work' = 1..(Len(work) + 1)
      /\ \A i \in DOMAIN work' : work'[i] = IF i <= Len(work) THEN work[i] ELSE r
  BY <1>1
<1>3. Queued' = Queued \cup {r}
  BY <1>1, <1>2 DEF Queued
<1>4. ASSUME r \notin Queued, \A i, j \in DOMAIN work : work[i] = work[j] => i = j
      PROVE  \A i, j \in DOMAIN work' : work'[i] = work'[j] => i = j
  BY <1>1, <1>2, <1>4 DEF Queued
<1> QED
  BY <1>3, <1>4

\* The first request leaves the queue, in which it is once
LEMMA Dequeueing ==
  ASSUME ReadTypeOK, work # <<>>, work' = Tail(work),
         \A i, j \in DOMAIN work : work[i] = work[j] => i = j
  PROVE  /\ Queued' = Queued \ {Head(work)} /\ Head(work) \in Queued
         /\ \A i, j \in DOMAIN work' : work'[i] = work'[j] => i = j
<1>1. work \in Seq(Requests) /\ Len(work) \in Nat \ {0} /\ DOMAIN work = 1..Len(work)
  BY DEF ReadTypeOK
<1>2. Head(work) = work[1] /\ 1 \in DOMAIN work
  BY <1>1
<1>3. /\ DOMAIN work' = 1..(Len(work) - 1)
      /\ \A i \in DOMAIN work' : work'[i] = work[i + 1] /\ i + 1 \in DOMAIN work
  BY <1>1
<1>4. \A i, j \in DOMAIN work' : work'[i] = work'[j] => i = j
  <2> SUFFICES ASSUME NEW i \in DOMAIN work', NEW j \in DOMAIN work', work'[i] = work'[j]
               PROVE  i = j
    OBVIOUS
  <2>1. i + 1 = j + 1
    BY <1>3
  <2> QED
    BY <1>1, <1>3, <2>1
<1>5. \A i \in DOMAIN work : i = 1 \/ (i - 1 \in DOMAIN work' /\ work'[i - 1] = work[i])
  BY <1>1, <1>3
<1>6. \A i \in DOMAIN work' : work'[i] # Head(work)
  BY <1>1, <1>2, <1>3
<1>7. Head(work) \in Queued
  BY <1>2 DEF Queued
<1>8. Queued' \subseteq Queued \ {Head(work)}
  BY <1>3, <1>6 DEF Queued
<1>9. ASSUME NEW q \in Queued, q # Head(work) PROVE q \in Queued'
  <2>1. PICK i \in DOMAIN work : work[i] = q
    BY DEF Queued
  <2> QED
    BY <1>2, <1>5, <2>1, <1>9 DEF Queued
<1> QED
  BY <1>4, <1>7, <1>8, <1>9

\* The steps of a caller: a new request is of its caller and of the queue alone
LEMMA CallerRef ==
  ASSUME TypeInv, RefInv, NEW c \in Callers,
         Connect(c) \/ Disconnect(c) \/ StartRequest(c) \/ CallGoesOn(c)
  PROVE  RefInv'
<1> USE DEF TypeInv
<1>1. CASE Connect(c) \/ Disconnect(c) \/ SetDoWork(c) \/ Answered(c) \/ TimesOut(c)
  <2>1. UNCHANGED <<work, creq, wreq, req, reg, wpc>>
    BY <1>1 DEF Connect, Disconnect, SetDoWork, Answered, TimesOut
  <2>2. \A d \in Callers : cpc'[d] = "store" => cpc[d] = "store"
    BY <1>1 DEF Connect, Disconnect, SetDoWork, Answered, TimesOut, ReadTypeOK
  <2>3. RegInv'
    BY <2>1, <2>2, RegSame
  <2> QED
    BY <2>1, <2>3, RefSame DEF ReadTypeOK
<1>2. CASE StartRequest(c)
  <2>1. PICK r \in Requests :
          /\ req[r] = Deleted /\ req' = [req EXCEPT ![r] = New(sock[c])]
          /\ creq' = [creq EXCEPT ![c] = r] /\ work' = Append(work, r)
    BY <1>2 DEF StartRequest
  <2>2. ~ByCaller(r) /\ ~InPool(r)
    BY <2>1 DEF RefInv, Counted, Deleted
  <2>3. Queued' = Queued \cup {r} /\ \A i, j \in DOMAIN work' : work'[i] = work'[j] => i = j
    BY <2>1, <2>2, Queueing DEF RefInv, OneHolderEach, InPool
  <2>4. UNCHANGED <<wreq, reg>> /\ creq[c] = NULL /\ r # NULL
    BY <1>2, ReadPoolConstants DEF StartRequest, HoldInv
  <2>5. req'[r].rc = 2 /\ \A q \in Requests \ {r} : req'[q] = req[q]
    BY <2>1, NewType DEF ReadTypeOK
  <2>6. \A q : (ByCaller(q)' => ByCaller(q) \/ q = r) /\ (InPool(q)' => InPool(q) \/ q = r)
    BY <2>1, <2>3, <2>4 DEF ByCaller, InPool, ReadTypeOK
  <2>7. OneHolderEach'
    <3>1. \A d, e \in Callers : creq'[d] = creq'[e] /\ creq'[d] # NULL => d = e
      BY <2>1, <2>2 DEF RefInv, OneHolderEach, ByCaller, ReadTypeOK
    <3>2. \A w \in Workers : wreq'[w] \notin Queued'
      BY <2>2, <2>3, <2>4 DEF RefInv, OneHolderEach, InPool
    <3> QED
      BY <2>3, <2>4, <3>1, <3>2 DEF RefInv, OneHolderEach
  <2>8. Counted'
    BY <2>5, <2>6 DEF RefInv, Counted
  <2>9. /\ \A d \in Callers : cpc'[d] = "store" => cpc[d] = "store" /\ d # c
        /\ \A w \in Workers : wpc'[w] = "store" => wpc[w] = "store"
    BY <1>2 DEF StartRequest, ReadTypeOK
  <2>10. RegInv'
    <3>1. ASSUME NEW d \in Callers, cpc'[d] = "store"
          PROVE  reg'[d] \in 1..2 /\ (InPool(creq[d])' => reg'[d] = 2)
      <4>1. cpc[d] = "store" /\ creq'[d] = creq[d] /\ creq[d] # r
        BY <2>1, <2>2, <2>9, <3>1 DEF ByCaller, ReadTypeOK
      <4>2. InPool(creq[d])' => InPool(creq[d])
        BY <2>3, <2>4, <4>1 DEF InPool
      <4> QED
        BY <2>4, <4>1, <4>2 DEF RefInv, RegInv
    <3>2. ASSUME NEW w \in Workers, wpc'[w] = "store"
          PROVE  reg'[w] \in 1..2 /\ (ByCaller(wreq[w])' => reg'[w] = 2)
      <4>1. wpc[w] = "store" /\ wreq'[w] = wreq[w] /\ wreq[w] # r
        BY <2>2, <2>4, <2>9, <3>2 DEF InPool
      <4>2. ByCaller(wreq[w])' => ByCaller(wreq[w])
        BY <2>1, <4>1 DEF ByCaller, ReadTypeOK
      <4> QED
        BY <2>4, <4>1, <4>2 DEF RefInv, RegInv
    <3> QED
      BY <3>1, <3>2 DEF RegInv
  <2> QED
    BY <2>7, <2>8, <2>10 DEF RefInv
<1>3. CASE CallerLoads(c)
  <2>1. creq[c] \in Requests /\ c \in Threads /\ ByCaller(creq[c])
    BY <1>3 DEF CallerLoads, HoldInv, ReadTypeOK, Threads, ByCaller
  <2>2. UNCHANGED <<work, creq, wreq, wpc, req>> /\ reg' = [reg EXCEPT ![c] = req[creq[c]].rc]
    BY <1>3 DEF CallerLoads, Load
  <2>3. req[creq[c]].rc \in 1..2 /\ (InPool(creq[c]) => req[creq[c]].rc = 2)
    BY <2>1 DEF RefInv, Counted
  <2>4. \A d \in Callers : cpc'[d] = "store" => d = c \/ cpc[d] = "store"
    BY <1>3 DEF CallerLoads, ReadTypeOK
  <2>5. reg'[c] = req[creq[c]].rc /\ \A t \in Threads \ {c} : reg'[t] = reg[t]
    BY <2>1, <2>2 DEF ReadTypeOK
  <2>6. \A r : (ByCaller(r)' <=> ByCaller(r)) /\ (InPool(r)' <=> InPool(r))
    BY <2>2 DEF ByCaller, InPool, Queued
  <2>7. RegInv'
    BY <2>2, <2>3, <2>4, <2>5, <2>6, ReadPoolConstants DEF RefInv, RegInv, Threads
  <2> QED
    BY <2>2, <2>7, RefSame DEF ReadTypeOK
<1>4. CASE CallerStores(c)
  <2>0. PICK r \in Requests : r = creq[c]
    BY <1>4, ReadPoolConstants DEF CallerStores, HoldInv, ReadTypeOK
  <2>1. r = creq[c] /\ c \in Threads /\ ByCaller(r) /\ r # NULL
    BY <1>4, <2>0, ReadPoolConstants DEF CallerStores, HoldInv, ReadTypeOK, Threads, ByCaller
  <2>2. /\ UNCHANGED <<work, wreq, wpc>> /\ reg' = [reg EXCEPT ![c] = 0]
        /\ creq' = [creq EXCEPT ![c] = NULL] /\ cpc' = [cpc EXCEPT ![c] = "idle"]
    BY <1>4 DEF CallerStores
  <2>3. reg[c] \in 1..2 /\ (InPool(r) => reg[c] = 2)
    BY <1>4, <2>1 DEF CallerStores, RefInv, RegInv
  <2>4. ~ByCaller(r)'
    BY <2>1, <2>2 DEF RefInv, OneHolderEach, ByCaller, ReadTypeOK
  <2>5. \A q \in Requests : (ByCaller(q)' => ByCaller(q) /\ q # r) /\ (InPool(q)' <=> InPool(q))
    <3>1. \A q \in Requests : ByCaller(q)' => ByCaller(q)
      BY <2>2, ReadPoolConstants DEF ByCaller, ReadTypeOK
    <3> QED
      BY <2>2, <2>4, <3>1 DEF InPool, Queued
  <2>6. \A q \in Requests \ {r} : req'[q] = req[q]
    BY <1>4, <2>1 DEF CallerStores, Store, ReadTypeOK
  <2>7. InPool(r) => req'[r].rc = 1
    BY <1>4, <2>1, <2>3 DEF CallerStores, Store, ReadTypeOK, Request
  <2>8. OneHolderEach'
    <3>1. \A d, e \in Callers : creq'[d] = creq'[e] /\ creq'[d] # NULL => d = e
      BY <2>2 DEF RefInv, OneHolderEach, ReadTypeOK
    <3> QED
      BY <2>2, <3>1 DEF RefInv, OneHolderEach, Queued
  <2>9. Counted'
    BY <2>4, <2>5, <2>6, <2>7 DEF RefInv, Counted
  <2>10. RegInv'
    <3>1. ASSUME NEW d \in Callers, cpc'[d] = "store"
          PROVE  reg'[d] \in 1..2 /\ (InPool(creq[d])' => reg'[d] = 2)
      <4>1. d # c /\ cpc[d] = "store" /\ creq'[d] = creq[d] /\ reg'[d] = reg[d]
        BY <2>2, <3>1 DEF ReadTypeOK, Threads
      <4> QED
        BY <2>2, <4>1 DEF RefInv, RegInv, InPool, Queued
    <3>2. ASSUME NEW w \in Workers, wpc'[w] = "store"
          PROVE  reg'[w] \in 1..2 /\ (ByCaller(wreq[w])' => reg'[w] = 2)
      <4>1. wpc[w] = "store" /\ wreq'[w] = wreq[w] /\ reg'[w] = reg[w] /\ wreq[w] \in Requests
        BY <2>2, <3>2, ReadPoolConstants DEF ReadTypeOK, Threads, HoldInv
      <4>2. ByCaller(wreq[w])' => ByCaller(wreq[w])
        BY <2>5, <4>1
      <4> QED
        BY <4>1, <4>2 DEF RefInv, RegInv
    <3> QED
      BY <3>1, <3>2 DEF RegInv
  <2> QED
    BY <2>8, <2>9, <2>10 DEF RefInv
<1> QED
  BY <1>1, <1>2, <1>3, <1>4 DEF CallGoesOn

\* The steps of a pool thread: the request it takes leaves the queue
LEMMA WorkerRef ==
  ASSUME TypeInv, RefInv, NEW w \in Workers,
         IdleTimeout(w) \/ RecvReturns(w) \/ WorkGoesOn(w), TypeInv'
  PROVE  RefInv'
<1> USE DEF TypeInv, Goto
<1>1. CASE \/ IdleTimeout(w) \/ Wake(w) \/ LetGo(w) \/ RecvBegins(w) \/ RecvReturns(w)
           \/ SetFinished(w) \/ Back(w)
  <2>1. UNCHANGED <<work, creq, wreq, reg, cpc>>
    BY <1>1 DEF IdleTimeout, Wake, LetGo, RecvBegins, RecvReturns, SetFinished, Back
  <2>2. \A v \in Workers : wpc'[v] = "store" => wpc[v] = "store"
    BY <1>1 DEF IdleTimeout, Wake, LetGo, RecvBegins, RecvReturns, SetFinished, Back, ReadTypeOK
  <2>3. \A r \in Requests : req'[r].rc = req[r].rc
    <3>1. CASE RecvReturns(w) \/ SetFinished(w)
      BY <3>1 DEF RecvReturns, SetFinished, ReadTypeOK, Request
    <3>2. CASE IdleTimeout(w) \/ Wake(w) \/ LetGo(w) \/ RecvBegins(w) \/ Back(w)
      BY <3>2 DEF IdleTimeout, Wake, LetGo, RecvBegins, Back
    <3> QED
      BY <1>1, <3>1, <3>2
  <2>4. RegInv'
    BY <2>1, <2>2, RegSame
  <2> QED
    BY <2>1, <2>3, <2>4, RefSame DEF ReadTypeOK
<1>2. CASE Take(w)
  <2>1. PICK r \in Requests : r = Head(work) /\ r # NULL
    BY <1>2, ReadPoolConstants DEF Take, ReadTypeOK
  <2>2. /\ UNCHANGED <<creq, cpc, req, reg>> /\ wreq' = [wreq EXCEPT ![w] = r]
        /\ wpc' = [wpc EXCEPT ![w] = "taken"] /\ wreq[w] = NULL
    BY <1>2, <2>1 DEF Take, HoldInv
  <2>3. /\ Queued' = Queued \ {r} /\ r \in Queued
        /\ \A i, j \in DOMAIN work' : work'[i] = work'[j] => i = j
    BY <1>2, <2>1, Dequeueing DEF Take, RefInv, OneHolderEach
  <2>4. \A v \in Workers : wreq[v] # r
    BY <2>3 DEF RefInv, OneHolderEach
  <2>5. \A q \in Requests : (ByCaller(q)' <=> ByCaller(q)) /\ (InPool(q)' => InPool(q))
    BY <2>2, <2>3 DEF ByCaller, InPool, ReadTypeOK
  <2>6. OneHolderEach'
    <3>1. \A u, v \in Workers : wreq'[u] = wreq'[v] /\ wreq'[u] # NULL => u = v
      BY <2>2, <2>4 DEF RefInv, OneHolderEach, ReadTypeOK
    <3>2. \A v \in Workers : wreq'[v] \notin Queued'
      BY <2>2, <2>3 DEF RefInv, OneHolderEach, ReadTypeOK
    <3> QED
      BY <2>2, <2>3, <3>1, <3>2 DEF RefInv, OneHolderEach
  <2>7. Counted'
    BY <2>2, <2>5 DEF RefInv, Counted
  <2>8. RegInv'
    <3>1. ASSUME NEW c \in Callers, cpc'[c] = "store"
          PROVE  reg'[c] \in 1..2 /\ (InPool(creq[c])' => reg'[c] = 2)
      <4>1. cpc[c] = "store" /\ creq'[c] = creq[c] /\ reg'[c] = reg[c] /\ creq[c] \in Requests
        BY <2>2, <3>1 DEF HoldInv, ReadTypeOK
      <4>2. InPool(creq[c])' => InPool(creq[c])
        BY <2>2, <2>5, <4>1
      <4> QED
        BY <4>1, <4>2 DEF RefInv, RegInv
    <3>2. ASSUME NEW v \in Workers, wpc'[v] = "store"
          PROVE  reg'[v] \in 1..2 /\ (ByCaller(wreq[v])' => reg'[v] = 2)
      <4>1. v # w /\ wpc[v] = "store" /\ wreq'[v] = wreq[v] /\ reg'[v] = reg[v]
        BY <2>2, <3>2 DEF ReadTypeOK
      <4> QED
        BY <2>2, <4>1 DEF RefInv, RegInv, ByCaller
    <3> QED
      BY <3>1, <3>2 DEF RegInv
  <2> QED
    BY <2>6, <2>7, <2>8 DEF RefInv
<1>3. CASE WorkerLoads(w)
  <2>1. wreq[w] \in Requests /\ w \in Threads /\ InPool(wreq[w])
    BY <1>3 DEF WorkerLoads, HoldInv, ReadTypeOK, Threads, InPool
  <2>2. UNCHANGED <<work, creq, wreq, cpc, req>> /\ reg' = [reg EXCEPT ![w] = req[wreq[w]].rc]
    BY <1>3 DEF WorkerLoads, Load
  <2>3. req[wreq[w]].rc \in 1..2 /\ (ByCaller(wreq[w]) => req[wreq[w]].rc = 2)
    BY <2>1 DEF RefInv, Counted
  <2>4. \A v \in Workers : wpc'[v] = "store" => v = w \/ wpc[v] = "store"
    BY <1>3 DEF WorkerLoads, ReadTypeOK
  <2>5. reg'[w] = req[wreq[w]].rc /\ \A t \in Threads \ {w} : reg'[t] = reg[t]
    BY <2>1, <2>2 DEF ReadTypeOK
  <2>6. \A r : (ByCaller(r)' <=> ByCaller(r)) /\ (InPool(r)' <=> InPool(r))
    BY <2>2 DEF ByCaller, InPool, Queued
  <2>7. RegInv'
    BY <2>2, <2>3, <2>4, <2>5, <2>6, ReadPoolConstants DEF RefInv, RegInv, Threads
  <2> QED
    BY <2>2, <2>7, RefSame DEF ReadTypeOK
<1>4. CASE WorkerStores(w)
  <2>0. PICK r \in Requests : r = wreq[w]
    BY <1>4, ReadPoolConstants DEF WorkerStores, HoldInv, ReadTypeOK
  <2>1. r = wreq[w] /\ w \in Threads /\ InPool(r) /\ r # NULL
    BY <1>4, <2>0, ReadPoolConstants DEF WorkerStores, HoldInv, ReadTypeOK, Threads, InPool
  <2>2. /\ UNCHANGED <<work, creq, cpc>> /\ reg' = [reg EXCEPT ![w] = 0]
        /\ wreq' = [wreq EXCEPT ![w] = NULL] /\ wpc' = [wpc EXCEPT ![w] = "back"]
    BY <1>4 DEF WorkerStores
  <2>3. reg[w] \in 1..2 /\ (ByCaller(r) => reg[w] = 2)
    BY <1>4, <2>1 DEF WorkerStores, RefInv, RegInv
  <2>4. ~InPool(r)'
    <3>1. r \notin Queued'
      BY <2>1, <2>2 DEF RefInv, OneHolderEach, Queued
    <3>2. \A v \in Workers : wreq'[v] # r
      BY <2>1, <2>2 DEF RefInv, OneHolderEach, ReadTypeOK
    <3> QED
      BY <3>1, <3>2 DEF InPool
  <2>5. \A q \in Requests : (InPool(q)' => InPool(q) /\ q # r) /\ (ByCaller(q)' <=> ByCaller(q))
    <3>1. \A q \in Requests : InPool(q)' => InPool(q)
      BY <2>2, ReadPoolConstants DEF InPool, Queued, ReadTypeOK
    <3> QED
      BY <2>2, <2>4, <3>1 DEF ByCaller
  <2>6. \A q \in Requests \ {r} : req'[q] = req[q]
    BY <1>4, <2>1 DEF WorkerStores, Store, ReadTypeOK
  <2>7. ByCaller(r) => req'[r].rc = 1
    BY <1>4, <2>1, <2>3 DEF WorkerStores, Store, ReadTypeOK, Request
  <2>8. OneHolderEach'
    <3>1. \A u, v \in Workers : wreq'[u] = wreq'[v] /\ wreq'[u] # NULL => u = v
      BY <2>2 DEF RefInv, OneHolderEach, ReadTypeOK
    <3>2. Queued' = Queued /\ NULL \notin Queued
      BY <2>2, ReadPoolConstants DEF Queued, ReadTypeOK
    <3>3. \A v \in Workers : wreq'[v] \notin Queued'
      BY <2>2, <3>2 DEF RefInv, OneHolderEach, ReadTypeOK
    <3> QED
      BY <2>2, <3>1, <3>3 DEF RefInv, OneHolderEach
  <2>9. Counted'
    BY <2>4, <2>5, <2>6, <2>7 DEF RefInv, Counted
  <2>10. RegInv'
    <3>1. ASSUME NEW v \in Workers, wpc'[v] = "store"
          PROVE  reg'[v] \in 1..2 /\ (ByCaller(wreq[v])' => reg'[v] = 2)
      <4>1. v # w /\ wpc[v] = "store" /\ wreq'[v] = wreq[v] /\ reg'[v] = reg[v]
        BY <2>2, <3>1 DEF ReadTypeOK, Threads
      <4> QED
        BY <2>2, <4>1 DEF RefInv, RegInv, ByCaller
    <3>2. ASSUME NEW c \in Callers, cpc'[c] = "store"
          PROVE  reg'[c] \in 1..2 /\ (InPool(creq[c])' => reg'[c] = 2)
      <4>1. cpc[c] = "store" /\ creq'[c] = creq[c] /\ reg'[c] = reg[c] /\ creq[c] \in Requests
        BY <2>2, <3>2, ReadPoolConstants DEF ReadTypeOK, Threads, HoldInv
      <4>2. InPool(creq[c])' => InPool(creq[c])
        BY <2>2, <2>5, <4>1
      <4> QED
        BY <4>1, <4>2 DEF RefInv, RegInv
    <3> QED
      BY <3>1, <3>2 DEF RegInv
  <2> QED
    BY <2>8, <2>9, <2>10 DEF RefInv
<1> QED
  BY <1>1, <1>2, <1>3, <1>4 DEF WorkGoesOn
-----------------------------------------------------------------------------
\* The combined invariant: each part needs the others.  The types need the counts, to
\* decrement them, the counts of the threads need to know where they are, and the
\* references need the types.
LEMMA PoolInvariant == ReadSpec => []PoolInv
<1>1. ReadInit => PoolInv
  BY InitTypeInv, InitCountInv, InitRefInv DEF PoolInv
<1>2. PoolInv /\ [ReadNext]_readVars => PoolInv'
  <2> SUFFICES ASSUME PoolInv, [ReadNext]_readVars PROVE PoolInv'
    OBVIOUS
  <2>1. ASSUME NEW c \in Callers,
               Connect(c) \/ Disconnect(c) \/ StartRequest(c) \/ CallGoesOn(c)
        PROVE  PoolInv'
    BY <2>1, CallerType, CallerCount, CallerRef DEF PoolInv, RefInv
  <2>2. ASSUME NEW w \in Workers, IdleTimeout(w) \/ RecvReturns(w) \/ WorkGoesOn(w)
        PROVE  PoolInv'
    <3>1. TypeInv'
      BY <2>2, WorkerType DEF PoolInv, RefInv, CountInv
    <3> QED
      BY <2>2, <3>1, WorkerCount, WorkerRef DEF PoolInv
  <2>3. CASE UNCHANGED readVars
    BY <2>3 DEF readVars, PoolInv, TypeInv, ReadTypeOK, HoldInv, CountInv, AvailExact, Available,
                WakeFindsWork, Woken, Unsignalled, RefInv, OneHolderEach, Counted, RegInv,
                ByCaller, InPool, Queued
  <2> QED
    BY <2>1, <2>2, <2>3 DEF ReadNext
<1> QED
  BY <1>1, <1>2, PTL DEF ReadSpec

\* Every variable of the pool has its type in every state, the reference counts between 0
\* and 2 included, with the decrements of Release() split in two.
THEOREM PoolTypeCorrect == ReadSpec => []ReadTypeOK
<1>1. PoolInv => ReadTypeOK
  BY DEF PoolInv, TypeInv
<1> QED
  BY <1>1, PoolInvariant, PTL

\* m_availableThreads is the number of threads that wait for work or are about to take it,
\* for any number of threads and callers.
THEOREM PoolCounts == ReadSpec => []AvailExact
<1>1. PoolInv => AvailExact
  BY DEF PoolInv, CountInv
<1> QED
  BY <1>1, PoolInvariant, PTL

\* Whoever wakes finds a request: an auto-reset event that loses signals never promises
\* more than m_work holds.
THEOREM PoolWakes == ReadSpec => []WakeFindsWork
<1>1. PoolInv => WakeFindsWork
  BY DEF PoolInv, CountInv
<1> QED
  BY <1>1, PoolInvariant, PTL

\* Release() without a lock never deletes a ReadRequest that the other holder still has.
THEOREM PoolReferences == ReadSpec => []NoUseAfterFree
<1>1. PoolInv => NoUseAfterFree
  <2> SUFFICES ASSUME PoolInv, NEW r \in Held \ {NULL} PROVE req[r].rc > 0
    BY DEF NoUseAfterFree
  <2>1. r \in Requests /\ (ByCaller(r) \/ InPool(r))
    BY DEF Held, ByCaller, InPool, Queued, PoolInv, TypeInv, ReadTypeOK
  <2>2. req[r].rc \in 1..2
    BY <2>1 DEF PoolInv, RefInv, Counted
  <2> QED
    BY <2>2
<1> QED
  BY <1>1, PoolInvariant, PTL
=============================================================================
