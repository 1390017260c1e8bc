---------------------------- MODULE HttpExchange ----------------------------
(***************************************************************************)
(* One CHTTPTransport from Send() to the response (HTTPTransport.cpp): the *)
(* request built, the body sent after it, 100 Continue, redirects and      *)
(* authentication, which send the request again from inside Response(),    *)
(* and the cookies they bring.                                             *)
(*                                                                         *)
(* The connection is what ConnectionPool shows it to be: one of this       *)
(* request's own, without anything unread.  The retry loop of Send() sends *)
(* the same first packet again, so it is one step here.  A URL is valid; a *)
(* path is a sequence of characters that starts with "/".                  *)
(***************************************************************************)
EXTENDS Integers, Sequences, FiniteSets

CONSTANTS
  Sites,             \* [host, port]: with the scheme, where a URL leads to
  TlsSites,          \* the sites spoken to over TLS
  Urls,              \* [site, path]: where the application sends requests
  Bodies,            \* sizes of request bodies
  AppCookies,        \* cookies the application may set
  Replies,           \* what servers answer (see Responses)
  MAX_REDIRECTS,     \* m_maxRedirects
  REDIRECT_ON_POST,  \* m_redirectOnPost
  BUFF_SIZE,         \* PH_BUFFER_SIZE
  BASE_SIZE,         \* size of the headers that every request has
  MaxContinues,      \* bound: how often a server sends 100 Continue
  NONE

ASSUME ExchangeConstants ==
  /\ Bodies \subseteq Nat
  /\ MAX_REDIRECTS \in 0..100 /\ REDIRECT_ON_POST \in BOOLEAN
  /\ BUFF_SIZE \in Nat \ {0} /\ BASE_SIZE \in Nat /\ MaxContinues \in Nat
  /\ NONE \notin Bodies /\ NONE \notin {"open", "broken"}

VARIABLES
  site, path,     \* m_server with m_port and m_ssl; m_uri
  post,           \* m_method is POST
  creds,          \* the credentials set: a subset of {"server", "proxy"}
  body, pos,      \* m_requestBody: its size, and how much was read from it
  cookies,        \* m_cookies
  dirty,          \* m_cookiesDirty
  headers,        \* m_szHeaders
  redirects,      \* m_redirects
  authDepth,      \* m_authDepth
  conn,           \* m_connection: NONE, "open", or "broken" (no socket)
  decoder,        \* m_tfrDecoder is set
  pc,             \* where the call in progress is, "app" when there is none,
                  \* "crashed" after a call through a NULL m_requestBody
  call,           \* that call: "send" or "response"
  cb,             \* cb of Send(): what the last read from the body gave
  owes,           \* the server has not answered a request that may be answered yet
  wire,           \* history: that request as the server has it, or NONE;
                  \* cut: the rest of it never comes
  continues,      \* number of 100 Continue it sent
  sends,          \* history: requests sent since the application's Send
  result,         \* history: what the last call returned
  failed          \* history: a call since the application's Send, or it, failed

request == <<site, path, post, creds, cookies>>
counters == <<redirects, authDepth, sends>>
server == <<wire, owes, continues>>
outcome == <<result, failed>>
vars == <<site, path, post, creds, body, pos, cookies, dirty, headers,
          redirects, authDepth, conn, decoder, pc, call, cb, wire, owes,
          continues, sends, result, failed>>

Least(a, b) == IF a < b THEN a ELSE b
-----------------------------------------------------------------------------
(* Cookies *)

\* The characters of p before its last slash
LastSlash(p) == CHOOSE i \in DOMAIN p : p[i] = "/" /\ \A j \in i+1..Len(p) : p[j] # "/"
Dir(p) == SubSeq(p, 1, LastSlash(p))

\* AddOrSetCookie: c replaces the cookie of its name and domain
WithCookie(C, c) == {d \in C : d.name # c.name \/ d.domain # c.domain} \cup {c}

\* A cookie that a response sets without a domain or a path gets the request's
Received(c) ==
  [c EXCEPT !.domain = IF @ = NONE THEN site.host ELSE @,
            !.path   = IF @ = <<>> THEN Dir(path) ELSE @]

\* ExtractCookies of a response that sets the cookies S (one or none)
Extracted(S) ==
  IF S = {} THEN cookies ELSE WithCookie(cookies, Received(CHOOSE c \in S : TRUE))

\* AddCookieHeaders: the cookies sent to path p of site s.  A path of a cookie
\* is compared up to the request's last slash only.
Applicable(C, s, p) ==
  {c \in C : LET k == Least(Len(c.path), LastSlash(p) - 1)
             IN c.domain = s.host /\ SubSeq(p, 1, k) = SubSeq(c.path, 1, k)}
-----------------------------------------------------------------------------
(* Requests *)

\* BuildHeaders; the form of the request line is left out
Build(s, p, n, C) ==
  [site |-> s, path |-> p, length |-> n, cookies |-> Applicable(C, s, p)]

\* The size of the whole header block, with the credentials after it
Size(h) == BASE_SIZE + Cardinality(h.cookies) + Cardinality(creds)

\* m_requestBody->Read for at most n bytes: the sizes it may return
Reads(n) ==
  LET most == Least(n, body - pos) IN IF most = 0 THEN {0} ELSE 1..most

\* The call in progress returns.  Receive releases the body however it ends.
Ends(r) ==
  /\ pc' = "app" /\ call' = "none" /\ cb' = 0
  /\ result' = r
  /\ failed' = (failed \/ r \in {"error", "toomany"})
  /\ IF call = "response" THEN body' = NONE /\ pos' = 0 ELSE UNCHANGED <<body, pos>>

\* No answer can come any more
GivesUp == owes' = FALSE /\ wire' = NONE /\ continues' = 0

\* IHttpRequestSplit::Send up to SendInit's Send(): the body is at its start,
\* its size known
Send ==
  /\ pc = "app"
  /\ \E u \in Urls, n \in Bodies, b \in BOOLEAN :
       /\ site' = u.site /\ path' = u.path /\ body' = n /\ post' = b
       /\ headers' = Build(u.site, u.path, n, cookies)
  /\ pos' = 0
  /\ redirects' = 0 /\ authDepth' = 0 /\ sends' = 0
  /\ dirty' = FALSE
  /\ decoder' = FALSE
  /\ pc' = "start" /\ call' = "send"
  /\ result' = "none" /\ failed' = FALSE
  /\ UNCHANGED <<creds, cookies, conn, cb, server>>

\* Mutant of Current: the headers are those that Send built
BugCurrent == headers

\* The headers with the cookies that came since they were built
Current == IF dirty THEN Build(site, path, body, cookies) ELSE headers

\* CHTTPTransport::Send up to its loop: what the buffer has left after the
\* headers is filled with the start of the body
StartSend ==
  /\ pc = "start"
  /\ headers' = Current
  /\ dirty' = FALSE
  /\ IF Size(Current) > BUFF_SIZE
     THEN Ends("error")
     ELSE /\ \E k \in Reads(BUFF_SIZE - Size(Current)) : cb' = k /\ pos' = pos + k
          /\ pc' = "first"
          /\ UNCHANGED <<body, call, outcome>>
  /\ UNCHANGED <<request, conn, decoder, counters, server>>

\* The loop of Send(): it ends with the first packet sent, or with an error
FirstPacket ==
  /\ pc = "first"
  /\ conn' = "open"
  /\ wire' = [headers |-> headers, size |-> body, got |-> cb, cut |-> FALSE]
  /\ owes' = TRUE /\ continues' = 0
  /\ sends' = sends + 1
  /\ pc' = "more"
  /\ UNCHANGED <<request, body, pos, dirty, headers, redirects, authDepth, decoder,
                 call, cb, outcome>>

\* One turn of the loop over the rest of the body, or its end
MoreBody ==
  /\ pc = "more"
  /\ IF cb > 0
     THEN /\ \E k \in Reads(BUFF_SIZE) :
               cb' = k /\ pos' = pos + k /\ wire' = [wire EXCEPT !.got = @ + k]
          /\ UNCHANGED <<pc, call, outcome, body>>
     ELSE /\ UNCHANGED wire
          /\ IF call = "send" THEN Ends("sent")
             ELSE pc' = "headers" /\ UNCHANGED <<body, pos, call, cb, outcome>>
  /\ UNCHANGED <<request, dirty, headers, counters, conn, decoder, owes, continues>>

\* The body's Read fails: for the first packet, or between two.  The connection
\* stays as it is, in the second case with part of the request sent.
BodyFails ==
  /\ \/ /\ pc = "start" /\ Size(Current) <= BUFF_SIZE
        /\ headers' = Current /\ dirty' = FALSE
        /\ UNCHANGED wire
     \/ /\ pc = "more" /\ cb > 0
        /\ wire' = [wire EXCEPT !.cut = TRUE]
        /\ UNCHANGED <<headers, dirty>>
  /\ Ends("error")
  /\ UNCHANGED <<request, counters, conn, decoder, owes, continues>>

\* Mutant of SendFails: the first packet is tried again on a new connection too
BugSendFails ==
  /\ pc \in {"first", "more"}
  /\ conn' = "broken"
  /\ IF pc = "first" THEN pc' = "start" /\ UNCHANGED <<body, pos, call, cb, outcome>>
     ELSE Ends("error")
  /\ GivesUp
  /\ UNCHANGED <<request, dirty, headers, counters, decoder>>

\* No connection, or SendChunk fails
SendFails ==
  /\ pc \in {"first", "more"}
  /\ conn' = "broken"
  /\ Ends("error") /\ GivesUp
  /\ UNCHANGED <<request, dirty, headers, counters, decoder>>
-----------------------------------------------------------------------------
(* Responses.  A reply has a code: "ok", "bad" (the headers ask for what is *)
(* not supported), or what makes ReceiveImpl send the request again:        *)
(* "redirect", "server" or "proxy" (a challenge).  to is its Location, NONE *)
(* or [site, path], with site NONE for a path alone; basic says whether the *)
(* challenge is exactly "Basic"; set has the cookies it sets.               *)

\* Response()
Response ==
  /\ pc = "app"
  /\ IF conn = "open"
     THEN pc' = "headers" /\ call' = "response" /\ result' = "none" /\ UNCHANGED <<body, pos, failed>>
     ELSE result' = "error" /\ failed' = TRUE /\ body' = NONE /\ pos' = 0 /\ UNCHANGED <<pc, call>>
  /\ UNCHANGED <<request, dirty, headers, counters, conn, decoder, cb, server>>

\* Mutant of Continue: 100 is a response like any other
BugContinue ==
  /\ pc = "headers" /\ owes
  /\ continues < MaxContinues
  /\ continues' = continues + 1
  /\ Ends("ok")
  /\ UNCHANGED <<request, dirty, headers, counters, conn, decoder, wire, owes>>

\* "eat the 100 continue"
Continue ==
  /\ pc = "headers" /\ owes
  /\ continues < MaxContinues
  /\ continues' = continues + 1
  /\ UNCHANGED <<request, body, pos, dirty, headers, counters, conn, decoder, pc, call,
                 cb, wire, owes, outcome>>

\* There is no response to read.  The read fails, which ends the connection; or it
\* gives nothing, or the body of an earlier response, and the connection stays.  A
\* time-out over TLS reads as nothing, and the answer is still to come (SSL_read);
\* otherwise the server has closed its side.
NoResponse ==
  /\ pc = "headers"
  /\ \/ conn' = "broken" /\ GivesUp
     \/ conn' = "open" /\ GivesUp
     \/ conn' = "open" /\ site \in TlsSites /\ UNCHANGED server
  /\ Ends("error")
  /\ UNCHANGED <<request, dirty, headers, counters, decoder>>

\* The headers of r arrive, with its cookies
Arrives(r) ==
  /\ pc = "headers" /\ owes /\ r \in Replies
  /\ cookies' = Extracted(r.set)
  /\ GivesUp
  /\ UNCHANGED <<post, creds, sends>>

\* The response goes to the application, or what its headers ask for is not supported
Answer ==
  /\ \E r \in Replies :
       /\ r.code \in {"ok", "bad"}
       /\ Arrives(r)
       /\ dirty' = (dirty \/ r.set # {})
       /\ IF r.code = "ok" THEN decoder' = TRUE /\ Ends("ok")
                           ELSE decoder' \in {decoder, TRUE} /\ Ends("error")
  /\ UNCHANGED <<site, path, headers, redirects, authDepth, conn>>

\* Mutant of SendAgain: the body is not put back to its start
BugSendAgain ==
  /\ conn' = NONE
  /\ pc' = IF body = NONE THEN "crashed" ELSE "start"
  /\ UNCHANGED <<pos, cb, call, outcome, body>>

\* Disconnect, Reset of the body, Send().  There is no body when an earlier call of
\* Response() has released it.
SendAgain ==
  /\ conn' = NONE
  /\ IF body = NONE THEN pc' = "crashed" /\ UNCHANGED pos
                    ELSE pc' = "start" /\ pos' = 0
  /\ UNCHANGED <<cb, call, outcome, body>>

\* ApplyURI: a URL, a path, or a path relative to the current one
Location(to) ==
  IF to.site # NONE THEN to
  ELSE [site |-> site, path |-> IF to.path[1] = "/" THEN to.path ELSE Dir(path) \o to.path]

\* Why OnRedirect does not follow, n being the redirects so far with this one
Refusal(to, n) ==
  IF post /\ ~REDIRECT_ON_POST THEN "error"
  ELSE IF n >= MAX_REDIRECTS THEN "toomany"
  ELSE IF to = NONE THEN "error"
  ELSE "none"

Redirect ==
  /\ \E r \in Replies :
       LET why == Refusal(r.to, redirects + 1)
           new == Location(r.to)
       IN /\ r.code = "redirect"
          /\ Arrives(r)
          /\ IF why # "none"
             THEN /\ Ends(why)
                  /\ dirty' = (dirty \/ r.set # {})
                  /\ UNCHANGED <<site, path, headers, conn>>
             ELSE /\ site' = new.site /\ path' = new.path
                  /\ headers' = Build(new.site, new.path, body, cookies')
                  /\ dirty' = FALSE
                  /\ SendAgain
  /\ redirects' = redirects + 1
  /\ UNCHANGED <<authDepth, decoder>>

\* Is a challenge answered?
MayAuth(r) == r.basic /\ authDepth <= 1 /\ r.code \in creds

\* OnServerAuth and OnProxyAuth.  The header they build is the one that
\* Authentication() has built already.
Challenge ==
  /\ \E r \in Replies :
       /\ r.code \in {"server", "proxy"}
       /\ Arrives(r)
       /\ dirty' = (dirty \/ r.set # {})
       /\ IF MayAuth(r)
          THEN authDepth' = authDepth + 1 /\ SendAgain
          ELSE Ends("error") /\ UNCHANGED <<authDepth, conn>>
  /\ UNCHANGED <<site, path, headers, redirects, decoder>>
-----------------------------------------------------------------------------
(* The application, between its calls *)

\* It reads the response to its end (TransferDecoder)
ReadBody ==
  /\ pc = "app" /\ decoder /\ conn = "open" /\ result = "ok"
  /\ conn' \in {NONE, "broken"}
  /\ UNCHANGED <<request, body, pos, dirty, headers, counters, decoder, pc, call, cb,
                 server, outcome>>

\* CookieCollection::SetCookie
SetCookie ==
  /\ pc = "app"
  /\ \E c \in AppCookies : cookies' = WithCookie(cookies, c)
  /\ dirty' = TRUE
  /\ UNCHANGED <<site, path, post, creds, body, pos, headers, counters, conn,
                 decoder, pc, call, cb, server, outcome>>

Init ==
  /\ \E u \in Urls : site = u.site /\ path = u.path    \* of no request yet
  /\ post = FALSE
  /\ creds \in SUBSET {"server", "proxy"}
  /\ body = NONE /\ pos = 0 /\ cookies = {} /\ dirty = FALSE
  /\ headers = Build(site, path, 0, {})
  /\ redirects = 0 /\ authDepth = 0 /\ sends = 0
  /\ conn = NONE /\ decoder = FALSE
  /\ pc = "app" /\ call = "none" /\ cb = 0
  /\ wire = NONE /\ owes = FALSE /\ continues = 0
  /\ result = "none" /\ failed = FALSE

CallStep ==
  \/ StartSend \/ FirstPacket \/ MoreBody \/ BodyFails \/ SendFails
  \/ Continue \/ NoResponse \/ Answer \/ Redirect \/ Challenge

\* The application's process has ended
Crashed == pc = "crashed" /\ UNCHANGED vars

Next == Send \/ Response \/ CallStep \/ ReadBody \/ SetCookie \/ Crashed

Spec == Init /\ [][Next]_vars

\* A call goes on: every read and send of it ends by the timeout at the latest
FairSpec == Spec /\ WF_vars(CallStep)
-----------------------------------------------------------------------------
(* Properties *)

TypeOK ==
  /\ site \in Sites /\ path \in Seq({"/", "a", "b"})
  /\ body \in Bodies \cup {NONE} /\ pos \in Nat /\ cb \in Nat
  /\ redirects \in 0..MAX_REDIRECTS + 1 /\ authDepth \in 0..2
  /\ conn \in {NONE, "open", "broken"}
  /\ pc \in {"app", "start", "first", "more", "headers", "crashed"}
  /\ call \in {"none", "send", "response"}
  /\ result \in {"none", "sent", "ok", "error", "toomany"} /\ failed \in BOOLEAN

\* Whenever Send() succeeds, the first time or on behalf of a redirect or a
\* challenge, the server has the whole body and the length announces it (unless
\* the headers fill the buffer to the last byte: then the first read gets no
\* room, returns nothing, and the body is taken to be at its end).  It has less
\* only when the body's own Read failed, and Send() with it.
WholeRequest ==
  owes /\ conn = "open" /\ pc # "more" /\ ~wire.cut /\ Size(wire.headers) < BUFF_SIZE
    => wire.got = wire.size /\ wire.headers.length = wire.size

\* A request goes out with the host and path the redirects led to, and with the
\* cookies that are known and apply there at that moment.
FreshHeaders ==
  pc \in {"first", "more"} => headers = Build(site, path, body, cookies)

\* While an answer is due that may ask to send the request again, no decoder of an
\* earlier response is in its way, and the body is still there: OnRedirect and the
\* challenges call Reset() on it unasked.  They crash only for an application that
\* calls Response() again after a call failed while the answer was still to come.
BodyAtHand ==
  /\ pc = "headers" /\ owes => ~decoder /\ (body # NONE \/ failed)
  /\ pc = "crashed" => failed

\* One Send and Response of the application send the request no more often than
\* the redirects that are followed and two answers to challenges explain.
SendsBounded ==
  sends <= 1 + (IF MAX_REDIRECTS = 0 THEN 0 ELSE MAX_REDIRECTS - 1) + 2

\* Every call returns, whatever the servers answer (or is the one that crashes,
\* which BodyAtHand is about).
CallsReturn == pc # "app" ~> pc \in {"app", "crashed"}
=============================================================================
