------------------------------- MODULE XmlRpc -------------------------------
(***************************************************************************)
(* The XML-RPC client: CStruct, in which an application collects members,  *)
(* CClient::Invoke, which writes the arguments of a call and reads its     *)
(* response, and XmlRpcParser with its stack of deserializers.             *)
(*                                                                         *)
(* XML is a sequence of tags and pieces of text.  A value, on either side, *)
(* is V(kind, n, items): a scalar is known by a number (0 is the empty     *)
(* string and the binary without bytes), the items of an array are a       *)
(* sequence, and a struct's are a function of the members' names.  An      *)
(* application's struct is a reference n to a CStruct object.              *)
(***************************************************************************)
EXTENDS Integers, SequencesExt

CONSTANTS
  Members,      \* the names an application knows, numbers like the strings
  Markup,       \* the strings that have characters to escape
  Values,       \* what it puts into a struct
  Arguments,    \* the lists of arguments it passes
  Answers,      \* the values and faults that servers answer with: see Server
  Layouts,      \* how they write them: see Layout
  MaxOps, MaxCalls

VARIABLES
  structs,      \* the CStruct objects: m_names, m_vals, m_nextId
  meant,        \* what the application put into each of them
  ops, calls,   \* how much it did
  stage,        \* "idle", "sent" or "reading"
  request,      \* the parameters of methodCall
  response,
  at,           \* how much of response was parsed
  failed,       \* whether the last Read gave an error
  answer,       \* what the response stands for
  ps, des, chars,     \* XmlRpcParser: m_ps, m_des, m_chardata
  out           \* what Invoke returned

app == <<structs, meant, ops, calls>>
parser == <<ps, des, chars>>
vars == <<app, stage, request, response, at, failed, answer, parser, out>>
-----------------------------------------------------------------------------
V(k, n, items) == [k |-> k, n |-> n, items |-> items]
EMPTY == V("empty", 0, <<>>)
Scalar(k, n) == V(k, n, <<>>)
Scalars == {"i4", "boolean", "string", "double", "date", "base64"}
FAULT_CODE == 1
FAULT_STRING == 2
WORD == 65536

\* XML: raw text is not escaped.  Expat reports a text in as many pieces as it likes
Open(name) == [t |-> "open", name |-> name, n |-> 0, part |-> 0, raw |-> FALSE]
Close(name) == [Open(name) EXCEPT !.t = "close"]
Piece(k, n, i) == [t |-> "text", name |-> k, n |-> n, part |-> i, raw |-> FALSE]
Blank == Piece("blank", 0, 0)
Text(k, n) == IF k \in {"string", "base64"} /\ n = 0 THEN <<>> ELSE <<Piece(k, n, 1), Piece(k, n, 2)>>
Raw(k, n) == [i \in DOMAIN Text(k, n) |-> [Text(k, n)[i] EXCEPT !.raw = TRUE]]
Element(name, inner) == <<Open(name)>> \o inner \o <<Close(name)>>
WellFormed(xml) == \A i \in DOMAIN xml : ~(xml[i].raw /\ xml[i].n \in Markup)
-----------------------------------------------------------------------------
(* CStruct *)

NewStruct == [names |-> <<>>, vals |-> <<>>, nextId |-> 42]

\* GetIDsOfNames: a name that is looked up is there from then on
GetId(s, name) ==
  IF name \in DOMAIN s.names THEN s
  ELSE [s EXCEPT !.names = @ @@ (name :> s.nextId), !.nextId = @ + 1]

PutValue(s, name, v) ==
  LET known == GetId(s, name) IN [known EXCEPT !.vals = (known.names[name] :> v) @@ @]

\* m_vals[id] makes an entry that is not there
GetValue(s, name) ==
  LET known == GetId(s, name)
      id == known.names[name]
  IN [known EXCEPT !.vals = IF id \in DOMAIN @ THEN @ ELSE @ @@ (id :> EMPTY)]
ValueOf(s, name) == GetValue(s, name).vals[GetValue(s, name).names[name]]

\* A put of the default property, s("name") = v: FindIdFromParams takes the first of the
\* parameters, the new value, for the name, and Invoke then refuses two of them
DefaultPut(s, v) == GetId(s, v.n)
-----------------------------------------------------------------------------
(* SerializeValue *)

\* A mutant: characters are not escaped
BugXmlEnc(n) == Raw("string", n)
XmlEnc(n) == Text("string", n)

SerializeString(v) == Element("value", XmlEnc(v.n))
SerializeInt(v) == Element("value", Element("i4", Raw("i4", v.n)))
SerializeFloat(v) == Element("value", Element("double", Raw("double", v.n)))
SerializeBool(v) == Element("value", Element("boolean", Raw("boolean", v.n)))
SerializeDate(v) == Element("value", Element("dateTime.iso8601", Raw("date", v.n)))
SerializeBase64(v) == Element("value", Element("base64", Raw("base64", v.n)))

RECURSIVE Serializable(_), SerializeValue(_), SerializeObject(_), SerializeArray(_)

\* SerializeValue has no case for other values; an array fails with its first item that
\* does, a struct never
Serializable(v) ==
  \/ v.k \in Scalars \cup {"struct"}
  \/ v.k = "array" /\ \A i \in DOMAIN v.items : Serializable(v.items[i])

\* The items that SerializeArray comes to: all, or as far as the first that fails
Reached(items) ==
  LET bad == {i \in DOMAIN items : ~Serializable(items[i])}
  IN IF bad = {} THEN items ELSE SubSeq(items, 1, CHOOSE i \in bad : \A j \in bad : i <= j)

\* It ends its elements whether or not an item failed
SerializeArray(v) ==
  LET item(w) == SerializeValue(w) \o (IF Serializable(w) THEN <<Blank>> ELSE <<>>)
      items == Reached(v.items)
  IN Element("value", Element("array", Element("data", FlattenSeq([i \in DOMAIN items |-> item(items[i])]))))

\* The members are those of m_names, in their order.  The result of SerializeValue is
\* ignored: of a member that cannot be written there is what was written before it
\* failed, nothing of a scalar and a part of an array.  Names are not escaped.
SerializeObject(v) ==
  LET names == SetToSortSeq(DOMAIN structs[v.n].names, <)
      value(name) == SerializeValue(ValueOf(structs[v.n], name))
      member(name) == Element("member", Element("name", Raw("string", name)) \o <<Blank>> \o value(name))
  IN Element("value", Element("struct",
       <<Blank>> \o FlattenSeq([i \in DOMAIN names |-> member(names[i]) \o <<Blank>>])))

SerializeValue(v) ==
  CASE v.k = "i4"      -> SerializeInt(v)
    [] v.k = "double"  -> SerializeFloat(v)
    [] v.k = "string"  -> SerializeString(v)
    [] v.k = "boolean" -> SerializeBool(v)
    [] v.k = "date"    -> SerializeDate(v)
    [] v.k = "base64"  -> SerializeBase64(v)
    [] v.k = "array"   -> SerializeArray(v)
    [] v.k = "struct"  -> SerializeObject(v)
    [] OTHER           -> <<>>
-----------------------------------------------------------------------------
(* The deserializers *)

Deserializer(class, name) == [class |-> class, name |-> name, val |-> EMPTY, vals |-> <<>>, obj |-> 0]
NoDeserializer == Deserializer("none", "")

\* startElement's choice inside params and fault
ClassOf(name) ==
  CASE name \in {"i4", "int", "boolean", "string", "value", "double", "name"} -> "simple"
    [] name \in {"param", "array"} -> "container"
    [] name = "data"               -> "array"
    [] name = "member"             -> "member"
    [] name = "struct"             -> "struct"
    [] name = "dateTime.iso8601"   -> "date"
    [] name = "base64"             -> "base64"
    [] OTHER                       -> "none"

\* simpleDeserializer::Init
RequiredType(name) ==
  CASE name \in {"i4", "int"} -> "i4" [] name \in {"boolean", "double"} -> name [] OTHER -> "string"

\* What a text is, of which every piece is there
Written(cs) ==
  CASE cs = <<>> -> Scalar("string", 0)
    [] cs # <<>> /\ cs = Text(cs[1].name, cs[1].n) -> Scalar(cs[1].name, cs[1].n)
    [] OTHER -> Scalar("string", -1)

\* Characters.  A simple value of another type than required stays a string; a date
\* needs a time (number 0 has none); white space in a binary does not count.
AsString(text) == IF text.k = "string" THEN text ELSE V("string", text.n, <<text.k>>)
SimpleCharacters(d, cs) ==
  LET text == Written(cs) IN
  IF d.val # EMPTY THEN d
  ELSE [d EXCEPT !.val = IF text.k = RequiredType(d.name) THEN text ELSE AsString(text)]
DateCharacters(d, cs) ==
  IF Written(cs).k = "date" /\ Written(cs).n > 0 THEN [d EXCEPT !.val = Written(cs)] ELSE d
Base64Characters(d, cs) ==
  LET text == Written(SelectSeq(cs, LAMBDA c : c # Blank))
  IN IF text.k = "base64" THEN [d EXCEPT !.val = text] ELSE d

Characters(d, cs) ==
  CASE d.class = "simple" -> SimpleCharacters(d, cs)
    [] d.class = "date"   -> DateCharacters(d, cs)
    [] d.class = "base64" -> Base64Characters(d, cs)
    [] OTHER              -> d

\* Done
Finished(d) ==
  CASE d.class = "array"  -> [d EXCEPT !.val = V("array", 0, d.vals)]
    [] d.class = "struct" -> [d EXCEPT !.val = Scalar("struct", d.obj)]
    [] OTHER              -> d

MemberChild(p, d) ==
  IF d.name = "name" THEN [p EXCEPT !.name = d.val.n] ELSE [p EXCEPT !.val = d.val]

\* Child, but for a struct: a container and a simple value become their child, name and all
Child(p, d) ==
  CASE p.class \in {"simple", "container"} -> [p EXCEPT !.val = d.val, !.name = d.name]
    [] p.class = "array"                   -> [p EXCEPT !.vals = Append(@, d.val)]
    [] p.class = "member"                  -> MemberChild(p, d)
    [] OTHER                               -> p
-----------------------------------------------------------------------------
(* XmlRpcParser *)

Top == des[Len(des)]

StartElement(name) ==
  LET class == IF ps \in {"params", "fault"} THEN ClassOf(name)
               ELSE IF <<ps, name>> \in {<<"begin", "methodResponse">>, <<"response", "params">>, <<"response", "fault">>}
               THEN "container" ELSE "none"
      d == Deserializer(class, IF class \in {"container", "member", "struct"} THEN "" ELSE name)
  IN
  /\ chars' = <<>>
  /\ ps' = CASE ps = "begin" /\ name = "methodResponse" -> "response"
             [] ps = "response" /\ name \in {"params", "fault"} -> name
             [] OTHER -> ps
  /\ structs' = IF class = "struct" THEN Append(structs, NewStruct) ELSE structs
  /\ meant' = IF class = "struct" THEN Append(meant, <<>>) ELSE meant
  /\ des' = Append(des, IF class = "struct" THEN [d EXCEPT !.obj = Len(structs) + 1] ELSE d)

\* A mutant: it is kept
BugErased == chars
\* m_chardata is erased when an element ends
Erased == <<>>

EndElement ==
  LET d == Finished(Characters(Top, chars))
      p == des[Len(des) - 1]
      told == Top.class # "none" /\ p.class # "none"
  IN
  /\ chars' = Erased
  /\ des' = IF told THEN Append(SubSeq(des, 1, Len(des) - 2), Child(p, d)) ELSE Front(des)
  /\ structs' = IF told /\ p.class = "struct" THEN [structs EXCEPT ![p.obj] = PutValue(@, d.name, d.val)]
                ELSE structs
  /\ meant' = IF told /\ p.class = "struct" THEN [meant EXCEPT ![p.obj] = (d.name :> d.val) @@ @]
              ELSE meant
  /\ UNCHANGED ps

CharData(piece) == chars' = Append(chars, [piece EXCEPT !.raw = FALSE]) /\ UNCHANGED <<ps, des, structs, meant>>
-----------------------------------------------------------------------------
(* Servers.  Layout: white space between tags, the name of integers, whether *)
(* strings have a tag of their own, whether a member's name follows its      *)
(* value.  An element the client does not know is a "nil".                   *)

Layout(spaced, int, typed, late) == [spaced |-> spaced, int |-> int, typed |-> typed, late |-> late]
Gap(l) == IF l.spaced THEN <<Blank>> ELSE <<>>
Spread(l, parts) == FlattenSeq([i \in DOMAIN parts |-> Gap(l) \o parts[i]]) \o Gap(l)

TagOf(k, l) ==
  CASE k = "i4" -> l.int [] k = "date" -> "dateTime.iso8601" [] OTHER -> k

RECURSIVE Wire(_, _), Stands(_, _), Put(_), Deep(_)

\* How a server writes v
Wire(v, l) ==
  LET text == Text(v.k, v.n)
      names == SetToSortSeq(DOMAIN v.items, <)
      member(name) == <<Element("name", Text("string", name)), Wire(v.items[name], l)>>
      inner ==
        CASE v.k = "base64" -> Spread(l, [i \in DOMAIN text |-> <<text[i]>>])
          [] v.k = "array"  -> Spread(l, <<Element("data", Spread(l, [i \in DOMAIN v.items |-> Wire(v.items[i], l)]))>>)
          [] v.k = "struct" -> Spread(l, [i \in DOMAIN names |-> Element("member",
                                 Spread(l, IF l.late THEN Reverse(member(names[i])) ELSE member(names[i])))])
          [] OTHER          -> text
  IN IF v.k = "string" /\ ~l.typed THEN Element("value", text)
     ELSE Element("value", Spread(l, <<Element(TagOf(v.k, l), inner)>>))

\* What the application is to make of it: what the client does not know, a binary
\* without bytes and a day without a time are the text that follows them
Stands(v, l) ==
  CASE v \in {Scalar("nil", 0), Scalar("base64", 0), Scalar("date", 0)} ->
         Scalar("string", IF l.spaced THEN -1 ELSE 0)
    [] v.k \in {"array", "struct"} -> [v EXCEPT !.items = [i \in DOMAIN @ |-> Stands(@[i], l)]]
    [] OTHER -> v

\* What the application put into v, and what it finds there; a member that was looked up
\* and never put is empty, as is a scalar that cannot be written, and an array of which
\* an item cannot be written ends before it
Put(v) ==
  CASE v.k = "struct" ->
         V("struct", 0, [name \in DOMAIN structs[v.n].names |->
           IF name \in DOMAIN meant[v.n] THEN Put(meant[v.n][name]) ELSE EMPTY])
    [] v.k = "array" ->
         LET items == SelectSeq(Reached(v.items), LAMBDA w : w.k = "array" \/ Serializable(w))
         IN [v EXCEPT !.items = [i \in DOMAIN items |-> Put(items[i])]]
    [] v.k \notin Scalars \cup {"array", "struct", "nil"} -> EMPTY
    [] OTHER -> Stands(v, Layout(FALSE, "i4", FALSE, FALSE))
Deep(v) ==
  CASE v.k = "struct" ->
         V("struct", 0, [name \in DOMAIN structs[v.n].names |-> Deep(ValueOf(structs[v.n], name))])
    [] v.k = "array" -> [v EXCEPT !.items = [i \in DOMAIN @ |-> Deep(@[i])]]
    [] OTHER -> v

Answer(from, v) == [from |-> from, v |-> v]
Response(from, value, l) ==
  CASE from = "params" -> Element("methodResponse", Spread(l, <<Element("params", Spread(l, <<Element("param", Spread(l, <<value>>))>>))>>))
    [] from = "fault"  -> Element("methodResponse", Spread(l, <<Element("fault", Spread(l, <<value>>))>>))
    [] from = "page"   -> Element("html", Spread(l, <<value>>))
-----------------------------------------------------------------------------
(* The application *)

Outcome(hr, val, code, desc) == [hr |-> hr, val |-> val, code |-> code, desc |-> desc]
Nothing == Outcome("none", EMPTY, 0, 0)

RECURSIVE Refers(_)
Refers(v) == IF v.k = "struct" THEN {v.n} ELSE UNION {Refers(v.items[i]) : i \in DOMAIN v.items}

\* What was local to the last call is gone, and what it gave is if that was no struct
Forgets ==
  /\ out' = IF Refers(out.val) = {} THEN Nothing ELSE out
  /\ request' = <<>> /\ response' = <<>> /\ at' = 0 /\ failed' = FALSE /\ answer' = Answer("none", EMPTY)
  /\ ps' = "begin" /\ des' = <<>> /\ chars' = <<>>

\* No struct is put into itself: SerializeObject would never end
Operate(s, t) ==
  /\ stage \in {"idle", "returned"} /\ ops < MaxOps
  /\ stage' = "idle" /\ ops' = ops + 1
  /\ structs' = [structs EXCEPT ![s] = t]
  /\ Forgets
  /\ UNCHANGED calls

AppPuts == \E s \in DOMAIN structs, name \in Members, v \in Values :
  /\ \A t \in Refers(v) : t \in DOMAIN structs /\ t > s
  /\ Operate(s, PutValue(structs[s], name, v))
  /\ meant' = [meant EXCEPT ![s] = (name :> v) @@ @]
AppGets == \E s \in DOMAIN structs, name \in Members :
  Operate(s, GetValue(structs[s], name)) /\ UNCHANGED meant
AppPutsDefault == \E s \in DOMAIN structs, v \in Values :
  v.k = "string" /\ Operate(s, DefaultPut(structs[s], v)) /\ UNCHANGED meant

\* What it passes: a list of its own, or what the last call gave it
Passed == Arguments \cup (IF Refers(out.val) = {} THEN {} ELSE {<<out.val>>})

\* A mutant: rgvarg is not read from its end
BugInOrder(rgvarg) == rgvarg
\* rgvarg has the last argument first
InOrder(rgvarg) == Reverse(rgvarg)

Invoke == \E list \in Passed :
  LET params == InOrder(Reverse(list)) IN
  /\ stage \in {"idle", "returned"} /\ calls < MaxCalls
  /\ calls' = calls + 1 /\ at' = 0 /\ failed' = FALSE
  /\ IF \A i \in DOMAIN list : Serializable(list[i])
     THEN /\ request' = [i \in DOMAIN params |-> SerializeValue(params[i])]
          /\ answer' = Answer("echo", V("array", 0, [i \in DOMAIN list |-> Put(list[i])]))
          /\ stage' = "sent" /\ out' = Nothing
     ELSE /\ stage' = "returned" /\ out' = Outcome("invalid", EMPTY, 0, 0)
          /\ request' = <<>> /\ answer' = Answer("none", EMPTY)
  /\ response' = <<>> /\ ps' = "begin" /\ des' = <<Deserializer("container", "")>> /\ chars' = <<>>
  /\ UNCHANGED <<structs, meant, ops>>

Returns(outcome) ==
  /\ stage' = "returned" /\ out' = outcome
  /\ UNCHANGED <<calls, ops, request, response, at, answer, parser>>
-----------------------------------------------------------------------------
HttpFails == stage = "sent" /\ Returns(Outcome("http", EMPTY, 0, 0)) /\ UNCHANGED <<structs, meant, failed>>

Sends(xml) ==
  /\ stage = "sent" /\ stage' = "reading" /\ response' = xml
  /\ UNCHANGED <<app, request, at, failed, parser, out>>

\* A server that gives back the parameters, as an array
ServerEchoes ==
  /\ \A i \in DOMAIN request : WellFormed(request[i])
  /\ Sends(Response("params", Element("value", Element("array", Element("data", FlattenSeq(request)))),
                    Layout(FALSE, "i4", FALSE, FALSE)))
  /\ UNCHANGED answer

\* A bound: what a server of another make answers does not depend on the arguments or on
\* what was done before, so it answers a first call only
Fresh == calls = 1 /\ ops = 0

ServerAnswers == \E a \in Answers, l \in Layouts :
  /\ Fresh
  /\ Sends(Response(a.from, Wire(a.v, l), l))
  /\ answer' = Answer(a.from, IF a.from = "page" THEN EMPTY ELSE Stands(a.v, l))

\* The read loop gives expat what comes
Parses ==
  LET x == response[at + 1] IN
  /\ stage = "reading" /\ at < Len(response)
  /\ CASE x.t = "open"  -> StartElement(x.name)
       [] x.t = "close" -> EndElement
       [] x.t = "text"  -> CharData(x)
  /\ at' = at + 1
  /\ UNCHANGED <<ops, calls, stage, request, response, failed, answer, out>>

\* The connection ends early: Read has no bytes, and expat does not take that for the end
\* of the document
CutShort ==
  /\ stage = "reading" /\ at < Len(response)
  /\ Returns(Outcome("parse", EMPTY, 0, 0)) /\ UNCHANGED <<structs, meant, failed>>

\* Whether expat takes the piece response[i .. at] once more, and then the end: it has
\* nothing but white space after the root element, or it ends the root element
TakesAgain(i) ==
  IF at = Len(response) THEN \A j \in i .. at : response[j] = Blank
  ELSE \E j \in i .. at : response[j] = Close(response[1].name)

\* A Read fails, of the document or of the white space after it.  contentLengthTE leaves
\* cb as it was, the result is ignored, and the last piece, of any size, is parsed again.
\* The next Read has no bytes.  If it was the first, cb and buff are not initialized:
\* expat sees anything, an earlier response perhaps.
ReadFails ==
  /\ stage = "reading" /\ failed' = TRUE
  /\ \E hr \in IF at = 0 THEN {"parse", "ok", "exception"}
               ELSE {IF TakesAgain(i) THEN "ok" ELSE "parse" : i \in 1 .. at} :
        Returns(Outcome(hr, EMPTY, 0, 0))
  /\ UNCHANGED <<structs, meant>>

\* A mutant: the last Parse, of no bytes, is left out
BugWhole == stage = "reading"
Whole == stage = "reading" /\ at = Len(response)

ReturnsValue ==
  /\ Whole /\ ps # "fault"
  /\ Returns(Outcome("ok", Top.val, 0, 0))
  /\ UNCHANGED <<structs, meant, failed>>

\* Looking for the members of the fault makes those that are not there
ReturnsFault ==
  LET f == Top.val
      looked == GetValue(GetValue(structs[f.n], FAULT_STRING), FAULT_CODE)
      string == ValueOf(looked, FAULT_STRING)
      code   == ValueOf(looked, FAULT_CODE)
      desc == IF string.k = "string" THEN string.n ELSE 0
      fc   == IF code.k = "i4" THEN code.n % WORD ELSE 0
  IN
  /\ Whole /\ ps = "fault"
  /\ IF f.k = "struct"
     THEN structs' = [structs EXCEPT ![f.n] = looked] /\ Returns(Outcome("exception", EMPTY, (1000 + fc) % WORD, desc))
     ELSE UNCHANGED structs /\ Returns(Outcome("exception", EMPTY, 1000, 0))
  /\ UNCHANGED <<meant, failed>>
-----------------------------------------------------------------------------
Init ==
  /\ structs = <<NewStruct, NewStruct>> /\ meant = <<<<>>, <<>>>>
  /\ ops = 0 /\ calls = 0 /\ stage = "idle" /\ out = Nothing
  /\ request = <<>> /\ response = <<>> /\ at = 0 /\ failed = FALSE /\ answer = Answer("none", EMPTY)
  /\ ps = "begin" /\ des = <<>> /\ chars = <<>>

Next ==
  \/ AppPuts \/ AppGets \/ AppPutsDefault \/ Invoke
  \/ HttpFails \/ ServerEchoes \/ ServerAnswers
  \/ Parses \/ CutShort \/ ReadFails \/ ReturnsValue \/ ReturnsFault

Spec == Init /\ [][Next]_vars
-----------------------------------------------------------------------------
\* A server of another make that answers with a value, whatever its layout, gives the
\* application that value, nested to any depth, with the exceptions of Stands and of a
\* response whose first Read fails.
ResponseMeant ==
  stage = "returned" /\ at > 0 /\ out.hr = "ok" /\ answer.from # "echo" => Deep(out.val) = answer.v

\* A request is well-formed, but for names with markup (they are not escaped).  A server
\* that gives the parameters back gives the application what it put in, in the order of
\* the call: every member has the value that was put last, through whatever earlier
\* reads, puts and calls, as far as it can be written: a value without an XML-RPC form is
\* missing from its struct, and ends its array, without an error when a struct has it.
RoundTrip ==
  /\ (\A s \in DOMAIN structs : DOMAIN structs[s].names \cap Markup = {}) =>
       \A i \in DOMAIN request : WellFormed(request[i])
  /\ stage = "returned" /\ at > 0 /\ out.hr = "ok" /\ answer.from = "echo" => Deep(out.val) = answer.v

\* A response that was cut short, wherever, is never taken for a value or a fault, though
\* a piece of it may be parsed twice, unless its first Read fails; a whole one is never
\* taken for an error, unless the Read after it fails; a fault has the code and the words
\* its server chose, the code as far as a WORD holds it.
Reported ==
  stage = "returned" /\ response # <<>> /\ (failed => at > 0) =>
    /\ out.hr = "parse" <=> at < Len(response) \/ failed
    /\ out.hr = "exception" <=> answer.from = "fault" /\ at = Len(response) /\ ~failed
    /\ out.hr = "exception" =>
         LET item(n, k, default) ==
               IF answer.v.k # "struct" THEN default
               ELSE IF n \in DOMAIN answer.v.items /\ answer.v.items[n].k = k THEN answer.v.items[n].n ELSE default
         IN /\ out.code = (1000 + item(FAULT_CODE, "i4", 0)) % WORD
            /\ out.desc = item(FAULT_STRING, "string", 0)
=============================================================================
