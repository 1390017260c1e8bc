------------------------------ MODULE SoapCall ------------------------------
(***************************************************************************)
(* A whole call of a SOAP method: an application fills an envelope and     *)
(* sends it through a transport (Envelope.cpp, HTTPTransport.cpp,          *)
(* rawtcp.cpp), or calls a method of a proxy (Proxy.cpp); the writer asks  *)
(* the factory for serializers, a server answers, and the parser asks the  *)
(* factory for deserializers.  Composes TypeRegistry, whose tables the     *)
(* threads share, with the serializers of SimpleValues.                    *)
(*                                                                         *)
(* The thread of factory f makes the calls plan[f], one after the other.   *)
(* Structure, references and arrays are the subject of EnvelopeWriter and  *)
(* EnvelopeParser; here a method has one parameter, a simple value.        *)
(***************************************************************************)
EXTENDS TypeRegistry, SimpleValues

CONSTANTS Scenarios     \* what the threads do: functions from Factory to sequences of rounds

\* the calls an application makes on a factory are those that TypeRegistry knows
ASSUME SoapCallScenarios ==
    /\ {"normal11", "normal12"} \subseteq UsedModes
    /\ \A p \in Scenarios : \A f \in Factory : \A i \in DOMAIN p[f] : \A k \in DOMAIN p[f][i].tunes :
          LET tune == p[f][i].tunes[k]
          IN  /\ tune.op = "config" => tune.mode \in UsedModes
              /\ tune.op = "schema" => tune.uri \in {"xsd99", "xsd01"}
              /\ tune.op = "add" => tune.add \in Additions

VARIABLES plan,         \* plan[f]: the rounds of the thread of f
          call,         \* call[f]: its envelope, and how far its call is
          http          \* http[f]: the headers of its transport

callStateVars == <<plan, call, http>>
vars == <<registryVars, plan, call, http>>

----------------------------------------------------------------------------
(* What the application does, in a round.                                  *)

\* via: the envelope is the stream that is sent, or a string is made of it, or a proxy does
\* that; or the string goes through a raw TCP transport; or the application wrote the message
\* ("raw") and only the answer goes to an envelope
Round(fresh, newTransport, via, tunes, value, answers) ==
    [fresh |-> fresh, newTransport |-> newTransport, via |-> via, tunes |-> tunes,
     value |-> value, answers |-> answers]

This(f) == plan[f][call[f].round]
\* the thread has a call to make, and is at a stage of it
AtStage(f, stage) == call[f].round \in DOMAIN plan[f] /\ call[f].at = stage /\ pc[f] = "idle"

MethodName == <<"op", "urn:m">>
ReplyName == <<"opResponse", "urn:m">>
ParamName == <<"p", "">>
FaultName == <<"Fault", "SOAPENV">>

\* what SerializerForNode asks of the method's node and of a value's
RootQuestion ==
    [kind |-> "SerializerForValue", com |-> One("DISPATCH"), interfaces |-> {"ISOAPNode"},
     parent |-> NoType, name |-> MethodName]
Interfaces(v) ==
    CASE v.com = One("QName") -> {"IXmlQName"} [] v.com = One("XSDLong") -> {"IXsdLong"} [] OTHER -> {}
ValueQuestion(parent, v) ==
    [kind |-> "SerializerForValue", com |-> v.com, interfaces |-> Interfaces(v),
     parent |-> parent, name |-> ParamName]

\* what startElement asks of an element, with its xsi:type and without one
TypeQuestion(type) == [kind |-> "DeserializerForType", type |-> type, array |-> FALSE]
ChildQuestion(parent, name) ==
    [kind |-> "DeserializerForChild", parent |-> parent, name |-> name, array |-> FALSE]

----------------------------------------------------------------------------
(* Messages.                                                               *)

NoMessage == [written |-> FALSE]
Message(soap12, label, nil, text, prefixes) ==
    [written |-> TRUE, soap12 |-> soap12, label |-> label, nil |-> nil, text |-> text, prefixes |-> prefixes]

Element(name, type, nil, text) == [name |-> name, type |-> type, nil |-> nil, text |-> text]

\* an answer: refused by its HTTP status, or an envelope, of which cut elements come before an
\* XML error; scopes are the prefix declarations in force where the values are
Answer(kind, soap12, elements, cut, scopes) ==
    [kind |-> kind, soap12 |-> soap12, elements |-> elements, cut |-> cut, scopes |-> scopes]
NoReply == Answer("none", FALSE, <<>>, 0, <<>>)

ServerPrefix == UserPrefix("sv")

\* the name space a server finds for a prefix of the request
Understood(message, prefix) ==
    LET uris == URIsOf(message.prefixes, prefix) IN IF Cardinality(uris) = 1 THEN CHOOSE u \in uris : TRUE ELSE ""

\* a value's text as the server writes it, with its own prefix in a QName
Echoed(message) ==
    IF "qname" \in DOMAIN message.text THEN [qname |-> <<ServerPrefix, message.text.qname[2]>>] ELSE message.text

\* another lexical form of the same value: a zone that is not UTC, blanks, a number for a word
Reworded(text) ==
    CASE "part" \in DOMAIN text ->
            LET there == text.min + 60 IN
            IF text.part = "date" THEN text
            ELSE [text EXCEPT !.zone = 60, !.min = there % DayMins,
                              !.day = IF text.part = "time" THEN @ ELSE @ + there \div DayMins]
      [] "b64" \in DOMAIN text -> [b64 |-> FlattenSeq([i \in DOMAIN text.b64 |-> <<text.b64[i], Blank>>])]
      [] "word" \in DOMAIN text -> [num |-> IF text.word = "true" THEN 1 ELSE 0]
      [] OTHER -> text

Scopes(message) ==
    IF "qname" \in DOMAIN message.text
    THEN <<[prefix |-> ServerPrefix, uri |-> "urn:m"],
           [prefix |-> ServerPrefix, uri |-> Understood(message, message.text.qname[1])]>>
    ELSE <<>>

\* the reply of a method that returns its parameter, well or not
Reply(message, kind) ==
    LET text == CASE kind = "reworded" -> Reworded(Echoed(message))
                  [] kind = "garbled" -> [str |-> "?"]
                  [] OTHER -> Echoed(message)
        type == IF kind = "untyped" THEN NoType ELSE message.label
    IN  Answer(kind, IF kind = "other" THEN ~message.soap12 ELSE message.soap12,
               <<Element(ReplyName, NoType, FALSE, NoText), Element(ParamName, type, message.nil, text)>>,
               IF kind = "broken" THEN 1 ELSE 2, Scopes(message))

FaultReply ==
    Answer("fault", FALSE,
           <<Element(FaultName, NoType, FALSE, NoText),
             Element(<<"faultcode", "">>, NoType, FALSE, [qname |-> <<ServerPrefix, "Client">>]),
             Element(<<"faultstring", "">>, NoType, FALSE, [str |-> "no"])>>,
           3, <<[prefix |-> ServerPrefix, uri |-> "SOAPENV"]>>)

Answered(message, kind) ==
    CASE kind \in {"refused", "page"} -> [NoReply EXCEPT !.kind = kind]
      [] kind = "fault" -> FaultReply
      [] kind = "void" ->
            Answer(kind, message.soap12, <<Element(ReplyName, NoType, FALSE, NoText)>>, 1, <<>>)
      [] OTHER -> Reply(message, kind)

----------------------------------------------------------------------------
(* The transport's headers.                                                *)

NoHeader == "none"
\* FinalConstruct
NewTransport ==
    [type |-> "text/xml", parameter |-> NoHeader, soapAction |-> NoHeader, action |-> "", actionSet |-> FALSE]

\* A mutant: the header of an earlier request stays
BugClearSoapAction(h) == h

ClearSoapAction(h) == [h EXCEPT !.soapAction = NoHeader]
SetSoapAction(h) == [h EXCEPT !.soapAction = h.action]

\* Send: a payload that is a string is taken for SOAP 1.1, an envelope tells its version
Labels(h, isEnvelope, soap12) ==
    IF isEnvelope /\ soap12
    THEN ClearSoapAction([h EXCEPT !.type = "application/soap+xml",
                                   !.parameter = IF h.actionSet THEN h.action ELSE NoHeader])
    ELSE SetSoapAction([h EXCEPT !.type = "text/xml", !.parameter = NoHeader])

\* put_SOAPAction
PutSoapAction(h, action) == [h EXCEPT !.action = action, !.actionSet = TRUE]

----------------------------------------------------------------------------
(* The envelope.                                                           *)

\* FinalConstruct
NewEnvelope ==
    [soap12 |-> FALSE, made |-> FALSE, prefixes |-> NoPrefixes]

NewCall(round, envelope) ==
    [round |-> round, at |-> "tune", k |-> 1, envelope |-> envelope, message |-> NoMessage,
     reply |-> NoReply, opened |-> <<>>, failed |-> FALSE, outcome |-> [kind |-> "none"]]

Init ==
    /\ RegistryInit
    /\ plan \in Scenarios
    /\ call = [f \in Factory |-> NewCall(1, NewEnvelope)]
    /\ http = [f \in Factory |-> NewTransport]

Goto(f, stage) == [call EXCEPT ![f].at = stage]
Fails(f, stage) == [call EXCEPT ![f].at = stage, ![f].failed = TRUE]

\* the application's own settings: the version, the factory's configuration and additions,
\* the schema, a prefix, the action
Tune(f) ==
    LET tunes == This(f).tunes
        tune == tunes[call[f].k]
        tuned == [call EXCEPT ![f].k = @ + 1]
        withFactory == [tuned EXCEPT ![f].envelope.made = TRUE]
    IN  /\ AtStage(f, "tune")
        /\ call[f].k \in DOMAIN tunes
        /\ \/ /\ tune.op = "version"
              /\ call' = [tuned EXCEPT ![f].envelope.soap12 = tune.soap12]
              /\ UNCHANGED <<registryVars, http>>
           \/ /\ tune.op = "prefix"
              /\ call' = [tuned EXCEPT ![f].envelope.prefixes = WithPrefix(@, tune.uri, tune.prefix)]
              /\ UNCHANGED <<registryVars, http>>
           \/ /\ tune.op = "action"
              /\ http' = [http EXCEPT ![f] = PutSoapAction(@, tune.action)]
              /\ call' = tuned
              /\ UNCHANGED registryVars
           \/ /\ tune.op = "config"
              /\ SetConfig(f, tune.mode)
              /\ call' = withFactory
              /\ UNCHANGED http
           \/ /\ tune.op = "schema"
              /\ PutSchema(f, tune.uri)
              /\ call' = withFactory
              /\ UNCHANGED http
           \/ /\ tune.op = "add"
              /\ Start(f, [kind |-> "add", add |-> tune.add])
              /\ call' = withFactory
              /\ UNCHANGED http
        /\ UNCHANGED plan

\* the call itself begins; a stream is read, and so written, after the headers are made
Begin(f) ==
    /\ AtStage(f, "tune")
    /\ call[f].k \notin DOMAIN This(f).tunes
    /\ call' = Goto(f, IF This(f).via \in {"stream", "raw"} THEN "send" ELSE "make")
    /\ UNCHANGED <<registryVars, plan, http>>

\* get_SerializerFactory, the writer's and the parser's
MakeFactory(f, soap12) ==
    IF call[f].envelope.made THEN UNCHANGED registryVars
    ELSE SetConfig(f, IF soap12 THEN "normal12" ELSE "normal11")

\* Serialize: the envelope's own prefixes, and the serializer of the method's node
WriteRoot(f) ==
    /\ AtStage(f, "make")
    /\ MakeFactory(f, call[f].envelope.soap12)
    /\ LET envelope == IF call[f].envelope.soap12 THEN "SOAPENV12" ELSE "SOAPENV" IN
       call' = [Goto(f, "root") EXCEPT
                    ![f].envelope.made = TRUE,
                    ![f].envelope.prefixes = Prefixed(Prefixed(@, envelope), MethodName[2])]
    /\ UNCHANGED <<plan, http>>

AskRoot(f) ==
    /\ AtStage(f, "root")
    /\ Start(f, [kind |-> "ask", q |-> RootQuestion])
    /\ call' = Goto(f, "value")
    /\ UNCHANGED <<plan, http>>

\* ResolveType: the writer's type of the method's node is the one that is mapped to its name
MethodType(f) == FindType(Contents(heap[fac[f].cfg]), NoType, MethodName)

AskValue(f) ==
    /\ AtStage(f, "value")
    /\ Start(f, [kind |-> "ask", q |-> ValueQuestion(MethodType(f), This(f).value)])
    /\ call' = Goto(f, "write")
    /\ UNCHANGED <<plan, http>>

\* the value's element: xsi:type and text, or xsi:nil
WriteValue(f) ==
    LET v == This(f).value
        found == said[f].a
        nil == v = NullValue
        label == IF nil THEN NoType ELSE found.type
        typed == Prefixed(Prefixed(call[f].envelope.prefixes, XsiForPrimaryNS(fac[f].schema)), label[2])
        prefixes == IF v.com = One("QName") THEN Prefixed(typed, v.uri) ELSE typed
        text == IF nil THEN NoText ELSE Serialized(found.by, label, v, typed)
    IN  /\ AtStage(f, "write")
        /\ found # NotFound
        /\ call' = [Goto(f, "written") EXCEPT
                        ![f].envelope.prefixes = prefixes,
                        ![f].message = Message(call[f].envelope.soap12, label, nil, text, prefixes)]
        /\ UNCHANGED <<registryVars, plan, http>>

\* no serializer for the value: the caller gets the error, except that a proxy does not look
CannotWrite(f) ==
    /\ AtStage(f, "write")
    /\ said[f].a = NotFound
    /\ Drop(f)
    /\ call' = IF This(f).via = "proxy" THEN Goto(f, "send") ELSE Fails(f, "over")
    /\ UNCHANGED <<plan, http>>

\* both serializers go back to the pool, the value's first
ReturnWritten(f) ==
    /\ AtStage(f, "written")
    /\ Return(f, Len(held[f]))
    /\ call' = IF Len(held[f]) > 1 THEN call
               ELSE Goto(f, IF This(f).via = "stream" THEN "server" ELSE "send")
    /\ UNCHANGED <<plan, http>>

\* HTTPTransport::Send up to the request itself, which the proxy precedes by put_SOAPAction
Send(f) ==
    LET via == This(f).via
        before == IF via = "proxy" THEN PutSoapAction(http[f], "expanded") ELSE http[f]
    IN  /\ AtStage(f, "send")
        /\ via # "tcp"
        /\ http' = [http EXCEPT ![f] = Labels(before, via = "stream", call[f].envelope.soap12)]
        /\ call' = [call EXCEPT
                ![f].at = IF via = "stream" THEN "make" ELSE "server",
                ![f].message = IF via = "raw"
                               THEN Message(FALSE, <<"int", "xsd01">>, FALSE, ToText(This(f).value), NoPrefixes)
                               ELSE @]
        /\ UNCHANGED <<registryVars, plan>>

\* Crawtcp::Send: no connection is an error, but a connection that breaks is not: the answer is
\* then read from a closed socket, and is empty
SendTcp(f) ==
    /\ AtStage(f, "send")
    /\ This(f).via = "tcp"
    /\ \/ call' = Fails(f, "over")
       \/ call' = Goto(f, "server")
       \/ call' = [Goto(f, "receive") EXCEPT ![f].reply.kind = "page"]
    /\ UNCHANGED <<registryVars, plan, http>>

\* the server's answer; it can only object to a message that is empty
Serve(f) ==
    LET kinds == IF call[f].message.written THEN This(f).answers ELSE {"fault", "refused"} IN
    /\ AtStage(f, "server")
    /\ \E kind \in kinds :
          call' = [Goto(f, "receive") EXCEPT ![f].reply = Answered(call[f].message, kind)]
    /\ UNCHANGED <<registryVars, plan, http>>

----------------------------------------------------------------------------
(* The answer.                                                             *)

\* Receive and startElement of the envelope; a refusal (a status that is none of 2xx and 500, or
\* nothing in time) and a page that is no envelope end the parse before it has a factory
Receive(f) ==
    LET reply == call[f].reply IN
    /\ AtStage(f, "receive")
    /\ \/ /\ reply.kind \in {"refused", "page"}
          /\ call' = Fails(f, "leave")
          /\ UNCHANGED registryVars
       \/ /\ reply.kind \notin {"refused", "page"}
          /\ MakeFactory(f, reply.soap12)
          /\ call' = [Goto(f, "element") EXCEPT ![f].envelope.soap12 = reply.soap12, ![f].envelope.made = TRUE]
    /\ UNCHANGED <<plan, http>>

NextElement(f) == call[f].reply.elements[Len(call[f].opened) + 1]
AllOpened(f) == Len(call[f].opened) = call[f].reply.cut

ParentType(f) == IF call[f].opened = <<>> THEN NoType ELSE call[f].opened[1].type

\* an element is open: its deserializer, as the class [by, type, com], and the type of its node
Opened(f, reader, type) ==
    [call EXCEPT ![f].opened = Append(@, [reader |-> reader, type |-> type, value |-> EmptyValue]),
                 ![f].at = IF Len(call[f].opened) = 0 THEN "element" ELSE "close"]

\* startElement with xsi:nil
StartNil(f) ==
    /\ AtStage(f, "element")
    /\ ~AllOpened(f)
    /\ NextElement(f).nil
    /\ FetchClass(f, "null")
    /\ call' = Opened(f, [by |-> "null", type |-> NextElement(f).type, com |-> One("EMPTY")], NextElement(f).type)
    /\ UNCHANGED <<plan, http>>

\* startElement: by the type it names ...
StartTyped(f) ==
    /\ AtStage(f, "element")
    /\ ~AllOpened(f)
    /\ ~NextElement(f).nil
    /\ Start(f, [kind |-> "ask", q |-> TypeQuestion(NextElement(f).type)])
    /\ call' = Goto(f, "typed")
    /\ UNCHANGED <<plan, http>>

\* ... or, when there is none for that, by its name and its parent's type
StartNamed(f) ==
    /\ AtStage(f, "typed")
    /\ said[f].a = NotFound
    /\ Start(f, [kind |-> "ask", q |-> ChildQuestion(ParentType(f), NextElement(f).name)])
    /\ call' = Goto(f, "named")
    /\ UNCHANGED <<plan, http>>

\* the node has the type it names, or the one that is mapped to its name
Open(f) ==
    LET d == said[f].a
        e == NextElement(f)
        mapped == FindType(Contents(heap[fac[f].cfg]), ParentType(f), e.name)
    IN  /\ AtStage(f, "typed") \/ AtStage(f, "named")
        /\ d # NotFound
        /\ call' = Opened(f, [by |-> d.by, type |-> d.type, com |-> d.com], IF e.type = NoType THEN mapped ELSE e.type)
        /\ UNCHANGED <<registryVars, plan, http>>

\* A mutant: the error is forgotten
BugCutShort(f) ==
    /\ AtStage(f, "element")
    /\ AllOpened(f)
    /\ call[f].reply.kind = "broken"
    /\ call' = Goto(f, "parsed")
    /\ UNCHANGED <<registryVars, plan, http>>

\* an XML error
CutShort(f) ==
    /\ AtStage(f, "element")
    /\ AllOpened(f)
    /\ call[f].reply.kind = "broken"
    /\ call' = Fails(f, "parsed")
    /\ UNCHANGED <<registryVars, plan, http>>

\* endElement of a child of the method's node: Characters, End, and back to the pool
EndChild(f) ==
    LET k == Len(call[f].opened)
        r == call[f].opened[k].reader
        v == Characters(r.by, r.type, r.com, call[f].reply.elements[k].text, call[f].reply.scopes)
    IN  /\ AtStage(f, "close")
        /\ IF v = Failed
           THEN call' = Fails(f, "parsed") /\ UNCHANGED registryVars
           ELSE /\ Return(f, 2)
                /\ call' = [Goto(f, "element") EXCEPT ![f].opened[k].value = v]
        /\ UNCHANGED <<plan, http>>

\* endElement of the method's node
EndRoot(f) ==
    /\ AtStage(f, "element")
    /\ AllOpened(f)
    /\ call[f].reply.kind # "broken"
    /\ Return(f, 1)
    /\ call' = Goto(f, "parsed")
    /\ UNCHANGED <<plan, http>>

\* the end of parse
ResetPool(f) ==
    /\ AtStage(f, "parsed")
    /\ ClearPool(f)
    /\ call' = Goto(f, "leave")
    /\ UNCHANGED <<plan, http>>

\* CheckForFault, with the first two children of the method's node
IsFault(f) == call[f].reply.elements[1].name = FaultName
FaultOutcome(f) ==
    LET code == call[f].opened[2].value
        reason == call[f].opened[3].value
    IN  IF code.com # One("QName") THEN [kind |-> "error"]
        ELSE [kind |-> "fault", code |-> <<code.name, code.uri>>, reason |-> reason]

ParamOutcome(f) ==
    [kind |-> "value", value |-> IF Len(call[f].opened) = 1 THEN EmptyValue ELSE call[f].opened[2].value]

\* the parser is gone, with the deserializers of the elements still open; Parse returns, and the
\* application takes the first parameter, an untyped one as the type it expects
Leave(f) ==
    LET untyped == call[f].reply.kind = "untyped" /\ ~call[f].failed /\ call[f].message.label # NoType
    IN  /\ AtStage(f, "leave")
        /\ Drop(f)
        /\ call' = [Goto(f, IF untyped THEN "as" ELSE "over") EXCEPT
                        ![f].outcome = IF call[f].failed THEN [kind |-> "error"]
                                       ELSE IF IsFault(f) THEN FaultOutcome(f) ELSE ParamOutcome(f)]
        /\ UNCHANGED <<plan, http>>

\* get_ValueAs: nothing to do when the type is there already
TakeAsIs(f) ==
    /\ AtStage(f, "as")
    /\ AsIs(Contents(heap[fac[f].cfg]), call[f].opened[2], call[f].message.label)
    /\ call' = Goto(f, "over")
    /\ UNCHANGED <<registryVars, plan, http>>

AskAs(f) ==
    /\ AtStage(f, "as")
    /\ ~AsIs(Contents(heap[fac[f].cfg]), call[f].opened[2], call[f].message.label)
    /\ Start(f, [kind |-> "ask", q |-> TypeQuestion(call[f].message.label)])
    /\ call' = Goto(f, "asRead")
    /\ UNCHANGED <<plan, http>>

\* ... or the text is read once more, by a deserializer that never goes back to the pool; what
\* Characters returns is not looked at
ReadAs(f) ==
    LET d == said[f].a
        v == Characters(d.by, d.type, d.com, call[f].outcome.value.text, <<>>)
    IN  /\ AtStage(f, "asRead")
        /\ d # NotFound
        /\ Drop(f)
        /\ call' = [Goto(f, "over") EXCEPT ![f].outcome.value = IF v = Failed THEN @ ELSE v]
        /\ UNCHANGED <<plan, http>>

\* the next round, with the same envelope and factory or with new ones
NextRound(f) ==
    LET round == call[f].round + 1 IN
    /\ AtStage(f, "over")
    /\ round \in DOMAIN plan[f]
    /\ IF plan[f][round].fresh THEN Replace(f) ELSE UNCHANGED registryVars
    /\ call' = [call EXCEPT ![f] =
            NewCall(round, IF plan[f][round].fresh THEN NewEnvelope ELSE call[f].envelope)]
    /\ http' = [http EXCEPT ![f] = IF plan[f][round].newTransport THEN NewTransport ELSE @]
    /\ UNCHANGED plan

----------------------------------------------------------------------------
Write(f) == WriteRoot(f) \/ AskRoot(f) \/ AskValue(f) \/ WriteValue(f) \/ CannotWrite(f) \/ ReturnWritten(f)
StartElement(f) == StartNil(f) \/ StartTyped(f) \/ StartNamed(f) \/ Open(f) \/ CutShort(f)
EndElement(f) == EndChild(f) \/ EndRoot(f)
ValueAs(f) == TakeAsIs(f) \/ AskAs(f) \/ ReadAs(f)

Next ==
    \E f \in Factory :
        \/ Work(f) /\ UNCHANGED callStateVars
        \/ Tune(f) \/ Begin(f) \/ Write(f) \/ Send(f) \/ SendTcp(f) \/ Serve(f)
        \/ Receive(f) \/ StartElement(f) \/ EndElement(f) \/ ResetPool(f) \/ Leave(f)
        \/ ValueAs(f) \/ NextRound(f)

Spec == Init /\ [][Next]_vars

----------------------------------------------------------------------------
(* Properties.                                                             *)

\* The headers of a request say what its body is: SOAP 1.2 goes as application/soap+xml, with
\* its action there and no SOAPAction header, whatever the transport sent before; SOAP 1.1 as
\* text/xml with a SOAPAction.  (Send labels before the envelope is written.)
Labelled ==
    \A f \in Factory :
        call[f].at = "server" /\ This(f).via = "stream" =>
            LET h == http[f] IN
            IF call[f].message.soap12
            THEN /\ h.type = "application/soap+xml"
                 /\ h.soapAction = NoHeader
                 /\ h.parameter = IF h.actionSet THEN h.action ELSE NoHeader
            ELSE h.type = "text/xml" /\ h.parameter = NoHeader /\ h.soapAction = h.action

\* what an application gets for a value it sent to a method that returns it
Normal(v, label) ==
    CASE v.com \in {Bytes, ArrayOf("I1")} -> IF v.bytes = <<>> THEN EmptyValue ELSE [com |-> Bytes, bytes |-> v.bytes]
      [] v.com = One("DATE") /\ label[1] = "date" -> Date(v.mins - (v.mins % DayMins))
      [] v.com = One("DATE") /\ label[1] = "time" -> Date(v.mins % DayMins)
      [] v = EmptyValue -> Text(NoText)
      [] OTHER -> v

\* a number that cannot be read is no value, or a long that is 0, and no error either; bytes
\* and dates are errors
IsQuiet(v) == ~v.com.array /\ v.com.of \in Numbers \cup {"BOOL", "XSDLong"}
Unread(v) == IF v.com.of = "XSDLong" THEN NewLong ELSE EmptyValue

\* a day and a time before 1899-12-30 that is written in another time zone is read as another
IsEarly(v, label) == v.com = One("DATE") /\ v.mins < 0 /\ label[1] \notin {"date", "time"}
IsMisread(f) == call[f].reply.kind = "reworded" /\ IsEarly(This(f).value, call[f].message.label)

Echoes == {"typed", "untyped", "reworded", "other"}
Promised(f) ==
    LET kind == call[f].reply.kind IN
    CASE kind \in Echoes -> [kind |-> "value", value |-> Normal(This(f).value, call[f].message.label)]
      [] kind = "void" -> [kind |-> "value", value |-> EmptyValue]
      [] kind = "garbled" /\ IsQuiet(This(f).value) -> [kind |-> "value", value |-> Unread(This(f).value)]
      [] kind = "fault" -> [kind |-> "fault", code |-> <<"Client", "SOAPENV">>, reason |-> Text([str |-> "no"])]
      [] OTHER -> [kind |-> "error"]

\* A call never looks better than it was.  A value is what a whole answer says, that was neither
\* refused nor cut short and is no fault, and is nothing where the answer says nothing; a fault is
\* one the server sent; and only a call that was never answered comes to nothing at all, and has
\* failed.
NeverMistaken ==
    \A f \in Factory :
        call[f].at = "over" =>
            LET c == call[f] IN
            /\ c.outcome.kind = "value" =>
                  /\ ~c.failed /\ c.reply.kind \notin {"refused", "page", "broken", "fault"}
                  /\ Len(c.opened) = Len(c.reply.elements)
                  /\ c.reply.kind = "void" => c.outcome.value = EmptyValue
            /\ c.outcome.kind = "fault" => ~c.failed /\ c.reply.kind = "fault"
            /\ c.outcome.kind = "none" => c.failed /\ c.reply = NoReply

\* A call ends as the server meant it: the value it was sent comes back as the COM value it was,
\* however it is spelled and in whatever version, a fault is an error with its code and reason,
\* and a call whose message or answer was no good is an error, never another value.  An OLE date
\* that is negative is exact only if the server writes it as UTC.
OutcomeMeant ==
    \A f \in Factory :
        call[f].at = "over" =>
            IF call[f].reply.kind = "none" THEN call[f].failed ELSE IsMisread(f) \/ call[f].outcome = Promised(f)
=============================================================================
