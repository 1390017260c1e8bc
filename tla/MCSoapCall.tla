----------------------------- MODULE MCSoapCall -----------------------------
(* Small instances of SoapCall for TLC *)
EXTENDS SoapCall

CONSTANTS first, second
Threads == {first, second}

----------------------------------------------------------------------------
\* Values: the texts and words around the cases of the conversions

Bytes_(vt, bytes) == [com |-> ArrayOf(vt), bytes |-> bytes]
Instant == Date(3 * DayMins + 30)       \* half past midnight: an hour's zone changes the day

Values == {Number("I4", -5), Number("UI1", 255), Number("I8", 40), Number("R8", 2),
           [com |-> One("BOOL"), b |-> -1], [com |-> One("BOOL"), b |-> 0],
           Text([str |-> "x"]), EmptyValue, Instant, Date(23 * 60 + 45 - 2 * DayMins),
           QNameValue("local", "urn:q"), QNameValue("local", "urn:m")}
          \cup {Bytes_("UI1", x) : x \in {<<>>, <<255>>, <<0, 129>>, <<7, 0, 255>>, <<1, 2, 3, 254>>}}
          \cup {Bytes_("I1", <<9, 8>>)}

\* made by its two halves, the low one first
ALong == PutHiDWord(PutLoDWord(NewLong, -1), 2)

----------------------------------------------------------------------------
\* What an application does first

Version12 == [op |-> "version", soap12 |-> TRUE]
Action == [op |-> "action", action |-> "a"]
Schema99 == [op |-> "schema", uri |-> "xsd99"]
Config(mode) == [op |-> "config", mode |-> mode]
UserChose(uri) == [op |-> "prefix", uri |-> uri, prefix |-> UserPrefix("T")]
Added(add) == [op |-> "add", add |-> add]

\* CXsdLong::Register
Longs == [i \in 1..4 |-> Added(LongAdditions[i])]

\* the parameter's name stands for a type
Mapping(type) == [kind |-> "ElementMapping", name |-> ParamName, type |-> type]
\* the method and its response are of a type, that knows its child's
AStruct == <<"S", "urn:m">>
Struct(name) == [kind |-> "ElementMapping", name |-> name, type |-> AStruct]
Member(type) == [kind |-> "LocalTypeMapping", parent |-> AStruct, name |-> ParamName, type |-> type]
AsStruct == <<Added(Struct(MethodName)), Added(Struct(ReplyName)), Added(Member(<<"date", "xsd01">>))>>
\* hexBinary and the schema's date and time are chosen that way
Hex == [kind |-> "Serializer", com |-> Bytes, by |-> "hexbin", type |-> <<"hexBinary", "xsd01">>]

All == {"typed", "untyped", "reworded", "other", "void", "broken", "page", "fault", "refused", "garbled"}
\* (asking for an untyped value as a QName is not defined: there are no prefixes to read it with)
AllFor(v) == IF v.com = One("QName") THEN All \ {"untyped", "garbled"}
             ELSE IF v \in {NullValue, EmptyValue} \/ v.com = One("BSTR") THEN All \ {"garbled"} ELSE All
Echo == {"typed", "reworded"}

Call_(via, tunes, value, answers) == Round(TRUE, TRUE, via, tunes, value, answers)
Again(via, tunes, value, answers) == Round(TRUE, FALSE, via, tunes, value, answers)
Same(via, tunes, value, answers) == Round(FALSE, FALSE, via, tunes, value, answers)

Alone(rounds) == [f \in Threads |-> IF f = first THEN rounds ELSE <<>>]
Both(x, y) == [f \in Threads |-> IF f = first THEN x ELSE y]

----------------------------------------------------------------------------
\* Every value, in both versions, with every answer
EachValue ==
    {Alone(<<Call_("stream", <<>>, v, AllFor(v))>>) : v \in Values \cup {NullValue}}
    \cup {Alone(<<Call_("stream", <<Version12>>, v, AllFor(v) \ {"fault"})>>) : v \in Values}
    \cup {Alone(<<Call_("stream", <<Added(Mapping(<<n, "xsd01">>))>>, Instant, {"typed", "untyped", "reworded"})>>)
              : n \in {"date", "time", "dateTime"}}
    \cup {Alone(<<Call_("stream", AsStruct, Instant, {"typed", "untyped", "reworded"})>>)}
    \cup {Alone(<<Call_("string", <<Added(Hex), Added(Mapping(<<"hexBinary", "xsd01">>))>>, Bytes_("UI1", x), All)>>)
              : x \in {<<255>>, <<0, 129>>}}
    \cup {Alone(<<Call_("stream", <<Schema99>>, v, Echo)>>) : v \in {Number("I4", -5), Instant, NullValue}}

\* Other ways to call; a NULL in SOAP 1.2 has no serializer
EachWay ==
    {Alone(<<Call_("proxy", <<>>, v, AllFor(v))>>) : v \in {Number("I4", -5), Text([str |-> "x"]), ALong}}
    \cup {Alone(<<Call_("stream", Longs, ALong, All)>>)}
    \cup {Alone(<<Call_("tcp", <<>>, Instant, All)>>)}
    \cup {Alone(<<Call_("raw", <<>>, Number("I4", 7), All)>>)}
    \cup {Alone(<<Call_(via, <<Version12>>, NullValue, {"typed"})>>) : via \in {"stream", "string"}}

\* One transport, and one envelope, for several calls
Reused ==
    {Alone(<<Call_("stream", <<Action>>, Number("I4", -5), {"typed", "other", "refused"}),
             Again("stream", <<Version12, Config("normal12")>>, Instant, Echo),
             Same("stream", <<>>, Text([str |-> "x"]), {"typed", "page"}),
             Again("string", <<>>, Number("UI1", 255), Echo)>>),
     Alone(<<Call_("stream", <<UserChose("urn:q"), UserChose("urn:r")>>, QNameValue("local", "urn:r"), Echo),
             Same("stream", <<>>, QNameValue("local", "urn:q"), Echo)>>)}

\* Two threads, whose factories share what they do not add to
Programs ==
    {<<Call_("stream", <<>>, Number("I8", 40), {"typed"}), Again("stream", <<>>, Number("I8", 40), {"typed"})>>,
     <<Call_("stream", Longs, ALong, {"typed"})>>,
     <<Call_("stream", <<Config("normal12"), Version12>>, Number("I8", 40), {"typed"})>>,
     <<Call_("string", <<Added(Hex), Config("normal11")>>, Bytes_("UI1", <<255>>), {"typed"})>>,
     <<Call_("proxy", <<>>, Instant, {"broken", "garbled"})>>}
Together == {Both(x, y) : x, y \in Programs}

SmallScenarios == EachValue \cup EachWay \cup Reused \cup Together

----------------------------------------------------------------------------
\* What is added to the factories
SmallAdditions ==
    {LongAdditions[i] : i \in 1..4} \cup {Hex} \cup {Mapping(<<n, "xsd01">>) : n \in {"date", "time", "dateTime", "hexBinary"}}
    \cup {Struct(MethodName), Struct(ReplyName), Member(<<"date", "xsd01">>)}
=============================================================================
