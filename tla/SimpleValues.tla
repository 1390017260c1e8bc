---------------------------- MODULE SimpleValues ----------------------------
(***************************************************************************)
(* The (de)serializers of simple values: what text a COM value becomes and *)
(* which COM value a text becomes.                                         *)
(*                                                                         *)
(* A value is a record with its COM type in com.  A text is a record whose *)
(* one field says what is written: num, word, str, b64, hex, qname, or     *)
(* part, day, min and zone for a date.  A letter of base64 is 0..63, Pad   *)
(* or Blank (any character that is none), a digit of hexBinary 0..15 or    *)
(* Blank.  A time is in minutes, those of a date since 1899-12-30.         *)
(***************************************************************************)
EXTENDS TypeTables

Failed == [com |-> One("nothing")]          \* no value: the call returned an error
EmptyValue == [com |-> One("EMPTY")]
NullValue == [com |-> One("NULL")]
Number(vt, n) == [com |-> One(vt), n |-> n]
Text(text) == [com |-> One("BSTR"), text |-> text]
NoText == [str |-> ""]

\* a value, when all went well with what it is made from
Unless(failed, value) == IF failed THEN Failed ELSE value

----------------------------------------------------------------------------
(* Base64.cpp                                                              *)

Pad == 64
Blank == 65

\* Encode64, of one to three bytes
Encode64(b) ==
    LET at(i) == IF i <= Len(b) THEN b[i] ELSE 0
        six == <<at(1) \div 4, (at(1) % 4) * 16 + at(2) \div 16, (at(2) % 16) * 4 + at(3) \div 64, at(3) % 64>>
    IN  [i \in 1..4 |-> IF i <= Len(b) + 1 THEN six[i] ELSE Pad]

\* the k-th group of n of a sequence, the last one as long as there is
Group(s, n, k) == SubSeq(s, (k - 1) * n + 1, IF k * n < Len(s) THEN k * n ELSE Len(s))
Groups(s, n) == (Len(s) + n - 1) \div n

BufferEncode64(bytes) == FlattenSeq([k \in 1..Groups(bytes, 3) |-> Encode64(Group(bytes, 3, k))])

\* Decode64: how many of four letters come before the padding, and what they are
Letters(c) ==
    LET pads == {i \in DOMAIN c : c[i] = Pad}
    IN  IF pads = {} THEN c ELSE SubSeq(c, 1, (CHOOSE i \in pads : \A j \in pads : i <= j) - 1)

Decodable(c) == Len(Letters(c)) >= 2 /\ Len(c) = 4 /\ Blank \notin ToSet(Letters(c))

Decode64(c) ==
    LET l == Letters(c)
        at(i) == IF i <= Len(l) THEN l[i] ELSE 0
        bytes == <<at(1) * 4 + at(2) \div 16, (at(2) % 16) * 16 + at(3) \div 4, (at(3) % 4) * 64 + at(4)>>
    IN  SubSeq(bytes, 1, Len(l) - 1)

\* BufferDecode64, which ends with the first group that is not full
BufferDecode64(letters) ==
    LET short == {k \in 1..Groups(letters, 4) : Pad \in ToSet(Group(letters, 4, k))}
        last == IF short = {} THEN Groups(letters, 4) ELSE CHOOSE k \in short : \A j \in short : k <= j
    IN  [ok |-> letters # <<>> /\ \A k \in 1..last : Decodable(Group(letters, 4, k)),
         bytes |-> FlattenSeq([k \in 1..last |-> Decode64(Group(letters, 4, k))])]

\* CSerializerB64::Deserialize: blanks at the front stay in what is decoded, others are dropped
LeadingBlanks(letters) ==
    LET full == {i \in DOMAIN letters : letters[i] # Blank}
    IN  IF full = {} THEN Len(letters) ELSE (CHOOSE i \in full : \A j \in full : i <= j) - 1

WithoutBlanks(letters) ==
    FlattenSeq([i \in DOMAIN letters |-> IF letters[i] = Blank THEN <<>> ELSE <<letters[i]>>])

Base64Value(letters) ==
    LET data == BufferDecode64([i \in 1..LeadingBlanks(letters) |-> Blank] \o WithoutBlanks(letters))
    IN  IF letters = <<>> THEN EmptyValue ELSE Unless(~data.ok, [com |-> Bytes, bytes |-> data.bytes])

----------------------------------------------------------------------------
(* SerializerHexBin.cpp                                                    *)

HexDigits(bytes) == FlattenSeq([i \in DOMAIN bytes |-> <<bytes[i] \div 16, bytes[i] % 16>>])

HexValue(digits) ==
    Unless(Len(digits) % 2 > 0 \/ Blank \in ToSet(digits),
           [com |-> Bytes, bytes |-> [i \in 1..(Len(digits) \div 2) |-> digits[2 * i - 1] * 16 + digits[2 * i]]])

----------------------------------------------------------------------------
(* SerializerDate.cpp.  The name of the XML type says what is written and  *)
(* read: "date", "time", or both.  A time is written as UTC.               *)

DayMins == 1440
Date(mins) == [com |-> One("DATE"), mins |-> mins]

DateText(name, mins) ==
    [part |-> IF name \in {"date", "time"} THEN name ELSE "dateTime",
     day |-> mins \div DayMins, min |-> mins % DayMins, zone |-> 0]

\* A mutant: the zone is added
BugOffsetMins(zone) == zone

\* extractTime's offset: the minutes to add for a zone of +hh:mm or -hh:mm
OffsetMins(zone) == -zone

\* An OLE date counts days, before 1899-12-30 downwards, and the time of a day away from 0
Ole(mins) == IF mins >= 0 THEN mins ELSE (mins \div DayMins) * DayMins - (mins % DayMins)
Moment(ole) == IF ole >= 0 THEN ole ELSE ((-ole) % DayMins) - ((-ole) \div DayMins) * DayMins

\* SystemTimeToVariantWithOffset: the offset is added to the number
WithOffset(mins, offset) == Moment(Ole(mins) + offset)

\* parseDate, parseTime (a time without a day is one in 1999) and parseDateTime, which takes
\* what VariantChangeType makes of a date
DateValue(name, t) ==
    CASE name = "date" -> Unless(t.part = "time", Date(t.day * DayMins))
      [] name = "time" -> Unless(t.part = "date", Date((t.min + OffsetMins(t.zone)) % DayMins))
      [] OTHER -> CASE t.part = "dateTime" -> Date(WithOffset(t.day * DayMins + t.min, OffsetMins(t.zone)))
                    [] t.part = "date" -> Date(t.day * DayMins)
                    [] t.part = "time" -> Failed

----------------------------------------------------------------------------
(* xsdLong.cpp: a 64 bit number in two dwords, of Word values each.        *)

Word == 16
Long(hi, lo) == [com |-> One("XSDLong"), hi |-> hi, lo |-> lo]
NewLong == Long(0, 0)

Unsigned(v) == IF v < 0 THEN v + Word ELSE v
PutHiDWord(x, v) == [x EXCEPT !.hi = v]
\* a negative low dword is sign extended into the high one
PutLoDWord(x, v) == IF v < 0 THEN Long(-1, Unsigned(v)) ELSE [x EXCEPT !.lo = v]
GetString(x) == [num |-> x.hi * Word + x.lo]
\* a text that is no number leaves what was there
PutString(x, text) == IF "num" \in DOMAIN text THEN Long(text.num \div Word, text.num % Word) ELSE x

\* CXsdLong::Register
LongAdditions ==
    [i \in 1..4 |->
        LET type == <<"long", IF i % 2 = 1 THEN "xsd99" ELSE "xsd01">>
        IN  IF i <= 2
            THEN [kind |-> "Deserializer", type |-> type, array |-> FALSE, com |-> One("XSDLong"), by |-> "xsdlong"]
            ELSE [kind |-> "InterfaceSerializer", com |-> One("IXsdLong"), by |-> "xsdlong", type |-> type]]

----------------------------------------------------------------------------
(* Namespaces.cpp.  The writer's table maps name spaces to prefixes; a     *)
(* prefix is a pair, <<"n", k>> when it was generated.                     *)

Preferred ==
    [SOAPENV |-> "S", SOAPENV12 |-> "E", SOAPENC |-> "Enc", SOAPENC12 |-> "Q", xsd01 |-> "XS", xsi01 |-> "XI"]

NoPrefixes == [uri \in {} |-> <<"", 0>>]
UserPrefix(name) == <<name, 0>>

\* ReverseLookup
URIsOf(table, prefix) == {uri \in DOMAIN table : table[uri] = prefix}

\* GetPrefixForURI: the table's, the user's, the preferred one, or a new one
NewPrefix(table, uri, wanted) ==
    IF wanted # <<"", 0>> /\ URIsOf(table, wanted) = {} THEN wanted
    ELSE IF uri \in DOMAIN Preferred THEN <<Preferred[uri], 0>>
    ELSE <<"n", 1 + Cardinality({u \in DOMAIN table : table[u][1] = "n"})>>

WithPrefix(table, uri, wanted) ==
    IF uri = "" \/ uri \in DOMAIN table THEN table
    ELSE [u \in DOMAIN table \cup {uri} |-> IF u = uri THEN NewPrefix(table, uri, wanted) ELSE table[u]]

Prefixed(table, uri) == WithPrefix(table, uri, <<"", 0>>)

\* the reader's: declarations [prefix, uri] in scope, the innermost last; the last one counts
URIForPrefix(scopes, prefix) ==
    LET binds(d) == d.prefix = prefix
        found == SelectSeq(scopes, binds)
    IN  IF found = <<>> THEN "" ELSE Last(found).uri

QNameValue(name, uri) == [com |-> One("QName"), name |-> name, uri |-> uri]

----------------------------------------------------------------------------
(* SerializerSimple.cpp: VariantChangeType, to a string and from one.      *)

Numbers == {"I1", "I2", "I4", "I8", "UI1", "UI2", "UI4", "UI8", "R4", "R8", "DECIMAL"}

InRange(vt, n) ==
    CASE vt = "I1" -> n \in -128..127
      [] vt = "UI1" -> n \in 0..255
      [] vt = "I2" -> n \in -32768..32767
      [] vt = "UI2" -> n \in 0..65535
      [] vt \in {"UI4", "UI8"} -> n >= 0
      [] OTHER -> TRUE

ToText(v) ==
    CASE v.com.of \in Numbers -> [num |-> v.n]
      [] v.com.of = "BSTR" -> v.text
      [] OTHER -> NoText

Coerced(text, vt) ==
    CASE vt = "BSTR" -> Text(text)
      [] vt = "BOOL" ->
            IF "word" \in DOMAIN text THEN [com |-> One("BOOL"), b |-> IF text.word = "true" THEN -1 ELSE 0]
            ELSE Unless("num" \notin DOMAIN text, [com |-> One("BOOL"), b |-> IF text.num = 0 THEN 0 ELSE -1])
      [] vt \in Numbers -> IF "num" \in DOMAIN text /\ InRange(vt, text.num) THEN Number(vt, text.num) ELSE Failed
      [] OTHER -> Failed

----------------------------------------------------------------------------
(* What a serializer writes, and what the parser gets of a deserializer.   *)

Serialized(by, type, v, table) ==
    CASE by = "b64" -> [b64 |-> BufferEncode64(v.bytes)]
      [] by = "hexbin" -> [hex |-> HexDigits(v.bytes)]
      [] by = "ds" -> DateText(type[1], v.mins)
      [] by = "bools" -> [word |-> IF v.b = -1 THEN "true" ELSE "false"]
      [] by = "qname" -> [qname |-> <<Prefixed(table, v.uri)[v.uri], v.name>>]
      [] by = "xsdlong" -> GetString(v)
      [] by = "ss" -> ToText(v)

Deserialized(by, type, com, text, scopes) ==
    CASE by = "b64" -> IF "b64" \in DOMAIN text THEN Base64Value(text.b64) ELSE Failed
      [] by = "hexbin" -> IF "hex" \in DOMAIN text THEN HexValue(text.hex) ELSE Failed
      [] by = "ds" -> IF "part" \in DOMAIN text THEN DateValue(type[1], text) ELSE Failed
      [] by = "qname" -> IF "qname" \in DOMAIN text
                         THEN QNameValue(text.qname[2], URIForPrefix(scopes, text.qname[1])) ELSE Failed
      [] by = "xsdlong" -> PutString(NewLong, text)
      [] by = "ns" -> Text(text)
      [] by = "null" -> IF type[1] = "string" THEN Text(NoText) ELSE NullValue
      [] OTHER -> Coerced(text, com.of)

\* Characters: a simple deserializer keeps quiet about a text it cannot convert, the others fail
Characters(by, type, com, text, scopes) ==
    LET v == Deserialized(by, type, com, text, scopes)
    IN  IF v = Failed /\ by \in {"ss", "bools"} THEN EmptyValue ELSE v

----------------------------------------------------------------------------
(* CSOAPNode::get_ValueAs, of a node without children: is the value there  *)
(* what was asked for, or is its text to be read once more?                *)

AsIs(t, node, type) ==
    node.type = type \/ IsAnyType(type) \/ FindComType(t, type) = node.value.com
=============================================================================
