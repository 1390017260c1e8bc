----------------------------- MODULE TypeTables -----------------------------
(***************************************************************************)
(* The tables of a SerializerFactoryConfig (SerializerFactory.h) and what  *)
(* is looked up in them: which serializer writes a COM value and under     *)
(* which XML type, which deserializer reads an XML type and which COM      *)
(* value it makes.                                                         *)
(*                                                                         *)
(* An XML type is a pair <<local name, namespace>>, a COM type a record    *)
(* [array, of]; "no type" is NoType.  A deserializer entry is a record     *)
(* [type, array, com, by], the map from keys to entries a set of them with *)
(* one entry a key.  Serializers are searched from the back, so they are   *)
(* sequences.                                                              *)
(***************************************************************************)
EXTENDS Sequences, FiniteSets, SequencesExt, Integers

Modes == {"normal11", "scripting11", "normal12", "scripting12"}
Soap12(mode) == mode \in {"normal12", "scripting12"}
Scripting(mode) == mode \in {"scripting11", "scripting12"}

NoType == <<"", "">>
One(vt) == [array |-> FALSE, of |-> vt]
ArrayOf(vt) == [array |-> TRUE, of |-> vt]
Bytes == ArrayOf("UI1")

----------------------------------------------------------------------------
(* Deserializers.                                                          *)

\* the entries of one COM type: the names of a name space that become it
Des(ns, names, array, com, by) ==
    {[type |-> <<n, ns>>, array |-> array, com |-> com, by |-> by] : n \in names}

\* the soap encoding's own names, SOAP 1.1 only
SoapEncDes ==
    Des("SOAPENC", {"binary"}, FALSE, Bytes, "b64")
    \cup Des("SOAPENC", {"boolean"}, FALSE, One("BOOL"), "bools")
    \cup Des("SOAPENC", {"float"}, FALSE, One("R4"), "ss")
    \cup Des("SOAPENC", {"double"}, FALSE, One("R8"), "ss")
    \cup Des("SOAPENC", {"decimal"}, FALSE, One("DECIMAL"), "ss")
    \cup Des("SOAPENC", {"uriReference", "string"}, FALSE, One("BSTR"), "ss")
    \cup Des("SOAPENC", {"int"}, FALSE, One("I4"), "ss")
    \cup Des("SOAPENC", {"short"}, FALSE, One("I2"), "ss")
    \cup Des("SOAPENC", {"byte"}, FALSE, One("I1"), "ss")
    \cup Des("SOAPENC", {"unsignedLong", "unsignedInt"}, FALSE, One("UI4"), "ss")
    \cup Des("SOAPENC", {"unsignedShort"}, FALSE, One("UI2"), "ss")
    \cup Des("SOAPENC", {"unsignedByte"}, FALSE, One("UI1"), "ss")
    \cup Des("SOAPENC", {"timeInstant"}, FALSE, One("DATE"), "ss")

\* what the two schemas have in common, by COM type
NumberDes(ns) ==
    Des(ns, {"QName"}, FALSE, One("QName"), "qname")
    \cup Des(ns, {"decimal"}, FALSE, One("DECIMAL"), "ss")
    \cup Des(ns, {"byte"}, FALSE, One("I1"), "ss")
    \cup Des(ns, {"short"}, FALSE, One("I2"), "ss")
    \cup Des(ns, {"int"}, FALSE, One("I4"), "ss")
    \cup Des(ns, {"long"}, FALSE, One("I8"), "ss")
    \cup Des(ns, {"unsignedByte"}, FALSE, One("UI1"), "ss")
    \cup Des(ns, {"unsignedShort"}, FALSE, One("UI2"), "ss")
    \cup Des(ns, {"unsignedInt"}, FALSE, One("UI4"), "ss")
    \cup Des(ns, {"unsignedLong"}, FALSE, One("UI8"), "ss")
    \cup Des(ns, {"boolean"}, FALSE, One("BOOL"), "bools")
    \cup Des(ns, {"float"}, FALSE, One("R4"), "ss")
    \cup Des(ns, {"double"}, FALSE, One("R8"), "ss")
    \cup Des(ns, {"string"}, FALSE, One("BSTR"), "ss")
    \cup Des(ns, {"time", "date"}, FALSE, One("DATE"), "ds")

\* ... and of their arrays, where both make the same
ArrayDes(ns, by) ==
    Des(ns, {"decimal"}, TRUE, One("DECIMAL"), by)
    \cup Des(ns, {"byte"}, TRUE, One("I1"), by)
    \cup Des(ns, {"short"}, TRUE, One("I2"), by)
    \cup Des(ns, {"int"}, TRUE, One("I4"), by)
    \cup Des(ns, {"unsignedByte"}, TRUE, One("UI1"), by)
    \cup Des(ns, {"unsignedShort"}, TRUE, One("UI2"), by)
    \cup Des(ns, {"unsignedInt"}, TRUE, One("UI4"), by)
    \cup Des(ns, {"boolean"}, TRUE, One("BOOL"), by)
    \cup Des(ns, {"float"}, TRUE, One("R4"), by)
    \cup Des(ns, {"double"}, TRUE, One("R8"), by)
    \cup Des(ns, {"string"}, TRUE, One("BSTR"), by)
    \cup Des(ns, {"time", "date"}, TRUE, One("DATE"), by)

\* the 1999 schema, SOAP 1.1 only
Xsd99Des(mode) ==
    NumberDes("xsd99")
    \cup Des("xsd99", {"uriReference"}, FALSE, One("BSTR"), "ss")
    \cup Des("xsd99", {"ur-type"}, FALSE, One("VARIANT"), "ss")
    \cup Des("xsd99", {"timeInstant"}, FALSE, One("DATE"), "ds")
    \cup Des("xsd99", {"ur-type"}, TRUE, One("VARIANT"), "ads")
    \cup Des("xsd99", {"base64Binary"}, FALSE, Bytes, "b64")
    \cup IF Scripting(mode) THEN {}
         ELSE ArrayDes("xsd99", "ads")
              \cup Des("xsd99", {"uriReference"}, TRUE, One("BSTR"), "ads")
              \cup Des("xsd99", {"unsignedLong"}, TRUE, One("UI4"), "ads")
              \cup Des("xsd99", {"timeInstant"}, TRUE, One("DATE"), "ads")

\* the 2001 schema's arrays
Xsd01Arrays(mode) ==
    LET by == IF Soap12(mode) THEN "ads12" ELSE "ads"
    IN  Des("xsd01", {"anyType"}, TRUE, One("VARIANT"), by)
        \cup IF Scripting(mode) THEN {}
             ELSE ArrayDes("xsd01", by)
                  \cup Des("xsd01", {"anyURI"}, TRUE, One("BSTR"), by)
                  \cup Des("xsd01", {"long"}, TRUE, One("I8"), by)
                  \cup Des("xsd01", {"unsignedLong"}, TRUE, One("UI8"), by)
                  \cup Des("xsd01", {"dateTime"}, TRUE, One("DATE"), by)

\* the 2001 schema's values, and the binary types, which are no soap arrays
Xsd01Des ==
    NumberDes("xsd01")
    \cup Des("SOAPENC", {"base64"}, FALSE, Bytes, "b64")
    \cup Des("xsd01", {"base64Binary"}, FALSE, Bytes, "b64")
    \cup Des("xsd01", {"hexBinary"}, FALSE, Bytes, "hexbin")
    \cup Des("xsd01", {"anyURI"}, FALSE, One("BSTR"), "ss")
    \cup Des("xsd01", {"anyType"}, FALSE, One("VARIANT"), "ss")
    \cup Des("xsd01", {"dateTime"}, FALSE, One("DATE"), "ds")

----------------------------------------------------------------------------
(* Element names with a type, everywhere and inside a type.                *)

Named(name, ns, type) == [name |-> <<name, ns>>, type |-> type]

EncNames == {"boolean", "float", "double", "decimal", "long", "int", "short", "byte",
             "unsignedLong", "unsignedInt", "unsignedShort", "unsignedByte", "string"}

GlobalTypes(mode) ==
    {Named("Fault", "SOAPENV", <<"Fault", "SOAPENV">>)}
    \cup IF Soap12(mode) THEN {}
         ELSE {Named(n, "SOAPENC", <<n, "xsd01">>) : n \in EncNames}
              \cup {Named("binary", "SOAPENC", <<"base64Binary", "xsd01">>),
                    Named("uriReference", "SOAPENC", <<"anyURI", "xsd01">>),
                    Named("timeInstant", "SOAPENC", <<"dateTime", "xsd01">>)}

LocalTypes ==
    {[parent |-> <<"Fault", "SOAPENV">>, name |-> <<"faultcode", "">>, type |-> <<"QName", "xsd01">>],
     [parent |-> <<"Fault", "SOAPENV">>, name |-> <<"faultstring", "">>, type |-> <<"string", "xsd01">>]}

----------------------------------------------------------------------------
(* Serializers, in the order in which they are added.                      *)

Ser(com, by, name, ns) == [com |-> com, by |-> by, type |-> <<name, ns>>]

\* the values of a schema; long and its unsigned twin are the 2001 schema's only
ValueSers(ns, instant, longs) ==
    <<Ser(One("DECIMAL"), "ss", "decimal", ns), Ser(One("BOOL"), "bools", "boolean", ns),
      Ser(One("UI1"), "ss", "unsignedByte", ns), Ser(One("UI2"), "ss", "unsignedShort", ns),
      Ser(One("UI4"), "ss", "unsignedInt", ns)>>
    \o (IF longs THEN <<Ser(One("UI8"), "ss", "unsignedLong", ns)>> ELSE <<>>)
    \o <<Ser(One("I1"), "ss", "byte", ns), Ser(One("I2"), "ss", "short", ns),
         Ser(One("I4"), "ss", "int", ns)>>
    \o (IF longs THEN <<Ser(One("I8"), "ss", "long", ns)>> ELSE <<>>)
    \o <<Ser(One("R4"), "ss", "float", ns), Ser(One("R8"), "ss", "double", ns),
         Ser(One("DATE"), "ds", "date", ns), Ser(One("DATE"), "ds", "time", ns),
         Ser(One("DATE"), "ds", instant, ns), Ser(One("BSTR"), "ss", "string", ns)>>

ArraySers(ns, by, instant, any, longs) ==
    <<Ser(ArrayOf("DECIMAL"), by, "decimal", ns), Ser(ArrayOf("BOOL"), by, "boolean", ns),
      Ser(ArrayOf("UI2"), by, "unsignedShort", ns), Ser(ArrayOf("UI4"), by, "unsignedInt", ns)>>
    \o (IF longs THEN <<Ser(ArrayOf("UI8"), by, "unsignedLong", ns)>> ELSE <<>>)
    \o <<Ser(ArrayOf("I2"), by, "short", ns), Ser(ArrayOf("I4"), by, "int", ns)>>
    \o (IF longs THEN <<Ser(ArrayOf("I8"), by, "long", ns)>> ELSE <<>>)
    \o <<Ser(ArrayOf("R4"), by, "float", ns), Ser(ArrayOf("R8"), by, "double", ns),
         Ser(ArrayOf("DATE"), by, instant, ns), Ser(ArrayOf("BSTR"), by, "string", ns),
         Ser(ArrayOf("VARIANT"), by, any, ns)>>

Xsd99Sers ==
    <<Ser(One("NULL"), "ss", "", "")>> \o ValueSers("xsd99", "timeInstant", FALSE)
    \o ArraySers("xsd99", "as", "timeInstant", "ur-type", FALSE)

Xsd01Sers(mode) ==
    LET by == IF Soap12(mode) THEN "as12" ELSE "as"
    IN  ValueSers("xsd01", "dateTime", TRUE)
        \o ArraySers("xsd01", by, "dateTime", "anyType", TRUE)
        \o <<Ser(ArrayOf("UNKNOWN"), by, "anyType", "xsd01"),
             Ser(ArrayOf("DISPATCH"), by, "anyType", "xsd01")>>

BinarySers ==
    <<Ser(ArrayOf("UI1"), "b64", "base64", "SOAPENC"), Ser(ArrayOf("I1"), "b64", "base64", "SOAPENC"),
      Ser(ArrayOf("UI1"), "b64", "base64Binary", "xsd01"),
      Ser(ArrayOf("I1"), "b64", "base64Binary", "xsd01")>>

PlainSers ==
    <<Ser(One("EMPTY"), "ss", "", ""), Ser(One("UNKNOWN"), "ss", "", ""), Ser(One("DISPATCH"), "ss", "", "")>>

\* by interface, for objects
InterfaceSers ==
    <<Ser(One("IXmlQName"), "qname", "QName", "xsd99"), Ser(One("IXmlQName"), "qname", "QName", "xsd01"),
      Ser(One("ISOAPNode"), "ns", "", ""), Ser(One("IPersistPropertyBag"), "pbs", "", "")>>

----------------------------------------------------------------------------
(* SerializerFactoryConfig::Init, and the additions of its Add functions.  *)

\* names do not repeat in the built-in tables, so their order there is of no account
InSomeOrder(S) == FoldSet(LAMBDA e, s : Append(s, e), <<>>, S)

Std == [mode \in Modes |->
    [des |-> Xsd01Des \cup Xsd01Arrays(mode)
             \cup (IF Soap12(mode) THEN {} ELSE SoapEncDes \cup Xsd99Des(mode)),
     simple |-> (IF Soap12(mode) THEN <<>> ELSE Xsd99Sers) \o Xsd01Sers(mode) \o BinarySers \o PlainSers,
     iface |-> InterfaceSers,
     etypes |-> InSomeOrder(GlobalTypes(mode)),
     ltypes |-> InSomeOrder(LocalTypes)]]

\* AddDeser, AddSerVT, AddSerIID, AddGlobalType, AddLocalType
WithEntry(t, add) ==
    CASE add.kind = "Deserializer" ->
            [t EXCEPT !.des = {d \in @ : <<d.type, d.array>> # <<add.type, add.array>>}
                              \cup Des(add.type[2], {add.type[1]}, add.array, add.com, add.by)]
      [] add.kind = "Serializer" ->
            [t EXCEPT !.simple = Append(@, [com |-> add.com, by |-> add.by, type |-> add.type])]
      [] add.kind = "InterfaceSerializer" ->
            [t EXCEPT !.iface = Append(@, [com |-> add.com, by |-> add.by, type |-> add.type])]
      [] add.kind = "ElementMapping" ->
            [t EXCEPT !.etypes = Append(@, [name |-> add.name, type |-> add.type])]
      [] add.kind = "LocalTypeMapping" ->
            [t EXCEPT !.ltypes = Append(@, [parent |-> add.parent, name |-> add.name, type |-> add.type])]

Tables(mode, adds) == FoldLeft(WithEntry, Std[mode], adds)

----------------------------------------------------------------------------
(* Lookups.  An answer that finds nothing is NotFound.                     *)

NotFound == [by |-> "nothing"]

\* what may be asked: a record whose kind is that of the lookup; NoAnswer is no question
NoAnswer == [kind |-> "none"]
IsQuestion(q) ==
    q.kind \in {"SerializerForValue", "DeserializerForType", "DeserializerForChild", "AreEqualComTypes"}

\* the last of a sequence that passes a test, searched from rbegin to rend
LastWith(s, Test(_)) ==
    LET found == SelectSeq(s, Test) IN IF found = <<>> THEN NotFound ELSE Last(found)

\* FindType with a parent: the parent's own names first, then everyone's
FindType(t, parent, name) ==
    LET local == SelectSeq(t.ltypes, LAMBDA e : e.parent = parent /\ parent[1] # "")
        Is(m) == m.name = name
        own == LastWith(local, Is)
        all == LastWith(t.etypes, Is)
    IN  IF own # NotFound THEN own.type ELSE IF all # NotFound THEN all.type ELSE NoType

\* FindSimpleSerializer: the preferred type, then the primary schema, then any
FindSimpleSerializer(t, schema, com, pref) ==
    LET Typed(e) == e.com = com /\ e.type = pref
        Schema(e) == e.com = com /\ e.type[2] = schema
        Writes(e) == e.com = com
        typed == IF pref[1] = "" THEN NotFound ELSE LastWith(t.simple, Typed)
        inSchema == LastWith(t.simple, Schema)
    IN  IF typed # NotFound THEN typed
        ELSE IF inSchema # NotFound THEN inSchema ELSE LastWith(t.simple, Writes)

\* FindInterfaceSerializer: the last added that the object has; no preference
FindInterfaceSerializer(t, interfaces) ==
    LET Has(e) == e.com.of \in interfaces IN LastWith(t.iface, Has)

\* SerializerForValue, of an object when interfaces is not empty
SerializerForValue(t, schema, com, interfaces, parent, name) ==
    IF interfaces # {} THEN FindInterfaceSerializer(t, interfaces)
    ELSE FindSimpleSerializer(t, schema, com, FindType(t, parent, name))

DeserializerForType(t, type, array) ==
    LET found == {d \in t.des : d.type = type /\ d.array = array}
    IN  IF type = NoType \/ found = {} THEN NotFound ELSE CHOOSE d \in found : TRUE

NodeDeserializer == [type |-> NoType, array |-> FALSE, com |-> One("ISOAPNode"), by |-> "ns"]

\* DeserializerForElement; the type it reports may be one without a deserializer
DeserializerForElement(t, name, array) ==
    LET Is(e) == e.name = name
        m == LastWith(t.etypes, Is)
        d == IF m = NotFound THEN NotFound ELSE DeserializerForType(t, m.type, array)
    IN  IF d # NotFound THEN d
        ELSE IF array THEN DeserializerForType(t, <<"anyType", "xsd01">>, TRUE) ELSE NodeDeserializer

DeserializerForChild(t, parent, name, array) ==
    LET local == SelectSeq(t.ltypes, LAMBDA e : e.parent = parent)
        Is(e) == e.name = name
        m == LastWith(local, Is)
        d == IF m = NotFound THEN NotFound ELSE DeserializerForType(t, m.type, array)
    IN  IF d # NotFound THEN d ELSE DeserializerForElement(t, name, array)

FindComType(t, type) ==
    LET d == DeserializerForType(t, type, FALSE) IN IF d = NotFound THEN NotFound ELSE d.com

AreEqualComTypes(t, a, b) ==
    FindComType(t, a) # NotFound /\ FindComType(t, a) = FindComType(t, b)

IsAnyType(type) == type \in {<<"anyType", "xsd01">>, <<"ur-type", "xsd99">>}

XsiForPrimaryNS(schema) == IF schema = "xsd99" THEN "xsi99" ELSE "xsi01"
=============================================================================
