--------------------------- MODULE PrivateRegistry ---------------------------
(***************************************************************************)
(* What a serializer factory promises its envelope: tables of its own.     *)
(* It starts with those of SOAP 1.1, SetConfig puts those of another mode  *)
(* in their place, an addition is added to them, and every question is     *)
(* answered from them, whatever other factories of the process do.         *)
(***************************************************************************)
EXTENDS TypeTables

CONSTANTS Factory,      \* the factories of the process
          Additions     \* what may be added to one

VARIABLES own,          \* own[f]: the mode, the additions and the primary schema of f
          asked,        \* asked[f]: the question to be answered, or NoAnswer
          said          \* said[f]: the last question answered, and the answer

vars == <<own, asked, said>>

Fresh == [mode |-> "normal11", adds |-> <<>>, schema |-> "xsd01"]

\* the answer to a question, from given tables
Answer(t, schema, q) ==
    CASE q.kind = "SerializerForValue" -> SerializerForValue(t, schema, q.com, q.interfaces, q.parent, q.name)
      [] q.kind = "DeserializerForType" -> DeserializerForType(t, q.type, q.array)
      [] q.kind = "DeserializerForChild" -> DeserializerForChild(t, q.parent, q.name, q.array)
      [] q.kind = "AreEqualComTypes" -> [equal |-> AreEqualComTypes(t, q.type, q.other)]

Init ==
    /\ own = [f \in Factory |-> Fresh]
    /\ asked = [f \in Factory |-> NoAnswer]
    /\ said = [f \in Factory |-> NoAnswer]

SetConfig(f, mode) ==
    /\ own' = [own EXCEPT ![f].mode = mode, ![f].adds = <<>>]
    /\ UNCHANGED <<asked, said>>

PutSchema(f, uri) ==
    /\ own' = [own EXCEPT ![f].schema = uri]
    /\ UNCHANGED <<asked, said>>

Add(f, add) ==
    /\ own' = [own EXCEPT ![f].adds = Append(@, add)]
    /\ UNCHANGED <<asked, said>>

\* any question: the one that is asked' then
Ask(f) ==
    /\ asked[f] = NoAnswer
    /\ IsQuestion(asked'[f])
    /\ asked' = [asked EXCEPT ![f] = asked'[f]]
    /\ UNCHANGED <<own, said>>

Reply(f) ==
    /\ asked[f] # NoAnswer
    /\ said' = [said EXCEPT ![f] =
            [q |-> asked[f], a |-> Answer(Tables(own[f].mode, own[f].adds), own[f].schema, asked[f])]]
    /\ asked' = [asked EXCEPT ![f] = NoAnswer]
    /\ UNCHANGED own

Replace(f) ==
    /\ own' = [own EXCEPT ![f] = Fresh]
    /\ asked' = [asked EXCEPT ![f] = NoAnswer]
    /\ said' = [said EXCEPT ![f] = NoAnswer]

Next ==
    \E f \in Factory :
        \/ \E mode \in Modes : SetConfig(f, mode)
        \/ \E uri \in {"xsd99", "xsd01"} : PutSchema(f, uri)
        \/ \E add \in Additions : Add(f, add)
        \/ Ask(f)
        \/ Reply(f)
        \/ Replace(f)

Spec == Init /\ [][Next]_vars
=============================================================================
