---------------------------- MODULE SoapMessages ----------------------------
(***************************************************************************)
(* Envelopes that EnvelopeParser reads: those that EnvelopeWriter wrote (a *)
(* server that echoes, or a PocketSOAP server) and those that a server of  *)
(* another make writes, which puts the objects that are referred to where  *)
(* it likes: at the end or before, nested, or in their first place.        *)
(***************************************************************************)
EXTENDS EnvelopeParser, EnvelopeWriter

CONSTANTS
  Messages,         \* the messages the application sends, and sees echoed
  Styles            \* what foreign servers send: see Style

\* The kinds of elements in the envelopes of a server, the extents it tells of arrays, the
\* positions it gives to items of arrays (-1 is none), the type maps there are for a child
\* with an href, the ids, and the most elements in the Body
Style(kinds, extents, positions, maps, ids, size) ==
  [kinds |-> kinds, extents |-> extents, positions |-> positions, maps |-> maps, ids |-> ids, size |-> size]
Echo == Style({}, {}, {}, {}, {}, 0)

VARIABLES session,  \* Echo, or the style of a foreign server
          at        \* tokens of out that were read

vars == <<parser, writer, session, at>>

Extents(kind) == IF kind = "array" THEN session.extents ELSE {0}
-----------------------------------------------------------------------------
(* The echo *)

Read(t) ==
  CASE t.t = "text"  -> CharData(Text(t.n))
    [] t.t = "close" -> IF stack = <<>> THEN EndOutside ELSE EndElement
    [] OTHER -> StartElement([Tag(t.name, t.kind, t.id, t.href) EXCEPT
                                !.size = t.size, !.must = t.must, !.root = t.root])

ReadEcho ==
  /\ session = Echo /\ part = "done" /\ at < Len(out)
  /\ Read(out[at + 1])
  /\ at' = at + 1
  /\ UNCHANGED <<writer, session>>

Write == session = Echo /\ Writes /\ UNCHANGED <<parser, session, at>>
-----------------------------------------------------------------------------
(* The foreign server.  An element has children, text or an href; each href *)
(* has an id to go with it, and an id is used once.                         *)

Elements == DOMAIN doc
TagOf(e) == doc[e].tag
Parts(e) == SelectSeq([i \in 1..Len(doc) |-> i], LAMBDA i : doc[i].in = e)
Targets(id) == {e \in Elements : TagOf(e).id = id}
Room == session.size + 2 - Len(doc)

\* Ids that have been used, and those that elements are yet to have
Mentioned == UNION {{TagOf(e).id, TagOf(e).href} : e \in Elements} \ {0}
Dangling == {h \in Mentioned : Targets(h) = {}}

Simple(e) == TagOf(e).href = 0 /\ TagOf(e).kind = "none"
Hollow(e) == TagOf(e).kind \in {"object", "array"} /\ Parts(e) = <<>>

Tags ==
  UNION {{[Tag("x", k, i, 0) EXCEPT !.size = n] : n \in Extents(k), i \in session.ids \cup {0}} : k \in session.kinds}
  \cup {[Tag("x", "none", 0, h) EXCEPT !.map = m] : h \in session.ids, m \in session.maps}

InArray == TagOf(Top.num).kind = "array"

ServerStarts ==
  /\ session # Echo /\ Len(doc) < 2
  /\ StartElement(Tag(IF doc = <<>> THEN "Envelope" ELSE "Body", "none", 0, 0))
  /\ UNCHANGED <<writer, session, at>>

ServerOpens ==
  /\ session # Echo /\ Len(doc) >= 2 /\ Room > 0 /\ stack # <<>>
  /\ chars = EMPTY /\ TagOf(Top.num).href = 0 /\ TagOf(Top.num).kind # "null"
  /\ \E tag \in Tags, p \in (IF InArray THEN session.positions ELSE {-1}) :
       /\ tag.id # 0 => Targets(tag.id) = {}
       /\ {tag.id, tag.href} \subseteq 0..Cardinality(Mentioned) + 1
       /\ StartElement([tag EXCEPT !.pos = p])
  /\ UNCHANGED <<writer, session, at>>
  /\ (Cardinality(Dangling) <= Room /\ (Hollow(Top.num) => Room > 0))'

ServerWrites ==
  /\ session # Echo /\ stack # <<>> /\ Simple(Top.num) /\ Top.num > 2
  /\ Parts(Top.num) = <<>> /\ chars = EMPTY
  /\ CharData(Text(Top.num))
  /\ UNCHANGED <<writer, session, at>>

ServerCloses ==
  /\ session # Echo /\ stack # <<>>
  /\ Top.num = 2 => Len(doc) > 2 /\ Dangling = {}
  /\ Simple(Top.num) /\ Parts(Top.num) = <<>> => chars # EMPTY
  /\ ~Hollow(Top.num)
  /\ EndElement
  /\ UNCHANGED <<writer, session, at>>
-----------------------------------------------------------------------------
Init ==
  /\ InitParser /\ InitWriter /\ message \in Messages
  /\ session \in Styles \cup {Echo} /\ at = 0
  /\ session # Echo => message = CHOOSE m \in Messages : TRUE

\* The whole envelope was read, or nobody wants the rest
Finished ==
  \/ hr # "ok"
  \/ session # Echo /\ Len(doc) > 2 /\ stack = <<>>
  \/ session = Echo /\ part = "done" /\ at = Len(out)

Done == Finished /\ UNCHANGED vars

Next == Write \/ ReadEcho \/ ServerStarts \/ ServerOpens \/ ServerWrites \/ ServerCloses \/ Done

Spec == Init /\ [][Next]_vars
-----------------------------------------------------------------------------
(* What an envelope means *)

RECURSIVE Deep(_), Denotes(_), Meant(_)

\* What the application finds in a value
Deep(v) ==
  IF v.k = "node"
  THEN V("struct", 0, [i \in DOMAIN heap.node[v.n].kids |-> Deep(GetValue(heap, heap.node[v.n].kids[i]))])
  ELSE [v EXCEPT !.items = [i \in DOMAIN @ |-> Deep(@[i])]]

\* What the application put in
Meant(v) ==
  CASE v.k = "null" -> NULL
    [] v.k = "text" -> Text(v.n)
    [] OTHER -> V(Object(v.n).kind, 0, [i \in DOMAIN Object(v.n).fields |-> Meant(Object(v.n).fields[i])])

\* The element an href is about
Referred(e) == IF TagOf(e).href = 0 THEN e ELSE CHOOSE t \in Targets(TagOf(e).href) : TRUE

\* The kind of element e: as a type map told for an href to it, as it tells itself
KindOf(e) ==
  LET maps == {r \in Elements : TagOf(e).id # 0 /\ TagOf(r).href = TagOf(e).id /\ TagOf(r).map # "none"}
  IN CASE TagOf(e).kind # "null" /\ maps # {} -> TagOf(CHOOSE r \in maps : TRUE).map
       [] TagOf(e).kind = "none" -> "struct"
       [] OTHER -> TagOf(e).kind

\* The place of the i-th of ps in its array
Place(ps, i) ==
  LET f[j \in 1..Len(ps)] ==
        IF TagOf(ps[j]).pos >= 0 THEN TagOf(ps[j]).pos ELSE IF j = 1 THEN 0 ELSE f[j - 1] + 1
  IN f[i]

\* What element e stands for, whatever its name and its place in the envelope
Denotes(e) ==
  LET t == Referred(e)
      ps == Parts(t)
      parts == [i \in DOMAIN ps |-> Denotes(ps[i])]
      size == IF TagOf(t).size # Unbounded THEN TagOf(t).size ELSE Max({-1} \cup {Place(ps, i) : i \in DOMAIN ps}) + 1
  IN CASE KindOf(t) = "null" -> NULL
       [] KindOf(t) = "array" ->
            V("array", 0, [p \in 1..size |->
              IF \E i \in DOMAIN ps : Place(ps, i) = p - 1
              THEN parts[CHOOSE i \in DOMAIN ps : Place(ps, i) = p - 1] ELSE EMPTY])
       [] KindOf(t) = "struct" /\ ps = <<>> -> Text(t)
       [] OTHER -> V(KindOf(t), 0, parts)
-----------------------------------------------------------------------------
(* The envelopes that the parser is to restore.  See the README for what it *)
(* makes of the others.                                                     *)

Sections == {e \in Elements : doc[e].in = 0}
Refs == {e \in Elements : TagOf(e).href # 0}

RECURSIVE Reach(_, _)
Reach(es, next) ==
  LET more == es \cup UNION {next[e] : e \in es} IN IF more = es THEN es ELSE Reach(more, next)

\* No object is part of itself, and no href waits for something that arrives while an
\* element around the href is still open
Orderly ==
  LET within == [e \in Elements |-> ToSet(Parts(e))]
      needs  == [e \in Elements |-> within[e] \cup IF e \in Refs THEN {Referred(e)} ELSE {}]
      inside == [e \in Elements |-> Reach(within[e], within)]
      last   == [e \in Elements |-> Max({e} \cup inside[e])]
      whole  == [e \in Elements |-> Max({last[f] : f \in Reach({e}, needs)})]
  IN /\ \A e \in Elements : e \notin Reach(needs[e], needs)
     /\ \A e \in Elements \ Sections : \A r \in Refs \cap inside[e] :
          whole[r] > r => whole[r] > last[e]

\* A type map is for an object that comes later, and the items of an array fit
Regular ==
  /\ \A r \in Refs : TagOf(r).map # "none" => r < Referred(r)
  /\ \A a \in Elements : TagOf(a).kind = "array" =>
       LET ps == Parts(a)
           place == [i \in DOMAIN ps |-> Place(ps, i)]
           last == IF TagOf(a).size # Unbounded THEN TagOf(a).size - 1 ELSE Len(doc)
       IN /\ \A i \in DOMAIN ps : place[i] <= last
          /\ \A i, j \in DOMAIN ps : i < j =>
               place[i] # place[j] /\ (place[i] = last => TagOf(ps[j]).pos >= 0)

Restorable == Finished /\ hr = "ok" /\ Orderly /\ Regular
-----------------------------------------------------------------------------
\* Every element in the Body of a foreign envelope has the value it stands for, wherever
\* the server wrote the objects it refers to, and however long it had to wait for them.
Restored ==
  session # Echo /\ Restorable =>
    \A e \in Elements : doc[e].in = 2 => Deep(GetValue(heap, e)) = Denotes(e)

\* Each deserializer is told once that its element is complete, neither before the
\* last object arrived nor again for another one: an object loads its properties then.
EndedOnce ==
  Restorable => \A e \in Elements \ (Sections \cup Refs) : heap.ser[e].ended = 1

\* A message is taken just when each header that must be understood was declared
\* (isUnderstood does not sort the declarations: only for those that came in order), and
\* then its headers and parameters are what its writer meant.  Objects that several of
\* them share are written once.  get_Parameters looks for the method among the
\* independent elements.
Sorted == \A i, j \in DOMAIN UnderstoodHeaders : i < j => UnderstoodHeaders[i] < UnderstoodHeaders[j]
Musts == {message.header[i].must : i \in DOMAIN message.header} \ {0}
First(sec) == CHOOSE e \in Sections : TagOf(e).name = sec
Method ==
  LET ps == Parts(First("Body"))
      roots == {i \in DOMAIN ps : TagOf(ps[i]).root # "0"}
  IN ps[IF roots = {} THEN 1 ELSE Min(roots)]
RoundTrip ==
  session = Echo /\ Finished =>
    /\ Sorted => (hr = "ok" <=> Musts \subseteq ToSet(UnderstoodHeaders))
    /\ \A i, j \in DOMAIN out : out[i].id # 0 /\ i # j => out[i].id # out[j].id
    /\ Restorable =>
         /\ Deep(GetValue(heap, Method)) = Meant(message.body[1].v)
         /\ \A i \in DOMAIN message.header :
              Deep(GetValue(heap, Parts(First("Header"))[i])) = Meant(message.header[i].v)
=============================================================================
