--------------------------- MODULE EnvelopeWriter ---------------------------
(***************************************************************************)
(* How PocketSOAP writes an envelope: EnvWriter serializes the headers and *)
(* the body, and moves each object that may be referred to twice out of    *)
(* its place, to an independent element with an id, leaving an href.       *)
(*                                                                         *)
(* What is written is a sequence of tokens: start tags, text, end tags.    *)
(* Section 5 of SOAP 1.1 is the encoding.                                  *)
(***************************************************************************)
EXTENDS Integers, SequencesExt

VARIABLES
  message,      \* what the application put in: see MessageType
  part,         \* "header", "body" or "done"
  entry,        \* the next entry of that part
  frames,       \* the serializers that are running
  main,         \* m_hdr or m_body
  ind,          \* m_ind: the independent elements
  cur,          \* m_pcur: 0 for main, or an index of ind
  done,         \* m_done: the objects that have an id
  out           \* the envelope

writer == <<message, part, entry, frames, main, ind, cur, done, out>>

\* Values: a text, NULL or an object, which is a SOAP node with children ("struct"), one
\* with a property bag ("object") or an array; an array has no identity.  Entries of the
\* header and the body; only a root is written in its place.
MessageType ==
  [objects : Seq([kind : {"struct", "object", "array"}, fields : Seq([k : STRING, n : Nat])]),
   header : Seq([v : [k : STRING, n : Nat], root : BOOLEAN, must : Nat]),
   body : Seq([v : [k : STRING, n : Nat], root : BOOLEAN, must : Nat]),
   rootFirst : BOOLEAN]

Object(o) == message.objects[o]
Entries == IF part = "header" THEN message.header ELSE message.body

Open(name, kind, id, href, size, must, root) ==
  [t |-> "open", name |-> name, kind |-> kind, id |-> id, href |-> href, size |-> size,
   must |-> must, root |-> root, n |-> 0]
Element(kind, size, must) == Open("x", kind, 0, 0, size, must, "none")
Tok(t, n) == [Open("", "none", 0, 0, 0, 0, "none") EXCEPT !.t = t, !.n = n]
CLOSE == Tok("close", 0)
Href(o) == <<Open("x", "none", 0, o, 0, 0, "none"), CLOSE>>

\* WriteText and so on: to where m_pcur points
Emit(toks) ==
  IF cur = 0 THEN main' = main \o toks /\ UNCHANGED ind
             ELSE ind' = [ind EXCEPT ![cur] = @ \o toks] /\ UNCHANGED main
-----------------------------------------------------------------------------
\* NeedsId: of an object with identity, but only while an encodingStyle is in force,
\* which the entry that is being written sets
HasIdentity(v) == v.k = "obj" /\ Object(v.n).kind # "array"
Encoded == frames # <<>>

\* A mutant: the object is registered when it was written, not before
BugRegister(o) == UNCHANGED done
\* AddAndRegisterId
Register(o) == done' = done \cup {o}

\* CheckIfDone: an object with an id already is not written again
WriteDone(v) ==
  /\ Encoded /\ HasIdentity(v) /\ v.n \in done
  /\ Emit(Href(v.n))
  /\ UNCHANGED <<cur, done>>

WriteSimple(v, must) ==
  /\ v.k # "obj"
  /\ Emit(<<Element(IF v.k = "null" THEN "null" ELSE "struct", 0, must)>>
          \o (IF v.k = "text" THEN <<Tok("text", v.n)>> ELSE <<>>) \o <<CLOSE>>)
  /\ UNCHANGED <<cur, done>>

\* What arrayType or arraySize tells of an array
GetBounds(o) == IF o.kind = "array" THEN Len(o.fields) ELSE 0

\* SerializeNodeHelper and SerializeValue up to the serializer: in an element of its own
\* with an id, or in its place
OpenObject(v, root, must) ==
  LET o == Object(v.n) IN
  /\ v.k = "obj" /\ ~(Encoded /\ HasIdentity(v) /\ v.n \in done)
  /\ IF HasIdentity(v) /\ ~root
     THEN /\ ind' = Append(ind, <<Open("x", o.kind, v.n, 0, GetBounds(o), must, "0")>>)
          /\ cur' = Len(ind) + 1
          /\ Register(v.n)
          /\ UNCHANGED main
     ELSE /\ Emit(<<Element(o.kind, GetBounds(o), must)>>)
          /\ UNCHANGED <<cur, done>>

Frame(o, independent) == [obj |-> o, next |-> 1, back |-> cur, independent |-> independent]

\* SerializeNode or SerializeValue of v: what stays on the stack above base
Serialize(v, root, must, base) ==
  \/ WriteDone(v) /\ frames' = base
  \/ WriteSimple(v, must) /\ frames' = base
  \/ OpenObject(v, root, must) /\ frames' = Append(base, Frame(v.n, HasIdentity(v) /\ ~root))

\* SerializeCollection of the header's or the body's nodes
SerializeEntry ==
  /\ part \in {"header", "body"} /\ frames = <<>> /\ entry <= Len(Entries)
  /\ Serialize(Entries[entry].v, Entries[entry].root, Entries[entry].must, <<>>)
  /\ entry' = entry + 1
  /\ UNCHANGED <<message, part, out>>

LastFrame == frames[Len(frames)]

\* The serializer of an object asks for the next of what it has to be written: a child
\* node, a property, an item of an array
SerializeField(kind) ==
  /\ frames # <<>> /\ Object(LastFrame.obj).kind = kind
  /\ LastFrame.next <= Len(Object(LastFrame.obj).fields)
  /\ Serialize(Object(LastFrame.obj).fields[LastFrame.next], FALSE, 0,
               [frames EXCEPT ![Len(frames)].next = @ + 1])
  /\ UNCHANGED <<message, part, entry, out>>

SerializeNode == SerializeField("struct")
WriteProperty == SerializeField("object")
SerializeItem == SerializeField("array")

\* A mutant: m_pcur stays in the independent element
BugBack(f) == cur
Back(f) == f.back

\* The end tag, and an href in the place of what is independent
CloseObject ==
  LET f == LastFrame
      href == IF f.independent THEN Href(f.obj) ELSE <<>>
      put(b, i) == b \o (IF cur = i THEN <<CLOSE>> ELSE <<>>) \o (IF Back(f) = i THEN href ELSE <<>>)
  IN
  /\ frames # <<>> /\ f.next > Len(Object(f.obj).fields)
  /\ main' = put(main, 0)
  /\ ind' = [i \in DOMAIN ind |-> put(ind[i], i)]
  /\ cur' = Back(f)
  /\ frames' = Front(frames)
  /\ UNCHANGED <<message, part, entry, done, out>>

\* The last independent element first
Independent == FlattenSeq(Reverse(ind))

\* EnvWriter::Serialize puts the parts together.  Ids stay known from header to body
CloseHeader ==
  /\ part = "header" /\ frames = <<>> /\ entry > Len(Entries)
  /\ out' = <<Open("Envelope", "none", 0, 0, 0, 0, "none")>>
            \o IF message.header = <<>> THEN <<>>
               ELSE <<Open("Header", "none", 0, 0, 0, 0, "none")>> \o main \o Independent \o <<CLOSE>>
  /\ part' = "body" /\ entry' = 1 /\ main' = <<>> /\ ind' = <<>> /\ cur' = 0
  /\ UNCHANGED <<message, frames, done>>

CloseBody ==
  /\ part = "body" /\ frames = <<>> /\ entry > Len(Entries)
  /\ out' = out \o <<Open("Body", "none", 0, 0, 0, 0, "none")>>
            \o (IF message.rootFirst THEN main \o Independent ELSE Independent \o main)
            \o <<CLOSE, CLOSE>>
  /\ part' = "done" /\ main' = <<>> /\ ind' = <<>>
  /\ UNCHANGED <<message, entry, frames, cur, done>>

InitWriter ==
  /\ part = "header" /\ entry = 1 /\ frames = <<>> /\ main = <<>> /\ ind = <<>> /\ cur = 0
  /\ done = {} /\ out = <<>>

Writes == SerializeEntry \/ SerializeNode \/ WriteProperty \/ SerializeItem \/ CloseObject \/ CloseHeader \/ CloseBody
=============================================================================
