--------------------------- MODULE EnvelopeParser ---------------------------
(***************************************************************************)
(* How PocketSOAP reads an envelope: psParser builds a node and picks a    *)
(* deserializer for each element as expat reports it, and FixupMgr keeps   *)
(* track of the elements that wait for an object that an href named before *)
(* it was read.                                                            *)
(*                                                                         *)
(* Elements are known by their number, as in the code: 1 is the Envelope.  *)
(* What the deserializers and FixupMgr hold is one record, heap: a call of *)
(* psParser runs through them recursively and is a function of it.         *)
(***************************************************************************)
EXTENDS Integers, SequencesExt

CONSTANT UnderstoodHeaders    \* the headers declared by understoodHeader(), in that order

VARIABLES
  doc,          \* the start tags so far, with the element that each is in
  stack,        \* m_Stack: open elements, with canComplete
  chars,        \* m_val
  inHeaders, gotBody,
  deferred,     \* m_deferedTypes: kinds of deserializers kept for an id
  heap,         \* nodes, deserializers and FixupMgr: see NoHeap
  hr            \* m_hr: "ok" or what failed

parser == <<doc, stack, chars, inHeaders, gotBody, deferred, heap, hr>>
-----------------------------------------------------------------------------
(* Values: a node stands for itself when it has children; an array and an    *)
(* object hold what they were made of when they were made.                   *)
V(k, n, items) == [k |-> k, n |-> n, items |-> items]
EMPTY == V("empty", 0, <<>>)
NULL == V("null", 0, <<>>)
Text(n) == V("text", n, <<>>)
NodeOf(n) == V("node", n, <<>>)

\* A start tag.  kind names the deserializer: "struct" for CoSerializerNode (also of simple
\* values), "array" for CDeserializerArray and CDeserializerArray12, "object" for
\* CSerializerPB, "null", and "none" when neither type nor name tells; size is an array's
\* extent in its arrayType or arraySize; map is what the type map has for that child of
\* its parent; pos is -1 without a position; must is the name (a number, in the order of
\* names) of a header that must be understood
Tag(name, kind, id, href) ==
  [name |-> name, kind |-> kind, id |-> id, href |-> href, map |-> "none", size |-> 0,
   pos |-> -1, must |-> 0, root |-> "none"]

\* node: children, value, id.  ser: the deserializer, its m_refs, the places of an array
\* (values, or nodes), m_pos and m_valid, how often End was called.  items, idDepends,
\* elemDepends and idMap are FixupMgr's.
NoHeap == [node |-> <<>>, ser |-> <<>>, items |-> {}, idDepends |-> <<>>,
           elemDepends |-> <<>>, idMap |-> {}, ok |-> TRUE]

NewNode(id) == [kids |-> <<>>, val |-> EMPTY, id |-> id]
\* the extent in "[]", "*" and without an arraySize: as many items as there are
Unbounded == -1

\* Start of the array deserializers: CUnboundArrayDeserializer ("list") helps with one without
\* bounds, CArrayDeserializer with the others
Helper(kind, size) == IF kind = "array" /\ size = Unbounded THEN "list" ELSE kind
\* CDeserializerArrayImpl: InitFromArrayType or InitFromArraySize, then the helper's Start
BoundsOf(kind, size) == IF Helper(kind, size) = "array" THEN [i \in 1..size |-> EMPTY] ELSE <<>>

NewDeserializer(kind, size) ==
  [kind |-> Helper(kind, size), refs |-> <<>>, pos |-> 0, valid |-> TRUE, ended |-> 0,
   places |-> BoundsOf(kind, size)]
-----------------------------------------------------------------------------
(* The deserializers: what Child, ChildRef, Ref and End of each class do to   *)
(* the heap h, for the element p that the deserializer is of                  *)

\* CSOAPNode::get_Value
GetValue(h, n) == IF h.node[n].kids # <<>> THEN NodeOf(n) ELSE h.node[n].val
PutValue(h, n, v) == [h EXCEPT !.node[n].val = v]
Values(h, ns) == [i \in DOMAIN ns |-> IF ns[i] = EMPTY THEN EMPTY ELSE GetValue(h, ns[i].n)]

Waits(href, num, at) == [href |-> href, num |-> num, at |-> at]
WaitingAt(s, id) == {r.at : r \in {q \in ToSet(s.refs) : q.href = id}}

\* CSerializerNode
NodeChild(h, p, n) == [h EXCEPT !.node[p].kids = Append(@, n)]
NodeChildRef(h, p, href, n) ==
  [NodeChild(h, p, n) EXCEPT !.ser[p].refs = Append(@, Waits(href, 0, n))]
NodeRef(h, p, id, n) ==
  FoldSet(LAMBDA m, g : PutValue(g, m, GetValue(h, n)), h, WaitingAt(h.ser[p], id))
NodeCharacters(h, p, text) == PutValue(h, p, text)

\* CSerializerPB: End loads the properties from the children
ObjectChild(h, p, n) == [h EXCEPT !.node[p].kids = Append(@, n)]
ObjectChildRef(h, p, href, n) ==
  [ObjectChild(h, p, n) EXCEPT !.ser[p].refs = Append(@, Waits(href, 0, n))]
ObjectRef(h, p, id, n) ==
  FoldSet(LAMBDA m, g : PutValue(g, m, GetValue(h, n)), h, WaitingAt(h.ser[p], id))
ObjectEnd(h, p) ==
  LET properties == Values(h, [i \in DOMAIN h.node[p].kids |-> NodeOf(h.node[p].kids[i])])
  IN [h EXCEPT !.node[p] = [@ EXCEPT !.kids = <<>>, !.val = V("object", 0, properties)]]

\* Position: MoveNext of one dimension stays once the last position of a bounded array
\* was passed
SetPosition(s, tag) == IF tag.pos < 0 THEN s ELSE [s EXCEPT !.pos = tag.pos]
MoveNext(s) ==
  IF ~s.valid THEN s
  ELSE [s EXCEPT !.pos = @ + 1, !.valid = s.kind = "list" \/ s.pos + 1 < Len(s.places)]

\* CArrayDeserializer: the places that wait get the value of node n
FillPlaces(h, p, waits(_), n) ==
  LET at == {r.at : r \in {q \in ToSet(h.ser[p].refs) : waits(q)}}
  IN [h EXCEPT !.ser[p].places = [i \in DOMAIN @ |-> IF i \in at THEN GetValue(h, n) ELSE @[i]],
               !.ser[p].refs = SelectSeq(@, LAMBDA r : ~waits(r))]
BoundedReady(h, p, num) == FillPlaces(h, p, LAMBDA r : r.num = num, num)
BoundedRef(h, p, id, n) == FillPlaces(h, p, LAMBDA r : r.href = id, n)
BoundedChild(h, s, n, ready) ==
  IF ready THEN [s EXCEPT !.places[s.pos + 1] = GetValue(h, n)]
  ELSE [s EXCEPT !.refs = Append(@, Waits(0, n, s.pos + 1))]
BoundedEnd(h, p) == PutValue(h, p, V("array", 0, h.ser[p].places))

\* CUnboundArrayDeserializer: m_nodes grows with nothing up to where the node goes
ListChild(s, pos, n) ==
  [s EXCEPT !.places = [i \in 1..Max({Len(@), pos + 1}) |->
     IF i = pos + 1 THEN NodeOf(n) ELSE IF i <= Len(@) THEN @[i] ELSE EMPTY]]
ListRef(h, p, id, n) ==
  LET s == h.ser[p]
      filled == FoldSet(LAMBDA at, t : ListChild(t, at - 1, n), s, WaitingAt(s, id))
  IN [h EXCEPT !.ser[p] = [filled EXCEPT !.refs = SelectSeq(@, LAMBDA r : r.href # id)]]
ListEnd(h, p) == PutValue(h, p, V("array", 0, Values(h, h.ser[p].places)))

\* CDeserializerArrayImpl: IsValidPos, or the SafeArrayPtrOfIndex that fails
Outside(s) == s.kind = "array" /\ s.pos >= Len(s.places)
Refuse(h, p, s, tag) ==
  [h EXCEPT !.ok = FALSE, !.ser[p] = [s EXCEPT !.valid = @ /\ tag.pos < 0]]
ArrayChild(h, p, n, ready, tag) ==
  LET s == SetPosition(h.ser[p], tag) IN
  IF Outside(s) THEN Refuse(h, p, s, tag)
  ELSE [h EXCEPT !.ser[p] =
         MoveNext(IF s.kind = "list" THEN ListChild(s, s.pos, n) ELSE BoundedChild(h, s, n, ready))]
ArrayChildRef(h, p, href, n, tag) ==
  LET s == SetPosition(h.ser[p], tag) IN
  IF Outside(s) THEN Refuse(h, p, s, tag)
  ELSE [h EXCEPT !.ser[p] = MoveNext([s EXCEPT !.refs = Append(@, Waits(href, 0, s.pos + 1))])]

\* Child, of an element that can be used if ready; ChildRef, of one with an href; Ref:
\* the object of that id is node n; ChildReady: only a bounded array cares
Child(h, p, n, ready, tag) ==
  CASE h.ser[p].kind = "null"   -> h
    [] h.ser[p].kind = "struct" -> NodeChild(h, p, n)
    [] h.ser[p].kind = "object" -> ObjectChild(h, p, n)
    [] OTHER -> ArrayChild(h, p, n, ready, tag)
ChildRef(h, p, href, n, tag) ==
  CASE h.ser[p].kind = "null"   -> h
    [] h.ser[p].kind = "struct" -> NodeChildRef(h, p, href, n)
    [] h.ser[p].kind = "object" -> ObjectChildRef(h, p, href, n)
    [] OTHER -> ArrayChildRef(h, p, href, n, tag)
Ref(h, p, id, n) ==
  CASE h.ser[p].kind = "null"   -> h
    [] h.ser[p].kind = "struct" -> NodeRef(h, p, id, n)
    [] h.ser[p].kind = "object" -> ObjectRef(h, p, id, n)
    [] h.ser[p].kind = "array"  -> BoundedRef(h, p, id, n)
    [] h.ser[p].kind = "list"   -> ListRef(h, p, id, n)
ChildReady(h, p, num) ==
  IF h.ser[p].kind # "array" THEN h ELSE BoundedReady(h, p, num)

End(h, p) ==
  LET g == [h EXCEPT !.ser[p].ended = @ + 1]
  IN CASE h.ser[p].kind = "struct" -> g
       [] h.ser[p].kind = "null"   -> PutValue(g, p, NULL)
       [] h.ser[p].kind = "object" -> ObjectEnd(g, p)
       [] h.ser[p].kind = "array"  -> BoundedEnd(g, p)
       [] h.ser[p].kind = "list"   -> ListEnd(g, p)
-----------------------------------------------------------------------------
(* FixupMgr *)

Item(h, num) == CHOOSE i \in h.items : i.num = num

\* Add: element num waits for an id, or (elem > 0) for another element
Add(h, num, id, elem) ==
  LET old == {i \in h.items : i.num = num}
      item == IF old = {} THEN [num |-> num, hrefs |-> {}, elems |-> {}] ELSE CHOOSE i \in old : TRUE
      newId == id # 0 /\ id \notin item.hrefs
      newElem == elem # 0 /\ elem \notin item.elems
  IN [h EXCEPT
       !.items = (@ \ old) \cup {[item EXCEPT !.hrefs = IF newId THEN @ \cup {id} ELSE @,
                                              !.elems = IF newElem THEN @ \cup {elem} ELSE @]},
       !.idDepends = IF newId THEN Append(@, [id |-> id, num |-> num]) ELSE @,
       !.elemDepends = IF newElem THEN Append(@, [elem |-> elem, num |-> num]) ELSE @]

\* An item without anything left to wait for is removed
Satisfied(h, num) == Item(h, num).hrefs = {} /\ Item(h, num).elems = {}
Forget(h, num) == [h EXCEPT !.items = {i \in @ : i.num # num}]

RECURSIVE ProcessID(_, _, _, _), ProcessRemove(_, _, _), Completed(_, _, _)

\* A mutant: the elements that wait for an element that is complete are not told
BugCompleted(h, num, open) ==
  LET g == IF num \in open THEN h ELSE End(h, num)
  IN IF g.node[num].id = 0 THEN Forget(g, num) ELSE ProcessID(Forget(g, num), num, g.node[num].id, open)
\* What ProcessIDImpl and ProcessRemove do with an item whose last fix-up came.  End is
\* not called while the element is open (open is m_Stack's numbers), nor later.
Completed(h, num, open) ==
  LET g == ProcessRemove(IF num \in open THEN h ELSE End(h, num), num, open)
  IN IF g.node[num].id = 0 THEN Forget(g, num) ELSE ProcessID(Forget(g, num), num, g.node[num].id, open)

\* ProcessIDImpl: those who wait for the id get the node, in the order they came
ProcessID(h, num, id, open) ==
  LET waiters == SelectSeq(h.idDepends, LAMBDA d : d.id = id)
      Fix(g, d) ==
        LET r == Ref(g, d.num, id, num)
            e == [r EXCEPT !.items = (@ \ {Item(r, d.num)}) \cup {[Item(r, d.num) EXCEPT !.hrefs = @ \ {id}]}]
        IN IF Satisfied(e, d.num) THEN Completed(e, d.num, open) ELSE e
      known == [h EXCEPT !.idMap = {m \in @ : m.id # id} \cup {[id |-> id, num |-> num]},
                         !.idDepends = SelectSeq(@, LAMBDA d : d.id # id)]
  IN FoldLeft(Fix, known, waiters)

\* ProcessRemove: those who wait for the element
ProcessRemove(h, num, open) ==
  LET waiters == SelectSeq(h.elemDepends, LAMBDA d : d.elem = num)
      Fix(g, d) ==
        LET r == ChildReady(g, d.num, num)
            e == [r EXCEPT !.items = (@ \ {Item(r, d.num)}) \cup {[Item(r, d.num) EXCEPT !.elems = @ \ {num}]}]
        IN IF Satisfied(e, d.num) THEN Completed(e, d.num, open) ELSE e
  IN FoldLeft(Fix, [h EXCEPT !.elemDepends = SelectSeq(@, LAMBDA d : d.elem # num)], waiters)

\* Lookup
Known(h, id) == \E m \in h.idMap : m.id = id
Lookup(h, id) == (CHOOSE m \in h.idMap : m.id = id).num
-----------------------------------------------------------------------------
(* psParser *)

\* std::lower_bound on n entries of v from i (0-based) on
LowerBound(v, x) ==
  LET f[i \in 0..Len(v), n \in 0..Len(v)] ==
        IF n = 0 THEN i
        ELSE IF v[i + (n \div 2) + 1] < x THEN f[i + (n \div 2) + 1, n - (n \div 2) - 1]
        ELSE f[i, n \div 2]
  IN f[0, Len(v)]

\* A mutant: the entry that is found is not compared with the header
BugIsUnderstood(x) == LowerBound(UnderstoodHeaders, x) < Len(UnderstoodHeaders)
\* CSerializerFactory::isUnderstood: binary_search of a list that is sorted only when it
\* is taken to be in order already
IsUnderstood(x) ==
  LET i == LowerBound(UnderstoodHeaders, x) IN
  i < Len(UnderstoodHeaders) /\ UnderstoodHeaders[i + 1] <= x

\* CreateAndInitNode: a header that must be understood
HeaderCheck(tag) ==
  IF inHeaders /\ tag.must # 0 /\ ~IsUnderstood(tag.must) THEN "not understood" ELSE "ok"

Top == stack[Len(stack)]
Parent == stack[Len(stack) - 1]
Push(num, tag) == Append(stack, [num |-> num, canComplete |-> TRUE])

\* What the factory has for a type, and for a child of that name in its parent; the
\* latter is the default, CSerializerNode, when the type map has none
ForType(tag) == tag.kind
ForChild(tag) == IF tag.map # "none" THEN tag.map ELSE "struct"

\* The deserializer startElement gives an element, and the kinds that stay deferred.  A
\* type map's deserializer for an href is kept for the element with that id.
HasDeferred(tag) == \E d \in deferred : d.id = tag.id
Deserializer(tag) ==
  CASE tag.kind = "null"          -> [kind |-> "null", deferred |-> deferred]
    [] tag.kind # "null" /\ HasDeferred(tag) ->
         LET d == CHOOSE x \in deferred : x.id = tag.id
         IN [kind |-> d.kind, deferred |-> deferred \ {d}]
    [] ForType(tag) # "none"      -> [kind |-> ForType(tag), deferred |-> deferred]
    [] tag.map # "none" /\ tag.href # 0 ->
         [kind |-> "struct",
          deferred |-> {d \in deferred : d.id # tag.href} \cup {[id |-> tag.href, kind |-> ForChild(tag)]}]
    [] OTHER -> [kind |-> ForChild(tag), deferred |-> deferred]

Numbered(num, tag, kind) ==
  [heap EXCEPT !.node = Append(@, NewNode(tag.id)), !.ser = Append(@, NewDeserializer(kind, tag.size))]

\* startElement: the Envelope; an element of a header or of the Body; the Header and the
\* Body themselves (anything else between them is passed over)
StartEnvelope(num, tag) ==
  /\ num = 1
  /\ hr' = IF tag.name = "Envelope" THEN "ok" ELSE "not an envelope"
  /\ heap' = Numbered(num, tag, "struct")
  /\ UNCHANGED <<stack, inHeaders, gotBody, deferred>>

StartChild(num, tag) ==
  LET des == Deserializer(tag) IN
  /\ num # 1 /\ (gotBody \/ inHeaders)
  /\ hr' = HeaderCheck(tag)
  /\ IF hr' # "ok" THEN UNCHANGED <<stack, heap, deferred>>
     ELSE /\ heap' = Numbered(num, tag, des.kind)
          /\ deferred' = des.deferred
          /\ stack' = Push(num, tag)
  /\ UNCHANGED <<inHeaders, gotBody>>

StartSection(num, tag) ==
  /\ num # 1 /\ ~gotBody /\ ~inHeaders
  /\ inHeaders' = (tag.name = "Header")
  /\ gotBody' = (tag.name = "Body")
  /\ heap' = Numbered(num, tag, "struct")
  /\ stack' = IF tag.name \in {"Header", "Body"} THEN Push(num, tag) ELSE stack
  /\ UNCHANGED <<deferred, hr>>

StartElement(tag) ==
  LET num == Len(doc) + 1 IN
  /\ hr = "ok"
  /\ doc' = Append(doc, [tag |-> tag, in |-> IF stack = <<>> THEN 0 ELSE Top.num])
  /\ chars' = EMPTY
  /\ StartEnvelope(num, tag) \/ StartChild(num, tag) \/ StartSection(num, tag)

\* charData
CharData(v) ==
  /\ hr = "ok"
  /\ chars' = v
  /\ UNCHANGED <<doc, stack, inHeaders, gotBody, deferred, heap, hr>>

\* Characters: only CSerializerNode keeps the text
Characters(h, num) == IF h.ser[num].kind = "struct" THEN NodeCharacters(h, num, chars) ELSE h

\* The open elements wait, each for the one in it, the innermost for the id; none of
\* them can be completed when it ends
Wait(h, href) ==
  FoldLeft(LAMBDA g, i : Add(g, stack[i].num, 0, stack[i + 1].num),
           Add(h, Parent.num, href, 0),
           [i \in 1..Len(stack) - 2 |-> Len(stack) - 1 - i])

\* A mutant: an element is taken to be complete though an element in it waits
BugWaiting == Front(stack)
Waiting == [i \in 1..Len(stack) - 1 |-> [stack[i] EXCEPT !.canComplete = FALSE]]

\* endElement.  Section 5 encoding is in force.  What ChildRef returns is forgotten
\* when the object is known already
EndElement ==
  LET num == Top.num
      tag == doc[num].tag
      isRef == tag.href # 0
      open == {stack[i].num : i \in DOMAIN stack}
      read == Characters(heap, num)
      done == IF ~isRef /\ Top.canComplete THEN End(read, num) ELSE read
      ref  == ChildRef(done, Parent.num, tag.href, num, tag)
      told == CASE Len(stack) = 1 -> done
                [] Len(stack) > 1 /\ ~isRef -> Child(done, Parent.num, num, Top.canComplete, tag)
                [] Len(stack) > 1 /\ isRef /\ Known(heap, tag.href) ->
                     Ref([ref EXCEPT !.ok = TRUE], Parent.num, tag.href, Lookup(ref, tag.href))
                [] OTHER -> Wait(ref, tag.href)
      waits == isRef /\ ~Known(heap, tag.href)
  IN
  /\ hr = "ok" /\ stack # <<>>
  /\ heap' = IF Top.canComplete /\ tag.id # 0 THEN ProcessID(told, num, tag.id, open) ELSE told
  /\ stack' = IF waits THEN Waiting ELSE Front(stack)
  /\ inHeaders' = (inHeaders /\ tag.name # "Header")
  /\ chars' = EMPTY
  /\ hr' = IF told.ok THEN "ok" ELSE "array position"
  /\ UNCHANGED <<doc, gotBody, deferred>>

EndOutside ==
  /\ hr = "ok" /\ stack = <<>> /\ doc # <<>>
  /\ chars' = EMPTY
  /\ UNCHANGED <<doc, stack, inHeaders, gotBody, deferred, heap, hr>>

InitParser ==
  /\ doc = <<>> /\ stack = <<>> /\ chars = EMPTY
  /\ inHeaders = FALSE /\ gotBody = FALSE /\ deferred = {}
  /\ heap = NoHeap /\ hr = "ok"
=============================================================================
