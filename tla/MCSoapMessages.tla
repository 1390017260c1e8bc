--------------------------- MODULE MCSoapMessages ---------------------------
(* Small instances of SoapMessages for TLC *)
EXTENDS SoapMessages

T(n) == [k |-> "text", n |-> n]
Nil == [k |-> "null", n |-> 0]
Obj(n) == [k |-> "obj", n |-> n]
O(kind, fields) == [kind |-> kind, fields |-> fields]
Part(v, must) == [v |-> v, root |-> TRUE, must |-> must]

\* Object 1 is the method.  Parameters that share objects, at several depths, objects
\* in arrays, arrays in objects, objects the header has as well
Graphs ==
  {<<O("struct", <<Obj(2), Obj(3)>>), O(k1, <<Obj(3), T(1)>>), O(k2, <<T(2), Nil>>), O("struct", <<T(3)>>)>> :
     k1, k2 \in {"struct", "object", "array"}}
  \cup
  {<<O("struct", <<Obj(2), Obj(4)>>), O(k1, <<Obj(4), Obj(3)>>), O(k2, <<Obj(4)>>), O("object", <<Obj(5)>>),
     O("struct", <<T(1), T(2)>>)>> : k1, k2 \in {"struct", "object", "array"}}

Headers == {<<>>, <<Part(Obj(4), 2)>>, <<Part(T(7), 1), Part(Obj(4), 0)>>}

SmallMessages ==
  {[objects |-> g, header |-> h, body |-> <<Part(Obj(1), 0)>>, rootFirst |-> f] :
     g \in Graphs, h \in Headers, f \in BOOLEAN}

Declared == <<1, 3>>

\* Long chains of references; positions; arrays of any size
SmallStyles ==
  {Style({"none", "object", "array"}, {2}, {-1}, {"none"}, {1, 2}, 5),
   Style({"none", "array"}, {2}, {-1, 1}, {"none", "object"}, {1, 2}, 4),
   Style({"none", "array", "null"}, {1, Unbounded}, {-1, 1}, {"none"}, {1}, 4)}
=============================================================================
