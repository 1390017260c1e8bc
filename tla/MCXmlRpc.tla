------------------------------ MODULE MCXmlRpc ------------------------------
(* Small instances of XmlRpc for TLC *)
EXTENDS XmlRpc

Struct(n) == V("struct", n, <<>>)
Array(items) == V("array", 0, items)
Members_(f) == V("struct", 0, f)

\* String 3 has characters to escape; a currency, say, has no XML-RPC form
Other == Scalar("currency", 0)

SmallValues ==
  {Array(<<Scalar("i4", 5), Other, Scalar("i4", 5)>>), Scalar("string", 3),
   Array(<<Struct(2), Scalar("date", 1)>>), Other}

SmallArguments ==
  {<<Struct(1), Scalar("string", 3)>>,
   <<Array(<<Scalar("base64", 2), Array(<<>>)>>), Struct(1), Scalar("boolean", 1)>>,
   <<Scalar("i4", 1), Array(<<Other>>)>>}

Leaves == {Scalar("i4", 5), Scalar("string", 0), Scalar("string", 3), Scalar("base64", 0), Scalar("base64", 2),
           Scalar("date", 0), Scalar("double", 1), Scalar("nil", 0)}
Nested == {Array(<<x, y>>) : x, y \in {Scalar("string", 3), Scalar("nil", 0), Array(<<>>)}}
          \cup {Members_((1 :> x) @@ (2 :> y)) : x, y \in {Scalar("i4", 5), Scalar("base64", 2), Members_(<<>>), Array(<<Scalar("string", 0)>>)}}
Faults == {Members_((1 :> Scalar("i4", c)) @@ (2 :> Scalar("string", d))) : c \in {4, 64536, 70000}, d \in {0, 3}}
          \cup {Members_((1 :> Scalar("string", 4))), Scalar("string", 3)}

SmallAnswers ==
  {Answer("params", v) : v \in Leaves \cup Nested} \cup {Answer("fault", v) : v \in Faults}
  \cup {Answer("page", Scalar("string", 3))}

SmallLayouts ==
  {Layout(FALSE, "i4", FALSE, FALSE), Layout(TRUE, "int", TRUE, TRUE),
   Layout(TRUE, "i4", FALSE, FALSE), Layout(FALSE, "int", TRUE, TRUE)}

\* The second call passes on what the first gave
Bounded == stage = "sent" /\ calls = 2 => Len(request) = 1
=============================================================================
