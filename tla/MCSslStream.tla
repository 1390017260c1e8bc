---------------------------- MODULE MCSslStream ----------------------------
(* Small instances of SslStream for TLC *)
EXTENDS SslStream

Rec(kind, n, after) == [kind |-> kind, n |-> n, after |-> after]

\* Handshakes of one or two records, with and without a certificate asked for
Handshakes == {<<Rec("hs", 1, 0)>>, <<Rec("cert", 1, 0), Rec("hs", 0, 0)>>}
\* Data the server sends with its last record of the handshake
Bundles == {<<>>, <<Rec("data", 2, 0)>>}
\* Answers to one or two requests, of up to three records
Answers ==
  {<<Rec("data", 3, 1)>>,
   <<Rec("data", 1, 1), Rec("data", 2, 1)>>,
   <<Rec("data", 2, 1), Rec("data", 1, 1), Rec("data", 2, 2)>>}
Endings == {<<>>, <<Rec("notify", 0, 2)>>}

\* What a machine may lack, and the certificates it has for a server that asks
Lacking == {{}, {"policy"}}
Chains == {<<FALSE, TRUE>>, <<FALSE>>}

Session(h, d, e, close, whole, lacks, chains, proxied, reply) ==
  [records |-> h \o d \o e, close |-> close, whole |-> whole, lacks |-> lacks,
   chains |-> chains, proxied |-> proxied, reply |-> reply]

Direct ==
  {Session(h, b, a \o e, c, w, l, k, FALSE, <<>>) :
     h \in Handshakes, b \in Bundles, a \in Answers, e \in Endings, c \in BOOLEAN, w \in BOOLEAN, l \in Lacking,
     k \in Chains}

\* What proxies answer: yes, in one line or more, cut short, no, and no with a 200 in it
Replies ==
  {<<"text", "200", "text", "end">>, <<"200", "eol", "text", "end">>, <<"200", "eol">>,
   <<"200">>, <<"text", "end">>, <<"text", "eol", "200", "end">>}
Short == <<Rec("hs", 1, 0), Rec("data", 1, 1)>>
Lacks == {{}} \cup {{x} : x \in {"library", "store", "credentials", "certificate", "chain", "sizes"}}

Proxied ==
  {Session(Short, <<>>, <<>>, c, w, l, <<>>, TRUE, y) :
     c \in BOOLEAN, w \in BOOLEAN, l \in Lacks, y \in Replies}

SmallSessions == Direct \cup Proxied
=============================================================================
