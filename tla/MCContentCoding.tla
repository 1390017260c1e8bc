--------------------------- MODULE MCContentCoding ---------------------------
(* Small instances of ContentCoding for TLC *)
EXTENDS ContentCoding

\* Texts, and how a server's zlib may cut them: a token may decode to nothing
Cuts == {<<<<>>, <<>>>>, <<<<1>>, <<1>>>>, <<<<1, 2, 3>>, <<2, 3>>>>, <<<<1, 2, 3>>, <<0, 3>>>>}

\* Codings with what the first read of the response brings at least
Codings ==
  {[gzip |-> TRUE, zhead |-> FALSE, fields |-> f[1], first |-> f[2]] :
     f \in {<<{}, 1>>, <<{"extra", "hcrc"}, 1>>, <<{"name"}, 5>>, <<{"extra", "name", "comment"}, 10>>,
            <<{"name", "hcrc"}, 3>>}}
  \cup {[gzip |-> FALSE, zhead |-> z[1], fields |-> {}, first |-> z[2]] :
     z \in {<<FALSE, 1>>, <<TRUE, 2>>, <<TRUE, 1>>}}

SmallSessions ==
  {[text |-> t[1], cuts |-> t[2], gzip |-> c.gzip, zhead |-> c.zhead, fields |-> c.fields,
    first |-> c.first, looksPast |-> l, room |-> r, whole |-> w] :
     t \in Cuts, c \in Codings, l \in BOOLEAN, r \in {1, 3, 4}, w \in BOOLEAN}
=============================================================================
