---------------------------- MODULE MCAttachments ----------------------------
(* Small instances of Attachments for TLC *)
EXTENDS Attachments

A(n) == [i \in 1..n |-> T("a", <<i>>)]
Bdy(b) == <<T("M", <<>>), T("b", <<b>>)>>

\* Parts: empty ones, ones that fill buffers and files, and data that looks like
\* a boundary, or half of one
Bodies ==
  {<<A(2)>>, <<A(1), <<>>, A(2)>>, <<A(3), A(13)>>,
   <<A(1), A(10) \o Bdy(0)>>,
   <<A(9) \o <<CRLF, T("D", <<>>), T("M", <<>>)>>, <<CRLF, T("D", <<>>)>> \o Bdy(1)>>}

\* What an earlier answer left, whether this one comes whole, and whether the disk takes it
Answers ==
  {<<<<>>, TRUE, TRUE>>, <<<<>>, FALSE, TRUE>>, <<<<>>, TRUE, FALSE>>,
   <<<<[id |-> 1, data |-> A(1)]>>, TRUE, TRUE>>}

SmallSessions ==
  {[parts |-> p, mime |-> TRUE, preamble |-> b, chunk |-> 1, start |-> b,
    old |-> w[1], whole |-> w[2], disk |-> w[3]] : p \in Bodies, b \in BOOLEAN, w \in Answers}
  \cup
  {[parts |-> p, mime |-> FALSE, preamble |-> FALSE, chunk |-> c, start |-> FALSE,
    old |-> w[1], whole |-> w[2], disk |-> w[3]] : p \in Bodies, c \in {3, 20}, w \in Answers}
=============================================================================
