------------------------- MODULE MCTransferDecoder -------------------------
(* Small instances of TransferDecoder for TLC *)
EXTENDS TransferDecoder

Chunkings == {<<1>>, <<2>>, <<3>>, <<1, 2>>, <<2, 1>>, <<1, 1, 1>>}
Plain(kind, chunks, close) ==
  [kind |-> kind, chunks |-> chunks, ext |-> 0, trailer |-> 0, close |-> close,
   whole |-> TRUE]
Broken(S) == {[r EXCEPT !.whole = FALSE] : r \in S}

\* Bodies of up to three bytes; chunk extensions up to the size buffer, trailers
\* beyond the trailers buffer; and a few of the responses cut short
WholeResponses ==
  {Plain("length", c, b) : c \in {<<>>, <<1>>, <<3>>}, b \in BOOLEAN}
  \cup {Plain("close", c, TRUE) : c \in {<<>>, <<3>>}}
  \cup {[Plain("chunked", c, b) EXCEPT !.ext = e, !.trailer = t] :
          c \in Chunkings \cup {<<>>}, e \in {0, 2}, t \in {0, 1, 4, 7}, b \in BOOLEAN}
FewResponses ==
  {Plain("length", <<2>>, FALSE), Plain("close", <<2>>, TRUE)}
  \cup {[Plain("chunked", <<1, 2>>, b) EXCEPT !.trailer = 2] : b \in BOOLEAN}
SmallResponses == WholeResponses \cup Broken(FewResponses)
=============================================================================
