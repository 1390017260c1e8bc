----------------------------- MODULE BodyStream -----------------------------
(***************************************************************************)
(* What reading a response promises to the application, whichever transfer *)
(* decoder does it: pieces of the body in order, none larger than asked    *)
(* for, one end once all of it was given, and the connection given up with *)
(* the end or with the last piece.  When the response is not whole (its    *)
(* server stops early, or a read fails) the connection may be given up and *)
(* the end be told at any time.  TransferDecoder implements it.            *)
(***************************************************************************)
EXTENDS Integers, Sequences

CONSTANT MaxPiece    \* the most the application asks for

VARIABLES
  whole,    \* the server sends all of the response and no read fails
  given,    \* the bytes the application was given
  rest,     \* the bytes of the body it has not been given yet
  ended,    \* it was told of the end
  held      \* the transport has the connection

vars == <<whole, given, rest, ended, held>>

Spans(s) == {n \in 1..MaxPiece : n <= Len(s)}
MayEnd == whole => rest = <<>>

\* Read returns the next n bytes
Give ==
  /\ ~ended
  /\ \E n \in Spans(rest) : /\ given' = given \o SubSeq(rest, 1, n)
                              /\ rest' = SubSeq(rest, n + 1, Len(rest))
  /\ held' \in IF MayEnd' THEN {held, FALSE} ELSE {held}
  /\ UNCHANGED <<whole, ended>>

\* The connection is given up before the application learns of it
Drop == MayEnd /\ held = TRUE /\ held' = FALSE /\ UNCHANGED <<whole, given, rest, ended>>

\* Read returns nothing
End == MayEnd /\ held' = FALSE /\ ended' = TRUE /\ UNCHANGED <<whole, given, rest>>

Init == given = <<>> /\ held = TRUE /\ ended = FALSE     \* rest is the whole body

Next == Give \/ Drop \/ End

Spec == Init /\ [][Next]_vars
=============================================================================
