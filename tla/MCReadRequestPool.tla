------------------------- MODULE MCReadRequestPool -------------------------
(* Small instances of ReadRequestPool for TLC: two callers are enough for one  *)
(* signal to hide another, two pool threads for one to leave while the other   *)
(* works, two requests for one to be left over while its address is not reused *)
EXTENDS ReadRequestPool
=============================================================================
