------------------------------ MODULE MCRouter ------------------------------
(* Model values for checking Router. *)
EXTENDS Router

CONSTANTS c1, c2, w1, w2

Submitters == {c1, c2}
Workers == {w1, w2}
=============================================================================
