------------------------- MODULE MCFactExtraction -------------------------
(* Model values for checking FactExtraction. *)
EXTENDS FactExtraction, TLC

CONSTANTS k1, k2

OneKey == {k1}
TwoKeys == {k1, k2}

\* Sessions are interchangeable.
Symmetry == Permutations(Key)
=============================================================================
