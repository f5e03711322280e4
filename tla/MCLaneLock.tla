----------------------------- MODULE MCLaneLock -----------------------------
(* Model values for checking LaneLock. *)
EXTENDS LaneLock

CONSTANTS t1, t2, t3, k1, k2, l1, l2, l3

MCThread == {t1, t2, t3}
MCKey == {k1, k2}
MCLane == {l1, l2, l3}
=============================================================================
