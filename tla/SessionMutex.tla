---------------------------- MODULE SessionMutex ----------------------------
(***************************************************************************)
(* What internal/router/lane.go promises its callers: a worker asks for    *)
(* the lane of a session key, waits, runs alone among the workers of that  *)
(* key, and leaves.  A try may also be refused.  There is no lane object,  *)
(* no reference count and no garbage collection here; LaneLock implements  *)
(* this specification.                                                     *)
(***************************************************************************)
CONSTANTS Thread,   \* worker goroutines that may hold a lane
          Key       \* router.SessionKey values

VARIABLES phase,    \* phase[t]: "out", "asking" or "in"
          wanted    \* wanted[t]: the key t asked for last

vars == <<phase, wanted>>

Init == /\ phase = [t \in Thread |-> "out"]
        /\ wanted \in [Thread -> Key]

Ask(t, k) == /\ phase[t] = "out"
             /\ phase' = [phase EXCEPT ![t] = "asking"]
             /\ wanted' = [wanted EXCEPT ![t] = k]

\* Nobody else is inside the section of t's key.
Enter(t) == /\ phase[t] = "asking"
            /\ \A u \in Thread : phase[u] = "in" => wanted[u] # wanted[t]
            /\ phase' = [phase EXCEPT ![t] = "in"]
            /\ UNCHANGED wanted

\* A try that finds the lane busy gives up.
Refuse(t) == /\ phase[t] = "asking"
             /\ phase' = [phase EXCEPT ![t] = "out"]
             /\ UNCHANGED wanted

Leave(t) == /\ phase[t] = "in"
            /\ phase' = [phase EXCEPT ![t] = "out"]
            /\ UNCHANGED wanted

Next == \E t \in Thread :
           \/ \E k \in Key : Ask(t, k)
           \/ Enter(t)
           \/ Refuse(t)
           \/ Leave(t)

Spec == Init /\ [][Next]_vars
=============================================================================
