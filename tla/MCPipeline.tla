----------------------------- MODULE MCPipeline -----------------------------
(* Model values, kinds and faults for checking Pipeline. *)
EXTENDS Pipeline, TLC

CONSTANTS w1, w2, k1, k2, s1, s2, s3

Workers == {w1, w2}
OneKey == {k1}
TwoKeys == {k1, k2}
Sessions == {s1, s2, s3}

NoFaults == {}
TextAndNew == {"text", "new"}

\* Workers, sessions and keys are interchangeable.
Symmetry == Permutations(Worker) \cup Permutations(Sess) \cup Permutations(Key)

\* Of the history variables, what an invariant can still depend on: caveats are
\* never taken back, and "failed" voids what "torn" and "unpurged" void.
ViewCaveats(k) == IF "failed" \in caveats[k] THEN {"failed"}
                  ELSE IF "torn" \in caveats[k] THEN {"torn"} ELSE caveats[k]
ViewForgotten(k) == IF caveats[k] = {} THEN forgotten[k] ELSE {}

\* Sessions nothing points to are garbage, and are initialised when they are used
\* again: what they hold does not matter.
ViewSession(s) == IF Unreachable(s) THEN Nil
                  ELSE <<agent[s], hist[s], idle[s], restored[s]>>

View == <<inbox, nextId, store, [s \in Sess |-> ViewSession(s)], db, lane, locals, restarts,
          settled, [k \in Key |-> <<ViewCaveats(k), ViewForgotten(k)>>]>>
=============================================================================
