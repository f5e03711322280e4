---------------------------- MODULE MCScheduler ----------------------------
(* Model values for checking Scheduler. *)
EXTENDS Scheduler

CONSTANTS s1, s2, s3, main, j1, j2

Scheds == {s1, s2, s3}
Runs == {j1, j2}
Reloaders == {main}
Callers == Reloaders \cup Runs

\* A schedule that parses and one that does not; cron_update mends the schedule
\* or changes the prompt.
Crons == {"digest"}
CreateArgs == {[schedule |-> s, prompt |-> "p"] : s \in {"daily", "bad"}}
Scenarios == {[calls |-> 2, overlaps |-> FALSE], [calls |-> 0, overlaps |-> TRUE]}
UpdateArgs == {[schedule |-> "daily"], [prompt |-> "q"]}
=============================================================================
