------------------------------ MODULE MCFactory ------------------------------
(***************************************************************************)
(* Factory for TLC: an agent that moves, changes its memory or goes away   *)
(* beside one that stays.  Each budget is a scenario: two edits; a job     *)
(* with one sub-agent more than may run at once, whose tools a message     *)
(* registers; an edit beside a save; reloads beside messages and a job.    *)
(***************************************************************************)
EXTENDS Factory

MCAgent == {"a", "b"}
MCEditor == {"e1", "e2"}
MCSession == {"s1", "s2"}
MCDefaultDir == [x \in {"a", "b"} |-> IF x = "a" THEN "agents/a" ELSE "agents/b"]
MCZeroAgent == [dir |-> "", memory |-> TRUE, default |-> FALSE, users |-> {}, threads |-> {},
                groups |-> {}, channels |-> {}, list |-> FALSE, decodes |-> TRUE]

ForA == [MCZeroAgent EXCEPT !.channels = {"tg"}]
ForB == [MCZeroAgent EXCEPT !.default = TRUE]
Doc(agents) == [tag |-> "doc", plugins |-> "p1", section |-> TRUE, agents |-> agents]

MCStart == Doc([x \in {"a", "b"} |-> IF x = "a" THEN ForA ELSE ForB])
Moved2 == Doc([MCStart.agents EXCEPT !["a"].dir = "d2"])
Forgetful == Doc([MCStart.agents EXCEPT !["a"].memory = FALSE])
TwoDefaults == Doc([MCStart.agents EXCEPT !["a"].default = TRUE])
Undecoded == Doc([MCStart.agents EXCEPT !["a"].decodes = FALSE])
Plugged == [Moved2 EXCEPT !.plugins = "p2"]
NoAgents == Doc(<<>>)
NoSection == [Doc(<<>>) EXCEPT !.section = FALSE]
MCDocument == {MCStart, Moved2, Forgetful, Undecoded, Plugged, NoAgents}

\* A patch that moves "a" and removes "b", a document without a section and one
\* that is refused.
MovePatch == [x \in {"a", "b"} |->
                IF x = "a" THEN [null |-> FALSE, set |-> [k \in {"dir"} |-> "d2"]]
                           ELSE [null |-> TRUE, set |-> <<>>]]
MCEdit == {[patch |-> TRUE, agents |-> MovePatch, doc |-> MCStart],
           [patch |-> FALSE, agents |-> <<>>, doc |-> NoSection],
           [patch |-> FALSE, agents |-> <<>>, doc |-> TwoDefaults]}

MCMsg == [s \in {"s1", "s2"} |->
            [user |-> "u", thread |-> "", chat |-> s,
             channel |-> IF s = "s1" THEN "tg" ELSE "other"]]
MCAgentOrder == <<"a", "b">>

Nothing == [edits |-> 0, saves |-> 0, requests |-> 0, messages |-> 0, jobs |-> 0, stops |-> 0,
            spawns |-> 0]
MCBudgets == {[Nothing EXCEPT !.edits = 2],
              [Nothing EXCEPT !.messages = 1, !.jobs = 1, !.spawns = 2, !.stops = 1],
              [Nothing EXCEPT !.edits = 1, !.saves = 1],
              [Nothing EXCEPT !.saves = 2, !.requests = 1],
              [Nothing EXCEPT !.saves = 2, !.messages = 1],
              [Nothing EXCEPT !.saves = 1, !.requests = 1, !.messages = 1],
              [Nothing EXCEPT !.saves = 1, !.jobs = 1],
              [Nothing EXCEPT !.messages = 2]}
=============================================================================
