------------------------------ MODULE SubAgents ------------------------------
(***************************************************************************)
(* internal/subagent/manager.go: the sub-agents a turn spawns.  Spawn      *)
(* registers a sub-agent and takes a slot under m.mu, builds its loop      *)
(* outside the lock and starts a goroutine; Kill, Send, Shutdown and the   *)
(* goroutine itself change the status under the sub-agent's own mutex, and *)
(* the slot is given back in a later critical section.                     *)
(***************************************************************************)
EXTENDS Naturals, FiniteSets

CONSTANTS
    MaxConcurrent,  \* ManagerConfig.MaxConcurrent
    MaxHistory,     \* ManagerConfig.MaxHistory
    MaxSpawns       \* bound: sub-agents ever registered

ASSUME SubAgentsAssumption ==
    {MaxConcurrent, MaxHistory, MaxSpawns} \subseteq Nat \ {0}

VARIABLES
    status,   \* SubAgent.Status, "none" before the spawn
    run,      \* where the goroutine (or the Spawn that starts it) is
    subctx,   \* agentCtx: live, cancelled or past its deadline
    owner,    \* ParentID and SessionID
    history,  \* number of messages of SubAgent.History
    active,   \* Manager.active
    settled   \* history variable: the first final status of each sub-agent

subvars == <<status, run, subctx, owner, history, active, settled>>

SubAgent == 1..MaxSpawns
Final == {"completed", "failed", "timeout", "killed"}
Nobody == [parent |-> "", session |-> ""]

SubAgentsInit ==
    /\ status = [id \in SubAgent |-> "none"]
    /\ run = [id \in SubAgent |-> "none"]
    /\ subctx = [id \in SubAgent |-> "live"]
    /\ owner = [id \in SubAgent |-> Nobody]
    /\ history = [id \in SubAgent |-> 0]
    /\ active = 0
    /\ settled = [id \in SubAgent |-> "none"]

\* SubAgent.Status is set to a final value.
SetStatus(id, s) ==
    /\ status' = [status EXCEPT ![id] = s]
    /\ settled' = [settled EXCEPT ![id] = IF @ = "none" THEN s ELSE @]

Fresh(id) == status[id] = "none" /\ \A k \in 1..(id - 1) : status[k] # "none"

\* The cross-session check: a sub-agent of the same parent in another session.
CrossSession(own) ==
    /\ own.session # "" /\ own.parent # ""
    /\ \E k \in SubAgent : /\ status[k] # "none"
                           /\ owner[k].parent = own.parent
                           /\ owner[k].session \notin {"", own.session}

\* Mutant: the number of running sub-agents is not compared with the limit.
SpawnUnlimited(id, own) ==
    /\ Fresh(id)
    /\ ~CrossSession(own)
    /\ status' = [status EXCEPT ![id] = "running"]
    /\ run' = [run EXCEPT ![id] = "starting"]
    /\ owner' = [owner EXCEPT ![id] = own]
    /\ history' = [history EXCEPT ![id] = 1]
    /\ active' = active + 1
    /\ UNCHANGED <<subctx, settled>>

\* Spawn up to the unlock; a refused spawn changes nothing.  The sub-agent's
\* context ends with the context of the tool call, or at its own timeout.
Spawn(id, own) ==
    /\ Fresh(id)
    /\ ~CrossSession(own)
    /\ active < MaxConcurrent
    /\ status' = [status EXCEPT ![id] = "running"]
    /\ run' = [run EXCEPT ![id] = "starting"]
    /\ owner' = [owner EXCEPT ![id] = own]
    /\ history' = [history EXCEPT ![id] = 1]
    /\ active' = active + 1
    /\ UNCHANGED <<subctx, settled>>

\* LoopFactory.NewLoop gives a loop, and the goroutine starts.
SpawnLoop(id) ==
    /\ run[id] = "starting"
    /\ run' = [run EXCEPT ![id] = "running"]
    /\ UNCHANGED <<status, subctx, owner, history, active, settled>>

\* Mutant: the slot is not given back when there is no loop.
SpawnNoLoopKeepsSlot(id) ==
    /\ run[id] = "starting"
    /\ run' = [run EXCEPT ![id] = "done"]
    /\ subctx' = [subctx EXCEPT ![id] = "cancelled"]
    /\ SetStatus(id, "failed")
    /\ UNCHANGED <<owner, history, active>>

\* NewLoop fails: the status is overwritten, killed or not.
SpawnNoLoop(id) ==
    /\ run[id] = "starting"
    /\ run' = [run EXCEPT ![id] = "done"]
    /\ subctx' = [subctx EXCEPT ![id] = "cancelled"]
    /\ SetStatus(id, "failed")
    /\ active' = active - 1
    /\ UNCHANGED <<owner, history>>

\* Mutant: the sub-agent's context has no timeout of its own.
NoDeadline(id) ==
    /\ run[id] \in {"starting", "running"} /\ subctx[id] = "live"
    /\ FALSE
    /\ UNCHANGED subvars

Deadline(id) ==
    /\ run[id] \in {"starting", "running"} /\ subctx[id] = "live"
    /\ subctx' = [subctx EXCEPT ![id] = "expired"]
    /\ UNCHANGED <<status, run, owner, history, active, settled>>

\* The history with an answer, cut to its last MaxHistory messages.
Capped(n) == IF n > MaxHistory THEN MaxHistory ELSE n

\* Mutant: the outcome of the loop replaces the killed status.
RunReturnsOver(id, outcome) ==
    /\ run[id] = "running"
    /\ subctx[id] # "live" \/ outcome # "cancelled"
    /\ run' = [run EXCEPT ![id] = "returned"]
    /\ status' = [status EXCEPT ![id] = IF outcome = "cancelled" THEN "failed" ELSE outcome]
    /\ settled' = [settled EXCEPT ![id] = IF @ = "none" THEN status'[id] ELSE @]
    /\ subctx' = [subctx EXCEPT ![id] = "cancelled"]
    /\ UNCHANGED <<owner, history, active>>

\* loop.Run returns: with an answer, with an error of its own (which may be a
\* deadline of its own), or because the context ended.  Killed is kept.  Nobody
\* looks at the context any more.
RunReturns(id, outcome) ==
    /\ run[id] = "running"
    /\ subctx[id] # "live" \/ outcome # "cancelled"
    /\ run' = [run EXCEPT ![id] = "returned"]
    /\ IF status[id] = "killed"
         THEN UNCHANGED <<status, settled, history>>
         ELSE /\ SetStatus(id, IF outcome = "cancelled" THEN "failed" ELSE outcome)
              /\ history' = [history EXCEPT ![id] =
                               IF outcome = "completed" THEN Capped(@ + 1) ELSE @]
    /\ subctx' = [subctx EXCEPT ![id] = "cancelled"]
    /\ UNCHANGED <<owner, active>>

\* runAgent's deferred call.
FreeSlot(id) ==
    /\ run[id] = "returned"
    /\ run' = [run EXCEPT ![id] = "done"]
    /\ active' = active - 1
    /\ UNCHANGED <<status, subctx, owner, history, settled>>

Send(id) ==
    /\ status[id] = "running"
    /\ history[id] <= MaxHistory
    /\ history' = [history EXCEPT ![id] = @ + 1]
    /\ UNCHANGED <<status, run, subctx, owner, active, settled>>

Cancelled(ids) ==
    [id \in SubAgent |-> IF id \in ids /\ subctx[id] = "live" THEN "cancelled" ELSE subctx[id]]

Kill(id) ==
    /\ status[id] = "running"
    /\ SetStatus(id, "killed")
    /\ subctx' = Cancelled({id})
    /\ UNCHANGED <<run, owner, history, active>>

Running == {id \in SubAgent : status[id] = "running"}

\* Shutdown kills what is running; a Spawn may still come after it.
Shutdown ==
    /\ status' = [id \in SubAgent |-> IF id \in Running THEN "killed" ELSE status[id]]
    /\ settled' = [id \in SubAgent |->
                     IF id \in Running /\ settled[id] = "none" THEN "killed" ELSE settled[id]]
    /\ subctx' = Cancelled(Running)
    /\ UNCHANGED <<run, owner, history, active>>

\* The turn whose tool calls spawned the sub-agents is over, and with it the
\* context theirs derive from.
CallerEnds ==
    /\ \A id \in SubAgent : run[id] # "starting"
    /\ subctx' = Cancelled({id \in SubAgent : run[id] = "running"})
    /\ UNCHANGED <<status, run, owner, history, active, settled>>

\* What the goroutines and the clock do on their own.
SubAgentSteps(id) ==
    \/ SpawnLoop(id)
    \/ SpawnNoLoop(id)
    \/ Deadline(id)
    \/ \E outcome \in {"completed", "failed", "timeout", "cancelled"} : RunReturns(id, outcome)
    \/ FreeSlot(id)

SubAgentFairness ==
    \A id \in SubAgent :
        /\ WF_subvars(SpawnLoop(id) \/ SpawnNoLoop(id))
        /\ WF_subvars(Deadline(id))
        /\ WF_subvars(RunReturns(id, "cancelled"))
        /\ WF_subvars(FreeSlot(id))

-----------------------------------------------------------------------------
\* ActiveCount: Manager.active counts the sub-agents that hold a slot, through
\* the spawns, kills, failures and returns of runAgent and the two critical
\* sections between a final status and its decrement, and it never exceeds
\* MaxConcurrent.
ActiveCount ==
    /\ active = Cardinality({id \in SubAgent : run[id] \in {"starting", "running", "returned"}})
    /\ active <= MaxConcurrent

\* FinalStatus: what List and History once reported as the outcome of a
\* sub-agent stays its outcome: a kill is not overwritten by the loop that
\* still returns.  Only a NewLoop that fails after a kill replaces it.
FinalStatus ==
    \A id \in SubAgent :
        settled[id] # "none" =>
            \/ status[id] = settled[id]
            \/ settled[id] = "killed" /\ status[id] = "failed" /\ run[id] = "done"

\* SlotsFreed: every spawn gives its slot back, whether the model answers or
\* not, because the context ends by Kill, by its timeout or with its caller.
SlotsFreed ==
    \A id \in SubAgent : run[id] = "starting" ~> run[id] = "done"

=============================================================================
