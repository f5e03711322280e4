------------------------------ MODULE ToolCalls ------------------------------
(***************************************************************************)
(* internal/agent/loop.go, guards.go and executor.go, internal/tool and    *)
(* internal/security/ratelimit.go: the turns of a session.  A turn calls   *)
(* the provider, runs the tool calls of its answer in parallel goroutines  *)
(* (lookup, rate limit, policy, elevation, approval, execution), gives the *)
(* results back and calls the provider again, until the model is done or a *)
(* guard ends it.  Goroutine i of a turn uses approval object i; the       *)
(* object is fresh for each call, as the channel of a fresh Begin is.      *)
(***************************************************************************)
EXTENDS PendingApproval, Sequences, FiniteSets

CONSTANTS
    Tool,           \* the registered tools
    Trim,           \* function: name as written -> strings.TrimSpace of it
    Call,           \* tool calls: records [tool, args], args in canonical form
    DefaultLevel,   \* function: tool -> Tool.DefaultPolicy()
    Executors,      \* ToolExecutorConfig: records [policies, context, requester, elevated]
    Usage,          \* tokens one completion may cost
    SetIterations, SetThreshold, TokenBudget,   \* LoopConfig as configured
    DefaultMaxIterations, DefaultLoopThreshold,
    ToolCallsPerMin, Window,                    \* RateLimitConfig, the minute
    MaxTime         \* bound: the clock

\* LoopConfig.withDefaults: a zero is no limit that is off but the default one.
OrDefault(set, default) == IF set <= 0 THEN default ELSE set
MaxIterations == OrDefault(SetIterations, DefaultMaxIterations)
LoopThreshold == OrDefault(SetThreshold, DefaultLoopThreshold)

ASSUME ToolCallsAssumption ==
    /\ {MaxIterations, LoopThreshold, ToolCallsPerMin, Window} \subseteq Nat \ {0}
    /\ {TokenBudget, MaxTime} \cup Usage \subseteq Nat
    /\ IsFiniteSet(Pending) /\ Pending = 1..Cardinality(Pending)
    /\ DefaultLevel \in [Tool -> {"allow", "ask", "deny"}]
    /\ \A n \in DOMAIN Trim : Trim[n] \in DOMAIN Trim /\ Trim[Trim[n]] = Trim[n]

VARIABLES
    cfg,       \* the executor's policies and the context it runs in, and whether it
               \* has a requester and an ElevatedState
    st,        \* where Run is
    ctx,       \* Run's context
    iter,      \* iterations begun
    usage,     \* tokenTracker.usage
    counts,    \* loopDetector.counts
    messages,  \* what the next completion is asked with
    calls,     \* the tool calls of the last completion
    slot,      \* where each executor goroutine is
    stop,      \* StopReason of the last turn
    now,       \* the clock
    events,    \* the session's "tool_call" bucket
    until,     \* ElevatedState.until, 0 when zero
    admitted,  \* history variable: when each tool call was admitted
    ran,       \* history variable: executions of each call in this turn
    granted,   \* history variable: calls <<iteration, index>> the user approved
    raised     \* history variable: calls admitted while elevation was active

loopvars == <<st, ctx, iter, usage, counts, messages, calls, stop>>
vars == <<cfg, loopvars, slot, now, events, until, admitted, ran, granted, raised,
          apvars>>

Slots == DOMAIN calls
Level == {"allow", "ask", "deny"}

-----------------------------------------------------------------------------
\* internal/tool/policy.go.  A policy has a default level ("" when unset), a
\* mapping of tools to levels and three lists of tools, with names as written.

\* The tools of the list for a level, trimmed.
Listed(pol, level) ==
    {Trim[n] : n \in CASE level = "allow" -> pol.allow
                       [] level = "ask" -> pol.ask
                       [] level = "deny" -> pol.deny}

\* The levels the mapping has for tool n once its keys are trimmed.
MappedTo(pol, n) == {pol.tools[k] : k \in {k \in DOMAIN pol.tools : Trim[k] = n}}

\* validatePolicy: no tool with two levels.  Of two keys that are the same once
\* trimmed, the one the iteration over the map meets last is compared with the
\* lists.
ValidPolicy(pol) ==
    /\ pol.default \in Level \cup {""}
    /\ \A k \in DOMAIN pol.tools : pol.tools[k] \in Level /\ Trim[k] # ""
    /\ \A l \in Level : "" \notin Listed(pol, l)
    /\ \A k, l \in Level : k # l => Listed(pol, k) \cap Listed(pol, l) = {}
    /\ \A n \in {Trim[k] : k \in DOMAIN pol.tools} :
          \E l \in MappedTo(pol, n) : \A m \in Level : n \in Listed(pol, m) => m = l

NoPolicy == [default |-> "", tools |-> [n \in {} |-> ""], allow |-> {}, ask |-> {}, deny |-> {}]

\* The policy of the context; in a context that is neither a dm nor a group
\* nothing is set.
PolicyOf(c) == IF c.context \in DOMAIN c.policies THEN c.policies[c.context] ELSE NoPolicy

\* ResolvePolicy: the mapping, by the keys as written, the lists in this order,
\* trimmed, the default of the context, the default of the tool.
ResolvePolicy(pol, t) ==
    LET n == Trim[t] IN
    CASE n \in DOMAIN pol.tools -> pol.tools[n]
      [] n \notin DOMAIN pol.tools /\ n \in Listed(pol, "allow") -> "allow"
      [] n \notin DOMAIN pol.tools /\ n \in Listed(pol, "ask") \ Listed(pol, "allow") -> "ask"
      [] n \notin DOMAIN pol.tools /\ n \in Listed(pol, "deny") \ (Listed(pol, "allow") \cup Listed(pol, "ask")) -> "deny"
      [] OTHER -> IF pol.default # "" THEN pol.default ELSE DefaultLevel[t]

-----------------------------------------------------------------------------
\* internal/security/ratelimit.go and internal/tool/elevated.go.

\* Where the loop of bucket.evict may stop: no event is left, or the next one is
\* not older than `age`.
Stops(t, age) == {i \in 0..Len(events) : i < Len(events) => events[i + 1] >= t - age}

\* What the loop leaves of the events: it stops where it first may.
Rest(stops) == SubSeq(events, 1 + CHOOSE i \in stops : \A j \in stops : i <= j, Len(events))

\* Mutant: an event exactly one window old is evicted.
EvictEarly(t) == Rest(Stops(t, Window - 1))

\* bucket.evict: only what is older than the window goes.
Evict(t) == Rest(Stops(t, Window))

IsActive == until # 0 /\ now < until

\* ElevatedState.Apply.
Apply(level) == IF level = "ask" /\ IsActive THEN "allow" ELSE level

Elevate(d) ==
    /\ cfg.elevated
    /\ until' = now + d
    /\ UNCHANGED <<cfg, loopvars, slot, now, events, admitted, ran, granted, raised,
                   apvars>>

Revoke ==
    /\ until # 0
    /\ until' = 0
    /\ UNCHANGED <<cfg, loopvars, slot, now, events, admitted, ran, granted, raised,
                   apvars>>

\* Time passes.  An elevation that expires is as good as none.
Tick ==
    /\ now < MaxTime
    /\ now' = now + 1
    /\ until' = IF until > now + 1 THEN until ELSE 0
    /\ UNCHANGED <<cfg, loopvars, slot, events, admitted, ran, granted,
                   raised, apvars>>

-----------------------------------------------------------------------------
\* Loop.Run.

Init ==
    /\ cfg \in {x \in Executors : \A c \in DOMAIN x.policies : ValidPolicy(x.policies[c])}
    /\ st = "idle"
    /\ ctx = "live"
    /\ iter = 0
    /\ usage = 0
    /\ counts = [g \in Call |-> 0]
    /\ messages = <<>>
    /\ calls = <<>>
    /\ slot = [i \in Pending |-> "none"]
    /\ stop = "none"
    /\ now = 1
    /\ events = <<>>
    /\ until = 0
    /\ admitted = <<>>
    /\ ran = [g \in Call |-> 0]
    /\ granted = {}
    /\ raised = {}
    /\ ApprovalInit

environment == <<cfg, now, events, until, admitted>>

StartTurn ==
    /\ st = "idle"
    /\ st' = "check"
    /\ ctx' = "live"
    /\ stop' = "none"
    /\ UNCHANGED <<environment, iter, usage, counts, messages, calls, slot, ran, granted, raised,
                   apvars>>

\* Run returns, and cancels its context.  Its locals are gone, and so are the
\* approval objects of its calls: what a requester that still runs answers is
\* read by nobody.
EndTurn(reason) ==
    /\ st' = "idle"
    /\ ctx' = "canceled"
    /\ stop' = reason
    /\ iter' = 0
    /\ usage' = 0
    /\ counts' = [g \in Call |-> 0]
    /\ messages' = <<>>
    /\ calls' = <<>>
    /\ slot' = [i \in Pending |-> "none"]
    /\ ran' = [g \in Call |-> 0]
    /\ granted' = {}
    /\ raised' = {}
    /\ pstate' = [p \in Pending |-> "idle"]
    /\ epoch' = [p \in Pending |-> 0]
    /\ chan' = [p \in Pending |-> [e \in 1..MaxBegins |-> "none"]]
    /\ errCh' = [p \in Pending |-> FALSE]
    /\ actx' = [p \in Pending |-> "live"]
    /\ asking' = {}
    /\ begin' = [p \in Pending |-> "out"]
    /\ verdict' = [p \in Pending |-> "none"]
    /\ UNCHANGED environment

\* The head of the loop: out of iterations, out of time, or one more round.
OutOfIterations ==
    /\ st = "check"
    /\ iter = MaxIterations
    /\ EndTurn("max_iterations")

ContextOver ==
    /\ st = "check"
    /\ iter < MaxIterations
    /\ ctx # "live"
    /\ EndTurn(IF ctx = "deadline" THEN "timeout" ELSE "error")

AskProvider ==
    /\ st = "check"
    /\ iter < MaxIterations
    /\ ctx = "live"
    /\ st' = "provider"
    /\ UNCHANGED <<environment, ctx, iter, usage, counts, messages, calls, stop, slot, ran, granted,
                   raised, apvars>>

\* provider.Complete fails, of itself or with the context.
CompleteFails ==
    /\ st = "provider"
    /\ EndTurn("error")

\* tokenTracker.exceeded.
Exceeded(u) == TokenBudget > 0 /\ u >= TokenBudget

Before(resp, g, k) == Cardinality({j \in 1..k : resp[j] = g})

\* Mutant: a call may repeat as often as the threshold says.
LoopDetectedLate(resp) ==
    \E k \in DOMAIN resp :
        counts[resp[k]] + Before(resp, resp[k], k) > LoopThreshold

\* loopDetector.record for each call, until one has repeated too often.
LoopDetected(resp) ==
    \E k \in DOMAIN resp :
        counts[resp[k]] + Before(resp, resp[k], k) >= LoopThreshold

\* provider.Complete answers with the tool calls resp and costs u tokens.
CompleteEnds(resp, u) ==
    /\ st = "provider"
    /\ \/ Exceeded(usage + u) /\ EndTurn("token_budget")
       \/ ~Exceeded(usage + u) /\ resp = <<>> /\ EndTurn("complete")
       \/ ~Exceeded(usage + u) /\ LoopDetected(resp) /\ EndTurn("loop_detected")

CompleteCalls(resp, u) ==
    /\ st = "provider"
    /\ resp # <<>>
    /\ ~Exceeded(usage + u)
    /\ ~LoopDetected(resp)
    /\ usage' = usage + u
    /\ counts' = [g \in Call |-> counts[g] + Before(resp, g, Len(resp))]
    /\ messages' = Append(messages, [role |-> "assistant",
                                     ids |-> [k \in DOMAIN resp |-> <<iter, k>>]])
    /\ calls' = resp
    /\ slot' = [i \in Pending |-> IF i \in DOMAIN resp THEN "start" ELSE "none"]
    /\ st' = "exec"
    /\ UNCHANGED <<environment, ctx, iter, stop, ran, granted, raised, apvars>>

-----------------------------------------------------------------------------
\* ToolExecutor.Execute: the goroutine of call i in Registry.Execute.

\* Registry.Get.
Known(i) == calls[i].tool \in Tool

\* RateLimiter.Allow.
Allowed == Len(Evict(now)) < ToolCallsPerMin

\* The tool is looked up and the session's bucket is asked.
Enter(i) ==
    /\ slot[i] = "start"
    /\ \/ /\ ~Known(i)
          /\ slot' = [slot EXCEPT ![i] = "done"]
          /\ UNCHANGED <<events, admitted>>
       \/ /\ Known(i) /\ ~Allowed
          /\ events' = Evict(now)
          /\ slot' = [slot EXCEPT ![i] = "done"]
          /\ UNCHANGED admitted
       \/ /\ Known(i) /\ Allowed
          /\ events' = Append(Evict(now), now)
          /\ admitted' = Append(admitted, now)
          /\ slot' = [slot EXCEPT ![i] = "decide"]
    /\ UNCHANGED <<cfg, loopvars, now, until, ran, granted, raised, apvars>>

Runs(i) ==
    /\ slot' = [slot EXCEPT ![i] = "run"]
    /\ ran' = [ran EXCEPT ![calls[i]] = @ + 1]

\* The policy as elevation adjusts it: refused, run, or asked about.
Decide(i) ==
    LET level == Apply(ResolvePolicy(PolicyOf(cfg), calls[i].tool)) IN
    /\ slot[i] = "decide"
    /\ raised' = IF IsActive THEN raised \cup {i} ELSE raised
    /\ \/ /\ level = "deny" \/ (level = "ask" /\ ~cfg.requester)
          /\ slot' = [slot EXCEPT ![i] = "done"]
          /\ UNCHANGED <<ran, apvars>>
       \/ /\ level = "allow"
          /\ Runs(i)
          /\ UNCHANGED apvars
       \/ /\ level = "ask"
          /\ cfg.requester
          /\ slot' = [slot EXCEPT ![i] = "ask"]
          /\ Begin(i, ctx)
          /\ UNCHANGED ran
    /\ UNCHANGED <<environment, loopvars, granted>>

RequesterAnswers(i, e, r) ==
    /\ RequesterReturns(i, e, r)
    /\ granted' = IF r = "yes" THEN granted \cup {<<i, e>>} ELSE granted
    /\ UNCHANGED <<environment, loopvars, slot, ran, raised>>

BeginWaits(i) ==
    /\ SelectResponse(i) \/ SelectError(i) \/ SelectDone(i) \/ ContextEnds(i, "deadline")
    /\ UNCHANGED <<environment, loopvars, slot, ran, granted, raised>>

\* Begin returns: the tool runs when the response approves.
BeginReturns(i) ==
    /\ slot[i] = "ask"
    /\ Leave(i)
    /\ IF verdict[i] = "yes" THEN Runs(i)
                             ELSE slot' = [slot EXCEPT ![i] = "done"] /\ UNCHANGED ran
    /\ UNCHANGED <<environment, loopvars, granted, raised>>

\* Tool.Execute returns, fails, or panics and is recovered.
ToolReturns(i) ==
    /\ slot[i] = "run"
    /\ slot' = [slot EXCEPT ![i] = "done"]
    /\ UNCHANGED <<environment, loopvars, ran, granted, raised, apvars>>

\* Mutant: a call of a tool that is not registered has no record.
ResultsOfKnown == SelectSeq([k \in DOMAIN calls |-> [role |-> "tool", ids |-> <<<<iter, k>>>>]],
                            LAMBDA m : calls[m.ids[1][2]].tool \in Tool)

\* The records, in the order of the calls whatever the order they ended in.
Results == [k \in DOMAIN calls |-> [role |-> "tool", ids |-> <<<<iter, k>>>>]]

\* wg.Wait() returns; the results go back into the conversation.
Executed ==
    /\ st = "exec"
    /\ \A i \in Slots : slot[i] = "done"
    /\ messages' = messages \o Results
    /\ iter' = iter + 1
    /\ st' = "check"
    /\ calls' = <<>>
    /\ slot' = [i \in Pending |-> "none"]
    /\ raised' = {}
    /\ UNCHANGED <<environment, ctx, usage, counts, stop, ran, granted, apvars>>

\* Run's timeout, or the cancellation of the context it was given.
TurnContextEnds(why) ==
    /\ st # "idle"
    /\ ctx = "live"
    /\ ctx' = why
    /\ actx' = [p \in Pending |-> IF begin[p] # "out" /\ actx[p] = "live" THEN why ELSE actx[p]]
    /\ UNCHANGED <<environment, st, iter, usage, counts, messages, calls, stop, slot, ran, granted,
                   raised, pstate, epoch, chan, errCh, asking, begin, verdict>>

Responses == UNION {[1..n -> Call] : n \in 0..Cardinality(Pending)}

Executor(i) == Enter(i) \/ Decide(i) \/ BeginWaits(i) \/ BeginReturns(i) \/ ToolReturns(i)

Run == \/ OutOfIterations \/ ContextOver \/ AskProvider \/ Executed
       \/ CompleteFails
       \/ \E resp \in Responses, u \in Usage : CompleteEnds(resp, u) \/ CompleteCalls(resp, u)

Next ==
    \/ StartTurn
    \/ Run
    \/ \E i \in Pending : Executor(i)
    \/ \E i \in Pending, e \in 1..MaxBegins, r \in Decision \cup {"error"} :
          RequesterAnswers(i, e, r)
    \/ \E why \in {"deadline", "canceled"} : TurnContextEnds(why)
    \/ \E d \in 1..Window : Elevate(d)
    \/ Revoke
    \/ Tick

Spec ==
    /\ Init
    /\ [][Next]_vars
    /\ WF_vars(Run)
    /\ \A i \in Pending : WF_vars(Executor(i))

-----------------------------------------------------------------------------
\* Properties.

\* The conversation a completion is asked with is well formed: each message of
\* the assistant is followed by exactly the results of its calls, in the order
\* of the calls, whichever of the parallel calls ended first and however each
\* was refused (loop.go appends the message only when its calls are executed).
ResultsMatchCalls ==
    st = "provider" =>
        /\ \A m \in DOMAIN messages : messages[m].role = "assistant" =>
              LET ids == messages[m].ids IN
              \A k \in DOMAIN ids : m + k \in DOMAIN messages
                                 /\ messages[m + k] = [role |-> "tool", ids |-> <<ids[k]>>]
        /\ Len(messages) = Cardinality({m \in DOMAIN messages : messages[m].role = "assistant"})
              + Cardinality({id \in (0..MaxIterations) \X Pending :
                    \E m \in DOMAIN messages : /\ messages[m].role = "assistant"
                                               /\ id \in {messages[m].ids[k] : k \in DOMAIN messages[m].ids}})

\* A turn cannot run away: no call runs as often as the loop threshold in one
\* turn, in a row or not and counting calls in parallel, no tool runs in a turn
\* whose tokens reached the budget, and no iteration exceeds the maximum.
BoundedTurn ==
    /\ \A g \in Call : ran[g] < LoopThreshold
    /\ st = "exec" /\ TokenBudget > 0 => usage < TokenBudget
    /\ iter <= MaxIterations

\* What a policy says of the tools, whatever spaces its names are written with.
Assigned(pol, level) ==
    Listed(pol, level) \cup {Trim[k] : k \in {k \in DOMAIN pol.tools : pol.tools[k] = level}}

\* The keys of the mapping are written without spaces around them.
KeysTrimmed(pol) == \A k \in DOMAIN pol.tools : Trim[k] = k

\* A tool that runs was allowed to: under a validated policy one that is denied
\* anywhere never runs, and one that needs asking runs only when the user said
\* yes to this very request, or elevation was active when the call was decided.
\* An approval that comes after the timeout, for the call before in the same
\* goroutine's place, or without an answer, starts nothing.  The keys of the
\* mapping must be trimmed: the lookup finds no others.
ApprovedToRun ==
    \A i \in Slots : slot[i] = "run" /\ KeysTrimmed(PolicyOf(cfg)) =>
        LET n == Trim[calls[i].tool] IN
        /\ n \notin Assigned(PolicyOf(cfg), "deny")
        /\ n \in Assigned(PolicyOf(cfg), "ask") => i \in raised \/ <<i, epoch[i]>> \in granted

\* In no interval as long as the window are more tool calls of a session let
\* through than the limit, both ends of the interval included.
WindowBound ==
    \A k \in DOMAIN admitted :
        k + ToolCallsPerMin \in DOMAIN admitted => admitted[k + ToolCallsPerMin] > admitted[k] + Window

\* Every turn ends: no approval, refused call or exhausted bound leaves Run
\* waiting, if the provider and the tools return.
TurnEnds == (st # "idle") ~> (st = "idle")
==============================================================================
