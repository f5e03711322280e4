--------------------------- MODULE ProviderChain ---------------------------
(***************************************************************************)
(* internal/provider/chain.go and health.go: failover between providers    *)
(* whose health is tracked from the outcome of concurrent requests, of     *)
(* streams that fail half way, and of a background prober.  A request is   *)
(* sent after its availability check and its outcome is recorded after it  *)
(* was produced; anything may happen in between.                           *)
(***************************************************************************)
EXTENDS Integers, Sequences, FiniteSets

CONSTANTS
    Caller,         \* goroutines that call Complete or Stream
    Roles,          \* roles they ask for
    Entries,        \* Chain.entries: records with role, fallbackFor, checker, ws
    MaxFailures,    \* HealthConfig, in units of a clock tick where it is a time
    InitialBackoff,
    MaxBackoff,
    Keys            \* keys of each entry's AuthProfile

Fallback == "fallback"
Entry == 1 .. Len(Entries)

\* checker: the provider implements HealthChecker; ws: it is openai_responses.
ASSUME ChainAssumption ==
    /\ Entries \in Seq([role : Roles \cup {Fallback}, fallbackFor : SUBSET Roles,
                        checker : BOOLEAN, ws : BOOLEAN])
    /\ {MaxFailures, InitialBackoff, MaxBackoff, Keys} \subseteq Nat \ {0}

VARIABLES
    up,        \* environment: does the provider answer?
    state,     \* healthTracker.state
    failures,  \* healthTracker.failures
    backoff,   \* healthTracker.currentBackoff
    cool,      \* cooldownExpires - now, 0 when it has passed
    key,       \* AuthProfile.idx
    pc,        \* where each caller is in Complete, Stream or wrapStream
    todo,      \* its candidates, the one in progress first
    answer,    \* what its request gave: "none", "ok", "fatal", "down" or "limited"
    steady,    \* history variable: providers of its role up and available since its call
    probe,     \* the prober: the entry it is at, 0 between two ticks
    alive      \* the outcome of its HealthCheck: "none", "ok"

health == <<state, failures, backoff, cool>>
callers == <<pc, todo, answer>>
vars == <<up, health, key, callers, steady, probe, alive>>

Init ==
    /\ up \in [Entry -> BOOLEAN]
    /\ state = [e \in Entry |-> "healthy"]
    /\ failures = [e \in Entry |-> 0]
    /\ backoff = [e \in Entry |-> 0]
    /\ cool = [e \in Entry |-> 0]
    /\ key = [e \in Entry |-> 0]
    /\ pc = [c \in Caller |-> "idle"]
    /\ todo = [c \in Caller |-> <<>>]
    /\ answer = [c \in Caller |-> "none"]
    /\ steady = [c \in Caller |-> {}]
    /\ probe = 0
    /\ alive = "none"

-----------------------------------------------------------------------------
\* healthTracker: each operation is one critical section.

IsAvailable(e) == \/ state[e] = "healthy"
                  \/ state[e] = "cooldown" /\ cool[e] = 0

ShouldHealthCheck(e) == \/ state[e] = "dead"
                        \/ state[e] = "cooldown" /\ cool[e] = 0

RecordSuccess(e) ==
    /\ state' = [state EXCEPT ![e] = "healthy"]
    /\ failures' = [failures EXCEPT ![e] = 0]
    /\ backoff' = [backoff EXCEPT ![e] = 0]
    /\ UNCHANGED cool

AtMost(n, m) == IF n > m THEN m ELSE n

\* Mutant: the backoff is not capped.
NextBackoffUncapped(e) == IF backoff[e] = 0 THEN InitialBackoff ELSE 2 * backoff[e]

NextBackoff(e) ==
    AtMost(IF backoff[e] = 0 THEN InitialBackoff ELSE 2 * backoff[e], MaxBackoff)

RecordFailure(e) ==
    /\ failures' = [failures EXCEPT ![e] = @ + 1]
    /\ IF failures[e] + 1 >= MaxFailures
       THEN /\ state' = [state EXCEPT ![e] = "dead"]
            /\ UNCHANGED <<backoff, cool>>
       ELSE /\ state' = [state EXCEPT ![e] = "cooldown"]
            /\ backoff' = [backoff EXCEPT ![e] = NextBackoff(e)]
            /\ cool' = [cool EXCEPT ![e] = NextBackoff(e)]

\* Entry e was down or unavailable during the calls in progress.
Unsteady(e) == steady' = [c \in Caller |-> steady[c] \ {e}]

-----------------------------------------------------------------------------
\* Complete and Stream.

\* isFallbackFor: no roles means all roles.
IsFallbackFor(e, r) == /\ Entries[e].role = Fallback
                       /\ Entries[e].fallbackFor = {} \/ r \in Entries[e].fallbackFor

\* A provider of the role, or a fallback for it.
Serves(e, r) == Entries[e].role = r \/ IsFallbackFor(e, r)

\* The entries of S, in the order of the chain.
InOrder(S) == [i \in 1 .. Cardinality(S) |->
                  CHOOSE e \in S : Cardinality({x \in S : x <= e}) = i]

Direct(r) == {e \in Entry : Entries[e].role = r}
Fallbacks(r) == {e \in Entry : Entries[e].role # r /\ IsFallbackFor(e, r)}

\* Mutant: fallbacks serve only a role that has no provider of its own.
CandidatesDirect(r) == IF Direct(r) # {} THEN InOrder(Direct(r)) ELSE InOrder(Fallbacks(r))

\* candidates: providers of the role, then fallbacks.
Candidates(r) == InOrder(Direct(r)) \o InOrder(Fallbacks(r))

\* The call returns.
Return(c) ==
    /\ pc' = [pc EXCEPT ![c] = "idle"]
    /\ todo' = [todo EXCEPT ![c] = <<>>]
    /\ answer' = [answer EXCEPT ![c] = "none"]
    /\ steady' = [steady EXCEPT ![c] = {}]

Goto(c, point) == pc' = [pc EXCEPT ![c] = point]

\* Complete or Stream: ErrNoProvider when there is no candidate, else the
\* failover loop, which the two share up to a successful answer.
Call(c, r) ==
    /\ pc[c] = "idle"
    /\ \/ /\ Candidates(r) = <<>>
          /\ UNCHANGED <<callers, steady>>
       \/ /\ Candidates(r) # <<>>
          /\ Goto(c, "loop")
          /\ todo' = [todo EXCEPT ![c] = Candidates(r)]
          /\ steady' = [steady EXCEPT ![c] = {e \in Entry : /\ up[e] /\ IsAvailable(e)
                                                            /\ Serves(e, r)}]
          /\ UNCHANGED answer
    /\ UNCHANGED <<up, health, key, probe, alive>>

\* One round of the loop: no candidate left (ErrAllProviders) or a cancelled
\* context, a candidate that is not available, or a request.
Try(c) ==
    /\ pc[c] = "loop"
    /\ \/ Return(c)
       \/ /\ todo[c] # <<>> /\ ~IsAvailable(Head(todo[c]))
          /\ todo' = [todo EXCEPT ![c] = Tail(@)]
          /\ UNCHANGED <<pc, answer, steady>>
       \/ /\ todo[c] # <<>> /\ IsAvailable(Head(todo[c]))
          /\ Goto(c, "request")
          /\ UNCHANGED <<todo, answer, steady>>
    /\ UNCHANGED <<up, health, key, probe, alive>>

\* What a request may meet: a provider that is up can still reject it, one that
\* is down may say so, and the caller may have gone away.
Meets(e) == {"cancelled"} \cup (IF up[e] THEN {"ok", "auth", "refused"}
                                         ELSE {"429", "5xx", "no answer"})

\* classifyDialError and dial of openai_responses: a caller that has gone away, or
\* any other status, is a provider that is down.
ClassifyDial(met) == IF met = "auth" THEN "fatal" ELSE "down"

\* handleErrorResponse and doRequest; ClassifyDial where they differ.
Classify(e, met) ==
    CASE met = "ok" -> "ok"
      [] met = "429" -> "limited"
      [] met \in {"5xx", "no answer"} -> "down"
      [] met = "auth" -> "fatal"
      [] met \in {"refused", "cancelled"} -> IF Entries[e].ws THEN ClassifyDial(met) ELSE "fatal"

Respond(c) ==
    /\ pc[c] = "request"
    /\ \E met \in Meets(Head(todo[c])) :
         answer' = [answer EXCEPT ![c] = Classify(Head(todo[c]), met)]
    /\ Goto(c, "verdict")
    /\ UNCHANGED <<up, health, key, todo, steady, probe, alive>>

\* AuthProfile.Rotate on a rate limit; nothing in the chain reads the index.
Rotated(e, limited) == IF limited THEN [key EXCEPT ![e] = (@ + 1) % Keys] ELSE key

\* The answer is handled: a Complete succeeds, a stream is open, a fatal error
\* stops failover, and a retryable one, perhaps a rate limit, leads to the next
\* candidate.
Verdict(c) ==
    /\ pc[c] = "verdict"
    /\ LET e == Head(todo[c]) IN
       \/ /\ answer[c] = "ok"
          /\ RecordSuccess(e)
          /\ Return(c)
          /\ UNCHANGED key
       \/ /\ answer[c] = "ok"
          /\ Goto(c, "stream")
          /\ answer' = [answer EXCEPT ![c] = "none"]
          /\ UNCHANGED <<health, key, todo, steady>>
       \/ /\ answer[c] = "fatal"
          /\ Return(c)
          /\ UNCHANGED <<health, key>>
       \/ /\ answer[c] \in {"down", "limited"}
          /\ key' = Rotated(e, answer[c] = "limited")
          /\ RecordFailure(e)
          /\ Unsteady(e)
          /\ todo' = [todo EXCEPT ![c] = Tail(@)]
          /\ answer' = [answer EXCEPT ![c] = "none"]
          /\ Goto(c, "loop")
    /\ UNCHANGED <<up, probe, alive>>

\* wrapStream: a retryable error chunk is a failure at once.  A provider ends
\* its stream after an error.
StreamError(c) ==
    /\ pc[c] = "stream"
    /\ ~up[Head(todo[c])]
    /\ RecordFailure(Head(todo[c]))
    /\ Unsteady(Head(todo[c]))
    /\ Goto(c, "broken")
    /\ UNCHANGED <<up, key, todo, answer, probe, alive>>

\* The source is closed: a stream without a retryable error is a success.
StreamEnd(c) ==
    /\ \/ pc[c] = "stream" /\ RecordSuccess(Head(todo[c]))
       \/ pc[c] = "broken" /\ UNCHANGED health
    /\ Return(c)
    /\ UNCHANGED <<up, key, probe, alive>>

Calling(c) == Try(c) \/ Respond(c) \/ Verdict(c) \/ StreamError(c) \/ StreamEnd(c)

-----------------------------------------------------------------------------
\* runHealthChecks.

NextEntry(e) == (e + 1) % (Len(Entries) + 1)

\* Mutant: dead providers are not probed.
DueInCooldown(e) == e # 0 /\ state[e] = "cooldown" /\ cool[e] = 0 /\ Entries[e].checker

\* The entry is to be probed, and can be.
Due(e) == e # 0 /\ ShouldHealthCheck(e) /\ Entries[e].checker

\* A provider that is up answers its probe.
HealthCheck(e) == up[e]

\* The prober comes to an entry: it probes it, or goes on to the next one.
ProbeNext ==
    /\ alive = "none"
    /\ \/ /\ ~Due(probe)
          /\ probe' = NextEntry(probe)
          /\ UNCHANGED alive
       \/ /\ Due(probe)
          /\ IF HealthCheck(probe) THEN alive' = "ok" /\ UNCHANGED probe
                          ELSE probe' = NextEntry(probe) /\ UNCHANGED alive
    /\ UNCHANGED <<up, health, key, callers, steady>>

\* HealthCheck returned nil.
ProbeRevives ==
    /\ alive = "ok"
    /\ RecordSuccess(probe)
    /\ alive' = "none"
    /\ probe' = NextEntry(probe)
    /\ UNCHANGED <<up, key, callers, steady>>

-----------------------------------------------------------------------------
\* The environment.

\* A provider goes down or comes back.
Flip(e) ==
    /\ up' = [up EXCEPT ![e] = ~@]
    /\ Unsteady(e)
    /\ UNCHANGED <<health, key, callers, probe, alive>>

Tick ==
    /\ \E e \in Entry : cool[e] > 0
    /\ cool' = [e \in Entry |-> IF cool[e] > 0 THEN cool[e] - 1 ELSE 0]
    /\ UNCHANGED <<up, state, failures, backoff, key, callers, steady, probe, alive>>

Next ==
    \/ \E c \in Caller : \/ \E r \in Roles : Call(c, r)
                         \/ Calling(c)
    \/ ProbeNext \/ ProbeRevives
    \/ \E e \in Entry : Flip(e)
    \/ Tick

Spec == Init /\ [][Next]_vars

\* Time passes, requests have timeouts, the prober's ticker fires.
Fairness ==
    /\ WF_vars(Tick)
    /\ WF_vars(ProbeNext \/ ProbeRevives)
    /\ \A c \in Caller : WF_vars(Calling(c))

FairSpec == Spec /\ Fairness

-----------------------------------------------------------------------------
TypeOK ==
    /\ up \in [Entry -> BOOLEAN]
    /\ state \in [Entry -> {"healthy", "cooldown", "dead"}]
    /\ failures \in [Entry -> Nat]
    /\ backoff \in [Entry -> Nat]
    /\ cool \in [Entry -> Nat]
    /\ key \in [Entry -> 0 .. Keys - 1]
    /\ pc \in [Caller -> {"idle", "loop", "request", "verdict", "stream", "broken"}]
    /\ todo \in [Caller -> Seq(Entry)]
    /\ answer \in [Caller -> {"none", "ok", "fatal", "down", "limited"}]
    /\ steady \in [Caller -> SUBSET Entry]
    /\ probe \in 0 .. Len(Entries)
    /\ alive \in {"none", "ok"}

\* The tracker's fields agree, however the verdicts of concurrent requests,
\* streams and probes interleave: an entry is healthy exactly without a failure
\* on record, dead exactly from MaxFailures on, and in between its backoff is
\* positive, capped, and not exceeded by its cooldown.
TrackerConsistent ==
    \A e \in Entry :
        /\ state[e] = "healthy" <=> failures[e] = 0
        /\ state[e] = "dead" <=> failures[e] >= MaxFailures
        /\ state[e] = "cooldown" => backoff[e] \in 1 .. MaxBackoff /\ cool[e] <= backoff[e]
        /\ state[e] = "healthy" => backoff[e] = 0

\* The inductive invariant behind it.
TrackerInv ==
    /\ state \in [Entry -> {"healthy", "cooldown", "dead"}]
    /\ failures \in [Entry -> Nat]
    /\ backoff \in [Entry -> Nat]
    /\ cool \in [Entry -> Nat]
    /\ TrackerConsistent

\* A call fails with ErrAllProviders only if no provider that serves its role
\* was up and available, and not taken for down, from its beginning to its end:
\* failover never gives up on a good provider, whatever other callers report.
NoNeedlessFailure ==
    \A c \in Caller : pc[c] = "loop" /\ todo[c] = <<>> => steady[c] = {}

\* A provider with a health check that stays up is available again for good in
\* the end, after any history of failures and late verdicts, and whatever callers
\* do: their requests being rejected or cancelled is no sign that it is down (but
\* openai_responses takes it for one)
\* (docs/modules/providers/openai-compatible.mdx: it is "re-checked periodically").
Recovers ==
    \A e \in Entry : Entries[e].checker /\ ~Entries[e].ws => (<>[](up[e]) => <>[](IsAvailable(e)))
=============================================================================
