--------------------------- MODULE ToolCallsProofs ---------------------------
(***************************************************************************)
(* Machine-checked proofs about ToolCalls: no tool runs that policy,       *)
(* elevation or the user did not let run, a turn stays within its guards,  *)
(* the conversation is well formed and the rate limit holds in every       *)
(* window, for any policies, calls, limits and number of parallel calls.   *)
(***************************************************************************)
EXTENDS ToolCalls, SequenceTheorems, FiniteSetTheorems, WellFoundedInduction, TLAPS

SlotPoint == {"none", "start", "decide", "ask", "run", "done"}

\* What the variables are, and that a goroutine is there for a call only.
TypeInv ==
    /\ cfg \in Executors /\ ValidPolicy(PolicyOf(cfg))
    /\ st \in {"idle", "check", "provider", "exec"}
    /\ iter \in Nat /\ usage \in Nat /\ now \in Nat
    /\ counts \in [Call -> Nat] /\ ran \in [Call -> Nat]
    /\ calls \in Seq(Call) /\ DOMAIN calls \subseteq Pending
    /\ slot \in [Pending -> SlotPoint]
    /\ \A i \in Pending : slot[i] # "none" => i \in DOMAIN calls
    /\ events \in Seq(Nat) /\ admitted \in Seq(Nat)
    /\ epoch \in [Pending -> 0..MaxBegins]
    /\ chan \in [Pending -> [1..MaxBegins -> {"none", "yes", "no"}]]
    /\ begin \in [Pending -> {"out", "select", "leave"}]
    /\ \A p \in Pending : begin[p] # "out" => epoch[p] # 0
    /\ verdict \in [Pending -> {"none", "yes", "no", "error", "timeout", "canceled"}]

\* Approvals: a "yes" in a channel, or read from it, is the user's to this very
\* request, and nothing that is denied is asked about.
ApproveInv ==
    /\ \A p \in Pending, e \in 1..MaxBegins : chan[p][e] = "yes" => <<p, e>> \in granted
    /\ \A p \in Pending : verdict[p] = "yes" => begin[p] = "leave" /\ <<p, epoch[p]>> \in granted
    /\ \A i \in Slots : slot[i] = "ask" /\ KeysTrimmed(PolicyOf(cfg)) =>
          Trim[calls[i].tool] \notin Assigned(PolicyOf(cfg), "deny")
    /\ ApprovedToRun

\* The calls g of this round that may still run.
Waiting(g) == {i \in Slots : calls[i] = g /\ slot[i] \in {"start", "decide", "ask"}}

\* The loop detector has counted every call that ran or may still run.
BoundInv ==
    /\ \A g \in Call : ran[g] + Cardinality(Waiting(g)) <= counts[g] /\ counts[g] < LoopThreshold
    /\ st = "exec" /\ TokenBudget > 0 => usage < TokenBudget
    /\ iter <= MaxIterations
    /\ st \in {"provider", "exec"} => iter < MaxIterations

\* The bucket holds the last calls that were admitted; the others are older
\* than the window.
LogInv ==
    /\ Len(events) <= Len(admitted)
    /\ \A j \in DOMAIN events : events[j] = admitted[(Len(admitted) - Len(events)) + j]
    /\ \A j \in 1..(Len(admitted) - Len(events)) : admitted[j] + Window < now
    /\ WindowBound

Identity == (0..MaxIterations) \X Pending
Message == [role : {"assistant", "tool"}, ids : Seq(Identity)]

\* The messages of the assistant, and the calls they name.
Asks(ms) == {m \in DOMAIN ms : ms[m].role = "assistant"}
Named(ms) == {id \in Identity :
                 \E m \in Asks(ms) : id \in {ms[m].ids[k] : k \in DOMAIN ms[m].ids}}

\* Message m of ms is followed by the results of its calls.
Followed(ms, m) ==
    \A k \in DOMAIN ms[m].ids : /\ m + k \in DOMAIN ms
                                /\ ms[m + k] = [role |-> "tool", ids |-> <<ms[m].ids[k]>>]

\* While calls are executed the conversation ends in the message that asks for
\* them, all others are followed by their results, and no call is named twice.
ConvInv ==
    /\ messages \in Seq(Message)
    /\ \A m \in Asks(messages) : (st = "exec" /\ m = Len(messages)) \/ Followed(messages, m)
    /\ st = "exec" => /\ messages # <<>>
                      /\ messages[Len(messages)] = [role |-> "assistant",
                                                    ids |-> [k \in DOMAIN calls |-> <<iter, k>>]]
    /\ \A id \in Named(messages) : id[1] < iter \/ (st = "exec" /\ id[1] = iter)
    /\ Len(messages) + (IF st = "exec" THEN Len(calls) ELSE 0)
         = Cardinality(Asks(messages)) + Cardinality(Named(messages))

-----------------------------------------------------------------------------
\* Natural numbers and the rate limit.

\* A set of natural numbers has a least element, if it has any.
LEMMA Least ==
    ASSUME NEW S \in SUBSET Nat, S # {}
    PROVE  \E x \in S : \A y \in S : x <= y
<1>1. IsWellFoundedOn(OpToRel(<, Nat), Nat)
  BY NatLessThanWellFounded
<1>2. \E x \in S : \A y \in S : <<y, x>> \notin OpToRel(<, Nat)
  BY <1>1, WFMin
<1>3. \E x \in S : \A y \in S : ~(y < x)
  BY <1>2 DEF OpToRel
<1>4. PICK x \in S : \A y \in S : ~(y < x)
  BY <1>3
<1>5. \A y \in S : x <= y
  BY <1>4
<1> QED BY <1>5

\* A set of natural numbers that has a bound has a greatest element.
LEMMA Greatest ==
    ASSUME NEW S \in SUBSET Nat, S # {}, NEW n \in Nat, \A x \in S : x <= n
    PROVE  \E x \in S : \A y \in S : y <= x
<1> DEFINE T == {n - x : x \in S}
<1>1. T \in SUBSET Nat /\ T # {}
  <2>1. \A x \in S : x \in Nat /\ n - x \in Nat
    OBVIOUS
  <2> QED BY <2>1
<1>2. PICK z \in T : \A y \in T : z <= y
  BY <1>1, Least
<1>3. PICK x \in S : z = n - x
  BY <1>2
<1>4. ASSUME NEW y \in S PROVE y <= x
  <2>1. z <= n - y
    BY <1>2
  <2>2. n \in Nat /\ x \in Nat /\ y \in Nat
    OBVIOUS
  <2> QED BY <1>3, <2>1, <2>2
<1> QED BY <1>4

\* bucket.evict drops a number of the first events, each older than the window.
LEMMA EvictDrops ==
    ASSUME TypeInv, NEW t \in Nat
    PROVE  \E d \in 0..Len(events) :
             /\ Evict(t) = SubSeq(events, d + 1, Len(events))
             /\ \A j \in 1..d : events[j] + Window < t
<1> DEFINE S == Stops(t, Window)
<1>0. events \in Seq(Nat) /\ Len(events) \in Nat /\ Window \in Nat
      /\ \A j \in 1..Len(events) : events[j] \in Nat
  BY ToolCallsAssumption, LenProperties DEF TypeInv
<1>1. S \in SUBSET Nat /\ Len(events) \in S
  BY <1>0 DEF Stops
<1>2. \E i \in S : \A j \in S : i <= j
  BY <1>1, Least
<1>3. PICK d : d = CHOOSE i \in S : \A j \in S : i <= j
  OBVIOUS
<1>4. d \in S /\ \A j \in S : d <= j
  BY <1>2, <1>3
<1>5. d \in 0..Len(events)
  BY <1>4 DEF Stops
<1>6. ASSUME NEW j \in 1..d PROVE events[j] + Window < t
  <2>1. j - 1 \in 0..Len(events) /\ j - 1 < Len(events) /\ ~(d <= j - 1) /\ (j - 1) + 1 = j
    BY <1>0, <1>5
  <2>2. j - 1 \notin S
    BY <1>4, <2>1
  <2>3. ~(events[j] >= t - Window)
    BY <2>1, <2>2 DEF Stops
  <2>4. events[j] \in Nat
    BY <1>0, <1>5
  <2> QED BY <1>0, <2>3, <2>4
<1>7. Evict(t) = SubSeq(events, 1 + d, Len(events)) /\ 1 + d = d + 1
  BY <1>3, <1>5 DEF Evict, Rest
<1> QED BY <1>5, <1>6, <1>7

-----------------------------------------------------------------------------
\* The steps, and what the variables are after each.

\* A step that the invariants do not notice: contexts, elevation.
Unnoticed ==
    UNCHANGED <<cfg, st, iter, usage, counts, messages, calls, slot, now, events, admitted, ran, granted,
                raised, epoch, chan, begin, verdict>>

\* A turn begins, or goes on to the provider.
Proceeds ==
    /\ \/ st = "idle" /\ st' = "check"
       \/ st = "check" /\ st' = "provider" /\ iter < MaxIterations
    /\ UNCHANGED <<cfg, iter, usage, counts, messages, calls, slot, now, events, admitted, ran, granted,
                   raised, epoch, chan, begin, verdict>>

\* Next, with the ways a turn ends taken together.
LEMMA Steps ==
    ASSUME [Next]_vars
    PROVE  \/ Unnoticed \/ Proceeds \/ Executed \/ Tick
           \/ \E reason : EndTurn(reason)
           \/ \E resp \in Responses, u \in Usage : CompleteCalls(resp, u)
           \/ \E i \in Pending : Enter(i) \/ Decide(i) \/ BeginWaits(i) \/ BeginReturns(i) \/ ToolReturns(i)
           \/ \E i \in Pending, e \in 1..MaxBegins, r \in Decision \cup {"error"} : RequesterAnswers(i, e, r)
<1>1. CASE UNCHANGED vars
  BY <1>1 DEF vars, loopvars, apvars, Unnoticed
<1>2. CASE StartTurn \/ AskProvider
  BY <1>2 DEF StartTurn, AskProvider, Proceeds, environment, apvars
<1>3. CASE OutOfIterations \/ ContextOver \/ CompleteFails
  BY <1>3 DEF OutOfIterations, ContextOver, CompleteFails
<1>4. CASE \E resp \in Responses, u \in Usage : CompleteEnds(resp, u)
  BY <1>4 DEF CompleteEnds
<1>5. CASE \E why \in {"deadline", "canceled"} : TurnContextEnds(why)
  BY <1>5 DEF TurnContextEnds, environment, Unnoticed
<1>6. CASE Revoke \/ \E d \in 1..Window : Elevate(d)
  BY <1>6 DEF Revoke, Elevate, loopvars, apvars, Unnoticed
<1> QED BY <1>1, <1>2, <1>3, <1>4, <1>5, <1>6 DEF Next, Run, Executor

\* An answer of the model with tool calls.
LEMMA ResponseOf ==
    ASSUME NEW resp \in Responses
    PROVE  resp \in Seq(Call) /\ Len(resp) \in Nat /\ DOMAIN resp = 1..Len(resp) /\ DOMAIN resp \subseteq Pending
<1>1. PICK n \in 0..Cardinality(Pending) : resp \in [1..n -> Call]
  BY DEF Responses
<1>2. Cardinality(Pending) \in Nat /\ Pending = 1..Cardinality(Pending)
  BY ToolCallsAssumption, FS_CardinalityType
<1>3. n \in Nat /\ 1..n \subseteq Pending
  BY <1>2
<1>4. resp \in Seq(Call)
  BY <1>1, <1>3
<1> QED BY <1>1, <1>3, <1>4, LenProperties

\* What a goroutine's steps do to its slot.
LEMMA SlotTypes ==
    ASSUME TypeInv, NEW i \in Pending, NEW p \in SlotPoint, slot[i] # "none", slot' = [slot EXCEPT ![i] = p],
           calls' = calls
    PROVE  /\ slot' \in [Pending -> SlotPoint] /\ i \in Slots /\ calls[i] \in Call
           /\ \A j \in Pending : slot'[j] # "none" => j \in DOMAIN calls'
<1>1. i \in Slots /\ calls \in Seq(Call)
  BY DEF TypeInv, Slots
<1>2. calls[i] \in Call
  BY <1>1, ElementOfSeq, LenProperties DEF Slots
<1> QED BY <1>1, <1>2 DEF TypeInv, SlotPoint

\* TypeInv, through every step.
LEMMA NextTypeInv == TypeInv /\ [Next]_vars => TypeInv'
<1> SUFFICES ASSUME TypeInv, [Next]_vars PROVE TypeInv'
  OBVIOUS
<1>1. CASE Unnoticed \/ Proceeds
  BY <1>1 DEF TypeInv, Unnoticed, Proceeds
<1>2. CASE Executed
  <2>1. calls' = <<>> /\ slot' = [i \in Pending |-> "none"]
    BY <1>2 DEF Executed
  <2>2. calls' \in Seq(Call) /\ DOMAIN calls' \subseteq Pending
    BY <2>1
  <2>3. /\ st' = "check" /\ iter' = iter + 1
        /\ UNCHANGED <<cfg, now, events, admitted, usage, counts, ran, epoch, chan, begin, verdict>>
    BY <1>2 DEF Executed, environment, apvars
  <2> QED BY <2>1, <2>2, <2>3 DEF TypeInv, SlotPoint
<1>3. CASE Tick
  <2>1. /\ now' = now + 1
        /\ UNCHANGED <<cfg, st, iter, usage, counts, calls, slot, events, admitted, ran, epoch, chan, begin, verdict>>
    BY <1>3 DEF Tick, loopvars, apvars
  <2> QED BY <2>1 DEF TypeInv
<1>4. ASSUME NEW reason, EndTurn(reason) PROVE TypeInv'
  <2>1. calls' = <<>> /\ slot' = [i \in Pending |-> "none"]
    BY <1>4 DEF EndTurn
  <2>2. calls' \in Seq(Call) /\ DOMAIN calls' \subseteq Pending
    BY <2>1
  <2>3. /\ st' = "idle" /\ iter' = 0 /\ usage' = 0
        /\ counts' = [g \in Call |-> 0] /\ ran' = [g \in Call |-> 0]
        /\ epoch' = [p \in Pending |-> 0] /\ begin' = [p \in Pending |-> "out"]
        /\ chan' = [p \in Pending |-> [e \in 1..MaxBegins |-> "none"]]
        /\ verdict' = [p \in Pending |-> "none"]
        /\ UNCHANGED <<cfg, now, events, admitted>>
    BY <1>4 DEF EndTurn, environment
  <2>4. epoch' \in [Pending -> 0..MaxBegins]
    BY <2>3, PendingAssumption
  <2> QED BY <2>1, <2>2, <2>3, <2>4 DEF TypeInv, SlotPoint
<1>5. ASSUME NEW resp \in Responses, NEW u \in Usage, CompleteCalls(resp, u) PROVE TypeInv'
  <2>1. /\ calls' = resp /\ slot' = [i \in Pending |-> IF i \in DOMAIN resp THEN "start" ELSE "none"]
        /\ st' = "exec" /\ usage' = usage + u
        /\ counts' = [g \in Call |-> counts[g] + Before(resp, g, Len(resp))]
        /\ UNCHANGED <<cfg, now, events, admitted, iter, ran, epoch, chan, begin, verdict>>
    BY <1>5 DEF CompleteCalls, environment, apvars
  <2>2. /\ resp \in Seq(Call) /\ DOMAIN resp \subseteq Pending /\ Len(resp) \in Nat
    BY ResponseOf
  <2>3. u \in Nat
    BY ToolCallsAssumption
  <2>4. \A g \in Call : Before(resp, g, Len(resp)) \in Nat
    <3> SUFFICES ASSUME NEW g \in Call PROVE Before(resp, g, Len(resp)) \in Nat
      OBVIOUS
    <3>1. IsFiniteSet(1..Len(resp))
      BY <2>2, FS_Interval
    <3>2. IsFiniteSet({j \in 1..Len(resp) : resp[j] = g})
      BY <3>1, FS_Subset
    <3> QED BY <3>2, FS_CardinalityType DEF Before
  <2>5. counts' \in [Call -> Nat]
    BY <2>1, <2>4 DEF TypeInv
  <2> QED BY <2>1, <2>2, <2>3, <2>5 DEF TypeInv, SlotPoint
<1>6. ASSUME NEW i \in Pending, Enter(i) PROVE TypeInv'
  <2>1. /\ UNCHANGED <<cfg, st, iter, usage, counts, calls, now, ran, epoch, chan, begin, verdict>>
        /\ slot[i] = "start"
    BY <1>6 DEF Enter, loopvars, apvars
  <2>2. \E p \in {"done", "decide"} : slot' = [slot EXCEPT ![i] = p]
    BY <1>6 DEF Enter
  <2>3. Evict(now) \in Seq(Nat)
    <3>1. now \in Nat /\ events \in Seq(Nat) /\ Len(events) \in Nat
      BY LenProperties DEF TypeInv
    <3>2. PICK d \in 0..Len(events) : Evict(now) = SubSeq(events, d + 1, Len(events))
      BY <3>1, EvictDrops
    <3>3. d + 1 \in 1..(Len(events) + 1) /\ \A j \in (d + 1)..Len(events) : j \in 1..Len(events)
      BY <3>1
    <3> QED BY <3>1, <3>2, <3>3, SubSeqProperties
  <2>4. now \in Nat
    BY DEF TypeInv
  <2>5. events' \in Seq(Nat) /\ admitted' \in Seq(Nat)
    <3>1. \/ UNCHANGED <<events, admitted>>
          \/ events' = Evict(now) /\ admitted' = admitted
          \/ events' = Append(Evict(now), now) /\ admitted' = Append(admitted, now)
      BY <1>6 DEF Enter
    <3>2. Append(Evict(now), now) \in Seq(Nat) /\ Append(admitted, now) \in Seq(Nat)
      BY <2>3, <2>4, AppendProperties DEF TypeInv
    <3> QED BY <2>3, <3>1, <3>2 DEF TypeInv
  <2>6. /\ slot' \in [Pending -> SlotPoint]
        /\ \A j \in Pending : slot'[j] # "none" => j \in DOMAIN calls'
    BY <2>1, <2>2, SlotTypes DEF SlotPoint
  <2> QED BY <2>1, <2>5, <2>6 DEF TypeInv
<1>7. ASSUME NEW i \in Pending, Decide(i) PROVE TypeInv'
  <2>1. /\ UNCHANGED <<cfg, st, iter, usage, counts, calls, now, events, admitted>>
        /\ slot[i] = "decide"
    BY <1>7 DEF Decide, loopvars, environment
  <2>2. \E p \in {"done", "run", "ask"} : slot' = [slot EXCEPT ![i] = p]
    BY <1>7 DEF Decide, Runs
  <2>3. /\ slot' \in [Pending -> SlotPoint] /\ calls[i] \in Call
        /\ \A j \in Pending : slot'[j] # "none" => j \in DOMAIN calls'
    BY <2>1, <2>2, SlotTypes DEF SlotPoint
  <2>4. ran' \in [Call -> Nat]
    <3>1. ran' = ran \/ ran' = [ran EXCEPT ![calls[i]] = @ + 1]
      BY <1>7 DEF Decide, Runs
    <3>2. ran \in [Call -> Nat] /\ \A g \in Call : ran[g] + 1 \in Nat
      BY DEF TypeInv
    <3> QED BY <2>3, <3>1, <3>2
  <2>5. CASE UNCHANGED apvars
    BY <2>1, <2>3, <2>4, <2>5 DEF TypeInv, apvars
  <2>6. CASE Begin(i, ctx)
    <3>1. /\ epoch[i] < MaxBegins /\ epoch' = [epoch EXCEPT ![i] = epoch[i] + 1]
          /\ chan' = [chan EXCEPT ![i][epoch[i] + 1] = "none"]
          /\ begin' = [begin EXCEPT ![i] = "select"] /\ verdict' = verdict
      BY <2>6 DEF Begin, BeginWith
    <3>2. epoch[i] \in 0..MaxBegins
      BY DEF TypeInv
    <3>3. epoch[i] + 1 \in 1..MaxBegins /\ epoch[i] + 1 # 0
      BY <3>1, <3>2, PendingAssumption
    <3>4. /\ epoch' \in [Pending -> 0..MaxBegins]
          /\ \A p \in Pending : begin'[p] # "out" => epoch'[p] # 0
          /\ chan' \in [Pending -> [1..MaxBegins -> {"none", "yes", "no"}]]
          /\ begin' \in [Pending -> {"out", "select", "leave"}]
      BY <3>1, <3>3 DEF TypeInv
    <3> QED BY <2>1, <2>3, <2>4, <3>1, <3>4 DEF TypeInv
  <2> QED BY <1>7, <2>5, <2>6 DEF Decide
<1>8. ASSUME NEW i \in Pending, BeginWaits(i) PROVE TypeInv'
  <2>1. UNCHANGED <<cfg, st, iter, usage, counts, calls, slot, now, events, admitted, ran, epoch>>
    BY <1>8 DEF BeginWaits, SelectResponse, SelectError, SelectDone, ContextEnds, environment, loopvars
  <2>2. CASE SelectResponse(i)
    <3>1. /\ verdict' = [verdict EXCEPT ![i] = chan[i][epoch[i]]]
          /\ chan' = [chan EXCEPT ![i][epoch[i]] = "none"] /\ chan[i][epoch[i]] # "none"
          /\ begin' = [begin EXCEPT ![i] = "leave"]
      BY <2>2 DEF SelectResponse
    <3>2. /\ chan' \in [Pending -> [1..MaxBegins -> {"none", "yes", "no"}]]
          /\ begin' \in [Pending -> {"out", "select", "leave"}]
      BY <3>1 DEF TypeInv
    <3>3. chan[i][epoch[i]] \in {"none", "yes", "no"} => verdict' \in [Pending -> {"none", "yes", "no", "error", "timeout", "canceled"}]
      BY <3>1 DEF TypeInv
    <3>4. epoch[i] \in 1..MaxBegins
      <4>1. epoch[i] \in 0..MaxBegins /\ epoch[i] # 0
        BY <2>2 DEF TypeInv, SelectResponse
      <4> QED BY <4>1, PendingAssumption
    <3>5. \A p \in Pending : begin'[p] # "out" => epoch'[p] # 0
      BY <2>1, <2>2, <3>1 DEF TypeInv, SelectResponse
    <3> QED BY <2>1, <3>1, <3>2, <3>3, <3>4, <3>5 DEF TypeInv
  <2>3. CASE SelectError(i) \/ SelectDone(i)
    <3>1. /\ verdict' \in [Pending -> {"none", "yes", "no", "error", "timeout", "canceled"}]
          /\ begin' \in [Pending -> {"out", "select", "leave"}] /\ chan' = chan
      BY <2>3 DEF SelectError, SelectDone, WhyDone, TypeInv
    <3>2. \A p \in Pending : begin'[p] # "out" => epoch'[p] # 0
      BY <2>1, <2>3 DEF TypeInv, SelectError, SelectDone
    <3> QED BY <2>1, <3>1, <3>2 DEF TypeInv
  <2>4. CASE ContextEnds(i, "deadline")
    BY <2>1, <2>4 DEF TypeInv, ContextEnds
  <2> QED BY <1>8, <2>2, <2>3, <2>4 DEF BeginWaits
<1>9. ASSUME NEW i \in Pending, BeginReturns(i) PROVE TypeInv'
  <2>1. /\ UNCHANGED <<cfg, st, iter, usage, counts, calls, now, events, admitted, epoch>>
        /\ slot[i] = "ask" /\ Leave(i)
    BY <1>9 DEF BeginReturns, Leave, loopvars, environment
  <2>2. \E p \in {"done", "run"} : slot' = [slot EXCEPT ![i] = p]
    BY <1>9 DEF BeginReturns, Runs
  <2>3. /\ slot' \in [Pending -> SlotPoint] /\ calls[i] \in Call
        /\ \A j \in Pending : slot'[j] # "none" => j \in DOMAIN calls'
    BY <2>1, <2>2, SlotTypes DEF SlotPoint
  <2>4. ran' \in [Call -> Nat]
    <3>1. ran' = ran \/ ran' = [ran EXCEPT ![calls[i]] = @ + 1]
      BY <1>9 DEF BeginReturns, Runs
    <3>2. ran \in [Call -> Nat] /\ \A g \in Call : ran[g] + 1 \in Nat
      BY DEF TypeInv
    <3> QED BY <2>3, <3>1, <3>2
  <2>5. /\ verdict' \in [Pending -> {"none", "yes", "no", "error", "timeout", "canceled"}]
        /\ begin' \in [Pending -> {"out", "select", "leave"}]
    BY <2>1 DEF Leave, TypeInv
  <2>6. chan' \in [Pending -> [1..MaxBegins -> {"none", "yes", "no"}]]
    <3>1. chan' = [chan EXCEPT ![i][epoch[i]] = IF verdict[i] = "timeout" /\ @ = "none" THEN "no" ELSE @]
      BY <2>1 DEF Leave
    <3> QED BY <3>1 DEF TypeInv
  <2>7. \A p \in Pending : begin'[p] # "out" => epoch'[p] # 0
    BY <2>1 DEF TypeInv, Leave
  <2> QED BY <2>1, <2>3, <2>4, <2>5, <2>6, <2>7 DEF TypeInv
<1>10. ASSUME NEW i \in Pending, ToolReturns(i) PROVE TypeInv'
  <2>1. /\ UNCHANGED <<cfg, st, iter, usage, counts, calls, now, events, admitted, ran, epoch, chan, begin, verdict>>
        /\ slot[i] = "run" /\ slot' = [slot EXCEPT ![i] = "done"]
    BY <1>10 DEF ToolReturns, loopvars, environment, apvars
  <2>2. /\ slot' \in [Pending -> SlotPoint]
        /\ \A j \in Pending : slot'[j] # "none" => j \in DOMAIN calls'
    BY <2>1, SlotTypes DEF SlotPoint
  <2> QED BY <2>1, <2>2 DEF TypeInv
<1>11. ASSUME NEW i \in Pending, NEW e \in 1..MaxBegins, NEW r \in Decision \cup {"error"},
              RequesterAnswers(i, e, r)
       PROVE  TypeInv'
  <2>1. /\ UNCHANGED <<cfg, st, iter, usage, counts, calls, slot, now, events, admitted, ran, epoch, begin, verdict>>
        /\ chan' = chan \/ (r \in {"yes", "no"} /\ chan' = [chan EXCEPT ![i][e] = r])
    BY <1>11 DEF RequesterAnswers, RequesterReturns, Decision, loopvars, environment
  <2>2. chan' \in [Pending -> [1..MaxBegins -> {"none", "yes", "no"}]]
    <3>1. ASSUME r \in {"yes", "no"} PROVE [chan[i] EXCEPT ![e] = r] \in [1..MaxBegins -> {"none", "yes", "no"}]
      BY <3>1 DEF TypeInv
    <3> QED BY <2>1, <3>1 DEF TypeInv
  <2> QED BY <2>1, <2>2 DEF TypeInv
<1> QED BY <1>1, <1>2, <1>3, <1>4, <1>5, <1>6, <1>7, <1>8, <1>9, <1>10, <1>11, Steps

\* The policy of every context is valid, the empty one of unknown contexts too.
LEMMA PolicyValid ==
    ASSUME NEW c, \A x \in DOMAIN c.policies : ValidPolicy(c.policies[x])
    PROVE  ValidPolicy(PolicyOf(c))
<1>1. ValidPolicy(NoPolicy)
  <2>1. NoPolicy.default = "" /\ DOMAIN NoPolicy.tools = {}
        /\ NoPolicy.allow = {} /\ NoPolicy.ask = {} /\ NoPolicy.deny = {}
    BY DEF NoPolicy
  <2>2. \A l \in Level : Listed(NoPolicy, l) = {}
    BY <2>1 DEF Listed, Level
  <2> QED BY <2>1, <2>2 DEF ValidPolicy
<1> QED BY <1>1 DEF PolicyOf

\* TypeInv at the start.
LEMMA InitTypeInv == Init => TypeInv
<1> SUFFICES ASSUME Init PROVE TypeInv
  OBVIOUS
<1>1. calls = <<>> /\ calls \in Seq(Call) /\ DOMAIN calls \subseteq Pending
  BY DEF Init
<1>2. epoch \in [Pending -> 0..MaxBegins]
  BY PendingAssumption DEF Init, ApprovalInit
<1>3. cfg \in Executors /\ ValidPolicy(PolicyOf(cfg))
  <2>1. \A x \in DOMAIN cfg.policies : ValidPolicy(cfg.policies[x])
    BY DEF Init
  <2> QED BY <2>1, PolicyValid DEF Init
<1> QED BY <1>1, <1>2, <1>3 DEF Init, ApprovalInit, TypeInv, SlotPoint

-----------------------------------------------------------------------------
\* ApprovedToRun.

\* Under a valid policy with trimmed keys the level of a tool is the one it is
\* assigned, if any.
LEMMA LevelAssigned ==
    ASSUME NEW pol, ValidPolicy(pol), KeysTrimmed(pol), NEW t
    PROVE  /\ ResolvePolicy(pol, t) = "allow" =>
                Trim[t] \notin Assigned(pol, "deny") /\ Trim[t] \notin Assigned(pol, "ask")
           /\ ResolvePolicy(pol, t) = "ask" => Trim[t] \notin Assigned(pol, "deny")
<1> DEFINE n == Trim[t]
           At(l) == n \in Listed(pol, l)
           Keyed(l) == n \in {Trim[k] : k \in {k \in DOMAIN pol.tools : pol.tools[k] = l}}
<1>1. \A k, l \in {"allow", "ask", "deny"} : k # l => ~(At(k) /\ At(l))
  BY DEF ValidPolicy, Level
<1>2. \A l : n \in Assigned(pol, l) <=> At(l) \/ Keyed(l)
  BY DEF Assigned
<1>3. \A l : Keyed(l) <=> n \in DOMAIN pol.tools /\ pol.tools[n] = l
  <2>1. \A k \in DOMAIN pol.tools : Trim[k] = k
    BY DEF KeysTrimmed
  <2> SUFFICES ASSUME NEW l PROVE Keyed(l) <=> n \in DOMAIN pol.tools /\ pol.tools[n] = l
    OBVIOUS
  <2>2. Keyed(l) <=> \E k \in DOMAIN pol.tools : pol.tools[k] = l /\ n = Trim[k]
    OBVIOUS
  <2> HIDE DEF n, Keyed
  <2> QED BY <2>1, <2>2
<1> DEFINE T == DOMAIN pol.tools
           A == Listed(pol, "allow")
           K == Listed(pol, "ask")
           D == Listed(pol, "deny")
<1>4. /\ n \in T => ResolvePolicy(pol, t) = pol.tools[n]
      /\ n \notin T /\ n \in A => ResolvePolicy(pol, t) = "allow"
      /\ n \notin T /\ n \in K /\ n \notin A => ResolvePolicy(pol, t) = "ask"
      /\ n \notin T /\ n \in D /\ n \notin A /\ n \notin K => ResolvePolicy(pol, t) = "deny"
  <2>1. ResolvePolicy(pol, t) =
          CASE n \in T -> pol.tools[n]
            [] n \notin T /\ n \in A -> "allow"
            [] n \notin T /\ n \in K \ A -> "ask"
            [] n \notin T /\ n \in D \ (A \cup K) -> "deny"
            [] OTHER -> IF pol.default # "" THEN pol.default ELSE DefaultLevel[t]
    BY DEF ResolvePolicy
  <2> HIDE DEF n, T, A, K, D
  <2> QED BY <2>1
<1> SUFFICES /\ ResolvePolicy(pol, t) = "allow" =>
                  n \notin Assigned(pol, "deny") /\ n \notin Assigned(pol, "ask")
             /\ ResolvePolicy(pol, t) = "ask" => n \notin Assigned(pol, "deny")
  OBVIOUS
<1>5. CASE n \in DOMAIN pol.tools
  <2>1. ResolvePolicy(pol, t) = pol.tools[n]
    BY <1>5, <1>4
  <2>2. \A m \in {"allow", "ask", "deny"} : At(m) => m = pol.tools[n]
    <3>1. Trim[n] = n
      BY <1>5 DEF KeysTrimmed
    <3>2. n \in {Trim[k] : k \in DOMAIN pol.tools}
      BY <1>5, <3>1
    <3>3. PICK l \in MappedTo(pol, n) : \A m \in Level : n \in Listed(pol, m) => m = l
      BY <3>2 DEF ValidPolicy
    <3>4. l = pol.tools[n]
      BY <3>3 DEF MappedTo, KeysTrimmed
    <3> QED BY <3>3, <3>4 DEF Level
  <2> HIDE DEF n, At, Keyed
  <2> QED BY <1>2, <1>3, <2>1, <2>2
<1>6. CASE n \notin DOMAIN pol.tools /\ At("allow")
  <2>1. ResolvePolicy(pol, t) = "allow"
    BY <1>6, <1>4
  <2> HIDE DEF n, At, Keyed
  <2> QED BY <1>1, <1>2, <1>3, <1>6, <2>1
<1>7. CASE n \notin DOMAIN pol.tools /\ At("ask") /\ ~At("allow")
  <2>1. ResolvePolicy(pol, t) = "ask"
    BY <1>7, <1>4
  <2> HIDE DEF n, At, Keyed
  <2> QED BY <1>1, <1>2, <1>3, <1>7, <2>1
<1>8. CASE n \notin DOMAIN pol.tools /\ At("deny") /\ ~At("allow") /\ ~At("ask")
  <2>1. ResolvePolicy(pol, t) = "deny"
    BY <1>8, <1>4
  <2> QED BY <2>1
<1>9. CASE n \notin DOMAIN pol.tools /\ ~At("allow") /\ ~At("ask") /\ ~At("deny")
  <2> HIDE DEF n, At, Keyed
  <2>1. n \notin Assigned(pol, "deny") /\ n \notin Assigned(pol, "ask")
    BY <1>2, <1>3, <1>9
  <2> QED BY <2>1 DEF n
<1> HIDE DEF At
<1> QED BY <1>5, <1>6, <1>7, <1>8, <1>9

\* A call that is running, or asked about, is as ApproveInv has it.
Approved(i) ==
    KeysTrimmed(PolicyOf(cfg)) =>
      /\ slot[i] = "ask" => Trim[calls[i].tool] \notin Assigned(PolicyOf(cfg), "deny")
      /\ slot[i] = "run" =>
           /\ Trim[calls[i].tool] \notin Assigned(PolicyOf(cfg), "deny")
           /\ Trim[calls[i].tool] \in Assigned(PolicyOf(cfg), "ask") => i \in raised \/ <<i, epoch[i]>> \in granted

\* The channels and verdicts of ApproveInv.
Answers ==
    /\ \A p \in Pending, e \in 1..MaxBegins : chan[p][e] = "yes" => <<p, e>> \in granted
    /\ \A p \in Pending : verdict[p] = "yes" => begin[p] = "leave" /\ <<p, epoch[p]>> \in granted

LEMMA ApproveOf == ApproveInv <=> Answers /\ \A i \in Slots : Approved(i)
BY DEF ApproveInv, Answers, Approved, ApprovedToRun

LEMMA ApproveAfter == Answers' /\ (\A i \in Slots' : Approved(i)') => ApproveInv'
BY DEF ApproveInv, Answers, Approved, ApprovedToRun

\* A call stays approved when its goroutine does nothing new.
LEMMA ApprovedKept ==
    ASSUME NEW i, Approved(i), cfg' = cfg, calls' = calls, granted \subseteq granted', raised \subseteq raised',
           slot'[i] \in {"ask", "run"} => slot'[i] = slot[i],
           slot[i] = "run" => epoch'[i] = epoch[i]
    PROVE  Approved(i)'
BY DEF Approved

\* Every step keeps ApproveInv.
LEMMA NextApproveInv == TypeInv /\ ApproveInv /\ [Next]_vars => ApproveInv'
<1> SUFFICES ASSUME TypeInv, Answers, \A i \in Slots : Approved(i), [Next]_vars
             PROVE  Answers' /\ \A i \in Slots' : Approved(i)'
  BY ApproveOf, ApproveAfter
<1> DEFINE Goal == Answers' /\ \A i \in Slots' : Approved(i)'
<1>0. DOMAIN slot = Pending /\ Slots \subseteq Pending
  BY DEF TypeInv, Slots
<1>1. CASE Unnoticed \/ Proceeds
  <2>1. UNCHANGED <<cfg, calls, slot, granted, raised, epoch, chan, begin, verdict>>
    BY <1>1 DEF Unnoticed, Proceeds
  <2> QED BY <2>1, ApprovedKept DEF Answers, Slots
<1>2. CASE Executed
  <2>1. calls' = <<>> /\ UNCHANGED <<granted, epoch, chan, begin, verdict>>
    BY <1>2 DEF Executed, apvars
  <2>2. Slots' = {}
    BY <2>1 DEF Slots
  <2> QED BY <2>1, <2>2 DEF Answers
<1>3. CASE Tick
  <2>1. UNCHANGED <<cfg, calls, slot, granted, raised, epoch, chan, begin, verdict>>
    BY <1>3 DEF Tick, loopvars, apvars
  <2> QED BY <2>1, ApprovedKept DEF Answers, Slots
<1>4. ASSUME NEW reason, EndTurn(reason) PROVE Goal
  <2>1. /\ calls' = <<>>
        /\ chan' = [p \in Pending |-> [e \in 1..MaxBegins |-> "none"]]
        /\ verdict' = [p \in Pending |-> "none"]
    BY <1>4 DEF EndTurn
  <2>2. Slots' = {}
    BY <2>1 DEF Slots
  <2> QED BY <2>1, <2>2 DEF Answers
<1>5. ASSUME NEW resp \in Responses, NEW u \in Usage, CompleteCalls(resp, u) PROVE Goal
  <2>1. /\ calls' = resp /\ slot' = [i \in Pending |-> IF i \in DOMAIN resp THEN "start" ELSE "none"]
        /\ UNCHANGED <<granted, epoch, chan, begin, verdict>>
    BY <1>5 DEF CompleteCalls, apvars
  <2>2. Slots' = DOMAIN resp /\ DOMAIN resp \subseteq Pending
    BY <2>1, ResponseOf DEF Slots
  <2>3. \A i \in Slots' : slot'[i] = "start"
    BY <2>1, <2>2
  <2> QED BY <2>1, <2>3 DEF Answers, Approved
<1>6. ASSUME NEW i \in Pending, Enter(i) \/ ToolReturns(i) PROVE Goal
  <2>1. /\ UNCHANGED <<cfg, calls, granted, raised, epoch, chan, begin, verdict>>
        /\ \E p \in {"done", "decide"} : slot' = [slot EXCEPT ![i] = p]
    BY <1>6 DEF Enter, ToolReturns, loopvars, environment, apvars
  <2>2. \A j \in Slots : slot'[j] \in {"ask", "run"} => slot'[j] = slot[j]
    BY <1>0, <2>1
  <2>3. Slots' = Slots
    BY <2>1 DEF Slots
  <2> QED BY <2>1, <2>2, <2>3, ApprovedKept DEF Answers
<1>7. ASSUME NEW i \in Pending, Decide(i) PROVE Goal
  <2> DEFINE base == ResolvePolicy(PolicyOf(cfg), calls[i].tool)
             t == Trim[calls[i].tool]
             pol == PolicyOf(cfg)
  <2>1. /\ UNCHANGED <<cfg, calls, granted>> /\ slot[i] = "decide" /\ raised \subseteq raised'
        /\ IsActive => i \in raised'
    BY <1>7 DEF Decide, loopvars, environment
  <2>2. Slots' = Slots
    BY <2>1 DEF Slots
  <2>3. ValidPolicy(pol)
    BY DEF TypeInv
  <2>4. KeysTrimmed(pol) =>
          /\ base = "allow" => t \notin Assigned(pol, "deny") /\ t \notin Assigned(pol, "ask")
          /\ base = "ask" => t \notin Assigned(pol, "deny")
    BY <2>3, LevelAssigned
  <2>5. \/ slot' = [slot EXCEPT ![i] = "done"] /\ UNCHANGED apvars
        \/ Apply(base) = "allow" /\ slot' = [slot EXCEPT ![i] = "run"] /\ UNCHANGED apvars
        \/ Apply(base) = "ask" /\ slot' = [slot EXCEPT ![i] = "ask"] /\ Begin(i, ctx)
    BY <1>7 DEF Decide, Runs
  <2> HIDE DEF base
  <2>6. /\ Apply(base) = "allow" => base = "allow" \/ (base = "ask" /\ IsActive)
        /\ Apply(base) = "ask" => base = "ask"
    BY DEF Apply
  <2>7. CASE UNCHANGED apvars
    <3>1. UNCHANGED <<epoch, chan, begin, verdict>>
      BY <2>7 DEF apvars
    <3>2. Answers'
      BY <2>1, <3>1 DEF Answers
    <3>3. ASSUME NEW j \in Slots, j # i PROVE Approved(j)'
      <4>1. slot'[j] = slot[j]
        BY <1>0, <2>5, <3>3
      <4> QED BY <2>1, <3>1, <4>1, ApprovedKept
    <3>4. Approved(i)'
      <4>1. slot'[i] = "run" => Apply(base) = "allow"
        BY <1>0, <2>5
      <4>2. slot'[i] # "ask" \/ Apply(base) = "ask"
        BY <1>0, <2>5
      <4>3. KeysTrimmed(pol) =>
              /\ slot'[i] = "ask" => t \notin Assigned(pol, "deny")
              /\ slot'[i] = "run" => /\ t \notin Assigned(pol, "deny")
                                     /\ t \in Assigned(pol, "ask") => i \in raised'
        BY <2>1, <2>4, <2>6, <4>1, <4>2
      <4> QED BY <2>1, <4>3 DEF Approved
    <3> QED BY <2>2, <3>2, <3>3, <3>4
  <2>8. CASE Begin(i, ctx) /\ Apply(base) = "ask" /\ slot' = [slot EXCEPT ![i] = "ask"]
    <3>1. /\ epoch[i] < MaxBegins /\ epoch' = [epoch EXCEPT ![i] = epoch[i] + 1] /\ begin[i] = "out"
          /\ chan' = [chan EXCEPT ![i][epoch[i] + 1] = "none"]
          /\ begin' = [begin EXCEPT ![i] = "select"] /\ verdict' = verdict
      BY <2>8 DEF Begin, BeginWith
    <3>2. Answers'
      <4>1. ASSUME NEW p \in Pending, NEW e \in 1..MaxBegins, chan'[p][e] = "yes" PROVE <<p, e>> \in granted'
        <5>1. chan[p][e] = "yes"
          BY <3>1, <4>1 DEF TypeInv
        <5> QED BY <2>1, <5>1 DEF Answers
      <4>2. ASSUME NEW p \in Pending, verdict'[p] = "yes"
            PROVE  begin'[p] = "leave" /\ <<p, epoch'[p]>> \in granted'
        <5>1. verdict[p] = "yes" /\ begin[p] = "leave" /\ <<p, epoch[p]>> \in granted
          BY <3>1, <4>2 DEF Answers
        <5>2. p # i
          BY <3>1, <5>1
        <5> QED BY <2>1, <3>1, <5>1, <5>2 DEF TypeInv
      <4> QED BY <4>1, <4>2 DEF Answers
    <3>3. ASSUME NEW j \in Slots, j # i PROVE Approved(j)'
      <4>1. slot'[j] = slot[j] /\ epoch'[j] = epoch[j]
        BY <1>0, <2>8, <3>1, <3>3 DEF TypeInv
      <4> QED BY <2>1, <4>1, ApprovedKept
    <3>4. Approved(i)'
      <4>1. slot'[i] = "ask" /\ (KeysTrimmed(pol) => t \notin Assigned(pol, "deny"))
        BY <1>0, <2>4, <2>6, <2>8
      <4> QED BY <2>1, <4>1 DEF Approved
    <3> QED BY <2>2, <3>2, <3>3, <3>4
  <2> QED BY <2>5, <2>7, <2>8
<1>8. ASSUME NEW i \in Pending, BeginWaits(i) PROVE Goal
  <2>1. UNCHANGED <<cfg, calls, slot, granted, raised, epoch>>
    BY <1>8 DEF BeginWaits, SelectResponse, SelectError, SelectDone, ContextEnds, environment, loopvars
  <2>2. \A j \in Slots' : Approved(j)'
    BY <2>1, ApprovedKept DEF Slots
  <2>3. CASE SelectResponse(i)
    <3>1. /\ verdict' = [verdict EXCEPT ![i] = chan[i][epoch[i]]]
          /\ chan' = [chan EXCEPT ![i][epoch[i]] = "none"] /\ begin[i] = "select"
          /\ begin' = [begin EXCEPT ![i] = "leave"]
      BY <2>3 DEF SelectResponse
    <3>2. epoch[i] \in 1..MaxBegins
      <4>1. epoch[i] \in 0..MaxBegins /\ epoch[i] # 0
        BY <3>1 DEF TypeInv
      <4> QED BY <4>1, PendingAssumption
    <3>3. ASSUME NEW p \in Pending, NEW e \in 1..MaxBegins, chan'[p][e] = "yes" PROVE <<p, e>> \in granted'
      <4>1. chan[p][e] = "yes"
        BY <3>1, <3>3 DEF TypeInv
      <4> QED BY <2>1, <4>1 DEF Answers
    <3>4. ASSUME NEW p \in Pending, verdict'[p] = "yes"
          PROVE  begin'[p] = "leave" /\ <<p, epoch'[p]>> \in granted'
      <4>1. CASE p = i
        <5>1. chan[p][epoch[p]] = "yes" /\ begin'[p] = "leave"
          BY <3>1, <3>4, <4>1 DEF TypeInv
        <5> QED BY <2>1, <3>2, <4>1, <5>1 DEF Answers
      <4>2. CASE p # i
        BY <2>1, <3>1, <3>4, <4>2 DEF TypeInv, Answers
      <4> QED BY <4>1, <4>2
    <3> QED BY <2>2, <3>3, <3>4 DEF Answers
  <2>4. CASE SelectError(i) \/ SelectDone(i)
    <3>1. /\ begin' = [begin EXCEPT ![i] = "leave"] /\ chan' = chan
          /\ \E x \in {"error", "timeout", "canceled"} : verdict' = [verdict EXCEPT ![i] = x]
      BY <2>4 DEF SelectError, SelectDone, WhyDone
    <3>2. ASSUME NEW p \in Pending, verdict'[p] = "yes"
          PROVE  begin'[p] = "leave" /\ <<p, epoch'[p]>> \in granted'
      <4>1. p # i /\ verdict[p] = "yes" /\ begin'[p] = begin[p]
        BY <3>1, <3>2 DEF TypeInv
      <4> QED BY <2>1, <4>1 DEF Answers
    <3> QED BY <2>1, <2>2, <3>1, <3>2 DEF Answers
  <2>5. CASE ContextEnds(i, "deadline")
    BY <2>1, <2>2, <2>5 DEF Answers, ContextEnds
  <2> QED BY <1>8, <2>3, <2>4, <2>5 DEF BeginWaits
<1>9. ASSUME NEW i \in Pending, BeginReturns(i) PROVE Goal
  <2>1. /\ UNCHANGED <<cfg, calls, granted, raised, epoch>>
        /\ slot[i] = "ask" /\ Leave(i)
    BY <1>9 DEF BeginReturns, Leave, loopvars, environment
  <2>2. /\ \E p \in {"done", "run"} : slot' = [slot EXCEPT ![i] = p]
        /\ slot'[i] = "run" => verdict[i] = "yes"
    BY <1>0, <1>9 DEF BeginReturns, Runs
  <2>3. Slots' = Slots /\ i \in Slots
    BY <2>1 DEF Slots, TypeInv
  <2>4. ASSUME NEW p \in Pending, NEW e \in 1..MaxBegins, chan'[p][e] = "yes" PROVE <<p, e>> \in granted'
    <3>1. chan[p][e] = "yes"
      BY <2>1, <2>4 DEF TypeInv, Leave
    <3> QED BY <2>1, <3>1 DEF Answers
  <2>5. ASSUME NEW p \in Pending, verdict'[p] = "yes"
        PROVE  begin'[p] = "leave" /\ <<p, epoch'[p]>> \in granted'
    <3>1. p # i /\ verdict[p] = "yes" /\ begin'[p] = begin[p]
      BY <2>1, <2>5 DEF TypeInv, Leave
    <3> QED BY <2>1, <3>1 DEF Answers
  <2>6. ASSUME NEW j \in Slots, j # i PROVE Approved(j)'
    <3>1. slot'[j] = slot[j]
      BY <1>0, <2>2, <2>6
    <3> QED BY <2>1, <3>1, ApprovedKept
  <2>7. Approved(i)'
    <3>1. slot'[i] # "ask"
      BY <1>0, <2>2
    <3>2. slot'[i] = "run" => <<i, epoch[i]>> \in granted
      BY <2>2 DEF Answers
    <3>3. KeysTrimmed(PolicyOf(cfg)) => Trim[calls[i].tool] \notin Assigned(PolicyOf(cfg), "deny")
      BY <2>1, <2>3 DEF Approved
    <3> QED BY <2>1, <3>1, <3>2, <3>3 DEF Approved
  <2> QED BY <2>3, <2>4, <2>5, <2>6, <2>7 DEF Answers
<1>10. ASSUME NEW i \in Pending, NEW e \in 1..MaxBegins, NEW r \in Decision \cup {"error"},
              RequesterAnswers(i, e, r)
       PROVE  Goal
  <2>1. /\ UNCHANGED <<cfg, calls, slot, raised, epoch, begin, verdict>>
        /\ granted' = IF r = "yes" THEN granted \cup {<<i, e>>} ELSE granted
        /\ chan' = chan \/ chan' = [chan EXCEPT ![i][e] = r]
    BY <1>10 DEF RequesterAnswers, RequesterReturns, Decision, loopvars, environment
  <2>2. \A j \in Slots' : Approved(j)'
    BY <2>1, ApprovedKept DEF Slots
  <2>3. ASSUME NEW p \in Pending, NEW f \in 1..MaxBegins, chan'[p][f] = "yes" PROVE <<p, f>> \in granted'
    <3>1. chan[p][f] = "yes" \/ (p = i /\ f = e /\ r = "yes")
      <4>1. DOMAIN chan = Pending /\ DOMAIN chan[i] = 1..MaxBegins
        BY DEF TypeInv
      <4>2. CASE chan' = chan
        BY <2>3, <4>2
      <4>3. CASE chan' = [chan EXCEPT ![i][e] = r]
        <5>1. chan'[p] = IF p = i THEN [chan[i] EXCEPT ![e] = r] ELSE chan[p]
          BY <4>1, <4>3
        <5> QED BY <2>3, <4>1, <5>1
      <4> QED BY <2>1, <4>2, <4>3
    <3> QED BY <2>1, <3>1 DEF Answers
  <2> QED BY <2>1, <2>2, <2>3 DEF Answers
<1> QED BY <1>1, <1>2, <1>3, <1>4, <1>5, <1>6, <1>7, <1>8, <1>9, <1>10, Steps

\* ApprovedToRun for every validated policy, any tools and calls and any number of
\* parallel approvals: nothing runs that policy, elevation or the user's answer
\* to this very request did not let run, if the keys of the policy's mapping are
\* written without spaces around them.
THEOREM OnlyApprovedRun == Spec => []ApprovedToRun
<1>1. Init => ApproveInv
  <2> SUFFICES ASSUME Init PROVE ApproveInv
    OBVIOUS
  <2>1. Slots = {}
    BY DEF Init, Slots
  <2>2. Answers
    BY DEF Init, ApprovalInit, Answers
  <2> QED BY <2>1, <2>2, ApproveOf
<1>2. ApproveInv => ApprovedToRun
  BY DEF ApproveInv
<1> QED BY <1>1, <1>2, InitTypeInv, NextTypeInv, NextApproveInv, PTL DEF Spec

-----------------------------------------------------------------------------
\* WindowBound.

\* Every step keeps LogInv.
LEMMA NextLogInv == TypeInv /\ LogInv /\ [Next]_vars => LogInv'
<1> SUFFICES ASSUME TypeInv, LogInv, [Next]_vars PROVE LogInv'
  OBVIOUS
<1>0. /\ events \in Seq(Nat) /\ admitted \in Seq(Nat) /\ now \in Nat /\ Window \in Nat
      /\ ToolCallsPerMin \in Nat \ {0}
      /\ Len(events) \in Nat /\ Len(admitted) \in Nat
      /\ DOMAIN events = 1..Len(events) /\ DOMAIN admitted = 1..Len(admitted)
  BY ToolCallsAssumption, LenProperties DEF TypeInv
<1>1. \A j \in 1..Len(admitted) : admitted[j] \in Nat
  BY <1>0, ElementOfSeq
<1>2. /\ Len(events) <= Len(admitted)
      /\ \A j \in 1..Len(events) : events[j] = admitted[(Len(admitted) - Len(events)) + j]
      /\ \A j \in 1..(Len(admitted) - Len(events)) : admitted[j] + Window < now
  BY <1>0 DEF LogInv
<1>3. CASE UNCHANGED <<now, events, admitted>>
  BY <1>3 DEF LogInv, WindowBound
<1>4. CASE Tick
  <2>1. now' = now + 1 /\ UNCHANGED <<events, admitted>>
    BY <1>4 DEF Tick
  <2>2. ASSUME NEW j \in 1..(Len(admitted) - Len(events)) PROVE admitted[j] + Window < now'
    <3>1. admitted[j] \in Nat /\ admitted[j] + Window < now
      BY <1>0, <1>1, <1>2
    <3> QED BY <1>0, <2>1, <3>1
  <2> QED BY <2>1, <2>2 DEF LogInv, WindowBound
<1>5. ASSUME NEW i \in Pending, Enter(i), ~UNCHANGED <<events, admitted>> PROVE LogInv'
  <2> DEFINE rest == Evict(now)
  <2>1. /\ now' = now
        /\ \/ events' = rest /\ admitted' = admitted
           \/ Len(rest) < ToolCallsPerMin /\ events' = Append(rest, now) /\ admitted' = Append(admitted, now)
    BY <1>5 DEF Enter, Allowed
  <2>2. PICK d \in 0..Len(events) : /\ rest = SubSeq(events, d + 1, Len(events))
                                    /\ \A j \in 1..d : events[j] + Window < now
    BY <1>0, EvictDrops
  <2> HIDE DEF rest
  <2>3. /\ rest \in Seq(Nat) /\ Len(rest) = Len(events) - d /\ Len(rest) \in Nat
        /\ \A j \in 1..Len(rest) : rest[j] = events[d + j]
    <3>1. d \in Nat /\ d <= Len(events)
      BY <1>0
    <3>2. CASE d < Len(events)
      <4>1. d + 1 \in 1..Len(events) /\ Len(events) \in 1..Len(events) /\ d + 1 <= Len(events)
            /\ Len(events) - (d + 1) + 1 = Len(events) - d
        BY <1>0, <3>1, <3>2
      <4>2. /\ rest \in Seq(Nat) /\ Len(rest) = Len(events) - d
            /\ \A j \in 1..(Len(events) - d) : rest[j] = events[(d + 1) + j - 1]
        BY <1>0, <2>2, <4>1, SubSeqProperties
      <4>3. \A j \in 1..(Len(events) - d) : (d + 1) + j - 1 = d + j
        BY <1>0, <3>1
      <4> QED BY <1>0, <3>1, <4>2, <4>3
    <3>3. CASE d = Len(events)
      <4>1. rest = <<>>
        BY <1>0, <2>2, <3>3, SubSeqEmpty
      <4> QED BY <1>0, <3>1, <3>3, <4>1
    <3> QED BY <3>1, <3>2, <3>3
  <2>4. Len(rest) <= Len(admitted)
    BY <1>0, <1>2, <2>3
  <2>5. ASSUME NEW j \in 1..Len(rest) PROVE rest[j] = admitted[(Len(admitted) - Len(rest)) + j]
    <3>1. /\ d + j \in 1..Len(events)
          /\ (Len(admitted) - Len(events)) + (d + j) = (Len(admitted) - Len(rest)) + j
      BY <1>0, <2>3
    <3> QED BY <1>2, <2>3, <3>1
  <2>6. ASSUME NEW j \in 1..(Len(admitted) - Len(rest)) PROVE admitted[j] + Window < now
    <3>1. CASE j \in 1..(Len(admitted) - Len(events))
      BY <1>2, <3>1
    <3>2. CASE ~(j \in 1..(Len(admitted) - Len(events)))
      <4>1. PICK n : n = j - (Len(admitted) - Len(events))
        OBVIOUS
      <4>2. n \in 1..d /\ n \in 1..Len(events) /\ (Len(admitted) - Len(events)) + n = j
        BY <1>0, <1>2, <2>3, <3>2, <4>1
      <4>3. events[n] = admitted[j] /\ events[n] + Window < now
        BY <1>2, <2>2, <4>2
      <4> QED BY <4>3
    <3> QED BY <3>1, <3>2
  <2>7. CASE events' = rest /\ admitted' = admitted
    <3>1. DOMAIN rest = 1..Len(rest)
      BY <2>3, LenProperties
    <3> QED BY <2>1, <2>4, <2>5, <2>6, <2>7, <3>1 DEF LogInv, WindowBound
  <2>8. CASE Len(rest) < ToolCallsPerMin /\ events' = Append(rest, now) /\ admitted' = Append(admitted, now)
    <3> DEFINE n == Len(admitted)
               m == Len(rest)
    <3>1. /\ Len(events') = m + 1 /\ DOMAIN events' = 1..(m + 1) /\ events'[m + 1] = now
          /\ \A j \in 1..m : events'[j] = rest[j]
      BY <1>0, <2>3, <2>8, AppendProperties, LenProperties
    <3>2. /\ Len(admitted') = n + 1 /\ DOMAIN admitted' = 1..(n + 1) /\ admitted'[n + 1] = now
          /\ \A j \in 1..n : admitted'[j] = admitted[j]
      BY <1>0, <2>8, AppendProperties, LenProperties
    <3>3. n \in Nat /\ m \in Nat /\ m <= n /\ m < ToolCallsPerMin
      BY <1>0, <2>3, <2>4, <2>8
    <3> HIDE DEF n, m
    <3>4. Len(events') <= Len(admitted') /\ Len(admitted') - Len(events') = n - m
      BY <3>1, <3>2, <3>3
    <3>5. ASSUME NEW j \in DOMAIN events' PROVE events'[j] = admitted'[(Len(admitted') - Len(events')) + j]
      <4>1. CASE j = m + 1
        <5>1. (n - m) + j = n + 1
          BY <3>3, <4>1
        <5> QED BY <3>1, <3>2, <3>4, <4>1, <5>1
      <4>2. CASE j # m + 1
        <5>1. j \in 1..m /\ (n - m) + j \in 1..n
          BY <3>1, <3>3, <4>2
        <5> QED BY <2>5, <3>1, <3>2, <3>4, <5>1 DEF n, m
      <4> QED BY <4>1, <4>2
    <3>6. ASSUME NEW j \in 1..(Len(admitted') - Len(events')) PROVE admitted'[j] + Window < now'
      <4>1. j \in 1..(n - m) /\ j \in 1..n
        BY <3>3, <3>4
      <4> QED BY <2>1, <2>6, <3>2, <4>1 DEF n, m
    <3>7. ASSUME NEW k \in DOMAIN admitted', k + ToolCallsPerMin \in DOMAIN admitted'
          PROVE  admitted'[k + ToolCallsPerMin] > admitted'[k] + Window
      <4>1. k \in 1..n
        BY <1>0, <3>2, <3>3, <3>7
      <4>2. CASE k + ToolCallsPerMin \in 1..n
        <5>1. k \in DOMAIN admitted /\ k + ToolCallsPerMin \in DOMAIN admitted
          BY <1>0, <4>1, <4>2 DEF n
        <5>2. admitted[k + ToolCallsPerMin] > admitted[k] + Window
          BY <5>1 DEF LogInv, WindowBound
        <5> QED BY <3>2, <4>1, <4>2, <5>2
      <4>3. CASE k + ToolCallsPerMin = n + 1
        <5>1. k \in 1..(n - m)
          BY <1>0, <3>3, <4>1, <4>3
        <5>2. admitted[k] + Window < now /\ admitted[k] \in Nat
          BY <1>1, <2>6, <4>1, <5>1 DEF n, m
        <5>3. now > admitted[k] + Window
          BY <1>0, <5>2
        <5> QED BY <3>2, <4>1, <4>3, <5>3
      <4>4. k + ToolCallsPerMin \in 1..n \/ k + ToolCallsPerMin = n + 1
        BY <1>0, <3>2, <3>3, <3>7, <4>1
      <4> QED BY <4>2, <4>3, <4>4
    <3> QED BY <3>4, <3>5, <3>6, <3>7 DEF LogInv, WindowBound
  <2> QED BY <2>1, <2>7, <2>8
<1>6. ASSUME NEW i \in Pending, Enter(i) PROVE LogInv'
  <2>1. now' = now
    BY <1>6 DEF Enter
  <2> QED BY <1>3, <1>5, <1>6, <2>1
<1>7. ASSUME \/ Unnoticed \/ Proceeds \/ Executed
             \/ \E reason : EndTurn(reason)
             \/ \E resp \in Responses, u \in Usage : CompleteCalls(resp, u)
             \/ \E i \in Pending : Decide(i) \/ BeginWaits(i) \/ BeginReturns(i) \/ ToolReturns(i)
             \/ \E i \in Pending, e \in 1..MaxBegins, r \in Decision \cup {"error"} : RequesterAnswers(i, e, r)
      PROVE  UNCHANGED <<now, events, admitted>>
  BY <1>7 DEF Unnoticed, Proceeds, Executed, EndTurn, CompleteCalls, Decide, BeginWaits, BeginReturns,
       ToolReturns, RequesterAnswers, environment
<1> QED BY <1>3, <1>4, <1>6, <1>7, Steps

\* WindowBound for every limit, window and number of parallel calls: no interval as
\* long as the window, both ends included, holds more admitted calls than the
\* limit.
THEOREM WindowsBounded == Spec => []WindowBound
<1>1. Init => LogInv
  <2> SUFFICES ASSUME Init PROVE LogInv
    OBVIOUS
  <2>1. events = <<>> /\ admitted = <<>> /\ now = 1
    BY DEF Init
  <2> QED BY <2>1 DEF LogInv, WindowBound
<1>2. LogInv => WindowBound
  BY DEF LogInv
<1> QED BY <1>1, <1>2, InitTypeInv, NextTypeInv, NextLogInv, PTL DEF Spec

-----------------------------------------------------------------------------
\* BoundedTurn.

\* How often a call is among the first k of an answer.
LEMMA BeforeFinite ==
    ASSUME NEW resp, NEW g, NEW k \in Nat
    PROVE  IsFiniteSet({j \in 1..k : resp[j] = g}) /\ Before(resp, g, k) \in Nat
<1>1. IsFiniteSet(1..k)
  BY FS_Interval
<1>2. IsFiniteSet({j \in 1..k : resp[j] = g})
  BY <1>1, FS_Subset
<1> QED BY <1>2, FS_CardinalityType DEF Before

\* The loop detector lets an answer pass only when no call reaches the threshold.
LEMMA CountedBelow ==
    ASSUME TypeInv, NEW resp \in Responses, ~LoopDetected(resp), NEW g \in Call, counts[g] < LoopThreshold
    PROVE  counts[g] + Before(resp, g, Len(resp)) < LoopThreshold
<1> DEFINE S == {j \in 1..Len(resp) : resp[j] = g}
<1>0. Len(resp) \in Nat /\ DOMAIN resp = 1..Len(resp) /\ counts[g] \in Nat /\ LoopThreshold \in Nat
  BY ResponseOf, ToolCallsAssumption DEF TypeInv
<1>1. CASE S = {}
  <2>1. Before(resp, g, Len(resp)) = 0
    BY <1>1, FS_EmptySet DEF Before
  <2> QED BY <1>0, <2>1
<1>2. CASE S # {}
  <2>1. S \in SUBSET Nat /\ \A x \in S : x <= Len(resp)
    BY <1>0
  <2>2. PICK k \in S : \A y \in S : y <= k
    BY <1>0, <1>2, <2>1, Greatest
  <2>3. k \in DOMAIN resp /\ resp[k] = g /\ k \in 1..Len(resp)
    BY <1>0
  <2>4. S = {j \in 1..k : resp[j] = g}
    <3>1. \A j \in S : j \in 1..k
      BY <1>0, <2>2, <2>3
    <3>2. \A j \in 1..k : j \in 1..Len(resp)
      BY <1>0, <2>3
    <3> QED BY <3>1, <3>2
  <2>5. Before(resp, g, k) = Before(resp, g, Len(resp))
    BY <2>4 DEF Before
  <2>6. ~(counts[g] + Before(resp, g, k) >= LoopThreshold)
    BY <2>3 DEF LoopDetected
  <2>7. Before(resp, g, k) \in Nat
    <3>1. k \in Nat
      BY <1>0, <2>3
    <3> QED BY <3>1, BeforeFinite
  <2> QED BY <1>0, <2>5, <2>6, <2>7
<1> QED BY <1>1, <1>2

\* The calls that may still run are finitely many.
LEMMA WaitingFinite ==
    ASSUME TypeInv, NEW g
    PROVE  IsFiniteSet(Waiting(g)) /\ Cardinality(Waiting(g)) \in Nat
<1>1. IsFiniteSet(Pending) /\ Waiting(g) \subseteq Pending
  BY ToolCallsAssumption DEF TypeInv, Waiting, Slots
<1>2. IsFiniteSet(Waiting(g))
  BY <1>1, FS_Subset
<1> QED BY <1>2, FS_CardinalityType

\* Goroutine i has left the ones that may still run, with its call run or not.
LEMMA WaitingLess ==
    ASSUME TypeInv, NEW i \in Slots, slot[i] \in {"start", "decide", "ask"}, calls' = calls,
           NEW p \in SlotPoint \ {"start", "decide", "ask"}, slot' = [slot EXCEPT ![i] = p],
           counts' = counts,
           ran' = ran \/ ran' = [ran EXCEPT ![calls[i]] = @ + 1],
           \A g \in Call : ran[g] + Cardinality(Waiting(g)) <= counts[g],
           NEW g \in Call
    PROVE  ran'[g] + Cardinality(Waiting(g)') <= counts'[g]
<1>0. /\ i \in Pending /\ DOMAIN slot = Pending /\ ran \in [Call -> Nat] /\ counts[g] \in Nat /\ ran[g] \in Nat
      /\ Slots' = Slots /\ Slots \subseteq Pending
  BY DEF TypeInv, Slots
<1>1. IsFiniteSet(Waiting(g)) /\ Cardinality(Waiting(g)) \in Nat
  BY WaitingFinite
<1>2. Waiting(g)' = Waiting(g) \ {i}
  BY <1>0 DEF Waiting
<1>3. Cardinality(Waiting(g)') = IF i \in Waiting(g) THEN Cardinality(Waiting(g)) - 1 ELSE Cardinality(Waiting(g))
  BY <1>1, <1>2, FS_RemoveElement
<1>4. i \in Waiting(g) <=> calls[i] = g
  BY DEF Waiting
<1>5. ran'[g] = ran[g] \/ (calls[i] = g /\ ran'[g] = ran[g] + 1)
  BY <1>0
<1>6. ran[g] + Cardinality(Waiting(g)) <= counts[g]
  OBVIOUS
<1> QED BY <1>0, <1>1, <1>3, <1>4, <1>5, <1>6

\* Every step keeps BoundInv.
LEMMA NextBoundInv == TypeInv /\ BoundInv /\ [Next]_vars => BoundInv'
<1> SUFFICES ASSUME TypeInv, BoundInv, [Next]_vars PROVE BoundInv'
  OBVIOUS
<1>0. /\ iter \in Nat /\ MaxIterations \in Nat \ {0} /\ LoopThreshold \in Nat \ {0}
      /\ \A g \in Call : ran[g] + Cardinality(Waiting(g)) <= counts[g] /\ counts[g] < LoopThreshold
      /\ \A g \in Call : ran[g] \in Nat /\ counts[g] \in Nat
  BY ToolCallsAssumption DEF TypeInv, BoundInv
<1>1. ASSUME UNCHANGED <<st, iter, usage, counts, calls>>,
             \A g \in Call : ran'[g] + Cardinality(Waiting(g)') <= counts'[g]
      PROVE  BoundInv'
  BY <1>1 DEF BoundInv
<1>2. ASSUME UNCHANGED <<counts, ran, calls>>,
             \A i \in Slots : slot'[i] \in {"start", "decide", "ask"} <=> slot[i] \in {"start", "decide", "ask"}
      PROVE  \A g \in Call : ran'[g] + Cardinality(Waiting(g)') <= counts'[g]
  <2>1. \A g \in Call : Waiting(g)' = Waiting(g)
    BY <1>2 DEF Waiting, Slots
  <2> QED BY <1>0, <1>2, <2>1
<1>3. CASE Unnoticed \/ Tick
  <2>1. UNCHANGED <<st, iter, usage, counts, calls, ran, slot>>
    BY <1>3 DEF Unnoticed, Tick, loopvars
  <2> QED BY <1>1, <1>2, <2>1
<1>4. CASE Proceeds
  <2>1. UNCHANGED <<counts, ran, calls, slot, iter>> /\ st' # "exec"
        /\ (st' \in {"provider", "exec"} => iter < MaxIterations)
    BY <1>4 DEF Proceeds
  <2>2. \A g \in Call : ran'[g] + Cardinality(Waiting(g)') <= counts'[g]
    BY <1>2, <2>1
  <2> QED BY <1>0, <2>1, <2>2 DEF BoundInv
<1>5. CASE Executed
  <2>1. /\ calls' = <<>> /\ iter' = iter + 1 /\ st = "exec" /\ st' = "check" /\ UNCHANGED <<counts, ran>>
    BY <1>5 DEF Executed
  <2>2. \A g : Waiting(g)' = {}
    BY <2>1 DEF Waiting, Slots
  <2>3. ASSUME NEW g \in Call PROVE ran'[g] + Cardinality(Waiting(g)') <= counts'[g]
    <3>1. Cardinality(Waiting(g)') = 0 /\ Cardinality(Waiting(g)) \in Nat
      BY <2>2, FS_EmptySet, WaitingFinite
    <3> QED BY <1>0, <2>1, <3>1
  <2>4. iter' <= MaxIterations
    BY <1>0, <2>1 DEF BoundInv
  <2> QED BY <1>0, <2>1, <2>3, <2>4 DEF BoundInv
<1>6. ASSUME NEW reason, EndTurn(reason) PROVE BoundInv'
  <2>1. /\ calls' = <<>> /\ iter' = 0 /\ st' = "idle" /\ counts' = [g \in Call |-> 0] /\ ran' = [g \in Call |-> 0]
    BY <1>6 DEF EndTurn
  <2>2. \A g : Waiting(g)' = {}
    BY <2>1 DEF Waiting, Slots
  <2>3. ASSUME NEW g \in Call PROVE ran'[g] + Cardinality(Waiting(g)') <= counts'[g] /\ counts'[g] < LoopThreshold
    <3>1. Cardinality(Waiting(g)') = 0
      BY <2>2, FS_EmptySet
    <3> QED BY <1>0, <2>1, <3>1
  <2> QED BY <1>0, <2>1, <2>3 DEF BoundInv
<1>7. ASSUME NEW resp \in Responses, NEW u \in Usage, CompleteCalls(resp, u) PROVE BoundInv'
  <2>1. /\ calls' = resp /\ slot' = [i \in Pending |-> IF i \in DOMAIN resp THEN "start" ELSE "none"]
        /\ st = "provider" /\ st' = "exec" /\ usage' = usage + u
        /\ counts' = [g \in Call |-> counts[g] + Before(resp, g, Len(resp))]
        /\ UNCHANGED <<iter, ran>> /\ ~LoopDetected(resp) /\ ~Exceeded(usage + u)
    BY <1>7 DEF CompleteCalls
  <2>2. DOMAIN resp = 1..Len(resp) /\ DOMAIN resp \subseteq Pending /\ Len(resp) \in Nat
    BY ResponseOf
  <2>3. ASSUME NEW g \in Call PROVE ran'[g] + Cardinality(Waiting(g)') <= counts'[g] /\ counts'[g] < LoopThreshold
    <3>1. Waiting(g)' = {j \in 1..Len(resp) : resp[j] = g}
      BY <2>1, <2>2 DEF Waiting, Slots
    <3>2. Cardinality(Waiting(g)') = Before(resp, g, Len(resp)) /\ Before(resp, g, Len(resp)) \in Nat
      BY <2>2, <3>1, BeforeFinite DEF Before
    <3>3. counts'[g] = counts[g] + Before(resp, g, Len(resp)) /\ ran'[g] = ran[g]
      BY <2>1
    <3>4. counts'[g] < LoopThreshold
      BY <1>0, <2>1, <3>3, CountedBelow
    <3>5. ran[g] <= counts[g]
      <4>1. Cardinality(Waiting(g)) \in Nat
        BY WaitingFinite
      <4> QED BY <1>0, <4>1
    <3> QED BY <1>0, <3>2, <3>3, <3>4, <3>5
  <2>4. TokenBudget > 0 => usage' < TokenBudget
    <3>1. usage \in Nat /\ u \in Nat /\ TokenBudget \in Nat
      BY ToolCallsAssumption DEF TypeInv
    <3> QED BY <2>1, <3>1 DEF Exceeded
  <2> QED BY <2>1, <2>3, <2>4 DEF BoundInv
<1>8. ASSUME NEW i \in Pending, NEW p \in SlotPoint, slot' = [slot EXCEPT ![i] = p],
             slot[i] # "none", UNCHANGED <<st, iter, usage, counts, calls>>,
             \/ slot[i] \in {"start", "decide", "ask"} /\ p \in {"start", "decide", "ask"} /\ ran' = ran
             \/ slot[i] \notin {"start", "decide", "ask"} /\ p \notin {"start", "decide", "ask"} /\ ran' = ran
             \/ /\ slot[i] \in {"start", "decide", "ask"} /\ p \notin {"start", "decide", "ask"}
                /\ ran' = ran \/ ran' = [ran EXCEPT ![calls[i]] = @ + 1]
      PROVE  BoundInv'
  <2>1. i \in Slots /\ DOMAIN slot = Pending /\ Slots \subseteq Pending
    BY <1>8 DEF TypeInv, Slots
  <2>2. CASE ran' = ran /\ (slot[i] \in {"start", "decide", "ask"} <=> p \in {"start", "decide", "ask"})
    <3>1. \A j \in Slots : slot'[j] \in {"start", "decide", "ask"} <=> slot[j] \in {"start", "decide", "ask"}
      BY <1>8, <2>1, <2>2
    <3> QED BY <1>1, <1>2, <1>8, <2>2, <3>1
  <2>3. CASE /\ slot[i] \in {"start", "decide", "ask"} /\ p \notin {"start", "decide", "ask"}
             /\ ran' = ran \/ ran' = [ran EXCEPT ![calls[i]] = @ + 1]
    BY <1>0, <1>1, <1>8, <2>1, <2>3, WaitingLess
  <2> QED BY <1>8, <2>2, <2>3
<1>9. ASSUME NEW i \in Pending, Enter(i) \/ Decide(i) \/ BeginReturns(i) \/ ToolReturns(i) PROVE BoundInv'
  <2>1. UNCHANGED <<st, iter, usage, counts, calls>>
    BY <1>9 DEF Enter, Decide, BeginReturns, ToolReturns, loopvars
  <2>2. CASE Enter(i)
    <3>1. slot[i] = "start" /\ ran' = ran /\ \E p \in {"done", "decide"} : slot' = [slot EXCEPT ![i] = p]
      BY <2>2 DEF Enter
    <3> QED BY <1>8, <2>1, <3>1 DEF SlotPoint
  <2>3. CASE Decide(i)
    <3>1. /\ slot[i] = "decide"
          /\ \/ ran' = ran /\ \E p \in {"done", "ask"} : slot' = [slot EXCEPT ![i] = p]
             \/ ran' = [ran EXCEPT ![calls[i]] = @ + 1] /\ slot' = [slot EXCEPT ![i] = "run"]
      BY <2>3 DEF Decide, Runs
    <3> QED BY <1>8, <2>1, <3>1 DEF SlotPoint
  <2>4. CASE BeginReturns(i)
    <3>1. /\ slot[i] = "ask"
          /\ \/ ran' = ran /\ slot' = [slot EXCEPT ![i] = "done"]
             \/ ran' = [ran EXCEPT ![calls[i]] = @ + 1] /\ slot' = [slot EXCEPT ![i] = "run"]
      BY <2>4 DEF BeginReturns, Runs
    <3> QED BY <1>8, <2>1, <3>1 DEF SlotPoint
  <2>5. CASE ToolReturns(i)
    <3>1. slot[i] = "run" /\ ran' = ran /\ slot' = [slot EXCEPT ![i] = "done"]
      BY <2>5 DEF ToolReturns
    <3> QED BY <1>8, <2>1, <3>1 DEF SlotPoint
  <2> QED BY <1>9, <2>2, <2>3, <2>4, <2>5
<1>10. ASSUME \/ \E i \in Pending : BeginWaits(i)
              \/ \E i \in Pending, e \in 1..MaxBegins, r \in Decision \cup {"error"} : RequesterAnswers(i, e, r)
       PROVE  BoundInv'
  <2>1. UNCHANGED <<st, iter, usage, counts, calls, ran, slot>>
    BY <1>10 DEF BeginWaits, RequesterAnswers, loopvars
  <2> QED BY <1>1, <1>2, <2>1
<1> QED BY <1>3, <1>4, <1>5, <1>6, <1>7, <1>9, <1>10, Steps

\* BoundInv at the start.
LEMMA InitBoundInv == Init => BoundInv
<1> SUFFICES ASSUME Init PROVE BoundInv
  OBVIOUS
<1>1. \A g : Waiting(g) = {}
  BY DEF Init, Waiting, Slots
<1>2. \A g : Cardinality(Waiting(g)) = 0
  BY <1>1, FS_EmptySet
<1>3. \A g \in Call : ran[g] = 0 /\ counts[g] = 0
  BY DEF Init
<1>4. st = "idle" /\ iter = 0
  BY DEF Init
<1> QED BY <1>2, <1>3, <1>4, ToolCallsAssumption DEF BoundInv

\* BoundedTurn for every threshold, budget and maximum and any number of parallel
\* calls: the loop detector counts a call before any of its goroutines runs it.
THEOREM TurnsBounded == Spec => []BoundedTurn
<1>1. TypeInv /\ BoundInv => BoundedTurn
  <2> SUFFICES ASSUME TypeInv, BoundInv, NEW g \in Call PROVE ran[g] < LoopThreshold
    BY DEF BoundedTurn, BoundInv
  <2>1. Cardinality(Waiting(g)) \in Nat /\ ran[g] \in Nat /\ counts[g] \in Nat /\ LoopThreshold \in Nat
    BY WaitingFinite, ToolCallsAssumption DEF TypeInv
  <2>2. ran[g] + Cardinality(Waiting(g)) <= counts[g] /\ counts[g] < LoopThreshold
    BY DEF BoundInv
  <2> QED BY <2>1, <2>2
<1> QED BY <1>1, InitTypeInv, InitBoundInv, NextTypeInv, NextBoundInv, PTL DEF Spec

-----------------------------------------------------------------------------
\* ResultsMatchCalls.

\* The message of the assistant for n calls of iteration it, and their results.
Asking(it, n) == [role |-> "assistant", ids |-> [k \in 1..n |-> <<it, k>>]]
Answering(it, n) == [k \in 1..n |-> [role |-> "tool", ids |-> <<<<it, k>>>>]]

\* The calls <<it, 1>> to <<it, n>> are n calls.
LEMMA CallsOfIteration ==
    ASSUME NEW it, NEW n \in Nat
    PROVE  /\ IsFiniteSet({<<it, k>> : k \in 1..n})
           /\ Cardinality({<<it, k>> : k \in 1..n}) = n
<1> DEFINE T == {<<it, k>> : k \in 1..n}
           F == [k \in 1..n |-> <<it, k>>]
<1>1. F \in [1..n -> T]
  OBVIOUS
<1>2. \A a, b \in 1..n : F[a] = F[b] => a = b
  OBVIOUS
<1>3. \A x \in T : \E a \in 1..n : F[a] = x
  OBVIOUS
<1>4. F \in Bijection(1..n, T)
  BY <1>1, <1>2, <1>3 DEF Bijection, Injection, IsInjective, Surjection
<1>5. ExistsBijection(1..n, T)
  BY <1>4 DEF ExistsBijection
<1>6. IsFiniteSet(1..n) /\ Cardinality(1..n) = n
  BY FS_Interval
<1> QED BY <1>5, <1>6, FS_Bijection

\* Messages and calls named are finitely many.
LEMMA ConversationFinite ==
    ASSUME NEW ms \in Seq(Message)
    PROVE  /\ IsFiniteSet(Asks(ms)) /\ IsFiniteSet(Named(ms))
           /\ Cardinality(Asks(ms)) \in Nat /\ Cardinality(Named(ms)) \in Nat
<1>1. IsFiniteSet(1..Len(ms)) /\ DOMAIN ms = 1..Len(ms)
  BY FS_Interval, LenProperties
<1>2. IsFiniteSet(Asks(ms))
  BY <1>1, FS_Subset DEF Asks
<1>3. IsFiniteSet(0..MaxIterations) /\ IsFiniteSet(Pending)
  BY FS_Interval, ToolCallsAssumption
<1>4. IsFiniteSet(Identity)
  BY <1>3, FS_Product DEF Identity
<1>5. IsFiniteSet(Named(ms))
  BY <1>4, FS_Subset DEF Named
<1> QED BY <1>2, <1>5, FS_CardinalityType

\* The assistant asks for n calls: one more message, n more calls.
LEMMA AskAppended ==
    ASSUME NEW ms \in Seq(Message), NEW n \in Nat, 1..n \subseteq Pending, NEW it \in 0..MaxIterations,
           \A id \in Named(ms) : id[1] < it
    PROVE  LET new == Append(ms, Asking(it, n)) IN
           /\ new \in Seq(Message) /\ Len(new) = Len(ms) + 1 /\ new[Len(ms) + 1] = Asking(it, n)
           /\ \A m \in 1..Len(ms) : new[m] = ms[m]
           /\ Asks(new) = Asks(ms) \cup {Len(ms) + 1}
           /\ Named(new) = Named(ms) \cup {<<it, k>> : k \in 1..n}
           /\ Cardinality(Asks(new)) = Cardinality(Asks(ms)) + 1
           /\ Cardinality(Named(new)) = Cardinality(Named(ms)) + n
<1> DEFINE a == Asking(it, n)
           new == Append(ms, a)
           T == {<<it, k>> : k \in 1..n}
<1>1. a.role = "assistant" /\ a.ids = [k \in 1..n |-> <<it, k>>]
  BY DEF Asking
<1>2. \A k \in 1..n : <<it, k>> \in Identity
  BY DEF Identity
<1>3. a \in Message
  <2>1. [k \in 1..n |-> <<it, k>>] \in Seq(Identity)
    BY <1>2
  <2> QED BY <2>1 DEF Asking, Message
<1> HIDE DEF a
<1>4. /\ new \in Seq(Message) /\ Len(new) = Len(ms) + 1 /\ new[Len(ms) + 1] = a
      /\ \A m \in 1..Len(ms) : new[m] = ms[m]
  BY <1>3, AppendProperties
<1>5. Len(ms) \in Nat /\ DOMAIN ms = 1..Len(ms) /\ DOMAIN new = 1..(Len(ms) + 1)
  BY <1>4, LenProperties
<1> HIDE DEF new
<1>6. Asks(new) = Asks(ms) \cup {Len(ms) + 1} /\ Len(ms) + 1 \notin Asks(ms)
  BY <1>1, <1>4, <1>5 DEF Asks
<1>7. \A m \in Asks(ms) : new[m] = ms[m]
  BY <1>4, <1>5 DEF Asks
<1>8. {a.ids[k] : k \in DOMAIN a.ids} = T
  BY <1>1
<1>9. Named(new) = Named(ms) \cup T
  <2>1. ASSUME NEW id \in Named(new) PROVE id \in Named(ms) \cup T
    <3>1. PICK m \in Asks(new) : id \in {new[m].ids[k] : k \in DOMAIN new[m].ids}
      BY <2>1 DEF Named
    <3>2. CASE m \in Asks(ms)
      BY <1>7, <2>1, <3>1, <3>2 DEF Named
    <3>3. CASE m = Len(ms) + 1
      BY <1>4, <1>8, <3>1, <3>3
    <3> QED BY <1>6, <3>1, <3>2, <3>3
  <2>2. ASSUME NEW id \in Named(ms) PROVE id \in Named(new)
    BY <1>6, <1>7, <2>2 DEF Named
  <2>3. ASSUME NEW id \in T PROVE id \in Named(new)
    <3>1. id \in Identity /\ id \in {new[Len(ms) + 1].ids[k] : k \in DOMAIN new[Len(ms) + 1].ids}
      BY <1>2, <1>4, <1>8, <2>3
    <3>2. Len(ms) + 1 \in Asks(new)
      BY <1>6
    <3> QED BY <3>1, <3>2 DEF Named
  <2> QED BY <2>1, <2>2, <2>3
<1>10. /\ IsFiniteSet(Asks(ms)) /\ IsFiniteSet(Named(ms)) /\ IsFiniteSet(T) /\ Cardinality(T) = n
       /\ Cardinality(Asks(ms)) \in Nat /\ Cardinality(Named(ms)) \in Nat
  BY ConversationFinite, CallsOfIteration
<1>11. Cardinality(Asks(new)) = Cardinality(Asks(ms)) + 1
  BY <1>6, <1>10, FS_AddElement
<1>12. Named(ms) \cap T = {}
  <2>1. MaxIterations \in Nat /\ it \in Nat
    BY ToolCallsAssumption
  <2>2. \A k \in 1..n : <<it, k>>[1] = it /\ ~(it < it)
    BY <2>1
  <2> QED BY <2>2
<1>13. Cardinality(Named(new)) = Cardinality(Named(ms)) + n
  <2>1. Cardinality(Named(ms) \cup T) = Cardinality(Named(ms)) + Cardinality(T) - Cardinality(Named(ms) \cap T)
    BY <1>10, FS_Union
  <2>2. Cardinality(Named(ms) \cap T) = 0
    BY <1>12, FS_EmptySet
  <2> QED BY <1>9, <1>10, <2>1, <2>2
<1> QED BY <1>4, <1>6, <1>9, <1>11, <1>13 DEF new, a

\* The results of n calls follow the message that asks for them.
LEMMA ResultsAppended ==
    ASSUME NEW ms \in Seq(Message), NEW n \in Nat, 1..n \subseteq Pending, NEW it \in 0..MaxIterations,
           ms # <<>>, ms[Len(ms)] = Asking(it, n)
    PROVE  LET new == ms \o Answering(it, n) IN
           /\ new \in Seq(Message) /\ Len(new) = Len(ms) + n
           /\ Asks(new) = Asks(ms) /\ Named(new) = Named(ms)
           /\ \A m \in Asks(ms) : Followed(ms, m) \/ m = Len(ms) => Followed(new, m)
<1> DEFINE rs == Answering(it, n)
           new == ms \o rs
<1>1. \A k \in 1..n : <<it, k>> \in Identity
  BY DEF Identity
<1>2. rs \in Seq(Message) /\ Len(rs) = n /\ \A k \in 1..n : rs[k] = [role |-> "tool", ids |-> <<<<it, k>>>>]
  <2>1. \A k \in 1..n : <<<<it, k>>>> \in Seq(Identity)
    BY <1>1
  <2>2. \A k \in 1..n : [role |-> "tool", ids |-> <<<<it, k>>>>] \in Message
    BY <2>1 DEF Message
  <2>3. rs \in [1..n -> Message]
    BY <2>2 DEF Answering
  <2>4. rs \in Seq(Message) /\ Len(rs) = n
    BY <2>3
  <2> QED BY <2>4 DEF Answering
<1> HIDE DEF rs
<1>3. /\ new \in Seq(Message) /\ Len(new) = Len(ms) + Len(rs)
      /\ \A i \in 1..(Len(ms) + Len(rs)) : new[i] = IF i <= Len(ms) THEN ms[i] ELSE rs[i - Len(ms)]
  BY <1>2, ConcatProperties
<1>4. Len(ms) \in Nat /\ DOMAIN ms = 1..Len(ms) /\ DOMAIN new = 1..(Len(ms) + n) /\ Len(ms) # 0
  BY <1>2, <1>3, LenProperties, EmptySeq
<1> HIDE DEF new
<1>5. \A m \in 1..Len(ms) : m \in DOMAIN new /\ new[m] = ms[m]
  BY <1>2, <1>3, <1>4
<1>6. \A k \in 1..n : Len(ms) + k \in DOMAIN new /\ new[Len(ms) + k] = [role |-> "tool", ids |-> <<<<it, k>>>>]
  <2> SUFFICES ASSUME NEW k \in 1..n
               PROVE  Len(ms) + k \in DOMAIN new /\ new[Len(ms) + k] = [role |-> "tool", ids |-> <<<<it, k>>>>]
    OBVIOUS
  <2>1. Len(ms) + k \in 1..(Len(ms) + n) /\ ~(Len(ms) + k <= Len(ms)) /\ (Len(ms) + k) - Len(ms) = k
    BY <1>4
  <2>2. new[Len(ms) + k] = rs[k]
    BY <1>2, <1>3, <2>1
  <2> QED BY <1>2, <1>4, <2>1, <2>2
<1>7. Asks(new) = Asks(ms)
  <2>1. ASSUME NEW m \in Asks(new) PROVE m \in Asks(ms)
    <3>1. m \in 1..(Len(ms) + n) /\ new[m].role = "assistant"
      BY <1>4, <2>1 DEF Asks
    <3>2. ASSUME ~(m <= Len(ms)) PROVE FALSE
      <4>1. m - Len(ms) \in 1..n /\ Len(ms) + (m - Len(ms)) = m
        BY <1>4, <3>1, <3>2
      <4>2. new[m] = [role |-> "tool", ids |-> <<<<it, m - Len(ms)>>>>]
        BY <1>6, <4>1
      <4> QED BY <3>1, <4>2
    <3>3. m \in 1..Len(ms)
      BY <1>4, <3>1, <3>2
    <3> QED BY <1>4, <1>5, <3>1, <3>3 DEF Asks
  <2>2. ASSUME NEW m \in Asks(ms) PROVE m \in Asks(new)
    BY <1>4, <1>5, <2>2 DEF Asks
  <2> QED BY <2>1, <2>2
<1>8. Named(new) = Named(ms)
  <2>1. \A m \in Asks(ms) : new[m] = ms[m]
    BY <1>4, <1>5 DEF Asks
  <2> QED BY <1>7, <2>1 DEF Named
<1>9. ASSUME NEW m \in Asks(ms), Followed(ms, m) PROVE Followed(new, m)
  <2>1. new[m] = ms[m]
    BY <1>4, <1>5 DEF Asks
  <2> QED BY <1>4, <1>5, <1>9, <2>1 DEF Followed
<1>10. Followed(new, Len(ms))
  <2>1. Len(ms) \in 1..Len(ms)
    BY <1>4
  <2>2. new[Len(ms)].ids = [k \in 1..n |-> <<it, k>>]
    BY <1>5, <2>1 DEF Asking
  <2> QED BY <1>6, <2>2 DEF Followed
<1> QED BY <1>2, <1>3, <1>7, <1>8, <1>9, <1>10 DEF new, rs

\* Every step keeps ConvInv.
LEMMA NextConvInv == TypeInv /\ BoundInv /\ ConvInv /\ [Next]_vars => ConvInv'
<1> SUFFICES ASSUME TypeInv, BoundInv, ConvInv, [Next]_vars PROVE ConvInv'
  OBVIOUS
<1>1. ASSUME UNCHANGED <<st, iter, messages, calls>> PROVE ConvInv'
  BY <1>1 DEF ConvInv, Asks, Named, Followed, Identity, Message
<1>2. CASE Unnoticed \/ Tick
  BY <1>1, <1>2 DEF Unnoticed, Tick, loopvars
<1>3. CASE Proceeds
  <2>1. UNCHANGED <<iter, messages, calls>> /\ st # "exec" /\ st' # "exec"
    BY <1>3 DEF Proceeds
  <2> QED BY <2>1 DEF ConvInv, Asks, Named, Followed, Identity, Message
<1>4. CASE Executed
  <2> DEFINE n == Len(calls)
             new == messages \o Answering(iter, n)
  <2>1. /\ st = "exec" /\ st' = "check" /\ iter' = iter + 1 /\ calls' = <<>>
        /\ messages' = messages \o Results
    BY <1>4 DEF Executed
  <2>2. n \in Nat /\ DOMAIN calls = 1..n /\ 1..n \subseteq Pending
    BY LenProperties DEF TypeInv
  <2>3. messages' = new
    BY <2>1, <2>2 DEF Results, Answering
  <2>4. iter \in 0..MaxIterations /\ iter \in Nat
    BY ToolCallsAssumption DEF TypeInv, BoundInv
  <2>5. messages \in Seq(Message) /\ messages # <<>> /\ messages[Len(messages)] = Asking(iter, n)
    BY <2>1, <2>2 DEF ConvInv, Asking
  <2>6. /\ new \in Seq(Message) /\ Len(new) = Len(messages) + n
        /\ Asks(new) = Asks(messages) /\ Named(new) = Named(messages)
        /\ \A m \in Asks(messages) : Followed(messages, m) \/ m = Len(messages) => Followed(new, m)
    BY <2>2, <2>4, <2>5, ResultsAppended
  <2> HIDE DEF new
  <2>7. \A m \in Asks(new) : Followed(new, m)
    BY <2>6 DEF ConvInv
  <2>8. \A id \in Named(new) : id[1] < iter + 1
    <3> SUFFICES ASSUME NEW id \in Named(messages) PROVE id[1] < iter + 1
      BY <2>6
    <3>1. id[1] < iter \/ id[1] = iter
      BY DEF ConvInv
    <3>2. id[1] \in 0..MaxIterations /\ MaxIterations \in Nat
      BY ToolCallsAssumption DEF Named, Identity
    <3> QED BY <2>4, <3>1, <3>2
  <2>9. Len(new) = Cardinality(Asks(new)) + Cardinality(Named(new))
    BY <2>1, <2>6 DEF ConvInv
  <2>10. Len(new) \in Nat
    BY <2>6, LenProperties
  <2>11. /\ messages' \in Seq(Message)
         /\ \A m \in Asks(messages') : Followed(messages', m)
         /\ \A id \in Named(messages') : id[1] < iter'
         /\ Len(messages') + 0 = Cardinality(Asks(messages')) + Cardinality(Named(messages'))
    BY <2>1, <2>3, <2>6, <2>7, <2>8, <2>9, <2>10
  <2> QED BY <2>1, <2>11 DEF ConvInv
<1>5. ASSUME NEW reason, EndTurn(reason) PROVE ConvInv'
  <2>1. st' = "idle" /\ messages' = <<>>
    BY <1>5 DEF EndTurn
  <2>2. Asks(<<>>) = {} /\ Named(<<>>) = {} /\ <<>> \in Seq(Message) /\ Len(<<>>) = 0
    BY DEF Asks, Named
  <2>3. Cardinality(Asks(<<>>)) = 0 /\ Cardinality(Named(<<>>)) = 0
    BY <2>2, FS_EmptySet
  <2>4. /\ messages' \in Seq(Message)
        /\ \A m \in Asks(messages') : Followed(messages', m)
        /\ \A id \in Named(messages') : id[1] < iter'
        /\ Len(messages') + 0 = Cardinality(Asks(messages')) + Cardinality(Named(messages'))
    BY <2>1, <2>2, <2>3
  <2> QED BY <2>1, <2>4 DEF ConvInv
<1>6. ASSUME NEW resp \in Responses, NEW u \in Usage, CompleteCalls(resp, u) PROVE ConvInv'
  <2> DEFINE n == Len(resp)
             new == Append(messages, Asking(iter, n))
  <2>1. /\ st = "provider" /\ st' = "exec" /\ iter' = iter /\ calls' = resp
        /\ messages' = Append(messages, [role |-> "assistant", ids |-> [k \in DOMAIN resp |-> <<iter, k>>]])
    BY <1>6 DEF CompleteCalls
  <2>2. n \in Nat /\ DOMAIN resp = 1..n /\ 1..n \subseteq Pending
    BY ResponseOf
  <2>3. messages' = new
    BY <2>1, <2>2 DEF Asking
  <2>4. iter \in 0..MaxIterations /\ iter \in Nat
    BY ToolCallsAssumption DEF TypeInv, BoundInv
  <2>5. messages \in Seq(Message) /\ \A id \in Named(messages) : id[1] < iter
    BY <2>1 DEF ConvInv
  <2>6. /\ new \in Seq(Message) /\ Len(new) = Len(messages) + 1 /\ new[Len(messages) + 1] = Asking(iter, n)
        /\ \A m \in 1..Len(messages) : new[m] = messages[m]
        /\ Asks(new) = Asks(messages) \cup {Len(messages) + 1}
        /\ Named(new) = Named(messages) \cup {<<iter, k>> : k \in 1..n}
        /\ Cardinality(Asks(new)) = Cardinality(Asks(messages)) + 1
        /\ Cardinality(Named(new)) = Cardinality(Named(messages)) + n
    BY <2>2, <2>4, <2>5, AskAppended
  <2> HIDE DEF new
  <2>7. /\ Len(messages) \in Nat /\ DOMAIN messages = 1..Len(messages) /\ DOMAIN new = 1..(Len(messages) + 1)
    BY <2>5, <2>6, LenProperties
  <2>8. ASSUME NEW m \in Asks(messages) PROVE Followed(new, m)
    <3>1. Followed(messages, m)
      BY <2>1 DEF ConvInv
    <3>2. m \in 1..Len(messages) /\ new[m] = messages[m]
      BY <2>6, <2>7 DEF Asks
    <3>3. \A x \in 1..Len(messages) : x \in DOMAIN new /\ new[x] = messages[x]
      BY <2>6, <2>7
    <3> QED BY <2>7, <3>1, <3>2, <3>3 DEF Followed
  <2>9. new # <<>> /\ Len(new) = Len(messages) + 1
    BY <2>6, <2>7
  <2>10. \A id \in Named(new) : id[1] < iter \/ id[1] = iter
    BY <2>5, <2>6
  <2>11. Len(new) + n = Cardinality(Asks(new)) + Cardinality(Named(new))
    <3>1. Len(messages) + 0 = Cardinality(Asks(messages)) + Cardinality(Named(messages))
      BY <2>1 DEF ConvInv
    <3>2. Cardinality(Asks(messages)) \in Nat /\ Cardinality(Named(messages)) \in Nat
      BY <2>5, ConversationFinite
    <3>3. /\ Len(new) = Len(messages) + 1
          /\ Cardinality(Asks(new)) = Cardinality(Asks(messages)) + 1
          /\ Cardinality(Named(new)) = Cardinality(Named(messages)) + n
      BY <2>6
    <3>4. \A a, b, c, d \in Nat : a + 0 = b + c => (a + 1) + d = (b + 1) + (c + d)
      OBVIOUS
    <3>5. Len(messages) \in Nat /\ n \in Nat
      BY <2>2, <2>7
    <3> HIDE DEF n
    <3> QED BY <3>1, <3>2, <3>3, <3>4, <3>5
  <2>12. \A m \in Asks(new) : m = Len(new) \/ Followed(new, m)
    BY <2>6, <2>8
  <2>13. new[Len(new)] = [role |-> "assistant", ids |-> [k \in DOMAIN resp |-> <<iter, k>>]]
    BY <2>2, <2>6 DEF Asking
  <2>14. /\ messages' \in Seq(Message) /\ messages' # <<>>
         /\ \A m \in Asks(messages') : m = Len(messages') \/ Followed(messages', m)
         /\ messages'[Len(messages')] = [role |-> "assistant", ids |-> [k \in DOMAIN calls' |-> <<iter', k>>]]
         /\ \A id \in Named(messages') : id[1] < iter' \/ id[1] = iter'
         /\ Len(messages') + Len(calls') = Cardinality(Asks(messages')) + Cardinality(Named(messages'))
    BY <2>1, <2>3, <2>6, <2>9, <2>10, <2>11, <2>12, <2>13
  <2> QED BY <2>1, <2>14 DEF ConvInv
<1>7. ASSUME NEW i \in Pending,
             Enter(i) \/ Decide(i) \/ BeginWaits(i) \/ BeginReturns(i) \/ ToolReturns(i)
      PROVE  ConvInv'
  BY <1>1, <1>7 DEF Enter, Decide, BeginWaits, BeginReturns, ToolReturns, loopvars
<1>8. ASSUME NEW i \in Pending, NEW e \in 1..MaxBegins, NEW r \in Decision \cup {"error"},
             RequesterAnswers(i, e, r)
      PROVE  ConvInv'
  BY <1>1, <1>8 DEF RequesterAnswers, loopvars
<1> QED BY <1>2, <1>3, <1>4, <1>5, <1>6, <1>7, <1>8, Steps

\* ResultsMatchCalls for any calls in any number of iterations: every completion is
\* asked with each earlier message of the assistant followed by the results of its
\* calls, and with nothing else.
THEOREM ConversationsWellFormed == Spec => []ResultsMatchCalls
<1>1. Init => ConvInv
  <2> SUFFICES ASSUME Init PROVE ConvInv
    OBVIOUS
  <2>1. st = "idle" /\ messages = <<>>
    BY DEF Init
  <2>2. Asks(messages) = {} /\ Named(messages) = {} /\ messages \in Seq(Message) /\ Len(messages) = 0
    BY <2>1 DEF Asks, Named
  <2>3. Cardinality(Asks(messages)) = 0 /\ Cardinality(Named(messages)) = 0
    BY <2>2, FS_EmptySet
  <2> QED BY <2>1, <2>2, <2>3 DEF ConvInv
<1>2. ConvInv => ResultsMatchCalls
  <2> SUFFICES ASSUME ConvInv, st = "provider" PROVE ResultsMatchCalls
    BY DEF ResultsMatchCalls
  <2>1. \A m \in Asks(messages) : Followed(messages, m)
    BY DEF ConvInv
  <2>2. Len(messages) = Cardinality(Asks(messages)) + Cardinality(Named(messages))
    <3>1. Len(messages) \in Nat /\ Len(messages) + 0 = Cardinality(Asks(messages)) + Cardinality(Named(messages))
      BY LenProperties DEF ConvInv
    <3> QED BY <3>1
  <2>3. Named(messages) = {id \in (0..MaxIterations) \X Pending :
                    \E m \in DOMAIN messages : /\ messages[m].role = "assistant"
                                               /\ id \in {messages[m].ids[k] : k \in DOMAIN messages[m].ids}}
    BY DEF Named, Asks, Identity
  <2>4. Asks(messages) = {m \in DOMAIN messages : messages[m].role = "assistant"}
    BY DEF Asks
  <2> QED BY <2>1, <2>2, <2>3, <2>4 DEF ResultsMatchCalls, Followed
<1> QED BY <1>1, <1>2, InitTypeInv, InitBoundInv, NextTypeInv, NextBoundInv, NextConvInv, PTL DEF Spec
==============================================================================
