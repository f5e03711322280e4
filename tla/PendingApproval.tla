--------------------------- MODULE PendingApproval ---------------------------
(***************************************************************************)
(* internal/tool/state.go: the state machine behind one approval request.  *)
(* Begin asks a requester in a goroutine of its own and waits for the      *)
(* first of a response, the requester's error and the end of its context;  *)
(* Respond delivers a decision from elsewhere.  Every Begin makes a fresh  *)
(* response channel: the channel of the e-th Begin of p is chan[p][e], and *)
(* what an earlier Begin left running keeps the earlier channel.           *)
(***************************************************************************)
EXTENDS Naturals

CONSTANTS
    Pending,    \* the PendingApproval objects
    MaxBegins   \* bound: calls of Begin of one object

ASSUME PendingAssumption == MaxBegins \in Nat \ {0}

VARIABLES
    pstate,   \* PendingApproval.state
    epoch,    \* calls of Begin so far
    chan,     \* responseCh of each Begin: empty ("none"), or a decision
    errCh,    \* requestErrCh holds the requester's error
    actx,     \* Begin's context: "live", or why it is done
    asking,   \* the goroutines <<p, e>> inside RequestApproval
    begin,    \* where Begin is: not running, in its select, or leaving
    verdict   \* what Begin returns

apvars == <<pstate, epoch, chan, errCh, actx, asking, begin, verdict>>

Decision == {"yes", "no"}

ApprovalInit ==
    /\ pstate = [p \in Pending |-> "idle"]
    /\ epoch = [p \in Pending |-> 0]
    /\ chan = [p \in Pending |-> [e \in 1..MaxBegins |-> "none"]]
    /\ errCh = [p \in Pending |-> FALSE]
    /\ actx = [p \in Pending |-> "live"]
    /\ asking = {}
    /\ begin = [p \in Pending |-> "out"]
    /\ verdict = [p \in Pending |-> "none"]

-----------------------------------------------------------------------------
\* Begin up to its select, with ch in the channel it will read.  A Begin of an
\* object whose state is not idle is refused with ErrDenied and changes nothing.
\* ctx: the caller's context, from which Begin derives one with the timeout.
BeginWith(p, ctx, ch) ==
    LET e == epoch[p] + 1 IN
    /\ begin[p] = "out"
    /\ pstate[p] = "idle"
    /\ epoch[p] < MaxBegins
    /\ epoch' = [epoch EXCEPT ![p] = e]
    /\ chan' = [chan EXCEPT ![p][e] = ch]
    /\ pstate' = [pstate EXCEPT ![p] = "pending"]
    /\ actx' = [actx EXCEPT ![p] = ctx]
    /\ errCh' = [errCh EXCEPT ![p] = FALSE]
    /\ asking' = asking \cup {<<p, e>>}
    /\ begin' = [begin EXCEPT ![p] = "select"]
    /\ UNCHANGED verdict

\* Mutant: Begin reuses the channel of the Begin before, with what is in it.
BeginStaleChannel(p, ctx) ==
    BeginWith(p, ctx, IF epoch[p] > 0 THEN chan[p][epoch[p]] ELSE "none")

Begin(p, ctx) == BeginWith(p, ctx, "none")

\* Begin's context is done: it ended, or Begin returned and cancelled it.
ContextDone(p, e) == e # epoch[p] \/ begin[p] = "out" \/ actx[p] # "live"

\* The requester's goroutine ends: it answers (r is a decision) and sends the
\* answer when the channel has room, or gives up when the context is done; or
\* it fails, which only the Begin that started it hears of.
RequesterReturns(p, e, r) ==
    /\ <<p, e>> \in asking
    /\ asking' = asking \ {<<p, e>>}
    /\ \/ /\ r = "error"
          /\ errCh' = [errCh EXCEPT ![p] = errCh[p] \/ (e = epoch[p] /\ begin[p] # "out")]
          /\ UNCHANGED chan
       \/ /\ r \in Decision
          /\ chan[p][e] = "none"
          /\ chan' = [chan EXCEPT ![p][e] = r]
          /\ UNCHANGED errCh
       \/ /\ r \in Decision
          /\ ContextDone(p, e)
          /\ UNCHANGED <<chan, errCh>>
    /\ UNCHANGED <<pstate, epoch, actx, begin, verdict>>

\* The approval timeout, or the end of the caller's context.
ContextEnds(p, why) ==
    /\ begin[p] # "out"
    /\ actx[p] = "live"
    /\ actx' = [actx EXCEPT ![p] = why]
    /\ UNCHANGED <<pstate, epoch, chan, errCh, asking, begin, verdict>>

SelectResponse(p) ==
    /\ begin[p] = "select"
    /\ chan[p][epoch[p]] # "none"
    /\ verdict' = [verdict EXCEPT ![p] = chan[p][epoch[p]]]
    /\ chan' = [chan EXCEPT ![p][epoch[p]] = "none"]
    /\ begin' = [begin EXCEPT ![p] = "leave"]
    /\ UNCHANGED <<pstate, epoch, errCh, actx, asking>>

WhyDone(p) == IF actx[p] = "deadline" THEN "timeout" ELSE "canceled"

SelectError(p) ==
    /\ begin[p] = "select"
    /\ errCh[p]
    /\ verdict' = [verdict EXCEPT ![p] = IF actx[p] = "live" THEN "error" ELSE WhyDone(p)]
    /\ begin' = [begin EXCEPT ![p] = "leave"]
    /\ UNCHANGED <<pstate, epoch, chan, errCh, actx, asking>>

\* Mutant: only the caller's cancellation ends the wait.
SelectDoneNoTimeout(p) ==
    /\ begin[p] = "select"
    /\ actx[p] = "canceled"
    /\ verdict' = [verdict EXCEPT ![p] = WhyDone(p)]
    /\ begin' = [begin EXCEPT ![p] = "leave"]
    /\ UNCHANGED <<pstate, epoch, chan, errCh, actx, asking>>

SelectDone(p) ==
    /\ begin[p] = "select"
    /\ actx[p] # "live"
    /\ verdict' = [verdict EXCEPT ![p] = WhyDone(p)]
    /\ begin' = [begin EXCEPT ![p] = "leave"]
    /\ UNCHANGED <<pstate, epoch, chan, errCh, actx, asking>>

\* Begin returns: on a timeout it fills the channel with a refusal (the state
\* is StateTimeout meanwhile, which Respond takes as it takes idle), then the
\* deferred calls cancel the context and set the state to idle.  Its locals are
\* reset.
Leave(p) ==
    /\ begin[p] = "leave"
    /\ chan' = [chan EXCEPT ![p][epoch[p]] =
                   IF verdict[p] = "timeout" /\ @ = "none" THEN "no" ELSE @]
    /\ pstate' = [pstate EXCEPT ![p] = "idle"]
    /\ begin' = [begin EXCEPT ![p] = "out"]
    /\ errCh' = [errCh EXCEPT ![p] = FALSE]
    /\ actx' = [actx EXCEPT ![p] = "live"]
    /\ verdict' = [verdict EXCEPT ![p] = "none"]
    /\ UNCHANGED <<epoch, asking>>

\* Respond, after it read the channel of the e-th Begin of p under the lock:
\* the non-blocking send, which returns whether the channel had room.
Deliver(p, e, d) ==
    /\ chan' = IF chan[p][e] = "none" THEN [chan EXCEPT ![p][e] = d] ELSE chan
    /\ UNCHANGED <<pstate, epoch, errCh, actx, asking, begin, verdict>>
==============================================================================
