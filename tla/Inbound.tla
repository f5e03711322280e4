------------------------------- MODULE Inbound -------------------------------
(***************************************************************************)
(* modules/channel/telegram, internal/gateway/webhook.go and Submit of     *)
(* internal/router with its ApprovalManager: how an update of Telegram     *)
(* reaches the router, by long polling or by webhook, across stops and     *)
(* crashes of the process.  The updates are 1, 2, ...; Telegram delivers   *)
(* one until it is acknowledged.  A reply to an approval request goes to   *)
(* the PendingApproval of the request instead of the inbox.  The caller of *)
(* Register, Begin and Remove is not in the repository: it is taken to do  *)
(* what their comments say, with one object per request.                   *)
(***************************************************************************)
EXTENDS PendingApproval, Sequences, FiniteSets

CONSTANTS
    Handler,        \* goroutines that handle updates; the poller is Poller
    Poller,
    Kind,           \* what an update may be: records with a field t
    InboxSize,      \* router.Config.InboxSize
    MaxUpdates,     \* bound: updates posted
    MaxErrors,      \* maxConsecutivePollingErrors
    MaxFaults       \* bound: crashes, stops and lost answers

ASSUME InboundAssumption ==
    /\ Poller \in Handler
    /\ {InboxSize, MaxUpdates, MaxErrors} \subseteq Nat \ {0}
    /\ MaxFaults \in Nat

VARIABLES
    mode,      \* Config.Mode
    kind,      \* the updates posted so far
    acked,     \* updates Telegram does not deliver again
    life,      \* the process: "up", "routerStopped", "stopping", "down"
    poll,      \* where the poller's loop is
    offset,    \* its offset
    batch,     \* the updates of the last answer that are left; they come in ascending order
    errors,    \* consecutiveErrors
    th,        \* what each goroutine does: [pc, u, e]
    inbox,     \* the router's inbox
    entries,   \* ApprovalManager.pending
    asked,     \* requests registered so far
    faults,    \* history variable: crashes, stops and lost answers so far
    taken,     \* history variable: how often the router took each update
    dropped,   \* history variable: updates that were not for the router
    refused,   \* history variable: updates for which Submit returned an error
    replies,   \* history variable: replies <<u, p, d>> Submit passed to Respond
    decided    \* history variable: what Begin returned

telegram == <<mode, kind, acked>>
poller == <<poll, offset, batch, errors>>
manager == <<entries, asked, decided, apvars>>
ghosts == <<taken, dropped, refused, replies>>
vars == <<telegram, life, poller, th, inbox, manager, faults, ghosts>>

Idle == [pc |-> "free", u |-> 0, e |-> 0]
Posted == DOMAIN kind

Init ==
    /\ mode \in {"polling", "webhook"}
    /\ kind = <<>>
    /\ acked = {}
    /\ life = "up"
    /\ poll = "poll"
    /\ offset = 0
    /\ batch = {}
    /\ errors = 0
    /\ th = [h \in Handler |-> Idle]
    /\ inbox = <<>>
    /\ entries = {}
    /\ asked = {}
    /\ faults = 0
    /\ taken = [u \in 1..MaxUpdates |-> 0]
    /\ dropped = {}
    /\ refused = {}
    /\ replies = {}
    /\ decided = [p \in Pending |-> "none"]
    /\ ApprovalInit

\* A user writes; a reply names a request the user saw.
Post(k) ==
    /\ Len(kind) < MaxUpdates
    /\ k.t = "reply" => k.p \in asked
    /\ kind' = Append(kind, k)
    /\ UNCHANGED <<mode, acked, life, poller, th, inbox, manager, faults, ghosts>>

-----------------------------------------------------------------------------
\* Handling one update: handleUpdate of the poller, HandleWebhook.

\* It has a message, from somebody IsAllowed.
ForUs(u) == kind[u].t # "other"

\* An update without a message, or from whom the allow list does not name, is
\* skipped; the goroutine passes every other one to Submit.
Handle(h, u) ==
    IF ~ForUs(u)
    THEN dropped' = dropped \cup {u} /\ UNCHANGED th
    ELSE th' = [th EXCEPT ![h] = [pc |-> "submit", u |-> u, e |-> 0]] /\ UNCHANGED dropped

\* Mutant: the webhook answers 200 whatever Submit returned.
AcknowledgeAlways(u, ok) ==
    /\ acked' = IF mode = "webhook" THEN acked \cup {u} ELSE acked
    /\ UNCHANGED faults

\* What Telegram sees of a webhook request that ends.  The poller only logs an
\* error of Submit; the dispatcher answers 500 to one, and Telegram retries.
\* The answer 200 may get lost.
Acknowledge(u, ok) ==
    \/ /\ mode = "webhook" /\ ok
       /\ acked' = acked \cup {u}
       /\ UNCHANGED faults
    \/ /\ mode = "webhook" /\ ok
       /\ faults < MaxFaults
       /\ faults' = faults + 1
       /\ UNCHANGED acked
    \/ /\ mode = "polling" \/ ~ok
       /\ UNCHANGED <<acked, faults>>

\* Submit returns to goroutine h.
Returns(h, ok) ==
    /\ th' = [th EXCEPT ![h] = Idle]
    /\ Acknowledge(th[h].u, ok)

Refuse(h) ==
    /\ Returns(h, FALSE)
    /\ refused' = refused \cup {th[h].u}

-----------------------------------------------------------------------------
\* Router.Submit, under inboxMu for reading.

InSubmit == \E h \in Handler : th[h].pc \in {"respond", "deliver", "enqueue"}

IsReply(u) == kind[u].t = "reply"

\* Mutant: Resolve leaves the entry in the table.
ResolvedKept(p) == entries

\* Resolve takes the entry out of the table before it responds.
Resolved(p) == entries \ {p}

Submit(h) ==
    LET u == th[h].u IN
    /\ th[h].pc = "submit"
    /\ \/ /\ life # "up"
          /\ Refuse(h)
          /\ UNCHANGED entries
       \/ /\ life = "up"
          /\ IF IsReply(u) /\ kind[u].p \in entries
             THEN /\ entries' = Resolved(kind[u].p)
                  /\ th' = [th EXCEPT ![h].pc = "respond"]
             ELSE /\ th' = [th EXCEPT ![h].pc = "enqueue"]
                  /\ UNCHANGED entries
          /\ UNCHANGED <<acked, faults, refused>>
    /\ UNCHANGED <<mode, kind, life, poller, inbox, asked, decided, apvars, taken, dropped,
                   replies>>

\* Respond reads the state and the channel under the object's lock; a request
\* that is not pending leaves the reply an ordinary message.
Respond(h) ==
    LET p == kind[th[h].u].p IN
    /\ th[h].pc = "respond"
    /\ th' = [th EXCEPT ![h].pc = IF pstate[p] = "pending" THEN "deliver" ELSE "enqueue",
                        ![h].e = IF pstate[p] = "pending" THEN epoch[p] ELSE 0]
    /\ UNCHANGED <<telegram, life, poller, inbox, manager, faults, ghosts>>

RespondSends(h) ==
    LET u == th[h].u
        p == kind[u].p
    IN
    /\ th[h].pc = "deliver"
    /\ Deliver(p, th[h].e, kind[u].d)
    /\ \/ /\ chan[p][th[h].e] = "none"
          /\ Returns(h, TRUE)
          /\ replies' = replies \cup {<<u, p, kind[u].d>>}
       \/ /\ chan[p][th[h].e] # "none"
          /\ th' = [th EXCEPT ![h].pc = "enqueue", ![h].e = 0]
          /\ UNCHANGED <<acked, faults, replies>>
    /\ UNCHANGED <<mode, kind, life, poller, inbox, entries, asked, decided, taken, dropped,
                   refused>>

\* A message that is too large or too deep or exceeds the session's rate, as any
\* may, is refused, and so is every one that finds no room in the inbox.
Enqueue(h) ==
    LET u == th[h].u IN
    /\ th[h].pc = "enqueue"
    /\ \/ /\ Refuse(h)
          /\ UNCHANGED <<inbox, taken>>
       \/ /\ Len(inbox) < InboxSize
          /\ inbox' = Append(inbox, u)
          /\ taken' = [taken EXCEPT ![u] = @ + 1]
          /\ Returns(h, TRUE)
          /\ UNCHANGED refused
    /\ UNCHANGED <<mode, kind, life, poller, manager, dropped, replies>>

WorkerTakes ==
    /\ inbox # <<>>
    /\ inbox' = Tail(inbox)
    /\ UNCHANGED <<telegram, life, poller, th, manager, faults, ghosts>>

-----------------------------------------------------------------------------
\* Poller.loop.

Confirmed == IF offset = 0 THEN acked ELSE acked \cup (1..(offset - 1))

\* getUpdates: Telegram forgets what is before the offset and answers with the
\* updates it still has, none when the long poll ends without one.
GetUpdates ==
    /\ mode = "polling"
    /\ life \in {"up", "routerStopped"}
    /\ poll = "poll"
    /\ acked' = Confirmed
    /\ batch' = Posted \ Confirmed
    /\ poll' = IF batch' = {} THEN "poll" ELSE "handle"
    /\ errors' = 0
    /\ UNCHANGED <<mode, kind, life, offset, th, inbox, manager, faults, ghosts>>

\* Mutant: polling ends at the error threshold.
GiveUp == IF errors + 1 >= MaxErrors THEN "ended" ELSE "backoff"

\* The pause after an error: longer at the threshold, then the loop goes on.
Pause == "backoff"

\* The request or its answer gets lost.
GetUpdatesFails ==
    /\ mode = "polling"
    /\ life \in {"up", "routerStopped"}
    /\ poll = "poll"
    /\ acked' \in {acked, Confirmed}
    /\ errors' = IF errors + 1 >= MaxErrors THEN 0 ELSE errors + 1
    /\ poll' = Pause
    /\ UNCHANGED <<mode, kind, life, offset, batch, th, inbox, manager, faults, ghosts>>

BackoffOver ==
    /\ poll = "backoff"
    /\ poll' = "poll"
    /\ UNCHANGED <<telegram, life, offset, batch, errors, th, inbox, manager, faults, ghosts>>

\* Mutant: the offset is that of the update itself.
NextOffsetSame(u) == u

NextOffset(u) == u + 1

\* The next update of the batch: the offset moves, then the update is handled.
TakeUpdate ==
    /\ poll = "handle"
    /\ th[Poller] = Idle
    /\ \E u \in batch :
         /\ \A v \in batch : u <= v
         /\ offset' = NextOffset(u)
         /\ batch' = batch \ {u}
         /\ Handle(Poller, u)
    /\ UNCHANGED <<telegram, life, poll, errors, inbox, manager, faults, taken, refused, replies>>

BatchDone ==
    /\ poll = "handle"
    /\ th[Poller] = Idle
    /\ batch = {}
    /\ poll' = "poll"
    /\ UNCHANGED <<telegram, life, offset, batch, errors, th, inbox, manager, faults, ghosts>>

\* The context is cancelled: the loop ends once the batch is handled.
PollerEnds ==
    /\ mode = "polling"
    /\ life = "stopping"
    /\ poll \in {"poll", "backoff"}
    /\ poll' = "ended"
    /\ UNCHANGED <<telegram, life, offset, batch, errors, th, inbox, manager, faults, ghosts>>

-----------------------------------------------------------------------------
\* WebhookDispatcher.ServeHTTP with the receiver's HandleWebhook: Telegram posts
\* an update, several at a time.  A request whose size, depth or signature is
\* wrong reaches no handler.

Push(h, u) ==
    /\ mode = "webhook"
    /\ life # "down"
    /\ th[h] = Idle
    /\ u \in Posted \ acked
    /\ \A g \in Handler : th[g].u # u
    /\ Handle(h, u)
    /\ IF ~ForUs(u) THEN Acknowledge(u, TRUE) ELSE UNCHANGED <<acked, faults>>
    /\ UNCHANGED <<mode, kind, life, poller, inbox, manager, taken, refused, replies>>

-----------------------------------------------------------------------------
\* Approval requests.

Register(p) ==
    /\ life = "up"
    /\ p \notin asked
    /\ entries' = entries \cup {p}
    /\ asked' = asked \cup {p}
    /\ UNCHANGED <<telegram, life, poller, th, inbox, decided, apvars, faults, ghosts>>

AskUser(p) ==
    /\ life # "down"
    /\ p \in asked
    /\ decided[p] = "none"
    /\ Begin(p, "live")
    /\ UNCHANGED <<telegram, life, poller, th, inbox, entries, asked, decided, faults, ghosts>>

\* The requester shows the request to the user and waits: it only ever fails.
RequesterEnds(p, e) ==
    /\ RequesterReturns(p, e, "error")
    /\ UNCHANGED <<telegram, life, poller, th, inbox, entries, asked, decided, faults, ghosts>>

BeginWaits(p) ==
    /\ SelectResponse(p) \/ SelectError(p) \/ SelectDone(p) \/ ContextEnds(p, "deadline")
    /\ UNCHANGED <<telegram, life, poller, th, inbox, entries, asked, decided, faults, ghosts>>

BeginReturns(p) ==
    /\ Leave(p)
    /\ decided' = [decided EXCEPT ![p] = verdict[p]]
    /\ UNCHANGED <<telegram, life, poller, th, inbox, entries, asked, faults, ghosts>>

Remove(p) ==
    /\ decided[p] # "none"
    /\ p \in entries
    /\ entries' = entries \ {p}
    /\ UNCHANGED <<telegram, life, poller, th, inbox, asked, decided, apvars, faults, ghosts>>

-----------------------------------------------------------------------------
\* The process.  The router is the module that stops first: its Stop takes
\* inboxMu for writing; the channel stops after it.

RouterStops ==
    /\ life = "up"
    /\ faults < MaxFaults
    /\ faults' = faults + 1
    /\ ~InSubmit
    /\ life' = "routerStopped"
    /\ UNCHANGED <<telegram, poller, th, inbox, manager, ghosts>>

\* Telegram.Stop: the poller's context is cancelled, or the webhook deleted.
ChannelStops ==
    /\ life = "routerStopped"
    /\ life' = "stopping"
    /\ UNCHANGED <<telegram, poller, th, inbox, manager, faults, ghosts>>

\* What the process kept in memory is gone.
Gone ==
    /\ poll' = "poll"
    /\ offset' = 0
    /\ batch' = {}
    /\ errors' = 0
    /\ th' = [h \in Handler |-> Idle]
    /\ inbox' = <<>>
    /\ entries' = {}
    /\ decided' = [p \in Pending |-> IF p \in asked /\ decided[p] = "none" THEN "error"
                                                                          ELSE decided[p]]
    /\ pstate' = [p \in Pending |-> "idle"]
    /\ chan' = [p \in Pending |-> [e \in 1..MaxBegins |-> "none"]]
    /\ errCh' = [p \in Pending |-> FALSE]
    /\ actx' = [p \in Pending |-> "live"]
    /\ asking' = {}
    /\ begin' = [p \in Pending |-> "out"]
    /\ verdict' = [p \in Pending |-> "none"]
    /\ UNCHANGED <<telegram, epoch, asked, ghosts>>

\* Stop returns when the poller's loop ended, or its deadline passed; then the
\* process exits.
Exits ==
    /\ life = "stopping"
    /\ life' = "down"
    /\ Gone
    /\ UNCHANGED faults

Crash ==
    /\ life \in {"up", "routerStopped"}
    /\ faults < MaxFaults
    /\ faults' = faults + 1
    /\ life' = "down"
    /\ Gone

Start ==
    /\ life = "down"
    /\ life' = "up"
    /\ UNCHANGED <<telegram, poller, th, inbox, manager, faults, ghosts>>

Loop == GetUpdatesFails \/ BackoffOver \/ TakeUpdate \/ BatchDone \/ PollerEnds

SubmitStep(h) == Submit(h) \/ Respond(h) \/ RespondSends(h) \/ Enqueue(h)

Approval(p) ==
    \/ Register(p) \/ AskUser(p) \/ BeginWaits(p) \/ BeginReturns(p) \/ Remove(p)
    \/ \E e \in 1..MaxBegins : RequesterEnds(p, e)

Next ==
    \/ \E k \in Kind : Post(k)
    \/ GetUpdates \/ Loop
    \/ \E h \in Handler, u \in Posted : Push(h, u)
    \/ \E h \in Handler : SubmitStep(h)
    \/ \E p \in Pending : Approval(p)
    \/ WorkerTakes
    \/ RouterStops \/ ChannelStops \/ Exits \/ Crash \/ Start

Spec ==
    /\ Init
    /\ [][Next]_vars
    /\ SF_vars(GetUpdates)
    /\ WF_vars(Loop)
    /\ \A h \in Handler : WF_vars(SubmitStep(h))
    /\ \A u \in 1..MaxUpdates : SF_vars(u \in Posted /\ \E h \in Handler : Push(h, u))

-----------------------------------------------------------------------------
\* Properties.

Replied(u) == \E r \in replies : r[1] = u
Settled(u) == taken[u] > 0 \/ u \in dropped \/ Replied(u)

\* An update that Telegram will not deliver again was handed over: the router
\* took it, or it answered an approval, or it is not for the router, whatever
\* crashed or got lost in between.  Polling acknowledges what Submit refused
\* as well, with only a line in the log; the webhook never does.
NothingSkipped ==
    \A u \in acked : Settled(u) \/ (mode = "polling" /\ u \in refused)

\* The router gets an update once, and once more only for a restart (the
\* offset is kept in memory, starts at 0 and is confirmed by the next request)
\* or for an answer to the webhook that got lost.
NoDuplicates ==
    \A u \in 1..MaxUpdates :
        taken[u] + Cardinality({r \in replies : r[1] = u}) <= 1 + faults

\* A reply decides its own request or nothing: one reply is accepted for a
\* request, a decision that Begin returns is that of the reply accepted for it,
\* and an accepted reply is what Begin returns unless the request timed out or
\* failed first (Submit then told the user that it was accepted).
ReplyDecides ==
    \A p \in Pending :
        LET given == {r \in replies : r[2] = p} IN
        /\ Cardinality(given) <= 1
        /\ decided[p] \in Decision => \E r \in given : r[3] = decided[p]

\* Every update is settled or refused as long as the process is up: errors of
\* getUpdates, however many in a row, only delay it.
EveryUpdateSettled ==
    LET backlog == \E u \in Posted : ~Settled(u) /\ u \notin refused
    IN  (life = "up" /\ backlog) ~> (~backlog \/ life # "up")
==============================================================================
