---------------------------- MODULE InboundProofs ----------------------------
(***************************************************************************)
(* Machine-checked proofs about Inbound: what Telegram forgets was handed  *)
(* over, what is handed over twice has a fault to blame, and a reply       *)
(* decides the request it names.                                           *)
(***************************************************************************)
EXTENDS Inbound, FiniteSetTheorems, TLAPS

Busy(h) == th[h].pc # "free"

TypeInv ==
    /\ mode \in {"polling", "webhook"}
    /\ kind \in Seq(Kind) /\ Len(kind) <= MaxUpdates
    /\ life \in {"up", "routerStopped", "stopping", "down"}
    /\ poll \in {"poll", "handle", "backoff", "ended"}
    /\ offset \in Nat
    /\ batch \subseteq 1..Len(kind)
    /\ DOMAIN th = Handler
    /\ \A h \in Handler :
         /\ DOMAIN th[h] = {"pc", "u", "e"}
         /\ th[h].pc \in {"free", "submit", "respond", "deliver", "enqueue"}
         /\ IF Busy(h) THEN th[h].u \in 1..Len(kind) ELSE th[h].u = 0
    /\ faults \in Nat
    /\ taken \in [1..MaxUpdates -> Nat]
    /\ IsFiniteSet(replies)

\* The poller handles updates one at a time, in its loop, and nobody else does
\* while it polls.  A webhook has no poller.
PollerInv ==
    /\ mode = "polling" =>
         /\ \A h \in Handler \ {Poller} : th[h].pc = "free"
         /\ poll # "handle" => th[Poller].pc = "free"
    /\ mode = "webhook" => poll # "handle"

\* What the poller moved past was forgotten by Telegram or handled, or is being
\* handled now.  The updates it still has follow it without a gap.
OffsetInv ==
    /\ \A u \in 1..(offset - 1) :
         u \in acked \/ Settled(u) \/ u \in refused \/ (Busy(Poller) /\ th[Poller].u = u)
    /\ \A v \in batch :
         /\ v >= offset
         /\ \A u \in 1..v : u \in acked \/ u < offset \/ u \in batch

AckedInv == acked \subseteq 1..MaxUpdates /\ offset <= MaxUpdates + 1

SkipInv ==
    /\ TypeInv
    /\ PollerInv
    /\ AckedInv
    /\ mode = "polling" => OffsetInv
    /\ NothingSkipped

-----------------------------------------------------------------------------
\* How often an update was handed over.
Handed(u) == taken[u] + Cardinality({r \in replies : r[1] = u})

\* The update can be handed over once more without a further fault: it was not
\* finished in this life of the process, or there will be another life.
Open(u) ==
    \/ life # "up"
    \/ mode = "polling" /\ (u >= offset \/ (Busy(Poller) /\ th[Poller].u = u))
    \/ mode = "webhook" /\ u \notin acked

\* An update is with one request of the webhook, and not acknowledged before
\* that one ends.
WebhookInv ==
    mode = "webhook" =>
        /\ \A h \in Handler : Busy(h) => th[h].u \notin acked
        /\ \A g, h \in Handler : Busy(g) /\ th[g].u = th[h].u => g = h

DuplicateInv ==
    /\ WebhookInv
    /\ mode = "polling" /\ Busy(Poller) => th[Poller].u < offset
    /\ life # "up" => ~InSubmit
    /\ \A u \in 1..MaxUpdates : Handed(u) <= (IF Open(u) THEN faults ELSE 1 + faults)

-----------------------------------------------------------------------------
\* A reply on its way to the object of its request.
Holds(h, p) == th[h].pc \in {"respond", "deliver"} /\ kind[th[h].u].p = p

\* A reply with decision d was accepted for p.
Accepted(p, d) == \E r \in replies : r[2] = p /\ r[3] = d

\* Of a request's entry in the table, the reply that took it out and the reply
\* accepted for it there is one at a time.
TokenInv ==
    /\ entries \subseteq asked /\ asked \subseteq Pending
    /\ \A h \in Handler, p \in Pending : Holds(h, p) => p \notin entries
    /\ \A h \in Handler : th[h].pc \in {"respond", "deliver"} => kind[th[h].u].p \in asked
    /\ \A g, h \in Handler, p \in Pending : Holds(g, p) /\ Holds(h, p) => g = h
    /\ \A r \in replies :
         /\ r[2] \in asked \ entries
         /\ \A h \in Handler : ~Holds(h, r[2])
         /\ \A q \in replies : q[2] = r[2] => q = r

\* A decision in a channel, in a Begin or returned by it comes from the reply.
\* The refusal that a timeout leaves in the channel is never read: Begin is over.
DecisionInv ==
    /\ DOMAIN chan = Pending /\ DOMAIN begin = Pending /\ DOMAIN verdict = Pending
    /\ DOMAIN decided = Pending /\ \A p \in Pending : DOMAIN chan[p] = 1..MaxBegins
    /\ epoch \in [Pending -> 0..MaxBegins]
    /\ \A p \in Pending :
         /\ begin[p] # "out" => decided[p] = "none" /\ epoch[p] # 0
         /\ \A e \in 1..MaxBegins :
              chan[p][e] \in Decision => decided[p] # "none" \/ Accepted(p, chan[p][e])
         /\ verdict[p] \in Decision => Accepted(p, verdict[p])
         /\ decided[p] \in Decision => Accepted(p, decided[p])

-----------------------------------------------------------------------------
\* Types.

\* The types of the initial state.
LEMMA InitTypeInv == Init => TypeInv
<1> SUFFICES ASSUME Init PROVE TypeInv
  OBVIOUS
<1>1. kind \in Seq(Kind) /\ Len(kind) = 0 /\ IsFiniteSet(replies)
  BY FS_EmptySet DEF Init
<1> QED BY <1>1, InboundAssumption DEF Init, ApprovalInit, TypeInv, Idle, Busy

\* A posted update keeps its place and its content.
LEMMA PostKeeps ==
    ASSUME TypeInv, NEW k \in Kind, Post(k)
    PROVE  /\ kind' \in Seq(Kind) /\ Len(kind') = Len(kind) + 1 /\ Len(kind') <= MaxUpdates
           /\ Len(kind) \in Nat
           /\ \A u \in 1..Len(kind) : kind'[u] = kind[u]
<1>1. kind \in Seq(Kind) /\ kind' = Append(kind, k) /\ Len(kind) < MaxUpdates /\ MaxUpdates \in Nat
  BY InboundAssumption DEF TypeInv, Post
<1> QED BY <1>1

\* What the return of Submit to a goroutine changes.
LEMMA ReturnsEffect ==
    ASSUME TypeInv, NEW h \in Handler, NEW ok \in BOOLEAN, Returns(h, ok)
    PROVE  /\ th' = [th EXCEPT ![h] = [pc |-> "free", u |-> 0, e |-> 0]]
           /\ th'[h].pc = "free"
           /\ acked' \in {acked, acked \cup {th[h].u}}
           /\ faults' \in {faults, faults + 1} /\ faults' \in Nat
           /\ acked' # acked => ok /\ mode = "webhook"
           /\ mode = "webhook" /\ ok /\ faults' = faults => th[h].u \in acked'
           /\ faults' # faults => mode = "webhook" /\ ok /\ acked' = acked
<1>1. faults \in Nat
  BY DEF TypeInv
<1>2. mode # "polling" <=> mode = "webhook"
  BY DEF TypeInv
<1>3. th' = [th EXCEPT ![h] = [pc |-> "free", u |-> 0, e |-> 0]] /\ th'[h].pc = "free"
  BY DEF Returns, Idle, TypeInv
<1>4. Acknowledge(th[h].u, ok)
  BY DEF Returns
<1>5. /\ acked' \in {acked, acked \cup {th[h].u}}
      /\ faults' \in {faults, faults + 1} /\ faults' \in Nat
  BY <1>1, <1>4 DEF Acknowledge
<1>6. /\ acked' # acked => ok /\ mode = "webhook"
      /\ mode = "webhook" /\ ok /\ faults' = faults => th[h].u \in acked'
      /\ faults' # faults => mode = "webhook" /\ ok /\ acked' = acked
  BY <1>1, <1>2, <1>4 DEF Acknowledge
<1> QED BY <1>3, <1>5, <1>6

\* The update of a goroutine that works is one that was posted.
LEMMA BusyPosted ==
    ASSUME TypeInv, NEW h \in Handler, Busy(h)
    PROVE  th[h].u \in 1..Len(kind) /\ th[h].u \in 1..MaxUpdates /\ Len(kind) \in Nat
<1>1. Len(kind) \in Nat /\ Len(kind) <= MaxUpdates /\ MaxUpdates \in Nat
  BY InboundAssumption DEF TypeInv
<1> QED BY <1>1 DEF TypeInv

\* One goroutine goes on with its update or is free again; the others stay.
ThStep(h) ==
    /\ DOMAIN th' = Handler /\ DOMAIN th'[h] = {"pc", "u", "e"}
    /\ th'[h].pc \in {"free", "submit", "respond", "deliver", "enqueue"}
    /\ IF th'[h].pc # "free" THEN th'[h].u \in 1..Len(kind) ELSE th'[h].u = 0
    /\ \A g \in Handler \ {h} : th'[g] = th[g]

\* An update is handled by a goroutine that is free.
LEMMA HandleEffect ==
    ASSUME TypeInv, NEW h \in Handler, NEW u \in 1..Len(kind), Handle(h, u)
    PROVE  /\ ThStep(h)
           /\ \/ th' = th /\ dropped' = dropped \cup {u}
              \/ th'[h].pc = "submit" /\ th'[h].u = u /\ dropped' = dropped
<1>1. CASE ~ForUs(u)
  BY <1>1 DEF Handle, ThStep, TypeInv, Busy
<1>2. CASE ForUs(u)
  <2>1. th' = [th EXCEPT ![h] = [pc |-> "submit", u |-> u, e |-> 0]] /\ dropped' = dropped
    BY <1>2 DEF Handle
  <2>2. DOMAIN th = Handler
    BY DEF TypeInv
  <2> QED BY <2>1, <2>2 DEF ThStep
<1> QED BY <1>1, <1>2

\* What each step of Submit does to its goroutine.
LEMMA SubmitEffect ==
    ASSUME TypeInv, NEW h \in Handler, SubmitStep(h)
    PROVE  /\ Busy(h) /\ ThStep(h)
           /\ th'[h].pc \in {"free", "respond", "deliver", "enqueue"}
           /\ th'[h].pc # "free" => th'[h].u = th[h].u /\ UNCHANGED <<acked, faults>>
           /\ th'[h].pc = "free" => \E ok \in BOOLEAN : Returns(h, ok)
           /\ UNCHANGED <<mode, kind, life, poller, dropped, asked, decided>>
<1>1. /\ Busy(h)
      /\ UNCHANGED <<mode, kind, life, poller, dropped, asked, decided>>
  BY DEF SubmitStep, Submit, Respond, RespondSends, Enqueue, telegram, manager, ghosts, Busy
<1>2. DOMAIN th = Handler /\ DOMAIN th[h] = {"pc", "u", "e"} /\ th[h].u \in 1..Len(kind)
  BY <1>1 DEF TypeInv
<1>3. ASSUME NEW ok \in BOOLEAN, Returns(h, ok) PROVE ThStep(h) /\ th'[h].pc = "free"
  BY <1>2, <1>3, ReturnsEffect DEF ThStep
<1>4. ASSUME NEW pc \in {"respond", "deliver", "enqueue"}, NEW e,
             \/ th' = [th EXCEPT ![h].pc = pc]
             \/ th' = [th EXCEPT ![h].pc = pc, ![h].e = e]
      PROVE  ThStep(h) /\ th'[h].pc = pc /\ th'[h].u = th[h].u
  BY <1>2, <1>4 DEF ThStep
<1>5. CASE Submit(h)
  <2>1. \/ Returns(h, FALSE)
        \/ \E pc \in {"respond", "enqueue"} :
              th' = [th EXCEPT ![h].pc = pc] /\ UNCHANGED <<acked, faults>>
    BY <1>5 DEF Submit, Refuse
  <2> QED BY <1>1, <1>3, <1>4, <2>1
<1>6. CASE Respond(h)
  <2>1. /\ \E pc \in {"deliver", "enqueue"} : \E e : th' = [th EXCEPT ![h].pc = pc, ![h].e = e]
        /\ UNCHANGED <<acked, faults>>
    BY <1>6 DEF Respond, telegram
  <2> QED BY <1>1, <1>4, <2>1
<1>7. CASE RespondSends(h)
  <2>1. \/ Returns(h, TRUE)
        \/ th' = [th EXCEPT ![h].pc = "enqueue", ![h].e = 0] /\ UNCHANGED <<acked, faults>>
    BY <1>7 DEF RespondSends
  <2> QED BY <1>1, <1>3, <1>4, <2>1
<1>8. CASE Enqueue(h)
  <2>1. Returns(h, FALSE) \/ Returns(h, TRUE)
    BY <1>8 DEF Enqueue, Refuse
  <2> QED BY <1>1, <1>3, <2>1
<1> QED BY <1>5, <1>6, <1>7, <1>8 DEF SubmitStep

\* Every step keeps the types.
LEMMA NextTypeInv == TypeInv /\ [Next]_vars => TypeInv'
<1> SUFFICES ASSUME TypeInv, [Next]_vars PROVE TypeInv'
  OBVIOUS
<1>a. Len(kind) \in Nat /\ MaxUpdates \in Nat
  BY InboundAssumption DEF TypeInv
<1>b. ASSUME NEW h \in Handler, ThStep(h), UNCHANGED <<mode, kind, life, poll>>,
             offset' \in Nat, batch' \subseteq batch, faults' \in Nat,
             taken' \in [1..MaxUpdates -> Nat], IsFiniteSet(replies')
      PROVE  TypeInv'
  <2>1. \A g \in Handler : /\ DOMAIN th'[g] = {"pc", "u", "e"}
                           /\ th'[g].pc \in {"free", "submit", "respond", "deliver", "enqueue"}
                           /\ IF th'[g].pc # "free" THEN th'[g].u \in 1..Len(kind) ELSE th'[g].u = 0
    BY <1>b DEF ThStep, TypeInv, Busy
  <2> QED BY <1>b, <2>1 DEF ThStep, TypeInv, Busy
<1>1. CASE UNCHANGED vars
  BY <1>1 DEF vars, telegram, poller, manager, ghosts, TypeInv, Busy
<1>2. ASSUME NEW k \in Kind, Post(k) PROVE TypeInv'
  <2>1. /\ kind' \in Seq(Kind) /\ Len(kind') = Len(kind) + 1 /\ Len(kind') <= MaxUpdates
    BY <1>2, PostKeeps
  <2>2. UNCHANGED <<mode, life, poll, offset, batch, th, faults, taken, replies>>
    BY <1>2 DEF Post, poller, ghosts
  <2> QED BY <1>a, <2>1, <2>2 DEF TypeInv, Busy
<1>3. CASE GetUpdates \/ GetUpdatesFails \/ BackoffOver \/ BatchDone \/ PollerEnds
  <2>1. UNCHANGED <<mode, kind, life, offset, th, faults, taken, replies>>
    BY <1>3 DEF GetUpdates, GetUpdatesFails, BackoffOver, BatchDone, PollerEnds, telegram, ghosts
  <2>2. poll' \in {"poll", "handle", "backoff", "ended"}
    BY <1>3 DEF GetUpdates, GetUpdatesFails, BackoffOver, BatchDone, PollerEnds, Pause
  <2>3. batch' \subseteq 1..Len(kind)
    <3>1. DOMAIN kind = 1..Len(kind) /\ batch \subseteq 1..Len(kind)
      BY DEF TypeInv
    <3>2. batch' = batch \/ batch' \subseteq Posted
      BY <1>3 DEF GetUpdates, GetUpdatesFails, BackoffOver, BatchDone, PollerEnds
    <3> QED BY <3>1, <3>2 DEF Posted
  <2> QED BY <2>1, <2>2, <2>3 DEF TypeInv, Busy
<1>4. CASE TakeUpdate
  <2>1. PICK u \in batch : offset' = u + 1 /\ batch' = batch \ {u} /\ Handle(Poller, u)
    BY <1>4 DEF TakeUpdate, NextOffset
  <2>2. u \in 1..Len(kind) /\ offset' \in Nat
    BY <1>a, <2>1 DEF TypeInv
  <2>3. /\ UNCHANGED <<mode, kind, life, poll, faults, taken, replies>>
        /\ faults \in Nat /\ taken \in [1..MaxUpdates -> Nat] /\ IsFiniteSet(replies)
    BY <1>4 DEF TakeUpdate, telegram, TypeInv
  <2>4. ThStep(Poller)
    BY <2>1, <2>2, HandleEffect, InboundAssumption
  <2> QED BY <1>b, <2>1, <2>2, <2>3, <2>4, InboundAssumption
<1>5. ASSUME NEW h \in Handler, NEW u \in Posted, Push(h, u) PROVE TypeInv'
  <2>1. Handle(h, u) /\ u \in 1..Len(kind)
    BY <1>5 DEF Push, Posted, TypeInv
  <2>2. /\ UNCHANGED <<mode, kind, life, poll, offset, batch, taken, replies>>
        /\ offset \in Nat /\ taken \in [1..MaxUpdates -> Nat] /\ IsFiniteSet(replies)
    BY <1>5 DEF Push, poller, TypeInv
  <2>3. faults' \in Nat
    BY <1>5 DEF Push, Acknowledge, TypeInv
  <2> QED BY <1>b, <2>1, <2>2, <2>3, HandleEffect
<1>6. ASSUME NEW h \in Handler, SubmitStep(h) PROVE TypeInv'
  <2>1. ThStep(h) /\ Busy(h) /\ UNCHANGED <<mode, kind, life, poll, offset, batch>>
    BY <1>6, SubmitEffect DEF poller
  <2>2. faults' \in Nat
    <3>1. faults \in Nat
      BY DEF TypeInv
    <3> QED BY <1>6, <3>1, SubmitEffect, ReturnsEffect
  <2>3. taken' \in [1..MaxUpdates -> Nat]
    <3>1. th[h].u \in 1..MaxUpdates /\ taken \in [1..MaxUpdates -> Nat]
      BY <2>1, BusyPosted DEF TypeInv
    <3>2. taken' = taken \/ taken' = [taken EXCEPT ![th[h].u] = @ + 1]
      BY <1>6 DEF SubmitStep, Submit, Respond, RespondSends, Enqueue, ghosts
    <3> QED BY <3>1, <3>2
  <2>4. IsFiniteSet(replies')
    <3>1. \/ replies' = replies
          \/ \E r : replies' = replies \cup {r}
      BY <1>6 DEF SubmitStep, Submit, Respond, RespondSends, Enqueue, ghosts
    <3> QED BY <3>1, FS_AddElement DEF TypeInv
  <2> QED BY <1>b, <2>1, <2>2, <2>3, <2>4 DEF TypeInv
<1>7. ASSUME NEW p \in Pending, Approval(p) PROVE TypeInv'
  <2>1. UNCHANGED <<mode, kind, life, poll, offset, batch, th, faults, taken, replies>>
    BY <1>7 DEF Approval, Register, AskUser, BeginWaits, BeginReturns, Remove, RequesterEnds,
                telegram, poller, ghosts
  <2> QED BY <2>1 DEF TypeInv, Busy
<1>8. CASE WorkerTakes
  BY <1>8 DEF WorkerTakes, telegram, poller, ghosts, TypeInv, Busy
<1>9. CASE RouterStops \/ ChannelStops \/ Start
  <2>1. /\ UNCHANGED <<mode, kind, poll, offset, batch, th, taken, replies>>
        /\ faults' \in {faults, faults + 1}
        /\ life' \in {"up", "routerStopped", "stopping", "down"}
    BY <1>9 DEF RouterStops, ChannelStops, Start, telegram, poller, ghosts
  <2> QED BY <2>1 DEF TypeInv, Busy
<1>10. CASE Exits \/ Crash
  <2>1. /\ UNCHANGED <<mode, kind, taken, replies>>
        /\ faults' \in {faults, faults + 1} /\ life' = "down"
        /\ poll' = "poll" /\ offset' = 0 /\ batch' = {} /\ th' = [h \in Handler |-> Idle]
    BY <1>10 DEF Exits, Crash, Gone, telegram, ghosts
  <2> QED BY <2>1 DEF TypeInv, Busy, Idle
<1> QED BY <1>1, <1>2, <1>3, <1>4, <1>5, <1>6, <1>7, <1>8, <1>9, <1>10 DEF Next, Loop

-----------------------------------------------------------------------------
\* NothingSkipped.

\* What was handed over, dropped, refused or acknowledged stays so, and the
\* mode is never changed.
LEMMA Grows ==
    ASSUME TypeInv, [Next]_vars
    PROVE  /\ mode' = mode
           /\ acked \subseteq acked' /\ refused \subseteq refused'
           /\ dropped \subseteq dropped' /\ replies \subseteq replies'
           /\ \A u \in 1..MaxUpdates : Settled(u) => Settled(u)'
<1> DEFINE Growth ==
             /\ mode' = mode
             /\ acked \subseteq acked' /\ refused \subseteq refused'
             /\ dropped \subseteq dropped' /\ replies \subseteq replies'
             /\ \A u \in 1..MaxUpdates : taken'[u] = taken[u] \/ taken'[u] = taken[u] + 1
<1>1. Growth
  <2>a. taken \in [1..MaxUpdates -> Nat]
    BY DEF TypeInv
  <2>1. CASE UNCHANGED vars
    BY <2>1 DEF vars, telegram, ghosts
  <2>2. ASSUME NEW k \in Kind, Post(k) PROVE Growth
    BY <2>2 DEF Post, ghosts
  <2>3. CASE GetUpdates \/ GetUpdatesFails
    BY <2>3 DEF GetUpdates, GetUpdatesFails, Confirmed, ghosts
  <2>4. CASE BackoffOver \/ BatchDone \/ PollerEnds \/ WorkerTakes \/ RouterStops \/ ChannelStops \/ Start
    BY <2>4 DEF BackoffOver, BatchDone, PollerEnds, WorkerTakes, RouterStops, ChannelStops, Start,
                telegram, ghosts
  <2>5. CASE TakeUpdate
    BY <2>5 DEF TakeUpdate, Handle, telegram
  <2>6. ASSUME NEW h \in Handler, NEW u \in Posted, Push(h, u) PROVE Growth
    BY <2>6 DEF Push, Handle, Acknowledge
  <2>7. ASSUME NEW h \in Handler, SubmitStep(h) PROVE Growth
    <3>1. acked \subseteq acked' /\ mode' = mode /\ dropped' = dropped
      BY <2>7, SubmitEffect, ReturnsEffect
    <3>2. /\ refused \subseteq refused' /\ replies \subseteq replies'
          /\ taken' = taken \/ taken' = [taken EXCEPT ![th[h].u] = @ + 1]
      BY <2>7 DEF SubmitStep, Submit, Respond, RespondSends, Enqueue, Refuse, ghosts
    <3> QED BY <2>a, <3>1, <3>2
  <2>8. ASSUME NEW p \in Pending, Approval(p) PROVE Growth
    BY <2>8 DEF Approval, Register, AskUser, BeginWaits, BeginReturns, Remove, RequesterEnds,
                telegram, ghosts
  <2>9. CASE Exits \/ Crash
    BY <2>9 DEF Exits, Crash, Gone, telegram, ghosts
  <2> QED BY <2>1, <2>2, <2>3, <2>4, <2>5, <2>6, <2>7, <2>8, <2>9 DEF Next, Loop
<1>2. ASSUME NEW u \in 1..MaxUpdates, Settled(u) PROVE Settled(u)'
  <2>1. taken[u] \in Nat /\ taken'[u] >= taken[u]
    BY <1>1 DEF TypeInv
  <2> QED BY <1>1, <1>2, <2>1 DEF Settled, Replied
<1> QED BY <1>1, <1>2

\* Nothing is skipped by a step that acknowledges nothing and leaves the poller's
\* offset, batch and goroutine alone.
LEMMA KeepsSkipInv ==
    ASSUME SkipInv, [Next]_vars, UNCHANGED <<acked, offset, batch, th>>, PollerInv'
    PROVE  SkipInv'
<1>1. TypeInv' /\ AckedInv'
  BY NextTypeInv DEF SkipInv, AckedInv
<1>2. mode' = mode /\ refused \subseteq refused' /\ \A u \in 1..MaxUpdates : Settled(u) => Settled(u)'
  BY Grows DEF SkipInv
<1>3. NothingSkipped'
  BY <1>2 DEF SkipInv, NothingSkipped, AckedInv
<1>4. mode = "polling" => OffsetInv'
  <2>1. \A u \in 1..(offset - 1) : u \in 1..MaxUpdates
    BY InboundAssumption DEF SkipInv, AckedInv, TypeInv
  <2> QED BY <1>2, <2>1 DEF SkipInv, OffsetInv, Busy
<1> QED BY <1>1, <1>2, <1>3, <1>4 DEF SkipInv

\* getUpdates confirms what is before the offset: the poller is between batches,
\* so all of that was handled.
LEMMA GetUpdatesSkipInv ==
    ASSUME SkipInv, GetUpdates \/ GetUpdatesFails
    PROVE  SkipInv'
<1> USE DEF SkipInv
<1>1. /\ mode = "polling" /\ mode' = mode /\ poll = "poll"
      /\ UNCHANGED <<kind, offset, th, taken, dropped, refused, replies>>
      /\ acked' \in {acked, Confirmed}
      /\ \/ batch' = batch /\ poll' = "backoff"
         \/ batch' = Posted \ acked' /\ acked' = Confirmed
  BY DEF GetUpdates, GetUpdatesFails, ghosts, Pause
<1>2. TypeInv'
  BY NextTypeInv DEF Next, Loop
<1>3. th[Poller].pc = "free" /\ \A h \in Handler : th[h].pc = "free"
  BY <1>1 DEF PollerInv
<1>4. PollerInv'
  BY <1>1, <1>3, InboundAssumption DEF PollerInv
<1>5. /\ offset \in Nat /\ offset <= MaxUpdates + 1 /\ MaxUpdates \in Nat
      /\ \A u \in Confirmed : u \in acked \/ u \in 1..(offset - 1)
      /\ acked \subseteq Confirmed /\ \A u \in 1..(offset - 1) : u \in Confirmed
  BY InboundAssumption DEF AckedInv, TypeInv, Confirmed
<1>6. AckedInv'
  BY <1>1, <1>5 DEF AckedInv
<1>7. \A u \in 1..MaxUpdates : Settled(u)' <=> Settled(u)
  BY <1>1 DEF Settled, Replied
<1>8. NothingSkipped'
  <2> SUFFICES ASSUME NEW u \in acked' PROVE Settled(u) \/ u \in refused
    BY <1>1, <1>6, <1>7 DEF NothingSkipped, AckedInv
  <2>1. u \in acked \/ u \in 1..(offset - 1)
    BY <1>1, <1>5
  <2> QED BY <1>1, <1>3, <2>1 DEF NothingSkipped, OffsetInv, Busy
<1>9. OffsetInv'
  <2>1. ASSUME NEW u \in 1..(offset' - 1)
        PROVE  u \in acked' \/ Settled(u)' \/ u \in refused'
    <3>1. u \in 1..(offset - 1) /\ u \in 1..MaxUpdates
      BY <1>1, <1>5
    <3> QED BY <1>1, <1>3, <1>5, <1>7, <3>1 DEF OffsetInv, Busy
  <2>2. ASSUME NEW v \in batch'
        PROVE  /\ v >= offset'
               /\ \A u \in 1..v : u \in acked' \/ u < offset' \/ u \in batch'
    <3>1. CASE batch' = batch
      BY <1>1, <1>5, <2>2, <3>1 DEF OffsetInv
    <3>2. CASE batch' = Posted \ acked' /\ acked' = Confirmed
      <4>1. Posted = 1..Len(kind) /\ Len(kind) \in Nat
        BY DEF Posted, TypeInv
      <4>2. v \in 1..Len(kind) /\ v \notin 1..(offset - 1)
        BY <1>5, <2>2, <3>2, <4>1
      <4> QED BY <1>1, <1>5, <3>2, <4>1, <4>2
    <3> QED BY <1>1, <3>1, <3>2
  <2> QED BY <2>1, <2>2 DEF OffsetInv
<1> QED BY <1>2, <1>4, <1>6, <1>8, <1>9

\* The offset moves past an update that is handled at once or is now in hand.
LEMMA TakeUpdateSkipInv ==
    ASSUME SkipInv, TakeUpdate
    PROVE  SkipInv'
<1> USE DEF SkipInv
<1>1. PICK u \in batch : /\ \A v \in batch : u <= v
                         /\ offset' = u + 1 /\ batch' = batch \ {u} /\ Handle(Poller, u)
  BY DEF TakeUpdate, NextOffset
<1>2. /\ th[Poller].pc = "free" /\ poll = "handle"
      /\ UNCHANGED <<mode, kind, acked, poll, taken, refused, replies>>
  BY DEF TakeUpdate, Idle, telegram
<1>3. TypeInv'
  BY NextTypeInv DEF Next, Loop
<1>4. u \in 1..Len(kind) /\ Len(kind) \in Nat /\ Len(kind) <= MaxUpdates /\ MaxUpdates \in Nat
      /\ u \in 1..MaxUpdates /\ offset \in Nat /\ batch \subseteq 1..Len(kind)
  BY <1>1, InboundAssumption DEF TypeInv
<1>5. /\ ThStep(Poller) /\ dropped \subseteq dropped'
      /\ \/ u \in dropped'
         \/ th'[Poller].pc = "submit" /\ th'[Poller].u = u
  BY <1>1, <1>4, HandleEffect, InboundAssumption
<1>6. PollerInv'
  BY <1>2, <1>5, InboundAssumption DEF PollerInv, ThStep
<1>7. AckedInv'
  BY <1>1, <1>2, <1>4 DEF AckedInv
<1>8. \A v \in 1..MaxUpdates : Settled(v) => Settled(v)'
  BY <1>2, <1>5 DEF Settled, Replied
<1>9. NothingSkipped'
  BY <1>2, <1>8 DEF NothingSkipped, AckedInv
<1>10. ASSUME mode = "polling" PROVE OffsetInv'
  <2>1. ASSUME NEW v \in 1..(offset' - 1)
        PROVE  v \in acked' \/ Settled(v)' \/ v \in refused' \/ (th'[Poller].pc # "free" /\ th'[Poller].u = v)
    <3>1. v \in 1..u /\ v \in 1..MaxUpdates
      BY <1>1, <1>4
    <3>2. CASE v = u
      BY <1>5, <3>2 DEF Settled
    <3>3. CASE v # u
      <4>1. v \in acked \/ v < offset
        <5>1. v \notin batch
          BY <1>1, <1>4, <3>1, <3>3
        <5> QED BY <1>1, <1>10, <3>1, <5>1 DEF OffsetInv
      <4>2. CASE v < offset
        <5>1. v \in 1..(offset - 1)
          BY <1>4, <3>1, <4>2
        <5> QED BY <1>2, <1>8, <1>10, <3>1, <5>1 DEF OffsetInv, Busy
      <4> QED BY <1>2, <4>1, <4>2
    <3> QED BY <3>2, <3>3
  <2>2. ASSUME NEW v \in batch'
        PROVE  /\ v >= offset'
               /\ \A w \in 1..v : w \in acked' \/ w < offset' \/ w \in batch'
    <3>1. v \in batch /\ v # u /\ v \in 1..Len(kind) /\ u <= v /\ u >= offset
      BY <1>1, <1>4, <1>10, <2>2 DEF OffsetInv
    <3>2. ASSUME NEW w \in 1..v PROVE w \in acked \/ w < offset \/ w \in batch
      BY <1>10, <3>1, <3>2 DEF OffsetInv
    <3> QED BY <1>1, <1>2, <1>4, <3>1, <3>2
  <2> QED BY <2>1, <2>2 DEF OffsetInv, Busy
<1> QED BY <1>2, <1>3, <1>6, <1>7, <1>9, <1>10

\* The webhook acknowledges what is dropped.
LEMMA PushSkipInv ==
    ASSUME SkipInv, NEW h \in Handler, NEW u \in Posted, Push(h, u)
    PROVE  SkipInv'
<1> USE DEF SkipInv
<1>1. /\ mode = "webhook" /\ mode' = mode /\ Handle(h, u)
      /\ UNCHANGED <<kind, poll, offset, taken, refused, replies>>
      /\ acked' = acked \/ (acked' = acked \cup {u} /\ ~ForUs(u))
  BY DEF Push, poller, Acknowledge
<1>2. TypeInv'
  BY NextTypeInv DEF Next
<1>3. u \in 1..MaxUpdates
  BY InboundAssumption DEF TypeInv, Posted
<1>4. dropped \subseteq dropped' /\ (~ForUs(u) => u \in dropped')
  BY <1>1 DEF Handle
<1>5. NothingSkipped'
  BY <1>1, <1>3, <1>4 DEF NothingSkipped, AckedInv, Settled, Replied
<1> QED BY <1>1, <1>2, <1>3, <1>5 DEF AckedInv, PollerInv

\* Submit returns: its update was taken, answered an approval, or was refused,
\* and the webhook acknowledges only the first two.
LEMMA SubmitSkipInv ==
    ASSUME SkipInv, NEW h \in Handler, SubmitStep(h)
    PROVE  SkipInv'
<1> USE DEF SkipInv
<1>0. PICK u : u = th[h].u
  OBVIOUS
<1>1. TypeInv' /\ [Next]_vars
  BY NextTypeInv DEF Next
<1>2. mode' = mode /\ refused \subseteq refused' /\ \A v \in 1..MaxUpdates : Settled(v) => Settled(v)'
  BY <1>1, Grows
<1>3. /\ Busy(h) /\ ThStep(h) /\ UNCHANGED <<offset, batch, poll>>
      /\ th'[h].pc # "free" => th'[h].u = u /\ UNCHANGED acked
  BY <1>0, SubmitEffect DEF poller
<1>4. u \in 1..MaxUpdates
  BY <1>0, <1>3, BusyPosted
<1>5. th'[h].pc = "free" =>
        /\ Settled(u)' \/ u \in refused'
        /\ acked' = acked \/ (acked' = acked \cup {u} /\ Settled(u)')
  <2>1. ASSUME Refuse(h) PROVE acked' = acked /\ u \in refused'
    BY <1>0, <2>1, ReturnsEffect DEF Refuse
  <2>2. ASSUME Returns(h, TRUE) PROVE acked' \in {acked, acked \cup {u}}
    BY <1>0, <2>2, ReturnsEffect
  <2>a. DOMAIN th = Handler /\ DOMAIN th[h] = {"pc", "u", "e"}
    BY DEF TypeInv
  <2>3. CASE Submit(h)
    BY <2>1, <2>3, <2>a DEF Submit
  <2>4. CASE Respond(h)
    BY <2>4, <2>a DEF Respond
  <2>5. CASE RespondSends(h)
    <3>1. CASE Returns(h, TRUE) /\ <<u, kind[u].p, kind[u].d>> \in replies'
      <4>1. Settled(u)'
        BY <3>1 DEF Settled, Replied
      <4> QED BY <2>2, <3>1, <4>1
    <3> QED BY <1>0, <2>5, <2>a, <3>1 DEF RespondSends
  <2>6. CASE Enqueue(h)
    <3>1. CASE Returns(h, TRUE) /\ taken' = [taken EXCEPT ![u] = @ + 1]
      <4>1. taken'[u] > 0
        BY <1>4, <3>1 DEF TypeInv
      <4> QED BY <2>2, <3>1, <4>1 DEF Settled
    <3> QED BY <1>0, <2>1, <2>6, <3>1 DEF Enqueue
  <2> QED BY <2>3, <2>4, <2>5, <2>6 DEF SubmitStep
<1>6. AckedInv'
  BY <1>3, <1>4, <1>5 DEF AckedInv
<1>7. NothingSkipped'
  BY <1>2, <1>3, <1>5 DEF NothingSkipped, AckedInv
<1>8. PollerInv'
  BY <1>2, <1>3 DEF PollerInv, ThStep, Busy
<1>9. ASSUME mode = "polling" PROVE OffsetInv'
  <2>1. acked \subseteq acked'
    BY <1>3, <1>5
  <2>2. ASSUME NEW v \in 1..(offset - 1)
        PROVE  v \in acked' \/ Settled(v)' \/ v \in refused' \/ (th'[Poller].pc # "free" /\ th'[Poller].u = v)
    <3>1. v \in 1..MaxUpdates
      BY InboundAssumption DEF AckedInv, TypeInv
    <3>2. CASE h = Poller
      BY <1>0, <1>2, <1>3, <1>5, <1>9, <2>1, <3>1, <3>2 DEF OffsetInv, Busy
    <3>3. CASE h # Poller
      BY <1>2, <1>3, <1>9, <2>1, <3>1, <3>3, InboundAssumption DEF OffsetInv, ThStep, Busy
    <3> QED BY <3>2, <3>3
  <2> QED BY <1>3, <1>9, <2>1, <2>2 DEF OffsetInv, Busy
<1> QED BY <1>1, <1>2, <1>6, <1>7, <1>8, <1>9

\* Every step keeps SkipInv.
LEMMA NextSkipInv == SkipInv /\ [Next]_vars => SkipInv'
<1> SUFFICES ASSUME SkipInv, [Next]_vars PROVE SkipInv'
  OBVIOUS
<1> USE DEF SkipInv
<1>1. CASE UNCHANGED <<mode, acked, offset, batch, th, poll>>
  BY <1>1, KeepsSkipInv DEF PollerInv
<1>2. CASE BackoffOver \/ BatchDone \/ PollerEnds
  <2>1. UNCHANGED <<mode, acked, offset, batch, th>>
    BY <1>2 DEF BackoffOver, BatchDone, PollerEnds, telegram
  <2>2. PollerInv'
    BY <1>2, <2>1 DEF BackoffOver, BatchDone, PollerEnds, PollerInv, Idle
  <2> QED BY <2>1, <2>2, KeepsSkipInv
<1>3. ASSUME NEW k \in Kind, Post(k) PROVE SkipInv'
  BY <1>1, <1>3 DEF Post, poller
<1>4. ASSUME NEW p \in Pending, Approval(p) PROVE SkipInv'
  BY <1>1, <1>4 DEF Approval, Register, AskUser, BeginWaits, BeginReturns, Remove, RequesterEnds,
                    telegram, poller
<1>5. CASE WorkerTakes \/ RouterStops \/ ChannelStops \/ Start
  BY <1>1, <1>5 DEF WorkerTakes, RouterStops, ChannelStops, Start, telegram, poller
<1>6. CASE Exits \/ Crash
  <2>1. /\ UNCHANGED <<mode, kind, acked, taken, dropped, refused, replies>>
        /\ poll' = "poll" /\ offset' = 0 /\ batch' = {} /\ th' = [h \in Handler |-> Idle]
    BY <1>6 DEF Exits, Crash, Gone, telegram, ghosts
  <2>2. TypeInv'
    BY NextTypeInv
  <2>3. PollerInv' /\ AckedInv' /\ OffsetInv'
    BY <2>1, InboundAssumption DEF PollerInv, AckedInv, OffsetInv, Idle
  <2>4. NothingSkipped'
    BY <2>1 DEF NothingSkipped, Settled, Replied
  <2> QED BY <2>2, <2>3, <2>4
<1>7. CASE UNCHANGED vars
  BY <1>1, <1>7 DEF vars, telegram, poller
<1> QED BY <1>2, <1>3, <1>4, <1>5, <1>6, <1>7, GetUpdatesSkipInv, TakeUpdateSkipInv, PushSkipInv,
           SubmitSkipInv DEF Next, Loop

\* Nothing was delivered yet.
LEMMA InitSkipInv == Init => SkipInv
<1> SUFFICES ASSUME Init PROVE SkipInv
  OBVIOUS
<1>1. TypeInv
  BY InitTypeInv
<1>2. PollerInv /\ AckedInv /\ OffsetInv /\ NothingSkipped
  BY InboundAssumption DEF Init, PollerInv, AckedInv, OffsetInv, NothingSkipped, Idle
<1> QED BY <1>1, <1>2 DEF SkipInv

\* NothingSkipped for any number of updates, faults and goroutines: whatever
\* Telegram will not deliver again was handed over, was not for the router, or
\* was refused while polling.
THEOREM NoUpdateLost == Spec => []NothingSkipped
<1>1. SkipInv => NothingSkipped
  BY DEF SkipInv
<1> QED BY <1>1, InitSkipInv, NextSkipInv, PTL DEF Spec

-----------------------------------------------------------------------------
\* NoDuplicates.

\* The hand-overs of an update are counted by natural numbers.
LEMMA HandedType ==
    ASSUME TypeInv, NEW u \in 1..MaxUpdates
    PROVE  Handed(u) \in Nat
<1>1. taken[u] \in Nat /\ IsFiniteSet({r \in replies : r[1] = u})
  BY FS_Subset DEF TypeInv
<1> QED BY <1>1, FS_CardinalityType DEF Handed

\* A step of Submit hands over its own update at most, once, and returns.
LEMMA SubmitHanded ==
    ASSUME TypeInv, NEW h \in Handler, SubmitStep(h), NEW u, u = th[h].u
    PROVE  /\ \A v \in (1..MaxUpdates) \ {u} : Handed(v)' = Handed(v)
           /\ \/ Handed(u)' = Handed(u)
              \/ /\ Handed(u)' = Handed(u) + 1
                 /\ th[h].pc \in {"deliver", "enqueue"}
                 /\ Returns(h, TRUE)
<1>1. u \in 1..MaxUpdates
  BY SubmitEffect, BusyPosted
<1>2. CASE UNCHANGED <<taken, replies>>
  BY <1>2 DEF Handed
<1>3. CASE Enqueue(h) /\ ~UNCHANGED <<taken, replies>>
  <2>1. /\ taken' = [taken EXCEPT ![u] = @ + 1] /\ replies' = replies
        /\ Returns(h, TRUE) /\ th[h].pc = "enqueue"
    BY <1>3 DEF Enqueue
  <2>2. taken'[u] = taken[u] + 1 /\ \A v \in (1..MaxUpdates) \ {u} : taken'[v] = taken[v]
    BY <1>1, <2>1 DEF TypeInv
  <2>3. taken[u] \in Nat /\ Cardinality({r \in replies : r[1] = u}) \in Nat
    BY <1>1, FS_Subset, FS_CardinalityType DEF TypeInv
  <2>4. Handed(u)' = Handed(u) + 1
    BY <2>1, <2>2, <2>3 DEF Handed
  <2>5. ASSUME NEW v \in (1..MaxUpdates) \ {u} PROVE Handed(v)' = Handed(v)
    BY <2>1, <2>2 DEF Handed
  <2> QED BY <2>1, <2>4, <2>5
<1>4. CASE RespondSends(h) /\ ~UNCHANGED <<taken, replies>>
  <2>1. PICK r : r[1] = u /\ replies' = replies \cup {r}
    BY <1>4 DEF RespondSends
  <2>2. taken' = taken /\ Returns(h, TRUE) /\ th[h].pc = "deliver"
    BY <1>4 DEF RespondSends
  <2>3. ASSUME NEW v \in (1..MaxUpdates) \ {u} PROVE Handed(v)' = Handed(v)
    <3>1. {q \in replies' : q[1] = v} = {q \in replies : q[1] = v}
      BY <2>1
    <3> QED BY <2>2, <3>1 DEF Handed
  <2> DEFINE S == {q \in replies : q[1] = u}
  <2>4. {q \in replies' : q[1] = u} = S \cup {r}
    BY <2>1
  <2>5. IsFiniteSet(S)
    BY FS_Subset DEF TypeInv
  <2> HIDE DEF S
  <2>6. Cardinality(S) \in Nat /\ Cardinality(S \cup {r}) \in {Cardinality(S), Cardinality(S) + 1}
    BY <2>5, FS_AddElement, FS_CardinalityType
  <2>7. taken[u] \in Nat
    BY <1>1 DEF TypeInv
  <2>8. Handed(u) = taken[u] + Cardinality(S) /\ Handed(u)' = taken[u] + Cardinality(S \cup {r})
    BY <2>2, <2>4 DEF Handed, S
  <2>9. Handed(u)' = Handed(u) \/ Handed(u)' = Handed(u) + 1
    BY <2>6, <2>7, <2>8
  <2> QED BY <2>2, <2>3, <2>9
<1>5. CASE Submit(h) \/ Respond(h)
  BY <1>2, <1>5 DEF Submit, Respond, ghosts
<1> QED BY <1>2, <1>3, <1>4, <1>5 DEF SubmitStep

\* The bound on the hand-overs of u.
Bounded(u) == Handed(u) <= (IF Open(u) THEN faults ELSE 1 + faults)

\* A step that hands u over to nobody keeps the bound if it opens nothing, or is a fault.
LEMMA QuietBounded ==
    ASSUME TypeInv, NEW u \in 1..MaxUpdates, Bounded(u), Handed(u)' = Handed(u),
           \/ faults' = faults /\ (Open(u)' => Open(u))
           \/ faults' = faults + 1
    PROVE  Bounded(u)'
<1>1. Handed(u) \in Nat /\ faults \in Nat
  BY HandedType DEF TypeInv
<1> QED BY <1>1 DEF Bounded

\* The update in hand returns: it was open, and is no longer unless its answer got lost.
LEMMA SubmitDuplicateInv ==
    ASSUME SkipInv, DuplicateInv, NEW h \in Handler, SubmitStep(h)
    PROVE  DuplicateInv'
<1>0. PICK u : u = th[h].u
  OBVIOUS
<1>1. TypeInv /\ PollerInv /\ mode \in {"polling", "webhook"} /\ faults \in Nat /\ offset \in Nat
  BY DEF SkipInv, TypeInv
<1>2. /\ Busy(h) /\ ThStep(h) /\ UNCHANGED <<mode, kind, life, offset>>
      /\ th'[h].pc \in {"free", "respond", "deliver", "enqueue"}
      /\ th'[h].pc # "free" => th'[h].u = u /\ UNCHANGED <<acked, faults>>
      /\ th'[h].pc = "free" => \E ok \in BOOLEAN : Returns(h, ok)
  BY <1>0, <1>1, SubmitEffect DEF poller
<1>3. u \in 1..MaxUpdates /\ u # 0
  BY <1>0, <1>1, <1>2, BusyPosted
<1>4. /\ acked' \in {acked, acked \cup {u}}
      /\ faults' \in {faults, faults + 1}
      /\ mode = "polling" => faults' = faults
  BY <1>0, <1>1, <1>2, ReturnsEffect
<1>5. WebhookInv'
  <2> SUFFICES ASSUME mode = "webhook"
               PROVE  /\ \A g \in Handler : th'[g].pc # "free" => th'[g].u \notin acked'
                      /\ \A f, g \in Handler : th'[f].pc # "free" /\ th'[f].u = th'[g].u => f = g
    BY <1>2 DEF WebhookInv, Busy
  <2>1. \A g \in Handler \ {h} : th'[g] = th[g] /\ th[g].u # u
    BY <1>0, <1>2 DEF ThStep, DuplicateInv, WebhookInv
  <2>2. th'[h].pc = "free" => th'[h].u = 0
    BY <1>2 DEF ThStep
  <2>3. \A g \in Handler : th'[g].pc # "free" => th'[g].u # 0
    <3>1. TypeInv'
      BY <1>1, NextTypeInv DEF Next
    <3> QED BY <3>1 DEF TypeInv, Busy
  <2> QED BY <1>0, <1>2, <1>4, <2>1, <2>2, <2>3 DEF DuplicateInv, WebhookInv, Busy
<1>6. mode = "polling" /\ th'[Poller].pc # "free" => th'[Poller].u < offset
  BY <1>0, <1>2, InboundAssumption DEF DuplicateInv, ThStep, Busy
<1>7. life # "up" => ~InSubmit'
  <2> SUFFICES ASSUME life # "up" PROVE ~InSubmit'
    OBVIOUS
  <2>1. Submit(h)
    BY DEF SubmitStep, Respond, RespondSends, Enqueue, DuplicateInv, InSubmit
  <2>2. th'[h].pc = "free"
    BY <1>1, <2>1, ReturnsEffect DEF Submit, Refuse
  <2> QED BY <1>2, <2>2 DEF DuplicateInv, InSubmit, ThStep
<1>8. ASSUME NEW v \in 1..MaxUpdates PROVE Bounded(v)'
  <2>1. Bounded(v)
    BY DEF DuplicateInv, Bounded
  <2>2. Open(v)' => Open(v)
    BY <1>0, <1>2, <1>4, InboundAssumption DEF Open, ThStep, Busy
  <2>3. CASE Handed(v)' = Handed(v)
    BY <1>1, <1>4, <2>1, <2>2, <2>3, QuietBounded
  <2>4. CASE Handed(v)' # Handed(v)
    <3>1. /\ v = u /\ Handed(u)' = Handed(u) + 1 /\ Returns(h, TRUE)
          /\ th[h].pc \in {"deliver", "enqueue"}
      BY <1>0, <1>1, <2>4, SubmitHanded
    <3>2. life = "up"
      BY <3>1 DEF DuplicateInv, InSubmit
    <3>3. th'[h].pc = "free"
      BY <1>1, <3>1, ReturnsEffect
    <3>4. Open(u) /\ Handed(u) <= faults /\ Handed(u) \in Nat
      <4>1. Open(u)
        BY <1>0, <1>1, <1>2 DEF Open, PollerInv, DuplicateInv, WebhookInv, Busy
      <4> QED BY <1>1, <1>3, <2>1, <3>1, <4>1, HandedType DEF Bounded
    <3>5. faults' = faults + 1 \/ (faults' = faults /\ ~Open(u)')
      <4>1. CASE mode = "polling"
        <5>1. h = Poller
          BY <1>1, <1>2, <4>1 DEF PollerInv, Busy
        <5>2. u < offset
          BY <1>0, <1>2, <4>1, <5>1 DEF DuplicateInv
        <5>3. u \in Nat /\ ~(u >= offset)
          BY <1>1, <1>3, <5>2
        <5> QED BY <1>2, <1>4, <3>2, <3>3, <4>1, <5>1, <5>3 DEF Open, Busy
      <4>2. CASE mode = "webhook"
        BY <1>0, <1>1, <1>2, <1>4, <3>1, <3>2, <4>2, ReturnsEffect DEF Open
      <4> QED BY <1>1, <4>1, <4>2
    <3>6. Handed(u)' <= (IF Open(u)' THEN faults' ELSE 1 + faults')
      BY <1>1, <3>1, <3>4, <3>5
    <3> QED BY <3>1, <3>6 DEF Bounded
  <2> QED BY <2>3, <2>4
<1> QED BY <1>2, <1>5, <1>6, <1>7, <1>8 DEF DuplicateInv, Bounded, Busy

\* The other steps hand nothing over.
LEMMA OtherDuplicateInv ==
    ASSUME SkipInv, DuplicateInv, UNCHANGED <<mode, taken, replies>>, WebhookInv',
           mode = "polling" /\ Busy(Poller)' => th'[Poller].u < offset',
           life' # "up" => ~InSubmit',
           \/ faults' = faults /\ \A u \in 1..MaxUpdates : Open(u)' => Open(u)
           \/ faults' = faults + 1
    PROVE  DuplicateInv'
<1>1. ASSUME NEW u \in 1..MaxUpdates PROVE Bounded(u)'
  <2>1. Handed(u)' = Handed(u)
    BY DEF Handed
  <2> QED BY <2>1, QuietBounded DEF SkipInv, DuplicateInv, Bounded
<1> QED BY <1>1 DEF DuplicateInv, Bounded

\* Every step keeps DuplicateInv.
LEMMA NextDuplicateInv == SkipInv /\ DuplicateInv /\ [Next]_vars => DuplicateInv'
<1> SUFFICES ASSUME SkipInv, DuplicateInv, [Next]_vars PROVE DuplicateInv'
  OBVIOUS
<1>1. ASSUME UNCHANGED <<mode, taken, replies, acked, th, offset>>,
             \/ faults' = faults /\ (life' = life \/ life # "up")
             \/ faults' = faults + 1,
             life' # "up" => ~InSubmit
      PROVE  DuplicateInv'
  <2>1. WebhookInv' /\ (Busy(Poller)' <=> Busy(Poller)) /\ (InSubmit' <=> InSubmit)
    BY <1>1 DEF DuplicateInv, WebhookInv, Busy, InSubmit
  <2>2. life' = life \/ life # "up" => \A u \in 1..MaxUpdates : Open(u)' => Open(u)
    BY <1>1, <2>1 DEF Open
  <2> QED BY <1>1, <2>1, <2>2, OtherDuplicateInv DEF DuplicateInv
<1>2. CASE UNCHANGED vars
  BY <1>1, <1>2 DEF vars, telegram, poller, ghosts, DuplicateInv
<1>3. ASSUME NEW k \in Kind, Post(k) PROVE DuplicateInv'
  BY <1>1, <1>3 DEF Post, poller, ghosts, DuplicateInv
<1>4. CASE GetUpdates \/ GetUpdatesFails
  <2>1. /\ mode = "polling" /\ UNCHANGED <<mode, taken, replies, th, offset, life, faults>>
    BY <1>4 DEF GetUpdates, GetUpdatesFails, ghosts
  <2>2. \A u \in 1..MaxUpdates : Open(u)' => Open(u)
    BY <2>1 DEF Open, Busy
  <2> QED BY <2>1, <2>2, OtherDuplicateInv DEF DuplicateInv, WebhookInv, Busy, InSubmit
<1>5. CASE BackoffOver \/ BatchDone \/ PollerEnds \/ WorkerTakes
  BY <1>1, <1>5 DEF BackoffOver, BatchDone, PollerEnds, WorkerTakes, telegram, poller, ghosts,
                    DuplicateInv
<1>6. CASE TakeUpdate
  <2>1. PICK u \in batch : offset' = u + 1 /\ batch' = batch \ {u} /\ Handle(Poller, u)
    BY <1>6 DEF TakeUpdate, NextOffset
  <2>2. /\ th[Poller].pc = "free" /\ poll = "handle"
        /\ UNCHANGED <<mode, kind, acked, life, faults, taken, replies>>
    BY <1>6 DEF TakeUpdate, Idle, telegram
  <2>3. u \in 1..Len(kind) /\ u \in Nat /\ offset \in Nat /\ (mode = "polling" => u >= offset)
    BY <2>1 DEF SkipInv, TypeInv, OffsetInv
  <2>4. /\ ThStep(Poller)
        /\ th'[Poller].pc # "free" => th'[Poller].pc = "submit" /\ th'[Poller].u = u
    BY <2>1, <2>2, <2>3, HandleEffect, InboundAssumption DEF SkipInv
  <2>5. life # "up" => ~InSubmit'
    BY <2>4 DEF DuplicateInv, InSubmit, ThStep
  <2>6. CASE mode = "polling"
    <3>1. ASSUME NEW v \in 1..MaxUpdates, Open(v)' PROVE Open(v)
      BY <2>1, <2>2, <2>3, <2>4, <2>6, <3>1 DEF Open, Busy
    <3> QED BY <2>1, <2>2, <2>3, <2>4, <2>5, <2>6, <3>1, OtherDuplicateInv DEF WebhookInv, Busy
  <2>7. CASE mode = "webhook"
    BY <2>2, <2>7 DEF SkipInv, PollerInv
  <2> QED BY <2>6, <2>7 DEF SkipInv, TypeInv
<1>7. ASSUME NEW h \in Handler, NEW u \in Posted, Push(h, u) PROVE DuplicateInv'
  <2>1. /\ mode = "webhook" /\ th[h] = Idle /\ u \notin acked /\ \A g \in Handler : th[g].u # u
        /\ Handle(h, u) /\ UNCHANGED <<mode, kind, life, offset, taken, replies>>
        /\ \/ acked' = acked /\ faults' = faults
           \/ acked' = acked \cup {u} /\ faults' = faults /\ ~ForUs(u)
           \/ acked' = acked /\ faults' = faults + 1 /\ ~ForUs(u)
    BY <1>7 DEF Push, poller, Acknowledge
  <2>2. u \in 1..Len(kind) /\ u # 0
    BY DEF SkipInv, TypeInv, Posted
  <2>3. /\ ThStep(h) /\ (~ForUs(u) => th' = th)
        /\ th' = th \/ (th'[h].pc = "submit" /\ th'[h].u = u)
    BY <2>1, <2>2, HandleEffect DEF SkipInv, Handle
  <2>4. WebhookInv'
    <3>1. CASE th' = th
      BY <2>1, <3>1 DEF DuplicateInv, WebhookInv, Busy
    <3>2. CASE th'[h].pc = "submit" /\ th'[h].u = u /\ ForUs(u)
      <4>1. \A g \in Handler \ {h} : th'[g] = th[g] /\ th[g].u # u
        BY <2>1, <2>3 DEF ThStep
      <4> QED BY <2>1, <3>2, <4>1 DEF DuplicateInv, WebhookInv, Busy
    <3> QED BY <2>3, <3>1, <3>2
  <2>5. \A v \in 1..MaxUpdates : Open(v)' => Open(v)
    BY <2>1 DEF Open
  <2>6. life # "up" => ~InSubmit'
    BY <2>3 DEF DuplicateInv, InSubmit, ThStep
  <2> QED BY <2>1, <2>4, <2>5, <2>6, OtherDuplicateInv
<1>8. ASSUME NEW p \in Pending, Approval(p) PROVE DuplicateInv'
  BY <1>1, <1>8 DEF Approval, Register, AskUser, BeginWaits, BeginReturns, Remove, RequesterEnds,
                    telegram, poller, ghosts, DuplicateInv
<1>9. CASE RouterStops \/ ChannelStops \/ Start
  BY <1>1, <1>9 DEF RouterStops, ChannelStops, Start, telegram, poller, ghosts, DuplicateInv
<1>10. CASE Exits \/ Crash
  <2>1. /\ UNCHANGED <<mode, acked, taken, replies>>
        /\ offset' = 0 /\ th' = [h \in Handler |-> Idle]
        /\ faults' = faults + 1 \/ (faults' = faults /\ life # "up")
    BY <1>10 DEF Exits, Crash, Gone, telegram, ghosts
  <2>2. WebhookInv' /\ ~InSubmit' /\ ~Busy(Poller)'
    BY <2>1, InboundAssumption DEF WebhookInv, Busy, Idle, InSubmit
  <2> QED BY <2>1, <2>2, OtherDuplicateInv DEF Open
<1> QED BY <1>2, <1>3, <1>4, <1>5, <1>6, <1>7, <1>8, <1>9, <1>10, SubmitDuplicateInv DEF Next, Loop

\* Nothing was handed over yet.
LEMMA InitDuplicateInv == Init => DuplicateInv
<1> SUFFICES ASSUME Init PROVE DuplicateInv
  OBVIOUS
<1>1. WebhookInv /\ ~Busy(Poller)
  BY InboundAssumption DEF Init, WebhookInv, Busy, Idle
<1>2. ASSUME NEW u \in 1..MaxUpdates PROVE Handed(u) = 0
  <2>1. taken[u] = 0 /\ {r \in replies : r[1] = u} = {}
    BY DEF Init
  <2>2. Cardinality({r \in replies : r[1] = u}) = 0
    BY <2>1, FS_EmptySet
  <2> QED BY <2>1, <2>2 DEF Handed
<1> QED BY <1>1, <1>2 DEF Init, DuplicateInv

\* NoDuplicates for any number of updates, faults and goroutines: the router
\* gets an update at most once for every crash, stop and lost answer, and once more.
THEOREM HandedOnce == Spec => []NoDuplicates
<1>1. SkipInv /\ DuplicateInv => NoDuplicates
  <2> SUFFICES ASSUME SkipInv, DuplicateInv, NEW u \in 1..MaxUpdates PROVE Handed(u) <= 1 + faults
    BY DEF NoDuplicates, Handed
  <2>1. Handed(u) \in Nat /\ faults \in Nat
    BY HandedType DEF SkipInv, TypeInv
  <2> QED BY <2>1 DEF DuplicateInv
<1> QED BY <1>1, InitSkipInv, NextSkipInv, InitDuplicateInv, NextDuplicateInv, PTL DEF Spec

-----------------------------------------------------------------------------
\* ReplyDecides.

\* A goroutine that stays, or goes on with its update, holds no more than before.
LEMMA KeepsTokenInv ==
    ASSUME TokenInv, UNCHANGED <<asked, replies>>, entries' \subseteq entries,
           \A h \in Handler : th'[h].pc \in {"respond", "deliver"} =>
               /\ th[h].pc \in {"respond", "deliver"}
               /\ kind'[th'[h].u].p = kind[th[h].u].p
    PROVE  TokenInv'
<1>1. \A h \in Handler, p \in Pending : Holds(h, p)' => Holds(h, p)
  BY DEF Holds
<1>2. \A h \in Handler, r \in replies : Holds(h, r[2])' => Holds(h, r[2])
  BY DEF Holds
<1> QED BY <1>1, <1>2 DEF TokenInv

\* The tokens of a request, through Submit and Respond.
LEMMA SubmitTokenInv ==
    ASSUME TypeInv, TokenInv, NEW h \in Handler, SubmitStep(h)
    PROVE  TokenInv'
<1>0. PICK u : u = th[h].u
  OBVIOUS
<1>1. /\ ThStep(h) /\ UNCHANGED <<kind, asked>>
      /\ th'[h].pc # "free" => th'[h].u = u
      /\ \A g \in Handler \ {h} : th'[g] = th[g]
      /\ DOMAIN th = Handler /\ DOMAIN th[h] = {"pc", "u", "e"}
  BY <1>0, SubmitEffect DEF TypeInv, ThStep
<1>2. CASE th'[h].pc \in {"free", "enqueue"} /\ UNCHANGED <<entries, replies>>
  BY <1>1, <1>2, KeepsTokenInv
<1>3. CASE Submit(h) /\ th'[h].pc = "respond"
  <2> DEFINE p == kind[u].p
  <2>1. p \in entries /\ entries' = entries \ {p} /\ replies' = replies
    BY <1>0, <1>1, <1>3, ReturnsEffect DEF Submit, Refuse, Resolved
  <2>2. \A g \in Handler : ~Holds(g, p)
    BY <2>1 DEF TokenInv
  <2>3. \A g \in Handler, q \in Pending : Holds(g, q)' <=> (Holds(g, q) \/ (g = h /\ q = p))
    BY <1>0, <1>1, <1>3, <2>2 DEF Holds
  <2>4. p \in asked /\ p \in Pending /\ \A r \in replies : r[2] # p
    BY <2>1 DEF TokenInv
  <2>5. \A g \in Handler : th'[g].pc \in {"respond", "deliver"} => kind'[th'[g].u].p \in asked
    BY <1>0, <1>1, <2>4 DEF TokenInv
  <2> HIDE DEF p
  <2> QED BY <1>1, <2>1, <2>2, <2>3, <2>4, <2>5 DEF TokenInv
<1>4. CASE Respond(h) /\ th'[h].pc = "deliver"
  <2>1. th[h].pc = "respond" /\ UNCHANGED <<entries, replies>>
    BY <1>4 DEF Respond, manager, ghosts
  <2> QED BY <1>0, <1>1, <1>4, <2>1, KeepsTokenInv
<1>5. CASE RespondSends(h) /\ replies' # replies
  <2> DEFINE p == kind[u].p
  <2>1. PICK r : r[2] = p /\ replies' = replies \cup {r}
    BY <1>0, <1>5 DEF RespondSends
  <2>2. th[h].pc = "deliver" /\ th'[h].pc = "free" /\ entries' = entries
    BY <1>5, ReturnsEffect DEF RespondSends
  <2>3. /\ p \in asked /\ p \notin entries /\ p \in Pending /\ \A q \in replies : q[2] # p
        /\ \A g \in Handler \ {h} : ~Holds(g, p)
    BY <1>0, <2>2 DEF TokenInv, Holds
  <2>4. \A g \in Handler, q \in Pending : Holds(g, q)' => Holds(g, q) /\ g # h
    BY <1>1, <2>2 DEF Holds
  <2>5. \A g \in Handler : th'[g].pc \in {"respond", "deliver"} => kind'[th'[g].u].p \in asked
    BY <1>1, <2>2 DEF TokenInv
  <2> HIDE DEF p
  <2> QED BY <1>1, <2>1, <2>2, <2>3, <2>4, <2>5 DEF TokenInv
<1>6. CASE Submit(h) /\ th'[h].pc # "respond"
  <2>1. th'[h].pc \in {"free", "enqueue"} /\ UNCHANGED <<entries, replies>>
    <3>1. CASE Refuse(h) /\ entries' = entries
      <4>1. th'[h].pc = "free"
        BY <3>1, ReturnsEffect DEF Refuse
      <4> QED BY <1>6, <3>1, <4>1 DEF Submit
    <3>2. CASE th' = [th EXCEPT ![h].pc = "respond"]
      <4>1. th'[h].pc = "respond"
        BY <1>1, <3>2
      <4> QED BY <1>6, <4>1
    <3>3. CASE th' = [th EXCEPT ![h].pc = "enqueue"] /\ entries' = entries
      <4>1. th'[h].pc = "enqueue"
        BY <1>1, <3>3
      <4> QED BY <1>6, <3>3, <4>1 DEF Submit
    <3> QED BY <1>6, <3>1, <3>2, <3>3 DEF Submit
  <2> QED BY <1>2, <2>1
<1>7. CASE Respond(h) /\ th'[h].pc # "deliver"
  BY <1>1, <1>2, <1>7 DEF Respond, manager, ghosts
<1>8. CASE RespondSends(h) /\ replies' = replies
  <2>1. th'[h].pc \in {"free", "enqueue"} /\ UNCHANGED <<entries, replies>>
    <3>1. \/ Returns(h, TRUE)
          \/ th' = [th EXCEPT ![h].pc = "enqueue", ![h].e = 0]
      BY <1>8 DEF RespondSends
    <3>2. Returns(h, TRUE) => th'[h].pc = "free"
      BY ReturnsEffect
    <3>3. th' = [th EXCEPT ![h].pc = "enqueue", ![h].e = 0] => th'[h].pc = "enqueue"
      BY <1>1
    <3> QED BY <1>8, <3>1, <3>2, <3>3 DEF RespondSends
  <2> QED BY <1>2, <2>1
<1>9. CASE Enqueue(h)
  <2>1. th'[h].pc = "free" /\ UNCHANGED <<entries, replies>>
    BY <1>9, ReturnsEffect DEF Enqueue, Refuse, manager
  <2> QED BY <1>2, <2>1
<1> QED BY <1>3, <1>4, <1>5, <1>6, <1>7, <1>8, <1>9 DEF SubmitStep

\* Every step keeps TokenInv.
LEMMA NextTokenInv == TypeInv /\ TokenInv /\ [Next]_vars => TokenInv'
<1> SUFFICES ASSUME TypeInv, TokenInv, [Next]_vars PROVE TokenInv'
  OBVIOUS
<1>1. CASE UNCHANGED <<kind, th, entries, asked, replies>>
  BY <1>1, KeepsTokenInv
<1>2. ASSUME NEW k \in Kind, Post(k) PROVE TokenInv'
  <2>1. UNCHANGED <<th, entries, asked, replies>> /\ \A u \in 1..Len(kind) : kind'[u] = kind[u]
    BY <1>2, PostKeeps DEF Post, manager, ghosts
  <2>2. \A h \in Handler : th[h].pc \in {"respond", "deliver"} => th[h].u \in 1..Len(kind)
    BY DEF TypeInv, Busy
  <2> QED BY <2>1, <2>2, KeepsTokenInv
<1>3. ASSUME NEW h \in Handler, NEW u \in 1..Len(kind), Handle(h, u),
             UNCHANGED <<kind, entries, asked, replies>>
      PROVE  TokenInv'
  <2>1. /\ \A g \in Handler \ {h} : th'[g] = th[g]
        /\ th' = th \/ th'[h].pc = "submit"
    BY <1>3, HandleEffect DEF ThStep
  <2> QED BY <1>3, <2>1, KeepsTokenInv
<1>4. CASE TakeUpdate
  BY <1>3, <1>4, InboundAssumption DEF TakeUpdate, telegram, manager, TypeInv
<1>5. ASSUME NEW h \in Handler, NEW u \in Posted, Push(h, u) PROVE TokenInv'
  BY <1>3, <1>5 DEF Push, manager, Posted, TypeInv
<1>6. ASSUME NEW p \in Pending, Register(p) PROVE TokenInv'
  <2>1. /\ p \notin asked /\ entries' = entries \cup {p} /\ asked' = asked \cup {p}
        /\ UNCHANGED <<kind, th, replies>>
    BY <1>6 DEF Register, telegram, ghosts
  <2>2. \A h \in Handler, q \in Pending : /\ Holds(h, q)' <=> Holds(h, q)
                                          /\ Holds(h, q) => q # p
    BY <2>1 DEF Holds, TokenInv
  <2>3. \A r \in replies : r[2] \in asked
    BY DEF TokenInv
  <2> QED BY <2>1, <2>2, <2>3 DEF TokenInv
<1>7. ASSUME NEW p \in Pending, Remove(p) PROVE TokenInv'
  BY <1>7, KeepsTokenInv DEF Remove, telegram, ghosts
<1>8. ASSUME NEW p \in Pending,
             \/ AskUser(p) \/ BeginWaits(p) \/ BeginReturns(p)
             \/ \E e \in 1..MaxBegins : RequesterEnds(p, e)
      PROVE  TokenInv'
  BY <1>1, <1>8 DEF AskUser, BeginWaits, BeginReturns, RequesterEnds, telegram, ghosts
<1>9. CASE \/ GetUpdates \/ GetUpdatesFails \/ BackoffOver \/ BatchDone \/ PollerEnds
           \/ WorkerTakes \/ RouterStops \/ ChannelStops \/ Start
  BY <1>1, <1>9 DEF GetUpdates, GetUpdatesFails, BackoffOver, BatchDone, PollerEnds, WorkerTakes,
                    RouterStops, ChannelStops, Start, telegram, manager, ghosts
<1>10. CASE Exits \/ Crash
  <2>1. UNCHANGED <<asked, replies>> /\ entries' = {} /\ th' = [h \in Handler |-> Idle]
    BY <1>10 DEF Exits, Crash, Gone, ghosts
  <2> QED BY <2>1, KeepsTokenInv DEF Idle
<1>11. CASE UNCHANGED vars
  BY <1>1, <1>11 DEF vars, telegram, manager, ghosts
<1> QED BY <1>2, <1>4, <1>5, <1>6, <1>7, <1>8, <1>9, <1>10, <1>11, SubmitTokenInv
        DEF Next, Loop, Approval

\* The state machine of a request: a decision enters it only with a reply.
LEMMA BeginDecisionInv ==
    ASSUME DecisionInv, replies' = replies, NEW p \in Pending,
           \/ AskUser(p) \/ BeginWaits(p) \/ BeginReturns(p)
           \/ \E e \in 1..MaxBegins : RequesterEnds(p, e)
    PROVE  DecisionInv'
<1>a. \A q \in Pending : \A d : Accepted(q, d)' <=> Accepted(q, d)
  BY DEF Accepted
<1>b. "error" \notin Decision /\ "timeout" \notin Decision /\ "canceled" \notin Decision /\ "none" \notin Decision
  BY DEF Decision
<1>1. CASE AskUser(p)
  <2>1. /\ decided[p] = "none" /\ epoch[p] < MaxBegins
        /\ epoch' = [epoch EXCEPT ![p] = epoch[p] + 1]
        /\ chan' = [chan EXCEPT ![p][epoch[p] + 1] = "none"]
        /\ begin' = [begin EXCEPT ![p] = "select"]
        /\ UNCHANGED <<verdict, decided>>
    BY <1>1 DEF AskUser, Begin, BeginWith
  <2>2. epoch' \in [Pending -> 0..MaxBegins] /\ epoch'[p] # 0 /\ \A q \in Pending \ {p} : epoch'[q] = epoch[q]
    BY <2>1, PendingAssumption DEF DecisionInv
  <2>3. /\ DOMAIN chan' = Pending /\ \A q \in Pending : DOMAIN chan'[q] = 1..MaxBegins
        /\ \A q \in Pending : \A e \in 1..MaxBegins : chan'[q][e] = chan[q][e] \/ chan'[q][e] = "none"
    BY <2>1 DEF DecisionInv
  <2>4. DOMAIN begin' = Pending /\ \A q \in Pending \ {p} : begin'[q] = begin[q]
    BY <2>1 DEF DecisionInv
  <2> QED BY <1>a, <1>b, <2>1, <2>2, <2>3, <2>4 DEF DecisionInv
<1>2. ASSUME NEW e \in 1..MaxBegins, RequesterEnds(p, e) PROVE DecisionInv'
  <2>1. UNCHANGED <<chan, begin, verdict, decided, epoch>>
    BY <1>2, <1>b DEF RequesterEnds, RequesterReturns
  <2> QED BY <1>a, <2>1 DEF DecisionInv
<1>3. CASE BeginWaits(p)
  <2>1. CASE ContextEnds(p, "deadline")
    BY <1>3, <2>1, <1>a DEF BeginWaits, ContextEnds, DecisionInv
  <2>2. CASE SelectResponse(p)
    <3>1. /\ begin[p] = "select"
          /\ verdict' = [verdict EXCEPT ![p] = chan[p][epoch[p]]]
          /\ chan' = [chan EXCEPT ![p][epoch[p]] = "none"]
          /\ begin' = [begin EXCEPT ![p] = "leave"]
          /\ UNCHANGED <<epoch, decided>>
      BY <1>3, <2>2 DEF BeginWaits, SelectResponse
    <3>2. decided[p] = "none" /\ epoch[p] \in 1..MaxBegins
      BY <3>1, PendingAssumption DEF DecisionInv
    <3>3. /\ DOMAIN chan' = Pending /\ \A q \in Pending : DOMAIN chan'[q] = 1..MaxBegins
          /\ \A q \in Pending : \A e \in 1..MaxBegins : chan'[q][e] = chan[q][e] \/ chan'[q][e] = "none"
      BY <3>1 DEF DecisionInv
    <3>4. /\ DOMAIN begin' = Pending /\ \A q \in Pending \ {p} : begin'[q] = begin[q]
          /\ DOMAIN verdict' = Pending /\ \A q \in Pending \ {p} : verdict'[q] = verdict[q]
          /\ verdict'[p] \in Decision => Accepted(p, verdict'[p])
      BY <3>1, <3>2 DEF DecisionInv
    <3> QED BY <1>a, <1>b, <3>1, <3>2, <3>3, <3>4 DEF DecisionInv
  <2>3. CASE SelectError(p) \/ SelectDone(p)
    <3>1. /\ begin[p] = "select" /\ begin' = [begin EXCEPT ![p] = "leave"]
          /\ \E d \in {"error", "timeout", "canceled"} : verdict' = [verdict EXCEPT ![p] = d]
          /\ UNCHANGED <<epoch, decided, chan>>
      BY <1>3, <2>3 DEF BeginWaits, SelectError, SelectDone, WhyDone
    <3>2. /\ DOMAIN begin' = Pending /\ \A q \in Pending \ {p} : begin'[q] = begin[q]
          /\ DOMAIN verdict' = Pending /\ \A q \in Pending \ {p} : verdict'[q] = verdict[q]
          /\ verdict'[p] \notin Decision
      BY <1>b, <3>1 DEF DecisionInv
    <3> QED BY <1>a, <3>1, <3>2 DEF DecisionInv
  <2> QED BY <1>3, <2>1, <2>2, <2>3 DEF BeginWaits
<1>4. CASE BeginReturns(p)
  <2>1. /\ begin[p] = "leave"
        /\ chan' = [chan EXCEPT ![p][epoch[p]] = IF verdict[p] = "timeout" /\ @ = "none" THEN "no" ELSE @]
        /\ begin' = [begin EXCEPT ![p] = "out"]
        /\ verdict' = [verdict EXCEPT ![p] = "none"]
        /\ decided' = [decided EXCEPT ![p] = verdict[p]]
        /\ epoch' = epoch
    BY <1>4 DEF BeginReturns, Leave
  <2>2. decided[p] = "none"
    BY <2>1 DEF DecisionInv
  <2>3. /\ DOMAIN chan' = Pending /\ \A q \in Pending : DOMAIN chan'[q] = 1..MaxBegins
        /\ \A q \in Pending : \A e \in 1..MaxBegins :
             chan'[q][e] = chan[q][e] \/ (q = p /\ verdict[p] = "timeout")
    BY <2>1 DEF DecisionInv
  <2>4. /\ DOMAIN begin' = Pending /\ \A q \in Pending \ {p} : begin'[q] = begin[q]
        /\ DOMAIN verdict' = Pending /\ \A q \in Pending \ {p} : verdict'[q] = verdict[q]
        /\ DOMAIN decided' = Pending /\ \A q \in Pending \ {p} : decided'[q] = decided[q]
        /\ begin'[p] = "out" /\ verdict'[p] = "none" /\ decided'[p] = verdict[p]
    BY <2>1 DEF DecisionInv
  <2>5. ASSUME NEW q \in Pending, NEW e \in 1..MaxBegins, chan'[q][e] \in Decision
        PROVE  decided'[q] # "none" \/ \E r \in replies' : r[2] = q /\ r[3] = chan'[q][e]
    <3>1. CASE chan'[q][e] = chan[q][e]
      <4>1. CASE q = p
        <5>1. decided[q] # "none" \/ Accepted(q, chan[q][e])
          BY <2>5, <3>1 DEF DecisionInv
        <5> QED BY <2>2, <3>1, <4>1, <5>1 DEF Accepted
      <4>2. CASE q # p
        <5>1. decided[q] # "none" \/ Accepted(q, chan[q][e])
          BY <2>5, <3>1 DEF DecisionInv
        <5> QED BY <2>4, <3>1, <4>2, <5>1 DEF Accepted
      <4> QED BY <4>1, <4>2
    <3>2. CASE q = p /\ verdict[p] = "timeout"
      BY <2>4, <3>2
    <3> QED BY <2>3, <3>1, <3>2
  <2>6. ASSUME NEW q \in Pending, decided'[q] \in Decision PROVE \E r \in replies' : r[2] = q /\ r[3] = decided'[q]
    BY <2>4, <2>6 DEF DecisionInv, Accepted
  <2>7. ASSUME NEW q \in Pending, verdict'[q] \in Decision
        PROVE  \E r \in replies' : r[2] = q /\ r[3] = verdict'[q]
    BY <1>b, <2>4, <2>7 DEF DecisionInv, Accepted
  <2>8. \A q \in Pending : begin'[q] # "out" => decided'[q] = "none" /\ epoch'[q] # 0
    BY <2>1, <2>4 DEF DecisionInv
  <2> QED BY <2>1, <2>3, <2>4, <2>5, <2>6, <2>7, <2>8 DEF DecisionInv, Accepted
<1> QED BY <1>1, <1>2, <1>3, <1>4

\* Respond: the decision that reaches the channel is that of the reply it reports.
LEMMA RespondDecisionInv ==
    ASSUME TypeInv, TokenInv, DecisionInv, NEW h \in Handler, RespondSends(h)
    PROVE  DecisionInv'
<1> DEFINE u == th[h].u
           p == kind[u].p
           d == kind[u].d
<1>1. /\ UNCHANGED <<begin, verdict, decided, epoch, kind>> /\ replies \subseteq replies'
      /\ th[h].pc = "deliver"
      /\ chan' = IF chan[p][th[h].e] = "none" THEN [chan EXCEPT ![p][th[h].e] = d] ELSE chan
      /\ chan[p][th[h].e] = "none" => <<u, p, d>> \in replies'
  BY DEF RespondSends, Deliver
<1>2. ASSUME NEW q, NEW c, Accepted(q, c) PROVE Accepted(q, c)'
  BY <1>1, <1>2 DEF Accepted
<1>3. CASE chan' = chan
  BY <1>1, <1>2, <1>3 DEF DecisionInv
<1>4. CASE chan' # chan
  <2>1. PICK pp, cc : pp = p /\ cc = d
    OBVIOUS
  <2>2. \E r \in replies' : r[2] = pp /\ r[3] = cc
    BY <1>1, <1>4, <2>1 DEF Accepted
  <2>3. /\ DOMAIN chan' = Pending /\ \A q \in Pending : DOMAIN chan'[q] = 1..MaxBegins
        /\ \A q \in Pending : \A e \in 1..MaxBegins :
             chan'[q][e] = chan[q][e] \/ (q = pp /\ chan'[q][e] = cc)
    BY <1>1, <1>4, <2>1 DEF DecisionInv
  <2> HIDE DEF u, p, d
  <2>4. ASSUME NEW q \in Pending, NEW e \in 1..MaxBegins, chan'[q][e] \in Decision
        PROVE  decided[q] # "none" \/ \E r \in replies' : r[2] = q /\ r[3] = chan'[q][e]
    BY <1>1, <2>2, <2>3, <2>4 DEF DecisionInv, Accepted
  <2> QED BY <1>1, <1>2, <2>3, <2>4 DEF DecisionInv, Accepted
<1> QED BY <1>3, <1>4

\* Every step keeps DecisionInv.
LEMMA NextDecisionInv == TypeInv /\ TokenInv /\ DecisionInv /\ [Next]_vars => DecisionInv'
<1> SUFFICES ASSUME TypeInv, TokenInv, DecisionInv, [Next]_vars PROVE DecisionInv'
  OBVIOUS
<1>1. CASE UNCHANGED <<begin, chan, verdict, decided, epoch, replies>>
  BY <1>1 DEF DecisionInv, Accepted
<1>2. ASSUME NEW p \in Pending, Approval(p) PROVE DecisionInv'
  <2>1. replies' = replies
    BY <1>2 DEF Approval, Register, AskUser, BeginWaits, BeginReturns, Remove, RequesterEnds, ghosts
  <2>2. CASE Register(p) \/ Remove(p)
    BY <1>1, <2>1, <2>2 DEF Register, Remove, apvars
  <2> QED BY <1>2, <2>1, <2>2, BeginDecisionInv DEF Approval
<1>3. ASSUME NEW h \in Handler, SubmitStep(h) PROVE DecisionInv'
  <2>1. CASE Submit(h) \/ Respond(h) \/ Enqueue(h)
    BY <1>1, <2>1 DEF Submit, Respond, Enqueue, manager, apvars, ghosts
  <2> QED BY <1>3, <2>1, RespondDecisionInv DEF SubmitStep
<1>4. ASSUME NEW k \in Kind, Post(k) PROVE DecisionInv'
  BY <1>1, <1>4 DEF Post, manager, apvars, ghosts
<1>5. CASE TakeUpdate
  BY <1>1, <1>5 DEF TakeUpdate, manager, apvars
<1>6. ASSUME NEW h \in Handler, NEW u \in Posted, Push(h, u) PROVE DecisionInv'
  BY <1>1, <1>6 DEF Push, manager, apvars
<1>7. CASE \/ GetUpdates \/ GetUpdatesFails \/ BackoffOver \/ BatchDone \/ PollerEnds
           \/ WorkerTakes \/ RouterStops \/ ChannelStops \/ Start
  BY <1>1, <1>7 DEF GetUpdates, GetUpdatesFails, BackoffOver, BatchDone, PollerEnds, WorkerTakes,
                    RouterStops, ChannelStops, Start, manager, apvars, ghosts
<1>8. CASE Exits \/ Crash
  <2>1. /\ decided' = [p \in Pending |-> IF p \in asked /\ decided[p] = "none" THEN "error"
                                                                              ELSE decided[p]]
        /\ chan' = [p \in Pending |-> [e \in 1..MaxBegins |-> "none"]]
        /\ begin' = [p \in Pending |-> "out"]
        /\ verdict' = [p \in Pending |-> "none"]
        /\ UNCHANGED <<epoch, replies>>
    BY <1>8 DEF Exits, Crash, Gone, ghosts
  <2>2. "error" \notin Decision /\ "none" \notin Decision
    BY DEF Decision
  <2>3. ASSUME NEW p \in Pending, decided'[p] \in Decision PROVE \E r \in replies' : r[2] = p /\ r[3] = decided'[p]
    <3>1. decided'[p] = decided[p]
      BY <2>1, <2>2, <2>3
    <3> QED BY <2>1, <2>3, <3>1 DEF DecisionInv, Accepted
  <2> QED BY <2>1, <2>2, <2>3 DEF DecisionInv, Accepted
<1>9. CASE UNCHANGED vars
  BY <1>1, <1>9 DEF vars, manager, apvars, ghosts
<1> QED BY <1>2, <1>3, <1>4, <1>5, <1>6, <1>7, <1>8, <1>9 DEF Next, Loop

\* There is no request yet.
LEMMA InitReplyInv == Init => TokenInv /\ DecisionInv
<1> SUFFICES ASSUME Init PROVE TokenInv /\ DecisionInv
  OBVIOUS
<1>1. TokenInv
  BY DEF Init, TokenInv, Holds, Idle
<1>2. DecisionInv
  BY PendingAssumption DEF Init, ApprovalInit, DecisionInv, Decision
<1> QED BY <1>1, <1>2

\* ReplyDecides for any number of requests, replies and goroutines: one reply is
\* accepted for a request, and a decision that Begin returns is the one it gave.
THEOREM RepliesDecide == Spec => []ReplyDecides
<1>1. TokenInv /\ DecisionInv => ReplyDecides
  <2> SUFFICES ASSUME TokenInv, DecisionInv, NEW p \in Pending
               PROVE  /\ Cardinality({r \in replies : r[2] = p}) <= 1
                      /\ decided[p] \in Decision => \E r \in {r \in replies : r[2] = p} : r[3] = decided[p]
    BY DEF ReplyDecides
  <2> DEFINE given == {r \in replies : r[2] = p}
  <2>1. given = {} \/ \E r : given = {r}
    BY DEF TokenInv
  <2> HIDE DEF given
  <2>2. Cardinality(given) = 0 \/ Cardinality(given) = 1
    BY <2>1, FS_EmptySet, FS_Singleton
  <2>3. Cardinality(given) <= 1
    BY <2>2
  <2>4. decided[p] \in Decision => \E r \in given : r[3] = decided[p]
    BY DEF DecisionInv, Accepted, given
  <2> QED BY <2>3, <2>4 DEF given
<1> QED BY <1>1, InitTypeInv, NextTypeInv, InitReplyInv, NextTokenInv, NextDecisionInv, PTL DEF Spec

=============================================================================
