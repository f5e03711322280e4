------------------------------- MODULE Router -------------------------------
(***************************************************************************)
(* internal/router/router.go and pool.go: the life of the inbox channel.   *)
(* Channel goroutines Submit, the owner of the router Starts and Stops it, *)
(* workers receive until the channel is closed and empty.  The RWMutex     *)
(* inboxMu is what keeps a sender off the closed channel.                  *)
(***************************************************************************)
EXTENDS Naturals, Sequences

CONSTANTS
    Submitter,  \* goroutines of the channels that call Submit
    Worker,     \* the WorkerPool's goroutines
    Nil,        \* no message
    InboxSize,  \* Config.InboxSize
    MaxMsgs,    \* bound: messages submitted
    MaxStops    \* bound: calls of Stop (it is idempotent)

ASSUME RouterAssumption ==
    /\ {InboxSize, MaxMsgs, MaxStops} \subseteq Nat
    /\ Nil \notin Nat
    /\ Worker # {}

VARIABLES
    inbox,     \* the buffered channel
    closed,    \* close(inbox) happened
    stopped,   \* Router.stopped
    cancel,    \* Router.cancel: "unset", "live" context, "cancelled" context
    readers,   \* who holds inboxMu for reading
    writing,   \* the owner holds inboxMu for writing
    sub,       \* where each submitter is: "out", "send", or "panic"
    msg,       \* the message each submitter sends
    owner,     \* where the owner is in Start or Stop
    alive,     \* workers counted in the pool's WaitGroup
    handling,  \* the message each worker handles, or Nil
    nextId,    \* messages submitted so far, plus one
    stops,     \* calls of Stop so far
    accepted,  \* history variable: messages for which Submit returned nil
    handled    \* history variable: messages handed to the pipeline

routerVars == <<inbox, closed, stopped, cancel, readers, writing, sub, msg, owner, alive, handling,
          nextId, stops, accepted, handled>>

OwnerPoints == {"new", "startLock", "start", "spawn", "running", "stopLock", "stop", "cancel",
                "wait", "done", "startIgnored"}

RouterInit ==
    /\ inbox = <<>>
    /\ closed = FALSE
    /\ stopped = FALSE
    /\ cancel = "unset"
    /\ readers = {}
    /\ writing = FALSE
    /\ sub = [s \in Submitter |-> "out"]
    /\ msg = [s \in Submitter |-> 0]
    /\ owner = "new"
    /\ alive = {}
    /\ handling = [w \in Worker |-> Nil]
    /\ nextId = 1
    /\ stops = 0
    /\ accepted = {}
    /\ handled = {}

-----------------------------------------------------------------------------
\* Submit.

\* inboxMu.RLock(): a writer that holds the lock or waits for it excludes new
\* readers.
CanRead == ~writing /\ owner \notin {"startLock", "stopLock"}

\* Mutant: the read lock is released before the send.
SubmitUnlocked(s) ==
    /\ sub[s] = "out"
    /\ CanRead
    /\ nextId <= MaxMsgs
    /\ nextId' = nextId + 1
    /\ ~stopped
    /\ sub' = [sub EXCEPT ![s] = "send"]
    /\ msg' = [msg EXCEPT ![s] = nextId]
    /\ UNCHANGED <<inbox, closed, stopped, cancel, readers, writing, owner, alive, handling,
                   stops, accepted, handled>>

\* Submit up to the send.  An approval response is resolved instead; a stopped
\* router, an oversized or too deep message and a rate-limited session return
\* an error.  All of these release the lock.
SubmitEnter(s) ==
    /\ sub[s] = "out"
    /\ CanRead
    /\ nextId <= MaxMsgs
    /\ nextId' = nextId + 1
    /\ \E refused \in BOOLEAN :
          IF stopped \/ refused
          THEN UNCHANGED <<readers, sub, msg>>
          ELSE /\ readers' = readers \cup {s}
               /\ sub' = [sub EXCEPT ![s] = "send"]
               /\ msg' = [msg EXCEPT ![s] = nextId]
    /\ UNCHANGED <<inbox, closed, stopped, cancel, writing, owner, alive, handling, stops,
                   accepted, handled>>

\* select { case inbox <- env: default: }, then the deferred RUnlock.  A send
\* on a closed channel panics.
SubmitSend(s) ==
    /\ sub[s] = "send"
    /\ LET fits == Len(inbox) < InboxSize
       IN IF closed
          THEN /\ sub' = [sub EXCEPT ![s] = "panic"]
               /\ UNCHANGED <<inbox, accepted>>
          ELSE /\ sub' = [sub EXCEPT ![s] = "out"]
               /\ inbox' = IF fits THEN Append(inbox, msg[s]) ELSE inbox
               /\ accepted' = IF fits THEN accepted \cup {msg[s]} ELSE accepted
    /\ readers' = readers \ {s}
    /\ UNCHANGED <<closed, stopped, cancel, writing, msg, owner, alive, handling, nextId, stops,
                   handled>>

-----------------------------------------------------------------------------
\* Start.  The application's main goroutine calls Start and Stop in turn.

Owner(from, to) == owner = from /\ owner' = to

\* inboxMu.Lock() of Start or Stop returns.
OwnerLock(from, to) ==
    /\ Owner(from, to)
    /\ readers = {}
    /\ writing' = TRUE
    /\ UNCHANGED <<inbox, closed, stopped, cancel, readers, sub, msg, alive, handling, nextId,
                   stops, accepted, handled>>

StartCall ==
    /\ Owner("new", "startLock")
    /\ UNCHANGED <<inbox, closed, stopped, cancel, readers, writing, sub, msg, alive, handling,
                   nextId, stops, accepted, handled>>

\* Under inboxMu: a router that was stopped first is not started.
StartBody ==
    /\ owner = "start"
    /\ owner' = IF stopped THEN "startIgnored" ELSE "spawn"
    /\ cancel' = IF stopped THEN cancel ELSE "live"
    /\ writing' = FALSE
    /\ UNCHANGED <<inbox, closed, stopped, readers, sub, msg, alive, handling, nextId, stops,
                   accepted, handled>>

\* WorkerPool.Start launches the workers one by one, without the lock.
Spawn(w) ==
    /\ owner = "spawn"
    /\ w \notin alive
    /\ alive' = alive \cup {w}
    /\ owner' = IF alive' = Worker THEN "running" ELSE "spawn"
    /\ UNCHANGED <<inbox, closed, stopped, cancel, readers, writing, sub, msg, handling, nextId,
                   stops, accepted, handled>>

-----------------------------------------------------------------------------
\* Stop.

\* stopOnce: only the first call of Stop does anything.
StopCall ==
    /\ owner \in {"new", "running", "startIgnored", "done"}
    /\ stops < MaxStops
    /\ stops' = stops + 1
    /\ owner' = IF stops = 0 THEN "stopLock" ELSE owner
    /\ UNCHANGED <<inbox, closed, stopped, cancel, readers, writing, sub, msg, alive, handling,
                   nextId, accepted, handled>>

\* Mutant: Stop leaves the channel open.
StopWithoutClose ==
    /\ Owner("stop", "cancel")
    /\ stopped' = TRUE
    /\ writing' = FALSE
    /\ UNCHANGED <<inbox, closed, cancel, readers, sub, msg, alive, handling, nextId, stops,
                   accepted, handled>>

\* Under inboxMu: close(inbox).
StopBody ==
    /\ Owner("stop", "cancel")
    /\ stopped' = TRUE
    /\ closed' = TRUE
    /\ writing' = FALSE
    /\ UNCHANGED <<inbox, cancel, readers, sub, msg, alive, handling, nextId, stops, accepted,
                   handled>>

StopCancel ==
    /\ Owner("cancel", "wait")
    /\ cancel' = IF cancel = "live" THEN "cancelled" ELSE cancel
    /\ UNCHANGED <<inbox, closed, stopped, readers, writing, sub, msg, alive, handling, nextId,
                   stops, accepted, handled>>

\* Mutant: Stop does not wait for the workers.
StopWithoutWait ==
    /\ Owner("wait", "done")
    /\ UNCHANGED <<inbox, closed, stopped, cancel, readers, writing, sub, msg, alive, handling,
                   nextId, stops, accepted, handled>>

\* pool.Wait() returns; so does Stop.  A router stopped before it started may
\* still be started (StartAfterStop).
StopWait ==
    /\ Owner("wait", "done")
    /\ alive = {}
    /\ UNCHANGED <<inbox, closed, stopped, cancel, readers, writing, sub, msg, alive, handling,
                   nextId, stops, accepted, handled>>

StartAfterStop ==
    /\ cancel = "unset"
    /\ Owner("done", "startLock")
    /\ UNCHANGED <<inbox, closed, stopped, cancel, readers, writing, sub, msg, alive, handling,
                   nextId, stops, accepted, handled>>

-----------------------------------------------------------------------------
\* Workers: for env := range inbox { handler(ctx, env) }.

Receive(w) ==
    /\ w \in alive
    /\ handling[w] = Nil
    /\ inbox # <<>>
    /\ handling' = [handling EXCEPT ![w] = Head(inbox)]
    /\ inbox' = Tail(inbox)
    /\ handled' = handled \cup {Head(inbox)}
    /\ UNCHANGED <<closed, stopped, cancel, readers, writing, sub, msg, owner, alive, nextId, stops,
                   accepted>>

\* Pipeline.Execute returns.
Finish(w) ==
    /\ handling[w] # Nil
    /\ handling' = [handling EXCEPT ![w] = Nil]
    /\ UNCHANGED <<inbox, closed, stopped, cancel, readers, writing, sub, msg, owner, alive, nextId,
                   stops, accepted, handled>>

\* Mutant: the worker leaves as soon as the channel is closed.
ExitEarly(w) ==
    /\ w \in alive
    /\ handling[w] = Nil
    /\ closed
    /\ alive' = alive \ {w}
    /\ UNCHANGED <<inbox, closed, stopped, cancel, readers, writing, sub, msg, owner, handling,
                   nextId, stops, accepted, handled>>

\* The range ends when the channel is closed and empty; wg.Done().
Exit(w) ==
    /\ w \in alive
    /\ handling[w] = Nil
    /\ closed
    /\ inbox = <<>>
    /\ alive' = alive \ {w}
    /\ UNCHANGED <<inbox, closed, stopped, cancel, readers, writing, sub, msg, owner, handling,
                   nextId, stops, accepted, handled>>

OwnerStep ==
    \/ StartCall
    \/ OwnerLock("startLock", "start")
    \/ StartBody
    \/ \E w \in Worker : Spawn(w)
    \/ OwnerLock("stopLock", "stop")
    \/ StopBody
    \/ StopCancel
    \/ StopWait

RouterNext ==
    \/ \E s \in Submitter : SubmitEnter(s) \/ SubmitSend(s)
    \/ OwnerStep
    \/ StopCall
    \/ StartAfterStop
    \/ \E w \in Worker : Receive(w) \/ Finish(w) \/ Exit(w)

RouterSpec == RouterInit /\ [][RouterNext]_routerVars

\* Goroutines keep running and every handler returns: agent runs have a
\* timeout and their context is cancelled by Stop.  Nobody has to call Stop.
RouterFairness ==
    /\ WF_routerVars(OwnerStep)
    /\ \A s \in Submitter : WF_routerVars(SubmitSend(s))
    /\ \A w \in Worker : WF_routerVars(Receive(w)) /\ WF_routerVars(Finish(w)) /\ WF_routerVars(Exit(w))

RouterFairSpec == RouterSpec /\ RouterFairness

-----------------------------------------------------------------------------
RouterTypeOK ==
    /\ inbox \in Seq(Nat) /\ Len(inbox) <= InboxSize
    /\ closed \in BOOLEAN
    /\ stopped \in BOOLEAN
    /\ cancel \in {"unset", "live", "cancelled"}
    /\ readers \subseteq Submitter
    /\ writing \in BOOLEAN
    /\ sub \in [Submitter -> {"out", "send", "panic"}]
    /\ msg \in [Submitter -> Nat]
    /\ owner \in OwnerPoints
    /\ alive \subseteq Worker
    /\ handling \in [Worker -> Nat \cup {Nil}]
    /\ nextId \in Nat
    /\ stops \in Nat
    /\ accepted \subseteq Nat
    /\ handled \subseteq Nat

\* No channel ever panics by sending on the inbox that Stop closed, whatever
\* the interleaving of Submit and Stop (TestRouter_SubmitConcurrentWithStop_NoPanic
\* tries one).
NoSendOnClosedInbox == \A s \in Submitter : sub[s] # "panic"

\* Once Stop has returned nothing runs any more, and on a router that ran,
\* every message that Submit accepted went through the pipeline.
StopDrains ==
    owner = "done" => /\ alive = {}
                      /\ cancel # "unset" => accepted \subseteq handled

\* Stop returns.
StopReturns == owner = "stopLock" ~> owner = "done"

\* An accepted message of a started router reaches the pipeline.
AcceptedReachesPipeline ==
    \A i \in 1 .. MaxMsgs : i \in accepted /\ cancel # "unset" ~> i \in handled

-----------------------------------------------------------------------------
\* The inductive invariant behind NoSendOnClosedInbox and StopDrains.

\* inboxMu: a submitter between its check and its send holds the read lock,
\* and the write lock excludes it.
LockInv ==
    /\ \A s \in Submitter : sub[s] = "send" => s \in readers /\ ~closed
    /\ writing => readers = {}
    /\ owner \in {"start", "stop"} => writing
    /\ NoSendOnClosedInbox

\* Accepted messages are in the inbox until a worker takes them.
InboxInv == accepted = handled \cup {inbox[i] : i \in DOMAIN inbox}

\* The pool is complete from the end of Start to the close, and empties only
\* after the inbox has.
PoolInv ==
    /\ stopped = closed
    /\ owner \in {"cancel", "wait", "done"} => closed
    /\ owner = "spawn" => ~closed
    /\ cancel = "unset" => alive = {} /\ owner \notin {"spawn", "running"}
    /\ cancel # "unset" /\ ~closed /\ owner # "spawn" => alive = Worker
    /\ cancel # "unset" /\ closed => alive # {} \/ inbox = <<>>
    /\ owner = "done" => alive = {}

RouterInv == RouterTypeOK /\ LockInv /\ InboxInv /\ PoolInv
=============================================================================
