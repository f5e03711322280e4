------------------------------ MODULE Pipeline ------------------------------
(***************************************************************************)
(* The router's message pipeline: internal/router/pipeline.go (synchronous *)
(* path), store.go, pruning.go and policy.go, run by the workers of        *)
(* pool.go over the inbox of router.go, with the persistent history        *)
(* (memory.HistoryStore) that survives a restart of the process.           *)
(*                                                                         *)
(* A session is a heap object: the store may drop it while a worker still  *)
(* uses it, and create another for the same key.  The lane of a key is the *)
(* abstract mutex that LaneLock is proved to implement.                    *)
(***************************************************************************)
EXTENDS Naturals, FiniteSets, Sequences

CONSTANTS
    Worker,        \* goroutines of the WorkerPool
    Key,           \* session keys (channel, chat, thread)
    Sess,          \* addresses of Session objects
    Nil,           \* nil pointer, free lane
    Kinds,         \* kinds of inbound message, a subset of AllKinds
    Faults,        \* steps that may fail, a subset of AllFaults
    MaxHistoryLen, \* PipelineConfig.MaxHistoryLen
    MaxSessions,   \* Config.MaxSessions, 0 = unlimited
    InboxSize,     \* Config.InboxSize
    MaxMsgs,       \* bound: inbound messages in a behaviour
    MaxRestarts,   \* bound: process restarts and deletions by the gateway
    Aging          \* may sessions become idle for longer than MaxIdle?

\* What a message is decides which way it takes; nothing reads it before the
\* step that does, so it is chosen there.
\* "filtered": GroupPolicy.ShouldProcess is false (an unmentioned group
\* message); "new": the /new command; "empty": no LLM content.
AllKinds == {"text", "new", "filtered", "empty"}

\* "hook": before_process drops the message; "route": no agent matches it;
\* "gone": its agent left the registry; "agent": the agent loop fails; "send":
\* delivery fails; "store": the persistent history fails.
AllFaults == {"hook", "route", "gone", "agent", "send", "store"}

Ids == 1 .. MaxMsgs
Msg == [id : Ids, key : Key]
Entry == [role : {"user", "assistant"}, id : Ids]   \* provider.LLMMessage

ASSUME PipelineAssumption ==
    /\ Kinds \subseteq AllKinds
    /\ Faults \subseteq AllFaults
    /\ Nil \notin Sess \cup Worker \cup Msg
    /\ MaxHistoryLen \in Nat \ {0}
    /\ {MaxSessions, InboxSize, MaxMsgs, MaxRestarts} \subseteq Nat
    /\ Aging \in BOOLEAN

VARIABLES
    inbox,     \* Router.inbox
    nextId,    \* messages submitted so far, plus one
    store,     \* InMemorySessionStore.sessions: [Key -> Sess or Nil]
    agent,     \* Session.AgentID # "": [Sess -> BOOLEAN]
    hist,      \* Session.History: [Sess -> Seq(Entry)]
    idle,      \* now - Session.LastActiveAt > MaxIdle: [Sess -> BOOLEAN]
    db,        \* the persistent history of each key: [Key -> Seq(Entry)]
    lane,      \* who holds the lane of each key: [Key -> Worker or Nil]
    pc,        \* where each worker is in Pipeline.Execute
    env,       \* its envelope
    sess,      \* its local variable session
    created,   \* its local variable created
    restarts,  \* process restarts and deletions by the gateway so far
    settled,   \* history variable: how often each message came to an end
    forgotten, \* history variable: messages of each key in the history before a /new
    restored,  \* history variable: the creator of the session has restored it
    caveats    \* history variable: what went wrong on each key, a subset of Caveats

locals == <<pc, env, sess, created>>
ghosts == <<settled, forgotten, restored, caveats>>
vars == <<inbox, nextId, store, agent, hist, idle, db, lane, locals, restarts, ghosts>>

\* "torn": the session was reset or pruned while another worker was using it;
\* "failed": the persistent history did not take, give or purge messages;
\* "unpurged": /new met a session without an agent, and purged nothing.
Caveats == {"torn", "failed", "unpurged"}

Points == {"idle", "resolve", "purge", "delete", "lane", "agent", "history", "persist",
           "run", "send", "finalize", "persistReply", "prune", "release"}

Init ==
    /\ inbox = <<>>
    /\ nextId = 1
    /\ store = [k \in Key |-> Nil]
    /\ agent = [s \in Sess |-> FALSE]
    /\ hist = [s \in Sess |-> <<>>]
    /\ idle = [s \in Sess |-> FALSE]
    /\ db = [k \in Key |-> <<>>]
    /\ lane = [k \in Key |-> Nil]
    /\ pc = [w \in Worker |-> "idle"]
    /\ env = [w \in Worker |-> Nil]
    /\ sess = [w \in Worker |-> Nil]
    /\ created = [w \in Worker |-> FALSE]
    /\ restarts = 0
    /\ settled = [i \in Ids |-> 0]
    /\ forgotten = [k \in Key |-> {}]
    /\ restored = [s \in Sess |-> FALSE]
    /\ caveats = [k \in Key |-> {}]

-----------------------------------------------------------------------------
\* Helpers.

At(w, point) == pc[w] = point
Goto(w, point) == pc' = [pc EXCEPT ![w] = point]
KeyOf(w) == env[w].key

\* A step that fails when its fault is possible, and may always succeed.
MayFail(fault) == IF fault \in Faults THEN {TRUE, FALSE} ELSE {FALSE}

\* Mutant: history[:limit], which keeps the oldest entries.
TrimTail(h) == IF Len(h) > MaxHistoryLen THEN SubSeq(h, 1, MaxHistoryLen) ELSE h

\* history[len-limit:] when it is longer than limit.
Trim(h) == IF Len(h) > MaxHistoryLen
           THEN SubSeq(h, Len(h) - MaxHistoryLen + 1, Len(h)) ELSE h

\* The message of w comes to an end: its sender has the response, an error
\* message (sendError) or the confirmation of /new, or the message is dropped on
\* purpose, or the delivery failed, which is only logged.
Settle(w) == settled' = [settled EXCEPT ![env[w].id] = @ + 1]

\* What went wrong on key k, if it did.
Note(k, caveat, happened) ==
    caveats' = IF happened THEN [caveats EXCEPT ![k] = @ \cup {caveat}] ELSE caveats

\* The worker's call of Execute returns without the lane.
Return(w) ==
    /\ Goto(w, "idle")
    /\ env' = [env EXCEPT ![w] = Nil]
    /\ sess' = [sess EXCEPT ![w] = Nil]
    /\ created' = [created EXCEPT ![w] = FALSE]

ActiveSessions == {k \in Key : store[k] # Nil}

\* Addresses a new Session may get.
Unreachable(s) == /\ \A k \in Key : store[k] # s
                  /\ \A w \in Worker : sess[w] # s

EntryIds(h) == {h[i].id : i \in DOMAIN h}

-----------------------------------------------------------------------------
\* The inbox.

\* Router.Submit on a message of key k: a non-blocking send on inbox.  A full
\* inbox drops the message and returns ErrInboxFull.
Submit(k) ==
    /\ nextId <= MaxMsgs
    /\ nextId' = nextId + 1
    /\ IF Len(inbox) < InboxSize
       THEN /\ inbox' = Append(inbox, [id |-> nextId, key |-> k])
            /\ UNCHANGED settled
       ELSE /\ settled' = [settled EXCEPT ![nextId] = @ + 1]
            /\ UNCHANGED inbox
    /\ UNCHANGED <<store, agent, hist, idle, db, lane, locals, restarts, forgotten, restored,
                   caveats>>

\* A worker of the pool receives an envelope and enters Execute.
Receive(w) ==
    /\ At(w, "idle")
    /\ inbox # <<>>
    /\ env' = [env EXCEPT ![w] = Head(inbox)]
    /\ inbox' = Tail(inbox)
    /\ Goto(w, "resolve")
    /\ UNCHANGED <<nextId, store, agent, hist, idle, db, lane, sess, created, restarts, ghosts>>

-----------------------------------------------------------------------------
\* Steps 2 to 4b: session resolution, group policy, /new.

\* A message of w goes on, with the session held, to `point`: /new and another
\* message of the key are under way at once.
ResetRaces(w, point) ==
    \E v \in Worker \ {w} : /\ sess[v] # Nil /\ KeyOf(v) = KeyOf(w)
                            /\ {pc[v], point} \cap {"purge", "delete"} # {}

\* The session is there, or is created, or the session limit is reached.  The
\* decision of the group policy and the test for /new read nothing shared.
ResolveSession(w) ==
    /\ At(w, "resolve")
    /\ LET k == KeyOf(w)
           proceed(s, fresh) ==
              \/ /\ "filtered" \in Kinds
                 /\ Settle(w)
                 /\ Return(w)
                 /\ UNCHANGED caveats
              \/ /\ \E point \in IF "new" \in Kinds THEN {"purge", "lane"} ELSE {"lane"} :
                       /\ Goto(w, point)
                       /\ Note(k, "torn", ResetRaces(w, point))
                 /\ sess' = [sess EXCEPT ![w] = s]
                 /\ created' = [created EXCEPT ![w] = fresh]
                 /\ UNCHANGED <<env, settled>>
       IN \/ /\ store[k] # Nil
             /\ proceed(store[k], FALSE)
             /\ UNCHANGED <<store, agent, hist, idle, restored>>
          \/ /\ store[k] = Nil
             /\ MaxSessions > 0 /\ Cardinality(ActiveSessions) >= MaxSessions
             /\ Settle(w)
             /\ Return(w)
             /\ UNCHANGED <<store, agent, hist, idle, restored, caveats>>
          \/ /\ store[k] = Nil
             /\ MaxSessions > 0 => Cardinality(ActiveSessions) < MaxSessions
             /\ \E s \in Sess :
                   /\ Unreachable(s)
                   /\ store' = [store EXCEPT ![k] = s]
                   /\ agent' = [agent EXCEPT ![s] = FALSE]
                   /\ hist' = [hist EXCEPT ![s] = <<>>]
                   /\ idle' = [idle EXCEPT ![s] = FALSE]
                   /\ restored' = [restored EXCEPT ![s] = FALSE]
                   /\ proceed(s, TRUE)
    /\ UNCHANGED <<inbox, nextId, db, lane, restarts, forgotten>>

\* Mutant: /new forgets the persistent history.
NewKeepsHistory(w) ==
    /\ At(w, "purge")
    /\ Goto(w, "delete")
    /\ UNCHANGED <<inbox, nextId, store, agent, hist, idle, db, lane, env, sess, created,
                   restarts, ghosts>>

\* handleNewCommand purges the persistent history when the session knows its
\* agent.  It runs without the lane of the session.
NewPurge(w) ==
    /\ At(w, "purge")
    /\ LET k == KeyOf(w)
       IN \/ /\ agent[sess[w]]
             /\ \E failed \in MayFail("store") :
                   /\ db' = IF failed THEN db ELSE [db EXCEPT ![k] = <<>>]
                   /\ Note(k, "failed", failed)
          \/ /\ ~agent[sess[w]]
             /\ Note(k, "unpurged", db[k] # <<>>)
             /\ UNCHANGED db
    /\ Goto(w, "delete")
    /\ UNCHANGED <<inbox, nextId, store, agent, hist, idle, lane, env, sess, created, restarts,
                   settled, forgotten, restored>>

\* ... then deletes the session of the key and confirms the reset.
NewDelete(w) ==
    /\ At(w, "delete")
    /\ LET k == KeyOf(w)
           live == IF store[k] = Nil THEN <<>> ELSE hist[store[k]]
       IN /\ store' = [store EXCEPT ![k] = Nil]
          /\ forgotten' = [forgotten EXCEPT ![k] = @ \cup EntryIds(live) \cup EntryIds(db[k])]
    /\ Settle(w)
    /\ Return(w)
    /\ UNCHANGED <<inbox, nextId, agent, hist, idle, db, lane, restarts, restored, caveats>>

-----------------------------------------------------------------------------
\* Steps 5 to 14, under the lane.

\* Mutant: the lane is not taken.
AcquireNothing(w) ==
    /\ At(w, "lane")
    /\ Goto(w, "agent")
    /\ UNCHANGED <<inbox, nextId, store, agent, hist, idle, db, lane, env, sess, created,
                   restarts, ghosts>>

AcquireLane(w) ==
    /\ At(w, "lane")
    /\ lane[KeyOf(w)] = Nil
    /\ lane' = [lane EXCEPT ![KeyOf(w)] = w]
    /\ Goto(w, "agent")
    /\ UNCHANGED <<inbox, nextId, store, agent, hist, idle, db, env, sess, created, restarts, ghosts>>

\* A hook drops the message, or all of them have run.
RunBeforeProcess == MayFail("hook")

\* before_process hooks, then AgentFactory.ForSession, which assigns the agent
\* of a session that has none and then looks that agent up: a reload may have
\* removed it.
ResolveAgent(w) ==
    /\ At(w, "agent")
    /\ \E dropped \in RunBeforeProcess, unrouted \in MayFail("route"), gone \in MayFail("gone") :
          \/ /\ dropped
             /\ Settle(w)
             /\ Goto(w, "release")
             /\ UNCHANGED agent
          \/ /\ ~dropped /\ unrouted /\ ~agent[sess[w]]
             /\ Settle(w)
             /\ Goto(w, "release")
             /\ UNCHANGED agent
          \/ /\ ~dropped /\ (unrouted => agent[sess[w]]) /\ gone
             /\ agent' = [agent EXCEPT ![sess[w]] = TRUE]
             /\ Settle(w)
             /\ Goto(w, "release")
          \/ /\ ~dropped /\ (unrouted => agent[sess[w]]) /\ ~gone
             /\ agent' = [agent EXCEPT ![sess[w]] = TRUE]
             /\ Goto(w, "history")
             /\ UNCHANGED settled
    /\ UNCHANGED <<inbox, nextId, store, hist, idle, db, lane, env, sess, created, restarts,
                   forgotten, restored, caveats>>

\* Steps 7b and 8: only the worker that created the session restores it, and
\* an error or an empty result leaves the history alone; then a message without
\* content is refused, another is appended and the history trimmed.
AppendUser(w) ==
    /\ At(w, "history")
    /\ \E failed \in IF created[w] THEN MayFail("store") ELSE {FALSE} :
       LET k == KeyOf(w)
           base == IF created[w] /\ ~failed /\ db[k] # <<>> THEN Trim(db[k]) ELSE hist[sess[w]]
           entry == [role |-> "user", id |-> env[w].id]
       IN /\ restored' = [restored EXCEPT ![sess[w]] = @ \/ created[w]]
          /\ Note(k, "failed", failed)
          /\ \/ /\ "empty" \in Kinds
                /\ hist' = [hist EXCEPT ![sess[w]] = base]
                /\ Settle(w)
                /\ Goto(w, "release")
             \/ /\ hist' = [hist EXCEPT ![sess[w]] = Trim(Append(base, entry))]
                /\ Goto(w, "persist")
                /\ UNCHANGED settled
    /\ UNCHANGED <<inbox, nextId, store, agent, idle, db, lane, env, sess, created, restarts,
                   forgotten>>

\* store.Append, write-behind: a failure is logged and the pipeline goes on.
Persist(w, role) ==
    \E failed \in MayFail("store") :
       /\ db' = IF failed THEN db
                ELSE [db EXCEPT ![KeyOf(w)] = Append(@, [role |-> role, id |-> env[w].id])]
       /\ Note(KeyOf(w), "failed", failed)

\* Step 8b.
PersistUser(w) ==
    /\ At(w, "persist")
    /\ Persist(w, "user")
    /\ Goto(w, "run")
    /\ UNCHANGED <<inbox, nextId, store, agent, hist, idle, lane, env, sess, created, restarts,
                   settled, forgotten, restored>>

\* Mutant: the error path of the agent loop does not return.
RunAgentGoesOn(w) ==
    /\ At(w, "run")
    /\ Goto(w, "send")
    /\ \E failed \in MayFail("agent") : IF failed THEN Settle(w) ELSE UNCHANGED settled
    /\ UNCHANGED <<inbox, nextId, store, agent, hist, idle, db, lane, env, sess, created, restarts,
                   forgotten, restored, caveats>>

\* Steps 9 and 10: the agent loop runs over the session history.
RunAgent(w) ==
    /\ At(w, "run")
    /\ \E failed \in MayFail("agent") :
          IF failed THEN Settle(w) /\ Goto(w, "release")
                    ELSE UNCHANGED settled /\ Goto(w, "send")
    /\ UNCHANGED <<inbox, nextId, store, agent, hist, idle, db, lane, env, sess, created, restarts,
                   forgotten, restored, caveats>>

\* Steps 11 and 12: an undelivered response is not recorded in the history.
SendResponse(w) ==
    /\ At(w, "send")
    /\ Settle(w)
    /\ \E failed \in MayFail("send") : Goto(w, IF failed THEN "release" ELSE "finalize")
    /\ UNCHANGED <<inbox, nextId, store, agent, hist, idle, db, lane, env, sess, created, restarts,
                   forgotten, restored, caveats>>

\* Step 13: append the response to the worker's session object, touch
\* whatever session the store has now, trim.
AppendAssistant(w) ==
    /\ At(w, "finalize")
    /\ hist' = [hist EXCEPT ![sess[w]] =
                   Trim(Append(@, [role |-> "assistant", id |-> env[w].id]))]
    /\ idle' = IF store[KeyOf(w)] = Nil THEN idle
               ELSE [idle EXCEPT ![store[KeyOf(w)]] = FALSE]
    /\ Goto(w, "persistReply")
    /\ UNCHANGED <<inbox, nextId, store, agent, db, lane, env, sess, created,
                   restarts, ghosts>>

\* Step 13b.
PersistAssistant(w) ==
    /\ At(w, "persistReply")
    /\ Persist(w, "assistant")
    /\ Goto(w, "prune")
    /\ UNCHANGED <<inbox, nextId, store, agent, hist, idle, lane, env, sess, created, restarts,
                   settled, forgotten, restored>>

\* The sessions in `gone` leave the store; another worker than w may hold one.
Prune(gone, w) ==
    /\ store' = [k \in Key |-> IF k \in gone THEN Nil ELSE store[k]]
    /\ caveats' = [k \in Key |->
          IF k \in gone /\ \E v \in Worker \ {w} : sess[v] = store[k]
          THEN caveats[k] \cup {"torn"} ELSE caveats[k]]

\* Sessions idle for longer than MaxIdle.
IdleKeys == {k \in Key : store[k] # Nil /\ idle[store[k]]}

\* lazyPruner.TryPrune: nothing when the last run is too recent.
LazilyPruned == {{}, IdleKeys}

\* Step 14.
TryPrune(w) ==
    /\ At(w, "prune")
    /\ \E gone \in LazilyPruned : Prune(gone, w)
    /\ Goto(w, "release")
    /\ UNCHANGED <<inbox, nextId, agent, hist, idle, db, lane, env, sess, created, restarts,
                   settled, forgotten, restored>>

\* Step 15: the deferred Release, on every path that acquired the lane.
ReleaseLane(w) ==
    /\ At(w, "release")
    /\ lane' = [lane EXCEPT ![KeyOf(w)] = Nil]
    /\ Return(w)
    /\ UNCHANGED <<inbox, nextId, store, agent, hist, idle, db, restarts, ghosts>>

Execute(w) ==
    \/ ResolveSession(w)
    \/ NewPurge(w)
    \/ NewDelete(w)
    \/ AcquireLane(w)
    \/ ResolveAgent(w)
    \/ AppendUser(w)
    \/ PersistUser(w)
    \/ RunAgent(w)
    \/ SendResponse(w)
    \/ AppendAssistant(w)
    \/ PersistAssistant(w)
    \/ TryPrune(w)
    \/ ReleaseLane(w)

-----------------------------------------------------------------------------
\* The environment.

\* Time passes: a stored session has been idle for longer than MaxIdle.
Age(s) ==
    /\ Aging
    /\ ~idle[s]
    /\ \E k \in Key : store[k] = s
    /\ idle' = [idle EXCEPT ![s] = TRUE]
    /\ UNCHANGED <<inbox, nextId, store, agent, hist, db, lane, locals, restarts, ghosts>>

\* The session cleanup cron job: PruneByAgent, on sessions that have an agent.
CronPrune ==
    /\ LET gone == {k \in IdleKeys : agent[store[k]]}
       IN gone # {} /\ Prune(gone, Nil)
    /\ UNCHANGED <<inbox, nextId, agent, hist, idle, db, lane, locals, restarts, settled,
                   forgotten, restored>>

\* DELETE /api/sessions/{id} of the gateway: the key is looked up and then deleted,
\* lane or no lane.
DeleteSession(k) ==
    /\ store[k] # Nil
    /\ restarts < MaxRestarts
    /\ restarts' = restarts + 1
    /\ Prune({k}, Nil)
    /\ UNCHANGED <<inbox, nextId, agent, hist, idle, db, lane, locals, settled, forgotten,
                   restored>>

\* The message is in the inbox or in the hands of a worker.
InFlight(i) == \/ \E j \in DOMAIN inbox : inbox[j].id = i
               \/ \E w \in Worker : env[w] # Nil /\ env[w].id = i

\* The process ends at any point and starts again: only db survives, and
\* messages in flight are lost.
Restart ==
    /\ restarts < MaxRestarts
    /\ restarts' = restarts + 1
    /\ inbox' = <<>>
    /\ store' = [k \in Key |-> Nil]
    /\ agent' = [s \in Sess |-> FALSE]
    /\ hist' = [s \in Sess |-> <<>>]
    /\ idle' = [s \in Sess |-> FALSE]
    /\ lane' = [k \in Key |-> Nil]
    /\ pc' = [w \in Worker |-> "idle"]
    /\ env' = [w \in Worker |-> Nil]
    /\ sess' = [w \in Worker |-> Nil]
    /\ created' = [w \in Worker |-> FALSE]
    /\ restored' = [s \in Sess |-> FALSE]
    /\ settled' = [i \in Ids |-> IF InFlight(i) /\ settled[i] = 0 THEN 1 ELSE settled[i]]
    /\ UNCHANGED <<nextId, db, forgotten, caveats>>

\* Nothing is left to do: the bound on messages is reached, workers wait on
\* the empty inbox.
Quiescent ==
    /\ nextId > MaxMsgs
    /\ inbox = <<>>
    /\ \A w \in Worker : At(w, "idle")
    /\ UNCHANGED vars

Next ==
    \/ \E k \in Key : Submit(k)
    \/ \E w \in Worker : Receive(w)
    \/ \E w \in Worker : Execute(w)
    \/ \E s \in Sess : Age(s)
    \/ CronPrune
    \/ \E k \in Key : DeleteSession(k)
    \/ Restart
    \/ Quiescent

Spec == Init /\ [][Next]_vars

-----------------------------------------------------------------------------
TypeOK ==
    /\ inbox \in Seq(Msg) /\ Len(inbox) <= InboxSize
    /\ nextId \in 1 .. MaxMsgs + 1
    /\ store \in [Key -> Sess \cup {Nil}]
    /\ agent \in [Sess -> BOOLEAN]
    /\ hist \in [Sess -> Seq(Entry)]
    /\ idle \in [Sess -> BOOLEAN]
    /\ db \in [Key -> Seq(Entry)]
    /\ lane \in [Key -> Worker \cup {Nil}]
    /\ pc \in [Worker -> Points]
    /\ env \in [Worker -> Msg \cup {Nil}]
    /\ sess \in [Worker -> Sess \cup {Nil}]
    /\ created \in [Worker -> BOOLEAN]
    /\ restarts \in 0 .. MaxRestarts
    /\ settled \in [Ids -> Nat]
    /\ forgotten \in [Key -> SUBSET Ids]
    /\ restored \in [Sess -> BOOLEAN]
    /\ caveats \in [Key -> SUBSET Caveats]

\* Every response is recorded directly behind the message it answers.
Contiguous(h) ==
    \A i \in DOMAIN h \ {1} :
        h[i].role = "assistant" => h[i - 1] = [role |-> "user", id |-> h[i].id]

\* Exchanges of one session never interleave, in memory or on disk, although
\* workers, prunings, resets and restarts do: what the agent is shown is a
\* sequence of messages, each followed by its own answer or by none (pipeline.go
\* steps 8 to 13b, under the lane), as long as every write of the key's history
\* was taken.
ExchangesContiguous ==
    \A k \in Key :
        "failed" \notin caveats[k] =>
            /\ Contiguous(db[k])
            /\ store[k] # Nil => Contiguous(hist[store[k]])

\* Every message comes to exactly one end, whatever path Submit and Execute
\* take: the response, one error, the confirmation of /new, a deliberate drop, a
\* failed delivery or the end of the process.  None is answered twice and none is
\* forgotten by a return path that says nothing.
SettledOnce ==
    \A i \in Ids : IF InFlight(i) THEN settled[i] <= 1
                   ELSE settled[i] = (IF i < nextId THEN 1 ELSE 0)

\* The last MaxHistoryLen entries of h are those of g.
SameRecent(h, g) ==
    LET n == IF Len(g) < MaxHistoryLen THEN Len(g) ELSE MaxHistoryLen
    IN h = SubSeq(g, Len(g) - n + 1, Len(g))

\* The agent of w runs on the session the store has for the key.
Running(w) == At(w, "run") /\ store[KeyOf(w)] = sess[w]

\* The agent runs on the persisted conversation: a session recreated after a
\* prune or a restart continues it (docs/concepts/memory.mdx: turns are "persisted
\* per session, restored when a session is recreated").  So it is when the worker
\* that created the session got as far as the restore, the persistent history did
\* not fail, and no reset or prune took the session away from under a worker.
HistoryInSync ==
    \A w \in Worker :
        /\ Running(w) /\ restored[sess[w]]
        /\ caveats[KeyOf(w)] \cap {"torn", "failed"} = {}
        => SameRecent(hist[sess[w]], db[KeyOf(w)])

Forgets(w) == EntryIds(hist[sess[w]]) \cap forgotten[KeyOf(w)] = {}

\* After the user resets a conversation with /new, the agent never sees an
\* earlier exchange again (handleNewCommand "resets the conversation by deleting
\* the session and purging persistent history"), when the reset met no other
\* worker on the session, the purge did not fail and the session had an agent.
ResetForgets == \A w \in Worker : Running(w) /\ caveats[KeyOf(w)] = {} => Forgets(w)

\* The same for every reset, as the comment of handleNewCommand has it.
ResetAlwaysForgets == \A w \in Worker : Running(w) => Forgets(w)
=============================================================================
