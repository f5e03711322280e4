--------------------------- MODULE FactExtraction ---------------------------
(***************************************************************************)
(* MemoryExtractionJob of internal/cron/jobs.go reading the persistent     *)
(* history (modules/memory/sqlite/history.go) while the router's pipeline  *)
(* writes it.  The job remembers, per session, how many messages it has    *)
(* seen and pairs the newer ones into exchanges.  Nothing orders its       *)
(* queries with the writes of a message in progress, /new or the pruner.   *)
(***************************************************************************)
EXTENDS Naturals, Sequences, FiniteSets

CONSTANTS
    Key,       \* persistence keys of the sessions of one agent
    NoKey,
    MaxErrors, \* maxConsecutiveErrors
    MaxMsgs,   \* bound: user messages
    MaxTicks   \* bound: ticks of the job

ASSUME ExtractionAssumption ==
    /\ {MaxErrors, MaxMsgs, MaxTicks} \subseteq Nat
    /\ NoKey \notin Key

VARIABLES
    db,        \* messages of each session, in seq order
    live,      \* keys in the session store
    open,      \* the user message a worker is answering, or 0
    nextId,    \* user messages so far, plus one
    lastLen,   \* MemoryExtractionJob.lastLen, 0 when absent
    at,        \* where the job is in Run
    todo,      \* sessions left in this tick
    cur,       \* extractSession's sessionID
    seen,      \* its currentLen
    msgs,      \* its msgs
    errors,    \* consecutiveErrors
    ticks,     \* ticks so far
    extracted, \* history variable: the exchanges of each session given to the extractor
    caveats,   \* history variable: what disturbed each session, a subset of Caveats
    unstored   \* history variable: the user messages of each session never stored

jobVars == <<lastLen, at, todo, cur, seen, msgs, errors, ticks, extracted>>
extractionVars == <<db, live, open, nextId, jobVars, caveats, unstored>>

\* "moved": the job read the history while a message was in progress;
\* "unanswered": an agent run failed, or the Append of its answer did; "reset": /new purged the history;
\* "failed": the extraction of a session broke off; "forgotten": its lastLen was
\* lost to an eviction or a reload.
Caveats == {"moved", "unanswered", "reset", "failed", "forgotten"}

Note(k, caveat, happened) ==
    caveats' = IF happened THEN [caveats EXCEPT ![k] = @ \cup {caveat}] ELSE caveats

User(i) == [role |-> "user", id |-> i]
Assistant(i) == [role |-> "assistant", id |-> i]

ExtractionInit ==
    /\ db = [k \in Key |-> <<>>]
    /\ live = {}
    /\ open = [k \in Key |-> 0]
    /\ nextId = 1
    /\ lastLen = [k \in Key |-> 0]
    /\ at = "idle"
    /\ todo = {}
    /\ cur = NoKey
    /\ seen = 0
    /\ msgs = <<>>
    /\ errors = 0
    /\ ticks = 0
    /\ extracted = [k \in Key |-> <<>>]
    /\ caveats = [k \in Key |-> {}]
    /\ unstored = [k \in Key |-> {}]

-----------------------------------------------------------------------------
\* The pipeline, one message of a session at a time (its lane).

\* Steps 2 and 8b: the session exists and the user message is stored.  A failed
\* Append is only logged, and the message is answered all the same.
PersistUser(k) ==
    /\ open[k] = 0
    /\ nextId <= MaxMsgs
    /\ nextId' = nextId + 1
    /\ open' = [open EXCEPT ![k] = nextId]
    /\ \/ db' = [db EXCEPT ![k] = Append(@, User(nextId))] /\ UNCHANGED unstored
       \/ unstored' = [unstored EXCEPT ![k] = @ \cup {nextId}] /\ UNCHANGED db
    /\ live' = live \cup {k}
    /\ Note(k, "moved", at = "recent" /\ cur = k)
    /\ UNCHANGED jobVars

\* Step 13b, or a failed agent run or Append.
Answer(k) ==
    /\ open[k] # 0
    /\ open' = [open EXCEPT ![k] = 0]
    /\ \/ db' = [db EXCEPT ![k] = Append(@, Assistant(open[k]))] /\ UNCHANGED caveats
       \/ Note(k, "unanswered", TRUE) /\ UNCHANGED db
    /\ UNCHANGED <<live, nextId, jobVars, unstored>>

\* HistoryStore.Purge.
Purge(k) == db' = [db EXCEPT ![k] = <<>>]

\* /new, which does not take the lane.
Reset(k) ==
    /\ k \in live
    /\ Purge(k)
    /\ live' = live \ {k}
    /\ Note(k, "reset", TRUE)
    /\ UNCHANGED <<open, nextId, jobVars, unstored>>

Prune(k) ==
    /\ k \in live
    /\ live' = live \ {k}
    /\ UNCHANGED <<db, open, nextId, jobVars, caveats, unstored>>

-----------------------------------------------------------------------------
\* The job.

\* The job loses its lastLen of the sessions in ks.
Forget(ks) ==
    /\ lastLen' = [k \in Key |-> IF k \in ks THEN 0 ELSE lastLen[k]]
    /\ caveats' = [k \in Key |-> IF k \in ks /\ lastLen[k] > 0
                                THEN caveats[k] \cup {"forgotten"} ELSE caveats[k]]

\* Run: collect the sessions, evict lastLen of the others.
JobTick ==
    /\ at = "idle"
    /\ ticks < MaxTicks
    /\ ticks' = ticks + 1
    /\ Forget(Key \ live)
    /\ todo' = live
    /\ at' = "loop"
    /\ UNCHANGED <<db, live, open, nextId, cur, seen, msgs, errors, extracted, unstored>>

\* schedulerModule.Reload, after the old scheduler's jobs have returned: the
\* new scheduler has a new job, whose lastLen is empty.
JobReplaced ==
    /\ at = "idle"
    /\ Forget(Key)
    /\ UNCHANGED <<db, live, open, nextId, at, todo, cur, seen, msgs, errors, ticks, extracted,
                   unstored>>

\* The loop over the sessions ends, stops after too many errors, or is
\* cancelled by Scheduler.Stop.
TickEnd ==
    /\ at = "loop"
    /\ at' = "idle"
    /\ todo' = {}
    /\ errors' = 0
    /\ UNCHANGED <<db, live, open, nextId, lastLen, cur, seen, msgs, ticks,
                   extracted, caveats, unstored>>

\* extractSession: History.Len, and nothing to do when it did not grow.
ReadLen(k) ==
    /\ at = "loop"
    /\ errors < MaxErrors
    /\ k \in todo
    /\ todo' = todo \ {k}
    /\ \/ /\ Len(db[k]) <= lastLen[k]
          /\ errors' = 0
          /\ UNCHANGED <<at, cur, seen, caveats>>
       \/ /\ Len(db[k]) > lastLen[k]
          /\ cur' = k
          /\ seen' = Len(db[k])
          /\ at' = "recent"
          /\ Note(k, "moved", open[k] # 0)
          /\ UNCHANGED errors
       \/ /\ errors' = errors + 1
          /\ UNCHANGED <<at, cur, seen, caveats>>
    /\ UNCHANGED <<db, live, open, nextId, lastLen, msgs, ticks, extracted, unstored>>

\* Mutant: one message too few.
GetFewer(k, n) == SubSeq(db[k], IF n < Len(db[k]) THEN Len(db[k]) - n + 2 ELSE 2, Len(db[k]))

\* The last n messages of a session.
GetRecent(k, n) == SubSeq(db[k], IF n < Len(db[k]) THEN Len(db[k]) - n + 1 ELSE 1, Len(db[k]))

\* History.GetRecent(sessionID, newCount), a second query.
ReadRecent ==
    /\ at = "recent"
    /\ \/ /\ msgs' = GetRecent(cur, seen - lastLen[cur])
          /\ at' = "pairs"
          /\ UNCHANGED errors
       \/ /\ at' = "loop"
          /\ errors' = errors + 1
          /\ UNCHANGED msgs
    /\ UNCHANGED <<db, live, open, nextId, lastLen, todo, cur, seen, ticks, extracted, caveats,
                   unstored>>

IsExchange(u, a) == u.role = "user" /\ a.role = "assistant"

\* Extractor.Extract is given an exchange.
Extract(u, a) == extracted' = [extracted EXCEPT ![cur] = Append(@, <<u, a>>)]

\* One round of the pairing loop: extract or skip two messages.  A failure
\* comes before the extraction or, from Store.Index, after it.
Pair ==
    /\ at = "pairs"
    /\ Len(msgs) >= 2
    /\ \/ /\ ~IsExchange(msgs[1], msgs[2])
          /\ msgs' = SubSeq(msgs, 3, Len(msgs))
          /\ UNCHANGED <<at, errors, extracted, caveats>>
       \/ /\ IsExchange(msgs[1], msgs[2])
          /\ Extract(msgs[1], msgs[2])
          /\ msgs' = SubSeq(msgs, 3, Len(msgs))
          /\ UNCHANGED <<at, errors, caveats>>
       \/ /\ IsExchange(msgs[1], msgs[2])
          /\ Note(cur, "failed", TRUE)
          /\ errors' = errors + 1
          /\ at' = "loop"
          /\ msgs' = <<>>
          /\ \/ UNCHANGED extracted
             \/ Extract(msgs[1], msgs[2])
    /\ UNCHANGED <<db, live, open, nextId, lastLen, todo, cur, seen, ticks, unstored>>

\* Mutant: the session's count is not recorded.
DoneUncounted ==
    /\ at = "pairs"
    /\ Len(msgs) < 2
    /\ errors' = 0
    /\ msgs' = <<>>
    /\ at' = "loop"
    /\ UNCHANGED <<db, live, open, nextId, lastLen, todo, cur, seen, ticks, extracted, caveats,
                   unstored>>

\* The session is done: everything Len counted is taken as processed.
Done ==
    /\ at = "pairs"
    /\ Len(msgs) < 2
    /\ lastLen' = [lastLen EXCEPT ![cur] = seen]
    /\ errors' = 0
    /\ msgs' = <<>>
    /\ at' = "loop"
    /\ UNCHANGED <<db, live, open, nextId, todo, cur, seen, ticks, extracted, caveats, unstored>>

\* The bounds on messages and ticks are reached.
Quiescent ==
    /\ at = "idle" /\ ticks = MaxTicks
    /\ nextId > MaxMsgs /\ \A k \in Key : open[k] = 0
    /\ UNCHANGED extractionVars

ExtractionNext ==
    \/ \E k \in Key : PersistUser(k) \/ Answer(k) \/ Reset(k) \/ Prune(k) \/ ReadLen(k)
    \/ JobTick \/ JobReplaced \/ TickEnd \/ ReadRecent \/ Pair \/ Done
    \/ Quiescent

ExtractionSpec == ExtractionInit /\ [][ExtractionNext]_extractionVars

-----------------------------------------------------------------------------
Ids == 1 .. MaxMsgs
Entry == [role : {"user", "assistant"}, id : Ids]

ExtractionTypeOK ==
    /\ db \in [Key -> Seq(Entry)]
    /\ live \subseteq Key
    /\ open \in [Key -> Ids \cup {0}]
    /\ nextId \in 1 .. MaxMsgs + 1
    /\ lastLen \in [Key -> Nat]
    /\ at \in {"idle", "loop", "recent", "pairs"}
    /\ todo \subseteq Key
    /\ cur \in Key \cup {NoKey}
    /\ seen \in Nat
    /\ msgs \in Seq(Entry)
    /\ errors \in 0 .. MaxErrors
    /\ ticks \in 0 .. MaxTicks
    /\ extracted \in [Key -> Seq(Entry \X Entry)]
    /\ caveats \in [Key -> SUBSET Caveats]
    /\ unstored \in [Key -> SUBSET Ids]

\* Facts are only drawn from a message and its own answer, however the job's
\* two queries interleave with the writes, /new and the pruner; but the answer
\* to a message that could not be stored (pipeline.go: "write-behind, non-fatal")
\* may be paired with the message before it, when that one was never answered.
OnlyRealExchanges ==
    \A k \in Key : \A n \in DOMAIN extracted[k] :
        \/ extracted[k][n][1].id = extracted[k][n][2].id
        \/ extracted[k][n][2].id \in unstored[k]

\* No exchange gives its facts twice (jobs.go: lastLen is there "so that only
\* new messages are extracted on each tick"), when no message of the session was
\* in progress under the job, no extraction broke off and lastLen was kept.
\* Failed queries, unstored and unanswered messages, /new and cancelled ticks do
\* no harm.
ExtractedOnce ==
    \A k \in Key : caveats[k] \cap {"moved", "failed", "forgotten"} = {} =>
        \A m, n \in DOMAIN extracted[k] : extracted[k][m] = extracted[k][n] => m = n

\* ExtractionSound: both hold, facts are neither made up nor drawn twice, up to
\* what the two name.
ExtractionSound == OnlyRealExchanges /\ ExtractedOnce

\* The stored, answered messages of session k.
Exchanges(k) == {i \in Ids : \E n \in 1 .. Len(db[k]) - 1 :
                                db[k][n] = User(i) /\ db[k][n + 1] = Assistant(i)}

\* When a live session has nothing new for the job, each of its exchanges has
\* been extracted (jobs.go: the job "pairs new user+assistant messages into
\* Exchanges, extracts facts via the Extractor"), when no message of the session
\* was in progress under the job, all were stored and answered and /new did not
\* shorten the history: a message or an answer missing from the history puts the
\* pairing, two messages at a time, out of phase.  Failures, evictions, reloads and cancelled ticks do no harm.
NoneMissed ==
    \A k \in live :
        /\ at = "idle" /\ Len(db[k]) <= lastLen[k]
        /\ caveats[k] \cap {"moved", "unanswered", "reset"} = {} /\ unstored[k] = {}
        => \A i \in Exchanges(k) : \E n \in DOMAIN extracted[k] : extracted[k][n][1].id = i
=============================================================================
