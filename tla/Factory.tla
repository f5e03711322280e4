------------------------------- MODULE Factory -------------------------------
(***************************************************************************)
(* internal/multiagent/factory.go and registry.go, internal/mcp/resolver.go*)
(* and the router module of pkg/app/wire.go: how a message or a cron job   *)
(* gets its agent, and the caches of what belongs to an agent (memory      *)
(* stores, prompt loaders, MCP tools) while the configuration is edited    *)
(* and reloaded and while turns spawn sub-agents.                          *)
(***************************************************************************)
EXTENDS ConfigFile, SubAgents, Sequences

CONSTANTS
    Session,     \* chat sessions
    Msg,         \* session -> the user, thread, chat and channel of its messages
    AgentOrder,  \* the agents, sorted by name
    Served,      \* data directories whose mcp.json gives tools
    Budgets,     \* bound: what each initial state lets happen, and how often
    Absent       \* nothing is cached

ASSUME FactoryAssumption ==
    /\ {AgentOrder[i] : i \in DOMAIN AgentOrder} = Agent
    /\ Absent \notin {"", "nil"}

VARIABLES
    worker,   \* session -> where its worker is, and the data directory it read
    agentOf,  \* session -> Session.AgentID
    stores,   \* Factory.stores: agent -> the directory of its open store, "nil"
    souls,    \* Factory.souls: agent -> the directory of its SOUL.md
    mcp,      \* Resolver.agents: agent -> the directory its mcp.json was in
    bound,    \* whose session the sub-agent tools of the shared registry are for
    job,      \* a cron job's turn: where it is, its agent, what it read, its tools
    closed,   \* routerModule.Stop has run
    nilled,   \* history variable: agents whose nil store was cached while they were
              \* unknown or because the database did not open
    late      \* history variable: agents whose MCP tools were resolved from a
              \* directory read before a reload

cachevars == <<stores, souls, mcp, nilled, late>>
factoryvars == <<worker, agentOf, cachevars, bound, job, closed>>
vars == <<configvars, subvars, factoryvars>>

-----------------------------------------------------------------------------
\* registry.go.

\* The first agent, by name, of those that match.
FirstMatch(matching) ==
    LET found == SelectSeq(AgentOrder, LAMBDA a : a \in matching)
    IN  IF found = <<>> THEN "" ELSE Head(found)

\* Registry.Resolve: user, thread, group, channel, default.
Resolve(reg, m) ==
    LET cascade == <<{a \in DOMAIN reg : m.user \in reg[a].users},
                     {a \in DOMAIN reg : m.thread # "" /\ <<m.chat, m.thread>> \in reg[a].threads},
                     {a \in DOMAIN reg : m.chat \in reg[a].groups},
                     {a \in DOMAIN reg : m.channel \in reg[a].channels},
                     {a \in DOMAIN reg : reg[a].default}>>
        found == SelectSeq(cascade, LAMBDA as : as # {})
    IN  IF found = <<>> THEN "" ELSE FirstMatch(Head(found))

\* What ResolveHistory caches for an agent: a store, or nil.
StoreOf(reg, a) == IF a \in DOMAIN reg /\ reg[a].memory THEN reg[a].dir ELSE "nil"

-----------------------------------------------------------------------------
Idle == [pc |-> "idle", dir |-> "", reg |-> <<>>]
NoJob == [pc |-> "idle", agent |-> "", dir |-> "", reg |-> <<>>, tools |-> Nobody]

Init ==
    /\ ConfigInit
    /\ budget \in Budgets
    /\ SubAgentsInit
    /\ worker = [s \in Session |-> Idle]
    /\ agentOf = [s \in Session |-> ""]
    /\ stores = [a \in Agent |-> Absent]
    /\ souls = [a \in Agent |-> Absent]
    /\ mcp = [a \in Agent |-> Absent]
    /\ bound = Nobody
    /\ job = NoJob
    /\ closed = FALSE
    /\ nilled = {}
    /\ late = {}

At(s, pc) == worker[s].pc = pc
Goto(s, pc) == worker' = [worker EXCEPT ![s].pc = pc]
Done(s) == worker' = [worker EXCEPT ![s] = Idle]

\* ForSession: an agent is chosen once per session and kept, ...
ResolveAgent(s) ==
    /\ At(s, "idle") /\ ~closed
    /\ Spend("messages")
    /\ LET a == IF agentOf[s] # "" THEN agentOf[s] ELSE Resolve(registry, Msg[s])
       IN  /\ agentOf' = [agentOf EXCEPT ![s] = a]
           /\ IF a = "" THEN UNCHANGED worker ELSE Goto(s, "config")
    /\ UNCHANGED <<filevars, reloadvars, missed, subvars, cachevars, bound, job, closed>>

\* ... and looked up in the registry again, which may be another one by now.
AgentConfig(s) ==
    /\ At(s, "config")
    /\ LET a == agentOf[s]
       IN  IF a \in DOMAIN registry
             THEN worker' = [worker EXCEPT ![s] = [pc |-> "tools", dir |-> registry[a].dir,
                                                   reg |-> registry]]
             ELSE Done(s)
    /\ UNCHANGED <<configvars, subvars, agentOf, cachevars, bound, job, closed>>

\* Resolver.ResolveTools with a directory read before, from reg.
CacheTools(a, dir, reg) ==
    /\ mcp' = [mcp EXCEPT ![a] = IF @ = Absent THEN dir ELSE @]
    /\ late' = IF mcp[a] = Absent /\ reg # registry THEN late \cup {a} ELSE late

\* buildToolRegistry filters the shared registry by a tool list, and MCP tools go
\* into a clone of it: a registry of the turn's own.
OwnRegistry(a, reg) == reg[a].list \/ mcp'[a] \in Served

\* In a registry of its own a session registers the sub-agent tools unseen by
\* others.
ResolveTools(s) ==
    /\ At(s, "tools")
    /\ CacheTools(agentOf[s], worker[s].dir, worker[s].reg)
    /\ worker' = [worker EXCEPT ![s].pc = IF bound = Nobody /\ ~OwnRegistry(agentOf[s], worker[s].reg)
                                            THEN "bind" ELSE "history",
                                ![s].dir = "", ![s].reg = <<>>]
    /\ UNCHANGED <<configvars, subvars, agentOf, stores, souls, nilled, bound, job, closed>>

\* Registry.Register refuses a name that is taken.
Duplicate == bound # Nobody

\* subagent.RegisterTools on the shared registry: the tools belong to the first
\* session that registers them; who comes second after the check fails.
RegisterTools(s) ==
    /\ At(s, "bind")
    /\ IF ~Duplicate
         THEN /\ bound' = [parent |-> agentOf[s], session |-> s]
              /\ Goto(s, "history")
         ELSE Done(s) /\ UNCHANGED bound
    /\ UNCHANGED <<configvars, subvars, agentOf, cachevars, job, closed>>

\* ResolveHistory, under f.mu: the registry is read inside the lock.  A nil is
\* cached for a database that does not open, too.
OpenStores(as) ==
    LET new == {a \in as : stores[a] = Absent}
        stored == {a \in new : StoreOf(registry, a) # "nil"}
    IN  \E opened \in SUBSET stored :
            /\ stores' = [a \in Agent |-> IF a \in opened THEN StoreOf(registry, a)
                                          ELSE IF a \in new THEN "nil" ELSE stores[a]]
            /\ nilled' = nilled \cup {a \in new : a \notin DOMAIN registry}
                               \cup (stored \ opened)

ResolveHistory(s) ==
    /\ At(s, "history")
    /\ OpenStores({agentOf[s]})
    /\ Goto(s, "soul")
    /\ UNCHANGED <<configvars, subvars, agentOf, souls, mcp, late, bound, job, closed>>

\* A loader is cached only for an agent the registry knows.
LoadSoul(a) ==
    souls' = IF souls[a] = Absent /\ a \in DOMAIN registry
               THEN [souls EXCEPT ![a] = registry[a].dir] ELSE souls

ResolveSoul(s) ==
    /\ At(s, "soul")
    /\ LoadSoul(agentOf[s])
    /\ Done(s)
    /\ UNCHANGED <<configvars, subvars, agentOf, stores, mcp, nilled, late, bound, job, closed>>

\* /new resolves the history of the agent the session had, known or not, and
\* the session that is left behind has no agent.
NewCommand(s) ==
    /\ At(s, "idle") /\ ~closed /\ agentOf[s] # ""
    /\ Spend("messages")
    /\ OpenStores({agentOf[s]})
    /\ agentOf' = [agentOf EXCEPT ![s] = ""]
    /\ UNCHANGED <<filevars, reloadvars, missed, subvars, worker, souls, mcp, late, bound, job,
                   closed>>

-----------------------------------------------------------------------------
\* The rest of Factory.Reload, after the registry was swapped.

\* The agents that are gone or have another data directory.
Moved(old, new) ==
    {a \in Agent : a \notin DOMAIN new \/ (a \in DOMAIN old /\ old[a].dir # new[a].dir)}

InvalidateAgents(r) ==
    /\ rl[r].pc = "mcp"
    /\ mcp' = [a \in Agent |-> IF a \in Moved(rl[r].old, rl[r].new) \cap DOMAIN rl[r].old
                                 THEN Absent ELSE mcp[a]]
    /\ late' = late \ (Moved(rl[r].old, rl[r].new) \cap DOMAIN rl[r].old)
    /\ rl' = [rl EXCEPT ![r].pc = "caches"]
    /\ UNCHANGED <<filevars, watch, registry, budget, missed, subvars, worker, agentOf, stores,
                   souls, nilled, bound, job, closed>>

\* Mutant: only a new directory drops a store, not a change of memory.enabled.
StaleStoresMoved(old, new) == Moved(old, new)

\* The stores of agents that are gone, moved, or whose memory was switched.
StaleStores(old, new) ==
    Moved(old, new) \cup {a \in DOMAIN old \cap DOMAIN new : old[a].memory # new[a].memory}

InvalidateCaches(r) ==
    /\ rl[r].pc = "caches"
    /\ souls' = [a \in Agent |-> IF a \in Moved(rl[r].old, rl[r].new) THEN Absent ELSE souls[a]]
    /\ stores' = [a \in Agent |-> IF a \in StaleStores(rl[r].old, rl[r].new)
                                    THEN Absent ELSE stores[a]]
    /\ nilled' = nilled \ StaleStores(rl[r].old, rl[r].new)
    /\ rl' = [rl EXCEPT ![r].pc = "jobs"]
    /\ UNCHANGED <<filevars, watch, registry, budget, missed, subvars, worker, agentOf, mcp, late,
                   bound, job, closed>>

\* schedulerModule.Reload, the next module, opens the stores of the agents it
\* was given, by name, up to one whose jobs it cannot register.
Reschedule(r) ==
    /\ rl[r].pc = "jobs"
    /\ \E n \in 0..Len(AgentOrder) :
          OpenStores({AgentOrder[i] : i \in 1..n} \cap DOMAIN rl[r].new)
    /\ Ends(r)
    /\ UNCHANGED <<filevars, watch, registry, budget, missed, subvars, worker, agentOf, souls, mcp,
                   late, bound, job, closed>>

-----------------------------------------------------------------------------
\* ForCronJob: a turn whose policy allows every tool of the shared registry.
StartJob(a) ==
    /\ job.pc = "idle" /\ ~closed
    /\ Spend("jobs")
    /\ job' = IF a \in DOMAIN registry
                THEN [NoJob EXCEPT !.pc = "tools", !.agent = a, !.dir = registry[a].dir,
                                   !.reg = registry]
                ELSE job
    /\ UNCHANGED <<filevars, reloadvars, missed, subvars, worker, agentOf, cachevars, bound,
                   closed>>

\* The job has the sub-agent tools of the shared registry as they are now; those
\* a clone, a list or the job's own filter copied; or none.
Shared == [parent |-> "", session |-> "shared"]

JobResolvesTools ==
    /\ job.pc = "tools"
    /\ CacheTools(job.agent, job.dir, job.reg)
    /\ \E tools \in {bound, Nobody} \cup (IF OwnRegistry(job.agent, job.reg) THEN {} ELSE {Shared}) :
          job' = [NoJob EXCEPT !.pc = "soul", !.agent = job.agent, !.tools = tools]
    /\ UNCHANGED <<configvars, subvars, worker, agentOf, stores, souls, nilled, bound, closed>>

JobResolvesSoul ==
    /\ job.pc = "soul"
    /\ LoadSoul(job.agent)
    /\ job' = [NoJob EXCEPT !.pc = "running", !.tools = job.tools]
    /\ UNCHANGED <<configvars, subvars, worker, agentOf, stores, mcp, nilled, late, bound, closed>>

\* Whose sub-agent tools, of internal/subagent/tools.go, the running job has.
Spawner == IF job.tools = Shared THEN bound ELSE job.tools

JobSpawns(id) ==
    /\ job.pc = "running" /\ Spawner # Nobody
    /\ Spend("spawns")
    /\ Spawn(id, Spawner)
    /\ UNCHANGED <<filevars, reloadvars, missed, factoryvars>>

JobSends(id) ==
    /\ job.pc = "running" /\ Spawner # Nobody
    /\ Send(id)
    /\ UNCHANGED <<configvars, factoryvars>>

JobKills(id) ==
    /\ job.pc = "running" /\ Spawner # Nobody
    /\ Kill(id)
    /\ UNCHANGED <<configvars, factoryvars>>

EndJob ==
    /\ job.pc = "running"
    /\ CallerEnds
    /\ job' = NoJob
    /\ UNCHANGED <<configvars, worker, agentOf, cachevars, bound, closed>>

\* Resolver.Close.
CloseTools == mcp' = [a \in Agent |-> Absent]

\* routerModule.Stop: the workers have drained, the cron jobs of the scheduler
\* that stopped before may still be ending; Shutdown, then Close.
StopRouter ==
    /\ ~closed
    /\ Spend("stops")
    /\ \A s \in Session : At(s, "idle")
    /\ Shutdown
    /\ closed' = TRUE
    /\ CloseTools
    /\ stores' = [a \in Agent |-> Absent]
    /\ nilled' = {}
    /\ late' = {}
    /\ UNCHANGED <<filevars, reloadvars, missed, worker, agentOf, souls, bound, job>>

-----------------------------------------------------------------------------
EditorStep(e) ==
    \/ ConfigGet(e)
    \/ \E op \in Edit : Execute(e, op)
    \/ OpenTmp(e)
    \/ WriteTmp(e)
    \/ WriteFails(e)
    \/ Rename(e)
    \/ RenameFails(e)
    \/ Cleanup(e)

\* A reload once begun.
Reloads(r) ==
    \/ (Load(r) \/ Rebuild(r) \/ ReloadFails(r) \/ Swap(r)) /\ UNCHANGED <<subvars, factoryvars>>
    \/ InvalidateAgents(r)
    \/ InvalidateCaches(r)
    \/ Reschedule(r)

Watches == (Poll \/ TakeEvent) /\ UNCHANGED <<subvars, factoryvars>>

ConfigStep ==
    \/ \E e \in Editor : EditorStep(e)
    \/ \E doc \in Document : Save(doc)
    \/ WatchStart
    \/ \E r \in Reloader : Request(r) \/ ReloadCancelled(r)

SessionStep(s) ==
    \/ ResolveAgent(s)
    \/ AgentConfig(s)
    \/ ResolveTools(s)
    \/ RegisterTools(s)
    \/ ResolveHistory(s)
    \/ ResolveSoul(s)
    \/ NewCommand(s)

Next ==
    \/ ConfigStep /\ UNCHANGED <<subvars, factoryvars>>
    \/ Watches
    \/ \E r \in Reloader : Reloads(r)
    \/ \E s \in Session : SessionStep(s)
    \/ \E a \in Agent : StartJob(a)
    \/ JobResolvesTools
    \/ JobResolvesSoul
    \/ \E id \in SubAgent : JobSpawns(id) \/ JobSends(id) \/ JobKills(id)
    \/ \E id \in SubAgent : SubAgentSteps(id) /\ UNCHANGED <<configvars, factoryvars>>
    \/ EndJob
    \/ StopRouter

\* The poller and the goroutine of the main loop run; other callers of a reload
\* need not come to its end.
Fairness ==
    /\ WF_vars(WatchStart /\ UNCHANGED <<subvars, factoryvars>>)
    /\ WF_vars(Poll /\ UNCHANGED <<subvars, factoryvars>>)
    /\ WF_vars(TakeEvent /\ UNCHANGED <<subvars, factoryvars>>)
    /\ WF_vars(Reloads("main"))
    /\ SubAgentFairness

Spec == Init /\ [][Next]_vars /\ Fairness

-----------------------------------------------------------------------------
\* Reloads that have swapped the registry and not yet dropped the stores (or
\* the MCP clients) their change made stale.
Dropping(pcs, a, changed(_, _)) ==
    \E r \in Reloader : rl[r].pc \in pcs /\ a \in changed(rl[r].old, rl[r].new)

\* StoresCurrent: a cached memory store is the one the registry in use asks for
\* (its directory, or none when memory is off), and so is a cached prompt,
\* however reloads by several goroutines and lookups interleave: what is stale
\* is about to be dropped by a reload in progress.  The exceptions are a nil
\* cached while the agent was unknown, which a reload that adds it keeps, and one
\* for a database that did not open, which is not tried again.
StoresCurrent ==
    \A a \in Agent :
        /\ stores[a] \notin {Absent, StoreOf(registry, a)} =>
               Dropping({"mcp", "caches"}, a, StaleStores) \/ a \in nilled
        /\ souls[a] # Absent /\ ~(a \in DOMAIN registry /\ souls[a] = registry[a].dir) =>
               Dropping({"mcp", "caches"}, a, Moved)

\* ToolsCurrent: MCP tools in the cache come from the directory the registry in
\* use gives the agent, or a reload is about to drop them, unless ForSession
\* resolved them with a directory it had read before a reload.
ToolsCurrent ==
    \A a \in Agent :
        mcp[a] # Absent /\ ~(a \in DOMAIN registry /\ mcp[a] = registry[a].dir) =>
            Dropping({"mcp"}, a, Moved) \/ a \in late

\* CachesCurrent: the stores, prompts and MCP tools Factory and Resolver cache all
\* belong to the registry in use, in the sense of StoresCurrent and ToolsCurrent.
CachesCurrent == StoresCurrent /\ ToolsCurrent
=============================================================================
