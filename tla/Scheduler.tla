----------------------------- MODULE Scheduler -----------------------------
(***************************************************************************)
(* internal/cron/scheduler.go and trigger.go under the hot reload of       *)
(* schedulerModule.Reload (pkg/app/wire.go), which replaces the scheduler  *)
(* by a new one.  A scheduler is a heap object with its own mutex and its  *)
(* own lock for each job; one job stands for all of them, since a job has  *)
(* a lock of its own.  Reloads come from the main loop (SIGHUP, file       *)
(* watcher), from gateway handlers and from cron and config tools, also    *)
(* those an agent calls inside a prompt cron.  The new scheduler is built  *)
(* from the files that are there at the time.                              *)
(***************************************************************************)
EXTENDS PromptCrons, FiniteSets

CONSTANTS
    Sched,     \* addresses of Scheduler objects
    Reloader,  \* goroutines that call Handler.HandleReload
    Run,       \* goroutines that run the job
    Scenario,  \* bounds: how many tool calls, and whether reloads may overlap
    Nil

ASSUME SchedulerAssumption ==
    /\ Caller = Reloader \cup Run
    /\ Sched # {} /\ Nil \notin Sched \cup Reloader \cup Run
    /\ Reloader \cap Run = {}
    /\ Scenario \subseteq [calls : Nat, overlaps : BOOLEAN]

Actor == Reloader \cup Run

VARIABLES
    current,  \* schedulerModule.scheduler
    ticking,  \* the Schedulers whose cron is started and not stopped
    mu,       \* Scheduler.mu: [Sched -> Actor or Nil]
    lock,     \* Scheduler.locks of the job: [Sched -> Run or Nil]
    run,      \* [Run -> "free", "scheduled" or "manual"]
    jobs,     \* Scheduler.jobs: the prompt crons it was built from
    trigger,  \* Trigger.jobs: the prompt crons a manual run finds
    of,       \* the scheduler that fired a run: [Run -> Sched or Nil]
    pc,       \* where each actor is in Reload
    old,      \* the scheduler its Reload stops
    fresh,    \* the scheduler its Reload started
    agents,   \* the configuration last loaded has an agents section
    overlaps, \* bound: reloads may overlap
    overlap,  \* history variable: two calls of Reload were in progress at once
    failed    \* history variable: the last Reload with agents to return found an error

vars == <<current, ticking, mu, lock, run, jobs, trigger, of, pc, old, fresh, agents, overlaps, overlap, failed,
          cronvars>>

Points == {"idle", "stop", "wait", "build", "publish"}

\* Trigger.Register, for each job wireCron builds.
Registered == DOMAIN ScanPromptCrons

\* wireCron built the first scheduler, from the files that were there, and
\* App.Start started it.  Without an agents section there is no registry, and
\* nobody reads the files.
Init ==
    /\ agents \in BOOLEAN
    /\ \E b \in Scenario : CronsInit(b.calls) /\ overlaps = b.overlaps
    /\ current = CHOOSE s \in Sched : TRUE
    /\ ticking = {current}
    /\ mu = [s \in Sched |-> Nil]
    /\ lock = [s \in Sched |-> Nil]
    /\ jobs = [s \in Sched |-> IF s = current /\ agents THEN ScanPromptCrons ELSE <<>>]
    /\ trigger = IF agents THEN Registered ELSE {}
    /\ run = [j \in Run |-> "free"]
    /\ of = [j \in Run |-> Nil]
    /\ pc = [a \in Actor |-> "idle"]
    /\ old = [a \in Actor |-> Nil]
    /\ fresh = [a \in Actor |-> Nil]
    /\ overlap = FALSE
    /\ failed = FALSE

\* The call of Reload returns, and the tool that made it, if any.
Return(a) ==
    /\ ToolReturns(a)
    /\ UNCHANGED <<crons, calls>>
    /\ pc' = [pc EXCEPT ![a] = "idle"]
    /\ old' = [old EXCEPT ![a] = Nil]
    /\ fresh' = [fresh EXCEPT ![a] = Nil]

-----------------------------------------------------------------------------
\* Running the job.

\* A tick of scheduler s.  A tick that finds the job's lock taken is skipped.
Tick(s, j) ==
    /\ s \in ticking
    /\ run[j] = "free"
    /\ lock[s] = Nil
    /\ lock' = [lock EXCEPT ![s] = j]
    /\ run' = [run EXCEPT ![j] = "scheduled"]
    /\ of' = [of EXCEPT ![j] = s]
    /\ UNCHANGED <<current, ticking, mu, pc, old, fresh, trigger, agents, overlaps, overlap, failed, jobs, cronvars>>

\* POST /api/crons/{name}/trigger: Trigger.Trigger runs the job directly.  It
\* finds those that wireCron registered, and Reload registers none.
TriggerRun(j) ==
    /\ trigger # {}
    /\ run[j] = "free"
    /\ run' = [run EXCEPT ![j] = "manual"]
    /\ UNCHANGED <<current, ticking, mu, lock, of, pc, old, fresh, trigger, agents, overlaps, overlap, failed, jobs, cronvars>>

\* The job returns, once the tools it called have; the deferred Unlock.
Finish(j) ==
    /\ run[j] # "free"
    /\ pc[j] = "idle" /\ call[j].pc = "none"
    /\ run' = [run EXCEPT ![j] = "free"]
    /\ lock' = IF of[j] = Nil THEN lock ELSE [lock EXCEPT ![of[j]] = Nil]
    /\ of' = [of EXCEPT ![j] = Nil]
    /\ UNCHANGED <<current, ticking, mu, pc, old, fresh, trigger, agents, overlaps, overlap, failed, jobs, cronvars>>

-----------------------------------------------------------------------------
\* The tools of internal/tool/crontool, in a job or elsewhere.
Busy(a) == pc[a] # "idle" \/ (a \in Run /\ run[a] = "free")

CallTool(a, n) ==
    /\ ~Busy(a)
    /\ \/ \E d \in Creates : Create(a, n, d)
       \/ \E u \in Updates : Update(a, n, u)
       \/ Delete(a, n)
    /\ UNCHANGED <<current, ticking, mu, lock, run, jobs, of, pc, old, fresh, trigger, agents, overlaps, overlap, failed>>

UseTool(a) ==
    /\ ToolWrites(a)
    /\ UNCHANGED <<current, ticking, mu, lock, run, jobs, of, pc, old, fresh, trigger, agents, overlaps, overlap, failed>>

-----------------------------------------------------------------------------
\* schedulerModule.Reload, with the configuration already loaded and parsed.

BeginReload ==
    /\ overlap' = (overlap \/ \E b \in Actor : pc[b] # "idle")
    /\ overlap' => overlaps
    /\ UNCHANGED <<trigger, overlaps>>

\* A configuration that does not load ends the tool's reload before that.
Refused(a) ==
    /\ pc[a] = "idle" /\ call[a].pc = "reload"
    /\ Return(a)
    /\ failed' = TRUE
    /\ BeginReload
    /\ UNCHANGED <<current, ticking, mu, lock, run, jobs, of, agents>>

\* AgentConfigs() == nil: Reload does nothing, and reports no error.
NoAgents(a) ==
    /\ ~Busy(a) /\ call[a].pc \in {"none", "reload"}
    /\ agents' = FALSE
    /\ Return(a)
    /\ BeginReload
    /\ UNCHANGED <<current, ticking, mu, lock, run, jobs, of, failed>>

\* m.scheduler is read for the call of Stop.
Begin(a) ==
    /\ ~Busy(a) /\ call[a].pc \in {"none", "reload"}
    /\ agents' = TRUE
    /\ old' = [old EXCEPT ![a] = current]
    /\ pc' = [pc EXCEPT ![a] = "stop"]
    /\ BeginReload
    /\ UNCHANGED <<current, ticking, mu, lock, run, of, fresh, failed, jobs, cronvars>>

\* Mutant: Stop leaves the cron ticking.
StopBeginKeepsTicking(a) ==
    /\ pc[a] = "stop"
    /\ mu[old[a]] = Nil
    /\ mu' = [mu EXCEPT ![old[a]] = a]
    /\ pc' = [pc EXCEPT ![a] = "wait"]
    /\ UNCHANGED <<current, ticking, lock, run, of, old, fresh, trigger, agents, overlaps, overlap, failed, jobs, cronvars>>

\* Scheduler.Stop takes mu, cancels the jobs' context and stops the cron.
StopBegin(a) ==
    /\ pc[a] = "stop"
    /\ mu[old[a]] = Nil
    /\ mu' = [mu EXCEPT ![old[a]] = a]
    /\ ticking' = ticking \ {old[a]}
    /\ pc' = [pc EXCEPT ![a] = "wait"]
    /\ UNCHANGED <<current, lock, run, of, old, fresh, trigger, agents, overlaps, overlap, failed, jobs, cronvars>>

\* Mutant: Stop does not wait for in-flight jobs.
StopEndAtOnce(a) ==
    /\ pc[a] = "wait"
    /\ mu' = [mu EXCEPT ![old[a]] = Nil]
    /\ pc' = [pc EXCEPT ![a] = "build"]
    /\ UNCHANGED <<current, ticking, lock, run, of, old, fresh, trigger, agents, overlaps, overlap, failed, jobs, cronvars>>

\* <-cron.Stop().Done(): all runs this scheduler started have returned.  The
\* context Stop is given, with its timeout, is ignored.
StopEnd(a) ==
    /\ pc[a] = "wait"
    /\ \A j \in Run : of[j] # old[a]
    /\ mu' = [mu EXCEPT ![old[a]] = Nil]
    /\ pc' = [pc EXCEPT ![a] = "build"]
    /\ UNCHANGED <<current, ticking, lock, run, of, old, fresh, trigger, agents, overlaps, overlap, failed, jobs, cronvars>>

\* Addresses that nothing holds or runs on are free again; which one of them the
\* next scheduler gets makes no difference.
Unreachable(s) ==
    /\ current # s
    /\ s \notin ticking
    /\ \A a \in Actor : old[a] # s /\ fresh[a] # s
    /\ \A j \in Run : of[j] # s

\* A new scheduler is filled and started, or a schedule that does not parse,
\* in a file or in the configuration, ends Reload with an error.
Build(a) ==
    /\ pc[a] = "build"
    /\ \/ LET s == CHOOSE s \in Sched : Unreachable(s)
          IN /\ \E t \in Sched : Unreachable(t)
             /\ Parses(ScanPromptCrons)
             /\ jobs' = [jobs EXCEPT ![s] = ScanPromptCrons]
             /\ ticking' = ticking \cup {s}
             /\ lock' = [lock EXCEPT ![s] = Nil]
             /\ fresh' = [fresh EXCEPT ![a] = s]
             /\ pc' = [pc EXCEPT ![a] = "publish"]
             /\ UNCHANGED <<old, failed, cronvars>>
       \/ /\ Return(a)
          /\ failed' = TRUE
          /\ UNCHANGED <<ticking, lock, jobs>>
    /\ UNCHANGED <<current, mu, run, of, trigger, agents, overlaps, overlap>>

\* m.scheduler = newScheduler, and Reload returns.  The old one is garbage.
Publish(a) ==
    /\ pc[a] = "publish"
    /\ current' = fresh[a]
    /\ jobs' = [jobs EXCEPT ![current] = <<>>]
    /\ Return(a)
    /\ failed' = FALSE
    /\ UNCHANGED <<ticking, mu, lock, run, of, trigger, agents, overlaps, overlap>>

Reload(a) == StopBegin(a) \/ StopEnd(a) \/ Build(a) \/ Publish(a)

Next ==
    \/ \E s \in Sched, j \in Run : Tick(s, j)
    \/ \E j \in Run : TriggerRun(j) \/ Finish(j)
    \/ \E a \in Actor : Begin(a) \/ Reload(a) \/ UseTool(a) \/ Refused(a) \/ NoAgents(a)
    \/ \E a \in Actor, n \in Cron : CallTool(a, n)

Spec == Init /\ [][Next]_vars

\* Goroutines keep running, and a job whose tools have returned ends: its
\* agent loop has a timeout.
Fairness ==
    /\ \A j \in Run : WF_vars(Finish(j))
    /\ \A a \in Actor : SF_vars(StopBegin(a)) /\ WF_vars(Reload(a))
    /\ \A a \in Actor : WF_vars(UseTool(a)) /\ WF_vars(call[a].pc = "reload" /\ (Begin(a) \/ NoAgents(a)))

FairSpec == Spec /\ Fairness

-----------------------------------------------------------------------------
TypeOK ==
    /\ current \in Sched
    /\ ticking \subseteq Sched
    /\ mu \in [Sched -> Actor \cup {Nil}]
    /\ lock \in [Sched -> Run \cup {Nil}]
    /\ run \in [Run -> {"free", "scheduled", "manual"}]
    /\ of \in [Run -> Sched \cup {Nil}]
    /\ pc \in [Actor -> Points]
    /\ old \in [Actor -> Sched \cup {Nil}]
    /\ fresh \in [Actor -> Sched \cup {Nil}]
    /\ {agents, overlap, failed} \subseteq BOOLEAN

\* Scheduled runs of a job never overlap, across reloads too, although each
\* scheduler has locks of its own (docs/concepts/prompt-crons.mdx: "A per-job
\* mutex prevents parallel execution of the same cron").
NoParallelRuns ==
    \A i, j \in Run :
        ~overlap /\ run[i] = "scheduled" /\ run[j] = "scheduled" => i = j

\* Scheduler s has the job that the file of cron n defines, if it defines one; a
\* tool that failed to write the file has left it truncated.
Served(s, n) ==
    \/ crons[n] = Truncated
    \/ Loads(n) /\ n \in DOMAIN jobs[s] /\ jobs[s][n] = crons[n]
    \/ ~Loads(n) /\ n \notin DOMAIN jobs[s]

\* No reload or cron tool is under way.
Settled == \A a \in Actor : pc[a] = "idle" /\ call[a].pc = "none"

\* With no reload or cron tool under way and the last reload not failed, the
\* scheduler runs and, if the configuration has agents, its jobs are those the
\* files define: however tools and reloads interleave, what a tool wrote is not
\* left behind until the next reload, and a good reload repairs what a failed one
\* has left.
JobsScheduled ==
    ~overlap /\ ~failed /\ Settled =>
        /\ current \in ticking
        /\ agents => \A n \in Cron : Served(current, n)

\* A scheduled run whose tool reloads, and so waits for its own scheduler.
Nested == \E j \in Run : of[j] # Nil /\ (pc[j] # "idle" \/ call[j].pc # "none")

\* A reload ends, whatever other reloads, manual runs and failures do, unless a
\* scheduled run has called one (Scheduler.Stop waits for jobs while it holds mu).
ReloadReturns == \A a \in Actor : pc[a] = "stop" ~> pc[a] = "idle" \/ Nested
=============================================================================
