----------------------------- MODULE CronProofs -----------------------------
(***************************************************************************)
(* Machine-checked proofs about internal/cron.  Scheduler: across reloads  *)
(* a job does not overlap itself, and what cron tools write is what fires, *)
(* for any number of runs, reloading goroutines, crons and tool calls.     *)
(* FactExtraction: facts are drawn from a message and its own answer, once *)
(* and from all of them, for any sessions, messages and ticks.             *)
(***************************************************************************)
EXTENDS Scheduler, FactExtraction, SequenceTheorems, TLAPS

\* What the variables are, and how runs and locks belong together.
SchedType ==
    /\ current \in Sched /\ ticking \subseteq Sched
    /\ lock \in [Sched -> Run \cup {Nil}]
    /\ run \in [Run -> {"free", "scheduled", "manual"}]
    /\ of \in [Run -> Sched \cup {Nil}]
    /\ pc \in [Actor -> Points]
    /\ old \in [Actor -> Sched \cup {Nil}]
    /\ fresh \in [Actor -> Sched \cup {Nil}]
    /\ DOMAIN jobs = Sched /\ DOMAIN call = Actor
    /\ crons = [n \in Cron |-> crons[n]]
    /\ {agents, overlap, failed} \subseteq BOOLEAN
    /\ \A j \in Run : run[j] = "scheduled" => of[j] # Nil
    /\ \A j \in Run : of[j] # Nil => lock[of[j]] = j /\ run[j] = "scheduled"
    /\ \A a \in Actor : pc[a] = "publish" => fresh[a] \in Sched
    /\ \A a \in Actor : pc[a] # "idle" => call[a].pc \in {"none", "reload"}

\* The scheduler whose job may run while reloads do not overlap: the one the
\* module has, until Reload has started another.
Only(s) == ticking \subseteq {s} /\ \A j \in Run : of[j] \in {s, Nil}

\* Reloads that do not overlap: one actor at a time, and where it is tells which
\* scheduler may tick and run.
ReloadInv ==
    ~overlap =>
      /\ \A a, b \in Actor : pc[a] # "idle" /\ pc[b] # "idle" => a = b
      /\ (\A a \in Actor : pc[a] # "publish") => Only(current)
      /\ \A a \in Actor : /\ pc[a] # "idle" => old[a] = current
                          /\ pc[a] \in {"wait", "build"} => ticking = {}
                          /\ pc[a] = "build" => \A j \in Run : of[j] = Nil
                          /\ pc[a] = "publish" => Only(fresh[a])

\* Caller c has changed a file and its reload has yet to read the files.
Owes(c) == call[c].pc = "reload" /\ pc[c] # "publish"

\* Scheduler s has the jobs of the files.
Serves(s) == \A n \in Cron : Served(s, n)

\* The last reload failed, or another is under way.
Unsettled == failed \/ \E a \in Actor : pc[a] # "idle"

\* The scheduler ticks and, with agents, the jobs of the files are scheduled, or
\* someone is about to see to it.
ScheduleInv ==
    ~overlap =>
      /\ Unsettled \/ current \in ticking
      /\ Unsettled \/ ~agents \/ (\E c \in Actor : Owes(c)) \/ Serves(current)
      /\ \A a \in Actor : pc[a] = "publish" =>
            /\ fresh[a] # current /\ fresh[a] \in ticking
            /\ Serves(fresh[a]) \/ \E c \in Actor : Owes(c)

-----------------------------------------------------------------------------
\* What the steps do to the files and the calls of tools.

\* A call of a tool and what it does leave the others alone, and a file that it
\* has changed is truncated until the tool reloads.
LEMMA ToolSteps ==
    ASSUME SchedType, NEW a \in Actor,
           (\E n \in Cron : CallTool(a, n)) \/ UseTool(a)
    PROVE  /\ UNCHANGED <<current, ticking, lock, run, jobs, of, pc, old, fresh, agents, overlap, failed>>
           /\ DOMAIN call' = Actor /\ pc[a] = "idle" /\ call[a].pc # "reload"
           /\ \A b \in Actor : b # a => call'[b] = call[b]
           /\ crons' = [n \in Cron |-> crons'[n]]
           /\ call'[a].pc = "reload" \/ \A n \in Cron : crons'[n] \in {crons[n], Truncated}
<1>1. UNCHANGED <<current, ticking, lock, run, jobs, of, pc, old, fresh, agents, overlap, failed>>
  BY DEF CallTool, UseTool
<1>2. CASE \E n \in Cron : CallTool(a, n)
  <2>1. \E n, p, def : ~Busy(a) /\ p \in {"open", "remove"} /\ Call(a, n, p, def)
    BY <1>2 DEF CallTool, Create, Update, Delete
  <2> PICK n, p, def : ~Busy(a) /\ p \in {"open", "remove"} /\ Call(a, n, p, def)
    BY <2>1
  <2>2. /\ call[a].pc = "none" /\ call' = [call EXCEPT ![a] = [pc |-> p, name |-> n, def |-> def]] /\ crons' = crons
        /\ pc[a] = "idle"
    BY DEF Call, Busy
  <2> QED BY <1>1, <2>2 DEF SchedType
<1>3. CASE UseTool(a)
  <2>1. /\ call[a].pc \in {"open", "write", "remove"}
        /\ \E n, def, c : /\ crons' = [crons EXCEPT ![n] = def] /\ call' = [call EXCEPT ![a] = c]
                          /\ c.pc = "reload" \/ def \in {crons[n], Truncated}
    <3>1. CASE OpenFile(a)
      <4> DEFINE n0 == call[a].name
                 c0 == [call[a] EXCEPT !.pc = "write"]
      <4>1. /\ call[a].pc = "open" /\ crons' = [crons EXCEPT ![n0] = Truncated]
            /\ call' = [call EXCEPT ![a] = c0]
        BY <3>1 DEF OpenFile, SchedType
      <4> HIDE DEF n0, c0
      <4> QED BY <4>1
    <3>2. CASE WriteFile(a)
      <4> DEFINE n0 == call[a].name
                 d0 == IF crons[n0] = Absent THEN crons[n0] ELSE call[a].def
                 c0 == [NoCall EXCEPT !.pc = "reload"]
      <4>1. call[a].pc = "write" /\ crons' = [crons EXCEPT ![n0] = d0] /\ call' = [call EXCEPT ![a] = c0]
        BY <3>2 DEF WriteFile, SchedType
      <4>2. c0.pc = "reload"
        BY DEF NoCall
      <4> HIDE DEF n0, d0, c0
      <4> QED BY <4>1, <4>2
    <3>3. CASE RemoveFile(a)
      <4> DEFINE n0 == call[a].name
                 c0 == [NoCall EXCEPT !.pc = "reload"]
      <4>1. /\ call[a].pc = "remove" /\ crons' = [crons EXCEPT ![n0] = Absent]
            /\ call' = [call EXCEPT ![a] = c0]
        BY <3>3 DEF RemoveFile
      <4>2. c0.pc = "reload"
        BY DEF NoCall
      <4> HIDE DEF n0, c0
      <4> QED BY <4>1, <4>2
    <3>4. CASE FileFails(a)
      <4> DEFINE n0 == call[a].name
      <4>1. /\ call[a].pc \in {"open", "write", "remove"} /\ crons' = crons
            /\ call' = [call EXCEPT ![a] = NoCall]
        BY <3>4 DEF FileFails
      <4>2. crons = [crons EXCEPT ![n0] = crons[n0]]
        BY DEF SchedType
      <4> HIDE DEF n0
      <4> QED BY <4>1, <4>2
    <3> QED BY <1>3, <3>1, <3>2, <3>3, <3>4 DEF UseTool, ToolWrites
  <2> PICK n, def, c : /\ crons' = [crons EXCEPT ![n] = def] /\ call' = [call EXCEPT ![a] = c]
                       /\ c.pc = "reload" \/ def \in {crons[n], Truncated}
    BY <2>1
  <2>2. pc[a] = "idle"
    BY <2>1 DEF SchedType
  <2>3. /\ DOMAIN call' = Actor /\ call'[a] = c
        /\ \A b \in Actor : b # a => call'[b] = call[b]
    BY DEF SchedType
  <2>4. crons' = [m \in Cron |-> crons'[m]]
    BY DEF SchedType
  <2>5. ASSUME NEW m \in Cron, m # n PROVE crons'[m] = crons[m]
    BY <2>5 DEF SchedType
  <2>6. n \in Cron => crons'[n] = def
    BY DEF SchedType
  <2>7. call'[a].pc = "reload" \/ \A m \in Cron : crons'[m] \in {crons[m], Truncated}
    <3> SUFFICES ASSUME c.pc # "reload", NEW m \in Cron PROVE crons'[m] \in {crons[m], Truncated}
      BY <2>3
    <3>1. CASE m = n
      BY <2>6, <3>1
    <3>2. CASE m # n
      BY <2>5, <3>2
    <3> QED BY <3>1, <3>2
  <2> QED BY <1>1, <2>1, <2>2, <2>3, <2>4, <2>7
<1> QED BY <1>2, <1>3

\* Reload returns with its tool: what that leaves of them.
LEMMA ReturnOf ==
    ASSUME SchedType, NEW a \in Actor, Return(a)
    PROVE  /\ crons' = crons /\ DOMAIN call' = Actor /\ call'[a].pc = "none"
           /\ \A b \in Actor : b # a => call'[b] = call[b] /\ pc'[b] = pc[b] /\ old'[b] = old[b] /\ fresh'[b] = fresh[b]
           /\ pc'[a] = "idle" /\ pc' \in [Actor -> Points]
           /\ old' \in [Actor -> Sched \cup {Nil}] /\ fresh' \in [Actor -> Sched \cup {Nil}]
<1>1. /\ call' = [call EXCEPT ![a] = NoCall] /\ crons' = crons /\ pc' = [pc EXCEPT ![a] = "idle"]
      /\ old' = [old EXCEPT ![a] = Nil] /\ fresh' = [fresh EXCEPT ![a] = Nil]
  BY DEF Return, ToolReturns
<1>2. NoCall.pc = "none"
  BY DEF NoCall
<1> QED BY <1>1, <1>2 DEF SchedType, Points

\* SchedType, through every step.
LEMMA NextSchedType == SchedType /\ [Next]_vars => SchedType'
<1> SUFFICES ASSUME SchedType, [Next]_vars PROVE SchedType'
  OBVIOUS
<1> USE DEF SchedType, Points
<1>0. Actor = Reloader \cup Run /\ Nil \notin Sched /\ Nil \notin Run
  BY SchedulerAssumption DEF Actor
<1>1. CASE UNCHANGED vars
  BY <1>1 DEF vars, cronvars
<1>2. ASSUME NEW s \in Sched, NEW j \in Run, Tick(s, j) PROVE SchedType'
  <2>1. /\ run[j] = "free" /\ lock[s] = Nil /\ lock' = [lock EXCEPT ![s] = j]
        /\ run' = [run EXCEPT ![j] = "scheduled"] /\ of' = [of EXCEPT ![j] = s]
        /\ UNCHANGED <<current, ticking, pc, old, fresh, jobs, call, crons, agents, overlap, failed>>
    BY <1>2 DEF Tick, cronvars
  <2>2. ASSUME NEW i \in Run, of'[i] # Nil PROVE lock'[of'[i]] = i /\ run'[i] = "scheduled"
    <3>1. CASE i = j
      BY <2>1, <3>1
    <3>2. CASE i # j
      <4>1. of'[i] = of[i] /\ run'[i] = run[i] /\ lock[of[i]] = i
        BY <2>1, <2>2, <3>2
      <4>2. of[i] # s /\ of[i] \in Sched
        BY <1>0, <2>1, <2>2, <4>1
      <4> QED BY <2>1, <2>2, <4>1, <4>2
    <3> QED BY <3>1, <3>2
  <2>3. \A i \in Run : run'[i] = "scheduled" => of'[i] # Nil
    BY <1>0, <2>1
  <2>4. lock' \in [Sched -> Run \cup {Nil}] /\ run' \in [Run -> {"free", "scheduled", "manual"}] /\ of' \in [Run -> Sched \cup {Nil}]
    BY <2>1
  <2> QED BY <2>1, <2>2, <2>3, <2>4
<1>3. ASSUME NEW j \in Run, TriggerRun(j) PROVE SchedType'
  <2>1. /\ run[j] = "free" /\ run' = [run EXCEPT ![j] = "manual"]
        /\ UNCHANGED <<current, ticking, lock, of, pc, old, fresh, jobs, call, crons, agents, overlap, failed>>
    BY <1>3 DEF TriggerRun, cronvars
  <2>2. \A i \in Run : run'[i] = IF i = j THEN "manual" ELSE run[i]
    BY <2>1
  <2>3. run' \in [Run -> {"free", "scheduled", "manual"}]
    BY <2>1
  <2>4. of[j] = Nil
    BY <2>1
  <2> QED BY <2>1, <2>2, <2>3, <2>4
<1>4. ASSUME NEW j \in Run, Finish(j) PROVE SchedType'
  <2>1. /\ run' = [run EXCEPT ![j] = "free"] /\ of' = [of EXCEPT ![j] = Nil]
        /\ lock' = IF of[j] = Nil THEN lock ELSE [lock EXCEPT ![of[j]] = Nil]
        /\ UNCHANGED <<current, ticking, pc, old, fresh, jobs, call, crons, agents, overlap, failed>>
    BY <1>4 DEF Finish, cronvars
  <2>2. ASSUME NEW i \in Run, of'[i] # Nil PROVE lock'[of'[i]] = i /\ run'[i] = "scheduled"
    <3>1. i # j /\ of'[i] = of[i] /\ run'[i] = run[i]
      BY <2>1, <2>2
    <3>2. lock[of[i]] = i /\ run[i] = "scheduled"
      BY <2>2, <3>1
    <3>3. of[j] # Nil => of[i] # of[j]
      BY <3>1, <3>2
    <3>4. of[i] \in Sched
      BY <2>2, <3>1
    <3> QED BY <2>1, <3>1, <3>2, <3>3, <3>4
  <2>3. \A i \in Run : run'[i] = "scheduled" => of'[i] # Nil
    BY <2>1
  <2>4. lock' \in [Sched -> Run \cup {Nil}] /\ run' \in [Run -> {"free", "scheduled", "manual"}] /\ of' \in [Run -> Sched \cup {Nil}]
    BY <2>1
  <2> QED BY <2>1, <2>2, <2>3, <2>4
<1>5. ASSUME NEW a \in Actor, (\E n \in Cron : CallTool(a, n)) \/ UseTool(a) PROVE SchedType'
  <2>1. /\ UNCHANGED <<current, ticking, lock, run, jobs, of, pc, old, fresh, agents, overlap, failed>>
        /\ DOMAIN call' = Actor /\ pc[a] = "idle" /\ crons' = [n \in Cron |-> crons'[n]]
        /\ \A b \in Actor : b # a => call'[b] = call[b]
    BY <1>5, ToolSteps
  <2>2. \A b \in Actor : pc'[b] # "idle" => call'[b].pc \in {"none", "reload"}
    BY <2>1
  <2> QED BY <2>1, <2>2
<1>6. ASSUME NEW a \in Actor, Refused(a) \/ NoAgents(a) PROVE SchedType'
  <2>1. UNCHANGED <<current, ticking, lock, run, jobs, of>> /\ {agents', overlap', failed'} \subseteq BOOLEAN
    BY <1>6 DEF Refused, NoAgents, BeginReload
  <2>2. Return(a)
    BY <1>6 DEF Refused, NoAgents
  <2>3. /\ crons' = crons /\ DOMAIN call' = Actor /\ call'[a].pc = "none"
        /\ \A b \in Actor : b # a => call'[b] = call[b] /\ pc'[b] = pc[b] /\ old'[b] = old[b] /\ fresh'[b] = fresh[b]
        /\ pc'[a] = "idle" /\ pc' \in [Actor -> Points]
        /\ old' \in [Actor -> Sched \cup {Nil}] /\ fresh' \in [Actor -> Sched \cup {Nil}]
    BY <2>2, ReturnOf
  <2>4. \A b \in Actor : /\ pc'[b] = "publish" => fresh'[b] \in Sched
                         /\ pc'[b] # "idle" => call'[b].pc \in {"none", "reload"}
    BY <2>3
  <2> QED BY <2>1, <2>3, <2>4
<1>7. ASSUME NEW a \in Actor, Begin(a) PROVE SchedType'
  <2>1. /\ UNCHANGED <<current, ticking, lock, run, jobs, of, fresh, failed, call, crons>> /\ {agents', overlap'} \subseteq BOOLEAN
        /\ old' = [old EXCEPT ![a] = current] /\ pc' = [pc EXCEPT ![a] = "stop"]
        /\ call[a].pc \in {"none", "reload"}
    BY <1>7 DEF Begin, BeginReload, cronvars
  <2>2. \A b \in Actor : b # a => pc'[b] = pc[b]
    BY <2>1
  <2>3. pc'[a] = "stop" /\ pc' \in [Actor -> Points] /\ old' \in [Actor -> Sched \cup {Nil}]
    BY <2>1
  <2>4. \A b \in Actor : /\ pc'[b] = "publish" => fresh'[b] \in Sched
                         /\ pc'[b] # "idle" => call'[b].pc \in {"none", "reload"}
    BY <2>1, <2>2, <2>3
  <2> QED BY <2>1, <2>3, <2>4
<1>8. ASSUME NEW a \in Actor, StopBegin(a) \/ StopEnd(a) PROVE SchedType'
  <2>1. /\ UNCHANGED <<current, lock, run, jobs, of, old, fresh, agents, failed, overlap, call, crons>>
        /\ ticking' \subseteq ticking /\ pc[a] # "idle"
        /\ \E p \in {"wait", "build"} : pc' = [pc EXCEPT ![a] = p]
    BY <1>8 DEF StopBegin, StopEnd, cronvars
  <2>2. pc' \in [Actor -> Points] /\ pc'[a] \in {"wait", "build"} /\ \A b \in Actor : b # a => pc'[b] = pc[b]
    BY <2>1
  <2>3. \A b \in Actor : /\ pc'[b] = "publish" => fresh'[b] \in Sched
                         /\ pc'[b] # "idle" => call'[b].pc \in {"none", "reload"}
    BY <2>1, <2>2
  <2> QED BY <2>1, <2>2, <2>3
<1>9. ASSUME NEW a \in Actor, Build(a) PROVE SchedType'
  <2>1. UNCHANGED <<current, run, of, agents, overlap>> /\ pc[a] = "build"
    BY <1>9 DEF Build
  <2>2. CASE Return(a) /\ failed' = TRUE /\ UNCHANGED <<ticking, lock, jobs>>
    <3>1. /\ crons' = crons /\ DOMAIN call' = Actor /\ call'[a].pc = "none"
          /\ \A b \in Actor : b # a => call'[b] = call[b] /\ pc'[b] = pc[b] /\ old'[b] = old[b] /\ fresh'[b] = fresh[b]
          /\ pc'[a] = "idle" /\ pc' \in [Actor -> Points]
          /\ old' \in [Actor -> Sched \cup {Nil}] /\ fresh' \in [Actor -> Sched \cup {Nil}]
      BY <2>2, ReturnOf
    <3>2. \A b \in Actor : /\ pc'[b] = "publish" => fresh'[b] \in Sched
                           /\ pc'[b] # "idle" => call'[b].pc \in {"none", "reload"}
      BY <3>1
    <3> QED BY <2>1, <2>2, <3>1, <3>2
  <2>3. ASSUME NEW s \in Sched, Unreachable(s), jobs' = [jobs EXCEPT ![s] = ScanPromptCrons],
               ticking' = ticking \cup {s}, lock' = [lock EXCEPT ![s] = Nil],
               fresh' = [fresh EXCEPT ![a] = s], pc' = [pc EXCEPT ![a] = "publish"],
               UNCHANGED <<old, failed, cronvars>>
        PROVE  SchedType'
    <3>1. UNCHANGED <<call, crons>>
      BY <2>3 DEF cronvars
    <3>2. \A i \in Run : of[i] # s
      BY <2>3 DEF Unreachable
    <3>3. \A i \in Run : of[i] # Nil => lock'[of[i]] = lock[of[i]]
      BY <2>3, <3>2
    <3>4. fresh' \in [Actor -> Sched \cup {Nil}] /\ pc' \in [Actor -> Points]
      BY <2>3
    <3>5. \A b \in Actor : b # a => pc'[b] = pc[b] /\ fresh'[b] = fresh[b]
      BY <2>3
    <3>6. pc'[a] = "publish" /\ fresh'[a] = s
      BY <2>3
    <3>7. \A b \in Actor : /\ pc'[b] = "publish" => fresh'[b] \in Sched
                           /\ pc'[b] # "idle" => call'[b].pc \in {"none", "reload"}
      BY <2>1, <3>1, <3>5, <3>6
    <3>8. lock' \in [Sched -> Run \cup {Nil}] /\ DOMAIN jobs' = Sched /\ ticking' \subseteq Sched
      BY <2>3
    <3> QED BY <2>1, <2>3, <3>1, <3>3, <3>4, <3>7, <3>8
  <2> QED BY <1>9, <2>2, <2>3 DEF Build
<1>10. ASSUME NEW a \in Actor, Publish(a) PROVE SchedType'
  <2>1. /\ UNCHANGED <<ticking, lock, run, of, agents, overlap>> /\ failed' = FALSE /\ pc[a] = "publish"
        /\ current' = fresh[a] /\ jobs' = [jobs EXCEPT ![current] = <<>>]
    BY <1>10 DEF Publish
  <2>2. /\ crons' = crons /\ DOMAIN call' = Actor /\ call'[a].pc = "none"
        /\ \A b \in Actor : b # a => call'[b] = call[b] /\ pc'[b] = pc[b] /\ old'[b] = old[b] /\ fresh'[b] = fresh[b]
        /\ pc'[a] = "idle" /\ pc' \in [Actor -> Points]
        /\ old' \in [Actor -> Sched \cup {Nil}] /\ fresh' \in [Actor -> Sched \cup {Nil}]
    BY <1>10, ReturnOf DEF Publish
  <2>3. \A b \in Actor : /\ pc'[b] = "publish" => fresh'[b] \in Sched
                         /\ pc'[b] # "idle" => call'[b].pc \in {"none", "reload"}
    BY <2>2
  <2>4. current' \in Sched /\ DOMAIN jobs' = Sched
    BY <2>1
  <2> QED BY <2>1, <2>2, <2>3, <2>4
<1> QED BY <1>1, <1>2, <1>3, <1>4, <1>5, <1>6, <1>7, <1>8, <1>9, <1>10 DEF Next, Reload

-----------------------------------------------------------------------------
\* NoParallelRuns.

\* Every step keeps ReloadInv.
LEMMA NextReloadInv == SchedType /\ ReloadInv /\ [Next]_vars => ReloadInv'
<1> SUFFICES ASSUME SchedType, ReloadInv, [Next]_vars, ~overlap'
             PROVE  /\ \A a, b \in Actor : pc'[a] # "idle" /\ pc'[b] # "idle" => a = b
                    /\ (\A a \in Actor : pc'[a] # "publish") => Only(current)'
                    /\ \A a \in Actor : /\ pc'[a] # "idle" => old'[a] = current'
                                        /\ pc'[a] \in {"wait", "build"} => ticking' = {}
                                        /\ pc'[a] = "build" => \A j \in Run : of'[j] = Nil
                                        /\ pc'[a] = "publish" => Only(fresh[a])'
  BY DEF ReloadInv
<1> DEFINE One == \A a, b \in Actor : pc'[a] # "idle" /\ pc'[b] # "idle" => a = b
           Home == (\A a \in Actor : pc'[a] # "publish") => Only(current)'
           At(a) == /\ pc'[a] # "idle" => old'[a] = current'
                    /\ pc'[a] \in {"wait", "build"} => ticking' = {}
                    /\ pc'[a] = "build" => \A j \in Run : of'[j] = Nil
                    /\ pc'[a] = "publish" => Only(fresh[a])'
           Goal == One /\ Home /\ \A a \in Actor : At(a)
<1>1. ~overlap
  BY DEF Next, vars, Tick, TriggerRun, Finish, Begin, Reload, StopBegin, StopEnd, Build, Publish,
         UseTool, Refused, NoAgents, CallTool, BeginReload
<1>2. /\ \A a, b \in Actor : pc[a] # "idle" /\ pc[b] # "idle" => a = b
      /\ (\A a \in Actor : pc[a] # "publish") => Only(current)
      /\ \A a \in Actor : /\ pc[a] # "idle" => old[a] = current
                          /\ pc[a] \in {"wait", "build"} => ticking = {}
                          /\ pc[a] = "build" => \A j \in Run : of[j] = Nil
                          /\ pc[a] = "publish" => Only(fresh[a])
  BY <1>1 DEF ReloadInv
<1>3. ASSUME UNCHANGED <<current, ticking, of, pc, old, fresh>> PROVE Goal
  BY <1>2, <1>3 DEF Only
<1>4. CASE UNCHANGED vars
  BY <1>3, <1>4 DEF vars
<1>5. ASSUME NEW s \in Sched, NEW j \in Run, Tick(s, j) PROVE Goal
  <2>1. s \in ticking /\ of' = [of EXCEPT ![j] = s] /\ UNCHANGED <<current, ticking, pc, old, fresh>>
    BY <1>5 DEF Tick
  <2>2. ASSUME NEW h, Only(h) PROVE ticking' \subseteq {h} /\ \A i \in Run : of'[i] \in {h, Nil}
    BY <2>1, <2>2 DEF Only, SchedType
  <2>3. \A a \in Actor : pc[a] \notin {"wait", "build"}
    BY <1>2, <2>1
  <2>4. Home
    BY <1>2, <2>1, <2>2 DEF Only
  <2>5. ASSUME NEW a \in Actor PROVE At(a)
    <3>1. pc[a] = "publish" => Only(fresh[a])'
      BY <1>2, <2>1, <2>2 DEF Only
    <3> QED BY <1>2, <2>1, <2>3, <3>1
  <2> QED BY <1>2, <2>1, <2>4, <2>5
<1>6. ASSUME NEW j \in Run, TriggerRun(j) PROVE Goal
  BY <1>3, <1>6 DEF TriggerRun
<1>7. ASSUME NEW j \in Run, Finish(j) PROVE Goal
  <2>1. of' = [of EXCEPT ![j] = Nil] /\ UNCHANGED <<current, ticking, pc, old, fresh>>
    BY <1>7 DEF Finish
  <2>2. \A i \in Run : of'[i] = of[i] \/ of'[i] = Nil
    BY <2>1 DEF SchedType
  <2> QED BY <1>2, <2>1, <2>2 DEF Only
<1>8. ASSUME NEW a \in Actor, (\E n \in Cron : CallTool(a, n)) \/ UseTool(a) PROVE Goal
  BY <1>3, <1>8, ToolSteps
<1>9. ASSUME NEW a \in Actor, Refused(a) \/ NoAgents(a) PROVE Goal
  <2>1. /\ UNCHANGED <<current, ticking, of>> /\ pc[a] = "idle"
        /\ \A b \in Actor : pc[b] = "idle"
    BY <1>9 DEF Refused, NoAgents, Busy, BeginReload
  <2>2. pc'[a] = "idle" /\ \A b \in Actor : b # a => pc'[b] = pc[b]
    BY <1>9, ReturnOf DEF Refused, NoAgents
  <2>3. \A b \in Actor : pc'[b] = "idle"
    BY <2>1, <2>2
  <2> QED BY <1>2, <2>1, <2>3 DEF Only
<1>10. ASSUME NEW a \in Actor, Begin(a) PROVE Goal
  <2>1. /\ UNCHANGED <<current, ticking, of, fresh>> /\ \A b \in Actor : pc[b] = "idle"
        /\ old' = [old EXCEPT ![a] = current] /\ pc' = [pc EXCEPT ![a] = "stop"]
    BY <1>10 DEF Begin, BeginReload
  <2>2. /\ pc'[a] = "stop" /\ old'[a] = current
        /\ \A b \in Actor : b # a => pc'[b] = "idle"
    BY <2>1 DEF SchedType
  <2> QED BY <1>2, <2>1, <2>2 DEF Only
<1>11. ASSUME NEW a \in Actor, StopBegin(a) PROVE Goal
  <2>1. /\ UNCHANGED <<current, of, old, fresh>> /\ pc[a] = "stop" /\ pc' = [pc EXCEPT ![a] = "wait"]
        /\ ticking' = ticking \ {old[a]}
    BY <1>11 DEF StopBegin
  <2>2. pc'[a] = "wait" /\ \A b \in Actor : b # a => pc'[b] = "idle" /\ pc[b] = "idle"
    BY <1>2, <2>1 DEF SchedType
  <2>3. old[a] = current /\ Only(current)
    BY <1>2, <2>1, <2>2
  <2>4. ticking' = {}
    BY <2>1, <2>3 DEF Only
  <2> QED BY <1>2, <2>1, <2>2, <2>3, <2>4 DEF Only
<1>12. ASSUME NEW a \in Actor, StopEnd(a) PROVE Goal
  <2>1. /\ UNCHANGED <<current, ticking, of, old, fresh>> /\ pc[a] = "wait" /\ pc' = [pc EXCEPT ![a] = "build"]
        /\ \A j \in Run : of[j] # old[a]
    BY <1>12 DEF StopEnd
  <2>2. pc'[a] = "build" /\ \A b \in Actor : b # a => pc'[b] = "idle" /\ pc[b] = "idle"
    BY <1>2, <2>1 DEF SchedType
  <2>3. old[a] = current /\ Only(current) /\ ticking = {}
    BY <1>2, <2>1, <2>2
  <2>4. \A j \in Run : of[j] = Nil
    BY <2>1, <2>3 DEF Only
  <2> QED BY <1>2, <2>1, <2>2, <2>3, <2>4 DEF Only
<1>13. ASSUME NEW a \in Actor, Build(a) PROVE Goal
  <2>1. /\ UNCHANGED <<current, of>> /\ pc[a] = "build" /\ ticking = {} /\ \A j \in Run : of[j] = Nil
    BY <1>2, <1>13 DEF Build
  <2>2. \A b \in Actor : b # a => pc[b] = "idle"
    BY <1>2, <2>1
  <2>3. CASE Return(a) /\ ticking' = ticking
    <3>1. pc'[a] = "idle" /\ \A b \in Actor : b # a => pc'[b] = pc[b]
      BY <2>3, ReturnOf
    <3>2. \A b \in Actor : pc'[b] = "idle"
      BY <2>2, <3>1
    <3> QED BY <2>1, <2>3, <3>2 DEF Only
  <2>4. ASSUME NEW s \in Sched, ticking' = ticking \cup {s}, fresh' = [fresh EXCEPT ![a] = s],
               pc' = [pc EXCEPT ![a] = "publish"], old' = old
        PROVE  Goal
    <3>1. pc'[a] = "publish" /\ fresh'[a] = s /\ \A b \in Actor : b # a => pc'[b] = "idle"
      BY <2>2, <2>4 DEF SchedType
    <3>2. ticking' = {s} /\ old'[a] = current'
      BY <1>2, <2>1, <2>4
    <3> QED BY <2>1, <3>1, <3>2 DEF Only
  <2> QED BY <1>13, <2>3, <2>4 DEF Build
<1>14. ASSUME NEW a \in Actor, Publish(a) PROVE Goal
  <2>1. UNCHANGED <<ticking, of>> /\ pc[a] = "publish" /\ current' = fresh[a]
    BY <1>14 DEF Publish
  <2>2. pc'[a] = "idle" /\ \A b \in Actor : b # a => pc'[b] = pc[b]
    BY <1>14, ReturnOf DEF Publish
  <2>3. \A b \in Actor : pc'[b] = "idle"
    BY <1>2, <2>1, <2>2
  <2> QED BY <1>2, <2>1, <2>3 DEF Only
<1> QED BY <1>4, <1>5, <1>6, <1>7, <1>8, <1>9, <1>10, <1>11, <1>12, <1>13, <1>14 DEF Next, Reload

\* Both at the start.
LEMMA InitReloadInv == Init => SchedType /\ ReloadInv
<1> SUFFICES ASSUME Init PROVE SchedType /\ ReloadInv
  OBVIOUS
<1>1. /\ current \in Sched /\ Actor = Reloader \cup Run /\ Caller = Actor
  BY SchedulerAssumption DEF Init, Actor
<1>2. crons = [n \in Cron |-> crons[n]] /\ call = [c \in Caller |-> NoCall]
  BY DEF Init, CronsInit
<1>3. SchedType
  BY <1>1, <1>2 DEF Init, SchedType, Points
<1>4. ReloadInv
  BY DEF Init, ReloadInv, Only
<1> QED BY <1>3, <1>4

\* NoParallelRuns for any runs and reloading goroutines: while reloads come one at
\* a time, scheduled runs of a job never overlap, across schedulers.
THEOREM JobsSerialised == Spec => []NoParallelRuns
<1>1. SchedType /\ ReloadInv => NoParallelRuns
  <2> SUFFICES ASSUME SchedType, ReloadInv, NEW i \in Run, NEW j \in Run, ~overlap,
                      run[i] = "scheduled", run[j] = "scheduled"
               PROVE  i = j
    BY DEF NoParallelRuns
  <2>1. of[i] # Nil /\ of[j] # Nil /\ lock[of[i]] = i /\ lock[of[j]] = j
    BY DEF SchedType
  <2>2. \E h : Only(h)
    BY DEF ReloadInv
  <2> QED BY <2>1, <2>2 DEF Only
<1> QED BY <1>1, InitReloadInv, NextSchedType, NextReloadInv, PTL DEF Spec

-----------------------------------------------------------------------------
\* JobsScheduled.

\* A step that leaves scheduler s and the files alone, but for truncating some,
\* leaves what it serves.
LEMMA ServesKept ==
    ASSUME SchedType, NEW s, Serves(s), jobs'[s] = jobs[s],
           \A n \in Cron : crons'[n] \in {crons[n], Truncated}
    PROVE  \A n \in Cron : Served(s, n)'
<1> SUFFICES ASSUME NEW n \in Cron PROVE Served(s, n)'
  OBVIOUS
<1>1. Served(s, n) /\ crons'[n] \in {crons[n], Truncated}
  BY DEF Serves
<1>2. CASE crons'[n] = Truncated
  BY <1>2 DEF Served
<1>3. CASE crons'[n] = crons[n]
  BY <1>1, <1>3 DEF Served, Loads
<1> QED BY <1>1, <1>2, <1>3

\* A step that changes neither files nor schedulers nor who reloads.
LEMMA ScheduleKept ==
    ASSUME ScheduleInv, UNCHANGED <<current, ticking, jobs, pc, fresh, agents, crons, call>>,
           failed' = failed, ~overlap' => ~overlap
    PROVE  ScheduleInv'
BY DEF ScheduleInv, Unsettled, Owes, Serves, Served, Loads

\* Every step keeps ScheduleInv.
LEMMA NextScheduleInv == SchedType /\ ReloadInv /\ ScheduleInv /\ [Next]_vars => ScheduleInv'
<1> SUFFICES ASSUME SchedType, ReloadInv, ScheduleInv, [Next]_vars, ~overlap' PROVE ScheduleInv'
  BY DEF ScheduleInv
<1>1. ~overlap
  BY DEF Next, vars, Tick, TriggerRun, Finish, Begin, Reload, StopBegin, StopEnd, Build, Publish,
         UseTool, Refused, NoAgents, CallTool, BeginReload
<1>2. \A a, b \in Actor : pc[a] # "idle" /\ pc[b] # "idle" => a = b
  BY <1>1 DEF ReloadInv
<1>3. /\ Unsettled \/ current \in ticking
      /\ Unsettled \/ ~agents \/ (\E c \in Actor : Owes(c)) \/ Serves(current)
      /\ \A a \in Actor : pc[a] = "publish" =>
            /\ fresh[a] # current /\ fresh[a] \in ticking
            /\ Serves(fresh[a]) \/ \E c \in Actor : Owes(c)
  BY <1>1 DEF ScheduleInv
<1>4. CASE UNCHANGED vars
  BY <1>1, <1>4, ScheduleKept DEF vars, cronvars
<1>5. ASSUME NEW s \in Sched, NEW j \in Run, Tick(s, j) PROVE ScheduleInv'
  BY <1>1, <1>5, ScheduleKept DEF Tick, cronvars
<1>6. ASSUME NEW j \in Run, TriggerRun(j) \/ Finish(j) PROVE ScheduleInv'
  BY <1>1, <1>6, ScheduleKept DEF TriggerRun, Finish, cronvars
<1>7. ASSUME NEW a \in Actor, (\E n \in Cron : CallTool(a, n)) \/ UseTool(a) PROVE ScheduleInv'
  <2>1. /\ UNCHANGED <<current, ticking, jobs, pc, fresh, agents, failed>> /\ pc[a] = "idle" /\ call[a].pc # "reload"
        /\ \A b \in Actor : b # a => call'[b] = call[b]
        /\ call'[a].pc = "reload" \/ \A n \in Cron : crons'[n] \in {crons[n], Truncated}
    BY <1>7, ToolSteps
  <2>2. \A c \in Actor : Owes(c) => Owes(c)'
    BY <2>1 DEF Owes
  <2>3. Unsettled' <=> Unsettled
    BY <2>1 DEF Unsettled
  <2>4. ASSUME NEW s, Serves(s) PROVE (\E c \in Actor : Owes(c)') \/ \A n \in Cron : Served(s, n)'
    <3>1. CASE call'[a].pc = "reload"
      BY <2>1, <3>1 DEF Owes
    <3>2. CASE \A n \in Cron : crons'[n] \in {crons[n], Truncated}
      BY <2>1, <2>4, <3>2, ServesKept
    <3> QED BY <2>1, <3>1, <3>2
  <2>5. Serves(current) => (\E c \in Actor : Owes(c)') \/ Serves(current)'
    BY <2>1, <2>4 DEF Serves, Served
  <2>6. ASSUME NEW b \in Actor PROVE Serves(fresh[b]) => (\E c \in Actor : Owes(c)') \/ Serves(fresh[b])'
    BY <2>1, <2>4 DEF Serves, Served
  <2> QED BY <1>3, <2>1, <2>2, <2>3, <2>5, <2>6 DEF ScheduleInv
<1>8. ASSUME NEW a \in Actor, Refused(a) PROVE ScheduleInv'
  <2>1. failed' = TRUE /\ \A b \in Actor : pc[b] = "idle"
    BY <1>8 DEF Refused, BeginReload
  <2>2. \A b \in Actor : pc'[b] = "idle"
    BY <1>8, <2>1, ReturnOf DEF Refused
  <2> QED BY <2>1, <2>2 DEF ScheduleInv, Unsettled
<1>9. ASSUME NEW a \in Actor, NoAgents(a) PROVE ScheduleInv'
  <2>1. /\ UNCHANGED <<current, ticking, failed>> /\ ~agents' /\ \A b \in Actor : pc[b] = "idle"
    BY <1>9 DEF NoAgents, BeginReload
  <2>2. \A b \in Actor : pc'[b] = "idle"
    BY <1>9, <2>1, ReturnOf DEF NoAgents
  <2> QED BY <1>3, <2>1, <2>2 DEF ScheduleInv, Unsettled
<1>10. ASSUME NEW a \in Actor, Begin(a) PROVE ScheduleInv'
  <2>1. pc' = [pc EXCEPT ![a] = "stop"] /\ \A b \in Actor : pc[b] = "idle"
    BY <1>10 DEF Begin, BeginReload
  <2>2. pc'[a] = "stop" /\ \A b \in Actor : pc'[b] # "publish"
    BY <2>1 DEF SchedType
  <2> QED BY <2>2 DEF ScheduleInv, Unsettled
<1>11. ASSUME NEW a \in Actor, StopBegin(a) \/ StopEnd(a) PROVE ScheduleInv'
  <2>1. pc[a] # "idle" /\ \E p \in {"wait", "build"} : pc' = [pc EXCEPT ![a] = p]
    BY <1>11 DEF StopBegin, StopEnd
  <2>2. pc'[a] \in {"wait", "build"} /\ \A b \in Actor : b # a => pc'[b] = "idle"
    BY <1>2, <2>1 DEF SchedType
  <2>3. \A b \in Actor : pc'[b] # "publish"
    BY <2>2
  <2> QED BY <2>2, <2>3 DEF ScheduleInv, Unsettled
<1>12. ASSUME NEW a \in Actor, Build(a) PROVE ScheduleInv'
  <2>1. current' = current /\ pc[a] = "build" /\ \A b \in Actor : b # a => pc[b] = "idle"
    BY <1>2, <1>12 DEF Build
  <2>2. CASE Return(a) /\ failed' = TRUE
    <3>1. \A b \in Actor : pc'[b] = "idle"
      BY <2>1, <2>2, ReturnOf
    <3> QED BY <2>2, <3>1 DEF ScheduleInv, Unsettled
  <2>3. ASSUME NEW s \in Sched, Unreachable(s), jobs' = [jobs EXCEPT ![s] = ScanPromptCrons],
               ticking' = ticking \cup {s}, fresh' = [fresh EXCEPT ![a] = s],
               pc' = [pc EXCEPT ![a] = "publish"], UNCHANGED cronvars
        PROVE  ScheduleInv'
    <3>1. /\ pc'[a] = "publish" /\ fresh'[a] = s /\ jobs'[s] = ScanPromptCrons
          /\ \A b \in Actor : b # a => pc'[b] = "idle"
      BY <2>1, <2>3 DEF SchedType
    <3>2. ASSUME NEW n \in Cron PROVE Served(s, n)'
      <4>1. crons'[n] = crons[n] /\ (Loads(n)' <=> Loads(n))
        BY <2>3 DEF cronvars, Loads
      <4>2. DOMAIN jobs'[s] = {m \in Cron : Loads(m)} /\ (Loads(n) => jobs'[s][n] = crons[n])
        BY <3>1 DEF ScanPromptCrons
      <4> QED BY <4>1, <4>2 DEF Served
    <3>3. Serves(fresh[a])'
      BY <3>1, <3>2 DEF Serves, Served
    <3>4. s # current /\ s \in ticking'
      BY <2>3 DEF Unreachable
    <3> QED BY <2>1, <3>1, <3>3, <3>4 DEF ScheduleInv, Unsettled
  <2> QED BY <1>12, <2>2, <2>3 DEF Build
<1>13. ASSUME NEW a \in Actor, Publish(a) PROVE ScheduleInv'
  <2>1. /\ ticking' = ticking /\ pc[a] = "publish" /\ current' = fresh[a]
        /\ jobs' = [jobs EXCEPT ![current] = <<>>]
    BY <1>13 DEF Publish
  <2>2. /\ crons' = crons /\ pc'[a] = "idle"
        /\ \A b \in Actor : b # a => call'[b] = call[b] /\ pc'[b] = pc[b]
    BY <1>13, ReturnOf DEF Publish
  <2>3. \A b \in Actor : pc'[b] = "idle"
    BY <1>2, <2>1, <2>2
  <2>4. \A c \in Actor : Owes(c) => Owes(c)'
    BY <2>1, <2>2, <2>3 DEF Owes
  <2>5. /\ fresh[a] \in Sched /\ fresh[a] # current /\ fresh[a] \in ticking
        /\ Serves(fresh[a]) \/ \E c \in Actor : Owes(c)
    BY <1>3, <2>1 DEF SchedType
  <2>6. jobs'[fresh[a]] = jobs[fresh[a]]
    BY <2>1, <2>5 DEF SchedType
  <2>7. Serves(fresh[a]) => Serves(current)'
    <3> SUFFICES ASSUME Serves(fresh[a]), NEW n \in Cron PROVE Served(current, n)'
      BY DEF Serves
    <3>1. Served(fresh[a], n)
      BY DEF Serves
    <3>2. jobs'[current'] = jobs[fresh[a]] /\ crons'[n] = crons[n]
      BY <2>1, <2>2, <2>6
    <3> QED BY <3>1, <3>2 DEF Served, Loads
  <2> QED BY <2>1, <2>3, <2>4, <2>5, <2>7 DEF ScheduleInv
<1> QED BY <1>4, <1>5, <1>6, <1>7, <1>8, <1>9, <1>10, <1>11, <1>12, <1>13 DEF Next, Reload

\* JobsScheduled for any crons, tools and reloads: once the tools and reloads are
\* over, and unless the last reload failed, the scheduler runs and, if the
\* configuration has agents, the jobs of the files are the ones that fire; a file
\* that a failing tool has left truncated defines none.
THEOREM FilesScheduled == Spec => []JobsScheduled
<1>1. Init => ScheduleInv
  <2> SUFFICES ASSUME Init
               PROVE  current \in ticking /\ (agents => Serves(current)) /\ \A a \in Actor : pc[a] # "publish"
    BY DEF ScheduleInv
  <2>1. current \in Sched
    BY SchedulerAssumption DEF Init
  <2>2. ASSUME agents, NEW n \in Cron PROVE Served(current, n)
    <3>1. jobs[current] = ScanPromptCrons
      BY <2>1, <2>2 DEF Init
    <3> QED BY <3>1 DEF Served, ScanPromptCrons
  <2>3. current \in ticking /\ \A a \in Actor : pc[a] # "publish"
    BY DEF Init
  <2> QED BY <2>2, <2>3 DEF Serves
<1>2. ScheduleInv => JobsScheduled
  BY DEF ScheduleInv, Unsettled, JobsScheduled, Settled, Owes, Serves
<1> QED BY <1>1, <1>2, InitReloadInv, NextSchedType, NextReloadInv, NextScheduleInv, PTL DEF Spec
-----------------------------------------------------------------------------
\* FactExtraction.

Message == [role : {"user", "assistant"}, id : Nat]

\* What the variables of the extraction job are.
JobType ==
    /\ db \in [Key -> Seq(Message)]
    /\ live \subseteq Key /\ todo \subseteq Key
    /\ open \in [Key -> Nat] /\ nextId \in Nat \ {0}
    /\ lastLen \in [Key -> Nat] /\ seen \in Nat
    /\ at \in {"idle", "loop", "recent", "pairs"}
    /\ at \in {"recent", "pairs"} => cur \in Key
    /\ at = "recent" => lastLen[cur] < seen
    /\ msgs \in Seq(Message)
    /\ extracted \in [Key -> Seq(Message \X Message)]
    /\ caveats \in [Key -> SUBSET Caveats]
    /\ unstored \in [Key -> SUBSET Nat]

\* In history s an answer that follows a message is its own, or that of one of
\* the unstored messages u, and messages have increasing numbers, below b.
Orderly(s, b, u) ==
    /\ \A n \in 1 .. Len(s) - 1 : IsExchange(s[n], s[n + 1]) => s[n].id = s[n + 1].id \/ s[n + 1].id \in u
    /\ \A n \in 1 .. Len(s) : s[n].id < b
    /\ \A m, n \in 1 .. Len(s) : m < n /\ s[n].role = "user" => s[m].id < s[n].id

\* Message i, being answered, is the last one of history s.
Follows(s, i, u) == s = <<>> \/ s[Len(s)] = User(i) \/ i \in u

\* Exchange e is a message with its answer.
IsSound(e, u) == e[1].id = e[2].id \/ e[2].id \in u

\* Histories are orderly, the job's window is, and so is what it extracted; a
\* message in progress is the last one, unless it was not stored or /new has taken
\* it away.
HistoryInv ==
    /\ \A k \in Key :
          /\ Orderly(db[k], nextId, unstored[k])
          /\ open[k] # 0 => open[k] < nextId /\ Follows(db[k], open[k], unstored[k])
          /\ \A n \in DOMAIN extracted[k] : IsSound(extracted[k][n], unstored[k]) /\ extracted[k][n][1].id < nextId
    /\ at = "pairs" => Orderly(msgs, nextId, unstored[cur])

\* Extracting session k now.
Extracting(k) == at = "pairs" /\ cur = k

\* User message u of session k is later than everything extracted.
IsNew(k, u) == u.role = "user" => \A n \in DOMAIN extracted[k] : extracted[k][n][1].id < u.id

\* Exchanges were extracted in order, and all that is left to read comes later.
Once(k) ==
    /\ \A m, n \in DOMAIN extracted[k] : m < n => extracted[k][m][1].id < extracted[k][n][1].id
    /\ ~Extracting(k) => \A n \in 1 .. Len(db[k]) : n > lastLen[k] => IsNew(k, db[k][n])
    /\ at = "recent" /\ cur = k => open[k] = 0 /\ (db[k] = <<>> \/ Len(db[k]) = seen)
    /\ Extracting(k) =>
          /\ \A i \in 1 .. Len(msgs) : IsNew(k, msgs[i])
          /\ \A n \in 1 .. Len(db[k]) : n > seen =>
                /\ IsNew(k, db[k][n])
                /\ db[k][n].role = "user" => \A i \in 1 .. Len(msgs) : msgs[i].id < db[k][n].id

OnceInv == \A k \in Key : caveats[k] \cap {"moved", "failed", "forgotten"} = {} => Once(k)

\* The first n messages of session k are whole exchanges, which were extracted.
IsWhole(k, n) == n > 0 => n <= Len(db[k]) /\ db[k][n].role = "assistant"
Covered(k, n) ==
    \A m \in 1 .. Len(db[k]) : m <= n /\ db[k][m].role = "assistant" =>
        \E i \in DOMAIN extracted[k] : extracted[k][i][1].id = db[k][m].id

\* Messages and answers alternate, and what lastLen counts, or the pairing loop
\* has passed, are exchanges that were extracted.
Complete(k) ==
    /\ \A n \in 1 .. Len(db[k]) : db[k][n].role = "user" <=> n = 1 \/ db[k][n - 1].role = "assistant"
    /\ open[k] = 0 <=> IsWhole(k, Len(db[k]))
    /\ IsWhole(k, lastLen[k]) /\ Covered(k, lastLen[k])
    /\ at = "recent" /\ cur = k => seen = Len(db[k]) /\ open[k] = 0
    /\ Extracting(k) =>
          /\ Len(msgs) <= seen /\ IsWhole(k, seen)
          /\ IsWhole(k, seen - Len(msgs)) /\ Covered(k, seen - Len(msgs))
          /\ \A i \in 1 .. Len(msgs) : msgs[i] = db[k][seen - Len(msgs) + i]

CompleteInv ==
    \A k \in Key : caveats[k] \cap {"moved", "unanswered", "reset"} = {} /\ unstored[k] = {} => Complete(k)

\* The entries of a history have numbers.
LEMMA EntriesNumbered ==
    ASSUME NEW s \in Seq(Message)
    PROVE  \A n \in 1 .. Len(s) : s[n] \in Message /\ s[n].id \in Nat /\ s[n].role \in {"user", "assistant"}
<1>1. \A n \in 1 .. Len(s) : s[n] \in Message
  OBVIOUS
<1>2. \A r \in Message : r.id \in Nat /\ r.role \in {"user", "assistant"}
  BY DEF Message
<1> QED BY <1>1, <1>2

\* What the pipeline writes keeps a history orderly.
LEMMA OrderlyWrites ==
    ASSUME NEW s \in Seq(Message), NEW b \in Nat, NEW u, Orderly(s, b, u)
    PROVE  /\ Append(s, User(b)) \in Seq(Message) /\ Orderly(Append(s, User(b)), b + 1, u)
           /\ \A i \in Nat : i < b /\ Follows(s, i, u) =>
                Append(s, Assistant(i)) \in Seq(Message) /\ Orderly(Append(s, Assistant(i)), b, u)
<1>0. /\ \A n \in 1 .. Len(s) : s[n].id < b
      /\ \A m, n \in 1 .. Len(s) : m < n /\ s[n].role = "user" => s[m].id < s[n].id
  BY DEF Orderly
<1>1. User(b) \in Message /\ User(b).id = b
  BY DEF Message, User
<1>2. Orderly(Append(s, User(b)), b + 1, u)
  <2> DEFINE t == Append(s, User(b))
  <2>1. Len(t) = Len(s) + 1 /\ t[Len(s) + 1] = User(b) /\ \A n \in 1 .. Len(s) : t[n] = s[n]
    BY <1>1, AppendProperties
  <2>2. \A n \in 1 .. Len(s) : s[n].id \in Nat
    BY EntriesNumbered
  <2>3. \A n \in 1 .. Len(t) - 1 : IsExchange(t[n], t[n + 1]) => t[n].id = t[n + 1].id \/ t[n + 1].id \in u
    BY <2>1 DEF Orderly, IsExchange, User
  <2>4. \A n \in 1 .. Len(t) : t[n].id < b + 1
    BY <1>1, <2>1, <2>2 DEF Orderly
  <2>5. \A m, n \in 1 .. Len(t) : m < n /\ t[n].role = "user" => t[m].id < t[n].id
    BY <1>1, <1>0, <2>1
  <2>6. Orderly(t, b + 1, u)
    <3> HIDE DEF t
    <3> QED BY <2>3, <2>4, <2>5 DEF Orderly
  <2> QED BY <2>6
<1>3. ASSUME NEW i \in Nat, i < b, Follows(s, i, u)
      PROVE  Append(s, Assistant(i)) \in Seq(Message) /\ Orderly(Append(s, Assistant(i)), b, u)
  <2> DEFINE t == Append(s, Assistant(i))
  <2>1. Assistant(i) \in Message /\ Assistant(i).id = i /\ Assistant(i).role = "assistant" /\ User(i).id = i
    BY DEF Message, Assistant, User
  <2>2. /\ t \in Seq(Message)
        /\ Len(t) = Len(s) + 1 /\ t[Len(s) + 1] = Assistant(i) /\ \A n \in 1 .. Len(s) : t[n] = s[n]
    BY <2>1, AppendProperties
  <2>3. Len(s) > 0 => s[Len(s)] = User(i) \/ i \in u
    BY <1>3 DEF Follows
  <2>4. \A n \in 1 .. Len(t) - 1 : IsExchange(t[n], t[n + 1]) => t[n].id = t[n + 1].id \/ t[n + 1].id \in u
    BY <2>1, <2>2, <2>3 DEF Orderly
  <2>5. \A n \in 1 .. Len(t) : t[n].id < b
    BY <1>3, <2>1, <2>2 DEF Orderly
  <2>6. \A m, n \in 1 .. Len(t) : m < n /\ t[n].role = "user" => t[m].id < t[n].id
    <3>1. \A n \in 1 .. Len(t) : n \in 1 .. Len(s) \/ t[n].role # "user"
      BY <2>1, <2>2
    <3>2. \A m, n \in 1 .. Len(t) : m < n => m \in 1 .. Len(s)
      BY <2>2
    <3> HIDE DEF t
    <3> QED BY <1>0, <2>2, <3>1, <3>2
  <2>7. Orderly(t, b, u)
    <3> HIDE DEF t
    <3> QED BY <2>4, <2>5, <2>6 DEF Orderly
  <2> QED BY <2>2, <2>7
<1> QED BY <1>1, <1>2, <1>3, AppendProperties

\* The bound and the set may grow, and a part of an orderly history is orderly.
LEMMA OrderlyParts ==
    ASSUME NEW s \in Seq(Message), NEW b \in Nat, NEW u, Orderly(s, b, u)
    PROVE  /\ \A v : u \subseteq v => Orderly(s, b, v) /\ Orderly(s, b + 1, v)
           /\ \A m \in 1 .. Len(s) + 1 :
                LET t == SubSeq(s, m, Len(s))
                IN  /\ t \in Seq(Message) /\ Len(t) = Len(s) - m + 1 /\ Orderly(t, b, u)
                    /\ \A i \in 1 .. Len(t) : t[i] = s[m + i - 1]
<1>1. \A n \in 1 .. Len(s) : s[n] \in Message /\ s[n].id \in Nat
  BY EntriesNumbered
<1>2. ASSUME NEW v, u \subseteq v PROVE Orderly(s, b, v) /\ Orderly(s, b + 1, v)
  <2>1. \A n \in 1 .. Len(s) - 1 : IsExchange(s[n], s[n + 1]) => s[n].id = s[n + 1].id \/ s[n + 1].id \in v
    BY <1>2 DEF Orderly
  <2>2. \A n \in 1 .. Len(s) : s[n].id < b /\ s[n].id < b + 1
    BY <1>1 DEF Orderly
  <2> QED BY <2>1, <2>2 DEF Orderly
<1>3. ASSUME NEW m \in 1 .. Len(s) + 1
      PROVE  LET t == SubSeq(s, m, Len(s))
             IN  /\ t \in Seq(Message) /\ Len(t) = Len(s) - m + 1 /\ Orderly(t, b, u)
                 /\ \A i \in 1 .. Len(t) : t[i] = s[m + i - 1]
  <2> DEFINE t == SubSeq(s, m, Len(s))
  <2>1. m \in Int /\ Len(s) \in Int /\ \A i \in m .. Len(s) : s[i] \in Message
    BY <1>1
  <2>2. t \in Seq(Message) /\ Len(t) = (IF m <= Len(s) THEN Len(s) - m + 1 ELSE 0)
        /\ \A i \in 1 .. Len(s) - m + 1 : t[i] = s[m + i - 1]
    BY <2>1, SubSeqProperties
  <2> HIDE DEF t
  <2>3. Len(t) = Len(s) - m + 1 /\ \A i \in 1 .. Len(t) : t[i] = s[m + i - 1] /\ m + i - 1 \in 1 .. Len(s)
    BY <2>2
  <2>4. \A n \in 1 .. Len(t) - 1 : IsExchange(t[n], t[n + 1]) => t[n].id = t[n + 1].id \/ t[n + 1].id \in u
    <3> TAKE n \in 1 .. Len(t) - 1
    <3>1. t[n] = s[m + n - 1] /\ t[n + 1] = s[m + n - 1 + 1] /\ m + n - 1 \in 1 .. Len(s) - 1
      BY <2>3
    <3> QED BY <3>1 DEF Orderly
  <2>5. \A n \in 1 .. Len(t) : t[n].id < b
    BY <2>3 DEF Orderly
  <2>6. \A n, l \in 1 .. Len(t) : n < l /\ t[l].role = "user" => t[n].id < t[l].id
    <3> TAKE n, l \in 1 .. Len(t)
    <3>1. t[n] = s[m + n - 1] /\ t[l] = s[m + l - 1] /\ {m + n - 1, m + l - 1} \subseteq 1 .. Len(s)
      BY <2>3
    <3>2. n < l => m + n - 1 < m + l - 1
      BY <2>3
    <3> QED BY <3>1, <3>2 DEF Orderly
  <2>7. Orderly(t, b, u)
    BY <2>4, <2>5, <2>6 DEF Orderly
  <2> QED BY <2>2, <2>3, <2>7 DEF t
<1> QED BY <1>2, <1>3

\* A caveat is noted for a session and never taken back.
LEMMA NoteKeeps ==
    ASSUME JobType, NEW k \in Key, NEW c \in Caveats, NEW h \in BOOLEAN, Note(k, c, h)
    PROVE  /\ caveats' \in [Key -> SUBSET Caveats]
           /\ \A x \in Key : caveats[x] \subseteq caveats'[x]
           /\ h => c \in caveats'[k]
<1>1. CASE h
  <2>1. caveats' = [caveats EXCEPT ![k] = caveats[k] \cup {c}]
    BY <1>1 DEF Note
  <2>2. caveats[k] \cup {c} \in SUBSET Caveats
    BY DEF JobType
  <2> QED BY <2>1, <2>2 DEF JobType
<1>2. CASE ~h
  BY <1>2 DEF Note, JobType
<1> QED BY <1>1, <1>2

\* The second query returns the end of the history.
LEMMA RecentIsEnd ==
    ASSUME JobType, at = "recent"
    PROVE  LET s == db[cur]
               n == seen - lastLen[cur]
               m == IF n < Len(s) THEN Len(s) - n + 1 ELSE 1
           IN  GetRecent(cur, n) = SubSeq(s, m, Len(s)) /\ m \in 1 .. Len(s) + 1 /\ s \in Seq(Message) /\ n \in Nat \ {0}
<1> DEFINE s == db[cur]
           n == seen - lastLen[cur]
           m == IF n < Len(s) THEN Len(s) - n + 1 ELSE 1
<1>1. cur \in Key /\ seen \in Nat /\ lastLen[cur] \in Nat /\ lastLen[cur] < seen /\ s \in Seq(Message)
  BY DEF JobType
<1>2. n \in Nat \ {0} /\ Len(s) \in Nat
  BY <1>1
<1>3. GetRecent(cur, n) = SubSeq(s, m, Len(s))
  BY DEF GetRecent
<1>4. m \in 1 .. Len(s) + 1
  <2> HIDE DEF n, s
  <2> QED BY <1>2
<1> QED BY <1>1, <1>2, <1>3, <1>4

\* The pipeline's writes keep the types and the order.
LEMMA WritesHistory ==
    ASSUME JobType, HistoryInv, NEW k \in Key, PersistUser(k) \/ Answer(k) \/ Reset(k)
    PROVE  JobType' /\ HistoryInv'
<1> DEFINE s == db[k]
           u == unstored[k]
           P(t, o, w) == /\ db' = [db EXCEPT ![k] = t] /\ open' = [open EXCEPT ![k] = o]
                         /\ unstored' = [unstored EXCEPT ![k] = w] /\ u \subseteq w /\ w \subseteq Nat
                         /\ t \in Seq(Message) /\ Orderly(t, nextId', w) /\ o \in Nat
                         /\ (o # 0 => o < nextId' /\ Follows(t, o, w))
           F == \E t, o, w : P(t, o, w)
           G == /\ UNCHANGED jobVars /\ caveats' \in [Key -> SUBSET Caveats]
                /\ nextId' \in {nextId, nextId + 1} /\ live' \subseteq Key
<1>0. /\ s \in Seq(Message) /\ Orderly(s, nextId, u) /\ nextId \in Nat \ {0} /\ open[k] \in Nat
      /\ u \subseteq Nat /\ u \subseteq u
      /\ db \in [Key -> Seq(Message)] /\ open \in [Key -> Nat] /\ unstored \in [Key -> SUBSET Nat]
  BY DEF JobType, HistoryInv
<1>1. ASSUME PersistUser(k) PROVE F /\ G
  <2>1. /\ nextId' = nextId + 1 /\ open' = [open EXCEPT ![k] = nextId] /\ live' = live \cup {k}
        /\ UNCHANGED jobVars /\ Note(k, "moved", at = "recent" /\ cur = k)
    BY <1>1 DEF PersistUser
  <2>5. nextId # 0 /\ nextId < nextId + 1
    BY <1>0
  <2>6. F
    <3>1. CASE db' = [db EXCEPT ![k] = Append(@, User(nextId))] /\ UNCHANGED unstored
      <4> DEFINE t == Append(s, User(nextId))
      <4>1. db' = [db EXCEPT ![k] = t] /\ unstored' = [unstored EXCEPT ![k] = u]
        BY <1>0, <3>1
      <4>2. t \in Seq(Message) /\ Orderly(t, nextId + 1, u)
        BY <1>0, OrderlyWrites
      <4>3. Follows(t, nextId, u)
        <5>1. User(nextId) \in Message
          BY <1>0 DEF User, Message
        <5>2. t[Len(t)] = User(nextId)
          BY <1>0, <5>1, AppendProperties
        <5> QED BY <5>2 DEF Follows
      <4>4. P(t, nextId, u)
        <5> HIDE DEF t
        <5> QED BY <1>0, <2>1, <2>5, <4>1, <4>2, <4>3
      <4> QED BY <4>4
    <3>2. CASE unstored' = [unstored EXCEPT ![k] = @ \cup {nextId}] /\ UNCHANGED db
      <4> DEFINE w == u \cup {nextId}
      <4>1. db' = [db EXCEPT ![k] = s] /\ unstored' = [unstored EXCEPT ![k] = w]
        BY <1>0, <3>2
      <4>2. u \subseteq w /\ w \subseteq Nat
        BY <1>0
      <4>3. Orderly(s, nextId + 1, w)
        <5> HIDE DEF w, s, u
        <5> QED BY <1>0, <4>2, OrderlyParts
      <4>4. Follows(s, nextId, w)
        BY DEF Follows
      <4>5. P(s, nextId, w)
        <5> HIDE DEF w, s, u
        <5> QED BY <1>0, <2>1, <2>5, <4>1, <4>2, <4>3, <4>4
      <4> QED BY <4>5
    <3> QED BY <1>1, <3>1, <3>2 DEF PersistUser
  <2>7. caveats' \in [Key -> SUBSET Caveats]
    BY <2>1, NoteKeeps DEF Caveats
  <2>8. nextId' \in {nextId, nextId + 1} /\ live' \subseteq Key
    BY <2>1 DEF JobType
  <2> QED BY <2>1, <2>6, <2>7, <2>8
<1>2. ASSUME Answer(k) PROVE F /\ G
  <2>1. UNCHANGED <<live, nextId, jobVars, unstored>> /\ open[k] # 0 /\ open' = [open EXCEPT ![k] = 0]
    BY <1>2 DEF Answer
  <2>2. open[k] < nextId /\ Follows(s, open[k], u) /\ unstored' = [unstored EXCEPT ![k] = u]
    BY <1>0, <2>1 DEF HistoryInv
  <2>3. CASE db' = [db EXCEPT ![k] = Append(@, Assistant(open[k]))] /\ UNCHANGED caveats
    <3> DEFINE t == Append(s, Assistant(open[k]))
    <3>1. db' = [db EXCEPT ![k] = t]
      BY <1>0, <2>3
    <3>2. t \in Seq(Message) /\ Orderly(t, nextId, u)
      BY <1>0, <2>2, OrderlyWrites
    <3>3. P(t, 0, u)
      <4> HIDE DEF t
      <4> QED BY <1>0, <2>1, <2>2, <3>1, <3>2
    <3> QED BY <2>1, <2>3, <3>3 DEF JobType
  <2>4. CASE Note(k, "unanswered", TRUE) /\ UNCHANGED db
    <3>1. db' = [db EXCEPT ![k] = s]
      BY <1>0, <2>4
    <3>2. P(s, 0, u)
      <4> HIDE DEF s
      <4> QED BY <1>0, <2>1, <2>2, <3>1
    <3>3. caveats' \in [Key -> SUBSET Caveats]
      BY <2>4, NoteKeeps DEF Caveats
    <3> QED BY <2>1, <3>2, <3>3 DEF JobType
  <2> QED BY <1>2, <2>3, <2>4 DEF Answer
<1>3. ASSUME Reset(k) PROVE F /\ G
  <2>1. /\ db' = [db EXCEPT ![k] = <<>>] /\ live' = live \ {k} /\ UNCHANGED <<open, nextId, jobVars, unstored>>
        /\ Note(k, "reset", TRUE)
    BY <1>3 DEF Reset, Purge
  <2>2. <<>> \in Seq(Message) /\ Orderly(<<>>, nextId, u) /\ Follows(<<>>, open[k], u)
    BY DEF Orderly, Follows
  <2>3. /\ open' = [open EXCEPT ![k] = open[k]] /\ (open[k] # 0 => open[k] < nextId)
        /\ unstored' = [unstored EXCEPT ![k] = u]
    BY <1>0, <2>1 DEF HistoryInv
  <2>4. P(<<>>, open[k], u)
    BY <1>0, <2>1, <2>2, <2>3
  <2>5. caveats' \in [Key -> SUBSET Caveats]
    BY <2>1, NoteKeeps DEF Caveats
  <2> QED BY <2>1, <2>4, <2>5 DEF JobType
<1>4. F /\ G
  BY <1>1, <1>2, <1>3
<1>5. PICK t, o, w : P(t, o, w)
  BY <1>4
<1>6. UNCHANGED <<lastLen, at, todo, cur, seen, msgs, extracted>>
  BY <1>4 DEF jobVars
<1>7. JobType'
  <2>1. db' \in [Key -> Seq(Message)] /\ open' \in [Key -> Nat] /\ unstored' \in [Key -> SUBSET Nat]
    BY <1>0, <1>5
  <2> QED BY <1>4, <1>6, <2>1 DEF JobType
<1>8. ASSUME NEW x \in Key PROVE unstored[x] \subseteq unstored'[x]
  BY <1>0, <1>5
<1>9. ASSUME NEW x \in Key, NEW r \in Seq(Message), Orderly(r, nextId, unstored[x])
      PROVE  Orderly(r, nextId', unstored'[x])
  BY <1>0, <1>4, <1>8, <1>9, OrderlyParts
<1>10. ASSUME NEW x \in Key, NEW n \in DOMAIN extracted'[x]
      PROVE  IsSound(extracted'[x][n], unstored'[x]) /\ extracted'[x][n][1].id < nextId'
  <2>1. /\ extracted[x][n] \in Message \X Message
        /\ IsSound(extracted[x][n], unstored[x]) /\ extracted[x][n][1].id < nextId
    BY <1>6 DEF JobType, HistoryInv
  <2>2. extracted[x][n][1].id \in Nat
    BY <2>1 DEF Message
  <2>3. IsSound(extracted[x][n], unstored'[x])
    BY <1>8, <2>1 DEF IsSound
  <2> QED BY <1>0, <1>4, <1>6, <2>1, <2>2, <2>3
<1>11. ASSUME NEW x \in Key
      PROVE  /\ Orderly(db'[x], nextId', unstored'[x])
             /\ open'[x] # 0 => open'[x] < nextId' /\ Follows(db'[x], open'[x], unstored'[x])
  <2>1. CASE x = k
    <3>1. db'[x] = t /\ open'[x] = o /\ unstored'[x] = w
      BY <1>0, <1>5, <2>1
    <3> QED BY <1>5, <3>1
  <2>2. CASE x # k
    <3>1. /\ db'[x] = db[x] /\ open'[x] = open[x] /\ unstored'[x] = unstored[x]
          /\ open[x] \in Nat /\ db[x] \in Seq(Message)
      BY <1>0, <1>5, <2>2
    <3>2. /\ Orderly(db[x], nextId, unstored[x])
          /\ open[x] # 0 => open[x] < nextId /\ Follows(db[x], open[x], unstored[x])
      BY DEF HistoryInv
    <3>3. open[x] # 0 => open[x] < nextId'
      BY <1>0, <1>4, <3>1, <3>2
    <3>4. Orderly(db[x], nextId', unstored'[x])
      BY <1>9, <3>1, <3>2
    <3> QED BY <3>1, <3>2, <3>3, <3>4
  <2> QED BY <2>1, <2>2
<1>12. at' = "pairs" => Orderly(msgs', nextId', unstored'[cur'])
  BY <1>6, <1>9 DEF JobType, HistoryInv
<1> QED BY <1>7, <1>10, <1>11, <1>12 DEF HistoryInv

\* One round of the pairing loop gives the extractor a message with its answer.
LEMMA PairTakes ==
    ASSUME JobType, HistoryInv, at = "pairs", Len(msgs) >= 2
    PROVE  /\ cur \in Key /\ {msgs[1], msgs[2]} \subseteq Message
           /\ msgs[1].id \in Nat /\ msgs[1].id < nextId
           /\ IsExchange(msgs[1], msgs[2]) => IsSound(<<msgs[1], msgs[2]>>, unstored[cur])
           /\ LET t == SubSeq(msgs, 3, Len(msgs))
              IN  /\ t \in Seq(Message) /\ Len(t) = Len(msgs) - 2 /\ Orderly(t, nextId, unstored[cur])
                  /\ \A i \in 1 .. Len(t) : t[i] = msgs[i + 2]
           /\ \A u, a : Extract(u, a) =>
                /\ extracted' = [extracted EXCEPT ![cur] = extracted'[cur]]
                /\ Len(extracted'[cur]) = Len(extracted[cur]) + 1
                /\ {u, a} \subseteq Message =>
                     /\ extracted' \in [Key -> Seq(Message \X Message)]
                     /\ \A n \in 1 .. Len(extracted[cur]) : extracted'[cur][n] = extracted[cur][n]
                     /\ extracted'[cur][Len(extracted[cur]) + 1] = <<u, a>>
<1>1. /\ msgs \in Seq(Message) /\ Orderly(msgs, nextId, unstored[cur]) /\ cur \in Key /\ nextId \in Nat
      /\ extracted[cur] \in Seq(Message \X Message)
  BY DEF JobType, HistoryInv
<1>2. {msgs[1], msgs[2]} \subseteq Message /\ msgs[1].id \in Nat
  BY <1>1, EntriesNumbered
<1>3. 1 \in 1 .. Len(msgs) - 1 /\ 1 \in 1 .. Len(msgs) /\ 1 + 1 = 2 /\ 3 \in 1 .. Len(msgs) + 1
  BY <1>1
<1>4. msgs[1].id < nextId /\ (IsExchange(msgs[1], msgs[2]) => IsSound(<<msgs[1], msgs[2]>>, unstored[cur]))
  BY <1>1, <1>3 DEF Orderly, IsSound
<1>5. LET t == SubSeq(msgs, 3, Len(msgs))
      IN  /\ t \in Seq(Message) /\ Len(t) = Len(msgs) - 2 /\ Orderly(t, nextId, unstored[cur])
          /\ \A i \in 1 .. Len(t) : t[i] = msgs[i + 2]
  <2> DEFINE t == SubSeq(msgs, 3, Len(msgs))
  <2>1. /\ t \in Seq(Message) /\ Len(t) = Len(msgs) - 3 + 1 /\ Orderly(t, nextId, unstored[cur])
        /\ \A i \in 1 .. Len(t) : t[i] = msgs[3 + i - 1]
    BY <1>1, <1>3, OrderlyParts
  <2>2. Len(t) = Len(msgs) - 2 /\ \A i \in 1 .. Len(t) : t[i] = msgs[i + 2]
    <3> HIDE DEF t
    <3>1. \A i \in 1 .. Len(t) : 3 + i - 1 = i + 2
      BY <2>1
    <3> QED BY <1>1, <2>1, <3>1
  <2> QED BY <2>1, <2>2
<1>6. ASSUME NEW u, NEW a, Extract(u, a)
      PROVE  /\ extracted' = [extracted EXCEPT ![cur] = extracted'[cur]]
             /\ Len(extracted'[cur]) = Len(extracted[cur]) + 1
             /\ {u, a} \subseteq Message =>
                  /\ extracted' \in [Key -> Seq(Message \X Message)]
                  /\ \A n \in 1 .. Len(extracted[cur]) : extracted'[cur][n] = extracted[cur][n]
                  /\ extracted'[cur][Len(extracted[cur]) + 1] = <<u, a>>
  <2> DEFINE e == Append(extracted[cur], <<u, a>>)
  <2>1. extracted' = [extracted EXCEPT ![cur] = e] /\ extracted'[cur] = e
    BY <1>1, <1>6 DEF Extract, JobType
  <2>2. Len(e) = Len(extracted[cur]) + 1
    BY <1>1
  <2>3. ASSUME {u, a} \subseteq Message
        PROVE  /\ e \in Seq(Message \X Message)
               /\ \A n \in 1 .. Len(extracted[cur]) : e[n] = extracted[cur][n]
               /\ e[Len(extracted[cur]) + 1] = <<u, a>>
    <3>1. <<u, a>> \in Message \X Message
      BY <2>3
    <3> QED BY <1>1, <3>1, AppendProperties
  <2> HIDE DEF e
  <2>4. {u, a} \subseteq Message => extracted' \in [Key -> Seq(Message \X Message)]
    BY <2>1, <2>3 DEF JobType
  <2> QED BY <2>1, <2>2, <2>3, <2>4
<1> QED BY <1>1, <1>2, <1>4, <1>5, <1>6

\* What the job does keeps the types and the order.
LEMMA JobKeepsHistory ==
    ASSUME JobType, HistoryInv,
           \/ \E k \in Key : Prune(k) \/ ReadLen(k)
           \/ JobTick \/ JobReplaced \/ TickEnd \/ ReadRecent \/ Pair \/ Done
           \/ UNCHANGED extractionVars
    PROVE  JobType' /\ HistoryInv'
<1> DEFINE Same == UNCHANGED <<db, open, nextId, unstored>>
<1>1. ASSUME Same, at' # "pairs" \/ UNCHANGED <<at, cur, msgs>>, extracted' = extracted PROVE HistoryInv'
  BY <1>1 DEF HistoryInv
<1>2. <<>> \in Seq(Message) /\ \A u : Orderly(<<>>, nextId, u)
  BY DEF Orderly
<1>4. ASSUME NEW k \in Key, Prune(k) PROVE JobType' /\ HistoryInv'
  <2>1. Same /\ live' \subseteq live /\ UNCHANGED <<jobVars, caveats>>
    BY <1>4 DEF Prune
  <2> QED BY <1>1, <2>1 DEF JobType, jobVars
<1>5. ASSUME NEW k \in Key, ReadLen(k) PROVE JobType' /\ HistoryInv'
  <2>1. /\ Same /\ UNCHANGED <<live, lastLen, msgs, extracted>> /\ todo' = todo \ {k} /\ at = "loop"
        /\ \/ UNCHANGED <<at, cur, seen, caveats>>
           \/ /\ Len(db[k]) > lastLen[k] /\ cur' = k /\ seen' = Len(db[k]) /\ at' = "recent"
              /\ Note(k, "moved", open[k] # 0)
    BY <1>5 DEF ReadLen
  <2>2. CASE UNCHANGED <<at, cur, seen, caveats>>
    BY <1>1, <2>1, <2>2 DEF JobType
  <2>3. CASE /\ Len(db[k]) > lastLen[k] /\ cur' = k /\ seen' = Len(db[k]) /\ at' = "recent"
             /\ Note(k, "moved", open[k] # 0)
    <3>1. caveats' \in [Key -> SUBSET Caveats]
      BY <2>3, NoteKeeps DEF Caveats
    <3>2. Len(db[k]) \in Nat /\ lastLen[k] \in Nat
      BY DEF JobType
    <3> QED BY <1>1, <2>1, <2>3, <3>1, <3>2 DEF JobType
  <2> QED BY <2>1, <2>2, <2>3
<1>6. ASSUME NEW ks, Forget(ks) PROVE lastLen' \in [Key -> Nat] /\ caveats' \in [Key -> SUBSET Caveats]
  <2>1. \A k \in Key : (IF k \in ks THEN 0 ELSE lastLen[k]) \in Nat
    BY DEF JobType
  <2>2. \A k \in Key : (IF k \in ks /\ lastLen[k] > 0 THEN caveats[k] \cup {"forgotten"} ELSE caveats[k]) \in SUBSET Caveats
    BY DEF JobType, Caveats
  <2>3. lastLen' = [k \in Key |-> IF k \in ks THEN 0 ELSE lastLen[k]]
    BY <1>6 DEF Forget
  <2>4. caveats' = [k \in Key |-> IF k \in ks /\ lastLen[k] > 0 THEN caveats[k] \cup {"forgotten"} ELSE caveats[k]]
    BY <1>6 DEF Forget
  <2> QED BY <2>1, <2>2, <2>3, <2>4
<1>7. CASE JobTick
  <2>1. /\ Same /\ Forget(Key \ live) /\ todo' = live /\ at' = "loop"
        /\ UNCHANGED <<live, cur, seen, msgs, extracted>>
    BY <1>7 DEF JobTick
  <2> QED BY <1>1, <1>6, <2>1 DEF JobType
<1>8. CASE JobReplaced
  <2>1. /\ Same /\ Forget(Key) /\ at = "idle"
        /\ UNCHANGED <<live, at, todo, cur, seen, msgs, extracted>>
    BY <1>8 DEF JobReplaced
  <2> QED BY <1>1, <1>6, <2>1 DEF JobType
<1>9. CASE TickEnd
  <2>1. /\ Same /\ at' = "idle" /\ todo' = {}
        /\ UNCHANGED <<live, lastLen, cur, seen, msgs, extracted, caveats>>
    BY <1>9 DEF TickEnd
  <2> QED BY <1>1, <2>1 DEF JobType
<1>10. CASE ReadRecent
  <2>1. /\ Same /\ UNCHANGED <<live, lastLen, todo, cur, seen, extracted, caveats>> /\ at = "recent"
        /\ \/ msgs' = GetRecent(cur, seen - lastLen[cur]) /\ at' = "pairs"
           \/ msgs' = msgs /\ at' = "loop"
    BY <1>10 DEF ReadRecent
  <2>2. CASE msgs' = msgs /\ at' = "loop"
    BY <1>1, <2>1, <2>2 DEF JobType
  <2>3. CASE msgs' = GetRecent(cur, seen - lastLen[cur]) /\ at' = "pairs"
    <3>1. cur \in Key /\ Orderly(db[cur], nextId, unstored[cur]) /\ nextId \in Nat
      BY <2>1 DEF JobType, HistoryInv
    <3>2. PICK m \in 1 .. Len(db[cur]) + 1 : msgs' = SubSeq(db[cur], m, Len(db[cur])) /\ db[cur] \in Seq(Message)
      BY <2>1, <2>3, RecentIsEnd
    <3>3. msgs' \in Seq(Message) /\ Orderly(msgs', nextId, unstored[cur])
      BY <3>1, <3>2, OrderlyParts
    <3>4. HistoryInv'
      BY <2>1, <3>3 DEF HistoryInv
    <3> QED BY <2>1, <2>3, <3>1, <3>3, <3>4 DEF JobType
  <2> QED BY <2>1, <2>2, <2>3
<1>11. CASE Pair
  <2>1. /\ Same /\ UNCHANGED <<live, lastLen, todo, cur, seen>> /\ at = "pairs" /\ Len(msgs) >= 2
        /\ at' \in {"pairs", "loop"} /\ msgs' \in {SubSeq(msgs, 3, Len(msgs)), <<>>}
        /\ caveats' = caveats \/ Note(cur, "failed", TRUE)
        /\ extracted' = extracted \/ (IsExchange(msgs[1], msgs[2]) /\ Extract(msgs[1], msgs[2]))
    BY <1>11 DEF Pair
  <2>2. cur \in Key /\ nextId \in Nat
    BY <2>1 DEF JobType
  <2>3. msgs' \in Seq(Message) /\ Orderly(msgs', nextId, unstored[cur])
    BY <1>2, <2>1, PairTakes
  <2>4. caveats' \in [Key -> SUBSET Caveats]
    BY <2>1, <2>2, NoteKeeps DEF JobType, Caveats
  <2>5. /\ extracted' \in [Key -> Seq(Message \X Message)]
        /\ \A k \in Key : \A n \in DOMAIN extracted'[k] :
              IsSound(extracted'[k][n], unstored[k]) /\ extracted'[k][n][1].id < nextId
    <3>1. CASE extracted' = extracted
      BY <3>1 DEF JobType, HistoryInv
    <3>2. CASE IsExchange(msgs[1], msgs[2]) /\ Extract(msgs[1], msgs[2])
      <4>1. /\ extracted' = [extracted EXCEPT ![cur] = extracted'[cur]]
            /\ Len(extracted'[cur]) = Len(extracted[cur]) + 1
            /\ extracted' \in [Key -> Seq(Message \X Message)]
            /\ \A n \in 1 .. Len(extracted[cur]) : extracted'[cur][n] = extracted[cur][n]
            /\ extracted'[cur][Len(extracted[cur]) + 1] = <<msgs[1], msgs[2]>>
            /\ IsSound(<<msgs[1], msgs[2]>>, unstored[cur]) /\ msgs[1].id < nextId
        BY <2>1, <3>2, PairTakes
      <4>2. ASSUME NEW k \in Key, NEW n \in DOMAIN extracted'[k]
            PROVE  IsSound(extracted'[k][n], unstored[k]) /\ extracted'[k][n][1].id < nextId
        <5>1. CASE k # cur
          <6>1. extracted'[k] = extracted[k]
            BY <2>2, <4>1, <5>1 DEF JobType
          <6> QED BY <6>1 DEF HistoryInv
        <5>2. CASE k = cur
          <6>1. extracted[cur] \in Seq(Message \X Message) /\ extracted'[cur] \in Seq(Message \X Message)
            BY <2>2, <4>1 DEF JobType
          <6>2. n \in 1 .. Len(extracted[cur]) \/ n = Len(extracted[cur]) + 1
            BY <4>1, <4>2, <5>2, <6>1
          <6>3. CASE n = Len(extracted[cur]) + 1
            <7>1. extracted'[k][n] = <<msgs[1], msgs[2]>> /\ <<msgs[1], msgs[2]>>[1] = msgs[1]
              BY <4>1, <5>2, <6>3
            <7>2. IsSound(extracted'[k][n], unstored[k])
              BY <4>1, <5>2, <7>1, Zenon
            <7> QED BY <4>1, <7>1, <7>2
          <6>4. CASE n \in 1 .. Len(extracted[cur])
            <7>1. extracted'[cur][n] = extracted[cur][n] /\ n \in DOMAIN extracted[cur]
              BY <4>1, <6>1, <6>4
            <7> QED BY <2>2, <5>2, <7>1 DEF HistoryInv
          <6> QED BY <6>2, <6>3, <6>4
        <5> QED BY <5>1, <5>2
      <4> QED BY <4>1, <4>2
    <3> QED BY <2>1, <3>1, <3>2
  <2>6. HistoryInv'
    BY <2>1, <2>3, <2>5 DEF HistoryInv
  <2>7. JobType'
    BY <2>1, <2>2, <2>3, <2>4, <2>5 DEF JobType
  <2> QED BY <2>6, <2>7
<1>12. CASE Done
  <2>1. /\ Same /\ UNCHANGED <<live, todo, cur, seen, extracted, caveats>> /\ at = "pairs"
        /\ lastLen' = [lastLen EXCEPT ![cur] = seen] /\ msgs' = <<>> /\ at' = "loop"
    BY <1>12 DEF Done
  <2> QED BY <1>1, <1>2, <2>1 DEF JobType
<1>13. CASE UNCHANGED extractionVars
  BY <1>1, <1>13 DEF extractionVars, jobVars, JobType
<1> QED BY <1>4, <1>5, <1>7, <1>8, <1>9, <1>10, <1>11, <1>12, <1>13

\* Every step keeps the types and the order.
LEMMA NextHistoryInv == JobType /\ HistoryInv /\ [ExtractionNext]_extractionVars => JobType' /\ HistoryInv'
BY WritesHistory, JobKeepsHistory DEF ExtractionNext, Quiescent

\* A step that touches neither session k nor the job's work on it keeps Once(k).
LEMMA OnceKept ==
    ASSUME NEW k \in Key, Once(k),
           db'[k] = db[k], open'[k] = open[k], extracted'[k] = extracted[k],
           lastLen'[k] = lastLen[k],
           \/ UNCHANGED <<at, cur, seen, msgs>>
           \/ at \notin {"recent", "pairs"} /\ at' \notin {"recent", "pairs"}
           \/ cur # k /\ cur' # k
           \/ at \notin {"recent", "pairs"} /\ cur' # k
    PROVE  Once(k)'
<1>1. \A u : IsNew(k, u) <=> (u.role = "user" => \A n \in DOMAIN extracted'[k] : extracted'[k][n][1].id < u.id)
  BY DEF IsNew
<1> QED BY <1>1 DEF Once, IsNew, Extracting

\* Every step keeps OnceInv.
LEMMA NextOnceInv ==
    JobType /\ HistoryInv /\ OnceInv /\ [ExtractionNext]_extractionVars => OnceInv'
<1> SUFFICES ASSUME JobType, HistoryInv, OnceInv, [ExtractionNext]_extractionVars, NEW k \in Key,
                    caveats'[k] \cap {"moved", "failed", "forgotten"} = {}
             PROVE  Once(k)'
  BY DEF OnceInv
<1> DEFINE Clean == caveats[k] \cap {"moved", "failed", "forgotten"} = {}
<1>0. /\ db[k] \in Seq(Message) /\ extracted[k] \in Seq(Message \X Message) /\ nextId \in Nat
      /\ \A n \in DOMAIN extracted[k] : extracted[k][n][1].id \in Nat /\ extracted[k][n][1].id < nextId
  <2>1. db[k] \in Seq(Message) /\ extracted[k] \in Seq(Message \X Message) /\ nextId \in Nat
    BY DEF JobType
  <2>2. \A n \in DOMAIN extracted[k] : extracted[k][n][1] \in Message /\ extracted[k][n][1].id < nextId
    BY <2>1 DEF HistoryInv
  <2> QED BY <2>1, <2>2 DEF Message
<1>1. ASSUME Clean PROVE Once(k)
  BY <1>1 DEF OnceInv
<1>2. CASE UNCHANGED extractionVars
  BY <1>1, <1>2, OnceKept DEF extractionVars, jobVars
<1>3. ASSUME NEW x \in Key, PersistUser(x) PROVE Once(k)'
  <2>1. /\ open' = [open EXCEPT ![x] = nextId] /\ db' \in {[db EXCEPT ![x] = Append(db[x], User(nextId))], db}
        /\ UNCHANGED <<lastLen, at, cur, seen, msgs, extracted>>
        /\ Note(x, "moved", at = "recent" /\ cur = x)
    BY <1>3 DEF PersistUser, jobVars, JobType
  <2>2. Clean /\ ~(x = k /\ at = "recent" /\ cur = x)
    BY <2>1, NoteKeeps DEF Caveats
  <2>3. CASE x # k
    <3>1. db'[k] = db[k] /\ open'[k] = open[k]
      BY <2>1, <2>3 DEF JobType
    <3> QED BY <1>1, <2>1, <2>2, <3>1, OnceKept
  <2>5. CASE x = k /\ db' = db
    <3>1. Once(k) /\ ~(at = "recent" /\ cur = k) /\ UNCHANGED <<db, lastLen, at, cur, seen, msgs, extracted>>
      BY <1>1, <2>1, <2>2, <2>5
    <3>2. \A v : IsNew(k, v)' <=> IsNew(k, v)
      BY <3>1 DEF IsNew
    <3> QED BY <3>1, <3>2 DEF Once, Extracting, IsNew
  <2>4. CASE x = k /\ db' = [db EXCEPT ![x] = Append(db[x], User(nextId))]
    <3>1. User(nextId) \in Message /\ User(nextId).id = nextId
      BY <1>0 DEF User, Message
    <3>2. /\ Len(db'[k]) = Len(db[k]) + 1 /\ db'[k][Len(db[k]) + 1] = User(nextId)
          /\ \A n \in 1 .. Len(db[k]) : db'[k][n] = db[k][n]
      BY <1>0, <2>1, <2>4, <3>1, AppendProperties DEF JobType
    <3>3. Extracting(k) => \A i \in 1 .. Len(msgs) : msgs[i].id < nextId
      BY DEF Extracting, HistoryInv, Orderly
    <3>4. IsNew(k, User(nextId))
      BY <1>0, <3>1 DEF IsNew
    <3>5. \A n \in 1 .. Len(db'[k]) : n \in 1 .. Len(db[k]) \/ n = Len(db[k]) + 1
      BY <1>0, <3>2
    <3>6. \A u : IsNew(k, u)' <=> IsNew(k, u)
      BY <2>1 DEF IsNew
    <3>7. UNCHANGED <<lastLen, at, cur, seen, msgs, extracted>>
      BY <2>1
    <3>8. Once(k) /\ ~(at = "recent" /\ cur = k)
      BY <1>1, <2>2, <2>4
    <3>9. ~Extracting(k)' => \A n \in 1 .. Len(db'[k]) : n > lastLen'[k] => IsNew(k, db[k][n])'
      BY <3>2, <3>4, <3>5, <3>7, <3>8 DEF Once, Extracting, IsNew
    <3>10. Extracting(k)' => \A n \in 1 .. Len(db'[k]) : n > seen' =>
                /\ IsNew(k, db[k][n])'
                /\ db'[k][n].role = "user" => \A i \in 1 .. Len(msgs') : msgs'[i].id < db'[k][n].id
      BY <3>1, <3>2, <3>3, <3>4, <3>5, <3>7, <3>8 DEF Once, Extracting, IsNew
    <3>11. Extracting(k)' => \A i \in 1 .. Len(msgs') : IsNew(k, msgs[i])'
      BY <3>7, <3>8 DEF Once, Extracting, IsNew
    <3>12. \A m, n \in DOMAIN extracted'[k] : m < n => extracted'[k][m][1].id < extracted'[k][n][1].id
      BY <3>7, <3>8 DEF Once
    <3> QED BY <3>7, <3>8, <3>9, <3>10, <3>11, <3>12 DEF Once
  <2> QED BY <2>1, <2>3, <2>4, <2>5
<1>4. ASSUME NEW x \in Key, Answer(x) PROVE Once(k)'
  <2>1. /\ open[x] # 0 /\ open' = [open EXCEPT ![x] = 0] /\ UNCHANGED <<lastLen, at, cur, seen, msgs, extracted>>
        /\ \/ db' = [db EXCEPT ![x] = Append(db[x], Assistant(open[x]))] /\ UNCHANGED caveats
           \/ Note(x, "unanswered", TRUE) /\ UNCHANGED db
    BY <1>4 DEF Answer, jobVars, JobType
  <2>2. Once(k)
    BY <1>1, <2>1, NoteKeeps DEF Caveats
  <2>3. CASE x # k
    <3>1. db'[k] = db[k] /\ open'[k] = open[k]
      BY <2>1, <2>3 DEF JobType
    <3> QED BY <2>1, <2>2, <3>1, OnceKept
  <2>4. CASE x = k
    <3>1. open'[k] = 0 /\ open[k] # 0
      BY <2>1, <2>4 DEF JobType
    <3>2. ~(at = "recent" /\ cur = k)
      BY <2>2, <3>1 DEF Once
    <3>3. \A n \in 1 .. Len(db'[k]) : (n \in 1 .. Len(db[k]) /\ db'[k][n] = db[k][n]) \/ db'[k][n].role # "user"
      <4>1. CASE UNCHANGED db
        BY <4>1
      <4>2. CASE db' = [db EXCEPT ![x] = Append(db[x], Assistant(open[x]))]
        <5>1. Assistant(open[x]) \in Message /\ Assistant(open[x]).role = "assistant"
          BY DEF Assistant, Message, JobType
        <5>2. /\ Len(db'[k]) = Len(db[k]) + 1 /\ db'[k][Len(db[k]) + 1] = Assistant(open[x])
              /\ \A n \in 1 .. Len(db[k]) : db'[k][n] = db[k][n]
          BY <1>0, <2>4, <4>2, <5>1, AppendProperties DEF JobType
        <5> QED BY <1>0, <5>1, <5>2
      <4> QED BY <2>1, <4>1, <4>2
    <3>7. UNCHANGED <<lastLen, at, cur, seen, msgs, extracted>>
      BY <2>1
    <3>9. ~Extracting(k)' => \A n \in 1 .. Len(db'[k]) : n > lastLen'[k] => IsNew(k, db[k][n])'
      BY <2>2, <3>3, <3>7 DEF Once, Extracting, IsNew
    <3>10. Extracting(k)' => \A n \in 1 .. Len(db'[k]) : n > seen' =>
                /\ IsNew(k, db[k][n])'
                /\ db'[k][n].role = "user" => \A i \in 1 .. Len(msgs') : msgs'[i].id < db'[k][n].id
      BY <2>2, <3>3, <3>7 DEF Once, Extracting, IsNew
    <3>11. Extracting(k)' => \A i \in 1 .. Len(msgs') : IsNew(k, msgs[i])'
      BY <2>2, <3>7 DEF Once, Extracting, IsNew
    <3>12. \A m, n \in DOMAIN extracted'[k] : m < n => extracted'[k][m][1].id < extracted'[k][n][1].id
      BY <2>2, <3>7 DEF Once
    <3> QED BY <3>2, <3>7, <3>9, <3>10, <3>11, <3>12 DEF Once
  <2> QED BY <2>3, <2>4
<1>5. ASSUME NEW x \in Key, Reset(x) PROVE Once(k)'
  <2>1. /\ db' = [db EXCEPT ![x] = <<>>] /\ UNCHANGED <<open, lastLen, at, cur, seen, msgs, extracted>>
        /\ Note(x, "reset", TRUE)
    BY <1>5 DEF Reset, Purge, jobVars
  <2>2. Once(k)
    BY <1>1, <2>1, NoteKeeps DEF Caveats
  <2>3. CASE x # k
    <3>1. db'[k] = db[k]
      BY <2>1, <2>3 DEF JobType
    <3> QED BY <2>1, <2>2, <3>1, OnceKept
  <2>4. CASE x = k
    <3>1. db'[k] = <<>> /\ 1 .. Len(db'[k]) = {}
      BY <2>1, <2>4 DEF JobType
    <3>2. Extracting(k)' => \A i \in 1 .. Len(msgs') : IsNew(k, msgs[i])'
      BY <2>1, <2>2 DEF Once, Extracting, IsNew
    <3> QED BY <2>1, <2>2, <3>1, <3>2 DEF Once
  <2> QED BY <2>3, <2>4
<1>6. ASSUME NEW x \in Key, Prune(x) PROVE Once(k)'
  BY <1>1, <1>6, OnceKept DEF Prune, jobVars
<1>7. ASSUME NEW x \in Key, ReadLen(x) PROVE Once(k)'
  <2>1. /\ at = "loop" /\ UNCHANGED <<db, open, lastLen, msgs, extracted>>
        /\ \/ UNCHANGED <<at, cur, seen, caveats>>
           \/ cur' = x /\ seen' = Len(db[x]) /\ at' = "recent" /\ Note(x, "moved", open[x] # 0)
    BY <1>7 DEF ReadLen
  <2>2. CASE UNCHANGED <<at, cur, seen, caveats>>
    BY <1>1, <2>1, <2>2, OnceKept
  <2>3. CASE cur' = x /\ seen' = Len(db[x]) /\ at' = "recent" /\ Note(x, "moved", open[x] # 0)
    <3>1. Clean /\ ~(x = k /\ open[x] # 0)
      BY <2>3, NoteKeeps DEF Caveats
    <3>2. CASE x # k
      BY <1>1, <2>1, <2>3, <3>1, <3>2, OnceKept
    <3>3. CASE x = k
      BY <1>1, <2>1, <2>3, <3>1, <3>3 DEF Once, Extracting, IsNew
    <3> QED BY <3>2, <3>3
  <2> QED BY <2>1, <2>2, <2>3
<1>8. ASSUME NEW ks, Forget(ks) PROVE Clean /\ lastLen'[k] = lastLen[k]
  <2>1. /\ lastLen'[k] = IF k \in ks THEN 0 ELSE lastLen[k]
        /\ caveats'[k] = IF k \in ks /\ lastLen[k] > 0 THEN caveats[k] \cup {"forgotten"} ELSE caveats[k]
    BY <1>8 DEF Forget
  <2>2. lastLen[k] \in Nat
    BY DEF JobType
  <2>3. ~(k \in ks /\ lastLen[k] > 0)
    BY <2>1
  <2> QED BY <2>1, <2>2, <2>3
<1>9. CASE JobTick \/ JobReplaced
  <2>1. /\ UNCHANGED <<db, open, cur, seen, msgs, extracted>> /\ at = "idle" /\ at' \in {"idle", "loop"}
        /\ \E ks : Forget(ks)
    BY <1>9 DEF JobTick, JobReplaced
  <2> QED BY <1>1, <1>8, <2>1, OnceKept
<1>10. CASE TickEnd
  BY <1>1, <1>10, OnceKept DEF TickEnd
<1>11. CASE ReadRecent
  <2>1. /\ at = "recent" /\ UNCHANGED <<db, open, lastLen, cur, seen, extracted, caveats>>
        /\ \/ msgs' = GetRecent(cur, seen - lastLen[cur]) /\ at' = "pairs"
           \/ at' = "loop"
    BY <1>11 DEF ReadRecent
  <2>2. Once(k)
    BY <1>1, <2>1
  <2>3. CASE cur # k
    BY <2>1, <2>2, <2>3, OnceKept
  <2>4. CASE cur = k /\ at' = "loop"
    BY <2>1, <2>2, <2>4 DEF Once, Extracting, IsNew
  <2>5. CASE cur = k /\ at' = "pairs"
    <3>1. open[k] = 0 /\ (db[k] = <<>> \/ Len(db[k]) = seen)
      BY <2>1, <2>2, <2>5 DEF Once
    <3>2. \A n \in 1 .. Len(db[k]) : n > lastLen[k] => IsNew(k, db[k][n])
      BY <2>1, <2>2 DEF Once, Extracting
    <3> DEFINE N == seen - lastLen[k]
               M == IF N < Len(db[k]) THEN Len(db[k]) - N + 1 ELSE 1
    <3>3. msgs' = SubSeq(db[k], M, Len(db[k])) /\ M \in 1 .. Len(db[k]) + 1 /\ N \in Nat \ {0}
      BY <2>1, <2>5, RecentIsEnd
    <3>4. Orderly(db[k], nextId, unstored[k])
      BY DEF HistoryInv
    <3>5. Len(msgs') = Len(db[k]) - M + 1 /\ \A i \in 1 .. Len(msgs') : msgs'[i] = db[k][M + i - 1]
      <4> HIDE DEF M
      <4> QED BY <1>0, <3>3, <3>4, OrderlyParts
    <3>6. db[k] # <<>> => M = lastLen[k] + 1
      <4>1. seen \in Nat /\ lastLen[k] \in Nat
        BY DEF JobType
      <4> QED BY <1>0, <3>1, <3>3, <4>1
    <3>7. db[k] = <<>> => Len(db[k]) = 0
      OBVIOUS
    <3>8. \A i \in 1 .. Len(msgs') : M + i - 1 \in 1 .. Len(db[k]) /\ M + i - 1 > lastLen[k]
      <4>1. lastLen[k] \in Nat /\ Len(db[k]) \in Nat
        BY <1>0 DEF JobType
      <4> HIDE DEF M
      <4>2. M \in 1 .. Len(db[k]) + 1 /\ Len(msgs') = Len(db[k]) - M + 1
        BY <3>3, <3>5
      <4>3. M = lastLen[k] + 1 \/ Len(db[k]) = 0
        BY <3>6, <3>7
      <4>4. Len(db[k]) = 0 => 1 .. Len(msgs') = {}
        BY <4>1, <4>2
      <4>5. \A i \in 1 .. Len(msgs') : M + i - 1 \in 1 .. Len(db[k])
        BY <4>1, <4>2
      <4> QED BY <4>1, <4>2, <4>3, <4>4, <4>5
    <3>9. \A i \in 1 .. Len(msgs') : IsNew(k, msgs[i])'
      <4> HIDE DEF M
      <4> QED BY <2>1, <3>2, <3>5, <3>8 DEF IsNew
    <3>10. \A n \in 1 .. Len(db'[k]) : ~(n > seen')
      <4>1. seen \in Nat
        BY DEF JobType
      <4> QED BY <1>0, <2>1, <3>1, <3>7, <4>1
    <3> QED BY <2>1, <2>2, <2>5, <3>9, <3>10 DEF Once, Extracting
  <2> QED BY <2>1, <2>3, <2>4, <2>5
<1>12. CASE Pair
  <2>1. /\ UNCHANGED <<db, open, lastLen, cur, seen>> /\ at = "pairs" /\ Len(msgs) >= 2 /\ cur \in Key
        /\ \/ /\ ~IsExchange(msgs[1], msgs[2]) /\ msgs' = SubSeq(msgs, 3, Len(msgs))
              /\ UNCHANGED <<at, extracted, caveats>>
           \/ /\ IsExchange(msgs[1], msgs[2]) /\ msgs' = SubSeq(msgs, 3, Len(msgs))
              /\ Extract(msgs[1], msgs[2]) /\ UNCHANGED <<at, caveats>>
           \/ /\ Note(cur, "failed", TRUE) /\ at' = "loop"
              /\ extracted' = extracted \/ Extract(msgs[1], msgs[2])
    BY <1>12 DEF Pair, JobType
  <2>2. Once(k) /\ ~(cur = k /\ Note(cur, "failed", TRUE))
    BY <1>1, <2>1, NoteKeeps DEF Caveats
  <2>3. CASE cur # k
    <3>1. extracted'[k] = extracted[k]
      BY <2>1, <2>3 DEF Extract, JobType
    <3> QED BY <2>1, <2>2, <2>3, <3>1, OnceKept
  <2>4. CASE cur = k
    <3>1. /\ at' = "pairs" /\ msgs \in Seq(Message) /\ Orderly(msgs, nextId, unstored[cur])
      BY <2>1, <2>2, <2>4 DEF JobType, HistoryInv
    <3>2. /\ Len(msgs') = Len(msgs) - 2 /\ \A i \in 1 .. Len(msgs') : msgs'[i] = msgs[i + 2]
      BY <2>1, <2>2, <2>4, PairTakes
    <3>3. \A i \in 1 .. Len(msgs') : i + 2 \in 1 .. Len(msgs) /\ 1 < i + 2 /\ msgs'[i] = msgs[i + 2]
      BY <3>1, <3>2
    <3>4. /\ \A i \in 1 .. Len(msgs) : IsNew(k, msgs[i])
          /\ \A n \in 1 .. Len(db[k]) : n > seen =>
                /\ IsNew(k, db[k][n])
                /\ db[k][n].role = "user" => \A i \in 1 .. Len(msgs) : msgs[i].id < db[k][n].id
      BY <2>1, <2>2, <2>4 DEF Once, Extracting
    <3>5. CASE extracted' = extracted
      <4>1. \A i \in 1 .. Len(msgs') : IsNew(k, msgs[i])'
        BY <3>3, <3>4, <3>5 DEF IsNew
      <4>2. \A n \in 1 .. Len(db[k]) : n > seen =>
                /\ IsNew(k, db[k][n])'
                /\ db[k][n].role = "user" => \A i \in 1 .. Len(msgs') : msgs'[i].id < db[k][n].id
        BY <2>1, <3>3, <3>4, <3>5 DEF IsNew
      <4> QED BY <2>1, <2>2, <2>4, <3>1, <3>5, <4>1, <4>2 DEF Once, Extracting
    <3>6. CASE IsExchange(msgs[1], msgs[2]) /\ Extract(msgs[1], msgs[2])
      <4> DEFINE e == extracted[k]
                 L == Len(extracted[k])
      <4>1. /\ Len(extracted'[k]) = L + 1 /\ extracted'[k] \in Seq(Message \X Message)
            /\ \A n \in 1 .. L : extracted'[k][n] = e[n]
            /\ extracted'[k][L + 1] = <<msgs[1], msgs[2]>>
        BY <2>1, <2>4, <3>6, PairTakes
      <4>2. \A n \in DOMAIN extracted'[k] : (n \in DOMAIN e /\ n \in 1 .. L /\ extracted'[k][n] = e[n])
                                         \/ (n = L + 1 /\ extracted'[k][n][1] = msgs[1])
        BY <1>0, <4>1
      <4>3. \A n \in DOMAIN e : e[n][1].id < msgs[1].id
        BY <2>1, <3>1, <3>4, <3>6 DEF IsNew, IsExchange
      <4>4. \A m, n \in DOMAIN extracted'[k] : m < n => extracted'[k][m][1].id < extracted'[k][n][1].id
        <5>1. \A m, n \in DOMAIN e : m < n => e[m][1].id < e[n][1].id
          BY <2>2 DEF Once
        <5> QED BY <1>0, <4>2, <4>3, <5>1
      <4>5. ASSUME NEW u, IsNew(k, u), u.role = "user" => msgs[1].id < u.id
            PROVE  IsNew(k, u)'
        <5>1. u.role = "user" => \A n \in DOMAIN extracted'[k] : extracted'[k][n][1].id < u.id
          BY <4>2, <4>5 DEF IsNew
        <5> QED BY <5>1 DEF IsNew
      <4>6. \A i \in 1 .. Len(msgs') : IsNew(k, msgs'[i]) /\ (msgs'[i].role = "user" => msgs[1].id < msgs'[i].id)
        <5>1. 1 \in 1 .. Len(msgs)
          BY <2>1, <3>1
        <5> QED BY <3>1, <3>3, <3>4, <5>1 DEF Orderly
      <4>7. \A i \in 1 .. Len(msgs') : IsNew(k, msgs[i])'
        BY <4>2, <4>6 DEF IsNew
      <4>8. ASSUME NEW n \in 1 .. Len(db[k]), n > seen
            PROVE  /\ IsNew(k, db[k][n])'
                   /\ db[k][n].role = "user" => \A i \in 1 .. Len(msgs') : msgs'[i].id < db[k][n].id
        <5>1. db[k][n].role = "user" => msgs[1].id < db[k][n].id
          BY <2>1, <3>1, <3>4, <4>8
        <5>2. db'[k] = db[k]
          BY <2>1
        <5>3. IsNew(k, db[k][n])'
          BY <3>4, <4>2, <4>8, <5>1, <5>2 DEF IsNew
        <5> QED BY <3>3, <3>4, <4>8, <5>3
      <4> QED BY <2>1, <2>2, <2>4, <3>1, <4>4, <4>7, <4>8 DEF Once, Extracting
    <3> QED BY <2>1, <2>2, <2>4, <3>5, <3>6
  <2> QED BY <2>3, <2>4
<1>13. CASE Done
  <2>1. /\ UNCHANGED <<db, open, cur, seen, extracted, caveats>> /\ at = "pairs" /\ cur \in Key
        /\ lastLen' = [lastLen EXCEPT ![cur] = seen] /\ msgs' = <<>> /\ at' = "loop"
    BY <1>13 DEF Done, JobType
  <2>2. CASE cur # k
    <3>1. lastLen'[k] = lastLen[k]
      BY <2>1, <2>2 DEF JobType
    <3> QED BY <1>1, <2>1, <2>2, <3>1, OnceKept
  <2>3. CASE cur = k
    <3>1. lastLen'[k] = seen
      BY <2>1, <2>3 DEF JobType
    <3> QED BY <1>1, <2>1, <2>3, <3>1 DEF Once, Extracting, IsNew
  <2> QED BY <2>2, <2>3
<1> QED BY <1>2, <1>3, <1>4, <1>5, <1>6, <1>7, <1>9, <1>10, <1>11, <1>12, <1>13 DEF ExtractionNext, Quiescent

\* What holds at the start.
LEMMA InitExtraction == ExtractionInit => JobType /\ HistoryInv /\ OnceInv /\ CompleteInv
<1> SUFFICES ASSUME ExtractionInit PROVE JobType /\ HistoryInv /\ OnceInv /\ CompleteInv
  OBVIOUS
<1>1. /\ <<>> \in Seq(Message) /\ <<>> \in Seq(Message \X Message) /\ Len(<<>>) = 0 /\ DOMAIN <<>> = {}
  OBVIOUS
<1>2. JobType
  BY <1>1 DEF ExtractionInit, JobType
<1>3. \A k \in Key : db[k] = <<>> /\ extracted[k] = <<>> /\ open[k] = 0 /\ lastLen[k] = 0
  BY DEF ExtractionInit
<1>4. msgs = <<>> /\ at = "idle"
  BY DEF ExtractionInit
<1>5. \A u : Orderly(<<>>, nextId, u)
  BY DEF Orderly
<1>6. HistoryInv
  BY <1>1, <1>3, <1>4, <1>5 DEF HistoryInv
<1>7. OnceInv
  BY <1>1, <1>3, <1>4 DEF OnceInv, Once, Extracting
<1>8. CompleteInv
  BY <1>1, <1>3, <1>4 DEF CompleteInv, Complete, Extracting, IsWhole, Covered
<1> QED BY <1>2, <1>6, <1>7, <1>8

\* ExtractionSound for any sessions, messages and ticks: the job draws facts only
\* from a message and its own answer, or from the answer to a message the pipeline
\* failed to store, whatever the pipeline, /new and the pruner do between its
\* queries, and twice from no exchange while its work is not disturbed.
THEOREM FactsSound == ExtractionSpec => []ExtractionSound
<1>1. JobType /\ HistoryInv /\ OnceInv => ExtractionSound
  <2> SUFFICES ASSUME JobType, HistoryInv, OnceInv PROVE ExtractionSound
    OBVIOUS
  <2>1. OnlyRealExchanges
    BY DEF HistoryInv, OnlyRealExchanges, IsSound
  <2>2. ASSUME NEW k \in Key, caveats[k] \cap {"moved", "failed", "forgotten"} = {},
               NEW m \in DOMAIN extracted[k], NEW n \in DOMAIN extracted[k], extracted[k][m] = extracted[k][n]
        PROVE  m = n
    <3>1. extracted[k] \in Seq(Message \X Message)
      BY DEF JobType
    <3>2. {m, n} \subseteq Nat /\ extracted[k][m][1] \in Message
      BY <3>1
    <3>3. extracted[k][m][1].id \in Nat
      BY <3>2 DEF Message
    <3>4. (m < n \/ n < m) => extracted[k][m][1].id < extracted[k][m][1].id
      BY <2>2 DEF OnceInv, Once
    <3> QED BY <3>2, <3>3, <3>4
  <2> QED BY <2>1, <2>2 DEF ExtractionSound, ExtractedOnce
<1> QED BY <1>1, InitExtraction, NextHistoryInv, NextOnceInv, PTL DEF ExtractionSpec

\* A step that touches neither session k nor the job's work on it keeps Complete(k).
LEMMA CompleteKept ==
    ASSUME NEW k \in Key, Complete(k),
           db'[k] = db[k], open'[k] = open[k], extracted'[k] = extracted[k],
           lastLen'[k] = lastLen[k],
           \/ UNCHANGED <<at, cur, seen, msgs>>
           \/ at' \notin {"recent", "pairs"}
           \/ cur' # k
    PROVE  Complete(k)'
<1>1. \A n \in 1 .. Len(db'[k]) : db'[k][n].role = "user" <=> n = 1 \/ db'[k][n - 1].role = "assistant"
  BY DEF Complete
<1>2. open'[k] = 0 <=> IsWhole(k, Len(db[k]))'
  BY DEF Complete, IsWhole
<1>3. IsWhole(k, lastLen[k])' /\ Covered(k, lastLen[k])'
  BY DEF Complete, IsWhole, Covered
<1>4. at' = "recent" /\ cur' = k => seen' = Len(db'[k]) /\ open'[k] = 0
  BY DEF Complete
<1>5. ASSUME Extracting(k)'
      PROVE  /\ Len(msgs') <= seen' /\ IsWhole(k, seen)'
             /\ IsWhole(k, seen - Len(msgs))' /\ Covered(k, seen - Len(msgs))'
             /\ \A i \in 1 .. Len(msgs') : msgs'[i] = db'[k][seen' - Len(msgs') + i]
  <2>1. UNCHANGED <<at, cur, seen, msgs>> /\ Extracting(k)
    BY <1>5 DEF Extracting
  <2>2. /\ Len(msgs) <= seen /\ IsWhole(k, seen)
        /\ IsWhole(k, seen - Len(msgs)) /\ Covered(k, seen - Len(msgs))
        /\ \A i \in 1 .. Len(msgs) : msgs[i] = db[k][seen - Len(msgs) + i]
    BY <2>1 DEF Complete
  <2> QED BY <2>1, <2>2 DEF IsWhole, Covered
<1> QED BY <1>1, <1>2, <1>3, <1>4, <1>5 DEF Complete

\* Writing at the end of a history, or extracting more, leaves what was covered.
LEMMA CoveredKept ==
    ASSUME NEW k \in Key, NEW n \in Nat, db[k] \in Seq(Message), db'[k] \in Seq(Message),
           IsWhole(k, n), Covered(k, n),
           Len(db'[k]) >= Len(db[k]), \A m \in 1 .. Len(db[k]) : db'[k][m] = db[k][m],
           \A i \in DOMAIN extracted[k] : i \in DOMAIN extracted'[k] /\ extracted'[k][i] = extracted[k][i]
    PROVE  /\ n > 0 => n <= Len(db'[k]) /\ db'[k][n].role = "assistant"
           /\ \A m \in 1 .. Len(db'[k]) : m <= n /\ db'[k][m].role = "assistant" =>
                 \E i \in DOMAIN extracted'[k] : extracted'[k][i][1].id = db'[k][m].id
           /\ n <= Len(db[k])
<1>1. Len(db[k]) \in Nat /\ Len(db'[k]) \in Nat
  OBVIOUS
<1>2. n <= Len(db[k])
  BY <1>1 DEF IsWhole
<1>3. n > 0 => n \in 1 .. Len(db[k]) /\ db[k][n].role = "assistant"
  BY <1>1, <1>2 DEF IsWhole
<1>4. ASSUME NEW m \in 1 .. Len(db'[k]), m <= n, db'[k][m].role = "assistant"
      PROVE  \E i \in DOMAIN extracted'[k] : extracted'[k][i][1].id = db'[k][m].id
  <2>1. m \in 1 .. Len(db[k]) /\ db'[k][m] = db[k][m]
    BY <1>1, <1>2, <1>4
  <2>2. PICK i \in DOMAIN extracted[k] : extracted[k][i][1].id = db[k][m].id
    BY <1>4, <2>1 DEF Covered
  <2> QED BY <2>1, <2>2
<1> QED BY <1>1, <1>2, <1>3, <1>4

\* A message or an answer is added to the history of session k.
LEMMA CompleteGrows ==
    ASSUME JobType, NEW k \in Key, Complete(k), NEW x \in Message,
           db'[k] = Append(db[k], x), UNCHANGED <<lastLen, at, cur, seen, msgs, extracted>>,
           ~(at = "recent" /\ cur = k),
           \/ open[k] = 0 /\ open'[k] # 0 /\ x.role = "user"
           \/ open[k] # 0 /\ open'[k] = 0 /\ x.role = "assistant"
    PROVE  Complete(k)'
<1> DEFINE L == Len(db[k])
<1>0. /\ db[k] \in Seq(Message) /\ L \in Nat /\ lastLen[k] \in Nat /\ seen \in Nat
      /\ msgs \in Seq(Message) /\ Len(msgs) \in Nat
  BY DEF JobType
<1>1. /\ db'[k] \in Seq(Message) /\ Len(db'[k]) = L + 1 /\ db'[k][L + 1] = x
      /\ \A n \in 1 .. L : db'[k][n] = db[k][n]
  BY <1>0, AppendProperties
<1>2. \A n \in 1 .. L : db[k][n].role \in {"user", "assistant"}
  BY <1>0, EntriesNumbered
<1>3. open[k] = 0 <=> IsWhole(k, L)
  BY DEF Complete
<1>4. x.role = "user" <=> (L + 1 = 1 \/ db[k][L].role = "assistant")
  BY <1>0, <1>2, <1>3 DEF IsWhole
<1>5. \A n \in 1 .. L + 1 : db'[k][n].role = "user" <=> n = 1 \/ db'[k][n - 1].role = "assistant"
  <2> TAKE n \in 1 .. L + 1
  <2>1. CASE n = L + 1
    <3>1. n # 1 => L \in 1 .. L /\ n - 1 = L
      BY <1>0, <2>1
    <3> QED BY <1>0, <1>1, <1>4, <2>1, <3>1
  <2>2. CASE n # L + 1
    <3>1. n \in 1 .. L /\ (n # 1 => n - 1 \in 1 .. L)
      BY <1>0, <2>2
    <3>2. db[k][n].role = "user" <=> n = 1 \/ db[k][n - 1].role = "assistant"
      BY <3>1 DEF Complete
    <3> QED BY <1>1, <3>1, <3>2
  <2> QED BY <2>1, <2>2
<1>6. open'[k] = 0 <=> (L + 1 > 0 => L + 1 <= L + 1 /\ db'[k][L + 1].role = "assistant")
  BY <1>0, <1>1
<1>7. ASSUME NEW n \in Nat, IsWhole(k, n), Covered(k, n)
      PROVE  /\ n > 0 => n <= Len(db'[k]) /\ db'[k][n].role = "assistant"
             /\ \A m \in 1 .. Len(db'[k]) : m <= n /\ db'[k][m].role = "assistant" =>
                   \E i \in DOMAIN extracted'[k] : extracted'[k][i][1].id = db'[k][m].id
  <2>1. Len(db'[k]) >= Len(db[k])
    BY <1>0, <1>1
  <2>2. \A i \in DOMAIN extracted[k] : i \in DOMAIN extracted'[k] /\ extracted'[k][i] = extracted[k][i]
    OBVIOUS
  <2> QED BY <1>0, <1>1, <1>7, <2>1, <2>2, CoveredKept
<1>8. IsWhole(k, lastLen[k])' /\ Covered(k, lastLen[k])'
  BY <1>0, <1>7 DEF Complete, IsWhole, Covered
<1>9. ASSUME Extracting(k)
      PROVE  /\ Len(msgs) <= seen /\ IsWhole(k, seen)'
             /\ IsWhole(k, seen - Len(msgs))' /\ Covered(k, seen - Len(msgs))'
             /\ \A i \in 1 .. Len(msgs) : msgs[i] = db'[k][seen - Len(msgs) + i]
  <2>1. /\ Len(msgs) <= seen /\ IsWhole(k, seen) /\ IsWhole(k, seen - Len(msgs)) /\ Covered(k, seen - Len(msgs))
        /\ \A i \in 1 .. Len(msgs) : msgs[i] = db[k][seen - Len(msgs) + i]
    BY <1>9 DEF Complete
  <2>2. seen - Len(msgs) \in Nat /\ seen <= L
    BY <1>0, <2>1 DEF IsWhole
  <2>3. IsWhole(k, seen - Len(msgs))' /\ Covered(k, seen - Len(msgs))'
    BY <1>7, <2>1, <2>2 DEF IsWhole, Covered
  <2>4. IsWhole(k, seen)'
    BY <1>0, <1>1, <2>1, <2>2 DEF IsWhole
  <2>5. \A i \in 1 .. Len(msgs) : seen - Len(msgs) + i \in 1 .. L
    <3>1. L \in Nat /\ seen \in Nat /\ Len(msgs) \in Nat /\ Len(msgs) <= seen /\ seen <= L
      BY <1>0, <2>1, <2>2
    <3> HIDE DEF L
    <3> QED BY <3>1
  <2> QED BY <1>1, <2>1, <2>3, <2>4, <2>5
<1>10. Extracting(k)' <=> Extracting(k)
  BY DEF Extracting
<1>11. open'[k] = 0 <=> IsWhole(k, Len(db[k]))'
  BY <1>1, <1>6 DEF IsWhole
<1> QED BY <1>1, <1>5, <1>8, <1>9, <1>10, <1>11 DEF Complete

\* The job starts on the messages of session k that are new.
LEMMA CompleteRead ==
    ASSUME JobType, HistoryInv, NEW k \in Key, Complete(k), cur = k, ReadRecent, at' = "pairs"
    PROVE  Complete(k)'
<1> DEFINE N == seen - lastLen[k]
           M == IF N < Len(db[k]) THEN Len(db[k]) - N + 1 ELSE 1
<1>0. /\ db[k] \in Seq(Message) /\ Len(db[k]) \in Nat /\ lastLen[k] \in Nat /\ seen \in Nat /\ nextId \in Nat
      /\ Orderly(db[k], nextId, unstored[k])
  BY DEF JobType, HistoryInv
<1>1. /\ at = "recent" /\ msgs' = GetRecent(cur, seen - lastLen[cur])
      /\ UNCHANGED <<db, open, lastLen, cur, seen, extracted>>
  BY DEF ReadRecent
<1>2. seen = Len(db[k]) /\ open[k] = 0 /\ IsWhole(k, lastLen[k]) /\ Covered(k, lastLen[k]) /\ IsWhole(k, seen)
  BY <1>1 DEF Complete
<1>3. msgs' = SubSeq(db[k], M, Len(db[k])) /\ M \in 1 .. Len(db[k]) + 1 /\ N \in Nat \ {0}
  BY <1>1, RecentIsEnd
<1>4. M = lastLen[k] + 1
  <2>1. seen = Len(db[k]) /\ lastLen[k] \in Nat /\ Len(db[k]) \in Nat /\ N \in Nat \ {0}
    BY <1>0, <1>2, <1>3
  <2>2. N = Len(db[k]) - lastLen[k] /\ M = IF N < Len(db[k]) THEN Len(db[k]) - N + 1 ELSE 1
    BY <2>1
  <2> HIDE DEF M, N
  <2> QED BY <2>1, <2>2
<1>5. Len(msgs') = Len(db[k]) - M + 1 /\ \A i \in 1 .. Len(msgs') : msgs'[i] = db[k][M + i - 1]
  <2> HIDE DEF M
  <2> QED BY <1>0, <1>3, OrderlyParts
<1>6. /\ Len(msgs') = seen - lastLen[k] /\ seen - Len(msgs') = lastLen[k] /\ Len(msgs') <= seen
      /\ \A i \in 1 .. Len(msgs') : M + i - 1 = lastLen[k] + i
  <2> HIDE DEF M
  <2>1. lastLen[k] <= seen
    BY <1>0, <1>2 DEF IsWhole
  <2>2. Len(msgs') = seen - lastLen[k]
    <3>1. Len(msgs') = Len(db[k]) - M + 1
      BY <1>5
    <3>2. seen = Len(db[k])
      BY <1>2
    <3>3. lastLen[k] \in Nat /\ Len(db[k]) \in Nat
      BY <1>0
    <3> QED BY <1>4, <3>1, <3>2, <3>3
  <2>3. \A i \in 1 .. seen - lastLen[k] : M + i - 1 = lastLen[k] + i
    BY <1>0, <1>4
  <2>4. seen - (seen - lastLen[k]) = lastLen[k] /\ seen - lastLen[k] <= seen
    BY <1>0, <2>1
  <2> QED BY <2>2, <2>3, <2>4
<1>7. \A i \in 1 .. Len(msgs') : msgs'[i] = db[k][lastLen[k] + i]
  <2> HIDE DEF M
  <2> QED BY <1>5, <1>6
<1> HIDE DEF M, N
<1>8. IsWhole(k, seen)' /\ IsWhole(k, seen - Len(msgs))' /\ Covered(k, seen - Len(msgs))'
  BY <1>1, <1>2, <1>6 DEF IsWhole, Covered
<1>9. \A n \in 1 .. Len(db'[k]) : db'[k][n].role = "user" <=> n = 1 \/ db'[k][n - 1].role = "assistant"
  BY <1>1 DEF Complete
<1>10. (open'[k] = 0 <=> IsWhole(k, Len(db[k]))') /\ IsWhole(k, lastLen[k])' /\ Covered(k, lastLen[k])'
  BY <1>1, <1>2 DEF IsWhole, Covered
<1> QED BY <1>1, <1>6, <1>7, <1>8, <1>9, <1>10 DEF Complete

\* What the pairing loop finds in session k is a message and its answer.
LEMMA CompletePair ==
    ASSUME JobType, HistoryInv, NEW k \in Key, Complete(k), Extracting(k), Len(msgs) >= 1
    PROVE  LET b == seen - Len(msgs)
           IN  /\ b \in Nat /\ b + 1 \in 1 .. Len(db[k]) /\ msgs[1] = db[k][b + 1] /\ msgs[1].role = "user"
               /\ b + 1 < seen /\ Len(msgs) >= 2
               /\ b + 2 \in 1 .. Len(db[k]) /\ msgs[2] = db[k][b + 2] /\ msgs[2].role = "assistant"
<1> DEFINE b == seen - Len(msgs)
<1>0. /\ db[k] \in Seq(Message) /\ Len(db[k]) \in Nat /\ seen \in Nat
      /\ msgs \in Seq(Message) /\ Len(msgs) \in Nat
  BY DEF JobType
<1>1. /\ Len(msgs) <= seen /\ IsWhole(k, seen) /\ IsWhole(k, b)
      /\ \A i \in 1 .. Len(msgs) : msgs[i] = db[k][b + i]
      /\ \A n \in 1 .. Len(db[k]) : db[k][n].role = "user" <=> n = 1 \/ db[k][n - 1].role = "assistant"
  BY DEF Complete
<1>2. b \in Nat /\ seen > 0 /\ seen <= Len(db[k]) /\ db[k][seen].role = "assistant" /\ b + Len(msgs) = seen
  BY <1>0, <1>1 DEF IsWhole
<1>3. b > 0 => b \in 1 .. Len(db[k]) /\ db[k][b].role = "assistant"
  <2> HIDE DEF b
  <2> QED BY <1>0, <1>1, <1>2 DEF IsWhole
<1> HIDE DEF b
<1>4. b + 1 \in 1 .. Len(db[k]) /\ (b + 1) - 1 = b /\ 1 \in 1 .. Len(msgs)
  BY <1>0, <1>2
<1>5. msgs[1] = db[k][b + 1] /\ db[k][b + 1].role = "user"
  BY <1>1, <1>2, <1>3, <1>4
<1>6. b + 1 # seen
  BY <1>2, <1>5
<1>7. Len(msgs) >= 2 /\ b + 1 < seen /\ b + 2 \in 1 .. Len(db[k]) /\ (b + 2) - 1 = b + 1 /\ b + 2 # 1 /\ 2 \in 1 .. Len(msgs)
  BY <1>0, <1>2, <1>6
<1>8. msgs[2] = db[k][b + 2] /\ db[k][b + 2].role # "user"
  BY <1>1, <1>5, <1>7
<1>9. db[k][b + 2].role = "assistant"
  BY <1>0, <1>7, <1>8, EntriesNumbered
<1> QED BY <1>2, <1>4, <1>5, <1>7, <1>8, <1>9 DEF b

\* A round of the pairing loop extracts them, and goes on or breaks off.
LEMMA CompleteExtracts ==
    ASSUME JobType, HistoryInv, NEW k \in Key, Complete(k), unstored[k] = {}, cur = k, Pair
    PROVE  Complete(k)'
<1> DEFINE b == seen - Len(msgs)
           L == Len(extracted[k])
<1>0. /\ UNCHANGED <<db, open, lastLen, cur, seen>> /\ at = "pairs" /\ Len(msgs) >= 2
      /\ \/ ~IsExchange(msgs[1], msgs[2])
         \/ at' = "pairs" /\ msgs' = SubSeq(msgs, 3, Len(msgs)) /\ Extract(msgs[1], msgs[2])
         \/ at' = "loop" /\ (extracted' = extracted \/ Extract(msgs[1], msgs[2]))
  BY DEF Pair
<1>1. /\ db[k] \in Seq(Message) /\ Len(db[k]) \in Nat /\ seen \in Nat /\ lastLen[k] \in Nat
      /\ msgs \in Seq(Message) /\ Len(msgs) \in Nat /\ extracted[k] \in Seq(Message \X Message)
  BY DEF JobType
<1>2. Extracting(k) /\ Len(msgs) >= 1
  BY <1>0, <1>1 DEF Extracting
<1>3. /\ b \in Nat /\ msgs[1] = db[k][b + 1] /\ msgs[1].role = "user"
      /\ b + 2 \in 1 .. Len(db[k]) /\ msgs[2] = db[k][b + 2] /\ msgs[2].role = "assistant"
  BY <1>2, CompletePair
<1>4. IsExchange(msgs[1], msgs[2]) /\ msgs[1].id = msgs[2].id
  BY <1>0, <1>3, PairTakes DEF IsExchange, IsSound
<1>5. ASSUME Extract(msgs[1], msgs[2])
      PROVE  /\ L + 1 \in DOMAIN extracted'[k] /\ extracted'[k][L + 1] = <<msgs[1], msgs[2]>>
             /\ \A i \in DOMAIN extracted[k] : i \in DOMAIN extracted'[k] /\ extracted'[k][i] = extracted[k][i]
  <2>1. /\ Len(extracted'[k]) = L + 1 /\ extracted'[k] \in Seq(Message \X Message)
        /\ \A n \in 1 .. L : extracted'[k][n] = extracted[k][n]
        /\ extracted'[k][L + 1] = <<msgs[1], msgs[2]>>
    BY <1>0, <1>5, PairTakes
  <2>2. DOMAIN extracted'[k] = 1 .. L + 1 /\ DOMAIN extracted[k] = 1 .. L /\ L \in Nat
    BY <1>1, <2>1
  <2> HIDE DEF L
  <2>3. L + 1 \in 1 .. L + 1 /\ 1 .. L \subseteq 1 .. L + 1
    BY <2>2
  <2> QED BY <2>1, <2>2, <2>3
<1>6. \A i \in DOMAIN extracted[k] : i \in DOMAIN extracted'[k] /\ extracted'[k][i] = extracted[k][i]
  BY <1>0, <1>4, <1>5
<1>7. ASSUME NEW n \in Nat, IsWhole(k, n), Covered(k, n)
      PROVE  \A m \in 1 .. Len(db'[k]) : m <= n /\ db'[k][m].role = "assistant" =>
                \E i \in DOMAIN extracted'[k] : extracted'[k][i][1].id = db'[k][m].id
  <2>1. db'[k] = db[k] /\ Len(db'[k]) >= Len(db[k])
    BY <1>0, <1>1
  <2> QED BY <1>1, <1>6, <1>7, <2>1, CoveredKept
<1>8. IsWhole(k, lastLen[k])' /\ Covered(k, lastLen[k])' /\ (open'[k] = 0 <=> IsWhole(k, Len(db[k]))')
  <2>1. IsWhole(k, lastLen[k]) /\ Covered(k, lastLen[k]) /\ (open[k] = 0 <=> IsWhole(k, Len(db[k])))
    BY DEF Complete
  <2>2. IsWhole(k, lastLen[k])' /\ (open'[k] = 0 <=> IsWhole(k, Len(db[k]))')
    BY <1>0, <2>1 DEF IsWhole
  <2> QED BY <1>0, <1>1, <1>7, <2>1, <2>2 DEF Covered
<1>9. \A n \in 1 .. Len(db'[k]) : db'[k][n].role = "user" <=> n = 1 \/ db'[k][n - 1].role = "assistant"
  BY <1>0 DEF Complete
<1>10. CASE at' = "loop"
  BY <1>8, <1>9, <1>10 DEF Complete, Extracting
<1>11. CASE at' = "pairs" /\ msgs' = SubSeq(msgs, 3, Len(msgs)) /\ Extract(msgs[1], msgs[2])
  <2>1. Len(msgs') = Len(msgs) - 2 /\ \A i \in 1 .. Len(msgs') : msgs'[i] = msgs[i + 2]
    BY <1>0, <1>11, PairTakes
  <2>2. /\ Len(msgs) <= seen /\ IsWhole(k, seen) /\ IsWhole(k, b) /\ Covered(k, b)
        /\ \A i \in 1 .. Len(msgs) : msgs[i] = db[k][b + i]
    BY <1>2 DEF Complete
  <2>3. Len(msgs') <= seen /\ seen - Len(msgs') = b + 2
    BY <1>1, <2>1, <2>2
  <2>4. \A i \in 1 .. Len(msgs') : msgs'[i] = db[k][b + 2 + i]
    <3> TAKE i \in 1 .. Len(msgs')
    <3>1. i + 2 \in 1 .. Len(msgs) /\ b + (i + 2) = b + 2 + i
      BY <1>1, <1>3, <2>1
    <3> QED BY <2>1, <2>2, <3>1
  <2> HIDE DEF b
  <2>5. IsWhole(k, seen)' /\ IsWhole(k, seen - Len(msgs))'
    BY <1>0, <1>3, <2>2, <2>3 DEF IsWhole
  <2>6. ASSUME NEW m \in 1 .. Len(db[k]), m <= b + 2, db[k][m].role = "assistant"
        PROVE  \E i \in DOMAIN extracted'[k] : extracted'[k][i][1].id = db[k][m].id
    <3>1. CASE m <= b
      BY <1>0, <1>3, <1>7, <2>2, <2>6, <3>1
    <3>2. CASE m = b + 1
      BY <1>3, <2>6, <3>2
    <3>3. CASE m = b + 2
      <4>1. extracted'[k][L + 1][1].id = db[k][m].id
        BY <1>3, <1>4, <1>5, <1>11, <3>3
      <4> QED BY <1>5, <1>11, <4>1
    <3>4. m <= b \/ m = b + 1 \/ m = b + 2
      BY <1>3, <2>6
    <3> QED BY <3>1, <3>2, <3>3, <3>4
  <2>7. Covered(k, seen - Len(msgs))'
    BY <1>0, <2>3, <2>6 DEF Covered
  <2> QED BY <1>0, <1>8, <1>9, <1>11, <2>3, <2>4, <2>5, <2>7 DEF Complete
<1> QED BY <1>0, <1>4, <1>10, <1>11

\* Every step keeps CompleteInv.
LEMMA NextCompleteInv ==
    JobType /\ HistoryInv /\ CompleteInv /\ [ExtractionNext]_extractionVars => CompleteInv'
<1> SUFFICES ASSUME JobType, HistoryInv, CompleteInv, [ExtractionNext]_extractionVars, NEW k \in Key,
                    caveats'[k] \cap {"moved", "unanswered", "reset"} = {}, unstored'[k] = {}
             PROVE  Complete(k)'
  BY DEF CompleteInv
<1> DEFINE Clean == caveats[k] \cap {"moved", "unanswered", "reset"} = {}
<1>0. unstored[k] = {}
  <2>1. ASSUME NEW x \in Key, PersistUser(x) PROVE unstored[k] \subseteq unstored'[k]
    BY <2>1 DEF PersistUser, JobType
  <2>2. (\E x \in Key : PersistUser(x)) \/ UNCHANGED unstored
    BY DEF ExtractionNext, Answer, Reset, Prune, ReadLen, JobTick, JobReplaced, TickEnd, ReadRecent, Pair,
           Done, Quiescent, extractionVars
  <2> QED BY <2>1, <2>2
<1>1. ASSUME Clean PROVE Complete(k)
  BY <1>0, <1>1 DEF CompleteInv
<1>2. CASE UNCHANGED extractionVars
  BY <1>1, <1>2, CompleteKept DEF extractionVars, jobVars
<1>3. ASSUME NEW x \in Key, PersistUser(x) PROVE Complete(k)'
  <2>1. /\ open[x] = 0 /\ open' = [open EXCEPT ![x] = nextId]
        /\ \/ db' = [db EXCEPT ![x] = Append(db[x], User(nextId))]
           \/ UNCHANGED db /\ unstored' = [unstored EXCEPT ![x] = @ \cup {nextId}]
        /\ UNCHANGED <<lastLen, at, cur, seen, msgs, extracted>>
        /\ Note(x, "moved", at = "recent" /\ cur = x)
    BY <1>3 DEF PersistUser, jobVars, JobType
  <2>2. Clean /\ ~(x = k /\ at = "recent" /\ cur = x)
    BY <2>1, NoteKeeps DEF Caveats
  <2>3. CASE x # k
    <3>1. db'[k] = db[k] /\ open'[k] = open[k]
      BY <2>1, <2>3 DEF JobType
    <3> QED BY <1>1, <2>1, <2>2, <3>1, CompleteKept
  <2>4. CASE x = k
    <3>1. User(nextId) \in Message /\ User(nextId).role = "user" /\ nextId # 0
      BY DEF User, Message, JobType
    <3>2. db' = [db EXCEPT ![k] = Append(db[k], User(nextId))]
      BY <2>1, <2>4 DEF JobType
    <3>3. db'[k] = Append(db[k], User(nextId)) /\ open[k] = 0 /\ open'[k] # 0
      BY <2>1, <2>4, <3>1, <3>2 DEF JobType
    <3> QED BY <1>1, <2>1, <2>2, <2>4, <3>1, <3>3, CompleteGrows
  <2> QED BY <2>3, <2>4
<1>4. ASSUME NEW x \in Key, Answer(x) PROVE Complete(k)'
  <2>1. /\ open[x] # 0 /\ open' = [open EXCEPT ![x] = 0] /\ UNCHANGED <<lastLen, at, cur, seen, msgs, extracted>>
        /\ \/ db' = [db EXCEPT ![x] = Append(db[x], Assistant(open[x]))] /\ UNCHANGED caveats
           \/ Note(x, "unanswered", TRUE) /\ UNCHANGED db
    BY <1>4 DEF Answer, jobVars, JobType
  <2>2. Complete(k) /\ ~(x = k /\ Note(x, "unanswered", TRUE))
    BY <1>1, <2>1, NoteKeeps DEF Caveats
  <2>3. CASE x # k
    <3>1. db'[k] = db[k] /\ open'[k] = open[k]
      BY <2>1, <2>3 DEF JobType
    <3> QED BY <2>1, <2>2, <3>1, CompleteKept
  <2>4. CASE x = k
    <3>1. Assistant(open[k]) \in Message /\ Assistant(open[k]).role = "assistant"
      BY DEF Assistant, Message, JobType
    <3>2. db'[k] = Append(db[k], Assistant(open[k])) /\ open[k] # 0 /\ open'[k] = 0
      BY <2>1, <2>2, <2>4 DEF JobType
    <3>3. ~(at = "recent" /\ cur = k)
      BY <2>2, <3>2 DEF Complete
    <3> QED BY <2>1, <2>2, <3>1, <3>2, <3>3, CompleteGrows
  <2> QED BY <2>3, <2>4
<1>5. ASSUME NEW x \in Key, Reset(x) PROVE Complete(k)'
  <2>1. /\ db' = [db EXCEPT ![x] = <<>>] /\ UNCHANGED <<open, lastLen, at, cur, seen, msgs, extracted>>
        /\ Note(x, "reset", TRUE)
    BY <1>5 DEF Reset, Purge, jobVars
  <2>2. Clean /\ x # k
    BY <2>1, NoteKeeps DEF Caveats
  <2>3. db'[k] = db[k]
    BY <2>1, <2>2 DEF JobType
  <2> QED BY <1>1, <2>1, <2>2, <2>3, CompleteKept
<1>6. ASSUME NEW x \in Key, Prune(x) PROVE Complete(k)'
  BY <1>1, <1>6, CompleteKept DEF Prune, jobVars
<1>7. ASSUME NEW x \in Key, ReadLen(x) PROVE Complete(k)'
  <2>1. /\ at = "loop" /\ UNCHANGED <<db, open, lastLen, msgs, extracted>>
        /\ \/ UNCHANGED <<at, cur, seen, caveats>>
           \/ cur' = x /\ seen' = Len(db[x]) /\ at' = "recent" /\ Note(x, "moved", open[x] # 0)
    BY <1>7 DEF ReadLen
  <2>2. CASE UNCHANGED <<at, cur, seen, caveats>>
    BY <1>1, <2>1, <2>2, CompleteKept
  <2>3. CASE cur' = x /\ seen' = Len(db[x]) /\ at' = "recent" /\ Note(x, "moved", open[x] # 0)
    <3>1. Clean /\ ~(x = k /\ open[x] # 0)
      BY <2>3, NoteKeeps DEF Caveats
    <3>2. CASE x # k
      BY <1>1, <2>1, <2>3, <3>1, <3>2, CompleteKept
    <3>3. CASE x = k
      <4>1. Complete(k)
        BY <1>1, <3>1
      <4> QED BY <2>1, <2>3, <3>1, <3>3, <4>1 DEF Complete, Extracting, IsWhole, Covered
    <3> QED BY <3>2, <3>3
  <2> QED BY <2>1, <2>2, <2>3
<1>8. CASE JobTick \/ JobReplaced
  <2>1. /\ UNCHANGED <<db, open, cur, seen, msgs, extracted>> /\ at' \in {"idle", "loop"}
        /\ \E ks : Forget(ks)
    BY <1>8 DEF JobTick, JobReplaced
  <2>2. Clean /\ lastLen'[k] \in {0, lastLen[k]}
    BY <2>1 DEF Forget
  <2>3. CASE lastLen'[k] = lastLen[k]
    BY <1>1, <2>1, <2>2, <2>3, CompleteKept
  <2>4. CASE lastLen'[k] = 0
    <3>1. IsWhole(k, lastLen[k])' /\ Covered(k, lastLen[k])'
      BY <2>4 DEF IsWhole, Covered
    <3>2. open'[k] = 0 <=> IsWhole(k, Len(db[k]))'
      BY <1>1, <2>1, <2>2 DEF Complete, IsWhole
    <3> QED BY <1>1, <2>1, <2>2, <3>1, <3>2 DEF Complete, Extracting
  <2> QED BY <2>2, <2>3, <2>4
<1>9. CASE TickEnd
  BY <1>1, <1>9, CompleteKept DEF TickEnd
<1>10. CASE ReadRecent
  <2>1. /\ at = "recent" /\ UNCHANGED <<db, open, lastLen, cur, seen, extracted, caveats>>
        /\ \/ msgs' = GetRecent(cur, seen - lastLen[cur]) /\ at' = "pairs"
           \/ at' = "loop"
    BY <1>10 DEF ReadRecent
  <2>2. Complete(k)
    BY <1>1, <2>1
  <2>3. CASE cur # k \/ at' = "loop"
    BY <2>1, <2>2, <2>3, CompleteKept
  <2>4. CASE cur = k /\ at' = "pairs"
    BY <1>10, <2>2, <2>4, CompleteRead
  <2> QED BY <2>1, <2>3, <2>4
<1>11. CASE Pair
  <2>1. /\ UNCHANGED <<db, open, lastLen, cur, seen>> /\ cur \in Key
        /\ caveats' = caveats \/ Note(cur, "failed", TRUE)
        /\ extracted' = extracted \/ Extract(msgs[1], msgs[2])
    BY <1>11 DEF Pair, JobType
  <2>2. Complete(k)
    BY <1>1, <2>1, NoteKeeps DEF Caveats
  <2>3. CASE cur # k
    <3>1. extracted'[k] = extracted[k]
      BY <2>1, <2>3 DEF Extract, JobType
    <3> QED BY <2>1, <2>2, <2>3, <3>1, CompleteKept
  <2> QED BY <1>0, <1>11, <2>2, <2>3, CompleteExtracts
<1>12. CASE Done
  <2>1. /\ UNCHANGED <<db, open, cur, seen, extracted, caveats>> /\ at = "pairs" /\ cur \in Key /\ Len(msgs) < 2
        /\ lastLen' = [lastLen EXCEPT ![cur] = seen] /\ msgs' = <<>> /\ at' = "loop"
    BY <1>12 DEF Done, JobType
  <2>2. Complete(k)
    BY <1>1, <2>1
  <2>3. CASE cur # k
    <3>1. lastLen'[k] = lastLen[k]
      BY <2>1, <2>3 DEF JobType
    <3> QED BY <2>1, <2>2, <2>3, <3>1, CompleteKept
  <2>4. CASE cur = k
    <3>1. lastLen'[k] = seen /\ Len(msgs) \in Nat /\ seen \in Nat
      BY <2>1, <2>4 DEF JobType
    <3>2. Extracting(k) /\ ~(Len(msgs) >= 2)
      BY <2>1, <2>4, <3>1 DEF Extracting
    <3>3. Len(msgs) = 0
      <4>1. Len(msgs) >= 1 => Len(msgs) >= 2
        BY <2>2, <3>2, CompletePair
      <4> QED BY <3>1, <3>2, <4>1
    <3>4. seen - Len(msgs) = seen
      BY <3>1, <3>3
    <3>5. IsWhole(k, seen) /\ Covered(k, seen)
      BY <2>2, <3>2, <3>4 DEF Complete
    <3> QED BY <2>1, <2>2, <3>1, <3>5 DEF Complete, Extracting, IsWhole, Covered
  <2> QED BY <2>3, <2>4
<1> QED BY <1>2, <1>3, <1>4, <1>5, <1>6, <1>7, <1>8, <1>9, <1>10, <1>11, <1>12 DEF ExtractionNext, Quiescent

\* NoneMissed for any sessions, messages and ticks: a session the job is up to
\* date with has given the facts of all its exchanges, whatever extractions
\* failed, were cancelled or started again from the beginning.
THEOREM FactsComplete == ExtractionSpec => []NoneMissed
<1>1. JobType /\ CompleteInv => NoneMissed
  <2> SUFFICES ASSUME JobType, CompleteInv, NEW k \in live, Len(db[k]) <= lastLen[k],
                      caveats[k] \cap {"moved", "unanswered", "reset"} = {}, unstored[k] = {}, NEW j \in Exchanges(k)
               PROVE  \E n \in DOMAIN extracted[k] : extracted[k][n][1].id = j
    BY DEF NoneMissed
  <2>1. k \in Key /\ Covered(k, lastLen[k])
    BY DEF JobType, CompleteInv, Complete
  <2>2. db[k] \in Seq(Message) /\ Len(db[k]) \in Nat /\ lastLen[k] \in Nat
    BY <2>1 DEF JobType
  <2>3. PICK n \in 1 .. Len(db[k]) - 1 : db[k][n + 1] = Assistant(j)
    BY DEF Exchanges
  <2>4. n + 1 \in 1 .. Len(db[k]) /\ n + 1 <= lastLen[k]
    BY <2>2
  <2>5. db[k][n + 1].role = "assistant" /\ db[k][n + 1].id = j
    BY <2>3 DEF Assistant
  <2> QED BY <2>1, <2>4, <2>5 DEF Covered
<1> QED BY <1>1, InitExtraction, NextHistoryInv, NextCompleteInv, PTL DEF ExtractionSpec
=============================================================================
