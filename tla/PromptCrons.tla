----------------------------- MODULE PromptCrons -----------------------------
(***************************************************************************)
(* internal/tool/crontool and the definitions of prompt crons it keeps in  *)
(* an agent's directory, which internal/cron reads when a scheduler is     *)
(* built.  A tool checks the file, writes or removes it, and then calls    *)
(* for a reload; os.WriteFile truncates the file before it writes.         *)
(***************************************************************************)
EXTENDS Naturals

CONSTANTS
    Caller,    \* goroutines in which a tool may be called
    Cron,      \* names of prompt crons
    Creates,   \* definitions cron_create is asked for: records [schedule, prompt]
    Updates    \* what cron_update is asked for: new values of some fields

VARIABLES
    crons,   \* name -> its file: absent, truncated, or a definition
    call,    \* caller -> where its tool call is, the name, what it will write
    calls    \* bound: tool calls still to come

cronvars == <<crons, call, calls>>

Absent == [t |-> "absent", schedule |-> "", prompt |-> ""]
Truncated == [Absent EXCEPT !.t = "truncated"]
Written(d) == [t |-> "def", schedule |-> d.schedule, prompt |-> d.prompt]
NoCall == [pc |-> "none", name |-> "", def |-> Absent]

\* PromptCronDef.Validate: the schedule is there; nobody parses it.
Validate(d) == d.schedule # "" /\ d.prompt # ""

\* LoadPromptCronDef.
Loads(n) == crons[n].t = "def" /\ Validate(crons[n])

\* ScanPromptCrons: a file that does not load is skipped.
ScanPromptCrons == [n \in {n \in Cron : Loads(n)} |-> crons[n]]

\* Scheduler.Start parses the schedules.
Parses(defs) == \A n \in DOMAIN defs : defs[n].schedule # "bad"

CronsInit(bound) ==
    /\ crons \in [Cron -> {Absent} \cup {Written(d) : d \in {d \in Creates : Parses(<<d>>)}}]
    /\ call = [c \in Caller |-> NoCall]
    /\ calls = bound

\* A tool call that is not refused.
Call(c, n, pc, def) ==
    /\ call[c].pc = "none"
    /\ calls > 0
    /\ calls' = calls - 1
    /\ call' = [call EXCEPT ![c] = [pc |-> pc, name |-> n, def |-> def]]
    /\ UNCHANGED crons

Create(c, n, d) ==
    /\ Validate(d)
    /\ crons[n] = Absent
    /\ Call(c, n, "open", Written(d))

Applied(def, update) ==
    [k \in DOMAIN def |-> IF k \in DOMAIN update THEN update[k] ELSE def[k]]

Update(c, n, u) ==
    /\ Loads(n)
    /\ Validate(Applied(crons[n], u))
    /\ Call(c, n, "open", Applied(crons[n], u))

Delete(c, n) ==
    /\ crons[n] # Absent
    /\ Call(c, n, "remove", Absent)

\* The first half of os.WriteFile.
OpenFile(c) ==
    /\ call[c].pc = "open"
    /\ crons' = [crons EXCEPT ![call[c].name] = Truncated]
    /\ call' = [call EXCEPT ![c].pc = "write"]
    /\ UNCHANGED calls

\* A file another call has removed meanwhile stays removed.
WriteFile(c) ==
    /\ call[c].pc = "write"
    /\ crons' = [crons EXCEPT ![call[c].name] = IF @ = Absent THEN @ ELSE call[c].def]
    /\ call' = [call EXCEPT ![c] = [NoCall EXCEPT !.pc = "reload"]]
    /\ UNCHANGED calls

RemoveFile(c) ==
    /\ call[c].pc = "remove"
    /\ crons[call[c].name] # Absent
    /\ crons' = [crons EXCEPT ![call[c].name] = Absent]
    /\ call' = [call EXCEPT ![c] = [NoCall EXCEPT !.pc = "reload"]]
    /\ UNCHANGED calls

\* Opening, writing or removing the file fails, and the tool returns the error
\* without a reload: what was truncated stays so.  Removing a file that is gone
\* always fails.
FileFails(c) ==
    /\ call[c].pc \in {"open", "write", "remove"}
    /\ call' = [call EXCEPT ![c] = NoCall]
    /\ UNCHANGED <<crons, calls>>

\* Mutant: the tool leaves the reload to the next one that comes.
ToolWritesNoReload(c) ==
    /\ call[c].pc \in {"open", "write", "remove"}
    /\ \/ OpenFile(c) \/ FileFails(c)
       \/ /\ call[c].pc \in {"write", "remove"}
          /\ crons' = [crons EXCEPT ![call[c].name] = call[c].def]
          /\ call' = [call EXCEPT ![c] = NoCall]
          /\ UNCHANGED calls

ToolWrites(c) == OpenFile(c) \/ WriteFile(c) \/ RemoveFile(c) \/ FileFails(c)

\* The reload the tool called has returned, and so does the tool.
ToolReturns(c) == call' = [call EXCEPT ![c] = NoCall]
=============================================================================
