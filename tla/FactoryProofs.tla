---------------------------- MODULE FactoryProofs ----------------------------
(***************************************************************************)
(* Machine-checked proofs about Factory: the slots and outcomes of the     *)
(* sub-agents, the edits of the configuration file, and the caches a       *)
(* reload invalidates.  The three parts share no variable, so that each    *)
(* has an invariant of its own.                                            *)
(***************************************************************************)
EXTENDS Factory, FiniteSetTheorems, TLAPS

-----------------------------------------------------------------------------
\* The sub-agents.

\* The sub-agents that hold a slot of the manager.
Slots == {id \in SubAgent : run[id] \in {"starting", "running", "returned"}}

SubTypeOK ==
    /\ status \in [SubAgent -> {"none", "running"} \cup Final]
    /\ run \in [SubAgent -> {"none", "starting", "running", "returned", "done"}]
    /\ settled \in [SubAgent -> {"none"} \cup Final]
    /\ active \in Nat

\* A status says where the goroutine can be, and is final once it is settled.
StatusInv ==
    \A id \in SubAgent :
        /\ status[id] = "none" <=> run[id] = "none"
        /\ run[id] \in {"starting", "running"} => status[id] \in {"running", "killed"}
        /\ status[id] = "running" => run[id] \in {"starting", "running"}
        /\ settled[id] = "none" <=> status[id] \in {"none", "running"}

SubInv == SubTypeOK /\ StatusInv /\ ActiveCount /\ FinalStatus

\* What a step may do to the sub-agents: nothing, or one operation of the manager.
SubStep ==
    \/ UNCHANGED subvars
    \/ \E id \in SubAgent :
         \/ \E own \in {Spawner} : Spawn(id, own)
         \/ Send(id)
         \/ Kill(id)
         \/ SubAgentSteps(id)
    \/ CallerEnds
    \/ Shutdown

\* Whatever turns, reloads and edits do beside it, the manager changes by its own operations.
LEMMA NextSubStep == [Next]_vars => SubStep
<1> SUFFICES ASSUME [Next]_vars PROVE SubStep
  OBVIOUS
<1>1. CASE UNCHANGED vars
  BY <1>1 DEF vars, SubStep
<1>2. CASE ConfigStep /\ UNCHANGED <<subvars, factoryvars>>
  BY <1>2 DEF SubStep
<1>3. CASE Watches
  BY <1>3 DEF Watches, SubStep
<1>4. ASSUME NEW r \in Reloader, Reloads(r) PROVE SubStep
  BY <1>4 DEF Reloads, InvalidateAgents, InvalidateCaches, Reschedule, SubStep, subvars
<1>5. ASSUME NEW s \in Session, SessionStep(s) PROVE SubStep
  BY <1>5 DEF SessionStep, ResolveAgent, AgentConfig, ResolveTools, RegisterTools,
              ResolveHistory, ResolveSoul, NewCommand, SubStep, subvars
<1>6. ASSUME NEW a \in Agent, StartJob(a) PROVE SubStep
  BY <1>6 DEF StartJob, SubStep, subvars
<1>7. CASE JobResolvesTools \/ JobResolvesSoul
  BY <1>7 DEF JobResolvesTools, JobResolvesSoul, SubStep, subvars
<1>8. ASSUME NEW id \in SubAgent, JobSpawns(id) \/ JobSends(id) \/ JobKills(id) PROVE SubStep
  BY <1>8 DEF JobSpawns, JobSends, JobKills, SubStep
<1>9. ASSUME NEW id \in SubAgent, SubAgentSteps(id) PROVE SubStep
  BY <1>9 DEF SubStep
<1>10. CASE EndJob
  BY <1>10 DEF EndJob, SubStep
<1>11. CASE StopRouter
  BY <1>11 DEF StopRouter, SubStep
<1> QED BY <1>1, <1>2, <1>3, <1>4, <1>5, <1>6, <1>7, <1>8, <1>9, <1>10, <1>11 DEF Next

\* There are finitely many slots to hold.
LEMMA SlotsFinite == IsFiniteSet(Slots) /\ Cardinality(Slots) \in Nat
<1>1. IsFiniteSet(SubAgent)
  BY FS_Interval, SubAgentsAssumption DEF SubAgent
<1>2. Slots \subseteq SubAgent
  BY DEF Slots
<1> QED BY <1>1, <1>2, FS_Subset, FS_CardinalityType

\* The manager starts with no sub-agent and no slot taken.
LEMMA InitSubInv == Init => SubInv
<1> SUFFICES ASSUME Init PROVE SubInv
  OBVIOUS
<1>1. SubTypeOK
  BY DEF Init, SubAgentsInit, SubTypeOK
<1>2. StatusInv /\ FinalStatus
  BY DEF Init, SubAgentsInit, StatusInv, FinalStatus
<1>3. Slots = {}
  BY DEF Init, SubAgentsInit, Slots
<1>4. active = Cardinality(Slots) /\ active = 0
  BY <1>3, FS_EmptySet DEF Init, SubAgentsInit
<1>5. ActiveCount
  BY <1>4, SubAgentsAssumption DEF ActiveCount, Slots
<1> QED BY <1>1, <1>2, <1>5 DEF SubInv

\* A spawn takes one slot, and only while one is left.
LEMMA SpawnSubInv ==
    ASSUME SubInv, NEW id \in SubAgent, NEW own, Spawn(id, own)
    PROVE  SubInv'
<1>1. status[id] = "none" /\ run[id] = "none" /\ id \notin Slots
  BY DEF Spawn, Fresh, SubInv, StatusInv, Slots
<1>2. SubTypeOK'
  BY DEF SubInv, SubTypeOK, Spawn
<1>3. StatusInv' /\ FinalStatus'
  BY <1>1 DEF SubInv, SubTypeOK, StatusInv, FinalStatus, Spawn
<1>4. Slots' = Slots \cup {id}
  BY DEF SubInv, SubTypeOK, Spawn, Slots
<1>5. Cardinality(Slots') = Cardinality(Slots) + 1
  BY <1>1, <1>4, SlotsFinite, FS_AddElement
<1>6. active = Cardinality(Slots) /\ active \in Nat /\ active < MaxConcurrent /\ active' = active + 1
  BY DEF SubInv, SubTypeOK, ActiveCount, Slots, Spawn
<1>7. ActiveCount'
  BY <1>5, <1>6, SubAgentsAssumption DEF ActiveCount, Slots
<1> QED BY <1>2, <1>3, <1>7 DEF SubInv

\* A slot is given back by the one who held it: after the loop returned, or
\* when there was no loop.
LEMMA ReleaseSubInv ==
    ASSUME SubInv, NEW id \in SubAgent, SpawnNoLoop(id) \/ FreeSlot(id)
    PROVE  SubInv'
<1>1. id \in Slots /\ Slots' = Slots \ {id}
  BY DEF SpawnNoLoop, FreeSlot, SubInv, SubTypeOK, Slots
<1>2. Cardinality(Slots') = Cardinality(Slots) - 1
  BY <1>1, SlotsFinite, FS_RemoveElement
<1>3. Cardinality(Slots) \in Nat /\ Cardinality(Slots) # 0
  BY <1>1, SlotsFinite, FS_EmptySet
<1>4. active' = active - 1 /\ active = Cardinality(Slots) /\ active <= MaxConcurrent
  BY DEF SpawnNoLoop, FreeSlot, SubInv, ActiveCount, Slots
<1>5. ActiveCount' /\ active' \in Nat
  BY <1>2, <1>3, <1>4, SubAgentsAssumption DEF ActiveCount, Slots
<1>6. SubTypeOK'
  BY <1>5 DEF SubInv, SubTypeOK, SpawnNoLoop, FreeSlot, SetStatus, Final
<1>7. StatusInv' /\ FinalStatus'
  BY DEF SubInv, SubTypeOK, StatusInv, FinalStatus, SpawnNoLoop, FreeSlot, SetStatus, Final
<1> QED BY <1>5, <1>6, <1>7 DEF SubInv

\* The loop starts, returns or is killed: the slot stays taken.
LEMMA KeepSlotSubInv ==
    ASSUME SubInv, NEW id \in SubAgent,
           \/ SpawnLoop(id) \/ Deadline(id) \/ Send(id) \/ Kill(id)
           \/ \E outcome \in {"completed", "failed", "timeout", "cancelled"} : RunReturns(id, outcome)
    PROVE  SubInv'
<1>1. Slots' = Slots /\ active' = active
  BY DEF SpawnLoop, Deadline, Send, Kill, RunReturns, SubInv, SubTypeOK, Slots
<1>2. ActiveCount'
  BY <1>1 DEF SubInv, ActiveCount, Slots
<1>3. CASE SpawnLoop(id) \/ Deadline(id) \/ Send(id)
  BY <1>2, <1>3 DEF SubInv, SubTypeOK, StatusInv, FinalStatus, SpawnLoop, Deadline, Send
<1>4. CASE Kill(id)
  BY <1>2, <1>4 DEF SubInv, SubTypeOK, StatusInv, FinalStatus, Kill, SetStatus, Final
<1>5. ASSUME NEW outcome \in {"completed", "failed", "timeout", "cancelled"}, RunReturns(id, outcome)
      PROVE  SubInv'
  <2>1. CASE status[id] = "killed"
    BY <1>2, <1>5, <2>1 DEF SubInv, SubTypeOK, StatusInv, FinalStatus, RunReturns
  <2>2. CASE status[id] # "killed"
    <3> DEFINE s == IF outcome = "cancelled" THEN "failed" ELSE outcome
    <3>1. s \in Final /\ SetStatus(id, s) /\ run' = [run EXCEPT ![id] = "returned"]
      BY <1>5, <2>2 DEF RunReturns, Final
    <3>2. status[id] = "running" /\ settled[id] = "none"
      BY <1>5, <2>2 DEF RunReturns, SubInv, StatusInv
    <3> HIDE DEF s
    <3> QED BY <1>1, <1>2, <3>1, <3>2
            DEF SubInv, SubTypeOK, StatusInv, FinalStatus, SetStatus, Final
  <2> QED BY <2>1, <2>2
<1> QED BY <1>3, <1>4, <1>5

\* The end of the caller and of the program: contexts end and what runs is killed.
LEMMA EndSubInv ==
    ASSUME SubInv, CallerEnds \/ Shutdown
    PROVE  SubInv'
<1>1. Slots' = Slots /\ active' = active
  BY DEF CallerEnds, Shutdown, Slots
<1>2. ActiveCount'
  BY <1>1 DEF SubInv, ActiveCount, Slots
<1>3. CASE CallerEnds
  BY <1>2, <1>3 DEF SubInv, SubTypeOK, StatusInv, FinalStatus, CallerEnds
<1>4. CASE Shutdown
  BY <1>2, <1>4 DEF SubInv, SubTypeOK, StatusInv, FinalStatus, Shutdown, Running, Final
<1> QED BY <1>3, <1>4

\* The invariant of the sub-agents holds in every step.
LEMMA NextSubInv == SubInv /\ [Next]_vars => SubInv'
<1> SUFFICES ASSUME SubInv, SubStep PROVE SubInv'
  BY NextSubStep
<1>1. CASE UNCHANGED subvars
  BY <1>1 DEF subvars, SubInv, SubTypeOK, StatusInv, ActiveCount, FinalStatus
<1>2. ASSUME NEW id \in SubAgent, NEW own \in {Spawner}, Spawn(id, own) PROVE SubInv'
  BY <1>2, SpawnSubInv
<1>3. ASSUME NEW id \in SubAgent, Send(id) \/ Kill(id) \/ SubAgentSteps(id) PROVE SubInv'
  BY <1>3, KeepSlotSubInv, ReleaseSubInv DEF SubAgentSteps
<1>4. CASE CallerEnds \/ Shutdown
  BY <1>4, EndSubInv
<1> QED BY <1>1, <1>2, <1>3, <1>4 DEF SubStep

\* ActiveCount for every number of sub-agents and every limit: the slots that
\* Manager.active counts are the ones in use, and never more than MaxConcurrent.
THEOREM SlotsCounted == Spec => []ActiveCount
<1>1. SubInv => ActiveCount
  BY DEF SubInv
<1> QED BY <1>1, InitSubInv, NextSubInv, PTL DEF Spec

\* FinalStatus for every number of sub-agents: the outcome that was reported
\* first is kept, except where Spawn writes "failed" over "killed".
THEOREM OutcomeKept == Spec => []FinalStatus
<1>1. SubInv => FinalStatus
  BY DEF SubInv
<1> QED BY <1>1, InitSubInv, NextSubInv, PTL DEF Spec

-----------------------------------------------------------------------------
\* The configuration file.

\* What the functions and records of the file's state look like; documents are
\* left open.
EditTypeOK ==
    /\ DOMAIN edit = Editor
    /\ \A e \in Editor :
         /\ DOMAIN edit[e] = {"pc", "base", "new", "fd"}
         /\ edit[e].pc \in {"idle", "got", "open", "write", "rename", "cleanup"}
    /\ DOMAIN node = Inode
    /\ file \in Inode
    /\ tmp \in Inode \cup {0} /\ tmp # file

\* Where an open temporary file is possible: only a writer has a descriptor.
DescriptorInv == \A e \in Editor : edit[e].pc # "write" => edit[e].fd = 0

\* What the editors write was validated, so that it is a whole document.
ValidInv == \A e \in Editor : edit[e].pc \in {"open", "write", "rename"} => edit[e].new.tag = "doc"

\* The only editor with the temporary file has it for itself: it is empty until
\* the editor has written, and the editor's document from then on.
OwnTmp(e) ==
    /\ edit[e].pc = "write" => edit[e].fd = tmp /\ tmp # 0 /\ node[tmp].doc = Empty
    /\ edit[e].pc = "rename" => tmp # 0 /\ node[tmp].doc = edit[e].new

\* As long as no two editors had the temporary file at once, at most one has it
\* now, and the file is whole.
AloneInv ==
    shared \/ /\ \A d, e \in InTmp : d = e
              /\ \A e \in InTmp : OwnTmp(e)
              /\ File.tag = "doc"

EditInv == EditTypeOK /\ DescriptorInv /\ ValidInv /\ AloneInv

\* What a step may do to the file and its writers.
FileStep ==
    \/ UNCHANGED filevars
    \/ \E e \in Editor : \/ ConfigGet(e)
                         \/ \E op \in Edit : Execute(e, op)
                         \/ OpenTmp(e)
                         \/ WriteTmp(e)
                         \/ WriteFails(e)
                         \/ Rename(e)
                         \/ RenameFails(e)
                         \/ Cleanup(e)
    \/ \E doc \in Document : Save(doc)

\* Only an editor or an operator touches the file.
LEMMA NextFileStep == [Next]_vars => FileStep
<1> SUFFICES ASSUME [Next]_vars PROVE FileStep
  OBVIOUS
<1>1. CASE UNCHANGED vars
  BY <1>1 DEF vars, configvars, FileStep
<1>2. CASE ConfigStep
  BY <1>2 DEF ConfigStep, EditorStep, WatchStart, Request, ReloadCancelled, FileStep
<1>3. CASE Watches
  BY <1>3 DEF Watches, Poll, TakeEvent, FileStep
<1>4. ASSUME NEW r \in Reloader, Reloads(r) PROVE FileStep
  BY <1>4 DEF Reloads, Load, Rebuild, ReloadFails, Swap, InvalidateAgents, InvalidateCaches,
              Reschedule, FileStep
<1>5. ASSUME NEW s \in Session, SessionStep(s) PROVE FileStep
  BY <1>5 DEF SessionStep, ResolveAgent, AgentConfig, ResolveTools, RegisterTools,
              ResolveHistory, ResolveSoul, NewCommand, configvars, FileStep
<1>6. ASSUME NEW a \in Agent, StartJob(a) PROVE FileStep
  BY <1>6 DEF StartJob, FileStep
<1>7. CASE JobResolvesTools \/ JobResolvesSoul
  BY <1>7 DEF JobResolvesTools, JobResolvesSoul, configvars, FileStep
<1>8. ASSUME NEW id \in SubAgent, JobSpawns(id) \/ JobSends(id) \/ JobKills(id) PROVE FileStep
  BY <1>8 DEF JobSpawns, JobSends, JobKills, configvars, FileStep
<1>9. ASSUME NEW id \in SubAgent, UNCHANGED <<configvars, factoryvars>> PROVE FileStep
  BY <1>9 DEF configvars, FileStep
<1>10. CASE EndJob
  BY <1>10 DEF EndJob, configvars, FileStep
<1>11. CASE StopRouter
  BY <1>11 DEF StopRouter, FileStep
<1> QED BY <1>1, <1>2, <1>3, <1>4, <1>5, <1>6, <1>7, <1>8, <1>9, <1>10, <1>11 DEF Next

\* The program starts with nobody editing.
LEMMA InitEditInv == Init => EditInv
<1> SUFFICES ASSUME Init PROVE EditInv
  OBVIOUS
<1>1. file \in Inode
  <2>1. Inode # {}
    <3>1. Cardinality(Editor) \in Nat /\ Cardinality(Inode) # 0
      BY ConfigFileAssumption, FS_CardinalityType
    <3> QED BY <3>1, FS_EmptySet
  <2> QED BY <2>1 DEF Init, ConfigInit
<1>2. EditTypeOK
  BY <1>1, ConfigFileAssumption DEF Init, ConfigInit, EditTypeOK, NoEdit, Unused, Empty
<1>3. DescriptorInv /\ ValidInv /\ InTmp = {}
  BY DEF Init, ConfigInit, DescriptorInv, ValidInv, InTmp, NoEdit
<1>4. File.tag = "doc"
  BY <1>1, ConfigFileAssumption DEF Init, ConfigInit, File
<1> QED BY <1>2, <1>3, <1>4 DEF EditInv, AloneInv

\* There is an inode for a new temporary file: an editor that is about to open
\* one has no descriptor, and there are more inodes than editors.
LEMMA FreeInodeExists ==
    ASSUME EditTypeOK, DescriptorInv, NEW e \in Editor, edit[e].pc = "open", tmp = 0
    PROVE  FreeInode \in Inode /\ FreeInode # file
<1> DEFINE Others == Editor \ {e}
           Open == {edit[d].fd : d \in Others}
           Used == {file, tmp} \cup {edit[d].fd : d \in Editor}
<1>1. /\ IsFiniteSet(Others) /\ IsFiniteSet(Editor)
      /\ Cardinality(Others) = Cardinality(Editor) - 1
      /\ Cardinality(Editor) \in Nat /\ Cardinality(Inode) \in Nat
      /\ Cardinality(Inode) > Cardinality(Editor)
  BY ConfigFileAssumption, FS_RemoveElement, FS_CardinalityType
<1>2. IsFiniteSet(Open) /\ Cardinality(Open) <= Cardinality(Others) /\ Cardinality(Open) \in Nat
  <2> DEFINE g == [d \in Others |-> edit[d].fd]
  <2>1. g \in Surjection(Others, Open)
    BY DEF Surjection
  <2> HIDE DEF g, Others, Open
  <2>2. IsFiniteSet(Open) /\ Cardinality(Open) <= Cardinality(Others)
    BY <1>1, <2>1, FS_Surjection
  <2> QED BY <2>2, FS_CardinalityType
<1>3. /\ IsFiniteSet(Open \cup {file})
      /\ Cardinality(Open \cup {file}) <= Cardinality(Open) + 1
      /\ Cardinality(Open \cup {file}) \in Nat
  <2> HIDE DEF Open
  <2>1. /\ IsFiniteSet(Open \cup {file})
        /\ Cardinality(Open \cup {file}) = IF file \in Open THEN Cardinality(Open)
                                           ELSE Cardinality(Open) + 1
    BY <1>2, FS_AddElement
  <2> QED BY <1>2, <2>1, FS_CardinalityType
<1>4. ~(Inode \subseteq Open \cup {file})
  <2> HIDE DEF Open, Others
  <2>1. SUFFICES ASSUME Inode \subseteq Open \cup {file} PROVE FALSE
    OBVIOUS
  <2>2. Cardinality(Inode) <= Cardinality(Open \cup {file})
    BY <1>3, <2>1, FS_Subset
  <2> QED BY <1>1, <1>2, <1>3, <2>2
<1>5. 0 \notin Inode /\ edit[e].fd = 0
  BY ConfigFileAssumption DEF DescriptorInv
<1>6. \E i \in Inode : i \notin Used
  BY <1>4, <1>5
<1> HIDE DEF Used
<1>7. FreeInode \in Inode /\ FreeInode \notin Used
  BY <1>6 DEF FreeInode, Used
<1> QED BY <1>7 DEF Used

\* A step that moves one editor, outside the temporary file before and after it,
\* and leaves the files alone.
LEMMA OutsideEditInv ==
    ASSUME EditInv, NEW e \in Editor, UNCHANGED <<node, file, tmp, shared>>,
           DOMAIN edit' = Editor, DOMAIN edit'[e] = {"pc", "base", "new", "fd"},
           \A d \in Editor \ {e} : edit'[d] = edit[d],
           edit'[e].pc \in {"idle", "got", "open"}, edit'[e].fd = 0,
           edit'[e].pc = "open" => edit'[e].new.tag = "doc"
    PROVE  EditInv'
<1>1. EditTypeOK' /\ DescriptorInv' /\ ValidInv'
  BY DEF EditInv, EditTypeOK, DescriptorInv, ValidInv
<1>2. InTmp' = InTmp \ {e} /\ File' = File
  BY DEF InTmp, File
<1>3. AloneInv'
  BY <1>2 DEF EditInv, AloneInv, OwnTmp, InTmp
<1> QED BY <1>1, <1>3 DEF EditInv

\* Reading the file, and passing or failing the checks.
LEMMA ReadEditInv ==
    ASSUME EditInv, NEW e \in Editor, ConfigGet(e) \/ \E op \in Edit : Execute(e, op)
    PROVE  EditInv'
<1>1. CASE ConfigGet(e)
  <2>1. /\ UNCHANGED <<node, file, tmp, shared>>
        /\ edit' = [edit EXCEPT ![e] = [NoEdit EXCEPT !.pc = "got", !.base = File]]
    BY <1>1 DEF ConfigGet
  <2>2. /\ DOMAIN edit' = Editor /\ DOMAIN edit'[e] = {"pc", "base", "new", "fd"}
        /\ \A d \in Editor \ {e} : edit'[d] = edit[d]
        /\ edit'[e].pc = "got" /\ edit'[e].fd = 0
    BY <2>1 DEF EditInv, EditTypeOK, NoEdit
  <2> QED BY <2>1, <2>2, OutsideEditInv
<1>2. ASSUME NEW op \in Edit, Execute(e, op) PROVE EditInv'
  <2>1. edit[e].pc = "got" /\ edit[e].fd = 0 /\ UNCHANGED <<node, file, tmp, shared>>
    BY <1>2 DEF Execute, EditInv, DescriptorInv
  <2>2. CASE Accepts(e, op)
    <3>1. /\ edit' = [edit EXCEPT ![e].pc = "open", ![e].new = Edited(op, File)]
          /\ Edited(op, File).tag = "doc"
      BY <1>2, <2>2 DEF Execute, Accepts, Valid
    <3>2. /\ DOMAIN edit' = Editor /\ DOMAIN edit'[e] = {"pc", "base", "new", "fd"}
          /\ \A d \in Editor \ {e} : edit'[d] = edit[d]
          /\ edit'[e].pc = "open" /\ edit'[e].fd = edit[e].fd
          /\ edit'[e].new = Edited(op, File)
      BY <3>1 DEF EditInv, EditTypeOK
    <3> QED BY <2>1, <3>1, <3>2, OutsideEditInv
  <2>3. CASE ~Accepts(e, op)
    <3>1. edit' = [edit EXCEPT ![e] = NoEdit]
      BY <1>2, <2>3 DEF Execute, Leave
    <3>2. /\ DOMAIN edit' = Editor /\ DOMAIN edit'[e] = {"pc", "base", "new", "fd"}
          /\ \A d \in Editor \ {e} : edit'[d] = edit[d]
          /\ edit'[e].pc = "idle" /\ edit'[e].fd = 0
      BY <3>1 DEF EditInv, EditTypeOK, NoEdit
    <3> QED BY <2>1, <3>2, OutsideEditInv
  <2> QED BY <2>2, <2>3
<1> QED BY <1>1, <1>2

\* Opening the temporary file: truncated if it is there, and shared from now on
\* if somebody has it.
LEMMA OpenTmpEditInv ==
    ASSUME EditInv, NEW e \in Editor, OpenTmp(e)
    PROVE  EditInv'
<1> USE DEF EditInv
<1> DEFINE i == IF tmp # 0 THEN tmp ELSE FreeInode
<1>1. /\ edit[e].pc = "open"
      /\ node' = [node EXCEPT ![i] = [doc |-> Empty, mtime |-> now']]
      /\ tmp' = i
      /\ edit' = [edit EXCEPT ![e].pc = "write", ![e].fd = i]
      /\ shared' = (shared \/ InTmp # {})
      /\ UNCHANGED file
  BY DEF OpenTmp
<1>2. i \in Inode /\ i # file /\ i # 0
  BY <1>1, FreeInodeExists, ConfigFileAssumption DEF EditTypeOK
<1> HIDE DEF i
<1>3. /\ DOMAIN edit'[e] = {"pc", "base", "new", "fd"}
      /\ edit'[e].pc = "write" /\ edit'[e].new = edit[e].new /\ edit'[e].fd = i
      /\ \A d \in Editor \ {e} : edit'[d] = edit[d]
      /\ DOMAIN edit' = Editor
  BY <1>1 DEF EditTypeOK
<1>4. /\ node'[i] = [doc |-> Empty, mtime |-> now']
      /\ \A j \in Inode \ {i} : node'[j] = node[j]
      /\ DOMAIN node' = Inode
  BY <1>1, <1>2 DEF EditTypeOK
<1>5. EditTypeOK' /\ DescriptorInv'
  BY <1>1, <1>2, <1>3, <1>4 DEF EditTypeOK, DescriptorInv
<1>6. ValidInv'
  BY <1>1, <1>3 DEF ValidInv
<1>7. AloneInv'
  <2> SUFFICES ASSUME ~shared' PROVE AloneInv'
    BY DEF AloneInv
  <2>1. ~shared /\ InTmp = {} /\ File.tag = "doc"
    BY <1>1 DEF AloneInv
  <2>2. InTmp' = {e}
    BY <1>3, <2>1 DEF InTmp
  <2>3. OwnTmp(e)'
    BY <1>1, <1>2, <1>3, <1>4 DEF OwnTmp
  <2>4. File' = File
    BY <1>1, <1>2, <1>4 DEF File, EditTypeOK
  <2> QED BY <2>1, <2>2, <2>3, <2>4 DEF AloneInv
<1> QED BY <1>5, <1>6, <1>7

\* Whoever has the temporary file alone writes to an inode that is not the
\* configuration's; a write that fails leaves it to the next one.
LEMMA WriteEditInv ==
    ASSUME EditInv, NEW e \in Editor, WriteTmp(e) \/ WriteFails(e)
    PROVE  EditInv'
<1> USE DEF EditInv
<1> DEFINE i == edit[e].fd
<1>1. CASE edit[e].pc = "open"
  <2>1. /\ edit' = [edit EXCEPT ![e] = NoEdit] /\ UNCHANGED <<node, file, tmp, shared>>
    BY <1>1 DEF WriteTmp, WriteFails, Leave
  <2>2. /\ DOMAIN edit' = Editor /\ DOMAIN edit'[e] = {"pc", "base", "new", "fd"}
        /\ \A d \in Editor \ {e} : edit'[d] = edit[d]
        /\ edit'[e].pc = "idle" /\ edit'[e].fd = 0
    BY <2>1 DEF EditTypeOK, NoEdit
  <2> QED BY <2>1, <2>2, OutsideEditInv
<1>2. CASE edit[e].pc # "open"
  <2>1. edit[e].pc = "write" /\ e \in InTmp /\ UNCHANGED <<file, tmp, shared>>
    BY <1>2 DEF WriteTmp, WriteFails, InTmp
  <2>2. /\ DOMAIN node' = Inode
        /\ \A j \in Inode \ {i} : node'[j] = node[j]
    BY DEF WriteTmp, WriteFails, EditTypeOK
  <2>3. /\ DOMAIN edit' = Editor /\ DOMAIN edit'[e] = {"pc", "base", "new", "fd"}
        /\ \A d \in Editor \ {e} : edit'[d] = edit[d]
        /\ edit'[e].fd = 0
        /\ edit'[e].pc = "idle" \/ (WriteTmp(e) /\ edit'[e].pc = "rename" /\ edit'[e].new = edit[e].new)
    <3>1. CASE WriteTmp(e)
      <4>1. edit' = [edit EXCEPT ![e].pc = "rename", ![e].fd = 0]
        BY <3>1 DEF WriteTmp
      <4> QED BY <3>1, <4>1 DEF EditTypeOK
    <3>2. CASE WriteFails(e)
      <4>1. edit' = [edit EXCEPT ![e] = NoEdit]
        BY <3>2 DEF WriteFails, Leave
      <4> QED BY <4>1 DEF EditTypeOK, NoEdit
    <3> QED BY <3>1, <3>2
  <2>4. EditTypeOK' /\ DescriptorInv' /\ ValidInv'
    BY <2>1, <2>2, <2>3 DEF EditTypeOK, DescriptorInv, ValidInv
  <2>5. AloneInv'
    <3> SUFFICES ASSUME ~shared PROVE AloneInv'
      BY <2>1 DEF AloneInv
    <3>1. /\ InTmp = {e} /\ File.tag = "doc"
          /\ i = tmp /\ tmp # 0 /\ node[tmp].doc = Empty
      BY <2>1 DEF AloneInv, OwnTmp
    <3>2. i \in Inode /\ i # file
      BY <3>1 DEF EditTypeOK
    <3>3. File' = File
      BY <2>1, <2>2, <3>2 DEF File, EditTypeOK
    <3>4. InTmp' \subseteq {e}
      BY <2>3, <3>1 DEF InTmp
    <3>5. e \in InTmp' => OwnTmp(e)'
      <4> SUFFICES ASSUME e \in InTmp' PROVE OwnTmp(e)'
        OBVIOUS
      <4>1. WriteTmp(e) /\ edit'[e].pc = "rename" /\ edit'[e].new = edit[e].new
        BY <2>3 DEF InTmp
      <4>2. node[edit[e].fd].doc.tag = "empty"
        <5>1. Empty.tag = "empty"
          BY Zenon DEF Empty
        <5>2. node[edit[e].fd].doc = Empty
          BY <3>1
        <5> QED BY <5>1, <5>2, Zenon
      <4>3. node' = [node EXCEPT ![edit[e].fd] = [doc |-> edit[e].new, mtime |-> now']]
        <5>1. PICK doc \in {edit[e].new} \cup
                            (IF node[edit[e].fd].doc.tag = "empty" \/ node[edit[e].fd].doc = edit[e].new
                               THEN {} ELSE {Torn}) :
                  node' = [node EXCEPT ![edit[e].fd] = [doc |-> doc, mtime |-> now']]
          BY <4>1, Zenon DEF WriteTmp
        <5>2. doc = edit[e].new
          BY <4>2
        <5> QED BY <5>1, <5>2
      <4>4. node'[i].doc = edit[e].new
        BY <3>2, <4>3 DEF EditTypeOK
      <4> QED BY <2>1, <3>1, <4>1, <4>4 DEF OwnTmp
    <3> QED BY <3>1, <3>3, <3>4, <3>5 DEF AloneInv
  <2> QED BY <2>4, <2>5
<1> QED BY <1>1, <1>2

\* The rename puts a whole document in place, or fails, and then the temporary
\* file is removed.
LEMMA LeaveEditInv ==
    ASSUME EditInv, NEW e \in Editor, Rename(e) \/ RenameFails(e) \/ Cleanup(e)
    PROVE  EditInv'
<1> USE DEF EditInv
<1>1. e \in InTmp /\ edit[e].fd = 0 /\ UNCHANGED shared
  BY DEF Rename, RenameFails, Cleanup, InTmp, DescriptorInv
<1>2. /\ DOMAIN edit' = Editor /\ DOMAIN edit'[e] = {"pc", "base", "new", "fd"}
      /\ \A d \in Editor \ {e} : edit'[d] = edit[d]
      /\ edit'[e].pc \in {"idle", "cleanup"} /\ edit'[e].fd = 0
  BY <1>1 DEF Rename, RenameFails, Cleanup, Leave, NoEdit, EditTypeOK
<1>3. EditTypeOK'
  <2>1. file' \in Inode /\ DOMAIN node' = Inode /\ tmp' \in Inode \cup {0} /\ tmp' # file'
    BY ConfigFileAssumption DEF Rename, RenameFails, Cleanup, EditTypeOK
  <2> QED BY <1>2, <2>1 DEF EditTypeOK
<1>4. DescriptorInv' /\ ValidInv'
  BY <1>2 DEF DescriptorInv, ValidInv
<1>5. AloneInv'
  <2> SUFFICES ASSUME ~shared PROVE AloneInv'
    BY <1>1 DEF AloneInv
  <2>1. InTmp = {e} /\ OwnTmp(e) /\ File.tag = "doc"
    BY <1>1 DEF AloneInv
  <2>2. InTmp' \subseteq {e}
    BY <1>2, <2>1 DEF InTmp
  <2>3. OwnTmp(e)'
    BY <1>2 DEF OwnTmp
  <2>4. (File.tag)' = "doc"
    <3>1. CASE Rename(e)
      <4>1. /\ edit[e].pc = "rename" /\ tmp # 0 /\ file' = tmp
            /\ node' = node \/ node' = [node EXCEPT ![file] = Unused]
        BY <3>1 DEF Rename
      <4>2. node[tmp].doc.tag = "doc"
        BY <2>1, <4>1 DEF OwnTmp, ValidInv
      <4>3. tmp \in Inode /\ tmp # file
        BY <4>1 DEF EditTypeOK
      <4>4. node'[tmp] = node[tmp]
        BY <4>1, <4>3 DEF EditTypeOK
      <4> QED BY <4>1, <4>2, <4>4 DEF File
    <3>2. CASE RenameFails(e) \/ Cleanup(e)
      BY <2>1, <3>2 DEF RenameFails, Cleanup, File
    <3> QED BY <3>1, <3>2
  <2> QED BY <2>2, <2>3, <2>4 DEF AloneInv
<1> QED BY <1>3, <1>4, <1>5

\* An operator saves a whole document, and not into the temporary file.
LEMMA SaveEditInv ==
    ASSUME EditInv, NEW doc \in Document, Save(doc)
    PROVE  EditInv'
<1> USE DEF EditInv
<1>1. /\ node' = [node EXCEPT ![file] = [doc |-> doc, mtime |-> now']]
      /\ UNCHANGED <<file, tmp, edit, shared>>
  BY DEF Save
<1>2. EditTypeOK' /\ DescriptorInv' /\ ValidInv'
  BY <1>1 DEF EditTypeOK, DescriptorInv, ValidInv
<1>3. node'[file].doc = doc /\ \A j \in Inode \ {file} : node'[j] = node[j]
  BY <1>1 DEF EditTypeOK
<1>4. (File.tag)' = "doc"
  BY <1>1, <1>3, ConfigFileAssumption DEF File
<1>5. InTmp' = InTmp
  BY <1>1 DEF InTmp
<1>6. \A e \in InTmp : OwnTmp(e) => OwnTmp(e)'
  BY <1>1, <1>3 DEF OwnTmp, EditTypeOK
<1> QED BY <1>1, <1>2, <1>4, <1>5, <1>6 DEF AloneInv

\* The invariant of the configuration file holds in every step.
LEMMA NextEditInv == EditInv /\ [Next]_vars => EditInv'
<1> SUFFICES ASSUME EditInv, FileStep PROVE EditInv'
  BY NextFileStep
<1>1. CASE UNCHANGED filevars
  BY <1>1 DEF filevars, EditInv, EditTypeOK, DescriptorInv, ValidInv, AloneInv, OwnTmp, InTmp, File
<1>2. ASSUME NEW e \in Editor, ConfigGet(e) \/ \E op \in Edit : Execute(e, op) PROVE EditInv'
  BY <1>2, ReadEditInv
<1>3. ASSUME NEW e \in Editor, OpenTmp(e) \/ WriteTmp(e) \/ WriteFails(e) PROVE EditInv'
  BY <1>3, OpenTmpEditInv, WriteEditInv
<1>4. ASSUME NEW e \in Editor, Rename(e) \/ RenameFails(e) \/ Cleanup(e) PROVE EditInv'
  BY <1>4, LeaveEditInv
<1>5. ASSUME NEW doc \in Document, Save(doc) PROVE EditInv'
  BY <1>5, SaveEditInv
<1> QED BY <1>1, <1>2, <1>3, <1>4, <1>5 DEF FileStep

\* FileWhole for any number of editors and any documents: through failing writes
\* and renames the configuration on disk is a whole document, unless two writers
\* had the temporary file of atomicWrite at once.
THEOREM FileStaysWhole == Spec => []FileWhole
<1>1. EditInv => FileWhole
  BY DEF EditInv, AloneInv, FileWhole
<1> QED BY <1>1, InitEditInv, NextEditInv, PTL DEF Spec

-----------------------------------------------------------------------------
\* The caches.

CacheTypeOK ==
    /\ DOMAIN stores = Agent /\ DOMAIN souls = Agent /\ DOMAIN mcp = Agent
    /\ DOMAIN agentOf = Session
    /\ DOMAIN worker = Session
    /\ \A s \in Session : DOMAIN worker[s] = {"pc", "dir", "reg"}
    /\ DOMAIN rl = Reloader
    /\ \A r \in Reloader : DOMAIN rl[r] = {"pc", "new", "old"}

\* Between reading a directory and resolving the tools with it, the directory is
\* the one of the registry it was read from.
DirRead(a, dir, reg) == a \in DOMAIN reg /\ dir = reg[a].dir

ReadInv ==
    /\ \A s \in Session :
         worker[s].pc = "tools" => DirRead(agentOf[s], worker[s].dir, worker[s].reg)
    /\ job.pc = "tools" => DirRead(job.agent, job.dir, job.reg)

\* A tool call that edits has no reload in progress.
EditorInv == \A e \in Editor : edit[e].pc # "idle" => rl[e].pc = "idle"

\* The agents whose MCP clients InvalidateAgents drops.
MovedFrom(old, new) == Moved(old, new) \cap DOMAIN old

\* Stores, prompts and tools that a reload in progress is about to drop.
DropsStore(a) == \E r \in Reloader : rl[r].pc \in {"mcp", "caches"} /\ a \in StaleStores(rl[r].old, rl[r].new)
DropsSoul(a) == \E r \in Reloader : rl[r].pc \in {"mcp", "caches"} /\ a \in Moved(rl[r].old, rl[r].new)
DropsTools(a) == \E r \in Reloader : rl[r].pc = "mcp" /\ a \in MovedFrom(rl[r].old, rl[r].new)

\* StoresCurrent, and also of an agent the registry does not know: its nil is
\* remembered or about to be dropped, so that a reload which adds the agent is
\* covered.
StoreInv ==
    \A a \in Agent :
        stores[a] # Absent /\ (a \in DOMAIN registry => stores[a] # StoreOf(registry, a)) =>
            DropsStore(a) \/ a \in nilled

SoulInv ==
    \A a \in Agent :
        souls[a] # Absent /\ ~(a \in DOMAIN registry /\ souls[a] = registry[a].dir) => DropsSoul(a)

\* ToolsCurrent: the reload that is about to drop the tools knew the agent.
ToolsInv ==
    \A a \in Agent :
        mcp[a] # Absent /\ ~(a \in DOMAIN registry /\ mcp[a] = registry[a].dir) =>
            DropsTools(a) \/ a \in late

CacheInv == CacheTypeOK /\ ReadInv /\ EditorInv /\ StoreInv /\ SoulInv /\ ToolsInv

\* The caches start empty.
LEMMA InitCacheInv == Init => CacheInv
<1> SUFFICES ASSUME Init PROVE CacheInv
  OBVIOUS
<1>1. CacheTypeOK
  BY DEF Init, ConfigInit, CacheTypeOK, Idle, NoReload
<1>2. ReadInv /\ EditorInv
  BY DEF Init, ConfigInit, ReadInv, EditorInv, Idle, NoJob, NoEdit
<1>3. StoreInv /\ SoulInv /\ ToolsInv
  BY DEF Init, StoreInv, SoulInv, ToolsInv
<1> QED BY <1>1, <1>2, <1>3 DEF CacheInv

\* As long as no reload that is about to drop something moves, and neither the
\* caches nor the registry change, the caches stay current.
LEMMA QuietCaches ==
    ASSUME CacheInv, UNCHANGED <<cachevars, registry>>,
           \A r \in Reloader : rl[r].pc \in {"mcp", "caches"} => rl'[r] = rl[r]
    PROVE  StoreInv' /\ SoulInv' /\ ToolsInv'
<1>1. UNCHANGED <<stores, souls, mcp, nilled, late, registry>>
  BY DEF cachevars
<1>2. ASSUME NEW a \in Agent
      PROVE  /\ DropsStore(a) => DropsStore(a)'
             /\ DropsSoul(a) => DropsSoul(a)'
             /\ DropsTools(a) => DropsTools(a)'
  BY DEF DropsStore, DropsSoul, DropsTools, Reloader
<1>3. StoreInv'
  BY <1>1, <1>2 DEF CacheInv, StoreInv, StoreOf
<1>4. SoulInv'
  BY <1>1, <1>2 DEF CacheInv, SoulInv
<1>5. ToolsInv'
  BY <1>1, <1>2 DEF CacheInv, ToolsInv
<1> QED BY <1>3, <1>4, <1>5

\* A step that leaves the sessions, the job, the caches, the registry and the
\* reloads alone, and no editor starts while it reloads.
LEMMA IdleCacheInv ==
    ASSUME CacheInv, UNCHANGED <<worker, agentOf, cachevars, job, registry, rl>>, EditorInv'
    PROVE  CacheInv'
<1>1. CacheTypeOK' /\ ReadInv'
  BY DEF CacheInv, CacheTypeOK, ReadInv, cachevars, DirRead, Reloader
<1> QED BY <1>1, QuietCaches DEF CacheInv

\* The editors.  The rename starts the reload of an editor that has none.
LEMMA EditorCacheInv ==
    ASSUME CacheInv, EditTypeOK, NEW e \in Editor, EditorStep(e), UNCHANGED factoryvars
    PROVE  CacheInv'
<1>1. UNCHANGED <<worker, agentOf, cachevars, job>>
  BY DEF factoryvars
<1>2. UNCHANGED registry
  BY DEF EditorStep, ConfigGet, Execute, OpenTmp, WriteTmp, WriteFails, Rename,
         RenameFails, Cleanup, reloadvars
<1>3. \A d \in Editor \ {e} : edit'[d] = edit[d]
  BY DEF EditorStep, ConfigGet, Execute, OpenTmp, WriteTmp, WriteFails, Rename,
         RenameFails, Cleanup, Leave, EditTypeOK
<1>4. CASE UNCHANGED rl
  <2>1. rl[e].pc = "idle"
    <3>1. CASE ConfigGet(e)
      BY <3>1 DEF ConfigGet
    <3>2. CASE ~ConfigGet(e)
      BY <3>2 DEF EditorStep, Execute, OpenTmp, WriteTmp, WriteFails, Rename,
         RenameFails, Cleanup, CacheInv, EditorInv
    <3> QED BY <3>1, <3>2
  <2>2. EditorInv'
    BY <1>3, <1>4, <2>1 DEF CacheInv, EditorInv
  <2> QED BY <1>1, <1>2, <1>4, <2>2, IdleCacheInv
<1>5. CASE ~UNCHANGED rl
  <2>1. Rename(e) /\ edit' = [edit EXCEPT ![e] = NoEdit] /\ rl' = [rl EXCEPT ![e].pc = "load"]
    BY <1>5 DEF EditorStep, ConfigGet, Execute, OpenTmp, WriteTmp, WriteFails, Rename,
         RenameFails, Cleanup, reloadvars, Leave
  <2>2. rl[e].pc = "idle" /\ e \in Reloader /\ edit'[e].pc = "idle"
    BY <2>1 DEF Rename, CacheInv, EditorInv, Reloader, EditTypeOK, NoEdit
  <2>3. CacheTypeOK'
    BY <1>1, <2>1, <2>2 DEF CacheInv, CacheTypeOK, cachevars
  <2>4. \A r \in Reloader \ {e} : rl'[r] = rl[r]
    BY <2>1 DEF CacheInv, CacheTypeOK
  <2>5. EditorInv' /\ ReadInv'
    BY <1>1, <1>3, <2>2, <2>4 DEF CacheInv, EditorInv, Reloader, ReadInv, DirRead
  <2>6. StoreInv' /\ SoulInv' /\ ToolsInv'
    BY <1>1, <1>2, <2>2, <2>4, QuietCaches
  <2> QED BY <2>3, <2>5, <2>6 DEF CacheInv
<1> QED BY <1>4, <1>5

\* A reload begins, loads the file or is cancelled: nothing is stale yet.
LEMMA LoadCacheInv ==
    ASSUME CacheInv, NEW r \in Reloader,
           rl[r].pc \notin {"mcp", "caches"}, rl[r].pc # "idle" \/ r \notin Editor,
           UNCHANGED <<worker, agentOf, cachevars, job, registry, edit>>,
           \A q \in Reloader \ {r} : rl'[q] = rl[q],
           DOMAIN rl' = Reloader, DOMAIN rl'[r] = {"pc", "new", "old"}
    PROVE  CacheInv'
<1>1. CacheTypeOK' /\ ReadInv'
  BY DEF CacheInv, CacheTypeOK, ReadInv, cachevars, DirRead
<1>2. EditorInv'
  BY DEF CacheInv, EditorInv, Reloader
<1>3. StoreInv' /\ SoulInv' /\ ToolsInv'
  BY QuietCaches
<1> QED BY <1>1, <1>2, <1>3 DEF CacheInv

\* The swap: what is cached for the old registry and not right for the new one
\* is what this reload is about to drop.
LEMMA SwapCacheInv ==
    ASSUME CacheInv, NEW r \in Reloader, Swap(r), UNCHANGED factoryvars
    PROVE  CacheInv'
<1>1. UNCHANGED <<stores, souls, mcp, nilled, late, worker, agentOf, job, edit>>
  BY DEF Swap, factoryvars, cachevars, filevars
<1>2. /\ rl[r].pc = "swap" /\ registry' = rl[r].new
      /\ DOMAIN rl' = Reloader /\ DOMAIN rl'[r] = {"pc", "new", "old"}
      /\ rl'[r].pc = "mcp" /\ rl'[r].old = registry /\ rl'[r].new = registry'
      /\ \A q \in Reloader \ {r} : rl'[q] = rl[q]
  BY DEF Swap, CacheInv, CacheTypeOK
<1>3. CacheTypeOK' /\ ReadInv'
  BY <1>1, <1>2 DEF CacheInv, CacheTypeOK, ReadInv, DirRead
<1>4. EditorInv'
  BY <1>1, <1>2 DEF CacheInv, EditorInv, Reloader
<1>5. ASSUME NEW a \in Agent
      PROVE  /\ DropsStore(a) => DropsStore(a)'
             /\ DropsSoul(a) => DropsSoul(a)'
             /\ DropsTools(a) => DropsTools(a)'
             /\ a \in StaleStores(registry, registry') => DropsStore(a)'
             /\ a \in Moved(registry, registry') => DropsSoul(a)'
             /\ a \in MovedFrom(registry, registry') => DropsTools(a)'
  BY <1>2 DEF DropsStore, DropsSoul, DropsTools
<1>6. StoreInv'
  <2> SUFFICES ASSUME NEW a \in Agent, stores[a] # Absent,
                      a \in DOMAIN registry' => stores[a] # StoreOf(registry, a)',
                      a \notin nilled, ~DropsStore(a)
               PROVE  a \in StaleStores(registry, registry')
    BY <1>1, <1>5 DEF StoreInv
  <2>1. a \in DOMAIN registry /\ stores[a] = StoreOf(registry, a)
    BY DEF CacheInv, StoreInv
  <2> QED BY <2>1 DEF StaleStores, Moved, StoreOf
<1>7. SoulInv'
  <2> SUFFICES ASSUME NEW a \in Agent, souls[a] # Absent, ~DropsSoul(a),
                      ~(a \in DOMAIN registry' /\ souls[a] = registry'[a].dir)
               PROVE  a \in Moved(registry, registry')
    BY <1>1, <1>5 DEF SoulInv
  <2> QED BY DEF CacheInv, SoulInv, Moved
<1>8. ToolsInv'
  <2> SUFFICES ASSUME NEW a \in Agent, mcp[a] # Absent, ~DropsTools(a), a \notin late,
                      ~(a \in DOMAIN registry' /\ mcp[a] = registry'[a].dir)
               PROVE  a \in MovedFrom(registry, registry')
    BY <1>1, <1>5 DEF ToolsInv
  <2> QED BY DEF CacheInv, ToolsInv, Moved, MovedFrom
<1> QED BY <1>3, <1>4, <1>6, <1>7, <1>8 DEF CacheInv

\* InvalidateAgents drops the tools this reload answers for, and keeps answering
\* for the stores and prompts.
LEMMA InvalidateAgentsCacheInv ==
    ASSUME CacheInv, NEW r \in Reloader, InvalidateAgents(r)
    PROVE  CacheInv'
<1> DEFINE gone == MovedFrom(rl[r].old, rl[r].new)
<1>1. /\ UNCHANGED <<stores, souls, nilled, worker, agentOf, job, edit, registry>>
      /\ mcp' = [a \in Agent |-> IF a \in gone THEN Absent ELSE mcp[a]]
      /\ late' = late \ gone
  BY DEF InvalidateAgents, filevars, MovedFrom
<1> HIDE DEF gone
<1>2. /\ rl[r].pc = "mcp" /\ DOMAIN rl' = Reloader /\ DOMAIN rl'[r] = {"pc", "new", "old"}
      /\ rl'[r].pc = "caches" /\ rl'[r].old = rl[r].old /\ rl'[r].new = rl[r].new
      /\ \A q \in Reloader \ {r} : rl'[q] = rl[q]
  BY DEF InvalidateAgents, CacheInv, CacheTypeOK
<1>3. CacheTypeOK' /\ ReadInv'
  BY <1>1, <1>2 DEF CacheInv, CacheTypeOK, ReadInv, DirRead
<1>4. EditorInv'
  BY <1>1, <1>2 DEF CacheInv, EditorInv, Reloader
<1>5. ASSUME NEW a \in Agent
      PROVE  /\ DropsStore(a) => DropsStore(a)'
             /\ DropsSoul(a) => DropsSoul(a)'
             /\ DropsTools(a) /\ a \notin gone => DropsTools(a)'
  BY <1>2 DEF DropsStore, DropsSoul, DropsTools, gone
<1>6. StoreInv' /\ SoulInv'
  BY <1>1, <1>5 DEF CacheInv, StoreInv, SoulInv, StoreOf
<1>7. ToolsInv'
  BY <1>1, <1>5 DEF CacheInv, ToolsInv
<1> QED BY <1>3, <1>4, <1>6, <1>7 DEF CacheInv

\* The stores and prompts this reload answers for are dropped.
LEMMA InvalidateCachesCacheInv ==
    ASSUME CacheInv, NEW r \in Reloader, InvalidateCaches(r)
    PROVE  CacheInv'
<1> DEFINE moved == Moved(rl[r].old, rl[r].new)
           stale == StaleStores(rl[r].old, rl[r].new)
<1>1. /\ UNCHANGED <<mcp, late, worker, agentOf, job, edit, registry>>
      /\ souls' = [a \in Agent |-> IF a \in moved THEN Absent ELSE souls[a]]
      /\ stores' = [a \in Agent |-> IF a \in stale THEN Absent ELSE stores[a]]
      /\ nilled' = nilled \ stale
  BY DEF InvalidateCaches, filevars
<1> HIDE DEF moved, stale
<1>2. /\ rl[r].pc = "caches" /\ DOMAIN rl' = Reloader /\ DOMAIN rl'[r] = {"pc", "new", "old"}
      /\ \A q \in Reloader \ {r} : rl'[q] = rl[q]
  BY DEF InvalidateCaches, CacheInv, CacheTypeOK
<1>3. CacheTypeOK' /\ ReadInv'
  BY <1>1, <1>2 DEF CacheInv, CacheTypeOK, ReadInv, DirRead
<1>4. EditorInv'
  BY <1>1, <1>2 DEF CacheInv, EditorInv, Reloader
<1>5. ASSUME NEW a \in Agent
      PROVE  /\ DropsStore(a) /\ a \notin stale => DropsStore(a)'
             /\ DropsSoul(a) /\ a \notin moved => DropsSoul(a)'
             /\ DropsTools(a) => DropsTools(a)'
  BY <1>2 DEF DropsStore, DropsSoul, DropsTools, moved, stale
<1>6. StoreInv' /\ SoulInv'
  BY <1>1, <1>5 DEF CacheInv, StoreInv, SoulInv, StoreOf
<1>7. ToolsInv'
  BY <1>1, <1>5 DEF CacheInv, ToolsInv
<1> QED BY <1>3, <1>4, <1>6, <1>7 DEF CacheInv

\* ResolveHistory caches what the registry in use says, or a nil that is remembered.
LEMMA OpenStoresInv ==
    ASSUME CacheInv, NEW as, OpenStores(as), UNCHANGED registry,
           \A r \in Reloader : rl[r].pc \in {"mcp", "caches"} => rl'[r] = rl[r]
    PROVE  StoreInv' /\ DOMAIN stores' = Agent
<1> DEFINE new == {a \in as : stores[a] = Absent}
           stored == {a \in new : StoreOf(registry, a) # "nil"}
<1>1. PICK opened \in SUBSET stored :
            /\ stores' = [a \in Agent |-> IF a \in opened THEN StoreOf(registry, a)
                                          ELSE IF a \in new THEN "nil" ELSE stores[a]]
            /\ nilled' = nilled \cup {a \in new : a \notin DOMAIN registry}
                               \cup (stored \ opened)
  BY DEF OpenStores
<1>2. ASSUME NEW a \in Agent PROVE DropsStore(a) => DropsStore(a)'
  BY DEF DropsStore
<1>3. ASSUME NEW a \in Agent PROVE StoreOf(registry, a)' = StoreOf(registry, a)
  BY DEF StoreOf
<1>4. StoreInv'
  <2> SUFFICES ASSUME NEW a \in Agent, stores'[a] # Absent, a \notin nilled',
                      a \in DOMAIN registry => stores'[a] # StoreOf(registry, a)
               PROVE  DropsStore(a)
    BY <1>2, <1>3 DEF StoreInv
  <2>1. CASE a \in new
    BY <1>1, <2>1
  <2>2. CASE a \notin new
    BY <1>1, <2>2 DEF CacheInv, StoreInv
  <2> QED BY <2>1, <2>2
<1> QED BY <1>1, <1>4

\* schedulerModule.Reload, the last step of a reload.
LEMMA RescheduleCacheInv ==
    ASSUME CacheInv, NEW r \in Reloader, Reschedule(r)
    PROVE  CacheInv'
<1>1. /\ UNCHANGED <<souls, mcp, late, worker, agentOf, job, edit, registry>>
      /\ \E as : OpenStores(as)
  BY DEF Reschedule, filevars
<1>2. /\ rl[r].pc = "jobs" /\ DOMAIN rl' = Reloader /\ DOMAIN rl'[r] = {"pc", "new", "old"}
      /\ \A q \in Reloader \ {r} : rl'[q] = rl[q]
      /\ rl'[r].pc = "idle"
  BY DEF Reschedule, Ends, CacheInv, CacheTypeOK, NoReload
<1>3. StoreInv' /\ DOMAIN stores' = Agent
  BY <1>1, <1>2, OpenStoresInv
<1>4. CacheTypeOK' /\ ReadInv'
  BY <1>1, <1>2, <1>3 DEF CacheInv, CacheTypeOK, ReadInv, DirRead
<1>5. EditorInv'
  BY <1>1, <1>2 DEF CacheInv, EditorInv, Reloader
<1>6. SoulInv' /\ ToolsInv'
  BY <1>1, <1>2 DEF CacheInv, SoulInv, ToolsInv, DropsSoul, DropsTools
<1> QED BY <1>3, <1>4, <1>5, <1>6 DEF CacheInv

\* ResolveTools caches a directory that is right, or was read before a reload.
LEMMA CacheToolsInv ==
    ASSUME CacheInv, NEW a, NEW dir, NEW reg, CacheTools(a, dir, reg), DirRead(a, dir, reg),
           UNCHANGED <<registry, rl>>
    PROVE  ToolsInv' /\ DOMAIN mcp' = Agent
<1>1. /\ mcp' = [mcp EXCEPT ![a] = IF @ = Absent THEN dir ELSE @]
      /\ late' = IF mcp[a] = Absent /\ reg # registry THEN late \cup {a} ELSE late
      /\ DOMAIN mcp = Agent
  BY DEF CacheTools, CacheInv, CacheTypeOK
<1>2. ASSUME NEW b \in Agent PROVE DropsTools(b)' <=> DropsTools(b)
  BY DEF DropsTools
<1>3. ASSUME NEW b \in Agent, mcp'[b] # Absent, b \notin late',
             ~(b \in DOMAIN registry /\ mcp'[b] = registry[b].dir)
      PROVE  DropsTools(b)
  <2>1. CASE b = a /\ mcp[a] = Absent
    BY <1>1, <1>3, <2>1 DEF DirRead
  <2>2. CASE ~(b = a /\ mcp[a] = Absent)
    BY <1>1, <1>3, <2>2 DEF CacheInv, ToolsInv
  <2> QED BY <2>1, <2>2
<1> QED BY <1>1, <1>2, <1>3 DEF ToolsInv

\* ResolveSoul caches the directory of the registry in use.
LEMMA LoadSoulInv ==
    ASSUME CacheInv, NEW a, LoadSoul(a), UNCHANGED <<registry, rl>>
    PROVE  SoulInv' /\ DOMAIN souls' = Agent
<1>1. DOMAIN souls = Agent /\ SoulInv
  BY DEF CacheInv, CacheTypeOK
<1>2. ASSUME NEW b \in Agent PROVE DropsSoul(b)' <=> DropsSoul(b)
  BY DEF DropsSoul
<1> QED BY <1>1, <1>2 DEF LoadSoul, SoulInv

\* The steps of a session.
LEMMA SessionCacheInv ==
    ASSUME CacheInv, NEW s \in Session, SessionStep(s)
    PROVE  CacheInv'
<1>1. UNCHANGED <<rl, registry, edit, job>>
  BY DEF SessionStep, ResolveAgent, AgentConfig, ResolveTools, RegisterTools, ResolveHistory,
         ResolveSoul, NewCommand, configvars, filevars, reloadvars
<1>2. EditorInv'
  BY <1>1 DEF CacheInv, EditorInv
<1>3. /\ DOMAIN agentOf' = Session /\ DOMAIN worker' = Session
      /\ \A t \in Session : DOMAIN worker'[t] = {"pc", "dir", "reg"}
      /\ \A t \in Session \ {s} : worker'[t] = worker[t] /\ agentOf'[t] = agentOf[t]
  BY DEF SessionStep, ResolveAgent, AgentConfig, ResolveTools, RegisterTools, ResolveHistory,
         ResolveSoul, NewCommand, Goto, Done, Idle, CacheInv, CacheTypeOK
<1>4. worker'[s].pc = "tools" => DirRead(agentOf'[s], worker'[s].dir, worker'[s].reg)
  <2> USE DEF CacheInv, CacheTypeOK
  <2>1. CASE AgentConfig(s)
    <3>1. agentOf' = agentOf
      BY <2>1 DEF AgentConfig
    <3>2. CASE agentOf[s] \in DOMAIN registry
      <4>1. worker' = [worker EXCEPT ![s] = [pc |-> "tools", dir |-> registry[agentOf[s]].dir,
                                             reg |-> registry]]
        BY <2>1, <3>2 DEF AgentConfig
      <4>2. worker'[s].dir = registry[agentOf[s]].dir /\ worker'[s].reg = registry
        BY <4>1
      <4> QED BY <3>1, <3>2, <4>2 DEF DirRead
    <3>3. CASE agentOf[s] \notin DOMAIN registry
      <4>1. worker' = [worker EXCEPT ![s] = Idle]
        BY <2>1, <3>3 DEF AgentConfig, Done
      <4>2. worker'[s].pc = "idle"
        BY <4>1 DEF Idle
      <4> QED BY <4>2
    <3> QED BY <3>2, <3>3
  <2>2. CASE ResolveAgent(s) \/ NewCommand(s)
    <3>1. CASE ResolveAgent(s)
      BY <3>1 DEF ResolveAgent, At, Goto
    <3>2. CASE NewCommand(s)
      BY <3>2 DEF NewCommand, At, Goto
    <3> QED BY <2>2, <3>1, <3>2
  <2>3. CASE ResolveTools(s)
    BY <2>3 DEF ResolveTools
  <2>4. CASE RegisterTools(s) \/ ResolveHistory(s) \/ ResolveSoul(s)
    <3>1. Done(s) \/ Goto(s, "history") \/ Goto(s, "soul")
      BY <2>4 DEF RegisterTools, ResolveHistory, ResolveSoul
    <3>2. CASE Done(s)
      <4>1. worker'[s].pc = "idle"
        BY <3>2 DEF Done, Idle
      <4> QED BY <4>1
    <3>3. CASE Goto(s, "history") \/ Goto(s, "soul")
      <4>1. worker'[s].pc \in {"history", "soul"}
        BY <3>3 DEF Goto
      <4> QED BY <4>1
    <3> QED BY <3>1, <3>2, <3>3
  <2> QED BY <2>1, <2>2, <2>3, <2>4 DEF SessionStep
<1>5. ReadInv'
  BY <1>1, <1>3, <1>4 DEF CacheInv, ReadInv, DirRead
<1>6. ASSUME UNCHANGED <<stores, souls, nilled>>, ToolsInv', DOMAIN mcp' = Agent PROVE CacheInv'
  <2>1. StoreInv' /\ SoulInv'
    BY <1>1, <1>6 DEF CacheInv, StoreInv, SoulInv, DropsStore, DropsSoul, StoreOf
  <2> QED BY <1>1, <1>2, <1>3, <1>5, <1>6, <2>1 DEF CacheInv, CacheTypeOK
<1>7. ASSUME UNCHANGED <<souls, mcp, late>>, StoreInv', DOMAIN stores' = Agent PROVE CacheInv'
  <2>1. SoulInv' /\ ToolsInv'
    BY <1>1, <1>7 DEF CacheInv, SoulInv, ToolsInv, DropsSoul, DropsTools
  <2> QED BY <1>1, <1>2, <1>3, <1>5, <1>7, <2>1 DEF CacheInv, CacheTypeOK
<1>8. ASSUME UNCHANGED <<stores, nilled, mcp, late>>, SoulInv', DOMAIN souls' = Agent PROVE CacheInv'
  <2>1. StoreInv' /\ ToolsInv'
    BY <1>1, <1>8 DEF CacheInv, StoreInv, ToolsInv, DropsStore, DropsTools, StoreOf
  <2> QED BY <1>1, <1>2, <1>3, <1>5, <1>8, <2>1 DEF CacheInv, CacheTypeOK
<1>9. CASE ResolveAgent(s) \/ AgentConfig(s) \/ RegisterTools(s)
  <2>1. UNCHANGED cachevars
    BY <1>9 DEF ResolveAgent, AgentConfig, RegisterTools
  <2>2. StoreInv' /\ SoulInv' /\ ToolsInv'
    BY <1>1, <2>1, QuietCaches
  <2> QED BY <1>1, <1>2, <1>3, <1>5, <2>1, <2>2 DEF CacheInv, CacheTypeOK, cachevars
<1>10. CASE ResolveTools(s)
  <2>1. /\ CacheTools(agentOf[s], worker[s].dir, worker[s].reg)
        /\ DirRead(agentOf[s], worker[s].dir, worker[s].reg)
        /\ UNCHANGED <<stores, souls, nilled>>
    BY <1>10 DEF ResolveTools, At, CacheInv, ReadInv
  <2> QED BY <1>1, <1>6, <2>1, CacheToolsInv
<1>11. CASE ResolveHistory(s) \/ NewCommand(s)
  <2>1. OpenStores({agentOf[s]}) /\ UNCHANGED <<souls, mcp, late>>
    BY <1>11 DEF ResolveHistory, NewCommand
  <2> QED BY <1>1, <1>7, <2>1, OpenStoresInv
<1>12. CASE ResolveSoul(s)
  <2>1. LoadSoul(agentOf[s]) /\ UNCHANGED <<stores, nilled, mcp, late>>
    BY <1>12 DEF ResolveSoul
  <2> QED BY <1>1, <1>8, <2>1, LoadSoulInv
<1> QED BY <1>9, <1>10, <1>11, <1>12 DEF SessionStep

\* The steps of a cron job's turn, and the end of the program.
LEMMA JobCacheInv ==
    ASSUME CacheInv, JobResolvesTools \/ JobResolvesSoul \/ EndJob \/ StopRouter
                     \/ \E a \in Agent : StartJob(a)
    PROVE  CacheInv'
<1>1. UNCHANGED <<rl, registry, edit, worker, agentOf>>
  BY DEF JobResolvesTools, JobResolvesSoul, EndJob, StopRouter, StartJob, configvars, filevars,
         reloadvars
<1>2. EditorInv'
  BY <1>1 DEF CacheInv, EditorInv
<1>3. job'.pc = "tools" => DirRead(job'.agent, job'.dir, job'.reg)
  <2>1. CASE JobResolvesTools \/ JobResolvesSoul \/ EndJob
    <3>1. \/ \E tools : job' = [NoJob EXCEPT !.pc = "soul", !.agent = job.agent, !.tools = tools]
          \/ job' = [NoJob EXCEPT !.pc = "running", !.tools = job.tools]
          \/ job' = NoJob
      BY <2>1 DEF JobResolvesTools, JobResolvesSoul, EndJob
    <3>2. NoJob.pc = "idle" /\ "pc" \in DOMAIN NoJob /\ "agent" \in DOMAIN NoJob
      BY DEF NoJob
    <3>3. job'.pc # "tools"
      BY <3>1, <3>2
    <3> QED BY <3>3
  <2>2. CASE StopRouter
    BY <2>2 DEF StopRouter, CacheInv, ReadInv, DirRead
  <2>3. ASSUME NEW a \in Agent, StartJob(a)
        PROVE  job'.pc = "tools" => DirRead(job'.agent, job'.dir, job'.reg)
    BY <2>3 DEF StartJob, DirRead, NoJob, CacheInv, ReadInv
  <2> QED BY <2>1, <2>2, <2>3
<1>4. ReadInv'
  BY <1>1, <1>3 DEF CacheInv, ReadInv, DirRead
<1>5. CASE EndJob \/ \E a \in Agent : StartJob(a)
  <2>1. UNCHANGED cachevars
    BY <1>5 DEF StartJob, EndJob
  <2>2. StoreInv' /\ SoulInv' /\ ToolsInv'
    BY <1>1, <2>1, QuietCaches
  <2> QED BY <1>1, <1>2, <1>4, <2>1, <2>2 DEF CacheInv, CacheTypeOK, cachevars
<1>6. CASE JobResolvesTools
  <2>1. /\ CacheTools(job.agent, job.dir, job.reg) /\ DirRead(job.agent, job.dir, job.reg)
        /\ UNCHANGED <<stores, souls, nilled>>
    BY <1>6 DEF JobResolvesTools, CacheInv, ReadInv
  <2>2. ToolsInv' /\ DOMAIN mcp' = Agent
    BY <1>1, <2>1, CacheToolsInv
  <2>3. StoreInv' /\ SoulInv'
    BY <1>1, <2>1 DEF CacheInv, StoreInv, SoulInv, DropsStore, DropsSoul, StoreOf
  <2> QED BY <1>1, <1>2, <1>4, <2>1, <2>2, <2>3 DEF CacheInv, CacheTypeOK
<1>7. CASE JobResolvesSoul
  <2>1. LoadSoul(job.agent) /\ UNCHANGED <<stores, nilled, mcp, late>>
    BY <1>7 DEF JobResolvesSoul
  <2>2. SoulInv' /\ DOMAIN souls' = Agent
    BY <1>1, <2>1, LoadSoulInv
  <2>3. StoreInv' /\ ToolsInv'
    BY <1>1, <2>1 DEF CacheInv, StoreInv, ToolsInv, DropsStore, DropsTools, StoreOf
  <2> QED BY <1>1, <1>2, <1>4, <2>1, <2>2, <2>3 DEF CacheInv, CacheTypeOK
<1>8. CASE StopRouter
  <2>1. /\ stores' = [a \in Agent |-> Absent] /\ mcp' = [a \in Agent |-> Absent]
        /\ UNCHANGED souls
    BY <1>8 DEF StopRouter, CloseTools
  <2>2. StoreInv' /\ ToolsInv'
    BY <2>1 DEF StoreInv, ToolsInv
  <2>3. SoulInv'
    BY <1>1, <2>1 DEF CacheInv, SoulInv, DropsSoul
  <2> QED BY <1>1, <1>2, <1>4, <2>1, <2>2, <2>3 DEF CacheInv, CacheTypeOK
<1> QED BY <1>5, <1>6, <1>7, <1>8

\* The steps of the watcher and of a reload before the swap.
LEMMA WatchCacheInv ==
    ASSUME CacheInv, UNCHANGED factoryvars,
           \/ WatchStart \/ Poll \/ TakeEvent
           \/ \E r \in Reloader : \/ Request(r) \/ ReloadCancelled(r) \/ Load(r)
                                 \/ Rebuild(r) \/ ReloadFails(r)
    PROVE  CacheInv'
<1>1. UNCHANGED <<worker, agentOf, cachevars, job, registry, edit>>
  BY DEF factoryvars, WatchStart, Poll, TakeEvent, Request, ReloadCancelled, Load, Rebuild,
         ReloadFails, filevars
<1>2. CASE WatchStart \/ Poll
  <2>1. UNCHANGED rl
    BY <1>2 DEF WatchStart, Poll
  <2> QED BY <1>1, <2>1, IdleCacheInv DEF CacheInv, EditorInv
<1>3. ASSUME NEW r \in Reloader,
             \/ (r = "main" /\ TakeEvent) \/ Request(r) \/ ReloadCancelled(r)
             \/ Load(r) \/ Rebuild(r) \/ ReloadFails(r)
      PROVE  CacheInv'
  <2>1. /\ rl[r].pc \notin {"mcp", "caches"} /\ (rl[r].pc # "idle" \/ r \notin Editor)
        /\ \A q \in Reloader \ {r} : rl'[q] = rl[q]
        /\ DOMAIN rl' = Reloader /\ DOMAIN rl'[r] = {"pc", "new", "old"}
    <3> USE DEF CacheInv, CacheTypeOK
    <3>1. CASE (r = "main" /\ TakeEvent) \/ Request(r)
      BY <3>1, ConfigFileAssumption DEF TakeEvent, Request
    <3>2. CASE ReloadCancelled(r)
      BY <3>2 DEF ReloadCancelled, Ends, NoReload
    <3>3. CASE Load(r)
      BY <3>3 DEF Load, Ends, NoReload
    <3>4. CASE Rebuild(r)
      BY <3>4 DEF Rebuild, Ends, NoReload
    <3>5. CASE ReloadFails(r)
      BY <3>5 DEF ReloadFails, Ends, NoReload
    <3> QED BY <1>3, <3>1, <3>2, <3>3, <3>4, <3>5
  <2> QED BY <1>1, <2>1, LoadCacheInv
<1> QED BY <1>2, <1>3 DEF Reloader

\* The invariant of the caches holds in every step.
LEMMA NextCacheInv == CacheInv /\ EditTypeOK /\ [Next]_vars => CacheInv'
<1> SUFFICES ASSUME CacheInv, EditTypeOK, [Next]_vars PROVE CacheInv'
  OBVIOUS
<1>1. CASE UNCHANGED <<configvars, factoryvars>>
  BY <1>1, IdleCacheInv DEF configvars, factoryvars, filevars, reloadvars, CacheInv, EditorInv
<1>2. CASE ConfigStep /\ UNCHANGED <<subvars, factoryvars>>
  <2>1. ASSUME NEW doc \in Document, Save(doc) PROVE CacheInv'
    BY <1>2, <2>1, IdleCacheInv DEF Save, factoryvars, reloadvars, CacheInv, EditorInv
  <2> QED BY <1>2, <2>1, EditorCacheInv, WatchCacheInv DEF ConfigStep
<1>3. CASE Watches
  BY <1>3, WatchCacheInv DEF Watches
<1>4. ASSUME NEW r \in Reloader, Reloads(r) PROVE CacheInv'
  BY <1>4, WatchCacheInv, SwapCacheInv, InvalidateAgentsCacheInv, InvalidateCachesCacheInv,
     RescheduleCacheInv DEF Reloads
<1>5. ASSUME NEW s \in Session, SessionStep(s) PROVE CacheInv'
  BY <1>5, SessionCacheInv
<1>6. CASE JobResolvesTools \/ JobResolvesSoul \/ EndJob \/ StopRouter \/ \E a \in Agent : StartJob(a)
  BY <1>6, JobCacheInv
<1>7. ASSUME NEW id \in SubAgent, JobSpawns(id) \/ JobSends(id) \/ JobKills(id) PROVE CacheInv'
  <2>1. UNCHANGED <<worker, agentOf, cachevars, job, registry, rl, edit>>
    BY <1>7 DEF JobSpawns, JobSends, JobKills, configvars, filevars, reloadvars, factoryvars
  <2> QED BY <2>1, IdleCacheInv DEF CacheInv, EditorInv
<1>8. CASE UNCHANGED vars
  BY <1>1, <1>8 DEF vars
<1> QED BY <1>1, <1>2, <1>3, <1>4, <1>5, <1>6, <1>7, <1>8 DEF Next

\* CachesCurrent for any agents, sessions, editors and documents: a cached
\* store, prompt or tool set is the one the registry in use asks for, or the
\* reload that changed it is about to drop it.
THEOREM CachesFollow == Spec => []CachesCurrent
<1>1. CacheInv => CachesCurrent
  <2> SUFFICES ASSUME CacheInv PROVE StoresCurrent /\ ToolsCurrent
    BY DEF CachesCurrent
  <2>1. StoresCurrent
    <3> SUFFICES ASSUME NEW a \in Agent
                 PROVE  /\ stores[a] \notin {Absent, StoreOf(registry, a)} =>
                              DropsStore(a) \/ a \in nilled
                        /\ souls[a] # Absent /\ ~(a \in DOMAIN registry /\ souls[a] = registry[a].dir)
                              => DropsSoul(a)
      BY DEF StoresCurrent, Dropping, DropsStore, DropsSoul
    <3> QED BY DEF CacheInv, StoreInv, SoulInv
  <2>2. ToolsCurrent
    <3> SUFFICES ASSUME NEW a \in Agent, mcp[a] # Absent, a \notin late,
                        ~(a \in DOMAIN registry /\ mcp[a] = registry[a].dir)
                 PROVE  Dropping({"mcp"}, a, Moved)
      BY DEF ToolsCurrent
    <3> QED BY DEF CacheInv, ToolsInv, DropsTools, MovedFrom, Dropping
  <2> QED BY <2>1, <2>2
<1>2. EditInv => EditTypeOK
  BY DEF EditInv
<1> QED BY <1>1, <1>2, InitEditInv, NextEditInv, InitCacheInv, NextCacheInv, PTL DEF Spec

=============================================================================
