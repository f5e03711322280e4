----------------------------- MODULE ConfigFile -----------------------------
(***************************************************************************)
(* The configuration file and how a change of it reaches the program:      *)
(* internal/tool/configtool (config_get, config_patch, config_apply),      *)
(* internal/config (Load, Validate), internal/reload (Watcher, Handler),   *)
(* the main loop of pkg/app/run.go, the reload endpoint of the gateway.    *)
(* The file and the temporary file of atomicWrite are names for inodes:    *)
(* writers that overlap share the temporary name, and may share its inode. *)
(***************************************************************************)
EXTENDS Naturals, FiniteSets

CONSTANTS
    Agent,       \* names of agents
    Editor,      \* tool calls that edit the configuration
    Edit,        \* what they ask for: a patch or a whole document
    Document,    \* what an operator may save; the first one is Start
    Start,
    DefaultDir,  \* agent -> its data directory when none is given
    ZeroAgent,   \* the settings of an agent whose mapping is empty
    HotPlugins,  \* the binary was built by xsclaw and has a bootstrapper
    Inode,       \* a set of numbers, at least one more than editors
    MaxTime      \* bound: the clock of modification times

Reloader == Editor \cup {"main", "admin"}

ASSUME ConfigFileAssumption ==
    /\ {"main", "admin"} \cap Editor = {}
    /\ \A doc \in Document \cup {Start} : doc.tag = "doc"
    /\ HotPlugins \in BOOLEAN
    /\ IsFiniteSet(Editor)
    /\ Inode \subseteq Nat \ {0} /\ IsFiniteSet(Inode)
    /\ Cardinality(Inode) > Cardinality(Editor)
    /\ MaxTime \in Nat

VARIABLES
    node,      \* inode -> content and modification time
    file,      \* the inode of the configuration
    tmp,       \* the inode of its ".tmp", 0 when there is none
    edit,      \* editor -> where it is, its base, what it writes, its inode
    now,       \* the clock of the file system
    watch,     \* Watcher: started, lastMod, the events channel
    rl,        \* reloader -> where it is, the agents it loaded and replaced
    registry,  \* Factory.registry: the agents in use
    budget,    \* bound: edits, saves and reload requests left
    shared,    \* history variable: two writers had the temporary file at once
    missed     \* history variable: why the last change may stay unloaded

filevars == <<node, file, tmp, edit, now, shared>>
reloadvars == <<watch, rl, registry>>
configvars == <<filevars, reloadvars, budget, missed>>

-----------------------------------------------------------------------------
\* Documents: a tag, the list of plugins, whether there is an agents section and
\* its mapping of agents to settings.

Empty == [tag |-> "empty", plugins |-> "", section |-> FALSE, agents |-> <<>>]
Torn == [tag |-> "torn", plugins |-> "", section |-> FALSE, agents |-> <<>>]
Unused == [doc |-> Empty, mtime |-> 0]

File == node[file].doc

\* config.Load and config.Validate: it parses, and at most one agent is the
\* default.
Valid(doc) ==
    /\ doc.tag = "doc"
    /\ Cardinality({a \in DOMAIN doc.agents : doc.agents[a].default}) <= 1

\* mergeNodes for the agents mapping: null deletes a key, a mapping is merged
\* into the one with its key, a new key is appended.  A section that is new is
\* appended as it is, and an agent that is null in it has zero settings.
Merge(doc, patch) ==
    LET removed == {a \in DOMAIN patch : patch[a].null /\ doc.section}
        keys == (DOMAIN doc.agents \cup DOMAIN patch) \ removed
        Old(a) == IF a \in DOMAIN doc.agents THEN doc.agents[a] ELSE ZeroAgent
    IN  [doc EXCEPT !.section = TRUE, !.agents =
           [a \in keys |-> IF a \notin DOMAIN patch THEN Old(a)
                           ELSE [k \in DOMAIN ZeroAgent |->
                                   IF k \in DOMAIN patch[a].set THEN patch[a].set[k] ELSE Old(a)[k]]]]

\* ParseAgents decodes more of an agent than config.Validate did.
ParseAgents(agents) == \A a \in DOMAIN agents : agents[a].decodes

\* NeedsRebuild: the plugins are not the ones the binary was built with.
NeedsRebuild(doc) == HotPlugins /\ doc.plugins # Start.plugins

\* multiagent.ResolveDefaults.
ResolveDefaults(agents) ==
    [a \in DOMAIN agents |->
        [agents[a] EXCEPT !.dir = IF @ = "" THEN DefaultDir[a] ELSE @]]

-----------------------------------------------------------------------------
NoEdit == [pc |-> "idle", base |-> Start, new |-> Start, fd |-> 0]
NoReload == [pc |-> "idle", new |-> <<>>, old |-> <<>>]

ConfigInit ==
    /\ file = CHOOSE i \in Inode : TRUE
    /\ node = [i \in Inode |-> IF i = file THEN [doc |-> Start, mtime |-> 0] ELSE Unused]
    /\ tmp = 0
    /\ edit = [e \in Editor |-> NoEdit]
    /\ now = 0
    /\ watch = [on |-> FALSE, last |-> 0, event |-> FALSE]
    /\ rl = [r \in Reloader |-> NoReload]
    /\ registry = ResolveDefaults(Start.agents)
    /\ shared = FALSE
    /\ missed = {}

Spend(what) ==
    /\ budget[what] > 0
    /\ budget' = [budget EXCEPT ![what] = @ - 1]

\* The file is now inode i of n: a change whose time is not after the one the
\* watcher remembers is one it will not notice.
Unnoticed(i, n) ==
    missed' = IF n[i].doc = File THEN missed
              ELSE IF watch.on /\ n[i].mtime <= watch.last THEN {"mtime"} ELSE {}

Leave(e) == edit' = [edit EXCEPT ![e] = NoEdit]

\* config_get: the base hash stands for the document.
ConfigGet(e) ==
    /\ edit[e].pc = "idle" /\ rl[e].pc = "idle"
    /\ Spend("edits")
    /\ edit' = [edit EXCEPT ![e] = [NoEdit EXCEPT !.pc = "got", !.base = File]]
    /\ UNCHANGED <<node, file, tmp, now, shared, reloadvars, missed>>

Edited(op, doc) == IF op.patch THEN Merge(doc, op.agents) ELSE op.doc

\* The read, the hash and the validation of config_patch and config_apply.
Accepts(e, op) == File = edit[e].base /\ Valid(Edited(op, File))

Execute(e, op) ==
    /\ edit[e].pc = "got"
    /\ IF Accepts(e, op)
         THEN edit' = [edit EXCEPT ![e].pc = "open", ![e].new = Edited(op, File)]
         ELSE Leave(e)
    /\ UNCHANGED <<node, file, tmp, now, shared, reloadvars, budget, missed>>

Clock == now' \in {now, now + 1} /\ now' <= MaxTime

FreeInode == CHOOSE i \in Inode : i \notin {file, tmp} \cup {edit[e].fd : e \in Editor}

\* The editors between the open of their temporary file and the end of atomicWrite.
InTmp == {e \in Editor : edit[e].pc \in {"write", "rename", "cleanup"}}

\* Mutant: the temporary file is opened without truncating it.
OpenTmpKeeps(e) ==
    /\ edit[e].pc = "open"
    /\ Clock
    /\ LET i == IF tmp # 0 THEN tmp ELSE FreeInode
       IN  /\ node' = IF tmp # 0 THEN node ELSE [node EXCEPT ![i] = [doc |-> Empty, mtime |-> now']]
           /\ tmp' = i
           /\ edit' = [edit EXCEPT ![e].pc = "write", ![e].fd = i]
    /\ shared' = (shared \/ InTmp # {})
    /\ UNCHANGED <<file, reloadvars, budget, missed>>

\* os.WriteFile opens the temporary file, truncating one that is there ...
OpenTmp(e) ==
    /\ edit[e].pc = "open"
    /\ Clock
    /\ LET i == IF tmp # 0 THEN tmp ELSE FreeInode
       IN  /\ node' = [node EXCEPT ![i] = [doc |-> Empty, mtime |-> now']]
           /\ tmp' = i
           /\ edit' = [edit EXCEPT ![e].pc = "write", ![e].fd = i]
    /\ shared' = (shared \/ InTmp # {})
    /\ UNCHANGED <<file, reloadvars, budget, missed>>

\* ... and writes.  Over what another writer wrote meanwhile, the longer of the
\* two keeps its tail.
WriteTmp(e) ==
    /\ edit[e].pc = "write"
    /\ Clock
    /\ LET i == edit[e].fd
       IN  \E doc \in {edit[e].new} \cup
                      (IF node[i].doc.tag = "empty" \/ node[i].doc = edit[e].new
                         THEN {} ELSE {Torn}) :
               node' = [node EXCEPT ![i] = [doc |-> doc, mtime |-> now']]
    /\ edit' = [edit EXCEPT ![e].pc = "rename", ![e].fd = 0]
    /\ Unnoticed(file, node')
    /\ UNCHANGED <<file, tmp, shared, reloadvars, budget>>

\* The open or the write fails, the write after a part of the document: the
\* edit ends, and the temporary file stays.
WriteFails(e) ==
    /\ edit[e].pc \in {"open", "write"}
    /\ \/ UNCHANGED <<node, now>>
       \/ /\ edit[e].pc = "write"
          /\ Clock
          /\ node' = [node EXCEPT ![edit[e].fd] = [doc |-> Torn, mtime |-> now']]
    /\ Leave(e)
    /\ Unnoticed(file, node')
    /\ UNCHANGED <<file, tmp, shared, reloadvars, budget>>

\* os.Rename, then the reload the tool asks for ...
Rename(e) ==
    /\ edit[e].pc = "rename"
    /\ tmp # 0
    /\ file' = tmp
    /\ tmp' = 0
    /\ node' = IF \E d \in Editor : edit[d].fd = file THEN node
               ELSE [node EXCEPT ![file] = Unused]
    /\ Leave(e)
    /\ rl' = [rl EXCEPT ![e].pc = "load"]
    /\ Unnoticed(tmp, node)
    /\ UNCHANGED <<now, shared, watch, registry, budget>>

\* ... or its error, because the file is gone or for another reason, ...
RenameFails(e) ==
    /\ edit[e].pc = "rename"
    /\ edit' = [edit EXCEPT ![e].pc = "cleanup"]
    /\ UNCHANGED <<node, file, tmp, now, shared, reloadvars, budget, missed>>

\* ... after which the temporary file is removed, whoever made it.
Cleanup(e) ==
    /\ edit[e].pc = "cleanup"
    /\ tmp' = 0
    /\ Leave(e)
    /\ UNCHANGED <<node, file, now, shared, reloadvars, budget, missed>>

\* An operator saves the file.
Save(doc) ==
    /\ Spend("saves")
    /\ doc # File
    /\ Clock
    /\ node' = [node EXCEPT ![file] = [doc |-> doc, mtime |-> now']]
    /\ Unnoticed(file, node')
    /\ UNCHANGED <<file, tmp, edit, shared, reloadvars>>

-----------------------------------------------------------------------------
\* The watcher and the reloads.

Loaded == registry = ResolveDefaults(File.agents)

\* Watcher.Start: the time it starts from is read long after the file was.
WatchStart ==
    /\ ~watch.on
    /\ watch' = [watch EXCEPT !.on = TRUE, !.last = node[file].mtime]
    /\ missed' = IF Loaded THEN missed ELSE missed \cup {"early"}
    /\ UNCHANGED <<filevars, rl, registry, budget>>


\* Watcher.poll: a full channel already announces the change.
Poll ==
    /\ watch.on /\ node[file].mtime > watch.last
    /\ watch' = [watch EXCEPT !.last = node[file].mtime, !.event = TRUE]
    /\ UNCHANGED <<filevars, rl, registry, budget, missed>>

\* The main loop takes an event of the watcher ...
TakeEvent ==
    /\ watch.event /\ rl["main"].pc = "idle"
    /\ watch' = [watch EXCEPT !.event = FALSE]
    /\ rl' = [rl EXCEPT !["main"].pc = "load"]
    /\ UNCHANGED <<filevars, registry, budget, missed>>

\* ... or SIGHUP; the gateway's handler serves POST /api/config/reload.
Request(r) ==
    /\ r \in {"main", "admin"} /\ rl[r].pc = "idle"
    /\ r = "main" => watch.on
    /\ Spend("requests")
    /\ rl' = [rl EXCEPT ![r].pc = "load"]
    /\ UNCHANGED <<filevars, watch, registry, missed>>

Ends(r) == rl' = [rl EXCEPT ![r] = NoReload]

\* HandleReload and handleReloadConfig: load and validate, then reload the
\* modules.  A file without an agents section leaves the router and the scheduler
\* as they are; an empty section does not.  In reloadOrRebuild, the main loop's, a
\* new list of plugins asks for a rebuild instead.
Load(r) ==
    /\ rl[r].pc = "load"
    /\ \/ /\ ~Valid(File)
          /\ Ends(r)
       \/ /\ Valid(File)
          /\ r = "main" /\ NeedsRebuild(File)
          /\ rl' = [rl EXCEPT ![r].pc = "rebuild"]
       \/ /\ Valid(File)
          /\ ~(r = "main" /\ NeedsRebuild(File))
          /\ IF File.section
               THEN rl' = [rl EXCEPT ![r] = [NoReload EXCEPT !.pc = "swap",
                                                             !.new = ResolveDefaults(File.agents)]]
               ELSE Ends(r)
    /\ UNCHANGED <<filevars, watch, registry, budget, missed>>

\* Bootstrapper.Rebuild fails and the program goes on as it was, or succeeds and
\* the process is about to be stopped and replaced.
Rebuild(r) ==
    /\ rl[r].pc = "rebuild"
    /\ \/ /\ Ends(r)
          /\ missed' = IF NeedsRebuild(File) THEN missed \cup {"failed"} ELSE missed
       \/ /\ rl' = [rl EXCEPT ![r].pc = "exec"]
          /\ UNCHANGED missed
    /\ UNCHANGED <<filevars, watch, registry, budget>>

\* The context of a tool call or of a request ends before the reload.
ReloadCancelled(r) ==
    /\ r # "main"
    /\ rl[r].pc = "swap"
    /\ Ends(r)
    /\ UNCHANGED <<filevars, watch, registry, budget, missed>>

\* routerModule.Reload fails: an agent does not decode, for the scheduler
\* neither, or EnsureDirectories cannot create a directory, and then the scheduler
\* is reloaded all the same.
ReloadFails(r) ==
    /\ rl[r].pc = "swap"
    /\ IF ParseAgents(rl[r].new) THEN rl' = [rl EXCEPT ![r].pc = "jobs"] ELSE Ends(r)
    /\ missed' = IF r = "main" /\ rl[r].new = ResolveDefaults(File.agents)
                   THEN missed \cup {"failed"} ELSE missed
    /\ UNCHANGED <<filevars, watch, registry, budget>>

\* Factory.Reload: the registry is replaced, outside any lock.
Swap(r) ==
    /\ rl[r].pc = "swap"
    /\ ParseAgents(rl[r].new)
    /\ registry' = rl[r].new
    /\ rl' = [rl EXCEPT ![r].pc = "mcp", ![r].old = registry]
    /\ missed' = IF Valid(File) /\ Loaded /\ rl[r].new # registry
                   THEN missed \cup {"overtaken"} ELSE missed
    /\ UNCHANGED <<filevars, watch, budget>>

-----------------------------------------------------------------------------
\* FileWhole: the configuration on disk is a whole document at every moment,
\* through writes that fail half way and leave their temporary file behind,
\* renames that fail and the edits that come after them, unless two tool calls
\* had the temporary file of atomicWrite, which they share, open at once.
FileWhole == shared \/ File.tag = "doc"

Unloaded == Valid(File) /\ File.section /\ ParseAgents(File.agents) /\ ~Loaded


=============================================================================
