---------------------------- MODULE AppLifecycle ----------------------------
(***************************************************************************)
(* internal/core/core.go under the main loop of pkg/app/run.go: modules    *)
(* are loaded, started in order, reloaded, and stopped in reverse order,   *)
(* on a failed start, on shutdown, and before the process re-executes a    *)
(* rebuilt binary.  Reloads also come from HTTP handlers of the gateway,   *)
(* concurrently with the main loop.                                        *)
(***************************************************************************)
EXTENDS Integers

CONSTANTS
    N,           \* modules, in the order of App.modules
    Configured,  \* 1 .. Configured come from the configuration, the others
                 \* (router, cron) are appended by wireRouter and wireCron
    Starters,    \* modules that implement Starter
    Stoppers,    \* modules that implement Stopper
    Impatient,   \* modules whose Stop returns when its context ends, work or not
    Restarters,  \* modules whose Reload starts background work (cron)
    Gateway      \* the gateway's index, or 0

ASSUME LifecycleAssumption ==
    /\ N \in Nat \ {0}
    /\ Configured \in 0 .. N
    /\ Starters \subseteq 1 .. N
    /\ Stoppers \subseteq 1 .. N
    /\ Impatient \subseteq Stoppers
    /\ Restarters \subseteq Starters
    /\ Gateway \in 0 .. N

VARIABLES
    phase,    \* where the main goroutine is
    i,        \* its loop index in App.modules
    loaded,   \* len(App.modules)
    started,  \* modules with moduleInstance.started
    held,     \* modules that hold the resources of their Provision
    running,  \* modules with background work
    left,     \* modules whose Stop gave up waiting for their work
    after,    \* what the main goroutine does after stopModules
    cause,    \* how the process ended: "none", "load", "wire", "start" or "shutdown"
    reload,   \* ReloadModules' index, 0 when idle: of the main loop, of a handler
    disturbed \* history variable: this process saw a reload that failed, or that
              \* restarted a module outside the main loop's phase, or a failed exec

vars == <<phase, i, loaded, started, held, running, left, after, cause, reload, disturbed>>

Reloader == {"main", "gateway"}

Init ==
    /\ phase = "load"
    /\ i = 0
    /\ loaded = 0
    /\ started = {}
    /\ held = {}
    /\ running = {}
    /\ left = {}
    /\ after = "exited"
    /\ cause = "none"
    /\ reload = [r \in Reloader |-> 0]
    /\ disturbed = FALSE

-----------------------------------------------------------------------------
\* LoadModules and the wiring.

\* AppContext.LoadModule: Provision acquires resources, then Validate may
\* fail.  The failed module is not yet in App.modules.
LoadModule ==
    /\ phase = "load"
    /\ loaded < Configured
    /\ \/ /\ loaded' = loaded + 1
          /\ held' = held \cup {loaded + 1}
          /\ UNCHANGED <<phase, i, cause>>
       \/ /\ held' \in {held, held \cup {loaded + 1}}
          /\ phase' = "cleanup"
          /\ i' = loaded
          /\ cause' = "load"
          /\ UNCHANGED loaded
    /\ UNCHANGED <<started, running, after, reload, disturbed, left>>

\* Mutant: the failed load stops only started modules, of which there are none.
CleanupStarted ==
    /\ phase = "cleanup"
    /\ phase' = "exited"
    /\ UNCHANGED <<i, loaded, started, held, running, after, cause, reload, disturbed, left>>

\* App.cleanup, in reverse order.
Cleanup ==
    /\ phase = "cleanup"
    /\ IF i = 0 THEN phase' = "exited" /\ UNCHANGED <<i, held>>
       ELSE /\ i' = i - 1
            /\ held' = IF i \in Stoppers THEN held \ {i} ELSE held
            /\ UNCHANGED phase
    /\ UNCHANGED <<loaded, started, running, after, cause, reload, disturbed, left>>

\* wireRouter and wireCron append their modules, or end the process.
Wire ==
    /\ phase = "load"
    /\ loaded = Configured
    /\ \/ /\ phase' = "start"
          /\ i' = 1
          /\ loaded' = N
          /\ held' = held \cup (Configured + 1) .. N
          /\ UNCHANGED cause
       \/ /\ phase' = "exited"
          /\ cause' = "wire"
          /\ UNCHANGED <<i, loaded, held>>
    /\ UNCHANGED <<started, running, after, reload, disturbed, left>>

-----------------------------------------------------------------------------
\* Start and stopModules.

Stopping(from, next) ==
    /\ phase' = "stop"
    /\ i' = from
    /\ after' = next

\* Mutant: a failed Start is returned without stopping the modules before it.
StartFailureReturns ==
    /\ phase = "start"
    /\ i <= N
    /\ \/ /\ i' = i + 1
          /\ started' = IF i \in Starters THEN started \cup {i} ELSE started
          /\ running' = IF i \in Starters THEN running \cup {i} ELSE running
          /\ UNCHANGED <<phase, cause>>
       \/ /\ i \in Starters
          /\ phase' = "exited"
          /\ cause' = "start"
          /\ UNCHANGED <<i, started, running>>
    /\ UNCHANGED <<loaded, held, after, reload, disturbed, left>>

\* One round of App.Start; a failure stops the modules before it.
StartModule ==
    /\ phase = "start"
    /\ i <= N
    /\ \/ /\ i' = i + 1
          /\ started' = IF i \in Starters THEN started \cup {i} ELSE started
          /\ running' = IF i \in Starters THEN running \cup {i} ELSE running
          /\ UNCHANGED <<phase, after, cause>>
       \/ /\ i \in Starters
          /\ Stopping(i - 1, "exited")
          /\ cause' = "start"
          /\ UNCHANGED <<started, running>>
    /\ UNCHANGED <<loaded, held, reload, disturbed, left>>

StartDone ==
    /\ phase = "start"
    /\ i > N
    /\ phase' = "run"
    /\ UNCHANGED <<i, loaded, started, held, running, after, cause, reload, disturbed, left>>

\* Mutant: modules are stopped in the order of their start.
StopForward ==
    /\ phase = "stop"
    /\ i > 0
    /\ LET m == loaded + 1 - i IN
       /\ i' = i - 1
       /\ started' = started \ {m}
       /\ running' = IF m \in started \cap Stoppers THEN running \ {m} ELSE running
       /\ held' = IF m \in started \cap Stoppers THEN held \ {m} ELSE held
    /\ UNCHANGED <<phase, loaded, after, cause, reload, disturbed, left>>

\* One round of stopModules: modules that were not started are skipped.  Stop
\* ends the module's work, or gives up when the 30 seconds of stopModules or a
\* timeout of its own have passed; its error is logged.  Gateway.Stop waits for
\* the handlers.
StopModule ==
    /\ phase = "stop"
    /\ i > 0
    /\ i' = i - 1
    /\ started' = started \ {i}
    /\ held' = IF i \in started \cap Stoppers THEN held \ {i} ELSE held
    /\ \/ /\ i \in started \cap Stoppers
          /\ i = Gateway => reload["gateway"] = 0
          /\ running' = running \ {i}
          /\ UNCHANGED left
       \/ /\ i \in started \cap Impatient
          /\ left' = left \cup {i}
          /\ UNCHANGED running
       \/ /\ i \notin started \cap Stoppers
          /\ UNCHANGED <<running, left>>
    /\ UNCHANGED <<phase, loaded, after, cause, reload, disturbed>>

\* Work that a Stop did not wait for ends: the poller sees its context
\* cancelled, the last handler returns.
LeftEnds(m) ==
    /\ phase # "exited"
    /\ m \in left \cap running
    /\ m = Gateway => reload["gateway"] = 0
    /\ running' = running \ {m}
    /\ UNCHANGED <<phase, i, loaded, started, held, left, after, cause, reload, disturbed>>

StopDone ==
    /\ phase = "stop"
    /\ i = 0
    /\ phase' = after
    /\ UNCHANGED <<i, loaded, started, held, running, after, cause, reload, disturbed, left>>

-----------------------------------------------------------------------------
\* The main event loop.

MainLoop == phase = "run" /\ reload["main"] = 0

\* ctx.Done(): App.Stop, then RunWithContext returns.
Shutdown ==
    /\ MainLoop
    /\ Stopping(N, "exited")
    /\ cause' = "shutdown"
    /\ UNCHANGED <<loaded, started, held, running, reload, disturbed, left>>

\* The plugin list changed and the new binary was built: App.Stop, then
\* ReExec.  A failed build changes nothing.
Rebuild ==
    /\ MainLoop
    /\ Stopping(N, "reexec")
    /\ UNCHANGED <<loaded, started, held, running, cause, reload, disturbed, left>>

\* syscall.Exec starts the program again, or fails: the main loop goes on.
ReExec ==
    /\ phase = "reexec"
    /\ \/ /\ phase' = "load"
          /\ i' = 0
          /\ loaded' = 0
          /\ started' = {}
          /\ held' = {}
          /\ running' = {}
          /\ left' = {}
          /\ after' = "exited"
          /\ reload' = [r \in Reloader |-> 0]
          /\ disturbed' = FALSE
          /\ UNCHANGED cause
       \/ /\ phase' = "run"
          /\ disturbed' = TRUE
          /\ UNCHANGED <<i, loaded, started, held, running, left, after, cause, reload>>

\* ReloadModules begins: SIGHUP or the file watcher in the main loop, POST
\* /api/config/reload while the gateway serves.  Gateway.Stop waits for its
\* handlers only until its timeout, so a reload may outlive it.
BeginReload(r) ==
    /\ phase # "exited"
    /\ reload[r] = 0
    /\ r = "main" => MainLoop
    /\ r = "gateway" => Gateway \in running
    /\ reload' = [reload EXCEPT ![r] = 1]
    /\ UNCHANGED <<phase, i, loaded, started, held, running, after, cause, disturbed, left>>

\* One round of ReloadModules.  schedulerModule.Reload replaces its scheduler
\* by a running one; when that one cannot start, none runs.
ReloadModule(r) ==
    /\ phase # "exited"
    /\ reload[r] > 0
    /\ LET m == reload[r] IN
       \/ m \notin Restarters /\ UNCHANGED <<running, disturbed>>
       \/ /\ m \in Restarters
          /\ running' = running \cup {m}
          /\ disturbed' = (disturbed \/ phase # "run")
       \/ /\ m \in Restarters
          /\ running' = running \ {m}
          /\ disturbed' = TRUE
    /\ reload' = [reload EXCEPT ![r] = IF @ < N THEN @ + 1 ELSE 0]
    /\ UNCHANGED <<phase, i, loaded, started, held, after, cause, left>>

\* The process ended.
Exited == phase = "exited" /\ UNCHANGED vars

Next ==
    \/ LoadModule \/ Cleanup \/ Wire
    \/ StartModule \/ StartDone \/ StopModule \/ StopDone
    \/ Shutdown \/ Rebuild \/ ReExec
    \/ \E r \in Reloader : BeginReload(r) \/ ReloadModule(r)
    \/ \E m \in 1 .. N : LeftEnds(m)
    \/ Exited

Spec == Init /\ [][Next]_vars

-----------------------------------------------------------------------------
Phases == {"load", "cleanup", "start", "stop", "run", "reexec", "exited"}

TypeOK ==
    /\ phase \in Phases
    /\ i \in 0 .. N + 1
    /\ loaded \in 0 .. N
    /\ started \subseteq Starters
    /\ held \subseteq 1 .. N
    /\ running \subseteq Starters
    /\ left \subseteq Impatient
    /\ after \in {"exited", "reexec"}
    /\ cause \in {"none", "load", "wire", "start", "shutdown"}
    /\ reload \in [Reloader -> 0 .. N]
    /\ disturbed \in BOOLEAN

\* The modules that run and that no Stop has given up on.
Active == running \ left

\* Those of set S are the first ones of S.
InLayers(S) == \A a, b \in S : a < b /\ b \in Active => a \in Active

\* Modules run in layers: whatever a module was started on top of runs as long
\* as it does, while starting, after a failed start, during reloads and while
\* stopping (App.Start in order, stopModules in reverse order), but for the work
\* that its own Stop did not wait for.
RunningInLayers == ~disturbed => InLayers(Starters)

\* Reloads that fail or race with a start or a stop, and failed re-executions,
\* never disturb the layers of the modules that a reload does not restart.
StaticInLayers == InLayers(Starters \ Restarters)

\* When stopModules has returned, after a failed start or on shutdown, nothing
\* that can be stopped runs any more (docs/configuration/daemon.mdx: a shutdown
\* "gracefully stops all modules"), but for the last poll, handler or export that
\* the module's own Stop gave up on: a Stop that times out keeps none of the
\* others from being stopped, and no module that waits (router, cron) runs on.
StoppedIsQuiet ==
    ~disturbed /\ phase \in {"reexec", "exited"} => running \cap Stoppers \subseteq left \cap Impatient

\* The main loop serves: all modules run, whatever reloads and rebuilds did
\* (run.go: "if the build fails the running application stays up").
LoopServes == ~disturbed /\ phase = "run" => Active = Starters

\* A failed load releases what the modules loaded before had acquired
\* (LoadModules: "already-loaded modules are cleaned up").
FailedLoadReleases ==
    phase = "exited" /\ cause = "load" => held \cap Stoppers \cap 1 .. loaded = {}

-----------------------------------------------------------------------------
\* The inductive invariants behind these properties.

\* What runs is what the loops of Start and stopModules have left running.
Progress ==
    /\ phase \in {"load", "cleanup", "reexec", "exited"} => Active = {}
    /\ phase = "start" => i >= 1 /\ Active = Starters \cap 1 .. (i - 1)
    /\ phase = "run" => Active = Starters
    /\ phase = "stop" => Active = Starters \cap 1 .. i

\* No Stop has given up before stopModules runs.
NoneLeft == phase \in {"load", "cleanup", "start"} => left = {}

\* Until a disturbance, the started flags tell what runs.
IInv ==
    /\ TypeOK
    /\ NoneLeft
    /\ ~disturbed => started = Active /\ Progress

Static == Starters \ Restarters

\* The same for the modules no reload restarts, in every behaviour; after a
\* failed re-execution the main loop goes on with none of them.
StaticIInv ==
    /\ TypeOK
    /\ NoneLeft
    /\ started \cap Static = Active \cap Static
    /\ phase \in {"load", "cleanup", "reexec", "exited"} => Active \cap Static = {}
    /\ phase = "start" => i >= 1 /\ Active \cap Static = Static \cap 1 .. (i - 1)
    /\ phase = "run" => Active \cap Static \in {{}, Static}
    /\ phase = "stop" => Active \cap Static \in {{}, Static \cap 1 .. i}

\* App.cleanup has released the modules behind its index.
CleanupIInv ==
    /\ TypeOK
    /\ phase = "cleanup" => held \cap Stoppers \cap 1 .. loaded \subseteq 1 .. i
    /\ cause = "load" => phase \in {"cleanup", "exited"}
    /\ FailedLoadReleases
=============================================================================
