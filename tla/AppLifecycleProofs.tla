------------------------ MODULE AppLifecycleProofs ------------------------
(***************************************************************************)
(* Proofs about AppLifecycle for every list of modules, whichever of them  *)
(* can be started, stopped or reloaded.                                    *)
(***************************************************************************)
EXTENDS AppLifecycle, TLAPS

\* Every step keeps the variables in their types.
LEMMA NextTypeOK == TypeOK /\ [Next]_vars => TypeOK'
  <1> SUFFICES ASSUME TypeOK, [Next]_vars PROVE TypeOK'
    OBVIOUS
  <1> USE LifecycleAssumption DEF TypeOK
  <1>1. CASE LoadModule
    <2> USE <1>1 DEF LoadModule
    <2>1. loaded + 1 \in 1 .. N
      OBVIOUS
    <2>2. held' \subseteq 1 .. N
      BY <2>1
    <2>3. loaded' \in 0 .. N /\ i' \in 0 .. N + 1
      BY <2>1
    <2>4. phase' \in Phases
      BY DEF Phases
    <2>5. QED
      BY <2>2, <2>3, <2>4
  <1>2. CASE Cleanup
    <2> USE <1>2 DEF Cleanup
    <2>1. held' \subseteq 1 .. N
      OBVIOUS
    <2>2. i' \in 0 .. N + 1
      OBVIOUS
    <2>3. phase' \in Phases
      BY DEF Phases
    <2>4. QED
      BY <2>1, <2>2, <2>3
  <1>3. CASE Wire
    <2> USE <1>3 DEF Wire
    <2>0. (Configured + 1) .. N \subseteq 1 .. N
      OBVIOUS
    <2>1. held' \subseteq 1 .. N
      BY <2>0
    <2>2. i' \in 0 .. N + 1 /\ loaded' \in 0 .. N
      OBVIOUS
    <2>3. phase' \in Phases
      BY DEF Phases
    <2>4. QED
      BY <2>1, <2>2, <2>3
  <1>4. CASE StartModule
    <2> USE <1>4 DEF StartModule, Stopping
    <2>1. started' \subseteq Starters /\ running' \subseteq Starters
      OBVIOUS
    <2>2. i' \in 0 .. N + 1
      OBVIOUS
    <2>3. phase' \in Phases /\ after' \in {"exited", "reexec"}
      BY DEF Phases
    <2>4. QED
      BY <2>1, <2>2, <2>3
  <1>5. CASE StartDone \/ StopDone
    BY <1>5 DEF StartDone, StopDone, Phases
  <1>6. CASE StopModule
    <2> USE <1>6 DEF StopModule
    <2>1. started' \subseteq Starters /\ running' \subseteq Starters /\ held' \subseteq 1 .. N
      OBVIOUS
    <2>2. i' \in 0 .. N + 1
      OBVIOUS
    <2>3. left' \subseteq Impatient
      <3>1. left' = left \/ (i \in Impatient /\ left' = left \cup {i})
        OBVIOUS
      <3>2. left \subseteq Impatient
        OBVIOUS
      <3>3. QED
        BY ONLY <3>1, <3>2
    <2>4. QED
      BY <2>1, <2>2, <2>3
  <1>7. CASE Shutdown \/ Rebuild
    <2> USE <1>7 DEF Shutdown, Rebuild, Stopping
    <2>1. i' \in 0 .. N + 1 /\ phase' \in Phases
      BY DEF Phases
    <2>2. QED
      BY <2>1
  <1>8. CASE ReExec
    <2> USE <1>8 DEF ReExec
    <2>1. i' \in 0 .. N + 1 /\ loaded' \in 0 .. N
      OBVIOUS
    <2>2. reload' \in [Reloader -> 0 .. N]
      OBVIOUS
    <2>3. phase' \in Phases
      BY DEF Phases
    <2>4. QED
      BY <2>1, <2>2, <2>3
  <1>9. ASSUME NEW r \in Reloader, BeginReload(r) PROVE TypeOK'
    <2>1. reload' \in [Reloader -> 0 .. N]
      BY <1>9 DEF BeginReload
    <2>2. QED
      BY <1>9, <2>1 DEF BeginReload
  <1>10. ASSUME NEW r \in Reloader, ReloadModule(r) PROVE TypeOK'
    <2>1. reload' \in [Reloader -> 0 .. N]
      <3>1. reload[r] \in 0 .. N
        OBVIOUS
      <3>2. (IF reload[r] < N THEN reload[r] + 1 ELSE 0) \in 0 .. N
        BY <3>1
      <3>3. QED
        BY <1>10, <3>2 DEF ReloadModule
    <2>2. running' \subseteq Starters
      <3>1. \/ running' = running
            \/ reload[r] \in Starters /\ running' = running \cup {reload[r]}
            \/ running' = running \ {reload[r]}
        BY <1>10 DEF ReloadModule
      <3>2. running \subseteq Starters
        OBVIOUS
      <3> HIDE LifecycleAssumption DEF TypeOK
      <3>3. QED
        BY <3>1, <3>2, Zenon
    <2>3. QED
      BY <1>10, <2>1, <2>2 DEF ReloadModule
  <1>11. CASE Exited \/ UNCHANGED vars
    BY <1>11 DEF Exited, vars
  <1>12. ASSUME NEW m \in 1 .. N, LeftEnds(m) PROVE TypeOK'
    BY <1>12 DEF LeftEnds
  <1>13. QED
    BY <1>1, <1>2, <1>3, <1>4, <1>5, <1>6, <1>7, <1>8, <1>9, <1>10, <1>11, <1>12 DEF Next

\* The initial state has its types.
LEMMA InitTypeOK == Init => TypeOK
  <1> SUFFICES ASSUME Init PROVE TypeOK
    OBVIOUS
  <1>1. disturbed \in BOOLEAN
    BY DEF Init
  <1>2. reload \in [Reloader -> 0 .. N]
    BY LifecycleAssumption DEF Init
  <1>3. QED
    BY <1>1, <1>2, LifecycleAssumption DEF Init, TypeOK, Phases

\* NoneLeft, through every step.
LEMMA NextNoneLeft == TypeOK /\ NoneLeft /\ [Next]_vars => NoneLeft'
  <1> SUFFICES ASSUME TypeOK, NoneLeft, [Next]_vars PROVE NoneLeft'
    OBVIOUS
  <1> USE DEF NoneLeft, TypeOK
  <1>1. CASE LoadModule \/ Cleanup \/ Wire \/ StartDone \/ Exited \/ UNCHANGED vars
    BY <1>1 DEF LoadModule, Cleanup, Wire, StartDone, Exited, vars
  <1>2. CASE StartModule \/ Shutdown \/ Rebuild
    BY <1>2 DEF StartModule, Shutdown, Rebuild, Stopping
  <1>3. CASE StopModule \/ StopDone \/ ReExec
    BY <1>3 DEF StopModule, StopDone, ReExec
  <1>4. ASSUME NEW r \in Reloader, BeginReload(r) \/ ReloadModule(r) PROVE NoneLeft'
    BY <1>4 DEF BeginReload, ReloadModule
  <1>5. ASSUME NEW m \in 1 .. N, LeftEnds(m) PROVE NoneLeft'
    BY <1>5 DEF LeftEnds
  <1>6. QED
    BY <1>1, <1>2, <1>3, <1>4, <1>5 DEF Next

\* Work that a Stop gave up on is not Active, whether or not it has ended, and a
\* Stop makes its module inactive either way.
LEMMA StopOf ==
    ASSUME TypeOK, StopModule
    PROVE  /\ i \in 1 .. N + 1 /\ i' = i - 1 /\ started' = started \ {i}
           /\ UNCHANGED <<phase, disturbed>>
           /\ Active' = IF i \in started \cap Stoppers THEN Active \ {i} ELSE Active
  <1>1. /\ i \in 1 .. N + 1 /\ i' = i - 1 /\ started' = started \ {i}
        /\ UNCHANGED <<phase, disturbed>>
    BY LifecycleAssumption DEF StopModule, TypeOK
  <1>2. \/ i \in started \cap Stoppers /\ running' = running \ {i} /\ left' = left
        \/ i \in started \cap Stoppers /\ left' = left \cup {i} /\ running' = running
        \/ i \notin started \cap Stoppers /\ running' = running /\ left' = left
    BY LifecycleAssumption DEF StopModule
  <1>3. Active' = IF i \in started \cap Stoppers THEN Active \ {i} ELSE Active
    BY <1>2 DEF Active
  <1>4. QED
    BY <1>1, <1>3

LEMMA LeftEndsOf ==
    ASSUME NEW m \in 1 .. N, LeftEnds(m)
    PROVE  Active' = Active /\ UNCHANGED <<phase, i, started, left, disturbed>>
  BY DEF LeftEnds, Active

\* Until a disturbance, every step keeps what runs in step with the loops of
\* core.go.
LEMMA NextIInv ==
    ASSUME Starters \subseteq Stoppers, IInv, [Next]_vars
    PROVE  IInv'
  <1>0. TypeOK' /\ NoneLeft'
    BY NextTypeOK, NextNoneLeft DEF IInv
  <1> USE LifecycleAssumption DEF IInv, Progress, TypeOK, Phases, Reloader
  <1>1. CASE LoadModule \/ Cleanup \/ Wire
    <2>1. UNCHANGED <<started, disturbed>> /\ Active' = Active
      BY <1>1 DEF LoadModule, Cleanup, Wire, Active
    <2>2. \/ phase' \in {"load", "cleanup", "exited"}
          \/ phase' = "start" /\ i' = 1
      BY <1>1 DEF LoadModule, Cleanup, Wire
    <2>3. Starters \cap 1 .. (1 - 1) = {}
      OBVIOUS
    <2>4. ~disturbed => Active = {}
      BY <1>1 DEF LoadModule, Cleanup, Wire
    <2>5. ~disturbed' /\ phase' = "start" => i' >= 1 /\ Active' = Starters \cap 1 .. (i' - 1)
      <3> SUFFICES ASSUME ~disturbed', phase' = "start"
                   PROVE  i' >= 1 /\ Active' = Starters \cap 1 .. (i' - 1)
        OBVIOUS
      <3>1. i' = 1
        BY <2>2
      <3>2. Active' = {}
        BY <2>1, <2>4
      <3>3. QED
        BY <2>3, <3>1, <3>2
    <2>6. QED
      BY <1>0, <2>1, <2>2, <2>4, <2>5
  <1>2. CASE StartModule
    <2> SUFFICES ASSUME ~disturbed' PROVE started' = Active' /\ Progress'
      BY <1>0
    <2>0. /\ ~disturbed /\ left = {} /\ left' = {}
          /\ Active = Starters \cap 1 .. (i - 1) /\ started = Active /\ i \in 1 .. N
      BY <1>2 DEF StartModule, NoneLeft
    <2>1. Active = running /\ Active' = running'
      BY <2>0 DEF Active
    <2>2. ~disturbed /\ running = Starters \cap 1 .. (i - 1) /\ started = running /\ i \in 1 .. N
      BY <2>0, <2>1
    <2>3. CASE phase' = "start"
      <3>1. i' = i + 1 /\ started' = running'
        BY <1>2, <2>2, <2>3 DEF StartModule, Stopping
      <3>2. running' = Starters \cap 1 .. i
        BY <1>2, <2>2, <2>3 DEF StartModule, Stopping
      <3>3. i' - 1 = i /\ i' >= 1
        BY <2>2, <3>1
      <3>4. QED
        BY <2>1, <2>3, <3>1, <3>2, <3>3
    <2>4. CASE phase' = "stop"
      <3>1. i' = i - 1 /\ UNCHANGED <<started, running>>
        BY <1>2, <2>4 DEF StartModule, Stopping
      <3>2. QED
        BY <2>1, <2>2, <2>4, <3>1
    <2>5. QED
      BY <1>2, <2>3, <2>4 DEF StartModule, Stopping
  <1>3. CASE StartDone
    <2>1. i - 1 = N
      BY <1>3 DEF StartDone
    <2>2. Starters \cap 1 .. N = Starters
      OBVIOUS
    <2>3. Active' = Active
      BY <1>3 DEF StartDone, Active
    <2>4. QED
      BY <1>0, <1>3, <2>1, <2>2, <2>3 DEF StartDone
  <1>4. CASE StopModule
    <2>1. /\ i \in 1 .. N + 1 /\ i' = i - 1 /\ started' = started \ {i}
          /\ UNCHANGED <<phase, disturbed>> /\ phase = "stop"
          /\ Active' = IF i \in started \cap Stoppers THEN Active \ {i} ELSE Active
      BY <1>4, StopOf DEF StopModule
    <2>2. ~disturbed => started = Active /\ Active = Starters \cap 1 .. i
      BY <2>1
    <2>3. ~disturbed => Active' = Active \ {i} /\ started' = Active'
      BY <2>1, <2>2
    <2>4. (Starters \cap 1 .. i) \ {i} = Starters \cap 1 .. (i - 1)
      BY <2>1
    <2>5. QED
      BY <1>0, <2>1, <2>2, <2>3, <2>4
  <1>5. CASE StopDone
    <2>1. Active' = Active
      BY <1>5 DEF StopDone, Active
    <2>2. QED
      BY <1>0, <1>5, <2>1 DEF StopDone
  <1>6. CASE Shutdown \/ Rebuild
    <2>1. Active' = Active
      BY <1>6 DEF Shutdown, Rebuild, Active
    <2>2. QED
      BY <1>0, <1>6, <2>1 DEF Shutdown, Rebuild, Stopping, MainLoop
  <1>7. CASE ReExec
    BY <1>0, <1>7 DEF ReExec, Active
  <1>8. ASSUME NEW r \in Reloader, BeginReload(r) PROVE IInv'
    <2>1. Active' = Active
      BY <1>8 DEF BeginReload, Active
    <2>2. QED
      BY <1>0, <1>8, <2>1 DEF BeginReload
  <1>9. ASSUME NEW r \in Reloader, ReloadModule(r) PROVE IInv'
    <2> SUFFICES ASSUME ~disturbed' PROVE started' = Active' /\ Progress'
      BY <1>0
    <2>1. ~disturbed /\ UNCHANGED <<phase, i, started, left>>
      BY <1>9 DEF ReloadModule
    <2>2. running' = running
      <3>1. \/ running' = running
            \/ phase = "run" /\ reload[r] \in Restarters /\ running' = running \cup {reload[r]}
        BY <1>9 DEF ReloadModule
      <3>2. phase = "run" => Starters \subseteq running
        BY <2>1 DEF Active
      <3>3. QED
        BY <3>1, <3>2
    <2>3. Active' = Active
      BY <2>1, <2>2 DEF Active
    <2>4. QED
      BY <2>1, <2>3
  <1>10. CASE Exited \/ UNCHANGED vars
    <2>1. Active' = Active
      BY <1>10 DEF Exited, vars, Active
    <2>2. QED
      BY <1>0, <1>10, <2>1 DEF Exited, vars
  <1>11. ASSUME NEW m \in 1 .. N, LeftEnds(m) PROVE IInv'
    BY <1>0, <1>11, LeftEndsOf
  <1>12. QED
    BY <1>1, <1>2, <1>3, <1>4, <1>5, <1>6, <1>7, <1>8, <1>9, <1>10, <1>11 DEF Next

\* The invariant of core.go's loops holds in every reachable state.
THEOREM InductiveInvariant ==
    ASSUME Starters \subseteq Stoppers
    PROVE  Spec => []IInv
  <1>1. Init => IInv
    BY InitTypeOK DEF Init, IInv, NoneLeft, Active, Progress, Reloader
  <1>2. IInv /\ [Next]_vars => IInv'
    BY NextIInv
  <1>3. QED
    BY <1>1, <1>2, PTL DEF Spec

\* Modules run in the layers App.Start built, at every moment of a start, a
\* failed start, a reload, a shutdown or a re-execution, for any modules.
THEOREM RunningInLayersHolds ==
    ASSUME Starters \subseteq Stoppers
    PROVE  Spec => []RunningInLayers
  <1>1. IInv => RunningInLayers
    BY LifecycleAssumption DEF IInv, Progress, TypeOK, Phases, RunningInLayers, InLayers
  <1>2. QED
    BY <1>1, InductiveInvariant, PTL

\* Nothing that can be stopped runs once stopModules has returned, unless a reload
\* raced with it, but for work that the module's own Stop gave up waiting for.
THEOREM StoppedIsQuietHolds ==
    ASSUME Starters \subseteq Stoppers
    PROVE  Spec => []StoppedIsQuiet
  <1>1. IInv => StoppedIsQuiet
    BY DEF IInv, Progress, TypeOK, Active, StoppedIsQuiet
  <1>2. QED
    BY <1>1, InductiveInvariant, PTL

\* The main loop only runs with every module running, unless a reload or a
\* re-execution failed.
THEOREM LoopServesHolds ==
    ASSUME Starters \subseteq Stoppers
    PROVE  Spec => []LoopServes
  <1>1. IInv => LoopServes
    BY DEF IInv, Progress, LoopServes
  <1>2. QED
    BY <1>1, InductiveInvariant, PTL

\* Whatever reloads do, they leave the modules they do not restart to the
\* loops of core.go.
LEMMA NextStaticIInv ==
    ASSUME Starters \subseteq Stoppers, StaticIInv, [Next]_vars
    PROVE  StaticIInv'
  <1>0. TypeOK' /\ NoneLeft'
    BY NextTypeOK, NextNoneLeft DEF StaticIInv
  <1> USE LifecycleAssumption DEF StaticIInv, Static, TypeOK, Phases, Reloader
  <1>1. CASE LoadModule \/ Cleanup \/ Wire
    <2>1. Active \cap Static = {} /\ started' = started /\ Active' = Active
      BY <1>1 DEF LoadModule, Cleanup, Wire, Active
    <2>2. \/ phase' \in {"load", "cleanup", "exited"}
          \/ phase' = "start" /\ i' = 1
      BY <1>1 DEF LoadModule, Cleanup, Wire
    <2>3. phase' = "start" => Static \cap 1 .. (i' - 1) = {}
      BY <2>2
    <2>4. Active' \cap Static = {} /\ started' \cap Static = {}
      BY <2>1
    <2>5. phase' = "start" => i' >= 1
      BY <2>2
    <2>6. QED
      BY <1>0, <2>2, <2>3, <2>4, <2>5
  <1>2. CASE StartModule
    <2>0. /\ left = {} /\ left' = {} /\ i \in 1 .. N /\ started \cap Static = Active \cap Static
          /\ Active \cap Static = Static \cap 1 .. (i - 1)
      BY <1>2 DEF StartModule, NoneLeft
    <2>1. Active = running /\ Active' = running'
      BY <2>0 DEF Active
    <2>2. /\ Active = running /\ Active' = running' /\ i \in 1 .. N
          /\ started \cap Static = running \cap Static /\ running \cap Static = Static \cap 1 .. (i - 1)
      BY <2>0, <2>1
    <2>3. CASE phase' = "start"
      <3>1. i' = i + 1 /\ started' \cap Static = running' \cap Static
        BY <1>2, <2>2, <2>3 DEF StartModule, Stopping
      <3>2. running' \cap Static = Static \cap 1 .. i
        BY <1>2, <2>2, <2>3 DEF StartModule, Stopping
      <3>3. i' - 1 = i /\ i' >= 1
        BY <2>2, <3>1
      <3>4. QED
        BY <1>0, <2>2, <2>3, <3>1, <3>2, <3>3
    <2>4. CASE phase' = "stop"
      <3>1. i' = i - 1 /\ UNCHANGED <<started, running>>
        BY <1>2, <2>4 DEF StartModule, Stopping
      <3>2. QED
        BY <1>0, <2>2, <2>4, <3>1
    <2>5. QED
      BY <1>2, <2>3, <2>4 DEF StartModule, Stopping
  <1>3. CASE StartDone
    <2>1. i - 1 = N
      BY <1>3 DEF StartDone
    <2>2. Static \cap 1 .. N = Static
      OBVIOUS
    <2>3. Active' = Active
      BY <1>3 DEF StartDone, Active
    <2>4. QED
      BY <1>0, <1>3, <2>1, <2>2, <2>3 DEF StartDone
  <1>4. CASE StopModule
    <2>1. /\ i \in 1 .. N + 1 /\ i' = i - 1 /\ started' = started \ {i}
          /\ UNCHANGED <<phase, disturbed>> /\ phase = "stop"
          /\ Active' = IF i \in started \cap Stoppers THEN Active \ {i} ELSE Active
      BY <1>4, StopOf DEF StopModule
    <2>2. Active' \cap Static = (Active \cap Static) \ {i}
      BY <2>1
    <2>3. started' \cap Static = Active' \cap Static
      BY <2>1, <2>2
    <2>4. (Static \cap 1 .. i) \ {i} = Static \cap 1 .. (i - 1)
      BY <2>1
    <2>5. QED
      BY <1>0, <2>1, <2>2, <2>3, <2>4
  <1>5. CASE StopDone
    <2>1. Active' = Active
      BY <1>5 DEF StopDone, Active
    <2>2. QED
      BY <1>0, <1>5, <2>1 DEF StopDone
  <1>6. CASE Shutdown \/ Rebuild
    <2>1. Active' = Active
      BY <1>6 DEF Shutdown, Rebuild, Active
    <2>2. QED
      BY <1>0, <1>6, <2>1 DEF Shutdown, Rebuild, Stopping, MainLoop
  <1>7. CASE ReExec
    BY <1>0, <1>7 DEF ReExec, Active
  <1>8. ASSUME NEW r \in Reloader, BeginReload(r) PROVE StaticIInv'
    <2>1. Active' = Active
      BY <1>8 DEF BeginReload, Active
    <2>2. QED
      BY <1>0, <1>8, <2>1 DEF BeginReload
  <1>9. ASSUME NEW r \in Reloader, ReloadModule(r) PROVE StaticIInv'
    <2>1. UNCHANGED <<phase, i, started, left>>
      BY <1>9 DEF ReloadModule
    <2>2. running' \cap Static = running \cap Static
      BY <1>9 DEF ReloadModule
    <2>3. Active' \cap Static = Active \cap Static
      BY <2>1, <2>2 DEF Active
    <2>4. QED
      BY <1>0, <2>1, <2>3
  <1>10. CASE Exited \/ UNCHANGED vars
    <2>1. Active' = Active
      BY <1>10 DEF Exited, vars, Active
    <2>2. QED
      BY <1>0, <1>10, <2>1 DEF Exited, vars
  <1>11. ASSUME NEW m \in 1 .. N, LeftEnds(m) PROVE StaticIInv'
    BY <1>0, <1>11, LeftEndsOf
  <1>12. QED
    BY <1>1, <1>2, <1>3, <1>4, <1>5, <1>6, <1>7, <1>8, <1>9, <1>10, <1>11 DEF Next

\* Reloads beside the main loop, failed reloads and failed re-executions never
\* disturb the layers of the modules a reload does not restart.
THEOREM StaticInLayersHolds ==
    ASSUME Starters \subseteq Stoppers
    PROVE  Spec => []StaticInLayers
  <1>1. Init => StaticIInv
    BY InitTypeOK DEF Init, StaticIInv, NoneLeft, Active
  <1>2. StaticIInv /\ [Next]_vars => StaticIInv'
    BY NextStaticIInv
  <1>3. StaticIInv => StaticInLayers
    BY LifecycleAssumption DEF StaticIInv, Static, TypeOK, Phases, StaticInLayers, InLayers
  <1>4. QED
    BY <1>1, <1>2, <1>3, PTL DEF Spec

\* A failed LoadModules releases what the modules loaded before had acquired.
THEOREM FailedLoadReleasesHolds == Spec => []FailedLoadReleases
  <1>1. Init => CleanupIInv
    BY InitTypeOK DEF Init, CleanupIInv, FailedLoadReleases
  <1>2. CleanupIInv /\ [Next]_vars => CleanupIInv'
    <2> SUFFICES ASSUME CleanupIInv, [Next]_vars PROVE CleanupIInv'
      OBVIOUS
    <2>0. TypeOK'
      BY NextTypeOK DEF CleanupIInv
    <2> USE LifecycleAssumption DEF CleanupIInv, FailedLoadReleases, TypeOK, Phases
    <2>1. CASE LoadModule
      BY <2>0, <2>1 DEF LoadModule
    <2>2. CASE Cleanup
      BY <2>0, <2>2 DEF Cleanup
    <2>3. CASE Wire \/ StartDone \/ StopModule \/ StopDone \/ ReExec
      BY <2>0, <2>3 DEF Wire, StartDone, StopModule, StopDone, ReExec
    <2>4. CASE StartModule \/ Shutdown \/ Rebuild
      BY <2>0, <2>4 DEF StartModule, Shutdown, Rebuild, Stopping, MainLoop
    <2>5. ASSUME NEW r \in Reloader, BeginReload(r) \/ ReloadModule(r) PROVE CleanupIInv'
      BY <2>0, <2>5 DEF BeginReload, ReloadModule
    <2>6. CASE Exited \/ UNCHANGED vars
      BY <2>0, <2>6 DEF Exited, vars
    <2>7. ASSUME NEW m \in 1 .. N, LeftEnds(m) PROVE CleanupIInv'
      BY <2>0, <2>7 DEF LeftEnds
    <2>8. QED
      BY <2>1, <2>2, <2>3, <2>4, <2>5, <2>6, <2>7 DEF Next
  <1>3. CleanupIInv => FailedLoadReleases
    BY DEF CleanupIInv
  <1>4. QED
    BY <1>1, <1>2, <1>3, PTL DEF Spec
=============================================================================
