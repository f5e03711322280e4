------------------------------ MODULE LaneLock ------------------------------
(***************************************************************************)
(* internal/router/lane.go: per-session mutexes kept in a map that is      *)
(* garbage collected while workers wait on, hold and release them.         *)
(*                                                                         *)
(* A lane is a heap object with an identity: the map may drop a lane that  *)
(* a goroutine still points to, and create another one for the same key.   *)
(* Everything done under LaneLock.mu is one step; locking and unlocking    *)
(* lane.mu, which the code does outside LaneLock.mu, are steps of their    *)
(* own.                                                                    *)
(***************************************************************************)
EXTENDS Naturals, FiniteSets

CONSTANTS Thread,   \* goroutines that call Acquire / TryAcquire / Release
          Key,      \* SessionKey values
          Lane,     \* addresses of lane objects
          NoLane,   \* the nil *lane
          NoThread  \* "lane.mu is unlocked"

ASSUME LaneAssumption ==
    /\ IsFiniteSet(Thread)
    /\ NoLane \notin Lane
    /\ NoThread \notin Thread

VARIABLES
    lanes,    \* LaneLock.lanes: [Key -> Lane or NoLane]
    refs,     \* lane.refs
    stale,    \* lane.stale
    holder,   \* lane.mu: the goroutine that locked it, or NoThread
    pc,       \* where each goroutine is in the LaneLock code
    key,      \* the key argument of its call
    ptr       \* its local variable ln

vars == <<lanes, refs, stale, holder, pc, key, ptr>>

\* Points between two atomic steps.  "wait": before ln.mu.Lock() of Acquire;
\* "try": before ln.mu.TryLock(); "undo": TryLock failed, refs not yet undone;
\* "crit": the caller holds the lane; "release": before ln.mu.Unlock().
Points == {"idle", "wait", "try", "undo", "crit", "release"}

Init ==
    /\ lanes = [k \in Key |-> NoLane]
    /\ refs = [l \in Lane |-> 0]
    /\ stale = [l \in Lane |-> FALSE]
    /\ holder = [l \in Lane |-> NoThread]
    /\ pc = [t \in Thread |-> "idle"]
    /\ key \in [Thread -> Key]
    /\ ptr = [t \in Thread |-> NoLane]

\* An address &lane{} may return: nothing points to it any more.
Unreachable(l) == /\ \A k \in Key : lanes[k] # l
                  /\ \A t \in Thread : ptr[t] # l

\* The block under LaneLock.mu that opens Acquire and TryAcquire: look the
\* lane up or create it, count the caller, clear stale.
Lookup(t, k, next) ==
    /\ pc[t] = "idle"
    /\ key' = [key EXCEPT ![t] = k]
    /\ pc' = [pc EXCEPT ![t] = next]
    /\ \/ /\ lanes[k] # NoLane
          /\ refs' = [refs EXCEPT ![lanes[k]] = @ + 1]
          /\ stale' = [stale EXCEPT ![lanes[k]] = FALSE]
          /\ ptr' = [ptr EXCEPT ![t] = lanes[k]]
          /\ UNCHANGED <<lanes, holder>>
       \/ /\ lanes[k] = NoLane
          /\ \E l \in Lane :
                /\ Unreachable(l)
                /\ lanes' = [lanes EXCEPT ![k] = l]
                /\ refs' = [refs EXCEPT ![l] = 1]
                /\ stale' = [stale EXCEPT ![l] = FALSE]
                /\ holder' = [holder EXCEPT ![l] = NoThread]
                /\ ptr' = [ptr EXCEPT ![t] = l]

Acquire(t, k) == Lookup(t, k, "wait")

\* Mutant: a lane that became stale while the worker waited is not locked.
LockUnlessStale(t) ==
    /\ pc[t] = "wait"
    /\ holder[ptr[t]] = NoThread /\ ~stale[ptr[t]]
    /\ holder' = [holder EXCEPT ![ptr[t]] = t]
    /\ pc' = [pc EXCEPT ![t] = "crit"]
    /\ UNCHANGED <<lanes, refs, stale, key, ptr>>

\* ln.mu.Lock() returns.
Lock(t) ==
    /\ pc[t] = "wait"
    /\ holder[ptr[t]] = NoThread
    /\ holder' = [holder EXCEPT ![ptr[t]] = t]
    /\ pc' = [pc EXCEPT ![t] = "crit"]
    /\ UNCHANGED <<lanes, refs, stale, key, ptr>>

TryAcquire(t, k) == Lookup(t, k, "try")

TryLock(t) ==
    /\ pc[t] = "try"
    /\ \/ /\ holder[ptr[t]] = NoThread
          /\ holder' = [holder EXCEPT ![ptr[t]] = t]
          /\ pc' = [pc EXCEPT ![t] = "crit"]
       \/ /\ holder[ptr[t]] # NoThread
          /\ pc' = [pc EXCEPT ![t] = "undo"]
          /\ UNCHANGED holder
    /\ UNCHANGED <<lanes, refs, stale, key, ptr>>

\* refs-- on lane l and, when it was the last reference to a stale lane, the
\* deletion of key k from the map.
Unref(l, k) ==
    /\ refs' = [refs EXCEPT ![l] = @ - 1]
    /\ lanes' = IF refs[l] = 1 /\ stale[l] THEN [lanes EXCEPT ![k] = NoLane]
                                           ELSE lanes

\* The failed TryAcquire undoes its reference and returns false.
TryUndo(t) ==
    /\ pc[t] = "undo"
    /\ Unref(ptr[t], key[t])
    /\ pc' = [pc EXCEPT ![t] = "idle"]
    /\ ptr' = [ptr EXCEPT ![t] = NoLane]
    /\ UNCHANGED <<stale, holder, key>>

\* Release looks the lane up again by key; if the map lost it, it returns
\* without unlocking anything.
Release(t) ==
    /\ pc[t] = "crit"
    /\ LET l == lanes[key[t]] IN
       IF l = NoLane
       THEN /\ pc' = [pc EXCEPT ![t] = "idle"]
            /\ ptr' = [ptr EXCEPT ![t] = NoLane]
            /\ UNCHANGED <<lanes, refs>>
       ELSE /\ Unref(l, key[t])
            /\ pc' = [pc EXCEPT ![t] = "release"]
            /\ ptr' = [ptr EXCEPT ![t] = l]
    /\ UNCHANGED <<stale, holder, key>>

\* ln.mu.Unlock(), after LaneLock.mu was given up.
Unlock(t) ==
    /\ pc[t] = "release"
    /\ holder' = [holder EXCEPT ![ptr[t]] = NoThread]
    /\ pc' = [pc EXCEPT ![t] = "idle"]
    /\ ptr' = [ptr EXCEPT ![t] = NoLane]
    /\ UNCHANGED <<lanes, refs, stale, key>>

\* Lanes the map holds for keys outside activeKeys.
Orphans(activeKeys) == {lanes[k] : k \in Key \ activeKeys} \ {NoLane}
Mapped(activeKeys) == {lanes[k] : k \in activeKeys} \ {NoLane}

\* Mutant: Cleanup deletes orphaned lanes without looking at refs.
CleanupIgnoringRefs(activeKeys) ==
    /\ stale' = [l \in Lane |-> IF l \in Orphans(activeKeys) THEN TRUE
                                ELSE IF l \in Mapped(activeKeys) THEN FALSE
                                ELSE stale[l]]
    /\ lanes' = [k \in Key |-> IF k \notin activeKeys THEN NoLane ELSE lanes[k]]
    /\ UNCHANGED <<refs, holder, pc, key, ptr>>

\* Cleanup, called by lazyPruner.TryPrune with the keys of the live sessions:
\* any set of keys, as sessions come and go independently of lanes.
Cleanup(activeKeys) ==
    /\ stale' = [l \in Lane |-> IF l \in Orphans(activeKeys) THEN TRUE
                                ELSE IF l \in Mapped(activeKeys) THEN FALSE
                                ELSE stale[l]]
    /\ lanes' = [k \in Key |-> IF /\ k \notin activeKeys
                                  /\ lanes[k] # NoLane
                                  /\ refs[lanes[k]] = 0
                               THEN NoLane ELSE lanes[k]]
    /\ UNCHANGED <<refs, holder, pc, key, ptr>>

Next ==
    \/ \E t \in Thread :
          \/ \E k \in Key : Acquire(t, k)
          \/ \E k \in Key : TryAcquire(t, k)
          \/ Lock(t)
          \/ TryLock(t)
          \/ TryUndo(t)
          \/ Release(t)
          \/ Unlock(t)
    \/ \E activeKeys \in SUBSET Key : Cleanup(activeKeys)

Spec == Init /\ [][Next]_vars

\* Every goroutine keeps running (the Go scheduler is fair and no critical
\* section blocks forever: an agent run has a timeout).  sync.Mutex hands a
\* contended lock to the longest waiter after 1 ms, so Lock is strongly fair.
Fairness ==
    \A t \in Thread : /\ SF_vars(Lock(t))
                      /\ WF_vars(TryLock(t))
                      /\ WF_vars(TryUndo(t))
                      /\ WF_vars(Release(t))
                      /\ WF_vars(Unlock(t))

FairSpec == Spec /\ Fairness

-----------------------------------------------------------------------------
\* Goroutines counted in the refs of lane l.
Users(l) == {t \in Thread : pc[t] \in {"wait", "try", "undo", "crit"} /\ ptr[t] = l}

TypeOK ==
    /\ lanes \in [Key -> Lane \cup {NoLane}]
    /\ refs \in [Lane -> Nat]
    /\ stale \in [Lane -> BOOLEAN]
    /\ holder \in [Lane -> Thread \cup {NoThread}]
    /\ pc \in [Thread -> Points]
    /\ key \in [Thread -> Key]
    /\ ptr \in [Thread -> Lane \cup {NoLane}]

\* Two workers never process messages of the same session at the same time,
\* whatever the pruner collects meanwhile (lane.go: "messages within the same
\* session are processed one at a time").
MutualExclusion ==
    \A t, u \in Thread : pc[t] = "crit" /\ pc[u] = "crit" /\ key[t] = key[u] => t = u

\* Release unlocks exactly the mutex its caller locked: never another
\* worker's, never an unlocked one (a fatal error in Go), although it finds
\* the lane again by key.
UnlocksOwnLane ==
    \A t \in Thread : pc[t] = "release" => holder[ptr[t]] = t

\* A worker is only ever blocked by a worker of its own session: the lane it
\* waits on is never one that was recycled for another key.
BlockedBySameSession ==
    \A t, u \in Thread :
        pc[t] = "wait" /\ holder[ptr[t]] = u => key[u] = key[t] /\ pc[u] \in {"crit", "release"}

\* Lanes of dead sessions do not accumulate: a lane that Cleanup marked stale
\* stays in the map only while a goroutine references it.
StaleLaneIsReferenced ==
    \A k \in Key : lanes[k] # NoLane /\ stale[lanes[k]] => Users(lanes[k]) # {}

\* The count that decides deletion never drifts from the goroutines that use
\* the lane, in Acquire, in Release and in the undo path of TryAcquire.
RefsCountUsers == \A l \in Lane : refs[l] = Cardinality(Users(l))

\* Every message that waits for its lane eventually gets it.
WaiterEnters == \A t \in Thread : pc[t] = "wait" ~> pc[t] = "crit"

-----------------------------------------------------------------------------
\* The inductive invariant behind the safety properties.

\* A counted goroutine's lane is the one the map gives for its key.
UsersMapped ==
    \A t \in Thread : pc[t] \in {"wait", "try", "undo", "crit"} =>
                        ptr[t] # NoLane /\ lanes[key[t]] = ptr[t]

\* A goroutine past Lock and not past Unlock holds its lane's mutex ...
HoldersHold ==
    \A t \in Thread : pc[t] \in {"crit", "release"} => ptr[t] # NoLane /\ holder[ptr[t]] = t

\* ... and a reachable locked mutex belongs to such a goroutine.
LockedByHolder ==
    \A l \in Lane : holder[l] # NoThread =>
        pc[holder[l]] \in {"crit", "release"} /\ ptr[holder[l]] = l

\* Two keys never share a lane.
LanesDistinct == \A j, k \in Key : lanes[j] = lanes[k] /\ lanes[k] # NoLane => j = k

\* A lane being unlocked is still its key's lane, or left the map for good.
ReleasedLane ==
    \A t \in Thread : pc[t] = "release" =>
        \A k \in Key : lanes[k] = ptr[t] => k = key[t]

IdleHasNoLane == \A t \in Thread : pc[t] = "idle" => ptr[t] = NoLane

IInv == /\ TypeOK
        /\ UsersMapped
        /\ HoldersHold
        /\ LockedByHolder
        /\ LanesDistinct
        /\ ReleasedLane
        /\ IdleHasNoLane
        /\ RefsCountUsers
        /\ StaleLaneIsReferenced

-----------------------------------------------------------------------------
\* LaneLock implements the per-session mutual exclusion it promises: the
\* caller is inside from the Lock that admits it to its call of Release.
AbstractPhase ==
    [t \in Thread |-> CASE pc[t] \in {"wait", "try", "undo"} -> "asking"
                        [] pc[t] = "crit" -> "in"
                        [] OTHER -> "out"]

Mutex == INSTANCE SessionMutex WITH phase <- AbstractPhase, wanted <- key

ImplementsSessionMutex == Mutex!Spec
=============================================================================
