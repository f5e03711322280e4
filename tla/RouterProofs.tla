---------------------------- MODULE RouterProofs ----------------------------
(***************************************************************************)
(* Proofs about the two mechanisms of internal/router that share state     *)
(* between goroutines: the inbox and its worker pool (Router), and the     *)
(* locks of the sessions (LaneLock), each for any number of goroutines.    *)
(***************************************************************************)
EXTENDS Router, LaneLock, FiniteSetTheorems, SequenceTheorems, TLAPS

-----------------------------------------------------------------------------
\* Router.


\* What the channel holds after a send and after a receive.
Held(q) == {q[i] : i \in DOMAIN q}

\* A send adds the message.
LEMMA HeldAppend ==
    ASSUME NEW q \in Seq(Nat), NEW x \in Nat
    PROVE  /\ Append(q, x) \in Seq(Nat)
           /\ Len(Append(q, x)) = Len(q) + 1
           /\ Held(Append(q, x)) = Held(q) \cup {x}
<1> DEFINE a == Append(q, x)
<1>1. /\ a \in Seq(Nat)
      /\ Len(a) = Len(q) + 1
      /\ Len(q) \in Nat
      /\ DOMAIN q = 1 .. Len(q)
      /\ DOMAIN a = 1 .. Len(q) + 1
      /\ \A i \in 1 .. Len(q) : a[i] = q[i]
      /\ a[Len(q) + 1] = x
  OBVIOUS
<1> HIDE DEF a
<1>2. Held(a) \subseteq Held(q) \cup {x}
  BY <1>1 DEF Held
<1>3. Held(q) \cup {x} \subseteq Held(a)
  BY <1>1 DEF Held
<1> QED BY <1>1, <1>2, <1>3 DEF a

\* A receive removes the head.
LEMMA HeldTail ==
    ASSUME NEW q \in Seq(Nat), q # <<>>
    PROVE  /\ Head(q) \in Nat
           /\ Tail(q) \in Seq(Nat)
           /\ Len(Tail(q)) = Len(q) - 1
           /\ Held(q) = Held(Tail(q)) \cup {Head(q)}
<1>1. Len(q) \in Nat /\ Len(q) > 0 /\ DOMAIN q = 1 .. Len(q)
  BY EmptySeq
<1>2. /\ Tail(q) \in Seq(Nat)
      /\ Len(Tail(q)) = Len(q) - 1
      /\ \A i \in 1 .. Len(q) - 1 : Tail(q)[i] = q[i + 1]
  BY <1>1
<1>3. Head(q) = q[1] /\ Head(q) \in Nat
  BY <1>1
<1>4. Held(q) \subseteq Held(Tail(q)) \cup {Head(q)}
  <2> SUFFICES ASSUME NEW i \in 1 .. Len(q), q[i] # q[1]
               PROVE  \E j \in DOMAIN Tail(q) : Tail(q)[j] = q[i]
    BY <1>1, <1>3 DEF Held
  <2>1. i # 1 /\ i - 1 \in 1 .. Len(q) - 1
    BY <1>1
  <2>2. Tail(q)[i - 1] = q[(i - 1) + 1] /\ (i - 1) + 1 = i
    BY <2>1, <1>2
  <2>3. i - 1 \in DOMAIN Tail(q)
    BY <2>1, <1>1, <1>2
  <2> QED BY <2>2, <2>3
<1>5. Held(Tail(q)) \cup {Head(q)} \subseteq Held(q)
  <2>1. ASSUME NEW j \in DOMAIN Tail(q) PROVE \E i \in DOMAIN q : q[i] = Tail(q)[j]
    <3>1. j \in 1 .. Len(q) - 1 /\ j + 1 \in 1 .. Len(q)
      BY <1>1, <1>2
    <3> QED BY <3>1, <1>1, <1>2
  <2>2. 1 \in DOMAIN q
    BY <1>1
  <2> QED BY <2>1, <2>2, <1>3 DEF Held
<1> QED BY <1>2, <1>3, <1>4, <1>5

\* InboxInv in terms of Held.
LEMMA InboxInvHeld == /\ InboxInv <=> accepted = handled \cup Held(inbox)
                      /\ InboxInv' <=> accepted' = handled' \cup Held(inbox')
BY DEF InboxInv, Held

\* The new router satisfies the invariant.
LEMMA InitRouterInv == RouterInit => RouterInv
<1> SUFFICES ASSUME RouterInit PROVE RouterInv
  OBVIOUS
<1>1. RouterTypeOK
  <2>1. inbox \in Seq(Nat) /\ Len(inbox) <= InboxSize
    BY RouterAssumption DEF RouterInit
  <2> QED BY <2>1 DEF RouterInit, RouterTypeOK, OwnerPoints
<1>2. InboxInv
  BY DEF RouterInit, InboxInv
<1>3. LockInv /\ PoolInv
  BY DEF RouterInit, LockInv, PoolInv, NoSendOnClosedInbox
<1> QED BY <1>1, <1>2, <1>3 DEF RouterInv

\* Submit up to the send: a reader enters only while nobody writes.
LEMMA SubmitEnterRouterInv ==
    ASSUME RouterInv, NEW s \in Submitter, SubmitEnter(s)
    PROVE  RouterInv'
<1>1. RouterTypeOK'
  <2>1. inbox' = inbox /\ nextId' \in Nat
    BY DEF RouterInv, RouterTypeOK, SubmitEnter
  <2>2. /\ readers' \subseteq Submitter
        /\ sub' \in [Submitter -> {"out", "send", "panic"}]
        /\ msg' \in [Submitter -> Nat]
    BY DEF RouterInv, RouterTypeOK, SubmitEnter
  <2> QED BY <2>1, <2>2 DEF RouterInv, RouterTypeOK, SubmitEnter
<1>2. LockInv'
  BY DEF RouterInv, RouterTypeOK, LockInv, PoolInv, SubmitEnter, CanRead, NoSendOnClosedInbox
<1>3. InboxInv'
  BY DEF RouterInv, InboxInv, SubmitEnter
<1>4. PoolInv'
  BY DEF RouterInv, PoolInv, SubmitEnter
<1> QED BY <1>1, <1>2, <1>3, <1>4 DEF RouterInv

\* The send: the channel is open, and the accepted message is in it.
LEMMA SubmitSendRouterInv ==
    ASSUME RouterInv, NEW s \in Submitter, SubmitSend(s)
    PROVE  RouterInv'
<1>1. /\ ~closed /\ sub' = [sub EXCEPT ![s] = "out"] /\ readers' = readers \ {s}
      /\ UNCHANGED <<closed, stopped, cancel, writing, msg, owner, alive, handling, nextId,
                     stops, handled>>
  BY DEF SubmitSend, RouterInv, LockInv
<1>2. CASE Len(inbox) < InboxSize
  <2>1. inbox' = Append(inbox, msg[s]) /\ accepted' = accepted \cup {msg[s]}
    BY <1>1, <1>2 DEF SubmitSend
  <2>2. msg[s] \in Nat /\ inbox \in Seq(Nat) /\ Len(inbox) \in Nat /\ InboxSize \in Nat
    BY RouterAssumption DEF RouterInv, RouterTypeOK
  <2>3. inbox' \in Seq(Nat) /\ Len(inbox') <= InboxSize /\ Held(inbox') = Held(inbox) \cup {msg[s]}
    BY <2>1, <2>2, <1>2, HeldAppend
  <2>4. RouterTypeOK'
    BY <1>1, <2>1, <2>2, <2>3 DEF RouterInv, RouterTypeOK
  <2>5. InboxInv'
    BY <1>1, <2>1, <2>3, InboxInvHeld DEF RouterInv
  <2>6. LockInv'
    BY <1>1 DEF RouterInv, RouterTypeOK, LockInv, NoSendOnClosedInbox
  <2>7. PoolInv'
    BY <1>1 DEF RouterInv, PoolInv
  <2> QED BY <2>4, <2>5, <2>6, <2>7 DEF RouterInv
<1>3. CASE ~(Len(inbox) < InboxSize)
  <2>1. inbox' = inbox /\ accepted' = accepted
    BY <1>1, <1>3 DEF SubmitSend
  <2>2. RouterTypeOK'
    BY <1>1, <2>1 DEF RouterInv, RouterTypeOK
  <2>3. InboxInv'
    BY <1>1, <2>1 DEF RouterInv, InboxInv
  <2>4. LockInv'
    BY <1>1 DEF RouterInv, RouterTypeOK, LockInv, NoSendOnClosedInbox
  <2>5. PoolInv'
    BY <1>1, <2>1 DEF RouterInv, PoolInv
  <2> QED BY <2>2, <2>3, <2>4, <2>5 DEF RouterInv
<1> QED BY <1>2, <1>3

\* A worker takes a message: it moves from the inbox to the handled ones.
LEMMA ReceiveRouterInv ==
    ASSUME RouterInv, NEW w \in Worker, Receive(w)
    PROVE  RouterInv'
<1>1. inbox \in Seq(Nat) /\ inbox # <<>> /\ Len(inbox) \in Nat /\ InboxSize \in Nat
  BY RouterAssumption DEF RouterInv, RouterTypeOK, Receive
<1>2. /\ Head(inbox) \in Nat /\ inbox' \in Seq(Nat) /\ Len(inbox') <= InboxSize
      /\ Held(inbox) = Held(inbox') \cup {Head(inbox)}
  BY <1>1, HeldTail DEF Receive, RouterInv, RouterTypeOK
<1>3. RouterTypeOK'
  BY <1>2 DEF RouterInv, RouterTypeOK, Receive
<1>4. LockInv'
  BY DEF RouterInv, LockInv, Receive, NoSendOnClosedInbox
<1>5. InboxInv'
  BY <1>2, InboxInvHeld DEF RouterInv, Receive
<1>6. PoolInv'
  BY DEF RouterInv, PoolInv, Receive
<1> QED BY <1>3, <1>4, <1>5, <1>6 DEF RouterInv

\* The other steps of a worker.
LEMMA WorkerRouterInv ==
    ASSUME RouterInv, NEW w \in Worker, Finish(w) \/ Exit(w)
    PROVE  RouterInv'
<1>1. RouterTypeOK'
  BY DEF RouterInv, RouterTypeOK, Finish, Exit
<1>2. LockInv'
  BY DEF RouterInv, LockInv, Finish, Exit, NoSendOnClosedInbox
<1>3. InboxInv'
  BY DEF RouterInv, InboxInv, Finish, Exit
<1>4. PoolInv'
  BY DEF RouterInv, PoolInv, Finish, Exit
<1> QED BY <1>1, <1>2, <1>3, <1>4 DEF RouterInv

\* Start: the pool is complete before the owner goes on.
LEMMA StartRouterInv ==
    ASSUME RouterInv,
           \/ StartCall \/ OwnerLock("startLock", "start") \/ StartBody
           \/ (\E w \in Worker : Spawn(w)) \/ StartAfterStop
    PROVE  RouterInv'
<1>1. RouterTypeOK'
  BY DEF RouterInv, RouterTypeOK, OwnerPoints, StartCall, OwnerLock, StartBody, Spawn, StartAfterStop, Owner
<1>2. LockInv'
  BY DEF RouterInv, RouterTypeOK, LockInv, NoSendOnClosedInbox, StartCall, OwnerLock, StartBody, Spawn,
         StartAfterStop, Owner
<1>3. InboxInv'
  BY DEF RouterInv, InboxInv, StartCall, OwnerLock, StartBody, Spawn, StartAfterStop
<1>4. PoolInv'
  BY DEF RouterInv, RouterTypeOK, PoolInv, StartCall, OwnerLock, StartBody, Spawn, StartAfterStop, Owner
<1> QED BY <1>1, <1>2, <1>3, <1>4 DEF RouterInv

\* Stop: the write lock keeps senders off while the channel is closed.
LEMMA StopRouterInv ==
    ASSUME RouterInv,
           StopCall \/ OwnerLock("stopLock", "stop") \/ StopBody \/ StopCancel \/ StopWait
    PROVE  RouterInv'
<1>1. RouterTypeOK'
  <2>1. stops' \in Nat /\ owner' \in OwnerPoints
    BY DEF RouterInv, RouterTypeOK, OwnerPoints, StopCall, OwnerLock, StopBody, StopCancel, StopWait, Owner
  <2>2. closed' \in BOOLEAN /\ stopped' \in BOOLEAN /\ writing' \in BOOLEAN
    BY DEF RouterInv, RouterTypeOK, StopCall, OwnerLock, StopBody, StopCancel, StopWait
  <2>3. cancel' \in {"unset", "live", "cancelled"}
    BY DEF RouterInv, RouterTypeOK, StopCall, OwnerLock, StopBody, StopCancel, StopWait
  <2>4. UNCHANGED <<inbox, readers, sub, msg, alive, handling, nextId, accepted, handled>>
    BY DEF StopCall, OwnerLock, StopBody, StopCancel, StopWait
  <2> QED BY <2>1, <2>2, <2>3, <2>4 DEF RouterInv, RouterTypeOK
<1>2. LockInv'
  BY DEF RouterInv, RouterTypeOK, LockInv, NoSendOnClosedInbox, StopCall, OwnerLock, StopBody, StopCancel,
         StopWait, Owner
<1>3. InboxInv'
  BY DEF RouterInv, InboxInv, StopCall, OwnerLock, StopBody, StopCancel, StopWait
<1>4. PoolInv'
  BY RouterAssumption DEF RouterInv, RouterTypeOK, PoolInv, StopCall, OwnerLock, StopBody, StopCancel,
                          StopWait, Owner
<1> QED BY <1>1, <1>2, <1>3, <1>4 DEF RouterInv

\* Every step preserves the invariant.
LEMMA NextRouterInv == RouterInv /\ [RouterNext]_routerVars => RouterInv'
<1> SUFFICES ASSUME RouterInv, [RouterNext]_routerVars PROVE RouterInv'
  OBVIOUS
<1>1. CASE UNCHANGED routerVars
  BY <1>1 DEF routerVars, RouterInv, RouterTypeOK, LockInv, InboxInv, PoolInv, NoSendOnClosedInbox
<1>2. CASE RouterNext
  BY <1>2, SubmitEnterRouterInv, SubmitSendRouterInv, ReceiveRouterInv, WorkerRouterInv, StartRouterInv, StopRouterInv
     DEF RouterNext, OwnerStep
<1> QED BY <1>1, <1>2

\* The invariant of the router holds in every behaviour of router.go and
\* pool.go, for any number of submitters, workers and messages.
THEOREM RouterInvariant == RouterSpec => []RouterInv
BY InitRouterInv, NextRouterInv, PTL DEF RouterSpec

\* No submitter ever sends on the closed inbox.
THEOREM NoSendOnClosedInboxHolds == RouterSpec => []NoSendOnClosedInbox
<1>1. RouterInv => NoSendOnClosedInbox
  BY DEF RouterInv, LockInv
<1> QED BY <1>1, RouterInvariant, PTL

\* When Stop has returned, the pool is empty and every accepted message was
\* handed to the pipeline.
THEOREM StopDrainsHolds == RouterSpec => []StopDrains
<1>1. RouterInv => StopDrains
  <2> SUFFICES ASSUME RouterInv, owner = "done"
               PROVE  alive = {} /\ (cancel # "unset" => accepted \subseteq handled)
    BY DEF StopDrains
  <2>1. alive = {} /\ closed
    BY DEF RouterInv, PoolInv
  <2>2. cancel # "unset" => inbox = <<>>
    BY <2>1 DEF RouterInv, PoolInv
  <2>3. inbox = <<>> => accepted = handled
    BY DEF RouterInv, InboxInv
  <2> QED BY <2>1, <2>2, <2>3
<1> QED BY <1>1, RouterInvariant, PTL

-----------------------------------------------------------------------------
\* LaneLock.


Counted == {"wait", "try", "undo", "crit"}

\* The goroutines a lane counts form a finite set.
LEMMA UsersFinite ==
    ASSUME NEW l
    PROVE  IsFiniteSet(Users(l))
  BY FS_Subset, LaneAssumption DEF Users

\* One goroutine more: the count of its lane goes up by one.
LEMMA CountAdd ==
    ASSUME NEW S, NEW T, NEW t, IsFiniteSet(S), t \notin S, T = S \cup {t}
    PROVE  Cardinality(T) = Cardinality(S) + 1
  BY FS_AddElement

\* One goroutine less: the count goes down by one, and was positive.
LEMMA CountRemove ==
    ASSUME NEW S, NEW T, NEW t, IsFiniteSet(S), t \in S, T = S \ {t}
    PROVE  /\ Cardinality(S) \in Nat
           /\ Cardinality(T) \in Nat
           /\ Cardinality(T) = Cardinality(S) - 1
           /\ Cardinality(S) = 1 <=> T = {}
  <1>1. IsFiniteSet(T) /\ Cardinality(T) = Cardinality(S) - 1
    BY FS_RemoveElement
  <1>2. Cardinality(S) \in Nat /\ Cardinality(T) \in Nat
    BY <1>1, FS_CardinalityType
  <1>3. Cardinality(T) = 0 <=> T = {}
    BY <1>1, FS_EmptySet
  <1>4. QED
    BY <1>1, <1>2, <1>3

\* A lane with count zero has no users.
LEMMA CountZero ==
    ASSUME NEW S, IsFiniteSet(S)
    PROVE  Cardinality(S) = 0 <=> S = {}
  BY FS_EmptySet

\* An empty LaneLock satisfies the invariant.
LEMMA InitIInv == Init => IInv
  <1> SUFFICES ASSUME Init PROVE IInv
    OBVIOUS
  <1>1. TypeOK
    BY LaneAssumption DEF Init, TypeOK, Points
  <1>2. \A l \in Lane : Users(l) = {}
    BY DEF Init, Users
  <1>3. RefsCountUsers
    BY <1>2, FS_EmptySet DEF Init, RefsCountUsers
  <1>4. QED
    BY <1>1, <1>3 DEF Init, IInv, UsersMapped, HoldersHold, LockedByHolder, LanesDistinct,
          ReleasedLane, IdleHasNoLane, StaleLaneIsReferenced

\* Acquire and TryAcquire count their caller in the lane they find or create.
LEMMA LookupIInv ==
    ASSUME IInv, NEW t \in Thread, NEW k \in Key, NEW next \in {"wait", "try"},
           Lookup(t, k, next)
    PROVE  IInv'
  <1> USE LaneAssumption
  <1> DEFINE m == ptr'[t]
  <1>0. TypeOK'
    <2> USE DEF IInv, TypeOK, Lookup, Points
    <2>1. CASE lanes[k] # NoLane
      <3>1. lanes[k] \in Lane
        BY <2>1
      <3>2. /\ refs' = [refs EXCEPT ![lanes[k]] = @ + 1]
            /\ stale' = [stale EXCEPT ![lanes[k]] = FALSE]
            /\ ptr' = [ptr EXCEPT ![t] = lanes[k]]
            /\ UNCHANGED <<lanes, holder>>
        BY <2>1
      <3>3. refs' \in [Lane -> Nat] /\ stale' \in [Lane -> BOOLEAN]
        BY <3>1, <3>2
      <3>4. ptr' \in [Thread -> Lane \cup {NoLane}]
        BY <3>1, <3>2
      <3>5. pc' \in [Thread -> Points] /\ key' \in [Thread -> Key]
        OBVIOUS
      <3>6. QED
        BY <3>2, <3>3, <3>4, <3>5
    <2>2. CASE lanes[k] = NoLane
      <3>1. PICK l \in Lane : /\ lanes' = [lanes EXCEPT ![k] = l]
                             /\ refs' = [refs EXCEPT ![l] = 1]
                             /\ stale' = [stale EXCEPT ![l] = FALSE]
                             /\ holder' = [holder EXCEPT ![l] = NoThread]
                             /\ ptr' = [ptr EXCEPT ![t] = l]
        BY <2>2
      <3>2. QED
        BY <3>1
    <2>3. QED
      BY <2>1, <2>2
  <1>1. /\ m \in Lane
        /\ lanes' = [lanes EXCEPT ![k] = m]
        /\ lanes[k] \in {m, NoLane}
        /\ lanes[k] = NoLane => Unreachable(m)
        /\ pc' = [pc EXCEPT ![t] = next]
        /\ key' = [key EXCEPT ![t] = k]
        /\ ptr' = [ptr EXCEPT ![t] = m]
        /\ pc[t] = "idle"
    BY DEF IInv, TypeOK, Lookup
  <1>2. \A l \in Lane : t \notin Users(l)
    BY <1>1 DEF Users
  <1>3. \A l \in Lane : Users(l)' = IF l = m THEN Users(l) \cup {t} ELSE Users(l)
    BY <1>1 DEF Users, IInv, TypeOK
  <1>4. RefsCountUsers'
    <2> SUFFICES ASSUME NEW l \in Lane PROVE refs'[l] = Cardinality(Users(l)')
      BY DEF RefsCountUsers
    <2>1. CASE l # m
      <3>1. refs'[l] = refs[l]
        BY <2>1 DEF Lookup, IInv, TypeOK
      <3>2. QED
        BY <2>1, <3>1, <1>3 DEF IInv, RefsCountUsers
    <2>2. CASE l = m
      <3>1. Cardinality(Users(l)') = Cardinality(Users(l)) + 1
        BY <1>2, <1>3, <2>2, CountAdd, UsersFinite
      <3>2. CASE lanes[k] # NoLane
        BY <2>2, <3>1, <3>2 DEF Lookup, IInv, TypeOK, RefsCountUsers
      <3>3. CASE lanes[k] = NoLane
        <4>1. Users(l) = {}
          BY <1>1, <3>3, <2>2 DEF Unreachable, Users
        <4>2. refs'[l] = 1
          BY <2>2, <3>3 DEF Lookup, IInv, TypeOK
        <4>3. Cardinality(Users(l)) = 0
          BY <4>1, FS_EmptySet
        <4>4. QED
          BY <3>1, <4>2, <4>3
      <3>4. QED
        BY <3>2, <3>3
    <2>3. QED
      BY <2>1, <2>2
  <1>5. \A l \in Lane : stale'[l] => l # m /\ stale[l]
    BY DEF Lookup, IInv, TypeOK
  <1>6. StaleLaneIsReferenced'
    BY <1>0, <1>1, <1>3, <1>5 DEF IInv, StaleLaneIsReferenced, TypeOK
  <1>7. \A l \in Lane : holder'[l] = holder[l] \/ (l = m /\ holder'[l] = NoThread /\ Unreachable(m))
    BY DEF Lookup, IInv, TypeOK
  <1>8. UsersMapped'
    BY <1>1 DEF IInv, UsersMapped, TypeOK, Unreachable
  <1>9. HoldersHold'
    BY <1>1, <1>7 DEF IInv, HoldersHold, TypeOK, Unreachable
  <1>10. LockedByHolder'
    <2> SUFFICES ASSUME NEW l \in Lane, holder'[l] # NoThread
                 PROVE  pc'[holder'[l]] \in {"crit", "release"} /\ ptr'[holder'[l]] = l
      BY DEF LockedByHolder
    <2>1. holder'[l] = holder[l] /\ holder[l] \in Thread
      BY <1>7 DEF IInv, TypeOK
    <2>2. pc[holder[l]] \in {"crit", "release"} /\ ptr[holder[l]] = l
      BY <2>1 DEF IInv, LockedByHolder
    <2>3. holder[l] # t
      BY <2>2, <1>1
    <2>4. QED
      BY <1>1, <2>1, <2>2, <2>3 DEF IInv, TypeOK
  <1>11. LanesDistinct'
    BY <1>1 DEF IInv, LanesDistinct, TypeOK, Unreachable
  <1>12. ReleasedLane'
    BY <1>1 DEF IInv, ReleasedLane, HoldersHold, TypeOK, Unreachable
  <1>13. IdleHasNoLane'
    BY <1>1 DEF IInv, IdleHasNoLane, TypeOK
  <1>14. QED
    BY <1>0, <1>4, <1>6, <1>8, <1>9, <1>10, <1>11, <1>12, <1>13 DEF IInv

\* A step that locks a free lane on behalf of its caller, in Acquire or in
\* TryAcquire, keeps the invariant.
LEMMA LockIInv ==
    ASSUME IInv, NEW t \in Thread, pc[t] \in {"wait", "try"},
           holder[ptr[t]] = NoThread,
           holder' = [holder EXCEPT ![ptr[t]] = t],
           pc' = [pc EXCEPT ![t] = "crit"],
           UNCHANGED <<lanes, refs, stale, key, ptr>>
    PROVE  IInv'
  <1> USE LaneAssumption
  <1>1. ptr[t] \in Lane
    BY DEF IInv, TypeOK, UsersMapped
  <1>2. TypeOK'
    BY <1>1 DEF IInv, TypeOK, Points
  <1>3. \A l : Users(l)' = Users(l)
    BY DEF Users, IInv, TypeOK
  <1>4. RefsCountUsers' /\ StaleLaneIsReferenced'
    BY <1>3 DEF IInv, RefsCountUsers, StaleLaneIsReferenced
  <1>5. UsersMapped' /\ LanesDistinct' /\ ReleasedLane' /\ IdleHasNoLane'
    BY DEF IInv, TypeOK, UsersMapped, LanesDistinct, ReleasedLane, IdleHasNoLane
  <1>6. HoldersHold'
    BY <1>1 DEF IInv, TypeOK, HoldersHold
  <1>7. LockedByHolder'
    BY <1>1 DEF IInv, TypeOK, LockedByHolder
  <1>8. QED
    BY <1>2, <1>4, <1>5, <1>6, <1>7 DEF IInv

\* A goroutine that drops its reference, in Release or in the undo of
\* TryAcquire, and with it perhaps the lane's map entry.
LEMMA UnrefFacts ==
    ASSUME IInv, NEW t \in Thread, pc[t] \in Counted,
           Unref(ptr[t], key[t]),
           NEW next \in {"idle", "release"},
           pc' = [pc EXCEPT ![t] = next],
           ptr' \in {ptr, [ptr EXCEPT ![t] = NoLane]},
           UNCHANGED <<stale, holder, key>>
    PROVE  /\ ptr[t] \in Lane
           /\ refs' \in [Lane -> Nat]
           /\ lanes' \in [Key -> Lane \cup {NoLane}]
           /\ \A k \in Key : lanes'[k] \in {lanes[k], NoLane}
           /\ RefsCountUsers'
           /\ StaleLaneIsReferenced'
           /\ \A u \in Thread \ {t} : pc[u] \in Counted => lanes'[key[u]] = ptr[u]
  <1> USE LaneAssumption
  <1>0. ptr[t] \in Lane
    BY DEF IInv, TypeOK, UsersMapped, Counted
  <1> SUFFICES ASSUME NEW l \in Lane, l = ptr[t]
               PROVE  /\ refs' \in [Lane -> Nat]
                      /\ lanes' \in [Key -> Lane \cup {NoLane}]
                      /\ \A k \in Key : lanes'[k] \in {lanes[k], NoLane}
                      /\ RefsCountUsers'
                      /\ StaleLaneIsReferenced'
                      /\ \A u \in Thread \ {t} :
                            pc[u] \in Counted => lanes'[key[u]] = ptr[u]
    BY <1>0
  <1>1. lanes[key[t]] = l /\ key[t] \in Key
    BY DEF IInv, TypeOK, UsersMapped, Counted
  <1>2. t \in Users(l)
    BY DEF Users, Counted
  <1>3. Users(l)' = Users(l) \ {t}
    BY DEF Users, IInv, TypeOK
  <1>4. \A m \in Lane : m # l => Users(m)' = Users(m)
    BY DEF Users, IInv, TypeOK
  <1>5. /\ Cardinality(Users(l)) \in Nat
        /\ Cardinality(Users(l)') \in Nat
        /\ Cardinality(Users(l)') = Cardinality(Users(l)) - 1
        /\ Cardinality(Users(l)) = 1 <=> Users(l)' = {}
    BY <1>2, <1>3, CountRemove, UsersFinite
  <1>6. refs' = [refs EXCEPT ![l] = refs[l] - 1] /\ refs[l] = Cardinality(Users(l))
    BY <1>1 DEF Unref, IInv, RefsCountUsers
  <1>7. refs' \in [Lane -> Nat] /\ RefsCountUsers'
    <2>1. refs'[l] = Cardinality(Users(l)')
      BY <1>1, <1>5, <1>6 DEF IInv, TypeOK
    <2>2. \A m \in Lane : m # l => refs'[m] = Cardinality(Users(m)')
      BY <1>1, <1>4, <1>6 DEF IInv, TypeOK, RefsCountUsers
    <2>3. refs' \in [Lane -> Nat]
      BY <1>1, <1>5, <1>6 DEF IInv, TypeOK
    <2>4. QED
      BY <2>1, <2>2, <2>3 DEF RefsCountUsers
  <1>8. /\ lanes' \in [Key -> Lane \cup {NoLane}]
        /\ \A k \in Key : lanes'[k] \in {lanes[k], NoLane}
        /\ \A k \in Key : lanes'[k] = lanes[k] \/ (k = key[t] /\ refs[l] = 1)
        /\ lanes'[key[t]] = NoLane \/ ~(refs[l] = 1 /\ stale[l])
    BY <1>1 DEF Unref, IInv, TypeOK
  <1>9. StaleLaneIsReferenced'
    <2> SUFFICES ASSUME NEW k \in Key, NEW m \in Lane, lanes'[k] = m, stale[m]
                 PROVE  Users(m)' # {}
      BY <1>8 DEF StaleLaneIsReferenced
    <2>1. lanes[k] = m
      BY <1>8
    <2>2. Users(m) # {}
      BY <2>1 DEF IInv, StaleLaneIsReferenced
    <2>3. CASE m # l
      BY <2>2, <2>3, <1>4
    <2>4. CASE m = l
      <3>1. k = key[t]
        BY <2>4, <2>1, <1>1 DEF IInv, LanesDistinct
      <3>2. refs[l] # 1
        BY <2>1, <2>4, <3>1, <1>8
      <3>3. QED
        BY <3>2, <2>4, <1>5, <1>6
    <2>5. QED
      BY <2>3, <2>4
  <1>10. ASSUME NEW u \in Thread \ {t}, pc[u] \in Counted
         PROVE  lanes'[key[u]] = ptr[u]
    <2>1. lanes[key[u]] = ptr[u] /\ key[u] \in Key
      BY <1>10 DEF IInv, TypeOK, UsersMapped, Counted
    <2>2. CASE key[u] # key[t]
      BY <2>1, <2>2, <1>8
    <2>3. CASE key[u] = key[t]
      <3>1. ptr[u] = l
        BY <2>1, <2>3, <1>1
      <3>2. u \in Users(l)'
        BY <1>10, <3>1, <1>3 DEF Users, Counted
      <3>3. refs[l] # 1
        BY <3>2, <1>5, <1>6
      <3>4. QED
        BY <2>1, <3>3, <1>8
    <2>4. QED
      BY <2>2, <2>3
  <1>11. QED
    BY <1>7, <1>8, <1>9, <1>10

\* The undo of a refused TryAcquire keeps the invariant.
LEMMA TryUndoIInv ==
    ASSUME IInv, NEW t \in Thread, TryUndo(t)
    PROVE  IInv'
  <1> USE LaneAssumption
  <1>1. /\ ptr[t] \in Lane
        /\ refs' \in [Lane -> Nat]
        /\ lanes' \in [Key -> Lane \cup {NoLane}]
        /\ \A k \in Key : lanes'[k] \in {lanes[k], NoLane}
        /\ RefsCountUsers'
        /\ StaleLaneIsReferenced'
        /\ \A u \in Thread \ {t} : pc[u] \in Counted => lanes'[key[u]] = ptr[u]
    BY UnrefFacts DEF TryUndo, Counted
  <1>2. TypeOK'
    BY <1>1 DEF IInv, TypeOK, TryUndo, Points
  <1>3. UsersMapped'
    BY <1>1 DEF IInv, TypeOK, TryUndo, UsersMapped, Counted
  <1>4. HoldersHold' /\ IdleHasNoLane'
    BY DEF IInv, TypeOK, TryUndo, HoldersHold, IdleHasNoLane
  <1>5. LockedByHolder'
    BY DEF IInv, TypeOK, TryUndo, LockedByHolder
  <1>6. LanesDistinct' /\ ReleasedLane'
    BY <1>1 DEF IInv, TypeOK, TryUndo, LanesDistinct, ReleasedLane, HoldersHold
  <1>7. QED
    BY <1>1, <1>2, <1>3, <1>4, <1>5, <1>6 DEF IInv

\* Release finds in the map the lane its caller locked.
LEMMA ReleaseFindsLane ==
    ASSUME IInv, NEW t \in Thread, Release(t)
    PROVE  /\ lanes[key[t]] = ptr[t]
           /\ ptr[t] \in Lane
           /\ pc[t] = "crit"
           /\ Unref(ptr[t], key[t])
           /\ pc' = [pc EXCEPT ![t] = "release"]
           /\ UNCHANGED <<stale, holder, key, ptr>>
  <1>1. lanes[key[t]] = ptr[t] /\ ptr[t] \in Lane /\ pc[t] = "crit"
    BY LaneAssumption DEF IInv, TypeOK, UsersMapped, Release
  <1>2. QED
    BY <1>1, LaneAssumption DEF IInv, TypeOK, Release

\* Release, up to the unlock, keeps the invariant: it finds its own lane.
LEMMA ReleaseIInv ==
    ASSUME IInv, NEW t \in Thread, Release(t)
    PROVE  IInv'
  <1> USE LaneAssumption
  <1>0. /\ lanes[key[t]] = ptr[t]
        /\ pc[t] = "crit"
        /\ Unref(ptr[t], key[t])
        /\ pc' = [pc EXCEPT ![t] = "release"]
        /\ UNCHANGED <<stale, holder, key, ptr>>
    BY ReleaseFindsLane
  <1>1. /\ ptr[t] \in Lane
        /\ refs' \in [Lane -> Nat]
        /\ lanes' \in [Key -> Lane \cup {NoLane}]
        /\ \A k \in Key : lanes'[k] \in {lanes[k], NoLane}
        /\ RefsCountUsers'
        /\ StaleLaneIsReferenced'
        /\ \A u \in Thread \ {t} : pc[u] \in Counted => lanes'[key[u]] = ptr[u]
    BY <1>0, UnrefFacts DEF Counted
  <1>2. TypeOK'
    BY <1>0, <1>1 DEF IInv, TypeOK, Points
  <1>3. UsersMapped'
    BY <1>0, <1>1 DEF IInv, TypeOK, UsersMapped, Counted
  <1>4. HoldersHold' /\ IdleHasNoLane'
    BY <1>0 DEF IInv, TypeOK, HoldersHold, IdleHasNoLane
  <1>5. LockedByHolder'
    BY <1>0 DEF IInv, TypeOK, LockedByHolder
  <1>6. LanesDistinct'
    BY <1>1 DEF IInv, LanesDistinct
  <1>7. ReleasedLane'
    BY <1>0, <1>1 DEF IInv, TypeOK, LanesDistinct, ReleasedLane, HoldersHold
  <1>8. QED
    BY <1>1, <1>2, <1>3, <1>4, <1>5, <1>6, <1>7 DEF IInv

\* Unlocking after the map was left keeps the invariant.
LEMMA UnlockIInv ==
    ASSUME IInv, NEW t \in Thread, Unlock(t)
    PROVE  IInv'
  <1> USE LaneAssumption
  <1>1. ptr[t] \in Lane /\ holder[ptr[t]] = t
    BY DEF IInv, TypeOK, HoldersHold, Unlock
  <1>2. TypeOK'
    BY DEF IInv, TypeOK, Unlock, Points
  <1>3. \A l : Users(l)' = Users(l)
    BY DEF Users, IInv, TypeOK, Unlock
  <1>4. RefsCountUsers' /\ StaleLaneIsReferenced'
    BY <1>3 DEF IInv, RefsCountUsers, StaleLaneIsReferenced, Unlock
  <1>5. UsersMapped' /\ LanesDistinct' /\ ReleasedLane' /\ IdleHasNoLane'
    BY DEF IInv, TypeOK, UsersMapped, LanesDistinct, ReleasedLane, IdleHasNoLane, Unlock
  <1>6. HoldersHold'
    BY <1>1 DEF IInv, TypeOK, HoldersHold, Unlock
  <1>7. LockedByHolder'
    <2> SUFFICES ASSUME NEW l \in Lane, holder'[l] # NoThread
                 PROVE  pc'[holder'[l]] \in {"crit", "release"} /\ ptr'[holder'[l]] = l
      BY DEF LockedByHolder
    <2>1. l # ptr[t] /\ holder'[l] = holder[l] /\ holder[l] \in Thread
      BY <1>1 DEF IInv, TypeOK, Unlock
    <2>2. pc[holder[l]] \in {"crit", "release"} /\ ptr[holder[l]] = l
      BY <2>1 DEF IInv, LockedByHolder
    <2>3. QED
      BY <2>1, <2>2 DEF IInv, TypeOK, Unlock
  <1>8. QED
    BY <1>2, <1>4, <1>5, <1>6, <1>7 DEF IInv

\* The garbage collection of lanes removes only lanes nobody references.
LEMMA CleanupIInv ==
    ASSUME IInv, NEW active \in SUBSET Key, Cleanup(active)
    PROVE  IInv'
  <1> USE LaneAssumption
  <1>1. TypeOK'
    BY DEF IInv, TypeOK, Cleanup
  <1>2. \A l : Users(l)' = Users(l)
    BY DEF Users, Cleanup
  <1>3. RefsCountUsers'
    BY <1>2 DEF IInv, RefsCountUsers, Cleanup
  <1>4. \A k \in Key : \/ lanes'[k] = lanes[k]
                       \/ lanes'[k] = NoLane /\ lanes[k] \in Lane /\ Users(lanes[k]) = {}
    <2> SUFFICES ASSUME NEW k \in Key, lanes'[k] # lanes[k]
                 PROVE  lanes'[k] = NoLane /\ lanes[k] \in Lane /\ Users(lanes[k]) = {}
      OBVIOUS
    <2>1. lanes'[k] = NoLane /\ lanes[k] \in Lane /\ refs[lanes[k]] = 0
      BY DEF Cleanup, IInv, TypeOK
    <2>2. Users(lanes[k]) = {}
      BY <2>1, CountZero, UsersFinite DEF IInv, RefsCountUsers
    <2>3. QED
      BY <2>1, <2>2
  <1>5. \A t \in Thread : pc[t] \in Counted => t \in Users(ptr[t])
    BY DEF Users, Counted
  <1>6. UsersMapped'
    <2> SUFFICES ASSUME NEW t \in Thread, pc[t] \in Counted
                 PROVE  ptr[t] # NoLane /\ lanes'[key[t]] = ptr[t]
      BY DEF UsersMapped, Counted, Cleanup
    <2>1. ptr[t] # NoLane /\ lanes[key[t]] = ptr[t] /\ key[t] \in Key
      BY DEF IInv, TypeOK, UsersMapped, Counted
    <2>2. QED
      BY <2>1, <1>4, <1>5
  <1>7. HoldersHold' /\ LockedByHolder' /\ IdleHasNoLane'
    BY DEF IInv, HoldersHold, LockedByHolder, IdleHasNoLane, Cleanup
  <1>8. LanesDistinct' /\ ReleasedLane'
    BY <1>4 DEF IInv, TypeOK, LanesDistinct, ReleasedLane, HoldersHold, Cleanup
  <1>9. StaleLaneIsReferenced'
    <2> SUFFICES ASSUME NEW k \in Key, NEW m \in Lane, lanes'[k] = m, stale'[m]
                 PROVE  Users(m) # {}
      BY <1>1, <1>2 DEF StaleLaneIsReferenced, TypeOK
    <2>1. lanes[k] = m
      BY <1>4
    <2>2. CASE k \in active
      <3>1. m \in Mapped(active)
        BY <2>1, <2>2 DEF Mapped
      <3>2. m \notin Orphans(active)
        BY <2>1, <2>2 DEF Orphans, IInv, LanesDistinct
      <3>3. QED
        BY <3>1, <3>2 DEF Cleanup
    <2>3. CASE k \notin active
      <3>1. refs[m] # 0
        BY <2>1, <2>3 DEF Cleanup, IInv, TypeOK
      <3>2. QED
        BY <3>1, CountZero, UsersFinite DEF IInv, RefsCountUsers
    <2>4. QED
      BY <2>2, <2>3
  <1>10. QED
    BY <1>1, <1>3, <1>6, <1>7, <1>8, <1>9 DEF IInv

\* Every step of lane.go keeps the invariant.
LEMMA NextIInv == IInv /\ [Next]_vars => IInv'
  <1> SUFFICES ASSUME IInv, [Next]_vars PROVE IInv'
    OBVIOUS
  <1>1. ASSUME NEW t \in Thread, NEW k \in Key, Acquire(t, k) PROVE IInv'
    BY <1>1, LookupIInv DEF Acquire
  <1>2. ASSUME NEW t \in Thread, NEW k \in Key, TryAcquire(t, k) PROVE IInv'
    BY <1>2, LookupIInv DEF TryAcquire
  <1>3. ASSUME NEW t \in Thread, Lock(t) PROVE IInv'
    BY <1>3, LockIInv DEF Lock
  <1>4. ASSUME NEW t \in Thread, TryLock(t) PROVE IInv'
    <2>1. CASE holder[ptr[t]] = NoThread
      BY <1>4, <2>1, LockIInv DEF TryLock
    <2>2. CASE holder[ptr[t]] # NoThread
      <3>1. pc' = [pc EXCEPT ![t] = "undo"] /\ pc[t] = "try"
            /\ UNCHANGED <<lanes, refs, stale, holder, key, ptr>>
        BY <1>4, <2>2 DEF TryLock
      <3>2. \A l : Users(l)' = Users(l)
        BY <3>1 DEF Users, IInv, TypeOK
      <3>3. RefsCountUsers' /\ StaleLaneIsReferenced'
        BY <3>1, <3>2 DEF IInv, RefsCountUsers, StaleLaneIsReferenced
      <3>4. LockedByHolder'
        BY <3>1 DEF IInv, TypeOK, LockedByHolder
      <3>5. QED
        BY <3>1, <3>3, <3>4 DEF IInv, TypeOK, Points, UsersMapped, HoldersHold,
              LanesDistinct, ReleasedLane, IdleHasNoLane
    <2>3. QED
      BY <2>1, <2>2
  <1>5. ASSUME NEW t \in Thread, TryUndo(t) PROVE IInv'
    BY <1>5, TryUndoIInv
  <1>6. ASSUME NEW t \in Thread, Release(t) PROVE IInv'
    BY <1>6, ReleaseIInv
  <1>7. ASSUME NEW t \in Thread, Unlock(t) PROVE IInv'
    BY <1>7, UnlockIInv
  <1>8. ASSUME NEW active \in SUBSET Key, Cleanup(active) PROVE IInv'
    BY <1>8, CleanupIInv
  <1>9. CASE UNCHANGED vars
    BY <1>9 DEF vars, IInv, TypeOK, UsersMapped, HoldersHold, LockedByHolder, LanesDistinct,
          ReleasedLane, IdleHasNoLane, RefsCountUsers, StaleLaneIsReferenced, Users
  <1>10. QED
    BY <1>1, <1>2, <1>3, <1>4, <1>5, <1>6, <1>7, <1>8, <1>9 DEF Next

\* The inductive invariant (type correctness included) holds in every
\* reachable state of lane.go, for any number of workers and sessions.
THEOREM LaneInvariant == Spec => []IInv
  BY InitIInv, NextIInv, PTL DEF Spec

\* Workers of one session exclude each other although lanes are collected
\* and recreated concurrently (Acquire, Release, Cleanup of lane.go).
THEOREM MutualExclusionHolds == Spec => []MutualExclusion
  <1>1. IInv => MutualExclusion
    BY DEF IInv, TypeOK, MutualExclusion, UsersMapped, HoldersHold
  <1>2. QED
    BY <1>1, LaneInvariant, PTL

\* Release never unlocks a mutex its caller does not hold.
THEOREM UnlocksOwnLaneHolds == Spec => []UnlocksOwnLane
  <1>1. IInv => UnlocksOwnLane
    BY DEF IInv, UnlocksOwnLane, HoldersHold
  <1>2. QED
    BY <1>1, LaneInvariant, PTL

\* A worker in Acquire is only blocked by a worker of its own session.
THEOREM BlockedBySameSessionHolds == Spec => []BlockedBySameSession
  <1>1. IInv => BlockedBySameSession
    <2> SUFFICES ASSUME IInv, NEW t \in Thread, NEW u \in Thread,
                        pc[t] = "wait", holder[ptr[t]] = u
                 PROVE  key[u] = key[t] /\ pc[u] \in {"crit", "release"}
      BY DEF BlockedBySameSession
    <2>1. ptr[t] \in Lane /\ lanes[key[t]] = ptr[t] /\ key[t] \in Key
      BY DEF IInv, TypeOK, UsersMapped
    <2>2. pc[u] \in {"crit", "release"} /\ ptr[u] = ptr[t]
      BY <2>1, LaneAssumption DEF IInv, LockedByHolder
    <2>3. CASE pc[u] = "crit"
      BY <2>1, <2>2, <2>3, LaneAssumption DEF IInv, TypeOK, UsersMapped, LanesDistinct
    <2>4. CASE pc[u] = "release"
      BY <2>1, <2>2, <2>4 DEF IInv, ReleasedLane
    <2>5. QED
      BY <2>2, <2>3, <2>4
  <1>2. QED
    BY <1>1, LaneInvariant, PTL

\* The map keeps no stale lane that nobody references.
THEOREM StaleLaneIsReferencedHolds == Spec => []StaleLaneIsReferenced
  <1>1. IInv => StaleLaneIsReferenced
    BY DEF IInv
  <1>2. QED
    BY <1>1, LaneInvariant, PTL

\* lane.go implements the abstract per-session mutual exclusion: each of its
\* steps is a step of SessionMutex or changes nothing the caller can see.
THEOREM ImplementsSessionMutexHolds == Spec => ImplementsSessionMutex
  <1>1. Init => Mutex!Init
    BY DEF Init, Mutex!Init, AbstractPhase
  <1>2. ASSUME IInv, [Next]_vars PROVE [Mutex!Next]_(Mutex!vars)
    <2> USE DEF AbstractPhase, Mutex!vars
    <2> DEFINE ph == AbstractPhase
    <2>0. pc \in [Thread -> Points] /\ key \in [Thread -> Key]
      BY <1>2 DEF IInv, TypeOK
    <2>1. ASSUME NEW t \in Thread, NEW k \in Key, Acquire(t, k) \/ TryAcquire(t, k)
          PROVE  Mutex!Ask(t, k)
      BY <2>0, <2>1 DEF Acquire, TryAcquire, Lookup, Mutex!Ask, Points
    <2>2. ASSUME NEW t \in Thread, pc[t] \in {"wait", "try"}, holder[ptr[t]] = NoThread,
                 pc' = [pc EXCEPT ![t] = "crit"], UNCHANGED key
          PROVE  Mutex!Enter(t)
      <3>1. \A u \in Thread : ph[u] = "in" => key[u] # key[t]
        BY <1>2, <2>0, <2>2, LaneAssumption DEF IInv, UsersMapped, HoldersHold
      <3>2. QED
        BY <2>0, <2>2, <3>1 DEF Mutex!Enter
    <2>3. ASSUME NEW t \in Thread, Lock(t) PROVE Mutex!Enter(t)
      BY <2>2, <2>3 DEF Lock
    <2>4. ASSUME NEW t \in Thread, TryLock(t)
          PROVE  Mutex!Enter(t) \/ UNCHANGED Mutex!vars
      <3>1. CASE holder[ptr[t]] = NoThread
        BY <2>2, <2>4, <3>1 DEF TryLock
      <3>2. CASE holder[ptr[t]] # NoThread
        BY <2>0, <2>4, <3>2 DEF TryLock
      <3>3. QED
        BY <3>1, <3>2
    <2>5. ASSUME NEW t \in Thread, TryUndo(t) PROVE Mutex!Refuse(t)
      BY <2>0, <2>5 DEF TryUndo, Mutex!Refuse
    <2>6. ASSUME NEW t \in Thread, Release(t) PROVE Mutex!Leave(t)
      BY <1>2, <2>0, <2>6, ReleaseFindsLane DEF Mutex!Leave
    <2>7. ASSUME NEW t \in Thread, Unlock(t) PROVE UNCHANGED Mutex!vars
      BY <2>0, <2>7 DEF Unlock
    <2>8. ASSUME NEW active \in SUBSET Key, Cleanup(active) PROVE UNCHANGED Mutex!vars
      BY <2>8 DEF Cleanup
    <2>9. CASE UNCHANGED vars
      BY <2>9 DEF vars
    <2>10. QED
      BY <1>2, <2>1, <2>3, <2>4, <2>5, <2>6, <2>7, <2>8, <2>9 DEF Next, Mutex!Next
  <1>3. QED
    BY <1>1, <1>2, LaneInvariant, PTL DEF Spec, ImplementsSessionMutex, Mutex!Spec
=============================================================================
