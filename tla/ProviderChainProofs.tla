------------------------ MODULE ProviderChainProofs ------------------------
(***************************************************************************)
(* The health trackers and the failover of a ProviderChain, for any number *)
(* of callers, any list of providers and any health configuration; and     *)
(* what becomes of an answer a provider streams, through channels of any   *)
(* capacity, and of one that is sent in parts, whatever its text.          *)
(***************************************************************************)
EXTENDS ProviderChain, Streaming, FiniteSetTheorems, SequenceTheorems, WellFoundedInduction, TLAPS

\* RecordSuccess keeps the fields of every tracker in agreement.
LEMMA SuccessKeepsTrackers ==
    ASSUME TrackerInv, NEW e, RecordSuccess(e)
    PROVE  TrackerInv'
  <1>0. MaxFailures \in Nat \ {0}
    BY ChainAssumption
  <1> USE <1>0 DEF TrackerInv, RecordSuccess
  <1>1. /\ state' \in [Entry -> {"healthy", "cooldown", "dead"}]
        /\ failures' \in [Entry -> Nat]
        /\ backoff' \in [Entry -> Nat]
        /\ cool' \in [Entry -> Nat]
    OBVIOUS
  <1>2. ASSUME NEW x \in Entry, x # e
        PROVE  /\ state'[x] = state[x] /\ failures'[x] = failures[x]
               /\ backoff'[x] = backoff[x] /\ cool'[x] = cool[x]
    BY <1>2
  <1>3. ASSUME NEW x \in Entry, x = e
        PROVE  state'[x] = "healthy" /\ failures'[x] = 0 /\ backoff'[x] = 0
    BY <1>3
  <1>4. QED
    BY <1>1, <1>2, <1>3 DEF TrackerConsistent

\* The backoff after a failure is positive and capped.
LEMMA NextBackoffCapped ==
    ASSUME TrackerInv, NEW e \in Entry
    PROVE  NextBackoff(e) \in 1 .. MaxBackoff
  <1>1. backoff[e] \in Nat
    BY DEF TrackerInv
  <1>2. QED
    BY <1>1, ChainAssumption DEF NextBackoff, AtMost

\* RecordFailure keeps the fields of every tracker in agreement.
LEMMA FailureKeepsTrackers ==
    ASSUME TrackerInv, NEW e, RecordFailure(e)
    PROVE  TrackerInv'
  <1>0. MaxFailures \in Nat \ {0} /\ MaxBackoff \in Nat
    BY ChainAssumption
  <1> USE <1>0 DEF TrackerInv
  <1>1. ASSUME NEW x \in Entry, x # e
        PROVE  /\ state'[x] = state[x] /\ failures'[x] = failures[x]
               /\ backoff'[x] = backoff[x] /\ cool'[x] = cool[x]
    BY <1>1 DEF RecordFailure
  <1>2. CASE e \in Entry
    <2>1. NextBackoff(e) \in 1 .. MaxBackoff
      BY <1>2, NextBackoffCapped
    <2>2. /\ state' \in [Entry -> {"healthy", "cooldown", "dead"}]
          /\ failures' \in [Entry -> Nat]
          /\ backoff' \in [Entry -> Nat]
          /\ cool' \in [Entry -> Nat]
      BY <1>2, <2>1 DEF RecordFailure
    <2>3. failures'[e] = failures[e] + 1 /\ failures[e] \in Nat
      BY <1>2 DEF RecordFailure
    <2>4. CASE failures[e] + 1 >= MaxFailures
      <3>1. state'[e] = "dead" /\ backoff' = backoff /\ cool' = cool
        BY <1>2, <2>4 DEF RecordFailure
      <3>2. QED
        BY <1>1, <1>2, <2>2, <2>3, <2>4, <3>1 DEF TrackerConsistent
    <2>5. CASE ~(failures[e] + 1 >= MaxFailures)
      <3>1. /\ state'[e] = "cooldown"
            /\ backoff'[e] = NextBackoff(e) /\ cool'[e] = NextBackoff(e)
        BY <1>2, <2>5 DEF RecordFailure
      <3>2. QED
        BY <1>1, <1>2, <2>1, <2>2, <2>3, <2>5, <3>1 DEF TrackerConsistent
    <2>6. QED
      BY <2>4, <2>5
  <1>3. CASE e \notin Entry
    <2>1. UNCHANGED health
      BY <1>3 DEF RecordFailure, health
    <2>2. QED
      BY <2>1 DEF health, TrackerConsistent
  <1>4. QED
    BY <1>2, <1>3

\* Every step of a caller, of the prober and of time keeps them in agreement.
LEMMA NextTrackerInv == TrackerInv /\ [Next]_vars => TrackerInv'
  <1> SUFFICES ASSUME TrackerInv, [Next]_vars PROVE TrackerInv'
    OBVIOUS
  <1>1. CASE UNCHANGED health
    BY <1>1 DEF health, TrackerInv, TrackerConsistent
  <1>2. ASSUME NEW c \in Caller, NEW r \in Roles, Call(c, r) PROVE TrackerInv'
    BY <1>1, <1>2 DEF Call
  <1>3. ASSUME NEW c \in Caller, Calling(c) PROVE TrackerInv'
    <2>1. CASE Try(c) \/ Respond(c)
      BY <1>1, <2>1 DEF Try, Respond
    <2>2. CASE Verdict(c)
      BY <1>1, <2>2, SuccessKeepsTrackers, FailureKeepsTrackers DEF Verdict
    <2>3. CASE StreamError(c)
      BY <2>3, FailureKeepsTrackers DEF StreamError
    <2>4. CASE StreamEnd(c)
      BY <1>1, <2>4, SuccessKeepsTrackers DEF StreamEnd
    <2>5. QED
      BY <1>3, <2>1, <2>2, <2>3, <2>4 DEF Calling
  <1>4. CASE ProbeNext
    BY <1>1, <1>4 DEF ProbeNext
  <1>5. CASE ProbeRevives
    BY <1>5, SuccessKeepsTrackers DEF ProbeRevives
  <1>6. ASSUME NEW e \in Entry, Flip(e) PROVE TrackerInv'
    BY <1>1, <1>6 DEF Flip
  <1>7. CASE Tick
    <2>1. UNCHANGED <<state, failures, backoff>>
      BY <1>7 DEF Tick
    <2>2. cool' \in [Entry -> Nat] /\ \A e \in Entry : cool'[e] <= cool[e]
      BY <1>7 DEF Tick, TrackerInv
    <2>3. QED
      BY <2>1, <2>2 DEF TrackerInv, TrackerConsistent
  <1>8. CASE UNCHANGED vars
    BY <1>1, <1>8 DEF vars, health
  <1>9. QED
    BY <1>2, <1>3, <1>4, <1>5, <1>6, <1>7, <1>8 DEF Next

\* They agree at the start.
LEMMA InitTrackerInv == Init => TrackerInv
  BY ChainAssumption DEF Init, TrackerInv, TrackerConsistent

\* However verdicts of requests, streams and probes interleave, state, failures,
\* backoff and cooldown of every healthTracker agree.
THEOREM TrackerConsistentHolds == Spec => []TrackerConsistent
  <1>1. TrackerInv => TrackerConsistent
    BY DEF TrackerInv
  <1>2. QED
    BY <1>1, InitTrackerInv, NextTrackerInv, PTL DEF Spec

-----------------------------------------------------------------------------
\* NoNeedlessFailure.

\* The candidates a caller has left, the one in progress included.
Left(c) == {todo[c][i] : i \in DOMAIN todo[c]}

\* Until a call has an answer it keeps among its candidates every provider that
\* was good from its beginning on, and such a provider is still available.
FailoverInv ==
    /\ todo \in [Caller -> Seq(Entry)]
    /\ pc \in [Caller -> {"idle", "loop", "request", "verdict", "stream", "broken"}]
    /\ steady \in [Caller -> SUBSET Entry]
    /\ \A c \in Caller : /\ pc[c] \in {"loop", "request", "verdict"} => steady[c] \subseteq Left(c)
                         /\ pc[c] \in {"request", "verdict"} => todo[c] # <<>>
                         /\ \A e \in steady[c] : IsAvailable(e)

\* InOrder lists a set of entries: each of them, and nothing else.
LEMMA InOrderLists ==
    ASSUME NEW S \in SUBSET Entry
    PROVE  /\ InOrder(S) \in Seq(S)
           /\ \A e \in S : \E i \in DOMAIN InOrder(S) : InOrder(S)[i] = e
  <1> DEFINE Upto(e) == {x \in S : x <= e}
             n == Cardinality(S)
             F == [e \in S |-> Cardinality(Upto(e))]
  <1>1. Len(Entries) \in Nat
    BY ChainAssumption, LenProperties
  <1>2. IsFiniteSet(S) /\ n \in Nat /\ \A e \in S : e \in Nat
    <2>1. IsFiniteSet(Entry)
      BY <1>1, FS_Interval DEF Entry
    <2>2. IsFiniteSet(S)
      BY <2>1, FS_Subset
    <2> QED BY <1>1, <2>2, FS_CardinalityType DEF Entry
  <1>3. ASSUME NEW e \in S
        PROVE  IsFiniteSet(Upto(e)) /\ Cardinality(Upto(e)) \in 1 .. n
    <2>1. IsFiniteSet(Upto(e)) /\ Cardinality(Upto(e)) <= n
      BY <1>2, FS_Subset
    <2>2. e \in Upto(e)
      BY <1>2
    <2>3. Cardinality(Upto(e)) \in Nat /\ Cardinality(Upto(e)) # 0
      BY <2>1, <2>2, FS_CardinalityType, FS_EmptySet
    <2> QED BY <1>2, <2>1, <2>3
  <1>4. ASSUME NEW a \in S, NEW b \in S, a < b
        PROVE  Cardinality(Upto(a)) # Cardinality(Upto(b))
    <2>1. Upto(a) \subseteq Upto(b)
      BY <1>2, <1>4
    <2>2. b \in Upto(b) /\ b \notin Upto(a)
      BY <1>2, <1>4
    <2>3. IsFiniteSet(Upto(b))
      BY <1>3
    <2> QED BY <2>1, <2>2, <2>3, FS_Subset
  <1>5. \A a, b \in S : Cardinality(Upto(a)) = Cardinality(Upto(b)) => a = b
    <2> SUFFICES ASSUME NEW a \in S, NEW b \in S, a # b PROVE Cardinality(Upto(a)) # Cardinality(Upto(b))
      OBVIOUS
    <2>1. a < b \/ b < a
      BY <1>2
    <2> QED BY <1>4, <2>1
  <1>6. F \in Injection(S, 1 .. n)
    BY <1>3, <1>5 DEF Injection, IsInjective
  <1>7. F \in Surjection(S, 1 .. n)
    <2>1. IsFiniteSet(1 .. n) /\ Cardinality(1 .. n) = n
      BY <1>2, FS_Interval
    <2> QED BY <1>6, <2>1, FS_Injection
  <1>8. ASSUME NEW i \in 1 .. n
        PROVE  InOrder(S)[i] \in S /\ Cardinality(Upto(InOrder(S)[i])) = i
    <2>1. \E e \in S : Cardinality(Upto(e)) = i
      BY <1>7 DEF Surjection
    <2> QED BY <2>1 DEF InOrder
  <1>9. DOMAIN InOrder(S) = 1 .. n
    BY DEF InOrder
  <1>10. InOrder(S) \in Seq(S)
    <2>1. InOrder(S) \in [1 .. n -> S]
      BY <1>8, <1>9 DEF InOrder
    <2> QED BY <1>2, <2>1
  <1>11. ASSUME NEW e \in S PROVE \E i \in DOMAIN InOrder(S) : InOrder(S)[i] = e
    <2>1. Cardinality(Upto(e)) \in 1 .. n
      BY <1>3
    <2>2. InOrder(S)[Cardinality(Upto(e))] = e
      BY <1>5, <1>8, <2>1
    <2> QED BY <1>9, <2>1, <2>2
  <1> QED BY <1>10, <1>11

\* The candidates for a role are entries, and every provider that serves it is one.
LEMMA CandidatesServe ==
    ASSUME NEW r
    PROVE  /\ Candidates(r) \in Seq(Entry)
           /\ \A e \in Entry : Serves(e, r) => \E i \in DOMAIN Candidates(r) : Candidates(r)[i] = e
  <1> DEFINE a == InOrder(Direct(r))
             b == InOrder(Fallbacks(r))
  <1>1. Direct(r) \in SUBSET Entry /\ Fallbacks(r) \in SUBSET Entry
    BY DEF Direct, Fallbacks
  <1>2. a \in Seq(Entry) /\ b \in Seq(Entry)
    BY <1>1, InOrderLists
  <1>3. /\ \A e \in Direct(r) : \E i \in DOMAIN a : a[i] = e
        /\ \A e \in Fallbacks(r) : \E i \in DOMAIN b : b[i] = e
    BY <1>1, InOrderLists
  <1>4. Candidates(r) = a \o b
    BY DEF Candidates
  <1> HIDE DEF a, b
  <1>5. /\ a \o b \in Seq(Entry) /\ Len(a \o b) = Len(a) + Len(b)
        /\ \A i \in 1 .. (Len(a) + Len(b)) : (a \o b)[i] = IF i <= Len(a) THEN a[i] ELSE b[i - Len(a)]
    BY <1>2, ConcatProperties
  <1>6. /\ DOMAIN a = 1 .. Len(a) /\ DOMAIN b = 1 .. Len(b) /\ Len(a) \in Nat /\ Len(b) \in Nat
        /\ DOMAIN (a \o b) = 1 .. (Len(a) + Len(b))
    BY <1>2, <1>5, LenProperties
  <1>7. ASSUME NEW i \in DOMAIN a PROVE i \in DOMAIN (a \o b) /\ (a \o b)[i] = a[i]
    BY <1>5, <1>6
  <1>8. ASSUME NEW i \in DOMAIN b PROVE Len(a) + i \in DOMAIN (a \o b) /\ (a \o b)[Len(a) + i] = b[i]
    <2>1. Len(a) + i \in 1 .. (Len(a) + Len(b)) /\ ~(Len(a) + i <= Len(a)) /\ (Len(a) + i) - Len(a) = i
      BY <1>6
    <2> QED BY <1>5, <1>6, <2>1
  <1>9. ASSUME NEW e \in Entry, Serves(e, r) PROVE \E i \in DOMAIN (a \o b) : (a \o b)[i] = e
    <2>1. e \in Direct(r) \/ e \in Fallbacks(r)
      BY <1>9 DEF Serves, Direct, Fallbacks
    <2> QED BY <1>3, <1>7, <1>8, <2>1
  <1> QED BY <1>4, <1>5, <1>9

\* The first candidate is dropped: the others are left.
LEMMA TailLeaves ==
    ASSUME NEW s \in Seq(Entry), s # <<>>
    PROVE  /\ Tail(s) \in Seq(Entry)
           /\ \A i \in DOMAIN s : s[i] = Head(s) \/ \E j \in DOMAIN Tail(s) : Tail(s)[j] = s[i]
  <1>1. /\ Tail(s) \in Seq(Entry) /\ Len(Tail(s)) = Len(s) - 1
        /\ \A i \in 1 .. Len(Tail(s)) : Tail(s)[i] = s[i + 1]
    BY HeadTailProperties
  <1>2. Len(s) \in Nat /\ DOMAIN s = 1 .. Len(s) /\ DOMAIN Tail(s) = 1 .. (Len(s) - 1) /\ Head(s) = s[1]
    BY <1>1, LenProperties, HeadTailProperties
  <1>3. ASSUME NEW i \in DOMAIN s, i # 1 PROVE \E j \in DOMAIN Tail(s) : Tail(s)[j] = s[i]
    <2>1. i - 1 \in 1 .. (Len(s) - 1) /\ (i - 1) + 1 = i
      BY <1>2, <1>3
    <2>2. Tail(s)[i - 1] = s[i]
      BY <1>1, <1>2, <2>1
    <2> QED BY <1>2, <2>1, <2>2
  <1> QED BY <1>1, <1>2, <1>3

\* What a step does for one caller: it goes on with what it had, its good
\* providers at most fewer, or it is left with nothing to show.
LEMMA FailoverKept ==
    ASSUME FailoverInv,
           todo' \in [Caller -> Seq(Entry)],
           pc' \in [Caller -> {"idle", "loop", "request", "verdict", "stream", "broken"}],
           steady' \in [Caller -> SUBSET Entry],
           \A c \in Caller :
             \/ steady'[c] = {} /\ pc'[c] \notin {"request", "verdict"}
             \/ /\ pc'[c] \in {"loop", "request", "verdict"} => steady'[c] \subseteq Left(c)'
                /\ pc'[c] \in {"request", "verdict"} => todo'[c] # <<>>
                /\ \A e \in steady'[c] : IsAvailable(e)'
    PROVE  FailoverInv'
  BY DEF FailoverInv

\* Every step keeps FailoverInv.
LEMMA NextFailoverInv == TrackerInv /\ FailoverInv /\ [Next]_vars => FailoverInv'
  <1> SUFFICES ASSUME TrackerInv, FailoverInv, [Next]_vars PROVE FailoverInv'
    OBVIOUS
  <1> DEFINE Points == {"idle", "loop", "request", "verdict", "stream", "broken"}
             Kept(c) == /\ pc'[c] \in {"loop", "request", "verdict"} => steady'[c] \subseteq Left(c)'
                        /\ pc'[c] \in {"request", "verdict"} => todo'[c] # <<>>
                        /\ \A e \in steady'[c] : IsAvailable(e)'
             Gone(c) == steady'[c] = {} /\ pc'[c] \notin {"request", "verdict"}
             Same(c) == todo'[c] = todo[c] /\ pc'[c] = pc[c]
             StillUp == \A e : IsAvailable(e) => IsAvailable(e)'
  <1>1. /\ todo \in [Caller -> Seq(Entry)] /\ pc \in [Caller -> Points]
        /\ steady \in [Caller -> SUBSET Entry]
        /\ \A c \in Caller : /\ pc[c] \in {"loop", "request", "verdict"} => steady[c] \subseteq Left(c)
                             /\ pc[c] \in {"request", "verdict"} => todo[c] # <<>>
                             /\ \A e \in steady[c] : IsAvailable(e)
    BY DEF FailoverInv
  <1>2. ASSUME NEW c \in Caller, Same(c), steady'[c] \subseteq steady[c],
               \A e \in steady'[c] : IsAvailable(e) => IsAvailable(e)'
        PROVE  Kept(c)
    BY <1>1, <1>2 DEF Left
  \* The trackers: a success makes no entry unavailable, a failure only its own.
  <1>3. ASSUME UNCHANGED health PROVE StillUp
    BY <1>3 DEF health, IsAvailable
  <1>4. ASSUME NEW x, RecordSuccess(x) PROVE \A e \in Entry : IsAvailable(e) => IsAvailable(e)'
    BY <1>4 DEF RecordSuccess, IsAvailable, TrackerInv
  <1>5. ASSUME NEW x, RecordFailure(x) PROVE \A e \in Entry : e # x /\ IsAvailable(e) => IsAvailable(e)'
    <2> SUFFICES ASSUME NEW e \in Entry, e # x PROVE state'[e] = state[e] /\ cool'[e] = cool[e]
      BY DEF IsAvailable
    <2> QED BY <1>5 DEF RecordFailure, TrackerInv
  <1>6. CASE UNCHANGED callers /\ UNCHANGED steady /\ \A e \in Entry : IsAvailable(e) => IsAvailable(e)'
    <2>1. UNCHANGED <<pc, todo, steady>>
      BY <1>6 DEF callers
    <2>2. \A c \in Caller : Kept(c)
      BY <1>1, <1>2, <1>6, <2>1
    <2> QED BY <1>1, <2>1, <2>2, FailoverKept
  <1>7. CASE UNCHANGED vars
    BY <1>3, <1>6, <1>7 DEF vars
  <1>8. ASSUME NEW c \in Caller, NEW r \in Roles, Call(c, r) PROVE FailoverInv'
    <2>1. UNCHANGED health
      BY <1>8 DEF Call
    <2>2. CASE UNCHANGED <<callers, steady>>
      BY <1>3, <1>6, <2>1, <2>2
    <2>3. CASE /\ pc' = [pc EXCEPT ![c] = "loop"]
               /\ todo' = [todo EXCEPT ![c] = Candidates(r)]
               /\ steady' = [steady EXCEPT ![c] = {e \in Entry : up[e] /\ IsAvailable(e) /\ Serves(e, r)}]
      <3>1. Candidates(r) \in Seq(Entry)
        BY CandidatesServe
      <3>2. todo' \in [Caller -> Seq(Entry)] /\ pc' \in [Caller -> Points] /\ steady' \in [Caller -> SUBSET Entry]
        BY <1>1, <2>3, <3>1
      <3>3. /\ pc'[c] = "loop" /\ todo'[c] = Candidates(r)
            /\ steady'[c] = {e \in Entry : up[e] /\ IsAvailable(e) /\ Serves(e, r)}
        BY <1>1, <2>3
      <3>4. Kept(c)
        <4>1. steady'[c] \subseteq Left(c)'
          BY <3>3, CandidatesServe DEF Left
        <4> QED BY <1>3, <2>1, <3>3, <4>1
      <3>5. ASSUME NEW d \in Caller, d # c PROVE Kept(d)
        <4>1. Same(d) /\ steady'[d] = steady[d]
          BY <1>1, <2>3, <3>5
        <4> QED BY <1>2, <1>3, <2>1, <4>1
      <3> QED BY <3>2, <3>4, <3>5, FailoverKept
    <2> QED BY <1>8, <2>2, <2>3 DEF Call, Goto
  \* A call that ends has nothing to show; a success is recorded at most.
  <1>9. ASSUME NEW c \in Caller, Return(c), \A e \in Entry : IsAvailable(e) => IsAvailable(e)'
        PROVE  FailoverInv'
    <2>1. /\ pc' = [pc EXCEPT ![c] = "idle"] /\ todo' = [todo EXCEPT ![c] = <<>>]
          /\ steady' = [steady EXCEPT ![c] = {}]
      BY <1>9 DEF Return
    <2>2. todo' \in [Caller -> Seq(Entry)] /\ pc' \in [Caller -> Points] /\ steady' \in [Caller -> SUBSET Entry]
      <3>1. <<>> \in Seq(Entry)
        OBVIOUS
      <3> QED BY <1>1, <2>1, <3>1
    <2>3. Gone(c)
      BY <1>1, <2>1
    <2>4. ASSUME NEW d \in Caller, d # c PROVE Kept(d)
      <3>1. Same(d) /\ steady'[d] = steady[d]
        BY <1>1, <2>1, <2>4
      <3> QED BY <1>1, <1>2, <1>9, <3>1
    <2> QED BY <2>2, <2>3, <2>4, FailoverKept
  \* A call goes on to another point, its candidates as they were.
  <1>10. ASSUME NEW c \in Caller, NEW p \in Points, pc' = [pc EXCEPT ![c] = p],
                UNCHANGED <<todo, steady>>, UNCHANGED health,
                p \in {"request", "verdict"} => todo[c] # <<>>,
                p \in {"loop", "request", "verdict"} => pc[c] \in {"loop", "request", "verdict"}
         PROVE  FailoverInv'
    <2>1. todo' \in [Caller -> Seq(Entry)] /\ pc' \in [Caller -> Points] /\ steady' \in [Caller -> SUBSET Entry]
      BY <1>1, <1>10
    <2>2. Kept(c)
      <3>1. pc'[c] = p
        BY <1>1, <1>10
      <3> QED BY <1>1, <1>3, <1>10, <3>1 DEF Left
    <2>3. ASSUME NEW d \in Caller, d # c PROVE Kept(d)
      <3>1. Same(d) /\ steady'[d] = steady[d]
        BY <1>1, <1>10, <2>3
      <3> QED BY <1>2, <1>3, <1>10, <3>1
    <2> QED BY <2>1, <2>2, <2>3, FailoverKept
  \* A call drops its first candidate, which is not a good provider of it.
  <1>11. ASSUME NEW c \in Caller, pc[c] \in {"loop", "request", "verdict"}, todo[c] # <<>>, pc' = [pc EXCEPT ![c] = "loop"],
                todo' = [todo EXCEPT ![c] = Tail(todo[c])],
                steady' \in [Caller -> SUBSET Entry], Head(todo[c]) \notin steady'[c],
                \A d \in Caller : /\ steady'[d] \subseteq steady[d]
                                  /\ \A e \in steady'[d] : IsAvailable(e) => IsAvailable(e)'
         PROVE  FailoverInv'
    <2>1. todo[c] \in Seq(Entry)
      BY <1>1
    <2>2. /\ Tail(todo[c]) \in Seq(Entry)
          /\ \A i \in DOMAIN todo[c] : \/ todo[c][i] = Head(todo[c])
                                       \/ \E j \in DOMAIN Tail(todo[c]) : Tail(todo[c])[j] = todo[c][i]
      BY <1>11, <2>1, TailLeaves
    <2>3. todo' \in [Caller -> Seq(Entry)] /\ pc' \in [Caller -> Points]
      BY <1>1, <1>11, <2>2
    <2>4. pc'[c] = "loop" /\ todo'[c] = Tail(todo[c])
      BY <1>1, <1>11
    <2>5. Kept(c)
      <3>1. ASSUME NEW e \in steady'[c] PROVE e \in Left(c)'
        <4>1. e \in Left(c) /\ e # Head(todo[c])
          BY <1>1, <1>11, <3>1
        <4>2. PICK i \in DOMAIN todo[c] : todo[c][i] = e
          BY <4>1 DEF Left
        <4>3. \E j \in DOMAIN Tail(todo[c]) : Tail(todo[c])[j] = e
          BY <2>2, <4>1, <4>2
        <4> QED BY <2>4, <4>3 DEF Left
      <3> QED BY <1>1, <1>11, <2>4, <3>1
    <2>6. ASSUME NEW d \in Caller, d # c PROVE Kept(d)
      <3>1. Same(d)
        BY <1>1, <1>11, <2>6
      <3> QED BY <1>2, <1>11, <3>1
    <2> QED BY <1>11, <2>3, <2>5, <2>6, FailoverKept
  <1>12. ASSUME NEW c \in Caller, Try(c) PROVE FailoverInv'
    <2>1. UNCHANGED health /\ pc[c] = "loop"
      BY <1>12 DEF Try
    <2>2. CASE Return(c)
      BY <1>3, <1>9, <2>1, <2>2
    <2>3. CASE /\ todo[c] # <<>> /\ ~IsAvailable(Head(todo[c]))
               /\ todo' = [todo EXCEPT ![c] = Tail(@)] /\ UNCHANGED <<pc, answer, steady>>
      <3>1. pc' = [pc EXCEPT ![c] = "loop"] /\ todo' = [todo EXCEPT ![c] = Tail(todo[c])]
        BY <1>1, <2>1, <2>3
      <3>2. Head(todo[c]) \notin steady'[c] /\ steady' = steady
        BY <1>1, <2>3
      <3>3. \A d \in Caller : steady'[d] \subseteq steady[d] /\ \A e \in steady'[d] : IsAvailable(e) => IsAvailable(e)'
        BY <1>3, <2>1, <3>2
      <3> QED BY <1>1, <1>11, <2>1, <2>3, <3>1, <3>2, <3>3
    <2>4. CASE todo[c] # <<>> /\ pc' = [pc EXCEPT ![c] = "request"] /\ UNCHANGED <<todo, answer, steady>>
      BY <1>10, <2>1, <2>4
    <2> QED BY <1>12, <2>2, <2>3, <2>4 DEF Try, Goto
  <1>13. ASSUME NEW c \in Caller, Respond(c) PROVE FailoverInv'
    <2>1. UNCHANGED health /\ UNCHANGED <<todo, steady>> /\ pc[c] = "request" /\ pc' = [pc EXCEPT ![c] = "verdict"]
      BY <1>13 DEF Respond, Goto
    <2> QED BY <1>1, <1>10, <2>1
  \* A failure is recorded, and its entry is good for nobody.
  <1>14. ASSUME NEW x, RecordFailure(x), Unsteady(x)
         PROVE  /\ steady' \in [Caller -> SUBSET Entry]
                /\ \A d \in Caller : /\ x \notin steady'[d] /\ steady'[d] \subseteq steady[d]
                                     /\ \A e \in steady'[d] : IsAvailable(e) => IsAvailable(e)'
    <2>1. steady' = [d \in Caller |-> steady[d] \ {x}]
      BY <1>14 DEF Unsteady
    <2>2. steady' \in [Caller -> SUBSET Entry] /\ \A d \in Caller : x \notin steady'[d] /\ steady'[d] \subseteq steady[d]
      BY <1>1, <2>1
    <2>3. \A d \in Caller : \A e \in steady'[d] : e \in Entry /\ e # x
      BY <2>2
    <2> QED BY <1>5, <1>14, <2>2, <2>3
  <1>15. ASSUME NEW c \in Caller, Verdict(c) PROVE FailoverInv'
    <2>1. pc[c] = "verdict"
      BY <1>15 DEF Verdict
    <2>2. CASE RecordSuccess(Head(todo[c])) /\ Return(c)
      BY <1>4, <1>9, <2>2
    <2>3. CASE pc' = [pc EXCEPT ![c] = "stream"] /\ UNCHANGED <<todo, steady>> /\ UNCHANGED health
      BY <1>10, <2>3
    <2>4. CASE Return(c) /\ UNCHANGED health
      BY <1>3, <1>9, <2>4
    <2>5. CASE /\ RecordFailure(Head(todo[c])) /\ Unsteady(Head(todo[c]))
               /\ todo' = [todo EXCEPT ![c] = Tail(@)] /\ pc' = [pc EXCEPT ![c] = "loop"]
      <3>1. todo' = [todo EXCEPT ![c] = Tail(todo[c])] /\ todo[c] # <<>>
        BY <1>1, <2>1, <2>5
      <3>2. /\ steady' \in [Caller -> SUBSET Entry] /\ Head(todo[c]) \notin steady'[c]
            /\ \A d \in Caller : /\ steady'[d] \subseteq steady[d]
                                 /\ \A e \in steady'[d] : IsAvailable(e) => IsAvailable(e)'
        BY <1>14, <2>5
      <3> QED BY <1>11, <2>1, <2>5, <3>1, <3>2
    <2> QED BY <1>15, <2>2, <2>3, <2>4, <2>5 DEF Verdict, Goto
  <1>16. ASSUME NEW c \in Caller, StreamError(c) PROVE FailoverInv'
    <2>1. /\ RecordFailure(Head(todo[c])) /\ Unsteady(Head(todo[c]))
          /\ pc' = [pc EXCEPT ![c] = "broken"] /\ todo' = todo
      BY <1>16 DEF StreamError, Goto
    <2>2. /\ steady' \in [Caller -> SUBSET Entry]
          /\ \A d \in Caller : /\ steady'[d] \subseteq steady[d]
                               /\ \A e \in steady'[d] : IsAvailable(e) => IsAvailable(e)'
      BY <1>14, <2>1
    <2>3. todo' \in [Caller -> Seq(Entry)] /\ pc' \in [Caller -> Points] /\ pc'[c] = "broken"
      BY <1>1, <2>1
    <2>4. Kept(c)
      BY <1>1, <2>2, <2>3
    <2>5. ASSUME NEW d \in Caller, d # c PROVE Kept(d)
      <3>1. Same(d)
        BY <1>1, <2>1, <2>5
      <3> QED BY <1>2, <2>2, <3>1
    <2> QED BY <2>2, <2>3, <2>4, <2>5, FailoverKept
  <1>17. ASSUME NEW c \in Caller, StreamEnd(c) PROVE FailoverInv'
    <2>1. Return(c) /\ (RecordSuccess(Head(todo[c])) \/ UNCHANGED health)
      BY <1>17 DEF StreamEnd
    <2>2. \A e \in Entry : IsAvailable(e) => IsAvailable(e)'
      BY <1>3, <1>4, <2>1
    <2> QED BY <1>9, <2>1, <2>2
  <1>18. CASE ProbeNext \/ ProbeRevives
    <2>1. UNCHANGED callers /\ UNCHANGED steady /\ (UNCHANGED health \/ RecordSuccess(probe))
      BY <1>18 DEF ProbeNext, ProbeRevives
    <2> QED BY <1>3, <1>4, <1>6, <2>1
  <1>19. ASSUME NEW x \in Entry, Flip(x) PROVE FailoverInv'
    <2>1. UNCHANGED health /\ UNCHANGED <<pc, todo>> /\ steady' = [d \in Caller |-> steady[d] \ {x}]
      BY <1>19 DEF Flip, Unsteady, callers
    <2>2. steady' \in [Caller -> SUBSET Entry] /\ \A d \in Caller : steady'[d] \subseteq steady[d]
      BY <1>1, <2>1
    <2>3. \A d \in Caller : Kept(d)
      BY <1>2, <1>3, <2>1, <2>2
    <2> QED BY <1>1, <2>1, <2>2, <2>3, FailoverKept
  <1>20. CASE Tick
    <2>1. UNCHANGED callers /\ UNCHANGED <<steady, state>> /\ cool' = [e \in Entry |-> IF cool[e] > 0 THEN cool[e] - 1 ELSE 0]
      BY <1>20 DEF Tick
    <2>2. \A e \in Entry : IsAvailable(e) => IsAvailable(e)'
      BY <2>1 DEF IsAvailable
    <2> QED BY <1>6, <2>1, <2>2
  <1> QED BY <1>7, <1>8, <1>12, <1>13, <1>15, <1>16, <1>17, <1>18, <1>19, <1>20 DEF Next, Calling

\* For any list of providers and any roles: a call gives up with ErrAllProviders only
\* when no provider that serves its role stayed up and available throughout.
THEOREM NoNeedlessFailureHolds == Spec => []NoNeedlessFailure
  <1>1. Init => FailoverInv
    <2> SUFFICES ASSUME Init PROVE FailoverInv
      OBVIOUS
    <2>1. todo \in [Caller -> Seq(Entry)]
      <3>1. <<>> \in Seq(Entry)
        OBVIOUS
      <3> QED BY <3>1 DEF Init
    <2> QED BY <2>1 DEF Init, FailoverInv
  <1>2. FailoverInv => NoNeedlessFailure
    BY DEF FailoverInv, NoNeedlessFailure, Left
  <1>3. QED
    BY <1>1, <1>2, InitTrackerInv, NextTrackerInv, NextFailoverInv, PTL DEF Spec

-----------------------------------------------------------------------------
\* The answer that one of the providers streams, from its connection to the screen.

\* What the channels of the stages and the events channel carry.
Chunks == [t : {"text", "tools", "err"}, n : Nat]
Events == [t : {"text", "tool", "err"}, n : Nat] \cup [t : {"done"}, n : Seq(Nat)]

\* The types of the variables the arguments below need.
StreamTypeInv ==
    /\ setup \in [ws : BOOLEAN, chained : BOOLEAN, streams : BOOLEAN]
    /\ on \in [Stage -> BOOLEAN]
    /\ q \in [Stage -> Seq(Chunks)]
    /\ sent \in [all : Nat, last : Seq(Nat), ended : BOOLEAN]
    /\ lp \in {"top", "read", "drain", "off"}
    /\ content \in Seq(Nat)
    /\ ev \in Seq(Events)
    /\ built \in Seq(Nat)
    /\ final \in Seq(Nat)
    /\ text \in Seq(Nat)
    /\ buf \in Seq(Nat)

LEMMA StreamInitType == StreamInit => StreamTypeInv
  <1> SUFFICES ASSUME NEW at, NEW complete \in BOOLEAN, StartTurn(at, complete),
                      at.lp \in {"top", "off"}
               PROVE  StreamTypeInv
    BY DEF StreamInit
  <1> QED
    BY StreamingAssumption DEF StreamTypeInv, StartTurn, None

\* The chunks the stages make are chunks, those the loop emits are events.
LEMMA ChunkType ==
    /\ \A n \in Nat : Chunk("text", n) \in Chunks
    /\ Chunk("tools", 0) \in Chunks /\ Chunk("err", 0) \in Chunks
    /\ Chunk("err", 0) \in Events /\ Chunk("tool", 0) \in Events
  BY DEF Chunk, Chunks, Events

\* What a chunk put into a channel, or taken from it, leaves of the channels.
LEMMA PutType ==
    ASSUME q \in [Stage -> Seq(Chunks)], NEW c \in Stage, NEW x \in Chunks
    PROVE  Put(c, x) \in [Stage -> Seq(Chunks)]
  BY DEF Put

LEMMA OutletStage == Outlet \in Stage
  BY DEF Outlet, Stage

LEMMA TakeType ==
    ASSUME q \in [Stage -> Seq(Chunks)], NEW c \in Stage, q[c] # <<>>
    PROVE  /\ Head(q[c]) \in Chunks
           /\ [q EXCEPT ![c] = Tail(@)] \in [Stage -> Seq(Chunks)]
  BY DEF Stage

LEMMA TakenType ==
    ASSUME StreamTypeInv, q[Outlet] # <<>>, Take
    PROVE  First \in Chunks /\ q' \in [Stage -> Seq(Chunks)]
  <1>1. q \in [Stage -> Seq(Chunks)]
    BY DEF StreamTypeInv
  <1> QED
    BY <1>1, OutletStage, TakeType DEF First, Take

\* How a piece and a new completion change what the model has sent.
LEMMA SentUpdates ==
    ASSUME NEW s \in [all : Nat, last : Seq(Nat), ended : BOOLEAN], NEW a, NEW l, NEW e
    PROVE  /\ [s EXCEPT !.all = a, !.last = l] = [all |-> a, last |-> l, ended |-> s.ended]
           /\ [s EXCEPT !.last = l, !.ended = e] = [all |-> s.all, last |-> l, ended |-> e]
           /\ [s EXCEPT !.ended = e] = [all |-> s.all, last |-> s.last, ended |-> e]
  <1>1. [s EXCEPT !.all = a] = [all |-> a, last |-> s.last, ended |-> s.ended]
    OBVIOUS
  <1>2. [s EXCEPT !.all = a, !.last = l] = [[s EXCEPT !.all = a] EXCEPT !.last = l]
    OBVIOUS
  <1>3. [s EXCEPT !.last = l] = [all |-> s.all, last |-> l, ended |-> s.ended]
    OBVIOUS
  <1>4. [s EXCEPT !.last = l, !.ended = e] = [[s EXCEPT !.last = l] EXCEPT !.ended = e]
    OBVIOUS
  <1>5. [[all |-> a, last |-> s.last, ended |-> s.ended] EXCEPT !.last = l] = [all |-> a, last |-> l, ended |-> s.ended]
    OBVIOUS
  <1>6. [[all |-> s.all, last |-> l, ended |-> s.ended] EXCEPT !.ended = e] = [all |-> s.all, last |-> l, ended |-> e]
    OBVIOUS
  <1>7. [s EXCEPT !.ended = e] = [all |-> s.all, last |-> s.last, ended |-> e]
    OBVIOUS
  <1> QED
    BY <1>1, <1>2, <1>3, <1>4, <1>5, <1>6, <1>7

\* Every step keeps the types.
LEMMA StreamNextType == StreamTypeInv /\ [StreamNext]_streamVars => StreamTypeInv'
  <1> SUFFICES ASSUME StreamTypeInv, [StreamNext]_streamVars
               PROVE  StreamTypeInv'
    OBVIOUS
  <1> USE DEF StreamTypeInv, provider, loop, sender, pipe, outvars, downstream, upstream, around, rest
  <1>1. CASE UNCHANGED streamVars
    BY <1>1 DEF streamVars
  <1>2. CASE OuterEnds \/ Timeout
    BY <1>2 DEF OuterEnds, Timeout
  <1>3. CASE ReadPiece
    <2>1. Chunk("text", sent.all + 1) \in Chunks
      BY ChunkType
    <2>2. q' \in [Stage -> Seq(Chunks)]
      BY <1>3, <2>1, PutType DEF ReadPiece, Stage
    <2>3. Append(sent.last, sent.all + 1) \in Seq(Nat)
      OBVIOUS
    <2>4. sent' \in [all : Nat, last : Seq(Nat), ended : BOOLEAN]
      <3>1. sent' = [all |-> sent.all + 1, last |-> Append(sent.last, sent.all + 1), ended |-> sent.ended]
        BY <1>3, SentUpdates DEF ReadPiece
      <3> QED
        BY <2>3, <3>1
    <2>5. UNCHANGED <<setup, on, lp, content, ev, built, final, text, buf>>
      BY <1>3 DEF ReadPiece
    <2> QED
      BY <2>2, <2>4, <2>5
  <1>4. ASSUME NEW queue \in [Stage -> Seq(Chunks)], ReaderExits(queue), sent' \in [all : Nat, last : Seq(Nat), ended : BOOLEAN]
        PROVE  StreamTypeInv'
    BY <1>4 DEF ReaderExits
  <1>5. ASSUME NEW calls \in BOOLEAN, ReadDone(calls)
        PROVE  StreamTypeInv'
    <2>1. Put("read", Chunk("tools", 0)) \in [Stage -> Seq(Chunks)]
      BY ChunkType, PutType DEF Stage
    <2>2. sent' \in [all : Nat, last : Seq(Nat), ended : BOOLEAN]
      BY <1>5 DEF ReadDone
    <2> QED
      BY <1>4, <1>5, <2>1, <2>2 DEF ReadDone, ReadLast
  <1>6. CASE ReadError
    <2>1. Put("read", Chunk("err", 0)) \in [Stage -> Seq(Chunks)]
      BY ChunkType, PutType DEF Stage
    <2> QED
      BY <1>4, <1>6, <2>1 DEF ReadError
  <1>7. ASSUME NEW calls \in BOOLEAN, ReadEOF(calls)
        PROVE  StreamTypeInv'
    <2>1. Put("read", Chunk("tools", 0)) \in [Stage -> Seq(Chunks)]
      BY ChunkType, PutType DEF Stage
    <2> QED
      BY <1>4, <1>7, <2>1 DEF ReadEOF
  <1>8. CASE ReadCancelled
    <2>1. Put("read", Chunk("err", 0)) \in [Stage -> Seq(Chunks)]
      BY ChunkType, PutType DEF Stage
    <2> QED
      BY <1>4, <1>8, <2>1 DEF ReadCancelled
  <1>9. ASSUME NEW c \in {"body", "chain"}, Relay(c) \/ RelayEnds(c)
        PROVE  StreamTypeInv'
    <2>1. CASE Relay(c)
      <3>1. Up(c) \in Stage /\ c \in Stage /\ Head(q[Up(c)]) \in Chunks
        BY <1>9, <2>1 DEF Relay, Up, Stage
      <3>2. q' \in [Stage -> Seq(Chunks)]
        <4> DEFINE f == [q EXCEPT ![Up(c)] = Tail(@)]
        <4>1. f \in [Stage -> Seq(Chunks)]
          BY <2>1, <3>1, TakeType DEF Relay
        <4>2. q' = [f EXCEPT ![c] = Append(q[c], Head(q[Up(c)]))]
          BY <1>9, <2>1, <3>1 DEF Relay, Up
        <4>3. Append(q[c], Head(q[Up(c)])) \in Seq(Chunks)
          BY <3>1
        <4> QED
          BY <3>1, <4>1, <4>2, <4>3
      <3>3. UNCHANGED <<setup, on, sent, lp, content, ev, built, final, text, buf>>
        BY <2>1 DEF Relay
      <3> QED
        BY <3>2, <3>3
    <2>2. CASE RelayEnds(c)
      BY <2>2 DEF RelayEnds
    <2> QED
      BY <1>9, <2>1, <2>2
  <1>10. CASE RelayCancelled
    <2>1. Put("body", Chunk("err", 0)) \in [Stage -> Seq(Chunks)]
      BY ChunkType, PutType DEF Stage
    <2>2. /\ [Put("body", Chunk("err", 0)) EXCEPT !["read"] = Tail(@)] \in [Stage -> Seq(Chunks)]
          /\ [q EXCEPT !["read"] = Tail(@)] \in [Stage -> Seq(Chunks)]
      <3>1. Put("body", Chunk("err", 0))["read"] = q["read"] /\ q["read"] # <<>>
        BY <1>10 DEF RelayCancelled, Put, Stage
      <3>2. Tail(q["read"]) \in Seq(Chunks)
        BY <3>1 DEF Stage
      <3> QED
        BY <2>1, <3>1, <3>2 DEF Stage
    <2>3. q' \in [Stage -> Seq(Chunks)] /\ on' \in [Stage -> BOOLEAN]
      BY <1>10, <2>2 DEF RelayCancelled
    <2>4. UNCHANGED <<setup, sent, lp, content, ev, built, final, text, buf>>
      BY <1>10 DEF RelayCancelled
    <2> QED
      BY <2>3, <2>4
  <1>11. CASE LoopTop
    <2>0. Append(ev, Chunk("err", 0)) \in Seq(Events)
      BY ChunkType
    <2>1. ev' \in Seq(Events) /\ lp' = "off"
      BY <1>11, <2>0 DEF LoopTop, EmitAndReturn, Emit, Abandon, LoopReturns
    <2>2. UNCHANGED <<setup, on, q, sent, content, built, final, text, buf>>
      BY <1>11 DEF LoopTop, EmitAndReturn, Emit, Abandon, LoopReturns
    <2> QED
      BY <2>1, <2>2
  <1>12. CASE OpenStream
    <2>1. on' \in [Stage -> BOOLEAN] /\ lp' = "read" /\ content' \in Seq(Nat)
      BY <1>12 DEF OpenStream
    <2>2. sent' \in [all : Nat, last : Seq(Nat), ended : BOOLEAN]
      <3>1. sent' = [all |-> sent.all, last |-> <<>>, ended |-> FALSE]
        BY <1>12, SentUpdates DEF OpenStream
      <3> QED
        BY <3>1
    <2>3. UNCHANGED <<setup, q, ev, built, final, text, buf>>
      BY <1>12 DEF OpenStream
    <2> QED
      BY <2>1, <2>2, <2>3
  <1>13. CASE LoopText
    <2>1. First \in Chunks /\ q' \in [Stage -> Seq(Chunks)]
      BY <1>13, TakenType DEF LoopText
    <2>2. First.n \in Nat /\ First \in Events
      BY <1>13, <2>1 DEF LoopText, Chunks, Events
    <2>3. Append(ev, First) \in Seq(Events) /\ Append(content, First.n) \in Seq(Nat)
      BY <2>2
    <2>4. /\ ev' \in Seq(Events)
          /\ content' \in Seq(Nat)
          /\ lp' \in {"read", "off"}
      BY <1>13, <2>3 DEF LoopText, Emit, Abandon, LoopReturns
    <2>5. UNCHANGED <<setup, on, sent, built, final, text, buf>>
      BY <1>13 DEF LoopText
    <2> QED
      BY <2>1, <2>4, <2>5
  <1>14. CASE LoopTools \/ LoopError
    <2>1. q' \in [Stage -> Seq(Chunks)]
      BY <1>14, TakenType DEF LoopTools, LoopError
    <2> QED
      BY <1>14, <2>1 DEF LoopTools, LoopError
  <1>15. CASE Drain
    <2>1. q[Outlet] # <<>> => [q EXCEPT ![Outlet] = Tail(@)] \in [Stage -> Seq(Chunks)]
      BY OutletStage, TakeType
    <2>2. q' \in [Stage -> Seq(Chunks)] /\ lp' \in {"drain", "off"}
      BY <1>15, <2>1 DEF Drain, Take, EmitAndReturn, Emit, Abandon, LoopReturns
    <2>3. Append(ev, Chunk("err", 0)) \in Seq(Events)
      BY ChunkType
    <2>4. ev' \in Seq(Events)
      BY <1>15, <2>3 DEF Drain, EmitAndReturn, Emit, Abandon
    <2>5. UNCHANGED <<setup, on, sent, content, built, final, text, buf>>
      BY <1>15 DEF Drain, EmitAndReturn, Emit, Abandon, LoopReturns
    <2> QED
      BY <2>2, <2>4, <2>5
  <1>16. CASE LoopClosed
    <2>1. [t |-> "done", n |-> content] \in Events
      BY DEF Events
    <2>2. /\ Append(ev, Chunk("err", 0)) \in Seq(Events)
          /\ Append(ev, Chunk("tool", 0)) \in Seq(Events)
          /\ Append(ev, [t |-> "done", n |-> content]) \in Seq(Events)
      BY <2>1, ChunkType
    <2>3. ev' \in Seq(Events)
      BY <1>16, <2>2 DEF LoopClosed, EmitAndReturn, Emit, Abandon
    <2>4. lp' \in {"top", "off"} /\ UNCHANGED <<setup, on, q, sent, content, built, final, text, buf>>
      BY <1>16 DEF LoopClosed, EmitAndReturn, Emit, Abandon, LoopReturns
    <2> QED
      BY <2>3, <2>4
  <1>17. CASE PipeEvent
    <2>1. Head(ev) \in Events /\ Tail(ev) \in Seq(Events)
      BY <1>17 DEF PipeEvent
    <2>2. /\ Head(ev).t = "text" => Head(ev).n \in Nat
          /\ Head(ev).t = "done" => Head(ev).n \in Seq(Nat)
      BY <2>1 DEF Events
    <2> QED
      BY <1>17, <2>1, <2>2 DEF PipeEvent
  <1>18. CASE PipeClose \/ PipeEnds \/ PipeSends \/ PipeSending
    BY <1>18 DEF PipeClose, PipeEnds, PipeSends, PipeSending
  <1>19. CASE SendRefused \/ SendPlaceholder
    BY <1>19 DEF SendRefused, SendPlaceholder, SendResult
  <1>20. ASSUME NEW b, Flush(b) \/ NoFlush
         PROVE  setup' \in [ws : BOOLEAN, chained : BOOLEAN, streams : BOOLEAN]
    BY <1>20, StreamingAssumption DEF Flush, FlushOK, FlushFails, NoFlush
  <1>21. CASE SendChunk
    <2>1. text' \in Seq(Nat) /\ Append(buf, Head(text)) \in Seq(Nat)
      BY <1>21 DEF SendChunk
    <2>2. buf' \in Seq(Nat) /\ setup' \in [ws : BOOLEAN, chained : BOOLEAN, streams : BOOLEAN]
      BY <1>20, <1>21, <2>1 DEF SendChunk
    <2>3. UNCHANGED <<on, q, sent, lp, content, ev, built, final>>
      BY <1>21 DEF SendChunk
    <2> QED
      BY <2>1, <2>2, <2>3
  <1>22. CASE SendTick \/ SendClosed \/ SendCancelled
    BY <1>20, <1>22 DEF SendTick, SendClosed, SendCancelled, SendResult
  <1> QED
    BY <1>1, <1>2, <1>3, <1>5, <1>6, <1>7, <1>8, <1>9, <1>10, <1>11, <1>12, <1>13, <1>14, <1>15,
       <1>16, <1>17, <1>18, <1>19, <1>21, <1>22
       DEF StreamNext, Reader, LoopStep, PipeStep, SendStep

-----------------------------------------------------------------------------
\* An error is in the channel of stage c; it is in some channel.
Failed(c) == \E k \in 1..Len(q[c]) : q[c][k].t = "err"
Failing == Failed("read") \/ Failed("body") \/ Failed("chain")

\* x is what the reader has sent as its i-th chunk: a piece, or at last the tool calls.
InPlace(x, i) ==
    IF i <= Len(sent.last) THEN x = Chunk("text", sent.last[i]) ELSE x = Chunk("tools", 0)

\* The chunks in the channel of c follow the ones before it.
Filled(c, before) == \A k \in 1..Len(q[c]) : InPlace(q[c][k], before + k)

AfterChain == Len(content) + Len(q["chain"])
AfterBody == AfterChain + Len(q["body"])
AfterRead == AfterBody + Len(q["read"])

\* Content and channels hold all that was sent, in order.
FlowInv ==
    /\ \A k \in 1..Len(content) : k <= Len(sent.last) /\ content[k] = sent.last[k]
    /\ Filled("chain", Len(content))
    /\ Filled("body", AfterChain)
    /\ Filled("read", AfterBody)
    /\ AfterRead = Len(sent.last) \/ (AfterRead = Len(sent.last) + 1 /\ ~on["read"])

\* A goroutine has ended only when the one above it had, or after an error.
OrderInv ==
    /\ ~setup.chained => ~on["chain"] /\ q["chain"] = <<>>
    /\ setup.chained /\ ~on["chain"] => ~on["body"] /\ q["body"] = <<>>
    /\ ~on["body"] => Failed("body") \/ Failed("chain") \/ (~on["read"] /\ q["read"] = <<>>)
    /\ ~on["read"] => Failing \/ sent.ended

PathInv == OrderInv /\ (~Failing => FlowInv)

\* A chunk that is put last into one channel.
LEMMA PutFacts ==
    ASSUME StreamTypeInv, NEW c \in Stage, NEW x \in Chunks, q' = Put(c, x)
    PROVE  /\ Len(q'[c]) = Len(q[c]) + 1
           /\ q'[c][Len(q[c]) + 1] = x
           /\ \A k \in 1..Len(q[c]) : q'[c][k] = q[c][k]
           /\ \A d \in Stage \ {c} : q'[d] = q[d]
           /\ Failed(c)' <=> Failed(c) \/ x.t = "err"
           /\ \A d \in Stage \ {c} : Failed(d)' <=> Failed(d)
  <1>1. /\ q[c] \in Seq(Chunks)
        /\ q'[c] = Append(q[c], x)
        /\ \A d \in Stage \ {c} : q'[d] = q[d]
    BY DEF StreamTypeInv, Put
  <1>2. /\ Len(q'[c]) = Len(q[c]) + 1
        /\ q'[c][Len(q[c]) + 1] = x
        /\ \A k \in 1..Len(q[c]) : q'[c][k] = q[c][k]
    BY <1>1
  <1>3. Failed(c)' <=> Failed(c) \/ x.t = "err"
    <2>1. Len(q[c]) \in Nat
      BY <1>1
    <2>2. 1..Len(q'[c]) = 1..Len(q[c]) \cup {Len(q[c]) + 1}
      BY <1>2, <2>1
    <2> QED
      BY <1>2, <2>2, Zenon DEF Failed
  <1> QED
    BY <1>1, <1>2, <1>3 DEF Failed

\* A chunk that is taken from one channel.
LEMMA TakeFacts ==
    ASSUME StreamTypeInv, NEW c \in Stage, q[c] # <<>>, q' = [q EXCEPT ![c] = Tail(@)]
    PROVE  /\ Head(q[c]) = q[c][1]
           /\ Len(q[c]) \in Nat \ {0}
           /\ Len(q'[c]) = Len(q[c]) - 1
           /\ \A k \in 1..(Len(q[c]) - 1) : q'[c][k] = q[c][k + 1]
           /\ \A d \in Stage \ {c} : q'[d] = q[d]
           /\ Failed(c) /\ q[c][1].t # "err" => Failed(c)'
           /\ Failed(c)' => Failed(c)
           /\ \A d \in Stage \ {c} : Failed(d)' <=> Failed(d)
  <1>1. /\ q[c] \in Seq(Chunks)
        /\ q'[c] = Tail(q[c])
        /\ \A d \in Stage \ {c} : q'[d] = q[d]
    BY DEF StreamTypeInv
  <1>2. /\ Head(q[c]) = q[c][1]
        /\ Len(q[c]) \in Nat \ {0}
        /\ Len(q'[c]) = Len(q[c]) - 1
        /\ \A k \in 1..(Len(q[c]) - 1) : q'[c][k] = q[c][k + 1]
    <2>1. Len(q[c]) \in Nat \ {0}
      BY <1>1, EmptySeq
    <2>2. Head(q[c]) = q[c][1]
      BY <1>1
    <2>3. /\ Len(Tail(q[c])) = Len(q[c]) - 1
          /\ \A k \in 1..Len(Tail(q[c])) : Tail(q[c])[k] = q[c][k + 1]
      BY <1>1, HeadTailProperties
    <2> QED
      BY <1>1, <2>1, <2>2, <2>3
  <1>3. Failed(c)' => Failed(c)
    BY <1>2 DEF Failed
  <1>4. ASSUME Failed(c), q[c][1].t # "err" PROVE Failed(c)'
    <2>1. PICK k \in 1..Len(q[c]) : q[c][k].t = "err"
      BY <1>4 DEF Failed
    <2>2. k # 1
      BY <1>4, <2>1
    <2>3. k - 1 \in 1..(Len(q[c]) - 1) /\ (k - 1) + 1 = k
      BY <1>2, <2>1, <2>2
    <2>4. q'[c][k - 1].t = "err"
      BY <1>2, <2>1, <2>3
    <2> QED
      BY <1>2, <2>3, <2>4 DEF Failed
  <1> QED
    BY <1>1, <1>2, <1>3, <1>4 DEF Failed

\* The lengths along the path, in the form the arithmetic needs.
PathSizes ==
    /\ Len(content) \in Nat /\ Len(sent.last) \in Nat
    /\ Len(q["read"]) \in Nat /\ Len(q["body"]) \in Nat /\ Len(q["chain"]) \in Nat
    /\ AfterChain \in Nat /\ AfterBody \in Nat /\ AfterRead \in Nat

LEMMA PathTypes == StreamTypeInv => PathSizes
  <1> SUFFICES ASSUME StreamTypeInv PROVE PathSizes
    OBVIOUS
  <1>1. /\ Len(content) \in Nat /\ Len(sent.last) \in Nat
        /\ Len(q["read"]) \in Nat /\ Len(q["body"]) \in Nat /\ Len(q["chain"]) \in Nat
    BY DEF StreamTypeInv, Stage
  <1>2. AfterChain \in Nat
    BY <1>1 DEF AfterChain
  <1>3. AfterBody \in Nat
    BY <1>1, <1>2 DEF AfterBody
  <1>4. AfterRead \in Nat
    BY <1>1, <1>3 DEF AfterRead
  <1> QED
    BY <1>1, <1>2, <1>3, <1>4 DEF PathSizes

\* Each stage adds to what comes after it.
LEMMA PathBounds ==
    PathSizes => /\ Len(content) + Len(q["chain"]) <= AfterRead
                 /\ AfterChain + Len(q["body"]) <= AfterRead
                 /\ AfterBody + Len(q["read"]) <= AfterRead
                 /\ AfterBody + Len(q["read"]) >= AfterRead
  <1> SUFFICES ASSUME PathSizes
               PROVE  /\ Len(content) + Len(q["chain"]) <= AfterRead
                      /\ AfterChain + Len(q["body"]) <= AfterRead
                      /\ AfterBody + Len(q["read"]) <= AfterRead
                      /\ AfterBody + Len(q["read"]) >= AfterRead
    OBVIOUS
  <1> USE DEF PathSizes
  <1>1. AfterBody <= AfterRead
    BY DEF AfterRead
  <1>2. AfterChain <= AfterBody
    BY DEF AfterBody
  <1>3. AfterChain <= AfterRead
    BY <1>1, <1>2
  <1>4. Len(content) + Len(q["chain"]) <= AfterRead
    BY <1>3 DEF AfterChain
  <1>5. AfterChain + Len(q["body"]) <= AfterRead
    BY <1>1 DEF AfterBody
  <1>6. AfterBody + Len(q["read"]) <= AfterRead /\ AfterBody + Len(q["read"]) >= AfterRead
    BY DEF AfterRead
  <1> QED
    BY <1>4, <1>5, <1>6

\* A position that is not the last is one of those before it.
LEMMA BelowLast == \A n \in Nat : \A k \in 1..(n + 1) : k # n + 1 => k \in 1..n
  OBVIOUS

\* A new piece enters the path at its end.
LEMMA ReadPiecePath ==
    ASSUME StreamTypeInv, PathInv, ReadPiece
    PROVE  PathInv'
  <1> DEFINE x == Chunk("text", sent.all + 1)
  <1>0. x \in Chunks /\ x.t = "text" /\ x.t # "err"
    BY ChunkType DEF StreamTypeInv, Chunk
  <1>1. /\ UNCHANGED <<setup, on, content>>
        /\ q' = Put("read", x)
        /\ on["read"]
    BY DEF ReadPiece, downstream, loop
  <1>2. /\ sent'.last = Append(sent.last, sent.all + 1)
        /\ sent'.ended = sent.ended
    BY SentUpdates DEF ReadPiece, StreamTypeInv
  <1>3. /\ Len(sent'.last) = Len(sent.last) + 1
        /\ sent'.last[Len(sent.last) + 1] = sent.all + 1
        /\ \A k \in 1..Len(sent.last) : sent'.last[k] = sent.last[k]
    BY <1>2 DEF StreamTypeInv
  <1> HIDE DEF x
  <1>4. /\ Len(q'["read"]) = Len(q["read"]) + 1
        /\ q'["read"][Len(q["read"]) + 1] = x
        /\ \A k \in 1..Len(q["read"]) : q'["read"][k] = q["read"][k]
        /\ q'["body"] = q["body"] /\ q'["chain"] = q["chain"]
        /\ Failed("read")' <=> Failed("read")
        /\ Failed("body")' <=> Failed("body")
        /\ Failed("chain")' <=> Failed("chain")
    BY <1>0, <1>1, PutFacts DEF Stage
  <1>n. PathSizes
    BY PathTypes
  <1> USE <1>n, PathBounds DEF PathSizes
  <1>5. OrderInv'
    BY <1>1, <1>2, <1>4 DEF PathInv, OrderInv, Failing
  <1>6. ASSUME ~Failing'
        PROVE  FlowInv'
    <2>1. FlowInv /\ AfterRead = Len(sent.last)
      BY <1>1, <1>4, <1>6 DEF PathInv, FlowInv, Failing
    <2>2. /\ AfterChain' = AfterChain /\ AfterBody' = AfterBody
          /\ AfterRead' = Len(sent'.last)
      <3>1. AfterChain' = AfterChain
        BY <1>1, <1>4 DEF AfterChain
      <3>2. AfterBody' = AfterBody
        BY <1>4, <3>1 DEF AfterBody
      <3>3. AfterRead' = AfterBody + Len(q["read"]) + 1
        BY <1>4, <3>2 DEF AfterRead
      <3> QED
        BY <1>3, <2>1, <3>1, <3>2, <3>3
    <2>3. \A k \in 1..Len(content') : k <= Len(sent'.last) /\ content'[k] = sent'.last[k]
      BY <1>1, <1>3, <2>1 DEF FlowInv
    <2>4. \A y : \A i \in 1..Len(sent.last) : InPlace(y, i) => InPlace(y, i)'
      BY <1>3 DEF InPlace
    <2>5. Filled("chain", Len(content))'
      <3> SUFFICES ASSUME NEW k \in 1..Len(q["chain"])
                   PROVE  InPlace(q["chain"][k], Len(content) + k)'
        BY <1>1, <1>4 DEF Filled
      <3>1. Len(content) + k \in 1..Len(sent.last)
        BY <2>1
      <3> QED
        BY <1>1, <1>4, <2>1, <2>4, <3>1 DEF FlowInv, Filled
    <2>6. Filled("body", AfterChain)'
      <3> SUFFICES ASSUME NEW k \in 1..Len(q["body"])
                   PROVE  InPlace(q["body"][k], AfterChain + k)'
        BY <1>1, <1>4, <2>2 DEF Filled
      <3>1. AfterChain + k \in 1..Len(sent.last)
        BY <2>1
      <3> QED
        BY <1>1, <1>4, <2>1, <2>2, <2>4, <3>1 DEF FlowInv, Filled
    <2>7. Filled("read", AfterBody)'
      <3> SUFFICES ASSUME NEW k \in 1..(Len(q["read"]) + 1)
                   PROVE  InPlace(q["read"][k], AfterBody + k)'
        BY <1>1, <1>4, <2>2 DEF Filled
      <3>1. CASE k = Len(q["read"]) + 1
        <4>1. AfterBody + k = Len(sent.last) + 1
          BY <2>1, <3>1
        <4> QED
          BY <1>3, <1>4, <2>2, <3>1, <4>1 DEF InPlace, x
      <3>2. CASE k # Len(q["read"]) + 1
        <4>1. k \in 1..Len(q["read"])
          BY <3>2, BelowLast
        <4>2. AfterBody + k \in 1..Len(sent.last)
          BY <2>1, <4>1
        <4> QED
          BY <1>4, <2>1, <2>2, <2>4, <4>1, <4>2 DEF FlowInv, Filled
      <3> QED
        BY <3>1, <3>2
    <2> QED
      BY <2>2, <2>3, <2>5, <2>6, <2>7 DEF FlowInv
  <1> QED
    BY <1>5, <1>6 DEF PathInv

\* The reader ends; the tool calls are the last chunk of the path.
LEMMA ReadDonePath ==
    ASSUME StreamTypeInv, PathInv, NEW calls \in BOOLEAN, ReadDone(calls), "cut" \notin ghost'
    PROVE  PathInv'
  <1> DEFINE x == Chunk("tools", 0)
  <1>0. x \in Chunks /\ x.t # "err"
    BY ChunkType DEF Chunk
  <1> HIDE DEF x
  <1>1. /\ UNCHANGED <<setup, content>>
        /\ on' = [on EXCEPT !["read"] = FALSE]
        /\ on["read"]
        /\ q' = IF calls THEN Put("read", x) ELSE q
    BY DEF ReadDone, ReadLast, ReaderExits, Note, downstream, loop, x
  <1>2. sent'.last = sent.last /\ sent'.ended
    BY SentUpdates DEF ReadDone, StreamTypeInv
  <1>3. ~on'["read"] /\ on'["body"] = on["body"] /\ on'["chain"] = on["chain"]
    BY <1>1 DEF StreamTypeInv, Stage
  <1>4. /\ q'["body"] = q["body"] /\ q'["chain"] = q["chain"]
        /\ Failed("read")' <=> Failed("read")
        /\ Failed("body")' <=> Failed("body")
        /\ Failed("chain")' <=> Failed("chain")
    <2>1. CASE calls
      BY <1>0, <1>1, <2>1, PutFacts DEF Stage
    <2>2. CASE ~calls
      BY <1>1, <2>2 DEF Failed
    <2> QED
      BY <2>1, <2>2
  <1>5. OrderInv'
    BY <1>1, <1>2, <1>3, <1>4 DEF PathInv, OrderInv, Failing
  <1>n. PathSizes
    BY PathTypes
  <1> USE <1>n, PathBounds DEF PathSizes
  <1>6. ASSUME ~Failing'
        PROVE  FlowInv'
    <2>1. FlowInv /\ AfterRead = Len(sent.last)
      BY <1>1, <1>4, <1>6 DEF PathInv, FlowInv, Failing
    <2>2. AfterChain' = AfterChain
      BY <1>1, <1>4 DEF AfterChain
    <2>3. AfterBody' = AfterBody
      BY <1>4, <2>2 DEF AfterBody
    <2>4. /\ \A k \in 1..Len(content') : k <= Len(sent'.last) /\ content'[k] = sent'.last[k]
          /\ Filled("chain", Len(content))'
          /\ Filled("body", AfterChain)'
      <3>1. \A k \in 1..Len(content') : k <= Len(sent'.last) /\ content'[k] = sent'.last[k]
        BY <1>1, <1>2, <2>1 DEF FlowInv
      <3>2. \A y, i : InPlace(y, i) => InPlace(y, i)'
        BY <1>2 DEF InPlace
      <3>3. Filled("chain", Len(content))'
        BY <1>1, <1>4, <2>1, <3>2 DEF FlowInv, Filled
      <3>4. Filled("body", AfterChain)'
        BY <1>4, <2>1, <2>2, <3>2 DEF FlowInv, Filled
      <3> QED
        BY <3>1, <3>3, <3>4
    <2>5. CASE ~calls
      <3>1. AfterRead' = AfterRead
        BY <1>1, <2>3, <2>5 DEF AfterRead
      <3>2. Filled("read", AfterBody)'
        BY <1>1, <1>2, <2>1, <2>3, <2>5 DEF FlowInv, Filled, InPlace
      <3> QED
        BY <1>2, <2>1, <2>4, <3>1, <3>2 DEF FlowInv
    <2>6. CASE calls
      <3>1. /\ Len(q'["read"]) = Len(q["read"]) + 1
            /\ q'["read"][Len(q["read"]) + 1] = x
            /\ \A k \in 1..Len(q["read"]) : q'["read"][k] = q["read"][k]
        BY <1>0, <1>1, <2>6, PutFacts DEF Stage
      <3>2. AfterRead' = AfterBody + Len(q["read"]) + 1
        BY <2>3, <3>1 DEF AfterRead
      <3>3. AfterRead' = Len(sent'.last) + 1
        <4>1. AfterBody + Len(q["read"]) = Len(sent.last)
          BY <2>1
        <4> QED
          BY <1>2, <3>2, <4>1
      <3>4. Filled("read", AfterBody)'
        <4> SUFFICES ASSUME NEW k \in 1..(Len(q["read"]) + 1)
                     PROVE  InPlace(q["read"][k], AfterBody + k)'
          BY <2>3, <3>1 DEF Filled
        <4>1. CASE k = Len(q["read"]) + 1
          <5>1. AfterBody + k > Len(sent.last)
            BY <2>1, <4>1
          <5> QED
            BY <1>2, <2>3, <3>1, <4>1, <5>1 DEF InPlace, x
        <4>2. CASE k # Len(q["read"]) + 1
          <5>1. k \in 1..Len(q["read"])
            BY <4>2
          <5> QED
            BY <1>2, <2>1, <2>3, <3>1, <5>1 DEF FlowInv, Filled, InPlace
        <4> QED
          BY <4>1, <4>2
      <3> QED
        BY <1>3, <2>4, <3>3, <3>4 DEF FlowInv
    <2> QED
      BY <2>5, <2>6
  <1> QED
    BY <1>5, <1>6 DEF PathInv

\* An error that the reader leaves when it ends.
LEMMA ReadErrorPath ==
    ASSUME StreamTypeInv, PathInv, on["read"], UNCHANGED sent, ReaderExits(Put("read", Chunk("err", 0)))
    PROVE  PathInv'
  <1> DEFINE x == Chunk("err", 0)
  <1>0. x \in Chunks /\ x.t = "err"
    BY ChunkType DEF Chunk
  <1>1. /\ UNCHANGED setup
        /\ on' = [on EXCEPT !["read"] = FALSE]
        /\ q' = Put("read", x)
    BY DEF ReaderExits, downstream
  <1> HIDE DEF x
  <1>2. /\ q'["body"] = q["body"] /\ q'["chain"] = q["chain"]
        /\ Failed("read")'
        /\ Failed("body")' <=> Failed("body")
        /\ Failed("chain")' <=> Failed("chain")
    BY <1>0, <1>1, PutFacts DEF Stage
  <1>3. ~on'["read"] /\ on'["body"] = on["body"] /\ on'["chain"] = on["chain"]
    BY <1>1 DEF StreamTypeInv, Stage
  <1> QED
    BY <1>1, <1>2, <1>3 DEF PathInv, OrderInv, Failing

\* A chunk that moves on keeps its place in the text.
LEMMA ShiftOne == \A a, b \in Nat : b >= 1 => (a + 1) + (b - 1) = a + b
  OBVIOUS

\* Tool calls that come out of the path were the last chunk in it.
LEMMA LastOne ==
    \A a, b, m, l \in Nat : a + b <= m /\ m <= l + 1 /\ a + 1 > l /\ b >= 1 => b = 1 /\ m = a + 1 /\ l = a
  OBVIOUS

\* A chunk that goes from one channel to the next.
LEMMA RelayFacts ==
    ASSUME StreamTypeInv, NEW c \in {"body", "chain"}, Relay(c)
    PROVE  /\ Up(c) \in Stage /\ c \in Stage /\ Up(c) # c
           /\ Len(q[Up(c)]) \in Nat \ {0}
           /\ Len(q'[Up(c)]) = Len(q[Up(c)]) - 1
           /\ \A k \in 1..(Len(q[Up(c)]) - 1) : q'[Up(c)][k] = q[Up(c)][k + 1]
           /\ Len(q'[c]) = Len(q[c]) + 1
           /\ q'[c][Len(q[c]) + 1] = q[Up(c)][1]
           /\ \A k \in 1..Len(q[c]) : q'[c][k] = q[c][k]
           /\ \A d \in Stage \ {c, Up(c)} : q'[d] = q[d]
           /\ UNCHANGED <<setup, on, sent, content>>
  <1>1. Up(c) \in Stage /\ c \in Stage /\ Up(c) # c
    BY DEF Up, Stage
  <1>2. q[Up(c)] \in Seq(Chunks) /\ q[Up(c)] # <<>> /\ q[c] \in Seq(Chunks)
    BY <1>1 DEF StreamTypeInv, Relay
  <1>3. /\ q'[Up(c)] = Tail(q[Up(c)])
        /\ q'[c] = Append(q[c], Head(q[Up(c)]))
        /\ \A d \in Stage \ {c, Up(c)} : q'[d] = q[d]
    BY <1>1 DEF StreamTypeInv, Relay
  <1>4. /\ Len(q[Up(c)]) \in Nat \ {0}
        /\ Head(q[Up(c)]) = q[Up(c)][1] /\ Head(q[Up(c)]) \in Chunks
    BY <1>2, EmptySeq
  <1>5. /\ Len(Tail(q[Up(c)])) = Len(q[Up(c)]) - 1
        /\ \A k \in 1..Len(Tail(q[Up(c)])) : Tail(q[Up(c)])[k] = q[Up(c)][k + 1]
    BY <1>2, HeadTailProperties
  <1>6. /\ Len(q'[c]) = Len(q[c]) + 1
        /\ q'[c][Len(q[c]) + 1] = q[Up(c)][1]
        /\ \A k \in 1..Len(q[c]) : q'[c][k] = q[c][k]
    BY <1>2, <1>3, <1>4, AppendProperties
  <1>7. UNCHANGED <<setup, on, sent, content>>
    BY DEF Relay, downstream, loop
  <1> QED
    BY <1>1, <1>3, <1>4, <1>5, <1>6, <1>7

\* A relay loses no error.
LEMMA RelayFailed ==
    ASSUME StreamTypeInv, NEW c \in {"body", "chain"}, Relay(c)
    PROVE  /\ Failed(c) => Failed(c)'
           /\ Failed(Up(c)) => Failed(c)' \/ Failed(Up(c))'
           /\ \A d \in Stage \ {c, Up(c)} : Failed(d)' <=> Failed(d)
  <1>1. /\ Len(q[Up(c)]) \in Nat \ {0} /\ Len(q[c]) \in Nat
        /\ Len(q'[Up(c)]) = Len(q[Up(c)]) - 1
        /\ \A k \in 1..(Len(q[Up(c)]) - 1) : q'[Up(c)][k] = q[Up(c)][k + 1]
        /\ Len(q'[c]) = Len(q[c]) + 1
        /\ q'[c][Len(q[c]) + 1] = q[Up(c)][1]
        /\ \A k \in 1..Len(q[c]) : q'[c][k] = q[c][k]
    <2>1. c \in Stage
      BY DEF Stage
    <2>2. Len(q[c]) \in Nat
      BY <2>1 DEF StreamTypeInv
    <2> QED
      BY <2>2, RelayFacts
  <1>2. Failed(c) => Failed(c)'
    BY <1>1 DEF Failed
  <1>3. ASSUME Failed(Up(c)) PROVE Failed(c)' \/ Failed(Up(c))'
    <2>1. PICK k \in 1..Len(q[Up(c)]) : q[Up(c)][k].t = "err"
      BY <1>3 DEF Failed
    <2>2. CASE k = 1
      <3>1. Len(q[c]) + 1 \in 1..Len(q'[c]) /\ q'[c][Len(q[c]) + 1].t = "err"
        BY <1>1, <2>1, <2>2
      <3> QED
        BY <3>1 DEF Failed
    <2>3. CASE k # 1
      <3>1. k - 1 \in 1..(Len(q[Up(c)]) - 1) /\ (k - 1) + 1 = k
        BY <1>1, <2>1, <2>3
      <3>2. q'[Up(c)][k - 1].t = "err"
        BY <1>1, <2>1, <3>1
      <3> QED
        BY <1>1, <3>1, <3>2 DEF Failed
    <2> QED
      BY <2>2, <2>3
  <1>4. \A d \in Stage \ {c, Up(c)} : Failed(d)' <=> Failed(d)
    BY RelayFacts DEF Failed
  <1> QED
    BY <1>2, <1>3, <1>4

\* A relay moves a chunk on, in its place.
LEMMA RelayPath ==
    ASSUME StreamTypeInv, PathInv, NEW c \in {"body", "chain"}, Relay(c)
    PROVE  PathInv'
  <1>n. PathSizes
    BY PathTypes
  <1> USE <1>n, PathBounds DEF PathSizes
  <1>1. CASE c = "body"
    <2>1. /\ Len(q["read"]) >= 1
          /\ Len(q'["read"]) = Len(q["read"]) - 1
          /\ \A k \in 1..(Len(q["read"]) - 1) : q'["read"][k] = q["read"][k + 1]
          /\ Len(q'["body"]) = Len(q["body"]) + 1
          /\ q'["body"][Len(q["body"]) + 1] = q["read"][1]
          /\ \A k \in 1..Len(q["body"]) : q'["body"][k] = q["body"][k]
          /\ q'["chain"] = q["chain"]
          /\ UNCHANGED <<setup, on, sent, content>>
      BY <1>1, RelayFacts DEF Up, Stage
    <2>2. on["body"]
      BY <1>1 DEF Relay
    <2>3. /\ Failed("body") => Failed("body")'
          /\ Failed("read") => Failed("body")' \/ Failed("read")'
          /\ Failed("chain")' <=> Failed("chain")
      BY <1>1, RelayFailed DEF Up, Stage
    <2>4. OrderInv'
      BY <2>1, <2>2, <2>3 DEF PathInv, OrderInv, Failing
    <2>5. ASSUME ~Failing'
          PROVE  FlowInv'
      <3>1. FlowInv
        BY <2>3, <2>5 DEF PathInv, Failing
      <3>2. AfterChain' = AfterChain
        BY <2>1 DEF AfterChain
      <3>3. AfterBody' = AfterBody + 1
        BY <2>1, <3>2 DEF AfterBody
      <3>4. AfterRead' = AfterRead
        <4>1. AfterRead' = (AfterBody + 1) + (Len(q["read"]) - 1)
          BY <2>1, <3>3 DEF AfterRead
        <4>2. (AfterBody + 1) + (Len(q["read"]) - 1) = AfterBody + Len(q["read"])
          BY <2>1, ShiftOne
        <4> QED
          BY <4>1, <4>2 DEF AfterRead
      <3>5. Filled("body", AfterChain)'
        <4> SUFFICES ASSUME NEW k \in 1..(Len(q["body"]) + 1)
                     PROVE  InPlace(q'["body"][k], AfterChain + k)
          BY <2>1, <3>2 DEF Filled, InPlace
        <4>1. CASE k = Len(q["body"]) + 1
          <5>1. InPlace(q["read"][1], AfterBody + 1)
            BY <2>1, <3>1 DEF FlowInv, Filled
          <5>2. AfterChain + k = AfterBody + 1
            BY <4>1 DEF AfterBody
          <5> QED
            BY <2>1, <4>1, <5>1, <5>2
        <4>2. CASE k # Len(q["body"]) + 1
          <5>1. k \in 1..Len(q["body"])
            BY <4>2
          <5> QED
            BY <2>1, <3>1, <5>1 DEF FlowInv, Filled
        <4> QED
          BY <4>1, <4>2
      <3>6. Filled("read", AfterBody)'
        <4> SUFFICES ASSUME NEW k \in 1..(Len(q["read"]) - 1)
                     PROVE  InPlace(q["read"][k + 1], (AfterBody + 1) + k)
          BY <2>1, <3>3 DEF Filled, InPlace
        <4>1. k + 1 \in 1..Len(q["read"]) /\ (AfterBody + 1) + k = AfterBody + (k + 1)
          OBVIOUS
        <4> QED
          BY <3>1, <4>1 DEF FlowInv, Filled
      <3>7. Filled("chain", Len(content))' /\ \A k \in 1..Len(content') : k <= Len(sent'.last) /\ content'[k] = sent'.last[k]
        BY <2>1, <3>1 DEF FlowInv, Filled, InPlace
      <3> QED
        BY <2>1, <3>1, <3>4, <3>5, <3>6, <3>7 DEF FlowInv
    <2> QED
      BY <2>4, <2>5 DEF PathInv
  <1>2. CASE c = "chain"
    <2>1. /\ Len(q["body"]) >= 1
          /\ Len(q'["body"]) = Len(q["body"]) - 1
          /\ \A k \in 1..(Len(q["body"]) - 1) : q'["body"][k] = q["body"][k + 1]
          /\ Len(q'["chain"]) = Len(q["chain"]) + 1
          /\ q'["chain"][Len(q["chain"]) + 1] = q["body"][1]
          /\ \A k \in 1..Len(q["chain"]) : q'["chain"][k] = q["chain"][k]
          /\ q'["read"] = q["read"]
          /\ UNCHANGED <<setup, on, sent, content>>
      BY <1>2, RelayFacts DEF Up, Stage
    <2>2. on["chain"]
      BY <1>2 DEF Relay
    <2>3. /\ Failed("chain") => Failed("chain")'
          /\ Failed("body") => Failed("chain")' \/ Failed("body")'
          /\ Failed("read")' <=> Failed("read")
      BY <1>2, RelayFailed DEF Up, Stage
    <2>4. OrderInv'
      BY <2>1, <2>2, <2>3 DEF PathInv, OrderInv, Failing
    <2>5. ASSUME ~Failing'
          PROVE  FlowInv'
      <3>1. FlowInv
        BY <2>3, <2>5 DEF PathInv, Failing
      <3>2. AfterChain' = AfterChain + 1
        BY <2>1 DEF AfterChain
      <3>3. AfterBody' = AfterBody
        BY <2>1, <3>2 DEF AfterBody
      <3>4. AfterRead' = AfterRead
        BY <2>1, <3>3 DEF AfterRead
      <3>5. Filled("chain", Len(content))'
        <4> SUFFICES ASSUME NEW k \in 1..(Len(q["chain"]) + 1)
                     PROVE  InPlace(q'["chain"][k], Len(content) + k)
          BY <2>1 DEF Filled, InPlace
        <4>1. CASE k = Len(q["chain"]) + 1
          <5>1. InPlace(q["body"][1], AfterChain + 1)
            BY <2>1, <3>1 DEF FlowInv, Filled
          <5>2. Len(content) + k = AfterChain + 1
            BY <4>1 DEF AfterChain
          <5> QED
            BY <2>1, <4>1, <5>1, <5>2
        <4>2. CASE k # Len(q["chain"]) + 1
          <5>1. k \in 1..Len(q["chain"])
            BY <4>2
          <5> QED
            BY <2>1, <3>1, <5>1 DEF FlowInv, Filled
        <4> QED
          BY <4>1, <4>2
      <3>6. Filled("body", AfterChain)'
        <4> SUFFICES ASSUME NEW k \in 1..(Len(q["body"]) - 1)
                     PROVE  InPlace(q["body"][k + 1], (AfterChain + 1) + k)
          BY <2>1, <3>2 DEF Filled, InPlace
        <4>1. k + 1 \in 1..Len(q["body"]) /\ (AfterChain + 1) + k = AfterChain + (k + 1)
          OBVIOUS
        <4> QED
          BY <3>1, <4>1 DEF FlowInv, Filled
      <3>7. Filled("read", AfterBody)' /\ \A k \in 1..Len(content') : k <= Len(sent'.last) /\ content'[k] = sent'.last[k]
        BY <2>1, <3>1, <3>3 DEF FlowInv, Filled, InPlace
      <3> QED
        BY <2>1, <3>1, <3>4, <3>5, <3>6, <3>7 DEF FlowInv
    <2> QED
      BY <2>4, <2>5 DEF PathInv
  <1> QED
    BY <1>1, <1>2

\* What LoopText and LoopTools take is the first chunk of the last channel.
LEMMA OutletFacts ==
    ASSUME StreamTypeInv, PathInv, q[Outlet] # <<>>, Take
    PROVE  \/ /\ Outlet = "chain" /\ setup.chained
              /\ First = q["chain"][1] /\ Len(q["chain"]) >= 1
              /\ Len(q'["chain"]) = Len(q["chain"]) - 1
              /\ \A k \in 1..(Len(q["chain"]) - 1) : q'["chain"][k] = q["chain"][k + 1]
              /\ q'["body"] = q["body"] /\ q'["read"] = q["read"]
           \/ /\ Outlet = "body" /\ ~setup.chained
              /\ First = q["body"][1] /\ Len(q["body"]) >= 1
              /\ Len(q'["body"]) = Len(q["body"]) - 1
              /\ \A k \in 1..(Len(q["body"]) - 1) : q'["body"][k] = q["body"][k + 1]
              /\ q'["chain"] = q["chain"] /\ q'["read"] = q["read"]
              /\ Len(q["chain"]) = 0
  <1>1. CASE setup.chained
    BY <1>1, TakeFacts DEF Outlet, Take, First, Stage
  <1>2. CASE ~setup.chained
    <2>1. Len(q["chain"]) = 0
      BY <1>2 DEF PathInv, OrderInv
    <2>2. Outlet = "body" /\ q["body"] # <<>> /\ q' = [q EXCEPT !["body"] = Tail(@)]
      BY <1>2 DEF Outlet, Take
    <2>3. /\ Head(q["body"]) = q["body"][1]
          /\ Len(q["body"]) \in Nat \ {0}
          /\ Len(q'["body"]) = Len(q["body"]) - 1
          /\ \A k \in 1..(Len(q["body"]) - 1) : q'["body"][k] = q["body"][k + 1]
          /\ q'["chain"] = q["chain"] /\ q'["read"] = q["read"]
      BY <2>2, TakeFacts DEF Stage
    <2> QED
      BY <1>2, <2>1, <2>2, <2>3 DEF First
  <1> QED
    BY <1>1, <1>2

\* An error the loop has not taken stays in the path.
LEMMA OutletFailed ==
    ASSUME StreamTypeInv, q[Outlet] # <<>>, Take, First.t # "err"
    PROVE  /\ Failed("read") => Failed("read")'
           /\ Failed("body") => Failed("body")'
           /\ Failed("chain") => Failed("chain")'
  <1>1. CASE setup.chained
    BY <1>1, TakeFacts DEF Outlet, Take, First, Stage
  <1>2. CASE ~setup.chained
    BY <1>2, TakeFacts DEF Outlet, Take, First, Stage
  <1> QED
    BY <1>1, <1>2

\* The loop takes a piece of text.
LEMMA LoopTextPath ==
    ASSUME StreamTypeInv, PathInv, q[Outlet] # <<>>, Take, First.t = "text",
           UNCHANGED <<setup, on, sent>>, content' = Append(content, First.n)
    PROVE  PathInv'
  <1>n. PathSizes
    BY PathTypes
  <1> USE <1>n, PathBounds DEF PathSizes
  <1>1. /\ Failed("read") => Failed("read")'
        /\ Failed("body") => Failed("body")'
        /\ Failed("chain") => Failed("chain")'
    BY OutletFailed
  <1>2. First \in Chunks
    BY OutletStage, TakeType DEF First, StreamTypeInv
  <1>3. /\ Len(content') = Len(content) + 1
        /\ content'[Len(content) + 1] = First.n
        /\ \A k \in 1..Len(content) : content'[k] = content[k]
    BY <1>2 DEF StreamTypeInv, Chunks
  <1>4. OrderInv'
    <2>1. q["body"] = <<>> => q'["body"] = <<>>
      <3>1. CASE setup.chained
        BY <3>1, OutletFacts
      <3>2. CASE ~setup.chained
        BY <3>2 DEF Outlet
      <3> QED
        BY <3>1, <3>2
    <2>2. q["read"] = q'["read"] /\ (~setup.chained => q'["chain"] = q["chain"])
      BY OutletFacts
    <2> QED
      BY <1>1, <2>1, <2>2 DEF PathInv, OrderInv, Failing
  <1>5. ASSUME ~Failing'
        PROVE  FlowInv'
    <2>1. FlowInv
      BY <1>1, <1>5 DEF PathInv, Failing
    <2>2. InPlace(First, Len(content) + 1)
      <3>1. CASE setup.chained
        <4>1. First = q["chain"][1] /\ 1 \in 1..Len(q["chain"])
          BY <3>1, OutletFacts
        <4> QED
          BY <2>1, <4>1 DEF FlowInv, Filled
      <3>2. CASE ~setup.chained
        <4>1. First = q["body"][1] /\ 1 \in 1..Len(q["body"]) /\ Len(q["chain"]) = 0
          BY <3>2, OutletFacts
        <4>2. AfterChain = Len(content)
          BY <4>1 DEF AfterChain
        <4> QED
          BY <2>1, <4>1, <4>2 DEF FlowInv, Filled
      <3> QED
        BY <3>1, <3>2
    <2>3. Len(content) + 1 <= Len(sent.last) /\ First.n = sent.last[Len(content) + 1]
      BY <2>2 DEF InPlace, Chunk
    <2>4. \A k \in 1..Len(content') : k <= Len(sent'.last) /\ content'[k] = sent'.last[k]
      <3> SUFFICES ASSUME NEW k \in 1..(Len(content) + 1)
                   PROVE  k <= Len(sent.last) /\ content'[k] = sent.last[k]
        BY <1>3
      <3>1. CASE k = Len(content) + 1
        BY <1>3, <2>3, <3>1
      <3>2. CASE k # Len(content) + 1
        <4>1. k \in 1..Len(content)
          BY <3>2
        <4> QED
          BY <1>3, <2>1, <4>1 DEF FlowInv
      <3> QED
        BY <3>1, <3>2
    <2>5. CASE setup.chained
      <3>1. /\ Len(q["chain"]) >= 1
            /\ Len(q'["chain"]) = Len(q["chain"]) - 1
            /\ \A k \in 1..(Len(q["chain"]) - 1) : q'["chain"][k] = q["chain"][k + 1]
            /\ q'["body"] = q["body"] /\ q'["read"] = q["read"]
        BY <2>5, OutletFacts
      <3>2. AfterChain' = AfterChain
        <4>1. AfterChain' = (Len(content) + 1) + (Len(q["chain"]) - 1)
          BY <1>3, <3>1 DEF AfterChain
        <4>2. (Len(content) + 1) + (Len(q["chain"]) - 1) = Len(content) + Len(q["chain"])
          BY <3>1, ShiftOne
        <4> QED
          BY <4>1, <4>2 DEF AfterChain
      <3>3. AfterBody' = AfterBody
        BY <3>1, <3>2 DEF AfterBody
      <3>4. AfterRead' = AfterRead
        BY <3>1, <3>3 DEF AfterRead
      <3>5. Filled("chain", Len(content))'
        <4> SUFFICES ASSUME NEW k \in 1..(Len(q["chain"]) - 1)
                     PROVE  InPlace(q["chain"][k + 1], (Len(content) + 1) + k)
          BY <1>3, <3>1 DEF Filled, InPlace
        <4>1. k + 1 \in 1..Len(q["chain"]) /\ (Len(content) + 1) + k = Len(content) + (k + 1)
          OBVIOUS
        <4> QED
          BY <2>1, <4>1 DEF FlowInv, Filled
      <3>6. Filled("body", AfterChain)' /\ Filled("read", AfterBody)'
        BY <2>1, <3>1, <3>2, <3>3 DEF FlowInv, Filled, InPlace
      <3> QED
        BY <2>1, <2>4, <3>4, <3>5, <3>6 DEF FlowInv
    <2>6. CASE ~setup.chained
      <3>1. /\ Len(q["body"]) >= 1
            /\ Len(q'["body"]) = Len(q["body"]) - 1
            /\ \A k \in 1..(Len(q["body"]) - 1) : q'["body"][k] = q["body"][k + 1]
            /\ q'["chain"] = q["chain"] /\ q'["read"] = q["read"]
            /\ Len(q["chain"]) = 0
        BY <2>6, OutletFacts
      <3>2. AfterChain' = AfterChain + 1
        BY <1>3, <3>1 DEF AfterChain
      <3>3. AfterBody' = AfterBody
        <4>1. AfterBody' = (AfterChain + 1) + (Len(q["body"]) - 1)
          BY <3>1, <3>2 DEF AfterBody
        <4>2. (AfterChain + 1) + (Len(q["body"]) - 1) = AfterChain + Len(q["body"])
          BY <3>1, ShiftOne
        <4> QED
          BY <4>1, <4>2 DEF AfterBody
      <3>4. AfterRead' = AfterRead
        BY <3>1, <3>3 DEF AfterRead
      <3>5. Filled("body", AfterChain)'
        <4> SUFFICES ASSUME NEW k \in 1..(Len(q["body"]) - 1)
                     PROVE  InPlace(q["body"][k + 1], (AfterChain + 1) + k)
          BY <3>1, <3>2 DEF Filled, InPlace
        <4>1. k + 1 \in 1..Len(q["body"]) /\ (AfterChain + 1) + k = AfterChain + (k + 1)
          OBVIOUS
        <4> QED
          BY <2>1, <4>1 DEF FlowInv, Filled
      <3>6. Filled("chain", Len(content))' /\ Filled("read", AfterBody)'
        BY <2>1, <3>1, <3>3 DEF FlowInv, Filled, InPlace
      <3> QED
        BY <2>1, <2>4, <3>4, <3>5, <3>6 DEF FlowInv
    <2> QED
      BY <2>5, <2>6
  <1> QED
    BY <1>4, <1>5 DEF PathInv

\* The loop takes the tool calls: nothing follows them.
LEMMA LoopToolsPath ==
    ASSUME StreamTypeInv, PathInv, q[Outlet] # <<>>, Take, First.t = "tools",
           UNCHANGED <<setup, on, sent, content>>
    PROVE  PathInv'
  <1>n. PathSizes
    BY PathTypes
  <1> USE <1>n, PathBounds DEF PathSizes
  <1>1. /\ Failed("read") => Failed("read")'
        /\ Failed("body") => Failed("body")'
        /\ Failed("chain") => Failed("chain")'
    BY OutletFailed
  <1>2. OrderInv'
    <2>1. q["body"] = <<>> => q'["body"] = <<>>
      <3>1. CASE setup.chained
        BY <3>1, OutletFacts
      <3>2. CASE ~setup.chained
        BY <3>2 DEF Outlet
      <3> QED
        BY <3>1, <3>2
    <2>2. q["read"] = q'["read"] /\ (~setup.chained => q'["chain"] = q["chain"])
      BY OutletFacts
    <2> QED
      BY <1>1, <2>1, <2>2 DEF PathInv, OrderInv, Failing
  <1>3. ASSUME ~Failing'
        PROVE  FlowInv'
    <2>1. FlowInv
      BY <1>1, <1>3 DEF PathInv, Failing
    <2>2. AfterRead <= Len(sent.last) + 1
      BY <2>1 DEF FlowInv
    <2>3. CASE setup.chained
      <3>1. /\ First = q["chain"][1] /\ Len(q["chain"]) >= 1
            /\ Len(q'["chain"]) = Len(q["chain"]) - 1
            /\ q'["body"] = q["body"] /\ q'["read"] = q["read"]
        BY <2>3, OutletFacts
      <3>2. InPlace(First, Len(content) + 1)
        BY <2>1, <3>1 DEF FlowInv, Filled
      <3>3. Len(content) + 1 > Len(sent.last)
        BY <3>2 DEF InPlace, Chunk
      <3>4. Len(q["chain"]) = 1 /\ AfterRead = Len(content) + 1 /\ Len(sent.last) = Len(content)
        BY <2>2, <3>1, <3>3, LastOne
      <3>5. AfterChain >= Len(content) + 1
        BY <3>1 DEF AfterChain
      <3>6. Len(q["body"]) = 0
        BY <3>4, <3>5
      <3>7. AfterBody >= AfterChain
        BY DEF AfterBody
      <3>8. Len(q["read"]) = 0
        BY <3>4, <3>5, <3>7
      <3>9. Len(q'["chain"]) = 0 /\ Len(q'["body"]) = 0 /\ Len(q'["read"]) = 0
        BY <3>1, <3>4, <3>6, <3>8
      <3>10. AfterChain' = Len(content)
        BY <3>9 DEF AfterChain
      <3>11. AfterBody' = Len(content)
        BY <3>9, <3>10 DEF AfterBody
      <3>12. AfterRead' = Len(content)
        BY <3>9, <3>11 DEF AfterRead
      <3> QED
        BY <2>1, <3>4, <3>9, <3>12 DEF FlowInv, Filled
    <2>4. CASE ~setup.chained
      <3>1. /\ First = q["body"][1] /\ Len(q["body"]) >= 1
            /\ Len(q'["body"]) = Len(q["body"]) - 1
            /\ q'["chain"] = q["chain"] /\ q'["read"] = q["read"]
            /\ Len(q["chain"]) = 0
        BY <2>4, OutletFacts
      <3>2. AfterChain = Len(content)
        BY <3>1 DEF AfterChain
      <3>3. InPlace(First, Len(content) + 1)
        BY <2>1, <3>1, <3>2 DEF FlowInv, Filled
      <3>4. Len(content) + 1 > Len(sent.last)
        BY <3>3 DEF InPlace, Chunk
      <3>5. Len(content) + Len(q["body"]) <= AfterRead
        BY <3>2
      <3>6. Len(q["body"]) = 1 /\ AfterRead = Len(content) + 1 /\ Len(sent.last) = Len(content)
        <4> HIDE <1>n, PathBounds DEF PathSizes
        <4>1. /\ Len(content) \in Nat /\ Len(q["body"]) \in Nat
              /\ AfterRead \in Nat /\ Len(sent.last) \in Nat
          BY <1>n DEF PathSizes
        <4> QED
          BY <2>2, <3>1, <3>4, <3>5, <4>1, LastOne
      <3>7. AfterBody >= Len(content) + 1
        BY <3>1, <3>2 DEF AfterBody
      <3>8. Len(q["read"]) = 0
        BY <3>6, <3>7
      <3>9. Len(q'["chain"]) = 0 /\ Len(q'["body"]) = 0 /\ Len(q'["read"]) = 0
        BY <3>1, <3>6, <3>8
      <3>10. AfterChain' = Len(content)
        BY <3>9 DEF AfterChain
      <3>11. AfterBody' = Len(content)
        BY <3>9, <3>10 DEF AfterBody
      <3>12. AfterRead' = Len(content)
        BY <3>9, <3>11 DEF AfterRead
      <3> QED
        BY <2>1, <3>6, <3>9, <3>12 DEF FlowInv, Filled
    <2> QED
      BY <2>3, <2>4
  <1> QED
    BY <1>2, <1>3 DEF PathInv

\* A relay ends: its channel is closed, and so is the one above it.
LEMMA RelayEndsPath ==
    ASSUME StreamTypeInv, PathInv, NEW c \in {"body", "chain"}, RelayEnds(c)
    PROVE  PathInv'
  <1>1. /\ UNCHANGED <<setup, q, sent, content>>
        /\ on[c] /\ ~on[Up(c)] /\ q[Up(c)] = <<>>
        /\ on' = [on EXCEPT ![c] = FALSE]
    BY DEF RelayEnds, downstream, loop
  <1>2. on'["read"] = on["read"]
    BY <1>1 DEF StreamTypeInv, Stage
  <1>3. FlowInv => FlowInv'
    BY <1>1, <1>2 DEF FlowInv, Filled, InPlace, AfterChain, AfterBody, AfterRead
  <1>4. Failing' <=> Failing
    BY <1>1 DEF Failing, Failed
  <1>5. CASE c = "body"
    <2>1. /\ ~on["read"] /\ q["read"] = <<>> /\ on["body"]
          /\ ~on'["body"] /\ on'["chain"] = on["chain"]
      BY <1>1, <1>5 DEF StreamTypeInv, Stage, Up
    <2> QED
      BY <1>1, <1>2, <1>3, <1>4, <2>1 DEF PathInv, OrderInv
  <1>6. CASE c = "chain"
    <2>1. /\ ~on["body"] /\ q["body"] = <<>> /\ on["chain"]
          /\ ~on'["chain"] /\ on'["body"] = on["body"]
      BY <1>1, <1>6 DEF StreamTypeInv, Stage, Up
    <2>2. Failed("body")' = Failed("body") /\ Failed("chain")' = Failed("chain")
      BY <1>1 DEF Failed
    <2> QED
      BY <1>1, <1>2, <1>3, <1>4, <2>1, <2>2 DEF PathInv, OrderInv
  <1> QED
    BY <1>5, <1>6

\* The relay of the websocket leaves the error and gives up.
LEMMA RelayCancelledPath ==
    ASSUME StreamTypeInv, PathInv, RelayCancelled, "cut" \notin ghost'
    PROVE  PathInv'
  <1> DEFINE x == Chunk("err", 0)
  <1>0. x \in Chunks /\ x.t = "err"
    BY ChunkType DEF Chunk
  <1>1. /\ UNCHANGED <<setup, sent, content>>
        /\ on["body"] /\ q["read"] # <<>>
        /\ on' = [on EXCEPT !["body"] = FALSE]
        /\ q' = [Put("body", x) EXCEPT !["read"] = Tail(@)]
    BY DEF RelayCancelled, Note, downstream, loop
  <1> HIDE DEF x
  <1>2. q'["body"] = Append(q["body"], x) /\ q'["chain"] = q["chain"]
    BY <1>1 DEF StreamTypeInv, Put, Stage
  <1>3. Len(q["body"]) \in Nat /\ Len(q'["body"]) = Len(q["body"]) + 1 /\ q'["body"][Len(q["body"]) + 1] = x
    <2>1. q["body"] \in Seq(Chunks)
      BY DEF StreamTypeInv, Stage
    <2> QED
      BY <1>0, <1>2, <2>1
  <1>4. Failed("body")'
    BY <1>0, <1>3 DEF Failed
  <1>5. on'["read"] = on["read"] /\ on'["chain"] = on["chain"]
    BY <1>1 DEF StreamTypeInv, Stage
  <1> QED
    BY <1>1, <1>2, <1>4, <1>5 DEF PathInv, OrderInv, Failing

\* The stream is closed: everything was read, and it is what the model had finished.
LEMMA ClosedPath ==
    ASSUME StreamTypeInv, PathInv, q[Outlet] = <<>>, ~on[Outlet]
    PROVE  /\ \A c \in Stage : ~on[c] /\ q[c] = <<>>
           /\ sent.ended
           /\ content = sent.last
  <1>1. ~on["chain"] /\ q["chain"] = <<>> /\ ~on["body"] /\ q["body"] = <<>>
    BY DEF PathInv, OrderInv, Outlet
  <1>2. ~Failed("chain") /\ ~Failed("body")
    BY <1>1 DEF Failed
  <1>3. ~on["read"] /\ q["read"] = <<>>
    BY <1>1, <1>2 DEF PathInv, OrderInv
  <1>4. ~Failing
    BY <1>2, <1>3 DEF Failing, Failed
  <1>5. sent.ended /\ FlowInv
    BY <1>3, <1>4 DEF PathInv, OrderInv
  <1>6. Len(content) \in Nat /\ Len(sent.last) \in Nat
    BY PathTypes DEF PathSizes
  <1>7. AfterChain = Len(content)
    BY <1>1, <1>6 DEF AfterChain
  <1>8. AfterBody = Len(content)
    BY <1>1, <1>6, <1>7 DEF AfterBody
  <1>9. AfterRead = Len(content)
    BY <1>3, <1>6, <1>8 DEF AfterRead
  <1>10. Len(content) = Len(sent.last) \/ Len(content) = Len(sent.last) + 1
    BY <1>5, <1>9 DEF FlowInv
  <1>11. Len(content) <= Len(sent.last)
    <2>1. \A k \in 1..Len(content) : k <= Len(sent.last)
      BY <1>5 DEF FlowInv
    <2> QED
      BY <1>6, <2>1
  <1>12. Len(content) = Len(sent.last)
    BY <1>6, <1>10, <1>11
  <1>13. content = sent.last
    BY <1>5, <1>12, SeqEqual DEF FlowInv, StreamTypeInv
  <1> QED
    BY <1>1, <1>3, <1>5, <1>13 DEF Stage

-----------------------------------------------------------------------------
\* Events end with the one that ends the loop, and the pipeline goes on only after it.
TurnInv ==
    /\ \A k \in 1..Len(ev) : k # Len(ev) \/ lp # "off" => ev[k].t \in {"text", "tool"}
    /\ lp # "off" => result = "none" /\ final = None /\ pl = "events"
    /\ pl # "events" => lp = "off" /\ ev = <<>>
    /\ final # None => ev = <<>>
    /\ result = "ok" => pl = "ended"
    /\ pl = "send" => result = "none"
    /\ \A k \in 1..Len(sent.last) : sent.last[k] # 0

LEMMA StreamInitTurn == StreamInit => TurnInv
  BY DEF StreamInit, StartTurn, TurnInv

\* One more event, or none, is there when the loop has gone on or returned.
LEMMA EventAppended ==
    ASSUME StreamTypeInv, TurnInv, lp # "off", NEW x \in Events,
           \/ ev' = ev
           \/ ev' = Append(ev, x) /\ (lp' = "off" \/ x.t \in {"text", "tool"})
    PROVE  \A k \in 1..Len(ev') : k # Len(ev') \/ lp' # "off" => ev'[k].t \in {"text", "tool"}
  <1>1. \A k \in 1..Len(ev) : ev[k].t \in {"text", "tool"}
    BY DEF TurnInv
  <1>2. CASE ev' = ev
    BY <1>1, <1>2
  <1>3. CASE ev' = Append(ev, x) /\ (lp' = "off" \/ x.t \in {"text", "tool"})
    <2>1. ev \in Seq(Events) /\ Len(ev) \in Nat
      BY DEF StreamTypeInv
    <2>2. /\ Len(ev') = Len(ev) + 1
          /\ ev'[Len(ev) + 1] = x
          /\ \A k \in 1..Len(ev) : ev'[k] = ev[k]
      BY <1>3, <2>1, AppendProperties
    <2> QED
      BY <1>1, <1>3, <2>1, <2>2
  <1> QED
    BY <1>2, <1>3

\* Every step keeps TurnInv.
LEMMA StreamNextTurn == StreamTypeInv /\ TurnInv /\ [StreamNext]_streamVars => TurnInv'
  <1> SUFFICES ASSUME StreamTypeInv, TurnInv, [StreamNext]_streamVars
               PROVE  TurnInv'
    OBVIOUS
  <1> USE DEF provider, loop, sender, pipe, outvars, downstream, upstream, around, rest
  <1>0. ASSUME UNCHANGED <<ev, lp, result, final, pl>>, sent'.last = sent.last
        PROVE  TurnInv'
    BY <1>0 DEF TurnInv
  <1>1. ASSUME UNCHANGED <<ev, lp, result, final, pl, sent>>
        PROVE  TurnInv'
    BY <1>1 DEF TurnInv
  <1>2. CASE UNCHANGED streamVars
    BY <1>1, <1>2 DEF streamVars
  <1>3. CASE OuterEnds \/ Timeout
    BY <1>1, <1>3 DEF OuterEnds, Timeout
  <1>4. CASE ReadPiece
    <2>1. UNCHANGED <<ev, lp, result, final, pl>>
      BY <1>4 DEF ReadPiece
    <2>2. sent'.last = Append(sent.last, sent.all + 1)
      BY <1>4, SentUpdates DEF ReadPiece, StreamTypeInv
    <2>3. sent.last \in Seq(Nat) /\ sent.all + 1 \in Nat /\ sent.all + 1 # 0
      BY DEF StreamTypeInv
    <2>4. \A k \in 1..Len(sent'.last) : sent'.last[k] # 0
      <3>1. /\ Len(sent'.last) = Len(sent.last) + 1
            /\ \A k \in 1..Len(sent.last) : sent'.last[k] = sent.last[k]
            /\ sent'.last[Len(sent.last) + 1] = sent.all + 1
        BY <2>2, <2>3, AppendProperties
      <3>2. Len(sent.last) \in Nat
        BY <2>3
      <3>3. \A k \in 1..Len(sent.last) : sent.last[k] # 0
        BY DEF TurnInv
      <3> SUFFICES ASSUME NEW k \in 1..(Len(sent.last) + 1)
                   PROVE  sent'.last[k] # 0
        BY <3>1
      <3>4. CASE k = Len(sent.last) + 1
        BY <2>3, <3>1, <3>4
      <3>5. CASE k # Len(sent.last) + 1
        <4>1. k \in 1..Len(sent.last)
          BY <3>2, <3>5
        <4> QED
          BY <3>1, <3>3, <4>1
      <3> QED
        BY <3>4, <3>5
    <2> QED
      BY <2>1, <2>4 DEF TurnInv
  <1>5. ASSUME NEW calls \in BOOLEAN, ReadDone(calls)
        PROVE  TurnInv'
    <2>1. sent'.last = sent.last
      BY <1>5, SentUpdates DEF ReadDone, StreamTypeInv
    <2>2. UNCHANGED <<ev, lp, result, final, pl>>
      BY <1>5 DEF ReadDone, ReadLast, ReaderExits
    <2> QED
      BY <1>0, <2>1, <2>2
  <1>6. ASSUME NEW calls \in BOOLEAN, ReadEOF(calls)
        PROVE  TurnInv'
    BY <1>1, <1>6 DEF ReadEOF, ReaderExits
  <1>7. CASE ReadError \/ ReadCancelled
    BY <1>1, <1>7 DEF ReadError, ReadCancelled, ReaderExits
  <1>8. ASSUME NEW c \in {"body", "chain"}, Relay(c) \/ RelayEnds(c)
        PROVE  TurnInv'
    BY <1>1, <1>8 DEF Relay, RelayEnds
  <1>9. CASE RelayCancelled
    BY <1>1, <1>9 DEF RelayCancelled
  <1>10. ASSUME lp # "off", UNCHANGED <<result, final, pl>>,
                \A k \in 1..Len(sent'.last) : sent'.last[k] # 0,
                NEW x \in Events,
                \/ ev' = ev
                \/ ev' = Append(ev, x) /\ (lp' = "off" \/ x.t \in {"text", "tool"})
         PROVE  TurnInv'
    BY <1>10, EventAppended DEF TurnInv
  <1>11. CASE LoopTop
    <2>1. /\ lp # "off" /\ lp' = "off" /\ UNCHANGED <<result, final, pl, sent>>
          /\ ev' = ev \/ ev' = Append(ev, Chunk("err", 0))
      BY <1>11 DEF LoopTop, EmitAndReturn, Emit, Abandon, LoopReturns
    <2> QED
      BY <1>10, <2>1, ChunkType DEF TurnInv
  <1>12. CASE OpenStream
    <2>1. lp # "off" /\ UNCHANGED <<result, final, pl, ev>>
      BY <1>12 DEF OpenStream
    <2>2. sent'.last = <<>>
      BY <1>12, SentUpdates DEF OpenStream, StreamTypeInv
    <2> QED
      BY <1>10, <2>1, <2>2, ChunkType
  <1>13. CASE LoopText
    <2>1. /\ lp # "off" /\ UNCHANGED <<result, final, pl, sent>>
          /\ ev' = ev \/ ev' = Append(ev, First)
          /\ First.t = "text"
      BY <1>13 DEF LoopText, Emit, Abandon, LoopReturns
    <2>2. First \in Events
      <3>1. First \in Chunks
        BY <1>13, OutletStage, TakeType DEF LoopText, First, StreamTypeInv
      <3> QED
        BY <2>1, <3>1 DEF Chunks, Events
    <2> QED
      BY <1>10, <2>1, <2>2 DEF TurnInv
  <1>14. CASE LoopTools \/ LoopError
    <2>1. lp # "off" /\ UNCHANGED <<result, final, pl, sent, ev>>
      BY <1>14 DEF LoopTools, LoopError
    <2> QED
      BY <1>10, <2>1, ChunkType DEF TurnInv
  <1>15. CASE Drain
    <2>1. /\ lp # "off" /\ UNCHANGED <<result, final, pl, sent>>
          /\ ev' = ev \/ (ev' = Append(ev, Chunk("err", 0)) /\ lp' = "off")
      BY <1>15 DEF Drain, EmitAndReturn, Emit, Abandon, LoopReturns
    <2> QED
      BY <1>10, <2>1, ChunkType DEF TurnInv
  <1>16. CASE LoopClosed
    <2>1. /\ lp # "off" /\ UNCHANGED <<result, final, pl, sent>>
          /\ \/ ev' = ev
             \/ ev' = Append(ev, Chunk("err", 0)) /\ lp' = "off"
             \/ ev' = Append(ev, [t |-> "done", n |-> content]) /\ lp' = "off"
             \/ ev' = Append(ev, Chunk("tool", 0))
      BY <1>16 DEF LoopClosed, EmitAndReturn, Emit, Abandon, LoopReturns
    <2>2. [t |-> "done", n |-> content] \in Events
      BY DEF StreamTypeInv, Events
    <2>3. Chunk("tool", 0).t = "tool"
      BY DEF Chunk
    <2> QED
      BY <1>10, <2>1, <2>2, <2>3, ChunkType DEF TurnInv
  <1>17. CASE PipeEvent
    <2>1. /\ pl = "events" /\ ev # <<>> /\ ev' = Tail(ev)
          /\ UNCHANGED <<pl, lp, sent>>
          /\ final' = IF Head(ev).t = "done" THEN Head(ev).n ELSE final
          /\ result' = IF Head(ev).t = "err" THEN "error" ELSE result
      BY <1>17 DEF PipeEvent
    <2>2. ev \in Seq(Events) /\ Len(ev) \in Nat \ {0} /\ Head(ev) = ev[1]
      BY <2>1, EmptySeq DEF StreamTypeInv
    <2>3. /\ Len(ev') = Len(ev) - 1
          /\ \A k \in 1..Len(ev') : ev'[k] = ev[k + 1]
      BY <2>1, <2>2, HeadTailProperties
    <2>4. \A k \in 1..Len(ev') : k # Len(ev') \/ lp' # "off" => ev'[k].t \in {"text", "tool"}
      <3> SUFFICES ASSUME NEW k \in 1..Len(ev'), k # Len(ev') \/ lp # "off"
                   PROVE  ev[k + 1].t \in {"text", "tool"}
        BY <2>1, <2>3
      <3>1. k + 1 \in 1..Len(ev) /\ (k + 1 # Len(ev) \/ lp # "off")
        BY <2>2, <2>3
      <3> QED
        BY <3>1 DEF TurnInv
    <2>5. lp # "off" => Head(ev).t \in {"text", "tool"}
      BY <2>2 DEF TurnInv
    <2>6. final' # None => ev' = <<>>
      <3>1. final = None
        BY <2>1 DEF TurnInv
      <3>2. ASSUME Head(ev).t = "done" PROVE ev' = <<>>
        <4>1. 1 \in 1..Len(ev)
          BY <2>2
        <4>2. Len(ev) = 1
          BY <2>2, <3>2, <4>1 DEF TurnInv
        <4> QED
          BY <2>1, <2>2, <4>2
      <3> QED
        BY <2>1, <3>1, <3>2
    <2> QED
      BY <2>1, <2>4, <2>5, <2>6 DEF TurnInv
  <1>18. CASE PipeClose \/ PipeEnds \/ PipeSends \/ PipeSending
    BY <1>18 DEF PipeClose, PipeEnds, PipeSends, PipeSending, TurnInv
  <1>19. CASE SendRefused \/ SendPlaceholder
    BY <1>1, <1>19 DEF SendRefused, SendPlaceholder
  <1>20. CASE SendChunk \/ SendTick
    BY <1>1, <1>20 DEF SendChunk, SendTick
  <1>21. CASE SendClosed \/ SendCancelled
    BY <1>1, <1>21 DEF SendClosed, SendCancelled
  <1> QED
    BY <1>2, <1>3, <1>4, <1>5, <1>6, <1>7, <1>8, <1>9, <1>11, <1>12, <1>13, <1>14, <1>15,
       <1>16, <1>17, <1>18, <1>19, <1>20, <1>21
       DEF StreamNext, Reader, LoopStep, PipeStep, SendStep

-----------------------------------------------------------------------------
\* Nobody gave up without a word, and the body did not end without [DONE].
Clean == ghost \cap {"eof", "cut"} = {}

\* The final event is all the text of a completion the model had finished; an
\* answer that was not streamed has none.
Answered ==
    /\ sent.ended /\ ~on["read"]
    /\ \/ /\ pl = "events" /\ ev # <<>> /\ final = None
          /\ ev[Len(ev)] = [t |-> "done", n |-> sent.last]
       \/ final = sent.last
       \/ final = None /\ sent.last = <<>> /\ pl # "events"

\* The turn has failed, or will when the pipeline comes to the error event.
Errored == result = "error" \/ \E k \in 1..Len(ev) : ev[k].t = "err"

RecordInv ==
    Clean =>
        /\ lp = "top" => \A c \in Stage : ~on[c] /\ q[c] = <<>>
        /\ lp = "read" => PathInv
        /\ lp = "off" => Errored \/ Answered

LEMMA StreamInitRecord == StreamInit => RecordInv
  BY DEF StreamInit, StartTurn, RecordInv, Answered, Stage

\* A step of the provider's goroutines.
LEMMA ProviderRecord ==
    ASSUME StreamTypeInv, RecordInv, UNCHANGED <<lp, ev, pl, final, result>>,
           ghost \subseteq ghost',
           \E c \in Stage : on[c],
           on["read"] \/ (on'["read"] = on["read"] /\ sent' = sent),
           lp = "read" /\ Clean' /\ PathInv => PathInv'
    PROVE  RecordInv'
  <1> SUFFICES ASSUME Clean'
               PROVE  /\ lp = "top" => FALSE
                      /\ lp = "read" => PathInv'
                      /\ lp = "off" => Errored' \/ Answered'
    BY DEF RecordInv
  <1>1. Clean
    BY DEF Clean
  <1>2. lp = "off" /\ Errored => Errored'
    BY DEF Errored
  <1>3. lp = "off" /\ Answered => Answered'
    BY DEF Answered
  <1> QED
    BY <1>1, <1>2, <1>3 DEF RecordInv

\* A step that only adds to the caveats, or to what SendStream does.
LEMMA OtherRecord ==
    ASSUME RecordInv, UNCHANGED <<lp, ev, pl, final, result, on, q, sent, content>>,
           setup'.chained = setup.chained, ghost \subseteq ghost'
    PROVE  RecordInv'
  <1>1. Clean' => Clean
    BY DEF Clean
  <1>2. PathInv => PathInv'
    BY DEF PathInv, OrderInv, FlowInv, Failing, Failed, Filled, InPlace, AfterChain, AfterBody, AfterRead
  <1>3. Errored => Errored'
    BY DEF Errored
  <1>4. Answered => Answered'
    BY DEF Answered
  <1> QED
    BY <1>1, <1>2, <1>3, <1>4 DEF RecordInv

\* An error event in the channel is an error.
LEMMA ErrorEmitted ==
    ASSUME StreamTypeInv, ev' = Append(ev, Chunk("err", 0))
    PROVE  Errored'
  <1>1. ev \in Seq(Events) /\ Chunk("err", 0) \in Events /\ Chunk("err", 0).t = "err"
    BY ChunkType DEF StreamTypeInv, Chunk
  <1>2. Len(ev') = Len(ev) + 1 /\ ev'[Len(ev) + 1] = Chunk("err", 0) /\ Len(ev) \in Nat
    BY <1>1, AppendProperties
  <1> QED
    BY <1>1, <1>2 DEF Errored

\* A new completion begins with an empty path.
LEMMA OpenStreamRecord ==
    ASSUME StreamTypeInv, RecordInv, OpenStream
    PROVE  RecordInv'
  <1> SUFFICES ASSUME Clean PROVE PathInv'
    BY DEF OpenStream, RecordInv, Clean
  <1>1. \A c \in Stage : q[c] = <<>>
    BY DEF RecordInv, OpenStream
  <1>2. /\ on' = [c \in Stage |-> c # "chain" \/ setup.chained]
        /\ content' = <<>>
        /\ UNCHANGED <<setup, q>>
    BY DEF OpenStream
  <1>3. sent'.last = <<>>
    BY SentUpdates DEF OpenStream, StreamTypeInv
  <1>4. q'["read"] = <<>> /\ q'["body"] = <<>> /\ q'["chain"] = <<>>
    BY <1>1, <1>2 DEF Stage
  <1>5. on'["read"] /\ on'["body"] /\ (on'["chain"] <=> setup.chained)
    BY <1>2 DEF Stage
  <1>6. OrderInv'
    BY <1>2, <1>4, <1>5 DEF OrderInv
  <1>7. AfterChain' = 0
    BY <1>2, <1>4 DEF AfterChain
  <1>8. AfterBody' = 0
    BY <1>4, <1>7 DEF AfterBody
  <1>9. AfterRead' = 0
    BY <1>4, <1>8 DEF AfterRead
  <1>10. FlowInv'
    BY <1>2, <1>3, <1>4, <1>9 DEF FlowInv, Filled
  <1> QED
    BY <1>6, <1>10 DEF PathInv

\* The loop finds its stream closed: the completion is all in its content.
LEMMA LoopClosedRecord ==
    ASSUME StreamTypeInv, TurnInv, RecordInv, LoopClosed
    PROVE  RecordInv'
  <1> SUFFICES ASSUME Clean'
               PROVE  /\ lp' = "top" => \A c \in Stage : ~on'[c] /\ q'[c] = <<>>
                      /\ lp' # "read"
                      /\ lp' = "off" => Errored' \/ Answered'
    BY DEF RecordInv
  <1>1. /\ lp = "read" /\ q[Outlet] = <<>> /\ ~on[Outlet]
        /\ UNCHANGED <<on, q, sent, pl, final>>
        /\ \/ ev' = Append(ev, Chunk("err", 0)) /\ lp' = "off"
           \/ ev' = Append(ev, [t |-> "done", n |-> content]) /\ lp' = "off" /\ UNCHANGED ghost
           \/ lp' = "top" /\ UNCHANGED ghost
           \/ "cut" \in ghost'
    BY DEF LoopClosed, EmitAndReturn, Emit, Abandon, LoopReturns, Note, upstream, provider, pipe
  <1>2. "cut" \notin ghost'
    BY DEF Clean
  <1>3. ASSUME UNCHANGED ghost
        PROVE  /\ \A c \in Stage : ~on[c] /\ q[c] = <<>>
               /\ sent.ended
               /\ content = sent.last
    BY <1>1, <1>3, ClosedPath DEF RecordInv, Clean
  <1>4. CASE ev' = Append(ev, Chunk("err", 0)) /\ lp' = "off"
    BY <1>4, ErrorEmitted
  <1>5. CASE ev' = Append(ev, [t |-> "done", n |-> content]) /\ lp' = "off" /\ UNCHANGED ghost
    <2> DEFINE x == [t |-> "done", n |-> content]
    <2>1. x \in Events /\ ev \in Seq(Events)
      BY DEF StreamTypeInv, Events
    <2> HIDE DEF x
    <2>2. Len(ev') = Len(ev) + 1 /\ ev'[Len(ev) + 1] = x /\ ev' # <<>>
      BY <1>5, <2>1, AppendProperties DEF x
    <2>3. ev'[Len(ev')] = [t |-> "done", n |-> sent.last]
      BY <1>3, <1>5, <2>2 DEF x
    <2>4. pl = "events" /\ final = None
      BY <1>1 DEF TurnInv
    <2> QED
      BY <1>1, <1>3, <1>5, <2>2, <2>3, <2>4 DEF Answered, Stage
  <1>6. CASE lp' = "top" /\ UNCHANGED ghost
    BY <1>1, <1>3, <1>6
  <1> QED
    BY <1>1, <1>2, <1>4, <1>5, <1>6

\* The pipeline takes an event: errors and the answer are not lost.
LEMMA PipeEventRecord ==
    ASSUME StreamTypeInv, TurnInv, RecordInv, PipeEvent
    PROVE  RecordInv'
  <1>1. /\ pl = "events" /\ ev # <<>> /\ ev' = Tail(ev)
        /\ UNCHANGED <<setup, pl, lp, sent, on, q, content>>
        /\ final' = IF Head(ev).t = "done" THEN Head(ev).n ELSE final
        /\ result' = IF Head(ev).t = "err" THEN "error" ELSE result
        /\ ghost \subseteq ghost'
    BY DEF PipeEvent, around, provider, loop
  <1>2. ev \in Seq(Events) /\ Len(ev) \in Nat \ {0} /\ Head(ev) = ev[1]
    BY <1>1, EmptySeq DEF StreamTypeInv
  <1>3. /\ Len(ev') = Len(ev) - 1
        /\ \A k \in 1..Len(ev') : ev'[k] = ev[k + 1]
    BY <1>1, <1>2, HeadTailProperties
  <1>4. Clean' => Clean
    BY <1>1 DEF Clean
  <1>5. PathInv => PathInv'
    BY <1>1 DEF PathInv, OrderInv, FlowInv, Failing, Failed, Filled, InPlace, AfterChain, AfterBody, AfterRead
  <1>6. ASSUME Errored PROVE Errored'
    <2>1. CASE result = "error"
      BY <1>1, <2>1 DEF Errored
    <2>2. CASE \E k \in 1..Len(ev) : ev[k].t = "err"
      <3>1. PICK k \in 1..Len(ev) : ev[k].t = "err"
        BY <2>2
      <3>2. CASE k = 1
        BY <1>1, <1>2, <3>1, <3>2 DEF Errored
      <3>3. CASE k # 1
        <4>1. k - 1 \in 1..Len(ev') /\ (k - 1) + 1 = k
          BY <1>2, <1>3, <3>3
        <4>2. ev'[k - 1].t = "err"
          BY <1>3, <3>1, <4>1
        <4> QED
          BY <4>1, <4>2 DEF Errored
      <3> QED
        BY <3>2, <3>3
    <2> QED
      BY <1>6, <2>1, <2>2 DEF Errored
  <1>7. ASSUME lp = "off", Answered PROVE Answered'
    <2>0. final = None /\ sent.last # None
      <3>1. final = None
        BY <1>1 DEF TurnInv
      <3>2. ASSUME sent.last = None PROVE FALSE
        <4>1. Len(sent.last) = 1 /\ sent.last[1] = 0
          BY <3>2 DEF None
        <4> QED
          BY <4>1 DEF TurnInv
      <3> QED
        BY <3>1, <3>2
    <2>1. CASE Len(ev) = 1
      BY <1>1, <1>2, <1>7, <2>0, <2>1 DEF Answered
    <2>2. CASE Len(ev) # 1
      <3>0. 1 \in 1..Len(ev)
        BY <1>2
      <3>1. ev[1].t \in {"text", "tool"} /\ ev[1].t # "done"
        BY <2>2, <3>0 DEF TurnInv
      <3>2. final' = final
        BY <1>1, <1>2, <3>1
      <3>3. Len(ev') \in 1..Len(ev') /\ Len(ev') + 1 = Len(ev)
        BY <1>2, <1>3, <2>2
      <3>4. ev'[Len(ev')] = ev[Len(ev)] /\ ev' # <<>>
        BY <1>3, <3>3
      <3> QED
        BY <1>1, <1>7, <3>2, <3>4 DEF Answered
    <2> QED
      BY <2>1, <2>2
  <1> QED
    BY <1>1, <1>4, <1>5, <1>6, <1>7 DEF RecordInv

\* Every step keeps RecordInv.
LEMMA StreamNextRecord == StreamTypeInv /\ TurnInv /\ RecordInv /\ [StreamNext]_streamVars => RecordInv'
  <1> SUFFICES ASSUME StreamTypeInv, TurnInv, RecordInv, [StreamNext]_streamVars
               PROVE  RecordInv'
    OBVIOUS
  <1> USE DEF provider, loop, sender, pipe, outvars, downstream, upstream, around, rest
  <1>0. "cut" \in ghost' \/ "eof" \in ghost' => RecordInv'
    BY DEF RecordInv, Clean
  <1>1. CASE UNCHANGED streamVars
    BY <1>1, OtherRecord DEF streamVars
  <1>2. CASE OuterEnds \/ Timeout
    BY <1>2, OtherRecord DEF OuterEnds, Timeout
  <1>3. CASE ReadPiece
    <2>1. /\ UNCHANGED <<lp, ev, pl, final, result, ghost>>
          /\ "read" \in Stage /\ on["read"]
      BY <1>3 DEF ReadPiece, Stage
    <2> QED
      BY <1>3, <2>1, ReadPiecePath, ProviderRecord
  <1>4. ASSUME NEW calls \in BOOLEAN, ReadDone(calls)
        PROVE  RecordInv'
    <2>1. /\ UNCHANGED <<lp, ev, pl, final, result>> /\ ghost \subseteq ghost'
          /\ "read" \in Stage /\ on["read"]
      BY <1>4 DEF ReadDone, ReadLast, ReaderExits, Note, Stage
    <2>2. CASE "cut" \in ghost'
      BY <1>0, <2>2
    <2>3. CASE "cut" \notin ghost'
      BY <1>4, <2>1, <2>3, ReadDonePath, ProviderRecord
    <2> QED
      BY <2>2, <2>3
  <1>5. ASSUME NEW calls \in BOOLEAN, ReadEOF(calls)
        PROVE  RecordInv'
    BY <1>0, <1>5 DEF ReadEOF, Note
  <1>6. ASSUME on["read"], UNCHANGED <<sent, ghost>>, ReaderExits(Put("read", Chunk("err", 0)))
        PROVE  RecordInv'
    <2>1. UNCHANGED <<lp, ev, pl, final, result>> /\ "read" \in Stage
      BY <1>6 DEF ReaderExits, Stage
    <2> QED
      BY <1>6, <2>1, ReadErrorPath, ProviderRecord
  <1>7. CASE ReadError
    BY <1>6, <1>7 DEF ReadError
  <1>8. CASE ReadCancelled
    BY <1>0, <1>6, <1>8 DEF ReadCancelled, Note
  <1>9. ASSUME NEW c \in {"body", "chain"}, Relay(c)
        PROVE  RecordInv'
    <2>1. /\ UNCHANGED <<lp, ev, pl, final, result, ghost, on, sent>>
          /\ c \in Stage /\ on[c]
      BY <1>9 DEF Relay, Stage
    <2> QED
      BY <1>9, <2>1, RelayPath, ProviderRecord
  <1>10. ASSUME NEW c \in {"body", "chain"}, RelayEnds(c)
         PROVE  RecordInv'
    <2>1. /\ UNCHANGED <<lp, ev, pl, final, result, ghost, sent>>
          /\ c \in Stage /\ on[c]
      BY <1>10 DEF RelayEnds, Stage
    <2>2. on'["read"] = on["read"]
      BY <1>10 DEF RelayEnds, StreamTypeInv, Stage
    <2> QED
      BY <1>10, <2>1, <2>2, RelayEndsPath, ProviderRecord
  <1>11. CASE RelayCancelled
    <2>1. /\ UNCHANGED <<lp, ev, pl, final, result, sent>> /\ ghost \subseteq ghost'
          /\ "body" \in Stage /\ on["body"]
      BY <1>11 DEF RelayCancelled, Note, Stage
    <2>2. on'["read"] = on["read"]
      BY <1>11 DEF RelayCancelled, StreamTypeInv, Stage
    <2>3. CASE "cut" \in ghost'
      BY <1>0, <2>3
    <2>4. CASE "cut" \notin ghost'
      BY <1>11, <2>1, <2>2, <2>4, RelayCancelledPath, ProviderRecord
    <2> QED
      BY <2>3, <2>4
  <1>12. CASE LoopTop
    <2>1. "cut" \in ghost' \/ (lp' = "off" /\ ev' = Append(ev, Chunk("err", 0)))
      BY <1>12 DEF LoopTop, EmitAndReturn, Emit, Abandon, LoopReturns, Note
    <2> QED
      BY <1>0, <2>1, ErrorEmitted DEF RecordInv
  <1>13. CASE OpenStream
    BY <1>13, OpenStreamRecord
  <1>14. CASE LoopText
    <2>1. CASE "cut" \in ghost'
      BY <1>0, <2>1
    <2>2. CASE "cut" \notin ghost'
      <3>1. /\ lp = "read" /\ lp' = "read" /\ q[Outlet] # <<>> /\ First.t = "text" /\ Take
            /\ UNCHANGED <<setup, on, sent, ghost>> /\ content' = Append(content, First.n)
        BY <1>14, <2>2 DEF LoopText, Emit, Abandon, Note
      <3> QED
        BY <3>1, LoopTextPath DEF RecordInv, Clean
    <2> QED
      BY <2>1, <2>2
  <1>15. CASE LoopTools
    <2>1. /\ lp = "read" /\ lp' = "read" /\ q[Outlet] # <<>> /\ First.t = "tools" /\ Take
          /\ UNCHANGED <<setup, on, sent, content, ghost>>
      BY <1>15 DEF LoopTools
    <2> QED
      BY <2>1, LoopToolsPath DEF RecordInv, Clean
  <1>16. CASE LoopError
    BY <1>16 DEF LoopError, RecordInv
  <1>17. CASE Drain
    <2>1. \/ "cut" \in ghost'
          \/ lp' = "drain"
          \/ lp' = "off" /\ ev' = Append(ev, Chunk("err", 0))
      BY <1>17 DEF Drain, EmitAndReturn, Emit, Abandon, LoopReturns, Note
    <2> QED
      BY <1>0, <2>1, ErrorEmitted DEF RecordInv
  <1>18. CASE LoopClosed
    BY <1>18, LoopClosedRecord
  <1>19. CASE PipeEvent
    BY <1>19, PipeEventRecord
  <1>20. CASE PipeClose \/ PipeEnds \/ PipeSends \/ PipeSending
    <2>1. /\ UNCHANGED <<setup, lp, ev, final, on, q, sent, content>>
          /\ ghost \subseteq ghost'
          /\ lp = "off" /\ ev = <<>> /\ pl' # "events"
          /\ result = "error" => result' = "error"
      BY <1>20 DEF PipeClose, PipeEnds, PipeSends, PipeSending, Note, TurnInv
    <2>2. Clean' => Clean
      BY <2>1 DEF Clean
    <2>3. Errored => Errored'
      BY <2>1 DEF Errored
    <2>4. Answered => Answered'
      BY <2>1 DEF Answered
    <2> QED
      BY <2>1, <2>2, <2>3, <2>4 DEF RecordInv
  <1>21. ASSUME NEW b, Flush(b) \/ NoFlush
         PROVE  setup'.chained = setup.chained
    BY <1>21 DEF Flush, FlushOK, FlushFails, NoFlush, StreamTypeInv
  <1>22. CASE SendRefused \/ SendPlaceholder
    BY <1>22, OtherRecord DEF SendRefused, SendPlaceholder
  <1>23. CASE SendChunk
    <2>1. /\ UNCHANGED <<lp, ev, pl, final, result, on, q, sent, content>>
          /\ ghost \subseteq ghost'
          /\ setup'.chained = setup.chained
      BY <1>21, <1>23 DEF SendChunk, Note
    <2> QED
      BY <2>1, OtherRecord
  <1>24. CASE SendTick \/ SendClosed \/ SendCancelled
    <2>1. /\ UNCHANGED <<lp, ev, pl, final, result, on, q, sent, content>>
          /\ ghost \subseteq ghost'
          /\ setup'.chained = setup.chained
      BY <1>21, <1>24 DEF SendTick, SendClosed, SendCancelled
    <2> QED
      BY <2>1, OtherRecord
  <1> QED
    BY <1>1, <1>2, <1>3, <1>4, <1>5, <1>7, <1>8, <1>9, <1>10, <1>11, <1>12, <1>13, <1>14, <1>15,
       <1>16, <1>17, <1>18, <1>19, <1>20, <1>22, <1>23, <1>24
       DEF StreamNext, Reader, LoopStep, PipeStep, SendStep

\* Facts about suffixes.
LEMMA SuffixOfItself ==
    ASSUME NEW s \in Seq(Nat)
    PROVE  IsSuffix(s, s) /\ IsSuffix(<<>>, s)
  BY DEF IsSuffix, IsPrefix, Reverse

\* The invariants give RecordedWhole.
LEMMA RecordedFromInv == StreamTypeInv /\ TurnInv /\ RecordInv => RecordedWhole
  <1> SUFFICES ASSUME StreamTypeInv, TurnInv, RecordInv, result = "ok", Clean
               PROVE  sent.ended /\ IsSuffix(sent.last, Response)
    BY DEF RecordedWhole, Clean
  <1>1. lp = "off" /\ ev = <<>> /\ result # "error" /\ pl # "events"
    BY DEF TurnInv
  <1>2. ~Errored
    BY <1>1 DEF Errored
  <1>3. sent.ended /\ (final = sent.last \/ (final = None /\ sent.last = <<>>))
    BY <1>1, <1>2 DEF RecordInv, Answered
  <1>4. sent.last # None
    <2>1. ASSUME sent.last = None PROVE FALSE
      <3>1. Len(sent.last) = 1 /\ sent.last[1] = 0
        BY <2>1 DEF None
      <3> QED
        BY <3>1 DEF TurnInv
    <2> QED
      BY <2>1
  <1>5. sent.last \in Seq(Nat) /\ built \in Seq(Nat)
    BY DEF StreamTypeInv
  <1> QED
    BY <1>3, <1>4, <1>5, SuffixOfItself DEF Response

\* RecordedWhole (see there) holds for any capacity of the channels, any number
\* of iterations and pieces, with and without a chain.
THEOREM AnswerRecordedWhole == StreamSpec => []RecordedWhole
  <1> DEFINE Inv == StreamTypeInv /\ TurnInv /\ RecordInv
  <1>1. StreamInit => Inv
    BY StreamInitType, StreamInitTurn, StreamInitRecord
  <1>2. Inv /\ [StreamNext]_streamVars => Inv'
    BY StreamNextType, StreamNextTurn, StreamNextRecord
  <1>3. Inv => RecordedWhole
    BY RecordedFromInv
  <1> QED
    BY <1>1, <1>2, <1>3, PTL DEF StreamSpec

-----------------------------------------------------------------------------
\* Counted from the end, the text c is what the first d events e carry, and
\* before them the end of the text b.
Spoken(c, d, e, b) ==
    /\ Len(c) <= d + Len(b)
    /\ \A i \in 0..(Len(c) - 1) :
         IF i < d THEN e[d - i] = Chunk("text", c[Len(c) - i])
                  ELSE b[(Len(b) + d) - i] = c[Len(c) - i]

\* The content of the completion is in the events under way and, before them,
\* in what the pipeline has built.
SpokenInv ==
    /\ lp \in {"read", "drain"} => Spoken(content, Len(ev), ev, built)
    /\ ev # <<>> /\ ev[Len(ev)].t = "done" =>
         ev[Len(ev)].n = content /\ Spoken(content, Len(ev) - 1, ev, built)
    /\ final # None => final = content /\ Spoken(content, 0, ev, built)

LEMMA StreamInitSpoken == StreamInit => SpokenInv
  BY DEF StreamInit, StartTurn, SpokenInv

LEMMA SpokenTypes ==
    ASSUME StreamTypeInv
    PROVE  Len(content) \in Nat /\ Len(ev) \in Nat /\ Len(built) \in Nat
  BY DEF StreamTypeInv

\* One position back from the end of a text that has grown by one.
LEMMA OneBack ==
    ASSUME NEW c \in Nat, NEW d \in Nat, NEW b \in Nat, NEW i \in 0..c, i # 0
    PROVE  /\ i - 1 \in 0..(c - 1)
           /\ (c + 1) - i = c - (i - 1)
           /\ c - (i - 1) \in 1..c
           /\ (d + 1) - i = d - (i - 1)
           /\ (b + (d + 1)) - i = (b + d) - (i - 1)
           /\ i < d + 1 <=> i - 1 < d
           /\ i - 1 < d => d - (i - 1) \in 1..d
  OBVIOUS

\* The loop passes a piece on as an event and adds it to its content.
LEMMA LoopTextSpoken ==
    ASSUME StreamTypeInv, Spoken(content, Len(ev), ev, built), First \in Chunks, First.t = "text", UNCHANGED built,
           ev' = Append(ev, First), content' = Append(content, First.n)
    PROVE  Spoken(content', Len(ev'), ev', built')
  <1>1. Len(content) \in Nat /\ Len(ev) \in Nat /\ Len(built) \in Nat
    BY SpokenTypes
  <1>2. First = Chunk("text", First.n) /\ First.n \in Nat /\ First \in Events
    BY DEF Chunks, Chunk, Events
  <1>3. /\ Len(ev') = Len(ev) + 1
        /\ ev'[Len(ev) + 1] = First
        /\ \A k \in 1..Len(ev) : ev'[k] = ev[k]
    BY <1>2, AppendProperties DEF StreamTypeInv
  <1>4. /\ Len(content') = Len(content) + 1
        /\ content'[Len(content) + 1] = First.n
        /\ \A k \in 1..Len(content) : content'[k] = content[k]
    BY <1>2, AppendProperties DEF StreamTypeInv
  <1>5. Len(content') <= Len(ev') + Len(built')
    <2>1. Len(content) <= Len(ev) + Len(built)
      BY DEF Spoken
    <2> QED
      BY <1>1, <1>3, <1>4, <2>1
  <1>6. ASSUME NEW i \in 0..Len(content)
        PROVE  IF i < Len(ev') THEN ev'[Len(ev') - i] = Chunk("text", content'[Len(content') - i])
                               ELSE built'[(Len(built') + Len(ev')) - i] = content'[Len(content') - i]
    <2>1. CASE i = 0
      BY <1>1, <1>2, <1>3, <1>4, <2>1
    <2>2. CASE i # 0
      <3>1. /\ i - 1 \in 0..(Len(content) - 1)
            /\ (Len(content) + 1) - i = Len(content) - (i - 1)
            /\ Len(content) - (i - 1) \in 1..Len(content)
            /\ (Len(ev) + 1) - i = Len(ev) - (i - 1)
            /\ (Len(built) + (Len(ev) + 1)) - i = (Len(built) + Len(ev)) - (i - 1)
            /\ i < Len(ev) + 1 <=> i - 1 < Len(ev)
            /\ i - 1 < Len(ev) => Len(ev) - (i - 1) \in 1..Len(ev)
        BY <1>1, <2>2, OneBack
      <3>2. IF i - 1 < Len(ev) THEN ev[Len(ev) - (i - 1)] = Chunk("text", content[Len(content) - (i - 1)])
                               ELSE built[(Len(built) + Len(ev)) - (i - 1)] = content[Len(content) - (i - 1)]
        BY <3>1 DEF Spoken
      <3>3. content'[Len(content') - i] = content[Len(content) - (i - 1)]
        BY <1>4, <3>1
      <3> QED
        BY <1>3, <3>1, <3>2, <3>3
    <2> QED
      BY <2>1, <2>2
  <1>7. Len(content') - 1 = Len(content)
    BY <1>1, <1>4
  <1> QED
    BY <1>5, <1>6, <1>7 DEF Spoken

\* The pipeline takes an event: the text it builds grows by what the events lose.
LEMMA PipeEventSpoken ==
    ASSUME StreamTypeInv, PipeEvent, NEW d \in 1..Len(ev), Spoken(content, d, ev, built), ev[1].t \in {"text", "tool"}
    PROVE  Spoken(content', d - 1, ev', built')
  <1>1. Len(content) \in Nat /\ Len(ev) \in Nat /\ Len(built) \in Nat
    BY SpokenTypes
  <1>2. /\ ev # <<>> /\ ev' = Tail(ev) /\ UNCHANGED content
        /\ built' = IF Head(ev).t = "text" THEN Append(built, Head(ev).n) ELSE built
    BY DEF PipeEvent, around, loop
  <1>3. ev \in Seq(Events) /\ Head(ev) = ev[1] /\ ev[1] \in Events
    BY <1>2 DEF StreamTypeInv
  <1>4. /\ Len(ev') = Len(ev) - 1
        /\ \A k \in 1..(Len(ev) - 1) : ev'[k] = ev[k + 1]
    BY <1>2, <1>3, HeadTailProperties
  <1>5. /\ Len(content) <= d + Len(built)
        /\ \A i \in 0..(Len(content) - 1) :
             IF i < d THEN ev[d - i] = Chunk("text", content[Len(content) - i])
                      ELSE built[(Len(built) + d) - i] = content[Len(content) - i]
    BY DEF Spoken
  <1>6. \A i \in 0..(Len(content) - 1) : i < d - 1 =>
          ev'[(d - 1) - i] = Chunk("text", content'[Len(content') - i])
    <2> SUFFICES ASSUME NEW i \in 0..(Len(content) - 1), i < d - 1
                 PROVE  ev'[(d - 1) - i] = Chunk("text", content[Len(content) - i])
      BY <1>2
    <2>1. (d - 1) - i \in 1..(Len(ev) - 1) /\ ((d - 1) - i) + 1 = d - i /\ i < d
      BY <1>1
    <2> QED
      BY <1>4, <1>5, <2>1
  <1>7. CASE ev[1].t = "text"
    <2>1. ev[1].n \in Nat
      BY <1>3, <1>7 DEF Events
    <2>2. built' = Append(built, ev[1].n) /\ built \in Seq(Nat)
      BY <1>2, <1>3, <1>7 DEF StreamTypeInv
    <2>3. /\ Len(built') = Len(built) + 1
          /\ built'[Len(built) + 1] = ev[1].n
          /\ \A k \in 1..Len(built) : built'[k] = built[k]
      BY <2>1, <2>2, AppendProperties
    <2>4. Len(content') <= (d - 1) + Len(built')
      BY <1>1, <1>2, <1>5, <2>3
    <2>5. ASSUME NEW i \in 0..(Len(content) - 1), ~(i < d - 1)
          PROVE  built'[(Len(built') + (d - 1)) - i] = content[Len(content) - i]
      <3>1. (Len(built') + (d - 1)) - i = (Len(built) + d) - i
        BY <1>1, <2>3
      <3>2. CASE i = d - 1
        <4>1. ev[1] = Chunk("text", content[Len(content) - i])
          <5>1. i < d /\ d - i = 1
            BY <3>2
          <5> QED
            BY <1>5, <5>1
        <4>2. (Len(built) + d) - i = Len(built) + 1
          BY <1>1, <3>2
        <4>3. ev[1].n = content[Len(content) - i]
          BY <4>1 DEF Chunk
        <4> QED
          BY <2>3, <3>1, <4>2, <4>3
      <3>3. CASE i # d - 1
        <4>1. ~(i < d) /\ (Len(built) + d) - i \in 1..Len(built)
          BY <1>1, <1>5, <2>5, <3>3
        <4> QED
          BY <1>5, <2>3, <3>1, <4>1
      <3> QED
        BY <3>2, <3>3
    <2> QED
      BY <1>2, <1>6, <2>4, <2>5 DEF Spoken
  <1>8. CASE ev[1].t = "tool"
    <2>1. built' = built
      BY <1>2, <1>3, <1>8
    <2>2. Len(content) <= d - 1
      <3> SUFFICES ASSUME ~(Len(content) <= d - 1) PROVE FALSE
        OBVIOUS
      <3>1. d - 1 \in 0..(Len(content) - 1) /\ d - 1 < d /\ d - (d - 1) = 1
        BY <1>1
      <3>2. ev[1] = Chunk("text", content[Len(content) - (d - 1)])
        BY <1>5, <3>1
      <3> QED
        BY <1>8, <3>2 DEF Chunk
    <2>3. Len(content') <= (d - 1) + Len(built')
      BY <1>1, <1>2, <2>1, <2>2
    <2>4. \A i \in 0..(Len(content) - 1) : i < d - 1
      BY <1>1, <2>2
    <2> QED
      BY <1>2, <1>6, <2>3, <2>4 DEF Spoken
  <1> QED
    BY <1>7, <1>8

\* An event that carries no text changes nothing when it comes after the text.
LEMMA LaterEvent ==
    ASSUME StreamTypeInv, NEW x \in Events, ev' = Append(ev, x), UNCHANGED <<content, built>>,
           Spoken(content, Len(ev), ev, built)
    PROVE  /\ ev'[Len(ev')] = x
           /\ Spoken(content', Len(ev') - 1, ev', built')
  <1>1. Len(content) \in Nat /\ Len(ev) \in Nat /\ Len(built) \in Nat
    BY SpokenTypes
  <1>2. /\ Len(ev') = Len(ev) + 1
        /\ ev'[Len(ev) + 1] = x
        /\ \A k \in 1..Len(ev) : ev'[k] = ev[k]
    BY AppendProperties DEF StreamTypeInv
  <1>3. Len(ev') - 1 = Len(ev)
    BY <1>1, <1>2
  <1>4. \A i \in 0..(Len(content) - 1) : i < Len(ev) => ev'[Len(ev) - i] = ev[Len(ev) - i]
    <2> SUFFICES ASSUME NEW i \in 0..(Len(content) - 1), i < Len(ev)
                 PROVE  ev'[Len(ev) - i] = ev[Len(ev) - i]
      OBVIOUS
    <2>1. Len(ev) - i \in 1..Len(ev)
      BY <1>1
    <2> QED
      BY <1>2, <2>1
  <1>5. Spoken(content, Len(ev), ev', built)
    BY <1>4 DEF Spoken
  <1> QED
    BY <1>2, <1>3, <1>5

\* While the loop runs no event is the last one.
LEMMA NoDoneYet ==
    ASSUME StreamTypeInv, TurnInv, lp # "off"
    PROVE  final = None /\ (ev # <<>> => ev[Len(ev)].t \in {"text", "tool"})
  <1>1. ev # <<>> => Len(ev) \in 1..Len(ev)
    BY EmptySeq DEF StreamTypeInv
  <1> QED
    BY <1>1 DEF TurnInv

\* The loop returns with an error, or without a word.
LEMMA NotDone ==
    ASSUME StreamTypeInv, TurnInv, lp # "off", UNCHANGED <<final>>, lp' \in {"top", "off"},
           \/ ev' = ev
           \/ ev' = Append(ev, Chunk("err", 0))
           \/ ev' = Append(ev, Chunk("tool", 0))
    PROVE  SpokenInv'
  <1>1. final = None /\ (ev # <<>> => ev[Len(ev)].t \in {"text", "tool"})
    BY NoDoneYet
  <1>2. CASE ev' = ev
    BY <1>1, <1>2 DEF SpokenInv
  <1>3. ASSUME NEW x \in Events, x.t # "done", ev' = Append(ev, x)
        PROVE  ev'[Len(ev')].t # "done"
    BY <1>3, AppendProperties DEF StreamTypeInv
  <1>4. CASE ev' = Append(ev, Chunk("err", 0))
    <2>1. ev'[Len(ev')].t # "done"
      BY <1>3, <1>4, ChunkType DEF Chunk
    <2> QED
      BY <1>1, <2>1 DEF SpokenInv
  <1>5. CASE ev' = Append(ev, Chunk("tool", 0))
    <2>1. ev'[Len(ev')].t # "done"
      BY <1>3, <1>5, ChunkType DEF Chunk
    <2> QED
      BY <1>1, <2>1 DEF SpokenInv
  <1> QED
    BY <1>2, <1>4, <1>5

\* The pipeline takes an event, text or the last one.
LEMMA PipeTakesSpoken ==
    ASSUME StreamTypeInv, TurnInv, SpokenInv, PipeEvent
    PROVE  SpokenInv'
  <1>1. /\ pl = "events" /\ ev # <<>> /\ ev' = Tail(ev)
        /\ UNCHANGED <<lp, content>>
        /\ final' = IF Head(ev).t = "done" THEN Head(ev).n ELSE final
        /\ built' = IF Head(ev).t = "text" THEN Append(built, Head(ev).n) ELSE built
    BY DEF PipeEvent, around, loop
  <1>2. ev \in Seq(Events) /\ Len(ev) \in Nat \ {0} /\ Head(ev) = ev[1]
    BY <1>1, EmptySeq DEF StreamTypeInv
  <1>3. /\ Len(ev') = Len(ev) - 1
        /\ \A k \in 1..Len(ev') : ev'[k] = ev[k + 1]
    BY <1>1, <1>2, HeadTailProperties
  <1>4. final = None
    BY <1>1 DEF TurnInv
  <1>5. 1 \in 1..Len(ev) /\ Len(ev) \in 1..Len(ev)
    BY <1>2
  <1>6. CASE lp # "off"
    <2>1. ev[1].t \in {"text", "tool"} /\ ev[Len(ev)].t \in {"text", "tool"}
      BY <1>5, <1>6 DEF TurnInv
    <2>2. final' = None
      BY <1>1, <1>2, <1>4, <2>1
    <2>3. lp' \in {"read", "drain"} => Spoken(content', Len(ev'), ev', built')
      BY <1>1, <1>3, <1>5, <2>1, PipeEventSpoken DEF SpokenInv
    <2>4. ASSUME ev' # <<>> PROVE ev'[Len(ev')].t # "done"
      <3>1. Len(ev') \in 1..Len(ev') /\ Len(ev') + 1 = Len(ev)
        <4>1. Len(ev') # 0
          BY <1>1, <1>2, <2>4, EmptySeq
        <4> QED
          BY <1>2, <1>3, <4>1
      <3>2. ev'[Len(ev')] = ev[Len(ev)]
        BY <1>3, <3>1
      <3> QED
        BY <2>1, <3>2
    <2> QED
      BY <2>2, <2>3, <2>4 DEF SpokenInv
  <1>7. CASE lp = "off" /\ Len(ev) = 1
    <2>1. ev' = <<>>
      BY <1>1, <1>2, <1>7
    <2>2. CASE ev[1].t = "done"
      <3>1. ev[1].n = content /\ Spoken(content, 0, ev, built)
        BY <1>1, <1>7, <2>2 DEF SpokenInv
      <3>2. Spoken(content, 0, ev', built)
        BY <3>1 DEF Spoken
      <3>3. built' = built /\ final' = content
        BY <1>1, <1>2, <2>2, <3>1
      <3> QED
        BY <1>1, <1>7, <2>1, <3>2, <3>3 DEF SpokenInv
    <2>3. CASE ev[1].t # "done"
      BY <1>1, <1>2, <1>4, <1>7, <2>1, <2>3 DEF SpokenInv
    <2> QED
      BY <2>2, <2>3
  <1>8. CASE lp = "off" /\ Len(ev) # 1
    <2>1. ev[1].t \in {"text", "tool"}
      BY <1>5, <1>8 DEF TurnInv
    <2>2. final' = None
      BY <1>1, <1>2, <1>4, <2>1
    <2>3. Len(ev') \in 1..Len(ev') /\ Len(ev') + 1 = Len(ev) /\ Len(ev) - 1 \in 1..Len(ev)
      BY <1>2, <1>3, <1>8
    <2>4. ev'[Len(ev')] = ev[Len(ev)]
      BY <1>3, <2>3
    <2>5. ASSUME ev[Len(ev)].t = "done"
          PROVE  ev[Len(ev)].n = content /\ Spoken(content', Len(ev') - 1, ev', built')
      <3>1. ev[Len(ev)].n = content /\ Spoken(content, Len(ev) - 1, ev, built)
        BY <1>1, <2>5 DEF SpokenInv
      <3>2. Spoken(content', (Len(ev) - 1) - 1, ev', built')
        BY <2>1, <2>3, <3>1, PipeEventSpoken
      <3> QED
        BY <1>3, <3>1, <3>2
    <2> QED
      BY <1>1, <1>8, <2>2, <2>4, <2>5 DEF SpokenInv
  <1> QED
    BY <1>6, <1>7, <1>8

\* Every step keeps SpokenInv.
LEMMA StreamNextSpoken == StreamTypeInv /\ TurnInv /\ SpokenInv /\ [StreamNext]_streamVars => SpokenInv'
  <1> SUFFICES ASSUME StreamTypeInv, TurnInv, SpokenInv, [StreamNext]_streamVars
               PROVE  SpokenInv'
    OBVIOUS
  <1> USE DEF provider, loop, sender, pipe, outvars, downstream, upstream, around, rest
  <1>0. UNCHANGED <<lp, ev, content, built, final>> => SpokenInv'
    BY DEF SpokenInv
  <1>1. CASE UNCHANGED streamVars
    BY <1>0, <1>1 DEF streamVars
  <1>2. CASE OuterEnds \/ Timeout
    BY <1>0, <1>2 DEF OuterEnds, Timeout
  <1>3. CASE ReadPiece \/ ReadError \/ ReadCancelled
    BY <1>0, <1>3 DEF ReadPiece, ReadError, ReadCancelled, ReaderExits
  <1>4. ASSUME NEW calls \in BOOLEAN, ReadDone(calls) \/ ReadEOF(calls)
        PROVE  SpokenInv'
    BY <1>0, <1>4 DEF ReadDone, ReadEOF, ReadLast, ReaderExits
  <1>5. ASSUME NEW c \in {"body", "chain"}, Relay(c) \/ RelayEnds(c)
        PROVE  SpokenInv'
    BY <1>0, <1>5 DEF Relay, RelayEnds
  <1>6. CASE RelayCancelled
    BY <1>0, <1>6 DEF RelayCancelled
  <1>7. CASE LoopTop
    BY <1>7, NotDone DEF LoopTop, EmitAndReturn, Emit, Abandon, LoopReturns
  <1>8. CASE OpenStream
    <2>1. /\ lp = "top" /\ lp' = "read" /\ content' = <<>>
          /\ UNCHANGED <<ev, built, final>>
      BY <1>8 DEF OpenStream
    <2>2. final = None /\ (ev # <<>> => ev[Len(ev)].t \in {"text", "tool"})
      BY <2>1, NoDoneYet
    <2>3. Spoken(<<>>, Len(ev), ev, built)
      BY SpokenTypes DEF Spoken
    <2> QED
      BY <2>1, <2>2, <2>3 DEF SpokenInv
  <1>9. CASE LoopText
    <2>1. /\ lp = "read" /\ q[Outlet] # <<>> /\ First.t = "text"
          /\ UNCHANGED <<built, final>>
          /\ \/ Emit(First) /\ content' = Append(content, First.n) /\ lp' = lp
             \/ ev' = ev /\ lp' = "off"
      BY <1>9 DEF LoopText, Abandon, LoopReturns
    <2>2. First \in Chunks
      BY <2>1, TakeType, OutletStage DEF First, StreamTypeInv
    <2>3. CASE ev' = ev /\ lp' = "off"
      BY <2>1, <2>3, NotDone
    <2>4. CASE Emit(First) /\ content' = Append(content, First.n) /\ lp' = lp
      <3>1. Spoken(content', Len(ev'), ev', built')
        BY <2>1, <2>2, <2>4, LoopTextSpoken DEF Emit, SpokenInv
      <3>2. First \in Events
        BY <2>1, <2>2 DEF Chunks, Events
      <3>3. ev'[Len(ev')] = First
        BY <2>4, <3>2, AppendProperties DEF Emit, StreamTypeInv
      <3>4. final' = None
        BY <2>1, NoDoneYet
      <3> QED
        BY <2>1, <3>1, <3>3, <3>4 DEF SpokenInv
    <2> QED
      BY <2>1, <2>3, <2>4
  <1>10. CASE LoopTools
    BY <1>0, <1>10 DEF LoopTools
  <1>11. CASE LoopError
    <2>1. lp = "read" /\ lp' = "drain" /\ UNCHANGED <<ev, content, built, final>>
      BY <1>11 DEF LoopError
    <2> QED
      BY <2>1 DEF SpokenInv
  <1>12. CASE Drain
    <2>1. \/ UNCHANGED <<lp, ev, content, built, final>>
          \/ EmitAndReturn(Chunk("err", 0)) /\ lp = "drain" /\ UNCHANGED final
      BY <1>12 DEF Drain
    <2> QED
      BY <1>0, <2>1, NotDone DEF EmitAndReturn, Emit, Abandon, LoopReturns
  <1>13. CASE LoopClosed
    <2>1. /\ lp = "read" /\ UNCHANGED <<built, final>>
          /\ \/ ev' = Append(ev, Chunk("err", 0)) /\ lp' = "off"
             \/ ev' = Append(ev, [t |-> "done", n |-> content]) /\ lp' = "off" /\ UNCHANGED content
             \/ ev' = Append(ev, Chunk("tool", 0)) /\ lp' = "top"
             \/ ev' = ev /\ lp' = "off"
      BY <1>13 DEF LoopClosed, EmitAndReturn, Emit, Abandon, LoopReturns
    <2>2. CASE ev' = Append(ev, [t |-> "done", n |-> content]) /\ lp' = "off" /\ UNCHANGED content
      <3> DEFINE x == [t |-> "done", n |-> content]
      <3>1. x \in Events /\ x.n = content
        BY DEF StreamTypeInv, Events
      <3> HIDE DEF x
      <3>2. ev' = Append(ev, x)
        BY <2>2 DEF x
      <3>3. ev'[Len(ev')] = x /\ Spoken(content', Len(ev') - 1, ev', built')
        BY <2>1, <2>2, <3>1, <3>2, LaterEvent DEF SpokenInv
      <3>4. final' = None
        BY <2>1, NoDoneYet
      <3> QED
        BY <2>2, <3>1, <3>3, <3>4 DEF SpokenInv
    <2>3. CASE ev' \in {ev, Append(ev, Chunk("err", 0)), Append(ev, Chunk("tool", 0))} /\ lp' \in {"top", "off"}
      BY <2>1, <2>3, NotDone
    <2> QED
      BY <2>1, <2>2, <2>3
  <1>14. CASE PipeEvent
    BY <1>14, PipeTakesSpoken
  <1>15. CASE PipeClose \/ PipeEnds \/ PipeSends \/ PipeSending
    BY <1>0, <1>15 DEF PipeClose, PipeEnds, PipeSends, PipeSending
  <1>16. CASE SendStep \/ SendTick
    BY <1>0, <1>16 DEF SendStep, SendTick, SendRefused, SendPlaceholder, SendChunk, SendClosed, SendCancelled
  <1> QED
    BY <1>1, <1>2, <1>3, <1>4, <1>5, <1>6, <1>7, <1>8, <1>9, <1>10, <1>11, <1>12, <1>13, <1>14, <1>15, <1>16
       DEF StreamNext, Reader, LoopStep, PipeStep

\* Facts about the text under way between the pipeline and the sender.
LEMMA TextMoves ==
    ASSUME NEW b \in Seq(Nat), NEW t \in Seq(Nat)
    PROVE  /\ \A n \in Nat : Append(b \o t, n) = b \o Append(t, n)
           /\ t # <<>> => Append(b, Head(t)) \o Tail(t) = b \o t
  <1>1. ASSUME NEW n \in Nat
        PROVE  Append(b \o t, n) = b \o Append(t, n)
    <2>1. b \o t \in Seq(Nat) /\ <<n>> \in Seq(Nat)
      OBVIOUS
    <2>2. Append(b \o t, n) = (b \o t) \o <<n>> /\ Append(t, n) = t \o <<n>>
      BY <2>1, AppendIsConcat
    <2> QED
      BY <2>1, <2>2, ConcatAssociative
  <1>2. ASSUME t # <<>>
        PROVE  Append(b, Head(t)) \o Tail(t) = b \o t
    <2>1. Head(t) \in Nat /\ Tail(t) \in Seq(Nat) /\ <<Head(t)>> \in Seq(Nat)
      BY <1>2
    <2>2. Append(b, Head(t)) = b \o <<Head(t)>>
      BY <2>1, AppendIsConcat
    <2>3. <<Head(t)>> \o Tail(t) = t
      BY <1>2
    <2>4. ASSUME NEW h \in Seq(Nat), NEW u \in Seq(Nat)
          PROVE  (b \o h) \o u = b \o (h \o u)
      BY ConcatAssociative, SMTT(20)
    <2>5. (b \o <<Head(t)>>) \o Tail(t) = b \o (<<Head(t)>> \o Tail(t))
      BY <2>1, <2>4, Zenon
    <2> QED
      BY <2>2, <2>3, <2>5, Zenon
  <1> QED
    BY <1>1, <1>2

\* A text is a suffix when, counted from the end, the pieces are the same.
LEMMA SuffixFromEnd ==
    ASSUME NEW s \in Seq(Nat), NEW t \in Seq(Nat), Len(s) <= Len(t),
           \A i \in 0..(Len(s) - 1) : t[Len(t) - i] = s[Len(s) - i]
    PROVE  IsSuffix(s, t)
  <1> DEFINE r == Reverse(s)
             u == Reverse(t)
  <1>1. Len(s) \in Nat /\ Len(t) \in Nat
    OBVIOUS
  <1>2. r \in Seq(Nat) /\ Len(r) = Len(s) /\ \A k \in 1..Len(s) : r[k] = s[(Len(s) - k) + 1]
    BY DEF Reverse
  <1>3. u \in Seq(Nat) /\ Len(u) = Len(t) /\ \A k \in 1..Len(t) : u[k] = t[(Len(t) - k) + 1]
    BY DEF Reverse
  <1>4. ASSUME NEW k \in 1..Len(s) PROVE r[k] = u[k]
    <2>1. /\ k - 1 \in 0..(Len(s) - 1) /\ k \in 1..Len(t)
          /\ (Len(s) - k) + 1 = Len(s) - (k - 1)
          /\ (Len(t) - k) + 1 = Len(t) - (k - 1)
      BY <1>1
    <2> QED
      BY <1>2, <1>3, <2>1
  <1> HIDE DEF r, u
  <1>5. SubSeq(r, 1, Len(r)) = SubSeq(u, 1, Len(r))
    <2>1. \A k \in 1..Len(s) : r[k] \in Nat /\ u[k] \in Nat
      <3>1. \A k \in 1..Len(r) : r[k] \in Nat
        BY <1>2, ElementOfSeq
      <3> QED
        BY <1>2, <1>4, <3>1
    <2>2. /\ SubSeq(r, 1, Len(s)) \in Seq(Nat) /\ Len(SubSeq(r, 1, Len(s))) = Len(s)
          /\ \A k \in 1..Len(s) : SubSeq(r, 1, Len(s))[k] = r[k]
      BY <1>1, <1>2, <2>1
    <2>3. /\ SubSeq(u, 1, Len(s)) \in Seq(Nat) /\ Len(SubSeq(u, 1, Len(s))) = Len(s)
          /\ \A k \in 1..Len(s) : SubSeq(u, 1, Len(s))[k] = u[k]
      BY <1>1, <1>3, <2>1
    <2>4. SubSeq(r, 1, Len(s)) = SubSeq(u, 1, Len(s))
      BY <1>4, <2>2, <2>3, SeqEqual
    <2> QED
      BY <1>2, <2>4
  <1> QED
    BY <1>1, <1>2, <1>3, <1>5 DEF IsSuffix, IsPrefix, r, u

\* Every piece of text has been passed on and is short enough to be shown.
NoneLost == ghost \cap {"dropped", "overflow"} = {}

\* What SendStream has read and what waits in textCh is what the pipeline has
\* built; when it has returned, what it read is on the screen.
SendInv ==
    /\ Len(text) <= TextCap
    /\ snd = "done" /\ sr => text = <<>> /\ pl # "events" /\ (shown = Cut(buf) \/ "edit" \in ghost)
    /\ NoneLost => Len(buf) <= MaxShown
    /\ NoneLost /\ (snd # "done" \/ sr) => built = buf \o text
    /\ result = "ok" => pl = "ended" /\ (reply = Response \/ (snd = "done" /\ sr))

LEMMA StreamInitSend == StreamInit => SendInv
  <1> SUFFICES ASSUME NEW at, NEW complete, StartTurn(at, complete)
               PROVE  SendInv
    BY DEF StreamInit
  <1>1. /\ text = <<>> /\ buf = <<>> /\ built = <<>> /\ ~sr /\ result = "none"
    BY DEF StartTurn
  <1>2. <<>> \o <<>> = <<>>
    BY ConcatEmptySeq, EmptySeq
  <1>3. TextCap \in Nat /\ MaxShown \in Nat
    BY StreamingAssumption
  <1> QED
    BY <1>1, <1>2, <1>3 DEF SendInv

\* A step of the provider or of the loop.
LEMMA OtherSend ==
    ASSUME SendInv, UNCHANGED <<text, snd, sr, pl, shown, buf, built, final, result, reply>>,
           ghost \subseteq ghost'
    PROVE  SendInv'
  <1>1. NoneLost' => NoneLost
    BY DEF NoneLost
  <1> QED
    BY <1>1 DEF SendInv, Response, Cut

\* A piece goes to the builder and to textCh, or is dropped.
LEMMA PipeEventSend ==
    ASSUME StreamTypeInv, SendInv, PipeEvent
    PROVE  SendInv'
  <1>1. /\ pl = "events" /\ pl' = "events" /\ ev # <<>>
        /\ UNCHANGED <<snd, sr, shown, buf, reply>>
        /\ built' = IF Head(ev).t = "text" THEN Append(built, Head(ev).n) ELSE built
        /\ text' = IF Head(ev).t = "text" /\ Len(text) < TextCap THEN Append(text, Head(ev).n) ELSE text
        /\ ghost' = IF Head(ev).t = "text" /\ Len(text) = TextCap THEN ghost \cup {"dropped"} ELSE ghost
        /\ result' = IF Head(ev).t = "err" THEN "error" ELSE result
    BY DEF PipeEvent, sender
  <1>2. /\ text \in Seq(Nat) /\ buf \in Seq(Nat) /\ built \in Seq(Nat)
        /\ Head(ev).t = "text" => Head(ev).n \in Nat
    <2>1. Head(ev) \in Events
      BY <1>1 DEF StreamTypeInv
    <2> QED
      BY <2>1 DEF Events, StreamTypeInv
  <1>3. Len(text) \in Nat /\ TextCap \in Nat /\ Len(text) <= TextCap
    BY <1>2, StreamingAssumption DEF SendInv
  <1>4. result' # "ok" /\ ~(snd = "done" /\ sr)
    BY <1>1 DEF SendInv
  <1>5. NoneLost' => NoneLost
    BY <1>1 DEF NoneLost
  <1>6. Len(text') <= TextCap
    <2>1. CASE Head(ev).t = "text" /\ Len(text) < TextCap
      <3>1. Len(text') = Len(text) + 1
        BY <1>1, <1>2, <2>1, AppendProperties
      <3> QED
        BY <1>3, <2>1, <3>1
    <2>2. CASE ~(Head(ev).t = "text" /\ Len(text) < TextCap)
      BY <1>1, <1>3, <2>2
    <2> QED
      BY <2>1, <2>2
  <1>7. ASSUME NoneLost', snd # "done" PROVE built' = buf' \o text'
    <2>1. built = buf \o text
      BY <1>5, <1>7 DEF SendInv
    <2>2. CASE Head(ev).t = "text"
      <3>1. "dropped" \notin ghost'
        BY <1>7 DEF NoneLost
      <3>2. Len(text) < TextCap
        BY <1>1, <1>3, <2>2, <3>1
      <3>3. built' = Append(buf \o text, Head(ev).n) /\ text' = Append(text, Head(ev).n)
        BY <1>1, <2>1, <2>2, <3>2
      <3>4. Append(buf \o text, Head(ev).n) = buf \o Append(text, Head(ev).n)
        BY <1>2, <2>2, TextMoves
      <3> QED
        BY <1>1, <3>3, <3>4, Zenon
    <2>3. CASE Head(ev).t # "text"
      BY <1>1, <2>1, <2>3
    <2> QED
      BY <2>2, <2>3
  <1> QED
    BY <1>1, <1>4, <1>5, <1>6, <1>7 DEF SendInv

\* A piece goes from textCh to the sender's buffer.
LEMMA SendChunkSend ==
    ASSUME StreamTypeInv, SendInv, SendChunk
    PROVE  SendInv'
  <1>1. /\ snd = "loop" /\ text # <<>> /\ text' = Tail(text)
        /\ UNCHANGED <<snd, sr, pl, built, final, result, reply>>
        /\ \/ Len(buf) > MaxShown /\ UNCHANGED <<buf, ghost>>
           \/ /\ ~(Len(buf) > MaxShown)
              /\ buf' = Append(buf, Head(text))
              /\ \/ Len(buf') > MaxShown /\ "overflow" \in ghost'
                 \/ ~(Len(buf') > MaxShown) /\ UNCHANGED ghost
    BY DEF SendChunk, rest, pipe, Note
  <1>2. text \in Seq(Nat) /\ buf \in Seq(Nat) /\ Len(buf) \in Nat /\ MaxShown \in Nat /\ TextCap \in Nat
    BY StreamingAssumption DEF StreamTypeInv
  <1>3. Len(text') <= TextCap
    <2>1. Len(text') = Len(text) - 1 /\ Len(text) \in Nat
      BY <1>1, <1>2, HeadTailProperties
    <2>2. Len(text) <= TextCap
      BY DEF SendInv
    <2> QED
      BY <1>2, <2>1, <2>2
  <1>4. ASSUME NoneLost'
        PROVE  Len(buf') <= MaxShown /\ built' = buf' \o text'
    <2>1. "overflow" \notin ghost'
      BY <1>4 DEF NoneLost
    <2>2. UNCHANGED ghost
      BY <1>1, <2>1
    <2>3. Len(buf) <= MaxShown /\ built = buf \o text
      BY <1>1, <1>4, <2>2 DEF SendInv, NoneLost
    <2>4. buf' = Append(buf, Head(text)) /\ ~(Len(buf') > MaxShown)
      BY <1>1, <1>2, <2>1, <2>3
    <2>5. Len(buf') \in Nat
      BY <1>1, <1>2, <2>4
    <2>6. Append(buf, Head(text)) \o Tail(text) = buf \o text
      BY <1>1, <1>2, TextMoves
    <2>7. built' = buf' \o text'
      BY <1>1, <2>3, <2>4, <2>6, Zenon
    <2> QED
      BY <1>2, <2>4, <2>5, <2>7
  <1>5. Response' = Response
    BY <1>1 DEF Response
  <1>6. result' = "ok" => pl' = "ended" /\ reply' = Response'
    BY <1>1, <1>5 DEF SendInv
  <1> QED
    BY <1>1, <1>3, <1>4, <1>6 DEF SendInv

\* The last flush.
LEMMA SendClosedSend ==
    ASSUME StreamTypeInv, SendInv, SendClosed
    PROVE  SendInv'
  <1>1. /\ snd = "loop" /\ text = <<>> /\ pl = "wait"
        /\ UNCHANGED <<text, buf, pl, built, final, result, reply>>
        /\ ghost' = IF shown' = Cut(buf) THEN ghost ELSE ghost \cup {"edit"}
    BY DEF SendClosed, rest, pipe
  <1>2. NoneLost' => NoneLost
    BY <1>1 DEF NoneLost
  <1>3. Cut(buf)' = Cut(buf)
    BY <1>1 DEF Cut
  <1>4. shown' = Cut(buf)' \/ "edit" \in ghost'
    BY <1>1, <1>3
  <1> QED
    BY <1>1, <1>2, <1>4 DEF SendInv

\* Every step keeps SendInv.
LEMMA StreamNextSend == StreamTypeInv /\ TurnInv /\ SendInv /\ [StreamNext]_streamVars => SendInv'
  <1> SUFFICES ASSUME StreamTypeInv, TurnInv, SendInv, [StreamNext]_streamVars
               PROVE  SendInv'
    OBVIOUS
  <1> USE DEF provider, loop, sender, pipe, outvars, downstream, upstream, around, rest
  <1>1. CASE UNCHANGED streamVars
    BY <1>1, OtherSend DEF streamVars
  <1>2. CASE OuterEnds \/ Timeout
    BY <1>2, OtherSend DEF OuterEnds, Timeout
  <1>3. CASE ReadPiece \/ ReadError \/ ReadCancelled
    BY <1>3, OtherSend DEF ReadPiece, ReadError, ReadCancelled, ReaderExits, Note
  <1>4. ASSUME NEW calls \in BOOLEAN, ReadDone(calls) \/ ReadEOF(calls)
        PROVE  SendInv'
    BY <1>4, OtherSend DEF ReadDone, ReadEOF, ReadLast, ReaderExits, Note
  <1>5. ASSUME NEW c \in {"body", "chain"}, Relay(c) \/ RelayEnds(c)
        PROVE  SendInv'
    BY <1>5, OtherSend DEF Relay, RelayEnds
  <1>6. CASE RelayCancelled
    BY <1>6, OtherSend DEF RelayCancelled, Note
  <1>7. CASE LoopStep
    <2>1. /\ UNCHANGED <<text, snd, sr, pl, shown, buf, built, final, result, reply>>
          /\ ghost \subseteq ghost'
      BY <1>7 DEF LoopStep, LoopTop, OpenStream, LoopText, LoopTools, LoopError, Drain, LoopClosed,
                  EmitAndReturn, Emit, Abandon, Note
    <2> QED
      BY <2>1, OtherSend
  <1>8. CASE PipeEvent
    BY <1>8, PipeEventSend
  <1>9. CASE PipeClose \/ PipeEnds \/ PipeSends \/ PipeSending
    <2>1. /\ UNCHANGED <<text, snd, sr, shown, buf, built, final>>
          /\ pl' # "events"
          /\ \/ ghost' = ghost
             \/ ghost' = ghost \cup {"corrected"}
      BY <1>9 DEF PipeClose, PipeEnds, PipeSends, PipeSending, Note
    <2>2. Response' = Response
      BY <2>1 DEF Response
    <2>3. result' = "ok" => pl' = "ended" /\ (reply' = Response \/ (snd = "done" /\ sr))
      <3>1. result # "ok"
        BY <1>9 DEF PipeClose, PipeEnds, PipeSends, PipeSending, TurnInv
      <3> QED
        BY <1>9, <3>1 DEF PipeClose, PipeEnds, PipeSends, PipeSending
    <2>4. (NoneLost' => NoneLost) /\ ("edit" \in ghost => "edit" \in ghost')
      BY <2>1 DEF NoneLost
    <2>5. Cut(buf)' = Cut(buf)
      BY <2>1 DEF Cut
    <2> QED
      BY <2>1, <2>2, <2>3, <2>4, <2>5 DEF SendInv
  <1>10. CASE SendRefused \/ SendCancelled
    <2>1. /\ UNCHANGED <<text, pl, buf, built, final, result, reply, ghost>>
          /\ snd \in {"start", "loop"} /\ snd' = "done" /\ sr' = FALSE
      BY <1>10 DEF SendRefused, SendCancelled, SendResult
    <2>2. (NoneLost' <=> NoneLost) /\ Response' = Response
      BY <2>1 DEF NoneLost, Response
    <2> QED
      BY <2>1, <2>2 DEF SendInv
  <1>11. CASE SendPlaceholder \/ SendTick
    <2>1. /\ UNCHANGED <<text, pl, buf, built, final, result, reply, ghost, sr>>
          /\ snd \in {"start", "loop"} /\ snd' = "loop"
      BY <1>11 DEF SendPlaceholder, SendTick
    <2>2. (NoneLost' <=> NoneLost) /\ Response' = Response
      BY <2>1 DEF NoneLost, Response
    <2> QED
      BY <2>1, <2>2 DEF SendInv
  <1>12. CASE SendChunk
    BY <1>12, SendChunkSend
  <1>13. CASE SendClosed
    BY <1>13, SendClosedSend
  <1> QED
    BY <1>1, <1>2, <1>3, <1>4, <1>5, <1>6, <1>7, <1>8, <1>9, <1>10, <1>11, <1>12, <1>13
       DEF StreamNext, Reader, PipeStep, SendStep

\* The invariants give ShownWhole.
LEMMA ShownFromInv == StreamTypeInv /\ SpokenInv /\ SendInv => ShownWhole
  <1> SUFFICES ASSUME StreamTypeInv, SpokenInv, SendInv, result = "ok", reply # Response,
                      ghost \cap {"dropped", "overflow", "edit", "corrected"} = {}
               PROVE  IsSuffix(Response, shown)
    BY DEF ShownWhole
  <1>1. NoneLost /\ "edit" \notin ghost
    BY DEF NoneLost
  <1>2. /\ snd = "done" /\ sr /\ text = <<>> /\ shown = Cut(buf)
        /\ Len(buf) <= MaxShown /\ built = buf \o text
    BY <1>1 DEF SendInv
  <1>3. buf \in Seq(Nat) /\ built \in Seq(Nat) /\ content \in Seq(Nat) /\ MaxShown \in Nat
    BY StreamingAssumption DEF StreamTypeInv
  <1>4. built = buf
    BY <1>2, <1>3, ConcatEmptySeq
  <1>5. shown = built
    <2>1. Cut(buf) = SubSeq(buf, 1, Len(buf))
      BY <1>2, <1>3 DEF Cut
    <2>2. SubSeq(buf, 1, Len(buf)) = buf
      BY <1>3
    <2> QED
      BY <1>2, <1>4, <2>1, <2>2
  <1>6. CASE final = None
    BY <1>3, <1>5, <1>6, SuffixOfItself DEF Response
  <1>7. CASE final # None
    <2>1. Response = content /\ Spoken(content, 0, ev, built)
      BY <1>7 DEF SpokenInv, Response
    <2>2. Len(content) \in Nat /\ Len(built) \in Nat
      BY <1>3
    <2>3. Len(content) <= Len(built)
      BY <2>1, <2>2 DEF Spoken
    <2>4. \A i \in 0..(Len(content) - 1) : built[Len(built) - i] = content[Len(content) - i]
      <3> SUFFICES ASSUME NEW i \in 0..(Len(content) - 1)
                   PROVE  built[Len(built) - i] = content[Len(content) - i]
        OBVIOUS
      <3>1. ~(i < 0) /\ (Len(built) + 0) - i = Len(built) - i
        BY <2>2
      <3> QED
        BY <2>1, <3>1 DEF Spoken
    <2> QED
      BY <1>3, <1>5, <2>1, <2>3, <2>4, SuffixFromEnd
  <1> QED
    BY <1>6, <1>7

\* ShownWhole (see there) holds for any capacity of the channels, any limit of
\* a message and any number of failed edits.
THEOREM AnswerShownWhole == StreamSpec => []ShownWhole
  <1> DEFINE Inv == StreamTypeInv /\ TurnInv /\ SpokenInv /\ SendInv
  <1>1. StreamInit => Inv
    BY StreamInitType, StreamInitTurn, StreamInitSpoken, StreamInitSend
  <1>2. Inv /\ [StreamNext]_streamVars => Inv'
    BY StreamNextType, StreamNextTurn, StreamNextSpoken, StreamNextSend
  <1>3. Inv => ShownWhole
    BY ShownFromInv
  <1> QED
    BY <1>1, <1>2, <1>3, PTL DEF StreamSpec

-----------------------------------------------------------------------------
\* The answer that is sent in parts.  Recursive functions on numbers, first.

\* A set of natural numbers has a least element, if it has any.
LEMMA LeastNumber ==
    ASSUME NEW S \in SUBSET Nat, S # {}
    PROVE  \E x \in S : \A y \in S : x <= y
  <1>1. IsWellFoundedOn(OpToRel(<, Nat), Nat)
    BY NatLessThanWellFounded
  <1>2. \E x \in S : \A y \in S : <<y, x>> \notin OpToRel(<, Nat)
    BY <1>1, WFMin
  <1>3. PICK x \in S : \A y \in S : ~(y < x)
    BY <1>2 DEF OpToRel
  <1>4. \A y \in S : x <= y
    BY <1>3
  <1> QED
    BY <1>4

\* Induction, for a set of numbers.
LEMMA SetInduction ==
    ASSUME NEW T, 0 \in T, \A n \in Nat : n \in T => n + 1 \in T
    PROVE  Nat \subseteq T
  <1> SUFFICES ASSUME Nat \ T # {} PROVE FALSE
    OBVIOUS
  <1>1. PICK x \in Nat \ T : \A y \in Nat \ T : x <= y
    BY LeastNumber
  <1>2. x # 0 /\ x - 1 \in Nat /\ (x - 1) + 1 = x /\ ~(x <= x - 1)
    BY <1>1
  <1>3. x - 1 \in T
    BY <1>1, <1>2
  <1> QED
    BY <1>1, <1>2, <1>3

\* A function that is defined by a recursion over numbers, and that there is one.
Recurs(f, X, L, x0, G) ==
    /\ f \in [0..L -> X]
    /\ f[0] = x0
    /\ \A k \in 1..L : f[k] = G[k][f[k - 1]]

LEMMA RecursionExists ==
    ASSUME NEW X, NEW L \in Nat, NEW x0 \in X, NEW G \in [1..L -> [X -> X]]
    PROVE  \E f : Recurs(f, X, L, x0, G)
  <1> DEFINE Solves(f, m) == f[0] = x0 /\ \A k \in 1..m : f[k] = G[k][f[k - 1]]
             T == {m \in Nat : m <= L => \E f \in [0..m -> X] : Solves(f, m)}
  <1>1. 0 \in T
    <2> DEFINE f == [k \in 0..0 |-> x0]
    <2>1. f \in [0..0 -> X] /\ Solves(f, 0)
      OBVIOUS
    <2> QED
      BY <2>1
  <1>2. ASSUME NEW m \in Nat, m \in T PROVE m + 1 \in T
    <2> SUFFICES ASSUME m + 1 <= L PROVE \E f \in [0..(m + 1) -> X] : Solves(f, m + 1)
      OBVIOUS
    <2>1. PICK f \in [0..m -> X] : Solves(f, m)
      BY <1>2
    <2> DEFINE g == [k \in 0..(m + 1) |-> IF k = m + 1 THEN G[m + 1][f[m]] ELSE f[k]]
    <2>2. G[m + 1][f[m]] \in X
      OBVIOUS
    <2>3. g \in [0..(m + 1) -> X]
      BY <2>2
    <2>4. ASSUME NEW k \in 1..(m + 1) PROVE g[k] = G[k][g[k - 1]]
      <3>1. CASE k = m + 1
        <4>1. k - 1 = m /\ m \in 0..(m + 1) /\ m # m + 1
          BY <3>1
        <4> QED
          BY <3>1, <4>1
      <3>2. CASE k # m + 1
        <4>1. k \in 1..m /\ k - 1 \in 0..m /\ k - 1 # m + 1 /\ k - 1 \in 0..(m + 1) /\ k \in 0..(m + 1)
          BY <3>2
        <4> QED
          BY <2>1, <3>2, <4>1
      <3> QED
        BY <3>1, <3>2
    <2>5. g[0] = x0
      BY <2>1
    <2> QED
      BY <2>3, <2>4, <2>5
  <1> HIDE DEF T
  <1>3. L \in T
    BY <1>1, <1>2, SetInduction
  <1>4. PICK f \in [0..L -> X] : Solves(f, L)
    BY <1>3 DEF T
  <1> QED
    BY <1>4 DEF Recurs

\* The function FlattenSeq chooses; that there is one; and what it yields.
Flat(s, g) == g = [i \in 1..Len(s) |-> IF i = 1 THEN s[i] ELSE g[i - 1] \o s[i]]

LEMMA FlattenUnfold ==
    ASSUME NEW s, Len(s) # 0
    PROVE  FlattenSeq(s) = (CHOOSE g : Flat(s, g))[Len(s)]
  BY DEF FlattenSeq, Flat

LEMMA FlatExists ==
    ASSUME NEW Y, NEW s \in Seq(Seq(Y)), s # <<>>
    PROVE  \E g : Flat(s, g)
  <1> DEFINE n == Len(s)
             X == Seq(Y)
             L == n - 1
             G == [k \in 1..L |-> [x \in X |-> x \o s[k + 1]]]
  <1>1. n \in Nat \ {0} /\ L \in Nat /\ \A k \in 1..n : s[k] \in X
    BY EmptySeq, ElementOfSeq
  <1>2. \A k \in 1..L : k + 1 \in 1..n
    BY <1>1
  <1>3. G \in [1..L -> [X -> X]]
    <2> SUFFICES ASSUME NEW k \in 1..L, NEW x \in X PROVE x \o s[k + 1] \in X
      OBVIOUS
    <2>1. x \in Seq(Y) /\ s[k + 1] \in Seq(Y)
      BY <1>1, <1>2
    <2> QED
      BY <2>1
  <1>4. s[1] \in X /\ L \in Nat
    BY <1>1
  <1> HIDE DEF X, n, L, G
  <1>5. PICK f \in [0..L -> X] :
          f[0] = s[1] /\ \A k \in 1..L : f[k] = G[k][f[k - 1]]
    <2>1. PICK f : Recurs(f, X, L, s[1], G)
      BY <1>3, <1>4, RecursionExists
    <2> QED
      BY <2>1 DEF Recurs
  <1> DEFINE g == [i \in 1..n |-> f[i - 1]]
  <1>6. ASSUME NEW i \in 1..n
        PROVE  g[i] = IF i = 1 THEN s[i] ELSE g[i - 1] \o s[i]
    <2>1. CASE i = 1
      BY <1>5, <2>1
    <2>2. CASE i # 1
      <3>1. i - 1 \in 1..L /\ (i - 1) + 1 = i /\ i - 1 \in 1..n /\ (i - 1) - 1 \in 0..L
        BY <1>1, <2>2 DEF L
      <3>2. f[i - 1] = G[i - 1][f[(i - 1) - 1]] /\ f[(i - 1) - 1] \in X
        BY <1>5, <3>1
      <3>3. f[i - 1] = f[(i - 1) - 1] \o s[i]
        BY <3>1, <3>2 DEF G
      <3> QED
        BY <2>2, <3>1, <3>3
    <2> QED
      BY <2>1, <2>2
  <1>7. g = [i \in 1..n |-> IF i = 1 THEN s[i] ELSE g[i - 1] \o s[i]]
    BY <1>6
  <1> QED
    BY <1>7 DEF Flat, n

\* What the recursion of FlattenSeq yields, step by step.
LEMMA FlatSteps ==
    ASSUME NEW Y, NEW s \in Seq(Seq(Y)), s # <<>>
    PROVE  \E g : /\ FlattenSeq(s) = g[Len(s)]
                  /\ g[1] = s[1]
                  /\ \A i \in 2..Len(s) : g[i] = g[i - 1] \o s[i]
                  /\ \A i \in 1..Len(s) : g[i] \in Seq(Y)
  <1>1. Len(s) \in Nat \ {0} /\ \A k \in 1..Len(s) : s[k] \in Seq(Y)
    BY EmptySeq, ElementOfSeq
  <1> DEFINE g == CHOOSE g : Flat(s, g)
  <1>2. Flat(s, g)
    BY FlatExists
  <1>3. FlattenSeq(s) = g[Len(s)]
    BY <1>1, FlattenUnfold
  <1> HIDE DEF g
  <1>4. \A i \in 1..Len(s) : g[i] = IF i = 1 THEN s[i] ELSE g[i - 1] \o s[i]
    BY <1>2 DEF Flat
  <1>5. g[1] = s[1] /\ \A i \in 2..Len(s) : g[i] = g[i - 1] \o s[i]
    <2>1. 1 \in 1..Len(s) /\ \A i \in 2..Len(s) : i \in 1..Len(s) /\ i # 1
      BY <1>1
    <2> QED
      BY <1>4, <2>1, Zenon
  <1> DEFINE T == {m \in Nat : m + 1 <= Len(s) => g[m + 1] \in Seq(Y)}
  <1>6. 0 \in T
    BY <1>1, <1>5
  <1>7. ASSUME NEW m \in Nat, m \in T PROVE m + 1 \in T
    <2> SUFFICES ASSUME (m + 1) + 1 <= Len(s) PROVE g[(m + 1) + 1] \in Seq(Y)
      OBVIOUS
    <2>1. (m + 1) + 1 \in 2..Len(s) /\ ((m + 1) + 1) - 1 = m + 1 /\ (m + 1) + 1 \in 1..Len(s) /\ m + 1 <= Len(s)
      BY <1>1
    <2>2. g[(m + 1) + 1] = g[m + 1] \o s[(m + 1) + 1]
      BY <1>5, <2>1
    <2>3. g[m + 1] \in Seq(Y) /\ s[(m + 1) + 1] \in Seq(Y)
      BY <1>1, <1>7, <2>1
    <2> QED
      BY <2>2, <2>3
  <1> HIDE DEF T
  <1>8. Nat \subseteq T
    BY <1>6, <1>7, SetInduction
  <1>9. ASSUME NEW i \in 1..Len(s) PROVE g[i] \in Seq(Y)
    <2>1. i - 1 \in Nat /\ (i - 1) + 1 = i /\ i <= Len(s)
      BY <1>1
    <2>2. i - 1 \in T
      BY <1>8, <2>1
    <2> QED
      BY <2>1, <2>2 DEF T
  <1> QED
    BY <1>3, <1>5, <1>9

\* Flattening, of nothing, of one more and of two sequences of sequences.
LEMMA FlattenEmpty == FlattenSeq(<<>>) = <<>>
  BY DEF FlattenSeq

LEMMA FlattenType ==
    ASSUME NEW Y, NEW s \in Seq(Seq(Y))
    PROVE  FlattenSeq(s) \in Seq(Y)
  <1>1. CASE s = <<>>
    <2>1. FlattenSeq(s) = <<>>
      BY <1>1, FlattenEmpty, Zenon
    <2> QED
      BY <2>1, EmptySeq
  <1>2. CASE s # <<>>
    <2>1. Len(s) \in 1..Len(s)
      BY <1>2, EmptySeq
    <2>2. PICK g : FlattenSeq(s) = g[Len(s)] /\ \A i \in 1..Len(s) : g[i] \in Seq(Y)
      BY <1>2, FlatSteps, Zenon
    <2> QED
      BY <2>1, <2>2
  <1> QED
    BY <1>1, <1>2

LEMMA FlattenAppend ==
    ASSUME NEW Y, NEW s \in Seq(Seq(Y)), NEW x \in Seq(Y)
    PROVE  FlattenSeq(Append(s, x)) = FlattenSeq(s) \o x
  <1> DEFINE t == Append(s, x)
             n == Len(s)
  <1>1. /\ t \in Seq(Seq(Y)) /\ t # <<>> /\ Len(t) = n + 1 /\ n \in Nat
        /\ \A i \in 1..n : t[i] = s[i]
        /\ t[n + 1] = x
    BY AppendProperties
  <1> HIDE DEF t
  <1>2. PICK h : /\ FlattenSeq(t) = h[Len(t)]
                 /\ h[1] = t[1]
                 /\ \A i \in 2..Len(t) : h[i] = h[i - 1] \o t[i]
                 /\ \A i \in 1..Len(t) : h[i] \in Seq(Y)
    BY <1>1, FlatSteps
  <1>3. CASE s = <<>>
    <2>1. n = 0 /\ FlattenSeq(s) = <<>> /\ FlattenSeq(t) = x
      BY <1>1, <1>2, <1>3, FlattenEmpty
    <2> QED
      BY <2>1, ConcatEmptySeq DEF t
  <1>4. CASE s # <<>>
    <2>1. n \in Nat \ {0}
      BY <1>4, EmptySeq
    <2>2. PICK g : /\ FlattenSeq(s) = g[n]
                   /\ g[1] = s[1]
                   /\ \A i \in 2..n : g[i] = g[i - 1] \o s[i]
      <3>1. PICK g : /\ FlattenSeq(s) = g[Len(s)]
                     /\ g[1] = s[1]
                     /\ \A i \in 2..Len(s) : g[i] = g[i - 1] \o s[i]
                     /\ \A i \in 1..Len(s) : g[i] \in Seq(Y)
        BY <1>4, FlatSteps
      <3> QED
        BY <3>1
    <2> DEFINE T == {m \in Nat : m + 1 <= n => h[m + 1] = g[m + 1]}
    <2>3. 0 \in T
      BY <1>1, <1>2, <2>1, <2>2
    <2>4. ASSUME NEW m \in Nat, m \in T PROVE m + 1 \in T
      <3> SUFFICES ASSUME (m + 1) + 1 <= n PROVE h[(m + 1) + 1] = g[(m + 1) + 1]
        OBVIOUS
      <3>1. /\ (m + 1) + 1 \in 2..n /\ ((m + 1) + 1) - 1 = m + 1 /\ (m + 1) + 1 \in 1..n
            /\ m + 1 <= n /\ (m + 1) + 1 \in 2..Len(t)
        BY <1>1
      <3>2. h[(m + 1) + 1] = h[m + 1] \o t[(m + 1) + 1] /\ g[(m + 1) + 1] = g[m + 1] \o s[(m + 1) + 1]
        BY <1>2, <2>2, <3>1
      <3>3. h[m + 1] = g[m + 1] /\ t[(m + 1) + 1] = s[(m + 1) + 1]
        BY <1>1, <2>4, <3>1
      <3> QED
        BY <3>2, <3>3
    <2> HIDE DEF T
    <2>5. Nat \subseteq T
      BY <2>3, <2>4, SetInduction
    <2>6. n - 1 \in T /\ (n - 1) + 1 = n
      BY <2>1, <2>5
    <2>7. h[n] = g[n]
      BY <2>1, <2>6 DEF T
    <2>8. n + 1 \in 2..Len(t) /\ (n + 1) - 1 = n
      BY <1>1, <2>1
    <2>9. h[n + 1] = h[n] \o x
      BY <1>1, <1>2, <2>8
    <2> QED
      BY <1>1, <1>2, <2>2, <2>7, <2>9 DEF t
  <1> QED
    BY <1>3, <1>4

LEMMA FlattenOne ==
    ASSUME NEW Y, NEW x \in Seq(Y)
    PROVE  FlattenSeq(<<x>>) = x
  <1>1. <<x>> = Append(<<>>, x) /\ <<>> \in Seq(Seq(Y))
    OBVIOUS
  <1>2. FlattenSeq(Append(<<>>, x)) = FlattenSeq(<<>>) \o x
    BY <1>1, FlattenAppend
  <1> QED
    BY <1>1, <1>2, FlattenEmpty, ConcatEmptySeq

LEMMA FlattenConcat ==
    ASSUME NEW Y, NEW s \in Seq(Seq(Y)), NEW t \in Seq(Seq(Y))
    PROVE  FlattenSeq(s \o t) = FlattenSeq(s) \o FlattenSeq(t)
  <1> DEFINE T == {m \in Nat : \A u \in Seq(Seq(Y)) : Len(u) = m =>
                     FlattenSeq(s \o u) = FlattenSeq(s) \o FlattenSeq(u)}
  <1>0. FlattenSeq(s) \in Seq(Y)
    BY FlattenType
  <1>1. 0 \in T
    <2> SUFFICES ASSUME NEW u \in Seq(Seq(Y)), Len(u) = 0
                 PROVE  FlattenSeq(s \o u) = FlattenSeq(s) \o FlattenSeq(u)
      OBVIOUS
    <2>1. u = <<>>
      BY EmptySeq
    <2>2. s \o u = s /\ FlattenSeq(s) \o <<>> = FlattenSeq(s)
      BY <1>0, <2>1, ConcatEmptySeq
    <2> QED
      BY <2>1, <2>2, FlattenEmpty
  <1>2. ASSUME NEW m \in Nat, m \in T PROVE m + 1 \in T
    <2> SUFFICES ASSUME NEW u \in Seq(Seq(Y)), Len(u) = m + 1
                 PROVE  FlattenSeq(s \o u) = FlattenSeq(s) \o FlattenSeq(u)
      OBVIOUS
    <2>1. u # <<>>
      BY EmptySeq
    <2>2. PICK v \in Seq(Seq(Y)), x \in Seq(Y) : u = Append(v, x)
      BY <2>1, SequenceEmptyOrAppend
    <2>3. Len(v) = m /\ s \o v \in Seq(Seq(Y))
      BY <2>2, AppendProperties
    <2>4. FlattenSeq(s \o v) = FlattenSeq(s) \o FlattenSeq(v)
      BY <1>2, <2>3
    <2>5. s \o u = Append(s \o v, x)
      BY <2>2, <2>3
    <2>6. FlattenSeq(s \o u) = FlattenSeq(s \o v) \o x /\ FlattenSeq(u) = FlattenSeq(v) \o x
      BY <2>2, <2>3, <2>5, FlattenAppend
    <2>7. FlattenSeq(v) \in Seq(Y)
      BY FlattenType
    <2>8. (FlattenSeq(s) \o FlattenSeq(v)) \o x = FlattenSeq(s) \o (FlattenSeq(v) \o x)
      <3>1. ASSUME NEW a \in Seq(Y), NEW b \in Seq(Y), NEW c \in Seq(Y)
            PROVE  (a \o b) \o c = a \o (b \o c)
        BY ConcatAssociative, SMTT(60)
      <3> QED
        BY <1>0, <2>7, <3>1, Zenon
    <2> QED
      BY <2>4, <2>6, <2>8, Zenon
  <1> HIDE DEF T
  <1>3. Nat \subseteq T
    BY <1>1, <1>2, SetInduction
  <1>4. Len(t) \in T
    BY <1>3
  <1> QED
    BY <1>4 DEF T

-----------------------------------------------------------------------------
\* The bytes of pieces and of parts.

\* Pieces, the places of bytes, and the bytes of each piece of a part.
Pieces == [line : Nat, from : Nat, to : Nat]
Positions == Nat \X Nat
Runs(part) == [k \in DOMAIN part |-> Run(part[k])]

LEMMA RunType ==
    ASSUME NEW p \in Pieces
    PROVE  Run(p) \in Seq(Positions) /\ (p.to <= p.from => Run(p) = <<>>)
  <1> DEFINE n == p.to - p.from
  <1>0. p.line \in Nat /\ p.from \in Nat /\ p.to \in Nat /\ n \in Int
    BY DEF Pieces
  <1>1. CASE n <= 0
    <2>1. 1..n = {}
      BY <1>0, <1>1
    <2>2. Run(p) = <<>>
      BY <2>1 DEF Run
    <2> QED
      BY <2>2, EmptySeq
  <1>2. CASE ~(n <= 0)
    <2>1. n \in Nat /\ ~(p.to <= p.from)
      BY <1>0, <1>2
    <2>2. \A k \in 1..n : <<p.line, p.from + k>> \in Positions
      BY <1>0 DEF Positions
    <2>3. Run(p) \in [1..n -> Positions]
      BY <2>2 DEF Run
    <2> QED
      BY <2>1, <2>3
  <1> QED
    BY <1>0, <1>1, <1>2

LEMMA RunsType ==
    ASSUME NEW part \in Seq(Pieces)
    PROVE  /\ Runs(part) \in Seq(Seq(Positions)) /\ Len(Runs(part)) = Len(part)
           /\ \A k \in 1..Len(part) : Runs(part)[k] = Run(part[k])
           /\ AllBytes(part) = FlattenSeq(Runs(part))
  <1>1. DOMAIN part = 1..Len(part) /\ Len(part) \in Nat
    BY LenProperties
  <1>2. \A k \in 1..Len(part) : Run(part[k]) \in Seq(Positions)
    BY RunType
  <1>3. Runs(part) \in [1..Len(part) -> Seq(Positions)]
    BY <1>1, <1>2 DEF Runs
  <1>4. Runs(part) \in Seq(Seq(Positions)) /\ Len(Runs(part)) = Len(part)
    BY <1>1, <1>3
  <1>5. \A k \in 1..Len(part) : Runs(part)[k] = Run(part[k])
    BY <1>1 DEF Runs
  <1>6. AllBytes(part) = FlattenSeq(Runs(part))
    BY Zenon DEF AllBytes, Runs
  <1> QED
    BY <1>4, <1>5, <1>6

\* The bytes of a part: of none, of one piece, of two parts together.
LEMMA AllBytesType ==
    ASSUME NEW part \in Seq(Pieces)
    PROVE  AllBytes(part) \in Seq(Positions)
  BY RunsType, FlattenType

LEMMA AllBytesEmpty == AllBytes(<<>>) = <<>>
  <1>1. Runs(<<>>) = <<>>
    BY DEF Runs
  <1> QED
    BY <1>1, FlattenEmpty DEF AllBytes, Runs

LEMMA AllBytesOne ==
    ASSUME NEW p \in Pieces
    PROVE  AllBytes(<<p>>) = Run(p)
  <1> DEFINE x == <<p>>
  <1>1. x \in Seq(Pieces) /\ Len(x) = 1 /\ x[1] = p
    OBVIOUS
  <1> HIDE DEF x
  <1>2. Len(Runs(x)) = 1 /\ Runs(x)[1] = Run(p) /\ Runs(x) \in Seq(Seq(Positions))
    BY <1>1, RunsType
  <1>3. Runs(x) = <<Run(p)>>
    BY <1>2
  <1>4. FlattenSeq(<<Run(p)>>) = Run(p)
    BY RunType, FlattenOne
  <1>5. AllBytes(x) = FlattenSeq(Runs(x))
    BY <1>1, RunsType
  <1> QED
    BY <1>3, <1>4, <1>5, Zenon DEF x

LEMMA AllBytesConcat ==
    ASSUME NEW s \in Seq(Pieces), NEW t \in Seq(Pieces)
    PROVE  AllBytes(s \o t) = AllBytes(s) \o AllBytes(t)
  <1> DEFINE u == s \o t
  <1>1. /\ u \in Seq(Pieces) /\ Len(u) = Len(s) + Len(t)
        /\ \A i \in 1..(Len(s) + Len(t)) : u[i] = IF i <= Len(s) THEN s[i] ELSE t[i - Len(s)]
    BY ConcatProperties
  <1>2. Len(s) \in Nat /\ Len(t) \in Nat
    OBVIOUS
  <1> HIDE DEF u
  <1>3. /\ Runs(s) \o Runs(t) \in Seq(Seq(Positions))
        /\ Len(Runs(s) \o Runs(t)) = Len(s) + Len(t)
        /\ \A i \in 1..(Len(s) + Len(t)) :
             (Runs(s) \o Runs(t))[i] = IF i <= Len(s) THEN Runs(s)[i] ELSE Runs(t)[i - Len(s)]
    <2>1. ASSUME NEW a \in Seq(Seq(Positions)), NEW b \in Seq(Seq(Positions))
          PROVE  /\ a \o b \in Seq(Seq(Positions)) /\ Len(a \o b) = Len(a) + Len(b)
                 /\ \A i \in 1..(Len(a) + Len(b)) : (a \o b)[i] = IF i <= Len(a) THEN a[i] ELSE b[i - Len(a)]
      BY ConcatProperties
    <2>2. /\ Runs(s) \in Seq(Seq(Positions)) /\ Runs(t) \in Seq(Seq(Positions))
          /\ Len(Runs(s)) = Len(s) /\ Len(Runs(t)) = Len(t)
      BY RunsType
    <2> DEFINE a == Runs(s)
               b == Runs(t)
    <2>3. a \in Seq(Seq(Positions)) /\ b \in Seq(Seq(Positions)) /\ Len(a) = Len(s) /\ Len(b) = Len(t)
      BY <2>2
    <2> HIDE DEF a, b
    <2>4. /\ a \o b \in Seq(Seq(Positions)) /\ Len(a \o b) = Len(a) + Len(b)
          /\ \A i \in 1..(Len(a) + Len(b)) : (a \o b)[i] = IF i <= Len(a) THEN a[i] ELSE b[i - Len(a)]
      BY <2>1, <2>3, Zenon
    <2>5. /\ a \o b \in Seq(Seq(Positions)) /\ Len(a \o b) = Len(s) + Len(t)
          /\ \A i \in 1..(Len(s) + Len(t)) : (a \o b)[i] = IF i <= Len(s) THEN a[i] ELSE b[i - Len(s)]
      BY <2>3, <2>4, Zenon
    <2> QED
      BY <2>5 DEF a, b
  <1>4. ASSUME NEW i \in 1..(Len(s) + Len(t))
        PROVE  Runs(u)[i] = (Runs(s) \o Runs(t))[i]
    <2>1. Runs(u)[i] = Run(u[i])
      BY <1>1, RunsType
    <2>2. CASE i <= Len(s)
      <3>1. i \in 1..Len(s)
        BY <1>2, <2>2
      <3> QED
        BY <1>1, <1>3, <2>1, <2>2, <3>1, RunsType
    <2>3. CASE ~(i <= Len(s))
      <3>1. i - Len(s) \in 1..Len(t)
        BY <1>2, <2>3
      <3> QED
        BY <1>1, <1>3, <2>1, <2>3, <3>1, RunsType
    <2> QED
      BY <2>2, <2>3
  <1>5. Runs(u) \in Seq(Seq(Positions)) /\ Len(Runs(u)) = Len(s) + Len(t)
    BY <1>1, RunsType
  <1>6. Runs(u) = Runs(s) \o Runs(t)
    BY <1>3, <1>4, <1>5, SeqEqual
  <1>7. FlattenSeq(Runs(s) \o Runs(t)) = FlattenSeq(Runs(s)) \o FlattenSeq(Runs(t))
    BY RunsType, FlattenConcat
  <1>8. /\ AllBytes(u) = FlattenSeq(Runs(u))
        /\ AllBytes(s) = FlattenSeq(Runs(s)) /\ AllBytes(t) = FlattenSeq(Runs(t))
    BY <1>1, RunsType
  <1>9. AllBytes(u) = AllBytes(s) \o AllBytes(t)
    BY <1>6, <1>7, <1>8, Zenon
  <1> QED
    BY <1>9, Zenon DEF u

\* The bytes of several parts.
PartBytes(parts) == AllBytes(FlattenSeq(parts))

LEMMA PartBytesType ==
    ASSUME NEW s \in Seq(Seq(Pieces))
    PROVE  FlattenSeq(s) \in Seq(Pieces) /\ PartBytes(s) \in Seq(Positions)
  BY FlattenType, AllBytesType DEF PartBytes

LEMMA PartBytesConcat ==
    ASSUME NEW s \in Seq(Seq(Pieces)), NEW t \in Seq(Seq(Pieces))
    PROVE  PartBytes(s \o t) = PartBytes(s) \o PartBytes(t)
  <1>1. FlattenSeq(s) \in Seq(Pieces) /\ FlattenSeq(t) \in Seq(Pieces)
    BY PartBytesType
  <1>2. FlattenSeq(s \o t) = FlattenSeq(s) \o FlattenSeq(t)
    BY FlattenConcat
  <1>3. AllBytes(FlattenSeq(s) \o FlattenSeq(t)) = AllBytes(FlattenSeq(s)) \o AllBytes(FlattenSeq(t))
    BY <1>1, AllBytesConcat
  <1> QED
    BY <1>2, <1>3, Zenon DEF PartBytes

LEMMA PartBytesAppend ==
    ASSUME NEW s \in Seq(Seq(Pieces)), NEW x \in Seq(Pieces)
    PROVE  PartBytes(Append(s, x)) = PartBytes(s) \o AllBytes(x)
  <1>1. FlattenSeq(s) \in Seq(Pieces)
    BY PartBytesType
  <1>2. FlattenSeq(Append(s, x)) = FlattenSeq(s) \o x
    BY FlattenAppend
  <1>3. AllBytes(FlattenSeq(s) \o x) = AllBytes(FlattenSeq(s)) \o AllBytes(x)
    BY <1>1, AllBytesConcat
  <1> QED
    BY <1>2, <1>3, Zenon DEF PartBytes

LEMMA PartBytesSmall ==
    /\ PartBytes(<<>>) = <<>>
    /\ \A x \in Seq(Pieces) : PartBytes(<<x>>) = AllBytes(x)
  <1>1. PartBytes(<<>>) = <<>>
    BY FlattenEmpty, AllBytesEmpty, Zenon DEF PartBytes
  <1>2. ASSUME NEW x \in Seq(Pieces) PROVE PartBytes(<<x>>) = AllBytes(x)
    <2>1. FlattenSeq(<<x>>) = x
      BY FlattenOne
    <2> QED
      BY <2>1, Zenon DEF PartBytes
  <1> QED
    BY <1>1, <1>2

-----------------------------------------------------------------------------
\* Lines, pieces and sizes.

\* The text is one of the texts, or none.
TextInv == lines \in Texts \cup {<<>>}

\* Lines and their pieces have their types, and lines are runes.
LEMMA LineFacts ==
    ASSUME TextInv
    PROVE  /\ lines \in Seq([bytes : Seq(BOOLEAN), fence : BOOLEAN])
           /\ Len(lines) \in Nat /\ DOMAIN lines = 1..Len(lines)
           /\ \A i \in 1..Len(lines) : /\ Bytes(i) \in Seq(BOOLEAN) /\ Len(Bytes(i)) \in Nat
                                       /\ lines[i].fence \in BOOLEAN
                                       /\ Runic(Bytes(i))
                                       /\ Piece(i) \in Pieces
  <1>1. lines \in Seq([bytes : Seq(BOOLEAN), fence : BOOLEAN])
    BY OutboundAssumption, EmptySeq DEF TextInv
  <1>2. Len(lines) \in Nat /\ DOMAIN lines = 1..Len(lines)
    BY <1>1, LenProperties
  <1>3. ASSUME NEW i \in 1..Len(lines)
        PROVE  /\ Bytes(i) \in Seq(BOOLEAN) /\ Len(Bytes(i)) \in Nat
               /\ lines[i].fence \in BOOLEAN
               /\ Runic(Bytes(i))
               /\ Piece(i) \in Pieces
    <2>1. lines[i] \in [bytes : Seq(BOOLEAN), fence : BOOLEAN]
      BY <1>1, ElementOfSeq
    <2>2. Bytes(i) \in Seq(BOOLEAN) /\ lines[i].fence \in BOOLEAN
      BY <2>1 DEF Bytes
    <2>3. Len(Bytes(i)) \in Nat
      BY <2>2, LenProperties
    <2>4. lines # <<>>
      BY <1>2
    <2>5. lines \in Texts
      BY <2>4 DEF TextInv
    <2>6. Runic(Bytes(i))
      BY <2>5, OutboundAssumption DEF Bytes
    <2>7. i \in Nat
      BY <1>2
    <2> QED
      BY <2>2, <2>3, <2>6, <2>7 DEF Piece, Pieces
  <1> QED
    BY <1>1, <1>2, <1>3

\* The whole text is its lines' pieces.
LEMMA WholeFacts ==
    ASSUME TextInv
    PROVE  /\ Whole \in Seq(Pieces) /\ Len(Whole) = Len(lines)
           /\ \A i \in 1..Len(lines) : Whole[i] = Piece(i)
  <1>1. Len(lines) \in Nat /\ DOMAIN lines = 1..Len(lines) /\ \A i \in 1..Len(lines) : Piece(i) \in Pieces
    BY LineFacts
  <1>2. Whole \in [1..Len(lines) -> Pieces] /\ \A i \in 1..Len(lines) : Whole[i] = Piece(i)
    BY <1>1 DEF Whole
  <1> QED
    BY <1>1, <1>2

LEMMA RunLength ==
    ASSUME NEW p \in Pieces, p.from <= p.to
    PROVE  Len(Run(p)) = p.to - p.from
  <1>1. p.to - p.from \in Nat
    BY DEF Pieces
  <1> QED
    BY <1>1 DEF Run

\* Neighbouring pieces of a line are a piece.
LEMMA RunsJoin ==
    ASSUME NEW i \in Nat, NEW a \in Nat, NEW b \in Nat, NEW c \in Nat, a <= b, b <= c
    PROVE  Run([line |-> i, from |-> a, to |-> b]) \o Run([line |-> i, from |-> b, to |-> c])
             = Run([line |-> i, from |-> a, to |-> c])
  <1> DEFINE p == [line |-> i, from |-> a, to |-> b]
             r == [line |-> i, from |-> b, to |-> c]
             w == [line |-> i, from |-> a, to |-> c]
  <1>0. /\ p \in Pieces /\ r \in Pieces /\ w \in Pieces
        /\ p.from = a /\ p.to = b /\ r.from = b /\ r.to = c /\ w.from = a /\ w.to = c
        /\ p.line = i /\ r.line = i /\ w.line = i
    BY DEF Pieces
  <1> HIDE DEF p, r, w
  <1>1. Run(p) \in Seq(Positions) /\ Run(r) \in Seq(Positions) /\ Run(w) \in Seq(Positions)
    BY <1>0, RunType
  <1>2. Len(Run(p)) = b - a /\ Len(Run(r)) = c - b /\ Len(Run(w)) = c - a
    <2>1. p.from <= p.to /\ r.from <= r.to /\ w.from <= w.to
      BY <1>0
    <2>2. Len(Run(p)) = p.to - p.from /\ Len(Run(r)) = r.to - r.from /\ Len(Run(w)) = w.to - w.from
      BY <1>0, <2>1, RunLength
    <2> QED
      BY <1>0, <2>2
  <1>3. /\ \A k \in 1..(b - a) : Run(p)[k] = <<i, a + k>>
        /\ \A k \in 1..(c - b) : Run(r)[k] = <<i, b + k>>
        /\ \A k \in 1..(c - a) : Run(w)[k] = <<i, a + k>>
    BY <1>0 DEF Run
  <1>4. /\ Run(p) \o Run(r) \in Seq(Positions)
        /\ Len(Run(p) \o Run(r)) = c - a
        /\ \A k \in 1..(c - a) : (Run(p) \o Run(r))[k] = IF k <= b - a THEN Run(p)[k] ELSE Run(r)[k - (b - a)]
    <2>1. (b - a) + (c - b) = c - a
      OBVIOUS
    <2>2. ASSUME NEW x \in Seq(Positions), NEW y \in Seq(Positions), Len(x) = b - a, Len(y) = c - b
          PROVE  /\ x \o y \in Seq(Positions)
                 /\ Len(x \o y) = c - a
                 /\ \A k \in 1..(c - a) : (x \o y)[k] = IF k <= b - a THEN x[k] ELSE y[k - (b - a)]
      <3>1. /\ x \o y \in Seq(Positions)
            /\ Len(x \o y) = Len(x) + Len(y)
            /\ \A k \in 1..(Len(x) + Len(y)) : (x \o y)[k] = IF k <= Len(x) THEN x[k] ELSE y[k - Len(x)]
        BY ConcatProperties
      <3>2. Len(x) + Len(y) = c - a
        BY <2>1, <2>2
      <3> QED
        BY <2>2, <3>1, <3>2, Zenon
    <2> QED
      BY <1>1, <1>2, <2>2
  <1>5. ASSUME NEW k \in 1..(c - a)
        PROVE  (Run(p) \o Run(r))[k] = Run(w)[k]
    <2>1. CASE k <= b - a
      <3>1. k \in 1..(b - a)
        BY <2>1
      <3> QED
        BY <1>3, <1>4, <2>1, <3>1
    <2>2. CASE ~(k <= b - a)
      <3>1. k - (b - a) \in 1..(c - b) /\ b + (k - (b - a)) = a + k
        BY <2>2
      <3> QED
        BY <1>3, <1>4, <2>2, <3>1
    <2> QED
      BY <2>1, <2>2
  <1>6. Run(p) \o Run(r) = Run(w)
    BY <1>1, <1>2, <1>4, <1>5, SeqEqual
  <1> QED
    BY <1>6 DEF p, r, w

\* The size of a part; a part of two pieces or more has at least a newline.
LEMMA SizeFacts ==
    ASSUME NEW part \in Seq(Pieces)
    PROVE  /\ Size(part) \in Nat
           /\ Size(part) = 0 => AllBytes(part) = <<>>
           /\ Len(part) >= 2 => Size(part) # 0
  <1>1. AllBytes(part) \in Seq(Positions)
    BY AllBytesType
  <1>2. Len(AllBytes(part)) \in Nat /\ (Len(AllBytes(part)) = 0 => AllBytes(part) = <<>>)
    BY <1>1, EmptySeq
  <1>3. Len(part) \in Nat /\ (part # <<>> => Len(part) \in Nat \ {0}) /\ (part = <<>> => Len(part) = 0)
    BY EmptySeq
  <1> QED
    BY <1>2, <1>3 DEF Size

LEMMA SizeOne ==
    ASSUME NEW p \in Pieces, p.from <= p.to
    PROVE  <<p>> \in Seq(Pieces) /\ Size(<<p>>) = p.to - p.from
  <1>1. AllBytes(<<p>>) = Run(p)
    BY AllBytesOne
  <1>2. Len(Run(p)) = p.to - p.from /\ p.to - p.from \in Nat
    BY RunLength DEF Pieces
  <1>3. Size(<<p>>) = Len(AllBytes(<<p>>)) + (1 - 1)
    BY DEF Size
  <1> QED
    BY <1>1, <1>2, <1>3

-----------------------------------------------------------------------------
\* forceSplit.

\* Least and greatest elements.
LEMMA MinFacts ==
    ASSUME NEW S \in SUBSET Nat, S # {}
    PROVE  Min(S) \in S /\ \A y \in S : Min(S) <= y
  <1>1. \E x \in S : \A y \in S : x <= y
    BY LeastNumber
  <1> QED
    BY <1>1 DEF Min

LEMMA MaxFacts ==
    ASSUME NEW n \in Nat, NEW S \in SUBSET (1..n), S # {}
    PROVE  Max(S) \in S /\ \A y \in S : Max(S) >= y
  <1> DEFINE T == {n - x : x \in S}
  <1>0. \A x \in S : x \in Nat /\ n - x \in Nat
    OBVIOUS
  <1>1. T \in SUBSET Nat /\ T # {}
    BY <1>0
  <1>2. PICK z \in T : \A y \in T : z <= y
    BY <1>1, LeastNumber
  <1>3. PICK x \in S : z = n - x
    BY <1>2
  <1>4. ASSUME NEW y \in S PROVE x >= y
    <2>1. z <= n - y
      BY <1>2
    <2> QED
      BY <1>3, <2>1
  <1>5. \E m \in S : \A y \in S : m >= y
    BY <1>4
  <1> QED
    BY <1>5 DEF Max

\* Byte from + 1 of line i begins a rune.
Begins(i, from) == from = Len(Bytes(i)) \/ Bytes(i)[from + 1]

\* The cut goes forward, not too far, and to the beginning of a rune.
LEMMA CutFacts ==
    ASSUME TextInv, NEW i \in 1..Len(lines), NEW from \in Nat, Len(Bytes(i)) - from > MaxLength
    PROVE  /\ CutAt(i, from) \in (from + 1)..Len(Bytes(i))
           /\ CutAt(i, from) <= from + MaxLength
           /\ Begins(i, CutAt(i, from))
  <1> DEFINE n == Len(Bytes(i))
             starts == {k \in 1..MaxLength : Bytes(i)[from + k + 1]}
  <1>0. MaxLength \in Nat \ {0} /\ n \in Nat /\ Runic(Bytes(i))
    BY OutboundAssumption, LineFacts
  <1>1. starts # {}
    <2>1. from + 1 \in 0..(n - MaxLength)
      BY <1>0
    <2>2. PICK k \in 1..MaxLength : Bytes(i)[(from + 1) + k]
      BY <1>0, <2>1 DEF Runic
    <2>3. (from + 1) + k = from + k + 1
      OBVIOUS
    <2>4. k \in starts
      BY <2>2, <2>3
    <2> QED
      BY <2>4
  <1>2. starts \in SUBSET (1..MaxLength)
    OBVIOUS
  <1> HIDE DEF n
  <1>3. Max(starts) \in starts
    <2> HIDE DEF starts
    <2> QED
      BY <1>0, <1>1, <1>2, MaxFacts
  <1>4. CutAt(i, from) = from + Max(starts)
    BY <1>1 DEF CutAt
  <1>5. PICK k : k = Max(starts)
    OBVIOUS
  <1>6. k \in 1..MaxLength /\ Bytes(i)[from + k + 1] /\ CutAt(i, from) = from + k
    BY <1>3, <1>4, <1>5
  <1>7. from + k \in (from + 1)..n /\ from + k <= from + MaxLength /\ (from + k) + 1 = from + k + 1
    BY <1>0, <1>6 DEF n
  <1> QED
    BY <1>6, <1>7 DEF Begins, n

\* The recursion of ForceSplit, from byte a on.
PieceOf(i, from, to) == [line |-> i, from |-> from, to |-> to]

CutBody(i, f, from) ==
    IF Len(Bytes(i)) - from > MaxLength
      THEN << <<PieceOf(i, from, CutAt(i, from))>> >> \o f[CutAt(i, from)]
      ELSE IF Len(Bytes(i)) > from THEN << <<PieceOf(i, from, Len(Bytes(i)))>> >> ELSE <<>>

CutsFrom(i, f, a) == f = [from \in a..Len(Bytes(i)) |-> CutBody(i, f, from)]

LEMMA ForceSplitUnfold ==
    ASSUME NEW i
    PROVE  ForceSplit(i) = (CHOOSE f : CutsFrom(i, f, 0))[0]
  BY DEF ForceSplit, CutsFrom, CutBody, PieceOf

\* It is defined: it is solved from the end of the line backwards.
LEMMA CutsExist ==
    ASSUME TextInv, NEW i \in 1..Len(lines)
    PROVE  \E f : CutsFrom(i, f, 0)
  <1> DEFINE n == Len(Bytes(i))
             T == {m \in Nat : m <= n => \E f : CutsFrom(i, f, n - m)}
  <1>0. n \in Nat /\ MaxLength \in Nat \ {0}
    BY LineFacts, OutboundAssumption
  <1>1. 0 \in T
    <2> DEFINE g == [x \in n..n |-> <<>>]
    <2>1. n - 0 = n /\ \A x \in n..n : x = n /\ ~(n - x > MaxLength) /\ ~(n > x)
      BY <1>0
    <2>2. \A x \in n..n : CutBody(i, g, x) = <<>>
      BY <2>1 DEF CutBody
    <2>3. CutsFrom(i, g, n)
      BY <2>2 DEF CutsFrom
    <2> QED
      BY <2>1, <2>3
  <1>2. ASSUME NEW m \in Nat, m \in T PROVE m + 1 \in T
    <2> SUFFICES ASSUME m + 1 <= n PROVE \E f : CutsFrom(i, f, n - (m + 1))
      OBVIOUS
    <2> DEFINE a == n - m
               b == n - (m + 1)
    <2>0. a \in Nat /\ b \in Nat /\ a = b + 1 /\ a <= n
      BY <1>0
    <2>1. PICK f : CutsFrom(i, f, a)
      BY <1>0, <1>2
    <2> DEFINE g == [x \in b..n |-> IF x = b THEN CutBody(i, f, b) ELSE f[x]]
    <2> HIDE DEF a, b, n
    <2>2. ASSUME NEW x \in b..n PROVE CutBody(i, f, x) = CutBody(i, g, x)
      <3>1. CASE n - x > MaxLength
        <4>1. x \in Nat
          BY <2>0
        <4>2. CutAt(i, x) \in (x + 1)..n
          BY <3>1, <4>1, CutFacts DEF n
        <4>3. CutAt(i, x) \in b..n /\ CutAt(i, x) # b
          BY <1>0, <2>0, <4>1, <4>2
        <4>4. g[CutAt(i, x)] = f[CutAt(i, x)]
          BY <4>3
        <4> QED
          BY <4>4 DEF CutBody
      <3>2. CASE ~(n - x > MaxLength)
        BY <3>2 DEF CutBody, n
      <3> QED
        BY <3>1, <3>2
    <2>3. ASSUME NEW x \in b..n PROVE g[x] = CutBody(i, g, x)
      <3>1. CASE x = b
        BY <2>2, <3>1
      <3>2. CASE x # b
        <4>1. x \in a..n
          BY <1>0, <2>0, <3>2
        <4>2. f[x] = CutBody(i, f, x)
          BY <2>1, <4>1 DEF CutsFrom, n
        <4> QED
          BY <2>2, <3>2, <4>2
      <3> QED
        BY <3>1, <3>2
    <2>4. g = [x \in b..n |-> CutBody(i, g, x)]
      BY <2>3
    <2>5. CutsFrom(i, g, b)
      BY <2>4 DEF CutsFrom, n
    <2> QED
      BY <2>5 DEF b, n
  <1> HIDE DEF T
  <1>3. n \in T
    BY <1>0, <1>1, <1>2, SetInduction
  <1>4. n <= n /\ n - n = 0
    BY <1>0
  <1> QED
    BY <1>3, <1>4 DEF T

\* A piece that cuts no rune, and a part that fits.
GoodPiece(p) == p.from = p.to \/ Bytes(p.line)[p.from + 1]
Good == {part \in Seq(Pieces) : Size(part) <= MaxLength /\ \A p \in ToSet(part) : GoodPiece(p)}

LEMMA GoodOne ==
    ASSUME NEW p \in Pieces, p.from <= p.to, p.to - p.from <= MaxLength, GoodPiece(p)
    PROVE  <<p>> \in Good
  <1>1. <<p>> \in Seq(Pieces) /\ Size(<<p>>) = p.to - p.from
    BY SizeOne
  <1>2. ToSet(<<p>>) = {p}
    BY DEF ToSet
  <1> QED
    BY <1>1, <1>2 DEF Good

\* What the rest of line i from byte x on becomes.
CutWell(i, f, x) ==
    /\ f[x] \in Seq(Seq(Pieces))
    /\ PartBytes(f[x]) = Run(PieceOf(i, x, Len(Bytes(i))))
    /\ Begins(i, x) => f[x] \in Seq(Good)

\* One cut, when what follows is cut well.
LEMMA CutStep ==
    ASSUME TextInv, NEW i \in 1..Len(lines), NEW f, NEW x \in 0..Len(Bytes(i)),
           f[x] = CutBody(i, f, x),
           Len(Bytes(i)) - x > MaxLength => CutWell(i, f, CutAt(i, x))
    PROVE  CutWell(i, f, x)
  <1> DEFINE n == Len(Bytes(i))
  <1>0. n \in Nat /\ MaxLength \in Nat \ {0} /\ x \in Nat /\ i \in Nat /\ x <= n
    BY LineFacts, OutboundAssumption
  <1>1. CASE n - x > MaxLength
    <2> DEFINE c == CutAt(i, x)
               p == PieceOf(i, x, c)
    <2>1. c \in (x + 1)..n /\ c <= x + MaxLength /\ Begins(i, c)
      BY <1>0, <1>1, CutFacts
    <2>2. f[x] = << <<p>> >> \o f[c]
      BY <1>1 DEF CutBody
    <2>3. f[c] \in Seq(Seq(Pieces)) /\ PartBytes(f[c]) = Run(PieceOf(i, c, n)) /\ f[c] \in Seq(Good)
      BY <1>1, <2>1 DEF CutWell
    <2> HIDE DEF n, c
    <2>4. c \in Nat /\ x <= c /\ c <= n /\ x < c /\ c - x <= MaxLength
      BY <1>0, <2>1
    <2>5. p \in Pieces /\ p.from = x /\ p.to = c /\ p.line = i
      BY <1>0, <2>4 DEF PieceOf, Pieces
    <2> HIDE DEF p
    <2>6. << <<p>> >> \in Seq(Seq(Pieces)) /\ <<p>> \in Seq(Pieces)
      BY <2>5
    <2>7. f[x] \in Seq(Seq(Pieces))
      BY <2>2, <2>3, <2>6
    <2>8. PartBytes(f[x]) = Run(PieceOf(i, x, n))
      <3>1. PartBytes(f[x]) = PartBytes(<< <<p>> >>) \o PartBytes(f[c])
        BY <2>2, <2>3, <2>6, PartBytesConcat
      <3>2. PartBytes(<< <<p>> >>) = AllBytes(<<p>>)
        BY <2>6, PartBytesSmall
      <3>3. AllBytes(<<p>>) = Run(p)
        BY <2>5, AllBytesOne
      <3>4. Run(PieceOf(i, x, c)) \o Run(PieceOf(i, c, n)) = Run(PieceOf(i, x, n))
        BY <1>0, <2>4, RunsJoin DEF PieceOf
      <3> QED
        BY <2>3, <3>1, <3>2, <3>3, <3>4, Zenon DEF p
    <2>9. ASSUME Begins(i, x) PROVE f[x] \in Seq(Good)
      <3>1. GoodPiece(p)
        <4>1. x # n
          BY <1>0, <2>4
        <4> QED
          BY <2>5, <2>9, <4>1 DEF GoodPiece, Begins, n
      <3>2. <<p>> \in Good
        BY <2>4, <2>5, <3>1, GoodOne
      <3>3. << <<p>> >> \in Seq(Good)
        BY <3>2
      <3> QED
        BY <2>2, <2>3, <3>3
    <2> QED
      BY <2>7, <2>8, <2>9 DEF CutWell, n
  <1>2. CASE ~(n - x > MaxLength) /\ n > x
    <2> DEFINE p == PieceOf(i, x, n)
    <2>1. f[x] = << <<p>> >>
      BY <1>2 DEF CutBody
    <2> HIDE DEF n
    <2>2. n - x <= MaxLength /\ x # n
      BY <1>0, <1>2
    <2>3. p \in Pieces /\ p.from = x /\ p.to = n /\ p.line = i
      BY <1>0 DEF PieceOf, Pieces
    <2> HIDE DEF p
    <2>4. << <<p>> >> \in Seq(Seq(Pieces)) /\ <<p>> \in Seq(Pieces)
      BY <2>3
    <2>5. PartBytes(f[x]) = Run(p)
      <3>1. PartBytes(<< <<p>> >>) = AllBytes(<<p>>)
        BY <2>4, PartBytesSmall
      <3>2. AllBytes(<<p>>) = Run(p)
        BY <2>3, AllBytesOne
      <3> QED
        BY <2>1, <3>1, <3>2, Zenon
    <2>6. ASSUME Begins(i, x) PROVE f[x] \in Seq(Good)
      <3>1. GoodPiece(p)
        BY <2>2, <2>3, <2>6 DEF GoodPiece, Begins, n
      <3>2. <<p>> \in Good
        BY <1>0, <2>2, <2>3, <3>1, GoodOne
      <3> QED
        BY <2>1, <3>2
    <2> QED
      BY <2>1, <2>4, <2>5, <2>6 DEF CutWell, n, p
  <1>3. CASE ~(n - x > MaxLength) /\ ~(n > x)
    <2>1. f[x] = <<>> /\ x = n
      BY <1>0, <1>3 DEF CutBody
    <2>2. Run(PieceOf(i, x, n)) = <<>>
      <3>1. PieceOf(i, x, n) \in Pieces /\ PieceOf(i, x, n).to <= PieceOf(i, x, n).from
        BY <1>0, <2>1 DEF PieceOf, Pieces
      <3> QED
        BY <3>1, RunType
    <2>3. <<>> \in Seq(Seq(Pieces)) /\ <<>> \in Seq(Good)
      OBVIOUS
    <2> QED
      BY <2>1, <2>2, <2>3, PartBytesSmall DEF CutWell
  <1> QED
    BY <1>1, <1>2, <1>3

\* forceSplit cuts a line into parts that are it, none too long, no rune cut.
LEMMA ForceSplitFacts ==
    ASSUME TextInv, NEW i \in 1..Len(lines)
    PROVE  /\ ForceSplit(i) \in Seq(Seq(Pieces)) /\ ForceSplit(i) \in Seq(Good)
           /\ PartBytes(ForceSplit(i)) = Run(Piece(i))
  <1> DEFINE n == Len(Bytes(i))
             f == CHOOSE f : CutsFrom(i, f, 0)
             T == {m \in Nat : \A x \in 0..n : n - x <= m => CutWell(i, f, x)}
  <1>0. n \in Nat /\ MaxLength \in Nat \ {0} /\ Runic(Bytes(i))
    BY LineFacts, OutboundAssumption
  <1>1. CutsFrom(i, f, 0)
    BY CutsExist
  <1>2. ForceSplit(i) = f[0]
    BY ForceSplitUnfold
  <1> HIDE DEF f
  <1>3. \A x \in 0..n : f[x] = CutBody(i, f, x)
    BY <1>1 DEF CutsFrom
  <1>4. 0 \in T
    <2> SUFFICES ASSUME NEW x \in 0..n, n - x <= 0 PROVE CutWell(i, f, x)
      OBVIOUS
    <2>1. ~(n - x > MaxLength)
      BY <1>0
    <2> QED
      BY <1>3, <2>1, CutStep
  <1>5. ASSUME NEW m \in Nat, m \in T PROVE m + 1 \in T
    <2> SUFFICES ASSUME NEW x \in 0..n, n - x <= m + 1 PROVE CutWell(i, f, x)
      OBVIOUS
    <2>1. ASSUME n - x > MaxLength PROVE CutWell(i, f, CutAt(i, x))
      <3>1. x \in Nat
        BY <1>0
      <3>2. CutAt(i, x) \in (x + 1)..n
        BY <2>1, <3>1, CutFacts
      <3>3. CutAt(i, x) \in 0..n /\ n - CutAt(i, x) <= m
        BY <1>0, <3>1, <3>2
      <3> QED
        BY <1>5, <3>3
    <2> QED
      BY <1>3, <2>1, CutStep
  <1> HIDE DEF T
  <1>6. n \in T
    BY <1>0, <1>4, <1>5, SetInduction
  <1>7. 0 \in 0..n /\ n - 0 <= n
    BY <1>0
  <1>8. CutWell(i, f, 0)
    BY <1>6, <1>7 DEF T
  <1>9. Begins(i, 0)
    <2>1. n # 0 => Bytes(i) # <<>>
      OBVIOUS
    <2> QED
      BY <1>0, <2>1 DEF Begins, Runic
  <1> QED
    BY <1>2, <1>8, <1>9 DEF CutWell, Piece, PieceOf
-----------------------------------------------------------------------------
\* splitText, one line or block at a time.

\* Lines i to j, as pieces.
LEMMA BlockFacts ==
    ASSUME TextInv, NEW i \in Nat \ {0}, NEW j \in Nat, i <= j + 1, j <= Len(lines)
    PROVE  /\ Block(i, j) \in Seq(Pieces) /\ Len(Block(i, j)) = j - i + 1
           /\ \A k \in 1..(j - i + 1) : Block(i, j)[k] = Piece(i + k - 1)
           /\ ToSet(Block(i, j)) = {Piece(k) : k \in i..j}
  <1>0. Len(lines) \in Nat /\ \A k \in i..j : k \in 1..Len(lines)
    BY LineFacts
  <1>1. \A k \in i..j : Whole[k] \in Pieces /\ Whole[k] = Piece(k)
    BY <1>0, WholeFacts, LineFacts
  <1>2. /\ Block(i, j) \in Seq(Pieces)
        /\ Len(Block(i, j)) = IF i <= j THEN j - i + 1 ELSE 0
        /\ \A k \in 1..(j - i + 1) : Block(i, j)[k] = Whole[i + k - 1]
    BY <1>1, SubSeqProperties DEF Block
  <1>3. Len(Block(i, j)) = j - i + 1
    BY <1>2
  <1>4. ASSUME NEW k \in 1..(j - i + 1) PROVE Block(i, j)[k] = Piece(i + k - 1)
    <2>1. i + k - 1 \in i..j
      OBVIOUS
    <2> QED
      BY <1>1, <1>2, <2>1
  <1>5. ToSet(Block(i, j)) = {Piece(k) : k \in i..j}
    <2> DEFINE b == Block(i, j)
    <2>1. b \in Seq(Pieces) /\ Len(b) = j - i + 1 /\ \A k \in 1..(j - i + 1) : b[k] = Piece(i + k - 1)
      BY <1>2, <1>3, <1>4
    <2> HIDE DEF b
    <2>2. DOMAIN b = 1..(j - i + 1)
      BY <2>1
    <2>3. ASSUME NEW k \in DOMAIN b PROVE b[k] \in {Piece(m) : m \in i..j}
      <3>1. i + k - 1 \in i..j /\ b[k] = Piece(i + k - 1)
        BY <2>1, <2>2
      <3> QED
        BY <3>1
    <2>4. ASSUME NEW m \in i..j PROVE Piece(m) \in {b[k] : k \in DOMAIN b}
      <3>1. m - i + 1 \in 1..(j - i + 1) /\ i + (m - i + 1) - 1 = m
        OBVIOUS
      <3>2. b[m - i + 1] = Piece(m)
        BY <2>1, <3>1
      <3> QED
        BY <2>2, <3>1, <3>2
    <2> QED
      BY <2>3, <2>4 DEF ToSet, b
  <1> QED
    BY <1>2, <1>3, <1>4, <1>5

\* The first h lines and those up to j are the first j lines.
LEMMA BlockJoin ==
    ASSUME TextInv, NEW h \in Nat, NEW j \in Nat, h <= j, j <= Len(lines)
    PROVE  AllBytes(Block(1, h)) \o AllBytes(Block(h + 1, j)) = AllBytes(Block(1, j))
  <1> DEFINE a == Block(1, h)
             b == Block(h + 1, j)
             c == Block(1, j)
  <1>0. h + 1 \in Nat \ {0} /\ 1 \in Nat \ {0} /\ 1 <= h + 1 /\ h + 1 <= j + 1 /\ 1 <= j + 1 /\ h <= Len(lines)
    BY LineFacts
  <1>1. a \in Seq(Pieces) /\ Len(a) = h - 1 + 1 /\ \A k \in 1..(h - 1 + 1) : a[k] = Piece(1 + k - 1)
    BY <1>0, BlockFacts
  <1>2. b \in Seq(Pieces) /\ Len(b) = j - (h + 1) + 1 /\ \A k \in 1..(j - (h + 1) + 1) : b[k] = Piece(h + 1 + k - 1)
    BY <1>0, BlockFacts
  <1>3. c \in Seq(Pieces) /\ Len(c) = j - 1 + 1 /\ \A k \in 1..(j - 1 + 1) : c[k] = Piece(1 + k - 1)
    BY <1>0, BlockFacts
  <1> HIDE DEF a, b, c
  <1>4. Len(a) = h /\ \A k \in 1..h : a[k] = Piece(k)
    <2>1. h - 1 + 1 = h /\ \A k \in 1..h : 1 + k - 1 = k
      OBVIOUS
    <2> QED
      BY <1>1, <2>1
  <1>5. Len(b) = j - h /\ \A k \in 1..(j - h) : b[k] = Piece(h + k)
    <2>1. j - (h + 1) + 1 = j - h /\ \A k \in 1..(j - h) : h + 1 + k - 1 = h + k
      OBVIOUS
    <2> QED
      BY <1>2, <2>1
  <1>6. Len(c) = j /\ \A k \in 1..j : c[k] = Piece(k)
    <2>1. j - 1 + 1 = j /\ \A k \in 1..j : 1 + k - 1 = k
      OBVIOUS
    <2> QED
      BY <1>3, <2>1
  <1>7. /\ a \o b \in Seq(Pieces) /\ Len(a \o b) = j
        /\ \A k \in 1..j : (a \o b)[k] = IF k <= h THEN a[k] ELSE b[k - h]
    <2>1. /\ a \o b \in Seq(Pieces) /\ Len(a \o b) = Len(a) + Len(b)
          /\ \A k \in 1..(Len(a) + Len(b)) : (a \o b)[k] = IF k <= Len(a) THEN a[k] ELSE b[k - Len(a)]
      BY <1>1, <1>2, ConcatProperties
    <2>2. Len(a) + Len(b) = j
      BY <1>4, <1>5
    <2> QED
      BY <1>4, <2>1, <2>2, Zenon
  <1>8. ASSUME NEW k \in 1..j PROVE (a \o b)[k] = c[k]
    <2>1. CASE k <= h
      <3>1. k \in 1..h
        BY <2>1
      <3> QED
        BY <1>4, <1>6, <1>7, <2>1, <3>1
    <2>2. CASE ~(k <= h)
      <3>1. k - h \in 1..(j - h) /\ h + (k - h) = k
        BY <2>2
      <3> QED
        BY <1>5, <1>6, <1>7, <2>2, <3>1
    <2> QED
      BY <2>1, <2>2
  <1>9. a \o b = c
    BY <1>3, <1>6, <1>7, <1>8, SeqEqual
  <1>10. AllBytes(a \o b) = AllBytes(a) \o AllBytes(b)
    BY <1>1, <1>2, AllBytesConcat
  <1> QED
    BY <1>9, <1>10, Zenon DEF a, b, c

LEMMA BlockEnds ==
    ASSUME TextInv
    PROVE  /\ Block(1, 0) = <<>>
           /\ Block(1, Len(lines)) = Whole
           /\ \A i \in 1..Len(lines) : Block(i, i) = <<Piece(i)>>
  <1>0. Len(lines) \in Nat
    BY LineFacts
  <1>1. Block(1, 0) = <<>>
    BY SubSeqEmpty DEF Block
  <1>2. Block(1, Len(lines)) = Whole
    <2> DEFINE b == Block(1, Len(lines))
               n == Len(lines)
    <2>0. 1 \in Nat \ {0} /\ n \in Nat /\ 1 <= n + 1 /\ n <= Len(lines)
      BY <1>0
    <2>1. b \in Seq(Pieces) /\ Len(b) = n - 1 + 1 /\ \A k \in 1..(n - 1 + 1) : b[k] = Piece(1 + k - 1)
      <3> HIDE DEF n
      <3>1. /\ Block(1, n) \in Seq(Pieces) /\ Len(Block(1, n)) = n - 1 + 1
            /\ \A k \in 1..(n - 1 + 1) : Block(1, n)[k] = Piece(1 + k - 1)
        BY <2>0, BlockFacts
      <3> QED
        BY <3>1 DEF n
    <2>2. Whole \in Seq(Pieces) /\ Len(Whole) = n /\ \A k \in 1..n : Whole[k] = Piece(k)
      BY WholeFacts
    <2> HIDE DEF b, n
    <2>3. n - 1 + 1 = n /\ \A k \in 1..n : 1 + k - 1 = k
      BY <1>0 DEF n
    <2>4. b = Whole
      BY <2>1, <2>2, <2>3, SeqEqual
    <2> QED
      BY <2>4 DEF b, n
  <1>3. ASSUME NEW i \in 1..Len(lines) PROVE Block(i, i) = <<Piece(i)>>
    <2>0. i \in Nat \ {0} /\ i \in Nat /\ i <= i + 1 /\ i <= Len(lines) /\ i - i + 1 = 1 /\ i + 1 - 1 = i
      BY <1>0
    <2>1. /\ Block(i, i) \in Seq(Pieces) /\ Len(Block(i, i)) = i - i + 1
          /\ \A k \in 1..(i - i + 1) : Block(i, i)[k] = Piece(i + k - 1)
      BY <2>0, BlockFacts
    <2>2. Len(Block(i, i)) = 1 /\ Block(i, i)[1] = Piece(i)
      BY <2>0, <2>1
    <2> HIDE DEF Block
    <2> QED
      BY <2>1, <2>2
  <1> QED
    BY <1>1, <1>2, <1>3

\* A whole line, and lines that fit, are good; so are good parts put together.
LEMMA PieceGood ==
    ASSUME TextInv, NEW i \in 1..Len(lines)
    PROVE  /\ Piece(i) \in Pieces /\ GoodPiece(Piece(i))
           /\ Piece(i).from = 0 /\ Piece(i).to = Len(Bytes(i)) /\ Piece(i).line = i
  <1>1. Len(Bytes(i)) \in Nat /\ Runic(Bytes(i)) /\ Piece(i) \in Pieces /\ Bytes(i) \in Seq(BOOLEAN)
    BY LineFacts
  <1>2. Piece(i).from = 0 /\ Piece(i).to = Len(Bytes(i)) /\ Piece(i).line = i
    BY DEF Piece
  <1>3. Len(Bytes(i)) # 0 => Bytes(i) # <<>>
    OBVIOUS
  <1> QED
    BY <1>1, <1>2, <1>3 DEF GoodPiece, Runic

LEMMA BlockGood ==
    ASSUME TextInv, NEW i \in Nat \ {0}, NEW j \in Nat, i <= j + 1, j <= Len(lines),
           Size(Block(i, j)) <= MaxLength
    PROVE  Block(i, j) \in Good
  <1>1. Block(i, j) \in Seq(Pieces) /\ ToSet(Block(i, j)) = {Piece(k) : k \in i..j}
    BY BlockFacts
  <1>2. \A k \in i..j : k \in 1..Len(lines)
    BY LineFacts
  <1>3. \A k \in i..j : GoodPiece(Piece(k))
    BY <1>2, PieceGood
  <1> HIDE DEF Block
  <1> QED
    BY <1>1, <1>3 DEF Good

LEMMA GoodType ==
    /\ \A s \in Seq(Good) : s \in Seq(Seq(Pieces))
    /\ \A x \in Good : x \in Seq(Pieces) /\ Size(x) <= MaxLength
    /\ <<>> \in Good
  <1>1. \A x \in Good : x \in Seq(Pieces) /\ Size(x) <= MaxLength
    BY DEF Good
  <1>2. \A s \in Seq(Good) : s \in Seq(Seq(Pieces))
    BY <1>1
  <1>3. Size(<<>>) = 0
    BY AllBytesEmpty DEF Size
  <1>4. ToSet(<<>>) = {}
    BY DEF ToSet
  <1>5. <<>> \in Good
    BY <1>3, <1>4, OutboundAssumption DEF Good
  <1> QED
    BY <1>1, <1>2, <1>5

LEMMA ToSetConcat ==
    ASSUME NEW Y, NEW s \in Seq(Y), NEW t \in Seq(Y)
    PROVE  ToSet(s \o t) = ToSet(s) \cup ToSet(t)
  <1> DEFINE u == s \o t
  <1>1. /\ u \in Seq(Y) /\ Len(u) = Len(s) + Len(t)
        /\ \A k \in 1..(Len(s) + Len(t)) : u[k] = IF k <= Len(s) THEN s[k] ELSE t[k - Len(s)]
    BY ConcatProperties
  <1>2. /\ DOMAIN u = 1..(Len(s) + Len(t)) /\ DOMAIN s = 1..Len(s) /\ DOMAIN t = 1..Len(t)
        /\ Len(s) \in Nat /\ Len(t) \in Nat
    BY <1>1
  <1> HIDE DEF u
  <1>3. ASSUME NEW k \in DOMAIN u PROVE u[k] \in ToSet(s) \cup ToSet(t)
    <2>1. CASE k <= Len(s)
      <3>1. k \in DOMAIN s /\ u[k] = s[k]
        BY <1>1, <1>2, <2>1
      <3> QED
        BY <3>1 DEF ToSet
    <2>2. CASE ~(k <= Len(s))
      <3>1. k - Len(s) \in DOMAIN t /\ u[k] = t[k - Len(s)]
        BY <1>1, <1>2, <2>2
      <3> QED
        BY <3>1 DEF ToSet
    <2> QED
      BY <2>1, <2>2
  <1>4. ASSUME NEW k \in DOMAIN s PROVE s[k] \in ToSet(u)
    <2>1. k \in DOMAIN u /\ u[k] = s[k]
      BY <1>1, <1>2
    <2> QED
      BY <2>1 DEF ToSet
  <1>5. ASSUME NEW k \in DOMAIN t PROVE t[k] \in ToSet(u)
    <2>1. k + Len(s) \in DOMAIN u /\ k + Len(s) \in 1..(Len(s) + Len(t)) /\ ~(k + Len(s) <= Len(s)) /\ k + Len(s) - Len(s) = k
      BY <1>2
    <2>2. u[k + Len(s)] = t[k]
      BY <1>1, <2>1
    <2> QED
      BY <2>1, <2>2 DEF ToSet
  <1>6. ToSet(u) = ToSet(s) \cup ToSet(t)
    BY <1>3, <1>4, <1>5 DEF ToSet
  <1> QED
    BY <1>6 DEF u

LEMMA GoodConcat ==
    ASSUME NEW s \in Good, NEW t \in Good, Size(s \o t) <= MaxLength
    PROVE  s \o t \in Good
  <1>1. s \in Seq(Pieces) /\ t \in Seq(Pieces)
    BY GoodType
  <1>2. ToSet(s \o t) = ToSet(s) \cup ToSet(t)
    BY <1>1, ToSetConcat
  <1>3. s \o t \in Seq(Pieces)
    BY <1>1
  <1>4. \A p \in ToSet(s) \cup ToSet(t) : GoodPiece(p)
    BY DEF Good
  <1> QED
    BY <1>2, <1>3, <1>4 DEF Good

\* The state of splitText: good chunks, a good current one, and the next line.
SplitStates == [chunks : Seq(Good), cur : Good, next : Nat]
TakenBytes(st) == PartBytes(st.chunks) \o AllBytes(st.cur)
Within(parts, S) == \E k \in 1..Len(parts) : S \subseteq ToSet(parts[k])
Holds(st, S) == S \subseteq ToSet(st.cur) \/ Within(st.chunks, S)

\* What is within one part stays there when parts are added.
LEMMA WithinConcat ==
    ASSUME NEW Y, NEW s \in Seq(Y), NEW t \in Seq(Y), NEW S, Within(s, S) \/ Within(t, S)
    PROVE  Within(s \o t, S)
  <1>1. /\ Len(s \o t) = Len(s) + Len(t) /\ Len(s) \in Nat /\ Len(t) \in Nat
        /\ \A k \in 1..(Len(s) + Len(t)) : (s \o t)[k] = IF k <= Len(s) THEN s[k] ELSE t[k - Len(s)]
    BY ConcatProperties, LenProperties
  <1>2. CASE Within(s, S)
    <2>1. PICK k \in 1..Len(s) : S \subseteq ToSet(s[k])
      BY <1>2 DEF Within
    <2>2. k \in 1..(Len(s) + Len(t)) /\ (s \o t)[k] = s[k]
      BY <1>1
    <2> QED
      BY <1>1, <2>1, <2>2 DEF Within
  <1>3. CASE Within(t, S)
    <2>1. PICK k \in 1..Len(t) : S \subseteq ToSet(t[k])
      BY <1>3 DEF Within
    <2>2. k + Len(s) \in 1..(Len(s) + Len(t)) /\ ~(k + Len(s) <= Len(s)) /\ k + Len(s) - Len(s) = k
      BY <1>1
    <2>3. (s \o t)[k + Len(s)] = t[k]
      BY <1>1, <2>2
    <2> QED
      BY <1>1, <2>1, <2>2, <2>3 DEF Within
  <1> QED
    BY <1>2, <1>3

LEMMA WithinAppend ==
    ASSUME NEW Y, NEW s \in Seq(Y), NEW x \in Y, NEW S, Within(s, S) \/ S \subseteq ToSet(x)
    PROVE  Within(Append(s, x), S)
  <1>1. Append(s, x) = s \o <<x>> /\ <<x>> \in Seq(Y)
    OBVIOUS
  <1>2. S \subseteq ToSet(x) => Within(<<x>>, S)
    BY DEF Within
  <1>3. Within(s, S) \/ Within(<<x>>, S)
    BY <1>2
  <1>4. Within(s \o <<x>>, S)
    BY <1>1, <1>3, WithinConcat
  <1> QED
    BY <1>1, <1>4

LEMMA SplitTypes ==
    ASSUME NEW st \in SplitStates
    PROVE  /\ st.chunks \in Seq(Good) /\ st.chunks \in Seq(Seq(Pieces)) /\ st.cur \in Good /\ st.cur \in Seq(Pieces)
           /\ st.next \in Nat
           /\ PartBytes(st.chunks) \in Seq(Positions) /\ AllBytes(st.cur) \in Seq(Positions)
           /\ TakenBytes(st) \in Seq(Positions)
  <1>1. st.chunks \in Seq(Good) /\ st.cur \in Good /\ st.next \in Nat
    BY DEF SplitStates
  <1>2. st.chunks \in Seq(Seq(Pieces)) /\ st.cur \in Seq(Pieces)
    BY <1>1, GoodType
  <1>3. PartBytes(st.chunks) \in Seq(Positions) /\ AllBytes(st.cur) \in Seq(Positions)
    BY <1>2, PartBytesType, AllBytesType
  <1>4. TakenBytes(st) \in Seq(Positions)
    BY <1>3 DEF TakenBytes
  <1> QED
    BY <1>1, <1>2, <1>3, <1>4

\* flush keeps the bytes and what is together.
LEMMA FlushedFacts ==
    ASSUME NEW st \in SplitStates
    PROVE  /\ Flushed(st) \in Seq(Good) /\ Flushed(st) \in Seq(Seq(Pieces))
           /\ PartBytes(Flushed(st)) = TakenBytes(st)
           /\ \A S : S # {} /\ Holds(st, S) => Within(Flushed(st), S)
  <1>1. /\ st.chunks \in Seq(Good) /\ st.chunks \in Seq(Seq(Pieces)) /\ st.cur \in Good /\ st.cur \in Seq(Pieces)
        /\ PartBytes(st.chunks) \in Seq(Positions)
    BY SplitTypes
  <1>2. CASE st.cur = <<>>
    <2>1. Flushed(st) = st.chunks
      BY <1>2 DEF Flushed
    <2>2. AllBytes(st.cur) = <<>>
      BY <1>2, AllBytesEmpty, Zenon
    <2>3. TakenBytes(st) = PartBytes(st.chunks)
      BY <1>1, <2>2, ConcatEmptySeq DEF TakenBytes
    <2>4. ToSet(st.cur) = {}
      BY <1>2 DEF ToSet
    <2> QED
      BY <1>1, <2>1, <2>3, <2>4 DEF Holds
  <1>3. CASE st.cur # <<>>
    <2>1. Flushed(st) = Append(st.chunks, st.cur)
      BY <1>3 DEF Flushed
    <2>2. PartBytes(Append(st.chunks, st.cur)) = TakenBytes(st)
      BY <1>1, PartBytesAppend DEF TakenBytes
    <2>3. Append(st.chunks, st.cur) \in Seq(Good) /\ Append(st.chunks, st.cur) \in Seq(Seq(Pieces))
      BY <1>1
    <2>4. ASSUME NEW S, Holds(st, S) PROVE Within(Append(st.chunks, st.cur), S)
      BY <1>1, <2>4, WithinAppend DEF Holds
    <2> QED
      BY <2>1, <2>2, <2>3, <2>4
  <1> QED
    BY <1>2, <1>3

\* What appendPiece does: the part follows what was taken, and what was together stays together.
Follows(r, st, bytes) ==
    /\ r \in SplitStates /\ r.next = st.next
    /\ TakenBytes(r) = TakenBytes(st) \o bytes
    /\ \A S : S # {} /\ Holds(st, S) => Holds(r, S)

\* appendPiece puts a good part after what was taken, and keeps it together.
LEMMA AppendPieceFacts ==
    ASSUME NEW st \in SplitStates, NEW part \in Good
    PROVE  /\ Follows(AppendPiece(st, part), st, AllBytes(part))
           /\ Size(part) # 0 => Holds(AppendPiece(st, part), ToSet(part))
  <1> DEFINE r == AppendPiece(st, part)
  <1>0. part \in Seq(Pieces) /\ AllBytes(part) \in Seq(Positions) /\ Size(part) \in Nat
        /\ (Size(part) = 0 => AllBytes(part) = <<>>)
    BY GoodType, AllBytesType, SizeFacts
  <1>1. /\ st.chunks \in Seq(Good) /\ st.chunks \in Seq(Seq(Pieces)) /\ st.cur \in Good /\ st.cur \in Seq(Pieces)
        /\ st.next \in Nat
        /\ PartBytes(st.chunks) \in Seq(Positions) /\ AllBytes(st.cur) \in Seq(Positions)
        /\ TakenBytes(st) \in Seq(Positions)
    BY SplitTypes
  <1>2. CASE Size(st.cur \o part) <= MaxLength /\ ~(st.cur = <<>> /\ Size(part) = 0)
    <2>1. r = [st EXCEPT !.chunks = st.chunks, !.cur = st.cur \o part]
      BY <1>2 DEF AppendPiece
    <2>2. st.cur \o part \in Good
      BY <1>1, <1>2, GoodConcat
    <2>3. r \in SplitStates /\ r.next = st.next /\ r.chunks = st.chunks /\ r.cur = st.cur \o part
      BY <1>1, <2>1, <2>2 DEF SplitStates
    <2> HIDE DEF r
    <2>4. AllBytes(r.cur) = AllBytes(st.cur) \o AllBytes(part)
      BY <1>0, <1>1, <2>3, AllBytesConcat
    <2>5. (PartBytes(st.chunks) \o AllBytes(st.cur)) \o AllBytes(part)
            = PartBytes(st.chunks) \o (AllBytes(st.cur) \o AllBytes(part))
      <3>1. ASSUME NEW a \in Seq(Positions), NEW b \in Seq(Positions), NEW c \in Seq(Positions)
            PROVE  (a \o b) \o c = a \o (b \o c)
        BY ConcatAssociative, SMTT(40)
      <3> QED
        BY <1>0, <1>1, <3>1, Zenon
    <2>6. TakenBytes(r) = TakenBytes(st) \o AllBytes(part)
      BY <2>3, <2>4, <2>5, Zenon DEF TakenBytes
    <2>7. ToSet(r.cur) = ToSet(st.cur) \cup ToSet(part)
      BY <1>0, <1>1, <2>3, ToSetConcat
    <2>8. Holds(r, ToSet(part)) /\ \A S : Holds(st, S) => Holds(r, S)
      BY <2>3, <2>7 DEF Holds
    <2> QED
      BY <2>3, <2>6, <2>8 DEF Follows, r
  <1>3. CASE Size(st.cur \o part) <= MaxLength /\ st.cur = <<>> /\ Size(part) = 0
    <2>1. r = [st EXCEPT !.chunks = st.chunks, !.cur = <<>>]
      BY <1>3 DEF AppendPiece
    <2>2. r = st
      BY <1>1, <1>3, <2>1 DEF SplitStates
    <2>3. TakenBytes(st) = TakenBytes(st) \o AllBytes(part)
      BY <1>0, <1>1, <1>3, ConcatEmptySeq
    <2> QED
      BY <1>3, <2>2, <2>3 DEF Follows
  <1>4. CASE ~(Size(st.cur \o part) <= MaxLength)
    <2> DEFINE c == IF Size(part) = 0 THEN <<>> ELSE <<>> \o part
    <2>1. r = [st EXCEPT !.chunks = Flushed(st), !.cur = c]
      BY <1>4 DEF AppendPiece
    <2>2. <<>> \o part = part
      BY <1>0, ConcatEmptySeq
    <2>3. c \in Good /\ c \in Seq(Pieces)
      BY <1>0, <2>2, GoodType
    <2>4. AllBytes(c) = AllBytes(part)
      <3>1. CASE Size(part) = 0
        BY <1>0, <3>1, AllBytesEmpty
      <3>2. CASE Size(part) # 0
        BY <2>2, <3>2
      <3> QED
        BY <3>1, <3>2
    <2>5. Size(part) # 0 => c = part
      BY <2>2
    <2> HIDE DEF c
    <2>6. /\ Flushed(st) \in Seq(Good) /\ Flushed(st) \in Seq(Seq(Pieces))
          /\ PartBytes(Flushed(st)) = TakenBytes(st)
          /\ \A S : S # {} /\ Holds(st, S) => Within(Flushed(st), S)
      BY FlushedFacts
    <2>7. r \in SplitStates /\ r.next = st.next /\ r.chunks = Flushed(st) /\ r.cur = c
      BY <1>1, <2>1, <2>3, <2>6 DEF SplitStates
    <2> HIDE DEF r
    <2>8. TakenBytes(r) = TakenBytes(st) \o AllBytes(part)
      BY <2>4, <2>6, <2>7, Zenon DEF TakenBytes
    <2>9. \A S : S # {} /\ Holds(st, S) => Holds(r, S)
      BY <2>6, <2>7 DEF Holds
    <2>10. Size(part) # 0 => Holds(r, ToSet(part))
      BY <2>5, <2>7 DEF Holds
    <2> QED
      BY <2>7, <2>8, <2>9, <2>10 DEF Follows, r
  <1> QED
    BY <1>2, <1>3, <1>4

\* appendLine puts a line after what was taken, also one that is too long.
LEMMA AppendLineFacts ==
    ASSUME TextInv, NEW st \in SplitStates, NEW i \in 1..Len(lines)
    PROVE  Follows(AppendLine(st, i), st, AllBytes(Block(i, i)))
  <1> DEFINE r == AppendLine(st, i)
  <1>0. /\ Block(i, i) = <<Piece(i)>> /\ Piece(i) \in Pieces /\ GoodPiece(Piece(i))
        /\ Piece(i).from = 0 /\ Piece(i).to = Len(Bytes(i)) /\ Len(Bytes(i)) \in Nat
        /\ AllBytes(<<Piece(i)>>) = Run(Piece(i))
    BY BlockEnds, PieceGood, LineFacts, AllBytesOne
  <1>1. CASE Len(Bytes(i)) > MaxLength
    <2>1. r = [st EXCEPT !.chunks = Flushed(st) \o ForceSplit(i), !.cur = <<>>]
      BY <1>1 DEF AppendLine
    <2>2. /\ Flushed(st) \in Seq(Good) /\ Flushed(st) \in Seq(Seq(Pieces))
          /\ PartBytes(Flushed(st)) = TakenBytes(st)
          /\ \A S : S # {} /\ Holds(st, S) => Within(Flushed(st), S)
      BY FlushedFacts
    <2>3. /\ ForceSplit(i) \in Seq(Seq(Pieces)) /\ ForceSplit(i) \in Seq(Good)
          /\ PartBytes(ForceSplit(i)) = Run(Piece(i))
      BY ForceSplitFacts
    <2> DEFINE fs == ForceSplit(i)
               fl == Flushed(st)
    <2> HIDE DEF fs, fl
    <2>4. fl \o fs \in Seq(Good) /\ fl \o fs \in Seq(Seq(Pieces))
      BY <2>2, <2>3 DEF fs, fl
    <2>5. r \in SplitStates /\ r.next = st.next /\ r.chunks = fl \o fs /\ r.cur = <<>>
      BY <2>1, <2>4, GoodType DEF SplitStates, fl, fs
    <2> HIDE DEF r
    <2>6. PartBytes(fl \o fs) = PartBytes(fl) \o PartBytes(fs)
      BY <2>2, <2>3, PartBytesConcat DEF fs, fl
    <2>7. PartBytes(fl \o fs) \in Seq(Positions)
      BY <2>4, PartBytesType
    <2>8. TakenBytes(r) = PartBytes(fl \o fs)
      <3>1. AllBytes(r.cur) = <<>>
        BY <2>5, AllBytesEmpty, Zenon
      <3>2. PartBytes(fl \o fs) \o <<>> = PartBytes(fl \o fs)
        BY <2>7, ConcatEmptySeq
      <3> QED
        BY <2>5, <3>1, <3>2, Zenon DEF TakenBytes
    <2>9. TakenBytes(r) = TakenBytes(st) \o AllBytes(Block(i, i))
      BY <1>0, <2>2, <2>3, <2>6, <2>8, Zenon DEF fs, fl
    <2>10. ASSUME NEW S, S # {}, Holds(st, S) PROVE Holds(r, S)
      <3>1. Within(fl, S)
        BY <2>2, <2>10 DEF fl
      <3>2. Within(fl \o fs, S)
        BY <2>2, <2>3, <3>1, WithinConcat DEF fs, fl
      <3> QED
        BY <2>5, <3>2 DEF Holds
    <2> QED
      BY <2>5, <2>9, <2>10 DEF Follows, r
  <1>2. CASE ~(Len(Bytes(i)) > MaxLength)
    <2>1. r = AppendPiece(st, <<Piece(i)>>)
      BY <1>2 DEF AppendLine
    <2>2. Piece(i).to - Piece(i).from <= MaxLength /\ Piece(i).from <= Piece(i).to
      BY <1>0, <1>2, OutboundAssumption
    <2>3. <<Piece(i)>> \in Good
      BY <1>0, <2>2, GoodOne
    <2>4. Follows(AppendPiece(st, <<Piece(i)>>), st, AllBytes(<<Piece(i)>>))
      BY <2>3, AppendPieceFacts
    <2> QED
      BY <1>0, <2>1, <2>4, Zenon
  <1> QED
    BY <1>1, <1>2

-----------------------------------------------------------------------------
\* splitText: what holds when line i has been seen.

\* The fences up to line i, the end of the block of line i, and no block too long so far.
Fences(i) == {k \in 1..i : lines[k].fence}
FenceEnd(i) == Min(FencesAfter(i))
AllFit(i) == \A k \in 1..i : Opens(k) => Fits(k)

\* The last line that was taken: a block is taken whole.
LastTaken(st, i) == IF i < st.next THEN st.next - 1 ELSE i

\* The first h lines have been taken.
Took(st, h) ==
    /\ h <= Len(lines)
    /\ TakenBytes(st) = AllBytes(Block(1, h))
    /\ AllFit(h) => Cardinality(Fences(h)) % 2 = 0 \/ FencesAfter(h) = {}
    /\ \A j \in 1..h : Opens(j) /\ AllFit(j) => Holds(st, ToSet(Block(j, FenceEnd(j))))

SplitInv(st, i) == st \in SplitStates /\ Took(st, LastTaken(st, i))

\* findFenceEnd: a later fence, and none before it.
LEMMA FenceFacts ==
    ASSUME TextInv, NEW i \in 1..Len(lines), FencesAfter(i) # {}
    PROVE  /\ FenceEnd(i) \in (i + 1)..Len(lines) /\ lines[FenceEnd(i)].fence
           /\ \A k \in (i + 1)..(FenceEnd(i) - 1) : ~lines[k].fence
  <1>0. Len(lines) \in Nat /\ DOMAIN lines = 1..Len(lines)
    BY LineFacts
  <1>1. FencesAfter(i) \in SUBSET Nat
    BY <1>0 DEF FencesAfter
  <1>2. FenceEnd(i) \in FencesAfter(i) /\ \A y \in FencesAfter(i) : FenceEnd(i) <= y
    BY <1>1, MinFacts DEF FenceEnd
  <1>3. FenceEnd(i) \in 1..Len(lines) /\ FenceEnd(i) > i /\ lines[FenceEnd(i)].fence
    BY <1>0, <1>2 DEF FencesAfter
  <1>4. FenceEnd(i) \in (i + 1)..Len(lines)
    BY <1>0, <1>3
  <1>5. ASSUME NEW k \in (i + 1)..(FenceEnd(i) - 1) PROVE ~lines[k].fence
    <2>1. k \in 1..Len(lines) /\ k > i /\ ~(FenceEnd(i) <= k)
      BY <1>0, <1>3
    <2> QED
      BY <1>0, <1>2, <2>1 DEF FencesAfter
  <1> QED
    BY <1>3, <1>4, <1>5

\* How many fences there are at the next one.
LEMMA FenceCount ==
    ASSUME NEW h \in Nat, NEW e \in Nat, h < e, \A k \in (h + 1)..(e - 1) : ~lines[k].fence
    PROVE  /\ Cardinality(Fences(h)) \in Nat
           /\ ~lines[e].fence => Fences(e) = Fences(h)
           /\ lines[e].fence => Cardinality(Fences(e)) = Cardinality(Fences(h)) + 1
  <1>1. IsFiniteSet(Fences(h)) /\ Cardinality(Fences(h)) \in Nat
    <2>1. IsFiniteSet(1..h)
      BY FS_Interval
    <2>2. Fences(h) \in SUBSET (1..h)
      BY DEF Fences
    <2>3. IsFiniteSet(Fences(h))
      BY <2>1, <2>2, FS_Subset
    <2> QED
      BY <2>3, FS_CardinalityType
  <1>2. \A k : k \in 1..e <=> k \in 1..h \/ k \in (h + 1)..(e - 1) \/ k = e
    OBVIOUS
  <1>3. ASSUME ~lines[e].fence PROVE Fences(e) = Fences(h)
    BY <1>2, <1>3 DEF Fences
  <1>4. ASSUME lines[e].fence PROVE Cardinality(Fences(e)) = Cardinality(Fences(h)) + 1
    <2>1. Fences(e) = Fences(h) \cup {e}
      BY <1>2, <1>4 DEF Fences
    <2>2. e \notin Fences(h)
      BY DEF Fences
    <2>3. Cardinality(Fences(h) \cup {e}) = Cardinality(Fences(h)) + 1
      BY <1>1, <2>2, FS_AddElement
    <2> QED
      BY <2>1, <2>3
  <1> QED
    BY <1>1, <1>3, <1>4

LEMMA OpensFacts ==
    ASSUME TextInv, NEW j \in 1..Len(lines)
    PROVE  Opens(j) <=> lines[j].fence /\ Cardinality(Fences(j)) % 2 = 1 /\ FencesAfter(j) # {}
  BY DEF Opens, Fences

\* A block that opens is a set of pieces, and not empty.
LEMMA BlockSet ==
    ASSUME TextInv, NEW j \in 1..Len(lines), FencesAfter(j) # {}
    PROVE  ToSet(Block(j, FenceEnd(j))) # {}
  <1>1. FenceEnd(j) \in (j + 1)..Len(lines) /\ Len(lines) \in Nat
    BY FenceFacts, LineFacts
  <1>2. j \in Nat \ {0} /\ FenceEnd(j) \in Nat /\ j <= FenceEnd(j) + 1 /\ FenceEnd(j) <= Len(lines) /\ j \in j..FenceEnd(j)
    BY <1>1
  <1>3. ToSet(Block(j, FenceEnd(j))) = {Piece(k) : k \in j..FenceEnd(j)}
    BY <1>2, BlockFacts
  <1> QED
    BY <1>2, <1>3

LEMMA Parity ==
    ASSUME NEW c \in Nat, c % 2 = 0
    PROVE  (c + 1) % 2 = 1 /\ ((c + 1) + 1) % 2 = 0
  OBVIOUS

\* A fence after lines whose blocks all fit opens a block.
LEMMA FenceOpens ==
    ASSUME TextInv, NEW st, NEW i \in 1..Len(lines), Took(st, i - 1), AllFit(i - 1), lines[i].fence
    PROVE  /\ Cardinality(Fences(i - 1)) \in Nat /\ Cardinality(Fences(i - 1)) % 2 = 0
           /\ Cardinality(Fences(i)) = Cardinality(Fences(i - 1)) + 1
           /\ Cardinality(Fences(i)) % 2 = 1
           /\ FencesAfter(i) # {} => Opens(i)
  <1>0. Len(lines) \in Nat /\ DOMAIN lines = 1..Len(lines)
    BY LineFacts
  <1>1. i \in FencesAfter(i - 1)
    BY <1>0 DEF FencesAfter
  <1>2. Cardinality(Fences(i - 1)) % 2 = 0
    BY <1>1 DEF Took
  <1>3. i - 1 \in Nat /\ i \in Nat /\ i - 1 < i /\ \A k \in ((i - 1) + 1)..(i - 1) : ~lines[k].fence
    BY <1>0
  <1>4. Cardinality(Fences(i - 1)) \in Nat /\ Cardinality(Fences(i)) = Cardinality(Fences(i - 1)) + 1
    BY <1>3, FenceCount
  <1>5. Cardinality(Fences(i)) % 2 = 1
    <2> DEFINE c == Cardinality(Fences(i - 1))
    <2>1. c \in Nat /\ c % 2 = 0
      BY <1>2, <1>4
    <2> HIDE DEF c
    <2>2. (c + 1) % 2 = 1
      BY <2>1, Parity
    <2> QED
      BY <1>4, <2>2 DEF c
  <1> QED
    BY <1>2, <1>4, <1>5, OpensFacts

\* A line, or a part of it, at a time.
LEMMA LineTaken ==
    ASSUME TextInv, NEW st \in SplitStates, NEW i \in 1..Len(lines), Took(st, i - 1), ~KeepsBlock(i),
           NEW r, Follows(r, st, AllBytes(Block(i, i)))
    PROVE  Took(r, i)
  <1>0. Len(lines) \in Nat /\ DOMAIN lines = 1..Len(lines) /\ i \in Nat /\ i - 1 \in Nat
    BY LineFacts
  <1>1. i <= Len(lines)
    BY <1>0
  <1>2. TakenBytes(r) = AllBytes(Block(1, i))
    <2>1. TakenBytes(st) = AllBytes(Block(1, i - 1)) /\ TakenBytes(r) = TakenBytes(st) \o AllBytes(Block(i, i))
      BY DEF Took, Follows
    <2>2. AllBytes(Block(1, i - 1)) \o AllBytes(Block((i - 1) + 1, i)) = AllBytes(Block(1, i))
      <3>1. i - 1 <= i
        BY <1>0
      <3> QED
        BY <1>0, <1>1, <3>1, BlockJoin
    <2>3. (i - 1) + 1 = i
      BY <1>0
    <2> QED
      BY <2>1, <2>2, <2>3, Zenon
  <1>3. AllFit(i) => AllFit(i - 1)
    <2>1. \A k \in 1..(i - 1) : k \in 1..i
      BY <1>0
    <2> QED
      BY <2>1 DEF AllFit
  <1>4. AllFit(i) => ~Opens(i)
    <2> SUFFICES ASSUME AllFit(i), Opens(i) PROVE FALSE
      OBVIOUS
    <2>1. Fits(i)
      BY <1>0 DEF AllFit
    <2> QED
      BY <2>1 DEF Opens, Fits, KeepsBlock
  <1>5. ASSUME AllFit(i) PROVE Cardinality(Fences(i)) % 2 = 0 \/ FencesAfter(i) = {}
    <2>1. CASE lines[i].fence
      BY <1>3, <1>4, <1>5, <2>1, FenceOpens
    <2>2. CASE ~lines[i].fence
      <3>1. i - 1 < i /\ \A k \in ((i - 1) + 1)..(i - 1) : ~lines[k].fence
        BY <1>0
      <3>2. Fences(i) = Fences(i - 1)
        BY <1>0, <2>2, <3>1, FenceCount
      <3>3. FencesAfter(i) \subseteq FencesAfter(i - 1)
        BY <1>0 DEF FencesAfter
      <3>4. Cardinality(Fences(i - 1)) % 2 = 0 \/ FencesAfter(i - 1) = {}
        BY <1>3, <1>5 DEF Took
      <3> QED
        BY <3>2, <3>3, <3>4
    <2> QED
      BY <2>1, <2>2
  <1>6. ASSUME NEW j \in 1..i, Opens(j), AllFit(j) PROVE Holds(r, ToSet(Block(j, FenceEnd(j))))
    <2>1. j # i
      BY <1>4, <1>6
    <2>2. j \in 1..(i - 1) /\ j \in 1..Len(lines)
      BY <1>0, <2>1
    <2>3. Holds(st, ToSet(Block(j, FenceEnd(j))))
      BY <1>6, <2>2 DEF Took
    <2>4. ToSet(Block(j, FenceEnd(j))) # {}
      BY <1>6, <2>2, BlockSet DEF Opens
    <2> QED
      BY <2>3, <2>4 DEF Follows
  <1> QED
    BY <1>1, <1>2, <1>5, <1>6 DEF Took

\* A whole block.
LEMMA BlockTaken ==
    ASSUME TextInv, NEW st \in SplitStates, NEW i \in 1..Len(lines), Took(st, i - 1), KeepsBlock(i),
           NEW r, Follows(r, st, AllBytes(Block(i, FenceEnd(i)))), Holds(r, ToSet(Block(i, FenceEnd(i))))
    PROVE  Took(r, FenceEnd(i))
  <1> DEFINE e == FenceEnd(i)
  <1>0. Len(lines) \in Nat /\ DOMAIN lines = 1..Len(lines) /\ i \in Nat /\ i - 1 \in Nat /\ (i - 1) + 1 = i
    BY LineFacts
  <1>1. e \in (i + 1)..Len(lines) /\ lines[e].fence /\ \A k \in (i + 1)..(e - 1) : ~lines[k].fence
    BY FenceFacts DEF KeepsBlock
  <1>2. lines[i].fence /\ FencesAfter(i) # {}
    BY DEF KeepsBlock
  <1> HIDE DEF e
  <1>3. e \in Nat /\ i < e /\ i - 1 <= e /\ e <= Len(lines) /\ e \in 1..Len(lines)
    BY <1>0, <1>1
  <1>4. TakenBytes(r) = AllBytes(Block(1, e))
    <2>1. TakenBytes(st) = AllBytes(Block(1, i - 1)) /\ TakenBytes(r) = TakenBytes(st) \o AllBytes(Block(i, e))
      BY DEF Took, Follows, e
    <2>2. AllBytes(Block(1, i - 1)) \o AllBytes(Block((i - 1) + 1, e)) = AllBytes(Block(1, e))
      BY <1>0, <1>3, BlockJoin
    <2> QED
      BY <1>0, <2>1, <2>2, Zenon
  <1>5. ASSUME AllFit(e) PROVE Cardinality(Fences(e)) % 2 = 0
    <2>1. AllFit(i - 1)
      <3>1. \A k \in 1..(i - 1) : k \in 1..e
        BY <1>0, <1>3
      <3> QED
        BY <1>5, <3>1 DEF AllFit
    <2>2. /\ Cardinality(Fences(i - 1)) \in Nat /\ Cardinality(Fences(i - 1)) % 2 = 0
          /\ Cardinality(Fences(i)) = Cardinality(Fences(i - 1)) + 1
      BY <1>2, <2>1, FenceOpens
    <2>3. Cardinality(Fences(e)) = Cardinality(Fences(i)) + 1
      BY <1>0, <1>1, <1>3, FenceCount
    <2> DEFINE c == Cardinality(Fences(i - 1))
    <2>4. c \in Nat /\ c % 2 = 0 /\ Cardinality(Fences(e)) = (c + 1) + 1
      BY <2>2, <2>3
    <2> HIDE DEF c
    <2>5. ((c + 1) + 1) % 2 = 0
      BY <2>4, Parity
    <2> QED
      BY <2>4, <2>5
  <1>6. ASSUME NEW j \in 1..e, Opens(j), AllFit(j) PROVE Holds(r, ToSet(Block(j, FenceEnd(j))))
    <2>1. CASE j \in 1..(i - 1)
      <3>1. j \in 1..Len(lines)
        BY <1>0, <2>1
      <3>2. Holds(st, ToSet(Block(j, FenceEnd(j))))
        BY <1>6, <2>1 DEF Took
      <3>3. ToSet(Block(j, FenceEnd(j))) # {}
        BY <1>6, <3>1, BlockSet DEF Opens
      <3> QED
        BY <3>2, <3>3 DEF Follows
    <2>2. CASE j = i
      BY <2>2
    <2>3. CASE j \in (i + 1)..(e - 1)
      BY <1>1, <1>6, <2>3 DEF Opens
    <2>4. CASE j = e
      <3>1. Cardinality(Fences(e)) % 2 = 0
        BY <1>5, <1>6, <2>4
      <3>2. Cardinality(Fences(e)) % 2 = 1
        BY <1>3, <1>6, <2>4, OpensFacts
      <3> QED
        BY <3>1, <3>2
    <2> QED
      BY <1>0, <1>3, <2>1, <2>2, <2>3, <2>4
  <1> QED
    BY <1>3, <1>4, <1>5, <1>6 DEF Took, e

\* splitText goes on by one line.
LEMMA SplitStepFacts ==
    ASSUME TextInv, NEW st \in SplitStates, NEW i \in 1..Len(lines)
    PROVE  /\ SplitStep(st, i) \in SplitStates
           /\ SplitInv(st, i - 1) => SplitInv(SplitStep(st, i), i)
  <1>0. Len(lines) \in Nat /\ i \in Nat /\ i - 1 \in Nat /\ st.next \in Nat
    BY LineFacts, SplitTypes
  <1>1. CASE i < st.next
    <2>1. SplitStep(st, i) = st
      BY <1>1 DEF SplitStep
    <2>2. LastTaken(st, i) = LastTaken(st, i - 1)
      BY <1>0, <1>1 DEF LastTaken
    <2> QED
      BY <2>1, <2>2 DEF SplitInv
  <1>2. CASE ~(i < st.next) /\ KeepsBlock(i)
    <2> DEFINE e == FenceEnd(i)
               b == Block(i, e)
               a == AppendPiece(st, b)
               r == [a EXCEPT !.next = e + 1]
    <2>1. SplitStep(st, i) = r
      BY <1>2 DEF SplitStep, FenceEnd
    <2>2. e \in (i + 1)..Len(lines) /\ Size(b) <= MaxLength
      BY <1>2, FenceFacts DEF KeepsBlock, FenceEnd
    <2>3. e \in Nat /\ i <= e + 1 /\ e <= Len(lines) /\ i < e /\ i \in Nat \ {0}
      BY <1>0, <2>2
    <2> HIDE DEF e
    <2>4. b \in Good /\ b \in Seq(Pieces) /\ Len(b) = e - i + 1
      BY <2>2, <2>3, BlockGood, BlockFacts
    <2>5. Len(b) >= 2
      BY <2>3, <2>4
    <2>6. Size(b) # 0
      BY <2>4, <2>5, SizeFacts
    <2> HIDE DEF b
    <2>7. Follows(a, st, AllBytes(b)) /\ Holds(a, ToSet(b))
      BY <2>4, <2>6, AppendPieceFacts
    <2> HIDE DEF a
    <2>8. a \in SplitStates
      BY <2>7 DEF Follows
    <2>9. r \in SplitStates /\ r.chunks = a.chunks /\ r.cur = a.cur /\ r.next = e + 1
      BY <2>3, <2>8 DEF SplitStates
    <2> HIDE DEF r
    <2>10. TakenBytes(r) = TakenBytes(a) /\ \A S : Holds(r, S) <=> Holds(a, S)
      BY <2>9 DEF TakenBytes, Holds
    <2>11. ASSUME SplitInv(st, i - 1) PROVE SplitInv(r, i)
      <3>1. LastTaken(st, i - 1) = i - 1
        BY <1>0, <1>2 DEF LastTaken
      <3>2. Took(st, i - 1)
        BY <2>11, <3>1 DEF SplitInv
      <3>3. Took(a, e)
        BY <1>2, <2>7, <3>2, BlockTaken DEF e, b
      <3>4. Took(r, e)
        BY <2>10, <3>3 DEF Took
      <3>5. LastTaken(r, i) = e
        BY <1>0, <2>3, <2>9 DEF LastTaken
      <3> QED
        BY <2>9, <3>4, <3>5 DEF SplitInv
    <2> QED
      BY <2>1, <2>9, <2>11
  <1>3. CASE ~(i < st.next) /\ ~KeepsBlock(i)
    <2> DEFINE r == AppendLine(st, i)
    <2>1. SplitStep(st, i) = r
      BY <1>3 DEF SplitStep
    <2>2. Follows(r, st, AllBytes(Block(i, i)))
      BY AppendLineFacts
    <2> HIDE DEF r
    <2>3. r \in SplitStates /\ r.next = st.next
      BY <2>2 DEF Follows
    <2>4. ASSUME SplitInv(st, i - 1) PROVE SplitInv(r, i)
      <3>1. LastTaken(st, i - 1) = i - 1
        BY <1>0, <1>3 DEF LastTaken
      <3>2. Took(st, i - 1)
        BY <2>4, <3>1 DEF SplitInv
      <3>3. Took(r, i)
        BY <1>3, <2>2, <3>2, LineTaken
      <3>4. LastTaken(r, i) = i
        BY <1>0, <1>3, <2>3 DEF LastTaken
      <3> QED
        BY <2>3, <3>3, <3>4 DEF SplitInv
    <2> QED
      BY <2>1, <2>3, <2>4
  <1> QED
    BY <1>1, <1>2, <1>3

\* The recursion of SplitText, and that it is defined.
LEMMA ChooseSplit ==
    ASSUME NEW x, NEW i
    PROVE  (CHOOSE r \in {SplitStep(st, i) : st \in {x}} : TRUE) = SplitStep(x, i)
  <1> DEFINE S == {SplitStep(st, i) : st \in {x}}
  <1>1. \A r \in S : r = SplitStep(x, i)
    OBVIOUS
  <1>2. SplitStep(x, i) \in S
    OBVIOUS
  <1> HIDE DEF S
  <1>3. (CHOOSE r \in S : TRUE) \in S
    BY <1>2
  <1>4. (CHOOSE r \in S : TRUE) = SplitStep(x, i)
    BY <1>1, <1>3
  <1> QED
    BY <1>4 DEF S

SplitStart == [chunks |-> <<>>, cur |-> <<>>, next |-> 1]

Splits(f) ==
    f = [i \in 0..Len(lines) |->
           IF i = 0 THEN SplitStart
           ELSE CHOOSE r \in {SplitStep(st, i) : st \in {f[i - 1]}} : TRUE]

LEMMA SplitUnfold == SplitText = Flushed((CHOOSE f : Splits(f))[Len(lines)])
  BY DEF SplitText, Splits, SplitStart

LEMMA SplitsExist ==
    ASSUME TextInv
    PROVE  \E f : Splits(f)
  <1> DEFINE L == Len(lines)
             G == [i \in 1..L |-> [st \in SplitStates |-> SplitStep(st, i)]]
  <1>1. L \in Nat
    BY LineFacts
  <1>2. SplitStart \in SplitStates
    BY GoodType DEF SplitStart, SplitStates
  <1>3. G \in [1..L -> [SplitStates -> SplitStates]]
    <2> SUFFICES ASSUME NEW i \in 1..L, NEW st \in SplitStates PROVE SplitStep(st, i) \in SplitStates
      OBVIOUS
    <2> QED
      BY SplitStepFacts
  <1> HIDE DEF L, G
  <1>4. PICK f : Recurs(f, SplitStates, L, SplitStart, G)
    BY <1>1, <1>2, <1>3, RecursionExists
  <1>5. ASSUME NEW i \in 0..L
        PROVE  f[i] = IF i = 0 THEN SplitStart ELSE CHOOSE r \in {SplitStep(st, i) : st \in {f[i - 1]}} : TRUE
    <2>1. CASE i = 0
      BY <1>4, <2>1 DEF Recurs
    <2>2. CASE i # 0
      <3>1. i \in 1..L /\ i - 1 \in 0..L
        BY <1>1, <2>2
      <3>2. f[i] = G[i][f[i - 1]] /\ f[i - 1] \in SplitStates
        BY <1>4, <3>1 DEF Recurs
      <3>3. f[i] = SplitStep(f[i - 1], i)
        BY <3>1, <3>2 DEF G
      <3> QED
        BY <2>2, <3>3, ChooseSplit, Zenon
    <2> QED
      BY <2>1, <2>2
  <1>6. f = [i \in 0..L |-> f[i]]
    BY <1>4 DEF Recurs
  <1>7. f = [i \in 0..L |-> IF i = 0 THEN SplitStart ELSE CHOOSE r \in {SplitStep(st, i) : st \in {f[i - 1]}} : TRUE]
    BY <1>5, <1>6
  <1> QED
    BY <1>7 DEF Splits, L

\* splitText keeps every byte in order, makes good parts, and keeps blocks that fit together.
LEMMA SplitTextFacts ==
    ASSUME TextInv
    PROVE  /\ SplitText \in Seq(Good) /\ SplitText \in Seq(Seq(Pieces))
           /\ PartBytes(SplitText) = AllBytes(Whole)
           /\ \A j \in 1..Len(lines) :
                Opens(j) /\ AllFit(j) => Within(SplitText, ToSet(Block(j, FenceEnd(j))))
  <1> DEFINE L == Len(lines)
             f == CHOOSE f : Splits(f)
             T == {m \in Nat : m <= L => SplitInv(f[m], m)}
  <1>0. L \in Nat
    BY LineFacts
  <1>1. Splits(f)
    BY SplitsExist
  <1>2. SplitText = Flushed(f[L])
    BY SplitUnfold
  <1> HIDE DEF f, L
  <1>3. f[0] = SplitStart /\ \A i \in 1..L : f[i] = SplitStep(f[i - 1], i)
    <2>1. f = [i \in 0..L |-> IF i = 0 THEN SplitStart
                              ELSE CHOOSE r \in {SplitStep(st, i) : st \in {f[i - 1]}} : TRUE]
      BY <1>1 DEF Splits, L
    <2>2. 0 \in 0..L /\ \A i \in 1..L : i \in 0..L /\ i # 0
      BY <1>0
    <2>3. f[0] = SplitStart
      BY <2>1, <2>2
    <2>4. ASSUME NEW i \in 1..L PROVE f[i] = SplitStep(f[i - 1], i)
      <3>1. f[i] = CHOOSE r \in {SplitStep(st, i) : st \in {f[i - 1]}} : TRUE
        BY <2>1, <2>2
      <3> QED
        BY <3>1, ChooseSplit, Zenon
    <2> QED
      BY <2>3, <2>4
  <1>4. 0 \in T
    <2>1. SplitStart \in SplitStates /\ SplitStart.next = 1 /\ SplitStart.chunks = <<>> /\ SplitStart.cur = <<>>
      BY GoodType DEF SplitStart, SplitStates
    <2>2. LastTaken(SplitStart, 0) = 0
      BY <2>1 DEF LastTaken
    <2>3. TakenBytes(SplitStart) = AllBytes(Block(1, 0))
      <3>1. Block(1, 0) = <<>>
        BY BlockEnds
      <3>2. PartBytes(SplitStart.chunks) = <<>> /\ AllBytes(SplitStart.cur) = <<>> /\ AllBytes(Block(1, 0)) = <<>>
        BY <2>1, <3>1, PartBytesSmall, AllBytesEmpty, Zenon
      <3>3. <<>> \o <<>> = <<>>
        OBVIOUS
      <3> QED
        BY <3>2, <3>3, Zenon DEF TakenBytes
    <2>4. Cardinality(Fences(0)) % 2 = 0
      <3>1. Fences(0) = {}
        BY DEF Fences
      <3>2. Cardinality(Fences(0)) = 0
        BY <3>1, FS_EmptySet, Zenon
      <3> QED
        BY <3>2
    <2>5. Took(SplitStart, 0)
      BY <1>0, <2>3, <2>4 DEF Took, L
    <2> QED
      BY <1>3, <2>1, <2>2, <2>5 DEF SplitInv
  <1>5. ASSUME NEW m \in Nat, m \in T PROVE m + 1 \in T
    <2> SUFFICES ASSUME m + 1 <= L PROVE SplitInv(f[m + 1], m + 1)
      OBVIOUS
    <2>1. m + 1 \in 1..L /\ (m + 1) - 1 = m /\ m <= L
      BY <1>0
    <2>2. SplitInv(f[m], m) /\ f[m] \in SplitStates
      BY <1>5, <2>1 DEF SplitInv
    <2>3. f[m + 1] = SplitStep(f[m], m + 1)
      BY <1>3, <2>1
    <2>4. SplitInv(SplitStep(f[m], m + 1), m + 1)
      <3>1. m + 1 \in 1..Len(lines)
        BY <2>1 DEF L
      <3>2. SplitInv(f[m], (m + 1) - 1)
        BY <2>1, <2>2
      <3> QED
        BY <2>2, <3>1, <3>2, SplitStepFacts
    <2> QED
      BY <2>3, <2>4
  <1> HIDE DEF T
  <1>6. L \in T
    BY <1>0, <1>4, <1>5, SetInduction
  <1>7. SplitInv(f[L], L)
    BY <1>0, <1>6 DEF T
  <1>8. f[L] \in SplitStates /\ Took(f[L], L)
    <2>1. f[L] \in SplitStates /\ Took(f[L], LastTaken(f[L], L))
      BY <1>7 DEF SplitInv
    <2>2. f[L].next \in Nat
      BY <2>1, SplitTypes
    <2>3. LastTaken(f[L], L) <= L
      BY <2>1 DEF Took, L
    <2>4. LastTaken(f[L], L) = L
      BY <1>0, <2>2, <2>3 DEF LastTaken
    <2> QED
      BY <2>1, <2>4
  <1>9. /\ Flushed(f[L]) \in Seq(Good) /\ Flushed(f[L]) \in Seq(Seq(Pieces))
        /\ PartBytes(Flushed(f[L])) = TakenBytes(f[L])
        /\ \A S : S # {} /\ Holds(f[L], S) => Within(Flushed(f[L]), S)
    BY <1>8, FlushedFacts
  <1>10. PartBytes(SplitText) = AllBytes(Whole)
    <2>1. Block(1, L) = Whole
      BY BlockEnds DEF L
    <2>2. TakenBytes(f[L]) = AllBytes(Block(1, L))
      BY <1>8 DEF Took
    <2> QED
      BY <1>2, <1>9, <2>1, <2>2, Zenon
  <1>11. ASSUME NEW j \in 1..Len(lines), Opens(j), AllFit(j)
         PROVE  Within(SplitText, ToSet(Block(j, FenceEnd(j))))
    <2>1. Holds(f[L], ToSet(Block(j, FenceEnd(j))))
      BY <1>8, <1>11 DEF Took, L
    <2>2. ToSet(Block(j, FenceEnd(j))) # {}
      BY <1>11, BlockSet DEF Opens
    <2> QED
      BY <1>2, <1>9, <2>1, <2>2
  <1> QED
    BY <1>2, <1>9, <1>10, <1>11

-----------------------------------------------------------------------------
\* SplitMessage.

\* The recursion of Grouped, one part at a time, and that it is defined.
LEMMA ChooseGroup ==
    ASSUME NEW x, NEW part
    PROVE  (CHOOSE r \in {GroupStep(st, part) : st \in {x}} : TRUE) = GroupStep(x, part)
  <1> DEFINE S == {GroupStep(st, part) : st \in {x}}
  <1>1. \A r \in S : r = GroupStep(x, part)
    OBVIOUS
  <1>2. GroupStep(x, part) \in S
    OBVIOUS
  <1> HIDE DEF S
  <1>3. (CHOOSE r \in S : TRUE) \in S
    BY <1>2
  <1>4. (CHOOSE r \in S : TRUE) = GroupStep(x, part)
    BY <1>1, <1>3
  <1> QED
    BY <1>4 DEF S

Messages == Seq(Seq(Pieces)) \ {<<>>}
GroupStates == [done : Seq(Messages), msg : Seq(Seq(Pieces)), len : Nat]
GroupStart == [done |-> <<>>, msg |-> <<>>, len |-> 0]

LEMMA ConcatAppend ==
    ASSUME NEW Y, NEW a \in Seq(Y), NEW b \in Seq(Y), NEW x \in Y
    PROVE  a \o Append(b, x) = Append(a \o b, x)
  OBVIOUS

LEMMA GroupStepFacts ==
    ASSUME NEW st \in GroupStates, NEW part \in Seq(Pieces)
    PROVE  /\ GroupStep(st, part) \in GroupStates
           /\ GroupStep(st, part).msg # <<>>
           /\ FlattenSeq(GroupStep(st, part).done) \o GroupStep(st, part).msg
                = Append(FlattenSeq(st.done) \o st.msg, part)
  <1>0. /\ st.done \in Seq(Messages) /\ st.msg \in Seq(Seq(Pieces)) /\ st.len \in Nat /\ Size(part) \in Nat
        /\ st.done \in Seq(Seq(Seq(Pieces)))
    <2>1. st.done \in Seq(Messages) /\ st.msg \in Seq(Seq(Pieces)) /\ st.len \in Nat /\ Size(part) \in Nat
      BY SizeFacts DEF GroupStates
    <2>2. Messages \subseteq Seq(Seq(Pieces))
      BY DEF Messages
    <2> QED
      BY <2>1, <2>2
  <1>1. FlattenSeq(st.done) \in Seq(Seq(Pieces))
    BY <1>0, FlattenType
  <1> DEFINE r == GroupStep(st, part)
             fl == FlattenSeq(st.done)
  <1>2. CASE st.msg # <<>> /\ st.len + 1 + Size(part) > MaxLength
    <2>1. r = [done |-> Append(st.done, st.msg), msg |-> <<part>>, len |-> Size(part)]
      BY <1>2 DEF GroupStep
    <2>2. st.msg \in Messages
      BY <1>0, <1>2 DEF Messages
    <2>3. Append(st.done, st.msg) \in Seq(Messages) /\ <<part>> \in Seq(Seq(Pieces)) /\ <<part>> # <<>>
      BY <1>0, <2>2
    <2>4. r \in GroupStates /\ r.msg = <<part>> /\ r.done = Append(st.done, st.msg)
      BY <1>0, <2>1, <2>3 DEF GroupStates
    <2> HIDE DEF r
    <2>5. FlattenSeq(Append(st.done, st.msg)) = fl \o st.msg
      BY <1>0, FlattenAppend
    <2> HIDE DEF fl
    <2>6. fl \o st.msg \in Seq(Seq(Pieces))
      BY <1>0, <1>1 DEF fl
    <2>7. (fl \o st.msg) \o <<part>> = Append(fl \o st.msg, part)
      BY <2>6
    <2>8. FlattenSeq(r.done) \o r.msg = Append(fl \o st.msg, part)
      BY <2>4, <2>5, <2>7, Zenon
    <2> QED
      BY <2>3, <2>4, <2>8 DEF r, fl
  <1>3. CASE ~(st.msg # <<>> /\ st.len + 1 + Size(part) > MaxLength)
    <2> DEFINE l == IF st.msg = <<>> THEN Size(part) ELSE st.len + 1 + Size(part)
    <2>1. r = [st EXCEPT !.msg = Append(st.msg, part), !.len = l]
      BY <1>3 DEF GroupStep
    <2>2. l \in Nat
      BY <1>0
    <2> HIDE DEF l
    <2>3. Append(st.msg, part) \in Seq(Seq(Pieces)) /\ Append(st.msg, part) # <<>>
      BY <1>0, AppendProperties
    <2>4. r \in GroupStates /\ r.msg = Append(st.msg, part) /\ r.done = st.done
      BY <1>0, <2>1, <2>2, <2>3 DEF GroupStates
    <2> HIDE DEF r, fl
    <2>5. fl \o Append(st.msg, part) = Append(fl \o st.msg, part)
      <3>1. ASSUME NEW a \in Seq(Seq(Pieces)), NEW b \in Seq(Seq(Pieces)), NEW y \in Seq(Pieces)
            PROVE  a \o Append(b, y) = Append(a \o b, y)
        BY ConcatAppend
      <3> QED
        BY <1>0, <1>1, <3>1, Zenon DEF fl
    <2>6. FlattenSeq(r.done) \o r.msg = Append(fl \o st.msg, part)
      BY <2>4, <2>5, Zenon DEF fl
    <2> QED
      BY <2>3, <2>4, <2>6 DEF r, fl
  <1> QED
    BY <1>2, <1>3

Groups(parts, f) ==
    f = [k \in 0..Len(parts) |->
           IF k = 0 THEN GroupStart
           ELSE CHOOSE r \in {GroupStep(st, parts[k]) : st \in {f[k - 1]}} : TRUE]

LEMMA GroupedUnfold ==
    ASSUME NEW parts
    PROVE  Grouped(parts) = Append((CHOOSE f : Groups(parts, f))[Len(parts)].done,
                                   (CHOOSE f : Groups(parts, f))[Len(parts)].msg)
  BY DEF Grouped, Groups, GroupStart

LEMMA GroupsExist ==
    ASSUME NEW parts \in Seq(Seq(Pieces))
    PROVE  \E f : Groups(parts, f)
  <1> DEFINE L == Len(parts)
             G == [k \in 1..L |-> [st \in GroupStates |-> GroupStep(st, parts[k])]]
  <1>1. L \in Nat /\ \A k \in 1..L : parts[k] \in Seq(Pieces)
    BY ElementOfSeq
  <1>2. GroupStart \in GroupStates
    BY DEF GroupStart, GroupStates
  <1>3. G \in [1..L -> [GroupStates -> GroupStates]]
    <2> SUFFICES ASSUME NEW k \in 1..L, NEW st \in GroupStates PROVE GroupStep(st, parts[k]) \in GroupStates
      OBVIOUS
    <2> QED
      BY <1>1, GroupStepFacts
  <1> HIDE DEF L, G
  <1>4. PICK f : Recurs(f, GroupStates, L, GroupStart, G)
    BY <1>1, <1>2, <1>3, RecursionExists
  <1>5. ASSUME NEW k \in 0..L
        PROVE  f[k] = IF k = 0 THEN GroupStart ELSE CHOOSE r \in {GroupStep(st, parts[k]) : st \in {f[k - 1]}} : TRUE
    <2>1. CASE k = 0
      BY <1>4, <2>1 DEF Recurs
    <2>2. CASE k # 0
      <3>1. k \in 1..L /\ k - 1 \in 0..L
        BY <1>1, <2>2
      <3>2. f[k] = G[k][f[k - 1]] /\ f[k - 1] \in GroupStates
        BY <1>4, <3>1 DEF Recurs
      <3>3. f[k] = GroupStep(f[k - 1], parts[k])
        BY <3>1, <3>2 DEF G
      <3> QED
        BY <2>2, <3>3, ChooseGroup, Zenon
    <2> QED
      BY <2>1, <2>2
  <1>6. f = [k \in 0..L |-> f[k]]
    BY <1>4 DEF Recurs
  <1>7. f = [k \in 0..L |-> IF k = 0 THEN GroupStart ELSE CHOOSE r \in {GroupStep(st, parts[k]) : st \in {f[k - 1]}} : TRUE]
    BY <1>5, <1>6
  <1> QED
    BY <1>7 DEF Groups, L

\* The parts that have been put into messages.
Flatly(st) == FlattenSeq(st.done) \o st.msg

\* The first m parts have been put into messages.
GroupedTo(st, parts, m) ==
    /\ st \in GroupStates
    /\ m # 0 => st.msg # <<>>
    /\ Flatly(st) = SubSeq(parts, 1, m)

\* Parts are put together into messages, none lost, in their order.
LEMMA GroupedFacts ==
    ASSUME NEW parts \in Seq(Seq(Pieces)), parts # <<>>
    PROVE  /\ Grouped(parts) \in Seq(Messages) /\ Grouped(parts) # <<>>
           /\ FlattenSeq(Grouped(parts)) = parts
  <1> DEFINE L == Len(parts)
             f == CHOOSE f : Groups(parts, f)
             T == {m \in Nat : m <= L => GroupedTo(f[m], parts, m)}
  <1>0. L \in Nat \ {0} /\ \A k \in 1..L : parts[k] \in Seq(Pieces)
    BY EmptySeq, ElementOfSeq
  <1>1. Groups(parts, f)
    BY GroupsExist
  <1>2. Grouped(parts) = Append(f[L].done, f[L].msg)
    BY GroupedUnfold
  <1> HIDE DEF f, L
  <1>3. f[0] = GroupStart /\ \A k \in 1..L : f[k] = GroupStep(f[k - 1], parts[k])
    <2>1. f = [k \in 0..L |-> IF k = 0 THEN GroupStart
                              ELSE CHOOSE r \in {GroupStep(st, parts[k]) : st \in {f[k - 1]}} : TRUE]
      BY <1>1 DEF Groups, L
    <2>2. 0 \in 0..L /\ \A k \in 1..L : k \in 0..L /\ k # 0
      BY <1>0
    <2>3. f[0] = GroupStart
      BY <2>1, <2>2
    <2>4. ASSUME NEW k \in 1..L PROVE f[k] = GroupStep(f[k - 1], parts[k])
      <3>1. f[k] = CHOOSE r \in {GroupStep(st, parts[k]) : st \in {f[k - 1]}} : TRUE
        BY <2>1, <2>2
      <3> QED
        BY <3>1, ChooseGroup, Zenon
    <2> QED
      BY <2>3, <2>4
  <1>4. 0 \in T
    <2>1. GroupStart \in GroupStates /\ GroupStart.done = <<>> /\ GroupStart.msg = <<>>
      BY DEF GroupStart, GroupStates
    <2>2. SubSeq(parts, 1, 0) = <<>>
      BY SubSeqEmpty
    <2>3. <<>> \o <<>> = <<>>
      OBVIOUS
    <2>4. Flatly(GroupStart) = SubSeq(parts, 1, 0)
      BY <2>1, <2>2, <2>3, FlattenEmpty, Zenon DEF Flatly
    <2> QED
      BY <1>3, <2>1, <2>4 DEF GroupedTo
  <1>5. ASSUME NEW m \in Nat, m \in T PROVE m + 1 \in T
    <2> SUFFICES ASSUME m + 1 <= L
                 PROVE  GroupedTo(f[m + 1], parts, m + 1)
      OBVIOUS
    <2>1. m + 1 \in 1..L /\ (m + 1) - 1 = m /\ m <= L /\ parts[m + 1] \in Seq(Pieces)
      BY <1>0
    <2>2. f[m] \in GroupStates /\ Flatly(f[m]) = SubSeq(parts, 1, m)
      BY <1>5, <2>1 DEF GroupedTo
    <2>3. f[m + 1] = GroupStep(f[m], parts[m + 1])
      BY <1>3, <2>1
    <2>4. /\ f[m + 1] \in GroupStates /\ f[m + 1].msg # <<>>
          /\ Flatly(f[m + 1]) = Append(Flatly(f[m]), parts[m + 1])
      BY <2>1, <2>2, <2>3, GroupStepFacts DEF Flatly
    <2>5. Append(SubSeq(parts, 1, m), parts[m + 1]) = SubSeq(parts, 1, m + 1)
      <3> DEFINE a == SubSeq(parts, 1, m)
                 b == SubSeq(parts, 1, m + 1)
      <3>1. \A k \in 1..m : k \in 1..L
        BY <1>0, <2>1
      <3>2. /\ a \in Seq(Seq(Pieces)) /\ Len(a) = IF 1 <= m THEN m - 1 + 1 ELSE 0
            /\ \A k \in 1..(m - 1 + 1) : a[k] = parts[1 + k - 1]
        BY <1>0, <3>1, SubSeqProperties
      <3>3. \A k \in 1..(m + 1) : k \in 1..L
        BY <1>0, <2>1
      <3>4. /\ b \in Seq(Seq(Pieces)) /\ Len(b) = IF 1 <= m + 1 THEN (m + 1) - 1 + 1 ELSE 0
            /\ \A k \in 1..((m + 1) - 1 + 1) : b[k] = parts[1 + k - 1]
        <4>1. m + 1 \in Int /\ 1 \in Int /\ \A k \in 1..(m + 1) : parts[k] \in Seq(Pieces)
          BY <1>0, <3>3
        <4> QED
          BY <4>1, SubSeqProperties
      <3> HIDE DEF a, b
      <3>5. Len(a) = m /\ \A k \in 1..m : a[k] = parts[k]
        <4>1. m - 1 + 1 = m /\ \A k \in 1..m : 1 + k - 1 = k
          OBVIOUS
        <4> QED
          BY <3>2, <4>1
      <3>6. Len(b) = m + 1 /\ \A k \in 1..(m + 1) : b[k] = parts[k]
        <4>1. (m + 1) - 1 + 1 = m + 1 /\ \A k \in 1..(m + 1) : 1 + k - 1 = k
          OBVIOUS
        <4> QED
          BY <3>4, <4>1
      <3>7. /\ Append(a, parts[m + 1]) \in Seq(Seq(Pieces)) /\ Len(Append(a, parts[m + 1])) = m + 1
            /\ \A k \in 1..m : Append(a, parts[m + 1])[k] = a[k]
            /\ Append(a, parts[m + 1])[m + 1] = parts[m + 1]
        BY <2>1, <3>2, <3>5, AppendProperties
      <3>8. ASSUME NEW k \in 1..(m + 1) PROVE Append(a, parts[m + 1])[k] = b[k]
        <4>1. CASE k = m + 1
          BY <3>6, <3>7, <4>1
        <4>2. CASE k # m + 1
          <5>1. k \in 1..m
            BY <4>2
          <5> QED
            BY <3>5, <3>6, <3>7, <5>1
        <4> QED
          BY <4>1, <4>2
      <3>9. Append(a, parts[m + 1]) = b
        BY <3>4, <3>6, <3>7, <3>8, SeqEqual
      <3> QED
        BY <3>9 DEF a, b
    <2> QED
      BY <2>2, <2>4, <2>5, Zenon DEF GroupedTo
  <1> HIDE DEF T
  <1>6. L \in T
    BY <1>0, <1>4, <1>5, SetInduction
  <1>7. GroupedTo(f[L], parts, L) /\ L # 0
    BY <1>0, <1>6 DEF T
  <1>8. SubSeq(parts, 1, L) = parts
    BY SubSeqFull DEF L
  <1>9. f[L].done \in Seq(Messages) /\ f[L].msg \in Seq(Seq(Pieces)) /\ f[L].msg \in Messages
    BY <1>7 DEF GroupStates, Messages, GroupedTo
  <1>10. Append(f[L].done, f[L].msg) \in Seq(Messages) /\ Append(f[L].done, f[L].msg) # <<>>
    <2>1. ASSUME NEW s \in Seq(Messages), NEW x \in Messages
          PROVE  Append(s, x) \in Seq(Messages) /\ Append(s, x) # <<>>
      BY AppendProperties
    <2> QED
      BY <1>9, <2>1, Zenon
  <1>11. FlattenSeq(Append(f[L].done, f[L].msg)) = FlattenSeq(f[L].done) \o f[L].msg
    <2>1. Messages \subseteq Seq(Seq(Pieces))
      BY DEF Messages
    <2>2. f[L].done \in Seq(Seq(Seq(Pieces)))
      BY <1>9, <2>1
    <2> QED
      BY <1>9, <2>2, FlattenAppend
  <1> QED
    BY <1>2, <1>7, <1>8, <1>10, <1>11, Zenon DEF GroupedTo, Flatly

\* Delivered, of given parts.
DeliveredBy(parts) ==
    /\ PartBytes(parts) = AllBytes(Whole)
    /\ AllBytes(Whole) # <<>> => \A k \in 1..Len(parts) : Size(parts[k]) <= MaxLength
    /\ \A k \in 1..Len(parts) : \A p \in ToSet(parts[k]) : GoodPiece(p)
    /\ \A j \in 1..Len(lines) : Opens(j) /\ AllFit(j) => Within(parts, ToSet(Block(j, FenceEnd(j))))

\* A text that fits, or is blank, is delivered as one part.
LEMMA WholeGood ==
    ASSUME TextInv, Size(Whole) <= MaxLength \/ AllBytes(Whole) = <<>>
    PROVE  DeliveredBy(<<Whole>>)
  <1>0. Whole \in Seq(Pieces) /\ Len(lines) \in Nat
    BY WholeFacts, LineFacts
  <1>1. PartBytes(<<Whole>>) = AllBytes(Whole)
    BY <1>0, PartBytesSmall
  <1>2. Len(<<Whole>>) = 1 /\ <<Whole>>[1] = Whole
    OBVIOUS
  <1>3. ToSet(Whole) = {Piece(k) : k \in 1..Len(lines)}
    <2>1. 1 \in Nat \ {0} /\ 1 <= Len(lines) + 1 /\ Len(lines) <= Len(lines)
      BY <1>0
    <2>2. ToSet(Block(1, Len(lines))) = {Piece(k) : k \in 1..Len(lines)}
      BY <1>0, <2>1, BlockFacts
    <2> QED
      BY <2>2, BlockEnds, Zenon
  <1> DEFINE w == <<Whole>>
  <1> HIDE DEF w
  <1>4. Len(w) = 1 /\ w[1] = Whole
    BY <1>2 DEF w
  <1>5. AllBytes(Whole) # <<>> => \A k \in 1..Len(w) : Size(w[k]) <= MaxLength
    BY <1>4
  <1>6. \A k \in 1..Len(w) : \A p \in ToSet(w[k]) : GoodPiece(p)
    BY <1>3, <1>4, PieceGood
  <1>7. ASSUME NEW j \in 1..Len(lines), Opens(j) PROVE Within(w, ToSet(Block(j, FenceEnd(j))))
    <2>1. FenceEnd(j) \in (j + 1)..Len(lines)
      BY <1>7, FenceFacts DEF Opens
    <2>2. j \in Nat \ {0} /\ FenceEnd(j) \in Nat /\ j <= FenceEnd(j) + 1 /\ FenceEnd(j) <= Len(lines)
      BY <1>0, <2>1
    <2>3. ToSet(Block(j, FenceEnd(j))) = {Piece(k) : k \in j..FenceEnd(j)}
      BY <2>2, BlockFacts
    <2>4. \A k \in j..FenceEnd(j) : k \in 1..Len(lines)
      BY <1>0, <2>2
    <2>5. ToSet(Block(j, FenceEnd(j))) \subseteq ToSet(Whole)
      BY <1>3, <2>3, <2>4
    <2> QED
      BY <1>4, <2>5 DEF Within
  <1> QED
    BY <1>1, <1>5, <1>6, <1>7 DEF DeliveredBy, w

\* The messages of an answer are the answer, as Delivered wants it.
LEMMA SplitMessageFacts ==
    ASSUME TextInv
    PROVE  /\ SplitMessage \in Seq(Messages) /\ SplitMessage # <<>>
           /\ DeliveredBy(FlattenSeq(SplitMessage))
  <1> DEFINE one == << <<Whole>> >>
  <1>0. Whole \in Seq(Pieces)
    BY WholeFacts
  <1>1. one \in Seq(Messages) /\ one # <<>> /\ FlattenSeq(one) = <<Whole>>
    <2>1. <<Whole>> \in Seq(Seq(Pieces)) /\ <<Whole>> \in Messages
      BY <1>0 DEF Messages
    <2>2. FlattenSeq(one) = <<Whole>>
      BY <2>1, FlattenOne
    <2> QED
      BY <2>1, <2>2
  <1>2. CASE Size(Whole) <= MaxLength
    <2>1. SplitMessage = one
      BY <1>2 DEF SplitMessage
    <2>2. DeliveredBy(<<Whole>>)
      BY <1>2, WholeGood
    <2> QED
      BY <1>1, <2>1, <2>2, Zenon
  <1>3. CASE ~(Size(Whole) <= MaxLength)
    <2> DEFINE x == SplitText
    <2>0. /\ x \in Seq(Good) /\ x \in Seq(Seq(Pieces))
          /\ PartBytes(x) = AllBytes(Whole)
          /\ \A j \in 1..Len(lines) : Opens(j) /\ AllFit(j) => Within(x, ToSet(Block(j, FenceEnd(j))))
      BY SplitTextFacts
    <2>1. SplitMessage = IF x = <<>> THEN one ELSE Grouped(x)
      <3> DEFINE S == {IF parts = <<>> THEN << <<Whole>> >> ELSE Grouped(parts) : parts \in {SplitText}}
                 y == IF x = <<>> THEN one ELSE Grouped(x)
      <3>1. \A r \in S : r = y
        OBVIOUS
      <3>2. y \in S
        OBVIOUS
      <3>3. SplitMessage = CHOOSE r \in S : TRUE
        BY <1>3 DEF SplitMessage
      <3> HIDE DEF S, y
      <3>4. (CHOOSE r \in S : TRUE) \in S
        BY <3>2
      <3>5. SplitMessage = y
        BY <3>1, <3>3, <3>4
      <3> QED
        BY <3>5 DEF y
    <2> HIDE DEF x, one
    <2>2. CASE x = <<>>
      <3>1. AllBytes(Whole) = <<>>
        BY <2>0, <2>2, PartBytesSmall, Zenon
      <3>2. DeliveredBy(<<Whole>>)
        BY <3>1, WholeGood
      <3> QED
        BY <1>1, <2>1, <2>2, <3>2
    <2>3. CASE x # <<>>
      <3>1. Grouped(x) \in Seq(Messages) /\ Grouped(x) # <<>> /\ FlattenSeq(Grouped(x)) = x
        BY <2>0, <2>3, GroupedFacts
      <3>2. \A k \in 1..Len(x) : x[k] \in Good
        BY <2>0, ElementOfSeq
      <3>3. \A k \in 1..Len(x) : Size(x[k]) <= MaxLength /\ \A p \in ToSet(x[k]) : GoodPiece(p)
        BY <3>2 DEF Good
      <3>4. DeliveredBy(x)
        BY <2>0, <3>3 DEF DeliveredBy
      <3> QED
        BY <2>1, <2>3, <3>1, <3>4
    <2> QED
      BY <2>2, <2>3
  <1> QED
    BY <1>2, <1>3

-----------------------------------------------------------------------------
\* The sending of the messages.

\* A sequence is its head and its tail.
LEMMA HeadAndTail ==
    ASSUME NEW Y, NEW s \in Seq(Y), s # <<>>
    PROVE  Head(s) \in Y /\ Tail(s) \in Seq(Y) /\ s = <<Head(s)>> \o Tail(s)
  <1>1. Head(s) \in Y /\ Tail(s) \in Seq(Y) /\ Len(Tail(s)) = Len(s) - 1
        /\ \A i \in 1..Len(Tail(s)) : Tail(s)[i] = s[i + 1]
    BY HeadTailProperties
  <1>2. Len(s) \in Nat \ {0} /\ Head(s) = s[1]
    BY EmptySeq
  <1> DEFINE h == <<Head(s)>>
             t == Tail(s)
  <1>3. h \in Seq(Y) /\ Len(h) = 1 /\ h[1] = s[1]
    BY <1>1, <1>2
  <1>4. t \in Seq(Y) /\ Len(t) = Len(s) - 1 /\ \A i \in 1..(Len(s) - 1) : t[i] = s[i + 1]
    BY <1>1
  <1> HIDE DEF h, t
  <1>5. /\ h \o t \in Seq(Y) /\ Len(h \o t) = Len(h) + Len(t)
        /\ \A i \in 1..(Len(h) + Len(t)) : (h \o t)[i] = IF i <= Len(h) THEN h[i] ELSE t[i - Len(h)]
    <2>1. ASSUME NEW a \in Seq(Y), NEW b \in Seq(Y)
          PROVE  /\ a \o b \in Seq(Y) /\ Len(a \o b) = Len(a) + Len(b)
                 /\ \A i \in 1..(Len(a) + Len(b)) : (a \o b)[i] = IF i <= Len(a) THEN a[i] ELSE b[i - Len(a)]
      BY ConcatProperties
    <2> QED
      BY <1>3, <1>4, <2>1, Zenon
  <1>6. Len(h \o t) = Len(s)
    BY <1>2, <1>3, <1>4, <1>5
  <1>7. ASSUME NEW i \in 1..Len(s) PROVE (h \o t)[i] = s[i]
    <2>1. i \in 1..(Len(h) + Len(t))
      BY <1>2, <1>3, <1>4
    <2>2. CASE i = 1
      BY <1>3, <1>5, <2>1, <2>2
    <2>3. CASE i # 1
      <3>1. ~(i <= Len(h)) /\ i - Len(h) \in 1..(Len(s) - 1) /\ (i - Len(h)) + 1 = i
        BY <1>2, <1>3, <2>3
      <3> QED
        BY <1>4, <1>5, <2>1, <3>1
    <2> QED
      BY <2>2, <2>3
  <1>8. h \o t = s
    BY <1>5, <1>6, <1>7, SeqEqual
  <1> QED
    BY <1>1, <1>8 DEF h, t

\* A part that has been sent is no longer to be sent.
LEMMA PartGoes ==
    ASSUME NEW o \in Seq(Messages), o # <<>>, NEW g \in Seq(Seq(Pieces))
    PROVE  /\ Append(g, Head(Head(o))) \in Seq(Seq(Pieces))
           /\ Len(Head(o)) > 1 =>
                /\ [o EXCEPT ![1] = Tail(@)] \in Seq(Messages)
                /\ [o EXCEPT ![1] = Tail(@)] # <<>>
                /\ Append(g, Head(Head(o))) \o FlattenSeq([o EXCEPT ![1] = Tail(@)]) = g \o FlattenSeq(o)
           /\ ~(Len(Head(o)) > 1) =>
                /\ Tail(o) \in Seq(Messages)
                /\ Append(g, Head(Head(o))) \o FlattenSeq(Tail(o)) = g \o FlattenSeq(o)
  <1> DEFINE Y == Seq(Pieces)
             m == Head(o)
             r == Tail(o)
             x == Head(m)
             t == Tail(m)
             R == FlattenSeq(r)
  <1>1. m \in Messages /\ r \in Seq(Messages) /\ o = <<m>> \o r
    BY HeadAndTail
  <1> HIDE DEF Y
  <1>2. m \in Seq(Y) /\ m # <<>> /\ r \in Seq(Seq(Y))
    <2>1. Messages \subseteq Seq(Y)
      BY DEF Messages, Y
    <2> QED
      BY <1>1, <2>1 DEF Messages
  <1> HIDE DEF m, r
  <1>3. x \in Y /\ t \in Seq(Y) /\ m = <<x>> \o t
    BY <1>2, HeadAndTail
  <1>4. Len(t) = Len(m) - 1 /\ Len(m) \in Nat \ {0}
    BY <1>2, HeadTailProperties, EmptySeq
  <1> HIDE DEF x, t
  <1>5. R \in Seq(Y)
    BY <1>2, FlattenType
  <1>6. FlattenSeq(o) = m \o R
    <2>1. <<m>> \in Seq(Seq(Y))
      BY <1>2
    <2>2. FlattenSeq(<<m>> \o r) = FlattenSeq(<<m>>) \o FlattenSeq(r)
      BY <1>2, <2>1, FlattenConcat
    <2>3. FlattenSeq(<<m>>) = m
      BY <1>2, FlattenOne
    <2> QED
      BY <1>1, <2>2, <2>3, Zenon
  <1>7. Append(g, x) \in Seq(Y) /\ g \in Seq(Y)
    <2>1. g \in Seq(Y)
      BY DEF Y
    <2> QED
      BY <1>3, <2>1
  <1> HIDE DEF R
  <1>8. Append(g, x) \o (t \o R) = g \o (m \o R)
    <2>1. ASSUME NEW a \in Seq(Y), NEW b \in Seq(Y), NEW c \in Seq(Y)
          PROVE  (a \o b) \o c = a \o (b \o c)
      BY ConcatAssociative, SMTT(40)
    <2>2. <<x>> \in Seq(Y) /\ Append(g, x) = g \o <<x>>
      BY <1>3, <1>7
    <2>3. t \o R \in Seq(Y)
      BY <1>3, <1>5
    <2>4. (<<x>> \o t) \o R = <<x>> \o (t \o R)
      BY <1>3, <1>5, <2>1, <2>2, Zenon
    <2>5. (g \o <<x>>) \o (t \o R) = g \o (<<x>> \o (t \o R))
      BY <1>7, <2>1, <2>2, <2>3, Zenon
    <2> QED
      BY <1>3, <2>2, <2>4, <2>5, Zenon
  <1>9. ASSUME Len(m) > 1
        PROVE  /\ [o EXCEPT ![1] = Tail(@)] \in Seq(Messages)
               /\ [o EXCEPT ![1] = Tail(@)] # <<>>
               /\ Append(g, x) \o FlattenSeq([o EXCEPT ![1] = Tail(@)]) = g \o FlattenSeq(o)
    <2> DEFINE n == [o EXCEPT ![1] = Tail(@)]
    <2>1. t # <<>>
      BY <1>3, <1>4, <1>9, EmptySeq
    <2>2. t \in Messages
      BY <1>3, <2>1 DEF Messages, Y
    <2>3. Len(o) \in Nat \ {0} /\ o[1] = m /\ Tail(o[1]) = t
      BY EmptySeq DEF m, t
    <2>4. n \in Seq(Messages) /\ Len(n) = Len(o) /\ n[1] = t /\ \A k \in 2..Len(o) : n[k] = o[k]
      <3>0. n = [o EXCEPT ![1] = t]
        BY <2>3, Zenon
      <3>1. n = [o EXCEPT ![1] = t] /\ 1 \in 1..Len(o)
        BY <2>3, <3>0
      <3>2. /\ [o EXCEPT ![1] = t] \in Seq(Messages)
            /\ Len([o EXCEPT ![1] = t]) = Len(o)
            /\ \A j \in 1..Len(o) : [o EXCEPT ![1] = t][j] = IF j = 1 THEN t ELSE o[j]
        BY <2>2, <3>1, ExceptSeq
      <3>3. \A k \in 2..Len(o) : k \in 1..Len(o) /\ k # 1
        BY <2>3
      <3> HIDE DEF n
      <3> QED
        BY <3>1, <3>2, <3>3
    <2> HIDE DEF n
    <2>5. n # <<>>
      BY <2>3, <2>4
    <2>6. n = <<t>> \o r
      <3>1. Head(n) = t /\ Tail(n) \in Seq(Messages) /\ n = <<Head(n)>> \o Tail(n)
        BY <2>4, <2>5, HeadAndTail
      <3>2. Len(Tail(n)) = Len(n) - 1 /\ \A k \in 1..Len(Tail(n)) : Tail(n)[k] = n[k + 1]
        BY <2>4, <2>5, HeadTailProperties
      <3>3. Len(r) = Len(o) - 1 /\ \A k \in 1..Len(r) : r[k] = o[k + 1]
        BY HeadTailProperties DEF r
      <3>4. \A k \in 1..(Len(o) - 1) : k + 1 \in 2..Len(o)
        BY <2>3
      <3>5. Tail(n) = r
        <4> DEFINE w == Tail(n)
        <4> HIDE DEF w
        <4>1. w \in Seq(Messages) /\ Len(w) = Len(r) /\ \A k \in 1..Len(r) : w[k] = r[k]
          BY <2>4, <3>1, <3>2, <3>3, <3>4 DEF w
        <4>2. w = r
          BY <1>1, <4>1, SeqEqual
        <4> QED
          BY <4>2 DEF w
      <3> QED
        BY <3>1, <3>5, Zenon
    <2>7. FlattenSeq(n) = t \o R
      <3>1. <<t>> \in Seq(Seq(Y))
        BY <1>3
      <3>2. FlattenSeq(<<t>> \o r) = FlattenSeq(<<t>>) \o FlattenSeq(r)
        BY <1>2, <3>1, FlattenConcat
      <3>3. FlattenSeq(<<t>>) = t
        BY <1>3, FlattenOne
      <3> QED
        BY <2>6, <3>2, <3>3, Zenon DEF R
    <2>8. Append(g, x) \o FlattenSeq(n) = g \o FlattenSeq(o)
      BY <1>6, <1>8, <2>7, Zenon
    <2> QED
      BY <2>4, <2>5, <2>8 DEF n
  <1>10. ASSUME ~(Len(m) > 1) PROVE Append(g, x) \o R = g \o FlattenSeq(o)
    <2>1. t = <<>>
      BY <1>3, <1>4, <1>10, EmptySeq
    <2>2. t \o R = R
      BY <1>5, <2>1, ConcatEmptySeq
    <2> QED
      BY <1>6, <1>8, <2>2, Zenon
  <1>11. Append(g, x) \in Seq(Seq(Pieces))
    BY <1>7 DEF Y
  <1> QED
    BY <1>1, <1>9, <1>10, <1>11 DEF m, x, r, R

\* What the chat has received and what is still to be sent.
Parts == got \o FlattenSeq(out)

\* DeliverInv: nothing is sent before Send; while parts are being sent, those
\* that arrived and those that are left are the answer; an answer that was
\* recorded without streaming has arrived.
DeliverInv ==
    /\ TextInv
    /\ pl \notin {"send", "ended"} => got = <<>> /\ result # "ok"
    /\ pl \in {"send", "ended"} => snd = "done"
    /\ pl = "send" =>
         /\ result # "ok"
         /\ out \in Seq(Messages) /\ out # <<>>
         /\ got \in Seq(Seq(Pieces))
         /\ DeliveredBy(Parts)
    /\ result = "ok" /\ ~sr => got \in Seq(Seq(Pieces)) /\ DeliveredBy(got)

\* It holds when the turn begins.
LEMMA StreamInitDeliver == StreamInit => DeliverInv
  BY DEF StreamInit, StartTurn, OutInit, DeliverInv, TextInv

\* Delivered speaks of the text, which does not change.
LEMMA SameText ==
    ASSUME lines' = lines
    PROVE  /\ DeliveredBy(got') <=> DeliveredBy(got)'
           /\ DeliveredBy(Parts') <=> DeliveredBy(Parts)'
           /\ TextInv <=> TextInv'
  BY DEF DeliveredBy, GoodPiece, AllFit, Opens, Fits, FenceEnd, FencesAfter, Block, Whole, Piece, Bytes, TextInv, Within

\* Steps that only others take.
LEMMA OtherDeliver ==
    ASSUME DeliverInv, UNCHANGED <<pl, result, sr, snd, outvars>>
    PROVE  DeliverInv'
  <1>1. UNCHANGED <<pl, result, sr, snd, lines, out, got>> /\ Parts' = Parts
    BY DEF outvars, Parts
  <1>2. /\ DeliveredBy(got)' <=> DeliveredBy(got)
        /\ DeliveredBy(Parts)' <=> DeliveredBy(Parts)
        /\ TextInv' <=> TextInv
    BY <1>1, SameText
  <1> QED
    BY <1>1, <1>2 DEF DeliverInv

\* The answer is split, and every part of it goes.
LEMMA PipeSendsDeliver ==
    ASSUME DeliverInv, PipeSends
    PROVE  DeliverInv'
  <1>1. /\ pl = "wait" /\ snd = "done" /\ result = "none" /\ ~sr /\ pl' = "send"
        /\ out' = SplitMessage /\ UNCHANGED <<lines, got, result, snd, sr>>
    BY DEF PipeSends, Send, sender
  <1>2. TextInv /\ got = <<>>
    BY <1>1 DEF DeliverInv
  <1>3. SplitMessage \in Seq(Messages) /\ SplitMessage # <<>> /\ DeliveredBy(FlattenSeq(SplitMessage))
    BY <1>2, SplitMessageFacts
  <1>4. Parts' = FlattenSeq(SplitMessage)
    <2>1. Messages \subseteq Seq(Seq(Pieces))
      BY DEF Messages
    <2>2. SplitMessage \in Seq(Seq(Seq(Pieces)))
      BY <1>3, <2>1
    <2>3. FlattenSeq(SplitMessage) \in Seq(Seq(Pieces))
      BY <2>2, FlattenType
    <2>4. <<>> \o FlattenSeq(SplitMessage) = FlattenSeq(SplitMessage)
      BY <2>3, ConcatEmptySeq
    <2>5. Parts' = got' \o FlattenSeq(out')
      BY DEF Parts
    <2>6. got' = <<>> /\ out' = SplitMessage
      BY <1>1, <1>2
    <2> QED
      BY <2>4, <2>5, <2>6, Zenon
  <1>5. DeliveredBy(Parts)' /\ TextInv'
    BY <1>1, <1>2, <1>3, <1>4, SameText
  <1>6. got' \in Seq(Seq(Pieces)) /\ out' \in Seq(Messages) /\ out' # <<>>
    BY <1>1, <1>2, <1>3, EmptySeq
  <1> QED
    BY <1>1, <1>5, <1>6 DEF DeliverInv

LEMMA PipeSendingDeliver ==
    ASSUME DeliverInv, PipeSending
    PROVE  DeliverInv'
  <1>1. pl = "send" /\ lines' = lines /\ UNCHANGED <<snd, sr>>
    BY DEF PipeSending, PartSent, ChatMoved, PartFails, sender
  <1>2. /\ TextInv /\ snd = "done" /\ result # "ok" /\ out \in Seq(Messages) /\ out # <<>>
        /\ got \in Seq(Seq(Pieces)) /\ DeliveredBy(Parts)
    BY <1>1 DEF DeliverInv
  <1>3. TextInv' /\ snd' = "done"
    BY <1>1, <1>2, SameText
  <1>4. ASSUME PartSent,
               IF out' = <<>>
                 THEN pl' = "ended" /\ reply' = Response /\ result' = "ok"
                 ELSE UNCHANGED <<pl, reply, result>>
        PROVE  DeliverInv'
    <2>1. got' = Append(got, Head(Head(out)))
      BY <1>4 DEF PartSent
    <2>2. /\ out' \in Seq(Messages)
          /\ got' \in Seq(Seq(Pieces))
          /\ got' \o FlattenSeq(out') = got \o FlattenSeq(out)
      <3>1. CASE Len(Head(out)) > 1
        <4>1. out' = [out EXCEPT ![1] = Tail(@)]
          BY <1>4, <3>1 DEF PartSent
        <4> QED
          BY <1>2, <2>1, <3>1, <4>1, PartGoes
      <3>2. CASE ~(Len(Head(out)) > 1)
        <4>1. out' = Tail(out)
          BY <1>4, <3>2 DEF PartSent
        <4> QED
          BY <1>2, <2>1, <3>2, <4>1, PartGoes
      <3> QED
        BY <3>1, <3>2
    <2>3. Parts' = Parts
      BY <2>2 DEF Parts
    <2>4. DeliveredBy(Parts)'
      BY <1>1, <1>2, <2>3, SameText
    <2>5. CASE out' = <<>>
      <3>1. got' \o FlattenSeq(out') = got'
        <4>1. FlattenSeq(out') = <<>>
          BY <2>5, FlattenEmpty, Zenon
        <4>2. got' \o <<>> = got'
          BY <2>2, ConcatEmptySeq
        <4> QED
          BY <4>1, <4>2, Zenon
      <3>2. Parts' = got'
        BY <3>1 DEF Parts
      <3>3. DeliveredBy(got)'
        BY <1>1, <1>2, <2>3, <3>2, SameText
      <3>4. pl' = "ended" /\ result' = "ok"
        BY <1>4, <2>5
      <3> QED
        BY <1>3, <2>2, <3>3, <3>4 DEF DeliverInv
    <2>6. CASE out' # <<>>
      <3>1. pl' = "send" /\ result' # "ok"
        BY <1>1, <1>2, <1>4, <2>6
      <3> QED
        BY <1>3, <2>2, <2>4, <2>6, <3>1 DEF DeliverInv
    <2> QED
      BY <2>5, <2>6
  <1>5. ASSUME ChatMoved, UNCHANGED <<pl, reply, result>> PROVE DeliverInv'
    <2>1. UNCHANGED <<pl, result, lines, out, got>> /\ Parts' = Parts
      BY <1>5 DEF ChatMoved, Parts
    <2>2. DeliveredBy(Parts)'
      BY <1>1, <1>2, <2>1, SameText
    <2> QED
      BY <1>1, <1>2, <1>3, <2>1, <2>2 DEF DeliverInv
  <1>6. ASSUME PartFails, pl' = "ended", result' = "undelivered" PROVE DeliverInv'
    BY <1>3, <1>6 DEF DeliverInv
  <1> QED
    BY <1>4, <1>5, <1>6 DEF PipeSending

\* Every step keeps DeliverInv.
LEMMA StreamNextDeliver == DeliverInv /\ [StreamNext]_streamVars => DeliverInv'
  <1> SUFFICES ASSUME DeliverInv, [StreamNext]_streamVars PROVE DeliverInv'
    OBVIOUS
  <1>1. CASE UNCHANGED streamVars
    BY <1>1, OtherDeliver DEF streamVars, pipe, sender
  <1>2. CASE OuterEnds \/ Timeout
    BY <1>2, OtherDeliver DEF OuterEnds, Timeout, pipe, sender
  <1>3. CASE Reader \/ ReadCancelled \/ RelayCancelled
    <2>1. UNCHANGED downstream
      BY <1>3 DEF Reader, ReadPiece, ReadDone, ReadEOF, ReadError, ReadCancelled, ReadLast, ReaderExits,
                  RelayCancelled
    <2> QED
      BY <2>1, OtherDeliver DEF downstream, pipe, sender
  <1>4. CASE \E c \in {"body", "chain"} : Relay(c) \/ RelayEnds(c)
    <2>1. UNCHANGED downstream
      BY <1>4 DEF Relay, RelayEnds
    <2> QED
      BY <2>1, OtherDeliver DEF downstream, pipe, sender
  <1>5. CASE LoopStep
    <2>1. UNCHANGED <<pipe, sender>>
      <3>1. CASE LoopTop
        BY <3>1 DEF LoopTop, upstream
      <3>2. CASE OpenStream
        BY <3>2 DEF OpenStream
      <3>3. CASE LoopText \/ LoopTools \/ LoopError \/ Drain \/ LoopClosed
        BY <3>3 DEF LoopText, LoopTools, LoopError, Drain, LoopClosed, upstream
      <3> QED
        BY <1>5, <3>1, <3>2, <3>3 DEF LoopStep
    <2> QED
      BY <2>1, OtherDeliver DEF pipe, sender
  <1>6. CASE PipeEvent
    <2>1. /\ pl = "events" /\ result' \in {result, "error"}
          /\ UNCHANGED <<pl, lines, out, got, snd, sr>>
      BY <1>6 DEF PipeEvent, outvars, sender
    <2>2. TextInv' /\ got = <<>> /\ result # "ok"
      BY <2>1, SameText DEF DeliverInv
    <2> QED
      BY <2>1, <2>2 DEF DeliverInv
  <1>7. CASE PipeClose
    <2>1. pl = "events" /\ pl' = "wait" /\ UNCHANGED <<result, lines, out, got, snd, sr>>
      BY <1>7 DEF PipeClose, outvars, sender
    <2>2. TextInv' /\ got = <<>> /\ result # "ok"
      BY <2>1, SameText DEF DeliverInv
    <2> QED
      BY <2>1, <2>2 DEF DeliverInv
  <1>8. CASE PipeEnds
    <2>1. /\ pl = "wait" /\ pl' = "ended" /\ snd = "done" /\ UNCHANGED <<lines, out, got, snd, sr>>
          /\ (result = "error" /\ result' = result) \/ (sr /\ result' = "ok")
      BY <1>8 DEF PipeEnds, outvars, sender
    <2>2. TextInv'
      BY <2>1, SameText DEF DeliverInv
    <2> QED
      BY <2>1, <2>2 DEF DeliverInv
  <1>9. CASE PipeSends
    BY <1>9, PipeSendsDeliver
  <1>10. CASE PipeSending
    BY <1>10, PipeSendingDeliver
  <1>11. CASE SendStep \/ SendTick
    <2>1. snd # "done" /\ UNCHANGED pipe
      BY <1>11 DEF SendStep, SendTick, SendRefused, SendPlaceholder, SendChunk, SendClosed, SendCancelled, rest
    <2>2. UNCHANGED <<pl, result, lines, out, got>>
      BY <2>1 DEF pipe, outvars
    <2>3. pl \notin {"send", "ended"} /\ got = <<>> /\ result # "ok" /\ TextInv'
      BY <2>1, <2>2, SameText DEF DeliverInv
    <2> QED
      BY <2>2, <2>3 DEF DeliverInv
  <1> QED
    BY <1>1, <1>2, <1>3, <1>4, <1>5, <1>6, <1>7, <1>8, <1>9, <1>10, <1>11 DEF StreamNext, PipeStep

\* The invariant gives DeliveredWhole.
LEMMA DeliveredFromInv == DeliverInv => DeliveredWhole
  <1> SUFFICES ASSUME DeliverInv, result = "ok", ~sr PROVE Delivered
    BY DEF DeliveredWhole
  <1>1. TextInv /\ got \in Seq(Seq(Pieces)) /\ DeliveredBy(got)
    BY DEF DeliverInv
  <1>2. DOMAIN got = 1..Len(got) /\ DOMAIN lines = 1..Len(lines)
    BY <1>1, LineFacts
  <1>3. AllBytes(FlattenSeq(got)) = AllBytes(Whole)
    BY <1>1 DEF DeliveredBy, PartBytes
  <1>4. AllBytes(Whole) # <<>> => \A k \in DOMAIN got : Size(got[k]) <= MaxLength
    BY <1>1, <1>2 DEF DeliveredBy
  <1>5. \A k \in DOMAIN got : \A p \in ToSet(got[k]) : p.from = p.to \/ Bytes(p.line)[p.from + 1]
    BY <1>1, <1>2 DEF DeliveredBy, GoodPiece
  <1>6. ASSUME NEW i \in DOMAIN lines, Opens(i), \A k \in 1..i : Opens(k) => Fits(k)
        PROVE  \E k \in DOMAIN got : ToSet(Block(i, Min(FencesAfter(i)))) \subseteq ToSet(got[k])
    <2>1. Within(got, ToSet(Block(i, FenceEnd(i))))
      BY <1>1, <1>2, <1>6 DEF DeliveredBy, AllFit
    <2> QED
      BY <1>2, <2>1 DEF Within, FenceEnd
  <1> QED
    BY <1>3, <1>4, <1>5, <1>6 DEF Delivered

\* DeliveredWhole (see there) holds for any texts and any limit of a message.
THEOREM AnswerDeliveredWhole == StreamSpec => []DeliveredWhole
  <1>1. StreamInit => DeliverInv
    BY StreamInitDeliver
  <1>2. DeliverInv /\ [StreamNext]_streamVars => DeliverInv'
    BY StreamNextDeliver
  <1>3. DeliverInv => DeliveredWhole
    BY DeliveredFromInv
  <1> QED
    BY <1>1, <1>2, <1>3, PTL DEF StreamSpec
=============================================================================
