--------------------------- MODULE PipelineProofs ---------------------------
(***************************************************************************)
(* Machine-checked proofs about Pipeline: every message is settled once,   *)
(* exchanges stay contiguous, the agent runs on the persisted history and  *)
(* /new forgets, for any number of workers, keys, sessions and messages.   *)
(***************************************************************************)
EXTENDS Pipeline, SequenceTheorems, TLAPS

\* Where a worker has settled its message, uses a session, holds the lane, and
\* may have written its message into a history.
Answered == {"finalize", "persistReply", "prune", "release"}
Attached == Points \ {"idle", "resolve"}
Locked == Attached \ {"purge", "delete", "lane"}
Writing == Locked \ {"agent", "history"}

\* The local variables of a worker go with where it is, and the lane of a key
\* is held by the worker that is under it.
LocalInv ==
    \A w \in Worker :
        /\ pc[w] = "idle" <=> env[w] = Nil
        /\ pc[w] \in Attached <=> sess[w] # Nil
        /\ \A k \in Key : lane[k] = w <=> pc[w] \in Locked /\ KeyOf(w) = k

\* A message is in one place at a time, and settled there or on the way out.
SettleInv ==
    /\ \A j \in DOMAIN inbox : inbox[j].id < nextId /\ settled[inbox[j].id] = 0
    /\ \A i, j \in DOMAIN inbox : inbox[i].id = inbox[j].id => i = j
    /\ \A w \in Worker : env[w] # Nil =>
         /\ env[w].id < nextId
         /\ settled[env[w].id] = IF pc[w] \in Answered THEN 1 ELSE 0
         /\ \A j \in DOMAIN inbox : inbox[j].id # env[w].id
         /\ \A v \in Worker : env[v] # Nil /\ env[v].id = env[w].id => v = w
    /\ \A i \in Ids : ~InFlight(i) => settled[i] = IF i < nextId THEN 1 ELSE 0

\* Session s is of key k: in the store, or in the hands of a worker.
Owns(s, k) == store[k] = s \/ \E w \in Worker : sess[w] = s /\ KeyOf(w) = k

\* A session object that is in use is of one key.
OwnInv == \A s \in Sess, j, k \in Key : Owns(s, j) /\ Owns(s, k) => j = k

\* The entry of the message of w, and of its answer.
Asked(w) == [role |-> "user", id |-> env[w].id]
Answer(w) == [role |-> "assistant", id |-> env[w].id]

EndsIn(h, e) == h # <<>> /\ h[Len(h)] = e

\* While a worker is between the message and its answer nothing else is written
\* behind the message: only /new may take it away, with all before it.
ExchangeInv ==
    \A k \in Key : "failed" \notin caveats[k] =>
        /\ Contiguous(db[k])
        /\ \A s \in Sess : Owns(s, k) => Contiguous(hist[s])
        /\ \A w \in Worker : env[w] # Nil /\ KeyOf(w) = k =>
             /\ pc[w] \in {"persist", "run", "send", "finalize"} => EndsIn(hist[sess[w]], Asked(w))
             /\ pc[w] \in {"run", "send", "finalize", "persistReply"} =>
                  db[k] = <<>> \/ EndsIn(db[k], Asked(w))

\* Worker w, with a message of key k, is at point p.
Busy(w, k, p) == pc[w] = p /\ KeyOf(w) = k

\* The session of k against the persistent history, when no /new has purged it:
\* one behind while a worker is to persist what it appended.
InSync(k) ==
    LET s == store[k] IN
    /\ \A w \in Worker : restored[s] /\ Busy(w, k, "persist") =>
         hist[s] = Trim(Append(db[k], Asked(w)))
    /\ \A w \in Worker : restored[s] /\ Busy(w, k, "persistReply") =>
         hist[s] = Trim(Append(db[k], Answer(w)))
    /\ (\A w \in Worker : ~Busy(w, k, "persist") /\ ~Busy(w, k, "persistReply")) =>
         IF restored[s] THEN hist[s] = Trim(db[k])
         ELSE db[k] = <<>> => hist[s] = <<>>

\* As long as no reset or prune takes a session from under a worker, workers of
\* a key use the session of the store, and /new is alone on it.
Undisturbed(k) ==
    /\ \A v \in Worker : pc[v] \in Attached \ {"release"} /\ KeyOf(v) = k => sess[v] = store[k]
    /\ \A v, w \in Worker :
         /\ v # w /\ pc[v] \in Attached /\ KeyOf(v) = k
         /\ pc[w] \in Attached /\ KeyOf(w) = k
         => pc[v] \notin {"purge", "delete"}

SyncInv ==
    \A k \in Key :
        /\ "torn" \notin caveats[k] => Undisturbed(k)
        /\ caveats[k] \cap {"torn", "failed"} = {} /\ store[k] # Nil
             /\ (\A w \in Worker : ~Busy(w, k, "delete")) => InSync(k)

\* Message i is in a history of key k, or was before a /new.
Written(i, k) ==
    \/ i \in EntryIds(db[k]) \cup forgotten[k]
    \/ \E s \in Sess : Owns(s, k) /\ i \in EntryIds(hist[s])

\* What is written of a key are messages of the key whose worker wrote them.
WrittenInv ==
    \A k \in Key, i \in Ids : Written(i, k) =>
        /\ i < nextId
        /\ \A j \in DOMAIN inbox : inbox[j].id # i
        /\ \A w \in Worker : env[w] # Nil /\ env[w].id = i => KeyOf(w) = k /\ pc[w] \in Writing

\* What /new forgot is nowhere, and its worker is gone.
ForgetInv ==
    \A k \in Key : caveats[k] = {} =>
        /\ EntryIds(db[k]) \cap forgotten[k] = {}
        /\ store[k] # Nil => EntryIds(hist[store[k]]) \cap forgotten[k] = {}
        /\ \A w \in Worker : env[w] # Nil /\ KeyOf(w) = k =>
             /\ env[w].id \notin forgotten[k]
             /\ pc[w] = "delete" => db[k] = <<>>

-----------------------------------------------------------------------------
\* Histories.

\* What appending does to a sequence.
LEMMA Appended ==
    ASSUME NEW S, NEW h \in Seq(S), NEW e \in S
    PROVE  /\ Append(h, e) \in Seq(S) /\ Len(h) \in Nat /\ Len(Append(h, e)) = Len(h) + 1
           /\ DOMAIN h = 1..Len(h) /\ DOMAIN Append(h, e) = 1..(Len(h) + 1)
           /\ \A i \in 1..Len(h) : Append(h, e)[i] = h[i]
           /\ Append(h, e)[Len(h) + 1] = e
           /\ Append(h, e) # <<>>
BY AppendProperties

\* Trim keeps the end of a history: its last entries, at most MaxHistoryLen.
LEMMA Trimmed ==
    ASSUME NEW S, NEW h \in Seq(S)
    PROVE  /\ Trim(h) \in Seq(S) /\ Len(h) \in Nat /\ Len(Trim(h)) \in Nat
           /\ DOMAIN h = 1..Len(h) /\ DOMAIN Trim(h) = 1..Len(Trim(h))
           /\ Len(Trim(h)) = IF Len(h) > MaxHistoryLen THEN MaxHistoryLen ELSE Len(h)
           /\ \A i \in 1..Len(Trim(h)) : Trim(h)[i] = h[i + (Len(h) - Len(Trim(h)))]
<1>0. MaxHistoryLen \in Nat \ {0} /\ Len(h) \in Nat /\ DOMAIN h = 1..Len(h)
  BY PipelineAssumption, LenProperties
<1>1. CASE Len(h) > MaxHistoryLen
  <2> DEFINE m == Len(h) - MaxHistoryLen + 1
             t == SubSeq(h, m, Len(h))
  <2>1. m \in 1..Len(h) /\ Len(h) - m + 1 = MaxHistoryLen
    BY <1>0, <1>1
  <2>2. /\ t \in Seq(S) /\ Len(t) = MaxHistoryLen
        /\ \A i \in 1..MaxHistoryLen : t[i] = h[m + i - 1]
    BY <1>0, <2>1, SubSeqProperties
  <2>3. \A i \in 1..MaxHistoryLen : m + i - 1 = i + (Len(h) - MaxHistoryLen)
    BY <1>0
  <2>4. Trim(h) = t
    BY <1>1 DEF Trim
  <2> HIDE DEF t, m
  <2> QED BY <1>0, <1>1, <2>2, <2>3, <2>4, LenProperties
<1>2. CASE ~(Len(h) > MaxHistoryLen)
  <2>1. Trim(h) = h
    BY <1>2 DEF Trim
  <2>2. \A i \in 1..Len(h) : i + (Len(h) - Len(h)) = i
    BY <1>0
  <2> QED BY <1>0, <1>2, <2>1, <2>2
<1> QED BY <1>1, <1>2

\* Nothing is trimmed of the end.
LEMMA TrimmedEnd ==
    ASSUME NEW S, NEW h \in Seq(S), NEW e \in S
    PROVE  /\ Trim(Append(h, e)) \in Seq(S)
           /\ EndsIn(Trim(Append(h, e)), e)
<1> DEFINE a == Append(h, e)
<1>1. a \in Seq(S) /\ Len(a) = Len(h) + 1 /\ Len(h) \in Nat /\ a[Len(h) + 1] = e
  BY Appended
<1> HIDE DEF a
<1>2. /\ Trim(a) \in Seq(S) /\ Len(Trim(a)) \in Nat
      /\ Len(Trim(a)) = IF Len(a) > MaxHistoryLen THEN MaxHistoryLen ELSE Len(a)
      /\ \A i \in 1..Len(Trim(a)) : Trim(a)[i] = a[i + (Len(a) - Len(Trim(a)))]
  BY <1>1, Trimmed
<1>3. Len(Trim(a)) # 0
  BY <1>1, <1>2, PipelineAssumption
<1>4. Trim(a)[Len(Trim(a))] = a[Len(a)]
  <2>1. Len(Trim(a)) \in 1..Len(Trim(a)) /\ Len(Trim(a)) + (Len(a) - Len(Trim(a))) = Len(a)
    BY <1>1, <1>2, <1>3
  <2> QED BY <1>2, <2>1
<1>5. Trim(a) # <<>>
  BY <1>2, <1>3, EmptySeq
<1> QED BY <1>1, <1>2, <1>4, <1>5 DEF EndsIn, a

\* Trimming before an append makes no difference.
LEMMA TrimmedTwice ==
    ASSUME NEW S, NEW h \in Seq(S), NEW e \in S
    PROVE  Trim(Append(Trim(h), e)) = Trim(Append(h, e))
<1> DEFINE t == Trim(h)
           a == Append(h, e)
           b == Append(Trim(h), e)
<1>1. /\ t \in Seq(S) /\ Len(h) \in Nat /\ Len(t) \in Nat
      /\ Len(t) = IF Len(h) > MaxHistoryLen THEN MaxHistoryLen ELSE Len(h)
      /\ \A i \in 1..Len(t) : t[i] = h[i + (Len(h) - Len(t))]
  BY Trimmed
<1>2. /\ a \in Seq(S) /\ Len(a) = Len(h) + 1 /\ a[Len(h) + 1] = e
      /\ \A i \in 1..Len(h) : a[i] = h[i]
  BY Appended
<1>3. /\ b \in Seq(S) /\ Len(b) = Len(t) + 1 /\ b[Len(t) + 1] = e
      /\ \A i \in 1..Len(t) : b[i] = t[i]
  BY <1>1, Appended
<1> HIDE DEF a, b, t
<1>4. /\ Trim(a) \in Seq(S) /\ Len(Trim(a)) \in Nat
      /\ Len(Trim(a)) = IF Len(a) > MaxHistoryLen THEN MaxHistoryLen ELSE Len(a)
      /\ \A i \in 1..Len(Trim(a)) : Trim(a)[i] = a[i + (Len(a) - Len(Trim(a)))]
  BY <1>2, Trimmed
<1>5. /\ Trim(b) \in Seq(S) /\ Len(Trim(b)) \in Nat
      /\ Len(Trim(b)) = IF Len(b) > MaxHistoryLen THEN MaxHistoryLen ELSE Len(b)
      /\ \A i \in 1..Len(Trim(b)) : Trim(b)[i] = b[i + (Len(b) - Len(Trim(b)))]
  BY <1>3, Trimmed
<1>0. MaxHistoryLen \in Nat \ {0}
  BY PipelineAssumption
<1>6. Len(Trim(a)) = Len(Trim(b))
  BY <1>0, <1>1, <1>2, <1>3, <1>4, <1>5
<1>l. /\ Len(h) \in Nat /\ Len(t) \in Nat /\ Len(a) = Len(h) + 1 /\ Len(b) = Len(t) + 1
      /\ Len(Trim(a)) \in Nat /\ Len(Trim(b)) = Len(Trim(a))
      /\ Len(Trim(a)) <= Len(a) /\ Len(Trim(a)) <= Len(b) /\ Len(t) <= Len(h)
  BY <1>0, <1>1, <1>2, <1>3, <1>4, <1>5, <1>6
<1>7. ASSUME NEW i \in 1..Len(Trim(a)) PROVE Trim(a)[i] = Trim(b)[i]
  <2>0. PICK x, y : /\ x = i + (Len(a) - Len(Trim(a)))
                    /\ y = i + (Len(b) - Len(Trim(b)))
    OBVIOUS
  <2>1. Trim(a)[i] = a[x] /\ Trim(b)[i] = b[y]
    BY <1>4, <1>5, <1>6, <2>0
  <2>2. /\ x \in 1..Len(a) /\ y \in 1..Len(b) /\ Len(a) - x = Len(b) - y
    BY <1>l, <2>0
  <2>3. CASE y = Len(t) + 1
    <3>1. x = Len(h) + 1
      BY <1>l, <2>2, <2>3
    <3> QED BY <1>2, <1>3, <2>1, <2>3, <3>1
  <2>4. CASE y # Len(t) + 1
    <3>1. y \in 1..Len(t) /\ x \in 1..Len(h) /\ x = y + (Len(h) - Len(t))
      BY <1>l, <2>2, <2>4
    <3>2. a[x] = h[x] /\ b[y] = t[y] /\ t[y] = h[y + (Len(h) - Len(t))]
      BY <1>1, <1>2, <1>3, <3>1
    <3> QED BY <2>1, <3>1, <3>2
  <2> QED BY <2>3, <2>4
<1>8. Trim(a) = Trim(b)
  BY <1>4, <1>5, <1>6, <1>7, SeqEqual
<1> QED BY <1>8 DEF a, b

\* The messages of a history.
LEMMA EntriesOf ==
    ASSUME NEW h \in Seq(Entry), NEW e \in Entry
    PROVE  /\ EntryIds(h) \subseteq Ids
           /\ EntryIds(Append(h, e)) = EntryIds(h) \cup {e.id}
           /\ EntryIds(Trim(h)) \subseteq EntryIds(h)
<1>1. Len(h) \in Nat /\ DOMAIN h = 1..Len(h) /\ \A i \in 1..Len(h) : h[i] \in Entry
  BY LenProperties
<1>2. EntryIds(h) \subseteq Ids
  BY <1>1 DEF EntryIds, Entry
<1>3. EntryIds(Append(h, e)) = EntryIds(h) \cup {e.id}
  <2> DEFINE a == Append(h, e)
  <2>1. /\ DOMAIN a = 1..(Len(h) + 1) /\ a[Len(h) + 1] = e
        /\ \A i \in 1..Len(h) : a[i] = h[i]
    BY Appended
  <2> HIDE DEF a
  <2>2. \A i \in 1..(Len(h) + 1) : i \in 1..Len(h) \/ i = Len(h) + 1
    BY <1>1
  <2>3. Len(h) + 1 \in 1..(Len(h) + 1) /\ \A i \in 1..Len(h) : i \in 1..(Len(h) + 1)
    BY <1>1
  <2>4. EntryIds(a) \subseteq EntryIds(h) \cup {e.id}
    BY <1>1, <2>1, <2>2 DEF EntryIds
  <2>5. EntryIds(h) \cup {e.id} \subseteq EntryIds(a)
    BY <1>1, <2>1, <2>3 DEF EntryIds
  <2>6. EntryIds(a) = EntryIds(h) \cup {e.id}
    BY <2>4, <2>5
  <2> QED BY <2>6 DEF a
<1>4. EntryIds(Trim(h)) \subseteq EntryIds(h)
  <2>1. /\ DOMAIN Trim(h) = 1..Len(Trim(h)) /\ Len(Trim(h)) \in Nat
        /\ Len(Trim(h)) = IF Len(h) > MaxHistoryLen THEN MaxHistoryLen ELSE Len(h)
        /\ \A i \in 1..Len(Trim(h)) : Trim(h)[i] = h[i + (Len(h) - Len(Trim(h)))]
    BY Trimmed
  <2>2. \A i \in 1..Len(Trim(h)) : i + (Len(h) - Len(Trim(h))) \in 1..Len(h)
    BY <1>1, <2>1, PipelineAssumption
  <2> QED BY <1>1, <2>1, <2>2 DEF EntryIds
<1> QED BY <1>2, <1>3, <1>4

\* Contiguous histories stay so: trimmed, with a message behind them, and with the
\* answer to the last one.
LEMMA ContiguousKept ==
    ASSUME NEW h \in Seq(Entry), NEW i \in Ids, Contiguous(h)
    PROVE  /\ Contiguous(Trim(h))
           /\ Contiguous(Append(h, [role |-> "user", id |-> i]))
           /\ h = <<>> \/ EndsIn(h, [role |-> "user", id |-> i])
                => Contiguous(Append(h, [role |-> "assistant", id |-> i]))
<1>1. Len(h) \in Nat /\ DOMAIN h = 1..Len(h) /\ \A j \in 1..Len(h) : h[j] \in Entry
  BY LenProperties
<1>2. Contiguous(Trim(h))
  <2> DEFINE t == Trim(h)
             o == Len(h) - Len(Trim(h))
  <2>1. /\ DOMAIN t = 1..Len(t) /\ Len(t) \in Nat
        /\ Len(t) = IF Len(h) > MaxHistoryLen THEN MaxHistoryLen ELSE Len(h)
        /\ \A j \in 1..Len(t) : t[j] = h[j + o]
    BY Trimmed
  <2>2. o \in Nat /\ Len(h) = Len(t) + o
    BY <1>1, <2>1, PipelineAssumption
  <2> HIDE DEF t, o
  <2>3. ASSUME NEW j \in DOMAIN t \ {1}, t[j].role = "assistant"
        PROVE  t[j - 1] = [role |-> "user", id |-> t[j].id]
    <3>1. j \in 1..Len(t) /\ j - 1 \in 1..Len(t)
      BY <2>1
    <3>a. j + o \in 1..Len(h) /\ j + o # 1 /\ (j + o) - 1 = (j - 1) + o
      <4>1. j \in Nat /\ j # 1 /\ j # 0 /\ j <= Len(t) /\ Len(t) \in Nat
        BY <2>1, <3>1
      <4> QED BY <2>2, <4>1
    <3>2. j + o \in DOMAIN h \ {1} /\ (j + o) - 1 = (j - 1) + o
      BY <1>1, <3>a
    <3>3. t[j] = h[j + o] /\ t[j - 1] = h[(j - 1) + o]
      BY <2>1, <3>1
    <3>4. h[(j + o) - 1] = [role |-> "user", id |-> h[j + o].id]
      BY <2>3, <3>2, <3>3 DEF Contiguous
    <3> QED BY <3>2, <3>3, <3>4
  <2> QED BY <2>3 DEF Contiguous, t
<1>3. ASSUME NEW e \in Entry,
             Len(h) # 0 /\ e.role = "assistant" => h[Len(h)] = [role |-> "user", id |-> e.id]
      PROVE  Contiguous(Append(h, e))
  <2> DEFINE a == Append(h, e)
  <2>1. /\ DOMAIN a = 1..(Len(h) + 1) /\ a[Len(h) + 1] = e
        /\ \A j \in 1..Len(h) : a[j] = h[j]
    BY Appended
  <2> HIDE DEF a
  <2>2. ASSUME NEW j \in DOMAIN a \ {1}, a[j].role = "assistant"
        PROVE  a[j - 1] = [role |-> "user", id |-> a[j].id]
    <3>1. CASE j \in 1..Len(h)
      <4>1. j \in DOMAIN h \ {1} /\ j - 1 \in 1..Len(h) /\ a[j] = h[j] /\ a[j - 1] = h[j - 1]
        BY <1>1, <2>1, <2>2, <3>1
      <4> QED BY <2>2, <4>1 DEF Contiguous
    <3>2. CASE j = Len(h) + 1
      <4>1. j - 1 = Len(h) /\ Len(h) \in 1..Len(h) /\ a[j] = e
        BY <1>1, <2>1, <2>2, <3>2
      <4>2. a[j - 1] = h[Len(h)] /\ Len(h) # 0
        BY <1>1, <2>1, <4>1
      <4> QED BY <1>3, <2>2, <4>1, <4>2
    <3> QED BY <1>1, <2>1, <2>2, <3>1, <3>2
  <2> QED BY <2>2 DEF Contiguous, a
<1>4. [role |-> "user", id |-> i] \in Entry /\ [role |-> "assistant", id |-> i] \in Entry
  BY DEF Entry
<1>5. h = <<>> => Len(h) = 0
  BY EmptySeq
<1>6. Contiguous(Append(h, [role |-> "user", id |-> i]))
  BY <1>3, <1>4
<1>7. h = <<>> \/ EndsIn(h, [role |-> "user", id |-> i])
        => Contiguous(Append(h, [role |-> "assistant", id |-> i]))
  BY <1>3, <1>4, <1>5 DEF EndsIn
<1> QED BY <1>2, <1>6, <1>7

-----------------------------------------------------------------------------
\* Types and local variables.

\* What a worker that has a message has.
LEMMA HasMessage ==
    ASSUME TypeOK, LocalInv, NEW w \in Worker, pc[w] # "idle"
    PROVE  /\ env[w] \in Msg /\ env[w] # Nil /\ env[w].id \in Ids /\ KeyOf(w) \in Key
           /\ pc[w] \in Attached => sess[w] \in Sess
           /\ Asked(w) \in Entry /\ Answer(w) \in Entry
<1>1. env[w] \in Msg /\ env[w] # Nil
  BY DEF TypeOK, LocalInv
<1>2. env[w].id \in Ids /\ KeyOf(w) \in Key
  BY <1>1 DEF Msg, KeyOf
<1>3. pc[w] \in Attached => sess[w] \in Sess
  BY DEF TypeOK, LocalInv
<1> QED BY <1>1, <1>2, <1>3 DEF Entry, Asked, Answer

\* What the steps that a worker's code shares do to the types.
LEMMA StepTypes ==
    ASSUME TypeOK, LocalInv, NEW w \in Worker
    PROVE  /\ \A p \in Points : Goto(w, p) => pc' \in [Worker -> Points]
           /\ Return(w) => /\ pc' \in [Worker -> Points] /\ env' \in [Worker -> Msg \cup {Nil}]
                           /\ sess' \in [Worker -> Sess \cup {Nil}]
                           /\ created' \in [Worker -> BOOLEAN]
           /\ pc[w] # "idle" /\ Settle(w) => settled' \in [Ids -> Nat]
           /\ \A k \in Key, c \in Caveats, b \in BOOLEAN :
                Note(k, c, b) => caveats' \in [Key -> SUBSET Caveats]
<1>1. \A p \in Points : Goto(w, p) => pc' \in [Worker -> Points]
  BY DEF TypeOK, Goto
<1>2. Return(w) => /\ pc' \in [Worker -> Points] /\ env' \in [Worker -> Msg \cup {Nil}]
                   /\ sess' \in [Worker -> Sess \cup {Nil}]
                   /\ created' \in [Worker -> BOOLEAN]
  BY <1>1 DEF TypeOK, Return, Points
<1>3. pc[w] # "idle" /\ Settle(w) => settled' \in [Ids -> Nat]
  BY HasMessage DEF TypeOK, Settle
<1>4. ASSUME NEW k \in Key, NEW c \in Caveats, NEW b \in BOOLEAN, Note(k, c, b)
      PROVE  caveats' \in [Key -> SUBSET Caveats]
  BY <1>4 DEF TypeOK, Note
<1> QED BY <1>1, <1>2, <1>3, <1>4

\* Pruning, by whoever it is.
LEMMA PruneTypes ==
    ASSUME TypeOK, NEW gone, NEW w, Prune(gone, w)
    PROVE  /\ store' \in [Key -> Sess \cup {Nil}]
           /\ caveats' \in [Key -> SUBSET Caveats]
BY DEF TypeOK, Prune, Caveats

\* Types, through the steps of a worker.
LEMMA ExecuteTypes ==
    ASSUME TypeOK, LocalInv, NEW w \in Worker, Execute(w)
    PROVE  TypeOK'
<1>0. /\ pc[w] # "idle" /\ env[w] \in Msg /\ env[w].id \in Ids /\ KeyOf(w) \in Key
      /\ pc[w] \in Attached => sess[w] \in Sess
      /\ Asked(w) \in Entry /\ Answer(w) \in Entry
  <2>1. pc[w] # "idle"
    BY DEF Execute, At, ResolveSession, NewPurge, NewDelete, AcquireLane, ResolveAgent, AppendUser,
           PersistUser, RunAgent, SendResponse, AppendAssistant, PersistAssistant, TryPrune, ReleaseLane
  <2> QED BY <2>1, HasMessage
<1>r. Return(w) => /\ pc' \in [Worker -> Points] /\ env' \in [Worker -> Msg \cup {Nil}]
                   /\ sess' \in [Worker -> Sess \cup {Nil}]
                   /\ created' \in [Worker -> BOOLEAN]
  BY StepTypes
<1>g. \A p \in Points : Goto(w, p) => pc' \in [Worker -> Points]
  BY StepTypes
<1>s. Settle(w) => settled' \in [Ids -> Nat]
  BY <1>0, StepTypes
<1>n. \A c \in Caveats, b \in BOOLEAN : Note(KeyOf(w), c, b) => caveats' \in [Key -> SUBSET Caveats]
  BY <1>0, StepTypes
<1>m. \A f : MayFail(f) \subseteq BOOLEAN
  BY DEF MayFail
<1>p. ASSUME NEW role \in {"user", "assistant"}, Persist(w, role)
      PROVE  db' \in [Key -> Seq(Entry)] /\ caveats' \in [Key -> SUBSET Caveats]
  <2>1. PICK failed \in MayFail("store") :
          /\ db' = IF failed THEN db
                   ELSE [db EXCEPT ![KeyOf(w)] = Append(@, [role |-> role, id |-> env[w].id])]
          /\ Note(KeyOf(w), "failed", failed)
    BY <1>p DEF Persist
  <2>2. Append(db[KeyOf(w)], [role |-> role, id |-> env[w].id]) \in Seq(Entry)
    <3>1. [role |-> role, id |-> env[w].id] \in Entry /\ db[KeyOf(w)] \in Seq(Entry)
      BY <1>0 DEF TypeOK, Entry
    <3> QED BY <3>1, Appended
  <2>3. db' \in [Key -> Seq(Entry)]
    BY <1>0, <2>1, <2>2 DEF TypeOK
  <2>4. caveats' \in [Key -> SUBSET Caveats]
    BY <1>m, <1>n, <2>1 DEF Caveats
  <2> QED BY <2>3, <2>4
<1>1. CASE ResolveSession(w)
  <2> DEFINE k == KeyOf(w)
             proceed(s, fresh) ==
              \/ /\ "filtered" \in Kinds
                 /\ Settle(w)
                 /\ Return(w)
                 /\ UNCHANGED caveats
              \/ /\ \E point \in IF "new" \in Kinds THEN {"purge", "lane"} ELSE {"lane"} :
                       /\ Goto(w, point)
                       /\ Note(k, "torn", ResetRaces(w, point))
                 /\ sess' = [sess EXCEPT ![w] = s]
                 /\ created' = [created EXCEPT ![w] = fresh]
                 /\ UNCHANGED <<env, settled>>
  <2>1. ASSUME NEW s \in Sess, NEW fresh \in BOOLEAN, proceed(s, fresh)
        PROVE  /\ pc' \in [Worker -> Points] /\ env' \in [Worker -> Msg \cup {Nil}]
               /\ sess' \in [Worker -> Sess \cup {Nil}] /\ created' \in [Worker -> BOOLEAN]
               /\ settled' \in [Ids -> Nat] /\ caveats' \in [Key -> SUBSET Caveats]
    <3>1. CASE Settle(w) /\ Return(w) /\ UNCHANGED caveats
      BY <1>r, <1>s, <3>1 DEF TypeOK
    <3>2. ASSUME NEW point \in {"purge", "lane"}, Goto(w, point), Note(k, "torn", ResetRaces(w, point)),
                 sess' = [sess EXCEPT ![w] = s], created' = [created EXCEPT ![w] = fresh],
                 UNCHANGED <<env, settled>>
          PROVE  /\ pc' \in [Worker -> Points] /\ env' \in [Worker -> Msg \cup {Nil}]
                 /\ sess' \in [Worker -> Sess \cup {Nil}] /\ created' \in [Worker -> BOOLEAN]
                 /\ settled' \in [Ids -> Nat] /\ caveats' \in [Key -> SUBSET Caveats]
      <4>1. pc' \in [Worker -> Points]
        BY <1>g, <3>2 DEF Points
      <4>2. ResetRaces(w, point) \in BOOLEAN
        BY DEF ResetRaces
      <4>3. caveats' \in [Key -> SUBSET Caveats]
        BY <1>n, <3>2, <4>2 DEF Caveats
      <4> QED BY <3>2, <4>1, <4>3 DEF TypeOK
    <3> QED BY <2>1, <3>1, <3>2
  <2>2. UNCHANGED <<inbox, nextId, db, lane, restarts, forgotten>>
    BY <1>1 DEF ResolveSession
  <2>3. CASE store[k] # Nil /\ proceed(store[k], FALSE) /\ UNCHANGED <<store, agent, hist, idle, restored>>
    <3>1. store[k] \in Sess
      BY <1>0, <2>3 DEF TypeOK
    <3> HIDE DEF proceed
    <3> QED BY <2>1, <2>2, <2>3, <3>1 DEF TypeOK
  <2>4. CASE Settle(w) /\ Return(w) /\ UNCHANGED <<store, agent, hist, idle, restored, caveats>>
    BY <1>r, <1>s, <2>2, <2>4 DEF TypeOK
  <2>5. ASSUME NEW s \in Sess, store' = [store EXCEPT ![k] = s], agent' = [agent EXCEPT ![s] = FALSE],
               hist' = [hist EXCEPT ![s] = <<>>], idle' = [idle EXCEPT ![s] = FALSE],
               restored' = [restored EXCEPT ![s] = FALSE], proceed(s, TRUE)
        PROVE  TypeOK'
    <3> HIDE DEF proceed
    <3>1. hist' \in [Sess -> Seq(Entry)]
      BY <2>5, EmptySeq DEF TypeOK
    <3>2. store' \in [Key -> Sess \cup {Nil}] /\ agent' \in [Sess -> BOOLEAN]
          /\ idle' \in [Sess -> BOOLEAN] /\ restored' \in [Sess -> BOOLEAN]
      BY <2>5 DEF TypeOK
    <3> QED BY <2>1, <2>2, <2>5, <3>1, <3>2 DEF TypeOK
  <2> QED BY <1>1, <2>3, <2>4, <2>5 DEF ResolveSession
<1>2. CASE NewPurge(w)
  <2>1. /\ UNCHANGED <<inbox, nextId, store, agent, hist, idle, lane, env, sess, created, restarts,
                       settled, forgotten, restored>>
        /\ pc' \in [Worker -> Points]
    BY <1>2, <1>g DEF NewPurge, Points
  <2>2. db' = db \/ db' = [db EXCEPT ![KeyOf(w)] = <<>>]
    BY <1>2 DEF NewPurge
  <2>3. db' \in [Key -> Seq(Entry)]
    BY <1>0, <2>2, EmptySeq DEF TypeOK
  <2>4. \E c \in Caveats, b \in BOOLEAN : Note(KeyOf(w), c, b)
    BY <1>2, <1>m DEF NewPurge, Caveats
  <2>5. caveats' \in [Key -> SUBSET Caveats]
    BY <1>n, <2>4
  <2> QED BY <2>1, <2>3, <2>5 DEF TypeOK
<1>3. CASE NewDelete(w)
  <2> DEFINE k == KeyOf(w)
             live == IF store[k] = Nil THEN <<>> ELSE hist[store[k]]
  <2>1. /\ store' = [store EXCEPT ![k] = Nil]
        /\ forgotten' = [forgotten EXCEPT ![k] = @ \cup EntryIds(live) \cup EntryIds(db[k])]
        /\ Settle(w) /\ Return(w)
        /\ UNCHANGED <<inbox, nextId, agent, hist, idle, db, lane, restarts, restored, caveats>>
    BY <1>3 DEF NewDelete
  <2>2. live \in Seq(Entry) /\ db[k] \in Seq(Entry)
    BY <1>0, EmptySeq DEF TypeOK
  <2>3. EntryIds(live) \subseteq Ids /\ EntryIds(db[k]) \subseteq Ids
    BY <1>0, <2>2, EntriesOf
  <2> HIDE DEF live
  <2>4. forgotten' \in [Key -> SUBSET Ids]
    BY <1>0, <2>1, <2>3 DEF TypeOK
  <2> QED BY <1>0, <1>r, <1>s, <2>1, <2>4 DEF TypeOK
<1>4. CASE AcquireLane(w)
  BY <1>0, <1>4, <1>g DEF AcquireLane, TypeOK, ghosts, Points
<1>5. CASE ResolveAgent(w)
  <2>1. /\ UNCHANGED <<inbox, nextId, store, hist, idle, db, lane, env, sess, created, restarts,
                       forgotten, restored, caveats>>
        /\ Goto(w, "release") \/ Goto(w, "history")
        /\ Settle(w) \/ UNCHANGED settled
        /\ UNCHANGED agent \/ agent' = [agent EXCEPT ![sess[w]] = TRUE]
    BY <1>5 DEF ResolveAgent
  <2>2. pc' \in [Worker -> Points]
    BY <1>g, <2>1 DEF Points
  <2>3. agent' \in [Sess -> BOOLEAN] /\ settled' \in [Ids -> Nat]
    BY <1>s, <2>1 DEF TypeOK
  <2> QED BY <2>1, <2>2, <2>3 DEF TypeOK
<1>6. CASE AppendUser(w)
  <2>0. sess[w] \in Sess
    BY <1>0, <1>6 DEF AppendUser, At, Attached, Points
  <2>1. PICK failed \in IF created[w] THEN MayFail("store") ELSE {FALSE} :
          LET k == KeyOf(w)
              base == IF created[w] /\ ~failed /\ db[k] # <<>> THEN Trim(db[k]) ELSE hist[sess[w]]
          IN /\ restored' = [restored EXCEPT ![sess[w]] = @ \/ created[w]]
             /\ Note(k, "failed", failed)
             /\ \/ /\ hist' = [hist EXCEPT ![sess[w]] = base]
                   /\ Settle(w)
                   /\ Goto(w, "release")
                \/ /\ hist' = [hist EXCEPT ![sess[w]] = Trim(Append(base, Asked(w)))]
                   /\ Goto(w, "persist")
                   /\ UNCHANGED settled
    BY <1>6 DEF AppendUser, Asked
  <2>b. failed \in BOOLEAN
    BY <1>m
  <2> DEFINE k == KeyOf(w)
             base == IF created[w] /\ ~failed /\ db[k] # <<>> THEN Trim(db[k]) ELSE hist[sess[w]]
  <2>2. base \in Seq(Entry)
    <3>1. db[k] \in Seq(Entry) /\ hist[sess[w]] \in Seq(Entry)
      BY <1>0, <2>0 DEF TypeOK
    <3> QED BY <3>1, Trimmed
  <2>3. Trim(Append(base, Asked(w))) \in Seq(Entry)
    BY <1>0, <2>2, TrimmedEnd
  <2>a. hist' = [hist EXCEPT ![sess[w]] = base] \/ hist' = [hist EXCEPT ![sess[w]] = Trim(Append(base, Asked(w)))]
    BY <2>1
  <2> HIDE DEF base
  <2>4. hist' \in [Sess -> Seq(Entry)]
    BY <2>0, <2>2, <2>3, <2>a DEF TypeOK
  <2>5. pc' \in [Worker -> Points] /\ settled' \in [Ids -> Nat]
    BY <1>g, <1>s, <2>1 DEF TypeOK, Points
  <2>6. restored' \in [Sess -> BOOLEAN]
    BY <2>0, <2>1 DEF TypeOK
  <2>7. caveats' \in [Key -> SUBSET Caveats]
    BY <1>n, <2>1, <2>b DEF Caveats
  <2> QED BY <1>6, <2>4, <2>5, <2>6, <2>7 DEF AppendUser, TypeOK
<1>7. CASE PersistUser(w)
  <2>1. db' \in [Key -> Seq(Entry)] /\ caveats' \in [Key -> SUBSET Caveats]
    BY <1>7, <1>p DEF PersistUser
  <2>2. pc' \in [Worker -> Points]
    BY <1>7, <1>g DEF PersistUser, Points
  <2> QED BY <1>7, <2>1, <2>2 DEF PersistUser, TypeOK
<1>8. CASE RunAgent(w)
  <2>1. pc' \in [Worker -> Points] /\ settled' \in [Ids -> Nat]
    BY <1>8, <1>g, <1>s DEF RunAgent, Points, TypeOK
  <2> QED BY <1>8, <2>1 DEF RunAgent, TypeOK
<1>9. CASE SendResponse(w)
  <2>1. pc' \in [Worker -> Points] /\ settled' \in [Ids -> Nat]
    BY <1>9, <1>g, <1>s DEF SendResponse, Points, TypeOK
  <2> QED BY <1>9, <2>1 DEF SendResponse, TypeOK
<1>10. CASE AppendAssistant(w)
  <2>0. sess[w] \in Sess
    BY <1>0, <1>10 DEF AppendAssistant, At, Attached, Points
  <2>1. Trim(Append(hist[sess[w]], Answer(w))) \in Seq(Entry)
    <3>1. hist[sess[w]] \in Seq(Entry)
      BY <2>0 DEF TypeOK
    <3> QED BY <1>0, <3>1, TrimmedEnd
  <2>2. hist' = [hist EXCEPT ![sess[w]] = Trim(Append(hist[sess[w]], Answer(w)))]
    BY <1>10 DEF AppendAssistant, Answer
  <2>3. hist' \in [Sess -> Seq(Entry)]
    BY <2>0, <2>1, <2>2 DEF TypeOK
  <2>4. pc' \in [Worker -> Points] /\ idle' \in [Sess -> BOOLEAN]
    BY <1>10, <1>g DEF AppendAssistant, Points, TypeOK
  <2> QED BY <1>10, <2>3, <2>4 DEF AppendAssistant, TypeOK, ghosts
<1>11. CASE PersistAssistant(w)
  <2>1. db' \in [Key -> Seq(Entry)] /\ caveats' \in [Key -> SUBSET Caveats]
    BY <1>11, <1>p DEF PersistAssistant
  <2>2. pc' \in [Worker -> Points]
    BY <1>11, <1>g DEF PersistAssistant, Points
  <2> QED BY <1>11, <2>1, <2>2 DEF PersistAssistant, TypeOK
<1>12. CASE TryPrune(w)
  <2>1. store' \in [Key -> Sess \cup {Nil}] /\ caveats' \in [Key -> SUBSET Caveats]
    BY <1>12, PruneTypes DEF TryPrune
  <2>2. pc' \in [Worker -> Points]
    BY <1>12, <1>g DEF TryPrune, Points
  <2> QED BY <1>12, <2>1, <2>2 DEF TryPrune, TypeOK
<1>13. CASE ReleaseLane(w)
  BY <1>0, <1>13, <1>r DEF ReleaseLane, TypeOK, ghosts
<1> QED BY <1>1, <1>2, <1>3, <1>4, <1>5, <1>6, <1>7, <1>8, <1>9, <1>10, <1>11, <1>12, <1>13 DEF Execute

\* Types, through every step.
LEMMA NextTypes == TypeOK /\ LocalInv /\ [Next]_vars => TypeOK'
<1> SUFFICES ASSUME TypeOK, LocalInv, [Next]_vars PROVE TypeOK'
  OBVIOUS
<1>0. {MaxSessions, InboxSize, MaxMsgs, MaxRestarts} \subseteq Nat
  BY PipelineAssumption
<1>1. ASSUME NEW k \in Key, Submit(k) PROVE TypeOK'
  <2>1. nextId \in Ids /\ nextId' \in 1..MaxMsgs + 1
    BY <1>0, <1>1 DEF Submit, TypeOK, Ids
  <2>2. inbox' \in Seq(Msg) /\ Len(inbox') <= InboxSize
    <3>1. CASE inbox' = inbox
      BY <3>1 DEF TypeOK
    <3>2. CASE Len(inbox) < InboxSize /\ inbox' = Append(inbox, [id |-> nextId, key |-> k])
      <4>1. [id |-> nextId, key |-> k] \in Msg
        BY <2>1 DEF Msg
      <4> QED BY <1>0, <3>2, <4>1, Appended DEF TypeOK
    <3> QED BY <1>1, <3>1, <3>2 DEF Submit
  <2>3. settled' \in [Ids -> Nat]
    BY <1>1, <2>1 DEF Submit, TypeOK
  <2> QED BY <1>1, <2>1, <2>2, <2>3 DEF Submit, TypeOK, locals
<1>2. ASSUME NEW w \in Worker, Receive(w) PROVE TypeOK'
  <2>1. inbox # <<>> /\ inbox \in Seq(Msg)
    BY <1>2 DEF Receive, TypeOK
  <2>2. Head(inbox) \in Msg /\ Tail(inbox) \in Seq(Msg) /\ Len(Tail(inbox)) = Len(inbox) - 1 /\ Len(inbox) \in Nat
    BY <2>1, HeadTailProperties, LenProperties
  <2>3. Len(inbox') <= InboxSize
    BY <1>0, <1>2, <2>2 DEF Receive, TypeOK
  <2>4. pc' \in [Worker -> Points]
    BY <1>2, StepTypes DEF Receive, Points
  <2> QED BY <1>2, <2>2, <2>3, <2>4 DEF Receive, TypeOK, ghosts
<1>3. ASSUME NEW w \in Worker, Execute(w) PROVE TypeOK'
  BY <1>3, ExecuteTypes
<1>4. ASSUME NEW s \in Sess, Age(s) PROVE TypeOK'
  BY <1>4 DEF Age, TypeOK, locals, ghosts
<1>5. CASE CronPrune
  BY <1>5, PruneTypes DEF CronPrune, TypeOK, locals
<1>6. ASSUME NEW k \in Key, DeleteSession(k) PROVE TypeOK'
  <2>1. restarts' \in 0..MaxRestarts
    BY <1>0, <1>6 DEF DeleteSession, TypeOK
  <2> QED BY <1>6, <2>1, PruneTypes DEF DeleteSession, TypeOK, locals
<1>7. CASE Restart
  <2>1. restarts' \in 0..MaxRestarts
    BY <1>0, <1>7 DEF Restart, TypeOK
  <2>2. inbox' \in Seq(Msg) /\ Len(inbox') <= InboxSize
    BY <1>0, <1>7, EmptySeq DEF Restart
  <2>3. hist' \in [Sess -> Seq(Entry)]
    BY <1>7, EmptySeq DEF Restart
  <2> QED BY <1>7, <2>1, <2>2, <2>3 DEF Restart, TypeOK, Points
<1>8. CASE Quiescent \/ UNCHANGED vars
  BY <1>8 DEF Quiescent, vars, locals, ghosts, TypeOK
<1> QED BY <1>1, <1>2, <1>3, <1>4, <1>5, <1>6, <1>7, <1>8 DEF Next

\* Only worker w moves; it goes on with its message, or is done with it.
Moved(w) ==
    /\ \A v \in Worker \ {w} : /\ pc'[v] = pc[v] /\ env'[v] = env[v]
                               /\ sess'[v] = sess[v] /\ created'[v] = created[v]
    /\ \/ pc'[w] = "idle" /\ env'[w] = Nil /\ sess'[w] = Nil
       \/ /\ pc'[w] # "idle" /\ env'[w] = env[w]
          /\ sess'[w] = sess[w] \/ pc[w] = "resolve"
    /\ UNCHANGED <<inbox, nextId, restarts>>

\* The message of w is settled by the step when w leaves Execute with no answer
\* given before, or gives one.
SettlesOnExit(w) ==
    settled' = IF pc[w] \notin Answered /\ pc'[w] \in Answered \cup {"idle"}
               THEN [settled EXCEPT ![env[w].id] = @ + 1] ELSE settled

\* The lane of w's key, and what it means for w to go from one point to another.
LaneFollows(w) ==
    lane' = IF pc[w] = "lane" THEN [lane EXCEPT ![KeyOf(w)] = w]
            ELSE IF pc[w] = "release" THEN [lane EXCEPT ![KeyOf(w)] = Nil] ELSE lane

\* Where a step of Execute leads.
Leads(from) ==
    CASE from = "resolve" -> {"idle", "purge", "lane"}
      [] from = "purge" -> {"delete"}
      [] from = "delete" -> {"idle"}
      [] from = "lane" -> {"agent"}
      [] from = "agent" -> {"release", "history"}
      [] from = "history" -> {"release", "persist"}
      [] from = "persist" -> {"run"}
      [] from = "run" -> {"release", "send"}
      [] from = "send" -> {"release", "finalize"}
      [] from = "finalize" -> {"persistReply"}
      [] from = "persistReply" -> {"prune"}
      [] from = "prune" -> {"release"}
      [] from = "release" -> {"idle"}
      [] OTHER -> {}

\* What goto and return do to a worker's variables.
LEMMA GotoMoves ==
    ASSUME TypeOK, LocalInv, NEW w \in Worker, NEW p \in Points \ {"idle"}, Goto(w, p),
           UNCHANGED <<env, sess, created, inbox, nextId, restarts>>
    PROVE  Moved(w) /\ pc'[w] = p
BY DEF TypeOK, Goto, Moved

LEMMA ReturnMoves ==
    ASSUME TypeOK, LocalInv, NEW w \in Worker, Return(w), UNCHANGED <<inbox, nextId, restarts>>
    PROVE  Moved(w) /\ pc'[w] = "idle"
BY DEF TypeOK, Goto, Return, Moved

\* Every step of Execute follows the graph of points.
LEMMA ExecuteMoves ==
    ASSUME TypeOK, LocalInv, NEW w \in Worker, Execute(w)
    PROVE  /\ Moved(w) /\ SettlesOnExit(w) /\ LaneFollows(w)
           /\ pc'[w] \in Leads(pc[w])
           /\ pc[w] = "resolve" /\ pc'[w] # "idle" => sess'[w] \in Sess
           /\ pc[w] = "lane" => lane[KeyOf(w)] = Nil
           /\ pc[w] # "idle"
<1>1. CASE ResolveSession(w)
  <2>1. /\ pc[w] = "resolve" /\ lane' = lane
        /\ UNCHANGED <<inbox, nextId, restarts>>
    BY <1>1 DEF ResolveSession, At
  <2>2. CASE Settle(w) /\ Return(w)
    BY <2>1, <2>2, ReturnMoves DEF SettlesOnExit, LaneFollows, Leads, Settle, Answered
  <2>3. ASSUME NEW point \in {"purge", "lane"}, NEW s \in Sess, NEW fresh,
               Goto(w, point), sess' = [sess EXCEPT ![w] = s],
               created' = [created EXCEPT ![w] = fresh], UNCHANGED <<env, settled>>
        PROVE  /\ Moved(w) /\ SettlesOnExit(w) /\ LaneFollows(w)
               /\ pc'[w] \in Leads(pc[w]) /\ sess'[w] \in Sess
    <3>1. Moved(w) /\ pc'[w] = point /\ sess'[w] = s
      BY <2>1, <2>3 DEF TypeOK, Goto, Moved
    <3> QED BY <2>1, <2>3, <3>1 DEF SettlesOnExit, LaneFollows, Leads, Answered
  <2>4. KeyOf(w) \in Key
    BY <2>1, HasMessage
  <2>5. store[KeyOf(w)] # Nil => store[KeyOf(w)] \in Sess
    BY <2>4 DEF TypeOK
  <2>6. \/ Settle(w) /\ Return(w)
        \/ \E point \in {"purge", "lane"}, s \in Sess, fresh \in BOOLEAN :
              /\ Goto(w, point) /\ sess' = [sess EXCEPT ![w] = s]
              /\ created' = [created EXCEPT ![w] = fresh] /\ UNCHANGED <<env, settled>>
    BY <1>1, <2>5 DEF ResolveSession
  <2> QED BY <2>1, <2>2, <2>3, <2>6
<1>2. CASE NewPurge(w)
  <2>1. pc[w] = "purge" /\ Moved(w) /\ pc'[w] = "delete" /\ UNCHANGED <<lane, settled>>
    BY <1>2, GotoMoves DEF NewPurge, At, Points
  <2> QED BY <2>1 DEF SettlesOnExit, LaneFollows, Leads, Answered
<1>3. CASE NewDelete(w)
  <2>1. pc[w] = "delete" /\ Moved(w) /\ pc'[w] = "idle" /\ UNCHANGED lane /\ Settle(w)
    BY <1>3, ReturnMoves DEF NewDelete, At
  <2> QED BY <2>1 DEF SettlesOnExit, LaneFollows, Leads, Answered, Settle
<1>4. CASE AcquireLane(w)
  <2>1. /\ pc[w] = "lane" /\ Moved(w) /\ pc'[w] = "agent" /\ UNCHANGED settled
        /\ lane[KeyOf(w)] = Nil /\ lane' = [lane EXCEPT ![KeyOf(w)] = w]
    BY <1>4, GotoMoves DEF AcquireLane, At, Points, ghosts
  <2> QED BY <2>1 DEF SettlesOnExit, LaneFollows, Leads, Answered
<1>5. CASE ResolveAgent(w)
  <2>1. /\ pc[w] = "agent" /\ UNCHANGED <<lane, env, sess, created, inbox, nextId, restarts>>
        /\ (Goto(w, "release") /\ Settle(w)) \/ (Goto(w, "history") /\ UNCHANGED settled)
    BY <1>5 DEF ResolveAgent, At
  <2>2. Moved(w) /\ ((pc'[w] = "release" /\ Settle(w)) \/ (pc'[w] = "history" /\ UNCHANGED settled))
    BY <2>1, GotoMoves DEF Points
  <2> QED BY <2>1, <2>2 DEF SettlesOnExit, LaneFollows, Leads, Answered, Settle
<1>6. CASE AppendUser(w)
  <2>1. /\ pc[w] = "history" /\ UNCHANGED <<lane, env, sess, created, inbox, nextId, restarts>>
        /\ (Goto(w, "release") /\ Settle(w)) \/ (Goto(w, "persist") /\ UNCHANGED settled)
    BY <1>6 DEF AppendUser, At
  <2>2. Moved(w) /\ ((pc'[w] = "release" /\ Settle(w)) \/ (pc'[w] = "persist" /\ UNCHANGED settled))
    BY <2>1, GotoMoves DEF Points
  <2> QED BY <2>1, <2>2 DEF SettlesOnExit, LaneFollows, Leads, Answered, Settle
<1>7. CASE PersistUser(w)
  <2>1. pc[w] = "persist" /\ Moved(w) /\ pc'[w] = "run" /\ UNCHANGED <<lane, settled>>
    BY <1>7, GotoMoves DEF PersistUser, At, Points
  <2> QED BY <2>1 DEF SettlesOnExit, LaneFollows, Leads, Answered
<1>8. CASE RunAgent(w)
  <2>1. /\ pc[w] = "run" /\ UNCHANGED <<lane, env, sess, created, inbox, nextId, restarts>>
        /\ (Goto(w, "release") /\ Settle(w)) \/ (Goto(w, "send") /\ UNCHANGED settled)
    BY <1>8 DEF RunAgent, At
  <2>2. Moved(w) /\ ((pc'[w] = "release" /\ Settle(w)) \/ (pc'[w] = "send" /\ UNCHANGED settled))
    BY <2>1, GotoMoves DEF Points
  <2> QED BY <2>1, <2>2 DEF SettlesOnExit, LaneFollows, Leads, Answered, Settle
<1>9. CASE SendResponse(w)
  <2>1. /\ pc[w] = "send" /\ UNCHANGED <<lane, env, sess, created, inbox, nextId, restarts>>
        /\ Goto(w, "release") \/ Goto(w, "finalize")
        /\ Settle(w)
    BY <1>9 DEF SendResponse, At
  <2>2. Moved(w) /\ (pc'[w] = "release" \/ pc'[w] = "finalize")
    BY <2>1, GotoMoves DEF Points
  <2> QED BY <2>1, <2>2 DEF SettlesOnExit, LaneFollows, Leads, Answered, Settle
<1>10. CASE AppendAssistant(w)
  <2>1. pc[w] = "finalize" /\ Moved(w) /\ pc'[w] = "persistReply" /\ UNCHANGED <<lane, settled>>
    BY <1>10, GotoMoves DEF AppendAssistant, At, Points, ghosts
  <2> QED BY <2>1 DEF SettlesOnExit, LaneFollows, Leads, Answered
<1>11. CASE PersistAssistant(w)
  <2>1. pc[w] = "persistReply" /\ Moved(w) /\ pc'[w] = "prune" /\ UNCHANGED <<lane, settled>>
    BY <1>11, GotoMoves DEF PersistAssistant, At, Points
  <2> QED BY <2>1 DEF SettlesOnExit, LaneFollows, Leads, Answered
<1>12. CASE TryPrune(w)
  <2>1. pc[w] = "prune" /\ Moved(w) /\ pc'[w] = "release" /\ UNCHANGED <<lane, settled>>
    BY <1>12, GotoMoves DEF TryPrune, At, Points
  <2> QED BY <2>1 DEF SettlesOnExit, LaneFollows, Leads, Answered
<1>13. CASE ReleaseLane(w)
  <2>1. /\ pc[w] = "release" /\ Moved(w) /\ pc'[w] = "idle" /\ UNCHANGED settled
        /\ lane' = [lane EXCEPT ![KeyOf(w)] = Nil]
    BY <1>13, ReturnMoves DEF ReleaseLane, At, ghosts
  <2> QED BY <2>1 DEF SettlesOnExit, LaneFollows, Leads, Answered
<1> QED BY <1>1, <1>2, <1>3, <1>4, <1>5, <1>6, <1>7, <1>8, <1>9, <1>10, <1>11, <1>12, <1>13 DEF Execute

\* The workers' variables and the lanes, through every step.
LEMMA NextLocalInv == TypeOK /\ LocalInv /\ [Next]_vars => LocalInv'
<1> SUFFICES ASSUME TypeOK, LocalInv, [Next]_vars PROVE LocalInv'
  OBVIOUS
<1>1. ASSUME NEW w \in Worker, Execute(w) PROVE LocalInv'
  <2>1. /\ Moved(w) /\ LaneFollows(w)
        /\ pc'[w] \in Leads(pc[w])
        /\ pc[w] = "resolve" /\ pc'[w] # "idle" => sess'[w] \in Sess
        /\ pc[w] = "lane" => lane[KeyOf(w)] = Nil
        /\ pc[w] # "idle" /\ pc[w] \in Points
    BY <1>1, ExecuteMoves DEF TypeOK
  <2>2. KeyOf(w) \in Key /\ env[w] # Nil /\ (pc[w] # "resolve" => sess[w] # Nil) /\ Nil \notin Sess /\ w # Nil
    BY <2>1, HasMessage, PipelineAssumption DEF LocalInv, Attached
  <2>3. /\ pc[w] \in Locked => pc'[w] \in Locked \/ pc[w] = "release"
        /\ pc[w] \notin Locked => pc'[w] \notin Locked \/ pc[w] = "lane"
        /\ pc[w] = "release" => pc'[w] \notin Locked
        /\ pc[w] = "lane" => pc'[w] = "agent" /\ pc'[w] \in Locked /\ pc[w] \notin Locked
        /\ pc'[w] # "idle" => pc'[w] \in Attached
        /\ "release" \in Locked
    BY <2>1 DEF Leads, Locked, Attached, Points
  <2>4. ASSUME NEW v \in Worker PROVE (pc'[v] = "idle" <=> env'[v] = Nil) /\ (pc'[v] \in Attached <=> sess'[v] # Nil)
    <3>1. CASE v # w
      BY <2>1, <3>1 DEF Moved, LocalInv
    <3>2. CASE v = w
      BY <2>1, <2>2, <2>3, <3>2 DEF Moved, Attached
    <3> QED BY <3>1, <3>2
  <2>6. ASSUME NEW v \in Worker, NEW k \in Key
        PROVE  lane'[k] = v <=> pc'[v] \in Locked /\ KeyOf(v)' = k
    <3>0. DOMAIN lane = Key /\ v # Nil /\ (lane[k] = v <=> pc[v] \in Locked /\ KeyOf(v) = k)
      BY PipelineAssumption DEF TypeOK, LocalInv
    <3>k. "idle" \notin Locked
      BY DEF Locked, Attached
    <3>l. lane[KeyOf(w)] = w <=> pc[w] \in Locked
      BY <2>2 DEF LocalInv
    <3>1. CASE v # w
      <4>1. pc'[v] = pc[v] /\ KeyOf(v)' = KeyOf(v)
        BY <2>1, <3>1 DEF Moved, KeyOf
      <4>2. CASE k = KeyOf(w) /\ pc[w] \in {"lane", "release"}
        <5>1. lane'[k] # v
          BY <2>1, <2>2, <3>0, <3>1, <4>2 DEF LaneFollows
        <5>2. lane[k] # v
          BY <2>1, <2>3, <3>0, <3>1, <3>l, <4>2
        <5> QED BY <3>0, <4>1, <5>1, <5>2
      <4>3. CASE ~(k = KeyOf(w) /\ pc[w] \in {"lane", "release"})
        <5>1. lane'[k] = lane[k]
          BY <2>1, <3>0, <4>3 DEF LaneFollows
        <5> QED BY <3>0, <4>1, <5>1
      <4> QED BY <4>2, <4>3
    <3>2. CASE v = w
      <4>1. CASE pc[w] = "lane"
        <5>1. lane' = [lane EXCEPT ![KeyOf(w)] = w] /\ KeyOf(w)' = KeyOf(w) /\ pc'[w] \in Locked
          BY <2>1, <2>3, <3>k, <4>1 DEF LaneFollows, Moved, KeyOf
        <5> QED BY <2>3, <3>0, <3>2, <4>1, <5>1
      <4>2. CASE pc[w] = "release"
        <5>1. lane' = [lane EXCEPT ![KeyOf(w)] = Nil] /\ pc'[w] \notin Locked
          BY <2>1, <2>3, <4>2 DEF LaneFollows
        <5> QED BY <2>3, <3>0, <3>2, <4>2, <5>1
      <4>3. CASE pc[w] \notin {"lane", "release"}
        <5>1. lane' = lane /\ (pc'[w] \in Locked <=> pc[w] \in Locked)
          BY <2>1, <2>3, <4>3 DEF LaneFollows
        <5>2. pc'[w] \in Locked => KeyOf(w)' = KeyOf(w)
          BY <2>1, <3>k DEF Moved, KeyOf
        <5> QED BY <3>0, <3>2, <5>1, <5>2
      <4> QED BY <4>1, <4>2, <4>3
    <3> QED BY <3>1, <3>2
  <2> QED BY <2>4, <2>6 DEF LocalInv
<1>2. ASSUME NEW w \in Worker, Receive(w) PROVE LocalInv'
  <2>1. /\ pc[w] = "idle" /\ pc'[w] = "resolve" /\ UNCHANGED <<sess, lane>>
        /\ env'[w] = Head(inbox)
        /\ \A v \in Worker \ {w} : pc'[v] = pc[v] /\ env'[v] = env[v]
    BY <1>2 DEF Receive, At, Goto, TypeOK
  <2>2. env'[w] # Nil
    <3>1. inbox \in Seq(Msg) /\ inbox # <<>>
      BY <1>2 DEF Receive, TypeOK
    <3>2. Head(inbox) \in Msg
      BY <3>1, HeadTailProperties
    <3> QED BY <2>1, <3>2, PipelineAssumption
  <2>3. "idle" \notin Locked /\ "resolve" \notin Locked /\ "idle" \notin Attached /\ "resolve" \notin Attached
    BY DEF Locked, Attached
  <2>4. \A v \in Worker \ {w} : KeyOf(v)' = KeyOf(v)
    BY <2>1 DEF KeyOf
  <2> QED BY <2>1, <2>2, <2>3, <2>4 DEF LocalInv
<1>3. CASE UNCHANGED <<pc, env, sess, lane>>
  BY <1>3 DEF LocalInv, KeyOf
<1>4. ASSUME \/ \E k \in Key : Submit(k) \/ DeleteSession(k)
             \/ \E s \in Sess : Age(s)
             \/ CronPrune \/ Quiescent \/ UNCHANGED vars
      PROVE  LocalInv'
  BY <1>3, <1>4 DEF Submit, DeleteSession, Age, CronPrune, Quiescent, vars, locals
<1>5. CASE Restart
  <2>1. /\ pc' = [w \in Worker |-> "idle"] /\ env' = [w \in Worker |-> Nil]
        /\ sess' = [w \in Worker |-> Nil] /\ lane' = [k \in Key |-> Nil]
    BY <1>5 DEF Restart
  <2> QED BY <2>1, PipelineAssumption DEF LocalInv, Locked, Attached
<1> QED BY <1>1, <1>2, <1>4, <1>5 DEF Next

\* The initial state.
LEMMA InitTypes == Init => TypeOK /\ LocalInv
<1> SUFFICES ASSUME Init PROVE TypeOK /\ LocalInv
  OBVIOUS
<1>0. {MaxSessions, InboxSize, MaxMsgs, MaxRestarts} \subseteq Nat
  BY PipelineAssumption
<1>1. inbox \in Seq(Msg) /\ Len(inbox) <= InboxSize
  BY <1>0, EmptySeq DEF Init
<1>2. hist \in [Sess -> Seq(Entry)] /\ db \in [Key -> Seq(Entry)]
  BY EmptySeq DEF Init
<1>3. nextId \in 1..MaxMsgs + 1 /\ restarts \in 0..MaxRestarts /\ settled \in [Ids -> Nat]
  BY <1>0 DEF Init
<1>4. TypeOK
  BY <1>1, <1>2, <1>3 DEF Init, TypeOK, Points
<1>5. LocalInv
  BY PipelineAssumption DEF Init, LocalInv, Locked, Attached
<1> QED BY <1>4, <1>5

-----------------------------------------------------------------------------
\* SettledOnce.

\* A step of a worker.
LEMMA ExecuteSettleInv ==
    ASSUME TypeOK, LocalInv, SettleInv, NEW w \in Worker, Execute(w)
    PROVE  SettleInv'
<1>0. /\ Moved(w) /\ SettlesOnExit(w) /\ pc'[w] \in Leads(pc[w]) /\ pc[w] # "idle"
      /\ pc[w] \in Points
  BY ExecuteMoves DEF TypeOK
<1>1. PICK i : i = env[w].id /\ i \in Ids
  BY <1>0, HasMessage
<1>2. env[w] # Nil /\ i < nextId /\ settled \in [Ids -> Nat] /\ nextId \in Nat
  BY <1>0, <1>1, HasMessage DEF SettleInv, TypeOK
<1>3. /\ pc'[w] \in Points
      /\ pc[w] \in Answered => pc'[w] \in Answered \cup {"idle"}
  BY <1>0 DEF Leads, Points, Answered
<1>4. \A j \in Ids : j # i => settled'[j] = settled[j]
  BY <1>0, <1>1, <1>2 DEF SettlesOnExit
<1>5. settled[i] = IF pc[w] \in Answered THEN 1 ELSE 0
  BY <1>1, <1>2 DEF SettleInv
<1>6. settled'[i] = IF pc'[w] \in Answered \cup {"idle"} THEN 1 ELSE 0
  <2>1. CASE pc[w] \notin Answered /\ pc'[w] \in Answered \cup {"idle"}
    BY <1>0, <1>1, <1>2, <1>5, <2>1 DEF SettlesOnExit
  <2>2. CASE ~(pc[w] \notin Answered /\ pc'[w] \in Answered \cup {"idle"})
    <3>1. settled' = settled
      BY <1>0, <2>2 DEF SettlesOnExit
    <3> QED BY <1>3, <1>5, <2>2, <3>1
  <2> QED BY <2>1, <2>2
<1>7. /\ inbox' = inbox /\ nextId' = nextId
      /\ \A v \in Worker \ {w} : env'[v] = env[v] /\ pc'[v] = pc[v]
      /\ pc'[w] = "idle" => env'[w] = Nil
      /\ pc'[w] # "idle" => env'[w] = env[w]
      /\ env'[w] # Nil => pc'[w] # "idle"
  BY <1>0, <1>2 DEF Moved
<1>8. \A j \in DOMAIN inbox : inbox[j].id \in Ids /\ inbox[j].id # i
  <2>1. \A j \in DOMAIN inbox : inbox[j] \in Msg
    BY LenProperties DEF TypeOK
  <2> QED BY <1>1, <1>2, <2>1 DEF SettleInv, Msg
<1>9. \A v \in Worker \ {w} : env[v] # Nil => env[v].id \in Ids /\ env[v].id # i
  <2>1. \A v \in Worker : env[v] # Nil => env[v].id \in Ids
    BY DEF TypeOK, Msg
  <2> QED BY <1>1, <1>2, <2>1 DEF SettleInv
<1>10. ASSUME NEW j \in Ids, ~InFlight(j)' PROVE settled'[j] = IF j < nextId THEN 1 ELSE 0
  <2>1. CASE j # i
    <3>1. ~InFlight(j)
      BY <1>1, <1>7, <1>10, <2>1 DEF InFlight
    <3> QED BY <1>4, <2>1, <3>1 DEF SettleInv
  <2>2. CASE j = i
    <3>1. pc'[w] = "idle"
      BY <1>1, <1>2, <1>7, <1>10, <2>2 DEF InFlight
    <3> QED BY <1>2, <1>6, <2>2, <3>1
  <2> QED BY <2>1, <2>2
<1>11. ASSUME NEW v \in Worker, env'[v] # Nil
       PROVE  /\ env'[v] = env[v] /\ env[v].id < nextId
              /\ settled'[env'[v].id] = IF pc'[v] \in Answered THEN 1 ELSE 0
  <2>1. CASE v = w
    BY <1>1, <1>2, <1>6, <1>7, <1>11, <2>1
  <2>2. CASE v # w
    <3>1. env'[v] = env[v] /\ pc'[v] = pc[v] /\ env[v].id \in Ids /\ env[v].id # i
      BY <1>7, <1>9, <1>11, <2>2
    <3>2. settled'[env[v].id] = settled[env[v].id]
      BY <1>4, <3>1
    <3> QED BY <1>11, <3>1, <3>2 DEF SettleInv
  <2> QED BY <2>1, <2>2
<1>12. \A j \in DOMAIN inbox : settled'[inbox[j].id] = 0
  BY <1>4, <1>8 DEF SettleInv
<1>13. \A v \in Worker : env'[v] # Nil => env'[v] = env[v]
  BY <1>11
<1>14. \A u, v \in Worker : env'[u] # Nil /\ env'[v] # Nil /\ env'[u].id = env'[v].id => u = v
  BY <1>13 DEF SettleInv
<1>15. \A v \in Worker : env'[v] # Nil => \A j \in DOMAIN inbox : inbox[j].id # env'[v].id
  BY <1>13 DEF SettleInv
<1> QED BY <1>7, <1>10, <1>11, <1>12, <1>14, <1>15 DEF SettleInv

\* Every step keeps SettleInv.
LEMMA NextSettleInv == TypeOK /\ LocalInv /\ SettleInv /\ [Next]_vars => SettleInv'
<1> SUFFICES ASSUME TypeOK, LocalInv, SettleInv, [Next]_vars PROVE SettleInv'
  OBVIOUS
<1>0. /\ inbox \in Seq(Msg) /\ Len(inbox) \in Nat /\ DOMAIN inbox = 1..Len(inbox)
      /\ \A j \in DOMAIN inbox : inbox[j] \in Msg /\ inbox[j].id \in Ids
      /\ settled \in [Ids -> Nat] /\ nextId \in Nat /\ MaxMsgs \in Nat
  <2>1. inbox \in Seq(Msg)
    BY DEF TypeOK
  <2>2. Len(inbox) \in Nat /\ DOMAIN inbox = 1..Len(inbox) /\ \A j \in DOMAIN inbox : inbox[j] \in Msg
    BY <2>1, LenProperties
  <2>3. \A j \in DOMAIN inbox : inbox[j].id \in Ids
    BY <2>2 DEF Msg
  <2> QED BY <2>1, <2>2, <2>3, PipelineAssumption DEF TypeOK
<1>1. ASSUME NEW k \in Key, Submit(k) PROVE SettleInv'
  <2>1. nextId \in Ids /\ nextId' = nextId + 1 /\ env' = env /\ pc' = pc
    BY <1>0, <1>1 DEF Submit, Ids, TypeOK, locals
  <2>2. \A j \in Ids : j < nextId' <=> j < nextId \/ j = nextId
    BY <1>0, <2>1 DEF Ids
  <2>3. \A v \in Worker : env[v] # Nil => env[v].id < nextId' /\ env[v].id # nextId /\ env[v].id \in Ids
    <3>1. \A v \in Worker : env[v] # Nil => env[v].id < nextId /\ env[v].id \in Ids
      BY DEF SettleInv, TypeOK, Msg
    <3> QED BY <1>0, <2>2, <3>1
  <2>4. \A j \in DOMAIN inbox : inbox[j].id < nextId' /\ inbox[j].id # nextId
    <3>1. \A j \in DOMAIN inbox : inbox[j].id < nextId /\ inbox[j].id \in Ids
      BY <1>0 DEF SettleInv
    <3> QED BY <1>0, <2>2, <3>1
  <2>5. ~InFlight(nextId)
    BY <2>3, <2>4 DEF InFlight
  <2>6. settled[nextId] = 0
    BY <1>0, <2>1, <2>5 DEF SettleInv
  <2>7. CASE settled' = settled /\ inbox' = Append(inbox, [id |-> nextId, key |-> k])
    <3> DEFINE m == [id |-> nextId, key |-> k]
               n == Len(inbox) + 1
    <3>1. m \in Msg
      BY <2>1 DEF Msg
    <3>2. /\ DOMAIN inbox' = 1..n /\ inbox'[n] = m /\ m.id = nextId
          /\ \A j \in DOMAIN inbox : inbox'[j] = inbox[j]
      BY <1>0, <2>7, <3>1, Appended
    <3>3. \A j \in 1..n : j \in DOMAIN inbox \/ j = n
      BY <1>0
    <3>4. \A j \in DOMAIN inbox : j \in 1..n /\ j # n
      BY <1>0
    <3>n. n \in 1..n
      BY <1>0
    <3> HIDE DEF m, n
    <3>5. \A j \in DOMAIN inbox' : /\ inbox'[j].id < nextId' /\ settled'[inbox'[j].id] = 0
      <4> SUFFICES ASSUME NEW j \in DOMAIN inbox'
                   PROVE  inbox'[j].id < nextId' /\ settled'[inbox'[j].id] = 0
        OBVIOUS
      <4>1. CASE j = n
        BY <1>0, <2>1, <2>6, <2>7, <3>2, <4>1
      <4>2. CASE j \in DOMAIN inbox
        BY <2>4, <2>7, <3>2, <4>2 DEF SettleInv
      <4> QED BY <3>2, <3>3, <4>1, <4>2
    <3>6. \A i, j \in DOMAIN inbox' : inbox'[i].id = inbox'[j].id => i = j
      BY <2>4, <3>2, <3>3 DEF SettleInv
    <3>7. \A v \in Worker : env'[v] # Nil => \A j \in DOMAIN inbox' : inbox'[j].id # env'[v].id
      BY <2>1, <2>3, <3>2, <3>3 DEF SettleInv
    <3>8. ASSUME NEW i \in Ids, ~InFlight(i)' PROVE settled'[i] = IF i < nextId' THEN 1 ELSE 0
      <4>1. i # nextId
        BY <3>2, <3>8, <3>n DEF InFlight
      <4>2. ~InFlight(i)
        BY <2>1, <3>2, <3>4, <3>8 DEF InFlight
      <4> QED BY <2>2, <2>7, <4>1, <4>2 DEF SettleInv
    <3> QED BY <2>1, <2>3, <2>7, <3>5, <3>6, <3>7, <3>8 DEF SettleInv
  <2>8. CASE settled' = [settled EXCEPT ![nextId] = @ + 1] /\ inbox' = inbox
    <3>1. settled'[nextId] = 1 /\ \A j \in Ids : j # nextId => settled'[j] = settled[j]
      BY <1>0, <2>1, <2>6, <2>8
    <3>2. ASSUME NEW i \in Ids, ~InFlight(i)' PROVE settled'[i] = IF i < nextId' THEN 1 ELSE 0
      <4>1. ~InFlight(i)
        BY <2>1, <2>8, <3>2 DEF InFlight
      <4> QED BY <2>2, <3>1, <4>1 DEF SettleInv
    <3>3. \A j \in DOMAIN inbox : settled'[inbox[j].id] = settled[inbox[j].id]
      BY <1>0, <2>4, <3>1
    <3>4. \A v \in Worker : env[v] # Nil => settled'[env[v].id] = settled[env[v].id]
      BY <2>3, <3>1
    <3> QED BY <2>1, <2>3, <2>4, <2>8, <3>2, <3>3, <3>4 DEF SettleInv
  <2> QED BY <1>1, <2>7, <2>8 DEF Submit
<1>2. ASSUME NEW w \in Worker, Receive(w) PROVE SettleInv'
  <2>1. /\ inbox # <<>> /\ inbox' = Tail(inbox) /\ pc[w] = "idle" /\ pc'[w] = "resolve"
        /\ env'[w] = Head(inbox) /\ \A v \in Worker \ {w} : env'[v] = env[v] /\ pc'[v] = pc[v]
        /\ nextId' = nextId /\ settled' = settled
    BY <1>2 DEF Receive, At, Goto, TypeOK, ghosts
  <2>2. /\ Head(inbox) = inbox[1] /\ DOMAIN Tail(inbox) = 1..(Len(inbox) - 1)
        /\ \A j \in 1..(Len(inbox) - 1) : Tail(inbox)[j] = inbox[j + 1]
        /\ Len(inbox) # 0
    BY <1>0, <2>1, HeadTailProperties, LenProperties, EmptySeq
  <2>3. \A j \in DOMAIN inbox' : /\ j + 1 \in DOMAIN inbox /\ j + 1 # 1 /\ inbox'[j] = inbox[j + 1]
    BY <1>0, <2>1, <2>2
  <2>4. \A j \in DOMAIN inbox : j = 1 \/ (j - 1 \in DOMAIN inbox' /\ inbox'[j - 1] = inbox[j])
    <3>1. \A j \in 1..Len(inbox) : j = 1 \/ (j - 1 \in 1..(Len(inbox) - 1) /\ (j - 1) + 1 = j)
      BY <1>0
    <3> QED BY <1>0, <2>1, <2>2, <3>1
  <2>5. 1 \in DOMAIN inbox /\ env'[w] = inbox[1] /\ env[w] = Nil /\ env'[w] # Nil
    <3>1. inbox[1] # Nil /\ 1 \in DOMAIN inbox
      BY <1>0, <2>2, PipelineAssumption
    <3> QED BY <2>1, <2>2, <3>1 DEF LocalInv
  <2>6. \A i : InFlight(i)' <=> InFlight(i)
    <3> SUFFICES ASSUME NEW i PROVE InFlight(i)' <=> InFlight(i)
      OBVIOUS
    <3>1. ASSUME InFlight(i) PROVE InFlight(i)'
      <4>1. ASSUME NEW j \in DOMAIN inbox, inbox[j].id = i PROVE InFlight(i)'
        BY <2>4, <2>5, <4>1 DEF InFlight
      <4>2. ASSUME NEW v \in Worker, env[v] # Nil, env[v].id = i PROVE InFlight(i)'
        BY <2>1, <2>5, <4>2 DEF InFlight
      <4> QED BY <3>1, <4>1, <4>2 DEF InFlight
    <3>2. ASSUME InFlight(i)' PROVE InFlight(i)
      <4>1. ASSUME NEW j \in DOMAIN inbox', inbox'[j].id = i PROVE InFlight(i)
        BY <2>3, <4>1 DEF InFlight
      <4>2. ASSUME NEW v \in Worker, env'[v] # Nil, env'[v].id = i PROVE InFlight(i)
        BY <2>1, <2>5, <4>2 DEF InFlight
      <4> QED BY <3>2, <4>1, <4>2 DEF InFlight
    <3> QED BY <3>1, <3>2
  <2>7. "resolve" \notin Answered
    BY DEF Answered
  <2>8. \A i, j \in DOMAIN inbox' : inbox'[i].id = inbox'[j].id => i = j
    <3>1. ASSUME NEW i \in DOMAIN inbox', NEW j \in DOMAIN inbox', inbox'[i].id = inbox'[j].id
          PROVE  i = j
      <4>1. i + 1 = j + 1
        BY <2>3, <3>1 DEF SettleInv
      <4>2. i \in Nat /\ j \in Nat
        BY <1>0, <2>1, <2>2
      <4> QED BY <4>1, <4>2
    <3> QED BY <3>1
  <2>9. ASSUME NEW v \in Worker, env'[v] # Nil
        PROVE  /\ env'[v].id < nextId /\ settled[env'[v].id] = IF pc'[v] \in Answered THEN 1 ELSE 0
               /\ \A j \in DOMAIN inbox' : inbox'[j].id # env'[v].id
               /\ \A u \in Worker : env'[u] # Nil /\ env'[u].id = env'[v].id => u = v
    <3>1. CASE v = w
      BY <2>1, <2>3, <2>5, <2>7, <3>1 DEF SettleInv
    <3>2. CASE v # w
      BY <2>1, <2>3, <2>5, <2>9, <3>2 DEF SettleInv
    <3> QED BY <3>1, <3>2
  <2>10. \A j \in DOMAIN inbox' : inbox'[j].id < nextId /\ settled[inbox'[j].id] = 0
    BY <2>3 DEF SettleInv
  <2> QED BY <2>1, <2>6, <2>8, <2>9, <2>10 DEF SettleInv
<1>3. ASSUME NEW w \in Worker, Execute(w) PROVE SettleInv'
  BY <1>3, ExecuteSettleInv
<1>4. CASE UNCHANGED <<inbox, nextId, env, pc, settled>>
  BY <1>4 DEF SettleInv, InFlight
<1>5. ASSUME \/ \E k \in Key : DeleteSession(k)
             \/ \E s \in Sess : Age(s)
             \/ CronPrune \/ Quiescent \/ UNCHANGED vars
      PROVE  SettleInv'
  BY <1>4, <1>5 DEF DeleteSession, Age, CronPrune, Quiescent, vars, locals, ghosts
<1>6. CASE Restart
  <2>1. /\ inbox' = <<>> /\ env' = [w \in Worker |-> Nil] /\ nextId' = nextId
        /\ settled' = [i \in Ids |-> IF InFlight(i) /\ settled[i] = 0 THEN 1 ELSE settled[i]]
    BY <1>6 DEF Restart
  <2>2. ASSUME NEW i \in Ids PROVE settled'[i] = IF i < nextId THEN 1 ELSE 0
    <3>1. CASE InFlight(i)
      <4>1. i < nextId /\ settled[i] \in {0, 1}
        BY <3>1 DEF InFlight, SettleInv
      <4> QED BY <2>1, <3>1, <4>1
    <3>2. CASE ~InFlight(i)
      BY <2>1, <3>2 DEF SettleInv
    <3> QED BY <3>1, <3>2
  <2>3. DOMAIN inbox' = {}
    BY <2>1, EmptySeq
  <2> QED BY <2>1, <2>2, <2>3 DEF SettleInv
<1> QED BY <1>1, <1>2, <1>3, <1>5, <1>6 DEF Next

\* SettledOnce for any number of workers and messages: no path through Submit
\* and Execute answers a message twice, and none forgets to.
THEOREM EachSettledOnce == Spec => []SettledOnce
<1>1. Init => SettleInv
  BY EmptySeq DEF Init, SettleInv, Ids
<1>2. TypeOK /\ SettleInv => SettledOnce
  <2> SUFFICES ASSUME TypeOK, SettleInv, NEW i \in Ids, InFlight(i) PROVE settled[i] <= 1
    BY DEF SettledOnce, SettleInv
  <2>1. settled[i] \in {0, 1}
    BY DEF InFlight, SettleInv
  <2> QED BY <2>1
<1> QED BY <1>1, <1>2, InitTypes, NextTypes, NextLocalInv, NextSettleInv, PTL DEF Spec

-----------------------------------------------------------------------------
\* Sessions and caveats.

\* Worker w puts a new session s in the store.
Creates(w, s) ==
    /\ Unreachable(s)
    /\ store[KeyOf(w)] = Nil
    /\ store' = [store EXCEPT ![KeyOf(w)] = s]
    /\ hist' = [hist EXCEPT ![s] = <<>>]
    /\ restored' = [restored EXCEPT ![s] = FALSE]

\* The outcomes of ResolveSession.
LEMMA ResolveEffect ==
    ASSUME TypeOK, LocalInv, NEW w \in Worker, ResolveSession(w)
    PROVE  /\ UNCHANGED <<db, forgotten>>
           /\ \/ /\ UNCHANGED <<store, hist, restored>>
                 /\ pc'[w] # "idle" => sess'[w] = store[KeyOf(w)]
              \/ \E s \in Sess : Creates(w, s) /\ (pc'[w] # "idle" => sess'[w] = s)
           /\ \/ pc'[w] = "idle" /\ caveats' = caveats
              \/ pc'[w] # "idle" /\ Note(KeyOf(w), "torn", ResetRaces(w, pc'[w]))
<1>1. DOMAIN pc = Worker /\ DOMAIN sess = Worker
  BY DEF TypeOK
<1> DEFINE k == KeyOf(w)
           proceed(s, fresh) ==
              \/ /\ "filtered" \in Kinds
                 /\ Settle(w)
                 /\ Return(w)
                 /\ UNCHANGED caveats
              \/ /\ \E point \in IF "new" \in Kinds THEN {"purge", "lane"} ELSE {"lane"} :
                       /\ Goto(w, point)
                       /\ Note(k, "torn", ResetRaces(w, point))
                 /\ sess' = [sess EXCEPT ![w] = s]
                 /\ created' = [created EXCEPT ![w] = fresh]
                 /\ UNCHANGED <<env, settled>>
<1>2. ASSUME NEW s \in Sess, NEW fresh \in BOOLEAN, proceed(s, fresh)
      PROVE  /\ pc'[w] # "idle" => sess'[w] = s
             /\ \/ pc'[w] = "idle" /\ caveats' = caveats
                \/ pc'[w] # "idle" /\ Note(k, "torn", ResetRaces(w, pc'[w]))
  <2>1. CASE Return(w) /\ UNCHANGED caveats
    BY <1>1, <2>1 DEF Return, Goto
  <2>2. ASSUME NEW point \in {"purge", "lane"}, Goto(w, point), Note(k, "torn", ResetRaces(w, point)),
               sess' = [sess EXCEPT ![w] = s]
        PROVE  /\ pc'[w] # "idle" => sess'[w] = s
               /\ pc'[w] # "idle" /\ Note(k, "torn", ResetRaces(w, pc'[w]))
    <3>1. pc'[w] = point /\ sess'[w] = s
      BY <1>1, <2>2 DEF Goto
    <3> QED BY <2>2, <3>1
  <2> QED BY <1>2, <2>1, <2>2
<1>3. UNCHANGED <<db, forgotten>>
  BY DEF ResolveSession
<1>4. CASE store[k] # Nil /\ proceed(store[k], FALSE) /\ UNCHANGED <<store, hist, restored>>
  <2>1. store[k] \in Sess
    <3>1. k \in Key
      BY HasMessage DEF ResolveSession, At
    <3> QED BY <1>4, <3>1 DEF TypeOK
  <2> HIDE DEF proceed
  <2> QED BY <1>2, <1>3, <1>4, <2>1
<1>5. CASE Return(w) /\ UNCHANGED <<store, hist, restored, caveats>>
  <2>1. pc'[w] = "idle"
    BY <1>1, <1>5 DEF Return, Goto
  <2> QED BY <1>3, <1>5, <2>1
<1>6. ASSUME NEW s \in Sess, Creates(w, s), proceed(s, TRUE)
      PROVE  /\ Creates(w, s) /\ (pc'[w] # "idle" => sess'[w] = s)
             /\ \/ pc'[w] = "idle" /\ caveats' = caveats
                \/ pc'[w] # "idle" /\ Note(KeyOf(w), "torn", ResetRaces(w, pc'[w]))
  <2> HIDE DEF proceed
  <2> QED BY <1>2, <1>6
<1> QED BY <1>3, <1>4, <1>5, <1>6 DEF ResolveSession, Creates

\* A caveat is never taken back.
LEMMA CaveatsGrow ==
    ASSUME TypeOK, LocalInv, [Next]_vars, NEW k \in Key
    PROVE  caveats[k] \subseteq caveats'[k]
<1>1. ASSUME NEW j, NEW c, NEW b, Note(j, c, b) PROVE caveats[k] \subseteq caveats'[k]
  BY <1>1 DEF Note, TypeOK
<1>2. ASSUME NEW gone, NEW v, Prune(gone, v) PROVE caveats[k] \subseteq caveats'[k]
  BY <1>2 DEF Prune
<1>3. CASE caveats' = caveats
  BY <1>3
<1>4. ASSUME NEW w \in Worker, Execute(w) PROVE caveats[k] \subseteq caveats'[k]
  <2>1. CASE ResolveSession(w)
    BY <1>1, <1>3, <2>1, ResolveEffect
  <2>2. CASE NewPurge(w) \/ AppendUser(w) \/ PersistUser(w) \/ PersistAssistant(w)
    BY <1>1, <2>2 DEF NewPurge, AppendUser, PersistUser, PersistAssistant, Persist
  <2>3. CASE TryPrune(w)
    BY <1>2, <2>3 DEF TryPrune
  <2>4. CASE \/ NewDelete(w) \/ AcquireLane(w) \/ ResolveAgent(w) \/ RunAgent(w) \/ SendResponse(w)
             \/ AppendAssistant(w) \/ ReleaseLane(w)
    BY <1>3, <2>4 DEF NewDelete, AcquireLane, ResolveAgent, RunAgent, SendResponse, AppendAssistant,
                      ReleaseLane, ghosts
  <2> QED BY <1>4, <2>1, <2>2, <2>3, <2>4 DEF Execute
<1>5. ASSUME NEW j \in Key, DeleteSession(j) PROVE caveats[k] \subseteq caveats'[k]
  BY <1>2, <1>5 DEF DeleteSession
<1>6. CASE CronPrune
  BY <1>2, <1>6 DEF CronPrune
<1>7. ASSUME \/ \E j \in Key : Submit(j)
             \/ \E w \in Worker : Receive(w)
             \/ \E s \in Sess : Age(s)
             \/ Restart \/ Quiescent \/ UNCHANGED vars
      PROVE  caveats[k] \subseteq caveats'[k]
  BY <1>3, <1>7 DEF Submit, Receive, Age, Restart, Quiescent, vars, ghosts
<1> QED BY <1>4, <1>5, <1>6, <1>7 DEF Next

\* ResolveSession makes no session the session of another key, but for a new one.
LEMMA ResolveOwners ==
    ASSUME TypeOK, LocalInv, NEW w \in Worker, ResolveSession(w)
    PROVE  \/ /\ UNCHANGED <<store, hist, restored>>
              /\ pc'[w] # "idle" => sess'[w] = store[KeyOf(w)]
              /\ \A s \in Sess, k \in Key : Owns(s, k)' => Owns(s, k)
           \/ \E c \in Sess :
                /\ Creates(w, c) /\ KeyOf(w) \in Key
                /\ pc'[w] # "idle" => sess'[w] = c
                /\ \A k \in Key : ~Owns(c, k)
                /\ \A s \in Sess, k \in Key :
                     Owns(s, k)' => Owns(s, k) \/ (s = c /\ k = KeyOf(w))
<1>0. Nil \notin Sess /\ DOMAIN store = Key
  BY PipelineAssumption DEF TypeOK
<1>1. Moved(w) /\ KeyOf(w) \in Key /\ pc[w] = "resolve"
  <2>1. pc[w] = "resolve"
    BY DEF ResolveSession, At
  <2>2. Moved(w)
    BY ExecuteMoves DEF Execute
  <2> QED BY <2>1, <2>2, HasMessage
<1>2. \A v \in Worker : sess'[v] = Nil \/ env'[v] = env[v]
  BY <1>1 DEF Moved
<1>3. \A v \in Worker \ {w} : sess'[v] = sess[v]
  BY <1>1 DEF Moved
<1>4. CASE UNCHANGED <<store, hist, restored>> /\ (pc'[w] # "idle" => sess'[w] = store[KeyOf(w)])
  <2>1. sess'[w] = Nil \/ sess'[w] = store[KeyOf(w)]
    BY <1>1, <1>4 DEF Moved
  <2>2. \A k \in Key : store'[k] = store[k]
    BY <1>4
  <2>3. \A s \in Sess, k \in Key : Owns(s, k)' => Owns(s, k)
    <3> SUFFICES ASSUME NEW s \in Sess, NEW k \in Key, Owns(s, k)' PROVE Owns(s, k)
      OBVIOUS
    <3>1. CASE store'[k] = s
      BY <2>2, <3>1 DEF Owns
    <3>2. ASSUME NEW v \in Worker, sess'[v] = s, KeyOf(v)' = k PROVE Owns(s, k)
      <4>1. KeyOf(v) = k
        BY <1>0, <1>2, <3>2 DEF KeyOf
      <4>2. CASE v = w
        BY <1>0, <2>1, <3>2, <4>1, <4>2 DEF Owns
      <4>3. CASE v # w
        BY <1>3, <3>2, <4>1, <4>3 DEF Owns
      <4> QED BY <4>2, <4>3
    <3> QED BY <3>1, <3>2 DEF Owns
  <2> QED BY <1>4, <2>3
<1>5. ASSUME NEW c \in Sess, Creates(w, c), pc'[w] # "idle" => sess'[w] = c
      PROVE  /\ \A k \in Key : ~Owns(c, k)
             /\ \A s \in Sess, k \in Key :
                  Owns(s, k)' => Owns(s, k) \/ (s = c /\ k = KeyOf(w))
  <2>1. \A k \in Key : ~Owns(c, k)
    BY <1>5 DEF Creates, Unreachable, Owns
  <2>2. \A k \in Key : store'[k] = IF k = KeyOf(w) THEN c ELSE store[k]
    BY <1>0, <1>1, <1>5 DEF Creates
  <2>3. sess'[w] = Nil \/ sess'[w] = c
    BY <1>1, <1>5 DEF Moved
  <2>4. ASSUME NEW s \in Sess, NEW k \in Key, Owns(s, k)' PROVE Owns(s, k) \/ (s = c /\ k = KeyOf(w))
    <3>1. CASE store'[k] = s
      BY <2>2, <3>1 DEF Owns
    <3>2. ASSUME NEW v \in Worker, sess'[v] = s, KeyOf(v)' = k PROVE Owns(s, k) \/ (s = c /\ k = KeyOf(w))
      <4>1. KeyOf(v) = k
        BY <1>0, <1>2, <3>2 DEF KeyOf
      <4>2. CASE v = w
        BY <1>0, <2>3, <3>2, <4>1, <4>2
      <4>3. CASE v # w
        BY <1>3, <3>2, <4>1, <4>3 DEF Owns
      <4> QED BY <4>2, <4>3
    <3> QED BY <2>4, <3>1, <3>2 DEF Owns
  <2> QED BY <2>1, <2>4
<1> QED BY <1>1, <1>4, <1>5, ResolveEffect

\* A step makes no session the session of another key, but for a new one.
LEMMA OwnersKept ==
    ASSUME TypeOK, LocalInv, [Next]_vars
    PROVE  \/ \A s \in Sess, k \in Key : Owns(s, k)' => Owns(s, k)
           \/ \E w \in Worker, c \in Sess :
                /\ ResolveSession(w) /\ Creates(w, c) /\ KeyOf(w) \in Key
                /\ \A k \in Key : ~Owns(c, k)
                /\ \A s \in Sess, k \in Key :
                     Owns(s, k)' => Owns(s, k) \/ (s = c /\ k = KeyOf(w))
<1> DEFINE Kept == \A s \in Sess, k \in Key : Owns(s, k)' => Owns(s, k)
<1>0. Nil \notin Sess /\ DOMAIN store = Key
  BY PipelineAssumption DEF TypeOK
<1>1. ASSUME \A k \in Key : store'[k] = store[k] \/ store'[k] = Nil,
             \A v \in Worker : sess'[v] = Nil \/ (sess'[v] = sess[v] /\ env'[v] = env[v])
      PROVE  Kept
  BY <1>0, <1>1 DEF Owns, KeyOf
<1>2. ASSUME NEW w \in Worker, Execute(w), ~ResolveSession(w) PROVE Kept
  <2>1. Moved(w) /\ pc[w] # "resolve"
    <3>1. pc[w] # "resolve"
      BY <1>2 DEF Execute, At, NewPurge, NewDelete, AcquireLane, ResolveAgent, AppendUser,
           PersistUser, RunAgent, SendResponse, AppendAssistant, PersistAssistant, TryPrune, ReleaseLane
    <3> QED BY <1>2, <3>1, ExecuteMoves
  <2>2. \A v \in Worker : sess'[v] = Nil \/ (sess'[v] = sess[v] /\ env'[v] = env[v])
    BY <2>1 DEF Moved
  <2>3. \A k \in Key : store'[k] = store[k] \/ store'[k] = Nil
    BY <1>0, <1>2 DEF Execute, NewPurge, NewDelete, AcquireLane, ResolveAgent, AppendUser, PersistUser,
           RunAgent, SendResponse, AppendAssistant, PersistAssistant, TryPrune, ReleaseLane, Prune
  <2> QED BY <1>1, <2>2, <2>3
<1>4. ASSUME NEW w \in Worker, Receive(w) PROVE Kept
  <2>1. /\ sess' = sess /\ store' = store /\ \A v \in Worker \ {w} : env'[v] = env[v]
        /\ pc[w] = "idle"
    BY <1>4 DEF Receive, At, TypeOK
  <2>2. sess[w] = Nil
    BY <2>1 DEF LocalInv, Attached
  <2> QED BY <1>1, <2>1, <2>2
<1>5. ASSUME NEW gone, NEW v, Prune(gone, v), UNCHANGED locals PROVE Kept
  BY <1>1, <1>5 DEF Prune, locals
<1>6. ASSUME CronPrune PROVE Kept
  BY <1>5, <1>6 DEF CronPrune
<1>7. ASSUME NEW k \in Key, DeleteSession(k) PROVE Kept
  BY <1>5, <1>7 DEF DeleteSession
<1>8. ASSUME \/ \E k \in Key : Submit(k)
             \/ \E s \in Sess : Age(s)
             \/ Quiescent \/ UNCHANGED vars
      PROVE  Kept
  <2>1. UNCHANGED <<store, env, sess>>
    BY <1>8 DEF Submit, Age, Quiescent, vars, locals
  <2> QED BY <1>1, <2>1
<1>9. ASSUME Restart PROVE Kept
  BY <1>1, <1>9 DEF Restart
<1>10. ASSUME \A w \in Worker : ~ResolveSession(w) PROVE Kept
  <2>1. ASSUME NEW w \in Worker, Execute(w) PROVE Kept
    BY <1>2, <1>10, <2>1
  <2> QED BY <1>4, <1>6, <1>7, <1>8, <1>9, <2>1 DEF Next
<1> QED BY <1>10, ResolveOwners

\* OwnInv, through every step.
LEMMA NextOwnInv == TypeOK /\ LocalInv /\ OwnInv /\ [Next]_vars => OwnInv'
<1> SUFFICES ASSUME TypeOK, LocalInv, OwnInv, [Next]_vars PROVE OwnInv'
  OBVIOUS
<1>1. CASE \A s \in Sess, k \in Key : Owns(s, k)' => Owns(s, k)
  BY <1>1 DEF OwnInv
<1>2. ASSUME NEW w \in Worker, NEW c \in Sess, \A k \in Key : ~Owns(c, k),
             \A s \in Sess, k \in Key : Owns(s, k)' => Owns(s, k) \/ (s = c /\ k = KeyOf(w))
      PROVE  OwnInv'
  BY <1>2 DEF OwnInv
<1> QED BY <1>1, <1>2, OwnersKept

\* One worker at a time is under the lane of a key, and so uses a session.
LEMMA LockedAlone ==
    ASSUME TypeOK, LocalInv, NEW v \in Worker, NEW w \in Worker, pc[v] \in Locked, pc[w] \in Locked
    PROVE  /\ KeyOf(v) = KeyOf(w) => v = w
           /\ OwnInv /\ sess[v] = sess[w] => v = w
<1>1. /\ pc[v] # "idle" /\ pc[w] # "idle" /\ pc[v] \in Attached /\ pc[w] \in Attached
  BY DEF Locked, Attached
<1>2. KeyOf(v) \in Key /\ KeyOf(w) \in Key /\ sess[v] \in Sess /\ sess[w] \in Sess
  BY <1>1, HasMessage
<1>3. lane[KeyOf(v)] = v /\ lane[KeyOf(w)] = w
  BY <1>2 DEF LocalInv
<1>4. sess[v] = sess[w] /\ OwnInv => KeyOf(v) = KeyOf(w)
  BY <1>2 DEF OwnInv, Owns
<1> QED BY <1>3, <1>4

-----------------------------------------------------------------------------
\* ExchangesContiguous.

\* Between the message and the answer, in memory and on disk.
InMemory == {"persist", "run", "send", "finalize"}
OnDisk == {"run", "send", "finalize", "persistReply"}

\* What ExchangeInv says of one key.
Exchange(k) ==
    /\ Contiguous(db[k])
    /\ \A s \in Sess : Owns(s, k) => Contiguous(hist[s])
    /\ \A w \in Worker : env[w] # Nil /\ KeyOf(w) = k =>
         /\ pc[w] \in InMemory => EndsIn(hist[sess[w]], Asked(w))
         /\ pc[w] \in OnDisk => db[k] = <<>> \/ EndsIn(db[k], Asked(w))

LEMMA ExchangeOf == ExchangeInv <=> \A k \in Key : "failed" \notin caveats[k] => Exchange(k)
BY DEF ExchangeInv, Exchange, InMemory, OnDisk

\* Steps that write no history, and where no worker gets behind its message.
LEMMA ExchangeKept ==
    ASSUME TypeOK, LocalInv, ExchangeInv, [Next]_vars,
           \A k \in Key : db'[k] = db[k] \/ db'[k] = <<>>,
           \A s \in Sess, k \in Key : Owns(s, k)' =>
                hist'[s] = <<>> \/ (Owns(s, k) /\ hist'[s] = hist[s]),
           \A v \in Worker : pc'[v] \in InMemory =>
                /\ pc[v] \in InMemory /\ env'[v] = env[v]
                /\ sess'[v] = sess[v] /\ hist'[sess[v]] = hist[sess[v]],
           \A v \in Worker : pc'[v] \in OnDisk => pc[v] \in OnDisk /\ env'[v] = env[v]
    PROVE  ExchangeInv'
<1> SUFFICES ASSUME NEW k \in Key, "failed" \notin caveats'[k] PROVE Exchange(k)'
  BY ExchangeOf DEF ExchangeInv, Exchange, InMemory, OnDisk
<1>1. Exchange(k)
  BY CaveatsGrow, ExchangeOf
<1>2. Contiguous(<<>>)
  BY EmptySeq DEF Contiguous
<1>3. Contiguous(db'[k])
  BY <1>1, <1>2 DEF Exchange
<1>4. \A s \in Sess : Owns(s, k)' => Contiguous(hist'[s])
  BY <1>1, <1>2 DEF Exchange
<1>5. \A w \in Worker : pc'[w] \in InMemory /\ env'[w] # Nil /\ KeyOf(w)' = k =>
          EndsIn(hist'[sess'[w]], [role |-> "user", id |-> env'[w].id])
  BY <1>1 DEF Exchange, KeyOf, Asked
<1>6. \A w \in Worker : pc'[w] \in OnDisk /\ env'[w] # Nil /\ KeyOf(w)' = k =>
          db'[k] = <<>> \/ EndsIn(db'[k], [role |-> "user", id |-> env'[w].id])
  BY <1>1 DEF Exchange, KeyOf, Asked
<1> QED BY <1>3, <1>4, <1>5, <1>6 DEF Exchange, Asked, EndsIn, Contiguous

\* The worker under the lane writes the history of its session.
LEMMA MemoryWritten ==
    ASSUME TypeOK, LocalInv, OwnInv, ExchangeInv, [Next]_vars, NEW w \in Worker, Moved(w),
           pc[w] \in Locked \ {"release"}, pc'[w] \in Locked, NEW h \in Seq(Entry),
           hist' = [hist EXCEPT ![sess[w]] = h], UNCHANGED <<store, db>>,
           "failed" \notin caveats'[KeyOf(w)] => Contiguous(h),
           pc'[w] \in InMemory => EndsIn(h, Asked(w)),
           pc'[w] \in OnDisk => pc[w] \in OnDisk
    PROVE  ExchangeInv'
<1>1. /\ sess[w] \in Sess /\ KeyOf(w) \in Key /\ env[w] # Nil /\ pc[w] # "idle"
  BY HasMessage DEF Locked, Attached
<1>2. /\ \A v \in Worker : env'[v] = env[v] /\ sess'[v] = sess[v]
      /\ \A v \in Worker \ {w} : pc'[v] = pc[v]
  BY DEF Moved, Locked, Attached
<1>3. \A s \in Sess, k \in Key : Owns(s, k)' <=> Owns(s, k)
  BY <1>2 DEF Owns, KeyOf
<1>4. Owns(sess[w], KeyOf(w))
  BY DEF Owns
<1>5. hist'[sess[w]] = h /\ \A s \in Sess : s # sess[w] => hist'[s] = hist[s]
  BY <1>1 DEF TypeOK
<1>6. \A v \in Worker : v # w /\ pc[v] \in InMemory => sess[v] # sess[w] /\ sess[v] \in Sess
  <2>1. InMemory \subseteq Locked /\ InMemory \subseteq Attached /\ "idle" \notin InMemory
    BY DEF InMemory, Locked, Attached, Points
  <2> QED BY <2>1, LockedAlone, HasMessage
<1> SUFFICES ASSUME NEW k \in Key, "failed" \notin caveats'[k] PROVE Exchange(k)'
  BY ExchangeOf DEF ExchangeInv, Exchange, InMemory, OnDisk
<1>7. Exchange(k)
  BY CaveatsGrow, ExchangeOf
<1>8. \A s \in Sess : Owns(s, k)' => Contiguous(hist'[s])
  <2> SUFFICES ASSUME NEW s \in Sess, Owns(s, k) PROVE Contiguous(hist'[s])
    BY <1>3
  <2>1. CASE s = sess[w]
    <3>1. k = KeyOf(w)
      BY <1>1, <1>4, <2>1 DEF OwnInv
    <3> QED BY <1>5, <2>1, <3>1
  <2>2. CASE s # sess[w]
    BY <1>5, <1>7, <2>2 DEF Exchange
  <2> QED BY <2>1, <2>2
<1>9. ASSUME NEW v \in Worker, env'[v] # Nil, KeyOf(v)' = k
      PROVE  /\ pc'[v] \in InMemory => EndsIn(hist'[sess[v]], [role |-> "user", id |-> env[v].id])
             /\ pc'[v] \in OnDisk => db[k] = <<>> \/ EndsIn(db[k], [role |-> "user", id |-> env[v].id])
  <2>0. env[v] # Nil /\ KeyOf(v) = k
    BY <1>2, <1>9 DEF KeyOf
  <2>1. CASE v = w
    BY <1>5, <1>7, <2>0, <2>1 DEF Exchange, Asked
  <2>2. CASE v # w
    BY <1>2, <1>5, <1>6, <1>7, <2>0, <2>2 DEF Exchange, Asked
  <2> QED BY <2>1, <2>2
<1> QED BY <1>2, <1>7, <1>8, <1>9 DEF Exchange, Asked, EndsIn, Contiguous

\* The worker under the lane writes the persistent history of its key.
LEMMA DiskWritten ==
    ASSUME TypeOK, LocalInv, ExchangeInv, [Next]_vars, NEW w \in Worker, Moved(w),
           pc[w] \in Locked \ {"release"}, pc'[w] \in Locked, NEW e \in Entry,
           "failed" \notin caveats'[KeyOf(w)] => db' = [db EXCEPT ![KeyOf(w)] = Append(@, e)],
           \A k \in Key : k # KeyOf(w) => db'[k] = db[k],
           "failed" \notin caveats'[KeyOf(w)] => Contiguous(Append(db[KeyOf(w)], e)),
           UNCHANGED <<store, hist>>,
           pc'[w] \in InMemory => pc[w] \in InMemory,
           pc'[w] \in OnDisk => e = Asked(w)
    PROVE  ExchangeInv'
<1>1. /\ KeyOf(w) \in Key /\ env[w] # Nil /\ pc[w] # "idle"
  BY HasMessage DEF Locked, Attached
<1>2. /\ \A v \in Worker : env'[v] = env[v] /\ sess'[v] = sess[v]
      /\ \A v \in Worker \ {w} : pc'[v] = pc[v]
  BY DEF Moved, Locked, Attached
<1>3. \A s \in Sess, k \in Key : Owns(s, k)' <=> Owns(s, k)
  BY <1>2 DEF Owns, KeyOf
<1>4. \A v \in Worker : v # w /\ pc[v] \in OnDisk => KeyOf(v) # KeyOf(w)
  <2>1. OnDisk \subseteq Locked
    BY DEF OnDisk, Locked, Attached, Points
  <2> QED BY <2>1, LockedAlone
<1> SUFFICES ASSUME NEW k \in Key, "failed" \notin caveats'[k] PROVE Exchange(k)'
  BY ExchangeOf DEF ExchangeInv, Exchange, InMemory, OnDisk
<1>5. Exchange(k)
  BY CaveatsGrow, ExchangeOf
<1>6. \A v \in Worker : env'[v] # Nil /\ KeyOf(v)' = k /\ pc'[v] \in InMemory
         => EndsIn(hist[sess[v]], [role |-> "user", id |-> env[v].id])
  BY <1>2, <1>5 DEF Exchange, Asked, KeyOf
<1>7. CASE k # KeyOf(w)
  <2>1. db'[k] = db[k]
    BY <1>7
  <2>2. \A v \in Worker : env'[v] # Nil /\ KeyOf(v)' = k /\ pc'[v] \in OnDisk
           => db[k] = <<>> \/ EndsIn(db[k], [role |-> "user", id |-> env[v].id])
    BY <1>2, <1>5, <1>7 DEF Exchange, Asked, KeyOf
  <2> QED BY <1>2, <1>3, <1>5, <1>6, <2>1, <2>2 DEF Exchange, Asked, EndsIn, Contiguous
<1>8. CASE k = KeyOf(w)
  <2>1. PICK a : a = Append(db[k], e)
    OBVIOUS
  <2>2. db'[k] = a /\ Contiguous(a)
    BY <1>1, <1>8, <2>1 DEF TypeOK
  <2>3. EndsIn(a, e)
    <3>1. db[k] \in Seq(Entry)
      BY DEF TypeOK
    <3> QED BY <2>1, <3>1, Appended DEF EndsIn
  <2>4. \A v \in Worker : env'[v] # Nil /\ KeyOf(v)' = k /\ pc'[v] \in OnDisk
           => EndsIn(a, [role |-> "user", id |-> env[v].id])
    <3> SUFFICES ASSUME NEW v \in Worker, KeyOf(v)' = k, pc'[v] \in OnDisk
                 PROVE  EndsIn(a, [role |-> "user", id |-> env[v].id])
      OBVIOUS
    <3>1. v = w
      BY <1>2, <1>4, <1>8 DEF KeyOf
    <3> QED BY <2>3, <3>1 DEF Asked
  <2> QED BY <1>2, <1>3, <1>5, <1>6, <2>2, <2>4 DEF Exchange, Asked, EndsIn, Contiguous
<1> QED BY <1>7, <1>8

\* What AppendUser writes.
LEMMA AppendUserEffect ==
    ASSUME TypeOK, LocalInv, NEW w \in Worker, AppendUser(w)
    PROVE  \E failed \in BOOLEAN, base \in Seq(Entry) :
             /\ base = IF created[w] /\ ~failed /\ db[KeyOf(w)] # <<>> THEN Trim(db[KeyOf(w)])
                       ELSE hist[sess[w]]
             /\ hist' = [hist EXCEPT ![sess[w]] =
                            IF pc'[w] = "persist" THEN Trim(Append(base, Asked(w))) ELSE base]
             /\ pc'[w] \in {"persist", "release"}
             /\ restored' = [restored EXCEPT ![sess[w]] = @ \/ created[w]]
             /\ Note(KeyOf(w), "failed", failed)
             /\ UNCHANGED <<store, db, forgotten>>
<1>0. sess[w] \in Sess /\ KeyOf(w) \in Key /\ DOMAIN pc = Worker
  BY HasMessage DEF AppendUser, At, Attached, Points, TypeOK
<1>1. PICK failed \in IF created[w] THEN MayFail("store") ELSE {FALSE} :
        LET k == KeyOf(w)
            base == IF created[w] /\ ~failed /\ db[k] # <<>> THEN Trim(db[k]) ELSE hist[sess[w]]
        IN /\ restored' = [restored EXCEPT ![sess[w]] = @ \/ created[w]]
           /\ Note(k, "failed", failed)
           /\ \/ /\ hist' = [hist EXCEPT ![sess[w]] = base]
                 /\ Goto(w, "release")
              \/ /\ hist' = [hist EXCEPT ![sess[w]] = Trim(Append(base, Asked(w)))]
                 /\ Goto(w, "persist")
  BY DEF AppendUser, Asked
<1>2. failed \in BOOLEAN
  BY DEF MayFail
<1>3. PICK base : base = IF created[w] /\ ~failed /\ db[KeyOf(w)] # <<>> THEN Trim(db[KeyOf(w)])
                         ELSE hist[sess[w]]
  OBVIOUS
<1>4. base \in Seq(Entry)
  <2>1. db[KeyOf(w)] \in Seq(Entry) /\ hist[sess[w]] \in Seq(Entry)
    BY <1>0 DEF TypeOK
  <2> QED BY <1>3, <2>1, Trimmed
<1>5. \/ hist' = [hist EXCEPT ![sess[w]] = base] /\ pc'[w] = "release"
      \/ hist' = [hist EXCEPT ![sess[w]] = Trim(Append(base, Asked(w)))] /\ pc'[w] = "persist"
  BY <1>0, <1>1, <1>3 DEF Goto
<1>6. hist' = [hist EXCEPT ![sess[w]] =
                  IF pc'[w] = "persist" THEN Trim(Append(base, Asked(w))) ELSE base]
      /\ pc'[w] \in {"persist", "release"}
  BY <1>5
<1>7. UNCHANGED <<store, db, forgotten>>
  BY DEF AppendUser
<1>8. restored' = [restored EXCEPT ![sess[w]] = @ \/ created[w]] /\ Note(KeyOf(w), "failed", failed)
  BY <1>1
<1> QED BY <1>2, <1>3, <1>4, <1>6, <1>7, <1>8

\* What Persist writes.
LEMMA PersistEffect ==
    ASSUME TypeOK, LocalInv, NEW w \in Worker, NEW role \in {"user", "assistant"}, Persist(w, role),
           KeyOf(w) \in Key
    PROVE  /\ db' \in {db, [db EXCEPT ![KeyOf(w)] = Append(@, [role |-> role, id |-> env[w].id])]}
           /\ "failed" \notin caveats'[KeyOf(w)] =>
                db' = [db EXCEPT ![KeyOf(w)] = Append(@, [role |-> role, id |-> env[w].id])]
           /\ \A k \in Key : k # KeyOf(w) => db'[k] = db[k]
<1>1. PICK failed \in BOOLEAN :
        /\ db' = IF failed THEN db
                 ELSE [db EXCEPT ![KeyOf(w)] = Append(@, [role |-> role, id |-> env[w].id])]
        /\ Note(KeyOf(w), "failed", failed)
  BY DEF Persist, MayFail
<1>2. failed => "failed" \in caveats'[KeyOf(w)]
  BY <1>1 DEF Note, TypeOK
<1> QED BY <1>1, <1>2 DEF TypeOK

\* Every step keeps ExchangeInv.
LEMMA NextExchangeInv ==
    TypeOK /\ LocalInv /\ OwnInv /\ ExchangeInv /\ [Next]_vars => ExchangeInv'
<1> SUFFICES ASSUME TypeOK, LocalInv, OwnInv, ExchangeInv, [Next]_vars PROVE ExchangeInv'
  OBVIOUS
<1>0. Nil \notin Sess
  BY PipelineAssumption
<1>1. ASSUME \A k \in Key : db'[k] = db[k] \/ db'[k] = <<>>,
             UNCHANGED hist, ~\E w \in Worker : ResolveSession(w),
             \A v \in Worker : pc'[v] \in InMemory \cup OnDisk =>
                /\ pc'[v] \in InMemory => pc[v] \in InMemory
                /\ pc'[v] \in OnDisk => pc[v] \in OnDisk
                /\ env'[v] = env[v] /\ sess'[v] = sess[v]
      PROVE  ExchangeInv'
  <2>1. \A s \in Sess, k \in Key : Owns(s, k)' => Owns(s, k)
    BY <1>1, OwnersKept
  <2> QED BY <1>1, <2>1, ExchangeKept
<1>2. ASSUME NEW w \in Worker, ResolveSession(w) PROVE ExchangeInv'
  <2>1. Moved(w) /\ pc[w] = "resolve" /\ pc'[w] \in {"idle", "purge", "lane"}
    BY <1>2, ExecuteMoves DEF Execute, ResolveSession, At, Leads
  <2>2. db' = db
    BY <1>2, ResolveEffect
  <2>3. \A v \in Worker : pc'[v] \in InMemory \cup OnDisk =>
           /\ v # w /\ pc[v] = pc'[v] /\ env'[v] = env[v] /\ sess'[v] = sess[v]
           /\ sess[v] \in Sess
    <3>1. "idle" \notin InMemory \cup OnDisk /\ "purge" \notin InMemory \cup OnDisk
          /\ "lane" \notin InMemory \cup OnDisk /\ InMemory \cup OnDisk \subseteq Attached
      BY DEF InMemory, OnDisk, Attached, Points
    <3> QED BY <2>1, <3>1, HasMessage DEF Moved
  <2>4. CASE hist' = hist /\ \A s \in Sess, k \in Key : Owns(s, k)' => Owns(s, k)
    BY <2>2, <2>3, <2>4, ExchangeKept
  <2>5. ASSUME NEW c \in Sess, Creates(w, c),
               \A s \in Sess, k \in Key : Owns(s, k)' => Owns(s, k) \/ (s = c /\ k = KeyOf(w))
        PROVE  ExchangeInv'
    <3>1. hist'[c] = <<>> /\ \A s \in Sess : s # c => hist'[s] = hist[s]
      BY <2>5 DEF Creates, TypeOK
    <3>2. \A v \in Worker : sess[v] # c
      BY <2>5 DEF Creates, Unreachable
    <3> QED BY <2>2, <2>3, <2>5, <3>1, <3>2, ExchangeKept
  <2> QED BY <1>2, <2>4, <2>5, ResolveOwners
<1>3. ASSUME NEW w \in Worker, AppendUser(w) PROVE ExchangeInv'
  <2>1. /\ Moved(w) /\ pc[w] = "history" /\ pc'[w] \in {"persist", "release"}
        /\ sess[w] \in Sess /\ KeyOf(w) \in Key /\ Asked(w) \in Entry /\ env[w].id \in Ids
    <3>1. pc[w] = "history"
      BY <1>3 DEF AppendUser, At
    <3>2. Moved(w) /\ pc'[w] \in {"persist", "release"}
      BY <1>3, <3>1, ExecuteMoves DEF Execute, Leads
    <3> QED BY <3>1, <3>2, HasMessage DEF Attached, Points
  <2>2. PICK failed \in BOOLEAN, base \in Seq(Entry) :
             /\ base = IF created[w] /\ ~failed /\ db[KeyOf(w)] # <<>> THEN Trim(db[KeyOf(w)])
                       ELSE hist[sess[w]]
             /\ hist' = [hist EXCEPT ![sess[w]] =
                            IF pc'[w] = "persist" THEN Trim(Append(base, Asked(w))) ELSE base]
             /\ UNCHANGED <<store, db>>
    BY <1>3, AppendUserEffect
  <2>3. ASSUME "failed" \notin caveats'[KeyOf(w)]
        PROVE  Contiguous(base) /\ Contiguous(Trim(Append(base, Asked(w))))
    <3>1. Exchange(KeyOf(w))
      BY <2>1, <2>3, CaveatsGrow, ExchangeOf
    <3>2. Contiguous(hist[sess[w]]) /\ Contiguous(db[KeyOf(w)])
      BY <2>1, <3>1 DEF Exchange, Owns
    <3>3. db[KeyOf(w)] \in Seq(Entry)
      BY <2>1 DEF TypeOK
    <3>4. Contiguous(Trim(db[KeyOf(w)]))
      BY <2>1, <3>2, <3>3, ContiguousKept
    <3>5. Contiguous(base)
      BY <2>2, <3>2, <3>4
    <3>6. Contiguous(Append(base, Asked(w)))
      BY <2>1, <3>5, ContiguousKept DEF Asked
    <3>7. Append(base, Asked(w)) \in Seq(Entry)
      BY <2>1, Appended
    <3> QED BY <2>1, <3>5, <3>6, <3>7, ContiguousKept
  <2>4. PICK h \in Seq(Entry) : h = IF pc'[w] = "persist" THEN Trim(Append(base, Asked(w))) ELSE base
    BY <2>1, TrimmedEnd
  <2>5. pc'[w] \in InMemory => EndsIn(h, Asked(w))
    <3>1. pc'[w] \in InMemory => pc'[w] = "persist"
      BY <2>1 DEF InMemory
    <3> QED BY <2>1, <2>4, <3>1, TrimmedEnd
  <2>6. /\ pc[w] \in Locked \ {"release"} /\ pc'[w] \in Locked /\ (pc'[w] \in OnDisk => pc[w] \in OnDisk)
    BY <2>1 DEF Locked, Attached, Points, OnDisk
  <2> QED BY <2>1, <2>2, <2>3, <2>4, <2>5, <2>6, MemoryWritten
<1>4. ASSUME NEW w \in Worker, AppendAssistant(w) PROVE ExchangeInv'
  <2>1. /\ Moved(w) /\ pc[w] = "finalize" /\ pc'[w] = "persistReply"
        /\ sess[w] \in Sess /\ KeyOf(w) \in Key /\ Answer(w) \in Entry /\ env[w].id \in Ids /\ env[w] # Nil
    <3>1. pc[w] = "finalize"
      BY <1>4 DEF AppendAssistant, At
    <3>2. Moved(w) /\ pc'[w] = "persistReply"
      BY <1>4, <3>1, ExecuteMoves DEF Execute, Leads
    <3> QED BY <3>1, <3>2, HasMessage DEF Attached, Points
  <2>2. hist' = [hist EXCEPT ![sess[w]] = Trim(Append(hist[sess[w]], Answer(w)))] /\ UNCHANGED <<store, db>>
    BY <1>4 DEF AppendAssistant, Answer
  <2>3. hist[sess[w]] \in Seq(Entry)
    BY <2>1 DEF TypeOK
  <2>4. ASSUME "failed" \notin caveats'[KeyOf(w)]
        PROVE  Contiguous(Trim(Append(hist[sess[w]], Answer(w))))
    <3>1. Exchange(KeyOf(w))
      BY <2>1, <2>4, CaveatsGrow, ExchangeOf
    <3>2. Contiguous(hist[sess[w]]) /\ EndsIn(hist[sess[w]], Asked(w))
      BY <2>1, <3>1 DEF Exchange, Owns, InMemory
    <3>3. Contiguous(Append(hist[sess[w]], Answer(w))) /\ Append(hist[sess[w]], Answer(w)) \in Seq(Entry)
      BY <2>1, <2>3, <3>2, ContiguousKept, Appended DEF Asked, Answer
    <3> QED BY <2>1, <3>3, ContiguousKept
  <2>5. PICK h \in Seq(Entry) : h = Trim(Append(hist[sess[w]], Answer(w)))
    BY <2>1, <2>3, TrimmedEnd
  <2>6. /\ pc[w] \in Locked \ {"release"} /\ pc'[w] \in Locked
        /\ pc'[w] \notin InMemory /\ (pc'[w] \in OnDisk => pc[w] \in OnDisk)
    BY <2>1 DEF Locked, Attached, Points, OnDisk, InMemory
  <2> QED BY <2>1, <2>2, <2>4, <2>5, <2>6, MemoryWritten
<1>5. ASSUME NEW w \in Worker, PersistUser(w) PROVE ExchangeInv'
  <2>1. /\ Moved(w) /\ pc[w] = "persist" /\ pc'[w] = "run"
        /\ KeyOf(w) \in Key /\ Asked(w) \in Entry /\ env[w].id \in Ids
    <3>1. pc[w] = "persist"
      BY <1>5 DEF PersistUser, At
    <3>2. Moved(w) /\ pc'[w] = "run"
      BY <1>5, <3>1, ExecuteMoves DEF Execute, Leads
    <3> QED BY <3>1, <3>2, HasMessage DEF Attached, Points
  <2>2. /\ "failed" \notin caveats'[KeyOf(w)] => db' = [db EXCEPT ![KeyOf(w)] = Append(@, Asked(w))]
        /\ \A k \in Key : k # KeyOf(w) => db'[k] = db[k]
    BY <1>5, <2>1, PersistEffect DEF PersistUser, Asked
  <2>3. ASSUME "failed" \notin caveats'[KeyOf(w)] PROVE Contiguous(Append(db[KeyOf(w)], Asked(w)))
    <3>1. Contiguous(db[KeyOf(w)])
      BY <2>1, <2>3, CaveatsGrow, ExchangeOf DEF Exchange
    <3>2. db[KeyOf(w)] \in Seq(Entry)
      BY <2>1 DEF TypeOK
    <3> QED BY <2>1, <3>1, <3>2, ContiguousKept DEF Asked
  <2>4. /\ pc[w] \in Locked \ {"release"} /\ pc'[w] \in Locked /\ (pc'[w] \in InMemory => pc[w] \in InMemory)
    BY <2>1 DEF Locked, Attached, Points, InMemory
  <2>5. UNCHANGED <<store, hist>>
    BY <1>5 DEF PersistUser
  <2> QED BY <2>1, <2>2, <2>3, <2>4, <2>5, DiskWritten
<1>6. ASSUME NEW w \in Worker, PersistAssistant(w) PROVE ExchangeInv'
  <2>1. /\ Moved(w) /\ pc[w] = "persistReply" /\ pc'[w] = "prune" /\ env[w] # Nil
        /\ KeyOf(w) \in Key /\ Answer(w) \in Entry /\ env[w].id \in Ids
    <3>1. pc[w] = "persistReply"
      BY <1>6 DEF PersistAssistant, At
    <3>2. Moved(w) /\ pc'[w] = "prune"
      BY <1>6, <3>1, ExecuteMoves DEF Execute, Leads
    <3> QED BY <3>1, <3>2, HasMessage DEF Attached, Points
  <2>2. /\ "failed" \notin caveats'[KeyOf(w)] => db' = [db EXCEPT ![KeyOf(w)] = Append(@, Answer(w))]
        /\ \A k \in Key : k # KeyOf(w) => db'[k] = db[k]
    BY <1>6, <2>1, PersistEffect DEF PersistAssistant, Answer
  <2>3. ASSUME "failed" \notin caveats'[KeyOf(w)] PROVE Contiguous(Append(db[KeyOf(w)], Answer(w)))
    <3>1. Exchange(KeyOf(w))
      BY <2>1, <2>3, CaveatsGrow, ExchangeOf
    <3>2. Contiguous(db[KeyOf(w)]) /\ (db[KeyOf(w)] = <<>> \/ EndsIn(db[KeyOf(w)], Asked(w)))
      BY <2>1, <3>1 DEF Exchange, OnDisk
    <3>3. db[KeyOf(w)] \in Seq(Entry)
      BY <2>1 DEF TypeOK
    <3> QED BY <2>1, <3>2, <3>3, ContiguousKept DEF Asked, Answer
  <2>4. /\ pc[w] \in Locked \ {"release"} /\ pc'[w] \in Locked
        /\ pc'[w] \notin InMemory /\ pc'[w] \notin OnDisk
    BY <2>1 DEF Locked, Attached, Points, InMemory, OnDisk
  <2>5. UNCHANGED <<store, hist>>
    BY <1>6 DEF PersistAssistant
  <2> QED BY <2>1, <2>2, <2>3, <2>4, <2>5, DiskWritten
<1>7. ASSUME NEW w \in Worker,
             \/ NewPurge(w) \/ NewDelete(w) \/ AcquireLane(w) \/ ResolveAgent(w) \/ RunAgent(w)
             \/ SendResponse(w) \/ TryPrune(w) \/ ReleaseLane(w)
      PROVE  ExchangeInv'
  <2>1. /\ pc[w] \in {"purge", "delete", "lane", "agent", "run", "send", "prune", "release"}
        /\ UNCHANGED hist
    BY <1>7 DEF At, NewPurge, NewDelete, AcquireLane, ResolveAgent, RunAgent, SendResponse, TryPrune,
                ReleaseLane
  <2>2. \A k \in Key : db'[k] = db[k] \/ db'[k] = <<>>
    BY <1>7 DEF NewPurge, NewDelete, AcquireLane, ResolveAgent, RunAgent, SendResponse, TryPrune,
                ReleaseLane, TypeOK
  <2>3. Moved(w) /\ pc'[w] \in Leads(pc[w])
    BY <1>7, ExecuteMoves DEF Execute
  <2>4. pc'[w] \in InMemory \cup OnDisk => pc[w] \in {"run", "send"} /\ pc'[w] # "idle" /\ pc'[w] \in {"send", "finalize"}
    BY <2>1, <2>3 DEF Leads, InMemory, OnDisk
  <2>5. \A v \in Worker : pc'[v] \in InMemory \cup OnDisk =>
           /\ pc'[v] \in InMemory => pc[v] \in InMemory
           /\ pc'[v] \in OnDisk => pc[v] \in OnDisk
           /\ env'[v] = env[v] /\ sess'[v] = sess[v]
    <3>1. {"run", "send"} \subseteq InMemory \cap OnDisk
      BY DEF InMemory, OnDisk
    <3> QED BY <2>3, <2>4, <3>1 DEF Moved
  <2>6. ~\E v \in Worker : ResolveSession(v)
    <3> SUFFICES ASSUME NEW v \in Worker, ResolveSession(v) PROVE FALSE
      OBVIOUS
    <3>1. pc[v] = "resolve" /\ pc'[v] # pc[v]
      BY ExecuteMoves DEF Execute, ResolveSession, At, Leads
    <3> QED BY <2>1, <2>3, <3>1 DEF Moved
  <2> QED BY <1>1, <2>1, <2>2, <2>5, <2>6
<1>8. ASSUME NEW w \in Worker, Receive(w) PROVE ExchangeInv'
  <2>1. /\ UNCHANGED <<db, hist, sess>> /\ pc'[w] = "resolve" /\ pc[w] = "idle"
        /\ \A v \in Worker \ {w} : pc'[v] = pc[v] /\ env'[v] = env[v]
    BY <1>8 DEF Receive, Goto, At, TypeOK
  <2>2. "resolve" \notin InMemory \cup OnDisk
    BY DEF InMemory, OnDisk
  <2>3. ~\E v \in Worker : ResolveSession(v)
    <3> SUFFICES ASSUME NEW v \in Worker, ResolveSession(v) PROVE FALSE
      OBVIOUS
    <3>1. pc[v] = "resolve" /\ pc'[v] # pc[v]
      BY ExecuteMoves DEF Execute, ResolveSession, At, Leads
    <3> QED BY <2>1, <3>1
  <2> QED BY <1>1, <2>1, <2>2, <2>3
<1>9. ASSUME \/ \E k \in Key : Submit(k) \/ DeleteSession(k)
             \/ \E s \in Sess : Age(s)
             \/ CronPrune \/ Quiescent \/ UNCHANGED vars
      PROVE  ExchangeInv'
  <2>1. UNCHANGED <<db, hist, pc, env, sess>>
    BY <1>9 DEF Submit, DeleteSession, Age, CronPrune, Quiescent, vars, locals
  <2>2. ~\E v \in Worker : ResolveSession(v)
    <3> SUFFICES ASSUME NEW v \in Worker, ResolveSession(v) PROVE FALSE
      OBVIOUS
    <3>1. pc[v] = "resolve" /\ pc'[v] # pc[v]
      BY ExecuteMoves DEF Execute, ResolveSession, At, Leads
    <3> QED BY <2>1, <3>1
  <2> QED BY <1>1, <2>1, <2>2
<1>10. CASE Restart
  <2>1. /\ db' = db /\ hist' = [s \in Sess |-> <<>>] /\ pc' = [v \in Worker |-> "idle"]
    BY <1>10 DEF Restart
  <2>2. "idle" \notin InMemory \cup OnDisk
    BY DEF InMemory, OnDisk
  <2> QED BY <2>1, <2>2, ExchangeKept
<1>11. ASSUME NEW w \in Worker, Execute(w) PROVE ExchangeInv'
  BY <1>2, <1>3, <1>4, <1>5, <1>6, <1>7, <1>11 DEF Execute
<1> QED BY <1>8, <1>9, <1>10, <1>11 DEF Next

\* There is no session yet.
LEMMA InitExchangeInv == Init => OwnInv /\ ExchangeInv
<1> SUFFICES ASSUME Init PROVE OwnInv /\ ExchangeInv
  OBVIOUS
<1>1. \A s \in Sess, k \in Key : ~Owns(s, k)
  BY PipelineAssumption DEF Init, Owns
<1>2. \A k \in Key : Contiguous(db[k])
  BY EmptySeq DEF Init, Contiguous
<1> QED BY <1>1, <1>2 DEF Init, OwnInv, ExchangeInv

\* ExchangesContiguous for any number of workers, keys and sessions, whatever
\* prunes, resets and restarts come between the steps of an exchange.
THEOREM ExchangesKeptTogether == Spec => []ExchangesContiguous
<1>1. TypeOK /\ ExchangeInv => ExchangesContiguous
  <2> SUFFICES ASSUME TypeOK, ExchangeInv, NEW k \in Key, "failed" \notin caveats[k]
               PROVE  Contiguous(db[k]) /\ (store[k] # Nil => Contiguous(hist[store[k]]))
    BY DEF ExchangesContiguous
  <2>1. store[k] # Nil => store[k] \in Sess /\ Owns(store[k], k)
    BY DEF TypeOK, Owns
  <2> QED BY <2>1 DEF ExchangeInv
<1> QED BY <1>1, InitTypes, NextTypes, NextLocalInv, NextOwnInv, InitExchangeInv, NextExchangeInv, PTL
        DEF Spec

-----------------------------------------------------------------------------
\* HistoryInSync.

\* Undisturbed of a key whose session stays, when no worker joins or turns to /new.
LEMMA UndisturbedKept ==
    ASSUME NEW k \in Key, Undisturbed(k), store'[k] = store[k],
           \A v \in Worker : pc'[v] \in Attached /\ KeyOf(v)' = k =>
               /\ pc[v] \in Attached /\ env'[v] = env[v] /\ sess'[v] = sess[v]
               /\ pc'[v] # "release" => pc[v] # "release"
               /\ pc'[v] \in {"purge", "delete"} => pc[v] \in {"purge", "delete"}
    PROVE  Undisturbed(k)'
<1>1. \A v \in Worker : pc'[v] \in Attached /\ KeyOf(v)' = k => KeyOf(v) = k
  BY DEF KeyOf
<1> QED BY <1>1 DEF Undisturbed

\* A prune takes the session from nobody, or it is noted.
LEMMA PruneUndisturbed ==
    ASSUME TypeOK, LocalInv, NEW k \in Key, Undisturbed(k), NEW gone, NEW x, Prune(gone, x),
           "torn" \notin caveats'[k],
           \A v \in Worker : /\ env'[v] = env[v] /\ sess'[v] = sess[v]
                             /\ v # x => pc'[v] = pc[v],
           x \in Worker => pc[x] = "prune" /\ pc'[x] = "release"
    PROVE  Undisturbed(k)'
<1>1. /\ \A v \in Worker : pc'[v] \in Attached => pc[v] \in Attached
      /\ \A v \in Worker : pc'[v] # "release" \/ v # x => pc'[v] = pc[v]
      /\ \A v \in Worker : pc'[v] \in {"purge", "delete"} => pc[v] \in {"purge", "delete"}
  BY DEF Attached, Points
<1>2. CASE k \notin gone
  <2>1. store'[k] = store[k]
    BY <1>2 DEF Prune
  <2>2. \A v \in Worker : pc'[v] # "release" => pc[v] # "release"
    BY <1>1
  <2> QED BY <1>1, <2>1, <2>2, UndisturbedKept
<1>3. CASE k \in gone
  <2>1. \A v \in Worker \ {x} : sess[v] # store[k]
    BY <1>3 DEF Prune
  <2>2. \A v \in Worker : ~(pc'[v] \in Attached \ {"release"} /\ KeyOf(v)' = k)
    BY <1>1, <2>1 DEF Undisturbed, KeyOf
  <2>3. \A v \in Worker : KeyOf(v)' = KeyOf(v)
    BY DEF KeyOf
  <2> QED BY <1>1, <2>2, <2>3 DEF Undisturbed
<1> QED BY <1>2, <1>3

\* What SyncInv says of the workers of a key, through every step.
LEMMA NextUndisturbed ==
    ASSUME TypeOK, LocalInv, SyncInv, [Next]_vars, NEW k \in Key, "torn" \notin caveats'[k]
    PROVE  Undisturbed(k)'
<1>0. Undisturbed(k) /\ "torn" \notin caveats[k]
  BY CaveatsGrow DEF SyncInv
<1>1. ASSUME NEW w \in Worker, ResolveSession(w) PROVE Undisturbed(k)'
  <2>1. /\ Moved(w) /\ KeyOf(w) \in Key /\ pc[w] = "resolve" /\ pc'[w] \in {"idle", "purge", "lane"}
    <3>1. pc[w] = "resolve"
      BY <1>1 DEF ResolveSession, At
    <3>2. Moved(w) /\ pc'[w] \in {"idle", "purge", "lane"}
      BY <1>1, <3>1, ExecuteMoves DEF Execute, Leads
    <3> QED BY <3>1, <3>2, HasMessage
  <2>2. \A v \in Worker \ {w} : pc'[v] = pc[v] /\ sess'[v] = sess[v] /\ env'[v] = env[v] /\ KeyOf(v)' = KeyOf(v)
    BY <2>1 DEF Moved, KeyOf
  <2>3. pc'[w] # "idle" => KeyOf(w)' = KeyOf(w)
    BY <2>1 DEF Moved, KeyOf
  <2>4. "idle" \notin Attached
    BY DEF Attached
  <2>5. CASE k # KeyOf(w)
    <3>1. store'[k] = store[k]
      BY <1>1, <2>5, ResolveEffect DEF Creates, TypeOK
    <3> QED BY <1>0, <2>2, <2>3, <2>4, <2>5, <3>1, UndisturbedKept
  <2>6. CASE k = KeyOf(w)
    <3>1. ASSUME NEW v \in Worker, v # w, pc[v] \in Attached \ {"release"}, KeyOf(v) = k
          PROVE  store[k] = sess[v] /\ store[k] # Nil
      BY <1>0, <3>1 DEF Undisturbed, LocalInv
    <3>2. \/ store' = store
          \/ store[k] = Nil
      BY <1>1, <2>6, ResolveEffect DEF Creates
    <3>3. pc'[w] # "idle" => sess'[w] = store'[k]
      BY <1>1, <2>1, <2>6, ResolveEffect DEF Creates, TypeOK
    <3>4. ASSUME NEW v \in Worker, pc'[v] \in Attached \ {"release"}, KeyOf(v)' = k
          PROVE  sess'[v] = store'[k]
      BY <2>2, <2>4, <3>1, <3>2, <3>3, <3>4
    <3>5. pc'[w] # "idle" => ~ResetRaces(w, pc'[w])
      BY <1>1, <2>1, <2>6, ResolveEffect DEF Note, TypeOK
    <3>6. \A v \in Worker \ {w} : pc'[w] # "idle" /\ pc[v] \in Attached /\ KeyOf(v) = k =>
             pc[v] \notin {"purge", "delete"} /\ pc'[w] \notin {"purge", "delete"}
      <4>1. \A v \in Worker : pc[v] \in Attached => sess[v] # Nil
        BY DEF LocalInv
      <4> QED BY <2>6, <3>5, <4>1 DEF ResetRaces
    <3>7. ASSUME NEW u \in Worker, NEW v \in Worker, u # v, pc'[u] \in Attached, KeyOf(u)' = k,
                 pc'[v] \in Attached, KeyOf(v)' = k
          PROVE  pc'[u] \notin {"purge", "delete"}
      <4>1. CASE u = w
        BY <2>2, <2>4, <3>6, <3>7, <4>1
      <4>2. CASE v = w
        BY <2>2, <2>4, <3>6, <3>7, <4>2
      <4>3. CASE u # w /\ v # w
        BY <1>0, <2>2, <3>7, <4>3 DEF Undisturbed
      <4> QED BY <4>1, <4>2, <4>3
    <3> QED BY <3>4, <3>7 DEF Undisturbed
  <2> QED BY <2>5, <2>6
<1>2. ASSUME NEW w \in Worker, NewDelete(w) PROVE Undisturbed(k)'
  <2>1. /\ Moved(w) /\ pc[w] = "delete" /\ pc'[w] = "idle" /\ KeyOf(w) \in Key
        /\ store' = [store EXCEPT ![KeyOf(w)] = Nil]
    <3>1. pc[w] = "delete" /\ store' = [store EXCEPT ![KeyOf(w)] = Nil]
      BY <1>2 DEF NewDelete, At
    <3>2. Moved(w) /\ pc'[w] = "idle"
      BY <1>2, <3>1, ExecuteMoves DEF Execute, Leads
    <3> QED BY <3>1, <3>2, HasMessage
  <2>2. \A v \in Worker \ {w} : pc'[v] = pc[v] /\ sess'[v] = sess[v] /\ env'[v] = env[v] /\ KeyOf(v)' = KeyOf(v)
    BY <2>1 DEF Moved, KeyOf
  <2>3. "idle" \notin Attached /\ "delete" \in Attached
    BY DEF Attached, Points
  <2>4. CASE k # KeyOf(w)
    <3>1. store'[k] = store[k]
      BY <2>1, <2>4 DEF TypeOK
    <3> QED BY <1>0, <2>1, <2>2, <2>3, <3>1, UndisturbedKept
  <2>5. CASE k = KeyOf(w)
    <3>1. \A v \in Worker \ {w} : ~(pc[v] \in Attached /\ KeyOf(v) = k)
      BY <1>0, <2>1, <2>3, <2>5 DEF Undisturbed
    <3> QED BY <2>1, <2>2, <2>3, <3>1 DEF Undisturbed
  <2> QED BY <2>4, <2>5
<1>3. ASSUME NEW w \in Worker, TryPrune(w) PROVE Undisturbed(k)'
  <2>1. /\ Moved(w) /\ pc[w] = "prune" /\ pc'[w] = "release" /\ \E gone : Prune(gone, w)
        /\ UNCHANGED <<env, sess>>
    <3>1. pc[w] = "prune" /\ \E gone : Prune(gone, w)
      BY <1>3 DEF TryPrune, At
    <3>2. Moved(w) /\ pc'[w] = "release"
      BY <1>3, <3>1, ExecuteMoves DEF Execute, Leads
    <3> QED BY <1>3, <3>1, <3>2 DEF TryPrune
  <2>2. \A v \in Worker : v # w => pc'[v] = pc[v]
    BY <2>1 DEF Moved
  <2> QED BY <1>0, <2>1, <2>2, PruneUndisturbed
<1>4. ASSUME NEW w \in Worker,
             \/ NewPurge(w) \/ AcquireLane(w) \/ ResolveAgent(w) \/ AppendUser(w) \/ PersistUser(w)
             \/ RunAgent(w) \/ SendResponse(w) \/ AppendAssistant(w) \/ PersistAssistant(w)
             \/ ReleaseLane(w)
      PROVE  Undisturbed(k)'
  <2>1. store' = store /\ pc[w] # "resolve" /\ pc[w] # "delete"
    BY <1>4 DEF NewPurge, AcquireLane, ResolveAgent, AppendUser, PersistUser, RunAgent, SendResponse,
                AppendAssistant, PersistAssistant, ReleaseLane, At
  <2>2. Moved(w) /\ pc'[w] \in Leads(pc[w]) /\ pc[w] \in Points \ {"idle"}
    BY <1>4, ExecuteMoves DEF Execute, TypeOK
  <2>3. /\ pc[w] \in Attached
        /\ pc'[w] # "idle" /\ pc'[w] # "release" => pc[w] # "release"
        /\ pc'[w] \in {"purge", "delete"} => pc[w] \in {"purge", "delete"}
        /\ "idle" \notin Attached
    BY <2>1, <2>2 DEF Leads, Attached, Points
  <2> QED BY <1>0, <2>1, <2>2, <2>3, UndisturbedKept DEF Moved
<1>5. ASSUME NEW w \in Worker, Receive(w) PROVE Undisturbed(k)'
  <2>1. /\ pc'[w] = "resolve" /\ UNCHANGED <<store, sess>>
        /\ \A v \in Worker \ {w} : pc'[v] = pc[v] /\ env'[v] = env[v]
    BY <1>5 DEF Receive, Goto, TypeOK
  <2>2. "resolve" \notin Attached
    BY DEF Attached
  <2> QED BY <1>0, <2>1, <2>2, UndisturbedKept
<1>6. ASSUME NEW gone, Prune(gone, Nil), UNCHANGED locals PROVE Undisturbed(k)'
  BY <1>0, <1>6, PruneUndisturbed, PipelineAssumption DEF locals
<1>7. ASSUME CronPrune \/ \E j \in Key : DeleteSession(j) PROVE Undisturbed(k)'
  BY <1>6, <1>7 DEF CronPrune, DeleteSession
<1>8. CASE UNCHANGED <<store, pc, env, sess>>
  BY <1>0, <1>8, UndisturbedKept
<1>9. ASSUME \/ \E j \in Key : Submit(j)
             \/ \E s \in Sess : Age(s)
             \/ Quiescent \/ UNCHANGED vars
      PROVE  Undisturbed(k)'
  BY <1>8, <1>9 DEF Submit, Age, Quiescent, vars, locals
<1>10. CASE Restart
  BY <1>10 DEF Restart, Undisturbed, Attached
<1>11. ASSUME NEW w \in Worker, Execute(w) PROVE Undisturbed(k)'
  BY <1>1, <1>2, <1>3, <1>4, <1>11 DEF Execute
<1> QED BY <1>5, <1>7, <1>9, <1>10, <1>11 DEF Next

\* InSync of a key whose session and histories stay, when no worker comes to, or
\* leaves, the points where the persistent history is one behind.
LEMMA InSyncKept ==
    ASSUME NEW k \in Key, InSync(k), store'[k] = store[k], db'[k] = db[k],
           hist'[store[k]] = hist[store[k]], restored'[store[k]] = restored[store[k]],
           \A v \in Worker, p \in {"persist", "persistReply"} :
               /\ Busy(v, k, p)' <=> Busy(v, k, p)
               /\ Busy(v, k, p) => env'[v] = env[v]
    PROVE  InSync(k)'
<1>1. \A v \in Worker : /\ Busy(v, k, "persist")' <=> Busy(v, k, "persist")
                        /\ Busy(v, k, "persistReply")' <=> Busy(v, k, "persistReply")
  OBVIOUS
<1>2. \A v \in Worker : Busy(v, k, "persist") => Asked(v)' = Asked(v)
  BY DEF Asked
<1>3. \A v \in Worker : Busy(v, k, "persistReply") => Answer(v)' = Answer(v)
  BY DEF Answer
<1>4. \A v \in Worker : restored'[store'[k]] /\ Busy(v, k, "persist")' =>
         hist'[store'[k]] = Trim(Append(db'[k], Asked(v)'))
  BY <1>1, <1>2 DEF InSync
<1>5. \A v \in Worker : restored'[store'[k]] /\ Busy(v, k, "persistReply")' =>
         hist'[store'[k]] = Trim(Append(db'[k], Answer(v)'))
  BY <1>1, <1>3 DEF InSync
<1>6. (\A v \in Worker : ~Busy(v, k, "persist")' /\ ~Busy(v, k, "persistReply")') =>
         IF restored'[store'[k]] THEN hist'[store'[k]] = Trim(db'[k])
         ELSE db'[k] = <<>> => hist'[store'[k]] = <<>>
  BY <1>1 DEF InSync
<1> QED BY <1>4, <1>5, <1>6 DEF InSync, Trim

\* The worker that holds the lane, of an undisturbed key.
LEMMA HolderInSync ==
    ASSUME TypeOK, LocalInv, NEW w \in Worker, pc[w] \in Locked \ {"release"}, Undisturbed(KeyOf(w))
    PROVE  /\ KeyOf(w) \in Key /\ sess[w] \in Sess /\ sess[w] = store[KeyOf(w)]
           /\ env[w] # Nil /\ Asked(w) \in Entry /\ Answer(w) \in Entry
           /\ \A v \in Worker : ~Busy(v, KeyOf(w), "delete")
           /\ \A v \in Worker \ {w} : /\ ~Busy(v, KeyOf(w), "persist")
                                      /\ ~Busy(v, KeyOf(w), "persistReply")
<1>1. /\ pc[w] # "idle" /\ pc[w] \in Attached \ {"release"} /\ pc[w] # "delete"
      /\ "persist" \in Locked /\ "persistReply" \in Locked /\ "delete" \in Attached
  BY DEF Locked, Attached, Points
<1>2. /\ KeyOf(w) \in Key /\ sess[w] \in Sess /\ env[w] # Nil
      /\ Asked(w) \in Entry /\ Answer(w) \in Entry
  BY <1>1, HasMessage
<1>3. sess[w] = store[KeyOf(w)]
  BY <1>1 DEF Undisturbed
<1>4. \A v \in Worker : ~Busy(v, KeyOf(w), "delete")
  BY <1>1 DEF Undisturbed, Busy
<1>5. \A v \in Worker \ {w} : ~Busy(v, KeyOf(w), "persist") /\ ~Busy(v, KeyOf(w), "persistReply")
  BY <1>1, LockedAlone DEF Busy
<1> QED BY <1>2, <1>3, <1>4, <1>5

\* When no worker is, or only w is, one ahead of the persistent history.
LEMMA InSyncCases ==
    ASSUME NEW k \in Key, NEW w \in Worker,
           \A v \in Worker \ {w} : ~Busy(v, k, "persist") /\ ~Busy(v, k, "persistReply")
    PROVE  InSync(k) <=>
             /\ restored[store[k]] /\ Busy(w, k, "persist") => hist[store[k]] = Trim(Append(db[k], Asked(w)))
             /\ restored[store[k]] /\ Busy(w, k, "persistReply") =>
                   hist[store[k]] = Trim(Append(db[k], Answer(w)))
             /\ ~Busy(w, k, "persist") /\ ~Busy(w, k, "persistReply") =>
                   IF restored[store[k]] THEN hist[store[k]] = Trim(db[k])
                   ELSE db[k] = <<>> => hist[store[k]] = <<>>
BY DEF InSync

\* Nothing of nothing.
LEMMA TrimmedEmpty == Trim(<<>>) = <<>>
<1>1. Len(<<>>) = 0 /\ MaxHistoryLen \in Nat
  BY EmptySeq, PipelineAssumption
<1> QED BY <1>1 DEF Trim

\* InSync behind a step of the worker w that holds the lane.
LEMMA InSyncAfter ==
    ASSUME NEW k \in Key, NEW w \in Worker, NEW s, NEW g, NEW h,
           store'[k] = s, db'[k] = g, hist'[s] = h, env'[w] = env[w], KeyOf(w) = k,
           \A v \in Worker \ {w} : ~Busy(v, k, "persist")' /\ ~Busy(v, k, "persistReply")',
           restored'[s] /\ pc'[w] = "persist" => h = Trim(Append(g, Asked(w))),
           restored'[s] /\ pc'[w] = "persistReply" => h = Trim(Append(g, Answer(w))),
           pc'[w] \notin {"persist", "persistReply"} =>
               IF restored'[s] THEN h = Trim(g) ELSE g = <<>> => h = <<>>
    PROVE  InSync(k)'
<1>1. /\ Busy(w, k, "persist")' <=> pc'[w] = "persist"
      /\ Busy(w, k, "persistReply")' <=> pc'[w] = "persistReply"
  BY DEF Busy, KeyOf
<1>2. Asked(w)' = Asked(w) /\ Answer(w)' = Answer(w)
  BY DEF Asked, Answer
<1>3. \A v \in Worker : restored'[s] /\ Busy(v, k, "persist")' => h = Trim(Append(g, Asked(v)'))
  BY <1>1, <1>2
<1>4. \A v \in Worker : restored'[s] /\ Busy(v, k, "persistReply")' => h = Trim(Append(g, Answer(v)'))
  BY <1>1, <1>2
<1>5. (\A v \in Worker : ~Busy(v, k, "persist")' /\ ~Busy(v, k, "persistReply")') =>
         IF restored'[s] THEN h = Trim(g) ELSE g = <<>> => h = <<>>
  BY <1>1
<1> QED BY <1>3, <1>4, <1>5 DEF InSync, Trim

\* What SyncInv says of the histories of a key, through the steps of a worker.
LEMMA ExecuteInSync ==
    ASSUME TypeOK, LocalInv, OwnInv, SyncInv, [Next]_vars, NEW k \in Key, NEW w \in Worker, Execute(w),
           caveats'[k] \cap {"torn", "failed"} = {}, store'[k] # Nil,
           \A v \in Worker : ~Busy(v, k, "delete")'
    PROVE  InSync(k)'
<1>0. Undisturbed(k) /\ caveats[k] \cap {"torn", "failed"} = {} /\ "failed" \notin caveats'[k]
  BY CaveatsGrow DEF SyncInv
<1>1. ASSUME store[k] # Nil, \A v \in Worker : ~Busy(v, k, "delete") PROVE InSync(k)
  BY <1>0, <1>1 DEF SyncInv
<1>2. /\ Moved(w) /\ pc'[w] \in Leads(pc[w]) /\ pc[w] # "idle" /\ KeyOf(w) \in Key /\ pc[w] \in Points
      /\ pc[w] \in Attached => sess[w] \in Sess
  BY ExecuteMoves, HasMessage DEF TypeOK
<1>3. \A v \in Worker \ {w} : /\ pc'[v] = pc[v] /\ env'[v] = env[v] /\ sess'[v] = sess[v]
                              /\ \A p : Busy(v, k, p)' <=> Busy(v, k, p)
  BY <1>2 DEF Moved, Busy, KeyOf
<1>4. pc'[w] # "idle" => env'[w] = env[w] /\ KeyOf(w)' = KeyOf(w)
  BY <1>2 DEF Moved, KeyOf
<1>5. pc[w] # "delete" => \A v \in Worker : ~Busy(v, k, "delete")
  BY <1>3 DEF Busy
\* Steps that leave the histories of k alone.
<1>6. ASSUME store'[k] = store[k], db'[k] = db[k], hist'[store[k]] = hist[store[k]],
             restored'[store[k]] = restored[store[k]], pc[w] # "delete",
             k = KeyOf(w) => {pc[w], pc'[w]} \cap {"persist", "persistReply"} = {}
      PROVE  InSync(k)'
  <2>1. \A p \in {"persist", "persistReply"} : ~Busy(w, k, p)
    BY <1>6 DEF Busy
  <2>2. \A p \in {"persist", "persistReply"} : ~Busy(w, k, p)'
    BY <1>4, <1>6 DEF Busy
  <2>3. InSync(k)
    BY <1>1, <1>5, <1>6
  <2>4. \A v \in Worker, p \in {"persist", "persistReply"} :
               /\ Busy(v, k, p)' <=> Busy(v, k, p)
               /\ Busy(v, k, p) => env'[v] = env[v]
    BY <1>3, <2>1, <2>2
  <2> QED BY <1>6, <2>3, <2>4, InSyncKept
<1>7. CASE ResolveSession(w)
  <2>1. pc[w] = "resolve" /\ pc'[w] \in {"idle", "purge", "lane"} /\ db' = db
    BY <1>2, <1>7, ResolveEffect DEF ResolveSession, At, Leads
  <2>2. CASE UNCHANGED <<store, hist, restored>>
    BY <1>6, <2>1, <2>2
  <2>3. ASSUME NEW c \in Sess, Creates(w, c) PROVE InSync(k)'
    <3>1. CASE k = KeyOf(w)
      <4>1. store'[k] = c /\ hist'[c] = <<>> /\ restored'[c] = FALSE
        BY <1>2, <2>3, <3>1 DEF Creates, TypeOK
      <4> QED BY <4>1, TrimmedEmpty DEF InSync, Trim
    <3>2. CASE k # KeyOf(w)
      <4>1. store'[k] = store[k] /\ store[k] # c /\ hist'[store[k]] = hist[store[k]]
            /\ restored'[store[k]] = restored[store[k]]
        BY <1>2, <2>3, <3>2 DEF Creates, Unreachable, TypeOK
      <4> QED BY <1>6, <2>1, <3>2, <4>1
    <3> QED BY <3>1, <3>2
  <2> QED BY <1>7, <2>2, <2>3, ResolveEffect
<1>8. CASE NewPurge(w)
  <2>1. /\ pc[w] = "purge" /\ pc'[w] = "delete" /\ UNCHANGED <<store, hist, restored>>
        /\ \A j \in Key : j # KeyOf(w) => db'[j] = db[j]
    BY <1>2, <1>8 DEF NewPurge, At, Leads, TypeOK
  <2>2. k # KeyOf(w)
    BY <1>4, <2>1 DEF Busy
  <2> QED BY <1>6, <2>1, <2>2
<1>9. CASE NewDelete(w)
  <2>1. /\ pc[w] = "delete" /\ pc'[w] = "idle" /\ UNCHANGED <<hist, restored, db>>
        /\ store' = [store EXCEPT ![KeyOf(w)] = Nil]
    BY <1>2, <1>9 DEF NewDelete, At, Leads
  <2>2. k # KeyOf(w) /\ store'[k] = store[k]
    BY <2>1 DEF TypeOK
  <2>3. \A p : ~Busy(w, k, p)
    BY <2>2 DEF Busy
  <2>4. InSync(k)
    BY <1>1, <1>3, <2>2, <2>3
  <2>5. \A v \in Worker, p \in {"persist", "persistReply"} :
               /\ Busy(v, k, p)' <=> Busy(v, k, p)
               /\ Busy(v, k, p) => env'[v] = env[v]
    <3>1. \A p \in {"persist", "persistReply"} : ~Busy(w, k, p)'
      BY <2>1 DEF Busy
    <3> QED BY <1>3, <2>3, <3>1
  <2> QED BY <2>1, <2>2, <2>4, <2>5, InSyncKept
<1>10. CASE TryPrune(w)
  <2>1. /\ pc[w] = "prune" /\ pc'[w] = "release" /\ UNCHANGED <<hist, restored, db>>
        /\ store'[k] = store[k]
    BY <1>2, <1>10 DEF TryPrune, Prune, At, Leads
  <2> QED BY <1>6, <2>1
<1>11. CASE AcquireLane(w) \/ ResolveAgent(w) \/ RunAgent(w) \/ SendResponse(w) \/ ReleaseLane(w)
  <2>1. /\ pc[w] \in {"lane", "agent", "run", "send", "release"} /\ UNCHANGED <<store, hist, restored, db>>
    BY <1>11 DEF AcquireLane, ResolveAgent, RunAgent, SendResponse, ReleaseLane, At, ghosts
  <2>2. pc'[w] \in {"agent", "release", "history", "send", "finalize", "idle"}
    BY <1>2, <2>1 DEF Leads
  <2> QED BY <1>6, <2>1, <2>2
\* The worker writes a history of k, its own key.
<1>12. ASSUME pc[w] \in {"history", "persist", "finalize", "persistReply"}, k = KeyOf(w)
       PROVE  /\ sess[w] = store[k] /\ sess[w] \in Sess /\ Asked(w) \in Entry /\ Answer(w) \in Entry
              /\ \A v \in Worker \ {w} : ~Busy(v, k, "persist")' /\ ~Busy(v, k, "persistReply")'
              /\ restored[sess[w]] /\ pc[w] = "persist" => hist[sess[w]] = Trim(Append(db[k], Asked(w)))
              /\ restored[sess[w]] /\ pc[w] = "persistReply" => hist[sess[w]] = Trim(Append(db[k], Answer(w)))
              /\ pc[w] \notin {"persist", "persistReply"} =>
                   IF restored[sess[w]] THEN hist[sess[w]] = Trim(db[k]) ELSE db[k] = <<>> => hist[sess[w]] = <<>>
              /\ db[k] \in Seq(Entry) /\ hist[sess[w]] \in Seq(Entry) /\ env'[w] = env[w]
  <2>1. pc[w] \in Locked \ {"release"}
    BY <1>12 DEF Locked, Attached, Points
  <2>2. /\ sess[w] = store[k] /\ sess[w] \in Sess /\ Asked(w) \in Entry /\ Answer(w) \in Entry
        /\ \A v \in Worker : ~Busy(v, k, "delete")
        /\ \A v \in Worker \ {w} : ~Busy(v, k, "persist") /\ ~Busy(v, k, "persistReply")
    BY <1>0, <1>12, <2>1, HolderInSync
  <2>3. InSync(k)
    <3>1. store[k] # Nil
      BY <2>2, PipelineAssumption
    <3> QED BY <1>1, <2>2, <3>1
  <2>4. /\ Busy(w, k, "persist") <=> pc[w] = "persist"
        /\ Busy(w, k, "persistReply") <=> pc[w] = "persistReply"
    BY <1>12 DEF Busy
  <2>5. pc'[w] # "idle"
    BY <1>2, <1>12 DEF Leads
  <2>6. db[k] \in Seq(Entry) /\ hist[sess[w]] \in Seq(Entry)
    BY <2>2 DEF TypeOK
  <2>7. /\ restored[sess[w]] /\ pc[w] = "persist" => hist[sess[w]] = Trim(Append(db[k], Asked(w)))
        /\ restored[sess[w]] /\ pc[w] = "persistReply" => hist[sess[w]] = Trim(Append(db[k], Answer(w)))
        /\ pc[w] \notin {"persist", "persistReply"} =>
             IF restored[sess[w]] THEN hist[sess[w]] = Trim(db[k]) ELSE db[k] = <<>> => hist[sess[w]] = <<>>
    BY <2>2, <2>3, <2>4, InSyncCases
  <2> QED BY <1>3, <1>4, <2>2, <2>5, <2>6, <2>7
\* ... or one of another key, whose session is another.
<1>13. ASSUME pc[w] \in {"history", "persist", "finalize", "persistReply"}, k # KeyOf(w), store' = store,
              db'[k] = db[k], \A s \in Sess : s # sess[w] => hist'[s] = hist[s] /\ restored'[s] = restored[s]
       PROVE  InSync(k)'
  <2>1. sess[w] \in Sess
    BY <1>2, <1>13 DEF Attached, Points
  <2>2. store[k] # sess[w] /\ store[k] \in Sess
    BY <1>2, <1>13, <2>1 DEF OwnInv, Owns, TypeOK
  <2> QED BY <1>6, <1>13, <2>2
<1>14. CASE AppendUser(w)
  <2>1. pc[w] = "history"
    BY <1>14 DEF AppendUser, At
  <2>2. PICK failed \in BOOLEAN, base \in Seq(Entry) :
             /\ base = IF created[w] /\ ~failed /\ db[KeyOf(w)] # <<>> THEN Trim(db[KeyOf(w)])
                       ELSE hist[sess[w]]
             /\ hist' = [hist EXCEPT ![sess[w]] =
                            IF pc'[w] = "persist" THEN Trim(Append(base, Asked(w))) ELSE base]
             /\ pc'[w] \in {"persist", "release"}
             /\ restored' = [restored EXCEPT ![sess[w]] = @ \/ created[w]]
             /\ Note(KeyOf(w), "failed", failed)
             /\ UNCHANGED <<store, db, forgotten>>
    BY <1>14, AppendUserEffect
  <2>3. CASE k # KeyOf(w)
    BY <1>13, <2>1, <2>2, <2>3 DEF TypeOK
  <2>4. CASE k = KeyOf(w)
    <3>1. /\ sess[w] = store[k] /\ sess[w] \in Sess /\ Asked(w) \in Entry
          /\ \A v \in Worker \ {w} : ~Busy(v, k, "persist")' /\ ~Busy(v, k, "persistReply")'
          /\ IF restored[sess[w]] THEN hist[sess[w]] = Trim(db[k]) ELSE db[k] = <<>> => hist[sess[w]] = <<>>
          /\ db[k] \in Seq(Entry) /\ env'[w] = env[w]
      BY <1>12, <2>1, <2>4
    <3>2. ~failed
      BY <1>0, <2>2, <2>4 DEF Note, TypeOK
    <3>3. restored'[sess[w]] => base = Trim(db[k])
      <4>1. restored'[sess[w]] => restored[sess[w]] \/ created[w]
        BY <2>2, <3>1 DEF TypeOK
      <4> QED BY <2>2, <2>4, <3>1, <3>2, <4>1, TrimmedEmpty
    <3>4. ~restored'[sess[w]] => (db[k] = <<>> => base = <<>>)
      <4>1. ~restored'[sess[w]] => ~restored[sess[w]] /\ ~created[w]
        BY <2>2, <3>1 DEF TypeOK
      <4> QED BY <2>2, <3>1, <4>1
    <3>5. PICK h : h = IF pc'[w] = "persist" THEN Trim(Append(base, Asked(w))) ELSE base
      OBVIOUS
    <3>6. hist'[sess[w]] = h
      BY <2>2, <3>1, <3>5 DEF TypeOK
    <3>7. restored'[sess[w]] /\ pc'[w] = "persist" => h = Trim(Append(db[k], Asked(w)))
      BY <3>1, <3>3, <3>5, TrimmedTwice
    <3>8. pc'[w] # "persistReply"
          /\ (pc'[w] # "persist" => IF restored'[sess[w]] THEN h = Trim(db[k]) ELSE db[k] = <<>> => h = <<>>)
      BY <2>2, <3>3, <3>4, <3>5
    <3> QED BY <2>2, <2>4, <3>1, <3>6, <3>7, <3>8, InSyncAfter
  <2> QED BY <2>3, <2>4
<1>15. CASE AppendAssistant(w)
  <2>1. /\ pc[w] = "finalize" /\ pc'[w] = "persistReply" /\ UNCHANGED <<store, db, restored>>
        /\ hist' = [hist EXCEPT ![sess[w]] = Trim(Append(hist[sess[w]], Answer(w)))]
    BY <1>2, <1>15 DEF AppendAssistant, At, Leads, Answer, ghosts
  <2>2. CASE k # KeyOf(w)
    BY <1>13, <2>1, <2>2 DEF TypeOK
  <2>3. CASE k = KeyOf(w)
    <3>1. /\ sess[w] = store[k] /\ sess[w] \in Sess /\ Answer(w) \in Entry
          /\ \A v \in Worker \ {w} : ~Busy(v, k, "persist")' /\ ~Busy(v, k, "persistReply")'
          /\ restored[sess[w]] => hist[sess[w]] = Trim(db[k])
          /\ db[k] \in Seq(Entry) /\ env'[w] = env[w]
      BY <1>12, <2>1, <2>3
    <3>2. hist'[sess[w]] = Trim(Append(hist[sess[w]], Answer(w)))
      BY <2>1, <3>1 DEF TypeOK
    <3>3. restored'[sess[w]] => hist'[sess[w]] = Trim(Append(db[k], Answer(w)))
      BY <2>1, <3>1, <3>2, TrimmedTwice
    <3> QED BY <2>1, <2>3, <3>1, <3>3, InSyncAfter
  <2> QED BY <2>2, <2>3
<1>16. ASSUME NEW role \in {"user", "assistant"}, Persist(w, role), UNCHANGED <<store, hist, restored>>,
              \/ role = "user" /\ pc[w] = "persist" /\ pc'[w] = "run"
              \/ role = "assistant" /\ pc[w] = "persistReply" /\ pc'[w] = "prune"
       PROVE  InSync(k)'
  <2>1. CASE k # KeyOf(w)
    <3>1. db'[k] = db[k]
      BY <1>2, <1>16, <2>1, PersistEffect
    <3> QED BY <1>13, <1>16, <2>1, <3>1
  <2>2. CASE k = KeyOf(w)
    <3>1. PICK e : e = [role |-> role, id |-> env[w].id]
      OBVIOUS
    <3>a. db' = [db EXCEPT ![KeyOf(w)] = Append(@, [role |-> role, id |-> env[w].id])]
      <4>1. "failed" \notin caveats'[KeyOf(w)] /\ KeyOf(w) \in Key
        BY <1>0, <2>2
      <4> QED BY <1>16, <4>1, PersistEffect
    <3>2. db'[k] = Append(db[k], e)
      BY <2>2, <3>1, <3>a DEF TypeOK
    <3>3. /\ sess[w] = store[k] /\ sess[w] \in Sess /\ e \in Entry
          /\ \A v \in Worker \ {w} : ~Busy(v, k, "persist")' /\ ~Busy(v, k, "persistReply")'
          /\ restored[sess[w]] => hist[sess[w]] = Trim(Append(db[k], e))
          /\ db[k] \in Seq(Entry) /\ env'[w] = env[w]
      BY <1>12, <1>16, <2>2, <3>1 DEF Asked, Answer
    <3>4. Append(db[k], e) # <<>>
      BY <3>3, Appended
    <3> QED BY <1>16, <2>2, <3>2, <3>3, <3>4, InSyncAfter
  <2> QED BY <2>1, <2>2
<1>17. CASE PersistUser(w)
  BY <1>2, <1>16, <1>17 DEF PersistUser, At, Leads
<1>18. CASE PersistAssistant(w)
  BY <1>2, <1>16, <1>18 DEF PersistAssistant, At, Leads
<1> QED BY <1>7, <1>8, <1>9, <1>10, <1>11, <1>14, <1>15, <1>17, <1>18 DEF Execute

\* Every step keeps SyncInv.
LEMMA NextSyncInv == TypeOK /\ LocalInv /\ OwnInv /\ SyncInv /\ [Next]_vars => SyncInv'
<1> SUFFICES ASSUME TypeOK, LocalInv, OwnInv, SyncInv, [Next]_vars,
                    NEW k \in Key, caveats'[k] \cap {"torn", "failed"} = {}, store'[k] # Nil,
                    \A v \in Worker : ~Busy(v, k, "delete")'
             PROVE  InSync(k)'
  BY NextUndisturbed DEF SyncInv
<1>1. ASSUME UNCHANGED <<db, hist, restored>>, store'[k] = store[k],
             \A v \in Worker, p \in {"persist", "persistReply", "delete"} :
               /\ Busy(v, k, p)' <=> Busy(v, k, p)
               /\ Busy(v, k, p) => env'[v] = env[v]
      PROVE  InSync(k)'
  <2>1. caveats[k] \cap {"torn", "failed"} = {}
    BY CaveatsGrow
  <2>2. InSync(k)
    BY <1>1, <2>1 DEF SyncInv
  <2> QED BY <1>1, <2>2, InSyncKept
<1>2. ASSUME NEW w \in Worker, Receive(w) PROVE InSync(k)'
  <2>1. /\ UNCHANGED <<store, db, hist, restored>> /\ pc[w] = "idle" /\ pc'[w] = "resolve"
        /\ \A v \in Worker \ {w} : pc'[v] = pc[v] /\ env'[v] = env[v]
    BY <1>2 DEF Receive, At, Goto, TypeOK, ghosts
  <2> QED BY <1>1, <2>1 DEF Busy, KeyOf
<1>3. ASSUME NEW gone, Prune(gone, Nil), UNCHANGED <<locals, db, hist, restored>> PROVE InSync(k)'
  <2>1. store'[k] = store[k]
    BY <1>3 DEF Prune
  <2> QED BY <1>1, <1>3, <2>1 DEF Busy, KeyOf, locals
<1>4. ASSUME CronPrune \/ \E j \in Key : DeleteSession(j) PROVE InSync(k)'
  BY <1>3, <1>4 DEF CronPrune, DeleteSession
<1>5. CASE UNCHANGED <<store, db, hist, restored, pc, env>>
  BY <1>1, <1>5 DEF Busy, KeyOf
<1>6. ASSUME \/ \E j \in Key : Submit(j)
             \/ \E s \in Sess : Age(s)
             \/ Quiescent \/ UNCHANGED vars
      PROVE  InSync(k)'
  BY <1>5, <1>6 DEF Submit, Age, Quiescent, vars, locals, ghosts
<1>7. CASE Restart
  BY <1>7 DEF Restart
<1>8. ASSUME NEW w \in Worker, Execute(w) PROVE InSync(k)'
  BY <1>8, ExecuteInSync
<1> QED BY <1>2, <1>4, <1>6, <1>7, <1>8 DEF Next

\* HistoryInSync for any number of workers, keys and sessions and any length of
\* the history: the agent runs on the persisted conversation.
THEOREM HistoryKeptInSync == Spec => []HistoryInSync
<1>1. Init => SyncInv
  BY DEF Init, SyncInv, Undisturbed, Attached
<1>2. TypeOK /\ LocalInv /\ SyncInv => HistoryInSync
  <2> SUFFICES ASSUME TypeOK, LocalInv, SyncInv, NEW w \in Worker, Running(w), restored[sess[w]],
                      caveats[KeyOf(w)] \cap {"torn", "failed"} = {}
               PROVE  SameRecent(hist[sess[w]], db[KeyOf(w)])
    BY DEF HistoryInSync
  <2>1. pc[w] = "run" /\ store[KeyOf(w)] = sess[w]
    BY DEF Running, At
  <2>2. pc[w] \in Locked \ {"release"} /\ pc[w] # "idle"
    BY <2>1 DEF Locked, Attached, Points
  <2>3. KeyOf(w) \in Key
    BY <2>2, HasMessage
  <2>4. Undisturbed(KeyOf(w))
    BY <2>3 DEF SyncInv
  <2>5. /\ sess[w] \in Sess
        /\ \A v \in Worker : ~Busy(v, KeyOf(w), "delete")
        /\ \A v \in Worker \ {w} : ~Busy(v, KeyOf(w), "persist") /\ ~Busy(v, KeyOf(w), "persistReply")
    BY <2>2, <2>4, HolderInSync
  <2>6. InSync(KeyOf(w))
    BY <2>1, <2>3, <2>5, PipelineAssumption DEF SyncInv
  <2>7. ~Busy(w, KeyOf(w), "persist") /\ ~Busy(w, KeyOf(w), "persistReply")
    BY <2>1 DEF Busy
  <2>8. hist[sess[w]] = Trim(db[KeyOf(w)])
    BY <2>1, <2>3, <2>5, <2>6, <2>7, InSyncCases
  <2>9. SameRecent(Trim(db[KeyOf(w)]), db[KeyOf(w)])
    <3>1. PICK g \in Seq(Entry) : g = db[KeyOf(w)]
      BY <2>3 DEF TypeOK
    <3>2. Len(g) \in Nat /\ MaxHistoryLen \in Nat
      BY LenProperties, PipelineAssumption
    <3>3. CASE Len(g) > MaxHistoryLen
      <4>1. ~(Len(g) < MaxHistoryLen)
        BY <3>2, <3>3
      <4> QED BY <3>1, <3>3, <4>1 DEF SameRecent, Trim
    <3>4. CASE ~(Len(g) > MaxHistoryLen)
      <4>1. (IF Len(g) < MaxHistoryLen THEN Len(g) ELSE MaxHistoryLen) = Len(g) /\ Len(g) - Len(g) + 1 = 1
        BY <3>2, <3>4
      <4>2. SubSeq(g, 1, Len(g)) = g
        BY SubSeqFull
      <4> QED BY <3>1, <3>4, <4>1, <4>2 DEF SameRecent, Trim
    <3> QED BY <3>3, <3>4
  <2> QED BY <2>8, <2>9
<1> QED BY <1>1, <1>2, InitTypes, NextTypes, NextLocalInv, NextOwnInv, InitExchangeInv, NextSyncInv, PTL
        DEF Spec

-----------------------------------------------------------------------------
\* ResetForgets.

\* The step writes message i into a history of key k.
WritesNow(i, k) ==
    \E w \in Worker : /\ env[w] # Nil /\ env'[w] = env[w] /\ env[w].id = i /\ KeyOf(w) = k
                      /\ pc[w] \in Locked /\ pc'[w] \in Writing

\* Where the messages in the histories of key k come from in a step: they were
\* there, restored from the persistent history, or are being written.
Grows(k) ==
    /\ \A i \in Ids : i \in EntryIds(db'[k]) => i \in EntryIds(db[k]) \/ WritesNow(i, k)
    /\ \A s \in Sess, i \in Ids : Owns(s, k)' /\ i \in EntryIds(hist'[s]) =>
         \/ Owns(s, k) /\ (s = store'[k] => s = store[k]) /\ i \in EntryIds(hist[s])
         \/ i \in EntryIds(db[k])
         \/ WritesNow(i, k)

LEMMA NoEntries == EntryIds(<<>>) = {}
BY DEF EntryIds

\* Grows of every step.
LEMMA HistoryGrows ==
    ASSUME TypeOK, LocalInv, OwnInv, [Next]_vars, NEW k \in Key
    PROVE  Grows(k)
<1> DEFINE Kept == \A s \in Sess : Owns(s, k)' => Owns(s, k)
<1>0. Nil \notin Sess /\ DOMAIN store = Key /\ DOMAIN hist = Sess /\ DOMAIN db = Key
  BY PipelineAssumption DEF TypeOK
<1>1. ASSUME NEW w \in Worker, NEW c \in Sess, ResolveSession(w), Creates(w, c),
             \A s \in Sess : Owns(s, k)' => Owns(s, k) \/ (s = c /\ k = KeyOf(w))
      PROVE  Grows(k)
  <2>1. db' = db /\ hist'[c] = <<>> /\ \A s \in Sess : s # c => hist'[s] = hist[s]
    BY <1>0, <1>1, ResolveEffect DEF Creates
  <2>2. store'[k] = c \/ store'[k] = store[k]
    BY <1>0, <1>1 DEF Creates
  <2> QED BY <1>1, <2>1, <2>2, NoEntries DEF Grows
<1>2. ASSUME UNCHANGED <<hist, db>>, store'[k] \in {store[k], Nil}, Kept PROVE Grows(k)
  BY <1>0, <1>2 DEF Grows
<1>3. ASSUME NEW w \in Worker, ResolveSession(w) PROVE Grows(k)
  <2>1. db' = db
    BY <1>3, ResolveEffect
  <2>2. CASE UNCHANGED <<store, hist, restored>> /\ \A s \in Sess, j \in Key : Owns(s, j)' => Owns(s, j)
    BY <1>2, <2>1, <2>2
  <2> QED BY <1>1, <1>3, <2>2, ResolveOwners
<1>4. ASSUME NEW w \in Worker, NEW h \in Seq(Entry), pc[w] \in Locked, pc'[w] \in Writing, Moved(w),
             UNCHANGED <<store, db>>, hist' = [hist EXCEPT ![sess[w]] = h],
             \A i \in EntryIds(h) : \/ i \in EntryIds(hist[sess[w]]) \cup EntryIds(db[KeyOf(w)])
                                    \/ i = env[w].id,
             Kept
      PROVE  Grows(k)
  <2>1. /\ pc[w] # "idle" /\ pc[w] \in Attached /\ pc'[w] # "idle"
    BY <1>4 DEF Locked, Attached, Writing
  <2>2. /\ KeyOf(w) \in Key /\ sess[w] \in Sess /\ env[w] # Nil /\ env'[w] = env[w]
    BY <1>4, <2>1, HasMessage DEF Moved
  <2>3. Owns(sess[w], KeyOf(w))
    BY DEF Owns
  <2>4. ASSUME NEW s \in Sess, NEW i \in Ids, Owns(s, k)', i \in EntryIds(hist'[s])
        PROVE  \/ Owns(s, k) /\ (s = store'[k] => s = store[k]) /\ i \in EntryIds(hist[s])
               \/ i \in EntryIds(db[k])
               \/ WritesNow(i, k)
    <3>1. Owns(s, k) /\ store'[k] = store[k]
      BY <1>4, <2>4
    <3>2. CASE s # sess[w]
      BY <1>0, <1>4, <2>4, <3>1, <3>2
    <3>3. CASE s = sess[w]
      <4>1. k = KeyOf(w)
        BY <2>2, <2>3, <3>1, <3>3 DEF OwnInv
      <4>2. hist'[s] = h
        BY <1>0, <1>4, <3>3
      <4> QED BY <1>4, <2>2, <2>4, <3>1, <3>3, <4>1, <4>2 DEF WritesNow
    <3> QED BY <3>2, <3>3
  <2> QED BY <1>4, <2>4 DEF Grows
<1>5. ASSUME NEW w \in Worker, NEW role \in {"user", "assistant"}, Persist(w, role),
             pc[w] \in Locked, pc'[w] \in Writing, Moved(w), UNCHANGED <<store, hist>>, Kept
      PROVE  Grows(k)
  <2>1. /\ pc[w] # "idle" /\ pc'[w] # "idle"
    BY <1>5 DEF Locked, Attached, Writing
  <2>2. /\ KeyOf(w) \in Key /\ env[w] # Nil /\ env'[w] = env[w] /\ env[w].id \in Ids
    BY <1>5, <2>1, HasMessage DEF Moved
  <2>3. PICK e \in Entry : e = [role |-> role, id |-> env[w].id]
    BY <2>2 DEF Entry
  <2>4. e.id = env[w].id
    BY <2>3
  <2>5. ASSUME NEW i \in Ids, i \in EntryIds(db'[k]) PROVE i \in EntryIds(db[k]) \/ WritesNow(i, k)
    <3>1. CASE db'[k] = db[k]
      BY <2>5, <3>1
    <3>2. CASE k = KeyOf(w) /\ db'[k] = Append(db[k], e)
      <4>1. EntryIds(db'[k]) = EntryIds(db[k]) \cup {env[w].id}
        BY <2>4, <3>2, EntriesOf DEF TypeOK
      <4> QED BY <1>5, <2>2, <2>5, <3>2, <4>1 DEF WritesNow
    <3>3. \/ db' = db
          \/ db' = [db EXCEPT ![KeyOf(w)] = Append(@, e)]
      BY <1>5, <2>2, <2>3, PersistEffect
    <3> QED BY <1>0, <3>1, <3>2, <3>3
  <2> QED BY <1>5, <2>5 DEF Grows
<1>6. ASSUME NEW w \in Worker, Execute(w), Kept PROVE Grows(k)
  <2>0. Moved(w) /\ pc'[w] \in Leads(pc[w])
    BY <1>6, ExecuteMoves
  <2>1. CASE ResolveSession(w)
    BY <1>3, <2>1
  <2>2. CASE NewPurge(w)
    <3>1. /\ UNCHANGED <<store, hist>>
          /\ db' = db \/ db' = [db EXCEPT ![KeyOf(w)] = <<>>]
      BY <2>2 DEF NewPurge
    <3>2. EntryIds(db'[k]) \subseteq EntryIds(db[k])
      BY <1>0, <3>1, NoEntries
    <3> QED BY <1>6, <3>1, <3>2 DEF Grows
  <2>3. CASE NewDelete(w)
    <3>1. UNCHANGED <<hist, db>> /\ store'[k] \in {store[k], Nil}
      BY <1>0, <2>3 DEF NewDelete
    <3> QED BY <1>2, <1>6, <3>1
  <2>4. CASE AppendUser(w)
    <3>1. pc[w] = "history" /\ pc[w] \in Locked /\ pc[w] # "idle" /\ pc[w] \in Attached
      BY <2>4 DEF AppendUser, At, Locked, Attached, Points
    <3>2. PICK failed \in BOOLEAN, base \in Seq(Entry) :
             /\ base = IF created[w] /\ ~failed /\ db[KeyOf(w)] # <<>> THEN Trim(db[KeyOf(w)])
                       ELSE hist[sess[w]]
             /\ hist' = [hist EXCEPT ![sess[w]] =
                            IF pc'[w] = "persist" THEN Trim(Append(base, Asked(w))) ELSE base]
             /\ pc'[w] \in {"persist", "release"}
             /\ UNCHANGED <<store, db, forgotten>>
      BY <2>4, AppendUserEffect
    <3>3. /\ KeyOf(w) \in Key /\ sess[w] \in Sess /\ Asked(w) \in Entry
      BY <3>1, HasMessage
    <3>4. EntryIds(base) \subseteq EntryIds(hist[sess[w]]) \cup EntryIds(db[KeyOf(w)])
      <4>1. db[KeyOf(w)] \in Seq(Entry)
        BY <3>3 DEF TypeOK
      <4>2. EntryIds(Trim(db[KeyOf(w)])) \subseteq EntryIds(db[KeyOf(w)])
        BY <3>3, <4>1, EntriesOf
      <4> QED BY <3>2, <4>2
    <3>5. PICK h : h = IF pc'[w] = "persist" THEN Trim(Append(base, Asked(w))) ELSE base
      OBVIOUS
    <3>6. h \in Seq(Entry) /\ EntryIds(h) \subseteq EntryIds(base) \cup {env[w].id}
      <4>1. Append(base, Asked(w)) \in Seq(Entry)
        BY <3>3, Appended
      <4>2. Trim(Append(base, Asked(w))) \in Seq(Entry)
        BY <4>1, Trimmed
      <4>3. EntryIds(Trim(Append(base, Asked(w)))) \subseteq EntryIds(Append(base, Asked(w)))
        BY <3>3, <4>1, EntriesOf
      <4>4. EntryIds(Append(base, Asked(w))) = EntryIds(base) \cup {env[w].id}
        BY <3>3, EntriesOf DEF Asked
      <4> QED BY <3>5, <4>2, <4>3, <4>4
    <3>7. pc'[w] \in Writing
      BY <3>2 DEF Writing, Locked, Attached, Points
    <3> QED BY <1>4, <1>6, <2>0, <3>1, <3>2, <3>4, <3>5, <3>6, <3>7
  <2>5. CASE AppendAssistant(w)
    <3>1. /\ pc[w] = "finalize" /\ pc'[w] = "persistReply" /\ UNCHANGED <<store, db>>
          /\ hist' = [hist EXCEPT ![sess[w]] = Trim(Append(@, Answer(w)))]
      BY <2>5 DEF AppendAssistant, At, Goto, Answer, TypeOK
    <3>2. /\ pc[w] \in Locked /\ pc[w] # "idle" /\ pc[w] \in Attached /\ pc'[w] \in Writing
      BY <3>1 DEF Writing, Locked, Attached, Points
    <3>3. /\ KeyOf(w) \in Key /\ sess[w] \in Sess /\ Answer(w) \in Entry
      BY <3>2, HasMessage
    <3>4. PICK g \in Seq(Entry) : g = hist[sess[w]]
      BY <3>3 DEF TypeOK
    <3>5. PICK h : h = Trim(Append(g, Answer(w)))
      OBVIOUS
    <3>6. h \in Seq(Entry) /\ EntryIds(h) \subseteq EntryIds(g) \cup {env[w].id}
      <4>1. Append(g, Answer(w)) \in Seq(Entry)
        BY <3>3, Appended
      <4>2. h \in Seq(Entry)
        BY <3>5, <4>1, Trimmed
      <4>3. EntryIds(h) \subseteq EntryIds(Append(g, Answer(w)))
        BY <3>3, <3>5, <4>1, EntriesOf
      <4>4. EntryIds(Append(g, Answer(w))) = EntryIds(g) \cup {env[w].id}
        BY <3>3, EntriesOf DEF Answer
      <4> QED BY <4>2, <4>3, <4>4
    <3>7. hist' = [hist EXCEPT ![sess[w]] = h]
      BY <3>1, <3>4, <3>5
    <3> QED BY <1>4, <1>6, <2>0, <3>1, <3>2, <3>4, <3>6, <3>7
  <2>6. CASE PersistUser(w)
    <3>1. pc[w] \in Locked /\ pc'[w] \in Writing
      BY <2>6 DEF PersistUser, At, Goto, TypeOK, Writing, Locked, Attached, Points
    <3> QED BY <1>5, <1>6, <2>0, <2>6, <3>1 DEF PersistUser
  <2>7. CASE PersistAssistant(w)
    <3>1. pc[w] \in Locked /\ pc'[w] \in Writing
      BY <2>7 DEF PersistAssistant, At, Goto, TypeOK, Writing, Locked, Attached, Points
    <3> QED BY <1>5, <1>6, <2>0, <2>7, <3>1 DEF PersistAssistant
  <2>8. CASE TryPrune(w)
    BY <1>2, <1>6, <2>8 DEF TryPrune, Prune
  <2>9. CASE AcquireLane(w) \/ ResolveAgent(w) \/ RunAgent(w) \/ SendResponse(w) \/ ReleaseLane(w)
    BY <1>2, <1>6, <2>9 DEF AcquireLane, ResolveAgent, RunAgent, SendResponse, ReleaseLane
  <2> QED BY <1>6, <2>1, <2>2, <2>3, <2>4, <2>5, <2>6, <2>7, <2>8, <2>9 DEF Execute
<1>7. ASSUME Kept, CronPrune \/ \E j \in Key : DeleteSession(j) PROVE Grows(k)
  BY <1>2, <1>7 DEF CronPrune, DeleteSession, Prune
<1>8. ASSUME Kept, \/ \E j \in Key : Submit(j)
                   \/ \E w \in Worker : Receive(w)
                   \/ \E s \in Sess : Age(s)
                   \/ Quiescent \/ UNCHANGED vars
      PROVE  Grows(k)
  BY <1>2, <1>8 DEF Submit, Receive, Age, Quiescent, vars
<1>9. ASSUME Restart PROVE Grows(k)
  <2>1. db' = db /\ \A s \in Sess : hist'[s] = <<>>
    BY <1>9 DEF Restart
  <2> QED BY <2>1, NoEntries DEF Grows
<1>10. ASSUME Kept PROVE Grows(k)
  BY <1>6, <1>7, <1>8, <1>9, <1>10 DEF Next
<1> QED BY <1>1, <1>10, OwnersKept

\* What a step adds to what is forgotten of key k: the histories of k, by /new.
LEMMA ForgottenBy ==
    ASSUME TypeOK, LocalInv, [Next]_vars, NEW k \in Key
    PROVE  \/ forgotten'[k] = forgotten[k]
           \/ \E w \in Worker :
                /\ NewDelete(w) /\ KeyOf(w) = k
                /\ \A i \in forgotten'[k] :
                     \/ i \in forgotten[k] \cup EntryIds(db[k])
                     \/ store[k] # Nil /\ i \in EntryIds(hist[store[k]])
<1>1. ASSUME NEW w \in Worker, NewDelete(w)
      PROVE  \/ forgotten'[k] = forgotten[k]
             \/ /\ KeyOf(w) = k
                /\ \A i \in forgotten'[k] :
                     \/ i \in forgotten[k] \cup EntryIds(db[k])
                     \/ store[k] # Nil /\ i \in EntryIds(hist[store[k]])
  <2>1. forgotten' = [forgotten EXCEPT ![KeyOf(w)] =
                        @ \cup EntryIds(IF store[KeyOf(w)] = Nil THEN <<>> ELSE hist[store[KeyOf(w)]])
                          \cup EntryIds(db[KeyOf(w)])]
    BY <1>1 DEF NewDelete
  <2>2. CASE KeyOf(w) = k
    <3>1. forgotten'[k] = forgotten[k]
                            \cup EntryIds(IF store[k] = Nil THEN <<>> ELSE hist[store[k]])
                            \cup EntryIds(db[k])
      BY <2>1, <2>2 DEF TypeOK
    <3> QED BY <2>2, <3>1, NoEntries
  <2>3. CASE KeyOf(w) # k
    BY <2>1, <2>3 DEF TypeOK
  <2> QED BY <2>2, <2>3
<1>2. ASSUME NEW w \in Worker, Execute(w), ~NewDelete(w) PROVE forgotten'[k] = forgotten[k]
  BY <1>2 DEF Execute, ResolveSession, NewPurge, AcquireLane, ResolveAgent, AppendUser,
       PersistUser, RunAgent, SendResponse, AppendAssistant, PersistAssistant, TryPrune, ReleaseLane,
       ghosts
<1>3. ASSUME \/ \E j \in Key : Submit(j) \/ DeleteSession(j)
             \/ \E w \in Worker : Receive(w)
             \/ \E s \in Sess : Age(s)
             \/ CronPrune \/ Restart \/ Quiescent \/ UNCHANGED vars
      PROVE  forgotten'[k] = forgotten[k]
  BY <1>3 DEF Submit, DeleteSession, Receive, Age, CronPrune, Restart, Quiescent, vars, ghosts
<1>4. CASE \E w \in Worker : Execute(w)
  BY <1>1, <1>2, <1>4
<1> QED BY <1>3, <1>4 DEF Next

\* What is written after a step was written before, or is written by it.
LEMMA WrittenBy ==
    ASSUME TypeOK, LocalInv, OwnInv, [Next]_vars, NEW k \in Key, NEW i \in Ids, Written(i, k)'
    PROVE  Written(i, k) \/ WritesNow(i, k)
<1>0. Grows(k)
  BY HistoryGrows
<1>1. CASE i \in EntryIds(db'[k])
  BY <1>0, <1>1 DEF Grows, Written
<1>2. CASE i \in forgotten'[k]
  <2>1. store[k] # Nil => store[k] \in Sess /\ Owns(store[k], k)
    BY DEF TypeOK, Owns
  <2> QED BY <1>2, <2>1, ForgottenBy DEF Written
<1>3. ASSUME NEW s \in Sess, Owns(s, k)', i \in EntryIds(hist'[s])
      PROVE  Written(i, k) \/ WritesNow(i, k)
  BY <1>0, <1>3 DEF Grows, Written
<1>4. \/ i \in EntryIds(db'[k]) \cup forgotten'[k]
      \/ \E s \in Sess : Owns(s, k)' /\ i \in EntryIds(hist'[s])
  BY DEF Written, EntryIds
<1> QED BY <1>1, <1>2, <1>3, <1>4

\* Every step keeps WrittenInv.
LEMMA NextWrittenInv ==
    TypeOK /\ LocalInv /\ SettleInv /\ OwnInv /\ WrittenInv /\ [Next]_vars => WrittenInv'
<1> SUFFICES ASSUME TypeOK, LocalInv, SettleInv, OwnInv, WrittenInv, [Next]_vars,
                    NEW k \in Key, NEW i \in Ids, Written(i, k)'
             PROVE  /\ i < nextId'
                    /\ \A j \in DOMAIN inbox' : inbox'[j].id # i
                    /\ \A w \in Worker : env'[w] # Nil /\ env'[w].id = i =>
                         KeyOf(w)' = k /\ pc'[w] \in Writing
  BY DEF WrittenInv
<1> DEFINE Goal == /\ i < nextId'
                   /\ \A j \in DOMAIN inbox' : inbox'[j].id # i
                   /\ \A w \in Worker : env'[w] # Nil /\ env'[w].id = i =>
                        KeyOf(w)' = k /\ pc'[w] \in Writing
           Safe == /\ i < nextId
                   /\ \A j \in DOMAIN inbox : inbox[j].id # i
                   /\ \A w \in Worker : env[w] # Nil /\ env[w].id = i =>
                        KeyOf(w) = k /\ pc[w] \in Writing
<1>1. Safe \/ WritesNow(i, k)
  BY WrittenBy DEF WrittenInv
<1>2. i < nextId /\ (\A j \in DOMAIN inbox : inbox[j].id # i)
  BY <1>1 DEF SettleInv, WritesNow
<1>3. ASSUME NEW w \in Worker, Execute(w) PROVE Goal
  <2>1. Moved(w) /\ pc'[w] \in Leads(pc[w]) /\ pc[w] \in Points
    BY <1>3, ExecuteMoves DEF TypeOK
  <2>2. nextId' = nextId /\ inbox' = inbox
    BY <2>1 DEF Moved
  <2>3. ASSUME NEW v \in Worker, env'[v] # Nil, env'[v].id = i PROVE KeyOf(v)' = k /\ pc'[v] \in Writing
    <3>1. env'[v] = env[v]
      BY <2>1, <2>3 DEF Moved
    <3>2. CASE Safe
      <4>1. KeyOf(v) = k /\ pc[v] \in Writing
        BY <2>3, <3>1, <3>2
      <4>2. v # w => pc'[v] = pc[v]
        BY <2>1 DEF Moved
      <4>3. v = w => pc'[v] \in Writing
        <5>1. v = w => pc'[v] # "idle"
          BY <2>1, <2>3 DEF Moved
        <5> QED BY <2>1, <4>1, <5>1 DEF Leads, Writing, Locked, Attached, Points
      <4> QED BY <3>1, <4>1, <4>2, <4>3 DEF KeyOf
    <3>3. CASE WritesNow(i, k)
      <4>1. PICK u \in Worker : /\ env[u] # Nil /\ env[u].id = i /\ KeyOf(u) = k /\ pc'[u] \in Writing
        BY <3>3 DEF WritesNow
      <4>2. v = u
        BY <2>3, <3>1, <4>1 DEF SettleInv
      <4> QED BY <3>1, <4>1, <4>2 DEF KeyOf
    <3> QED BY <1>1, <3>2, <3>3
  <2> QED BY <1>2, <2>2, <2>3
<1>4. ASSUME WritesNow(i, k), UNCHANGED pc PROVE Safe
  <2>1. PICK u \in Worker : /\ env[u] # Nil /\ env[u].id = i /\ KeyOf(u) = k /\ pc'[u] \in Writing
    BY <1>4 DEF WritesNow
  <2> QED BY <1>2, <1>4, <2>1 DEF SettleInv
<1>5. ASSUME NEW w \in Worker, Receive(w) PROVE Goal
  <2>1. /\ inbox # <<>> /\ env'[w] = Head(inbox) /\ inbox' = Tail(inbox) /\ nextId' = nextId
        /\ pc[w] = "idle" /\ pc'[w] = "resolve"
        /\ \A v \in Worker \ {w} : pc'[v] = pc[v] /\ env'[v] = env[v]
    BY <1>5 DEF Receive, At, Goto, TypeOK
  <2>2. inbox \in Seq(Msg)
    BY DEF TypeOK
  <2>3. /\ Len(inbox) \in Nat /\ Len(inbox) # 0 /\ Head(inbox) = inbox[1]
        /\ DOMAIN inbox = 1..Len(inbox)
    BY <2>1, <2>2, LenProperties, EmptySeq
  <2>4. /\ Tail(inbox) \in Seq(Msg) /\ Len(Tail(inbox)) = Len(inbox) - 1
        /\ \A j \in 1..Len(Tail(inbox)) : Tail(inbox)[j] = inbox[j + 1]
        /\ DOMAIN Tail(inbox) = 1..Len(Tail(inbox))
    BY <2>1, <2>2, HeadTailProperties, LenProperties
  <2>5. 1 \in DOMAIN inbox /\ \A j \in 1..Len(Tail(inbox)) : j + 1 \in DOMAIN inbox
    BY <2>3, <2>4
  <2>6. env'[w].id # i
    BY <1>2, <2>1, <2>3, <2>5
  <2>7. Safe
    <3>1. WritesNow(i, k) => Safe
      <4> SUFFICES ASSUME WritesNow(i, k) PROVE Safe
        OBVIOUS
      <4>1. PICK u \in Worker : /\ env[u] # Nil /\ env'[u] = env[u] /\ env[u].id = i /\ KeyOf(u) = k
                                /\ pc'[u] \in Writing
        BY DEF WritesNow
      <4>2. u # w
        BY <2>6, <4>1
      <4> QED BY <1>2, <2>1, <4>1, <4>2 DEF SettleInv
    <3> QED BY <1>1, <3>1
  <2>8. \A v \in Worker : env'[v] # Nil /\ env'[v].id = i => KeyOf(v)' = k /\ pc'[v] \in Writing
    BY <2>1, <2>6, <2>7 DEF KeyOf
  <2>9. \A j \in DOMAIN inbox' : inbox'[j].id # i
    BY <1>2, <2>1, <2>4, <2>5
  <2> QED BY <1>2, <2>1, <2>8, <2>9
<1>6. ASSUME NEW j \in Key, Submit(j) PROVE Goal
  <2>1. UNCHANGED <<pc, env>> /\ nextId' = nextId + 1
    BY <1>6 DEF Submit, locals
  <2>2. nextId \in Nat /\ i \in Nat /\ inbox \in Seq(Msg) /\ nextId \in Ids
    BY <1>6, PipelineAssumption DEF TypeOK, Ids, Submit
  <2>3. [id |-> nextId, key |-> j] \in Msg
    BY <2>2 DEF Msg
  <2>4. \A n \in DOMAIN inbox' : inbox'[n].id # i
    <3>1. CASE inbox' = inbox
      BY <1>2, <3>1
    <3>2. CASE inbox' = Append(inbox, [id |-> nextId, key |-> j])
      <4>1. PICK e \in Msg : e = [id |-> nextId, key |-> j]
        BY <2>3
      <4>2. /\ DOMAIN inbox = 1..Len(inbox) /\ DOMAIN inbox' = 1..(Len(inbox) + 1) /\ Len(inbox) \in Nat
            /\ \A n \in 1..Len(inbox) : inbox'[n] = inbox[n]
            /\ inbox'[Len(inbox) + 1] = e
        BY <2>2, <3>2, <4>1, Appended
      <4>3. \A n \in 1..(Len(inbox) + 1) : n \in 1..Len(inbox) \/ n = Len(inbox) + 1
        BY <4>2
      <4>4. e.id # i
        BY <1>2, <2>2, <4>1
      <4> QED BY <1>2, <4>2, <4>3, <4>4
    <3> QED BY <1>6, <3>1, <3>2 DEF Submit
  <2>5. i < nextId'
    BY <1>2, <2>1, <2>2
  <2>6. Safe
    BY <1>1, <1>4, <2>1
  <2> QED BY <2>1, <2>4, <2>5, <2>6 DEF KeyOf
<1>7. CASE UNCHANGED <<pc, env, inbox, nextId>>
  BY <1>1, <1>4, <1>7 DEF KeyOf
<1>8. CASE Restart
  <2>1. inbox' = <<>> /\ nextId' = nextId /\ \A w \in Worker : env'[w] = Nil
    BY <1>8 DEF Restart
  <2> QED BY <1>2, <2>1
<1>9. ASSUME \/ \E j \in Key : DeleteSession(j)
             \/ \E s \in Sess : Age(s)
             \/ CronPrune \/ Quiescent \/ UNCHANGED vars
      PROVE  UNCHANGED <<pc, env, inbox, nextId>>
  BY <1>9 DEF DeleteSession, Age, CronPrune, Quiescent, vars, locals
<1> QED BY <1>3, <1>5, <1>6, <1>7, <1>8, <1>9 DEF Next

\* Every step keeps ForgetInv.
LEMMA NextForgetInv ==
    ASSUME TypeOK, LocalInv, SettleInv, OwnInv, SyncInv, WrittenInv, ForgetInv, [Next]_vars
    PROVE  ForgetInv'
<1> SUFFICES ASSUME NEW k \in Key, caveats'[k] = {}
             PROVE  /\ EntryIds(db'[k]) \cap forgotten'[k] = {}
                    /\ store'[k] # Nil => EntryIds(hist'[store'[k]]) \cap forgotten'[k] = {}
                    /\ \A w \in Worker : env'[w] # Nil /\ KeyOf(w)' = k =>
                         /\ env'[w].id \notin forgotten'[k]
                         /\ pc'[w] = "delete" => db'[k] = <<>>
  BY DEF ForgetInv, EntryIds
<1>0. caveats[k] = {}
  BY CaveatsGrow
<1>1. /\ EntryIds(db[k]) \cap forgotten[k] = {}
      /\ store[k] # Nil => EntryIds(hist[store[k]]) \cap forgotten[k] = {}
      /\ \A w \in Worker : env[w] # Nil /\ KeyOf(w) = k =>
           /\ env[w].id \notin forgotten[k]
           /\ pc[w] = "delete" => db[k] = <<>>
  BY <1>0 DEF ForgetInv
<1>2. Undisturbed(k)
  BY <1>0 DEF SyncInv
<1>3. TypeOK'
  BY NextTypes
<1>4. ASSUME NEW w \in Worker, NewDelete(w), KeyOf(w) = k,
             \A i \in forgotten'[k] : \/ i \in forgotten[k] \cup EntryIds(db[k])
                                      \/ store[k] # Nil /\ i \in EntryIds(hist[store[k]])
      PROVE  /\ EntryIds(db'[k]) \cap forgotten'[k] = {}
             /\ store'[k] # Nil => EntryIds(hist'[store'[k]]) \cap forgotten'[k] = {}
             /\ \A v \in Worker : env'[v] # Nil /\ KeyOf(v)' = k =>
                  /\ env'[v].id \notin forgotten'[k]
                  /\ pc'[v] = "delete" => db'[k] = <<>>
  <2>1. pc[w] = "delete" /\ pc[w] # "idle" /\ pc[w] \in Attached /\ db' = db
    BY <1>4 DEF NewDelete, At, Attached, Points
  <2>2. env[w] # Nil
    BY <2>1, HasMessage
  <2>3. db[k] = <<>>
    BY <1>1, <1>4, <2>1, <2>2
  <2>4. store'[k] = Nil
    BY <1>4 DEF NewDelete, TypeOK
  <2>5. env'[w] = Nil /\ \A v \in Worker \ {w} : env'[v] = env[v]
    BY <1>4 DEF NewDelete, Return, TypeOK
  <2>6. ASSUME NEW v \in Worker, env'[v] # Nil, KeyOf(v)' = k PROVE env'[v].id \notin forgotten'[k]
    <3>1. v # w /\ env'[v] = env[v] /\ KeyOf(v) = k
      BY <2>5, <2>6 DEF KeyOf
    <3>2. pc[v] \notin Attached
      BY <1>2, <1>4, <2>1, <3>1 DEF Undisturbed
    <3>3. pc[v] \notin Writing /\ pc[v] # "idle"
      BY <2>6, <3>1, <3>2 DEF Writing, Locked, LocalInv
    <3>4. env[v].id \in Ids
      BY <3>3, HasMessage
    <3>5. ~Written(env[v].id, k)
      BY <2>6, <3>1, <3>3, <3>4 DEF WrittenInv
    <3>6. store[k] # Nil => store[k] \in Sess /\ Owns(store[k], k)
      BY DEF TypeOK, Owns
    <3> QED BY <1>4, <3>1, <3>5, <3>6 DEF Written
  <2> QED BY <2>1, <2>3, <2>4, <2>6, NoEntries
<1>5. ASSUME forgotten'[k] = forgotten[k]
      PROVE  /\ EntryIds(db'[k]) \cap forgotten'[k] = {}
             /\ store'[k] # Nil => EntryIds(hist'[store'[k]]) \cap forgotten'[k] = {}
  <2>1. Grows(k) /\ forgotten[k] \subseteq Ids
    BY HistoryGrows DEF TypeOK
  <2>2. \A i : WritesNow(i, k) => i \notin forgotten[k]
    BY <1>1 DEF WritesNow
  <2>3. EntryIds(db'[k]) \cap forgotten'[k] = {}
    BY <1>1, <1>5, <2>1, <2>2 DEF Grows
  <2>4. ASSUME store'[k] # Nil PROVE EntryIds(hist'[store'[k]]) \cap forgotten'[k] = {}
    <3>1. PICK s \in Sess : s = store'[k]
      BY <1>3, <2>4 DEF TypeOK
    <3>2. Owns(s, k)'
      BY <3>1 DEF Owns
    <3>3. ASSUME NEW i \in Ids, i \in EntryIds(hist'[s]) PROVE i \notin forgotten[k]
      <4>1. \/ s = store[k] /\ i \in EntryIds(hist[s])
            \/ i \in EntryIds(db[k])
            \/ WritesNow(i, k)
        BY <2>1, <3>1, <3>2, <3>3 DEF Grows
      <4> QED BY <1>1, <2>2, <2>4, <3>1, <4>1
    <3> QED BY <1>5, <2>1, <3>1, <3>3
  <2> QED BY <2>3, <2>4
<1>6. ASSUME NEW v \in Worker, env'[v] # Nil, KeyOf(v)' = k PROVE env'[v].id \notin forgotten[k]
  <2>1. CASE env'[v] = env[v]
    BY <1>1, <1>6, <2>1 DEF KeyOf
  <2>2. ASSUME Receive(v) PROVE env'[v].id \notin forgotten[k]
    <3>1. env'[v] = Head(inbox) /\ inbox # <<>> /\ inbox \in Seq(Msg)
      BY <2>2 DEF Receive, TypeOK
    <3>2. Head(inbox) = inbox[1] /\ 1 \in DOMAIN inbox /\ inbox[1] \in Msg
      BY <3>1, LenProperties, EmptySeq
    <3>3. inbox[1].id \in Ids
      BY <3>2 DEF Msg
    <3>4. ~Written(inbox[1].id, k)
      BY <3>2, <3>3 DEF WrittenInv
    <3> QED BY <3>1, <3>2, <3>4 DEF Written
  <2>3. ASSUME NEW w \in Worker, Execute(w) PROVE env'[v] = env[v]
    <3>1. Moved(w)
      BY <2>3, ExecuteMoves
    <3> QED BY <1>6, <3>1 DEF Moved
  <2>4. ASSUME NEW w \in Worker, Receive(w), w # v PROVE env'[v] = env[v]
    BY <2>4 DEF Receive, TypeOK
  <2>5. CASE Restart
    BY <1>6, <2>5 DEF Restart
  <2>6. ASSUME \/ \E j \in Key : Submit(j) \/ DeleteSession(j)
               \/ \E s \in Sess : Age(s)
               \/ CronPrune \/ Quiescent \/ UNCHANGED vars
        PROVE  env'[v] = env[v]
    BY <2>6 DEF Submit, DeleteSession, Age, CronPrune, Quiescent, vars, locals
  <2> QED BY <2>1, <2>2, <2>3, <2>4, <2>5, <2>6 DEF Next
<1>7. ASSUME NEW v \in Worker, env'[v] # Nil, KeyOf(v)' = k, pc'[v] = "delete" PROVE db'[k] = <<>>
  <2>1. ASSUME pc[v] = "delete", env'[v] = env[v], db'[k] # db[k] PROVE FALSE
    <3>1. KeyOf(v) = k /\ pc[v] \in Attached /\ db[k] = <<>>
      BY <1>1, <1>7, <2>1 DEF KeyOf, Attached, Points
    <3>2. ASSUME NEW w \in Worker, PersistUser(w) \/ PersistAssistant(w) PROVE FALSE
      <4>1. pc[w] \in {"persist", "persistReply"} /\ Persist(w, IF pc[w] = "persist" THEN "user" ELSE "assistant")
        BY <3>2 DEF PersistUser, PersistAssistant, At
      <4>2. pc[w] \in Attached /\ pc[w] # "idle" /\ w # v
        BY <2>1, <4>1 DEF Attached, Points
      <4>3. KeyOf(w) \in Key
        BY <4>2, HasMessage
      <4>4. KeyOf(w) = k
        BY <2>1, <4>1, <4>3, PersistEffect
      <4> QED BY <1>2, <2>1, <3>1, <4>2, <4>4 DEF Undisturbed
    <3>3. ASSUME NEW w \in Worker, NewPurge(w) PROVE FALSE
      <4>1. pc[w] = "purge" /\ (db' = db \/ db' = [db EXCEPT ![KeyOf(w)] = <<>>])
        BY <3>3 DEF NewPurge, At
      <4> QED BY <2>1, <3>1, <4>1 DEF TypeOK
    <3>4. ASSUME NEW w \in Worker, Execute(w) PROVE FALSE
      <4>1. CASE \/ ResolveSession(w) \/ NewDelete(w) \/ AcquireLane(w) \/ ResolveAgent(w) \/ AppendUser(w)
                 \/ RunAgent(w) \/ SendResponse(w) \/ AppendAssistant(w) \/ TryPrune(w) \/ ReleaseLane(w)
        BY <2>1, <4>1 DEF ResolveSession, NewDelete, AcquireLane, ResolveAgent, AppendUser,
                          RunAgent, SendResponse, AppendAssistant, TryPrune, ReleaseLane
      <4> QED BY <3>2, <3>3, <3>4, <4>1 DEF Execute
    <3>5. db' = db \/ \E w \in Worker : Execute(w)
      BY DEF Next, Submit, Receive, DeleteSession, Age, CronPrune, Restart, Quiescent, vars
    <3> QED BY <2>1, <3>4, <3>5
  <2>2. ASSUME pc[v] = "delete", env'[v] = env[v] PROVE db'[k] = <<>>
    BY <1>1, <1>7, <2>1, <2>2 DEF KeyOf
  <2>3. ASSUME NewPurge(v) PROVE db'[k] = <<>>
    <3>1. pc[v] = "purge" /\ env' = env /\ KeyOf(v) = k /\ DOMAIN db = Key /\ DOMAIN caveats = Key
      BY <1>7, <2>3 DEF NewPurge, At, KeyOf, TypeOK
    <3>2. ASSUME NEW c, NEW b \in BOOLEAN, Note(k, c, b) PROVE ~b
      BY <1>7, <3>1, <3>2 DEF Note
    <3>3. CASE agent[sess[v]]
      <4>1. PICK failed \in MayFail("store") :
                   /\ db' = IF failed THEN db ELSE [db EXCEPT ![k] = <<>>]
                   /\ Note(k, "failed", failed)
        BY <2>3, <3>1, <3>3 DEF NewPurge
      <4>2. failed \in BOOLEAN
        BY DEF MayFail
      <4>3. ~failed
        BY <3>2, <4>1, <4>2
      <4> QED BY <3>1, <4>1, <4>3
    <3>4. CASE ~agent[sess[v]]
      <4>1. db' = db /\ Note(k, "unpurged", db[k] # <<>>)
        BY <2>3, <3>1, <3>4 DEF NewPurge
      <4>2. ~(db[k] # <<>>)
        BY <3>2, <4>1
      <4> QED BY <4>1, <4>2
    <3> QED BY <3>3, <3>4
  <2>4. ASSUME NEW w \in Worker, Execute(w), ~NewPurge(v) PROVE pc[v] = "delete" /\ env'[v] = env[v]
    <3>1. Moved(w) /\ pc'[w] \in Leads(pc[w]) /\ pc[w] \in Points
      BY <2>4, ExecuteMoves DEF TypeOK
    <3>2. CASE v # w
      BY <1>7, <3>1, <3>2 DEF Moved
    <3>3. CASE v = w
      <4>1. pc[w] = "purge"
        BY <1>7, <3>1, <3>3 DEF Leads, Points
      <4> QED BY <2>4, <3>3, <4>1 DEF Execute, At, ResolveSession, NewDelete, AcquireLane, ResolveAgent,
                AppendUser, PersistUser, RunAgent, SendResponse, AppendAssistant, PersistAssistant,
                TryPrune, ReleaseLane
    <3> QED BY <3>2, <3>3
  <2>5. ASSUME NEW w \in Worker, Receive(w) PROVE pc[v] = "delete" /\ env'[v] = env[v]
    BY <1>7, <2>5 DEF Receive, Goto, TypeOK
  <2>6. ASSUME \/ \E j \in Key : Submit(j) \/ DeleteSession(j)
               \/ \E s \in Sess : Age(s)
               \/ CronPrune \/ Quiescent \/ UNCHANGED vars
        PROVE  pc[v] = "delete" /\ env'[v] = env[v]
    BY <1>7, <2>6 DEF Submit, DeleteSession, Age, CronPrune, Quiescent, vars, locals
  <2>7. CASE Restart
    BY <1>7, <2>7 DEF Restart
  <2> QED BY <2>2, <2>3, <2>4, <2>5, <2>6, <2>7 DEF Next
<1>8. CASE forgotten'[k] = forgotten[k]
  BY <1>5, <1>6, <1>7, <1>8
<1> QED BY <1>4, <1>8, ForgottenBy

\* ResetForgets for any number of workers, keys and sessions: after a /new that
\* met no other worker on the session and whose purge took place, the agent of
\* the key never sees what was said before, whatever restarts, prunes and other
\* messages come in between.
THEOREM ResetsForget == Spec => []ResetForgets
<1>1. Init => SyncInv /\ WrittenInv /\ ForgetInv
  <2> SUFFICES ASSUME Init PROVE SyncInv /\ WrittenInv /\ ForgetInv
    OBVIOUS
  <2>1. SyncInv
    BY DEF Init, SyncInv, Undisturbed, Attached
  <2>2. \A k \in Key : EntryIds(db[k]) = {} /\ forgotten[k] = {}
    BY NoEntries DEF Init
  <2>3. \A s \in Sess : EntryIds(hist[s]) = {}
    BY NoEntries DEF Init
  <2>4. \A w \in Worker : env[w] = Nil
    BY DEF Init
  <2> QED BY <2>1, <2>2, <2>3, <2>4 DEF WrittenInv, Written, ForgetInv
<1>2. TypeOK /\ LocalInv /\ ForgetInv => ResetForgets
  <2> SUFFICES ASSUME TypeOK, LocalInv, ForgetInv, NEW w \in Worker, Running(w), caveats[KeyOf(w)] = {}
               PROVE  Forgets(w)
    BY DEF ResetForgets
  <2>1. pc[w] = "run" /\ store[KeyOf(w)] = sess[w] /\ pc[w] # "idle" /\ pc[w] \in Attached
    BY DEF Running, At, Attached, Points
  <2>2. KeyOf(w) \in Key /\ sess[w] \in Sess
    BY <2>1, HasMessage
  <2> QED BY <2>1, <2>2, PipelineAssumption DEF ForgetInv, Forgets
<1>3. Init => SettleInv
  BY EmptySeq DEF Init, SettleInv, Ids
<1> QED BY <1>1, <1>2, <1>3, InitTypes, NextTypes, NextLocalInv, NextSettleInv, NextOwnInv, InitExchangeInv,
           NextSyncInv, NextWrittenInv, NextForgetInv, PTL
        DEF Spec

=============================================================================
