--------------------------- MODULE ProjectorProofs ----------------------------
(***************************************************************************)
(* Proofs about Projector, for any numbers of projectors, events and       *)
(* faults, any limit, and either kind of KeyValueStore.                    *)
(***************************************************************************)
EXTENDS Projector, LogProofs

Event == [kind : {"Selected", "Skipped"}, number : Nat]

Log == Seq(StoredEvent({"stream"}, Event))

(***************************************************************************)
(* The state lists the selected events among the first n records.          *)
(***************************************************************************)
lists(log, state, n) ==
    /\ state \in Seq(Event)
    /\ Len(state) = Cardinality(selectedUpTo(log, n))
    /\ \A i \in selectedUpTo(log, n) :
          state[Cardinality(selectedUpTo(log, i))] = log[i].event

faithful(log, c) ==
    /\ c.lastEventStoreSequenceNumber \in 0 .. Len(log)
    /\ lists(log, c.state, c.lastEventStoreSequenceNumber)

\* What a projector that is about to save has read since the checkpoint it holds.
readOn(p) ==
    checkpoint[p].lastEventStoreSequenceNumber > held[p].value.lastEventStoreSequenceNumber

(***************************************************************************)
(* Over a KeyValueStore that answers at once, nobody holds a version that  *)
(* was not stored, two values of one version are the same, and a projector *)
(* inside save still is at the version it found.                           *)
(***************************************************************************)
inTurn ==
    /\ \A p \in Projectors : held[p].version <= loaded.version
    /\ \A p \in Projectors : held[p].version = loaded.version => held[p].value = loaded.value
    /\ \A p \in Projectors : pc[p] = "saving" => held[p].version = loaded.version
    /\ \A p, q \in Projectors : pc[p] = "saving" /\ pc[q] = "saving" => p = q

(***************************************************************************)
(* The inductive invariant.                                                *)
(***************************************************************************)
PInv ==
    /\ records \in Log
    /\ \A i \in DOMAIN records : records[i].eventStoreSequenceNumber = i
    /\ pc \in [Projectors -> {"idle", "loaded", "read", "saving"}]
    /\ DOMAIN held = Projectors /\ DOMAIN checkpoint = Projectors
    /\ loaded.version \in Nat /\ faithful(records, loaded.value)
    /\ \A p \in Projectors :
          /\ held[p].version \in Nat
          /\ faithful(records, held[p].value)
          /\ faithful(records, checkpoint[p])
          /\ pc[p] \in {"read", "saving"} => readOn(p)
    /\ keyValueStore = "at once" => inTurn

-----------------------------------------------------------------------------
\* The events of a log.
LEMMA EventType ==
    ASSUME NEW log \in Log, NEW n \in 1 .. Len(log)
    PROVE  log[n].event \in Event
<1>1. log[n] \in StoredEvent({"stream"}, Event)
  BY DEF Log
<1> QED BY <1>1 DEF StoredEvent

(***************************************************************************)
(* How many events are selected grows with the log, and by one for each    *)
(* selected one.                                                           *)
(***************************************************************************)
LEMMA SelectedCount ==
    ASSUME NEW log, NEW n \in Nat
    PROVE  /\ IsFiniteSet(selectedUpTo(log, n))
           /\ Cardinality(selectedUpTo(log, n)) \in Nat
           /\ \A i \in selectedUpTo(log, n) :
                 Cardinality(selectedUpTo(log, i)) \in 1 .. Cardinality(selectedUpTo(log, n))
<1> DEFINE S(k) == selectedUpTo(log, k)
<1>1. ASSUME NEW k \in Nat PROVE IsFiniteSet(S(k)) /\ Cardinality(S(k)) \in Nat
  <2>1. S(k) \subseteq 1 .. k
    BY DEF selectedUpTo
  <2>2. IsFiniteSet(S(k))
    BY <2>1, FS_Interval, FS_Subset
  <2> QED BY <2>2, FS_CardinalityType
<1>2. ASSUME NEW i \in S(n) PROVE Cardinality(S(i)) \in 1 .. Cardinality(S(n))
  <2>1. i \in Nat /\ i \in S(i) /\ S(i) \subseteq S(n)
    BY DEF selectedUpTo
  <2> HIDE DEF S
  <2>2. Cardinality(S(i)) <= Cardinality(S(n))
    BY <1>1, <2>1, FS_Subset
  <2>3. Cardinality(S(i)) # 0
    BY <1>1, <2>1, FS_EmptySet
  <2> QED BY <1>1, <2>1, <2>2, <2>3
<1> QED BY <1>1, <1>2

LEMMA SelectedNext ==
    ASSUME NEW log, NEW n \in Nat, n # 0
    PROVE  /\ matchesProjection(log[n].event) =>
                 /\ selectedUpTo(log, n) = selectedUpTo(log, n - 1) \cup {n}
                 /\ Cardinality(selectedUpTo(log, n)) = Cardinality(selectedUpTo(log, n - 1)) + 1
           /\ ~ matchesProjection(log[n].event) =>
                 selectedUpTo(log, n) = selectedUpTo(log, n - 1)
<1> DEFINE before == selectedUpTo(log, n - 1)
<1>1. n - 1 \in Nat /\ n \notin before
  BY DEF selectedUpTo
<1>2. IsFiniteSet(before)
  BY <1>1, SelectedCount
<1>3. CASE matchesProjection(log[n].event)
  <2>1. selectedUpTo(log, n) = before \cup {n}
    BY <1>3 DEF selectedUpTo
  <2> HIDE DEF before
  <2>2. Cardinality(before \cup {n}) = Cardinality(before) + 1
    BY <1>1, <1>2, FS_AddElement
  <2> QED BY <1>3, <2>1, <2>2 DEF before
<1>4. CASE ~ matchesProjection(log[n].event)
  <2>1. selectedUpTo(log, n) = before
    BY <1>4 DEF selectedUpTo
  <2> QED BY <1>4, <2>1
<1> QED BY <1>3, <1>4

\* What a record does to the state, if it is delivered.
projected(log, n, state) ==
    IF matchesProjection(log[n].event) THEN Append(state, log[n].event) ELSE state

(***************************************************************************)
(* A record that is delivered next keeps the list complete.                *)
(***************************************************************************)
LEMMA ListsNext ==
    ASSUME NEW log \in Log, NEW n \in 1 .. Len(log), NEW state, lists(log, state, n - 1)
    PROVE  lists(log, projected(log, n, state), n)
<1> DEFINE e == log[n].event
           C(k) == Cardinality(selectedUpTo(log, k))
           later == projected(log, n, state)
<1>1. n \in Nat /\ n # 0 /\ n - 1 \in Nat /\ e \in Event
  BY EventType DEF Log
<1>2. /\ state \in Seq(Event) /\ Len(state) = C(n - 1) /\ C(n - 1) \in Nat
      /\ \A i \in selectedUpTo(log, n - 1) : state[C(i)] = log[i].event
      /\ \A i \in selectedUpTo(log, n - 1) : C(i) \in 1 .. C(n - 1)
  BY <1>1, SelectedCount DEF lists
<1> HIDE DEF C, e, later
<1>3. CASE matchesProjection(e)
  <2>1. /\ selectedUpTo(log, n) = selectedUpTo(log, n - 1) \cup {n}
        /\ C(n) = C(n - 1) + 1
    BY <1>1, <1>3, SelectedNext DEF C, e
  <2>2. later = Append(state, e)
    BY <1>3 DEF later, projected, e
  <2>3. /\ later \in Seq(Event) /\ Len(later) = C(n - 1) + 1
        /\ \A i \in 1 .. C(n - 1) : later[i] = state[i]
        /\ later[C(n - 1) + 1] = e
    BY <1>1, <1>2, <2>2, AppendProperties
  <2>4. ASSUME NEW i \in selectedUpTo(log, n) PROVE later[C(i)] = log[i].event
    <3>1. CASE i = n
      BY <2>1, <2>3, <3>1 DEF e
    <3>2. CASE i # n
      BY <1>2, <2>1, <2>3, <3>2
    <3> QED BY <3>1, <3>2
  <2> QED BY <2>1, <2>3, <2>4 DEF lists, C, later
<1>4. CASE ~ matchesProjection(e)
  <2>1. selectedUpTo(log, n) = selectedUpTo(log, n - 1) /\ later = state
    BY <1>1, <1>4, SelectedNext DEF later, projected, e
  <2> QED BY <1>2, <2>1 DEF lists, C, later
<1> QED BY <1>3, <1>4

\* A log that grows leaves the lists of its beginning as they are.
LEMMA ListsKept ==
    ASSUME NEW log, NEW longer, NEW n \in Nat, NEW state, lists(log, state, n),
           \A i \in 1 .. n : longer[i] = log[i]
    PROVE  lists(longer, state, n)
<1>1. ASSUME NEW k \in 0 .. n PROVE selectedUpTo(longer, k) = selectedUpTo(log, k)
  BY DEF selectedUpTo
<1>2. selectedUpTo(longer, n) = selectedUpTo(log, n)
  BY <1>1
<1>3. ASSUME NEW i \in selectedUpTo(longer, n)
      PROVE  /\ selectedUpTo(longer, i) = selectedUpTo(log, i)
             /\ longer[i].event = log[i].event
  <2>1. i \in 1 .. n /\ i \in 0 .. n
    BY DEF selectedUpTo
  <2> QED BY <1>1, <2>1
<1> QED BY <1>2, <1>3 DEF lists

LEMMA FaithfulKept ==
    ASSUME NEW log, Len(log) \in Nat, NEW longer, Len(longer) \in Nat, Len(log) <= Len(longer),
           \A i \in 1 .. Len(log) : longer[i] = log[i],
           NEW c, faithful(log, c)
    PROVE  faithful(longer, c)
<1> DEFINE n == c.lastEventStoreSequenceNumber
<1>1. n \in Nat /\ n <= Len(log) /\ lists(log, c.state, n)
  BY DEF faithful
<1>2. \A i \in 1 .. n : longer[i] = log[i]
  BY <1>1
<1>3. lists(longer, c.state, n)
  BY <1>1, <1>2, ListsKept
<1> QED BY <1>1, <1>3 DEF faithful

-----------------------------------------------------------------------------
\* What record n of the log does to the state replayed so far.
deliver(log, kept, n, before) ==
    IF n \in kept THEN projected(log, n, before) ELSE before

isProjection(f, state, log, kept, N) ==
    f = [n \in 0 .. N |-> IF n = 0 THEN state ELSE deliver(log, kept, n, f[n - 1])]

LEMMA ProjectionExists ==
    ASSUME NEW state, NEW log, NEW kept, NEW N \in Nat
    PROVE  \E f : isProjection(f, state, log, kept, N)
<1> DEFINE Done == {n \in 0 .. N : \E f : isProjection(f, state, log, kept, n)}
<1>1. 0 \in Done
  <2>1. isProjection([n \in 0 .. 0 |-> state], state, log, kept, 0)
    BY DEF isProjection
  <2> QED BY <2>1
<1>2. ASSUME NEW m \in 1 .. N, m - 1 \in Done PROVE m \in Done
  <2>1. PICK f : isProjection(f, state, log, kept, m - 1)
    BY <1>2
  <2> DEFINE g == [n \in 0 .. m |-> IF n = m THEN deliver(log, kept, m, f[m - 1]) ELSE f[n]]
  <2>2. ASSUME NEW n \in 0 .. m
        PROVE  g[n] = IF n = 0 THEN state ELSE deliver(log, kept, n, g[n - 1])
    <3>1. CASE n = m
      <4>1. g[n] = deliver(log, kept, m, f[m - 1]) /\ g[n - 1] = f[m - 1]
        BY <3>1
      <4> QED BY <3>1, <4>1
    <3>2. CASE n # m
      <4>1. n \in 0 .. (m - 1) /\ g[n] = f[n]
        BY <3>2
      <4>2. n # 0 => n - 1 \in 0 .. m /\ n - 1 # m /\ g[n - 1] = f[n - 1]
        BY <4>1
      <4>3. f[n] = IF n = 0 THEN state ELSE deliver(log, kept, n, f[n - 1])
        BY <2>1, <4>1 DEF isProjection
      <4> QED BY <4>1, <4>2, <4>3
    <3> QED BY <3>1, <3>2
  <2>3. g = [n \in 0 .. m |-> g[n]]
    OBVIOUS
  <2> HIDE DEF g
  <2>4. isProjection(g, state, log, kept, m)
    BY <2>2, <2>3 DEF isProjection
  <2> QED BY <2>4
<1> HIDE DEF Done
<1>3. \A n \in 0 .. N : n \in Done
  BY <1>1, <1>2, UpTo, Zenon
<1> QED BY <1>3 DEF Done

\* replayProjection satisfies its recursive definition.
LEMMA ProjectionNext ==
    ASSUME NEW state, NEW log, NEW kept, Len(log) \in Nat
    PROVE  /\ replayProjection(state, log, kept)[0] = state
           /\ \A n \in 1 .. Len(log) : replayProjection(state, log, kept)[n] =
                 deliver(log, kept, n, replayProjection(state, log, kept)[n - 1])
<1> DEFINE F(f) == [n \in 0 .. Len(log) |->
                       IF n = 0 THEN state
                       ELSE IF n \in kept /\ matchesProjection(log[n].event)
                            THEN Append(f[n - 1], log[n].event)
                       ELSE f[n - 1]]
           p == replayProjection(state, log, kept)
<1>1. ASSUME NEW f, NEW n
      PROVE  deliver(log, kept, n, f[n - 1]) =
                IF n \in kept /\ matchesProjection(log[n].event)
                THEN Append(f[n - 1], log[n].event) ELSE f[n - 1]
  BY DEF deliver, projected
<1>2. PICK f : f = F(f)
  <2>1. PICK f : isProjection(f, state, log, kept, Len(log))
    BY ProjectionExists
  <2>2. f = F(f)
    BY <1>1, <2>1, Zenon DEF isProjection
  <2> QED BY <2>2
<1>3. p = CHOOSE g : g = F(g)
  BY DEF replayProjection
<1>4. p = F(p)
  BY <1>2, <1>3
<1> HIDE DEF p
<1>5. ASSUME NEW n \in 0 .. Len(log)
      PROVE  p[n] = IF n = 0 THEN state ELSE deliver(log, kept, n, p[n - 1])
  BY <1>1, <1>4, Zenon
<1> QED BY <1>5 DEF p

(***************************************************************************)
(* Replaying the records after a checkpoint onto its state leaves nothing  *)
(* out and takes nothing twice.                                            *)
(***************************************************************************)
LEMMA ReplayCompletes ==
    ASSUME NEW log \in Log, NEW a \in 0 .. Len(log), NEW b \in a .. Len(log),
           NEW state, lists(log, state, a)
    PROVE  lists(log, replayProjection(state, log, a + 1 .. b)[Len(log)], b)
<1> DEFINE N == Len(log)
           p == replayProjection(state, log, a + 1 .. b)
           upTo(n) == IF n <= a THEN a ELSE IF n <= b THEN n ELSE b
           Done == {n \in 0 .. N : lists(log, p[n], upTo(n))}
<1>1. N \in Nat /\ a \in Nat /\ b \in Nat /\ a <= b /\ b <= N
  BY LenProperties DEF Log
<1>2. /\ p[0] = state
      /\ \A n \in 1 .. N : p[n] = deliver(log, a + 1 .. b, n, p[n - 1])
  BY <1>1, ProjectionNext
<1> HIDE DEF p, N
<1>3. 0 \in Done
  BY <1>1, <1>2
<1>4. ASSUME NEW n \in 1 .. N, n - 1 \in Done PROVE n \in Done
  <2>1. n \in 0 .. N /\ lists(log, p[n - 1], upTo(n - 1))
    BY <1>1, <1>4
  <2>2. CASE n \in a + 1 .. b
    <3>1. upTo(n - 1) = n - 1 /\ upTo(n) = n
      BY <1>1, <2>2
    <3>2. p[n] = projected(log, n, p[n - 1])
      BY <1>2, <2>2 DEF deliver
    <3> HIDE DEF upTo
    <3>3. lists(log, p[n], n)
      BY <2>1, <3>1, <3>2, ListsNext DEF N
    <3> QED BY <2>1, <3>1, <3>3
  <2>3. CASE n \notin a + 1 .. b
    <3>1. upTo(n - 1) = upTo(n)
      BY <1>1, <2>3
    <3>2. p[n] = p[n - 1]
      BY <1>2, <2>3 DEF deliver
    <3> HIDE DEF upTo
    <3> QED BY <2>1, <3>1, <3>2
  <2> QED BY <2>2, <2>3
<1>5. upTo(N) = b
  BY <1>1
<1> HIDE DEF Done, upTo
<1>6. N \in Done
  <2>1. \A n \in 0 .. N : n \in Done
    BY <1>1, <1>3, <1>4, UpTo, Zenon
  <2> QED BY <1>1, <2>1
<1> QED BY <1>5, <1>6 DEF Done, p, N

LEMMA LimitIsPositive == Limit \in Nat /\ Limit > 0
<1>1. Limit \in Nat \ {0}
  BY ProjectorAssumption, Zenon
<1> QED BY <1>1

(***************************************************************************)
(* What fetchAll delivers from a numbered log is an interval, as long as   *)
(* the limit unless the log ends before.                                   *)
(***************************************************************************)
LEMMA ReadInterval ==
    ASSUME NEW log \in Log, \A i \in DOMAIN log : log[i].eventStoreSequenceNumber = i,
           NEW a \in 0 .. Len(log), positionsRead(log, a + 1, Limit) # {}
    PROVE  \E b \in a + 1 .. Len(log) :
              /\ positionsRead(log, a + 1, Limit) = a + 1 .. b
              /\ log[Max(positionsRead(log, a + 1, Limit))].eventStoreSequenceNumber = b
<1> DEFINE N == Len(log)
           kept == recordsFromSequenceNumber(log, a + 1)
           b == IF a + Limit <= N THEN a + Limit ELSE N
           read == positionsRead(log, a + 1, Limit)
<1>1. N \in Nat /\ a \in Nat /\ a <= N /\ DOMAIN log = 1 .. N /\ Limit \in Nat /\ Limit > 0
  <2>1. N \in Nat /\ DOMAIN log = 1 .. N
    BY LenProperties DEF Log
  <2>2. Limit \in Nat /\ Limit > 0
    BY LimitIsPositive
  <2> HIDE DEF N, kept, b, read
  <2> QED BY <2>1, <2>2 DEF N
<1>2. kept = a + 1 .. N
  <2> HIDE DEF N
  <2> QED BY <1>1 DEF recordsFromSequenceNumber
<1>3. read = {i \in a + 1 .. N : rank(a + 1 .. N, i) <= Limit}
  BY <1>2 DEF positionsRead
<1> HIDE DEF N, kept, read
<1>4. ASSUME NEW i \in a + 1 .. N PROVE rank(a + 1 .. N, i) = i - a
  <2>1. {j \in a + 1 .. N : j <= i} = a + 1 .. i
    BY <1>1
  <2>2. Cardinality(a + 1 .. i) = i - a
    <3>1. Cardinality(a + 1 .. i) = IF a + 1 > i THEN 0 ELSE i - (a + 1) + 1
      BY <1>1, FS_Interval
    <3> QED BY <1>1, <3>1
  <2> QED BY <2>1, <2>2 DEF rank
<1>5. read = a + 1 .. b
  BY <1>1, <1>3, <1>4
<1>6. b \in a + 1 .. N
  <2>1. read # {}
    BY DEF read
  <2> QED BY <1>1, <1>5, <2>1
<1> HIDE DEF b
<1>7. Max(read) = b
  <2>1. b \in read /\ \A j \in read : b >= j
    BY <1>1, <1>5, <1>6
  <2>2. \A x \in read : (\A j \in read : x >= j) => x = b
    BY <1>1, <1>5, <1>6
  <2> QED BY <2>1, <2>2 DEF Max
<1>8. log[b].eventStoreSequenceNumber = b
  BY <1>1, <1>6
<1> QED BY <1>5, <1>6, <1>7, <1>8 DEF N, read

-----------------------------------------------------------------------------
\* A stored checkpoint is not taken for none.
LEMMA StoredIsLoaded ==
    ASSUME NEW v, NEW n, stored' = Versioned(v, n)
    PROVE  loaded' = Versioned(v, n) /\ loaded'.value = v /\ loaded'.version = n
<1>1. Versioned(v, n) # Absent
  BY DEF Versioned, Absent
<1>2. loaded' = Versioned(v, n)
  BY <1>1 DEF loaded
<1> QED BY <1>2 DEF Versioned

LEMMA Initially == Init => PInv
<1> SUFFICES ASSUME Init PROVE PInv
  OBVIOUS
<1>1. /\ records = <<>> /\ stored = Absent
      /\ pc = [p \in Projectors |-> "idle"]
      /\ held = [p \in Projectors |-> Versioned(initialCheckpoint, 0)]
      /\ checkpoint = [p \in Projectors |-> initialCheckpoint]
  BY DEF Init
<1>2. /\ initialCheckpoint.state = <<>> /\ initialCheckpoint.lastEventStoreSequenceNumber = 0
      /\ Versioned(initialCheckpoint, 0).value = initialCheckpoint
      /\ Versioned(initialCheckpoint, 0).version = 0
      /\ loaded = Versioned(initialCheckpoint, 0)
  BY <1>1 DEF initialCheckpoint, Versioned, loaded
<1>3. /\ <<>> \in Log /\ Len(<<>>) = 0 /\ DOMAIN <<>> = {} /\ <<>> \in Seq(Event)
  BY DEF Log
<1>4. faithful(<<>>, initialCheckpoint)
  <2>1. selectedUpTo(<<>>, 0) = {}
    BY DEF selectedUpTo
  <2>2. Cardinality(selectedUpTo(<<>>, 0)) = 0
    BY <2>1, FS_EmptySet
  <2>3. lists(<<>>, <<>>, 0)
    BY <1>3, <2>1, <2>2 DEF lists
  <2>4. 0 \in 0 .. Len(<<>>)
    BY <1>3
  <2> QED BY <1>2, <2>3, <2>4, Zenon DEF faithful
<1>5. inTurn
  BY <1>1, <1>2 DEF inTurn
<1> HIDE DEF Init
<1> QED BY <1>1, <1>2, <1>3, <1>4, <1>5 DEF PInv

\* What the log is made of, to the provers.
LEMMA LogType ==
    ASSUME PInv
    PROVE  Len(records) \in Nat /\ DOMAIN records = 1 .. Len(records)
BY LenProperties DEF PInv, Log

(***************************************************************************)
(* Nobody gets out of turn by leaving save or by loading what is stored.   *)
(***************************************************************************)
LEMMA TurnsKept ==
    ASSUME inTurn, loaded.version \in Nat, loaded' = loaded,
           \A q \in Projectors : held'[q] = held[q] \/ held'[q] = loaded,
           \A q \in Projectors : pc'[q] = "saving" => pc[q] = "saving"
    PROVE  inTurn'
<1>1. \A q \in Projectors : held'[q].version <= loaded'.version
  <2>1. ASSUME NEW q \in Projectors PROVE held'[q].version <= loaded'.version
    <3>1. CASE held'[q] = held[q]
      BY <3>1 DEF inTurn
    <3>2. CASE held'[q] = loaded
      BY <3>2
    <3> QED BY <3>1, <3>2
  <2> QED BY <2>1
<1>2. ASSUME NEW q \in Projectors, held'[q].version = loaded'.version
      PROVE  held'[q].value = loaded'.value
  <2>1. CASE held'[q] = held[q]
    BY <1>2, <2>1 DEF inTurn
  <2>2. CASE held'[q] = loaded
    BY <2>2
  <2> QED BY <2>1, <2>2
<1>3. ASSUME NEW q \in Projectors, pc'[q] = "saving"
      PROVE  held'[q].version = loaded'.version
  <2>1. CASE held'[q] = held[q]
    BY <1>3, <2>1 DEF inTurn
  <2>2. CASE held'[q] = loaded
    BY <2>2
  <2> QED BY <2>1, <2>2
<1>4. \A p, q \in Projectors : pc'[p] = "saving" /\ pc'[q] = "saving" => p = q
  BY DEF inTurn
<1> QED BY <1>1, <1>2, <1>3, <1>4 DEF inTurn

(***************************************************************************)
(* One more event takes nothing away from what anybody holds.              *)
(***************************************************************************)
LEMMA AppendEventStep ==
    ASSUME PInv, AppendEvent
    PROVE  PInv'
<1>1. PICK kind \in {"Selected", "Skipped"} :
         records' = records \o storedEventsForAppend("stream",
                       <<[kind |-> kind, number |-> Len(records) + 1]>>, Len(records), Len(records))
  BY DEF AppendEvent
<1> DEFINE N == Len(records)
           e == [kind |-> kind, number |-> N + 1]
           r == [aggregateId |-> "stream", aggregateVersion |-> N + 1,
                 eventStoreSequenceNumber |-> N + 1, event |-> e]
<1>2. N \in Nat /\ DOMAIN records = 1 .. N /\ records \in Log
  BY LogType DEF PInv
<1>3. r \in StoredEvent({"stream"}, Event)
  BY <1>2 DEF StoredEvent, Event
<1>4. records' = Append(records, r)
  <2>1. storedEventsForAppend("stream", <<e>>, N, N) = <<r>>
    BY <1>2 DEF storedEventsForAppend
  <2>2. records' = records \o <<r>>
    BY <1>1, <2>1
  <2> HIDE DEF r
  <2> QED BY <1>2, <1>3, <2>2, AppendIsConcat DEF Log
<1>5. r.eventStoreSequenceNumber = N + 1
  OBVIOUS
<1> HIDE DEF r, e
<1>6. /\ records' \in Log /\ Len(records') = N + 1 /\ DOMAIN records' = 1 .. N + 1
      /\ \A i \in 1 .. N : records'[i] = records[i]
      /\ records'[N + 1] = r
  BY <1>2, <1>3, <1>4, AppendProperties, LenProperties DEF Log
<1> HIDE DEF N
<1>7. \A i \in DOMAIN records' : records'[i].eventStoreSequenceNumber = i
  <2>1. \A i \in 1 .. N : records[i].eventStoreSequenceNumber = i
    BY <1>2 DEF PInv
  <2>2. \A i \in 1 .. N : records'[i].eventStoreSequenceNumber = i
    BY <1>6, <2>1
  <2>3. records'[N + 1].eventStoreSequenceNumber = N + 1
    BY <1>5, <1>6
  <2>4. \A i \in DOMAIN records' : i \in 1 .. N \/ i = N + 1
    BY <1>2, <1>6
  <2> QED BY <2>2, <2>3, <2>4
<1>8. ASSUME NEW c, faithful(records, c) PROVE faithful(records', c)
  <2>1. Len(records) \in Nat /\ Len(records') \in Nat /\ Len(records) <= Len(records')
    BY <1>2, <1>6 DEF N
  <2>2. \A i \in 1 .. Len(records) : records'[i] = records[i]
    BY <1>6 DEF N
  <2> QED BY <1>8, <2>1, <2>2, FaithfulKept
<1>9. UNCHANGED <<keyValueStore, stored, pc, held, checkpoint>> /\ loaded' = loaded
  BY DEF AppendEvent, loaded
<1>10. inTurn => inTurn'
  BY <1>9 DEF inTurn
<1> QED BY <1>6, <1>7, <1>8, <1>9, <1>10 DEF PInv, readOn

LEMMA LoadStep ==
    ASSUME PInv, NEW p \in Projectors, Load(p)
    PROVE  PInv'
<1>1. /\ pc[p] = "idle" /\ held' = [held EXCEPT ![p] = loaded]
      /\ pc' = [pc EXCEPT ![p] = "loaded"]
      /\ UNCHANGED <<keyValueStore, records, stored, checkpoint>> /\ loaded' = loaded
  BY DEF Load, loaded
<1>2. \A q \in Projectors : held'[q] = held[q] \/ held'[q] = loaded
  BY <1>1 DEF PInv
<1>3. \A q \in Projectors : IF q = p THEN pc'[q] = "loaded"
                             ELSE pc'[q] = pc[q] /\ held'[q] = held[q]
  BY <1>1 DEF PInv
<1>4. /\ pc' \in [Projectors -> {"idle", "loaded", "read", "saving"}]
      /\ DOMAIN held' = Projectors /\ DOMAIN checkpoint' = Projectors
  BY <1>1 DEF PInv
<1>5. inTurn => inTurn'
  <2>1. \A q \in Projectors : pc'[q] = "saving" => pc[q] = "saving"
    BY <1>3
  <2>2. loaded.version \in Nat
    BY DEF PInv
  <2> QED BY <1>1, <1>2, <2>1, <2>2, TurnsKept
<1>6. ASSUME NEW q \in Projectors
      PROVE  /\ held'[q].version \in Nat /\ faithful(records, held'[q].value)
             /\ pc'[q] \in {"read", "saving"} => readOn(q)'
  <2>1. held'[q].version \in Nat /\ faithful(records, held'[q].value)
    <3>1. CASE held'[q] = held[q]
      BY <3>1 DEF PInv
    <3>2. CASE held'[q] = loaded
      BY <3>2 DEF PInv
    <3> QED BY <1>2, <3>1, <3>2
  <2>2. ASSUME pc'[q] \in {"read", "saving"} PROVE readOn(q)'
    <3>1. pc'[q] = pc[q] /\ held'[q] = held[q]
      BY <1>3, <2>2
    <3> QED BY <1>1, <2>2, <3>1 DEF PInv, readOn
  <2> QED BY <2>1, <2>2
<1> QED BY <1>1, <1>4, <1>5, <1>6 DEF PInv

(***************************************************************************)
(* What is read goes on exactly where the held checkpoint ends.            *)
(***************************************************************************)
LEMMA ReadStep ==
    ASSUME PInv, NEW p \in Projectors, Read(p)
    PROVE  PInv'
<1> DEFINE a == held[p].value.lastEventStoreSequenceNumber
           read == positionsRead(records, a + 1, Limit)
           c == [state |-> replayProjection(held[p].value.state, records, read)[Len(records)],
                 lastEventStoreSequenceNumber |-> records[Max(read)].eventStoreSequenceNumber]
<1>1. /\ pc[p] = "loaded" /\ read # {}
      /\ checkpoint' = [checkpoint EXCEPT ![p] = c]
      /\ pc' = [pc EXCEPT ![p] = "read"]
      /\ UNCHANGED <<keyValueStore, records, stored, held>> /\ loaded' = loaded
  BY DEF Read, loaded, resumeAt
<1>2. /\ records \in Log /\ Len(records) \in Nat
      /\ \A i \in DOMAIN records : records[i].eventStoreSequenceNumber = i
      /\ a \in 0 .. Len(records) /\ lists(records, held[p].value.state, a)
  BY LogType DEF PInv, faithful
<1> HIDE DEF a
<1>3. PICK b \in a + 1 .. Len(records) :
         /\ read = a + 1 .. b
         /\ records[Max(read)].eventStoreSequenceNumber = b
  BY <1>1, <1>2, ReadInterval
<1>4. lists(records, replayProjection(held[p].value.state, records, read)[Len(records)], b)
  <2>1. b \in a .. Len(records)
    BY <1>2, <1>3
  <2>2. lists(records, replayProjection(held[p].value.state, records, a + 1 .. b)[Len(records)], b)
    BY <1>2, <2>1, ReplayCompletes
  <2> QED BY <1>3, <2>2
<1>5. c.state = replayProjection(held[p].value.state, records, read)[Len(records)]
      /\ c.lastEventStoreSequenceNumber = b
  BY <1>3
<1> HIDE DEF c, read
<1>6. faithful(records, c) /\ c.lastEventStoreSequenceNumber > a
  BY <1>2, <1>3, <1>4, <1>5 DEF faithful
<1>7. \A q \in Projectors : /\ checkpoint'[q] = IF q = p THEN c ELSE checkpoint[q]
                            /\ pc'[q] = IF q = p THEN "read" ELSE pc[q]
  BY <1>1 DEF PInv
<1>8. /\ pc' \in [Projectors -> {"idle", "loaded", "read", "saving"}]
      /\ DOMAIN held' = Projectors /\ DOMAIN checkpoint' = Projectors
  BY <1>1 DEF PInv
<1>9. inTurn => inTurn'
  <2>1. \A q \in Projectors : pc'[q] = "saving" => pc[q] = "saving"
    BY <1>7
  <2>2. loaded.version \in Nat
    BY DEF PInv
  <2> QED BY <1>1, <2>1, <2>2, TurnsKept
<1>10. ASSUME NEW q \in Projectors
       PROVE  faithful(records, checkpoint'[q]) /\ (pc'[q] \in {"read", "saving"} => readOn(q)')
  BY <1>1, <1>6, <1>7 DEF PInv, readOn, a
<1> QED BY <1>1, <1>8, <1>9, <1>10 DEF PInv

\* A projector inside save over a store that answers at once is alone.
LEMMA CheckStep ==
    ASSUME PInv, NEW p \in Projectors, Check(p)
    PROVE  PInv'
<1>1. /\ mayRun(p) /\ pc[p] = "read" /\ atExpectedVersion(p)
      /\ pc' = [pc EXCEPT ![p] = "saving"]
      /\ UNCHANGED <<keyValueStore, records, stored, held, checkpoint>> /\ loaded' = loaded
  BY DEF Check, loaded
<1>2. \A q \in Projectors : pc'[q] = IF q = p THEN "saving" ELSE pc[q]
  BY <1>1 DEF PInv
<1>3. pc' \in [Projectors -> {"idle", "loaded", "read", "saving"}]
  BY <1>1 DEF PInv
<1>4. keyValueStore = "at once" /\ inTurn => inTurn'
  <2> SUFFICES ASSUME keyValueStore = "at once", inTurn PROVE inTurn'
    OBVIOUS
  <2>1. \A q \in Projectors : pc'[q] = "saving" <=> q = p
    BY <1>1, <1>2 DEF mayRun
  <2>2. held[p].version = loaded.version
    BY <1>1 DEF atExpectedVersion
  <2> QED BY <1>1, <2>1, <2>2 DEF inTurn
<1> QED BY <1>1, <1>2, <1>3, <1>4 DEF PInv, readOn

LEMMA ConflictStep ==
    ASSUME PInv, NEW p \in Projectors, Conflict(p)
    PROVE  PInv'
<1>1. /\ pc' = [pc EXCEPT ![p] = "idle"]
      /\ UNCHANGED <<keyValueStore, records, stored, held, checkpoint>> /\ loaded' = loaded
  BY DEF Conflict, loaded
<1>2. \A q \in Projectors : pc'[q] = IF q = p THEN "idle" ELSE pc[q]
  BY <1>1 DEF PInv
<1>3. pc' \in [Projectors -> {"idle", "loaded", "read", "saving"}]
  BY <1>1 DEF PInv
<1>4. inTurn => inTurn'
  <2>1. \A q \in Projectors : pc'[q] = "saving" => pc[q] = "saving"
    BY <1>2
  <2>2. loaded.version \in Nat
    BY DEF PInv
  <2> QED BY <1>1, <2>1, <2>2, TurnsKept
<1> QED BY <1>1, <1>2, <1>3, <1>4 DEF PInv, readOn

(***************************************************************************)
(* What a set stores, whether it is reported to have failed or not: over a *)
(* store that answers at once, the successor of what was stored.           *)
(***************************************************************************)
LEMMA SetSucceeds ==
    ASSUME PInv, NEW p \in Projectors, pc[p] = "saving",
           stored' = Versioned(checkpoint[p], held[p].version + 1)
    PROVE  keyValueStore = "at once" => Succeeds
<1> SUFFICES ASSUME keyValueStore = "at once" PROVE Succeeds
  OBVIOUS
<1>1. loaded'.value = checkpoint[p] /\ loaded'.version = held[p].version + 1
  BY StoredIsLoaded
<1>2. loaded.version = held[p].version /\ held[p].value = loaded.value
  BY DEF PInv, inTurn
<1>3. readOn(p)
  BY DEF PInv
<1> QED BY <1>1, <1>2, <1>3 DEF Succeeds, readOn

\* What a projector would set, and what it holds.
LEMMA WhatIsSaved ==
    ASSUME PInv, NEW p \in Projectors
    PROVE  held[p].version + 1 \in Nat /\ faithful(records, checkpoint[p])
<1>1. held[p].version \in Nat
  BY DEF PInv
<1>2. faithful(records, checkpoint[p])
  BY DEF PInv
<1>3. held[p].version + 1 \in Nat
  BY <1>1
<1> QED BY <1>2, <1>3

(***************************************************************************)
(* A set by a projector whose turn it is leaves everyone else behind.      *)
(***************************************************************************)
LEMMA TurnsAfterSet ==
    ASSUME PInv, inTurn, NEW p \in Projectors, pc[p] = "saving",
           NEW saved, saved.version = held[p].version + 1, loaded' = saved,
           \A q \in Projectors : held'[q] = held[q] \/ held'[q] = saved,
           \A q \in Projectors : pc'[q] = "saving" => pc[q] = "saving" /\ q # p
    PROVE  inTurn'
<1>1. /\ \A q \in Projectors : held[q].version \in Nat
      /\ \A q \in Projectors : held[q].version <= loaded.version
      /\ loaded.version = held[p].version
      /\ \A q \in Projectors : pc[q] = "saving" => q = p
  BY DEF inTurn, PInv
<1>2. ASSUME NEW q \in Projectors
      PROVE  held[q].version <= saved.version /\ held[q].version # saved.version
  BY <1>1
<1>3. saved.version <= saved.version
  BY <1>1
<1>4. ASSUME NEW q \in Projectors
      PROVE  /\ held'[q].version <= saved.version
             /\ held'[q].version = saved.version => held'[q].value = saved.value
  <2>1. CASE held'[q] = held[q]
    BY <1>2, <2>1, Zenon
  <2>2. CASE held'[q] = saved
    BY <1>3, <2>2, Zenon
  <2> QED BY <2>1, <2>2
<1>5. \A q \in Projectors : pc'[q] # "saving"
  BY <1>1
<1> QED BY <1>4, <1>5, Zenon DEF inTurn

LEMMA SetStep ==
    ASSUME PInv, NEW p \in Projectors, Set(p)
    PROVE  PInv'
<1> DEFINE saved == Versioned(checkpoint[p], held[p].version + 1)
<1>1. /\ pc[p] = "saving" /\ stored' = saved
      /\ held' = [held EXCEPT ![p] = saved]
      /\ pc' = [pc EXCEPT ![p] = "loaded"]
      /\ UNCHANGED <<keyValueStore, records, checkpoint>>
  BY DEF Set
<1>2. loaded' = saved
  BY <1>1, StoredIsLoaded
<1>3. saved.version = held[p].version + 1 /\ saved.value = checkpoint[p]
  BY DEF Versioned
<1> HIDE DEF saved
<1>4. \A q \in Projectors : IF q = p THEN held'[q] = saved /\ pc'[q] = "loaded"
                             ELSE held'[q] = held[q] /\ pc'[q] = pc[q]
  BY <1>1 DEF PInv
<1>5. /\ pc' \in [Projectors -> {"idle", "loaded", "read", "saving"}]
      /\ DOMAIN held' = Projectors
  BY <1>1 DEF PInv
<1>6. saved.version \in Nat /\ faithful(records, saved.value)
  <2>1. held[p].version + 1 \in Nat /\ faithful(records, checkpoint[p])
    BY WhatIsSaved
  <2> QED BY <1>3, <2>1, Zenon
<1>7. loaded'.version \in Nat /\ faithful(records, loaded'.value)
  BY <1>2, <1>6, Zenon
<1>8. inTurn => inTurn'
  <2>1. \A q \in Projectors : held'[q] = held[q] \/ held'[q] = saved
    BY <1>4
  <2>2. \A q \in Projectors : pc'[q] = "saving" => pc[q] = "saving" /\ q # p
    BY <1>4
  <2> QED BY <1>1, <1>2, <1>3, <2>1, <2>2, TurnsAfterSet
<1>9. ASSUME NEW q \in Projectors
      PROVE  /\ held'[q].version \in Nat /\ faithful(records, held'[q].value)
             /\ pc'[q] \in {"read", "saving"} => readOn(q)'
  <2>1. CASE q = p
    <3>1. held'[q] = saved /\ pc'[q] = "loaded"
      BY <1>4, <2>1
    <3>2. pc'[q] \notin {"read", "saving"}
      BY <3>1
    <3> QED BY <1>6, <3>1, <3>2
  <2>2. CASE q # p
    <3>1. held'[q] = held[q] /\ pc'[q] = pc[q]
      BY <1>4, <2>2
    <3> QED BY <1>1, <3>1 DEF PInv, readOn
  <2> QED BY <2>1, <2>2
<1> QED BY <1>1, <1>5, <1>7, <1>8, <1>9 DEF PInv

LEMMA FaultStep ==
    ASSUME PInv, NEW p \in Projectors, Fault(p)
    PROVE  PInv'
<1> DEFINE saved == Versioned(checkpoint[p], held[p].version + 1)
<1>1. /\ pc' = [pc EXCEPT ![p] = "idle"]
      /\ UNCHANGED <<keyValueStore, records, held, checkpoint>>
      /\ UNCHANGED stored \/ (pc[p] = "saving" /\ stored' = saved)
  BY DEF Fault
<1>2. \A q \in Projectors : pc'[q] = IF q = p THEN "idle" ELSE pc[q]
  BY <1>1 DEF PInv
<1>3. pc' \in [Projectors -> {"idle", "loaded", "read", "saving"}]
  BY <1>1 DEF PInv
<1>4. \A q \in Projectors : pc'[q] = "saving" => pc[q] = "saving" /\ q # p
  BY <1>2
<1>5. \A q \in Projectors : pc'[q] \in {"read", "saving"} => readOn(q)'
  BY <1>1, <1>2 DEF PInv, readOn
<1>6. CASE UNCHANGED stored
  <2>1. loaded' = loaded
    BY <1>6 DEF loaded
  <2>2. inTurn => inTurn'
    <3>1. loaded.version \in Nat
      BY DEF PInv
    <3> QED BY <1>1, <1>4, <2>1, <3>1, TurnsKept
  <2> QED BY <1>1, <1>3, <1>5, <2>1, <2>2 DEF PInv
<1>7. CASE pc[p] = "saving" /\ stored' = saved
  <2>1. loaded' = saved
    BY <1>7, StoredIsLoaded
  <2>2. saved.version = held[p].version + 1 /\ saved.value = checkpoint[p]
    BY DEF Versioned
  <2> HIDE DEF saved
  <2>3. saved.version \in Nat /\ faithful(records, saved.value)
    <3>1. held[p].version + 1 \in Nat /\ faithful(records, checkpoint[p])
      BY WhatIsSaved
    <3> QED BY <2>2, <3>1, Zenon
  <2>4. loaded'.version \in Nat /\ faithful(records, loaded'.value)
    BY <2>1, <2>3, Zenon
  <2>5. inTurn => inTurn'
    BY <1>1, <1>4, <1>7, <2>1, <2>2, TurnsAfterSet
  <2> QED BY <1>1, <1>3, <1>5, <2>4, <2>5 DEF PInv
<1> QED BY <1>1, <1>6, <1>7

-----------------------------------------------------------------------------
\* Every step keeps the invariant.
LEMMA EveryStep ==
    ASSUME PInv, [Next]_vars
    PROVE  PInv'
<1>1. CASE UNCHANGED vars
  BY <1>1 DEF vars, PInv, loaded, readOn, inTurn
<1>2. CASE AppendEvent
  BY <1>2, AppendEventStep
<1>3. ASSUME NEW p \in Projectors, Load(p) PROVE PInv'
  BY <1>3, LoadStep
<1>4. ASSUME NEW p \in Projectors, Read(p) PROVE PInv'
  BY <1>4, ReadStep
<1>5. ASSUME NEW p \in Projectors, Check(p) PROVE PInv'
  BY <1>5, CheckStep
<1>6. ASSUME NEW p \in Projectors, Conflict(p) PROVE PInv'
  BY <1>6, ConflictStep
<1>7. ASSUME NEW p \in Projectors, Set(p) PROVE PInv'
  BY <1>7, SetStep
<1>8. ASSUME NEW p \in Projectors, Fault(p) PROVE PInv'
  BY <1>8, FaultStep
<1> QED BY <1>1, <1>2, <1>3, <1>4, <1>5, <1>6, <1>7, <1>8 DEF Next

(***************************************************************************)
(* The invariant holds in every state.                                     *)
(***************************************************************************)
THEOREM ProjectorInvariance == Spec => []PInv
<1>1. PInv /\ [Next]_vars => PInv'
  BY EveryStep
<1> QED BY <1>1, Initially, PTL DEF Spec

(***************************************************************************)
(* A stored checkpoint is the projection of exactly the events up to its   *)
(* number, whoever wrote it and whatever it was resumed from               *)
(* (replayProjection over fetchAll, and makeProjectionStore's save).       *)
(***************************************************************************)
THEOREM CheckpointIsFaithful == Spec => []CheckpointFaithful
<1>1. PInv => CheckpointFaithful
  <2> SUFFICES ASSUME PInv PROVE CheckpointFaithful
    OBVIOUS
  <2>1. faithful(records, loaded.value) /\ Len(records) \in Nat
    BY LogType DEF PInv
  <2>2. loaded.value.lastEventStoreSequenceNumber <= Len(records)
    BY <2>1 DEF faithful
  <2>3. lists(records, loaded.value.state, loaded.value.lastEventStoreSequenceNumber)
    BY <2>1 DEF faithful
  <2> QED BY <2>2, <2>3, Zenon DEF lists, CheckpointFaithful
<1> QED BY <1>1, ProjectorInvariance, PTL

(***************************************************************************)
(* Over a KeyValueStore that answers at once, each save that goes through  *)
(* is the successor of the one before it (the version check of save).      *)
(***************************************************************************)
THEOREM SavesComeInOrder == Spec => SavesInOrder
<1>1. ASSUME PInv, [Next]_vars PROVE [keyValueStore = "at once" => Succeeds]_stored
  <2> SUFFICES ASSUME stored' # stored PROVE keyValueStore = "at once" => Succeeds
    OBVIOUS
  <2>1. PICK p \in Projectors : Set(p) \/ Fault(p)
    BY <1>1 DEF Next, vars, AppendEvent, Load, Read, Check, Conflict
  <2>2. pc[p] = "saving" /\ stored' = Versioned(checkpoint[p], held[p].version + 1)
    BY <2>1 DEF Set, Fault
  <2> QED BY <1>1, <2>2, SetSucceeds
<1> QED BY <1>1, ProjectorInvariance, PTL DEF Spec, SavesInOrder
=============================================================================
