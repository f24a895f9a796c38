--------------------------- MODULE RepositoryProofs ---------------------------
(***************************************************************************)
(* Proofs about Repository, for any numbers of callers, repositories,      *)
(* aggregates and pending events, where no fiber is preempted inside       *)
(* append.  Without that assumption StableOrder is refuted by a run.       *)
(*                                                                         *)
(* First what append does to logs and streams, then the invariant step by  *)
(* step, then what follows from it, and last that Repository implements    *)
(* AtomicStreams: what each action does to the copies and streams there.   *)
(***************************************************************************)
EXTENDS RepositoryRefinement, LogProofs

Log == Seq(StoredEvent(Streams, Event))

Copy == [repository : Repositories, aggregateId : AggregateIds, state : Seq(Event),
         version : Nat, pendingEvents : Seq(Event)]

\* Events in the order they were recorded.
ascending(events) ==
    \A i, j \in DOMAIN events : i < j => events[i].number < events[j].number

\* Events of one stream, all recorded so far.
ofStream(events, stream, sofar) ==
    \A i \in DOMAIN events : streamOf(events[i]) = stream /\ events[i].number <= sofar

(***************************************************************************)
(* A stream of the log has as many events as the store counts, in the      *)
(* order they were recorded, and every record of the stream holds one.     *)
(***************************************************************************)
streamOK(log, stream, sofar) ==
    LET events == eventsOf(log, stream)
    IN  /\ events \in Seq(Event)
        /\ Len(events) = aggregateVersionInRecords(log, stream)
        /\ ascending(events)
        /\ ofStream(events, stream, sofar)
        /\ \A i \in DOMAIN log : log[i].aggregateId = stream =>
              \E k \in DOMAIN events : events[k] = log[i].event

logOK(log, sofar) ==
    /\ log \in Log
    /\ orderlyLog(log)
    /\ \A i \in DOMAIN log : streamOf(log[i].event) = log[i].aggregateId
    /\ \A i, j \in DOMAIN log :
          i < j /\ log[i].aggregateId = log[j].aggregateId =>
             log[i].event.number < log[j].event.number
    /\ \A stream \in Streams : streamOK(log, stream, sofar)

(***************************************************************************)
(* A copy is a past state of its stream with its pending events on top,    *)
(* event by event.                                                         *)
(***************************************************************************)
copyOK(copy, log, sofar) ==
    LET clean == expectedVersion(copy)
        events == eventsOf(log, streamOf(copy))
    IN  /\ copy \in Copy
        /\ copy.version = Len(copy.state)
        /\ Len(copy.pendingEvents) <= copy.version
        /\ ascending(copy.state)
        /\ ofStream(copy.state, streamOf(copy), sofar)
        /\ clean <= Len(events)
        /\ \A i \in 1 .. clean : copy.state[i] = events[i]
        /\ \A i \in 1 .. Len(copy.pendingEvents) :
              copy.state[clean + i] = copy.pendingEvents[i]

\* What a caller inside append is about to add still fits the log.
savingOK(c) ==
    /\ holdsCopy(c)
    /\ atExpectedVersion(c)
    /\ checked[c] = Stored(storedEventsForAppend(streamOf(held[c]), held[c].pendingEvents,
                              aggregateVersionInRecords(records, streamOf(held[c])),
                              Len(records)))

(***************************************************************************)
(* The inductive invariant.                                                *)
(***************************************************************************)
RInv ==
    /\ recorded \in 0 .. MaxEvents
    /\ DOMAIN held = Callers
    /\ DOMAIN checked = Callers
    /\ logOK(records, recorded)
    /\ \A c \in Callers : holdsCopy(c) => copyOK(held[c], records, recorded)
    /\ \A c \in Callers : isSaving(c) => savingOK(c)
    /\ \A c, d \in Callers : isSaving(c) /\ isSaving(d) => c = d

-----------------------------------------------------------------------------
\* What the records of a log are made of.
LEMMA RecordType ==
    ASSUME NEW log \in Log, NEW n \in 1 .. Len(log)
    PROVE  log[n].event \in Event /\ log[n].aggregateId \in Streams
<1>1. log[n] \in StoredEvent(Streams, Event)
  BY DEF Log
<1> QED BY <1>1 DEF StoredEvent

keptOf(log, stream) == recordsForAggregate(log, stream, firstSequenceNumber)

\* What record n of the log adds to the events before it.
withRecord(log, stream, n, events) ==
    IF n \in keptOf(log, stream) THEN Append(events, log[n].event) ELSE events

(***************************************************************************)
(* What load reads of a log: it has a value for every beginning of the     *)
(* log, and each record of the stream adds one event.                      *)
(***************************************************************************)
LEMMA EventsFold ==
    ASSUME NEW log \in Log, NEW stream
    PROVE  /\ eventsUpTo(log, stream) \in [0 .. Len(log) -> Seq(Event)]
           /\ eventsUpTo(log, stream)[0] = <<>>
           /\ \A n \in 1 .. Len(log) : eventsUpTo(log, stream)[n] =
                 withRecord(log, stream, n, eventsUpTo(log, stream)[n - 1])
<1> DEFINE N == Len(log)
           step == [n \in 1 .. N |-> [events \in Seq(Event) |-> withRecord(log, stream, n, events)]]
           F(f) == [n \in 0 .. N |-> IF n = 0 THEN <<>>
                                   ELSE withRecord(log, stream, n, f[n - 1])]
<1>1. N \in Nat
  BY DEF Log
<1>2. step \in [1 .. N -> [Seq(Event) -> Seq(Event)]]
  <2>1. \A n \in 1 .. N : log[n].event \in Event
    BY RecordType
  <2>2. \A n \in 1 .. N, events \in Seq(Event) : withRecord(log, stream, n, events) \in Seq(Event)
    BY <2>1 DEF withRecord
  <2> QED BY <2>2
<1>3. PICK f : isFold(f, N, Seq(Event), <<>>, step)
  <2>1. <<>> \in Seq(Event)
    OBVIOUS
  <2> HIDE DEF step, N
  <2> QED BY <1>1, <1>2, <2>1, FoldExists, Zenon
<1>4. /\ f \in [0 .. N -> Seq(Event)]
      /\ f[0] = <<>>
      /\ \A n \in 1 .. N : f[n] = withRecord(log, stream, n, f[n - 1])
  <2>1. /\ f \in [0 .. N -> Seq(Event)]
        /\ f[0] = <<>>
        /\ \A n \in 1 .. N : f[n] = step[n][f[n - 1]]
    <3> HIDE DEF step, N
    <3> QED BY <1>3 DEF isFold
  <2>2. ASSUME NEW n \in 1 .. N, NEW events \in Seq(Event)
        PROVE  step[n][events] = withRecord(log, stream, n, events)
    OBVIOUS
  <2> HIDE DEF step, N
  <2>3. \A n \in 1 .. N : f[n - 1] \in Seq(Event)
    BY <1>1, <2>1
  <2> QED BY <2>1, <2>2, <2>3
<1> HIDE DEF step, N
<1>5. f = F(f)
  <2>1. ASSUME NEW n \in 0 .. N
        PROVE  f[n] = IF n = 0 THEN <<>> ELSE withRecord(log, stream, n, f[n - 1])
    BY <1>1, <1>4
  <2>2. f = [n \in 0 .. N |-> f[n]]
    BY <1>4
  <2> QED BY <2>1, <2>2
<1> DEFINE e == eventsUpTo(log, stream)
<1>6. e = CHOOSE g : g = F(g)
  BY DEF eventsUpTo, keptOf, withRecord, N
<1> HIDE DEF F, e
<1>7. e = F(e)
  BY <1>5, <1>6
<1>8. e[0] = <<>>
  BY <1>1, <1>7 DEF F
<1>9. \A n \in 1 .. N : e[n] = withRecord(log, stream, n, e[n - 1])
  BY <1>1, <1>7 DEF F
<1>10. \A n \in 0 .. N : e[n] = f[n]
  <2>1. \A n \in 1 .. N : e[n - 1] = f[n - 1] => e[n] = f[n]
    BY <1>4, <1>9
  <2>2. e[0] = f[0]
    BY <1>4, <1>8
  <2>3. sameValues(e, f, N)
    BY <1>1, <2>1, <2>2, SameSteps DEF sameSteps
  <2> QED BY <2>3 DEF sameValues
<1>11. e \in [0 .. N -> Seq(Event)]
  <2>1. e = [n \in 0 .. N |-> e[n]]
    BY <1>7 DEF F
  <2> QED BY <1>4, <1>10, <2>1
<1> QED BY <1>8, <1>9, <1>11 DEF e, N

(***************************************************************************)
(* A record adds its event to its own stream, and nothing to another.      *)
(***************************************************************************)
LEMMA EventsAppend ==
    ASSUME NEW log \in Log, NEW r \in StoredEvent(Streams, Event),
           r.eventStoreSequenceNumber >= 1, NEW stream
    PROVE  eventsOf(Append(log, r), stream) =
              IF r.aggregateId = stream THEN Append(eventsOf(log, stream), r.event)
              ELSE eventsOf(log, stream)
<1> DEFINE longer == Append(log, r)
           N == Len(log)
           f == eventsUpTo(log, stream)
           g == eventsUpTo(longer, stream)
<1>1. /\ N \in Nat /\ longer \in Log /\ Len(longer) = N + 1
      /\ \A n \in 1 .. N : longer[n] = log[n]
      /\ longer[N + 1] = r
  BY AppendProperties, LenProperties DEF Log
<1>2. \A n \in 1 .. N : n \in keptOf(longer, stream) <=> n \in keptOf(log, stream)
  <2>1. DOMAIN log = 1 .. N /\ DOMAIN longer = 1 .. N + 1
    BY <1>1 DEF Log
  <2> HIDE DEF longer
  <2> QED BY <1>1, <2>1 DEF keptOf, recordsForAggregate, recordsFromSequenceNumber
<1>3. N + 1 \in keptOf(longer, stream) <=> r.aggregateId = stream
  <2>1. DOMAIN longer = 1 .. N + 1
    BY <1>1 DEF Log
  <2> HIDE DEF longer
  <2> QED BY <1>1, <2>1
         DEF keptOf, recordsForAggregate, recordsFromSequenceNumber, firstSequenceNumber
<1> HIDE DEF longer
<1>4. /\ f[0] = <<>> /\ g[0] = <<>>
      /\ \A n \in 1 .. N : f[n] = withRecord(log, stream, n, f[n - 1])
      /\ \A n \in 1 .. N + 1 : g[n] = withRecord(longer, stream, n, g[n - 1])
  BY <1>1, EventsFold
<1> HIDE DEF f, g
<1>5. \A n \in 0 .. N : f[n] = g[n]
  <2>1. \A n \in 1 .. N : f[n - 1] = g[n - 1] => f[n] = g[n]
    <3>1. ASSUME NEW n \in 1 .. N, NEW events
          PROVE  withRecord(log, stream, n, events) = withRecord(longer, stream, n, events)
      BY <1>1, <1>2 DEF withRecord
    <3>2. \A n \in 1 .. N : n \in 1 .. N + 1
      BY <1>1
    <3> HIDE DEF N
    <3> QED BY <1>4, <3>1, <3>2
  <2>2. f[0] = g[0] /\ N \in Nat
    BY <1>1, <1>4
  <2> HIDE DEF N
  <2>3. sameValues(f, g, N)
    BY <2>1, <2>2, SameSteps DEF sameSteps
  <2> QED BY <2>3 DEF sameValues
<1>6. g[N + 1] = IF r.aggregateId = stream THEN Append(f[N], r.event) ELSE f[N]
  <2>1. N + 1 \in 1 .. N + 1 /\ (N + 1) - 1 = N /\ N \in 0 .. N
    BY <1>1
  <2>2. g[N + 1] = withRecord(longer, stream, N + 1, f[N])
    BY <1>4, <1>5, <2>1
  <2> QED BY <1>1, <1>3, <2>2 DEF withRecord
<1> QED BY <1>1, <1>6 DEF f, g, longer, eventsOf

\* No stream has an event in an empty log.
LEMMA NoEvents ==
    ASSUME NEW stream
    PROVE  eventsOf(<<>>, stream) = <<>>
<1>1. <<>> \in Log /\ Len(<<>>) = 0
  BY DEF Log
<1> QED BY <1>1, EventsFold DEF eventsOf

-----------------------------------------------------------------------------
(***************************************************************************)
(* A record that carries a later event of its stream than those the stream *)
(* has, with the next numbers, keeps the log as it should be.              *)
(***************************************************************************)
LEMMA StreamAppend ==
    ASSUME NEW log \in Log, NEW sofar \in Nat, NEW r \in StoredEvent(Streams, Event),
           NEW stream \in Streams, streamOK(log, stream, sofar),
           r.eventStoreSequenceNumber >= 1,
           streamOf(r.event) = r.aggregateId,
           r.event.number <= sofar,
           r.aggregateId = stream => \A k \in DOMAIN eventsOf(log, stream) :
                                        eventsOf(log, stream)[k].number < r.event.number
    PROVE  streamOK(Append(log, r), stream, sofar)
<1> DEFINE longer == Append(log, r)
           old == eventsOf(log, stream)
           new == eventsOf(longer, stream)
           N == Len(log)
<1>1. /\ N \in Nat /\ DOMAIN log = 1 .. N /\ DOMAIN longer = 1 .. N + 1
      /\ \A n \in 1 .. N : longer[n] = log[n]
      /\ longer[N + 1] = r
  BY AppendProperties, LenProperties DEF Log
<1>2. aggregateVersionInRecords(longer, stream) =
         aggregateVersionInRecords(log, stream) + IF r.aggregateId = stream THEN 1 ELSE 0
  BY VersionAppend DEF Log
<1>3. new = IF r.aggregateId = stream THEN Append(old, r.event) ELSE old
  BY EventsAppend
<1>4. /\ old \in Seq(Event)
      /\ Len(old) = aggregateVersionInRecords(log, stream)
      /\ ascending(old)
      /\ ofStream(old, stream, sofar)
      /\ \A i \in 1 .. N : log[i].aggregateId = stream =>
            \E k \in DOMAIN old : old[k] = log[i].event
  BY <1>1 DEF streamOK
<1>5. Len(old) \in Nat /\ DOMAIN old = 1 .. Len(old)
  BY <1>4, LenProperties
<1>6. r.event \in Event
  BY DEF StoredEvent
<1> HIDE DEF longer, old, new, N
<1>7. CASE r.aggregateId # stream
  <2>1. new = old /\ aggregateVersionInRecords(longer, stream) = aggregateVersionInRecords(log, stream)
    BY <1>2, <1>3, <1>4, <1>5, <1>7
  <2>2. \A i \in DOMAIN longer : longer[i].aggregateId = stream =>
           \E k \in DOMAIN new : new[k] = longer[i].event
    BY <1>1, <1>4, <1>7, <2>1
  <2> QED BY <1>4, <2>1, <2>2 DEF streamOK, longer, new
<1>8. CASE r.aggregateId = stream
  <2>1. /\ new \in Seq(Event) /\ Len(new) = Len(old) + 1 /\ DOMAIN new = 1 .. Len(old) + 1
        /\ \A k \in 1 .. Len(old) : new[k] = old[k]
        /\ new[Len(old) + 1] = r.event
    BY <1>3, <1>4, <1>6, <1>8, AppendProperties, LenProperties
  <2>2. Len(new) = aggregateVersionInRecords(longer, stream)
    BY <1>2, <1>4, <1>5, <1>8, <2>1
  <2>3. ascending(new)
    <3>1. ASSUME NEW i \in DOMAIN new, NEW j \in DOMAIN new, i < j
          PROVE  new[i].number < new[j].number
      <4>1. i \in 1 .. Len(old) /\ new[i] = old[i]
        BY <1>5, <2>1, <3>1
      <4>2. CASE j = Len(old) + 1
        BY <1>5, <1>8, <2>1, <4>1, <4>2 DEF old
      <4>3. CASE j # Len(old) + 1
        <5>1. j \in 1 .. Len(old) /\ new[j] = old[j]
          BY <1>5, <2>1, <4>3
        <5> QED BY <1>4, <1>5, <3>1, <4>1, <5>1 DEF ascending
      <4> QED BY <4>2, <4>3
    <3> QED BY <3>1 DEF ascending
  <2>4. ofStream(new, stream, sofar)
    <3>1. ASSUME NEW i \in DOMAIN new
          PROVE  streamOf(new[i]) = stream /\ new[i].number <= sofar
      <4>1. CASE i = Len(old) + 1
        BY <1>8, <2>1, <4>1
      <4>2. CASE i # Len(old) + 1
        <5>1. i \in 1 .. Len(old) /\ new[i] = old[i]
          BY <1>5, <2>1, <4>2
        <5> QED BY <1>4, <1>5, <5>1 DEF ofStream
      <4> QED BY <4>1, <4>2
    <3> QED BY <3>1 DEF ofStream
  <2>5. ASSUME NEW i \in DOMAIN longer, longer[i].aggregateId = stream
        PROVE  \E k \in DOMAIN new : new[k] = longer[i].event
    <3>1. CASE i = N + 1
      BY <1>1, <1>5, <2>1, <3>1
    <3>2. CASE i # N + 1
      <4>1. i \in 1 .. N /\ longer[i] = log[i]
        BY <1>1, <3>2
      <4>2. PICK k \in DOMAIN old : old[k] = log[i].event
        BY <1>4, <2>5, <4>1
      <4>3. k \in 1 .. Len(old) /\ k \in DOMAIN new
        BY <1>5, <2>1, <4>2
      <4> QED BY <2>1, <4>1, <4>2, <4>3
    <3> QED BY <3>1, <3>2
  <2> QED BY <2>1, <2>2, <2>3, <2>4, <2>5 DEF streamOK, longer, new
<1> QED BY <1>7, <1>8 DEF longer

LEMMA LogAppend ==
    ASSUME NEW log \in Log, NEW sofar \in Nat, NEW r \in StoredEvent(Streams, Event),
           logOK(log, sofar),
           r.eventStoreSequenceNumber = Len(log) + 1,
           r.aggregateVersion = aggregateVersionInRecords(log, r.aggregateId) + 1,
           streamOf(r.event) = r.aggregateId,
           r.event.number <= sofar,
           \A k \in DOMAIN eventsOf(log, r.aggregateId) :
              eventsOf(log, r.aggregateId)[k].number < r.event.number
    PROVE  logOK(Append(log, r), sofar)
<1> DEFINE longer == Append(log, r)
           N == Len(log)
<1>1. /\ N \in Nat /\ longer \in Log /\ DOMAIN log = 1 .. N /\ DOMAIN longer = 1 .. N + 1
      /\ \A n \in 1 .. N : longer[n] = log[n]
      /\ longer[N + 1] = r
  BY AppendProperties, LenProperties DEF Log
<1>2. orderlyLog(longer)
  BY OrderlyAppend DEF Log, logOK
<1>3. r.eventStoreSequenceNumber >= 1 /\ r.aggregateId \in Streams
  BY <1>1 DEF StoredEvent
<1>4. ASSUME NEW stream \in Streams PROVE streamOK(longer, stream, sofar)
  <2>1. streamOK(log, stream, sofar)
    BY DEF logOK
  <2> QED BY <1>3, <2>1, StreamAppend
<1> HIDE DEF longer, N
<1>5. \A i \in DOMAIN longer : streamOf(longer[i].event) = longer[i].aggregateId
  <2>1. \A i \in 1 .. N : streamOf(log[i].event) = log[i].aggregateId
    BY <1>1 DEF logOK
  <2>2. \A i \in 1 .. N + 1 : i # N + 1 => i \in 1 .. N
    BY <1>1
  <2> QED BY <1>1, <2>1, <2>2
<1>6. ASSUME NEW i \in DOMAIN longer, NEW j \in DOMAIN longer, i < j,
             longer[i].aggregateId = longer[j].aggregateId
      PROVE  longer[i].event.number < longer[j].event.number
  <2>1. i \in 1 .. N /\ longer[i] = log[i]
    BY <1>1, <1>6
  <2>2. CASE j = N + 1
    <3>1. log[i].aggregateId = r.aggregateId
      BY <1>1, <1>6, <2>1, <2>2
    <3>2. streamOK(log, r.aggregateId, sofar)
      BY <1>3 DEF logOK
    <3>3. \E k \in DOMAIN eventsOf(log, r.aggregateId) :
             eventsOf(log, r.aggregateId)[k] = log[i].event
      BY <1>1, <2>1, <3>1, <3>2 DEF streamOK
    <3> QED BY <1>1, <2>1, <2>2, <3>3
  <2>3. CASE j # N + 1
    <3>1. j \in 1 .. N /\ longer[j] = log[j]
      BY <1>1, <2>3
    <3> QED BY <1>1, <1>6, <2>1, <3>1 DEF logOK
  <2> QED BY <2>2, <2>3
<1> QED BY <1>1, <1>2, <1>4, <1>5, <1>6 DEF logOK, longer

\* The events after n events of "es" were added to those before.
grown(before, es, n, after) ==
    /\ Len(after) = Len(before) + n
    /\ \A i \in 1 .. Len(before) : after[i] = before[i]
    /\ \A i \in 1 .. n : after[Len(before) + i] = es[i]

\* New events come after those the stream has.
allLater(log, stream, es) ==
    \A i \in DOMAIN es : \A k \in DOMAIN eventsOf(log, stream) :
       eventsOf(log, stream)[k].number < es[i].number

\* What append makes of a log.
appended(log, stream, es) ==
    log \o storedEventsForAppend(stream, es, aggregateVersionInRecords(log, stream), Len(log))

(***************************************************************************)
(* What a whole batch does to the log: its stream gets all of its events,  *)
(* in their order, and no other stream gets any.                           *)
(***************************************************************************)
LEMMA BatchAppend ==
    ASSUME NEW log \in Log, NEW sofar \in Nat, NEW stream \in Streams, NEW es \in Seq(Event),
           logOK(log, sofar), ascending(es), ofStream(es, stream, sofar),
           allLater(log, stream, es),
           NEW longer, longer = appended(log, stream, es)
    PROVE  /\ logOK(longer, sofar)
           /\ grown(eventsOf(log, stream), es, Len(es), eventsOf(longer, stream))
           /\ \A other \in Streams \ {stream} : eventsOf(longer, other) = eventsOf(log, other)
<1> DEFINE N == Len(es)
           V == aggregateVersionInRecords(log, stream)
           old == eventsOf(log, stream)
           after(n) == withBatch(log, stream, es, V, n)
           r(n) == batchRecord(stream, es, V, Len(log), n)
           Done == {n \in 0 .. N :
                      /\ logOK(after(n), sofar)
                      /\ grown(old, es, n, eventsOf(after(n), stream))
                      /\ \A other \in Streams \ {stream} :
                            eventsOf(after(n), other) = eventsOf(log, other)}
<1>1. N \in Nat /\ DOMAIN es = 1 .. N /\ Len(log) \in Nat
  BY LenProperties DEF Log
<1>2. streamOK(log, stream, sofar)
  BY DEF logOK
<1>3. old \in Seq(Event) /\ Len(old) = V /\ Len(old) \in Nat /\ DOMAIN old = 1 .. Len(old)
  BY <1>2, LenProperties DEF streamOK
<1>4. ASSUME NEW n \in 1 .. N
      PROVE  /\ r(n) \in StoredEvent(Streams, Event)
             /\ r(n).aggregateId = stream /\ r(n).event = es[n]
             /\ r(n).aggregateVersion = V + n
             /\ r(n).eventStoreSequenceNumber = Len(log) + n
  <2>1. es[n] \in Event /\ V + n \in Nat /\ Len(log) + n \in Nat
    BY <1>1, <1>3
  <2> HIDE DEF V, N
  <2> QED BY <2>1 DEF batchRecord, StoredEvent
<1>5. /\ longer = after(N)
      /\ after(0) = log
      /\ \A n \in 0 .. N : after(n) \in Log /\ Len(after(n)) = Len(log) + n
      /\ \A n \in 1 .. N : after(n) = Append(after(n - 1), r(n))
  <2> HIDE DEF V, N
  <2>1. \A n \in 1 .. N : batchRecord(stream, es, V, Len(log), n) \in StoredEvent(Streams, Event)
    BY <1>4
  <2>2. longer = log \o storedEventsForAppend(stream, es, V, Len(log))
    BY DEF V, appended
  <2>3. fitsLog(StoredEvent(Streams, Event), log, stream, es, V)
    BY <1>1, <2>1 DEF fitsLog, N
  <2>4. addsBatch(StoredEvent(Streams, Event), log, stream, es, V)
    BY <2>3, BatchByBatch DEF Log
  <2> QED BY <2>2, <2>4 DEF addsBatch, N, Log
<1> HIDE DEF N, V, old, after, r
<1>6. 0 \in Done
  BY <1>1, <1>3, <1>5 DEF grown, old
<1>7. ASSUME NEW n \in 1 .. N, n - 1 \in Done PROVE n \in Done
  <2> DEFINE a == after(n - 1)
             events == eventsOf(a, stream)
  <2>1. /\ a \in Log /\ Len(a) = Len(log) + (n - 1) /\ logOK(a, sofar)
        /\ grown(old, es, n - 1, events)
        /\ \A other \in Streams \ {stream} : eventsOf(a, other) = eventsOf(log, other)
        /\ after(n) = Append(a, r(n))
    BY <1>1, <1>5, <1>7
  <2>2. streamOK(a, stream, sofar)
    BY <2>1 DEF logOK
  <2>3. /\ events \in Seq(Event) /\ Len(events) = aggregateVersionInRecords(a, stream)
        /\ Len(events) = V + (n - 1) /\ DOMAIN events = 1 .. V + (n - 1)
    <3>1. Len(events) = V + (n - 1)
      BY <1>3, <2>1 DEF grown
    <3>2. events \in Seq(Event) /\ Len(events) = aggregateVersionInRecords(a, stream)
      BY <2>2 DEF streamOK
    <3> QED BY <3>1, <3>2, LenProperties
  <2> HIDE DEF a, events
  <2>4. streamOf(es[n]) = stream /\ es[n].number <= sofar
    BY <1>1 DEF ofStream
  <2>5. ASSUME NEW k \in DOMAIN events PROVE events[k].number < es[n].number
    <3>1. CASE k <= V
      <4>1. k \in 1 .. Len(old) /\ k \in DOMAIN old
        BY <1>1, <1>3, <2>3, <3>1
      <4>2. events[k] = old[k]
        BY <2>1, <4>1 DEF grown
      <4>3. n \in DOMAIN es
        BY <1>1
      <4> QED BY <4>1, <4>2, <4>3 DEF allLater, old
    <3>2. CASE k > V
      <4>1. /\ k - V \in 1 .. n - 1 /\ k - V \in DOMAIN es /\ n \in DOMAIN es /\ k - V < n
            /\ Len(old) + (k - V) = k
        BY <1>1, <1>3, <2>3, <3>2
      <4>2. events[k] = es[k - V]
        BY <2>1, <4>1 DEF grown
      <4> QED BY <4>1, <4>2 DEF ascending
    <3> QED BY <1>1, <1>3, <2>3, <3>1, <3>2
  <2>6. logOK(after(n), sofar)
    <3>1. r(n).eventStoreSequenceNumber = Len(a) + 1
      BY <1>1, <1>4, <2>1
    <3>2. r(n).aggregateVersion = aggregateVersionInRecords(a, r(n).aggregateId) + 1
      <4>1. r(n).aggregateId = stream /\ r(n).aggregateVersion = V + n
        BY <1>4
      <4>2. aggregateVersionInRecords(a, stream) = V + (n - 1) /\ V \in Nat
        BY <1>3, <2>3
      <4> QED BY <1>1, <4>1, <4>2
    <3> QED BY <1>4, <2>1, <2>4, <2>5, <3>1, <3>2, LogAppend DEF events
  <2>7. r(n).eventStoreSequenceNumber >= 1
    BY <1>1, <1>4
  <2>8. ASSUME NEW other \in Streams \ {stream}
        PROVE  eventsOf(after(n), other) = eventsOf(log, other)
    <3>1. eventsOf(after(n), other) = eventsOf(a, other)
      BY <1>4, <2>1, <2>7, EventsAppend
    <3> QED BY <2>1, <3>1
  <2>9. grown(old, es, n, eventsOf(after(n), stream))
    <3>1. eventsOf(after(n), stream) = Append(events, es[n])
      BY <1>4, <2>1, <2>7, EventsAppend DEF events
    <3>2. es[n] \in Event
      BY <1>1
    <3>3. /\ Len(Append(events, es[n])) = Len(old) + n
          /\ \A i \in 1 .. V + (n - 1) : Append(events, es[n])[i] = events[i]
          /\ Append(events, es[n])[V + n] = es[n]
      <4>1. Len(events) = V + (n - 1) /\ Len(events) + 1 = V + n /\ V + n = Len(old) + n
        BY <1>1, <1>3, <2>3
      <4>2. /\ Len(Append(events, es[n])) = Len(events) + 1
            /\ \A i \in 1 .. Len(events) : Append(events, es[n])[i] = events[i]
            /\ Append(events, es[n])[Len(events) + 1] = es[n]
        BY <2>3, <3>2, AppendProperties
      <4> QED BY <4>1, <4>2
    <3> DEFINE more == Append(events, es[n])
    <3> HIDE DEF more
    <3>4. \A i \in 1 .. Len(old) : more[i] = old[i]
      <4>1. \A i \in 1 .. Len(old) : i \in 1 .. V + (n - 1)
        BY <1>1, <1>3
      <4> QED BY <2>1, <3>3, <4>1 DEF grown, more
    <3>5. ASSUME NEW i \in 1 .. n PROVE more[Len(old) + i] = es[i]
      <4>1. CASE i = n
        BY <1>3, <3>3, <4>1 DEF more
      <4>2. CASE i # n
        <5>1. i \in 1 .. n - 1 /\ Len(old) + i \in 1 .. V + (n - 1)
          BY <1>1, <1>3, <4>2
        <5> QED BY <2>1, <3>3, <5>1 DEF grown, more
      <4> QED BY <4>1, <4>2
    <3> QED BY <3>1, <3>3, <3>4, <3>5 DEF grown, more
  <2> QED BY <1>1, <2>6, <2>8, <2>9
<1> HIDE DEF Done
<1>8. N \in Done
  <2>1. \A n \in 0 .. N : n \in Done
    BY <1>1, <1>6, <1>7, UpTo, Zenon
  <2> QED BY <1>1, <2>1
<1> QED BY <1>5, <1>8 DEF Done, N, old

-----------------------------------------------------------------------------
\* What a copy that somebody holds is made of.
LEMMA CopyType ==
    ASSUME NEW log, NEW sofar \in Nat, NEW copy, copyOK(copy, log, sofar)
    PROVE  /\ copy.state \in Seq(Event) /\ copy.pendingEvents \in Seq(Event)
           /\ Len(copy.state) \in Nat /\ Len(copy.pendingEvents) \in Nat
           /\ copy.version = Len(copy.state)
           /\ expectedVersion(copy) \in Nat
           /\ expectedVersion(copy) + Len(copy.pendingEvents) = Len(copy.state)
           /\ streamOf(copy) \in Streams
<1>1. /\ copy.state \in Seq(Event) /\ copy.pendingEvents \in Seq(Event)
      /\ copy.repository \in Repositories /\ copy.aggregateId \in AggregateIds
      /\ copy.version = Len(copy.state)
      /\ Len(copy.pendingEvents) <= copy.version
  BY DEF copyOK, Copy
<1>2. Len(copy.state) \in Nat /\ Len(copy.pendingEvents) \in Nat
  BY <1>1, LenProperties
<1>3. streamOf(copy) \in Streams
  BY <1>1 DEF streamOf, Streams
<1>4. expectedVersion(copy) = copy.version - Len(copy.pendingEvents)
  BY DEF expectedVersion
<1> QED BY <1>1, <1>2, <1>3, <1>4

(***************************************************************************)
(* A copy stays a past state of its stream when the stream only grows.     *)
(***************************************************************************)
LEMMA CopyKept ==
    ASSUME NEW log, NEW longer, NEW sofar \in Nat, NEW later \in Nat, sofar <= later,
           NEW copy, copyOK(copy, log, sofar),
           Len(eventsOf(log, streamOf(copy))) \in Nat,
           NEW n \in Nat, NEW es,
           grown(eventsOf(log, streamOf(copy)), es, n, eventsOf(longer, streamOf(copy)))
    PROVE  copyOK(copy, longer, later)
<1> DEFINE clean == expectedVersion(copy)
           old == eventsOf(log, streamOf(copy))
           new == eventsOf(longer, streamOf(copy))
<1>1. /\ copy \in Copy /\ copy.version = Len(copy.state)
      /\ Len(copy.pendingEvents) <= copy.version
      /\ ascending(copy.state)
      /\ clean <= Len(old)
      /\ \A i \in 1 .. clean : copy.state[i] = old[i]
      /\ \A i \in 1 .. Len(copy.pendingEvents) :
            copy.state[clean + i] = copy.pendingEvents[i]
  BY DEF copyOK
<1>2. ofStream(copy.state, streamOf(copy), later)
  <2>1. ofStream(copy.state, streamOf(copy), sofar)
    BY DEF copyOK
  <2>2. \A i \in DOMAIN copy.state : copy.state[i].number \in Nat
    <3>1. copy.state \in Seq(Event)
      BY CopyType
    <3>2. \A i \in DOMAIN copy.state : copy.state[i] \in Event
      BY <3>1
    <3>3. \A e \in Event : e.number \in Nat
      BY RepositoryAssumption DEF Event
    <3> QED BY <3>2, <3>3
  <2> QED BY <2>1, <2>2 DEF ofStream
<1>3. clean \in Nat
  BY CopyType
<1>4. /\ Len(new) = Len(old) + n
      /\ \A i \in 1 .. Len(old) : new[i] = old[i]
  BY DEF grown
<1> HIDE DEF clean, old, new
<1>5. clean <= Len(new) /\ \A i \in 1 .. clean : copy.state[i] = new[i]
  BY <1>1, <1>3, <1>4 DEF old
<1> QED BY <1>1, <1>2, <1>5 DEF copyOK, clean, new

\* A stream that gets no events.
LEMMA GrownByNothing ==
    ASSUME NEW before, Len(before) \in Nat
    PROVE  grown(before, <<>>, 0, before)
BY DEF grown

\* Streams have lengths.
LEMMA StreamLength ==
    ASSUME NEW log, NEW sofar, logOK(log, sofar), NEW stream \in Streams
    PROVE  /\ eventsOf(log, stream) \in Seq(Event)
           /\ Len(eventsOf(log, stream)) \in Nat
           /\ Len(eventsOf(log, stream)) = aggregateVersionInRecords(log, stream)
<1>1. streamOK(log, stream, sofar)
  BY DEF logOK
<1> QED BY <1>1, LenProperties DEF streamOK

(***************************************************************************)
(* More events recorded, none of them stored: the log and the copies of    *)
(* it are as they were.                                                    *)
(***************************************************************************)
LEMMA LogKept ==
    ASSUME NEW log, NEW sofar \in Nat, NEW later \in Nat, sofar <= later, logOK(log, sofar)
    PROVE  logOK(log, later)
<1>1. ASSUME NEW stream \in Streams PROVE streamOK(log, stream, later)
  <2>1. streamOK(log, stream, sofar)
    BY DEF logOK
  <2>2. eventsOf(log, stream) \in Seq(Event)
    BY StreamLength
  <2> DEFINE events == eventsOf(log, stream)
  <2>3. \A i \in DOMAIN events : events[i].number \in Nat
    <3>1. \A i \in DOMAIN events : events[i] \in Event
      BY <2>2
    <3>2. \A e \in Event : e.number \in Nat
      BY RepositoryAssumption DEF Event
    <3> QED BY <3>1, <3>2
  <2>4. ofStream(events, stream, sofar)
    BY <2>1 DEF streamOK
  <2>5. ofStream(events, stream, later)
    BY <2>3, <2>4 DEF ofStream
  <2> QED BY <2>1, <2>5 DEF streamOK
<1> QED BY <1>1 DEF logOK

LEMMA CopyStays ==
    ASSUME NEW log, NEW sofar \in Nat, NEW later \in Nat, sofar <= later, logOK(log, sofar),
           NEW copy, copyOK(copy, log, sofar)
    PROVE  copyOK(copy, log, later)
<1>1. streamOf(copy) \in Streams
  BY CopyType
<1>2. Len(eventsOf(log, streamOf(copy))) \in Nat
  BY <1>1, StreamLength
<1>3. grown(eventsOf(log, streamOf(copy)), <<>>, 0, eventsOf(log, streamOf(copy)))
  BY <1>2, GrownByNothing
<1> QED BY <1>2, <1>3, CopyKept

-----------------------------------------------------------------------------
\* The invariant holds initially.
LEMMA Initially == Init => RInv
<1> SUFFICES ASSUME Init PROVE RInv
  OBVIOUS
<1>1. /\ records = <<>> /\ recorded = 0
      /\ held = [c \in Callers |-> NoCopy] /\ checked = [c \in Callers |-> Nothing]
  BY DEF Init
<1>2. /\ <<>> \in Log /\ DOMAIN <<>> = {} /\ Len(<<>>) = 0 /\ <<>> \in Seq(Event)
  BY DEF Log
<1>3. ASSUME NEW stream \in Streams PROVE streamOK(<<>>, stream, 0)
  <2>1. eventsOf(<<>>, stream) = <<>>
    BY NoEvents
  <2>2. aggregateVersionInRecords(<<>>, stream) = 0
    <3>1. {i \in DOMAIN <<>> : <<>>[i].aggregateId = stream} = {}
      BY <1>2
    <3> QED BY <3>1, FS_EmptySet DEF aggregateVersionInRecords
  <2> QED BY <1>2, <2>1, <2>2 DEF streamOK, ascending, ofStream
<1>4. logOK(<<>>, 0)
  BY <1>2, <1>3 DEF logOK, orderlyLog
<1>5. 0 \in 0 .. MaxEvents
  BY RepositoryAssumption
<1> QED BY <1>1, <1>4, <1>5 DEF RInv, holdsCopy, isSaving

\* Nobody is inside append while a caller does something else.
LEMMA NobodySaving ==
    ASSUME ~ Preemptive, NEW c \in Callers, mayRun(c), ~ isSaving(c)
    PROVE  \A d \in Callers : ~ isSaving(d)
BY DEF mayRun

(***************************************************************************)
(* A caller that changes nothing but the copy it holds, outside append.    *)
(***************************************************************************)
LEMMA CopyStep ==
    ASSUME RInv, ~ Preemptive, NEW c \in Callers, mayRun(c), ~ isSaving(c),
           NEW copy, held' = [held EXCEPT ![c] = copy],
           recorded' \in 0 .. MaxEvents, recorded <= recorded',
           copy # NoCopy => copyOK(copy, records, recorded'),
           UNCHANGED <<records, checked>>
    PROVE  RInv'
<1>1. /\ recorded \in Nat /\ recorded' \in Nat
      /\ DOMAIN held = Callers /\ DOMAIN checked = Callers
      /\ logOK(records, recorded)
  BY RepositoryAssumption DEF RInv
<1>2. logOK(records', recorded')
  BY <1>1, LogKept
<1>3. ASSUME NEW d \in Callers, holdsCopy(d)' PROVE copyOK(held'[d], records', recorded')
  <2>1. CASE d = c
    BY <1>1, <1>3, <2>1 DEF holdsCopy
  <2>2. CASE d # c
    <3>1. held'[d] = held[d] /\ holdsCopy(d)
      BY <1>1, <1>3, <2>2 DEF holdsCopy
    <3>2. copyOK(held[d], records, recorded)
      BY <3>1 DEF RInv
    <3> QED BY <1>1, <3>1, <3>2, CopyStays
  <2> QED BY <2>1, <2>2
<1>4. \A d \in Callers : ~ isSaving(d)'
  BY NobodySaving DEF isSaving
<1> QED BY <1>1, <1>2, <1>3, <1>4 DEF RInv

\* The copy a caller makes of an aggregate, field by field.
LEMMA NewCopy ==
    ASSUME NEW r, NEW id, NEW n, NEW e, NEW z, NEW base, NEW copy,
           base = [repository |-> n, aggregateId |-> n, state |-> e, version |-> z,
                   pendingEvents |-> e],
           copy = [base EXCEPT !.repository = r, !.aggregateId = id]
    PROVE  copy = [repository |-> r, aggregateId |-> id, state |-> e, version |-> z,
                   pendingEvents |-> e]
OBVIOUS

\* A saved copy is the copy without its pending events.
LEMMA SavedCopy ==
    ASSUME NEW old \in Copy, NEW copy, copy = [old EXCEPT !.pendingEvents = <<>>]
    PROVE  /\ copy \in Copy /\ copy.pendingEvents = <<>>
           /\ copy.state = old.state /\ copy.version = old.version
           /\ copy.repository = old.repository /\ copy.aggregateId = old.aggregateId
<1>1. <<>> \in Seq(Event)
  OBVIOUS
<1> QED BY <1>1 DEF Copy

LEMMA MakeAggregateStep ==
    ASSUME RInv, ~ Preemptive, NEW c \in Callers, MakeAggregate(c)
    PROVE  RInv'
<1>1. PICK r \in Repositories, id \in AggregateIds :
         held' = [held EXCEPT ![c] = [NoCopy EXCEPT !.repository = r, !.aggregateId = id]]
  BY DEF MakeAggregate
<1> DEFINE copy == [NoCopy EXCEPT !.repository = r, !.aggregateId = id]
<1>2. copy = [repository |-> r, aggregateId |-> id, state |-> <<>>, version |-> 0,
              pendingEvents |-> <<>>]
  <2>1. NoCopy = [repository |-> "none", aggregateId |-> "none", state |-> <<>>,
                  version |-> 0, pendingEvents |-> <<>>]
    BY DEF NoCopy
  <2> DEFINE base == NoCopy
  <2>2. base = NoCopy /\ copy = [base EXCEPT !.repository = r, !.aggregateId = id]
    OBVIOUS
  <2> HIDE DEF base, copy
  <2> QED BY <2>1, <2>2, NewCopy, Zenon
<1>3. mayRun(c) /\ ~ isSaving(c) /\ UNCHANGED <<records, checked, recorded>>
  BY DEF MakeAggregate
<1>4. recorded \in 0 .. MaxEvents /\ logOK(records, recorded)
  BY DEF RInv
<1> HIDE DEF copy
<1>5. copyOK(copy, records, recorded)
  <2>1. streamOf(copy) = streamName(r, id) /\ streamOf(copy) \in Streams
    BY <1>2 DEF streamOf, Streams
  <2>2. Len(eventsOf(records, streamOf(copy))) \in Nat
    BY <1>4, <2>1, StreamLength
  <2>3. /\ copy.state = <<>> /\ copy.pendingEvents = <<>> /\ copy.version = 0
        /\ Len(<<>>) = 0 /\ DOMAIN <<>> = {}
    BY <1>2
  <2>4. expectedVersion(copy) = 0
    <3>1. Len(copy.pendingEvents) = 0 /\ copy.version = 0
      BY <2>3
    <3> QED BY <3>1 DEF expectedVersion
  <2>5. copy \in Copy
    BY <1>2 DEF Copy
  <2> QED BY <2>2, <2>3, <2>4, <2>5 DEF copyOK, ascending, ofStream
<1>6. recorded <= recorded' /\ recorded' \in 0 .. MaxEvents /\ recorded' = recorded
  BY <1>3, <1>4, RepositoryAssumption
<1> QED BY <1>1, <1>3, <1>5, <1>6, CopyStep DEF copy

LEMMA LoadStep ==
    ASSUME RInv, ~ Preemptive, NEW c \in Callers, Load(c)
    PROVE  RInv'
<1>1. PICK r \in Repositories, id \in AggregateIds :
         held' = [held EXCEPT ![c] =
            [repository |-> r, aggregateId |-> id,
             state |-> eventsOf(records, streamName(r, id)),
             version |-> Len(eventsOf(records, streamName(r, id))), pendingEvents |-> <<>>]]
  BY DEF Load
<1> DEFINE stream == streamName(r, id)
           events == eventsOf(records, stream)
           copy == [repository |-> r, aggregateId |-> id, state |-> events,
                    version |-> Len(events), pendingEvents |-> <<>>]
<1>2. mayRun(c) /\ ~ isSaving(c) /\ UNCHANGED <<records, checked, recorded>>
  BY DEF Load
<1>3. recorded \in 0 .. MaxEvents /\ logOK(records, recorded)
  BY DEF RInv
<1>4. stream \in Streams
  BY DEF Streams
<1>5. streamOK(records, stream, recorded) /\ events \in Seq(Event) /\ Len(events) \in Nat
  <2> HIDE DEF stream
  <2> QED BY <1>3, <1>4, StreamLength DEF logOK
<1>6. ascending(events) /\ ofStream(events, stream, recorded)
  BY <1>5 DEF streamOK
<1>7. streamOf(copy) = stream
  BY DEF streamOf
<1> HIDE DEF events, stream
<1>8. /\ copy.state = events /\ copy.version = Len(events) /\ copy.pendingEvents = <<>>
      /\ Len(<<>>) = 0 /\ copy \in Copy
  BY <1>5 DEF Copy
<1> HIDE DEF copy
<1>9. expectedVersion(copy) = Len(events)
  BY <1>5, <1>8 DEF expectedVersion
<1>10. copyOK(copy, records, recorded)
  BY <1>5, <1>6, <1>7, <1>8, <1>9 DEF copyOK, events
<1>11. recorded <= recorded' /\ recorded' \in 0 .. MaxEvents /\ recorded' = recorded
  BY <1>2, <1>3, RepositoryAssumption
<1> QED BY <1>1, <1>2, <1>10, <1>11, CopyStep DEF copy, events, stream

LEMMA TakeOverStep ==
    ASSUME RInv, ~ Preemptive, NEW c \in Callers, TakeOver(c)
    PROVE  RInv'
<1>1. PICK d \in Callers : holdsCopy(d) /\ held' = [held EXCEPT ![c] = held[d]]
  BY DEF TakeOver
<1>2. mayRun(c) /\ ~ isSaving(c) /\ UNCHANGED <<records, checked, recorded>>
  BY DEF TakeOver
<1>3. copyOK(held[d], records, recorded)
  BY <1>1 DEF RInv
<1>4. recorded <= recorded' /\ recorded' \in 0 .. MaxEvents /\ recorded' = recorded
  BY <1>2, RepositoryAssumption DEF RInv
<1> QED BY <1>1, <1>2, <1>3, <1>4, CopyStep

LEMMA RecordEventStep ==
    ASSUME RInv, ~ Preemptive, NEW c \in Callers, RecordEvent(c)
    PROVE  RInv'
<1> DEFINE old == held[c]
           event == [repository |-> old.repository, aggregateId |-> old.aggregateId,
                     number |-> recorded + 1]
           copy == [old EXCEPT !.state = Append(@, event), !.version = @ + 1,
                               !.pendingEvents = Append(@, event)]
           stream == streamOf(old)
           events == eventsOf(records, stream)
           clean == expectedVersion(old)
<1>1. /\ mayRun(c) /\ ~ isSaving(c) /\ holdsCopy(c)
      /\ recorded < MaxEvents /\ recorded' = recorded + 1
      /\ UNCHANGED <<records, checked>>
  BY DEF RecordEvent
<1>2. held' = [held EXCEPT ![c] = copy]
  BY DEF RecordEvent
<1>3. /\ recorded \in Nat /\ recorded' \in 0 .. MaxEvents /\ recorded <= recorded'
      /\ copyOK(old, records, recorded)
  BY <1>1, RepositoryAssumption DEF RInv
<1>4. /\ old \in Copy
      /\ Len(old.pendingEvents) <= old.version
      /\ ascending(old.state)
      /\ ofStream(old.state, stream, recorded)
      /\ clean <= Len(events)
      /\ \A i \in 1 .. clean : old.state[i] = events[i]
      /\ \A i \in 1 .. Len(old.pendingEvents) : old.state[clean + i] = old.pendingEvents[i]
  BY <1>3 DEF copyOK
<1>5. /\ old.state \in Seq(Event) /\ old.pendingEvents \in Seq(Event)
      /\ Len(old.state) \in Nat /\ Len(old.pendingEvents) \in Nat
      /\ old.version = Len(old.state)
      /\ clean \in Nat /\ clean + Len(old.pendingEvents) = Len(old.state)
  BY <1>3, CopyType
<1>6. /\ event \in Event /\ streamOf(event) = stream /\ event.number = recorded'
  BY <1>1, <1>3, <1>4, RepositoryAssumption DEF Event, Copy, streamOf
<1> HIDE DEF event
<1>7. /\ copy.state = Append(old.state, event) /\ copy.version = old.version + 1
      /\ copy.pendingEvents = Append(old.pendingEvents, event)
      /\ copy.repository = old.repository /\ copy.aggregateId = old.aggregateId
  BY <1>4 DEF Copy
<1>8. copy \in Copy
  <2>1. copy.state \in Seq(Event) /\ copy.pendingEvents \in Seq(Event) /\ copy.version \in Nat
    BY <1>5, <1>6, <1>7, AppendProperties
  <2> QED BY <1>4, <2>1 DEF Copy
<1> HIDE DEF copy, old
<1>9. streamOf(copy) = stream
  BY <1>7 DEF streamOf
<1> DEFINE N == Len(old.state)
           P == Len(old.pendingEvents)
<1>10. /\ Len(copy.state) = N + 1 /\ DOMAIN copy.state = 1 .. N + 1
       /\ \A i \in 1 .. N : copy.state[i] = old.state[i]
       /\ copy.state[N + 1] = event
       /\ DOMAIN old.state = 1 .. N
  BY <1>5, <1>6, <1>7, AppendProperties, LenProperties
<1>11. /\ Len(copy.pendingEvents) = P + 1
       /\ \A i \in 1 .. P : copy.pendingEvents[i] = old.pendingEvents[i]
       /\ copy.pendingEvents[P + 1] = event
  BY <1>5, <1>6, <1>7, AppendProperties, LenProperties
<1>12. expectedVersion(copy) = clean
  BY <1>5, <1>7, <1>11 DEF expectedVersion
<1> HIDE DEF N, P, clean, events, stream
<1>13. \A i \in 1 .. N : old.state[i] \in Event /\ old.state[i].number \in Nat
                         /\ old.state[i].number <= recorded
  <2>1. \A i \in 1 .. N : old.state[i] \in Event
    BY <1>5 DEF N
  <2>2. \A e \in Event : e.number \in Nat
    BY RepositoryAssumption DEF Event
  <2> QED BY <1>4, <1>10, <2>1, <2>2 DEF ofStream
<1>14. N \in Nat /\ P \in Nat /\ clean \in Nat /\ clean + P = N
  BY <1>5 DEF N, P
<1>15. ascending(copy.state)
  <2>1. ASSUME NEW i \in DOMAIN copy.state, NEW j \in DOMAIN copy.state, i < j
        PROVE  copy.state[i].number < copy.state[j].number
    <3>1. i \in 1 .. N
      BY <1>10, <1>14, <2>1
    <3>2. CASE j = N + 1
      BY <1>1, <1>3, <1>6, <1>10, <1>13, <3>1, <3>2
    <3>3. CASE j # N + 1
      <4>1. j \in 1 .. N
        BY <1>10, <1>14, <3>3
      <4> QED BY <1>4, <1>10, <2>1, <3>1, <4>1 DEF ascending
    <3> QED BY <3>2, <3>3
  <2> QED BY <2>1 DEF ascending
<1>16. ofStream(copy.state, stream, recorded')
  <2>1. ASSUME NEW i \in DOMAIN copy.state
        PROVE  streamOf(copy.state[i]) = stream /\ copy.state[i].number <= recorded'
    <3>1. CASE i = N + 1
      BY <1>3, <1>6, <1>10, <3>1
    <3>2. CASE i # N + 1
      <4>1. i \in 1 .. N
        BY <1>10, <1>14, <3>2
      <4> QED BY <1>1, <1>3, <1>4, <1>10, <1>13, <4>1 DEF ofStream
    <3> QED BY <3>1, <3>2
  <2> QED BY <2>1 DEF ofStream
<1>17. \A i \in 1 .. clean : copy.state[i] = events[i]
  BY <1>4, <1>10, <1>14
<1>18. ASSUME NEW i \in 1 .. P + 1
       PROVE  copy.state[clean + i] = copy.pendingEvents[i]
  <2>1. CASE i = P + 1
    BY <1>10, <1>11, <1>14, <2>1
  <2>2. CASE i # P + 1
    <3>1. i \in 1 .. P /\ clean + i \in 1 .. N
      BY <1>14, <2>2
    <3> QED BY <1>4, <1>10, <1>11, <3>1 DEF P
  <2> QED BY <2>1, <2>2
<1>19. copy.version = Len(copy.state) /\ Len(copy.pendingEvents) <= copy.version
  BY <1>5, <1>7, <1>10, <1>11, <1>14 DEF N
<1>20. copyOK(copy, records, recorded')
  BY <1>4, <1>8, <1>9, <1>11, <1>12, <1>15, <1>16, <1>17, <1>18, <1>19
     DEF copyOK, clean, events
<1> QED BY <1>1, <1>2, <1>3, <1>20, CopyStep

LEMMA CheckStep ==
    ASSUME RInv, ~ Preemptive, NEW c \in Callers, Check(c)
    PROVE  RInv'
<1> DEFINE add == Stored(storedEventsForAppend(streamOf(held[c]), held[c].pendingEvents,
                     aggregateVersionInRecords(records, streamOf(held[c])), Len(records)))
<1>1. /\ mayRun(c) /\ ~ isSaving(c) /\ holdsCopy(c) /\ atExpectedVersion(c)
      /\ checked' = [checked EXCEPT ![c] = add]
      /\ UNCHANGED <<records, held, recorded>>
  BY DEF Check
<1>2. \A d \in Callers : ~ isSaving(d)
  BY <1>1, NobodySaving
<1>3. \A d \in Callers : isSaving(d)' => d = c
  <2> HIDE DEF add
  <2> QED BY <1>1, <1>2 DEF RInv, isSaving
<1>4. savingOK(c)'
  BY <1>1 DEF RInv, savingOK, holdsCopy, atExpectedVersion
<1>5. DOMAIN checked' = Callers
  BY <1>1 DEF RInv
<1> HIDE DEF add
<1>6. \A d \in Callers : holdsCopy(d)' <=> holdsCopy(d)
  BY <1>1 DEF holdsCopy
<1> QED BY <1>1, <1>3, <1>4, <1>5, <1>6 DEF RInv

LEMMA QuietStep ==
    ASSUME RInv, UNCHANGED vars
    PROVE  RInv'
BY DEF RInv, vars, savingOK, holdsCopy, isSaving, atExpectedVersion

(***************************************************************************)
(* What a caller that goes through with its save does to the log: its      *)
(* stream is what the copy says, and no other stream has changed.          *)
(***************************************************************************)
LEMMA UpdateAppends ==
    ASSUME RInv, NEW c \in Callers, isSaving(c), Update(c)
    PROVE  /\ copyOK(held[c], records, recorded)
           /\ logOK(records', recorded)
           /\ grown(eventsOf(records, streamOf(held[c])), held[c].pendingEvents,
                    Len(held[c].pendingEvents), eventsOf(records', streamOf(held[c])))
           /\ \A other \in Streams \ {streamOf(held[c])} :
                 eventsOf(records', other) = eventsOf(records, other)
           /\ eventsOf(records', streamOf(held[c])) = held[c].state
<1> DEFINE copy == held[c]
           stream == streamOf(copy)
           es == copy.pendingEvents
           old == eventsOf(records, stream)
           new == eventsOf(records', stream)
           clean == expectedVersion(copy)
           V == aggregateVersionInRecords(records, stream)
<1>1. /\ savingOK(c) /\ logOK(records, recorded) /\ recorded \in Nat
      /\ copyOK(copy, records, recorded)
  BY RepositoryAssumption DEF RInv, savingOK
<1>2. records' = records \o checked[c].records
  BY DEF Update
<1>3. checked[c] = Stored(storedEventsForAppend(stream, es, V, Len(records)))
  BY <1>1 DEF savingOK
<1>4. records' = records \o storedEventsForAppend(stream, es, V, Len(records))
  BY <1>2, <1>3 DEF Stored
<1>5. V = clean
  BY <1>1 DEF savingOK, atExpectedVersion
<1>6. /\ copy.state \in Seq(Event) /\ es \in Seq(Event) /\ Len(copy.state) \in Nat
      /\ Len(es) \in Nat /\ clean \in Nat /\ clean + Len(es) = Len(copy.state)
      /\ stream \in Streams
      /\ DOMAIN es = 1 .. Len(es) /\ DOMAIN copy.state = 1 .. Len(copy.state)
  BY <1>1, CopyType, LenProperties
<1>7. old \in Seq(Event) /\ Len(old) = V /\ DOMAIN old = 1 .. Len(old) /\ Len(old) \in Nat
  BY <1>1, <1>6, StreamLength, LenProperties
<1>8. /\ ascending(copy.state)
      /\ ofStream(copy.state, stream, recorded)
      /\ \A i \in 1 .. clean : copy.state[i] = old[i]
      /\ \A i \in 1 .. Len(es) : copy.state[clean + i] = es[i]
  BY <1>1 DEF copyOK
<1> HIDE DEF copy, stream, es, old, new, clean, V
<1>9. \A i \in 1 .. Len(es) : clean + i \in DOMAIN copy.state
  BY <1>6
<1>10. ascending(es)
  <2>1. ASSUME NEW i \in DOMAIN es, NEW j \in DOMAIN es, i < j
        PROVE  es[i].number < es[j].number
    <3>1. /\ clean + i \in DOMAIN copy.state /\ clean + j \in DOMAIN copy.state
          /\ clean + i < clean + j
          /\ copy.state[clean + i] = es[i] /\ copy.state[clean + j] = es[j]
      BY <1>6, <1>8, <1>9, <2>1
    <3> QED BY <1>8, <3>1 DEF ascending
  <2> QED BY <2>1 DEF ascending
<1>11. ofStream(es, stream, recorded)
  <2>1. ASSUME NEW i \in DOMAIN es
        PROVE  streamOf(es[i]) = stream /\ es[i].number <= recorded
    <3>1. clean + i \in DOMAIN copy.state /\ copy.state[clean + i] = es[i]
      BY <1>6, <1>8, <1>9
    <3> QED BY <1>8, <3>1 DEF ofStream
  <2> QED BY <2>1 DEF ofStream
<1>12. ASSUME NEW i \in DOMAIN es, NEW k \in DOMAIN old
       PROVE  old[k].number < es[i].number
  <2>1. /\ clean + i \in DOMAIN copy.state /\ k \in DOMAIN copy.state /\ k < clean + i
        /\ copy.state[clean + i] = es[i] /\ copy.state[k] = old[k]
    BY <1>5, <1>6, <1>7, <1>8, <1>9
  <2> QED BY <1>8, <2>1 DEF ascending
<1>13. records \in Log
  BY <1>1 DEF logOK
<1>14. /\ logOK(records', recorded)
       /\ grown(old, es, Len(es), new)
       /\ \A other \in Streams \ {stream} : eventsOf(records', other) = eventsOf(records, other)
  <2>1. allLater(records, stream, es)
    BY <1>12 DEF allLater, old
  <2>2. records' = appended(records, stream, es)
    BY <1>4 DEF V, appended
  <2>3. /\ records \in Log /\ recorded \in Nat /\ stream \in Streams /\ es \in Seq(Event)
        /\ logOK(records, recorded) /\ ascending(es) /\ ofStream(es, stream, recorded)
    BY <1>1, <1>6, <1>10, <1>11, <1>13
  <2> DEFINE longer == records'
  <2>4. longer = appended(records, stream, es)
    BY <2>2
  <2> HIDE DEF longer
  <2>5. /\ logOK(longer, recorded)
        /\ grown(eventsOf(records, stream), es, Len(es), eventsOf(longer, stream))
        /\ \A other \in Streams \ {stream} : eventsOf(longer, other) = eventsOf(records, other)
    BY <2>1, <2>3, <2>4, BatchAppend
  <2> QED BY <2>5 DEF old, new, longer
<1>15. new = copy.state
  <2>1. new \in Seq(Event)
    BY <1>6, <1>14, StreamLength DEF new
  <2>2. Len(new) = Len(copy.state)
    BY <1>5, <1>6, <1>7, <1>14 DEF grown
  <2>3. ASSUME NEW i \in 1 .. Len(new) PROVE new[i] = copy.state[i]
    <3>1. CASE i <= clean
      BY <1>5, <1>6, <1>7, <1>8, <1>14, <2>2, <3>1 DEF grown
    <3>2. CASE i > clean
      <4>1. i - clean \in 1 .. Len(es) /\ Len(old) + (i - clean) = i /\ clean + (i - clean) = i
        BY <1>5, <1>6, <1>7, <2>2, <3>2
      <4> QED BY <1>8, <1>14, <4>1 DEF grown
    <3> QED BY <1>6, <3>1, <3>2
  <2> QED BY <1>6, <2>1, <2>2, <2>3, SeqEqual
<1> QED BY <1>1, <1>14, <1>15 DEF copy, stream, es, old, new

LEMMA UpdateStep ==
    ASSUME RInv, ~ Preemptive, NEW c \in Callers, Update(c)
    PROVE  RInv'
<1> DEFINE stream == streamOf(held[c])
           es == held[c].pendingEvents
           copy == [held[c] EXCEPT !.pendingEvents = <<>>]
<1>1. /\ isSaving(c) /\ checked' = [checked EXCEPT ![c] = Nothing]
      /\ recorded' = recorded
      /\ held' \in {held, [held EXCEPT ![c].pendingEvents = <<>>]}
  BY DEF Update
<1>2. /\ copyOK(held[c], records, recorded)
      /\ logOK(records', recorded)
      /\ grown(eventsOf(records, stream), es, Len(es), eventsOf(records', stream))
      /\ \A other \in Streams \ {stream} : eventsOf(records', other) = eventsOf(records, other)
      /\ eventsOf(records', stream) = held[c].state
  BY <1>1, UpdateAppends
<1>3. recorded \in Nat /\ logOK(records, recorded) /\ DOMAIN held = Callers
  BY RepositoryAssumption DEF RInv
<1>4. Len(es) \in Nat
  BY <1>2, <1>3, CopyType
<1>5. ASSUME NEW d \in Callers, holdsCopy(d) PROVE copyOK(held[d], records', recorded)
  <2>1. copyOK(held[d], records, recorded)
    BY <1>5 DEF RInv
  <2>2. streamOf(held[d]) \in Streams
    BY <1>3, <2>1, CopyType
  <2>3. Len(eventsOf(records, streamOf(held[d]))) \in Nat
    BY <1>3, <2>2, StreamLength
  <2>4. CASE streamOf(held[d]) = stream
    BY <1>2, <1>3, <1>4, <2>1, <2>3, <2>4, CopyKept
  <2>5. CASE streamOf(held[d]) # stream
    <3>1. eventsOf(records', streamOf(held[d])) = eventsOf(records, streamOf(held[d]))
      BY <1>2, <2>2, <2>5
    <3>2. grown(eventsOf(records, streamOf(held[d])), <<>>, 0, eventsOf(records', streamOf(held[d])))
      BY <2>3, <3>1, GrownByNothing
    <3> QED BY <1>3, <2>1, <2>3, <3>2, CopyKept
  <2> QED BY <2>4, <2>5
<1>6. copyOK(copy, records', recorded)
  <2>1. /\ held[c] \in Copy /\ held[c].version = Len(held[c].state)
        /\ ascending(held[c].state)
        /\ ofStream(held[c].state, stream, recorded)
    BY <1>2 DEF copyOK
  <2>2. Len(held[c].state) \in Nat /\ held[c].version \in Nat
    BY <1>2, <1>3, CopyType
  <2>3. /\ copy \in Copy /\ copy.state = held[c].state /\ copy.version = held[c].version
        /\ copy.pendingEvents = <<>>
        /\ copy.repository = held[c].repository /\ copy.aggregateId = held[c].aggregateId
    BY <2>1, SavedCopy
  <2> HIDE DEF copy
  <2>4. Len(copy.pendingEvents) = 0
    BY <2>3
  <2>5. streamOf(copy) = stream /\ expectedVersion(copy) = Len(held[c].state)
    BY <2>1, <2>2, <2>3, <2>4 DEF streamOf, expectedVersion
  <2> HIDE DEF stream
  <2> QED BY <1>2, <2>1, <2>2, <2>3, <2>4, <2>5 DEF copyOK
<1>7. ASSUME NEW d \in Callers, holdsCopy(d)' PROVE copyOK(held'[d], records', recorded')
  <2>1. CASE held' = held
    BY <1>1, <1>5, <1>7, <2>1 DEF holdsCopy
  <2>2. CASE held' = [held EXCEPT ![c].pendingEvents = <<>>]
    <3>1. held' = [held EXCEPT ![c] = copy]
      BY <2>2
    <3> HIDE DEF copy
    <3>2. CASE d = c
      BY <1>1, <1>3, <1>6, <3>1, <3>2
    <3>3. CASE d # c
      BY <1>1, <1>3, <1>5, <1>7, <3>1, <3>3 DEF holdsCopy
    <3> QED BY <3>2, <3>3
  <2> QED BY <1>1, <2>1, <2>2
<1>8. \A d \in Callers : ~ isSaving(d)'
  BY <1>1 DEF RInv, isSaving
<1>9. DOMAIN held' = Callers /\ DOMAIN checked' = Callers /\ recorded' \in 0 .. MaxEvents
  BY <1>1 DEF RInv
<1> QED BY <1>1, <1>2, <1>7, <1>8, <1>9 DEF RInv

(***************************************************************************)
(* A copy is the facts it was made from with its pending events on top,    *)
(* and the facts are what its stream begins with.                          *)
(***************************************************************************)
LEMMA CopyParts ==
    ASSUME NEW log, NEW sofar \in Nat, logOK(log, sofar), NEW copy, copyOK(copy, log, sofar)
    PROVE  LET facts == factsOf(copy)
               events == eventsOf(log, streamOf(copy))
           IN  /\ facts \in Seq(Event) /\ Len(facts) = expectedVersion(copy)
               /\ copy.state = facts \o copy.pendingEvents
               /\ Len(facts) <= Len(events)
               /\ \A i \in 1 .. Len(facts) : facts[i] = events[i]
               /\ Len(events) = Len(facts) => facts = events
<1> DEFINE n == expectedVersion(copy)
           clean == SubSeq(copy.state, 1, n)
           events == eventsOf(log, streamOf(copy))
           P == Len(copy.pendingEvents)
<1>1. /\ copy.state \in Seq(Event) /\ copy.pendingEvents \in Seq(Event)
      /\ Len(copy.state) \in Nat /\ P \in Nat
      /\ n \in Nat /\ n + P = Len(copy.state) /\ streamOf(copy) \in Streams
  BY CopyType
<1>2. events \in Seq(Event) /\ Len(events) \in Nat
  BY <1>1, StreamLength
<1>3. /\ n <= Len(events)
      /\ \A i \in 1 .. n : copy.state[i] = events[i]
      /\ \A i \in 1 .. P : copy.state[n + i] = copy.pendingEvents[i]
  BY DEF copyOK
<1> HIDE DEF n, events
<1>4. /\ clean \in Seq(Event) /\ Len(clean) = n
      /\ \A i \in 1 .. n : clean[i] = copy.state[i]
  BY <1>1, SubSeqProperties
<1> HIDE DEF clean, P
<1>5. copy.state = clean \o copy.pendingEvents
  <2> DEFINE both == clean \o copy.pendingEvents
  <2>1. /\ both \in Seq(Event) /\ Len(both) = n + P
        /\ \A i \in 1 .. n + P : both[i] = IF i <= n THEN clean[i]
                                          ELSE copy.pendingEvents[i - n]
    <3>1. Len(clean) = n /\ P = Len(copy.pendingEvents)
      BY <1>4 DEF P
    <3>2. /\ both \in Seq(Event)
          /\ Len(both) = Len(clean) + Len(copy.pendingEvents)
          /\ \A i \in 1 .. Len(clean) + Len(copy.pendingEvents) :
                both[i] = IF i <= Len(clean) THEN clean[i]
                          ELSE copy.pendingEvents[i - Len(clean)]
      <4>1. clean \in Seq(Event) /\ copy.pendingEvents \in Seq(Event)
        BY <1>1, <1>4
      <4> QED BY <4>1, ConcatProperties, Zenon
    <3> HIDE DEF both
    <3> QED BY <3>1, <3>2
  <2> HIDE DEF both
  <2>2. ASSUME NEW i \in 1 .. Len(copy.state) PROVE copy.state[i] = both[i]
    <3>1. CASE i <= n
      BY <1>1, <1>4, <2>1, <3>1
    <3>2. CASE i > n
      <4>1. i - n \in 1 .. P /\ n + (i - n) = i
        BY <1>1, <3>2
      <4>2. copy.state[i] = copy.pendingEvents[i - n]
        BY <1>3, <4>1
      <4> QED BY <1>1, <2>1, <3>2, <4>2
    <3> QED BY <1>1, <3>1, <3>2
  <2>3. copy.state = both
    BY <1>1, <2>1, <2>2, SeqEqual
  <2> QED BY <2>3 DEF both
<1>6. \A i \in 1 .. n : clean[i] = events[i]
  BY <1>3, <1>4
<1>7. Len(events) = n => clean = events
  BY <1>2, <1>4, <1>6, SeqEqual
<1> QED BY <1>3, <1>4, <1>5, <1>6, <1>7 DEF clean, events, n, factsOf

-----------------------------------------------------------------------------
\* Every step keeps the invariant.
LEMMA EveryStep ==
    ASSUME ~ Preemptive, RInv, [Next]_vars
    PROVE  RInv'
<1>1. CASE UNCHANGED vars
  BY <1>1, QuietStep
<1>2. ASSUME NEW c \in Callers, MakeAggregate(c) PROVE RInv'
  BY <1>2, MakeAggregateStep
<1>3. ASSUME NEW c \in Callers, Load(c) PROVE RInv'
  BY <1>3, LoadStep
<1>4. ASSUME NEW c \in Callers, TakeOver(c) PROVE RInv'
  BY <1>4, TakeOverStep
<1>5. ASSUME NEW c \in Callers, RecordEvent(c) PROVE RInv'
  BY <1>5, RecordEventStep
<1>6. ASSUME NEW c \in Callers, Check(c) PROVE RInv'
  BY <1>6, CheckStep
<1>7. ASSUME NEW c \in Callers, Conflict(c) PROVE RInv'
  BY <1>7, QuietStep DEF Conflict
<1>8. ASSUME NEW c \in Callers, Update(c) PROVE RInv'
  BY <1>8, UpdateStep
<1> QED BY <1>1, <1>2, <1>3, <1>4, <1>5, <1>6, <1>7, <1>8 DEF Next

(***************************************************************************)
(* The invariant holds in every state, unless a fiber may be preempted     *)
(* inside append.                                                          *)
(***************************************************************************)
THEOREM RepositoryInvariance == ~ Preemptive => (Spec => []RInv)
<1> SUFFICES ASSUME ~ Preemptive PROVE Spec => []RInv
  OBVIOUS
<1>1. RInv /\ [Next]_vars => RInv'
  BY EveryStep
<1> QED BY <1>1, Initially, PTL DEF Spec

(***************************************************************************)
(* Records are numbered without gaps, in the log and in each stream        *)
(* (makeInMemoryEventStore's append).                                      *)
(***************************************************************************)
THEOREM StableOrderHolds == ~ Preemptive => (Spec => []StableOrder)
<1> SUFFICES ASSUME ~ Preemptive PROVE Spec => []StableOrder
  OBVIOUS
<1>1. RInv => StableOrder
  BY DEF RInv, logOK, orderlyLog, orderlyAt, StableOrder
<1> QED BY <1>1, RepositoryInvariance, PTL

(***************************************************************************)
(* However long a copy is held, it is a past state of its stream with its  *)
(* pending events on top (load, recordEvent and save of repository.ts).    *)
(***************************************************************************)
THEOREM CopiesStayHistory == ~ Preemptive => (Spec => []CopiesAreHistory)
<1> SUFFICES ASSUME ~ Preemptive PROVE Spec => []CopiesAreHistory
  OBVIOUS
<1>1. ASSUME RInv, NEW c \in Callers, holdsCopy(c)
      PROVE  LET clean == SubSeq(held[c].state, 1, expectedVersion(held[c]))
             IN  /\ held[c].state = clean \o held[c].pendingEvents
                 /\ IsPrefix(clean, eventsOf(records, streamOf(held[c])))
  <2> DEFINE copy == held[c]
             clean == factsOf(copy)
             events == eventsOf(records, streamOf(copy))
  <2>1. copyOK(copy, records, recorded) /\ logOK(records, recorded) /\ recorded \in Nat
    BY <1>1, RepositoryAssumption DEF RInv
  <2>2. /\ clean \in Seq(Event) /\ copy.state = clean \o copy.pendingEvents
        /\ Len(clean) <= Len(events)
        /\ \A i \in 1 .. Len(clean) : clean[i] = events[i]
    BY <2>1, CopyParts
  <2>3. events \in Seq(Event) /\ Len(events) \in Nat /\ Len(clean) \in Nat
    <3>1. streamOf(copy) \in Streams
      BY <2>1, CopyType
    <3> QED BY <2>1, <2>2, <3>1, StreamLength, LenProperties
  <2> HIDE DEF clean, events
  <2>4. /\ SubSeq(events, 1, Len(clean)) \in Seq(Event)
        /\ Len(SubSeq(events, 1, Len(clean))) = Len(clean)
        /\ \A i \in 1 .. Len(clean) : SubSeq(events, 1, Len(clean))[i] = events[i]
    BY <2>2, <2>3, SubSeqProperties
  <2>5. clean = SubSeq(events, 1, Len(clean))
    BY <2>2, <2>3, <2>4, SeqEqual
  <2>6. SubSeq(clean, 1, Len(clean)) = clean
    BY <2>2, SubSeqFull
  <2>7. IsPrefix(clean, events)
    BY <2>2, <2>3, <2>5, <2>6 DEF IsPrefix
  <2> QED BY <2>2, <2>7 DEF clean, events, factsOf
<1>2. RInv => CopiesAreHistory
  BY <1>1 DEF CopiesAreHistory
<1> QED BY <1>2, RepositoryInvariance, PTL

(***************************************************************************)
(* No event is stored twice, whoever saves a copy again (the version check *)
(* of append).                                                             *)
(***************************************************************************)
THEOREM NothingStoredTwice == ~ Preemptive => (Spec => []EventsStoredOnce)
<1> SUFFICES ASSUME ~ Preemptive PROVE Spec => []EventsStoredOnce
  OBVIOUS
<1>1. ASSUME RInv, NEW i \in DOMAIN records, NEW j \in DOMAIN records,
             records[i].event = records[j].event
      PROVE  i = j
  <2>1. logOK(records, recorded)
    BY <1>1 DEF RInv
  <2>2. records[i].aggregateId = records[j].aggregateId
    BY <1>1, <2>1 DEF logOK
  <2>3. i \in 1 .. Len(records) /\ j \in 1 .. Len(records) /\ records \in Log
    BY <2>1, LenProperties DEF logOK, Log
  <2>4. records[i].event.number \in Nat
    <3>1. records[i].event \in Event
      BY <2>3, RecordType
    <3> QED BY <3>1, RepositoryAssumption DEF Event
  <2>5. ~ (i < j) /\ ~ (j < i)
    BY <1>1, <2>1, <2>2, <2>4 DEF logOK
  <2> QED BY <2>3, <2>5
<1>2. RInv => EventsStoredOnce
  BY <1>1 DEF EventsStoredOnce
<1> QED BY <1>2, RepositoryInvariance, PTL

(***************************************************************************)
(* Once a save has gone through, the stream holds exactly the events of    *)
(* the saved copy (save of repository.ts over append).                     *)
(***************************************************************************)
THEOREM SavesAreLoaded == ~ Preemptive => (Spec => SavedIsLoaded)
<1> SUFFICES ASSUME ~ Preemptive PROVE Spec => SavedIsLoaded
  OBVIOUS
<1> DEFINE A == \A c \in Callers : isSaving(c) /\ ~ isSaving(c)' =>
                   eventsOf(records', streamOf(held[c])) = held[c].state
<1>1. ASSUME RInv, [Next]_vars PROVE [A]_vars
  <2>1. ASSUME NEW c \in Callers, isSaving(c), ~ isSaving(c)'
        PROVE  eventsOf(records', streamOf(held[c])) = held[c].state
    <3>1. checked' # checked
      BY <2>1 DEF isSaving
    <3>2. PICK d \in Callers : Check(d) \/ Update(d)
      BY <1>1, <3>1 DEF Next, vars, MakeAggregate, Load, TakeOver, RecordEvent, Conflict
    <3>3. d = c
      <4>1. DOMAIN checked = Callers
        BY <1>1 DEF RInv
      <4>2. \E add : checked' = [checked EXCEPT ![d] = add]
        BY <3>2 DEF Check, Update
      <4> QED BY <2>1, <4>1, <4>2 DEF isSaving
    <3>4. Update(c)
      BY <2>1, <3>2, <3>3 DEF Check
    <3> QED BY <1>1, <2>1, <3>4, UpdateAppends
  <2> QED BY <2>1
<1>2. SavedIsLoaded <=> [][A]_vars
  BY DEF SavedIsLoaded
<1> QED BY <1>1, <1>2, RepositoryInvariance, PTL DEF Spec

-----------------------------------------------------------------------------
copies == [c \in Callers |-> copyIn(held[c])]
streams == [s \in Streams |-> eventsOf(records, s)]

\* The streams of the promise are those of Repository.
LEMMA PromiseKnows == Promise!Streams = Streams
BY DEF Promise!Streams, Streams, streamName

LEMMA PromisedInitially == Init => Promise!InitStreams
<1> SUFFICES ASSUME Init PROVE Promise!InitStreams
  OBVIOUS
<1>1. /\ records = <<>> /\ recorded = 0
      /\ held = [c \in Callers |-> NoCopy] /\ checked = [c \in Callers |-> Nothing]
  BY DEF Init
<1>2. \A s \in Streams : eventsOf(records, s) = <<>>
  BY <1>1, NoEvents
<1>3. copyIn(NoCopy) = Promise!Blank
  <2>1. SubSeq(<<>>, 1, 0) = <<>> /\ Len(<<>>) = 0
    OBVIOUS
  <2>2. factsOf(NoCopy) = <<>>
    BY <2>1 DEF factsOf, expectedVersion, NoCopy
  <2> QED BY <2>2 DEF copyIn, Promise!Blank, NoCopy, streamOf, streamName
<1>4. \A c \in Callers : copyIn(held[c]) = Promise!Blank
  BY <1>1, <1>3
<1>5. \A c \in Callers : isSaving(c) = FALSE
  BY <1>1 DEF isSaving
<1> QED BY <1>1, <1>2, <1>4, <1>5, PromiseKnows, Zenon DEF Promise!InitStreams

\* A caller that gets another copy: the others have theirs still.
LEMMA CopiesExcept ==
    ASSUME NEW c \in Callers, NEW one, DOMAIN held = Callers, held' = [held EXCEPT ![c] = one]
    PROVE  copies' = [copies EXCEPT ![c] = copyIn(one)]
<1>1. \A d \in Callers : held'[d] = IF d = c THEN one ELSE held[d]
  OBVIOUS
<1>2. copies' = [d \in Callers |-> copyIn(held'[d])]
  BY DEF copies
<1>3. \A d \in Callers : copyIn(held'[d]) = IF d = c THEN copyIn(one) ELSE copyIn(held[d])
  BY <1>1
<1> QED BY <1>2, <1>3 DEF copies

\* What is left alone outside append.
LEMMA OutsideAppend ==
    ASSUME UNCHANGED <<records, checked>>
    PROVE  /\ streams' = streams
           /\ [c \in Callers |-> isSaving(c)]' = [c \in Callers |-> isSaving(c)]
BY DEF streams, isSaving

\* A caller that gets a copy, as the promise has it.
LEMMA Holding ==
    ASSUME NEW c \in Callers, NEW one, DOMAIN held = Callers, ~ isSaving(c),
           held' = [held EXCEPT ![c] = one]
    PROVE  Promise!hold(c, copyIn(one))
<1>1. copies' = [copies EXCEPT ![c] = copyIn(one)]
  BY CopiesExcept
<1> QED BY <1>1, Zenon DEF Promise!hold, copies

LEMMA HoldsIsHeld ==
    ASSUME RInv, NEW c \in Callers, holdsCopy(c)
    PROVE  Promise!holds(c)
<1>1. copyOK(held[c], records, recorded) /\ recorded \in Nat
  BY RepositoryAssumption DEF RInv
<1>2. streamOf(held[c]) \in Streams
  BY <1>1, CopyType
<1>3. copyIn(held[c]).of = streamOf(held[c])
  BY DEF copyIn
<1> QED BY <1>2, <1>3, PromiseKnows DEF Promise!holds

\* A copy made or loaded is one that is taken.
LEMMA MakingIsTaking ==
    ASSUME RInv, NEW c \in Callers, MakeAggregate(c)
    PROVE  Promise!Take(c)
<1>1. PICK r \in Repositories, id \in AggregateIds :
         held' = [held EXCEPT ![c] = [NoCopy EXCEPT !.repository = r, !.aggregateId = id]]
  BY DEF MakeAggregate
<1>2. ~ isSaving(c) /\ UNCHANGED <<records, checked, recorded>> /\ DOMAIN held = Callers
  BY DEF MakeAggregate, RInv
<1> DEFINE one == [NoCopy EXCEPT !.repository = r, !.aggregateId = id]
           s == streamName(r, id)
<1>3. one = [repository |-> r, aggregateId |-> id, state |-> <<>>, version |-> 0,
             pendingEvents |-> <<>>]
  <2>1. NoCopy = [repository |-> "none", aggregateId |-> "none", state |-> <<>>,
                  version |-> 0, pendingEvents |-> <<>>]
    BY DEF NoCopy
  <2> DEFINE base == NoCopy
  <2>2. base = NoCopy /\ one = [base EXCEPT !.repository = r, !.aggregateId = id]
    OBVIOUS
  <2> HIDE DEF base, one
  <2> QED BY <2>1, <2>2, NewCopy, Zenon
<1> HIDE DEF one
<1>4. copyIn(one) = [of |-> s, facts |-> <<>>, pending |-> <<>>]
  <2>1. SubSeq(<<>>, 1, 0) = <<>> /\ Len(<<>>) = 0
    OBVIOUS
  <2>2. factsOf(one) = <<>>
    BY <1>3, <2>1 DEF factsOf, expectedVersion
  <2> QED BY <1>3, <2>2 DEF copyIn, streamOf
<1>5. s \in Promise!Streams
  BY PromiseKnows DEF Streams
<1>6. Promise!hold(c, copyIn(one))
  BY <1>1, <1>2, Holding DEF one
<1> HIDE DEF s
<1>7. Promise!hold(c, [of |-> s, facts |-> <<>>, pending |-> <<>>])
  BY <1>4, <1>6, Zenon
<1>8. UNCHANGED streams /\ UNCHANGED [d \in Callers |-> isSaving(d)]
  BY <1>2, OutsideAppend
<1> QED BY <1>2, <1>5, <1>7, <1>8, Zenon DEF Promise!Take, streams

LEMMA LoadingIsTaking ==
    ASSUME RInv, NEW c \in Callers, Load(c)
    PROVE  Promise!Take(c)
<1>1. PICK r \in Repositories, id \in AggregateIds :
         held' = [held EXCEPT ![c] =
            [repository |-> r, aggregateId |-> id,
             state |-> eventsOf(records, streamName(r, id)),
             version |-> Len(eventsOf(records, streamName(r, id))), pendingEvents |-> <<>>]]
  BY DEF Load
<1>2. ~ isSaving(c) /\ UNCHANGED <<records, checked, recorded>> /\ DOMAIN held = Callers
      /\ logOK(records, recorded)
  BY DEF Load, RInv
<1> DEFINE s == streamName(r, id)
           events == eventsOf(records, s)
           one == [repository |-> r, aggregateId |-> id, state |-> events,
                   version |-> Len(events), pendingEvents |-> <<>>]
<1>3. s \in Streams
  BY DEF Streams
<1>4. streamOf(one) = s
  BY DEF streamOf
<1> HIDE DEF s
<1>5. events \in Seq(Event) /\ Len(events) \in Nat
  BY <1>2, <1>3, StreamLength
<1> HIDE DEF events
<1>6. factsOf(one) = events
  <2>1. Len(<<>>) = 0 /\ SubSeq(events, 1, Len(events)) = events
    BY <1>5
  <2>2. one.state = events /\ expectedVersion(one) = Len(events)
    BY <1>5, <2>1 DEF expectedVersion
  <2> QED BY <2>1, <2>2 DEF factsOf
<1>7. copyIn(one) = [of |-> s, facts |-> events, pending |-> <<>>]
  BY <1>4, <1>6 DEF copyIn
<1> HIDE DEF one
<1>8. Promise!hold(c, copyIn(one))
  BY <1>1, <1>2, Holding DEF one, events, s
<1>9. Promise!hold(c, [of |-> s, facts |-> events, pending |-> <<>>])
  BY <1>7, <1>8, Zenon
<1>10. s \in Promise!Streams /\ streams[s] = events
  BY <1>3, PromiseKnows DEF streams, events
<1>11. UNCHANGED streams /\ UNCHANGED [d \in Callers |-> isSaving(d)]
  BY <1>2, OutsideAppend
<1> QED BY <1>2, <1>9, <1>10, <1>11, Zenon DEF Promise!Take, streams

\* A copy taken over is one that is handed over.
LEMMA TakingOverIsHandingOver ==
    ASSUME RInv, NEW c \in Callers, TakeOver(c)
    PROVE  Promise!HandOver(c)
<1>1. PICK d \in Callers : holdsCopy(d) /\ held' = [held EXCEPT ![c] = held[d]]
  BY DEF TakeOver
<1>2. ~ isSaving(c) /\ UNCHANGED <<records, checked, recorded>> /\ DOMAIN held = Callers
  BY DEF TakeOver, RInv
<1>3. Promise!holds(d)
  BY <1>1, HoldsIsHeld
<1>4. Promise!hold(c, copyIn(held[d]))
  BY <1>1, <1>2, Holding
<1>5. copies[d] = copyIn(held[d])
  BY DEF copies
<1>6. Promise!hold(c, copies[d])
  BY <1>4, <1>5, Zenon
<1>7. UNCHANGED streams /\ UNCHANGED [e \in Callers |-> isSaving(e)]
  BY <1>2, OutsideAppend
<1> QED BY <1>2, <1>3, <1>6, <1>7, Zenon DEF Promise!HandOver, streams, copies

\* An event recorded is pending, on the facts as they were.
LEMMA RecordingKeepsFacts ==
    ASSUME NEW old \in Copy, old.version = Len(old.state), NEW event \in Event, NEW one,
           expectedVersion(old) \in Nat,
           one = [old EXCEPT !.state = Append(@, event), !.version = @ + 1,
                             !.pendingEvents = Append(@, event)]
    PROVE  copyIn(one) = [copyIn(old) EXCEPT !.pending = Append(@, event)]
<1>1. /\ old.state \in Seq(Event) /\ old.pendingEvents \in Seq(Event)
      /\ Len(old.state) \in Nat /\ Len(old.pendingEvents) \in Nat
      /\ old.version = Len(old.state)
      /\ expectedVersion(old) \in Nat
      /\ expectedVersion(old) + Len(old.pendingEvents) = Len(old.state)
  <2>1. old.state \in Seq(Event) /\ old.pendingEvents \in Seq(Event)
    BY DEF Copy
  <2>2. Len(old.state) \in Nat /\ Len(old.pendingEvents) \in Nat
    BY <2>1, LenProperties
  <2>3. expectedVersion(old) = Len(old.state) - Len(old.pendingEvents)
    BY DEF expectedVersion
  <2> QED BY <2>1, <2>2, <2>3
<1>2. /\ one.state = Append(old.state, event) /\ one.version = old.version + 1
      /\ one.pendingEvents = Append(old.pendingEvents, event)
      /\ one.repository = old.repository /\ one.aggregateId = old.aggregateId
  <2>1. old \in Copy
    BY DEF copyOK
  <2> QED BY <2>1 DEF Copy
<1>3. streamOf(one) = streamOf(old)
  BY <1>2 DEF streamOf
<1>4. expectedVersion(one) = expectedVersion(old)
  <2> DEFINE P == Len(old.pendingEvents)
  <2>1. Len(one.pendingEvents) = P + 1
    BY <1>1, <1>2, AppendProperties
  <2>2. old.version \in Nat /\ P \in Nat
    BY <1>1
  <2>3. expectedVersion(one) = (old.version + 1) - (P + 1)
    BY <1>2, <2>1 DEF expectedVersion
  <2>4. expectedVersion(old) = old.version - P
    BY DEF expectedVersion
  <2> HIDE DEF P
  <2> QED BY <2>2, <2>3, <2>4
<1>5. factsOf(one) = factsOf(old)
  <2> DEFINE n == expectedVersion(old)
             new == one.state
             before == SubSeq(old.state, 1, n)
             after == SubSeq(new, 1, n)
  <2>1. /\ new \in Seq(Event) /\ Len(new) = Len(old.state) + 1
        /\ \A i \in 1 .. Len(old.state) : new[i] = old.state[i]
    BY <1>1, <1>2, AppendProperties
  <2>2. n \in Nat /\ n <= Len(old.state)
    BY <1>1
  <2> HIDE DEF n, new
  <2>3. /\ before \in Seq(Event) /\ Len(before) = n
        /\ \A i \in 1 .. n : before[i] = old.state[i]
    BY <1>1, <2>2, SubSeqProperties
  <2>4. /\ after \in Seq(Event) /\ Len(after) = n
        /\ \A i \in 1 .. n : after[i] = new[i]
    BY <1>1, <2>1, <2>2, SubSeqProperties
  <2> HIDE DEF before, after
  <2>5. ASSUME NEW i \in 1 .. n PROVE before[i] = after[i]
    <3>1. i \in 1 .. Len(old.state)
      BY <1>1, <2>2
    <3>2. new[i] = old.state[i]
      BY <2>1, <3>1
    <3> QED BY <2>3, <2>4, <3>2
  <2>6. before = after
    BY <2>3, <2>4, <2>5, SeqEqual
  <2> QED BY <1>4, <2>6 DEF factsOf, before, after, n, new
<1>6. copyIn(old) = [of |-> streamOf(old), facts |-> factsOf(old), pending |-> old.pendingEvents]
  BY DEF copyIn
<1>7. copyIn(one) = [of |-> streamOf(old), facts |-> factsOf(old),
                     pending |-> Append(old.pendingEvents, event)]
  BY <1>2, <1>3, <1>5 DEF copyIn
<1> DEFINE of == streamOf(old)
           facts == factsOf(old)
           more == Append(old.pendingEvents, event)
<1> HIDE DEF of, facts, more
<1>8. [[of |-> of, facts |-> facts, pending |-> old.pendingEvents] EXCEPT !.pending = more]
        = [of |-> of, facts |-> facts, pending |-> more]
  OBVIOUS
<1>9. [copyIn(old) EXCEPT !.pending = Append(@, event)] = [copyIn(old) EXCEPT !.pending = more]
  BY <1>6 DEF more
<1> QED BY <1>6, <1>7, <1>8, <1>9, Zenon DEF of, facts, more

LEMMA RecordingIsRecording ==
    ASSUME RInv, NEW c \in Callers, RecordEvent(c)
    PROVE  Promise!Record(c)
<1> DEFINE old == held[c]
           event == [repository |-> old.repository, aggregateId |-> old.aggregateId,
                     number |-> recorded + 1]
           one == [old EXCEPT !.state = Append(@, event), !.version = @ + 1,
                              !.pendingEvents = Append(@, event)]
<1>1. /\ ~ isSaving(c) /\ holdsCopy(c) /\ recorded < MaxEvents /\ recorded' = recorded + 1
      /\ Len(old.pendingEvents) < MaxPending
      /\ UNCHANGED <<records, checked>>
      /\ held' = [held EXCEPT ![c] = one]
  BY DEF RecordEvent
<1>2. copyOK(old, records, recorded) /\ recorded \in Nat /\ DOMAIN held = Callers
  BY <1>1, RepositoryAssumption DEF RInv
<1>3. event \in Event
  <2>1. old.repository \in Repositories /\ old.aggregateId \in AggregateIds
    BY <1>2 DEF copyOK, Copy
  <2> QED BY <1>1, <1>2, <2>1, RepositoryAssumption DEF Event
<1>4. Promise!nextEvent(c) = event
  <2>1. copyIn(old).of = <<old.repository, old.aggregateId>>
    BY DEF copyIn, streamOf, streamName
  <2>2. copies[c] = copyIn(old)
    BY DEF copies
  <2>3. Promise!nextEvent(c) = [repository |-> copies[c].of[1], aggregateId |-> copies[c].of[2],
                                number |-> recorded + 1]
    BY Zenon DEF Promise!nextEvent, copies
  <2> QED BY <2>1, <2>2, <2>3
<1>5. Promise!holds(c)
  BY <1>1, HoldsIsHeld
<1> HIDE DEF event
<1>6. copyIn(one) = [copyIn(old) EXCEPT !.pending = Append(@, event)]
  <2> HIDE DEF old
  <2> DEFINE new == one
  <2>1. new = [old EXCEPT !.state = Append(@, event), !.version = @ + 1,
                          !.pendingEvents = Append(@, event)]
    OBVIOUS
  <2> HIDE DEF one, new
  <2>2. copyIn(new) = [copyIn(old) EXCEPT !.pending = Append(@, event)]
    <3>1. old \in Copy /\ old.version = Len(old.state) /\ expectedVersion(old) \in Nat
      <4>1. expectedVersion(old) \in Nat
        BY <1>2, CopyType
      <4> QED BY <1>2, <4>1 DEF copyOK
    <3> QED BY <1>3, <2>1, <3>1, RecordingKeepsFacts
  <2> QED BY <2>2 DEF new
<1> HIDE DEF one
<1>7. Promise!hold(c, copyIn(one))
  BY <1>1, <1>2, Holding
<1>8. copies[c] = copyIn(old) /\ copyIn(old).pending = old.pendingEvents
  BY DEF copies, copyIn
<1>9. Promise!hold(c, [copies[c] EXCEPT !.pending = Append(@, Promise!nextEvent(c))])
  BY <1>4, <1>6, <1>7, <1>8, Zenon
<1>10. UNCHANGED streams /\ UNCHANGED [e \in Callers |-> isSaving(e)]
  BY <1>1, OutsideAppend
<1>11. Len(copies[c].pending) < MaxPending
  BY <1>1, <1>8
<1> QED BY <1>1, <1>5, <1>9, <1>10, <1>11, Zenon DEF Promise!Record, streams, copies

\* What a caller about to save holds is what the promise says it holds.
LEMMA CheckIsBeginSave ==
    ASSUME RInv, NEW c \in Callers, Check(c)
    PROVE  Promise!BeginSave(c)
<1> DEFINE saving == [d \in Callers |-> isSaving(d)]
<1>1. /\ ~ isSaving(c) /\ holdsCopy(c) /\ records' = records /\ held' = held
      /\ recorded' = recorded
      /\ \E events : checked' = [checked EXCEPT ![c] = Stored(events)]
  BY DEF Check
<1>2. DOMAIN checked = Callers
  BY DEF RInv
<1>3. \A d \in Callers : isSaving(d)' = IF d = c THEN TRUE ELSE isSaving(d)
  <2>1. PICK events : checked' = [checked EXCEPT ![c] = Stored(events)]
    BY <1>1
  <2>2. Stored(events) # Nothing
    BY DEF Stored, Nothing
  <2>3. \A d \in Callers : checked'[d] = IF d = c THEN Stored(events) ELSE checked[d]
    BY <1>2, <2>1
  <2> QED BY <2>2, <2>3, Zenon DEF isSaving
<1>4. saving' = [saving EXCEPT ![c] = TRUE]
  <2>1. saving' = [d \in Callers |-> IF d = c THEN TRUE ELSE isSaving(d)]
    BY <1>3, Zenon
  <2> QED BY <2>1, Zenon
<1>5. streams' = streams /\ copies' = copies
  BY <1>1 DEF streams, copies
<1>6. Promise!holds(c)
  BY <1>1, HoldsIsHeld
<1> QED BY <1>1, <1>4, <1>5, <1>6, Zenon DEF Promise!BeginSave, streams, copies

\* The facts of a copy that has been saved are all of its events.
LEMMA SavedFacts ==
    ASSUME NEW old \in Copy, old.version = Len(old.state), NEW facts,
           facts = factsOf(old), old.state = facts \o old.pendingEvents
    PROVE  copyIn([old EXCEPT !.pendingEvents = <<>>]) = Promise!afterSave(copyIn(old))
<1> DEFINE one == [old EXCEPT !.pendingEvents = <<>>]
<1>1. /\ one.state = old.state /\ one.version = old.version /\ one.pendingEvents = <<>>
      /\ one.repository = old.repository /\ one.aggregateId = old.aggregateId
  BY SavedCopy
<1> HIDE DEF one
<1>2. old.state \in Seq(Event) /\ Len(old.state) \in Nat
  BY LenProperties DEF Copy
<1>3. expectedVersion(one) = Len(old.state)
  <2>1. Len(one.pendingEvents) = 0
    BY <1>1
  <2>2. expectedVersion(one) = Len(old.state) - Len(one.pendingEvents)
    BY <1>1 DEF expectedVersion
  <2> QED BY <1>2, <2>1, <2>2
<1>4. factsOf(one) = old.state
  <2>1. SubSeq(old.state, 1, Len(old.state)) = old.state
    BY <1>2
  <2> QED BY <1>1, <1>3, <2>1 DEF factsOf
<1>5. streamOf(one) = streamOf(old)
  BY <1>1 DEF streamOf
<1>6. copyIn(one) = [of |-> streamOf(old), facts |-> facts \o old.pendingEvents, pending |-> <<>>]
  BY <1>1, <1>4, <1>5 DEF copyIn
<1>7. /\ copyIn(old).of = streamOf(old) /\ copyIn(old).facts = facts
      /\ copyIn(old).pending = old.pendingEvents
  BY DEF copyIn
<1> QED BY <1>6, <1>7, Zenon DEF Promise!afterSave, one

LEMMA UpdateIsSave ==
    ASSUME RInv, ~ Preemptive, NEW c \in Callers, Update(c)
    PROVE  Promise!Save(c)
<1> DEFINE old == held[c]
           s == streamOf(old)
           one == [old EXCEPT !.pendingEvents = <<>>]
           facts == factsOf(old)
           saving == [d \in Callers |-> isSaving(d)]
<1>1. /\ isSaving(c) /\ recorded' = recorded
      /\ checked' = [checked EXCEPT ![c] = Nothing]
      /\ held' = held \/ held' = [held EXCEPT ![c] = one]
  BY DEF Update
<1>2. /\ copyOK(old, records, recorded) /\ recorded \in Nat /\ logOK(records, recorded)
      /\ DOMAIN held = Callers /\ DOMAIN checked = Callers /\ atExpectedVersion(c)
  BY <1>1, RepositoryAssumption DEF RInv, savingOK
<1>3. /\ eventsOf(records', s) = old.state
      /\ \A other \in Streams \ {s} : eventsOf(records', other) = eventsOf(records, other)
  BY <1>1, UpdateAppends
<1>4. s \in Streams /\ old \in Copy /\ old.version = Len(old.state)
  <2>1. s \in Streams
    BY <1>2, CopyType
  <2> QED BY <1>2, <2>1 DEF copyOK
<1>5. /\ Len(facts) = expectedVersion(old) /\ old.state = facts \o old.pendingEvents
      /\ Len(eventsOf(records, s)) = Len(facts) => facts = eventsOf(records, s)
  BY <1>2, CopyParts
<1>6. facts = eventsOf(records, s)
  <2>1. Len(eventsOf(records, s)) = aggregateVersionInRecords(records, s)
    BY <1>2, <1>4 DEF logOK, streamOK
  <2>2. aggregateVersionInRecords(records, s) = expectedVersion(old)
    BY <1>2 DEF atExpectedVersion
  <2> QED BY <1>5, <2>1, <2>2
<1>7. /\ copies[c] = copyIn(old) /\ copyIn(old).of = s /\ copyIn(old).facts = facts
      /\ copyIn(old).pending = old.pendingEvents
  BY DEF copies, copyIn
<1>8. streams[s] = facts
  BY <1>4, <1>6 DEF streams
<1> HIDE DEF facts, s
<1>9. streams' = [streams EXCEPT ![s] = @ \o old.pendingEvents]
  <2>1. \A other \in Streams : eventsOf(records', other)
           = IF other = s THEN facts \o old.pendingEvents ELSE eventsOf(records, other)
    BY <1>3, <1>5, Zenon
  <2>2. streams' = [other \in Streams |-> eventsOf(records', other)]
    BY DEF streams
  <2> QED BY <1>8, <2>1, <2>2 DEF streams
<1>10. copyIn(one) = Promise!afterSave(copyIn(old))
  BY <1>4, <1>5, SavedFacts DEF facts
<1> HIDE DEF one
<1>11. copies' \in {copies, [copies EXCEPT ![c] = Promise!afterSave(@)]}
  <2>1. CASE held' = held
    BY <2>1 DEF copies
  <2>2. CASE held' = [held EXCEPT ![c] = one]
    <3>1. copies' = [copies EXCEPT ![c] = copyIn(one)]
      BY <1>2, <2>2, CopiesExcept
    <3>2. copyIn(one) = Promise!afterSave(copies[c])
      BY <1>7, <1>10, Zenon
    <3> QED BY <3>1, <3>2
  <2> QED BY <1>1, <2>1, <2>2
<1>12. saving' = [saving EXCEPT ![c] = FALSE]
  <2>1. \A d \in Callers : checked'[d] = IF d = c THEN Nothing ELSE checked[d]
    BY <1>1, <1>2
  <2>2. \A d \in Callers : isSaving(d)' = IF d = c THEN FALSE ELSE isSaving(d)
    BY <2>1, Zenon DEF isSaving
  <2>3. saving' = [d \in Callers |-> IF d = c THEN FALSE ELSE isSaving(d)]
    BY <2>2, Zenon
  <2> QED BY <2>3, Zenon
<1>13. streams[copies[c].of] = copies[c].facts
  BY <1>7, <1>8
<1>14. streams' = [streams EXCEPT ![copies[c].of] = @ \o copies[c].pending]
  BY <1>7, <1>9, Zenon
<1> HIDE DEF old
<1> QED BY <1>1, <1>11, <1>12, <1>13, <1>14, Zenon DEF Promise!Save, streams, copies

LEMMA QuietlyPromised ==
    ASSUME UNCHANGED vars
    PROVE  UNCHANGED Promise!streamVars
BY DEF vars, Promise!streamVars, isSaving

-----------------------------------------------------------------------------
\* Every step is one the promise allows, or none at all.
LEMMA EveryStepIsPromised ==
    ASSUME ~ Preemptive, RInv, [Next]_vars
    PROVE  [Promise!NextStreams]_(Promise!streamVars)
<1>1. CASE UNCHANGED vars
  BY <1>1, QuietlyPromised
<1>2. ASSUME NEW c \in Callers, MakeAggregate(c) PROVE Promise!NextStreams
  BY <1>2, MakingIsTaking, Zenon DEF Promise!NextStreams
<1>3. ASSUME NEW c \in Callers, Load(c) PROVE Promise!NextStreams
  BY <1>3, LoadingIsTaking, Zenon DEF Promise!NextStreams
<1>4. ASSUME NEW c \in Callers, TakeOver(c) PROVE Promise!NextStreams
  BY <1>4, TakingOverIsHandingOver, Zenon DEF Promise!NextStreams
<1>5. ASSUME NEW c \in Callers, RecordEvent(c) PROVE Promise!NextStreams
  BY <1>5, RecordingIsRecording, Zenon DEF Promise!NextStreams
<1>6. ASSUME NEW c \in Callers, Check(c) PROVE Promise!NextStreams
  BY <1>6, CheckIsBeginSave, Zenon DEF Promise!NextStreams
<1>7. ASSUME NEW c \in Callers, Conflict(c) PROVE UNCHANGED Promise!streamVars
  BY <1>7, QuietlyPromised DEF Conflict
<1>8. ASSUME NEW c \in Callers, Update(c) PROVE Promise!NextStreams
  BY <1>8, UpdateIsSave, Zenon DEF Promise!NextStreams
<1> QED BY <1>1, <1>2, <1>3, <1>4, <1>5, <1>6, <1>7, <1>8, Zenon DEF Next

(***************************************************************************)
(* Callers that share the package see streams that change by whole saves   *)
(* only, each of a copy that has the stream's very facts below its pending *)
(* events (load, recordEvent and save of repository.ts over append),       *)
(* unless a fiber may be preempted inside append.                          *)
(***************************************************************************)
THEOREM SavesAreWhole == ~ Preemptive => (Spec => SavesAreAtomic)
<1> SUFFICES ASSUME ~ Preemptive PROVE Spec => SavesAreAtomic
  OBVIOUS
<1>1. RInv /\ [Next]_vars => [Promise!NextStreams]_(Promise!streamVars)
  BY EveryStepIsPromised
<1>2. Init => Promise!InitStreams
  BY PromisedInitially
<1> QED BY <1>1, <1>2, RepositoryInvariance, PTL DEF Spec, SavesAreAtomic, Promise!SpecStreams
=============================================================================
