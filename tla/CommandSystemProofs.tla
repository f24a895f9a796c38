------------------------ MODULE CommandSystemProofs -------------------------
(***************************************************************************)
(* Proofs about CommandSystem, for any numbers of handlers, commands,      *)
(* counters, users and articles, and for ids shared between the slices:    *)
(* that its log is legal, what its answers mean, what the two lists show   *)
(* and, last, that it implements AtomicCommands.                           *)
(***************************************************************************)
EXTENDS CommandSystemRefinement, DomainProofs

\* The parts of the invariant about the log, as predicates of any log.
LEMMA LogInvariants ==
    /\ Numbered <=> numberedLog(records)
    /\ HistoryGrows <=> growingLog(records)
    /\ LegalHistory <=> legalLog(records)
BY DEF Numbered, numberedLog, HistoryGrows, growingLog, growsAt, LegalHistory, legalLog,
       legalEvent, legalAt

-----------------------------------------------------------------------------
\* A busy handler has a command, and with it a slice and an identity.
LEMMA HandlerType ==
    ASSUME TypeOK, NEW h \in Handlers, pc[h] # "idle"
    PROVE  command[h] \in Command /\ slice(h) \in Slices /\ id(h) \in Ids
<1>1. command[h] \in Command
  BY DEF TypeOK
<1> QED BY <1>1 DEF slice, sliceOf, Slices, id, Ids, Command, CounterCommand, UserCommand

\* The record a saving handler's append adds to the log.
newRecord(h) ==
    [aggregateId |-> id(h),
     aggregateVersion |-> aggregateVersionInRecords(records, id(h)) + 1,
     eventStoreSequenceNumber |-> Len(records) + 1,
     event |-> aggregate[h].pendingEvents[1]]

(***************************************************************************)
(* The heart of the argument: when the store is still at the version a     *)
(* handler loaded, the aggregate it holds is the aggregate as it is now,   *)
(* so the event it appends is one the decision accepts now.                *)
(***************************************************************************)
LEMMA SaveIsFresh ==
    ASSUME IInv, NEW h \in Handlers, pc[h] = "saving", atExpectedVersion(h)
    PROVE  /\ records \o storedEventsForAppend(id(h), aggregate[h].pendingEvents,
                             aggregateVersionInRecords(records, id(h)), Len(records))
                 = Append(records, newRecord(h))
           /\ newRecord(h) \in StoredEvent(Ids, DomainEvent)
           /\ decide(command[h], load(slice(h), records, id(h)).state) = accept(newRecord(h).event)
           /\ aggregate[h] = recordEvent(slice(h), load(slice(h), records, id(h)),
                                         newRecord(h).event)
<1> DEFINE past == history(slice(h), records, id(h))[seen[h]]
           loaded == load(slice(h), records, id(h))
           V == aggregateVersionInRecords(records, id(h))
           d == decide(command[h], past.state)
<1>1. command[h] \in Command /\ slice(h) \in Slices /\ id(h) \in Ids
  BY HandlerType DEF IInv
<1>2. records \in Logs /\ seen[h] \in 0 .. Len(records) /\ Len(records) \in Nat
  BY LenProperties DEF IInv, TypeOK, Logs
<1>3. /\ loaded \in Replayed(slice(h)) /\ loaded.version <= V
      /\ past \in Replayed(slice(h))
      /\ past.version <= loaded.version
      /\ past.version = loaded.version => past = loaded
  BY <1>1, <1>2 DEF IInv, HistoryGrows
<1>4. V \in Nat
  BY <1>2, VersionType DEF Logs
<1>5. ~ isFailure(d) /\ aggregate[h] = recordEvent(slice(h), past, d.event)
  BY DEF IInv, AllPrepared, Prepared
<1> HIDE DEF past, loaded, V, d
<1>6. /\ aggregate[h].pendingEvents = <<d.event>>
      /\ expectedVersion(aggregate[h]) = past.version
      /\ d.event \in DomainEvent
      /\ d = accept(d.event)
  BY <1>1, <1>3, <1>5, RecordEventType, DecisionType DEF slice, d
<1>7. V = past.version
  BY <1>6 DEF atExpectedVersion, V
<1>8. past = loaded
  <2>1. past.version \in Nat /\ loaded.version \in Nat
    BY <1>3 DEF Replayed
  <2> QED BY <1>3, <1>7, <2>1
<1>9. newRecord(h).event = d.event
  BY <1>6 DEF newRecord
<1>10. newRecord(h) \in StoredEvent(Ids, DomainEvent)
  BY <1>1, <1>2, <1>4, <1>6 DEF newRecord, StoredEvent, V
<1>11. storedEventsForAppend(id(h), aggregate[h].pendingEvents, V, Len(records))
          = <<newRecord(h)>>
  BY <1>6 DEF storedEventsForAppend, newRecord, V
<1>12. records \o <<newRecord(h)>> = Append(records, newRecord(h))
  BY <1>2, <1>10 DEF Logs
<1> QED BY <1>5, <1>6, <1>8, <1>9, <1>10, <1>11, <1>12 DEF d, loaded, V

\* The invariant holds initially.
LEMMA Initially == Init => IInv
<1> SUFFICES ASSUME Init PROVE IInv
  OBVIOUS
<1>1. records = <<>>
  BY DEF Init
<1>2. Numbered /\ HistoryGrows /\ LegalHistory
  BY <1>1, EmptyLog, LogInvariants
<1>3. TypeOK
  <2>1. records \in Seq(StoredEvent(Ids, DomainEvent)) /\ Len(records) = 0
    BY <1>1
  <2>2. issued \in 0 .. MaxCommands /\ seen \in [Handlers -> 0 .. Len(records)]
    BY <2>1, MaxCommandsAssumption DEF Init
  <2> QED BY <2>1, <2>2 DEF Init, TypeOK, NoOutcome
<1>4. AllPrepared
  BY DEF Init, AllPrepared
<1> QED BY <1>2, <1>3, <1>4 DEF IInv

(***************************************************************************)
(* A fiber's preparation refers to the part of the log it has seen: it     *)
(* survives every step that leaves the fiber alone and only extends the    *)
(* log.                                                                    *)
(***************************************************************************)
LEMMA PreparedStable ==
    ASSUME IInv, NEW h \in Handlers, pc[h] = "saving",
           command'[h] = command[h], aggregate'[h] = aggregate[h], seen'[h] = seen[h],
           \A s, x : \A n \in 0 .. Len(records) :
               history(s, records', x)[n] = history(s, records, x)[n]
    PROVE  Prepared(h)'
<1>1. Prepared(h) /\ seen[h] \in 0 .. Len(records)
  BY DEF IInv, AllPrepared, TypeOK
<1>2. history(sliceOf(command[h]), records', command[h].id)[seen[h]]
        = history(sliceOf(command[h]), records, command[h].id)[seen[h]]
  BY <1>1
<1> QED BY <1>1, <1>2 DEF Prepared, slice, id

(***************************************************************************)
(* Steps that leave the log alone.                                         *)
(***************************************************************************)
LEMMA QuietStep ==
    ASSUME IInv, TypeOK', records' = records,
           \A h \in Handlers : pc'[h] = "saving" => Prepared(h)'
    PROVE  IInv'
<1>1. (Numbered /\ HistoryGrows /\ LegalHistory)'
  <2>1. numberedLog(records') /\ growingLog(records') /\ legalLog(records')
    BY LogInvariants DEF IInv
  <2> QED BY <2>1 DEF Numbered, numberedLog, HistoryGrows, growingLog, growsAt, LegalHistory,
       legalLog, legalEvent, legalAt
<1>2. AllPrepared'
  BY DEF AllPrepared
<1> QED BY <1>1, <1>2 DEF IInv

\* Request preserves the invariant.
LEMMA RequestStep ==
    ASSUME IInv, NEW h \in Handlers, Request(h)
    PROVE  IInv'
<1>1. PICK c \in Command : command' = [command EXCEPT ![h] = c]
  BY DEF Request
<1>2. TypeOK'
  <2>1. issued' \in 0 .. MaxCommands
    BY MaxCommandsAssumption DEF IInv, TypeOK, Request
  <2>2. seen' \in [Handlers -> 0 .. Len(records')]
    BY LenProperties DEF IInv, TypeOK, Request
  <2>3. ASSUME NEW g \in Handlers
        PROVE  /\ pc'[g] # "idle" => command'[g] \in Command
               /\ IF pc'[g] = "saving" THEN aggregate'[g] \in Pending(slice(g)')
                  ELSE aggregate'[g] = NoAggregate
               /\ outcome'[g].tag \in {"None", "Rejected", "Receipt", "ExpectedVersionConflict"}
    <3>1. CASE g = h
      BY <1>1, <3>1 DEF IInv, TypeOK, Request, NoOutcome
    <3>2. CASE g # h
      BY <1>1, <3>2 DEF IInv, TypeOK, Request, slice
    <3> QED BY <3>1, <3>2
  <2> QED BY <1>1, <2>1, <2>2, <2>3 DEF IInv, TypeOK, Request, slice
<1>3. ASSUME NEW g \in Handlers, pc'[g] = "saving" PROVE Prepared(g)'
  <2>1. g # h /\ pc[g] = "saving"
    BY <1>3 DEF Request, IInv, TypeOK
  <2> QED BY <1>1, <2>1, PreparedStable DEF Request, IInv, TypeOK
<1> QED BY <1>2, <1>3, QuietStep DEF Request

\* LoadAndReject preserves the invariant.
LEMMA LoadAndRejectStep ==
    ASSUME IInv, NEW h \in Handlers, LoadAndReject(h)
    PROVE  IInv'
<1>1. TypeOK'
  <2>1. seen' \in [Handlers -> 0 .. Len(records')]
    BY LenProperties DEF IInv, TypeOK, LoadAndReject
  <2>2. ASSUME NEW g \in Handlers
        PROVE  /\ pc'[g] # "idle" => command'[g] \in Command
               /\ IF pc'[g] = "saving" THEN aggregate'[g] \in Pending(slice(g)')
                  ELSE aggregate'[g] = NoAggregate
               /\ outcome'[g].tag \in {"None", "Rejected", "Receipt", "ExpectedVersionConflict"}
    <3>1. CASE g = h
      BY <3>1 DEF IInv, TypeOK, LoadAndReject
    <3>2. CASE g # h
      BY <3>2 DEF IInv, TypeOK, LoadAndReject, slice
    <3> QED BY <3>1, <3>2
  <2> QED BY <2>1, <2>2 DEF IInv, TypeOK, LoadAndReject, slice
<1>2. ASSUME NEW g \in Handlers, pc'[g] = "saving" PROVE Prepared(g)'
  <2>1. g # h /\ pc[g] = "saving"
    BY <1>2 DEF LoadAndReject, IInv, TypeOK
  <2> QED BY <2>1, PreparedStable DEF LoadAndReject, IInv, TypeOK
<1> QED BY <1>1, <1>2, QuietStep DEF LoadAndReject

\* LoadAndAccept preserves the invariant: the handler is prepared.
LEMMA LoadAndAcceptStep ==
    ASSUME IInv, NEW h \in Handlers, LoadAndAccept(h)
    PROVE  IInv'
<1> DEFINE loaded == load(slice(h), records, id(h))
           d == decide(command[h], loaded.state)
           b == recordEvent(slice(h), loaded, d.event)
<1>1. command[h] \in Command /\ slice(h) \in Slices /\ id(h) \in Ids
  BY HandlerType DEF IInv, LoadAndAccept
<1>2. loaded \in Replayed(slice(h)) /\ ~ isFailure(d)
  BY <1>1 DEF IInv, HistoryGrows, LoadAndAccept
<1>3. aggregate' = [aggregate EXCEPT ![h] = b]
  BY DEF LoadAndAccept
<1>4. b \in Pending(slice(h))
  BY <1>1, <1>2, RecordEventType DEF slice
<1>5. slice(h)' = slice(h) /\ id(h)' = id(h) /\ command'[h] = command[h]
  BY DEF LoadAndAccept, slice, id
<1>6. aggregate'[h] = b /\ seen'[h] = Len(records)
  BY <1>3 DEF IInv, TypeOK, LoadAndAccept
<1>7. ~ isFailure(d) /\ loaded = history(slice(h), records, id(h))[Len(records)]
  BY <1>2 DEF load
<1> HIDE DEF b
<1>8. TypeOK'
  <2>1. seen' \in [Handlers -> 0 .. Len(records')]
    BY LenProperties DEF IInv, TypeOK, LoadAndAccept
  <2>2. ASSUME NEW g \in Handlers
        PROVE  /\ pc'[g] # "idle" => command'[g] \in Command
               /\ IF pc'[g] = "saving" THEN aggregate'[g] \in Pending(slice(g)')
                  ELSE aggregate'[g] = NoAggregate
               /\ outcome'[g].tag \in {"None", "Rejected", "Receipt", "ExpectedVersionConflict"}
    <3>1. CASE g = h
      BY <1>1, <1>4, <1>5, <1>6, <3>1 DEF IInv, TypeOK, LoadAndAccept
    <3>2. CASE g # h
      <4>1. aggregate'[g] = aggregate[g] /\ pc'[g] = pc[g] /\ outcome'[g] = outcome[g]
        BY <1>3, <3>2 DEF IInv, TypeOK, LoadAndAccept
      <4>2. command'[g] = command[g] /\ slice(g)' = slice(g)
        BY DEF LoadAndAccept, slice
      <4> QED BY <4>1, <4>2 DEF IInv, TypeOK
    <3> QED BY <3>1, <3>2
  <2>3. DOMAIN aggregate' = Handlers
    BY <1>3 DEF IInv, TypeOK
  <2> QED BY <2>1, <2>2, <2>3 DEF IInv, TypeOK, LoadAndAccept, slice
<1>9. ASSUME NEW g \in Handlers, pc'[g] = "saving" PROVE Prepared(g)'
  <2>1. CASE g = h
    <3>1. history(slice(h)', records', id(h)')[seen'[h]] = loaded
      BY <1>5, <1>6, <1>7 DEF LoadAndAccept
    <3> QED BY <1>5, <1>6, <1>7, <2>1, <3>1 DEF Prepared, b
  <2>2. CASE g # h
    <3>1. /\ pc[g] = "saving" /\ command'[g] = command[g] /\ records' = records
          /\ aggregate'[g] = aggregate[g] /\ seen'[g] = seen[g]
      BY <1>3, <1>9, <2>2 DEF LoadAndAccept, IInv, TypeOK
    <3> QED BY <3>1, PreparedStable
  <2> QED BY <2>1, <2>2
<1> QED BY <1>8, <1>9, QuietStep DEF LoadAndAccept

\* Append_Conflict preserves the invariant.
LEMMA AppendConflictStep ==
    ASSUME IInv, NEW h \in Handlers, Append_Conflict(h)
    PROVE  IInv'
<1>1. TypeOK'
  <2>1. ASSUME NEW g \in Handlers
        PROVE  /\ pc'[g] # "idle" => command'[g] \in Command
               /\ IF pc'[g] = "saving" THEN aggregate'[g] \in Pending(slice(g)')
                  ELSE aggregate'[g] = NoAggregate
               /\ outcome'[g].tag \in {"None", "Rejected", "Receipt", "ExpectedVersionConflict"}
    <3>1. CASE g = h
      BY <3>1 DEF IInv, TypeOK, Append_Conflict
    <3>2. CASE g # h
      BY <3>2 DEF IInv, TypeOK, Append_Conflict, slice
    <3> QED BY <3>1, <3>2
  <2> QED BY <2>1 DEF IInv, TypeOK, Append_Conflict, slice
<1>2. ASSUME NEW g \in Handlers, pc'[g] = "saving" PROVE Prepared(g)'
  <2>1. g # h /\ pc[g] = "saving"
    BY <1>2 DEF Append_Conflict, IInv, TypeOK
  <2> QED BY <2>1, PreparedStable DEF Append_Conflict, IInv, TypeOK
<1> QED BY <1>1, <1>2, QuietStep DEF Append_Conflict

(***************************************************************************)
(* The step that extends the log.                                          *)
(***************************************************************************)
LEMMA AppendStoredStep ==
    ASSUME IInv, NEW h \in Handlers, Append_Stored(h)
    PROVE  IInv'
<1> DEFINE r == newRecord(h)
<1>1. /\ records' = Append(records, r)
      /\ r \in StoredEvent(Ids, DomainEvent)
      /\ decide(command[h], load(slice(h), records, id(h)).state) = accept(r.event)
  BY SaveIsFresh DEF Append_Stored
<1>2. r.eventStoreSequenceNumber = Len(records) + 1 /\ r.aggregateId = id(h)
  BY DEF newRecord
<1>3. command[h] \in Command /\ records \in Logs
  BY HandlerType DEF IInv, TypeOK, Append_Stored, Logs
<1> HIDE DEF r
<1>4. /\ Len(records) \in Nat
      /\ records' \in Logs
      /\ Len(records') = Len(records) + 1
      /\ DOMAIN records = 1 .. Len(records)
      /\ DOMAIN records' = 1 .. (Len(records) + 1)
      /\ \A n \in 1 .. Len(records) : records'[n] = records[n]
      /\ records'[Len(records) + 1] = r
  BY <1>1, <1>3, AppendProperties, LenProperties DEF Logs
<1>5. /\ numberedLog(records) /\ growingLog(records) /\ legalLog(records)
  BY LogInvariants DEF IInv
<1>6. numberedLog(records')
  BY <1>2, <1>4, <1>5 DEF numberedLog
<1>7. growingLog(records')
  BY <1>1, <1>3, <1>5, GrowingAppend
<1>8. legalLog(records')
  BY <1>1, <1>2, <1>3, <1>5, LegalAppend DEF slice, id
<1>9. (Numbered /\ HistoryGrows /\ LegalHistory)'
  BY <1>6, <1>7, <1>8 DEF Numbered, numberedLog, HistoryGrows, growingLog, growsAt,
       LegalHistory, legalLog, legalEvent, legalAt
<1>10. TypeOK'
  <2>1. seen' \in [Handlers -> 0 .. Len(records')]
    BY <1>4 DEF IInv, TypeOK, Append_Stored
  <2>2. ASSUME NEW g \in Handlers
        PROVE  /\ pc'[g] # "idle" => command'[g] \in Command
               /\ IF pc'[g] = "saving" THEN aggregate'[g] \in Pending(slice(g)')
                  ELSE aggregate'[g] = NoAggregate
               /\ outcome'[g].tag \in {"None", "Rejected", "Receipt", "ExpectedVersionConflict"}
    <3>1. CASE g = h
      BY <3>1 DEF IInv, TypeOK, Append_Stored
    <3>2. CASE g # h
      BY <3>2 DEF IInv, TypeOK, Append_Stored, slice
    <3> QED BY <3>1, <3>2
  <2>3. records' \in Seq(StoredEvent(Ids, DomainEvent))
    BY <1>4 DEF Logs
  <2>4. /\ pc' \in [Handlers -> {"idle", "requested", "saving"}]
        /\ command' \in [Handlers -> Command \cup {NoCommand}]
        /\ issued' \in 0 .. MaxCommands
        /\ DOMAIN aggregate' = Handlers
        /\ DOMAIN outcome' = Handlers
    BY DEF IInv, TypeOK, Append_Stored
  <2> QED BY <2>1, <2>2, <2>3, <2>4 DEF TypeOK, slice
<1>11. \A s, x : \A n \in 0 .. Len(records) :
          history(s, records', x)[n] = history(s, records, x)[n]
  BY <1>1, <1>3, HistoryAppend DEF Logs
<1>12. ASSUME NEW g \in Handlers, pc'[g] = "saving" PROVE Prepared(g)'
  <2>1. g # h /\ pc[g] = "saving"
    BY <1>12 DEF Append_Stored, IInv, TypeOK
  <2>2. command'[g] = command[g] /\ aggregate'[g] = aggregate[g] /\ seen'[g] = seen[g]
    BY <2>1 DEF Append_Stored, IInv, TypeOK
  <2> QED BY <1>11, <2>1, <2>2, PreparedStable
<1>13. AllPrepared'
  BY <1>12 DEF AllPrepared
<1> QED BY <1>9, <1>10, <1>13 DEF IInv

\* Doing nothing preserves the invariant.
LEMMA StutteringStep == ASSUME IInv, UNCHANGED vars PROVE IInv'
BY DEF vars, IInv, TypeOK, Numbered, HistoryGrows, AllPrepared, Prepared, LegalHistory,
       legalEvent, slice, id

(***************************************************************************)
(* The invariant holds in every reachable state.                           *)
(***************************************************************************)
THEOREM Invariance == Spec => []IInv
<1>1. IInv /\ [Next]_vars => IInv'
  <2> SUFFICES ASSUME IInv, [Next]_vars PROVE IInv'
    OBVIOUS
  <2>1. CASE UNCHANGED vars
    BY <2>1, StutteringStep
  <2>2. CASE Next
    <3>1. PICK h \in Handlers : Request(h) \/ Handle(h)
      BY <2>2 DEF Next
    <3>2. CASE Request(h)
      BY <3>2, RequestStep
    <3>3. CASE LoadAndReject(h)
      BY <3>3, LoadAndRejectStep
    <3>4. CASE LoadAndAccept(h)
      BY <3>4, LoadAndAcceptStep
    <3>5. CASE Append_Stored(h)
      BY <3>5, AppendStoredStep
    <3>6. CASE Append_Conflict(h)
      BY <3>6, AppendConflictStep
    <3> QED BY <3>1, <3>2, <3>3, <3>4, <3>5, <3>6 DEF Handle
  <2> QED BY <2>1, <2>2
<1> QED BY Initially, <1>1, PTL DEF Spec

(***************************************************************************)
(* Type correctness.                                                       *)
(***************************************************************************)
THEOREM TypeCorrect == Spec => []TypeOK
<1>1. IInv => TypeOK
  BY DEF IInv
<1> QED BY <1>1, Invariance, PTL

(***************************************************************************)
(* However many handlers race, every event of the log is one its slice's   *)
(* decision accepts on the history before it: the version check of append  *)
(* keeps decisions made on stale aggregates out of the log.                *)
(***************************************************************************)
THEOREM HistoryIsLegal == Spec => []LegalHistory
<1>1. IInv => LegalHistory
  BY DEF IInv
<1> QED BY <1>1, Invariance, PTL

-----------------------------------------------------------------------------
(***************************************************************************)
(* What an answer means: a receipt stands for an event of the log, and a   *)
(* conflict for an event of another handler, wherever the slices do not    *)
(* share the id.                                                           *)
(***************************************************************************)

\* carriesOut and overtaken, as predicates of any log.
carriesOutIn(rs, c, receipt, i) ==
    /\ rs[i].aggregateId = c.id
    /\ decide(c, history(sliceOf(c), rs, c.id)[i - 1].state) = accept(rs[i].event)
    /\ receiptOf(sliceOf(c), history(sliceOf(c), rs, c.id)[i]) = receipt

overtakenIn(rs, c, from) ==
    \E i \in (from + 1) .. Len(rs) : i \in fetch(sliceOf(c), rs, c.id)

(***************************************************************************)
(* The inductive invariant: besides what Invariance says, a handler at     *)
(* work has not answered, its answers still hold of the log as it is now,  *)
(* and a slice counts its own streams as the store does.                   *)
(***************************************************************************)
Working == \A h \in Handlers : pc[h] # "idle" => outcome[h] = NoOutcome

AInv ==
    /\ IInv
    /\ Working
    /\ ReceiptsHonoured
    /\ OwnStreamConflictMeansContention
    /\ ownVersions(records)

\* A log that only grows keeps what was said about its beginning.
LEMMA AnswersSurvive ==
    ASSUME NEW rs \in Logs, NEW r \in StoredEvent(Ids, DomainEvent), NEW c, NEW receipt,
           NEW from \in Nat
    PROVE  /\ \A i \in 1 .. Len(rs) : carriesOutIn(rs, c, receipt, i) =>
                  carriesOutIn(Append(rs, r), c, receipt, i)
           /\ overtakenIn(rs, c, from) => overtakenIn(Append(rs, r), c, from)
<1> DEFINE qs == Append(rs, r)
           s == sliceOf(c)
<1>1. /\ Len(rs) \in Nat /\ Len(qs) = Len(rs) + 1
      /\ \A n \in 1 .. Len(rs) : qs[n] = rs[n]
  BY AppendProperties, LenProperties DEF Logs
<1>2. /\ \A n \in 0 .. Len(rs) : history(s, qs, c.id)[n] = history(s, rs, c.id)[n]
      /\ \A n \in 1 .. Len(rs) : n \in fetch(s, qs, c.id) <=> n \in fetch(s, rs, c.id)
  BY HistoryAppend, FetchAppend DEF Logs
<1> HIDE DEF qs, s
<1>3. ASSUME NEW i \in 1 .. Len(rs), carriesOutIn(rs, c, receipt, i)
      PROVE  carriesOutIn(qs, c, receipt, i)
  <2>1. i \in 0 .. Len(rs) /\ i - 1 \in 0 .. Len(rs)
    BY <1>1
  <2> QED BY <1>1, <1>2, <1>3, <2>1 DEF carriesOutIn, s
<1>4. ASSUME overtakenIn(rs, c, from) PROVE overtakenIn(qs, c, from)
  <2>1. PICK i \in (from + 1) .. Len(rs) : i \in fetch(s, rs, c.id)
    BY <1>4 DEF overtakenIn, s
  <2>2. i \in 1 .. Len(rs) /\ i \in (from + 1) .. Len(qs)
    BY <1>1, <2>1
  <2> QED BY <1>2, <2>1, <2>2 DEF overtakenIn, s
<1> QED BY <1>3, <1>4 DEF qs

-----------------------------------------------------------------------------
honoured(h) ==
    outcome[h].tag = "Receipt" =>
        \E i \in (seen[h] + 1) .. Len(records) :
            carriesOutIn(records, command[h], outcome[h].receipt, i)

contended(h) ==
    (outcome[h].tag = "ExpectedVersionConflict" /\ id(h) \notin CounterIds \cap UserIds)
        => overtakenIn(records, command[h], seen[h])

\* The two properties, handler by handler.
LEMMA PerHandler ==
    /\ ReceiptsHonoured <=> \A h \in Handlers : honoured(h)
    /\ OwnStreamConflictMeansContention <=> \A h \in Handlers : contended(h)
BY DEF ReceiptsHonoured, carriesOut, honoured, carriesOutIn,
       OwnStreamConflictMeansContention, overtaken, contended, overtakenIn, slice, id

\* The log is as it was, or has one event more.
extended ==
    \/ records' = records
    \/ \E r \in StoredEvent(Ids, DomainEvent) : records' = Append(records, r)

\* What a handler has answered stays true whatever the other handlers store.
LEMMA AnswersKept ==
    ASSUME AInv, NEW h \in Handlers, extended,
           outcome'[h] = outcome[h], command'[h] = command[h], seen'[h] = seen[h]
    PROVE  honoured(h)' /\ contended(h)'
<1>1. records \in Logs /\ seen[h] \in Nat /\ Len(records) \in Nat
  BY LenProperties DEF AInv, IInv, TypeOK, Logs
<1>2. honoured(h) /\ contended(h)
  BY PerHandler DEF AInv
<1>3. CASE records' = records
  BY <1>2, <1>3 DEF honoured, contended, carriesOutIn, overtakenIn, id
<1>4. CASE \E r \in StoredEvent(Ids, DomainEvent) : records' = Append(records, r)
  <2>1. PICK r \in StoredEvent(Ids, DomainEvent) : records' = Append(records, r)
    BY <1>4
  <2>2. Len(records') = Len(records) + 1
    BY <1>1, <2>1, AppendProperties DEF Logs
  <2>3. honoured(h)'
    <3> SUFFICES ASSUME outcome[h].tag = "Receipt"
                 PROVE  \E i \in (seen[h] + 1) .. Len(records') :
                            carriesOutIn(records', command[h], outcome[h].receipt, i)
      BY DEF honoured, carriesOutIn
    <3>1. PICK i \in (seen[h] + 1) .. Len(records) :
             carriesOutIn(records, command[h], outcome[h].receipt, i)
      BY <1>2 DEF honoured
    <3>2. i \in 1 .. Len(records) /\ i \in (seen[h] + 1) .. Len(records')
      BY <1>1, <2>2, <3>1
    <3>3. carriesOutIn(records', command[h], outcome[h].receipt, i)
      BY <1>1, <2>1, <3>1, <3>2, AnswersSurvive
    <3> QED BY <3>2, <3>3
  <2>4. contended(h)'
    <3>1. overtakenIn(records, command[h], seen[h]) =>
             overtakenIn(records', command[h], seen[h])
      BY <1>1, <2>1, AnswersSurvive
    <3>2. contended(h)' <=>
             ((outcome[h].tag = "ExpectedVersionConflict" /\ id(h) \notin CounterIds \cap UserIds)
                 => overtakenIn(records', command[h], seen[h]))
      BY DEF contended, overtakenIn, id
    <3> QED BY <1>2, <3>1, <3>2 DEF contended
  <2> QED BY <2>3, <2>4
<1> QED BY <1>3, <1>4 DEF extended

(***************************************************************************)
(* A step of one handler keeps the invariant if its own answer is true and *)
(* the log stays a log whose versions agree.                               *)
(***************************************************************************)
LEMMA OwnAnswer ==
    ASSUME AInv, IInv', NEW h \in Handlers, extended, ownVersions(records'),
           \A g \in Handlers : g # h => /\ outcome'[g] = outcome[g]
                                        /\ command'[g] = command[g]
                                        /\ seen'[g] = seen[g]
                                        /\ pc'[g] = pc[g],
           pc'[h] # "idle" => outcome'[h] = NoOutcome,
           honoured(h)', contended(h)'
    PROVE  AInv'
<1>1. \A g \in Handlers : honoured(g)' /\ contended(g)'
  BY AnswersKept
<1>2. ReceiptsHonoured' /\ OwnStreamConflictMeansContention'
  BY <1>1 DEF ReceiptsHonoured, carriesOut, honoured, carriesOutIn,
       OwnStreamConflictMeansContention, overtaken, contended, overtakenIn, slice, id
<1>3. Working'
  BY DEF AInv, Working
<1>4. ownVersions(records)'
  BY DEF ownVersions
<1> QED BY <1>2, <1>3, <1>4 DEF AInv

\* An answer that is neither a receipt nor a conflict says nothing about the log.
LEMMA NothingSaid ==
    ASSUME NEW h \in Handlers, outcome'[h].tag \notin {"Receipt", "ExpectedVersionConflict"}
    PROVE  honoured(h)' /\ contended(h)'
BY DEF honoured, contended

-----------------------------------------------------------------------------
\* The invariant holds initially.
LEMMA AnswersInitially == Init => AInv
<1> SUFFICES ASSUME Init PROVE AInv
  OBVIOUS
<1>1. \A h \in Handlers : outcome[h] = NoOutcome /\ outcome[h].tag = "None"
  BY DEF Init, NoOutcome
<1>2. ReceiptsHonoured /\ OwnStreamConflictMeansContention /\ Working
  BY <1>1 DEF ReceiptsHonoured, OwnStreamConflictMeansContention, Working
<1>3. ownVersions(records)
  BY OwnVersionsInitially DEF Init
<1> QED BY <1>2, <1>3, Initially DEF AInv

\* Request keeps the answers of the others and forgets the handler's own.
LEMMA RequestKeepsAnswers ==
    ASSUME AInv, IInv', NEW h \in Handlers, Request(h)
    PROVE  AInv'
<1>1. outcome'[h] = NoOutcome /\ outcome'[h].tag = "None"
  BY DEF AInv, IInv, TypeOK, Request, NoOutcome
<1>2. honoured(h)' /\ contended(h)'
  BY <1>1, NothingSaid
<1>3. ownVersions(records') /\ extended
  BY DEF AInv, Request, extended
<1> QED BY <1>1, <1>2, <1>3, OwnAnswer DEF AInv, IInv, TypeOK, Request

\* A rejection says nothing about the log.
LEMMA RejectKeepsAnswers ==
    ASSUME AInv, IInv', NEW h \in Handlers, LoadAndReject(h)
    PROVE  AInv'
<1>1. outcome'[h].tag = "Rejected" /\ pc'[h] = "idle"
  BY DEF AInv, IInv, TypeOK, LoadAndReject
<1>2. honoured(h)' /\ contended(h)'
  BY <1>1, NothingSaid
<1>3. ownVersions(records') /\ extended
  BY DEF AInv, LoadAndReject, extended
<1> QED BY <1>1, <1>2, <1>3, OwnAnswer DEF AInv, IInv, TypeOK, LoadAndReject

\* A handler that has decided has not answered yet.
LEMMA AcceptKeepsAnswers ==
    ASSUME AInv, IInv', NEW h \in Handlers, LoadAndAccept(h)
    PROVE  AInv'
<1>1. outcome'[h] = NoOutcome /\ outcome'[h].tag = "None"
  BY DEF AInv, Working, LoadAndAccept, NoOutcome
<1>2. honoured(h)' /\ contended(h)'
  BY <1>1, NothingSaid
<1>3. ownVersions(records') /\ extended
  BY DEF AInv, LoadAndAccept, extended
<1> QED BY <1>1, <1>2, <1>3, OwnAnswer DEF AInv, IInv, TypeOK, LoadAndAccept

(***************************************************************************)
(* A receipt is given with its event: the last of the log.                 *)
(***************************************************************************)
LEMMA StoredKeepsAnswers ==
    ASSUME AInv, IInv', NEW h \in Handlers, Append_Stored(h)
    PROVE  AInv'
<1> DEFINE r == newRecord(h)
           N == Len(records)
           H == history(slice(h), records', id(h))
           loaded == load(slice(h), records, id(h))
           receipt == receiptOf(slice(h), aggregate[h])
<1>1. /\ records' = Append(records, r)
      /\ r \in StoredEvent(Ids, DomainEvent)
      /\ decide(command[h], loaded.state) = accept(r.event)
      /\ aggregate[h] = recordEvent(slice(h), loaded, r.event)
  BY SaveIsFresh DEF Append_Stored, AInv
<1>2. r.aggregateId = id(h) /\ r.eventStoreSequenceNumber = N + 1
  BY DEF newRecord
<1>3. command[h] \in Command /\ slice(h) \in Slices /\ slice(h) = sliceOf(command[h])
  BY HandlerType DEF AInv, IInv, slice, Append_Stored
<1>4. records \in Logs /\ N \in Nat /\ seen[h] \in 0 .. N
  BY LenProperties DEF AInv, IInv, TypeOK, Logs
<1>5. \A s \in Slices : belongsToSlice(s, r.event) <=> s = slice(h)
  <2>1. /\ ~ isFailure(decide(command[h], loaded.state))
        /\ decide(command[h], loaded.state).event = r.event
    BY <1>1 DEF accept, isFailure
  <2> QED BY <1>3, <2>1, DecisionType
<1> HIDE DEF r, loaded
<1>6. r.eventStoreSequenceNumber >= 1 /\ inHistory(slice(h), r, id(h))
  BY <1>2, <1>3, <1>4, <1>5 DEF inHistory
<1>7. /\ Len(records') = N + 1
      /\ records'[N + 1] = r
      /\ H[N] = loaded
      /\ H[N + 1] = replayEvent(slice(h), loaded, r.event)
  <2>1. Len(records') = N + 1 /\ records'[N + 1] = r
    BY <1>1, <1>4, AppendProperties DEF Logs
  <2>2. /\ load(slice(h), Append(records, r), id(h)) = replayEvent(slice(h), loaded, r.event)
        /\ \A n \in 0 .. N : history(slice(h), Append(records, r), id(h))[n]
                                = history(slice(h), records, id(h))[n]
    BY <1>1, <1>4, <1>6, HistoryAppend DEF Logs, loaded
  <2>3. H[N + 1] = load(slice(h), records', id(h))
    BY <2>1 DEF load
  <2>4. H[N] = loaded
    BY <1>1, <1>4, <2>2 DEF load, loaded
  <2> QED BY <1>1, <2>1, <2>2, <2>3, <2>4
<1>8. receiptOf(slice(h), H[N + 1]) = receipt
  <2>1. loaded \in Replayed(slice(h))
    BY <1>3, <1>4, AnyLoadType DEF loaded
  <2>2. /\ aggregate[h].state = replayEvent(slice(h), loaded, r.event).state
        /\ aggregate[h].version = replayEvent(slice(h), loaded, r.event).version
    BY <1>1, <2>1 DEF recordEvent, replayEvent, Replayed
  <2> QED BY <1>7, <2>2 DEF receiptOf
<1>9. carriesOutIn(records', command[h], receipt, N + 1)
  <2>1. (N + 1) - 1 = N
    BY <1>4
  <2> HIDE DEF N, receipt
  <2> QED BY <1>1, <1>2, <1>3, <1>7, <1>8, <2>1 DEF carriesOutIn, slice, id
<1>10. /\ outcome'[h] = [tag |-> "Receipt", receipt |-> receipt]
       /\ command'[h] = command[h] /\ seen'[h] = seen[h]
  BY DEF AInv, IInv, TypeOK, Append_Stored
<1>11. honoured(h)' /\ contended(h)'
  <2>1. N + 1 \in (seen[h] + 1) .. Len(records')
    BY <1>4, <1>7
  <2>2. outcome'[h].receipt = receipt /\ outcome'[h].tag = "Receipt"
    BY <1>10
  <2> HIDE DEF N, receipt
  <2> QED BY <1>9, <1>10, <2>1, <2>2 DEF honoured, contended, carriesOutIn
<1>12. ownVersions(records')
  <2>1. id(h) \in IF slice(h) = "counter" THEN CounterIds ELSE UserIds
    BY <1>3 DEF slice, id, sliceOf, Command, CounterCommand, UserCommand,
         CounterCommandTags, UserCommandTags
  <2> HIDE DEF N
  <2> QED BY <1>1, <1>2, <1>3, <1>4, <1>5, <1>6, <2>1, OwnVersionsAppend DEF AInv
<1>13. extended
  BY <1>1 DEF extended
<1> QED BY <1>11, <1>12, <1>13, OwnAnswer DEF AInv, IInv, TypeOK, Append_Stored

(***************************************************************************)
(* A conflict is contention: had no event of the slice's own been stored   *)
(* in the stream since the handler loaded, the version replayed to would   *)
(* be the one it loaded, and on an id of its own so would the store's.     *)
(***************************************************************************)
LEMMA ConflictKeepsAnswers ==
    ASSUME AInv, IInv', NEW h \in Handlers, Append_Conflict(h)
    PROVE  AInv'
<1> DEFINE past == history(slice(h), records, id(h))[seen[h]]
<1>1. command[h] \in Command /\ slice(h) \in Slices /\ id(h) \in Ids /\ pc[h] = "saving"
  BY HandlerType DEF AInv, IInv, Append_Conflict
<1>2. records \in Logs /\ seen[h] \in 0 .. Len(records)
  BY DEF AInv, IInv, TypeOK, Logs
<1>3. /\ ~ isFailure(decide(command[h], past.state))
      /\ aggregate[h] = recordEvent(slice(h), past, decide(command[h], past.state).event)
  BY <1>1 DEF AInv, IInv, AllPrepared, Prepared
<1>4. past \in Replayed(slice(h))
  BY <1>1, <1>2, AnyHistoryType
<1> HIDE DEF past
<1>5. expectedVersion(aggregate[h]) = past.version
  BY <1>1, <1>3, <1>4, RecordEventType DEF slice
<1>6. aggregateVersionInRecords(records, id(h)) # past.version
  BY <1>5 DEF Append_Conflict, atExpectedVersion
<1>7. ASSUME id(h) \notin CounterIds \cap UserIds
      PROVE  overtakenIn(records, command[h], seen[h])
  <2>1. id(h) \in ownIds(slice(h))
    BY <1>1, <1>7 DEF ownIds, slice, id, sliceOf, Command, CounterCommand, UserCommand,
         CounterCommandTags, UserCommandTags
  <2>2. load(slice(h), records, id(h)).version # past.version
    BY <1>1, <1>6, <2>1 DEF AInv, ownVersions
  <2>3. load(slice(h), records, id(h)) # history(slice(h), records, id(h))[seen[h]]
    BY <2>2 DEF past
  <2>4. \E i \in (seen[h] + 1) .. Len(records) : i \in fetch(slice(h), records, id(h))
    BY <1>2, <2>3, QuietHistory
  <2> QED BY <2>4 DEF overtakenIn, slice, id
<1>8. /\ outcome'[h].tag = "ExpectedVersionConflict" /\ command'[h] = command[h]
      /\ seen'[h] = seen[h] /\ pc'[h] = "idle" /\ records' = records
  BY DEF AInv, IInv, TypeOK, Append_Conflict
<1>9. honoured(h)' /\ contended(h)'
  BY <1>7, <1>8 DEF honoured, contended, overtakenIn, id
<1>10. ownVersions(records') /\ extended
  BY <1>8 DEF AInv, extended
<1> QED BY <1>8, <1>9, <1>10, OwnAnswer DEF AInv, IInv, TypeOK, Append_Conflict

\* Doing nothing keeps the answers.
LEMMA StutteringKeepsAnswers ==
    ASSUME AInv, IInv', UNCHANGED vars
    PROVE  AInv'
BY DEF vars, AInv, Working, ReceiptsHonoured, carriesOut, OwnStreamConflictMeansContention,
       overtaken, ownVersions, slice, id

-----------------------------------------------------------------------------
(***************************************************************************)
(* The invariant holds in every reachable state.                           *)
(***************************************************************************)
THEOREM AnswersInvariance == Spec => []AInv
<1>1. AInv /\ IInv' /\ [Next]_vars => AInv'
  <2> SUFFICES ASSUME AInv, IInv', [Next]_vars PROVE AInv'
    OBVIOUS
  <2>1. CASE UNCHANGED vars
    BY <2>1, StutteringKeepsAnswers
  <2>2. CASE Next
    <3>1. PICK h \in Handlers : Request(h) \/ Handle(h)
      BY <2>2 DEF Next
    <3>2. CASE Request(h)
      BY <3>2, RequestKeepsAnswers
    <3>3. CASE LoadAndReject(h)
      BY <3>3, RejectKeepsAnswers
    <3>4. CASE LoadAndAccept(h)
      BY <3>4, AcceptKeepsAnswers
    <3>5. CASE Append_Stored(h)
      BY <3>5, StoredKeepsAnswers
    <3>6. CASE Append_Conflict(h)
      BY <3>6, ConflictKeepsAnswers
    <3> QED BY <3>1, <3>2, <3>3, <3>4, <3>5, <3>6 DEF Handle
  <2> QED BY <2>1, <2>2
<1> QED BY AnswersInitially, Invariance, <1>1, PTL DEF Spec

(***************************************************************************)
(* However many handlers race, every receipt stands for an event stored    *)
(* after its handler loaded, that carries out its command, and says what   *)
(* replaying the log up to that event gives.                               *)
(***************************************************************************)
THEOREM ReceiptsAreHonoured == Spec => []ReceiptsHonoured
<1>1. AInv => ReceiptsHonoured
  BY DEF AInv
<1> QED BY <1>1, AnswersInvariance, PTL

(***************************************************************************)
(* On an id that only one slice uses, a handler answers a conflict only if *)
(* an event of its own slice overtook it in its own stream.                *)
(***************************************************************************)
THEOREM ConflictsAreContention == Spec => []OwnStreamConflictMeansContention
<1>1. AInv => OwnStreamConflictMeansContention
  BY DEF AInv
<1> QED BY <1>1, AnswersInvariance, PTL

-----------------------------------------------------------------------------
(***************************************************************************)
(* ListCounters, which groups the whole log by the identity inside each    *)
(* event, always lists exactly the counters the repository would load.     *)
(***************************************************************************)
THEOREM CounterListMatches == Spec => []CounterListAgrees
<1>1. ASSUME IInv PROVE CounterListAgrees
  <2>1. records \in Logs /\ legalLog(records)
    BY <1>1, LogInvariants DEF IInv, TypeOK, Logs
  <2> QED BY <2>1, ListShowsCounters DEF CounterListAgrees
<1> QED BY <1>1, Invariance, PTL

-----------------------------------------------------------------------------
(***************************************************************************)
(* ListArticles, which folds the events of all users into one map, always  *)
(* shows a bookmark exactly when the user's own aggregate holds it.        *)
(***************************************************************************)
THEOREM ArticleListMatches == Spec => []ArticleListAgrees
<1>1. ASSUME IInv, NEW u \in UserIds, NEW a \in Catalog
      PROVE  ListArticles(records, u)[a] = (a \in bookmarkedArticleIds(load("user", records, u).state))
  <2>1. records \in Logs /\ numberedLog(records) /\ usersAtHome(records)
    BY <1>1, LogInvariants, UsersAtHome DEF IInv, TypeOK, Logs
  <2> QED BY <2>1, ListShowsBookmarks
<1>2. IInv => ArticleListAgrees
  BY <1>1 DEF ArticleListAgrees
<1> QED BY <1>2, Invariance, PTL

-----------------------------------------------------------------------------
(***************************************************************************)
(* Every behaviour of CommandSystem is, step by step, one of               *)
(* AtomicCommands: the safety half of CommandsAreAtomic.                   *)
(*                                                                         *)
(* AtomicCommands is instantiated, so its copies of the domain rules are   *)
(* other operators than those of CommandSystem; the first lemmas say that  *)
(* they are the same.                                                      *)
(***************************************************************************)

\* Both modules call the same decisions failures.
LEMMA SameVerdicts ==
    ASSUME NEW d
    PROVE  Atomic!isFailure(d) <=> isFailure(d)
BY DEF Atomic!isFailure, isFailure

\* Both take the same decision on a command.
LEMMA SameDecisions ==
    ASSUME NEW c, NEW st
    PROVE  Atomic!decide(c, st) = decide(c, st)
<1>1. Atomic!sliceOf(c) = sliceOf(c)
  BY DEF Atomic!sliceOf, sliceOf, Atomic!CounterCommandTags, CounterCommandTags
<1>2. Atomic!decideCounter(c, st) = decideCounter(c, st)
  BY Zenon DEF Atomic!decideCounter, decideCounter, Atomic!createCounter, createCounter,
       Atomic!incrementCounter, incrementCounter, Atomic!decrementCounter, decrementCounter,
       Atomic!disableCounter, disableCounter, Atomic!counterEvent, counterEvent,
       Atomic!accept, accept, Atomic!reject, reject,
       Atomic!minimumCounterValue, minimumCounterValue
<1>3. Atomic!toggleArticleBookmark(c, st) = toggleArticleBookmark(c, st)
  BY Zenon DEF Atomic!toggleArticleBookmark, toggleArticleBookmark,
       Atomic!bookmarkedArticleIds, bookmarkedArticleIds, Atomic!accept, accept
<1> QED BY <1>1, <1>2, <1>3 DEF Atomic!decide, decide

\* Both replay an event alike.
LEMMA SameReplays ==
    ASSUME NEW s, NEW a, NEW e
    PROVE  Atomic!replayEvent(s, a, e) = replayEvent(s, a, e)
<1>1. Atomic!applyCounterEvent(a.state, e) = applyCounterEvent(a.state, e)
  BY Zenon DEF Atomic!applyCounterEvent, applyCounterEvent, Atomic!activeCounter, activeCounter,
       Atomic!toCounterValue, toCounterValue, Atomic!minimumCounterValue, minimumCounterValue
<1>2. Atomic!applyUserEvent(a.state, e) = applyUserEvent(a.state, e)
  BY Zenon DEF Atomic!applyUserEvent, applyUserEvent,
       Atomic!bookmarkedArticleIds, bookmarkedArticleIds
<1>3. Atomic!reducer(s, a.state, e) = reducer(s, a.state, e)
  BY <1>1, <1>2 DEF Atomic!reducer, reducer
<1> QED BY <1>3 DEF Atomic!replayEvent, replayEvent

\* Both make the same receipt of an aggregate.
LEMMA SameReceipts ==
    ASSUME NEW s, NEW a
    PROVE  Atomic!receiptOf(s, a) = receiptOf(s, a)
BY Zenon DEF Atomic!receiptOf, receiptOf, Atomic!bookmarkedArticleIds, bookmarkedArticleIds

\* Both start from the same aggregates.
LEMMA SameBeginnings ==
    ASSUME NEW s
    PROVE  Atomic!makeAggregate(s) = makeAggregate(s)
BY Zenon DEF Atomic!makeAggregate, makeAggregate, Atomic!initialState, initialState,
     Atomic!initialCounterState, initialCounterState, Atomic!initialUserState, initialUserState

\* Both accept the same commands and keep the same streams.
LEMMA SameCommands ==
    /\ Atomic!Command = Command
    /\ Atomic!streams = ({"counter"} \X CounterIds) \cup ({"user"} \X UserIds)
    /\ \A c : Atomic!streamOf(c) = <<sliceOf(c), c.id>>
<1>1. Atomic!Command = Command
  BY Zenon DEF Atomic!Command, Command, Atomic!CounterCommand, CounterCommand,
       Atomic!UserCommand, UserCommand, Atomic!CounterCommandTags, CounterCommandTags,
       Atomic!UserCommandTags, UserCommandTags
<1>2. \A c : Atomic!sliceOf(c) = sliceOf(c)
  BY DEF Atomic!sliceOf, sliceOf, Atomic!CounterCommandTags, CounterCommandTags
<1> QED BY <1>1, <1>2 DEF Atomic!streams, Atomic!streamOf

-----------------------------------------------------------------------------
\* No command is taken for the absence of one.
LEMMA CommandIsOne == \A c \in Command : c # NoCommand
BY DEF Command, CounterCommand, UserCommand, CounterCommandTags, UserCommandTags, NoCommand

\* What a busy handler is asked, and what is held in the stream it is asked about.
LEMMA BusyHandler ==
    ASSUME IInv, NEW h \in Handlers, pc[h] # "idle"
    PROVE  /\ beingHandled[h] = command[h]
           /\ beingHandled[h] # Atomic!NoCommand
           /\ Atomic!streamOf(beingHandled[h]) = <<slice(h), id(h)>>
           /\ <<slice(h), id(h)>> \in ({"counter"} \X CounterIds) \cup ({"user"} \X UserIds)
           /\ heldInLog[<<slice(h), id(h)>>] = load(slice(h), records, id(h))
           /\ Atomic!decisionOn(h) = decide(command[h], load(slice(h), records, id(h)).state)
<1>1. command[h] \in Command
  BY HandlerType DEF IInv
<1>2. beingHandled[h] = command[h]
  BY DEF beingHandled
<1>3. beingHandled[h] # Atomic!NoCommand
  BY <1>1, <1>2, CommandIsOne DEF Atomic!NoCommand, NoCommand
<1>4. Atomic!streamOf(beingHandled[h]) = <<slice(h), id(h)>>
  BY <1>2, SameCommands DEF slice, id
<1>5. <<slice(h), id(h)>> \in ({"counter"} \X CounterIds) \cup ({"user"} \X UserIds)
  BY <1>1 DEF slice, id, sliceOf, Command, CounterCommand, UserCommand,
       CounterCommandTags, UserCommandTags
<1>6. heldInLog[<<slice(h), id(h)>>] = load(slice(h), records, id(h))
  <2>1. <<slice(h), id(h)>>[1] = slice(h) /\ <<slice(h), id(h)>>[2] = id(h)
    OBVIOUS
  <2> HIDE DEF slice, id
  <2> QED BY <1>5, <2>1 DEF heldInLog
<1>7. Atomic!decisionOn(h) = decide(command[h], load(slice(h), records, id(h)).state)
  BY <1>2, <1>4, <1>6, SameDecisions DEF Atomic!decisionOn
<1> QED BY <1>2, <1>3, <1>4, <1>5, <1>6, <1>7

-----------------------------------------------------------------------------
\* The aggregates of an empty log are new.
LEMMA InitiallyAtomic == Init => Atomic!InitAtomic
<1> SUFFICES ASSUME Init PROVE Atomic!InitAtomic
  OBVIOUS
<1>1. ASSUME NEW s \in ({"counter"} \X CounterIds) \cup ({"user"} \X UserIds)
      PROVE  load(s[1], records, s[2]) = Atomic!makeAggregate(s[1])
  <2>1. load(s[1], <<>>, s[2]) = makeAggregate(s[1])
    BY EmptyLoad
  <2> QED BY <2>1, SameBeginnings DEF Init
<1>2. heldInLog = [s \in Atomic!streams |-> Atomic!makeAggregate(s[1])]
  BY <1>1, SameCommands DEF heldInLog
<1>3. /\ beingHandled = [h \in Handlers |-> Atomic!NoCommand]
      /\ outcome = [h \in Handlers |-> Atomic!NoAnswer]
  BY DEF Init, beingHandled, NoCommand, NoOutcome, Atomic!NoCommand, Atomic!NoAnswer
<1> QED BY <1>2, <1>3 DEF Atomic!InitAtomic

\* Submitting a command is the handler's Request.
LEMMA RequestIsSubmit ==
    ASSUME IInv, NEW h \in Handlers, Request(h)
    PROVE  Atomic!Submit(h)
<1>1. PICK c \in Command : command' = [command EXCEPT ![h] = c]
  BY DEF Request
<1>2. beingHandled[h] = Atomic!NoCommand
  BY DEF Request, beingHandled, NoCommand, Atomic!NoCommand
<1>3. beingHandled' = [beingHandled EXCEPT ![h] = c]
  BY <1>1 DEF IInv, TypeOK, Request, beingHandled
<1>4. heldInLog' = heldInLog
  BY DEF Request, heldInLog
<1> QED BY <1>1, <1>2, <1>3, <1>4, SameCommands
        DEF Request, NoOutcome, Atomic!Submit, Atomic!NoAnswer

\* Loading and deciding is not visible.
LEMMA LoadAndAcceptIsInternal ==
    ASSUME IInv, NEW h \in Handlers, LoadAndAccept(h)
    PROVE  UNCHANGED Atomic!atomicVars
<1>1. beingHandled' = beingHandled
  BY DEF IInv, TypeOK, LoadAndAccept, beingHandled
<1>2. heldInLog' = heldInLog
  BY DEF LoadAndAccept, heldInLog
<1> QED BY <1>1, <1>2 DEF LoadAndAccept, Atomic!atomicVars

\* A rejection is the one the aggregate as it is now calls for.
LEMMA LoadAndRejectIsReject ==
    ASSUME IInv, NEW h \in Handlers, LoadAndReject(h)
    PROVE  Atomic!Reject(h)
<1>1. pc[h] # "idle"
  BY DEF LoadAndReject
<1>2. beingHandled' = [beingHandled EXCEPT ![h] = Atomic!NoCommand]
  BY DEF IInv, TypeOK, LoadAndReject, beingHandled, NoCommand, Atomic!NoCommand
<1>3. heldInLog' = heldInLog
  BY DEF LoadAndReject, heldInLog
<1> QED BY <1>1, <1>2, <1>3, BusyHandler, SameVerdicts
        DEF LoadAndReject, Atomic!Reject, Atomic!reply

\* A conflict has no effect.
LEMMA ConflictIsRefuse ==
    ASSUME IInv, NEW h \in Handlers, Append_Conflict(h)
    PROVE  Atomic!Refuse(h)
<1>1. pc[h] # "idle"
  BY DEF Append_Conflict
<1>2. beingHandled' = [beingHandled EXCEPT ![h] = Atomic!NoCommand]
  BY DEF IInv, TypeOK, Append_Conflict, beingHandled, NoCommand, Atomic!NoCommand
<1>3. heldInLog' = heldInLog
  BY DEF Append_Conflict, heldInLog
<1> QED BY <1>1, <1>2, <1>3, BusyHandler DEF Append_Conflict, Atomic!Refuse, Atomic!reply

(***************************************************************************)
(* The append carries the command out, on the aggregate as it is now and   *)
(* on no other, and the receipt the handler makes of its own copy is the   *)
(* one that aggregate calls for.                                           *)
(***************************************************************************)
LEMMA StoredIsCarryOut ==
    ASSUME IInv, NEW h \in Handlers, Append_Stored(h)
    PROVE  Atomic!CarryOut(h)
<1> DEFINE r == newRecord(h)
           stream == <<slice(h), id(h)>>
           loaded == load(slice(h), records, id(h))
           after == replayEvent(slice(h), loaded, r.event)
<1>1. /\ records' = Append(records, r)
      /\ r \in StoredEvent(Ids, DomainEvent)
      /\ decide(command[h], loaded.state) = accept(r.event)
      /\ pc[h] = "saving"
  BY SaveIsFresh DEF Append_Stored
<1>2. r.aggregateId = id(h)
  BY DEF newRecord
<1>3. command[h] \in Command /\ slice(h) \in Slices /\ slice(h) = sliceOf(command[h])
  BY <1>1, HandlerType DEF IInv, slice
<1>4. ~ isFailure(decide(command[h], loaded.state)) /\ decide(command[h], loaded.state).event = r.event
  BY <1>1 DEF accept, isFailure
<1>5. \A s \in Slices : belongsToSlice(s, r.event) <=> s = slice(h)
  BY <1>3, <1>4, DecisionType
<1> HIDE DEF r, loaded
<1>6. records \in Logs
  BY DEF IInv, TypeOK, Logs
<1>7. r.eventStoreSequenceNumber = Len(records) + 1
  BY DEF r, newRecord
<1>8. heldIn(Append(records, r)) = [heldIn(records) EXCEPT ![stream] = after]
  BY <1>1, <1>2, <1>3, <1>5, <1>6, <1>7, HeldAfterStored DEF stream, after, loaded
<1>9. heldInLog' = [heldInLog EXCEPT ![stream] = after]
  BY <1>1, <1>8 DEF heldIn, heldInLog
<1>10. beingHandled' = [beingHandled EXCEPT ![h] = Atomic!NoCommand]
  BY DEF IInv, TypeOK, Append_Stored, beingHandled, NoCommand, Atomic!NoCommand
<1>11. receiptOf(slice(h), aggregate[h]) = receiptOf(slice(h), after)
  <2>1. aggregate[h] = recordEvent(slice(h), loaded, r.event)
    BY <1>1, SaveIsFresh DEF r, loaded, Append_Stored
  <2>2. loaded \in Replayed(slice(h))
    BY <1>3, <1>6, AnyLoadType DEF loaded
  <2>3. aggregate[h].state = after.state /\ aggregate[h].version = after.version
    BY <2>1, <2>2 DEF recordEvent, replayEvent, Replayed
  <2> QED BY <2>3, ReceiptReadsState
<1> HIDE DEF stream, after
<1>12. /\ Atomic!streamOf(beingHandled[h]) = stream /\ stream[1] = slice(h)
       /\ heldInLog[stream] = loaded
       /\ beingHandled[h] # Atomic!NoCommand
       /\ Atomic!decisionOn(h) = decide(command[h], loaded.state)
  BY <1>1, BusyHandler DEF stream, loaded
<1>13. /\ Atomic!replayEvent(slice(h), loaded, Atomic!decisionOn(h).event) = after
       /\ ~ Atomic!isFailure(Atomic!decisionOn(h))
  BY <1>4, <1>12, SameReplays, SameVerdicts DEF after
<1>14. outcome' = [outcome EXCEPT ![h] = [tag |-> "Receipt",
                                          receipt |-> Atomic!receiptOf(slice(h), after)]]
  BY <1>11, SameReceipts DEF Append_Stored
<1> QED BY <1>9, <1>10, <1>12, <1>13, <1>14 DEF Atomic!CarryOut, Atomic!reply

-----------------------------------------------------------------------------
(***************************************************************************)
(* Concurrent handlers behave as if each command took effect at once: the  *)
(* safety half of CommandsAreAtomic.                                       *)
(***************************************************************************)
THEOREM HandlersAreAtomic == Spec => Atomic!SafetyAtomic
<1>1. IInv /\ [Next]_vars => [Atomic!NextAtomic]_Atomic!atomicVars
  <2> SUFFICES ASSUME IInv, [Next]_vars
               PROVE  Atomic!NextAtomic \/ UNCHANGED Atomic!atomicVars
    OBVIOUS
  <2>1. CASE UNCHANGED vars
    BY <2>1 DEF vars, Atomic!atomicVars, heldInLog, beingHandled
  <2>2. CASE Next
    <3>1. PICK h \in Handlers : Request(h) \/ Handle(h)
      BY <2>2 DEF Next
    <3>2. CASE Request(h)
      BY <3>2, RequestIsSubmit DEF Atomic!NextAtomic
    <3>3. CASE LoadAndReject(h)
      BY <3>3, LoadAndRejectIsReject DEF Atomic!NextAtomic, Atomic!Answer
    <3>4. CASE LoadAndAccept(h)
      BY <3>4, LoadAndAcceptIsInternal
    <3>5. CASE Append_Stored(h)
      BY <3>5, StoredIsCarryOut DEF Atomic!NextAtomic, Atomic!Answer
    <3>6. CASE Append_Conflict(h)
      BY <3>6, ConflictIsRefuse DEF Atomic!NextAtomic, Atomic!Answer
    <3> QED BY <3>1, <3>2, <3>3, <3>4, <3>5, <3>6 DEF Handle
  <2> QED BY <2>1, <2>2
<1> QED BY Invariance, InitiallyAtomic, <1>1, PTL DEF Spec, Atomic!SafetyAtomic
=============================================================================
