------------------------ MODULE JsonFileStoreProofs -------------------------
(***************************************************************************)
(* Proofs about JsonFileStore, for any workers and commands and whether or *)
(* not I/O fails and workers die.  What racing writers lose is whole       *)
(* events: a log that can be read back is numbered without a gap, both as  *)
(* a whole and in each stream, and replays whatever was lost of it.        *)
(*                                                                         *)
(* The second part is about Cli, where commands take turns: nothing that   *)
(* was acknowledged is lost then, and the command line implements          *)
(* AtomicCli.                                                              *)
(***************************************************************************)
EXTENDS CliRefinement, DomainProofs

\* A log nobody has written to is in order.
LEMMA EmptyIsOrderly == <<>> \in Logs /\ orderlyLog(<<>>)
BY DEF Logs, orderlyLog

-----------------------------------------------------------------------------
answers == {"None", "Rejected", "Receipt", "ExpectedVersionConflict",
            "EventStorePersistenceFailure"}

(***************************************************************************)
(* The inductive invariant: the log on file is in order, and so is every   *)
(* log a worker holds, about to be written or half written over it.        *)
(***************************************************************************)
IInv ==
    /\ TypeOK
    /\ DOMAIN aggregate = Workers /\ DOMAIN contents = Workers /\ DOMAIN outcome = Workers
    /\ LogIsOrderly
    /\ \A w \in Workers : orderlyLog(contents[w])

\* The order of the log on file, as a predicate of any log.
LEMMA LogInvariant == LogIsOrderly <=> (isStored => orderlyLog(file.records))
BY DEF LogIsOrderly, orderlyLog, orderlyAt

\* A busy worker has a command, and with it a slice and an identity.
LEMMA WorkerType ==
    ASSUME TypeOK, NEW w \in Workers, pc[w] # "idle"
    PROVE  command[w] \in Command /\ slice(w) \in Slices /\ id(w) \in Ids
<1>1. command[w] \in Command
  BY DEF TypeOK
<1> QED BY <1>1 DEF slice, sliceOf, Slices, id, Ids, Command, CounterCommand, UserCommand

\* Whatever a read returns is a log in order.
LEMMA ReadType ==
    ASSUME IInv, NEW log \in readJsonFileRecords
    PROVE  log \in Logs /\ orderlyLog(log)
<1>1. CASE file.tag = "Stored"
  <2>1. log = file.records
    BY <1>1 DEF readJsonFileRecords
  <2>2. file.records \in Logs
    BY <1>1 DEF IInv, TypeOK, Absent, Torn, Logs
  <2>3. orderlyLog(file.records)
    BY <1>1, LogInvariant DEF IInv, isStored
  <2> QED BY <2>1, <2>2, <2>3
<1>2. CASE file.tag # "Stored"
  <2>1. log = <<>>
    BY <1>2 DEF readJsonFileRecords, IInv, TypeOK, Absent, Torn
  <2> QED BY <2>1, EmptyIsOrderly
<1> QED BY <1>1, <1>2

(***************************************************************************)
(* A step that leaves the file alone, tears it, or stores a log in order   *)
(* leaves a file that holds a log in order, if it holds one at all.        *)
(***************************************************************************)
LEMMA FileStep ==
    ASSUME IInv,
           \/ file' \in {file, Torn}
           \/ \E log \in Logs : orderlyLog(log) /\ file' = stored(log)
    PROVE  /\ \/ file' \in {Absent, Torn}
              \/ file' \in [tag : {"Stored"}, records : Seq(StoredEvent(Ids, DomainEvent))]
           /\ LogIsOrderly'
<1>1. CASE file' = file
  <2>1. isStored => orderlyLog(file.records)
    BY LogInvariant DEF IInv
  <2>2. LogIsOrderly'
    BY <1>1, <2>1 DEF LogIsOrderly, isStored, orderlyLog, orderlyAt
  <2> QED BY <1>1, <2>2 DEF IInv, TypeOK
<1>2. CASE file' = Torn
  BY <1>2 DEF LogIsOrderly, isStored, Torn
<1>3. CASE \E log \in Logs : orderlyLog(log) /\ file' = stored(log)
  <2>1. PICK log \in Logs : orderlyLog(log) /\ file' = stored(log)
    BY <1>3
  <2>2. file'.records = log /\ file'.tag = "Stored"
    BY <2>1 DEF stored
  <2>3. LogIsOrderly'
    BY <2>1, <2>2 DEF LogIsOrderly, orderlyLog, orderlyAt
  <2> QED BY <2>1, <2>3 DEF stored, Logs
<1> QED BY <1>1, <1>2, <1>3

-----------------------------------------------------------------------------
\* The invariant holds initially.
LEMMA Initially == Init => IInv
<1> SUFFICES ASSUME Init PROVE IInv
  OBVIOUS
<1>1. ~ isStored
  BY DEF Init, isStored, Absent
<1>2. LogIsOrderly
  BY <1>1 DEF LogIsOrderly
<1>3. \A w \in Workers : contents[w] = <<>>
  BY DEF Init
<1>4. TypeOK
  <2>1. issued \in 0 .. MaxCommands
    BY FileBoundAssumption DEF Init
  <2>2. acked \cup {contents[w] : w \in Workers} \subseteq Seq(StoredEvent(Ids, DomainEvent))
    BY <1>3, EmptyIsOrderly DEF Init, Logs
  <2> QED BY <2>1, <2>2 DEF Init, TypeOK, NoOutcome
<1> QED BY <1>2, <1>3, <1>4, EmptyIsOrderly DEF IInv, Init

(***************************************************************************)
(* The steps that end a command, answered or not: LoadAndReject, Conflict, *)
(* Fill, ReadFails, WriteFails and Crash.                                  *)
(***************************************************************************)
LEMMA FinishStep ==
    ASSUME IInv, NEW w \in Workers, NEW answer, finish(w, answer), answer.tag \in answers,
           UNCHANGED <<command, issued>>,
           file' \in {file, Torn, stored(contents[w])},
           acked' \in {acked, acked \cup {contents[w]}}
    PROVE  IInv'
<1>1. contents[w] \in Logs /\ orderlyLog(contents[w])
  BY DEF IInv, TypeOK, Logs
<1>2. /\ \/ file' \in {Absent, Torn}
         \/ file' \in [tag : {"Stored"}, records : Seq(StoredEvent(Ids, DomainEvent))]
      /\ LogIsOrderly'
  BY <1>1, FileStep
<1>3. /\ DOMAIN aggregate' = Workers /\ DOMAIN contents' = Workers /\ DOMAIN outcome' = Workers
      /\ pc' \in [Workers -> {"idle", "requested", "saving", "writing", "filling"}]
      /\ overlapped' \in [Workers -> BOOLEAN]
  BY DEF IInv, TypeOK, finish
<1>4. /\ contents'[w] = <<>> /\ outcome'[w] = answer /\ pc'[w] = "idle"
      /\ \A v \in Workers : v # w => /\ contents'[v] = contents[v]
                                     /\ outcome'[v] = outcome[v]
                                     /\ pc'[v] = pc[v]
                                     /\ aggregate'[v] = aggregate[v]
  BY DEF IInv, TypeOK, finish
<1>5. \A v \in Workers : contents'[v] \in Logs /\ orderlyLog(contents'[v])
  BY <1>4, EmptyIsOrderly DEF IInv, TypeOK, Logs
<1>6. acked' \cup {contents'[v] : v \in Workers} \subseteq Seq(StoredEvent(Ids, DomainEvent))
  BY <1>1, <1>5 DEF IInv, TypeOK, Logs
<1>7. ASSUME NEW v \in Workers
      PROVE  /\ pc'[v] # "idle" => command'[v] \in Command
             /\ pc'[v] \in {"saving", "writing", "filling"} => aggregate'[v] \in Pending(slice(v)')
             /\ outcome'[v].tag \in answers
  BY <1>4 DEF IInv, TypeOK, slice, answers
<1>8. TypeOK'
  BY <1>2, <1>3, <1>6, <1>7 DEF IInv, TypeOK, answers
<1>9. \A v \in Workers : orderlyLog(contents[v])'
  BY <1>5 DEF orderlyLog, orderlyAt
<1> QED BY <1>2, <1>3, <1>8, <1>9 DEF IInv

\* Request preserves the invariant: the file and the logs held are as before.
LEMMA RequestStep ==
    ASSUME IInv, NEW w \in Workers, Request(w)
    PROVE  IInv'
<1>1. LogIsOrderly' /\ file' = file
  BY FileStep DEF Request
<1>2. issued' \in 0 .. MaxCommands
  BY FileBoundAssumption DEF IInv, TypeOK, Request
<1>3. ASSUME NEW v \in Workers
      PROVE  /\ pc'[v] # "idle" => command'[v] \in Command
             /\ pc'[v] \in {"saving", "writing", "filling"} => aggregate'[v] \in Pending(slice(v)')
             /\ outcome'[v].tag \in answers
  <2>1. CASE v = w
    BY <2>1 DEF IInv, TypeOK, Request, answers, NoOutcome
  <2>2. CASE v # w
    BY <2>2 DEF IInv, TypeOK, Request, answers, slice
  <2> QED BY <2>1, <2>2
<1>4. TypeOK'
  BY <1>1, <1>2, <1>3 DEF IInv, TypeOK, Request, answers
<1>5. \A v \in Workers : orderlyLog(contents[v])'
  BY DEF IInv, Request, orderlyLog, orderlyAt
<1> QED BY <1>1, <1>4, <1>5 DEF IInv, Request

\* LoadAndAccept preserves the invariant: the aggregate it prepares has its event pending.
LEMMA LoadAndAcceptStep ==
    ASSUME IInv, NEW w \in Workers, LoadAndAccept(w)
    PROVE  IInv'
<1>1. PICK log \in readJsonFileRecords :
         LET loaded == load(slice(w), log, id(w))
             decision == decide(command[w], loaded.state)
         IN  /\ ~ isFailure(decision)
             /\ aggregate' = [aggregate EXCEPT ![w] =
                                recordEvent(slice(w), loaded, decision.event)]
  BY DEF LoadAndAccept
<1> DEFINE loaded == load(slice(w), log, id(w))
           b == recordEvent(slice(w), loaded, decide(command[w], loaded.state).event)
<1>2. command[w] \in Command /\ slice(w) \in Slices
  BY WorkerType DEF IInv, LoadAndAccept
<1>3. b \in Pending(slice(w))
  <2>1. loaded \in Replayed(slice(w))
    BY <1>2, ReadType, AnyLoadType
  <2> HIDE DEF loaded
  <2>2. ~ isFailure(decide(command[w], loaded.state))
    BY <1>1 DEF loaded
  <2> QED BY <1>2, <2>1, <2>2, RecordEventType DEF slice
<1>4. aggregate' = [aggregate EXCEPT ![w] = b]
  BY <1>1
<1> HIDE DEF b
<1>5. LogIsOrderly' /\ file' = file
  BY FileStep DEF LoadAndAccept
<1>6. ASSUME NEW v \in Workers
      PROVE  /\ pc'[v] # "idle" => command'[v] \in Command
             /\ pc'[v] \in {"saving", "writing", "filling"} => aggregate'[v] \in Pending(slice(v)')
             /\ outcome'[v].tag \in answers
  <2>1. CASE v = w
    BY <1>2, <1>3, <1>4, <2>1 DEF IInv, TypeOK, LoadAndAccept, answers, slice
  <2>2. CASE v # w
    BY <1>4, <2>2 DEF IInv, TypeOK, LoadAndAccept, answers, slice
  <2> QED BY <2>1, <2>2
<1>7. TypeOK'
  BY <1>5, <1>6 DEF IInv, TypeOK, LoadAndAccept, answers
<1>8. \A v \in Workers : orderlyLog(contents[v])'
  BY DEF IInv, LoadAndAccept, orderlyLog, orderlyAt
<1> QED BY <1>4, <1>5, <1>7, <1>8 DEF IInv, LoadAndAccept

(***************************************************************************)
(* CheckVersion preserves the invariant: whatever the log says now, the    *)
(* event gets the next number of that log and the next version of its      *)
(* stream in that log.                                                     *)
(***************************************************************************)
LEMMA CheckVersionStep ==
    ASSUME IInv, NEW w \in Workers, CheckVersion(w)
    PROVE  IInv'
<1>1. PICK log \in readJsonFileRecords :
         contents' = [contents EXCEPT ![w] =
            log \o storedEventsForAppend(id(w), aggregate[w].pendingEvents,
                                         aggregateVersionInRecords(log, id(w)), Len(log))]
  BY DEF CheckVersion
<1> DEFINE V == aggregateVersionInRecords(log, id(w))
           r == [aggregateId |-> id(w), aggregateVersion |-> V + 1,
                 eventStoreSequenceNumber |-> Len(log) + 1,
                 event |-> aggregate[w].pendingEvents[1]]
<1>2. command[w] \in Command /\ slice(w) \in Slices /\ id(w) \in Ids
  BY WorkerType DEF IInv, CheckVersion
<1>3. log \in Logs /\ orderlyLog(log) /\ Len(log) \in Nat /\ V \in Nat
  BY ReadType, VersionType, LenProperties DEF Logs
<1>4. PICK e \in DomainEvent : aggregate[w].pendingEvents = <<e>>
  BY DEF IInv, TypeOK, CheckVersion, Pending
<1>5. r \in StoredEvent(Ids, DomainEvent) /\ storedEventsForAppend(id(w), <<e>>, V, Len(log)) = <<r>>
  BY <1>2, <1>3, <1>4 DEF storedEventsForAppend, StoredEvent
<1>6. contents' = [contents EXCEPT ![w] = Append(log, r)]
  <2>1. log \o <<r>> = Append(log, r)
    BY <1>3, <1>5 DEF Logs
  <2> QED BY <1>1, <1>4, <1>5, <2>1
<1>7. Append(log, r) \in Logs /\ orderlyLog(Append(log, r))
  <2>1. /\ r.eventStoreSequenceNumber = Len(log) + 1
        /\ r.aggregateVersion = aggregateVersionInRecords(log, r.aggregateId) + 1
    OBVIOUS
  <2>2. Append(log, r) \in Logs
    BY <1>3, <1>5, AppendProperties DEF Logs
  <2> HIDE DEF r
  <2> QED BY <1>3, <1>5, <2>1, <2>2, OrderlyAppend DEF Logs
<1> DEFINE longer == Append(log, r)
<1> HIDE DEF longer, r
<1>8. \A v \in Workers : contents'[v] \in Logs /\ orderlyLog(contents'[v])
  BY <1>6, <1>7 DEF IInv, TypeOK, Logs
<1>9. acked' \cup {contents'[v] : v \in Workers} \subseteq Seq(StoredEvent(Ids, DomainEvent))
  <2>1. acked' \subseteq Logs
    BY DEF IInv, TypeOK, CheckVersion, Logs
  <2> QED BY <1>8, <2>1 DEF Logs
<1>10. LogIsOrderly' /\ file' = file
  BY FileStep DEF CheckVersion
<1>11. ASSUME NEW v \in Workers
       PROVE  /\ pc'[v] # "idle" => command'[v] \in Command
              /\ pc'[v] \in {"saving", "writing", "filling"} => aggregate'[v] \in Pending(slice(v)')
              /\ outcome'[v].tag \in answers
  <2>1. CASE v = w
    BY <1>2, <2>1 DEF IInv, TypeOK, CheckVersion, answers, slice
  <2>2. CASE v # w
    BY <2>2 DEF IInv, TypeOK, CheckVersion, answers, slice
  <2> QED BY <2>1, <2>2
<1>12. TypeOK'
  BY <1>9, <1>10, <1>11 DEF IInv, TypeOK, CheckVersion, answers
<1>13. \A v \in Workers : orderlyLog(contents[v])'
  BY <1>8 DEF orderlyLog, orderlyAt
<1> QED BY <1>6, <1>10, <1>12, <1>13 DEF IInv, CheckVersion

\* Truncate preserves the invariant: a torn file holds no log.
LEMMA TruncateStep ==
    ASSUME IInv, NEW w \in Workers, Truncate(w)
    PROVE  IInv'
<1>1. file' = Torn /\ LogIsOrderly'
  BY FileStep DEF Truncate
<1>2. overlapped' \in [Workers -> BOOLEAN]
  BY DEF IInv, TypeOK, Truncate
<1>3. ASSUME NEW v \in Workers
      PROVE  /\ pc'[v] # "idle" => command'[v] \in Command
             /\ pc'[v] \in {"saving", "writing", "filling"} => aggregate'[v] \in Pending(slice(v)')
             /\ outcome'[v].tag \in answers
  BY DEF IInv, TypeOK, Truncate, answers, slice
<1>4. TypeOK'
  BY <1>1, <1>2, <1>3 DEF IInv, TypeOK, Truncate, answers
<1>5. \A v \in Workers : orderlyLog(contents[v])'
  BY DEF IInv, Truncate, orderlyLog, orderlyAt
<1> QED BY <1>1, <1>4, <1>5 DEF IInv, Truncate

\* Doing nothing preserves the invariant.
LEMMA StutteringStep == ASSUME IInv, UNCHANGED vars PROVE IInv'
<1>1. LogIsOrderly'
  BY FileStep DEF vars
<1> QED BY <1>1 DEF vars, IInv, TypeOK, slice, orderlyLog, orderlyAt

-----------------------------------------------------------------------------
(***************************************************************************)
(* The steps that end a command, one by one.                               *)
(***************************************************************************)
LEMMA EndingSteps ==
    ASSUME IInv, NEW w \in Workers,
           \/ LoadAndReject(w) \/ Conflict(w) \/ Fill(w)
           \/ ReadFails(w) \/ WriteFails(w) \/ Crash(w)
    PROVE  IInv'
<1>1. CASE LoadAndReject(w)
  BY <1>1, FinishStep DEF LoadAndReject, answers
<1>2. CASE Conflict(w)
  BY <1>2, FinishStep DEF Conflict, answers
<1>3. CASE Fill(w)
  <2>1. finish(w, [tag |-> "Receipt", receipt |-> receiptOf(slice(w), aggregate[w])])
    BY <1>3 DEF Fill, finish
  <2>2. file' \in {Torn, stored(contents[w])} /\ acked' = acked \cup {contents[w]}
    BY <1>3 DEF Fill
  <2>3. UNCHANGED <<command, issued>>
    BY <1>3 DEF Fill
  <2> QED BY <2>1, <2>2, <2>3, FinishStep DEF answers
<1>4. CASE ReadFails(w)
  BY <1>4, FinishStep DEF ReadFails, answers
<1>5. CASE WriteFails(w)
  BY <1>5, FinishStep DEF WriteFails, abandonWrite, answers
<1>6. CASE Crash(w)
  BY <1>6, FinishStep DEF Crash, abandonWrite, answers, NoOutcome
<1> QED BY <1>1, <1>2, <1>3, <1>4, <1>5, <1>6

\* Every step preserves the invariant.
LEMMA EveryStep ==
    ASSUME IInv, [Next]_vars
    PROVE  IInv'
<1>1. CASE UNCHANGED vars
  BY <1>1, StutteringStep
<1>2. CASE Next
  <2>1. PICK w \in Workers : Request(w) \/ Handle(w) \/ Crash(w)
    BY <1>2 DEF Next
  <2>2. CASE Request(w)
    BY <2>2, RequestStep
  <2>3. CASE LoadAndAccept(w)
    BY <2>3, LoadAndAcceptStep
  <2>4. CASE CheckVersion(w)
    BY <2>4, CheckVersionStep
  <2>5. CASE Truncate(w)
    BY <2>5, TruncateStep
  <2>6. CASE \/ LoadAndReject(w) \/ Conflict(w) \/ Fill(w)
             \/ ReadFails(w) \/ WriteFails(w) \/ Crash(w)
    BY <2>6, EndingSteps
  <2> QED BY <2>1, <2>2, <2>3, <2>4, <2>5, <2>6 DEF Handle
<1> QED BY <1>1, <1>2

(***************************************************************************)
(* The invariant holds in every reachable state.                           *)
(***************************************************************************)
THEOREM FileInvariance == Spec => []IInv
<1>1. IInv /\ [Next]_vars => IInv'
  BY EveryStep
<1> QED BY Initially, <1>1, PTL DEF Spec

(***************************************************************************)
(* Type correctness.                                                       *)
(***************************************************************************)
THEOREM FileTypes == Spec => []TypeOK
<1>1. IInv => TypeOK
  BY DEF IInv
<1> QED BY <1>1, FileInvariance, PTL

(***************************************************************************)
(* However many workers race, fail or die over the file, a log that can be *)
(* read back numbers its events one by one, in the log and in each stream: *)
(* a lost update loses an event without a trace.                           *)
(***************************************************************************)
THEOREM LogStaysOrderly == Spec => []LogIsOrderly
<1>1. IInv => LogIsOrderly
  BY DEF IInv
<1> QED BY <1>1, FileInvariance, PTL

(***************************************************************************)
(* Whatever log the racing writers leave, every counter in it replays to a *)
(* counter whose value is in range.                                        *)
(***************************************************************************)
THEOREM EveryLogReplays == Spec => []AnyLogReplays
<1>1. ASSUME IInv PROVE AnyLogReplays
  <2> SUFFICES ASSUME isStored, NEW c \in CounterIds
               PROVE  load("counter", file.records, c).state \in CounterState(CounterIds)
    BY DEF AnyLogReplays
  <2>1. file.records \in Logs
    BY <1>1 DEF IInv, TypeOK, isStored, Absent, Torn, Logs
  <2>2. load("counter", file.records, c) \in Replayed("counter")
    BY <2>1, AnyLoadType DEF Slices
  <2> QED BY <2>2 DEF Replayed, AggregateState
<1> QED BY <1>1, FileInvariance, PTL

-----------------------------------------------------------------------------
(***************************************************************************)
(* Commands that take turns, as those typed one after the other do: the    *)
(* file then loses nothing, however reads and writes fail and workers die. *)
(***************************************************************************)

\* A log that every decision accepted, and that no acknowledged log is missing from.
sound(log, logs) == legalLog(log) /\ \A earlier \in logs : IsPrefix(earlier, log)

\* The aggregate is what the decision of the command made of the log.
decidedOn(c, a, log) ==
    LET loaded == load(sliceOf(c), log, c.id)
        decision == decide(c, loaded.state)
    IN  /\ ~ isFailure(decision)
        /\ a = recordEvent(sliceOf(c), loaded, decision.event)

\* The receipt is that of the command's aggregate in the log, which has begun.
receiptIn(c, receipt, log) ==
    LET loaded == load(sliceOf(c), log, c.id)
    IN  loaded.version # 0 /\ receipt = receiptOf(sliceOf(c), loaded)

turnOf(w) ==
    /\ ~ overlapped[w]
    /\ pc[w] = "saving" => \E log \in readJsonFileRecords : decidedOn(command[w], aggregate[w], log)
    /\ pc[w] \in {"writing", "filling"} =>
          /\ sound(contents[w], acked)
          /\ receiptIn(command[w], receiptOf(slice(w), aggregate[w]), contents[w])

(***************************************************************************)
(* The inductive invariant of taking turns.                                *)
(***************************************************************************)
TInv ==
    /\ \A v, w \in Workers : pc[v] # "idle" /\ pc[w] # "idle" => v = w
    /\ \A w \in Workers : turnOf(w)
    /\ file = Absent => acked = {}
    /\ isStored => sound(file.records, acked) /\ file.records \in acked

\* What is read while nobody writes is the file as the last writer left it.
LEMMA ReadIsSound ==
    ASSUME IInv, TInv, NEW log \in readJsonFileRecords
    PROVE  sound(log, acked)
<1>1. CASE isStored
  <2>1. log = file.records
    BY <1>1 DEF readJsonFileRecords, isStored
  <2> QED BY <1>1, <2>1 DEF TInv
<1>2. CASE ~ isStored
  <2>1. log = <<>> /\ file = Absent
    BY <1>2 DEF readJsonFileRecords, isStored, IInv, TypeOK, Absent, Torn
  <2>2. acked = {}
    BY <2>1 DEF TInv
  <2> QED BY <2>1, <2>2, EmptyLog DEF sound
<1> QED BY <1>1, <1>2

LEMMA OneReading ==
    ASSUME NEW log \in readJsonFileRecords, NEW other \in readJsonFileRecords, IInv
    PROVE  log = other
BY DEF readJsonFileRecords, IInv, TypeOK, Absent, Torn

\* A log begins with itself, and with whatever it began with before it grew.
LEMMA Beginnings ==
    ASSUME NEW log \in Logs, NEW r \in StoredEvent(Ids, DomainEvent)
    PROVE  /\ IsPrefix(log, log)
           /\ \A earlier \in Logs : IsPrefix(earlier, log) => IsPrefix(earlier, Append(log, r))
<1>1. Len(log) \in Nat /\ Len(Append(log, r)) = Len(log) + 1
  BY AppendProperties, LenProperties DEF Logs
<1>2. IsPrefix(log, log)
  BY <1>1 DEF IsPrefix
<1>3. ASSUME NEW earlier \in Logs, IsPrefix(earlier, log)
      PROVE  IsPrefix(earlier, Append(log, r))
  <2> DEFINE M == Len(earlier)
  <2>1. M \in Nat /\ M <= Len(log) /\ SubSeq(earlier, 1, M) = SubSeq(log, 1, M)
    BY <1>3, LenProperties DEF IsPrefix, Logs
  <2>2. SubSeq(Append(log, r), 1, M) = SubSeq(log, 1, M)
    <3> HIDE DEF M
    <3>1. CASE M = 0
      <4>1. \A s : SubSeq(s, 1, 0) = <<>>
        OBVIOUS
      <4> QED BY <3>1, <4>1
    <3>2. CASE M # 0
      <4>1. M \in 1 .. Len(log)
        BY <1>1, <2>1, <3>2
      <4> QED BY <4>1, AppendKeepsBeginning DEF Logs
    <3> QED BY <3>1, <3>2
  <2>3. M <= Len(Append(log, r))
    BY <1>1, <2>1
  <2> QED BY <2>1, <2>2, <2>3 DEF IsPrefix
<1> QED BY <1>2, <1>3

-----------------------------------------------------------------------------
\* Steps that leave the file and what was acknowledged as they are.
LEMMA QuietTurn ==
    ASSUME TInv, UNCHANGED <<file, acked>>, \A v \in Workers : turnOf(v)',
           \A v, w \in Workers : pc'[v] # "idle" /\ pc'[w] # "idle" => v = w
    PROVE  TInv'
BY DEF TInv, isStored

LEMMA IdleTurn ==
    ASSUME NEW v \in Workers, pc'[v] = "idle" \/ pc'[v] = "requested", ~ overlapped'[v]
    PROVE  turnOf(v)'
<1>1. pc'[v] # "saving" /\ pc'[v] # "writing" /\ pc'[v] # "filling"
  OBVIOUS
<1> QED BY <1>1, Zenon DEF turnOf

\* While one worker is busy the others are not.
LEMMA AloneBusy ==
    ASSUME IInv, TInv, NEW w \in Workers, pc[w] # "idle"
    PROVE  \A v \in Workers : v # w => pc[v] = "idle" /\ ~ overlapped[v]
BY DEF TInv, turnOf

\* A worker ends its command, answered or not.
LEMMA FinishTurn ==
    ASSUME IInv, TInv, NEW w \in Workers, pc[w] # "idle", NEW answer, finish(w, answer),
           UNCHANGED <<file, acked>>
    PROVE  TInv'
<1>1. \A v \in Workers : pc'[v] = "idle" /\ ~ overlapped'[v]
  BY AloneBusy DEF finish, IInv, TypeOK
<1> QED BY <1>1, IdleTurn, QuietTurn

LEMMA RequestTurn ==
    ASSUME IInv, TInv, NEW w \in Workers, Request(w), \A v \in Workers : pc[v] = "idle"
    PROVE  TInv'
<1>1. \A v \in Workers : v # w => pc'[v] = "idle"
  BY DEF Request, IInv, TypeOK
<1>2. \A v \in Workers : ~ overlapped'[v]
  BY DEF Request, TInv, turnOf
<1>3. pc'[w] = "requested"
  BY DEF Request, IInv, TypeOK
<1>4. ASSUME NEW v \in Workers PROVE turnOf(v)'
  BY <1>1, <1>2, <1>3, IdleTurn
<1>5. UNCHANGED <<file, acked>>
  BY DEF Request
<1> QED BY <1>1, <1>4, <1>5, QuietTurn

LEMMA LoadTurn ==
    ASSUME IInv, TInv, NEW w \in Workers, LoadAndAccept(w)
    PROVE  TInv'
<1>1. PICK log \in readJsonFileRecords :
         LET loaded == load(slice(w), log, id(w))
             decision == decide(command[w], loaded.state)
         IN  /\ ~ isFailure(decision)
             /\ aggregate' = [aggregate EXCEPT ![w] =
                                recordEvent(slice(w), loaded, decision.event)]
  BY DEF LoadAndAccept
<1>2. /\ pc[w] = "requested" /\ pc' = [pc EXCEPT ![w] = "saving"]
      /\ UNCHANGED <<file, command, contents, overlapped, acked>>
  BY DEF LoadAndAccept
<1>3. aggregate'[w] = recordEvent(slice(w), load(slice(w), log, id(w)),
                         decide(command[w], load(slice(w), log, id(w)).state).event)
  BY <1>1 DEF IInv
<1>4. decidedOn(command'[w], aggregate'[w], log)
  BY <1>1, <1>2, <1>3, Zenon DEF decidedOn, slice, id
<1>5. \A v \in Workers : v # w => pc'[v] = "idle" /\ ~ overlapped'[v]
  BY <1>2, AloneBusy DEF IInv, TypeOK
<1>6. pc'[w] = "saving" /\ ~ overlapped'[w]
  BY <1>2 DEF IInv, TypeOK, TInv, turnOf
<1>7. log \in readJsonFileRecords'
  BY <1>2 DEF readJsonFileRecords
<1>8. turnOf(w)'
  BY <1>4, <1>6, <1>7 DEF turnOf
<1>9. \A v \in Workers : turnOf(v)'
  BY <1>5, <1>8, IdleTurn
<1> QED BY <1>2, <1>5, <1>9, QuietTurn

(***************************************************************************)
(* What a worker writes: a log, and one more event, which the decision of  *)
(* its command accepts on that log.                                        *)
(***************************************************************************)
written(c, a, before, log) ==
    \E r \in StoredEvent(Ids, DomainEvent) :
        /\ log = Append(before, r)
        /\ r.aggregateId = c.id
        /\ r.eventStoreSequenceNumber = Len(before) + 1
        /\ decide(c, load(sliceOf(c), before, c.id).state) = accept(r.event)
        /\ decidedOn(c, a, before)

(***************************************************************************)
(* The log is read again for the version check, and is still the log that  *)
(* was decided on: its event is one the decision accepts there.            *)
(***************************************************************************)
LEMMA WhatIsWritten ==
    ASSUME IInv, TInv, NEW w \in Workers, CheckVersion(w)
    PROVE  \E log \in readJsonFileRecords :
              /\ written(command[w], aggregate[w], log, contents'[w])
              /\ contents' = [contents EXCEPT ![w] = contents'[w]]
<1> DEFINE c == command[w]
           s == sliceOf(c)
<1>1. PICK log \in readJsonFileRecords :
         contents' = [contents EXCEPT ![w] =
            log \o storedEventsForAppend(id(w), aggregate[w].pendingEvents,
                                         aggregateVersionInRecords(log, id(w)), Len(log))]
  BY DEF CheckVersion
<1>2. pc[w] = "saving"
  BY DEF CheckVersion
<1>3. c \in Command /\ s \in Slices /\ c.id \in Ids
  BY <1>2, WorkerType DEF IInv, slice, id
<1>4. log \in Logs
  BY ReadType
<1>5. decidedOn(c, aggregate[w], log)
  BY <1>2, OneReading DEF TInv, turnOf
<1> DEFINE loaded == load(s, log, c.id)
           e == decide(c, loaded.state).event
           V == aggregateVersionInRecords(log, c.id)
           r == [aggregateId |-> c.id, aggregateVersion |-> V + 1,
                 eventStoreSequenceNumber |-> Len(log) + 1, event |-> e]
<1>6. loaded \in Replayed(s)
  BY <1>3, <1>4, AnyLoadType
<1>7. ~ isFailure(decide(c, loaded.state)) /\ aggregate[w] = recordEvent(s, loaded, e)
  BY <1>5 DEF decidedOn
<1>8. decide(c, loaded.state) = accept(e) /\ e \in DomainEvent
  BY <1>3, <1>7, DecisionType
<1>9. aggregate[w].pendingEvents = <<e>>
  <2> HIDE DEF loaded
  <2> QED BY <1>3, <1>6, <1>7, RecordEventType DEF s
<1>10. r \in StoredEvent(Ids, DomainEvent) /\ storedEventsForAppend(c.id, <<e>>, V, Len(log)) = <<r>>
  <2>1. V \in Nat /\ Len(log) \in Nat
    BY <1>4, VersionType, LenProperties DEF Logs
  <2> HIDE DEF V, e
  <2> QED BY <1>3, <1>8, <2>1 DEF storedEventsForAppend, StoredEvent
<1>11. contents' = [contents EXCEPT ![w] = Append(log, r)]
  <2> HIDE DEF r, e, V
  <2>1. log \o <<r>> = Append(log, r)
    BY <1>4, <1>10, AppendIsConcat DEF Logs
  <2> QED BY <1>1, <1>9, <1>10, <2>1 DEF id, V
<1>12. /\ r.aggregateId = c.id /\ r.event = e /\ r.eventStoreSequenceNumber = Len(log) + 1
  OBVIOUS
<1> HIDE DEF r
<1>13. contents'[w] = Append(log, r)
  BY <1>11 DEF IInv
<1>14. decide(c, load(s, log, c.id).state) = accept(r.event)
  BY <1>8, <1>12
<1>15. written(c, aggregate[w], log, Append(log, r))
  <2> HIDE DEF loaded, e
  <2> QED BY <1>5, <1>10, <1>12, <1>14 DEF written, s
<1> QED BY <1>11, <1>13, <1>15

LEMMA CheckVersionTurn ==
    ASSUME IInv, TInv, NEW w \in Workers, CheckVersion(w)
    PROVE  TInv'
<1> DEFINE c == command[w]
           s == sliceOf(c)
<1>1. PICK log \in readJsonFileRecords : written(c, aggregate[w], log, contents'[w])
  BY WhatIsWritten
<1>2. /\ pc[w] = "saving" /\ pc' = [pc EXCEPT ![w] = "writing"]
      /\ UNCHANGED <<file, command, aggregate, overlapped, acked>>
  BY DEF CheckVersion
<1>3. c \in Command /\ s \in Slices
  BY <1>2, WorkerType DEF IInv, slice
<1>4. log \in Logs /\ sound(log, acked)
  BY ReadType, ReadIsSound
<1> DEFINE loaded == load(s, log, c.id)
<1>5. PICK r \in StoredEvent(Ids, DomainEvent) :
         /\ contents'[w] = Append(log, r)
         /\ r.aggregateId = c.id
         /\ r.eventStoreSequenceNumber = Len(log) + 1
         /\ decide(c, loaded.state) = accept(r.event)
         /\ decidedOn(c, aggregate[w], log)
  BY <1>1 DEF written
<1> DEFINE longer == Append(log, r)
<1>6. loaded \in Replayed(s)
  BY <1>3, <1>4, AnyLoadType
<1>7. ~ isFailure(decide(c, loaded.state)) /\ aggregate[w] = recordEvent(s, loaded, r.event)
  BY <1>5 DEF decidedOn, accept
<1>8. \A t \in Slices : belongsToSlice(t, r.event) <=> t = s
  BY <1>3, <1>5, <1>7, DecisionType DEF accept
<1>9. legalLog(longer)
  BY <1>3, <1>4, <1>5, LegalAppend DEF sound
<1>10. \A earlier \in acked : IsPrefix(earlier, longer)
  <2>1. acked \subseteq Logs
    BY DEF IInv, TypeOK, Logs
  <2> QED BY <1>4, <2>1, Beginnings DEF sound
<1>11. load(s, longer, c.id) = replayEvent(s, loaded, r.event)
  BY <1>3, <1>4, <1>5, <1>8, LoadAfterStored
<1> HIDE DEF loaded
<1>12. receiptIn(c, receiptOf(s, aggregate[w]), longer)
  <2>1. /\ replayEvent(s, loaded, r.event).version = recordEvent(s, loaded, r.event).version
        /\ replayEvent(s, loaded, r.event).state = recordEvent(s, loaded, r.event).state
        /\ replayEvent(s, loaded, r.event).version # 0
    BY <1>6 DEF replayEvent, recordEvent, Replayed
  <2> QED BY <1>7, <1>11, <2>1 DEF receiptIn, receiptOf
<1> HIDE DEF longer
<1>13. contents'[w] = longer /\ pc'[w] = "writing" /\ ~ overlapped'[w]
  BY <1>2, <1>5 DEF IInv, TypeOK, TInv, turnOf, longer
<1>14. turnOf(w)'
  <2>1. sound(contents'[w], acked')
    BY <1>2, <1>9, <1>10, <1>13 DEF sound
  <2>2. receiptIn(command'[w], receiptOf(slice(w)', aggregate'[w]), contents'[w])
    BY <1>2, <1>12, <1>13 DEF slice
  <2> QED BY <1>13, <2>1, <2>2 DEF turnOf
<1>15. \A v \in Workers : v # w => pc'[v] = "idle" /\ ~ overlapped'[v]
  BY <1>2, AloneBusy DEF IInv, TypeOK
<1>16. \A v \in Workers : turnOf(v)'
  BY <1>14, <1>15, IdleTurn
<1> QED BY <1>2, <1>15, <1>16, QuietTurn

LEMMA TruncateTurn ==
    ASSUME IInv, TInv, NEW w \in Workers, Truncate(w)
    PROVE  TInv'
<1>1. /\ pc[w] = "writing" /\ pc' = [pc EXCEPT ![w] = "filling"] /\ file' = Torn
      /\ UNCHANGED <<command, aggregate, contents, acked>>
  BY DEF Truncate
<1>2. \A v \in Workers : v # w => pc[v] = "idle" /\ ~ overlapped[v]
  BY <1>1, AloneBusy
<1>3. \A v \in Workers : pc[v] # "filling"
  BY <1>1, <1>2
<1>4. \A v \in Workers : overlapped'[v] <=> overlapped[v]
  BY <1>3 DEF Truncate, IInv, TypeOK
<1>5. pc'[w] = "filling" /\ \A v \in Workers : v # w => pc'[v] = "idle"
  BY <1>1, <1>2 DEF IInv, TypeOK
<1>6. turnOf(w)'
  <2>1. turnOf(w)
    BY DEF TInv
  <2> QED BY <1>1, <1>4, <1>5, <2>1 DEF turnOf, slice
<1>7. \A v \in Workers : turnOf(v)'
  BY <1>2, <1>4, <1>5, <1>6, IdleTurn
<1>8. file' # Absent /\ ~ isStored'
  BY <1>1 DEF Torn, Absent, isStored
<1> QED BY <1>5, <1>7, <1>8 DEF TInv

LEMMA FillTurn ==
    ASSUME IInv, TInv, NEW w \in Workers, Fill(w)
    PROVE  TInv'
<1> DEFINE log == contents[w]
<1>1. /\ pc[w] = "filling" /\ pc' = [pc EXCEPT ![w] = "idle"]
      /\ acked' = acked \cup {log}
      /\ overlapped' = [overlapped EXCEPT ![w] = FALSE]
  BY DEF Fill
<1>2. /\ file' = stored(log) /\ sound(log, acked)
  BY <1>1 DEF Fill, TInv, turnOf
<1>3. \A v \in Workers : pc'[v] = "idle" /\ ~ overlapped'[v]
  BY <1>1, AloneBusy DEF IInv, TypeOK
<1>4. log \in Logs
  BY DEF IInv, TypeOK, Logs
<1> HIDE DEF log
<1>5. sound(log, acked')
  <2>1. IsPrefix(log, log)
    BY <1>4, LenProperties DEF IsPrefix, Logs
  <2> QED BY <1>1, <1>2, <2>1 DEF sound
<1>6. file'.records = log /\ file' # Absent
  BY <1>2 DEF stored, Absent
<1>7. log \in acked'
  BY <1>1
<1>8. \A v \in Workers : turnOf(v)'
  BY <1>3, IdleTurn
<1> QED BY <1>3, <1>5, <1>6, <1>7, <1>8 DEF TInv

LEMMA HandleTurn ==
    ASSUME IInv, TInv, NEW w \in Workers, Handle(w) \/ Crash(w)
    PROVE  TInv'
<1>1. CASE LoadAndReject(w)
  <2>1. pc[w] # "idle" /\ UNCHANGED <<file, acked>> /\ \E answer : finish(w, answer)
    BY <1>1 DEF LoadAndReject
  <2> QED BY <2>1, FinishTurn
<1>2. CASE LoadAndAccept(w)
  BY <1>2, LoadTurn
<1>3. CASE CheckVersion(w)
  BY <1>3, CheckVersionTurn
<1>4. CASE Conflict(w)
  BY <1>4, FinishTurn DEF Conflict
<1>5. CASE Truncate(w)
  BY <1>5, TruncateTurn
<1>6. CASE Fill(w)
  BY <1>6, FillTurn
<1>7. CASE ReadFails(w)
  BY <1>7, FinishTurn DEF ReadFails
<1>8. ASSUME pc[w] # "idle", abandonWrite(w), UNCHANGED acked, NEW answer, finish(w, answer)
      PROVE  TInv'
  <2>1. UNCHANGED file
    BY <1>8 DEF abandonWrite, TInv, turnOf
  <2> QED BY <1>8, <2>1, FinishTurn
<1>9. CASE WriteFails(w)
  BY <1>8, <1>9 DEF WriteFails
<1>10. CASE Crash(w)
  BY <1>8, <1>10 DEF Crash
<1> QED BY <1>1, <1>2, <1>3, <1>4, <1>5, <1>6, <1>7, <1>9, <1>10 DEF Handle

-----------------------------------------------------------------------------
(***************************************************************************)
(* The command line: every step of it is a step of the store, or leaves    *)
(* the store as it is but for the answer to the last command.              *)
(***************************************************************************)

\* Sequences of one, two and three words, taken apart.
LEMMA Words ==
    ASSUME NEW A, NEW B, NEW C, NEW argv
    PROVE  /\ argv \in {<<a>> : a \in A} => \E a \in A : argv = <<a>>
           /\ argv \in A \X B => \E a \in A, b \in B : argv = <<a, b>>
           /\ argv \in A \X B \X C => \E a \in A, b \in B, c \in C : argv = <<a, b, c>>
BY SMT

\* What is typed is parsed into an action, whose command is one the handlers know.
LEMMA ParsedArguments ==
    \A argv \in Argvs : parseArguments(argv) \in CliAction \cup {helpAction}
<1> SUFFICES ASSUME NEW argv \in Argvs
             PROVE  parseArguments(argv) \in CliAction \cup {helpAction}
  OBVIOUS
<1>1. \A v : word(<<v>>, 1) = v /\ word(<<v>>, 2) = "" /\ word(<<v>>, 3) = ""
  BY DEF word
<1>2. \A v, x : word(<<v, x>>, 1) = v /\ word(<<v, x>>, 2) = x /\ word(<<v, x>>, 3) = ""
  BY DEF word
<1>3. ASSUME NEW u, NEW a, argv = <<"bookmark", u, a>>
      PROVE  word(argv, 1) = "bookmark" /\ word(argv, 2) = u /\ word(argv, 3) = a
  BY <1>3 DEF word
<1>4. word(<<>>, 1) = ""
  BY DEF word
<1>0. /\ \A c \in CounterCommand : [tag |-> "Command", command |-> c] \in CliAction
      /\ \A c \in UserCommand : [tag |-> "ToggleBookmark", command |-> c] \in CliAction
      /\ \A u \in UserIds : [tag |-> "ListArticles", userId |-> u] \in CliAction
      /\ [tag |-> "List"] \in CliAction
  BY DEF CliAction
<1> DEFINE verbs == DOMAIN verbsByArgument
<1>5. /\ verbs = {"create", "increment", "decrement", "disable"}
      /\ \A v \in verbs : verbsByArgument[v] \in CounterCommandTags
  BY DEF verbsByArgument, CounterCommandTags
<1>6. ASSUME NEW v \in verbs, NEW x \in CounterIds \cup {""}
      PROVE  commandAction(verbsByArgument[v], x) \in CliAction \cup {helpAction}
  <2> DEFINE t == verbsByArgument[v]
  <2>1. t \in CounterCommandTags
    BY <1>5
  <2> HIDE DEF t, verbs
  <2>2. CASE x = ""
    BY <2>2 DEF commandAction, isNonEmpty
  <2>3. CASE x # ""
    <3> DEFINE c == [tag |-> t, id |-> x]
    <3>1. c \in CounterCommand
      BY <2>1, <2>3 DEF CounterCommand
    <3>2. commandAction(t, x) = [tag |-> "Command", command |-> c]
      BY <2>3 DEF commandAction, isNonEmpty
    <3> HIDE DEF c
    <3> QED BY <1>0, <3>1, <3>2 DEF t
  <2> QED BY <2>2, <2>3 DEF t
<1>7. CASE \E v \in verbs, x \in CounterIds \cup {""} : argv = <<v, x>>
  <2>1. PICK v \in verbs, x \in CounterIds \cup {""} : argv = <<v, x>>
    BY <1>7
  <2>2. parseArguments(argv) = commandAction(verbsByArgument[v], x)
    BY <1>2, <1>5, <2>1 DEF parseArguments
  <2> QED BY <1>6, <2>2
<1>8. CASE \E v \in verbs : argv = <<v>>
  <2>1. PICK v \in verbs : argv = <<v>>
    BY <1>8
  <2>2. parseArguments(argv) = commandAction(verbsByArgument[v], "")
    BY <1>1, <1>5, <2>1 DEF parseArguments
  <2> QED BY <1>6, <2>2
<1>9. CASE \E u \in UserIds \cup {""} : argv = <<"articles", u>>
  <2>1. PICK u \in UserIds \cup {""} : argv = <<"articles", u>>
    BY <1>9
  <2>2. parseArguments(argv) = listArticlesAction(u)
    BY <1>2, <1>5, <2>1 DEF parseArguments
  <2>3. CASE u = ""
    BY <2>2, <2>3 DEF listArticlesAction, isNonEmpty
  <2>4. CASE u # ""
    BY <1>0, <2>2, <2>4 DEF listArticlesAction, isNonEmpty
  <2> QED BY <2>3, <2>4
<1>10. ASSUME NEW u \in UserIds \cup {""}, NEW a \in ArticleIds \cup {""}
       PROVE  toggleBookmarkAction(u, a) \in CliAction \cup {helpAction}
  BY <1>0 DEF toggleBookmarkAction, UserCommand, UserCommandTags, isNonEmpty
<1>11. CASE \E u \in UserIds \cup {""}, a \in ArticleIds \cup {""} : argv = <<"bookmark", u, a>>
  <2>1. PICK u \in UserIds \cup {""}, a \in ArticleIds \cup {""} : argv = <<"bookmark", u, a>>
    BY <1>11
  <2>2. parseArguments(argv) = toggleBookmarkAction(u, a)
    <3>1. word(argv, 1) = "bookmark" /\ word(argv, 2) = u /\ word(argv, 3) = a
      BY <1>3, <2>1
    <3> QED BY <1>5, <3>1 DEF parseArguments
  <2> QED BY <1>10, <2>2
<1>12. CASE \E u \in UserIds : argv = <<"bookmark", u>>
  <2>1. PICK u \in UserIds : argv = <<"bookmark", u>>
    BY <1>12
  <2>2. parseArguments(argv) = toggleBookmarkAction(u, "")
    BY <1>2, <1>5, <2>1 DEF parseArguments
  <2> QED BY <1>10, <2>1, <2>2
<1>13. CASE argv = <<"list">>
  BY <1>1, <1>5, <1>13 DEF parseArguments, CliAction
<1>14. CASE argv = <<"rename">>
  BY <1>1, <1>5, <1>14 DEF parseArguments
<1>15. CASE argv = <<>>
  BY <1>4, <1>5, <1>15 DEF parseArguments
<1>16. \/ argv \in {<<>>, <<"list">>, <<"rename">>}
       \/ argv \in {<<v>> : v \in verbs}
       \/ argv \in verbs \X (CounterIds \cup {""})
       \/ argv \in {"articles"} \X (UserIds \cup {""})
       \/ argv \in {"bookmark"} \X UserIds
       \/ argv \in {"bookmark"} \X (UserIds \cup {""}) \X (ArticleIds \cup {""})
  BY DEF Argvs
<1>17. CASE argv \in {<<v>> : v \in verbs}
  BY <1>8, <1>17, Words
<1> DEFINE counters == CounterIds \cup {""}
           users == UserIds \cup {""}
           articles == ArticleIds \cup {""}
<1>18. CASE argv \in verbs \X counters
  <2>1. \E v \in verbs, x \in counters : argv = <<v, x>>
    <3> HIDE DEF verbs, counters
    <3> QED BY <1>18, Words
  <2> QED BY <1>7, <2>1
<1>19. CASE argv \in {"articles"} \X users
  <2>1. \E v \in {"articles"}, u \in users : argv = <<v, u>>
    <3> HIDE DEF users
    <3> QED BY <1>19, Words
  <2> QED BY <1>9, <2>1
<1>20. CASE argv \in {"bookmark"} \X UserIds
  <2>1. \E v \in {"bookmark"}, u \in UserIds : argv = <<v, u>>
    BY <1>20, Words
  <2> QED BY <1>12, <2>1
<1>21. CASE argv \in {"bookmark"} \X users \X articles
  <2>1. \E v \in {"bookmark"}, u \in users, a \in articles : argv = <<v, u, a>>
    <3> HIDE DEF users, articles
    <3> QED BY <1>21, Words
  <2> QED BY <1>11, <2>1
<1> QED BY <1>13, <1>14, <1>15, <1>16, <1>17, <1>18, <1>19, <1>20, <1>21

(***************************************************************************)
(* The inductive invariant of the processes: one that is at work on a      *)
(* command was started for that command, and has printed nothing yet.      *)
(***************************************************************************)
runOf(w) ==
    /\ printed[w].tag \in {"Silence", "Usage", "Failure", "Lines"}
    /\ pc[w] # "idle" => isCommand(action[w]) /\ action[w].command = command[w]
    /\ action[w] # NoAction => printed[w] = Silence

CInv ==
    /\ action \in [Workers -> CliAction \cup {NoAction}]
    /\ DOMAIN printed = Workers /\ DOMAIN wrote = Workers
    /\ \A w \in Workers : runOf(w)

\* The steps of the command line, seen from the store.
LEMMA StoreSteps ==
    ASSUME NEW w \in Workers,
           RunHelp(w) \/ RunQuery(w) \/ RunCommand(w) \/ Proceed(w) \/ Die(w)
    PROVE  \/ Request(w) /\ (OneCommandAtATime => \A v \in Workers : pc[v] = "idle")
           \/ Handle(w) \/ Crash(w)
           \/ UNCHANGED vars
           \/ /\ outcome' = [outcome EXCEPT ![w] = NoOutcome]
              /\ UNCHANGED <<file, pc, command, aggregate, contents, overlapped, acked, issued>>
<1>1. CASE RunHelp(w)
  BY <1>1 DEF RunHelp
<1>2. CASE RunQuery(w)
  BY <1>2 DEF RunQuery
<1>3. CASE RunCommand(w)
  BY <1>3 DEF RunCommand
<1>4. CASE Send(w)
  BY <1>4 DEF Send
<1>5. CASE PrintLines(w) \/ ListingFails(w) \/ CommandFailed(w)
  BY <1>5 DEF PrintLines, ListingFails, CommandFailed
<1>6. CASE Die(w)
  BY <1>6 DEF Die
<1> QED BY <1>1, <1>2, <1>3, <1>4, <1>5, <1>6 DEF Proceed

\* What handling a command changes besides the file.
LEMMA HandleFrame ==
    ASSUME IInv, NEW w \in Workers, Handle(w) \/ Crash(w)
    PROVE  /\ pc[w] # "idle" /\ command' = command /\ acked \subseteq acked'
           /\ \A v \in Workers : v # w => pc'[v] = pc[v] /\ outcome'[v] = outcome[v]
           /\ Fill(w) \/ pc'[w] # "idle" \/ outcome'[w].tag # "Receipt"
           /\ Crash(w) => pc'[w] = "idle"
<1>1. CASE LoadAndAccept(w) \/ CheckVersion(w) \/ Truncate(w)
  BY <1>1 DEF LoadAndAccept, CheckVersion, Truncate, Crash, finish, IInv, TypeOK
<1>2. CASE Fill(w)
  BY <1>2 DEF Fill, Crash, finish, IInv, TypeOK
<1>3. ASSUME NEW answer, finish(w, answer), answer.tag # "Receipt", pc[w] # "idle",
             UNCHANGED <<command, acked>>
      PROVE  /\ pc[w] # "idle" /\ command' = command /\ acked \subseteq acked'
             /\ \A v \in Workers : v # w => pc'[v] = pc[v] /\ outcome'[v] = outcome[v]
             /\ pc'[w] = "idle" /\ outcome'[w].tag # "Receipt"
  BY <1>3 DEF finish, IInv, TypeOK
<1>4. CASE LoadAndReject(w)
  <2>1. PICK answer : finish(w, answer) /\ answer.tag # "Receipt"
    BY <1>4 DEF LoadAndReject
  <2> QED BY <1>3, <1>4, <2>1 DEF LoadAndReject
<1>5. CASE Conflict(w)
  BY <1>3, <1>5 DEF Conflict
<1>6. CASE ReadFails(w)
  BY <1>3, <1>6 DEF ReadFails
<1>7. CASE WriteFails(w)
  BY <1>3, <1>7 DEF WriteFails
<1>8. CASE Crash(w)
  BY <1>3, <1>8 DEF Crash, NoOutcome
<1> QED BY <1>1, <1>2, <1>4, <1>5, <1>6, <1>7, <1>8 DEF Handle

\* The store's invariant holds of the command line too.
LEMMA CliStoreStep == ASSUME IInv, [NextCli]_allVars PROVE IInv'
<1>1. CASE UNCHANGED vars
  BY <1>1, StutteringStep
<1>2. ASSUME NEW w \in Workers, outcome' = [outcome EXCEPT ![w] = NoOutcome],
             UNCHANGED <<file, pc, command, aggregate, contents, overlapped, acked, issued>>
      PROVE  IInv'
  <2>1. LogIsOrderly'
    BY <1>2, FileStep
  <2>2. \A v \in Workers : outcome'[v].tag \in answers
    BY <1>2 DEF IInv, TypeOK, answers, NoOutcome
  <2>3. TypeOK'
    BY <1>2, <2>2 DEF IInv, TypeOK, slice, answers
  <2> QED BY <1>2, <2>1, <2>3 DEF IInv, orderlyLog, orderlyAt
<1>3. ASSUME NEW w \in Workers, Request(w) \/ Handle(w) \/ Crash(w)
      PROVE  IInv'
  BY <1>3, EveryStep DEF Next
<1>4. CASE NextCli
  BY <1>1, <1>2, <1>3, <1>4, StoreSteps DEF NextCli
<1> QED BY <1>1, <1>4 DEF allVars

\* The other processes are as they were.
LEMMA OtherRuns ==
    ASSUME CInv, NEW w \in Workers, runOf(w)',
           action' = [action EXCEPT ![w] = action'[w]],
           action'[w] \in CliAction \cup {NoAction},
           DOMAIN printed' = Workers, DOMAIN wrote' = Workers,
           \A v \in Workers : v # w => /\ printed'[v] = printed[v]
                                       /\ pc'[v] = pc[v] /\ command'[v] = command[v]
    PROVE  CInv'
<1>1. \A v \in Workers : v # w => action'[v] = action[v]
  BY DEF CInv
<1>2. ASSUME NEW v \in Workers, v # w PROVE runOf(v)'
  BY <1>1, <1>2 DEF CInv, runOf
<1>3. action' \in [Workers -> CliAction \cup {NoAction}]
  BY DEF CInv
<1> QED BY <1>2, <1>3 DEF CInv

\* A process that was not started is not at work.
LEMMA NotStarted ==
    ASSUME CInv, NEW w \in Workers, ~ isCommand(action[w])
    PROVE  pc[w] = "idle"
BY DEF CInv, runOf

LEMMA NotCommands == ~ isCommand(NoAction) /\ ~ isCommand(helpAction)
BY DEF isCommand, NoAction, helpAction

LEMMA RunsKept ==
    ASSUME IInv, CInv, NEW w \in Workers,
           RunHelp(w) \/ RunQuery(w) \/ RunCommand(w) \/ Proceed(w) \/ Die(w)
    PROVE  CInv'
<1>1. ASSUME NEW text, end(w, text), UNCHANGED <<pc, command, wrote>>, pc[w] = "idle",
             text.tag \in {"Silence", "Usage", "Failure", "Lines"}
      PROVE  CInv'
  <2>1. action'[w] = NoAction /\ printed'[w] = text /\ pc'[w] = "idle"
    BY <1>1 DEF end, CInv
  <2>2. runOf(w)'
    BY <1>1, <2>1 DEF runOf
  <2> QED BY <1>1, <2>1, <2>2, OtherRuns DEF end, CInv
<1>2. CASE RunHelp(w)
  <2>1. pc[w] = "idle"
    BY <1>2, NotStarted, NotCommands DEF RunHelp
  <2>2. action'[w] = NoAction /\ printed'[w] = Usage /\ pc'[w] = "idle"
    BY <1>2, <2>1 DEF RunHelp, end, CInv, vars
  <2>3. runOf(w)'
    BY <2>2 DEF runOf, Usage
  <2> QED BY <1>2, <2>2, <2>3, OtherRuns DEF RunHelp, end, CInv, vars
<1>3. ASSUME NEW act \in CliAction, begin(w, act), UNCHANGED <<pc, command>> PROVE CInv'
  <2>1. pc[w] = "idle"
    BY <1>3, NotStarted, NotCommands DEF begin
  <2>2. action'[w] = act /\ printed'[w] = Silence /\ pc'[w] = "idle"
    BY <1>3, <2>1 DEF begin, CInv
  <2>3. runOf(w)'
    BY <2>2 DEF runOf, Silence
  <2> QED BY <1>3, <2>2, <2>3, OtherRuns DEF begin, CInv
<1>4. CASE RunQuery(w)
  <2>1. PICK argv \in Argvs : parseArguments(argv) # helpAction /\ begin(w, parseArguments(argv))
    BY <1>4 DEF RunQuery
  <2>2. parseArguments(argv) \in CliAction
    BY <2>1, ParsedArguments
  <2> QED BY <1>3, <1>4, <2>1, <2>2 DEF RunQuery
<1>5. CASE RunCommand(w)
  <2>1. PICK argv \in Argvs : /\ isCommand(parseArguments(argv))
                              /\ begin(w, parseArguments(argv))
                              /\ Request(w)
                              /\ command'[w] = parseArguments(argv).command
    BY <1>5 DEF RunCommand
  <2> DEFINE act == parseArguments(argv)
  <2>2. act \in CliAction
    BY <2>1, ParsedArguments, NotCommands
  <2> HIDE DEF act
  <2>3. action'[w] = act /\ printed'[w] = Silence
    BY <2>1 DEF begin, CInv, act
  <2>4. runOf(w)'
    BY <2>1, <2>3 DEF runOf, Silence, act
  <2>5. \A v \in Workers : v # w => pc'[v] = pc[v] /\ command'[v] = command[v]
    BY <2>1 DEF Request, IInv, TypeOK
  <2> QED BY <2>1, <2>2, <2>3, <2>4, <2>5, OtherRuns DEF begin, CInv, act
<1>6. CASE Send(w)
  <2>1. /\ pc[w] # "idle" /\ command' = command
        /\ \A v \in Workers : v # w => pc'[v] = pc[v]
    BY <1>6, HandleFrame DEF Send
  <2>2. UNCHANGED <<action, printed>> /\ DOMAIN wrote' = Workers
    BY <1>6 DEF Send, CInv
  <2>3. runOf(w)'
    BY <2>1, <2>2 DEF CInv, runOf
  <2>4. action' = [action EXCEPT ![w] = action'[w]] /\ action'[w] \in CliAction \cup {NoAction}
    BY <2>2 DEF CInv
  <2> QED BY <2>1, <2>2, <2>3, <2>4, OtherRuns DEF CInv
<1>7. CASE PrintLines(w)
  <2>1. PICK log \in readJsonFileRecords : end(w, lines(action[w], outcome[w], log))
    BY <1>7 DEF PrintLines
  <2> DEFINE text == lines(action[w], outcome[w], log)
  <2>2. text.tag = "Lines"
    BY DEF lines
  <2> HIDE DEF text
  <2> QED BY <1>1, <1>7, <2>1, <2>2 DEF PrintLines, mayList, vars, text
<1>8. CASE ListingFails(w) \/ CommandFailed(w)
  BY <1>1, <1>8 DEF ListingFails, CommandFailed, mayList, Failure, vars
<1>9. CASE Die(w) /\ UNCHANGED vars /\ pc[w] = "idle"
  BY <1>1, <1>9 DEF Die, Silence, vars
<1>10. CASE Die(w) /\ Crash(w)
  <2>1. /\ pc'[w] = "idle" /\ command' = command
        /\ \A v \in Workers : v # w => pc'[v] = pc[v]
    BY <1>10, HandleFrame
  <2>2. end(w, Silence) /\ UNCHANGED wrote
    BY <1>10 DEF Die
  <2>3. action'[w] = NoAction /\ printed'[w] = Silence
    BY <2>2 DEF end, CInv
  <2>4. runOf(w)'
    BY <2>1, <2>3 DEF runOf, Silence
  <2> QED BY <2>1, <2>2, <2>3, <2>4, OtherRuns DEF end, CInv
<1> QED BY <1>2, <1>4, <1>5, <1>6, <1>7, <1>8, <1>9, <1>10 DEF Proceed, Die

LEMMA CliRunStep == ASSUME IInv, CInv, [NextCli]_allVars PROVE CInv'
<1>1. CASE NextCli
  BY <1>1, RunsKept DEF NextCli
<1>2. CASE UNCHANGED allVars
  BY <1>2 DEF allVars, cliVars, vars, CInv, runOf
<1> QED BY <1>1, <1>2

\* The invariants hold initially.
LEMMA CliInitially == InitCli => IInv /\ CInv /\ TInv
<1> SUFFICES ASSUME InitCli PROVE IInv /\ CInv /\ TInv
  OBVIOUS
<1>1. IInv
  BY Initially DEF InitCli
<1>2. CInv
  BY DEF InitCli, Init, CInv, runOf, NoAction, Silence
<1>3. TInv
  <2>1. ~ isStored /\ acked = {}
    BY DEF InitCli, Init, isStored, Absent
  <2>2. \A w \in Workers : pc[w] = "idle" /\ ~ overlapped[w]
    BY DEF InitCli, Init
  <2>3. \A w \in Workers : turnOf(w)
    BY <2>2, Zenon DEF turnOf
  <2> QED BY <2>1, <2>2, <2>3 DEF TInv
<1> QED BY <1>1, <1>2, <1>3

(***************************************************************************)
(* Type correctness of the command line: whatever is typed is parsed into  *)
(* a complete action, and a process at work is at work on the command it   *)
(* was started for.                                                        *)
(***************************************************************************)
THEOREM CliTypes == SpecCli => []CliTypeOK
<1>1. IInv /\ CInv /\ [NextCli]_allVars => CInv'
  BY CliRunStep
<1>2. IInv /\ [NextCli]_allVars => IInv'
  BY CliStoreStep
<1>3. IInv /\ CInv => CliTypeOK
  BY ParsedArguments DEF IInv, CInv, runOf, CliTypeOK
<1> QED BY CliInitially, <1>1, <1>2, <1>3, PTL DEF SpecCli

-----------------------------------------------------------------------------
(***************************************************************************)
(* Commands typed one after the other.                                     *)
(***************************************************************************)
LEMMA CliTurnStep ==
    ASSUME OneCommandAtATime, IInv, TInv, [NextCli]_allVars
    PROVE  TInv'
<1>1. ASSUME UNCHANGED <<file, pc, command, aggregate, contents, overlapped, acked>>
      PROVE  TInv'
  <2>1. \A v \in Workers : turnOf(v)'
    BY <1>1 DEF TInv, turnOf, readJsonFileRecords, slice
  <2>2. \A v, w \in Workers : pc'[v] # "idle" /\ pc'[w] # "idle" => v = w
    BY <1>1 DEF TInv
  <2> QED BY <1>1, <2>1, <2>2, QuietTurn
<1>2. ASSUME NEW w \in Workers, Request(w), \A v \in Workers : pc[v] = "idle"
      PROVE  TInv'
  BY <1>2, RequestTurn
<1>3. ASSUME NEW w \in Workers, Handle(w) \/ Crash(w)
      PROVE  TInv'
  BY <1>3, HandleTurn
<1>4. CASE NextCli
  BY <1>1, <1>2, <1>3, <1>4, StoreSteps DEF NextCli, vars
<1> QED BY <1>1, <1>4 DEF allVars, vars

\* The invariants of typing one command at a time.
LEMMA TurnsInvariance == OneCommandAtATime => (SpecCli => [](IInv /\ TInv))
<1> SUFFICES ASSUME OneCommandAtATime PROVE SpecCli => [](IInv /\ TInv)
  OBVIOUS
<1>1. IInv /\ [NextCli]_allVars => IInv'
  BY CliStoreStep
<1>2. IInv /\ TInv /\ [NextCli]_allVars => TInv'
  BY CliTurnStep
<1> QED BY CliInitially, <1>1, <1>2, PTL DEF SpecCli

(***************************************************************************)
(* What a command was acknowledged for is in every log read later, as long *)
(* as commands are typed one after the other: reads and writes may fail,   *)
(* and processes die between any two of them.                              *)
(***************************************************************************)
THEOREM AcknowledgedAreKept == OneCommandAtATime => (SpecCli => []AcknowledgedSurvive)
<1>1. TInv => AcknowledgedSurvive
  BY DEF TInv, sound, AcknowledgedSurvive
<1> QED BY <1>1, TurnsInvariance, PTL

(***************************************************************************)
(* Every event on file was accepted by the decision of its slice on the    *)
(* history before it, under the same condition: the version checked is     *)
(* that of the log the decision was made on, and nobody wrote meanwhile.   *)
(***************************************************************************)
THEOREM FileHistoryIsLegal == OneCommandAtATime => (SpecCli => []LegalHistoryOnFile)
<1>1. TInv => LegalHistoryOnFile
  BY DEF TInv, sound, LegalHistoryOnFile, legalLog, legalAt
<1> QED BY <1>1, TurnsInvariance, PTL

-----------------------------------------------------------------------------
(***************************************************************************)
(* What is printed after a command, against its receipt.                   *)
(***************************************************************************)

\* agrees, with the logs acknowledged as a parameter.
agreesIn(shown, own, logs) ==
    LET c == shown.action.command
        receipt == shown.answer.receipt
    IN  IF sliceOf(c) = "counter"
        THEN \E s \in shown.list : s.counterId = c.id /\ s.version >= receipt.version
        ELSE \A a \in Catalog :
                \/ shown.list[a] = (a \in receipt.bookmarkedArticleIds)
                \/ \E log \in logs : IsStrictPrefix(own, log) /\
                      \E i \in (Len(own) + 1) .. Len(log) : touches(log[i].event, c.id, a)

listedOf(w) ==
    printed[w].tag = "Lines" /\ isCommand(printed[w].action) => agreesIn(printed[w], wrote[w], acked)

\* A command that was answered with a receipt wrote a log that bears the receipt out.
answeredOf(w) ==
    isCommand(action[w]) /\ pc[w] = "idle" /\ outcome[w].tag = "Receipt" =>
        /\ wrote[w] \in acked
        /\ receiptIn(action[w].command, outcome[w].receipt, wrote[w])

(***************************************************************************)
(* The inductive invariant of what is printed.                             *)
(***************************************************************************)
XInv == \A w \in Workers : answeredOf(w) /\ listedOf(w)

LEMMA ListingInvariant == XInv => ListingFollowsReceipt
BY DEF XInv, listedOf, agreesIn, ListingFollowsReceipt, agrees, touches

\* A listing that agrees goes on doing so as more is acknowledged.
LEMMA AgreementGrows ==
    ASSUME NEW shown, NEW own, NEW logs, NEW more, logs \subseteq more, agreesIn(shown, own, logs)
    PROVE  agreesIn(shown, own, more)
BY DEF agreesIn

\* A counter is listed at the version of the receipt or a later one.
LEMMA CounterFollows ==
    ASSUME NEW own \in Logs, NEW log \in Logs, legalLog(log), IsPrefix(own, log),
           NEW c, sliceOf(c) = "counter", NEW receipt, receiptIn(c, receipt, own)
    PROVE  \E s \in ListCounters(log) : s.counterId = c.id /\ s.version >= receipt.version
<1> DEFINE before == load("counter", own, c.id)
           after == load("counter", log, c.id)
<1>1. before.version # 0 /\ receipt.version = before.version
  BY DEF receiptIn, receiptOf
<1>2. "counter" \in Slices
  BY DEF Slices
<1>3. before.version <= after.version
  <2>1. /\ Len(own) \in 0 .. Len(log)
        /\ before = history("counter", log, c.id)[Len(own)]
    BY LoadOfBeginning
  <2>2. history("counter", log, c.id)[Len(own)].version <= after.version
    BY <1>2, <2>1, VersionsGrow
  <2> HIDE DEF before, after
  <2> QED BY <2>1, <2>2
<1>4. before.version \in Nat /\ after.version \in Nat
  BY <1>2, AnyLoadType DEF Replayed
<1>5. after.version # 0
  <2> HIDE DEF before, after
  <2> QED BY <1>1, <1>3, <1>4
<1>6. PICK s \in ListCounters(log) : s.counterId = c.id /\ s.version = after.version
  BY <1>5, CounterIsListed
<1> HIDE DEF before, after
<1> QED BY <1>1, <1>3, <1>4, <1>6

\* An article is marked as the receipt has it, unless it was toggled since.
LEMMA ArticlesFollow ==
    ASSUME NEW own \in Logs, NEW log \in Logs, legalLog(log), numberedLog(log), IsPrefix(own, log),
           NEW c \in UserCommand, NEW receipt, receiptIn(c, receipt, own), NEW a \in Catalog
    PROVE  \/ ListArticles(log, c.id)[a] = (a \in receipt.bookmarkedArticleIds)
           \/ /\ IsStrictPrefix(own, log)
              /\ \E i \in (Len(own) + 1) .. Len(log) : touches(log[i].event, c.id, a)
<1>1. c.id \in UserIds /\ a \in ArticleIds /\ sliceOf(c) = "user"
  BY CatalogAssumption DEF UserCommand, UserCommandTags, CounterCommandTags, sliceOf
<1> DEFINE before == load("user", own, c.id)
           after == load("user", log, c.id)
           shown == ListArticles(log, c.id)[a]
<1>2. Len(own) \in 0 .. Len(log) /\ before = history("user", log, c.id)[Len(own)]
  BY LoadOfBeginning
<1>3. receipt.bookmarkedArticleIds = bookmarkedArticleIds(before.state)
  BY <1>1 DEF receiptIn, receiptOf
<1>4. CASE \E i \in (Len(own) + 1) .. Len(log) : touches(log[i].event, c.id, a)
  <2>1. Len(own) # Len(log)
    BY <1>2, <1>4
  <2> QED BY <1>4, <2>1 DEF IsStrictPrefix
<1>5. CASE \A i \in (Len(own) + 1) .. Len(log) : ~ touches(log[i].event, c.id, a)
  <2>1. a \in bookmarkedArticleIds(after.state) <=> a \in bookmarkedArticleIds(before.state)
    BY <1>2, <1>5, UntouchedBookmark
  <2>2. showsBookmark(bookmarkProjection(log)[Len(log)], after, c.id, a)
    BY <1>1, UsersAtHome, MapMatchesUser
  <2>3. shown = bookmarkProjection(log)[Len(log)][<<c.id, a>>]
    BY DEF ListArticles
  <2>4. shown \in BOOLEAN /\ (shown <=> a \in bookmarkedArticleIds(after.state))
    BY <1>1, <2>2, <2>3 DEF showsBookmark, Bookmarks
  <2> DEFINE holds == a \in receipt.bookmarkedArticleIds
  <2>5. (shown <=> holds) /\ holds \in BOOLEAN
    BY <1>3, <2>1, <2>4
  <2> HIDE DEF shown, holds
  <2>6. shown = holds
    BY <2>4, <2>5
  <2> QED BY <2>6 DEF shown, holds
<1> QED BY <1>4, <1>5

\* When a listing agrees: what agreesIn says, part by part.
LEMMA CountersAgree ==
    ASSUME NEW shown, NEW own, NEW logs, sliceOf(shown.action.command) = "counter",
           \E s \in shown.list : /\ s.counterId = shown.action.command.id
                                /\ s.version >= shown.answer.receipt.version
    PROVE  agreesIn(shown, own, logs)
BY Zenon DEF agreesIn

LEMMA ArticlesAgree ==
    ASSUME NEW shown, NEW own, NEW log, NEW logs, log \in logs,
           sliceOf(shown.action.command) # "counter",
           \A a \in Catalog :
              \/ shown.list[a] = (a \in shown.answer.receipt.bookmarkedArticleIds)
              \/ /\ IsStrictPrefix(own, log)
                 /\ \E i \in (Len(own) + 1) .. Len(log) :
                       touches(log[i].event, shown.action.command.id, a)
    PROVE  agreesIn(shown, own, logs)
BY Zenon DEF agreesIn

(***************************************************************************)
(* The list printed is read from the file after the command ended: it      *)
(* holds the command's own log and maybe more.                             *)
(***************************************************************************)
LEMMA PrintedFollows ==
    ASSUME IInv, TInv, CInv, NEW w \in Workers, answeredOf(w), mayList(w), isCommand(action[w]),
           NEW log \in readJsonFileRecords
    PROVE  agreesIn(lines(action[w], outcome[w], log), wrote[w], acked)
<1> DEFINE act == action[w]
           c == act.command
           receipt == outcome[w].receipt
           own == wrote[w]
           shown == lines(act, outcome[w], log)
<1>1. own \in acked /\ receiptIn(c, receipt, own)
  BY DEF answeredOf, mayList
<1>2. log \in Logs /\ orderlyLog(log) /\ sound(log, acked)
  BY ReadType, ReadIsSound
<1>3. own \in Logs /\ IsPrefix(own, log) /\ legalLog(log)
  BY <1>1, <1>2 DEF sound, IInv, TypeOK, Logs
<1>4. log \in acked
  <2>1. isStored
    BY <1>1 DEF TInv, IInv, TypeOK, isStored, readJsonFileRecords, Torn
  <2> QED BY <2>1 DEF TInv, isStored, readJsonFileRecords
<1>5. act \in [tag : {"Command"}, command : CounterCommand]
         \cup [tag : {"ToggleBookmark"}, command : UserCommand]
  BY DEF CInv, CliAction, NoAction, isCommand
<1>6. shown.action = act /\ shown.answer.receipt = receipt /\ shown.list = listing(act, log)
  BY DEF lines
<1>7. CASE act.tag = "Command"
  <2>1. c \in CounterCommand /\ sliceOf(c) = "counter"
    BY <1>5, <1>7 DEF CounterCommand, sliceOf
  <2>2. listing(act, log) = ListCounters(log)
    BY <1>7 DEF listing
  <2>3. \E s \in ListCounters(log) : s.counterId = c.id /\ s.version >= receipt.version
    <3> HIDE DEF c, receipt, own
    <3> QED BY <1>1, <1>2, <1>3, <2>1, CounterFollows
  <2> HIDE DEF shown
  <2>4. /\ sliceOf(shown.action.command) = "counter"
        /\ \E s \in shown.list : /\ s.counterId = shown.action.command.id
                                 /\ s.version >= shown.answer.receipt.version
    BY <1>6, <2>1, <2>2, <2>3, Zenon
  <2> QED BY <2>4, CountersAgree DEF shown
<1>8. CASE act.tag = "ToggleBookmark"
  <2>1. c \in UserCommand /\ sliceOf(c) # "counter"
    BY <1>5, <1>8 DEF UserCommand, UserCommandTags, CounterCommandTags, sliceOf
  <2>2. listing(act, log) = ListArticles(log, c.id)
    BY <1>8 DEF listing
  <2>3. numberedLog(log)
    BY <1>2 DEF orderlyLog, orderlyAt, numberedLog
  <2>4. \A a \in Catalog :
           \/ ListArticles(log, c.id)[a] = (a \in receipt.bookmarkedArticleIds)
           \/ /\ IsStrictPrefix(own, log)
              /\ \E i \in (Len(own) + 1) .. Len(log) : touches(log[i].event, c.id, a)
    <3> HIDE DEF c, receipt, own
    <3> QED BY <1>1, <1>2, <1>3, <2>1, <2>3, ArticlesFollow
  <2> HIDE DEF shown
  <2>5. /\ sliceOf(shown.action.command) # "counter"
        /\ \A a \in Catalog :
              \/ shown.list[a] = (a \in shown.answer.receipt.bookmarkedArticleIds)
              \/ /\ IsStrictPrefix(own, log)
                 /\ \E i \in (Len(own) + 1) .. Len(log) :
                       touches(log[i].event, shown.action.command.id, a)
    BY <1>6, <2>1, <2>2, <2>4, Zenon
  <2> QED BY <1>4, <2>5, ArticlesAgree DEF shown
<1> QED BY <1>7, <1>8 DEF isCommand

\* What was printed and answered to the other processes stands.
LEMMA OthersStand ==
    ASSUME XInv, NEW w \in Workers, acked \subseteq acked', answeredOf(w)', listedOf(w)',
           \A v \in Workers : v # w =>
               /\ action'[v] = action[v] /\ pc'[v] = pc[v] /\ outcome'[v] = outcome[v]
               /\ printed'[v] = printed[v] /\ wrote'[v] = wrote[v]
    PROVE  XInv'
<1>1. ASSUME NEW v \in Workers, v # w PROVE answeredOf(v)'
  BY <1>1 DEF XInv, answeredOf
<1>2. ASSUME NEW v \in Workers, v # w PROVE listedOf(v)'
  <2>1. listedOf(v)
    BY DEF XInv
  <2>2. printed'[v] = printed[v] /\ wrote'[v] = wrote[v]
    BY <1>2
  <2> QED BY <2>1, <2>2, AgreementGrows DEF listedOf
<1> QED BY <1>1, <1>2 DEF XInv

LEMMA AnswersStand ==
    ASSUME IInv, TInv, CInv, XInv, NEW w \in Workers,
           RunHelp(w) \/ RunQuery(w) \/ RunCommand(w) \/ Proceed(w) \/ Die(w)
    PROVE  XInv'
<1>1. ASSUME NEW text, end(w, text), acked' = acked, DOMAIN wrote' = Workers,
             \A v \in Workers : v # w => /\ pc'[v] = pc[v] /\ outcome'[v] = outcome[v]
                                         /\ wrote'[v] = wrote[v],
             text.tag # "Lines" \/ (isCommand(text.action) => agreesIn(text, wrote'[w], acked))
      PROVE  XInv'
  <2>1. action'[w] = NoAction /\ printed'[w] = text
    BY <1>1 DEF end, CInv
  <2>2. answeredOf(w)'
    BY <2>1, NotCommands DEF answeredOf
  <2>3. listedOf(w)'
    BY <1>1, <2>1 DEF listedOf
  <2> QED BY <1>1, <2>2, <2>3, OthersStand DEF end, CInv
<1>2. CASE RunHelp(w)
  BY <1>1, <1>2 DEF RunHelp, vars, CInv, Usage
<1>3. ASSUME NEW act, begin(w, act), acked' = acked, ~ isCommand(act) \/ pc'[w] # "idle",
             \A v \in Workers : v # w => pc'[v] = pc[v] /\ outcome'[v] = outcome[v]
      PROVE  XInv'
  <2>1. action'[w] = act /\ printed'[w] = Silence
    BY <1>3 DEF begin, CInv
  <2>2. answeredOf(w)'
    BY <1>3, <2>1 DEF answeredOf
  <2>3. listedOf(w)'
    BY <2>1 DEF listedOf, Silence
  <2> QED BY <1>3, <2>2, <2>3, OthersStand DEF begin, CInv
<1>4. CASE RunQuery(w)
  <2>1. PICK argv \in Argvs : ~ isCommand(parseArguments(argv)) /\ begin(w, parseArguments(argv))
    BY <1>4 DEF RunQuery
  <2> QED BY <1>3, <1>4, <2>1 DEF RunQuery, IInv
<1>5. CASE RunCommand(w)
  <2>1. PICK argv \in Argvs : begin(w, parseArguments(argv)) /\ Request(w)
    BY <1>5 DEF RunCommand
  <2>2. /\ pc'[w] # "idle" /\ acked' = acked
        /\ \A v \in Workers : v # w => pc'[v] = pc[v] /\ outcome'[v] = outcome[v]
    BY <2>1 DEF Request, IInv, TypeOK
  <2> QED BY <1>3, <2>1, <2>2
<1>6. CASE Send(w)
  <2>1. /\ pc[w] # "idle" /\ command' = command /\ acked \subseteq acked'
        /\ \A v \in Workers : v # w => pc'[v] = pc[v] /\ outcome'[v] = outcome[v]
        /\ Fill(w) \/ pc'[w] # "idle" \/ outcome'[w].tag # "Receipt"
    BY <1>6, HandleFrame DEF Send
  <2>2. UNCHANGED <<action, printed>> /\ \A v \in Workers : v # w => wrote'[v] = wrote[v]
    BY <1>6 DEF Send, CInv
  <2>3. isCommand(action[w]) /\ action[w].command = command[w] /\ printed[w] = Silence
    BY <2>1, NotCommands DEF CInv, runOf
  <2>4. listedOf(w)'
    BY <2>2, <2>3 DEF listedOf, Silence
  <2>5. ASSUME Fill(w) PROVE answeredOf(w)'
    <3>1. /\ pc[w] = "filling"
          /\ outcome'[w] = [tag |-> "Receipt", receipt |-> receiptOf(slice(w), aggregate[w])]
          /\ contents[w] \in acked'
      BY <2>5 DEF Fill, IInv
    <3>2. outcome'[w].tag = "Receipt" /\ outcome'[w].receipt = receiptOf(slice(w), aggregate[w])
      BY <3>1
    <3>3. wrote'[w] = contents[w]
      BY <1>6, <3>2 DEF Send, CInv
    <3>4. receiptIn(command[w], receiptOf(slice(w), aggregate[w]), contents[w])
      BY <3>1 DEF TInv, turnOf
    <3> QED BY <2>2, <2>3, <3>1, <3>2, <3>3, <3>4 DEF answeredOf
  <2>6. ASSUME pc'[w] # "idle" \/ outcome'[w].tag # "Receipt" PROVE answeredOf(w)'
    BY <2>6 DEF answeredOf
  <2> QED BY <2>1, <2>2, <2>4, <2>5, <2>6, OthersStand
<1>7. CASE PrintLines(w)
  <2>1. PICK log \in readJsonFileRecords : end(w, lines(action[w], outcome[w], log))
    BY <1>7 DEF PrintLines
  <2> DEFINE text == lines(action[w], outcome[w], log)
  <2>2. text.action = action[w]
    BY DEF lines
  <2>3. isCommand(text.action) => agreesIn(text, wrote[w], acked)
    BY <1>7, <2>2, PrintedFollows DEF PrintLines, XInv
  <2> HIDE DEF text
  <2> QED BY <1>1, <1>7, <2>1, <2>3 DEF PrintLines, vars, CInv, text
<1>8. CASE ListingFails(w) \/ CommandFailed(w)
  BY <1>1, <1>8 DEF ListingFails, CommandFailed, Failure, vars, CInv
<1>9. CASE Die(w) /\ UNCHANGED vars
  BY <1>1, <1>9 DEF Die, Silence, vars, CInv
<1>10. CASE Die(w) /\ Crash(w)
  <2>1. \A v \in Workers : v # w => pc'[v] = pc[v] /\ outcome'[v] = outcome[v]
    BY <1>10, HandleFrame
  <2> QED BY <1>1, <1>10, <2>1 DEF Die, Crash, Silence, CInv
<1> QED BY <1>2, <1>4, <1>5, <1>6, <1>7, <1>8, <1>9, <1>10 DEF Proceed, Die

(***************************************************************************)
(* What a run prints after a command comes from a second read of the file, *)
(* and yet agrees with the command's receipt, when commands are typed one  *)
(* after the other: the counter is listed at the receipt's version or a    *)
(* later one, an article as the receipt has it unless toggled again.       *)
(***************************************************************************)
THEOREM ListsFollowReceipts == OneCommandAtATime => (SpecCli => []ListingFollowsReceipt)
<1> SUFFICES ASSUME OneCommandAtATime PROVE SpecCli => []ListingFollowsReceipt
  OBVIOUS
<1>1. InitCli => XInv
  BY DEF InitCli, XInv, answeredOf, listedOf, NoAction, Silence, isCommand
<1>2. IInv /\ CInv /\ [NextCli]_allVars => CInv'
  BY CliRunStep
<1>3. IInv /\ TInv /\ CInv /\ XInv /\ [NextCli]_allVars => XInv'
  <2> SUFFICES ASSUME IInv, TInv, CInv, XInv, [NextCli]_allVars PROVE XInv'
    OBVIOUS
  <2>1. CASE NextCli
    BY <2>1, AnswersStand DEF NextCli
  <2>2. CASE UNCHANGED allVars
    BY <2>2 DEF allVars, cliVars, vars, XInv, answeredOf, listedOf
  <2> QED BY <2>1, <2>2
<1> QED BY CliInitially, TurnsInvariance, ListingInvariant, <1>1, <1>2, <1>3, PTL DEF SpecCli

-----------------------------------------------------------------------------
(***************************************************************************)
(* Commands typed one after the other, as AtomicCli has them.              *)
(***************************************************************************)

\* What a worker is about to write is what it read, and the event that follows on it.
writes(w) ==
    /\ pc[w] = "writing" =>
          \E log \in readJsonFileRecords : written(command[w], aggregate[w], log, contents[w])
    /\ pc[w] = "filling" =>
          /\ file = Torn
          /\ \E log \in Logs :
                ownVersions(log) /\ written(command[w], aggregate[w], log, contents[w])

(***************************************************************************)
(* The inductive invariant of the file: what is written over it continues  *)
(* it, a worker fills only a file it has emptied, and where nothing fails  *)
(* an emptied file is being filled.                                        *)
(***************************************************************************)
RInv ==
    /\ \A w \in Workers : writes(w)
    /\ isStored => ownVersions(file.records)
    /\ ~ Faults /\ file = Torn => isFilled

LEMMA ReadOwnVersions ==
    ASSUME IInv, RInv, NEW log \in readJsonFileRecords
    PROVE  ownVersions(log)
BY OwnVersionsInitially DEF readJsonFileRecords, RInv, isStored, IInv, TypeOK, Absent, Torn

\* What is written is a log, longer than the log it continues by an event of the command.
LEMMA WrittenIsLog ==
    ASSUME NEW c \in Command, NEW a, NEW before \in Logs, NEW log, written(c, a, before, log)
    PROVE  /\ log \in Logs /\ Front(log) = before
           /\ ownVersions(before) => ownVersions(log)
<1>1. PICK r \in StoredEvent(Ids, DomainEvent) :
         /\ log = Append(before, r)
         /\ r.aggregateId = c.id
         /\ r.eventStoreSequenceNumber = Len(before) + 1
         /\ decide(c, load(sliceOf(c), before, c.id).state) = accept(r.event)
  BY DEF written
<1>2. log \in Logs
  BY <1>1, AppendProperties DEF Logs
<1>3. Front(log) = before
  BY <1>1, AppendProperties DEF Logs, Front
<1>4. ASSUME ownVersions(before) PROVE ownVersions(log)
  <2>1. \A s \in Slices : belongsToSlice(s, r.event) <=> s = sliceOf(c)
    BY <1>1, DecisionType DEF accept, isFailure
  <2>2. sliceOf(c) \in Slices
    BY DEF sliceOf, Slices
  <2>3. c.id \in IF sliceOf(c) = "counter" THEN CounterIds ELSE UserIds
    BY DEF sliceOf, Command, CounterCommand, UserCommand, CounterCommandTags, UserCommandTags
  <2>4. r.eventStoreSequenceNumber >= 1
    BY <1>1, LenProperties DEF Logs
  <2> QED BY <1>1, <1>4, <2>1, <2>2, <2>3, <2>4, OwnVersionsAppend
<1> QED BY <1>2, <1>3, <1>4

-----------------------------------------------------------------------------
LEMMA NotWriting ==
    ASSUME NEW v \in Workers, pc'[v] # "writing", pc'[v] # "filling"
    PROVE  writes(v)'
BY DEF writes

\* Steps that leave the file alone.
LEMMA QuietWrites ==
    ASSUME RInv, file' = file, \A v \in Workers : writes(v)', Faults \/ (isFilled => isFilled')
    PROVE  RInv'
BY DEF RInv, isStored

LEMMA HandleWrites ==
    ASSUME IInv, TInv, RInv, NEW w \in Workers, Handle(w) \/ Crash(w)
    PROVE  RInv'
<1>1. pc[w] # "idle" /\ \A v \in Workers : v # w => pc[v] = "idle" /\ pc'[v] = "idle"
  BY AloneBusy, HandleFrame
<1>2. \A v \in Workers : v # w => writes(v)'
  BY <1>1, NotWriting
<1>3. isFilled => pc[w] = "filling"
  BY <1>1 DEF isFilled
<1>4. ASSUME file' = file, Faults \/ pc[w] # "filling", writes(w)'
      PROVE  RInv'
  BY <1>2, <1>3, <1>4, QuietWrites
<1>5. ASSUME NEW answer, finish(w, answer) PROVE writes(w)'
  BY <1>5, NotWriting DEF finish, IInv, TypeOK
<1>6. CASE LoadAndReject(w)
  <2>1. pc[w] # "filling" /\ file' = file /\ \E answer : finish(w, answer)
    BY <1>6 DEF LoadAndReject
  <2> QED BY <1>4, <1>5, <2>1
<1>7. CASE LoadAndAccept(w)
  <2>1. pc[w] # "filling" /\ file' = file /\ pc'[w] = "saving"
    BY <1>7 DEF LoadAndAccept, IInv, TypeOK
  <2> QED BY <1>4, <2>1, NotWriting
<1>8. CASE CheckVersion(w)
  <2>1. /\ pc[w] # "filling" /\ file' = file /\ pc'[w] = "writing"
        /\ command' = command /\ aggregate' = aggregate
    BY <1>8 DEF CheckVersion, IInv, TypeOK
  <2>2. PICK log \in readJsonFileRecords : written(command[w], aggregate[w], log, contents'[w])
    BY <1>8, WhatIsWritten
  <2>3. log \in readJsonFileRecords'
    BY <2>1 DEF readJsonFileRecords
  <2>4. writes(w)'
    BY <2>1, <2>2, <2>3 DEF writes
  <2> QED BY <1>4, <2>1, <2>4
<1>9. CASE Conflict(w)
  BY <1>4, <1>5, <1>9 DEF Conflict
<1>10. CASE Truncate(w)
  <2>1. /\ pc[w] = "writing" /\ file' = Torn /\ pc'[w] = "filling"
        /\ UNCHANGED <<command, aggregate, contents>>
    BY <1>10 DEF Truncate, IInv, TypeOK
  <2>2. PICK log \in readJsonFileRecords : written(command[w], aggregate[w], log, contents[w])
    BY <2>1 DEF RInv, writes
  <2>3. log \in Logs /\ ownVersions(log)
    BY ReadType, ReadOwnVersions
  <2>4. writes(w)'
    BY <2>1, <2>2, <2>3 DEF writes
  <2>5. isFilled' /\ ~ isStored'
    BY <2>1 DEF isFilled, isStored, Torn
  <2> QED BY <1>2, <2>4, <2>5 DEF RInv
<1>11. CASE Fill(w)
  <2>1. pc[w] = "filling" /\ pc'[w] = "idle" /\ file' = stored(contents[w])
    BY <1>11 DEF Fill, IInv, TypeOK, TInv, turnOf
  <2>2. command[w] \in Command
    BY <2>1, WorkerType DEF IInv
  <2>3. ownVersions(contents[w])
    BY <2>1, <2>2, WrittenIsLog DEF RInv, writes
  <2>4. file' # Torn /\ file'.records = contents[w]
    BY <2>1 DEF stored, Torn
  <2>5. writes(w)'
    BY <2>1, NotWriting
  <2> QED BY <1>2, <2>3, <2>4, <2>5 DEF RInv
<1>12. CASE ReadFails(w)
  BY <1>4, <1>5, <1>12 DEF ReadFails
<1>13. ASSUME abandonWrite(w) PROVE file' = file
  BY <1>13 DEF abandonWrite, TInv, turnOf
<1>14. CASE WriteFails(w)
  BY <1>4, <1>5, <1>13, <1>14 DEF WriteFails
<1>15. CASE Crash(w)
  BY <1>4, <1>5, <1>13, <1>15 DEF Crash
<1> QED BY <1>6, <1>7, <1>8, <1>9, <1>10, <1>11, <1>12, <1>14, <1>15 DEF Handle

LEMMA WritesKept ==
    ASSUME OneCommandAtATime, IInv, TInv, RInv, [NextCli]_allVars
    PROVE  RInv'
<1>1. ASSUME UNCHANGED <<file, pc, command, aggregate, contents>>
      PROVE  RInv'
  BY <1>1 DEF RInv, writes, readJsonFileRecords, isStored, isFilled
<1>2. ASSUME NEW w \in Workers, Request(w), \A v \in Workers : pc[v] = "idle"
      PROVE  RInv'
  <2>1. \A v \in Workers : pc'[v] # "writing" /\ pc'[v] # "filling"
    BY <1>2 DEF Request, IInv, TypeOK
  <2>2. file' = file /\ ~ isFilled
    BY <1>2 DEF Request, isFilled
  <2> QED BY <2>1, <2>2, NotWriting, QuietWrites
<1>3. CASE NextCli
  BY <1>1, <1>2, <1>3, HandleWrites, StoreSteps DEF NextCli, vars
<1> QED BY <1>1, <1>3 DEF allVars, vars

LEMMA WritesInitially == InitCli => RInv
BY DEF InitCli, Init, RInv, writes, isStored, Absent, Torn
-----------------------------------------------------------------------------
(***************************************************************************)
(* Promise!x is the operator x that AtomicCli takes from the modules it    *)
(* shares with Cli: it means the same.                                     *)
(***************************************************************************)
LEMMA PromiseJudges ==
    ASSUME NEW d
    PROVE  Promise!isFailure(d) <=> isFailure(d)
BY DEF Promise!isFailure, isFailure

LEMMA PromiseDecides ==
    ASSUME NEW c, NEW st
    PROVE  Promise!decide(c, st) = decide(c, st)
<1>1. Promise!sliceOf(c) = sliceOf(c)
  BY DEF Promise!sliceOf, sliceOf, Promise!CounterCommandTags, CounterCommandTags
<1>2. Promise!decideCounter(c, st) = decideCounter(c, st)
  BY Zenon DEF Promise!decideCounter, decideCounter, Promise!createCounter, createCounter,
       Promise!incrementCounter, incrementCounter, Promise!decrementCounter, decrementCounter,
       Promise!disableCounter, disableCounter, Promise!counterEvent, counterEvent,
       Promise!accept, accept, Promise!reject, reject,
       Promise!minimumCounterValue, minimumCounterValue
<1>3. Promise!toggleArticleBookmark(c, st) = toggleArticleBookmark(c, st)
  BY Zenon DEF Promise!toggleArticleBookmark, toggleArticleBookmark,
       Promise!bookmarkedArticleIds, bookmarkedArticleIds, Promise!accept, accept
<1> QED BY <1>1, <1>2, <1>3 DEF Promise!decide, decide

LEMMA PromiseReplays ==
    ASSUME NEW s, NEW a, NEW e
    PROVE  Promise!replayEvent(s, a, e) = replayEvent(s, a, e)
<1>1. Promise!applyCounterEvent(a.state, e) = applyCounterEvent(a.state, e)
  BY Zenon DEF Promise!applyCounterEvent, applyCounterEvent, Promise!activeCounter, activeCounter,
       Promise!toCounterValue, toCounterValue, Promise!minimumCounterValue, minimumCounterValue
<1>2. Promise!applyUserEvent(a.state, e) = applyUserEvent(a.state, e)
  BY Zenon DEF Promise!applyUserEvent, applyUserEvent,
       Promise!bookmarkedArticleIds, bookmarkedArticleIds
<1>3. Promise!reducer(s, a.state, e) = reducer(s, a.state, e)
  BY <1>1, <1>2 DEF Promise!reducer, reducer
<1> QED BY <1>3 DEF Promise!replayEvent, replayEvent

LEMMA PromiseShows ==
    ASSUME NEW s, NEW a
    PROVE  /\ Promise!receiptOf(s, a) = receiptOf(s, a)
           /\ Promise!counterSummaryOf(a) = counterSummaryOf(a)
           /\ Promise!bookmarkedArticleIds(a.state) = bookmarkedArticleIds(a.state)
BY Zenon DEF Promise!receiptOf, receiptOf, Promise!bookmarkedArticleIds, bookmarkedArticleIds,
     Promise!counterSummaryOf, counterSummaryOf

LEMMA PromiseBegins ==
    ASSUME NEW s
    PROVE  Promise!makeAggregate(s) = makeAggregate(s)
BY Zenon DEF Promise!makeAggregate, makeAggregate, Promise!initialState, initialState,
     Promise!initialCounterState, initialCounterState, Promise!initialUserState, initialUserState

LEMMA PromiseKnows ==
    /\ Promise!Command = Command
    /\ Promise!streams = ({"counter"} \X CounterIds) \cup ({"user"} \X UserIds)
    /\ \A c : Promise!streamOf(c) = <<sliceOf(c), c.id>> /\ Promise!sliceOf(c) = sliceOf(c)
<1>1. Promise!Command = Command
  BY Zenon DEF Promise!Command, Command, Promise!CounterCommand, CounterCommand,
       Promise!UserCommand, UserCommand, Promise!CounterCommandTags, CounterCommandTags,
       Promise!UserCommandTags, UserCommandTags
<1>2. \A c : Promise!sliceOf(c) = sliceOf(c)
  BY DEF Promise!sliceOf, sliceOf, Promise!CounterCommandTags, CounterCommandTags
<1> QED BY <1>1, <1>2 DEF Promise!streams, Promise!streamOf

-----------------------------------------------------------------------------
(***************************************************************************)
(* The log that is held: the one a read returns, or the one a worker had   *)
(* read when it emptied the file.                                          *)
(***************************************************************************)
LEMMA HeldIsRead ==
    ASSUME IInv, RInv, NEW log \in readJsonFileRecords
    PROVE  logHeld = log /\ ~ fileIsLost
<1>1. CASE isStored
  BY <1>1 DEF readJsonFileRecords, isStored, logHeld, fileIsLost, Torn
<1>2. CASE ~ isStored
  <2>1. log = <<>> /\ file = Absent
    BY <1>2 DEF readJsonFileRecords, isStored, IInv, TypeOK, Absent, Torn
  <2>2. ~ isFilled
    BY <2>1 DEF RInv, writes, isFilled, Absent, Torn
  <2> QED BY <1>2, <2>1, <2>2 DEF logHeld, fileIsLost, Absent, Torn
<1> QED BY <1>1, <1>2

LEMMA HeldWhileFilled ==
    ASSUME TInv, RInv, NEW w \in Workers, pc[w] = "filling"
    PROVE  logHeld = Front(contents[w]) /\ ~ fileIsLost /\ file = Torn
<1>1. file = Torn /\ ~ isStored /\ isFilled
  BY DEF RInv, writes, isStored, isFilled, Torn
<1>2. (CHOOSE v \in Workers : pc[v] = "filling") = w
  BY DEF TInv
<1> QED BY <1>1, <1>2 DEF logHeld, fileIsLost

\* While the file is left alone and nobody fills it, the same log is held.
LEMMA HeldStays ==
    ASSUME file' = file, ~ isFilled, ~ isFilled'
    PROVE  heldOnFile' = heldOnFile /\ fileIsLost' = fileIsLost
<1>1. logHeld' = logHeld
  BY DEF logHeld, isStored
<1> QED BY <1>1 DEF heldOnFile, fileIsLost

LEMMA HeldUntouched ==
    ASSUME UNCHANGED <<file, pc, contents>>
    PROVE  heldOnFile' = heldOnFile /\ fileIsLost' = fileIsLost
<1>1. logHeld' = logHeld /\ isFilled' = isFilled
  BY DEF logHeld, isStored, isFilled
<1> QED BY <1>1 DEF heldOnFile, fileIsLost

\* A step that loses the file leaves new aggregates only.
LEMMA LostHoldsNothing ==
    ASSUME fileIsLost'
    PROVE  heldOnFile' = Promise!nothingHeld
<1>1. logHeld' = <<>>
  BY DEF fileIsLost, logHeld, isStored, Torn
<1>2. ASSUME NEW s \in ({"counter"} \X CounterIds) \cup ({"user"} \X UserIds)
      PROVE  load(s[1], logHeld', s[2]) = Promise!makeAggregate(s[1])
  <2>1. load(s[1], <<>>, s[2]) = makeAggregate(s[1])
    BY EmptyLoad
  <2> QED BY <1>1, <2>1, PromiseBegins
<1> QED BY <1>2, PromiseKnows DEF heldOnFile, Promise!nothingHeld
-----------------------------------------------------------------------------
(***************************************************************************)
(* The steps of the command line, one by one: first those that start a     *)
(* process.                                                                *)
(***************************************************************************)
LEMMA NothingUnderWay ==
    ASSUME NEW w \in Workers, pc[w] = "idle"
    PROVE  underWay[w] = Promise!NoCommand
BY DEF underWay, NoCommand, Promise!NoCommand

LEMMA SomethingUnderWay ==
    ASSUME IInv, NEW w \in Workers, pc[w] # "idle"
    PROVE  underWay[w] = command[w] /\ underWay[w] # Promise!NoCommand
BY WorkerType DEF IInv, underWay, Promise!NoCommand, Command, CounterCommand, UserCommand,
   CounterCommandTags, UserCommandTags

LEMMA HelpIsShowUsage ==
    ASSUME CInv, NEW w \in Workers, RunHelp(w)
    PROVE  Promise!ShowUsage(w)
<1>1. action[w] = NoAction /\ action' = [action EXCEPT ![w] = NoAction]
  BY DEF RunHelp, end
<1>2. action' = action
  BY <1>1 DEF CInv
<1>3. UNCHANGED <<heldOnFile, fileIsLost, underWay, outcome>>
  BY HeldUntouched DEF RunHelp, vars, underWay
<1> QED BY <1>1, <1>2, <1>3 DEF RunHelp, end, Usage, NoAction,
        Promise!ShowUsage, Promise!Usage, Promise!NotStarted, Promise!atomicVars

LEMMA QueryIsStartQuery ==
    ASSUME NEW w \in Workers, RunQuery(w)
    PROVE  Promise!StartQuery(w)
<1>1. PICK argv \in Argvs : /\ parseArguments(argv) # helpAction
                            /\ ~ isCommand(parseArguments(argv))
                            /\ begin(w, parseArguments(argv))
  BY DEF RunQuery
<1> DEFINE act == parseArguments(argv)
<1>2. act \in CliAction
  BY <1>1, ParsedArguments
<1>3. act \in Promise!Query
  BY <1>1, <1>2 DEF CliAction, isCommand, Promise!Query
<1> HIDE DEF act
<1>4. UNCHANGED <<heldOnFile, fileIsLost, underWay>>
  BY HeldUntouched DEF RunQuery, underWay
<1>5. Promise!start(w, act)
  BY <1>1, <1>4 DEF begin, act, NoAction, Silence,
     Promise!start, Promise!NotStarted, Promise!Silence
<1> QED BY <1>3, <1>4, <1>5 DEF RunQuery, NoOutcome, Promise!StartQuery, Promise!NoAnswer

LEMMA CommandIsStartCommand ==
    ASSUME OneCommandAtATime, IInv, CInv, NEW w \in Workers, RunCommand(w)
    PROVE  Promise!StartCommand(w)
<1>1. PICK argv \in Argvs : /\ isCommand(parseArguments(argv))
                            /\ begin(w, parseArguments(argv))
                            /\ Request(w)
                            /\ command'[w] = parseArguments(argv).command
  BY DEF RunCommand
<1> DEFINE act == parseArguments(argv)
<1>2. act \in CliAction
  BY <1>1, ParsedArguments, NotCommands
<1>3. PICK c \in Command : command' = [command EXCEPT ![w] = c]
  BY <1>1 DEF Request
<1>4. act.command = c
  BY <1>1, <1>3 DEF IInv, TypeOK
<1>5. \A v \in Workers : pc[v] = "idle"
  BY DEF RunCommand
<1>6. act = Promise!runFor(c)
  <2>1. act.tag \in {"Command", "ToggleBookmark"}
    BY <1>1 DEF isCommand
  <2> HIDE DEF act
  <2>2. CASE act.tag = "Command"
    <3>1. c \in CounterCommand /\ act = [tag |-> "Command", command |-> c]
      BY <1>2, <1>4, <2>2 DEF CliAction
    <3>2. sliceOf(c) = "counter"
      BY <3>1 DEF CounterCommand, sliceOf
    <3> QED BY <3>1, <3>2, PromiseKnows DEF Promise!runFor
  <2>3. CASE act.tag = "ToggleBookmark"
    <3>1. c \in UserCommand /\ act = [tag |-> "ToggleBookmark", command |-> c]
      BY <1>2, <1>4, <2>3 DEF CliAction
    <3>2. sliceOf(c) # "counter"
      BY <3>1 DEF UserCommand, UserCommandTags, CounterCommandTags, sliceOf
    <3> QED BY <3>1, <3>2, PromiseKnows DEF Promise!runFor
  <2> QED BY <2>1, <2>2, <2>3
<1> HIDE DEF act
<1>7. underWay' = [underWay EXCEPT ![w] = c]
  BY <1>1, <1>3 DEF IInv, TypeOK, Request, underWay
<1>8. underWay'[w] = c
  BY <1>7 DEF underWay
<1>9. heldOnFile' = heldOnFile /\ fileIsLost' = fileIsLost
  <2>1. file' = file /\ \A v \in Workers : pc[v] # "filling" /\ pc'[v] # "filling"
    BY <1>1, <1>5 DEF Request, IInv, TypeOK
  <2> QED BY <2>1, HeldStays DEF isFilled
<1>10. Promise!start(w, Promise!runFor(underWay'[w]))
  BY <1>1, <1>6, <1>8, <1>9 DEF begin, act, NoAction, Silence,
     Promise!start, Promise!NotStarted, Promise!Silence
<1>11. Promise!Submit(w)
  BY <1>1, <1>5, <1>7, <1>9, NothingUnderWay, PromiseKnows
     DEF Request, NoOutcome, Promise!Submit, Promise!NoAnswer
<1> QED BY <1>5, <1>10, <1>11, NothingUnderWay DEF Promise!StartCommand
-----------------------------------------------------------------------------
(***************************************************************************)
(* Then those of a command under way.                                      *)
(***************************************************************************)

\* What is asked of a worker at work, and the aggregate held that it is asked about.
LEMMA WorkerAtWork ==
    ASSUME IInv, NEW w \in Workers, pc[w] # "idle"
    PROVE  /\ underWay[w] = command[w] /\ underWay[w] # Promise!NoCommand
           /\ Promise!streamOf(underWay[w]) = <<slice(w), id(w)>>
           /\ <<slice(w), id(w)>> \in ({"counter"} \X CounterIds) \cup ({"user"} \X UserIds)
           /\ heldOnFile[<<slice(w), id(w)>>] = load(slice(w), logHeld, id(w))
           /\ Promise!decisionOn(w) = decide(command[w], load(slice(w), logHeld, id(w)).state)
<1>1. command[w] \in Command /\ underWay[w] = command[w] /\ underWay[w] # Promise!NoCommand
  BY WorkerType, SomethingUnderWay DEF IInv
<1>2. Promise!streamOf(underWay[w]) = <<slice(w), id(w)>>
  BY <1>1, PromiseKnows DEF slice, id
<1>3. <<slice(w), id(w)>> \in ({"counter"} \X CounterIds) \cup ({"user"} \X UserIds)
  BY <1>1 DEF slice, id, sliceOf, Command, CounterCommand, UserCommand,
       CounterCommandTags, UserCommandTags
<1>4. heldOnFile[<<slice(w), id(w)>>] = load(slice(w), logHeld, id(w))
  <2>1. <<slice(w), id(w)>>[1] = slice(w) /\ <<slice(w), id(w)>>[2] = id(w)
    OBVIOUS
  <2> HIDE DEF slice, id
  <2> QED BY <1>3, <2>1 DEF heldOnFile
<1>5. Promise!decisionOn(w) = decide(command[w], load(slice(w), logHeld, id(w)).state)
  BY <1>1, <1>2, <1>4, PromiseDecides DEF Promise!decisionOn
<1> QED BY <1>1, <1>2, <1>3, <1>4, <1>5

LEMMA CommandEnds ==
    ASSUME IInv, NEW w \in Workers, pc' = [pc EXCEPT ![w] = "idle"], command' = command
    PROVE  underWay' = [underWay EXCEPT ![w] = Promise!NoCommand]
BY DEF IInv, TypeOK, underWay, NoCommand, Promise!NoCommand

LEMMA CommandGoesOn ==
    ASSUME IInv, NEW w \in Workers, pc[w] # "idle", pc'[w] # "idle",
           pc' = [pc EXCEPT ![w] = pc'[w]], command' = command
    PROVE  underWay' = underWay
BY DEF IInv, TypeOK, underWay

\* While a worker reads nobody fills the file, for it is the only one at work.
LEMMA NobodyFills ==
    ASSUME IInv, TInv, NEW w \in Workers, pc[w] # "idle", pc[w] # "filling",
           pc' = [pc EXCEPT ![w] = pc'[w]], pc'[w] # "filling"
    PROVE  ~ isFilled /\ ~ isFilled'
<1>1. \A v \in Workers : v # w => pc[v] = "idle" /\ pc'[v] = "idle"
  BY AloneBusy DEF IInv, TypeOK
<1> QED BY <1>1 DEF isFilled

LEMMA RejectionIsDecided ==
    ASSUME IInv, TInv, RInv, NEW w \in Workers, LoadAndReject(w), UNCHANGED <<action, printed>>
    PROVE  Promise!Decide(w)
<1>1. PICK log \in readJsonFileRecords :
         LET decision == decide(command[w], load(slice(w), log, id(w)).state)
         IN  /\ isFailure(decision)
             /\ finish(w, [tag |-> "Rejected", rejection |-> decision.rejection])
  BY DEF LoadAndReject
<1>2. pc[w] = "requested" /\ pc' = [pc EXCEPT ![w] = "idle"] /\ pc'[w] = "idle"
  BY <1>1 DEF LoadAndReject, finish, IInv, TypeOK
<1>3. heldOnFile' = heldOnFile /\ fileIsLost' = fileIsLost
  BY <1>2, NobodyFills, HeldStays DEF LoadAndReject
<1>4. logHeld = log /\ ~ fileIsLost
  BY HeldIsRead
<1>5. underWay' = [underWay EXCEPT ![w] = Promise!NoCommand]
  BY <1>2, CommandEnds DEF LoadAndReject
<1>6. Promise!Reject(w)
  BY <1>1, <1>2, <1>3, <1>4, <1>5, WorkerAtWork, PromiseJudges
     DEF finish, Promise!Reject, Promise!reply
<1> QED BY <1>3, <1>4, <1>6 DEF Promise!Decide

LEMMA ReadingIsInternal ==
    ASSUME IInv, TInv, NEW w \in Workers, LoadAndAccept(w) \/ CheckVersion(w),
           UNCHANGED <<action, printed>>
    PROVE  UNCHANGED Promise!promiseVars
<1>1. /\ pc[w] \in {"requested", "saving"} /\ pc'[w] \in {"saving", "writing"}
      /\ pc' = [pc EXCEPT ![w] = pc'[w]]
      /\ UNCHANGED <<file, command, outcome>>
  BY DEF LoadAndAccept, CheckVersion, IInv, TypeOK
<1>2. heldOnFile' = heldOnFile /\ fileIsLost' = fileIsLost
  BY <1>1, NobodyFills, HeldStays
<1>3. underWay' = underWay
  BY <1>1, CommandGoesOn
<1> QED BY <1>1, <1>2, <1>3 DEF Promise!promiseVars, Promise!atomicVars

\* A version conflict is met only where the two slices share an identity.
LEMMA ConflictIsRefused ==
    ASSUME IInv, TInv, RInv, NEW w \in Workers, Conflict(w), UNCHANGED <<action, printed>>
    PROVE  Promise!Decide(w)
<1> DEFINE c == command[w]
           s == sliceOf(c)
<1>1. PICK log \in readJsonFileRecords :
         aggregateVersionInRecords(log, id(w)) # expectedVersion(aggregate[w])
  BY DEF Conflict
<1>2. pc[w] = "saving" /\ pc' = [pc EXCEPT ![w] = "idle"] /\ pc'[w] = "idle"
  BY DEF Conflict, finish, IInv, TypeOK
<1>3. heldOnFile' = heldOnFile /\ fileIsLost' = fileIsLost
  BY <1>2, NobodyFills, HeldStays DEF Conflict
<1>4. ~ fileIsLost
  BY HeldIsRead
<1>5. underWay' = [underWay EXCEPT ![w] = Promise!NoCommand]
  BY <1>2, CommandEnds DEF Conflict
<1>6. c \in Command /\ s \in Slices
  BY <1>2, WorkerType DEF IInv, slice
<1>7. c.id \in CounterIds \cap UserIds
  <2> DEFINE loaded == load(s, log, c.id)
  <2>1. decidedOn(c, aggregate[w], log)
    BY <1>2, OneReading DEF TInv, turnOf
  <2>2. loaded \in Replayed(s)
    BY <1>6, ReadType, AnyLoadType
  <2>3. /\ ~ isFailure(decide(c, loaded.state))
        /\ aggregate[w] = recordEvent(s, loaded, decide(c, loaded.state).event)
    BY <2>1 DEF decidedOn
  <2>4. expectedVersion(aggregate[w]) = loaded.version
    <3> HIDE DEF loaded
    <3> QED BY <1>6, <2>2, <2>3, RecordEventType
  <2>5. c.id \notin ownIds(s)
    BY <1>1, <1>6, <2>4, ReadOwnVersions DEF ownVersions, id
  <2>6. c.id \in IF s = "counter" THEN CounterIds ELSE UserIds
    BY <1>6 DEF sliceOf, Command, CounterCommand, UserCommand,
       CounterCommandTags, UserCommandTags
  <2> QED BY <2>5, <2>6 DEF ownIds
<1>8. Promise!Refuse(w)
  BY <1>2, <1>3, <1>5, WorkerAtWork DEF Conflict, finish, Promise!Refuse, Promise!reply
<1>9. underWay[w].id = c.id
  BY <1>2, WorkerAtWork
<1> QED BY <1>3, <1>4, <1>7, <1>8, <1>9 DEF Promise!Decide

\* Emptying the file is not seen: the log that was read is still to be written.
LEMMA EmptyingIsInternal ==
    ASSUME IInv, TInv, RInv, NEW w \in Workers, Truncate(w), UNCHANGED <<action, printed>>
    PROVE  UNCHANGED Promise!promiseVars
<1>1. /\ pc[w] = "writing" /\ pc' = [pc EXCEPT ![w] = "filling"] /\ pc'[w] = "filling"
      /\ file' = Torn /\ UNCHANGED <<command, contents, outcome>>
  BY DEF Truncate, IInv, TypeOK
<1>2. PICK log \in readJsonFileRecords : written(command[w], aggregate[w], log, contents[w])
  BY <1>1 DEF RInv, writes
<1>3. logHeld = log /\ ~ fileIsLost
  BY HeldIsRead
<1>4. Front(contents[w]) = log
  <2>1. command[w] \in Command
    BY <1>1, WorkerType DEF IInv
  <2> QED BY <1>2, <2>1, ReadType, WrittenIsLog
<1>5. logHeld' = log /\ ~ fileIsLost'
  <2>1. \A v \in Workers : v # w => pc'[v] = "idle"
    BY <1>1, AloneBusy DEF IInv, TypeOK
  <2>2. (CHOOSE v \in Workers : pc'[v] = "filling") = w
    BY <1>1, <2>1
  <2>3. ~ isStored' /\ isFilled'
    BY <1>1 DEF isStored, isFilled, Torn
  <2> QED BY <1>1, <1>4, <2>2, <2>3 DEF logHeld, fileIsLost
<1>6. heldOnFile' = heldOnFile /\ fileIsLost' = fileIsLost
  BY <1>3, <1>5 DEF heldOnFile, fileIsLost
<1>7. underWay' = underWay
  BY <1>1, CommandGoesOn
<1> QED BY <1>1, <1>6, <1>7 DEF Promise!promiseVars, Promise!atomicVars
\* The write that completes carries the command out, on the aggregate as it is held.
LEMMA FillingCarriesOut ==
    ASSUME IInv, TInv, RInv, NEW w \in Workers, Fill(w), UNCHANGED <<action, printed>>
    PROVE  Promise!Decide(w)
<1>1. /\ pc[w] = "filling" /\ pc' = [pc EXCEPT ![w] = "idle"] /\ command' = command
      /\ file' = stored(contents[w])
  BY DEF Fill, TInv, turnOf
<1>2. command[w] \in Command /\ slice(w) \in Slices /\ slice(w) = sliceOf(command[w])
  BY <1>1, WorkerType DEF IInv, slice
<1>3. PICK log \in Logs : written(command[w], aggregate[w], log, contents[w])
  BY <1>1 DEF RInv, writes
<1>4. logHeld = log /\ ~ fileIsLost
  BY <1>1, <1>2, <1>3, HeldWhileFilled, WrittenIsLog
<1> DEFINE loaded == load(slice(w), log, id(w))
           stream == <<slice(w), id(w)>>
<1>5. PICK r \in StoredEvent(Ids, DomainEvent) :
         /\ contents[w] = Append(log, r)
         /\ r.aggregateId = id(w)
         /\ r.eventStoreSequenceNumber = Len(log) + 1
         /\ decide(command[w], loaded.state) = accept(r.event)
         /\ decidedOn(command[w], aggregate[w], log)
  BY <1>3, Zenon DEF written, slice, id
<1> DEFINE after == replayEvent(slice(w), loaded, r.event)
<1>6. ~ isFailure(decide(command[w], loaded.state)) /\ decide(command[w], loaded.state).event = r.event
  BY <1>5 DEF accept, isFailure
<1>7. \A s \in Slices : belongsToSlice(s, r.event) <=> s = slice(w)
  BY <1>2, <1>6, DecisionType
<1>8. heldOnFile' = [heldOnFile EXCEPT ![stream] = after]
  <2>1. heldIn(Append(log, r)) = [heldIn(log) EXCEPT ![stream] = after]
    BY <1>2, <1>5, <1>7, HeldAfterStored
  <2>2. logHeld' = Append(log, r)
    BY <1>1, <1>5 DEF logHeld, isStored, stored
  <2> QED BY <1>4, <2>1, <2>2 DEF heldIn, heldOnFile
<1>9. fileIsLost' = fileIsLost
  <2>1. ~ fileIsLost'
    BY <1>1 DEF fileIsLost, stored, Torn
  <2> QED BY <1>4, <2>1 DEF fileIsLost
<1>10. underWay' = [underWay EXCEPT ![w] = Promise!NoCommand]
  BY <1>1, CommandEnds
<1>11. receiptOf(slice(w), aggregate[w]) = receiptOf(slice(w), after)
  <2>1. aggregate[w] = recordEvent(slice(w), loaded, r.event)
    BY <1>5, <1>6 DEF decidedOn, slice, id
  <2>2. loaded \in Replayed(slice(w))
    BY <1>2, AnyLoadType
  <2>3. aggregate[w].state = after.state /\ aggregate[w].version = after.version
    <3> HIDE DEF loaded
    <3> QED BY <2>1, <2>2 DEF recordEvent, replayEvent, Replayed
  <2> QED BY <2>3, ReceiptReadsState
<1>12. /\ Promise!streamOf(underWay[w]) = stream /\ stream[1] = slice(w)
       /\ heldOnFile[stream] = loaded
       /\ underWay[w] # Promise!NoCommand
       /\ Promise!decisionOn(w) = decide(command[w], loaded.state)
  BY <1>1, <1>4, WorkerAtWork
<1> HIDE DEF loaded, stream
<1>13. /\ Promise!replayEvent(slice(w), loaded, Promise!decisionOn(w).event) = after
       /\ ~ Promise!isFailure(Promise!decisionOn(w))
  BY <1>6, <1>12, PromiseReplays, PromiseJudges
<1> HIDE DEF after
<1>14. outcome' = [outcome EXCEPT ![w] = [tag |-> "Receipt",
                                          receipt |-> Promise!receiptOf(slice(w), after)]]
  BY <1>11, PromiseShows DEF Fill
<1>15. Promise!CarryOut(w)
  BY <1>8, <1>10, <1>12, <1>13, <1>14 DEF Promise!CarryOut, Promise!reply
<1> QED BY <1>4, <1>9, <1>15 DEF Promise!Decide

\* A worker that stops short of storing anything leaves what is held, or loses it.
LEMMA StoppingKeepsOrLoses ==
    ASSUME IInv, TInv, RInv, NEW w \in Workers, NEW answer, finish(w, answer), pc[w] # "idle",
           file' = file, command' = command
    PROVE  Promise!keptOrLost /\ underWay' = [underWay EXCEPT ![w] = Promise!NoCommand]
<1>1. pc' = [pc EXCEPT ![w] = "idle"] /\ pc'[w] = "idle"
  BY DEF finish, IInv, TypeOK
<1>2. underWay' = [underWay EXCEPT ![w] = Promise!NoCommand]
  BY <1>1, CommandEnds
<1>3. CASE pc[w] # "filling"
  <2>1. ~ isFilled /\ ~ isFilled'
    BY <1>1, <1>3, NobodyFills
  <2>2. UNCHANGED <<heldOnFile, fileIsLost>>
    BY <2>1, HeldStays
  <2> QED BY <1>2, <2>2 DEF Promise!keptOrLost
<1>4. CASE pc[w] = "filling"
  <2>1. file' = Torn /\ \A v \in Workers : pc'[v] = "idle"
    BY <1>1, <1>4, HeldWhileFilled, AloneBusy DEF IInv, TypeOK
  <2>2. fileIsLost'
    BY <2>1 DEF fileIsLost, isFilled
  <2> QED BY <1>2, <2>2, LostHoldsNothing DEF Promise!keptOrLost
<1> QED BY <1>2, <1>3, <1>4

\* Only a torn file cannot be read.
LEMMA ReadableUnlessTorn == ASSUME IInv, file # Torn PROVE readJsonFileRecords # {}
<1>1. file.tag \in {"Absent", "Stored"}
  BY DEF IInv, TypeOK, Absent
<1>2. file.tag = "Absent" => <<>> \in readJsonFileRecords
  BY DEF readJsonFileRecords
<1>3. file.tag = "Stored" => file.records \in readJsonFileRecords
  BY DEF readJsonFileRecords
<1> QED BY <1>1, <1>2, <1>3

LEMMA FailureIsFail ==
    ASSUME IInv, TInv, RInv, NEW w \in Workers, ReadFails(w) \/ WriteFails(w),
           UNCHANGED <<action, printed>>
    PROVE  Promise!Fail(w)
<1>1. /\ finish(w, [tag |-> "EventStorePersistenceFailure"]) /\ command' = command
      /\ pc[w] # "idle"
  BY DEF ReadFails, WriteFails
<1>2. file' = file
  BY DEF ReadFails, WriteFails, abandonWrite, TInv, turnOf
<1>3. Faults
  <2>1. CASE ReadFails(w)
    <3>1. pc[w] # "filling" /\ \A v \in Workers : v # w => pc[v] = "idle"
      BY <1>1, <2>1, AloneBusy DEF ReadFails
    <3>2. ~ isFilled
      BY <3>1 DEF isFilled
    <3> QED BY <2>1, <3>2, ReadableUnlessTorn DEF ReadFails, isFilled, RInv
  <2> QED BY <2>1 DEF WriteFails
<1>4. Promise!keptOrLost /\ underWay' = [underWay EXCEPT ![w] = Promise!NoCommand]
  BY <1>1, <1>2, StoppingKeepsOrLoses
<1> QED BY <1>1, <1>3, <1>4, WorkerAtWork DEF finish, Promise!Fail, Promise!reply
-----------------------------------------------------------------------------
(***************************************************************************)
(* Then those that end a process.                                          *)
(***************************************************************************)
LEMMA CommandsHaveCommands ==
    \A run : Promise!hasCommand(run) <=> isCommand(run)
BY DEF Promise!hasCommand, isCommand

LEMMA NothingMoves ==
    ASSUME UNCHANGED vars
    PROVE  UNCHANGED <<Promise!atomicVars, fileIsLost>>
<1>1. UNCHANGED <<heldOnFile, fileIsLost>>
  BY HeldUntouched DEF vars
<1> QED BY <1>1 DEF vars, underWay, Promise!atomicVars

LEMMA EndIsEnd ==
    ASSUME NEW w \in Workers, action[w] # NoAction, NEW text, end(w, text)
    PROVE  Promise!end(w, text)
BY DEF end, NoAction, Promise!end, Promise!NotStarted

(***************************************************************************)
(* A list is made of the events of the log, grouped by what they say; it   *)
(* shows the aggregates held all the same.                                 *)
(***************************************************************************)
LEMMA ListsShowWhatIsHeld ==
    ASSUME IInv, TInv, RInv, NEW log \in readJsonFileRecords, NEW act \in CliAction
    PROVE  listing(act, log) = Promise!listHeld(act)
<1>1. log \in Logs /\ legalLog(log) /\ numberedLog(log)
  BY ReadType, ReadIsSound DEF sound, orderlyLog, orderlyAt, numberedLog
<1>2. heldOnFile = [s \in ({"counter"} \X CounterIds) \cup ({"user"} \X UserIds) |->
                       load(s[1], log, s[2])]
  BY HeldIsRead DEF heldOnFile
<1>3. ListCounters(log) = Promise!countersHeld
  <2>1. ASSUME NEW c \in CounterIds
        PROVE  Promise!counterSummaryOf(heldOnFile[<<"counter", c>>])
                  = counterSummaryOf(load("counter", log, c))
    BY <1>2, PromiseShows
  <2>2. ListCounters(log) = UNION {counterSummaryOf(load("counter", log, x)) : x \in CounterIds}
    BY <1>1, ListShowsCounters
  <2> QED BY <2>1, <2>2 DEF Promise!countersHeld
<1>4. ASSUME NEW u \in UserIds PROVE ListArticles(log, u) = Promise!articlesHeld(u)
  <2>1. ASSUME NEW a \in Catalog
        PROVE  ListArticles(log, u)[a] = Promise!articlesHeld(u)[a]
    <3>1. heldOnFile[<<"user", u>>] = load("user", log, u)
      BY <1>2
    <3>2. Promise!bookmarkedArticleIds(heldOnFile[<<"user", u>>].state)
             = bookmarkedArticleIds(load("user", log, u).state)
      BY <3>1, PromiseShows
    <3>3. ListArticles(log, u)[a] = (a \in bookmarkedArticleIds(load("user", log, u).state))
      BY <1>1, UsersAtHome, ListShowsBookmarks
    <3> QED BY <3>2, <3>3, Zenon DEF Promise!articlesHeld
  <2>2. /\ ListArticles(log, u) = [a \in Catalog |-> ListArticles(log, u)[a]]
        /\ Promise!articlesHeld(u) = [a \in Catalog |-> Promise!articlesHeld(u)[a]]
    BY Zenon DEF ListArticles, Promise!articlesHeld
  <2> QED BY <2>1, <2>2, Zenon
<1>5. CASE act.tag \in {"List", "Command"}
  BY <1>3, <1>5 DEF listing, Promise!listHeld
<1>6. CASE act.tag = "ListArticles"
  <2>1. act.userId \in UserIds
    BY <1>6 DEF CliAction
  <2> QED BY <1>4, <1>6, <2>1 DEF listing, Promise!listHeld
<1>7. CASE act.tag = "ToggleBookmark"
  <2>1. act.command.id \in UserIds
    BY <1>7 DEF CliAction, UserCommand
  <2> QED BY <1>4, <1>7, <2>1 DEF listing, Promise!listHeld
<1> QED BY <1>5, <1>6, <1>7 DEF CliAction

LEMMA PrintingIsShow ==
    ASSUME IInv, TInv, CInv, RInv, NEW w \in Workers, PrintLines(w)
    PROVE  Promise!Show(w)
<1>1. PICK log \in readJsonFileRecords : end(w, lines(action[w], outcome[w], log))
  BY DEF PrintLines
<1>2. action[w] # NoAction /\ pc[w] = "idle" /\ (isCommand(action[w]) => outcome[w].tag = "Receipt")
  BY DEF PrintLines, mayList
<1>3. action[w] \in CliAction
  BY <1>2 DEF CInv
<1>4. lines(action[w], outcome[w], log) =
         [tag |-> "Lines", action |-> action[w], answer |-> outcome[w],
          list |-> Promise!listHeld(action[w])]
  BY <1>3, ListsShowWhatIsHeld DEF lines
<1>5. UNCHANGED <<Promise!atomicVars, fileIsLost>>
  BY NothingMoves DEF PrintLines
<1> QED BY <1>1, <1>2, <1>4, <1>5, EndIsEnd, HeldIsRead, NothingUnderWay, CommandsHaveCommands
        DEF Promise!Show

LEMMA FailedRunIsShowFailure ==
    ASSUME IInv, TInv, RInv, NEW w \in Workers, ListingFails(w) \/ CommandFailed(w)
    PROVE  Promise!ShowFailure(w)
<1>1. action[w] # NoAction /\ pc[w] = "idle" /\ end(w, Failure) /\ UNCHANGED vars
  BY DEF ListingFails, CommandFailed, mayList
<1>2. underWay[w] = Promise!NoCommand /\ Promise!end(w, Promise!Failure)
  BY <1>1, NothingUnderWay, EndIsEnd DEF Failure, Promise!Failure
<1>3. \/ Promise!hasCommand(action[w]) /\ outcome[w].tag # "Receipt"
      \/ Faults
      \/ \E g \in Workers : underWay[g] # Promise!NoCommand
  <2>1. CASE CommandFailed(w)
    BY <2>1, CommandsHaveCommands DEF CommandFailed
  <2>2. CASE ListingFails(w)
    <3>1. Faults \/ isFilled
      BY <2>2, ReadableUnlessTorn DEF ListingFails, isFilled, RInv
    <3> QED BY <3>1, SomethingUnderWay DEF isFilled
  <2> QED BY <2>1, <2>2
<1> QED BY <1>1, <1>2, <1>3, NothingMoves DEF Promise!ShowFailure

LEMMA DyingIsDie ==
    ASSUME IInv, TInv, RInv, NEW w \in Workers, Die(w)
    PROVE  Promise!Die(w)
<1>1. action[w] # NoAction /\ Faults /\ end(w, Silence)
  BY DEF Die
<1>2. Promise!end(w, Promise!Silence)
  BY <1>1, EndIsEnd DEF Silence, Promise!Silence
<1>3. CASE pc[w] = "idle" /\ UNCHANGED vars
  BY <1>1, <1>2, <1>3, NothingUnderWay, NothingMoves DEF Promise!Die
<1>4. CASE Crash(w)
  <2>1. pc[w] # "idle" /\ finish(w, NoOutcome) /\ command' = command
    BY <1>4 DEF Crash
  <2>2. file' = file
    BY <1>4 DEF Crash, abandonWrite, TInv, turnOf
  <2>3. Promise!keptOrLost /\ underWay' = [underWay EXCEPT ![w] = Promise!NoCommand]
    BY <2>1, <2>2, StoppingKeepsOrLoses
  <2>4. Promise!reply(w, Promise!NoAnswer)
    BY <2>1, <2>3 DEF finish, NoOutcome, Promise!reply, Promise!NoAnswer
  <2> QED BY <1>1, <1>2, <2>1, <2>3, <2>4, SomethingUnderWay DEF Promise!Die
<1> QED BY <1>3, <1>4 DEF Die

-----------------------------------------------------------------------------
LEMMA PromisedInitially == InitCli => Promise!InitPromise
<1> SUFFICES ASSUME InitCli PROVE Promise!InitPromise
  OBVIOUS
<1>1. /\ file = Absent /\ outcome = [w \in Workers |-> NoOutcome]
      /\ action = [w \in Workers |-> NoAction] /\ printed = [w \in Workers |-> Silence]
      /\ \A w \in Workers : pc[w] = "idle"
  BY DEF InitCli, Init
<1>2. logHeld = <<>> /\ fileIsLost = FALSE
  BY <1>1 DEF logHeld, isStored, isFilled, fileIsLost, Absent, Torn
<1>3. ASSUME NEW s \in ({"counter"} \X CounterIds) \cup ({"user"} \X UserIds)
      PROVE  load(s[1], logHeld, s[2]) = Promise!makeAggregate(s[1])
  <2>1. load(s[1], <<>>, s[2]) = makeAggregate(s[1])
    BY EmptyLoad
  <2> QED BY <1>2, <2>1, PromiseBegins
<1>4. heldOnFile = [s \in Promise!streams |-> Promise!makeAggregate(s[1])]
  BY <1>3, PromiseKnows DEF heldOnFile
<1>5. underWay = [w \in Workers |-> Promise!NoCommand]
  BY <1>1 DEF underWay, NoCommand, Promise!NoCommand
<1> QED BY <1>1, <1>2, <1>4, <1>5 DEF NoOutcome, NoAction, Silence, Promise!InitPromise,
        Promise!InitAtomic, Promise!NoAnswer, Promise!NotStarted, Promise!Silence

\* Handling a command is deciding it, failing, or nothing that anybody sees.
LEMMA SendingIsPromised ==
    ASSUME IInv, TInv, RInv, NEW w \in Workers, Send(w)
    PROVE  Promise!Decide(w) \/ Promise!Fail(w) \/ UNCHANGED Promise!promiseVars
<1>1. Handle(w) /\ UNCHANGED <<action, printed>>
  BY DEF Send
<1>2. CASE LoadAndReject(w)
  BY <1>1, <1>2, RejectionIsDecided
<1>3. CASE LoadAndAccept(w) \/ CheckVersion(w)
  BY <1>1, <1>3, ReadingIsInternal
<1>4. CASE Conflict(w)
  BY <1>1, <1>4, ConflictIsRefused
<1>5. CASE Truncate(w)
  BY <1>1, <1>5, EmptyingIsInternal
<1>6. CASE Fill(w)
  BY <1>1, <1>6, FillingCarriesOut
<1>7. CASE ReadFails(w) \/ WriteFails(w)
  BY <1>1, <1>7, FailureIsFail
<1> QED BY <1>1, <1>2, <1>3, <1>4, <1>5, <1>6, <1>7 DEF Handle

LEMMA EveryStepIsPromised ==
    ASSUME OneCommandAtATime, IInv, TInv, CInv, RInv, [NextCli]_allVars
    PROVE  Promise!NextPromise \/ UNCHANGED Promise!promiseVars
<1>1. CASE NextCli
  <2>1. PICK w \in Workers :
           RunHelp(w) \/ RunQuery(w) \/ RunCommand(w) \/ Proceed(w) \/ Die(w)
    BY <1>1 DEF NextCli
  <2>2. CASE RunHelp(w)
    BY <2>2, HelpIsShowUsage DEF Promise!NextPromise
  <2>3. CASE RunQuery(w)
    BY <2>3, QueryIsStartQuery DEF Promise!NextPromise
  <2>4. CASE RunCommand(w)
    BY <2>4, CommandIsStartCommand DEF Promise!NextPromise
  <2>5. CASE Send(w)
    BY <2>5, SendingIsPromised DEF Promise!NextPromise
  <2>6. CASE PrintLines(w)
    BY <2>6, PrintingIsShow DEF Promise!NextPromise
  <2>7. CASE ListingFails(w) \/ CommandFailed(w)
    BY <2>7, FailedRunIsShowFailure DEF Promise!NextPromise
  <2>8. CASE Die(w)
    BY <2>8, DyingIsDie DEF Promise!NextPromise
  <2> QED BY <2>1, <2>2, <2>3, <2>4, <2>5, <2>6, <2>7, <2>8 DEF Proceed
<1>2. CASE UNCHANGED allVars
  <2>1. UNCHANGED <<Promise!atomicVars, fileIsLost>>
    BY <1>2, NothingMoves DEF allVars
  <2> QED BY <1>2, <2>1 DEF allVars, cliVars, Promise!promiseVars
<1> QED BY <1>1, <1>2

(***************************************************************************)
(* However reads and writes fail and processes die over the one file, the  *)
(* command line implements AtomicCli, as long as commands are typed one    *)
(* after the other: a command is carried out at the instant its write      *)
(* completes, on the aggregate as it is then, or not at all; a conflict is *)
(* answered only for an identity both slices use; and every list shows the *)
(* aggregates as they are at the instant it is read.                       *)
(***************************************************************************)
THEOREM CommandLineKeepsItsWord == OneCommandAtATime => (SpecCli => CliKeepsItsWord)
<1> SUFFICES ASSUME OneCommandAtATime PROVE SpecCli => CliKeepsItsWord
  OBVIOUS
<1>1. IInv /\ CInv /\ [NextCli]_allVars => CInv'
  BY CliRunStep
<1>2. IInv /\ TInv /\ RInv /\ [NextCli]_allVars => RInv'
  BY WritesKept
<1>3. IInv /\ TInv /\ CInv /\ RInv /\ [NextCli]_allVars
         => [Promise!NextPromise]_Promise!promiseVars
  BY EveryStepIsPromised
<1> QED BY CliInitially, TurnsInvariance, WritesInitially, PromisedInitially, <1>1, <1>2, <1>3, PTL
        DEF SpecCli, CliKeepsItsWord, Promise!SpecPromise
=============================================================================
