----------------------------- MODULE Repository -----------------------------
(***************************************************************************)
(* packages/event-sourcing on its own: callers that hold copies of         *)
(* aggregates (repository.ts) over makeInMemoryEventStore.  Unlike the     *)
(* handlers of the application, a caller may keep a copy for as long as it *)
(* likes, hand it on, record several events before it saves, and save the  *)
(* same copy again.                                                        *)
(*                                                                         *)
(* State and reducer are parameters of the package.  Here the state is the *)
(* list of the events reduced into it, which any other reducer's state is  *)
(* a function of.                                                          *)
(*                                                                         *)
(* append reads the Ref, checks, and updates the Ref: two operations of    *)
(* the caller's fiber.  Effect may run another fiber between them when the *)
(* caller's operation budget runs out just there (Preemptive).             *)
(***************************************************************************)
EXTENDS EventRecords, SequencesExt

CONSTANTS Callers, Repositories, AggregateIds,
          Preemptive,    \* BOOLEAN: whether a fiber may be preempted inside append
          MaxEvents,     \* bound on the events recorded in a behaviour
          MaxPending     \* bound on the pending events of a copy

ASSUME RepositoryAssumption ==
    Preemptive \in BOOLEAN /\ MaxEvents \in Nat /\ MaxPending \in Nat

VARIABLES records,     \* storedEventsRef
          held,        \* the copy each caller holds
          checked,     \* what each caller's append is about to add
          recorded     \* how many events were ever recorded

vars == <<records, held, checked, recorded>>

\* An event is told apart by the order of recording and by who recorded it.
Event == [repository : Repositories, aggregateId : AggregateIds, number : 1 .. MaxEvents]

Nothing == [tag |-> "Nothing"]
Stored(events) == [tag |-> "Stored", records |-> events]
isSaving(c) == checked[c] # Nothing

\* Each repository has a streamName of its own, as two that share a store must.
streamName(r, id) == <<r, id>>

Streams == {streamName(r, id) : r \in Repositories, id \in AggregateIds}

streamOf(copy) == streamName(copy.repository, copy.aggregateId)

\* The events of a stream, entry n those among the first n records of the log.
eventsUpTo(log, stream) ==
    LET kept == recordsForAggregate(log, stream, firstSequenceNumber)
        after[n \in 0 .. Len(log)] ==
            IF n = 0 THEN <<>>
            ELSE IF n \in kept THEN Append(after[n - 1], log[n].event)
            ELSE after[n - 1]
    IN  after

eventsOf(log, stream) == eventsUpTo(log, stream)[Len(log)]

NoCopy == [repository |-> "none", aggregateId |-> "none", state |-> <<>>, version |-> 0,
           pendingEvents |-> <<>>]
holdsCopy(c) == held[c] # NoCopy

expectedVersion(copy) == copy.version - Len(copy.pendingEvents)

Init ==
    /\ records = <<>>
    /\ held = [c \in Callers |-> NoCopy]
    /\ checked = [c \in Callers |-> Nothing]
    /\ recorded = 0

\* A caller runs unless another one is inside append and keeps the processor.
mayRun(c) == Preemptive \/ \A d \in Callers \ {c} : ~ isSaving(d)

-----------------------------------------------------------------------------
\* A copy of an aggregate that is new to the caller, whatever the log holds.
MakeAggregate(c) ==
    /\ mayRun(c) /\ ~ isSaving(c)
    /\ \E r \in Repositories, id \in AggregateIds :
          held' = [held EXCEPT ![c] = [NoCopy EXCEPT !.repository = r, !.aggregateId = id]]
    /\ UNCHANGED <<records, checked, recorded>>

Load(c) ==
    /\ mayRun(c) /\ ~ isSaving(c)
    /\ \E r \in Repositories, id \in AggregateIds :
          LET events == eventsOf(records, streamName(r, id))
          IN  held' = [held EXCEPT ![c] =
                [repository |-> r, aggregateId |-> id, state |-> events,
                 version |-> Len(events), pendingEvents |-> <<>>]]
    /\ UNCHANGED <<records, checked, recorded>>

\* Copies are immutable values: a caller may be handed another one's.
TakeOver(c) ==
    /\ mayRun(c) /\ ~ isSaving(c)
    /\ \E d \in Callers \ {c} : holdsCopy(d) /\ held' = [held EXCEPT ![c] = held[d]]
    /\ UNCHANGED <<records, checked, recorded>>

\* Mutant: the event is reduced into the copy and not queued.
RecordEventUnqueued(c) ==
    /\ mayRun(c) /\ ~ isSaving(c) /\ holdsCopy(c)
    /\ recorded < MaxEvents
    /\ LET event == [repository |-> held[c].repository, aggregateId |-> held[c].aggregateId,
                     number |-> recorded + 1]
       IN  held' = [held EXCEPT ![c].state = Append(@, event), ![c].version = @ + 1]
    /\ recorded' = recorded + 1
    /\ UNCHANGED <<records, checked>>

RecordEvent(c) ==
    /\ mayRun(c) /\ ~ isSaving(c) /\ holdsCopy(c)
    /\ recorded < MaxEvents
    /\ Len(held[c].pendingEvents) < MaxPending
    /\ LET event == [repository |-> held[c].repository, aggregateId |-> held[c].aggregateId,
                     number |-> recorded + 1]
       IN  held' = [held EXCEPT ![c].state = Append(@, event),
                                ![c].version = @ + 1,
                                ![c].pendingEvents = Append(@, event)]
    /\ recorded' = recorded + 1
    /\ UNCHANGED <<records, checked>>

\* Mutant: a stream that is ahead of the copy is not a conflict.
atExpectedVersionOrAhead(c) ==
    aggregateVersionInRecords(records, streamOf(held[c])) >= expectedVersion(held[c])

atExpectedVersion(c) ==
    aggregateVersionInRecords(records, streamOf(held[c])) = expectedVersion(held[c])

\* save calls append, which reads the log and passes the check.
Check(c) ==
    /\ mayRun(c) /\ ~ isSaving(c) /\ holdsCopy(c)
    /\ atExpectedVersion(c)
    /\ checked' = [checked EXCEPT ![c] = Stored(
                     storedEventsForAppend(streamOf(held[c]), held[c].pendingEvents,
                         aggregateVersionInRecords(records, streamOf(held[c])), Len(records)))]
    /\ UNCHANGED <<records, held, recorded>>

\* save fails; the caller still has its copy.
Conflict(c) ==
    /\ mayRun(c) /\ ~ isSaving(c) /\ holdsCopy(c)
    /\ ~ atExpectedVersion(c)
    /\ UNCHANGED vars

\* Mutant: the new events go before the stored ones.
UpdatePrepending(c) ==
    /\ mayRun(c) /\ isSaving(c)
    /\ records' = checked[c].records \o records
    /\ held' \in {held, [held EXCEPT ![c].pendingEvents = <<>>]}
    /\ checked' = [checked EXCEPT ![c] = Nothing]
    /\ UNCHANGED recorded

(***************************************************************************)
(* Ref.update appends to the log as it is now.  The caller goes on with    *)
(* the saved copy save returns, or with the one it had.                    *)
(***************************************************************************)
Update(c) ==
    /\ mayRun(c) /\ isSaving(c)
    /\ records' = records \o checked[c].records
    /\ held' \in {held, [held EXCEPT ![c].pendingEvents = <<>>]}
    /\ checked' = [checked EXCEPT ![c] = Nothing]
    /\ UNCHANGED recorded

Next ==
    \E c \in Callers :
        \/ MakeAggregate(c) \/ Load(c) \/ TakeOver(c) \/ RecordEvent(c)
        \/ Check(c) \/ Conflict(c) \/ Update(c)

Spec == Init /\ [][Next]_vars

-----------------------------------------------------------------------------
(***************************************************************************)
(* Records are numbered without gaps, in the log and in each stream, which *)
(* is the stable order projectors and repositories rely on                 *)
(* (test/e2e/event-store.feature:3-4).                                     *)
(***************************************************************************)
StableOrder ==
    \A i \in DOMAIN records :
        /\ records[i].eventStoreSequenceNumber = i
        /\ records[i].aggregateVersion =
              aggregateVersionInRecords(SubSeq(records, 1, i), records[i].aggregateId)

(***************************************************************************)
(* However long a copy is held and whatever others store meanwhile, it is  *)
(* a past state of its stream with its pending events on top: a save never *)
(* stores an event on facts it did not follow from.                        *)
(***************************************************************************)
CopiesAreHistory ==
    \A c \in Callers : holdsCopy(c) =>
        LET clean == SubSeq(held[c].state, 1, expectedVersion(held[c]))
        IN  /\ held[c].state = clean \o held[c].pendingEvents
            /\ IsPrefix(clean, eventsOf(records, streamOf(held[c])))

(***************************************************************************)
(* No event is stored twice, although a copy may be handed on and saved    *)
(* again by several callers after it has been saved.                       *)
(***************************************************************************)
EventsStoredOnce ==
    \A i, j \in DOMAIN records : records[i].event = records[j].event => i = j

(***************************************************************************)
(* Once a save has gone through, the stream holds exactly what the saved   *)
(* copy says: all of its events, in the order they were recorded.          *)
(***************************************************************************)
SavedIsLoaded ==
    [][\A c \in Callers : isSaving(c) /\ ~ isSaving(c)' =>
          eventsOf(records', streamOf(held[c])) = held[c].state]_vars
=============================================================================
