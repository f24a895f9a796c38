---------------------------- MODULE EventRecords ----------------------------
(***************************************************************************)
(* The pure half of packages/event-sourcing/src/event-store.ts, shared by  *)
(* the in-memory and the JSON-file store.  A log is a sequence of stored   *)
(* events.  A query filters the log and keeps its order, so its result is  *)
(* identified by the set of positions it keeps.                            *)
(***************************************************************************)
EXTENDS Naturals, Sequences, FiniteSets

StoredEvent(ids, events) ==
    [aggregateId : ids, aggregateVersion : Nat, eventStoreSequenceNumber : Nat,
     event : events]

\* Mutant: the version of a stream is the length of the whole log.
aggregateVersionOfLog(records, id) == Len(records)

\* How many events of one stream the log holds, whichever slice wrote them.
aggregateVersionInRecords(records, id) ==
    Cardinality({i \in DOMAIN records : records[i].aggregateId = id})

\* Mutant: the starting sequence number is exclusive.
recordsAfterSequenceNumber(records, start) ==
    {i \in DOMAIN records : records[i].eventStoreSequenceNumber > start}

recordsFromSequenceNumber(records, start) ==
    {i \in DOMAIN records : records[i].eventStoreSequenceNumber >= start}

recordsForAggregate(records, id, start) ==
    {i \in recordsFromSequenceNumber(records, start) : records[i].aggregateId = id}

\* A query without a starting sequence number reads from the first event.
firstSequenceNumber == 1

\* Mutant: the first appended event takes the number of the last stored one.
storedEventsFromLast(id, events, startVersion, startSequenceNumber) ==
    [i \in 1 .. Len(events) |->
        [aggregateId |-> id,
         aggregateVersion |-> startVersion + i,
         eventStoreSequenceNumber |-> startSequenceNumber + i - 1,
         event |-> events[i]]]

storedEventsForAppend(id, events, startVersion, startSequenceNumber) ==
    [i \in 1 .. Len(events) |->
        [aggregateId |-> id,
         aggregateVersion |-> startVersion + i,
         eventStoreSequenceNumber |-> startSequenceNumber + i,
         event |-> events[i]]]
=============================================================================
