------------------------------ MODULE Projector ------------------------------
(***************************************************************************)
(* Projections resumed from a checkpoint: replayProjection of              *)
(* projection.ts over fetchAll of event-store.ts, with the checkpoint in   *)
(* projection-store.ts.  The loop around them is the caller's: it loads a  *)
(* checkpoint, reads on from the event after it, folds, saves, and goes on *)
(* from what save returned; after a failure it loads again.                *)
(*                                                                         *)
(* save is a get and a set of a KeyValueStore.  Another projector can come *)
(* between the two if the store waits, as one over a file or a network     *)
(* does; over a Map, which answers at once, it cannot.                     *)
(***************************************************************************)
EXTENDS EventRecords, SequencesExt

CONSTANTS Projectors,
          KeyValueStores,  \* which of "waits" and "at once" the KeyValueStore may be
          Limit,         \* the limit of one read
          MaxEvents,     \* bound on the events of the log
          MaxFaults      \* bound on failures of the KeyValueStore and deaths of projectors

ASSUME ProjectorAssumption ==
    KeyValueStores \subseteq {"waits", "at once"} /\ Limit \in Nat \ {0} /\ MaxEvents \in Nat /\ MaxFaults \in Nat

VARIABLES records,     \* the log
          keyValueStore,
          stored,      \* the value of the projection's key
          pc,          \* where each projector is
          held,        \* the versioned checkpoint each projector last received
          checkpoint,  \* the checkpoint each projector is about to save
          faults

vars == <<records, keyValueStore, stored, pc, held, checkpoint, faults>>

\* A projection cares about some events and skips the others.
matchesProjection(event) == event.kind = "Selected"

(***************************************************************************)
(* The state lists the events reduced into it: any reducer's is a function *)
(* of it.  Entry n is the state after the first n records of the log, of   *)
(* which those at the positions "kept" are delivered.                      *)
(***************************************************************************)
replayProjection(state, log, kept) ==
    LET after[n \in 0 .. Len(log)] ==
            IF n = 0 THEN state
            ELSE IF n \in kept /\ matchesProjection(log[n].event)
                 THEN Append(after[n - 1], log[n].event)
            ELSE after[n - 1]
    IN  after

initialCheckpoint == [state |-> <<>>, lastEventStoreSequenceNumber |-> 0]

Absent == [tag |-> "Absent"]
Versioned(value, version) == [value |-> value, version |-> version]

loaded == IF stored = Absent THEN Versioned(initialCheckpoint, 0) ELSE stored

\* The place of a position among others, counted from one.
rank(positions, i) == Cardinality({j \in positions : j <= i})

\* Mutant: the limit is ignored when it comes to where the reader got to.
positionsReadPastLimit(log, start, limit) ==
    LET kept == recordsFromSequenceNumber(log, start)
    IN  {i \in kept : rank(kept, i) < limit \/ i = Max(kept)}

\* The positions of the log that fetchAll delivers.
positionsRead(log, start, limit) ==
    LET kept == recordsFromSequenceNumber(log, start)
    IN  {i \in kept : rank(kept, i) <= limit}

Init ==
    /\ records = <<>>
    /\ keyValueStore \in KeyValueStores
    /\ stored = Absent
    /\ pc = [p \in Projectors |-> "idle"]
    /\ held = [p \in Projectors |-> Versioned(initialCheckpoint, 0)]
    /\ checkpoint = [p \in Projectors |-> initialCheckpoint]
    /\ faults = 0

\* A projector runs unless another one is inside save and keeps the processor.
mayRun(p) == keyValueStore = "waits" \/ \A q \in Projectors \ {p} : pc[q] # "saving"

-----------------------------------------------------------------------------
\* Somebody stores one more event.
AppendEvent ==
    /\ Len(records) < MaxEvents
    /\ \E kind \in {"Selected", "Skipped"} :
          LET n == Len(records)
          IN  records' = records \o storedEventsForAppend("stream",
                                      <<[kind |-> kind, number |-> n + 1]>>, n, n)
    /\ UNCHANGED <<keyValueStore, stored, pc, held, checkpoint, faults>>

Load(p) ==
    /\ mayRun(p) /\ pc[p] = "idle"
    /\ held' = [held EXCEPT ![p] = loaded]
    /\ pc' = [pc EXCEPT ![p] = "loaded"]
    /\ UNCHANGED <<keyValueStore, records, stored, checkpoint, faults>>

resumeAt(p) == held[p].value.lastEventStoreSequenceNumber + 1

\* The events after the checkpoint, up to the limit, folded onto its state.
Read(p) ==
    /\ mayRun(p) /\ pc[p] = "loaded"
    /\ LET read == positionsRead(records, resumeAt(p), Limit)
       IN  /\ read # {}
           /\ checkpoint' = [checkpoint EXCEPT ![p] =
                [state |-> replayProjection(held[p].value.state, records, read)[Len(records)],
                 lastEventStoreSequenceNumber |-> records[Max(read)].eventStoreSequenceNumber]]
    /\ pc' = [pc EXCEPT ![p] = "read"]
    /\ UNCHANGED <<keyValueStore, records, stored, held, faults>>

\* Mutant: a stored version that is ahead of the expected one is accepted.
atExpectedVersionOrAhead(p) == loaded.version >= held[p].version

atExpectedVersion(p) == loaded.version = held[p].version

\* save: the get, and the version it finds is the one expected.
Check(p) ==
    /\ mayRun(p) /\ pc[p] = "read"
    /\ atExpectedVersion(p)
    /\ pc' = [pc EXCEPT ![p] = "saving"]
    /\ UNCHANGED <<keyValueStore, records, stored, held, checkpoint, faults>>

\* save: ProjectionStoreVersionConflict; the projector will load again.
Conflict(p) ==
    /\ mayRun(p) /\ pc[p] = "read"
    /\ ~ atExpectedVersion(p)
    /\ pc' = [pc EXCEPT ![p] = "idle"]
    /\ UNCHANGED <<keyValueStore, records, stored, held, checkpoint, faults>>

\* save: the set of the version found plus one, which is returned.
Set(p) ==
    /\ mayRun(p) /\ pc[p] = "saving"
    /\ LET saved == Versioned(checkpoint[p], held[p].version + 1)
       IN  /\ stored' = saved
           /\ held' = [held EXCEPT ![p] = saved]
    /\ pc' = [pc EXCEPT ![p] = "loaded"]
    /\ UNCHANGED <<keyValueStore, records, checkpoint, faults>>

(***************************************************************************)
(* A call of the KeyValueStore fails, or the projector dies and is started *)
(* again.  A set that is reported to have failed may have been done.       *)
(***************************************************************************)
Fault(p) ==
    /\ mayRun(p) /\ pc[p] # "idle"
    /\ faults < MaxFaults
    /\ faults' = faults + 1
    /\ \/ UNCHANGED stored
       \/ pc[p] = "saving" /\ stored' = Versioned(checkpoint[p], held[p].version + 1)
    /\ pc' = [pc EXCEPT ![p] = "idle"]
    /\ UNCHANGED <<keyValueStore, records, held, checkpoint>>

Next ==
    \/ AppendEvent
    \/ \E p \in Projectors :
          Load(p) \/ Read(p) \/ Check(p) \/ Conflict(p) \/ Set(p) \/ Fault(p)

\* A projector that has something to do goes on doing it.
Fairness ==
    \A p \in Projectors :
        WF_vars(Load(p) \/ Read(p) \/ Check(p) \/ Conflict(p) \/ Set(p))

Spec == Init /\ [][Next]_vars /\ Fairness

-----------------------------------------------------------------------------
\* The first n records' positions that the projection cares about.
selectedUpTo(log, n) == {i \in 1 .. n : matchesProjection(log[i].event)}

(***************************************************************************)
(* A stored checkpoint is the projection of exactly the events up to its   *)
(* number, each in its place: whoever wrote it, whatever it was resumed    *)
(* from and wherever the limit or a death cut the reading, no event is     *)
(* missed or applied twice.                                                *)
(***************************************************************************)
CheckpointFaithful ==
    LET last == loaded.value.lastEventStoreSequenceNumber
        state == loaded.value.state
    IN  /\ last <= Len(records)
        /\ Len(state) = Cardinality(selectedUpTo(records, last))
        /\ \A i \in selectedUpTo(records, last) :
              state[Cardinality(selectedUpTo(records, i))] = records[i].event

\* The stored checkpoint is replaced by the successor of it, further on in the log.
Succeeds ==
    /\ loaded'.version = loaded.version + 1
    /\ loaded'.value.lastEventStoreSequenceNumber > loaded.value.lastEventStoreSequenceNumber

(***************************************************************************)
(* Over a KeyValueStore that answers at once, each save that goes through  *)
(* is the successor of the one before it, deaths and failures included:    *)
(* the checkpoint never moves back and no two saves get one version.       *)
(***************************************************************************)
SavesInOrder == [][keyValueStore = "at once" => Succeeds]_stored

(***************************************************************************)
(* The same over any KeyValueStore.  This is what the version that callers *)
(* pass back is for (projection-store.ts:47-48, projection.test.ts:202).   *)
(***************************************************************************)
SavesInOrderOverAny == [][Succeeds]_stored

(***************************************************************************)
(* Once no more events are stored and no more calls fail, the checkpoint   *)
(* gets to the end of the log and stays there, even when racing projectors *)
(* move it back in between.                                                *)
(***************************************************************************)
CatchesUp == <>[](loaded.value.lastEventStoreSequenceNumber = Len(records))
=============================================================================
