--------------------------- MODULE JsonFileStore ---------------------------
(***************************************************************************)
(* The same handlers over makeJsonFileEventStore, the store the CLI and    *)
(* the web server use by default.  The log is one JSON file that several   *)
(* workers share: the request fibers of a server, or processes started     *)
(* one after or beside the other.  Every operation of the store is file    *)
(* I/O, so a worker can be interleaved, fail or die between any two of     *)
(* them, and nothing locks the file.                                       *)
(*                                                                         *)
(* append reads the whole file, checks the version in what it read, and    *)
(* later writes the whole file back: writeFileString truncates it and then *)
(* fills it.  In between the file is Torn.  A torn file is not JSON (a     *)
(* proper prefix of a non-empty JSON array never is), so reading it fails. *)
(* A read is one step: a file found absent counts as an empty log at that  *)
(* instant, and no worker ever removes the file.                           *)
(***************************************************************************)
EXTENDS ReadModels

CONSTANTS Workers,
          MaxCommands,     \* bound on the commands issued in a behaviour
          Faults           \* BOOLEAN: whether I/O may fail and workers may die

ASSUME FileBoundAssumption == MaxCommands \in Nat /\ Faults \in BOOLEAN

VARIABLES file,        \* what is on disk
          pc,          \* where each worker is
          command,     \* the command it handles
          aggregate,   \* the aggregate it decided on, its event pending
          contents,    \* the log it is about to write or is writing
          overlapped,  \* whether its write to the file overlaps another one
          outcome,     \* what its last command was answered
          acked,       \* ghost: the logs whose writers answered with a receipt
          issued

vars == <<file, pc, command, aggregate, contents, overlapped, outcome, acked, issued>>

NoCommand == [tag |-> "None"]
NoOutcome == [tag |-> "None"]
NoAggregate == [version |-> 0, pendingEvents |-> <<>>]

Absent == [tag |-> "Absent"]
Torn == [tag |-> "Torn"]
stored(log) == [tag |-> "Stored", records |-> log]

Init ==
    /\ file = Absent
    /\ pc = [w \in Workers |-> "idle"]
    /\ command = [w \in Workers |-> NoCommand]
    /\ aggregate = [w \in Workers |-> NoAggregate]
    /\ contents = [w \in Workers |-> <<>>]
    /\ overlapped = [w \in Workers |-> FALSE]
    /\ outcome = [w \in Workers |-> NoOutcome]
    /\ acked = {}
    /\ issued = 0

-----------------------------------------------------------------------------
slice(w) == sliceOf(command[w])
id(w) == command[w].id

\* Mutant: a file that does not parse is an empty log.
unreadableIsEmpty ==
    IF file.tag = "Stored" THEN {file.records} ELSE {<<>>}

\* exists, readFileString, parse and decode: the logs a read may return, none if it must fail.
readJsonFileRecords ==
    CASE file.tag = "Absent" -> {<<>>}
      [] file.tag = "Torn" -> {}
      [] file.tag = "Stored" -> {file.records}

\* The worker is done with its command and forgets what it was doing.
finish(w, answer) ==
    /\ pc' = [pc EXCEPT ![w] = "idle"]
    /\ outcome' = [outcome EXCEPT ![w] = answer]
    /\ aggregate' = [aggregate EXCEPT ![w] = NoAggregate]
    /\ contents' = [contents EXCEPT ![w] = <<>>]
    /\ overlapped' = [overlapped EXCEPT ![w] = FALSE]

Request(w) ==
    /\ pc[w] = "idle"
    /\ issued < MaxCommands
    /\ \E c \in Command : command' = [command EXCEPT ![w] = c]
    /\ pc' = [pc EXCEPT ![w] = "requested"]
    /\ outcome' = [outcome EXCEPT ![w] = NoOutcome]
    /\ issued' = issued + 1
    /\ UNCHANGED <<file, aggregate, contents, overlapped, acked>>

LoadAndReject(w) ==
    /\ pc[w] = "requested"
    /\ \E log \in readJsonFileRecords :
          LET decision == decide(command[w], load(slice(w), log, id(w)).state)
          IN  /\ isFailure(decision)
              /\ finish(w, [tag |-> "Rejected", rejection |-> decision.rejection])
    /\ UNCHANGED <<file, command, acked, issued>>

LoadAndAccept(w) ==
    /\ pc[w] = "requested"
    /\ \E log \in readJsonFileRecords :
          LET loaded == load(slice(w), log, id(w))
              decision == decide(command[w], loaded.state)
          IN  /\ ~ isFailure(decision)
              /\ aggregate' = [aggregate EXCEPT ![w] =
                                 recordEvent(slice(w), loaded, decision.event)]
    /\ pc' = [pc EXCEPT ![w] = "saving"]
    /\ UNCHANGED <<file, command, contents, overlapped, outcome, acked, issued>>

\* Mutant: only the new events are written back.
CheckVersionDroppingLog(w) ==
    /\ pc[w] = "saving"
    /\ \E log \in readJsonFileRecords :
          LET actualVersion == aggregateVersionInRecords(log, id(w))
          IN  /\ actualVersion = expectedVersion(aggregate[w])
              /\ contents' = [contents EXCEPT ![w] =
                    storedEventsForAppend(id(w), aggregate[w].pendingEvents,
                                          actualVersion, Len(log))]
    /\ pc' = [pc EXCEPT ![w] = "writing"]
    /\ UNCHANGED <<file, command, aggregate, overlapped, outcome, acked, issued>>

\* append: the version check, on a log read for this purpose.
CheckVersion(w) ==
    /\ pc[w] = "saving"
    /\ \E log \in readJsonFileRecords :
          LET actualVersion == aggregateVersionInRecords(log, id(w))
          IN  /\ actualVersion = expectedVersion(aggregate[w])
              /\ contents' = [contents EXCEPT ![w] =
                    log \o storedEventsForAppend(id(w), aggregate[w].pendingEvents,
                                                 actualVersion, Len(log))]
    /\ pc' = [pc EXCEPT ![w] = "writing"]
    /\ UNCHANGED <<file, command, aggregate, overlapped, outcome, acked, issued>>

Conflict(w) ==
    /\ pc[w] = "saving"
    /\ \E log \in readJsonFileRecords :
          aggregateVersionInRecords(log, id(w)) # expectedVersion(aggregate[w])
    /\ finish(w, [tag |-> "ExpectedVersionConflict"])
    /\ UNCHANGED <<file, command, acked, issued>>

\* Opening the file for writing empties it, under the feet of whoever is filling it.
Truncate(w) ==
    /\ pc[w] = "writing"
    /\ file' = Torn
    /\ pc' = [pc EXCEPT ![w] = "filling"]
    /\ LET filling == {v \in Workers : pc[v] = "filling"}
       IN  overlapped' = [v \in Workers |->
                             overlapped[v] \/ (filling # {} /\ v \in filling \cup {w})]
    /\ UNCHANGED <<command, aggregate, contents, outcome, acked, issued>>

(***************************************************************************)
(* The write completes.  Writes that overlap are each made at their own    *)
(* position in the file: the last may cover the others, or leave the tail  *)
(* of a longer one, or a hole, which makes the file unreadable.            *)
(***************************************************************************)
Fill(w) ==
    /\ pc[w] = "filling"
    /\ \/ file' = stored(contents[w])
       \/ overlapped[w] /\ file' = Torn
    /\ acked' = acked \cup {contents[w]}
    /\ pc' = [pc EXCEPT ![w] = "idle"]
    /\ outcome' = [outcome EXCEPT ![w] = [tag |-> "Receipt",
                                          receipt |-> receiptOf(slice(w), aggregate[w])]]
    /\ aggregate' = [aggregate EXCEPT ![w] = NoAggregate]
    /\ contents' = [contents EXCEPT ![w] = <<>>]
    /\ overlapped' = [overlapped EXCEPT ![w] = FALSE]
    /\ UNCHANGED <<command, issued>>

\* Mutant: a worker waits for the file to become a log.
ReadFailsWhenReadable(w) ==
    /\ pc[w] \in {"requested", "saving"}
    /\ Faults /\ readJsonFileRecords # {}
    /\ finish(w, [tag |-> "EventStorePersistenceFailure"])
    /\ UNCHANGED <<file, command, acked, issued>>

\* The file cannot be read, or cannot be read as a log, be it for a write under way.
ReadFails(w) ==
    /\ pc[w] \in {"requested", "saving"}
    /\ Faults \/ readJsonFileRecords = {} \/ \E v \in Workers : pc[v] = "filling"
    /\ finish(w, [tag |-> "EventStorePersistenceFailure"])
    /\ UNCHANGED <<file, command, acked, issued>>

\* A write given up midway leaves the file as it is, or has spoilt what another one wrote.
abandonWrite(w) ==
    \/ UNCHANGED file
    \/ pc[w] = "filling" /\ overlapped[w] /\ file' = Torn

\* The write fails before or after it emptied the file.
WriteFails(w) ==
    /\ Faults
    /\ pc[w] \in {"writing", "filling"}
    /\ abandonWrite(w)
    /\ finish(w, [tag |-> "EventStorePersistenceFailure"])
    /\ UNCHANGED <<command, acked, issued>>

\* The worker's process dies; nobody is answered.
Crash(w) ==
    /\ Faults
    /\ pc[w] # "idle"
    /\ abandonWrite(w)
    /\ finish(w, NoOutcome)
    /\ UNCHANGED <<command, acked, issued>>

Handle(w) ==
    \/ LoadAndReject(w) \/ LoadAndAccept(w)
    \/ CheckVersion(w) \/ Conflict(w)
    \/ Truncate(w) \/ Fill(w)
    \/ ReadFails(w) \/ WriteFails(w)

Next == \E w \in Workers : Request(w) \/ Handle(w) \/ Crash(w)

Spec == Init /\ [][Next]_vars

-----------------------------------------------------------------------------
TypeOK ==
    /\ \/ file \in {Absent, Torn}
       \/ file \in [tag : {"Stored"}, records : Seq(StoredEvent(Ids, DomainEvent))]
    /\ pc \in [Workers -> {"idle", "requested", "saving", "writing", "filling"}]
    /\ command \in [Workers -> Command \cup {NoCommand}]
    /\ overlapped \in [Workers -> BOOLEAN]
    /\ issued \in 0 .. MaxCommands
    /\ acked \cup {contents[w] : w \in Workers} \subseteq Seq(StoredEvent(Ids, DomainEvent))
    /\ \A w \in Workers :
          /\ pc[w] # "idle" => command[w] \in Command
          /\ pc[w] \in {"saving", "writing", "filling"} => aggregate[w] \in Pending(slice(w))
          /\ outcome[w].tag \in {"None", "Rejected", "Receipt", "ExpectedVersionConflict",
                                 "EventStorePersistenceFailure"}

isStored == file.tag = "Stored"

(***************************************************************************)
(* Whatever the workers, failures and crashes do to the file, a log that   *)
(* can be read back numbers its events one by one, in the log and in each  *)
(* stream.                                                                 *)
(***************************************************************************)
LogIsOrderly ==
    isStored =>
        \A i \in DOMAIN file.records :
            LET r == file.records[i]
            IN  /\ r.eventStoreSequenceNumber = i
                /\ r.aggregateVersion =
                      aggregateVersionInRecords(SubSeq(file.records, 1, i), r.aggregateId)

(***************************************************************************)
(* Racing writers can leave a log no decision would have written; it still *)
(* replays to a counter whose value is in range, so no read of it fails    *)
(* (domain/src/counter/Reducer.ts:13-17).                                  *)
(***************************************************************************)
AnyLogReplays ==
    isStored =>
        \A c \in CounterIds :
            load("counter", file.records, c).state \in CounterState(CounterIds)

(***************************************************************************)
(* What a command was acknowledged for is in every log read later: no      *)
(* writer drops it (event-sourcing/README.md:21-24).                       *)
(***************************************************************************)
AcknowledgedSurvive ==
    isStored => \A log \in acked : IsPrefix(log, file.records)

(***************************************************************************)
(* Every event on file was accepted by the decision of its slice on the    *)
(* history before it (domain/README.md:34).                                *)
(***************************************************************************)
LegalHistoryOnFile ==
    isStored =>
        \A i \in DOMAIN file.records :
            \E c \in Command :
                /\ c.id = file.records[i].aggregateId
                /\ LET before == history(sliceOf(c), file.records, c.id)[i - 1]
                   IN  decide(c, before.state) = accept(file.records[i].event)

=============================================================================
