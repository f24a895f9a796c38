--------------------------- MODULE CommandSystem ---------------------------
(***************************************************************************)
(* The application layer over the in-memory DomainEventStore: command      *)
(* handlers of both slices run as concurrent fibers over one log.          *)
(*                                                                         *)
(* A handler (makeCounterCommandHandler, makeUserCommandHandler) loads its *)
(* aggregate, decides, and appends the one event it recorded at the        *)
(* version it loaded.  Fibers interleave between those steps.  The append  *)
(* itself, Ref.get to Ref.update, is one step here: a handler's fiber      *)
(* starts with a full operation budget and performs nothing asynchronous   *)
(* between the two.                                                        *)
(*                                                                         *)
(* Nothing retries a conflict: the handler answers it and is done.         *)
(***************************************************************************)
EXTENDS ReadModels

CONSTANTS Handlers,      \* the fibers
          MaxCommands    \* bound on the commands issued in a behaviour

ASSUME MaxCommandsAssumption == MaxCommands \in Nat

VARIABLES records,      \* storedEventsRef: the log
          pc,           \* where each fiber is
          command,      \* the command each fiber handles
          aggregate,    \* the aggregate a fiber decided on, its event pending
          outcome,      \* what the fiber's last command was answered
          seen,         \* ghost: the length of the log the fiber loaded from
          issued        \* commands issued so far, for the bound

vars == <<records, pc, command, aggregate, outcome, seen, issued>>

NoCommand == [tag |-> "None"]
NoOutcome == [tag |-> "None"]
NoAggregate == [version |-> 0, pendingEvents |-> <<>>]

slice(h) == sliceOf(command[h])
id(h) == command[h].id

Init ==
    /\ records = <<>>
    /\ pc = [h \in Handlers |-> "idle"]
    /\ command = [h \in Handlers |-> NoCommand]
    /\ aggregate = [h \in Handlers |-> NoAggregate]
    /\ outcome = [h \in Handlers |-> NoOutcome]
    /\ seen = [h \in Handlers |-> 0]
    /\ issued = 0

\* A command reaches its handler.
Request(h) ==
    /\ pc[h] = "idle"
    /\ issued < MaxCommands
    /\ \E c \in Command : command' = [command EXCEPT ![h] = c]
    /\ pc' = [pc EXCEPT ![h] = "requested"]
    /\ outcome' = [outcome EXCEPT ![h] = NoOutcome]
    /\ seen' = [seen EXCEPT ![h] = 0]
    /\ issued' = issued + 1
    /\ UNCHANGED <<records, aggregate>>

\* commit of a rejection: the store is not touched.
LoadAndReject(h) ==
    /\ pc[h] = "requested"
    /\ LET decision == decide(command[h], load(slice(h), records, id(h)).state)
       IN  /\ isFailure(decision)
           /\ outcome' = [outcome EXCEPT ![h] = [tag |-> "Rejected",
                                                 rejection |-> decision.rejection]]
    /\ pc' = [pc EXCEPT ![h] = "idle"]
    /\ seen' = [seen EXCEPT ![h] = Len(records)]
    /\ UNCHANGED <<records, command, aggregate, issued>>

LoadAndAccept(h) ==
    /\ pc[h] = "requested"
    /\ LET loaded == load(slice(h), records, id(h))
           decision == decide(command[h], loaded.state)
       IN  /\ ~ isFailure(decision)
           /\ aggregate' = [aggregate EXCEPT ![h] = recordEvent(slice(h), loaded, decision.event)]
    /\ pc' = [pc EXCEPT ![h] = "saving"]
    /\ seen' = [seen EXCEPT ![h] = Len(records)]
    /\ UNCHANGED <<records, command, outcome, issued>>

\* Mutant: a store that is ahead of the caller is not a conflict.
atExpectedVersionOrAhead(h) ==
    aggregateVersionInRecords(records, id(h)) >= expectedVersion(aggregate[h])

atExpectedVersion(h) ==
    aggregateVersionInRecords(records, id(h)) = expectedVersion(aggregate[h])

\* Mutant: the handler does not notice that it stored its event, and starts over.
Append_StoredUnnoticed(h) ==
    /\ pc[h] = "saving"
    /\ atExpectedVersion(h)
    /\ records' = records \o storedEventsForAppend(id(h), aggregate[h].pendingEvents,
                                 aggregateVersionInRecords(records, id(h)), Len(records))
    /\ pc' = [pc EXCEPT ![h] = "requested"]
    /\ UNCHANGED <<command, aggregate, outcome, seen, issued>>

\* append at the expected version; the receipt comes from the handler's own aggregate.
Append_Stored(h) ==
    /\ pc[h] = "saving"
    /\ atExpectedVersion(h)
    /\ records' = records \o storedEventsForAppend(id(h), aggregate[h].pendingEvents,
                                 aggregateVersionInRecords(records, id(h)), Len(records))
    /\ outcome' = [outcome EXCEPT ![h] = [tag |-> "Receipt",
                                          receipt |-> receiptOf(slice(h), aggregate[h])]]
    /\ pc' = [pc EXCEPT ![h] = "idle"]
    /\ aggregate' = [aggregate EXCEPT ![h] = NoAggregate]
    /\ UNCHANGED <<command, seen, issued>>

\* Mutant: the handler retries the same stale append for ever.
Append_ConflictRetried(h) ==
    /\ pc[h] = "saving"
    /\ ~ atExpectedVersion(h)
    /\ UNCHANGED vars

Append_Conflict(h) ==
    /\ pc[h] = "saving"
    /\ ~ atExpectedVersion(h)
    /\ outcome' = [outcome EXCEPT ![h] = [tag |-> "ExpectedVersionConflict"]]
    /\ pc' = [pc EXCEPT ![h] = "idle"]
    /\ aggregate' = [aggregate EXCEPT ![h] = NoAggregate]
    /\ UNCHANGED <<records, command, seen, issued>>

Handle(h) == LoadAndReject(h) \/ LoadAndAccept(h) \/ Append_Stored(h) \/ Append_Conflict(h)

Next == \E h \in Handlers : Request(h) \/ Handle(h)

Spec == Init /\ [][Next]_vars

\* The Effect scheduler resumes every runnable fiber; a new command may never come.
FairSpec == Spec /\ \A h \in Handlers : WF_vars(Handle(h))

-----------------------------------------------------------------------------
\* Every variable ranges over what the program can hold.
TypeOK ==
    /\ records \in Seq(StoredEvent(Ids, DomainEvent))
    /\ pc \in [Handlers -> {"idle", "requested", "saving"}]
    /\ command \in [Handlers -> Command \cup {NoCommand}]
    /\ issued \in 0 .. MaxCommands
    /\ seen \in [Handlers -> 0 .. Len(records)]
    /\ DOMAIN aggregate = Handlers
    /\ DOMAIN outcome = Handlers
    /\ \A h \in Handlers :
          /\ pc[h] # "idle" => command[h] \in Command
          /\ IF pc[h] = "saving" THEN aggregate[h] \in Pending(slice(h))
             ELSE aggregate[h] = NoAggregate
          /\ outcome[h].tag \in {"None", "Rejected", "Receipt", "ExpectedVersionConflict"}

(***************************************************************************)
(* Every event of the log is one that the decision of its slice accepted   *)
(* on the very history that precedes it in its stream: no handler ever     *)
(* stores a decision made on a stale aggregate.  This is what the version  *)
(* check of append is for, and what makes the reducer's clamp and its      *)
(* ignored cases dead code for logs the program wrote itself.              *)
(***************************************************************************)
legalEvent(i) ==
    \E c \in Command :
        /\ c.id = records[i].aggregateId
        /\ LET before == history(sliceOf(c), records, c.id)[i - 1]
           IN  decide(c, before.state) = accept(records[i].event)

LegalHistory == \A i \in DOMAIN records : legalEvent(i)

(***************************************************************************)
(* A receipt is true: some event stored after the handler loaded carries   *)
(* out the handler's command, and replaying the log up to that event gives *)
(* exactly what the receipt says, although the receipt is computed from    *)
(* the handler's private copy and not from what the store returned.        *)
(***************************************************************************)
carriesOut(h, i) ==
    LET past == history(slice(h), records, id(h))
    IN  /\ records[i].aggregateId = id(h)
        /\ decide(command[h], past[i - 1].state) = accept(records[i].event)
        /\ receiptOf(slice(h), past[i]) = outcome[h].receipt

ReceiptsHonoured ==
    \A h \in Handlers : outcome[h].tag = "Receipt" =>
        \E i \in (seen[h] + 1) .. Len(records) : carriesOut(h, i)

overtaken(h) ==
    \E i \in (seen[h] + 1) .. Len(records) : i \in fetch(slice(h), records, id(h))

(***************************************************************************)
(* A handler answers ExpectedVersionConflict only if another one stored an *)
(* event of the same aggregate of the same slice after it had loaded; what *)
(* other slices store is no conflict (application/src/eventStore.ts:30-37).*)
(***************************************************************************)
ConflictMeansContention ==
    \A h \in Handlers : outcome[h].tag = "ExpectedVersionConflict" => overtaken(h)

(***************************************************************************)
(* The same for an identity that only one slice uses.                      *)
(***************************************************************************)
OwnStreamConflictMeansContention ==
    \A h \in Handlers :
        (outcome[h].tag = "ExpectedVersionConflict" /\ id(h) \notin CounterIds \cap UserIds)
            => overtaken(h)

(***************************************************************************)
(* ListCounters, which groups the whole log by the identity inside each    *)
(* event, lists exactly the counters the repository would load, with the   *)
(* same value and version.                                                 *)
(***************************************************************************)
CounterListAgrees ==
    ListCounters(records) =
        UNION {counterSummaryOf(load("counter", records, c)) : c \in CounterIds}

(***************************************************************************)
(* ListArticles, a fold over all users' events, shows a bookmark exactly   *)
(* when the user's own aggregate holds the article.                        *)
(***************************************************************************)
ArticleListAgrees ==
    \A u \in UserIds, a \in Catalog :
        ListArticles(records, u)[a] =
            (a \in bookmarkedArticleIds(load("user", records, u).state))

(***************************************************************************)
(* Every command is answered, with a receipt, a rejection or a conflict.   *)
(***************************************************************************)
EveryCommandAnswered ==
    \A h \in Handlers : pc[h] # "idle" ~> (pc[h] = "idle" /\ outcome[h] # NoOutcome)

-----------------------------------------------------------------------------
(***************************************************************************)
(* Why LegalHistory holds: what the proofs in CommandSystemProofs add to   *)
(* make it inductive.                                                      *)
(***************************************************************************)

\* Stored events are numbered by their position in the log.
Numbered == \A i \in DOMAIN records : records[i].eventStoreSequenceNumber = i

(***************************************************************************)
(* The history of an aggregate only moves forward: an entry with the       *)
(* version of the loaded aggregate is the loaded aggregate.  The version   *)
(* the store compares with counts at least the slice's own events.         *)
(***************************************************************************)
HistoryGrows ==
    \A s \in Slices, x \in Ids :
        LET loaded == load(s, records, x)
        IN  /\ loaded \in Replayed(s)
            /\ loaded.version <= aggregateVersionInRecords(records, x)
            /\ \A n \in 0 .. Len(records) :
                  LET past == history(s, records, x)[n]
                  IN  /\ past \in Replayed(s)
                      /\ past.version <= loaded.version
                      /\ past.version = loaded.version => past = loaded

(***************************************************************************)
(* A handler about to save holds the aggregate as it was when it loaded,   *)
(* plus the one event its command's decision recorded on it.               *)
(***************************************************************************)
Prepared(h) ==
    LET past == history(slice(h), records, id(h))[seen[h]]
        decision == decide(command[h], past.state)
    IN  /\ ~ isFailure(decision)
        /\ aggregate[h] = recordEvent(slice(h), past, decision.event)

AllPrepared == \A h \in Handlers : pc[h] = "saving" => Prepared(h)

IInv == TypeOK /\ Numbered /\ HistoryGrows /\ AllPrepared /\ LegalHistory
=============================================================================
