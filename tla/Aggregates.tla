----------------------------- MODULE Aggregates -----------------------------
(***************************************************************************)
(* How a slice (packages/application/src/counter and .../user) turns the   *)
(* shared log into aggregates: packages/event-sourcing/src/aggregate.ts    *)
(* and repository.ts applied to each slice's reducer, over the view of the *)
(* log that eventStoreFor narrows to the slice's own events.               *)
(***************************************************************************)
EXTENDS CounterDomain, UserDomain, EventRecords

CONSTANTS CounterIds, UserIds, ArticleIds

Ids == CounterIds \cup UserIds

Slices == {"counter", "user"}

DomainEvent == CounterEvent(CounterIds) \cup UserEvent(UserIds, ArticleIds)

\* The commands the two RPC groups accept.
CounterCommand == [tag : CounterCommandTags, id : CounterIds]
UserCommand == [tag : UserCommandTags, id : UserIds, articleId : ArticleIds]
Command == CounterCommand \cup UserCommand

sliceOf(command) == IF command.tag \in CounterCommandTags THEN "counter" ELSE "user"

belongsToSlice(slice, event) ==
    IF slice = "counter" THEN event.tag \in CounterEventTags ELSE event.tag \in UserEventTags

initialState(slice) == IF slice = "counter" THEN initialCounterState ELSE initialUserState

AggregateState(slice) ==
    IF slice = "counter" THEN CounterState(CounterIds) ELSE UserState(UserIds, ArticleIds)

reducer(slice, state, event) ==
    IF slice = "counter" THEN applyCounterEvent(state, event) ELSE applyUserEvent(state, event)

decide(command, state) ==
    IF sliceOf(command) = "counter" THEN decideCounter(command, state)
    ELSE toggleArticleBookmark(command, state)

-----------------------------------------------------------------------------
makeAggregate(slice) ==
    [state |-> initialState(slice), version |-> 0, pendingEvents |-> <<>>]

\* An aggregate as replay leaves it, and one with a single event to save.
Replayed(slice) ==
    [state : AggregateState(slice), version : Nat, pendingEvents : {<<>>}]

Pending(slice) ==
    [state : AggregateState(slice), version : Nat \ {0},
     pendingEvents : {<<event>> : event \in DomainEvent}]

\* A fact that is already in the store: nothing is queued.
replayEvent(slice, aggregate, event) ==
    [aggregate EXCEPT !.state = reducer(slice, @, event), !.version = @ + 1]

\* Mutant: a new fact is replayed, so that nothing is left to save.
recordEventUnqueued(slice, aggregate, event) == replayEvent(slice, aggregate, event)

\* A new fact: queued for the store to append.
recordEvent(slice, aggregate, event) ==
    [aggregate EXCEPT !.state = reducer(slice, @, event),
                      !.version = @ + 1,
                      !.pendingEvents = Append(@, event)]

\* The version the store must still be at for a save to go through.
expectedVersion(aggregate) == aggregate.version - Len(aggregate.pendingEvents)

(***************************************************************************)
(* Replaying the records at the positions "kept": entry n is the aggregate *)
(* after the first n records of the log.                                   *)
(***************************************************************************)
replayAggregate(slice, records, kept) ==
    LET after[n \in 0 .. Len(records)] ==
            IF n = 0 THEN makeAggregate(slice)
            ELSE IF n \in kept THEN replayEvent(slice, after[n - 1], records[n].event)
            ELSE after[n - 1]
    IN  after

\* The positions eventStoreFor's fetch hands to the slice's repository.
fetch(slice, records, id) ==
    {i \in recordsForAggregate(records, id, firstSequenceNumber) :
        belongsToSlice(slice, records[i].event)}

\* The history of one aggregate, and the aggregate the repository loads.
history(slice, records, id) == replayAggregate(slice, records, fetch(slice, records, id))

load(slice, records, id) == history(slice, records, id)[Len(records)]
=============================================================================
