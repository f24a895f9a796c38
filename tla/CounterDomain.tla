--------------------------- MODULE CounterDomain ---------------------------
(***************************************************************************)
(* The counter rules of packages/domain/src/counter: what a stored event   *)
(* does to a counter (Reducer.ts) and which event, if any, a command may   *)
(* record on one (Decisions.ts).  Both are pure; every other module asks   *)
(* them what a log adds up to and what a handler answers.                  *)
(***************************************************************************)
EXTENDS Integers, Decision

CONSTANT MaxValue   \* State.maximumCounterValue, 5 in the source

ASSUME MaxValueAssumption == MaxValue \in Nat

minimumCounterValue == 0

CounterEventTags ==
    {"CounterCreated", "CounterIncremented", "CounterDecremented", "CounterDisabled"}

CounterCommandTags ==
    {"CreateCounter", "IncrementCounter", "DecrementCounter", "DisableCounter"}

CounterEvent(ids) == [tag : CounterEventTags, counterId : ids]

initialCounterState == [tag |-> "CounterNotCreated"]

CounterState(ids) ==
    {initialCounterState} \cup
    [tag : {"ActiveCounter", "DisabledCounter"}, counterId : ids,
     value : minimumCounterValue .. MaxValue]

-----------------------------------------------------------------------------
(***************************************************************************)
(* Replay.  The value is clamped, so that a log the decisions never wrote  *)
(* still replays to a value in range.                                      *)
(***************************************************************************)

\* Mutant: the reducer trusts that the decisions kept the value in range.
toCounterValueUnclamped(n) == n

toCounterValue(n) ==
    IF n < minimumCounterValue THEN minimumCounterValue
    ELSE IF n > MaxValue THEN MaxValue ELSE n

activeCounter(id, n) ==
    [tag |-> "ActiveCounter", counterId |-> id, value |-> toCounterValue(n)]

applyCounterEvent(state, event) ==
    CASE state.tag = "CounterNotCreated" /\ event.tag = "CounterCreated" ->
            activeCounter(event.counterId, 0)
      [] state.tag = "ActiveCounter" /\ event.tag = "CounterIncremented" ->
            activeCounter(state.counterId, state.value + 1)
      [] state.tag = "ActiveCounter" /\ event.tag = "CounterDecremented" ->
            activeCounter(state.counterId, state.value - 1)
      [] state.tag = "ActiveCounter" /\ event.tag = "CounterDisabled" ->
            [state EXCEPT !.tag = "DisabledCounter"]
      [] OTHER -> state

-----------------------------------------------------------------------------
(***************************************************************************)
(* Decisions.  "id" is the identity of the aggregate decided on; the       *)
(* creation event takes its identity from the command instead, which       *)
(* every caller sets to the same value.                                    *)
(***************************************************************************)

counterEvent(tag, id) == [tag |-> tag, counterId |-> id]

createCounter(commandId, state) ==
    IF state.tag # "CounterNotCreated" THEN reject("CounterAlreadyExists")
    ELSE accept(counterEvent("CounterCreated", commandId))

incrementCounter(id, state) ==
    CASE state.tag = "CounterNotCreated" -> reject("CounterDoesNotExist")
      [] state.tag = "DisabledCounter" -> reject("CounterIsDisabled")
      [] OTHER ->
            IF state.value >= MaxValue THEN reject("CounterMaximumReached")
            ELSE accept(counterEvent("CounterIncremented", id))

decrementCounter(id, state) ==
    CASE state.tag = "CounterNotCreated" -> reject("CounterDoesNotExist")
      [] state.tag = "DisabledCounter" -> reject("CounterIsDisabled")
      [] OTHER ->
            IF state.value <= minimumCounterValue THEN reject("CounterMinimumReached")
            ELSE accept(counterEvent("CounterDecremented", id))

disableCounter(id, state) ==
    CASE state.tag = "CounterNotCreated" -> reject("CounterDoesNotExist")
      [] state.tag = "DisabledCounter" -> reject("CounterIsDisabled")
      [] OTHER -> accept(counterEvent("CounterDisabled", id))

decideCounter(command, state) ==
    CASE command.tag = "CreateCounter" -> createCounter(command.id, state)
      [] command.tag = "IncrementCounter" -> incrementCounter(command.id, state)
      [] command.tag = "DecrementCounter" -> decrementCounter(command.id, state)
      [] command.tag = "DisableCounter" -> disableCounter(command.id, state)
=============================================================================
