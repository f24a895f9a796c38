---------------------------- MODULE AtomicStreams ----------------------------
(***************************************************************************)
(* What packages/event-sourcing promises the holders of copies.  There is  *)
(* no log here and there are no versions, only the events of each stream.  *)
(* A copy is the facts it was made from and the events recorded on top of  *)
(* them.  A save that goes through does so at one instant, as a whole, and *)
(* only if the stream then holds those very facts and nothing more.        *)
(* Repository is shown to implement it.                                    *)
(***************************************************************************)
EXTENDS Naturals, Sequences

CONSTANTS Callers, Repositories, AggregateIds, MaxEvents, MaxPending

VARIABLES stream,     \* the events of each stream
          copy,       \* the copy each caller holds
          saving,     \* whether it has begun to save it
          recorded    \* how many events were ever recorded

streamVars == <<stream, copy, saving, recorded>>

Streams == Repositories \X AggregateIds

Blank == [of |-> <<"none", "none">>, facts |-> <<>>, pending |-> <<>>]

InitStreams ==
    /\ stream = [s \in Streams |-> <<>>]
    /\ copy = [c \in Callers |-> Blank]
    /\ saving = [c \in Callers |-> FALSE]
    /\ recorded = 0

holds(c) == copy[c].of \in Streams

hold(c, one) == ~ saving[c] /\ copy' = [copy EXCEPT ![c] = one]

\* A copy of a stream as it is, or of one that is taken to be new.
Take(c) ==
    /\ \E s \in Streams : \E facts \in {<<>>, stream[s]} :
          hold(c, [of |-> s, facts |-> facts, pending |-> <<>>])
    /\ UNCHANGED <<stream, saving, recorded>>

HandOver(c) ==
    /\ \E d \in Callers : holds(d) /\ hold(c, copy[d])
    /\ UNCHANGED <<stream, saving, recorded>>

nextEvent(c) ==
    [repository |-> copy[c].of[1], aggregateId |-> copy[c].of[2], number |-> recorded + 1]

Record(c) ==
    /\ holds(c)
    /\ recorded < MaxEvents
    /\ Len(copy[c].pending) < MaxPending
    /\ hold(c, [copy[c] EXCEPT !.pending = Append(@, nextEvent(c))])
    /\ recorded' = recorded + 1
    /\ UNCHANGED <<stream, saving>>

BeginSave(c) ==
    /\ holds(c) /\ ~ saving[c]
    /\ saving' = [saving EXCEPT ![c] = TRUE]
    /\ UNCHANGED <<stream, copy, recorded>>

afterSave(one) == [of |-> one.of, facts |-> one.facts \o one.pending, pending |-> <<>>]

Save(c) ==
    /\ saving[c]
    /\ stream[copy[c].of] = copy[c].facts
    /\ stream' = [stream EXCEPT ![copy[c].of] = @ \o copy[c].pending]
    /\ copy' \in {copy, [copy EXCEPT ![c] = afterSave(@)]}
    /\ saving' = [saving EXCEPT ![c] = FALSE]
    /\ UNCHANGED recorded

NextStreams ==
    \E c \in Callers : Take(c) \/ HandOver(c) \/ Record(c) \/ BeginSave(c) \/ Save(c)

SpecStreams == InitStreams /\ [][NextStreams]_streamVars
=============================================================================
