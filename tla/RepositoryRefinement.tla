------------------------- MODULE RepositoryRefinement -------------------------
(***************************************************************************)
(* Repository implements AtomicStreams where no fiber is preempted inside  *)
(* append: a stream is what load reads of the log, and the version that a  *)
(* copy expects stands for the events before its pending ones.             *)
(***************************************************************************)
EXTENDS Repository

factsOf(copy) == SubSeq(copy.state, 1, expectedVersion(copy))

copyIn(copy) ==
    [of |-> streamOf(copy), facts |-> factsOf(copy), pending |-> copy.pendingEvents]

Promise ==
    INSTANCE AtomicStreams WITH
        stream <- [s \in Streams |-> eventsOf(records, s)],
        copy <- [c \in Callers |-> copyIn(held[c])],
        saving <- [c \in Callers |-> isSaving(c)]

(***************************************************************************)
(* The numbers that save compares stand for what it does not look at: it   *)
(* stores the pending events of a copy all at once, and only when the      *)
(* stream holds the very events the copy was made from                     *)
(* (event-sourcing/README.md:21-24).                                       *)
(***************************************************************************)
SavesAreAtomic == Promise!SpecStreams
=============================================================================
