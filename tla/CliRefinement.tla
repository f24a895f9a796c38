--------------------------- MODULE CliRefinement ----------------------------
(***************************************************************************)
(* Cli implements AtomicCli as long as commands are typed one after the    *)
(* other.  The aggregates held are those the file replays to; while a      *)
(* worker fills the file it has just emptied, they are those of the log it *)
(* had read, for until it is done nobody can see more.  A torn file that   *)
(* nobody is filling is lost.                                              *)
(***************************************************************************)
EXTENDS Cli

isFilled == \E w \in Workers : pc[w] = "filling"

logHeld ==
    IF isStored THEN file.records
    ELSE IF isFilled THEN Front(contents[CHOOSE w \in Workers : pc[w] = "filling"])
    ELSE <<>>

heldOnFile ==
    [s \in ({"counter"} \X CounterIds) \cup ({"user"} \X UserIds) |-> load(s[1], logHeld, s[2])]

underWay == [w \in Workers |-> IF pc[w] = "idle" THEN NoCommand ELSE command[w]]

fileIsLost == file = Torn /\ ~ isFilled

Promise ==
    INSTANCE AtomicCli WITH Handlers <- Workers, MayFail <- Faults,
        held <- heldOnFile, asked <- underWay, answer <- outcome,
        lost <- fileIsLost, started <- action, shown <- printed

(***************************************************************************)
(* However reads and writes fail and processes die over the one file, the  *)
(* command line does with each command all or nothing, answers it for what *)
(* it did, and lists the aggregates as they are at one instant             *)
(* (cli/src/index.ts:151-192, event-sourcing/README.md:21-24).             *)
(***************************************************************************)
CliKeepsItsWord == Promise!SpecPromise
=============================================================================
