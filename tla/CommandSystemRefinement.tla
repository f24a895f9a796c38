---------------------- MODULE CommandSystemRefinement ----------------------
(***************************************************************************)
(* CommandSystem implements AtomicCommands: an aggregate is what its       *)
(* stream in the log replays to, and a command is answered when the event  *)
(* is appended or the rejection or conflict returned.                      *)
(***************************************************************************)
EXTENDS CommandSystem

heldInLog ==
    [s \in ({"counter"} \X CounterIds) \cup ({"user"} \X UserIds) |->
        load(s[1], records, s[2])]

beingHandled == [h \in Handlers |-> IF pc[h] = "idle" THEN NoCommand ELSE command[h]]

Atomic ==
    INSTANCE AtomicCommands WITH held <- heldInLog, asked <- beingHandled, answer <- outcome

(***************************************************************************)
(* Concurrent handlers behave as if each command took effect at once:      *)
(* every receipt and every rejection is the one the aggregate's state at   *)
(* that instant calls for, a conflict leaves no trace, and every command   *)
(* is answered.                                                            *)
(***************************************************************************)
CommandsAreAtomic == Atomic!SpecAtomic
=============================================================================
