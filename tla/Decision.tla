------------------------------ MODULE Decision ------------------------------
(***************************************************************************)
(* packages/event-sourcing/src/decision.ts: a decision either accepts, and *)
(* the aggregate records one event, or rejects with a reason.              *)
(***************************************************************************)

accept(event) == [tag |-> "Success", event |-> event]

reject(rejection) == [tag |-> "Failure", rejection |-> rejection]

isFailure(decision) == decision.tag = "Failure"
=============================================================================
