---------------------------- MODULE InProcessRpc ----------------------------
(***************************************************************************)
(* makeInProcessRpcClient (packages/application/src/rpc/inProcess.ts): a   *)
(* client and a server of one RPC group in one process, each writing to    *)
(* the other.  The server is made first and answers through clientWrite, a *)
(* Deferred that is set once the client exists; an answer that is ready    *)
(* before waits for it.  Every slice has one such pair for its commands    *)
(* and one for its queries, all made by one Layer.mergeAll.                *)
(*                                                                         *)
(* What a call asks and what it is answered is the business of the module  *)
(* that instantiates this one.                                             *)
(***************************************************************************)
CONSTANTS Groups, Callers

VARIABLES phase,         \* how far the making of each group's client has got
          clientWrite,   \* whether each group's Deferred is set
          calls          \* who waits for an answer of which group

rpcVars == <<phase, clientWrite, calls>>

InitRpc ==
    /\ phase = [g \in Groups |-> "start"]
    /\ clientWrite = [g \in Groups |-> FALSE]
    /\ calls = {}

MakeServer(g) ==
    /\ phase[g] = "start"
    /\ phase' = [phase EXCEPT ![g] = "server"]
    /\ UNCHANGED <<clientWrite, calls>>

MakeClient(g) ==
    /\ phase[g] = "server"
    /\ phase' = [phase EXCEPT ![g] = "client"]
    /\ UNCHANGED <<clientWrite, calls>>

\* Mutant: the client is handed out, and the server never told how to reach it.
ReturnClientUnset(g) ==
    /\ phase[g] = "client"
    /\ phase' = [phase EXCEPT ![g] = "returned"]
    /\ UNCHANGED <<clientWrite, calls>>

\* Deferred.succeed, then the client is handed out.
ReturnClient(g) ==
    /\ phase[g] = "client"
    /\ clientWrite' = [clientWrite EXCEPT ![g] = TRUE]
    /\ phase' = [phase EXCEPT ![g] = "returned"]
    /\ UNCHANGED calls

Wire(g) == MakeServer(g) \/ MakeClient(g) \/ ReturnClient(g)

\* The layer of all clients is built, and its user may start.
built == \A g \in Groups : phase[g] = "returned"

\* onFromClient: the call is written to the server, which forks its handler.
Call(c, g) ==
    /\ phase[g] = "returned"
    /\ <<c, g>> \notin calls
    /\ calls' = calls \cup {<<c, g>>}
    /\ UNCHANGED <<phase, clientWrite>>

\* Mutant: the client forgets nothing of what was answered.
AnswerKept(c, g) ==
    /\ <<c, g>> \in calls
    /\ clientWrite[g]
    /\ UNCHANGED rpcVars

\* onFromServer: the answer waits for the Deferred and is written to the client.
Answer(c, g) ==
    /\ <<c, g>> \in calls
    /\ clientWrite[g]
    /\ calls' = calls \ {<<c, g>>}
    /\ UNCHANGED <<phase, clientWrite>>
=============================================================================
