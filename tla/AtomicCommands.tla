--------------------------- MODULE AtomicCommands ---------------------------
(***************************************************************************)
(* What the application layer promises its callers: commands take effect   *)
(* one at a time.  There is no log here, only the aggregates.  A submitted *)
(* command is answered once: it is carried out on the aggregate as it is   *)
(* at that instant, or rejected by the domain for the aggregate as it is   *)
(* at that instant, or refused as a conflict, in which case it has no      *)
(* effect at all.  CommandSystem is shown to implement it.                 *)
(***************************************************************************)
EXTENDS ReadModels

CONSTANT Handlers

VARIABLES held,     \* the aggregate of every stream: its state and version
          asked,    \* the command a handler has yet to answer
          answer    \* its last answer

atomicVars == <<held, asked, answer>>

NoCommand == [tag |-> "None"]
NoAnswer == [tag |-> "None"]

streams == ({"counter"} \X CounterIds) \cup ({"user"} \X UserIds)

streamOf(c) == <<sliceOf(c), c.id>>

InitAtomic ==
    /\ held = [s \in streams |-> makeAggregate(s[1])]
    /\ asked = [h \in Handlers |-> NoCommand]
    /\ answer = [h \in Handlers |-> NoAnswer]

Submit(h) ==
    /\ asked[h] = NoCommand
    /\ \E c \in Command : asked' = [asked EXCEPT ![h] = c]
    /\ answer' = [answer EXCEPT ![h] = NoAnswer]
    /\ UNCHANGED held

reply(h, a) ==
    /\ answer' = [answer EXCEPT ![h] = a]
    /\ asked' = [asked EXCEPT ![h] = NoCommand]

decisionOn(h) == decide(asked[h], held[streamOf(asked[h])].state)

CarryOut(h) ==
    /\ asked[h] # NoCommand
    /\ ~ isFailure(decisionOn(h))
    /\ LET s == streamOf(asked[h])
           after == replayEvent(s[1], held[s], decisionOn(h).event)
       IN  /\ held' = [held EXCEPT ![s] = after]
           /\ reply(h, [tag |-> "Receipt", receipt |-> receiptOf(s[1], after)])

Reject(h) ==
    /\ asked[h] # NoCommand
    /\ isFailure(decisionOn(h))
    /\ reply(h, [tag |-> "Rejected", rejection |-> decisionOn(h).rejection])
    /\ UNCHANGED held

Refuse(h) ==
    /\ asked[h] # NoCommand
    /\ reply(h, [tag |-> "ExpectedVersionConflict"])
    /\ UNCHANGED held

Answer(h) == CarryOut(h) \/ Reject(h) \/ Refuse(h)

NextAtomic == \E h \in Handlers : Submit(h) \/ Answer(h)

SafetyAtomic == InitAtomic /\ [][NextAtomic]_atomicVars

SpecAtomic ==
    /\ SafetyAtomic
    /\ \A h \in Handlers : WF_atomicVars(Answer(h))
=============================================================================
