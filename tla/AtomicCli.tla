----------------------------- MODULE AtomicCli ------------------------------
(***************************************************************************)
(* What the command line promises someone who types one command after      *)
(* another, lists in between and does not know that there is a file.       *)
(* Every command takes effect at one instant or not at all, and every list *)
(* shows the aggregates as they are at one instant.  What can go wrong is  *)
(* said here too: a command may fail without effect, a process may die, and *)
(* either of them may take with it all that is held; after that no command *)
(* is carried out and nothing is listed any more.  A version conflict is   *)
(* answered only where a counter and a user share an identity.  Cli is     *)
(* shown to implement it.                                                  *)
(***************************************************************************)
EXTENDS AtomicCommands

CONSTANT MayFail    \* BOOLEAN: whether I/O may fail and processes may die

VARIABLES lost,      \* whether all that was held is gone
          started,   \* what each process was started for
          shown      \* what its last run printed

promiseVars == <<atomicVars, lost, started, shown>>

NotStarted == [tag |-> "None"]
Silence == [tag |-> "Silence"]
Usage == [tag |-> "Usage"]
Failure == [tag |-> "Failure"]

runFor(c) ==
    [tag |-> IF sliceOf(c) = "counter" THEN "Command" ELSE "ToggleBookmark", command |-> c]

hasCommand(run) == run.tag \in {"Command", "ToggleBookmark"}

Query == [tag : {"ListArticles"}, userId : UserIds] \cup {[tag |-> "List"]}

InitPromise ==
    /\ InitAtomic
    /\ lost = FALSE
    /\ started = [h \in Handlers |-> NotStarted]
    /\ shown = [h \in Handlers |-> Silence]

-----------------------------------------------------------------------------
ShowUsage(h) ==
    /\ started[h] = NotStarted
    /\ shown' = [shown EXCEPT ![h] = Usage]
    /\ UNCHANGED <<atomicVars, lost, started>>

start(h, run) ==
    /\ started[h] = NotStarted
    /\ started' = [started EXCEPT ![h] = run]
    /\ shown' = [shown EXCEPT ![h] = Silence]
    /\ UNCHANGED lost

StartQuery(h) ==
    /\ \E query \in Query : start(h, query)
    /\ answer' = [answer EXCEPT ![h] = NoAnswer]
    /\ UNCHANGED <<held, asked>>

StartCommand(h) ==
    /\ \A g \in Handlers : asked[g] = NoCommand
    /\ Submit(h)
    /\ start(h, runFor(asked'[h]))

Decide(h) ==
    /\ ~ lost
    /\ \/ CarryOut(h)
       \/ Reject(h)
       \/ Refuse(h) /\ asked[h].id \in CounterIds \cap UserIds
    /\ UNCHANGED <<lost, started, shown>>

nothingHeld == [s \in streams |-> makeAggregate(s[1])]

keptOrLost ==
    \/ UNCHANGED <<held, lost>>
    \/ held' = nothingHeld /\ lost' = TRUE

Fail(h) ==
    /\ MayFail
    /\ asked[h] # NoCommand
    /\ reply(h, [tag |-> "EventStorePersistenceFailure"])
    /\ keptOrLost
    /\ UNCHANGED <<started, shown>>

-----------------------------------------------------------------------------
countersHeld == UNION {counterSummaryOf(held[<<"counter", c>>]) : c \in CounterIds}

articlesHeld(user) ==
    [a \in Catalog |-> a \in bookmarkedArticleIds(held[<<"user", user>>].state)]

listHeld(run) ==
    CASE run.tag \in {"List", "Command"} -> countersHeld
      [] run.tag = "ListArticles" -> articlesHeld(run.userId)
      [] run.tag = "ToggleBookmark" -> articlesHeld(run.command.id)

end(h, text) ==
    /\ started[h] # NotStarted
    /\ started' = [started EXCEPT ![h] = NotStarted]
    /\ shown' = [shown EXCEPT ![h] = text]

Show(h) ==
    /\ ~ lost
    /\ asked[h] = NoCommand
    /\ hasCommand(started[h]) => answer[h].tag = "Receipt"
    /\ end(h, [tag |-> "Lines", action |-> started[h], answer |-> answer[h],
               list |-> listHeld(started[h])])
    /\ UNCHANGED <<atomicVars, lost>>

\* The command failed, or its list does: another command may be under way.
ShowFailure(h) ==
    /\ asked[h] = NoCommand
    /\ \/ hasCommand(started[h]) /\ answer[h].tag # "Receipt"
       \/ MayFail
       \/ \E g \in Handlers : asked[g] # NoCommand
    /\ end(h, Failure)
    /\ UNCHANGED <<atomicVars, lost>>

Die(h) ==
    /\ MayFail
    /\ end(h, Silence)
    /\ \/ asked[h] = NoCommand /\ UNCHANGED <<atomicVars, lost>>
       \/ asked[h] # NoCommand /\ reply(h, NoAnswer) /\ keptOrLost

NextPromise ==
    \E h \in Handlers :
        \/ ShowUsage(h) \/ StartQuery(h) \/ StartCommand(h)
        \/ Decide(h) \/ Fail(h)
        \/ Show(h) \/ ShowFailure(h) \/ Die(h)

SpecPromise == InitPromise /\ [][NextPromise]_promiseVars
=============================================================================
