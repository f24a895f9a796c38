-------------------------------- MODULE Cli --------------------------------
(***************************************************************************)
(* The command line (packages/cli/src/index.ts): every worker of           *)
(* JsonFileStore is a process that parses its arguments, sends at most one *)
(* command, then reads the file anew for the list it prints, and ends.  It *)
(* prints nothing before it has all lines: when the list cannot be read,   *)
(* the receipt is not printed either and the run fails, although its event *)
(* is stored.                                                              *)
(***************************************************************************)
EXTENDS JsonFileStore

CONSTANT OneCommandAtATime   \* whether a command is only typed when no other is being handled

ASSUME TurnAssumption == OneCommandAtATime \in BOOLEAN

VARIABLES action,    \* what each process was started for
          printed,   \* what the last run of each worker printed
          wrote      \* ghost: the log the run's own command wrote

cliVars == <<action, printed, wrote>>
allVars == <<vars, cliVars>>

NoAction == [tag |-> "None"]
helpAction == [tag |-> "Help"]
Silence == [tag |-> "Silence"]
Usage == [tag |-> "Usage"]
Failure == [tag |-> "Failure"]

InitCli ==
    /\ Init
    /\ action = [w \in Workers |-> NoAction]
    /\ printed = [w \in Workers |-> Silence]
    /\ wrote = [w \in Workers |-> <<>>]

-----------------------------------------------------------------------------
(***************************************************************************)
(* Arguments.  A word that is not there reads as the empty one: isNonEmpty *)
(* refuses both.                                                           *)
(***************************************************************************)
verbsByArgument ==
    [create |-> "CreateCounter", increment |-> "IncrementCounter",
     decrement |-> "DecrementCounter", disable |-> "DisableCounter"]

word(argv, i) == IF i \in DOMAIN argv THEN argv[i] ELSE ""

isNonEmpty(value) == value # ""

\* Mutant: the id is not checked.
commandActionUnchecked(verb, rawId) ==
    [tag |-> "Command", command |-> [tag |-> verb, id |-> rawId]]

commandAction(verb, rawId) ==
    IF isNonEmpty(rawId) THEN [tag |-> "Command", command |-> [tag |-> verb, id |-> rawId]]
    ELSE helpAction

toggleBookmarkAction(rawUserId, rawArticleId) ==
    IF isNonEmpty(rawUserId) /\ isNonEmpty(rawArticleId)
    THEN [tag |-> "ToggleBookmark",
          command |-> [tag |-> "ToggleArticleBookmark", id |-> rawUserId,
                       articleId |-> rawArticleId]]
    ELSE helpAction

listArticlesAction(rawUserId) ==
    IF isNonEmpty(rawUserId) THEN [tag |-> "ListArticles", userId |-> rawUserId] ELSE helpAction

parseArguments(argv) ==
    LET verb == word(argv, 1)
    IN  CASE verb = "list" -> [tag |-> "List"]
          [] verb = "bookmark" -> toggleBookmarkAction(word(argv, 2), word(argv, 3))
          [] verb = "articles" -> listArticlesAction(word(argv, 2))
          [] verb \in DOMAIN verbsByArgument -> commandAction(verbsByArgument[verb], word(argv, 2))
          [] OTHER -> helpAction

isCommand(act) == act.tag \in {"Command", "ToggleBookmark"}

CliAction ==
    [tag : {"Command"}, command : CounterCommand] \cup
    [tag : {"ToggleBookmark"}, command : UserCommand] \cup
    [tag : {"ListArticles"}, userId : UserIds] \cup {[tag |-> "List"]}

\* What is typed: every verb, an unknown one and none, with ids, empty ids and too few.
Argvs ==
    LET verb == DOMAIN verbsByArgument
        counterId == CounterIds \cup {""}
        userId == UserIds \cup {""}
    IN  {<<>>, <<"list">>, <<"rename">>} \cup
        {<<v>> : v \in verb} \cup (verb \X counterId) \cup ({"articles"} \X userId) \cup
        ({"bookmark"} \X UserIds) \cup ({"bookmark"} \X userId \X (ArticleIds \cup {""}))

-----------------------------------------------------------------------------
end(w, lines) ==
    /\ action' = [action EXCEPT ![w] = NoAction]
    /\ printed' = [printed EXCEPT ![w] = lines]

\* A process starts and prints its usage: the whole run.
RunHelp(w) ==
    /\ action[w] = NoAction
    /\ helpAction \in {parseArguments(argv) : argv \in Argvs}
    /\ end(w, Usage)
    /\ wrote' = [wrote EXCEPT ![w] = <<>>]
    /\ UNCHANGED vars

begin(w, act) ==
    /\ action[w] = NoAction
    /\ action' = [action EXCEPT ![w] = act]
    /\ printed' = [printed EXCEPT ![w] = Silence]
    /\ wrote' = [wrote EXCEPT ![w] = <<>>]

RunQuery(w) ==
    /\ \E argv \in Argvs :
          /\ parseArguments(argv) # helpAction
          /\ ~ isCommand(parseArguments(argv))
          /\ begin(w, parseArguments(argv))
    /\ outcome' = [outcome EXCEPT ![w] = NoOutcome]
    /\ UNCHANGED <<file, pc, command, aggregate, contents, overlapped, acked, issued>>

RunCommand(w) ==
    /\ OneCommandAtATime => \A v \in Workers : pc[v] = "idle"
    /\ \E argv \in Argvs :
          /\ isCommand(parseArguments(argv))
          /\ begin(w, parseArguments(argv))
          /\ Request(w)
          /\ command'[w] = parseArguments(argv).command

\* sendCounterCommand or ToggleArticleBookmark, step by step.
Send(w) ==
    /\ Handle(w)
    /\ wrote' = [wrote EXCEPT ![w] = IF outcome'[w].tag = "Receipt" THEN contents[w] ELSE @]
    /\ UNCHANGED <<action, printed>>

mayList(w) ==
    /\ action[w] # NoAction
    /\ pc[w] = "idle"
    /\ isCommand(action[w]) => outcome[w].tag = "Receipt"

\* The list that follows: counters, or the articles of the user asked about.
listing(act, log) ==
    CASE act.tag \in {"List", "Command"} -> ListCounters(log)
      [] act.tag = "ListArticles" -> ListArticles(log, act.userId)
      [] act.tag = "ToggleBookmark" -> ListArticles(log, act.command.id)

\* Mutant: the list is made before the command is sent.
linesBefore(act, answer, log) ==
    [tag |-> "Lines", action |-> act, answer |-> answer,
     list |-> listing(act, IF log = <<>> THEN <<>> ELSE Front(log))]

lines(act, answer, log) ==
    [tag |-> "Lines", action |-> act, answer |-> answer, list |-> listing(act, log)]

PrintLines(w) ==
    /\ mayList(w)
    /\ \E log \in readJsonFileRecords : end(w, lines(action[w], outcome[w], log))
    /\ UNCHANGED <<vars, wrote>>

ListingFails(w) ==
    /\ mayList(w)
    /\ Faults \/ readJsonFileRecords = {} \/ \E v \in Workers : pc[v] = "filling"
    /\ end(w, Failure)
    /\ UNCHANGED <<vars, wrote>>

\* The command was rejected, met a conflict or could not be stored: there is no list.
CommandFailed(w) ==
    /\ action[w] # NoAction
    /\ isCommand(action[w])
    /\ pc[w] = "idle"
    /\ outcome[w].tag # "Receipt"
    /\ end(w, Failure)
    /\ UNCHANGED <<vars, wrote>>

\* The process dies, with its command under way or over.
Die(w) ==
    /\ action[w] # NoAction
    /\ Faults
    /\ Crash(w) \/ (pc[w] = "idle" /\ UNCHANGED vars)
    /\ end(w, Silence)
    /\ UNCHANGED wrote

Proceed(w) == Send(w) \/ PrintLines(w) \/ ListingFails(w) \/ CommandFailed(w)

NextCli ==
    \E w \in Workers : RunHelp(w) \/ RunQuery(w) \/ RunCommand(w) \/ Proceed(w) \/ Die(w)

SpecCli == InitCli /\ [][NextCli]_allVars

\* I/O calls return; a process may die, and nobody need start another one.
FairSpecCli == SpecCli /\ \A w \in Workers : WF_allVars(Proceed(w))

-----------------------------------------------------------------------------
\* Whatever is typed, what comes of it is complete: nothing else looks for a missing id.
CliTypeOK ==
    /\ TypeOK
    /\ \A argv \in Argvs : parseArguments(argv) \in CliAction \cup {helpAction}
    /\ action \in [Workers -> CliAction \cup {NoAction}]
    /\ \A w \in Workers :
          /\ printed[w].tag \in {"Silence", "Usage", "Failure", "Lines"}
          /\ pc[w] # "idle" => isCommand(action[w]) /\ action[w].command = command[w]

(***************************************************************************)
(* What a run prints after a command agrees with the command's receipt,    *)
(* although it comes from a second read of the file: the counter is listed *)
(* at the receipt's version or a later one; an article is marked as the    *)
(* receipt has it, unless it was toggled again in between                  *)
(* (cli/src/index.ts:159-164, 183-192).                                    *)
(***************************************************************************)
agrees(shown, own) ==
    LET c == shown.action.command
        receipt == shown.answer.receipt
    IN  IF sliceOf(c) = "counter"
        THEN \E s \in shown.list : s.counterId = c.id /\ s.version >= receipt.version
        ELSE \A a \in Catalog :
                \/ shown.list[a] = (a \in receipt.bookmarkedArticleIds)
                \/ \E log \in acked : IsStrictPrefix(own, log) /\
                      \E i \in (Len(own) + 1) .. Len(log) : log[i].event \in
                          [tag : UserEventTags, userId : {c.id}, articleId : {a}]

ListingFollowsReceipt ==
    \A w \in Workers :
        (printed[w].tag = "Lines" /\ isCommand(printed[w].action)) => agrees(printed[w], wrote[w])

(***************************************************************************)
(* Every run ends, whatever the file is like.                              *)
(***************************************************************************)
EveryRunEnds == \A w \in Workers : action[w] # NoAction ~> action[w] = NoAction
=============================================================================
