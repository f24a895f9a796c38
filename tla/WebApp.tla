------------------------------- MODULE WebApp -------------------------------
(***************************************************************************)
(* The web server (packages/web) with the browsers in front of it and the  *)
(* command handlers of CommandSystem behind it, over the in-memory store.  *)
(* A browser shows a page rendered from the log as it was at some time,    *)
(* and posts the page's forms.  A POST runs one command through the        *)
(* in-process RPC clients and answers a redirect, which tells of a failure *)
(* in its query; the browser then GETs it.  There is no session: all that  *)
(* links an answer to its form is the redirect.                            *)
(*                                                                         *)
(* Nothing stops a browser from posting again while it waits, in which     *)
(* case it shows the answer of the last form only, or from giving up and   *)
(* posting the same form anew: the server carries out every form it gets.  *)
(* A GET reads the log once, so its read and its page are one step.        *)
(***************************************************************************)
EXTENDS CommandSystem, WebPages

CONSTANT Browsers

VARIABLES phase, clientWrite, calls,   \* of InProcessRpc; a call is made by the fiber it runs
          page,      \* what each browser shows: an href, and the log's length when rendered
          waits,     \* what it waits for: nothing, a POST's answer, or a redirect's page
          posted,    \* the form each fiber serves
          sent,      \* ghost: every form that asked for a command, and the page it was on
          origin     \* ghost: for each event of the log, the form it is due to

webVars == <<page, waits, posted, sent, origin>>
allVars == <<vars, phase, clientWrite, calls, webVars>>

RpcGroups == Slices \X {"commands", "queries"}

Rpc == INSTANCE InProcessRpc WITH Groups <- RpcGroups, Callers <- Handlers

\* The one user there is without authentication: loggedInUserId, "FooBar" in the source.
loggedInUserId == CHOOSE u \in UserIds : TRUE

ASSUME LoggedInUserAssumption == UserIds = {loggedInUserId}

NoPage == [href |-> counterHomeHref("none", absent), asOf |-> 0, answers |-> 0]
NotWaiting == [tag |-> "NotWaiting"]
NoForm == [browser |-> "none", number |-> 0]

InitWeb ==
    /\ Init
    /\ Rpc!InitRpc
    /\ page = [b \in Browsers |-> NoPage]
    /\ waits = [b \in Browsers |-> NotWaiting]
    /\ posted = [h \in Handlers |-> NoForm]
    /\ sent = <<>>
    /\ origin = <<>>

-----------------------------------------------------------------------------
(***************************************************************************)
(* GET: the page of an href, rendered from the first n events.             *)
(***************************************************************************)
logAt(n) == SubSeq(records, 1, n)

counterViews(n) ==
    LET summaries == SetToSeq(ListCounters(logAt(n)))
    IN  [i \in DOMAIN summaries |-> [summaries[i] EXCEPT !.counterId = <<@>>]]

articleViews(n) ==
    LET articles == SetToSeq(Catalog)
        bookmarked == ListArticles(logAt(n), loggedInUserId)
    IN  [i \in DOMAIN articles |->
            [articleId |-> <<articles[i]>>, title |-> <<articles[i]>>,
             bookmarked |-> bookmarked[articles[i]]]]

getCounterPage(href, n) ==
    makeCounterPageModel(counterViews(n), asPageError(href.error), href.newCounterId)

getArticlesPage(href, n) ==
    makeArticlesPageModel(articleViews(n),
        IF href.error = "command-failed" THEN "command-failed" ELSE "none")

pageModel(p) ==
    IF p.href.route = webRoutes.home THEN getCounterPage(p.href, p.asOf)
    ELSE getArticlesPage(p.href, p.asOf)

\* What a user may type as the id of a new counter.
Typed == {<<" ">>} \cup {<<" ", c>> : c \in CounterIds}

\* The forms of a page as they may be posted: any id may be typed in the field.
formsOn(p) ==
    LET model == pageModel(p)
    IN  IF p.href.route = webRoutes.home
        THEN {[createForm(model) EXCEPT !.body.counterId = typed] : typed \in Typed} \cup
             UNION {Range(counterForms(row)) : row \in Range(rowsOf(model.list))}
        ELSE Range(articlesPageForms(model))

-----------------------------------------------------------------------------
(***************************************************************************)
(* POST: the command a form asks for, and the redirect it is answered.     *)
(***************************************************************************)
postCreateCounter(body) ==
    IF trim(body.counterId) = absent THEN NoCommand
    ELSE [tag |-> "CreateCounter", id |-> Head(trim(body.counterId))]

runVerb(body) ==
    [tag |-> CASE body.verb = <<"increment">> -> "IncrementCounter"
               [] body.verb = <<"decrement">> -> "DecrementCounter"
               [] body.verb = <<"disable">> -> "DisableCounter",
     id |-> Head(body.counterId)]

postToggleBookmark(body) ==
    [tag |-> "ToggleArticleBookmark", id |-> loggedInUserId, articleId |-> Head(body.articleId)]

commandOf(form) ==
    CASE form.action = webActions.createCounter -> postCreateCounter(form.body)
      [] form.action = webActions.runCounterCommand -> runVerb(form.body)
      [] form.action = webActions.toggleBookmark -> postToggleBookmark(form.body)

\* Mutant: only what the domain rejects is told.
errorOfRejection(answer) ==
    IF answer.tag = "Rejected" THEN "command-failed" ELSE "none"

\* Every failure of a command is caught and told alike.
errorOf(answer) ==
    IF answer.tag = "Receipt" THEN "none" ELSE "command-failed"

redirectOf(form, answer) ==
    LET error == errorOf(answer)
    IN  IF form.action = webActions.toggleBookmark THEN articlesHref(error)
        ELSE counterHomeHref(error,
                IF form.action = webActions.createCounter /\ error # "none"
                THEN trim(form.body.counterId) ELSE absent)

follow(href, number) == [tag |-> "Following", href |-> href, answers |-> number]

Wire(g) == Rpc!Wire(g) /\ UNCHANGED <<vars, webVars>>

\* The user opens one of the two pages, by its address.
Open(b) ==
    /\ Rpc!built
    /\ \E href \in {counterHomeHref("none", absent), articlesHref("none")} :
          page' = [page EXCEPT ![b] = [href |-> href, asOf |-> Len(records), answers |-> 0]]
    /\ waits' = [waits EXCEPT ![b] = NotWaiting]
    /\ UNCHANGED <<vars, phase, clientWrite, calls, posted, sent, origin>>

\* The same address is got again, with what it says of the form it answered.
Reload(b) ==
    /\ Rpc!built
    /\ waits[b] = NotWaiting
    /\ page' = [page EXCEPT ![b].asOf = Len(records)]
    /\ UNCHANGED <<vars, phase, clientWrite, calls, waits, posted, sent, origin>>

\* A form that asks for no command is answered by its controller alone.
PostBlank(b) ==
    /\ Rpc!built
    /\ \E form \in formsOn(page[b]) : commandOf(form) = NoCommand
    /\ waits' = [waits EXCEPT ![b] = follow(counterHomeHref("missing-id", absent), 0)]
    /\ UNCHANGED <<vars, phase, clientWrite, calls, page, posted, sent, origin>>

\* A form whose body cannot be read or decoded reaches no controller: it is answered with
\* the plain address of its page, as one that went through is.
unreadHref(form) ==
    IF form.action = webActions.toggleBookmark THEN articlesHref("none")
    ELSE counterHomeHref("none", absent)

PostUnread(b) ==
    /\ Rpc!built
    /\ \E form \in formsOn(page[b]) :
          waits' = [waits EXCEPT ![b] = follow(unreadHref(form), 0)]
    /\ UNCHANGED <<vars, phase, clientWrite, calls, page, posted, sent, origin>>

\* A request is served by a fiber of its own, here the first one that is not in use.
fresh == CHOOSE h \in Handlers : posted[h] = NoForm

Post(b, h) ==
    /\ Rpc!built
    /\ posted[h] = NoForm /\ h = fresh
    /\ \E form \in formsOn(page[b]) :
          /\ Request(h)
          /\ command'[h] = commandOf(form)
          /\ Rpc!Call(h, <<sliceOf(commandOf(form)), "commands">>)
          /\ sent' = Append(sent, [form |-> form, asOf |-> page[b].asOf])
    /\ posted' = [posted EXCEPT ![h] = [browser |-> b, number |-> issued']]
    /\ waits' = [waits EXCEPT ![b] = [tag |-> "Waiting", fiber |-> h]]
    /\ UNCHANGED <<page, origin>>

\* A step of the command's handler, behind the RPC server.
Serve(h) ==
    /\ posted[h] # NoForm
    /\ Handle(h)
    /\ origin' = IF records' = records THEN origin ELSE Append(origin, posted[h].number)
    /\ UNCHANGED <<phase, clientWrite, calls, page, waits, posted, sent>>

\* The fiber of an answered request is gone.
forget(h) ==
    /\ command' = [command EXCEPT ![h] = NoCommand]
    /\ outcome' = [outcome EXCEPT ![h] = NoOutcome]
    /\ seen' = [seen EXCEPT ![h] = 0]

\* The answer reaches the controller, and its redirect the browser that still waits for it.
Redirect(h) ==
    /\ posted[h] # NoForm
    /\ pc[h] = "idle"
    /\ Rpc!Answer(h, <<slice(h), "commands">>)
    /\ LET b == posted[h].browser
           number == posted[h].number
       IN  waits' = IF waits[b] # [tag |-> "Waiting", fiber |-> h] THEN waits
                    ELSE [waits EXCEPT ![b] =
                            follow(redirectOf(sent[number].form, outcome[h]), number)]
    /\ posted' = [posted EXCEPT ![h] = NoForm]
    /\ forget(h)
    /\ UNCHANGED <<records, pc, aggregate, issued, page, sent, origin>>

Follow(b) ==
    /\ waits[b].tag = "Following"
    /\ page' = [page EXCEPT ![b] = [href |-> waits[b].href, asOf |-> Len(records),
                                    answers |-> waits[b].answers]]
    /\ waits' = [waits EXCEPT ![b] = NotWaiting]
    /\ UNCHANGED <<vars, phase, clientWrite, calls, posted, sent, origin>>

\* The connection breaks, or the user stops it; the server carries on.
GiveUp(b) ==
    /\ waits[b].tag = "Waiting"
    /\ waits' = [waits EXCEPT ![b] = NotWaiting]
    /\ UNCHANGED <<vars, phase, clientWrite, calls, page, posted, sent, origin>>

NextWeb ==
    \/ \E g \in RpcGroups : Wire(g)
    \/ \E b \in Browsers :
          Open(b) \/ Reload(b) \/ PostBlank(b) \/ PostUnread(b) \/ Follow(b) \/ GiveUp(b)
    \/ \E b \in Browsers, h \in Handlers : Post(b, h)
    \/ \E h \in Handlers : Serve(h) \/ Redirect(h)

SpecWeb == InitWeb /\ [][NextWeb]_allVars

\* The scheduler resumes every runnable fiber, those that build the layer included.
FairSpecWeb ==
    /\ SpecWeb
    /\ \A g \in RpcGroups : WF_allVars(Wire(g))
    /\ \A h \in Handlers : WF_allVars(Serve(h)) /\ WF_allVars(Redirect(h))

-----------------------------------------------------------------------------
WebTypeOK ==
    /\ TypeOK
    /\ phase \in [RpcGroups -> {"start", "server", "client", "returned"}]
    /\ clientWrite \in [RpcGroups -> BOOLEAN]
    /\ calls \subseteq Handlers \X RpcGroups
    /\ Len(sent) = issued
    /\ Len(origin) = Len(records)
    /\ \A i \in DOMAIN origin : origin[i] \in 1 .. issued
    /\ \A h \in Handlers :
          /\ posted[h].number \in 0 .. issued
          /\ (posted[h] = NoForm) <=> (\A g \in RpcGroups : <<h, g>> \notin calls)
    /\ \A b \in Browsers :
          /\ page[b].asOf \in 0 .. Len(records)
          /\ page[b].answers \in 0 .. issued
          /\ waits[b].tag \in {"NotWaiting", "Waiting", "Following"}

formOf(i) == sent[origin[i]]

(***************************************************************************)
(* A form is carried out once at most, whether or not its browser waits    *)
(* for the answer: nothing on the way repeats it.                          *)
(***************************************************************************)
FormsCarriedOutOnce ==
    \A i, j \in DOMAIN origin : origin[i] = origin[j] => i = j

(***************************************************************************)
(* The page a browser is redirected to tells the truth about the form      *)
(* whose command it answers: with an alert the form stored nothing,        *)
(* without one its event is in the log the page was rendered from, however *)
(* many other forms, double clicks and lost answers there are; and no      *)
(* alert is shown that does not answer a command (controllers).            *)
(*                                                                         *)
(* A page without an alert that answers no command says nothing of one: a  *)
(* form whose body was not read is redirected without an alert too, and    *)
(* stored nothing (PostUnread, server.ts).  Its number is 0.               *)
(***************************************************************************)
AlertsAreTruthful ==
    \A b \in Browsers :
        IF page[b].href.error = "command-failed"
        THEN /\ page[b].answers > 0
             /\ \A i \in DOMAIN origin : origin[i] # page[b].answers
        ELSE page[b].answers > 0 =>
                \E i \in 1 .. page[b].asOf : origin[i] = page[b].answers

(***************************************************************************)
(* A form is refused for a cause: its command was not possible on the page *)
(* it was posted from, or the stream it is about has moved on since.  A    *)
(* bookmark button in particular always works, unless another toggle came  *)
(* between (factories/pages, postToggleBookmark.controller.ts).            *)
(***************************************************************************)
RefusalsHaveCause ==
    \A b \in Browsers :
        (page[b].answers > 0 /\ page[b].href.error = "command-failed") =>
            LET form == sent[page[b].answers]
                c == commandOf(form.form)
                shown == load(sliceOf(c), logAt(form.asOf), c.id)
            IN  \/ isFailure(decide(c, shown.state))
                \/ \E i \in (form.asOf + 1) .. Len(records) : records[i].aggregateId = c.id

(***************************************************************************)
(* A bookmark button does what its label says, unless the article was      *)
(* toggled after the page was rendered: by someone else, or by the same    *)
(* form sent twice, whose second event undoes the first.                   *)
(***************************************************************************)
TogglesAsLabelled ==
    \A i \in DOMAIN origin : formOf(i).form.action = webActions.toggleBookmark =>
        \/ records[i].event.tag =
              IF formOf(i).form.label = webI18n("articles.action.bookmark")
              THEN "ArticleBookmarked" ELSE "ArticleBookmarkRemoved"
        \/ \E j \in (formOf(i).asOf + 1) .. (i - 1) :
              /\ records[j].aggregateId = records[i].aggregateId
              /\ records[j].event.articleId = records[i].event.articleId

(***************************************************************************)
(* Every POST is answered: the server's answer waits for the Deferred of   *)
(* its client, which is set before anyone can call (rpc/inProcess.ts).     *)
(***************************************************************************)
EveryFormAnswered == \A h \in Handlers : posted[h] # NoForm ~> posted[h] = NoForm
=============================================================================
