------------------------------ MODULE WebPages ------------------------------
(***************************************************************************)
(* What the web server shows: the factories that turn read models into the *)
(* models of the two pages (packages/web/src/factories), and the hrefs     *)
(* that a POST redirects to (routes.ts).                                   *)
(*                                                                         *)
(* A text is a sequence of symbols, and a message of the catalog is one    *)
(* symbol, its id.  A text that is absent is empty: every use below treats *)
(* the two alike.                                                          *)
(***************************************************************************)
EXTENDS SequencesExt, Naturals

absent == <<>>
webI18n(id) == <<id>>

webRoutes == [home |-> "/", articles |-> "/articles", clientStylesheet |-> "/client.css"]

webActions == [createCounter |-> "/actions/counter/create",
               runCounterCommand |-> "/actions/counter/command",
               toggleBookmark |-> "/actions/articles/toggle-bookmark"]

\* Of the white space a blank stands for all.
trim(text) ==
    LET kept == {i \in DOMAIN text : text[i] # " "}
    IN  IF kept = {} THEN absent ELSE SubSeq(text, Min(kept), Max(kept))

\* A redirect's target: encodeURIComponent lets the parameters come back as they went.
counterHomeHref(error, newCounterId) ==
    [route |-> webRoutes.home, error |-> error, newCounterId |-> newCounterId]

articlesHref(error) ==
    [route |-> webRoutes.articles, error |-> error, newCounterId |-> absent]

-----------------------------------------------------------------------------
makeAlertModel(message) ==
    IF message = absent THEN [tag |-> "AlertHidden"]
    ELSE [tag |-> "AlertVisible", message |-> message]

makeHtmlDocumentModel(title) ==
    [title |-> title, description |-> webI18n("web.document.description"),
     stylesheetHref |-> <<webRoutes.clientStylesheet>>]

makePostFormModel(action, hiddenFields) == [action |-> action, hiddenFields |-> hiddenFields]

makeSubmitButtonModel(label, tone) == [label |-> label, tone |-> tone]

makePresentation(errorMessage) ==
    IF errorMessage = absent THEN [tag |-> "TextFieldPresentationDefault"]
    ELSE [tag |-> "TextFieldPresentationError", message |-> errorMessage]

makeTextFieldModel(errorMessage, id, label, name, placeholder, value) ==
    [id |-> id, label |-> label, name |-> name, placeholder |-> placeholder, value |-> value,
     presentation |-> makePresentation(errorMessage)]

hiddenField(name, value) == [name |-> name, value |-> value]

-----------------------------------------------------------------------------
asPageError(error) == IF error \in {"missing-id", "command-failed"} THEN error ELSE "none"

alertMessage(error) ==
    IF error = "command-failed" THEN webI18n("counter.error.commandFailed") ELSE absent

fieldErrorMessage(error) ==
    IF error = "missing-id" THEN webI18n("counter.error.missingId") ELSE absent

counterActions == <<"increment", "decrement", "disable">>

actionLabel(verb) ==
    webI18n(CASE verb = "increment" -> "counter.action.increment"
              [] verb = "decrement" -> "counter.action.decrement"
              [] verb = "disable" -> "counter.action.disable")

makeActionControl(counterId, verb) ==
    [button |-> makeSubmitButtonModel(actionLabel(verb), "secondary"),
     form |-> makePostFormModel(webActions.runCounterCommand,
                <<hiddenField("counterId", counterId), hiddenField("verb", <<verb>>)>>)]

makeCounterRow(counter) ==
    [actions |-> [i \in DOMAIN counterActions |->
                    makeActionControl(counter.counterId, counterActions[i])],
     counterId |-> counter.counterId,
     statusText |-> <<"status=", IF counter.tag = "DisabledCounter" THEN "disabled" ELSE "active">>,
     valueText |-> <<"value=", ToString(counter.value)>>,
     versionText |-> <<"version=", ToString(counter.version)>>]

makeCounterList(counters) ==
    IF counters = <<>>
    THEN [tag |-> "CounterListEmpty", message |-> webI18n("counter.list.empty")]
    ELSE [tag |-> "CounterListPopulated",
          rows |-> [i \in DOMAIN counters |-> makeCounterRow(counters[i])]]

makeCounterPageModel(counters, error, newCounterId) ==
    [alert |-> makeAlertModel(alertMessage(error)),
     createButton |-> makeSubmitButtonModel(webI18n("counter.create.submit"), "primary"),
     createForm |-> makePostFormModel(webActions.createCounter, <<>>),
     document |-> makeHtmlDocumentModel(webI18n("counter.documentTitle")),
     heading |-> webI18n("counter.heading"),
     intro |-> webI18n("counter.intro"),
     list |-> makeCounterList(counters),
     newCounterField |-> makeTextFieldModel(fieldErrorMessage(error), "new-counter-id",
                            webI18n("counter.create.field.label"), "counterId",
                            webI18n("counter.create.field.placeholder"), newCounterId)]

-----------------------------------------------------------------------------
makeBookmarkPresentation(bookmarked) ==
    IF bookmarked
    THEN [tag |-> "ArticleSaved", statusText |-> webI18n("articles.bookmark.saved")]
    ELSE [tag |-> "ArticleNotSaved", statusText |-> webI18n("articles.bookmark.notSaved")]

makeToggleButton(bookmarked) ==
    IF bookmarked THEN makeSubmitButtonModel(webI18n("articles.action.remove"), "secondary")
    ELSE makeSubmitButtonModel(webI18n("articles.action.bookmark"), "primary")

makeArticleRow(article, index) ==
    [articleId |-> article.articleId,
     bookmark |-> makeBookmarkPresentation(article.bookmarked),
     button |-> makeToggleButton(article.bookmarked),
     form |-> makePostFormModel(webActions.toggleBookmark,
                <<hiddenField("articleId", article.articleId)>>),
     indexText |-> <<"0", ToString(index)>>,
     title |-> article.title]

makeArticleList(articles) ==
    IF articles = <<>>
    THEN [tag |-> "ArticleListEmpty", message |-> webI18n("articles.list.empty")]
    ELSE [tag |-> "ArticleListPopulated",
          rows |-> [i \in DOMAIN articles |-> makeArticleRow(articles[i], i)]]

makeArticlesPageModel(articles, error) ==
    [alert |-> makeAlertModel(IF error = "command-failed"
                              THEN webI18n("articles.error.commandFailed") ELSE absent),
     document |-> makeHtmlDocumentModel(webI18n("articles.documentTitle")),
     eyebrow |-> webI18n("articles.eyebrow"),
     heading |-> webI18n("articles.heading"),
     intro |-> webI18n("articles.intro"),
     list |-> makeArticleList(articles)]
-----------------------------------------------------------------------------
(***************************************************************************)
(* The forms of a page in their order, as a browser posts them when        *)
(* nothing is typed: what the bodies in server.ts are decoded from.        *)
(***************************************************************************)
posting(control) ==
    LET fields == control.form.hiddenFields
    IN  [action |-> control.form.action, label |-> control.button.label,
         body |-> [name \in {fields[i].name : i \in DOMAIN fields} |->
                     fields[CHOOSE i \in DOMAIN fields : fields[i].name = name].value]]

rowsOf(list) == IF list.tag \in {"CounterListEmpty", "ArticleListEmpty"} THEN <<>> ELSE list.rows

createForm(model) ==
    [action |-> model.createForm.action, label |-> model.createButton.label,
     body |-> [counterId |-> model.newCounterField.value]]

counterForms(row) == [k \in DOMAIN row.actions |-> posting(row.actions[k])]

counterPageForms(model) ==
    LET rows == rowsOf(model.list)
    IN  <<createForm(model)>> \o FlattenSeq([i \in DOMAIN rows |-> counterForms(rows[i])])

articlesPageForms(model) ==
    LET rows == rowsOf(model.list) IN [i \in DOMAIN rows |-> posting(rows[i])]
=============================================================================
