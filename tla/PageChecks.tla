----------------------------- MODULE PageChecks -----------------------------
(***************************************************************************)
(* The texts the web server writes and what is read out of them, over      *)
(* short texts: an element, a page or the answer to an id that could not   *)
(* be created is written, and a browser reads it; the key of a bookmark is *)
(* written and looked up.                                                  *)
(***************************************************************************)
EXTENDS PageViews, PageModels, HtmlReader, HrefText, BookmarkKey

VARIABLES made,    \* what is to be written
          text,    \* as it was written
          found    \* what was read out of that

checkVars == <<made, text, found>>

\* A word, all that markup gives a meaning, and the name of a character reference.
ShortTexts == BoundedSeq({"a", "<", ">", "&", "\"", "'", "lt;"}, 2)

TypedTexts == BoundedSeq({"a", "&", "=", "+", "%", "26", "\"", " "}, 3)

IdTexts == BoundedSeq({"a", ":", "1"}, 2)

Nodes ==
    {Text(t) : t \in BoundedSeq({"<", "&", "lt;"}, 2)} \cup
    {Boolean(TRUE), Boolean(FALSE), Nothing, Element("input", << <<"value", Text(absent)>> >>, <<>>)}

Props ==
    {<<>>} \cup
    {<< <<"className", v>> >> : v \in {Text(t) : t \in ShortTexts} \cup {Boolean(TRUE)}} \cup
    {<< <<"disabled", v>>, <<"value", w>> >> :
        v \in {Boolean(TRUE), Boolean(FALSE), Nothing}, w \in {Text(absent), Text(<<"\"", ">">>)}}

Elements ==
    {Element("p", props, <<>>) : props \in Props} \cup
    {Element("p", <<>>, <<n>>) : n \in Nodes} \cup
    {Element("p", <<>>, <<Array(<<n, Element("b", <<>>, <<k>>)>>), k>>) : n \in Nodes, k \in Nodes}

CounterPages ==
    LET counter(tag, id, n) == [tag |-> tag, counterId |-> id, value |-> n, version |-> n]
        lists == {<<>>, <<counter("ActiveCounter", <<"a">>, 3)>>} \cup
                 {<<counter("DisabledCounter", t, 1), counter("ActiveCounter", <<"b">>, 0)>> :
                    t \in ShortTexts \ {absent}}
    IN  {makeCounterPageModel(list, asPageError(error), typed) : list \in lists,
            error \in {"none", "missing-id", "command-failed", "else"},
            typed \in {absent, <<"\"", ">">>}}

ArticlesPages ==
    LET article(t, bookmarked) == [articleId |-> t, title |-> t \o <<" ">>, bookmarked |-> bookmarked]
        lists == {<<>>} \cup
                 {<<article(t, bookmarked), article(<<"b">>, ~ bookmarked)>> :
                    t \in ShortTexts \ {absent}, bookmarked \in BOOLEAN}
    IN  {makeArticlesPageModel(list, error) : list \in lists, error \in {"none", "command-failed"}}

Cases ==
    [tag : {"Element"}, element : Elements] \cup
    [tag : {"CounterPage"}, model : CounterPages] \cup
    [tag : {"ArticlesPage"}, model : ArticlesPages] \cup
    [tag : {"RefusedId"}, typed : TypedTexts] \cup
    [tag : {"Bookmark"}, userId : IdTexts, articleId : IdTexts]

-----------------------------------------------------------------------------
Unwritten == <<"unwritten">>
Unread == <<"unread">>

InitChecks == made \in Cases /\ text = Unwritten /\ found = Unread

write(what, value) ==
    /\ text = Unwritten
    /\ made.tag = what
    /\ text' = value
    /\ UNCHANGED <<made, found>>

WriteElement == write("Element", renderHtml(asChild(made.element)))

WriteCounterPage == write("CounterPage", renderHtml(CounterPageView(made.model)))

WriteArticlesPage == write("ArticlesPage", renderHtml(ArticlesPageView(made.model)))

\* Where the controller sends a browser whose new counter it, or the domain, refuses.
refusalOf(typed) ==
    IF trim(typed) = absent THEN counterHomeHref("missing-id", absent)
    ELSE counterHomeHref("command-failed", trim(typed))

\* The page that the redirect leads to, its parameters having gone through a URL.
WriteRefusedId ==
    write("RefusedId",
        LET href == HomeQuery(hrefText(refusalOf(made.typed)))
        IN  renderHtml(CounterPageView(
                makeCounterPageModel(<<>>, asPageError(href.error), href.newCounterId))))

decimalDigits == [n \in 0 .. 9 |-> <<ToString(n)>>]

WriteBookmark == write("Bookmark", bookmarkProjectionKey(decimalDigits, made.userId, made.articleId))

ReadMarkup ==
    /\ text # Unwritten /\ found = Unread
    /\ made.tag # "Bookmark"
    /\ found' = read(text)
    /\ UNCHANGED <<made, text>>

\* The bookmarks that a lookup by the key finds.
LookUp ==
    /\ text # Unwritten /\ found = Unread
    /\ made.tag = "Bookmark"
    /\ found' = SetToSeq({<<u, a>> \in IdTexts \X IdTexts :
                            bookmarkProjectionKey(decimalDigits, u, a) = text})
    /\ UNCHANGED <<made, text>>

NextChecks ==
    \/ WriteElement
    \/ WriteCounterPage
    \/ WriteArticlesPage
    \/ WriteRefusedId
    \/ WriteBookmark
    \/ ReadMarkup
    \/ LookUp

SpecChecks == InitChecks /\ [][NextChecks]_checkVars

isRead(what) == made.tag = what /\ found # Unread

-----------------------------------------------------------------------------
(***************************************************************************)
(* What is written is read back as what was meant: an element's own tags   *)
(* and attributes with the values given, and between them its children in  *)
(* order, whatever characters their texts are made of (mvc/html.ts).       *)
(***************************************************************************)
ElementsReadAsMeant == isRead("Element") => found = joined(tokensMeant(made.element))

\* The texts a reader should see of each part of a page, in order; empty ones do not show.
alertTexts(alert) == IF alert.tag = "AlertHidden" THEN <<>> ELSE <<alert.message>>

fieldTexts(field) ==
    <<field.label>> \o
    IF field.presentation.tag = "TextFieldPresentationError" THEN <<field.presentation.message>>
    ELSE <<>>

listTexts(list, rowTexts(_)) ==
    LET rows == rowsOf(list)
    IN  IF rows = <<>> THEN <<list.message>>
        ELSE FlattenSeq([i \in DOMAIN rows |-> rowTexts(rows[i])])

counterRowTexts(row) ==
    <<row.counterId, row.valueText, row.statusText, row.versionText>> \o
    [i \in DOMAIN row.actions |-> row.actions[i].button.label]

articleRowTexts(row) ==
    <<row.indexText, row.title, row.bookmark.statusText, row.articleId, row.button.label>>

counterPageTexts(model) ==
    <<model.document.title, model.heading, model.intro>> \o alertTexts(model.alert) \o
    fieldTexts(model.newCounterField) \o <<model.createButton.label>> \o
    listTexts(model.list, counterRowTexts)

articlesPageTexts(model) ==
    <<model.document.title, model.eyebrow, model.heading, model.intro>> \o
    alertTexts(model.alert) \o listTexts(model.list, articleRowTexts)

\* A form of a page model, as a browser has it.
asRead(form) ==
    [action |-> <<form.action>>, method |-> <<"post">>, label |-> form.label,
     body |-> [name \in {<<n>> : n \in DOMAIN form.body} |-> form.body[Head(name)]]]

showsAndPosts(texts, forms) ==
    textsRead(found) = texts /\ formsRead(found) = [i \in DOMAIN forms |-> asRead(forms[i])]

(***************************************************************************)
(* A page has a model that its schema accepts (make throws on any other),  *)
(* and is read as that model says: the same texts, and the same forms with *)
(* the same fields and labels, in the same order.  This is what WebApp     *)
(* takes for granted of a browser (models and views/pages).                *)
(***************************************************************************)
PagesReadAsMade ==
    /\ isRead("CounterPage") =>
            /\ made.model \in CounterPageModel
            /\ showsAndPosts(counterPageTexts(made.model), counterPageForms(made.model))
    /\ isRead("ArticlesPage") =>
            /\ made.model \in ArticlesPageModel
            /\ showsAndPosts(articlesPageTexts(made.model), articlesPageForms(made.model))

(***************************************************************************)
(* The page of an id that could not be created has it in the field again,  *)
(* less the blanks around it and nothing else, having gone through the     *)
(* redirect's text, the query, the model, the markup and the browser; and  *)
(* it tells of a missing id if nothing but blanks was typed, of a failed   *)
(* command otherwise (postCreateCounter.controller.ts, routes.ts,          *)
(* TextField.view.tsx).                                                    *)
(***************************************************************************)
TypedIdComesBack ==
    isRead("RefusedId") =>
        LET typed == made.typed
            field == formsRead(found)[1].body[<<"counterId">>]
            tells(id) == webI18n(id) \in Range(textsRead(found))
        IN  /\ \E from, to \in 0 .. Len(typed) :
                  /\ field = SubSeq(typed, from + 1, to)
                  /\ \A i \in DOMAIN typed : i \in (from + 1) .. to \/ typed[i] = " "
            /\ field # absent => Head(field) # " " /\ Last(field) # " "
            /\ tells("counter.error.missingId") <=> field = absent
            /\ tells("counter.error.commandFailed") <=> field # absent

(***************************************************************************)
(* A lookup by a bookmark's key finds that bookmark and no other one,      *)
(* whatever colons and digits the two identities are made of               *)
(* (bookmarkProjectionKey in user/readModels.ts).                          *)
(***************************************************************************)
KeysUnambiguous == isRead("Bookmark") => found = << <<made.userId, made.articleId>> >>
=============================================================================
