----------------------------- MODULE PageViews -----------------------------
(***************************************************************************)
(* The views of the two pages (packages/web/src/views) and of the controls *)
(* they are made of: from a page model of WebPages to markup.  Attributes  *)
(* that carry style or mark elements for tests are left out, except the    *)
(* class that depends on the model and the identities of rows.             *)
(***************************************************************************)
EXTENDS WebPages, Html

txt(word) == Text(<<word>>)
renderNothing == Fragment(<<>>)

AlertView(model) ==
    IF model.tag = "AlertHidden" THEN renderNothing
    ELSE jsx("p", << <<"role", txt("alert")>> >>, Text(model.message))

HtmlDocumentView(model, body) ==
    htmlDocument(jsx("html", << <<"lang", txt("en")>> >>, Array(<<
        jsx("head", <<>>, Array(<<
            jsx("meta", << <<"content", Text(model.description)>>,
                           <<"name", txt("description")>> >>, Array(<<>>)),
            jsx("title", <<>>, Text(model.title)),
            jsx("link", << <<"href", Text(model.stylesheetHref)>>,
                           <<"rel", txt("stylesheet")>> >>, Array(<<>>))>>)),
        jsx("body", <<>>, body)>>)))

\* A model without an encoding, which is every one the factories make, has no enctype.
hiddenInput(field) ==
    jsx("input", << <<"name", txt(field.name)>>, <<"type", txt("hidden")>>,
                    <<"value", Text(field.value)>> >>, Array(<<>>))

PostFormView(model, slot) ==
    jsx("form", << <<"action", txt(model.action)>>, <<"method", txt("post")>> >>,
        Array(<<Array([i \in DOMAIN model.hiddenFields |-> hiddenInput(model.hiddenFields[i])]),
                slot>>))

buttonClassName(tone) == IF tone = "primary" THEN "btn-primary" ELSE "btn-secondary"

SubmitButtonView(model) ==
    jsx("button", << <<"className", txt(buttonClassName(model.tone))>>,
                     <<"type", txt("submit")>> >>, Text(model.label))

inputClassName(presentation) ==
    IF presentation.tag = "TextFieldPresentationDefault" THEN "input" ELSE "input-error"

errorView(presentation) ==
    IF presentation.tag = "TextFieldPresentationDefault" THEN renderNothing
    ELSE jsx("span", << <<"role", txt("alert")>> >>, Text(presentation.message))

TextFieldView(model) ==
    jsx("label", << <<"for", txt(model.id)>> >>, Array(<<
        Text(model.label),
        jsx("input", << <<"className", txt(inputClassName(model.presentation))>>,
                        <<"id", txt(model.id)>>, <<"name", txt(model.name)>>,
                        <<"placeholder", Text(model.placeholder)>>,
                        <<"type", txt("text")>>, <<"value", Text(model.value)>> >>, Array(<<>>)),
        errorView(model.presentation)>>))

-----------------------------------------------------------------------------
counterRowView(row) ==
    jsx("li", << <<"data-counter-id", Text(row.counterId)>> >>, Array(<<
        jsx("span", <<>>, Text(row.counterId)),
        jsx("span", <<>>, Text(row.valueText)),
        jsx("span", <<>>, Text(row.statusText)),
        jsx("span", <<>>, Text(row.versionText)),
        jsx("span", <<>>, Array([i \in DOMAIN row.actions |->
            PostFormView(row.actions[i].form, SubmitButtonView(row.actions[i].button))]))>>))

counterListView(list) ==
    IF list.tag = "CounterListEmpty" THEN jsx("p", <<>>, Text(list.message))
    ELSE jsx("ul", <<>>, Array([i \in DOMAIN list.rows |-> counterRowView(list.rows[i])]))

CounterPageView(model) ==
    HtmlDocumentView(model.document, jsx("main", <<>>, Array(<<
        jsx("header", <<>>, Array(<<jsx("h1", <<>>, Text(model.heading)),
                                    jsx("p", <<>>, Text(model.intro))>>)),
        AlertView(model.alert),
        PostFormView(model.createForm,
            jsx("section", <<>>, Array(<<TextFieldView(model.newCounterField),
                                         SubmitButtonView(model.createButton)>>))),
        counterListView(model.list)>>)))

bookmarkStatusView(bookmark) == jsx("span", <<>>, Text(bookmark.statusText))

articleRowView(row) ==
    jsx("li", << <<"data-article-id", Text(row.articleId)>> >>, Array(<<
        jsx("span", <<>>, Text(row.indexText)),
        jsx("section", <<>>, Array(<<
            jsx("h2", <<>>, Text(row.title)),
            jsx("div", <<>>, Array(<<bookmarkStatusView(row.bookmark),
                                     jsx("span", <<>>, Text(row.articleId))>>))>>)),
        PostFormView(row.form, SubmitButtonView(row.button))>>))

articleListView(list) ==
    IF list.tag = "ArticleListEmpty" THEN jsx("p", <<>>, Text(list.message))
    ELSE jsx("ol", <<>>, Array([i \in DOMAIN list.rows |-> articleRowView(list.rows[i])]))

ArticlesPageView(model) ==
    HtmlDocumentView(model.document, jsx("main", <<>>, Array(<<
        jsx("header", <<>>, Array(<<jsx("p", <<>>, Text(model.eyebrow)),
                                    jsx("h1", <<>>, Text(model.heading)),
                                    jsx("p", <<>>, Text(model.intro))>>)),
        AlertView(model.alert),
        articleListView(model.list)>>)))
=============================================================================
