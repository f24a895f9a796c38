----------------------------- MODULE PageModels -----------------------------
(***************************************************************************)
(* The schemas of the page models (packages/web/src/models).  make throws  *)
(* on a value outside its schema, and a page whose model throws cannot be  *)
(* shown.  Where the code says NonEmptyArray so does a schema here.        *)
(***************************************************************************)
EXTENDS Sequences

Symbols == STRING
Texts == Seq(Symbols)
NonEmptySeq(S) == Seq(S) \ {<<>>}

AlertModel == [tag : {"AlertHidden"}] \cup [tag : {"AlertVisible"}, message : Texts]

HtmlDocumentModel == [description : Texts, stylesheetHref : Texts, title : Texts]

HiddenFieldModel == [name : Symbols, value : Texts]

PostFormModel == [action : Symbols, hiddenFields : Seq(HiddenFieldModel)]

SubmitButtonModel == [label : Texts, tone : {"primary", "secondary"}]

TextFieldPresentation ==
    [tag : {"TextFieldPresentationDefault"}] \cup
    [tag : {"TextFieldPresentationError"}, message : Texts]

TextFieldModel ==
    [id : Symbols, label : Texts, name : Symbols, placeholder : Texts, value : Texts,
     presentation : TextFieldPresentation]

-----------------------------------------------------------------------------
CounterActionControl == [button : SubmitButtonModel, form : PostFormModel]

CounterRow ==
    [actions : NonEmptySeq(CounterActionControl), counterId : Texts,
     statusText : Texts, valueText : Texts, versionText : Texts]

CounterListPresentation ==
    [tag : {"CounterListEmpty"}, message : Texts] \cup
    [tag : {"CounterListPopulated"}, rows : NonEmptySeq(CounterRow)]

CounterPageModel ==
    [alert : AlertModel, createButton : SubmitButtonModel, createForm : PostFormModel,
     document : HtmlDocumentModel, heading : Texts, intro : Texts,
     list : CounterListPresentation, newCounterField : TextFieldModel]

-----------------------------------------------------------------------------
ArticleBookmarkPresentation == [tag : {"ArticleSaved", "ArticleNotSaved"}, statusText : Texts]

ArticleRow ==
    [articleId : Texts, bookmark : ArticleBookmarkPresentation, button : SubmitButtonModel,
     form : PostFormModel, indexText : Texts, title : Texts]

ArticleListPresentation ==
    [tag : {"ArticleListEmpty"}, message : Texts] \cup
    [tag : {"ArticleListPopulated"}, rows : NonEmptySeq(ArticleRow)]

ArticlesPageModel ==
    [alert : AlertModel, document : HtmlDocumentModel, eyebrow : Texts, heading : Texts,
     intro : Texts, list : ArticleListPresentation]
=============================================================================
