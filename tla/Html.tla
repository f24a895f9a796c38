-------------------------------- MODULE Html --------------------------------
(***************************************************************************)
(* The markup writer of the web server (packages/web/src/mvc/html.ts and   *)
(* jsx-runtime.ts).  A text is a sequence of symbols, as in EscapedText.   *)
(*                                                                         *)
(* A child is an element already written (Html), a text (strings and       *)
(* numbers), a Boolean, Nothing (null and undefined), or an Array of       *)
(* children.  Props are a sequence of pairs, in the order of Rec.toEntries,*)
(* without the children, which jsx-runtime.ts passes on their own.         *)
(***************************************************************************)
EXTENDS EscapedText

html(value) == [kind |-> "Html", value |-> value]
Text(value) == [kind |-> "Text", value |-> value]
Boolean(truth) == [kind |-> "Boolean", truth |-> truth]
Nothing == [kind |-> "Nothing"]
Array(items) == [kind |-> "Array", items |-> items]

renderHtml(value) == value.value
htmlDocument(value) == html(<<"<!doctype html>">> \o renderHtml(value))

-----------------------------------------------------------------------------
childRendersEmpty(child) == child = Nothing \/ child = Boolean(FALSE)

RECURSIVE renderChild(_)
renderChild(child) ==
    CASE childRendersEmpty(child) -> <<>>
      [] child.kind = "Html" -> child.value
      [] child.kind = "Array" -> FlattenSeq([i \in DOMAIN child.items |-> renderChild(child.items[i])])
      [] child.kind = "Text" -> escapeHtml(child.value)
      [] child = Boolean(TRUE) -> <<"true">>

-----------------------------------------------------------------------------
attributeName(name) == IF name = "className" THEN "class" ELSE name

attributeRendersEmpty(name, value) ==
    name = "children" \/ value = Nothing \/ value = Boolean(FALSE)

\* Mutant: an empty text is taken for no text.
renderAttributeUnlessBlank(name, value) ==
    IF attributeRendersEmpty(name, value) \/ value = Text(<<>>) THEN <<>>
    ELSE <<" ", attributeName(name)>> \o
         IF value = Boolean(TRUE) THEN <<>> ELSE <<"=", "\"">> \o escapeHtml(value.value) \o <<"\"">>

renderAttribute(name, value) ==
    IF attributeRendersEmpty(name, value) THEN <<>>
    ELSE <<" ", attributeName(name)>> \o
         IF value = Boolean(TRUE) THEN <<>> ELSE <<"=", "\"">> \o escapeHtml(value.value) \o <<"\"">>

renderAttributes(props) ==
    FlattenSeq([i \in DOMAIN props |-> renderAttribute(props[i][1], props[i][2])])

Fragment(children) == html(renderChild(Array(children)))

\* An element whose children are one child or an array of them.
normalizeChildren(children) == IF children.kind = "Array" THEN children.items ELSE <<children>>

jsx(tag, props, children) ==
    html(<<"<", tag>> \o renderAttributes(props) \o <<">">> \o
         renderHtml(Fragment(normalizeChildren(children))) \o <<"</", tag, ">">>)
=============================================================================
