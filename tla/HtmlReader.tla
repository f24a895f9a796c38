----------------------------- MODULE HtmlReader -----------------------------
(***************************************************************************)
(* What a browser makes of a written page: the tags and texts it finds,    *)
(* with the character references undone and the end tags of elements that  *)
(* have none ignored, and the forms they make up.  All of it is external   *)
(* to the repository, which only ever writes markup.                       *)
(***************************************************************************)
EXTENDS Html

VoidElements == {"input", "meta", "link"}

StartTag(name, attributes) == [tag |-> "Start", name |-> name, attributes |-> attributes]
EndTag(name) == [tag |-> "End", name |-> name]
TextToken(text) == [tag |-> "Text", text |-> text]

withText(tokens, text) == IF text = <<>> THEN tokens ELSE Append(tokens, TextToken(decode(text)))

-----------------------------------------------------------------------------
\* One symbol more, by the mode that the symbols before it have led to.
inData(s, c) ==
    CASE c = "<!doctype html>" -> s
      [] c \in {"<", "</"} ->
            [s EXCEPT !.tokens = withText(@, s.text), !.text = <<>>,
                      !.mode = IF c = "<" THEN "startName" ELSE "endName"]
      [] OTHER -> [s EXCEPT !.text = Append(@, c)]

inTag(s, c) ==
    CASE c = ">" -> [s EXCEPT !.mode = "data",
                              !.tokens = Append(@, StartTag(s.name,
                                [i \in DOMAIN s.attributes |->
                                    <<s.attributes[i][1], decode(s.attributes[i][2])>>]))]
      [] c = "\"" -> [s EXCEPT !.mode = "quoted"]
      [] c \in {" ", "="} -> s
      [] OTHER -> [s EXCEPT !.attributes = Append(@, <<c, <<>> >>)]

inQuotes(s, c) ==
    IF c = "\"" THEN [s EXCEPT !.mode = "tag"]
    ELSE [s EXCEPT !.attributes[Len(s.attributes)][2] = Append(@, c)]

readSymbol(s, c) ==
    CASE s.mode = "data" -> inData(s, c)
      [] s.mode = "startName" -> [s EXCEPT !.mode = "tag", !.name = c, !.attributes = <<>>]
      [] s.mode = "tag" -> inTag(s, c)
      [] s.mode = "quoted" -> inQuotes(s, c)
      [] s.mode = "endName" -> [s EXCEPT !.mode = "endTag", !.name = c]
      [] s.mode = "endTag" ->
            IF c # ">" THEN s
            ELSE [s EXCEPT !.mode = "data",
                           !.tokens = IF s.name \in VoidElements THEN @ ELSE Append(@, EndTag(s.name))]

atStart == [mode |-> "data", tokens |-> <<>>, text |-> <<>>, name |-> "", attributes |-> <<>>]

\* The symbols from i to j, the first half before the second: no symbol ends the reading.
RECURSIVE readFrom(_, _, _, _)
readFrom(s, page, i, j) ==
    IF s.mode = "end" \/ i > j THEN s
    ELSE IF i = j THEN readSymbol(s, page[i])
    ELSE LET middle == (i + j) \div 2
         IN  readFrom(readFrom(s, page, i, middle), page, middle + 1, j)

read(page) ==
    LET s == readFrom(atStart, page, 1, Len(page)) IN withText(s.tokens, s.text)

-----------------------------------------------------------------------------
textsRead(tokens) ==
    LET isText(token) == token.tag = "Text"
        texts == SelectSeq(tokens, isText)
    IN  [i \in DOMAIN texts |-> texts[i].text]

attributeOf(token, name) ==
    LET given == {i \in DOMAIN token.attributes : token.attributes[i][1] = name}
    IN  IF given = {} THEN <<>> ELSE token.attributes[Min(given)][2]

\* The tokens from the one at position i to the end tag of its element, which holds no like.
upToEnd(tokens, i) ==
    LET ends == {j \in i .. Len(tokens) : tokens[j] = EndTag(tokens[i].name)}
    IN  IF ends = {} THEN SubSeq(tokens, i, Len(tokens)) ELSE SubSeq(tokens, i, Min(ends))

isStart(token, name) == token.tag = "Start" /\ token.name = name

\* A form as it is posted: its fields, and the label of the button that posts it.
formRead(tokens) ==
    LET inputs == {i \in DOMAIN tokens : isStart(tokens[i], "input")}
        nameAt(i) == attributeOf(tokens[i], "name")
        buttons == {i \in DOMAIN tokens : isStart(tokens[i], "button")}
    IN  [action |-> attributeOf(tokens[1], "action"),
         method |-> attributeOf(tokens[1], "method"),
         label |-> FlattenSeq(textsRead(upToEnd(tokens, Min(buttons)))),
         body |-> [name \in {nameAt(i) : i \in inputs} |->
                     attributeOf(tokens[CHOOSE i \in inputs : nameAt(i) = name], "value")]]

formsRead(tokens) ==
    LET forms == SelectSeq([i \in DOMAIN tokens |-> i], LAMBDA i : isStart(tokens[i], "form"))
    IN  [k \in DOMAIN forms |-> formRead(upToEnd(tokens, forms[k]))]

-----------------------------------------------------------------------------
(***************************************************************************)
(* The tokens an element stands for, worked out from the element itself.   *)
(* A node is a child that is no Html, or an Element.                       *)
(***************************************************************************)
Element(name, props, children) ==
    [kind |-> "Element", name |-> name, props |-> props, children |-> children]

RECURSIVE asChild(_)
asChild(node) ==
    CASE node.kind = "Element" -> jsx(node.name, node.props, asChild(Array(node.children)))
      [] node.kind = "Array" -> Array([i \in DOMAIN node.items |-> asChild(node.items[i])])
      [] OTHER -> node

attributesMeant(props) ==
    LET isGiven(p) == p[2] # Nothing /\ p[2] # Boolean(FALSE)
        given == SelectSeq(props, isGiven)
    IN  [i \in DOMAIN given |->
            <<IF given[i][1] = "className" THEN "class" ELSE given[i][1],
              IF given[i][2] = Boolean(TRUE) THEN <<>> ELSE given[i][2].value>>]

RECURSIVE tokensMeant(_)
tokensMeant(node) ==
    LET all(nodes) == FlattenSeq([i \in DOMAIN nodes |-> tokensMeant(nodes[i])])
    IN  CASE node.kind = "Element" ->
                <<StartTag(node.name, attributesMeant(node.props))>> \o all(node.children) \o
                IF node.name \in VoidElements THEN <<>> ELSE <<EndTag(node.name)>>
          [] node.kind = "Array" -> all(node.items)
          [] node.kind = "Text" -> IF node.value = <<>> THEN <<>> ELSE <<TextToken(node.value)>>
          [] node.kind = "Boolean" -> IF node.truth THEN <<TextToken(<<"true">>)>> ELSE <<>>
          [] node.kind = "Nothing" -> <<>>

\* Texts next to each other are one text.
joined(tokens) ==
    FoldLeft(LAMBDA done, t :
                IF done # <<>> /\ t.tag = "Text" /\ Last(done).tag = "Text"
                THEN [done EXCEPT ![Len(done)].text = @ \o t.text] ELSE Append(done, t),
             <<>>, tokens)

=============================================================================
