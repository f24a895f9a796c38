---------------------------- MODULE EscapedText ----------------------------
(***************************************************************************)
(* Characters that HTML gives a meaning, escaped where a text is written   *)
(* into markup (escapeHtml in packages/web/src/mvc/html.ts), and undone by *)
(* the browser that reads it.  A text is a sequence of symbols: each of    *)
(* these characters is one, so are the name of a character reference and a *)
(* whole word.                                                             *)
(***************************************************************************)
EXTENDS SequencesExt, Naturals

Escaped == {"&", "<", ">", "\"", "'"}

\* What stands behind an ampersand instead of an escaped character.
referenceOf(char) ==
    CASE char = "&" -> "amp;"
      [] char = "<" -> "lt;"
      [] char = ">" -> "gt;"
      [] char = "\"" -> "quot;"
      [] char = "'" -> "#39;"

replaceAll(text, char, by) ==
    FlattenSeq([i \in DOMAIN text |-> IF text[i] = char THEN by ELSE <<text[i]>>])

escape(text, char) == replaceAll(text, char, <<"&", referenceOf(char)>>)

\* Mutant: the ampersand last, when there are those of the references.
escapeHtmlAmpersandLast(text) ==
    escape(escape(escape(escape(escape(text, "<"), ">"), "\""), "'"), "&")

escapeHtml(text) == escape(escape(escape(escape(escape(text, "&"), "<"), ">"), "\""), "'")

-----------------------------------------------------------------------------
References == {referenceOf(char) : char \in Escaped}

charOf(reference) == CHOOSE char \in Escaped : referenceOf(char) = reference

refersAt(text, i) == i < Len(text) /\ text[i] = "&" /\ text[i + 1] \in References

decode(text) ==
    FlattenSeq([i \in DOMAIN text |->
        IF refersAt(text, i) THEN <<charOf(text[i + 1])>>
        ELSE IF i > 1 /\ refersAt(text, i - 1) THEN <<>> ELSE <<text[i]>>])
=============================================================================
