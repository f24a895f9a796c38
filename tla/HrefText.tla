------------------------------ MODULE HrefText ------------------------------
(***************************************************************************)
(* The text of a redirect's target (packages/web/src/routes.ts) and what   *)
(* the server reads out of it when the browser follows it (HomeQuery in    *)
(* server.ts).  WebPages has the target as a record instead: a text that   *)
(* is absent there is a parameter that is left out here.                   *)
(***************************************************************************)
EXTENDS WebPages

\* The symbols encodeURIComponent replaces: a percent sign and the code in their place.
Coded == {" ", "&", "=", "+", "%", "<", ">", "\"", "?"}

codeOf(symbol) ==
    CASE symbol = " " -> "20"
      [] symbol = "&" -> "26"
      [] symbol = "=" -> "3D"
      [] symbol = "+" -> "2B"
      [] symbol = "%" -> "25"
      [] symbol = "<" -> "3C"
      [] symbol = ">" -> "3E"
      [] symbol = "\"" -> "22"
      [] symbol = "?" -> "3F"

encodeURIComponent(text) ==
    FlattenSeq([i \in DOMAIN text |->
        IF text[i] \in Coded THEN <<"%", codeOf(text[i])>> ELSE <<text[i]>>])

\* Mutant: the value as it is.
queryParameterRaw(name, value) == IF value = absent THEN <<>> ELSE << <<name, "=">> \o value >>

queryParameter(name, value) ==
    IF value = absent THEN <<>> ELSE << <<name, "=">> \o encodeURIComponent(value) >>

hrefText(href) ==
    LET parameters == queryParameter("error", IF href.error = "none" THEN absent ELSE <<href.error>>)
                      \o queryParameter("newCounterId", href.newCounterId)
    IN  IF parameters = <<>> THEN <<href.route>>
        ELSE <<href.route, "?">> \o
             FlattenSeq([i \in DOMAIN parameters |->
                            IF i = 1 THEN parameters[i] ELSE <<"&">> \o parameters[i]])

-----------------------------------------------------------------------------
(***************************************************************************)
(* URLSearchParams: parameters between ampersands, the value after the     *)
(* first equals sign, a plus for a space, percent codes undone.            *)
(***************************************************************************)
Codes == {codeOf(symbol) : symbol \in Coded}

symbolOf(code) == CHOOSE symbol \in Coded : codeOf(symbol) = code

codeAt(text, i) == i \in 2 .. Len(text) /\ text[i - 1] = "%" /\ text[i] \in Codes

decodeParameter(text) ==
    FlattenSeq([i \in DOMAIN text |->
        IF codeAt(text, i) THEN <<symbolOf(text[i])>>
        ELSE IF codeAt(text, i + 1) THEN <<>>
        ELSE IF text[i] = "+" THEN <<" ">> ELSE <<text[i]>>])

\* Where a parameter of this name starts, and where the one that starts at i ends.
startsOf(query, name) ==
    {i \in 1 .. Len(query) - 1 :
        (i = 1 \/ query[i - 1] = "&") /\ query[i] = name /\ query[i + 1] = "="}

endOf(query, i) == CHOOSE j \in i .. Len(query) :
                      /\ \A k \in i .. j : query[k] # "&"
                      /\ j = Len(query) \/ query[j + 1] = "&"

parameter(query, name) ==
    IF startsOf(query, name) = {} THEN absent
    ELSE LET i == CHOOSE i \in startsOf(query, name) : \A k \in startsOf(query, name) : i <= k
         IN  decodeParameter(SubSeq(query, i + 2, endOf(query, i)))

HomeQuery(text) ==
    LET query == SubSeq(text, 3, Len(text))
        error == parameter(query, "error")
    IN  [route |-> text[1], newCounterId |-> parameter(query, "newCounterId"),
         error |-> IF Len(error) = 1 THEN error[1] ELSE "none"]
=============================================================================
