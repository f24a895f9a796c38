---------------------------- MODULE WebAppProofs ----------------------------
(***************************************************************************)
(* Proofs about WebApp, for any numbers of browsers, fibers, forms,        *)
(* counters and articles: that the answers of the forms reach the pages as *)
(* what they are, whatever the browsers do meanwhile.  There is no session *)
(* to look at: the argument follows the number of a form from the fiber    *)
(* that serves it to the redirect and from there to the page.  At the end, *)
(* that what is written into pages and addresses is read back out of them. *)
(***************************************************************************)
EXTENDS WebApp, HrefText, EscapedText, CommandSystemProofs

\* Appending to any sequence of whatever it holds.
LEMMA OwnAppend ==
    ASSUME NEW s, s \in Seq(Range(s)), NEW e
    PROVE  /\ Append(s, e) \in Seq(Range(Append(s, e)))
           /\ Len(s) \in Nat /\ DOMAIN s = 1 .. Len(s)
           /\ Len(Append(s, e)) = Len(s) + 1
           /\ DOMAIN Append(s, e) = 1 .. (Len(s) + 1)
           /\ \A i \in 1 .. Len(s) : Append(s, e)[i] = s[i]
           /\ Append(s, e)[Len(s) + 1] = e
<1> DEFINE T == Range(s) \cup {e}
           t == Append(s, e)
<1>1. Len(s) \in Nat /\ DOMAIN s = 1 .. Len(s) /\ \A i \in 1 .. Len(s) : s[i] \in T
  BY DEF Range
<1>2. s \in Seq(T) /\ e \in T
  <2>1. Range(s) \subseteq T
    OBVIOUS
  <2> QED BY <2>1
<1> HIDE DEF T
<1>3. /\ t \in Seq(T) /\ Len(t) = Len(s) + 1 /\ DOMAIN t = 1 .. (Len(s) + 1)
      /\ \A i \in 1 .. Len(s) : t[i] = s[i]
      /\ t[Len(s) + 1] = e
  BY <1>1, <1>2, AppendProperties
<1>4. t \in Seq(Range(t))
  <2>1. \A i \in 1 .. Len(t) : t[i] \in Range(t)
    BY <1>3 DEF Range
  <2> HIDE DEF t
  <2> QED BY <1>1, <1>3, <2>1
<1> QED BY <1>1, <1>3, <1>4

-----------------------------------------------------------------------------
(***************************************************************************)
(* The inductive invariant.                                                *)
(***************************************************************************)
serving(h) == posted[h] # NoForm

\* An event of the log is due to the form.
carriedOut(due, number) == \E i \in DOMAIN due : due[i] = number

\* What was sent is counted, and every event of the log is due to a form.
GhostsOK ==
    /\ sent \in Seq(Range(sent))
    /\ Len(sent) = issued
    /\ \A i \in DOMAIN sent : sent[i].asOf \in 0 .. Len(records)
    /\ origin \in Seq(1 .. issued)
    /\ Len(origin) = Len(records)

RpcOK ==
    /\ phase \in [RpcGroups -> {"start", "server", "client", "returned"}]
    /\ clientWrite \in [RpcGroups -> BOOLEAN]
    /\ calls \subseteq Handlers \X RpcGroups

(***************************************************************************)
(* A fiber that serves a form is the only one to: it handles the form's    *)
(* command, has the one call under way, and has stored the form's event if *)
(* and only if it has a receipt for it.                                    *)
(***************************************************************************)
ServingOK(h) ==
    LET number == posted[h].number
    IN  /\ command[h] = commandOf(sent[number].form)
        /\ pc[h] = "idle" => outcome[h].tag # "None"
        /\ pc[h] = "saving" => sent[number].asOf <= seen[h]
        /\ \A g \in RpcGroups : <<h, g>> \in calls <=> g = <<slice(h), "commands">>
        /\ carriedOut(origin, number) <=> outcome[h].tag = "Receipt"

FibersOK ==
    /\ posted \in [Handlers -> [browser : Browsers, number : 1 .. issued] \cup {NoForm}]
    /\ \A h \in Handlers :
          IF serving(h) THEN ServingOK(h) ELSE \A g \in RpcGroups : <<h, g>> \notin calls
    /\ \A h, k \in Handlers :
          (serving(h) /\ serving(k) /\ posted[h].number = posted[k].number) => h = k

(***************************************************************************)
(* What is said of an answered form is true of the first n events of the   *)
(* log, and no fiber serves that form any more.  Of none nothing is said.  *)
(***************************************************************************)
answeredAs(due, serves, total, number, error, n) ==
    /\ error = "command-failed" => number > 0
    /\ number > 0 =>
          /\ number \in 1 .. total
          /\ \A h \in Handlers : serves[h] # NoForm => serves[h].number # number
          /\ error = "command-failed" => ~ carriedOut(due, number)
          /\ error # "command-failed" => \E i \in 1 .. n : due[i] = number

PageOK(b) ==
    /\ page[b] = [href |-> page[b].href, asOf |-> page[b].asOf, answers |-> page[b].answers]
    /\ page[b].asOf \in 0 .. Len(records)
    /\ page[b].answers \in 0 .. issued
    /\ answeredAs(origin, posted, issued, page[b].answers, page[b].href.error, page[b].asOf)

WaitOK(b) ==
    /\ waits[b].tag \in {"NotWaiting", "Waiting", "Following"}
    /\ waits[b].tag = "Following" =>
          /\ waits[b].answers \in 0 .. issued
          /\ answeredAs(origin, posted, issued, waits[b].answers, waits[b].href.error,
                        Len(records))

BrowsersOK ==
    /\ DOMAIN page = Browsers /\ DOMAIN waits = Browsers
    /\ \A b \in Browsers : PageOK(b) /\ WaitOK(b)

WInv == AInv /\ RpcOK /\ GhostsOK /\ FibersOK /\ BrowsersOK /\ FormsCarriedOutOnce

-----------------------------------------------------------------------------
(***************************************************************************)
(* Behind the RPC server the handlers of CommandSystem run as they did,    *)
(* but that the fiber of an answered request is cleared.                   *)
(***************************************************************************)
LEMMA ForgetKeepsAnswers ==
    ASSUME AInv, NEW h \in Handlers, pc[h] = "idle", forget(h),
           UNCHANGED <<records, pc, aggregate, issued>>
    PROVE  AInv'
<1>1. TypeOK'
  <2>1. seen' \in [Handlers -> 0 .. Len(records')]
    BY LenProperties DEF AInv, IInv, TypeOK, forget
  <2>2. ASSUME NEW g \in Handlers
        PROVE  /\ pc'[g] # "idle" => command'[g] \in Command
               /\ IF pc'[g] = "saving" THEN aggregate'[g] \in Pending(slice(g)')
                  ELSE aggregate'[g] = NoAggregate
               /\ outcome'[g].tag \in {"None", "Rejected", "Receipt", "ExpectedVersionConflict"}
    <3>1. CASE g = h
      BY <3>1 DEF AInv, IInv, TypeOK, forget, NoOutcome
    <3>2. CASE g # h
      BY <3>2 DEF AInv, IInv, TypeOK, forget, slice
    <3> QED BY <3>1, <3>2
  <2>3. command' \in [Handlers -> Command \cup {NoCommand}] /\ DOMAIN outcome' = Handlers
    BY DEF AInv, IInv, TypeOK, forget
  <2>4. /\ records' \in Seq(StoredEvent(Ids, DomainEvent))
        /\ pc' \in [Handlers -> {"idle", "requested", "saving"}]
        /\ issued' \in 0 .. MaxCommands
        /\ DOMAIN aggregate' = Handlers
    BY DEF AInv, IInv, TypeOK
  <2> QED BY <2>1, <2>2, <2>3, <2>4 DEF TypeOK
<1>2. ASSUME NEW g \in Handlers, pc'[g] = "saving" PROVE Prepared(g)'
  <2>1. g # h /\ pc[g] = "saving"
    BY <1>2
  <2>2. command'[g] = command[g] /\ seen'[g] = seen[g]
    BY <2>1 DEF AInv, IInv, TypeOK, forget
  <2> QED BY <2>1, <2>2, PreparedStable DEF AInv
<1>3. IInv'
  BY <1>1, <1>2, QuietStep DEF AInv
<1>4. outcome'[h] = NoOutcome /\ outcome'[h].tag = "None"
  BY DEF AInv, IInv, TypeOK, forget, NoOutcome
<1>5. honoured(h)' /\ contended(h)'
  BY <1>4, NothingSaid
<1>6. ownVersions(records') /\ extended
  BY DEF AInv, extended
<1>7. \A g \in Handlers : g # h => /\ outcome'[g] = outcome[g] /\ command'[g] = command[g]
                                   /\ seen'[g] = seen[g] /\ pc'[g] = pc[g]
  BY DEF AInv, IInv, TypeOK, forget
<1> QED BY <1>3, <1>4, <1>5, <1>6, <1>7, OwnAnswer

\* A step of a handler.
LEMMA HandleKeepsAnswers ==
    ASSUME AInv, NEW h \in Handlers, Handle(h)
    PROVE  AInv'
<1>1. CASE LoadAndReject(h)
  BY <1>1, LoadAndRejectStep, RejectKeepsAnswers DEF AInv
<1>2. CASE LoadAndAccept(h)
  BY <1>2, LoadAndAcceptStep, AcceptKeepsAnswers DEF AInv
<1>3. CASE Append_Stored(h)
  BY <1>3, AppendStoredStep, StoredKeepsAnswers DEF AInv
<1>4. CASE Append_Conflict(h)
  BY <1>4, AppendConflictStep, ConflictKeepsAnswers DEF AInv
<1> QED BY <1>1, <1>2, <1>3, <1>4 DEF Handle

\* Every step of the web application is one of these, to the handlers.
LEMMA WebKeepsAnswers ==
    ASSUME AInv, [NextWeb]_allVars
    PROVE  AInv'
<1>1. CASE UNCHANGED vars
  BY <1>1, StutteringStep, StutteringKeepsAnswers DEF AInv
<1>2. ASSUME NEW b \in Browsers, NEW h \in Handlers, Post(b, h) PROVE AInv'
  <2>1. Request(h)
    BY <1>2 DEF Post
  <2> QED BY <2>1, RequestStep, RequestKeepsAnswers DEF AInv
<1>3. ASSUME NEW h \in Handlers, Serve(h) PROVE AInv'
  BY <1>3, HandleKeepsAnswers DEF Serve
<1>4. ASSUME NEW h \in Handlers, Redirect(h) PROVE AInv'
  BY <1>4, ForgetKeepsAnswers DEF Redirect
<1>5. \/ UNCHANGED vars
      \/ \E b \in Browsers, h \in Handlers : Post(b, h)
      \/ \E h \in Handlers : Serve(h) \/ Redirect(h)
  BY DEF NextWeb, allVars, Wire, Open, Reload, PostBlank, PostUnread, Follow, GiveUp
<1> QED BY <1>1, <1>2, <1>3, <1>4, <1>5

-----------------------------------------------------------------------------
(***************************************************************************)
(* What is said of an answered form stays true: the log only grows, by     *)
(* events due to forms that are being served, and a form that is served    *)
(* anew has a number of its own.                                           *)
(***************************************************************************)
LEMMA AnswerStays ==
    ASSUME NEW total \in Nat, NEW total2 \in Nat, total <= total2,
           NEW due, due \in Seq(1 .. total), NEW due2,
           NEW serves, NEW serves2,
           NEW number, NEW error, NEW n \in 0 .. Len(due), NEW n2 \in Nat, n <= n2,
           answeredAs(due, serves, total, number, error, n),
           \/ due2 = due
           \/ \E h \in Handlers : /\ serves[h] # NoForm
                                  /\ serves[h].number \in 1 .. total
                                  /\ due2 = Append(due, serves[h].number),
           \A h \in Handlers : \/ serves2[h] \in {serves[h], NoForm}
                               \/ serves2[h].number > total
    PROVE  answeredAs(due2, serves2, total2, number, error, n2)
<1> SUFFICES ASSUME number > 0
             PROVE  /\ number \in 1 .. total2
                    /\ \A h \in Handlers : serves2[h] # NoForm => serves2[h].number # number
                    /\ error = "command-failed" => ~ carriedOut(due2, number)
                    /\ error # "command-failed" => \E i \in 1 .. n2 : due2[i] = number
  BY Zenon DEF answeredAs
<1>1. /\ number \in 1 .. total
      /\ \A h \in Handlers : serves[h] # NoForm => serves[h].number # number
      /\ error = "command-failed" => ~ carriedOut(due, number)
      /\ error # "command-failed" => \E i \in 1 .. n : due[i] = number
  BY DEF answeredAs
<1>2. number \in 1 .. total2
  BY <1>1
<1>3. ASSUME NEW h \in Handlers, serves2[h] # NoForm PROVE serves2[h].number # number
  BY <1>1, <1>3
<1>4. /\ Len(due) \in Nat /\ DOMAIN due = 1 .. Len(due)
      /\ \A i \in 1 .. Len(due) : due2[i] = due[i]
      /\ \A i \in DOMAIN due2 : i \in DOMAIN due \/ due2[i] # number
  <2>1. CASE due2 = due
    BY <2>1
  <2>2. CASE \E h \in Handlers : /\ serves[h] # NoForm
                                 /\ serves[h].number \in 1 .. total
                                 /\ due2 = Append(due, serves[h].number)
    <3>1. PICK h \in Handlers : /\ serves[h] # NoForm
                                /\ serves[h].number \in 1 .. total
                                /\ due2 = Append(due, serves[h].number)
      BY <2>2
    <3>2. serves[h].number # number
      BY <1>1, <3>1
    <3> DEFINE m == serves[h].number
    <3>3. /\ DOMAIN due2 = 1 .. (Len(due) + 1)
          /\ \A i \in 1 .. Len(due) : due2[i] = due[i]
          /\ due2[Len(due) + 1] = m
          /\ Len(due) \in Nat /\ DOMAIN due = 1 .. Len(due)
      <4> HIDE DEF m
      <4>1. m \in 1 .. total /\ due2 = Append(due, m)
        BY <3>1 DEF m
      <4> QED BY <4>1, AppendProperties
    <3> QED BY <3>2, <3>3
  <2> QED BY <2>1, <2>2
<1>5. ASSUME error = "command-failed" PROVE ~ carriedOut(due2, number)
  BY <1>1, <1>4, <1>5 DEF carriedOut
<1>6. ASSUME error # "command-failed" PROVE \E i \in 1 .. n2 : due2[i] = number
  BY <1>1, <1>4, <1>6
<1> QED BY <1>2, <1>3, <1>5, <1>6

\* So what the browsers show and what they wait for stays true.
LEMMA BrowserStays ==
    ASSUME GhostsOK, Len(records) \in Nat, Len(records') \in Nat, Len(records) <= Len(records'),
           issued \in Nat, issued' \in Nat, issued <= issued',
           \/ origin' = origin
           \/ \E h \in Handlers : /\ posted[h] # NoForm
                                  /\ posted[h].number \in 1 .. issued
                                  /\ origin' = Append(origin, posted[h].number),
           \A h \in Handlers : posted'[h] \in {posted[h], NoForm} \/ posted'[h].number > issued,
           NEW b \in Browsers
    PROVE  /\ (PageOK(b) /\ page'[b] = page[b]) => PageOK(b)'
           /\ (WaitOK(b) /\ waits'[b] = waits[b]) => WaitOK(b)'
<1>1. origin \in Seq(1 .. issued) /\ Len(origin) = Len(records)
  BY DEF GhostsOK
<1>2. ASSUME PageOK(b), page'[b] = page[b] PROVE PageOK(b)'
  <2>1. page[b].asOf \in 0 .. Len(origin) /\ page[b].asOf \in Nat
    BY <1>1, <1>2 DEF PageOK
  <2>2. answeredAs(origin, posted, issued, page[b].answers, page[b].href.error, page[b].asOf)
    BY <1>2 DEF PageOK
  <2>3. answeredAs(origin', posted', issued', page[b].answers, page[b].href.error, page[b].asOf)
    <3> DEFINE number == page[b].answers
               error == page[b].href.error
               n == page[b].asOf
    <3> HIDE DEF number, error, n
    <3>1. /\ n \in 0 .. Len(origin) /\ n \in Nat /\ n <= n
          /\ answeredAs(origin, posted, issued, number, error, n)
      BY <2>1, <2>2 DEF number, error, n
    <3>2. ASSUME NEW m \in Nat, n <= m
          PROVE  answeredAs(origin', posted', issued', number, error, m)
      BY <1>1, <3>1, <3>2, AnswerStays
    <3>3. answeredAs(origin', posted', issued', number, error, n)
      BY <3>1, <3>2
    <3> QED BY <3>3 DEF number, error, n
  <2>4. page[b].asOf \in 0 .. Len(records') /\ page[b].answers \in 0 .. issued'
    BY <1>2 DEF PageOK
  <2> QED BY <1>2, <2>3, <2>4 DEF PageOK
<1>3. ASSUME WaitOK(b), waits'[b] = waits[b] PROVE WaitOK(b)'
  <2> SUFFICES ASSUME waits[b].tag = "Following"
               PROVE  /\ waits[b].answers \in 0 .. issued'
                      /\ answeredAs(origin', posted', issued', waits[b].answers,
                                    waits[b].href.error, Len(records'))
    BY <1>3 DEF WaitOK
  <2> DEFINE number == waits[b].answers
             error == waits[b].href.error
             before == Len(records)
             after == Len(records')
  <2>1. number \in 0 .. issued /\ answeredAs(origin, posted, issued, number, error, before)
    BY <1>3 DEF WaitOK
  <2>2. before \in 0 .. Len(origin) /\ after \in Nat /\ before <= after
    BY <1>1
  <2> HIDE DEF number, error, before, after
  <2>3. answeredAs(origin', posted', issued', number, error, after)
    BY <1>1, <2>1, <2>2, AnswerStays, SMTT(30)
  <2>4. number \in 0 .. issued'
    BY <2>1
  <2> QED BY <2>3, <2>4 DEF number, error, after
<1> QED BY <1>2, <1>3

-----------------------------------------------------------------------------
\* The lengths that the invariant compares.
LEMMA WebLengths ==
    ASSUME WInv
    PROVE  /\ records \in Logs /\ Len(records) \in Nat /\ issued \in Nat
           /\ sent \in Seq(Range(sent)) /\ DOMAIN sent = 1 .. issued
           /\ origin \in Seq(1 .. issued) /\ DOMAIN origin = 1 .. Len(records)
<1>1. records \in Logs /\ Len(records) \in Nat /\ issued \in Nat
  BY LenProperties, MaxCommandsAssumption DEF WInv, AInv, IInv, TypeOK, Logs
<1>2. sent \in Seq(Range(sent)) /\ Len(sent) = issued /\ DOMAIN sent = 1 .. Len(sent)
  BY OwnAppend DEF WInv, GhostsOK
<1>3. origin \in Seq(1 .. issued) /\ DOMAIN origin = 1 .. Len(records)
  BY LenProperties DEF WInv, GhostsOK
<1> QED BY <1>1, <1>2, <1>3

\* Steps that only what the browsers show and wait for can tell from stuttering.
LEMMA BrowsersAlone ==
    ASSUME WInv, UNCHANGED <<vars, calls, posted, sent, origin>>, RpcOK', BrowsersOK'
    PROVE  WInv'
<1>1. AInv'
  BY StutteringStep, StutteringKeepsAnswers DEF WInv, AInv
<1>2. GhostsOK' /\ FormsCarriedOutOnce'
  BY DEF WInv, GhostsOK, FormsCarriedOutOnce, vars
<1>3. FibersOK'
  BY DEF WInv, FibersOK, serving, ServingOK, slice, vars
<1> QED BY <1>1, <1>2, <1>3 DEF WInv

\* Among them what a browser does not touch.
LEMMA OtherBrowsers ==
    ASSUME WInv, UNCHANGED <<records, issued, posted, origin>>, NEW c \in Browsers
    PROVE  /\ page'[c] = page[c] => PageOK(c)'
           /\ waits'[c] = waits[c] => WaitOK(c)'
<1>1. PageOK(c) /\ WaitOK(c)
  BY DEF WInv, BrowsersOK
<1> QED BY <1>1 DEF PageOK, WaitOK

LEMMA WireStep ==
    ASSUME WInv, NEW g \in RpcGroups, Wire(g)
    PROVE  WInv'
<1>1. UNCHANGED <<vars, calls, posted, sent, origin, page, waits>>
  BY DEF Wire, webVars, Rpc!Wire, Rpc!MakeServer, Rpc!MakeClient, Rpc!ReturnClient
<1>2. RpcOK'
  BY DEF WInv, RpcOK, Wire, Rpc!Wire, Rpc!MakeServer, Rpc!MakeClient, Rpc!ReturnClient
<1>3. BrowsersOK'
  BY <1>1, OtherBrowsers DEF WInv, BrowsersOK, vars
<1> QED BY <1>1, <1>2, <1>3, BrowsersAlone

LEMMA OpenStep ==
    ASSUME WInv, NEW b \in Browsers, Open(b)
    PROVE  WInv'
<1>1. PICK href \in {counterHomeHref("none", absent), articlesHref("none")} :
         page' = [page EXCEPT ![b] = [href |-> href, asOf |-> Len(records), answers |-> 0]]
  BY DEF Open
<1>2. UNCHANGED <<vars, phase, clientWrite, calls, posted, sent, origin>>
      /\ waits' = [waits EXCEPT ![b] = NotWaiting]
  BY DEF Open
<1>3. DOMAIN page' = Browsers /\ DOMAIN waits' = Browsers
  BY <1>1, <1>2 DEF WInv, BrowsersOK
<1>4. PageOK(b)' /\ WaitOK(b)'
  <2>1. page'[b] = [href |-> href, asOf |-> Len(records), answers |-> 0]
    BY <1>1 DEF WInv, BrowsersOK
  <2>2. waits'[b].tag = "NotWaiting"
    BY <1>2 DEF WInv, BrowsersOK, NotWaiting
  <2>3. href.error # "command-failed"
    BY DEF counterHomeHref, articlesHref
  <2>4. PageOK(b)'
    BY <1>2, <2>1, <2>3, WebLengths DEF PageOK, answeredAs, vars
  <2> QED BY <2>2, <2>4 DEF WaitOK
<1>5. ASSUME NEW c \in Browsers, c # b PROVE PageOK(c)' /\ WaitOK(c)'
  <2>1. page'[c] = page[c] /\ waits'[c] = waits[c]
    BY <1>1, <1>2, <1>5 DEF WInv, BrowsersOK
  <2> QED BY <1>2, <2>1, OtherBrowsers DEF vars
<1>6. BrowsersOK' /\ RpcOK'
  BY <1>2, <1>3, <1>4, <1>5 DEF BrowsersOK, WInv, RpcOK
<1> QED BY <1>2, <1>6, BrowsersAlone

\* The same page of a longer log.
LEMMA ReloadStep ==
    ASSUME WInv, NEW b \in Browsers, Reload(b)
    PROVE  WInv'
<1>1. /\ page' = [page EXCEPT ![b].asOf = Len(records)]
      /\ UNCHANGED <<vars, phase, clientWrite, calls, waits, posted, sent, origin>>
  BY DEF Reload
<1>2. DOMAIN page' = Browsers /\ DOMAIN waits' = Browsers
  BY <1>1 DEF WInv, BrowsersOK
<1>3. PageOK(b)
  BY DEF WInv, BrowsersOK
<1>4. PageOK(b)'
  <2> DEFINE href == page[b].href
             number == page[b].answers
             from == page[b].asOf
  <2>1. page'[b] = [href |-> href, asOf |-> Len(records), answers |-> number]
    BY <1>1, <1>3 DEF WInv, BrowsersOK, PageOK
  <2>2. number \in 0 .. issued /\ from \in 0 .. Len(records)
        /\ answeredAs(origin, posted, issued, number, href.error, from)
    BY <1>3 DEF PageOK
  <2> HIDE DEF href, number, from
  <2>3. answeredAs(origin, posted, issued, number, href.error, Len(records))
    BY <2>2, WebLengths DEF answeredAs
  <2> QED BY <1>1, <2>1, <2>2, <2>3, WebLengths DEF PageOK, vars
<1>5. ASSUME NEW c \in Browsers PROVE WaitOK(c)' /\ (c # b => PageOK(c)')
  <2>1. waits'[c] = waits[c] /\ (c # b => page'[c] = page[c])
    BY <1>1 DEF WInv, BrowsersOK
  <2> QED BY <1>1, <2>1, OtherBrowsers DEF vars
<1>6. BrowsersOK' /\ RpcOK'
  BY <1>1, <1>2, <1>4, <1>5 DEF BrowsersOK, WInv, RpcOK
<1> QED BY <1>1, <1>6, BrowsersAlone

\* A redirect that answers no command says nothing of one.
LEMMA SilentStep ==
    ASSUME WInv, NEW b \in Browsers, NEW href, href.error # "command-failed",
           waits' = [waits EXCEPT ![b] = follow(href, 0)],
           UNCHANGED <<vars, phase, clientWrite, calls, page, posted, sent, origin>>
    PROVE  WInv'
<1>2. DOMAIN page' = Browsers /\ DOMAIN waits' = Browsers
  BY DEF WInv, BrowsersOK
<1>3. WaitOK(b)'
  <2>1. /\ waits'[b].tag = "Following" /\ waits'[b].answers = 0
        /\ waits'[b].href.error # "command-failed"
    BY DEF WInv, BrowsersOK, follow
  <2> QED BY <2>1, WebLengths DEF WaitOK, answeredAs, vars
<1>4. ASSUME NEW c \in Browsers PROVE PageOK(c)' /\ (c # b => WaitOK(c)')
  <2>1. page'[c] = page[c] /\ (c # b => waits'[c] = waits[c])
    BY DEF WInv, BrowsersOK
  <2> QED BY <2>1, OtherBrowsers DEF vars
<1>5. BrowsersOK' /\ RpcOK'
  BY <1>2, <1>3, <1>4 DEF BrowsersOK, WInv, RpcOK
<1> QED BY <1>5, BrowsersAlone

LEMMA PostBlankStep ==
    ASSUME WInv, NEW b \in Browsers, PostBlank(b)
    PROVE  WInv'
<1> DEFINE href == counterHomeHref("missing-id", absent)
<1>1. href.error # "command-failed"
  BY DEF counterHomeHref
<1>2. /\ waits' = [waits EXCEPT ![b] = follow(href, 0)]
      /\ UNCHANGED <<vars, phase, clientWrite, calls, page, posted, sent, origin>>
  BY DEF PostBlank
<1> HIDE DEF href
<1> QED BY <1>1, <1>2, SilentStep

LEMMA PostUnreadStep ==
    ASSUME WInv, NEW b \in Browsers, PostUnread(b)
    PROVE  WInv'
<1>1. PICK form \in formsOn(page[b]) : waits' = [waits EXCEPT ![b] = follow(unreadHref(form), 0)]
  BY DEF PostUnread
<1>2. UNCHANGED <<vars, phase, clientWrite, calls, page, posted, sent, origin>>
  BY DEF PostUnread
<1>3. unreadHref(form).error # "command-failed"
  BY DEF unreadHref, articlesHref, counterHomeHref
<1> QED BY <1>1, <1>2, <1>3, SilentStep

\* A redirect is followed: the page says of the form what the redirect did.
LEMMA FollowStep ==
    ASSUME WInv, NEW b \in Browsers, Follow(b)
    PROVE  WInv'
<1> DEFINE href == waits[b].href
           number == waits[b].answers
<1>1. /\ waits[b].tag = "Following"
      /\ page' = [page EXCEPT ![b] = [href |-> href, asOf |-> Len(records), answers |-> number]]
      /\ waits' = [waits EXCEPT ![b] = NotWaiting]
      /\ UNCHANGED <<vars, phase, clientWrite, calls, posted, sent, origin>>
  BY DEF Follow
<1>2. DOMAIN page' = Browsers /\ DOMAIN waits' = Browsers
  BY <1>1 DEF WInv, BrowsersOK
<1>3. /\ number \in 0 .. issued
      /\ answeredAs(origin, posted, issued, number, href.error, Len(records))
  BY <1>1 DEF WInv, BrowsersOK, WaitOK
<1>4. /\ page'[b] = [href |-> href, asOf |-> Len(records), answers |-> number]
      /\ waits'[b].tag = "NotWaiting"
  BY <1>1 DEF WInv, BrowsersOK, NotWaiting
<1> HIDE DEF href, number
<1>5. PageOK(b)' /\ WaitOK(b)'
  BY <1>1, <1>3, <1>4, WebLengths DEF PageOK, WaitOK, vars
<1>6. ASSUME NEW c \in Browsers, c # b PROVE PageOK(c)' /\ WaitOK(c)'
  <2>1. page'[c] = page[c] /\ waits'[c] = waits[c]
    BY <1>1, <1>6 DEF WInv, BrowsersOK
  <2> QED BY <1>1, <2>1, OtherBrowsers DEF vars
<1>7. BrowsersOK' /\ RpcOK'
  BY <1>1, <1>2, <1>5, <1>6 DEF BrowsersOK, WInv, RpcOK
<1> QED BY <1>1, <1>7, BrowsersAlone

LEMMA GiveUpStep ==
    ASSUME WInv, NEW b \in Browsers, GiveUp(b)
    PROVE  WInv'
<1>1. /\ waits' = [waits EXCEPT ![b] = NotWaiting]
      /\ UNCHANGED <<vars, phase, clientWrite, calls, page, posted, sent, origin>>
  BY DEF GiveUp
<1>2. ASSUME NEW c \in Browsers PROVE PageOK(c)' /\ WaitOK(c)'
  <2>1. page'[c] = page[c] /\ (waits'[c] = waits[c] \/ waits'[c].tag = "NotWaiting")
    BY <1>1 DEF WInv, BrowsersOK, NotWaiting
  <2>2. ASSUME waits'[c].tag = "NotWaiting" PROVE WaitOK(c)'
    BY <2>2 DEF WaitOK
  <2> QED BY <1>1, <2>1, <2>2, OtherBrowsers DEF vars
<1>3. BrowsersOK' /\ RpcOK'
  BY <1>1, <1>2 DEF BrowsersOK, WInv, RpcOK
<1> QED BY <1>1, <1>3, BrowsersAlone

-----------------------------------------------------------------------------
\* A fiber that a step leaves alone serves its form as before.
LEMMA FiberKept ==
    ASSUME WInv, NEW g \in Handlers,
           /\ posted'[g] = posted[g] /\ command'[g] = command[g] /\ pc'[g] = pc[g]
           /\ outcome'[g] = outcome[g] /\ seen'[g] = seen[g],
           \A i \in 1 .. issued : sent'[i] = sent[i],
           \A q \in RpcGroups : <<g, q>> \in calls' <=> <<g, q>> \in calls,
           serving(g) => (carriedOut(origin', posted[g].number)
                             <=> carriedOut(origin, posted[g].number))
    PROVE  IF serving(g)' THEN ServingOK(g)' ELSE \A q \in RpcGroups : <<g, q>> \notin calls'
<1>1. CASE serving(g)
  <2> DEFINE n == posted[g].number
  <2>1. ServingOK(g) /\ n \in 1 .. issued
    BY <1>1 DEF WInv, FibersOK, serving
  <2>2. posted'[g].number = n /\ sent'[n] = sent[n] /\ serving(g)'
    BY <1>1, <2>1 DEF serving
  <2>3. slice(g)' = slice(g)
    BY DEF slice
  <2> HIDE DEF n
  <2>4. carriedOut(origin', n) <=> carriedOut(origin, n)
    BY <1>1 DEF n
  <2>5. /\ command[g] = commandOf(sent[n].form)
        /\ pc[g] = "idle" => outcome[g].tag # "None"
        /\ pc[g] = "saving" => sent[n].asOf <= seen[g]
        /\ \A q \in RpcGroups : <<g, q>> \in calls <=> q = <<slice(g), "commands">>
        /\ carriedOut(origin, n) <=> outcome[g].tag = "Receipt"
    BY <2>1 DEF ServingOK, n
  <2>6. /\ command'[g] = commandOf(sent'[n].form)
        /\ pc'[g] = "idle" => outcome'[g].tag # "None"
        /\ pc'[g] = "saving" => sent'[n].asOf <= seen'[g]
    BY <2>2, <2>5
  <2>7. \A q \in RpcGroups : <<g, q>> \in calls' <=> q = <<slice(g)', "commands">>
    BY <2>3, <2>5
  <2>8. carriedOut(origin', n) <=> outcome'[g].tag = "Receipt"
    BY <2>4, <2>5
  <2>9. ServingOK(g)'
    BY <2>2, <2>6, <2>7, <2>8 DEF ServingOK
  <2> QED BY <2>2, <2>9
<1>2. CASE ~ serving(g)
  BY <1>2 DEF WInv, FibersOK, serving
<1> QED BY <1>1, <1>2

\* A form is sent: it gets the next number, and a fiber of its own.
LEMMA PostStep ==
    ASSUME WInv, NEW b \in Browsers, NEW h \in Handlers, Post(b, h)
    PROVE  WInv'
<1>1. PICK form \in formsOn(page[b]) :
         /\ Request(h)
         /\ command'[h] = commandOf(form)
         /\ Rpc!Call(h, <<sliceOf(commandOf(form)), "commands">>)
         /\ sent' = Append(sent, [form |-> form, asOf |-> page[b].asOf])
  BY DEF Post
<1> DEFINE entry == [form |-> form, asOf |-> page[b].asOf]
           group == <<sliceOf(commandOf(form)), "commands">>
<1>2. /\ posted[h] = NoForm
      /\ posted' = [posted EXCEPT ![h] = [browser |-> b, number |-> issued']]
      /\ waits' = [waits EXCEPT ![b] = [tag |-> "Waiting", fiber |-> h]]
      /\ UNCHANGED <<page, origin>>
  BY DEF Post
<1>3. /\ issued' = issued + 1 /\ UNCHANGED <<records, aggregate>>
      /\ pc' = [pc EXCEPT ![h] = "requested"]
      /\ outcome' = [outcome EXCEPT ![h] = NoOutcome]
      /\ seen' = [seen EXCEPT ![h] = 0]
      /\ \E c \in Command : command' = [command EXCEPT ![h] = c]
  BY <1>1 DEF Request
<1>4. /\ calls' = calls \cup {<<h, group>>}
      /\ UNCHANGED <<phase, clientWrite>>
  BY <1>1 DEF Rpc!Call
<1>5. group \in RpcGroups
  BY DEF RpcGroups, sliceOf, Slices
<1>6. issued \in Nat /\ issued' \in Nat /\ issued < issued' /\ issued' \in 1 .. issued'
  BY <1>3, WebLengths
<1>7. AInv'
  BY <1>1, RequestStep, RequestKeepsAnswers DEF WInv, AInv
<1>8. page[b].asOf \in 0 .. Len(records)
  BY DEF WInv, BrowsersOK, PageOK
<1>9. /\ sent' \in Seq(Range(sent)') /\ Len(sent') = issued'
      /\ DOMAIN sent' = 1 .. issued'
      /\ \A i \in 1 .. issued : sent'[i] = sent[i]
      /\ sent'[issued'] = entry
  <2> HIDE DEF entry
  <2>1. sent' = Append(sent, entry)
    BY <1>1 DEF entry
  <2>2. sent \in Seq(Range(sent)) /\ Len(sent) = issued
    BY WebLengths DEF WInv, GhostsOK
  <2> QED BY <1>3, <2>1, <2>2, OwnAppend
<1>10. GhostsOK'
  <2>1. \A i \in DOMAIN sent' : sent'[i].asOf \in 0 .. Len(records')
    <3>1. entry.asOf \in 0 .. Len(records)
      BY <1>8
    <3>2. \A i \in 1 .. issued : sent[i].asOf \in 0 .. Len(records)
      BY WebLengths DEF WInv, GhostsOK
    <3>3. \A i \in 1 .. issued' : i \in 1 .. issued \/ i = issued'
      BY <1>3, <1>6
    <3> QED BY <1>3, <1>9, <3>1, <3>2, <3>3
  <2>2. origin' \in Seq(1 .. issued') /\ Len(origin') = Len(records')
    <3>1. origin \in Seq(1 .. issued) /\ Len(origin) = Len(records)
      BY DEF WInv, GhostsOK
    <3> DEFINE S == 1 .. issued
               T == 1 .. issued'
    <3>2. origin \in Seq(S) /\ S \subseteq T
      BY <1>6, <3>1
    <3> HIDE DEF S, T
    <3>3. origin \in Seq(T)
      BY <3>2
    <3> QED BY <1>2, <1>3, <3>1, <3>3 DEF T
  <2> QED BY <1>9, <2>1, <2>2 DEF GhostsOK
<1>11. RpcOK'
  BY <1>4, <1>5 DEF WInv, RpcOK
<1>12. FormsCarriedOutOnce'
  BY <1>2 DEF WInv, FormsCarriedOutOnce
<1>13. /\ posted'[h] = [browser |-> b, number |-> issued']
       /\ serving(h)'
       /\ \A g \in Handlers : g # h => posted'[g] = posted[g]
  BY <1>2, <1>6 DEF WInv, FibersOK, serving, NoForm
<1>14. \A g \in Handlers : serving(g) => posted[g].number \in 1 .. issued
  BY DEF WInv, FibersOK, serving
<1>15. FibersOK'
  <2>1. posted' \in [Handlers -> [browser : Browsers, number : 1 .. issued'] \cup {NoForm}]
    <3>1. posted \in [Handlers -> [browser : Browsers, number : 1 .. issued] \cup {NoForm}]
      BY DEF WInv, FibersOK
    <3>2. [browser : Browsers, number : 1 .. issued]
             \subseteq [browser : Browsers, number : 1 .. issued']
      BY <1>6
    <3>3. [browser |-> b, number |-> issued'] \in [browser : Browsers, number : 1 .. issued']
      BY <1>6
    <3> QED BY <1>2, <3>1, <3>2, <3>3
  <2>2. ASSUME NEW g \in Handlers, g # h
        PROVE  IF serving(g)' THEN ServingOK(g)' ELSE \A q \in RpcGroups : <<g, q>> \notin calls'
    <3>1. /\ posted'[g] = posted[g] /\ command'[g] = command[g] /\ pc'[g] = pc[g]
          /\ outcome'[g] = outcome[g] /\ seen'[g] = seen[g]
      BY <1>3, <1>13, <2>2 DEF WInv, AInv, IInv, TypeOK
    <3>2. \A q \in RpcGroups : <<g, q>> \in calls' <=> <<g, q>> \in calls
      BY <1>4, <2>2
    <3>3. carriedOut(origin', posted[g].number) <=> carriedOut(origin, posted[g].number)
      BY <1>2
    <3> QED BY <1>9, <3>1, <3>2, <3>3, FiberKept
  <2>3. ServingOK(h)'
    <3>1. posted'[h].number = issued' /\ sent'[issued'].form = form
      BY <1>9, <1>13
    <3>2. pc'[h] = "requested" /\ outcome'[h].tag = "None"
      BY <1>3 DEF WInv, AInv, IInv, TypeOK, NoOutcome
    <3>3. ~ carriedOut(origin', issued')
      <4>1. \A i \in DOMAIN origin : origin[i] \in 1 .. issued
        BY WebLengths
      <4> QED BY <1>2, <1>6, <4>1 DEF carriedOut
    <3>4. slice(h)' = sliceOf(commandOf(form))
      BY <1>1 DEF slice
    <3>5. \A q \in RpcGroups : <<h, q>> \notin calls
      BY <1>2 DEF WInv, FibersOK, serving
    <3>6. \A q \in RpcGroups : <<h, q>> \in calls' <=> q = <<slice(h)', "commands">>
      BY <1>4, <3>4, <3>5
    <3> QED BY <1>1, <3>1, <3>2, <3>3, <3>6 DEF ServingOK
  <2>4. ASSUME NEW g \in Handlers, NEW k \in Handlers, serving(g)', serving(k)',
               posted'[g].number = posted'[k].number
        PROVE  g = k
    <3>1. ASSUME NEW q \in Handlers, q # h, serving(q)' PROVE posted'[q].number # issued'
      BY <1>6, <1>13, <1>14, <3>1 DEF serving
    <3>2. CASE g # h /\ k # h
      BY <1>13, <2>4, <3>2 DEF WInv, FibersOK, serving
    <3> QED BY <1>13, <2>4, <3>1, <3>2
  <2> QED BY <1>13, <2>1, <2>2, <2>3, <2>4 DEF FibersOK
<1>16. BrowsersOK'
  <2>1. DOMAIN page' = Browsers /\ DOMAIN waits' = Browsers
    BY <1>2 DEF WInv, BrowsersOK
  <2>2. \A g \in Handlers : posted'[g] \in {posted[g], NoForm} \/ posted'[g].number > issued
    BY <1>6, <1>13
  <2>3. ASSUME NEW c \in Browsers
        PROVE  /\ page'[c] = page[c] => PageOK(c)'
               /\ waits'[c] = waits[c] => WaitOK(c)'
    BY <1>2, <1>3, <1>6, <2>2, BrowserStays, WebLengths DEF WInv, BrowsersOK
  <2>4. WaitOK(b)'
    <3>1. waits'[b].tag = "Waiting"
      BY <1>2 DEF WInv, BrowsersOK
    <3> QED BY <3>1 DEF WaitOK
  <2>5. ASSUME NEW c \in Browsers PROVE PageOK(c)' /\ (c # b => WaitOK(c)')
    <3>1. page'[c] = page[c] /\ (c # b => waits'[c] = waits[c])
      BY <1>2 DEF WInv, BrowsersOK
    <3> QED BY <2>3, <3>1
  <2> QED BY <2>1, <2>4, <2>5 DEF BrowsersOK
<1> QED BY <1>7, <1>10, <1>11, <1>12, <1>15, <1>16 DEF WInv

-----------------------------------------------------------------------------
\* What a step of a handler does to it and to the log.
LEMMA HandlerSteps ==
    ASSUME AInv, NEW h \in Handlers, Handle(h)
    PROVE  /\ UNCHANGED <<command, issued>>
           /\ \A g \in Handlers : g # h => /\ pc'[g] = pc[g] /\ outcome'[g] = outcome[g]
                                           /\ seen'[g] = seen[g]
           /\ outcome[h].tag = "None"
           /\ pc'[h] = "idle" => outcome'[h].tag # "None"
           /\ pc'[h] = "saving" => seen'[h] = Len(records)
           /\ \/ /\ records' = records
                 /\ outcome'[h].tag # "Receipt"
              \/ /\ Append_Stored(h)
                 /\ records' = Append(records, newRecord(h))
                 /\ newRecord(h) \in StoredEvent(Ids, DomainEvent)
                 /\ Len(records') = Len(records) + 1
                 /\ outcome'[h].tag = "Receipt"
<1>1. outcome[h].tag = "None"
  BY DEF AInv, Working, NoOutcome, Handle, LoadAndReject, LoadAndAccept, Append_Stored,
         Append_Conflict
<1>2. CASE LoadAndReject(h)
  BY <1>1, <1>2 DEF AInv, IInv, TypeOK, LoadAndReject
<1>3. CASE LoadAndAccept(h)
  BY <1>1, <1>3 DEF AInv, IInv, TypeOK, LoadAndAccept
<1>4. CASE Append_Conflict(h)
  BY <1>1, <1>4 DEF AInv, IInv, TypeOK, Append_Conflict
<1>5. CASE Append_Stored(h)
  <2> DEFINE r == newRecord(h)
  <2>1. records' = Append(records, r) /\ r \in StoredEvent(Ids, DomainEvent)
    BY <1>5, SaveIsFresh DEF AInv, Append_Stored
  <2>2. Len(records') = Len(records) + 1
    <3>1. records \in Seq(StoredEvent(Ids, DomainEvent))
      BY DEF AInv, IInv, TypeOK
    <3> HIDE DEF r
    <3> QED BY <2>1, <3>1, AppendProperties
  <2>3. outcome'[h].tag = "Receipt" /\ pc'[h] = "idle"
    BY <1>5 DEF AInv, IInv, TypeOK, Append_Stored
  <2>4. /\ UNCHANGED <<command, seen, issued>>
        /\ \A g \in Handlers : g # h => pc'[g] = pc[g] /\ outcome'[g] = outcome[g]
    BY <1>5 DEF AInv, IInv, TypeOK, Append_Stored
  <2> QED BY <1>1, <1>5, <2>1, <2>2, <2>3, <2>4
<1> QED BY <1>2, <1>3, <1>4, <1>5 DEF Handle

\* A handler stores at most one event, which is due to the form its fiber serves.
LEMMA ServeStep ==
    ASSUME WInv, NEW h \in Handlers, Serve(h)
    PROVE  WInv'
<1> DEFINE n == posted[h].number
<1>1. /\ serving(h) /\ Handle(h)
      /\ origin' = IF records' = records THEN origin ELSE Append(origin, n)
      /\ UNCHANGED <<phase, clientWrite, calls, page, waits, posted, sent>>
  BY DEF Serve, serving
<1>2. AInv'
  BY <1>1, HandleKeepsAnswers DEF WInv
<1>3. n \in 1 .. issued /\ ServingOK(h)
  BY <1>1 DEF WInv, FibersOK, serving
<1>4. ~ carriedOut(origin, n)
  BY <1>1, <1>3, HandlerSteps DEF WInv, ServingOK
<1>5. UNCHANGED <<command, issued>>
  BY <1>1, HandlerSteps DEF WInv
<1>6. \/ /\ origin' = origin /\ records' = records
         /\ outcome'[h].tag # "Receipt"
      \/ /\ origin' = Append(origin, n)
         /\ Len(records') = Len(records) + 1
         /\ outcome'[h].tag = "Receipt"
  <2>1. \/ records' = records /\ outcome'[h].tag # "Receipt"
        \/ Len(records') = Len(records) + 1 /\ outcome'[h].tag = "Receipt"
    BY <1>1, HandlerSteps DEF WInv
  <2>2. Len(records) \in Nat
    BY WebLengths
  <2>3. Len(records') = Len(records) + 1 => records' # records
    BY <2>2
  <2> QED BY <1>1, <2>1, <2>3
<1>7. /\ origin \in Seq(1 .. issued) /\ Len(origin) = Len(records) /\ Len(records) \in Nat
      /\ DOMAIN origin = 1 .. Len(origin)
  BY WebLengths DEF WInv, GhostsOK
<1>8. ASSUME origin' = Append(origin, n)
      PROVE  /\ origin' \in Seq(1 .. issued) /\ Len(origin') = Len(origin) + 1
             /\ DOMAIN origin' = 1 .. (Len(origin) + 1)
             /\ \A i \in 1 .. Len(origin) : origin'[i] = origin[i]
             /\ origin'[Len(origin) + 1] = n
  <2> DEFINE T == 1 .. issued
  <2>1. origin \in Seq(T) /\ n \in T
    BY <1>3, <1>7
  <2> HIDE DEF T, n
  <2>2. /\ origin' \in Seq(T) /\ Len(origin') = Len(origin) + 1
        /\ DOMAIN origin' = 1 .. (Len(origin) + 1)
        /\ \A i \in 1 .. Len(origin) : origin'[i] = origin[i]
        /\ origin'[Len(origin) + 1] = n
    BY <1>8, <2>1, <1>7, AppendProperties
  <2> QED BY <2>2 DEF T
<1>9. Len(records') \in Nat /\ Len(records) <= Len(records')
  BY <1>6, <1>7
<1> HIDE DEF n
<1>10. GhostsOK'
  <2>1. Range(sent)' = Range(sent)
    BY <1>1
  <2>2. \A i \in DOMAIN sent' : sent'[i].asOf \in 0 .. Len(records')
    <3>1. \A i \in DOMAIN sent : sent[i].asOf \in 0 .. Len(records)
      BY DEF WInv, GhostsOK
    <3> QED BY <1>1, <1>7, <1>9, <3>1
  <2>3. origin' \in Seq(1 .. issued') /\ Len(origin') = Len(records')
    BY <1>5, <1>6, <1>7, <1>8
  <2> QED BY <1>1, <1>5, <2>1, <2>2, <2>3 DEF WInv, GhostsOK
<1>11. RpcOK'
  BY <1>1 DEF WInv, RpcOK
<1>12. FormsCarriedOutOnce'
  <2>1. CASE origin' = origin
    BY <2>1 DEF WInv, FormsCarriedOutOnce
  <2>2. CASE origin' = Append(origin, n)
    <3>1. ASSUME NEW i \in 1 .. Len(origin) PROVE origin'[i] # n
      BY <1>4, <1>7, <1>8, <2>2 DEF carriedOut
    <3>2. ASSUME NEW i \in DOMAIN origin', NEW j \in DOMAIN origin', origin'[i] = origin'[j]
          PROVE  i = j
      <4>1. i \in 1 .. Len(origin) \/ i = Len(origin) + 1
        BY <1>7, <1>8, <2>2
      <4>2. j \in 1 .. Len(origin) \/ j = Len(origin) + 1
        BY <1>7, <1>8, <2>2
      <4>3. CASE i \in 1 .. Len(origin) /\ j \in 1 .. Len(origin)
        BY <1>7, <1>8, <2>2, <3>2, <4>3 DEF WInv, FormsCarriedOutOnce
      <4> QED BY <1>8, <2>2, <3>1, <3>2, <4>1, <4>2, <4>3
    <3> QED BY <3>2 DEF FormsCarriedOutOnce
  <2> QED BY <1>6, <2>1, <2>2
<1>13. ASSUME NEW number, number # n
       PROVE  carriedOut(origin', number) <=> carriedOut(origin, number)
  <2>1. CASE origin' = origin
    BY <2>1
  <2>2. CASE origin' = Append(origin, n)
    <3>1. \A i \in DOMAIN origin' : i \in DOMAIN origin \/ i = Len(origin) + 1
      BY <1>7, <1>8, <2>2
    <3>2. \A i \in DOMAIN origin : i \in DOMAIN origin' /\ origin'[i] = origin[i]
      BY <1>7, <1>8, <2>2
    <3> QED BY <1>8, <1>13, <2>2, <3>1, <3>2 DEF carriedOut
  <2> QED BY <1>6, <2>1, <2>2
<1>14. carriedOut(origin', n) <=> outcome'[h].tag = "Receipt"
  <2>1. CASE origin' = origin /\ outcome'[h].tag # "Receipt"
    BY <1>4, <2>1
  <2>2. CASE origin' = Append(origin, n) /\ outcome'[h].tag = "Receipt"
    BY <1>7, <1>8, <2>2 DEF carriedOut
  <2> QED BY <1>6, <2>1, <2>2
<1>15. FibersOK'
  <2>1. posted' \in [Handlers -> [browser : Browsers, number : 1 .. issued'] \cup {NoForm}]
    BY <1>1, <1>5 DEF WInv, FibersOK
  <2>2. \A g, k \in Handlers :
           (serving(g)' /\ serving(k)' /\ posted'[g].number = posted'[k].number) => g = k
    BY <1>1 DEF WInv, FibersOK, serving
  <2>3. ASSUME NEW g \in Handlers, g # h
        PROVE  IF serving(g)' THEN ServingOK(g)' ELSE \A q \in RpcGroups : <<g, q>> \notin calls'
    <3>1. pc'[g] = pc[g] /\ outcome'[g] = outcome[g] /\ seen'[g] = seen[g]
      BY <1>1, <2>3, HandlerSteps DEF WInv
    <3>2. serving(g) => posted[g].number # n
      BY <1>1, <2>3 DEF WInv, FibersOK, n
    <3>3. serving(g) => (carriedOut(origin', posted[g].number)
                            <=> carriedOut(origin, posted[g].number))
      BY <1>13, <3>2
    <3> QED BY <1>1, <1>5, <3>1, <3>3, FiberKept
  <2>4. serving(h)' /\ ServingOK(h)'
    <3>1. posted'[h].number = n /\ serving(h)' /\ slice(h)' = slice(h)
      BY <1>1, <1>5 DEF n, serving, slice
    <3>2. /\ command[h] = commandOf(sent[n].form)
          /\ \A g \in RpcGroups : <<h, g>> \in calls <=> g = <<slice(h), "commands">>
      BY <1>3 DEF ServingOK, n
    <3>3. /\ command'[h] = commandOf(sent'[n].form)
          /\ \A g \in RpcGroups : <<h, g>> \in calls' <=> g = <<slice(h)', "commands">>
      BY <1>1, <1>5, <3>1, <3>2
    <3>4. pc'[h] = "idle" => outcome'[h].tag # "None"
      BY <1>1, HandlerSteps DEF WInv
    <3>5. pc'[h] = "saving" => sent'[n].asOf <= seen'[h]
      <4>1. pc'[h] = "saving" => seen'[h] = Len(records)
        BY <1>1, HandlerSteps DEF WInv
      <4>2. sent[n].asOf \in 0 .. Len(records)
        BY <1>3, WebLengths DEF WInv, GhostsOK
      <4> QED BY <1>1, <1>7, <4>1, <4>2
    <3> QED BY <1>14, <3>1, <3>3, <3>4, <3>5 DEF ServingOK
  <2> QED BY <2>1, <2>2, <2>3, <2>4 DEF FibersOK
<1>16. BrowsersOK'
  <2>1. \A g \in Handlers : posted'[g] \in {posted[g], NoForm} \/ posted'[g].number > issued
    BY <1>1
  <2>2. \/ origin' = origin
        \/ \E g \in Handlers : /\ posted[g] # NoForm
                               /\ posted[g].number \in 1 .. issued
                               /\ origin' = Append(origin, posted[g].number)
    BY <1>1, <1>3, <1>6 DEF n, serving
  <2>3. issued \in Nat /\ issued' \in Nat /\ issued <= issued'
    BY <1>5, WebLengths
  <2>4. ASSUME NEW c \in Browsers PROVE PageOK(c)' /\ WaitOK(c)'
    <3>1. PageOK(c) /\ WaitOK(c) /\ page'[c] = page[c] /\ waits'[c] = waits[c]
      BY <1>1 DEF WInv, BrowsersOK
    <3> QED BY <1>7, <1>9, <2>1, <2>2, <2>3, <3>1, BrowserStays DEF WInv
  <2> QED BY <1>1, <2>4 DEF WInv, BrowsersOK
<1> QED BY <1>2, <1>10, <1>11, <1>12, <1>15, <1>16 DEF WInv

\* An answer is told to the browser that still waits for it, and to no other.
LEMMA RedirectStep ==
    ASSUME WInv, NEW h \in Handlers, Redirect(h)
    PROVE  WInv'
<1> DEFINE n == posted[h].number
           b == posted[h].browser
           href == redirectOf(sent[n].form, outcome[h])
<1>1. /\ serving(h) /\ pc[h] = "idle"
      /\ waits' = IF waits[b] # [tag |-> "Waiting", fiber |-> h] THEN waits
                  ELSE [waits EXCEPT ![b] = follow(href, n)]
      /\ posted' = [posted EXCEPT ![h] = NoForm]
      /\ forget(h)
      /\ UNCHANGED <<records, pc, aggregate, issued, page, sent, origin>>
  BY DEF Redirect, serving
<1>2. /\ calls' = calls \ {<<h, <<slice(h), "commands">>>>}
      /\ UNCHANGED <<phase, clientWrite>>
  BY DEF Redirect, Rpc!Answer
<1>3. AInv'
  BY <1>1, ForgetKeepsAnswers DEF WInv
<1>4. n \in 1 .. issued /\ b \in Browsers /\ ServingOK(h)
  BY <1>1 DEF WInv, FibersOK, serving
<1>5. GhostsOK' /\ FormsCarriedOutOnce'
  BY <1>1 DEF WInv, GhostsOK, FormsCarriedOutOnce
<1>6. RpcOK'
  BY <1>2 DEF WInv, RpcOK
<1>7. posted'[h] = NoForm /\ \A g \in Handlers : g # h => posted'[g] = posted[g]
  BY <1>1 DEF WInv, FibersOK
<1>8. FibersOK'
  <2>1. posted' \in [Handlers -> [browser : Browsers, number : 1 .. issued'] \cup {NoForm}]
    BY <1>1 DEF WInv, FibersOK
  <2>2. ASSUME NEW g \in Handlers, g # h
        PROVE  IF serving(g)' THEN ServingOK(g)' ELSE \A q \in RpcGroups : <<g, q>> \notin calls'
    <3>1. /\ posted'[g] = posted[g] /\ command'[g] = command[g] /\ pc'[g] = pc[g]
          /\ outcome'[g] = outcome[g] /\ seen'[g] = seen[g]
      BY <1>1, <1>7, <2>2 DEF forget, WInv, AInv, IInv, TypeOK
    <3>2. \A q \in RpcGroups : <<g, q>> \in calls' <=> <<g, q>> \in calls
      BY <1>2, <2>2
    <3> QED BY <1>1, <3>1, <3>2, FiberKept
  <2>3. ~ serving(h)' /\ \A q \in RpcGroups : <<h, q>> \notin calls'
    BY <1>2, <1>4, <1>7 DEF ServingOK, serving
  <2>4. \A g, k \in Handlers :
           (serving(g)' /\ serving(k)' /\ posted'[g].number = posted'[k].number) => g = k
    BY <1>7 DEF WInv, FibersOK, serving
  <2> QED BY <2>1, <2>2, <2>3, <2>4 DEF FibersOK
<1>9. href.error = errorOf(outcome[h])
  BY DEF redirectOf, articlesHref, counterHomeHref
<1>10. answeredAs(origin', posted', issued', n, href.error, Len(records'))
  <2>1. href.error = "command-failed" <=> ~ carriedOut(origin, n)
    BY <1>4, <1>9 DEF errorOf, ServingOK
  <2>2. DOMAIN origin = 1 .. Len(records)
    BY WebLengths
  <2>3. \A g \in Handlers : posted'[g] # NoForm => posted'[g].number # n
    BY <1>1, <1>7 DEF WInv, FibersOK, serving
  <2> HIDE DEF n, href
  <2> QED BY <1>1, <1>4, <2>1, <2>2, <2>3 DEF answeredAs, carriedOut
<1>11. BrowsersOK'
  <2>1. DOMAIN page' = Browsers /\ DOMAIN waits' = Browsers
    BY <1>1 DEF WInv, BrowsersOK
  <2>2. \A g \in Handlers : posted'[g] \in {posted[g], NoForm} \/ posted'[g].number > issued
    BY <1>7
  <2>3. Len(records) \in Nat /\ issued \in Nat /\ n \in 0 .. issued
    BY <1>4, WebLengths
  <2>4. ASSUME NEW c \in Browsers
        PROVE  /\ page'[c] = page[c] => PageOK(c)'
               /\ waits'[c] = waits[c] => WaitOK(c)'
    <3>1. PageOK(c) /\ WaitOK(c)
      BY DEF WInv, BrowsersOK
    <3> QED BY <1>1, <2>2, <2>3, <3>1, BrowserStays DEF WInv
  <2>5. ASSUME NEW c \in Browsers, waits'[c] # waits[c] PROVE WaitOK(c)'
    <3>1. waits'[c] = follow(href, n)
      BY <1>1, <2>5 DEF WInv, BrowsersOK
    <3> HIDE DEF href, n
    <3>2. waits'[c].tag = "Following" /\ waits'[c].answers = n /\ waits'[c].href = href
      BY <3>1 DEF follow
    <3> QED BY <1>1, <1>10, <2>3, <3>2 DEF WaitOK
  <2>6. \A c \in Browsers : PageOK(c)' /\ WaitOK(c)'
    BY <1>1, <2>4, <2>5
  <2> QED BY <2>1, <2>6 DEF BrowsersOK
<1> QED BY <1>3, <1>5, <1>6, <1>8, <1>11 DEF WInv

-----------------------------------------------------------------------------
LEMMA InitiallyWeb == InitWeb => WInv
<1> SUFFICES ASSUME InitWeb PROVE WInv
  OBVIOUS
<1>1. AInv
  BY AnswersInitially DEF InitWeb
<1>2. RpcOK
  BY DEF InitWeb, RpcOK, Rpc!InitRpc
<1>3. issued = 0 /\ Len(records) = 0
  BY DEF InitWeb, Init
<1>4. GhostsOK
  <2>1. sent = <<>> /\ origin = <<>> /\ Len(<<>>) = 0 /\ DOMAIN <<>> = {}
    BY DEF InitWeb
  <2>2. \A S : <<>> \in Seq(S)
    OBVIOUS
  <2> QED BY <1>3, <2>1, <2>2 DEF GhostsOK
<1>5. FibersOK
  BY DEF InitWeb, FibersOK, serving, Rpc!InitRpc
<1>6. BrowsersOK
  <2>1. \A b \in Browsers : page[b] = NoPage /\ waits[b].tag = "NotWaiting"
    BY DEF InitWeb, NotWaiting
  <2>2. DOMAIN page = Browsers /\ DOMAIN waits = Browsers
    BY DEF InitWeb
  <2>3. NoPage.href.error # "command-failed"
    BY DEF NoPage, counterHomeHref
  <2> QED BY <1>3, <2>1, <2>2, <2>3 DEF BrowsersOK, PageOK, WaitOK, NoPage, answeredAs
<1>7. FormsCarriedOutOnce
  BY DEF InitWeb, FormsCarriedOutOnce
<1> QED BY <1>1, <1>2, <1>4, <1>5, <1>6, <1>7 DEF WInv

LEMMA WebStep ==
    ASSUME WInv, [NextWeb]_allVars
    PROVE  WInv'
<1>1. CASE UNCHANGED allVars
  <2>1. UNCHANGED <<vars, phase, clientWrite, calls, page, waits, posted, sent, origin>>
    BY <1>1 DEF allVars, webVars
  <2>2. RpcOK'
    BY <2>1 DEF WInv, RpcOK
  <2>3. BrowsersOK'
    BY <2>1, OtherBrowsers DEF WInv, BrowsersOK, vars
  <2> QED BY <2>1, <2>2, <2>3, BrowsersAlone
<1>2. CASE NextWeb
  <2>1. ASSUME NEW g \in RpcGroups, Wire(g) PROVE WInv'
    BY <2>1, WireStep
  <2>2. ASSUME NEW b \in Browsers,
               \/ Open(b) \/ Reload(b) \/ PostBlank(b) \/ PostUnread(b)
               \/ Follow(b) \/ GiveUp(b)
        PROVE  WInv'
    BY <2>2, OpenStep, ReloadStep, PostBlankStep, PostUnreadStep, FollowStep, GiveUpStep
  <2>3. ASSUME NEW b \in Browsers, NEW h \in Handlers, Post(b, h) PROVE WInv'
    BY <2>3, PostStep
  <2>4. ASSUME NEW h \in Handlers, Serve(h) \/ Redirect(h) PROVE WInv'
    BY <2>4, ServeStep, RedirectStep
  <2> QED BY <1>2, <2>1, <2>2, <2>3, <2>4 DEF NextWeb
<1> QED BY <1>1, <1>2

(***************************************************************************)
(* The invariant holds in every reachable state.                           *)
(***************************************************************************)
THEOREM WebInvariance == SpecWeb => []WInv
<1>1. WInv /\ [NextWeb]_allVars => WInv'
  BY WebStep
<1> QED BY InitiallyWeb, <1>1, PTL DEF SpecWeb

(***************************************************************************)
(* Type correctness: every form, event, page and call is accounted for.    *)
(***************************************************************************)
THEOREM WebTypes == SpecWeb => []WebTypeOK
<1>1. ASSUME WInv PROVE WebTypeOK
  <2>1. Len(sent) = issued /\ Len(origin) = Len(records)
    BY <1>1 DEF WInv, GhostsOK
  <2>2. \A i \in DOMAIN origin : origin[i] \in 1 .. issued
    BY <1>1, WebLengths
  <2>3. ASSUME NEW h \in Handlers
        PROVE  /\ posted[h].number \in 0 .. issued
               /\ (posted[h] = NoForm) <=> (\A g \in RpcGroups : <<h, g>> \notin calls)
    <3>1. CASE serving(h)
      <4>1. posted[h].number \in 1 .. issued /\ ServingOK(h)
        BY <1>1, <3>1 DEF WInv, FibersOK, serving
      <4>2. <<slice(h), "commands">> \in RpcGroups
        BY DEF slice, sliceOf, RpcGroups, Slices
      <4>3. <<h, <<slice(h), "commands">>>> \in calls
        BY <4>1, <4>2 DEF ServingOK
      <4> QED BY <3>1, <4>1, <4>2, <4>3 DEF serving
    <3>2. CASE ~ serving(h)
      <4>1. 0 \in 0 .. issued
        BY <1>1, WebLengths
      <4> QED BY <1>1, <3>2, <4>1 DEF WInv, FibersOK, serving, NoForm
    <3> QED BY <3>1, <3>2
  <2>4. ASSUME NEW b \in Browsers
        PROVE  /\ page[b].asOf \in 0 .. Len(records)
               /\ page[b].answers \in 0 .. issued
               /\ waits[b].tag \in {"NotWaiting", "Waiting", "Following"}
    BY <1>1 DEF WInv, BrowsersOK, PageOK, WaitOK
  <2>5. TypeOK
    BY <1>1 DEF WInv, AInv, IInv
  <2> QED BY <1>1, <2>1, <2>2, <2>3, <2>4, <2>5 DEF WebTypeOK, WInv, RpcOK
<1> QED BY <1>1, WebInvariance, PTL

(***************************************************************************)
(* No form is carried out twice, whether or not its browser waits for the  *)
(* answer, and whatever other forms are under way.                         *)
(***************************************************************************)
THEOREM NoFormTwice == SpecWeb => []FormsCarriedOutOnce
<1>1. WInv => FormsCarriedOutOnce
  BY DEF WInv
<1> QED BY <1>1, WebInvariance, PTL

(***************************************************************************)
(* The page a browser is redirected to tells the truth about the form      *)
(* whose command it answers: an alert means that nothing was stored for    *)
(* it, no alert that its event is in the log the page was rendered from.   *)
(* A form that was not read sends no command, and its page shows no alert, *)
(* for every alert is the answer to a command.                             *)
(***************************************************************************)
THEOREM AlertsTellTheTruth == SpecWeb => []AlertsAreTruthful
<1>1. ASSUME WInv, NEW b \in Browsers
      PROVE  /\ page[b].href.error = "command-failed" =>
                    /\ page[b].answers > 0
                    /\ \A i \in DOMAIN origin : origin[i] # page[b].answers
             /\ (page[b].href.error # "command-failed" /\ page[b].answers > 0) =>
                    \E i \in 1 .. page[b].asOf : origin[i] = page[b].answers
  <2>1. answeredAs(origin, posted, issued, page[b].answers, page[b].href.error, page[b].asOf)
    BY <1>1 DEF WInv, BrowsersOK, PageOK
  <2> QED BY <2>1 DEF answeredAs, carriedOut
<1>2. WInv => AlertsAreTruthful
  BY <1>1 DEF AlertsAreTruthful
<1> QED BY <1>2, WebInvariance, PTL

-----------------------------------------------------------------------------
(***************************************************************************)
(* A refusal has its cause from the moment the handler answers, and keeps  *)
(* it on its way to the page, because the log only grows.                  *)
(***************************************************************************)
excusedIn(rs, entry) ==
    LET c == commandOf(entry.form)
        shown == load(sliceOf(c), SubSeq(rs, 1, entry.asOf), c.id)
    IN  \/ isFailure(decide(c, shown.state))
        \/ \E i \in (entry.asOf + 1) .. Len(rs) : rs[i].aggregateId = c.id

told(number, error) ==
    (number > 0 /\ error = "command-failed") => excusedIn(records, sent[number])

EInv ==
    /\ \A h \in Handlers :
          (serving(h) /\ outcome[h].tag \in {"Rejected", "ExpectedVersionConflict"})
              => excusedIn(records, sent[posted[h].number])
    /\ \A b \in Browsers :
          /\ told(page[b].answers, page[b].href.error)
          /\ waits[b].tag = "Following" => told(waits[b].answers, waits[b].href.error)

\* The beginning of a log, and what it has in common with a longer one.
LEMMA Beginnings ==
    ASSUME NEW rs \in Logs, NEW m \in 0 .. Len(rs)
    PROVE  /\ SubSeq(rs, 1, m) \in Logs
           /\ Len(SubSeq(rs, 1, m)) = m
           /\ \A i \in 1 .. m : SubSeq(rs, 1, m)[i] = rs[i]
           /\ IsPrefix(SubSeq(rs, 1, m), rs)
           /\ \A r \in StoredEvent(Ids, DomainEvent) :
                 SubSeq(Append(rs, r), 1, m) = SubSeq(rs, 1, m)
<1> DEFINE T == StoredEvent(Ids, DomainEvent)
           ps == SubSeq(rs, 1, m)
<1>1. rs \in Seq(T) /\ Len(rs) \in Nat /\ m \in Nat /\ m <= Len(rs)
  BY LenProperties DEF Logs
<1> HIDE DEF T
<1>2. /\ ps \in Seq(T) /\ Len(ps) = m
      /\ \A i \in 1 .. m : ps[i] = rs[i]
  BY <1>1
<1>3. SubSeq(ps, 1, m) = ps
  BY <1>1, <1>2
<1>4. IsPrefix(ps, rs)
  BY <1>1, <1>2, <1>3 DEF IsPrefix
<1>5. ASSUME NEW r \in T PROVE SubSeq(Append(rs, r), 1, m) = SubSeq(rs, 1, m)
  BY <1>1, <1>5
<1> QED BY <1>2, <1>4, <1>5 DEF Logs, T

LEMMA ExcuseStays ==
    ASSUME NEW rs \in Logs, NEW r \in StoredEvent(Ids, DomainEvent), NEW entry,
           entry.asOf \in 0 .. Len(rs), excusedIn(rs, entry)
    PROVE  excusedIn(Append(rs, r), entry)
<1> DEFINE qs == Append(rs, r)
           m == entry.asOf
           c == commandOf(entry.form)
<1>1. SubSeq(qs, 1, m) = SubSeq(rs, 1, m)
  BY Beginnings
<1>2. /\ Len(rs) \in Nat /\ Len(qs) = Len(rs) + 1
      /\ \A i \in 1 .. Len(rs) : qs[i] = rs[i]
  BY AppendProperties, LenProperties DEF Logs
<1> HIDE DEF qs, c
<1>3. \/ isFailure(decide(c, load(sliceOf(c), SubSeq(rs, 1, m), c.id).state))
      \/ \E i \in (m + 1) .. Len(rs) : rs[i].aggregateId = c.id
  BY DEF excusedIn, c
<1>4. ASSUME NEW i \in (m + 1) .. Len(rs), rs[i].aggregateId = c.id
      PROVE  i \in (m + 1) .. Len(qs) /\ qs[i].aggregateId = c.id
  BY <1>2, <1>4
<1>5. \/ isFailure(decide(c, load(sliceOf(c), SubSeq(qs, 1, m), c.id).state))
      \/ \E i \in (m + 1) .. Len(qs) : qs[i].aggregateId = c.id
  BY <1>1, <1>3, <1>4
<1> QED BY <1>5 DEF excusedIn, c, qs

\* What is excused stays excused, whatever the step.
LEMMA StillExcused ==
    ASSUME WInv, extended, NEW number \in 1 .. issued, sent'[number] = sent[number],
           excusedIn(records, sent[number])
    PROVE  excusedIn(records', sent'[number])
<1>1. sent[number].asOf \in 0 .. Len(records) /\ records \in Logs
  BY WebLengths DEF WInv, GhostsOK
<1>2. CASE records' = records
  BY <1>2
<1>3. CASE \E r \in StoredEvent(Ids, DomainEvent) : records' = Append(records, r)
  <2>1. PICK r \in StoredEvent(Ids, DomainEvent) : records' = Append(records, r)
    BY <1>3
  <2> DEFINE entry == sent[number]
  <2> HIDE DEF entry
  <2>2. excusedIn(Append(records, r), entry)
    BY <1>1, ExcuseStays DEF entry
  <2> QED BY <2>1, <2>2 DEF entry
<1> QED BY <1>2, <1>3 DEF extended

(***************************************************************************)
(* A rejection: unless the stream moved since the page was rendered, the   *)
(* handler decided on the aggregate that the page showed.                  *)
(***************************************************************************)
LEMMA RejectionExcused ==
    ASSUME WInv, NEW h \in Handlers, serving(h), LoadAndReject(h)
    PROVE  excusedIn(records, sent[posted[h].number])
<1> DEFINE entry == sent[posted[h].number]
           m == entry.asOf
           c == command[h]
           s == slice(h)
<1>1. posted[h].number \in 1 .. issued /\ c = commandOf(entry.form)
  BY DEF WInv, FibersOK, serving, ServingOK
<1>2. m \in 0 .. Len(records) /\ records \in Logs
  BY <1>1, WebLengths DEF WInv, GhostsOK
<1>3. isFailure(decide(c, load(s, records, c.id).state)) /\ s = sliceOf(c)
  BY DEF LoadAndReject, slice, id
<1> HIDE DEF entry, s
<1>4. ASSUME \A i \in (m + 1) .. Len(records) : records[i].aggregateId # c.id
      PROVE  load(s, SubSeq(records, 1, m), c.id) = load(s, records, c.id)
  <2> DEFINE ps == SubSeq(records, 1, m)
             x == c.id
  <2>1. \A i \in (m + 1) .. Len(records) : i \notin fetch(s, records, x)
    BY <1>4 DEF fetch, recordsForAggregate
  <2>2. ps \in Logs /\ Len(ps) = m /\ IsPrefix(ps, records)
    BY <1>2, Beginnings
  <2> HIDE DEF ps, x
  <2>3. load(s, records, x) = history(s, records, x)[m]
    BY <1>2, <2>1, QuietHistory
  <2>4. load(s, ps, x) = history(s, records, x)[Len(ps)]
    BY <1>2, <2>2, LoadOfBeginning
  <2> QED BY <2>2, <2>3, <2>4 DEF ps, x
<1> HIDE DEF c
<1> QED BY <1>1, <1>3, <1>4 DEF excusedIn, entry, c

(***************************************************************************)
(* A conflict, if no id is shared: what overtook the handler was stored    *)
(* after it loaded, so after the page was rendered.                        *)
(***************************************************************************)
LEMMA ConflictExcused ==
    ASSUME CounterIds \cap UserIds = {},
           WInv, WInv', NEW h \in Handlers, serving(h), Append_Conflict(h), sent' = sent
    PROVE  excusedIn(records, sent[posted[h].number])
<1> DEFINE entry == sent[posted[h].number]
           m == entry.asOf
           c == command[h]
<1>1. posted[h].number \in 1 .. issued /\ c = commandOf(entry.form) /\ m <= seen[h]
  BY DEF WInv, FibersOK, serving, ServingOK, Append_Conflict
<1>2. m \in Nat /\ seen[h] \in Nat
  <2>1. Len(records) \in Nat /\ m \in 0 .. Len(records)
    BY <1>1, WebLengths DEF WInv, GhostsOK
  <2>2. seen[h] \in 0 .. Len(records)
    BY DEF WInv, AInv, IInv, TypeOK
  <2> QED BY <2>1, <2>2
<1>3. overtakenIn(records, c, seen[h])
  <2>1. /\ outcome'[h].tag = "ExpectedVersionConflict"
        /\ UNCHANGED <<records, command, seen>>
    BY DEF Append_Conflict, WInv, AInv, IInv, TypeOK
  <2>2. overtaken(h)'
    BY <2>1 DEF WInv, AInv, OwnStreamConflictMeansContention, id
  <2> QED BY <2>1, <2>2 DEF overtaken, overtakenIn, slice, id
<1> HIDE DEF entry, c
<1>4. PICK i \in (seen[h] + 1) .. Len(records) : i \in fetch(sliceOf(c), records, c.id)
  BY <1>3 DEF overtakenIn
<1>5. records[i].aggregateId = c.id
  BY <1>4 DEF fetch, recordsForAggregate
<1>6. i \in (m + 1) .. Len(records)
  <2>1. Len(records) \in Nat
    BY WebLengths
  <2> QED BY <1>1, <1>2, <1>4, <2>1
<1> QED BY <1>1, <1>5, <1>6 DEF excusedIn, entry, c

-----------------------------------------------------------------------------
\* Every step keeps the log or adds one event to it, and keeps what was sent.
LEMMA WebExtends ==
    ASSUME WInv, [NextWeb]_allVars
    PROVE  extended /\ \A number \in 1 .. issued : sent'[number] = sent[number]
<1>1. ASSUME UNCHANGED <<vars, sent>>
      PROVE  extended /\ \A number \in 1 .. issued : sent'[number] = sent[number]
  BY <1>1 DEF vars, extended
<1>2. ASSUME NEW b \in Browsers, NEW h \in Handlers, Post(b, h)
      PROVE  extended /\ \A number \in 1 .. issued : sent'[number] = sent[number]
  <2>1. PICK entry : sent' = Append(sent, entry)
    BY <1>2 DEF Post
  <2>2. records' = records
    BY <1>2 DEF Post, Request
  <2> QED BY <2>1, <2>2, OwnAppend, WebLengths DEF extended, WInv, GhostsOK
<1>3. ASSUME NEW h \in Handlers, Serve(h)
      PROVE  extended /\ \A number \in 1 .. issued : sent'[number] = sent[number]
  BY <1>3, HandlerSteps DEF Serve, WInv, extended
<1>4. ASSUME NEW h \in Handlers, Redirect(h)
      PROVE  extended /\ \A number \in 1 .. issued : sent'[number] = sent[number]
  BY <1>4 DEF Redirect, extended
<1>5. \/ UNCHANGED <<vars, sent>>
      \/ \E b \in Browsers, h \in Handlers : Post(b, h)
      \/ \E h \in Handlers : Serve(h) \/ Redirect(h)
  BY DEF NextWeb, allVars, webVars, Wire, Open, Reload, PostBlank, PostUnread, Follow, GiveUp
<1> QED BY <1>1, <1>2, <1>3, <1>4, <1>5

\* Where the answer of a fiber comes from.
LEMMA FiberAnswers ==
    ASSUME WInv, [NextWeb]_allVars, NEW g \in Handlers, serving(g)',
           outcome'[g].tag \in {"Rejected", "ExpectedVersionConflict"}
    PROVE  /\ serving(g) /\ posted'[g] = posted[g]
           /\ \/ outcome'[g] = outcome[g]
              \/ (LoadAndReject(g) \/ Append_Conflict(g)) /\ UNCHANGED <<records, sent>>
<1>1. CASE UNCHANGED <<vars, posted>>
  BY <1>1 DEF vars, serving
<1>2. ASSUME NEW b \in Browsers, NEW h \in Handlers, Post(b, h)
      PROVE  serving(g) /\ posted'[g] = posted[g] /\ outcome'[g] = outcome[g]
  <2>1. g # h
    BY <1>2 DEF Post, Request, WInv, AInv, IInv, TypeOK, NoOutcome
  <2> QED BY <1>2, <2>1 DEF Post, Request, WInv, AInv, IInv, TypeOK, FibersOK, serving
<1>3. ASSUME NEW h \in Handlers, Serve(h)
      PROVE  /\ serving(g) /\ posted'[g] = posted[g]
             /\ \/ outcome'[g] = outcome[g]
                \/ (LoadAndReject(g) \/ Append_Conflict(g)) /\ UNCHANGED <<records, sent>>
  <2>1. serving(g) /\ posted'[g] = posted[g] /\ UNCHANGED sent
    BY <1>3 DEF Serve, serving
  <2>2. CASE g # h
    BY <1>3, <2>1, <2>2, HandlerSteps DEF Serve, WInv
  <2>3. CASE g = h
    <3>1. LoadAndReject(g) \/ LoadAndAccept(g) \/ Append_Stored(g) \/ Append_Conflict(g)
      BY <1>3, <2>3 DEF Serve, Handle
    <3>2. ~ Append_Stored(g)
      BY DEF Append_Stored, WInv, AInv, IInv, TypeOK
    <3>3. LoadAndAccept(g) => outcome' = outcome
      BY DEF LoadAndAccept
    <3>4. (LoadAndReject(g) \/ Append_Conflict(g)) => UNCHANGED records
      BY DEF LoadAndReject, Append_Conflict
    <3> QED BY <2>1, <3>1, <3>2, <3>3, <3>4
  <2> QED BY <2>1, <2>2, <2>3
<1>4. ASSUME NEW h \in Handlers, Redirect(h)
      PROVE  serving(g) /\ posted'[g] = posted[g] /\ outcome'[g] = outcome[g]
  <2>1. g # h
    BY <1>4 DEF Redirect, WInv, FibersOK, serving
  <2> QED BY <1>4, <2>1 DEF Redirect, forget, WInv, AInv, IInv, TypeOK, FibersOK, serving
<1>5. \/ UNCHANGED <<vars, posted>>
      \/ \E b \in Browsers, h \in Handlers : Post(b, h)
      \/ \E h \in Handlers : Serve(h) \/ Redirect(h)
  BY DEF NextWeb, allVars, webVars, Wire, Open, Reload, PostBlank, PostUnread, Follow, GiveUp
<1> QED BY <1>1, <1>2, <1>3, <1>4, <1>5

\* Where a page comes from: no command, the page it was, or a redirect.
LEMMA PagesTold ==
    ASSUME WInv, [NextWeb]_allVars, NEW b \in Browsers
    PROVE  \/ page'[b].answers = 0
           \/ page'[b].answers = page[b].answers /\ page'[b].href = page[b].href
           \/ /\ waits[b].tag = "Following"
              /\ page'[b].answers = waits[b].answers /\ page'[b].href = waits[b].href
<1>1. CASE UNCHANGED page
  BY <1>1
<1>2. ASSUME NEW c \in Browsers, Open(c)
      PROVE  page'[b] = page[b] \/ page'[b].answers = 0
  BY <1>2 DEF Open, WInv, BrowsersOK
<1>3. ASSUME NEW c \in Browsers, Reload(c)
      PROVE  page'[b].answers = page[b].answers /\ page'[b].href = page[b].href
  <2>1. page[b] = [href |-> page[b].href, asOf |-> page[b].asOf, answers |-> page[b].answers]
    BY DEF WInv, BrowsersOK, PageOK
  <2> DEFINE href == page[b].href
             from == page[b].asOf
             number == page[b].answers
  <2>2. page[b] = [href |-> href, asOf |-> from, answers |-> number]
    BY <2>1
  <2>3. page'[b] = page[b] \/ page'[b] = [page[b] EXCEPT !.asOf = Len(records)]
    BY <1>3 DEF Reload, WInv, BrowsersOK
  <2> HIDE DEF href, from, number
  <2>4. page'[b].href = href /\ page'[b].answers = number
    BY <2>2, <2>3
  <2> QED BY <2>4 DEF href, number
<1>4. ASSUME NEW c \in Browsers, Follow(c)
      PROVE  \/ page'[b] = page[b]
             \/ /\ waits[b].tag = "Following"
                /\ page'[b].answers = waits[b].answers /\ page'[b].href = waits[b].href
  BY <1>4 DEF Follow, WInv, BrowsersOK
<1>5. \/ UNCHANGED page
      \/ \E c \in Browsers : Open(c) \/ Reload(c) \/ Follow(c)
  BY DEF NextWeb, allVars, webVars, Wire, PostBlank, PostUnread, GiveUp, Post, Serve, Redirect
<1> QED BY <1>1, <1>2, <1>3, <1>4, <1>5

\* Where a redirect comes from: no command, the redirect it was, or a fiber's answer.
LEMMA RedirectsTold ==
    ASSUME WInv, [NextWeb]_allVars, NEW b \in Browsers, waits'[b].tag = "Following"
    PROVE  \/ waits'[b].answers = 0
           \/ waits'[b] = waits[b]
           \/ \E h \in Handlers : /\ serving(h)
                                  /\ waits'[b].answers = posted[h].number
                                  /\ waits'[b].href.error = errorOf(outcome[h])
                                  /\ outcome[h].tag # "None"
<1>1. CASE UNCHANGED waits
  BY <1>1
<1>2. ASSUME NEW c \in Browsers, Open(c) \/ Follow(c) \/ GiveUp(c) PROVE waits'[b] = waits[b]
  BY <1>2 DEF Open, Follow, GiveUp, WInv, BrowsersOK, NotWaiting
<1>3. ASSUME NEW c \in Browsers, PostBlank(c) \/ PostUnread(c)
      PROVE  waits'[b] = waits[b] \/ waits'[b].answers = 0
  BY <1>3 DEF PostBlank, PostUnread, WInv, BrowsersOK, follow
<1>4. ASSUME NEW c \in Browsers, NEW h \in Handlers, Post(c, h) PROVE waits'[b] = waits[b]
  BY <1>4 DEF Post, WInv, BrowsersOK
<1>5. ASSUME NEW h \in Handlers, Redirect(h)
      PROVE  \/ waits'[b] = waits[b]
             \/ /\ serving(h)
                /\ waits'[b].answers = posted[h].number
                /\ waits'[b].href.error = errorOf(outcome[h])
                /\ outcome[h].tag # "None"
  <2> DEFINE n == posted[h].number
             href == redirectOf(sent[n].form, outcome[h])
             c == posted[h].browser
  <2>1. /\ serving(h) /\ pc[h] = "idle"
        /\ \/ waits' = waits
           \/ waits' = [waits EXCEPT ![c] = follow(href, n)]
    BY <1>5 DEF Redirect, serving
  <2>2. href.error = errorOf(outcome[h])
    BY DEF redirectOf, articlesHref, counterHomeHref
  <2>3. outcome[h].tag # "None"
    BY <2>1 DEF WInv, FibersOK, serving, ServingOK
  <2>4. waits'[b] = waits[b] \/ waits'[b] = follow(href, n)
    BY <2>1 DEF WInv, BrowsersOK
  <2> HIDE DEF href, n
  <2>5. CASE waits'[b] = follow(href, n)
    BY <2>1, <2>2, <2>3, <2>5 DEF follow, n
  <2> QED BY <2>4, <2>5
<1>6. \/ UNCHANGED waits
      \/ \E c \in Browsers : Open(c) \/ Follow(c) \/ GiveUp(c) \/ PostBlank(c) \/ PostUnread(c)
      \/ \E c \in Browsers, h \in Handlers : Post(c, h)
      \/ \E h \in Handlers : Redirect(h)
  BY DEF NextWeb, allVars, webVars, Wire, Reload, Serve
<1> QED BY <1>1, <1>2, <1>3, <1>4, <1>5, <1>6

LEMMA ExcusesStep ==
    ASSUME CounterIds \cap UserIds = {}, WInv, WInv', EInv, [NextWeb]_allVars
    PROVE  EInv'
<1>1. extended /\ \A number \in 1 .. issued : sent'[number] = sent[number]
  BY WebExtends
<1>2. ASSUME NEW number \in 1 .. issued, excusedIn(records, sent[number])
      PROVE  excusedIn(records', sent'[number])
  BY <1>1, <1>2, StillExcused
<1>3. ASSUME NEW g \in Handlers, serving(g)',
             outcome'[g].tag \in {"Rejected", "ExpectedVersionConflict"}
      PROVE  excusedIn(records', sent'[posted'[g].number])
  <2>1. /\ serving(g) /\ posted'[g] = posted[g]
        /\ \/ outcome'[g] = outcome[g]
           \/ (LoadAndReject(g) \/ Append_Conflict(g)) /\ UNCHANGED <<records, sent>>
    BY <1>3, FiberAnswers
  <2>2. posted[g].number \in 1 .. issued
    BY <2>1 DEF WInv, FibersOK, serving
  <2>3. excusedIn(records, sent[posted[g].number])
    <3>1. CASE outcome'[g] = outcome[g]
      BY <1>3, <2>1, <3>1 DEF EInv
    <3>2. CASE LoadAndReject(g)
      BY <2>1, <3>2, RejectionExcused
    <3>3. CASE Append_Conflict(g) /\ UNCHANGED sent
      BY <2>1, <3>3, ConflictExcused
    <3> QED BY <2>1, <3>1, <3>2, <3>3
  <2> QED BY <1>2, <2>1, <2>2, <2>3
<1>4. ASSUME NEW number \in 0 .. issued, NEW error, told(number, error)
      PROVE  (number > 0 /\ error = "command-failed") => excusedIn(records', sent'[number])
  <2>1. issued \in Nat
    BY WebLengths
  <2> QED BY <1>2, <1>4, <2>1 DEF told
<1>5. ASSUME NEW b \in Browsers PROVE told(page[b].answers, page[b].href.error)'
  <2>1. /\ page[b].answers \in 0 .. issued /\ told(page[b].answers, page[b].href.error)
        /\ waits[b].tag = "Following" =>
              waits[b].answers \in 0 .. issued /\ told(waits[b].answers, waits[b].href.error)
    BY DEF EInv, WInv, BrowsersOK, PageOK, WaitOK
  <2> SUFFICES ASSUME page'[b].answers > 0, page'[b].href.error = "command-failed"
               PROVE  excusedIn(records', sent'[page'[b].answers])
    BY DEF told
  <2>2. CASE page'[b].answers = page[b].answers /\ page'[b].href = page[b].href
    BY <1>4, <2>1, <2>2
  <2>3. CASE /\ waits[b].tag = "Following"
             /\ page'[b].answers = waits[b].answers /\ page'[b].href = waits[b].href
    BY <1>4, <2>1, <2>3
  <2> QED BY <2>2, <2>3, PagesTold
<1>6. ASSUME NEW b \in Browsers, waits'[b].tag = "Following"
      PROVE  told(waits[b].answers, waits[b].href.error)'
  <2> SUFFICES ASSUME waits'[b].answers > 0, waits'[b].href.error = "command-failed"
               PROVE  excusedIn(records', sent'[waits'[b].answers])
    BY DEF told
  <2>1. CASE waits'[b] = waits[b]
    <3>1. waits[b].answers \in 0 .. issued /\ told(waits[b].answers, waits[b].href.error)
      BY <1>6, <2>1 DEF EInv, WInv, BrowsersOK, WaitOK
    <3> QED BY <1>4, <2>1, <3>1
  <2>2. CASE \E h \in Handlers : /\ serving(h)
                                 /\ waits'[b].answers = posted[h].number
                                 /\ waits'[b].href.error = errorOf(outcome[h])
                                 /\ outcome[h].tag # "None"
    <3>1. PICK h \in Handlers : /\ serving(h)
                                /\ waits'[b].answers = posted[h].number
                                /\ waits'[b].href.error = errorOf(outcome[h])
                                /\ outcome[h].tag # "None"
      BY <2>2
    <3>2. outcome[h].tag \in {"Rejected", "ExpectedVersionConflict"}
      BY <3>1 DEF errorOf, WInv, AInv, IInv, TypeOK
    <3>3. posted[h].number \in 1 .. issued /\ excusedIn(records, sent[posted[h].number])
      BY <3>1, <3>2 DEF EInv, WInv, FibersOK, serving
    <3> QED BY <1>2, <3>1, <3>3
  <2> QED BY <1>6, <2>1, <2>2, RedirectsTold
<1> QED BY <1>3, <1>5, <1>6 DEF EInv

(***************************************************************************)
(* Where no counter has the id of a user, a form is refused for a cause:   *)
(* its command was not possible on the page it was posted from, or the     *)
(* stream it is about has moved on since.  With a shared id the store      *)
(* counts what the page does not show, and refuses without cause.          *)
(***************************************************************************)
THEOREM RefusedForCause ==
    CounterIds \cap UserIds = {} => (SpecWeb => []RefusalsHaveCause)
<1> SUFFICES ASSUME CounterIds \cap UserIds = {} PROVE SpecWeb => []RefusalsHaveCause
  OBVIOUS
<1>1. InitWeb => EInv
  BY DEF InitWeb, EInv, serving, told, NoPage, NotWaiting
<1>2. WInv /\ WInv' /\ EInv /\ [NextWeb]_allVars => EInv'
  BY ExcusesStep
<1>3. WInv /\ EInv => RefusalsHaveCause
  <2> SUFFICES ASSUME WInv, EInv, NEW b \in Browsers, page[b].answers > 0,
                      page[b].href.error = "command-failed"
               PROVE  LET form == sent[page[b].answers]
                          c == commandOf(form.form)
                          shown == load(sliceOf(c), logAt(form.asOf), c.id)
                      IN  \/ isFailure(decide(c, shown.state))
                          \/ \E i \in (form.asOf + 1) .. Len(records) :
                                records[i].aggregateId = c.id
    BY DEF RefusalsHaveCause
  <2>1. excusedIn(records, sent[page[b].answers])
    BY DEF EInv, told
  <2> QED BY <2>1 DEF excusedIn, logAt
<1> QED BY <1>1, <1>2, <1>3, WebInvariance, PTL DEF SpecWeb

-----------------------------------------------------------------------------
(***************************************************************************)
(* The label of a bookmark button says what the page showed, which is what *)
(* the user's own aggregate held when the page was rendered.               *)
(***************************************************************************)
CatalogSeq == SetToSeq(Catalog)

LEMMA CatalogIsListed == \A i \in DOMAIN CatalogSeq : CatalogSeq[i] \in Catalog
<1>1. ExistsBijection(1 .. Cardinality(Catalog), Catalog)
  BY CatalogAssumption, FS_CardinalityType
<1>2. \E f \in [1 .. Cardinality(Catalog) -> Catalog] : IsInjective(f)
  BY <1>1 DEF ExistsBijection, Bijection, Injection
<1>3. CatalogSeq \in [1 .. Cardinality(Catalog) -> Catalog]
  BY <1>2 DEF CatalogSeq, SetToSeq
<1> QED BY <1>3

\* A form says what it would do to the bookmarks of the first n events.
labelled(form, rs) ==
    form.action = webActions.toggleBookmark =>
        /\ Head(form.body.articleId) \in Catalog
        /\ form.label = makeToggleButton(
                           ListArticles(rs, loggedInUserId)[Head(form.body.articleId)]).label

LEMMA HiddenField ==
    ASSUME NEW v, NEW control, NEW target,
           control.form = makePostFormModel(target, <<hiddenField("articleId", v)>>)
    PROVE  /\ posting(control).action = target
           /\ posting(control).label = control.button.label
           /\ posting(control).body.articleId = v
<1> DEFINE fields == control.form.hiddenFields
           body == [name \in {fields[i].name : i \in DOMAIN fields} |->
                      fields[CHOOSE i \in DOMAIN fields : fields[i].name = name].value]
<1>1. posting(control) = [action |-> control.form.action, label |-> control.button.label,
                          body |-> body]
  BY DEF posting
<1>2. control.form.action = target /\ fields = <<hiddenField("articleId", v)>>
  BY DEF makePostFormModel
<1>3. DOMAIN fields = {1} /\ fields[1].name = "articleId" /\ fields[1].value = v
  BY <1>2 DEF hiddenField
<1> HIDE DEF fields
<1>4. "articleId" \in {fields[i].name : i \in DOMAIN fields}
  BY <1>3
<1>5. (CHOOSE i \in DOMAIN fields : fields[i].name = "articleId") = 1
  BY <1>3
<1>6. body["articleId"] = v
  BY <1>3, <1>4, <1>5
<1> HIDE DEF body
<1> QED BY <1>1, <1>2, <1>6

LEMMA ArticleForms ==
    ASSUME NEW articles, NEW error,
           NEW form \in Range(articlesPageForms(makeArticlesPageModel(articles, error)))
    PROVE  \E i \in DOMAIN articles :
              /\ form.body.articleId = articles[i].articleId
              /\ form.label = makeToggleButton(articles[i].bookmarked).label
<1> DEFINE rows == rowsOf(makeArticlesPageModel(articles, error).list)
<1>1. PICK i \in DOMAIN rows : form = posting(rows[i])
  BY DEF articlesPageForms, Range
<1>2. rows = IF articles = <<>> THEN <<>>
             ELSE [n \in DOMAIN articles |-> makeArticleRow(articles[n], n)]
  BY DEF makeArticlesPageModel, makeArticleList, rowsOf
<1> HIDE DEF rows
<1>3. i \in DOMAIN articles /\ rows[i] = makeArticleRow(articles[i], i)
  BY <1>2
<1> DEFINE a == articles[i]
<1>4. /\ rows[i].button = makeToggleButton(a.bookmarked)
      /\ rows[i].form = makePostFormModel(webActions.toggleBookmark,
                           <<hiddenField("articleId", a.articleId)>>)
  BY <1>3 DEF makeArticleRow
<1> HIDE DEF a
<1>5. /\ form.body.articleId = a.articleId
      /\ form.label = makeToggleButton(a.bookmarked).label
  BY <1>1, <1>4, HiddenField
<1> QED BY <1>3, <1>5 DEF a

LEMMA CounterForms ==
    ASSUME NEW counters, NEW row \in Range(rowsOf(makeCounterList(counters))),
           NEW form \in Range(counterForms(row))
    PROVE  form.action = webActions.runCounterCommand
<1> DEFINE rows == rowsOf(makeCounterList(counters))
<1>1. rows = IF counters = <<>> THEN <<>>
             ELSE [n \in DOMAIN counters |-> makeCounterRow(counters[n])]
  BY DEF makeCounterList, rowsOf
<1>2. PICK i \in DOMAIN counters : row = makeCounterRow(counters[i])
  <2>1. PICK i \in DOMAIN rows : row = rows[i]
    BY DEF Range
  <2> HIDE DEF rows
  <2> QED BY <1>1, <2>1
<1>3. row.actions = [k \in DOMAIN counterActions |->
                        makeActionControl(counters[i].counterId, counterActions[k])]
  BY <1>2 DEF makeCounterRow
<1>4. PICK k \in DOMAIN row.actions : form = posting(row.actions[k])
  BY DEF counterForms, Range
<1>5. row.actions[k] = makeActionControl(counters[i].counterId, counterActions[k])
  BY <1>3, <1>4
<1>6. row.actions[k].form.action = webActions.runCounterCommand
  BY <1>5 DEF makeActionControl, makePostFormModel
<1> QED BY <1>4, <1>6 DEF posting

LEMMA FormsAreLabelled ==
    ASSUME NEW b \in Browsers, NEW form \in formsOn(page[b])
    PROVE  labelled(form, logAt(page[b].asOf))
<1> DEFINE p == page[b]
           n == page[b].asOf
<1>1. webActions.toggleBookmark \notin {webActions.createCounter, webActions.runCounterCommand}
  BY DEF webActions
<1>2. CASE p.href.route = webRoutes.home
  <2> DEFINE model == pageModel(p)
             counters == counterViews(n)
  <2>1. model = makeCounterPageModel(counters, asPageError(p.href.error), p.href.newCounterId)
    BY <1>2 DEF pageModel, getCounterPage
  <2> HIDE DEF counters
  <2>2. /\ model.list = makeCounterList(counters)
        /\ createForm(model).action = webActions.createCounter
    BY <2>1 DEF makeCounterPageModel, createForm, makePostFormModel
  <2>3. \/ \E typed \in Typed : form = [createForm(model) EXCEPT !.body.counterId = typed]
        \/ \E row \in Range(rowsOf(model.list)) : form \in Range(counterForms(row))
    BY <1>2 DEF formsOn
  <2> HIDE DEF model
  <2>4. CASE \E typed \in Typed : form = [createForm(model) EXCEPT !.body.counterId = typed]
    <3>1. form.action = webActions.createCounter
      BY <2>2, <2>4 DEF createForm
    <3> QED BY <1>1, <3>1 DEF labelled
  <2>5. CASE \E row \in Range(rowsOf(model.list)) : form \in Range(counterForms(row))
    BY <1>1, <2>2, <2>5, CounterForms DEF labelled
  <2> QED BY <2>3, <2>4, <2>5
<1>3. CASE p.href.route # webRoutes.home
  <2> DEFINE articles == articleViews(n)
             error == IF p.href.error = "command-failed" THEN "command-failed" ELSE "none"
             shown == ListArticles(logAt(n), loggedInUserId)
  <2>1. form \in Range(articlesPageForms(makeArticlesPageModel(articles, error)))
    BY <1>3 DEF formsOn, pageModel, getArticlesPage
  <2>2. PICK i \in DOMAIN articles :
           /\ form.body.articleId = articles[i].articleId
           /\ form.label = makeToggleButton(articles[i].bookmarked).label
    <3> HIDE DEF articles, error
    <3> QED BY <2>1, ArticleForms
  <2>3. articles = [k \in DOMAIN CatalogSeq |->
                       [articleId |-> <<CatalogSeq[k]>>, title |-> <<CatalogSeq[k]>>,
                        bookmarked |-> shown[CatalogSeq[k]]]]
    BY DEF articleViews, CatalogSeq
  <2> HIDE DEF articles, shown
  <2>4. /\ i \in DOMAIN CatalogSeq /\ articles[i].articleId = <<CatalogSeq[i]>>
        /\ articles[i].bookmarked = shown[CatalogSeq[i]]
    BY <2>3
  <2> DEFINE a == CatalogSeq[i]
  <2>5. a \in Catalog
    BY <2>4, CatalogIsListed
  <2> HIDE DEF a
  <2>6. Head(form.body.articleId) = a
    BY <2>2, <2>4 DEF a
  <2>7. form.label = makeToggleButton(shown[a]).label
    BY <2>2, <2>4 DEF a
  <2> QED BY <2>5, <2>6, <2>7 DEF labelled, shown
<1> QED BY <1>2, <1>3

\* A list of the first m events shows what the user's aggregate held then.
LEMMA ListShowsHistory ==
    ASSUME NEW rs \in Logs, numberedLog(rs), legalLog(rs), NEW m \in 0 .. Len(rs),
           NEW u \in UserIds, NEW a \in Catalog
    PROVE  ListArticles(SubSeq(rs, 1, m), u)[a]
              <=> a \in bookmarkedArticleIds(history("user", rs, u)[m].state)
<1> DEFINE ps == SubSeq(rs, 1, m)
<1>1. /\ ps \in Logs /\ Len(ps) = m /\ IsPrefix(ps, rs)
      /\ \A i \in 1 .. m : ps[i] = rs[i]
  BY Beginnings
<1>2. DOMAIN ps = 1 .. m /\ \A i \in 1 .. m : i \in DOMAIN rs
  BY <1>1, LenProperties DEF Logs
<1> HIDE DEF ps
<1>3. numberedLog(ps)
  BY <1>1, <1>2 DEF numberedLog
<1>4. usersAtHome(ps)
  BY <1>1, <1>2, UsersAtHome DEF usersAtHome
<1>5. ListArticles(ps, u)[a] = (a \in bookmarkedArticleIds(load("user", ps, u).state))
  BY <1>1, <1>3, <1>4, ListShowsBookmarks
<1>6. load("user", ps, u) = history("user", rs, u)[m]
  BY <1>1, LoadOfBeginning
<1> QED BY <1>5, <1>6 DEF ps

asLabelled(rs, i, entry) ==
    entry.form.action = webActions.toggleBookmark =>
        \/ rs[i].event.tag =
              IF entry.form.label = webI18n("articles.action.bookmark")
              THEN "ArticleBookmarked" ELSE "ArticleBookmarkRemoved"
        \/ \E j \in (entry.asOf + 1) .. (i - 1) :
              /\ rs[j].aggregateId = rs[i].aggregateId
              /\ rs[j].event.articleId = rs[i].event.articleId

LInv ==
    /\ \A n \in 1 .. issued : labelled(sent[n].form, logAt(sent[n].asOf))
    /\ \A i \in 1 .. Len(records) : asLabelled(records, i, sent[origin[i]])

(***************************************************************************)
(* A toggle is decided on the bookmarks as they are when it is stored.  If *)
(* they are not those of the page, another toggle of the article came      *)
(* between.                                                                *)
(***************************************************************************)
LEMMA NewToggle ==
    ASSUME WInv, NEW h \in Handlers, serving(h), Append_Stored(h),
           labelled(sent[posted[h].number].form, logAt(sent[posted[h].number].asOf))
    PROVE  asLabelled(records', Len(records) + 1, sent[posted[h].number])
<1> DEFINE entry == sent[posted[h].number]
           form == entry.form
           m == entry.asOf
           u == loggedInUserId
           a == Head(form.body.articleId)
           c == command[h]
           r == newRecord(h)
           N == Len(records)
<1> SUFFICES ASSUME form.action = webActions.toggleBookmark
             PROVE  \/ records'[N + 1].event.tag =
                          IF form.label = webI18n("articles.action.bookmark")
                          THEN "ArticleBookmarked" ELSE "ArticleBookmarkRemoved"
                    \/ \E j \in (m + 1) .. N :
                          /\ records'[j].aggregateId = records'[N + 1].aggregateId
                          /\ records'[j].event.articleId = records'[N + 1].event.articleId
  <2>1. N \in Nat /\ N = (N + 1) - 1
    BY WebLengths
  <2> QED BY <2>1 DEF asLabelled
<1>1. posted[h].number \in 1 .. issued /\ c = commandOf(form)
  BY DEF WInv, FibersOK, serving, ServingOK
<1>2. m \in 0 .. N /\ N \in Nat /\ records \in Logs
  BY <1>1, WebLengths DEF WInv, GhostsOK
<1>3. numberedLog(records) /\ legalLog(records) /\ usersAtHome(records)
  BY LogInvariants, UsersAtHome DEF WInv, AInv, IInv
<1>4. u \in UserIds
  BY LoggedInUserAssumption
<1>5. c = [tag |-> "ToggleArticleBookmark", id |-> u, articleId |-> a]
  BY <1>1 DEF commandOf, postToggleBookmark, webActions
<1>6. c.id = u /\ c.articleId = a /\ sliceOf(c) = "user"
  BY <1>5 DEF sliceOf, CounterCommandTags
<1>7. /\ a \in Catalog
      /\ form.label = makeToggleButton(ListArticles(SubSeq(records, 1, m), u)[a]).label
  BY DEF labelled, logAt
<1>8. /\ records' = Append(records, r) /\ r \in StoredEvent(Ids, DomainEvent)
      /\ decide(c, load("user", records, u).state) = accept(r.event)
  BY <1>6, SaveIsFresh DEF WInv, AInv, Append_Stored, slice, id
<1>9. r.aggregateId = u
  BY <1>6 DEF newRecord, id
<1> HIDE DEF r, c, a, u, entry
<1>10. /\ records'[N + 1] = r
       /\ \A j \in 1 .. N : records'[j] = records[j]
  BY <1>2, <1>8, AppendProperties DEF Logs
<1> DEFINE held == a \in bookmarkedArticleIds(load("user", records, u).state)
<1>11. /\ r.event.tag = IF held THEN "ArticleBookmarkRemoved" ELSE "ArticleBookmarked"
       /\ r.event.articleId = a
  BY <1>6, <1>8 DEF decide, toggleArticleBookmark, accept
<1>12. CASE \E j \in (m + 1) .. N : touches(records[j].event, u, a)
  <2>1. PICK j \in (m + 1) .. N : touches(records[j].event, u, a)
    BY <1>12
  <2>2. j \in 1 .. N /\ j \in DOMAIN records
    BY <1>2, <2>1, LenProperties DEF Logs
  <2>3. /\ records[j].event.tag \in UserEventTags /\ records[j].event.userId = u
        /\ records[j].event.articleId = a
    BY <2>1 DEF touches
  <2>4. records[j].aggregateId = u
    BY <1>3, <2>2, <2>3 DEF usersAtHome, belongsToSlice
  <2> QED BY <1>9, <1>10, <1>11, <2>1, <2>2, <2>3, <2>4
<1>13. CASE \A j \in (m + 1) .. N : ~ touches(records[j].event, u, a)
  <2>1. held <=> a \in bookmarkedArticleIds(history("user", records, u)[m].state)
    BY <1>2, <1>3, <1>13, UntouchedBookmark
  <2>2. ListArticles(SubSeq(records, 1, m), u)[a]
           <=> a \in bookmarkedArticleIds(history("user", records, u)[m].state)
    BY <1>2, <1>3, <1>4, <1>7, ListShowsHistory
  <2> DEFINE shown == ListArticles(SubSeq(records, 1, m), u)[a]
  <2> HIDE DEF held, shown
  <2>3. shown <=> held
    BY <2>1, <2>2 DEF shown
  <2>4. form.label = IF shown THEN webI18n("articles.action.remove")
                     ELSE webI18n("articles.action.bookmark")
    BY <1>7 DEF shown, makeToggleButton, makeSubmitButtonModel
  <2>5. webI18n("articles.action.remove") # webI18n("articles.action.bookmark")
    BY DEF webI18n
  <2> QED BY <1>10, <1>11, <2>3, <2>4, <2>5
<1> QED BY <1>12, <1>13

LEMMA LabelsStep ==
    ASSUME WInv, WInv', LInv, [NextWeb]_allVars
    PROVE  LInv'
<1>1. extended /\ \A number \in 1 .. issued : sent'[number] = sent[number]
  BY WebExtends
<1>2. records \in Logs /\ Len(records) \in Nat /\ issued \in Nat
  BY WebLengths
<1>3. /\ Len(records) <= Len(records')
      /\ \A i \in 1 .. Len(records) : records'[i] = records[i]
      /\ \A m \in 0 .. Len(records) : SubSeq(records', 1, m) = SubSeq(records, 1, m)
  <2>1. CASE records' = records
    BY <1>2, <2>1
  <2>2. CASE \E r \in StoredEvent(Ids, DomainEvent) : records' = Append(records, r)
    BY <1>2, <2>2, AppendProperties, Beginnings DEF Logs
  <2> QED BY <1>1, <2>1, <2>2 DEF extended
<1>4. ASSUME NEW n \in 1 .. issued'
      PROVE  labelled(sent'[n].form, SubSeq(records', 1, sent'[n].asOf))
  <2>1. CASE n \in 1 .. issued
    <3>1. labelled(sent[n].form, SubSeq(records, 1, sent[n].asOf))
      BY <2>1 DEF LInv, logAt
    <3>2. sent'[n] = sent[n] /\ sent[n].asOf \in 0 .. Len(records)
      BY <1>1, <2>1, WebLengths DEF WInv, GhostsOK
    <3>3. SubSeq(records', 1, sent[n].asOf) = SubSeq(records, 1, sent[n].asOf)
      BY <1>3, <3>2
    <3> QED BY <3>1, <3>2, <3>3
  <2>2. CASE n \notin 1 .. issued
    <3>1. PICK b \in Browsers, h \in Handlers : Post(b, h)
      <4>1. issued' # issued
        BY <2>2
      <4>2. ASSUME NEW h \in Handlers, Serve(h) PROVE issued' = issued
        BY <4>2, HandlerSteps DEF Serve, WInv
      <4> QED BY <4>1, <4>2 DEF NextWeb, allVars, vars, Wire, Open, Reload, PostBlank, PostUnread,
                             Follow, GiveUp, Redirect
    <3>2. PICK form \in formsOn(page[b]) :
             sent' = Append(sent, [form |-> form, asOf |-> page[b].asOf])
      BY <3>1 DEF Post
    <3>3. issued' = issued + 1 /\ records' = records
      BY <3>1 DEF Post, Request
    <3>4. n = issued + 1
      BY <1>2, <2>2, <3>3
    <3>5. labelled(form, logAt(page[b].asOf))
      BY FormsAreLabelled
    <3>6. sent'[n].form = form /\ sent'[n].asOf = page[b].asOf
      <4> DEFINE entry == [form |-> form, asOf |-> page[b].asOf]
      <4>1. entry.form = form /\ entry.asOf = page[b].asOf
        OBVIOUS
      <4> HIDE DEF entry
      <4>2. sent' = Append(sent, entry) /\ sent \in Seq(Range(sent)) /\ Len(sent) = issued
        BY <3>2, WebLengths DEF entry, WInv, GhostsOK
      <4>3. sent'[n] = entry
        BY <3>4, <4>2, OwnAppend
      <4> QED BY <4>1, <4>3
    <3> QED BY <3>3, <3>5, <3>6 DEF logAt
  <2> QED BY <2>1, <2>2
<1>5. ASSUME NEW i \in 1 .. Len(records'), UNCHANGED <<records, origin>>
      PROVE  asLabelled(records', i, sent'[origin'[i]])
  <2>1. asLabelled(records, i, sent[origin[i]])
    BY <1>5 DEF LInv
  <2>2. origin[i] \in 1 .. issued
    BY <1>5, WebLengths
  <2>3. sent'[origin'[i]] = sent[origin[i]] /\ records' = records
    BY <1>1, <1>5, <2>2
  <2> QED BY <2>1, <2>3
<1>6. ASSUME NEW i \in 1 .. Len(records'), NEW h \in Handlers, Serve(h), records' # records
      PROVE  asLabelled(records', i, sent'[origin'[i]])
  <2> DEFINE n == posted[h].number
  <2>1. serving(h) /\ Handle(h) /\ origin' = Append(origin, n) /\ sent' = sent
    BY <1>6 DEF Serve, serving
  <2>2. /\ Append_Stored(h)
        /\ Len(records') = Len(records) + 1
    BY <1>6, <2>1, HandlerSteps DEF WInv
  <2>3. n \in 1 .. issued
    BY <2>1 DEF WInv, FibersOK, serving
  <2>4. labelled(sent[n].form, logAt(sent[n].asOf))
    BY <2>3 DEF LInv
  <2>5. asLabelled(records', Len(records) + 1, sent[n])
    BY <2>1, <2>2, <2>4, NewToggle
  <2> HIDE DEF n
  <2>6. /\ \A k \in 1 .. Len(records) : origin'[k] = origin[k] /\ origin[k] \in 1 .. issued
        /\ origin'[Len(records) + 1] = n
    <3> DEFINE T == 1 .. issued
    <3>1. origin \in Seq(T) /\ Len(origin) = Len(records) /\ n \in T
      BY <2>3 DEF WInv, GhostsOK
    <3> HIDE DEF T
    <3>2. /\ \A k \in 1 .. Len(records) : origin'[k] = origin[k] /\ origin[k] \in T
          /\ origin'[Len(records) + 1] = n
      BY <1>2, <2>1, <3>1, AppendProperties
    <3> QED BY <3>2 DEF T
  <2>7. CASE i = Len(records) + 1
    BY <2>1, <2>5, <2>6, <2>7
  <2>8. CASE i \in 1 .. Len(records)
    <3> DEFINE entry == sent[origin[i]]
    <3>1. asLabelled(records, i, entry)
      BY <2>8 DEF LInv
    <3>2. sent'[origin'[i]] = entry /\ records'[i] = records[i]
      BY <1>3, <2>1, <2>6, <2>8
    <3>3. entry.asOf \in Nat
      BY <1>2, <2>6, <2>8, WebLengths DEF WInv, GhostsOK
    <3> HIDE DEF entry
    <3>4. \A j \in (entry.asOf + 1) .. (i - 1) : records'[j] = records[j]
      BY <1>2, <1>3, <2>8, <3>3
    <3>5. asLabelled(records', i, entry)
      BY <3>1, <3>2, <3>4 DEF asLabelled
    <3> QED BY <3>2, <3>5
  <2> QED BY <1>2, <2>2, <2>7, <2>8
<1>7. \/ UNCHANGED <<records, origin>>
      \/ \E h \in Handlers : Serve(h) /\ records' # records
  <2>1. ASSUME NEW b \in Browsers, NEW h \in Handlers, Post(b, h) PROVE UNCHANGED <<records, origin>>
    BY <2>1 DEF Post, Request
  <2>2. ASSUME NEW h \in Handlers, Serve(h), records' = records PROVE UNCHANGED <<records, origin>>
    BY <2>2 DEF Serve
  <2> QED BY <2>1, <2>2 DEF NextWeb, allVars, vars, webVars, Wire, Open, Reload, PostBlank,
                            PostUnread, Follow, GiveUp, Redirect
<1> QED BY <1>4, <1>5, <1>6, <1>7 DEF LInv, logAt

(***************************************************************************)
(* A bookmark button does what its label says, unless another toggle of    *)
(* the article was stored after the page was rendered.                     *)
(***************************************************************************)
THEOREM ButtonsDoAsLabelled == SpecWeb => []TogglesAsLabelled
<1>1. InitWeb => LInv
  BY DEF InitWeb, Init, LInv
<1>2. WInv /\ WInv' /\ LInv /\ [NextWeb]_allVars => LInv'
  BY LabelsStep
<1>3. WInv /\ LInv => TogglesAsLabelled
  <2> SUFFICES ASSUME WInv, LInv, NEW i \in DOMAIN origin PROVE asLabelled(records, i, sent[origin[i]])
    BY DEF TogglesAsLabelled, asLabelled, formOf
  <2> QED BY WebLengths DEF LInv
<1> QED BY <1>1, <1>2, <1>3, WebInvariance, PTL DEF SpecWeb

-----------------------------------------------------------------------------
(***************************************************************************)
(* Texts.  What the renderer and the redirects write is read back, for a   *)
(* text of any length over any symbols.  Each writer and each reader is a  *)
(* FlattenSeq of what becomes of the symbols, so the argument is always    *)
(* what one symbol more does to it.                                        *)
(***************************************************************************)
\* Under a name of its own, so that its CHOOSE is seen only where it is needed.
flat(ss) == FlattenSeq(ss)

\* What FlattenSeq chooses, as SequencesExt says it, and the same counted from zero.
isFlattening(f, ss) ==
    f = [i \in 1 .. Len(ss) |-> IF i = 1 THEN ss[i] ELSE f[i - 1] \o ss[i]]

isJoining(f, ss, X) ==
    /\ f \in [0 .. Len(ss) -> Seq(X)]
    /\ f[0] = <<>>
    /\ \A n \in 1 .. Len(ss) : f[n] = f[n - 1] \o ss[n]

\* The pieces can be joined one after the other.
LEMMA JoiningExists ==
    ASSUME NEW X, NEW ss \in Seq(Seq(X))
    PROVE  \E f : isJoining(f, ss, X)
<1> DEFINE step == [n \in 1 .. Len(ss) |-> [v \in Seq(X) |-> v \o ss[n]]]
<1>1. Len(ss) \in Nat /\ <<>> \in Seq(X) /\ \A n \in 1 .. Len(ss) : ss[n] \in Seq(X)
  OBVIOUS
<1>2. step \in [1 .. Len(ss) -> [Seq(X) -> Seq(X)]]
  <2>1. ASSUME NEW n \in 1 .. Len(ss), NEW v \in Seq(X) PROVE v \o ss[n] \in Seq(X)
    BY <1>1
  <2> QED BY <2>1
<1>3. \A n \in 1 .. Len(ss), v \in Seq(X) : step[n][v] = v \o ss[n]
  OBVIOUS
<1> HIDE DEF step
<1>4. PICK f : isFold(f, Len(ss), Seq(X), <<>>, step)
  BY <1>1, <1>2, FoldExists
<1>5. /\ f \in [0 .. Len(ss) -> Seq(X)] /\ f[0] = <<>>
      /\ \A n \in 1 .. Len(ss) : f[n] = step[n][f[n - 1]]
  BY <1>4 DEF isFold
<1>6. ASSUME NEW n \in 1 .. Len(ss) PROVE f[n] = f[n - 1] \o ss[n]
  <2>1. n - 1 \in 0 .. Len(ss)
    BY <1>1
  <2>2. f[n - 1] \in Seq(X)
    BY <1>5, <2>1
  <2> QED BY <1>3, <1>5, <2>2
<1> QED BY <1>5, <1>6 DEF isJoining

\* What FlattenSeq makes of the pieces is what joining them one after the other makes.
LEMMA FlatIsJoining ==
    ASSUME NEW X, NEW ss \in Seq(Seq(X)), NEW f, isJoining(f, ss, X)
    PROVE  flat(ss) = f[Len(ss)]
<1>1. /\ Len(ss) \in Nat /\ f \in [0 .. Len(ss) -> Seq(X)] /\ f[0] = <<>>
      /\ \A n \in 1 .. Len(ss) : ss[n] \in Seq(X) /\ f[n] = f[n - 1] \o ss[n]
  <2>1. Len(ss) \in Nat /\ \A n \in 1 .. Len(ss) : ss[n] \in Seq(X)
    OBVIOUS
  <2>2. f \in [0 .. Len(ss) -> Seq(X)] /\ f[0] = <<>>
    BY DEF isJoining
  <2>3. \A n \in 1 .. Len(ss) : f[n] = f[n - 1] \o ss[n]
    BY DEF isJoining
  <2> QED BY <2>1, <2>2, <2>3
<1>2. CASE Len(ss) = 0
  <2>1. ss = <<>>
    BY <1>2
  <2>2. flat(ss) = ss
    BY <1>2 DEF flat, FlattenSeq
  <2> QED BY <1>1, <1>2, <2>1, <2>2
<1>3. CASE Len(ss) # 0
  <2> DEFINE g == CHOOSE h : isFlattening(h, ss)
             k == [i \in 1 .. Len(ss) |-> f[i]]
  <2>1. isFlattening(k, ss)
    <3>1. ASSUME NEW i \in 1 .. Len(ss)
          PROVE  k[i] = IF i = 1 THEN ss[i] ELSE k[i - 1] \o ss[i]
      <4>1. k[i] = f[i - 1] \o ss[i]
        BY <1>1
      <4>2. i # 1 => k[i - 1] = f[i - 1]
        BY <1>1
      <4>3. i = 1 => f[i - 1] \o ss[i] = ss[i]
        BY <1>1
      <4> HIDE DEF k
      <4> QED BY <4>1, <4>2, <4>3
    <3>2. k = [i \in 1 .. Len(ss) |-> IF i = 1 THEN ss[i] ELSE k[i - 1] \o ss[i]]
      BY <3>1
    <3> HIDE DEF k
    <3> QED BY <3>2 DEF isFlattening
  <2>2. isFlattening(g, ss)
    BY <2>1
  <2>3. flat(ss) = g[Len(ss)]
    BY <1>3 DEF flat, FlattenSeq, isFlattening
  <2> HIDE DEF g, k
  <2> DEFINE Same == {n \in 0 .. Len(ss) : n # 0 => g[n] = f[n]}
  <2>4. ASSUME NEW n \in 1 .. Len(ss), n - 1 \in Same PROVE n \in Same
    <3>1. g[n] = IF n = 1 THEN ss[n] ELSE g[n - 1] \o ss[n]
      BY <2>2 DEF isFlattening
    <3>2. n # 1 => g[n - 1] = f[n - 1]
      BY <1>1, <2>4
    <3>3. n = 1 => f[n - 1] \o ss[n] = ss[n]
      BY <1>1
    <3>4. g[n] = f[n]
      BY <1>1, <3>1, <3>2, <3>3
    <3> QED BY <3>4, <1>1
  <2>5. 0 \in Same
    BY <1>1
  <2> HIDE DEF Same
  <2>6. \A n \in 0 .. Len(ss) : n \in Same
    BY <1>1, <2>4, <2>5, UpTo, Zenon
  <2>7. Len(ss) \in Same
    BY <1>1, <2>6
  <2> QED BY <1>3, <2>3, <2>7 DEF Same
<1> QED BY <1>2, <1>3

\* One piece more is flattened to what it adds.
LEMMA FlatAppend ==
    ASSUME NEW X, NEW ss \in Seq(Seq(X)), NEW s \in Seq(X)
    PROVE  /\ flat(Append(ss, s)) = flat(ss) \o s
           /\ flat(ss) \in Seq(X)
<1> DEFINE rr == Append(ss, s)
<1>1. /\ rr \in Seq(Seq(X)) /\ Len(ss) \in Nat /\ Len(rr) = Len(ss) + 1 /\ rr[Len(ss) + 1] = s
      /\ \A i \in 1 .. Len(ss) : rr[i] = ss[i]
  OBVIOUS
<1> HIDE DEF rr
<1>2. PICK f : isJoining(f, rr, X)
  BY <1>1, JoiningExists
<1>3. /\ f \in [0 .. (Len(ss) + 1) -> Seq(X)] /\ f[0] = <<>>
      /\ \A n \in 1 .. (Len(ss) + 1) : f[n] = f[n - 1] \o rr[n]
  BY <1>1, <1>2 DEF isJoining
<1> DEFINE g == [n \in 0 .. Len(ss) |-> f[n]]
<1>4. isJoining(g, ss, X)
  <2>1. g \in [0 .. Len(ss) -> Seq(X)] /\ g[0] = <<>>
    BY <1>1, <1>3
  <2>2. ASSUME NEW n \in 1 .. Len(ss) PROVE g[n] = g[n - 1] \o ss[n]
    <3>1. g[n] = f[n] /\ g[n - 1] = f[n - 1]
      BY <1>1
    <3>2. f[n] = f[n - 1] \o ss[n]
      <4>1. n \in 1 .. (Len(ss) + 1) /\ rr[n] = ss[n]
        BY <1>1
      <4>2. f[n] = f[n - 1] \o rr[n]
        BY <1>3, <4>1, Zenon
      <4> QED BY <4>1, <4>2, Zenon
    <3> HIDE DEF g
    <3> QED BY <3>1, <3>2, Zenon
  <2> HIDE DEF g
  <2> QED BY <2>1, <2>2 DEF isJoining
<1>5. g[Len(ss)] = f[Len(ss)] /\ f[Len(ss)] \in Seq(X)
  BY <1>1, <1>3
<1> HIDE DEF g
<1>6. flat(ss) = f[Len(ss)]
  BY <1>4, <1>5, FlatIsJoining
<1>7. flat(rr) = f[Len(ss) + 1]
  BY <1>1, <1>2, FlatIsJoining
<1>8. f[Len(ss) + 1] = f[Len(ss)] \o s
  <2>1. Len(ss) + 1 \in 1 .. (Len(ss) + 1) /\ (Len(ss) + 1) - 1 = Len(ss)
    BY <1>1
  <2>2. f[Len(ss) + 1] = f[(Len(ss) + 1) - 1] \o rr[Len(ss) + 1]
    BY <1>3, <2>1, Zenon
  <2> QED BY <1>1, <2>1, <2>2, Zenon
<1> QED BY <1>5, <1>6, <1>7, <1>8 DEF rr

\* The same for pieces that are given by their positions.
LEMMA FlatGrows ==
    ASSUME NEW X, NEW n \in Nat, NEW g \in [1 .. n -> Seq(X)], NEW h \in [1 .. (n + 1) -> Seq(X)],
           \A i \in 1 .. n : h[i] = g[i]
    PROVE  flat(h) = flat(g) \o h[n + 1] /\ flat(g) \in Seq(X)
<1>1. g \in Seq(Seq(X)) /\ h \in Seq(Seq(X)) /\ Len(g) = n /\ Len(h) = n + 1
  OBVIOUS
<1>2. h[n + 1] \in Seq(X)
  OBVIOUS
<1>3. h = Append(g, h[n + 1])
  <2> DEFINE k == Append(g, h[n + 1])
  <2>1. k \in Seq(Seq(X)) /\ Len(k) = n + 1 /\ k[n + 1] = h[n + 1] /\ \A i \in 1 .. n : k[i] = g[i]
    BY <1>1, <1>2, AppendProperties
  <2> HIDE DEF k
  <2>2. ASSUME NEW i \in 1 .. Len(h) PROVE h[i] = k[i]
    <3>1. i \in 1 .. n \/ i = n + 1
      BY <1>1
    <3> QED BY <2>1, <3>1
  <2>3. h = k
    BY <1>1, <2>1, <2>2, SeqEqual
  <2> QED BY <2>3 DEF k
<1> QED BY <1>1, <1>2, <1>3, FlatAppend

\* Under a name of its own, for steps that need no more than the name.
textsOver(X) == Seq(X)

\* What a text is made of when one symbol is appended.
LEMMA SymbolsGrow ==
    ASSUME NEW X, NEW t \in textsOver(X), NEW c \in X
    PROVE  /\ Append(t, c) \in textsOver(X) /\ Len(t) \in Nat /\ DOMAIN t = 1 .. Len(t)
           /\ Len(Append(t, c)) = Len(t) + 1 /\ DOMAIN Append(t, c) = 1 .. (Len(t) + 1)
           /\ Append(t, c)[Len(t) + 1] = c
           /\ \A i \in 1 .. Len(t) : Append(t, c)[i] = t[i] /\ t[i] \in X
           /\ Append(t, c) = t \o <<c>>
BY DEF textsOver

\* What becomes of a symbol.
replaced(c, char, by) == IF c = char THEN by ELSE <<c>>

\* One symbol more in the text is what becomes of it more in the result.
LEMMA ReplaceGrows ==
    ASSUME NEW X, NEW t \in textsOver(X), NEW c \in X, NEW char, NEW by \in textsOver(X)
    PROVE  /\ replaceAll(t, char, by) \in textsOver(X)
           /\ replaceAll(Append(t, c), char, by) = replaceAll(t, char, by) \o replaced(c, char, by)
<1> DEFINE u == Append(t, c)
           g == [i \in 1 .. Len(t) |-> IF t[i] = char THEN by ELSE <<t[i]>>]
           h == [i \in 1 .. (Len(t) + 1) |-> IF u[i] = char THEN by ELSE <<u[i]>>]
<1>1. /\ Len(t) \in Nat /\ DOMAIN t = 1 .. Len(t) /\ DOMAIN u = 1 .. (Len(t) + 1)
      /\ u[Len(t) + 1] = c
      /\ \A i \in 1 .. Len(t) : u[i] = t[i] /\ t[i] \in X
  BY SymbolsGrow DEF textsOver
<1> HIDE DEF u
<1>2. replaceAll(t, char, by) = flat(g) /\ replaceAll(u, char, by) = flat(h)
  BY <1>1 DEF replaceAll, flat
<1>3. g \in [1 .. Len(t) -> textsOver(X)]
  BY <1>1 DEF textsOver
<1>4. h \in [1 .. (Len(t) + 1) -> textsOver(X)]
  <2>1. ASSUME NEW i \in 1 .. (Len(t) + 1) PROVE u[i] \in X
    BY <1>1
  <2> QED BY <2>1 DEF textsOver
<1>5. \A i \in 1 .. Len(t) : h[i] = g[i]
  BY <1>1
<1>6. h[Len(t) + 1] = replaced(c, char, by)
  BY <1>1 DEF replaced
<1> HIDE DEF g, h
<1>7. flat(h) = flat(g) \o h[Len(t) + 1] /\ flat(g) \in textsOver(X)
  BY <1>1, <1>3, <1>4, <1>5, FlatGrows DEF textsOver
<1>8. replaceAll(t, char, by) \in textsOver(X)
  BY <1>2, <1>7
<1>9. replaceAll(u, char, by) = replaceAll(t, char, by) \o h[Len(t) + 1]
  BY <1>2, <1>7
<1> QED BY <1>6, <1>8, <1>9 DEF u

\* No two characters are escaped alike, and no escape holds a character that is escaped.
LEMMA ReferencesApart ==
    /\ \A c \in Escaped : referenceOf(c) \notin Escaped
    /\ \A c, d \in Escaped : referenceOf(c) = referenceOf(d) => c = d
<1>1. /\ referenceOf("&") = "amp;" /\ referenceOf("<") = "lt;" /\ referenceOf(">") = "gt;"
      /\ referenceOf("\"") = "quot;" /\ referenceOf("'") = "#39;"
  BY DEF referenceOf
<1>2. \A c \in Escaped : c = "&" \/ c = "<" \/ c = ">" \/ c = "\"" \/ c = "'"
  BY DEF Escaped
<1>3. \A c \in Escaped : referenceOf(c) \notin Escaped
  BY <1>1, <1>2 DEF Escaped
<1>4. \A c, d \in Escaped : referenceOf(c) = referenceOf(d) => c = d
  BY <1>1, <1>2
<1> QED BY <1>3, <1>4

\* Symbols that texts can be escaped in.
holdsEscapes(X) == \A c \in Escaped : c \in X /\ referenceOf(c) \in X

\* What stands for a symbol once the characters in D are escaped.
spelled(c, D) == IF c \in D THEN <<"&", referenceOf(c)>> ELSE <<c>>

\* The characters in D are escaped, d comes next, and then all in E are.
escapesNext(D, d, E) ==
    D \subseteq Escaped /\ d \in Escaped /\ d \notin D /\ (d = "&" => D = {}) /\ E = D \cup {d}

(***************************************************************************)
(* One replacement more, over a text in which those before it are done: a  *)
(* symbol stands for itself, or for its reference, and no reference is     *)
(* escaped a second time because the ampersand comes first.                *)
(***************************************************************************)
LEMMA EscapeGrows ==
    ASSUME NEW X, NEW t \in textsOver(X), NEW c \in X, holdsEscapes(X),
           NEW D, NEW d, NEW E, escapesNext(D, d, E)
    PROVE  /\ escape(t, d) \in textsOver(X)
           /\ escape(t \o spelled(c, D), d) = escape(t, d) \o spelled(c, E)
<1> DEFINE by == <<"&", referenceOf(d)>>
<1>1. D \subseteq Escaped /\ d \in Escaped /\ d \notin D /\ (d = "&" => D = {}) /\ E = D \cup {d}
  BY DEF escapesNext
<1>2. by \in textsOver(X) /\ "&" \in X /\ "&" \in Escaped
  <2>1. "&" \in Escaped
    BY DEF Escaped
  <2>2. "&" \in X /\ referenceOf(d) \in X
    BY <1>1, <2>1 DEF holdsEscapes
  <2> QED BY <2>1, <2>2 DEF textsOver
<1>3. \A s : escape(s, d) = replaceAll(s, d, by)
  BY DEF escape
<1> HIDE DEF by
<1>4. ASSUME NEW s \in textsOver(X), NEW x \in X
      PROVE  replaceAll(Append(s, x), d, by) = replaceAll(s, d, by) \o replaced(x, d, by)
  <2>1. by \in textsOver(X)
    BY <1>2
  <2> QED BY <2>1, ReplaceGrows
<1>5. escape(t, d) \in textsOver(X)
  <2>1. replaceAll(t, d, by) \in textsOver(X)
    BY <1>2, ReplaceGrows
  <2> QED BY <1>3, <2>1
<1>6. CASE c \in D
  <2> DEFINE ref == referenceOf(c)
  <2>1. d # "&" /\ d # ref /\ ref \in X
    BY <1>1, <1>6, ReferencesApart DEF holdsEscapes
  <2>2. spelled(c, D) = <<"&", ref>> /\ spelled(c, E) = <<"&", ref>>
    BY <1>1, <1>6 DEF spelled
  <2> HIDE DEF ref
  <2> DEFINE u == Append(t, "&")
  <2>3. u \in textsOver(X) /\ "&" # d /\ ref # d
    BY <1>2, <2>1 DEF textsOver
  <2>4. replaceAll(u, d, by) = replaceAll(t, d, by) \o replaced("&", d, by)
    BY <1>2, ReplaceGrows
  <2> HIDE DEF u
  <2>5. replaceAll(Append(u, ref), d, by) = replaceAll(u, d, by) \o replaced(ref, d, by)
    <3>1. u \in textsOver(X) /\ ref \in X
      BY <2>1, <2>3
    <3> QED BY <1>4, <3>1
  <2>6. replaced("&", d, by) = <<"&">> /\ replaced(ref, d, by) = <<ref>>
    BY <2>3 DEF replaced
  <2>7. Append(u, ref) = t \o <<"&", ref>>
    BY <1>2, <2>1 DEF u
  <2>8. (escape(t, d) \o <<"&">>) \o <<ref>> = escape(t, d) \o <<"&", ref>>
    BY <1>2, <1>5, <2>1
  <2>9. escape(t \o <<"&", ref>>, d) = escape(t, d) \o <<"&", ref>>
    BY <1>3, <2>4, <2>5, <2>7, <2>8, <2>6, Zenon
  <2> QED BY <1>5, <2>2, <2>9, Zenon
<1>7. CASE c \notin D
  <2>1. t \o spelled(c, D) = Append(t, c)
    BY <1>7, SymbolsGrow DEF spelled
  <2>2. CASE c = d
    <3>1. spelled(c, E) = by
      BY <1>1, <2>2 DEF spelled, by
    <3>2. by \in textsOver(X)
      BY <1>2
    <3>3. replaceAll(Append(t, c), d, by) = replaceAll(t, d, by) \o replaced(c, d, by)
      BY <3>2, ReplaceGrows
    <3>4. replaced(c, d, by) = by
      BY <2>2 DEF replaced
    <3> QED BY <1>3, <1>5, <2>1, <3>1, <3>3, <3>4, Zenon
  <2>3. CASE c # d
    <3>1. spelled(c, E) = <<c>>
      BY <1>1, <1>7, <2>3 DEF spelled
    <3>2. by \in textsOver(X)
      BY <1>2
    <3>3. replaceAll(Append(t, c), d, by) = replaceAll(t, d, by) \o replaced(c, d, by)
      BY <3>2, ReplaceGrows
    <3>4. replaced(c, d, by) = <<c>>
      BY <2>3 DEF replaced
    <3> QED BY <1>3, <1>5, <2>1, <3>1, <3>3, <3>4, Zenon
  <2> QED BY <2>2, <2>3
<1> QED BY <1>6, <1>7

\* All five, in the order in which html.ts does them.
LEMMA EscapeHtmlGrows ==
    ASSUME NEW X, NEW t \in textsOver(X), NEW c \in X, holdsEscapes(X)
    PROVE  /\ escapeHtml(t) \in textsOver(X)
           /\ escapeHtml(Append(t, c)) = escapeHtml(t) \o spelled(c, Escaped)
<1> DEFINE D1 == {"&"}
           D2 == {"&", "<"}
           D3 == {"&", "<", ">"}
           D4 == {"&", "<", ">", "\""}
<1>1. /\ escapesNext({}, "&", D1) /\ escapesNext(D1, "<", D2) /\ escapesNext(D2, ">", D3)
      /\ escapesNext(D3, "\"", D4) /\ escapesNext(D4, "'", Escaped)
  BY DEF escapesNext, Escaped
<1>2. Append(t, c) = t \o spelled(c, {})
  BY SymbolsGrow DEF spelled
<1>3. ASSUME NEW s \in textsOver(X), NEW d, NEW D, NEW E, escapesNext(D, d, E)
      PROVE  /\ escape(s, d) \in textsOver(X)
             /\ escape(s \o spelled(c, D), d) = escape(s, d) \o spelled(c, E)
  BY <1>3, EscapeGrows
<1> HIDE DEF D1, D2, D3, D4
<1> DEFINE t1 == escape(t, "&")
<1>4. t1 \in textsOver(X) /\ escape(t \o spelled(c, {}), "&") = t1 \o spelled(c, D1)
  <2>1. escapesNext({}, "&", D1)
    BY <1>1
  <2>2. t \in textsOver(X)
    OBVIOUS
  <2> QED BY <1>3, <2>1, <2>2
<1> HIDE DEF t1
<1> DEFINE t2 == escape(t1, "<")
<1>5. t2 \in textsOver(X) /\ escape(t1 \o spelled(c, D1), "<") = t2 \o spelled(c, D2)
  <2>1. escapesNext(D1, "<", D2)
    BY <1>1
  <2>2. t1 \in textsOver(X)
    BY <1>4
  <2> QED BY <1>3, <2>1, <2>2
<1> HIDE DEF t2
<1> DEFINE t3 == escape(t2, ">")
<1>6. t3 \in textsOver(X) /\ escape(t2 \o spelled(c, D2), ">") = t3 \o spelled(c, D3)
  <2>1. escapesNext(D2, ">", D3)
    BY <1>1
  <2>2. t2 \in textsOver(X)
    BY <1>5
  <2> QED BY <1>3, <2>1, <2>2
<1> HIDE DEF t3
<1> DEFINE t4 == escape(t3, "\"")
<1>7. t4 \in textsOver(X) /\ escape(t3 \o spelled(c, D3), "\"") = t4 \o spelled(c, D4)
  <2>1. PICK q : q = "\""
    BY Zenon
  <2>2. escapesNext(D3, q, D4)
    BY <1>1, <2>1, Zenon
  <2>3. t3 \in textsOver(X)
    BY <1>6
  <2>4. escape(t3, q) \in textsOver(X) /\ escape(t3 \o spelled(c, D3), q) = escape(t3, q) \o spelled(c, D4)
    BY <1>3, <2>2, <2>3
  <2> QED BY <2>1, <2>4, Zenon
<1> HIDE DEF t4
<1> DEFINE t5 == escape(t4, "'")
<1>8. t5 \in textsOver(X) /\ escape(t4 \o spelled(c, D4), "'") = t5 \o spelled(c, Escaped)
  <2>1. escapesNext(D4, "'", Escaped)
    BY <1>1
  <2>2. t4 \in textsOver(X)
    BY <1>7
  <2> QED BY <1>3, <2>1, <2>2
<1> HIDE DEF t5
<1>9. escapeHtml(t \o spelled(c, {})) = t5 \o spelled(c, Escaped)
  BY <1>4, <1>5, <1>6, <1>7, <1>8, Zenon DEF escapeHtml
<1>10. escapeHtml(t) = t5
  BY DEF escapeHtml, t1, t2, t3, t4, t5
<1> QED BY <1>2, <1>8, <1>9, <1>10, Zenon

\* What decode makes of position i.
decoded(w, i) ==
    IF refersAt(w, i) THEN <<charOf(w[i + 1])>>
    ELSE IF i > 1 /\ refersAt(w, i - 1) THEN <<>> ELSE <<w[i]>>

decodedUpTo(w, n) == [i \in 1 .. n |-> decoded(w, i)]

\* A reference has begun and not ended.
unfinished(w) == Len(w) > 0 /\ w[Len(w)] = "&"

\* decode joins what it makes of the positions.
LEMMA DecodedType ==
    ASSUME NEW X, holdsEscapes(X), NEW w \in textsOver(X), NEW n \in 0 .. Len(w)
    PROVE  /\ Len(w) \in Nat /\ n \in Nat
           /\ decode(w) = flat(decodedUpTo(w, Len(w)))
           /\ decodedUpTo(w, n) \in [1 .. n -> Seq(X)]
           /\ \A i \in 1 .. n : decodedUpTo(w, n)[i] = decoded(w, i)
<1>1. Len(w) \in Nat /\ DOMAIN w = 1 .. Len(w) /\ \A i \in 1 .. Len(w) : w[i] \in X
  BY DEF textsOver
<1>2. decode(w) = flat(decodedUpTo(w, Len(w)))
  BY <1>1 DEF decode, decodedUpTo, decoded, flat
<1>3. ASSUME NEW i \in 1 .. n PROVE decoded(w, i) \in Seq(X)
  <2>1. CASE refersAt(w, i)
    <3>1. w[i + 1] \in References
      BY <2>1 DEF refersAt
    <3>2. charOf(w[i + 1]) \in Escaped
      BY <3>1 DEF charOf, References
    <3>3. charOf(w[i + 1]) \in X
      BY <3>2 DEF holdsEscapes
    <3> QED BY <2>1, <3>3 DEF decoded
  <2>2. CASE ~ refersAt(w, i)
    <3>1. w[i] \in X
      BY <1>1
    <3> QED BY <2>2, <3>1 DEF decoded
  <2> QED BY <2>1, <2>2
<1> QED BY <1>1, <1>2, <1>3 DEF decodedUpTo

\* A reference stands for the character that was escaped.
LEMMA ReferenceIsCharacter ==
    ASSUME NEW d \in Escaped
    PROVE  referenceOf(d) \in References /\ charOf(referenceOf(d)) = d
BY ReferencesApart DEF References, charOf

\* Whatever has no reference begun in it can be followed by any symbol ...
LEMMA DecodeGrows ==
    ASSUME NEW X, holdsEscapes(X), NEW w \in textsOver(X), NEW c \in X, ~ unfinished(w)
    PROVE  decode(Append(w, c)) = decode(w) \o <<c>>
<1> DEFINE n == Len(w)
           v == Append(w, c)
<1>1. /\ n \in Nat /\ v \in textsOver(X) /\ Len(v) = n + 1 /\ v[n + 1] = c
      /\ \A i \in 1 .. n : v[i] = w[i]
  BY SymbolsGrow DEF textsOver
<1>2. n > 0 => w[n] # "&"
  BY DEF unfinished
<1> HIDE DEF n, v
<1>3. ASSUME NEW i \in 1 .. n PROVE refersAt(v, i) <=> refersAt(w, i)
  BY <1>1, <1>2 DEF refersAt, n
<1>4. ~ refersAt(v, n + 1) /\ (n > 0 => ~ refersAt(v, n))
  BY <1>1, <1>2 DEF refersAt, n
<1>5. ASSUME NEW i \in 1 .. n PROVE decoded(v, i) = decoded(w, i)
  <2>1. refersAt(w, i) => v[i + 1] = w[i + 1]
    BY <1>1 DEF refersAt, n
  <2>2. i > 1 => (refersAt(v, i - 1) <=> refersAt(w, i - 1))
    BY <1>1, <1>3
  <2> QED BY <1>1, <1>3, <2>1, <2>2 DEF decoded
<1>6. decoded(v, n + 1) = <<c>>
  BY <1>1, <1>4 DEF decoded
<1> DEFINE g == decodedUpTo(w, n)
           h == decodedUpTo(v, n + 1)
<1>7. /\ decode(w) = flat(g) /\ decode(v) = flat(h)
      /\ g \in [1 .. n -> Seq(X)] /\ h \in [1 .. (n + 1) -> Seq(X)]
      /\ \A i \in 1 .. n : g[i] = decoded(w, i)
      /\ \A i \in 1 .. (n + 1) : h[i] = decoded(v, i)
  <2>1. n \in 0 .. Len(w) /\ n + 1 \in 0 .. Len(v) /\ n = Len(w) /\ n + 1 = Len(v)
    BY <1>1 DEF n
  <2> QED BY <1>1, <2>1, DecodedType
<1>8. \A i \in 1 .. n : h[i] = g[i]
  BY <1>1, <1>5, <1>7
<1>9. h[n + 1] = <<c>>
  BY <1>1, <1>6, <1>7
<1> HIDE DEF g, h
<1>10. flat(h) = flat(g) \o h[n + 1]
  <2>1. n \in Nat
    BY <1>1
  <2> QED BY <2>1, <1>7, <1>8, FlatGrows
<1> QED BY <1>7, <1>9, <1>10 DEF v

\* ... and by any reference, which is read as its character.
LEMMA DecodeReference ==
    ASSUME NEW X, holdsEscapes(X), NEW w \in textsOver(X), NEW d \in Escaped, ~ unfinished(w)
    PROVE  decode(w \o <<"&", referenceOf(d)>>) = decode(w) \o <<d>>
<1> DEFINE n == Len(w)
           r == referenceOf(d)
           v == w \o <<"&", r>>
<1>1. "&" \in Escaped
  BY DEF Escaped
<1>2. /\ n \in Nat /\ v \in textsOver(X) /\ Len(v) = n + 2 /\ v[n + 1] = "&" /\ v[n + 2] = r
      /\ \A i \in 1 .. n : v[i] = w[i]
  <2>1. "&" \in X /\ r \in X
    BY <1>1 DEF holdsEscapes
  <2> HIDE DEF r
  <2> QED BY <2>1 DEF textsOver
<1>3. n > 0 => w[n] # "&"
  BY DEF unfinished
<1>4. r \in References /\ charOf(r) = d
  BY ReferenceIsCharacter
<1> HIDE DEF n, v, r
<1>5. ASSUME NEW i \in 1 .. n PROVE refersAt(v, i) <=> refersAt(w, i)
  BY <1>2, <1>3 DEF refersAt, n
<1>6. refersAt(v, n + 1) /\ ~ refersAt(v, n + 2) /\ (n > 0 => ~ refersAt(v, n))
  BY <1>2, <1>3, <1>4 DEF refersAt, n
<1>7. ASSUME NEW i \in 1 .. n PROVE decoded(v, i) = decoded(w, i)
  <2>1. refersAt(w, i) => v[i + 1] = w[i + 1]
    BY <1>2 DEF refersAt, n
  <2>2. i > 1 => (refersAt(v, i - 1) <=> refersAt(w, i - 1))
    BY <1>2, <1>5
  <2> QED BY <1>2, <1>5, <2>1, <2>2 DEF decoded
<1>8. decoded(v, n + 1) = <<d>> /\ decoded(v, n + 2) = <<>>
  BY <1>2, <1>4, <1>6 DEF decoded
<1> DEFINE g == decodedUpTo(w, n)
           k == decodedUpTo(v, n + 1)
           h == decodedUpTo(v, n + 2)
<1>9. /\ decode(w) = flat(g) /\ decode(v) = flat(h)
      /\ g \in [1 .. n -> Seq(X)] /\ \A i \in 1 .. n : g[i] = decoded(w, i)
      /\ k \in [1 .. (n + 1) -> Seq(X)] /\ \A i \in 1 .. (n + 1) : k[i] = decoded(v, i)
      /\ h \in [1 .. (n + 2) -> Seq(X)] /\ \A i \in 1 .. (n + 2) : h[i] = decoded(v, i)
  <2>1. /\ n \in 0 .. Len(w) /\ n + 1 \in 0 .. Len(v) /\ n + 2 \in 0 .. Len(v)
        /\ n = Len(w) /\ n + 2 = Len(v)
    BY <1>2 DEF n
  <2> QED BY <1>2, <2>1, DecodedType
<1>10. (\A i \in 1 .. n : k[i] = g[i]) /\ (\A i \in 1 .. (n + 1) : h[i] = k[i])
  BY <1>2, <1>7, <1>9
<1>11. k[n + 1] = <<d>> /\ h[n + 2] = <<>>
  BY <1>2, <1>8, <1>9
<1> HIDE DEF g, h, k
<1>12. flat(k) = flat(g) \o k[n + 1]
  <2>1. /\ n \in Nat /\ g \in [1 .. n -> Seq(X)] /\ k \in [1 .. (n + 1) -> Seq(X)]
        /\ \A i \in 1 .. n : k[i] = g[i]
    BY <1>2, <1>9, <1>10
  <2> QED BY <2>1, FlatGrows
<1>13. flat(h) = flat(k) \o h[n + 2] /\ flat(k) \in Seq(X)
  <2>1. n + 1 \in Nat /\ (n + 1) + 1 = n + 2
    BY <1>2
  <2>2. h \in [1 .. ((n + 1) + 1) -> Seq(X)]
    BY <1>9, <2>1, Zenon
  <2> HIDE DEF n
  <2> DEFINE m == n + 1
  <2>3. m \in Nat /\ k \in [1 .. m -> Seq(X)] /\ h \in [1 .. (m + 1) -> Seq(X)]
        /\ \A i \in 1 .. m : h[i] = k[i]
    BY <2>1, <2>2, <1>9, <1>10
  <2> HIDE DEF m
  <2>4. flat(h) = flat(k) \o h[m + 1] /\ flat(k) \in Seq(X)
    BY <2>3, FlatGrows
  <2> QED BY <2>1, <2>4 DEF m
<1>14. flat(k) \o <<>> = flat(k)
  BY <1>13
<1> QED BY <1>9, <1>11, <1>12, <1>13, <1>14 DEF v, r

\* Nothing in a text that could begin or end a tag or an attribute's value.
plain(w) == \A i \in 1 .. Len(w) : w[i] \in Escaped => w[i] = "&"

\* What is meant of a text, with what the next symbol needs.
readsBack(t) ==
    /\ decode(escapeHtml(t)) = t
    /\ plain(escapeHtml(t))
    /\ ~ unfinished(escapeHtml(t))

\* The empty text.
LEMMA EscapedNothing == escapeHtml(<<>>) = <<>> /\ decode(<<>>) = <<>>
<1>1. \A char, by : replaceAll(<<>>, char, by) = <<>>
  BY DEF replaceAll, FlattenSeq
<1>2. \A char : escape(<<>>, char) = <<>>
  BY <1>1 DEF escape
<1>3. escapeHtml(<<>>) = <<>>
  BY <1>2, Zenon DEF escapeHtml
<1>4. decode(<<>>) = <<>>
  BY DEF decode, FlattenSeq
<1> QED BY <1>3, <1>4

\* One symbol more.
LEMMA ReadsBackGrows ==
    ASSUME NEW X, holdsEscapes(X), NEW t \in textsOver(X), NEW c \in X, readsBack(t)
    PROVE  readsBack(Append(t, c))
<1> DEFINE w == escapeHtml(t)
           v == escapeHtml(Append(t, c))
<1>1. w \in textsOver(X) /\ v = w \o spelled(c, Escaped)
  BY EscapeHtmlGrows
<1>2. decode(w) = t /\ plain(w) /\ ~ unfinished(w)
  BY DEF readsBack
<1>3. t \o <<c>> = Append(t, c)
  BY SymbolsGrow
<1> HIDE DEF w, v
<1>4. CASE c \in Escaped
  <2> DEFINE r == referenceOf(c)
  <2>1. v = w \o <<"&", r>>
    BY <1>1, <1>4 DEF spelled
  <2>2. decode(v) = decode(w) \o <<c>>
    BY <1>1, <1>2, <1>4, <2>1, DecodeReference
  <2>3. r \notin Escaped /\ r \in X /\ "&" \in X /\ r # "&"
    <3>1. "&" \in Escaped
      BY DEF Escaped
    <3> QED BY <1>4, <3>1, ReferencesApart DEF holdsEscapes
  <2> HIDE DEF r
  <2>4. /\ Len(w) \in Nat /\ Len(v) = Len(w) + 2 /\ v[Len(w) + 1] = "&" /\ v[Len(w) + 2] = r
        /\ \A i \in 1 .. Len(w) : v[i] = w[i]
    BY <1>1, <2>1, <2>3 DEF textsOver
  <2>5. plain(v)
    <3> SUFFICES ASSUME NEW i \in 1 .. Len(v), v[i] \in Escaped PROVE v[i] = "&"
      BY DEF plain
    <3>1. i \in 1 .. Len(w) \/ i = Len(w) + 1 \/ i = Len(w) + 2
      BY <2>4
    <3> QED BY <1>2, <2>3, <2>4, <3>1 DEF plain
  <2>6. ~ unfinished(v)
    BY <2>3, <2>4 DEF unfinished
  <2>7. decode(v) = Append(t, c)
    BY <1>2, <1>3, <2>2
  <2> QED BY <2>5, <2>6, <2>7 DEF readsBack, v
<1>5. CASE c \notin Escaped
  <2>1. v = Append(w, c)
    <3>1. spelled(c, Escaped) = <<c>>
      BY <1>5 DEF spelled
    <3> QED BY <1>1, <3>1, SymbolsGrow
  <2>2. decode(v) = decode(w) \o <<c>>
    BY <1>1, <1>2, <2>1, DecodeGrows
  <2>3. c # "&"
    BY <1>5 DEF Escaped
  <2>4. /\ Len(w) \in Nat /\ Len(v) = Len(w) + 1 /\ v[Len(w) + 1] = c
        /\ \A i \in 1 .. Len(w) : v[i] = w[i]
    BY <1>1, <2>1 DEF textsOver
  <2>5. plain(v)
    <3> SUFFICES ASSUME NEW i \in 1 .. Len(v), v[i] \in Escaped PROVE v[i] = "&"
      BY DEF plain
    <3>1. i \in 1 .. Len(w) \/ i = Len(w) + 1
      BY <2>4
    <3> QED BY <1>2, <1>5, <2>4, <3>1 DEF plain
  <2>6. ~ unfinished(v)
    BY <2>3, <2>4 DEF unfinished
  <2>7. decode(v) = Append(t, c)
    BY <1>2, <1>3, <2>2
  <2> QED BY <2>5, <2>6, <2>7 DEF readsBack, v
<1> QED BY <1>4, <1>5

(***************************************************************************)
(* A set of texts that holds the empty one, and with each text those that  *)
(* are one symbol longer, holds all of them.                               *)
(***************************************************************************)
LEMMA TextInduction ==
    ASSUME NEW X, NEW S, <<>> \in S,
           \A t \in textsOver(X), c \in X : t \in S => Append(t, c) \in S
    PROVE  textsOver(X) \subseteq S
<1> SUFFICES ASSUME NEW t \in textsOver(X) PROVE t \in S
  OBVIOUS
<1> DEFINE front(n) == SubSeq(t, 1, n)
           Done == {n \in 0 .. Len(t) : front(n) \in S}
<1>1. Len(t) \in Nat /\ \A i \in 1 .. Len(t) : t[i] \in X
  BY DEF textsOver
<1>2. 0 \in Done
  <2>1. front(0) = <<>>
    BY DEF textsOver
  <2> HIDE DEF front
  <2> QED BY <1>1, <2>1
<1>3. ASSUME NEW n \in 1 .. Len(t), n - 1 \in Done PROVE n \in Done
  <2> DEFINE s == front(n - 1)
  <2>1. s \in textsOver(X) /\ t[n] \in X
    BY <1>1 DEF textsOver
  <2>2. front(n) = Append(s, t[n])
    <3>1. /\ SubSeq(t, 1, n) \in Seq(X) /\ Len(SubSeq(t, 1, n)) = n
          /\ \A i \in 1 .. n : SubSeq(t, 1, n)[i] = t[i]
      BY <1>1 DEF textsOver
    <3>2. s \in Seq(X) /\ Len(s) = n - 1 /\ \A i \in 1 .. (n - 1) : s[i] = t[i]
      BY <1>1 DEF textsOver
    <3> HIDE DEF s
    <3>3. /\ Append(s, t[n]) \in Seq(X) /\ Len(Append(s, t[n])) = n
          /\ \A i \in 1 .. n : Append(s, t[n])[i] = t[i]
      BY <1>1, <2>1, <3>2
    <3> QED BY <3>1, <3>3, SeqEqual
  <2>3. s \in S
    BY <1>3
  <2> HIDE DEF s, front
  <2>4. front(n) \in S
    BY <2>1, <2>2, <2>3
  <2> QED BY <2>4, <1>1
<1> HIDE DEF Done
<1>4. \A n \in 0 .. Len(t) : n \in Done
  BY <1>1, <1>2, <1>3, UpTo, Zenon
<1>5. Len(t) \in Done
  BY <1>1, <1>4
<1>6. SubSeq(t, 1, Len(t)) = t
  BY DEF textsOver
<1> QED BY <1>5, <1>6 DEF Done

(***************************************************************************)
(* A browser reads an escaped text back as the text, whatever it is made   *)
(* of, and finds nothing in it that ends an attribute or begins a tag      *)
(* (escapeHtml of mvc/html.ts).                                            *)
(***************************************************************************)
THEOREM TextsReadBack ==
    ASSUME NEW X, NEW text \in Seq(X)
    PROVE  /\ decode(escapeHtml(text)) = text
           /\ plain(escapeHtml(text))
<1> DEFINE Y == X \cup Escaped \cup References
           S == {t \in textsOver(Y) : readsBack(t)}
<1>1. holdsEscapes(Y)
  BY DEF holdsEscapes, References
<1>2. text \in textsOver(Y)
  BY DEF textsOver
<1> HIDE DEF Y
<1>3. <<>> \in S
  <2>1. <<>> \in textsOver(Y)
    BY DEF textsOver
  <2> QED BY <2>1, EscapedNothing DEF readsBack, plain, unfinished
<1>4. ASSUME NEW t \in textsOver(Y), NEW c \in Y, t \in S PROVE Append(t, c) \in S
  BY <1>1, <1>4, ReadsBackGrows, SymbolsGrow
<1> HIDE DEF S
<1>5. text \in S
  BY <1>2, <1>3, <1>4, TextInduction
<1> QED BY <1>5 DEF S, readsBack

-----------------------------------------------------------------------------
(***************************************************************************)
(* The same for the value of a parameter in an address.                    *)
(***************************************************************************)
\* No two symbols have one code, and no code is a symbol that is coded.
LEMMA CodesApart ==
    /\ \A c \in Coded : codeOf(c) \notin Coded
    /\ \A c, d \in Coded : codeOf(c) = codeOf(d) => c = d
    /\ "%" \in Coded /\ "&" \in Coded /\ "=" \in Coded /\ "+" \in Coded /\ " " \in Coded
<1>1. /\ codeOf("&") = "26" /\ codeOf("=") = "3D" /\ codeOf("+") = "2B" /\ codeOf("%") = "25"
      /\ codeOf("<") = "3C" /\ codeOf(">") = "3E" /\ codeOf("\"") = "22" /\ codeOf("?") = "3F"
      /\ codeOf(" ") = "20"
  BY DEF codeOf
<1>2. \A c \in Coded : codeOf(c) \notin Coded
  BY <1>1 DEF Coded
<1>3. \A c, d \in Coded : codeOf(c) = codeOf(d) => c = d
  BY <1>1 DEF Coded
<1> QED BY <1>2, <1>3 DEF Coded

\* A code stands for the symbol that was coded.
LEMMA CodeIsSymbol ==
    ASSUME NEW d \in Coded
    PROVE  codeOf(d) \in Codes /\ symbolOf(codeOf(d)) = d
BY CodesApart DEF Codes, symbolOf

\* Symbols that texts can be encoded in.
holdsCodes(X) == \A c \in Coded : c \in X /\ codeOf(c) \in X

\* What stands for a symbol.
coded(c) == IF c \in Coded THEN <<"%", codeOf(c)>> ELSE <<c>>

\* One symbol more in the value is what stands for it more in the parameter.
LEMMA EncodeGrows ==
    ASSUME NEW X, NEW t \in textsOver(X), NEW c \in X, holdsCodes(X)
    PROVE  /\ encodeURIComponent(t) \in textsOver(X)
           /\ encodeURIComponent(Append(t, c)) = encodeURIComponent(t) \o coded(c)
<1> DEFINE u == Append(t, c)
           g == [i \in 1 .. Len(t) |-> coded(t[i])]
           h == [i \in 1 .. (Len(t) + 1) |-> coded(u[i])]
<1>1. /\ Len(t) \in Nat /\ DOMAIN t = 1 .. Len(t) /\ DOMAIN u = 1 .. (Len(t) + 1)
      /\ u[Len(t) + 1] = c
      /\ \A i \in 1 .. Len(t) : u[i] = t[i] /\ t[i] \in X
  BY SymbolsGrow DEF textsOver
<1> HIDE DEF u
<1>2. encodeURIComponent(t) = flat(g) /\ encodeURIComponent(u) = flat(h)
  BY <1>1 DEF encodeURIComponent, flat, coded
<1>3. \A x \in X : coded(x) \in Seq(X)
  <2>1. "%" \in X
    BY CodesApart DEF holdsCodes
  <2> QED BY <2>1 DEF coded, holdsCodes
<1>4. g \in [1 .. Len(t) -> Seq(X)]
  BY <1>1, <1>3
<1>5. h \in [1 .. (Len(t) + 1) -> Seq(X)]
  <2>1. ASSUME NEW i \in 1 .. (Len(t) + 1) PROVE u[i] \in X
    BY <1>1
  <2> QED BY <1>3, <2>1
<1>6. (\A i \in 1 .. Len(t) : h[i] = g[i]) /\ h[Len(t) + 1] = coded(c)
  BY <1>1
<1> HIDE DEF g, h
<1>7. flat(h) = flat(g) \o h[Len(t) + 1] /\ flat(g) \in Seq(X)
  <2>1. Len(t) \in Nat
    BY <1>1
  <2> QED BY <1>4, <1>5, <1>6, <2>1, FlatGrows
<1> QED BY <1>2, <1>6, <1>7 DEF u, textsOver

\* What decodeParameter makes of position i.
decodedParameter(w, i) ==
    IF codeAt(w, i) THEN <<symbolOf(w[i])>>
    ELSE IF codeAt(w, i + 1) THEN <<>>
    ELSE IF w[i] = "+" THEN <<" ">> ELSE <<w[i]>>

parameterUpTo(w, n) == [i \in 1 .. n |-> decodedParameter(w, i)]

\* A code has begun and not ended.
cutShort(w) == Len(w) > 0 /\ w[Len(w)] = "%"

\* decodeParameter joins what it makes of the positions.
LEMMA ParameterType ==
    ASSUME NEW X, holdsCodes(X), NEW w \in textsOver(X), NEW n \in 0 .. Len(w)
    PROVE  /\ decodeParameter(w) = flat(parameterUpTo(w, Len(w)))
           /\ parameterUpTo(w, n) \in [1 .. n -> Seq(X)]
           /\ \A i \in 1 .. n : parameterUpTo(w, n)[i] = decodedParameter(w, i)
<1>1. Len(w) \in Nat /\ DOMAIN w = 1 .. Len(w) /\ \A i \in 1 .. Len(w) : w[i] \in X
  BY DEF textsOver
<1>2. decodeParameter(w) = flat(parameterUpTo(w, Len(w)))
  BY <1>1 DEF decodeParameter, parameterUpTo, decodedParameter, flat
<1>3. ASSUME NEW i \in 1 .. n PROVE decodedParameter(w, i) \in Seq(X)
  <2>1. CASE codeAt(w, i)
    <3>1. w[i] \in Codes
      BY <2>1 DEF codeAt
    <3>2. symbolOf(w[i]) \in Coded
      BY <3>1 DEF symbolOf, Codes
    <3>3. symbolOf(w[i]) \in X
      BY <3>2 DEF holdsCodes
    <3> QED BY <2>1, <3>3 DEF decodedParameter
  <2>2. CASE ~ codeAt(w, i)
    <3>1. w[i] \in X
      BY <1>1
    <3>2. " " \in X
      BY CodesApart, Zenon DEF holdsCodes
    <3>3. <<>> \in Seq(X) /\ \A x \in X : <<x>> \in Seq(X)
      OBVIOUS
    <3> QED BY <2>2, <3>1, <3>2, <3>3, Zenon DEF decodedParameter
  <2> QED BY <2>1, <2>2
<1> QED BY <1>1, <1>2, <1>3 DEF parameterUpTo

\* Whatever has no code begun in it can be followed by any symbol but a plus ...
LEMMA ParameterGrows ==
    ASSUME NEW X, holdsCodes(X), NEW w \in textsOver(X), NEW c \in X, ~ cutShort(w), c # "+"
    PROVE  decodeParameter(Append(w, c)) = decodeParameter(w) \o <<c>>
<1> DEFINE n == Len(w)
           v == Append(w, c)
<1>1. /\ n \in Nat /\ v \in textsOver(X) /\ Len(v) = n + 1 /\ v[n + 1] = c
      /\ \A i \in 1 .. n : v[i] = w[i]
  BY SymbolsGrow DEF textsOver
<1>2. n > 0 => w[n] # "%"
  BY DEF cutShort
<1> HIDE DEF n, v
<1>3. ASSUME NEW i \in 1 .. n PROVE codeAt(v, i) <=> codeAt(w, i)
  BY <1>1 DEF codeAt, n
<1>4. ~ codeAt(v, n + 1) /\ ~ codeAt(v, n + 2) /\ ~ codeAt(w, n + 1)
  BY <1>1, <1>2 DEF codeAt, n
<1>5. ASSUME NEW i \in 1 .. n PROVE decodedParameter(v, i) = decodedParameter(w, i)
  <2>1. codeAt(v, i + 1) <=> codeAt(w, i + 1)
    <3>1. i + 1 \in 1 .. n \/ i + 1 = n + 1
      BY <1>1
    <3> QED BY <1>3, <1>4, <3>1
  <2> QED BY <1>1, <1>3, <2>1 DEF decodedParameter
<1>6. decodedParameter(v, n + 1) = <<c>>
  <2>1. (n + 1) + 1 = n + 2
    BY <1>1
  <2> QED BY <1>1, <1>4, <2>1 DEF decodedParameter
<1> DEFINE g == parameterUpTo(w, n)
           h == parameterUpTo(v, n + 1)
<1>7. /\ decodeParameter(w) = flat(g) /\ decodeParameter(v) = flat(h)
      /\ g \in [1 .. n -> Seq(X)] /\ h \in [1 .. (n + 1) -> Seq(X)]
      /\ \A i \in 1 .. n : g[i] = decodedParameter(w, i)
      /\ \A i \in 1 .. (n + 1) : h[i] = decodedParameter(v, i)
  <2>1. n \in 0 .. Len(w) /\ n + 1 \in 0 .. Len(v) /\ n = Len(w) /\ n + 1 = Len(v)
    BY <1>1 DEF n
  <2> QED BY <1>1, <2>1, ParameterType
<1>8. \A i \in 1 .. n : h[i] = g[i]
  BY <1>1, <1>5, <1>7
<1>9. h[n + 1] = <<c>>
  BY <1>1, <1>6, <1>7
<1> HIDE DEF g, h
<1>10. flat(h) = flat(g) \o h[n + 1]
  <2>1. /\ n \in Nat /\ g \in [1 .. n -> Seq(X)] /\ h \in [1 .. (n + 1) -> Seq(X)]
        /\ \A i \in 1 .. n : h[i] = g[i]
    BY <1>1, <1>7, <1>8
  <2> QED BY <2>1, FlatGrows
<1> QED BY <1>7, <1>9, <1>10 DEF v

\* ... and by any code, which is read as its symbol.
LEMMA ParameterCode ==
    ASSUME NEW X, holdsCodes(X), NEW w \in textsOver(X), NEW d \in Coded, ~ cutShort(w)
    PROVE  decodeParameter(w \o <<"%", codeOf(d)>>) = decodeParameter(w) \o <<d>>
<1> DEFINE n == Len(w)
           r == codeOf(d)
           v == w \o <<"%", r>>
<1>1. /\ n \in Nat /\ v \in textsOver(X) /\ Len(v) = n + 2 /\ v[n + 1] = "%" /\ v[n + 2] = r
      /\ \A i \in 1 .. n : v[i] = w[i]
  <2>1. "%" \in X /\ r \in X
    BY CodesApart DEF holdsCodes
  <2> HIDE DEF r
  <2> QED BY <2>1 DEF textsOver
<1>2. n > 0 => w[n] # "%"
  BY DEF cutShort
<1>3. r \in Codes /\ symbolOf(r) = d
  BY CodeIsSymbol
<1> HIDE DEF n, v, r
<1>4. ASSUME NEW i \in 1 .. n PROVE codeAt(v, i) <=> codeAt(w, i)
  BY <1>1 DEF codeAt, n
<1>5. ~ codeAt(v, n + 1) /\ codeAt(v, n + 2) /\ ~ codeAt(w, n + 1)
  BY <1>1, <1>2, <1>3 DEF codeAt, n
<1>6. ASSUME NEW i \in 1 .. n PROVE decodedParameter(v, i) = decodedParameter(w, i)
  <2>1. codeAt(v, i + 1) <=> codeAt(w, i + 1)
    <3>1. i + 1 \in 1 .. n \/ i + 1 = n + 1
      BY <1>1
    <3> QED BY <1>4, <1>5, <3>1
  <2> QED BY <1>1, <1>4, <2>1 DEF decodedParameter
<1>7. decodedParameter(v, n + 1) = <<>> /\ decodedParameter(v, n + 2) = <<d>>
  <2>1. (n + 1) + 1 = n + 2
    BY <1>1
  <2> QED BY <1>1, <1>3, <1>5, <2>1 DEF decodedParameter
<1> DEFINE g == parameterUpTo(w, n)
           k == parameterUpTo(v, n + 1)
           h == parameterUpTo(v, n + 2)
<1>8. /\ decodeParameter(w) = flat(g) /\ decodeParameter(v) = flat(h)
      /\ g \in [1 .. n -> Seq(X)] /\ \A i \in 1 .. n : g[i] = decodedParameter(w, i)
      /\ k \in [1 .. (n + 1) -> Seq(X)] /\ \A i \in 1 .. (n + 1) : k[i] = decodedParameter(v, i)
      /\ h \in [1 .. (n + 2) -> Seq(X)] /\ \A i \in 1 .. (n + 2) : h[i] = decodedParameter(v, i)
  <2>1. /\ n \in 0 .. Len(w) /\ n + 1 \in 0 .. Len(v) /\ n + 2 \in 0 .. Len(v)
        /\ n = Len(w) /\ n + 2 = Len(v)
    BY <1>1 DEF n
  <2> QED BY <1>1, <2>1, ParameterType
<1>9. (\A i \in 1 .. n : k[i] = g[i]) /\ (\A i \in 1 .. (n + 1) : h[i] = k[i])
  BY <1>1, <1>6, <1>8
<1>10. k[n + 1] = <<>> /\ h[n + 2] = <<d>>
  BY <1>1, <1>7, <1>8
<1> HIDE DEF g, h, k
<1>11. flat(k) = flat(g) \o k[n + 1] /\ flat(g) \in Seq(X)
  <2>1. /\ n \in Nat /\ g \in [1 .. n -> Seq(X)] /\ k \in [1 .. (n + 1) -> Seq(X)]
        /\ \A i \in 1 .. n : k[i] = g[i]
    BY <1>1, <1>8, <1>9
  <2> QED BY <2>1, FlatGrows
<1>12. flat(h) = flat(k) \o h[n + 2]
  <2> DEFINE m == n + 1
  <2>1. m + 1 = n + 2 /\ m \in Nat
    BY <1>1
  <2>2. /\ k \in [1 .. m -> Seq(X)] /\ h \in [1 .. (m + 1) -> Seq(X)]
        /\ \A i \in 1 .. m : h[i] = k[i]
    BY <1>8, <1>9, <2>1
  <2> HIDE DEF m
  <2>3. flat(h) = flat(k) \o h[m + 1]
    BY <2>1, <2>2, FlatGrows
  <2> QED BY <2>1, <2>3
<1>13. flat(g) \o <<>> = flat(g)
  BY <1>11
<1> QED BY <1>8, <1>10, <1>11, <1>12, <1>13 DEF v, r

\* Nothing in a text that ends a parameter or its name.
undivided(w) == \A i \in 1 .. Len(w) : w[i] # "&" /\ w[i] # "="

\* What is meant of a value, with what the next symbol needs.
comesBack(t) ==
    /\ decodeParameter(encodeURIComponent(t)) = t
    /\ undivided(encodeURIComponent(t))
    /\ ~ cutShort(encodeURIComponent(t))
    /\ Len(t) > 0 => Len(encodeURIComponent(t)) > 0

\* One symbol more.
LEMMA ComesBackGrows ==
    ASSUME NEW X, holdsCodes(X), NEW t \in textsOver(X), NEW c \in X, comesBack(t)
    PROVE  comesBack(Append(t, c))
<1> DEFINE w == encodeURIComponent(t)
           v == encodeURIComponent(Append(t, c))
<1>1. w \in textsOver(X) /\ v = w \o coded(c)
  BY EncodeGrows
<1>2. decodeParameter(w) = t /\ undivided(w) /\ ~ cutShort(w)
  BY DEF comesBack
<1>3. t \o <<c>> = Append(t, c)
  BY SymbolsGrow
<1> HIDE DEF w, v
<1>4. CASE c \in Coded
  <2> DEFINE r == codeOf(c)
  <2>1. v = w \o <<"%", r>>
    BY <1>1, <1>4 DEF coded
  <2>2. decodeParameter(v) = decodeParameter(w) \o <<c>>
    BY <1>1, <1>2, <1>4, <2>1, ParameterCode
  <2>3. r \notin Coded /\ r \in X /\ "%" \in X
    BY <1>4, CodesApart DEF holdsCodes
  <2> HIDE DEF r
  <2>4. r # "%" /\ r # "&" /\ r # "="
    BY <2>3, CodesApart
  <2>5. /\ Len(w) \in Nat /\ Len(v) = Len(w) + 2 /\ v[Len(w) + 1] = "%" /\ v[Len(w) + 2] = r
        /\ \A i \in 1 .. Len(w) : v[i] = w[i]
    BY <1>1, <2>1, <2>3 DEF textsOver
  <2>6. undivided(v)
    <3> SUFFICES ASSUME NEW i \in 1 .. Len(v) PROVE v[i] # "&" /\ v[i] # "="
      BY DEF undivided
    <3>1. i \in 1 .. Len(w) \/ i = Len(w) + 1 \/ i = Len(w) + 2
      BY <2>5
    <3> QED BY <1>2, <2>4, <2>5, <3>1 DEF undivided
  <2>7. ~ cutShort(v) /\ Len(v) > 0
    BY <2>4, <2>5 DEF cutShort
  <2>8. decodeParameter(v) = Append(t, c)
    BY <1>2, <1>3, <2>2
  <2> QED BY <2>6, <2>7, <2>8 DEF comesBack, v
<1>5. CASE c \notin Coded
  <2>1. v = Append(w, c)
    <3>1. coded(c) = <<c>>
      BY <1>5 DEF coded
    <3> QED BY <1>1, <3>1, SymbolsGrow
  <2>2. c # "%" /\ c # "&" /\ c # "=" /\ c # "+"
    BY <1>5, CodesApart
  <2>3. decodeParameter(v) = decodeParameter(w) \o <<c>>
    BY <1>1, <1>2, <2>1, <2>2, ParameterGrows
  <2>4. /\ Len(w) \in Nat /\ Len(v) = Len(w) + 1 /\ v[Len(w) + 1] = c
        /\ \A i \in 1 .. Len(w) : v[i] = w[i]
    BY <1>1, <2>1 DEF textsOver
  <2>5. undivided(v)
    <3> SUFFICES ASSUME NEW i \in 1 .. Len(v) PROVE v[i] # "&" /\ v[i] # "="
      BY DEF undivided
    <3>1. i \in 1 .. Len(w) \/ i = Len(w) + 1
      BY <2>4
    <3> QED BY <1>2, <2>2, <2>4, <3>1 DEF undivided
  <2>6. ~ cutShort(v) /\ Len(v) > 0
    BY <2>2, <2>4 DEF cutShort
  <2>7. decodeParameter(v) = Append(t, c)
    BY <1>2, <1>3, <2>3
  <2> QED BY <2>5, <2>6, <2>7 DEF comesBack, v
<1> QED BY <1>4, <1>5

\* A value of any length over any symbols comes back, and nothing in it ends its parameter.
LEMMA ParametersComeBack ==
    ASSUME NEW X, NEW text \in Seq(X)
    PROVE  comesBack(text) /\ \E Y : encodeURIComponent(text) \in Seq(Y)
<1> DEFINE Y == X \cup Coded \cup Codes
           S == {t \in textsOver(Y) : comesBack(t) /\ encodeURIComponent(t) \in textsOver(Y)}
<1>1. holdsCodes(Y)
  BY DEF holdsCodes, Codes
<1>2. text \in textsOver(Y)
  BY DEF textsOver
<1> HIDE DEF Y
<1>3. <<>> \in S
  <2>1. <<>> \in textsOver(Y)
    BY DEF textsOver
  <2>2. encodeURIComponent(<<>>) = <<>>
    BY DEF encodeURIComponent, FlattenSeq
  <2>3. decodeParameter(<<>>) = <<>>
    BY DEF decodeParameter, FlattenSeq
  <2> QED BY <2>1, <2>2, <2>3 DEF comesBack, undivided, cutShort
<1>4. ASSUME NEW t \in textsOver(Y), NEW c \in Y, t \in S PROVE Append(t, c) \in S
  <2>1. Append(t, c) \in textsOver(Y)
    BY SymbolsGrow
  <2>2. comesBack(t)
    BY <1>4
  <2>3. comesBack(Append(t, c))
    BY <1>1, <2>2, ComesBackGrows
  <2>4. \A s \in textsOver(Y) : encodeURIComponent(s) \in textsOver(Y)
    BY <1>1, EncodeGrows
  <2> QED BY <2>1, <2>3, <2>4
<1> HIDE DEF S
<1>5. text \in S
  BY <1>2, <1>3, <1>4, TextInduction
<1> QED BY <1>5 DEF S, textsOver

\* A parameter of this name, from i to j and nowhere else.
onlyParameter(query, name, i, j) ==
    /\ i \in 1 .. Len(query) - 1 /\ j \in i .. Len(query)
    /\ startsOf(query, name) = {i}
    /\ \A k \in i .. j : query[k] # "&"
    /\ j = Len(query) \/ query[j + 1] = "&"

\* The one parameter of a name is the one that is read.
LEMMA ParameterIsRead ==
    ASSUME NEW X, NEW query \in Seq(X), NEW name, NEW i, NEW j, onlyParameter(query, name, i, j)
    PROVE  parameter(query, name) = decodeParameter(SubSeq(query, i + 2, j))
<1>1. /\ Len(query) \in Nat /\ i \in 1 .. Len(query) - 1 /\ j \in i .. Len(query)
      /\ startsOf(query, name) = {i}
      /\ \A k \in i .. j : query[k] # "&"
      /\ j = Len(query) \/ query[j + 1] = "&"
  BY DEF onlyParameter
<1>2. ASSUME NEW h \in i .. Len(query), \A k \in i .. h : query[k] # "&",
             h = Len(query) \/ query[h + 1] = "&"
      PROVE  h = j
  <2>1. CASE h < j
    <3>1. h + 1 \in i .. j /\ h # Len(query)
      BY <1>1, <2>1
    <3> QED BY <1>1, <1>2, <3>1
  <2>2. CASE j < h
    <3>1. j + 1 \in i .. h /\ j # Len(query)
      BY <1>1, <2>2
    <3> QED BY <1>1, <1>2, <3>1
  <2> QED BY <1>1, <2>1, <2>2
<1>3. endOf(query, i) = j
  <2>1. endOf(query, i) \in i .. Len(query) /\ (\A k \in i .. endOf(query, i) : query[k] # "&")
        /\ (endOf(query, i) = Len(query) \/ query[endOf(query, i) + 1] = "&")
    BY <1>1 DEF endOf
  <2> QED BY <1>2, <2>1
<1>4. (CHOOSE h \in startsOf(query, name) : \A k \in startsOf(query, name) : h <= k) = i
  <2>1. \E h \in startsOf(query, name) : \A k \in startsOf(query, name) : h <= k
    BY <1>1
  <2> QED BY <1>1, <2>1
<1>5. startsOf(query, name) # {}
  BY <1>1
<1> QED BY <1>3, <1>4, <1>5, Zenon DEF parameter

\* A parameter as it is written.
written(name, value) == <<name, "=">> \o encodeURIComponent(value)

\* One piece, and two.
LEMMA FlatOfOneOrTwo ==
    ASSUME NEW X, NEW p \in Seq(X), NEW q \in Seq(X)
    PROVE  flat(<<p>>) = p /\ flat(<<p, q>>) = p \o q
<1>1. <<>> \in Seq(Seq(X)) /\ <<p>> \in Seq(Seq(X))
      /\ <<p>> = Append(<<>>, p) /\ <<p, q>> = Append(<<p>>, q)
  OBVIOUS
<1>2. flat(<<>>) = <<>>
  BY DEF flat, FlattenSeq
<1>3. flat(<<p>>) = flat(<<>>) \o p
  BY <1>1, FlatAppend
<1>4. flat(<<p>>) = p
  BY <1>2, <1>3
<1>5. flat(<<p, q>>) = flat(<<p>>) \o q
  BY <1>1, FlatAppend
<1> QED BY <1>4, <1>5

\* Two sequences of one.
LEMMA PairOf ==
    ASSUME NEW S, NEW x \in S, NEW y \in S
    PROVE  <<x>> \o <<y>> = <<x, y>>
<1>1. <<x>> \o <<y>> = Append(<<x>>, y)
  <2> DEFINE p == <<x>>
  <2>1. p \in Seq(S)
    OBVIOUS
  <2> HIDE DEF p
  <2>2. p \o <<y>> = Append(p, y)
    BY <2>1
  <2> QED BY <2>2 DEF p
<1>2. <<>> \in Seq(S) /\ <<x>> \in Seq(S) /\ <<x>> = Append(<<>>, x) /\ <<x, y>> = Append(<<x>>, y)
  OBVIOUS
<1> QED BY <1>1, <1>2

\* The four addresses that a redirect to the home page can have.
LEMMA HrefTextIsWritten ==
    ASSUME NEW Y, NEW error, NEW t,
           written("error", <<error>>) \in Seq(Y), written("newCounterId", t) \in Seq(Y), "&" \in Y
    PROVE  LET text == hrefText(counterHomeHref(error, t))
               e == written("error", <<error>>)
               d == written("newCounterId", t)
           IN  /\ (error = "none" /\ t = absent) => text = <<"/">>
               /\ (error = "none" /\ t # absent) => text = <<"/", "?">> \o d
               /\ (error # "none" /\ t = absent) => text = <<"/", "?">> \o e
               /\ (error # "none" /\ t # absent) => text = <<"/", "?">> \o (e \o (<<"&">> \o d))
<1> DEFINE href == counterHomeHref(error, t)
           e == written("error", <<error>>)
           d == written("newCounterId", t)
           ep == queryParameter("error", IF error = "none" THEN absent ELSE <<error>>)
           dp == queryParameter("newCounterId", t)
           all == ep \o dp
           pieces == [i \in DOMAIN all |-> IF i = 1 THEN all[i] ELSE <<"&">> \o all[i]]
<1>1. /\ error = "none" => ep = <<>>
      /\ error # "none" => ep = <<e>>
  BY DEF queryParameter, absent, written
<1>2. /\ t = absent => dp = <<>>
      /\ t # absent => dp = <<d>>
  BY DEF queryParameter, written
<1>3. hrefText(href) = IF all = <<>> THEN <<"/">> ELSE <<"/", "?">> \o flat(pieces)
  BY DEF hrefText, counterHomeHref, webRoutes, flat
<1>4. e \in Seq(Y) /\ d \in Seq(Y) /\ <<"&">> \o d \in Seq(Y)
  OBVIOUS
<1> HIDE DEF e, d, ep, dp, href
<1>5. CASE error = "none" /\ t = absent
  <2>1. all = <<>>
    BY <1>1, <1>2, <1>5
  <2> QED BY <1>3, <1>5, <2>1 DEF href
<1>6. CASE error = "none" /\ t # absent
  <2>1. all = <<d>> /\ all # <<>>
    <3>1. ep = <<>> /\ dp = <<d>>
      BY <1>1, <1>2, <1>6, Zenon
    <3>2. <<>> \o <<d>> = <<d>> /\ <<d>> # <<>>
      BY <1>4
    <3> QED BY <3>1, <3>2, Zenon
  <2>2. pieces = <<d>>
    BY <2>1
  <2>3. flat(<<d>>) = d
    BY <1>4, FlatOfOneOrTwo
  <2> QED BY <1>3, <1>6, <2>1, <2>2, <2>3 DEF href, d
<1>7. CASE error # "none" /\ t = absent
  <2>1. all = <<e>> /\ all # <<>>
    <3>1. ep = <<e>> /\ dp = <<>>
      BY <1>1, <1>2, <1>7, Zenon
    <3>2. <<e>> \o <<>> = <<e>> /\ <<e>> # <<>>
      BY <1>4
    <3> QED BY <3>1, <3>2, Zenon
  <2>2. pieces = <<e>>
    BY <2>1
  <2>3. flat(<<e>>) = e
    BY <1>4, FlatOfOneOrTwo
  <2> QED BY <1>3, <1>7, <2>1, <2>2, <2>3 DEF href, e
<1>8. CASE error # "none" /\ t # absent
  <2>1. all = <<e, d>> /\ all # <<>>
    <3>1. ep = <<e>> /\ dp = <<d>>
      BY <1>1, <1>2, <1>8, Zenon
    <3>2. <<e>> \o <<d>> = <<e, d>> /\ <<e, d>> # <<>>
      <4>1. <<e>> \o <<d>> = <<e, d>>
        BY <1>4, PairOf
      <4>2. Len(<<e, d>>) = 2 /\ Len(<<>>) = 0
        OBVIOUS
      <4> QED BY <4>1, <4>2
    <3> QED BY <3>1, <3>2, Zenon
  <2>2. pieces = <<e, <<"&">> \o d>>
    BY <2>1
  <2>3. flat(<<e, <<"&">> \o d>>) = e \o (<<"&">> \o d)
    BY <1>4, FlatOfOneOrTwo
  <2> QED BY <1>3, <1>8, <2>1, <2>2, <2>3 DEF href, e, d
<1> QED BY <1>5, <1>6, <1>7, <1>8 DEF href, e, d

\* The server takes the query apart from the route.
LEMMA HrefLeadsTo ==
    ASSUME NEW Y, NEW query \in Seq(Y), "/" \in Y, "?" \in Y
    PROVE  LET text == <<"/", "?">> \o query
           IN  text[1] = "/" /\ SubSeq(text, 3, Len(text)) = query
<1> DEFINE text == <<"/", "?">> \o query
           rest == SubSeq(text, 3, Len(text))
<1>1. /\ text \in Seq(Y) /\ Len(text) = Len(query) + 2 /\ text[1] = "/" /\ Len(query) \in Nat
      /\ \A i \in 1 .. Len(query) : text[i + 2] = query[i]
  OBVIOUS
<1> HIDE DEF text
<1>2. /\ rest \in Seq(Y) /\ Len(rest) = Len(query)
      /\ \A i \in 1 .. Len(query) : rest[i] = text[i + 2]
  BY <1>1
<1> HIDE DEF rest
<1>3. rest = query
  BY <1>1, <1>2, SeqEqual
<1> QED BY <1>1, <1>3 DEF text, rest

\* A parameter with this name and value can be written over these symbols.
writable(name, value, Y) ==
    /\ name \in Y /\ name # "&" /\ "=" \in Y
    /\ \E X : value \in Seq(X)
    /\ encodeURIComponent(value) \in Seq(Y)

\* A written parameter, symbol by symbol.
LEMMA WrittenIs ==
    ASSUME NEW Y, NEW name, NEW value, writable(name, value, Y)
    PROVE  LET d == encodeURIComponent(value)
               w == written(name, value)
           IN  /\ w \in Seq(Y) /\ Len(d) \in Nat /\ Len(w) = Len(d) + 2
               /\ w[1] = name /\ w[2] = "="
               /\ \A i \in 1 .. Len(d) : w[i + 2] = d[i] /\ d[i] # "&"
               /\ value # absent => Len(d) > 0
               /\ decodeParameter(d) = value
<1> DEFINE d == encodeURIComponent(value)
           w == written(name, value)
<1>1. comesBack(value)
  <2>1. PICK X : value \in Seq(X)
    BY DEF writable
  <2> QED BY <2>1, ParametersComeBack
<1>2. undivided(d) /\ decodeParameter(d) = value /\ (Len(value) > 0 => Len(d) > 0)
  BY <1>1 DEF comesBack
<1>3. value # absent => Len(value) > 0
  BY DEF absent
<1>4. w = <<name, "=">> \o d
  BY DEF written
<1> HIDE DEF w, d
<1>5. d \in Seq(Y) /\ name \in Y /\ "=" \in Y
  BY DEF d, writable
<1>6. /\ w \in Seq(Y) /\ Len(d) \in Nat /\ Len(w) = Len(d) + 2 /\ w[1] = name /\ w[2] = "="
      /\ \A i \in 1 .. Len(d) : w[i + 2] = d[i]
  BY <1>4, <1>5
<1>7. \A i \in 1 .. Len(d) : d[i] # "&"
  BY <1>2 DEF undivided
<1> QED BY <1>2, <1>3, <1>6, <1>7 DEF w, d

\* A query of one parameter: it is read and no other is.
LEMMA OneIsRead ==
    ASSUME NEW Y, NEW name, NEW value, writable(name, value, Y), NEW other, other # name
    PROVE  /\ parameter(written(name, value), name) = value
           /\ parameter(written(name, value), other) = absent
<1> DEFINE d == encodeURIComponent(value)
           w == written(name, value)
<1>1. /\ w \in Seq(Y) /\ Len(d) \in Nat /\ Len(w) = Len(d) + 2 /\ w[1] = name /\ w[2] = "="
      /\ \A i \in 1 .. Len(d) : w[i + 2] = d[i] /\ d[i] # "&"
      /\ decodeParameter(d) = value /\ d \in Seq(Y) /\ name # "&"
  <2>1. encodeURIComponent(value) \in Seq(Y) /\ name # "&"
    BY DEF writable
  <2> QED BY <2>1, WrittenIs
<1> HIDE DEF w, d
<1>2. ASSUME NEW i \in 1 .. Len(w) PROVE w[i] # "&"
  <2>1. CASE i > 2
    <3>1. i - 2 \in 1 .. Len(d) /\ (i - 2) + 2 = i
      BY <1>1, <2>1
    <3>2. w[(i - 2) + 2] = d[i - 2] /\ d[i - 2] # "&"
      BY <1>1, <3>1
    <3> QED BY <3>1, <3>2
  <2>2. CASE i = 1 \/ i = 2
    BY <1>1, <2>2
  <2> QED BY <1>1, <2>1, <2>2
<1>3. startsOf(w, name) = {1}
  BY <1>1, <1>2 DEF startsOf
<1>4. startsOf(w, other) = {}
  BY <1>1, <1>2 DEF startsOf
<1>5. onlyParameter(w, name, 1, Len(w))
  BY <1>1, <1>2, <1>3 DEF onlyParameter
<1>6. SubSeq(w, 1 + 2, Len(w)) = d
  <2> DEFINE s == SubSeq(w, 1 + 2, Len(w))
  <2>1. s \in Seq(Y) /\ Len(s) = Len(d) /\ \A i \in 1 .. Len(d) : s[i] = w[i + 2]
    BY <1>1
  <2> HIDE DEF s
  <2>2. s = d
    BY <1>1, <2>1, SeqEqual
  <2> QED BY <2>2 DEF s
<1>7. parameter(w, name) = decodeParameter(SubSeq(w, 1 + 2, Len(w)))
  BY <1>1, <1>5, ParameterIsRead
<1>8. parameter(w, other) = absent
  BY <1>4 DEF parameter
<1>9. parameter(w, name) = value
  BY <1>1, <1>6, <1>7, Zenon
<1> QED BY <1>8, <1>9, Zenon DEF w

\* A query of two: each is read, whatever stands in the other.
LEMMA TwoAreRead ==
    ASSUME NEW Y, "&" \in Y, NEW name, NEW value, writable(name, value, Y),
           NEW other, NEW value2, writable(other, value2, Y), other # name
    PROVE  LET query == written(name, value) \o (<<"&">> \o written(other, value2))
           IN  parameter(query, name) = value /\ parameter(query, other) = value2
<1> DEFINE d == encodeURIComponent(value)
           w == written(name, value)
           d2 == encodeURIComponent(value2)
           w2 == written(other, value2)
           query == w \o (<<"&">> \o w2)
           n == Len(d) + 3
<1>1. /\ w \in Seq(Y) /\ Len(d) \in Nat /\ Len(w) = Len(d) + 2 /\ w[1] = name /\ w[2] = "="
      /\ \A i \in 1 .. Len(d) : w[i + 2] = d[i] /\ d[i] # "&"
      /\ decodeParameter(d) = value /\ d \in Seq(Y) /\ name # "&"
  <2>1. encodeURIComponent(value) \in Seq(Y) /\ name # "&"
    BY DEF writable
  <2> QED BY <2>1, WrittenIs
<1>2. /\ w2 \in Seq(Y) /\ Len(d2) \in Nat /\ Len(w2) = Len(d2) + 2 /\ w2[1] = other /\ w2[2] = "="
      /\ \A i \in 1 .. Len(d2) : w2[i + 2] = d2[i] /\ d2[i] # "&"
      /\ decodeParameter(d2) = value2 /\ d2 \in Seq(Y) /\ other # "&"
  <2>1. encodeURIComponent(value2) \in Seq(Y) /\ other # "&"
    BY DEF writable
  <2> QED BY <2>1, WrittenIs
<1> HIDE DEF w, d, w2, d2, query, n
<1>3. /\ query \in Seq(Y) /\ Len(query) = Len(w) + 1 + Len(w2)
      /\ \A i \in 1 .. Len(w) : query[i] = w[i]
      /\ query[Len(w) + 1] = "&"
      /\ \A i \in 1 .. Len(w2) : query[Len(w) + 1 + i] = w2[i]
  <2> DEFINE r == <<"&">> \o w2
  <2>1. r \in Seq(Y) /\ Len(r) = 1 + Len(w2) /\ r[1] = "&" /\ \A i \in 1 .. Len(w2) : r[1 + i] = w2[i]
    BY <1>2
  <2> HIDE DEF r
  <2> DEFINE q == w \o r
  <2>2. /\ q \in Seq(Y) /\ Len(q) = Len(w) + Len(r) /\ (\A i \in 1 .. Len(w) : q[i] = w[i])
        /\ \A i \in 1 .. Len(r) : q[Len(w) + i] = r[i]
    <3>1. w \in Seq(Y) /\ r \in Seq(Y)
      BY <1>1, <2>1
    <3> QED BY <3>1
  <2> HIDE DEF q
  <2>3. \A i \in 1 .. Len(w2) : q[Len(w) + 1 + i] = w2[i]
    <3> SUFFICES ASSUME NEW i \in 1 .. Len(w2) PROVE q[Len(w) + 1 + i] = w2[i]
      OBVIOUS
    <3>1. 1 + i \in 1 .. Len(r) /\ Len(w) + (1 + i) = Len(w) + 1 + i
      BY <1>1, <1>2, <2>1
    <3> QED BY <2>1, <2>2, <3>1
  <2>4. 1 \in 1 .. Len(r) /\ Len(w) + Len(r) = Len(w) + 1 + Len(w2)
    BY <1>1, <1>2, <2>1
  <2>5. query = q
    BY DEF q, r, query
  <2> QED BY <2>1, <2>2, <2>3, <2>4, <2>5
<1>4. /\ Len(query) = n + Len(d2) + 2 /\ n \in Nat /\ n >= 3
      /\ query[1] = name /\ query[2] = "="
      /\ \A i \in 1 .. Len(d) : query[i + 2] = d[i] /\ d[i] # "&"
      /\ query[n] = "&" /\ query[n + 1] = other /\ query[n + 2] = "="
      /\ \A i \in 1 .. Len(d2) : query[n + 2 + i] = d2[i] /\ d2[i] # "&"
  <2>1. n = Len(d) + 3
    BY DEF n
  <2>2. Len(w) + 1 = n /\ Len(query) = n + Len(d2) + 2 /\ n \in Nat /\ n >= 3
    BY <1>1, <1>2, <1>3, <2>1
  <2>3. query[1] = name /\ query[2] = "="
    BY <1>1, <1>3
  <2>4. \A i \in 1 .. Len(d) : query[i + 2] = d[i] /\ d[i] # "&"
    BY <1>1, <1>3
  <2>5. query[n] = "&" /\ query[n + 1] = other /\ query[n + 2] = "="
    BY <1>1, <1>2, <1>3, <2>2
  <2>6. \A i \in 1 .. Len(d2) : query[n + 2 + i] = d2[i] /\ d2[i] # "&"
    <3> SUFFICES ASSUME NEW i \in 1 .. Len(d2) PROVE query[n + 2 + i] = d2[i]
      BY <1>2
    <3>1. i + 2 \in 1 .. Len(w2) /\ Len(w) + 1 + (i + 2) = n + 2 + i
      <4>1. Len(w) \in Nat /\ Len(w) + 1 = n /\ Len(d2) \in Nat /\ Len(w2) = Len(d2) + 2
        BY <1>1, <1>2, <2>2
      <4> QED BY <4>1
    <3>2. query[Len(w) + 1 + (i + 2)] = w2[i + 2]
      BY <1>3, <3>1
    <3> QED BY <1>2, <3>1, <3>2
  <2> QED BY <2>2, <2>3, <2>4, <2>5, <2>6
<1>5. n = Len(d) + 3
  BY DEF n
<1>6. ASSUME NEW i \in 1 .. Len(query), i # n PROVE query[i] # "&"
  <2>1. CASE i = 1 \/ i = 2 \/ i = n + 1 \/ i = n + 2
    <3>1. name # "&" /\ other # "&"
      BY <1>1, <1>2
    <3> QED BY <1>4, <2>1, <3>1
  <2>2. CASE i > 2 /\ i < n
    <3>1. i - 2 \in 1 .. Len(d) /\ (i - 2) + 2 = i
      BY <1>1, <1>5, <2>2
    <3> QED BY <1>4, <3>1
  <2>3. CASE i > n + 2
    <3>1. i - n - 2 \in 1 .. Len(d2) /\ n + 2 + (i - n - 2) = i
      BY <1>2, <1>4, <2>3
    <3> QED BY <1>4, <3>1
  <2>4. i = 1 \/ i = 2 \/ i = n + 1 \/ i = n + 2 \/ (i > 2 /\ i < n) \/ i > n + 2
    BY <1>4, <1>6
  <2> QED BY <2>1, <2>2, <2>3, <2>4
<1>7. \A i \in 1 .. Len(query) - 1 : \A c : i \in startsOf(query, c) <=>
          (i = 1 /\ c = name) \/ (i = n + 1 /\ c = other)
  <2> SUFFICES ASSUME NEW i \in 1 .. Len(query) - 1, NEW c
               PROVE  i \in startsOf(query, c) <=> (i = 1 /\ c = name) \/ (i = n + 1 /\ c = other)
    OBVIOUS
  <2>1. i \in startsOf(query, c) <=>
            (i = 1 \/ query[i - 1] = "&") /\ query[i] = c /\ query[i + 1] = "="
    BY DEF startsOf
  <2>2. i # 1 => (query[i - 1] = "&" <=> i = n + 1)
    <3>1. i # 1 => i - 1 \in 1 .. Len(query)
      BY <1>2, <1>4
    <3> QED BY <1>4, <1>6, <3>1
  <2> QED BY <1>4, <2>1, <2>2
<1>8. startsOf(query, name) = {1} /\ startsOf(query, other) = {n + 1}
  <2>1. \A c : startsOf(query, c) \subseteq 1 .. Len(query) - 1
    BY DEF startsOf
  <2>2. 1 \in 1 .. Len(query) - 1 /\ n + 1 \in 1 .. Len(query) - 1
    BY <1>2, <1>4
  <2> QED BY <1>7, <2>1, <2>2
<1>9. onlyParameter(query, name, 1, n - 1)
  <2>1. 1 \in 1 .. Len(query) - 1 /\ n - 1 \in 1 .. Len(query) /\ (n - 1) + 1 = n
    BY <1>2, <1>4
  <2>2. \A k \in 1 .. n - 1 : query[k] # "&"
    BY <1>2, <1>4, <1>6
  <2> QED BY <1>4, <1>8, <2>1, <2>2 DEF onlyParameter
<1>10. onlyParameter(query, other, n + 1, Len(query))
  <2>1. n + 1 \in 1 .. Len(query) - 1 /\ Len(query) \in n + 1 .. Len(query)
    BY <1>2, <1>4
  <2>2. \A k \in n + 1 .. Len(query) : query[k] # "&"
    BY <1>2, <1>4, <1>6
  <2> QED BY <1>8, <2>1, <2>2 DEF onlyParameter
<1>11. SubSeq(query, 1 + 2, n - 1) = d
  <2> DEFINE s == SubSeq(query, 1 + 2, n - 1)
  <2>1. s \in Seq(Y) /\ Len(s) = Len(d) /\ \A i \in 1 .. Len(d) : s[i] = query[i + 2]
    BY <1>1, <1>2, <1>3, <1>4, <1>5
  <2> HIDE DEF s
  <2>2. s = d
    BY <1>1, <1>4, <2>1, SeqEqual
  <2> QED BY <2>2 DEF s
<1>12. SubSeq(query, (n + 1) + 2, Len(query)) = d2
  <2> DEFINE s == SubSeq(query, (n + 1) + 2, Len(query))
  <2>1. s \in Seq(Y) /\ Len(s) = Len(d2) /\ \A i \in 1 .. Len(d2) : s[i] = query[n + 2 + i]
    <3> DEFINE from == (n + 1) + 2
    <3>1. /\ from = n + 3 /\ from \in 1 .. Len(query) + 1 /\ Len(query) \in Nat
          /\ Len(query) - from + 1 = Len(d2) /\ Len(d2) \in Nat
          /\ \A i \in 1 .. Len(d2) : from + i - 1 = n + 2 + i
      BY <1>2, <1>4
    <3> HIDE DEF from
    <3>2. /\ SubSeq(query, from, Len(query)) \in Seq(Y)
          /\ Len(SubSeq(query, from, Len(query))) = Len(d2)
          /\ \A i \in 1 .. Len(d2) : SubSeq(query, from, Len(query))[i] = query[from + i - 1]
      <4>1. query \in Seq(Y)
        BY <1>3
      <4> QED BY <3>1, <4>1
    <3> QED BY <3>1, <3>2 DEF from
  <2> HIDE DEF s
  <2>2. s = d2
    BY <1>2, <1>4, <2>1, SeqEqual
  <2> QED BY <2>2 DEF s
<1>13. parameter(query, name) = value
  <2>1. query \in Seq(Y)
    BY <1>3
  <2>2. parameter(query, name) = decodeParameter(SubSeq(query, 1 + 2, n - 1))
    BY <1>9, <2>1, ParameterIsRead
  <2> QED BY <1>1, <1>11, <2>2, Zenon
<1>14. parameter(query, other) = value2
  <2>1. query \in Seq(Y)
    BY <1>3
  <2>2. parameter(query, other) = decodeParameter(SubSeq(query, (n + 1) + 2, Len(query)))
    BY <1>10, <2>1, ParameterIsRead
  <2> QED BY <1>2, <1>12, <2>2, Zenon
<1> QED BY <1>13, <1>14, Zenon DEF query, w, w2

(***************************************************************************)
(* The server reads out of the address that a browser follows what the     *)
(* redirect put there, whatever was typed and whether each parameter is    *)
(* given or left out (routes.ts, HomeQuery in server.ts).  So WebApp loses *)
(* nothing by following a record where the program follows a text.         *)
(***************************************************************************)
THEOREM RedirectsReadBack ==
    ASSUME NEW X, NEW newCounterId \in Seq(X), NEW error
    PROVE  HomeQuery(hrefText(counterHomeHref(error, newCounterId))) = counterHomeHref(error, newCounterId)
<1> DEFINE text == hrefText(counterHomeHref(error, newCounterId))
           query == SubSeq(text, 3, Len(text))
           e == written("error", <<error>>)
           d == written("newCounterId", newCounterId)
           readError == parameter(query, "error")
           readId == parameter(query, "newCounterId")
<1>1. PICK Y : /\ encodeURIComponent(<<error>>) \in Seq(Y) /\ encodeURIComponent(newCounterId) \in Seq(Y)
               /\ "&" \in Y /\ "=" \in Y /\ "/" \in Y /\ "?" \in Y /\ "error" \in Y /\ "newCounterId" \in Y
  <2>1. <<error>> \in Seq({error})
    OBVIOUS
  <2>2. PICK Y1 : encodeURIComponent(<<error>>) \in Seq(Y1)
    BY <2>1, ParametersComeBack
  <2>3. PICK Y2 : encodeURIComponent(newCounterId) \in Seq(Y2)
    BY ParametersComeBack
  <2> DEFINE Z == Y1 \cup Y2 \cup {"&", "=", "/", "?", "error", "newCounterId"}
  <2>4. \A s : s \in Seq(Y1) \/ s \in Seq(Y2) => s \in Seq(Z)
    <3> SUFFICES ASSUME NEW s, s \in Seq(Y1) \/ s \in Seq(Y2) PROVE s \in Seq(Z)
      OBVIOUS
    <3>1. Len(s) \in Nat /\ s \in [1 .. Len(s) -> Z]
      <4>1. CASE s \in Seq(Y1)
        <5>1. Len(s) \in Nat /\ s \in [1 .. Len(s) -> Y1]
          BY <4>1
        <5> QED BY <5>1
      <4>2. CASE s \in Seq(Y2)
        <5>1. Len(s) \in Nat /\ s \in [1 .. Len(s) -> Y2]
          BY <4>2
        <5> QED BY <5>1
      <4> QED BY <4>1, <4>2
    <3> HIDE DEF Z
    <3> QED BY <3>1
  <2>5. "&" \in Z /\ "=" \in Z /\ "/" \in Z /\ "?" \in Z /\ "error" \in Z /\ "newCounterId" \in Z
    OBVIOUS
  <2> HIDE DEF Z
  <2> QED BY <2>2, <2>3, <2>4, <2>5
<1>2. <<error>> \in Seq({error}) /\ <<error>> # absent /\ Len(<<error>>) = 1 /\ <<error>>[1] = error
      /\ Len(absent) = 0
  <2>1. Len(<<error>>) = 1 /\ Len(absent) = 0
    BY DEF absent
  <2> QED BY <2>1
<1>3. /\ writable("error", <<error>>, Y) /\ writable("newCounterId", newCounterId, Y)
      /\ e \in Seq(Y) /\ d \in Seq(Y)
  <2>1. writable("error", <<error>>, Y)
    BY <1>1, <1>2 DEF writable
  <2>2. writable("newCounterId", newCounterId, Y)
    BY <1>1 DEF writable
  <2>3. e \in Seq(Y)
    BY <2>1, WrittenIs, Zenon
  <2>4. d \in Seq(Y)
    BY <2>2, WrittenIs, Zenon
  <2> QED BY <2>1, <2>2, <2>3, <2>4
<1>4. /\ (error = "none" /\ newCounterId = absent) => text = <<"/">>
      /\ (error = "none" /\ newCounterId # absent) => text = <<"/", "?">> \o d
      /\ (error # "none" /\ newCounterId = absent) => text = <<"/", "?">> \o e
      /\ (error # "none" /\ newCounterId # absent) => text = <<"/", "?">> \o (e \o (<<"&">> \o d))
  <2>1. "&" \in Y /\ written("error", <<error>>) \in Seq(Y)
        /\ written("newCounterId", newCounterId) \in Seq(Y)
    BY <1>1, <1>3
  <2> QED BY <2>1, HrefTextIsWritten, ZenonT(60)
<1>5. ASSUME NEW q \in Seq(Y), text = <<"/", "?">> \o q
      PROVE  text[1] = "/" /\ query = q
  <2>1. "/" \in Y /\ "?" \in Y
    BY <1>1
  <2>2. LET t == <<"/", "?">> \o q IN t[1] = "/" /\ SubSeq(t, 3, Len(t)) = q
    BY <2>1, HrefLeadsTo
  <2> QED BY <1>5, <2>2, Zenon
<1>6. "error" # "newCounterId" /\ "newCounterId" # "error" /\ "&" \in Y
  BY <1>1
<1>7. text[1] = "/"
      /\ readId = newCounterId
      /\ readError = IF error = "none" THEN absent ELSE <<error>>
  <2>1. CASE error = "none" /\ newCounterId = absent
    <3>1. text = <<"/">>
      BY <1>4, <2>1
    <3>2. text[1] = "/" /\ query = SubSeq(<<"/">>, 3, 1)
      BY <3>1
    <3>3. SubSeq(<<"/">>, 3, 1) = <<>>
      OBVIOUS
    <3>4. query = <<>>
      BY <3>2, <3>3, Zenon
    <3>5. \A name : parameter(<<>>, name) = absent
      <4>1. \A name : startsOf(<<>>, name) = {}
        BY DEF startsOf
      <4> QED BY <4>1, Zenon DEF parameter
    <3> QED BY <2>1, <3>2, <3>4, <3>5, Zenon
  <2>2. CASE error = "none" /\ newCounterId # absent
    <3>1. text = <<"/", "?">> \o d
      BY <1>4, <2>2
    <3>2. text[1] = "/" /\ query = d
      BY <1>3, <1>5, <3>1, Zenon
    <3>3. parameter(d, "newCounterId") = newCounterId /\ parameter(d, "error") = absent
      <4>1. writable("newCounterId", newCounterId, Y) /\ "error" # "newCounterId"
        BY <1>3, <1>6, Zenon
      <4> QED BY <4>1, OneIsRead
    <3> QED BY <2>2, <3>2, <3>3, Zenon
  <2>3. CASE error # "none" /\ newCounterId = absent
    <3>1. text = <<"/", "?">> \o e
      BY <1>4, <2>3
    <3>2. text[1] = "/" /\ query = e
      BY <1>3, <1>5, <3>1, Zenon
    <3>3. parameter(e, "error") = <<error>> /\ parameter(e, "newCounterId") = absent
      <4>1. writable("error", <<error>>, Y) /\ "newCounterId" # "error"
        BY <1>3, <1>6, Zenon
      <4> QED BY <4>1, OneIsRead
    <3> QED BY <2>3, <3>2, <3>3, Zenon
  <2>4. CASE error # "none" /\ newCounterId # absent
    <3> DEFINE both == e \o (<<"&">> \o d)
    <3>1. text = <<"/", "?">> \o both
      BY <1>4, <2>4
    <3>2. both \in Seq(Y)
      <4>1. "&" \in Y
        BY <1>1
      <4> HIDE DEF e, d
      <4> QED BY <1>3, <4>1
    <3>3. text[1] = "/" /\ query = both
      BY <1>5, <3>1, <3>2, Zenon
    <3>4. parameter(both, "error") = <<error>> /\ parameter(both, "newCounterId") = newCounterId
      <4>1. /\ writable("error", <<error>>, Y) /\ writable("newCounterId", newCounterId, Y)
            /\ "newCounterId" # "error" /\ "&" \in Y
        BY <1>3, <1>6, Zenon
      <4> QED BY <4>1, TwoAreRead
    <3> QED BY <2>4, <3>3, <3>4, Zenon
  <2> QED BY <2>1, <2>2, <2>3, <2>4
<1> HIDE DEF text, query, readError, readId
<1>8. (IF Len(readError) = 1 THEN readError[1] ELSE "none") = error
  <2>1. CASE error = "none"
    <3>1. readError = absent
      BY <1>7, <2>1
    <3> QED BY <1>2, <2>1, <3>1
  <2>2. CASE error # "none"
    <3>1. readError = <<error>>
      BY <1>7, <2>2
    <3> QED BY <1>2, <3>1
  <2> QED BY <2>1, <2>2
<1>9. HomeQuery(text) = [route |-> text[1], newCounterId |-> readId,
                         error |-> IF Len(readError) = 1 THEN readError[1] ELSE "none"]
  BY Zenon DEF HomeQuery, query, readError, readId
<1>10. HomeQuery(text) = [route |-> "/", newCounterId |-> newCounterId, error |-> error]
  BY <1>7, <1>8, <1>9, Zenon
<1>11. counterHomeHref(error, newCounterId) = [route |-> "/", error |-> error, newCounterId |-> newCounterId]
  BY DEF counterHomeHref, webRoutes
<1> QED BY <1>10, <1>11 DEF text
=============================================================================
