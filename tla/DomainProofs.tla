---------------------------- MODULE DomainProofs ----------------------------
(***************************************************************************)
(* Facts that hold whichever store the log is kept in.  Decisions,         *)
(* reducers and aggregates keep their types, one event is one version, and *)
(* any log of events at all replays to an aggregate.                       *)
(*                                                                         *)
(* The definition of replayAggregate is recursive over the length of the   *)
(* log; it has a unique solution, so an entry depends only on the records  *)
(* before it and grows by one reducer step per kept record.  Induction     *)
(* over the length is by minimal counterexample.                           *)
(***************************************************************************)
EXTENDS ReadModels, BookmarkKey, LogProofs

\* What record n of the log does to the aggregate replayed so far.
replayStep(s, rs, kept, n, before) ==
    IF n \in kept THEN replayEvent(s, before, rs[n].event) ELSE before

isReplay(f, s, rs, kept, N) ==
    f = [n \in 0 .. N |-> IF n = 0 THEN makeAggregate(s)
                          ELSE replayStep(s, rs, kept, n, f[n - 1])]

(***************************************************************************)
(* A log of any length has a replay.                                       *)
(***************************************************************************)
LEMMA ReplayExists ==
    ASSUME NEW s, NEW rs, NEW kept, NEW N \in Nat
    PROVE  \E f : isReplay(f, s, rs, kept, N)
<1> DEFINE Missing == {n \in Nat : ~ \E f : isReplay(f, s, rs, kept, n)}
<1> SUFFICES ASSUME Missing # {} PROVE FALSE
  OBVIOUS
<1>1. PICK m \in Missing : \A k \in Missing : m <= k
  BY LeastElement
<1>2. m # 0
  <2> DEFINE g == [n \in 0 .. 0 |-> makeAggregate(s)]
  <2>1. isReplay(g, s, rs, kept, 0)
    BY DEF isReplay
  <2> QED BY <2>1
<1>3. m - 1 \in Nat /\ m - 1 \notin Missing
  BY <1>1, <1>2
<1>4. PICK f : isReplay(f, s, rs, kept, m - 1)
  BY <1>3
<1> DEFINE g == [n \in 0 .. m |-> IF n = m THEN replayStep(s, rs, kept, m, f[m - 1]) ELSE f[n]]
<1>5. isReplay(g, s, rs, kept, m)
  <2>1. ASSUME NEW n \in 0 .. m
        PROVE  g[n] = IF n = 0 THEN makeAggregate(s) ELSE replayStep(s, rs, kept, n, g[n - 1])
    <3>1. CASE n = m
      <4>1. g[n] = replayStep(s, rs, kept, m, f[m - 1])
        BY <3>1
      <4>2. g[n - 1] = f[m - 1]
        BY <3>1, <1>2, <1>3
      <4> QED BY <4>1, <4>2, <3>1, <1>2
    <3>2. CASE n # m
      <4>1. n \in 0 .. (m - 1) /\ g[n] = f[n]
        BY <3>2, <1>3
      <4>2. n # 0 => n - 1 \in 0 .. m /\ n - 1 # m /\ g[n - 1] = f[n - 1]
        BY <4>1, <1>3
      <4>3. f[n] = IF n = 0 THEN makeAggregate(s) ELSE replayStep(s, rs, kept, n, f[n - 1])
        BY <1>4, <4>1 DEF isReplay
      <4> QED BY <4>1, <4>2, <4>3
    <3> QED BY <3>1, <3>2
  <2> HIDE DEF g
  <2>2. g = [n \in 0 .. m |-> g[n]]
    BY DEF g
  <2>3. g = [n \in 0 .. m |-> IF n = 0 THEN makeAggregate(s)
                               ELSE replayStep(s, rs, kept, n, g[n - 1])]
    BY <2>1, <2>2
  <2> QED BY <2>3 DEF isReplay
<1> QED BY <1>5

(***************************************************************************)
(* replayAggregate satisfies its recursive definition.                     *)
(***************************************************************************)
LEMMA ReplayIsReplay ==
    ASSUME NEW s, NEW rs, NEW kept, Len(rs) \in Nat
    PROVE  isReplay(replayAggregate(s, rs, kept), s, rs, kept, Len(rs))
<1> DEFINE F(f) == [n \in 0 .. Len(rs) |-> IF n = 0 THEN makeAggregate(s)
                       ELSE IF n \in kept THEN replayEvent(s, f[n - 1], rs[n].event)
                       ELSE f[n - 1]]
<1>1. \E f : f = F(f)
  <2>1. PICK f : isReplay(f, s, rs, kept, Len(rs))
    BY ReplayExists
  <2>2. f = F(f)
    BY <2>1 DEF isReplay, replayStep
  <2> QED BY <2>2
<1>2. replayAggregate(s, rs, kept) = CHOOSE f : f = F(f)
  BY DEF replayAggregate
<1>3. replayAggregate(s, rs, kept) = F(replayAggregate(s, rs, kept))
  BY <1>1, <1>2
<1> QED BY <1>3 DEF isReplay, replayStep

(***************************************************************************)
(* Replays of two logs that share a prefix agree on the prefix, whatever   *)
(* is stored later: an entry never changes when the log grows.             *)
(***************************************************************************)
LEMMA ReplayPrefix ==
    ASSUME NEW s, NEW rs, NEW qs, NEW kept, NEW kept2, Len(rs) \in Nat, Len(qs) \in Nat,
           NEW N \in Nat, N <= Len(rs), N <= Len(qs),
           \A n \in 1 .. N : rs[n] = qs[n] /\ (n \in kept <=> n \in kept2)
    PROVE  \A n \in 0 .. N : replayAggregate(s, rs, kept)[n] = replayAggregate(s, qs, kept2)[n]
<1> DEFINE f == replayAggregate(s, rs, kept)
           g == replayAggregate(s, qs, kept2)
           Differ == {n \in Nat : n <= N /\ f[n] # g[n]}
<1>1. isReplay(f, s, rs, kept, Len(rs)) /\ isReplay(g, s, qs, kept2, Len(qs))
  BY ReplayIsReplay
<1> HIDE DEF f, g
<1>2. ASSUME NEW n \in 0 .. N
      PROVE  /\ f[n] = IF n = 0 THEN makeAggregate(s) ELSE replayStep(s, rs, kept, n, f[n - 1])
             /\ g[n] = IF n = 0 THEN makeAggregate(s) ELSE replayStep(s, qs, kept2, n, g[n - 1])
  <2>1. n \in 0 .. Len(rs) /\ n \in 0 .. Len(qs)
    OBVIOUS
  <2>2. f[n] = IF n = 0 THEN makeAggregate(s) ELSE replayStep(s, rs, kept, n, f[n - 1])
    BY <1>1, <2>1, Zenon DEF isReplay
  <2>3. g[n] = IF n = 0 THEN makeAggregate(s) ELSE replayStep(s, qs, kept2, n, g[n - 1])
    BY <1>1, <2>1, Zenon DEF isReplay
  <2> QED BY <2>2, <2>3
<1>3. ASSUME Differ # {} PROVE FALSE
  <2>1. PICK m \in Differ : \A k \in Differ : m <= k
    BY <1>3, LeastElement
  <2>2. m # 0
    BY <2>1, <1>2
  <2>3. m - 1 \in Nat /\ m \in 1 .. N /\ m \in 0 .. N /\ f[m - 1] = g[m - 1]
    BY <2>1, <2>2
  <2>4. replayStep(s, rs, kept, m, f[m - 1]) = replayStep(s, qs, kept2, m, g[m - 1])
    BY <2>3 DEF replayStep
  <2>5. f[m] = g[m]
    BY <2>2, <2>3, <2>4, <1>2
  <2> QED BY <2>5
<1>4. \A n \in 0 .. N : f[n] = g[n]
  BY <1>3
<1> QED BY <1>4 DEF f, g

(***************************************************************************)
(* One more record of the log is one more reducer step.                    *)
(***************************************************************************)
LEMMA ReplayNext ==
    ASSUME NEW s, NEW rs, NEW kept, Len(rs) \in Nat, NEW n \in 1 .. Len(rs)
    PROVE  /\ replayAggregate(s, rs, kept)[0] = makeAggregate(s)
           /\ replayAggregate(s, rs, kept)[n] =
                 replayStep(s, rs, kept, n, replayAggregate(s, rs, kept)[n - 1])
<1> DEFINE f == replayAggregate(s, rs, kept)
<1>1. isReplay(f, s, rs, kept, Len(rs))
  BY ReplayIsReplay
<1> HIDE DEF f
<1>2. /\ f[0] = makeAggregate(s)
      /\ f[n] = replayStep(s, rs, kept, n, f[n - 1])
  BY <1>1 DEF isReplay
<1> QED BY <1>2 DEF f

-----------------------------------------------------------------------------
(***************************************************************************)
(* A log grown by one record.                                              *)
(***************************************************************************)

\* The record belongs to the history of aggregate "id" of slice "s".
inHistory(s, r, id) ==
    r.eventStoreSequenceNumber >= 1 /\ r.aggregateId = id /\ belongsToSlice(s, r.event)

\* A later record leaves the fetched positions of a stream as they are.
LEMMA FetchAppend ==
    ASSUME NEW T, NEW rs \in Seq(T), NEW r \in T, NEW s, NEW id
    PROVE  /\ \A n \in 1 .. Len(rs) : n \in fetch(s, Append(rs, r), id) <=> n \in fetch(s, rs, id)
           /\ Len(rs) + 1 \in fetch(s, Append(rs, r), id) <=> inHistory(s, r, id)
<1>1. /\ Len(rs) \in Nat
      /\ Len(Append(rs, r)) = Len(rs) + 1
      /\ DOMAIN rs = 1 .. Len(rs)
      /\ DOMAIN Append(rs, r) = 1 .. (Len(rs) + 1)
      /\ \A n \in 1 .. Len(rs) : Append(rs, r)[n] = rs[n]
      /\ Append(rs, r)[Len(rs) + 1] = r
  BY AppendProperties, LenProperties
<1>2. ASSUME NEW n \in 1 .. Len(rs)
      PROVE  n \in fetch(s, Append(rs, r), id) <=> n \in fetch(s, rs, id)
  BY <1>1 DEF fetch, recordsForAggregate, recordsFromSequenceNumber
<1>3. Len(rs) + 1 \in fetch(s, Append(rs, r), id) <=> inHistory(s, r, id)
  BY <1>1 DEF fetch, recordsForAggregate, recordsFromSequenceNumber, firstSequenceNumber, inHistory
<1> QED BY <1>2, <1>3

(***************************************************************************)
(* A stored event never changes the history before it, and the loaded      *)
(* aggregate takes one step exactly when the event is one of its own.      *)
(***************************************************************************)
LEMMA HistoryAppend ==
    ASSUME NEW T, NEW rs \in Seq(T), NEW r \in T, NEW s, NEW id
    PROVE  /\ \A n \in 0 .. Len(rs) : history(s, Append(rs, r), id)[n] = history(s, rs, id)[n]
           /\ load(s, Append(rs, r), id) =
                 IF inHistory(s, r, id) THEN replayEvent(s, load(s, rs, id), r.event)
                 ELSE load(s, rs, id)
<1> DEFINE qs == Append(rs, r)
           N == Len(rs)
           K == fetch(s, rs, id)
           L == fetch(s, qs, id)
<1>1. /\ N \in Nat /\ Len(qs) = N + 1
      /\ \A n \in 1 .. N : qs[n] = rs[n]
      /\ qs[N + 1] = r
  BY AppendProperties, LenProperties
<1>2. /\ \A n \in 1 .. N : n \in L <=> n \in K
      /\ N + 1 \in L <=> inHistory(s, r, id)
  BY FetchAppend
<1> HIDE DEF qs, N, K, L
<1>3. \A n \in 0 .. N : replayAggregate(s, qs, L)[n] = replayAggregate(s, rs, K)[n]
  <2>1. Len(rs) = N
    BY DEF N
  <2> QED BY <1>1, <1>2, <2>1, ReplayPrefix
<1>4. replayAggregate(s, qs, L)[N + 1] =
         replayStep(s, qs, L, N + 1, replayAggregate(s, qs, L)[N])
  <2>1. N + 1 \in 1 .. Len(qs) /\ Len(qs) \in Nat /\ (N + 1) - 1 = N
    BY <1>1
  <2>2. replayAggregate(s, qs, L)[N + 1] =
           replayStep(s, qs, L, N + 1, replayAggregate(s, qs, L)[(N + 1) - 1])
    BY <2>1, ReplayNext
  <2> QED BY <2>1, <2>2
<1>5. replayAggregate(s, qs, L)[N] = replayAggregate(s, rs, K)[N]
  BY <1>1, <1>3
<1>6. replayAggregate(s, qs, L)[N + 1] =
         IF inHistory(s, r, id) THEN replayEvent(s, replayAggregate(s, rs, K)[N], r.event)
         ELSE replayAggregate(s, rs, K)[N]
  BY <1>1, <1>2, <1>4, <1>5 DEF replayStep
<1>7. load(s, qs, id) = replayAggregate(s, qs, L)[N + 1]
  BY <1>1 DEF load, history, L
<1>8. load(s, rs, id) = replayAggregate(s, rs, K)[N]
  BY DEF load, history, K, N
<1>9. load(s, qs, id) = IF inHistory(s, r, id) THEN replayEvent(s, load(s, rs, id), r.event)
                        ELSE load(s, rs, id)
  BY <1>6, <1>7, <1>8
<1> QED BY <1>3, <1>9 DEF history, K, L, N, qs

-----------------------------------------------------------------------------
(***************************************************************************)
(* The domain rules keep their types.                                      *)
(***************************************************************************)

\* toCounterValue brings any integer into the range of a counter.
LEMMA ClampType ==
    ASSUME NEW n \in Int
    PROVE  toCounterValue(n) \in minimumCounterValue .. MaxValue
BY MaxValueAssumption DEF toCounterValue, minimumCounterValue

\* applyCounterEvent keeps a counter a counter, whatever the event.
LEMMA CounterReducerType ==
    ASSUME NEW st \in CounterState(CounterIds), NEW e \in CounterEvent(CounterIds)
    PROVE  applyCounterEvent(st, e) \in CounterState(CounterIds)
<1>1. \A x \in CounterIds, n \in Int : activeCounter(x, n) \in CounterState(CounterIds)
  BY ClampType DEF activeCounter, CounterState
<1>2. CASE st = initialCounterState
  <2>1. st.tag = "CounterNotCreated" /\ e.counterId \in CounterIds
    BY <1>2 DEF initialCounterState, CounterEvent
  <2>2. CASE e.tag = "CounterCreated"
    BY <1>1, <2>1, <2>2 DEF applyCounterEvent
  <2>3. CASE e.tag # "CounterCreated"
    <3>1. applyCounterEvent(st, e) = st
      BY <2>1, <2>3 DEF applyCounterEvent
    <3> QED BY <3>1
  <2> QED BY <2>2, <2>3
<1>3. CASE st # initialCounterState
  <2>1. st \in [tag : {"ActiveCounter", "DisabledCounter"}, counterId : CounterIds,
                value : minimumCounterValue .. MaxValue]
    BY <1>3 DEF CounterState
  <2>2. st.counterId \in CounterIds /\ st.value + 1 \in Int /\ st.value - 1 \in Int
    BY <2>1, MaxValueAssumption DEF minimumCounterValue
  <2>3. [st EXCEPT !.tag = "DisabledCounter"] \in CounterState(CounterIds)
    BY <2>1 DEF CounterState
  <2>4. st.tag # "CounterNotCreated"
    BY <2>1
  <2>5. applyCounterEvent(st, e) \in {activeCounter(st.counterId, st.value + 1),
                                      activeCounter(st.counterId, st.value - 1),
                                      [st EXCEPT !.tag = "DisabledCounter"], st}
    BY <2>4 DEF applyCounterEvent
  <2>6. /\ activeCounter(st.counterId, st.value + 1) \in CounterState(CounterIds)
        /\ activeCounter(st.counterId, st.value - 1) \in CounterState(CounterIds)
    BY <1>1, <2>2
  <2> QED BY <2>3, <2>5, <2>6
<1> QED BY <1>2, <1>3

\* applyUserEvent keeps a user a user, whatever the event.
LEMMA UserReducerType ==
    ASSUME NEW st \in UserState(UserIds, ArticleIds), NEW e \in UserEvent(UserIds, ArticleIds)
    PROVE  applyUserEvent(st, e) \in UserState(UserIds, ArticleIds)
<1>1. bookmarkedArticleIds(st) \in SUBSET ArticleIds
  BY DEF UserState, initialUserState, bookmarkedArticleIds
<1>2. e.userId \in UserIds /\ e.articleId \in ArticleIds
  BY DEF UserEvent
<1> QED BY <1>1, <1>2 DEF applyUserEvent, UserState

\* Each slice's reducer keeps the slice's type on the slice's own events.
LEMMA ReducerType ==
    ASSUME NEW s \in Slices, NEW st \in AggregateState(s), NEW e \in DomainEvent,
           belongsToSlice(s, e)
    PROVE  reducer(s, st, e) \in AggregateState(s)
<1>1. CASE s = "counter"
  <2>1. e \in CounterEvent(CounterIds)
    BY <1>1 DEF DomainEvent, UserEvent, belongsToSlice, CounterEventTags, UserEventTags
  <2> QED BY <1>1, <2>1, CounterReducerType DEF AggregateState, reducer
<1>2. CASE s = "user"
  <2>1. e \in UserEvent(UserIds, ArticleIds)
    BY <1>2 DEF DomainEvent, CounterEvent, belongsToSlice, CounterEventTags, UserEventTags
  <2> QED BY <1>2, <2>1, UserReducerType DEF AggregateState, reducer
<1> QED BY <1>1, <1>2 DEF Slices

(***************************************************************************)
(* An accepted decision records an event of the command's own slice.       *)
(***************************************************************************)
LEMMA DecisionType ==
    ASSUME NEW c \in Command, NEW st, ~ isFailure(decide(c, st))
    PROVE  /\ decide(c, st) = accept(decide(c, st).event)
           /\ decide(c, st).event \in DomainEvent
           /\ \A s \in Slices : belongsToSlice(s, decide(c, st).event) <=> s = sliceOf(c)
<1> DEFINE d == decide(c, st)
<1>1. CASE c \in CounterCommand
  <2>1. c.tag \in CounterCommandTags /\ c.id \in CounterIds /\ sliceOf(c) = "counter"
    BY <1>1 DEF CounterCommand, sliceOf
  <2>2. d = decideCounter(c, st)
    BY <2>1 DEF decide
  <2>3. \E t \in CounterEventTags : d = accept(counterEvent(t, c.id))
    <3>1. ~ isFailure(decideCounter(c, st))
      BY <2>2
    <3>2. CASE c.tag = "CreateCounter"
      BY <3>1, <3>2, <2>2 DEF decideCounter, createCounter, isFailure, reject, CounterEventTags
    <3>3. CASE c.tag = "IncrementCounter"
      BY <3>1, <3>3, <2>2 DEF decideCounter, incrementCounter, isFailure, reject, CounterEventTags
    <3>4. CASE c.tag = "DecrementCounter"
      BY <3>1, <3>4, <2>2 DEF decideCounter, decrementCounter, isFailure, reject, CounterEventTags
    <3>5. CASE c.tag = "DisableCounter"
      BY <3>1, <3>5, <2>2 DEF decideCounter, disableCounter, isFailure, reject, CounterEventTags
    <3> QED BY <3>2, <3>3, <3>4, <3>5, <2>1 DEF CounterCommandTags
  <2>4. PICK t \in CounterEventTags : d = accept(counterEvent(t, c.id))
    BY <2>3
  <2>5. d.event = [tag |-> t, counterId |-> c.id]
    BY <2>4 DEF accept, counterEvent
  <2>6. d = accept(d.event)
    BY <2>4 DEF accept
  <2>7. d.event \in DomainEvent
    BY <2>1, <2>5 DEF DomainEvent, CounterEvent
  <2>8. \A s \in Slices : belongsToSlice(s, d.event) <=> s = sliceOf(c)
    BY <2>1, <2>5 DEF belongsToSlice, Slices, CounterEventTags, UserEventTags
  <2> QED BY <2>6, <2>7, <2>8
<1>2. CASE c \in UserCommand
  <2>1. c.id \in UserIds /\ c.articleId \in ArticleIds /\ sliceOf(c) = "user"
    BY <1>2 DEF UserCommand, UserCommandTags, CounterCommandTags, sliceOf
  <2>2. d = toggleArticleBookmark(c, st)
    BY <2>1 DEF decide
  <2>3. \E t \in UserEventTags :
           d = accept([tag |-> t, userId |-> c.id, articleId |-> c.articleId])
    BY <2>2 DEF toggleArticleBookmark, UserEventTags
  <2>4. PICK t \in UserEventTags :
           d = accept([tag |-> t, userId |-> c.id, articleId |-> c.articleId])
    BY <2>3
  <2>5. d.event = [tag |-> t, userId |-> c.id, articleId |-> c.articleId]
    BY <2>4 DEF accept
  <2>6. d = accept(d.event)
    BY <2>4 DEF accept
  <2>7. d.event \in DomainEvent
    BY <2>1, <2>5 DEF DomainEvent, UserEvent
  <2>8. \A s \in Slices : belongsToSlice(s, d.event) <=> s = sliceOf(c)
    BY <2>1, <2>5 DEF belongsToSlice, Slices, CounterEventTags, UserEventTags
  <2> QED BY <2>6, <2>7, <2>8
<1> QED BY <1>1, <1>2 DEF Command

-----------------------------------------------------------------------------
(***************************************************************************)
(* Replaying one event of the slice moves an aggregate one version on.     *)
(***************************************************************************)
LEMMA ReplayEventType ==
    ASSUME NEW s \in Slices, NEW a \in Replayed(s), NEW e \in DomainEvent, belongsToSlice(s, e)
    PROVE  /\ replayEvent(s, a, e) \in Replayed(s)
           /\ replayEvent(s, a, e).version = a.version + 1
<1>1. reducer(s, a.state, e) \in AggregateState(s)
  BY ReducerType DEF Replayed
<1> DEFINE next == reducer(s, a.state, e)
<1>2. replayEvent(s, a, e) = [a EXCEPT !.state = next, !.version = a.version + 1]
  BY DEF replayEvent
<1> HIDE DEF next
<1>3. replayEvent(s, a, e) = [state |-> next, version |-> a.version + 1, pendingEvents |-> <<>>]
  BY <1>2 DEF Replayed
<1>4. a.version + 1 \in Nat /\ next \in AggregateState(s)
  BY <1>1 DEF Replayed, next
<1> QED BY <1>3, <1>4 DEF Replayed

(***************************************************************************)
(* What recording the event of an accepted decision does to an aggregate.  *)
(***************************************************************************)
LEMMA RecordEventType ==
    ASSUME NEW c \in Command, NEW a \in Replayed(sliceOf(c)), ~ isFailure(decide(c, a.state))
    PROVE  LET e == decide(c, a.state).event
               b == recordEvent(sliceOf(c), a, e)
           IN  /\ b \in Pending(sliceOf(c))
               /\ b.pendingEvents = <<e>>
               /\ expectedVersion(b) = a.version
<1> DEFINE s == sliceOf(c)
           e == decide(c, a.state).event
           b == recordEvent(s, a, e)
           next == reducer(s, a.state, e)
<1>1. s \in Slices
  BY DEF sliceOf, Slices
<1>2. e \in DomainEvent /\ belongsToSlice(s, e)
  BY <1>1, DecisionType
<1>3. a.state \in AggregateState(s) /\ a.version \in Nat /\ a.pendingEvents = <<>>
  BY DEF Replayed
<1>4. next \in AggregateState(s)
  BY <1>1, <1>2, <1>3, ReducerType
<1>5. b = [a EXCEPT !.state = next, !.version = a.version + 1,
                    !.pendingEvents = Append(a.pendingEvents, e)]
  BY DEF recordEvent
<1> HIDE DEF next, b, e
<1>6. b = [state |-> next, version |-> a.version + 1, pendingEvents |-> <<e>>]
  <2>1. a = [state |-> a.state, version |-> a.version, pendingEvents |-> a.pendingEvents]
    BY DEF Replayed
  <2>2. Append(a.pendingEvents, e) = <<e>>
    BY <1>3
  <2>3. b = [a EXCEPT !.state = next, !.version = a.version + 1, !.pendingEvents = <<e>>]
    BY <1>5, <2>2
  <2> QED BY <2>1, <2>3, Zenon
<1>7. b \in Pending(s)
  BY <1>2, <1>3, <1>4, <1>6 DEF Pending
<1>8. expectedVersion(b) = a.version
  <2>1. b.version = a.version + 1 /\ Len(b.pendingEvents) = 1
    BY <1>6
  <2> QED BY <1>3, <2>1 DEF expectedVersion
<1> QED BY <1>6, <1>7, <1>8 DEF b, e

-----------------------------------------------------------------------------
Logs == Seq(StoredEvent(Ids, DomainEvent))

(***************************************************************************)
(* Any log of events replays to aggregates, those no decision ever wrote   *)
(* included: that is what the reducers' clamp and their last case are for. *)
(***************************************************************************)
LEMMA AnyHistoryType ==
    ASSUME NEW s \in Slices, NEW rs \in Logs, NEW x
    PROVE  \A n \in 0 .. Len(rs) : history(s, rs, x)[n] \in Replayed(s)
<1> DEFINE K == fetch(s, rs, x)
           f == replayAggregate(s, rs, K)
           N == Len(rs)
           Odd == {n \in Nat : n <= N /\ f[n] \notin Replayed(s)}
<1> HIDE DEF K, f
<1>1. N \in Nat /\ \A n \in 1 .. N : rs[n].event \in DomainEvent
  <2>1. N \in Nat /\ \A n \in 1 .. N : rs[n] \in StoredEvent(Ids, DomainEvent)
    BY DEF Logs
  <2>2. \A r \in StoredEvent(Ids, DomainEvent) : r.event \in DomainEvent
    BY DEF StoredEvent
  <2> QED BY <2>1, <2>2
<1> USE DEF K, f
<1>2. \A n \in K : belongsToSlice(s, rs[n].event)
  BY DEF fetch
<1>3. f[0] \in Replayed(s)
  <2>1. f[0] = makeAggregate(s)
    <3>1. isReplay(f, s, rs, K, N)
      BY <1>1, ReplayIsReplay
    <3>2. 0 \in 0 .. N
      BY <1>1
    <3> HIDE DEF f, K, N
    <3> QED BY <3>1, <3>2 DEF isReplay
  <2>2. initialState(s) \in AggregateState(s)
    BY DEF Slices, initialState, AggregateState, CounterState, UserState
  <2> QED BY <2>1, <2>2 DEF makeAggregate, Replayed
<1>4. ASSUME NEW n \in 1 .. N PROVE f[n] = replayStep(s, rs, K, n, f[n - 1])
  BY <1>1, ReplayNext
<1> HIDE DEF f, K, N
<1>5. ASSUME Odd # {} PROVE FALSE
  <2>1. PICK m \in Odd : \A k \in Odd : m <= k
    BY <1>5, LeastElement
  <2>2. m \in 1 .. N /\ m - 1 \in Nat /\ f[m - 1] \in Replayed(s)
    BY <1>1, <1>3, <2>1
  <2>3. f[m] = replayStep(s, rs, K, m, f[m - 1])
    BY <1>4, <2>2
  <2>4. m \in K => replayEvent(s, f[m - 1], rs[m].event) \in Replayed(s)
    BY <1>1, <1>2, <2>2, ReplayEventType
  <2>5. f[m] \in Replayed(s)
    BY <2>2, <2>3, <2>4 DEF replayStep
  <2> QED BY <2>1, <2>5
<1>6. \A n \in 0 .. N : f[n] \in Replayed(s)
  BY <1>5
<1> QED BY <1>6 DEF history, f, K, N

\* What the repository loads from any log is an aggregate of the slice.
LEMMA AnyLoadType ==
    ASSUME NEW s \in Slices, NEW rs \in Logs, NEW x
    PROVE  load(s, rs, x) \in Replayed(s)
<1>1. Len(rs) \in 0 .. Len(rs)
  BY LenProperties DEF Logs
<1> QED BY <1>1, AnyHistoryType DEF load

-----------------------------------------------------------------------------
(***************************************************************************)
(* The invariants of the log, as predicates of any log.                    *)
(***************************************************************************)

numberedLog(rs) == \A i \in DOMAIN rs : rs[i].eventStoreSequenceNumber = i

growsAt(rs, s, x) ==
    /\ load(s, rs, x) \in Replayed(s)
    /\ load(s, rs, x).version <= aggregateVersionInRecords(rs, x)
    /\ \A n \in 0 .. Len(rs) :
          /\ history(s, rs, x)[n] \in Replayed(s)
          /\ history(s, rs, x)[n].version <= load(s, rs, x).version
          /\ history(s, rs, x)[n].version = load(s, rs, x).version =>
                history(s, rs, x)[n] = load(s, rs, x)

growingLog(rs) == \A s \in Slices, x \in Ids : growsAt(rs, s, x)

legalAt(rs, i) ==
    \E c \in Command :
        /\ c.id = rs[i].aggregateId
        /\ decide(c, history(sliceOf(c), rs, c.id)[i - 1].state) = accept(rs[i].event)

legalLog(rs) == \A i \in DOMAIN rs : legalAt(rs, i)

(***************************************************************************)
(* Appending one event keeps the history of every aggregate growing.       *)
(***************************************************************************)
LEMMA GrowingAppend ==
    ASSUME NEW rs \in Logs, NEW r \in StoredEvent(Ids, DomainEvent), growingLog(rs)
    PROVE  growingLog(Append(rs, r))
<1> DEFINE qs == Append(rs, r)
           N == Len(rs)
<1>1. N \in Nat /\ Len(qs) = N + 1
  BY AppendProperties, LenProperties DEF Logs
<1> SUFFICES ASSUME NEW s \in Slices, NEW x \in Ids PROVE growsAt(qs, s, x)
  BY DEF growingLog
<1> DEFINE V == aggregateVersionInRecords(rs, x)
           W == aggregateVersionInRecords(qs, x)
           H == history(s, rs, x)
           G == history(s, qs, x)
           L == load(s, rs, x)
           M == load(s, qs, x)
<1>2. growsAt(rs, s, x)
  BY DEF growingLog
<1>3. V \in Nat /\ W = V + (IF r.aggregateId = x THEN 1 ELSE 0)
  BY VersionType, VersionAppend DEF Logs
<1>4. /\ \A n \in 0 .. N : G[n] = H[n]
      /\ M = IF inHistory(s, r, x) THEN replayEvent(s, L, r.event) ELSE L
  BY HistoryAppend DEF Logs
<1>5. G[N + 1] = M
  BY <1>1 DEF load
<1>6. /\ L \in Replayed(s) /\ L.version \in Nat /\ L.version <= V
      /\ \A n \in 0 .. N : /\ H[n] \in Replayed(s)
                           /\ H[n].version \in Nat
                           /\ H[n].version <= L.version
                           /\ H[n].version = L.version => H[n] = L
  BY <1>2 DEF growsAt, Replayed
<1> HIDE DEF qs, N, V, W, H, G, L, M
<1>7. /\ M \in Replayed(s) /\ M.version \in Nat /\ M.version <= W
      /\ M.version = L.version => M = L
      /\ L.version <= M.version
  <2>1. CASE inHistory(s, r, x)
    <3>1. r.event \in DomainEvent /\ belongsToSlice(s, r.event) /\ r.aggregateId = x
      BY <2>1 DEF inHistory, StoredEvent
    <3>2. M \in Replayed(s) /\ M.version = L.version + 1
      BY <1>4, <1>6, <2>1, <3>1, ReplayEventType
    <3> QED BY <1>3, <1>6, <3>1, <3>2
  <2>2. CASE ~ inHistory(s, r, x)
    BY <1>3, <1>4, <1>6, <2>2
  <2> QED BY <2>1, <2>2
<1>8. ASSUME NEW n \in 0 .. (N + 1)
      PROVE  /\ G[n] \in Replayed(s)
             /\ G[n].version <= M.version
             /\ G[n].version = M.version => G[n] = M
  <2>1. CASE n = N + 1
    BY <1>5, <1>7, <2>1
  <2>2. CASE n # N + 1
    <3>1. n \in 0 .. N
      BY <1>1, <2>2
    <3>2. G[n] = H[n]
      BY <1>4, <3>1
    <3>3. H[n] \in Replayed(s) /\ H[n].version \in Nat /\ H[n].version <= L.version
      BY <1>6, <3>1
    <3>4. H[n].version = M.version => H[n] = L /\ M = L
      BY <1>6, <1>7, <3>1, <3>3
    <3>5. H[n].version <= M.version
      BY <1>6, <1>7, <3>3
    <3> QED BY <3>2, <3>3, <3>4, <3>5
  <2> QED BY <2>1, <2>2
<1>9. /\ M \in Replayed(s)
      /\ M.version <= W
      /\ \A n \in 0 .. Len(qs) : /\ G[n] \in Replayed(s)
                                 /\ G[n].version <= M.version
                                 /\ G[n].version = M.version => G[n] = M
  BY <1>1, <1>7, <1>8
<1> QED BY <1>9 DEF growsAt, qs, W, G, M

(***************************************************************************)
(* A log stays legal when the event appended is one that the decision      *)
(* accepts on the aggregate as it is loaded now.                           *)
(***************************************************************************)
LEMMA LegalAppend ==
    ASSUME NEW rs \in Logs, NEW r \in StoredEvent(Ids, DomainEvent), legalLog(rs),
           NEW c \in Command, c.id = r.aggregateId,
           decide(c, load(sliceOf(c), rs, c.id).state) = accept(r.event)
    PROVE  legalLog(Append(rs, r))
<1> DEFINE qs == Append(rs, r)
           N == Len(rs)
<1>1. /\ N \in Nat
      /\ DOMAIN rs = 1 .. N
      /\ DOMAIN qs = 1 .. (N + 1)
      /\ \A n \in 1 .. N : qs[n] = rs[n]
      /\ qs[N + 1] = r
  BY AppendProperties, LenProperties DEF Logs
<1>2. \A s, x : \A n \in 0 .. N : history(s, qs, x)[n] = history(s, rs, x)[n]
  BY HistoryAppend DEF Logs
<1> HIDE DEF qs
<1>3. ASSUME NEW i \in 1 .. N PROVE legalAt(qs, i)
  <2>1. legalAt(rs, i)
    BY <1>1 DEF legalLog
  <2>2. PICK d \in Command :
           /\ d.id = rs[i].aggregateId
           /\ decide(d, history(sliceOf(d), rs, d.id)[i - 1].state) = accept(rs[i].event)
    BY <2>1 DEF legalAt
  <2>3. i - 1 \in 0 .. N /\ qs[i] = rs[i]
    BY <1>1
  <2>4. history(sliceOf(d), qs, d.id)[i - 1] = history(sliceOf(d), rs, d.id)[i - 1]
    BY <1>2, <2>3
  <2> QED BY <2>2, <2>3, <2>4 DEF legalAt
<1>4. legalAt(qs, N + 1)
  <2>1. N \in 0 .. N /\ (N + 1) - 1 = N
    BY <1>1
  <2>2. history(sliceOf(c), qs, c.id)[N] = load(sliceOf(c), rs, c.id)
    BY <1>2, <2>1 DEF load
  <2> QED BY <1>1, <2>1, <2>2 DEF legalAt
<1>5. \A i \in DOMAIN qs : legalAt(qs, i)
  BY <1>1, <1>3, <1>4
<1> QED BY <1>5 DEF legalLog, qs

-----------------------------------------------------------------------------
\* Replaying an empty log gives a new aggregate.
LEMMA EmptyLoad ==
    ASSUME NEW s, NEW x
    PROVE  /\ history(s, <<>>, x)[0] = makeAggregate(s)
           /\ load(s, <<>>, x) = makeAggregate(s)
<1>1. isReplay(history(s, <<>>, x), s, <<>>, fetch(s, <<>>, x), 0)
  BY ReplayIsReplay DEF history
<1>2. 0 \in 0 .. 0 /\ Len(<<>>) = 0
  OBVIOUS
<1>3. history(s, <<>>, x)[0] = makeAggregate(s)
  BY <1>1, <1>2, Zenon DEF isReplay
<1> QED BY <1>2, <1>3 DEF load

(***************************************************************************)
(* The empty log is numbered, grows and is legal.                          *)
(***************************************************************************)
LEMMA EmptyLog ==
    /\ <<>> \in Logs /\ numberedLog(<<>>) /\ legalLog(<<>>) /\ growingLog(<<>>)
<1>1. <<>> \in Logs /\ Len(<<>>) = 0 /\ DOMAIN <<>> = {}
  BY DEF Logs
<1>2. numberedLog(<<>>) /\ legalLog(<<>>)
  BY <1>1 DEF numberedLog, legalLog
<1>3. ASSUME NEW s \in Slices, NEW x \in Ids PROVE growsAt(<<>>, s, x)
  <2>1. aggregateVersionInRecords(<<>>, x) \in Nat
    BY <1>1, VersionType DEF Logs
  <2>2. history(s, <<>>, x)[0] = makeAggregate(s)
    BY EmptyLoad
  <2>3. makeAggregate(s) \in Replayed(s) /\ makeAggregate(s).version = 0
    BY DEF makeAggregate, Replayed, initialState, AggregateState, CounterState, UserState
  <2>4. load(s, <<>>, x) = makeAggregate(s)
    BY EmptyLoad
  <2>5. \A n \in 0 .. Len(<<>>) : n = 0
    BY <1>1
  <2> QED BY <2>1, <2>2, <2>3, <2>4, <2>5 DEF growsAt
<1> QED BY <1>1, <1>2, <1>3 DEF growingLog

-----------------------------------------------------------------------------
(***************************************************************************)
(* ListArticles folds the events of all users into one map; the repository *)
(* replays each user's own.                                                *)
(***************************************************************************)

\* What record n of the log does to the bookmarks projected so far.
bookmarkStep(rs, n, before) ==
    IF n \in fetchAll("user", rs) THEN applyBookmarkEvent(before, rs[n].event) ELSE before

isProjected(f, rs, N) ==
    f = [n \in 0 .. N |-> IF n = 0 THEN initialBookmarkProjectionState
                          ELSE bookmarkStep(rs, n, f[n - 1])]

\* A log of any length has a projection.
LEMMA ProjectionExists ==
    ASSUME NEW rs, NEW N \in Nat
    PROVE  \E f : isProjected(f, rs, N)
<1> DEFINE Done == {n \in 0 .. N : \E f : isProjected(f, rs, n)}
<1>1. 0 \in Done
  <2>1. isProjected([n \in 0 .. 0 |-> initialBookmarkProjectionState], rs, 0)
    BY DEF isProjected
  <2> QED BY <2>1
<1>2. ASSUME NEW m \in 1 .. N, m - 1 \in Done PROVE m \in Done
  <2>1. PICK f : isProjected(f, rs, m - 1)
    BY <1>2
  <2> DEFINE g == [n \in 0 .. m |-> IF n = m THEN bookmarkStep(rs, m, f[m - 1]) ELSE f[n]]
  <2>2. ASSUME NEW n \in 0 .. m
        PROVE  g[n] = IF n = 0 THEN initialBookmarkProjectionState
                      ELSE bookmarkStep(rs, n, g[n - 1])
    <3>1. CASE n = m
      <4>1. g[n] = bookmarkStep(rs, m, f[m - 1]) /\ g[n - 1] = f[m - 1]
        BY <3>1
      <4> QED BY <3>1, <4>1
    <3>2. CASE n # m
      <4>1. n \in 0 .. (m - 1) /\ g[n] = f[n]
        BY <3>2
      <4>2. n # 0 => n - 1 \in 0 .. m /\ n - 1 # m /\ g[n - 1] = f[n - 1]
        BY <4>1
      <4>3. f[n] = IF n = 0 THEN initialBookmarkProjectionState
                   ELSE bookmarkStep(rs, n, f[n - 1])
        BY <2>1, <4>1 DEF isProjected
      <4> QED BY <4>1, <4>2, <4>3
    <3> QED BY <3>1, <3>2
  <2>3. g = [n \in 0 .. m |-> g[n]]
    OBVIOUS
  <2> HIDE DEF g
  <2>4. isProjected(g, rs, m)
    BY <2>2, <2>3 DEF isProjected
  <2> QED BY <2>4
<1> HIDE DEF Done
<1>3. \A n \in 0 .. N : n \in Done
  BY <1>1, <1>2, UpTo, Zenon
<1> QED BY <1>3 DEF Done

\* bookmarkProjection satisfies its recursive definition.
LEMMA ProjectionNext ==
    ASSUME NEW rs, Len(rs) \in Nat
    PROVE  /\ bookmarkProjection(rs)[0] = initialBookmarkProjectionState
           /\ \A n \in 1 .. Len(rs) : bookmarkProjection(rs)[n] =
                 bookmarkStep(rs, n, bookmarkProjection(rs)[n - 1])
<1> DEFINE F(f) == [n \in 0 .. Len(rs) |->
                       IF n = 0 THEN initialBookmarkProjectionState
                       ELSE IF n \in fetchAll("user", rs)
                            THEN applyBookmarkEvent(f[n - 1], rs[n].event)
                       ELSE f[n - 1]]
           p == bookmarkProjection(rs)
<1>1. PICK f : f = F(f)
  <2>1. PICK f : isProjected(f, rs, Len(rs))
    BY ProjectionExists
  <2> QED BY <2>1 DEF isProjected, bookmarkStep
<1>2. p = CHOOSE g : g = F(g)
  BY DEF bookmarkProjection
<1>3. p = F(p)
  BY <1>1, <1>2
<1> HIDE DEF p
<1>4. isProjected(p, rs, Len(rs))
  BY <1>3 DEF isProjected, bookmarkStep
<1>5. ASSUME NEW n \in 0 .. Len(rs)
      PROVE  p[n] = IF n = 0 THEN initialBookmarkProjectionState ELSE bookmarkStep(rs, n, p[n - 1])
  BY <1>4, Zenon DEF isProjected
<1> QED BY <1>5 DEF p

Bookmarks == [UserIds \X ArticleIds -> BOOLEAN]

\* An event sets its own bookmark and no other.
LEMMA BookmarkEvent ==
    ASSUME NEW bookmarks \in Bookmarks, NEW event \in UserEvent(UserIds, ArticleIds),
           NEW key \in UserIds \X ArticleIds
    PROVE  /\ applyBookmarkEvent(bookmarks, event) \in Bookmarks
           /\ key = <<event.userId, event.articleId>> =>
                 (applyBookmarkEvent(bookmarks, event)[key] <=> event.tag = "ArticleBookmarked")
           /\ key # <<event.userId, event.articleId>> =>
                 (applyBookmarkEvent(bookmarks, event)[key] <=> bookmarks[key])
<1> DEFINE own == <<event.userId, event.articleId>>
           set == (event.tag = "ArticleBookmarked")
<1>1. own \in UserIds \X ArticleIds /\ set \in BOOLEAN
  BY DEF UserEvent
<1>2. applyBookmarkEvent(bookmarks, event) = [bookmarks EXCEPT ![own] = set]
  BY DEF applyBookmarkEvent
<1> HIDE DEF own, set
<1>3. [bookmarks EXCEPT ![own] = set] \in Bookmarks
  BY <1>1, Zenon DEF Bookmarks
<1> DEFINE later == applyBookmarkEvent(bookmarks, event)
<1>4. key = own => later[key] = set
  BY <1>2, Zenon DEF Bookmarks
<1>5. key # own => later[key] = bookmarks[key]
  BY <1>2, Zenon DEF Bookmarks
<1>6. later \in Bookmarks
  BY <1>2, <1>3
<1> HIDE DEF later
<1>7. /\ key = own => (later[key] <=> set)
      /\ key # own => (later[key] <=> bookmarks[key])
  BY <1>4, <1>5, Zenon
<1> QED BY <1>6, <1>7, Zenon DEF own, set, later

\* A user's event does to the user's bookmarks what it does to the map.
LEMMA UserEventApplied ==
    ASSUME NEW a \in Replayed("user"), NEW event \in UserEvent(UserIds, ArticleIds), NEW article
    PROVE  /\ article = event.articleId =>
                 (article \in bookmarkedArticleIds(replayEvent("user", a, event).state)
                     <=> event.tag = "ArticleBookmarked")
           /\ article # event.articleId =>
                 (article \in bookmarkedArticleIds(replayEvent("user", a, event).state)
                     <=> article \in bookmarkedArticleIds(a.state))
<1>1. replayEvent("user", a, event).state = applyUserEvent(a.state, event)
  BY DEF replayEvent, Replayed, reducer
<1> DEFINE before == bookmarkedArticleIds(a.state)
           after == IF event.tag = "ArticleBookmarked" THEN before \cup {event.articleId}
                    ELSE before \ {event.articleId}
<1>2. bookmarkedArticleIds(applyUserEvent(a.state, event)) = after
  BY DEF applyUserEvent, bookmarkedArticleIds
<1> QED BY <1>1, <1>2

\* The event of a record is one the domain knows, and a user's when the slice says so.
LEMMA RecordedEvent ==
    ASSUME NEW rs \in Logs, NEW n \in 1 .. Len(rs)
    PROVE  /\ rs[n].event \in DomainEvent
           /\ belongsToSlice("user", rs[n].event) => rs[n].event \in UserEvent(UserIds, ArticleIds)
<1>1. rs[n] \in StoredEvent(Ids, DomainEvent)
  BY DEF Logs
<1>2. rs[n].event \in DomainEvent
  BY <1>1 DEF StoredEvent
<1> QED BY <1>2 DEF DomainEvent, CounterEvent, belongsToSlice, CounterEventTags, UserEventTags

\* Every user's event is in the stream of the user it names.
usersAtHome(rs) ==
    \A i \in DOMAIN rs : belongsToSlice("user", rs[i].event) =>
        rs[i].aggregateId = rs[i].event.userId

\* The map shows the bookmark as the replayed user holds it.
showsBookmark(bookmarks, a, user, article) ==
    /\ bookmarks \in Bookmarks
    /\ bookmarks[<<user, article>>] <=> article \in bookmarkedArticleIds(a.state)

\* They agree after the user's own event, and after another's the user does not replay.
LEMMA AgreementKept ==
    ASSUME NEW user \in UserIds, NEW article \in ArticleIds, NEW bookmarks,
           NEW a \in Replayed("user"), showsBookmark(bookmarks, a, user, article),
           NEW event \in UserEvent(UserIds, ArticleIds)
    PROVE  showsBookmark(applyBookmarkEvent(bookmarks, event),
                  IF event.userId = user THEN replayEvent("user", a, event) ELSE a,
                  user, article)
<1> DEFINE key == <<user, article>>
           later == applyBookmarkEvent(bookmarks, event)
           b == replayEvent("user", a, event)
<1>1. /\ bookmarks \in Bookmarks /\ key \in UserIds \X ArticleIds
      /\ bookmarks[key] <=> article \in bookmarkedArticleIds(a.state)
  BY DEF showsBookmark
<1>2. key = <<event.userId, event.articleId>> <=> user = event.userId /\ article = event.articleId
  OBVIOUS
<1>3. /\ later \in Bookmarks
      /\ key = <<event.userId, event.articleId>> =>
            (later[key] <=> event.tag = "ArticleBookmarked")
      /\ key # <<event.userId, event.articleId>> => (later[key] <=> bookmarks[key])
  BY <1>1, BookmarkEvent, Zenon
<1>4. /\ article = event.articleId =>
            (article \in bookmarkedArticleIds(b.state) <=> event.tag = "ArticleBookmarked")
      /\ article # event.articleId =>
            (article \in bookmarkedArticleIds(b.state)
                <=> article \in bookmarkedArticleIds(a.state))
  BY UserEventApplied, Zenon
<1> HIDE DEF key, later, b
<1>5. CASE event.userId = user
  <2>1. later[key] <=> article \in bookmarkedArticleIds(b.state)
    BY <1>1, <1>2, <1>3, <1>4, <1>5, Zenon
  <2> QED BY <1>3, <1>5, <2>1, Zenon DEF showsBookmark, key, later, b
<1>6. CASE event.userId # user
  <2>1. later[key] <=> article \in bookmarkedArticleIds(a.state)
    BY <1>1, <1>2, <1>3, <1>6, Zenon
  <2> QED BY <1>3, <1>6, <2>1, Zenon DEF showsBookmark, key, later
<1> QED BY <1>5, <1>6, Zenon

(***************************************************************************)
(* The map and the replayed user agree after every record of the log.      *)
(***************************************************************************)
LEMMA MapMatchesUser ==
    ASSUME NEW rs \in Logs, numberedLog(rs), usersAtHome(rs),
           NEW u \in UserIds, NEW article \in ArticleIds
    PROVE  showsBookmark(bookmarkProjection(rs)[Len(rs)], load("user", rs, u), u, article)
<1> DEFINE N == Len(rs)
           p == bookmarkProjection(rs)
           K == fetch("user", rs, u)
           q == replayAggregate("user", rs, K)
           Same == {n \in 0 .. N : showsBookmark(p[n], q[n], u, article)}
<1>1. N \in Nat /\ DOMAIN rs = 1 .. N
  BY LenProperties DEF Logs
<1>2. /\ p[0] = initialBookmarkProjectionState
      /\ \A n \in 1 .. N : p[n] = bookmarkStep(rs, n, p[n - 1])
  BY <1>1, ProjectionNext
<1>3. isReplay(q, "user", rs, K, N)
  BY <1>1, ReplayIsReplay
<1>4. \A n \in 0 .. N : q[n] \in Replayed("user")
  BY AnyHistoryType DEF history, Slices
<1>6. ASSUME NEW n \in 1 .. N
      PROVE  /\ n \in fetchAll("user", rs) <=> belongsToSlice("user", rs[n].event)
             /\ n \in K <=> belongsToSlice("user", rs[n].event) /\ rs[n].event.userId = u
  <2>1. rs[n].eventStoreSequenceNumber >= firstSequenceNumber
    BY <1>1 DEF numberedLog, firstSequenceNumber
  <2>2. belongsToSlice("user", rs[n].event) => rs[n].aggregateId = rs[n].event.userId
    BY <1>1 DEF usersAtHome
  <2> QED BY <1>1, <2>1, <2>2
          DEF fetchAll, fetch, recordsForAggregate, recordsFromSequenceNumber
<1> HIDE DEF p, q, K, N
<1>7. 0 \in Same
  <2>1. q[0] = makeAggregate("user") /\ 0 \in 0 .. N
    BY <1>1, <1>3 DEF isReplay
  <2>2. bookmarkedArticleIds(q[0].state) = {}
    BY <2>1 DEF makeAggregate, initialState, initialUserState, bookmarkedArticleIds
  <2>3. p[0] \in Bookmarks /\ p[0][<<u, article>>] = FALSE
    <3>1. <<u, article>> \in UserIds \X ArticleIds
      OBVIOUS
    <3> QED BY <1>2, <3>1, Zenon DEF initialBookmarkProjectionState, Bookmarks
  <2>4. showsBookmark(p[0], q[0], u, article)
    BY <2>2, <2>3 DEF showsBookmark
  <2> QED BY <2>1, <2>4
<1>8. ASSUME NEW n \in 1 .. N, n - 1 \in Same PROVE n \in Same
  <2> DEFINE e == rs[n].event
             a == q[n - 1]
             b == p[n - 1]
  <2>1. /\ n - 1 \in 0 .. N /\ n \in 0 .. N
        /\ showsBookmark(b, a, u, article)
    BY <1>1, <1>8
  <2>2. a \in Replayed("user")
    BY <1>4, <2>1
  <2>3. p[n] = IF n \in fetchAll("user", rs) THEN applyBookmarkEvent(b, e) ELSE b
    BY <1>2 DEF bookmarkStep
  <2>4. q[n] = IF n \in K THEN replayEvent("user", a, e) ELSE a
    <3>1. n # 0
      BY <1>1
    <3> QED BY <1>3, <2>1, <3>1 DEF isReplay, replayStep
  <2>5. belongsToSlice("user", e) => e \in UserEvent(UserIds, ArticleIds)
    BY RecordedEvent DEF N
  <2> HIDE DEF a, b, e, Same
  <2>6. CASE ~ belongsToSlice("user", e)
    BY <1>6, <2>1, <2>3, <2>4, <2>6 DEF Same, e
  <2>7. CASE belongsToSlice("user", e)
    <3>1. p[n] = applyBookmarkEvent(b, e)
      BY <1>6, <2>3, <2>7 DEF e
    <3>2. q[n] = IF e.userId = u THEN replayEvent("user", a, e) ELSE a
      BY <1>6, <2>4, <2>7 DEF e
    <3>3. showsBookmark(applyBookmarkEvent(b, e), IF e.userId = u THEN replayEvent("user", a, e) ELSE a,
                 u, article)
      BY <2>1, <2>2, <2>5, <2>7, AgreementKept
    <3> QED BY <2>1, <3>1, <3>2, <3>3 DEF Same
  <2> QED BY <2>6, <2>7
<1> HIDE DEF Same
<1>9. \A n \in 0 .. N : n \in Same
  BY <1>1, <1>7, <1>8, UpTo, Zenon
<1>10. N \in Same
  BY <1>1, <1>9
<1> QED BY <1>10, Zenon DEF Same, p, q, K, N, load, history

-----------------------------------------------------------------------------
(***************************************************************************)
(* Legal logs: every event is in the stream of what it names.              *)
(***************************************************************************)

countersAtHome(rs) ==
    \A i \in DOMAIN rs : belongsToSlice("counter", rs[i].event) =>
        rs[i].aggregateId \in CounterIds /\ rs[i].event.counterId = rs[i].aggregateId

\* A record of a legal log, the command it was decided for and the state decided on.
decidedRecord(rs, i, c) ==
    /\ c.id = rs[i].aggregateId
    /\ ~ isFailure(decide(c, history(sliceOf(c), rs, c.id)[i - 1].state))
    /\ decide(c, history(sliceOf(c), rs, c.id)[i - 1].state).event = rs[i].event
    /\ \A s \in Slices : belongsToSlice(s, rs[i].event) <=> s = sliceOf(c)

LEMMA LegalRecord ==
    ASSUME NEW rs, NEW i \in DOMAIN rs, legalLog(rs)
    PROVE  \E c \in Command : decidedRecord(rs, i, c)
<1>1. PICK c \in Command :
         /\ c.id = rs[i].aggregateId
         /\ decide(c, history(sliceOf(c), rs, c.id)[i - 1].state) = accept(rs[i].event)
  BY DEF legalLog, legalAt
<1> DEFINE d == decide(c, history(sliceOf(c), rs, c.id)[i - 1].state)
<1>2. ~ isFailure(d) /\ d.event = rs[i].event
  BY <1>1 DEF accept, isFailure
<1>3. \A s \in Slices : belongsToSlice(s, d.event) <=> s = sliceOf(c)
  BY <1>2, DecisionType
<1> QED BY <1>1, <1>2, <1>3 DEF decidedRecord

\* The counter an event names is the one the command names.
LEMMA EventNamesCounter ==
    ASSUME NEW c \in Command, sliceOf(c) = "counter", NEW st, ~ isFailure(decide(c, st))
    PROVE  c.id \in CounterIds /\ decide(c, st).event.counterId = c.id
<1>1. c \in CounterCommand
  BY DEF sliceOf, Command, UserCommand, CounterCommandTags, UserCommandTags
<1>2. c.tag \in CounterCommandTags /\ c.id \in CounterIds
  BY <1>1 DEF CounterCommand
<1>3. \/ decide(c, st) = createCounter(c.id, st)
      \/ decide(c, st) = incrementCounter(c.id, st)
      \/ decide(c, st) = decrementCounter(c.id, st)
      \/ decide(c, st) = disableCounter(c.id, st)
  BY <1>2 DEF decide, decideCounter, CounterCommandTags
<1>4. CASE decide(c, st) = createCounter(c.id, st)
  BY <1>2, <1>4 DEF createCounter, accept, reject, isFailure, counterEvent
<1>5. CASE decide(c, st) = incrementCounter(c.id, st)
  BY <1>2, <1>5 DEF incrementCounter, accept, reject, isFailure, counterEvent
<1>6. CASE decide(c, st) = decrementCounter(c.id, st)
  BY <1>2, <1>6 DEF decrementCounter, accept, reject, isFailure, counterEvent
<1>7. CASE decide(c, st) = disableCounter(c.id, st)
  BY <1>2, <1>7 DEF disableCounter, accept, reject, isFailure, counterEvent
<1> QED BY <1>3, <1>4, <1>5, <1>6, <1>7

LEMMA CountersAtHome == ASSUME NEW rs, legalLog(rs) PROVE countersAtHome(rs)
<1> SUFFICES ASSUME NEW i \in DOMAIN rs, belongsToSlice("counter", rs[i].event)
             PROVE  rs[i].aggregateId \in CounterIds /\ rs[i].event.counterId = rs[i].aggregateId
  BY DEF countersAtHome
<1>1. PICK c \in Command : decidedRecord(rs, i, c)
  BY LegalRecord
<1>2. sliceOf(c) = "counter"
  BY <1>1 DEF decidedRecord, Slices
<1> QED BY <1>1, <1>2, EventNamesCounter DEF decidedRecord

LEMMA UsersAtHome == ASSUME NEW rs, legalLog(rs) PROVE usersAtHome(rs)
<1> SUFFICES ASSUME NEW i \in DOMAIN rs, belongsToSlice("user", rs[i].event)
             PROVE  rs[i].aggregateId = rs[i].event.userId
  BY DEF usersAtHome
<1>1. PICK c \in Command : decidedRecord(rs, i, c)
  BY LegalRecord
<1> DEFINE st == history(sliceOf(c), rs, c.id)[i - 1].state
<1>2. sliceOf(c) = "user" /\ decide(c, st).event = rs[i].event /\ c.id = rs[i].aggregateId
  BY <1>1 DEF decidedRecord, Slices
<1> HIDE DEF st
<1>3. decide(c, st) = toggleArticleBookmark(c, st)
  BY <1>2 DEF decide
<1>4. decide(c, st).event.userId = c.id
  BY <1>3 DEF toggleArticleBookmark, accept
<1> QED BY <1>2, <1>4

\* So the list's group of a counter is what the repository fetches for it.
LEMMA GroupIsFetch ==
    ASSUME NEW rs, legalLog(rs), NEW x
    PROVE  groupByCounterId(rs, x) = fetch("counter", rs, x)
<1>1. \A i \in fetchAll("counter", rs) :
         i \in DOMAIN rs /\ rs[i].event.counterId = rs[i].aggregateId
  BY CountersAtHome DEF countersAtHome, fetchAll, recordsFromSequenceNumber
<1> QED BY <1>1 DEF groupByCounterId, fetch, fetchAll, recordsForAggregate

(***************************************************************************)
(* A history moves only at the records fetched for it: no such record      *)
(* after n, no change after n.                                             *)
(***************************************************************************)
LEMMA QuietHistory ==
    ASSUME NEW rs \in Logs, NEW s, NEW x, NEW from \in 0 .. Len(rs),
           \A i \in (from + 1) .. Len(rs) : i \notin fetch(s, rs, x)
    PROVE  load(s, rs, x) = history(s, rs, x)[from]
<1> DEFINE N == Len(rs)
           H == history(s, rs, x)
           Odd == {n \in Nat : from <= n /\ n <= N /\ H[n] # H[from]}
<1>1. N \in Nat /\ from \in Nat /\ from <= N
  BY LenProperties DEF Logs
<1>2. ASSUME NEW n \in (from + 1) .. N PROVE H[n] = H[n - 1]
  <2>1. n \in 1 .. N /\ n \notin fetch(s, rs, x)
    BY <1>1
  <2>2. H[n] = replayStep(s, rs, fetch(s, rs, x), n, H[n - 1])
    BY <1>1, <2>1, ReplayNext DEF history
  <2> QED BY <2>1, <2>2 DEF replayStep
<1> HIDE DEF N, H
<1>3. ASSUME Odd # {} PROVE FALSE
  <2>1. PICK m \in Odd : \A k \in Odd : m <= k
    BY <1>3, LeastElement
  <2>2. m \in (from + 1) .. N /\ m - 1 \in Nat /\ m - 1 >= from
    BY <1>1, <2>1
  <2>3. H[m - 1] = H[from]
    <3>1. m - 1 \notin Odd /\ m - 1 <= N
      BY <1>1, <2>1, <2>2
    <3> QED BY <2>2, <3>1
  <2> QED BY <1>2, <2>1, <2>2, <2>3
<1>4. H[N] = H[from]
  BY <1>1, <1>3
<1> QED BY <1>4 DEF load, H, N

\* What no record is fetched for is loaded as new.
LEMMA UnheardOf ==
    ASSUME NEW rs \in Logs, NEW s, NEW x, fetch(s, rs, x) = {}
    PROVE  load(s, rs, x) = makeAggregate(s)
<1>1. Len(rs) \in Nat
  BY LenProperties DEF Logs
<1>2. 0 \in 0 .. Len(rs)
  BY <1>1
<1>3. load(s, rs, x) = history(s, rs, x)[0]
  BY <1>2, QuietHistory
<1>4. isReplay(history(s, rs, x), s, rs, fetch(s, rs, x), Len(rs))
  BY <1>1, ReplayIsReplay DEF history
<1>5. history(s, rs, x)[0] = makeAggregate(s)
  BY <1>2, <1>4, Zenon DEF isReplay
<1> QED BY <1>3, <1>5

-----------------------------------------------------------------------------
(***************************************************************************)
(* A log shows what a beginning of it showed, or what was stored since.    *)
(***************************************************************************)

LEMMA LoadOfBeginning ==
    ASSUME NEW beginning \in Logs, NEW rs \in Logs, IsPrefix(beginning, rs), NEW s, NEW x
    PROVE  /\ Len(beginning) \in 0 .. Len(rs)
           /\ load(s, beginning, x) = history(s, rs, x)[Len(beginning)]
<1> DEFINE M == Len(beginning)
           J == fetch(s, beginning, x)
           K == fetch(s, rs, x)
<1>1. /\ M \in Nat /\ Len(rs) \in Nat /\ M <= Len(rs)
      /\ DOMAIN beginning = 1 .. M /\ DOMAIN rs = 1 .. Len(rs)
  BY LenProperties DEF Logs, IsPrefix
<1>2. ASSUME NEW n \in 1 .. M PROVE beginning[n] = rs[n]
  <2>1. /\ SubSeq(beginning, 1, M)[n] = beginning[n]
        /\ SubSeq(rs, 1, M)[n] = rs[n]
    BY <1>1, SubSeqProperties DEF Logs
  <2> QED BY <2>1 DEF IsPrefix
<1>3. ASSUME NEW n \in 1 .. M PROVE n \in J <=> n \in K
  BY <1>1, <1>2 DEF fetch, recordsForAggregate, recordsFromSequenceNumber
<1> HIDE DEF J, K, M
<1>4. \A n \in 0 .. M : replayAggregate(s, beginning, J)[n] = replayAggregate(s, rs, K)[n]
  BY <1>1, <1>2, <1>3, ReplayPrefix DEF M
<1>5. M \in 0 .. M
  BY <1>1
<1> QED BY <1>1, <1>4, <1>5 DEF load, history, J, K, M

\* A replayed version never goes down.
LEMMA VersionsGrow ==
    ASSUME NEW s \in Slices, NEW rs \in Logs, NEW x, NEW m \in 0 .. Len(rs)
    PROVE  history(s, rs, x)[m].version <= load(s, rs, x).version
<1> DEFINE N == Len(rs)
           K == fetch(s, rs, x)
           H == history(s, rs, x)
           Later == {n \in 0 .. N : m <= n => H[m].version <= H[n].version}
<1>1. N \in Nat /\ m \in Nat /\ m <= N
  BY LenProperties DEF Logs
<1>2. \A n \in 0 .. N : H[n] \in Replayed(s) /\ H[n].version \in Nat
  <2>1. \A n \in 0 .. N : H[n] \in Replayed(s)
    BY AnyHistoryType
  <2> QED BY <2>1 DEF Replayed
<1>3. ASSUME NEW n \in 1 .. N
      PROVE  H[n] = H[n - 1] \/ H[n].version = H[n - 1].version + 1
  <2>1. H[n] = replayStep(s, rs, K, n, H[n - 1])
    BY <1>1, ReplayNext DEF history
  <2>2. CASE n \in K
    <3>1. belongsToSlice(s, rs[n].event) /\ rs[n].event \in DomainEvent
      BY <2>2, RecordedEvent DEF fetch
    <3>2. H[n - 1] \in Replayed(s)
      BY <1>1, <1>2
    <3> HIDE DEF H, K
    <3>3. replayEvent(s, H[n - 1], rs[n].event).version = H[n - 1].version + 1
      BY <3>1, <3>2, ReplayEventType
    <3> QED BY <2>1, <2>2, <3>3 DEF replayStep
  <2>3. CASE n \notin K
    BY <2>1, <2>3 DEF replayStep
  <2> QED BY <2>2, <2>3
<1> HIDE DEF H, K, N
<1>4. 0 \in Later
  BY <1>1, <1>2
<1>5. ASSUME NEW n \in 1 .. N, n - 1 \in Later PROVE n \in Later
  <2>1. /\ n \in 0 .. N /\ n - 1 \in 0 .. N /\ m \in 0 .. N
        /\ H[n].version \in Nat /\ H[n - 1].version \in Nat /\ H[m].version \in Nat
    BY <1>1, <1>2
  <2>2. m <= n - 1 => H[m].version <= H[n - 1].version
    BY <1>5
  <2>3. m <= n => m = n \/ m <= n - 1
    BY <1>1
  <2>4. H[n - 1].version <= H[n].version
    BY <1>3, <2>1
  <2>5. m <= n => H[m].version <= H[n].version
    BY <2>1, <2>2, <2>3, <2>4
  <2> QED BY <2>1, <2>5
<1> HIDE DEF Later
<1>6. \A n \in 0 .. N : n \in Later
  BY <1>1, <1>4, <1>5, UpTo, Zenon
<1>7. N \in Later
  BY <1>1, <1>6
<1> QED BY <1>1, <1>7 DEF Later, load, H, N

\* A counter as it is before its first event.
unbegun(a) == a.state.tag = "CounterNotCreated" /\ a.version = 0

\* On a counter that was not created only its creation is accepted.
LEMMA CounterBegins ==
    ASSUME NEW c \in Command, sliceOf(c) = "counter", NEW st, st.tag = "CounterNotCreated",
           ~ isFailure(decide(c, st))
    PROVE  decide(c, st).event = counterEvent("CounterCreated", c.id)
<1>1. c.tag \in CounterCommandTags
  BY DEF sliceOf
<1>2. decide(c, st) = decideCounter(c, st)
  BY DEF decide
<1>3. /\ c.tag = "CreateCounter" => decide(c, st) = accept(counterEvent("CounterCreated", c.id))
      /\ c.tag = "IncrementCounter" => decide(c, st) = reject("CounterDoesNotExist")
      /\ c.tag = "DecrementCounter" => decide(c, st) = reject("CounterDoesNotExist")
      /\ c.tag = "DisableCounter" => decide(c, st) = reject("CounterDoesNotExist")
  BY <1>2 DEF decideCounter, createCounter, incrementCounter, decrementCounter, disableCounter
<1>4. isFailure(reject("CounterDoesNotExist"))
  BY DEF isFailure, reject
<1>5. c.tag = "CreateCounter"
  BY <1>1, <1>3, <1>4 DEF CounterCommandTags
<1> QED BY <1>3, <1>5 DEF accept

\* An event that is accepted creates the counter or leaves it whose it is.
LEMMA CounterStaysNamed ==
    ASSUME NEW st \in CounterState(CounterIds), NEW x,
           NEW c \in Command, c.id = x, sliceOf(c) = "counter", ~ isFailure(decide(c, st)),
           st.tag # "CounterNotCreated" => st.counterId = x
    PROVE  /\ applyCounterEvent(st, decide(c, st).event).tag # "CounterNotCreated"
           /\ applyCounterEvent(st, decide(c, st).event).counterId = x
<1> DEFINE e == decide(c, st).event
<1>1. CASE st.tag = "CounterNotCreated"
  <2>1. e = counterEvent("CounterCreated", x)
    BY <1>1, CounterBegins
  <2> HIDE DEF e
  <2>2. e.tag = "CounterCreated" /\ e.counterId = x
    BY <2>1 DEF counterEvent
  <2>3. applyCounterEvent(st, e) = activeCounter(x, 0)
    BY <1>1, <2>2 DEF applyCounterEvent
  <2>4. activeCounter(x, 0).tag = "ActiveCounter" /\ activeCounter(x, 0).counterId = x
    BY DEF activeCounter
  <2> QED BY <2>3, <2>4 DEF e
<1>2. CASE st.tag # "CounterNotCreated"
  <2> HIDE DEF e
  <2>1. st \in [tag : {"ActiveCounter", "DisabledCounter"}, counterId : CounterIds,
                value : minimumCounterValue .. MaxValue]
    BY <1>2 DEF CounterState, initialCounterState
  <2>2. applyCounterEvent(st, e) \in {activeCounter(st.counterId, st.value + 1),
                                      activeCounter(st.counterId, st.value - 1),
                                      [st EXCEPT !.tag = "DisabledCounter"], st}
    BY <1>2 DEF applyCounterEvent
  <2>3. \A n : activeCounter(st.counterId, n).tag = "ActiveCounter"
               /\ activeCounter(st.counterId, n).counterId = x
    BY <1>2 DEF activeCounter
  <2>4. /\ [st EXCEPT !.tag = "DisabledCounter"].tag = "DisabledCounter"
        /\ [st EXCEPT !.tag = "DisabledCounter"].counterId = x
    BY <1>2, <2>1
  <2>5. applyCounterEvent(st, e).tag # "CounterNotCreated" /\ applyCounterEvent(st, e).counterId = x
    BY <1>2, <2>2, <2>3, <2>4
  <2> QED BY <2>5 DEF e
<1> QED BY <1>1, <1>2

\* In a legal log a counter's history is as new, or says whose it is.
begunBy(a, x) == unbegun(a) \/ (a.state.tag # "CounterNotCreated" /\ a.state.counterId = x)

LEMMA CounterIsNamed ==
    ASSUME NEW rs \in Logs, legalLog(rs), NEW x
    PROVE  begunBy(load("counter", rs, x), x)
<1> DEFINE N == Len(rs)
           K == fetch("counter", rs, x)
           H == history("counter", rs, x)
           Named == {n \in 0 .. N : begunBy(H[n], x)}
<1>1. N \in Nat /\ DOMAIN rs = 1 .. N
  BY LenProperties DEF Logs
<1>2. \A n \in 0 .. N : H[n] \in Replayed("counter")
  BY AnyHistoryType DEF Slices
<1>3. /\ H[0] = makeAggregate("counter")
      /\ \A n \in 1 .. N : H[n] = replayStep("counter", rs, K, n, H[n - 1])
  <2>1. isReplay(H, "counter", rs, K, N)
    BY <1>1, ReplayIsReplay DEF history
  <2>2. 0 \in 0 .. N
    BY <1>1
  <2> HIDE DEF H, K, N
  <2>3. H[0] = makeAggregate("counter")
    BY <2>1, <2>2, Zenon DEF isReplay
  <2>4. ASSUME NEW n \in 1 .. N PROVE H[n] = replayStep("counter", rs, K, n, H[n - 1])
    <3>1. n \in 0 .. N /\ n # 0
      BY <1>1
    <3> QED BY <2>1, <3>1, Zenon DEF isReplay
  <2> QED BY <2>3, <2>4
<1>4. 0 \in Named
  <2>1. unbegun(makeAggregate("counter"))
    BY DEF unbegun, makeAggregate, initialState, initialCounterState
  <2>2. 0 \in 0 .. N
    BY <1>1
  <2> HIDE DEF H
  <2> QED BY <1>3, <2>1, <2>2 DEF begunBy
<1>5. ASSUME NEW n \in 1 .. N, n - 1 \in Named PROVE n \in Named
  <2>1. n \in 0 .. N /\ n - 1 \in 0 .. N /\ n \in DOMAIN rs /\ begunBy(H[n - 1], x)
    BY <1>1, <1>5
  <2>2. CASE n \notin K
    BY <1>3, <2>1, <2>2 DEF replayStep
  <2>3. CASE n \in K
    <3>1. belongsToSlice("counter", rs[n].event) /\ rs[n].aggregateId = x
      BY <2>3 DEF fetch, recordsForAggregate
    <3>2. PICK c \in Command : decidedRecord(rs, n, c)
      BY <2>1, LegalRecord
    <3>3. sliceOf(c) = "counter" /\ c.id = x
      BY <3>1, <3>2 DEF decidedRecord, Slices
    <3>4. ~ isFailure(decide(c, H[n - 1].state)) /\ decide(c, H[n - 1].state).event = rs[n].event
      BY <3>2, <3>3 DEF decidedRecord
    <3> HIDE DEF H
    <3>5. H[n - 1].state \in CounterState(CounterIds)
      BY <1>2, <2>1 DEF Replayed, AggregateState
    <3>6. H[n - 1].state.tag # "CounterNotCreated" => H[n - 1].state.counterId = x
      BY <2>1 DEF begunBy, unbegun
    <3> DEFINE st == H[n - 1].state
    <3>7. /\ applyCounterEvent(st, decide(c, st).event).tag # "CounterNotCreated"
          /\ applyCounterEvent(st, decide(c, st).event).counterId = x
      BY <3>3, <3>4, <3>5, <3>6, CounterStaysNamed
    <3>8. H[n] = replayEvent("counter", H[n - 1], rs[n].event)
      BY <1>3, <2>3 DEF replayStep
    <3>9. H[n].state = applyCounterEvent(st, rs[n].event)
      <4>1. H[n - 1] \in Replayed("counter")
        BY <1>2, <2>1
      <4> QED BY <3>8, <4>1 DEF replayEvent, reducer, Replayed
    <3> HIDE DEF st
    <3>10. begunBy(H[n], x)
      BY <3>4, <3>7, <3>9 DEF begunBy, st
    <3> QED BY <2>1, <3>10
  <2> QED BY <2>2, <2>3
<1> HIDE DEF Named
<1>6. \A n \in 0 .. N : n \in Named
  BY <1>1, <1>4, <1>5, UpTo, Zenon
<1>7. N \in Named
  BY <1>1, <1>6
<1> QED BY <1>7 DEF Named, load, H, N

(***************************************************************************)
(* A legal log lists every counter that has a version, at that version.    *)
(***************************************************************************)
LEMMA CounterIsListed ==
    ASSUME NEW rs \in Logs, legalLog(rs), NEW x, load("counter", rs, x).version # 0
    PROVE  \E summary \in ListCounters(rs) :
              summary.counterId = x /\ summary.version = load("counter", rs, x).version
<1> DEFINE a == load("counter", rs, x)
           S(y) == counterSummaryOf(
                      replayAggregate("counter", rs, groupByCounterId(rs, y))[Len(rs)])
           listed == {rs[i].event.counterId : i \in fetchAll("counter", rs)}
<1>1. a.state.tag # "CounterNotCreated" /\ a.state.counterId = x
  BY CounterIsNamed DEF begunBy, unbegun
<1>2. fetch("counter", rs, x) # {}
  <2>1. makeAggregate("counter").version = 0
    BY DEF makeAggregate
  <2> QED BY <2>1, UnheardOf
<1>3. x \in listed
  <2>1. PICK i \in groupByCounterId(rs, x) : TRUE
    BY <1>2, GroupIsFetch
  <2> QED BY <2>1 DEF groupByCounterId
<1>4. S(x) = counterSummaryOf(a)
  BY GroupIsFetch DEF load, history
<1> HIDE DEF a
<1> DEFINE summary == [tag |-> a.state.tag, counterId |-> a.state.counterId,
                       value |-> a.state.value, version |-> a.version]
<1>5. counterSummaryOf(a) = {summary}
  BY <1>1 DEF counterSummaryOf
<1>6. summary.counterId = x /\ summary.version = a.version
  BY <1>1
<1>7. ListCounters(rs) = UNION {S(y) : y \in listed}
  BY DEF ListCounters
<1> HIDE DEF S, listed, summary
<1>8. summary \in ListCounters(rs)
  BY <1>3, <1>4, <1>5, <1>7
<1> QED BY <1>6, <1>8 DEF a

(***************************************************************************)
(* A bookmark nobody touched since is as it was.                           *)
(***************************************************************************)
touches(event, user, article) ==
    event \in [tag : UserEventTags, userId : {user}, articleId : {article}]

LEMMA UntouchedBookmark ==
    ASSUME NEW rs \in Logs, legalLog(rs), NEW user, NEW article, NEW m \in 0 .. Len(rs),
           \A i \in m + 1 .. Len(rs) : ~ touches(rs[i].event, user, article)
    PROVE  article \in bookmarkedArticleIds(load("user", rs, user).state)
              <=> article \in bookmarkedArticleIds(history("user", rs, user)[m].state)
<1> DEFINE N == Len(rs)
           K == fetch("user", rs, user)
           H == history("user", rs, user)
           marked(n) == article \in bookmarkedArticleIds(H[n].state)
           Same == {n \in 0 .. N : m <= n => (marked(n) <=> marked(m))}
<1>1. N \in Nat /\ m \in Nat /\ m <= N /\ DOMAIN rs = 1 .. N
  BY LenProperties DEF Logs
<1>2. \A n \in 0 .. N : H[n] \in Replayed("user")
  BY AnyHistoryType DEF Slices
<1>3. \A n \in 1 .. N : H[n] = replayStep("user", rs, K, n, H[n - 1])
  BY <1>1, ReplayNext DEF history
<1>4. ASSUME NEW n \in m + 1 .. N PROVE marked(n) <=> marked(n - 1)
  <2>1. n \in 1 .. N /\ n - 1 \in 0 .. N /\ n \in DOMAIN rs
    BY <1>1
  <2>2. H[n] = replayStep("user", rs, K, n, H[n - 1]) /\ H[n - 1] \in Replayed("user")
    BY <1>2, <1>3, <2>1
  <2>3. CASE n \notin K
    BY <2>2, <2>3 DEF replayStep
  <2>4. CASE n \in K
    <3>1. belongsToSlice("user", rs[n].event) /\ rs[n].aggregateId = user
      BY <2>4 DEF fetch, recordsForAggregate
    <3>2. rs[n].event \in UserEvent(UserIds, ArticleIds)
      BY <2>1, <3>1, RecordedEvent
    <3>3. rs[n].event.userId = user
      BY <2>1, <3>1, UsersAtHome DEF usersAtHome
    <3>4. rs[n].event.articleId # article
      <4>1. ~ touches(rs[n].event, user, article)
        OBVIOUS
      <4> QED BY <3>2, <3>3, <4>1 DEF touches, UserEvent
    <3> HIDE DEF H
    <3>5. H[n] = replayEvent("user", H[n - 1], rs[n].event)
      BY <2>2, <2>4 DEF replayStep
    <3>6. article \in bookmarkedArticleIds(replayEvent("user", H[n - 1], rs[n].event).state)
             <=> article \in bookmarkedArticleIds(H[n - 1].state)
      BY <2>2, <3>2, <3>4, UserEventApplied
    <3> QED BY <3>5, <3>6
  <2> QED BY <2>3, <2>4
<1> HIDE DEF marked, N
<1>5. 0 \in Same
  <2>1. m <= 0 => m = 0
    BY <1>1
  <2>2. 0 \in 0 .. N
    BY <1>1
  <2> QED BY <2>1, <2>2
<1>6. ASSUME NEW n \in 1 .. N, n - 1 \in Same PROVE n \in Same
  <2>1. n \in 0 .. N /\ n - 1 \in 0 .. N
    BY <1>1
  <2>2. CASE m <= n - 1
    <3>1. n \in m + 1 .. N
      BY <1>1, <2>2
    <3>2. marked(n) <=> marked(n - 1)
      BY <1>4, <3>1
    <3>3. marked(n - 1) <=> marked(m)
      BY <1>6, <2>2
    <3>4. marked(n) <=> marked(m)
      BY <3>2, <3>3, Zenon
    <3> QED BY <2>1, <3>4
  <2>3. CASE ~ (m <= n - 1)
    <3>1. m <= n => m = n
      BY <1>1, <2>3
    <3> QED BY <2>1, <3>1
  <2> QED BY <2>2, <2>3
<1> HIDE DEF Same
<1>7. \A n \in 0 .. N : n \in Same
  BY <1>1, <1>5, <1>6, UpTo, Zenon
<1>8. N \in Same
  BY <1>1, <1>7
<1>9. marked(N) <=> marked(m)
  BY <1>1, <1>8 DEF Same
<1> QED BY <1>9, Zenon DEF marked, load, N

-----------------------------------------------------------------------------
\* A receipt reads the state and the version of an aggregate, not what is still to be saved.
LEMMA ReceiptReadsState ==
    ASSUME NEW s, NEW a, NEW b, a.state = b.state, a.version = b.version
    PROVE  receiptOf(s, a) = receiptOf(s, b)
BY DEF receiptOf

(***************************************************************************)
(* An event stored on the aggregate of one stream moves that stream by one *)
(* event, and no other one, be it one of the same identity.                *)
(***************************************************************************)
LEMMA LoadAfterStored ==
    ASSUME NEW rs \in Logs, NEW r \in StoredEvent(Ids, DomainEvent), NEW t \in Slices,
           \A s \in Slices : belongsToSlice(s, r.event) <=> s = t,
           r.eventStoreSequenceNumber = Len(rs) + 1,
           NEW s \in Slices, NEW x
    PROVE  load(s, Append(rs, r), x) =
              IF s = t /\ x = r.aggregateId THEN replayEvent(s, load(s, rs, x), r.event)
              ELSE load(s, rs, x)
<1>1. r.eventStoreSequenceNumber >= 1
  BY LenProperties DEF Logs
<1>2. inHistory(s, r, x) <=> (s = t /\ x = r.aggregateId)
  BY <1>1 DEF inHistory
<1>3. load(s, Append(rs, r), x) =
         IF inHistory(s, r, x) THEN replayEvent(s, load(s, rs, x), r.event)
         ELSE load(s, rs, x)
  BY HistoryAppend DEF Logs
<1> QED BY <1>2, <1>3

\* The aggregates of a log, all of them; storing an event changes one.
heldIn(rs) ==
    [s \in ({"counter"} \X CounterIds) \cup ({"user"} \X UserIds) |-> load(s[1], rs, s[2])]

LEMMA HeldAfterStored ==
    ASSUME NEW rs \in Logs, NEW r \in StoredEvent(Ids, DomainEvent), NEW t \in Slices,
           \A s \in Slices : belongsToSlice(s, r.event) <=> s = t,
           r.eventStoreSequenceNumber = Len(rs) + 1,
           NEW x, x = r.aggregateId
    PROVE  heldIn(Append(rs, r)) =
              [heldIn(rs) EXCEPT ![<<t, x>>] = replayEvent(t, load(t, rs, x), r.event)]
<1> DEFINE D == ({"counter"} \X CounterIds) \cup ({"user"} \X UserIds)
           stream == <<t, x>>
           after == replayEvent(t, load(t, rs, x), r.event)
           qs == Append(rs, r)
<1>1. ASSUME NEW s \in D
      PROVE  load(s[1], qs, s[2]) = IF s = stream THEN after ELSE load(s[1], rs, s[2])
  <2>1. s[1] \in Slices /\ s = <<s[1], s[2]>>
    BY DEF Slices
  <2>2. s = stream <=> (s[1] = t /\ s[2] = x)
    BY <2>1
  <2>3. s = stream => after = replayEvent(s[1], load(s[1], rs, s[2]), r.event)
    BY <2>2
  <2> HIDE DEF stream, after
  <2>4. load(s[1], qs, s[2]) = IF s[1] = t /\ s[2] = r.aggregateId
                               THEN replayEvent(s[1], load(s[1], rs, s[2]), r.event)
                               ELSE load(s[1], rs, s[2])
    BY <2>1, LoadAfterStored
  <2> QED BY <2>2, <2>3, <2>4
<1> HIDE DEF stream, after, D, qs
<1>2. heldIn(rs) = [s \in D |-> load(s[1], rs, s[2])] /\ heldIn(qs) = [s \in D |-> load(s[1], qs, s[2])]
  BY DEF heldIn, D
<1>3. \A s \in D : heldIn(qs)[s] = [heldIn(rs) EXCEPT ![stream] = after][s]
  BY <1>1, <1>2
<1> QED BY <1>2, <1>3 DEF stream, after, qs

\* The ids of a slice that the other one does not use.
ownIds(s) == IF s = "counter" THEN CounterIds \ UserIds ELSE UserIds \ CounterIds

\* On such an id the version the store counts is the version the slice replays to.
ownVersions(rs) ==
    /\ \A i \in DOMAIN rs : \A s \in Slices :
          rs[i].aggregateId \in ownIds(s) => belongsToSlice(s, rs[i].event)
    /\ \A s \in Slices : \A x \in ownIds(s) :
          load(s, rs, x).version = aggregateVersionInRecords(rs, x)

\* Nothing is stored yet, and every aggregate is at version 0.
LEMMA OwnVersionsInitially == ownVersions(<<>>)
<1>1. ASSUME NEW s, NEW x PROVE load(s, <<>>, x).version = 0
  <2>1. load(s, <<>>, x) = makeAggregate(s)
    BY EmptyLoad
  <2>2. makeAggregate(s).version = 0
    BY DEF makeAggregate
  <2> QED BY <2>1, <2>2
<1>2. \A x : aggregateVersionInRecords(<<>>, x) = 0
  BY FS_EmptySet DEF aggregateVersionInRecords
<1> QED BY <1>1, <1>2 DEF ownVersions

\* Appending an event of a slice to a stream of that slice keeps the versions equal.
LEMMA OwnVersionsAppend ==
    ASSUME NEW rs \in Logs, NEW r \in StoredEvent(Ids, DomainEvent), ownVersions(rs),
           NEW t \in Slices, \A s \in Slices : belongsToSlice(s, r.event) <=> s = t,
           r.aggregateId \in IF t = "counter" THEN CounterIds ELSE UserIds,
           r.eventStoreSequenceNumber >= 1
    PROVE  ownVersions(Append(rs, r))
<1> DEFINE qs == Append(rs, r)
<1>1. /\ Len(rs) \in Nat /\ DOMAIN rs = 1 .. Len(rs) /\ DOMAIN qs = 1 .. Len(rs) + 1
      /\ \A n \in 1 .. Len(rs) : qs[n] = rs[n]
      /\ qs[Len(rs) + 1] = r
  BY AppendProperties, LenProperties DEF Logs
<1>2. \A s \in Slices : r.aggregateId \in ownIds(s) => s = t
  BY DEF ownIds, Slices
<1>3. ASSUME NEW s \in Slices, NEW x \in ownIds(s)
      PROVE  load(s, qs, x).version = aggregateVersionInRecords(qs, x)
  <2>1. load(s, rs, x) \in Replayed(s)
    BY AnyLoadType
  <2>2. load(s, rs, x).version = aggregateVersionInRecords(rs, x)
    BY DEF ownVersions
  <2>3. aggregateVersionInRecords(qs, x)
           = aggregateVersionInRecords(rs, x) + IF r.aggregateId = x THEN 1 ELSE 0
    BY VersionAppend DEF Logs
  <2>4. load(s, qs, x) = IF inHistory(s, r, x) THEN replayEvent(s, load(s, rs, x), r.event)
                         ELSE load(s, rs, x)
    BY HistoryAppend DEF Logs
  <2>5. inHistory(s, r, x) <=> r.aggregateId = x
    BY <1>2 DEF inHistory
  <2> HIDE DEF qs
  <2>6. CASE r.aggregateId = x
    <3>1. belongsToSlice(s, r.event) /\ r.event \in DomainEvent
      BY <2>5, <2>6 DEF inHistory, StoredEvent
    <3>2. replayEvent(s, load(s, rs, x), r.event).version = load(s, rs, x).version + 1
      BY <2>1, <3>1, ReplayEventType
    <3> QED BY <2>2, <2>3, <2>4, <2>5, <2>6, <3>2
  <2>7. CASE r.aggregateId # x
    <3>1. load(s, rs, x).version \in Nat
      BY <2>1 DEF Replayed
    <3> QED BY <2>2, <2>3, <2>4, <2>5, <2>7, <3>1
  <2> QED BY <2>6, <2>7
<1> HIDE DEF qs
<1>4. ASSUME NEW i \in DOMAIN qs, NEW s \in Slices, qs[i].aggregateId \in ownIds(s)
      PROVE  belongsToSlice(s, qs[i].event)
  <2>1. CASE i = Len(rs) + 1
    BY <1>1, <1>2, <1>4, <2>1
  <2>2. CASE i # Len(rs) + 1
    <3>1. i \in DOMAIN rs /\ qs[i] = rs[i]
      BY <1>1, <2>2
    <3> QED BY <1>4, <3>1 DEF ownVersions
  <2> QED BY <2>1, <2>2
<1> QED BY <1>3, <1>4 DEF ownVersions, qs

\* The list of a log the handlers can write: the counters the repository would load.
LEMMA ListShowsCounters ==
    ASSUME NEW rs \in Logs, legalLog(rs)
    PROVE  ListCounters(rs) = UNION {counterSummaryOf(load("counter", rs, x)) : x \in CounterIds}
<1> DEFINE S(x) == counterSummaryOf(load("counter", rs, x))
           listed == {rs[i].event.counterId : i \in fetchAll("counter", rs)}
<1>1. \A x : counterSummaryOf(
                replayAggregate("counter", rs, groupByCounterId(rs, x))[Len(rs)])
             = S(x)
  BY GroupIsFetch DEF load, history
<1>2. listed \subseteq CounterIds
  BY CountersAtHome DEF countersAtHome, fetchAll, recordsFromSequenceNumber
<1>3. ASSUME NEW x \in CounterIds \ listed PROVE S(x) = {}
  <2>1. groupByCounterId(rs, x) = {}
    BY <1>3 DEF groupByCounterId
  <2>2. load("counter", rs, x) = makeAggregate("counter")
    BY <2>1, GroupIsFetch, UnheardOf, Zenon
  <2> QED BY <2>2 DEF makeAggregate, initialState, initialCounterState, counterSummaryOf
<1>4. ListCounters(rs) = UNION {S(x) : x \in listed}
  BY <1>1 DEF ListCounters
<1> HIDE DEF S, listed
<1>5. UNION {S(x) : x \in listed} = UNION {S(x) : x \in CounterIds}
  BY <1>2, <1>3
<1> QED BY <1>4, <1>5 DEF S

\* What the list shows of any log.
LEMMA ListShowsBookmarks ==
    ASSUME NEW rs \in Logs, numberedLog(rs), usersAtHome(rs), NEW u \in UserIds, NEW a \in Catalog
    PROVE  ListArticles(rs, u)[a] = (a \in bookmarkedArticleIds(load("user", rs, u).state))
<1> DEFINE shown == bookmarkProjection(rs)[Len(rs)][<<u, a>>]
           holds == a \in bookmarkedArticleIds(load("user", rs, u).state)
<1>1. ListArticles(rs, u)[a] = shown
  BY Zenon DEF ListArticles
<1>2. showsBookmark(bookmarkProjection(rs)[Len(rs)], load("user", rs, u), u, a)
  BY MapMatchesUser, CatalogAssumption
<1>3. shown \in BOOLEAN
  <2>1. <<u, a>> \in UserIds \X ArticleIds
    BY CatalogAssumption
  <2> QED BY <1>2, <2>1, Zenon DEF showsBookmark, Bookmarks
<1>4. shown <=> holds
  BY <1>2, Zenon DEF showsBookmark
<1>5. holds \in BOOLEAN
  OBVIOUS
<1> HIDE DEF shown, holds
<1>6. shown = holds
  BY <1>3, <1>4, <1>5
<1> QED BY <1>1, <1>6, Zenon DEF shown, holds

-----------------------------------------------------------------------------
(***************************************************************************)
(* The key of a bookmark tells the user and the article, whatever their    *)
(* identities are: the length ends at the first colon, and says where the  *)
(* user's identity does.                                                   *)
(***************************************************************************)

Characters == STRING \cup {Colon}

Texts == Seq(Characters)

colonFree(text) == \A i \in DOMAIN text : text[i] # Colon

\* Concatenation under a name of its own, for steps that only use its laws.
cat(s, t) == s \o t

(***************************************************************************)
(* Texts have lengths, and the colon is a text of length one.              *)
(***************************************************************************)
LEMMA Lengths ==
    /\ \A s \in Texts : Len(s) \in Nat
    /\ <<Colon>> \in Texts /\ Len(<<Colon>>) = 1
<1>1. ASSUME NEW s \in Texts PROVE Len(s) \in Nat
  BY DEF Texts
<1>2. Colon \in Characters
  BY DEF Characters
<1>3. <<Colon>> \in Texts /\ Len(<<Colon>>) = 1
  BY <1>2 DEF Texts
<1> QED BY <1>1, <1>3

(***************************************************************************)
(* Texts put together make a text, as long as the two.                     *)
(***************************************************************************)
LEMMA CatIsText ==
    ASSUME NEW s \in Texts, NEW t \in Texts
    PROVE  cat(s, t) \in Texts /\ Len(cat(s, t)) = Len(s) + Len(t)
BY DEF Texts, cat

(***************************************************************************)
(* It begins with the first of them.                                       *)
(***************************************************************************)
LEMMA CatBegins ==
    ASSUME NEW s \in Texts, NEW t \in Texts, NEW i \in 1 .. Len(s)
    PROVE  cat(s, t)[i] = s[i]
BY DEF Texts, cat

(***************************************************************************)
(* How three texts are grouped makes no difference.                        *)
(***************************************************************************)
LEMMA CatAssociative ==
    ASSUME NEW s \in Texts, NEW t \in Texts, NEW u \in Texts
    PROVE  cat(cat(s, t), u) = cat(s, cat(t, u))
BY ConcatAssociative DEF Texts, cat

(***************************************************************************)
(* Two texts that are the same and are cut at the same place have the same *)
(* parts.                                                                  *)
(***************************************************************************)
LEMMA SameCut ==
    ASSUME NEW p \in Texts, NEW q \in Texts, NEW x \in Texts, NEW y \in Texts,
           Len(p) = Len(q), cat(p, x) = cat(q, y)
    PROVE  p = q /\ x = y
<1>1. p \o x = q \o y
  BY DEF cat
<1>2. /\ \A i \in 1 .. Len(p) : (p \o x)[i] = p[i]
      /\ \A i \in 1 .. Len(q) : (q \o y)[i] = q[i]
  BY DEF Texts
<1>3. p = q
  BY <1>1, <1>2, SeqEqual DEF Texts
<1>4. Len(x) = Len(y)
  <2>1. Len(p \o x) = Len(p) + Len(x) /\ Len(q \o y) = Len(q) + Len(y)
    BY DEF Texts
  <2> QED BY <1>1, <2>1 DEF Texts
<1>5. ASSUME NEW i \in 1 .. Len(x) PROVE x[i] = y[i]
  <2>1. (p \o x)[Len(p) + i] = x[i] /\ (q \o y)[Len(q) + i] = y[i]
    BY <1>4 DEF Texts
  <2> QED BY <1>1, <2>1
<1>6. x = y
  BY <1>4, <1>5, SeqEqual DEF Texts
<1> QED BY <1>3, <1>6

(***************************************************************************)
(* A text without colons that goes up to the first colon ends there.       *)
(***************************************************************************)
LEMMA NotBeyondTheColon ==
    ASSUME NEW p \in Texts, NEW q \in Texts, NEW x \in Texts, NEW y \in Texts,
           colonFree(q), cat(cat(p, <<Colon>>), x) = cat(cat(q, <<Colon>>), y)
    PROVE  Len(q) <= Len(p)
<1>1. Len(p) \in Nat /\ Len(q) \in Nat
  BY Lengths
<1>2. SUFFICES ASSUME Len(p) < Len(q) PROVE FALSE
  BY <1>1
<1> DEFINE n == Len(p) + 1
<1>3. n \in 1 .. Len(q) /\ n \in 1 .. (Len(q) + 1)
  BY <1>1, <1>2
<1>4. <<Colon>> \in Texts /\ Len(<<Colon>>) = 1
  BY Lengths
<1>5. /\ cat(p, <<Colon>>) \in Texts /\ Len(cat(p, <<Colon>>)) = n
      /\ cat(q, <<Colon>>) \in Texts /\ Len(cat(q, <<Colon>>)) = Len(q) + 1
  BY <1>4, CatIsText
<1>6. n \in 1 .. n
  BY <1>1
<1> HIDE DEF n
<1>7. cat(cat(p, <<Colon>>), x)[n] = cat(p, <<Colon>>)[n]
  BY <1>5, <1>6, CatBegins, Zenon
<1>8. cat(cat(q, <<Colon>>), y)[n] = cat(q, <<Colon>>)[n]
  BY <1>3, <1>5, CatBegins, Zenon
<1>9. cat(q, <<Colon>>)[n] = q[n]
  BY <1>3, <1>4, CatBegins
<1>10. cat(p, <<Colon>>)[n] = Colon
  BY <1>4 DEF n, cat, Texts
<1>11. q[n] # Colon
  BY <1>3 DEF colonFree, Texts
<1> QED BY <1>7, <1>8, <1>9, <1>10, <1>11

(***************************************************************************)
(* No two bookmarks have one key, for identities of any length and made of *)
(* any characters, colons and digits included; all that is asked of the    *)
(* way lengths are written is that no two are written alike and that there *)
(* is no colon in them (bookmarkProjectionKey in user/readModels.ts).      *)
(***************************************************************************)
THEOREM KeyTellsTheBookmark ==
    ASSUME NEW decimal \in [Nat -> Texts],
           \A n \in Nat : colonFree(decimal[n]),
           \A m, n \in Nat : decimal[m] = decimal[n] => m = n,
           NEW userId \in Texts, NEW articleId \in Texts,
           NEW otherUser \in Texts, NEW otherArticle \in Texts,
           bookmarkProjectionKey(decimal, userId, articleId)
             = bookmarkProjectionKey(decimal, otherUser, otherArticle)
    PROVE  userId = otherUser /\ articleId = otherArticle
<1> DEFINE d == decimal[Len(userId)]
           e == decimal[Len(otherUser)]
           c == <<Colon>>
           rest == cat(cat(userId, c), articleId)
           otherRest == cat(cat(otherUser, c), otherArticle)
<1>1. Len(userId) \in Nat /\ Len(otherUser) \in Nat
  BY Lengths
<1>2. d \in Texts /\ colonFree(d) /\ e \in Texts /\ colonFree(e) /\ c \in Texts
  <2>1. c \in Texts
    BY Lengths
  <2> QED BY <1>1, <2>1
<1>3. Len(d) \in Nat /\ Len(e) \in Nat
  BY <1>2, Lengths
<1>4. cat(cat(cat(cat(d, c), userId), c), articleId)
        = cat(cat(cat(cat(e, c), otherUser), c), otherArticle)
  BY DEF bookmarkProjectionKey, cat
<1>5. d = e => Len(userId) = Len(otherUser)
  BY <1>1
<1> HIDE DEF d, e, c
<1>6. /\ cat(d, c) \in Texts /\ cat(e, c) \in Texts
      /\ cat(userId, c) \in Texts /\ cat(otherUser, c) \in Texts
      /\ rest \in Texts /\ otherRest \in Texts
  BY <1>2, CatIsText
<1>7. cat(cat(d, c), rest) = cat(cat(e, c), otherRest)
  <2>1. ASSUME NEW s \in Texts, NEW u \in Texts, NEW a \in Texts
        PROVE  cat(cat(cat(s, u), c), a) = cat(s, cat(cat(u, c), a))
    BY <1>2, CatIsText, CatAssociative
  <2> QED BY <1>4, <1>6, <2>1
<1> HIDE DEF rest, otherRest
\* The lengths are written up to the first colon.
<1>8. Len(d) = Len(e)
  <2>1. Len(e) <= Len(d)
    BY <1>2, <1>6, <1>7, NotBeyondTheColon DEF c
  <2>2. Len(d) <= Len(e)
    BY <1>2, <1>6, <1>7, NotBeyondTheColon DEF c
  <2> QED BY <1>3, <2>1, <2>2
<1>9. cat(d, c) = cat(e, c) /\ rest = otherRest
  <2>1. Len(cat(d, c)) = Len(cat(e, c))
    <3>1. Len(cat(d, c)) = Len(d) + Len(c) /\ Len(cat(e, c)) = Len(e) + Len(c)
      BY <1>2, CatIsText
    <3> QED BY <1>8, <3>1, Zenon
  <2> QED BY <1>6, <1>7, <2>1, SameCut
<1>10. Len(userId) = Len(otherUser)
  BY <1>2, <1>5, <1>8, <1>9, SameCut
\* The user's identity is as long as it is written to be.
<1>11. cat(userId, c) = cat(otherUser, c) /\ articleId = otherArticle
  <2>1. Len(cat(userId, c)) = Len(cat(otherUser, c))
    <3>1. /\ Len(cat(userId, c)) = Len(userId) + Len(c)
          /\ Len(cat(otherUser, c)) = Len(otherUser) + Len(c)
      BY <1>2, CatIsText
    <3> QED BY <1>10, <3>1, Zenon
  <2> QED BY <1>6, <1>9, <2>1, SameCut DEF rest, otherRest
<1>12. userId = otherUser
  BY <1>2, <1>10, <1>11, SameCut
<1> QED BY <1>11, <1>12
=============================================================================
