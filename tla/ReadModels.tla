----------------------------- MODULE ReadModels -----------------------------
(***************************************************************************)
(* What the application layer answers: the receipts of commands and the    *)
(* two list queries (packages/application/src/counter/readModels.ts,       *)
(* user/readModels.ts and the handlers under queries/).  The queries read  *)
(* the whole log their own way, not through the repository: ListCounters   *)
(* groups by the identity inside the event, ListArticles folds the events  *)
(* of all users into one map.                                              *)
(***************************************************************************)
EXTENDS Aggregates, SequencesExt

CONSTANT Catalog   \* articleCatalog; a toggle may name any article, listed or not

ASSUME CatalogAssumption == Catalog \subseteq ArticleIds /\ IsFiniteSet(Catalog)

\* Mutant: the receipt describes the aggregate before the event.
receiptOfLoaded(slice, aggregate) ==
    IF slice = "counter" THEN [version |-> expectedVersion(aggregate)]
    ELSE [bookmarkedArticleIds |-> bookmarkedArticleIds(aggregate.state)]

\* A counter's receipt names the version reached, a user's the bookmarks held.
receiptOf(slice, aggregate) ==
    IF slice = "counter" THEN [version |-> aggregate.version]
    ELSE [bookmarkedArticleIds |-> bookmarkedArticleIds(aggregate.state)]

\* Mutant: the starting sequence number is taken for an exclusive bound.
fetchAllAfterFirst(slice, records) ==
    {i \in recordsFromSequenceNumber(records, firstSequenceNumber + 1) :
        belongsToSlice(slice, records[i].event)}

fetchAll(slice, records) ==
    {i \in recordsFromSequenceNumber(records, firstSequenceNumber) :
        belongsToSlice(slice, records[i].event)}

-----------------------------------------------------------------------------
\* A stream that was never created has no summary.
counterSummaryOf(aggregate) ==
    IF aggregate.state.tag = "CounterNotCreated" THEN {}
    ELSE {[tag |-> aggregate.state.tag, counterId |-> aggregate.state.counterId,
           value |-> aggregate.state.value, version |-> aggregate.version]}

groupByCounterId(records, id) ==
    {i \in fetchAll("counter", records) : records[i].event.counterId = id}

ListCounters(records) ==
    UNION {counterSummaryOf(
              replayAggregate("counter", records, groupByCounterId(records, id))[Len(records)]) :
           id \in {records[i].event.counterId : i \in fetchAll("counter", records)}}

-----------------------------------------------------------------------------
\* An absent key of the projection's map reads as FALSE.
initialBookmarkProjectionState == [key \in UserIds \X ArticleIds |-> FALSE]

\* Mutant: removals are not projected.
applyBookmarkEventSticky(bookmarks, event) ==
    [bookmarks EXCEPT ![<<event.userId, event.articleId>>] = TRUE]

applyBookmarkEvent(bookmarks, event) ==
    [bookmarks EXCEPT ![<<event.userId, event.articleId>>] = (event.tag = "ArticleBookmarked")]

\* Entry n is the map after the first n records of the log.
bookmarkProjection(records) ==
    LET kept == fetchAll("user", records)
        after[n \in 0 .. Len(records)] ==
            IF n = 0 THEN initialBookmarkProjectionState
            ELSE IF n \in kept THEN applyBookmarkEvent(after[n - 1], records[n].event)
            ELSE after[n - 1]
    IN  after

\* The catalog's articles and, for each, whether the user has bookmarked it.
ListArticles(records, userId) ==
    [articleId \in Catalog |-> bookmarkProjection(records)[Len(records)][<<userId, articleId>>]]
=============================================================================
