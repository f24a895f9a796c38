----------------------------- MODULE UserDomain -----------------------------
(***************************************************************************)
(* The user rules of packages/domain/src/user.  A user exists from its     *)
(* first bookmark event on and never stops existing; the only command      *)
(* toggles one bookmark and is never rejected.                             *)
(*                                                                         *)
(* The list of bookmarked articles is a set here: the reducer appends an   *)
(* article only when the list does not contain it and removal filters out  *)
(* every occurrence, so the list never repeats, and nothing reads its      *)
(* order.                                                                  *)
(***************************************************************************)
EXTENDS Decision

UserEventTags == {"ArticleBookmarked", "ArticleBookmarkRemoved"}

UserCommandTags == {"ToggleArticleBookmark"}

UserEvent(ids, articles) == [tag : UserEventTags, userId : ids, articleId : articles]

initialUserState == [tag |-> "UserDoesNotExist"]

UserState(ids, articles) ==
    {initialUserState} \cup
    [tag : {"ExistingUser"}, userId : ids, bookmarkedArticleIds : SUBSET articles]

bookmarkedArticleIds(state) ==
    IF state.tag = "UserDoesNotExist" THEN {} ELSE state.bookmarkedArticleIds

applyUserEvent(state, event) ==
    LET articleIds == bookmarkedArticleIds(state)
    IN  [tag |-> "ExistingUser",
         userId |-> event.userId,
         bookmarkedArticleIds |->
            IF event.tag = "ArticleBookmarked" THEN articleIds \cup {event.articleId}
            ELSE articleIds \ {event.articleId}]

toggleArticleBookmark(command, state) ==
    LET isBookmarked == command.articleId \in bookmarkedArticleIds(state)
    IN  accept([tag |-> IF isBookmarked THEN "ArticleBookmarkRemoved" ELSE "ArticleBookmarked",
                userId |-> command.id,
                articleId |-> command.articleId])
=============================================================================
