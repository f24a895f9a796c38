---------------------------- MODULE BookmarkKey ----------------------------
(***************************************************************************)
(* The key under which the bookmark projection keeps an article of a user  *)
(* (packages/application/src/user/readModels.ts): the length of the user's *)
(* identity, the identity and the article's, between colons that either    *)
(* identity may contain as well.  ReadModels has the pair as the key.      *)
(*                                                                         *)
(* A text is a sequence of characters.  How a length is written is a       *)
(* parameter, decimal, a function from numbers to texts.                   *)
(***************************************************************************)
EXTENDS Sequences, Naturals

Colon == ":"

\* Mutant: without the length.
bookmarkProjectionKeyUnprefixed(decimal, userId, articleId) ==
    userId \o <<Colon>> \o articleId

bookmarkProjectionKey(decimal, userId, articleId) ==
    decimal[Len(userId)] \o <<Colon>> \o userId \o <<Colon>> \o articleId
=============================================================================
