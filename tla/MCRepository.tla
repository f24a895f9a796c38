---------------------------- MODULE MCRepository ----------------------------
(***************************************************************************)
(* Repository for TLC: callers are interchangeable, and so are             *)
(* repositories.                                                           *)
(***************************************************************************)
EXTENDS RepositoryRefinement

RepositorySymmetry == Permutations(Callers) \cup Permutations(Repositories)
=============================================================================
