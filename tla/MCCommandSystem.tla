-------------------------- MODULE MCCommandSystem --------------------------
(***************************************************************************)
(* CommandSystem for TLC: the fibers are interchangeable.                  *)
(***************************************************************************)
EXTENDS CommandSystem, TLC

HandlerSymmetry == Permutations(Handlers)
=============================================================================
