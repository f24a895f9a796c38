----------------------------- MODULE MCProjector -----------------------------
(***************************************************************************)
(* Projector for TLC: for safety alone, projectors are interchangeable.    *)
(***************************************************************************)
EXTENDS Projector

ProjectorSymmetry == Permutations(Projectors)
=============================================================================
