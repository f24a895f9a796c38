-------------------------- MODULE MCJsonFileStore --------------------------
(***************************************************************************)
(* JsonFileStore for TLC: the workers are interchangeable.                 *)
(***************************************************************************)
EXTENDS JsonFileStore

WorkerSymmetry == Permutations(Workers)
=============================================================================
