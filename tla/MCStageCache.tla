---------------------------- MODULE MCStageCache ----------------------------
(* Small instances of StageCache for TLC. *)
EXTENDS StageCache, TLC

CONSTANTS o1, o2, o3, o4, o5

\* The other users of CBMEM are interchangeable.
OtherSymmetry == Permutations(Ids \ StageIds)
=============================================================================
