------------------------------ MODULE MCCbmem -------------------------------
(* Small instances of Cbmem for TLC. *)
EXTENDS Cbmem, TLC

CONSTANTS i1, i2, i3, i4, i5, i6

\* The ids are interchangeable.
Symmetry == Permutations(Ids)
=============================================================================
