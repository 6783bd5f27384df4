------------------------------ MODULE MCMpInit ------------------------------
(* Small instances of MpInit for TLC. *)
EXTENDS MpInit

CONSTANTS a1, a2

=============================================================================
