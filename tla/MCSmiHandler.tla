---------------------------- MODULE MCSmiHandler ----------------------------
(* Small instances of SmiHandler for TLC. *)
EXTENDS SmiHandler

CONSTANTS c1, c2, e1, e2
=============================================================================
