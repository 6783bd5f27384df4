---------------------------- MODULE DataRegister ----------------------------
(* What a region file promises its user: a register that may lose its      *)
(* contents while it is updated, but never returns to older contents, and  *)
(* that holds the data of an update from the moment the update returned    *)
(* without an error, through any number of resets.                         *)
EXTENDS Integers

VARIABLES
  value,     \* NoData, Torn, or the number of the update whose data it holds
  pending,   \* the update in progress, 0 if there is none
  started,   \* the number of updates that were started
  done       \* the last update that returned without an error

NoData == 0
Torn   == -1

registerVars == <<value, pending, started, done>>

RegisterInit == value = NoData /\ pending = 0 /\ started = 0 /\ done = 0

Begin ==
  /\ pending = 0
  /\ started' = started + 1
  /\ pending' = started'
  /\ UNCHANGED <<value, done>>

\* While an update is in progress the old data may go; only new data can come.
Change ==
  /\ pending # 0
  /\ value' \in {value, NoData, Torn, pending}
  /\ UNCHANGED <<pending, started, done>>

Return ==
  /\ pending # 0
  /\ value = pending
  /\ done' = pending
  /\ pending' = 0
  /\ UNCHANGED <<value, started>>

\* An error or a reset ends the update where it is.
Abort ==
  /\ pending # 0
  /\ value' \in {value, NoData, Torn, pending}
  /\ pending' = 0
  /\ UNCHANGED <<started, done>>

RegisterNext == Begin \/ Change \/ Return \/ Abort

RegisterSpec == RegisterInit /\ [][RegisterNext]_registerVars
=============================================================================
