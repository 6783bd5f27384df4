------------------------------ MODULE TimerSet ------------------------------
(***************************************************************************)
(* What the timer library promises (include/timer.h): a set of pending     *)
(* callbacks, each of which is taken out once, not before its time, and    *)
(* never ahead of one that is due earlier.                                 *)
(***************************************************************************)
EXTENDS Integers

CONSTANT Tocbs    \* the struct timeout_callback objects

VARIABLES
  pending,      \* the callbacks that were accepted and not yet called
  expiration,   \* when they are due
  now           \* the monotonic time

vars == <<pending, expiration, now>>

Init == pending = {} /\ expiration \in [Tocbs -> Int] /\ now = 0

Tick == now' > now /\ UNCHANGED <<pending, expiration>>

\* Only t gets another expiration.
SetExpiration(t) == expiration' = [expiration EXCEPT ![t] = expiration'[t]]

\* Accepted: due at once or later.
Schedule(t) ==
  /\ t \notin pending
  /\ pending' = pending \cup {t}
  /\ SetExpiration(t) /\ expiration'[t] >= now
  /\ UNCHANGED now

\* The callback that is due first is called, when its time has come, and its
\* structure is its owner's again.
Fire(t) ==
  /\ t \in pending
  /\ expiration[t] <= now
  /\ \A u \in pending : expiration[t] <= expiration[u]
  /\ pending' = pending \ {t}
  /\ SetExpiration(t)
  /\ UNCHANGED now

Next == Tick \/ \E t \in Tocbs : Schedule(t) \/ Fire(t)

Spec == Init /\ [][Next]_vars

\* A callback that was accepted is called in the end.
AllFire == \A t \in Tocbs : t \in pending ~> t \notin pending
=============================================================================
