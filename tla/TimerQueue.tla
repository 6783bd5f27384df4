----------------------------- MODULE TimerQueue -----------------------------
(***************************************************************************)
(* The timer queue of lib/timer_queue.c, a binary min-heap in an array.    *)
(* One step is one iteration of a loop; nothing but time goes on           *)
(* meanwhile, and that is read once, at the beginning of a call.           *)
(*                                                                         *)
(* The callers are the environment: they schedule a callback that is not   *)
(* in the queue, as thread_yield_timed_callback() and a callback that      *)
(* schedules itself again do, for any unsigned long of microseconds.  The  *)
(* structure of a callback that is not in the queue is its owner's, and    *)
(* its expiration is kept at 0.                                            *)
(***************************************************************************)
EXTENDS Integers

CONSTANTS
  Tocbs,         \* the struct timeout_callback objects
  NoTocb,        \* NULL
  max_entries,   \* MAX_TIMER_QUEUE_ENTRIES
  LONG_MAX,      \* largest value of a long
  Horizon        \* bound: nothing is scheduled any more from this time on

ASSUME TimerAssumption ==
  /\ NoTocb \notin Tocbs
  /\ max_entries \in Nat \ {0}
  /\ LONG_MAX \in Nat \ {0}
  /\ Horizon \in 0 .. LONG_MAX

ULONG_MAX == 2 * LONG_MAX + 1
long == -(LONG_MAX + 1) .. LONG_MAX

VARIABLES
  queue,         \* global_timer_queue.queue
  num_entries,   \* global_timer_queue.num_entries
  expiration,    \* tocb->expiration
  now,           \* the monotonic time
  pc,            \* between two calls, or in the loop of insert or remove_head
  index,         \* local of both loops
  tocb           \* local of both loops: the callback that is moved

heap == <<queue, num_entries>>
loop == <<pc, index, tocb>>
vars == <<heap, expiration, now, loop>>

Slots == 0 .. max_entries - 1

Init ==
  /\ queue = [i \in Slots |-> NoTocb]
  /\ num_entries = 0
  /\ expiration = [t \in Tocbs |-> 0]
  /\ now = 0
  /\ pc = "idle" /\ index = 0 /\ tocb = NoTocb

Queued == {queue[i] : i \in 0 .. num_entries - 1}

\* mono_time_add_usecs(): an addition of longs, assumed to wrap.  In C its overflow is
\* undefined, and the build does not ask for wrapping (-Os without -fwrapv): a compiler
\* may drop the check of timer_sched_callback(), which rests on it.
WrappedSum(a, b) == IF a + b > LONG_MAX THEN a + b - ULONG_MAX - 1 ELSE a + b

Return == pc' = "idle" /\ index' = 0 /\ tocb' = NoTocb

Swapped(i, j) == [queue EXCEPT ![i] = queue[j], ![j] = queue[i]]

-----------------------------------------------------------------------------
(* timer_sched_callback *)

\* Mutant: an expiration that wrapped is accepted.
DelayOk_any(us) == us <= LONG_MAX

\* The delay is not negative as a long, and the expiration did not overflow.
DelayOk(us) ==
  /\ us <= LONG_MAX
  /\ us # 0 => now < WrappedSum(now, us)

timer_queue_full == num_entries = max_entries

\* Nothing the library keeps is changed.
Refused(t, us) ==
  /\ pc = "idle" /\ now < Horizon
  /\ t \notin Queued
  /\ ~DelayOk(us) \/ timer_queue_full
  /\ UNCHANGED vars

\* timer_queue_insert(), up to its loop: the new one is last.
Insert(t, us) ==
  /\ pc = "idle" /\ now < Horizon
  /\ t \notin Queued
  /\ DelayOk(us) /\ ~timer_queue_full
  /\ expiration' = [expiration EXCEPT ![t] = WrappedSum(now, us)]
  /\ queue' = [queue EXCEPT ![num_entries] = t]
  /\ num_entries' = num_entries + 1
  /\ pc' = "insert" /\ index' = num_entries /\ tocb' = t
  /\ UNCHANGED now

Parent(i) == (i - 1) \div 2

\* One turn of the loop: up, past a parent that is due later.
BubbleUp ==
  /\ pc = "insert"
  /\ IF index # 0 /\ expiration[queue[Parent(index)]] > expiration[tocb]
     THEN /\ queue' = Swapped(index, Parent(index))
          /\ index' = Parent(index)
          /\ UNCHANGED <<pc, tocb>>
     ELSE Return /\ UNCHANGED queue
  /\ UNCHANGED <<num_entries, expiration, now>>

-----------------------------------------------------------------------------
(* timers_run *)

\* Mutant: the left child, although the right one may be due earlier.
timer_queue_min_child_index_left(i) ==
  IF 2 * i + 1 >= num_entries THEN -1 ELSE 2 * i + 1

timer_queue_min_child_index(i) ==
  LET left == 2 * i + 1
      right == left + 1
  IN  IF left >= num_entries THEN -1
      ELSE IF right >= num_entries THEN left
      ELSE IF expiration[queue[left]] < expiration[queue[right]] THEN left ELSE right

\* timer_queue_expired() has a callback to return.
Expired == num_entries > 0 /\ now >= expiration[queue[0]]

(***************************************************************************)
(* The head is taken out and will be called; the last one takes its place  *)
(* (timer_queue_remove_head, up to its loop).                              *)
(***************************************************************************)
RemoveHead ==
  /\ pc = "idle" /\ Expired
  /\ num_entries' = num_entries - 1
  /\ queue' = [queue EXCEPT ![0] = queue[num_entries - 1]]
  /\ pc' = "remove" /\ index' = 0 /\ tocb' = queue[num_entries - 1]
  /\ expiration' = [expiration EXCEPT ![queue[0]] = 0]
  /\ UNCHANGED now

\* One turn of the loop: down, past a child that is due earlier.
BubbleDown ==
  LET child == timer_queue_min_child_index(index)
  IN  /\ pc = "remove"
      /\ IF child >= 0 /\ expiration[tocb] > expiration[queue[child]]
         THEN /\ queue' = Swapped(index, child)
              /\ index' = child
              /\ UNCHANGED <<pc, tocb>>
         ELSE Return /\ UNCHANGED queue
      /\ UNCHANGED <<num_entries, expiration, now>>

-----------------------------------------------------------------------------
Tick ==
  /\ now < LONG_MAX
  /\ now' = now + 1
  /\ UNCHANGED <<heap, expiration, loop>>

Next ==
  \/ \E t \in Tocbs, us \in 0 .. ULONG_MAX : Refused(t, us) \/ Insert(t, us)
  \/ BubbleUp \/ RemoveHead \/ BubbleDown \/ Tick

Spec == Init /\ [][Next]_vars

\* The boot state machine and the idle thread keep calling timers_run(), the
\* loops end by themselves, and time passes.
FairSpec ==
  Spec /\ WF_vars(RemoveHead) /\ WF_vars(BubbleUp) /\ WF_vars(BubbleDown) /\ WF_vars(Tick)

-----------------------------------------------------------------------------
(* Properties *)

\* Types; the loops stay inside the array, and the callback they move is where
\* they think it is.
TypeOK ==
  /\ queue \in [Slots -> Tocbs \cup {NoTocb}]
  /\ num_entries \in 0 .. max_entries
  /\ \A i \in 0 .. num_entries - 1 : queue[i] \in Tocbs
  /\ expiration \in [Tocbs -> long]
  /\ now \in 0 .. LONG_MAX
  /\ pc \in {"idle", "insert", "remove"}
  /\ index \in Slots
  /\ tocb \in Tocbs \cup {NoTocb}
  /\ pc # "idle" => tocb \in Tocbs /\ queue[index] = tocb

(***************************************************************************)
(* Between two calls the array is a heap: no callback is due before the    *)
(* one at its parent's index.                                              *)
(***************************************************************************)
HeapOrdered ==
  pc = "idle" => \A i \in 1 .. num_entries - 1 :
                   expiration[queue[Parent(i)]] <= expiration[queue[i]]

\* No callback is in the queue twice, at any point of the loops.
OnceQueued ==
  \A i, j \in 0 .. num_entries - 1 : queue[i] = queue[j] => i = j

\* The array is in order, at the limits of the queue too.
HeapSound == TypeOK /\ HeapOrdered /\ OnceQueued

(***************************************************************************)
(* The heap implements the promise of timer.h: callbacks come out in the   *)
(* order of their expiration, none early and each in the end, for delays   *)
(* up to the largest one, with the queue full and after any history.       *)
(***************************************************************************)
Promise == INSTANCE TimerSet WITH pending <- Queued
KeepsPromise == Promise!Spec /\ Promise!AllFire
=============================================================================
