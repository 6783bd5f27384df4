-------------------------- MODULE TimerQueueProofs --------------------------
(* Machine-checked theorems about TimerQueue, for any number of callbacks, any *)
(* capacity of the queue and any width of a long: the array is a heap between  *)
(* two calls, and the heap implements the set of TimerSet.                     *)
EXTENDS TimerQueue, TLAPS, NaturalsInduction, WellFoundedInduction

\* When the callback at an index is due.
Due(i) == expiration[queue[i]]

Entries == 1 .. num_entries - 1

(***************************************************************************)
(* HeapOrdered speaks of the time between two calls only.  In the loop of  *)
(* insert the order may be broken between index and its parent, in the     *)
(* loop of remove_head between index and its children; and in both what is *)
(* below index is due no earlier than what is above it, which is what a    *)
(* swap needs to mend the one without breaking the other.                  *)
(***************************************************************************)
BelowAbove ==
  index # 0 => \A i \in Entries : Parent(i) = index => Due(Parent(index)) <= Due(i)

InsertInv ==
  /\ index \in 0 .. num_entries - 1
  /\ \A i \in Entries : i # index => Due(Parent(i)) <= Due(i)
  /\ BelowAbove

RemoveInv ==
  /\ index = 0 \/ index \in 0 .. num_entries - 1
  /\ \A i \in Entries : Parent(i) # index => Due(Parent(i)) <= Due(i)
  /\ BelowAbove

HeapInv ==
  /\ HeapSound
  /\ pc = "insert" => InsertInv
  /\ pc = "remove" => RemoveInv

-----------------------------------------------------------------------------
(* Indices                                                                 *)

LEMMA ParentFacts ==
  ASSUME NEW i \in Nat \ {0}
  PROVE  /\ Parent(i) \in Nat /\ Parent(i) < i
         /\ i = 2 * Parent(i) + 1 \/ i = 2 * Parent(i) + 2
BY SMT DEF Parent

LEMMA Swaps ==
  ASSUME queue \in [Slots -> Tocbs \cup {NoTocb}], NEW i \in Slots, NEW j \in Slots
  PROVE  /\ Swapped(i, j) \in [Slots -> Tocbs \cup {NoTocb}]
         /\ Swapped(i, j)[i] = queue[j] /\ Swapped(i, j)[j] = queue[i]
         /\ \A k \in Slots : k # i /\ k # j => Swapped(i, j)[k] = queue[k]
BY DEF Swapped

\* timer_queue_min_child_index(): a child that is due no later than the others.
LEMMA MinChild ==
  ASSUME TypeOK, NEW i \in Slots, NEW c, c = timer_queue_min_child_index(i)
  PROVE  \/ c = -1 /\ \A k \in Entries : Parent(k) # i
         \/ /\ c \in Entries /\ Parent(c) = i /\ i < c
            /\ \A k \in Entries : Parent(k) = i => Due(c) <= Due(k)
<1>1. num_entries \in Nat /\ num_entries <= max_entries /\ i \in Nat /\ max_entries \in Nat
  BY TimerAssumption DEF TypeOK, Slots
<1>2. \A k \in 0 .. num_entries - 1 : Due(k) \in Int
  BY <1>1, TimerAssumption DEF TypeOK, Due, long
<1>3. \A k \in Entries : Parent(k) = i => k = 2 * i + 1 \/ k = 2 * i + 2
  <2> SUFFICES ASSUME NEW k \in Entries, Parent(k) = i PROVE k = 2 * i + 1 \/ k = 2 * i + 2
    OBVIOUS
  <2>1. k \in Nat \ {0}
    BY <1>1 DEF Entries
  <2> QED BY <2>1, ParentFacts
<1>4. Parent(2 * i + 1) = i /\ Parent(2 * i + 2) = i
  BY <1>1 DEF Parent
<1>5. CASE 2 * i + 1 >= num_entries
  <2>1. c = -1
    BY <1>5 DEF timer_queue_min_child_index
  <2> QED BY <1>1, <1>3, <1>5, <2>1 DEF Entries
<1>6. CASE 2 * i + 1 < num_entries /\ 2 * i + 2 >= num_entries
  <2>1. c = 2 * i + 1
    BY <1>1, <1>6 DEF timer_queue_min_child_index
  <2>2. c \in Entries /\ i < c
    BY <1>1, <1>6, <2>1 DEF Entries
  <2>3. \A k \in Entries : Parent(k) = i => k = c
    BY <1>1, <1>3, <1>6, <2>1 DEF Entries
  <2>4. Due(c) \in Int
    BY <1>1, <1>2, <2>2 DEF Entries
  <2> QED BY <1>4, <2>1, <2>2, <2>3, <2>4
<1>7. CASE 2 * i + 2 < num_entries
  <2> DEFINE l == 2 * i + 1
             r == 2 * i + 2
  <2>1. c = IF Due(l) < Due(r) THEN l ELSE r
    BY <1>1, <1>7 DEF timer_queue_min_child_index, Due
  <2>2. l \in Entries /\ r \in Entries /\ i < l /\ i < r
    BY <1>1, <1>7 DEF Entries
  <2>3. Due(l) \in Int /\ Due(r) \in Int
    BY <1>1, <1>2, <2>2 DEF Entries
  <2>4. Parent(l) = i /\ Parent(r) = i /\ \A k \in Entries : Parent(k) = i => k = l \/ k = r
    BY <1>3, <1>4
  <2> HIDE DEF l, r
  <2> QED BY <2>1, <2>2, <2>3, <2>4
<1> QED
  BY <1>1, <1>5, <1>6, <1>7

-----------------------------------------------------------------------------
(* The steps                                                               *)

LEMMA InitHeap == Init => HeapInv
BY TimerAssumption DEF Init, HeapInv, HeapSound, TypeOK, HeapOrdered, OnceQueued, Slots, long

\* What the expiration of a callback can be.
LEMMA DelayFacts ==
  ASSUME TypeOK, NEW us \in 0 .. ULONG_MAX, DelayOk(us)
  PROVE  WrappedSum(now, us) \in long /\ now <= WrappedSum(now, us)
BY TimerAssumption DEF TypeOK, DelayOk, WrappedSum, ULONG_MAX, long

LEMMA InsertHeap ==
  ASSUME HeapInv, NEW t \in Tocbs, NEW us \in 0 .. ULONG_MAX, Insert(t, us)
  PROVE  HeapInv'
<1> DEFINE n == num_entries
<1>1. /\ n \in Nat /\ max_entries \in Nat /\ n < max_entries
      /\ num_entries' = n + 1 /\ index' = n /\ tocb' = t /\ pc' = "insert" /\ now' = now
      /\ pc = "idle"
  BY TimerAssumption DEF HeapInv, HeapSound, TypeOK, Insert, timer_queue_full
<1>2. /\ queue \in [Slots -> Tocbs \cup {NoTocb}] /\ expiration \in [Tocbs -> long]
      /\ \A i \in 0 .. n - 1 : i \in Slots /\ queue[i] \in Tocbs /\ queue[i] # t
  BY <1>1 DEF HeapInv, HeapSound, TypeOK, Slots, Insert, Queued
<1>3. /\ queue' = [queue EXCEPT ![n] = t] /\ n \in Slots
      /\ expiration' = [expiration EXCEPT ![t] = WrappedSum(now, us)]
  BY <1>1 DEF Insert, Slots
<1>4. WrappedSum(now, us) \in long
  BY DelayFacts DEF HeapInv, HeapSound, Insert
<1>5. /\ queue' \in [Slots -> Tocbs \cup {NoTocb}] /\ expiration' \in [Tocbs -> long]
      /\ queue'[n] = t /\ \A i \in 0 .. n - 1 : queue'[i] = queue[i] /\ Due(i)' = Due(i)
  BY <1>1, <1>2, <1>3, <1>4 DEF Due
<1>6. TypeOK'
  <2>1. \A i \in 0 .. num_entries' - 1 : queue'[i] \in Tocbs
    BY <1>1, <1>2, <1>5
  <2>2. now \in 0 .. LONG_MAX
    BY DEF HeapInv, HeapSound, TypeOK
  <2> QED BY <1>1, <1>3, <1>5, <2>1, <2>2 DEF TypeOK
<1>7. OnceQueued'
  <2>1. OnceQueued
    BY DEF HeapInv, HeapSound
  <2> QED BY <1>1, <1>2, <1>5, <2>1 DEF OnceQueued
<1>8. InsertInv'
  <2>1. \A i \in 1 .. n : Parent(i) \in 0 .. n - 1
    BY <1>1, ParentFacts
  <2>2. \A i \in 1 .. n - 1 : Due(Parent(i)) <= Due(i)
    BY <1>1 DEF HeapInv, HeapSound, HeapOrdered, Due
  <2>3. \A i \in 1 .. n - 1 : (Due(Parent(i)) <= Due(i))'
    BY <1>1, <1>5, <2>1, <2>2
  <2>4. \A i \in Entries' : i \in 1 .. n /\ Parent(i) # n /\ (i # n => i \in 1 .. n - 1)
    BY <1>1, <2>1 DEF Entries
  <2> QED BY <1>1, <2>3, <2>4 DEF InsertInv, BelowAbove
<1> QED
  BY <1>1, <1>6, <1>7, <1>8 DEF HeapInv, HeapSound, HeapOrdered

\* When what a step puts at an index is due.
DueNext(i) == expiration'[queue'[i]]

\* What a swap of two entries of the queue does to the types and to OnceQueued.
LEMMA SwapKeeps ==
  ASSUME HeapInv, NEW j \in 0 .. num_entries - 1, index \in 0 .. num_entries - 1,
         index # j, pc # "idle", queue' = Swapped(index, j), index' = j,
         UNCHANGED <<pc, tocb, num_entries, expiration, now>>
  PROVE  /\ TypeOK' /\ OnceQueued'
         /\ DueNext(index) = Due(j) /\ DueNext(j) = Due(index)
         /\ \A k \in 0 .. num_entries - 1 : k # index /\ k # j => DueNext(k) = Due(k)
         /\ Entries' = Entries
<1>1. /\ TypeOK /\ num_entries \in Nat /\ max_entries \in Nat /\ num_entries <= max_entries
      /\ queue \in [Slots -> Tocbs \cup {NoTocb}]
  BY TimerAssumption DEF HeapInv, HeapSound, TypeOK
<1>2. \A k \in 0 .. num_entries - 1 : k \in Slots
  BY <1>1 DEF Slots
<1>3. /\ queue' \in [Slots -> Tocbs \cup {NoTocb}]
      /\ queue'[index] = queue[j] /\ queue'[j] = queue[index]
      /\ \A k \in Slots : k # index /\ k # j => queue'[k] = queue[k]
  BY <1>1, <1>2, Swaps
<1>4. TypeOK'
  BY <1>1, <1>2, <1>3 DEF TypeOK
<1>5. OnceQueued'
  <2> SUFFICES ASSUME NEW a \in 0 .. num_entries - 1, NEW b \in 0 .. num_entries - 1,
                      queue'[a] = queue'[b]
               PROVE  a = b
    BY DEF OnceQueued
  <2> DEFINE s(k) == IF k = index THEN j ELSE IF k = j THEN index ELSE k
  <2>1. queue'[a] = queue[s(a)] /\ queue'[b] = queue[s(b)]
    BY <1>2, <1>3
  <2>2. s(a) \in 0 .. num_entries - 1 /\ s(b) \in 0 .. num_entries - 1
    OBVIOUS
  <2>3. s(a) = s(b)
    BY <2>1, <2>2 DEF HeapInv, HeapSound, OnceQueued
  <2> QED BY <2>3
<1> QED
  BY <1>2, <1>3, <1>4, <1>5 DEF Due, DueNext, Entries

\* The end of either loop.
LEMMA ReturnHeap ==
  ASSUME HeapInv, pc # "idle", Return, UNCHANGED <<queue, num_entries, expiration, now>>,
         \A i \in Entries : Due(Parent(i)) <= Due(i)
  PROVE  HeapInv'
<1>1. TypeOK' /\ OnceQueued'
  BY TimerAssumption DEF HeapInv, HeapSound, TypeOK, OnceQueued, Return, Slots
<1>2. HeapOrdered'
  BY DEF HeapOrdered, Due, Entries
<1> QED
  BY <1>1, <1>2 DEF HeapInv, HeapSound, Return

LEMMA DueInt ==
  ASSUME TypeOK
  PROVE  \A i \in 0 .. num_entries - 1 : Due(i) \in Int
BY TimerAssumption DEF TypeOK, Due, long

LEMMA EntryFacts ==
  ASSUME TypeOK, NEW i \in Entries
  PROVE  /\ i \in Nat \ {0} /\ i \in 0 .. num_entries - 1
         /\ Parent(i) \in 0 .. num_entries - 1 /\ Parent(i) < i
<1>1. num_entries \in Nat
  BY TimerAssumption DEF TypeOK
<1>2. i \in Nat \ {0} /\ i \in 0 .. num_entries - 1
  BY <1>1 DEF Entries
<1>3. Parent(i) \in Nat /\ Parent(i) < i
  BY <1>2, ParentFacts
<1> QED
  BY <1>1, <1>2, <1>3

LEMMA BubbleUpHeap == ASSUME HeapInv, BubbleUp PROVE HeapInv'
<1>1. TypeOK /\ InsertInv /\ pc = "insert"
  BY DEF HeapInv, HeapSound, BubbleUp
<1>2. Due(index) = expiration[tocb] /\ num_entries \in Nat /\ index \in 0 .. num_entries - 1
  BY <1>1, TimerAssumption DEF TypeOK, Due, InsertInv
<1> DEFINE p == Parent(index)
<1>3. CASE index # 0 /\ Due(p) > expiration[tocb]
  <2>1. index \in Entries
    BY <1>2, <1>3 DEF Entries
  <2>2. p \in 0 .. num_entries - 1 /\ p < index
    BY <1>1, <2>1, EntryFacts
  <2>3. /\ queue' = Swapped(index, p) /\ index' = p
        /\ UNCHANGED <<pc, tocb, num_entries, expiration, now>>
    BY <1>3 DEF BubbleUp, Due
  <2>4. /\ TypeOK' /\ OnceQueued' /\ Entries' = Entries
        /\ DueNext(index) = Due(p) /\ DueNext(p) = Due(index)
        /\ \A k \in 0 .. num_entries - 1 : k # index /\ k # p => DueNext(k) = Due(k)
    BY <1>1, <1>2, <2>2, <2>3, SwapKeeps
  <2>5. Due(p) > Due(index) /\ \A i \in 0 .. num_entries - 1 : Due(i) \in Int
    BY <1>1, <1>2, <1>3, DueInt
  <2>6. \A i \in Entries : i # index => Due(Parent(i)) <= Due(i)
    BY <1>1 DEF InsertInv
  <2>7. \A i \in Entries : Parent(i) = index => Due(p) <= Due(i)
    BY <1>1, <1>3 DEF InsertInv, BelowAbove
  <2>8. \A i \in Entries : /\ i \in Nat /\ i \in 0 .. num_entries - 1
                           /\ Parent(i) \in 0 .. num_entries - 1 /\ Parent(i) < i
    BY <1>1, EntryFacts
  <2>9. ASSUME NEW i \in Entries, i # p PROVE DueNext(Parent(i)) <= DueNext(i)
    <3>1. i \in 0 .. num_entries - 1 /\ Parent(i) \in 0 .. num_entries - 1 /\ Parent(i) < i
      BY <2>8
    <3>2. CASE i = index
      <4>1. DueNext(i) = Due(p) /\ DueNext(Parent(i)) = Due(index)
        BY <2>4, <3>2
      <4> QED BY <2>2, <2>5, <4>1, <1>2
    <3>3. CASE i # index /\ Parent(i) = p
      <4>1. DueNext(i) = Due(i) /\ DueNext(Parent(i)) = Due(index) /\ Due(p) <= Due(i)
        BY <2>4, <2>6, <2>9, <3>1, <3>3
      <4> QED BY <2>2, <2>5, <3>1, <4>1, <1>2
    <3>4. CASE i # index /\ Parent(i) = index
      <4>1. DueNext(i) = Due(i) /\ DueNext(Parent(i)) = Due(p) /\ Due(p) <= Due(i)
        BY <2>4, <2>7, <2>9, <3>1, <3>4
      <4> QED BY <4>1
    <3>5. CASE i # index /\ Parent(i) # index /\ Parent(i) # p
      <4>1. DueNext(i) = Due(i) /\ DueNext(Parent(i)) = Due(Parent(i))
        BY <2>4, <2>9, <3>1, <3>5
      <4> QED BY <2>6, <3>5, <4>1
    <3> QED BY <3>2, <3>3, <3>4, <3>5
  <2>10. ASSUME p # 0, NEW i \in Entries, Parent(i) = p PROVE DueNext(Parent(p)) <= DueNext(i)
    <3>1. p \in Entries /\ p # index
      BY <1>2, <2>2, <2>10 DEF Entries
    <3>2. Parent(p) \in 0 .. num_entries - 1 /\ Parent(p) < p /\ p \in Nat /\ i > p
      BY <2>8, <2>10, <3>1
    <3>3. DueNext(Parent(p)) = Due(Parent(p)) /\ Due(Parent(p)) <= Due(p)
      BY <1>2, <2>2, <2>4, <2>6, <3>1, <3>2
    <3>4. Due(p) <= DueNext(i)
      <4>1. CASE i = index
        BY <2>2, <2>4, <2>5, <4>1
      <4>2. CASE i # index
        <5>1. i \in 0 .. num_entries - 1 /\ i # p
          BY <2>8, <3>2
        <5>2. DueNext(i) = Due(i)
          BY <2>4, <4>2, <5>1
        <5> QED BY <2>6, <2>10, <4>2, <5>2
      <4> QED BY <4>1, <4>2
    <3>5. DueNext(i) \in Int
      <4>1. \A k \in 0 .. num_entries' - 1 : DueNext(k) \in Int
        <5>1. /\ expiration' \in [Tocbs -> long]
              /\ \A k \in 0 .. num_entries' - 1 : queue'[k] \in Tocbs
          BY <2>4 DEF TypeOK
        <5>2. long \subseteq Int
          BY TimerAssumption DEF long
        <5> QED BY <5>1, <5>2 DEF DueNext
      <4> QED BY <2>3, <2>8, <4>1
    <3> QED BY <2>2, <2>5, <3>2, <3>3, <3>4, <3>5
  <2>11. InsertInv'
    BY <2>2, <2>3, <2>4, <2>9, <2>10 DEF InsertInv, BelowAbove, Due, DueNext
  <2> QED BY <1>1, <2>3, <2>4, <2>11 DEF HeapInv, HeapSound, HeapOrdered
<1>4. CASE ~(index # 0 /\ Due(p) > expiration[tocb])
  <2>1. Return /\ UNCHANGED <<queue, num_entries, expiration, now>>
    BY <1>4 DEF BubbleUp, Due
  <2>2. ASSUME NEW i \in Entries PROVE Due(Parent(i)) <= Due(i)
    <3>1. CASE i # index
      BY <1>1, <3>1 DEF InsertInv
    <3>2. CASE i = index
      <4>1. index # 0 /\ p \in 0 .. num_entries - 1
        BY <1>1, <3>2, EntryFacts
      <4>2. Due(p) \in Int /\ Due(index) \in Int
        BY <1>1, <1>2, <4>1, DueInt
      <4> QED BY <1>2, <1>4, <3>2, <4>1, <4>2
    <3> QED BY <3>1, <3>2
  <2> QED BY <1>1, <2>1, <2>2, ReturnHeap
<1> QED
  BY <1>3, <1>4

LEMMA RemoveHeadHeap == ASSUME HeapInv, RemoveHead PROVE HeapInv'
<1> DEFINE n == num_entries
<1>1. /\ TypeOK /\ OnceQueued /\ HeapOrdered /\ pc = "idle" /\ n \in Nat /\ n > 0
      /\ max_entries \in Nat /\ n <= max_entries
      /\ num_entries' = n - 1 /\ index' = 0 /\ tocb' = queue[n - 1] /\ pc' = "remove" /\ now' = now
      /\ queue' = [queue EXCEPT ![0] = queue[n - 1]]
      /\ expiration' = [expiration EXCEPT ![queue[0]] = 0]
  BY TimerAssumption DEF HeapInv, HeapSound, TypeOK, RemoveHead, Expired
<1>2. /\ queue \in [Slots -> Tocbs \cup {NoTocb}] /\ expiration \in [Tocbs -> long]
      /\ \A i \in 0 .. n - 1 : i \in Slots /\ queue[i] \in Tocbs
  BY <1>1 DEF TypeOK, Slots
<1>3. /\ queue' \in [Slots -> Tocbs \cup {NoTocb}] /\ queue'[0] = queue[n - 1]
      /\ \A i \in 1 .. n - 1 : queue'[i] = queue[i]
  BY <1>1, <1>2
<1>4. 0 \in long
  BY TimerAssumption DEF long
<1>5. \A i \in 1 .. n - 1 : queue[i] # queue[0]
  BY <1>1 DEF OnceQueued
<1>6. \A i \in 1 .. n - 1 : DueNext(i) = Due(i)
  BY <1>1, <1>2, <1>3, <1>5 DEF Due, DueNext
<1>7. TypeOK'
  BY <1>1, <1>2, <1>3, <1>4 DEF TypeOK
<1>8. OnceQueued'
  <2> SUFFICES ASSUME NEW a \in 0 .. n - 2, NEW b \in 0 .. n - 2, queue'[a] = queue'[b]
               PROVE  a = b
    BY <1>1 DEF OnceQueued
  <2> DEFINE s(k) == IF k = 0 THEN n - 1 ELSE k
  <2>1. queue'[a] = queue[s(a)] /\ queue'[b] = queue[s(b)]
    BY <1>1, <1>3
  <2>2. s(a) \in 0 .. n - 1 /\ s(b) \in 0 .. n - 1
    BY <1>1
  <2>3. s(a) = s(b)
    BY <1>1, <2>1, <2>2 DEF OnceQueued
  <2> QED BY <1>1, <2>3
<1>9. RemoveInv'
  <2>1. ASSUME NEW i \in Entries', Parent(i) # 0 PROVE DueNext(Parent(i)) <= DueNext(i)
    <3>1. i \in Entries
      BY <1>1 DEF Entries
    <3>2. i \in 1 .. n - 1 /\ Parent(i) \in 1 .. n - 1
      BY <1>1, <2>1, <3>1, EntryFacts DEF Entries
    <3>3. Due(Parent(i)) <= Due(i)
      BY <1>1, <3>2 DEF HeapOrdered, Due
    <3> QED BY <1>6, <3>2, <3>3
  <2> QED BY <1>1, <2>1 DEF RemoveInv, BelowAbove, Due, DueNext
<1> QED
  BY <1>1, <1>7, <1>8, <1>9 DEF HeapInv, HeapSound, HeapOrdered

LEMMA BubbleDownHeap == ASSUME HeapInv, BubbleDown PROVE HeapInv'
<1> DEFINE c == timer_queue_min_child_index(index)
<1>1. TypeOK /\ RemoveInv /\ pc = "remove" /\ index \in Slots
  BY DEF HeapInv, HeapSound, BubbleDown, TypeOK
<1>2. Due(index) = expiration[tocb] /\ num_entries \in Nat
  BY <1>1, TimerAssumption DEF TypeOK, Due
<1>3. \/ c = -1 /\ \A k \in Entries : Parent(k) # index
      \/ /\ c \in Entries /\ Parent(c) = index /\ index < c
         /\ \A k \in Entries : Parent(k) = index => Due(c) <= Due(k)
  BY <1>1, MinChild
<1>4. \A i \in Entries : /\ i \in Nat /\ i \in 0 .. num_entries - 1
                         /\ Parent(i) \in 0 .. num_entries - 1 /\ Parent(i) < i
  BY <1>1, EntryFacts
<1>5. \A i \in 0 .. num_entries - 1 : Due(i) \in Int
  BY <1>1, DueInt
<1>6. /\ \A i \in Entries : Parent(i) # index => Due(Parent(i)) <= Due(i)
      /\ \A i \in Entries : index # 0 /\ Parent(i) = index => Due(Parent(index)) <= Due(i)
  BY <1>1 DEF RemoveInv, BelowAbove
<1>7. CASE c >= 0 /\ expiration[tocb] > Due(c)
  <2>1. /\ queue' = Swapped(index, c) /\ index' = c
        /\ UNCHANGED <<pc, tocb, num_entries, expiration, now>>
    BY <1>7 DEF BubbleDown, Due
  <2> HIDE DEF c
  <2>2. /\ c \in Entries /\ Parent(c) = index /\ index < c
        /\ \A k \in Entries : Parent(k) = index => Due(c) <= Due(k)
        /\ c \in Nat /\ c \in 0 .. num_entries - 1 /\ index \in 0 .. num_entries - 1
    BY <1>3, <1>4, <1>7
  <2>3. /\ TypeOK' /\ OnceQueued' /\ Entries' = Entries
        /\ DueNext(index) = Due(c) /\ DueNext(c) = Due(index)
        /\ \A k \in 0 .. num_entries - 1 : k # index /\ k # c => DueNext(k) = Due(k)
    BY <1>1, <2>1, <2>2, SwapKeeps
  <2>4. Due(c) < Due(index)
    BY <1>2, <1>5, <1>7, <2>2
  <2>5. ASSUME NEW i \in Entries, Parent(i) # c PROVE DueNext(Parent(i)) <= DueNext(i)
    <3>1. i \in 0 .. num_entries - 1 /\ Parent(i) \in 0 .. num_entries - 1 /\ Parent(i) < i
      BY <1>4
    <3>2. CASE i = c
      <4>1. DueNext(Parent(i)) = Due(c) /\ DueNext(i) = Due(index)
        BY <2>2, <2>3, <3>2
      <4> QED BY <1>5, <2>2, <2>4, <4>1
    <3>3. CASE i # c /\ Parent(i) = index
      <4>1. DueNext(Parent(i)) = Due(c) /\ DueNext(i) = Due(i)
        BY <2>2, <2>3, <3>1, <3>3
      <4> QED BY <2>2, <3>3, <4>1
    <3>4. CASE i # c /\ Parent(i) # index /\ i = index
      <4>1. DueNext(Parent(i)) = Due(Parent(i)) /\ DueNext(i) = Due(c)
        BY <2>3, <2>5, <3>1, <3>4
      <4>2. index # 0
        BY <1>4, <3>4 DEF Entries
      <4> QED BY <1>6, <2>2, <3>4, <4>1, <4>2
    <3>5. CASE i # c /\ Parent(i) # index /\ i # index
      <4>1. DueNext(Parent(i)) = Due(Parent(i)) /\ DueNext(i) = Due(i)
        BY <2>3, <2>5, <3>1, <3>5
      <4> QED BY <1>6, <3>5, <4>1
    <3> QED BY <3>2, <3>3, <3>4, <3>5
  <2>6. ASSUME NEW i \in Entries, Parent(i) = c PROVE DueNext(Parent(c)) <= DueNext(i)
    <3>1. i \in 0 .. num_entries - 1 /\ c < i
      BY <1>4, <2>6
    <3>2. DueNext(Parent(c)) = Due(c) /\ DueNext(i) = Due(i)
      BY <2>2, <2>3, <3>1
    <3>3. Parent(i) # index
      BY <2>2, <2>6
    <3> QED BY <1>6, <2>6, <3>2, <3>3
  <2>7. RemoveInv'
    BY <2>1, <2>2, <2>3, <2>5, <2>6 DEF RemoveInv, BelowAbove, Due, DueNext
  <2> QED BY <1>1, <2>1, <2>3, <2>7 DEF HeapInv, HeapSound, HeapOrdered
<1>8. CASE ~(c >= 0 /\ expiration[tocb] > Due(c))
  <2>1. Return /\ UNCHANGED <<queue, num_entries, expiration, now>>
    BY <1>8 DEF BubbleDown, Due
  <2> HIDE DEF c
  <2>2. ASSUME NEW i \in Entries, Parent(i) = index PROVE Due(index) <= Due(i)
    <3>1. c \in Entries /\ Due(c) <= Due(i)
      BY <1>3, <2>2
    <3>2. c \in 0 .. num_entries - 1 /\ i \in 0 .. num_entries - 1 /\ index \in 0 .. num_entries - 1
      BY <1>4, <2>2, <3>1
    <3>3. Due(c) \in Int /\ Due(i) \in Int /\ Due(index) \in Int
      BY <1>5, <3>2
    <3> QED BY <1>2, <1>8, <3>1, <3>2, <3>3
  <2>3. \A i \in Entries : Due(Parent(i)) <= Due(i)
    BY <1>6, <2>2
  <2> QED BY <1>1, <2>1, <2>3, ReturnHeap
<1> QED
  BY <1>7, <1>8

LEMMA StepHeap == HeapInv /\ [Next]_vars => HeapInv'
<1> SUFFICES ASSUME HeapInv, [Next]_vars PROVE HeapInv'
  OBVIOUS
<1>1. CASE UNCHANGED <<heap, expiration, loop>> /\ now' \in 0 .. LONG_MAX
  BY <1>1 DEF heap, loop, HeapInv, HeapSound, TypeOK, HeapOrdered, OnceQueued, InsertInv,
              RemoveInv, BelowAbove, Entries, Due
<1>2. CASE UNCHANGED vars
  BY <1>1, <1>2 DEF vars, HeapInv, HeapSound, TypeOK
<1>3. CASE Tick
  BY <1>1, <1>3, TimerAssumption DEF Tick, HeapInv, HeapSound, TypeOK
<1>4. ASSUME NEW t \in Tocbs, NEW us \in 0 .. ULONG_MAX, Refused(t, us) PROVE HeapInv'
  BY <1>2, <1>4 DEF Refused
<1>5. ASSUME NEW t \in Tocbs, NEW us \in 0 .. ULONG_MAX, Insert(t, us) PROVE HeapInv'
  BY <1>5, InsertHeap
<1> QED
  BY <1>2, <1>3, <1>4, <1>5, BubbleUpHeap, RemoveHeadHeap, BubbleDownHeap DEF Next

\* The array of the timer queue is in order between two calls, no callback is in it
\* twice and the loops stay inside it, after any history of calls.
THEOREM HeapStaysSound == Spec => []HeapSound
<1>1. HeapInv => HeapSound
  BY DEF HeapInv
<1> QED
  BY <1>1, InitHeap, StepHeap, PTL DEF Spec

-----------------------------------------------------------------------------
(* The heap implements the set                                             *)

\* A set of indices has a smallest one.
LEMMA Smallest ==
  ASSUME NEW S \in SUBSET Nat, S # {}
  PROVE  \E x \in S : \A y \in S : x <= y
<1> DEFINE R == OpToRel(<, Nat)
<1>1. \E x \in S : \A y \in S : ~ (<<y, x>> \in R)
  <2> HIDE DEF R
  <2>1. IsWellFoundedOn(R, Nat)
    BY NatLessThanWellFounded DEF R
  <2> QED BY <2>1, WFMin
<1>2. PICK x \in S : \A y \in S : ~ (<<y, x>> \in R)
  BY <1>1
<1>3. ASSUME NEW y \in S PROVE x <= y
  <2>1. x \in Nat /\ y \in Nat /\ <<y, x>> \notin R
    BY <1>2
  <2>2. y < x => <<y, x>> \in R
    BY <2>1 DEF OpToRel
  <2> HIDE DEF R
  <2>3. ~ (y < x)
    BY <2>1, <2>2
  <2> QED BY <2>1, <2>3
<1> QED
  BY <1>3

\* The order between parents and children makes the first entry the minimum: the
\* smallest index that is due before it would have such a parent.
LEMMA HeadIsFirst ==
  ASSUME TypeOK, HeapOrdered, pc = "idle", num_entries > 0
  PROVE  \A u \in Queued : Due(0) <= expiration[u]
<1> DEFINE S == {i \in 0 .. num_entries - 1 : Due(i) < Due(0)}
<1>1. num_entries \in Nat /\ \A i \in 0 .. num_entries - 1 : Due(i) \in Int
  BY DueInt, TimerAssumption DEF TypeOK
<1>2. S = {}
  <2> SUFFICES ASSUME S # {} PROVE FALSE
    OBVIOUS
  <2>1. S \in SUBSET Nat
    BY <1>1
  <2>2. PICK i \in S : \A y \in S : i <= y
    <3> HIDE DEF S
    <3> QED BY <2>1, Smallest
  <2>3. i \in 0 .. num_entries - 1 /\ Due(i) < Due(0) /\ i # 0
    BY <1>1, <2>2
  <2>4. i \in Entries
    BY <1>1, <2>3 DEF Entries
  <2>5. Parent(i) \in 0 .. num_entries - 1 /\ Parent(i) < i /\ i \in Nat
    BY <2>4, EntryFacts
  <2>6. Parent(i) \notin S
    BY <1>1, <2>2, <2>5
  <2>7. Due(Parent(i)) >= Due(0)
    BY <1>1, <2>5, <2>6
  <2>8. Due(Parent(i)) <= Due(i)
    BY <2>4 DEF HeapOrdered, Entries, Due
  <2> QED BY <1>1, <2>3, <2>5, <2>7, <2>8
<1>3. \A i \in 0 .. num_entries - 1 : Due(0) <= Due(i)
  BY <1>1, <1>2
<1> QED
  BY <1>3 DEF Queued, Due

\* A swap keeps the set of the callbacks.
LEMMA SwapQueued ==
  ASSUME TypeOK, NEW i \in 0 .. num_entries - 1, NEW j \in 0 .. num_entries - 1,
         queue' = Swapped(i, j), num_entries' = num_entries
  PROVE  Queued' = Queued
<1>1. /\ queue \in [Slots -> Tocbs \cup {NoTocb}] /\ i \in Slots /\ j \in Slots
      /\ \A k \in 0 .. num_entries - 1 : k \in Slots
  BY TimerAssumption DEF TypeOK, Slots
<1>2. /\ queue'[i] = queue[j] /\ queue'[j] = queue[i]
      /\ \A k \in 0 .. num_entries - 1 : k # i /\ k # j => queue'[k] = queue[k]
  BY <1>1, Swaps
<1>3. ASSUME NEW k \in 0 .. num_entries - 1 PROVE queue[k] \in Queued' /\ queue'[k] \in Queued
  <2>1. \E l \in 0 .. num_entries - 1 : queue'[l] = queue[k]
    BY <1>2
  <2>2. \E l \in 0 .. num_entries - 1 : queue[l] = queue'[k]
    BY <1>2
  <2> QED BY <2>1, <2>2 DEF Queued
<1> QED
  BY <1>3 DEF Queued

\* A step of the library is a step of the set of pending callbacks or none of it.
LEMMA StepPromise == HeapInv /\ [Next]_vars => [Promise!Next]_(Promise!vars)
<1> SUFFICES ASSUME HeapInv, [Next]_vars PROVE [Promise!Next]_(Promise!vars)
  OBVIOUS
<1>0. /\ TypeOK /\ OnceQueued /\ HeapOrdered /\ num_entries \in Nat
      /\ expiration \in [Tocbs -> Int] /\ now \in Int
  BY TimerAssumption DEF HeapInv, HeapSound, TypeOK, long
<1>1. CASE UNCHANGED vars
  BY <1>1 DEF vars, heap, Promise!vars, Queued
<1>2. CASE Tick
  <2>1. UNCHANGED <<Queued, expiration>> /\ now' > now
    BY <1>0, <1>2 DEF Tick, heap, Queued
  <2> QED BY <2>1 DEF Promise!Next, Promise!Tick
<1>3. ASSUME NEW t \in Tocbs, NEW us \in 0 .. ULONG_MAX, Refused(t, us)
      PROVE  UNCHANGED Promise!vars
  BY <1>3 DEF Refused, vars, heap, Promise!vars, Queued
<1>4. ASSUME NEW t \in Tocbs, NEW us \in 0 .. ULONG_MAX, Insert(t, us)
      PROVE  Promise!Next
  <2>1. /\ t \notin Queued /\ now' = now
        /\ expiration' = [expiration EXCEPT ![t] = WrappedSum(now, us)]
        /\ queue' = [queue EXCEPT ![num_entries] = t] /\ num_entries' = num_entries + 1
        /\ num_entries < max_entries
    BY <1>0, <1>4, TimerAssumption DEF Insert, timer_queue_full, TypeOK
  <2>2. now <= WrappedSum(now, us)
    BY <1>0, <1>4, DelayFacts DEF Insert
  <2>3. Queued' = Queued \cup {t}
    <3>1. num_entries \in Slots /\ \A i \in 0 .. num_entries - 1 : i \in Slots
      BY <1>0, <2>1, TimerAssumption DEF Slots
    <3>2. queue'[num_entries] = t /\ \A i \in 0 .. num_entries - 1 : queue'[i] = queue[i]
      BY <1>0, <2>1, <3>1 DEF TypeOK
    <3>3. 0 .. num_entries' - 1 = (0 .. num_entries - 1) \cup {num_entries}
      BY <1>0, <2>1
    <3> QED BY <3>2, <3>3 DEF Queued
  <2>4. /\ expiration'[t] = WrappedSum(now, us)
        /\ expiration' = [expiration EXCEPT ![t] = expiration'[t]]
    BY <1>0, <2>1
  <2>5. Promise!Schedule(t)
    BY <2>1, <2>2, <2>3, <2>4 DEF Promise!Schedule, Promise!SetExpiration
  <2> QED BY <2>5 DEF Promise!Next
<1>5. CASE BubbleUp \/ BubbleDown
  <2>1. UNCHANGED <<num_entries, expiration, now>>
    BY <1>5 DEF BubbleUp, BubbleDown
  <2>2. Queued' = Queued
    <3>1. CASE queue' = queue
      BY <2>1, <3>1 DEF Queued
    <3>2. CASE BubbleUp /\ queue' = Swapped(index, Parent(index)) /\ index # 0
      <4>1. index \in Entries
        BY <1>0, <3>2 DEF HeapInv, InsertInv, BubbleUp, Entries
      <4> QED BY <1>0, <2>1, <3>2, <4>1, EntryFacts, SwapQueued
    <3>3. CASE BubbleDown /\ queue' = Swapped(index, timer_queue_min_child_index(index))
               /\ timer_queue_min_child_index(index) >= 0
      <4> DEFINE c == timer_queue_min_child_index(index)
      <4>1. c \in Entries /\ index < c /\ index \in Slots
        BY <1>0, <3>3, MinChild DEF TypeOK
      <4> HIDE DEF c
      <4>2. c \in 0 .. num_entries - 1 /\ index \in 0 .. num_entries - 1
        BY <1>0, <4>1 DEF Entries, Slots
      <4> QED BY <1>0, <2>1, <3>3, <4>2, SwapQueued DEF c
    <3> QED BY <1>5, <3>1, <3>2, <3>3 DEF BubbleUp, BubbleDown
  <2> QED BY <2>1, <2>2 DEF Promise!vars
<1>6. CASE RemoveHead
  <2> DEFINE t == queue[0]
             n == num_entries
  <2>1. /\ n > 0 /\ now >= expiration[t] /\ pc = "idle" /\ num_entries' = n - 1 /\ now' = now
        /\ queue' = [queue EXCEPT ![0] = queue[n - 1]]
        /\ expiration' = [expiration EXCEPT ![t] = 0]
    BY <1>6 DEF RemoveHead, Expired
  <2>2. t \in Tocbs /\ t \in Queued
    BY <1>0, <2>1 DEF TypeOK, Queued
  <2>3. \A u \in Queued : expiration[t] <= expiration[u]
    BY <1>0, <2>1, HeadIsFirst DEF Due
  <2>4. Queued' = Queued \ {t}
    <3>1. \A i \in 0 .. n - 1 : i \in Slots
      BY <1>0, TimerAssumption DEF TypeOK, Slots
    <3>2. queue'[0] = queue[n - 1] /\ \A i \in 1 .. n - 1 : queue'[i] = queue[i]
      BY <1>0, <2>1, <3>1 DEF TypeOK
    <3>3. \A i \in 1 .. n - 1 : queue[i] # t
      BY <1>0, <2>1 DEF OnceQueued
    <3>4. ASSUME NEW i \in 0 .. n - 2 PROVE queue'[i] \in Queued \ {t}
      <4>1. CASE i = 0
        BY <1>0, <2>1, <3>2, <3>3, <4>1 DEF Queued
      <4>2. CASE i # 0
        BY <1>0, <2>1, <3>2, <3>3, <4>2 DEF Queued
      <4> QED BY <4>1, <4>2
    <3>5. ASSUME NEW i \in 0 .. n - 1, queue[i] # t PROVE queue[i] \in Queued'
      <4>1. i # 0
        BY <3>5
      <4>2. CASE i = n - 1
        <5>1. 0 \in 0 .. num_entries' - 1 /\ queue'[0] = queue[i]
          BY <1>0, <2>1, <3>2, <4>1, <4>2
        <5> QED BY <5>1 DEF Queued
      <4>3. CASE i # n - 1
        <5>1. i \in 0 .. num_entries' - 1 /\ queue'[i] = queue[i]
          BY <1>0, <2>1, <3>2, <4>1, <4>3
        <5> QED BY <5>1 DEF Queued
      <4> QED BY <4>2, <4>3
    <3>6. 0 .. num_entries' - 1 = 0 .. n - 2
      BY <1>0, <2>1
    <3> QED BY <3>4, <3>5, <3>6 DEF Queued
  <2>5. expiration' = [expiration EXCEPT ![t] = expiration'[t]]
    BY <1>0, <2>1, <2>2
  <2>6. expiration[t] <= now
    BY <1>0, <2>1, <2>2
  <2>7. Promise!Fire(t)
    <3> HIDE DEF t
    <3> QED BY <2>1, <2>2, <2>3, <2>4, <2>5, <2>6 DEF Promise!Fire, Promise!SetExpiration
  <2> QED BY <2>2, <2>7 DEF Promise!Next
<1> QED
  BY <1>1, <1>2, <1>3, <1>4, <1>5, <1>6 DEF Next

\* The heap keeps the promise of timer.h: every callback that is called was
\* accepted, is called once, not before its time, and never after one that is due
\* later.
THEOREM ImplementsPromise == Spec => Promise!Spec
<1>1. Init => Promise!Init
  <2> SUFFICES ASSUME Init PROVE Promise!Init
    OBVIOUS
  <2>1. Queued = {}
    BY DEF Init, Queued
  <2>2. expiration \in [Tocbs -> Int] /\ now = 0
    BY DEF Init
  <2> QED BY <2>1, <2>2 DEF Promise!Init
<1> QED
  BY <1>1, InitHeap, StepHeap, StepPromise, PTL DEF Spec, Promise!Spec
=============================================================================
