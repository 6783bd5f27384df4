------------------------- MODULE BootThreadsProofs -------------------------
(* Machine-checked theorems about BootThreads, for any number of threads,  *)
(* timers, callbacks and calls.                                            *)
EXTENDS BootThreads, TLAPS, SequenceTheorems, FiniteSetTheorems

USE NumThreadsAssumption, MaxTimersAssumption, MaxCallsAssumption,
    StaticAssumption, ActiveAssumption, NoPhaseAssumption

\* Which labels a thread can be at, that a body runs in a wrapper, and that the
\* idle thread never sleeps.
PcKinds ==
  /\ pc[Main] \in MainPc
  /\ pc[Idle] \in {"idle_start", "idle"}
  /\ \A w \in Workers : pc[w] \in {"body", "unused"}
  /\ \A w \in Workers : pc[w] = "body" => wrap[w] # NoPhase
  /\ Idle \notin sleeping

\* RunnableNeverEmpty is not inductive: popping the list keeps the idle thread
\* last only if it is nowhere else on the list.
IdleOnlyLast == \A i \in 1 .. Len(runnable) - 1 : runnable[i] # Idle

\* The inductive invariant for the types and for the runnable list.
IInv == TypeOK /\ PcKinds /\ RunnableNeverEmpty /\ IdleOnlyLast

\* push_thread(): what a list is after a push at its front.
LEMMA PushProperties ==
  ASSUME NEW S, NEW s \in Seq(S), NEW x \in S
  PROVE  /\ <<x>> \o s \in Seq(S)
         /\ Len(<<x>> \o s) = Len(s) + 1
         /\ (<<x>> \o s)[1] = x
         /\ \A i \in 1 .. Len(s) : (<<x>> \o s)[i + 1] = s[i]
         /\ \A i \in 2 .. Len(s) + 1 : (<<x>> \o s)[i] = s[i - 1]
<1>1. <<x>> \in Seq(S) /\ Len(<<x>>) = 1 /\ <<x>>[1] = x
  OBVIOUS
<1>2. Len(s) \in Nat
  BY LenProperties
<1> QED
  BY <1>1, <1>2, ConcatProperties

\* pop_thread(): what is left of a list after a pop.
LEMMA PopProperties ==
  ASSUME NEW S, NEW s \in Seq(S), s # <<>>
  PROVE  /\ Tail(s) \in Seq(S)
         /\ Head(s) \in S
         /\ Head(s) = s[1]
         /\ Len(s) \in Nat \ {0}
         /\ Len(Tail(s)) = Len(s) - 1
         /\ \A i \in 1 .. Len(s) - 1 : Tail(s)[i] = s[i + 1]
  BY HeadTailProperties, EmptySeq

LEMMA InitIInv == Init => IInv
  BY DEF Init, IInv, TypeOK, PcKinds, RunnableNeverEmpty, IdleOnlyLast, MainPc,
     Threads, Workers, Main, Idle, Phases, boot_state_t, BS_PAYLOAD_BOOT, BS_ON_ENTRY

ListOK == /\ current \in Threads
          /\ runnable \in Seq(Threads)
          /\ RunnableNeverEmpty
          /\ IdleOnlyLast

\* schedule(t) for a thread t other than the idle thread keeps the list in shape.
LEMMA SwitchToList ==
  ASSUME ListOK, NEW t \in Threads, t # Idle, SwitchTo(t)
  PROVE  ListOK'
<1>1. runnable' = <<current>> \o runnable /\ current' = t
  BY DEF SwitchTo
<1>2. current \in Threads /\ runnable \in Seq(Threads) /\ Len(runnable) \in Nat
  BY LenProperties DEF ListOK
<1>3. /\ runnable' \in Seq(Threads)
      /\ Len(runnable') = Len(runnable) + 1
      /\ runnable'[1] = current
      /\ \A i \in 1 .. Len(runnable) : runnable'[i + 1] = runnable[i]
      /\ \A i \in 2 .. Len(runnable) + 1 : runnable'[i] = runnable[i - 1]
  BY <1>1, <1>2, PushProperties
<1>4. CASE current = Idle
  <2>1. runnable = <<>>
    BY <1>4 DEF ListOK, RunnableNeverEmpty
  <2>2. Len(runnable) = 0
    BY <2>1
  <2> QED
    BY <1>1, <1>3, <1>4, <2>2 DEF ListOK, RunnableNeverEmpty, IdleOnlyLast
<1>5. CASE current # Idle
  <2>1. Len(runnable) > 0 /\ runnable[Len(runnable)] = Idle
    BY <1>2, <1>5, EmptySeq DEF ListOK, RunnableNeverEmpty
  <2>2. runnable' # <<>> /\ runnable'[Len(runnable')] = Idle
    BY <1>2, <1>3, <2>1
  <2>3. \A i \in 1 .. Len(runnable) : runnable'[i] # Idle
    BY <1>2, <1>3, <1>5 DEF ListOK, IdleOnlyLast
  <2> QED
    BY <1>1, <1>2, <1>3, <2>2, <2>3 DEF ListOK, RunnableNeverEmpty, IdleOnlyLast
<1> QED
  BY <1>4, <1>5

\* schedule(NULL) by a thread other than the idle thread finds a thread to run,
\* so the die() in it is not reached, and keeps the list in shape.
LEMMA SwitchAwayList ==
  ASSUME ListOK, current # Idle, SwitchAway
  PROVE  ListOK' /\ runnable # <<>>
<1>1. current' = Head(runnable) /\ runnable' = Tail(runnable)
  BY DEF SwitchAway
<1>2. runnable \in Seq(Threads) /\ runnable # <<>> /\ runnable[Len(runnable)] = Idle
  BY DEF ListOK, RunnableNeverEmpty
<1>3. /\ runnable' \in Seq(Threads)
      /\ current' \in Threads
      /\ current' = runnable[1]
      /\ Len(runnable) \in Nat \ {0}
      /\ Len(runnable') = Len(runnable) - 1
      /\ \A i \in 1 .. Len(runnable) - 1 : runnable'[i] = runnable[i + 1]
  BY <1>1, <1>2, PopProperties
<1>4. CASE Len(runnable) = 1
  BY <1>2, <1>3, <1>4, EmptySeq DEF ListOK, RunnableNeverEmpty, IdleOnlyLast
<1>5. CASE Len(runnable) # 1
  <2>1. current' # Idle
    BY <1>3, <1>5 DEF ListOK, IdleOnlyLast
  <2>2. runnable' # <<>> /\ runnable'[Len(runnable')] = Idle
    BY <1>2, <1>3, <1>5
  <2>3. \A i \in 1 .. Len(runnable') - 1 : runnable'[i] # Idle
    BY <1>3, <1>5 DEF ListOK, IdleOnlyLast
  <2> QED
    BY <1>2, <1>3, <2>1, <2>2, <2>3 DEF ListOK, RunnableNeverEmpty, IdleOnlyLast
<1> QED
  BY <1>2, <1>4, <1>5

\* blockers stays a count whatever is blocked or unblocked.
LEMMA BlockTypes ==
  ASSUME TypeOK, NEW p \in Phases
  PROVE  /\ boot_state_block(p) \in [Phases -> Nat]
         /\ boot_state_unblock(p) \in [Phases -> Nat]
  BY DEF TypeOK, boot_state_block, boot_state_unblock

\* timers_run() preserves the shape of the list.
LEMMA TimersRunList ==
  ASSUME IInv, timers_run
  PROVE  ListOK' /\ sleeping' \subseteq sleeping
<1>1. ListOK /\ sleeping \subseteq Threads /\ Idle \notin sleeping
  BY DEF IInv, ListOK, TypeOK, PcKinds
<1>2. CASE UNCHANGED <<sleeping, runnable, current>>
  BY <1>1, <1>2 DEF ListOK, RunnableNeverEmpty, IdleOnlyLast
<1>3. ASSUME NEW t \in sleeping, sleeping' = sleeping \ {t}, SwitchTo(t)
      PROVE  ListOK' /\ sleeping' \subseteq sleeping
  BY <1>1, <1>3, SwitchToList
<1> QED
  BY <1>2, <1>3 DEF timers_run

LEMMA StepIInv == IInv /\ [Next]_vars => IInv'
<1> SUFFICES ASSUME IInv, [Next]_vars PROVE IInv'
  OBVIOUS
<1> USE DEF IInv
<1>ty. TypeOK /\ PcKinds /\ ListOK
  BY DEF ListOK, TypeOK
<1>ids. Main \in Threads /\ Idle \in Threads /\ Main # Idle /\ Main \notin Workers /\ Idle \notin Workers
  BY DEF Main, Idle, Threads, Workers
<1>k. ListOK' => current' \in Threads /\ runnable' \in Seq(Threads) /\ RunnableNeverEmpty' /\ IdleOnlyLast'
  BY DEF ListOK
<1>same. UNCHANGED <<current, runnable>> => ListOK'
  BY <1>ty DEF ListOK, RunnableNeverEmpty, IdleOnlyLast
<1>0. CASE UNCHANGED vars
  BY <1>0 DEF vars, bootVars, threadVars, TypeOK, PcKinds, RunnableNeverEmpty, IdleOnlyLast
<1>1. CASE StateAlreadyExecuted
  BY <1>1, <1>ty, <1>ids, <1>k, <1>same
     DEF StateAlreadyExecuted, MainAt, GoMain, bootVars, threadVars,
     TypeOK, PcKinds, MainPc
<1>2. CASE EnterState
  BY <1>2, <1>ty, <1>ids, <1>k, TimersRunList DEF EnterState, timers_run, MainAt, GoMain, bootVars,
     TypeOK, PcKinds, MainPc
<1>3. CASE CallCallback
  <2>1. callbacks[current_phase] \in Seq(Callbacks) /\ callbacks[current_phase] # <<>>
    BY <1>3 DEF CallCallback, TypeOK
  <2>2. Tail(callbacks[current_phase]) \in Seq(Callbacks)
    BY <2>1, PopProperties
  <2> QED
    BY <1>3, <2>2, <1>ty, <1>ids, <1>k, <1>same DEF CallCallback, MainAt, GoMain, threadVars,
       TypeOK, PcKinds, MainPc
<1>4. CASE PollTimers
  BY <1>4, <1>ty, <1>ids, <1>k, TimersRunList DEF PollTimers, timers_run, bootVars, TypeOK, PcKinds
<1>5. CASE RunState
  <2>1. current_phase' \in Phases
    BY <1>5, <1>ty DEF RunState, TypeOK, Phases
  <2> QED
    BY <1>5, <2>1, <1>ty, <1>ids, <1>k, <1>same DEF RunState, PhaseDone, MainAt, GoMain, threadVars,
       TypeOK, PcKinds, MainPc
<1>6. CASE LeaveState
  BY <1>6, <1>ty, <1>ids, <1>k, <1>same, SMTT(60)
     DEF LeaveState, PhaseDone, MainAt, GoMain, threadVars,
     TypeOK, PcKinds, MainPc, Phases
<1>7. CASE RunStateReturns
  <2>1. \A b \in boot_state_t : Successors(b) \subseteq boot_state_t
    BY DEF Successors, boot_state_t, BS_OS_RESUME_CHECK, BS_OS_RESUME, BS_WRITE_TABLES, BS_PAYLOAD_BOOT
  <2>2. current_phase[1] \in boot_state_t
    BY <1>ty DEF TypeOK, Phases
  <2> QED
    BY <1>7, <2>1, <2>2, <1>ty, <1>ids, <1>k, <1>same
       DEF RunStateReturns, MainAt, GoMain, threadVars,
       TypeOK, PcKinds, MainPc
<1>8. CASE Handoff
  BY <1>8, <1>ty, <1>ids, <1>k, <1>same DEF Handoff, MainAt, GoMain, bootVars, threadVars,
     TypeOK, PcKinds, MainPc
<1>9. CASE CallbackReturns
  BY <1>9, <1>ty, <1>ids, <1>k, <1>same DEF CallbackReturns, MainAt, GoMain, bootVars, threadVars,
     TypeOK, PcKinds, MainPc
<1>10. CASE IdleStart
  BY <1>10, <1>ty, <1>ids, <1>k, <1>same DEF IdleStart, bootVars, TypeOK, PcKinds
<1>11. CASE IdleTimers
  BY <1>11, <1>ty, <1>ids, <1>k, TimersRunList DEF IdleTimers, timers_run, bootVars, TypeOK, PcKinds
<1>12. ASSUME NEW t \in Workers, ThreadExit(t) PROVE IInv'
  <2>1. t \in Threads /\ t # Idle /\ current = t /\ SwitchAway
    BY <1>12 DEF ThreadExit, Workers
  <2>2. ListOK'
    BY <2>1, <1>ty, SwitchAwayList
  <2>3. (IF wrap[t] = CurrentPhase THEN current_phase ELSE wrap[t]) \in Phases
    BY <1>12, <1>ty, <2>1 DEF ThreadExit, TypeOK, PcKinds
  <2>4. blockers' \in [Phases -> Nat]
    BY <1>12, <2>3, <1>ty, BlockTypes DEF ThreadExit
  <2> QED
    BY <1>12, <2>1, <2>2, <2>4, <1>ty, <1>ids, <1>k DEF ThreadExit, TypeOK, PcKinds
<1>13. ASSUME NEW t \in Threads, UserUnblock(t) PROVE IInv'
  <2>1. owns[t] \in Phases
    BY <1>13, <1>ty DEF UserUnblock, TypeOK
  <2>2. blockers' \in [Phases -> Nat]
    BY <1>13, <2>1, <1>ty, BlockTypes DEF UserUnblock
  <2> QED
    BY <1>13, <2>2, <1>ty, <1>ids, <1>k, <1>same DEF UserUnblock, threadVars, TypeOK, PcKinds
<1>14. ASSUME NEW cb \in Callbacks, NEW p \in Phases, SchedCallback(cb, p) PROVE IInv'
  <2>1. <<cb>> \o callbacks[p] \in Seq(Callbacks)
    BY <1>ty, PushProperties DEF TypeOK
  <2>2. calls' \in 0 .. MaxCalls
    BY <1>14, <1>ty DEF SchedCallback, MayCall, TypeOK
  <2> QED
    BY <1>14, <2>1, <2>2, <1>ty, <1>ids, <1>k, <1>same
       DEF SchedCallback, threadVars, TypeOK, PcKinds
<1>15. ASSUME NEW t \in Threads, NEW p \in Phases, UserBlock(t, p) PROVE IInv'
  <2>1. blockers' \in [Phases -> Nat]
    BY <1>15, <1>ty, BlockTypes DEF UserBlock
  <2> QED
    BY <1>15, <2>1, <1>ty, <1>ids, <1>k, <1>same DEF UserBlock, MayCall, threadVars, TypeOK, PcKinds
<1>16. ASSUME NEW w \in Workers, NEW wrapper \in Phases \cup {CurrentPhase}, StartThread(w, wrapper)
       PROVE  IInv'
  <2> DEFINE p == IF wrapper = CurrentPhase THEN current_phase ELSE wrapper
  <2>1. p \in Phases
    BY <1>16, <1>ty DEF TypeOK
  <2>2. blockers' \in [Phases -> Nat]
    BY <1>16, <2>1, <1>ty, BlockTypes DEF StartThread
  <2>3. w \in Threads /\ w # Idle /\ w # Main
    BY DEF Workers
  <2>4. ListOK'
    BY <1>16, <2>3, <1>ty, SwitchToList DEF StartThread
  <2>5. held' \in [Threads -> Phases \cup {NoPhase}]
    BY <1>16, <2>1, <1>ty DEF StartThread, TypeOK
  <2>6. wrapper # NoPhase
    BY <1>16
  <2> QED
    BY <1>16, <2>2, <2>3, <2>4, <2>5, <2>6, <1>ty, <1>ids, <1>k
       DEF StartThread, MayCall, TypeOK, PcKinds
<1>17. ASSUME NEW t \in Threads, thread_yield(t) PROVE IInv'
  <2>1. current = t /\ t # Idle /\ SwitchAway
    BY <1>17, <1>ty DEF thread_yield, MayCall, UserPc, PcKinds
  <2>2. ListOK'
    BY <2>1, <1>ty, SwitchAwayList
  <2> QED
    BY <1>17, <2>1, <2>2, <1>ty, <1>ids, <1>k DEF thread_yield, MayCall, bootVars, TypeOK, PcKinds
<1>18. ASSUME NEW t \in Threads, NEW value \in BOOLEAN, thread_set_coop(t, value) PROVE IInv'
  BY <1>18, <1>ty, <1>ids, <1>k, <1>same DEF thread_set_coop, MayCall, bootVars, TypeOK, PcKinds
<1> QED
  BY <1>0, <1>1, <1>2, <1>3, <1>4, <1>5, <1>6, <1>7, <1>8, <1>9, <1>10, <1>11, <1>12, <1>13,
     <1>14, <1>15, <1>16, <1>17, <1>18
  DEF Next, Progress, Call, Stopped, thread_run, thread_run_until

\* Every variable keeps its type: in particular the machine never leaves the
\* boot_states[] array and blockers never goes below zero.
THEOREM TypeCorrect == Spec => []TypeOK
  BY InitIInv, StepIInv, PTL DEF Spec, IInv

\* schedule(NULL) never reaches its die(): some thread can always run, the idle
\* thread last.
THEOREM RunnableList == Spec => []RunnableNeverEmpty
  BY InitIInv, StepIInv, PTL DEF Spec, IInv

-----------------------------------------------------------------------------
(* Where a thread is                                                       *)

OnList(t) == \E i \in 1 .. Len(runnable) : runnable[i] = t
NoTwice   == \A i, j \in 1 .. Len(runnable) : i # j => runnable[i] # runnable[j]

\* ThreadPlaces with "on the runnable list" as a predicate: no more than the list
\* operations have to be looked into to prove it.
Places ==
  /\ NoTwice
  /\ \A t \in Threads : t = current \/ t \in sleeping \/ t \in free \/ OnList(t)
  /\ \A t \in Threads : OnList(t) => t # current /\ t \notin sleeping /\ t \notin free
  /\ current \notin sleeping /\ current \notin free
  /\ \A w \in Workers : w \in free <=> ~Live(w)
  /\ sleeping \cap free = {}

LEMMA PlacesSuffice == TypeOK /\ Places => ThreadPlaces
<1> SUFFICES ASSUME TypeOK, Places PROVE ThreadPlaces
  OBVIOUS
<1>1. \A i \in 1 .. Len(runnable) : runnable[i] \in Threads /\ OnList(runnable[i])
  BY ElementOfSeq DEF TypeOK, OnList
<1> QED
  BY <1>1 DEF Places, ThreadPlaces, NoTwice, OnList

\* schedule(t) adds the current thread to the list, and only that one.
LEMMA SwitchToOn ==
  ASSUME ListOK, NoTwice, ~OnList(current), NEW t, SwitchTo(t)
  PROVE  NoTwice' /\ \A u : OnList(u)' <=> (u = current \/ OnList(u))
<1>1. /\ Len(runnable) \in Nat
      /\ Len(runnable') = Len(runnable) + 1
      /\ runnable'[1] = current
      /\ \A i \in 1 .. Len(runnable) : runnable'[i + 1] = runnable[i]
      /\ \A i \in 2 .. Len(runnable) + 1 : runnable'[i] = runnable[i - 1]
  BY PushProperties, LenProperties DEF ListOK, SwitchTo
<1>2. NoTwice'
  <2> SUFFICES ASSUME NEW i \in 1 .. Len(runnable) + 1, NEW j \in 1 .. Len(runnable) + 1, i < j
               PROVE  runnable'[i] # runnable'[j]
    BY <1>1 DEF NoTwice
  <2>1. runnable'[j] = runnable[j - 1] /\ j - 1 \in 1 .. Len(runnable)
    BY <1>1
  <2>2. CASE i = 1
    BY <1>1, <2>1, <2>2 DEF OnList
  <2>3. CASE i # 1
    <3>1. runnable'[i] = runnable[i - 1] /\ i - 1 \in 1 .. Len(runnable) /\ i - 1 # j - 1
      BY <1>1, <2>3
    <3> QED
      BY <2>1, <3>1 DEF NoTwice
  <2> QED
    BY <2>2, <2>3
<1>3. ASSUME NEW u, OnList(u)' PROVE u = current \/ OnList(u)
  BY <1>1, <1>3 DEF OnList
<1>4. ASSUME NEW u, u = current \/ OnList(u) PROVE OnList(u)'
  <2>1. CASE u = current
    BY <1>1, <2>1 DEF OnList
  <2>2. CASE OnList(u)
    <3>1. PICK i \in 1 .. Len(runnable) : runnable[i] = u
      BY <2>2 DEF OnList
    <3>2. i + 1 \in 1 .. Len(runnable') /\ runnable'[i + 1] = u
      BY <1>1, <3>1
    <3> QED
      BY <3>2 DEF OnList
  <2> QED
    BY <1>4, <2>1, <2>2
<1> QED
  BY <1>2, <1>3, <1>4

\* schedule(NULL) takes the thread that gets the CPU from the list, and only
\* that one.
LEMMA SwitchAwayOn ==
  ASSUME ListOK, NoTwice, runnable # <<>>, SwitchAway
  PROVE  /\ NoTwice' /\ OnList(current') /\ ~OnList(current)'
         /\ \A u : OnList(u) <=> (u = current' \/ OnList(u)')
<1>1. /\ Len(runnable) \in Nat \ {0}
      /\ current' = runnable[1]
      /\ Len(runnable') = Len(runnable) - 1
      /\ \A i \in 1 .. Len(runnable) - 1 : runnable'[i] = runnable[i + 1]
  BY PopProperties DEF ListOK, SwitchAway
<1>2. NoTwice' /\ OnList(current') /\ ~OnList(current)'
  BY <1>1, SMTT(60) DEF NoTwice, OnList
<1>3. ASSUME NEW u, OnList(u) PROVE u = current' \/ OnList(u)'
  <2>1. PICK i \in 1 .. Len(runnable) : runnable[i] = u
    BY <1>3 DEF OnList
  <2>2. CASE i = 1
    BY <1>1, <2>1, <2>2
  <2>3. CASE i # 1
    <3>1. i - 1 \in 1 .. Len(runnable') /\ runnable'[i - 1] = u
      BY <1>1, <2>1, <2>3
    <3> QED
      BY <3>1 DEF OnList
  <2> QED
    BY <2>2, <2>3
<1>4. ASSUME NEW u, OnList(u)' PROVE OnList(u)
  BY <1>1, <1>4 DEF OnList
<1> QED
  BY <1>2, <1>3, <1>4

\* Steps that neither schedule nor start or end a body.
LEMMA PlacesSame ==
  ASSUME Places, UNCHANGED <<current, runnable, free, sleeping>>,
         \A w \in Workers : pc'[w] = pc[w]
  PROVE  Places'
  BY DEF Places, NoTwice, OnList, Live

LEMMA PlacesTimersRun ==
  ASSUME IInv, Places, timers_run, \A w \in Workers : pc'[w] = pc[w]
  PROVE  Places'
<1>1. CASE UNCHANGED <<sleeping, runnable, current>>
  BY <1>1, PlacesSame DEF timers_run
<1>2. ASSUME NEW t \in sleeping, sleeping' = sleeping \ {t}, SwitchTo(t)
      PROVE  Places'
  <2>1. ListOK /\ NoTwice /\ current \in Threads /\ ~OnList(current) /\ current # t
    BY DEF IInv, TypeOK, ListOK, Places
  <2>2. NoTwice' /\ \A u : OnList(u)' <=> (u = current \/ OnList(u))
    BY <1>2, <2>1, SwitchToOn
  <2>3. current' = t /\ free' = free /\ t \in Threads
    BY <1>2 DEF timers_run, SwitchTo, IInv, TypeOK
  <2> QED
    BY <1>2, <2>1, <2>2, <2>3 DEF Places, Live
<1> QED
  BY <1>1, <1>2 DEF timers_run

LEMMA StepPlaces == IInv /\ Places /\ [Next]_vars => Places'
<1> SUFFICES ASSUME IInv, Places, [Next]_vars PROVE Places'
  OBVIOUS
<1>ty. TypeOK /\ PcKinds /\ ListOK
  BY DEF IInv, ListOK, TypeOK
<1>ids. Main \notin Workers /\ Idle \notin Workers /\ Workers \subseteq Threads
  BY DEF Main, Idle, Threads, Workers
<1>1. CASE \/ UNCHANGED vars \/ StateAlreadyExecuted \/ CallCallback \/ RunState \/ LeaveState
           \/ RunStateReturns \/ Handoff \/ CallbackReturns \/ IdleStart
           \/ \E t \in Threads : UserUnblock(t)
           \/ \E cb \in Callbacks, p \in Phases : SchedCallback(cb, p)
           \/ \E t \in Threads, p \in Phases : UserBlock(t, p)
           \/ \E t \in Threads, value \in BOOLEAN : thread_set_coop(t, value)
  <2>1. UNCHANGED <<current, runnable, free, sleeping>>
    BY <1>1 DEF vars, threadVars, StateAlreadyExecuted, CallCallback, RunState, LeaveState,
       RunStateReturns, Handoff, CallbackReturns, IdleStart, UserUnblock, SchedCallback, UserBlock,
       thread_set_coop
  <2>2. \A w \in Workers : pc'[w] = pc[w]
    BY <1>1, <1>ty, <1>ids DEF vars, StateAlreadyExecuted, CallCallback, RunState, LeaveState,
       RunStateReturns, Handoff, CallbackReturns, IdleStart, UserUnblock, SchedCallback, UserBlock,
       thread_set_coop, GoMain, TypeOK
  <2> QED
    BY <2>1, <2>2, PlacesSame
<1>2. CASE EnterState \/ PollTimers \/ IdleTimers
  <2>1. timers_run /\ \A w \in Workers : pc'[w] = pc[w]
    BY <1>2, <1>ty, <1>ids DEF EnterState, PollTimers, IdleTimers, GoMain, TypeOK
  <2> QED
    BY <2>1, PlacesTimersRun
<1>3. ASSUME NEW t \in Workers, ThreadExit(t) PROVE Places'
  <2>1. t \in Threads /\ t # Idle /\ current = t /\ SwitchAway
    BY <1>3, <1>ids DEF ThreadExit
  <2>2. runnable # <<>>
    BY <2>1, <1>ty, SwitchAwayList
  <2>3. NoTwice
    BY DEF Places
  <2>4. /\ NoTwice' /\ OnList(current') /\ ~OnList(current)'
        /\ \A u : OnList(u) <=> (u = current' \/ OnList(u)')
    BY <2>1, <2>2, <2>3, <1>ty, SwitchAwayOn
  <2>5. current' \in Threads
    BY <2>1, <1>ty, SwitchAwayList DEF ListOK
  <2>6. free' = free \cup {t} /\ sleeping' = sleeping /\ pc' = [pc EXCEPT ![t] = "unused"]
    BY <1>3 DEF ThreadExit
  <2>7. \A w \in Workers : w \in free' <=> ~Live(w)'
    BY <2>1, <2>6, <1>ty, <1>ids DEF Places, Live, TypeOK
  <2> QED
    BY <2>1, <2>4, <2>5, <2>6, <2>7 DEF Places
<1>4. ASSUME NEW w \in Workers, NEW wrapper, StartThread(w, wrapper) PROVE Places'
  <2>1. SwitchTo(w) /\ w \in free /\ w \in Threads /\ current' = w
    BY <1>4, <1>ids DEF StartThread, SwitchTo
  <2>2. current \in Threads /\ NoTwice /\ ~OnList(current) /\ current # w
    BY <2>1, <1>ty DEF Places, TypeOK
  <2>3. NoTwice' /\ \A u : OnList(u)' <=> (u = current \/ OnList(u))
    BY <2>1, <2>2, <1>ty, SwitchToOn
  <2>4. free' = free \ {w} /\ sleeping' = sleeping /\ pc' = [pc EXCEPT ![w] = "body"]
    BY <1>4 DEF StartThread
  <2>5. \A v \in Workers : v \in free' <=> ~Live(v)'
    BY <2>4, <1>ty, <1>ids DEF Places, Live, TypeOK
  <2> QED
    BY <2>1, <2>2, <2>3, <2>4, <2>5 DEF Places
<1>5. ASSUME NEW t \in Threads, thread_yield(t) PROVE Places'
  <2>1. current = t /\ t # Idle /\ SwitchAway
    BY <1>5, <1>ty DEF thread_yield, MayCall, UserPc, PcKinds
  <2>2. runnable # <<>>
    BY <2>1, <1>ty, SwitchAwayList
  <2>3. NoTwice
    BY DEF Places
  <2>4. /\ NoTwice' /\ OnList(current') /\ ~OnList(current)'
        /\ \A u : OnList(u) <=> (u = current' \/ OnList(u)')
    BY <2>1, <2>2, <2>3, <1>ty, SwitchAwayOn
  <2>5. current' \in Threads
    BY <2>1, <1>ty, SwitchAwayList DEF ListOK
  <2>6. free' = free /\ sleeping' = sleeping \cup {t} /\ pc' = pc
    BY <1>5 DEF thread_yield
  <2> QED
    BY <2>1, <2>4, <2>5, <2>6 DEF Places, Live
<1> QED
  BY <1>1, <1>2, <1>3, <1>4, <1>5 DEF Next, Progress, Call, Stopped, thread_run, thread_run_until

LEMMA InitPlaces == Init => Places
  BY DEF Init, Places, NoTwice, OnList, Live, Threads, Workers, Main, Idle

\* Every thread is in one place only: a stack is never used by two of them, and
\* no thread is lost.
THEOREM OnePlaceEach == Spec => []ThreadPlaces
<1>1. Init => IInv /\ Places
  BY InitIInv, InitPlaces
<1>2. IInv /\ Places /\ [Next]_vars => IInv' /\ Places'
  BY StepIInv, StepPlaces
<1>3. IInv /\ Places => ThreadPlaces
  BY PlacesSuffice DEF IInv
<1> QED
  BY <1>1, <1>2, <1>3, PTL DEF Spec

-----------------------------------------------------------------------------
(* Who blocks which phase                                                  *)

Holders(f, p) == {t \in Threads : f[t] = p}
EntryPhase    == <<current_phase[1], BS_ON_ENTRY>>

\* BlockerAccounting for all phases of the current and the later states, also for
\* the entry phase once it has been passed: BS_PAYLOAD_BOOT is its own successor,
\* so its entry phase becomes current a second time.
Accounts ==
  /\ \A p \in Phases : p[1] >= current_phase[1] =>
       blockers[p] = Cardinality(Holders(held, p)) + Cardinality(Holders(owns, p))
  /\ current_phase[2] = BS_ON_EXIT => blockers[EntryPhase] = 0

\* A wrapper's blocker is held by a live worker, on the phase of its wrapper, and
\* not on a state that has been completed; a wrapper that got no blocker asks for a
\* phase that has been passed, so its unblock will be refused too.
HeldByWrapper ==
  \A t \in Threads : held[t] # NoPhase =>
    /\ t \in Workers /\ Live(t)
    /\ wrap[t] \in {CurrentPhase, held[t]}
    /\ ~complete[held[t][1]]

WrapperHolds ==
  \A w \in Workers : Live(w) =>
    /\ wrap[w] = CurrentPhase => held[w] = current_phase
    /\ wrap[w] # CurrentPhase /\ held[w] = NoPhase =>
         Passed(wrap[w]) \/ complete[current_phase[1]]

\* The walk goes forward: only states up to the current one are complete, and in
\* a state that is complete already nothing but the failure of the walk follows.
WalkForward ==
  /\ \A s \in boot_state_t : complete[s] => s <= current_phase[1]
  /\ complete[current_phase[1]] => current = Main /\ pc[Main] \in {"walk", "dead"}
  /\ pc[Main] = "walk" => current_phase[2] = BS_ON_ENTRY
  /\ current_phase[2] = BS_ON_EXIT /\ pc[Main] \in {"callbacks", "callback"} =>
       next_id \in Successors(current_phase[1])

BInv == Accounts /\ HeldByWrapper /\ WrapperHolds /\ WalkForward

LEMMA HoldersFinite ==
  ASSUME NEW f, NEW p
  PROVE  /\ IsFiniteSet(Holders(f, p))
         /\ Cardinality(Holders(f, p)) \in Nat
         /\ \A t \in Threads : f[t] = p => Cardinality(Holders(f, p)) > 0
         /\ (\A t \in Threads : f[t] # p) => Cardinality(Holders(f, p)) = 0
<1>1. IsFiniteSet(Threads)
  BY FS_Interval DEF Threads
<1>2. IsFiniteSet(Holders(f, p))
  BY <1>1, FS_Subset DEF Holders
<1>3. Cardinality(Holders(f, p)) \in Nat /\ (Cardinality(Holders(f, p)) = 0 <=> Holders(f, p) = {})
  BY <1>2, FS_CardinalityType, FS_EmptySet
<1>4. ASSUME NEW t \in Threads, f[t] = p PROVE Holders(f, p) # {}
  BY <1>4 DEF Holders
<1>5. (\A t \in Threads : f[t] # p) => Holders(f, p) = {}
  BY DEF Holders
<1> QED
  BY <1>2, <1>3, <1>4, <1>5

LEMMA InitBInv == Init => BInv
<1> SUFFICES ASSUME Init PROVE BInv
  OBVIOUS
<1>1. \A p \in Phases : Cardinality(Holders(held, p)) = 0 /\ Cardinality(Holders(owns, p)) = 0
  BY HoldersFinite DEF Init
<1>2. Accounts
  BY <1>1 DEF Init, Accounts, BS_ON_ENTRY, BS_ON_EXIT
<1> QED
  BY <1>2
     DEF Init, BInv, HeldByWrapper, WrapperHolds, WalkForward, Live, Workers, Threads, Main, Idle,
     BS_ON_ENTRY, BS_ON_EXIT, boot_state_t, BS_PAYLOAD_BOOT

\* Nobody holds a phase that may be left, nor the entry phase of a state that is
\* about to be left.
LEMMA NobodyHolds ==
  ASSUME TypeOK, Accounts, NEW p \in Phases, p[1] >= current_phase[1], blockers[p] = 0
  PROVE  \A t \in Threads : held[t] # p /\ owns[t] # p
  BY HoldersFinite DEF Accounts

\* Phases compare as pairs of numbers.
LEMMA PhaseParts ==
  ASSUME NEW p \in Phases
  PROVE  /\ p = <<p[1], p[2]>> /\ p[1] \in boot_state_t /\ p[1] \in Nat
         /\ p[2] \in {BS_ON_ENTRY, BS_ON_EXIT} /\ p[2] \in Nat
  BY DEF Phases, boot_state_t, BS_PAYLOAD_BOOT, BS_ON_ENTRY, BS_ON_EXIT

\* The only phase of the current state that can have been passed.
LEMMA PassedOfState ==
  ASSUME current_phase \in Phases, NEW p \in Phases, p[1] >= current_phase[1]
  PROVE  Passed(p) <=> p = EntryPhase /\ current_phase[2] = BS_ON_EXIT
  BY PhaseParts DEF Passed, EntryPhase, BS_ON_ENTRY, BS_ON_EXIT

\* boot_state_block() by a thread that notes it in its entry of held or of owns.
LEMMA BlockCounted ==
  ASSUME TypeOK, Accounts, NEW t \in Threads, NEW q \in Phases, ~Passed(q),
         current_phase' = current_phase, blockers' = boot_state_block(q),
         \/ held[t] = NoPhase /\ held' = [held EXCEPT ![t] = q] /\ owns' = owns
         \/ owns[t] = NoPhase /\ owns' = [owns EXCEPT ![t] = q] /\ held' = held
  PROVE  Accounts'
<1>1. blockers' = [blockers EXCEPT ![q] = @ + 1] /\ EntryPhase' = EntryPhase
  BY DEF boot_state_block, EntryPhase
<1>2. ASSUME NEW p \in Phases, p[1] >= current_phase[1]
      PROVE  blockers'[p] = Cardinality(Holders(held', p)) + Cardinality(Holders(owns', p))
  <2>1. blockers[p] = Cardinality(Holders(held, p)) + Cardinality(Holders(owns, p))
    BY <1>2 DEF Accounts
  <2>2. /\ Cardinality(Holders(held, p)) \in Nat /\ Cardinality(Holders(owns, p)) \in Nat
        /\ q # NoPhase /\ p # NoPhase
    BY HoldersFinite
  <2>3. CASE held[t] = NoPhase /\ held' = [held EXCEPT ![t] = q] /\ owns' = owns
    <3>1. p # q => Holders(held', p) = Holders(held, p)
      BY <2>2, <2>3 DEF TypeOK, Holders
    <3>2. p = q => Holders(held', p) = Holders(held, p) \cup {t} /\ t \notin Holders(held, p)
      BY <2>2, <2>3 DEF TypeOK, Holders
    <3>3. IsFiniteSet(Holders(held, p)) /\ Cardinality(Holders(held, p)) \in Nat
      BY HoldersFinite
    <3>4. p = q => Cardinality(Holders(held', p)) = Cardinality(Holders(held, p)) + 1
      BY <3>2, <3>3, FS_AddElement
    <3> QED
      BY <1>1, <2>1, <2>2, <2>3, <3>1, <3>4, SMTT(60) DEF TypeOK
  <2>4. CASE owns[t] = NoPhase /\ owns' = [owns EXCEPT ![t] = q] /\ held' = held
    <3>1. p # q => Holders(owns', p) = Holders(owns, p)
      BY <2>2, <2>4 DEF TypeOK, Holders
    <3>2. p = q => Holders(owns', p) = Holders(owns, p) \cup {t} /\ t \notin Holders(owns, p)
      BY <2>2, <2>4 DEF TypeOK, Holders
    <3>3. IsFiniteSet(Holders(owns, p)) /\ Cardinality(Holders(owns, p)) \in Nat
      BY HoldersFinite
    <3>4. p = q => Cardinality(Holders(owns', p)) = Cardinality(Holders(owns, p)) + 1
      BY <3>2, <3>3, FS_AddElement
    <3> QED
      BY <1>1, <2>1, <2>2, <2>4, <3>1, <3>4, SMTT(60) DEF TypeOK
  <2> QED
    BY <2>3, <2>4
<1>3. ASSUME current_phase[2] = BS_ON_EXIT PROVE blockers'[EntryPhase] = 0
  <2>1. EntryPhase \in Phases /\ EntryPhase[1] >= current_phase[1] /\ blockers[EntryPhase] = 0
    BY <1>3, PhaseParts DEF TypeOK, EntryPhase, Phases, Accounts
  <2>2. Passed(EntryPhase)
    BY <1>3, <2>1, PassedOfState DEF TypeOK
  <2> QED
    BY <1>1, <2>1, <2>2 DEF TypeOK
<1> QED
  BY <1>1, <1>2, <1>3 DEF Accounts

\* boot_state_unblock() by a thread that has blocked the phase.
LEMMA UnblockCounted ==
  ASSUME TypeOK, Accounts, NEW t \in Threads, NEW q \in Phases,
         current_phase' = current_phase, blockers' = boot_state_unblock(q),
         \/ held[t] = q /\ held' = [held EXCEPT ![t] = NoPhase] /\ owns' = owns
         \/ owns[t] = q /\ owns' = [owns EXCEPT ![t] = NoPhase] /\ held' = held
  PROVE  Accounts'
<1>1. EntryPhase' = EntryPhase /\ q # NoPhase
  BY DEF EntryPhase
<1>2. ASSUME NEW p \in Phases, p[1] >= current_phase[1]
      PROVE  blockers'[p] = Cardinality(Holders(held', p)) + Cardinality(Holders(owns', p))
  <2>1. blockers[p] = Cardinality(Holders(held, p)) + Cardinality(Holders(owns, p))
    BY <1>2 DEF Accounts
  <2>2. Cardinality(Holders(held, p)) \in Nat /\ Cardinality(Holders(owns, p)) \in Nat /\ p # NoPhase
    BY HoldersFinite
  <2>3. p = q => ~Passed(q) /\ blockers[q] > 0
    <3> SUFFICES ASSUME p = q PROVE ~Passed(q) /\ blockers[q] > 0
      OBVIOUS
    <3>1. blockers[q] > 0
      BY <2>1, <2>2, HoldersFinite
    <3> QED
      BY <1>2, <3>1, PassedOfState DEF TypeOK, Accounts
  <2>4. blockers'[p] = blockers[p] - (IF p = q THEN 1 ELSE 0)
    BY <2>3 DEF boot_state_unblock, TypeOK
  <2>5. CASE held[t] = q /\ held' = [held EXCEPT ![t] = NoPhase] /\ owns' = owns
    <3>1. p # q => Holders(held', p) = Holders(held, p)
      BY <2>2, <2>5 DEF TypeOK, Holders
    <3>2. p = q => Holders(held, p) = Holders(held', p) \cup {t} /\ t \notin Holders(held', p)
      BY <2>2, <2>5 DEF TypeOK, Holders
    <3>3. IsFiniteSet(Holders(held', p)) /\ Cardinality(Holders(held', p)) \in Nat
      BY HoldersFinite
    <3>4. p = q => Cardinality(Holders(held, p)) = Cardinality(Holders(held', p)) + 1
      BY <3>2, <3>3, FS_AddElement
    <3> QED
      BY <2>1, <2>2, <2>4, <2>5, <3>1, <3>3, <3>4
  <2>6. CASE owns[t] = q /\ owns' = [owns EXCEPT ![t] = NoPhase] /\ held' = held
    <3>1. p # q => Holders(owns', p) = Holders(owns, p)
      BY <2>2, <2>6 DEF TypeOK, Holders
    <3>2. p = q => Holders(owns, p) = Holders(owns', p) \cup {t} /\ t \notin Holders(owns', p)
      BY <2>2, <2>6 DEF TypeOK, Holders
    <3>3. IsFiniteSet(Holders(owns', p)) /\ Cardinality(Holders(owns', p)) \in Nat
      BY HoldersFinite
    <3>4. p = q => Cardinality(Holders(owns, p)) = Cardinality(Holders(owns', p)) + 1
      BY <3>2, <3>3, FS_AddElement
    <3> QED
      BY <2>1, <2>2, <2>4, <2>6, <3>1, <3>3, <3>4
  <2> QED
    BY <2>5, <2>6
<1>3. ASSUME current_phase[2] = BS_ON_EXIT PROVE blockers'[EntryPhase] = 0
  <2>1. EntryPhase \in Phases /\ blockers[EntryPhase] = 0
    BY <1>3, PhaseParts DEF TypeOK, EntryPhase, Phases, Accounts
  <2> QED
    BY <2>1 DEF boot_state_unblock, TypeOK
<1> QED
  BY <1>1, <1>2, <1>3 DEF Accounts

LEMMA StepBInv == IInv /\ Places /\ BInv /\ [Next]_vars => BInv'
<1> SUFFICES ASSUME IInv, Places, BInv, [Next]_vars PROVE BInv'
  OBVIOUS
<1>ty. TypeOK /\ PcKinds /\ Accounts /\ HeldByWrapper /\ WrapperHolds /\ WalkForward
  BY DEF IInv, BInv
<1>ids. Main \in Threads /\ Main \notin Workers /\ Idle \notin Workers /\ Workers \subseteq Threads /\ Main # Idle
  BY DEF Main, Idle, Threads, Workers
<1>cp. current_phase \in Phases /\ EntryPhase \in Phases /\ EntryPhase[1] = current_phase[1]
  BY <1>ty, PhaseParts DEF TypeOK, EntryPhase, Phases
\* Steps that change no boot state variable, no wrapper and no label of a worker.
<1>1. ASSUME UNCHANGED <<current_phase, complete, blockers, next_id, wrap, held, owns>>,
             \A w \in Workers : pc'[w] = pc[w],
             complete[current_phase[1]] => current' = Main /\ pc'[Main] \in {"walk", "dead"},
             pc'[Main] \in {"callbacks", "callback"} =>
               pc[Main] \in {"walk", "callbacks", "callback"},
             pc'[Main] = "walk" => pc[Main] = "walk"
      PROVE  BInv'
  <2>1. Accounts'
    BY <1>1, <1>ty DEF Accounts, EntryPhase, Holders
  <2>2. HeldByWrapper' /\ WrapperHolds'
    BY <1>1, <1>ty DEF HeldByWrapper, WrapperHolds, Live, Passed
  <2>3. WalkForward'
    BY <1>1, <1>ty DEF WalkForward, BS_ON_ENTRY, BS_ON_EXIT
  <2> QED
    BY <2>1, <2>2, <2>3 DEF BInv
<1>2. CASE \/ UNCHANGED vars \/ StateAlreadyExecuted \/ EnterState \/ CallCallback \/ PollTimers
           \/ Handoff \/ IdleStart \/ IdleTimers
           \/ \E cb \in Callbacks, p \in Phases : SchedCallback(cb, p)
           \/ \E t \in Threads : thread_yield(t)
           \/ \E t \in Threads, value \in BOOLEAN : thread_set_coop(t, value)
  <2>1. UNCHANGED <<current_phase, complete, blockers, next_id, wrap, held, owns>>
    BY <1>2
       DEF vars, bootVars, threadVars, StateAlreadyExecuted, EnterState, CallCallback, PollTimers,
       Handoff, IdleStart, IdleTimers, SchedCallback, thread_yield, thread_set_coop, timers_run
  <2>2. \A w \in Workers : pc'[w] = pc[w]
    BY <1>2, <1>ty, <1>ids DEF vars, StateAlreadyExecuted, EnterState, CallCallback, PollTimers,
       Handoff, IdleStart, IdleTimers, SchedCallback, thread_yield, thread_set_coop, GoMain, TypeOK
  <2>3. complete[current_phase[1]] => current' = Main /\ pc'[Main] \in {"walk", "dead"}
    <3> SUFFICES ASSUME complete[current_phase[1]], ~UNCHANGED vars
                 PROVE  current' = Main /\ pc'[Main] \in {"walk", "dead"}
      BY <1>ty DEF WalkForward, vars, threadVars
    <3>1. current = Main /\ pc[Main] \in {"walk", "dead"}
      BY <1>ty DEF WalkForward
    <3>2. StateAlreadyExecuted
      BY <1>2, <3>1, <1>ids
         DEF EnterState, CallCallback, PollTimers, Handoff, IdleStart, IdleTimers,
         SchedCallback, thread_yield, thread_set_coop, MainAt, MayCall, UserPc
    <3> QED
      BY <3>1, <3>2, <1>ty, <1>ids DEF StateAlreadyExecuted, GoMain, threadVars, TypeOK
  <2>4. /\ pc'[Main] \in {"callbacks", "callback"} => pc[Main] \in {"walk", "callbacks", "callback"}
        /\ pc'[Main] = "walk" => pc[Main] = "walk"
    BY <1>2, <1>ty, <1>ids DEF vars, StateAlreadyExecuted, EnterState, CallCallback, PollTimers,
       Handoff, IdleStart, IdleTimers, SchedCallback, thread_yield, thread_set_coop, GoMain, MainAt, TypeOK
  <2> QED
    BY <1>1, <2>1, <2>2, <2>3, <2>4
<1>3. CASE CallbackReturns
  <2>1. UNCHANGED <<current_phase, complete, blockers, next_id, wrap, held, owns, current>>
    BY <1>3 DEF CallbackReturns, bootVars, threadVars
  <2>2. pc[Main] = "callback" /\ pc' = [pc EXCEPT ![Main] = "callbacks"]
    BY <1>3 DEF CallbackReturns, MainAt, GoMain
  <2>3. ~complete[current_phase[1]]
    BY <2>2, <1>ty DEF WalkForward
  <2> QED
    BY <1>1, <2>1, <2>2, <2>3, <1>ty, <1>ids DEF TypeOK
<1>4. CASE RunStateReturns
  <2>1. UNCHANGED <<current_phase, complete, blockers, wrap, held, owns, current>>
    BY <1>4 DEF RunStateReturns, threadVars
  <2>2. /\ pc[Main] = "run_state" /\ pc' = [pc EXCEPT ![Main] = "callbacks"]
        /\ next_id' \in Successors(current_phase[1])
    BY <1>4 DEF RunStateReturns, MainAt, GoMain
  <2>3. ~complete[current_phase[1]]
    BY <2>2, <1>ty DEF WalkForward
  <2>4. Accounts'
    BY <2>1, <1>ty DEF Accounts, EntryPhase, Holders
  <2>5. \A w \in Workers : pc'[w] = pc[w]
    BY <2>2, <1>ty, <1>ids DEF TypeOK
  <2>6. HeldByWrapper' /\ WrapperHolds'
    BY <2>1, <2>5, <1>ty DEF HeldByWrapper, WrapperHolds, Live, Passed
  <2>7. pc'[Main] = "callbacks"
    BY <2>2, <1>ty, <1>ids DEF TypeOK
  <2>8. WalkForward'
    BY <2>1, <2>2, <2>3, <2>7, <1>ty DEF WalkForward
  <2> QED
    BY <2>4, <2>6, <2>8 DEF BInv
\* The phase is left with no blocker, so no thread_run() thread is alive.
<1>5. CASE RunState
  <2>1. /\ UNCHANGED <<complete, blockers, next_id, wrap, held, owns, current>>
        /\ pc[Main] = "callbacks" /\ pc' = [pc EXCEPT ![Main] = "run_state"]
        /\ current_phase[2] = BS_ON_ENTRY /\ current_phase' = <<current_phase[1], BS_ON_EXIT>>
        /\ blockers[current_phase] = 0
    BY <1>5 DEF RunState, PhaseDone, MainAt, GoMain, threadVars
  <2>2. ~complete[current_phase[1]]
    BY <2>1, <1>ty DEF WalkForward
  <2>3. current_phase'[1] = current_phase[1] /\ current_phase'[2] = BS_ON_EXIT /\ EntryPhase' = current_phase
    BY <2>1, <1>cp, PhaseParts DEF EntryPhase
  <2>4. Accounts'
    BY <2>1, <2>3, <1>ty DEF Accounts, Holders
  <2>5. current_phase[1] >= current_phase[1]
    BY <1>cp, PhaseParts
  <2>6. \A t \in Threads : held[t] # current_phase
    BY <2>1, <2>5, <1>ty, <1>cp, NobodyHolds
  <2>7. \A w \in Workers : pc'[w] = pc[w] /\ Live(w)' = Live(w)
    BY <2>1, <1>ty, <1>ids DEF TypeOK, Live
  <2>8. HeldByWrapper'
    BY <2>1, <2>7, <1>ty DEF HeldByWrapper
  <2>9. WrapperHolds'
    <3> SUFFICES ASSUME NEW w \in Workers, Live(w)
                 PROVE  /\ wrap[w] # CurrentPhase
                        /\ held[w] = NoPhase => Passed(wrap[w])'
      BY <2>1, <2>7 DEF WrapperHolds
    <3>1. wrap[w] # CurrentPhase
      BY <2>6, <1>ty, <1>ids DEF WrapperHolds
    <3>2. wrap[w] \in Phases
      BY <3>1, <1>ty, <1>ids DEF TypeOK, PcKinds, Live
    <3>3. ASSUME held[w] = NoPhase PROVE Passed(wrap[w])'
      <4>1. Passed(wrap[w])
        BY <3>1, <3>3, <2>2, <1>ty DEF WrapperHolds
      <4> QED
        BY <4>1, <2>1, <2>3, <3>2, PhaseParts DEF Passed, BS_ON_ENTRY, BS_ON_EXIT
    <3> QED
      BY <3>1, <3>3
  <2>10. pc'[Main] = "run_state"
    BY <2>1, <1>ty, <1>ids DEF TypeOK
  <2>11. WalkForward'
    BY <2>1, <2>2, <2>3, <2>10, <1>ty DEF WalkForward
  <2> QED
    BY <2>4, <2>8, <2>9, <2>11 DEF BInv
\* Both phases of the state have no blocker when it is left.
<1>6. CASE LeaveState
  <2> DEFINE s == current_phase[1]
  <2>1. /\ UNCHANGED <<blockers, next_id, wrap, held, owns, current>>
        /\ current = Main /\ pc[Main] = "callbacks" /\ pc' = [pc EXCEPT ![Main] = "walk"]
        /\ current_phase[2] = BS_ON_EXIT /\ current_phase' = <<next_id, BS_ON_ENTRY>>
        /\ complete' = [complete EXCEPT ![s] = TRUE]
        /\ blockers[current_phase] = 0
    BY <1>6 DEF LeaveState, PhaseDone, MainAt, GoMain, threadVars
  <2>2. s \in boot_state_t /\ s \in Nat /\ next_id \in boot_state_t /\ next_id \in Nat
    BY <1>cp, <1>ty, PhaseParts DEF TypeOK, boot_state_t
  <2>3. next_id > s \/ next_id = s
    BY <2>1, <2>2, <1>ty
       DEF WalkForward, Successors, BS_OS_RESUME_CHECK, BS_OS_RESUME, BS_WRITE_TABLES
  <2>4. ~complete[s]
    BY <2>1, <1>ty DEF WalkForward
  <2>5. current_phase'[1] = next_id /\ current_phase'[2] = BS_ON_ENTRY
    BY <2>1
  <2>6. Accounts'
    <3>1. \A p \in Phases : p[1] >= next_id => p[1] >= s
      BY <2>2, <2>3, PhaseParts
    <3> QED
      BY <2>1, <2>5, <3>1, <1>ty DEF Accounts, Holders, BS_ON_ENTRY, BS_ON_EXIT
  <2>7. blockers[EntryPhase] = 0 /\ EntryPhase[1] >= s /\ current_phase[1] >= s
    BY <2>1, <2>2, <1>ty, <1>cp DEF Accounts
  <2>8. \A t \in Threads : held[t] # current_phase /\ held[t] # EntryPhase
    BY <2>1, <2>7, <1>ty, <1>cp, NobodyHolds
  <2>9. \A w \in Workers : pc'[w] = pc[w] /\ Live(w)' = Live(w)
    BY <2>1, <1>ty, <1>ids DEF TypeOK, Live
  <2>10. HeldByWrapper'
    <3>1. ASSUME NEW t \in Threads, held[t] # NoPhase PROVE held[t][1] # s /\ held[t][1] \in boot_state_t
      <4>1. held[t] \in Phases
        BY <3>1, <1>ty DEF TypeOK
      <4> QED
        BY <4>1, <2>1, <2>8, <1>cp, PhaseParts DEF EntryPhase
    <3> QED
      BY <2>1, <2>9, <3>1, <1>ty DEF HeldByWrapper, TypeOK
  <2>11. WrapperHolds'
    <3> SUFFICES ASSUME NEW w \in Workers, Live(w)
                 PROVE  /\ wrap[w] # CurrentPhase
                        /\ held[w] = NoPhase => Passed(wrap[w])' \/ complete'[next_id]
      BY <2>1, <2>5, <2>9 DEF WrapperHolds
    <3>1. wrap[w] # CurrentPhase
      BY <2>8, <1>ty, <1>ids DEF WrapperHolds
    <3>2. wrap[w] \in Phases
      BY <3>1, <1>ty, <1>ids DEF TypeOK, PcKinds, Live
    <3>3. ASSUME held[w] = NoPhase, next_id > s PROVE Passed(wrap[w])'
      <4>1. Passed(wrap[w])
        BY <3>1, <3>3, <2>4, <1>ty DEF WrapperHolds
      <4> QED
        BY <4>1, <2>1, <2>2, <2>5, <3>2, <3>3, PhaseParts DEF Passed
    <3>4. ASSUME next_id = s PROVE complete'[next_id]
      BY <3>4, <2>1, <2>2, <1>ty DEF TypeOK
    <3> QED
      BY <3>1, <3>3, <3>4, <2>3
  <2>12. WalkForward'
    <3>1. pc'[Main] = "walk"
      BY <2>1, <1>ty, <1>ids DEF TypeOK
    <3>2. \A x \in boot_state_t : complete'[x] => x <= next_id
      BY <2>1, <2>2, <2>3, <1>ty DEF WalkForward, TypeOK, boot_state_t
    <3> QED
      BY <2>1, <2>5, <3>1, <3>2 DEF WalkForward
  <2> QED
    BY <2>6, <2>10, <2>11, <2>12 DEF BInv
\* Calls from driver code change neither the phase nor what is complete.
<1>7. ASSUME NEW t \in Threads, UserUnblock(t) \/ \E p \in Phases : UserBlock(t, p) PROVE BInv'
  <2>1. UNCHANGED <<current_phase, complete, next_id, wrap, held, pc, current>>
    BY <1>7 DEF UserUnblock, UserBlock, threadVars
  <2>2. Accounts'
    <3>1. CASE UserUnblock(t)
      BY <2>1, <3>1, <1>ty, UnblockCounted DEF UserUnblock, TypeOK
    <3>2. ASSUME NEW p \in Phases, UserBlock(t, p) PROVE Accounts'
      BY <2>1, <3>2, <1>ty, BlockCounted DEF UserBlock
    <3> QED
      BY <1>7, <3>1, <3>2
  <2> QED
    BY <2>1, <2>2, <1>ty DEF BInv, HeldByWrapper, WrapperHolds, WalkForward, Live, Passed
\* The unblock names the phase that was blocked, or one that has been passed.
<1>8. ASSUME NEW t \in Workers, ThreadExit(t) PROVE BInv'
  <2> DEFINE p == IF wrap[t] = CurrentPhase THEN current_phase ELSE wrap[t]
  <2>1. /\ UNCHANGED <<current_phase, complete, next_id, owns>>
        /\ current = t /\ t \in Threads /\ t # Main /\ Live(t)
        /\ blockers' = boot_state_unblock(p)
        /\ pc' = [pc EXCEPT ![t] = "unused"] /\ wrap' = [wrap EXCEPT ![t] = NoPhase]
        /\ held' = [held EXCEPT ![t] = NoPhase]
    BY <1>8, <1>ids DEF ThreadExit, Live
  <2>2. ~complete[current_phase[1]]
    BY <2>1, <1>ty DEF WalkForward
  <2>3. p \in Phases
    BY <2>1, <1>ty, <1>cp DEF TypeOK, PcKinds, Live
  <2>4. Accounts'
    <3>1. CASE held[t] = NoPhase
      <4>1. Passed(p)
        BY <2>1, <2>2, <3>1, <1>ty, <1>cp DEF WrapperHolds
      <4>2. blockers' = blockers /\ held' = held
        BY <2>1, <3>1, <4>1, <1>ty DEF boot_state_unblock, TypeOK
      <4>s. UNCHANGED <<current_phase, blockers, held, owns>> /\ EntryPhase' = EntryPhase
        BY <2>1, <4>2 DEF EntryPhase
      <4> QED
        BY <4>s, <1>ty DEF Accounts, Holders
    <3>2. CASE held[t] # NoPhase
      <4>1. held[t] = p
        BY <2>1, <3>2, <1>ty DEF HeldByWrapper, WrapperHolds
      <4> QED
        BY <2>1, <2>3, <4>1, <1>ty, UnblockCounted
    <3> QED
      BY <3>1, <3>2
  <2>5. \A u \in Threads : u # t => pc'[u] = pc[u] /\ wrap'[u] = wrap[u] /\ held'[u] = held[u]
    BY <2>1, <1>ty DEF TypeOK
  <2>6. held'[t] = NoPhase /\ pc'[t] = "unused"
    BY <2>1, <1>ty DEF TypeOK
  <2>7. HeldByWrapper' /\ WrapperHolds'
    BY <2>1, <2>5, <2>6, <1>ty, <1>ids DEF HeldByWrapper, WrapperHolds, Live, Passed
  <2>8. WalkForward'
    BY <2>1, <2>2, <2>5, <1>ty, <1>ids DEF WalkForward
  <2> QED
    BY <2>4, <2>7, <2>8 DEF BInv
<1>9. ASSUME NEW w \in Workers, NEW wrapper \in Phases \cup {CurrentPhase}, StartThread(w, wrapper)
      PROVE  BInv'
  <2> DEFINE p == IF wrapper = CurrentPhase THEN current_phase ELSE wrapper
  <2>1. /\ UNCHANGED <<current_phase, complete, next_id, owns>>
        /\ w \in free /\ w \in Threads /\ w # Main
        /\ blockers' = boot_state_block(p)
        /\ pc' = [pc EXCEPT ![w] = "body"] /\ wrap' = [wrap EXCEPT ![w] = wrapper]
        /\ held' = [held EXCEPT ![w] = IF Passed(p) THEN NoPhase ELSE p]
    BY <1>9, <1>ids DEF StartThread
  <2>2. ~complete[current_phase[1]]
    BY <1>9, <1>ty DEF StartThread, MayCall, UserPc, WalkForward
  <2>3. p \in Phases
    BY <1>cp
  <2>4. held[w] = NoPhase
    BY <2>1, <1>ty DEF HeldByWrapper, Places
  <2>5. /\ pc'[w] = "body" /\ wrap'[w] = wrapper /\ held'[w] = (IF Passed(p) THEN NoPhase ELSE p)
        /\ \A u \in Threads : u # w => pc'[u] = pc[u] /\ wrap'[u] = wrap[u] /\ held'[u] = held[u]
    BY <2>1, <1>ty DEF TypeOK
  <2>6. Accounts'
    <3>1. CASE Passed(p)
      <4>1. blockers' = blockers /\ held' = held
        BY <2>1, <2>4, <3>1, <1>ty DEF boot_state_block, TypeOK
      <4>s. UNCHANGED <<current_phase, blockers, held, owns>> /\ EntryPhase' = EntryPhase
        BY <2>1, <4>1 DEF EntryPhase
      <4> QED
        BY <4>s, <1>ty DEF Accounts, Holders
    <3>2. CASE ~Passed(p)
      BY <2>1, <2>3, <2>4, <3>2, <1>ty, BlockCounted
    <3> QED
      BY <3>1, <3>2
  <2>7. ASSUME ~Passed(p) PROVE ~complete[p[1]]
    BY <2>2, <2>3, <2>7, <1>ty, <1>cp, PhaseParts DEF WalkForward, Passed
  <2>8. HeldByWrapper'
    BY <2>1, <2>3, <2>5, <2>7, <1>ty DEF HeldByWrapper, Live
  <2>9. ~Passed(current_phase)
    BY <1>cp, PhaseParts DEF Passed
  <2>10. WrapperHolds'
    BY <2>1, <2>3, <2>5, <2>9, <1>ty, <1>ids DEF WrapperHolds, Live, Passed
  <2>11. WalkForward'
    BY <2>1, <2>2, <2>5, <1>ty, <1>ids DEF WalkForward
  <2> QED
    BY <2>6, <2>8, <2>10, <2>11 DEF BInv
<1> QED
  BY <1>2, <1>3, <1>4, <1>5, <1>6, <1>7, <1>8, <1>9
  DEF Next, Progress, Call, Stopped, thread_run, thread_run_until

\* The blockers of the phases that are still to come are exactly the ones that
\* live threads and driver code have put there.
THEOREM BlockersCounted == Spec => []BlockerAccounting
<1>1. Init => IInv /\ Places /\ BInv
  BY InitIInv, InitPlaces, InitBInv
<1>2. IInv /\ Places /\ BInv /\ [Next]_vars => IInv' /\ Places' /\ BInv'
  BY StepIInv, StepPlaces, StepBInv
<1>3. ASSUME IInv, BInv PROVE BlockerAccounting
  <2>1. \A p \in Phases : ~Passed(p) => p[1] >= current_phase[1]
    BY <1>3, PhaseParts, SMTT(60) DEF IInv, TypeOK, Passed
  <2> QED
    BY <1>3, <2>1 DEF BInv, Accounts, BlockerAccounting, Holders
<1> QED
  BY <1>1, <1>2, <1>3, PTL DEF Spec

\* A phase that a live thread blocks has not been run to its end, and thread_run()
\* keeps the machine in the phase in which it was called.
THEOREM PhaseHeld == Spec => []ThreadHoldsPhase
<1>1. Init => IInv /\ Places /\ BInv
  BY InitIInv, InitPlaces, InitBInv
<1>2. IInv /\ Places /\ BInv /\ [Next]_vars => IInv' /\ Places' /\ BInv'
  BY StepIInv, StepPlaces, StepBInv
<1>3. ASSUME IInv, BInv PROVE ThreadHoldsPhase
  <2> SUFFICES ASSUME NEW w \in Workers, Live(w), held[w] # NoPhase, held[w][1] = current_phase[1]
               PROVE  held[w][2] >= current_phase[2]
    BY <1>3 DEF BInv, HeldByWrapper, WrapperHolds, ThreadHoldsPhase, Workers
  <2>1. w \in Threads /\ held[w] \in Phases /\ current_phase \in Phases /\ TypeOK /\ Accounts
    BY <1>3 DEF IInv, BInv, TypeOK, Workers
  <2>2. EntryPhase \in Phases /\ EntryPhase[1] >= current_phase[1]
    BY <2>1, PhaseParts DEF EntryPhase, Phases
  <2>3. CASE current_phase[2] = BS_ON_EXIT
    <3>1. held[w] # EntryPhase
      BY <2>1, <2>2, <2>3, NobodyHolds DEF Accounts
    <3> QED
      BY <2>1, <2>3, <3>1, PhaseParts DEF EntryPhase
  <2>4. CASE current_phase[2] = BS_ON_ENTRY
    BY <2>1, <2>4, PhaseParts DEF BS_ON_ENTRY
  <2> QED
    BY <2>1, <2>3, <2>4, PhaseParts
<1> QED
  BY <1>1, <1>2, <1>3, PTL DEF Spec
=============================================================================
