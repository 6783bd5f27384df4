---------------------------- MODULE BootThreads ----------------------------
(***************************************************************************)
(* The ramstage boot state machine (lib/hardwaremain.c) together with the  *)
(* cooperative threads (lib/thread.c) that may hold it back, as compiled   *)
(* with COOP_MULTITASKING and TIMER_QUEUE.                                 *)
(*                                                                         *)
(* One CPU runs everything.  Control moves from one thread to another only *)
(* in schedule(), so a step is the code between two points at which        *)
(* arbitrary driver code (a boot state callback, a run_state() function, a *)
(* thread body) may call this interface.  That driver code is the          *)
(* environment: it may make any call, at most MaxCalls times in a run.     *)
(*                                                                         *)
(* Time is abstracted: delays are arbitrary, so any sleeping thread may be *)
(* the next one whose timeout has expired; the heap of lib/timer_queue.c   *)
(* that finds it is left out.                                              *)
(***************************************************************************)
EXTENDS Naturals, Sequences, FiniteSets

CONSTANTS
  NumThreads,     \* CONFIG_NUM_THREADS, the BSP's own thread not counted
  MaxTimers,      \* MAX_TIMER_QUEUE_ENTRIES
  Callbacks,      \* the struct boot_state_callback objects
  StaticLists,    \* what boot_state_schedule_static_entries() has queued
  ActiveStates,   \* the boot states whose own code calls this interface
  MaxCalls,       \* bound on the environment's calls
  CurrentPhase,   \* the wrapper argument of thread_run(): whatever is current
  NoPhase         \* "no (state, seq) pair"

BS_OS_RESUME_CHECK == 7
BS_OS_RESUME       == 8
BS_WRITE_TABLES    == 9
BS_PAYLOAD_BOOT    == 11
boot_state_t == 0 .. BS_PAYLOAD_BOOT

BS_ON_ENTRY == 0
BS_ON_EXIT  == 1
Phases == boot_state_t \X {BS_ON_ENTRY, BS_ON_EXIT}

Main    == 0            \* all_threads[0], the BSP running main()
Idle    == NumThreads   \* the thread idle_thread_init() takes first
Threads == 0 .. NumThreads
Workers == Threads \ {Main, Idle}

ASSUME NumThreadsAssumption == NumThreads \in Nat \ {0}
ASSUME MaxTimersAssumption  == MaxTimers \in Nat
ASSUME MaxCallsAssumption   == MaxCalls \in Nat
ASSUME StaticAssumption     == StaticLists \in [Phases -> Seq(Callbacks)]
ASSUME ActiveAssumption     == ActiveStates \subseteq boot_state_t
ASSUME NoPhaseAssumption    == /\ NoPhase \notin Phases \cup {CurrentPhase}
                               /\ CurrentPhase \notin Phases

VARIABLES
  current_phase,  \* <<state_id, seq>>
  complete,       \* boot_states[s].complete
  callbacks,      \* boot_states[s].phases[q].callbacks, first to run first
  blockers,       \* boot_states[s].phases[q].blockers
  next_id,        \* local of bs_walk_state_machine(): the state to go to
  pc,             \* where each thread continues when it gets the CPU
  current,        \* current_thread()
  runnable,       \* runnable_threads, a LIFO list
  free,           \* free_threads (which free thread is taken is not observable)
  sleeping,       \* threads whose timeout_callback is in the timer queue
  can_yield,      \* t->can_yield
  wrap,           \* the wrapper a worker runs in: CurrentPhase, or its (state, seq)
  held,           \* history: the phase on which t's wrapper put a blocker
  owns,           \* history: the phase on which t's own code put a blocker
  calls           \* calls made by the environment so far

bootVars   == <<current_phase, complete, callbacks, blockers, next_id>>
threadVars == <<current, runnable, free, sleeping, can_yield, wrap, held>>
vars == <<bootVars, threadVars, pc, owns, calls>>

UserPc == {"callback", "run_state", "body"}
MainPc == {"walk", "callbacks", "callback", "run_state", "handoff", "dead"}

Init ==
  /\ current_phase = <<0, BS_ON_ENTRY>>
  /\ complete  = [s \in boot_state_t |-> FALSE]
  /\ callbacks = StaticLists
  /\ blockers  = [p \in Phases |-> 0]
  /\ next_id   = 0
  /\ pc = [t \in Threads |-> IF t = Main THEN "walk"
                             ELSE IF t = Idle THEN "idle_start" ELSE "unused"]
  /\ current   = Main
  /\ runnable  = <<Idle>>
  /\ free      = Workers
  /\ sleeping  = {}
  /\ can_yield = [t \in Threads |-> t \in {Main, Idle}]
  /\ wrap = [t \in Threads |-> NoPhase]
  /\ held = [t \in Threads |-> NoPhase]
  /\ owns = [t \in Threads |-> NoPhase]
  /\ calls = 0

-----------------------------------------------------------------------------
(* Boot state machine: the walk                                            *)

\* boot_state_block()/unblock() refuse a pair that has been passed.
Passed(p) ==
  \/ current_phase[1] > p[1]
  \/ current_phase[1] = p[1] /\ current_phase[2] > p[2]

\* Mutants: an unblock that compares the sequence off by one; one that leaves
\* the last blocker.
boot_state_unblock_strict(p) ==
  IF Passed(p) \/ current_phase = p \/ blockers[p] = 0 THEN blockers
  ELSE [blockers EXCEPT ![p] = @ - 1]
boot_state_unblock_keep(p) ==
  IF Passed(p) \/ blockers[p] <= 1 THEN blockers ELSE [blockers EXCEPT ![p] = @ - 1]

boot_state_block(p) ==
  IF Passed(p) THEN blockers ELSE [blockers EXCEPT ![p] = @ + 1]

boot_state_unblock(p) ==
  IF Passed(p) \/ blockers[p] = 0 THEN blockers ELSE [blockers EXCEPT ![p] = @ - 1]

\* Mutants: the thread that is switched to is kept runnable instead of the
\* current one; the current thread is put at the end of the list.
SwitchTo_self(t) == runnable' = <<t>> \o runnable /\ current' = t
SwitchTo_fifo(t) == runnable' = runnable \o <<current>> /\ current' = t

\* schedule(t): the current thread stays runnable, t gets the CPU.
SwitchTo(t) ==
  /\ runnable' = <<current>> \o runnable
  /\ current'  = t

\* schedule(NULL): the head of the runnable list gets the CPU.  On an empty
\* list the code dies; RunnableNeverEmpty says that it never is.
SwitchAway ==
  /\ current'  = Head(runnable)
  /\ runnable' = Tail(runnable)

\* timers_run(): no timeout has expired, or the callback of one that has is
\* called; the only one in the tree is thread_resume_from_timeout().
timers_run ==
  /\ \/ UNCHANGED <<sleeping, runnable, current>>
     \/ \E t \in sleeping : sleeping' = sleeping \ {t} /\ SwitchTo(t)
  /\ UNCHANGED <<free, can_yield, wrap, held>>

MainAt(label) == current = Main /\ pc[Main] = label
GoMain(label) == pc' = [pc EXCEPT ![Main] = label]

\* Head of the loop in bs_walk_state_machine(): a completed state is a
\* failure, else run the timers once and start on the entry callbacks.
StateAlreadyExecuted ==
  /\ MainAt("walk")
  /\ complete[current_phase[1]]
  /\ GoMain("dead")
  /\ UNCHANGED <<bootVars, threadVars, owns, calls>>

EnterState ==
  /\ MainAt("walk")
  /\ ~complete[current_phase[1]]
  /\ GoMain("callbacks")
  /\ timers_run
  /\ UNCHANGED <<bootVars, owns, calls>>

\* bs_call_callbacks(): unlink the first callback and call it ...
CallCallback ==
  /\ MainAt("callbacks")
  /\ callbacks[current_phase] # <<>>
  /\ callbacks' = [callbacks EXCEPT ![current_phase] = Tail(@)]
  /\ GoMain("callback")
  /\ UNCHANGED <<current_phase, complete, blockers, next_id, threadVars, owns, calls>>

\* ... or, with none left and the phase blocked, run a pending timer.
PollTimers ==
  /\ MainAt("callbacks")
  /\ callbacks[current_phase] = <<>>
  /\ blockers[current_phase] > 0
  /\ timers_run
  /\ UNCHANGED <<bootVars, pc, owns, calls>>

\* Mutant: the blockers are not looked at.
PhaseDone_unblocked == MainAt("callbacks") /\ callbacks[current_phase] = <<>>

\* Nothing left to call and nothing that blocks: the phase may be left.
PhaseDone ==
  /\ MainAt("callbacks")
  /\ callbacks[current_phase] = <<>>
  /\ blockers[current_phase] = 0

\* After the entry callbacks the state's function runs,
RunState ==
  /\ PhaseDone
  /\ current_phase[2] = BS_ON_ENTRY
  /\ current_phase' = <<current_phase[1], BS_ON_EXIT>>
  /\ GoMain("run_state")
  /\ UNCHANGED <<complete, callbacks, blockers, next_id, threadVars, owns, calls>>

\* after the exit callbacks the machine moves on.
LeaveState ==
  /\ PhaseDone
  /\ current_phase[2] = BS_ON_EXIT
  /\ current_phase' = <<next_id, BS_ON_ENTRY>>
  /\ complete' = [complete EXCEPT ![current_phase[1]] = TRUE]
  /\ GoMain("walk")
  /\ UNCHANGED <<callbacks, blockers, next_id, threadVars, owns, calls>>

\* What the run_state functions bs_pre_device() .. bs_payload_boot() return.
Successors(s) ==
  IF s = BS_OS_RESUME_CHECK THEN {BS_OS_RESUME, BS_WRITE_TABLES}
  ELSE IF s = BS_PAYLOAD_BOOT THEN {BS_PAYLOAD_BOOT}
  ELSE {s + 1}

RunStateReturns ==
  /\ MainAt("run_state")
  /\ owns[Main] = NoPhase
  /\ \E n \in Successors(current_phase[1]) : next_id' = n
  /\ GoMain("callbacks")
  /\ UNCHANGED <<current_phase, complete, callbacks, blockers, threadVars, owns, calls>>

\* acpi_resume() and payload_run() normally never return.
Handoff ==
  /\ MainAt("run_state")
  /\ owns[Main] = NoPhase
  /\ current_phase[1] \in {BS_OS_RESUME, BS_PAYLOAD_BOOT}
  /\ GoMain("handoff")
  /\ UNCHANGED <<bootVars, threadVars, owns, calls>>

CallbackReturns ==
  /\ MainAt("callback")
  /\ owns[Main] = NoPhase
  /\ GoMain("callbacks")
  /\ UNCHANGED <<bootVars, threadVars, owns, calls>>

-----------------------------------------------------------------------------
(* The idle thread and the end of a thread                                 *)

IdleStart ==
  /\ current = Idle /\ pc[Idle] = "idle_start"
  /\ can_yield' = [can_yield EXCEPT ![Idle] = FALSE]
  /\ pc' = [pc EXCEPT ![Idle] = "idle"]
  /\ UNCHANGED <<bootVars, current, runnable, free, sleeping, wrap, held, owns, calls>>

IdleTimers ==
  /\ current = Idle /\ pc[Idle] = "idle"
  /\ timers_run
  /\ UNCHANGED <<bootVars, pc, owns, calls>>

\* The body returned to call_wrapper_block_current() or
\* call_wrapper_block_state(): unblock, terminate_thread().
ThreadExit(t) ==
  /\ current = t /\ pc[t] = "body"
  /\ owns[t] = NoPhase
  /\ blockers' = boot_state_unblock(IF wrap[t] = CurrentPhase THEN current_phase ELSE wrap[t])
  /\ free' = free \cup {t}
  /\ SwitchAway
  /\ pc'   = [pc EXCEPT ![t] = "unused"]
  /\ wrap' = [wrap EXCEPT ![t] = NoPhase]
  /\ held' = [held EXCEPT ![t] = NoPhase]
  /\ UNCHANGED <<current_phase, complete, callbacks, next_id, sleeping, can_yield, owns, calls>>

-----------------------------------------------------------------------------
(* Calls made by driver code                                               *)

\* The running thread is in driver code and may make one more call.
MayCall(t) ==
  /\ current = t
  /\ pc[t] \in UserPc
  /\ t = Main => current_phase[1] \in ActiveStates
  /\ calls < MaxCalls
  /\ calls' = calls + 1

\* boot_state_sched_on_entry()/_on_exit(): pushed on the front of the list.  A
\* struct already linked on a list may not be linked again.
SchedCallback(cb, p) ==
  /\ \E t \in Threads : MayCall(t)
  /\ \A q \in Phases : \A i \in 1 .. Len(callbacks[q]) : callbacks[q][i] # cb
  /\ ~complete[p[1]]
  /\ callbacks' = [callbacks EXCEPT ![p] = <<cb>> \o @]
  /\ UNCHANGED <<current_phase, complete, blockers, next_id, threadVars, pc, owns>>

\* boot_state_block() from driver code, paired with an unblock by the same
\* code before it returns, as the thread wrappers do.
UserBlock(t, p) ==
  /\ MayCall(t)
  /\ owns[t] = NoPhase
  /\ ~Passed(p)
  /\ blockers' = boot_state_block(p)
  /\ owns' = [owns EXCEPT ![t] = p]
  /\ UNCHANGED <<current_phase, complete, callbacks, next_id, threadVars, pc>>

UserUnblock(t) ==
  /\ current = t
  /\ pc[t] \in UserPc
  /\ owns[t] # NoPhase
  /\ blockers' = boot_state_unblock(owns[t])
  /\ owns' = [owns EXCEPT ![t] = NoPhase]
  /\ UNCHANGED <<current_phase, complete, callbacks, next_id, threadVars, pc, calls>>

\* thread_run()/thread_run_until(): take a free thread, let it block its phase
\* and enter its body; the caller stays runnable.
StartThread(w, wrapper) ==
  LET p == IF wrapper = CurrentPhase THEN current_phase ELSE wrapper
  IN /\ MayCall(current)
     /\ can_yield[current]
     /\ w \in free
     /\ free' = free \ {w}
     /\ SwitchTo(w)
     /\ pc' = [pc EXCEPT ![w] = "body"]
     /\ can_yield' = [can_yield EXCEPT ![w] = TRUE]
     /\ wrap' = [wrap EXCEPT ![w] = wrapper]
     /\ held' = [held EXCEPT ![w] = IF Passed(p) THEN NoPhase ELSE p]
     /\ blockers' = boot_state_block(p)
     /\ UNCHANGED <<current_phase, complete, callbacks, next_id, sleeping, owns>>

thread_run(w)          == StartThread(w, CurrentPhase)
thread_run_until(w, p) == StartThread(w, p)

\* udelay() -> thread_yield_microseconds(): refused in a non-yielding context
\* and when the timer queue is full.
thread_yield(t) ==
  /\ MayCall(t)
  /\ can_yield[t]
  /\ Cardinality(sleeping) < MaxTimers
  /\ sleeping' = sleeping \cup {t}
  /\ SwitchAway
  /\ UNCHANGED <<bootVars, free, can_yield, wrap, held, pc, owns>>

thread_set_coop(t, value) ==
  /\ MayCall(t)
  /\ can_yield[t] # value
  /\ can_yield' = [can_yield EXCEPT ![t] = value]
  /\ UNCHANGED <<bootVars, current, runnable, free, sleeping, wrap, held, pc, owns>>

-----------------------------------------------------------------------------
\* The machine has stopped: the payload or the OS runs, or die() was called.
Stopped ==
  /\ pc[Main] \in {"handoff", "dead"}
  /\ UNCHANGED vars

\* Steps the code takes by itself, and the returns of driver code.
Progress ==
  \/ StateAlreadyExecuted \/ EnterState \/ CallCallback \/ PollTimers
  \/ RunState \/ LeaveState \/ RunStateReturns \/ Handoff \/ CallbackReturns
  \/ IdleStart \/ IdleTimers
  \/ \E t \in Workers : ThreadExit(t)
  \/ \E t \in Threads : UserUnblock(t)

Call ==
  \/ \E cb \in Callbacks, p \in Phases : p[1] \in ActiveStates /\ SchedCallback(cb, p)
  \/ \E t \in Threads, p \in Phases : p[1] \in ActiveStates /\ UserBlock(t, p)
  \/ \E w \in Workers : thread_run(w)
  \/ \E w \in Workers, p \in Phases : p[1] \in ActiveStates /\ thread_run_until(w, p)
  \/ \E t \in Threads : thread_yield(t)
  \/ \E t \in Threads, value \in BOOLEAN : thread_set_coop(t, value)

Next == Progress \/ Call \/ Stopped

Spec == Init /\ [][Next]_vars

\* The CPU keeps running, driver code returns, delays expire.
FairSpec == Spec /\ WF_vars(Progress)

-----------------------------------------------------------------------------
(* Properties                                                              *)

Live(t) == pc[t] = "body"

TypeOK ==
  /\ current_phase \in Phases
  /\ complete  \in [boot_state_t -> BOOLEAN]
  /\ callbacks \in [Phases -> Seq(Callbacks)]
  /\ blockers  \in [Phases -> Nat]
  /\ next_id   \in boot_state_t
  /\ pc \in [Threads -> MainPc \cup {"idle_start", "idle", "body", "unused"}]
  /\ current   \in Threads
  /\ runnable  \in Seq(Threads)
  /\ free      \subseteq Workers
  /\ sleeping  \subseteq Threads
  /\ can_yield \in [Threads -> BOOLEAN]
  /\ wrap \in [Threads -> Phases \cup {CurrentPhase, NoPhase}]
  /\ held \in [Threads -> Phases \cup {NoPhase}]
  /\ owns \in [Threads -> Phases \cup {NoPhase}]
  /\ calls \in 0 .. MaxCalls

\* Every thread is in one place and in one only: it has the CPU, or it is on the
\* runnable list once, or it sleeps in the timer queue, or it is free; and the
\* free threads are exactly the ones that run no body.  A thread in two places
\* would be resumed on a stack that is in use; one in none would be lost.
ThreadPlaces ==
  /\ \A t \in Threads : \/ t = current \/ t \in sleeping \/ t \in free
                         \/ \E i \in 1 .. Len(runnable) : runnable[i] = t
  /\ \A i, j \in 1 .. Len(runnable) : i # j => runnable[i] # runnable[j]
  /\ \A i \in 1 .. Len(runnable) :
        runnable[i] # current /\ runnable[i] \notin sleeping /\ runnable[i] \notin free
  /\ current \notin sleeping /\ current \notin free
  /\ \A w \in Workers : w \in free <=> ~Live(w)
  /\ sleeping \cap free = {}

\* schedule(NULL) never meets an empty list, so its die("Runnable thread list is
\* empty!") is unreachable: the idle thread has the CPU or is the last of the
\* runnable threads, which is also why it runs only when nothing else can.
RunnableNeverEmpty ==
  IF current = Idle THEN runnable = <<>>
  ELSE runnable # <<>> /\ runnable[Len(runnable)] = Idle

\* As long as a phase has not been passed, its blockers field counts the threads
\* that put a blocker there and have not taken it back: no unblock is lost and
\* none is taken from another thread, although the wrappers ignore the result of
\* boot_state_block() and unblock in any case.
BlockerAccounting ==
  \A p \in Phases : ~Passed(p) =>
    blockers[p] = Cardinality({t \in Threads : held[t] = p})
                  + Cardinality({t \in Threads : owns[t] = p})

\* thread_run_until(): while a thread that blocks (state, seq) is alive, that
\* phase has not been run to its end.  thread_run(): the thread keeps the state
\* machine in the very phase in which it was started, so the
\* boot_state_current_unblock() at its end, which names whatever phase is current
\* by then, hits the phase it has blocked.
ThreadHoldsPhase ==
  \A w \in Workers : Live(w) =>
    /\ held[w] # NoPhase =>
         /\ ~complete[held[w][1]]
         /\ held[w][1] = current_phase[1] => held[w][2] >= current_phase[2]
    /\ wrap[w] = CurrentPhase => held[w] = current_phase

\* What bootstate.h says of boot_state_sched_on_entry/exit(): a callback that
\* was accepted is called on entry to or exit from its state.  The code accepts
\* an entry callback as long as the state is not complete, also when the entry
\* callbacks have already been made.
AcceptedCallbacksRun ==
  \A p \in Phases : complete[p[1]] => callbacks[p] = <<>>

\* Boot comes to an end: whatever blocks a phase is taken away in time by the
\* timers that bs_call_callbacks() and the idle thread keep running.
BootFinishes == <>(pc[Main] \in {"handoff", "dead"})
=============================================================================
