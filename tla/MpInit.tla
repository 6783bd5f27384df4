------------------------------- MODULE MpInit -------------------------------
(***************************************************************************)
(* Parallel start of the application processors: cpu/x86/mp_init.c with    *)
(* the SIPI code of cpu/x86/sipi_vector.S, and the work that the boot      *)
(* processor gives to them afterwards (PARALLEL_MP_AP_WORK).               *)
(*                                                                         *)
(* All processors run at the same time.  The boot processor walks a flight *)
(* plan of records; a processor may pass a record only when its barrier is *)
(* released.  Every wait of the boot processor may time out at any moment. *)
(***************************************************************************)
EXTENDS Integers, FiniteSets, Sequences

CONSTANTS
  APs,            \* application processors present
  BSP,            \* the boot processor
  NumAPs,         \* num_cpus - 1, what get_cpu_count() makes of them
  ParallelLoad,   \* parallel_microcode_load
  MaxWork,        \* bound on the calls of run_ap_work()
  NULL            \* the null callback

CPUs    == APs \cup {BSP}
Records == 0 .. 3       \* mp_steps[]
Last    == 3

\* The microcode lock: free, taken, or 0xffffffff.
Free    == 0
Taken   == 1
AllOnes == 2

ASSUME CpuAssumption ==
  /\ IsFiniteSet(APs) /\ BSP \notin APs
  /\ NumAPs \in Nat
  /\ ParallelLoad \in BOOLEAN /\ MaxWork \in Nat
  /\ NULL \notin Nat

VARIABLES
  pc,             \* where each processor is
  rec,            \* its index in the flight plan
  backup,         \* the OS lives in the default SMM area (S3), it has been saved
  area,           \* what the default SMM area holds
  sipi_sent,      \* the first SIPI has gone out
  ap_count,       \* processors that have taken a CPU number
  microcode_lock,
  barrier,        \* mp_steps[i].barrier
  cpus_entered,   \* mp_steps[i].cpus_entered
  do_smm,         \* mp_state.do_smm
  smm_lock,       \* smm_relocation_lock
  apic_known,     \* processors whose APIC id is in cpus[]
  global_num_aps, \* what run_ap_work() waits for; 0 until start_aps() is called
  smm_map,        \* those that adjust_smm_apic_id_map() has put in the handlers
  relocated,      \* processors that have run the relocation handler
  initialized,    \* processors that have run mp_initialize_cpu()
  ret,            \* result of mp_init(): 0 or -1
  ap_callbacks,   \* the work for each AP: the number of the call, or NULL
  func,           \* local of ap_wait_for_instruction()
  work,           \* calls of run_ap_work() so far
  result,         \* result of each call: 0 or -1
  ran             \* history: the calls each AP has run

bootVars == <<backup, area, sipi_sent, ap_count, microcode_lock, apic_known,
              global_num_aps>>
smmVars  == <<do_smm, smm_lock, smm_map, relocated>>
planVars == <<rec, barrier, cpus_entered, initialized, ret>>
workVars == <<ap_callbacks, func, work, result, ran>>
vars == <<pc, bootVars, smmVars, planVars, workVars>>

\* Labels at which an AP executes the SIPI code in the default SMM area.
SipiCode == {"microcode", "load_microcode", "msrs"}

Init ==
  /\ pc = [c \in CPUs |-> IF c = BSP THEN "load_sipi" ELSE "wait_sipi"]
  /\ rec = [c \in CPUs |-> 0]
  /\ backup \in BOOLEAN
  /\ area = "os" /\ sipi_sent = FALSE /\ ap_count = 0 /\ microcode_lock = Free
  /\ apic_known = {BSP} /\ global_num_aps = 0
  /\ do_smm \in BOOLEAN
  /\ smm_lock = FALSE /\ smm_map = {} /\ relocated = {}
  /\ barrier = [r \in Records |-> IF r = 1 THEN 1 ELSE 0]
  /\ cpus_entered = [r \in Records |-> 0]
  /\ initialized = {} /\ ret = 0
  /\ ap_callbacks = [a \in APs |-> NULL] /\ func = [a \in APs |-> NULL]
  /\ work = 0 /\ result = <<>> /\ ran = [a \in APs |-> <<>>]

Go(c, label) == pc' = [pc EXCEPT ![c] = label]

-----------------------------------------------------------------------------
(* The boot processor: mp_init_with_smm(), mp_init()                       *)

\* load_sipi_vector(); the number of APs is noted for run_ap_work() as well.
LoadSipiVector ==
  /\ pc[BSP] = "load_sipi"
  /\ area' = "sipi"
  /\ microcode_lock' = IF ParallelLoad THEN Free ELSE AllOnes
  /\ ap_count' = 0
  /\ global_num_aps' = NumAPs
  /\ Go(BSP, "start_aps")
  /\ UNCHANGED <<backup, sipi_sent, apic_known, smmVars, planVars, workVars>>

\* ... or one of its checks, or of those before it in mp_init(), fails.
LoadSipiVectorFails ==
  /\ pc[BSP] = "load_sipi"
  /\ area' \in {area, "sipi"}
  /\ ret' = -1
  /\ Go(BSP, "restore")
  /\ UNCHANGED <<backup, sipi_sent, ap_count, microcode_lock, apic_known, global_num_aps, smmVars,
                 rec, barrier, cpus_entered, initialized, workVars>>

\* start_aps(): the SIPIs go out ...
SendSipi ==
  /\ pc[BSP] = "start_aps"
  /\ IF NumAPs = 0 THEN Go(BSP, "wait") /\ UNCHANGED sipi_sent
                   ELSE Go(BSP, "check_in") /\ sipi_sent' = TRUE
  /\ UNCHANGED <<backup, area, ap_count, microcode_lock, apic_known, global_num_aps, smmVars,
                 planVars, workVars>>

\* ... and the boot processor waits for the APs to take their numbers.
AllCheckedIn ==
  /\ pc[BSP] = "check_in"
  /\ ap_count = NumAPs
  /\ Go(BSP, "wait")
  /\ UNCHANGED <<bootVars, smmVars, planVars, workVars>>

StartTimeout ==
  /\ \/ pc[BSP] = "start_aps" /\ NumAPs > 0          \* the ICR stays busy
     \/ pc[BSP] = "check_in"
  /\ ret' = -1
  /\ Go(BSP, "restore")
  /\ UNCHANGED <<bootVars, smmVars, rec, barrier, cpus_entered, initialized, workVars>>

\* Mutants: the boot processor does not wait at the first record, at the last.
RecordEntered_first ==
  /\ pc[BSP] = "wait"
  /\ rec[BSP] > 0 /\ barrier[rec[BSP]] = 0 => cpus_entered[rec[BSP]] = NumAPs
  /\ Go(BSP, "call")
  /\ UNCHANGED <<bootVars, smmVars, planVars, workVars>>
RecordEntered_last ==
  /\ pc[BSP] = "wait"
  /\ rec[BSP] < Last /\ barrier[rec[BSP]] = 0 => cpus_entered[rec[BSP]] = NumAPs
  /\ Go(BSP, "call")
  /\ UNCHANGED <<bootVars, smmVars, planVars, workVars>>

\* bsp_do_flight_plan(): wait for the APs if the record is not released ...
RecordEntered ==
  /\ pc[BSP] = "wait"
  /\ barrier[rec[BSP]] = 0 => cpus_entered[rec[BSP]] = NumAPs
  /\ Go(BSP, "call")
  /\ UNCHANGED <<bootVars, smmVars, planVars, workVars>>

\* ... but not for ever,
RecordTimeout ==
  /\ pc[BSP] = "wait"
  /\ barrier[rec[BSP]] = 0
  /\ ret' = -1
  /\ Go(BSP, "call")
  /\ UNCHANGED <<bootVars, smmVars, rec, barrier, cpus_entered, initialized, workVars>>

\* load_smm_handlers(): both handlers are installed, or SMM is given up.
LoadSmmHandlers ==
  /\ pc[BSP] = "call" /\ rec[BSP] = 0
  /\ \/ ~do_smm /\ UNCHANGED <<area, smm_map, do_smm>>
     \/ do_smm /\ area' = "relocation" /\ smm_map' = apic_known /\ UNCHANGED do_smm
     \/ do_smm /\ area' \in {area, "relocation"} /\ do_smm' = FALSE /\ UNCHANGED smm_map
  /\ Go(BSP, "release")
  /\ UNCHANGED <<backup, sipi_sent, ap_count, microcode_lock, apic_known, global_num_aps, smm_lock,
                 relocated, planVars, workVars>>

\* Mutant: after a timeout the records are not released any more.
ReleaseBarrier_success ==
  /\ pc[BSP] = "release"
  /\ barrier' = IF ret = 0 THEN [barrier EXCEPT ![rec[BSP]] = 1] ELSE barrier
  /\ rec' = [rec EXCEPT ![BSP] = @ + 1]
  /\ Go(BSP, IF rec[BSP] = Last THEN "restore" ELSE "wait")
  /\ UNCHANGED <<bootVars, smmVars, cpus_entered, initialized, ret, workVars>>

\* release_barrier(), on to the next record.
ReleaseBarrier ==
  /\ pc[BSP] = "release"
  /\ barrier' = [barrier EXCEPT ![rec[BSP]] = 1]
  /\ rec' = [rec EXCEPT ![BSP] = @ + 1]
  /\ Go(BSP, IF rec[BSP] = Last THEN "restore" ELSE "wait")
  /\ UNCHANGED <<bootVars, smmVars, cpus_entered, initialized, ret, workVars>>

\* The last record has no work for the boot processor.
NoBspCall ==
  /\ pc[BSP] = "call" /\ rec[BSP] = Last
  /\ Go(BSP, "release")
  /\ UNCHANGED <<bootVars, smmVars, planVars, workVars>>

\* restore_default_smm_area(), if it was saved
RestoreDefaultSmmArea ==
  /\ pc[BSP] = "restore"
  /\ area' = IF backup THEN "os" ELSE area
  /\ Go(BSP, "done")
  /\ UNCHANGED <<backup, sipi_sent, ap_count, microcode_lock, apic_known, global_num_aps, smmVars,
                 planVars, workVars>>

-----------------------------------------------------------------------------
(* The application processors: sipi_vector.S and ap_init()                 *)

\* A processor that runs into the default SMM area when the SIPI code is not (or
\* no longer) there is gone.
ApLost(a) ==
  /\ \/ pc[a] \in SipiCode
     \/ pc[a] = "wait_sipi" /\ sipi_sent
  /\ area # "sipi"
  /\ Go(a, "lost")
  /\ UNCHANGED <<bootVars, smmVars, planVars, workVars>>

\* The SIPI arrives; the processor takes the next CPU number.
TakeNumber(a) ==
  /\ pc[a] = "wait_sipi" /\ sipi_sent
  /\ area = "sipi"
  /\ ap_count' = ap_count + 1
  /\ \/ Go(a, "microcode")
     \/ Go(a, "msrs")       \* there is no microcode, or it is loaded already
  /\ UNCHANGED <<backup, area, sipi_sent, microcode_lock, apic_known, global_num_aps, smmVars,
                 planVars, workVars>>

LockMicrocode(a) ==
  /\ pc[a] = "microcode" /\ area = "sipi"
  /\ microcode_lock # Taken
  /\ microcode_lock' = IF microcode_lock = AllOnes THEN AllOnes ELSE Taken
  /\ Go(a, "load_microcode")
  /\ UNCHANGED <<backup, area, sipi_sent, ap_count, apic_known, global_num_aps, smmVars, planVars,
                 workVars>>

MicrocodeLoaded(a) ==
  /\ pc[a] = "load_microcode" /\ area = "sipi"
  /\ microcode_lock' = IF microcode_lock = AllOnes THEN AllOnes ELSE Free
  /\ Go(a, "msrs")
  /\ UNCHANGED <<backup, area, sipi_sent, ap_count, apic_known, global_num_aps, smmVars, planVars,
                 workVars>>

\* The MSRs are mirrored; ap_init() notes the APIC id and walks the flight plan.
ApInit(a) ==
  /\ pc[a] = "msrs" /\ area = "sipi"
  /\ apic_known' = apic_known \cup {a}
  /\ Go(a, "enter")
  /\ UNCHANGED <<backup, area, sipi_sent, ap_count, microcode_lock, global_num_aps, smmVars,
                 planVars, workVars>>

\* ap_do_flight_plan()
EnterRecord(a) ==
  /\ pc[a] = "enter"
  /\ cpus_entered' = [cpus_entered EXCEPT ![rec[a]] = @ + 1]
  /\ Go(a, "barrier")
  /\ UNCHANGED <<bootVars, smmVars, rec, barrier, initialized, ret, workVars>>

\* Mutant: the AP stays at the record whose call is NULL.
PassBarrier_again(a) ==
  /\ pc[a] = "barrier"
  /\ barrier[rec[a]] = 1
  /\ IF rec[a] = 0 THEN Go(a, "enter") /\ UNCHANGED rec
     ELSE Go(a, IF rec[a] = Last THEN "poll" ELSE "call") /\ UNCHANGED rec
  /\ UNCHANGED <<bootVars, smmVars, barrier, cpus_entered, initialized, ret, workVars>>

\* barrier_wait() is over; the first record has no call for the APs.
PassBarrier(a) ==
  /\ pc[a] = "barrier"
  /\ barrier[rec[a]] = 1
  /\ IF rec[a] = 0 THEN Go(a, "enter") /\ rec' = [rec EXCEPT ![a] = 1]
     ELSE Go(a, IF rec[a] = Last THEN "poll" ELSE "call") /\ UNCHANGED rec
  /\ UNCHANGED <<bootVars, smmVars, barrier, cpus_entered, initialized, ret, workVars>>

-----------------------------------------------------------------------------
(* Calls of the flight plan that every processor makes                     *)

\* After a call the boot processor releases the record, an AP enters the next.
AfterCall(c) ==
  /\ Go(c, IF c = BSP THEN "release" ELSE "enter")
  /\ rec' = IF c = BSP THEN rec ELSE [rec EXCEPT ![c] = @ + 1]

\* trigger_smm_relocation() -> smm_initiate_relocation(): one at a time.
SkipRelocation(c) ==
  /\ pc[c] = "call" /\ rec[c] = 1
  /\ ~do_smm
  /\ AfterCall(c)
  /\ UNCHANGED <<bootVars, smmVars, barrier, cpus_entered, initialized, ret, workVars>>

LockRelocation(c) ==
  /\ pc[c] = "call" /\ rec[c] = 1
  /\ do_smm
  /\ ~smm_lock
  /\ smm_lock' = TRUE
  /\ Go(c, "smi")
  /\ UNCHANGED <<bootVars, do_smm, smm_map, relocated, planVars, workVars>>

\* The SMI is taken as soon as it is sent and runs smm_do_relocation(); then the
\* lock is given back.  (The wait after the SMI changes nothing but the log.)
Relocate(c) ==
  /\ pc[c] = "smi"
  /\ relocated' = relocated \cup {c}
  /\ smm_lock' = FALSE
  /\ AfterCall(c)
  /\ UNCHANGED <<bootVars, do_smm, smm_map, barrier, cpus_entered, initialized, ret, workVars>>

\* The ICR stays busy: smm_initiate_relocation_parallel() returns with no SMI sent.
RelocationTimeout(c) ==
  /\ pc[c] = "smi"
  /\ smm_lock' = FALSE
  /\ AfterCall(c)
  /\ UNCHANGED <<bootVars, do_smm, smm_map, relocated, barrier, cpus_entered, initialized, ret,
                 workVars>>

mp_initialize_cpu(c) ==
  /\ pc[c] = "call" /\ rec[c] = 2
  /\ initialized' = initialized \cup {c}
  /\ AfterCall(c)
  /\ UNCHANGED <<bootVars, smmVars, barrier, cpus_entered, ret, workVars>>

-----------------------------------------------------------------------------
(* Work for the APs: run_ap_work(), ap_wait_for_instruction()              *)

\* The last call of a run is mp_park_aps().
Park == MaxWork

\* Every slot of ap_callbacks[] is set.
run_ap_work ==
  /\ pc[BSP] = "done"
  /\ work < MaxWork
  /\ work' = work + 1
  /\ ap_callbacks' = [a \in APs |-> work']
  /\ Go(BSP, "poll_aps")
  /\ UNCHANGED <<bootVars, smmVars, planVars, func, result, ran>>

AllAccepted ==
  /\ pc[BSP] = "poll_aps"
  /\ Cardinality({a \in APs : ap_callbacks[a] = NULL}) = global_num_aps
  /\ result' = Append(result, 0)
  /\ Go(BSP, "done")
  /\ UNCHANGED <<bootVars, smmVars, planVars, ap_callbacks, func, work, ran>>

CallExpired ==
  /\ pc[BSP] = "poll_aps"
  /\ result' = Append(result, -1)
  /\ Go(BSP, "done")
  /\ UNCHANGED <<bootVars, smmVars, planVars, ap_callbacks, func, work, ran>>

ReadCallback(a) ==
  /\ pc[a] = "poll"
  /\ ap_callbacks[a] # NULL
  /\ func' = [func EXCEPT ![a] = ap_callbacks[a]]
  /\ Go(a, "accept")
  /\ UNCHANGED <<bootVars, smmVars, planVars, ap_callbacks, work, result, ran>>

\* Mutant: the slot is not cleared.
AcceptCallback_keep(a) ==
  /\ pc[a] = "accept"
  /\ Go(a, "run")
  /\ UNCHANGED <<bootVars, smmVars, planVars, workVars>>

AcceptCallback(a) ==
  /\ pc[a] = "accept"
  /\ ap_callbacks' = [ap_callbacks EXCEPT ![a] = NULL]
  /\ Go(a, "run")
  /\ UNCHANGED <<bootVars, smmVars, planVars, func, work, result, ran>>

RunFunc(a) ==
  /\ pc[a] = "run"
  /\ ran' = [ran EXCEPT ![a] = Append(@, func[a])]
  /\ Go(a, IF func[a] = Park THEN "parked" ELSE "poll")
  /\ UNCHANGED <<bootVars, smmVars, planVars, ap_callbacks, func, work, result>>

-----------------------------------------------------------------------------
FlightCall(c) ==
  \/ SkipRelocation(c) \/ LockRelocation(c) \/ Relocate(c) \/ RelocationTimeout(c)
  \/ mp_initialize_cpu(c)

BspStep ==
  \/ LoadSipiVector \/ LoadSipiVectorFails \/ SendSipi \/ AllCheckedIn \/ StartTimeout
  \/ RecordEntered \/ RecordTimeout \/ LoadSmmHandlers \/ NoBspCall \/ FlightCall(BSP)
  \/ ReleaseBarrier \/ RestoreDefaultSmmArea
  \/ run_ap_work \/ AllAccepted \/ CallExpired

ApStep(a) ==
  \/ ApLost(a) \/ TakeNumber(a) \/ LockMicrocode(a) \/ MicrocodeLoaded(a) \/ ApInit(a)
  \/ EnterRecord(a) \/ PassBarrier(a) \/ FlightCall(a)
  \/ ReadCallback(a) \/ AcceptCallback(a) \/ RunFunc(a)

\* A processor reads a barrier, a lock or its slot again and again.
Spin ==
  /\ \E c \in CPUs :
       \/ pc[c] = "barrier" /\ barrier[rec[c]] = 0
       \/ pc[c] = "call" /\ rec[c] = 1 /\ do_smm /\ smm_lock
       \/ pc[c] = "microcode" /\ microcode_lock = Taken
       \/ pc[c] = "poll" /\ ap_callbacks[c] = NULL
  /\ UNCHANGED vars

\* The boot processor has made all the calls of this run.
Finished ==
  /\ pc[BSP] = "done" /\ work = MaxWork
  /\ UNCHANGED vars

Next == BspStep \/ (\E a \in APs : ApStep(a)) \/ Spin \/ Finished

Spec == Init /\ [][Next]_vars

\* Every processor that can take a step takes one in time; waits end.
FairSpec == Spec /\ WF_vars(BspStep) /\ \A a \in APs : WF_vars(ApStep(a))

-----------------------------------------------------------------------------
(* Properties                                                              *)

Labels == SipiCode \cup
  {"load_sipi", "start_aps", "check_in", "wait", "call", "release", "restore", "done", "poll_aps",
   "smi", "wait_sipi", "lost", "enter", "barrier", "poll", "accept", "run", "parked"}

TypeOK ==
  /\ pc \in [CPUs -> Labels]
  /\ rec \in [CPUs -> 0 .. Last + 1]
  /\ area \in {"os", "sipi", "relocation"}
  /\ backup \in BOOLEAN /\ sipi_sent \in BOOLEAN /\ do_smm \in BOOLEAN /\ smm_lock \in BOOLEAN
  /\ ap_count \in 0 .. Cardinality(APs) /\ global_num_aps \in {0, NumAPs}
  /\ microcode_lock \in {Free, Taken, AllOnes}
  /\ barrier \in [Records -> {0, 1}]
  /\ cpus_entered \in [Records -> 0 .. Cardinality(APs)]
  /\ apic_known \subseteq CPUs /\ smm_map \subseteq CPUs
  /\ relocated \subseteq CPUs /\ initialized \subseteq CPUs
  /\ ret \in {0, -1}
  /\ ap_callbacks \in [APs -> 0 .. MaxWork \cup {NULL}]
  /\ func \in [APs -> 0 .. MaxWork \cup {NULL}]
  /\ work \in 0 .. MaxWork
  /\ result \in Seq({0, -1})
  /\ ran \in [APs -> Seq(0 .. MaxWork)]

\* The relocation handler has one save state area, so no two processors may be
\* in it at a time; and it is there, not yet overwritten by the restored
\* contents of the default SMM area, as long as no wait has timed out.
RelocationSafe ==
  /\ \A c, d \in CPUs : pc[c] = "smi" /\ pc[d] = "smi" => c = d
  /\ \A c \in CPUs : pc[c] = "smi" /\ ret = 0 => area = "relocation"

\* The SMM handlers and later the restored contents go over the SIPI code.  As
\* long as no wait has timed out no AP still executes it then.
SipiCodeIntact ==
  \A a \in APs : pc[a] \in SipiCode /\ ret = 0 => area = "sipi"

\* The default SMM area, which the processors share, is used by one at a time and
\* for one purpose at a time.
SmmAreaSafe == RelocationSafe /\ SipiCodeIntact

\* mp_init() returns 0 only when every processor has been through the whole
\* plan: all are initialized and, if SMM is used, the handlers know the APIC ids
\* of all.
SuccessMeansAll ==
  pc[BSP] \in {"restore", "done", "poll_aps"} /\ ret = 0 /\ NumAPs = Cardinality(APs) =>
    /\ initialized = CPUs
    /\ do_smm => smm_map = CPUs

\* mp.h: "mp_init_with_smm() returns < 0 on failure and 0 on success".  When it
\* has returned 0 and SMM is used, every processor has run the relocation handler.
ZeroMeansRelocated ==
  pc[BSP] = "done" /\ ret = 0 /\ do_smm /\ NumAPs = Cardinality(APs) => relocated = CPUs

\* The microcode is loaded by one processor at a time unless the processor
\* allows parallel loading (mp.h: "indicate if the APs can load the microcode
\* in parallel").
MicrocodeExclusive ==
  ~ParallelLoad =>
    \A a, b \in APs : pc[a] = "load_microcode" /\ pc[b] = "load_microcode" => a = b

\* What each AP has run or is about to run.
Accepted(a, n) ==
  \/ \E i \in 1 .. Len(ran[a]) : ran[a][i] = n
  \/ pc[a] = "run" /\ func[a] = n

\* An AP that has read a call but not cleared its slot when the call expires
\* clears a later call with it: that one is lost, and only to the acceptance of a
\* call since which all have expired.
LostTo(a, n, m) == Accepted(a, m) /\ \A k \in m .. n - 1 : result[k] = -1

\* mp_init() has got as far as to tell run_ap_work() of every AP.
ApsKnown == global_num_aps >= Cardinality(APs)

\* The calls an AP runs are in the order of run_ap_work(), none twice.  A call
\* that returned 0 was accepted by every AP, or lost on it as LostTo says; unless
\* mp_init() failed before it knew the APs, when a call returns 0 at once.
WorkAccepted ==
  /\ \A a \in APs : \A i, j \in 1 .. Len(ran[a]) : i < j => ran[a][i] < ran[a][j]
  /\ ApsKnown => \A n \in 1 .. Len(result) : result[n] = 0 =>
       \A a \in APs : Accepted(a, n) \/ \E m \in 1 .. n - 1 : LostTo(a, n, m)

\* mp.h: "All functions return < 0 on error, 0 on success".  A call that
\* returned 0 was accepted by all the APs, whatever became of earlier calls and of
\* mp_init().
ZeroMeansAccepted ==
  \A n \in 1 .. Len(result) : result[n] = 0 => \A a \in APs : Accepted(a, n)

\* mp_init_with_smm() returns, whatever the APs do: no wait for ever.
BspReturns == <>(pc[BSP] = "done")

\* start_aps() failed: the boot processor is back without having walked the plan.
StartFailed == pc[BSP] \in {"restore", "done", "poll_aps"} /\ rec[BSP] = 0

\* An AP that waits at a barrier is let through, even when the boot processor
\* has given up waiting for others; unless the APs could not be started.
BarriersOpen ==
  \A a \in APs : pc[a] = "barrier" ~> (pc[a] # "barrier" \/ StartFailed)

\* No processor waits for ever, whatever has timed out for whom.
NobodyStuck == BspReturns /\ BarriersOpen
=============================================================================
