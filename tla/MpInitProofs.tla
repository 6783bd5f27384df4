----------------------------- MODULE MpInitProofs ---------------------------
(* Machine-checked theorems about MpInit, for any number of processors and of *)
(* calls: types, the use of the default SMM area, what a return value of 0    *)
(* means, and which calls the APs run.                                        *)
EXTENDS MpInit, TLAPS, FiniteSetTheorems

\* get_cpu_count() misses no processor.
Counted == NumAPs >= Cardinality(APs)

-----------------------------------------------------------------------------
(* Control: which record a processor can be at                             *)

BspPlace ==
  \/ pc[BSP] \in {"load_sipi", "start_aps", "check_in"} /\ rec[BSP] = 0
  \/ pc[BSP] \in {"wait", "call", "release"} /\ rec[BSP] \in Records
  \/ pc[BSP] = "smi" /\ rec[BSP] = 1
  \/ pc[BSP] \in {"restore", "done", "poll_aps"} /\ rec[BSP] \in {0, Last + 1}

Outside == SipiCode \cup {"wait_sipi", "lost"}
Waiting == {"poll", "accept", "run", "parked"}

ApPlace(a) ==
  \/ pc[a] \in Outside /\ rec[a] = 0
  \/ pc[a] \in {"enter", "barrier"} /\ rec[a] \in Records
  \/ pc[a] = "call" /\ rec[a] \in {1, 2}
  \/ pc[a] = "smi" /\ rec[a] = 1
  \/ pc[a] \in Waiting /\ rec[a] = Last

\* A barrier is open from the beginning or because the boot processor is past it,
\* and no AP is past the first one before.
ControlInv ==
  /\ pc \in [CPUs -> Labels] /\ rec \in [CPUs -> 0 .. Last + 1]
  /\ BspPlace /\ \A a \in APs : ApPlace(a)
  /\ barrier \in [Records -> {0, 1}]
  /\ \A r \in Records : barrier[r] = 1 => r = 1 \/ rec[BSP] > r
  /\ \A a \in APs : rec[a] > 0 => rec[BSP] > 0

\* Processor c goes to label l of record r, the others stay where they are.
Move(c, l, r) ==
  /\ pc' \in [CPUs -> Labels] /\ rec' \in [CPUs -> 0 .. Last + 1]
  /\ pc'[c] = l /\ rec'[c] = r
  /\ \A d \in CPUs : d # c => pc'[d] = pc[d] /\ rec'[d] = rec[d]

LEMMA Procs ==
  /\ BSP \in CPUs /\ BSP \notin APs /\ APs \subseteq CPUs
  /\ \A c \in CPUs : c = BSP \/ c \in APs
  BY CpuAssumption DEF CPUs

LEMMA Goes ==
  ASSUME ControlInv, NEW c \in CPUs, NEW l \in Labels, Go(c, l), rec' = rec
  PROVE  Move(c, l, rec[c])
  BY DEF ControlInv, Move, Go

LEMMA GoesOn ==
  ASSUME ControlInv, NEW c \in CPUs, NEW l \in Labels, Go(c, l), rec[c] \in Records,
         rec' = [rec EXCEPT ![c] = @ + 1]
  PROVE  Move(c, l, rec[c] + 1)
<1>1. pc' \in [CPUs -> Labels] /\ pc'[c] = l /\ \A d \in CPUs : d # c => pc'[d] = pc[d]
  BY DEF ControlInv, Go
<1>2. rec[c] + 1 \in 0 .. Last + 1
  BY DEF Records, Last
<1>3. rec' \in [CPUs -> 0 .. Last + 1] /\ rec'[c] = rec[c] + 1
      /\ \A d \in CPUs : d # c => rec'[d] = rec[d]
  BY <1>2 DEF ControlInv
<1> QED BY <1>1, <1>3 DEF Move

-----------------------------------------------------------------------------
(* Counting: cpus_entered[] and ap_count say what they are meant to say     *)

Entered(a, r) ==
  \/ rec[a] > r
  \/ rec[a] = r /\ pc[a] \in {"barrier", "call", "smi"} \cup Waiting
EnteredSet(r) == {a \in APs : Entered(a, r)}
Awake == {a \in APs : pc[a] # "wait_sipi"}

CountInv ==
  /\ cpus_entered \in [Records -> Nat] /\ ap_count \in Nat
  /\ \A r \in Records : cpus_entered[r] = Cardinality(EnteredSet(r))
  /\ ap_count <= Cardinality(Awake)

\* No AP takes the step from "enter" to "barrier", and none goes back to sleep.
SameEntered ==
  /\ \A a \in APs : \A r \in Records : Entered(a, r)' <=> Entered(a, r)
  /\ \A a \in APs : pc[a] # "wait_sipi" => pc'[a] # "wait_sipi"

LEMMA CountsKept ==
  ASSUME CountInv, SameEntered, cpus_entered' = cpus_entered,
         ap_count' = ap_count \/ ap_count' = 0
  PROVE  CountInv'
<1>1. ASSUME NEW r \in Records PROVE EnteredSet(r)' = EnteredSet(r)
  BY DEF SameEntered, EnteredSet
<1>2. Awake \subseteq Awake' /\ Awake' \subseteq APs
  BY DEF SameEntered, Awake
<1>3. IsFiniteSet(Awake') /\ IsFiniteSet(Awake)
  BY <1>2, FS_Subset, CpuAssumption
<1>4. Cardinality(Awake) <= Cardinality(Awake')
  BY <1>2, <1>3, FS_Subset
<1>5. Cardinality(Awake) \in Nat /\ Cardinality(Awake') \in Nat
  BY <1>3, FS_CardinalityType
<1>6. ap_count' \in Nat /\ ap_count' <= Cardinality(Awake')
  BY <1>4, <1>5 DEF CountInv
<1>7. \A r \in Records : cpus_entered'[r] = Cardinality(EnteredSet(r)')
  BY <1>1 DEF CountInv
<1> HIDE DEF EnteredSet, Awake
<1> QED BY <1>6, <1>7 DEF CountInv

\* A step of the boot processor leaves the APs where they are.
LEMMA BspMoves ==
  ASSUME NEW l, NEW r, Move(BSP, l, r)
  PROVE  SameEntered /\ \A a \in APs : pc'[a] = pc[a] /\ rec'[a] = rec[a]
<1>1. \A a \in APs : pc'[a] = pc[a] /\ rec'[a] = rec[a]
  BY Procs DEF Move
<1> QED BY <1>1 DEF SameEntered, Entered

\* A count that reaches a number that is large enough counts every AP.
LEMMA Everyone ==
  ASSUME NEW n, n >= Cardinality(APs), NEW S, S \subseteq APs, Cardinality(S) = n
  PROVE  S = APs
<1>1. IsFiniteSet(S) /\ Cardinality(S) <= Cardinality(APs) /\ (Cardinality(APs) = Cardinality(S) => APs = S)
  BY CpuAssumption, FS_Subset
<1>2. Cardinality(S) \in Nat /\ Cardinality(APs) \in Nat
  BY <1>1, CpuAssumption, FS_CardinalityType
<1> QED BY <1>1, <1>2

-----------------------------------------------------------------------------
(* The start                                                               *)

KindInv ==
  /\ area \in {"os", "sipi", "relocation"}
  /\ backup \in BOOLEAN /\ do_smm \in BOOLEAN /\ smm_lock \in BOOLEAN
  /\ microcode_lock \in {Free, Taken, AllOnes}
  /\ smm_map \subseteq CPUs /\ relocated \subseteq CPUs /\ ret \in {0, -1}
  /\ global_num_aps \in {0, NumAPs}

StartInv ==
  /\ pc[BSP] \in {"load_sipi", "start_aps"} => ~sipi_sent
  /\ ~sipi_sent => \A a \in APs : pc[a] = "wait_sipi"
  /\ \A c \in CPUs : pc[c] \notin Outside => c \in apic_known
  /\ apic_known \subseteq CPUs /\ sipi_sent \in BOOLEAN

\* Whoever runs the relocation handler holds the lock.
SmiInv ==
  /\ \A c \in CPUs : pc[c] = "smi" => smm_lock = TRUE /\ do_smm
  /\ \A c, d \in CPUs : pc[c] = "smi" /\ pc[d] = "smi" => c = d

InitializedInv ==
  /\ initialized \subseteq CPUs
  /\ \A a \in APs : rec[a] > 2 => a \in initialized
  /\ rec[BSP] > 2 \/ (rec[BSP] = 2 /\ pc[BSP] = "release") => BSP \in initialized

-----------------------------------------------------------------------------
(* As long as no wait has timed out                                        *)

\* The boot processor has waited for the others at record r.
BspPast(r) ==
  \/ rec[BSP] > r
  \/ rec[BSP] = r /\ pc[BSP] \in {"call", "smi", "release"}

\* Record 1 is open from the beginning: nobody waits there.
PassedInv ==
  /\ \A r \in {0, 2, 3} : BspPast(r) => \A a \in APs : Entered(a, r)
  /\ pc[BSP] \in {"restore", "done", "poll_aps"} => rec[BSP] = Last + 1

AreaInv ==
  /\ rec[BSP] = 0 /\ pc[BSP] \in {"start_aps", "check_in", "wait", "call"} => area = "sipi"
  /\ do_smm /\ (rec[BSP] > 0 \/ pc[BSP] = "release") =>
       /\ smm_map = CPUs
       /\ pc[BSP] \notin {"done", "poll_aps"} => area = "relocation"

PlanInv == Counted /\ ret = 0 => PassedInv /\ AreaInv

-----------------------------------------------------------------------------
(* Work                                                                    *)

WorkTypes ==
  /\ work \in 0 .. MaxWork
  /\ ap_callbacks \in [APs -> 0 .. MaxWork \cup {NULL}]
  /\ func \in [APs -> 0 .. MaxWork \cup {NULL}]
  /\ result \in Seq({0, -1}) /\ ran \in [APs -> Seq(0 .. MaxWork)]
  /\ Len(result) = IF pc[BSP] = "poll_aps" THEN work - 1 ELSE work
  /\ pc[BSP] = "poll_aps" => work > 0
  /\ pc[BSP] = "load_sipi" => work = 0

\* What an AP runs next is later than all it has run; a slot holds the newest call.
OrderInv ==
  \A a \in APs :
    /\ \A i, j \in 1 .. Len(ran[a]) : i < j => ran[a][i] < ran[a][j]
    /\ \A i \in 1 .. Len(ran[a]) : ran[a][i] <= work
    /\ pc[a] \in {"accept", "run"} =>
         func[a] \in 1 .. work /\ \A i \in 1 .. Len(ran[a]) : ran[a][i] < func[a]
    /\ ap_callbacks[a] # NULL =>
         /\ ap_callbacks[a] = work /\ work > 0
         /\ \A i \in 1 .. Len(ran[a]) : ran[a][i] < work
         /\ pc[a] = "run" => func[a] < work

\* Accepted, or lost to an earlier call.
Settled(a, n) == Accepted(a, n) \/ \E m \in 1 .. n - 1 : LostTo(a, n, m)

\* A call that an AP holds, or that is still in its slot, has expired if it has
\* returned; a slot that is empty again means that the newest call is settled.
SlotsInv ==
  \A a \in APs :
    /\ pc[a] = "accept" =>
         ap_callbacks[a] # NULL /\ \A k \in func[a] .. Len(result) : result[k] = -1
    /\ ap_callbacks[a] # NULL => \A k \in work .. Len(result) : result[k] = -1
    /\ ap_callbacks[a] = NULL /\ work > 0 => Settled(a, work)

AcceptedInv ==
  \A n \in 1 .. Len(result) : result[n] = 0 => \A a \in APs : Settled(a, n)

WorkInv == WorkTypes /\ OrderInv /\ (ApsKnown => SlotsInv /\ AcceptedInv)

LEMMA Appended ==
  ASSUME NEW S, NEW s \in Seq(S), NEW e \in S
  PROVE  /\ Append(s, e) \in Seq(S) /\ Len(Append(s, e)) = Len(s) + 1
         /\ Append(s, e)[Len(s) + 1] = e
         /\ \A i \in 1 .. Len(s) : Append(s, e)[i] = s[i]
  OBVIOUS

\* Everything but the calls leaves the work alone.
LEMMA WorkKept ==
  ASSUME WorkInv, UNCHANGED workVars,
         global_num_aps' = global_num_aps \/ pc[BSP] = "load_sipi",
         pc'[BSP] = "poll_aps" <=> pc[BSP] = "poll_aps",
         pc'[BSP] = "load_sipi" => pc[BSP] = "load_sipi",
         \A a \in APs : pc'[a] = pc[a]
                        \/ {pc[a], pc'[a]} \cap {"accept", "run"} = {}
  PROVE  WorkInv'
<1> USE DEF workVars
<1>1. WorkTypes'
  BY DEF WorkInv, WorkTypes
<1>2. OrderInv'
  BY DEF WorkInv, OrderInv
<1>3. \A a \in APs : \A n : Accepted(a, n)' <=> Accepted(a, n)
  BY DEF Accepted
<1>4. CASE pc[BSP] = "load_sipi"
  <2>1. work = 0 /\ Len(result) = 0 /\ WorkTypes /\ OrderInv
    BY <1>4 DEF WorkInv, WorkTypes
  <2>2. \A a \in APs : pc'[a] # "accept" /\ ap_callbacks[a] = NULL
    BY <1>2, <2>1 DEF OrderInv
  <2>3. SlotsInv'
    BY <2>1, <2>2 DEF SlotsInv
  <2>4. AcceptedInv'
    BY <2>1 DEF AcceptedInv
  <2> QED BY <1>1, <1>2, <2>3, <2>4 DEF WorkInv
<1>5. CASE global_num_aps' = global_num_aps
  <2>1. ApsKnown' <=> ApsKnown
    BY <1>5 DEF ApsKnown
  <2>2. \A a \in APs : \A n : Settled(a, n)' <=> Settled(a, n)
    BY <1>3 DEF Settled, LostTo
  <2>3. SlotsInv => SlotsInv'
    BY <2>2 DEF SlotsInv
  <2>4. AcceptedInv => AcceptedInv'
    BY <2>2 DEF AcceptedInv
  <2> QED BY <1>1, <1>2, <2>1, <2>3, <2>4 DEF WorkInv
<1> QED BY <1>4, <1>5

\* Calls are only added to what is accepted, results only to those there are.
LEMMA StillSettled ==
  ASSUME NEW a \in APs, NEW n \in Nat, n <= Len(result) + 1, Len(result) \in Nat,
         \A m : Accepted(a, m) => Accepted(a, m)',
         \A k \in 1 .. Len(result) : result'[k] = result[k], Settled(a, n)
  PROVE  Settled(a, n)'
<1>1. CASE Accepted(a, n)
  BY <1>1 DEF Settled
<1>2. CASE \E m \in 1 .. n - 1 : LostTo(a, n, m)
  <2>1. PICK m \in 1 .. n - 1 : LostTo(a, n, m)
    BY <1>2
  <2>2. \A k \in m .. n - 1 : result'[k] = -1
    BY <2>1 DEF LostTo
  <2> QED BY <2>1, <2>2 DEF Settled, LostTo
<1> QED BY <1>1, <1>2 DEF Settled

MInv ==
  ControlInv /\ CountInv /\ KindInv /\ StartInv /\ SmiInv /\ InitializedInv /\ PlanInv /\ WorkInv

LEMMA AfterCallMoves ==
  ASSUME MInv, NEW c \in CPUs, AfterCall(c), pc[c] \in {"call", "smi"}, rec[c] \in {1, 2}
  PROVE  Move(c, IF c = BSP THEN "release" ELSE "enter",
              IF c = BSP THEN rec[c] ELSE rec[c] + 1)
<1>1. CASE c = BSP
  <2>1. Move(c, "release", rec[c])
    BY <1>1, Goes DEF AfterCall, MInv, Labels
  <2> QED BY <1>1, <2>1
<1>2. CASE c # BSP
  <2>1. Move(c, "enter", rec[c] + 1)
    <3>1. Go(c, "enter") /\ rec' = [rec EXCEPT ![c] = @ + 1]
      BY <1>2 DEF AfterCall
    <3>2. rec[c] \in Records /\ "enter" \in Labels /\ ControlInv
      BY DEF Records, Labels, MInv
    <3> QED BY <3>1, <3>2, GoesOn
  <2> QED BY <1>2, <2>1
<1> QED BY <1>1, <1>2

LEMMA FlightCallMInv == ASSUME MInv, NEW c \in CPUs, FlightCall(c) PROVE MInv'
<1> USE CpuAssumption DEF MInv, Outside, SipiCode, Waiting, Records, Last, bootVars, smmVars,
        planVars, workVars
<1>1. CASE SkipRelocation(c)
  <2>1. Move(c, IF c = BSP THEN "release" ELSE "enter",
                IF c = BSP THEN rec[c] ELSE rec[c] + 1)
    <3>1. pc[c] \in {"call", "smi"} /\ rec[c] \in {1, 2}
      BY <1>1, Procs DEF SkipRelocation, ControlInv, BspPlace, ApPlace
    <3> QED BY <1>1, <3>1, AfterCallMoves DEF SkipRelocation
  <2>2. SameEntered
    BY <1>1, <2>1, Procs DEF SkipRelocation, SameEntered, Entered, Move, ControlInv, ApPlace
  <2>3. ControlInv'
    BY <1>1, <2>1, Procs, <2>2 DEF SkipRelocation, ControlInv, BspPlace, ApPlace, Move
  <2>4. CountInv'
    BY <1>1, <2>1, Procs, <2>2, CountsKept DEF SkipRelocation
  <2>5. KindInv' /\ StartInv' /\ SmiInv' /\ InitializedInv'
    BY <1>1, <2>1, Procs, <2>2
    DEF SkipRelocation, KindInv, StartInv, SmiInv, InitializedInv, ControlInv, BspPlace, ApPlace, Move
  <2>6. PlanInv'
    BY <1>1, <2>1, Procs, <2>2
    DEF SkipRelocation, PlanInv, PassedInv, AreaInv, BspPast, Entered, Counted, ControlInv, BspPlace,
       ApPlace, KindInv, Move
  <2>7. WorkInv'
    BY <1>1, <2>1, Procs, <2>2, WorkKept DEF SkipRelocation, Move
  <2> QED BY <2>3, <2>4, <2>5, <2>6, <2>7
<1>2. CASE LockRelocation(c)
  <2>1. Move(c, "smi", rec[c])
    BY <1>2, Procs, Goes DEF LockRelocation, Labels
  <2>2. SameEntered
    BY <1>2, <2>1, Procs DEF LockRelocation, SameEntered, Entered, Move, ControlInv, ApPlace
  <2>3. ControlInv'
    BY <1>2, <2>1, Procs, <2>2 DEF LockRelocation, ControlInv, BspPlace, ApPlace, Move
  <2>4. CountInv'
    BY <1>2, <2>1, Procs, <2>2, CountsKept DEF LockRelocation
  <2>5. KindInv' /\ StartInv' /\ SmiInv' /\ InitializedInv'
    BY <1>2, <2>1, Procs, <2>2
    DEF LockRelocation, KindInv, StartInv, SmiInv, InitializedInv, ControlInv, BspPlace, ApPlace, Move
  <2>6. PlanInv'
    BY <1>2, <2>1, Procs, <2>2
    DEF LockRelocation, PlanInv, PassedInv, AreaInv, BspPast, Entered, Counted, ControlInv, BspPlace,
       ApPlace, KindInv, Move
  <2>7. WorkInv'
    BY <1>2, <2>1, Procs, <2>2, WorkKept DEF LockRelocation, Move
  <2> QED BY <2>3, <2>4, <2>5, <2>6, <2>7
<1>3. CASE Relocate(c)
  <2>1. Move(c, IF c = BSP THEN "release" ELSE "enter",
                IF c = BSP THEN rec[c] ELSE rec[c] + 1)
    <3>1. pc[c] \in {"call", "smi"} /\ rec[c] \in {1, 2}
      BY <1>3, Procs DEF Relocate, ControlInv, BspPlace, ApPlace
    <3> QED BY <1>3, <3>1, AfterCallMoves DEF Relocate
  <2>2. SameEntered
    BY <1>3, <2>1, Procs DEF Relocate, SameEntered, Entered, Move, ControlInv, ApPlace
  <2>3. ControlInv'
    BY <1>3, <2>1, Procs, <2>2 DEF Relocate, ControlInv, BspPlace, ApPlace, Move
  <2>4. CountInv'
    BY <1>3, <2>1, Procs, <2>2, CountsKept DEF Relocate
  <2>5. KindInv'
    BY <1>3, <2>1, Procs, <2>2 DEF Relocate, KindInv
  <2>6. StartInv'
    BY <1>3, <2>1, Procs, <2>2 DEF Relocate, StartInv, Move
  <2>7. SmiInv'
    BY <1>3, <2>1, Procs, <2>2 DEF Relocate, SmiInv, KindInv, Move
  <2>8. InitializedInv'
    BY <1>3, <2>1, Procs, <2>2 DEF Relocate, InitializedInv, ControlInv, BspPlace, ApPlace, Move
  <2>9. PlanInv'
    BY <1>3, <2>1, Procs, <2>2
    DEF Relocate, PlanInv, PassedInv, AreaInv, BspPast, Entered, Counted, ControlInv, BspPlace,
       ApPlace, KindInv, Move
  <2>10. WorkInv'
    BY <1>3, <2>1, Procs, <2>2, WorkKept DEF Relocate, Move
  <2> QED BY <2>3, <2>4, <2>5, <2>6, <2>7, <2>8, <2>9, <2>10
<1>4. CASE RelocationTimeout(c)
  <2>1. Move(c, IF c = BSP THEN "release" ELSE "enter",
                IF c = BSP THEN rec[c] ELSE rec[c] + 1)
    <3>1. pc[c] \in {"call", "smi"} /\ rec[c] \in {1, 2}
      BY <1>4, Procs DEF RelocationTimeout, ControlInv, BspPlace, ApPlace
    <3> QED BY <1>4, <3>1, AfterCallMoves DEF RelocationTimeout
  <2>2. SameEntered
    BY <1>4, <2>1, Procs DEF RelocationTimeout, SameEntered, Entered, Move, ControlInv, ApPlace
  <2>3. ControlInv'
    BY <1>4, <2>1, Procs, <2>2 DEF RelocationTimeout, ControlInv, BspPlace, ApPlace, Move
  <2>4. CountInv'
    BY <1>4, <2>1, Procs, <2>2, CountsKept DEF RelocationTimeout
  <2>5. KindInv'
    BY <1>4, <2>1, Procs, <2>2 DEF RelocationTimeout, KindInv
  <2>6. StartInv'
    BY <1>4, <2>1, Procs, <2>2 DEF RelocationTimeout, StartInv, Move
  <2>7. SmiInv'
    BY <1>4, <2>1, Procs, <2>2 DEF RelocationTimeout, SmiInv, KindInv, Move
  <2>8. InitializedInv'
    BY <1>4, <2>1, Procs, <2>2 DEF RelocationTimeout, InitializedInv, ControlInv, BspPlace, ApPlace,
       Move
  <2>9. PlanInv'
    BY <1>4, <2>1, Procs, <2>2
    DEF RelocationTimeout, PlanInv, PassedInv, AreaInv, BspPast, Entered, Counted, ControlInv, BspPlace,
       ApPlace, KindInv, Move
  <2>10. WorkInv'
    BY <1>4, <2>1, Procs, <2>2, WorkKept DEF RelocationTimeout, Move
  <2> QED BY <2>3, <2>4, <2>5, <2>6, <2>7, <2>8, <2>9, <2>10
<1>5. CASE mp_initialize_cpu(c)
  <2>1. Move(c, IF c = BSP THEN "release" ELSE "enter",
                IF c = BSP THEN rec[c] ELSE rec[c] + 1)
    <3>1. pc[c] \in {"call", "smi"} /\ rec[c] \in {1, 2}
      BY <1>5, Procs DEF mp_initialize_cpu, ControlInv, BspPlace, ApPlace
    <3> QED BY <1>5, <3>1, AfterCallMoves DEF mp_initialize_cpu
  <2>2. SameEntered
    BY <1>5, <2>1, Procs DEF mp_initialize_cpu, SameEntered, Entered, Move, ControlInv, ApPlace
  <2>3. ControlInv'
    BY <1>5, <2>1, Procs, <2>2 DEF mp_initialize_cpu, ControlInv, BspPlace, ApPlace, Move
  <2>4. CountInv'
    BY <1>5, <2>1, Procs, <2>2, CountsKept DEF mp_initialize_cpu
  <2>5. KindInv' /\ StartInv' /\ SmiInv' /\ InitializedInv'
    BY <1>5, <2>1, Procs, <2>2
    DEF mp_initialize_cpu, KindInv, StartInv, SmiInv, InitializedInv, ControlInv, BspPlace, ApPlace, Move
  <2>6. PlanInv'
    BY <1>5, <2>1, Procs, <2>2
    DEF mp_initialize_cpu, PlanInv, PassedInv, AreaInv, BspPast, Entered, Counted, ControlInv, BspPlace,
       ApPlace, KindInv, Move
  <2>7. WorkInv'
    BY <1>5, <2>1, Procs, <2>2, WorkKept DEF mp_initialize_cpu, Move
  <2> QED BY <2>3, <2>4, <2>5, <2>6, <2>7
<1> QED
  BY <1>1, <1>2, <1>3, <1>4, <1>5 DEF FlightCall

LEMMA BspStepMInv == ASSUME MInv, BspStep PROVE MInv'
<1> USE CpuAssumption DEF MInv, Outside, SipiCode, Waiting, Records, Last, bootVars, smmVars,
        planVars, workVars
<1>1. CASE LoadSipiVector
  <2>1. Move(BSP, "start_aps", rec[BSP])
    BY <1>1, Procs, Goes DEF LoadSipiVector, Labels
  <2>2. SameEntered /\ \A a \in APs : pc'[a] = pc[a] /\ rec'[a] = rec[a]
    BY <2>1, BspMoves
  <2>3. ControlInv'
    BY <1>1, <2>1, Procs, <2>2 DEF LoadSipiVector, ControlInv, BspPlace, ApPlace, Move
  <2>4. CountInv'
    BY <1>1, <2>1, Procs, <2>2, CountsKept DEF LoadSipiVector
  <2>5. KindInv' /\ StartInv' /\ SmiInv' /\ InitializedInv'
    BY <1>1, <2>1, Procs, <2>2
    DEF LoadSipiVector, KindInv, StartInv, SmiInv, InitializedInv, ControlInv, BspPlace, ApPlace, Move
  <2>6. PlanInv'
    BY <1>1, <2>1, Procs, <2>2
    DEF LoadSipiVector, PlanInv, PassedInv, AreaInv, BspPast, Entered, Counted, ControlInv, BspPlace,
       ApPlace, KindInv, Move
  <2>7. WorkInv'
    BY <1>1, <2>1, Procs, <2>2, WorkKept DEF LoadSipiVector, Move
  <2> QED BY <2>3, <2>4, <2>5, <2>6, <2>7
<1>2. CASE LoadSipiVectorFails
  <2>1. Move(BSP, "restore", rec[BSP])
    BY <1>2, Procs, Goes DEF LoadSipiVectorFails, Labels
  <2>2. SameEntered /\ \A a \in APs : pc'[a] = pc[a] /\ rec'[a] = rec[a]
    BY <2>1, BspMoves
  <2>3. ControlInv'
    BY <1>2, <2>1, Procs, <2>2 DEF LoadSipiVectorFails, ControlInv, BspPlace, ApPlace, Move
  <2>4. CountInv'
    BY <1>2, <2>1, Procs, <2>2, CountsKept DEF LoadSipiVectorFails
  <2>5. KindInv' /\ StartInv' /\ SmiInv' /\ InitializedInv'
    BY <1>2, <2>1, Procs, <2>2
    DEF LoadSipiVectorFails, KindInv, StartInv, SmiInv, InitializedInv, ControlInv, BspPlace, ApPlace, Move
  <2>6. PlanInv'
    BY <1>2, <2>1, Procs, <2>2
    DEF LoadSipiVectorFails, PlanInv, PassedInv, AreaInv, BspPast, Entered, Counted, ControlInv, BspPlace,
       ApPlace, KindInv, Move
  <2>7. WorkInv'
    BY <1>2, <2>1, Procs, <2>2, WorkKept DEF LoadSipiVectorFails, Move
  <2> QED BY <2>3, <2>4, <2>5, <2>6, <2>7
<1>3. CASE SendSipi
  <2>1. \/ Move(BSP, "wait", rec[BSP]) /\ sipi_sent' = sipi_sent
        \/ Move(BSP, "check_in", rec[BSP]) /\ sipi_sent' = TRUE
    BY <1>3, Procs, Goes DEF SendSipi, Labels
  <2>2. SameEntered /\ \A a \in APs : pc'[a] = pc[a] /\ rec'[a] = rec[a]
    BY <2>1, BspMoves
  <2>3. ControlInv'
    BY <1>3, <2>1, Procs, <2>2 DEF SendSipi, ControlInv, BspPlace, ApPlace, Move
  <2>4. CountInv'
    BY <1>3, <2>1, Procs, <2>2, CountsKept DEF SendSipi
  <2>5. KindInv' /\ InitializedInv'
    BY <1>3, <2>1, Procs, <2>2 DEF SendSipi, KindInv, InitializedInv, ControlInv, BspPlace, Move
  <2>6. StartInv'
    BY <1>3, <2>1, Procs, <2>2 DEF SendSipi, StartInv, Move
  <2>7. SmiInv'
    BY <1>3, <2>1, Procs, <2>2 DEF SendSipi, SmiInv, Move
  <2>8. PlanInv'
    BY <1>3, <2>1, Procs, <2>2
    DEF SendSipi, PlanInv, PassedInv, AreaInv, BspPast, Entered, Counted, ControlInv, BspPlace,
       ApPlace, KindInv, Move
  <2>9. WorkInv'
    BY <1>3, <2>1, Procs, <2>2, WorkKept DEF SendSipi, Move
  <2> QED BY <2>3, <2>4, <2>5, <2>6, <2>7, <2>8, <2>9
<1>4. CASE AllCheckedIn
  <2>1. Move(BSP, "wait", rec[BSP])
    BY <1>4, Procs, Goes DEF AllCheckedIn, Labels
  <2>2. SameEntered /\ \A a \in APs : pc'[a] = pc[a] /\ rec'[a] = rec[a]
    BY <2>1, BspMoves
  <2>3. ControlInv'
    BY <1>4, <2>1, Procs, <2>2 DEF AllCheckedIn, ControlInv, BspPlace, ApPlace, Move
  <2>4. CountInv'
    BY <1>4, <2>1, Procs, <2>2, CountsKept DEF AllCheckedIn
  <2>5. KindInv' /\ StartInv' /\ SmiInv' /\ InitializedInv'
    BY <1>4, <2>1, Procs, <2>2
    DEF AllCheckedIn, KindInv, StartInv, SmiInv, InitializedInv, ControlInv, BspPlace, ApPlace, Move
  <2>6. PlanInv'
    BY <1>4, <2>1, Procs, <2>2
    DEF AllCheckedIn, PlanInv, PassedInv, AreaInv, BspPast, Entered, Counted, ControlInv, BspPlace,
       ApPlace, KindInv, Move
  <2>7. WorkInv'
    BY <1>4, <2>1, Procs, <2>2, WorkKept DEF AllCheckedIn, Move
  <2> QED BY <2>3, <2>4, <2>5, <2>6, <2>7
<1>5. CASE StartTimeout
  <2>1. Move(BSP, "restore", rec[BSP])
    BY <1>5, Procs, Goes DEF StartTimeout, Labels
  <2>2. SameEntered /\ \A a \in APs : pc'[a] = pc[a] /\ rec'[a] = rec[a]
    BY <2>1, BspMoves
  <2>3. ControlInv'
    BY <1>5, <2>1, Procs, <2>2 DEF StartTimeout, ControlInv, BspPlace, ApPlace, Move
  <2>4. CountInv'
    BY <1>5, <2>1, Procs, <2>2, CountsKept DEF StartTimeout
  <2>5. KindInv' /\ StartInv' /\ SmiInv' /\ InitializedInv'
    BY <1>5, <2>1, Procs, <2>2
    DEF StartTimeout, KindInv, StartInv, SmiInv, InitializedInv, ControlInv, BspPlace, ApPlace, Move
  <2>6. PlanInv'
    BY <1>5, <2>1, Procs, <2>2
    DEF StartTimeout, PlanInv, PassedInv, AreaInv, BspPast, Entered, Counted, ControlInv, BspPlace,
       ApPlace, KindInv, Move
  <2>7. WorkInv'
    BY <1>5, <2>1, Procs, <2>2, WorkKept DEF StartTimeout, Move
  <2> QED BY <2>3, <2>4, <2>5, <2>6, <2>7
<1>6. CASE RecordEntered
  <2>1. Move(BSP, "call", rec[BSP])
    BY <1>6, Procs, Goes DEF RecordEntered, Labels
  <2>2. SameEntered /\ \A a \in APs : pc'[a] = pc[a] /\ rec'[a] = rec[a]
    BY <2>1, BspMoves
  <2>3. ControlInv'
    BY <1>6, <2>1, Procs, <2>2 DEF RecordEntered, ControlInv, BspPlace, ApPlace, Move
  <2>4. CountInv'
    BY <1>6, <2>1, Procs, <2>2, CountsKept DEF RecordEntered
  <2>5. KindInv' /\ StartInv' /\ SmiInv' /\ InitializedInv'
    BY <1>6, <2>1, Procs, <2>2
    DEF RecordEntered, KindInv, StartInv, SmiInv, InitializedInv, ControlInv, BspPlace, ApPlace, Move
  <2>6. PlanInv'
    <3> SUFFICES ASSUME Counted, ret = 0 PROVE PassedInv' /\ AreaInv'
      BY <1>6 DEF PlanInv, RecordEntered, Counted
    <3>1. PassedInv /\ AreaInv
      BY DEF PlanInv
    <3>2. ASSUME rec[BSP] \in {0, 2, 3} PROVE \A a \in APs : Entered(a, rec[BSP])
      <4>1. cpus_entered[rec[BSP]] = NumAPs
        BY <1>6, <3>2 DEF RecordEntered, ControlInv
      <4>2. cpus_entered[rec[BSP]] = Cardinality(EnteredSet(rec[BSP]))
        BY <3>2 DEF CountInv
      <4>3. EnteredSet(rec[BSP]) = APs
        BY <4>1, <4>2, Everyone DEF EnteredSet, Counted
      <4> QED BY <4>3 DEF EnteredSet
    <3>3. \A a \in APs : \A r \in Records : Entered(a, r)' <=> Entered(a, r)
      BY <2>2 DEF SameEntered
    <3>4. PassedInv'
      BY <1>6, <2>1, <3>1, <3>2, <3>3 DEF RecordEntered, PassedInv, BspPast, Move
    <3> QED BY <1>6, <2>1, <3>1, <3>4 DEF RecordEntered, AreaInv, Move
  <2>7. WorkInv'
    BY <1>6, <2>1, Procs, <2>2, WorkKept DEF RecordEntered, Move
  <2> QED BY <2>3, <2>4, <2>5, <2>6, <2>7
<1>7. CASE RecordTimeout
  <2>1. Move(BSP, "call", rec[BSP])
    BY <1>7, Procs, Goes DEF RecordTimeout, Labels
  <2>2. SameEntered /\ \A a \in APs : pc'[a] = pc[a] /\ rec'[a] = rec[a]
    BY <2>1, BspMoves
  <2>3. ControlInv'
    BY <1>7, <2>1, Procs, <2>2 DEF RecordTimeout, ControlInv, BspPlace, ApPlace, Move
  <2>4. CountInv'
    BY <1>7, <2>1, Procs, <2>2, CountsKept DEF RecordTimeout
  <2>5. KindInv' /\ StartInv' /\ SmiInv' /\ InitializedInv'
    BY <1>7, <2>1, Procs, <2>2
    DEF RecordTimeout, KindInv, StartInv, SmiInv, InitializedInv, ControlInv, BspPlace, ApPlace, Move
  <2>6. PlanInv'
    BY <1>7, <2>1, Procs, <2>2
    DEF RecordTimeout, PlanInv, PassedInv, AreaInv, BspPast, Entered, Counted, ControlInv, BspPlace,
       ApPlace, KindInv, Move
  <2>7. WorkInv'
    BY <1>7, <2>1, Procs, <2>2, WorkKept DEF RecordTimeout, Move
  <2> QED BY <2>3, <2>4, <2>5, <2>6, <2>7
<1>8. CASE LoadSmmHandlers
  <2>1. Move(BSP, "release", rec[BSP])
    BY <1>8, Procs, Goes DEF LoadSmmHandlers, Labels
  <2>2. SameEntered /\ \A a \in APs : pc'[a] = pc[a] /\ rec'[a] = rec[a]
    BY <2>1, BspMoves
  <2>3. ControlInv'
    BY <1>8, <2>1, Procs, <2>2 DEF LoadSmmHandlers, ControlInv, BspPlace, ApPlace, Move
  <2>4. CountInv'
    BY <1>8, <2>1, Procs, <2>2, CountsKept DEF LoadSmmHandlers
  <2>5. KindInv'
    <3>1. apic_known \subseteq CPUs
      BY DEF StartInv
    <3> QED BY <1>8, <3>1 DEF LoadSmmHandlers, KindInv
  <2>6. StartInv'
    BY <1>8, <2>1, Procs, <2>2 DEF LoadSmmHandlers, StartInv, Move
  <2>7. SmiInv'
    <3>1. \A c \in CPUs : pc'[c] # "smi"
      BY <1>8, <2>1, Procs, <2>2 DEF LoadSmmHandlers, ControlInv, ApPlace, Move
    <3> QED BY <3>1 DEF SmiInv
  <2>8. InitializedInv'
    BY <1>8, <2>1, Procs, <2>2 DEF LoadSmmHandlers, InitializedInv, ControlInv, BspPlace, ApPlace,
       Move
  <2>9. PlanInv'
    <3> SUFFICES ASSUME Counted, ret = 0 PROVE PassedInv' /\ AreaInv'
      BY <1>8 DEF PlanInv, LoadSmmHandlers, Counted
    <3>1. PassedInv /\ AreaInv
      BY DEF PlanInv
    <3>2. \A a \in APs : Entered(a, 0)
      BY <1>8, <3>1 DEF LoadSmmHandlers, PassedInv, BspPast
    <3>3. apic_known = CPUs
      <4>1. ASSUME NEW a \in APs PROVE pc[a] \notin Outside
        BY <3>2 DEF ControlInv, ApPlace, Entered
      <4>2. pc[BSP] \notin Outside
        BY <1>8 DEF LoadSmmHandlers
      <4> QED BY <4>1, <4>2, Procs DEF StartInv
    <3>4. PassedInv'
      BY <1>8, <2>1, <2>2, <3>1 DEF LoadSmmHandlers, PassedInv, BspPast, Move, Entered
    <3>5. rec'[BSP] = 0 /\ pc'[BSP] = "release"
      BY <1>8, <2>1 DEF LoadSmmHandlers, Move
    <3>6. do_smm' => smm_map' = CPUs /\ area' = "relocation"
      BY <1>8, <3>3 DEF LoadSmmHandlers, KindInv
    <3> QED BY <3>4, <3>5, <3>6 DEF AreaInv
  <2>10. WorkInv'
    BY <1>8, <2>1, Procs, <2>2, WorkKept DEF LoadSmmHandlers, Move
  <2> QED BY <2>3, <2>4, <2>5, <2>6, <2>7, <2>8, <2>9, <2>10
<1>9. CASE NoBspCall
  <2>1. Move(BSP, "release", rec[BSP])
    BY <1>9, Procs, Goes DEF NoBspCall, Labels
  <2>2. SameEntered /\ \A a \in APs : pc'[a] = pc[a] /\ rec'[a] = rec[a]
    BY <2>1, BspMoves
  <2>3. ControlInv'
    BY <1>9, <2>1, Procs, <2>2 DEF NoBspCall, ControlInv, BspPlace, ApPlace, Move
  <2>4. CountInv'
    BY <1>9, <2>1, Procs, <2>2, CountsKept DEF NoBspCall
  <2>5. KindInv' /\ StartInv' /\ SmiInv' /\ InitializedInv'
    BY <1>9, <2>1, Procs, <2>2
    DEF NoBspCall, KindInv, StartInv, SmiInv, InitializedInv, ControlInv, BspPlace, ApPlace, Move
  <2>6. PlanInv'
    BY <1>9, <2>1, Procs, <2>2
    DEF NoBspCall, PlanInv, PassedInv, AreaInv, BspPast, Entered, Counted, ControlInv, BspPlace,
       ApPlace, KindInv, Move
  <2>7. WorkInv'
    BY <1>9, <2>1, Procs, <2>2, WorkKept DEF NoBspCall, Move
  <2> QED BY <2>3, <2>4, <2>5, <2>6, <2>7
<1>10. CASE ReleaseBarrier
  <2>1. Move(BSP, IF rec[BSP] = Last THEN "restore" ELSE "wait", rec[BSP] + 1)
    <3>1. rec[BSP] \in Records
      BY <1>10 DEF ReleaseBarrier, ControlInv, BspPlace
    <3> QED BY <1>10, <3>1, Procs, GoesOn DEF ReleaseBarrier, Labels
  <2>2. SameEntered /\ \A a \in APs : pc'[a] = pc[a] /\ rec'[a] = rec[a]
    BY <2>1, BspMoves
  <2>3. ControlInv'
    BY <1>10, <2>1, Procs, <2>2 DEF ReleaseBarrier, ControlInv, BspPlace, ApPlace, Move
  <2>4. CountInv'
    BY <1>10, <2>1, Procs, <2>2, CountsKept DEF ReleaseBarrier
  <2>5. KindInv' /\ StartInv' /\ SmiInv' /\ InitializedInv'
    BY <1>10, <2>1, Procs, <2>2
    DEF ReleaseBarrier, KindInv, StartInv, SmiInv, InitializedInv, ControlInv, BspPlace, ApPlace, Move
  <2>6. PlanInv'
    BY <1>10, <2>1, Procs, <2>2
    DEF ReleaseBarrier, PlanInv, PassedInv, AreaInv, BspPast, Entered, Counted, ControlInv, BspPlace,
       ApPlace, KindInv, Move
  <2>7. WorkInv'
    BY <1>10, <2>1, Procs, <2>2, WorkKept DEF ReleaseBarrier, Move
  <2> QED BY <2>3, <2>4, <2>5, <2>6, <2>7
<1>11. CASE RestoreDefaultSmmArea
  <2>1. Move(BSP, "done", rec[BSP])
    BY <1>11, Procs, Goes DEF RestoreDefaultSmmArea, Labels
  <2>2. SameEntered /\ \A a \in APs : pc'[a] = pc[a] /\ rec'[a] = rec[a]
    BY <2>1, BspMoves
  <2>3. ControlInv'
    BY <1>11, <2>1, Procs, <2>2 DEF RestoreDefaultSmmArea, ControlInv, BspPlace, ApPlace, Move
  <2>4. CountInv'
    BY <1>11, <2>1, Procs, <2>2, CountsKept DEF RestoreDefaultSmmArea
  <2>5. KindInv' /\ StartInv' /\ SmiInv' /\ InitializedInv'
    BY <1>11, <2>1, Procs, <2>2
    DEF RestoreDefaultSmmArea, KindInv, StartInv, SmiInv, InitializedInv, ControlInv, BspPlace, ApPlace, Move
  <2>6. PlanInv'
    BY <1>11, <2>1, Procs, <2>2
    DEF RestoreDefaultSmmArea, PlanInv, PassedInv, AreaInv, BspPast, Entered, Counted, ControlInv, BspPlace,
       ApPlace, KindInv, Move
  <2>7. WorkInv'
    BY <1>11, <2>1, Procs, <2>2, WorkKept DEF RestoreDefaultSmmArea, Move
  <2> QED BY <2>3, <2>4, <2>5, <2>6, <2>7
<1>12. CASE run_ap_work
  <2>1. Move(BSP, "poll_aps", rec[BSP])
    BY <1>12, Procs, Goes DEF run_ap_work, Labels
  <2>2. SameEntered /\ \A a \in APs : pc'[a] = pc[a] /\ rec'[a] = rec[a]
    BY <2>1, BspMoves
  <2>3. ControlInv'
    BY <1>12, <2>1, Procs, <2>2 DEF run_ap_work, ControlInv, BspPlace, ApPlace, Move
  <2>4. CountInv'
    BY <1>12, <2>1, Procs, <2>2, CountsKept DEF run_ap_work
  <2>5. KindInv' /\ StartInv' /\ SmiInv' /\ InitializedInv'
    BY <1>12, <2>1, Procs, <2>2
    DEF run_ap_work, KindInv, StartInv, SmiInv, InitializedInv, ControlInv, BspPlace, ApPlace, Move
  <2>6. PlanInv'
    BY <1>12, <2>1, Procs, <2>2
    DEF run_ap_work, PlanInv, PassedInv, AreaInv, BspPast, Entered, Counted, ControlInv, BspPlace,
       ApPlace, KindInv, Move
  <2>7. WorkInv'
    <3>1. WorkTypes /\ OrderInv
      BY DEF WorkInv
    <3>2. WorkTypes'
      BY <1>12, <2>1, <3>1 DEF run_ap_work, WorkTypes, Move
    <3>3. \A a \in APs : ap_callbacks'[a] = work'
      BY <1>12 DEF run_ap_work
    <3>4. work \in Nat /\ work' = work + 1 /\ work' # NULL
      BY <1>12, <3>1 DEF run_ap_work, WorkTypes
    <3>5. ran' = ran /\ func' = func /\ result' = result /\ pc[BSP] = "done" /\ pc'[BSP] = "poll_aps"
      BY <1>12, <2>1 DEF run_ap_work, Move
    <3>6. OrderInv'
      <4> SUFFICES ASSUME NEW a \in APs
                   PROVE  /\ \A i, j \in 1 .. Len(ran[a]) : i < j => ran[a][i] < ran[a][j]
                          /\ \A i \in 1 .. Len(ran[a]) : ran[a][i] <= work'
                          /\ \A i \in 1 .. Len(ran[a]) : ran[a][i] < work'
                          /\ pc[a] \in {"accept", "run"} =>
                               /\ func[a] \in 1 .. work' /\ func[a] < work'
                               /\ \A i \in 1 .. Len(ran[a]) : ran[a][i] < func[a]
        BY <2>2, <3>3, <3>4, <3>5 DEF OrderInv
      <4>1. \A i \in 1 .. Len(ran[a]) : ran[a][i] \in Int
        BY <3>1 DEF WorkTypes
      <4> QED BY <3>1, <3>4, <4>1 DEF OrderInv
    <3>7. \A a \in APs : \A m : Accepted(a, m)' <=> Accepted(a, m)
      BY <2>2, <3>5 DEF Accepted
    <3>8. ASSUME ApsKnown' PROVE SlotsInv' /\ AcceptedInv'
      <4>1. SlotsInv /\ AcceptedInv
        BY <1>12, <3>8 DEF WorkInv, run_ap_work, ApsKnown
      <4>2. \A k \in work' .. Len(result) : result[k] = -1
        BY <3>1, <3>4, <3>5 DEF WorkTypes
      <4>3. SlotsInv'
        BY <2>2, <3>3, <3>4, <3>5, <4>1, <4>2 DEF SlotsInv
      <4>4. AcceptedInv'
        BY <3>5, <3>7, <4>1 DEF AcceptedInv, Settled, LostTo
      <4> QED BY <4>3, <4>4
    <3> QED BY <3>2, <3>6, <3>8 DEF WorkInv
  <2> QED BY <2>3, <2>4, <2>5, <2>6, <2>7
<1>13. CASE AllAccepted
  <2>1. Move(BSP, "done", rec[BSP])
    BY <1>13, Procs, Goes DEF AllAccepted, Labels
  <2>2. SameEntered /\ \A a \in APs : pc'[a] = pc[a] /\ rec'[a] = rec[a]
    BY <2>1, BspMoves
  <2>3. ControlInv'
    BY <1>13, <2>1, Procs, <2>2 DEF AllAccepted, ControlInv, BspPlace, ApPlace, Move
  <2>4. CountInv'
    BY <1>13, <2>1, Procs, <2>2, CountsKept DEF AllAccepted
  <2>5. KindInv' /\ StartInv' /\ SmiInv' /\ InitializedInv'
    BY <1>13, <2>1, Procs, <2>2
    DEF AllAccepted, KindInv, StartInv, SmiInv, InitializedInv, ControlInv, BspPlace, ApPlace, Move
  <2>6. PlanInv'
    BY <1>13, <2>1, Procs, <2>2
    DEF AllAccepted, PlanInv, PassedInv, AreaInv, BspPast, Entered, Counted, ControlInv, BspPlace,
       ApPlace, KindInv, Move
  <2>7. WorkInv'
    <3>1. WorkTypes /\ OrderInv
      BY DEF WorkInv
    <3>2. /\ result \in Seq({0, -1}) /\ Len(result) \in Nat /\ work = Len(result) + 1
          /\ result' = Append(result, 0) /\ result' \in Seq({0, -1})
          /\ Len(result') = Len(result) + 1
      BY <1>13, <3>1 DEF AllAccepted, WorkTypes
    <3>3. result'[work] = 0 /\ \A i \in 1 .. Len(result) : result'[i] = result[i]
      BY <3>2
    <3>4. ran' = ran /\ func' = func /\ work' = work /\ ap_callbacks' = ap_callbacks
          /\ pc[BSP] = "poll_aps" /\ pc'[BSP] = "done"
      BY <1>13, <2>1 DEF AllAccepted, Move
    <3>5. WorkTypes'
      BY <3>1, <3>2, <3>4 DEF WorkTypes
    <3>6. OrderInv'
      BY <2>2, <3>1, <3>4 DEF OrderInv
    <3>7. \A a \in APs : \A m : Accepted(a, m)' <=> Accepted(a, m)
      BY <2>2, <3>4 DEF Accepted
    <3>8. ASSUME ApsKnown' PROVE SlotsInv' /\ AcceptedInv'
      <4>1. SlotsInv /\ AcceptedInv /\ global_num_aps >= Cardinality(APs)
        BY <1>13, <3>8 DEF WorkInv, AllAccepted, ApsKnown
      <4>2. {a \in APs : ap_callbacks[a] = NULL} = APs
        <5>1. Cardinality({a \in APs : ap_callbacks[a] = NULL}) = global_num_aps
          BY <1>13 DEF AllAccepted
        <5> QED BY <4>1, <5>1, Everyone
      <4>3. \A a \in APs : \A n \in 1 .. work : Settled(a, n) => Settled(a, n)'
        BY <3>2, <3>3, <3>7, StillSettled
      <4>4. \A a \in APs : Settled(a, work)'
        BY <3>1, <3>2, <3>4, <4>1, <4>2, <4>3 DEF SlotsInv
      <4>5. SlotsInv'
        BY <2>2, <3>4, <4>1, <4>2, <4>4 DEF SlotsInv
      <4>6. AcceptedInv'
        <5> SUFFICES ASSUME NEW n \in 1 .. Len(result'), result'[n] = 0, NEW a \in APs
                     PROVE  Settled(a, n)'
          BY DEF AcceptedInv
        <5>1. n = work \/ n \in 1 .. Len(result)
          BY <3>2
        <5>2. ASSUME n \in 1 .. Len(result) PROVE Settled(a, n) /\ n \in 1 .. work
          BY <3>2, <3>3, <4>1, <5>2 DEF AcceptedInv
        <5> QED BY <3>4, <4>3, <4>4, <5>1, <5>2
      <4> QED BY <4>5, <4>6
    <3> QED BY <3>5, <3>6, <3>8 DEF WorkInv
  <2> QED BY <2>3, <2>4, <2>5, <2>6, <2>7
<1>14. CASE CallExpired
  <2>1. Move(BSP, "done", rec[BSP])
    BY <1>14, Procs, Goes DEF CallExpired, Labels
  <2>2. SameEntered /\ \A a \in APs : pc'[a] = pc[a] /\ rec'[a] = rec[a]
    BY <2>1, BspMoves
  <2>3. ControlInv'
    BY <1>14, <2>1, Procs, <2>2 DEF CallExpired, ControlInv, BspPlace, ApPlace, Move
  <2>4. CountInv'
    BY <1>14, <2>1, Procs, <2>2, CountsKept DEF CallExpired
  <2>5. KindInv' /\ StartInv' /\ SmiInv' /\ InitializedInv'
    BY <1>14, <2>1, Procs, <2>2
    DEF CallExpired, KindInv, StartInv, SmiInv, InitializedInv, ControlInv, BspPlace, ApPlace, Move
  <2>6. PlanInv'
    BY <1>14, <2>1, Procs, <2>2
    DEF CallExpired, PlanInv, PassedInv, AreaInv, BspPast, Entered, Counted, ControlInv, BspPlace,
       ApPlace, KindInv, Move
  <2>7. WorkInv'
    <3>1. WorkTypes /\ OrderInv
      BY DEF WorkInv
    <3>2. /\ result \in Seq({0, -1}) /\ Len(result) \in Nat /\ work = Len(result) + 1
          /\ result' = Append(result, -1) /\ result' \in Seq({0, -1})
          /\ Len(result') = Len(result) + 1
      BY <1>14, <3>1 DEF CallExpired, WorkTypes
    <3>3. result'[work] = -1 /\ \A i \in 1 .. Len(result) : result'[i] = result[i]
      BY <3>2
    <3>4. ran' = ran /\ func' = func /\ work' = work /\ ap_callbacks' = ap_callbacks
          /\ pc[BSP] = "poll_aps" /\ pc'[BSP] = "done"
      BY <1>14, <2>1 DEF CallExpired, Move
    <3>5. WorkTypes'
      BY <3>1, <3>2, <3>4 DEF WorkTypes
    <3>6. OrderInv'
      BY <2>2, <3>1, <3>4 DEF OrderInv
    <3>7. \A a \in APs : \A m : Accepted(a, m)' <=> Accepted(a, m)
      BY <2>2, <3>4 DEF Accepted
    <3>8. ASSUME ApsKnown' PROVE SlotsInv' /\ AcceptedInv'
      <4>1. SlotsInv /\ AcceptedInv
        BY <1>14, <3>8 DEF WorkInv, CallExpired, ApsKnown
      <4>2. \A a \in APs : \A n \in 1 .. work : Settled(a, n) => Settled(a, n)'
        BY <3>2, <3>3, <3>7, StillSettled
      <4>3. SlotsInv'
        <5> SUFFICES ASSUME NEW a \in APs
                     PROVE  /\ pc[a] = "accept" => ap_callbacks[a] # NULL
                                 /\ \A k \in func[a] .. Len(result') : result'[k] = -1
                            /\ ap_callbacks[a] # NULL => \A k \in work .. Len(result') : result'[k] = -1
                            /\ ap_callbacks[a] = NULL /\ work > 0 => Settled(a, work)'
          BY <2>2, <3>4 DEF SlotsInv
        <5>1. pc[a] = "accept" => func[a] \in 1 .. work
          BY <3>1 DEF OrderInv
        <5>2. pc[a] = "accept" => \A k \in func[a] .. Len(result') : result'[k] = -1
          BY <3>2, <3>3, <4>1, <5>1 DEF SlotsInv
        <5>3. \A k \in work .. Len(result') : result'[k] = -1
          BY <3>2, <3>3
        <5>4. ap_callbacks[a] = NULL => Settled(a, work)'
          <6>1. work \in 1 .. work /\ work > 0
            BY <3>2
          <6>2. ap_callbacks[a] = NULL => Settled(a, work)
            BY <4>1, <6>1 DEF SlotsInv
          <6> QED BY <3>4, <4>2, <6>1, <6>2
        <5> QED BY <4>1, <5>2, <5>3, <5>4 DEF SlotsInv
      <4>4. AcceptedInv'
        <5> SUFFICES ASSUME NEW n \in 1 .. Len(result'), result'[n] = 0, NEW a \in APs
                     PROVE  Settled(a, n)'
          BY DEF AcceptedInv
        <5>1. n \in 1 .. Len(result) /\ n \in 1 .. work
          BY <3>2, <3>3
        <5>2. Settled(a, n)
          BY <3>3, <4>1, <5>1 DEF AcceptedInv
        <5> QED BY <4>2, <5>1, <5>2
      <4> QED BY <4>3, <4>4
    <3> QED BY <3>5, <3>6, <3>8 DEF WorkInv
  <2> QED BY <2>3, <2>4, <2>5, <2>6, <2>7
<1>15. CASE FlightCall(BSP)
  BY <1>15, Procs, FlightCallMInv
<1> QED
  BY <1>1, <1>2, <1>3, <1>4, <1>5, <1>6, <1>7, <1>8, <1>9, <1>10, <1>11, <1>12, <1>13, <1>14, <1>15
     DEF BspStep

LEMMA ApStepMInv == ASSUME MInv, NEW a \in APs, ApStep(a) PROVE MInv'
<1> USE CpuAssumption DEF MInv, Outside, SipiCode, Waiting, Records, Last, bootVars, smmVars,
        planVars, workVars
<1>1. CASE ApLost(a)
  <2>1. Move(a, "lost", rec[a])
    BY <1>1, Procs, Goes DEF ApLost, Labels
  <2>2. SameEntered
    BY <1>1, <2>1, Procs DEF ApLost, SameEntered, Entered, Move, ControlInv, ApPlace
  <2>3. ControlInv'
    BY <1>1, <2>1, Procs, <2>2 DEF ApLost, ControlInv, BspPlace, ApPlace, Move
  <2>4. CountInv'
    BY <1>1, <2>1, Procs, <2>2, CountsKept DEF ApLost
  <2>5. KindInv' /\ StartInv' /\ SmiInv' /\ InitializedInv'
    BY <1>1, <2>1, Procs, <2>2
    DEF ApLost, KindInv, StartInv, SmiInv, InitializedInv, ControlInv, BspPlace, ApPlace, Move
  <2>6. PlanInv'
    BY <1>1, <2>1, Procs, <2>2
    DEF ApLost, PlanInv, PassedInv, AreaInv, BspPast, Entered, Counted, ControlInv, BspPlace,
       ApPlace, KindInv, Move
  <2>7. WorkInv'
    BY <1>1, <2>1, Procs, <2>2, WorkKept DEF ApLost, Move
  <2> QED BY <2>3, <2>4, <2>5, <2>6, <2>7
<1>2. CASE TakeNumber(a)
  <2>1. Move(a, "microcode", rec[a]) \/ Move(a, "msrs", rec[a])
    BY <1>2, Procs, Goes DEF TakeNumber, Labels
  <2>2. SameEntered
    BY <1>2, <2>1, Procs DEF TakeNumber, SameEntered, Entered, Move, ControlInv, ApPlace
  <2>3. ControlInv'
    BY <1>2, <2>1, Procs, <2>2 DEF TakeNumber, ControlInv, BspPlace, ApPlace, Move
  <2>4. CountInv'
    <3>2. Awake' = Awake \cup {a} /\ a \notin Awake
      BY <1>2, <2>1, Procs, <2>2 DEF TakeNumber, Awake, Move
    <3>3. IsFiniteSet(Awake) /\ Cardinality(Awake) \in Nat
      <4>1. Awake \in SUBSET APs
        BY DEF Awake
      <4> QED BY <4>1, FS_Subset, FS_CardinalityType
    <3>4. Cardinality(Awake') = Cardinality(Awake) + 1
      BY <3>2, <3>3, FS_AddElement
    <3>5. ap_count' = ap_count + 1 /\ cpus_entered' = cpus_entered
      BY <1>2 DEF TakeNumber
    <3>6. \A r \in Records : EnteredSet(r)' = EnteredSet(r)
      BY <2>2 DEF SameEntered, EnteredSet
    <3> QED BY <3>3, <3>4, <3>5, <3>6 DEF CountInv
  <2>5. KindInv' /\ StartInv' /\ SmiInv' /\ InitializedInv'
    BY <1>2, <2>1, Procs, <2>2
    DEF TakeNumber, KindInv, StartInv, SmiInv, InitializedInv, ControlInv, BspPlace, ApPlace, Move
  <2>6. PlanInv'
    BY <1>2, <2>1, Procs, <2>2
    DEF TakeNumber, PlanInv, PassedInv, AreaInv, BspPast, Entered, Counted, ControlInv, BspPlace,
       ApPlace, KindInv, Move
  <2>7. WorkInv'
    BY <1>2, <2>1, Procs, <2>2, WorkKept DEF TakeNumber, Move
  <2> QED BY <2>3, <2>4, <2>5, <2>6, <2>7
<1>3. CASE LockMicrocode(a)
  <2>1. Move(a, "load_microcode", rec[a])
    BY <1>3, Procs, Goes DEF LockMicrocode, Labels
  <2>2. SameEntered
    BY <1>3, <2>1, Procs DEF LockMicrocode, SameEntered, Entered, Move, ControlInv, ApPlace
  <2>3. ControlInv'
    BY <1>3, <2>1, Procs, <2>2 DEF LockMicrocode, ControlInv, BspPlace, ApPlace, Move
  <2>4. CountInv'
    BY <1>3, <2>1, Procs, <2>2, CountsKept DEF LockMicrocode
  <2>5. KindInv' /\ StartInv' /\ SmiInv' /\ InitializedInv'
    BY <1>3, <2>1, Procs, <2>2
    DEF LockMicrocode, KindInv, StartInv, SmiInv, InitializedInv, ControlInv, BspPlace, ApPlace, Move
  <2>6. PlanInv'
    BY <1>3, <2>1, Procs, <2>2
    DEF LockMicrocode, PlanInv, PassedInv, AreaInv, BspPast, Entered, Counted, ControlInv, BspPlace,
       ApPlace, KindInv, Move
  <2>7. WorkInv'
    BY <1>3, <2>1, Procs, <2>2, WorkKept DEF LockMicrocode, Move
  <2> QED BY <2>3, <2>4, <2>5, <2>6, <2>7
<1>4. CASE MicrocodeLoaded(a)
  <2>1. Move(a, "msrs", rec[a])
    BY <1>4, Procs, Goes DEF MicrocodeLoaded, Labels
  <2>2. SameEntered
    BY <1>4, <2>1, Procs DEF MicrocodeLoaded, SameEntered, Entered, Move, ControlInv, ApPlace
  <2>3. ControlInv'
    BY <1>4, <2>1, Procs, <2>2 DEF MicrocodeLoaded, ControlInv, BspPlace, ApPlace, Move
  <2>4. CountInv'
    BY <1>4, <2>1, Procs, <2>2, CountsKept DEF MicrocodeLoaded
  <2>5. KindInv' /\ StartInv' /\ SmiInv' /\ InitializedInv'
    BY <1>4, <2>1, Procs, <2>2
    DEF MicrocodeLoaded, KindInv, StartInv, SmiInv, InitializedInv, ControlInv, BspPlace, ApPlace, Move
  <2>6. PlanInv'
    BY <1>4, <2>1, Procs, <2>2
    DEF MicrocodeLoaded, PlanInv, PassedInv, AreaInv, BspPast, Entered, Counted, ControlInv, BspPlace,
       ApPlace, KindInv, Move
  <2>7. WorkInv'
    BY <1>4, <2>1, Procs, <2>2, WorkKept DEF MicrocodeLoaded, Move
  <2> QED BY <2>3, <2>4, <2>5, <2>6, <2>7
<1>5. CASE ApInit(a)
  <2>1. Move(a, "enter", rec[a])
    BY <1>5, Procs, Goes DEF ApInit, Labels
  <2>2. SameEntered
    BY <1>5, <2>1, Procs DEF ApInit, SameEntered, Entered, Move, ControlInv, ApPlace
  <2>3. ControlInv'
    BY <1>5, <2>1, Procs, <2>2 DEF ApInit, ControlInv, BspPlace, ApPlace, Move
  <2>4. CountInv'
    BY <1>5, <2>1, Procs, <2>2, CountsKept DEF ApInit
  <2>5. KindInv' /\ StartInv' /\ SmiInv' /\ InitializedInv'
    BY <1>5, <2>1, Procs, <2>2
    DEF ApInit, KindInv, StartInv, SmiInv, InitializedInv, ControlInv, BspPlace, ApPlace, Move
  <2>6. PlanInv'
    BY <1>5, <2>1, Procs, <2>2
    DEF ApInit, PlanInv, PassedInv, AreaInv, BspPast, Entered, Counted, ControlInv, BspPlace,
       ApPlace, KindInv, Move
  <2>7. WorkInv'
    BY <1>5, <2>1, Procs, <2>2, WorkKept DEF ApInit, Move
  <2> QED BY <2>3, <2>4, <2>5, <2>6, <2>7
<1>6. CASE EnterRecord(a)
  <2>1. Move(a, "barrier", rec[a])
    BY <1>6, Procs, Goes DEF EnterRecord, Labels
  <2>2. \A b \in APs : \A r \in Records : Entered(b, r)' <=> (Entered(b, r) \/ (b = a /\ r = rec[a]))
    BY <1>6, <2>1, Procs DEF EnterRecord, SameEntered, Entered, Move, ControlInv, ApPlace
  <2>3. ControlInv'
    BY <1>6, <2>1, Procs, <2>2 DEF EnterRecord, ControlInv, BspPlace, ApPlace, Move
  <2>4. CountInv'
    <3>1. PICK q \in Records : q = rec[a] /\ ~Entered(a, q)
      BY <1>6, <2>1, Procs, <2>2 DEF EnterRecord, ControlInv, ApPlace, Entered
    <3>2. EnteredSet(q)' = EnteredSet(q) \cup {a} /\ a \notin EnteredSet(q)
      BY <2>2, <3>1 DEF EnteredSet
    <3>3. \A r \in Records : r # q => EnteredSet(r)' = EnteredSet(r)
      BY <2>2, <3>1 DEF EnteredSet
    <3>4. Cardinality(EnteredSet(q)') = Cardinality(EnteredSet(q)) + 1
      <4>1. EnteredSet(q) \in SUBSET APs
        BY DEF EnteredSet
      <4>2. IsFiniteSet(EnteredSet(q))
        BY <4>1, FS_Subset
      <4> QED BY <3>2, <4>2, FS_AddElement
    <3>5. /\ cpus_entered \in [Records -> Nat] /\ ap_count \in Nat
          /\ \A r \in Records : cpus_entered[r] = Cardinality(EnteredSet(r))
          /\ ap_count <= Cardinality(Awake)
      BY DEF CountInv
    <3>6. cpus_entered' = [cpus_entered EXCEPT ![q] = @ + 1] /\ ap_count' = ap_count
      BY <1>6, <3>1 DEF EnterRecord
    <3>7. cpus_entered' \in [Records -> Nat]
      BY <3>1, <3>5, <3>6
    <3>8. \A r \in Records : cpus_entered'[r] = Cardinality(EnteredSet(r)')
      <4> HIDE DEF EnteredSet
      <4> QED BY <3>1, <3>3, <3>4, <3>5, <3>6
    <3>9. Awake' = Awake
      BY <1>6, <2>1, Procs, <2>2 DEF EnterRecord, Awake, Move
    <3> QED BY <3>5, <3>6, <3>7, <3>8, <3>9 DEF CountInv
  <2>5. KindInv' /\ StartInv' /\ SmiInv' /\ InitializedInv'
    BY <1>6, <2>1, Procs, <2>2
    DEF EnterRecord, KindInv, StartInv, SmiInv, InitializedInv, ControlInv, BspPlace, ApPlace, Move
  <2>6. PlanInv'
    BY <1>6, <2>1, Procs, <2>2
    DEF EnterRecord, PlanInv, PassedInv, AreaInv, BspPast, Entered, Counted, ControlInv, BspPlace,
       ApPlace, KindInv, Move
  <2>7. WorkInv'
    BY <1>6, <2>1, Procs, <2>2, WorkKept DEF EnterRecord, Move
  <2> QED BY <2>3, <2>4, <2>5, <2>6, <2>7
<1>7. CASE PassBarrier(a)
  <2>1. IF rec[a] = 0 THEN Move(a, "enter", 1)
        ELSE Move(a, IF rec[a] = Last THEN "poll" ELSE "call", rec[a])
    <3>1. CASE rec[a] = 0
      BY <1>7, <3>1, Procs, GoesOn DEF PassBarrier, Labels, ControlInv
    <3>2. CASE rec[a] # 0
      BY <1>7, <3>2, Procs, Goes DEF PassBarrier, Labels
    <3> QED BY <3>1, <3>2
  <2>2. SameEntered
    BY <1>7, <2>1, Procs DEF PassBarrier, SameEntered, Entered, Move, ControlInv, ApPlace
  <2>3. ControlInv'
    BY <1>7, <2>1, Procs, <2>2 DEF PassBarrier, ControlInv, BspPlace, ApPlace, Move
  <2>4. CountInv'
    BY <1>7, <2>1, Procs, <2>2, CountsKept DEF PassBarrier
  <2>5. KindInv' /\ StartInv' /\ SmiInv' /\ InitializedInv'
    BY <1>7, <2>1, Procs, <2>2
    DEF PassBarrier, KindInv, StartInv, SmiInv, InitializedInv, ControlInv, BspPlace, ApPlace, Move
  <2>6. PlanInv'
    BY <1>7, <2>1, Procs, <2>2
    DEF PassBarrier, PlanInv, PassedInv, AreaInv, BspPast, Entered, Counted, ControlInv, BspPlace,
       ApPlace, KindInv, Move
  <2>7. WorkInv'
    BY <1>7, <2>1, Procs, <2>2, WorkKept DEF PassBarrier, Move
  <2> QED BY <2>3, <2>4, <2>5, <2>6, <2>7
<1>8. CASE ReadCallback(a)
  <2>1. Move(a, "accept", rec[a])
    BY <1>8, Procs, Goes DEF ReadCallback, Labels
  <2>2. SameEntered
    BY <1>8, <2>1, Procs DEF ReadCallback, SameEntered, Entered, Move, ControlInv, ApPlace
  <2>3. ControlInv'
    BY <1>8, <2>1, Procs, <2>2 DEF ReadCallback, ControlInv, BspPlace, ApPlace, Move
  <2>4. CountInv'
    BY <1>8, <2>1, Procs, <2>2, CountsKept DEF ReadCallback
  <2>5. KindInv' /\ StartInv' /\ SmiInv' /\ InitializedInv'
    BY <1>8, <2>1, Procs, <2>2
    DEF ReadCallback, KindInv, StartInv, SmiInv, InitializedInv, ControlInv, BspPlace, ApPlace, Move
  <2>6. PlanInv'
    BY <1>8, <2>1, Procs, <2>2
    DEF ReadCallback, PlanInv, PassedInv, AreaInv, BspPast, Entered, Counted, ControlInv, BspPlace,
       ApPlace, KindInv, Move
  <2>7. WorkInv'
    <3>1. WorkTypes /\ OrderInv
      BY DEF WorkInv
    <3>2. /\ pc[a] = "poll" /\ pc'[a] = "accept" /\ pc'[BSP] = pc[BSP] /\ \A b \in APs : b # a => pc'[b] = pc[b]
          /\ work' = work /\ result' = result /\ ap_callbacks' = ap_callbacks /\ ran' = ran
      BY <1>8, <2>1, Procs, <2>2 DEF ReadCallback, Move
    <3>3. /\ func' \in [APs -> 0 .. MaxWork \cup {NULL}] /\ func'[a] = ap_callbacks[a] /\ ap_callbacks[a] # NULL
          /\ \A b \in APs : b # a => func'[b] = func[b]
      BY <1>8, <3>1 DEF ReadCallback, WorkTypes
    <3>4. WorkTypes'
      BY <3>1, <3>2, <3>3 DEF WorkTypes
    <3>5. OrderInv'
      <4>1. func'[a] = work /\ work \in 1 .. work /\ \A i \in 1 .. Len(ran[a]) : ran[a][i] < work
        BY <3>1, <3>3 DEF OrderInv, WorkTypes
      <4> QED BY <3>1, <3>2, <3>3, <4>1 DEF OrderInv
    <3>6. \A b \in APs : \A m : Accepted(b, m)' <=> Accepted(b, m)
      BY <3>2, <3>3 DEF Accepted
    <3>7. ASSUME ApsKnown' PROVE SlotsInv' /\ AcceptedInv'
      <4>1. SlotsInv /\ AcceptedInv
        BY <1>8, <3>7 DEF WorkInv, ReadCallback, ApsKnown
      <4>2. \A b \in APs : \A n : Settled(b, n)' <=> Settled(b, n)
        BY <3>2, <3>6 DEF Settled, LostTo
      <4>3. func'[a] = work
        BY <3>1, <3>3 DEF OrderInv
      <4>4. SlotsInv'
        BY <3>2, <3>3, <4>1, <4>2, <4>3 DEF SlotsInv
      <4>5. AcceptedInv'
        BY <3>2, <4>1, <4>2 DEF AcceptedInv
      <4> QED BY <4>4, <4>5
    <3> QED BY <3>4, <3>5, <3>7 DEF WorkInv
  <2> QED BY <2>3, <2>4, <2>5, <2>6, <2>7
<1>9. CASE AcceptCallback(a)
  <2>1. Move(a, "run", rec[a])
    BY <1>9, Procs, Goes DEF AcceptCallback, Labels
  <2>2. SameEntered
    BY <1>9, <2>1, Procs DEF AcceptCallback, SameEntered, Entered, Move, ControlInv, ApPlace
  <2>3. ControlInv'
    BY <1>9, <2>1, Procs, <2>2 DEF AcceptCallback, ControlInv, BspPlace, ApPlace, Move
  <2>4. CountInv'
    BY <1>9, <2>1, Procs, <2>2, CountsKept DEF AcceptCallback
  <2>5. KindInv' /\ StartInv' /\ SmiInv' /\ InitializedInv'
    BY <1>9, <2>1, Procs, <2>2
    DEF AcceptCallback, KindInv, StartInv, SmiInv, InitializedInv, ControlInv, BspPlace, ApPlace, Move
  <2>6. PlanInv'
    BY <1>9, <2>1, Procs, <2>2
    DEF AcceptCallback, PlanInv, PassedInv, AreaInv, BspPast, Entered, Counted, ControlInv, BspPlace,
       ApPlace, KindInv, Move
  <2>7. WorkInv'
    <3>1. WorkTypes /\ OrderInv
      BY DEF WorkInv
    <3>2. /\ pc[a] = "accept" /\ pc'[a] = "run" /\ pc'[BSP] = pc[BSP] /\ \A b \in APs : b # a => pc'[b] = pc[b]
          /\ work' = work /\ result' = result /\ func' = func /\ ran' = ran
      BY <1>9, <2>1, Procs, <2>2 DEF AcceptCallback, Move
    <3>3. /\ ap_callbacks' \in [APs -> 0 .. MaxWork \cup {NULL}] /\ ap_callbacks'[a] = NULL
          /\ \A b \in APs : b # a => ap_callbacks'[b] = ap_callbacks[b]
      BY <1>9, <3>1 DEF AcceptCallback, WorkTypes
    <3>4. WorkTypes'
      BY <3>1, <3>2, <3>3 DEF WorkTypes
    <3>5. OrderInv'
      BY <3>1, <3>2, <3>3 DEF OrderInv, WorkTypes
    <3>6. /\ \A b \in APs : \A m : Accepted(b, m) => Accepted(b, m)'
          /\ Accepted(a, func[a])'
      BY <3>2 DEF Accepted
    <3>7. ASSUME ApsKnown' PROVE SlotsInv' /\ AcceptedInv'
      <4>1. SlotsInv /\ AcceptedInv
        BY <1>9, <3>7 DEF WorkInv, AcceptCallback, ApsKnown
      <4>2. work \in Nat /\ Len(result) \in Nat /\ work <= Len(result) + 1 /\ work >= Len(result)
        BY <3>1 DEF WorkTypes
      <4>3. \A b \in APs : \A n \in 1 .. Len(result) + 1 : Settled(b, n) => Settled(b, n)'
        BY <3>2, <3>6, <4>2, StillSettled
      <4>4. Settled(a, work)'
        <5>1. func[a] \in 1 .. work /\ \A k \in func[a] .. Len(result) : result[k] = -1
          BY <3>1, <3>2, <4>1 DEF OrderInv, SlotsInv
        <5>2. CASE func[a] = work
          BY <3>2, <3>6, <5>2 DEF Settled
        <5>3. CASE func[a] # work
          <6>1. func[a] \in 1 .. work - 1 /\ \A k \in func[a] .. work - 1 : result[k] = -1
            BY <4>2, <5>1, <5>3
          <6> QED BY <3>2, <3>6, <6>1 DEF Settled, LostTo
        <5> QED BY <5>2, <5>3
      <4>5. SlotsInv'
        <5> SUFFICES ASSUME NEW b \in APs, b # a
                     PROVE  ap_callbacks[b] = NULL /\ work > 0 => Settled(b, work)'
          BY <3>2, <3>3, <4>1, <4>4 DEF SlotsInv
        <5>1. work > 0 => work \in 1 .. Len(result) + 1
          BY <4>2
        <5>2. ap_callbacks[b] = NULL /\ work > 0 => Settled(b, work)
          BY <4>1 DEF SlotsInv
        <5> QED BY <3>2, <4>3, <5>1, <5>2
      <4>6. AcceptedInv'
        BY <3>2, <4>1, <4>2, <4>3 DEF AcceptedInv
      <4> QED BY <4>5, <4>6
    <3> QED BY <3>4, <3>5, <3>7 DEF WorkInv
  <2> QED BY <2>3, <2>4, <2>5, <2>6, <2>7
<1>10. CASE RunFunc(a)
  <2>1. Move(a, IF func[a] = Park THEN "parked" ELSE "poll", rec[a])
    BY <1>10, Procs, Goes DEF RunFunc, Labels
  <2>2. SameEntered
    BY <1>10, <2>1, Procs DEF RunFunc, SameEntered, Entered, Move, ControlInv, ApPlace
  <2>3. ControlInv'
    BY <1>10, <2>1, Procs, <2>2 DEF RunFunc, ControlInv, BspPlace, ApPlace, Move
  <2>4. CountInv'
    BY <1>10, <2>1, Procs, <2>2, CountsKept DEF RunFunc
  <2>5. KindInv' /\ StartInv' /\ SmiInv' /\ InitializedInv'
    BY <1>10, <2>1, Procs, <2>2
    DEF RunFunc, KindInv, StartInv, SmiInv, InitializedInv, ControlInv, BspPlace, ApPlace, Move
  <2>6. PlanInv'
    BY <1>10, <2>1, Procs, <2>2
    DEF RunFunc, PlanInv, PassedInv, AreaInv, BspPast, Entered, Counted, ControlInv, BspPlace,
       ApPlace, KindInv, Move
  <2>7. WorkInv'
    <3>1. WorkTypes /\ OrderInv
      BY DEF WorkInv
    <3>2. /\ pc[a] = "run" /\ pc'[a] \in {"parked", "poll"} /\ pc'[BSP] = pc[BSP] /\ \A b \in APs : b # a => pc'[b] = pc[b]
          /\ work' = work /\ result' = result /\ func' = func /\ ap_callbacks' = ap_callbacks
      BY <1>10, <2>1, Procs, <2>2 DEF RunFunc, Move
    <3>3. /\ ran[a] \in Seq(0 .. MaxWork) /\ Len(ran[a]) \in Nat
          /\ func[a] \in 1 .. work /\ func[a] \in 0 .. MaxWork
      BY <3>1, <3>2 DEF WorkTypes, OrderInv
    <3>4. /\ ran' = [ran EXCEPT ![a] = Append(ran[a], func[a])] /\ ran'[a] = Append(ran[a], func[a])
          /\ \A b \in APs : b # a => ran'[b] = ran[b]
      BY <1>10, <3>1 DEF RunFunc, WorkTypes
    <3>5. /\ ran'[a] \in Seq(0 .. MaxWork) /\ Len(ran'[a]) = Len(ran[a]) + 1
          /\ ran'[a][Len(ran[a]) + 1] = func[a]
          /\ \A i \in 1 .. Len(ran[a]) : ran'[a][i] = ran[a][i]
      <4> DEFINE t == Append(ran[a], func[a])
      <4>1. /\ t \in Seq(0 .. MaxWork) /\ Len(t) = Len(ran[a]) + 1 /\ t[Len(ran[a]) + 1] = func[a]
            /\ \A i \in 1 .. Len(ran[a]) : t[i] = ran[a][i]
        BY <3>3, Appended
      <4> HIDE DEF t
      <4> QED BY <3>4, <4>1 DEF t
    <3>6. ran' \in [APs -> Seq(0 .. MaxWork)]
      BY <3>1, <3>4, <3>5 DEF WorkTypes
    <3>7. WorkTypes'
      BY <3>1, <3>2, <3>6 DEF WorkTypes
    <3>8. OrderInv'
      <4>1. ASSUME NEW b \in APs, b # a
            PROVE  pc'[b] = pc[b] /\ func'[b] = func[b] /\ ran'[b] = ran[b] /\ ap_callbacks'[b] = ap_callbacks[b]
        BY <3>2, <3>4, <4>1
      <4>2. \A i \in 1 .. Len(ran'[a]) : i = Len(ran[a]) + 1 \/ i \in 1 .. Len(ran[a])
        BY <3>3, <3>5
      <4>3. /\ func[a] \in Int /\ work \in Int /\ func[a] <= work /\ Len(ran[a]) \in Int
            /\ \A i \in 1 .. Len(ran[a]) : ran[a][i] \in Int /\ ran[a][i] < func[a]
            /\ \A i, j \in 1 .. Len(ran[a]) : i < j => ran[a][i] < ran[a][j]
            /\ ap_callbacks[a] # NULL => func[a] < work
        <5>1. func[a] \in Int /\ work \in Int /\ func[a] <= work /\ Len(ran[a]) \in Int
          BY <3>1, <3>3 DEF WorkTypes
        <5>2. \A i \in 1 .. Len(ran[a]) : ran[a][i] \in Int
          BY <3>3
        <5> QED BY <3>1, <3>2, <5>1, <5>2 DEF OrderInv
      <4>4. ASSUME NEW i \in 1 .. Len(ran'[a]), NEW j \in 1 .. Len(ran'[a]), i < j
            PROVE  ran'[a][i] < ran'[a][j]
        <5>1. i \in 1 .. Len(ran[a])
          BY <3>5, <4>3, <4>4
        <5>2. CASE j = Len(ran[a]) + 1
          BY <3>5, <4>3, <5>1, <5>2
        <5>3. CASE j \in 1 .. Len(ran[a])
          BY <3>5, <4>3, <4>4, <5>1, <5>3
        <5> QED BY <4>2, <5>2, <5>3
      <4>5. ASSUME NEW i \in 1 .. Len(ran'[a]) PROVE ran'[a][i] <= func[a]
        <5>1. CASE i = Len(ran[a]) + 1
          BY <3>5, <4>3, <5>1
        <5>2. CASE i \in 1 .. Len(ran[a])
          <6>1. ran[a][i] < func[a] /\ ran[a][i] \in Int /\ func[a] \in Int
            BY <4>3, <5>2
          <6>2. ran'[a][i] = ran[a][i]
            BY <3>5, <5>2
          <6> QED BY <6>1, <6>2
        <5> QED BY <4>2, <5>1, <5>2
      <4>6. \A i \in 1 .. Len(ran'[a]) : ran'[a][i] <= work /\ (ap_callbacks[a] # NULL => ran'[a][i] < work)
        <5>1. \A i \in 1 .. Len(ran'[a]) : ran'[a][i] \in Int
          BY <3>5, <4>2, <4>3
        <5> QED BY <4>3, <4>5, <5>1
      <4> QED BY <3>1, <3>2, <4>1, <4>4, <4>6 DEF OrderInv
    <3>9. \A b \in APs : \A m : Accepted(b, m) => Accepted(b, m)'
      <4>1. \A m : Accepted(a, m) => Accepted(a, m)'
        <5>1. /\ \A i \in 1 .. Len(ran[a]) : i \in 1 .. Len(ran'[a]) /\ ran'[a][i] = ran[a][i]
              /\ Len(ran[a]) + 1 \in 1 .. Len(ran'[a]) /\ ran'[a][Len(ran[a]) + 1] = func[a]
          BY <3>3, <3>5
        <5> QED BY <5>1 DEF Accepted
      <4> QED BY <3>2, <3>4, <4>1 DEF Accepted
    <3>10. ASSUME ApsKnown' PROVE SlotsInv' /\ AcceptedInv'
      <4>1. SlotsInv /\ AcceptedInv
        BY <1>10, <3>10 DEF WorkInv, RunFunc, ApsKnown
      <4>2. work \in Nat /\ Len(result) \in Nat /\ work <= Len(result) + 1
        BY <3>1 DEF WorkTypes
      <4>3. \A b \in APs : \A n \in 1 .. Len(result) + 1 : Settled(b, n) => Settled(b, n)'
        BY <3>2, <3>9, <4>2, StillSettled
      <4>4. SlotsInv'
        BY <3>2, <4>1, <4>2, <4>3 DEF SlotsInv
      <4>5. AcceptedInv'
        BY <3>2, <4>1, <4>2, <4>3 DEF AcceptedInv
      <4> QED BY <4>4, <4>5
    <3> QED BY <3>7, <3>8, <3>10 DEF WorkInv
  <2> QED BY <2>3, <2>4, <2>5, <2>6, <2>7
<1>11. CASE FlightCall(a)
  BY <1>11, Procs, FlightCallMInv
<1> QED
  BY <1>1, <1>2, <1>3, <1>4, <1>5, <1>6, <1>7, <1>8, <1>9, <1>10, <1>11 DEF ApStep

-----------------------------------------------------------------------------
(* Theorems                                                                *)

LEMMA InitMInv == Init => MInv
<1> SUFFICES ASSUME Init PROVE MInv
  OBVIOUS
<1> USE CpuAssumption, Procs DEF Init, Records, Last
<1>1. ControlInv
  BY DEF ControlInv, BspPlace, ApPlace, Outside, SipiCode, Labels
<1>2. CountInv
  <2>1. \A r \in Records : EnteredSet(r) = {}
    BY DEF EnteredSet, Entered, Waiting
  <2>2. Awake = {}
    BY DEF Awake
  <2>3. Cardinality({}) = 0
    BY FS_EmptySet
  <2>4. \A r \in Records : cpus_entered[r] = Cardinality(EnteredSet(r))
    BY <2>1, <2>3
  <2>5. ap_count <= Cardinality(Awake)
    BY <2>2, <2>3
  <2> QED BY <2>4, <2>5 DEF CountInv
<1>3. KindInv /\ StartInv
  BY DEF KindInv, StartInv, Free, Taken, AllOnes, Outside, SipiCode
<1>4. SmiInv /\ InitializedInv
  BY DEF SmiInv, InitializedInv
<1>5. PlanInv
  BY DEF PlanInv, PassedInv, AreaInv, BspPast
<1>6. WorkInv
  <2>1. WorkTypes
    BY DEF WorkTypes
  <2>2. OrderInv
    BY DEF OrderInv
  <2>3. SlotsInv /\ AcceptedInv
    BY DEF SlotsInv, AcceptedInv
  <2> QED BY <2>1, <2>2, <2>3 DEF WorkInv
<1> QED BY <1>1, <1>2, <1>3, <1>4, <1>5, <1>6 DEF MInv

LEMMA StutterMInv == ASSUME MInv, UNCHANGED vars PROVE MInv'
<1> USE DEF vars, bootVars, smmVars, planVars, workVars
<1>1. SameEntered
  BY DEF SameEntered, Entered
<1>2. CountInv'
  BY <1>1, CountsKept DEF MInv
<1>3. WorkInv'
  BY WorkKept DEF MInv
<1>4. ControlInv' /\ KindInv' /\ StartInv' /\ SmiInv' /\ InitializedInv'
  BY DEF MInv, ControlInv, BspPlace, ApPlace, KindInv, StartInv, SmiInv, InitializedInv
<1>5. PlanInv'
  BY DEF MInv, PlanInv, PassedInv, AreaInv, BspPast, Entered, Counted
<1> QED BY <1>2, <1>3, <1>4, <1>5 DEF MInv

LEMMA MInvHolds == Spec => []MInv
<1>1. ASSUME MInv, [Next]_vars PROVE MInv'
  <2>1. CASE BspStep
    BY <1>1, <2>1, BspStepMInv
  <2>2. CASE \E a \in APs : ApStep(a)
    BY <1>1, <2>2, ApStepMInv
  <2>3. CASE UNCHANGED vars
    BY <1>1, <2>3, StutterMInv
  <2> QED
    BY <1>1, <2>1, <2>2, <2>3 DEF Next, Spin, Finished
<1> QED
  BY <1>1, InitMInv, PTL DEF Spec

\* Every variable keeps its type; in particular neither ap_count nor the
\* cpus_entered of a record ever exceeds the number of APs.
THEOREM TypesHeld == Spec => []TypeOK
<1>1. ASSUME MInv PROVE TypeOK
  <2>1. pc \in [CPUs -> Labels] /\ rec \in [CPUs -> 0 .. Last + 1] /\ barrier \in [Records -> {0, 1}]
    BY <1>1 DEF MInv, ControlInv
  <2>2. Awake \in SUBSET APs /\ \A r \in Records : EnteredSet(r) \in SUBSET APs
    BY DEF Awake, EnteredSet
  <2>3. Cardinality(Awake) <= Cardinality(APs) /\ Cardinality(Awake) \in Nat /\ Cardinality(APs) \in Nat
    BY <2>2, CpuAssumption, FS_Subset, FS_CardinalityType
  <2>4. ap_count \in 0 .. Cardinality(APs)
    BY <1>1, <2>3 DEF MInv, CountInv
  <2>5. ASSUME NEW r \in Records PROVE cpus_entered[r] \in 0 .. Cardinality(APs)
    <3>1. Cardinality(EnteredSet(r)) <= Cardinality(APs) /\ Cardinality(EnteredSet(r)) \in Nat
      BY <2>2, CpuAssumption, FS_Subset, FS_CardinalityType
    <3> QED BY <1>1, <2>3, <3>1 DEF MInv, CountInv
  <2>6. cpus_entered \in [Records -> 0 .. Cardinality(APs)]
    BY <1>1, <2>5 DEF MInv, CountInv
  <2> QED
    BY <1>1, <2>1, <2>4, <2>6 DEF TypeOK, MInv, KindInv, StartInv, InitializedInv, WorkInv,
       WorkTypes
<1> QED
  BY <1>1, MInvHolds, PTL

\* If get_cpu_count() misses no processor, then as long as no wait has timed
\* out the relocation handler and the SIPI code are in the default SMM area
\* whenever a processor executes them; and in any case only one processor at a
\* time is in the relocation handler.
THEOREM AreaSafe == ASSUME Counted PROVE Spec => []SmmAreaSafe
<1>1. ASSUME MInv PROVE SmmAreaSafe
  <2> USE <1>1, Procs DEF MInv
  <2>1. ASSUME NEW c \in CPUs, pc[c] = "smi", ret = 0 PROVE area = "relocation"
    <3>1. PassedInv /\ AreaInv
      BY <2>1 DEF PlanInv
    <3>2. do_smm /\ rec[c] = 1 /\ rec[BSP] > 0
      BY <2>1 DEF SmiInv, ControlInv, BspPlace, ApPlace, Outside, SipiCode, Waiting
    <3>3. pc[BSP] \notin {"done", "poll_aps"}
      <4> SUFFICES ASSUME pc[BSP] \in {"done", "poll_aps"} PROVE FALSE
        OBVIOUS
      <4>1. c \in APs /\ rec[BSP] > 3
        BY <2>1, <3>1 DEF PassedInv, Last
      <4>2. Entered(c, 3)
        BY <3>1, <4>1 DEF PassedInv, BspPast
      <4> QED BY <3>2, <4>2 DEF Entered
    <3> QED BY <3>1, <3>2, <3>3 DEF AreaInv
  <2>2. ASSUME NEW a \in APs, pc[a] \in SipiCode, ret = 0 PROVE area = "sipi"
    <3>1. PassedInv /\ AreaInv
      BY <2>2 DEF PlanInv
    <3>2. ~Entered(a, 0)
      BY <2>2 DEF Entered, SipiCode, Waiting, ControlInv, ApPlace, Outside
    <3>3. ~BspPast(0)
      BY <3>1, <3>2 DEF PassedInv
    <3>4. rec[BSP] = 0 /\ pc[BSP] \in {"load_sipi", "start_aps", "check_in", "wait"}
      BY <3>1, <3>3 DEF BspPast, PassedInv, ControlInv, BspPlace, Records, Last
    <3>5. pc[BSP] # "load_sipi"
      BY <2>2 DEF StartInv, SipiCode
    <3> QED BY <3>1, <3>4, <3>5 DEF AreaInv
  <2> QED
    BY <2>1, <2>2 DEF SmmAreaSafe, RelocationSafe, SipiCodeIntact, SmiInv
<1> QED
  BY <1>1, MInvHolds, PTL

\* When mp_init() has returned 0 every processor is initialized and, if SMM is
\* used, is in the map of the handlers.
THEOREM SuccessHeld == Spec => []SuccessMeansAll
<1>1. ASSUME MInv PROVE SuccessMeansAll
  <2> SUFFICES ASSUME pc[BSP] \in {"restore", "done", "poll_aps"}, ret = 0,
                      NumAPs = Cardinality(APs)
               PROVE  initialized = CPUs /\ (do_smm => smm_map = CPUs)
    BY DEF SuccessMeansAll
  <2> USE <1>1, Procs DEF MInv
  <2>1. Counted
    BY CpuAssumption DEF Counted
  <2>2. PassedInv /\ AreaInv
    BY <2>1 DEF PlanInv
  <2>3. rec[BSP] = 4
    BY <2>2 DEF PassedInv, Last
  <2>4. ASSUME NEW a \in APs PROVE a \in initialized
    <3>1. Entered(a, 3) /\ rec[a] \in Int
      BY <2>2, <2>3 DEF PassedInv, BspPast, ControlInv
    <3> QED BY <3>1 DEF Entered, InitializedInv
  <2> QED
    BY <2>2, <2>3, <2>4 DEF AreaInv, InitializedInv
<1> QED
  BY <1>1, MInvHolds, PTL

\* The APs run the calls of run_ap_work() in order and none twice; and once
\* mp_init() has told run_ap_work() of every AP, a call that returned 0 was
\* accepted by each of them or, on an AP that was about to accept an expired call,
\* lost to that one.  The inductive part is SlotsInv: what an AP holds has expired
\* if it has returned, and an empty slot means that the newest call is settled.
THEOREM WorkHeld == Spec => []WorkAccepted
<1>1. ASSUME MInv PROVE WorkAccepted
  BY <1>1 DEF MInv, WorkInv, OrderInv, AcceptedInv, WorkAccepted, Settled
<1> QED
  BY <1>1, MInvHolds, PTL
=============================================================================
