----------------------------- MODULE LapicStart -----------------------------
(***************************************************************************)
(* Start of the application processors one after the other, as the         *)
(* X9SPU-F does it: cpu/x86/lapic/lapic_cpu_init.c and secondary.S, driven *)
(* by intel_cores_init() of cpu/intel/model_206ax, with the relocation of  *)
(* SMM by cpu/intel/smm/gen1/smmrelocate.c.                                *)
(*                                                                         *)
(* The boot processor publishes a stack and an index for the AP it starts  *)
(* in two variables; the AP takes them and clears secondary_stack to say   *)
(* that it is there.  An SMI has been queued in every AP before, which it  *)
(* serves at the default SMM base before it executes its first instruction.*)
(***************************************************************************)
EXTENDS Integers, FiniteSets

CONSTANTS
  N,        \* application processors, threads_per_package - 1
  MAX_CPUS, \* CONFIG_MAX_CPUS
  Starts,   \* CONFIG_NUM_IPI_STARTS
  Timely    \* an AP that got a SIPI calls in before the boot processor gives up; in
            \* particular the local APIC reports no error for an AP that comes, for
            \* then lapic_start_cpu() gives up without the wait of one second

ASSUME LapicAssumption ==
  /\ N \in Nat /\ MAX_CPUS \in Nat /\ N < MAX_CPUS
  /\ Starts \in Nat \ {0}
  /\ Timely \in BOOLEAN

BSP  == 0
APs  == 1 .. N
CPUs == 0 .. N

\* stacks[CONFIG_MAX_CPUS], and as many stacks below _estack; 0 is the boot
\* processor's own.  Every start takes a new one, that of an AP started before too.
Stacks == 0 .. MAX_CPUS - 1
NoCpu   == -1
Default == -1     \* SMM_DEFAULT_BASE; other bases are the cpu's place below it

VARIABLES
  pc,                  \* where each processor is
  alive,               \* the APs that there are and that work
  wakeup,              \* acpi_is_wakeup_s3()
  low,                 \* what is in memory at AP_SIPI_VECTOR: "os" or "start"
  smi,                 \* the APs with an SMI queued
  smbase,              \* the SMM base of each processor
  start_cpu_lock,      \* its holder, or NoCpu
  last_cpu_index,
  secondary_stack,     \* an index of Stacks; 0 is the null pointer
  secondary_cpu_index,
  info,                \* info->cpu at the end of each stack
  enabled,             \* cpu->enabled of each device
  initialized,         \* cpu->initialized
  active_cpus,
  stack,               \* the stack each AP has taken
  cpu,                 \* locals of the boot processor: loop variable,
  sipis,               \* SIPIs sent to it,
  caller               \* and the loop that called start_cpu()

hwVars    == <<alive, wakeup, low, smi, smbase>>
startVars == <<last_cpu_index, secondary_stack, secondary_cpu_index, info>>
devVars   == <<enabled, initialized>>
bspVars   == <<cpu, sipis, caller>>
vars == <<pc, hwVars, start_cpu_lock, startVars, devVars, active_cpus, stack, bspVars>>

Init ==
  /\ pc = [c \in CPUs |-> IF c = BSP THEN "copy" ELSE "wait_sipi"]
  /\ alive \in SUBSET APs /\ wakeup \in BOOLEAN
  /\ low = "os" /\ smi = {} /\ smbase = [c \in CPUs |-> Default]
  /\ start_cpu_lock = NoCpu /\ last_cpu_index = 0
  /\ secondary_stack = 0 /\ secondary_cpu_index = 0
  /\ info = [s \in Stacks |-> NoCpu]
  /\ enabled = [c \in CPUs |-> c = BSP] /\ initialized = [c \in CPUs |-> FALSE]
  /\ active_cpus = 1 /\ stack = [c \in CPUs |-> 0]
  /\ cpu = 0 /\ sipis = 0 /\ caller = "cores"

Go(c, label) == pc' = [pc EXCEPT ![c] = label]

-----------------------------------------------------------------------------
(* The boot processor: initialize_cpus()                                   *)

\* copy_secondary_start_to_lowest_1M(); the backup of "os" is kept on a wake-up.
CopySecondaryStart ==
  /\ pc[BSP] = "copy"
  /\ low' = "start"
  /\ Go(BSP, "smm_init")
  /\ UNCHANGED <<alive, wakeup, smi, smbase, start_cpu_lock, startVars, devVars, active_cpus,
                 stack, bspVars>>

\* smm_init(): the SMI reaches this processor and is queued in all the APs.
SmmInit ==
  /\ pc[BSP] = "smm_init"
  /\ smi' = alive
  /\ Go(BSP, "relocate")
  /\ UNCHANGED <<alive, wakeup, low, smbase, start_cpu_lock, startVars, devVars, active_cpus,
                 stack, bspVars>>

\* ... or cpu_smm_setup() fails.
SmmSetupFails ==
  /\ pc[BSP] = "smm_init"
  /\ Go(BSP, "initialize")
  /\ UNCHANGED <<hwVars, start_cpu_lock, startVars, devVars, active_cpus, stack, bspVars>>

\* cpu_smm_do_relocation() on processor c
Relocate(c) ==
  /\ pc[c] = "relocate"
  /\ smbase' = [smbase EXCEPT ![c] = IF c < MAX_CPUS THEN c ELSE @]
  /\ Go(c, IF c = BSP THEN "initialize" ELSE "low")
  /\ UNCHANGED <<alive, wakeup, low, smi, start_cpu_lock, startVars, devVars, active_cpus,
                 stack, bspVars>>

\* cpu_initialize(0) up to intel_cores_init()
InitializeBsp ==
  /\ pc[BSP] = "initialize"
  /\ enabled' = [enabled EXCEPT ![BSP] = TRUE]
  /\ initialized' = [initialized EXCEPT ![BSP] = TRUE]
  /\ cpu' = 1
  /\ Go(BSP, "cores")
  /\ UNCHANGED <<hwVars, start_cpu_lock, startVars, active_cpus, stack, sipis, caller>>

\* intel_cores_init(): a device for the next processor, enabled as all new ones.
NextCore ==
  /\ pc[BSP] = "cores"
  /\ IF cpu <= N
     THEN /\ enabled' = [enabled EXCEPT ![cpu] = TRUE]
          /\ caller' = "cores"
          /\ Go(BSP, "start_cpu")
          /\ UNCHANGED cpu
     ELSE /\ cpu' = 1
          /\ Go(BSP, "others")
          /\ UNCHANGED <<enabled, caller>>
  /\ UNCHANGED <<hwVars, start_cpu_lock, startVars, initialized, active_cpus, stack, sipis>>

\* Mutant: the stack pointer of the previous AP is advertised.
StartCpu_index ==
  /\ pc[BSP] = "start_cpu"
  /\ start_cpu_lock = NoCpu /\ last_cpu_index + 1 \in Stacks
  /\ start_cpu_lock' = BSP
  /\ last_cpu_index' = last_cpu_index + 1
  /\ info' = [info EXCEPT ![last_cpu_index'] = cpu]
  /\ secondary_stack' = IF last_cpu_index = 0 THEN 1 ELSE last_cpu_index
  /\ secondary_cpu_index' = last_cpu_index'
  /\ enabled' = [enabled EXCEPT ![cpu] = FALSE]
  /\ initialized' = [initialized EXCEPT ![cpu] = FALSE]
  /\ sipis' = 0
  /\ Go(BSP, "init_ipi")
  /\ UNCHANGED <<hwVars, active_cpus, stack, cpu, caller>>
\* Mutant: the device stays enabled until it turns out not to start.
StartCpu_enabled ==
  /\ pc[BSP] = "start_cpu"
  /\ start_cpu_lock = NoCpu /\ last_cpu_index + 1 \in Stacks
  /\ start_cpu_lock' = BSP
  /\ last_cpu_index' = last_cpu_index + 1
  /\ info' = [info EXCEPT ![last_cpu_index'] = cpu]
  /\ secondary_stack' = last_cpu_index'
  /\ secondary_cpu_index' = last_cpu_index'
  /\ initialized' = [initialized EXCEPT ![cpu] = FALSE]
  /\ sipis' = 0
  /\ Go(BSP, "init_ipi")
  /\ UNCHANGED <<hwVars, enabled, active_cpus, stack, cpu, caller>>

\* start_cpu() up to lapic_start_cpu(), while there are stacks left
StartCpu ==
  /\ pc[BSP] = "start_cpu"
  /\ start_cpu_lock = NoCpu /\ last_cpu_index + 1 \in Stacks
  /\ start_cpu_lock' = BSP
  /\ last_cpu_index' = last_cpu_index + 1
  /\ info' = [info EXCEPT ![last_cpu_index'] = cpu]
  /\ secondary_stack' = last_cpu_index'
  /\ secondary_cpu_index' = last_cpu_index'
  /\ enabled' = [enabled EXCEPT ![cpu] = FALSE]
  /\ initialized' = [initialized EXCEPT ![cpu] = FALSE]
  /\ sipis' = 0
  /\ Go(BSP, "init_ipi")
  /\ UNCHANGED <<hwVars, active_cpus, stack, cpu, caller>>

\* Nothing checks that: with none left the boot processor writes past stacks[] and
\* poisons the memory below _stack, and what follows is undefined.
StartCpuOverrun ==
  /\ pc[BSP] = "start_cpu"
  /\ start_cpu_lock = NoCpu /\ last_cpu_index + 1 \notin Stacks
  /\ Go(BSP, "overrun")
  /\ UNCHANGED <<hwVars, start_cpu_lock, startVars, devVars, active_cpus, stack, bspVars>>

\* lapic_start_cpu(): INIT, which an AP obeys wherever it is ...
InitIpi ==
  /\ pc[BSP] = "init_ipi"
  /\ pc' = [pc EXCEPT ![BSP] = "sipi", ![cpu] = "wait_sipi"]
  /\ UNCHANGED <<hwVars, start_cpu_lock, startVars, devVars, active_cpus, stack, bspVars>>

\* ... or the interrupt command register stays busy, delivered or not.
InitIpiFails ==
  /\ pc[BSP] = "init_ipi"
  /\ \E q \in {pc[cpu], "wait_sipi"} : pc' = [pc EXCEPT ![BSP] = "started", ![cpu] = q]
  /\ UNCHANGED <<hwVars, start_cpu_lock, startVars, devVars, active_cpus, stack, bspVars>>

\* A SIPI: an AP that waits for one serves its SMI or starts.
Sipi ==
  /\ pc[BSP] = "sipi"
  /\ sipis' = sipis + 1
  /\ pc' = [pc EXCEPT
              ![BSP] = IF sipis + 1 = Starts THEN "wait" ELSE "sipi",
              ![cpu] = IF cpu \in alive /\ @ = "wait_sipi"
                       THEN IF cpu \in smi THEN "relocate" ELSE "low"
                       ELSE @]
  /\ smi' = IF cpu \in alive /\ pc[cpu] = "wait_sipi" THEN smi \ {cpu} ELSE smi
  /\ UNCHANGED <<alive, wakeup, low, smbase, start_cpu_lock, startVars, devVars, active_cpus,
                 stack, cpu, caller>>

\* Whether the AP being started can still call in.
Coming == pc[cpu] \in {"relocate", "low", "stack", "call_in"}

\* The SIPI is not delivered, or the local APIC reports an error.
SipiFails ==
  /\ pc[BSP] = "sipi"
  /\ Timely => ~Coming
  /\ Go(BSP, "started")
  /\ UNCHANGED <<hwVars, start_cpu_lock, startVars, devVars, active_cpus, stack, bspVars>>

\* Mutant: the boot processor does not wait for the AP.
CalledIn_early ==
  /\ pc[BSP] = "wait"
  /\ Go(BSP, "started")
  /\ UNCHANGED <<hwVars, start_cpu_lock, startVars, devVars, active_cpus, stack, bspVars>>

\* start_cpu(): the AP has called in ...
CalledIn ==
  /\ pc[BSP] = "wait"
  /\ secondary_stack = 0
  /\ Go(BSP, "started")
  /\ UNCHANGED <<hwVars, start_cpu_lock, startVars, devVars, active_cpus, stack, bspVars>>

\* ... or a second has passed.
WaitExpires ==
  /\ pc[BSP] = "wait"
  /\ Timely => ~Coming
  /\ Go(BSP, "started")
  /\ UNCHANGED <<hwVars, start_cpu_lock, startVars, devVars, active_cpus, stack, bspVars>>

\* The end of start_cpu(), and on to the next one of the loop that called it.
Started ==
  /\ pc[BSP] = "started"
  /\ secondary_stack' = 0
  /\ start_cpu_lock' = NoCpu
  /\ cpu' = cpu + 1
  /\ Go(BSP, caller)
  /\ UNCHANGED <<hwVars, last_cpu_index, secondary_cpu_index, info, devVars, active_cpus, stack,
                 sipis, caller>>

\* start_other_cpus() reads cpu->enabled ...
NextOther ==
  /\ pc[BSP] = "others"
  /\ IF cpu > N THEN Go(BSP, "wait_stop") /\ UNCHANGED cpu
     ELSE IF enabled[cpu] THEN Go(BSP, "enabled") /\ UNCHANGED cpu
     ELSE cpu' = cpu + 1 /\ UNCHANGED pc
  /\ UNCHANGED <<hwVars, start_cpu_lock, startVars, devVars, active_cpus, stack, sipis, caller>>

\* ... and then cpu->initialized, which an AP sets after it.
StartOther ==
  /\ pc[BSP] = "enabled"
  /\ IF initialized[cpu] THEN Go(BSP, "others") /\ cpu' = cpu + 1 /\ UNCHANGED caller
                         ELSE Go(BSP, "start_cpu") /\ caller' = "others" /\ UNCHANGED cpu
  /\ UNCHANGED <<hwVars, start_cpu_lock, startVars, devVars, active_cpus, stack, sipis>>

\* wait_other_cpus_stop()
WaitOtherCpusStop ==
  /\ pc[BSP] = "wait_stop"
  /\ active_cpus <= 1
  /\ Go(BSP, "recover")
  /\ UNCHANGED <<hwVars, start_cpu_lock, startVars, devVars, active_cpus, stack, bspVars>>

\* Mutant: the memory of the operating system is not put back.
RecoverLowest1M_never ==
  /\ pc[BSP] = "recover"
  /\ Go(BSP, "done")
  /\ UNCHANGED <<hwVars, start_cpu_lock, startVars, devVars, active_cpus, stack, bspVars>>

\* recover_lowest_1M()
RecoverLowest1M ==
  /\ pc[BSP] = "recover"
  /\ low' = IF wakeup THEN "os" ELSE low
  /\ Go(BSP, "done")
  /\ UNCHANGED <<alive, wakeup, smi, smbase, start_cpu_lock, startVars, devVars, active_cpus,
                 stack, bspVars>>

-----------------------------------------------------------------------------
(* An application processor: secondary.S, secondary_cpu_init()             *)

\* _secondary_start, in low memory, up to the jump out of it
SecondaryStart(c) ==
  /\ pc[c] = "low"
  /\ Go(c, IF low = "start" THEN "stack" ELSE "lost")
  /\ UNCHANGED <<hwVars, start_cpu_lock, startVars, devVars, active_cpus, stack, bspVars>>

\* __ap_protected_start: take the stack; without one the AP runs into nowhere.
TakeStack(c) ==
  /\ pc[c] = "stack"
  /\ stack' = [stack EXCEPT ![c] = secondary_stack]
  /\ Go(c, IF secondary_stack = 0 THEN "lost" ELSE "call_in")
  /\ UNCHANGED <<hwVars, start_cpu_lock, startVars, devVars, active_cpus, bspVars>>

CallIn(c) ==
  /\ pc[c] = "call_in"
  /\ secondary_stack' = 0
  /\ Go(c, "count")
  /\ UNCHANGED <<hwVars, start_cpu_lock, last_cpu_index, secondary_cpu_index, info, devVars,
                 active_cpus, stack, bspVars>>

\* secondary_cpu_init(): atomic_inc(&active_cpus)
CountActive(c) ==
  /\ pc[c] = "count"
  /\ active_cpus' = active_cpus + 1
  /\ Go(c, "lock")
  /\ UNCHANGED <<hwVars, start_cpu_lock, startVars, devVars, stack, bspVars>>

LockStart(c) ==
  /\ pc[c] = "lock"
  /\ start_cpu_lock = NoCpu
  /\ start_cpu_lock' = c
  /\ Go(c, "initialize")
  /\ UNCHANGED <<hwVars, startVars, devVars, active_cpus, stack, bspVars>>

\* cpu_initialize() of the device found on the stack
Initialize(c) ==
  /\ c # BSP /\ pc[c] = "initialize"
  /\ IF initialized[info[stack[c]]]
     THEN Go(c, "unlock") /\ UNCHANGED enabled
     ELSE /\ enabled' = [enabled EXCEPT ![info[stack[c]]] = TRUE]
          /\ Go(c, "initialize2")
  /\ UNCHANGED <<hwVars, start_cpu_lock, startVars, initialized, active_cpus, stack, bspVars>>

Initialized(c) ==
  /\ pc[c] = "initialize2"
  /\ initialized' = [initialized EXCEPT ![info[stack[c]]] = TRUE]
  /\ Go(c, "driver")
  /\ UNCHANGED <<hwVars, start_cpu_lock, startVars, enabled, active_cpus, stack, bspVars>>

\* cpu->ops->init(): model_206ax_init(); only the boot processor starts others.
DriverInit(c) ==
  /\ pc[c] = "driver"
  /\ Go(c, "unlock")
  /\ UNCHANGED <<hwVars, start_cpu_lock, startVars, devVars, active_cpus, stack, bspVars>>

UnlockStart(c) ==
  /\ pc[c] = "unlock"
  /\ start_cpu_lock' = NoCpu
  /\ Go(c, "leave")
  /\ UNCHANGED <<hwVars, startVars, devVars, active_cpus, stack, bspVars>>

\* Mutant: the AP stops without counting down.
Leave_counted(c) ==
  /\ pc[c] = "leave"
  /\ Go(c, "stopped")
  /\ UNCHANGED <<hwVars, start_cpu_lock, startVars, devVars, active_cpus, stack, bspVars>>

\* atomic_dec(&active_cpus), stop_this_cpu()
Leave(c) ==
  /\ pc[c] = "leave"
  /\ active_cpus' = active_cpus - 1
  /\ Go(c, "stopped")
  /\ UNCHANGED <<hwVars, start_cpu_lock, startVars, devVars, stack, bspVars>>

BspStep ==
  \/ CopySecondaryStart \/ SmmInit \/ SmmSetupFails \/ Relocate(BSP) \/ InitializeBsp
  \/ NextCore \/ StartCpu \/ StartCpuOverrun \/ InitIpi \/ InitIpiFails \/ Sipi \/ SipiFails
  \/ CalledIn \/ WaitExpires \/ Started \/ NextOther \/ StartOther
  \/ WaitOtherCpusStop \/ RecoverLowest1M

\* After an overrun nothing is said about any processor.
ApStep(c) ==
  /\ pc[BSP] # "overrun"
  /\ \/ Relocate(c) \/ SecondaryStart(c) \/ TakeStack(c) \/ CallIn(c) \/ CountActive(c)
     \/ LockStart(c) \/ Initialize(c) \/ Initialized(c) \/ DriverInit(c) \/ UnlockStart(c)
     \/ Leave(c)

\* The boot processor reads active_cpus, secondary_stack or the lock again; an AP
\* is parked, or has not been started.  Nothing changes.
Spin ==
  /\ pc[BSP] \in {"wait_stop", "wait", "start_cpu", "done", "overrun"}
  /\ UNCHANGED vars

Next == BspStep \/ (\E c \in APs : ApStep(c)) \/ Spin

Spec == Init /\ [][Next]_vars

\* Every processor keeps running.
FairSpec == Spec /\ WF_vars(BspStep) /\ \A c \in APs : WF_vars(ApStep(c))

-----------------------------------------------------------------------------
(* Properties                                                              *)

BspLabels ==
  {"copy", "smm_init", "relocate", "initialize", "cores", "start_cpu", "init_ipi", "sipi", "wait",
   "started", "others", "enabled", "wait_stop", "recover", "done", "overrun"}
ApLabels ==
  {"wait_sipi", "relocate", "low", "stack", "call_in", "count", "lock", "initialize",
   "initialize2", "driver", "unlock", "leave", "stopped", "lost"}

\* Types; stacks are handed out in order.
TypeOK ==
  /\ pc \in [CPUs -> BspLabels \cup ApLabels]
  /\ alive \subseteq APs /\ smi \subseteq alive /\ wakeup \in BOOLEAN
  /\ low \in {"os", "start"} /\ smbase \in [CPUs -> CPUs \cup {Default}]
  /\ start_cpu_lock \in CPUs \cup {NoCpu}
  /\ last_cpu_index \in Stacks /\ secondary_stack \in {0, last_cpu_index}
  /\ secondary_cpu_index = last_cpu_index
  /\ info \in [Stacks -> APs \cup {NoCpu}]
  /\ enabled \in [CPUs -> BOOLEAN] /\ initialized \in [CPUs -> BOOLEAN]
  /\ active_cpus \in Int /\ stack \in [CPUs -> 0 .. last_cpu_index]
  /\ cpu \in 0 .. N + 1 /\ sipis \in 0 .. Starts /\ caller \in {"cores", "others"}

\* Labels at which an AP uses the stack it took.
OnStack == {"call_in", "count", "lock", "initialize", "initialize2", "driver", "unlock"}

\* smmrelocate.c: "Since one thread runs at a time during the relocation the save
\* state is the same for all cpus."  Nothing but the order in which start_cpu()
\* waits for the APs sees to that: there is no lock.
RelocationSerial ==
  \A c, d \in CPUs : pc[c] = "relocate" /\ pc[d] = "relocate" => c = d

\* An AP that runs has left the default SMM base for one of its own.
RelocatedFirst ==
  smbase[BSP] # Default =>
    \A c \in APs : pc[c] \in OnStack \cup {"low", "stack", "leave", "stopped"} => smbase[c] = c

\* Every processor is relocated before it runs, one at a time.
SmmRelocated == RelocationSerial /\ RelocatedFirst

\* Stacks are handed out in order and last for a first start of every AP, so that only
\* a second start can overrun them; an AP works on a stack of its own and initializes
\* its own device, although it picks them up from variables that belong to whoever is
\* being started.
OwnStack ==
  /\ TypeOK
  /\ pc[BSP] = "overrun" => caller = "others"
  /\ \A c \in APs : pc[c] \in OnStack => info[stack[c]] = c
  /\ \A c, d \in APs : pc[c] \in OnStack /\ pc[d] \in OnStack /\ stack[c] = stack[d] => c = d

\* lapic_cpu_init.c: "We actually handling that case by noting which cpus startup
\* and not telling anyone about the ones that don't."
OnlyStartedReported ==
  pc[BSP] \in {"wait_stop", "recover", "done"} =>
    \A c \in APs : enabled[c] => c \in alive /\ stack[c] # 0

\* No AP executes in low memory before the code is there or after the memory has
\* been given back to the operating system, which gets it back on a wake-up.
LowMemorySafe ==
  /\ \A c \in APs : pc[c] \notin {"lost"} /\ (pc[c] = "low" => low = "start")
  /\ pc[BSP] = "done" /\ wakeup => low = "os"

\* lapic_cpu_init.c, "static void *stacks[CONFIG_MAX_CPUS];": no start of a processor
\* goes past its end.
StacksSuffice == pc[BSP] # "overrun"

\* Labels at which an AP is counted in active_cpus.
Active == {"lock", "initialize", "initialize2", "driver", "unlock", "leave"}

\* The INIT of a second start has stopped an AP between its spin_unlock() and its
\* atomic_dec(), so that active_cpus counts it for ever.
CountedOut ==
  caller = "others" /\ active_cpus > 1 + Cardinality({c \in APs : pc[c] \in Active})

\* The boot processor gets through, except after one of the two things that a second
\* start can do: it takes a stack that is not there, or it stops an AP that is still
\* counted, whereupon wait_other_cpus_stop() never ends.  There is a second start
\* only if start_other_cpus() reads cpu->enabled and cpu->initialized between the two
\* assignments of an AP.
BspFinishes == <>(pc[BSP] \in {"done", "overrun"} \/ CountedOut)

\* The boot processor gets through, whatever the APs are at.
AlwaysFinishes == <>(pc[BSP] = "done")

\* lapic_cpu_init.c on wait_other_cpus_stop(): "Now loop until the other cpus have
\* finished initializing".
AllStopped ==
  pc[BSP] \in {"recover", "done"} => \A c \in APs : pc[c] \in {"wait_sipi", "leave", "stopped", "lost"}
=============================================================================
