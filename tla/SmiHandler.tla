----------------------------- MODULE SmiHandler -----------------------------
(***************************************************************************)
(* System management interrupts at run time: smm_handler_start() of        *)
(* cpu/x86/smm/smm_module_handler.c with the handler of the southbridge,   *)
(* southbridge/intel/bd82x6x/smihandler.c.                                 *)
(*                                                                         *)
(* The southbridge asserts SMI# to all processors at once; each enters SMM *)
(* when it comes to it and runs the same handler, whose lock lets one of   *)
(* them do the work.  The others leave when the lock is free.  A processor *)
(* that comes late finds it free, and works too.                           *)
(***************************************************************************)
EXTENDS Integers, FiniteSets

CONSTANTS
  CPUs,       \* the processors
  Events,     \* sources of SMIs other than the sleep request
  Addresses   \* what the operating system writes to the PCI address port

Slp      == "SLP_SMI_STS"
SmmAddr  == -1          \* the address of the last PCI access of the handler

ASSUME SmiAssumption ==
  /\ IsFiniteSet(CPUs) /\ CPUs # {}
  /\ Slp \notin Events
  /\ Addresses \subseteq Nat /\ Addresses # {}

VARIABLES
  pc,                 \* where each processor is
  smi,                \* the processors that have an SMI latched
  smi_handler_status, \* SMI_LOCKED or SMI_UNLOCKED
  SMI_STS,            \* the status bits that are set in the southbridge
  SLP_SMI_EN,         \* a sleep request raises an SMI
  EOS,                \* the southbridge may assert SMI#
  smi_sts,            \* local of southbridge_smi_handler()
  cf8,                \* the PCI address port
  pci_orig,           \* its copy
  os_cf8,             \* history: what the operating system wrote there last
  touched             \* history: and whether a handler was at work then

chipVars == <<SMI_STS, SLP_SMI_EN, EOS>>
pciVars  == <<cf8, pci_orig, os_cf8, touched>>
vars == <<pc, smi, smi_handler_status, chipVars, smi_sts, pciVars>>

Init ==
  /\ pc = [c \in CPUs |-> "os"] /\ smi = {}
  /\ smi_handler_status = "SMI_UNLOCKED"
  /\ SMI_STS = {} /\ SLP_SMI_EN = TRUE /\ EOS = TRUE
  /\ smi_sts = [c \in CPUs |-> {}]
  /\ cf8 \in Addresses /\ pci_orig = 0 /\ os_cf8 = cf8 /\ touched = FALSE

Go(c, label) == pc' = [pc EXCEPT ![c] = label]

\* The labels at which a processor has the lock.
Handler == {"backup", "status", "clear", "dispatch", "restore", "release", "halted"}

-----------------------------------------------------------------------------
(* The operating system and the southbridge                                *)

\* Something raises an SMI: a write to the APM port, a timer, a GPIO, ...
Raise(e) ==
  /\ e \notin SMI_STS
  /\ SMI_STS' = SMI_STS \cup {e}
  /\ UNCHANGED <<pc, smi, smi_handler_status, SLP_SMI_EN, EOS, smi_sts, pciVars>>

\* The operating system asks for a sleep state.
RequestSleep(c) ==
  /\ pc[c] = "os" /\ SLP_SMI_EN
  /\ SMI_STS' = SMI_STS \cup {Slp}
  /\ UNCHANGED <<pc, smi, smi_handler_status, SLP_SMI_EN, EOS, smi_sts, pciVars>>

\* SMI# goes to all processors; no other until the EOS bit is set again.
AssertSmi ==
  /\ SMI_STS # {} /\ EOS
  /\ EOS' = FALSE
  /\ smi' = CPUs
  /\ UNCHANGED <<pc, smi_handler_status, SMI_STS, SLP_SMI_EN, smi_sts, pciVars>>

\* The operating system selects a PCI register.
WritePciAddress(c, a) ==
  /\ pc[c] = "os"
  /\ cf8' = a /\ os_cf8' = a
  /\ touched' = \E d \in CPUs : pc[d] \in Handler
  /\ UNCHANGED <<pc, smi, smi_handler_status, chipVars, smi_sts, pci_orig>>

EnterSmm(c) ==
  /\ pc[c] = "os" /\ c \in smi
  /\ smi' = smi \ {c}
  /\ Go(c, "entry")
  /\ UNCHANGED <<smi_handler_status, chipVars, smi_sts, pciVars>>

-----------------------------------------------------------------------------
(* smm_handler_start()                                                     *)

\* Mutant: the lock is read and written in two steps.
ObtainLock_late(c) ==
  /\ pc[c] = "entry"
  /\ smi_handler_status = "SMI_UNLOCKED"
  /\ Go(c, "backup")
  /\ UNCHANGED <<smi, smi_handler_status, chipVars, smi_sts, pciVars>>

\* smi_obtain_lock(): one exchange
ObtainLock(c) ==
  /\ pc[c] = "entry"
  /\ smi_handler_status = "SMI_UNLOCKED"
  /\ smi_handler_status' = "SMI_LOCKED"
  /\ Go(c, "backup")
  /\ UNCHANGED <<smi, chipVars, smi_sts, pciVars>>

LockTaken(c) ==
  /\ pc[c] = "entry"
  /\ smi_handler_status = "SMI_LOCKED"
  /\ Go(c, "spin")
  /\ UNCHANGED <<smi, smi_handler_status, chipVars, smi_sts, pciVars>>

\* Mutant: the other processors are let go at once.
Released_early(c) ==
  /\ pc[c] = "spin"
  /\ Go(c, "os")
  /\ UNCHANGED <<smi, smi_handler_status, chipVars, smi_sts, pciVars>>

\* "For security reasons we don't release the other CPUs until the CPU with the
\* lock is actually done"
Released(c) ==
  /\ pc[c] = "spin"
  /\ smi_handler_status = "SMI_UNLOCKED"
  /\ Go(c, "os")
  /\ UNCHANGED <<smi, smi_handler_status, chipVars, smi_sts, pciVars>>

\* smi_backup_pci_address()
BackupPciAddress(c) ==
  /\ pc[c] = "backup"
  /\ pci_orig' = cf8
  /\ Go(c, "status")
  /\ UNCHANGED <<smi, smi_handler_status, chipVars, smi_sts, cf8, os_cf8, touched>>

\* southbridge_smi_handler(): pmbase is read from PCI, then reset_smi_status()
ReadStatus(c) ==
  /\ pc[c] = "status"
  /\ cf8' = SmmAddr
  /\ smi_sts' = [smi_sts EXCEPT ![c] = SMI_STS]
  /\ Go(c, "clear")
  /\ UNCHANGED <<smi, smi_handler_status, chipVars, pci_orig, os_cf8, touched>>

ClearStatus(c) ==
  /\ pc[c] = "clear"
  /\ SMI_STS' = SMI_STS \ smi_sts[c]
  /\ Go(c, "dispatch")
  /\ UNCHANGED <<smi, smi_handler_status, SLP_SMI_EN, EOS, smi_sts, pciVars>>

\* One sub handler per status bit.  southbridge_smi_sleep() comes first, disables
\* itself and halts in SMM with the lock held, unless the sleep state is S1;
\* southbridge_smi_pm1() requests to be switched off if it is for the power button.
Dispatch(c) ==
  /\ pc[c] = "dispatch"
  /\ SLP_SMI_EN' = (SLP_SMI_EN /\ Slp \notin smi_sts[c])
  /\ \/ Slp \in smi_sts[c] /\ Go(c, "halted") /\ UNCHANGED SMI_STS
     \/ /\ Go(c, "restore")
        /\ \/ UNCHANGED SMI_STS
           \/ SLP_SMI_EN' /\ smi_sts[c] # {} /\ SMI_STS' = SMI_STS \cup {Slp}
  /\ smi_sts' = [smi_sts EXCEPT ![c] = {}]
  /\ UNCHANGED <<smi, smi_handler_status, EOS, pciVars>>

\* Mutant: the address is not restored.
RestorePciAddress_never(c) ==
  /\ pc[c] = "restore"
  /\ Go(c, "release")
  /\ UNCHANGED <<smi, smi_handler_status, chipVars, smi_sts, pciVars>>

\* smi_restore_pci_address()
RestorePciAddress(c) ==
  /\ pc[c] = "restore"
  /\ cf8' = pci_orig
  /\ Go(c, "release")
  /\ UNCHANGED <<smi, smi_handler_status, chipVars, smi_sts, pci_orig, os_cf8, touched>>

\* smi_release_lock()
ReleaseLock(c) ==
  /\ pc[c] = "release"
  /\ smi_handler_status' = "SMI_UNLOCKED"
  /\ Go(c, "eos")
  /\ UNCHANGED <<smi, chipVars, smi_sts, pciVars>>

\* Mutant: SMIs stay disabled.
SetEos_never(c) ==
  /\ pc[c] = "eos"
  /\ Go(c, "os")
  /\ UNCHANGED <<smi, smi_handler_status, chipVars, smi_sts, pciVars>>

\* smi_set_eos() and the return to the operating system
SetEos(c) ==
  /\ pc[c] = "eos"
  /\ EOS' = TRUE
  /\ Go(c, "os")
  /\ UNCHANGED <<smi, smi_handler_status, SMI_STS, SLP_SMI_EN, smi_sts, pciVars>>

SmmStep(c) ==
  \/ EnterSmm(c) \/ ObtainLock(c) \/ LockTaken(c) \/ Released(c)
  \/ BackupPciAddress(c) \/ ReadStatus(c) \/ ClearStatus(c) \/ Dispatch(c)
  \/ RestorePciAddress(c) \/ ReleaseLock(c) \/ SetEos(c)

\* The machine sleeps, and wakes up with a new SMM.
Asleep == (\E c \in CPUs : pc[c] = "halted") /\ UNCHANGED vars

Next ==
  \/ AssertSmi \/ Asleep
  \/ \E e \in Events : Raise(e)
  \/ \E c \in CPUs :
       \/ SmmStep(c) \/ RequestSleep(c)
       \/ \E a \in Addresses : WritePciAddress(c, a)

Spec == Init /\ [][Next]_vars

\* Processors run and take their SMIs, the southbridge asserts SMI#; nothing is
\* assumed about the operating system.
FairSpec == Spec /\ WF_vars(AssertSmi) /\ \A c \in CPUs : WF_vars(SmmStep(c))

-----------------------------------------------------------------------------
(* Properties                                                              *)

TypeOK ==
  /\ pc \in [CPUs -> Handler \cup {"os", "entry", "spin", "eos"}]
  /\ smi \subseteq CPUs
  /\ smi_handler_status \in {"SMI_LOCKED", "SMI_UNLOCKED"}
  /\ SMI_STS \subseteq Events \cup {Slp}
  /\ SLP_SMI_EN \in BOOLEAN /\ EOS \in BOOLEAN
  /\ smi_sts \in [CPUs -> SUBSET (Events \cup {Slp})]
  /\ cf8 \in Addresses \cup {SmmAddr} /\ pci_orig \in Addresses \cup {0}
  /\ os_cf8 \in Addresses /\ touched \in BOOLEAN

\* One processor at a time does the work, also when one comes so late that the
\* first has finished, or is still about to set the EOS bit.
HandlerExclusive ==
  /\ \A c, d \in CPUs : pc[c] \in Handler /\ pc[d] \in Handler => c = d
  /\ smi_handler_status = "SMI_LOCKED" <=> \E c \in CPUs : pc[c] \in Handler

\* smm_module_handler.c: "For security reasons we don't release the other CPUs
\* until the CPU with the lock is actually done": none that found the lock taken
\* goes back to the operating system while one is in the handler.  The exception is
\* the processor that had the lock itself: it releases the lock before it sets the
\* EOS bit, and goes back although one that came late may have taken the lock since.
HeldUntilDone ==
  [][\A c \in CPUs : pc[c] # "os" /\ pc'[c] = "os" /\ pc[c] # "eos" =>
       \A d \in CPUs : pc'[d] \notin Handler]_vars

\* With no handler at work the operating system finds the PCI address it wrote,
\* unless it wrote it while a handler was at work on another processor.
PciAddressRestored ==
  smi_handler_status = "SMI_UNLOCKED" /\ ~touched => cf8 = os_cf8

\* A handler takes the SMI on: it calls the sub handler.
Dispatched(e) == \E c \in CPUs : pc[c] = "dispatch" /\ e \in smi_sts[c]

\* Whatever raises an SMI is handled, also when it is raised while an SMI is
\* being handled, unless the machine goes to sleep.
SmiHandled ==
  \A e \in Events :
    e \in SMI_STS ~> (Dispatched(e) \/ \E c \in CPUs : pc[c] = "halted")

\* smm_module_handler.c: "Backup PCI address to make sure we do not mess up the OS"
PciAddressKept == smi_handler_status = "SMI_UNLOCKED" => cf8 = os_cf8
=============================================================================
