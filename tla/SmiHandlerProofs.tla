-------------------------- MODULE SmiHandlerProofs --------------------------
(* Machine-checked theorems about SmiHandler, for any number of processors, *)
(* any sources of SMIs and any PCI addresses.                               *)
EXTENDS SmiHandler, TLAPS

\* With the lock held by one processor, the PCI address is the operating system's
\* until the handler's first access, and in pci_orig from the backup on.
PciInv ==
  ~touched =>
    /\ smi_handler_status = "SMI_UNLOCKED" => cf8 = os_cf8
    /\ \A c \in CPUs :
         /\ pc[c] \in {"backup", "release"} => cf8 = os_cf8
         /\ pc[c] \in {"status", "clear", "dispatch", "restore", "release"} => pci_orig = os_cf8

\* Types alone do not say when pci_orig holds an address: from the backup on, and
\* that is what goes back to the port.
OrigInv ==
  \A c \in CPUs :
    /\ pc[c] \in {"backup", "release"} => cf8 \in Addresses
    /\ pc[c] \in Handler \ {"backup"} => pci_orig \in Addresses
    /\ smi_handler_status = "SMI_UNLOCKED" => cf8 \in Addresses

IInv == TypeOK /\ HandlerExclusive /\ OrigInv

LEMMA InitInv == Init => IInv /\ PciInv
BY SmiAssumption DEF Init, IInv, PciInv, OrigInv, TypeOK, HandlerExclusive, Handler

\* Every step of a processor in SMM keeps the invariant.
LEMMA StepInv ==
  ASSUME IInv, NEW c \in CPUs, SmmStep(c)
  PROVE  IInv'
<1> USE SmiAssumption DEF IInv, OrigInv, TypeOK, HandlerExclusive, Handler, Go, chipVars, pciVars
<1>1. CASE EnterSmm(c)
  BY <1>1 DEF EnterSmm
<1>2. CASE ObtainLock(c)
  BY <1>2 DEF ObtainLock
<1>3. CASE LockTaken(c)
  BY <1>3 DEF LockTaken
<1>4. CASE Released(c)
  BY <1>4 DEF Released
<1>5. CASE BackupPciAddress(c)
  BY <1>5 DEF BackupPciAddress
<1>6. CASE ReadStatus(c)
  BY <1>6 DEF ReadStatus
<1>7. CASE ClearStatus(c)
  BY <1>7 DEF ClearStatus
<1>8. CASE Dispatch(c)
  BY <1>8 DEF Dispatch
<1>9. CASE RestorePciAddress(c)
  BY <1>9 DEF RestorePciAddress
<1>10. CASE ReleaseLock(c)
  BY <1>10 DEF ReleaseLock
<1>11. CASE SetEos(c)
  BY <1>11 DEF SetEos
<1> QED
  BY <1>1, <1>2, <1>3, <1>4, <1>5, <1>6, <1>7, <1>8, <1>9, <1>10, <1>11 DEF SmmStep

\* What the operating system and the southbridge do keeps it too.
LEMMA EnvironmentInv ==
  ASSUME IInv,
         \/ AssertSmi \/ Asleep
         \/ \E e \in Events : Raise(e)
         \/ \E c \in CPUs : RequestSleep(c)
         \/ \E c \in CPUs, a \in Addresses : WritePciAddress(c, a)
  PROVE  IInv'
<1> USE SmiAssumption DEF IInv, OrigInv, TypeOK, HandlerExclusive, Handler, pciVars
<1>1. CASE AssertSmi
  BY <1>1 DEF AssertSmi
<1>2. CASE Asleep
  BY <1>2 DEF Asleep, vars, chipVars
<1>3. CASE \E e \in Events : Raise(e)
  BY <1>3 DEF Raise
<1>4. CASE \E c \in CPUs : RequestSleep(c)
  BY <1>4 DEF RequestSleep
<1>5. CASE \E c \in CPUs, a \in Addresses : WritePciAddress(c, a)
  BY <1>5 DEF WritePciAddress, chipVars
<1> QED
  BY <1>1, <1>2, <1>3, <1>4, <1>5

LEMMA NextInv == IInv /\ [Next]_vars => IInv'
<1> SUFFICES ASSUME IInv, [Next]_vars PROVE IInv'
  OBVIOUS
<1>1. CASE UNCHANGED vars
  BY <1>1 DEF vars, chipVars, pciVars, IInv, OrigInv, TypeOK, HandlerExclusive
<1>2. CASE Next
  BY <1>2, StepInv, EnvironmentInv DEF Next
<1> QED
  BY <1>1, <1>2

\* The PCI address: one handler at a time makes a backup and puts it back.
LEMMA PciStep ==
  ASSUME IInv, PciInv, NEW c \in CPUs, SmmStep(c)
  PROVE  PciInv'
<1> USE DEF IInv, PciInv, TypeOK, HandlerExclusive, Handler, Go, pciVars
<1>1. CASE EnterSmm(c)
  BY <1>1 DEF EnterSmm
<1>2. CASE ObtainLock(c)
  BY <1>2 DEF ObtainLock
<1>3. CASE LockTaken(c)
  BY <1>3 DEF LockTaken
<1>4. CASE Released(c)
  BY <1>4 DEF Released
<1>5. CASE BackupPciAddress(c)
  BY <1>5 DEF BackupPciAddress
<1>6. CASE ReadStatus(c)
  BY <1>6 DEF ReadStatus
<1>7. CASE ClearStatus(c)
  BY <1>7 DEF ClearStatus
<1>8. CASE Dispatch(c)
  BY <1>8 DEF Dispatch
<1>9. CASE RestorePciAddress(c)
  BY <1>9 DEF RestorePciAddress
<1>10. CASE ReleaseLock(c)
  BY <1>10 DEF ReleaseLock
<1>11. CASE SetEos(c)
  BY <1>11 DEF SetEos
<1> QED
  BY <1>1, <1>2, <1>3, <1>4, <1>5, <1>6, <1>7, <1>8, <1>9, <1>10, <1>11 DEF SmmStep

LEMMA PciNext == IInv /\ PciInv /\ [Next]_vars => PciInv'
<1> SUFFICES ASSUME IInv, PciInv, [Next]_vars PROVE PciInv'
  OBVIOUS
<1> USE DEF PciInv
<1>1. CASE UNCHANGED vars \/ Asleep
  BY <1>1 DEF Asleep, vars, chipVars, pciVars
<1>2. CASE \E c \in CPUs : SmmStep(c)
  BY <1>2, PciStep
<1>3. CASE AssertSmi
  BY <1>3 DEF AssertSmi, pciVars
<1>4. CASE \E e \in Events : Raise(e)
  BY <1>4 DEF Raise, pciVars
<1>5. CASE \E c \in CPUs : RequestSleep(c)
  BY <1>5 DEF RequestSleep, pciVars
<1>6. CASE \E c \in CPUs, a \in Addresses : WritePciAddress(c, a)
  BY <1>6 DEF WritePciAddress, Handler, IInv, TypeOK
<1> QED
  BY <1>1, <1>2, <1>3, <1>4, <1>5, <1>6 DEF Next

\* The variables keep their types, and the handler's lock works: one processor at
\* a time is between smi_obtain_lock() and smi_release_lock(), however late the
\* others come.
THEOREM LockWorks == Spec => [](TypeOK /\ HandlerExclusive)
<1>1. IInv => TypeOK /\ HandlerExclusive
  BY DEF IInv
<1> QED
  BY <1>1, InitInv, NextInv, PTL DEF Spec

\* smi_restore_pci_address() leaves the operating system's PCI address behind.
THEOREM AddressRestored == Spec => []PciAddressRestored
<1>1. PciInv => PciAddressRestored
  BY DEF PciInv, PciAddressRestored
<1> QED
  BY <1>1, InitInv, NextInv, PciNext, PTL DEF Spec

\* The loop in smm_handler_start() keeps the processors that wait in SMM for as
\* long as one is in the handler.
THEOREM OthersHeld == Spec => HeldUntilDone
<1>1. ASSUME IInv, [Next]_vars, NEW c \in CPUs, pc[c] # "os", pc'[c] = "os", pc[c] # "eos"
      PROVE  \A d \in CPUs : pc'[d] \notin Handler
  <2>1. Next
    BY <1>1 DEF vars
  <2>2. ASSUME NEW d \in CPUs, SmmStep(d)
        PROVE  Released(c)
    <3> USE <1>1, <2>2 DEF IInv, TypeOK, Go
    <3>1. CASE Released(d)
      BY <3>1 DEF Released
    <3>2. CASE EnterSmm(d)
      BY <3>2 DEF EnterSmm
    <3>3. CASE ObtainLock(d) \/ LockTaken(d)
      BY <3>3 DEF ObtainLock, LockTaken
    <3>4. CASE BackupPciAddress(d) \/ ReadStatus(d) \/ ClearStatus(d)
      BY <3>4 DEF BackupPciAddress, ReadStatus, ClearStatus
    <3>5. CASE Dispatch(d)
      BY <3>5 DEF Dispatch
    <3>6. CASE RestorePciAddress(d) \/ ReleaseLock(d)
      BY <3>6 DEF RestorePciAddress, ReleaseLock
    <3>7. CASE SetEos(d)
      BY <3>7 DEF SetEos
    <3> QED
      BY <3>1, <3>2, <3>3, <3>4, <3>5, <3>6, <3>7 DEF SmmStep
  <2>3. Released(c)
    BY <1>1, <2>1, <2>2 DEF Next, AssertSmi, Asleep, Raise, RequestSleep, WritePciAddress, vars
  <2> QED
    BY <1>1, <2>3 DEF Released, Go, IInv, TypeOK, HandlerExclusive, Handler
<1>2. IInv /\ [Next]_vars =>
        [\A c \in CPUs : pc[c] # "os" /\ pc'[c] = "os" /\ pc[c] # "eos" =>
           \A d \in CPUs : pc'[d] \notin Handler]_vars
  BY <1>1
<1> QED
  BY <1>2, InitInv, NextInv, PTL DEF Spec, HeldUntilDone
=============================================================================
