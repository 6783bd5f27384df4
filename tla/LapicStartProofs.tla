-------------------------- MODULE LapicStartProofs --------------------------
(* Machine-checked theorems about LapicStart, for any number of processors    *)
(* and of SIPIs, with APs that call in before the boot processor gives up.    *)
EXTENDS LapicStart, TLAPS

\* An AP between its SIPI and the step in which it clears secondary_stack.
ComingLabels == {"relocate", "low", "stack", "call_in"}

\* The boot processor in the middle of start_cpu()
Starting == {"init_ipi", "sipi", "wait", "started"}

\* Before the first call of start_cpu()
Before == {"copy", "smm_init", "relocate", "initialize"}

LabelsOK ==
  /\ pc[BSP] \in BspLabels
  /\ \A c \in APs : pc[c] \in ApLabels /\ (pc[c] # "wait_sipi" => c \in alive)

\* The starts that are over when a loop is at its variable cpu
Earlier == (IF caller = "cores" THEN 0 ELSE N) + cpu - 1

\* The two loops start each AP at most once.
LoopInv ==
  /\ pc[BSP] \in Before => last_cpu_index = 0 /\ \A c \in APs : pc[c] = "wait_sipi"
  /\ pc[BSP] = "cores" => cpu \in 1 .. N + 1 /\ last_cpu_index <= cpu - 1
  /\ pc[BSP] = "others" => cpu \in 1 .. N + 1 /\ last_cpu_index <= N + cpu - 1
  /\ pc[BSP] = "enabled" => cpu \in 1 .. N /\ last_cpu_index <= N + cpu - 1
  /\ pc[BSP] = "start_cpu" => cpu \in APs /\ last_cpu_index <= Earlier
  /\ pc[BSP] \in Starting => /\ cpu \in APs /\ last_cpu_index <= Earlier + 1
                             /\ last_cpu_index # 0 /\ info[last_cpu_index] = cpu
  /\ pc[BSP] \in {"init_ipi", "sipi"} => sipis < Starts
  /\ pc[BSP] = "overrun" => caller = "others"

\* Only the AP that is being started is on its way, and what it will pick up is
\* still there.
ComingInv ==
  /\ \A c \in APs : pc[c] \in ComingLabels =>
       c = cpu /\ pc[BSP] \in {"sipi", "wait"} /\ secondary_stack = last_cpu_index
  /\ pc[BSP] = "init_ipi" => secondary_stack = last_cpu_index
  /\ pc[BSP] = "sipi" /\ pc[cpu] = "wait_sipi" => secondary_stack = last_cpu_index

StackInv ==
  \A c \in APs : pc[c] \in OnStack => stack[c] # 0 /\ info[stack[c]] = c

LowInv ==
  /\ pc[BSP] \notin {"copy", "done"} => low = "start"
  /\ pc[BSP] = "done" /\ wakeup => low = "os"
  /\ \A c \in APs : pc[c] # "lost"

\* An AP that waits to be relocated has its SMI queued.
SmmInv ==
  smbase[BSP] # Default \/ pc[BSP] = "relocate" =>
    \A c \in alive : \/ smbase[c] = c
                     \/ pc[c] = "wait_sipi" /\ c \in smi
                     \/ pc[c] = "relocate"

\* A device is enabled because its AP runs, or because it is about to be started.
ReportInv ==
  \A c \in APs : enabled[c] =>
    \/ c \in alive /\ stack[c] # 0
    \/ c = cpu /\ pc[BSP] \in {"start_cpu", "overrun"}

LInv ==
  TypeOK /\ LabelsOK /\ LoopInv /\ ComingInv /\ StackInv /\ LowInv /\ SmmInv /\ ReportInv

\* A step of the boot processor alone
BspAt(l) ==
  /\ pc' \in [CPUs -> BspLabels \cup ApLabels] /\ LabelsOK'
  /\ pc'[BSP] = l /\ \A c \in APs : pc'[c] = pc[c]

LEMMA BspGoes ==
  ASSUME LInv, NEW l \in BspLabels, Go(BSP, l), alive' = alive
  PROVE  BspAt(l)
<1>1. pc \in [CPUs -> BspLabels \cup ApLabels] /\ LabelsOK
  BY DEF LInv, TypeOK
<1>2. BSP \in CPUs /\ BSP \notin APs /\ APs \subseteq CPUs
  BY LapicAssumption DEF BSP, CPUs, APs
<1> HIDE DEF BSP, CPUs, APs
<1>3. /\ pc' \in [CPUs -> BspLabels \cup ApLabels]
      /\ pc'[BSP] = l /\ \A c \in APs : pc'[c] = pc[c]
  BY <1>1, <1>2 DEF Go
<1> QED
  BY <1>1, <1>3 DEF BspAt, LabelsOK

\* A step of an AP alone
ApAt(c, l) ==
  /\ pc' \in [CPUs -> BspLabels \cup ApLabels] /\ LabelsOK'
  /\ pc'[BSP] = pc[BSP] /\ pc'[c] = l
  /\ \A d \in APs : d # c => pc'[d] = pc[d]

LEMMA ApGoes ==
  ASSUME LInv, NEW c \in APs, NEW l \in ApLabels, Go(c, l), pc[c] # "wait_sipi", alive' = alive
  PROVE  ApAt(c, l)
<1>1. pc \in [CPUs -> BspLabels \cup ApLabels] /\ LabelsOK
  BY DEF LInv, TypeOK
<1>2. BSP \in CPUs /\ BSP \notin APs /\ APs \subseteq CPUs
  BY LapicAssumption DEF BSP, CPUs, APs
<1> HIDE DEF BSP, CPUs, APs
<1>3. /\ pc' \in [CPUs -> BspLabels \cup ApLabels]
      /\ pc'[BSP] = pc[BSP] /\ pc'[c] = l /\ \A d \in APs : d # c => pc'[d] = pc[d]
  BY <1>1, <1>2 DEF Go
<1> QED
  BY <1>1, <1>3 DEF ApAt, LabelsOK

\* A step of the boot processor on the AP that it starts
BothAt(l, q) ==
  /\ pc' \in [CPUs -> BspLabels \cup ApLabels] /\ LabelsOK'
  /\ cpu \in APs /\ pc'[BSP] = l /\ pc'[cpu] = q
  /\ \A d \in APs : d # cpu => pc'[d] = pc[d]

LEMMA BothGo ==
  ASSUME LInv, cpu \in APs, NEW l \in BspLabels, NEW q \in ApLabels,
         pc' = [pc EXCEPT ![BSP] = l, ![cpu] = q], q # "wait_sipi" => cpu \in alive, alive' = alive
  PROVE  BothAt(l, q)
<1>1. pc \in [CPUs -> BspLabels \cup ApLabels] /\ LabelsOK
  BY DEF LInv, TypeOK
<1>2. BSP \in CPUs /\ BSP \notin APs /\ APs \subseteq CPUs
  BY LapicAssumption DEF BSP, CPUs, APs
<1> HIDE DEF BSP, CPUs, APs
<1>3. /\ pc' \in [CPUs -> BspLabels \cup ApLabels]
      /\ pc'[BSP] = l /\ pc'[cpu] = q /\ \A d \in APs : d # cpu => pc'[d] = pc[d]
  BY <1>1, <1>2
<1> QED
  BY <1>1, <1>3 DEF BothAt, LabelsOK

LEMMA InitLInv == Init => LInv
<1> SUFFICES ASSUME Init PROVE LInv
  OBVIOUS
<1> USE LapicAssumption DEF Init, BSP, APs, CPUs, Stacks, NoCpu, Default
<1>1. TypeOK
  BY DEF TypeOK, BspLabels, ApLabels
<1>2. LabelsOK /\ LoopInv /\ ComingInv
  BY DEF LabelsOK, BspLabels, ApLabels, LoopInv, Before, Starting, ComingInv, ComingLabels
<1>3. StackInv /\ LowInv
  BY DEF StackInv, OnStack, LowInv
<1>4. SmmInv
  BY DEF SmmInv
<1>5. ReportInv
  <2>1. ASSUME NEW c \in APs PROVE ~enabled[c]
    <3>1. c \in CPUs /\ c # BSP
      OBVIOUS
    <3> QED BY <3>1
  <2> QED BY <2>1 DEF ReportInv
<1> QED
  BY <1>1, <1>2, <1>3, <1>4, <1>5 DEF LInv

LEMMA BspStepLInv == ASSUME Timely, LInv, BspStep PROVE LInv'
<1> USE LapicAssumption
    DEF BSP, APs, CPUs, Stacks, NoCpu, Default, hwVars, startVars, devVars, bspVars,
        BspAt, BothAt, ApAt,
        LInv, TypeOK, LabelsOK, LoopInv, Before, Starting, Earlier, ComingInv,
        ComingLabels, Coming, StackInv, OnStack, LowInv, SmmInv, ReportInv
<1>1. CASE CopySecondaryStart
  <2>1. BspAt("smm_init")
    BY <1>1, BspGoes DEF CopySecondaryStart, BspLabels
  <2>2. TypeOK'
    BY <1>1, <2>1 DEF CopySecondaryStart
  <2>3. LoopInv' /\ ComingInv' /\ StackInv' /\ LowInv' /\ SmmInv' /\ ReportInv'
    BY <1>1, <2>1 DEF CopySecondaryStart
  <2> QED
    BY <2>1, <2>2, <2>3 DEF LInv, BspAt
<1>2. CASE SmmInit
  <2>1. BspAt("relocate")
    BY <1>2, BspGoes DEF SmmInit, BspLabels
  <2>2. TypeOK'
    BY <1>2, <2>1 DEF SmmInit
  <2>3. LoopInv' /\ ComingInv' /\ StackInv' /\ LowInv' /\ SmmInv' /\ ReportInv'
    BY <1>2, <2>1 DEF SmmInit
  <2> QED
    BY <2>1, <2>2, <2>3 DEF LInv, BspAt
<1>3. CASE SmmSetupFails
  <2>1. BspAt("initialize")
    BY <1>3, BspGoes DEF SmmSetupFails, BspLabels
  <2>2. TypeOK'
    BY <1>3, <2>1 DEF SmmSetupFails
  <2>3. LoopInv' /\ ComingInv' /\ StackInv' /\ LowInv' /\ SmmInv' /\ ReportInv'
    BY <1>3, <2>1 DEF SmmSetupFails
  <2> QED
    BY <2>1, <2>2, <2>3 DEF LInv, BspAt
<1>4. CASE Relocate(BSP)
  <2>1. BspAt("initialize")
    BY <1>4, BspGoes DEF Relocate, BspLabels
  <2>2. TypeOK'
    BY <1>4, <2>1 DEF Relocate
  <2>3. LoopInv' /\ ComingInv' /\ StackInv' /\ LowInv' /\ SmmInv' /\ ReportInv'
    BY <1>4, <2>1 DEF Relocate
  <2> QED
    BY <2>1, <2>2, <2>3 DEF LInv, BspAt
<1>5. CASE InitializeBsp
  <2>1. BspAt("cores")
    BY <1>5, BspGoes DEF InitializeBsp, BspLabels
  <2>2. TypeOK'
    BY <1>5, <2>1 DEF InitializeBsp
  <2>3. LoopInv' /\ ComingInv' /\ StackInv' /\ LowInv' /\ SmmInv' /\ ReportInv'
    BY <1>5, <2>1 DEF InitializeBsp
  <2> QED
    BY <2>1, <2>2, <2>3 DEF LInv, BspAt
<1>6. CASE NextCore
  <2>1. BspAt(IF cpu <= N THEN "start_cpu" ELSE "others")
    BY <1>6, BspGoes DEF NextCore, BspLabels
  <2>2. TypeOK'
    <3>1. enabled' \in [CPUs -> BOOLEAN]
      <4>1. enabled \in [CPUs -> BOOLEAN] /\ enabled' \in {enabled, [enabled EXCEPT ![cpu] = TRUE]}
        BY <1>6 DEF NextCore
      <4> HIDE DEF LInv, CPUs
      <4> QED BY <4>1
    <3>2. cpu' \in 0 .. N + 1 /\ caller' \in {"cores", "others"}
      BY <1>6 DEF NextCore
    <3> QED BY <1>6, <2>1, <3>1, <3>2 DEF NextCore
  <2>3. LoopInv'
    BY <1>6, <2>1 DEF NextCore
  <2>4. ComingInv'
    BY <1>6, <2>1 DEF NextCore
  <2>5. StackInv' /\ LowInv'
    BY <1>6, <2>1 DEF NextCore
  <2>6. SmmInv' /\ ReportInv'
    BY <1>6, <2>1, SMTT(60) DEF NextCore
  <2> QED
    BY <2>1, <2>2, <2>3, <2>4, <2>5, <2>6 DEF LInv, BspAt
<1>7. CASE StartCpu
  <2>1. BspAt("init_ipi")
    BY <1>7, BspGoes DEF StartCpu, BspLabels
  <2>2. TypeOK'
    BY <1>7, <2>1, SMTT(60) DEF StartCpu
  <2>3. LoopInv'
    BY <1>7, <2>1 DEF StartCpu
  <2>4. ComingInv'
    BY <1>7, <2>1 DEF StartCpu
  <2>5. StackInv' /\ LowInv'
    BY <1>7, <2>1 DEF StartCpu
  <2>6. SmmInv' /\ ReportInv'
    BY <1>7, <2>1 DEF StartCpu
  <2> QED
    BY <2>1, <2>2, <2>3, <2>4, <2>5, <2>6 DEF LInv, BspAt
<1>8. CASE InitIpi
  <2>1. BothAt("sipi", "wait_sipi")
    BY <1>8, BothGo DEF InitIpi, BspLabels, ApLabels
  <2>2. TypeOK'
    BY <1>8, <2>1 DEF InitIpi
  <2>3. LoopInv'
    BY <1>8, <2>1 DEF InitIpi
  <2>4. ComingInv'
    BY <1>8, <2>1 DEF InitIpi
  <2>5. StackInv' /\ LowInv'
    BY <1>8, <2>1 DEF InitIpi
  <2>6. SmmInv' /\ ReportInv'
    BY <1>8, <2>1 DEF InitIpi
  <2> QED
    BY <2>1, <2>2, <2>3, <2>4, <2>5, <2>6 DEF LInv, BothAt
<1>9. CASE InitIpiFails
  <2>1. PICK q \in {pc[cpu], "wait_sipi"} : BothAt("started", q)
    <3>1. PICK q \in {pc[cpu], "wait_sipi"} : pc' = [pc EXCEPT ![BSP] = "started", ![cpu] = q]
      BY <1>9 DEF InitIpiFails
    <3>2. cpu \in APs /\ q \in ApLabels /\ (q # "wait_sipi" => cpu \in alive)
      BY <1>9, <3>1 DEF InitIpiFails, LabelsOK, ApLabels
    <3>3. "started" \in BspLabels /\ alive' = alive
      BY <1>9 DEF InitIpiFails, BspLabels
    <3> QED BY <3>1, <3>2, <3>3, BothGo
  <2>2. TypeOK'
    BY <1>9, <2>1 DEF InitIpiFails
  <2>3. LoopInv'
    BY <1>9, <2>1 DEF InitIpiFails
  <2>4. ComingInv'
    BY <1>9, <2>1 DEF InitIpiFails
  <2>5. StackInv' /\ LowInv'
    BY <1>9, <2>1 DEF InitIpiFails
  <2>6. SmmInv' /\ ReportInv'
    BY <1>9, <2>1 DEF InitIpiFails
  <2> QED
    BY <2>1, <2>2, <2>3, <2>4, <2>5, <2>6 DEF LInv, BothAt
<1>10. CASE Sipi
  <2> DEFINE l == IF sipis + 1 = Starts THEN "wait" ELSE "sipi"
             q == IF cpu \in alive /\ pc[cpu] = "wait_sipi"
                  THEN IF cpu \in smi THEN "relocate" ELSE "low"
                  ELSE pc[cpu]
  <2>1. BothAt(l, q)
    <3>1. cpu \in APs /\ cpu # BSP /\ alive' = alive
      BY <1>10 DEF Sipi
    <3>2. l \in BspLabels /\ q \in ApLabels /\ (q # "wait_sipi" => cpu \in alive)
      BY <3>1 DEF LabelsOK, BspLabels, ApLabels
    <3>3. pc' = [pc EXCEPT ![BSP] = l, ![cpu] = q]
      BY <1>10, <3>1 DEF Sipi
    <3> HIDE DEF l, q
    <3> QED BY <3>1, <3>2, <3>3, BothGo
  <2>2. TypeOK'
    <3>1. sipis' \in 0 .. Starts /\ smi' \subseteq smi
      BY <1>10 DEF Sipi
    <3> HIDE DEF l, q
    <3> QED BY <1>10, <2>1, <3>1 DEF Sipi
  <2>3. LoopInv'
    BY <1>10, <2>1 DEF Sipi
  <2>4. ComingInv'
    BY <1>10, <2>1 DEF Sipi
  <2>5. StackInv' /\ LowInv'
    BY <1>10, <2>1 DEF Sipi
  <2>6. SmmInv' /\ ReportInv'
    BY <1>10, <2>1 DEF Sipi
  <2> QED
    BY <2>1, <2>2, <2>3, <2>4, <2>5, <2>6 DEF LInv, BothAt
<1>11. CASE SipiFails
  <2>1. BspAt("started")
    BY <1>11, BspGoes DEF SipiFails, BspLabels
  <2>2. TypeOK'
    BY <1>11, <2>1 DEF SipiFails
  <2>3. LoopInv' /\ ComingInv' /\ StackInv' /\ LowInv' /\ SmmInv' /\ ReportInv'
    BY <1>11, <2>1 DEF SipiFails
  <2> QED
    BY <2>1, <2>2, <2>3 DEF LInv, BspAt
<1>12. CASE CalledIn
  <2>1. BspAt("started")
    BY <1>12, BspGoes DEF CalledIn, BspLabels
  <2>2. TypeOK'
    BY <1>12, <2>1 DEF CalledIn
  <2>3. LoopInv' /\ ComingInv' /\ StackInv' /\ LowInv' /\ SmmInv' /\ ReportInv'
    BY <1>12, <2>1 DEF CalledIn
  <2> QED
    BY <2>1, <2>2, <2>3 DEF LInv, BspAt
<1>13. CASE WaitExpires
  <2>1. BspAt("started")
    BY <1>13, BspGoes DEF WaitExpires, BspLabels
  <2>2. TypeOK'
    BY <1>13, <2>1 DEF WaitExpires
  <2>3. LoopInv' /\ ComingInv' /\ StackInv' /\ LowInv' /\ SmmInv' /\ ReportInv'
    BY <1>13, <2>1 DEF WaitExpires
  <2> QED
    BY <2>1, <2>2, <2>3 DEF LInv, BspAt
<1>14. CASE Started
  <2>1. BspAt(caller)
    <3>1. caller \in {"cores", "others"}
      OBVIOUS
    <3>2. CASE caller = "cores"
      <4>1. BspAt("cores")
        BY <1>14, <3>2, BspGoes DEF Started, BspLabels
      <4> QED
        BY <3>2, <4>1
    <3>3. CASE caller = "others"
      <4>1. BspAt("others")
        BY <1>14, <3>3, BspGoes DEF Started, BspLabels
      <4> QED
        BY <3>3, <4>1
    <3> QED
      BY <3>1, <3>2, <3>3
  <2>2. TypeOK'
    BY <1>14, <2>1, SMTT(60) DEF Started
  <2>3. LoopInv'
    BY <1>14, <2>1 DEF Started
  <2>4. ComingInv'
    BY <1>14, <2>1 DEF Started
  <2>5. StackInv' /\ LowInv'
    BY <1>14, <2>1 DEF Started
  <2>6. SmmInv' /\ ReportInv'
    BY <1>14, <2>1 DEF Started
  <2> QED
    BY <2>1, <2>2, <2>3, <2>4, <2>5, <2>6 DEF LInv, BspAt
<1>15. CASE NextOther
  <2> DEFINE l == IF cpu > N THEN "wait_stop" ELSE IF enabled[cpu] THEN "enabled" ELSE "others"
  <2>1. BspAt(l)
    <3>1. l \in BspLabels /\ alive' = alive
      BY <1>15 DEF NextOther, BspLabels
    <3>2. Go(BSP, l)
      <4>1. pc' = pc => pc' = [pc EXCEPT ![BSP] = pc[BSP]]
        BY LapicAssumption DEF CPUs
      <4> QED BY <1>15, <4>1 DEF NextOther, Go
    <3> HIDE DEF l
    <3> QED BY <3>1, <3>2, BspGoes
  <2>2. TypeOK'
    <3>1. cpu' \in 0 .. N + 1
      BY <1>15 DEF NextOther
    <3> HIDE DEF l
    <3> QED BY <1>15, <2>1, <3>1 DEF NextOther
  <2>3. LoopInv'
    BY <1>15, <2>1 DEF NextOther
  <2>4. ComingInv'
    BY <1>15, <2>1 DEF NextOther
  <2>5. StackInv' /\ LowInv'
    BY <1>15, <2>1 DEF NextOther
  <2>6. SmmInv' /\ ReportInv'
    BY <1>15, <2>1 DEF NextOther
  <2> QED
    BY <2>1, <2>2, <2>3, <2>4, <2>5, <2>6 DEF LInv, BspAt
<1>16. CASE StartOther
  <2>1. BspAt(IF initialized[cpu] THEN "others" ELSE "start_cpu")
    BY <1>16, BspGoes DEF StartOther, BspLabels
  <2>2. TypeOK'
    BY <1>16, <2>1, SMTT(60) DEF StartOther
  <2>3. LoopInv'
    BY <1>16, <2>1, SMTT(60) DEF StartOther
  <2>4. ComingInv'
    BY <1>16, <2>1 DEF StartOther
  <2>5. StackInv' /\ LowInv'
    BY <1>16, <2>1 DEF StartOther
  <2>6. SmmInv' /\ ReportInv'
    BY <1>16, <2>1 DEF StartOther
  <2> QED
    BY <2>1, <2>2, <2>3, <2>4, <2>5, <2>6 DEF LInv, BspAt
<1>17. CASE WaitOtherCpusStop
  <2>1. BspAt("recover")
    BY <1>17, BspGoes DEF WaitOtherCpusStop, BspLabels
  <2>2. TypeOK'
    BY <1>17, <2>1 DEF WaitOtherCpusStop
  <2>3. LoopInv' /\ ComingInv' /\ StackInv' /\ LowInv' /\ SmmInv' /\ ReportInv'
    BY <1>17, <2>1 DEF WaitOtherCpusStop
  <2> QED
    BY <2>1, <2>2, <2>3 DEF LInv, BspAt
<1>18. CASE RecoverLowest1M
  <2>1. BspAt("done")
    BY <1>18, BspGoes DEF RecoverLowest1M, BspLabels
  <2>2. TypeOK'
    BY <1>18, <2>1 DEF RecoverLowest1M
  <2>3. LoopInv' /\ ComingInv' /\ StackInv' /\ LowInv' /\ SmmInv' /\ ReportInv'
    BY <1>18, <2>1 DEF RecoverLowest1M
  <2> QED
    BY <2>1, <2>2, <2>3 DEF LInv, BspAt
<1>19. CASE StartCpuOverrun
  <2>1. BspAt("overrun")
    BY <1>19, BspGoes DEF StartCpuOverrun, BspLabels
  <2>2. TypeOK'
    BY <1>19, <2>1 DEF StartCpuOverrun
  <2>3. caller = "others"
    BY <1>19 DEF StartCpuOverrun
  <2>4. LoopInv' /\ ComingInv' /\ StackInv' /\ LowInv' /\ SmmInv' /\ ReportInv'
    BY <1>19, <2>1, <2>3 DEF StartCpuOverrun
  <2> QED
    BY <2>1, <2>2, <2>4 DEF LInv, BspAt
<1> QED
  BY <1>1, <1>2, <1>3, <1>4, <1>5, <1>6, <1>7, <1>8, <1>9, <1>10, <1>11, <1>12, <1>13, <1>14,
     <1>15, <1>16, <1>17, <1>18, <1>19 DEF BspStep

\* After it has called in an AP works on its own stack, its own device and what the
\* lock protects.
LEMMA WorkOn ==
  ASSUME LInv, NEW c \in APs, NEW l \in OnStack \cup {"leave", "stopped"},
         pc[c] \in (OnStack \ {"call_in"}) \cup {"leave"}, l # "call_in",
         pc[c] = "leave" => l = "stopped", Go(c, l),
         UNCHANGED <<hwVars, startVars, stack, bspVars>>,
         start_cpu_lock' \in CPUs \cup {NoCpu}, active_cpus' \in Int,
         enabled' = enabled \/ (stack[c] # 0 /\ enabled' = [enabled EXCEPT ![c] = TRUE]),
         initialized' = initialized \/ initialized' = [initialized EXCEPT ![c] = TRUE]
  PROVE  LInv'
<1>1. ApAt(c, l)
  <2>1. l \in ApLabels /\ pc[c] # "wait_sipi" /\ alive' = alive
    BY DEF OnStack, ApLabels, hwVars
  <2> QED BY <2>1, ApGoes
<1> USE LapicAssumption
    DEF BSP, APs, CPUs, Stacks, NoCpu, Default, hwVars, startVars, devVars, bspVars,
        BspAt, BothAt, ApAt,
        LInv, TypeOK, LabelsOK, LoopInv, Before, Starting, Earlier, ComingInv,
        ComingLabels, Coming, StackInv, OnStack, LowInv, SmmInv, ReportInv
<1>2. enabled' \in [CPUs -> BOOLEAN] /\ initialized' \in [CPUs -> BOOLEAN]
  <2>1. enabled \in [CPUs -> BOOLEAN] /\ initialized \in [CPUs -> BOOLEAN]
    OBVIOUS
  <2> HIDE DEF LInv
  <2> QED BY <2>1
<1>3. TypeOK'
  BY <1>1, <1>2
<1>4. LoopInv' /\ ComingInv'
  BY <1>1
<1>5. StackInv' /\ LowInv' /\ SmmInv'
  BY <1>1, SMTT(60)
<1>6. ReportInv'
  <2>1. c \in alive
    BY DEF LabelsOK
  <2>2. ASSUME NEW d \in APs, enabled'[d]
        PROVE  \/ d \in alive' /\ stack'[d] # 0
               \/ d = cpu' /\ pc'[BSP] \in {"start_cpu", "overrun"}
    <3>1. CASE enabled' = enabled
      BY <1>1, <2>2, <3>1
    <3>2. CASE stack[c] # 0 /\ enabled' = [enabled EXCEPT ![c] = TRUE]
      <4>1. d = c \/ enabled[d]
        BY <2>2, <3>2
      <4> QED BY <1>1, <2>1, <3>2, <4>1
    <3> QED BY <3>1, <3>2
  <2> QED BY <2>2
<1> QED
  BY <1>1, <1>3, <1>4, <1>5, <1>6

LEMMA ApStepLInv == ASSUME Timely, LInv, NEW c \in APs, ApStep(c) PROVE LInv'
<1> USE DEF hwVars, startVars, devVars, bspVars, OnStack
<1>1. CASE Relocate(c)
  <2> USE LapicAssumption
      DEF BSP, APs, CPUs, Stacks, NoCpu, Default, hwVars, startVars, devVars, bspVars,
        BspAt, BothAt, ApAt,
          LInv, TypeOK, LabelsOK, LoopInv, Before, Starting, Earlier, ComingInv,
          ComingLabels, Coming, StackInv, OnStack, LowInv, SmmInv, ReportInv
  <2>1. ApAt(c, "low")
    BY <1>1, ApGoes DEF Relocate, ApLabels
  <2>2. TypeOK'
    BY <1>1, <2>1, SMTT(60) DEF Relocate
  <2>3. LoopInv'
    BY <1>1, <2>1 DEF Relocate
  <2>4. ComingInv'
    BY <1>1, <2>1 DEF Relocate
  <2>5. StackInv' /\ LowInv'
    BY <1>1, <2>1 DEF Relocate
  <2>6. SmmInv' /\ ReportInv'
    BY <1>1, <2>1 DEF Relocate
  <2> QED
    BY <2>1, <2>2, <2>3, <2>4, <2>5, <2>6 DEF LInv, ApAt
<1>2. CASE SecondaryStart(c)
  <2> USE LapicAssumption
      DEF BSP, APs, CPUs, Stacks, NoCpu, Default, hwVars, startVars, devVars, bspVars,
        BspAt, BothAt, ApAt,
          LInv, TypeOK, LabelsOK, LoopInv, Before, Starting, Earlier, ComingInv,
          ComingLabels, Coming, StackInv, OnStack, LowInv, SmmInv, ReportInv
  <2>1. ApAt(c, "stack")
    BY <1>2, ApGoes DEF SecondaryStart, ApLabels
  <2>2. TypeOK'
    BY <1>2, <2>1 DEF SecondaryStart
  <2>3. LoopInv'
    BY <1>2, <2>1 DEF SecondaryStart
  <2>4. ComingInv'
    BY <1>2, <2>1 DEF SecondaryStart
  <2>5. StackInv' /\ LowInv'
    BY <1>2, <2>1 DEF SecondaryStart
  <2>6. SmmInv' /\ ReportInv'
    BY <1>2, <2>1 DEF SecondaryStart
  <2> QED
    BY <2>1, <2>2, <2>3, <2>4, <2>5, <2>6 DEF LInv, ApAt
<1>3. CASE TakeStack(c)
  <2> USE LapicAssumption
      DEF BSP, APs, CPUs, Stacks, NoCpu, Default, hwVars, startVars, devVars, bspVars,
        BspAt, BothAt, ApAt,
          LInv, TypeOK, LabelsOK, LoopInv, Before, Starting, Earlier, ComingInv,
          ComingLabels, Coming, StackInv, OnStack, LowInv, SmmInv, ReportInv
  <2>1. ApAt(c, "call_in")
    BY <1>3, ApGoes DEF TakeStack, ApLabels
  <2>2. TypeOK'
    BY <1>3, <2>1, SMTT(60) DEF TakeStack
  <2>3. LoopInv'
    BY <1>3, <2>1 DEF TakeStack
  <2>4. ComingInv'
    BY <1>3, <2>1 DEF TakeStack
  <2>5. StackInv' /\ LowInv'
    BY <1>3, <2>1 DEF TakeStack
  <2>6. SmmInv' /\ ReportInv'
    BY <1>3, <2>1, SMTT(60) DEF TakeStack
  <2> QED
    BY <2>1, <2>2, <2>3, <2>4, <2>5, <2>6 DEF LInv, ApAt
<1>4. CASE CallIn(c)
  <2> USE LapicAssumption
      DEF BSP, APs, CPUs, Stacks, NoCpu, Default, hwVars, startVars, devVars, bspVars,
        BspAt, BothAt, ApAt,
          LInv, TypeOK, LabelsOK, LoopInv, Before, Starting, Earlier, ComingInv,
          ComingLabels, Coming, StackInv, OnStack, LowInv, SmmInv, ReportInv
  <2>1. ApAt(c, "count")
    BY <1>4, ApGoes DEF CallIn, ApLabels
  <2>2. TypeOK'
    BY <1>4, <2>1 DEF CallIn
  <2>3. LoopInv'
    BY <1>4, <2>1 DEF CallIn
  <2>4. ComingInv'
    BY <1>4, <2>1 DEF CallIn
  <2>5. StackInv' /\ LowInv'
    BY <1>4, <2>1 DEF CallIn
  <2>6. SmmInv' /\ ReportInv'
    BY <1>4, <2>1 DEF CallIn
  <2> QED
    BY <2>1, <2>2, <2>3, <2>4, <2>5, <2>6 DEF LInv, ApAt
<1>5. CASE CountActive(c)
  <2>1. start_cpu_lock \in CPUs \cup {NoCpu} /\ active_cpus \in Int /\ c \in CPUs
    BY DEF LInv, TypeOK, APs, CPUs
  <2> QED BY <1>5, <2>1, WorkOn DEF CountActive
<1>6. CASE LockStart(c)
  <2>1. start_cpu_lock \in CPUs \cup {NoCpu} /\ active_cpus \in Int /\ c \in CPUs
    BY DEF LInv, TypeOK, APs, CPUs
  <2> QED BY <1>6, <2>1, WorkOn DEF LockStart
<1>7. CASE Initialized(c)
  <2>1. /\ info[stack[c]] = c /\ stack[c] # 0
        /\ start_cpu_lock \in CPUs \cup {NoCpu} /\ active_cpus \in Int
    BY <1>7 DEF Initialized, LInv, StackInv, TypeOK
  <2> QED BY <1>7, <2>1, WorkOn DEF Initialized
<1>8. CASE DriverInit(c)
  <2>1. start_cpu_lock \in CPUs \cup {NoCpu} /\ active_cpus \in Int /\ c \in CPUs
    BY DEF LInv, TypeOK, APs, CPUs
  <2> QED BY <1>8, <2>1, WorkOn DEF DriverInit
<1>9. CASE UnlockStart(c)
  <2>1. start_cpu_lock \in CPUs \cup {NoCpu} /\ active_cpus \in Int /\ c \in CPUs
    BY DEF LInv, TypeOK, APs, CPUs
  <2> QED BY <1>9, <2>1, WorkOn DEF UnlockStart
<1>10. CASE Leave(c)
  <2>1. start_cpu_lock \in CPUs \cup {NoCpu} /\ active_cpus \in Int /\ c \in CPUs
    BY DEF LInv, TypeOK, APs, CPUs
  <2> QED BY <1>10, <2>1, WorkOn DEF Leave
<1>11. CASE Initialize(c)
  <2>1. /\ info[stack[c]] = c /\ stack[c] # 0
        /\ start_cpu_lock \in CPUs \cup {NoCpu} /\ active_cpus \in Int
    BY <1>11 DEF Initialize, LInv, StackInv, TypeOK
  <2> QED BY <1>11, <2>1, WorkOn DEF Initialize
<1> QED
  BY <1>1, <1>2, <1>3, <1>4, <1>5, <1>6, <1>7, <1>8, <1>9, <1>10, <1>11 DEF ApStep

LEMMA StepLInv == ASSUME Timely PROVE LInv /\ [Next]_vars => LInv'
<1> SUFFICES ASSUME LInv, [Next]_vars PROVE LInv'
  OBVIOUS
<1>1. CASE UNCHANGED vars
  BY <1>1 DEF vars, hwVars, startVars, devVars, bspVars, LInv, TypeOK, LabelsOK, LoopInv, Earlier,
              ComingInv, StackInv, LowInv, SmmInv, ReportInv
<1> QED
  BY <1>1, BspStepLInv, ApStepLInv DEF Next, Spin

\* The invariant, for all the theorems below.
LEMMA LInvHolds == ASSUME Timely PROVE Spec => []LInv
BY InitLInv, StepLInv, PTL DEF Spec

\* An AP works on a stack of its own and initializes its own device, although it
\* picks up both from variables that the boot processor reuses for the next one; and
\* the CONFIG_MAX_CPUS stacks last until an AP is started a second time.
THEOREM OwnStackHeld == ASSUME Timely PROVE Spec => []OwnStack
<1>1. LInv => OwnStack
  <2> SUFFICES ASSUME LInv PROVE OwnStack
    OBVIOUS
  <2>1. /\ TypeOK
        /\ pc[BSP] = "overrun" => caller = "others"
        /\ \A c \in APs : pc[c] \in OnStack => info[stack[c]] = c
    BY DEF LInv, StackInv, LoopInv
  <2>2. ASSUME NEW c \in APs, NEW d \in APs, pc[c] \in OnStack, pc[d] \in OnStack, stack[c] = stack[d]
        PROVE  c = d
    BY <2>1, <2>2
  <2> QED BY <2>1, <2>2 DEF OwnStack
<1> QED
  BY <1>1, LInvHolds, PTL

\* The relocations of SMM follow one another although no lock orders them, and no AP
\* leaves the default SMM base out.
THEOREM SmmRelocatedHeld == ASSUME Timely PROVE Spec => []SmmRelocated
<1>1. LInv => RelocationSerial
  <2> SUFFICES ASSUME LInv, NEW c \in CPUs, NEW d \in CPUs, pc[c] = "relocate", pc[d] = "relocate"
               PROVE  c = d
    BY DEF RelocationSerial
  <2>1. \A a \in APs : pc[a] = "relocate" => a = cpu /\ pc[BSP] \in {"sipi", "wait"}
    BY DEF LInv, ComingInv, ComingLabels
  <2>2. \A a \in CPUs : a = BSP \/ a \in APs
    BY LapicAssumption DEF CPUs, APs, BSP
  <2> QED BY <2>1, <2>2
<1>2. LInv => RelocatedFirst
  <2> SUFFICES ASSUME LInv, smbase[BSP] # Default, NEW c \in APs,
                      pc[c] \in OnStack \cup {"low", "stack", "leave", "stopped"}
               PROVE  smbase[c] = c
    BY DEF RelocatedFirst
  <2>1. pc[c] # "wait_sipi" /\ pc[c] # "relocate"
    BY DEF OnStack
  <2> QED BY <2>1 DEF LInv, LabelsOK, SmmInv
<1> QED
  BY <1>1, <1>2, LInvHolds, PTL DEF SmmRelocated

\* No AP executes in low memory that is not its start code, and the operating
\* system finds its memory again after a wake-up.
THEOREM LowMemoryHeld == ASSUME Timely PROVE Spec => []LowMemorySafe
<1>1. LInv => LowMemorySafe
  <2> SUFFICES ASSUME LInv PROVE LowMemorySafe
    OBVIOUS
  <2>1. \A c \in APs : pc[c] = "low" => low = "start"
    BY DEF LInv, ComingInv, ComingLabels, LowInv
  <2> QED BY <2>1 DEF LInv, LowInv, LowMemorySafe
<1> QED
  BY <1>1, LInvHolds, PTL

\* A processor that did not start is not reported.
THEOREM OnlyStarted == ASSUME Timely PROVE Spec => []OnlyStartedReported
<1>1. LInv => OnlyStartedReported
  BY DEF LInv, ReportInv, OnlyStartedReported
<1> QED
  BY <1>1, LInvHolds, PTL
=============================================================================
