# A TLA+ verification project for coreboot

coreboot is the firmware that takes an x86 board (here in particular the
Supermicro X9SPU-F, the work-in-progress port this repository is about) from
reset to the payload or back into a sleeping operating system. This directory
models the parts of it whose correctness depends on order: what runs after what,
what survives a reset, which processor may touch which memory when. The models
are written from the C and assembler sources; every definition names its lines
in `PROJECT.json` under `map`.

## 1. The system

A boot runs in stages. The bootblock and **romstage** run from flash with no
writable data, train the memory or take the timings from the **MRC cache**, create
**CBMEM**, a directory of memory regions just below `cbmem_top()`, and load
**ramstage**, or on a wake-up put back the copy of it in the **stage cache**. ramstage
recovers CBMEM, walks the **boot state machine** (device enumeration, resource
allocation, tables, payload) with **threads** and **timers**, starts the other
processors (**sequentially** on this board, **in parallel** on others), gives all of them
the same **memory types**, and leaves the **SMI handler** behind the operating system. Data
that must survive a power cycle is appended to flash (**region files**, MRC cache). After
a suspend to RAM (S3) the same stages run, but must leave the memory of the
operating system alone.

| Component | State | Operations | Interacts with | What is hard |
|---|---|---|---|---|
| boot state machine, `lib/hardwaremain.c` | current phase, callbacks and blockers per phase, completed states | walk, schedule callback, block, unblock | threads, timers, drivers | calls for a phase that is being run; polling for ever |
| cooperative threads, `lib/thread.c` | runnable list, free pool, flags | run, run until, yield, cooperate, idle loop | state machine, timer queue | a thread on two lists or on none; stale phase |
| timer queue, `lib/timer_queue.c` | heap of callbacks | schedule, run due callbacks | threads, state machine | heap order; full queue; sums that wrap |
| region file, `lib/region_file.c` | handle; metadata and data in flash | init, update, read | SPI flash | power failure and I/O error between any two flash accesses; limits of block addressing |
| MRC cache, `northbridge/intel/common/mrc_cache.c` | chain of containers in flash | find, append, erase | raminit, SPI flash, CBMEM | power failure in an erase or a write; resume with other timings |
| directory, `lib/imd.c` | two roots with entries growing downwards | create, recover, add, find, remove, lock | CBMEM | full roots, alignment, regions in regions |
| CBMEM, `lib/imd_cbmem.c` | the directory, a handle in ramstage | initialize, recover, add, find, remove | romstage, ramstage, S3 | no variables in romstage; two stages must agree |
| stage cache and loader, `lib/prog_loaders.c`, `cbmem_stage_cache.c`, `romstage_handoff.c` | handoff, metadata, image and copy in CBMEM | hand off, load, cache, run | CBMEM, S3 | an image that has run; a flag that survives; no room |
| MP init, `cpu/x86/mp_init.c`, `sipi_vector.S` | flight plan with barriers, default SMM area, relocation lock, callback slots | start APs, walk plan, relocate SMM, give work | SMM loader, microcode, S3 | true concurrency; every wait may time out and the other side come late |
| sequential start, `cpu/x86/lapic/lapic_cpu_init.c` | stack and index of the AP being started, device flags, count of active CPUs | start, call in, initialize, stop | SMM relocation, low memory | one set of variables for all APs; no lock around the relocation |
| SMI handler, `cpu/x86/smm/smm_module_handler.c`, `bd82x6x/smihandler.c` | lock, status bits, EOS, PCI address | enter, lock, dispatch, release | operating system, chipset | all processors enter at any time; new SMIs meanwhile |
| memory types, `cpu/x86/mtrr/mtrr.c`; ranges, `lib/memrange.c` | list of ranges, solution, registers | collect, count, prepare, commit, temporary range | resources, all processors | scarce registers; rounding over neighbours; marks that stay |

Not modelled: see section 9.

What makes each component correct:

* *State machine, threads, timers*: a thread that blocks a phase holds it until the
  thread ends; no blocker is lost; every thread is in exactly one place; the boot
  ends. A timer is called once, in order, not early, and in the end.
* *Region file, MRC cache*: the data of an update that was reported written is what
  is read back, after any resets; an update that did not finish never brings older
  data back; nothing written is written over; updates end.
* *Directory, CBMEM, loader*: no memory handed out twice; one entry per id; what one
  stage leaves the next recovers; nothing changes on a wake-up; ramstage is always run
  as it was built; neither stage takes a cold boot for a wake-up or a wake-up for a cold
  boot.
* *Processor start*: one processor at a time in the relocation handler; code is not
  overwritten while it is executed; every AP has its own stack; success means all;
  nobody waits for ever (in the sequential start, unless an AP is started twice:
  section 8).
* *SMI handler*: one processor handles, those that find the lock taken stay until it is
  released; the PCI address is put back; no SMI is lost.
* *Memory types*: memory is cached, devices are not, on all processors alike.

The list `hazards` in `PROJECT.json` names the lines at which these can go wrong.

## 2. Plan

Modelled and checked: all modules below. Proved: what section 7 lists, that is, the
safety properties of nine of the ten models. Left, in order of importance:

1. `Mtrr`: `SameEverywhere`, the one invariant of the module that does not depend on
   what the recursive calculation computes; then `RangesExact`, which needs a theory of
   the lists of `MemRange`.
2. `MrcCache`: words that are programmed in part, with the walk along the chain one step
   per entry, so that its end becomes a property.
3. The components of section 9 that are lists and pools (`mem_pool.c`).

## 3. The modules and the code

**BootThreads** (`MCBootThreads`, `BootThreadsProofs`). One CPU; control moves only
in `schedule()`, so a step is the code between two points at which driver code
may call this interface. That driver code (callbacks, `run_state()` functions,
thread bodies) is the environment: it may make any call in any order. `runnable`
is the LIFO list of `thread.c`, `current` the thread on the CPU, `sleeping` the
threads in the timer queue, `free` the pool. `held` and `owns` record who blocked
which phase. Time is abstract: any sleeping thread may be the next to expire.

**TimerQueue** (`TimerSet`, `TimerQueueProofs`). The array of `timer_queue.c`, one step per iteration of
its loops, with longs that wrap. That is an assumption: the sum in
`mono_time_add_usecs()` is signed, its overflow is undefined in C, and the build uses `-Os`
without `-fwrapv`. The check for an overflow in `timer_sched_callback()` rests on it; a
compiler that drops the check makes a delay near `LONG_MAX` one that is over. `TimerSet` is the promise: a set from which the
callback that is due first is taken when its time has come. Callers never schedule a
callback that is already queued, as the callers in the tree do not.

**RegionFile** (`DataRegister`, `RegionFileProofs`). The flash is an array of words; programming only
clears bits, erasing goes sector by sector as `spi_flash_cmd_erase()` does. Each
flash access is one step; between two of them the power may fail, and an access
may report an error whether or not it took effect. The binary search of
`find_latest_mb()` is a recursive function of its two bounds. A data block of update *v* holds
*v* in all words. `DataRegister` says what the user is promised: a register that
may lose its contents during an update, never returns to older ones, and holds
the data once the update has returned 0.

**MrcCache** (`MCMrcCache`, `MrcCacheProofs`). A cell of flash is the set of the words programmed into
it since it was erased, so that a cell programmed twice reads as none of them. The
readers in raminit (cold boot: with a comparison of the memory modules; wake-up:
without), the training, `save` to CBMEM, and the writer with its erase loop. Power may
fail between any two cells; probing, erasing and writing may fail, and CBMEM may have no
room for the result of a training, which is then not stored. `booted`, `fault`,
`dirty` and `wrote` are history. Assumed: there is an `mrc.cache` region, it is
a whole number of blocks, the checksum is injective, and a word is programmed whole or
not at all. With the size of an entry still erased the code sums up 0xffffffff bytes,
all of the address space: that is taken to end, with a sum other than the stored one.

**Imd**, **Cbmem** (`MCCbmem`, `CbmemProofs`). `Imd` has the functions of `imd.c` on
one root as operators from roots to roots. `Cbmem` keeps the two roots in `mem`
and adds the stages: romstage finds the roots anew at every call without checking
(`PartialRecovery`), ramstage keeps what `imd_recover()` found. A machine may sleep,
lose its memory while asleep, wake up, or be reset at any time. `saved` records
the directory at the time of the suspend. Addresses do not wrap: the size that is
left in an unlimited root is the constant `SIZE_MAX`.

**StageCache** (`MCStageCache`, `CbmemProofs`) extends `Cbmem`: each of its steps is
one step of `Cbmem` on four ids of its own, or none. `image` and `cache` say whether
the memory of an entry holds ramstage as built, as it is after a run, or neither.
Other users add and remove entries at any time, so every addition may find no room. The
handoff is read by romstage, which looks for the roots anew, and by ramstage
(`acpi_get_sleep_type()`), which uses the handle it has recovered.

**MpInit** (`MCMpInit`, `MpInitProofs`). Every processor has a program counter; `rec` is its index
in `mp_steps[]`. Steps are the accesses to shared state: taking a CPU number, the
microcode lock, `cpus_entered`, barriers, the relocation lock, the SMI, the callback
slots (read, clear, run are three steps). `global_num_aps`, the number of APs that
`run_ap_work()` waits for, is 0 until `mp_init()` gets to start them. `area` is what lies in the default SMM
area, which serves as SIPI code, then as relocation handler, and is restored at
the end of a wake-up; a processor that runs into it when its code is gone is
lost. Every wait of the boot processor may end by timeout at any moment, and so
may the wait for the interrupt command register before the relocation SMI. It is
assumed that an SMI sent to self is taken at once.

**LapicStart** (`LapicStartProofs`). The start that the X9SPU-F uses (`PARALLEL_MP` is not selected for it).
One step per access to a shared variable: the boot processor publishes a stack, the
AP takes it and clears `secondary_stack`; the SMI that was queued before is served
before the first instruction. Any AP may be dead, and interrupts may fail. Every start
takes the next of `MAX_CPUS` stacks; what follows a start with none left is undefined,
and the model ends there (`StartCpuOverrun`). With
`Timely`, an AP that got its SIPI calls in within the second that the boot processor
waits, and the local APIC reports an error in sending or accepting an interrupt only
for an AP that does not come: after an error `start_cpu()` goes on to the next AP without
waiting that second. Section 8 says what happens without.

**SmiHandler** (`MCSmiHandler`, `SmiHandlerProofs`). The southbridge asserts SMI# to all
processors, each enters when it comes to it. The lock, the copy of the PCI address,
reading and clearing the status (two steps), the sub handlers as one step, the release
and the EOS bit. The operating system writes the PCI address and asks for sleep on any
processor outside of SMM. A sleep request other than S1 halts the machine. `os_cf8` and
`touched` are history.

**MemRange**, **Mtrr** (`MCMtrr`). `MemRange` has the functions of `memrange.c` on a
sequence of entries. `Mtrr` collects resources one insertion at a time, works out a
solution as `calc_var_mtrrs()` and `prepare_var_mtrrs()` do (default type, holes, write
combining given up), writes it to every processor, and has the temporary range of the
boot processor. Addresses are 64 pages; a register is a base, a size and a type.
`ResourceAssumption` says what chipsets do: memory starts at address 0, no resource
crosses 4 GiB, and boundaries below 1 MiB are aligned to the fixed ranges there.
Nothing in `mtrr.c` checks the last: with another boundary the loop
`while (begin != end)` of `calc_fixed_mtrrs()` steps over its end and leaves its tables.

## 4. Runs

| Run | Shows | Bounds |
|---|---|---|
| `boot_threads` | thread places, runnable list, blocker accounting, phases held; the boot ends | 2 workers + idle + main, 2 timers, 1 callback, 4 calls from the states around the resume check |
| `timer_heap` | the array is a heap; earliest first, none early, each in the end | 5 callbacks, 4 slots, times up to 2 = LONG_MAX |
| `region_crash` | handle inside the region and equal to the flash, latest data, write once, refinement of `DataRegister`, updates end | 16 blocks with 4-bit offsets (the limit of block addressing), sizes 1, 4, 6 and the documented maximum 13, 4 updates, 2 faults, one sector |
| `region_sectors` | **violated**: latest data with two sectors | 6 blocks in 2 sectors, 5 updates |
| `mrc_power` | the chain is sound, the timings fit, no rollback, updates end | region of 12 cells: 3 blocks of 4 cells, 6 sectors; 2 sets of modules |
| `cbmem_safety` | no overlap, recoverable, unique ids, wake-up intact | 6 ids, sizes 1, 4, 9 (smaller than, larger than a small alignment, larger than a large one); roots of 6 entries |
| `stage_resume` | pristine ramstage, no false resume, no resume missed | the 4 ids of the loader and 5 others, same sizes; a small root of 2 entries and a large one of 6 |
| `mp_work` | types, SMM area safe, success means all, work accepted, nobody stuck | 2 APs, 3 calls |
| `lapic_start` | relocated one at a time and before running, own stacks, only started APs reported, low memory safe, the boot processor gets through or has started an AP twice | 3 APs, 2 SIPIs, 5 stacks |
| `smi_lock` | exclusion, those that found the lock taken held, PCI address, every SMI handled | 2 processors, 2 sources and sleep, 2 addresses |
| `mtrr_types` | list exact, types as wanted, count = use, same on all | 64 pages, 6 MTRRs of which 2 for the OS, 2 uncacheable resources, 2 processors |
| `mtrr_marks` | **violated**: as many MTRRs as were counted | the same |

Why the bounds are enough: with two workers one can sleep while the other runs and
a third call finds the pool empty, and four calls suffice to block, start, yield
and unblock in any order. Four slots give the heap three levels, so that an entry
moves over two of them both ways, and a fifth callback meets a full queue. Four
updates of those sizes fill the metadata and the data area and force an emptying, and
two faults allow one during the emptying and one during the update after it. Three
blocks are a first, a middle and a last entry of the chain. Two APs are enough for
two to compete for a lock or a barrier while the boot processor gives up; three calls
let a late AP meet the next call and the one after. Three APs in the sequential start
are one that is done, one that is late and one that is being started; of five stacks one
is left for a second start of an AP, and the one after that goes too far. In the stage
cache run each of the loader's entries lands in either root or in none, and a wake-up
is met with any of them missing. With six ids the
small root fills up (it has room for six entries, one of them its own) and the large
root has to take over. Two uncacheable resources and six registers make each of the
three ways of covering the address space the best one for some machine. Ids are
interchangeable, so the symmetry of the CBMEM runs is sound; runs that check liveness
use none.

Deadlock checking is off in `timer_heap` only: time and callbacks are bounded there, so
the model comes to an end. Where a component really ends, its module has an explicit
step for it, and processors that wait have the step of reading again.

Types: `TypeOK` of `BootThreads`, `Cbmem`, `StageCache`, `SmiHandler` and `MpInit` is
proved (section 7). `OwnStack`, `HeapSound`, `RegionSound` and `CacheSound`, whose first
conjunct it is in `LapicStart`, `TimerQueue`, `RegionFile` and `MrcCache`, are proved
too. In `Mtrr` it is checked by the run as the first conjunct of `CachedAsWanted`. The inductive invariants of section 7 were invariants of the same
runs before they were proved.

## 5. Fairness

* `BootThreads`: weak fairness of the steps the code takes by itself and of the
  returns of driver code. There is one CPU that never stops; driver code returns,
  delays expire. Nothing is assumed about the calls.
* `RegionFile`, `MrcCache`: weak fairness of the steps inside an update: the firmware
  keeps running unless the power fails, which is not fair.
* `TimerQueue`: weak fairness of the loops, of the removal of a due callback (the idle
  thread and the state machine keep calling `timers_run()`) and of time.
* `MpInit`, `LapicStart`: weak fairness of each processor. The timeouts of the boot
  processor count time with `udelay()` and a stopwatch, so a wait ends.
* `SmiHandler`: weak fairness of each processor in SMM and of SMI#, which is a level
  that the southbridge holds. Nothing is assumed of the operating system.

## 6. Refinement

* `RegionFile` implements `DataRegister` (`ImplementsRegister`), by TLC and by proof: the
  value is what a reset would find in the flash.
* `TimerQueue` implements `TimerSet` (`KeepsPromise`): the pending callbacks are those in
  the used part of the array, and each is called in the end. The first half is proved.

`StageCache` is a composition and not a refinement: each of its actions is an action of
`Cbmem` with more conjuncts, or leaves CBMEM alone, so that what holds of `Cbmem` holds of
it by the way it is written (`UsesCbmem`).

## 7. What is proved

The theorems hold for every value of the constants that satisfies the named
assumptions in the modules. TLC evaluates those assumptions in every run. Where a
theorem needs more, it is a hypothesis of the theorem and named below.

**Boot state machine and threads**, `BootThreadsProofs`.

* `TypeCorrect`, `RunnableList`: types and `RunnableNeverEmpty`, that is, the `die()`
  in `schedule()` is unreachable. `RunnableNeverEmpty` alone is not inductive: a pop
  could uncover the idle thread in the middle of the list, and the idle thread could
  yield. The invariant adds that the idle thread is nowhere but at the end
  (`IdleOnlyLast`) and which threads can be at which label (`PcKinds`).
* `OnePlaceEach`: `ThreadPlaces`. `Places` says the same with "is on the list" as a
  predicate and adds that no thread is on it twice; there is one lemma for each
  operation on the list.
* `BlockersCounted`, `PhaseHeld`: `BlockerAccounting` and `ThreadHoldsPhase`. The
  invariant `BInv` compares each counter with the set of its holders, says
  where the wrapper of a thread that holds a phase can be, and that the walk only goes
  forward, so that a phase that is held is never one that is over.

**Region file**, `RegionFileProofs`.

* `RegionFileSound`, `RegionWriteOnce`, `RegionIsRegister`: `RegionSound`, `WriteOnce` and
  `ImplementsRegister`, for any number of blocks, words per block, update sizes, updates
  and faults. None of them is inductive: what `region_file_init()` finds depends on all
  metadata words, and what an update leaves behind on where it was interrupted. The
  invariant `RInv` says that outside of an erase the region is either erased or a *log*
  (`Log(s)`): the words up to *s* are block offsets that increase, the words and
  blocks behind are erased; that the handle is the one that belongs to *s* (`HandleInv`);
  how far the data of the update in progress is written (`DataInv`); and that the data of an
  update that returned 0 is the last of the log (`DoneInv`). That
  `find_latest_mb()` finds *s* in any log is proved for its bounds by the smallest
  interval that could contradict it.
* Two hypotheses. `NoEmptyUpdate`: an update has data (one with none appends an empty
  range, which the next `region_file_init()` takes for corruption; no caller makes one).
  `WholeErase`: an erase that has begun ends; each theorem is stated for behaviours with
  that property, and once more without it for a region of one sector. The run
  `region_sectors` shows that several sectors and a power failure between them do break
  the property, so the hypothesis cannot be dropped. It is an assumption on when the power
  fails, not on the code.

**MRC cache**, `MrcCacheProofs`.

* `MrcCacheSound`, `MrcRightTimings`, `MrcNoRollback`: `CacheSound`, `RightTimings` and the
  action property `NoRollback`, for any number of modules, timings and boots and a region,
  containers, alignments and sectors of any size. The invariant `MInv` adds to them that
  signatures are at the start of blocks only (`Aligned`: the walk along the chain rounds
  an erased size up to one alignment unit, and could otherwise land on data), that the
  region behind a current entry is erased (`FreeBehind`), what an erase has erased so far
  (`EraseInv`), and that a container that is being written is the last of the chain and
  has nothing behind it (`Writing`). The lemmas follow the chain before and after a
  change of the flash: the signature word adds one entry at its end (`FirstWord`), the
  other words leave it as it is (`LaterWord`), an erase that is cut short ends it or keeps
  it (`PartlyErased`), and an incomplete container is not read (`IncompleteFree`).
* The hypothesis `SmallSectors`: an erase sector is no larger than a block. That is so for
  the chips with sectors of 4 KiB, which is `MRC_DATA_ALIGN`. It cannot be dropped: with a
  sector over several blocks (64 KiB in some of the drivers), TLC finds that a power failure
  in an erase can remove the signature of a later entry and leave an earlier one, which is
  then found again (`NoRollback`), with a region behind it that is not erased
  (`CacheSound`); set `Sector = 12` in `MrcCache_power.cfg` to see it.

**Directory, CBMEM, loader**, `CbmemProofs`.

* `TypeCorrect`, `NoOverlap`: types with the room of both roots, and
  `RangesDisjoint`. That a new entry is free depends on the order of *all* offsets
  of its root, on the limit of the small root, and on the large root's second entry
  being the small region; what a wake-up finds must have been in order when the
  machine went to sleep. `RootOK`, `LargeOK` and `SmallOK` say so, and there is one
  lemma per operation on a root (`AddRoot`, `RemoveRoot`, `CreateRoot`, ...).
* `ResumeKeepsDirectory`: `ResumeIntact`, from the invariant that on a
  wake-up both roots are locked and equal to what was saved (`SleepInv`). It rests
  on the lemma that recovery always finds the small root, or it would not be locked.
  Additions and removals need no case of their own: they are refused.
* `IdsOnce`: `IdsUnique`. An addition first looks for the id, in both roots; the
  invariant `UniqueInv` adds that ramstage has found both roots or none, or the search
  would miss one.
* `StagesRecover`: `Recoverable`. `imdr_recover()` refuses a root with an entry outside of
  memory, and the large root has no limit that would keep an addition inside. So there
  is a hypothesis, `FitsBelowTop(M)`: no entry takes more than M bytes, and there is
  room below `cbmem_top()` for as many such entries as the root has slots (some 250 slots:
  true of any machine with some memory). `RecOK` bounds the offset of entry *i* by
  *i* - 1 times M. The alignments of the code are used as they are there, all 4096
  (`CbmemAssumption`).
* `StageRangesDisjoint`, from `NoOverlap`, and `StageTypeCorrect`: with the loader at work.
* `ColdBootIsCold`: `NoFalseResume`, because from the hand-off on, and through all of
  ramstage, the flag in CBMEM, if there is one, is that of this boot (`HandoffInv`).
* `WakeUpIsSeen`: `ResumeSeen`. Beyond `HandoffInv` it needs that both stages find the entry
  in whichever root it is: romstage because the large root always has the entry of the
  small one, ramstage because `imd_recover()` succeeded on both (`BothRoots`), which is
  `Recoverable` and brings in the hypothesis `FitsBelowTop(M)`.
* `AlwaysPristine`: `RunsPristine`. The three entries of the loader appear in one order,
  and the metadata and the copy stay true while the image is run and loaded over
  (`CacheInv`). It needs that additions and removals leave the place of all other ids
  (`OneAdded`, `OthersKept`), which in turn needs `IdsOnce`.

**Timers**, `TimerQueueProofs`.

* `HeapStaysSound`: `HeapSound`, for any number of slots. In the middle of an insertion
  or a removal the order fails at the entry that is moving (`InsertInv`, `RemoveInv`);
  that what is below that entry is due no earlier than what is above it (`BelowAbove`)
  makes each swap mend the one without breaking the other.
* `ImplementsPromise`: every step is a step of `TimerSet` or leaves its variables alone;
  that the first slot is the one due first follows from the order of the heap, by the
  smallest index that could contradict it.

**Start of the processors**, `MpInitProofs` and `LapicStartProofs`.

* `TypesHeld`: types, for any number of APs and calls, with `ap_count` and `cpus_entered`
  at most the number of APs. These counters are equal to the number of APs that are in
  (or past) a record, which needs to know where each processor can be (`ControlInv`,
  `CountInv`).
* `AreaSafe`, `SuccessHeld`, `WorkHeld`: `SmmAreaSafe`, `SuccessMeansAll`,
  `WorkAccepted`. As long as no wait has timed out, a boot processor that is past a
  record that it waits at has all APs there (`PassedInv`); what is in the default SMM
  area follows from where the boot processor is (`AreaInv`). For the calls, a slot that
  is not empty holds the newest call, later than all the AP has run (`OrderInv`), and
  an empty slot means that the newest was accepted or cleared together with an older one
  since which all calls have expired (`SlotsInv`). The hypothesis `Counted` of the first
  two: `get_cpu_count()` misses no processor. With an AP too many the boot processor would
  go on before it is there. `WorkHeld` needs no hypothesis; it says nothing of calls made
  while `global_num_aps` is too small (section 8).
* `OwnStackHeld`, `SmmRelocatedHeld`, `LowMemoryHeld`, `OnlyStarted`: the four safety
  invariants of `LapicStart`, for any number of APs, SIPIs and stacks, under the hypothesis
  `Timely` (see section 8 for what happens without it). The two loops start an AP at
  most once (`LoopInv`); only the one that is being started is on its way, and the stack
  it will take is still published (`ComingInv`).

**SMI handler**, `SmiHandlerProofs`.

* `LockWorks`: `HandlerExclusive` and types, for any number of
  processors. Types need to know when `pci_orig` holds an address, which is from the
  backup on (`OrigInv`). `AddressRestored` adds where the address of the operating
  system is at each label (`PciInv`). `OthersHeld` is the action property
  `HeldUntilDone`: a processor leaves the wait only when the lock is free, and by
  `HandlerExclusive` nobody is in the handler then. The processor that had the lock is
  exempt (section 8).

Only model-checked:

* liveness (`BootFinishes`, `UpdateEnds`, `NobodyStuck`, `BspFinishes`, `SmiHandled`, the
  second half of `KeepsPromise`): the prover has no fairness and no `ENABLED`;
* `RangesExact`, `CachedAsWanted`, `CountedRight`: they are about what folds over lists and
  the recursive functions of `MemRange` and `Mtrr` compute, and about sums over those
  lists, which needs an induction over data that the provers cannot instantiate;
* `SameEverywhere` (see section 2).

The recursive functions of `RegionFile`, `MrcCache` and `TimerQueue` are within reach
because they recur over numbers: that such a function exists and what it returns is
shown by the smallest argument that could contradict it (`SmallestOf`, from the library's
theorem that < is well-founded on the naturals), which needs no induction rule with a
predicate as its parameter.

## 8. Where the code and its documentation disagree

Shown by runs:

1. `region_sectors`: a power failure between two sector erases makes the region look
   empty while part of it is not; the next updates are written over old contents
   and still return 0.
2. `mtrr_marks`: when write combining is given up the ranges are counted anew and the
   marks of the first time remain, so that more MTRRs are used than were counted.

Stated in the modules with the line they quote, in no run, and violated when added to
the cfg of the module as an `INVARIANT`:

3. `BootThreads!AcceptedCallbacksRun`: `boot_state_sched_on_entry()` accepts a callback
   for the state that is being run, whose entry callbacks are over; it is never called.
4. `Cbmem!OneMeansReinitialized`: `cbmem_initialize()` returns 1 for "had to be
   reinitialized" without initializing; the function that would do so has no caller.
5. `MpInit!ZeroMeansAccepted`: an AP that read its callback before a call expired
   clears the slot after the next call was stored; that call is lost and returns 0. And
   when `mp_init()` fails before it has set `global_num_aps`, every call returns 0 at once,
   accepted by no AP. `WorkAccepted` shows that there is no third way.
6. `MpInit!MicrocodeExclusive` (with `ParallelLoad = FALSE`): the initial value of the
   microcode lock is the wrong way round, compared with its comment and with the code
   that tests it.
7. `MpInit!ZeroMeansRelocated`: a processor that could not send itself the relocation
   SMI is only logged; the initialization returns 0.
8. `MrcCache!SuccessfullyWrote`: the result of the erase is ignored, so what is written
   after an erase that failed is reported as written.
9. `SmiHandler!PciAddressKept`: a PCI address that the operating system writes while
   another processor is in the handler is lost when the handler restores the old one.
10. `LapicStart!AllStopped`: an AP that has called in and not yet counted itself is not
    waited for. Without `Timely`, `OwnStack` and `SmmRelocated` fail too: an AP that
    comes after the second takes the stack of the next one.
11. `LapicStart!StacksSuffice`: `start_other_cpus()` may start an AP a second time that
    `intel_cores_init()` has started and that has not yet set `initialized`. Every start
    takes a new index, and nothing compares it with the length of
    `stacks[CONFIG_MAX_CPUS]`: with as many processors as `CONFIG_MAX_CPUS` the second start
    writes past `stacks[]` and poisons the memory below `_stack`.
12. `LapicStart!AlwaysFinishes` (as a `PROPERTY`, with `MAX_CPUS` large enough): the INIT of
    such a second start may hit the AP after it has released `start_cpu_lock` and before
    its `atomic_dec()` of `active_cpus` (`lapic_cpu_init.c:427-429`). It counts itself once more when it comes back, the count stays above 1,
    and `wait_other_cpus_stop()` waits for ever. `BspFinishes` shows that these two are the
    only ways in which the boot processor does not get through.

Shown by the models and exempt from the property named, because the code does not prevent
it:

13. `SmiHandler!HeldUntilDone`: the processor that did the work releases the lock before it
    sets the EOS bit (`smm_module_handler.c:173-176`), so a processor that enters late can
    take the lock, and the first one returns to the operating system while that one is in
    the handler.
14. `StageCache!ResumeSeen`: when the handoff found no room on the cold boot, it cannot be
    added on a wake-up, for CBMEM is locked then. Nobody looks at the result of
    `romstage_handoff_init()`, and both stages take the wake-up for a cold boot.
15. `Mtrr!CachedAsWanted`: resources can need more registers than there are even after write
    combining was given up, or with none: memory in pages 0 to 17 with pages 5 to 6 and 10
    to 12 uncacheable needs 7 of the 6 of the run. `commit_var_mtrrs()` writes them all the same,
    those that do not exist included (`pc = "fault"`).
16. `MrcCache!CacheSound`, `RightTimings`: the result of `store_current_mrc_cache()` is not
    looked at. When CBMEM has no room for a training result it is not stored, and the next
    wake-up takes the entry of an earlier boot.

Read in the source and outside of the models: in the MRC cache, a size of which only the
low byte was programmed when the power failed (0xffffff50, say) gives `mrc_size` 0 in
`next_mrc_block()` (`mrc_cache.c:38-42`: adding the header and rounding up wraps), and
`while (is_mrc_cache(mrc_next))` then stays where it is on every later boot.

Seen in the source and kept in the models as it is: `memranges_fill_holes_up_to()` fills
no hole in front of the first entry; a sleep request for S1 leaves sleep SMIs disabled.

## 9. Not modelled

The repository is nearly three million lines, most of them vendor code, register
definitions, other boards and chipsets, and build tools; the parts with state and
order of their own that this board uses are a few thousand lines. The map covers those
and not the rest. In particular:

* Register programming of chipsets and boards, memory training, the device tree and the
  resource allocator, ACPI and SMBIOS tables, option ROMs, payloads: pure I/O, or one
  long sequential walk over hardware. Where a modelled part depends on the result, it
  is a choice over all results (timings, resources, processors).
* CBFS, relocation, decompression: sequential parsing; a stage is loaded or not.
* Timestamps and the console in CBMEM: not collected, or a buffer copied once.
* `mem_pool.c` and region devices: offset arithmetic by one thread.
* `ext_stage_cache.c`, `imd_limit_size()`: not built for this board.
* SMI sub handlers other than sleep: what they do to the chipset (one step).
* Wording of log messages, post codes. Torn words: a word of flash is programmed or not
  (see the end of section 8 for what one would do to the MRC cache).
  In `Imd`, arithmetic near 2^32. An update of a region file with 0 bytes, which no
  caller makes.
