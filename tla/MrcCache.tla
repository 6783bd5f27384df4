------------------------------ MODULE MrcCache ------------------------------
(***************************************************************************)
(* The cache of memory training results in the SPI flash                   *)
(* (northbridge/intel/common/mrc_cache.c), with the two programs it joins: *)
(* the raminit of Sandy Bridge, which reads it on a cold boot and on a     *)
(* resume from S3, and the boot state callback update_mrc_cache(), which   *)
(* appends the result of a training run to it.                             *)
(*                                                                         *)
(* The flash is an array of cells.  A cell holds the set of the words that *)
(* were programmed into it since it was erased: {} is an erased cell, a    *)
(* singleton reads as its word, and a larger set is the AND of several     *)
(* words, which is none of them.  A container is a signature, a size, a    *)
(* checksum (taken to be injective) and DataSize cells of data.            *)
(***************************************************************************)
EXTENDS Integers, FiniteSets

CONSTANTS
  Dimms,       \* the sets of memory modules that can be installed
  Timings,     \* what training can give: for which modules, and one of several
  DataSize,    \* cells of mrc_data (sizeof(ramctr_timing) is fixed)
  Align,       \* MRC_DATA_ALIGN, in cells
  Sector,      \* erase granularity of the flash chip, in cells
  Region,      \* cells of the mrc.cache file
  Faults       \* what may fail: "cbmem" (no room), "probe", "erase", "write"

HeaderSize == 3

ContainerSize == HeaderSize + DataSize

\* next_mrc_block() rounds the size of a container up to MRC_DATA_ALIGN.
BlockSize == ((ContainerSize + Align - 1) \div Align) * Align

(***************************************************************************)
(* The region exists (without one nothing is read or stored), starts on a  *)
(* sector boundary and is a whole number of sectors (0x10000 bytes), which *)
(* spi_flash_cmd_erase() insists on, and a whole number of blocks, which   *)
(* nothing in the code insists on: find_next_mrc_cache() looks at the      *)
(* start of the next block only.                                           *)
(***************************************************************************)
ASSUME MrcAssumption ==
  /\ DataSize \in Nat \ {0} /\ Align \in Nat /\ Align > 1
  /\ Sector \in Nat \ {0} /\ Region \in Nat \ {0}
  /\ Region % Sector = 0 /\ Region % BlockSize = 0
  /\ \A d \in Dimms : \E t \in Timings : t.dimms = d
  /\ \A t \in Timings : t \in [dimms : Dimms, run : Nat]
  /\ Faults \subseteq {"cbmem", "probe", "erase", "write"}

NULL == -1
NoTimings == [dimms |-> "none"]

\* One block more than the region: what lies behind it in the flash.
Cells == 0 .. Region + BlockSize - 1

SigWord == <<"sig">>
SizeWord == <<"size">>
OtherWord == <<"other">>
Words == {SigWord, SizeWord, OtherWord}
           \cup ({"sum", "data"} \X Timings)

\* The i-th word of the container store_current_mrc_cache() builds.
Container(t, i) ==
  CASE i = 0 -> SigWord
    [] i = 1 -> SizeWord
    [] i = 2 -> <<"sum", t>>
    [] OTHER -> <<"data", t>>

VARIABLES
  flash,    \* [Cells -> SUBSET Words]
  dimms,    \* the modules in the sockets
  ctrl,     \* the timings the memory controller runs with
  cbmem,    \* the container CBMEM_ID_MRCDATA, or NoTimings
  pc,       \* how far the machine is
  base,     \* update_mrc_cache: the block that is written
  at,       \* the next cell to erase or to program
  booted,   \* history: the timings of the last cold boot
  fault,    \* history: this boot's training result could not be stored
  dirty,    \* history: no complete erase since one that failed
  wrote     \* history: "Successfully wrote MRC cache" since the last cold boot

vars == <<flash, dimms, ctrl, cbmem, pc, base, at, booted, fault, dirty, wrote>>
update == <<base, at>>

Places == {"off", "raminit", "tables", "erase", "write", "os", "suspended",
           "resume", "dead"}

-----------------------------------------------------------------------------
(* Reading the cache *)

is_mrc_cache(f, c) == f[c] = {SigWord}

(***************************************************************************)
(* An erased size reads as 0xffffffff; with the header added it wraps to   *)
(* less than one alignment unit, and is rounded up to one.                 *)
(***************************************************************************)
next_mrc_block(f, c) == c + (IF f[c + 1] = {SizeWord} THEN BlockSize ELSE Align)

\* Mutant: the first container is taken for the current one.
LastEntry_first(f) == 0

\* The last container of the chain that starts at the region's base.
LastEntry(f) ==
  LET last[c \in 0 .. Region - 1] ==
        LET n == next_mrc_block(f, c)
        IN  IF n < Region /\ is_mrc_cache(f, n) THEN last[n] ELSE c
  IN  last[0]

(***************************************************************************)
(* The code sums up as many bytes as the size says.  A size that was never *)
(* programmed gives a sum over 0xffffffff bytes, all of the address space: *)
(* it is taken to end, and not to give the stored checksum.                *)
(***************************************************************************)
ChecksumOk(f, c, t) ==
  \A i \in 1 .. ContainerSize - 1 : f[c + i] = {Container(t, i)}

find_current_mrc_cache(f) ==
  IF is_mrc_cache(f, 0) /\ \E t \in Timings : ChecksumOk(f, LastEntry(f), t)
  THEN LastEntry(f)
  ELSE NULL

\* What a reader gets: the timings of the current entry, or none.
Seen(f) ==
  IF find_current_mrc_cache(f) = NULL
  THEN NoTimings
  ELSE CHOOSE t \in Timings : ChecksumOk(f, LastEntry(f), t)

-----------------------------------------------------------------------------
(* raminit *)

Init ==
  /\ flash = [c \in Cells |-> IF c < Region THEN {} ELSE {OtherWord}]
  /\ dimms \in Dimms
  /\ ctrl = NoTimings /\ cbmem = NoTimings /\ booted = NoTimings
  /\ pc = "off"
  /\ base = 0 /\ at = 0
  /\ fault = FALSE /\ dirty = FALSE /\ wrote = FALSE

\* A reset ends update_mrc_cache() and the history, and CBMEM starts empty.
Reset ==
  /\ ctrl' = NoTimings /\ cbmem' = NoTimings /\ booted' = NoTimings
  /\ base' = 0 /\ at' = 0
  /\ fault' = FALSE /\ wrote' = FALSE

\* update_mrc_cache() returns and the machine goes on to the OS.
Return == pc' = "os" /\ base' = 0 /\ at' = 0

\* The machine is switched on, with the same or other memory modules.
PowerOn ==
  /\ pc = "off"
  /\ dimms' \in Dimms
  /\ pc' = "raminit"
  /\ UNCHANGED <<flash, ctrl, cbmem, update, booted, fault, dirty, wrote>>

ColdBoot(t) ==
  /\ ctrl' = t
  /\ booted' = t
  /\ wrote' = FALSE
  /\ pc' = "tables"
  /\ UNCHANGED <<flash, dimms, update, dirty>>

\* The cached timings may be used: the SPD checksums are those they were made for.
StoredTimingsMatch ==
  Seen(flash) # NoTimings /\ Seen(flash).dimms = dimms

(***************************************************************************)
(* Fast boot with the stored timings.  CBMEM starts empty and              *)
(* save_timings() is not called.                                           *)
(***************************************************************************)
FastBoot ==
  /\ pc = "raminit"
  /\ StoredTimingsMatch
  /\ cbmem' = NoTimings /\ fault' = FALSE
  /\ ColdBoot(Seen(flash))

(***************************************************************************)
(* Training: the cache is empty or was made for other modules, or the      *)
(* memory did not come up with the stored timings.                         *)
(***************************************************************************)
Train ==
  /\ pc = "raminit"
  /\ \E t \in Timings : t.dimms = dimms /\ cbmem' = t /\ ColdBoot(t)
  /\ fault' = FALSE

\* store_current_mrc_cache() finds no room in CBMEM; its result is not looked at.
TrainUnsaved ==
  /\ pc = "raminit"
  /\ "cbmem" \in Faults
  /\ \E t \in Timings : t.dimms = dimms /\ ColdBoot(t)
  /\ cbmem' = NoTimings /\ fault' = TRUE

\* die("raminit failed")
TrainingFails ==
  /\ pc = "raminit"
  /\ pc' = "dead"
  /\ UNCHANGED <<flash, dimms, ctrl, cbmem, update, booted, fault, dirty, wrote>>

Suspend ==
  /\ pc = "os"
  /\ pc' = "suspended"
  /\ UNCHANGED <<flash, dimms, ctrl, cbmem, update, booted, fault, dirty, wrote>>

Wake ==
  /\ pc = "suspended"
  /\ pc' = "resume"
  /\ ctrl' = NoTimings
  /\ UNCHANGED <<flash, dimms, cbmem, update, booted, fault, dirty, wrote>>

(***************************************************************************)
(* A resume takes the current entry as it is, the SPD checksums are not    *)
(* looked at, and goes on to the OS without BS_WRITE_TABLES.               *)
(***************************************************************************)
Resume ==
  /\ pc = "resume"
  /\ Seen(flash) # NoTimings
  /\ ctrl' = Seen(flash)
  /\ pc' = "os"
  /\ UNCHANGED <<flash, dimms, cbmem, update, booted, fault, dirty, wrote>>

(***************************************************************************)
(* "Failed S3 resume, reset to come up cleanly": no entry, the memory does *)
(* not come up, or CBMEM is not found.                                     *)
(***************************************************************************)
ResumeFails ==
  /\ pc = "resume"
  /\ pc' = "raminit"
  /\ Reset
  /\ UNCHANGED <<flash, dimms, dirty>>

-----------------------------------------------------------------------------
(* update_mrc_cache, entered at BS_WRITE_TABLES *)

\* Mutant: only the size of the stored container is compared.
UpToDate_size == cbmem = NoTimings \/ Seen(flash) # NoTimings

\* Nothing to store, or "MRC data in flash is up to date. No update."
UpToDate == cbmem = NoTimings \/ Seen(flash) = cbmem

NoUpdate ==
  /\ pc = "tables"
  /\ UpToDate
  /\ Return
  /\ UNCHANGED <<flash, dimms, ctrl, cbmem, booted, fault, dirty, wrote>>

\* "Could not find SPI device"
ProbeFails ==
  /\ pc = "tables" /\ ~UpToDate
  /\ "probe" \in Faults
  /\ Return
  /\ fault' = TRUE
  /\ UNCHANGED <<flash, dimms, ctrl, cbmem, booted, dirty, wrote>>

\* The block after the current one, NULL behind the end of the region.
find_next_mrc_cache(f, c) ==
  LET n == next_mrc_block(f, c)
  IN  IF n >= Region THEN NULL ELSE n

PickBlock ==
  /\ pc = "tables" /\ ~UpToDate
  /\ LET cache == find_current_mrc_cache(flash)
         next == IF cache = NULL THEN NULL ELSE find_next_mrc_cache(flash, cache)
     IN  IF next = NULL
         THEN pc' = "erase" /\ base' = 0 /\ at' = 0
         ELSE pc' = "write" /\ base' = next /\ at' = next
  /\ UNCHANGED <<flash, dimms, ctrl, cbmem, booted, fault, dirty, wrote>>

SectorAt(c) == c .. c + Sector - 1

Erased(f, S) == [c \in Cells |-> IF c \in S THEN {} ELSE f[c]]

\* Mutant: only the sector of the first header is erased.
EraseSector_first ==
  /\ pc = "erase"
  /\ flash' = Erased(flash, SectorAt(at))
  /\ at' = base /\ pc' = "write" /\ dirty' = FALSE
  /\ UNCHANGED <<dimms, ctrl, cbmem, base, booted, fault, wrote>>

\* Mutant: the offset is not advanced.
EraseSector_stuck ==
  /\ pc = "erase"
  /\ flash' = Erased(flash, SectorAt(at))
  /\ UNCHANGED <<dimms, ctrl, cbmem, pc, update, booted, fault, dirty, wrote>>

\* One sector of spi_flash_cmd_erase(); behind the last one the write begins.
EraseSector ==
  /\ pc = "erase"
  /\ flash' = Erased(flash, SectorAt(at))
  /\ IF at + Sector < Region
     THEN at' = at + Sector /\ UNCHANGED <<pc, dirty>>
     ELSE at' = base /\ pc' = "write" /\ dirty' = FALSE
  /\ UNCHANGED <<dimms, ctrl, cbmem, base, booted, fault, wrote>>

(***************************************************************************)
(* A sector cannot be erased, or only after the timeout.  The result of    *)
(* spi_flash_erase() is not looked at.  Bound: a second erase does not     *)
(* fail before one has succeeded.                                          *)
(***************************************************************************)
EraseError ==
  /\ pc = "erase"
  /\ "erase" \in Faults /\ ~dirty
  /\ flash' \in {flash, Erased(flash, SectorAt(at))}
  /\ at' = base /\ pc' = "write"
  /\ fault' = TRUE /\ dirty' = TRUE
  /\ UNCHANGED <<dimms, ctrl, cbmem, base, booted, wrote>>

\* One cell of spi_flash_write().
WriteCell ==
  /\ pc = "write"
  /\ flash' = [flash EXCEPT ![at] = @ \cup {Container(cbmem, at - base)}]
  /\ IF at + 1 = base + ContainerSize
     THEN Return /\ wrote' = TRUE
     ELSE at' = at + 1 /\ UNCHANGED <<pc, base, wrote>>
  /\ UNCHANGED <<dimms, ctrl, cbmem, booted, fault, dirty>>

\* "Writing the MRC cache failed"
WriteError ==
  /\ pc = "write"
  /\ "write" \in Faults
  /\ Return
  /\ fault' = TRUE
  /\ UNCHANGED <<flash, dimms, ctrl, cbmem, booted, dirty, wrote>>

(***************************************************************************)
(* Power fails or the machine is reset, anywhere.  A sector that is being  *)
(* erased is left with some of its cells erased.                           *)
(***************************************************************************)
PowerLoss ==
  /\ pc # "off"
  /\ pc' = "off"
  /\ IF pc = "erase"
     THEN \E S \in SUBSET SectorAt(at) : flash' = Erased(flash, S)
     ELSE UNCHANGED flash
  /\ Reset
  /\ UNCHANGED <<dimms, dirty>>

Update ==
  NoUpdate \/ ProbeFails \/ PickBlock \/ EraseSector \/ EraseError
    \/ WriteCell \/ WriteError

Next ==
  \/ PowerOn \/ FastBoot \/ Train \/ TrainUnsaved \/ TrainingFails
  \/ Suspend \/ Wake \/ Resume \/ ResumeFails
  \/ Update \/ PowerLoss

Spec == Init /\ [][Next]_vars

\* The boot state machine runs its callback to the end.
FairSpec == Spec /\ WF_vars(Update)

-----------------------------------------------------------------------------
(* Properties *)

TimingsOrNone == Timings \cup {NoTimings}

\* Type correctness; the cell a step touches is one of the flash, and what lies
\* behind the region is never touched.
TypeOK ==
  /\ flash \in [Cells -> SUBSET Words]
  /\ dimms \in Dimms
  /\ {ctrl, cbmem, booted} \subseteq TimingsOrNone
  /\ pc \in Places
  /\ base \in 0 .. Region - 1
  /\ at \in Cells
  /\ {fault, dirty, wrote} \subseteq BOOLEAN
  /\ \A c \in Cells : c >= Region => flash[c] = {OtherWord}

(***************************************************************************)
(* While the OS runs or sleeps, the entry a resume would read is the       *)
(* timings the machine booted with, whatever power failures and errors of  *)
(* earlier boots left in the flash.  Excepted are a boot whose own result  *)
(* was not stored, and the time between an erase that failed, which nobody         *)
(* notices, and the next complete one.                                     *)
(***************************************************************************)
CacheCurrent ==
  pc \in {"os", "suspended", "resume"} /\ ~fault /\ ~dirty => Seen(flash) = booted

(***************************************************************************)
(* What is written is written to erased cells: behind the entry that is    *)
(* being appended the region is empty, so no old entry can follow a new    *)
(* one in the chain.                                                       *)
(***************************************************************************)
ErasedAhead ==
  pc = "write" /\ ~dirty
    => \A c \in Cells : at <= c /\ c < Region => flash[c] = {}

\* The chain in flash stays one to append to and to resume from, inside its region.
CacheSound == TypeOK /\ ErasedAhead /\ CacheCurrent

(***************************************************************************)
(* The memory controller never runs with timings that do not fit: a boot   *)
(* comes up with those of the modules in the sockets, whatever the cache   *)
(* holds, and under the OS they stay, over any number of resumes, those    *)
(* its memory contents were set up with (same exceptions).                 *)
(***************************************************************************)
RightTimings ==
  /\ pc \in {"tables", "erase", "write"} => ctrl \in Timings /\ ctrl.dimms = dimms
  /\ pc = "os" /\ ~fault /\ ~dirty => ctrl = booted

(***************************************************************************)
(* A reader never sees an older entry again: from step to step, power      *)
(* failures included, what it finds stays, is lost, or becomes the         *)
(* container that is being stored (unless an erase failed).                *)
(***************************************************************************)
NoRollback ==
  [][~dirty => Seen(flash') \in {Seen(flash), NoTimings, cbmem}]_vars

\* An update ends: the machine gets to the OS, or loses its power.
UpdateEnds == pc = "tables" ~> pc \in {"os", "off"}

(***************************************************************************)
(* "Successfully wrote MRC cache": what was reported written is what the   *)
(* next boot finds.  The result of the erase is ignored, so it is not.     *)
(***************************************************************************)
SuccessfullyWrote == pc = "os" /\ wrote => Seen(flash) = cbmem
=============================================================================
