----------------------------- MODULE RegionFile -----------------------------
(***************************************************************************)
(* The region file of lib/region_file.c: an append-only log of updates in  *)
(* a flash region, read back after a reset.                                *)
(*                                                                         *)
(* The region is an array of 16-bit words; A words form a block.  Word 0   *)
(* holds the number of metadata blocks, word i > 0 of the metadata the     *)
(* block at which the data of update i ends.  Every flash access is a step *)
(* of its own; the power may fail, or an access report an error, between   *)
(* any two of them.  The file has one user, who updates it with data       *)
(* 1, 2, 3, ... : a data block of update v has v in all its words.         *)
(***************************************************************************)
EXTENDS Integers, FiniteSets, FiniteSetsExt

CONSTANTS
  A,              \* REGF_UPDATES_PER_METADATA_BLOCK, offsets in a block
  W,              \* width of a block offset in bits
  T,              \* size of the region in blocks
  SectorBlocks,   \* erase size of the flash in blocks
  Sizes,          \* data sizes the user writes, in blocks
  MaxUpdates,     \* bound on the number of updates
  MaxFaults       \* bound on the number of power failures and I/O errors

REGF_UNALLOCATED_BLOCK == 2 ^ W - 1
RF_ONLY_METADATA == 0
RF_EMPTY         == -1
RF_NEED_TO_EMPTY == -2
RF_FATAL         == -3

Words == 0 .. T * A - 1
uint16_t == 0 .. REGF_UNALLOCATED_BLOCK

ASSUME GeometryAssumption ==
  /\ A \in Nat \ {0} /\ W \in Nat /\ T \in Nat \ {0}
  /\ SectorBlocks \in Nat \ {0} /\ T % SectorBlocks = 0
  /\ 2 ^ W \in Nat /\ 2 ^ W > 2 /\ T <= 2 ^ W
ASSUME UserAssumption ==
  /\ Sizes \subseteq Nat
  /\ MaxUpdates \in Nat /\ MaxUpdates < REGF_UNALLOCATED_BLOCK
  /\ MaxFaults \in Nat

VARIABLES
  flash,     \* the words of the region
  f,         \* struct region_file: slot, size of .metadata and data_blocks[]
  pc,        \* "off", "ready", or the place in region_file_update_data()
  blocks,    \* local of region_file_update_data(): the size in blocks
  index,     \* next sector to erase or next data block to write
  version,   \* history: the data of the last update that was started
  done,      \* history: the data of the last update that returned 0
  faults     \* power failures and I/O errors so far

vars == <<flash, f, pc, blocks, index, version, done, faults>>

-----------------------------------------------------------------------------
(* The flash                                                               *)

BlockWords(b) == b * A .. b * A + A - 1

BitAnd(x, y) ==
  MapThenSumSet(LAMBDA i : ((x \div 2^i) % 2) * ((y \div 2^i) % 2) * 2^i, 0 .. W - 1)

\* Programming can only clear bits.
ProgramWord(old, new) ==
  IF old = REGF_UNALLOCATED_BLOCK THEN new ELSE BitAnd(old, new)

Program(ws, value) ==
  [w \in Words |-> IF w \in ws THEN ProgramWord(flash[w], value) ELSE flash[w]]

\* spi_flash_cmd_erase() erases sector by sector, from the lowest.
EraseWords(sector) == sector * SectorBlocks * A .. (sector + 1) * SectorBlocks * A - 1

-----------------------------------------------------------------------------
(* region_file_init(): what is found in the flash                          *)

Unallocated(b) == \A w \in BlockWords(b) : flash[w] = REGF_UNALLOCATED_BLOCK

\* Binary search for the last metadata block in use, between two bounds.
find_latest_mb(num) ==
  LET search[b \in (0 .. T) \X (0 .. T)] ==
        LET mid == (b[1] + b[2]) \div 2
        IN IF b[1] + 1 >= b[2] THEN b[1]
           ELSE IF Unallocated(mid) THEN search[<<b[1], mid>>] ELSE search[<<mid, b[2]>>]
  IN search[<<0, num>>]

\* The last word in use in metadata block mb, the first one if there is none.
find_latest_slot(mb) ==
  LET used == {i \in 1 .. A - 1 : flash[mb * A + i] # REGF_UNALLOCATED_BLOCK}
  IN mb * A + (IF used = {} THEN 0 ELSE Max(used))

Handle(slot, meta, begin, end) ==
  [slot |-> slot, meta |-> meta, begin |-> begin, end |-> end]

\* fill_data_boundaries(): the two block offsets around the latest data, with a
\* sanity check.  (The check that the slots lie in the metadata cannot fail.)
fill_data_boundaries(slot, meta) ==
  LET begin == flash[slot - 1]
      end   == flash[slot]
  IN IF slot = RF_ONLY_METADATA THEN Handle(slot, meta, meta, meta)
     ELSE IF begin >= end \/ end > T THEN Handle(RF_NEED_TO_EMPTY, meta, begin, end)
     ELSE Handle(slot, meta, begin, end)

region_file_init ==
  IF flash[0] = REGF_UNALLOCATED_BLOCK THEN Handle(RF_EMPTY, 0, 0, 0)
  ELSE IF flash[0] = 0 \/ flash[0] > T THEN Handle(RF_NEED_TO_EMPTY, 0, 0, 0)
  ELSE fill_data_boundaries(find_latest_slot(find_latest_mb(flash[0])), flash[0])

-----------------------------------------------------------------------------
Init ==
  /\ flash = [w \in Words |-> REGF_UNALLOCATED_BLOCK]
  /\ f = Handle(RF_FATAL, 0, 0, 0)
  /\ pc = "off"
  /\ blocks = 0 /\ index = 0
  /\ version = 0 /\ done = 0
  /\ faults = 0

Fault == faults < MaxFaults /\ faults' = faults + 1

Start ==
  /\ pc = "off"
  /\ pc' = "ready"
  /\ \/ f' = region_file_init /\ UNCHANGED faults
     \/ f' = Handle(RF_FATAL, 0, 0, 0) /\ Fault      \* a read failed
  /\ UNCHANGED <<flash, blocks, index, version, done>>

PowerFailure ==
  /\ pc # "off"
  /\ Fault
  /\ pc' = "off"
  /\ UNCHANGED <<flash, f, blocks, index, version, done>>

region_file_update_data(size) ==
  /\ pc = "ready"
  /\ version < MaxUpdates
  /\ version' = version + 1
  /\ blocks' = size
  /\ pc' = "update"
  /\ UNCHANGED <<flash, f, index, done, faults>>

\* Mutant: after an error the handle is used as it is.
Fail_keep ==
  /\ UNCHANGED f
  /\ pc' = "ready"

\* The update returns an error; no more updates are attempted until a reset.
Fail ==
  /\ f' = [f EXCEPT !.slot = RF_FATAL]
  /\ pc' = "ready"

HandleFatal ==
  /\ pc = "update"
  /\ f.slot = RF_FATAL
  /\ Fail
  /\ UNCHANGED <<flash, blocks, index, version, done, faults>>

ALIGN_UP(x, a) == ((x + a - 1) \div a) * a

\* Mutant: one metadata block more than needed.
MetadataBlocks_more(d) == (ALIGN_UP((T * A) \div (d * A + 1), A) \div A) + 1

\* allocate_metadata(): the number of metadata blocks for data of d blocks, cut
\* to 16 bits when it is stored.
MetadataBlocks(d) ==
  LET updates == ALIGN_UP((T * A) \div (d * A + 1), A)
      x == IF updates = 0 THEN 1 ELSE updates
  IN (ALIGN_UP(x, A) \div A) % 2 ^ W

HandleEmpty ==
  /\ pc = "update"
  /\ f.slot = RF_EMPTY
  /\ \/ /\ blocks > T - 1
        /\ Fail
        /\ UNCHANGED <<flash, faults>>
     \/ /\ blocks <= T - 1
        /\ flash' = Program({0}, MetadataBlocks(blocks))
        /\ f' = Handle(RF_ONLY_METADATA, MetadataBlocks(blocks),
                       MetadataBlocks(blocks), MetadataBlocks(blocks))
        /\ UNCHANGED <<pc, faults>>
     \/ /\ blocks <= T - 1
        /\ Fault
        /\ Fail
        /\ flash' \in {flash, Program({0}, MetadataBlocks(blocks))}
  /\ UNCHANGED <<blocks, index, version, done>>

HandleNeedToEmpty ==
  /\ pc = "update"
  /\ f.slot = RF_NEED_TO_EMPTY
  /\ pc' = "erase"
  /\ index' = 0
  /\ UNCHANGED <<flash, f, blocks, version, done, faults>>

EraseSector ==
  /\ pc = "erase"
  /\ flash' = [w \in Words |-> IF w \in EraseWords(index) THEN REGF_UNALLOCATED_BLOCK
                               ELSE flash[w]]
  /\ index' = index + 1
  /\ IF (index + 1) * SectorBlocks = T
     THEN f' = [f EXCEPT !.slot = RF_EMPTY] /\ pc' = "update"
     ELSE UNCHANGED <<f, pc>>
  /\ UNCHANGED <<blocks, version, done, faults>>

EraseFails ==
  /\ pc = "erase"
  /\ Fault
  /\ Fail
  /\ UNCHANGED <<flash, blocks, index, version, done>>

update_can_fit(d) ==
  /\ f.slot + 1 < f.meta * A
  /\ d + f.end < REGF_UNALLOCATED_BLOCK
  /\ d + f.end <= T

CannotFit ==
  /\ pc = "update"
  /\ f.slot >= RF_ONLY_METADATA
  /\ ~update_can_fit(blocks)
  /\ f' = [f EXCEPT !.slot = RF_NEED_TO_EMPTY]
  /\ UNCHANGED <<flash, pc, blocks, index, version, done, faults>>

\* commit_data_allocation()
CommitAllocation ==
  /\ pc = "update"
  /\ f.slot >= RF_ONLY_METADATA
  /\ update_can_fit(blocks)
  /\ LET committed == Program({f.slot + 1}, f.end + blocks)
     IN \/ /\ flash' = committed
           /\ f' = Handle(f.slot + 1, f.meta, f.end, f.end + blocks)
           /\ pc' = "data"
           /\ UNCHANGED faults
        \/ /\ Fault
           /\ Fail
           /\ flash' \in {flash, committed}
  /\ index' = 0
  /\ UNCHANGED <<blocks, version, done>>

\* Mutant: the data always goes behind the metadata.
CommitData_front ==
  /\ pc = "data"
  /\ index < blocks
  /\ flash' = Program(BlockWords(f.meta + index), version)
  /\ index' = index + 1
  /\ UNCHANGED <<f, pc, blocks, version, done, faults>>

\* commit_data(), block by block.
CommitData ==
  /\ pc = "data"
  /\ index < blocks
  /\ flash' = Program(BlockWords(f.begin + index), version)
  /\ index' = index + 1
  /\ UNCHANGED <<f, pc, blocks, version, done, faults>>

CommitDataFails ==
  /\ pc = "data"
  /\ Fault
  /\ Fail
  /\ UNCHANGED <<flash, blocks, index, version, done>>

\* Mutant: the last block is not written.
UpdateReturns_early ==
  /\ pc = "data"
  /\ index + 1 >= blocks
  /\ pc' = "ready"
  /\ done' = version
  /\ UNCHANGED <<flash, f, blocks, index, version, faults>>

\* The update has been written and returns 0.
UpdateReturns ==
  /\ pc = "data"
  /\ index = blocks
  /\ pc' = "ready"
  /\ done' = version
  /\ UNCHANGED <<flash, f, blocks, index, version, faults>>

\* The user has made all the updates of this run.
Finished ==
  /\ pc = "ready"
  /\ version = MaxUpdates
  /\ UNCHANGED vars

Step ==
  \/ Start \/ HandleFatal \/ HandleEmpty \/ HandleNeedToEmpty \/ EraseSector \/ EraseFails
  \/ CannotFit \/ CommitAllocation \/ CommitData \/ CommitDataFails \/ UpdateReturns

Next ==
  \/ Step \/ PowerFailure \/ Finished
  \/ \E size \in Sizes : region_file_update_data(size)

Spec == Init /\ [][Next]_vars

\* The firmware keeps running: an update that was started goes on.
FairSpec == Spec /\ WF_vars(Step)

-----------------------------------------------------------------------------
(* Properties                                                              *)

InUpdate == pc \in {"update", "erase", "data"}

\* The blocks of the handle h hold the data of update v.
HoldsData(h, v) ==
  \A b \in h.begin .. h.end - 1 : \A w \in BlockWords(b) : flash[w] = v

\* Types; and a handle in use never points outside of the region.
TypeOK ==
  /\ flash \in [Words -> uint16_t]
  /\ f \in [slot : RF_FATAL .. T * A, meta : 0 .. T, begin : uint16_t, end : uint16_t]
  /\ f.slot >= RF_ONLY_METADATA => f.slot < f.meta * A /\ f.end <= T
  /\ pc \in {"off", "ready", "update", "erase", "data"}
  /\ blocks \in Sizes \cup {0}
  /\ index \in Nat
  /\ version \in 0 .. MaxUpdates
  /\ done \in 0 .. version
  /\ faults \in 0 .. MaxFaults

\* Between updates the handle in memory is the one that region_file_init() would
\* find in the flash: what is appended next depends on no lost step.
HandleMatchesFlash ==
  pc = "ready" /\ f.slot # RF_FATAL => f = region_file_init

\* region_file.h: "the data returned is the most recently written data".  When
\* the last update that was started returned 0, region_file_data() returns the
\* data of that update, after any number of resets.
LatestData ==
  pc = "ready" /\ f.slot # RF_FATAL /\ done = version /\ done > 0 =>
    f.slot > RF_ONLY_METADATA /\ HoldsData(f, done)

\* What the next update and the next reader start from: a handle inside the region
\* that agrees with the flash, and the data that was promised.
RegionSound == TypeOK /\ HandleMatchesFlash /\ LatestData

\* Flash discipline: outside of an erase only erased words are programmed, so no
\* update can damage what an earlier one has written.
WriteOnce ==
  [][\A w \in Words : flash'[w] # flash[w] =>
       IF pc = "erase" THEN flash'[w] = REGF_UNALLOCATED_BLOCK
       ELSE flash[w] = REGF_UNALLOCATED_BLOCK]_vars

\* The data a reset would find: that of one update, or torn, or none.
Found ==
  LET h == region_file_init
  IN IF h.slot <= RF_ONLY_METADATA THEN 0
     ELSE IF HoldsData(h, flash[h.begin * A]) /\ flash[h.begin * A] # REGF_UNALLOCATED_BLOCK
          THEN flash[h.begin * A]
     ELSE -1

Register == INSTANCE DataRegister
              WITH value <- Found, pending <- IF InUpdate THEN version ELSE 0, started <- version

\* The region file implements the register of DataRegister.
ImplementsRegister == Register!RegisterSpec

\* region_file_update_data() returns: it does not empty the region over and over.
UpdateEnds == InUpdate ~> ~InUpdate
=============================================================================
