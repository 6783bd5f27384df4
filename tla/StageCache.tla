----------------------------- MODULE StageCache -----------------------------
(***************************************************************************)
(* How romstage gets ramstage to run, on a cold boot and on a wake-up      *)
(* (lib/prog_loaders.c), with the two things it keeps in CBMEM for that:   *)
(* the handoff that says which of the two it is (lib/romstage_handoff.c)   *)
(* and the copy of ramstage as it was loaded (lib/cbmem_stage_cache.c).    *)
(*                                                                         *)
(* ramstage runs where it was loaded, in CBMEM, and changes its own data:  *)
(* a wake-up must not run that image again, and the memory around it       *)
(* belongs to the operating system.                                        *)
(***************************************************************************)
EXTENDS Cbmem

CONSTANTS
  ROMSTAGE_INFO,       \* CBMEM_ID_ROMSTAGE_INFO
  RAMSTAGE,            \* CBMEM_ID_RAMSTAGE
  STAGE_META,          \* CBMEM_ID_STAGEx_META + STAGE_RAMSTAGE
  STAGE_CACHE,         \* CBMEM_ID_STAGEx_CACHE + STAGE_RAMSTAGE
  SmallSize,           \* size of the handoff and of the metadata
  StageSize,           \* size of ramstage
  ResetOnInvalid       \* CONFIG_RESET_ON_INVALID_RAMSTAGE_CACHE

StageIds == {ROMSTAGE_INFO, RAMSTAGE, STAGE_META, STAGE_CACHE}

ASSUME StageAssumption ==
  /\ StageIds \subseteq Ids
  /\ ROMSTAGE_INFO \notin {RAMSTAGE, STAGE_META, STAGE_CACHE}
  /\ RAMSTAGE \notin {STAGE_META, STAGE_CACHE}
  /\ STAGE_META # STAGE_CACHE
  /\ SmallSize \in Sizes /\ StageSize \in Sizes
  /\ ResetOnInvalid \in BOOLEAN

VARIABLES
  loader,    \* what romstage does next
  handoff,   \* handoff->s3_resume
  meta,      \* meta->load_addr
  image,     \* the memory of the entry RAMSTAGE
  cache,     \* the memory of the entry STAGE_CACHE
  prog       \* the ramstage that is about to run, or runs: where and what

contents == <<handoff, meta, image, cache>>
stageVars == <<vars, loader, contents, prog>>

\* An image as it comes from CBFS, one that has run, or neither.
Images == {"fresh", "used", "garbage"}
NoProg == [at |-> <<>>, what |-> "garbage"]

cbmem_find(m, id) == imd_entry_find(m, Backing, id) # <<"none", 0>>

\* cbmem_add(): finds the entry, or tries to add it.
FindOrAdd(id, size) ==
  IF cbmem_find(mem, id) THEN UNCHANGED vars ELSE cbmem_add(id, size)

StageInit ==
  /\ Init
  /\ loader = "off"
  /\ handoff \in BOOLEAN /\ meta = <<>> /\ image = "garbage" /\ cache = "garbage"
  /\ prog = NoProg

-----------------------------------------------------------------------------
(* romstage *)

\* A new directory: what its entries will contain is what the memory held.
StartCold ==
  /\ ColdBoot
  /\ loader' = "finalize"
  /\ handoff' \in BOOLEAN /\ meta' = <<>> /\ image' = "garbage" /\ cache' = "garbage"
  /\ prog' = NoProg

StartWakeUp ==
  /\ WakeUp
  /\ loader' = IF stage' = "romstage" THEN "finalize" ELSE "off"
  /\ prog' = NoProg
  /\ UNCHANGED contents

\* Mutant: the structure is not cleared and a cold boot does not say so.
romstage_handoff_init_set ==
  /\ stage = "romstage" /\ loader = "finalize"
  /\ FindOrAdd(ROMSTAGE_INFO, SmallSize)
  /\ handoff' = (handoff \/ resumed)
  /\ loader' = "run"
  /\ UNCHANGED <<meta, image, cache, prog>>

(***************************************************************************)
(* The chipset's last step in romstage; it does not look at the result, so *)
(* without room for the structure the flag is lost.                        *)
(***************************************************************************)
romstage_handoff_init ==
  /\ stage = "romstage" /\ loader = "finalize"
  /\ FindOrAdd(ROMSTAGE_INFO, SmallSize)
  /\ handoff' = IF cbmem_find(mem', ROMSTAGE_INFO) THEN resumed ELSE handoff
  /\ loader' = "run"
  /\ UNCHANGED <<meta, image, cache, prog>>

romstage_handoff_is_resume == cbmem_find(mem, ROMSTAGE_INFO) /\ handoff

\* Both halves of the cached stage are there.
StageCached == cbmem_find(mem, STAGE_META) /\ cbmem_find(mem, STAGE_CACHE)

\* Mutant: the image is run where it is, without the copy.
stage_cache_load_stage_inplace ==
  /\ stage = "romstage" /\ loader = "run"
  /\ romstage_handoff_is_resume /\ StageCached
  /\ prog' = [at |-> meta, what |-> image]
  /\ loader' = "jump"
  /\ UNCHANGED <<vars, contents>>

\* The copy goes to where ramstage was loaded, and is run there.
stage_cache_load_stage ==
  /\ stage = "romstage" /\ loader = "run"
  /\ romstage_handoff_is_resume /\ StageCached
  /\ image' = IF meta = Place(mem, RAMSTAGE) THEN cache ELSE image
  /\ prog' = [at |-> meta, what |-> cache]
  /\ loader' = "jump"
  /\ UNCHANGED <<vars, handoff, meta, cache>>

\* "ramstage cache invalid.": reset, or go on as on a cold boot.
ramstage_cache_invalid ==
  /\ stage = "romstage" /\ loader = "run"
  /\ romstage_handoff_is_resume /\ ~StageCached
  /\ IF ResetOnInvalid
     THEN Reset /\ loader' = "off"
     ELSE loader' = "load" /\ UNCHANGED vars
  /\ UNCHANGED <<contents, prog>>

NotResuming ==
  /\ stage = "romstage" /\ loader = "run"
  /\ ~romstage_handoff_is_resume
  /\ loader' = "load"
  /\ UNCHANGED <<vars, contents, prog>>

\* rmodule_stage_load(): without room "Ramstage was not loaded!"
load_relocatable_ramstage ==
  /\ stage = "romstage" /\ loader = "load"
  /\ FindOrAdd(RAMSTAGE, StageSize)
  /\ IF cbmem_find(mem', RAMSTAGE)
     THEN /\ image' = "fresh"
          /\ prog' = [at |-> Place(mem', RAMSTAGE), what |-> "fresh"]
          /\ loader' = "meta"
     ELSE loader' = "dead" /\ UNCHANGED <<image, prog>>
  /\ UNCHANGED <<handoff, meta, cache>>

\* stage_cache_add(), the metadata ...
stage_cache_add ==
  /\ stage = "romstage" /\ loader = "meta"
  /\ FindOrAdd(STAGE_META, SmallSize)
  /\ IF cbmem_find(mem', STAGE_META)
     THEN meta' = prog.at /\ loader' = "cache"
     ELSE loader' = "jump" /\ UNCHANGED meta
  /\ UNCHANGED <<handoff, image, cache, prog>>

\* ... and the copy.  Either may find no room, and nobody is told.
stage_cache_copy ==
  /\ stage = "romstage" /\ loader = "cache"
  /\ FindOrAdd(STAGE_CACHE, StageSize)
  /\ cache' = IF cbmem_find(mem', STAGE_CACHE) THEN image ELSE cache
  /\ loader' = "jump"
  /\ UNCHANGED <<handoff, meta, image, prog>>

\* Mutant: ramstage does not recover CBMEM.
prog_run_blind ==
  /\ stage = "romstage" /\ loader = "jump"
  /\ stage' = "ramstage" /\ UNCHANGED <<mem, imd, resumed, saved>>
  /\ image' = "used"
  /\ loader' = "off"
  /\ UNCHANGED <<handoff, meta, cache, prog>>

\* prog_run(): ramstage starts, recovers CBMEM, and changes its data.
prog_run ==
  /\ loader = "jump"
  /\ StartRamstage
  /\ image' = "used"
  /\ loader' = "off"
  /\ UNCHANGED <<handoff, meta, cache, prog>>

-----------------------------------------------------------------------------
(* The rest of the firmware, and the machine *)

\* The other users of CBMEM, at any time before and after the above.
OtherAdd ==
  /\ loader # "dead"
  /\ \E id \in Ids \ StageIds, size \in Sizes : cbmem_add(id, size)
  /\ UNCHANGED <<loader, contents, prog>>

OtherRemove ==
  /\ loader # "dead"
  /\ \E id \in Ids \ StageIds : cbmem_entry_remove(id)
  /\ UNCHANGED <<loader, contents, prog>>

Sleep ==
  /\ Suspend
  /\ UNCHANGED <<loader, contents, prog>>

LoseMemory ==
  /\ MemoryLost
  /\ UNCHANGED <<loader, contents, prog>>

PowerCycle ==
  /\ Reset
  /\ loader' = "off"
  /\ UNCHANGED <<contents, prog>>

StageNext ==
  \/ StartCold \/ StartWakeUp
  \/ romstage_handoff_init \/ stage_cache_load_stage \/ ramstage_cache_invalid
  \/ NotResuming \/ load_relocatable_ramstage \/ stage_cache_add
  \/ stage_cache_copy \/ prog_run
  \/ OtherAdd \/ OtherRemove \/ Sleep \/ LoseMemory \/ PowerCycle

StageSpec == StageInit /\ [][StageNext]_stageVars

-----------------------------------------------------------------------------
(* Properties *)

\* Types; and romstage goes on to load ramstage only with a CBMEM it has
\* created or recovered.
StageTypeOK ==
  /\ loader \in {"off", "finalize", "run", "load", "meta", "cache", "jump", "dead"}
  /\ handoff \in BOOLEAN
  /\ {image, cache, prog.what} \subseteq Images
  /\ DOMAIN prog = {"at", "what"}
  /\ loader # "off" <=> stage = "romstage"

(***************************************************************************)
(* ramstage is run as it was built, never an image that has run before or  *)
(* that was never written, and from the memory CBMEM has set apart for it: *)
(* on a wake-up too, whichever of the additions to CBMEM found no room.    *)
(***************************************************************************)
RunsPristine ==
  loader = "jump" =>
    prog.what = "fresh" /\ prog.at # <<>> /\ prog.at = Place(mem, RAMSTAGE)

\* romstage has said which kind of boot it is, and asks for it (run_ramstage());
\* or ramstage does (acpi_get_sleep_type()), through the handle it has recovered.
HandoffRead ==
  loader \in {"run", "load", "meta", "cache", "jump"} \/ stage = "ramstage"

(***************************************************************************)
(* A cold boot is never taken for a wake-up, by romstage or by ramstage,   *)
(* although the flag is in memory that survives a reset.                   *)
(***************************************************************************)
NoFalseResume ==
  HandoffRead /\ romstage_handoff_is_resume => resumed

(***************************************************************************)
(* A wake-up is never taken for a cold boot: whichever root the handoff    *)
(* has gone to, romstage, which looks for the roots anew in every call,    *)
(* and ramstage, which keeps its handle, both find it, and it says so.     *)
(* There must be a handoff: the directory is locked on a wake-up, so that  *)
(* one that found no room on the cold boot is not added any more.          *)
(***************************************************************************)
ResumeSeen ==
  HandoffRead /\ resumed /\ Having(ROMSTAGE_INFO) # {} => romstage_handoff_is_resume
=============================================================================
