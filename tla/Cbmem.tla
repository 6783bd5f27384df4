-------------------------------- MODULE Cbmem -------------------------------
(***************************************************************************)
(* CBMEM (lib/imd_cbmem.c): a tiered in-memory directory just below        *)
(* cbmem_top() that romstage creates, ramstage recovers, and that must     *)
(* survive a sleep (S3) untouched.                                         *)
(*                                                                         *)
(* romstage has no variables: every call finds the roots in memory again.  *)
(* ramstage keeps a handle.  On a wake-up romstage recovers and locks.     *)
(***************************************************************************)
EXTENDS Imd

CONSTANTS
  Top,                \* cbmem_top()
  CBMEM_ROOT_MIN_SIZE, CBMEM_LG_ALIGN,    \* large root
  CBMEM_SM_ROOT_SIZE, CBMEM_SM_ALIGN,     \* small root
  SMALL_REGION_ID,
  Ids,                \* ids that the users of CBMEM add
  Sizes               \* sizes that they ask for

\* Mutant: the size is not aligned.
sm_region_size_bare ==
  root_num_entries(CBMEM_SM_ROOT_SIZE) * CBMEM_SM_ALIGN + CBMEM_SM_ROOT_SIZE

\* Size of the small region, imd_create_tiered_empty().
sm_region_size ==
  ALIGN_UP(root_num_entries(CBMEM_SM_ROOT_SIZE) * CBMEM_SM_ALIGN + CBMEM_SM_ROOT_SIZE,
           CBMEM_LG_ALIGN)

\* What imdr_create_empty() checks and asserts, what cbmem_top() promises, and that
\* the three alignments of the large root are one number (4096), so that the small
\* region begins and ends where imdr_init() would align a limit to.
ASSUME CbmemAssumption ==
  /\ Top \in Nat /\ Top % LIMIT_ALIGN = 0
  /\ {CBMEM_ROOT_MIN_SIZE, CBMEM_LG_ALIGN, CBMEM_SM_ROOT_SIZE, CBMEM_SM_ALIGN} \subseteq Nat \ {0}
  /\ CBMEM_LG_ALIGN = CBMEM_ROOT_MIN_SIZE /\ CBMEM_ROOT_MIN_SIZE = LIMIT_ALIGN
  /\ CBMEM_SM_ALIGN <= CBMEM_SM_ROOT_SIZE /\ CBMEM_SM_ROOT_SIZE <= LIMIT_ALIGN
  /\ root_num_entries(CBMEM_SM_ROOT_SIZE) \in Nat \ {0}
  /\ root_num_entries(CBMEM_ROOT_MIN_SIZE) \in Nat \ {0, 1}
  /\ SMALL_REGION_ID \notin Ids
  /\ Sizes \subseteq Nat
  /\ ALIGN_UP(sm_region_size, CBMEM_LG_ALIGN) <= SIZE_MAX

VARIABLES
  mem,      \* the two roots in memory
  imd,      \* ramstage's handle: which roots it knows
  stage,    \* "off", "romstage", "ramstage", "asleep", or "failed" to wake up
  resumed,  \* this boot is a wake-up
  saved     \* history: the roots when the machine went to sleep

vars == <<mem, imd, stage, resumed, saved>>

NoMemory == [lg |-> NoRoot, sm |-> NoRoot]
NoHandle == [lg |-> FALSE, sm |-> FALSE]

-----------------------------------------------------------------------------
(* Both roots: the tiered part of lib/imd.c                                *)

\* Mutant: the small root is not limited to its region.
imd_create_tiered_empty_open ==
  LET lg == imdr_entry_add(imdr_create_empty(Top, CBMEM_ROOT_MIN_SIZE, CBMEM_LG_ALIGN),
                           SMALL_REGION_ID, sm_region_size)
  IN [lg |-> lg,
      sm |-> imdr_create_empty(imdr_entry_at(lg, 2) + sm_region_size,
                               CBMEM_SM_ROOT_SIZE, CBMEM_SM_ALIGN)]

imd_create_tiered_empty ==
  LET lg == imdr_entry_add(imdr_create_empty(Top, CBMEM_ROOT_MIN_SIZE, CBMEM_LG_ALIGN),
                           SMALL_REGION_ID, sm_region_size)
      sm == imdr_create_empty(imdr_entry_at(lg, 2) + sm_region_size,
                              CBMEM_SM_ROOT_SIZE, CBMEM_SM_ALIGN)
  IN [lg |-> lg, sm |-> imdr_limit_size(sm, sm_region_size)]

SmallLimit(m) ==
  LET e == imdr_entry_find(m.lg, SMALL_REGION_ID)
  IN imdr_entry_at(m.lg, e) + m.lg.entries[e].size

\* The handle imd_recover() sets up.
imd_recover(m) ==
  IF ~imdr_recover(m.lg, Top) THEN NoHandle
  ELSE IF imdr_entry_find(m.lg, SMALL_REGION_ID) = 0 THEN [lg |-> TRUE, sm |-> FALSE]
  ELSE IF imdr_recover(m.sm, SmallLimit(m)) THEN [lg |-> TRUE, sm |-> TRUE]
  ELSE NoHandle

\* imd_handle_init_partial_recovery(): nothing is checked.
PartialRecovery(m) ==
  [lg |-> TRUE, sm |-> imdr_entry_find(m.lg, SMALL_REGION_ID) # 0]

\* Mutant: the small root stays open.
imd_lockdown_large(m, h) == [m EXCEPT !.lg.locked = TRUE]

imd_lockdown(m, h) ==
  [lg |-> [m.lg EXCEPT !.locked = TRUE],
   sm |-> IF h.sm THEN [m.sm EXCEPT !.locked = TRUE] ELSE m.sm]

\* Mutant: only the small root is searched.
imd_entry_find_small(m, h, id) ==
  IF h.sm /\ imdr_entry_find(m.sm, id) # 0 THEN <<"sm", imdr_entry_find(m.sm, id)>>
  ELSE <<"none", 0>>

\* An entry is a root and an index; the small root is searched first.
imd_entry_find(m, h, id) ==
  IF h.sm /\ imdr_entry_find(m.sm, id) # 0 THEN <<"sm", imdr_entry_find(m.sm, id)>>
  ELSE IF h.lg /\ imdr_entry_find(m.lg, id) # 0 THEN <<"lg", imdr_entry_find(m.lg, id)>>
  ELSE <<"none", 0>>

\* imd_entry_add() prefers the small root for what takes at most a quarter of
\* what is left there, and falls back on the large one.
imd_entry_add(m, h, id, size) ==
  IF /\ h.sm
     /\ size <= m.sm.entry_align \/ size <= imd_root_data_left(m.sm) \div 4
     /\ CanAdd(m.sm, size)
  THEN [m EXCEPT !.sm = imdr_entry_add(@, id, size)]
  ELSE IF h.lg /\ CanAdd(m.lg, size) THEN [m EXCEPT !.lg = imdr_entry_add(@, id, size)]
  ELSE m

-----------------------------------------------------------------------------
Init ==
  /\ mem = NoMemory /\ imd = NoHandle
  /\ stage = "off" /\ resumed = FALSE
  /\ saved = NoMemory

\* imd_init_backing_with_recover()
Backing == IF stage = "romstage" THEN PartialRecovery(mem) ELSE imd

Running == stage \in {"romstage", "ramstage"}

\* romstage, cbmem_recovery(0): cbmem_initialize_empty()
ColdBoot ==
  /\ stage = "off"
  /\ mem' = imd_create_tiered_empty
  /\ stage' = "romstage"
  /\ resumed' = FALSE
  /\ saved' = NoMemory
  /\ UNCHANGED imd

\* romstage, cbmem_recovery(1): cbmem_initialize() recovers and locks, or fails.
WakeUp ==
  /\ stage = "asleep"
  /\ LET h == imd_recover(mem)
     IN IF h = NoHandle
        THEN stage' = "failed" /\ UNCHANGED <<mem, resumed>>
        ELSE /\ mem' = imd_lockdown(mem, h)
             /\ stage' = "romstage"
             /\ resumed' = TRUE
  /\ UNCHANGED <<imd, saved>>

\* ramstage, main(): cbmem_initialize() recovers; its result is not looked at.
StartRamstage ==
  /\ stage = "romstage"
  /\ imd' = imd_recover(mem)
  /\ stage' = "ramstage"
  /\ UNCHANGED <<mem, resumed, saved>>

\* cbmem_add(), cbmem_entry_add(): imd_entry_find_or_add()
cbmem_add(id, size) ==
  /\ Running
  /\ imd_entry_find(mem, Backing, id) = <<"none", 0>>
  /\ mem' = imd_entry_add(mem, Backing, id, size)
  /\ UNCHANGED <<imd, stage, resumed, saved>>

\* cbmem_entry_remove() of the entry that cbmem_entry_find() gives for the id.
cbmem_entry_remove(id) ==
  LET e == imd_entry_find(mem, Backing, id)
  IN /\ Running
     /\ e[1] # "none"
     /\ CanRemove(mem[e[1]], e[2])
     /\ mem' = [mem EXCEPT ![e[1]] = imdr_entry_remove(@)]
     /\ UNCHANGED <<imd, stage, resumed, saved>>

-----------------------------------------------------------------------------
(* The machine                                                             *)

Suspend ==
  /\ stage = "ramstage"
  /\ stage' = "asleep"
  /\ saved' = mem
  /\ imd' = NoHandle
  /\ UNCHANGED <<mem, resumed>>

\* The contents of the memory are lost while the machine sleeps.
MemoryLost ==
  /\ stage = "asleep"
  /\ mem' = NoMemory
  /\ UNCHANGED <<imd, stage, resumed, saved>>

\* Reset or power cycle; a board that failed to wake up resets itself.
Reset ==
  /\ stage # "off"
  /\ stage' = "off"
  /\ imd' = NoHandle
  /\ UNCHANGED <<mem, resumed, saved>>

Next ==
  \/ ColdBoot \/ WakeUp \/ StartRamstage \/ Suspend \/ MemoryLost \/ Reset
  \/ \E id \in Ids, size \in Sizes : cbmem_add(id, size)
  \/ \E id \in Ids : cbmem_entry_remove(id)

Spec == Init /\ [][Next]_vars

-----------------------------------------------------------------------------
(* Properties                                                              *)

Roots ==
  [valid : BOOLEAN, limit : Int, address : Int, entry_align : Nat, max_entries : Int,
   max_offset : Int, locked : BOOLEAN,
   entries : Seq([id : Ids \cup {SMALL_REGION_ID, CBMEM_ID_IMD_ROOT},
                  start_offset : Int, size : Nat])]

\* Types; and a root never holds more entries than it has room for.
TypeOK ==
  /\ mem \in [lg : Roots, sm : Roots] /\ saved \in [lg : Roots, sm : Roots]
  /\ imd \in [lg : BOOLEAN, sm : BOOLEAN]
  /\ stage \in {"off", "romstage", "ramstage", "asleep", "failed"}
  /\ resumed \in BOOLEAN
  /\ \A t \in {"lg", "sm"} : Len(mem[t].entries) <= mem[t].max_entries

\* First address and first address behind entry i of root r.
Start(r, i) == imdr_entry_at(r, i)
End(r, i)   == imdr_entry_at(r, i) + r.entries[i].size

\* The memory of two entries of one root.
Disjoint(r) ==
  \A i, j \in 1 .. Len(r.entries) : i < j => End(r, j) <= Start(r, i)

\* No memory is handed out twice: the entries of a root are disjoint, lie below
\* its limit, and those of the small root stay inside the region that the
\* large root has set apart for it.
RangesDisjoint ==
  Running =>
    /\ Disjoint(mem.lg) /\ Disjoint(mem.sm)
    /\ \A i \in 1 .. Len(mem.lg.entries) : End(mem.lg, i) <= Top
    /\ \A i \in 1 .. Len(mem.sm.entries) :
         Start(mem.lg, 2) <= Start(mem.sm, i) /\ End(mem.sm, i) <= End(mem.lg, 2)

\* What one stage leaves in memory the next one recovers, both roots of it.
Recoverable == Running => imd_recover(mem) = [lg |-> TRUE, sm |-> TRUE]

\* All the entries with an id.
Having(id) ==
  {e \in {"lg", "sm"} \X (2 .. root_num_entries(CBMEM_ROOT_MIN_SIZE)
                               + root_num_entries(CBMEM_SM_ROOT_SIZE)) :
     e[2] <= Len(mem[e[1]].entries) /\ mem[e[1]].entries[e[2]].id = id}

\* cbmem_add() finds what is there before it adds: an id is in the directory
\* at most once, whichever stage, handle and root the calls went to.
IdsUnique == Running => \A id \in Ids : \A e, d \in Having(id) : e = d

\* Where cbmem_find() finds an id.
Place(m, id) ==
  LET e == imd_entry_find(m, [lg |-> TRUE, sm |-> TRUE], id)
  IN IF e[1] = "none" THEN <<>>
     ELSE <<imdr_entry_at(m[e[1]], e[2]), m[e[1]].entries[e[2]].size>>

\* After a wake-up the directory is the one the operating system was left with:
\* the firmware adds nothing to and takes nothing from memory it does not own.
ResumeIntact ==
  Running /\ resumed =>
    mem.lg.entries = saved.lg.entries /\ mem.sm.entries = saved.sm.entries

\* cbmem.h on cbmem_initialize(): "Returns 0 if cbmem was recovered or 1 if
\* cbmem had to be reinitialized."
OneMeansReinitialized == stage = "failed" => mem.lg.valid
=============================================================================
