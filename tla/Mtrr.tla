-------------------------------- MODULE Mtrr --------------------------------
(***************************************************************************)
(* Memory types: cpu/x86/mtrr/mtrr.c collects the resources of all devices *)
(* into a list of ranges (MemRange), works out a set of variable range     *)
(* registers (MTRRs) for them, and writes the same set to every processor. *)
(* A stage that runs from flash may ask for a temporary set, which is      *)
(* taken back before the payload or the operating system gets control.     *)
(*                                                                         *)
(* Resources are in bytes, everything about MTRRs in pages (RANGE_SHIFT).  *)
(* A register is a base, a size and a type; its mask is the complement of  *)
(* size - 1.                                                               *)
(***************************************************************************)
EXTENDS MemRange, FiniteSets, FiniteSetsExt

CONSTANTS
  AddressBits,     \* cpu_phys_address_size(), less RANGE_SHIFT
  RANGE_1MB, RANGE_4GB, MTRR_MIN_ALIGN,
  FixedStep,       \* step of the fixed ranges below 1 MiB, by their start
  total_mtrrs,     \* MTRRs the processor has
  OS_MTRRS,        \* of which these are left to the operating system
  LowRam,          \* resources: memory from address 0,
  Cacheable,       \* other memory,
  Uncacheable,     \* device memory and holes,
  Prefetchable,    \* prefetchable memory of a VGA device,
  MaxUncacheable,  \* bound: uncacheable resources of a machine
  TempRanges,      \* what mtrr_use_temp_range() may be called for
  CPUs, BSP

Top   == 2 ^ AddressBits
Pages == 0 .. Top - 1
bios_mtrrs == total_mtrrs - OS_MTRRS
Types == {"UC", "WC", "WP", "WB"}

FixedStarts == DOMAIN FixedStep

ASSUME MtrrAssumption ==
  /\ {RANGE_1MB, RANGE_4GB, MTRR_MIN_ALIGN} \subseteq {2 ^ k : k \in 0 .. AddressBits}
  /\ RANGE_1MB < MTRR_MIN_ALIGN /\ MTRR_MIN_ALIGN < RANGE_4GB
  /\ UNION {s .. s + FixedStep[s] - 1 : s \in FixedStarts} = 0 .. RANGE_1MB - 1
  /\ total_mtrrs \in Nat /\ OS_MTRRS \in 0 .. total_mtrrs
  /\ BSP \in CPUs

\* Where the resources of a chipset are: see README, "Mtrr".
ASSUME ResourceAssumption ==
  LET limit == RANGE_4GB * PageSize
  IN  /\ \A r \in LowRam : r.base = 0
      /\ \A r \in LowRam \cup Cacheable \cup Uncacheable \cup Prefetchable \cup TempRanges :
           /\ r.size > 0 /\ r.base + r.size <= Top * PageSize
           /\ r.base >= limit \/ r.base + r.size <= limit
           /\ \A s \in FixedStarts :
                {ALIGN_DOWN(r.base), ALIGN_UP(r.base + r.size)}
                  \cap (s * PageSize + 1 .. (s + FixedStep[s]) * PageSize - 1) = {}

VARIABLES
  pc,          \* what the boot processor does next
  above4gb,    \* argument of x86_setup_var_mtrrs()
  addr_space,  \* get_physical_address_space()
  added,       \* uncacheable resources so far
  sol,         \* mtrr_global_solution
  msrs,        \* the registers of each processor
  temp,        \* history: the temporary range in use, or NoRange
  put_back_original_solution,
  want,        \* history: the type each page should have, or "none"
  removed,     \* history: write combining was given up in sol
  counts       \* history: the number of MTRRs calc_var_mtrrs() counted for sol

collect == <<addr_space, added, want>>
tempVars == <<temp, put_back_original_solution>>
vars == <<pc, above4gb, collect, sol, msrs, tempVars, removed, counts>>

NoRange == [base |-> 0, size |-> 0, type |-> "none"]
NoSolution == [default |-> "none", regs |-> <<>>, num_used |-> 0, fixed |-> <<>>]

\* A tag: the type, and MTRR_RANGE_UC_USE_HOLE.
Tag(type) == [type |-> type, hole |-> FALSE]

Init ==
  /\ pc = "ram" /\ above4gb \in BOOLEAN
  /\ addr_space = <<>> /\ added = 0 /\ want = [p \in Pages |-> "none"]
  /\ sol = NoSolution /\ msrs = [c \in CPUs |-> NoSolution]
  /\ temp = NoRange /\ put_back_original_solution = FALSE
  /\ removed = FALSE /\ counts = 0

-----------------------------------------------------------------------------
(* get_physical_address_space() *)

\* The pages a range of bytes touches.
PagesOf(r) == ALIGN_DOWN(r.base) \div PageSize .. (r.base + r.size - 1) \div PageSize

Insert(r, type) ==
  /\ addr_space' = memranges_insert(addr_space, r.base, r.size, Tag(type))
  /\ want' = [p \in Pages |-> IF p \in PagesOf(r) THEN type ELSE want[p]]
  /\ UNCHANGED <<above4gb, sol, msrs, tempVars, removed, counts>>

\* memranges_init(): cacheable resources, of which one begins at 0.
AddLowRam ==
  /\ pc = "ram"
  /\ \E r \in LowRam : Insert(r, "WB")
  /\ pc' = "cacheable" /\ UNCHANGED added

AddCacheable ==
  /\ pc = "cacheable"
  /\ \E r \in Cacheable : Insert(r, "WB")
  /\ pc' = "uncacheable" /\ UNCHANGED added

\* Resources that are not cacheable win over those that are.
AddUncacheable ==
  /\ pc \in {"cacheable", "uncacheable"} /\ added < MaxUncacheable
  /\ \E r \in Uncacheable : Insert(r, "UC")
  /\ pc' = "uncacheable" /\ added' = added + 1

\* Those filter_vga_wrcomb() lets through win over both.
AddPrefetchable ==
  /\ pc = "uncacheable"
  /\ \E r \in Prefetchable : Insert(r, "WC")
  /\ pc' = "fill" /\ UNCHANGED added

FillHoles ==
  /\ pc \in {"cacheable", "uncacheable", "fill"}
  /\ addr_space' = memranges_fill_holes_up_to(addr_space, RANGE_4GB * PageSize, Tag("UC"))
  /\ want' = [p \in Pages |-> IF p < RANGE_4GB /\ want[p] = "none" THEN "UC" ELSE want[p]]
  /\ pc' = "setup"
  /\ UNCHANGED <<above4gb, added, sol, msrs, tempVars, removed, counts>>

-----------------------------------------------------------------------------
(* The calculation *)

range_entry_base_mtrr_addr(r) == r.begin \div PageSize
range_entry_end_mtrr_addr(r)  == (r.end + 1) \div PageSize

\* The largest power of two that the base is aligned to and the size has room for.
MtrrSize(base, size) ==
  Max({p \in {2 ^ k : k \in 0 .. AddressBits} : p <= size /\ base % p = 0})

calc_var_mtrr_range(base, size, type) ==
  LET range[b \in 0 .. 2 * Top, s \in 0 .. 2 * Top] ==
        IF s = 0 THEN <<>>
        ELSE LET m == MtrrSize(b, s)
             IN  <<[base |-> b, size |-> m, type |-> type]>> \o range[b + m, s - m]
  IN  range[base, size]

\* The part of an entry that variable MTRRs are needed for: fixed ones take
\* precedence below 1 MiB, and 4 GiB may be the limit.
Begin(r) ==
  LET a == range_entry_base_mtrr_addr(r) IN IF a <= RANGE_1MB THEN 0 ELSE a
End(r, above) ==
  LET a == range_entry_end_mtrr_addr(r) IN IF ~above /\ a > RANGE_4GB THEN RANGE_4GB ELSE a
Ignored(r, above) ==
  \/ range_entry_end_mtrr_addr(r) <= RANGE_1MB
  \/ ~above /\ Begin(r) >= RANGE_4GB

AlignDown(a) == (a \div MTRR_MIN_ALIGN) * MTRR_MIN_ALIGN
AlignUp(a)   == AlignDown(a + MTRR_MIN_ALIGN - 1)

calc_var_mtrrs_without_hole(r, above) ==
  LET a1 == Begin(r)
      c2 == End(r, above)
      Upto(from, to) == calc_var_mtrr_range(from, to - from, r.tag.type)
  IN  IF Ignored(r, above) THEN <<>>
      ELSE IF c2 - a1 < MTRR_MIN_ALIGN THEN Upto(a1, c2)
      ELSE Upto(a1, AlignUp(a1)) \o Upto(AlignUp(a1), AlignDown(c2)) \o Upto(AlignDown(c2), c2)

\* Mutant: it is not checked that the hole is the next entry's.
HoleAllowed_always(entries, i, b2) == TRUE

\* A hole up to b2 is part of the next entry, or behind the last one.
HoleAllowed(entries, i, b2) ==
  i < Len(entries) =>
    /\ entries[i + 1].tag.type = "UC"
    /\ range_entry_end_mtrr_addr(entries[i + 1]) >= b2

\* The default type is UC whenever this is called.
calc_var_mtrrs_with_hole(entries, i, above) ==
  LET r  == entries[i]
      a1 == Begin(r)
      a2 == End(r, above)
      b2 == AlignUp(a2)
      up == a1 + Max({p \in {2 ^ k : k \in 0 .. AddressBits} : a1 % p = 0})
  IN  IF Ignored(r, above) THEN <<>>
      ELSE IF a1 >= RANGE_4GB /\ i = Len(entries) /\ up >= a2
      THEN calc_var_mtrr_range(a1, up - a1, r.tag.type)
      ELSE IF HoleAllowed(entries, i, b2)
      THEN calc_var_mtrr_range(a1, b2 - a1, r.tag.type)
             \o calc_var_mtrr_range(a2, b2 - a2, "UC")
      ELSE calc_var_mtrr_range(a1, a2 - a1, r.tag.type)

\* Whether entry i takes fewer MTRRs, or as many, with a hole; it must be WB.
HoleIsBetter(entries, i, above) ==
  /\ entries[i].tag.type = "WB"
  /\ Len(calc_var_mtrrs_with_hole(entries, i, above))
       <= Len(calc_var_mtrrs_without_hole(entries[i], above))

\* __calc_var_mtrrs(): marks are set, never taken away ...
Marked(entries, above) ==
  [i \in DOMAIN entries |->
     IF HoleIsBetter(entries, i, above) THEN [entries[i] EXCEPT !.tag.hole = TRUE] ELSE entries[i]]

\* ... and the MTRRs are counted for each of the two default types.
WbCount(entries, above) ==
  MapThenSumSet(LAMBDA i : IF entries[i].tag.type = "WB" THEN 0
                           ELSE Len(calc_var_mtrrs_without_hole(entries[i], above)),
                DOMAIN entries)
UcCount(entries, above) ==
  MapThenSumSet(LAMBDA i : IF entries[i].tag.type = "UC" THEN 0
                           ELSE IF HoleIsBetter(entries, i, above)
                           THEN Len(calc_var_mtrrs_with_hole(entries, i, above))
                           ELSE Len(calc_var_mtrrs_without_hole(entries[i], above)),
                DOMAIN entries)

TooMany(entries, above) ==
  WbCount(entries, above) > bios_mtrrs /\ UcCount(entries, above) > bios_mtrrs

\* calc_var_mtrrs(): the list afterwards; write combining may be given up.
Calculated(entries, above) ==
  IF TooMany(entries, above)
  THEN Marked(memranges_update_tag(Marked(entries, above), Tag("WC"), Tag("UC")), above)
  ELSE Marked(entries, above)

DefaultType(entries, above) ==
  IF WbCount(entries, above) < UcCount(entries, above) THEN "WB" ELSE "UC"

\* Mutant: the mark of an entry is not looked at.
UseHole_never(r, default) == FALSE

UseHole(r, default) == default = "UC" /\ r.tag.hole

\* prepare_var_mtrrs(); prep_var_mtrr() drops what is one too many.
prepare_var_mtrrs(entries, default, above) ==
  LET ForEntry(i) ==
        IF entries[i].tag.type = default THEN <<>>
        ELSE IF UseHole(entries[i], default) THEN calc_var_mtrrs_with_hole(entries, i, above)
        ELSE calc_var_mtrrs_without_hole(entries[i], above)
      regs == FoldLeftDomain(LAMBDA done, i : done \o ForEntry(i), <<>>, entries)
  IN  [regs |-> SubSeq(regs, 1, Min({Len(regs), total_mtrrs})), num_used |-> Len(regs)]

\* The solution for a list of ranges.
Solution(entries, above, fixed) ==
  LET done == Calculated(entries, above)
      default == DefaultType(done, above)
      prepared == prepare_var_mtrrs(done, default, above)
  IN  [default |-> default, regs |-> prepared.regs, num_used |-> prepared.num_used,
       fixed |-> fixed]

\* calc_fixed_mtrrs(): the type at the start of each fixed range, else uncacheable.
\* Assumed of the resources: below 1 MiB they begin and end with a fixed range.  With
\* another boundary the loop of the code misses its end and leaves its tables.
fixed_mtrr_types(entries) ==
  [s \in FixedStarts |->
     IF \E i \in DOMAIN entries : Covers(entries[i], s * PageSize)
     THEN entries[CHOOSE i \in DOMAIN entries : Covers(entries[i], s * PageSize)].tag.type
     ELSE "UC"]

-----------------------------------------------------------------------------
(***************************************************************************)
(* commit_var_mtrrs() writes num_used registers, those that do not exist   *)
(* included, which is a general protection fault.                          *)
(***************************************************************************)
Commit(c, s) ==
  IF s.num_used <= total_mtrrs
  THEN msrs' = [msrs EXCEPT ![c] = s] /\ UNCHANGED pc
  ELSE pc' = "fault" /\ UNCHANGED msrs

\* x86_setup_mtrrs() on the boot processor, which calculates ...
SetupBsp ==
  /\ pc = "setup" /\ sol = NoSolution
  /\ addr_space' = Calculated(addr_space, above4gb)
  /\ sol' = Solution(addr_space, above4gb, fixed_mtrr_types(addr_space))
  /\ removed' = (TooMany(addr_space, above4gb)
                   /\ \E i \in DOMAIN addr_space : addr_space[i].tag = Tag("WC"))
  /\ counts' = Min({WbCount(addr_space', above4gb), UcCount(addr_space', above4gb)})
  /\ Commit(BSP, sol')
  /\ UNCHANGED <<above4gb, added, want, tempVars>>

\* ... and on the others, which take what was calculated.
SetupAp(c) ==
  /\ pc = "setup" /\ sol # NoSolution
  /\ msrs[c] = NoSolution
  /\ Commit(c, sol)
  /\ UNCHANGED <<above4gb, collect, sol, tempVars, removed, counts>>

\* The copy of the list without marks, write combining, and with the new range.
TempSpace(r) ==
  LET Plain(t) == Tag(IF t.type = "WC" THEN "UC" ELSE t.type)
      copy == FoldLeft(LAMBDA done, e : memranges_insert(done, e.begin, e.end - e.begin + 1,
                                                         Plain(e.tag)),
                       <<>>, addr_space)
  IN  memranges_insert(copy, r.base, r.size, Tag(r.type))

\* mtrr_use_temp_range(), on the boot processor; addresses above 4 GiB included.
UseTempRange(r) ==
  /\ pc = "setup" /\ msrs[BSP] # NoSolution
  /\ Commit(BSP, Solution(TempSpace(r), TRUE, msrs[BSP].fixed))
  /\ temp' = r /\ put_back_original_solution' = TRUE
  /\ UNCHANGED <<above4gb, collect, sol, removed, counts>>

\* Mutant: the temporary solution is left in place.
RemoveTempSolution_never ==
  /\ pc = "setup" /\ \A c \in CPUs : msrs[c] # NoSolution
  /\ pc' = "handoff"
  /\ UNCHANGED <<above4gb, collect, sol, msrs, tempVars, removed, counts>>

\* remove_temp_solution(), before the payload or the operating system.
RemoveTempSolution ==
  /\ pc = "setup" /\ \A c \in CPUs : msrs[c] # NoSolution
  /\ msrs' = IF put_back_original_solution THEN [msrs EXCEPT ![BSP] = sol] ELSE msrs
  /\ temp' = NoRange
  /\ pc' = "handoff"
  /\ UNCHANGED <<above4gb, collect, sol, put_back_original_solution, removed, counts>>

\* The payload has control, or the machine has stopped.
Finished == pc \in {"handoff", "fault"} /\ UNCHANGED vars

Next ==
  \/ AddLowRam \/ AddCacheable \/ AddUncacheable \/ AddPrefetchable \/ FillHoles
  \/ SetupBsp \/ RemoveTempSolution \/ Finished
  \/ \E c \in CPUs \ {BSP} : SetupAp(c)
  \/ \E r \in TempRanges : UseTempRange(r)

Spec == Init /\ [][Next]_vars

-----------------------------------------------------------------------------
(* Properties *)

\* Whether the register matches: the address and the base agree under the mask.
Matches(reg, p) == p \div reg.size = reg.base \div reg.size

\* The type the processor uses for a page (Intel SDM, volume 3, 11.11.4.1).
EffectiveType(m, p) ==
  LET types == {m.regs[i].type : i \in {j \in DOMAIN m.regs : Matches(m.regs[j], p)}}
  IN  IF p < RANGE_1MB
      THEN m.fixed[CHOOSE s \in FixedStarts : s <= p /\ p < s + FixedStep[s]]
      ELSE IF types = {} THEN m.default
      ELSE IF "UC" \in types THEN "UC"
      ELSE IF Cardinality(types) = 1 THEN CHOOSE t \in types : TRUE
      ELSE "undefined"

\* Types; and every register in use is aligned to its size.
TypeOK ==
  /\ pc \in {"ram", "cacheable", "uncacheable", "fill", "setup", "handoff", "fault"}
  /\ added \in 0 .. MaxUncacheable
  /\ want \in [Pages -> Types \cup {"none"}]
  /\ \A c \in CPUs : \A i \in DOMAIN msrs[c].regs :
       LET r == msrs[c].regs[i]
       IN  r.type \in Types /\ r.base % r.size = 0 /\ r.size \in {2 ^ k : k \in 0 .. AddressBits}

(***************************************************************************)
(* After any insertions, overlapping or not, the list of ranges is in      *)
(* order, without overlaps and as short as can be, and says of every       *)
(* address what the last insertion that covers it said.                    *)
(***************************************************************************)
RangesExact ==
  /\ WellFormed(addr_space)
  /\ \A p \in Pages :
       LET on == {i \in DOMAIN addr_space : Covers(addr_space[i], p * PageSize)}
           type == IF removed /\ want[p] = "WC" THEN "UC" ELSE want[p]
       IN  IF type = "none" THEN on = {}
           ELSE \E i \in on : on = {i} /\ addr_space[i].tag.type = type

\* The types the registers were set up for, with the temporary range.
Wanted(c, p) ==
  IF c = BSP /\ temp # NoRange
  THEN IF p >= RANGE_1MB /\ p \in PagesOf(temp) THEN temp.type
       ELSE IF want[p] = "WC" /\ p >= RANGE_1MB THEN "UC" ELSE want[p]
  ELSE IF want[p] = "WC" /\ removed /\ p >= RANGE_1MB THEN "UC" ELSE want[p]

(***************************************************************************)
(* The registers of every processor are ones it accepts, aligned to their  *)
(* size, and give each page the type of its resource, in whichever of the  *)
(* three ways they were worked out: memory is cached and devices are not.  *)
(* Addresses above 4 GiB that belong to no resource, or that the caller    *)
(* left out, are nobody's.  Nothing is said of a machine (pc is "fault")   *)
(* whose resources need more registers than there are, even without write  *)
(* combining: commit_var_mtrrs() writes registers that do not exist.       *)
(***************************************************************************)
CachedAsWanted ==
  /\ TypeOK
  /\ \A c \in CPUs : msrs[c] # NoSolution /\ pc # "fault" =>
       \A p \in Pages :
         (p < RANGE_4GB \/ ((above4gb \/ (c = BSP /\ temp # NoRange)) /\ Wanted(c, p) # "none"))
           => EffectiveType(msrs[c], p) = Wanted(c, p)

(***************************************************************************)
(* As many MTRRs are used as were counted when the default type was chosen *)
(* and compared with what the processor has, unless write combining was    *)
(* given up in between.                                                    *)
(***************************************************************************)
CountedRight == sol # NoSolution /\ ~removed => sol.num_used = counts

(***************************************************************************)
(* mtrr.c: "Note that the optimal algorithm for UC default is marked in    *)
(* the tag of each range", and "The lowest count is then used".  Not so    *)
(* when write combining was given up: the ranges are counted anew and the  *)
(* marks of the first time remain.                                         *)
(***************************************************************************)
OptimalMarked == sol # NoSolution => sol.num_used = counts

\* At the hand-off all processors have the same registers, those of sol, although
\* only one of them may have had temporary ones.
SameEverywhere == pc = "handoff" => \A c \in CPUs : msrs[c] = sol
=============================================================================
