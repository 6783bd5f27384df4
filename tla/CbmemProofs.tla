---------------------------- MODULE CbmemProofs -----------------------------
(* Machine-checked theorems about Cbmem, for any sizes, alignments and ids, *)
(* any number of entries, sleeps and resets, and about StageCache: the      *)
(* loader is a user of CBMEM, and what is proved of CBMEM holds with it.    *)
(* Nothing of the first part depends on the loader.                         *)
EXTENDS StageCache, TLAPS, SequenceTheorems, WellFoundedInduction

-----------------------------------------------------------------------------
(* CBMEM *)

\* One root: entry 1 covers the root, and every later entry lies below all the
\* earlier ones.
RootOK(r) ==
  /\ r \in Roots
  /\ r.entry_align # 0
  /\ Len(r.entries) >= 1
  /\ Len(r.entries) <= r.max_entries
  /\ r.entries[1].start_offset = 0
  /\ r.entries[1].size = r.limit - r.address
  /\ \A i, j \in 1 .. Len(r.entries) :
       i < j => r.entries[j].start_offset + r.entries[j].size <= r.entries[i].start_offset

\* The large root: its second entry is the small region.
LargeOK(m) ==
  /\ RootOK(m.lg)
  /\ m.lg.limit = Top
  /\ m.lg.address = Top - CBMEM_ROOT_MIN_SIZE
  /\ Len(m.lg.entries) >= 2
  /\ m.lg.entries[2].id = SMALL_REGION_ID
  /\ m.lg.entries[2].size = sm_region_size

\* The small root: it ends with the small region and may not leave it.
SmallOK(m) ==
  /\ RootOK(m.sm)
  /\ m.sm.limit = End(m.lg, 2)
  /\ m.sm.address = m.sm.limit - CBMEM_SM_ROOT_SIZE
  /\ m.sm.max_offset # 0
  /\ m.sm.max_offset = CBMEM_SM_ROOT_SIZE - sm_region_size
  /\ \A i \in 1 .. Len(m.sm.entries) : m.sm.entries[i].start_offset >= m.sm.max_offset

\* Memory in which the two roots are in order.
MemOK(m) ==
  /\ m = [lg |-> m.lg, sm |-> m.sm]
  /\ m.lg.valid = TRUE /\ LargeOK(m) /\ SmallOK(m)

\* RangesDisjoint is not inductive: that the memory of a new entry is free
\* depends on the order of all the offsets, on the limit of the small root and
\* on where the large root has put the small region; and what a wake-up finds
\* must have been in order when the machine went to sleep.
IInv ==
  /\ TypeOK
  /\ mem = NoMemory \/ MemOK(mem)
  /\ Running => MemOK(mem)

\* ALIGN_UP() rounds up.
LEMMA AlignUp ==
  ASSUME NEW x \in Nat, NEW a \in Nat \ {0}
  PROVE  ALIGN_UP(x, a) \in Nat /\ x <= ALIGN_UP(x, a)
<1> DEFINE y == x + a - 1
<1>1. y \in Nat
  OBVIOUS
<1>2. /\ y \div a \in Nat /\ y % a \in 0 .. a - 1
      /\ y = a * (y \div a) + (y % a)
  BY <1>1, SMT
<1>3. a * (y \div a) = (y \div a) * a
  BY <1>2, SMT
<1>4. (y \div a) * a \in Nat
  BY <1>2, SMT
<1>5. x <= (y \div a) * a
  BY <1>2, <1>3, <1>4, SMT
<1> QED
  BY <1>4, <1>5 DEF ALIGN_UP

\* A set of natural numbers has a smallest element.
LEMMA MinInSet ==
  ASSUME NEW S \in SUBSET Nat, S # {}
  PROVE  Min(S) \in S /\ \A y \in S : Min(S) <= y
<1> DEFINE R == OpToRel(<, Nat)
<1>1. \E x \in S : \A y \in S : ~ (<<y, x>> \in R)
  <2> HIDE DEF R
  <2>1. IsWellFoundedOn(R, Nat)
    BY NatLessThanWellFounded DEF R
  <2> QED
    BY <2>1, WFMin
<1>2. PICK x \in S : \A y \in S : ~ (<<y, x>> \in R)
  BY <1>1
<1>3. ASSUME NEW y \in S PROVE x <= y
  <2>1. x \in Nat /\ y \in Nat /\ <<y, x>> \notin R
    BY <1>2
  <2>2. y < x => <<y, x>> \in R
    BY <2>1 DEF OpToRel
  <2> HIDE DEF R
  <2>3. ~ (y < x)
    BY <2>1, <2>2
  <2> QED
    BY <2>1, <2>3
<1> QED
  BY <1>3 DEF Min

\* imdr_entry_find() returns 0 or an entry with the id, never entry 1.
LEMMA FindProperties ==
  ASSUME NEW r \in Roots, NEW id
  PROVE  \/ imdr_entry_find(r, id) = 0
         \/ /\ imdr_entry_find(r, id) \in 2 .. Len(r.entries)
            /\ r.entries[imdr_entry_find(r, id)].id = id
<1> DEFINE found == {i \in 2 .. Len(r.entries) : r.entries[i].id = id}
<1>1. Len(r.entries) \in Nat
  BY LenProperties DEF Roots
<1>2. found \in SUBSET Nat
  BY <1>1
<1>3. CASE found = {}
  BY <1>3 DEF imdr_entry_find
<1>4. CASE found # {}
  <2>1. Min(found) \in found
    <3> HIDE DEF found
    <3> QED BY <1>2, <1>4, MinInSet
  <2> QED
    BY <2>1, <1>4 DEF imdr_entry_find
<1> QED
  BY <1>3, <1>4

\* The fields of an entry have their types.
LEMMA OffsetType ==
  ASSUME NEW r, RootOK(r), NEW i \in 1 .. Len(r.entries)
  PROVE  r.entries[i].start_offset \in Int /\ r.entries[i].size \in Nat
<1> DEFINE E == [id : Ids \cup {SMALL_REGION_ID, CBMEM_ID_IMD_ROOT},
                 start_offset : Int, size : Nat]
<1>1. r.entries \in Seq(E)
  BY DEF RootOK, Roots
<1>2. r.entries[i] \in E
  <2> HIDE DEF E
  <2> QED BY <1>1, ElementOfSeq
<1> QED
  BY <1>2

\* n is the root r with one more entry, below all the others and above the limit.
Extends(n, r, id, size) ==
  /\ RootOK(n)
  /\ n.limit = r.limit /\ n.address = r.address /\ n.max_offset = r.max_offset
  /\ n.valid = r.valid /\ n.entry_align = r.entry_align /\ n.max_entries = r.max_entries
  /\ Len(n.entries) = Len(r.entries) + 1
  /\ \A i \in 1 .. Len(r.entries) : n.entries[i] = r.entries[i]
  /\ n.entries[Len(r.entries) + 1].id = id
  /\ n.entries[Len(r.entries) + 1].size = size
  /\ n.entries[Len(r.entries) + 1].start_offset =
       r.entries[Len(r.entries)].start_offset - ALIGN_UP(size, r.entry_align)
  /\ r.max_offset # 0 => n.entries[Len(r.entries) + 1].start_offset >= r.max_offset

\* What an addition does to one root.
LEMMA AddRoot ==
  ASSUME NEW r, RootOK(r), NEW id \in Ids \cup {SMALL_REGION_ID}, NEW size \in Nat,
         CanAdd(r, size)
  PROVE  Extends(imdr_entry_add(r, id, size), r, id, size)
<1> DEFINE k == Len(r.entries)
           used == ALIGN_UP(size, r.entry_align)
           E == [id : Ids \cup {SMALL_REGION_ID, CBMEM_ID_IMD_ROOT},
                 start_offset : Int, size : Nat]
           e == Entry(id, r.entries[k].start_offset - used, size)
           n == imdr_entry_add(r, id, size)
<1>1. r.entries \in Seq(E) /\ k \in Nat /\ r.entry_align \in Nat \ {0}
  BY LenProperties DEF RootOK, Roots
<1>2. used \in Nat /\ size <= used
  <2> HIDE DEF used
  <2> QED BY <1>1, AlignUp DEF used
<1>3. k \in 1 .. k /\ \A i \in 1 .. k : r.entries[i] \in E
  <2>1. k \in 1 .. k
    BY <1>1 DEF RootOK
  <2>2. ASSUME NEW i \in 1 .. k PROVE r.entries[i] \in E
    <3> HIDE DEF E
    <3> QED BY <1>1, ElementOfSeq
  <2> QED BY <2>1, <2>2
<1> HIDE DEF used
<1>4. e \in E
  BY <1>2, <1>3 DEF Entry
<1>5. n = [r EXCEPT !.entries = Append(r.entries, e)]
  BY DEF imdr_entry_add, root_last_entry, used
<1>6. n.entries = Append(r.entries, e)
  <2> HIDE DEF e, n
  <2> QED BY <1>5 DEF RootOK, Roots
<1>7. /\ Append(r.entries, e) \in Seq(E)
      /\ Len(Append(r.entries, e)) = k + 1
      /\ \A i \in 1 .. k : Append(r.entries, e)[i] = r.entries[i]
      /\ Append(r.entries, e)[k + 1] = e
  <2> HIDE DEF e, E
  <2> QED BY <1>1, <1>4, AppendProperties
<1>8. /\ n \in Roots
      /\ n.limit = r.limit /\ n.address = r.address /\ n.max_offset = r.max_offset
      /\ n.valid = r.valid /\ n.entry_align = r.entry_align /\ n.max_entries = r.max_entries
  <2> HIDE DEF e
  <2> QED BY <1>5, <1>7 DEF RootOK, Roots
<1>9. n.entries[k + 1] = e /\ \A i \in 1 .. k : n.entries[i] = r.entries[i]
  BY <1>6, <1>7
<1>10. Len(n.entries) = k + 1 /\ k + 1 <= n.max_entries
  <2>1. k # r.max_entries /\ k <= r.max_entries /\ r.max_entries \in Int
    BY DEF CanAdd, RootOK, Roots
  <2> QED BY <2>1, <1>1, <1>6, <1>7, <1>8
<1>11. e.id = id /\ e.size = size /\ e.start_offset = r.entries[k].start_offset - used
  BY DEF Entry
<1>15. n.entries[k + 1].start_offset \in Int /\ n.entries[k + 1].size \in Nat
  BY <1>4, <1>9
<1>16. \A i, j \in 1 .. k :
         i < j => r.entries[j].start_offset + r.entries[j].size <= r.entries[i].start_offset
  BY DEF RootOK
<1>17. \A i \in 1 .. k : r.entries[i].start_offset \in Int /\ r.entries[i].size \in Nat
  BY <1>3
<1>18. n.entries[k + 1].start_offset + n.entries[k + 1].size <= r.entries[k].start_offset
  BY <1>2, <1>3, <1>9, <1>11, <1>17, SMTT(60)
<1> HIDE DEF n, e, k, E
<1>12. \A i, j \in 1 .. k + 1 :
         i < j => n.entries[j].start_offset + n.entries[j].size <= n.entries[i].start_offset
  <2> SUFFICES ASSUME NEW i \in 1 .. k + 1, NEW j \in 1 .. k + 1, i < j
               PROVE  n.entries[j].start_offset + n.entries[j].size <= n.entries[i].start_offset
    OBVIOUS
  <2>0. i \in 1 .. k /\ n.entries[i] = r.entries[i] /\ r.entries[i].start_offset \in Int
    BY <1>1, <1>9, <1>17
  <2>1. CASE j \in 1 .. k
    BY <2>0, <2>1, <1>9, <1>16
  <2>2. CASE j = k + 1
    <3>1. r.entries[k].start_offset <= r.entries[i].start_offset
      <4>1. CASE i = k
        BY <4>1, <1>3, <1>17
      <4>2. CASE i < k
        <5>1. r.entries[k].start_offset + r.entries[k].size <= r.entries[i].start_offset
          BY <4>2, <2>0, <1>3, <1>16
        <5> QED BY <5>1, <1>3, <1>17, <2>0
      <4> QED BY <4>1, <4>2, <2>0, <1>1
    <3> QED BY <3>1, <2>2, <2>0, <1>3, <1>15, <1>17, <1>18
  <2> QED BY <2>1, <2>2, <1>1
<1>13. r.max_offset # 0 => n.entries[k + 1].start_offset >= r.max_offset
  <2> SUFFICES ASSUME r.max_offset # 0 PROVE n.entries[k + 1].start_offset >= r.max_offset
    OBVIOUS
  <2>1. used <= r.entries[k].start_offset - r.max_offset
    BY DEF CanAdd, imd_root_data_left, root_last_entry, used, k
  <2>2. r.max_offset \in Int
    BY DEF RootOK, Roots
  <2> QED BY <2>1, <2>2, <1>2, <1>3, <1>9, <1>11, <1>17
<1>14. RootOK(n)
  <2>1. n.entries[1] = r.entries[1]
    BY <1>1, <1>3, <1>9
  <2> QED BY <2>1, <1>1, <1>3, <1>8, <1>10, <1>12 DEF RootOK, k
<1> QED
  BY <1>8, <1>9, <1>10, <1>11, <1>13, <1>14 DEF n, k, used, Extends

\* What the removal of the last entry does to one root.
LEMMA RemoveRoot ==
  ASSUME NEW r, RootOK(r), Len(r.entries) >= 2
  PROVE  LET n == imdr_entry_remove(r)
         IN /\ RootOK(n)
            /\ n.limit = r.limit /\ n.address = r.address /\ n.max_offset = r.max_offset
            /\ n.valid = r.valid /\ n.entry_align = r.entry_align /\ n.max_entries = r.max_entries
            /\ Len(n.entries) = Len(r.entries) - 1
            /\ \A i \in 1 .. Len(n.entries) : n.entries[i] = r.entries[i]
<1> DEFINE k == Len(r.entries)
           E == [id : Ids \cup {SMALL_REGION_ID, CBMEM_ID_IMD_ROOT},
                 start_offset : Int, size : Nat]
           t == SubSeq(r.entries, 1, k - 1)
           n == imdr_entry_remove(r)
<1>1. r.entries \in Seq(E) /\ k \in Nat /\ k >= 2
  BY LenProperties DEF RootOK, Roots
<1>2. ASSUME NEW i \in 1 .. k - 1 PROVE r.entries[i] \in E
  <2> HIDE DEF E
  <2> QED BY <1>1, ElementOfSeq
<1>3. /\ t \in Seq(E) /\ Len(t) = k - 1
      /\ \A i \in 1 .. k - 1 : t[i] = r.entries[i]
  <2> HIDE DEF E, k
  <2>1. 1 \in Int /\ k - 1 \in Int /\ 1 <= k - 1
    BY <1>1
  <2>2. /\ SubSeq(r.entries, 1, k - 1) \in Seq(E)
        /\ Len(SubSeq(r.entries, 1, k - 1)) = IF 1 <= k - 1 THEN (k - 1) - 1 + 1 ELSE 0
        /\ \A i \in 1 .. (k - 1) - 1 + 1 : SubSeq(r.entries, 1, k - 1)[i] = r.entries[1 + i - 1]
    BY <2>1, <1>2, SubSeqProperties
  <2> QED BY <2>1, <2>2
<1>4. n = [r EXCEPT !.entries = t]
  BY DEF imdr_entry_remove
<1> HIDE DEF t
<1>5. /\ n \in Roots /\ n.entries = t
      /\ n.limit = r.limit /\ n.address = r.address /\ n.max_offset = r.max_offset
      /\ n.valid = r.valid /\ n.entry_align = r.entry_align /\ n.max_entries = r.max_entries
  <2> HIDE DEF n
  <2> QED BY <1>3, <1>4 DEF RootOK, Roots
<1> HIDE DEF n
<1>6. Len(n.entries) <= n.max_entries
  <2>1. k <= r.max_entries /\ r.max_entries \in Int
    BY DEF RootOK, Roots
  <2> QED BY <2>1, <1>1, <1>3, <1>5
<1>7. \A i, j \in 1 .. k - 1 :
        i < j => n.entries[j].start_offset + n.entries[j].size <= n.entries[i].start_offset
  <2>1. \A i, j \in 1 .. k :
          i < j => r.entries[j].start_offset + r.entries[j].size <= r.entries[i].start_offset
    BY DEF RootOK
  <2> HIDE DEF k, E
  <2> QED BY <2>1, <1>1, <1>3, <1>5
<1>8. RootOK(n)
  <2>1. n.entries[1] = r.entries[1] /\ Len(n.entries) = k - 1
    BY <1>1, <1>3, <1>5
  <2> QED BY <2>1, <1>1, <1>5, <1>6, <1>7 DEF RootOK
<1> QED
  BY <1>1, <1>3, <1>5, <1>8 DEF n

\* The small region is larger than the small root.
LEMMA RegionSize ==
  /\ sm_region_size \in Nat
  /\ CBMEM_SM_ROOT_SIZE < sm_region_size
  /\ ALIGN_UP(sm_region_size, CBMEM_LG_ALIGN) \in Nat
<1> DEFINE n == root_num_entries(CBMEM_SM_ROOT_SIZE)
           d == n * CBMEM_SM_ALIGN
<1>1. /\ n \in Nat \ {0} /\ CBMEM_SM_ALIGN \in Nat \ {0}
      /\ CBMEM_SM_ROOT_SIZE \in Nat \ {0} /\ CBMEM_LG_ALIGN \in Nat \ {0}
  BY CbmemAssumption
<1> HIDE DEF n
<1>2. d \in Nat \ {0}
  BY <1>1, SMT
<1> HIDE DEF d
<1>3. /\ ALIGN_UP(d + CBMEM_SM_ROOT_SIZE, CBMEM_LG_ALIGN) \in Nat
      /\ d + CBMEM_SM_ROOT_SIZE <= ALIGN_UP(d + CBMEM_SM_ROOT_SIZE, CBMEM_LG_ALIGN)
  BY <1>1, <1>2, AlignUp
<1>4. sm_region_size = ALIGN_UP(d + CBMEM_SM_ROOT_SIZE, CBMEM_LG_ALIGN)
  BY DEF sm_region_size, d, n
<1>5. sm_region_size \in Nat /\ CBMEM_SM_ROOT_SIZE < sm_region_size
  BY <1>1, <1>2, <1>3, <1>4
<1> QED
  BY <1>1, <1>5, AlignUp

\* A root without entries.
EmptyRoot(r, limit, root_size, align) ==
  /\ RootOK(r)
  /\ r.valid = TRUE /\ r.locked = FALSE
  /\ r.limit = limit /\ r.address = limit - root_size
  /\ r.max_offset = 0 /\ r.entry_align = align
  /\ r.max_entries = root_num_entries(root_size)
  /\ Len(r.entries) = 1

\* A new root is in order.
LEMMA CreateRoot ==
  ASSUME NEW limit \in Int, NEW root_size \in Nat, NEW align \in Nat \ {0},
         root_num_entries(root_size) \in Nat \ {0}
  PROVE  EmptyRoot(imdr_create_empty(limit, root_size, align), limit, root_size, align)
  BY DEF imdr_create_empty, EmptyRoot, RootOK, Roots, Entry

\* imd_create_tiered_empty() leaves two roots in order.
LEMMA CreateOK == MemOK(imd_create_tiered_empty)
<1> DEFINE r0 == imdr_create_empty(Top, CBMEM_ROOT_MIN_SIZE, CBMEM_LG_ALIGN)
           lg == imdr_entry_add(r0, SMALL_REGION_ID, sm_region_size)
           limit == imdr_entry_at(lg, 2) + sm_region_size
           s0 == imdr_create_empty(limit, CBMEM_SM_ROOT_SIZE, CBMEM_SM_ALIGN)
           sm == imdr_limit_size(s0, sm_region_size)
           m == [lg |-> lg, sm |-> sm]
<1>1. imd_create_tiered_empty = m
  BY DEF imd_create_tiered_empty
<1>2. /\ Top \in Nat /\ CBMEM_ROOT_MIN_SIZE \in Nat /\ CBMEM_LG_ALIGN \in Nat \ {0}
      /\ CBMEM_SM_ROOT_SIZE \in Nat /\ CBMEM_SM_ALIGN \in Nat \ {0}
      /\ root_num_entries(CBMEM_ROOT_MIN_SIZE) \in Nat \ {0, 1}
      /\ root_num_entries(CBMEM_SM_ROOT_SIZE) \in Nat \ {0}
      /\ ALIGN_UP(sm_region_size, CBMEM_LG_ALIGN) <= SIZE_MAX
  BY CbmemAssumption
<1>3. EmptyRoot(r0, Top, CBMEM_ROOT_MIN_SIZE, CBMEM_LG_ALIGN)
  <2>1. Top \in Int /\ root_num_entries(CBMEM_ROOT_MIN_SIZE) \in Nat \ {0}
    BY <1>2
  <2> QED BY <1>2, <2>1, CreateRoot
<1> HIDE DEF r0
<1>4. CanAdd(r0, sm_region_size)
  BY <1>2, <1>3 DEF EmptyRoot, CanAdd, imd_root_data_left
<1>5. /\ RootOK(lg) /\ lg.valid = TRUE
      /\ lg.limit = Top /\ lg.address = Top - CBMEM_ROOT_MIN_SIZE
      /\ Len(lg.entries) = 2
      /\ lg.entries[2].id = SMALL_REGION_ID /\ lg.entries[2].size = sm_region_size
  <2>1. SMALL_REGION_ID \in Ids \cup {SMALL_REGION_ID} /\ RootOK(r0)
    BY <1>3 DEF EmptyRoot
  <2>2. Extends(lg, r0, SMALL_REGION_ID, sm_region_size)
    BY <2>1, <1>4, RegionSize, AddRoot
  <2> HIDE DEF lg
  <2> QED BY <2>2, <1>3 DEF Extends, EmptyRoot
<1> HIDE DEF lg
<1>6. limit \in Int /\ limit = End(lg, 2)
  <2>1. lg.entries[2].start_offset \in Int
    BY <1>5, OffsetType
  <2> QED BY <2>1, <1>2, <1>5, RegionSize DEF imdr_entry_at, End
<1> HIDE DEF limit
<1>7. EmptyRoot(s0, limit, CBMEM_SM_ROOT_SIZE, CBMEM_SM_ALIGN)
  BY <1>2, <1>6, CreateRoot
<1> HIDE DEF s0
<1>8. sm = [s0 EXCEPT !.max_offset = CBMEM_SM_ROOT_SIZE - sm_region_size]
  BY <1>2, <1>6, <1>7, RegionSize DEF EmptyRoot, imdr_limit_size
<1> HIDE DEF sm
<1>9. /\ RootOK(sm) /\ sm.limit = limit /\ sm.address = limit - CBMEM_SM_ROOT_SIZE
      /\ sm.max_offset = CBMEM_SM_ROOT_SIZE - sm_region_size
      /\ sm.entries = s0.entries
  <2>1. s0 \in Roots /\ CBMEM_SM_ROOT_SIZE - sm_region_size \in Int
    BY <1>2, <1>7, RegionSize DEF EmptyRoot, RootOK
  <2>2. /\ sm \in Roots /\ sm.limit = s0.limit /\ sm.address = s0.address
        /\ sm.max_offset = CBMEM_SM_ROOT_SIZE - sm_region_size
        /\ sm.entries = s0.entries /\ sm.max_entries = s0.max_entries
        /\ sm.entry_align = s0.entry_align
    BY <2>1, <1>8 DEF Roots
  <2> QED BY <2>2, <1>7 DEF EmptyRoot, RootOK
<1>10. /\ sm.max_offset # 0
       /\ \A i \in 1 .. Len(sm.entries) : sm.entries[i].start_offset >= sm.max_offset
  BY <1>2, <1>7, <1>9, RegionSize DEF EmptyRoot, RootOK
<1>11. LargeOK(m)
  BY <1>5 DEF LargeOK
<1>12. SmallOK(m)
  BY <1>6, <1>9, <1>10 DEF SmallOK
<1> QED
  BY <1>1, <1>5, <1>11, <1>12 DEF MemOK

\* imd_entry_add() keeps the roots in order.
LEMMA AddOK ==
  ASSUME NEW m, MemOK(m), NEW h, NEW id \in Ids, NEW size \in Nat
  PROVE  MemOK(imd_entry_add(m, h, id, size))
<1> DEFINE a == imd_entry_add(m, h, id, size)
<1>0. RootOK(m.lg) /\ RootOK(m.sm) /\ Len(m.lg.entries) \in Nat /\ Len(m.sm.entries) \in Nat
  BY LenProperties DEF MemOK, LargeOK, SmallOK, RootOK, Roots
<1>1. CASE a = m
  BY <1>1
<1>2. CASE a = [m EXCEPT !.sm = imdr_entry_add(m.sm, id, size)] /\ CanAdd(m.sm, size)
  <2> DEFINE n == imdr_entry_add(m.sm, id, size)
  <2>1. Extends(n, m.sm, id, size)
    BY <1>0, <1>2, AddRoot
  <2>2. a = [lg |-> m.lg, sm |-> n]
    BY <1>2 DEF MemOK
  <2> HIDE DEF n, a
  <2>3. \A i \in 1 .. Len(n.entries) : n.entries[i].start_offset >= n.max_offset
    BY <1>0, <2>1, SMTT(60) DEF Extends, MemOK, SmallOK
  <2>4. SmallOK(a)
    BY <2>1, <2>2, <2>3 DEF Extends, MemOK, SmallOK
  <2>5. LargeOK(a)
    BY <2>2 DEF Extends, MemOK, LargeOK
  <2> QED BY <2>2, <2>4, <2>5 DEF MemOK, a
<1>3. CASE a = [m EXCEPT !.lg = imdr_entry_add(m.lg, id, size)] /\ CanAdd(m.lg, size)
  <2> DEFINE n == imdr_entry_add(m.lg, id, size)
  <2>1. Extends(n, m.lg, id, size)
    BY <1>0, <1>3, AddRoot
  <2>2. a = [lg |-> n, sm |-> m.sm]
    BY <1>3 DEF MemOK
  <2> HIDE DEF n, a
  <2>3. Len(n.entries) >= 2 /\ n.entries[2] = m.lg.entries[2]
    BY <1>0, <2>1 DEF Extends, MemOK, LargeOK
  <2>4. LargeOK(a)
    BY <2>1, <2>2, <2>3 DEF Extends, MemOK, LargeOK
  <2>5. End(a.lg, 2) = End(m.lg, 2)
    BY <2>1, <2>2, <2>3 DEF Extends, End, imdr_entry_at
  <2>6. SmallOK(a)
    BY <2>2, <2>5 DEF Extends, MemOK, SmallOK
  <2> QED BY <2>1, <2>2, <2>4, <2>6 DEF Extends, MemOK, a
<1> QED
  BY <1>1, <1>2, <1>3 DEF imd_entry_add

\* imd_lockdown() keeps the roots in order.
LEMMA LockOK ==
  ASSUME NEW m, MemOK(m), NEW h
  PROVE  MemOK(imd_lockdown(m, h))
<1> DEFINE a == imd_lockdown(m, h)
           lg == [m.lg EXCEPT !.locked = TRUE]
           sm == IF h.sm THEN [m.sm EXCEPT !.locked = TRUE] ELSE m.sm
<1>1. a = [lg |-> lg, sm |-> sm]
  BY DEF imd_lockdown
<1>2. /\ RootOK(lg) /\ lg.limit = m.lg.limit /\ lg.address = m.lg.address
      /\ lg.valid = m.lg.valid /\ lg.entries = m.lg.entries
  BY DEF MemOK, LargeOK, RootOK, Roots
<1>3. /\ RootOK(sm) /\ sm.limit = m.sm.limit /\ sm.address = m.sm.address
      /\ sm.max_offset = m.sm.max_offset /\ sm.entries = m.sm.entries
  BY DEF MemOK, SmallOK, RootOK, Roots
<1> HIDE DEF a, lg, sm
<1>4. LargeOK(a)
  BY <1>1, <1>2 DEF MemOK, LargeOK
<1>5. SmallOK(a)
  BY <1>1, <1>2, <1>3 DEF MemOK, SmallOK, End, imdr_entry_at
<1> QED
  BY <1>1, <1>2, <1>4, <1>5 DEF MemOK, a

\* cbmem_entry_remove() keeps the roots in order: the small region has an id of
\* its own and so is never the entry that is removed.
LEMMA RemoveOK ==
  ASSUME NEW m, MemOK(m), NEW h, NEW id \in Ids,
         imd_entry_find(m, h, id)[1] # "none",
         CanRemove(m[imd_entry_find(m, h, id)[1]], imd_entry_find(m, h, id)[2])
  PROVE  MemOK([m EXCEPT ![imd_entry_find(m, h, id)[1]] = imdr_entry_remove(@)])
<1> DEFINE e == imd_entry_find(m, h, id)
<1>0. /\ RootOK(m.lg) /\ RootOK(m.sm) /\ m.lg \in Roots /\ m.sm \in Roots
      /\ Len(m.lg.entries) \in Nat /\ Len(m.sm.entries) \in Nat
  BY LenProperties DEF MemOK, LargeOK, SmallOK, RootOK, Roots
<1>1. CASE e = <<"sm", imdr_entry_find(m.sm, id)>> /\ imdr_entry_find(m.sm, id) # 0
  <2> DEFINE n == imdr_entry_remove(m.sm)
             a == [m EXCEPT !.sm = n]
  <2>1. Len(m.sm.entries) >= 2
    BY <1>0, <1>1, FindProperties DEF CanRemove
  <2>2. /\ RootOK(n) /\ n.limit = m.sm.limit /\ n.address = m.sm.address
        /\ n.max_offset = m.sm.max_offset /\ Len(n.entries) = Len(m.sm.entries) - 1
        /\ \A i \in 1 .. Len(n.entries) : n.entries[i] = m.sm.entries[i]
    BY <1>0, <2>1, RemoveRoot
  <2>3. [m EXCEPT ![e[1]] = imdr_entry_remove(@)] = a
    BY <1>1
  <2> HIDE DEF n, e
  <2>4. a = [lg |-> m.lg, sm |-> n]
    BY DEF MemOK
  <2> HIDE DEF a
  <2>5. SmallOK(a)
    BY <1>0, <2>2, <2>4 DEF MemOK, SmallOK
  <2>6. LargeOK(a)
    BY <2>4 DEF MemOK, LargeOK
  <2>7. MemOK(a)
    BY <2>4, <2>5, <2>6 DEF MemOK
  <2> QED BY <2>3, <2>7 DEF e
<1>2. CASE e = <<"lg", imdr_entry_find(m.lg, id)>> /\ imdr_entry_find(m.lg, id) # 0
  <2> DEFINE n == imdr_entry_remove(m.lg)
             a == [m EXCEPT !.lg = n]
  <2>1. Len(m.lg.entries) >= 3
    <3>1. imdr_entry_find(m.lg, id) = Len(m.lg.entries)
      BY <1>2 DEF CanRemove
    <3>2. Len(m.lg.entries) >= 2 /\ m.lg.entries[Len(m.lg.entries)].id = id
      BY <1>0, <1>2, <3>1, FindProperties
    <3>3. m.lg.entries[2].id = SMALL_REGION_ID /\ SMALL_REGION_ID # id
      BY CbmemAssumption DEF MemOK, LargeOK
    <3> QED BY <1>0, <3>2, <3>3
  <2>2. /\ RootOK(n) /\ n.limit = m.lg.limit /\ n.address = m.lg.address
        /\ Len(n.entries) = Len(m.lg.entries) - 1
        /\ \A i \in 1 .. Len(n.entries) : n.entries[i] = m.lg.entries[i]
    BY <1>0, <2>1, RemoveRoot
  <2>3. n.valid = m.lg.valid
    BY <1>0, <2>1, RemoveRoot
  <2>4. [m EXCEPT ![e[1]] = imdr_entry_remove(@)] = a
    BY <1>2
  <2> HIDE DEF n, e
  <2>5. a = [lg |-> n, sm |-> m.sm]
    BY DEF MemOK
  <2> HIDE DEF a
  <2>6. Len(n.entries) >= 2 /\ n.entries[2] = m.lg.entries[2]
    BY <1>0, <2>1, <2>2
  <2>7. LargeOK(a)
    BY <2>2, <2>5, <2>6 DEF MemOK, LargeOK
  <2>8. SmallOK(a)
    BY <2>2, <2>5, <2>6 DEF MemOK, SmallOK, End, imdr_entry_at
  <2>9. MemOK(a)
    BY <2>3, <2>5, <2>7, <2>8 DEF MemOK
  <2> QED BY <2>4, <2>9 DEF e
<1> QED
  BY <1>1, <1>2 DEF imd_entry_find

\* Memory in order has the types of TypeOK.
LEMMA MemTypes ==
  ASSUME NEW m, m = NoMemory \/ MemOK(m)
  PROVE  /\ m \in [lg : Roots, sm : Roots]
         /\ \A t \in {"lg", "sm"} : Len(m[t].entries) <= m[t].max_entries
<1>1. CASE m = NoMemory
  BY <1>1, EmptySeq DEF NoMemory, NoRoot, Roots
<1>2. CASE MemOK(m)
  BY <1>2 DEF MemOK, LargeOK, SmallOK, RootOK
<1> QED
  BY <1>1, <1>2

LEMMA InitIInv == Init => IInv
<1> SUFFICES ASSUME Init PROVE IInv
  OBVIOUS
<1>1. mem = NoMemory /\ saved = NoMemory
  BY DEF Init
<1>2. TypeOK
  BY <1>1, MemTypes DEF Init, TypeOK, NoHandle
<1> QED
  BY <1>1, <1>2 DEF Init, IInv, Running

\* Every step keeps the inductive invariant.
LEMMA StepIInv == IInv /\ [Next]_vars => IInv'
<1> SUFFICES ASSUME IInv, [Next]_vars PROVE IInv'
  OBVIOUS
<1> USE DEF IInv
<1>0. ASSUME mem' = NoMemory \/ MemOK(mem'), saved' \in {saved, mem, NoMemory},
             imd' \in [lg : BOOLEAN, sm : BOOLEAN], resumed' \in BOOLEAN,
             stage' \in {"off", "romstage", "ramstage", "asleep", "failed"}
      PROVE  TypeOK'
  <2>1. /\ mem' \in [lg : Roots, sm : Roots]
        /\ \A t \in {"lg", "sm"} : Len(mem'[t].entries) <= mem'[t].max_entries
    BY <1>0, MemTypes
  <2>2. NoMemory \in [lg : Roots, sm : Roots]
    BY MemTypes
  <2> QED BY <1>0, <2>1, <2>2 DEF TypeOK
<1>1. CASE ColdBoot
  <2>1. MemOK(mem')
    BY <1>1, CreateOK DEF ColdBoot
  <2> QED BY <1>0, <1>1, <2>1 DEF ColdBoot, TypeOK
<1>2. CASE WakeUp
  <2>1. CASE imd_recover(mem) = NoHandle
    BY <1>0, <1>2, <2>1 DEF WakeUp, TypeOK, Running
  <2>2. CASE imd_recover(mem) # NoHandle
    <3>1. mem # NoMemory
      BY <2>2 DEF imd_recover, imdr_recover, NoMemory, NoRoot
    <3>2. MemOK(mem')
      BY <1>2, <2>2, <3>1, LockOK DEF WakeUp
    <3> QED BY <1>0, <1>2, <2>2, <3>2 DEF WakeUp, TypeOK
  <2> QED BY <2>1, <2>2
<1>3. CASE StartRamstage
  <2>1. imd_recover(mem) \in [lg : BOOLEAN, sm : BOOLEAN]
    BY DEF imd_recover, NoHandle
  <2>2. MemOK(mem')
    BY <1>3 DEF StartRamstage, Running
  <2> QED BY <1>0, <1>3, <2>1, <2>2 DEF StartRamstage, TypeOK
<1>4. CASE Suspend
  BY <1>0, <1>4 DEF Suspend, TypeOK, Running, NoHandle
<1>5. CASE MemoryLost
  BY <1>0, <1>5 DEF MemoryLost, TypeOK, Running
<1>6. CASE Reset
  BY <1>0, <1>6 DEF Reset, TypeOK, Running, NoHandle
<1>7. ASSUME NEW id \in Ids, NEW size \in Sizes, cbmem_add(id, size) PROVE IInv'
  <2>1. MemOK(mem) /\ size \in Nat
    BY <1>7, CbmemAssumption DEF cbmem_add
  <2>2. MemOK(mem')
    BY <1>7, <2>1, AddOK DEF cbmem_add
  <2> QED BY <1>0, <1>7, <2>2 DEF cbmem_add, TypeOK
<1>8. ASSUME NEW id \in Ids, cbmem_entry_remove(id) PROVE IInv'
  <2>1. MemOK(mem)
    BY <1>8 DEF cbmem_entry_remove
  <2>2. MemOK(mem')
    BY <1>8, <2>1, RemoveOK DEF cbmem_entry_remove
  <2> QED BY <1>0, <1>8, <2>2 DEF cbmem_entry_remove, TypeOK
<1>9. CASE UNCHANGED vars
  BY <1>9 DEF vars, TypeOK, Running
<1> QED
  BY <1>1, <1>2, <1>3, <1>4, <1>5, <1>6, <1>7, <1>8, <1>9 DEF Next

\* The ranges of roots in order are disjoint.
LEMMA MemDisjoint ==
  ASSUME NEW r, RootOK(r), r.limit - r.address \in Nat
  PROVE  /\ Disjoint(r)
         /\ \A i \in 1 .. Len(r.entries) : End(r, i) <= r.limit
<1>1. r.address \in Int /\ r.limit \in Int /\ Len(r.entries) \in Nat /\ Len(r.entries) >= 1
  BY LenProperties DEF RootOK, Roots
<1>2. \A i \in 1 .. Len(r.entries) : r.entries[i].start_offset \in Int /\ r.entries[i].size \in Nat
  BY OffsetType
<1>3. Disjoint(r)
  <2> SUFFICES ASSUME NEW i \in 1 .. Len(r.entries), NEW j \in 1 .. Len(r.entries), i < j
               PROVE  End(r, j) <= Start(r, i)
    BY DEF Disjoint
  <2>1. r.entries[j].start_offset + r.entries[j].size <= r.entries[i].start_offset
    BY DEF RootOK
  <2> QED BY <2>1, <1>1, <1>2, SMTT(60) DEF End, Start, imdr_entry_at
<1>4. ASSUME NEW i \in 1 .. Len(r.entries) PROVE End(r, i) <= r.limit
  <2>1. CASE i = 1
    BY <2>1, <1>1 DEF RootOK, End, imdr_entry_at
  <2>2. CASE i > 1
    <3>1. r.entries[i].start_offset + r.entries[i].size <= 0
      BY <2>2, <1>1 DEF RootOK
    <3> QED BY <3>1, <1>1, <1>2 DEF End, imdr_entry_at
  <2> QED BY <2>1, <2>2
<1> QED
  BY <1>3, <1>4

\* The invariant the property follows from.
LEMMA IInvDisjoint == IInv => RangesDisjoint
<1> SUFFICES ASSUME MemOK(mem) PROVE RangesDisjoint
  BY DEF IInv, RangesDisjoint
<1>1. /\ RootOK(mem.lg) /\ RootOK(mem.sm)
      /\ mem.lg.limit = Top /\ mem.lg.limit - mem.lg.address \in Nat
      /\ mem.sm.limit = End(mem.lg, 2) /\ mem.sm.limit - mem.sm.address \in Nat
      /\ mem.sm.limit \in Int /\ 2 \in 1 .. Len(mem.lg.entries)
  <2>1. /\ Top \in Nat /\ CBMEM_ROOT_MIN_SIZE \in Nat /\ CBMEM_SM_ROOT_SIZE \in Nat
    BY CbmemAssumption
  <2>2. mem.sm.limit \in Int /\ Len(mem.lg.entries) \in Nat
    BY LenProperties DEF MemOK, LargeOK, SmallOK, RootOK, Roots
  <2> QED BY <2>1, <2>2 DEF MemOK, LargeOK, SmallOK
<1>2. /\ Disjoint(mem.lg) /\ Disjoint(mem.sm)
      /\ \A i \in 1 .. Len(mem.lg.entries) : End(mem.lg, i) <= Top
      /\ \A i \in 1 .. Len(mem.sm.entries) : End(mem.sm, i) <= End(mem.lg, 2)
  BY <1>1, MemDisjoint
<1>3. ASSUME NEW i \in 1 .. Len(mem.sm.entries) PROVE Start(mem.lg, 2) <= Start(mem.sm, i)
  <2>1. mem.sm.entries[i].start_offset \in Int /\ mem.lg.entries[2].start_offset \in Int
    BY <1>1, OffsetType
  <2>2. /\ mem.sm.entries[i].start_offset >= CBMEM_SM_ROOT_SIZE - sm_region_size
        /\ mem.sm.address = End(mem.lg, 2) - CBMEM_SM_ROOT_SIZE
        /\ End(mem.lg, 2) = Start(mem.lg, 2) + sm_region_size
    BY DEF MemOK, LargeOK, SmallOK, End, Start
  <2>3. Start(mem.lg, 2) \in Int /\ mem.sm.address \in Int
    <3>1. mem.lg.address \in Int /\ mem.sm.address \in Int
      BY <1>1 DEF RootOK, Roots
    <3> QED BY <2>1, <3>1 DEF Start, imdr_entry_at
  <2>4. CBMEM_SM_ROOT_SIZE \in Nat /\ sm_region_size \in Nat
    BY CbmemAssumption, RegionSize
  <2>5. Start(mem.sm, i) = mem.sm.address + mem.sm.entries[i].start_offset
    BY DEF Start, imdr_entry_at
  <2> QED BY <2>1, <2>2, <2>3, <2>4, <2>5, SMTT(60)
<1> QED
  BY <1>2, <1>3 DEF RangesDisjoint

\* Every variable keeps its type and no root outgrows its table of entries,
\* for any sizes and ids, over any number of sleeps and resets.
THEOREM TypeCorrect == Spec => []TypeOK
<1>1. IInv => TypeOK
  BY DEF IInv
<1> QED
  BY InitIInv, StepIInv, <1>1, PTL DEF Spec

\* CBMEM never hands out a byte twice: cbmem_add() and cbmem_entry_remove(), in
\* romstage and in ramstage, before and after a sleep, keep the entries of each
\* root disjoint, below the limit, and the small ones inside the small region.
THEOREM NoOverlap == Spec => []RangesDisjoint
<1> QED
  BY InitIInv, StepIInv, IInvDisjoint, PTL DEF Spec

\* While the machine sleeps its memory is what it was or is lost, and after a
\* wake-up both roots are locked: without the locks ResumeIntact is not
\* inductive.
SleepInv ==
  /\ stage = "asleep" => mem = NoMemory \/ mem = saved
  /\ Running /\ resumed => /\ mem.lg.locked = TRUE /\ mem.sm.locked = TRUE
                           /\ mem.lg.entries = saved.lg.entries
                           /\ mem.sm.entries = saved.sm.entries

\* A recovery that succeeds finds the small root too.
LEMMA RecoverFindsSmall ==
  ASSUME NEW m, MemOK(m), imd_recover(m) # NoHandle
  PROVE  imd_recover(m) = [lg |-> TRUE, sm |-> TRUE]
<1> DEFINE found == {i \in 2 .. Len(m.lg.entries) : m.lg.entries[i].id = SMALL_REGION_ID}
<1>1. Len(m.lg.entries) \in Nat /\ Len(m.lg.entries) >= 2 /\ m.lg.entries[2].id = SMALL_REGION_ID
  BY LenProperties DEF MemOK, LargeOK, RootOK, Roots
<1>2. found \in SUBSET Nat /\ found # {}
  BY <1>1
<1>3. Min(found) \in found
  <2> HIDE DEF found
  <2> QED BY <1>2, MinInSet
<1>4. imdr_entry_find(m.lg, SMALL_REGION_ID) # 0
  BY <1>2, <1>3 DEF imdr_entry_find
<1> QED
  BY <1>4 DEF imd_recover

\* Every step keeps SleepInv.
LEMMA StepSleepInv == IInv /\ SleepInv /\ [Next]_vars => SleepInv'
<1> SUFFICES ASSUME IInv, SleepInv, [Next]_vars PROVE SleepInv'
  OBVIOUS
<1>1. CASE ColdBoot
  BY <1>1 DEF ColdBoot, SleepInv
<1>2. CASE WakeUp
  <2>1. CASE imd_recover(mem) = NoHandle
    BY <1>2, <2>1 DEF WakeUp, SleepInv, Running
  <2>2. CASE imd_recover(mem) # NoHandle
    <3>1. mem # NoMemory
      BY <2>2 DEF imd_recover, imdr_recover, NoMemory, NoRoot
    <3>2. MemOK(mem) /\ mem = saved
      BY <1>2, <3>1 DEF IInv, SleepInv, WakeUp
    <3>3. mem' = imd_lockdown(mem, [lg |-> TRUE, sm |-> TRUE])
      BY <1>2, <2>2, <3>2, RecoverFindsSmall DEF WakeUp
    <3>4. /\ mem'.lg = [mem.lg EXCEPT !.locked = TRUE]
          /\ mem'.sm = [mem.sm EXCEPT !.locked = TRUE]
      BY <3>3 DEF imd_lockdown
    <3>5. mem.lg \in Roots /\ mem.sm \in Roots
      BY <3>2 DEF MemOK, LargeOK, SmallOK, RootOK
    <3>6. /\ mem'.lg.locked = TRUE /\ mem'.lg.entries = mem.lg.entries
          /\ mem'.sm.locked = TRUE /\ mem'.sm.entries = mem.sm.entries
      BY <3>4, <3>5 DEF Roots
    <3>7. stage' = "romstage" /\ saved' = saved
      BY <1>2, <2>2 DEF WakeUp
    <3> QED BY <3>2, <3>6, <3>7 DEF SleepInv
  <2> QED BY <2>1, <2>2
<1>3. CASE StartRamstage
  BY <1>3 DEF StartRamstage, SleepInv, Running
<1>4. CASE Suspend
  BY <1>4 DEF Suspend, SleepInv, Running
<1>5. CASE MemoryLost
  BY <1>5 DEF MemoryLost, SleepInv, Running
<1>6. CASE Reset
  BY <1>6 DEF Reset, SleepInv, Running
<1>7. ASSUME NEW id \in Ids, NEW size \in Sizes, cbmem_add(id, size) PROVE SleepInv'
  <2>1. CASE ~resumed
    BY <1>7, <2>1 DEF cbmem_add, SleepInv, Running
  <2>2. CASE resumed
    <3>1. mem' = mem
      BY <1>7, <2>2 DEF cbmem_add, imd_entry_add, CanAdd, SleepInv
    <3> QED BY <1>7, <3>1 DEF cbmem_add, SleepInv, Running
  <2> QED BY <2>1, <2>2
<1>8. ASSUME NEW id \in Ids, cbmem_entry_remove(id) PROVE SleepInv'
  <2>1. ~resumed
    <3> DEFINE e == imd_entry_find(mem, Backing, id)
    <3>1. Running /\ e[1] # "none" /\ CanRemove(mem[e[1]], e[2])
      BY <1>8 DEF cbmem_entry_remove
    <3>2. e[1] \in {"lg", "sm"}
      BY <3>1 DEF imd_entry_find
    <3> QED BY <3>1, <3>2 DEF CanRemove, SleepInv
  <2> QED BY <1>8, <2>1 DEF cbmem_entry_remove, SleepInv, Running
<1>9. CASE UNCHANGED vars
  BY <1>9 DEF vars, SleepInv, Running
<1> QED
  BY <1>1, <1>2, <1>3, <1>4, <1>5, <1>6, <1>7, <1>8, <1>9 DEF Next

\* After a wake-up the firmware leaves the directory as the operating system
\* left it, whatever the stages try to add or to remove.
THEOREM ResumeKeepsDirectory == Spec => []ResumeIntact
<1>1. Init => SleepInv
  BY DEF Init, SleepInv, Running
<1>2. SleepInv => ResumeIntact
  BY DEF SleepInv, ResumeIntact
<1> QED
  BY InitIInv, StepIInv, StepSleepInv, <1>1, <1>2, PTL DEF Spec

-----------------------------------------------------------------------------
(* Every id at most once                                                   *)

\* No two entries of the roots in m, entry 1 of each not counted, have one id.
UniqueIn(m) ==
  \A id \in Ids, s \in {"lg", "sm"}, t \in {"lg", "sm"} :
    \A i \in 2 .. Len(m[s].entries), j \in 2 .. Len(m[t].entries) :
      m[s].entries[i].id = id /\ m[t].entries[j].id = id => s = t /\ i = j

\* A directory with unique ids may be one that sleeps; and ramstage has found
\* both roots or none, so no search of it misses a root that it could add to.
UniqueInv ==
  /\ mem # NoMemory => UniqueIn(mem)
  /\ stage = "ramstage" => imd \in {NoHandle, [lg |-> TRUE, sm |-> TRUE]}

LEMMA UniqueAt ==
  ASSUME NEW m, UniqueIn(m), NEW d \in Ids, NEW s \in {"lg", "sm"}, NEW u \in {"lg", "sm"},
         NEW i \in 2 .. Len(m[s].entries), NEW j \in 2 .. Len(m[u].entries),
         m[s].entries[i].id = d, m[u].entries[j].id = d
  PROVE  s = u /\ i = j
  BY DEF UniqueIn

\* imdr_entry_find() misses no entry.
LEMMA FindsAll ==
  ASSUME NEW r \in Roots, NEW id, imdr_entry_find(r, id) = 0
  PROVE  \A i \in 2 .. Len(r.entries) : r.entries[i].id # id
<1> DEFINE found == {i \in 2 .. Len(r.entries) : r.entries[i].id = id}
<1>1. Len(r.entries) \in Nat
  BY LenProperties DEF Roots
<1>2. found \in SUBSET Nat /\ 0 \notin found
  BY <1>1
<1>3. found # {} => Min(found) \in found
  <2> HIDE DEF found
  <2> QED BY <1>2, MinInSet
<1>4. found = {}
  BY <1>2, <1>3 DEF imdr_entry_find
<1> QED
  BY <1>4

\* Roots with the same entries, or with fewer, have unique ids if these have.
LEMMA FewerUnique ==
  ASSUME NEW m, NEW n, UniqueIn(m),
         \A s \in {"lg", "sm"} :
           /\ Len(m[s].entries) \in Nat /\ Len(n[s].entries) \in Nat
           /\ Len(n[s].entries) <= Len(m[s].entries)
           /\ \A i \in 1 .. Len(n[s].entries) : n[s].entries[i] = m[s].entries[i]
  PROVE  UniqueIn(n)
<1>1. ASSUME NEW s \in {"lg", "sm"}, NEW i \in 2 .. Len(n[s].entries)
      PROVE  i \in 2 .. Len(m[s].entries) /\ n[s].entries[i] = m[s].entries[i]
  BY <1>1
<1>2. ASSUME NEW d \in Ids, NEW s \in {"lg", "sm"}, NEW u \in {"lg", "sm"},
             NEW i \in 2 .. Len(n[s].entries), NEW j \in 2 .. Len(n[u].entries),
             n[s].entries[i].id = d, n[u].entries[j].id = d
      PROVE  s = u /\ i = j
  <2>1. i \in 2 .. Len(m[s].entries) /\ m[s].entries[i].id = d
    BY <1>1, <1>2
  <2>2. j \in 2 .. Len(m[u].entries) /\ m[u].entries[j].id = d
    BY <1>1, <1>2
  <2> QED BY <2>1, <2>2, UniqueAt, SMTT(60)
<1> QED
  BY <1>2 DEF UniqueIn

\* romstage and a recovery that succeeds know both roots.
LEMMA PartialFindsSmall ==
  ASSUME NEW m, MemOK(m)
  PROVE  PartialRecovery(m) = [lg |-> TRUE, sm |-> TRUE]
<1>1. Len(m.lg.entries) \in Nat /\ Len(m.lg.entries) >= 2 /\ m.lg.entries[2].id = SMALL_REGION_ID
  BY LenProperties DEF MemOK, LargeOK, RootOK, Roots
<1>2. m.lg \in Roots
  BY DEF MemOK, LargeOK, RootOK
<1>3. imdr_entry_find(m.lg, SMALL_REGION_ID) # 0
  BY <1>1, <1>2, FindsAll
<1> QED
  BY <1>3 DEF PartialRecovery

\* An id that is found nowhere may be added.
LEMMA AddUnique ==
  ASSUME NEW m, MemOK(m), UniqueIn(m), NEW id \in Ids, NEW size \in Nat,
         NEW h, h \in {NoHandle, [lg |-> TRUE, sm |-> TRUE]},
         imd_entry_find(m, h, id) = <<"none", 0>>
  PROVE  UniqueIn(imd_entry_add(m, h, id, size))
<1> DEFINE a == imd_entry_add(m, h, id, size)
<1>0. /\ RootOK(m.lg) /\ RootOK(m.sm) /\ m.lg \in Roots /\ m.sm \in Roots
      /\ Len(m.lg.entries) \in Nat /\ Len(m.sm.entries) \in Nat
  BY LenProperties DEF MemOK, LargeOK, SmallOK, RootOK, Roots
<1>1. CASE a = m
  BY <1>1
<1>2. ASSUME a # m
      PROVE  /\ imdr_entry_find(m.lg, id) = 0 /\ imdr_entry_find(m.sm, id) = 0
             /\ \/ CanAdd(m.sm, size) /\ a = [m EXCEPT !.sm = imdr_entry_add(m.sm, id, size)]
                \/ CanAdd(m.lg, size) /\ a = [m EXCEPT !.lg = imdr_entry_add(m.lg, id, size)]
  BY <1>2 DEF imd_entry_add, imd_entry_find, NoHandle
<1>3. ASSUME NEW t \in {"lg", "sm"}, NEW n, Extends(n, m[t], id, size), a = [m EXCEPT ![t] = n], a # m
      PROVE  UniqueIn(a)
  <2>1. \A s \in {"lg", "sm"} : \A i \in 2 .. Len(m[s].entries) : m[s].entries[i].id # id
    BY <1>0, <1>2, <1>3, FindsAll
  <2>2. /\ Len(a[t].entries) = Len(m[t].entries) + 1
        /\ \A i \in 1 .. Len(m[t].entries) : a[t].entries[i] = m[t].entries[i]
        /\ a[t].entries[Len(m[t].entries) + 1].id = id
        /\ \A s \in {"lg", "sm"} : s # t => a[s] = m[s]
    BY <1>3 DEF Extends, MemOK
  <2> HIDE DEF a
  <2>3. \A s \in {"lg", "sm"} : Len(m[s].entries) \in Nat /\ Len(m[s].entries) >= 1
    BY <1>0 DEF RootOK
  <2>4. ASSUME NEW s \in {"lg", "sm"}, NEW i \in 2 .. Len(a[s].entries)
        PROVE  \/ i \in 2 .. Len(m[s].entries) /\ a[s].entries[i] = m[s].entries[i]
               \/ s = t /\ i = Len(m[t].entries) + 1 /\ a[s].entries[i].id = id
    <3>1. CASE s # t
      BY <2>2, <2>4, <3>1
    <3>2. CASE s = t
      <4>1. Len(a[t].entries) = Len(m[t].entries) + 1 /\ Len(m[t].entries) \in Nat /\ i \in 2 .. Len(a[t].entries)
        BY <2>2, <2>3, <2>4, <3>2
      <4>2. i \in 2 .. Len(m[t].entries) \/ i = Len(m[t].entries) + 1
        BY <4>1
      <4> QED BY <2>2, <3>2, <4>1, <4>2
    <3> QED BY <3>1, <3>2
  <2>5. ASSUME NEW d \in Ids, NEW s \in {"lg", "sm"}, NEW u \in {"lg", "sm"},
               NEW i \in 2 .. Len(a[s].entries), NEW j \in 2 .. Len(a[u].entries),
               a[s].entries[i].id = d, a[u].entries[j].id = d
        PROVE  s = u /\ i = j
    <3>1. CASE d = id
      <4>1. s = t /\ i = Len(m[t].entries) + 1
        BY <2>1, <2>4, <2>5, <3>1
      <4>2. u = t /\ j = Len(m[t].entries) + 1
        BY <2>1, <2>4, <2>5, <3>1
      <4> QED BY <4>1, <4>2
    <3>2. CASE d # id
      <4>1. i \in 2 .. Len(m[s].entries) /\ m[s].entries[i].id = d
        BY <2>4, <2>5, <3>2
      <4>2. j \in 2 .. Len(m[u].entries) /\ m[u].entries[j].id = d
        BY <2>4, <2>5, <3>2
      <4> QED BY <4>1, <4>2, UniqueAt, SMTT(60)
    <3> QED BY <3>1, <3>2
  <2> QED BY <2>5, SMTT(60) DEF UniqueIn
<1>4. CASE a # m
  <2>1. CASE CanAdd(m.sm, size) /\ a = [m EXCEPT !.sm = imdr_entry_add(m.sm, id, size)]
    <3>1. Extends(imdr_entry_add(m.sm, id, size), m["sm"], id, size)
      BY <1>0, <2>1, AddRoot
    <3> QED BY <1>3, <1>4, <2>1, <3>1
  <2>2. CASE CanAdd(m.lg, size) /\ a = [m EXCEPT !.lg = imdr_entry_add(m.lg, id, size)]
    <3>1. Extends(imdr_entry_add(m.lg, id, size), m["lg"], id, size)
      BY <1>0, <2>2, AddRoot
    <3> QED BY <1>3, <1>4, <2>2, <3>1
  <2> QED BY <1>2, <1>4, <2>1, <2>2
<1> QED
  BY <1>1, <1>4

\* A new directory holds no id but the one of the small region.
LEMMA CreateUnique == UniqueIn(imd_create_tiered_empty)
<1> DEFINE r0 == imdr_create_empty(Top, CBMEM_ROOT_MIN_SIZE, CBMEM_LG_ALIGN)
           lg == imdr_entry_add(r0, SMALL_REGION_ID, sm_region_size)
           s0 == imdr_create_empty(imdr_entry_at(lg, 2) + sm_region_size, CBMEM_SM_ROOT_SIZE, CBMEM_SM_ALIGN)
           m == imd_create_tiered_empty
<1>1. m.lg = lg /\ m.sm = imdr_limit_size(s0, sm_region_size)
  BY DEF imd_create_tiered_empty
<1>2. Len(m.sm.entries) = 1
  BY <1>1 DEF imdr_limit_size, imdr_create_empty
<1>3. Len(m.lg.entries) = 2 /\ m.lg.entries[2].id = SMALL_REGION_ID
  BY <1>1 DEF imdr_entry_add, imdr_create_empty, Entry, root_last_entry
<1>4. SMALL_REGION_ID \notin Ids
  BY CbmemAssumption
<1> HIDE DEF m
<1> QED
  BY <1>2, <1>3, <1>4 DEF UniqueIn, m

\* cbmem_entry_remove() takes away an entry and no more.
LEMMA RemoveUnique ==
  ASSUME NEW m, MemOK(m), UniqueIn(m), NEW h, NEW id \in Ids,
         imd_entry_find(m, h, id)[1] # "none",
         CanRemove(m[imd_entry_find(m, h, id)[1]], imd_entry_find(m, h, id)[2])
  PROVE  UniqueIn([m EXCEPT ![imd_entry_find(m, h, id)[1]] = imdr_entry_remove(@)])
<1> DEFINE e == imd_entry_find(m, h, id)
           t == e[1]
           n == imdr_entry_remove(m[t])
           a == [m EXCEPT ![t] = n]
<1>0. /\ RootOK(m.lg) /\ RootOK(m.sm) /\ m.lg \in Roots /\ m.sm \in Roots
      /\ Len(m.lg.entries) \in Nat /\ Len(m.sm.entries) \in Nat
  BY LenProperties DEF MemOK, LargeOK, SmallOK, RootOK, Roots
<1>1. t \in {"lg", "sm"} /\ e[2] = imdr_entry_find(m[t], id) /\ e[2] # 0
  BY DEF imd_entry_find
<1>2. e[2] = Len(m[t].entries)
  BY DEF CanRemove
<1>3. RootOK(m[t]) /\ m[t] \in Roots /\ Len(m[t].entries) \in Nat
  BY <1>0, <1>1
<1> HIDE DEF t, e
<1>4. Len(m[t].entries) >= 2
  <2>1. imdr_entry_find(m[t], id) \in 2 .. Len(m[t].entries)
    BY <1>1, <1>3, FindProperties
  <2> QED BY <1>3, <2>1
<1>5. /\ Len(n.entries) = Len(m[t].entries) - 1
      /\ \A i \in 1 .. Len(n.entries) : n.entries[i] = m[t].entries[i]
  BY <1>3, <1>4, RemoveRoot
<1> HIDE DEF n
<1>6. a[t] = n /\ \A s \in {"lg", "sm"} : s # t => a[s] = m[s]
  BY <1>1 DEF MemOK
<1> HIDE DEF a
<1>7. \A s \in {"lg", "sm"} :
        /\ Len(m[s].entries) \in Nat /\ Len(a[s].entries) \in Nat
        /\ Len(a[s].entries) <= Len(m[s].entries)
        /\ \A i \in 1 .. Len(a[s].entries) : a[s].entries[i] = m[s].entries[i]
  BY <1>0, <1>1, <1>3, <1>4, <1>5, <1>6, SMTT(60)
<1>8. UniqueIn(a)
  BY <1>7, FewerUnique
<1> QED
  BY <1>8 DEF a, n, t, e

LEMMA StepUniqueInv == IInv /\ UniqueInv /\ [Next]_vars => UniqueInv'
<1> SUFFICES ASSUME IInv, UniqueInv, [Next]_vars PROVE UniqueInv'
  OBVIOUS
<1>b. ASSUME Running PROVE Backing \in {NoHandle, [lg |-> TRUE, sm |-> TRUE]} /\ MemOK(mem) /\ UniqueIn(mem)
  <2>1. MemOK(mem)
    BY <1>b DEF IInv
  <2>2. mem # NoMemory
    BY <2>1, EmptySeq DEF NoMemory, NoRoot, MemOK
  <2> QED BY <1>b, <2>1, <2>2, PartialFindsSmall DEF Backing, Running, UniqueInv
<1>1. CASE ColdBoot
  BY <1>1, CreateUnique DEF ColdBoot, UniqueInv
<1>2. CASE WakeUp
  <2>1. CASE imd_recover(mem) = NoHandle
    BY <1>2, <2>1 DEF WakeUp, UniqueInv
  <2>2. CASE imd_recover(mem) # NoHandle
    <3>1. mem # NoMemory
      BY <2>2 DEF imd_recover, imdr_recover, NoMemory, NoRoot
    <3>2. MemOK(mem) /\ UniqueIn(mem)
      BY <3>1 DEF IInv, UniqueInv
    <3>3. mem' = imd_lockdown(mem, imd_recover(mem)) /\ stage' = "romstage"
      BY <1>2, <2>2 DEF WakeUp
    <3>4. \A s \in {"lg", "sm"} : mem'[s].entries = mem[s].entries
      <4>1. mem.lg \in Roots /\ mem.sm \in Roots
        BY <3>2 DEF MemOK, LargeOK, SmallOK, RootOK
      <4>2. /\ [mem.lg EXCEPT !.locked = TRUE].entries = mem.lg.entries
            /\ [mem.sm EXCEPT !.locked = TRUE].entries = mem.sm.entries
        BY <4>1 DEF Roots
      <4>3. /\ mem'.lg = [mem.lg EXCEPT !.locked = TRUE]
            /\ mem'.sm \in {[mem.sm EXCEPT !.locked = TRUE], mem.sm}
        BY <3>3 DEF imd_lockdown
      <4> QED BY <4>2, <4>3
    <3>5. UniqueIn(mem')
      <4>1. Len(mem.lg.entries) \in Nat /\ Len(mem.sm.entries) \in Nat
        BY <3>2, LenProperties DEF MemOK, LargeOK, SmallOK, RootOK, Roots
      <4>2. \A s \in {"lg", "sm"} :
              /\ Len(mem[s].entries) \in Nat /\ Len(mem'[s].entries) \in Nat
              /\ Len(mem'[s].entries) <= Len(mem[s].entries)
              /\ \A i \in 1 .. Len(mem'[s].entries) : mem'[s].entries[i] = mem[s].entries[i]
        BY <3>4, <4>1
      <4> QED BY <3>2, <4>2, FewerUnique
    <3> QED BY <3>3, <3>5 DEF UniqueInv
  <2> QED BY <2>1, <2>2
<1>3. CASE StartRamstage
  <2>1. Running /\ imd' = imd_recover(mem) /\ mem' = mem
    BY <1>3 DEF StartRamstage, Running
  <2>2. imd' \in {NoHandle, [lg |-> TRUE, sm |-> TRUE]}
    BY <1>b, <2>1, RecoverFindsSmall
  <2> QED BY <2>1, <2>2 DEF UniqueInv
<1>4. CASE Suspend \/ Reset
  BY <1>4 DEF Suspend, Reset, UniqueInv
<1>5. CASE MemoryLost
  BY <1>5 DEF MemoryLost, UniqueInv
<1>6. ASSUME NEW id \in Ids, NEW size \in Sizes, cbmem_add(id, size) PROVE UniqueInv'
  <2>1. Running /\ size \in Nat /\ UNCHANGED <<imd, stage>>
    BY <1>6, CbmemAssumption DEF cbmem_add
  <2>2. UniqueIn(mem')
    BY <1>6, <1>b, <2>1, AddUnique DEF cbmem_add
  <2> QED BY <2>1, <2>2 DEF UniqueInv
<1>7. ASSUME NEW id \in Ids, cbmem_entry_remove(id) PROVE UniqueInv'
  <2>1. Running /\ UNCHANGED <<imd, stage>>
    BY <1>7 DEF cbmem_entry_remove
  <2>2. UniqueIn(mem')
    BY <1>7, <1>b, <2>1, RemoveUnique DEF cbmem_entry_remove
  <2> QED BY <2>1, <2>2 DEF UniqueInv
<1>8. CASE UNCHANGED vars
  BY <1>8 DEF vars, UniqueInv
<1> QED
  BY <1>1, <1>2, <1>3, <1>4, <1>5, <1>6, <1>7, <1>8 DEF Next

\* An id is in the directory at most once, whichever stage added it and whichever
\* of the two roots it went to, over any number of sleeps and resets.
THEOREM IdsOnce == Spec => []IdsUnique
<1>1. Init => UniqueInv
  BY DEF Init, UniqueInv
<1>2. ASSUME IInv, UniqueInv PROVE IdsUnique
  <2> SUFFICES ASSUME Running, NEW id \in Ids, NEW e \in Having(id), NEW d \in Having(id)
               PROVE  e = d
    BY DEF IdsUnique
  <2>1. mem # NoMemory /\ MemOK(mem)
    BY <1>2 DEF IInv, NoMemory, NoRoot, MemOK
  <2>2. UniqueIn(mem)
    BY <1>2, <2>1 DEF UniqueInv
  <2>3. Len(mem.lg.entries) \in Nat /\ Len(mem.sm.entries) \in Nat
    BY <2>1, LenProperties DEF MemOK, LargeOK, SmallOK, RootOK, Roots
  <2>4. ASSUME NEW x \in Having(id)
        PROVE  /\ x = <<x[1], x[2]>> /\ x[1] \in {"lg", "sm"}
               /\ x[2] \in 2 .. Len(mem[x[1]].entries) /\ mem[x[1]].entries[x[2]].id = id
    <3>1. /\ x \in {"lg", "sm"} \X (2 .. root_num_entries(CBMEM_ROOT_MIN_SIZE)
                                         + root_num_entries(CBMEM_SM_ROOT_SIZE))
          /\ x[2] <= Len(mem[x[1]].entries) /\ mem[x[1]].entries[x[2]].id = id
      BY <2>4 DEF Having
    <3>2. x[2] \in Nat /\ x[2] >= 2 /\ x[1] \in {"lg", "sm"} /\ x = <<x[1], x[2]>>
      BY <3>1, CbmemAssumption
    <3> QED BY <2>3, <3>1, <3>2
  <2> QED BY <2>2, <2>4, SMTT(60) DEF UniqueIn
<1> QED
  BY InitIInv, StepIInv, StepUniqueInv, <1>1, <1>2, PTL DEF Spec

-----------------------------------------------------------------------------
(* What a stage leaves in memory is recovered                              *)

\* Products grow with their factors.
LEMMA MulStep ==
  ASSUME NEW i \in Nat, NEW M \in Nat
  PROVE  (i + 1) * M = i * M + M /\ i * M \in Nat
  BY SMT

LEMMA MulMono ==
  ASSUME NEW a \in Nat, NEW b \in Nat, a <= b, NEW M \in Nat
  PROVE  a * M <= b * M
<1>1. b * M = a * M + (b - a) * M
  BY SMT
<1>2. (b - a) * M \in Nat /\ a * M \in Nat
  BY SMT
<1> QED BY <1>1, <1>2, SMT

\* Division with remainder.
LEMMA DivFacts ==
  ASSUME NEW y \in Nat, NEW a \in Nat \ {0}
  PROVE  /\ y \div a \in Nat /\ y % a \in 0 .. a - 1
         /\ y = a * (y \div a) + (y % a)
  BY SMT

LEMMA DivUnique ==
  ASSUME NEW q \in Nat, NEW r \in Nat, NEW a \in Nat \ {0}, r < a
  PROVE  (a * q + r) \div a = q
  BY SMTT(20)

\* ALIGN_UP() of an address in the last unit below an aligned limit is the limit.
LEMMA AlignTo ==
  ASSUME NEW l \in Nat, NEW a \in Nat \ {0}, l % a = 0, NEW x \in Int, l - a < x, x <= l
  PROVE  ALIGN_UP(x, a) = l
<1> DEFINE q == l \div a
           r == x + a - 1 - l
<1>1. q \in Nat /\ l = a * q
  BY DivFacts, SMT
<1>2. r \in Nat /\ r < a
  OBVIOUS
<1>3. x + a - 1 = a * q + r
  BY <1>1
<1>4. (x + a - 1) \div a = q
  <2> HIDE DEF q, r
  <2> QED BY <1>1, <1>2, <1>3, DivUnique
<1>5. q * a = a * q
  BY <1>1, SMT
<1> QED BY <1>1, <1>4, <1>5 DEF ALIGN_UP

\* What ALIGN_UP() returns is aligned.
LEMMA AlignIdem ==
  ASSUME NEW x \in Nat, NEW a \in Nat \ {0}
  PROVE  ALIGN_UP(ALIGN_UP(x, a), a) = ALIGN_UP(x, a) /\ ALIGN_UP(x, a) % a = 0
<1> DEFINE q == (x + a - 1) \div a
<1>1. q \in Nat
  BY DivFacts, SMT
<1>2. ALIGN_UP(x, a) = q * a
  BY DEF ALIGN_UP
<1> HIDE DEF q
<1>3. q * a = a * q + 0 /\ a * q \in Nat
  BY <1>1, SMT
<1>4. (a * q + (a - 1)) \div a = q
  BY <1>1, DivUnique
<1>5. (q * a + a - 1) = a * q + (a - 1)
  BY <1>3, SMT
<1>6. (a * q) % a = 0
  BY <1>1, SMTT(20)
<1>7. (q * a + a - 1) \div a = q
  BY <1>4, <1>5
<1>8. ALIGN_UP(q * a, a) = q * a
  BY <1>7 DEF ALIGN_UP
<1>9. (q * a) % a = 0
  BY <1>3, <1>6
<1> QED BY <1>2, <1>8, <1>9

\* The header and the table of entries fit below the root pointer.
LEMMA RootFill ==
  ASSUME NEW s \in Nat, root_num_entries(s) \in Nat \ {0}
  PROVE  LET used == RootHeaderSize + root_num_entries(s) * EntrySize
         IN used \in Nat \ {0} /\ used <= s
<1> DEFINE y == s - RootPointerSize - RootHeaderSize
           n == root_num_entries(s)
<1>0. RootPointerSize \in Nat /\ RootHeaderSize \in Nat /\ EntrySize \in Nat \ {0}
  BY ImdAssumption
<1>1. n = y \div EntrySize /\ y \in Int /\ n \in Nat \ {0}
  BY <1>0 DEF root_num_entries
<1>2. y \in Nat
  <2>1. y < 0 => y \div EntrySize < 0
    BY <1>0, <1>1, SMTT(20)
  <2> QED BY <1>1, <2>1
<1> HIDE DEF y, n
<1>3. y = EntrySize * n + (y % EntrySize) /\ y % EntrySize \in Nat
  BY <1>0, <1>1, <1>2, DivFacts
<1>4. n * EntrySize = EntrySize * n /\ n * EntrySize \in Nat \ {0}
  BY <1>0, <1>1, SMT
<1>5. n * EntrySize <= y
  BY <1>2, <1>3, <1>4
<1> QED BY <1>0, <1>4, <1>5 DEF y, n

\* The large root has no limit of its own: there is room below cbmem_top() for as
\* many entries of M bytes as it has slots, and no entry takes more than M.
FitsBelowTop(M) ==
  /\ M \in Nat
  /\ \A size \in Sizes \cup {sm_region_size} : ALIGN_UP(size, CBMEM_LG_ALIGN) <= M
  /\ root_num_entries(CBMEM_ROOT_MIN_SIZE) * M <= Top - CBMEM_ROOT_MIN_SIZE

\* As low as entry i can lie when none takes more than M.
Lowest(i, M) == 0 - (i - 1) * M

\* What imdr_recover() checks and MemOK leaves open: the number of slots, and that
\* every entry of the large root takes at most M bytes.
RecOK(m, M) ==
  /\ m.sm.valid = TRUE
  /\ m.lg.max_offset = 0 /\ m.lg.entry_align = CBMEM_LG_ALIGN
  /\ m.lg.max_entries = root_num_entries(CBMEM_ROOT_MIN_SIZE)
  /\ m.sm.max_entries = root_num_entries(CBMEM_SM_ROOT_SIZE)
  /\ m.lg.entries[2].start_offset = 0 - sm_region_size
  /\ \A i \in 1 .. Len(m.lg.entries) : m.lg.entries[i].start_offset >= Lowest(i, M)

\* A root in order is recovered below its limit.
LEMMA RecoverRoot ==
  ASSUME NEW r, RootOK(r), r.valid = TRUE, NEW root_size \in Nat,
         r.limit \in Nat, r.limit % LIMIT_ALIGN = 0, r.address = r.limit - root_size,
         root_size <= LIMIT_ALIGN,
         r.max_entries = root_num_entries(root_size), r.max_entries \in Nat \ {0},
         \A i \in 1 .. Len(r.entries) :
           imdr_entry_at(r, i) >= (IF r.max_offset = 0 THEN 0 ELSE r.address + r.max_offset)
  PROVE  imdr_recover(r, r.limit)
<1>0. LIMIT_ALIGN \in Nat \ {0} /\ RootHeaderSize \in Nat /\ EntrySize \in Nat
  BY ImdAssumption
<1>1. ALIGN_UP(r.address + RootHeaderSize + r.max_entries * EntrySize, LIMIT_ALIGN) = r.limit
  <2> DEFINE used == RootHeaderSize + r.max_entries * EntrySize
  <2>1. used \in Nat \ {0} /\ used <= root_size
    BY RootFill
  <2>2. r.max_entries * EntrySize \in Nat
    BY <1>0, SMT
  <2>3. r.address + RootHeaderSize + r.max_entries * EntrySize = r.address + used
    <3> DEFINE t == r.max_entries * EntrySize
    <3> HIDE DEF t
    <3> QED BY <1>0, <2>2 DEF t
  <2> HIDE DEF used
  <2>4. r.address + used \in Int /\ r.limit - LIMIT_ALIGN < r.address + used /\ r.address + used <= r.limit
    BY <1>0, <2>1
  <2> QED BY <1>0, <2>3, <2>4, AlignTo
<1>2. Disjoint(r) /\ \A i \in 1 .. Len(r.entries) : End(r, i) <= r.limit
  BY MemDisjoint
<1>3. Len(r.entries) \in Nat /\ Len(r.entries) >= 1 /\ Len(r.entries) <= r.max_entries
  BY LenProperties DEF RootOK, Roots
<1>4. root_size # 0
  BY <1>0, RootFill
<1>5. ASSUME NEW i \in 1 .. Len(r.entries) PROVE imdr_entry_at(r, i) < r.limit
  <2>1. \A j \in 1 .. Len(r.entries) : r.entries[j].start_offset \in Int /\ r.entries[j].size \in Nat
    BY OffsetType
  <2>2. r.entries[i].start_offset <= 0
    <3>1. CASE i = 1
      BY <3>1 DEF RootOK
    <3>2. CASE i > 1
      BY <1>3, <2>1, <3>2, SMTT(60) DEF RootOK
    <3> QED BY <3>1, <3>2
  <2> QED BY <1>4, <2>1, <2>2 DEF imdr_entry_at
<1> QED
  BY <1>1, <1>2, <1>3, <1>5 DEF imdr_recover, End

\* Both roots are recovered.
LEMMA RecoverBoth ==
  ASSUME NEW m, MemOK(m), NEW M, FitsBelowTop(M), RecOK(m, M)
  PROVE  imd_recover(m) = [lg |-> TRUE, sm |-> TRUE]
<1>0. /\ Top \in Nat /\ Top % LIMIT_ALIGN = 0 /\ LIMIT_ALIGN \in Nat \ {0}
      /\ CBMEM_ROOT_MIN_SIZE = LIMIT_ALIGN /\ M \in Nat
      /\ CBMEM_SM_ROOT_SIZE \in Nat /\ CBMEM_SM_ROOT_SIZE <= LIMIT_ALIGN
      /\ root_num_entries(CBMEM_ROOT_MIN_SIZE) \in Nat \ {0}
      /\ root_num_entries(CBMEM_SM_ROOT_SIZE) \in Nat \ {0}
      /\ sm_region_size \in Nat
  BY CbmemAssumption, ImdAssumption, RegionSize DEF FitsBelowTop
<1>1. /\ RootOK(m.lg) /\ RootOK(m.sm) /\ m.lg.address \in Int /\ m.lg.limit = Top
      /\ m.lg.address = Top - LIMIT_ALIGN /\ m.lg.valid = TRUE /\ m.sm.valid = TRUE
      /\ Len(m.lg.entries) \in Nat /\ Len(m.lg.entries) >= 2
      /\ Len(m.lg.entries) <= m.lg.max_entries
  BY <1>0, LenProperties DEF MemOK, LargeOK, SmallOK, RootOK, Roots, RecOK
<1>2. Top - LIMIT_ALIGN \in Nat
  <2>1. root_num_entries(CBMEM_ROOT_MIN_SIZE) * M \in Nat
    BY <1>0, SMT
  <2>2. root_num_entries(CBMEM_ROOT_MIN_SIZE) * M <= Top - LIMIT_ALIGN
    BY <1>0 DEF FitsBelowTop
  <2> HIDE DEF FitsBelowTop
  <2> QED BY <1>0, <2>1, <2>2
<1>3. ASSUME NEW i \in 1 .. Len(m.lg.entries) PROVE imdr_entry_at(m.lg, i) >= 0
  <2> DEFINE n == root_num_entries(CBMEM_ROOT_MIN_SIZE)
  <2>1. i - 1 \in Nat /\ i - 1 <= n /\ n \in Nat
    BY <1>0, <1>1, SMTT(60) DEF RecOK
  <2>2. (i - 1) * M <= n * M
    <3> HIDE DEF n
    <3> QED BY <1>0, <2>1, MulMono
  <2>3. n * M <= Top - LIMIT_ALIGN
    BY <1>0 DEF FitsBelowTop
  <2>4. n * M \in Nat /\ (i - 1) * M \in Nat
    BY <1>0, <2>1, MulStep
  <2>5. m.lg.entries[i].start_offset >= 0 - (i - 1) * M /\ m.lg.entries[i].start_offset \in Int
    <3>1. m.lg.entries[i].start_offset >= Lowest(i, M) /\ m.lg.entries[i].start_offset \in Int
      BY <1>1, OffsetType DEF RecOK
    <3> QED BY <3>1 DEF Lowest
  <2> DEFINE a == n * M
             b == (i - 1) * M
  <2>6. a \in Nat /\ b \in Nat /\ b <= a /\ a <= Top - LIMIT_ALIGN /\ m.lg.entries[i].start_offset >= 0 - b
    BY <2>2, <2>3, <2>4, <2>5
  <2> DEFINE o == m.lg.entries[i].start_offset
  <2>7. o \in Int /\ imdr_entry_at(m.lg, i) = (Top - LIMIT_ALIGN) + o
    BY <1>1, <2>5 DEF imdr_entry_at
  <2>8. o >= 0 - b
    BY <2>5
  <2> HIDE DEF a, b, o
  <2> QED BY <1>0, <2>6, <2>7, <2>8
<1>4. imdr_recover(m.lg, Top)
  <2>1. /\ m.lg.max_offset = 0 /\ m.lg.max_entries = root_num_entries(LIMIT_ALIGN)
        /\ m.lg.max_entries \in Nat \ {0} /\ LIMIT_ALIGN \in Nat /\ LIMIT_ALIGN <= LIMIT_ALIGN
        /\ m.lg.limit \in Nat /\ m.lg.limit % LIMIT_ALIGN = 0
        /\ m.lg.address = m.lg.limit - LIMIT_ALIGN
    BY <1>0, <1>1 DEF RecOK
  <2>2. \A i \in 1 .. Len(m.lg.entries) :
          imdr_entry_at(m.lg, i) >= (IF m.lg.max_offset = 0 THEN 0 ELSE m.lg.address + m.lg.max_offset)
    BY <1>3, <2>1
  <2>3. imdr_recover(m.lg, m.lg.limit)
    BY <1>1, <2>1, <2>2, RecoverRoot
  <2> QED BY <1>1, <2>3
<1>5. imdr_entry_find(m.lg, SMALL_REGION_ID) = 2
  <2> DEFINE found == {i \in 2 .. Len(m.lg.entries) : m.lg.entries[i].id = SMALL_REGION_ID}
  <2>1. found \in SUBSET Nat /\ 2 \in found /\ \A i \in found : i >= 2
    BY <1>1 DEF MemOK, LargeOK
  <2>2. Min(found) \in found /\ Min(found) <= 2 /\ Min(found) \in Nat /\ Min(found) >= 2
    <3> HIDE DEF found
    <3>1. Min(found) \in found /\ \A y \in found : Min(found) <= y
      BY <2>1, MinInSet
    <3> QED BY <2>1, <3>1
  <2>3. Min(found) = 2
    BY <2>2
  <2> QED BY <2>1, <2>3 DEF imdr_entry_find
<1>6. m.sm.limit = Top - LIMIT_ALIGN /\ SmallLimit(m) = m.sm.limit
  <2>1. m.lg.entries[2].size = sm_region_size /\ m.lg.entries[2].start_offset = 0 - sm_region_size
    BY DEF MemOK, LargeOK, RecOK
  <2>2. End(m.lg, 2) = Top - LIMIT_ALIGN
    BY <1>0, <1>1, <2>1 DEF End, imdr_entry_at
  <2> QED BY <1>5, <2>2 DEF MemOK, SmallOK, SmallLimit, End
<1>7. m.sm.limit % LIMIT_ALIGN = 0
  <2> DEFINE q == Top \div LIMIT_ALIGN
  <2>1. q \in Nat /\ Top = LIMIT_ALIGN * q
    <3>1. q \in Nat /\ Top = LIMIT_ALIGN * q + (Top % LIMIT_ALIGN)
      BY <1>0, DivFacts
    <3> HIDE DEF q
    <3>2. LIMIT_ALIGN * q \in Nat
      BY <1>0, <3>1, SMT
    <3> QED BY <1>0, <3>1, <3>2
  <2>2. q # 0
    BY <1>0, <1>2, <2>1
  <2> HIDE DEF q
  <2>3. Top - LIMIT_ALIGN = LIMIT_ALIGN * (q - 1)
    BY <1>0, <2>1, <2>2, SMT
  <2>4. \A k \in Nat : (LIMIT_ALIGN * k) % LIMIT_ALIGN = 0
    BY <1>0, SMTT(20)
  <2> QED BY <1>6, <2>1, <2>2, <2>3, <2>4
<1>8. ASSUME NEW i \in 1 .. Len(m.sm.entries) PROVE imdr_entry_at(m.sm, i) >= m.sm.address + m.sm.max_offset
  <2>1. /\ m.sm.entries[i].start_offset \in Int /\ m.sm.address \in Int /\ m.sm.max_offset \in Int
        /\ m.sm.entries[i].start_offset >= m.sm.max_offset
    BY <1>1, OffsetType DEF MemOK, SmallOK, RootOK, Roots
  <2> QED BY <2>1 DEF imdr_entry_at
<1>9. imdr_recover(m.sm, SmallLimit(m))
  <2>1. /\ m.sm.max_offset # 0 /\ m.sm.address = m.sm.limit - CBMEM_SM_ROOT_SIZE
        /\ m.sm.max_entries = root_num_entries(CBMEM_SM_ROOT_SIZE) /\ m.sm.limit \in Nat
    BY <1>2, <1>6 DEF MemOK, SmallOK, RecOK
  <2> QED BY <1>0, <1>1, <1>6, <1>7, <1>8, <2>1, RecoverRoot
<1> QED
  BY <1>4, <1>5, <1>9 DEF imd_recover

\* A new directory can be recovered.
LEMMA CreateRec ==
  ASSUME NEW M, FitsBelowTop(M)
  PROVE  RecOK(imd_create_tiered_empty, M)
<1> DEFINE r0 == imdr_create_empty(Top, CBMEM_ROOT_MIN_SIZE, CBMEM_LG_ALIGN)
           lg == imdr_entry_add(r0, SMALL_REGION_ID, sm_region_size)
           s0 == imdr_create_empty(imdr_entry_at(lg, 2) + sm_region_size, CBMEM_SM_ROOT_SIZE, CBMEM_SM_ALIGN)
           sm == imdr_limit_size(s0, sm_region_size)
           m == imd_create_tiered_empty
<1>0. /\ Top \in Nat /\ CBMEM_ROOT_MIN_SIZE \in Nat /\ CBMEM_LG_ALIGN \in Nat \ {0}
      /\ root_num_entries(CBMEM_ROOT_MIN_SIZE) \in Nat \ {0, 1}
      /\ ALIGN_UP(sm_region_size, CBMEM_LG_ALIGN) <= SIZE_MAX /\ sm_region_size \in Nat /\ M \in Nat
  BY CbmemAssumption, RegionSize DEF FitsBelowTop
<1>1. m.lg = lg /\ m.sm = sm
  BY DEF imd_create_tiered_empty
<1>2. sm.valid = TRUE /\ sm.max_entries = root_num_entries(CBMEM_SM_ROOT_SIZE)
  BY DEF imdr_limit_size, imdr_create_empty
<1>3. EmptyRoot(r0, Top, CBMEM_ROOT_MIN_SIZE, CBMEM_LG_ALIGN)
  <2>1. Top \in Int /\ root_num_entries(CBMEM_ROOT_MIN_SIZE) \in Nat \ {0}
    BY <1>0
  <2> QED BY <1>0, <2>1, CreateRoot
<1> HIDE DEF r0
<1>4. CanAdd(r0, sm_region_size)
  BY <1>0, <1>3 DEF EmptyRoot, CanAdd, imd_root_data_left
<1>5. Extends(lg, r0, SMALL_REGION_ID, sm_region_size)
  <2>1. SMALL_REGION_ID \in Ids \cup {SMALL_REGION_ID} /\ RootOK(r0)
    BY <1>3 DEF EmptyRoot
  <2> QED BY <1>0, <1>4, <2>1, AddRoot
<1> HIDE DEF lg, sm, m
<1>6. ALIGN_UP(sm_region_size, CBMEM_LG_ALIGN) = sm_region_size
  <2> DEFINE x == root_num_entries(CBMEM_SM_ROOT_SIZE) * CBMEM_SM_ALIGN + CBMEM_SM_ROOT_SIZE
  <2>1. x \in Nat
    <3>1. /\ root_num_entries(CBMEM_SM_ROOT_SIZE) \in Nat /\ CBMEM_SM_ALIGN \in Nat
          /\ CBMEM_SM_ROOT_SIZE \in Nat
      BY CbmemAssumption
    <3> QED BY <3>1, SMT
  <2> HIDE DEF x
  <2> QED BY <1>0, <2>1, AlignIdem DEF sm_region_size, x
<1>7. /\ lg.max_offset = 0 /\ lg.entry_align = CBMEM_LG_ALIGN
      /\ lg.max_entries = root_num_entries(CBMEM_ROOT_MIN_SIZE)
      /\ Len(lg.entries) = 2 /\ lg.entries[1] = r0.entries[1]
      /\ lg.entries[1].start_offset = 0
      /\ lg.entries[2].start_offset = 0 - sm_region_size
  BY <1>0, <1>3, <1>5, <1>6 DEF Extends, EmptyRoot, RootOK
<1>8. \A i \in 1 .. Len(lg.entries) : lg.entries[i].start_offset >= Lowest(i, M)
  <2>1. sm_region_size <= M
    BY <1>6 DEF FitsBelowTop
  <2>2. (1 - 1) * M = 0 /\ (2 - 1) * M = M
    BY <1>0, SMT
  <2>3. \A i \in 1 .. Len(lg.entries) : i = 1 \/ i = 2
    BY <1>7
  <2>4. Lowest(1, M) = 0 /\ Lowest(2, M) = 0 - M
    BY <1>0, <2>2 DEF Lowest
  <2> QED BY <1>0, <1>7, <2>1, <2>3, <2>4
<1> QED
  BY <1>1, <1>2, <1>7, <1>8 DEF RecOK, m

\* An addition leaves a directory that can be recovered.
LEMMA AddRec ==
  ASSUME NEW m, MemOK(m), NEW M, FitsBelowTop(M), RecOK(m, M), NEW h,
         NEW id \in Ids, NEW size \in Sizes
  PROVE  RecOK(imd_entry_add(m, h, id, size), M)
<1> DEFINE a == imd_entry_add(m, h, id, size)
<1>0. /\ RootOK(m.lg) /\ RootOK(m.sm) /\ Len(m.lg.entries) \in Nat /\ Len(m.lg.entries) >= 2
      /\ size \in Nat /\ M \in Nat /\ CBMEM_LG_ALIGN \in Nat \ {0}
  BY CbmemAssumption, LenProperties DEF MemOK, LargeOK, SmallOK, RootOK, Roots, FitsBelowTop
<1>1. CASE a = m
  BY <1>1
<1>2. CASE a = [m EXCEPT !.sm = imdr_entry_add(m.sm, id, size)] /\ CanAdd(m.sm, size)
  <2> DEFINE n == imdr_entry_add(m.sm, id, size)
  <2>1. Extends(n, m.sm, id, size)
    BY <1>0, <1>2, AddRoot
  <2>2. a = [lg |-> m.lg, sm |-> n]
    BY <1>2 DEF MemOK
  <2> HIDE DEF n, a
  <2> QED BY <2>1, <2>2 DEF Extends, RecOK, a
<1>3. CASE a = [m EXCEPT !.lg = imdr_entry_add(m.lg, id, size)] /\ CanAdd(m.lg, size)
  <2> DEFINE n == imdr_entry_add(m.lg, id, size)
             k == Len(m.lg.entries)
  <2>1. Extends(n, m.lg, id, size)
    BY <1>0, <1>3, AddRoot
  <2>2. a = [lg |-> n, sm |-> m.sm]
    BY <1>3 DEF MemOK
  <2> HIDE DEF n, a
  <2>3. n.entries[k + 1].start_offset = m.lg.entries[k].start_offset - ALIGN_UP(size, CBMEM_LG_ALIGN)
    BY <2>1 DEF Extends, RecOK
  <2>4. ALIGN_UP(size, CBMEM_LG_ALIGN) \in Nat /\ ALIGN_UP(size, CBMEM_LG_ALIGN) <= M
    BY <1>0, AlignUp DEF FitsBelowTop
  <2>5. m.lg.entries[k].start_offset \in Int /\ m.lg.entries[k].start_offset >= 0 - (k - 1) * M
    <3>1. m.lg.entries[k].start_offset \in Int /\ m.lg.entries[k].start_offset >= Lowest(k, M)
      BY <1>0, OffsetType DEF RecOK
    <3> QED BY <3>1 DEF Lowest
  <2>6. k * M = (k - 1) * M + M /\ (k - 1) * M \in Nat
    <3>1. k - 1 \in Nat /\ (k - 1) + 1 = k
      BY <1>0
    <3> HIDE DEF k
    <3> QED BY <1>0, <3>1, MulStep
  <2>7. n.entries[k + 1].start_offset >= Lowest(k + 1, M)
    <3> DEFINE b == (k - 1) * M
               c == k * M
               o == m.lg.entries[k].start_offset
               z == ALIGN_UP(size, CBMEM_LG_ALIGN)
    <3>1. c = b + M /\ b \in Nat /\ o \in Int /\ o >= 0 - b /\ z \in Nat /\ z <= M
      BY <2>4, <2>5, <2>6
    <3>2. n.entries[k + 1].start_offset = o - z /\ (k + 1) - 1 = k
      BY <1>0, <2>3
    <3>3. o - z >= 0 - c
      <4> HIDE DEF b, c, o, z
      <4> QED BY <1>0, <3>1
    <3> QED BY <3>2, <3>3 DEF Lowest
  <2>8. \A i \in 1 .. Len(n.entries) : n.entries[i].start_offset >= Lowest(i, M)
    <3> SUFFICES ASSUME NEW i \in 1 .. Len(n.entries)
                 PROVE  n.entries[i].start_offset >= Lowest(i, M)
      OBVIOUS
    <3>1. Len(n.entries) = k + 1 /\ \A j \in 1 .. k : n.entries[j] = m.lg.entries[j]
      BY <2>1 DEF Extends
    <3>2. CASE i \in 1 .. k
      BY <3>1, <3>2 DEF RecOK
    <3>3. CASE i = k + 1
      BY <2>7, <3>3
    <3> QED BY <1>0, <3>1, <3>2, <3>3, SMTT(60)
  <2>9. n.entries[2] = m.lg.entries[2]
    BY <1>0, <2>1 DEF Extends
  <2> QED BY <2>1, <2>2, <2>8, <2>9, SMTT(60) DEF Extends, RecOK, a
<1> QED
  BY <1>1, <1>2, <1>3 DEF imd_entry_add

\* So does a removal,
LEMMA RemoveRec ==
  ASSUME NEW m, MemOK(m), NEW M, RecOK(m, M), NEW h, NEW id \in Ids,
         imd_entry_find(m, h, id)[1] # "none",
         CanRemove(m[imd_entry_find(m, h, id)[1]], imd_entry_find(m, h, id)[2])
  PROVE  RecOK([m EXCEPT ![imd_entry_find(m, h, id)[1]] = imdr_entry_remove(@)], M)
<1> DEFINE e == imd_entry_find(m, h, id)
           t == e[1]
           n == imdr_entry_remove(m[t])
           a == [m EXCEPT ![t] = n]
<1>0. /\ RootOK(m.lg) /\ RootOK(m.sm) /\ m.lg \in Roots /\ m.sm \in Roots
      /\ Len(m.lg.entries) \in Nat /\ Len(m.sm.entries) \in Nat
  BY LenProperties DEF MemOK, LargeOK, SmallOK, RootOK, Roots
<1>1. t \in {"lg", "sm"} /\ e[2] = imdr_entry_find(m[t], id) /\ e[2] # 0
  BY DEF imd_entry_find
<1>2. e[2] = Len(m[t].entries)
  BY DEF CanRemove
<1>3. RootOK(m[t]) /\ m[t] \in Roots /\ Len(m[t].entries) \in Nat
  BY <1>0, <1>1
<1> HIDE DEF t, e
<1>4. Len(m[t].entries) \in 2 .. Len(m[t].entries) /\ m[t].entries[Len(m[t].entries)].id = id
  <2>1. imdr_entry_find(m[t], id) \in 2 .. Len(m[t].entries) /\ m[t].entries[imdr_entry_find(m[t], id)].id = id
    BY <1>1, <1>3, FindProperties
  <2> QED BY <1>1, <1>2, <2>1
<1>5. Len(m[t].entries) >= 2 /\ (t = "lg" => Len(m[t].entries) >= 3)
  <2>1. m.lg.entries[2].id = SMALL_REGION_ID /\ SMALL_REGION_ID # id
    BY CbmemAssumption DEF MemOK, LargeOK
  <2> QED BY <1>3, <1>4, <2>1
<1>6. /\ n.max_offset = m[t].max_offset /\ n.valid = m[t].valid
      /\ n.entry_align = m[t].entry_align /\ n.max_entries = m[t].max_entries
      /\ Len(n.entries) = Len(m[t].entries) - 1
      /\ \A i \in 1 .. Len(n.entries) : n.entries[i] = m[t].entries[i]
  BY <1>3, <1>5, RemoveRoot
<1> HIDE DEF n
<1>7. a[t] = n /\ \A s \in {"lg", "sm"} : s # t => a[s] = m[s]
  BY <1>1 DEF MemOK
<1> HIDE DEF a
<1>8. CASE t = "sm"
  <2>1. a.lg = m.lg /\ a.sm.valid = m.sm.valid /\ a.sm.max_entries = m.sm.max_entries
    BY <1>6, <1>7, <1>8
  <2>2. RecOK(a, M)
    BY <2>1 DEF RecOK
  <2> QED BY <2>2 DEF a, n, t, e
<1>9. CASE t = "lg"
  <2>1. /\ a.sm = m.sm /\ a.lg.max_offset = m.lg.max_offset /\ a.lg.entry_align = m.lg.entry_align
        /\ a.lg.max_entries = m.lg.max_entries /\ Len(a.lg.entries) = Len(m.lg.entries) - 1
        /\ \A i \in 1 .. Len(a.lg.entries) : a.lg.entries[i] = m.lg.entries[i]
    BY <1>6, <1>7, <1>9
  <2>2. Len(m.lg.entries) \in Nat /\ Len(m.lg.entries) >= 3
    BY <1>0, <1>5, <1>9
  <2>3. a.lg.entries[2] = m.lg.entries[2]
    BY <2>1, <2>2
  <2>4. \A i \in 1 .. Len(a.lg.entries) : a.lg.entries[i].start_offset >= Lowest(i, M)
    BY <2>1, <2>2, SMTT(60) DEF RecOK
  <2>5. RecOK(a, M)
    BY <2>1, <2>3, <2>4 DEF RecOK
  <2> QED BY <2>5 DEF a, n, t, e
<1> QED
  BY <1>1, <1>8, <1>9

\* and so does the lock.
LEMMA LockRec ==
  ASSUME NEW m, MemOK(m), NEW M, RecOK(m, M), NEW h
  PROVE  RecOK(imd_lockdown(m, h), M)
<1> DEFINE a == imd_lockdown(m, h)
           lg == [m.lg EXCEPT !.locked = TRUE]
           sm == IF h.sm THEN [m.sm EXCEPT !.locked = TRUE] ELSE m.sm
<1>1. a.lg = lg /\ a.sm = sm
  BY DEF imd_lockdown
<1>2. /\ lg.max_offset = m.lg.max_offset /\ lg.entry_align = m.lg.entry_align
      /\ lg.max_entries = m.lg.max_entries /\ lg.entries = m.lg.entries
  BY DEF MemOK, LargeOK, RootOK, Roots
<1>3. sm.valid = m.sm.valid /\ sm.max_entries = m.sm.max_entries
  BY DEF MemOK, SmallOK, RootOK, Roots
<1> HIDE DEF a, lg, sm
<1> QED
  BY <1>1, <1>2, <1>3 DEF RecOK, a

RecInv(M) == mem # NoMemory => RecOK(mem, M)

LEMMA StepRecInv ==
  ASSUME NEW M, FitsBelowTop(M), IInv, RecInv(M), [Next]_vars
  PROVE  RecInv(M)'
<1>b. ASSUME Running PROVE MemOK(mem) /\ RecOK(mem, M)
  <2>1. MemOK(mem)
    BY <1>b DEF IInv
  <2>2. mem # NoMemory
    BY <2>1, EmptySeq DEF NoMemory, NoRoot, MemOK
  <2> QED BY <2>1, <2>2 DEF RecInv
<1>1. CASE ColdBoot
  BY <1>1, CreateRec DEF ColdBoot, RecInv
<1>2. CASE WakeUp
  <2>1. CASE imd_recover(mem) = NoHandle
    BY <1>2, <2>1 DEF WakeUp, RecInv
  <2>2. CASE imd_recover(mem) # NoHandle
    <3>1. mem # NoMemory
      BY <2>2 DEF imd_recover, imdr_recover, NoMemory, NoRoot
    <3> QED BY <1>2, <2>2, <3>1, LockRec DEF WakeUp, IInv, RecInv
  <2> QED BY <2>1, <2>2
<1>3. CASE StartRamstage \/ Suspend \/ Reset \/ MemoryLost \/ UNCHANGED vars
  BY <1>3 DEF StartRamstage, Suspend, Reset, MemoryLost, vars, RecInv
<1>4. ASSUME NEW id \in Ids, NEW size \in Sizes, cbmem_add(id, size) PROVE RecInv(M)'
  BY <1>4, <1>b, AddRec DEF cbmem_add, RecInv
<1>5. ASSUME NEW id \in Ids, cbmem_entry_remove(id) PROVE RecInv(M)'
  BY <1>5, <1>b, RemoveRec DEF cbmem_entry_remove, RecInv
<1> QED
  BY <1>1, <1>2, <1>3, <1>4, <1>5 DEF Next

\* Whatever romstage and ramstage have added and removed, and however often the
\* machine has slept, cbmem_initialize() finds both roots again, as long as what
\* is asked for fits below cbmem_top().
THEOREM StagesRecover ==
  ASSUME NEW CONSTANT M, FitsBelowTop(M)
  PROVE  Spec => []Recoverable
<1>1. Init => RecInv(M)
  BY DEF Init, RecInv
<1>2. IInv /\ RecInv(M) /\ [Next]_vars => RecInv(M)'
  BY StepRecInv
<1>3. ASSUME IInv, RecInv(M) PROVE Recoverable
  <2> SUFFICES ASSUME Running PROVE imd_recover(mem) = [lg |-> TRUE, sm |-> TRUE]
    BY DEF Recoverable
  <2>1. MemOK(mem)
    BY <1>3 DEF IInv
  <2>2. mem # NoMemory
    BY <2>1, EmptySeq DEF NoMemory, NoRoot, MemOK
  <2> QED BY <1>3, <2>1, <2>2, RecoverBoth DEF RecInv
<1> QED
  BY InitIInv, StepIInv, <1>1, <1>2, <1>3, PTL DEF Spec

-----------------------------------------------------------------------------
(* The stage cache *)

\* Either branch of cbmem_add() is a step of CBMEM, or leaves it alone.
LEMMA FindOrAddStep ==
  ASSUME NEW id \in Ids, NEW size \in Sizes, FindOrAdd(id, size)
  PROVE  [Next]_vars
BY DEF FindOrAdd, Next

\* Every step of the loader is a step of CBMEM or does not touch it.
LEMMA StageStep == [StageNext]_stageVars => [Next]_vars
<1> SUFFICES ASSUME [StageNext]_stageVars PROVE [Next]_vars
  OBVIOUS
<1> USE StageAssumption DEF StageIds
<1>1. CASE UNCHANGED stageVars
  BY <1>1 DEF stageVars
<1>2. CASE StartCold \/ StartWakeUp
  BY <1>2 DEF StartCold, StartWakeUp, Next
<1>3. CASE romstage_handoff_init
  BY <1>3, FindOrAddStep DEF romstage_handoff_init
<1>4. CASE stage_cache_load_stage \/ NotResuming
  BY <1>4 DEF stage_cache_load_stage, NotResuming
<1>5. CASE ramstage_cache_invalid
  BY <1>5 DEF ramstage_cache_invalid, Next
<1>6. CASE load_relocatable_ramstage
  BY <1>6, FindOrAddStep DEF load_relocatable_ramstage
<1>7. CASE stage_cache_add
  BY <1>7, FindOrAddStep DEF stage_cache_add
<1>8. CASE stage_cache_copy
  BY <1>8, FindOrAddStep DEF stage_cache_copy
<1>9. CASE prog_run
  BY <1>9 DEF prog_run, Next
<1>10. CASE OtherAdd \/ OtherRemove
  BY <1>10 DEF OtherAdd, OtherRemove, Next
<1>11. CASE Sleep \/ LoseMemory \/ PowerCycle
  BY <1>11 DEF Sleep, LoseMemory, PowerCycle, Next
<1> QED
  BY <1>1, <1>2, <1>3, <1>4, <1>5, <1>6, <1>7, <1>8, <1>9, <1>10, <1>11 DEF StageNext

\* What holds of CBMEM holds with the loader at work, which uses cbmem_add() and
\* cbmem_find() only.
LEMMA UsesCbmem == StageSpec => Spec
<1>1. StageInit => Init
  BY DEF StageInit
<1> QED
  BY <1>1, StageStep, PTL DEF StageSpec, Spec

\* With the loader at work too no memory is handed out twice: the copy of ramstage
\* never lies over ramstage or over what others keep in CBMEM.
THEOREM StageRangesDisjoint == StageSpec => []RangesDisjoint
BY UsesCbmem, NoOverlap, PTL

\* The types; and the loader is at work exactly while the machine is in romstage,
\* which it enters with a CBMEM that was created or recovered.
THEOREM StageTypeCorrect == StageSpec => []StageTypeOK
<1>1. StageInit => StageTypeOK
  BY DEF StageInit, Init, StageTypeOK, Images, NoProg
<1>2. TypeOK /\ StageTypeOK /\ [StageNext]_stageVars => StageTypeOK'
  <2> SUFFICES ASSUME TypeOK, StageTypeOK, [StageNext]_stageVars
               PROVE  StageTypeOK'
    OBVIOUS
  <2>0. resumed \in BOOLEAN
    BY DEF TypeOK
  <2> USE DEF StageTypeOK, Images, contents
  <2>1. CASE UNCHANGED stageVars
    BY <2>1 DEF stageVars, vars
  <2>2. CASE StartCold
    BY <2>2 DEF StartCold, ColdBoot, NoProg
  <2>3. CASE StartWakeUp
    BY <2>3 DEF StartWakeUp, WakeUp, NoProg
  <2>4. CASE romstage_handoff_init
    BY <2>0, <2>4 DEF romstage_handoff_init, FindOrAdd, cbmem_add, vars
  <2>5. CASE stage_cache_load_stage
    BY <2>5 DEF stage_cache_load_stage, vars
  <2>6. CASE ramstage_cache_invalid
    BY <2>6 DEF ramstage_cache_invalid, Reset, vars
  <2>7. CASE NotResuming
    BY <2>7 DEF NotResuming, vars
  <2>8. CASE load_relocatable_ramstage
    BY <2>8 DEF load_relocatable_ramstage, FindOrAdd, cbmem_add, vars
  <2>9. CASE stage_cache_add
    BY <2>9 DEF stage_cache_add, FindOrAdd, cbmem_add, vars
  <2>10. CASE stage_cache_copy
    BY <2>10 DEF stage_cache_copy, FindOrAdd, cbmem_add, vars
  <2>11. CASE prog_run
    BY <2>11 DEF prog_run, StartRamstage
  <2>12. CASE OtherAdd
    BY <2>12 DEF OtherAdd, cbmem_add
  <2>13. CASE OtherRemove
    BY <2>13 DEF OtherRemove, cbmem_entry_remove
  <2>14. CASE Sleep \/ LoseMemory
    BY <2>14 DEF Sleep, LoseMemory, Suspend, MemoryLost
  <2>15. CASE PowerCycle
    BY <2>15 DEF PowerCycle, Reset
  <2> QED
    BY <2>1, <2>2, <2>3, <2>4, <2>5, <2>6, <2>7, <2>8, <2>9, <2>10, <2>11, <2>12,
       <2>13, <2>14, <2>15 DEF StageNext
<1>3. StageSpec => []TypeOK
  BY UsesCbmem, TypeCorrect, PTL
<1> QED
  BY <1>1, <1>2, <1>3, PTL DEF StageSpec

-----------------------------------------------------------------------------
(* What CBMEM does with one id leaves every other id alone                 *)

\* A search for d in n gives what it gives in r.
KeepsIn(n, r, d) ==
  /\ n.address = r.address
  /\ imdr_entry_find(n, d) = imdr_entry_find(r, d)
  /\ imdr_entry_find(r, d) # 0 =>
       n.entries[imdr_entry_find(r, d)] = r.entries[imdr_entry_find(r, d)]

LEMMA PlaceKept ==
  ASSUME NEW m, NEW a, NEW d, KeepsIn(a.lg, m.lg, d), KeepsIn(a.sm, m.sm, d)
  PROVE  Place(a, d) = Place(m, d)
<1> DEFINE H == [lg |-> TRUE, sm |-> TRUE]
<1>1. imd_entry_find(a, H, d) = imd_entry_find(m, H, d)
  BY DEF imd_entry_find, KeepsIn
<1>2. CASE imdr_entry_find(m.sm, d) # 0
  <2>1. imd_entry_find(m, H, d) = <<"sm", imdr_entry_find(m.sm, d)>>
    BY <1>2 DEF imd_entry_find
  <2> QED BY <1>1, <1>2, <2>1 DEF Place, KeepsIn, imdr_entry_at
<1>3. CASE imdr_entry_find(m.sm, d) = 0 /\ imdr_entry_find(m.lg, d) # 0
  <2>1. imd_entry_find(m, H, d) = <<"lg", imdr_entry_find(m.lg, d)>>
    BY <1>3 DEF imd_entry_find
  <2> QED BY <1>1, <1>3, <2>1 DEF Place, KeepsIn, imdr_entry_at
<1>4. CASE imdr_entry_find(m.sm, d) = 0 /\ imdr_entry_find(m.lg, d) = 0
  <2>1. imd_entry_find(m, H, d) = <<"none", 0>>
    BY <1>4 DEF imd_entry_find
  <2> QED BY <1>1, <2>1 DEF Place
<1> QED
  BY <1>2, <1>3, <1>4

\* Two roots with the same entries of an id.
LEMMA SameFound ==
  ASSUME NEW r \in Roots, NEW n, NEW d, n.address = r.address, Len(n.entries) \in Nat,
         \A i \in 2 .. Len(r.entries) : r.entries[i].id = d =>
           i \in 2 .. Len(n.entries) /\ n.entries[i] = r.entries[i],
         \A i \in 2 .. Len(n.entries) : n.entries[i].id = d =>
           i \in 2 .. Len(r.entries) /\ n.entries[i] = r.entries[i]
  PROVE  KeepsIn(n, r, d)
<1>1. {i \in 2 .. Len(n.entries) : n.entries[i].id = d} = {i \in 2 .. Len(r.entries) : r.entries[i].id = d}
  OBVIOUS
<1>2. imdr_entry_find(n, d) = imdr_entry_find(r, d)
  BY <1>1 DEF imdr_entry_find
<1>3. imdr_entry_find(r, d) # 0 =>
        /\ imdr_entry_find(r, d) \in 2 .. Len(r.entries)
        /\ r.entries[imdr_entry_find(r, d)].id = d
  BY FindProperties
<1> QED
  BY <1>2, <1>3 DEF KeepsIn

LEMMA AddKeeps ==
  ASSUME NEW m, MemOK(m), NEW h, NEW id \in Ids, NEW size \in Nat, NEW d, d # id
  PROVE  Place(imd_entry_add(m, h, id, size), d) = Place(m, d)
<1> DEFINE a == imd_entry_add(m, h, id, size)
<1>0. /\ RootOK(m.lg) /\ RootOK(m.sm) /\ m.lg \in Roots /\ m.sm \in Roots
  BY DEF MemOK, LargeOK, SmallOK, RootOK
<1>1. ASSUME NEW r, RootOK(r), r \in Roots, NEW n, Extends(n, r, id, size) PROVE KeepsIn(n, r, d)
  <2>1. /\ Len(r.entries) \in Nat /\ Len(n.entries) = Len(r.entries) + 1
        /\ \A i \in 1 .. Len(r.entries) : n.entries[i] = r.entries[i]
        /\ n.entries[Len(r.entries) + 1].id = id /\ n.address = r.address
    BY <1>1, LenProperties DEF Extends, Roots
  <2>2. \A i \in 2 .. Len(r.entries) : i \in 2 .. Len(n.entries) /\ n.entries[i] = r.entries[i]
    BY <2>1
  <2>3. \A i \in 2 .. Len(n.entries) : n.entries[i].id = d =>
           i \in 2 .. Len(r.entries) /\ n.entries[i] = r.entries[i]
    BY <2>1, SMTT(60)
  <2> QED BY <1>1, <2>1, <2>2, <2>3, SameFound, SMTT(60)
<1>2. CASE a = m
  BY <1>2
<1>3. CASE a = [m EXCEPT !.sm = imdr_entry_add(m.sm, id, size)] /\ CanAdd(m.sm, size)
  <2>1. Extends(imdr_entry_add(m.sm, id, size), m.sm, id, size)
    BY <1>0, <1>3, AddRoot
  <2>2. a.lg = m.lg /\ a.sm = imdr_entry_add(m.sm, id, size)
    BY <1>3 DEF MemOK
  <2>3. KeepsIn(a.lg, m.lg, d) /\ KeepsIn(a.sm, m.sm, d)
    BY <1>0, <1>1, <2>1, <2>2 DEF KeepsIn
  <2> QED BY <2>3, PlaceKept
<1>4. CASE a = [m EXCEPT !.lg = imdr_entry_add(m.lg, id, size)] /\ CanAdd(m.lg, size)
  <2>1. Extends(imdr_entry_add(m.lg, id, size), m.lg, id, size)
    BY <1>0, <1>4, AddRoot
  <2>2. a.sm = m.sm /\ a.lg = imdr_entry_add(m.lg, id, size)
    BY <1>4 DEF MemOK
  <2>3. KeepsIn(a.lg, m.lg, d) /\ KeepsIn(a.sm, m.sm, d)
    BY <1>0, <1>1, <2>1, <2>2 DEF KeepsIn
  <2> QED BY <2>3, PlaceKept
<1> QED
  BY <1>2, <1>3, <1>4 DEF imd_entry_add

LEMMA RemoveKeeps ==
  ASSUME NEW m, MemOK(m), NEW h, NEW id \in Ids, NEW d, d # id,
         imd_entry_find(m, h, id)[1] # "none",
         CanRemove(m[imd_entry_find(m, h, id)[1]], imd_entry_find(m, h, id)[2])
  PROVE  Place([m EXCEPT ![imd_entry_find(m, h, id)[1]] = imdr_entry_remove(@)], d) = Place(m, d)
<1> DEFINE e == imd_entry_find(m, h, id)
           t == e[1]
           n == imdr_entry_remove(m[t])
           a == [m EXCEPT ![t] = n]
<1>0. RootOK(m.lg) /\ RootOK(m.sm) /\ m.lg \in Roots /\ m.sm \in Roots
  BY DEF MemOK, LargeOK, SmallOK, RootOK
<1>1. t \in {"lg", "sm"} /\ e[2] = imdr_entry_find(m[t], id) /\ e[2] # 0
  BY DEF imd_entry_find
<1>2. e[2] = Len(m[t].entries)
  BY DEF CanRemove
<1>3. RootOK(m[t]) /\ m[t] \in Roots /\ Len(m[t].entries) \in Nat
  BY <1>0, <1>1, LenProperties DEF Roots
<1> HIDE DEF t, e
<1>4. Len(m[t].entries) >= 2 /\ m[t].entries[Len(m[t].entries)].id = id
  <2>1. /\ imdr_entry_find(m[t], id) \in 2 .. Len(m[t].entries)
        /\ m[t].entries[imdr_entry_find(m[t], id)].id = id
    BY <1>1, <1>3, FindProperties
  <2> QED BY <1>1, <1>2, <1>3, <2>1
<1>5. /\ n.address = m[t].address /\ Len(n.entries) = Len(m[t].entries) - 1
      /\ \A i \in 1 .. Len(n.entries) : n.entries[i] = m[t].entries[i]
  BY <1>3, <1>4, RemoveRoot
<1> HIDE DEF n
<1>6. KeepsIn(n, m[t], d)
  <2>1. \A i \in 2 .. Len(n.entries) : i \in 2 .. Len(m[t].entries) /\ n.entries[i] = m[t].entries[i]
    BY <1>3, <1>4, <1>5
  <2>2. \A i \in 2 .. Len(m[t].entries) : m[t].entries[i].id = d =>
          i \in 2 .. Len(n.entries) /\ n.entries[i] = m[t].entries[i]
    BY <1>3, <1>4, <1>5
  <2>3. Len(n.entries) \in Nat
    BY <1>3, <1>4, <1>5
  <2>4. PICK r \in Roots : r = m[t]
    BY <1>3
  <2>5. n.address = r.address
    BY <1>5, <2>4
  <2>6. \A i \in 2 .. Len(r.entries) : r.entries[i].id = d =>
          i \in 2 .. Len(n.entries) /\ n.entries[i] = r.entries[i]
    BY <2>2, <2>4
  <2>7. \A i \in 2 .. Len(n.entries) : n.entries[i].id = d =>
          i \in 2 .. Len(r.entries) /\ n.entries[i] = r.entries[i]
    BY <2>1, <2>4
  <2>8. KeepsIn(n, r, d)
    BY <2>3, <2>5, <2>6, <2>7, SameFound
  <2> QED BY <2>4, <2>8
<1>7. a[t] = n /\ \A s \in {"lg", "sm"} : s # t => a[s] = m[s]
  BY <1>1 DEF MemOK
<1> HIDE DEF a
<1>8. \A s \in {"lg", "sm"} : KeepsIn(a[s], m[s], d)
  BY <1>6, <1>7 DEF KeepsIn
<1>9. Place(a, d) = Place(m, d)
  BY <1>8, PlaceKept
<1> QED
  BY <1>9 DEF a, n, t, e

LEMMA LockKeeps ==
  ASSUME NEW m, MemOK(m), NEW h, NEW d
  PROVE  Place(imd_lockdown(m, h), d) = Place(m, d)
<1> DEFINE a == imd_lockdown(m, h)
           lg == [m.lg EXCEPT !.locked = TRUE]
           sm == IF h.sm THEN [m.sm EXCEPT !.locked = TRUE] ELSE m.sm
<1>1. a.lg = lg /\ a.sm = sm
  BY DEF imd_lockdown
<1>2. /\ lg.address = m.lg.address /\ lg.entries = m.lg.entries
      /\ sm.address = m.sm.address /\ sm.entries = m.sm.entries
  BY DEF MemOK, LargeOK, SmallOK, RootOK, Roots
<1> HIDE DEF a, lg, sm
<1>3. KeepsIn(a.lg, m.lg, d) /\ KeepsIn(a.sm, m.sm, d)
  BY <1>1, <1>2 DEF KeepsIn, imdr_entry_find
<1> QED
  BY <1>3, PlaceKept DEF a

\* Nothing is found in a new directory, nor in memory without one.
LEMMA NothingThere ==
  ASSUME NEW d \in Ids
  PROVE  Place(imd_create_tiered_empty, d) = <<>> /\ Place(NoMemory, d) = <<>>
<1> DEFINE H == [lg |-> TRUE, sm |-> TRUE]
           r0 == imdr_create_empty(Top, CBMEM_ROOT_MIN_SIZE, CBMEM_LG_ALIGN)
           lg == imdr_entry_add(r0, SMALL_REGION_ID, sm_region_size)
           s0 == imdr_create_empty(imdr_entry_at(lg, 2) + sm_region_size, CBMEM_SM_ROOT_SIZE, CBMEM_SM_ALIGN)
           m == imd_create_tiered_empty
<1>1. m.lg = lg /\ m.sm = imdr_limit_size(s0, sm_region_size)
  BY DEF imd_create_tiered_empty
<1>2. Len(m.sm.entries) = 1
  BY <1>1 DEF imdr_limit_size, imdr_create_empty
<1>3. Len(m.lg.entries) = 2 /\ m.lg.entries[2].id = SMALL_REGION_ID
  BY <1>1 DEF imdr_entry_add, imdr_create_empty, Entry, root_last_entry
<1>4. SMALL_REGION_ID \notin Ids
  BY CbmemAssumption
<1> HIDE DEF m
<1>5. imdr_entry_find(m.sm, d) = 0 /\ imdr_entry_find(m.lg, d) = 0
  <2>1. {i \in 2 .. Len(m.sm.entries) : m.sm.entries[i].id = d} = {}
    BY <1>2
  <2>2. {i \in 2 .. Len(m.lg.entries) : m.lg.entries[i].id = d} = {}
    BY <1>3, <1>4
  <2> QED BY <2>1, <2>2 DEF imdr_entry_find
<1>6. imdr_entry_find(NoRoot, d) = 0
  <2>1. {i \in 2 .. Len(NoRoot.entries) : NoRoot.entries[i].id = d} = {}
    BY DEF NoRoot
  <2> QED BY <2>1 DEF imdr_entry_find
<1>7. imd_entry_find(m, H, d) = <<"none", 0>> /\ imd_entry_find(NoMemory, H, d) = <<"none", 0>>
  BY <1>5, <1>6 DEF imd_entry_find, NoMemory
<1> QED
  BY <1>7 DEF Place, m

-----------------------------------------------------------------------------
(* What the loader finds in CBMEM                                          *)

Found(m, d) == Place(m, d) # <<>>

\* With the structure there its flag is the one of this boot: an older one was
\* overwritten before anyone reads it.
HandoffInv == HandoffRead /\ Found(mem, ROMSTAGE_INFO) => handoff = resumed

\* The three entries appear in one order, and what the metadata and the copy say
\* stays true when ramstage is loaded again over the image that has run.
CacheInv ==
  /\ Found(mem, STAGE_CACHE) => Found(mem, STAGE_META) /\ cache = "fresh"
  /\ Found(mem, STAGE_META) => Found(mem, RAMSTAGE) /\ meta = Place(mem, RAMSTAGE)
  /\ loader \in {"meta", "cache", "jump"} =>
       Found(mem, RAMSTAGE) /\ prog = [at |-> Place(mem, RAMSTAGE), what |-> "fresh"]
  /\ loader \in {"meta", "cache"} => image = "fresh"
  /\ loader = "cache" => Found(mem, STAGE_META)

\* In romstage, where every call finds both roots again, cbmem_find() finds what
\* there is.
LEMMA FoundByRomstage ==
  ASSUME IInv, stage = "romstage"
  PROVE  \A m, d : cbmem_find(m, d) <=> Found(m, d)
<1>1. MemOK(mem)
  BY DEF IInv, Running
<1>2. Backing = [lg |-> TRUE, sm |-> TRUE]
  BY <1>1, PartialFindsSmall DEF Backing
<1> TAKE m, d
<1> DEFINE e == imd_entry_find(m, [lg |-> TRUE, sm |-> TRUE], d)
<1>3. cbmem_find(m, d) <=> e # <<"none", 0>>
  BY <1>2 DEF cbmem_find
<1>4. e # <<"none", 0>> <=> e[1] # "none"
  BY DEF imd_entry_find
<1>5. Place(m, d) # <<>> <=> e[1] # "none"
  <2> HIDE DEF e
  <2>1. Place(m, d) = IF e[1] = "none" THEN <<>>
                      ELSE <<imdr_entry_at(m[e[1]], e[2]), m[e[1]].entries[e[2]].size>>
    BY DEF Place, e
  <2> QED BY <2>1
<1> QED
  BY <1>3, <1>4, <1>5 DEF Found

\* FindOrAdd() of one id changes nothing about the others, nor about an entry that
\* is there.
LEMMA OneAdded ==
  ASSUME IInv, stage = "romstage", NEW id \in Ids, NEW size \in Sizes, FindOrAdd(id, size)
  PROVE  /\ \A d : d # id => Place(mem', d) = Place(mem, d)
         /\ Found(mem, id) => Place(mem', id) = Place(mem, id)
         /\ stage' = stage /\ resumed' = resumed
<1>1. MemOK(mem) /\ size \in Nat
  BY CbmemAssumption DEF IInv, Running
<1>2. CASE cbmem_find(mem, id)
  BY <1>2 DEF FindOrAdd, vars
<1>3. CASE ~cbmem_find(mem, id)
  <2>1. mem' = imd_entry_add(mem, Backing, id, size) /\ stage' = stage /\ resumed' = resumed
    BY <1>3 DEF FindOrAdd, cbmem_add
  <2>2. \A d : d # id => Place(mem', d) = Place(mem, d)
    BY <1>1, <2>1, AddKeeps
  <2>3. ~Found(mem, id)
    BY <1>3, FoundByRomstage
  <2> QED BY <2>1, <2>2, <2>3
<1> QED
  BY <1>2, <1>3

\* The other users of CBMEM leave the loader's entries where they are.
LEMMA OthersKept ==
  ASSUME IInv, OtherAdd \/ OtherRemove
  PROVE  /\ \A d \in StageIds : Place(mem', d) = Place(mem, d)
         /\ UNCHANGED <<stage, resumed, loader, contents, prog>>
<1>1. CASE OtherAdd
  <2>1. PICK id \in Ids \ StageIds, size \in Sizes : cbmem_add(id, size)
    BY <1>1 DEF OtherAdd
  <2>2. MemOK(mem) /\ size \in Nat
    BY <2>1, CbmemAssumption DEF IInv, cbmem_add
  <2>3. mem' = imd_entry_add(mem, Backing, id, size) /\ UNCHANGED <<stage, resumed>>
    BY <2>1 DEF cbmem_add
  <2>4. \A d : d # id => Place(mem', d) = Place(mem, d)
    BY <2>2, <2>3, AddKeeps
  <2> QED BY <1>1, <2>3, <2>4 DEF OtherAdd
<1>2. CASE OtherRemove
  <2>1. PICK id \in Ids \ StageIds : cbmem_entry_remove(id)
    BY <1>2 DEF OtherRemove
  <2> DEFINE e == imd_entry_find(mem, Backing, id)
  <2>2. MemOK(mem) /\ UNCHANGED <<stage, resumed>> /\ e[1] # "none" /\ CanRemove(mem[e[1]], e[2])
    BY <2>1 DEF IInv, cbmem_entry_remove
  <2>3. mem' = [mem EXCEPT ![e[1]] = imdr_entry_remove(@)]
    BY <2>1 DEF cbmem_entry_remove
  <2>4. ASSUME NEW d, d # id
        PROVE  Place([mem EXCEPT ![e[1]] = imdr_entry_remove(@)], d) = Place(mem, d)
    BY <2>2, <2>4, RemoveKeeps
  <2> QED BY <1>2, <2>2, <2>3, <2>4 DEF OtherRemove
<1> QED
  BY <1>1, <1>2

\* A wake-up finds what was there, even when it fails.
LEMMA WakeUpKeeps ==
  ASSUME IInv, WakeUp
  PROVE  \A d : Place(mem', d) = Place(mem, d)
<1>1. CASE mem' = mem
  BY <1>1
<1>2. CASE mem' = imd_lockdown(mem, imd_recover(mem)) /\ imd_recover(mem) # NoHandle
  <2>1. mem # NoMemory
    BY <1>2 DEF imd_recover, imdr_recover, NoMemory, NoRoot
  <2>2. MemOK(mem)
    BY <2>1 DEF IInv
  <2> QED BY <1>2, <2>2, LockKeeps
<1> QED
  BY <1>1, <1>2 DEF WakeUp

LEMMA StepHandoff == IInv /\ StageTypeOK /\ HandoffInv /\ [StageNext]_stageVars => HandoffInv'
<1> SUFFICES ASSUME IInv, StageTypeOK, HandoffInv, [StageNext]_stageVars PROVE HandoffInv'
  OBVIOUS
<1> USE StageAssumption DEF StageIds
<1>0. ASSUME Found(mem', ROMSTAGE_INFO) => Found(mem, ROMSTAGE_INFO),
             HandoffRead' => HandoffRead, UNCHANGED <<handoff, resumed>>
      PROVE  HandoffInv'
  BY <1>0 DEF HandoffInv
<1>1. CASE UNCHANGED stageVars
  BY <1>1 DEF stageVars, vars, contents, HandoffInv, HandoffRead, Found
<1>2. CASE StartCold \/ StartWakeUp
  <2>1. ~HandoffRead'
    BY <1>2 DEF StartCold, ColdBoot, StartWakeUp, WakeUp, HandoffRead
  <2> QED BY <2>1 DEF HandoffInv
<1>3. CASE romstage_handoff_init
  <2>1. stage = "romstage" /\ FindOrAdd(ROMSTAGE_INFO, SmallSize)
    BY <1>3 DEF romstage_handoff_init
  <2>2. resumed' = resumed
    BY <2>1, OneAdded
  <2>3. cbmem_find(mem', ROMSTAGE_INFO) <=> Found(mem', ROMSTAGE_INFO)
    BY <2>1, FoundByRomstage
  <2> QED BY <1>3, <2>2, <2>3 DEF romstage_handoff_init, HandoffInv, Found
<1>4. CASE stage_cache_load_stage \/ NotResuming
  BY <1>0, <1>4 DEF stage_cache_load_stage, NotResuming, vars, contents, Found, HandoffRead
<1>5. CASE ramstage_cache_invalid
  BY <1>0, <1>5 DEF ramstage_cache_invalid, Reset, vars, contents, Found, HandoffRead
<1>6. ASSUME NEW id \in {RAMSTAGE, STAGE_META, STAGE_CACHE}, NEW size \in Sizes,
             stage = "romstage", FindOrAdd(id, size), handoff' = handoff,
             loader \in {"load", "meta", "cache"}
      PROVE  HandoffInv'
  <2>1. Place(mem', ROMSTAGE_INFO) = Place(mem, ROMSTAGE_INFO) /\ resumed' = resumed
    BY <1>6, OneAdded
  <2> QED BY <1>6, <1>0, <2>1 DEF Found, HandoffRead
<1>7. CASE load_relocatable_ramstage
  BY <1>6, <1>7 DEF load_relocatable_ramstage
<1>8. CASE stage_cache_add
  BY <1>6, <1>8 DEF stage_cache_add
<1>9. CASE stage_cache_copy
  BY <1>6, <1>9 DEF stage_cache_copy
<1>10. CASE prog_run
  BY <1>0, <1>10 DEF prog_run, StartRamstage, HandoffRead, Found
<1>11. CASE OtherAdd \/ OtherRemove
  <2>1. Place(mem', ROMSTAGE_INFO) = Place(mem, ROMSTAGE_INFO) /\ UNCHANGED <<stage, resumed, loader, handoff>>
    BY <1>11, OthersKept DEF contents
  <2> QED BY <1>0, <2>1 DEF Found, HandoffRead
<1>12. CASE Sleep
  BY <1>0, <1>12 DEF Sleep, Suspend, contents, Found, HandoffRead
<1>13. CASE LoseMemory
  BY <1>0, <1>13, NothingThere DEF LoseMemory, MemoryLost, contents, Found, HandoffRead
<1>14. CASE PowerCycle
  BY <1>14 DEF PowerCycle, Reset, HandoffInv, HandoffRead
<1> QED
  BY <1>1, <1>2, <1>3, <1>4, <1>5, <1>7, <1>8, <1>9, <1>10, <1>11, <1>12, <1>13, <1>14 DEF StageNext

LEMMA StepCache == IInv /\ StageTypeOK /\ CacheInv /\ [StageNext]_stageVars => CacheInv'
<1> SUFFICES ASSUME IInv, StageTypeOK, CacheInv, [StageNext]_stageVars PROVE CacheInv'
  OBVIOUS
<1> USE StageAssumption DEF StageIds
<1>0. ASSUME \A d \in StageIds : Place(mem', d) = Place(mem, d),
             loader' = loader \/ loader' \notin {"meta", "cache", "jump"},
             prog' = prog \/ loader' \notin {"meta", "cache", "jump"},
             image' = image \/ loader' \notin {"meta", "cache"},
             UNCHANGED <<meta, cache>>
      PROVE  CacheInv'
  BY <1>0 DEF CacheInv, Found
<1>1. CASE UNCHANGED stageVars
  BY <1>0, <1>1 DEF stageVars, vars, contents
<1>2. CASE StartCold
  BY <1>2, NothingThere DEF StartCold, ColdBoot, CacheInv, Found
<1>3. CASE StartWakeUp
  BY <1>0, <1>3, WakeUpKeeps DEF StartWakeUp, contents
<1>4. CASE romstage_handoff_init
  <2>1. \A d \in {RAMSTAGE, STAGE_META, STAGE_CACHE} : Place(mem', d) = Place(mem, d)
    BY <1>4, OneAdded DEF romstage_handoff_init
  <2> QED BY <1>4, <2>1 DEF romstage_handoff_init, CacheInv, Found
<1>5. CASE stage_cache_load_stage
  <2>1. Found(mem, STAGE_META) /\ Found(mem, STAGE_CACHE) /\ mem' = mem
    BY <1>5, FoundByRomstage DEF stage_cache_load_stage, StageCached, vars
  <2> QED BY <1>5, <2>1 DEF stage_cache_load_stage, CacheInv, Found
<1>6. CASE NotResuming \/ ramstage_cache_invalid
  BY <1>0, <1>6 DEF NotResuming, ramstage_cache_invalid, Reset, vars, contents
<1>7. CASE load_relocatable_ramstage
  <2>1. stage = "romstage" /\ FindOrAdd(RAMSTAGE, StageSize)
    BY <1>7 DEF load_relocatable_ramstage
  <2>2. \A d \in {STAGE_META, STAGE_CACHE} : Place(mem', d) = Place(mem, d)
    BY <2>1, OneAdded
  <2>3. Found(mem, RAMSTAGE) => Place(mem', RAMSTAGE) = Place(mem, RAMSTAGE)
    BY <2>1, OneAdded
  <2>4. cbmem_find(mem', RAMSTAGE) <=> Found(mem', RAMSTAGE)
    BY <2>1, FoundByRomstage
  <2> QED BY <1>7, <2>2, <2>3, <2>4 DEF load_relocatable_ramstage, CacheInv, Found
<1>8. CASE stage_cache_add
  <2>1. stage = "romstage" /\ FindOrAdd(STAGE_META, SmallSize)
    BY <1>8 DEF stage_cache_add
  <2>2. \A d \in {RAMSTAGE, STAGE_CACHE} : Place(mem', d) = Place(mem, d)
    BY <2>1, OneAdded
  <2>3. Found(mem, STAGE_META) => Place(mem', STAGE_META) = Place(mem, STAGE_META)
    BY <2>1, OneAdded
  <2>4. cbmem_find(mem', STAGE_META) <=> Found(mem', STAGE_META)
    BY <2>1, FoundByRomstage
  <2> QED BY <1>8, <2>2, <2>3, <2>4 DEF stage_cache_add, CacheInv, Found
<1>9. CASE stage_cache_copy
  <2>1. stage = "romstage" /\ FindOrAdd(STAGE_CACHE, StageSize)
    BY <1>9 DEF stage_cache_copy
  <2>2. \A d \in {RAMSTAGE, STAGE_META} : Place(mem', d) = Place(mem, d)
    BY <2>1, OneAdded
  <2>4. cbmem_find(mem', STAGE_CACHE) <=> Found(mem', STAGE_CACHE)
    BY <2>1, FoundByRomstage
  <2> QED BY <1>9, <2>2, <2>4 DEF stage_cache_copy, CacheInv, Found
<1>10. CASE prog_run
  BY <1>0, <1>10 DEF prog_run, StartRamstage
<1>11. CASE OtherAdd \/ OtherRemove
  BY <1>0, <1>11, OthersKept DEF contents
<1>12. CASE Sleep \/ PowerCycle
  BY <1>0, <1>12 DEF Sleep, Suspend, PowerCycle, Reset, contents
<1>13. CASE LoseMemory
  <2>1. loader' = loader /\ loader \notin {"meta", "cache", "jump"}
    BY <1>13 DEF LoseMemory, MemoryLost, StageTypeOK
  <2> QED BY <1>13, <2>1, NothingThere DEF LoseMemory, MemoryLost, CacheInv, Found, contents
<1> QED
  BY <1>1, <1>2, <1>3, <1>4, <1>5, <1>6, <1>7, <1>8, <1>9, <1>10, <1>11, <1>12, <1>13 DEF StageNext

LEMMA HoldsInCbmem == StageSpec => []IInv
<1>1. Spec => []IInv
  BY InitIInv, StepIInv, PTL DEF Spec
<1> QED
  BY <1>1, UsesCbmem, PTL

\* Whatever handle it uses, what cbmem_find() finds is there.
LEMMA FoundIsThere ==
  ASSUME NEW m, NEW d, cbmem_find(m, d)
  PROVE  Found(m, d)
<1> DEFINE e == imd_entry_find(m, [lg |-> TRUE, sm |-> TRUE], d)
<1>1. imdr_entry_find(m.sm, d) # 0 \/ imdr_entry_find(m.lg, d) # 0
  BY DEF cbmem_find, imd_entry_find
<1>2. e[1] # "none"
  BY <1>1 DEF imd_entry_find
<1> HIDE DEF e
<1>3. Place(m, d) = IF e[1] = "none" THEN <<>>
                    ELSE <<imdr_entry_at(m[e[1]], e[2]), m[e[1]].entries[e[2]].size>>
  BY DEF Place, e
<1> QED
  BY <1>2, <1>3 DEF Found

LEMMA HandoffHeld == StageSpec => []HandoffInv
<1>1. StageInit => HandoffInv
  BY DEF StageInit, Init, HandoffInv, HandoffRead
<1> QED
  BY <1>1, StepHandoff, HoldsInCbmem, StageTypeCorrect, PTL DEF StageSpec

\* A cold boot is never taken for a wake-up, by romstage or by ramstage:
\* romstage_handoff_init() has overwritten the flag, or there is no structure to
\* read it from.
THEOREM ColdBootIsCold == StageSpec => []NoFalseResume
<1>1. HandoffInv => NoFalseResume
  BY FoundIsThere DEF HandoffInv, NoFalseResume, romstage_handoff_is_resume
<1> QED
  BY <1>1, HandoffHeld, PTL

\* ramstage knows both roots.
BothRoots == stage = "ramstage" => imd = [lg |-> TRUE, sm |-> TRUE]

\* A wake-up whose handoff found room is never taken for a cold boot, by romstage
\* or by ramstage, when all that users may ask for fits below the top of memory.
THEOREM WakeUpIsSeen ==
  ASSUME NEW CONSTANT M, FitsBelowTop(M)
  PROVE  StageSpec => []ResumeSeen
<1>1. StageInit => BothRoots
  BY DEF StageInit, Init, BothRoots
<1>2. ASSUME Recoverable, BothRoots, [Next]_vars
      PROVE  BothRoots'
  <2>1. CASE UNCHANGED vars
    BY <1>2, <2>1 DEF BothRoots, vars
  <2>2. CASE StartRamstage
    BY <1>2, <2>2 DEF BothRoots, StartRamstage, Recoverable, Running
  <2>3. CASE ColdBoot \/ WakeUp \/ Suspend \/ MemoryLost \/ Reset
    BY <1>2, <2>3 DEF BothRoots, ColdBoot, WakeUp, Suspend, MemoryLost, Reset
  <2>4. ASSUME NEW id \in Ids, NEW size \in Sizes, cbmem_add(id, size)
        PROVE  BothRoots'
    BY <1>2, <2>4 DEF BothRoots, cbmem_add
  <2>5. ASSUME NEW id \in Ids, cbmem_entry_remove(id)
        PROVE  BothRoots'
    BY <1>2, <2>5 DEF BothRoots, cbmem_entry_remove
  <2> QED BY <1>2, <2>1, <2>2, <2>3, <2>4, <2>5 DEF Next
<1>3. ASSUME IInv, StageTypeOK, HandoffInv, BothRoots
      PROVE  ResumeSeen
  <2> SUFFICES ASSUME HandoffRead, resumed, Having(ROMSTAGE_INFO) # {}
               PROVE  romstage_handoff_is_resume
    BY DEF ResumeSeen
  <2>1. Running /\ MemOK(mem)
    BY <1>3 DEF HandoffRead, StageTypeOK, Running, IInv
  <2>2. Backing = [lg |-> TRUE, sm |-> TRUE]
    BY <1>3, <2>1, PartialFindsSmall DEF Backing, BothRoots, Running
  <2>3. PICK t \in {"lg", "sm"}, i \in Nat :
          i >= 2 /\ i <= Len(mem[t].entries) /\ mem[t].entries[i].id = ROMSTAGE_INFO
    BY DEF Having
  <2>4. mem.lg \in Roots /\ mem.sm \in Roots
    BY <2>1 DEF MemOK, LargeOK, SmallOK, RootOK
  <2>5. imdr_entry_find(mem[t], ROMSTAGE_INFO) # 0
    BY <2>3, <2>4, FindsAll
  <2>6. imd_entry_find(mem, Backing, ROMSTAGE_INFO) # <<"none", 0>>
    BY <2>2, <2>3, <2>5 DEF imd_entry_find
  <2>7. cbmem_find(mem, ROMSTAGE_INFO)
    BY <2>6 DEF cbmem_find
  <2>8. handoff
    BY <1>3, <2>7, FoundIsThere DEF HandoffInv
  <2> QED BY <2>7, <2>8 DEF romstage_handoff_is_resume
<1>4. StageSpec => []Recoverable
  <2>1. Spec => []Recoverable
    BY StagesRecover
  <2> QED BY <2>1, UsesCbmem, PTL
<1>5. StageSpec => [][Next]_vars
  BY UsesCbmem, PTL DEF Spec
<1> QED
  BY <1>1, <1>2, <1>3, <1>4, <1>5, HandoffHeld, HoldsInCbmem, StageTypeCorrect, PTL DEF StageSpec

\* What is run as ramstage is always the image as it was built, at the place that
\* CBMEM has set apart for it, after any number of wake-ups and whichever of the
\* additions to CBMEM found no room.
THEOREM AlwaysPristine == StageSpec => []RunsPristine
<1>1. StageInit => CacheInv
  <2> SUFFICES ASSUME StageInit PROVE CacheInv
    OBVIOUS
  <2>1. mem = NoMemory /\ loader = "off"
    BY DEF StageInit, Init
  <2>2. \A d \in StageIds : ~Found(mem, d)
    BY <2>1, NothingThere, StageAssumption DEF Found
  <2> QED BY <2>1, <2>2 DEF CacheInv, StageIds
<1>2. CacheInv => RunsPristine
  BY DEF CacheInv, RunsPristine, Found
<1> QED
  BY <1>1, <1>2, StepCache, HoldsInCbmem, StageTypeCorrect, PTL DEF StageSpec
=============================================================================
