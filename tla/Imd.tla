--------------------------------- MODULE Imd --------------------------------
(***************************************************************************)
(* The in-memory directory of lib/imd.c: the operations on one root.       *)
(*                                                                         *)
(* A root lies just below its limit and describes memory that is handed    *)
(* out downwards.  Entry 1 covers the root itself.  Offsets are relative   *)
(* to the address of the root.                                             *)
(***************************************************************************)
EXTENDS Integers, Sequences, FiniteSetsExt

CONSTANTS
  LIMIT_ALIGN,      \* alignment of limits, largest root size
  RootPointerSize,  \* sizeof(struct imd_root_pointer)
  RootHeaderSize,   \* sizeof(struct imd_root)
  EntrySize,        \* sizeof(struct imd_entry)
  SIZE_MAX,         \* ~(size_t)0
  CBMEM_ID_IMD_ROOT \* the id of entry 1

ASSUME ImdAssumption ==
  /\ LIMIT_ALIGN \in Nat \ {0}
  /\ RootPointerSize \in Nat /\ RootHeaderSize \in Nat /\ EntrySize \in Nat \ {0}
  /\ SIZE_MAX \in Nat

ALIGN_UP(x, a) == ((x + a - 1) \div a) * a

root_num_entries(root_size) ==
  (root_size - RootPointerSize - RootHeaderSize) \div EntrySize

Entry(id, offset, size) == [id |-> id, start_offset |-> offset, size |-> size]

\* Memory in which no root is found: the magic of the root pointer is wrong.
NoRoot ==
  [valid |-> FALSE, limit |-> 0, address |-> 0, entry_align |-> 1, max_entries |-> 0,
   max_offset |-> 0, locked |-> FALSE, entries |-> <<>>]

\* The parameters are constants of the callers that pass the checks.
imdr_create_empty(limit, root_size, entry_align) ==
  [valid |-> TRUE, limit |-> limit, address |-> limit - root_size,
   entry_align |-> entry_align, max_entries |-> root_num_entries(root_size),
   max_offset |-> 0, locked |-> FALSE,
   entries |-> <<Entry(CBMEM_ID_IMD_ROOT, 0, root_size)>>]

imdr_limit_size(r, max_size) ==
  LET root_size == r.limit - r.address
  IN IF max_size < root_size THEN r ELSE [r EXCEPT !.max_offset = root_size - max_size]

root_last_entry(r) == r.entries[Len(r.entries)]

\* max_offset 0 stands for no limit.
imd_root_data_left(r) ==
  IF r.max_offset # 0 THEN root_last_entry(r).start_offset - r.max_offset ELSE SIZE_MAX

CanAdd(r, size) ==
  /\ ~r.locked
  /\ Len(r.entries) # r.max_entries
  /\ ALIGN_UP(size, r.entry_align) <= imd_root_data_left(r)

\* imd_entry_add_to_root(), when it succeeds.
imdr_entry_add(r, id, size) ==
  LET e_offset == root_last_entry(r).start_offset - ALIGN_UP(size, r.entry_align)
  IN [r EXCEPT !.entries = Append(@, Entry(id, e_offset, size))]

\* The first entry with the id, or 0; entry 1 is skipped.
imdr_entry_find(r, id) ==
  LET found == {i \in 2 .. Len(r.entries) : r.entries[i].id = id}
  IN IF found = {} THEN 0 ELSE Min(found)

imdr_entry_at(r, i) == r.address + r.entries[i].start_offset

\* imd_entry_remove() takes away the last entry only.
CanRemove(r, i) == ~r.locked /\ i = Len(r.entries)
imdr_entry_remove(r) == [r EXCEPT !.entries = SubSeq(@, 1, Len(@) - 1)]

\* imdr_recover() finds the root r below limit and believes it.
imdr_recover(r, limit) ==
  LET low_limit == IF r.max_offset = 0 THEN 0 ELSE r.address + r.max_offset
  IN /\ r.valid /\ r.limit = limit
     /\ ALIGN_UP(r.address + RootHeaderSize + r.max_entries * EntrySize, LIMIT_ALIGN) = limit
     /\ Len(r.entries) <= r.max_entries
     /\ \A i \in 1 .. Len(r.entries) :
          /\ imdr_entry_at(r, i) >= low_limit
          /\ imdr_entry_at(r, i) < limit
          /\ imdr_entry_at(r, i) + r.entries[i].size <= limit
=============================================================================
