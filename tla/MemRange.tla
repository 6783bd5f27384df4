------------------------------ MODULE MemRange ------------------------------
(***************************************************************************)
(* Lists of tagged address ranges, lib/memrange.c, as ramstage uses them:  *)
(* entries come from malloc(), which does not fail, and the list nodes and *)
(* the list of free ones are left out.  A list is a sequence of entries in *)
(* the order of their addresses; the operators take a list to the list     *)
(* that the function of the same name leaves behind.                       *)
(***************************************************************************)
EXTENDS Integers, Sequences, SequencesExt

CONSTANT PageSize     \* 4096, to which insertions are aligned

ASSUME PageAssumption == PageSize \in Nat \ {0}

\* struct range_entry: both addresses inclusive
Entry(begin, end, tag) == [begin |-> begin, end |-> end, tag |-> tag]

Merges(prev, cur) == prev.end + 1 >= cur.begin /\ prev.tag = cur.tag

merge_neighbor_entries(entries) ==
  LET Add(done, cur) ==
        IF done # <<>> /\ Merges(Last(done), cur)
        THEN Append(Front(done), [Last(done) EXCEPT !.end = cur.end])
        ELSE Append(done, cur)
  IN  FoldLeft(Add, <<>>, entries)

\* Mutant: a hole in the middle of an entry cuts off all that follows.
Remains_head(cur, begin, end) ==
  CASE end < cur.begin \/ begin > cur.end -> <<cur>>
    [] begin <= cur.begin /\ end >= cur.end -> <<>>
    [] begin <= cur.begin /\ end < cur.end -> <<[cur EXCEPT !.begin = end + 1]>>
    [] OTHER -> <<[cur EXCEPT !.end = begin - 1]>>

\* What is left of an entry when begin .. end is removed.
Remains(cur, begin, end) ==
  CASE end < cur.begin \/ begin > cur.end -> <<cur>>
    [] begin <= cur.begin /\ end >= cur.end -> <<>>
    [] begin <= cur.begin /\ end < cur.end -> <<[cur EXCEPT !.begin = end + 1]>>
    [] begin > cur.begin /\ end >= cur.end -> <<[cur EXCEPT !.end = begin - 1]>>
    [] begin > cur.begin /\ end < cur.end ->
         <<[cur EXCEPT !.end = begin - 1], [cur EXCEPT !.begin = end + 1]>>

remove_memranges(entries, begin, end) ==
  FoldLeft(LAMBDA done, cur : done \o Remains(cur, begin, end), <<>>, entries)

\* The new entry goes in front of the first one that begins behind its end.
merge_add_memranges(entries, begin, end, tag) ==
  LET rest == remove_memranges(entries, begin, end)
  IN  merge_neighbor_entries(
        SelectSeq(rest, LAMBDA r : r.begin <= end)
          \o <<Entry(begin, end, tag)>>
          \o SelectSeq(rest, LAMBDA r : r.begin > end))

ALIGN_DOWN(a) == (a \div PageSize) * PageSize
ALIGN_UP(a)   == ((a + PageSize - 1) \div PageSize) * PageSize

memranges_insert(entries, base, size, tag) ==
  IF size = 0 THEN entries
  ELSE merge_add_memranges(entries, ALIGN_DOWN(base), ALIGN_UP(base + size) - 1, tag)

memranges_update_tag(entries, old_tag, new_tag) ==
  merge_neighbor_entries(
    [i \in DOMAIN entries |->
       IF entries[i].tag = old_tag THEN [entries[i] EXCEPT !.tag = new_tag] ELSE entries[i]])

(***************************************************************************)
(* The gaps between two entries, up to the first that begins at or above   *)
(* the limit, and the one behind the last entry.  Nothing is added in      *)
(* front of the first entry.                                               *)
(***************************************************************************)
memranges_fill_holes_up_to(entries, limit, tag) ==
  LET Gap(i) ==
        IF \/ i = 1
           \/ \E j \in 2 .. i - 1 : entries[j].begin >= limit
           \/ entries[i - 1].end + 1 = entries[i].begin
        THEN <<>>
        ELSE LET end == entries[i].begin - 1
             IN  <<Entry(entries[i - 1].end + 1, IF end >= limit THEN limit - 1 ELSE end, tag)>>
      Behind == IF entries # <<>> /\ Last(entries).end + 1 < limit
                THEN <<Entry(Last(entries).end + 1, limit - 1, tag)>>
                ELSE <<>>
  IN  merge_neighbor_entries(
        FoldLeftDomain(LAMBDA done, i : Append(done \o Gap(i), entries[i]), <<>>, entries) \o Behind)

-----------------------------------------------------------------------------
(* What a list means *)

\* In order, without overlap, and no two entries that could be one.
WellFormed(entries) ==
  /\ \A i \in DOMAIN entries : entries[i].begin <= entries[i].end
  /\ \A i \in 1 .. Len(entries) - 1 :
       /\ entries[i].end < entries[i + 1].begin
       /\ entries[i].end + 1 = entries[i + 1].begin => entries[i].tag # entries[i + 1].tag

Covers(entry, a) == entry.begin <= a /\ a <= entry.end
=============================================================================
