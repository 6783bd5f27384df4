------------------------------- MODULE MCMtrr -------------------------------
(* A small address space: pages of two bytes, 1 MiB at page 4, 4 GiB at 32. *)
EXTENDS Mtrr

R(page, pages) == [base |-> page * PageSize, size |-> pages * PageSize]

McFixedStep == [s \in {0, 2, 3} |-> IF s = 0 THEN 2 ELSE 1]

\* Memory below 4 GiB, once with an odd number of bytes, and above it.
McLowRam == {R(0, n) : n \in {3, 12, 16, 18, 27}} \cup {[base |-> 0, size |-> 39]}
McCacheable == {R(4, 8), R(32, 4), R(32, 11), R(32, 32)}

\* Legacy hole, stolen memory, register windows, one of them above 4 GiB.
McUncacheable == {R(2, 2), R(5, 2), R(15, 3), R(17, 7), R(26, 6), R(31, 1), R(52, 2)}
                   \cup {[base |-> 21, size |-> 4]}
McPrefetchable == {R(2, 1), R(18, 4), R(24, 2), R(56, 8)}

McTempRanges == {[base |-> 28 * PageSize, size |-> 4 * PageSize, type |-> "WP"]}
=============================================================================
