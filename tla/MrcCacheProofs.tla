--------------------------- MODULE MrcCacheProofs ---------------------------
(* Machine-checked theorems about MrcCache, for a region, containers and      *)
(* timings of any size: whatever power failures and errors leave in the flash, *)
(* the memory controller runs with timings that fit.                          *)
EXTENDS MrcCache, TLAPS, NaturalsInduction, WellFoundedInduction

-----------------------------------------------------------------------------
(* Numbers and blocks                                                      *)

\* A set of natural numbers that is not empty has a smallest element: induction, for
\* a set of counterexamples.
LEMMA SmallestOf ==
  ASSUME NEW S \in SUBSET Nat, S # {}
  PROVE  \E x \in S : \A y \in S : x <= y
<1> DEFINE R == OpToRel(<, Nat)
<1>1. \E x \in S : \A y \in S : ~ (<<y, x>> \in R)
  <2> HIDE DEF R
  <2>1. IsWellFoundedOn(R, Nat)
    BY NatLessThanWellFounded DEF R
  <2> QED
    BY <2>1, WFMin
<1>2. PICK x \in S : \A y \in S : ~ (<<y, x>> \in R)
  BY <1>1
<1>3. ASSUME NEW y \in S PROVE x <= y
  <2>1. x \in Nat /\ y \in Nat /\ <<y, x>> \notin R
    BY <1>2
  <2>2. y < x => <<y, x>> \in R
    BY <2>1 DEF OpToRel
  <2> HIDE DEF R
  <2> QED
    BY <2>1, <2>2
<1> QED
  BY <1>2, <1>3

\* A block has room for a container and is made of whole alignment units.
LEMMA Geometry ==
  /\ DataSize \in Nat /\ DataSize >= 1 /\ Align \in Nat /\ Align > 1
  /\ Sector \in Nat /\ Sector >= 1 /\ Region \in Nat /\ Region >= 1
  /\ ContainerSize \in Nat /\ ContainerSize >= 4
  /\ BlockSize \in Nat /\ ContainerSize <= BlockSize /\ Align <= BlockSize
<1>1. /\ DataSize \in Nat /\ DataSize >= 1 /\ Align \in Nat /\ Align > 1
      /\ Sector \in Nat /\ Sector >= 1 /\ Region \in Nat /\ Region >= 1
  BY MrcAssumption
<1>2. ContainerSize \in Nat /\ ContainerSize >= 4
  BY <1>1 DEF ContainerSize, HeaderSize
<1> DEFINE y == ContainerSize + Align - 1
           k == y \div Align
<1>3. y \in Nat /\ y >= Align /\ y >= ContainerSize /\ y - Align = ContainerSize - 1
  BY <1>1, <1>2
<1> HIDE DEF y
<1>4. k \in Nat /\ Align * k <= y /\ y < Align * k + Align
  BY <1>1, <1>3, SMT
<1> HIDE DEF k
<1>5. BlockSize = k * Align
  BY DEF BlockSize, k, y
<1>6. k * Align = Align * k /\ Align * k \in Nat
  BY <1>1, <1>4, SMT
<1>7. ContainerSize <= BlockSize
  BY <1>1, <1>2, <1>3, <1>4, <1>5, <1>6
<1>8. k >= 1
  <2>1. k = 0 => Align * k = 0
    BY <1>1
  <2> QED BY <1>2, <1>4, <1>5, <1>6, <1>7, <2>1
<1>9. Align <= Align * k
  BY <1>1, <1>4, <1>8, SMT
<1> QED BY <1>1, <1>2, <1>5, <1>6, <1>7, <1>9

\* Where a block starts.
Starts == {k * BlockSize : k \in Nat}

LEMMA StartsApart ==
  ASSUME NEW x \in Starts, NEW y \in Starts
  PROVE  x \in Nat /\ x + BlockSize \in Starts /\ (x < y => x + BlockSize <= y)
<1>0. BlockSize \in Nat /\ BlockSize >= 4
  BY Geometry
<1>1. PICK j \in Nat : x = j * BlockSize
  BY DEF Starts
<1>2. PICK k \in Nat : y = k * BlockSize
  BY DEF Starts
<1>3. x \in Nat /\ y \in Nat
  BY <1>0, <1>1, <1>2, SMT
<1>4. x + BlockSize = (j + 1) * BlockSize
  BY <1>0, <1>1, SMT
<1>5. ASSUME x < y PROVE x + BlockSize <= y
  <2>1. j < k
    <3> SUFFICES ASSUME k <= j PROVE FALSE
      OBVIOUS
    <3>1. PICK i \in Nat : j = k + i
      <4>1. j = k + (j - k) /\ j - k \in Nat
        OBVIOUS
      <4> QED BY <4>1
    <3>2. x = y + i * BlockSize /\ i * BlockSize \in Nat
      BY <1>0, <1>1, <1>2, <3>1, SMT
    <3> DEFINE z == i * BlockSize
    <3> HIDE DEF z
    <3>3. x = y + z /\ z \in Nat
      BY <3>2 DEF z
    <3> QED BY <1>3, <1>5, <3>3
  <2>2. PICK i \in Nat : k = j + 1 + i
    <3>1. k = j + 1 + (k - j - 1) /\ k - j - 1 \in Nat
      BY <2>1
    <3> QED BY <3>1
  <2>3. y = x + BlockSize + i * BlockSize /\ i * BlockSize >= 0
    BY <1>0, <1>1, <1>2, <2>2, SMT
  <2> QED BY <1>0, <1>3, <2>3
<1>6. x + BlockSize \in Starts
  BY <1>4 DEF Starts
<1> QED BY <1>3, <1>5, <1>6

LEMMA StartsEnds ==
  0 \in Starts /\ Region \in Starts /\ (Align \in Starts => Align = BlockSize)
<1>0. /\ BlockSize \in Nat /\ BlockSize >= 4 /\ Region \in Nat /\ Align \in Nat /\ Align > 1
      /\ Align <= BlockSize /\ Region % BlockSize = 0
  BY Geometry, MrcAssumption
<1>1. 0 = 0 * BlockSize
  BY <1>0
<1>2. 0 \in Starts
  BY <1>1 DEF Starts
<1>3. Region \in Starts
  <2> DEFINE k == Region \div BlockSize
  <2>1. k \in Nat /\ Region = k * BlockSize
    BY <1>0, SMT
  <2> QED BY <2>1 DEF Starts
<1>4. ASSUME Align \in Starts PROVE Align = BlockSize
  <2>1. 0 < Align => 0 + BlockSize <= Align
    BY <1>2, <1>4, StartsApart
  <2> QED BY <1>0, <2>1
<1> QED BY <1>2, <1>3, <1>4

\* A block of the region lies in it as a whole.
LEMMA BlockInRegion ==
  ASSUME NEW x \in Starts, x < Region
  PROVE  x \in 0 .. Region - 1 /\ x + BlockSize <= Region
BY StartsApart, StartsEnds, Geometry

-----------------------------------------------------------------------------
(* The chain                                                               *)

Space == 0 .. Region - 1

Jump(f, c) == next_mrc_block(f, c) < Region /\ is_mrc_cache(f, next_mrc_block(f, c))

\* One step along the chain, which goes on with g.
Body(f, g, c) == IF Jump(f, c) THEN g[next_mrc_block(f, c)] ELSE c

last(f) == CHOOSE g : g = [c \in Space |-> Body(f, g, c)]

LEMMA NextBlock ==
  ASSUME NEW f, NEW c \in Space
  PROVE  /\ next_mrc_block(f, c) \in Nat /\ c < next_mrc_block(f, c)
         /\ next_mrc_block(f, c) < Region => next_mrc_block(f, c) \in Space
         /\ next_mrc_block(f, c) \in {c + BlockSize, c + Align}
         /\ f[c + 1] = {SizeWord} => next_mrc_block(f, c) = c + BlockSize
         /\ f[c + 1] # {SizeWord} => next_mrc_block(f, c) = c + Align
BY Geometry DEF next_mrc_block, Space

\* What holds of a cell when it holds of all cells behind it holds of the region.
LEMMA Backwards ==
  ASSUME NEW S, \A c \in Space : (\A d \in Space : d > c => d \in S) => c \in S
  PROVE  \A c \in Space : c \in S
<1> DEFINE bad == {n \in Nat : \E c \in Space : c \notin S /\ n = Region - c}
<1>0. Region \in Nat /\ \A c \in Space : c \in Nat /\ Region - c \in Nat
  BY Geometry DEF Space
<1>1. bad = {}
  <2> SUFFICES ASSUME bad # {} PROVE FALSE
    OBVIOUS
  <2>1. PICK n \in bad : \A m \in bad : n <= m
    <3>1. bad \in SUBSET Nat
      OBVIOUS
    <3> HIDE DEF bad
    <3> QED BY <3>1, SmallestOf
  <2>2. PICK c \in Space : c \notin S /\ n = Region - c
    BY <2>1
  <2>3. ASSUME NEW d \in Space, d > c PROVE d \in S
    <3> SUFFICES ASSUME d \notin S PROVE FALSE
      OBVIOUS
    <3>1. Region - d \in bad
      BY <1>0
    <3> HIDE DEF bad
    <3>2. n <= Region - d
      BY <2>1, <3>1
    <3> QED BY <1>0, <2>2, <2>3, <3>2
  <2> QED BY <2>2, <2>3
<1>2. ASSUME NEW c \in Space, c \notin S PROVE FALSE
  <2>1. Region - c \in bad
    BY <1>0, <1>2
  <2> HIDE DEF bad
  <2> QED BY <1>1, <2>1
<1> QED BY <1>2

\* There is a function that satisfies the recursive definition of the walk.
LEMMA WalkExists ==
  ASSUME NEW f
  PROVE  \E g : g = [c \in Space |-> Body(f, g, c)]
<1> DEFINE From(c) == \E g : \A d \in Space : d >= c => g[d] = Body(f, g, d)
           S == {c \in Space : From(c)}
<1>0. Region \in Nat /\ Region >= 1 /\ \A c \in Space : c \in Nat /\ c < Region
  BY Geometry DEF Space
<1>1. ASSUME NEW c \in Space, \A d \in Space : d > c => d \in S PROVE c \in S
  <2>1. PICK g : \A d \in Space : d >= c + 1 => g[d] = Body(f, g, d)
    <3>1. CASE c + 1 \in Space
      <4>1. From(c + 1)
        BY <1>0, <1>1, <3>1
      <4> QED BY <4>1
    <3>2. CASE c + 1 \notin Space
      <4>1. ASSUME NEW d \in Space, d >= c + 1 PROVE FALSE
        BY <1>0, <3>2, <4>1 DEF Space
      <4> QED BY <4>1
    <3> QED BY <3>1, <3>2
  <2> DEFINE h == [d \in Space |-> IF d >= c + 1 THEN g[d] ELSE Body(f, g, d)]
  <2>2. ASSUME NEW d \in Space, d >= c PROVE h[d] = Body(f, h, d)
    <3>1. h[d] = Body(f, g, d)
      BY <2>1
    <3>2. Jump(f, d) => h[next_mrc_block(f, d)] = g[next_mrc_block(f, d)]
      <4> SUFFICES ASSUME Jump(f, d) PROVE h[next_mrc_block(f, d)] = g[next_mrc_block(f, d)]
        OBVIOUS
      <4> DEFINE n == next_mrc_block(f, d)
      <4>1. n \in Space /\ n \in Nat /\ d < n
        BY NextBlock DEF Jump
      <4>2. n >= c + 1
        BY <1>0, <2>2, <4>1
      <4> HIDE DEF n
      <4>3. h[n] = g[n]
        BY <4>1, <4>2
      <4> QED BY <4>3 DEF n
    <3> HIDE DEF h
    <3> QED BY <3>1, <3>2 DEF Body
  <2> HIDE DEF h
  <2>3. From(c)
    BY <2>2
  <2> QED BY <2>3
<1>2. 0 \in Space
  BY <1>0 DEF Space
<1>3. 0 \in S
  <2> HIDE DEF S
  <2> QED BY <1>1, <1>2, Backwards
<1>4. From(0)
  BY <1>3
<1>5. PICK g : \A d \in Space : d >= 0 => g[d] = Body(f, g, d)
  BY <1>4
<1> DEFINE h == [d \in Space |-> g[d]]
<1>6. ASSUME NEW d \in Space PROVE h[d] = Body(f, h, d)
  <2>1. h[d] = Body(f, g, d)
    BY <1>0, <1>5
  <2>2. Jump(f, d) => h[next_mrc_block(f, d)] = g[next_mrc_block(f, d)]
    BY NextBlock DEF Jump
  <2> HIDE DEF h
  <2> QED BY <2>1, <2>2 DEF Body
<1>7. h = [d \in Space |-> h[d]]
  OBVIOUS
<1> HIDE DEF h
<1>8. h = [d \in Space |-> Body(f, h, d)]
  BY <1>6, <1>7
<1> QED BY <1>8

LEMMA Walk ==
  ASSUME NEW f
  PROVE  /\ LastEntry(f) = last(f)[0]
         /\ \A c \in Space : last(f)[c] = Body(f, last(f), c)
<1>1. LastEntry(f) = last(f)[0]
  BY DEF LastEntry, last, Body, Jump, Space
<1>2. last(f) = [c \in Space |-> Body(f, last(f), c)]
  BY WalkExists DEF last
<1> DEFINE l == last(f)
<1>3. l = [c \in Space |-> Body(f, l, c)]
  BY <1>2
<1> HIDE DEF l
<1>4. \A c \in Space : l[c] = Body(f, l, c)
  BY <1>3
<1> QED BY <1>1, <1>4 DEF l

\* Where the chain ends: a container, or the base of the region.
LEMMA LastFacts ==
  ASSUME NEW f
  PROVE  /\ LastEntry(f) \in Space /\ ~Jump(f, LastEntry(f))
         /\ LastEntry(f) = 0 \/ is_mrc_cache(f, LastEntry(f))
<1> DEFINE l == last(f)
           S == {c \in Space : l[c] \in Space /\ ~Jump(f, l[c]) /\ (l[c] = c \/ is_mrc_cache(f, l[c]))}
<1>1. \A c \in Space : l[c] = Body(f, l, c)
  BY Walk
<1> HIDE DEF l
<1>2. ASSUME NEW c \in Space, \A d \in Space : d > c => d \in S PROVE c \in S
  <2>1. CASE Jump(f, c)
    <3> DEFINE n == next_mrc_block(f, c)
    <3>1. n \in Space /\ n > c /\ is_mrc_cache(f, n)
      BY <2>1, NextBlock, Geometry DEF Jump, Space
    <3>2. l[c] = l[n]
      BY <1>1, <2>1 DEF Body
    <3> HIDE DEF n
    <3> QED BY <1>2, <3>1, <3>2
  <2>2. CASE ~Jump(f, c)
    <3>1. l[c] = c
      BY <1>1, <2>2 DEF Body
    <3> QED BY <2>2, <3>1
  <2> QED BY <2>1, <2>2
<1>3. 0 \in Space
  BY Geometry DEF Space
<1>4. 0 \in S
  <2> HIDE DEF S
  <2> QED BY <1>2, <1>3, Backwards
<1>5. LastEntry(f) = l[0]
  BY Walk DEF l
<1> QED BY <1>4, <1>5

(***************************************************************************)
(* Two flashes f and g: when g takes every jump of f, from the base on,    *)
(* the chain of g leads to the end of that of f, and on from there.        *)
(***************************************************************************)
LEMMA Follows ==
  ASSUME NEW f, NEW g, NEW Q \in SUBSET Space, 0 \in Q,
         \A c \in Q : Jump(f, c) =>
           /\ Jump(g, c) /\ next_mrc_block(g, c) = next_mrc_block(f, c)
           /\ next_mrc_block(f, c) \in Q
  PROVE  LastEntry(f) \in Q /\ LastEntry(g) = last(g)[LastEntry(f)]
<1> DEFINE l == last(f)
           m == last(g)
           S == {c \in Space : c \in Q => l[c] \in Q /\ m[c] = m[l[c]]}
<1>1. \A c \in Space : l[c] = Body(f, l, c) /\ m[c] = Body(g, m, c)
  BY Walk
<1> HIDE DEF l, m
<1>2. ASSUME NEW c \in Space, \A d \in Space : d > c => d \in S PROVE c \in S
  <2> SUFFICES ASSUME c \in Q PROVE l[c] \in Q /\ m[c] = m[l[c]]
    OBVIOUS
  <2>1. CASE Jump(f, c)
    <3> DEFINE n == next_mrc_block(f, c)
    <3>1. n \in Space /\ n > c /\ n \in Q
      BY <2>1, NextBlock, Geometry DEF Jump, Space
    <3>2. l[c] = l[n] /\ m[c] = m[n]
      BY <1>1, <2>1 DEF Body
    <3> HIDE DEF n
    <3> QED BY <1>2, <3>1, <3>2
  <2>2. CASE ~Jump(f, c)
    <3>1. l[c] = c
      BY <1>1, <2>2 DEF Body
    <3> QED BY <3>1
  <2> QED BY <2>1, <2>2
<1>3. 0 \in Space
  BY Geometry DEF Space
<1>4. 0 \in S
  <2> HIDE DEF S
  <2> QED BY <1>2, <1>3, Backwards
<1>5. LastEntry(f) = l[0] /\ LastEntry(g) = m[0]
  BY Walk DEF l, m
<1> QED BY <1>4, <1>5 DEF m

LEMMA EndsAt ==
  ASSUME NEW f, NEW c \in Space, ~Jump(f, c)
  PROVE  last(f)[c] = c
BY Walk DEF Body

LEMMA JumpsOnce ==
  ASSUME NEW f, NEW c \in Space, Jump(f, c), ~Jump(f, next_mrc_block(f, c))
  PROVE  last(f)[c] = next_mrc_block(f, c)
<1> DEFINE n == next_mrc_block(f, c)
<1>1. n \in Space
  BY NextBlock DEF Jump
<1>2. last(f)[c] = last(f)[n]
  BY Walk DEF Body
<1> HIDE DEF n
<1>3. last(f)[n] = n
  BY <1>1, EndsAt DEF n
<1> QED BY <1>2, <1>3 DEF n

-----------------------------------------------------------------------------
(* What a reader finds                                                     *)

\* The words of a container are told apart.
LEMMA Contents ==
  /\ SigWord # SizeWord /\ OtherWord # SigWord /\ OtherWord # SizeWord
  /\ {SigWord} # {SizeWord}
  /\ \A t : Container(t, 0) = SigWord /\ Container(t, 1) = SizeWord
  /\ \A t : \A i \in Nat : i >= 1 => Container(t, i) # SigWord
  /\ \A t : \A i \in Nat : i >= 2 => Container(t, i) # SizeWord
  /\ \A t : Container(t, 3) = <<"data", t>>
  /\ \A t \in Timings : \A i \in Nat : Container(t, i) \in Words
<1>1. SigWord # SizeWord /\ OtherWord # SigWord /\ OtherWord # SizeWord
  BY DEF SigWord, SizeWord, OtherWord
<1>2. {SigWord} # {SizeWord}
  BY <1>1
<1>3. ASSUME NEW t
      PROVE  /\ Container(t, 0) = SigWord /\ Container(t, 1) = SizeWord
             /\ Container(t, 2) = <<"sum", t>> /\ Container(t, 3) = <<"data", t>>
  BY DEF Container
<1>4. ASSUME NEW t, NEW i \in Nat, i >= 3 PROVE Container(t, i) = <<"data", t>>
  BY <1>4 DEF Container
<1>5. ASSUME NEW t, NEW i \in Nat
      PROVE  Container(t, i) \in {SigWord, SizeWord, <<"sum", t>>, <<"data", t>>}
  BY DEF Container
<1>6. ASSUME NEW t
      PROVE  {<<"sum", t>>, <<"data", t>>} \cap {SigWord, SizeWord} = {}
  BY DEF SigWord, SizeWord
<1>7. ASSUME NEW t, NEW i \in Nat, i >= 1 PROVE Container(t, i) # SigWord
  <2>1. i = 1 \/ i = 2 \/ i >= 3
    BY <1>7
  <2> QED BY <1>1, <1>3, <1>4, <1>6, <2>1
<1>8. ASSUME NEW t, NEW i \in Nat, i >= 2 PROVE Container(t, i) # SizeWord
  <2>1. i = 2 \/ i >= 3
    BY <1>8
  <2> QED BY <1>3, <1>4, <1>6, <2>1
<1>9. ASSUME NEW t \in Timings, NEW i \in Nat PROVE Container(t, i) \in Words
  BY <1>5 DEF Words
<1> QED BY <1>1, <1>2, <1>3, <1>7, <1>8, <1>9

\* The current entry is that of t.
Valid(f, t) == t \in Timings /\ is_mrc_cache(f, 0) /\ ChecksumOk(f, LastEntry(f), t)

LEMMA NoTimingsApart == NoTimings \notin Timings
<1> SUFFICES ASSUME NoTimings \in Timings PROVE FALSE
  OBVIOUS
<1>1. NoTimings \in [dimms : Dimms, run : Nat]
  BY MrcAssumption
<1>2. "run" \in DOMAIN NoTimings
  BY <1>1
<1>3. DOMAIN NoTimings = {"dimms"}
  BY DEF NoTimings
<1> QED BY <1>2, <1>3

LEMMA SeenValid ==
  ASSUME NEW f
  PROVE  /\ \A t : Valid(f, t) => Seen(f) = t /\ find_current_mrc_cache(f) = LastEntry(f)
         /\ (\A t : ~Valid(f, t)) => Seen(f) = NoTimings /\ find_current_mrc_cache(f) = NULL
         /\ find_current_mrc_cache(f) # NULL => \E t : Valid(f, t)
<1>1. LastEntry(f) # NULL
  BY LastFacts, Geometry DEF NULL, Space
<1>2. ASSUME NEW t, NEW u, ChecksumOk(f, LastEntry(f), t), ChecksumOk(f, LastEntry(f), u)
      PROVE  t = u
  <2>1. 3 \in 1 .. ContainerSize - 1
    BY Geometry
  <2>2. {Container(t, 3)} = {Container(u, 3)}
    BY <1>2, <2>1 DEF ChecksumOk
  <2>3. <<"data", t>> = <<"data", u>>
    BY <2>2, Contents
  <2> QED BY <2>3
<1>3. ASSUME NEW t, Valid(f, t)
      PROVE  Seen(f) = t /\ find_current_mrc_cache(f) = LastEntry(f)
  <2>1. find_current_mrc_cache(f) = LastEntry(f)
    BY <1>3 DEF Valid, find_current_mrc_cache
  <2>2. t = CHOOSE u \in Timings : ChecksumOk(f, LastEntry(f), u)
    BY <1>2, <1>3 DEF Valid
  <2> QED BY <1>1, <2>1, <2>2 DEF Seen
<1>4. ASSUME \A t : ~Valid(f, t)
      PROVE  Seen(f) = NoTimings /\ find_current_mrc_cache(f) = NULL
  BY <1>4 DEF Valid, find_current_mrc_cache, Seen
<1>5. find_current_mrc_cache(f) # NULL => \E t : Valid(f, t)
  BY DEF Valid, find_current_mrc_cache
<1> QED BY <1>3, <1>4, <1>5

LEMMA SeenType ==
  ASSUME NEW f
  PROVE  Seen(f) \in TimingsOrNone /\ (Seen(f) # NoTimings => Seen(f) \in Timings)
BY SeenValid DEF Valid, TimingsOrNone

\* Signatures are at the start of blocks only.
Aligned(f) == \A c \in Cells : SigWord \in f[c] => c \in Starts

\* Behind the current entry the region is erased.
FreeBehind(f) ==
  \A t : Valid(f, t) =>
    \A c \in Cells : LastEntry(f) + BlockSize <= c /\ c < Region => f[c] = {}

(***************************************************************************)
(* The container of t is being written to the block at b, and the next     *)
(* cell is a: what is written is in place, the rest of the region is       *)
(* erased, and from its first word on it is the last one of the chain.     *)
(***************************************************************************)
Writing(f, b, a, t) ==
  /\ \A c \in Cells : a <= c /\ c < Region => f[c] = {}
  /\ \A c \in Cells : b <= c /\ c < a => f[c] = {Container(t, c - b)}
  /\ a = b => \/ b = 0
              \/ /\ is_mrc_cache(f, 0) /\ b = LastEntry(f) + BlockSize
                 /\ f[LastEntry(f) + 1] = {SizeWord}
  /\ a > b => is_mrc_cache(f, 0) /\ LastEntry(f) = b

LEMMA CellsFacts ==
  /\ Space \subseteq Cells /\ \A c \in Space : c + 1 \in Cells
  /\ \A c \in Cells : c \in Nat
  /\ \A b \in Starts : b < Region => b \in Space /\ b + BlockSize <= Region
  /\ 0 \in Space /\ 1 \in Space /\ 0 \in Starts
<1>1. Region >= BlockSize
  BY BlockInRegion, StartsEnds, Geometry
<1> QED BY <1>1, BlockInRegion, StartsEnds, Geometry DEF Cells, Space

\* Between a cell and the next there is no other.
LEMMA OneCell ==
  ASSUME NEW b \in Nat
  PROVE  /\ \A c \in Cells : b <= c /\ c < b + 1 => c = b /\ c - b = 0
         /\ b + 1 # b /\ b + 1 > b
BY CellsFacts

\* A container that is not complete is not seen.
LEMMA IncompleteFree ==
  ASSUME NEW f, NEW b \in Starts, b < Region, NEW a \in Nat, b <= a, a < b + ContainerSize, NEW t,
         Writing(f, b, a, t)
  PROVE  FreeBehind(f) /\ (a > b => \A u : ~Valid(f, u))
<1>0. b \in Nat /\ b + BlockSize <= Region /\ a \in Cells /\ a < Region /\ 0 \in Cells
  BY CellsFacts, Geometry DEF Cells, Space
<1>1. f[a] = {}
  BY <1>0, Geometry DEF Writing
<1>2. CASE a > b
  <2>1. LastEntry(f) = b
    BY <1>2 DEF Writing
  <2>2. a - b \in 1 .. ContainerSize - 1 /\ b + (a - b) = a
    BY <1>0, <1>2, Geometry
  <2>3. ASSUME NEW u, Valid(f, u) PROVE FALSE
    <3>1. f[b + (a - b)] = {Container(u, a - b)}
      BY <2>1, <2>2, <2>3 DEF Valid, ChecksumOk
    <3> QED BY <1>1, <2>2, <3>1
  <2> QED BY <2>3 DEF FreeBehind
<1>3. CASE a = b /\ b = 0
  <2>1. ASSUME NEW u, Valid(f, u) PROVE FALSE
    BY <1>1, <1>3, <2>1 DEF Valid, is_mrc_cache
  <2> QED BY <1>3, <2>1 DEF FreeBehind
<1>4. CASE a = b /\ b = LastEntry(f) + BlockSize
  BY <1>4 DEF FreeBehind, Writing
<1>5. a = b \/ a > b
  BY <1>0
<1> QED BY <1>0, <1>2, <1>3, <1>4, <1>5 DEF Writing

\* spi_flash_write() writes the signature: the chain now ends here.
LEMMA FirstWord ==
  ASSUME NEW f, NEW g, NEW b \in Starts, b < Region, NEW t, Writing(f, b, b, t),
         \A c \in Cells : g[c] = IF c = b THEN {Container(t, 0)} ELSE f[c]
  PROVE  Writing(g, b, b + 1, t)
<1>0. /\ b \in Nat /\ b + BlockSize <= Region /\ b \in Space /\ b \in Cells /\ b + 1 \in Cells
      /\ BlockSize \in Nat /\ BlockSize >= 4 /\ Region \in Nat /\ b + 1 < Region
      /\ Align \in Nat /\ Align > 1 /\ Align <= BlockSize /\ 0 \in Space /\ 0 \in Cells
      /\ 1 \in Cells
  BY CellsFacts, Geometry
<1>1. g[b] = {SigWord}
  BY <1>0, Contents
<1>2. ASSUME NEW c \in Cells, b + 1 <= c, c < Region PROVE g[c] = {}
  BY <1>0, <1>2, CellsFacts DEF Writing
<1>3. g[b + 1] = {} /\ next_mrc_block(g, b) = b + Align
  <2>1. g[b + 1] = {}
    BY <1>0, <1>2
  <2>2. g[b + 1] # {SizeWord}
    BY <2>1
  <2> QED BY <1>0, <2>1, <2>2, NextBlock
<1>4. ~Jump(g, b)
  <2> SUFFICES ASSUME b + Align < Region, g[b + Align] = {SigWord} PROVE FALSE
    BY <1>3 DEF Jump, is_mrc_cache
  <2>1. b + Align \in Cells /\ b + 1 <= b + Align
    BY <1>0 DEF Cells
  <2> QED BY <1>2, <2>1
<1>5. CASE b = 0
  <2>1. LastEntry(g) = 0
    BY <1>0, <1>4, <1>5, Walk, EndsAt
  <2> QED BY <1>0, <1>1, <1>2, <1>5, <2>1, OneCell, Contents DEF Writing, is_mrc_cache
<1>6. CASE /\ is_mrc_cache(f, 0) /\ b = LastEntry(f) + BlockSize
           /\ f[LastEntry(f) + 1] = {SizeWord} /\ b # 0
  <2> DEFINE L == LastEntry(f)
  <2>1. L \in Space /\ L \in Nat /\ L + 1 \in Cells
    BY LastFacts, CellsFacts
  <2>2. f[b] = {}
    BY <1>0 DEF Writing
  <2>3. ASSUME NEW c \in Space PROVE next_mrc_block(g, c) = next_mrc_block(f, c)
    <3>1. c + 1 \in Cells
      BY CellsFacts
    <3>2. f[c + 1] = {SizeWord} <=> g[c + 1] = {SizeWord}
      BY <1>1, <2>2, <3>1, Contents
    <3> QED BY <3>2 DEF next_mrc_block
  <2>4. ASSUME NEW c \in Space, Jump(f, c)
        PROVE  /\ Jump(g, c) /\ next_mrc_block(g, c) = next_mrc_block(f, c)
               /\ next_mrc_block(f, c) \in Space
    <3>1. next_mrc_block(f, c) \in Space /\ next_mrc_block(f, c) \in Cells
      BY <2>4, NextBlock, CellsFacts DEF Jump
    <3>2. is_mrc_cache(g, next_mrc_block(f, c))
      BY <1>1, <2>4, <3>1 DEF Jump, is_mrc_cache
    <3> QED BY <2>3, <2>4, <3>1, <3>2 DEF Jump
  <2>5. LastEntry(g) = last(g)[L]
    BY <1>0, <2>4, Follows
  <2>6. next_mrc_block(g, L) = b
    BY <1>6, <2>1, <2>3, NextBlock
  <2>7. Jump(g, L)
    BY <1>1, <2>6 DEF Jump, is_mrc_cache
  <2> HIDE DEF L
  <2>8. LastEntry(g) = b
    BY <1>4, <2>1, <2>5, <2>6, <2>7, JumpsOnce
  <2>9. is_mrc_cache(g, 0)
    BY <1>0, <1>6 DEF is_mrc_cache
  <2> QED BY <1>0, <1>1, <1>2, <2>8, <2>9, OneCell, Contents DEF Writing
<1> QED BY <1>5, <1>6 DEF Writing

\* The other words leave the chain as it is.
LEMMA LaterWord ==
  ASSUME NEW f, NEW g, NEW b \in Starts, b < Region, NEW a \in Nat, b < a, a < b + ContainerSize,
         NEW t, Writing(f, b, a, t),
         \A c \in Cells : g[c] = IF c = a THEN {Container(t, a - b)} ELSE f[c]
  PROVE  /\ Writing(g, b, a + 1, t)
         /\ a + 1 = b + ContainerSize /\ t \in Timings => Valid(g, t) /\ FreeBehind(g)
<1>0. /\ b \in Nat /\ b + BlockSize <= Region /\ b \in Space /\ b \in Cells /\ b + 1 \in Cells
      /\ BlockSize \in Nat /\ Region \in Nat /\ a < Region /\ a \in Cells
      /\ ContainerSize \in Nat /\ ContainerSize >= 4 /\ ContainerSize <= BlockSize
      /\ 0 \in Space /\ 0 \in Cells /\ a - b \in Nat /\ a - b >= 1
  <2>1. /\ b \in Nat /\ b + BlockSize <= Region /\ b \in Space /\ b \in Cells /\ b + 1 \in Cells
        /\ 0 \in Space /\ 0 \in Cells
    BY CellsFacts
  <2>2. a < Region /\ a - b \in Nat /\ a - b >= 1
    BY <2>1, Geometry
  <2> QED BY <2>1, <2>2, Geometry DEF Cells
<1>1. LastEntry(f) = b /\ is_mrc_cache(f, 0) /\ f[a] = {} /\ ~Jump(f, b)
  BY <1>0, LastFacts DEF Writing
<1>2. ASSUME NEW c \in Cells, a + 1 <= c, c < Region PROVE g[c] = {}
  <2>1. c \in Nat /\ c # a /\ a <= c
    BY <1>2, CellsFacts
  <2> QED BY <1>2, <2>1 DEF Writing
<1>3. ASSUME NEW c \in Cells, b <= c, c < a + 1 PROVE g[c] = {Container(t, c - b)}
  <2>1. c = a \/ c < a
    BY <1>3, CellsFacts
  <2> QED BY <1>0, <1>3, <2>1, CellsFacts DEF Writing
<1>4. g[b + 1] = {SizeWord}
  <2>1. b <= b + 1 /\ b + 1 < a + 1 /\ (b + 1) - b = 1
    BY <1>0
  <2> QED BY <1>0, <1>3, <2>1, Contents
<1>5. ~Jump(g, b)
  <2>1. next_mrc_block(g, b) = b + BlockSize
    BY <1>0, <1>4, NextBlock
  <2> SUFFICES ASSUME b + BlockSize < Region, g[b + BlockSize] = {SigWord} PROVE FALSE
    BY <2>1 DEF Jump, is_mrc_cache
  <2>2. b + BlockSize \in Cells /\ a + 1 <= b + BlockSize
    BY <1>0 DEF Cells
  <2> QED BY <1>2, <2>2
<1>6. ASSUME NEW c \in Space, Jump(f, c)
      PROVE  /\ Jump(g, c) /\ next_mrc_block(g, c) = next_mrc_block(f, c)
             /\ next_mrc_block(f, c) \in Space
  <2>1. c # b /\ c + 1 \in Cells /\ c \in Nat
    BY <1>1, <1>6, CellsFacts
  <2>2. f[c + 1] = {SizeWord} <=> g[c + 1] = {SizeWord}
    <3>1. CASE c + 1 # a
      BY <2>1, <3>1
    <3>2. CASE c + 1 = a
      <4>1. a - b >= 2
        BY <1>0, <2>1, <3>2
      <4>2. Container(t, a - b) # SizeWord
        BY <1>0, <4>1, Contents
      <4> QED BY <1>0, <1>1, <3>2, <4>2
    <3> QED BY <3>1, <3>2
  <2>3. next_mrc_block(g, c) = next_mrc_block(f, c)
    BY <2>2 DEF next_mrc_block
  <2>4. next_mrc_block(f, c) \in Space /\ next_mrc_block(f, c) \in Cells
    BY <1>6, NextBlock, CellsFacts DEF Jump
  <2>5. f[next_mrc_block(f, c)] = {SigWord} /\ next_mrc_block(f, c) # a
    BY <1>1, <1>6 DEF Jump, is_mrc_cache
  <2>6. is_mrc_cache(g, next_mrc_block(f, c))
    BY <2>4, <2>5 DEF is_mrc_cache
  <2> QED BY <1>6, <2>3, <2>4, <2>6 DEF Jump
<1>7. LastEntry(g) = b
  <2>1. LastEntry(g) = last(g)[b]
    BY <1>0, <1>1, <1>6, Follows
  <2> QED BY <1>0, <1>5, <2>1, EndsAt
<1>8. is_mrc_cache(g, 0)
  <2>1. 0 # a
    BY <1>0
  <2> QED BY <1>0, <1>1, <2>1 DEF is_mrc_cache
<1>9. Writing(g, b, a + 1, t)
  <2>1. a + 1 # b
    BY <1>0
  <2> QED BY <1>2, <1>3, <1>7, <1>8, <2>1 DEF Writing
<1>10. ASSUME a + 1 = b + ContainerSize, t \in Timings PROVE Valid(g, t) /\ FreeBehind(g)
  <2>1. ASSUME NEW i \in 1 .. ContainerSize - 1 PROVE g[b + i] = {Container(t, i)}
    <3>1. b + i \in Cells /\ b <= b + i /\ b + i < a + 1 /\ (b + i) - b = i
      BY <1>0, <1>10 DEF Cells
    <3> QED BY <1>3, <3>1
  <2>2. ASSUME NEW c \in Cells, b + BlockSize <= c, c < Region PROVE g[c] = {}
    <3>1. a + 1 <= c
      BY <1>0, <1>10, <2>2, CellsFacts
    <3> QED BY <1>2, <2>2, <3>1
  <2> QED BY <1>7, <1>8, <1>10, <2>1, <2>2 DEF Valid, ChecksumOk, FreeBehind
<1> QED BY <1>9, <1>10

\* An erase of f was cut short in the first block and left g.
CutShort(f, S, g) ==
  /\ S \subseteq 0 .. BlockSize - 1
  /\ \A c \in Cells : g[c] = IF c \in S THEN {} ELSE f[c]

\* What is still valid behind an erase that was cut short was so before, and is the same
\* entry.
LEMMA PartlyErased ==
  ASSUME NEW f, NEW S, NEW g, NEW t, Aligned(f), CutShort(f, S, g), Valid(g, t)
  PROVE  Valid(f, t) /\ LastEntry(g) = LastEntry(f)
<1> USE DEF CutShort
<1>0. /\ BlockSize \in Nat /\ BlockSize >= 4 /\ Region \in Nat /\ Align \in Nat /\ Align > 1
      /\ Align <= BlockSize /\ 0 \in Space /\ 0 \in Cells /\ 1 \in Space /\ 1 \in Cells
      /\ 0 \in Starts /\ ContainerSize \in Nat /\ ContainerSize >= 4
      /\ ContainerSize <= BlockSize
  BY CellsFacts, Geometry
<1>1. g[0] = {SigWord}
  BY DEF Valid, is_mrc_cache
<1>2. 0 \notin S /\ f[0] = {SigWord} /\ S \subseteq 0 .. BlockSize - 1
  BY <1>0, <1>1
<1>3. ASSUME NEW c \in Cells, c >= BlockSize PROVE g[c] = f[c]
  <2>1. c \notin S
    BY <1>0, <1>2, <1>3, CellsFacts
  <2> QED BY <2>1
<1> DEFINE Q == Space \cap Starts
<1>4. ASSUME NEW c \in Q
      PROVE  /\ c = 0 \/ c >= BlockSize
             /\ c # 0 => next_mrc_block(g, c) = next_mrc_block(f, c)
  <2>1. c \in Nat /\ c \in Space /\ c + 1 \in Cells
    BY CellsFacts
  <2>2. c # 0 => c >= BlockSize
    <3>1. 0 < c => 0 + BlockSize <= c
      BY <1>0, StartsApart
    <3> QED BY <1>0, <2>1, <3>1
  <2>3. ASSUME c # 0 PROVE next_mrc_block(g, c) = next_mrc_block(f, c)
    <3>1. g[c + 1] = f[c + 1]
      BY <1>0, <1>3, <2>1, <2>2, <2>3
    <3> QED BY <3>1 DEF next_mrc_block
  <2> QED BY <2>2, <2>3
<1>5. ASSUME NEW c \in Space, Jump(f, c)
      PROVE  /\ next_mrc_block(f, c) \in Q /\ next_mrc_block(f, c) >= BlockSize
             /\ is_mrc_cache(g, next_mrc_block(f, c))
  <2> DEFINE n == next_mrc_block(f, c)
  <2>1. n \in Space /\ n \in Cells /\ n > c /\ c \in Nat /\ n \in Nat /\ f[n] = {SigWord}
    BY <1>5, NextBlock, CellsFacts DEF Jump, is_mrc_cache
  <2> HIDE DEF n
  <2>2. n \in Starts /\ n # 0
    BY <2>1 DEF Aligned
  <2>3. n \in Q /\ n >= BlockSize
    BY <1>4, <2>1, <2>2
  <2>4. g[n] = {SigWord}
    BY <1>3, <2>1, <2>3
  <2> QED BY <2>3, <2>4 DEF n, is_mrc_cache
<1>6. ASSUME NEW c \in Space, Jump(g, c), next_mrc_block(g, c) = next_mrc_block(f, c)
      PROVE  Jump(f, c)
  <2>1. next_mrc_block(f, c) \in Cells
    BY <1>6, NextBlock, CellsFacts DEF Jump
  <2>2. g[next_mrc_block(f, c)] = {SigWord}
    BY <1>6 DEF Jump, is_mrc_cache
  <2>3. f[next_mrc_block(f, c)] = {SigWord}
    BY <2>1, <2>2
  <2> QED BY <1>6, <2>3 DEF Jump, is_mrc_cache
<1>7. CASE next_mrc_block(g, 0) = next_mrc_block(f, 0)
  <2>1. ASSUME NEW c \in Q PROVE next_mrc_block(g, c) = next_mrc_block(f, c)
    BY <1>4, <1>7
  <2>2. ASSUME NEW c \in Q, Jump(f, c)
        PROVE  /\ Jump(g, c) /\ next_mrc_block(g, c) = next_mrc_block(f, c)
               /\ next_mrc_block(f, c) \in Q
    BY <1>5, <2>1, <2>2 DEF Jump
  <2> DEFINE L == LastEntry(f)
  <2>3. L \in Q /\ LastEntry(g) = last(g)[L]
    <3>1. Q \in SUBSET Space /\ 0 \in Q
      BY <1>0
    <3> HIDE DEF Q
    <3> QED BY <2>2, <3>1, Follows
  <2>4. ~Jump(f, L)
    BY LastFacts
  <2> HIDE DEF L
  <2>5. ~Jump(g, L)
    BY <1>6, <2>1, <2>3, <2>4
  <2>6. LastEntry(g) = L
    BY <2>3, <2>5, EndsAt
  <2>7. ASSUME NEW i \in 1 .. ContainerSize - 1 PROVE f[L + i] = {Container(t, i)}
    <3>1. L + i \in Cells
      <4>1. L \in Starts /\ L \in Nat /\ L < Region
        BY <2>3, Geometry DEF Space
      <4>2. L + BlockSize <= Region
        BY <4>1, CellsFacts
      <4> QED BY <1>0, <4>1, <4>2 DEF Cells
    <3>2. g[L + i] = {Container(t, i)}
      BY <2>6 DEF Valid, ChecksumOk
    <3> QED BY <3>1, <3>2
  <2> QED BY <1>2, <2>6, <2>7 DEF Valid, ChecksumOk, is_mrc_cache, L
<1>8. CASE next_mrc_block(g, 0) # next_mrc_block(f, 0)
  <2>1. g[1] # f[1] /\ 0 + 1 = 1
    BY <1>8 DEF next_mrc_block
  <2>2. g[1] = {}
    BY <1>0, <2>1
  <2>3. next_mrc_block(g, 0) = Align
    BY <1>0, <2>2 DEF next_mrc_block
  <2>4. ~Jump(g, 0)
    <3> SUFFICES ASSUME Align < Region, g[Align] = {SigWord} PROVE FALSE
      BY <2>3 DEF Jump, is_mrc_cache
    <3>1. Align \in Cells /\ SigWord \in f[Align]
      <4>1. Align \in Cells
        BY <1>0 DEF Cells
      <4> QED BY <4>1
    <3>2. Align = BlockSize
      BY <3>1, StartsEnds DEF Aligned
    <3>3. next_mrc_block(f, 0) \in {0 + BlockSize, 0 + Align}
      BY <1>0, NextBlock
    <3> QED BY <1>0, <1>8, <2>3, <3>2, <3>3
  <2>5. LastEntry(g) = 0
    BY <1>0, <2>4, Walk, EndsAt
  <2>6. g[0 + 1] = {Container(t, 1)}
    <3>1. 1 \in 1 .. ContainerSize - 1
      BY <1>0
    <3> QED BY <2>5, <3>1 DEF Valid, ChecksumOk
  <2> QED BY <2>1, <2>2, <2>6
<1> QED BY <1>7, <1>8

-----------------------------------------------------------------------------
(* The inductive invariant                                                 *)

\* An erase that is cut short damages one block at most: the sectors of the flash are no
\* larger than a block.  (See the README for what larger ones lead to.)
SmallSectors == Sector <= BlockSize

BaseInv == base \in Starts /\ base < Region

\* Where a sector starts.
SectorStarts == {k * Sector : k \in Nat}

\* An erase has erased what is below at.
EraseInv ==
  pc = "erase" => /\ base = 0 /\ at \in SectorStarts /\ at < Region
                  /\ \A c \in Cells : c < at => flash[c] = {}

WriteInv ==
  pc = "write" => /\ base <= at /\ at < base + ContainerSize
                  /\ ~dirty => Writing(flash, base, at, cbmem)

\* The flash is one that entries can be appended to.
FlashInv ==
  Aligned(flash) /\ (~dirty => FreeBehind(flash)) /\ BaseInv /\ EraseInv /\ WriteInv

\* What the machine runs with, and what is to be stored.
BootInv ==
  /\ pc \in {"tables", "erase", "write"} =>
       /\ booted \in Timings /\ ctrl = booted /\ booted.dimms = dimms
       /\ cbmem \in {NoTimings, booted}
  /\ pc \in {"erase", "write"} => cbmem = booted
  /\ pc = "tables" => IF cbmem = NoTimings THEN fault \/ Seen(flash) = booted ELSE ~fault
  /\ CacheCurrent
  /\ pc = "os" /\ ~fault /\ ~dirty => ctrl = booted

MInv == TypeOK /\ FlashInv /\ BootInv

LEMMA InitHolds == Init => MInv
<1> SUFFICES ASSUME Init PROVE MInv
  OBVIOUS
<1>0. /\ Region \in Nat /\ Region >= 1 /\ BlockSize \in Nat /\ 0 \in Starts /\ 0 \in Cells
      /\ 0 \in Space /\ Space \subseteq Cells
  BY Geometry, CellsFacts
<1>1. \A c \in Cells : flash[c] = IF c < Region THEN {} ELSE {OtherWord}
  BY DEF Init
<1>2. TypeOK
  <2>1. flash \in [Cells -> SUBSET Words]
    BY DEF Init, Words
  <2>2. \A c \in Cells : c >= Region => flash[c] = {OtherWord}
    BY <1>0, <1>1, CellsFacts
  <2>3. {ctrl, cbmem, booted} \subseteq TimingsOrNone /\ pc \in Places /\ dimms \in Dimms
    BY DEF Init, TimingsOrNone, Places
  <2>4. base \in 0 .. Region - 1 /\ at \in Cells
    BY <1>0 DEF Init
  <2>5. {fault, dirty, wrote} \subseteq BOOLEAN
    BY DEF Init
  <2> QED BY <2>1, <2>2, <2>3, <2>4, <2>5 DEF TypeOK
<1>3. \A t : ~Valid(flash, t)
  <2>1. flash[0] = {}
    BY <1>0, <1>1
  <2> QED BY <2>1 DEF Valid, is_mrc_cache
<1>4. Aligned(flash)
  BY <1>1, Contents DEF Aligned
<1>5. FlashInv
  BY <1>0, <1>3, <1>4 DEF FlashInv, FreeBehind, BaseInv, EraseInv, WriteInv, Init
<1>6. BootInv
  BY DEF BootInv, CacheCurrent, Init
<1> QED BY <1>2, <1>5, <1>6 DEF MInv

\* Steps that leave the flash alone and are not part of a store.
LEMMA QuietFlash ==
  ASSUME MInv, flash' = flash, dirty' = dirty, pc' \notin {"erase", "write"},
         (base' = base /\ at' = at) \/ (base' = 0 /\ at' = 0)
  PROVE  FlashInv' /\ base' \in 0 .. Region - 1 /\ at' \in Cells
<1>1. BaseInv' /\ base' \in 0 .. Region - 1 /\ at' \in Cells
  BY CellsFacts, Geometry DEF MInv, FlashInv, BaseInv, TypeOK, Space
<1> QED BY <1>1 DEF MInv, FlashInv, EraseInv, WriteInv

\* Power comes and goes, outside of an erase.
LEMMA PowerStep ==
  ASSUME MInv, PowerOn \/ TrainingFails \/ ResumeFails \/ (PowerLoss /\ pc # "erase")
  PROVE  MInv'
<1>1. /\ flash' = flash /\ dirty' = dirty /\ pc' \in {"raminit", "dead", "off"}
      /\ (base' = base /\ at' = at) \/ (base' = 0 /\ at' = 0)
      /\ dimms' \in Dimms /\ ctrl' \in {ctrl, NoTimings} /\ cbmem' \in {cbmem, NoTimings}
      /\ booted' \in {booted, NoTimings} /\ fault' \in BOOLEAN /\ wrote' \in BOOLEAN
  BY DEF PowerOn, TrainingFails, ResumeFails, PowerLoss, Reset, MInv, TypeOK, update
<1>2. FlashInv' /\ base' \in 0 .. Region - 1 /\ at' \in Cells
  BY <1>1, QuietFlash
<1>3. TypeOK'
  BY <1>1, <1>2 DEF MInv, TypeOK, TimingsOrNone, Places
<1>4. BootInv'
  BY <1>1 DEF BootInv, CacheCurrent
<1> QED BY <1>2, <1>3, <1>4 DEF MInv

\* A cold boot, with stored timings or with new ones.
LEMMA ColdBootStep ==
  ASSUME MInv, FastBoot \/ Train \/ TrainUnsaved
  PROVE  MInv'
<1>1. PICK t \in Timings :
        /\ t.dimms = dimms /\ cbmem' \in {NoTimings, t} /\ ColdBoot(t)
        /\ IF cbmem' = NoTimings THEN fault' \/ Seen(flash) = t ELSE ~fault'
        /\ fault' \in BOOLEAN
  <2>1. CASE FastBoot
    <3>1. Seen(flash) \in Timings
      BY <2>1, SeenType DEF FastBoot, StoredTimingsMatch
    <3> QED BY <2>1, <3>1 DEF FastBoot, StoredTimingsMatch
  <2>2. CASE Train
    BY <2>2, NoTimingsApart DEF Train
  <2>3. CASE TrainUnsaved
    BY <2>3 DEF TrainUnsaved
  <2> QED BY <2>1, <2>2, <2>3
<1>2. /\ ctrl' = t /\ booted' = t /\ wrote' = FALSE /\ pc' = "tables"
      /\ flash' = flash /\ dimms' = dimms /\ base' = base /\ at' = at /\ dirty' = dirty
  BY <1>1 DEF ColdBoot, update
<1>3. FlashInv' /\ base' \in 0 .. Region - 1 /\ at' \in Cells
  BY <1>2, QuietFlash
<1>4. TypeOK'
  BY <1>1, <1>2, <1>3 DEF MInv, TypeOK, TimingsOrNone, Places
<1>5. BootInv'
  BY <1>1, <1>2 DEF BootInv, CacheCurrent
<1> QED BY <1>3, <1>4, <1>5 DEF MInv

\* Suspend to memory and back.
LEMMA SleepStep ==
  ASSUME MInv, Suspend \/ Wake \/ Resume
  PROVE  MInv'
<1>1. /\ flash' = flash /\ dirty' = dirty /\ pc' \in {"suspended", "resume", "os"}
      /\ base' = base /\ at' = at /\ dimms' = dimms /\ cbmem' = cbmem /\ booted' = booted
      /\ fault' = fault /\ wrote' = wrote /\ pc \in {"os", "suspended", "resume"}
      /\ ctrl' \in {ctrl, NoTimings, Seen(flash)} /\ (pc' = "os" => ctrl' = Seen(flash))
  BY DEF Suspend, Wake, Resume, update
<1>2. FlashInv' /\ base' \in 0 .. Region - 1 /\ at' \in Cells
  BY <1>1, QuietFlash
<1>3. TypeOK'
  BY <1>1, <1>2, SeenType DEF MInv, TypeOK, TimingsOrNone, Places
<1>4. BootInv'
  BY <1>1 DEF MInv, BootInv, CacheCurrent
<1> QED BY <1>2, <1>3, <1>4 DEF MInv

\* update_mrc_cache() returns without a write, or with one that failed.
LEMMA ReturnStep ==
  ASSUME MInv, NoUpdate \/ ProbeFails \/ WriteError
  PROVE  MInv'
<1>1. /\ flash' = flash /\ dirty' = dirty /\ pc' = "os" /\ base' = 0 /\ at' = 0
      /\ dimms' = dimms /\ cbmem' = cbmem /\ booted' = booted /\ ctrl' = ctrl /\ wrote' = wrote
      /\ pc \in {"tables", "erase", "write"} /\ fault' \in {fault, TRUE}
      /\ ~fault' => pc = "tables" /\ UpToDate
  BY DEF NoUpdate, ProbeFails, WriteError, Return
<1>2. FlashInv' /\ base' \in 0 .. Region - 1 /\ at' \in Cells
  BY <1>1, QuietFlash
<1>3. TypeOK'
  BY <1>1, <1>2 DEF MInv, TypeOK, Places
<1>4. BootInv'
  <2>0. ~fault' => ~fault
    BY Zenon DEF NoUpdate, ProbeFails, WriteError
  <2>1. ~fault' => Seen(flash) = booted
    BY <1>1, <2>0 DEF MInv, BootInv, UpToDate
  <2> QED BY <1>1, <2>1 DEF MInv, BootInv, CacheCurrent
<1> QED BY <1>2, <1>3, <1>4 DEF MInv

\* The block that is written next.
LEMMA PickStep ==
  ASSUME MInv, PickBlock
  PROVE  MInv'
<1> DEFINE cache == find_current_mrc_cache(flash)
           next == IF cache = NULL THEN NULL ELSE find_next_mrc_cache(flash, cache)
<1>1. /\ pc = "tables" /\ ~UpToDate /\ UNCHANGED <<flash, dimms, ctrl, cbmem, booted, fault, dirty, wrote>>
      /\ IF next = NULL THEN pc' = "erase" /\ base' = 0 /\ at' = 0
         ELSE pc' = "write" /\ base' = next /\ at' = next
  BY DEF PickBlock
<1>2. /\ cbmem = booted /\ booted \in Timings /\ ctrl = booted /\ booted.dimms = dimms
  BY <1>1 DEF MInv, BootInv, UpToDate
<1>3. BootInv'
  BY <1>1, <1>2 DEF BootInv, CacheCurrent
<1>4. CASE next = NULL
  <2>1. pc' = "erase" /\ base' = 0 /\ at' = 0
    BY <1>1, <1>4
  <2>0. 0 \in SectorStarts
    BY Geometry, 0 * Sector = 0, 0 \in Nat DEF SectorStarts
  <2>2. 0 < Region /\ 0 \in Starts /\ 0 \in Cells /\ 0 \in 0 .. Region - 1
    BY Geometry, CellsFacts
  <2>3. FlashInv'
    BY <1>1, <2>0, <2>1, <2>2, CellsFacts DEF MInv, FlashInv, BaseInv, EraseInv, WriteInv
  <2>4. TypeOK'
    BY <1>1, <2>1, <2>2 DEF MInv, TypeOK, Places
  <2> QED BY <1>3, <2>3, <2>4 DEF MInv
<1>5. CASE next # NULL
  <2>1. pc' = "write" /\ base' = next /\ at' = next
    BY <1>1, <1>5
  <2>2. cache # NULL /\ next = next_mrc_block(flash, cache) /\ ~(next >= Region)
    BY <1>5 DEF find_next_mrc_cache
  <2>3. PICK t : Valid(flash, t)
    BY <2>2, SeenValid
  <2>4. cache = LastEntry(flash)
    BY <2>3, SeenValid
  <2> DEFINE L == LastEntry(flash)
  <2>5. L \in Space /\ L \in Starts /\ L \in Nat
    <3>1. L \in Space /\ (L = 0 \/ is_mrc_cache(flash, L))
      BY LastFacts
    <3>2. is_mrc_cache(flash, L) => SigWord \in flash[L]
      BY DEF is_mrc_cache
    <3> HIDE DEF L
    <3> QED BY <3>1, <3>2, CellsFacts DEF MInv, FlashInv, Aligned
  <2>6. flash[L + 1] = {SizeWord}
    <3>1. 1 \in 1 .. ContainerSize - 1
      BY Geometry
    <3>2. flash[L + 1] = {Container(t, 1)}
      BY <2>3, <3>1 DEF Valid, ChecksumOk
    <3> QED BY <3>2, Contents
  <2> HIDE DEF L
  <2>7. next = L + BlockSize
    BY <2>2, <2>4, <2>5, <2>6, NextBlock DEF L
  <2> HIDE DEF next
  <2>8. next \in Starts /\ next \in Nat /\ next < Region
    BY <2>2, <2>5, <2>7, StartsApart, Geometry
  <2>9. next \in Space /\ next \in Cells
    BY <2>8, CellsFacts
  <2>10. ~dirty => Writing(flash, next, next, cbmem)
    <3> SUFFICES ASSUME ~dirty PROVE Writing(flash, next, next, cbmem)
      OBVIOUS
    <3>1. ASSUME NEW c \in Cells, next <= c, c < Region PROVE flash[c] = {}
      BY <2>3, <2>7, <3>1 DEF MInv, FlashInv, FreeBehind, L
    <3>2. ~\E c \in Cells : next <= c /\ c < next
      BY <2>8, CellsFacts
    <3>3. is_mrc_cache(flash, 0)
      BY <2>3 DEF Valid
    <3>4. ~(next > next)
      BY <2>8
    <3> QED BY <2>6, <2>7, <3>1, <3>2, <3>3, <3>4 DEF Writing, L
  <2>11. next <= next /\ next < next + ContainerSize
    BY <2>8, Geometry
  <2>12. FlashInv'
    BY <1>1, <2>1, <2>8, <2>10, <2>11 DEF MInv, FlashInv, BaseInv, EraseInv, WriteInv
  <2>13. TypeOK'
    BY <1>1, <2>1, <2>9 DEF MInv, TypeOK, Places, Space
  <2> QED BY <1>3, <2>12, <2>13 DEF MInv
<1> QED BY <1>4, <1>5

\* Where the sector that is erased ends.
LEMMA SectorEnd ==
  ASSUME NEW a \in SectorStarts, a < Region
  PROVE  a \in Nat /\ a + Sector <= Region /\ a + Sector \in SectorStarts
<1>0. Sector \in Nat /\ Sector >= 1 /\ Region \in Nat /\ Region % Sector = 0
  BY Geometry, MrcAssumption
<1>j. PICK j \in Nat : a = j * Sector
  BY DEF SectorStarts
<1> DEFINE k == Region \div Sector
<1>k. k \in Nat /\ Region = k * Sector
  BY <1>0, SMT
<1> HIDE DEF k
<1>1. j \in Nat /\ k \in Nat /\ a = j * Sector /\ Region = k * Sector /\ a \in Nat
  BY <1>0, <1>j, <1>k, SMT
<1>2. j < k
  <2> SUFFICES ASSUME k <= j PROVE FALSE
    BY <1>1
  <2>1. PICK i \in Nat : j = k + i
    <3>1. j = k + (j - k) /\ j - k \in Nat
      BY <1>1
    <3> QED BY <3>1
  <2>2. a = Region + i * Sector /\ i * Sector \in Nat
    BY <1>0, <1>1, <2>1, SMT
  <2> DEFINE z == i * Sector
  <2> HIDE DEF z
  <2>3. a = Region + z /\ z \in Nat
    BY <2>2 DEF z
  <2> QED BY <1>0, <2>3
<1>3. PICK i \in Nat : k = j + 1 + i
  <2>1. k = j + 1 + (k - j - 1) /\ k - j - 1 \in Nat
    BY <1>1, <1>2
  <2> QED BY <2>1
<1>4. Region = a + Sector + i * Sector /\ i * Sector \in Nat
  BY <1>0, <1>1, <1>3, SMT
<1> DEFINE z == i * Sector
<1> HIDE DEF z
<1>5. Region = a + Sector + z /\ z \in Nat
  BY <1>4 DEF z
<1>6. a + Sector <= Region
  BY <1>0, <1>1, <1>5
<1>7. a + Sector = (j + 1) * Sector
  BY <1>0, <1>1, SMT
<1>8. a + Sector \in SectorStarts
  BY <1>7 DEF SectorStarts
<1> QED BY <1>1, <1>6, <1>8

\* What an erase does to the flash, of the current sector or of a part of it.
LEMMA Erases ==
  ASSUME MInv, pc = "erase", NEW S, S \subseteq SectorAt(at), NEW g, g = Erased(flash, S)
  PROVE  /\ \A c \in Cells : g[c] = IF c \in S THEN {} ELSE flash[c]
         /\ g \in [Cells -> SUBSET Words]
         /\ \A c \in Cells : c >= Region => g[c] = {OtherWord}
         /\ Aligned(g)
         /\ at \in Nat /\ at + Sector <= Region /\ at + Sector \in SectorStarts
         /\ S = SectorAt(at) => \A c \in Cells : c < at + Sector => g[c] = {}
         /\ at > 0 \/ S = SectorAt(at) => g[0] = {}
<1>0. Sector \in Nat /\ Sector >= 1 /\ Region \in Nat /\ 0 \in Cells
  BY Geometry, CellsFacts
<1>1. /\ at \in Cells /\ at \in SectorStarts /\ at < Region
      /\ flash \in [Cells -> SUBSET Words] /\ Aligned(flash)
      /\ \A c \in Cells : c < at => flash[c] = {}
      /\ \A c \in Cells : c >= Region => flash[c] = {OtherWord}
  BY DEF MInv, TypeOK, FlashInv, EraseInv
<1>2. at \in Nat /\ at + Sector <= Region /\ at + Sector \in SectorStarts
  BY <1>1, SectorEnd, CellsFacts
<1>3. /\ \A c \in Cells : g[c] = IF c \in S THEN {} ELSE flash[c]
      /\ g \in [Cells -> SUBSET Words]
  BY <1>1 DEF Erased
<1>4. \A c \in Cells : c >= Region => g[c] = {OtherWord}
  <2> SUFFICES ASSUME NEW c \in Cells, c >= Region PROVE g[c] = {OtherWord}
    OBVIOUS
  <2>1. c \notin S
    BY <1>0, <1>2, CellsFacts DEF SectorAt
  <2> QED BY <1>1, <1>3, <2>1
<1>5. Aligned(g)
  BY <1>1, <1>3 DEF Aligned
<1>6. ASSUME S = SectorAt(at), NEW c \in Cells, c < at + Sector PROVE g[c] = {}
  <2>1. c < at \/ c \in SectorAt(at)
    BY <1>0, <1>2, <1>6, CellsFacts DEF SectorAt
  <2> QED BY <1>1, <1>3, <1>6, <2>1
<1>7. ASSUME at > 0 \/ S = SectorAt(at) PROVE g[0] = {}
  <2>1. CASE at > 0
    BY <1>0, <1>1, <1>3, <2>1
  <2>2. CASE S = SectorAt(at)
    <3>1. 0 < at + Sector
      BY <1>0, <1>2
    <3> QED BY <1>0, <1>6, <2>2, <3>1
  <2> QED BY <1>7, <2>1, <2>2
<1> QED BY <1>2, <1>3, <1>4, <1>5, <1>6, <1>7

\* Nothing is valid in a region without a signature at its base.
LEMMA NoBase ==
  ASSUME NEW f, f[0] = {}
  PROVE  (\A t : ~Valid(f, t)) /\ FreeBehind(f) /\ Seen(f) = NoTimings
<1>1. \A t : ~Valid(f, t)
  BY DEF Valid, is_mrc_cache
<1>2. FreeBehind(f)
  BY <1>1 DEF FreeBehind
<1>3. Seen(f) = NoTimings
  BY <1>1, SeenValid
<1> QED BY <1>1, <1>2, <1>3

\* A sector is erased, and behind the last one the write begins.
LEMMA EraseStep ==
  ASSUME MInv, EraseSector
  PROVE  MInv'
<1>1. /\ pc = "erase" /\ flash' = Erased(flash, SectorAt(at))
      /\ UNCHANGED <<dimms, ctrl, cbmem, base, booted, fault, wrote>>
      /\ IF at + Sector < Region THEN at' = at + Sector /\ pc' = pc /\ dirty' = dirty
         ELSE at' = base /\ pc' = "write" /\ dirty' = FALSE
  BY DEF EraseSector
<1>2. /\ flash' \in [Cells -> SUBSET Words] /\ Aligned(flash')
      /\ \A c \in Cells : c >= Region => flash'[c] = {OtherWord}
      /\ at \in Nat /\ at + Sector <= Region /\ at + Sector \in SectorStarts
      /\ \A c \in Cells : c < at + Sector => flash'[c] = {}
      /\ flash'[0] = {}
  BY <1>1, Erases
<1>3. FreeBehind(flash')
  BY <1>2, NoBase
<1>4. BootInv'
  BY <1>1 DEF MInv, BootInv, CacheCurrent
<1>5. base = 0 /\ 0 \in Starts /\ 0 < Region /\ 0 \in Cells /\ Region \in Nat /\ Sector \in Nat
  BY <1>1, Geometry, CellsFacts DEF MInv, FlashInv, EraseInv
<1>6. CASE at + Sector < Region
  <2>1. at' = at + Sector /\ pc' = "erase" /\ dirty' = dirty
    BY <1>1, <1>6
  <2>2. at' \in Cells
    BY <1>2, <1>5, <1>6, <2>1, Geometry DEF Cells
  <2>3. TypeOK'
    BY <1>1, <1>2, <2>1, <2>2 DEF MInv, TypeOK
  <2>4. FlashInv'
    BY <1>1, <1>2, <1>3, <1>5, <1>6, <2>1 DEF FlashInv, BaseInv, EraseInv, WriteInv
  <2> QED BY <1>4, <2>3, <2>4 DEF MInv
<1>7. CASE ~(at + Sector < Region)
  <2>1. at' = 0 /\ base' = 0 /\ pc' = "write" /\ dirty' = FALSE
    BY <1>1, <1>5, <1>7
  <2>2. TypeOK'
    BY <1>1, <1>2, <1>5, <2>1 DEF MInv, TypeOK, Places
  <2>3. \A c \in Cells : c < Region => flash'[c] = {}
    BY <1>2, <1>5, <1>7, CellsFacts
  <2>4. Writing(flash', 0, 0, cbmem')
    <3>1. ~\E c \in Cells : 0 <= c /\ c < 0
      BY CellsFacts
    <3> QED BY <2>3, <3>1 DEF Writing
  <2>5. FlashInv'
    BY <1>2, <1>3, <1>5, <2>1, <2>4, Geometry DEF FlashInv, BaseInv, EraseInv, WriteInv
  <2> QED BY <1>4, <2>2, <2>5 DEF MInv
<1> QED BY <1>6, <1>7

\* An erase that fails is not noticed.
LEMMA EraseErrorStep ==
  ASSUME MInv, EraseError
  PROVE  MInv'
<1>1. /\ pc = "erase" /\ flash' \in {flash, Erased(flash, SectorAt(at))}
      /\ UNCHANGED <<dimms, ctrl, cbmem, base, booted, wrote>>
      /\ at' = base /\ pc' = "write" /\ fault' = TRUE /\ dirty' = TRUE
  BY DEF EraseError
<1>2. /\ flash' \in [Cells -> SUBSET Words] /\ Aligned(flash')
      /\ \A c \in Cells : c >= Region => flash'[c] = {OtherWord}
  <2>1. CASE flash' = flash
    BY <2>1 DEF MInv, TypeOK, FlashInv
  <2>2. CASE flash' = Erased(flash, SectorAt(at))
    BY <1>1, <2>2, Erases
  <2> QED BY <1>1, <2>1, <2>2
<1>3. base = 0 /\ 0 \in Starts /\ 0 < Region /\ 0 \in Cells /\ Region \in Nat
  BY <1>1, Geometry, CellsFacts DEF MInv, FlashInv, EraseInv
<1>4. TypeOK'
  BY <1>1, <1>2, <1>3 DEF MInv, TypeOK, Places
<1>5. BootInv'
  BY <1>1 DEF MInv, BootInv, CacheCurrent
<1>6. FlashInv'
  BY <1>1, <1>2, <1>3, Geometry DEF FlashInv, BaseInv, EraseInv, WriteInv
<1> QED BY <1>4, <1>5, <1>6 DEF MInv

\* Power fails while a sector is erased.
LEMMA EraseCutShort ==
  ASSUME SmallSectors, MInv, pc = "erase", NEW S, S \subseteq SectorAt(at),
         NEW g, g = Erased(flash, S)
  PROVE  /\ \A t : Valid(g, t) => Valid(flash, t) /\ LastEntry(g) = LastEntry(flash)
         /\ Seen(g) \in {Seen(flash), NoTimings}
         /\ FreeBehind(flash) => FreeBehind(g)
<1>1. /\ \A c \in Cells : g[c] = IF c \in S THEN {} ELSE flash[c]
      /\ at \in Nat /\ (at > 0 => g[0] = {}) /\ Aligned(flash)
  BY Erases DEF MInv, FlashInv
<1>2. S \subseteq 0 .. BlockSize - 1 \/ at > 0
  BY <1>1, Geometry DEF SmallSectors, SectorAt
<1>3. ASSUME NEW t, Valid(g, t) PROVE Valid(flash, t) /\ LastEntry(g) = LastEntry(flash)
  <2>1. CASE at > 0
    <3>1. g[0] = {}
      BY <1>1, <2>1
    <3>2. ~Valid(g, t)
      BY <3>1, NoBase
    <3> QED BY <1>3, <3>2
  <2>2. CASE S \subseteq 0 .. BlockSize - 1
    <3>1. CutShort(flash, S, g)
      BY <1>1, <2>2 DEF CutShort
    <3> QED BY <1>1, <1>3, <3>1, PartlyErased
  <2> QED BY <1>2, <2>1, <2>2
<1>4. Seen(g) \in {Seen(flash), NoTimings}
  BY <1>3, SeenValid
<1>5. ASSUME FreeBehind(flash) PROVE FreeBehind(g)
  BY <1>1, <1>3, <1>5 DEF FreeBehind
<1> QED BY <1>3, <1>4, <1>5

\* ... and then the machine is off.
LEMMA CutShortStep ==
  ASSUME SmallSectors, MInv, PowerLoss, pc = "erase"
  PROVE  MInv'
<1>1. PICK S \in SUBSET SectorAt(at) : flash' = Erased(flash, S)
  BY DEF PowerLoss
<1>2. /\ pc' = "off" /\ ctrl' = NoTimings /\ cbmem' = NoTimings /\ booted' = NoTimings
      /\ base' = 0 /\ at' = 0 /\ fault' = FALSE /\ wrote' = FALSE /\ dimms' = dimms /\ dirty' = dirty
  BY DEF PowerLoss, Reset
<1>3. /\ flash' \in [Cells -> SUBSET Words] /\ Aligned(flash')
      /\ \A c \in Cells : c >= Region => flash'[c] = {OtherWord}
  BY <1>1, Erases
<1>4. ~dirty => FreeBehind(flash')
  BY <1>1, EraseCutShort DEF MInv, FlashInv
<1>5. 0 \in Starts /\ 0 < Region /\ 0 \in Cells /\ Region \in Nat
  BY Geometry, CellsFacts
<1>6. TypeOK'
  <2>1. {ctrl, cbmem, booted}' \subseteq TimingsOrNone /\ pc' \in Places /\ dimms' \in Dimms
    BY <1>2 DEF MInv, TypeOK, TimingsOrNone, Places
  <2>2. base' \in 0 .. Region - 1 /\ at' \in Cells
    BY <1>2, <1>5
  <2>3. {fault, dirty, wrote}' \subseteq BOOLEAN
    BY <1>2 DEF MInv, TypeOK
  <2> QED BY <1>3, <2>1, <2>2, <2>3 DEF TypeOK
<1>7. BootInv'
  BY <1>2 DEF BootInv, CacheCurrent
<1>8. FlashInv'
  BY <1>2, <1>3, <1>4, <1>5 DEF FlashInv, BaseInv, EraseInv, WriteInv
<1> QED BY <1>6, <1>7, <1>8 DEF MInv

\* What a word that is written does to the flash: nothing is lost below, the word is one
\* of the container, and a store that is not complete leaves no entry to be seen.
LEMMA Writes ==
  ASSUME MInv, WriteCell
  PROVE  /\ flash' \in [Cells -> SUBSET Words] /\ Aligned(flash')
         /\ \A c \in Cells : c >= Region => flash'[c] = {OtherWord}
         /\ at \in Nat /\ base \in Starts /\ base < Region /\ base <= at
         /\ at < base + ContainerSize /\ at < Region /\ cbmem \in Timings
         /\ ~dirty => Writing(flash', base, at + 1, cbmem)
         /\ ~dirty /\ at + 1 = base + ContainerSize => Valid(flash', cbmem) /\ FreeBehind(flash')
<1>1. pc = "write" /\ flash' = [flash EXCEPT ![at] = @ \cup {Container(cbmem, at - base)}]
  BY DEF WriteCell
<1>2. /\ flash \in [Cells -> SUBSET Words] /\ Aligned(flash) /\ at \in Cells
      /\ \A c \in Cells : c >= Region => flash[c] = {OtherWord}
      /\ base \in Starts /\ base < Region /\ base <= at /\ at < base + ContainerSize
      /\ ~dirty => Writing(flash, base, at, cbmem)
      /\ cbmem \in Timings
  BY <1>1 DEF MInv, TypeOK, FlashInv, BaseInv, WriteInv, BootInv
<1>3. /\ at \in Nat /\ base \in Nat /\ base + BlockSize <= Region /\ Region \in Nat
      /\ ContainerSize \in Nat /\ BlockSize \in Nat /\ ContainerSize <= BlockSize
      /\ ContainerSize >= 4
  BY <1>2, CellsFacts, StartsApart, Geometry
<1>4. at < Region /\ at - base \in Nat
  BY <1>2, <1>3
<1> DEFINE w == Container(cbmem, at - base)
<1>5. w \in Words /\ (w = SigWord => at = base)
  <2>1. w \in Words
    BY <1>2, <1>4, Contents
  <2>2. at # base => at - base >= 1
    BY <1>3, <1>4
  <2>3. at # base => w # SigWord
    BY <1>4, <2>2, Contents
  <2> QED BY <2>1, <2>3
<1> HIDE DEF w
<1>6. \A c \in Cells : flash'[c] = IF c = at THEN flash[c] \cup {w} ELSE flash[c]
  BY <1>1, <1>2 DEF w
<1>7. flash' \in [Cells -> SUBSET Words]
  BY <1>1, <1>2, <1>5 DEF w
<1>8. \A c \in Cells : c >= Region => flash'[c] = {OtherWord}
  <2> SUFFICES ASSUME NEW c \in Cells, c >= Region PROVE flash'[c] = {OtherWord}
    OBVIOUS
  <2>1. c # at
    BY <1>3, <1>4
  <2> QED BY <1>2, <1>6, <2>1
<1>9. Aligned(flash')
  <2> SUFFICES ASSUME NEW c \in Cells, SigWord \in flash'[c] PROVE c \in Starts
    BY DEF Aligned
  <2> QED BY <1>2, <1>5, <1>6 DEF Aligned
<1>10. ASSUME ~dirty
       PROVE  /\ Writing(flash', base, at + 1, cbmem)
              /\ at + 1 = base + ContainerSize => Valid(flash', cbmem) /\ FreeBehind(flash')
  <2>1. Writing(flash, base, at, cbmem)
    BY <1>2, <1>10
  <2>2. flash[at] = {}
    BY <1>2, <1>3, <1>4, <2>1 DEF Writing
  <2>3. \A c \in Cells : flash'[c] = IF c = at THEN {w} ELSE flash[c]
    BY <1>6, <2>2
  <2>4. CASE at = base
    <3>1. w = Container(cbmem, 0)
      BY <1>3, <2>4 DEF w
    <3>2. \A c \in Cells : flash'[c] = IF c = base THEN {Container(cbmem, 0)} ELSE flash[c]
      BY <2>3, <2>4, <3>1
    <3>3. Writing(flash, base, base, cbmem)
      BY <2>1, <2>4
    <3>4. Writing(flash', base, base + 1, cbmem)
      BY <1>2, <3>2, <3>3, FirstWord
    <3>5. at + 1 # base + ContainerSize
      BY <1>3, <2>4
    <3> QED BY <2>4, <3>4, <3>5
  <2>5. CASE at # base
    <3>1. base < at
      BY <1>2, <1>3, <2>5
    <3>2. \A c \in Cells :
            flash'[c] = IF c = at THEN {Container(cbmem, at - base)} ELSE flash[c]
      BY <2>3 DEF w
    <3> QED BY <1>2, <1>3, <2>1, <3>1, <3>2, LaterWord
  <2> QED BY <2>4, <2>5
<1> QED BY <1>2, <1>3, <1>4, <1>7, <1>8, <1>9, <1>10

\* A word is written, and behind the last one the update ends.
LEMMA WriteStep ==
  ASSUME MInv, WriteCell
  PROVE  MInv'
<1>1. /\ pc = "write" /\ UNCHANGED <<dimms, ctrl, cbmem, booted, fault, dirty>>
      /\ IF at + 1 = base + ContainerSize
         THEN pc' = "os" /\ base' = 0 /\ at' = 0 /\ wrote' = TRUE
         ELSE at' = at + 1 /\ pc' = pc /\ base' = base /\ wrote' = wrote
  BY DEF WriteCell, Return
<1>2. /\ flash' \in [Cells -> SUBSET Words] /\ Aligned(flash')
      /\ \A c \in Cells : c >= Region => flash'[c] = {OtherWord}
      /\ at \in Nat /\ base \in Starts /\ base < Region /\ base <= at
      /\ at < base + ContainerSize /\ at < Region /\ cbmem \in Timings
      /\ ~dirty => Writing(flash', base, at + 1, cbmem)
      /\ ~dirty /\ at + 1 = base + ContainerSize => Valid(flash', cbmem) /\ FreeBehind(flash')
  BY Writes
<1>3. /\ 0 \in Starts /\ 0 < Region /\ 0 \in Cells /\ 0 \in 0 .. Region - 1 /\ Region \in Nat
      /\ base \in Nat /\ ContainerSize \in Nat /\ BlockSize \in Nat /\ BlockSize >= 4
  BY <1>2, Geometry, CellsFacts, StartsApart
<1>4. cbmem = booted /\ ctrl = booted /\ booted \in Timings /\ booted.dimms = dimms
  BY <1>1 DEF MInv, BootInv
<1>5. CASE at + 1 = base + ContainerSize
  <2>1. pc' = "os" /\ base' = 0 /\ at' = 0 /\ wrote' = TRUE
    BY <1>1, <1>5
  <2>2. TypeOK'
    BY <1>1, <1>2, <1>3, <2>1 DEF MInv, TypeOK, Places
  <2>3. FlashInv'
    BY <1>1, <1>2, <1>3, <1>5, <2>1 DEF FlashInv, BaseInv, EraseInv, WriteInv
  <2>4. ~dirty => Seen(flash') = cbmem
    BY <1>2, <1>5, SeenValid
  <2>5. BootInv'
    BY <1>1, <1>4, <2>1, <2>4 DEF BootInv, CacheCurrent
  <2> QED BY <2>2, <2>3, <2>5 DEF MInv
<1>6. CASE at + 1 # base + ContainerSize
  <2>1. pc' = "write" /\ base' = base /\ at' = at + 1 /\ wrote' = wrote
    BY <1>1, <1>6
  <2>2. at + 1 \in Nat /\ base <= at + 1 /\ at + 1 < base + ContainerSize /\ at + 1 \in Cells
    BY <1>2, <1>3, <1>6 DEF Cells
  <2>3. TypeOK'
    BY <1>1, <1>2, <2>1, <2>2 DEF MInv, TypeOK
  <2>4. ~dirty => FreeBehind(flash')
    BY <1>2, <2>2, IncompleteFree
  <2>5. FlashInv'
    BY <1>1, <1>2, <2>1, <2>2, <2>4 DEF FlashInv, BaseInv, EraseInv, WriteInv
  <2>6. BootInv'
    BY <1>1, <1>4, <2>1 DEF BootInv, CacheCurrent
  <2> QED BY <2>3, <2>5, <2>6 DEF MInv
<1> QED BY <1>5, <1>6

-----------------------------------------------------------------------------
(* The theorems                                                            *)

LEMMA StepHolds ==
  ASSUME SmallSectors, MInv, [Next]_vars
  PROVE  MInv'
<1>1. CASE PowerOn \/ TrainingFails \/ ResumeFails \/ (PowerLoss /\ pc # "erase")
  BY <1>1, PowerStep
<1>2. CASE PowerLoss /\ pc = "erase"
  BY <1>2, CutShortStep
<1>3. CASE FastBoot \/ Train \/ TrainUnsaved
  BY <1>3, ColdBootStep
<1>4. CASE Suspend \/ Wake \/ Resume
  BY <1>4, SleepStep
<1>5. CASE NoUpdate \/ ProbeFails \/ WriteError
  BY <1>5, ReturnStep
<1>6. CASE PickBlock
  BY <1>6, PickStep
<1>7. CASE EraseSector
  BY <1>7, EraseStep
<1>8. CASE EraseError
  BY <1>8, EraseErrorStep
<1>9. CASE WriteCell
  BY <1>9, WriteStep
<1>10. CASE UNCHANGED vars
  BY <1>10 DEF vars, MInv, TypeOK, FlashInv, BaseInv, EraseInv, WriteInv, BootInv, CacheCurrent
<1> QED
  BY <1>1, <1>2, <1>3, <1>4, <1>5, <1>6, <1>7, <1>8, <1>9, <1>10 DEF Next, Update

LEMMA MrcInductive ==
  ASSUME SmallSectors
  PROVE  Spec => []MInv
<1>1. MInv /\ [Next]_vars => MInv'
  BY StepHolds
<1> QED BY <1>1, InitHolds, PTL DEF Spec

(***************************************************************************)
(* Whatever power failures, resets and failing flash operations have left  *)
(* in the flash, update_mrc_cache() writes to erased cells of its region,  *)
(* no old entry follows a new one, and under the OS the entry a resume     *)
(* finds is the timings the machine booted with (same exceptions as in     *)
(* CacheCurrent), for a region, containers and timings of any size, if a   *)
(* sector is no larger than a block.                                       *)
(***************************************************************************)
THEOREM MrcCacheSound ==
  ASSUME SmallSectors
  PROVE  Spec => []CacheSound
<1>1. MInv => CacheSound
  <2> SUFFICES ASSUME MInv PROVE CacheSound
    OBVIOUS
  <2>1. TypeOK /\ CacheCurrent
    BY DEF MInv, BootInv
  <2>2. ErasedAhead
    BY DEF MInv, FlashInv, WriteInv, Writing, ErasedAhead
  <2> QED BY <2>1, <2>2 DEF CacheSound
<1> QED BY <1>1, MrcInductive, PTL

(***************************************************************************)
(* raminit brings the memory up with timings for the modules that are in   *)
(* the sockets, whatever find_current_mrc_cache() returns, and resumes     *)
(* keep the memory controller at the timings of the cold boot.             *)
(***************************************************************************)
THEOREM MrcRightTimings ==
  ASSUME SmallSectors
  PROVE  Spec => []RightTimings
<1>1. MInv => RightTimings
  BY DEF MInv, BootInv, RightTimings
<1> QED BY <1>1, MrcInductive, PTL

\* A step never brings an older entry back: what a reader finds stays, is lost, or is the
\* container that is being stored.
LEMMA NoStepBack ==
  ASSUME SmallSectors, MInv, Next, ~dirty
  PROVE  Seen(flash') \in {Seen(flash), NoTimings, cbmem}
<1>1. CASE flash' = flash
  BY <1>1
<1>2. CASE EraseSector \/ EraseError
  <2>1. CASE flash' = flash
    BY <2>1
  <2>2. CASE flash' # flash
    <3>1. pc = "erase" /\ flash' = Erased(flash, SectorAt(at))
      BY <1>2, <2>2 DEF EraseSector, EraseError
    <3>2. flash'[0] = {}
      BY <3>1, Erases
    <3> QED BY <3>2, NoBase
  <2> QED BY <2>1, <2>2
<1>3. CASE PowerLoss /\ pc = "erase"
  <2>1. PICK S \in SUBSET SectorAt(at) : flash' = Erased(flash, S)
    BY <1>3 DEF PowerLoss
  <2> QED BY <1>3, <2>1, EraseCutShort
<1>4. CASE WriteCell
  <2>1. /\ at \in Nat /\ base \in Starts /\ base < Region /\ base <= at
        /\ at < base + ContainerSize /\ Writing(flash', base, at + 1, cbmem)
        /\ at + 1 = base + ContainerSize => Valid(flash', cbmem)
    BY <1>4, Writes
  <2>2. base \in Nat /\ ContainerSize \in Nat
    BY <2>1, StartsApart, Geometry
  <2>3. CASE at + 1 = base + ContainerSize
    BY <2>1, <2>3, SeenValid
  <2>4. CASE at + 1 # base + ContainerSize
    <3>1. at + 1 \in Nat /\ base <= at + 1 /\ at + 1 > base /\ at + 1 < base + ContainerSize
      BY <2>1, <2>2, <2>4
    <3>2. \A u : ~Valid(flash', u)
      BY <2>1, <3>1, IncompleteFree
    <3> QED BY <3>2, SeenValid
  <2> QED BY <2>3, <2>4
<1>5. \/ flash' = flash \/ EraseSector \/ EraseError \/ WriteCell
      \/ PowerLoss /\ pc = "erase"
  BY DEF Next, Update, PowerOn, FastBoot, Train, TrainUnsaved, ColdBoot, TrainingFails, Suspend, Wake, Resume,
         ResumeFails, NoUpdate, ProbeFails, PickBlock, WriteError, PowerLoss
<1> QED BY <1>1, <1>2, <1>3, <1>4, <1>5

(***************************************************************************)
(* From step to step, erases and writes that a power failure cuts short    *)
(* included, find_current_mrc_cache() never returns an entry that a newer  *)
(* one had replaced.                                                       *)
(***************************************************************************)
THEOREM MrcNoRollback ==
  ASSUME SmallSectors
  PROVE  Spec => NoRollback
<1>1. MInv /\ [Next]_vars => [~dirty => Seen(flash') \in {Seen(flash), NoTimings, cbmem}]_vars
  BY NoStepBack
<1> QED BY <1>1, MrcInductive, PTL DEF Spec, NoRollback

=============================================================================
