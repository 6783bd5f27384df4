-------------------------- MODULE RegionFileProofs --------------------------
(* Machine-checked theorems about RegionFile, for a region, a flash sector and *)
(* data of any size: after any power failures and errors the handle is the one *)
(* a reset would find and the data of the last completed update is there.      *)
EXTENDS RegionFile, TLAPS, NaturalsInduction, WellFoundedInduction

-----------------------------------------------------------------------------
(* Numbers and blocks                                                      *)

\* The geometry in terms of the erased word, whose width does not matter.
LEMMA Geometry ==
  /\ A \in Nat /\ A >= 1 /\ T \in Nat /\ T >= 1
  /\ REGF_UNALLOCATED_BLOCK \in Nat /\ REGF_UNALLOCATED_BLOCK >= 2
  /\ T <= REGF_UNALLOCATED_BLOCK + 1 /\ 2 ^ W = REGF_UNALLOCATED_BLOCK + 1
  /\ MaxUpdates \in Nat /\ MaxUpdates < REGF_UNALLOCATED_BLOCK
  /\ MaxFaults \in Nat /\ Sizes \subseteq Nat
  /\ SectorBlocks \in Nat /\ SectorBlocks >= 1
BY GeometryAssumption, UserAssumption DEF REGF_UNALLOCATED_BLOCK

\* A set of natural numbers that is not empty has a smallest element: induction, for
\* a set of counterexamples.
LEMMA SmallestOf ==
  ASSUME NEW S \in SUBSET Nat, S # {}
  PROVE  \E x \in S : \A y \in S : x <= y
<1> DEFINE R == OpToRel(<, Nat)
<1>1. \E x \in S : \A y \in S : ~ (<<y, x>> \in R)
  <2> HIDE DEF R
  <2>1. IsWellFoundedOn(R, Nat)
    BY NatLessThanWellFounded DEF R
  <2> QED
    BY <2>1, WFMin
<1>2. PICK x \in S : \A y \in S : ~ (<<y, x>> \in R)
  BY <1>1
<1>3. ASSUME NEW y \in S PROVE x <= y
  <2>1. x \in Nat /\ y \in Nat /\ <<y, x>> \notin R
    BY <1>2
  <2>2. y < x => <<y, x>> \in R
    BY <2>1 DEF OpToRel
  <2> HIDE DEF R
  <2> QED
    BY <2>1, <2>2
<1> QED
  BY <1>2, <1>3

\* Multiplying by the size of a block keeps the order.
LEMMA Scaled ==
  ASSUME NEW b \in Nat, NEW c \in Nat
  PROVE  b * A \in Nat /\ (b <= c => b * A <= c * A) /\ (b < c => b * A + A <= c * A)
<1> USE Geometry
<1>1. b * A \in Nat
  BY SMT
<1>2. ASSUME b <= c PROVE b * A <= c * A
  <2>1. PICK k \in Nat : c = b + k
    BY <1>2
  <2>2. c * A = b * A + k * A /\ k * A >= 0
    BY <2>1, SMT
  <2> QED BY <1>1, <2>2
<1>3. ASSUME b < c PROVE b * A + A <= c * A
  <2>1. PICK k \in Nat : c = b + 1 + k
    <3>1. c = b + 1 + (c - b - 1) /\ c - b - 1 \in Nat
      BY <1>3
    <3> QED BY <3>1
  <2>2. c * A = b * A + A + k * A /\ k * A >= 0
    BY <2>1, SMT
  <2> QED BY <1>1, <2>2
<1> QED BY <1>1, <1>2, <1>3

\* The words of a block lie between it and the next one.
LEMMA InBlock ==
  ASSUME NEW b \in Nat, NEW w \in BlockWords(b), NEW c \in Nat
  PROVE  w \in Nat /\ (c <= b => c * A <= w) /\ (b < c => w < c * A)
<1>1. b * A \in Nat /\ c * A \in Nat /\ w \in b * A .. b * A + A - 1
  BY Scaled DEF BlockWords
<1>2. (c <= b => c * A <= b * A) /\ (b < c => b * A + A <= c * A)
  BY Scaled
<1> HIDE DEF BlockWords
<1> QED BY <1>1, <1>2, Geometry

\* Division with remainder.
LEMMA Divides ==
  ASSUME NEW y \in Nat, NEW a \in Nat, a >= 1
  PROVE  /\ y \div a \in Nat
         /\ a * (y \div a) <= y /\ y < a * (y \div a) + a
BY SMT

LEMMA DivideOnce ==
  ASSUME NEW q \in Nat, NEW r \in Nat, NEW a \in Nat, r < a
  PROVE  (a * q + r) \div a = q
BY SMTT(20)

\* Whole blocks stay what they are when they are rounded up.
LEMMA RoundedUp ==
  ASSUME NEW x \in Nat
  PROVE  \E k \in Nat : /\ ALIGN_UP(x, A) = k * A /\ (k * A) \div A = k
                        /\ A * k < x + A /\ x <= A * k
<1> DEFINE k == (x + A - 1) \div A
<1>1. k \in Nat /\ A * k <= x + A - 1 /\ x + A - 1 < A * k + A
  BY Geometry, Divides
<1>2. ALIGN_UP(x, A) = k * A
  BY DEF ALIGN_UP
<1> HIDE DEF k
<1>3. k * A = A * k + 0 /\ A * k \in Nat
  BY <1>1, Geometry, SMT
<1>4. (k * A) \div A = k
  BY <1>1, <1>3, Geometry, DivideOnce
<1> QED BY <1>1, <1>2, <1>3, <1>4, Geometry

(***************************************************************************)
(* allocate_metadata() leaves the data of at least one update its room:    *)
(* the number of metadata blocks is at least one, less than the region     *)
(* (for a region of two blocks or more) and not the value of erased flash. *)
(***************************************************************************)
LEMMA MetadataFits ==
  ASSUME NEW d \in Nat, d >= 1, d <= T - 1
  PROVE  /\ MetadataBlocks(d) \in 1 .. T
         /\ MetadataBlocks(d) < REGF_UNALLOCATED_BLOCK
<1> DEFINE n == d * A + 1
           q == (T * A) \div n
<1>1. /\ A \in Nat /\ A >= 1 /\ T \in Nat /\ T >= 2
      /\ REGF_UNALLOCATED_BLOCK \in Nat /\ REGF_UNALLOCATED_BLOCK >= 2
      /\ T <= REGF_UNALLOCATED_BLOCK + 1
  BY Geometry
<1>2. n \in Nat /\ n >= A + 1 /\ T * A \in Nat
  <2>1. d * A \in Nat /\ T * A \in Nat
    BY <1>1, Scaled
  <2>2. 1 * A <= d * A
    BY Scaled
  <2> QED BY <1>1, <2>1, <2>2
<1>3. q \in Nat /\ n * q <= T * A
  <2> HIDE DEF n
  <2> QED BY <1>1, <1>2, Divides
<1>4. (A + 1) * q <= T * A
  <2> HIDE DEF q, n
  <2>1. n * q = (A + 1) * q + (n - A - 1) * q /\ (n - A - 1) * q >= 0
    BY <1>1, <1>2, <1>3, SMT
  <2>2. (A + 1) * q \in Int /\ n * q \in Int /\ (n - A - 1) * q \in Int
    BY <1>1, <1>2, <1>3, SMT
  <2> QED BY <1>1, <1>2, <1>3, <2>1, <2>2
<1>5. PICK k \in Nat : ALIGN_UP(q, A) = k * A /\ (k * A) \div A = k /\ A * k < q + A
  BY <1>3, RoundedUp
<1>6. A * k \in Nat /\ k * A = A * k
  BY <1>1, SMT
<1>7. k <= T - 1 /\ (T >= 3 => k <= T - 2)
  <2> HIDE DEF q, n
  <2>1. ASSUME k >= T - 1, T >= 3 PROVE FALSE
    <3>1. PICK j \in Nat : k = T - 1 + j
      <4>1. k = T - 1 + (k - (T - 1)) /\ k - (T - 1) \in Nat
        BY <1>1, <2>1
      <4> QED BY <4>1
    <3>2. PICK i \in Nat : T = i + 3
      <4>1. T = (T - 3) + 3 /\ T - 3 \in Nat
        BY <1>1, <2>1
      <4> QED BY <4>1
    <3>3. q > A * (i + 2 + j) - A
      BY <1>1, <1>3, <1>5, <3>1, <3>2
    <3>4. q >= A * (i + 1 + j) + 1
      BY <1>1, <1>3, <3>3, SMT
    <3>5. (A + 1) * q >= (A + 1) * (A * (i + 1 + j) + 1)
      BY <1>1, <1>3, <3>4, SMT
    <3>6. (A + 1) * (A * (i + 1 + j) + 1) > (i + 3) * A
      <4>1. (A + 1) * (A * (i + 1 + j) + 1)
              = A * A * i + A * A * j + A * A + A * i + A * j + 2 * A + 1
        BY <1>1, SMT
      <4>2. A * A >= A /\ A * A * i >= 0 /\ A * A * j >= 0 /\ A * i >= 0 /\ A * j >= 0
        BY <1>1, SMT
      <4>3. (i + 3) * A = A * i + 3 * A
        BY <1>1, SMT
      <4> QED BY <1>1, <4>1, <4>2, <4>3, SMT
    <3> QED BY <1>1, <1>3, <1>4, <3>2, <3>5, <3>6, SMT
  <2>2. ASSUME k >= 2, T = 2 PROVE FALSE
    <3>1. A * k >= 2 * A
      BY <1>1, <2>2, SMT
    <3>2. q >= A + 1
      BY <1>1, <1>3, <1>5, <1>6, <3>1
    <3>3. (A + 1) * q >= (A + 1) * (A + 1)
      BY <1>1, <1>3, <3>2, SMT
    <3>4. (A + 1) * (A + 1) = A * A + 2 * A + 1 /\ A * A >= 0
      BY <1>1, SMT
    <3> QED BY <1>1, <1>3, <1>4, <2>2, <3>3, <3>4, SMT
  <2> QED BY <1>1, <2>1, <2>2
<1>8. MetadataBlocks(d) = (IF k = 0 THEN 1 ELSE k) % (REGF_UNALLOCATED_BLOCK + 1)
  <2> HIDE DEF q
  <2>1. ALIGN_UP(k * A, A) = k * A
    <3>1. PICK j \in Nat : /\ ALIGN_UP(k * A, A) = j * A
                           /\ A * j < k * A + A /\ k * A <= A * j
      BY <1>6, RoundedUp
    <3>2. ~(j < k) /\ ~(k < j)
      <4>1. j < k => j * A + A <= k * A
        BY Scaled
      <4>2. k < j => k * A + A <= j * A
        BY Scaled
      <4>3. j * A = A * j /\ A * j \in Nat
        BY <1>1, SMT
      <4> QED BY <1>1, <1>6, <3>1, <4>1, <4>2, <4>3
    <3> QED BY <3>1, <3>2
  <2>2. ALIGN_UP(1, A) \div A = 1
    <3>1. PICK j \in Nat : ALIGN_UP(1, A) = j * A /\ (j * A) \div A = j /\ A * j < 1 + A /\ 1 <= A * j
      BY RoundedUp
    <3>2. ~(2 <= j) /\ j # 0
      <4>1. 2 <= j => 2 * A <= j * A
        BY Scaled
      <4>2. j * A = A * j /\ A * j \in Nat /\ A * 0 = 0
        BY <1>1, SMT
      <4> QED BY <1>1, <3>1, <4>1, <4>2
    <3> QED BY <3>1, <3>2
  <2>3. k * A = 0 <=> k = 0
    <3>1. 1 <= k => 1 * A <= k * A
      BY Scaled
    <3> QED BY <1>1, <3>1
  <2>4. MetadataBlocks(d) = (ALIGN_UP(IF k * A = 0 THEN 1 ELSE k * A, A) \div A) % (2 ^ W)
    BY <1>5 DEF MetadataBlocks, q
  <2> QED BY <1>5, <2>1, <2>2, <2>3, <2>4, Geometry
<1>9. ASSUME NEW x \in Nat, x < REGF_UNALLOCATED_BLOCK + 1 PROVE x % (REGF_UNALLOCATED_BLOCK + 1) = x
  BY <1>1, <1>9, SMT
<1> QED BY <1>1, <1>7, <1>8, <1>9

-----------------------------------------------------------------------------
(* The binary search                                                       *)

Bounds == (0 .. T) \X (0 .. T)

\* One round of the search, which goes on with g.
Round(g, b) ==
  LET mid == (b[1] + b[2]) \div 2
  IN IF b[1] + 1 >= b[2] THEN b[1]
     ELSE IF Unallocated(mid) THEN g[<<b[1], mid>>] ELSE g[<<mid, b[2]>>]

\* The middle lies between bounds that are apart.
LEMMA Middle ==
  ASSUME NEW l \in Nat, NEW r \in Nat, l + 1 < r
  PROVE  (l + r) \div 2 \in Nat /\ l < (l + r) \div 2 /\ (l + r) \div 2 < r
BY SMT

\* A round depends only on the bounds that are closer together.
LEMMA RoundLocal ==
  ASSUME NEW g, NEW h, NEW b \in Bounds,
         \A c \in Bounds : c[2] - c[1] < b[2] - b[1] => g[c] = h[c]
  PROVE  Round(g, b) = Round(h, b)
<1> DEFINE mid == (b[1] + b[2]) \div 2
<1>1. b[1] \in 0 .. T /\ b[2] \in 0 .. T /\ T \in Nat
  BY Geometry DEF Bounds
<1>2. CASE b[1] + 1 >= b[2]
  BY <1>2 DEF Round
<1>3. CASE b[1] + 1 < b[2]
  <2>1. mid \in Nat /\ b[1] < mid /\ mid < b[2]
    BY <1>1, <1>3, Middle
  <2> HIDE DEF mid
  <2>2. <<b[1], mid>> \in Bounds /\ <<mid, b[2]>> \in Bounds
    BY <1>1, <2>1 DEF Bounds
  <2>3. g[<<b[1], mid>>] = h[<<b[1], mid>>]
    <3> DEFINE c == <<b[1], mid>>
    <3>1. c \in Bounds /\ c[2] - c[1] < b[2] - b[1]
      BY <1>1, <2>1, <2>2
    <3> HIDE DEF c
    <3>2. g[c] = h[c]
      BY <3>1
    <3> QED BY <3>2 DEF c
  <2>4. g[<<mid, b[2]>>] = h[<<mid, b[2]>>]
    <3> DEFINE c == <<mid, b[2]>>
    <3>1. c \in Bounds /\ c[2] - c[1] < b[2] - b[1]
      BY <1>1, <2>1, <2>2
    <3> HIDE DEF c
    <3>2. g[c] = h[c]
      BY <3>1
    <3> QED BY <3>2 DEF c
  <2>5. ~(b[1] + 1 >= b[2])
    BY <1>1, <1>3
  <2>6. \A x : Round(x, b) = IF Unallocated(mid) THEN x[<<b[1], mid>>] ELSE x[<<mid, b[2]>>]
    BY <2>5 DEF Round, mid
  <2> QED BY <2>3, <2>4, <2>6
<1> QED BY <1>1, <1>2, <1>3

\* There is a function that satisfies the recursive definition of the search.
LEMMA SearchExists == \E g : g = [b \in Bounds |-> Round(g, b)]
<1> DEFINE Upto(n) == \E g : \A b \in Bounds : b[2] - b[1] <= n => g[b] = Round(g, b)
           bad == {n \in Nat : ~Upto(n)}
<1>1. \A b \in Bounds : b[1] \in Nat /\ b[2] \in Nat /\ b[2] - b[1] \in Int /\ b[2] - b[1] <= T
  BY Geometry DEF Bounds
<1>2. Upto(0)
  <2> DEFINE g == [b \in Bounds |-> b[1]]
  <2>1. ASSUME NEW b \in Bounds, b[2] - b[1] <= 0 PROVE g[b] = Round(g, b)
    BY <1>1, <2>1 DEF Round
  <2> HIDE DEF g
  <2> QED BY <2>1
<1>3. ASSUME NEW n \in Nat, Upto(n) PROVE Upto(n + 1)
  <2>1. PICK g : \A b \in Bounds : b[2] - b[1] <= n => g[b] = Round(g, b)
    BY <1>3
  <2> DEFINE h == [b \in Bounds |-> IF b[2] - b[1] <= n THEN g[b] ELSE Round(g, b)]
  <2>2. ASSUME NEW b \in Bounds, b[2] - b[1] <= n + 1 PROVE h[b] = Round(h, b)
    <3>1. h[b] = Round(g, b)
      BY <2>1
    <3>2. \A c \in Bounds : c[2] - c[1] < b[2] - b[1] => g[c] = h[c]
      <4> SUFFICES ASSUME NEW c \in Bounds, c[2] - c[1] < b[2] - b[1] PROVE g[c] = h[c]
        OBVIOUS
      <4>1. c[2] - c[1] <= n
        BY <1>1, <2>2
      <4> QED BY <4>1
    <3> HIDE DEF h
    <3>3. Round(g, b) = Round(h, b)
      BY <3>2, RoundLocal
    <3> QED BY <3>1, <3>3
  <2> HIDE DEF h
  <2> QED BY <2>2
<1> HIDE DEF Upto
<1>4. bad = {}
  <2> SUFFICES ASSUME bad # {} PROVE FALSE
    OBVIOUS
  <2>1. PICK n \in bad : \A m \in bad : n <= m
    <3>1. bad \in SUBSET Nat
      OBVIOUS
    <3> HIDE DEF bad
    <3> QED BY <3>1, SmallestOf
  <2>2. n # 0 /\ n \in Nat
    BY <1>2
  <2>3. n - 1 \in Nat /\ n - 1 \notin bad
    BY <2>1, <2>2
  <2>4. Upto(n - 1)
    BY <2>3
  <2>5. Upto((n - 1) + 1)
    BY <1>3, <2>3, <2>4
  <2>6. (n - 1) + 1 = n
    BY <2>2
  <2> QED BY <2>2, <2>5, <2>6
<1>5. Upto(T)
  BY <1>4, Geometry
<1>6. PICK g : \A b \in Bounds : b[2] - b[1] <= T => g[b] = Round(g, b)
  BY <1>5 DEF Upto
<1> DEFINE h == [b \in Bounds |-> g[b]]
<1>7. ASSUME NEW b \in Bounds PROVE h[b] = Round(h, b)
  <2>1. h[b] = Round(g, b)
    BY <1>1, <1>6
  <2>2. \A c \in Bounds : g[c] = h[c]
    OBVIOUS
  <2> HIDE DEF h
  <2> QED BY <2>1, <2>2, RoundLocal
<1>8. h = [b \in Bounds |-> h[b]]
  OBVIOUS
<1> HIDE DEF h
<1>9. h = [b \in Bounds |-> Round(h, b)]
  BY <1>7, <1>8
<1> QED BY <1>9

(***************************************************************************)
(* When the blocks of the metadata up to m are in use and those behind it  *)
(* are not, the search finds m.                                            *)
(***************************************************************************)
LEMMA SearchFinds ==
  ASSUME NEW num \in 0 .. T, NEW m \in 0 .. num - 1,
         \A b \in 1 .. num - 1 : Unallocated(b) <=> b > m
  PROVE  find_latest_mb(num) = m
<1> DEFINE search == CHOOSE g : g = [b \in Bounds |-> Round(g, b)]
<1>1. find_latest_mb(num) = search[<<0, num>>]
  BY DEF find_latest_mb, Round, Bounds
<1>2. search = [b \in Bounds |-> Round(search, b)]
  BY SearchExists
<1> HIDE DEF search
<1>3. \A b \in Bounds : search[b] = Round(search, b)
  BY <1>2
<1> DEFINE Right(b) == b[1] <= m /\ m < b[2] /\ b[2] <= num => search[b] = m
           bad == {n \in Nat : \E b \in Bounds : b[2] - b[1] = n /\ ~Right(b)}
<1>4. T \in Nat /\ num \in Nat /\ m \in Nat /\ num <= T /\ m < num
  BY Geometry
<1>5. bad = {}
  <2> SUFFICES ASSUME bad # {} PROVE FALSE
    OBVIOUS
  <2>1. PICK n \in bad : \A k \in bad : n <= k
    <3>1. bad \in SUBSET Nat
      OBVIOUS
    <3> HIDE DEF bad
    <3> QED BY <3>1, SmallestOf
  <2>2. PICK b \in Bounds : b[2] - b[1] = n /\ ~Right(b)
    OBVIOUS
  <2>3. b[1] \in Nat /\ b[2] \in Nat /\ b[1] <= m /\ m < b[2] /\ b[2] <= num /\ search[b] # m
    BY <1>4, <2>2 DEF Bounds
  <2>4. ASSUME NEW c \in Bounds, c[2] - c[1] \in Nat, c[2] - c[1] < n PROVE Right(c)
    <3>1. n \in Nat
      OBVIOUS
    <3>2. c[2] - c[1] \notin bad
      BY <2>1, <2>4, <3>1
    <3> QED BY <2>4, <3>2
  <2> DEFINE mid == (b[1] + b[2]) \div 2
  <2>5. CASE b[1] + 1 >= b[2]
    <3> HIDE DEF bad
    <3>1. search[b] = b[1]
      BY <1>3, <2>5 DEF Round
    <3> QED BY <1>4, <2>3, <2>5, <3>1
  <2>6. CASE b[1] + 1 < b[2]
    <3>1. mid \in Nat /\ b[1] < mid /\ mid < b[2]
      BY <2>3, <2>6, Middle
    <3>2. search[b] = IF Unallocated(mid) THEN search[<<b[1], mid>>] ELSE search[<<mid, b[2]>>]
      BY <1>3, <2>3, <2>6 DEF Round
    <3> HIDE DEF mid, bad
    <3>3. mid \in 1 .. num - 1
      BY <1>4, <2>3, <3>1
    <3>4. CASE Unallocated(mid)
      <4> DEFINE c == <<b[1], mid>>
      <4>1. c \in Bounds /\ c[1] = b[1] /\ c[2] = mid
        BY <1>4, <2>3, <3>1 DEF Bounds
      <4>2. m < mid
        BY <1>4, <3>3, <3>4
      <4>3. c[2] - c[1] \in Nat /\ c[2] - c[1] < n
        BY <2>2, <2>3, <3>1, <4>1
      <4> HIDE DEF c
      <4>4. search[c] = m
        BY <1>4, <2>3, <2>4, <3>1, <4>1, <4>2, <4>3
      <4> QED BY <2>3, <3>2, <3>4, <4>4 DEF c
    <3>5. CASE ~Unallocated(mid)
      <4> DEFINE c == <<mid, b[2]>>
      <4>1. c \in Bounds /\ c[1] = mid /\ c[2] = b[2]
        BY <1>4, <2>3, <3>1 DEF Bounds
      <4>2. mid <= m
        BY <1>4, <3>1, <3>3, <3>5
      <4>3. c[2] - c[1] \in Nat /\ c[2] - c[1] < n
        BY <2>2, <2>3, <3>1, <4>1
      <4> HIDE DEF c
      <4>4. search[c] = m
        BY <1>4, <2>3, <2>4, <3>1, <4>1, <4>2, <4>3
      <4> QED BY <2>3, <3>2, <3>5, <4>4 DEF c
    <3> QED BY <3>4, <3>5
  <2>7. b[1] + 1 >= b[2] \/ b[1] + 1 < b[2]
    BY <2>3
  <2> QED BY <2>5, <2>6, <2>7
<1> DEFINE b == <<0, num>>
<1>6. b \in Bounds /\ b[2] - b[1] \in Nat /\ b[1] = 0 /\ b[2] = num
  BY <1>4 DEF Bounds
<1> HIDE DEF b
<1>7. Right(b)
  BY <1>5, <1>6
<1> QED BY <1>1, <1>4, <1>6, <1>7 DEF b

-----------------------------------------------------------------------------
(* What is found in the flash                                              *)

FlashType == flash \in [Words -> uint16_t]

AllErased == \A w \in Words : flash[w] = REGF_UNALLOCATED_BLOCK

(***************************************************************************)
(* The region holds a log with the slots 0 .. s in use: block offsets that *)
(* increase, behind them the rest of the metadata erased, and behind the   *)
(* data of slot s the rest of the region erased.                           *)
(***************************************************************************)
Log(s) ==
  /\ flash[0] \in 1 .. T /\ flash[0] < REGF_UNALLOCATED_BLOCK
  /\ s \in 0 .. flash[0] * A - 1
  /\ \A i \in 1 .. s : /\ flash[i] \in flash[0] + 1 .. T
                       /\ flash[i] < REGF_UNALLOCATED_BLOCK
                       /\ flash[i - 1] < flash[i]
  /\ \A i \in s + 1 .. flash[0] * A - 1 : flash[i] = REGF_UNALLOCATED_BLOCK
  /\ \A w \in Words : w >= flash[s] * A => flash[w] = REGF_UNALLOCATED_BLOCK

\* The handle of such a log.
HandleOf(s) ==
  IF s = 0 THEN Handle(0, flash[0], flash[0], flash[0])
  ELSE Handle(s, flash[0], flash[s - 1], flash[s])

\* The words of the log.
LEMMA LogWords ==
  ASSUME NEW s, Log(s)
  PROVE  /\ flash[0] \in Nat /\ flash[0] >= 1 /\ flash[0] <= T
         /\ flash[0] < REGF_UNALLOCATED_BLOCK
         /\ s \in Nat /\ s < flash[0] * A /\ flash[0] * A \in Nat /\ flash[0] * A <= T * A
         /\ 0 .. flash[0] * A - 1 \subseteq Words /\ s \in Words /\ 0 \in Words
         /\ flash[s] \in Nat /\ flash[0] <= flash[s] /\ flash[s] <= T
         /\ flash[s] < REGF_UNALLOCATED_BLOCK /\ flash[0] * A <= flash[s] * A
         /\ s > 0 => /\ flash[s - 1] \in Nat /\ flash[0] <= flash[s - 1]
                     /\ flash[s - 1] < flash[s]
<1>1. flash[0] \in Nat /\ flash[0] >= 1 /\ flash[0] <= T /\ flash[0] < REGF_UNALLOCATED_BLOCK
  BY Geometry DEF Log
<1>2. flash[0] * A \in Nat /\ flash[0] * A <= T * A /\ T * A \in Nat
  BY <1>1, Geometry, Scaled
<1>3. s \in Nat /\ s < flash[0] * A /\ s \in Words /\ 0 .. flash[0] * A - 1 \subseteq Words
  BY <1>1, <1>2 DEF Log, Words
<1>4. /\ flash[s] \in Nat /\ flash[0] <= flash[s] /\ flash[s] <= T
      /\ flash[s] < REGF_UNALLOCATED_BLOCK
  <2>1. CASE s = 0
    BY <1>1, <2>1
  <2>2. CASE s \in 1 .. s
    <3>1. flash[s] \in flash[0] + 1 .. T /\ flash[s] < REGF_UNALLOCATED_BLOCK
      BY <2>2 DEF Log
    <3> QED BY <1>1, <3>1, Geometry
  <2> QED BY <1>3, <2>1, <2>2
<1>5. flash[0] * A <= flash[s] * A
  BY <1>1, <1>4, Scaled
<1>6. ASSUME s > 0
      PROVE  flash[s - 1] \in Nat /\ flash[0] <= flash[s - 1] /\ flash[s - 1] < flash[s]
  <2>1. s \in 1 .. s
    BY <1>3, <1>6
  <2>2. flash[s - 1] < flash[s]
    BY <2>1 DEF Log
  <2>3. CASE s = 1
    BY <1>1, <2>2, <2>3
  <2>4. CASE s # 1
    <3>1. s - 1 \in 1 .. s
      BY <1>3, <1>6, <2>4
    <3>2. flash[s - 1] \in flash[0] + 1 .. T
      BY <3>1 DEF Log
    <3> QED BY <1>1, <2>2, <3>2, Geometry
  <2> QED BY <2>3, <2>4
<1>7. 0 \in Words
  BY <1>2, <1>3 DEF Words
<1> QED BY <1>1, <1>2, <1>3, <1>4, <1>5, <1>6, <1>7

\* The search finds the metadata block of the last slot in use.
LEMMA LatestBlock ==
  ASSUME NEW s, Log(s)
  PROVE  /\ s \div A \in Nat /\ (s \div A) * A <= s /\ s < (s \div A) * A + A
         /\ (s \div A) * A \in Nat
         /\ find_latest_mb(flash[0]) = s \div A
<1> DEFINE m == s \div A
<1>0. /\ A \in Nat /\ A >= 1 /\ T \in Nat /\ REGF_UNALLOCATED_BLOCK \in Nat
      /\ s \in Nat /\ s < flash[0] * A /\ flash[0] * A \in Nat
      /\ flash[0] \in Nat /\ flash[0] >= 1 /\ flash[0] <= T
  BY Geometry, LogWords
<1>1. m \in Nat /\ A * m <= s /\ s < A * m + A
  BY <1>0, Divides
<1>2. A * m = m * A /\ m * A \in Nat
  BY <1>0, <1>1, SMT
<1> HIDE DEF m
<1>3. m < flash[0]
  <2>1. flash[0] <= m => flash[0] * A <= m * A
    BY <1>0, <1>1, Scaled
  <2> QED BY <1>0, <1>1, <1>2, <2>1
<1>4. ASSUME NEW b \in 1 .. flash[0] - 1 PROVE Unallocated(b) <=> b > m
  <2>1. b \in Nat /\ b >= 1 /\ b < flash[0]
    BY <1>0
  <2>2. b * A \in Nat /\ b * A >= 1
    <3>1. 1 * A <= b * A /\ b * A \in Nat
      BY <2>1, Scaled
    <3> QED BY <1>0, <3>1
  <2>3. CASE b > m
    <3>1. m * A + A <= b * A
      BY <1>1, <2>1, <2>3, Scaled
    <3>2. ASSUME NEW w \in BlockWords(b) PROVE flash[w] = REGF_UNALLOCATED_BLOCK
      <4>1. w \in Nat /\ b * A <= w /\ w < flash[0] * A
        BY <1>0, <2>1, InBlock
      <4>2. w \in s + 1 .. flash[0] * A - 1
        BY <1>0, <1>1, <1>2, <2>2, <3>1, <4>1
      <4> QED BY <4>2 DEF Log
    <3> QED BY <2>3, <3>2 DEF Unallocated
  <2>4. CASE ~(b > m)
    <3>1. b * A <= m * A
      BY <1>1, <2>1, <2>4, Scaled
    <3>2. b * A \in 1 .. s /\ b * A \in BlockWords(b)
      BY <1>0, <1>1, <1>2, <2>2, <3>1 DEF BlockWords
    <3>3. flash[b * A] < REGF_UNALLOCATED_BLOCK
      BY <3>2 DEF Log
    <3>4. flash[b * A] # REGF_UNALLOCATED_BLOCK
      BY <1>0, <3>3
    <3> QED BY <2>4, <3>2, <3>4 DEF Unallocated
  <2> QED BY <2>3, <2>4
<1>5. find_latest_mb(flash[0]) = m
  <2>1. flash[0] \in 0 .. T /\ m \in 0 .. flash[0] - 1
    BY <1>0, <1>1, <1>3
  <2> QED BY <1>4, <2>1, SearchFinds
<1> QED BY <1>1, <1>2, <1>5 DEF m

\* In that block the last slot in use is found.
LEMMA LatestSlot ==
  ASSUME NEW s, Log(s)
  PROVE  find_latest_slot(s \div A) = s
<1> DEFINE m == s \div A
           used == {i \in 1 .. A - 1 : flash[m * A + i] # REGF_UNALLOCATED_BLOCK}
<1>0. /\ A \in Nat /\ A >= 1 /\ REGF_UNALLOCATED_BLOCK \in Nat
      /\ s \in Nat /\ s < flash[0] * A /\ flash[0] * A \in Nat /\ flash[0] \in Nat
      /\ m \in Nat /\ m * A <= s /\ s < m * A + A /\ m * A \in Nat
  BY Geometry, LogWords, LatestBlock
<1>1. m < flash[0]
  <2> HIDE DEF m
  <2>1. flash[0] <= m => flash[0] * A <= m * A
    BY <1>0, Scaled
  <2> QED BY <1>0, <2>1
<1>2. m * A + A <= flash[0] * A
  BY <1>0, <1>1, Scaled
<1>3. find_latest_slot(m) = m * A + (IF used = {} THEN 0 ELSE Max(used))
  BY DEF find_latest_slot
<1>4. used = {i \in 1 .. A - 1 : m * A + i <= s}
  <2> HIDE DEF m
  <2> SUFFICES ASSUME NEW i \in 1 .. A - 1
               PROVE  flash[m * A + i] # REGF_UNALLOCATED_BLOCK <=> m * A + i <= s
    OBVIOUS
  <2>1. CASE m * A + i <= s
    <3>1. m * A + i \in 1 .. s
      BY <1>0, <2>1
    <3>2. flash[m * A + i] < REGF_UNALLOCATED_BLOCK
      BY <3>1 DEF Log
    <3> QED BY <1>0, <2>1, <3>2
  <2>2. CASE ~(m * A + i <= s)
    <3>1. m * A + i \in s + 1 .. flash[0] * A - 1
      BY <1>0, <1>2, <2>2
    <3> QED BY <2>2, <3>1 DEF Log
  <2> QED BY <2>1, <2>2
<1> HIDE DEF m, used
<1>5. CASE s = m * A
  BY <1>0, <1>3, <1>4, <1>5
<1>6. CASE s # m * A
  <2> DEFINE x == s - m * A
  <2>1. x \in used /\ \A y \in used : x >= y /\ y \in Nat
    BY <1>0, <1>4, <1>6
  <2>2. \A z \in used : z >= x => z = x
    BY <1>0, <2>1
  <2> HIDE DEF x
  <2>3. Max(used) = x
    BY <2>1, <2>2 DEF Max
  <2> QED BY <1>0, <1>3, <2>1, <2>3 DEF x
<1> QED BY <1>5, <1>6 DEF m

\* region_file_init() finds the log, and nothing in an erased region.
LEMMA InitFindsLog ==
  ASSUME NEW s, Log(s)
  PROVE  region_file_init = HandleOf(s)
<1>1. /\ flash[0] \in Nat /\ flash[0] >= 1 /\ flash[0] <= T
      /\ flash[0] < REGF_UNALLOCATED_BLOCK /\ s \in Nat /\ flash[s] \in Nat /\ flash[s] <= T
      /\ (s > 0 => flash[s - 1] \in Nat /\ flash[s - 1] < flash[s])
      /\ T \in Nat /\ REGF_UNALLOCATED_BLOCK \in Nat
  BY LogWords, Geometry
<1>2. region_file_init = fill_data_boundaries(s, flash[0])
  <2>1. find_latest_slot(find_latest_mb(flash[0])) = s
    BY LatestBlock, LatestSlot
  <2> QED BY <1>1, <2>1 DEF region_file_init
<1>3. CASE s = 0
  BY <1>2, <1>3 DEF fill_data_boundaries, HandleOf, RF_ONLY_METADATA
<1>4. CASE s > 0
  <2>1. ~(flash[s - 1] >= flash[s] \/ flash[s] > T)
    BY <1>1, <1>4
  <2> QED BY <1>1, <1>2, <1>4, <2>1 DEF fill_data_boundaries, HandleOf, RF_ONLY_METADATA
<1> QED BY <1>1, <1>3, <1>4

LEMMA InitFindsNothing ==
  ASSUME flash[0] = REGF_UNALLOCATED_BLOCK
  PROVE  region_file_init = Handle(RF_EMPTY, 0, 0, 0)
BY DEF region_file_init

-----------------------------------------------------------------------------
(* The inductive invariant                                                 *)

\* An update has data: see the README for what one of size 0 leads to.
NoEmptyUpdate == 0 \notin Sizes

\* An erase is not interrupted between two of its sectors.  (A region of one sector has
\* no such moment.)
WholeErase == pc = "erase" /\ index > 0 => pc' \in {"erase", "update"}

\* An erase has erased the sectors below index.
EraseInv ==
  pc = "erase" =>
    /\ f.slot = RF_NEED_TO_EMPTY
    /\ index * SectorBlocks < T
    /\ \A w \in Words : w < index * SectorBlocks * A => flash[w] = REGF_UNALLOCATED_BLOCK

\* Except during an erase the region is erased or holds a log.
FlashInv == (pc = "erase" /\ index > 0) \/ AllErased \/ \E s \in Words : Log(s)

\* What the handle says of the flash.
HandleInv ==
  /\ pc \in {"ready", "update"} /\ f.slot = RF_EMPTY => AllErased
  /\ pc \in {"ready", "update", "data"} /\ f.slot >= 0 => Log(f.slot) /\ f = HandleOf(f.slot)
  /\ pc = "ready" => f.slot # RF_NEED_TO_EMPTY
  /\ pc = "ready" /\ f.slot = RF_EMPTY => f = Handle(RF_EMPTY, 0, 0, 0)

UpdateInv == InUpdate => done < version /\ blocks \in Sizes

\* The data of the update in progress is written up to index, and erased from there.
DataInv ==
  pc = "data" =>
    /\ f.slot > 0 /\ f.end = f.begin + blocks /\ index <= blocks
    /\ \A b \in f.begin .. f.begin + index - 1 : \A w \in BlockWords(b) : flash[w] = version
    /\ \A w \in Words : w >= (f.begin + index) * A => flash[w] = REGF_UNALLOCATED_BLOCK

\* When the last update that was started has returned 0, its data is the last of the log.
DoneInv ==
  done = version /\ done > 0 => \E s \in Words : s > 0 /\ Log(s) /\ HoldsData(HandleOf(s), done)

RInv == TypeOK /\ EraseInv /\ FlashInv /\ HandleInv /\ UpdateInv /\ DataInv /\ DoneInv

-----------------------------------------------------------------------------
(* What a write does to the log                                            *)

\* Erased words take the value they are programmed with.
LEMMA ProgramErased ==
  ASSUME FlashType, NEW ws, NEW v \in uint16_t,
         \A w \in Words : w \in ws => flash[w] = REGF_UNALLOCATED_BLOCK
  PROVE  /\ Program(ws, v) \in [Words -> uint16_t]
         /\ \A w \in Words : Program(ws, v)[w] = IF w \in ws THEN v ELSE flash[w]
BY DEF Program, ProgramWord, FlashType

\* The first word of an erased region makes it a log without data.
LEMMA FirstLog ==
  ASSUME FlashType, AllErased, NEW m \in 1 .. T, m < REGF_UNALLOCATED_BLOCK,
         flash' = Program({0}, m)
  PROVE  /\ FlashType' /\ Log(0)' /\ flash'[0] = m
<1>0. /\ A \in Nat /\ A >= 1 /\ T \in Nat /\ T >= 1 /\ REGF_UNALLOCATED_BLOCK \in Nat
      /\ m \in Nat /\ m >= 1 /\ m <= T /\ m \in uint16_t
  BY Geometry DEF uint16_t
<1>1. /\ m * A \in Nat /\ m * A >= 1 /\ m * A <= T * A /\ T * A \in Nat
  <2>1. m * A \in Nat /\ 1 * A <= m * A /\ m * A <= T * A /\ T * A \in Nat
    BY <1>0, Scaled
  <2> QED BY <1>0, <2>1
<1>2. 0 \in Words /\ 0 .. m * A - 1 \subseteq Words
  BY <1>1 DEF Words
<1>3. flash' \in [Words -> uint16_t] /\ \A w \in Words : flash'[w] = IF w = 0 THEN m ELSE flash[w]
  BY <1>0, ProgramErased DEF AllErased
<1>4. flash'[0] = m /\ \A w \in Words : w # 0 => flash'[w] = REGF_UNALLOCATED_BLOCK
  BY <1>2, <1>3 DEF AllErased
<1>5. ASSUME NEW w \in Words, w >= m * A PROVE flash'[w] = REGF_UNALLOCATED_BLOCK
  BY <1>1, <1>4, <1>5 DEF Words
<1>6. ASSUME NEW i \in 1 .. m * A - 1 PROVE flash'[i] = REGF_UNALLOCATED_BLOCK
  BY <1>1, <1>2, <1>4
<1>7. 0 \in 0 .. m * A - 1 /\ 0 + 1 = 1 /\ 1 .. 0 = {}
  BY <1>1
<1> QED BY <1>0, <1>3, <1>4, <1>5, <1>6, <1>7 DEF FlashType, Log

\* commit_data_allocation(): one slot more; the blocks it allocates are erased.
LEMMA NextLog ==
  ASSUME FlashType, NEW s, Log(s), s + 1 < flash[0] * A,
         NEW e \in Nat, flash[s] < e, e <= T, e < REGF_UNALLOCATED_BLOCK,
         flash' = Program({s + 1}, e)
  PROVE  /\ FlashType' /\ Log(s + 1)' /\ s + 1 \in Words
         /\ flash[s + 1] = REGF_UNALLOCATED_BLOCK
         /\ \A w \in Words : flash'[w] # flash[w] => flash[w] = REGF_UNALLOCATED_BLOCK
         /\ flash'[0] = flash[0] /\ flash'[s] = flash[s] /\ flash'[s + 1] = e
         /\ \A w \in Words : w >= flash[s] * A => flash'[w] = REGF_UNALLOCATED_BLOCK
<1>0. /\ A \in Nat /\ A >= 1 /\ T \in Nat /\ REGF_UNALLOCATED_BLOCK \in Nat
      /\ flash[0] \in Nat /\ flash[0] >= 1 /\ flash[0] <= T
      /\ flash[0] < REGF_UNALLOCATED_BLOCK
      /\ s \in Nat /\ flash[0] * A \in Nat /\ s \in Words /\ 0 \in Words
      /\ flash[s] \in Nat /\ flash[0] <= flash[s] /\ flash[0] * A <= flash[s] * A
      /\ flash[s] * A \in Nat /\ e * A \in Nat /\ flash[s] * A <= e * A
  BY Geometry, LogWords, Scaled
<1>1. s + 1 \in s + 1 .. flash[0] * A - 1 /\ s + 1 \in 0 .. flash[0] * A - 1
  BY <1>0
<1>2. s + 1 \in Words /\ flash[s + 1] = REGF_UNALLOCATED_BLOCK /\ e \in uint16_t
  BY <1>0, <1>1, LogWords DEF Log, uint16_t
<1>3. /\ flash' \in [Words -> uint16_t]
      /\ \A w \in Words : flash'[w] = IF w = s + 1 THEN e ELSE flash[w]
  BY <1>2, ProgramErased
<1>4. flash'[0] = flash[0] /\ flash'[s] = flash[s] /\ flash'[s + 1] = e
  <2>1. 0 # s + 1 /\ s # s + 1
    BY <1>0
  <2> QED BY <1>0, <1>2, <1>3, <2>1
<1>5. ASSUME NEW w \in Words, w >= flash[s] * A PROVE flash'[w] = REGF_UNALLOCATED_BLOCK
  <2>1. w # s + 1
    BY <1>0, <1>5 DEF Words
  <2>2. flash[w] = REGF_UNALLOCATED_BLOCK
    BY <1>5 DEF Log
  <2> QED BY <1>3, <2>1, <2>2
<1>6. ASSUME NEW w \in Words, w >= e * A PROVE flash'[w] = REGF_UNALLOCATED_BLOCK
  <2>1. w >= flash[s] * A
    BY <1>0, <1>6 DEF Words
  <2> QED BY <1>5, <2>1
<1>7. ASSUME NEW i \in 1 .. s + 1
      PROVE  /\ flash'[i] \in flash[0] + 1 .. T /\ flash'[i] < REGF_UNALLOCATED_BLOCK
             /\ flash'[i - 1] < flash'[i]
  <2>1. CASE i = s + 1
    BY <1>0, <1>4, <2>1
  <2>2. CASE i # s + 1
    <3>1. i \in 1 .. s /\ i \in Words /\ i - 1 \in Words /\ i # s + 1 /\ i - 1 # s + 1
      <4>1. i \in 1 .. s /\ i \in 0 .. flash[0] * A - 1 /\ i - 1 \in 0 .. flash[0] * A - 1
        BY <1>0, <2>2
      <4> QED BY <1>0, <2>2, <4>1, LogWords
    <3>2. flash'[i] = flash[i] /\ flash'[i - 1] = flash[i - 1]
      BY <1>3, <3>1
    <3> QED BY <3>1, <3>2 DEF Log
  <2> QED BY <2>1, <2>2
<1>8. ASSUME NEW i \in s + 1 + 1 .. flash[0] * A - 1 PROVE flash'[i] = REGF_UNALLOCATED_BLOCK
  <2>1. i \in s + 1 .. flash[0] * A - 1 /\ i # s + 1 /\ i \in 0 .. flash[0] * A - 1
    BY <1>0
  <2>2. i \in Words /\ flash[i] = REGF_UNALLOCATED_BLOCK
    BY <2>1, LogWords DEF Log
  <2> QED BY <1>3, <2>1, <2>2
<1>9. Log(s + 1)'
  <2>1. flash'[0] \in 1 .. T /\ flash'[0] < REGF_UNALLOCATED_BLOCK
    BY <1>0, <1>4
  <2> QED BY <1>1, <1>4, <1>6, <1>7, <1>8, <2>1 DEF Log
<1> QED BY <1>2, <1>3, <1>4, <1>5, <1>9 DEF FlashType

\* commit_data() writes a block of the data of the last slot.
LEMMA DataLog ==
  ASSUME FlashType, NEW s, Log(s), s > 0,
         NEW c \in Nat, flash[s - 1] <= c, c < flash[s], NEW v \in uint16_t,
         \A w \in Words : w >= c * A => flash[w] = REGF_UNALLOCATED_BLOCK,
         flash' = Program(BlockWords(c), v)
  PROVE  /\ FlashType' /\ Log(s)'
         /\ flash'[0] = flash[0] /\ flash'[s - 1] = flash[s - 1] /\ flash'[s] = flash[s]
         /\ \A w \in Words : flash'[w] # flash[w] => flash[w] = REGF_UNALLOCATED_BLOCK
         /\ \A w \in BlockWords(c) : w \in Words /\ flash'[w] = v
         /\ \A w \in Words : w < c * A => flash'[w] = flash[w]
         /\ \A w \in Words : w >= (c + 1) * A => flash'[w] = REGF_UNALLOCATED_BLOCK
<1>0. /\ A \in Nat /\ A >= 1 /\ T \in Nat /\ REGF_UNALLOCATED_BLOCK \in Nat
      /\ flash[0] \in Nat /\ flash[0] >= 1 /\ flash[0] <= T /\ flash[0] < REGF_UNALLOCATED_BLOCK
      /\ s \in Nat /\ s < flash[0] * A /\ flash[0] * A \in Nat /\ s \in Words /\ 0 \in Words
      /\ flash[s] \in Nat /\ flash[s] <= T /\ flash[s - 1] \in Nat /\ flash[0] <= flash[s - 1]
  BY Geometry, LogWords
<1>1. /\ c * A \in Nat /\ (c + 1) * A \in Nat /\ flash[s] * A \in Nat
      /\ flash[0] * A <= c * A /\ (c + 1) * A <= flash[s] * A /\ c * A <= (c + 1) * A
  <2>1. c + 1 \in Nat /\ flash[0] <= c /\ c + 1 <= flash[s] /\ c <= c + 1
    BY <1>0
  <2> QED BY <1>0, <2>1, Scaled
<1>2. ASSUME NEW w \in BlockWords(c) PROVE w \in Words /\ c * A <= w /\ w < (c + 1) * A
  <2>1. w \in Nat /\ c * A <= w /\ w < (c + 1) * A /\ w < T * A
    <3>1. c + 1 \in Nat /\ c < c + 1 /\ c < T /\ c <= c
      BY <1>0
    <3> QED BY <1>0, <3>1, InBlock
  <2>2. T * A \in Nat
    BY <1>0, Scaled
  <2> QED BY <2>1, <2>2 DEF Words
<1>3. /\ flash' \in [Words -> uint16_t]
      /\ \A w \in Words : flash'[w] = IF w \in BlockWords(c) THEN v ELSE flash[w]
  <2>1. \A w \in Words : w \in BlockWords(c) => flash[w] = REGF_UNALLOCATED_BLOCK
    BY <1>2
  <2> QED BY <2>1, ProgramErased
<1>4. ASSUME NEW w \in Words, w < c * A PROVE flash'[w] = flash[w]
  <2>1. w \notin BlockWords(c)
    BY <1>1, <1>2, <1>4 DEF Words
  <2> QED BY <1>3, <2>1
<1>5. ASSUME NEW w \in Words, w >= (c + 1) * A PROVE flash'[w] = REGF_UNALLOCATED_BLOCK
  <2>1. w \notin BlockWords(c)
    BY <1>1, <1>2, <1>5 DEF Words
  <2>2. w >= c * A
    BY <1>1, <1>5 DEF Words
  <2> QED BY <1>3, <2>1, <2>2
<1>6. ASSUME NEW i \in 0 .. flash[0] * A - 1 PROVE i \in Words /\ flash'[i] = flash[i]
  <2>1. i \in Words
    BY LogWords
  <2>2. i < c * A
    BY <1>0, <1>1
  <2> QED BY <1>4, <2>1, <2>2
<1>7. flash'[0] = flash[0] /\ flash'[s - 1] = flash[s - 1] /\ flash'[s] = flash[s]
  <2>1. 0 \in 0 .. flash[0] * A - 1 /\ s \in 0 .. flash[0] * A - 1 /\ s - 1 \in 0 .. flash[0] * A - 1
    BY <1>0
  <2> QED BY <1>6, <2>1
<1>8. Log(s)'
  <2>1. \A i \in 1 .. s : flash'[i] = flash[i] /\ flash'[i - 1] = flash[i - 1]
    <3> SUFFICES ASSUME NEW i \in 1 .. s PROVE flash'[i] = flash[i] /\ flash'[i - 1] = flash[i - 1]
      OBVIOUS
    <3>1. i \in 0 .. flash[0] * A - 1 /\ i - 1 \in 0 .. flash[0] * A - 1
      BY <1>0
    <3> QED BY <1>6, <3>1
  <2>2. \A i \in s + 1 .. flash[0] * A - 1 : flash'[i] = flash[i]
    <3> SUFFICES ASSUME NEW i \in s + 1 .. flash[0] * A - 1 PROVE flash'[i] = flash[i]
      OBVIOUS
    <3>1. i \in 0 .. flash[0] * A - 1
      BY <1>0
    <3> QED BY <1>6, <3>1
  <2>3. ASSUME NEW w \in Words, w >= flash[s] * A PROVE flash'[w] = REGF_UNALLOCATED_BLOCK
    <3>1. w >= (c + 1) * A
      BY <1>1, <2>3 DEF Words
    <3> QED BY <1>5, <3>1
  <2> QED BY <1>7, <2>1, <2>2, <2>3 DEF Log
<1>9. \A w \in Words : flash'[w] # flash[w] => flash[w] = REGF_UNALLOCATED_BLOCK
  BY <1>2, <1>3
<1> QED BY <1>2, <1>3, <1>4, <1>5, <1>7, <1>8, <1>9 DEF FlashType

-----------------------------------------------------------------------------
(* Steps                                                                   *)

Handles == [slot : RF_FATAL .. T * A, meta : 0 .. T, begin : uint16_t, end : uint16_t]

\* The handle of a log points into the region.
LEMMA HandleFacts ==
  ASSUME NEW s, Log(s)
  PROVE  /\ HandleOf(s) \in Handles
         /\ HandleOf(s).slot = s /\ HandleOf(s).meta = flash[0] /\ HandleOf(s).end = flash[s]
         /\ s > 0 => HandleOf(s).begin = flash[s - 1]
         /\ HandleOf(s).slot < HandleOf(s).meta * A /\ HandleOf(s).end <= T
<1>1. /\ flash[0] \in 0 .. T /\ flash[0] \in uint16_t /\ flash[s] \in uint16_t
      /\ (s > 0 => flash[s - 1] \in uint16_t)
      /\ s \in RF_FATAL .. T * A /\ s \in Nat /\ s < flash[0] * A /\ flash[s] <= T
  <2>1. T * A \in Nat /\ flash[0] * A \in Nat
    BY Scaled, LogWords, Geometry
  <2> QED BY <2>1, LogWords, Geometry DEF uint16_t, RF_FATAL
<1>2. CASE s = 0
  <2>1. HandleOf(s) = [slot |-> 0, meta |-> flash[0], begin |-> flash[0], end |-> flash[0]]
    BY <1>2 DEF HandleOf, Handle
  <2> QED BY <1>1, <1>2, <2>1 DEF Handles
<1>3. CASE s > 0
  <2>1. HandleOf(s) = [slot |-> s, meta |-> flash[0], begin |-> flash[s - 1], end |-> flash[s]]
    BY <1>1, <1>3 DEF HandleOf, Handle
  <2> QED BY <1>1, <1>3, <2>1 DEF Handles
<1> QED BY <1>1, <1>2, <1>3

\* The same, as a formula about the state.
InRegion ==
  \A s : Log(s) => /\ HandleOf(s) \in Handles
                   /\ HandleOf(s).slot < HandleOf(s).meta * A /\ HandleOf(s).end <= T

LEMMA LogsInRegion == InRegion
BY HandleFacts DEF InRegion

\* A handle that is not in use is of the right type, too.
LEMMA NoLogHandle ==
  ASSUME NEW x \in {RF_EMPTY, RF_FATAL}
  PROVE  Handle(x, 0, 0, 0) \in Handles /\ Handle(x, 0, 0, 0).slot = x /\ x < 0
<1>1. T * A \in Nat
  BY Scaled, Geometry
<1> QED BY <1>1, Geometry DEF Handle, Handles, RF_EMPTY, RF_FATAL, uint16_t

LEMMA FailedHandle ==
  ASSUME NEW h \in Handles
  PROVE  [h EXCEPT !.slot = RF_FATAL] \in Handles /\ [h EXCEPT !.slot = RF_FATAL].slot = RF_FATAL
<1>1. T * A \in Nat
  BY Scaled, Geometry
<1> QED BY <1>1 DEF Handles, RF_FATAL

LEMMA InitHolds == Init => RInv
<1> SUFFICES ASSUME Init PROVE RInv
  OBVIOUS
<1>1. TypeOK
  <2>1. f \in Handles /\ f.slot = RF_FATAL /\ RF_FATAL < 0
    BY NoLogHandle DEF Init
  <2>2. flash \in [Words -> uint16_t]
    BY Geometry DEF Init, uint16_t
  <2> QED BY <2>1, <2>2, Geometry DEF Init, TypeOK, Handles, RF_ONLY_METADATA
<1>2. AllErased
  BY DEF Init, AllErased
<1> QED BY <1>1, <1>2
     DEF Init, RInv, EraseInv, FlashInv, HandleInv, UpdateInv, InUpdate, DataInv, DoneInv

\* What is found after a reset.
LEMMA StartStep == RInv /\ Start => RInv'
<1> SUFFICES ASSUME RInv, Start PROVE RInv'
  OBVIOUS
<1>1. /\ pc = "off" /\ pc' = "ready" /\ flash' = flash /\ blocks' = blocks /\ index' = index
      /\ version' = version /\ done' = done /\ faults' \in 0 .. MaxFaults
  BY Geometry DEF Start, Fault, RInv, TypeOK
<1>2. FlashInv'
  BY <1>1 DEF RInv, FlashInv, AllErased, Log
<1>3. DoneInv'
  BY <1>1 DEF RInv, DoneInv, Log, HandleOf, HoldsData
<1>4. CASE f' = Handle(RF_FATAL, 0, 0, 0)
  <2>1. f' \in Handles /\ f'.slot = RF_FATAL
    BY <1>4, NoLogHandle
  <2>2. TypeOK'
    BY <1>1, <2>1 DEF RInv, TypeOK, Handles, RF_FATAL, RF_ONLY_METADATA
  <2> QED BY <1>1, <1>2, <1>3, <2>1, <2>2
       DEF RInv, EraseInv, HandleInv, UpdateInv, InUpdate, DataInv, RF_FATAL, RF_EMPTY, RF_NEED_TO_EMPTY
<1>5. CASE f' = region_file_init /\ AllErased
  <2>1. 0 \in Words
    <3>1. T * A \in Nat /\ 1 * A <= T * A
      BY Scaled, Geometry
    <3> QED BY <3>1, Geometry DEF Words
  <2>2. f' = Handle(RF_EMPTY, 0, 0, 0)
    BY <1>5, <2>1, InitFindsNothing DEF AllErased
  <2>3. f' \in Handles /\ f'.slot = RF_EMPTY
    BY <2>2, NoLogHandle
  <2>4. TypeOK'
    BY <1>1, <2>3 DEF RInv, TypeOK, Handles, RF_EMPTY, RF_ONLY_METADATA
  <2>5. AllErased'
    BY <1>1, <1>5 DEF AllErased
  <2> QED BY <1>1, <1>2, <1>3, <2>2, <2>3, <2>4, <2>5
       DEF RInv, EraseInv, HandleInv, UpdateInv, InUpdate, DataInv, RF_EMPTY, RF_NEED_TO_EMPTY
<1>6. CASE f' = region_file_init /\ \E s \in Words : Log(s)
  <2>1. PICK s \in Words : Log(s)
    BY <1>6
  <2>2. f' = HandleOf(s)
    BY <1>6, <2>1, InitFindsLog
  <2>3. /\ f' \in Handles /\ f'.slot = s /\ f'.slot < f'.meta * A /\ f'.end <= T /\ s \in Nat
    BY <2>1, <2>2, HandleFacts, LogWords
  <2>4. TypeOK'
    BY <1>1, <2>3 DEF RInv, TypeOK, Handles
  <2>5. Log(f.slot)' /\ f' = HandleOf(f.slot)'
    BY <1>1, <2>1, <2>2, <2>3 DEF Log, HandleOf
  <2> QED BY <1>1, <1>2, <1>3, <2>3, <2>4, <2>5
       DEF RInv, EraseInv, HandleInv, UpdateInv, InUpdate, DataInv, RF_EMPTY, RF_NEED_TO_EMPTY
<1> QED BY <1>1, <1>4, <1>5, <1>6 DEF Start, RInv, FlashInv

\* Steps that leave flash and log alone and end with a handle that is not in use.
LEMMA EndStep ==
  ASSUME RInv, ~(pc = "erase" /\ index > 0), UNCHANGED <<flash, blocks, version, done>>,
         index' \in Nat, faults' \in 0 .. MaxFaults,
         \/ pc' = "off" /\ f' = f
         \/ pc' = "ready" /\ f' = [f EXCEPT !.slot = RF_FATAL]
  PROVE  RInv'
<1>1. FlashInv'
  BY DEF RInv, FlashInv, AllErased, Log
<1>2. DoneInv'
  BY DEF RInv, DoneInv, Log, HandleOf, HoldsData
<1>3. f \in Handles
  BY DEF RInv, TypeOK, Handles
<1>4. CASE pc' = "off" /\ f' = f
  <2>1. TypeOK'
    BY <1>4 DEF RInv, TypeOK
  <2> QED BY <1>1, <1>2, <1>4, <2>1 DEF RInv, EraseInv, HandleInv, UpdateInv, InUpdate, DataInv
<1>5. CASE pc' = "ready" /\ f' = [f EXCEPT !.slot = RF_FATAL]
  <2>1. f' \in Handles /\ f'.slot = RF_FATAL
    BY <1>3, <1>5, FailedHandle
  <2>2. TypeOK'
    BY <1>5, <2>1 DEF RInv, TypeOK, Handles, RF_FATAL, RF_ONLY_METADATA
  <2> QED BY <1>1, <1>2, <1>5, <2>1, <2>2
       DEF RInv, EraseInv, HandleInv, UpdateInv, InUpdate, DataInv, RF_FATAL, RF_EMPTY, RF_NEED_TO_EMPTY
<1> QED BY <1>4, <1>5

\* The user starts an update.
LEMMA UpdateStep ==
  ASSUME RInv, NEW size \in Sizes, region_file_update_data(size)
  PROVE  RInv'
<1>1. /\ pc = "ready" /\ pc' = "update" /\ flash' = flash /\ f' = f /\ index' = index
      /\ done' = done /\ faults' = faults /\ blocks' = size /\ version' = version + 1
      /\ version < MaxUpdates
  BY DEF region_file_update_data
<1>2. version \in 0 .. MaxUpdates /\ done \in 0 .. version /\ MaxUpdates \in Nat
  BY Geometry DEF RInv, TypeOK
<1>3. version' \in 0 .. MaxUpdates /\ done' \in 0 .. version' /\ done' < version'
  BY <1>1, <1>2
<1>4. TypeOK'
  BY <1>1, <1>3 DEF RInv, TypeOK
<1>5. FlashInv' /\ HandleInv'
  BY <1>1 DEF RInv, FlashInv, HandleInv, AllErased, Log, HandleOf
<1>6. UpdateInv' /\ DoneInv'
  BY <1>1, <1>3 DEF UpdateInv, DoneInv
<1> QED BY <1>1, <1>4, <1>5, <1>6 DEF RInv, EraseInv, DataInv

\* The update in progress has a size.
LEMMA BlocksInUse ==
  ASSUME NoEmptyUpdate, RInv, InUpdate
  PROVE  blocks \in Nat /\ blocks >= 1
<1>1. blocks \in Sizes /\ 0 \notin Sizes
  BY DEF RInv, UpdateInv, NoEmptyUpdate
<1>2. blocks \in Nat /\ blocks # 0
  BY <1>1, Geometry
<1> QED BY <1>2

\* handle_empty() writes the first word of an erased region.
LEMMA EmptyWrites ==
  ASSUME NoEmptyUpdate, RInv, pc = "update", f.slot = RF_EMPTY, blocks <= T - 1,
         flash' = Program({0}, MetadataBlocks(blocks))
  PROVE  /\ AllErased /\ FlashType' /\ Log(0)' /\ flash'[0] = MetadataBlocks(blocks)
         /\ MetadataBlocks(blocks) \in 1 .. T
<1>1. AllErased /\ FlashType
  BY DEF RInv, HandleInv, TypeOK, FlashType
<1>2. blocks \in Nat /\ blocks >= 1
  BY BlocksInUse DEF InUpdate
<1>3. MetadataBlocks(blocks) \in 1 .. T /\ MetadataBlocks(blocks) < REGF_UNALLOCATED_BLOCK
  BY <1>2, MetadataFits
<1>4. PICK m : m = MetadataBlocks(blocks)
  OBVIOUS
<1>5. FlashType' /\ Log(0)' /\ flash'[0] = m
  BY <1>1, <1>3, <1>4, FirstLog
<1> QED BY <1>1, <1>3, <1>4, <1>5

LEMMA EmptyStep ==
  ASSUME NoEmptyUpdate, RInv, HandleEmpty
  PROVE  RInv'
<1>1. /\ pc = "update" /\ f.slot = RF_EMPTY /\ UNCHANGED <<blocks, index, version, done>>
      /\ faults' \in 0 .. MaxFaults
  BY Geometry DEF HandleEmpty, Fault, RInv, TypeOK
<1>2. done' < version' /\ blocks' \in Sizes /\ f \in Handles
  BY <1>1 DEF RInv, UpdateInv, InUpdate, TypeOK, Handles
<1>3. CASE flash' = flash /\ Fail
  <2>1. index' \in Nat
    BY <1>1 DEF RInv, TypeOK
  <2> QED BY <1>1, <1>3, <2>1, EndStep DEF Fail
<1>4. CASE blocks <= T - 1 /\ flash' = Program({0}, MetadataBlocks(blocks))
  <2>1. /\ FlashType' /\ Log(0)' /\ flash'[0] = MetadataBlocks(blocks)
        /\ MetadataBlocks(blocks) \in 1 .. T
    BY <1>1, <1>4, EmptyWrites
  <2>2. 0 \in Words
    <3>1. T * A \in Nat /\ 1 * A <= T * A
      BY Scaled, Geometry
    <3> QED BY <3>1, Geometry DEF Words
  <2>3. FlashInv'
    BY <2>1, <2>2 DEF FlashInv
  <2>4. DoneInv'
    BY <1>1, <1>2, Geometry DEF DoneInv, RInv, TypeOK
  <2>5. CASE Fail
    <3>1. f' \in Handles /\ f'.slot = RF_FATAL
      BY <1>2, <2>5, FailedHandle DEF Fail
    <3>2. TypeOK'
      BY <1>1, <2>1, <2>5, <3>1
         DEF RInv, TypeOK, FlashType, Handles, RF_FATAL, RF_ONLY_METADATA, Fail
    <3> QED BY <1>1, <2>3, <2>4, <2>5, <3>1, <3>2
         DEF RInv, EraseInv, HandleInv, UpdateInv, InUpdate, DataInv, RF_FATAL, RF_EMPTY,
             RF_NEED_TO_EMPTY, Fail
  <2>6. CASE f' = Handle(RF_ONLY_METADATA, MetadataBlocks(blocks), MetadataBlocks(blocks),
                         MetadataBlocks(blocks)) /\ pc' = pc
    <3>1. f' = HandleOf(0)'
      BY <2>1, <2>6 DEF HandleOf, RF_ONLY_METADATA
    <3>2. f'.slot = 0 /\ f'.meta = MetadataBlocks(blocks)
      BY <2>6 DEF Handle, RF_ONLY_METADATA
    <3>3. f' \in Handles /\ f'.slot < f'.meta * A /\ f'.end <= T
      <4> DEFINE m == MetadataBlocks(blocks)
      <4>1. m * A \in Nat /\ 1 * A <= m * A /\ T * A \in Nat
        BY <2>1, Scaled, Geometry
      <4>2. m \in uint16_t
        <5>1. m < REGF_UNALLOCATED_BLOCK
          BY <2>1 DEF Log
        <5> QED BY <2>1, <5>1, Geometry DEF uint16_t
      <4>3. f' = [slot |-> 0, meta |-> m, begin |-> m, end |-> m]
        BY <2>6 DEF Handle, RF_ONLY_METADATA
      <4> HIDE DEF m
      <4>4. m \in 1 .. T
        BY <2>1 DEF m
      <4> QED BY <4>1, <4>2, <4>3, <4>4, Geometry DEF Handles, RF_FATAL
    <3>4. TypeOK'
      BY <1>1, <2>1, <2>6, <3>3 DEF RInv, TypeOK, FlashType, Handles
    <3>5. Log(f.slot)' /\ f' = HandleOf(f.slot)'
      BY <2>1, <3>1, <3>2 DEF Log, HandleOf
    <3>6. HandleInv'
      BY <1>1, <2>6, <3>2, <3>5 DEF HandleInv, RF_EMPTY, RF_NEED_TO_EMPTY
    <3> QED BY <1>1, <1>2, <2>3, <2>4, <2>6, <3>4, <3>6 DEF RInv, EraseInv, UpdateInv, DataInv
  <2> QED BY <1>1, <1>4, <2>5, <2>6 DEF HandleEmpty
<1> QED BY <1>1, <1>3, <1>4 DEF HandleEmpty

\* The two ways to an erase.
LEMMA ToEraseStep ==
  ASSUME RInv, HandleNeedToEmpty \/ CannotFit
  PROVE  RInv'
<1>1. CASE HandleNeedToEmpty
  <2>1. /\ pc = "update" /\ f.slot = RF_NEED_TO_EMPTY /\ pc' = "erase" /\ index' = 0
        /\ UNCHANGED <<flash, f, blocks, version, done, faults>>
    BY <1>1 DEF HandleNeedToEmpty
  <2>2. TypeOK'
    BY <2>1 DEF RInv, TypeOK
  <2>3. FlashInv' /\ DoneInv'
    BY <2>1 DEF RInv, FlashInv, DoneInv, AllErased, Log, HandleOf, HoldsData
  <2>4. EraseInv'
    <3>1. 0 * SectorBlocks = 0 /\ 0 * SectorBlocks * A = 0
      BY Geometry
    <3> QED BY <2>1, <3>1, Geometry DEF EraseInv, Words
  <2> QED BY <2>1, <2>2, <2>3, <2>4 DEF RInv, HandleInv, UpdateInv, InUpdate, DataInv
<1>2. CASE CannotFit
  <2>1. /\ pc = "update" /\ f' = [f EXCEPT !.slot = RF_NEED_TO_EMPTY]
        /\ UNCHANGED <<flash, pc, blocks, index, version, done, faults>>
    BY <1>2 DEF CannotFit
  <2>2. f' \in Handles /\ f'.slot = RF_NEED_TO_EMPTY
    <3>1. T * A \in Nat /\ f \in Handles
      BY Scaled, Geometry DEF RInv, TypeOK, Handles
    <3> QED BY <2>1, <3>1 DEF Handles, RF_NEED_TO_EMPTY, RF_FATAL
  <2>3. TypeOK'
    BY <2>1, <2>2 DEF RInv, TypeOK, Handles, RF_NEED_TO_EMPTY, RF_ONLY_METADATA
  <2>4. FlashInv' /\ DoneInv'
    BY <2>1 DEF RInv, FlashInv, DoneInv, AllErased, Log, HandleOf, HoldsData
  <2> QED BY <2>1, <2>2, <2>3, <2>4
       DEF RInv, EraseInv, HandleInv, UpdateInv, InUpdate, DataInv, RF_EMPTY, RF_NEED_TO_EMPTY
<1> QED BY <1>1, <1>2

\* Where a sector starts and ends.
LEMMA Sectors ==
  ASSUME NEW i \in Nat, i * SectorBlocks < T
  PROVE  /\ i * SectorBlocks \in Nat /\ (i + 1) * SectorBlocks \in Nat
         /\ (i + 1) * SectorBlocks <= T
         /\ i * SectorBlocks * A \in Nat /\ (i + 1) * SectorBlocks * A \in Nat
         /\ i * SectorBlocks * A <= (i + 1) * SectorBlocks * A
<1> DEFINE k == T \div SectorBlocks
<1>0. SectorBlocks \in Nat /\ SectorBlocks >= 1 /\ T \in Nat /\ A \in Nat /\ A >= 1
  BY Geometry
<1>1. k \in Nat /\ T = SectorBlocks * k
  BY <1>0, GeometryAssumption, SMT
<1> HIDE DEF k
<1>2. i < k
  <2> SUFFICES ASSUME i >= k PROVE FALSE
    BY <1>1
  <2>1. PICK j \in Nat : i = k + j
    <3>1. i = k + (i - k) /\ i - k \in Nat
      BY <1>1
    <3> QED BY <3>1
  <2>2. i * SectorBlocks = SectorBlocks * k + j * SectorBlocks /\ j * SectorBlocks >= 0
    BY <1>0, <1>1, <2>1, SMT
  <2> QED BY <1>0, <1>1, <2>2, SMT
<1>3. PICK j \in Nat : k = i + 1 + j
  <2>1. k = i + 1 + (k - i - 1) /\ k - i - 1 \in Nat
    BY <1>1, <1>2
  <2> QED BY <2>1
<1>4. /\ i * SectorBlocks \in Nat /\ (i + 1) * SectorBlocks \in Nat
      /\ i * SectorBlocks <= (i + 1) * SectorBlocks
  BY <1>0, SMT
<1>5. T = (i + 1) * SectorBlocks + j * SectorBlocks /\ j * SectorBlocks \in Nat
  BY <1>0, <1>1, <1>3, SMT
<1>6. (i + 1) * SectorBlocks <= T
  BY <1>0, <1>4, <1>5
<1> QED BY <1>0, <1>4, <1>6, Scaled

\* One sector more is erased.
LEMMA SectorErased ==
  ASSUME RInv, EraseSector
  PROVE  /\ flash' \in [Words -> uint16_t]
         /\ \A w \in Words : w < index' * SectorBlocks * A => flash'[w] = REGF_UNALLOCATED_BLOCK
         /\ index' = index + 1 /\ index \in Nat /\ index' * SectorBlocks \in Nat
         /\ index' * SectorBlocks <= T
         /\ \A w \in Words : flash'[w] # flash[w] => flash'[w] = REGF_UNALLOCATED_BLOCK
<1>1. /\ pc = "erase" /\ index' = index + 1 /\ index \in Nat /\ index * SectorBlocks < T
      /\ flash \in [Words -> uint16_t]
      /\ \A w \in Words : w < index * SectorBlocks * A => flash[w] = REGF_UNALLOCATED_BLOCK
  BY DEF EraseSector, RInv, EraseInv, TypeOK
<1>2. /\ index' * SectorBlocks \in Nat /\ index' * SectorBlocks <= T
      /\ index * SectorBlocks * A \in Nat /\ index' * SectorBlocks * A \in Nat
  BY <1>1, Sectors
<1>3. /\ flash' \in [Words -> uint16_t]
      /\ \A w \in Words : flash'[w] = IF w \in EraseWords(index) THEN REGF_UNALLOCATED_BLOCK
                                      ELSE flash[w]
  BY <1>1, Geometry DEF EraseSector, uint16_t
<1>4. ASSUME NEW w \in Words, w < index' * SectorBlocks * A
      PROVE  flash'[w] = REGF_UNALLOCATED_BLOCK
  <2>1. CASE w < index * SectorBlocks * A
    BY <1>1, <1>3, <2>1
  <2>2. CASE ~(w < index * SectorBlocks * A)
    <3>1. w \in EraseWords(index)
      <4> DEFINE lo == index * SectorBlocks * A
                 hi == (index + 1) * SectorBlocks * A
      <4>1. lo \in Nat /\ hi \in Nat /\ w \in Nat /\ ~(w < lo) /\ w < hi
        BY <1>1, <1>2, <1>4, <2>2 DEF Words
      <4>2. EraseWords(index) = lo .. hi - 1
        BY DEF EraseWords
      <4> HIDE DEF lo, hi
      <4> QED BY <4>1, <4>2
    <3> QED BY <1>3, <3>1
  <2> QED BY <2>1, <2>2
<1> QED BY <1>1, <1>2, <1>3, <1>4

LEMMA EraseStep ==
  ASSUME RInv, EraseSector
  PROVE  RInv'
<1>1. /\ pc = "erase" /\ index' = index + 1 /\ index \in Nat /\ f.slot = RF_NEED_TO_EMPTY
      /\ UNCHANGED <<blocks, version, done, faults>>
      /\ done < version /\ blocks \in Sizes /\ version \in Nat /\ done \in Nat
  BY Geometry DEF EraseSector, RInv, EraseInv, TypeOK, UpdateInv, InUpdate
<1>2. /\ flash' \in [Words -> uint16_t]
      /\ \A w \in Words : w < index' * SectorBlocks * A => flash'[w] = REGF_UNALLOCATED_BLOCK
      /\ index' * SectorBlocks \in Nat /\ index' * SectorBlocks <= T
  BY SectorErased
<1>3. DoneInv'
  BY <1>1 DEF DoneInv
<1>4. CASE (index + 1) * SectorBlocks = T
  <2>1. f' = [f EXCEPT !.slot = RF_EMPTY] /\ pc' = "update"
    BY <1>4 DEF EraseSector
  <2>2. f' \in Handles /\ f'.slot = RF_EMPTY
    <3>1. T * A \in Nat /\ f \in Handles
      BY Scaled, Geometry DEF RInv, TypeOK, Handles
    <3> QED BY <2>1, <3>1 DEF Handles, RF_EMPTY, RF_FATAL
  <2>3. TypeOK'
    BY <1>1, <1>2, <2>1, <2>2 DEF RInv, TypeOK, Handles, RF_EMPTY, RF_ONLY_METADATA
  <2>4. AllErased'
    <3>1. T * A \in Nat /\ index' * SectorBlocks * A = T * A
      BY <1>1, <1>4, Scaled, Geometry
    <3> QED BY <1>2, <3>1 DEF AllErased, Words
  <2> QED BY <1>1, <1>3, <2>1, <2>2, <2>3, <2>4
       DEF RInv, EraseInv, FlashInv, HandleInv, UpdateInv, DataInv, RF_EMPTY
<1>5. CASE (index + 1) * SectorBlocks # T
  <2>1. f' = f /\ pc' = pc
    BY <1>5 DEF EraseSector
  <2>2. TypeOK'
    BY <1>1, <1>2, <2>1 DEF RInv, TypeOK
  <2>3. index' * SectorBlocks < T /\ index' > 0
    BY <1>1, <1>2, <1>5, Geometry
  <2> QED BY <1>1, <1>2, <1>3, <2>1, <2>2, <2>3
       DEF RInv, EraseInv, FlashInv, HandleInv, UpdateInv, DataInv
<1> QED BY <1>4, <1>5

\* commit_data_allocation() appends a slot for the data.
LEMMA Allocates ==
  ASSUME NoEmptyUpdate, RInv, pc = "update", f.slot >= RF_ONLY_METADATA, update_can_fit(blocks),
         flash' = Program({f.slot + 1}, f.end + blocks), NEW s, s = f.slot
  PROVE  /\ FlashType' /\ Log(s + 1)' /\ s + 1 \in Words /\ s \in Nat
         /\ \A w \in Words : flash'[w] # flash[w] => flash[w] = REGF_UNALLOCATED_BLOCK
         /\ f.meta = flash[0] /\ f.end = flash[s] /\ f.end \in Nat /\ f.end < T
         /\ flash'[0] = f.meta /\ flash'[s] = f.end /\ flash'[s + 1] = f.end + blocks
         /\ \A w \in Words : w >= f.end * A => flash'[w] = REGF_UNALLOCATED_BLOCK
<1>1. Log(s) /\ f = HandleOf(s) /\ FlashType
  BY DEF RInv, HandleInv, TypeOK, FlashType, RF_ONLY_METADATA
<1>2. f.meta = flash[0] /\ f.end = flash[s]
  BY <1>1, HandleFacts
<1>3. blocks \in Nat /\ blocks >= 1
  BY BlocksInUse DEF InUpdate
<1>4. flash[s] \in Nat /\ s \in Nat /\ T \in Nat /\ REGF_UNALLOCATED_BLOCK \in Nat
  BY <1>1, LogWords, Geometry
<1>5. PICK e : e = f.end + blocks
  OBVIOUS
<1>6. /\ e \in Nat /\ flash[s] < e /\ e <= T /\ e < REGF_UNALLOCATED_BLOCK
      /\ s + 1 < flash[0] * A
  BY <1>2, <1>3, <1>4, <1>5 DEF update_can_fit
<1>7. flash' = Program({s + 1}, e)
  BY <1>5
<1>8. /\ FlashType' /\ Log(s + 1)' /\ s + 1 \in Words
      /\ \A w \in Words : flash'[w] # flash[w] => flash[w] = REGF_UNALLOCATED_BLOCK
      /\ flash'[0] = flash[0] /\ flash'[s] = flash[s] /\ flash'[s + 1] = e
      /\ \A w \in Words : w >= flash[s] * A => flash'[w] = REGF_UNALLOCATED_BLOCK
  BY <1>1, <1>6, <1>7, NextLog
<1>9. f.end < T
  BY <1>2, <1>4, <1>6
<1> QED BY <1>2, <1>4, <1>5, <1>8, <1>9

LEMMA AllocationStep ==
  ASSUME NoEmptyUpdate, RInv, CommitAllocation
  PROVE  RInv'
<1>1. /\ pc = "update" /\ f.slot >= RF_ONLY_METADATA /\ update_can_fit(blocks)
      /\ index' = 0 /\ UNCHANGED <<blocks, version, done>> /\ faults' \in 0 .. MaxFaults
  BY Geometry DEF CommitAllocation, Fault, RInv, TypeOK
<1>2. done' < version' /\ blocks' \in Sizes /\ f \in Handles /\ blocks \in Nat
  BY <1>1, Geometry DEF RInv, UpdateInv, InUpdate, TypeOK, Handles
<1>3. CASE flash' = flash /\ Fail
  BY <1>1, <1>3, EndStep DEF Fail
<1>4. CASE flash' = Program({f.slot + 1}, f.end + blocks)
  <2>0. PICK s : s = f.slot
    OBVIOUS
  <2>1. /\ FlashType' /\ Log(s + 1)' /\ s + 1 \in Words /\ s \in Nat
        /\ f.meta = flash[0] /\ f.end = flash[s] /\ f.end \in Nat
        /\ flash'[0] = f.meta /\ flash'[s] = f.end /\ flash'[s + 1] = f.end + blocks
        /\ \A w \in Words : w >= f.end * A => flash'[w] = REGF_UNALLOCATED_BLOCK
    BY <1>1, <1>4, <2>0, Allocates
  <2>2. FlashInv'
    BY <2>1 DEF FlashInv
  <2>3. DoneInv'
    BY <1>1, <1>2, Geometry DEF DoneInv, RInv, TypeOK
  <2>4. CASE Fail
    <3>1. f' \in Handles /\ f'.slot = RF_FATAL
      BY <1>2, <2>4, FailedHandle DEF Fail
    <3>2. TypeOK'
      BY <1>1, <2>1, <2>4, <3>1
         DEF RInv, TypeOK, FlashType, Handles, RF_FATAL, RF_ONLY_METADATA, Fail
    <3> QED BY <1>1, <2>2, <2>3, <2>4, <3>1, <3>2
         DEF RInv, EraseInv, HandleInv, UpdateInv, InUpdate, DataInv, RF_FATAL, RF_EMPTY,
             RF_NEED_TO_EMPTY, Fail
  <2>5. CASE f' = Handle(f.slot + 1, f.meta, f.end, f.end + blocks) /\ pc' = "data"
    <3>1. s + 1 # 0 /\ (s + 1) - 1 = s /\ s + 1 > 0 /\ s + 1 >= 0
      BY <2>1
    <3>2. f' = HandleOf(s + 1)'
      BY <2>0, <2>1, <2>5, <3>1 DEF HandleOf
    <3>3. f'.slot = s + 1 /\ f'.begin = f.end /\ f'.end = f.end + blocks
      BY <2>0, <2>5 DEF Handle
    <3>4. f' \in Handles /\ f'.slot < f'.meta * A /\ f'.end <= T
      <4>1. InRegion'
        BY LogsInRegion, PTL
      <4> QED BY <2>1, <3>2, <4>1 DEF InRegion
    <3>5. TypeOK'
      BY <1>1, <2>1, <2>5, <3>4 DEF RInv, TypeOK, FlashType, Handles
    <3>6. Log(f.slot)' /\ f' = HandleOf(f.slot)'
      BY <2>1, <3>2, <3>3 DEF Log, HandleOf
    <3>7. HandleInv'
      BY <2>5, <3>6 DEF HandleInv
    <3>8. DataInv'
      <4>1. f'.slot > 0 /\ f'.end = f'.begin + blocks' /\ index' <= blocks'
        BY <1>1, <1>2, <3>1, <3>3
      <4>2. f'.begin + index' = f'.begin /\ f'.begin .. f'.begin + index' - 1 = {}
        BY <1>1, <2>1, <3>3
      <4> QED BY <2>1, <3>3, <4>1, <4>2 DEF DataInv
    <3> QED BY <1>1, <1>2, <2>2, <2>3, <2>5, <3>5, <3>7, <3>8 DEF RInv, EraseInv, UpdateInv
  <2> QED BY <1>1, <1>4, <2>4, <2>5 DEF CommitAllocation
<1> QED BY <1>1, <1>3, <1>4 DEF CommitAllocation

\* commit_data() writes a block of the data.
LEMMA WritesData ==
  ASSUME RInv, CommitData, NEW s, s = f.slot
  PROVE  /\ FlashType' /\ Log(s)' /\ Log(s) /\ s \in Words /\ s > 0 /\ f = HandleOf(s)'
         /\ f.begin = flash[s - 1] /\ f.end = flash[s]
         /\ f.begin \in Nat /\ f.end \in Nat /\ f.end <= T /\ blocks \in Nat /\ index \in Nat
         /\ version \in Nat /\ version < REGF_UNALLOCATED_BLOCK
         /\ \A w \in Words : flash'[w] # flash[w] => flash[w] = REGF_UNALLOCATED_BLOCK
         /\ \A b \in f.begin .. f.begin + index : \A w \in BlockWords(b) : flash'[w] = version
         /\ \A w \in Words : w >= (f.begin + index + 1) * A => flash'[w] = REGF_UNALLOCATED_BLOCK
<1>1. /\ pc = "data" /\ index < blocks /\ flash' = Program(BlockWords(f.begin + index), version)
      /\ s > 0 /\ f.end = f.begin + blocks /\ FlashType
      /\ \A b \in f.begin .. f.begin + index - 1 : \A w \in BlockWords(b) : flash[w] = version
      /\ \A w \in Words : w >= (f.begin + index) * A => flash[w] = REGF_UNALLOCATED_BLOCK
      /\ index \in Nat /\ version \in 0 .. MaxUpdates
  BY DEF CommitData, RInv, DataInv, TypeOK, FlashType
<1>2. Log(s) /\ f = HandleOf(s)
  <2>1. s >= 0
    BY <1>1 DEF RInv, TypeOK, RF_FATAL
  <2> QED BY <1>1, <2>1 DEF RInv, HandleInv
<1>3. /\ f.begin = flash[s - 1] /\ f.end = flash[s] /\ s \in Nat /\ s \in Words
      /\ flash[s] \in Nat /\ flash[s - 1] \in Nat /\ flash[0] <= flash[s - 1] /\ flash[s] <= T
      /\ flash[0] \in Nat
  BY <1>1, <1>2, HandleFacts, LogWords
<1>4. /\ blocks \in Nat /\ version \in Nat /\ version < REGF_UNALLOCATED_BLOCK
      /\ version \in uint16_t
  BY <1>1, Geometry DEF RInv, TypeOK, uint16_t
<1>5. PICK c : c = f.begin + index
  OBVIOUS
<1>6. PICK v : v = version
  OBVIOUS
<1>7. c \in Nat /\ flash[s - 1] <= c /\ c < flash[s]
  BY <1>1, <1>3, <1>4, <1>5
<1>8. /\ FlashType' /\ Log(s)'
      /\ flash'[0] = flash[0] /\ flash'[s - 1] = flash[s - 1] /\ flash'[s] = flash[s]
      /\ \A w \in Words : flash'[w] # flash[w] => flash[w] = REGF_UNALLOCATED_BLOCK
      /\ \A w \in BlockWords(c) : w \in Words /\ flash'[w] = v
      /\ \A w \in Words : w < c * A => flash'[w] = flash[w]
      /\ \A w \in Words : w >= (c + 1) * A => flash'[w] = REGF_UNALLOCATED_BLOCK
  BY <1>1, <1>2, <1>4, <1>5, <1>6, <1>7, DataLog
<1>9. ASSUME NEW b \in f.begin .. f.begin + index, NEW w \in BlockWords(b)
      PROVE  flash'[w] = version
  <2>0. b \in Nat /\ b <= c /\ f.begin <= b /\ T \in Nat /\ A \in Nat
    BY <1>1, <1>3, <1>5, Geometry
  <2>1. CASE b = c
    BY <1>6, <1>8, <1>9, <2>1
  <2>2. CASE b # c
    <3>1. b < c /\ b < T /\ b \in f.begin .. f.begin + index - 1
      BY <1>1, <1>3, <1>5, <1>7, <2>0, <2>2
    <3>2. w \in Nat /\ w < c * A /\ w < T * A
      BY <1>7, <2>0, <3>1, InBlock
    <3>3. w \in Words
      <4>1. T * A \in Nat
        BY <2>0, Scaled
      <4> QED BY <3>2, <4>1 DEF Words
    <3>4. flash[w] = version
      BY <1>1, <3>1
    <3> QED BY <1>8, <3>2, <3>3, <3>4
  <2> QED BY <2>1, <2>2
<1>10. f = HandleOf(s)'
  BY <1>2, <1>8 DEF HandleOf
<1>11. c + 1 = f.begin + index + 1
  BY <1>5
<1> QED BY <1>1, <1>2, <1>3, <1>4, <1>8, <1>9, <1>10, <1>11

LEMMA DataStep ==
  ASSUME RInv, CommitData
  PROVE  RInv'
<1>1. /\ pc = "data" /\ index < blocks /\ index' = index + 1
      /\ UNCHANGED <<f, pc, blocks, version, done, faults>>
  BY DEF CommitData
<1>2. PICK s : s = f.slot
  OBVIOUS
<1>3. /\ FlashType' /\ Log(s)' /\ s \in Words /\ s > 0 /\ f = HandleOf(s)'
      /\ f.begin \in Nat /\ blocks \in Nat /\ index \in Nat /\ version \in Nat
      /\ \A b \in f.begin .. f.begin + index : \A w \in BlockWords(b) : flash'[w] = version
      /\ \A w \in Words : w >= (f.begin + index + 1) * A => flash'[w] = REGF_UNALLOCATED_BLOCK
  BY <1>2, WritesData
<1>4. done < version /\ done \in Nat
  BY <1>1, <1>3 DEF RInv, UpdateInv, InUpdate, TypeOK
<1>5. TypeOK'
  BY <1>1, <1>3 DEF RInv, TypeOK, FlashType
<1>6. Log(f.slot)' /\ f' = HandleOf(f.slot)'
  BY <1>1, <1>2, <1>3 DEF Log, HandleOf
<1>7. HandleInv' /\ FlashInv'
  BY <1>1, <1>3, <1>6 DEF HandleInv, FlashInv
<1>8. UpdateInv' /\ DoneInv'
  BY <1>1, <1>4 DEF RInv, UpdateInv, InUpdate, DoneInv
<1>9. DataInv'
  <2>1. f'.slot > 0 /\ f'.end = f'.begin + blocks' /\ index' <= blocks'
    BY <1>1, <1>3 DEF RInv, DataInv
  <2>2. f'.begin + index' - 1 = f.begin + index /\ f'.begin + index' = f.begin + index + 1
    BY <1>1, <1>3
  <2> QED BY <1>1, <1>3, <2>1, <2>2 DEF DataInv, BlockWords
<1> QED BY <1>1, <1>5, <1>7, <1>8, <1>9 DEF RInv, EraseInv

\* What the update that returns has written.
LEMMA WrittenData ==
  ASSUME RInv, pc = "data", index = blocks
  PROVE  f.slot \in Words /\ f.slot > 0 /\ Log(f.slot) /\ HoldsData(HandleOf(f.slot), version)
<1>1. f.slot > 0 /\ Log(f.slot) /\ f = HandleOf(f.slot)
  <2>1. f.slot > 0 /\ f.slot >= 0
    BY DEF RInv, DataInv, TypeOK, RF_FATAL
  <2> QED BY <2>1 DEF RInv, HandleInv
<1>2. f.slot \in Words
  BY <1>1, LogWords
<1>3. f.end = f.begin + index
  BY DEF RInv, DataInv
<1>4. HoldsData(f, version)
  <2>1. \A b \in f.begin .. f.begin + index - 1 : \A w \in BlockWords(b) : flash[w] = version
    BY DEF RInv, DataInv
  <2>2. f.begin \in Int /\ index \in Int
    BY Geometry DEF RInv, TypeOK, uint16_t
  <2>3. f.end - 1 = f.begin + index - 1
    BY <1>3, <2>2
  <2> QED BY <2>1, <2>3 DEF HoldsData
<1> QED BY <1>1, <1>2, <1>4

LEMMA ReturnStep ==
  ASSUME RInv, UpdateReturns
  PROVE  RInv'
<1>1. /\ pc = "data" /\ index = blocks /\ pc' = "ready" /\ done' = version
      /\ UNCHANGED <<flash, f, blocks, index, version, faults>>
  BY DEF UpdateReturns
<1>2. PICK s : s = f.slot
  OBVIOUS
<1>3. s \in Words /\ s > 0 /\ Log(s) /\ HoldsData(HandleOf(s), version)
  BY <1>1, <1>2, WrittenData
<1>4. Log(s)' /\ HoldsData(HandleOf(s), done)'
  BY <1>1, <1>3 DEF Log, HandleOf, HoldsData
<1>5. TypeOK'
  BY <1>1, Geometry DEF RInv, TypeOK
<1>6. FlashInv' /\ DoneInv'
  BY <1>3, <1>4 DEF FlashInv, DoneInv
<1>7. s \in Nat /\ s # RF_EMPTY /\ s # RF_NEED_TO_EMPTY
  <2>1. s \in Nat
    BY <1>3, LogWords
  <2> QED BY <2>1 DEF RF_EMPTY, RF_NEED_TO_EMPTY
<1>8. HandleInv'
  <2>1. f = HandleOf(f.slot) /\ Log(f.slot)
    BY <1>1, <1>2, <1>7 DEF RInv, HandleInv
  <2>2. Log(f.slot)' /\ f' = HandleOf(f.slot)'
    BY <1>1, <2>1 DEF Log, HandleOf
  <2> QED BY <1>1, <1>2, <1>7, <2>2 DEF HandleInv
<1> QED BY <1>1, <1>5, <1>6, <1>8 DEF RInv, EraseInv, UpdateInv, InUpdate, DataInv

\* Every step, when no erase is interrupted between two sectors.
LEMMA StepInv ==
  ASSUME NoEmptyUpdate, RInv, [Next]_vars, WholeErase \/ UNCHANGED vars
  PROVE  RInv'
<1>1. CASE UNCHANGED vars
  BY <1>1 DEF vars, RInv, TypeOK, EraseInv, FlashInv, HandleInv, UpdateInv, InUpdate, DataInv,
     DoneInv, AllErased, Log, HandleOf, HoldsData
<1>2. CASE HandleFatal \/ EraseFails \/ CommitDataFails \/ PowerFailure
  <2>1. /\ UNCHANGED <<flash, blocks, index, version, done>>
        /\ \/ pc' = "off" /\ f' = f
           \/ pc' = "ready" /\ f' = [f EXCEPT !.slot = RF_FATAL]
    BY <1>2 DEF HandleFatal, EraseFails, CommitDataFails, PowerFailure, Fail
  <2>2. faults' \in 0 .. MaxFaults /\ index' \in Nat
    BY <1>2, <2>1, Geometry
       DEF HandleFatal, EraseFails, CommitDataFails, PowerFailure, Fault, RInv, TypeOK
  <2>3. ~(pc = "erase" /\ index > 0)
    <3>1. pc' # pc
      BY <1>2 DEF HandleFatal, EraseFails, CommitDataFails, PowerFailure, Fail
    <3> QED BY <2>1, <3>1 DEF WholeErase, vars
  <2> QED BY <2>1, <2>2, <2>3, EndStep
<1>3. CASE Start
  BY <1>3, StartStep
<1>4. CASE \E size \in Sizes : region_file_update_data(size)
  BY <1>4, UpdateStep
<1>5. CASE HandleEmpty
  BY <1>5, EmptyStep
<1>6. CASE HandleNeedToEmpty \/ CannotFit
  BY <1>6, ToEraseStep
<1>7. CASE EraseSector
  BY <1>7, EraseStep
<1>8. CASE CommitAllocation
  BY <1>8, AllocationStep
<1>9. CASE CommitData
  BY <1>9, DataStep
<1>10. CASE UpdateReturns
  BY <1>10, ReturnStep
<1>11. CASE Finished
  BY <1>1, <1>11 DEF Finished
<1> QED BY <1>1, <1>2, <1>3, <1>4, <1>5, <1>6, <1>7, <1>8, <1>9, <1>10, <1>11 DEF Next, Step

\* In a region of one sector no erase is interrupted between two sectors.
LEMMA OneSector ==
  ASSUME RInv, SectorBlocks = T
  PROVE  WholeErase
<1>1. ASSUME pc = "erase", index > 0 PROVE FALSE
  <2>1. index \in Nat /\ index * SectorBlocks < T
    BY <1>1 DEF RInv, EraseInv, TypeOK
  <2>2. PICK k \in Nat : index = 1 + k
    <3>1. index = 1 + (index - 1) /\ index - 1 \in Nat
      BY <1>1, <2>1
    <3> QED BY <3>1
  <2>3. index * SectorBlocks = T + k * T /\ k * T >= 0
    BY <2>2, Geometry, SMT
  <2> QED BY <2>1, <2>3, Geometry
<1> QED BY <1>1 DEF WholeErase

-----------------------------------------------------------------------------
(* Theorems                                                                *)

LEMMA Invariant ==
  ASSUME NoEmptyUpdate
  PROVE  /\ Spec /\ [][WholeErase]_vars => []RInv
         /\ SectorBlocks = T => (Spec => []RInv)
<1>1. RInv /\ [Next]_vars /\ [WholeErase]_vars => RInv'
  BY StepInv
<1>2. RInv /\ [Next]_vars /\ SectorBlocks = T => RInv'
  BY StepInv, OneSector
<1>3. Spec /\ [][WholeErase]_vars => []RInv
  BY <1>1, InitHolds, PTL DEF Spec
<1>4. ASSUME SectorBlocks = T PROVE Spec => []RInv
  <2>1. RInv /\ [Next]_vars => RInv'
    BY <1>2, <1>4
  <2> QED BY <2>1, InitHolds, PTL DEF Spec
<1> QED BY <1>3, <1>4

LEMMA Sound == RInv => RegionSound
<1> SUFFICES ASSUME RInv PROVE RegionSound
  OBVIOUS
<1>1. TypeOK
  BY DEF RInv
<1>2. ASSUME pc = "ready", f.slot # RF_FATAL
      PROVE  f.slot = RF_EMPTY \/ f.slot >= 0
  BY <1>2, Geometry DEF RInv, TypeOK, HandleInv, RF_EMPTY, RF_FATAL, RF_NEED_TO_EMPTY
<1>3. 0 \in Words
  <2>1. T * A \in Nat /\ 1 * A <= T * A
    BY Scaled, Geometry
  <2> QED BY <2>1, Geometry DEF Words
<1>4. HandleMatchesFlash
  <2> SUFFICES ASSUME pc = "ready", f.slot # RF_FATAL PROVE f = region_file_init
    BY DEF HandleMatchesFlash
  <2>1. CASE f.slot = RF_EMPTY
    <3>1. flash[0] = REGF_UNALLOCATED_BLOCK /\ f = Handle(RF_EMPTY, 0, 0, 0)
      BY <1>3, <2>1 DEF RInv, HandleInv, AllErased
    <3> QED BY <3>1, InitFindsNothing
  <2>2. CASE f.slot >= 0
    <3>1. Log(f.slot) /\ f = HandleOf(f.slot)
      BY <2>2 DEF RInv, HandleInv
    <3> QED BY <3>1, InitFindsLog
  <2> QED BY <1>2, <2>1, <2>2
<1>5. LatestData
  <2> SUFFICES ASSUME pc = "ready", f.slot # RF_FATAL, done = version, done > 0
               PROVE  f.slot > RF_ONLY_METADATA /\ HoldsData(f, done)
    BY DEF LatestData
  <2>1. PICK s \in Words : s > 0 /\ Log(s) /\ HoldsData(HandleOf(s), done)
    BY DEF RInv, DoneInv
  <2>2. f = HandleOf(s)
    BY <1>4, <2>1, InitFindsLog DEF HandleMatchesFlash
  <2>3. f.slot = s
    BY <2>1, <2>2, HandleFacts
  <2> QED BY <2>1, <2>2, <2>3 DEF RF_ONLY_METADATA
<1> QED BY <1>1, <1>4, <1>5 DEF RegionSound

\* The region file never loses track of itself (region_file_init(), commit_data_allocation(),
\* commit_data()): whatever fails and whenever the power fails, the handle points into the
\* region, is the one a reset would find, and leads to the data of the last update that
\* returned 0 - provided that an update has data and an erase that was begun ends, which
\* needs no proviso when the region is one sector.
THEOREM RegionFileSound ==
  ASSUME NoEmptyUpdate
  PROVE  /\ Spec /\ [][WholeErase]_vars => []RegionSound
         /\ SectorBlocks = T => (Spec => []RegionSound)
<1>1. Spec /\ [][WholeErase]_vars => []RegionSound
  BY Invariant, Sound, PTL
<1>2. ASSUME SectorBlocks = T PROVE Spec => []RegionSound
  <2>1. Spec => []RInv
    BY <1>2, Invariant
  <2> QED BY <2>1, Sound, PTL
<1> QED BY <1>1, <1>2

\* What a step changes: outside of an erase erased words only.
LEMMA WriteOnceStep ==
  ASSUME NoEmptyUpdate, RInv, [Next]_vars, NEW w \in Words, flash'[w] # flash[w]
  PROVE  IF pc = "erase" THEN flash'[w] = REGF_UNALLOCATED_BLOCK
         ELSE flash[w] = REGF_UNALLOCATED_BLOCK
<1>1. flash' # flash
  OBVIOUS
<1>2. CASE HandleEmpty
  <2>1. pc = "update" /\ f.slot = RF_EMPTY
    BY <1>2 DEF HandleEmpty
  <2>2. AllErased
    BY <2>1 DEF RInv, HandleInv
  <2> QED BY <2>1, <2>2 DEF AllErased
<1>3. CASE EraseSector
  BY <1>3, SectorErased DEF EraseSector
<1>4. CASE CommitAllocation
  <2>1. /\ pc = "update" /\ f.slot >= RF_ONLY_METADATA /\ update_can_fit(blocks)
        /\ flash' = Program({f.slot + 1}, f.end + blocks)
    BY <1>1, <1>4 DEF CommitAllocation
  <2>2. PICK s : s = f.slot
    OBVIOUS
  <2> QED BY <2>1, <2>2, Allocates
<1>5. CASE CommitData
  <2>1. PICK s : s = f.slot
    OBVIOUS
  <2>2. pc = "data"
    BY <1>5 DEF CommitData
  <2> QED BY <1>5, <2>1, <2>2, WritesData
<1> QED BY <1>1, <1>2, <1>3, <1>4, <1>5
     DEF Next, Step, vars, Start, HandleFatal, HandleNeedToEmpty, EraseFails, CannotFit,
         CommitDataFails, UpdateReturns, PowerFailure, Finished, region_file_update_data

\* Flash discipline (commit_data_allocation(), commit_data(), handle_empty()): outside of an
\* erase no word is programmed that is not erased, so no update damages an earlier one.
THEOREM RegionWriteOnce ==
  ASSUME NoEmptyUpdate
  PROVE  /\ Spec /\ [][WholeErase]_vars => WriteOnce
         /\ SectorBlocks = T => (Spec => WriteOnce)
<1> DEFINE Once == \A w \in Words : flash'[w] # flash[w] =>
                     IF pc = "erase" THEN flash'[w] = REGF_UNALLOCATED_BLOCK
                     ELSE flash[w] = REGF_UNALLOCATED_BLOCK
<1>1. RInv /\ [Next]_vars => [Once]_vars
  BY WriteOnceStep
<1>2. WriteOnce <=> [][Once]_vars
  BY DEF WriteOnce
<1> HIDE DEF Once
<1>3. Spec /\ [][WholeErase]_vars => WriteOnce
  BY <1>1, <1>2, Invariant, PTL DEF Spec
<1>4. ASSUME SectorBlocks = T PROVE Spec => WriteOnce
  <2>1. Spec => []RInv
    BY <1>4, Invariant
  <2> QED BY <1>1, <1>2, <2>1, PTL DEF Spec
<1> QED BY <1>3, <1>4

-----------------------------------------------------------------------------
(* The register                                                            *)

\* The data of the last slot s > 0, and what it is when its first block is erased.
DataOf(s) ==
  LET x == flash[flash[s - 1] * A]
  IN IF HoldsData(HandleOf(s), x) /\ x # REGF_UNALLOCATED_BLOCK THEN x ELSE -1

\* What a reset finds: nothing without a slot, torn data while the first block of the last
\* slot is erased, and otherwise the data of that block or torn data.
FindsData ==
  /\ flash[0] = REGF_UNALLOCATED_BLOCK \/ Log(0) => Found = 0
  /\ \A s : s > 0 /\ Log(s) =>
       /\ Found = DataOf(s)
       /\ flash[flash[s - 1] * A] = REGF_UNALLOCATED_BLOCK => Found = -1
       /\ Found \in {-1, flash[flash[s - 1] * A]}
       /\ \A v : HoldsData(HandleOf(s), v) /\ v # REGF_UNALLOCATED_BLOCK => Found = v

LEMMA FoundData == FindsData
<1>1. ASSUME flash[0] = REGF_UNALLOCATED_BLOCK PROVE Found = 0
  BY <1>1, InitFindsNothing DEF Found, Handle, RF_EMPTY, RF_ONLY_METADATA
<1>2. ASSUME Log(0) PROVE Found = 0
  <2>1. region_file_init.slot = 0
    BY <1>2, InitFindsLog, HandleFacts
  <2> QED BY <2>1 DEF Found, RF_ONLY_METADATA
<1>3. ASSUME NEW s, s > 0, Log(s)
      PROVE  /\ Found = DataOf(s)
             /\ flash[flash[s - 1] * A] = REGF_UNALLOCATED_BLOCK => Found = -1
             /\ Found \in {-1, flash[flash[s - 1] * A]}
             /\ \A v : HoldsData(HandleOf(s), v) /\ v # REGF_UNALLOCATED_BLOCK => Found = v
  <2>1. /\ region_file_init = HandleOf(s) /\ HandleOf(s).slot = s
        /\ HandleOf(s).begin = flash[s - 1] /\ HandleOf(s).end = flash[s] /\ s \in Nat
        /\ flash[s - 1] \in Nat /\ flash[s] \in Nat /\ flash[s - 1] < flash[s]
    BY <1>3, InitFindsLog, HandleFacts, LogWords
  <2> DEFINE x == flash[flash[s - 1] * A]
  <2>2. Found = IF HoldsData(HandleOf(s), x) /\ x # REGF_UNALLOCATED_BLOCK THEN x ELSE -1
    BY <1>3, <2>1 DEF Found, RF_ONLY_METADATA
  <2>3. ASSUME NEW v, HoldsData(HandleOf(s), v) PROVE x = v
    <3>1. flash[s - 1] \in HandleOf(s).begin .. HandleOf(s).end - 1
      BY <2>1
    <3>2. flash[s - 1] * A \in BlockWords(flash[s - 1])
      <4>1. flash[s - 1] * A \in Nat
        BY <2>1, Scaled
      <4> QED BY <4>1, Geometry DEF BlockWords
    <3> QED BY <2>3, <3>1, <3>2 DEF HoldsData
  <2> HIDE DEF x
  <2>4. \A v : HoldsData(HandleOf(s), v) /\ v # REGF_UNALLOCATED_BLOCK => Found = v
    BY <2>2, <2>3
  <2>5. Found = DataOf(s)
    BY <2>2 DEF x, DataOf
  <2> QED BY <2>2, <2>4, <2>5 DEF x
<1> QED BY <1>1, <1>2, <1>3 DEF FindsData

\* The first block of the data.
LEMMA FirstWord ==
  ASSUME NEW b \in Nat
  PROVE  b * A \in BlockWords(b) /\ b * A \in Nat /\ (b < T => b * A \in Words)
<1>1. b * A \in Nat /\ T * A \in Nat /\ (b < T => b * A + A <= T * A)
  BY Scaled, Geometry
<1> QED BY <1>1, Geometry DEF BlockWords, Words

pending == IF InUpdate THEN version ELSE 0

\* A step of an update leaves the old data, loses it, or completes the new.
LEMMA RegisterChange ==
  ASSUME InUpdate, version \in Nat, version > 0, version' = version, done' = done,
         Found' \in {Found, 0, -1, version}
  PROVE  [Register!RegisterNext]_(Register!registerVars)
<1>1. pending = version /\ pending # 0 /\ pending' \in {pending, 0}
  BY DEF pending, InUpdate
<1>2. CASE pending' = pending
  <2>1. Register!Change
    BY <1>1, <1>2 DEF Register!Change, Register!NoData, Register!Torn, pending
  <2> QED BY <2>1 DEF Register!RegisterNext
<1>3. CASE pending' = 0
  <2>1. Register!Abort
    BY <1>1, <1>3 DEF Register!Abort, Register!NoData, Register!Torn, pending
  <2> QED BY <2>1 DEF Register!RegisterNext
<1> QED BY <1>1, <1>2, <1>3

\* The same flash, the same data.
LEMMA FoundSame ==
  ASSUME RInv, flash' = flash
  PROVE  Found' = Found
<1>0. FindsData /\ FindsData'
  BY FoundData, PTL
<1>1. 0 \in Words
  <2>1. T * A \in Nat /\ 1 * A <= T * A
    BY Scaled, Geometry
  <2> QED BY <2>1, Geometry DEF Words
<1>2. CASE flash[0] = REGF_UNALLOCATED_BLOCK
  BY <1>0, <1>2 DEF FindsData
<1>3. CASE Log(0)
  <2>1. Log(0)'
    BY <1>3 DEF Log
  <2> QED BY <1>0, <1>3, <2>1 DEF FindsData
<1>4. ASSUME NEW s, s > 0, Log(s) PROVE Found' = Found
  <2>1. Log(s)' /\ DataOf(s)' = DataOf(s)
    BY <1>4 DEF Log, DataOf, HoldsData, HandleOf
  <2> QED BY <1>0, <1>4, <2>1 DEF FindsData
<1>5. CASE pc = "erase" /\ index > 0
  <2>1. 0 < index * SectorBlocks * A
    <3>1. index \in Nat /\ index > 0
      BY <1>5 DEF RInv, TypeOK
    <3>2. index * SectorBlocks \in Nat /\ index * SectorBlocks > 0
      BY <3>1, Geometry, SMT
    <3> QED BY <3>2, Geometry, SMT
  <2> QED BY <1>1, <1>2, <1>5, <2>1 DEF RInv, EraseInv
<1>6. CASE AllErased
  BY <1>1, <1>2, <1>6 DEF AllErased
<1>7. CASE \E s \in Words : Log(s)
  <2>1. PICK s \in Words : Log(s)
    BY <1>7
  <2>2. s = 0 \/ s > 0
    BY <2>1, LogWords
  <2> QED BY <1>3, <1>4, <2>1, <2>2
<1> QED BY <1>5, <1>6, <1>7 DEF RInv, FlashInv

\* Every step of the region file is one of the register, or changes none of it.
LEMMA RegisterStep ==
  ASSUME NoEmptyUpdate, RInv, RInv', [Next]_vars
  PROVE  [Register!RegisterNext]_(Register!registerVars)
<1>0. FindsData'
  BY FoundData, PTL
<1>1. version \in Nat /\ done \in Nat /\ (InUpdate => version > 0)
  BY Geometry DEF RInv, TypeOK, UpdateInv
<1>2. CASE UNCHANGED <<flash, version, done>> /\ InUpdate
  BY <1>1, <1>2, FoundSame, RegisterChange
<1>3. CASE UNCHANGED <<flash, version, done>> /\ ~InUpdate /\ ~InUpdate'
  BY <1>3, FoundSame DEF Register!registerVars
<1>4. ASSUME NEW size \in Sizes, region_file_update_data(size)
      PROVE  [Register!RegisterNext]_(Register!registerVars)
  <2>1. /\ ~InUpdate /\ InUpdate' /\ flash' = flash /\ version' = version + 1 /\ done' = done
    BY <1>4 DEF region_file_update_data, InUpdate
  <2>2. Register!Begin
    BY <2>1, FoundSame DEF Register!Begin
  <2> QED BY <2>2 DEF Register!RegisterNext
<1>5. CASE HandleEmpty /\ flash' # flash
  <2>1. /\ pc = "update" /\ f.slot = RF_EMPTY /\ blocks <= T - 1 /\ UNCHANGED <<version, done>>
        /\ flash' = Program({0}, MetadataBlocks(blocks))
    BY <1>5 DEF HandleEmpty
  <2>2. Found' = 0
    BY <1>0, <2>1, EmptyWrites DEF FindsData
  <2> QED BY <1>1, <2>1, <2>2, RegisterChange DEF InUpdate
<1>6. CASE EraseSector
  <2>1. pc = "erase" /\ UNCHANGED <<version, done>>
    BY <1>6 DEF EraseSector
  <2>2. flash'[0] = REGF_UNALLOCATED_BLOCK
    <3>1. 0 \in Words
      <4>1. T * A \in Nat /\ 1 * A <= T * A
        BY Scaled, Geometry
      <4> QED BY <4>1, Geometry DEF Words
    <3>2. index' = index + 1 /\ index \in Nat
      BY <1>6, SectorErased
    <3>3. index' * SectorBlocks \in Nat /\ index' * SectorBlocks > 0
      BY <3>2, Geometry, SMT
    <3>4. 0 < index' * SectorBlocks * A
      BY <3>3, Geometry, SMT
    <3> QED BY <1>6, <3>1, <3>4, SectorErased
  <2>3. Found' = 0
    BY <1>0, <2>2 DEF FindsData
  <2> QED BY <1>1, <2>1, <2>3, RegisterChange DEF InUpdate
<1>7. CASE CommitAllocation /\ flash' # flash
  <2>1. /\ pc = "update" /\ f.slot >= RF_ONLY_METADATA /\ update_can_fit(blocks)
        /\ flash' = Program({f.slot + 1}, f.end + blocks) /\ UNCHANGED <<version, done>>
    BY <1>7 DEF CommitAllocation
  <2>2. PICK s : s = f.slot
    OBVIOUS
  <2>3. /\ Log(s + 1)' /\ s \in Nat /\ f.end \in Nat /\ f.end < T /\ flash'[s] = f.end
        /\ \A w \in Words : w >= f.end * A => flash'[w] = REGF_UNALLOCATED_BLOCK
    BY <2>1, <2>2, Allocates
  <2>4. flash'[f.end * A] = REGF_UNALLOCATED_BLOCK
    <3>1. f.end * A \in Words /\ f.end * A >= f.end * A
      BY <2>3, FirstWord
    <3> QED BY <2>3, <3>1
  <2>5. s + 1 > 0 /\ (s + 1) - 1 = s
    BY <2>3
  <2>6. Found' = -1
    BY <1>0, <2>3, <2>4, <2>5 DEF FindsData
  <2> QED BY <1>1, <2>1, <2>6, RegisterChange DEF InUpdate
<1>8. CASE CommitData
  <2>1. pc = "data" /\ UNCHANGED <<version, done>>
    BY <1>8 DEF CommitData
  <2>2. PICK s : s = f.slot
    OBVIOUS
  <2>3. /\ Log(s)' /\ s > 0 /\ f = HandleOf(s)' /\ f.begin \in Nat /\ index \in Nat
        /\ \A b \in f.begin .. f.begin + index : \A w \in BlockWords(b) : flash'[w] = version
    BY <1>8, <2>2, WritesData
  <2>4. flash'[f.begin * A] = version
    <3>1. f.begin \in f.begin .. f.begin + index /\ f.begin * A \in BlockWords(f.begin)
      BY <2>3, FirstWord
    <3> QED BY <2>3, <3>1
  <2>5. f.begin = flash'[s - 1]
    <3>1. s # 0
      BY <2>3
    <3> QED BY <2>3, <3>1 DEF HandleOf, Handle
  <2>6. Found' \in {-1, version}
    BY <1>0, <2>3, <2>4, <2>5 DEF FindsData
  <2> QED BY <1>1, <2>1, <2>6, RegisterChange DEF InUpdate
<1>9. CASE UpdateReturns
  <2>1. /\ pc = "data" /\ index = blocks /\ pc' = "ready" /\ done' = version /\ flash' = flash
        /\ version' = version
    BY <1>9 DEF UpdateReturns
  <2>2. version # REGF_UNALLOCATED_BLOCK
    BY Geometry DEF RInv, TypeOK
  <2>3. Found = version
    BY <2>1, <2>2, WrittenData, FoundData DEF FindsData
  <2>4. InUpdate /\ ~InUpdate'
    BY <2>1 DEF InUpdate
  <2>5. Register!Return
    BY <1>1, <2>1, <2>3, <2>4, FoundSame DEF Register!Return
  <2> QED BY <2>5 DEF Register!RegisterNext
<1>10. CASE HandleFatal \/ EraseFails \/ HandleNeedToEmpty \/ CannotFit \/ CommitDataFails
            \/ (HandleEmpty /\ flash' = flash) \/ (CommitAllocation /\ flash' = flash)
  <2>1. UNCHANGED <<flash, version, done>> /\ InUpdate
    BY <1>10 DEF HandleFatal, EraseFails, HandleNeedToEmpty, CannotFit, CommitDataFails, HandleEmpty,
                 CommitAllocation, InUpdate
  <2> QED BY <1>2, <2>1
<1>11. CASE Start \/ PowerFailure \/ Finished \/ UNCHANGED vars
  <2>1. UNCHANGED <<flash, version, done>> /\ (~InUpdate => ~InUpdate')
    BY <1>11 DEF Start, PowerFailure, Finished, vars, InUpdate
  <2> QED BY <1>2, <1>3, <2>1
<1> QED BY <1>4, <1>5, <1>6, <1>7, <1>8, <1>9, <1>10, <1>11 DEF Next, Step

\* The region file is the register of DataRegister (region_file_data() after any resets): data
\* may go while an update is made, older data never comes back, and from the return of an
\* update on its data is what is found.
THEOREM RegionIsRegister ==
  ASSUME NoEmptyUpdate
  PROVE  /\ Spec /\ [][WholeErase]_vars => ImplementsRegister
         /\ SectorBlocks = T => (Spec => ImplementsRegister)
<1>1. Init => Register!RegisterInit
  <2> SUFFICES ASSUME Init PROVE Register!RegisterInit
    OBVIOUS
  <2>1. 0 \in Words
    <3>1. T * A \in Nat /\ 1 * A <= T * A
      BY Scaled, Geometry
    <3> QED BY <3>1, Geometry DEF Words
  <2>2. Found = 0
    BY <2>1, FoundData DEF FindsData, Init
  <2> QED BY <2>2 DEF Init, Register!RegisterInit, Register!NoData, InUpdate
<1>2. RInv /\ RInv' /\ [Next]_vars => [Register!RegisterNext]_(Register!registerVars)
  BY RegisterStep
<1>3. Spec /\ [][WholeErase]_vars => ImplementsRegister
  BY <1>1, <1>2, Invariant, PTL DEF Spec, ImplementsRegister, Register!RegisterSpec
<1>4. ASSUME SectorBlocks = T PROVE Spec => ImplementsRegister
  <2>1. Spec => []RInv
    BY <1>4, Invariant
  <2> QED BY <1>1, <1>2, <2>1, PTL DEF Spec, ImplementsRegister, Register!RegisterSpec
<1> QED BY <1>3, <1>4
=============================================================================
