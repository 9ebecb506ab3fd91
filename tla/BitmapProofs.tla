---------------------------- MODULE BitmapProofs ----------------------------
(* Proofs about Bitmap, for any size, any word length and any bits on disk.   *)
(* That the counts are exact needs a count on disk that agrees with the bits. *)
EXTENDS Bitmap, FiniteSetTheorems, WellFoundedInduction, TLAPS

\* The free count on disk is the number of usable clear bits there.
Consistent == free0 = Cardinality(Usable \ map0)

\* The bits, the search hint and the last result, of any count.
HintInv ==
    /\ bmp \in [map : SUBSET Nat, unused : Int, allocation : Nat]
    /\ bmp.allocation > 0
    /\ used \subseteq Nat \ {0}
    /\ HintSound

\* What a consistent count adds.
CountInv ==
    /\ HintInv
    /\ CountExact
    /\ used \subseteq Usable \cap bmp.map

----------------------------------------------------------------------------
\* A non-empty set of natural numbers has a least element.
LEMMA Least ==
    ASSUME NEW S \in SUBSET Nat, S # {}
    PROVE  \E i \in S : \A j \in S : i <= j
  <1> DEFINE R == OpToRel(<, Nat)
  <1>1. IsWellFoundedOn(R, Nat)
    BY NatLessThanWellFounded
  <1>2. \A x, y \in Nat : x < y => <<x, y>> \in R
    BY DEF OpToRel
  <1> HIDE DEF R
  <1>3. PICK i \in S : \A j \in S : ~ (<<j, i>> \in R)
    BY <1>1, WFMin
  <1>4. i \in Nat /\ \A j \in S : j \in Nat /\ ~(j < i)
    BY <1>2, <1>3
  <1> QED BY <1>4

\* total_blocks words hold at least size bits.
LEMMA TotalFacts == Total \in Nat /\ Total >= size
  <1> USE BitmapAssumption
  <1> DEFINE x == size + W - 1
             q == x \div W
  <1>1. x \in Nat /\ q \in Int /\ x % W \in Int
    OBVIOUS
  <1>2. x = (W * q) + (x % W) /\ 0 <= x % W /\ x % W < W
    OBVIOUS
  <1>3. W * q \in Int /\ q * W = W * q
    OBVIOUS
  <1>4. Total = q * W
    BY DEF Total
  <1> HIDE DEF q
  <1>5. W * q > size - 1
    BY <1>1, <1>2, <1>3
  <1> QED BY <1>1, <1>3, <1>4, <1>5

\* The bit that a scan finds: clear, at or after the hint, with none clear in between.
LEMMA FirstFacts ==
    ASSUME NEW b, b.allocation \in Nat, Clear(b) # {}
    PROVE  LET r == First(Clear(b)) IN
           /\ r \in Nat /\ r >= b.allocation /\ r < Total /\ r \notin b.map
           /\ \A i \in Nat : b.allocation <= i /\ i < r => i \in b.map
  <1> USE TotalFacts
  <1> DEFINE r == First(Clear(b))
  <1>1. Clear(b) \in SUBSET Nat
    BY DEF Clear
  <1>2. r \in Clear(b) /\ \A j \in Clear(b) : r <= j
    BY <1>1, Least DEF First
  <1> HIDE DEF r
  <1>3. r \in Nat /\ r >= b.allocation /\ r < Total /\ r \notin b.map
    BY <1>2 DEF Clear
  <1>4. ASSUME NEW i \in Nat, b.allocation <= i, i < r PROVE i \in b.map
    <2>1. i \in b.allocation .. Total - 1
      BY <1>3, <1>4
    <2>2. i \notin Clear(b)
      BY <1>2, <1>3, <1>4
    <2> QED BY <2>1, <2>2 DEF Clear
  <1> QED BY <1>3, <1>4 DEF r

\* What bitmap_alloc returns when it succeeds: as above; and not beyond size.
LEMMA AllocFacts ==
    ASSUME NEW b, b.allocation \in Nat, alloc_res(b) # -1
    PROVE  LET r == alloc_res(b) IN
           /\ b.unused # 0
           /\ r \in Nat /\ r >= b.allocation /\ r <= size /\ r \notin b.map
           /\ \A i \in Nat : b.allocation <= i /\ i < r => i \in b.map
           /\ alloc_map(b) = [map |-> b.map \cup {r}, unused |-> b.unused - 1,
                              allocation |-> r + 1]
  <1>1. /\ b.unused # 0 /\ Clear(b) # {} /\ ~(First(Clear(b)) > size)
        /\ alloc_res(b) = First(Clear(b))
    BY DEF alloc_res
  <1>2. alloc_map(b) = [map |-> b.map \cup {alloc_res(b)}, unused |-> b.unused - 1,
                        allocation |-> alloc_res(b) + 1]
    BY DEF alloc_map
  <1> QED BY <1>1, <1>2, FirstFacts, BitmapAssumption

\* What mounting leaves: bitmap_reset_start finds the first clear bit from 1 on by
\* allocating and freeing it, which changes no usable bit.
LEMMA MountedFacts ==
    /\ mounted \in [map : SUBSET Nat, unused : Int, allocation : Nat]
    /\ mounted.allocation > 0 /\ mounted.unused = free0
    /\ \A i \in Usable : i \notin mounted.map => i >= mounted.allocation
    /\ Usable \ mounted.map = Usable \ map0
  <1> USE BitmapAssumption
  <1> DEFINE a == [map |-> map0, unused |-> size, allocation |-> 1]
             r == alloc_res(a)
             z == free_map(alloc_map(a), r)
  <1>1. mounted = [z EXCEPT !.unused = free0]
    BY DEF mounted, reset_start
  <1>2. map0 \in SUBSET Nat /\ Usable \subseteq Nat \ {0} /\ \A i \in Usable : i < size
    BY DEF Usable
  <1>3. CASE r = -1
    <2>1. z = a
      BY <1>3 DEF alloc_map, free_map
    <2>2. mounted = [map |-> map0, unused |-> free0, allocation |-> 1]
      BY <1>1, <2>1
    <2> QED BY <1>2, <2>2
  <1>4. CASE r # -1
    <2>1. /\ r \in Nat /\ r >= 1 /\ r <= size /\ r \notin map0
          /\ \A i \in Nat : 1 <= i /\ i < r => i \in map0
          /\ alloc_map(a) = [map |-> map0 \cup {r}, unused |-> size - 1, allocation |-> r + 1]
      <3>1. a.allocation = 1 /\ a.map = map0 /\ a.unused = size
        OBVIOUS
      <3> HIDE DEF a
      <3>2. a.allocation \in Nat /\ alloc_res(a) # -1
        BY <1>4, <3>1
      <3> QED BY <3>1, <3>2, AllocFacts
    <2> HIDE DEF r
    <2>2. CASE r < size
      <3>1. z = [map |-> map0, unused |-> (size - 1) + 1, allocation |-> r]
        <4>1. (map0 \cup {r}) \ {r} = map0
          BY <2>1
        <4> QED BY <2>1, <2>2, <4>1 DEF free_map
      <3>2. mounted = [map |-> map0, unused |-> free0, allocation |-> r]
        BY <1>1, <3>1
      <3> QED BY <1>2, <2>1, <3>2
    <2>3. CASE r = size
      <3>1. z = [map |-> map0 \cup {r}, unused |-> size - 1, allocation |-> r + 1]
        BY <2>1, <2>3 DEF free_map
      <3>2. mounted = [map |-> map0 \cup {r}, unused |-> free0, allocation |-> r + 1]
        BY <1>1, <3>1
      <3>3. r \notin Usable
        BY <1>2, <2>3
      <3>4. Usable \subseteq map0
        BY <1>2, <2>1, <2>3
      <3> QED BY <1>2, <2>1, <3>2, <3>3, <3>4
    <2> QED BY <2>1, <2>2, <2>3
  <1> QED BY <1>3, <1>4

\* Mounting establishes the invariant.
LEMMA HintInitInv == BitmapInit => HintInv
  BY MountedFacts DEF BitmapInit, HintInv, HintSound, FreeBits

\* bitmap_alloc moves the hint past the bit it takes, and bitmap_free back to the bit it
\* clears.
LEMMA HintNextInv ==
    ASSUME HintInv, [BitmapNext]_bvars
    PROVE  HintInv'
  <1> USE BitmapAssumption
  <1>0. /\ bmp \in [map : SUBSET Nat, unused : Int, allocation : Nat]
        /\ bmp.map \in SUBSET Nat /\ bmp.unused \in Int
        /\ bmp.allocation \in Nat /\ bmp.allocation > 0 /\ used \subseteq Nat \ {0}
        /\ \A i \in Usable : i \notin bmp.map => i >= bmp.allocation
        /\ Usable \subseteq Nat
    BY DEF HintInv, HintSound, FreeBits, Usable
  <1>1. CASE UNCHANGED bvars
    BY <1>1 DEF HintInv, HintSound, FreeBits, bvars
  <1>2. CASE map_alloc
    <2>1. CASE alloc_res(bmp) = -1
      BY <1>2, <2>1 DEF map_alloc, alloc_map, HintInv, HintSound, FreeBits
    <2>2. CASE alloc_res(bmp) # -1
      <3> DEFINE r == alloc_res(bmp)
      <3>1. /\ r \in Nat /\ r >= bmp.allocation
            /\ \A i \in Nat : bmp.allocation <= i /\ i < r => i \in bmp.map
            /\ alloc_map(bmp) = [map |-> bmp.map \cup {r}, unused |-> bmp.unused - 1,
                                 allocation |-> r + 1]
        BY <1>0, <2>2, AllocFacts
      <3>2. bmp' = alloc_map(bmp) /\ used' = used \cup {r}
        BY <1>2, <2>2 DEF map_alloc
      <3> HIDE DEF r
      <3>3. /\ bmp' \in [map : SUBSET Nat, unused : Int, allocation : Nat]
            /\ bmp'.map = bmp.map \cup {r} /\ bmp'.allocation = r + 1
        BY <1>0, <3>1, <3>2
      <3>4. \A i \in Usable : i \notin bmp'.map => i >= bmp'.allocation
        BY <1>0, <3>1, <3>3
      <3>5. used' \subseteq Nat \ {0}
        BY <1>0, <3>1, <3>2
      <3> QED BY <1>0, <3>1, <3>3, <3>4, <3>5 DEF HintInv, HintSound, FreeBits
    <2> QED BY <2>1, <2>2
  <1>3. ASSUME NEW i \in used, map_free(i) PROVE HintInv'
    <2>1. bmp' = free_map(bmp, i) /\ used' = used \ {i} /\ i \in Nat /\ i > 0 /\ i < size /\ i \in bmp.map
      BY <1>0, <1>3 DEF map_free, bitmap_is_free
    <2>2. bmp' = [map |-> bmp.map \ {i}, unused |-> bmp.unused + 1,
                  allocation |-> IF i < bmp.allocation THEN i ELSE bmp.allocation]
      BY <2>1 DEF free_map
    <2>3. /\ bmp' \in [map : SUBSET Nat, unused : Int, allocation : Nat]
          /\ bmp'.map = bmp.map \ {i} /\ bmp'.allocation > 0
          /\ bmp'.allocation = IF i < bmp.allocation THEN i ELSE bmp.allocation
      BY <1>0, <2>1, <2>2
    <2>4. \A j \in Usable : j \notin bmp'.map => j >= bmp'.allocation
      BY <1>0, <2>1, <2>3
    <2> QED BY <1>0, <2>1, <2>3, <2>4 DEF HintInv, HintSound, FreeBits
  <1> QED BY <1>1, <1>2, <1>3 DEF BitmapNext

\* For any size, word length and contents of the disk, no usable bit below the search
\* hint is clear, so that bitmap_alloc's scan, which never wraps around, misses none.
THEOREM HintSoundTheorem == BitmapSpec => []HintSound
  <1>1. BitmapInit => HintInv
    BY HintInitInv
  <1>2. HintInv /\ [BitmapNext]_bvars => HintInv'
    BY HintNextInv
  <1>3. HintInv => HintSound
    BY DEF HintInv
  <1> QED BY <1>1, <1>2, <1>3, PTL DEF BitmapSpec

----------------------------------------------------------------------------
\* Mounting a consistent image.
LEMMA CountInitInv ==
    ASSUME Consistent
    PROVE  BitmapInit => CountInv
  <1> SUFFICES ASSUME BitmapInit PROVE CountInv
    OBVIOUS
  <1>1. FreeBits = Usable \ map0
    BY MountedFacts DEF FreeBits, BitmapInit
  <1>2. CountExact
    BY <1>1, MountedFacts DEF CountExact, BitmapInit, Consistent
  <1> QED BY <1>2, HintInitInv DEF CountInv, BitmapInit

\* With a consistent count bitmap_alloc takes a usable bit whenever there is one, and
\* never the bit at size that its bound lets through.
LEMMA CountNextInv ==
    ASSUME CountInv, [BitmapNext]_bvars
    PROVE  CountInv'
  <1> USE BitmapAssumption
  <1>0. HintInv'
    BY HintNextInv DEF CountInv
  <1>1. /\ bmp \in [map : SUBSET Nat, unused : Int, allocation : Nat]
        /\ bmp.map \in SUBSET Nat /\ bmp.unused \in Int
        /\ bmp.allocation \in Nat /\ bmp.allocation > 0
        /\ \A i \in Usable : i \notin bmp.map => i >= bmp.allocation
        /\ used \subseteq Usable \cap bmp.map
        /\ bmp.unused = Cardinality(FreeBits) /\ sb_free = bmp.unused
        /\ res = -1 => FreeBits = {}
    BY DEF CountInv, CountExact, HintInv, HintSound, FreeBits
  <1>2. IsFiniteSet(FreeBits) /\ Cardinality(FreeBits) \in Nat /\ (Cardinality(FreeBits) = 0 <=> FreeBits = {})
    <2>1. IsFiniteSet(Usable)
      BY FS_Interval DEF Usable
    <2>2. FreeBits \in SUBSET Usable
      BY DEF FreeBits
    <2>3. IsFiniteSet(FreeBits)
      BY <2>1, <2>2, FS_Subset
    <2> QED BY <2>3, FS_CardinalityType, FS_EmptySet
  <1>3. CASE UNCHANGED bvars
    BY <1>0, <1>3 DEF CountInv, CountExact, FreeBits, bvars
  <1>4. CASE map_alloc
    <2>1. CASE alloc_res(bmp) = -1
      <3>1. bmp' = bmp /\ sb_free' = sb_free /\ used' = used
        BY <1>4, <2>1 DEF map_alloc, alloc_map
      <3>2. FreeBits' = FreeBits
        BY <3>1 DEF FreeBits
      <3>3. FreeBits = {}
        <4> SUFFICES ASSUME NEW i \in FreeBits PROVE FALSE
          OBVIOUS
        <4>1. i \in Nat /\ i < size /\ i \notin bmp.map /\ i >= bmp.allocation
          BY <1>1 DEF FreeBits, Usable
        <4>2. i \in Clear(bmp)
          BY <1>1, <4>1, TotalFacts DEF Clear
        <4>3. /\ First(Clear(bmp)) \in Nat
              /\ \A j \in Nat : bmp.allocation <= j /\ j < First(Clear(bmp)) => j \in bmp.map
          BY <1>1, <4>2, FirstFacts
        <4>4. First(Clear(bmp)) > size
          BY <1>1, <1>2, <2>1, <4>2, <4>3 DEF alloc_res
        <4> QED BY <4>1, <4>3, <4>4
      <3> QED BY <1>0, <1>1, <3>1, <3>2, <3>3 DEF CountInv, CountExact
    <2>2. CASE alloc_res(bmp) # -1
      <3> DEFINE r == alloc_res(bmp)
      <3>1. /\ r \in Nat /\ r >= bmp.allocation /\ r <= size /\ r \notin bmp.map /\ bmp.unused # 0
            /\ \A i \in Nat : bmp.allocation <= i /\ i < r => i \in bmp.map
            /\ alloc_map(bmp) = [map |-> bmp.map \cup {r}, unused |-> bmp.unused - 1,
                                 allocation |-> r + 1]
        BY <1>1, <2>2, AllocFacts
      <3>2. /\ bmp' = alloc_map(bmp) /\ used' = used \cup {r} /\ sb_free' = sb_free - 1
            /\ res' = r
        BY <1>4, <2>2 DEF map_alloc
      <3> HIDE DEF r
      <3>3. bmp'.map = bmp.map \cup {r} /\ bmp'.unused = bmp.unused - 1
        BY <3>1, <3>2
      <3>4. r \in FreeBits
        <4>1. PICK i \in FreeBits : TRUE
          BY <1>1, <1>2, <3>1
        <4>2. i \in Nat /\ i < size /\ i \notin bmp.map /\ i >= bmp.allocation
          BY <1>1 DEF FreeBits, Usable
        <4>3. r <= i
          BY <3>1, <4>2
        <4> QED BY <1>1, <3>1, <4>2, <4>3 DEF FreeBits, Usable
      <3>5. FreeBits' = FreeBits \ {r}
        BY <3>3 DEF FreeBits
      <3>6. Cardinality(FreeBits') = Cardinality(FreeBits) - 1
        BY <1>2, <3>4, <3>5, FS_RemoveElement
      <3>7. CountExact'
        BY <1>1, <1>2, <3>1, <3>2, <3>3, <3>6 DEF CountExact
      <3>8. used' \subseteq Usable \cap bmp'.map
        BY <1>1, <3>2, <3>3, <3>4 DEF FreeBits
      <3> QED BY <1>0, <3>7, <3>8 DEF CountInv
    <2> QED BY <2>1, <2>2
  <1>5. ASSUME NEW i \in used, map_free(i) PROVE CountInv'
    <2>1. /\ bmp' = free_map(bmp, i) /\ used' = used \ {i} /\ sb_free' = sb_free + 1 /\ res' = res
          /\ i \in Usable /\ i \in bmp.map /\ res # -1
      BY <1>1, <1>5 DEF map_free
    <2>2. i \in Nat /\ i > 0 /\ i < size
      BY <2>1 DEF Usable
    <2>3. bmp'.map = bmp.map \ {i} /\ bmp'.unused = bmp.unused + 1
      BY <2>1, <2>2 DEF free_map
    <2>4. FreeBits' = FreeBits \cup {i} /\ i \notin FreeBits
      BY <2>1, <2>3 DEF FreeBits
    <2>5. Cardinality(FreeBits') = Cardinality(FreeBits) + 1
      BY <1>2, <2>4, FS_AddElement
    <2>6. CountExact'
      BY <1>1, <1>2, <2>1, <2>3, <2>5 DEF CountExact
    <2>7. used' \subseteq Usable \cap bmp'.map
      BY <1>1, <2>1, <2>3
    <2> QED BY <1>0, <2>6, <2>7 DEF CountInv
  <1> QED BY <1>3, <1>4, <1>5 DEF BitmapNext

\* From a consistent count on disk, CountInv is kept.
LEMMA CountCorrect ==
    ASSUME Consistent
    PROVE  BitmapSpec => []CountInv
  <1>1. BitmapInit => CountInv
    BY CountInitInv
  <1>2. CountInv /\ [BitmapNext]_bvars => CountInv'
    BY CountNextInv
  <1> QED BY <1>1, <1>2, PTL DEF BitmapSpec

\* For any size and word length, if the count on disk agrees with the bits there, then the
\* counts in memory always agree with the bits, and easyfs panics for want of a number
\* only when every usable bit is taken.
THEOREM CountExactTheorem ==
    ASSUME Consistent
    PROVE  BitmapSpec => []CountExact
  <1>1. CountInv => CountExact
    BY DEF CountInv
  <1> QED BY <1>1, CountCorrect, PTL

\* Under the same condition every number handed out is usable and can be given back: the
\* bound in bitmap_alloc, which lets size itself through, matters only when the count on
\* disk is too high, as the one that mkfs writes for inodes is.
THEOREM UsedFreeableTheorem ==
    ASSUME Consistent
    PROVE  BitmapSpec => []UsedFreeable
  <1>1. CountInv => UsedFreeable
    <2>1. \A i \in Usable : ~(i < 0) /\ ~(i >= size)
      BY BitmapAssumption DEF Usable
    <2> QED BY <2>1 DEF CountInv, UsedFreeable, bitmap_is_free
  <1> QED BY <1>1, CountCorrect, PTL
============================================================================
