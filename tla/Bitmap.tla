------------------------------- MODULE Bitmap -------------------------------
(***************************************************************************)
(* The bitmap allocator, lib/bitmap.c, as easyfs uses it for inode and     *)
(* block numbers (fs/easyfs/super.c).  The callers hold the superblock's   *)
(* lock, so that every operation is one step.                              *)
(*                                                                         *)
(* map is the set of bits that are 1.  The words hold more bits than size  *)
(* when size is not a multiple of the word length.                         *)
(***************************************************************************)
EXTENDS Integers, FiniteSets

CONSTANTS
    size,       \* bmp->size
    W,          \* bits in a word: 64 in the code
    map0,       \* the bits that are 1 on disk
    free0       \* inode_free or block_free on disk

ASSUME BitmapAssumption ==
    /\ size \in Nat \ {0}
    /\ W \in Nat \ {0}
    /\ map0 \subseteq 0 .. size - 1
    /\ free0 \in Nat

\* The bits in total_blocks words.
Total == ((size + W - 1) \div W) * W

\* The clear bits that a scan from bmp->allocation meets.
Clear(b) == {i \in b.allocation .. Total - 1 : i \notin b.map}
First(S) == CHOOSE i \in S : \A j \in S : i <= j

\* bitmap_alloc: the returned number, and the bitmap afterwards.
alloc_res(b) ==
    IF b.unused = 0 \/ Clear(b) = {} THEN -1
    ELSE IF First(Clear(b)) > size THEN -1
    ELSE First(Clear(b))

\* Mutant: bitmap_alloc does not count.
alloc_map_uncounted(b) ==
    LET r == alloc_res(b) IN
    IF r = -1 THEN b ELSE [b EXCEPT !.map = @ \cup {r}, !.allocation = r + 1]

alloc_map(b) ==
    LET r == alloc_res(b) IN
    IF r = -1 THEN b
    ELSE [map |-> b.map \cup {r}, unused |-> b.unused - 1, allocation |-> r + 1]

\* Mutant: bitmap_free leaves the search hint alone.
free_map_hint(b, i) ==
    IF i < 0 \/ i >= size THEN b
    ELSE [map |-> b.map \ {i},
          unused |-> IF i \in b.map THEN b.unused + 1 ELSE b.unused,
          allocation |-> b.allocation]

\* bitmap_free
free_map(b, i) ==
    IF i < 0 \/ i >= size THEN b
    ELSE [map |-> b.map \ {i},
          unused |-> IF i \in b.map THEN b.unused + 1 ELSE b.unused,
          allocation |-> IF i < b.allocation THEN i ELSE b.allocation]

\* bitmap_is_free: true, or -1 (true as well) outside of the map.
bitmap_is_free(b, i) == i < 0 \/ i >= size \/ i \notin b.map

\* bitmap_init_zone, bitmap_reset_start(1), bitmap_reset_unused.
reset_start(b, start) ==
    LET a == [b EXCEPT !.allocation = start] IN free_map(alloc_map(a), alloc_res(a))
mounted ==
    [reset_start([map |-> map0, unused |-> size, allocation |-> 0], 1) EXCEPT !.unused = free0]

VARIABLES
    bmp,        \* struct bitmap
    sb_free,    \* the superblock's inode_free or block_free
    res,        \* what the last allocation returned
    used        \* numbers handed out and not given back

bvars == <<bmp, sb_free, res, used>>

BitmapInit ==
    /\ bmp = mounted
    /\ sb_free = free0
    /\ res = 0
    /\ used = {}

\* efs_imap_alloc and efs_bmap_alloc, up to the panic on -1.
map_alloc ==
    /\ res # -1
    /\ res' = alloc_res(bmp)
    /\ bmp' = alloc_map(bmp)
    /\ IF alloc_res(bmp) = -1
       THEN UNCHANGED <<sb_free, used>>
       ELSE /\ sb_free' = sb_free - 1
            /\ used' = used \cup {alloc_res(bmp)}

\* efs_imap_free and efs_bmap_free of a number in use, which panic when the bitmap
\* takes it for free.
map_free(i) ==
    /\ res # -1
    /\ i \in used
    /\ ~bitmap_is_free(bmp, i)
    /\ bmp' = free_map(bmp, i)
    /\ sb_free' = sb_free + 1
    /\ used' = used \ {i}
    /\ UNCHANGED res

BitmapNext == map_alloc \/ \E i \in used : map_free(i)

BitmapSpec == BitmapInit /\ [][BitmapNext]_bvars

----------------------------------------------------------------------------
\* The numbers easyfs may use: 0 is reserved.
Usable == 1 .. size - 1
FreeBits == {i \in Usable : i \notin bmp.map}

\* The fields of struct bitmap have their types; bit 0 is never handed out.
BitmapTypeOK ==
    /\ bmp \in [map : SUBSET (0 .. Total - 1), unused : Nat, allocation : Nat]
    /\ sb_free \in Int
    /\ res \in Nat \cup {-1}
    /\ used \subseteq 0 .. Total - 1

\* The search hint is sound: no usable bit below allocation is free, so that the
\* scan, which never wraps around, cannot miss one.
HintSound == \A i \in FreeBits : i >= bmp.allocation

\* bmp->unused, and the count kept in the superblock, are the number of free bits,
\* and bitmap_alloc fails, and easyfs panics, only when nothing is free.
CountExact ==
    /\ bmp.unused = Cardinality(FreeBits)
    /\ sb_free = bmp.unused
    /\ res = -1 => FreeBits = {}

\* Every number handed out is one that efs_imap_free and efs_bmap_free take back
\* without panic: it is in the map and marked there.
UsedFreeable == \A i \in used : i \in Usable /\ ~bitmap_is_free(bmp, i)
============================================================================
