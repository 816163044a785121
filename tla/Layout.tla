------------------------------- MODULE Layout -------------------------------
(***************************************************************************)
(* The arithmetic of the allocator: the constants of defines.h, the macros *)
(* of prototypes.h, and the address layout mmap gives the two zones.       *)
(*                                                                         *)
(* Addresses and sizes are byte counts.  size_t arithmetic is modulo       *)
(* SizeMod (2^64 in the program, smaller here), headers and alignment keep *)
(* the byte counts of the 64-bit build.                                    *)
(***************************************************************************)
EXTENDS Integers

CONSTANTS
  SizeMod,        \* SIZE_MAX + 1: where size_t and addresses wrap
  TinyBase,       \* the page-aligned address mmap returns for the tiny zone
  TinyZoneSize,   \* FT_MALLOC_TINY_ZONE_SIZE
  SmallBase,      \* the page-aligned address mmap returns for the small zone
  SmallZoneSize,  \* FT_MALLOC_SMALL_ZONE_SIZE
  TinyMax,        \* FT_MALLOC_TINY_MAX_SIZE
  SmallMax,       \* FT_MALLOC_SMALL_MAX_SIZE
  LargeBases      \* the page-aligned addresses mmap has for large chunks

NULL == 0
ALIGNMENT == 16
HEADER == 16          \* sizeof(ChunkHeader)
LARGE_HEADER == 24    \* sizeof(LargeChunkHeader)

ZoneNames == {"tiny", "small"}

ZoneSize(z) == IF z = "tiny" THEN TinyZoneSize ELSE SmallZoneSize
PlacedAt(z) == IF z = "tiny" THEN TinyBase ELSE SmallBase
PlacedEnd(z) == PlacedAt(z) + ZoneSize(z)

\* Page multiples are multiples of 16, the kernel hands out disjoint ranges,
\* and nothing lies near the top of the address space.
ASSUME LayoutAssumption ==
  /\ SizeMod \in Nat /\ SizeMod % 16 = 0 /\ SizeMod > 64
  /\ TinyBase \in Nat /\ TinyBase > 0 /\ TinyBase % 16 = 0
  /\ SmallBase \in Nat /\ SmallBase > 0 /\ SmallBase % 16 = 0
  /\ TinyZoneSize \in Nat /\ TinyZoneSize >= 32 /\ TinyZoneSize % 16 = 0
  /\ SmallZoneSize \in Nat /\ SmallZoneSize >= 32 /\ SmallZoneSize % 16 = 0
  /\ TinyBase + TinyZoneSize < SizeMod - 64
  /\ SmallBase + SmallZoneSize < SizeMod - 64
  /\ \/ TinyBase + TinyZoneSize <= SmallBase
     \/ SmallBase + SmallZoneSize <= TinyBase
  /\ TinyMax \in Nat /\ SmallMax \in Nat /\ TinyMax <= SmallMax
  /\ SmallMax < SizeMod - 64
  /\ LargeBases \subseteq Nat
  /\ \A b \in LargeBases :
       /\ b % 16 = 0 /\ b > 0
       /\ \A z \in ZoneNames : b + 32 <= PlacedAt(z) \/ PlacedEnd(z) <= b

SizeT == 0 .. SizeMod - 1

\* The value of a size_t expression, for operands one wrap away at most.
Wrap(n) == IF n >= SizeMod THEN n - SizeMod
           ELSE IF n < 0 THEN n + SizeMod
           ELSE n

\* Mutant: the mask without the addition rounds down.
AlignDown(n) == n - (n % ALIGNMENT)

\* (reqSize + 15) & ~15
AlignUp(n) == LET m == Wrap(n + (ALIGNMENT - 1)) IN m - (m % ALIGNMENT)

\* (-pointer) & 15
DistanceToNextAlignment(a) == (ALIGNMENT - (a % ALIGNMENT)) % ALIGNMENT

CHUNK_MINIMUM_SIZE == AlignUp(1) + HEADER

\* Mutant: no room for the header.
AllocationSizeWithoutHeader(n) == Wrap((ALIGNMENT - 1) + n)

\* 15 + 24 + reqSize: what a large request asks of mmap
Reqsize2AllocationSize(n) == Wrap((ALIGNMENT - 1) + LARGE_HEADER + n)

MinOf(a, b) == IF a < b THEN a ELSE b
=============================================================================
