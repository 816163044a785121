-------------------------- MODULE DocumentedClaims --------------------------
(***************************************************************************)
(* What the repository's documents say of the allocator, as properties.    *)
(* Each of them is refuted by the code.                                    *)
(***************************************************************************)
EXTENDS FtMalloc

\* README.md, "Memory coalescing: Merges adjacent free blocks": once defrag is
\* done, and malloc is about to choose, no free chunk follows a free chunk.  A
\* pair with the first chunk of its zone is left out: defragSection steps over
\* that one (ftMalloc.c 5), so that the pair found is one that defrag has met.
AdjacentFreeBlocksMerged ==
  pc = "place" =>
    \A z \in ZoneNames : \A a, b \in Chunks(z) \ {ToFirstChunk(z)} :
      b = ToNext(heap, a) => ~(heap[a].free /\ heap[b].free)

\* doc/test.md #26: malloc(SIZE_MAX) returns NULL.
SizeMaxRefused == \A p \in DOMAIN live : live[p] # SizeMod - 1

\* doc/test.md #28, random malloc, free and realloc: every call comes back.
NeverHangs == pc # "hung"

\* doc/test.md #28, random malloc, free and realloc: no crash.
NeverCrashes == pc # "dead"
=============================================================================
