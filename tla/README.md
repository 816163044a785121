# A verification development for the zone allocator

TLA+ modules, TLC runs and TLAPS proofs for the `malloc`/`free`/`realloc`
replacement of this repository (`src/src`). Paths below are relative to the
directory that holds `src/` and `tla/`.

## 1. The system

| part | source | state | operations |
|------|--------|-------|------------|
| size and address arithmetic | `src/src/defines.h`, `src/src/prototypes.h` | none | `alignUp`, `distanceToNextAlignment`, `reqsize2AllocationSize`, `min` |
| zone chunks | `src/src/utils.c` 3-164 | the headers written into the tiny and the small zone | the walks (`findChunk`, `findFreeChunk`, `findFittableFreeChunk`, `findFree`), `toZone`, `splitChunk`, `consequtiveFreeChunksSize`, `expandChunk` |
| large chunks | `src/src/utils.c` 166-260, `src/src/syscalls.c` | the list `zones.large`, one mapping per chunk | `createLargeChunk`, `push`, `pop`, `findLargeChunk`, mmap, munmap |
| malloc | `src/src/ftMalloc.c` | | `defrag` over both zones, exact fit, first fit, fallback to a large chunk |
| free | `src/src/ftFree.c` | | large, tiny, small or refused |
| realloc | `src/src/ftRealloc.c` | | in place, or malloc + memcpy + free |
| constructor, destructor | `src/src/initialization.c` | `zones` | maps and unmaps the zones |
| show_alloc_mem | `src/src/showAllocMem.c` | | prints the chunks in use and their total |
| exported names | `src/src/publish.c` | | `malloc`, `free`, `realloc`, `show_alloc_mem` |
| libft | `src/libft` | | strings, lists, printing; the allocator uses `ft_memcpy`, `ft_dprintf`, `ft_putchar_fd` |

The parts share the global `zones` and the memory behind it. There is no
callback and nothing persistent, and no lock: the code is written for one
thread, so what is hard is first of all the *sequence* of calls. A header written by one call is read by all later ones;
a size that wraps, a header that lands on another header or a walk that passes
the end of a zone shows up calls later, often in a call on another block. The
rest of the difficulty lies at the edges of the process (other constructors
run before this one, exit handlers run after the destructor), in mmap and
munmap, which may refuse, and, as the exported names replace `malloc` and `free`
of any program, in threads that meet in the unlocked lists and headers.

### What makes each part correct

| part | what must hold | where a test hardly reaches |
|------|----------------|-----------------------------|
| zone chunks | the chunks of a zone cover it without gap or overlap, so that every walk reaches the zone's end | a rest of 0 to 15 bytes in `splitChunk`, a walk that goes on at a zone's end, a header looked up as a block |
| malloc, free, realloc | a block the client owns keeps a chunk or mapping of its own that is large enough; the copy of a realloc stays inside both blocks; every call comes back | a full zone, a refused mmap in the middle of a realloc, sizes near `SIZE_MAX` |
| large chunks | a mapping stays until its owner frees it; list and mappings agree | two threads in `push` and `pop`, a munmap that fails after `pop` |
| constructor, destructor | nothing is lost across them | calls of other constructors, calls of exit handlers, one zone mapped and the other not |
| show_alloc_mem | exactly the client's blocks | zones that a resize has damaged: it counts sizes, the other walks compare addresses |
| libft memory | overlapping moves, first match, no wrapped product | overlap in either direction, products that wrap, and products for which malloc wraps |
| free next to malloc in another thread | a free finds its block and gives it back, no block loses its chunk | between the two stores of `splitChunk`, between the two searches of `ftFree`, in the walk of `zones.large` while a large chunk is unmapped |
| libft lists | no node twice, no content deleted under a list, clean-up when malloc refuses | refusal in the middle of `ft_lstmap` |
| libft strings | no byte outside of the block or of `dstsize`, the right text, clean-up when malloc refuses | nothing left to trim, `dstsize` 0 or the length of the string, a refused piece of `ft_split` |
| libft numbers, printing | every number is read back and printed as itself; the count is that of the bytes | the ends of `int`, a write that fails in the middle |

The hazards, each with the line where it bites and the properties that watch
it, are in `PROJECT.json`.

## 2. The modules

```
 Layout ── ZoneHeap ── FtMalloc ─┬─ MCFtMalloc          Allocator
                          │      ├─ HeaderWalk               ▲
                          │      ├─ ShowAllocMem             │ INSTANCE
                          │      ├─ SharedZone               │
                          │      ├─ DocumentedClaims         │
                          │      └──────────────────── (Abstract)
                          └─ FtMallocProofs ── ZoneProofs ─┬─ LoopProofs (of HeaderWalk, ShowAllocMem)
                                                           └─ SharedZoneProofs (of SharedZone)
 LargeList ─┬─ MCLargeList       LargeList ── INSTANCE ──> ChunkList
            └─ LargeListProofs
 LibftList ─┬─ MCLibftList
            └─ LibftListProofs
              ┌─ LibftMemory ────────────────┐
 LibftCall ───┼─ LibftStrings ─ LibftNumbers ┼─ Libft ── LibftProofs
              └─ LibftPrint ─────────────────┘
 CommonLemmas: extended by FtMallocProofs, LargeListProofs, LibftListProofs, LibftProofs
```

**Layout** holds the constants of `defines.h` and the arithmetic macros of
`prototypes.h`. `size_t` is modulo `SizeMod`; the 16-byte alignment, the 16-byte
chunk header and the 24-byte large header are those of the 64-bit build. The
zones' addresses are constants, which stand for what mmap answers.

**ZoneHeap** models the headers: `heap` maps the address of each header that is
on a chain to its size and flag. `Walk` is the set of headers a loop from `s`
to `e` looks at; a header that is its own successor (size `(size_t)-16`) makes
the loop endless. `SplitChunk` and `Expand` are the two writers.

**FtMalloc** is the allocator. Its variables and their code:

| variable | code |
|----------|------|
| `base`, `large` | `zones.tiny.base`, `zones.small.base`; the list `zones.large` as a map from block to `payloadSize` |
| `heap` | the headers in the memory of the zones |
| `maps` | the kernel's mappings (external) |
| `phase` | before the constructor, in between, after the destructor |
| `pc`, `call`, `cur` | the program counter of the running call and its arguments; `cur` is the argument of `defragSection` |
| `live`, `lost` | history: what the client owns, by requested size; large mappings that are on no list |

| action | code |
|--------|------|
| `Malloc`, `Realloc`, `Free` | entry of the exported functions up to their first loop over the zones; `Free` and a realloc in place (`Resize`) are complete in one step |
| `DefragSection`, `DefragPastEnd` | one level of the recursion of `defragSection` |
| `Place` | the exact search, the first-fit search, the split, or the way to mmap |
| `CreateLargeChunk` | `createLargeChunk` and `push`, or `MAP_FAILED` |
| `CopyAndFree` | the memcpy and the `ftFree` at the end of `ftRealloc` |
| `InitializePreAllocatedZones`, `CleanupPreAllocatedZones` | constructor, destructor |
| `Hang`, `Crash` | a loop that never ends; a touch of memory that is not there. Both are final |

A block that defrag and the searches look for is given by a set and its least
member. **HeaderWalk** has the same searches as loops, one `toNext` after the
other. The run `damage` checks, and the theorem `LoopsSound` proves, that both
agree in every state, damaged ones included; so `FtMalloc` may use the short form.

**Allocator** is what `publish.c` exports, said without zones: blocks never
overlap, a block goes away or changes its size only when the client says so, a
request is answered with a block or with NULL. `FtMalloc!Abstract` maps the
allocator to it (`owned <- live`, `asked <- call`).

**ShowAllocMem** adds the order of the list (`Relinked` says where push, pop and
the constructor leave it) and the report as a function of the state. **DocumentedClaims** has sentences of the repository's documents that
the code does not keep.

**LargeList** is the list `zones.large` again, this time every load and store
of `push`, `pop`, `findLargeChunk` and `toPrevious` by any number of threads;
**ChunkList** is what `FtMalloc` takes it for.

**SharedZone** refines three actions of `FtMalloc` for a process with threads:
`Place` becomes the iterations of `findFreeChunk` and `findFittableFreeChunk`
(`LookForExact`, `LookForFit`), the two stores of `splitChunk` (`WriteRest`,
`Shorten`) and the store of the flag (`Take`); `Free`, in the threads `Freers`,
becomes the iterations of `findLargeChunk` (`FollowList`), those of `findChunk`
in the tiny zone and then the small one
(`Step`, `Pass`), the second search (`Find`) and the store (`Mark`). Order and
number of loads and stores are those of the unoptimised build that
`src/Makefile` makes. One thread allocates, the others only free what it was
given: with two in malloc both may take the same chunk, there is nothing to
promise. In defrag only the loads of one level are kept together; that it
stores nothing the others read is `DefragWritesNothing`.

The threads in free share `zones.large` (`head` and `next`) with the allocating
one, which pushes, pops and unmaps large chunks while they walk it. Nobody else
writes the list, so that a push or pop is one step here, that of the store which
readers can see: before it, `push` has written the chunk's own field only, and
`pop` has only read. Between `pop`'s store and the munmap, a walk that stands at the
victim reads the field it would have read before. A walk that stands at a chunk which has been
unmapped (`Overtaken`) loads from nowhere: the process crashes (`Crashed`, final), unless
mmap has given the same pages out again, for a new chunk. Then the walk goes on
from that one, and if the pages are unmapped and mapped again in time, over and over, it goes round for ever;
TLC shows both. Neither a lock nor thread safety is promised, so this is no
finding; `ThreadsReturn` makes an exception of it, and `LedToChunks` says that it
is the only way: no walk is *led* to a chunk that is gone.

**LibftMemory**, **LibftStrings**, **LibftNumbers** and **LibftPrint** are
libft's functions as operators on memories, strings and outputs; **LibftCall**
makes a behaviour of one call of one of them with any small arguments, and
**Libft** joins them. A string is a function from 0 on that ends in NUL, and the
model cannot read behind it; a block that malloc gave is a function that grows
with each store, so a store outside of what was asked for shows in its domain.
A loop that does nothing but move an index is the least index at which its
condition fails. **LibftList** is the part of libft with ownership; lists are
clients of malloc that live through several calls.

### Parameters of the client and the environment

`Requests` are the sizes asked for. `CallPhases` says when calls are made:
`{"running"}` for a program's own calls, all three for runs with other
constructors and exit handlers. `WildPointers` are addresses freed although
nobody gave them out. `MaxMapping` and `MunmapMayFail` bound the kernel.
`ForeignReads` says what an access just beyond a zone does: it depends on what
mmap put there, so a run has `{"harmless"}`, `{"fatal"}` or both. `ExactFits =
FALSE` is a restraint of the client: it never resizes a block to exactly the
bytes its chunk can hold. Such a resize makes a header its own successor (a
*trap*, section 5); a client that may do it meets damaged zones, and the runs
`zones`, `damage` and `lifecycle` all let it. Properties that say how
sound zones look have the form `Damaged \/ ...`, where `Damaged` means that
some header is its own successor: zones are sound until the first exact fit.
`NeverDamaged` (section 4) shows that without an exact fit no other zones exist,
and `DamageRemains` that afterwards no call repairs them.
`ZoneBlocksHeld` and `ChunksTileZones` have this form; `BlocksDisjoint`,
`CopyFits` and `ImplementsAllocator` are checked and proved on damaged zones too.

## 3. The runs

| run | module | question |
|-----|--------|----------|
| `zones` | MCFtMalloc | tiling, held blocks, disjointness, copies, and that `FtMalloc` implements `Allocator`, over every sequence of calls on a 96-byte tiny and a 64-byte small zone, exact fits and frees of addresses that are free already or never were blocks included (454k states) |
| `shared_zone` | SharedZone | two threads free what a third allocates: blocks keep their chunks, frees land, nothing is forgotten, the walks of `zones.large` are led to mapped chunks, every call returns unless the large chunk it stands at is unmapped (109k states) |
| `damage` | HeaderWalk | exact fits allowed: loops agree with sets, walks read nothing but headers, malloc never chooses a chunk on damaged zones, damage never goes away |
| `lifecycle` | ShowAllocMem | calls in all phases, stray frees, wrapped sizes, refused mmap and munmap: types, large blocks, leaks, the report, and an answer to every call |
| `list` | MCLargeList | one thread: the pointer steps implement `ChunkList`, list and mappings agree, calls return |
| `list_race` | MCLargeList | two threads: no race unmaps a block somebody owns |
| `libft` | Libft | every call of the memory functions on every memory of four bytes, of the string functions on every string of up to four letters, of `ft_atoi` on every string of up to five characters, of `ft_itoa` on every `int` of 8 bits, and formats of two directives with one write going wrong |
| `libft_list` | MCLibftList | lists, copies and the clean-up after a refused node |
| `claim_*` | DocumentedClaims | four documented claims, each refuted (section 5) |

What `list_race` shows is small on purpose. With two threads the list itself
is *not* right: chunks get lost and a walk can meet an unmapped one, which is
the `crashed` label of the model. No document promises thread safety, so this
is no finding; the run and its theorem say what is left without a lock.

**Bounds.** A tiny zone of 96 bytes has up to six chunks (payload 0 included)
and the small one up to four, enough for a split in front of, between and
behind other chunks, for a full zone and for a hole between two blocks.
The requests are 0 (a chunk of payload 0), 24 (32 bytes of a tiny chunk), 40 (48
bytes of a small chunk) and 80, beyond `SmallMax`, which is 64 (`TinyMax` is
32). Where the request 65535 occurs it is `SIZE_MAX`, since `SizeMod` is 65536.
One or two large bases show the answer of mmap and its refusal. In `damage` and `lifecycle`,
which check more in each state, the tiny zone is 64 bytes. The runs of the list have four
addresses for one thread (so that the victim can be first, inside and last) and
three for two threads. In `shared_zone` the tiny zone (128 bytes, requests
of 24) goes through two splits and keeps a rest that is too small for a third block; the
small one (80 bytes, requests of 40) has room for one block that is not split, and the free
of it walks through the tiny zone while that is split. So every branch of the search is taken
while the others walk. Two large bases give a list of two chunks, and
`MaxMapping` of 64 bytes leaves only the 24-byte request a mapping: it gets
one when the tiny zone is full, in any order with the frees. Two freeing threads are enough for two frees of neighbours at once.
The letters of strings are two, of which each is the delimiter in turn, and so is
NUL; four suffice for two words with delimiters around them. `int` has 8 bits: its
largest value ends in 7 as that of 32 bits does, which is what the overflow tests look at;
strings of five characters reach sign, three digits and one more. Memory moves need four bytes for every overlap of up to
three. `SIZE_MAX` is 7 there, so that products wrap, and `Overhead`, the 39 bytes malloc adds, is 2: products
of 6 and 7 are those it wraps for; lists need six nodes for two of three.

**Deadlock.** It is not checked where a behaviour may end with the exit of
the process, where `hung` and `dead` are reachable, or where a behaviour is one call.
The runs `list` and `libft_list` check it.

**Symmetry** is used for threads and addresses in `list_race` and for nodes
and contents in `libft_list`; nothing in those modules orders them. In
`libft_list` the only temporal property is one of steps.

**Fairness.** `FairSpec` says that a thread that is inside a call keeps being
scheduled until the call returns: `WF(RunningCall)` in `FtMalloc`, and
`SFairSpec` the same in `ShowAllocMem`, `WF(InCall(t))` for each thread in
`LargeList`, `WF(Allocating)` and `WF(Freeing(t))` in `SharedZone`, as long as the process has not crashed. No fairness is assumed of the
client, which need never call, nor of mmap, which may always refuse.
`AnswersEveryCall` means an answer with a block or with NULL; it makes an exception of
damaged zones and of accesses that are fatal. `ThreadsReturn` is written `[]<>(call = NoCall \/ Crashed)`,
which is what `call # NoCall ~> ...` says and is cheaper to check.

## 4. The proofs

All theorems hold for every value of the constants that the assumptions allow:
`LayoutAssumption` (page-aligned zones, disjoint, not at the end of the address
space), `ClientAssumption`, `SharedAssumption`, `ListAssumption`, and for libft
`ListsAssumption`, `MemoryAssumption`, `StringAssumption`, `IntAssumption` and
`PrintAssumption`. TLC evaluates them in the runs. Hypotheses beyond them stand
in the theorem. Every safety property of a passing run is the statement of one
of these theorems.

| theorem | statement | inductive invariant |
|---------|-----------|---------------------|
| `FtMallocProofs!TypeCorrect` | `Spec => []TypeOK` | itself |
| `FtMallocProofs!LargeBlocksSafe` | `Spec => []LargeBlocksHeld` | `LargeInv` |
| `ZoneProofs!NeverDamaged` | `Spec /\ ~ExactFits => [](~Damaged)` | `ZoneInv` |
| `ZoneProofs!ZonesTiled`, `ZoneBlocksSafe`, `BlocksApart`, `CopiesSafe` | the four invariants of the run `zones`, for `Spec /\ DamageLasts` | `ZoneInv` |
| `ZoneProofs!WalksSound`, `PlacementSound`, `DamageRemains` | `WalksReadHeaders`, `PlaceOnSoundHeap`, `DamageStays` of the run `damage`, for `Spec /\ DamageLasts` | `ZoneInv` |
| `LoopProofs!LoopsSound` | `Spec /\ DamageLasts => []LoopsAgree` | `ZoneInv` |
| `LoopProofs!ReportHangs` | `SSpec /\ DamageLasts => []DamageHangsReport` | `ZoneInv` |
| `LoopProofs!ReportExact` | `SSpec /\ DamageLasts => []ReportIsExact` | `LeakInv /\ OrderInv` |
| `ZoneProofs!NoLeaks` | `Spec /\ DamageLasts => []NothingLeaks` | `LeakInv` |
| `ZoneProofs!Implementation` | `Spec /\ DamageLasts /\ RequestsFit => ImplementsAllocator` | `RefinementInv` |
| `SharedZoneProofs!SharedBlocksSafe`, `SharedFreesLand`, `SharedNothingForgotten`, `SharedDefragReads` | the four safety properties of the run `shared_zone` about zones, for any number of threads | `SharedInv` |
| `SharedZoneProofs!SharedWalksLed` | `ZSpec => LedToChunks`, for any number of threads | `SharedInv /\ ListInv` |
| `LargeListProofs!NoUnmapUnderOwner` | `Spec => []OwnedStayMapped`, for any number of threads | `ListInv` |
| `LargeListProofs!ListMatches`, `ListImplements` | `ListMatchesMappings` and `ImplementsChunkList`, for `Spec /\ OneThread` | `OneInv` |
| `LibftListProofs!BothListsHold`, `CopyKeepsOrder`, `LossesAreRefusals` | the three properties of the run `libft_list` | `ListInv` |
| `LibftProofs!MovesAreExact`, `FirstPlacesAreFound`, `CallocClearsOrRefuses` | `MovesExactly`, `FindsFirst`, `CallocClearsAll`, on memories of every size | one step per call |
| `LibftProofs!SearchesAreRight`, `CutsAreTold`, `BlocksAreFilled`, `PiecesAreRight`, `PiecesOrNothing` | `SearchesRight`, `CutsTell`, `BlocksFilled`, `PiecesRight`, `SplitsAllOrNothing`, on strings of every length | one step per call |
| `LibftProofs!NumbersAreRead`, `NumbersReadBack` | `AtoiClamps`, `ItoaReadsBack`, for every width of `int` | one step per call |
| `LibftProofs!BytesAreCounted`, `PrintedAsMeant` | `CountsBytes`, `PrintsMeaning`, for every width of `unsigned int` | one step per call |

*Large chunks.* `LargeBlocksHeld` speaks of the client's blocks only. It is
inductive together with the same statement about the block a realloc has just
been given (`NewLarge`), with "the block being moved is still owned"
(`OldOwned`) and with "mappings keep clear of each other and of the places of
the zones" (`MappingsApart`). No restraint is needed: large blocks are safe on
damaged zones, before the constructor and after the destructor.

*Zones.* The heart of `ZoneInv` is `Tiled` (in `FtMallocProofs`): every mapped
zone begins with a header, every chunk that is no trap ends where another one
or the zone ends, chunks do not overlap, and all addresses and sizes are
multiples of 16. That nothing else wraps follows. `SplitTiled`, `ExpandTiled`,
`TakeTiled` and `GiveBackTiled` say that each writer keeps it.
The other conjuncts tie `live` and the new block of a running realloc to chunks
in use (`OwnedZone`, `NewBlock`), say that the block a running realloc moves is
still listed (`OldListed`), that only small requests search zones
(`SmallRequest`), and that the constructor meets no mapped zone
(`NothingMapped`).

*Damaged zones.* An exact fit writes a header of size `(size_t)-16`, the trap,
where `Tiled` lets it be. A trap is the only damage (`Damaged` iff a trap
exists), only an exact fit writes one (`Sound`), and nothing removes
it: a walk of the tiny and the small zone that comes across it does not end, so
defrag hangs before a search can choose a chunk. That is what `DefragInv` says:
what defrag has passed has no trap in it, and so malloc places blocks on sound
zones only. This is why blocks stay apart and copies stay inside even then.

`DamageLasts`, the hypothesis of these theorems, is `~ExactFits \/
PlacedEnd("tiny") # SmallBase`: if the client makes exact fits, the small zone
does not begin exactly where the tiny one ends. It is needed, and TLC shows why: in
the layout it excludes, a chunk of 0 bytes at the tiny zone's end lets
`consequtiveFreeChunksSize` look up the small zone's first header, and a later
resize then writes over the trap there, so that `DamageStays` fails. The runs
have the other layout, the small zone directly *below* the tiny one, where
Linux puts the second of two mmaps. Clients without exact fits may have
either. Clients that free stray addresses or that call too early or too late are
covered, and so are all outcomes of mmap and munmap.

*Loops.* `LoopsSound` is what lets the model speak of sets of headers where the
code loops. A loop stops at the first header it looks for, at the first trap or
at the zone's end (`StopsAt`; `StopExists` says there is such a place). Until
then each iteration moves on to a larger header, and there are not
enough headers to move on for `Iterations` times (`PositionIs`). Then what
`FtMalloc` takes from the set (the least member, the end of a run of free
chunks) is compared with that place. A recursive definition is a CHOOSE to the
prover, so that its function exists has to be proved first: `Repeatable` of
`CommonLemmas`. `ReportHangs` is of the loop in `showZone`, which counts sizes
instead of comparing addresses: what it has counted is always the distance from
the zone's beginning (`Showing`); at the trap the sum wraps to what it was,
so it stays short of the zone's size.

*The report.* On sound zones the same loop comes to the zone's end, and up to
any header its lines are the chunks in use below that header, ascending
(`Reading`). For the large section `OrderInv` says that the order is a sequence
without repetition of the listed chunks; `Relinked` keeps it. That the chunks in
use and the listed chunks are the client's blocks and no others is `LeakInv`,
and that they are large enough `ZoneInv`; so the lines are as many as the blocks
(`ListsCount`).

*Leaks.* `NothingLeaks` says that each chunk in use and each entry of
`zones.large` is known to the client or to the running realloc, and each
mapping is on the list, a zone, or `lost`. `LeakInv` adds that lost mappings are
on no list (`LostUnlisted`), else unmapping a listed chunk could take a lost one away, and
that a realloc has no new block before it was given one (`NewIsNull`).

*Refinement.* `Implementation` also assumes `RequestsFit`: no request is so
close to `SIZE_MAX` that the allocator's additions wrap. This is needed too
(run `claim_size_max`). Given the invariant, each action maps to a step of
`Allocator` or to a stutter: `Malloc` to `Ask`, `Place` and `CreateLargeChunk`
to `Answer` or `Refuse` (or, in a realloc, to a stutter), `CopyAndFree` to
`Answer`, `Free` to `GiveBack`, `Resize` to `ResizeInPlace`; defrag, the
constructor and the destructor stutter.

*Threads on the zones.* The theorems of `SharedZoneProofs` are about one thread
that allocates and any number that free, between any two of their loads and
stores. `SharedInv` adds to `ZoneInv` where each thread stands: a walk is at a
header or at the zone's end and not past the block it looks for (`WalkAt`); the
chunk that the search has chosen stays free and large enough until it is taken
(`SearchAt`). Two facts carry this. The allocating thread writes
only into chunks that are free and the others only into chunks in use, so none
spoils what another has read. And no header disappears: no chunk is empty
(`NoEmptyChunk`), so `consequtiveFreeChunksSize`, which looks a header up as
the memory of a block, looks at an address that cannot be a chunk, finds
nothing, and defrag never merges. A defrag that did what `src/README.md` says
would take the headers away under the walks of the others.

For the walks of `zones.large` (`ListInv` of `SharedZoneProofs`): the chunks with a
next field are those on the list, all mapped; `head` and each next field is NULL or one of them; no
chunk is the successor of two, nor of one if it is the head, and the fields lead to
an end (`OneWay`). So when `Pop` has redirected one field nothing leads to the victim any more. Of a walk
it says only that it stands at a chunk of the list if it stands at one that is mapped.

*The unlocked list.* `ListInv` of `LargeListProofs` adds only types: each call works on a chunk of
its own that is mapped and not owned, whatever the list looks like.
With one thread the list is right: `OneInv` says that there is a sequence
without repetition that `head` and the next fields spell, which chunks are its
members, and where in it the running push, pop or walk stands. The sequence is
bound by a quantifier, so it needs no recursive definition; `WalkAlong` shows
that the recursive functions of `LargeList` see just this sequence.

*The lists of libft.* `ListInv` of `LibftListProofs` says that there are two sequences of
nodes, bound by a quantifier, that the client's list and the copy of `ft_lstmap` spell. Its
conjuncts: no node is in both and together they are all that is allocated, the node
under way excepted (`Lists`); no content is held twice (`HeldOnce`); a running
`ft_lstmap` stands at the node behind the last one it copied (`Mapping`); and the copy holds what `f` made of
the contents that were asked for, in their order, all of them once `ft_lstmap` has returned
(`Copied`). `LossesAreRefusals` is an action property: a step loses at most one
content (it lives, and no node holds it), and only the step of `ft_lstmap` in which malloc refuses
the node does so.

*The functions of libft.* A behaviour is one call, so nothing has to be inductive
over calls. What has to be proved is what each loop computes, and each loop
is brought to a closed form first. A string is `StringOf` its length, a block
that malloc gave `MadeOf` a text, from which follows that the stores met no byte outside
the block. An output `Delivers` what one step of a printer adds: its
count is that of the bytes less one for each write that failed, `Balance`; through
writes that do not fail it `Sends` one known text. The digits
that `ft_putunbr` sends are `Spelled` with the last one first, and `Horner` is the value that
`ft_atoi`'s loop collects; `NumeralIs` compares it with the reference `Numeral`, the sum of
digits times place weights. What `ft_itoa` writes backwards is `ReadAs` the number forwards.
In `ft_split` the loop returns pieces that are, at increasing places, exactly the runs of characters between delimiters
(`SplitSo`, `AreRuns`), or NULL after freeing all of them;
that `count_split`'s loop counts as many as are written is `CountsFrom`.

The theorems hold for every memory size, letter set, string length and width of
an integer that the assumptions admit: `IntMax` ends in 7, as `INT_MAX` does for
16, 32 and 64 bits, and `UIntMax` is odd. `UIntMax > 20` is there because the
model prints -10, 9 and 10 among others, which have to be values of an `int`; C
promises 16 bits. What they speak of is what the modules call:
formats of two directives with the listed arguments, a printf without widths (as
libft's is), one write going wrong.

*Induction.* Walks, lists, strings and numbers are of unbounded length, and the prover has
no induction over data. Where a proof needs one it takes a least counterexample.
`Least` of `CommonLemmas` proves that a nonempty set of numbers has a least member, by
counting the numbers below it; `Climb` and `Descend` are the two forms a proof takes it in.
`Repeatable` and `Descending` show that a function
that is defined by a number's predecessor, or by any smaller argument, exists.
`CommonLemmas` also has what the proofs need of a sequence
without one of its members (`WithoutIs`) and of chains of nodes that spell a
sequence (`WalkAlong`, `PushedChain`, `CutChain`, `AppendedChain`), which
`LargeListProofs` and `LibftListProofs` share.
The reference definitions that properties compare with are stated so that the prover
can reach them: `Numeral` by weights of places instead of by powers, and the
order of `ft_split`'s pieces by an ordering of the runs.

All invariants were checked with TLC on the configurations above before they
were proved.

**Only model-checked:** liveness (`AnswersEveryCall`, `CallsReturn`,
`ThreadsReturn`). It needs fairness and ENABLED, which are out of the prover's reach.

## 5. Where code and documents differ

Four runs end in a counterexample to what the documents say:

- `claim_coalescing`: `src/README.md:10` says adjacent free blocks are merged.
  `consequtiveFreeChunksSize` (`utils.c:123`) passes a header to `toZone`,
  which looks it up as the memory of a block. It finds one only behind a chunk of
  payload 0. After malloc(8), malloc(8), a free of the second block and
  malloc(8), `defrag` has come to the freed chunk and has left it unmerged with the
  free rest of the zone behind it. (It also begins behind the first chunk of a zone, `ftMalloc.c:5`; pairs
  with that chunk are left out of the claim.)
- `claim_same_size_realloc`: `src/doc/test.md:28` says random calls neither crash
  nor break invariants. A realloc to the payload of the chunk makes `splitChunk` (from
  `ftRealloc.c:40`) write a header of size `(size_t)-16`, and the next malloc
  never returns.
- `claim_read_past_zone`: the same line. `defragSection` (`ftMalloc.c:9`) reads
  a header at the end of a zone when the last chunk is free.
- `claim_size_max`: `src/doc/test.md:27` says `malloc(SIZE_MAX)` returns NULL.
  `reqsize2AllocationSize` wraps, mmap is asked for 38 bytes, and the block is
  delivered.

Met on the way, without a run of their own: `ft_calloc(1, SIZE_MAX)` passes its own size
check, `malloc` answers with the few bytes of `claim_size_max`, and `ft_bzero` runs
out of them (`DoCalloc`, `Short`; `CallocClearsAll` says that it is fatal for no other
product); a free in one thread may crash while another thread unmaps a large chunk (section 2); `src/README.md:9` says best fit, the
code takes an exact fit and else the first; `src/doc/test.md:14` expects realloc to grow
in place, which fails for the reason of `claim_coalescing`; a large block of an
early constructor is taken off the list by this library's constructor and its
mapping is never returned (`lost` in `lifecycle`), although `src/doc/test.md:21`
expects munmap; `realloc(p, SIZE_MAX)` shrinks the block, since
`alignUp` wraps to 0; `src/doc/test.md` #10 expects a
second free of an address to be detected, the code accepts it silently; the large section of `show_alloc_mem` is in the order of
the list, not ascending as `src/test/test.c:828` asks; `src/doc/projectSummary.md` gives
other zone sizes than `defines.h`; `ft_lstmap` loses the content `f` has
just made when its node is refused (`RefusedNodesLoseOneContent` states that no more
than this is lost).

## 6. What is not modelled

- `munmap` of the zones failing in the destructor, and the kernel giving the
  zones' addresses to somebody else afterwards. `FtMalloc` takes every touch of
  a returned zone for a crash.
- Two threads in malloc or realloc on the same zones. Without a lock both can take one chunk,
  and no document promises otherwise. `SharedZone` has one thread there and
  does not let it realloc or ask for 0 bytes (then defrag would merge, and
  `FreesLand` would fail).
- Clients that use a block after they freed it, write past its end, or free
  a stale address that has been given out again: `ftFree` cannot tell that from the
  new owner's free. Stale addresses that are nobody's are in `WildPointers`. `realloc`
  is only called for blocks the client owns.
- The contents of blocks in `FtMalloc`. `CopyFits` is about lengths; that
  `ft_memcpy` moves the bytes is `MovesExactly` of `LibftMemory`.
- The total of `show_alloc_mem`: it adds up the lines that `ReportIsExact` is about.
- What properties leave out on purpose: zones after the first exact fit
  (`Damaged \/ ...`), sizes that wrap (`Fits`, `RequestsFit`), the order of the large section of
  the report, and what two threads do to the list of large chunks beyond `OwnedStayMapped`.
  The hazards that lie there have no property and a note in `PROJECT.json`.
- An `f` of `ft_lstmap` that returns a content the list has already: the model's `f`
  gives fresh content or NULL.
- A malloc under libft's string functions that wraps: they ask for the length of strings that
  are in memory, which are never so long. (`ft_calloc` takes any size, and there it is modelled.)
- Reads behind a string: the string functions are only called with terminated strings,
  and `ft_printf` with formats that do not end in a single `%` (for which
  `ft_vdprintf` would go on behind the terminator).
- The wording of messages; `ft_malloc` and `ft_exit`; the character tests (one
  comparison each); `ft_striteri` and `ft_lstiter`, which only call the
  client's function; the test programs and build files.

## 7. Plan

The order is that of importance: the allocator's core first, then what reads
its state, then what is around it.

1. *Done:* `Layout`, `ZoneHeap`, `FtMalloc` with `Allocator` as its abstract
   specification; `HeaderWalk`, `ShowAllocMem`, `DocumentedClaims`; `LargeList`
   with `ChunkList`; `SharedZone`; libft's lists, memory, strings, numbers and
   printing; the proofs of section 4.
2. *Done:* zones sound *until* the first exact fit instead of without one, and
   what is left of them after it; the loops of `utils.c` and of `showAllocMem.c`;
   the report; leaks; the list of one thread; the threads of `SharedZone`.
3. *Done:* libft: the ownership and the order of its lists, and what each of its
   memory, string, number and printing functions returns.

What is left is outside of what the provers or the code allow: liveness, which stays with TLC,
and two threads inside malloc, for which no document states what should hold.
