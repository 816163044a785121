------------------------------ MODULE FtMalloc ------------------------------
(***************************************************************************)
(* The allocator: the library's constructor and destructor, ftMalloc,      *)
(* ftFree and ftRealloc over the two pre-allocated zones and the list of   *)
(* large chunks.                                                           *)
(*                                                                         *)
(* The process is single-threaded (the code takes no lock).  free is one   *)
(* step; malloc and the reallocations that call it are several, so that    *)
(* each level of defragSection's recursion is a step of its own.           *)
(***************************************************************************)
EXTENDS ZoneHeap

CONSTANTS
  Requests,       \* the sizes the client asks for
  WildPointers,   \* addresses the client may free although nobody gave them out
  CallPhases,     \* the phases of the process in which the client calls
  ExactFits,      \* may it resize a block to exactly what its chunk can hold?
  MaxMapping,     \* the longest mapping the kernel grants
  MunmapMayFail,  \* may munmap of a large chunk fail?
  ForeignReads    \* what reading past a zone into foreign memory can do

ASSUME ClientAssumption ==
  /\ Requests \subseteq SizeT
  /\ WildPointers \subseteq Nat
  /\ CallPhases \subseteq {"loading", "running", "exited"}
  /\ ExactFits \in BOOLEAN /\ MunmapMayFail \in BOOLEAN
  /\ MaxMapping \in Nat
  /\ ForeignReads \subseteq {"harmless", "fatal"}

VARIABLES
  base,    \* zones.tiny.base and zones.small.base
  heap,    \* the chunk headers of both zones
  large,   \* the list zones.large: payloadSize of each chunk, by its memory
  maps,    \* the kernel's mappings: length by base address (external)
  phase,   \* of the process: before the constructor, in between, after exit
  pc,      \* where the running call is; "hung" and "dead" are final
  call,    \* the running call: block being reallocated, size, new block
  cur,     \* defragSection's argument: zone and address of start
  live,    \* history: requested size of every block the client owns
  lost     \* history: mappings of large chunks that are on no list any more

vars == <<base, heap, large, maps, phase, pc, call, cur, live, lost>>
memory == <<base, heap, large, maps, lost>>

NoCall == [ptr |-> NULL, size |-> -1, new |-> NULL]
NoCursor == [zone |-> "tiny", at |-> NULL]

-----------------------------------------------------------------------------
\* Zones and lookups

Initialised == \A z \in ZoneNames : base[z] # NULL

\* A zone whose pages the destructor has returned: touching it is SIGSEGV.
Unmapped == \E z \in ZoneNames : base[z] # NULL /\ base[z] \notin DOMAIN maps

ToFirstChunk(z) == base[z] + DistanceToNextAlignment(base[z])
ToZoneEnd(z) == IF base[z] = NULL THEN NULL ELSE base[z] + ZoneSize(z)

Chunks(z) == Walk(heap, ToFirstChunk(z), ToZoneEnd(z))
ChainEndless(z) == Endless(heap, ToFirstChunk(z), ToZoneEnd(z))

\* findChunk(mem, z) returns a header, tiny having been searched before small.
InZone(m, z) ==
  /\ ChunkOf(m) \in DOMAIN heap
  /\ ChunkOf(m) \in Chunks(z)
  /\ z = "small" => ChunkOf(m) \notin Chunks("tiny") /\ ~ChainEndless("tiny")

InNoZone(m) == \A z \in ZoneNames : ChunkOf(m) \notin Chunks(z) /\ ~ChainEndless(z)

LookupHangs(m) == ~InNoZone(m) /\ \A z \in ZoneNames : ~InZone(m, z)

\* Mutant: the zone of the memory behind the header is looked up.
ConsecutiveFreeOfMem(s, t) ==
  \/ t = s /\ InNoZone(Mem(s))
  \/ \E z \in ZoneNames : FreeRunEndsAt(heap, s, ToZoneEnd(z), t) /\ InZone(Mem(s), z)

\* consequtiveFreeChunksSize(s) returns t - s.  It looks s, the address of a
\* header, up as if it were the memory of a block.
ConsecutiveFree(s, t) ==
  \/ t = s /\ InNoZone(s)
  \/ \E z \in ZoneNames : FreeRunEndsAt(heap, s, ToZoneEnd(z), t) /\ InZone(s, z)

ConsecutiveFreeHangs(s) ==
  \/ LookupHangs(s)
  \/ \E z \in ZoneNames : FreeRunEndless(heap, s, ToZoneEnd(z)) /\ InZone(s, z)

\* Where a run of chunks after header a can stop.
Stops(a) == DOMAIN heap \cup { ToZoneEnd(z) : z \in ZoneNames } \cup {ToNext(heap, a)}

\* What expandChunk(a, goal) makes of the heap when the run stops at t, if the
\* chunk then holds the goal.
Expanded(a, t) == Expand(heap, a, t - ToNext(heap, a))
Reaches(a, t, goal) == Wrap(t - ToNext(heap, a) + heap[a].size) >= goal

-----------------------------------------------------------------------------
\* How a call ends

Stop(how) ==
  /\ pc' = how
  /\ cur' = NoCursor
  /\ UNCHANGED <<memory, phase, call, live>>
Hang == Stop("hung")
Crash == Stop("dead")

\* ftMalloc returns m to the client, or to the ftRealloc that called it.
Deliver(m) ==
  /\ cur' = NoCursor
  /\ IF call.ptr = NULL \/ m = NULL
       THEN /\ pc' = "idle"
            /\ call' = NoCall
            /\ live' = IF m = NULL THEN live
                       ELSE [p \in DOMAIN live \cup {m} |-> IF p = m THEN call.size ELSE live[p]]
       ELSE /\ pc' = "copy"
            /\ call' = [call EXCEPT !.new = m]
            /\ live' = live

-----------------------------------------------------------------------------
\* ftMalloc

\* Entry of ftMalloc, called for the client or by ftRealloc for block p.
FtMalloc(p, n) ==
  \/ /\ n > SmallMax
     /\ pc' = "map"
     /\ call' = [ptr |-> p, size |-> n, new |-> NULL]
     /\ UNCHANGED <<memory, phase, cur, live>>
  \/ /\ n <= SmallMax /\ Initialised /\ ~Unmapped
     /\ pc' = "defrag"
     /\ cur' = [zone |-> "tiny", at |-> ToFirstChunk("tiny")]
     /\ call' = [ptr |-> p, size |-> n, new |-> NULL]
     /\ UNCHANGED <<memory, phase, live>>
  \/ /\ n <= SmallMax /\ Initialised /\ Unmapped
     /\ Crash
  \/ /\ n <= SmallMax /\ ~Initialised    \* "zones are not initialized": NULL
     /\ UNCHANGED vars

\* Mutant: defrag() does the tiny zone only.
EndTinySection ==
  /\ cur' = NoCursor
  /\ pc' = "place"
  /\ UNCHANGED <<memory, phase, call, live>>

EndSection ==
  /\ \/ /\ cur.zone = "tiny"
        /\ cur' = [zone |-> "small", at |-> ToFirstChunk("small")]
        /\ pc' = "defrag"
     \/ /\ cur.zone = "small"
        /\ cur' = NoCursor
        /\ pc' = "place"
  /\ UNCHANGED <<memory, phase, call, live>>

\* Mutant: the recursion is entered with start again.
DefragSameChunk(first, t) ==
  /\ heap' = IF Reaches(first, t, CHUNK_MINIMUM_SIZE) THEN Expanded(first, t) ELSE heap
  /\ UNCHANGED <<base, large, maps, phase, pc, call, cur, live, lost>>

\* findFree(toNext(start), end) finds `first'; expandChunk(first, 32).
DefragChunk(first, t) ==
  /\ heap' = IF Reaches(first, t, CHUNK_MINIMUM_SIZE) THEN Expanded(first, t) ELSE heap
  /\ cur' = [cur EXCEPT !.at = ToNext(heap', first)]
  /\ UNCHANGED <<base, large, maps, phase, pc, call, live, lost>>

\* One level of defragSection's recursion, start = cur.at.  The tiny zone's
\* section is followed by the small zone's.
DefragSection ==
  LET end == ToZoneEnd(cur.zone)
      seen == Walk(heap, ToNext(heap, cur.at), end)
      free == { a \in seen : heap[a].free }
  IN  /\ pc = "defrag"
      /\ cur.at # end
      /\ \/ \E first \in free :
              /\ IsFirst(free, first)
              /\ \/ \E t \in Stops(first) :
                      /\ ConsecutiveFree(ToNext(heap, first), t)
                      /\ DefragChunk(first, t)
                 \/ ConsecutiveFreeHangs(ToNext(heap, first)) /\ Hang
         \/ free = {} /\ EndSection

\* The recursion went on past the last chunk: toNext(start) reads a header at
\* the zone's end, which is the tiny zone's first one or foreign memory.
DefragPastEnd ==
  /\ pc = "defrag"
  /\ cur.at = ToZoneEnd(cur.zone)
  /\ \/ /\ cur.at \in DOMAIN heap \/ "harmless" \in ForeignReads
        /\ EndSection
     \/ /\ cur.at \notin DOMAIN heap /\ "fatal" \in ForeignReads
        /\ Crash

ZoneFor(n) == IF n <= TinyMax THEN "tiny" ELSE "small"

\* After defrag: an exact free chunk, else the first that fits, else mmap.
Place ==
  LET need == AlignUp(call.size)
      z == ZoneFor(call.size)
      exact == { a \in Chunks(z) : heap[a].size = need /\ heap[a].free }
      fitting == { a \in Chunks(z) : heap[a].size >= need /\ heap[a].free }
  IN  /\ pc = "place"
      /\ \/ \E a \in exact :
              /\ IsFirst(exact, a)
              /\ heap' = SetFree(heap, a, FALSE)
              /\ Deliver(Mem(a))
         \/ \E a \in fitting :
              /\ exact = {}
              /\ IsFirst(fitting, a)
              /\ heap' = IF heap[a].size >= need + CHUNK_MINIMUM_SIZE
                           THEN SetFree(SplitChunk(heap, a, need), a, FALSE)
                           ELSE SetFree(heap, a, FALSE)
              /\ Deliver(Mem(a))
         \/ /\ fitting = {}
            /\ pc' = "map"
            /\ UNCHANGED <<heap, call, cur, live>>
      /\ UNCHANGED <<base, large, maps, phase, lost>>

\* A mapping starts at a multiple of 16: the header of a large chunk is moved
\* up so that the memory after it does as well.
FrontPad == DistanceToNextAlignment(LARGE_HEADER)
\* Mutant: the header stays at the start of the mapping.
LargeChunk2MemUnpadded(b) == b + LARGE_HEADER
LargeChunk2Mem(b) == b + FrontPad + LARGE_HEADER
\* Mutant: the pad in front of the header is forgotten.
ToBaseWithoutPad(m) == m - LARGE_HEADER
ToBase(m) == m - LARGE_HEADER - FrontPad

\* mmap returns a range that is in no other mapping (external).
Vacant(b, length) ==
  /\ \A c \in DOMAIN maps : b + length <= c \/ c + maps[c] <= b
  /\ \A z \in ZoneNames : b + length <= PlacedAt(z) \/ PlacedEnd(z) <= b

\* createLargeChunk and push.
CreateLargeChunk ==
  LET length == Reqsize2AllocationSize(call.size)
  IN  /\ pc = "map"
      /\ \/ \E b \in LargeBases \ DOMAIN maps :
              /\ 0 < length /\ length <= MaxMapping /\ Vacant(b, length)
              /\ maps' = [c \in DOMAIN maps \cup {b} |-> IF c = b THEN length ELSE maps[c]]
              /\ large' = [m \in DOMAIN large \cup {LargeChunk2Mem(b)} |->
                             IF m = LargeChunk2Mem(b)
                               THEN Wrap(length - FrontPad - LARGE_HEADER)
                               ELSE large[m]]
              /\ Deliver(LargeChunk2Mem(b))
         \/ Deliver(NULL) /\ UNCHANGED <<maps, large>>    \* MAP_FAILED
      /\ UNCHANGED <<base, heap, phase, lost>>

-----------------------------------------------------------------------------
\* ftFree

\* What ftFree(p) does when it returns: pop and munmap, mark a chunk free, or
\* refuse an address it does not know.
Release(p) ==
  \/ /\ p \in DOMAIN large
     /\ large' = [m \in DOMAIN large \ {p} |-> large[m]]
     /\ \/ maps' = [b \in DOMAIN maps \ {ToBase(p)} |-> maps[b]] /\ lost' = lost
        \/ MunmapMayFail /\ maps' = maps /\ lost' = lost \cup {ToBase(p)}
     /\ UNCHANGED <<base, heap>>
  \/ /\ p \notin DOMAIN large /\ p # NULL /\ ~Unmapped
     /\ \E z \in ZoneNames : InZone(p, z)
     /\ heap' = SetFree(heap, ChunkOf(p), TRUE)
     /\ UNCHANGED <<base, large, maps, lost>>
  \/ /\ p \notin DOMAIN large
     /\ p # NULL => ~Unmapped /\ InNoZone(p)
     /\ UNCHANGED memory

\* free(p), and realloc(p, 0).
Free(p) ==
  /\ pc = "idle"
  /\ \/ /\ Release(p)
        /\ live' = [q \in DOMAIN live \ {p} |-> live[q]]
        /\ UNCHANGED <<phase, pc, call, cur>>
     \/ /\ p \notin DOMAIN large /\ p # NULL
        /\ IF Unmapped THEN Crash ELSE LookupHangs(p) /\ Hang

-----------------------------------------------------------------------------
\* malloc and ftRealloc

\* malloc(n), and realloc(NULL, n).
Malloc(n) == pc = "idle" /\ FtMalloc(NULL, n)

\* splitChunk writes a header beyond the zone: into the tiny zone when that
\* lies there, else into memory that is not the allocator's.
InsideSomeZone(a) == \E z \in ZoneNames : base[z] <= a /\ a < ToZoneEnd(z)

\* The in-place branch of ftRealloc: expandChunk has succeeded with the run
\* stopping at t, and splitChunk follows whatever is left over.
Resize(p, n, t) ==
  LET a == ChunkOf(p)
      need == AlignUp(n)
      grown == Expanded(a, t)
      split == SplitChunk(grown, a, need)
      rest == RestOf(a, need)
  IN  /\ Reaches(a, t, need)
      /\ ExactFits \/ grown[a].size # need    \* restraint of the client
      /\ \/ /\ InsideSomeZone(rest)
            /\ heap' = split
         \/ /\ ~InsideSomeZone(rest) /\ "harmless" \in ForeignReads
            /\ heap' = [b \in DOMAIN grown |-> split[b]]
      /\ live' = [live EXCEPT ![p] = n]
      /\ UNCHANGED <<base, large, maps, phase, pc, call, cur, lost>>

\* The same with memory beyond the zone that cannot be written.
ResizeCrashes(p, n, t) ==
  /\ Reaches(ChunkOf(p), t, AlignUp(n))
  /\ ExactFits
  /\ ~InsideSomeZone(RestOf(ChunkOf(p), AlignUp(n))) /\ "fatal" \in ForeignReads
  /\ Crash

\* realloc(p, n), p not NULL and n not 0.
Realloc(p, n) ==
  LET a == ChunkOf(p)
      s == ToNext(heap, a)
  IN  /\ pc = "idle"
      /\ n # 0
      /\ \/ /\ p \in DOMAIN large
            /\ FtMalloc(p, n)
         \/ /\ p \notin DOMAIN large /\ ~Unmapped
            /\ \/ /\ \E z \in ZoneNames : InZone(p, z)
                  /\ \/ \E t \in Stops(a) :
                          /\ ConsecutiveFree(s, t)
                          /\ \/ Resize(p, n, t)
                             \/ ResizeCrashes(p, n, t)
                             \/ ~Reaches(a, t, AlignUp(n)) /\ FtMalloc(p, n)
                     \/ ConsecutiveFreeHangs(s) /\ Hang
               \/ InNoZone(p) /\ UNCHANGED vars    \* toZone fails: NULL
               \/ LookupHangs(p) /\ Hang
         \/ /\ p \notin DOMAIN large /\ Unmapped
            /\ Crash

\* Mutant: the whole old block is copied.
CopyOldBlock ==
  IF call.ptr \in DOMAIN large THEN large[call.ptr] ELSE heap[ChunkOf(call.ptr)].size

\* The number of bytes ftRealloc copies.
CopyLength ==
  MinOf(IF call.ptr \in DOMAIN large THEN large[call.ptr] ELSE heap[ChunkOf(call.ptr)].size,
        call.size)

\* Mutant: ftRealloc forgets ftFree.
CopyWithoutFree ==
  /\ pc = "copy"
  /\ live' = [p \in (DOMAIN live \ {call.ptr}) \cup {call.new} |->
                IF p = call.new THEN call.size ELSE live[p]]
  /\ pc' = "idle"
  /\ call' = NoCall
  /\ UNCHANGED <<memory, phase, cur>>

\* ftRealloc after ftMalloc has given it a new block: memcpy, then ftFree of
\* the old one, which its lookups have already found once.
CopyAndFree ==
  /\ pc = "copy"
  /\ Release(call.ptr)
  /\ live' = [p \in (DOMAIN live \ {call.ptr}) \cup {call.new} |->
                IF p = call.new THEN call.size ELSE live[p]]
  /\ pc' = "idle"
  /\ call' = NoCall
  /\ UNCHANGED <<phase, cur>>

-----------------------------------------------------------------------------
\* The library's constructor and destructor

FirstChunk(z) ==
  [size |-> ZoneSize(z) - DistanceToNextAlignment(PlacedAt(z)) - HEADER, free |-> TRUE]

\* mmap succeeds for the zones in mapped: the small one is only tried after
\* the tiny one.
InitializePreAllocatedZones ==
  /\ phase = "loading" /\ pc = "idle"
  /\ phase' = "running"
  /\ large' = [m \in {} |-> 0]
  /\ lost' = lost \cup { ToBase(m) : m \in DOMAIN large }
  /\ \E mapped \in {{}, {"tiny"}, {"tiny", "small"}} :
       /\ base' = [z \in ZoneNames |-> IF z \in mapped THEN PlacedAt(z) ELSE NULL]
       /\ heap' = [a \in { PlacedAt(z) + DistanceToNextAlignment(PlacedAt(z)) : z \in mapped } |->
                     FirstChunk(CHOOSE z \in mapped :
                                  a = PlacedAt(z) + DistanceToNextAlignment(PlacedAt(z)))]
       /\ maps' = [b \in DOMAIN maps \cup { PlacedAt(z) : z \in mapped } |->
                     IF b \in DOMAIN maps THEN maps[b]
                     ELSE ZoneSize(CHOOSE z \in mapped : b = PlacedAt(z))]
  /\ UNCHANGED <<pc, call, cur, live>>

\* The zones are unmapped, zones.tiny and zones.small keep their bases.
CleanupPreAllocatedZones ==
  /\ phase = "running" /\ pc = "idle"
  /\ phase' = "exited"
  /\ maps' = [b \in DOMAIN maps \ { base[z] : z \in ZoneNames } |-> maps[b]]
  /\ UNCHANGED <<base, heap, large, pc, call, cur, live, lost>>

-----------------------------------------------------------------------------
Init ==
  /\ base = [z \in ZoneNames |-> NULL]
  /\ heap = [a \in {} |-> FirstChunk("tiny")]
  /\ large = [m \in {} |-> 0]
  /\ maps = [b \in {} |-> 0]
  /\ phase = "loading"
  /\ pc = "idle"
  /\ call = NoCall
  /\ cur = NoCursor
  /\ live = [p \in {} |-> 0]
  /\ lost = {}

ClientCall ==
  /\ phase \in CallPhases
  /\ \/ \E n \in Requests : Malloc(n)
     \/ \E p \in DOMAIN live \cup WildPointers : Free(p)
     \/ \E p \in DOMAIN live, n \in Requests : Realloc(p, n)

RunningCall ==
  \/ DefragSection
  \/ DefragPastEnd
  \/ Place
  \/ CreateLargeChunk
  \/ CopyAndFree

Next ==
  \/ InitializePreAllocatedZones
  \/ CleanupPreAllocatedZones
  \/ ClientCall
  \/ RunningCall

Spec == Init /\ [][Next]_vars

\* The thread that is inside a call is scheduled until the call returns.
FairSpec == Spec /\ WF_vars(RunningCall)
-----------------------------------------------------------------------------
(***************************************************************************)
(* Properties                                                              *)
(***************************************************************************)

Damaged == \E a \in DOMAIN heap : Loops(heap, a)

\* A request whose size survives the additions ftMalloc makes to it.
Fits(n) == n + (ALIGNMENT - 1) + LARGE_HEADER < SizeMod

Running == {"defrag", "place", "map", "copy"}

MemoryOK ==
  /\ base \in [ZoneNames -> Nat]
  /\ \A z \in ZoneNames : base[z] \in {NULL, PlacedAt(z)}
  /\ heap \in [DOMAIN heap -> Header]
  /\ DOMAIN heap \subseteq Nat
  /\ large \in [DOMAIN large -> SizeT]
  /\ DOMAIN large \subseteq { LargeChunk2Mem(b) : b \in LargeBases }
  /\ maps \in [DOMAIN maps -> Nat]
  /\ DOMAIN maps \subseteq LargeBases \cup { PlacedAt(z) : z \in ZoneNames }
  /\ lost \subseteq LargeBases

CallOK ==
  /\ phase \in {"loading", "running", "exited"}
  /\ pc \in Running \cup {"idle", "hung", "dead"}
  /\ call \in [ptr : Nat, size : SizeT \cup {-1}, new : Nat]
  /\ pc \in Running => call.size \in SizeT
  /\ cur \in [zone : ZoneNames, at : Nat]
  /\ live \in [DOMAIN live -> SizeT]
  /\ DOMAIN live \subseteq Nat

\* The variables hold what the C types and the call protocol allow: whatever
\* the client asks, also of a damaged heap, sizes stay size_t, the list holds
\* chunks of large mappings only, and a running call has a size.
TypeOK == MemoryOK /\ CallOK

\* Until a resize has written a header over another one, the chunks of a zone
\* cover it exactly: every walk goes from the first header to the zone's end.
Inside(z) == { a \in DOMAIN heap : ToFirstChunk(z) <= a /\ a < ToZoneEnd(z) }
ChunksTileZone(z) ==
  /\ ToFirstChunk(z) \in Inside(z)
  /\ \A a \in Inside(z) :
       /\ ToNext(heap, a) \in Inside(z) \cup {ToZoneEnd(z)}
       /\ \A b \in Inside(z) : a < b => ToNext(heap, a) <= b
ChunksTileZones == Damaged \/ \A z \in ZoneNames : base[z] # NULL => ChunksTileZone(z)

IsLarge(p) == \E b \in LargeBases : p = LargeChunk2Mem(b)

\* A large block the client owns lies in its own mapping, whatever has become
\* of the zones, and the list, if it still has the block, knows its size.
LargeBlocksHeld ==
  \A p \in DOMAIN live :
    IsLarge(p) /\ Fits(live[p]) =>
      /\ ToBase(p) \in DOMAIN maps
      /\ p + live[p] <= ToBase(p) + maps[ToBase(p)]
      /\ p \in DOMAIN large => live[p] <= large[p]

\* A block the client owns in a zone has a chunk that is in use and at least
\* as large as what was asked for.
ZoneBlocksHeld ==
  Damaged \/
  \A p \in DOMAIN live :
    ~IsLarge(p) /\ Fits(live[p]) =>
      /\ ChunkOf(p) \in DOMAIN heap
      /\ ~heap[ChunkOf(p)].free
      /\ live[p] <= heap[ChunkOf(p)].size

\* No two blocks overlap, and none reaches into another one's header, whether
\* or not a resize has damaged the zones.
BlocksDisjoint ==
  \A p, q \in DOMAIN live :
    p < q /\ Fits(live[p]) =>
      p + live[p] <= q - (IF IsLarge(q) THEN LARGE_HEADER ELSE HEADER)

\* Nothing leaks: a chunk in use, and a listed mapping, belongs to the client
\* or is the new block of the running realloc; the mappings are the listed ones
\* and those the history variable lost accounts for.
NothingLeaks ==
  /\ Damaged \/ \A a \in DOMAIN heap :
                   ~heap[a].free => Mem(a) \in DOMAIN live \cup {call.new}
  /\ DOMAIN large \subseteq DOMAIN live \cup {call.new}
  /\ { b \in DOMAIN maps : b \in LargeBases } = { ToBase(m) : m \in DOMAIN large } \cup lost

\* The memcpy of ftRealloc moves all the bytes both blocks have for the client,
\* and never more than the new block holds.
Capacity(p) == IF IsLarge(p) THEN large[p] ELSE heap[ChunkOf(p)].size
CopyFits ==
  pc = "copy" /\ Fits(call.size) /\ Fits(live[call.ptr]) =>
    /\ MinOf(live[call.ptr], call.size) <= CopyLength
    /\ CopyLength <= Capacity(call.ptr)
    /\ CopyLength <= Capacity(call.new)

\* Every header a walk can reach has its successor on the chain too, or is the
\* zone's last, or is its own successor: walks read nothing but headers.
WalksReadHeaders ==
  \A z \in ZoneNames : \A a \in Chunks(z) :
    ToNext(heap, a) \in Chunks(z) \cup {a, ToZoneEnd(z)}

\* Before malloc chooses a chunk, defrag has walked both zones to their ends:
\* on a damaged heap it never comes to the choice.
PlaceOnSoundHeap == pc = "place" => ~Damaged

\* No block is ever given out again from a damaged zone: the damage stays.
DamageStays == [][Damaged => Damaged']_vars

-----------------------------------------------------------------------------
\* What a client sees: its blocks, and the request that is being served.
Abstract == INSTANCE Allocator WITH
  Sizes <- Requests,
  owned <- live,
  asked <- [ptr |-> call.ptr, size |-> call.size]

\* The allocator does nothing that an allocator must not do: every step of
\* malloc, free and realloc is one the abstract specification allows.
ImplementsAllocator == Abstract!ASafety

\* Every malloc and every realloc comes to an answer, a block or NULL, as long
\* as no resize has damaged the zones and no read past a zone has been fatal.
AnswersEveryCall == call # NoCall ~> call = NoCall \/ Damaged \/ pc = "dead"
=============================================================================
