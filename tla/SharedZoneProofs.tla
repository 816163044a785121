-------------------------- MODULE SharedZoneProofs --------------------------
(***************************************************************************)
(* The zones without a lock: what holds for every number of threads that   *)
(* free, and every interleaving of their loads and stores with those of    *)
(* the one that allocates.                                                 *)
(*                                                                         *)
(* Of the zones, everything rests on two facts.  No header ever            *)
(* disappears, because no chunk is empty and so defrag finds nothing to    *)
(* merge; and no one changes a chunk that is not his: the thread that      *)
(* allocates takes free chunks, the others mark chunks in use.             *)
(*                                                                         *)
(* Of the list of large chunks, on one: only the thread that allocates     *)
(* writes it, and so its head and next fields lead to chunks that are      *)
(* mapped, whoever stands at one that is not.                              *)
(***************************************************************************)
EXTENDS SharedZone, ZoneProofs

SearchSteps == {"none", "exact", "fit", "split", "shorten", "take"}
WalkSteps == {"idle", "list", "crashed", "find", "again", "mark"}

\* The current of a walk over zone z: a header of it, or its end.
OnChain(h, z, a) == (a \in DOMAIN h /\ InPlace(z, a)) \/ a = PlacedEnd(z)

NoEmptyChunk(h) == \A a \in DOMAIN h : h[a].size >= 16

\* The tiny zone is mapped first.
TinyFirst == "small" \in Mapped => "tiny" \in Mapped

\* Calls are mallocs, of more than 0 bytes.
Serving ==
  /\ pc # "copy"
  /\ pc \in Running => call.ptr = NULL /\ call.size \in Requests
  /\ pc \in {"defrag", "place"} => Initialised

\* The chunk the search has chosen: it stays free and large enough until it is
\* taken.
Fitting(h, z, a, need) ==
  a \in DOMAIN h /\ InPlace(z, a) /\ h[a].free /\ h[a].size >= need

SearchAt(h, z, need, s) ==
  /\ s.step = "none" => s = NoSearch
  /\ s.step \in {"exact", "fit"} => OnChain(h, z, s.at)
  /\ s.step \in {"split", "shorten", "take"} => Fitting(h, z, s.at, need)
  /\ s.step \in {"split", "shorten"} => h[s.at].size >= need + 32
  /\ s.step = "shorten" => s.rest = [size |-> h[s.at].size - need - 16, free |-> TRUE]

SearchInv ==
  /\ search \in [step : SearchSteps, at : Nat, rest : Header]
  /\ IF pc = "place" THEN SearchAt(heap, Zone, Need, search) ELSE search = NoSearch

\* A thread that frees has a chunk in use, and has not walked past it.
WalkAt(h, w) ==
  w.step # "idle" =>
    /\ ~IsLarge(w.mem)
    /\ ChunkOf(w.mem) \in DOMAIN h /\ ~h[ChunkOf(w.mem)].free
    /\ w.step = "mark" => w.at = ChunkOf(w.mem)
    /\ w.step \in {"find", "again"} =>
         /\ w.zone \in Mapped
         /\ OnChain(h, w.zone, w.at)
         /\ InPlace(w.zone, ChunkOf(w.mem)) => w.at <= ChunkOf(w.mem)
         /\ w.step = "again" \/ w.zone = "small" => InPlace(w.zone, ChunkOf(w.mem))

\* Nobody else has its block.
WalkInv ==
  /\ walk \in [Freers -> [step : WalkSteps, mem : Nat, zone : ZoneNames, at : Nat]]
  /\ \A t \in Freers : WalkAt(heap, walk[t])
  /\ \A t \in Freers : Busy(t) => walk[t].mem \notin DOMAIN live
  /\ \A t, u \in Freers : Busy(t) /\ Busy(u) /\ walk[t].mem = walk[u].mem => t = u

SharedInv ==
  /\ ZoneInv
  /\ NoTraps /\ NoEmptyChunk(heap)
  /\ TinyFirst
  /\ Serving
  /\ SearchInv
  /\ WalkInv
  /\ NothingForgotten

\* zones.large: what it leads to is in it, and it leads nowhere twice.
OneWay(chunks, h, nx) ==
  /\ DOMAIN nx = chunks
  /\ h \in chunks \cup {NULL}
  /\ \A c \in chunks : nx[c] \in chunks \cup {NULL} /\ (nx[c] # NULL => nx[c] # h)
  /\ \A c, d \in chunks : nx[c] = nx[d] /\ nx[c] # NULL => c = d
  /\ \E r \in [chunks -> Nat] : \A c \in chunks : nx[c] # NULL => r[nx[c]] < r[c]

\* A chunk that is mapped is on the list, also if it is one a free has been
\* standing at since before.
ListInv ==
  /\ OneWay(DOMAIN large, head, next)
  /\ \A m \in DOMAIN large : ToBase(m) \in DOMAIN maps
  /\ \A t \in Freers :
       walk[t].step = "list" /\ ToBase(walk[t].at) \in DOMAIN maps
         => walk[t].at \in DOMAIN large

-----------------------------------------------------------------------------
\* The facts of FtMalloc's proofs that are used throughout.
LEMMA Basics ==
  ASSUME SharedInv
  PROVE  /\ TypeOK /\ MemoryOK /\ CallOK /\ HeaderMap(heap)
         /\ Tiled(heap, Mapped) /\ Mapped \in SUBSET ZoneNames
         /\ \A a \in DOMAIN heap : a \in Nat /\ ~Trap(heap, a)
         /\ \A a \in DOMAIN heap : heap[a].size \in Nat /\ heap[a].size >= 16
         /\ \A p \in DOMAIN live : ~IsLarge(p) => ZoneHeld(heap, p, live[p])
<1>1. TypeOK /\ MemoryOK /\ CallOK /\ Tiled(heap, Mapped) /\ OwnedZone
  BY DEF SharedInv, ZoneInv, LargeInv, TypeOK
<1>2. HeaderMap(heap) /\ Mapped \in SUBSET ZoneNames
  BY <1>1 DEF Tiled, Mapped
<1>3. \A a \in DOMAIN heap : a \in Nat /\ heap[a].size \in Nat
  BY <1>2, TiledTypes
<1> QED
  BY <1>1, <1>2, <1>3 DEF SharedInv, NoTraps, NoEmptyChunk, OwnedZone

\* What a walk reads: headers one behind the other, up to the zone's end.
LEMMA NextOnChain ==
  ASSUME SharedInv, NEW z \in Mapped, NEW a \in DOMAIN heap, InPlace(z, a)
  PROVE  /\ OnChain(heap, z, ToNext(heap, a)) /\ ToNext(heap, a) \in Nat
         /\ a + 32 <= ToNext(heap, a)
         /\ \A b \in DOMAIN heap : a < b => ToNext(heap, a) <= b
<1>1. ToNext(heap, a) = ChunkEnd(heap, a) /\ a \in Nat /\ ChunkEnd(heap, a) \in Nat
  BY Basics, TiledNext, TiledTypes
<1>2. a + 32 <= ChunkEnd(heap, a)
  BY <1>1, Basics, SMT DEF ChunkEnd
<1>3. PICK y \in Mapped : Seated(heap, y, a)
  BY Basics DEF Tiled
<1>4. y = z
  BY <1>1, <1>3, Basics, OneZone DEF Seated
<1>5. /\ ChunkEnd(heap, a) \in DOMAIN heap \cup {PlacedEnd(z)}
      /\ ChunkEnd(heap, a) <= PlacedEnd(z)
  BY <1>3, <1>4, Basics DEF Seated
<1>6. PlacedAt(z) \in Nat /\ PlacedEnd(z) \in Nat
  BY Basics, ZoneBounds
<1>7. OnChain(heap, z, ChunkEnd(heap, a))
  BY <1>1, <1>2, <1>5, <1>6, SMT DEF OnChain, InPlace
<1>8. \A b \in DOMAIN heap : a < b => ChunkEnd(heap, a) <= b
  BY Basics DEF Tiled
<1> QED
  BY <1>1, <1>2, <1>7, <1>8

LEMMA ChainStart ==
  ASSUME SharedInv, NEW z \in Mapped
  PROVE  /\ z \in ZoneNames /\ ToZoneEnd(z) = PlacedEnd(z) /\ PlacedEnd(z) \in Nat
         /\ OnChain(heap, z, ToFirstChunk(z)) /\ ToFirstChunk(z) \in Nat
         /\ \A b : InPlace(z, b) => ToFirstChunk(z) <= b
<1>1. /\ z \in ZoneNames /\ ToZoneEnd(z) = PlacedEnd(z) /\ ToFirstChunk(z) = PlacedAt(z)
      /\ PlacedAt(z) \in Nat /\ PlacedEnd(z) \in Nat /\ PlacedAt(z) < PlacedEnd(z)
  BY Basics, ZoneBounds
<1>2. PlacedAt(z) \in DOMAIN heap
  BY Basics DEF Tiled
<1>3. InPlace(z, PlacedAt(z))
  BY <1>1, SMT DEF InPlace
<1> QED
  BY <1>1, <1>2, <1>3 DEF OnChain, InPlace

\* Short of the zone's end, a walk is at a header.
LEMMA HeaderOnChain ==
  ASSUME SharedInv, NEW z \in Mapped, NEW a, OnChain(heap, z, a), a < ToZoneEnd(z)
  PROVE  a \in DOMAIN heap /\ InPlace(z, a)
<1>1. ToZoneEnd(z) = PlacedEnd(z) /\ PlacedEnd(z) \in Nat
  BY ChainStart
<1>2. ~(PlacedEnd(z) < PlacedEnd(z))
  BY <1>1, SMT
<1> QED
  BY <1>1, <1>2 DEF OnChain

\* Behind a chunk that is not empty, the header in front of the memory a free
\* run is looked up by is no header: consequtiveFreeChunksSize returns 0.
LEMMA NoRuns ==
  ASSUME SharedInv, NEW a \in DOMAIN heap, NEW t, ConsecutiveFree(ToNext(heap, a), t)
  PROVE  t = ToNext(heap, a)
<1> DEFINE s == ToNext(heap, a)
<1>1. s = ChunkEnd(heap, a) /\ a \in Nat /\ heap[a].size \in Nat /\ heap[a].size >= 16
  BY Basics, TiledNext
<1>2. s = a + 16 + heap[a].size
  BY <1>1 DEF ChunkEnd
<1>3. ChunkOf(s) \notin DOMAIN heap
  <2> SUFFICES ASSUME ChunkOf(s) \in DOMAIN heap PROVE FALSE
    OBVIOUS
  <2>1. ChunkOf(s) = s - 16
    BY DEF ChunkOf, HEADER
  <2> HIDE DEF s
  <2>2. a < ChunkOf(s)
    BY <1>1, <1>2, <2>1, SMT
  <2>3. s <= ChunkOf(s)
    BY <1>1, <2>2, Basics DEF Tiled
  <2> QED
    BY <1>1, <1>2, <2>1, <2>3, SMT
<1> QED
  BY <1>3 DEF ConsecutiveFree, InZone

\* Growing over nothing.
LEMMA GrowNothing ==
  ASSUME SharedInv, NEW a \in DOMAIN heap, NEW t, t = ToNext(heap, a)
  PROVE  Expanded(a, t) = heap
<1>1. ToNext(heap, a) \in Nat /\ heap[a] \in [size : SizeT, free : BOOLEAN]
  BY Basics, ToNextType DEF HeaderMap, Header
<1>2. t - ToNext(heap, a) = 0 /\ ToNext(heap, a) + 0 = ToNext(heap, a) /\ (0 % 8) * 2 = 0
  BY <1>1, SMT
<1>3. { c \in DOMAIN heap : c = a \/ ~(ToNext(heap, a) <= c /\ c < ToNext(heap, a) + 0) }
        = DOMAIN heap
  <2>1. \A c \in DOMAIN heap : ~(ToNext(heap, a) <= c /\ c < ToNext(heap, a))
    BY <1>1, Basics, SMT
  <2> QED
    BY <1>2, <2>1
<1>4. Wrap(heap[a].size + 0) = heap[a].size
  <2>1. heap[a].size \in SizeT
    BY <1>1
  <2> QED
    BY <2>1, LayoutAssumption, SMT DEF Wrap, SizeT
<1>5. [heap[a] EXCEPT !.size = Wrap(@ + 0)] = heap[a]
  BY <1>1, <1>4
<1>6. heap = [b \in DOMAIN heap |-> heap[b]]
  BY Basics DEF HeaderMap
<1> QED
  BY <1>2, <1>3, <1>5, <1>6 DEF Expanded, Expand

LEMMA DefragKeeps ==
  ASSUME SharedInv, DefragSection \/ DefragPastEnd
  PROVE  heap' = heap
<1>1. ASSUME NEW first \in DOMAIN heap, NEW t, ConsecutiveFree(ToNext(heap, first), t),
             DefragChunk(first, t)
      PROVE  heap' = heap
  BY <1>1, NoRuns, GrowNothing DEF DefragChunk
<1> QED
  BY <1>1 DEF DefragSection, DefragPastEnd, Walk, EndSection, Hang, Crash, Stop, memory

-----------------------------------------------------------------------------
\* What the steps of one thread leave to the others.

\* The walks go on undisturbed: no header has gone, no block of theirs has been
\* marked or given out.
LEMMA WalksStay ==
  ASSUME SharedInv, walk' = walk, Mapped' = Mapped, DOMAIN heap \subseteq DOMAIN heap',
         \A t \in Freers : Busy(t) => ~heap'[ChunkOf(walk[t].mem)].free,
         \A t \in Freers : Busy(t) => walk[t].mem \notin DOMAIN live'
  PROVE  WalkInv' /\ BeingFreed' = BeingFreed
<1>1. BeingFreed' = BeingFreed
  BY DEF BeingFreed, Busy
<1>2. ASSUME NEW t \in Freers PROVE WalkAt(heap, walk[t])'
  BY <1>2 DEF SharedInv, WalkInv, WalkAt, OnChain, Busy
<1>3. WalkInv'
  BY <1>2 DEF SharedInv, WalkInv, Busy
<1> QED
  BY <1>1, <1>3

LEMMA NoneForgotten ==
  ASSUME SharedInv, BeingFreed' = BeingFreed, DOMAIN live \subseteq DOMAIN live',
         \A a \in DOMAIN heap' : ~heap'[a].free => a \in DOMAIN heap /\ ~heap[a].free
  PROVE  NothingForgotten'
  BY DEF SharedInv, NothingForgotten

\* No search is under way, or one is about to begin.
LEMMA NoSearchYet ==
  ASSUME search' = NoSearch
  PROVE  SearchInv'
<1>1. NoSearch \in [step : SearchSteps, at : Nat, rest : Header] /\ NoSearch.step = "none"
  BY LayoutAssumption, SMT DEF NoSearch, SearchSteps, NULL, Header, SizeT
<1>2. SearchAt(heap', Zone', Need', NoSearch)
  BY <1>1 DEF SearchAt
<1> QED
  BY <1>1, <1>2 DEF SearchInv

\* A step that changes only what the client owns and what headers say.
LEMMA ZoneKept ==
  ASSUME SharedInv, TypeOK', Tiled(heap, Mapped)', OwnedZone', NoTraps',
         DOMAIN heap \subseteq DOMAIN heap',
         UNCHANGED <<base, large, maps, lost, phase, pc, call, cur>>,
         \A p \in DOMAIN live' : p \in DOMAIN live /\ live'[p] = live[p]
  PROVE  ZoneInv'
<1>1. LargeInv' /\ NewBlock' /\ OldListed'
  <2>1. OwnedLarge' /\ MappingsApart'
    BY DEF SharedInv, ZoneInv, LargeInv, OwnedLarge, MappingsApart, LargeHeld, Apart
  <2>2. pc' # "copy" /\ (pc' \in Running => call'.ptr = NULL)
    BY DEF SharedInv, Serving
  <2>3. OldListed'
    BY DEF SharedInv, ZoneInv, OldListed
  <2> QED
    BY <2>1, <2>2, <2>3 DEF LargeInv, NewLarge, OldOwned, NewBlock
<1>2. SmallRequest' /\ NothingMapped' /\ DamageLasts' /\ Sound'
  BY DEF SharedInv, ZoneInv, SmallRequest, NothingMapped, DamageLasts, Sound
<1>3. DefragInv'
  <2>1. pc = "defrag" => Defragging'
    BY DEF SharedInv, ZoneInv, DefragInv, Defragging, Initialised, Walked, NoTraps
  <2> QED
    BY <2>1 DEF DefragInv
<1> QED
  BY <1>1, <1>2, <1>3 DEF ZoneInv

\* Steps that only read.
LEMMA StillSound ==
  ASSUME SharedInv, UNCHANGED vars
  PROVE  /\ ZoneInv' /\ NoTraps' /\ NoEmptyChunk(heap)' /\ TinyFirst' /\ Serving'
         /\ Mapped' = Mapped
<1>1. ZoneInv'
  BY ZoneStep DEF SharedInv
<1> QED
  BY <1>1 DEF SharedInv, vars, NoTraps, NoEmptyChunk, TinyFirst, Serving, Mapped, Initialised

LEMMA SearchReads ==
  ASSUME SharedInv, UNCHANGED <<vars, walk>>, pc = "place",
         search' \in [step : SearchSteps, at : Nat, rest : Header],
         SearchAt(heap, Zone, Need, search')
  PROVE  SharedInv'
<1>1. /\ ZoneInv' /\ NoTraps' /\ NoEmptyChunk(heap)' /\ TinyFirst' /\ Serving'
      /\ Mapped' = Mapped
  BY StillSound
<1>2. WalkInv' /\ BeingFreed' = BeingFreed
  BY <1>1, WalksStay DEF vars, SharedInv, WalkInv, WalkAt, Busy
<1>3. NothingForgotten'
  BY <1>2, NoneForgotten DEF vars
<1>4. SearchInv'
  BY DEF SearchInv, vars, Zone, Need
<1> QED
  BY <1>1, <1>2, <1>3, <1>4 DEF SharedInv

LEMMA WalkMoves ==
  ASSUME SharedInv, UNCHANGED <<vars, search>>, NEW t \in Freers, Busy(t),
         NEW w \in [step : WalkSteps, mem : Nat, zone : ZoneNames, at : Nat], Go(t, w),
         w.step # "idle", w.mem = walk[t].mem, WalkAt(heap, w)
  PROVE  SharedInv'
<1>1. /\ ZoneInv' /\ NoTraps' /\ NoEmptyChunk(heap)' /\ TinyFirst' /\ Serving'
      /\ Mapped' = Mapped
  BY StillSound
<1>2. /\ walk' \in [Freers -> [step : WalkSteps, mem : Nat, zone : ZoneNames, at : Nat]]
      /\ walk'[t] = w /\ \A u \in Freers \ {t} : walk'[u] = walk[u]
  BY DEF Go, SharedInv, WalkInv
<1>3. \A u \in Freers : walk'[u].mem = walk[u].mem /\ (Busy(u)' <=> Busy(u))
  BY <1>2 DEF Busy
<1>4. BeingFreed' = BeingFreed
  BY <1>3 DEF BeingFreed
<1>5. \A u \in Freers : WalkAt(heap, walk[u])'
  BY <1>1, <1>2 DEF vars, WalkAt, SharedInv, WalkInv
<1>6. WalkInv'
  BY <1>2, <1>3, <1>5 DEF vars, SharedInv, WalkInv
<1>7. NothingForgotten'
  BY <1>4, NoneForgotten DEF vars
<1>8. SearchInv'
  BY DEF SharedInv, SearchInv, vars, Zone, Need
<1> QED
  BY <1>1, <1>6, <1>7, <1>8 DEF SharedInv

-----------------------------------------------------------------------------
\* The search of ftMalloc.
LEMMA Searched ==
  ASSUME SharedInv, pc = "place"
  PROVE  /\ Zone \in Mapped /\ Zone \in ZoneNames
         /\ Need \in Nat /\ Need \in SizeT /\ Need % 16 = 0 /\ Need >= 16
         /\ Need <= SizeMod - 16 /\ CHUNK_MINIMUM_SIZE = 32
         /\ Fits(call.size) => call.size <= Need
         /\ call.size \in SizeT /\ call.ptr = NULL
         /\ search \in [step : SearchSteps, at : Nat, rest : Header]
         /\ SearchAt(heap, Zone, Need, search)
<1>1. /\ call.size \in Requests /\ call.ptr = NULL /\ call.size <= SmallMax /\ Initialised
      /\ search \in [step : SearchSteps, at : Nat, rest : Header]
      /\ SearchAt(heap, Zone, Need, search)
  BY DEF SharedInv, Serving, ZoneInv, SmallRequest, SearchInv, Running
<1>2. call.size \in SizeT /\ call.size # 0
  BY <1>1, ClientAssumption, SharedAssumption
<1>3. Zone \in ZoneNames /\ Zone \in Mapped
  BY <1>1 DEF Zone, ZoneFor, ZoneNames, Initialised, Mapped
<1>4. /\ Need \in SizeT /\ Need % 16 = 0 /\ Need <= SizeMod - 16
      /\ Fits(call.size) => call.size <= Need
  BY <1>2, AlignUpType, AlignUpHolds DEF Need
<1>5. Need >= 16
  BY <1>1, <1>2, LayoutAssumption, SMT DEF Need, AlignUp, Wrap, ALIGNMENT, SizeT
<1>6. CHUNK_MINIMUM_SIZE = 32
  BY LayoutAssumption, SMT DEF CHUNK_MINIMUM_SIZE, AlignUp, Wrap, ALIGNMENT, HEADER
<1> QED
  BY <1>1, <1>2, <1>3, <1>4, <1>5, <1>6 DEF SizeT

\* What splitChunk and the flag are written to.
LEMMA Chosen ==
  ASSUME SharedInv, pc = "place", search.step \in {"split", "shorten", "take"}
  PROVE  /\ search.at \in DOMAIN heap /\ search.at \in Nat /\ InPlace(Zone, search.at)
         /\ heap[search.at].free /\ heap[search.at].size \in Nat
         /\ heap[search.at].size >= Need /\ heap[search.at].size < SizeMod
         /\ \A p \in DOMAIN live : ~IsLarge(p) => ChunkOf(p) # search.at
         /\ \A t \in Freers : Busy(t) => ChunkOf(walk[t].mem) # search.at
<1>1. /\ search.at \in DOMAIN heap /\ InPlace(Zone, search.at)
      /\ heap[search.at].free /\ heap[search.at].size >= Need
  BY Searched DEF SearchAt, Fitting
<1>2. search.at \in Nat /\ heap[search.at].size \in Nat /\ heap[search.at].size < SizeMod
      /\ ~Trap(heap, search.at)
  BY <1>1, Basics, TiledTypes
<1>3. \A p \in DOMAIN live : ~IsLarge(p) => ChunkOf(p) # search.at
  BY <1>1, <1>2, Basics DEF ZoneHeld
<1>4. \A t \in Freers : Busy(t) => ChunkOf(walk[t].mem) # search.at
  BY <1>1 DEF SharedInv, WalkInv, WalkAt, Busy
<1> QED
  BY <1>1, <1>2, <1>3, <1>4

LEMMA SharedBeginExact ==
  ASSUME SharedInv, BeginExact
  PROVE  SharedInv'
<1>1. pc = "place" /\ UNCHANGED <<vars, walk>>
      /\ search' = [search EXCEPT !.step = "exact", !.at = ToFirstChunk(Zone)]
  BY DEF BeginExact, Searching, OnlySearch
<1>2. OnChain(heap, Zone, ToFirstChunk(Zone)) /\ ToFirstChunk(Zone) \in Nat
  BY <1>1, Searched, ChainStart
<1>3. /\ search' \in [step : SearchSteps, at : Nat, rest : Header]
      /\ search'.step = "exact" /\ search'.at = ToFirstChunk(Zone)
  BY <1>1, <1>2, Searched DEF SearchSteps
<1>4. SearchAt(heap, Zone, Need, search')
  BY <1>2, <1>3 DEF SearchAt
<1> QED
  BY <1>1, <1>3, <1>4, SearchReads

LEMMA SharedLookForExact ==
  ASSUME SharedInv, LookForExact
  PROVE  SharedInv'
<1>1. /\ pc = "place" /\ UNCHANGED <<vars, walk>> /\ search.step = "exact"
  BY DEF LookForExact, Searching, OnlySearch
<1>2. OnChain(heap, Zone, search.at)
  BY <1>1, Searched DEF SearchAt
<1>3. CASE /\ search.at < ToZoneEnd(Zone)
           /\ heap[search.at].size = Need /\ heap[search.at].free
           /\ search' = [search EXCEPT !.step = "take"]
  <2>1. search.at \in DOMAIN heap /\ InPlace(Zone, search.at)
    BY <1>1, <1>2, <1>3, Searched, HeaderOnChain
  <2>2. heap[search.at].size >= Need
    BY <1>1, <1>3, Searched, SMT
  <2>3. /\ search' \in [step : SearchSteps, at : Nat, rest : Header]
        /\ search'.step = "take" /\ search'.at = search.at
    BY <1>1, <1>3, Searched DEF SearchSteps
  <2>4. SearchAt(heap, Zone, Need, search')
    BY <1>3, <2>1, <2>2, <2>3 DEF SearchAt, Fitting
  <2> QED
    BY <1>1, <2>3, <2>4, SearchReads
<1>4. CASE /\ search.at < ToZoneEnd(Zone)
           /\ search' = [search EXCEPT !.at = ToNext(heap, search.at)]
  <2>1. search.at \in DOMAIN heap /\ InPlace(Zone, search.at)
    BY <1>1, <1>2, <1>4, Searched, HeaderOnChain
  <2>2. OnChain(heap, Zone, ToNext(heap, search.at)) /\ ToNext(heap, search.at) \in Nat
    BY <1>1, <2>1, Searched, NextOnChain
  <2>3. /\ search' \in [step : SearchSteps, at : Nat, rest : Header]
        /\ search'.step = "exact" /\ search'.at = ToNext(heap, search.at)
    BY <1>1, <1>4, <2>2, Searched DEF SearchSteps
  <2>4. SearchAt(heap, Zone, Need, search')
    BY <2>2, <2>3 DEF SearchAt
  <2> QED
    BY <1>1, <2>3, <2>4, SearchReads
<1>5. CASE search' = [search EXCEPT !.step = "fit", !.at = ToFirstChunk(Zone)]
  <2>1. OnChain(heap, Zone, ToFirstChunk(Zone)) /\ ToFirstChunk(Zone) \in Nat
    BY <1>1, Searched, ChainStart
  <2>2. /\ search' \in [step : SearchSteps, at : Nat, rest : Header]
        /\ search'.step = "fit" /\ search'.at = ToFirstChunk(Zone)
    BY <1>1, <1>5, <2>1, Searched DEF SearchSteps
  <2>3. SearchAt(heap, Zone, Need, search')
    BY <2>1, <2>2 DEF SearchAt
  <2> QED
    BY <1>1, <2>2, <2>3, SearchReads
<1> QED
  BY <1>3, <1>4, <1>5 DEF LookForExact

LEMMA SharedLookForFit ==
  ASSUME SharedInv, LookForFit
  PROVE  SharedInv'
<1>1. pc = "place" /\ search.step = "fit" /\ walk' = walk
  BY DEF LookForFit, Searching, OnlySearch
<1>2. OnChain(heap, Zone, search.at)
  BY <1>1, Searched DEF SearchAt
<1>3. ASSUME NEW s \in {"split", "take"}, search.at < ToZoneEnd(Zone),
             heap[search.at].size >= Need, heap[search.at].free,
             s = "split" => heap[search.at].size >= Need + CHUNK_MINIMUM_SIZE,
             search' = [search EXCEPT !.step = s], UNCHANGED vars
      PROVE  SharedInv'
  <2>1. search.at \in DOMAIN heap /\ InPlace(Zone, search.at)
    BY <1>1, <1>2, <1>3, Searched, HeaderOnChain
  <2>2. /\ search' \in [step : SearchSteps, at : Nat, rest : Header]
        /\ search'.step = s /\ search'.at = search.at
    BY <1>1, <1>3, Searched DEF SearchSteps
  <2>3. SearchAt(heap, Zone, Need, search')
    BY <1>1, <1>3, <2>1, <2>2, Searched DEF SearchAt, Fitting
  <2> QED
    BY <1>1, <1>3, <2>2, <2>3, SearchReads
<1>4. CASE /\ search.at < ToZoneEnd(Zone) /\ UNCHANGED vars
           /\ search' = [search EXCEPT !.at = ToNext(heap, search.at)]
  <2>1. search.at \in DOMAIN heap /\ InPlace(Zone, search.at)
    BY <1>1, <1>2, <1>4, Searched, HeaderOnChain
  <2>2. OnChain(heap, Zone, ToNext(heap, search.at)) /\ ToNext(heap, search.at) \in Nat
    BY <1>1, <2>1, Searched, NextOnChain
  <2>3. /\ search' \in [step : SearchSteps, at : Nat, rest : Header]
        /\ search'.step = "fit" /\ search'.at = ToNext(heap, search.at)
    BY <1>1, <1>4, <2>2, Searched DEF SearchSteps
  <2>4. SearchAt(heap, Zone, Need, search')
    BY <2>2, <2>3 DEF SearchAt
  <2> QED
    BY <1>1, <1>4, <2>3, <2>4, SearchReads
<1>5. CASE /\ search' = NoSearch /\ pc' = "map"
           /\ UNCHANGED <<memory, phase, call, cur, live, walk>>
  <2>1. UNCHANGED <<base, heap, large, maps, lost, live, phase, call, cur, walk>>
    BY <1>5 DEF memory
  <2>2. LargeInv'
    <3>1. TypeOK'
      BY <1>1, <1>5, <2>1, Basics DEF TypeOK, MemoryOK, CallOK, Running
    <3>2. LargeInv /\ call'.ptr = NULL
      BY <1>1, <2>1, Searched DEF SharedInv, ZoneInv
    <3> QED
      BY <1>5, <2>1, <3>1, <3>2, LargeFrame
  <2>3. ZoneInv'
    <3>1. pc' \in Running /\ IsLarge(call'.ptr) => call'.ptr \in DOMAIN large'
      BY <1>1, <2>1 DEF SharedInv, ZoneInv, OldListed, Running
    <3> QED
      BY <1>5, <2>1, <2>2, <3>1, ZoneFrame, NoDefrag DEF SharedInv
  <2>4. NoTraps' /\ NoEmptyChunk(heap)' /\ TinyFirst' /\ Mapped' = Mapped
    BY <2>1 DEF SharedInv, NoTraps, NoEmptyChunk, TinyFirst, Mapped
  <2>5. Serving'
    BY <1>1, <1>5, <2>1 DEF SharedInv, Serving, Running
  <2>6. WalkInv' /\ BeingFreed' = BeingFreed
    BY <2>1, <2>4, WalksStay DEF SharedInv, WalkInv, WalkAt, Busy
  <2>7. NothingForgotten'
    BY <2>1, <2>6, NoneForgotten
  <2> QED
    BY <1>5, <2>3, <2>4, <2>5, <2>6, <2>7, NoSearchYet DEF SharedInv
<1> QED
  BY <1>1, <1>3, <1>4, <1>5 DEF LookForFit, OnlySearch

LEMMA SharedWriteRest ==
  ASSUME SharedInv, WriteRest
  PROVE  SharedInv'
<1>1. /\ pc = "place" /\ search.step = "split" /\ UNCHANGED <<vars, walk>>
      /\ search' = [search EXCEPT !.step = "shorten", !.rest = Rest]
  BY DEF WriteRest, Searching, OnlySearch
<1>2. heap[search.at].size >= Need + 32 /\ Fitting(heap, Zone, search.at, Need)
  BY <1>1, Searched DEF SearchAt
<1>3. Wrap(heap[search.at].size - Need - 16) = heap[search.at].size - Need - 16
      /\ heap[search.at].size - Need - 16 \in SizeT
  BY <1>1, <1>2, Chosen, Searched, LayoutAssumption, SMT DEF Wrap, SizeT
<1>4. Rest = [size |-> heap[search.at].size - Need - 16, free |-> TRUE] /\ Rest \in Header
  BY <1>3 DEF Rest, HEADER, Header
<1>5. /\ search' \in [step : SearchSteps, at : Nat, rest : Header]
      /\ search'.step = "shorten" /\ search'.at = search.at /\ search'.rest = Rest
  BY <1>1, <1>4, Searched DEF SearchSteps
<1>6. SearchAt(heap, Zone, Need, search')
  BY <1>2, <1>4, <1>5 DEF SearchAt
<1> QED
  BY <1>1, <1>5, <1>6, SearchReads

\* With the store to main->payloadSize the split is complete.
LEMMA ShortenSplits ==
  ASSUME SharedInv, Shorten
  PROVE  /\ pc = "place" /\ search.step = "shorten"
         /\ heap' = SplitChunk(heap, search.at, Need)
         /\ Need + 32 <= heap[search.at].size
<1>1. pc = "place" /\ search.step = "shorten"
  BY DEF Shorten, Searching
<1>2. /\ heap[search.at].size >= Need + 32
      /\ search.rest = [size |-> heap[search.at].size - Need - 16, free |-> TRUE]
  BY <1>1, Searched DEF SearchAt
<1>3. Wrap(heap[search.at].size - Need - 16) = heap[search.at].size - Need - 16
  BY <1>1, <1>2, Chosen, Searched, LayoutAssumption, SMT DEF Wrap
<1>4. search.rest = [size |-> Wrap(heap[search.at].size - Need - HEADER), free |-> TRUE]
  BY <1>2, <1>3 DEF HEADER
<1>5. heap' = SplitChunk(heap, search.at, Need)
  BY <1>4 DEF Shorten, SplitChunk
<1>6. Need + 32 <= heap[search.at].size
  BY <1>1, <1>2, Chosen, Searched, SMT
<1> QED
  BY <1>1, <1>5, <1>6

LEMMA SharedShorten ==
  ASSUME SharedInv, Shorten
  PROVE  SharedInv'
<1> DEFINE a == search.at
           b == RestOf(a, Need)
<1>1. /\ pc = "place" /\ search.step = "shorten" /\ heap' = SplitChunk(heap, a, Need)
      /\ Need + 32 <= heap[a].size
  BY ShortenSplits
<1>2. /\ UNCHANGED <<base, large, maps, lost, phase, pc, call, cur, live, walk>>
      /\ search' = [search EXCEPT !.step = "take"]
  BY DEF Shorten
<1>3. /\ a \in DOMAIN heap /\ ~Trap(heap, a) /\ InPlace(Zone, a) /\ heap[a].free
      /\ heap[a].size \in Nat /\ Need \in Nat /\ Need % 16 = 0 /\ Need >= 16
      /\ \A p \in DOMAIN live : ~IsLarge(p) => ChunkOf(p) # a
      /\ \A t \in Freers : Busy(t) => ChunkOf(walk[t].mem) # a
  BY <1>1, Chosen, Searched, Basics
<1>4. Need + 16 <= heap[a].size /\ heap[a].size - Need - 16 >= 16
  BY <1>1, <1>3, SMT
<1>5. /\ Tiled(heap', Mapped) /\ DOMAIN heap' = DOMAIN heap \cup {b} /\ b \notin DOMAIN heap
      /\ \A c \in DOMAIN heap' : ~Trap(heap', c)
      /\ heap'[a].size = Need /\ heap'[a].free
      /\ \A c \in DOMAIN heap \ {a} : heap'[c] = heap[c]
  <2>1. Mapped \in SUBSET ZoneNames /\ Tiled(heap, Mapped) /\ \A c \in DOMAIN heap : ~Trap(heap, c)
    BY Basics
  <2> HIDE DEF a
  <2>2. /\ a \in DOMAIN heap /\ ~Trap(heap, a)
        /\ Need \in Nat /\ Need % 16 = 0 /\ Need + 16 <= heap[a].size
    BY <1>3, <1>4
  <2>3. SplitInto(heap, heap', Mapped, a, Need)
    BY <1>1, <2>1, <2>2, SplitTiled
  <2> QED
    BY <1>3, <2>1, <2>3 DEF SplitInto
<1>6. \A p, n : n \in SizeT /\ ZoneHeld(heap, p, n) /\ ChunkOf(p) # a => ZoneHeld(heap', p, n)
  BY <1>1, <1>3, <1>4, Basics, CutChunk
<1>7. heap'[b] = search.rest /\ search.rest = [size |-> heap[a].size - Need - 16, free |-> TRUE]
  <2>1. b # a
    BY <1>3, <1>5
  <2>2. heap'[b] = search.rest
    BY <2>1 DEF Shorten
  <2> QED
    BY <1>1, <2>2, Searched DEF SearchAt
<1> HIDE DEF a, b
<1>8. NoEmptyChunk(heap)'
  BY <1>3, <1>4, <1>5, <1>7, Basics DEF NoEmptyChunk
<1>9. Mapped' = Mapped /\ NoTraps' /\ TinyFirst'
  BY <1>2, <1>5 DEF Mapped, NoTraps, TinyFirst, SharedInv
<1>10. OwnedZone'
  BY <1>2, <1>3, <1>6, Basics DEF OwnedZone, CallOK
<1>11. TypeOK'
  BY <1>2, <1>5, Basics DEF TypeOK, MemoryOK, CallOK, Tiled, HeaderMap
<1>12. ZoneInv'
  BY <1>2, <1>5, <1>9, <1>10, <1>11, ZoneKept
<1>13. Serving'
  BY <1>2 DEF SharedInv, Serving, Initialised
<1>14. WalkInv' /\ BeingFreed' = BeingFreed
  <2>1. \A t \in Freers : Busy(t) => ~heap'[ChunkOf(walk[t].mem)].free
    BY <1>3, <1>5 DEF SharedInv, WalkInv, WalkAt, Busy
  <2> QED
    BY <1>2, <1>5, <1>9, <2>1, WalksStay DEF SharedInv, WalkInv
<1>15. NothingForgotten'
  BY <1>2, <1>5, <1>7, <1>14, <1>3, NoneForgotten
<1>16. SearchInv'
  <2>1. /\ search' \in [step : SearchSteps, at : Nat, rest : Header]
        /\ search'.step = "take" /\ search'.at = a
    BY <1>1, <1>2, Searched DEF SearchSteps, a
  <2>2. Zone' = Zone /\ Need' = Need
    BY <1>2 DEF Zone, Need
  <2>3. Fitting(heap', Zone, a, Need)
    BY <1>3, <1>5, SMT DEF Fitting
  <2>4. SearchAt(heap', Zone', Need', search')
    BY <2>1, <2>2, <2>3 DEF SearchAt
  <2> QED
    BY <1>1, <1>2, <2>1, <2>4 DEF SearchInv
<1> QED
  BY <1>8, <1>9, <1>12, <1>13, <1>14, <1>15, <1>16 DEF SharedInv

LEMMA SharedTake ==
  ASSUME SharedInv, Take
  PROVE  SharedInv'
<1> DEFINE a == search.at
           m == Mem(a)
<1>1. /\ pc = "place" /\ search.step = "take" /\ heap' = Taken(heap, a) /\ Deliver(m)
      /\ search' = NoSearch /\ UNCHANGED <<base, large, maps, phase, lost, walk>>
  BY DEF Take, Searching, Taken
<1>2. /\ a \in DOMAIN heap /\ a \in Nat /\ ~Trap(heap, a) /\ InPlace(Zone, a)
      /\ heap[a].free /\ heap[a].size \in Nat /\ heap[a].size >= Need
      /\ \A p \in DOMAIN live : ~IsLarge(p) => ChunkOf(p) # a
      /\ \A t \in Freers : Busy(t) => ChunkOf(walk[t].mem) # a
  BY <1>1, Chosen, Basics
<1>3. /\ Zone \in ZoneNames /\ Need \in Nat /\ call.size \in SizeT /\ call.ptr = NULL
      /\ Fits(call.size) => call.size <= Need
  BY <1>1, Searched
<1>4. ~IsLarge(m) /\ m # NULL /\ m \in Nat /\ ChunkOf(m) = a
  BY <1>2, <1>3, ZoneMemIsNotLarge, Pointers DEF InPlace
<1>5. /\ Tiled(heap', Mapped) /\ DOMAIN heap' = DOMAIN heap
      /\ heap'[a].size = heap[a].size /\ \A b \in DOMAIN heap \ {a} : heap'[b] = heap[b]
  BY <1>1, <1>2, Basics, TakeTiled
<1>6. /\ pc' = "idle" /\ call' = NoCall
      /\ live' = [p \in DOMAIN live \cup {m} |-> IF p = m THEN call.size ELSE live[p]]
  BY <1>1, <1>3, <1>4 DEF Deliver
<1>7. Room(heap, a, call.size)
  <2>1. Fits(call.size) => call.size <= heap[a].size
    BY <1>2, <1>3, SMT DEF SizeT
  <2> QED
    BY <1>2, <1>3, <2>1, Basics, RoomIsSize
<1> HIDE DEF a
<1>8. TypeOK'
  <2>1. CallOK'
    BY <1>1, <1>4, Basics, DeliverType DEF Running
  <2> QED
    BY <1>1, <1>5, <2>1, Basics DEF TypeOK, MemoryOK, Tiled, HeaderMap
<1>9. LargeInv'
  <2>1. pc \in Running /\ LargeInv
    BY <1>1 DEF Running, SharedInv, ZoneInv
  <2> HIDE DEF m
  <2> QED
    BY <1>1, <1>4, <1>8, <2>1, LargeDeliver
<1>10. ZoneInv'
  BY <1>1, <1>2, <1>3, <1>7, <1>9, Basics, TakeChunk DEF SharedInv
<1> HIDE DEF m
<1>11. NoTraps' /\ NoEmptyChunk(heap)' /\ TinyFirst' /\ Mapped' = Mapped
  BY <1>1, <1>5 DEF SharedInv, NoTraps, Trap, NoEmptyChunk, TinyFirst, Mapped
<1>12. Serving'
  BY <1>6 DEF Serving, Running
<1>13. WalkInv' /\ BeingFreed' = BeingFreed
  <2>1. \A t \in Freers : Busy(t) => ~heap'[ChunkOf(walk[t].mem)].free
    BY <1>2, <1>5 DEF SharedInv, WalkInv, WalkAt, Busy
  <2>2. \A t \in Freers : Busy(t) => walk[t].mem \notin DOMAIN live'
    BY <1>2, <1>4, <1>6 DEF SharedInv, WalkInv
  <2> QED
    BY <1>1, <1>5, <1>11, <2>1, <2>2, WalksStay
<1>14. NothingForgotten'
  BY <1>5, <1>6, <1>13 DEF SharedInv, NothingForgotten, m
<1> QED
  BY <1>1, <1>10, <1>11, <1>12, <1>13, <1>14, NoSearchYet DEF SharedInv

-----------------------------------------------------------------------------
\* ftFree in another thread.

\* Where the chunk of the block a thread frees is.
LEMMA Walking ==
  ASSUME SharedInv, NEW t \in Freers, Busy(t)
  PROVE  /\ walk[t] \in [step : WalkSteps, mem : Nat, zone : ZoneNames, at : Nat]
         /\ walk[t].step \in WalkSteps \ {"idle"}
         /\ WalkAt(heap, walk[t]) /\ ~IsLarge(walk[t].mem)
         /\ ChunkOf(walk[t].mem) \in DOMAIN heap /\ ChunkOf(walk[t].mem) \in Nat
         /\ ~heap[ChunkOf(walk[t].mem)].free
         /\ walk[t].mem \notin DOMAIN live
         /\ \E z \in Mapped : InPlace(z, ChunkOf(walk[t].mem))
<1>1. /\ walk[t] \in [step : WalkSteps, mem : Nat, zone : ZoneNames, at : Nat]
      /\ WalkAt(heap, walk[t]) /\ walk[t].step # "idle" /\ walk[t].mem \notin DOMAIN live
  BY DEF SharedInv, WalkInv, Busy
<1>2. /\ ~IsLarge(walk[t].mem) /\ ChunkOf(walk[t].mem) \in DOMAIN heap
      /\ ~heap[ChunkOf(walk[t].mem)].free
  BY <1>1 DEF WalkAt
<1>3. ChunkOf(walk[t].mem) \in Nat
  BY <1>2, Basics
<1>4. \E z \in Mapped : InPlace(z, ChunkOf(walk[t].mem))
  BY <1>2, Basics DEF Tiled, Seated
<1>5. walk[t].step \in WalkSteps \ {"idle"}
  BY <1>1
<1> QED
  BY <1>1, <1>2, <1>3, <1>4, <1>5

\* A block of the client in a zone has a chunk in use there.
LEMMA OwnedChunk ==
  ASSUME SharedInv, NEW p \in DOMAIN live, ~IsLarge(p)
  PROVE  /\ p \in Nat /\ p # NULL /\ ChunkOf(p) \in DOMAIN heap /\ ChunkOf(p) \in Nat
         /\ ~heap[ChunkOf(p)].free /\ Mem(ChunkOf(p)) = p
         /\ \E z \in Mapped : InPlace(z, ChunkOf(p)) /\ ChunkOf(p) \in Chunks(z)
<1>1. p \in Nat
  BY Basics DEF CallOK
<1>2. /\ ChunkOf(p) \in DOMAIN heap /\ ChunkOf(p) \in Nat /\ ~heap[ChunkOf(p)].free
  BY Basics DEF ZoneHeld
<1>3. p # NULL /\ Mem(ChunkOf(p)) = p
  BY <1>1, <1>2, SMT DEF ChunkOf, Mem, HEADER, NULL
<1>4. PICK z \in Mapped : InPlace(z, ChunkOf(p))
  BY <1>2, Basics DEF Tiled, Seated
<1>5. ToFirstChunk(z) <= ChunkOf(p) /\ ChunkOf(p) < ToZoneEnd(z)
  BY <1>4, ChainStart DEF InPlace
<1>6. ChunkOf(p) \in Chunks(z)
  BY <1>2, <1>5, Basics, TiledWalk DEF Chunks
<1> QED
  BY <1>1, <1>2, <1>3, <1>4, <1>6

\* Where a free is that looks for its block's chunk, in zones.large or, at the
\* end of it, in the tiny zone.
LEMMA Following ==
  ASSUME SharedInv, NEW m \in Nat, NEW c \in Nat,
         ~IsLarge(m), ChunkOf(m) \in DOMAIN heap, ~heap[ChunkOf(m)].free
  PROVE  /\ ListAt(m, c) \in [step : WalkSteps, mem : Nat, zone : ZoneNames, at : Nat]
         /\ ListAt(m, c).step \in {"list", "find"} /\ ListAt(m, c).mem = m
         /\ ListAt(m, c).step = "list" => ListAt(m, c).at = c /\ c # NULL
         /\ WalkAt(heap, ListAt(m, c))
<1>1. CASE c # NULL
  <2>1. PICK v : v = [NoWalk EXCEPT !.step = "list", !.mem = m, !.at = c]
    OBVIOUS
  <2>2. v = [step |-> "list", mem |-> m, zone |-> "tiny", at |-> c] /\ ListAt(m, c) = v
    BY <1>1, <2>1 DEF NoWalk, ListAt
  <2> QED
    BY <1>1, <2>2 DEF WalkAt, WalkSteps, ZoneNames
<1>2. CASE c = NULL
  <2>1. PICK z \in Mapped : InPlace(z, ChunkOf(m))
    BY Basics DEF Tiled, Seated
  <2>2. "tiny" \in Mapped
    BY <2>1, Basics DEF SharedInv, TinyFirst, ZoneNames
  <2>3. /\ OnChain(heap, "tiny", ToFirstChunk("tiny")) /\ ToFirstChunk("tiny") \in Nat
        /\ \A b : InPlace("tiny", b) => ToFirstChunk("tiny") <= b
    BY <2>2, ChainStart
  <2>4. ListAt(m, c) = [step |-> "find", mem |-> m, zone |-> "tiny", at |-> ToFirstChunk("tiny")]
    BY <1>2 DEF ListAt, Begin
  <2> QED
    BY <2>2, <2>3, <2>4 DEF WalkAt, WalkSteps, ZoneNames
<1> QED
  BY <1>1, <1>2

LEMMA SharedBeginFree ==
  ASSUME SharedInv, head \in Nat, NEW t \in Freers, BeginFree(t)
  PROVE  SharedInv'
<1> DEFINE w(p) == ListAt(p, head)
<1>1. PICK p \in DOMAIN live :
        /\ ~Busy(t) /\ ~IsLarge(p) /\ Go(t, w(p))
        /\ live' = [q \in DOMAIN live \ {p} |-> live[q]]
        /\ UNCHANGED <<base, heap, large, maps, lost, phase, pc, call, cur, search>>
  BY DEF BeginFree, Busy, memory
<1>2. /\ p \in Nat /\ ChunkOf(p) \in DOMAIN heap /\ ~heap[ChunkOf(p)].free
      /\ \E z \in Mapped : InPlace(z, ChunkOf(p))
  BY <1>1, OwnedChunk
<1>3. /\ w(p) \in [step : WalkSteps, mem : Nat, zone : ZoneNames, at : Nat]
      /\ w(p).step # "idle" /\ w(p).mem = p /\ WalkAt(heap, w(p))
  BY <1>1, <1>2, Following
<1> HIDE DEF w
<1>4. /\ walk' \in [Freers -> [step : WalkSteps, mem : Nat, zone : ZoneNames, at : Nat]]
      /\ walk'[t] = w(p) /\ \A u \in Freers \ {t} : walk'[u] = walk[u]
  BY <1>1, <1>3 DEF Go, SharedInv, WalkInv
<1>5. /\ Busy(t)' /\ walk'[t].mem = p
      /\ \A u \in Freers \ {t} : (Busy(u)' <=> Busy(u)) /\ walk'[u].mem = walk[u].mem
  BY <1>3, <1>4 DEF Busy
<1>6. DOMAIN live' = DOMAIN live \ {p} /\ \A q \in DOMAIN live' : live'[q] = live[q]
  BY <1>1
<1>7. WalkInv'
  <2>1. \A u \in Freers : WalkAt(heap, walk[u])'
    BY <1>1, <1>3, <1>4 DEF WalkAt, SharedInv, WalkInv, Mapped
  <2>2. \A u \in Freers : Busy(u)' => walk'[u].mem \notin DOMAIN live'
    BY <1>5, <1>6 DEF SharedInv, WalkInv
  <2>3. \A u, v \in Freers : Busy(u)' /\ Busy(v)' /\ walk'[u].mem = walk'[v].mem => u = v
    BY <1>1, <1>5 DEF SharedInv, WalkInv
  <2> QED
    BY <1>4, <2>1, <2>2, <2>3 DEF WalkInv
<1>8. NothingForgotten'
  <2>1. BeingFreed \cup {p} \subseteq BeingFreed'
    BY <1>1, <1>5 DEF BeingFreed
  <2> QED
    BY <1>1, <1>6, <2>1 DEF SharedInv, NothingForgotten
<1>9. NoTraps' /\ NoEmptyChunk(heap)' /\ TinyFirst' /\ Serving'
  BY <1>1 DEF SharedInv, NoTraps, NoEmptyChunk, TinyFirst, Serving, Mapped, Initialised
<1>10. ZoneInv'
  <2>1. TypeOK'
    BY <1>1, <1>6, Basics DEF TypeOK, MemoryOK, CallOK
  <2>2. Tiled(heap, Mapped)' /\ OwnedZone'
    BY <1>1, <1>6, Basics DEF Mapped, OwnedZone
  <2> QED
    BY <1>1, <1>6, <1>9, <2>1, <2>2, ZoneKept
<1>11. SearchInv'
  BY <1>1 DEF SharedInv, SearchInv, Zone, Need
<1> QED
  BY <1>7, <1>8, <1>9, <1>10, <1>11 DEF SharedInv

LEMMA SharedFollowList ==
  ASSUME SharedInv, head \in Nat, NEW t \in Freers, FollowList(t),
         ToBase(walk[t].at) \in DOMAIN maps => next[walk[t].at] \in Nat
  PROVE  SharedInv'
<1> DEFINE w == walk[t]
<1>1. w.step = "list" /\ UNCHANGED <<vars, search>> /\ Busy(t)
  BY DEF FollowList, OnlyWalk, Busy
<1>2. /\ w \in [step : WalkSteps, mem : Nat, zone : ZoneNames, at : Nat]
      /\ WalkAt(heap, w) /\ ~IsLarge(w.mem)
      /\ ChunkOf(w.mem) \in DOMAIN heap /\ ~heap[ChunkOf(w.mem)].free
  BY <1>1, Walking
<1>3. CASE \E c \in Nat : Go(t, ListAt(w.mem, c))
  <2>1. PICK c \in Nat : Go(t, ListAt(w.mem, c))
    BY <1>3
  <2>2. /\ ListAt(w.mem, c) \in [step : WalkSteps, mem : Nat, zone : ZoneNames, at : Nat]
        /\ ListAt(w.mem, c).step # "idle" /\ ListAt(w.mem, c).mem = w.mem
        /\ WalkAt(heap, ListAt(w.mem, c))
    BY <1>2, Following
  <2> QED
    BY <1>1, <2>1, <2>2, WalkMoves
<1>4. CASE Go(t, [w EXCEPT !.step = "crashed"])
  <2>1. PICK v : v = [w EXCEPT !.step = "crashed"]
    OBVIOUS
  <2>2. /\ v \in [step : WalkSteps, mem : Nat, zone : ZoneNames, at : Nat]
        /\ v.step = "crashed" /\ v.mem = w.mem
    BY <1>2, <2>1 DEF WalkSteps
  <2>3. WalkAt(heap, v)
    BY <1>2, <2>2 DEF WalkAt
  <2> QED
    BY <1>1, <1>4, <2>1, <2>2, <2>3, WalkMoves
<1>5. NULL \in Nat
  BY SMT DEF NULL
<1> QED
  BY <1>3, <1>4, <1>5 DEF FollowList

LEMMA SharedStep ==
  ASSUME SharedInv, NEW t \in Freers, Step(t)
  PROVE  SharedInv'
<1> DEFINE w == walk[t]
           c == ChunkOf(w.mem)
<1>1. /\ w.step \in {"find", "again"} /\ w.at < ToZoneEnd(w.zone) /\ w.at # c
      /\ IF w.at \in DOMAIN heap THEN Go(t, [w EXCEPT !.at = ToNext(heap, w.at)])
         ELSE Go(t, [w EXCEPT !.step = "astray"])
      /\ UNCHANGED <<vars, search>> /\ Busy(t)
  BY DEF Step, OnlyWalk, Busy
<1>2. /\ w \in [step : WalkSteps, mem : Nat, zone : ZoneNames, at : Nat]
      /\ WalkAt(heap, w) /\ c \in DOMAIN heap /\ c \in Nat /\ ~IsLarge(w.mem) /\ ~heap[c].free
  BY <1>1, Walking
<1>3. /\ w.zone \in Mapped /\ OnChain(heap, w.zone, w.at)
      /\ InPlace(w.zone, c) => w.at <= c
      /\ w.step = "again" \/ w.zone = "small" => InPlace(w.zone, c)
  BY <1>1, <1>2 DEF WalkAt
<1>4. w.at \in DOMAIN heap /\ InPlace(w.zone, w.at) /\ w.at \in Nat
  BY <1>1, <1>3, HeaderOnChain, Basics
<1>5. /\ OnChain(heap, w.zone, ToNext(heap, w.at)) /\ ToNext(heap, w.at) \in Nat
      /\ \A b \in DOMAIN heap : w.at < b => ToNext(heap, w.at) <= b
  BY <1>3, <1>4, NextOnChain
<1>6. InPlace(w.zone, c) => ToNext(heap, w.at) <= c
  <2>1. w.at <= c => w.at < c
    BY <1>1, <1>2, <1>4, SMT
  <2> QED
    BY <1>2, <1>3, <1>5, <2>1
<1>7. PICK v : v = [w EXCEPT !.at = ToNext(heap, w.at)]
  OBVIOUS
<1>8. /\ v \in [step : WalkSteps, mem : Nat, zone : ZoneNames, at : Nat]
      /\ v.step = w.step /\ v.mem = w.mem /\ v.zone = w.zone /\ v.at = ToNext(heap, w.at)
  BY <1>2, <1>5, <1>7
<1>9. WalkAt(heap, v)
  BY <1>1, <1>2, <1>3, <1>5, <1>6, <1>8 DEF WalkAt
<1>10. Go(t, v) /\ v.step # "idle"
  BY <1>1, <1>4, <1>7, <1>8
<1> QED
  BY <1>1, <1>8, <1>9, <1>10, WalkMoves

LEMMA SharedPass ==
  ASSUME SharedInv, NEW t \in Freers, Pass(t)
  PROVE  SharedInv'
<1> DEFINE w == walk[t]
           c == ChunkOf(w.mem)
           v == Begin(w.mem, "small", "find")
<1>1. /\ w.step \in {"find", "again"} /\ w.at >= ToZoneEnd(w.zone)
      /\ Go(t, IF w.step = "find" /\ w.zone = "tiny" THEN v ELSE [w EXCEPT !.step = "refused"])
      /\ UNCHANGED <<vars, search>> /\ Busy(t)
  BY DEF Pass, OnlyWalk, Busy
<1>2. /\ w \in [step : WalkSteps, mem : Nat, zone : ZoneNames, at : Nat]
      /\ WalkAt(heap, w) /\ c \in DOMAIN heap /\ c \in Nat /\ ~IsLarge(w.mem) /\ ~heap[c].free
      /\ \E z \in Mapped : InPlace(z, c)
  BY <1>1, Walking
<1>3. /\ w.zone \in Mapped
      /\ InPlace(w.zone, c) => w.at <= c
      /\ w.step = "again" \/ w.zone = "small" => InPlace(w.zone, c)
  BY <1>1, <1>2 DEF WalkAt
<1>4. ~InPlace(w.zone, c)
  <2>1. ToZoneEnd(w.zone) = PlacedEnd(w.zone) /\ PlacedEnd(w.zone) \in Nat /\ w.at \in Nat
    BY <1>2, <1>3, ChainStart
  <2> QED
    BY <1>1, <1>2, <1>3, <2>1, SMT DEF InPlace
<1>5. w.step = "find" /\ w.zone = "tiny"
  BY <1>1, <1>2, <1>3, <1>4 DEF ZoneNames
<1>6. "small" \in Mapped /\ InPlace("small", c)
  BY <1>2, <1>4, <1>5, Basics DEF ZoneNames
<1>7. /\ OnChain(heap, "small", ToFirstChunk("small")) /\ ToFirstChunk("small") \in Nat
      /\ \A b : InPlace("small", b) => ToFirstChunk("small") <= b
  BY <1>6, ChainStart
<1>8. /\ v \in [step : WalkSteps, mem : Nat, zone : ZoneNames, at : Nat]
      /\ v.step = "find" /\ v.mem = w.mem /\ v.zone = "small" /\ v.at = ToFirstChunk("small")
  BY <1>2, <1>7 DEF Begin, WalkSteps, ZoneNames
<1>9. WalkAt(heap, v)
  BY <1>2, <1>6, <1>7, <1>8 DEF WalkAt
<1> QED
  BY <1>1, <1>5, <1>8, <1>9, WalkMoves

LEMMA SharedFind ==
  ASSUME SharedInv, NEW t \in Freers, Find(t)
  PROVE  SharedInv'
<1> DEFINE w == walk[t]
           c == ChunkOf(w.mem)
<1>1. /\ w.step \in {"find", "again"} /\ w.at < ToZoneEnd(w.zone) /\ w.at = c
      /\ Go(t, IF w.step = "find" THEN Begin(w.mem, w.zone, "again")
               ELSE [w EXCEPT !.step = "mark"])
      /\ UNCHANGED <<vars, search>> /\ Busy(t)
  BY DEF Find, OnlyWalk, Busy
<1>2. /\ w \in [step : WalkSteps, mem : Nat, zone : ZoneNames, at : Nat]
      /\ WalkAt(heap, w) /\ c \in DOMAIN heap /\ c \in Nat /\ ~IsLarge(w.mem) /\ ~heap[c].free
  BY <1>1, Walking
<1>3. w.zone \in Mapped /\ OnChain(heap, w.zone, w.at)
  BY <1>1, <1>2 DEF WalkAt
<1>4. InPlace(w.zone, c)
  BY <1>1, <1>3, HeaderOnChain
<1>5. CASE w.step = "find"
  <2>1. /\ OnChain(heap, w.zone, ToFirstChunk(w.zone)) /\ ToFirstChunk(w.zone) \in Nat
        /\ \A b : InPlace(w.zone, b) => ToFirstChunk(w.zone) <= b
    BY <1>3, ChainStart
  <2>2. PICK v : v = Begin(w.mem, w.zone, "again")
    OBVIOUS
  <2>3. /\ v \in [step : WalkSteps, mem : Nat, zone : ZoneNames, at : Nat]
        /\ v.step = "again" /\ v.mem = w.mem /\ v.zone = w.zone /\ v.at = ToFirstChunk(w.zone)
    BY <1>2, <2>1, <2>2 DEF Begin, WalkSteps
  <2>4. WalkAt(heap, v)
    BY <1>2, <1>3, <1>4, <2>1, <2>3 DEF WalkAt
  <2> QED
    BY <1>1, <1>5, <2>2, <2>3, <2>4, WalkMoves
<1>6. CASE w.step = "again"
  <2>1. PICK v : v = [w EXCEPT !.step = "mark"]
    OBVIOUS
  <2>2. /\ v \in [step : WalkSteps, mem : Nat, zone : ZoneNames, at : Nat]
        /\ v.step = "mark" /\ v.mem = w.mem /\ v.zone = w.zone /\ v.at = w.at
    BY <1>2, <2>1 DEF WalkSteps
  <2>3. WalkAt(heap, v)
    BY <1>1, <1>2, <1>4, <2>2 DEF WalkAt
  <2> QED
    BY <1>1, <1>6, <2>1, <2>2, <2>3, WalkMoves
<1> QED
  BY <1>1, <1>5, <1>6

LEMMA SharedMark ==
  ASSUME SharedInv, NEW t \in Freers, Mark(t)
  PROVE  SharedInv'
<1> DEFINE m == walk[t].mem
           c == walk[t].at
<1>1. /\ walk[t].step = "mark" /\ heap' = GiveBack(heap, c) /\ Go(t, NoWalk) /\ Busy(t)
      /\ UNCHANGED <<base, large, maps, lost, phase, pc, call, cur, live, search>>
  BY DEF Mark, GiveBack, Busy
<1>2. /\ c = ChunkOf(m) /\ c \in DOMAIN heap /\ ~heap[c].free /\ ~IsLarge(m) /\ m \in Nat
      /\ m \notin DOMAIN live
  BY <1>1, Walking DEF WalkAt
<1>3. /\ Tiled(heap', Mapped) /\ DOMAIN heap' = DOMAIN heap
      /\ heap'[c].size = heap[c].size /\ \A b \in DOMAIN heap \ {c} : heap'[b] = heap[b]
  BY <1>1, <1>2, Basics, GiveBackTiled
<1>4. heap'[c].free
  <2>1. heap[c] \in [size : SizeT, free : BOOLEAN]
    BY <1>2, Basics DEF HeaderMap, Header
  <2> QED
    BY <1>1, <1>2, <2>1 DEF GiveBack, SetFree
<1>5. /\ NoWalk \in [step : WalkSteps, mem : Nat, zone : ZoneNames, at : Nat]
      /\ NoWalk.step = "idle"
  BY SMT DEF NoWalk, WalkSteps, ZoneNames, NULL
<1>6. /\ walk' \in [Freers -> [step : WalkSteps, mem : Nat, zone : ZoneNames, at : Nat]]
      /\ walk'[t] = NoWalk /\ \A u \in Freers \ {t} : walk'[u] = walk[u]
  BY <1>1, <1>5 DEF Go, SharedInv, WalkInv
<1>7. ~Busy(t)' /\ \A u \in Freers \ {t} : (Busy(u)' <=> Busy(u)) /\ walk'[u].mem = walk[u].mem
  BY <1>5, <1>6 DEF Busy
<1> HIDE DEF m, c
<1>8. \A u \in Freers \ {t} : Busy(u) => ChunkOf(walk[u].mem) # c
  <2> SUFFICES ASSUME NEW u \in Freers \ {t}, Busy(u), ChunkOf(walk[u].mem) = c PROVE FALSE
    OBVIOUS
  <2>1. walk[u].mem \in Nat
    BY Walking
  <2>2. walk[u].mem = m
    BY <1>2, <2>1, Pointers
  <2> QED
    BY <1>1, <2>2 DEF SharedInv, WalkInv, m
<1>9. NoTraps' /\ NoEmptyChunk(heap)' /\ TinyFirst' /\ Mapped' = Mapped /\ Serving'
  BY <1>1, <1>3 DEF SharedInv, NoTraps, Trap, NoEmptyChunk, TinyFirst, Mapped, Serving, Initialised
<1>10. WalkInv'
  <2>1. ASSUME NEW u \in Freers \ {t} PROVE WalkAt(heap, walk[u])'
    <3>1. WalkAt(heap, walk[u]) /\ walk'[u] = walk[u]
      BY <1>6 DEF SharedInv, WalkInv
    <3>2. Busy(u) => heap'[ChunkOf(walk[u].mem)] = heap[ChunkOf(walk[u].mem)]
      BY <1>3, <1>8, Walking
    <3> QED
      BY <1>3, <1>9, <3>1, <3>2 DEF WalkAt, OnChain, Busy
  <2>2. WalkAt(heap, walk[t])'
    BY <1>5, <1>6 DEF WalkAt
  <2>3. \A u \in Freers : Busy(u)' => walk'[u].mem \notin DOMAIN live'
    BY <1>1, <1>7 DEF SharedInv, WalkInv
  <2>4. \A u, v \in Freers : Busy(u)' /\ Busy(v)' /\ walk'[u].mem = walk'[v].mem => u = v
    BY <1>7 DEF SharedInv, WalkInv
  <2> QED
    BY <1>6, <2>1, <2>2, <2>3, <2>4 DEF WalkInv
<1>11. NothingForgotten'
  <2> SUFFICES ASSUME NEW a \in DOMAIN heap', ~heap'[a].free
               PROVE  Mem(a) \in DOMAIN live' \cup BeingFreed'
    BY DEF NothingForgotten
  <2>1. a # c /\ a \in DOMAIN heap /\ ~heap[a].free
    BY <1>3, <1>4
  <2>2. Mem(a) \in DOMAIN live \cup BeingFreed /\ Mem(a) # m
    <3>1. a \in Nat /\ ChunkOf(Mem(a)) = a
      BY <2>1, Basics, Pointers
    <3> QED
      BY <1>2, <2>1, <3>1 DEF SharedInv, NothingForgotten
  <2>3. CASE Mem(a) \in BeingFreed
    <3>1. PICK u \in Freers : Busy(u) /\ walk[u].mem = Mem(a)
      BY <2>3 DEF BeingFreed
    <3>2. u # t
      BY <2>2, <3>1 DEF m
    <3> QED
      BY <1>7, <3>1, <3>2 DEF BeingFreed
  <2> QED
    BY <1>1, <2>2, <2>3
<1>12. ZoneInv'
  <2>1. TypeOK'
    BY <1>1, <1>3, Basics DEF TypeOK, MemoryOK, CallOK, Tiled, HeaderMap
  <2>2. Tiled(heap, Mapped)'
    BY <1>3, <1>9
  <2>3. OwnedZone'
    <3> SUFFICES ASSUME NEW p \in DOMAIN live, ~IsLarge(p)
                 PROVE  ZoneHeld(heap', p, live[p])
      BY <1>1 DEF OwnedZone
    <3>1. p \in Nat /\ p # m /\ ZoneHeld(heap, p, live[p])
      BY <1>2, Basics DEF CallOK
    <3>2. ChunkOf(p) # c /\ ChunkOf(p) \in DOMAIN heap
      BY <1>2, <3>1, Pointers DEF ZoneHeld
    <3>3. heap'[ChunkOf(p)] = heap[ChunkOf(p)]
      BY <1>3, <3>2
    <3> QED
      BY <1>3, <3>1, <3>2, <3>3 DEF ZoneHeld, Room, Trap
  <2> QED
    BY <1>1, <1>3, <1>9, <2>1, <2>2, <2>3, ZoneKept
<1>13. SearchInv'
  <2>1. Zone' = Zone /\ Need' = Need
    BY <1>1 DEF Zone, Need
  <2>2. CASE pc = "place"
    <3>1. SearchAt(heap, Zone, Need, search)
      BY <2>2, Searched
    <3>2. search.step \in {"split", "shorten", "take"} => heap'[search.at] = heap[search.at]
      BY <1>2, <1>3, <2>2, Chosen
    <3>3. SearchAt(heap', Zone, Need, search)
      BY <1>3, <3>1, <3>2 DEF SearchAt, OnChain, Fitting
    <3> QED
      BY <1>1, <2>1, <2>2, <3>3 DEF SharedInv, SearchInv
  <2>3. CASE pc # "place"
    BY <1>1, <2>3 DEF SharedInv, SearchInv
  <2> QED
    BY <2>2, <2>3
<1> QED
  BY <1>9, <1>10, <1>11, <1>12, <1>13 DEF SharedInv

-----------------------------------------------------------------------------
\* The steps of the thread that allocates which are FtMalloc's.

\* They leave the headers alone, but for the one Free marks.
LEMMA SharedCore ==
  ASSUME SharedInv, ZoneInv', UNCHANGED <<search, walk>>, pc # "place",
         Mapped' = Mapped, Serving', DOMAIN heap' = DOMAIN heap,
         \A a \in DOMAIN heap : heap'[a].size = heap[a].size,
         \A t \in Freers : Busy(t) => ~heap'[ChunkOf(walk[t].mem)].free,
         \A t \in Freers : Busy(t) => walk[t].mem \notin DOMAIN live',
         NothingForgotten'
  PROVE  SharedInv'
<1>1. NoTraps' /\ NoEmptyChunk(heap)' /\ TinyFirst'
  BY DEF SharedInv, NoTraps, Trap, NoEmptyChunk, TinyFirst
<1>2. WalkInv'
  BY WalksStay
<1>3. SearchInv'
  BY NoSearchYet DEF SharedInv, SearchInv
<1> QED
  BY <1>1, <1>2, <1>3 DEF SharedInv

\* Nothing at all happens to the headers.
LEMMA SharedSameHeap ==
  ASSUME SharedInv, ZoneInv', UNCHANGED <<search, walk, heap, base>>, pc # "place", Serving',
         DOMAIN live \subseteq DOMAIN live',
         \A t \in Freers : Busy(t) => walk[t].mem \notin DOMAIN live'
  PROVE  SharedInv'
<1>1. Mapped' = Mapped
  BY DEF Mapped
<1>2. \A t \in Freers : Busy(t) => ~heap'[ChunkOf(walk[t].mem)].free
  BY Walking
<1>3. NothingForgotten'
  BY DEF SharedInv, NothingForgotten, BeingFreed, Busy
<1> QED
  BY <1>1, <1>2, <1>3, SharedCore

LEMMA SharedDefrag ==
  ASSUME SharedInv, ZoneInv', DefragSection \/ DefragPastEnd, UNCHANGED <<search, walk>>
  PROVE  SharedInv'
<1>1. heap' = heap
  BY DefragKeeps
<1>2. /\ pc = "defrag" /\ UNCHANGED <<base, call, live>>
      /\ pc' \in {"defrag", "place", "hung", "dead"}
  BY DEF DefragSection, DefragPastEnd, DefragChunk, EndSection, Hang, Crash, Stop, memory
<1>3. Serving'
  BY <1>2 DEF SharedInv, Serving, Initialised, Running
<1>4. \A t \in Freers : Busy(t) => walk[t].mem \notin DOMAIN live'
  BY <1>2, Walking
<1> QED
  BY <1>1, <1>2, <1>3, <1>4, SharedSameHeap

LEMMA SharedCreate ==
  ASSUME SharedInv, ZoneInv', CreateLargeChunk, UNCHANGED <<search, walk>>
  PROVE  SharedInv'
<1>1. PICK m : Deliver(m) /\ (m = NULL \/ IsLarge(m))
  BY DEF CreateLargeChunk, IsLarge
<1>2. pc = "map" /\ UNCHANGED <<base, heap>> /\ call.ptr = NULL
  BY DEF CreateLargeChunk, SharedInv, Serving, Running
<1>3. /\ pc' = "idle"
      /\ live' = IF m = NULL THEN live
                 ELSE [p \in DOMAIN live \cup {m} |-> IF p = m THEN call.size ELSE live[p]]
  BY <1>1, <1>2 DEF Deliver
<1>4. Serving'
  BY <1>3 DEF Serving, Running
<1>5. \A t \in Freers : Busy(t) => walk[t].mem \notin DOMAIN live'
  BY <1>1, <1>3, Walking
<1>6. DOMAIN live \subseteq DOMAIN live'
  BY <1>3
<1> QED
  BY <1>2, <1>4, <1>5, <1>6, SharedSameHeap

LEMMA SharedMalloc ==
  ASSUME SharedInv, ZoneInv', NEW n \in Requests, Malloc(n), UNCHANGED <<search, walk>>
  PROVE  SharedInv'
<1>1. pc = "idle" /\ UNCHANGED <<base, heap, live>>
  BY DEF Malloc, FtMalloc, Crash, Stop, memory, vars
<1>2. Serving'
  <2>1. CASE pc' \in {"map", "defrag"} /\ call' = [ptr |-> NULL, size |-> n, new |-> NULL]
             /\ (pc' = "defrag" => Initialised)
    BY <1>1, <2>1 DEF Serving, Initialised
  <2>2. CASE pc' \in {"idle", "dead"}
    BY <2>2 DEF Serving, Running
  <2> QED
    BY <1>1, <2>1, <2>2 DEF Malloc, FtMalloc, Crash, Stop, vars
<1>3. \A t \in Freers : Busy(t) => walk[t].mem \notin DOMAIN live'
  BY <1>1, Walking
<1> QED
  BY <1>1, <1>2, <1>3, SharedSameHeap

LEMMA SharedFree ==
  ASSUME SharedInv, ZoneInv', NEW p \in DOMAIN live, Free(p), UNCHANGED <<search, walk>>
  PROVE  SharedInv'
<1>1. pc = "idle"
  BY DEF Free
<1>2. CASE Hang \/ Crash
  <2>1. pc' \in {"hung", "dead"} /\ UNCHANGED <<base, heap, live>>
    BY <1>2 DEF Hang, Crash, Stop, memory
  <2>2. Serving'
    BY <2>1 DEF Serving, Running
  <2>3. \A t \in Freers : Busy(t) => walk[t].mem \notin DOMAIN live'
    BY <2>1, Walking
  <2> QED
    BY <1>1, <2>1, <2>2, <2>3, SharedSameHeap
<1>3. CASE Release(p) /\ live' = [q \in DOMAIN live \ {p} |-> live[q]]
           /\ UNCHANGED <<phase, pc, call, cur>>
  <2>1. base' = base /\ Serving' /\ Mapped' = Mapped /\ DOMAIN live' = DOMAIN live \ {p}
    BY <1>1, <1>3 DEF Release, memory, Serving, Running, Mapped
  <2>2. BeingFreed' = BeingFreed
    BY DEF BeingFreed, Busy
  <2>3. \A t \in Freers : Busy(t) => walk[t].mem # p /\ walk[t].mem \notin DOMAIN live'
    BY <2>1, Walking
  <2>4. CASE heap' = heap
    <3>1. IsLarge(p)
      <4> SUFFICES ASSUME ~IsLarge(p) PROVE FALSE
        OBVIOUS
      <4>1. /\ p # NULL /\ ChunkOf(p) \in DOMAIN heap /\ ~heap[ChunkOf(p)].free
            /\ \E z \in Mapped : ChunkOf(p) \in Chunks(z)
        BY OwnedChunk
      <4>2. ~InNoZone(p)
        BY <4>1, Basics DEF InNoZone
      <4>3. p \notin DOMAIN large
        BY Basics DEF MemoryOK, IsLarge
      <4>4. heap' = SetFree(heap, ChunkOf(p), TRUE)
        BY <1>3, <4>1, <4>2, <4>3 DEF Release
      <4>5. heap[ChunkOf(p)] \in [size : SizeT, free : BOOLEAN]
        BY <4>1, Basics DEF HeaderMap, Header
      <4>6. heap'[ChunkOf(p)].free
        BY <4>1, <4>4, <4>5 DEF SetFree
      <4> QED
        BY <2>4, <4>1, <4>6
    <3>2. \A a \in DOMAIN heap : Mem(a) # p
      <4>1. ASSUME NEW a \in DOMAIN heap PROVE ~IsLarge(Mem(a))
        <5>1. PICK z \in Mapped : InPlace(z, a)
          BY Basics DEF Tiled, Seated
        <5> QED
          BY <5>1, Basics, ZoneMemIsNotLarge DEF InPlace
      <4> QED
        BY <3>1, <4>1
    <3>3. NothingForgotten'
      BY <2>1, <2>2, <2>4, <3>2 DEF SharedInv, NothingForgotten
    <3>4. \A t \in Freers : Busy(t) => ~heap'[ChunkOf(walk[t].mem)].free
      BY <2>4, Walking
    <3> QED
      BY <1>1, <2>1, <2>3, <2>4, <3>3, <3>4, SharedCore
  <2>5. CASE heap' = GiveBack(heap, ChunkOf(p)) /\ ChunkOf(p) \in DOMAIN heap
    <3>1. /\ DOMAIN heap' = DOMAIN heap /\ heap'[ChunkOf(p)].size = heap[ChunkOf(p)].size
          /\ \A b \in DOMAIN heap \ {ChunkOf(p)} : heap'[b] = heap[b]
      BY <2>5, Basics, GiveBackTiled
    <3>2. heap'[ChunkOf(p)].free
      <4>1. heap[ChunkOf(p)] \in [size : SizeT, free : BOOLEAN]
        BY <2>5, Basics DEF HeaderMap, Header
      <4> QED
        BY <2>5, <4>1 DEF GiveBack, SetFree
    <3>3. p \in Nat
      BY Basics DEF CallOK
    <3>4. NothingForgotten'
      <4> SUFFICES ASSUME NEW a \in DOMAIN heap', ~heap'[a].free
                   PROVE  Mem(a) \in DOMAIN live' \cup BeingFreed'
        BY DEF NothingForgotten
      <4>1. a # ChunkOf(p) /\ a \in DOMAIN heap /\ ~heap[a].free /\ a \in Nat
        BY <3>1, <3>2, Basics
      <4>2. Mem(a) # p
        BY <4>1, Pointers
      <4> QED
        BY <2>1, <2>2, <4>1, <4>2 DEF SharedInv, NothingForgotten
    <3>5. \A t \in Freers : Busy(t) => ~heap'[ChunkOf(walk[t].mem)].free
      <4> SUFFICES ASSUME NEW t \in Freers, Busy(t)
                   PROVE  ~heap'[ChunkOf(walk[t].mem)].free
        OBVIOUS
      <4>1. /\ walk[t].mem \in Nat /\ walk[t].mem # p
            /\ ChunkOf(walk[t].mem) \in DOMAIN heap /\ ~heap[ChunkOf(walk[t].mem)].free
        BY <2>3, Walking
      <4>2. ChunkOf(walk[t].mem) # ChunkOf(p)
        BY <3>3, <4>1, Pointers
      <4> QED
        BY <3>1, <4>1, <4>2
    <3>6. \A a \in DOMAIN heap : heap'[a].size = heap[a].size
      BY <3>1
    <3> QED
      BY <1>1, <2>1, <2>3, <3>1, <3>4, <3>5, <3>6, SharedCore
  <2>6. heap' = heap \/ (heap' = GiveBack(heap, ChunkOf(p)) /\ ChunkOf(p) \in DOMAIN heap)
    BY <1>3 DEF Release, memory, GiveBack, InZone
  <2> QED
    BY <2>4, <2>5, <2>6
<1> QED
  BY <1>2, <1>3 DEF Free

\* The constructor finds no zone block, and so no thread that frees one.
LEMMA SharedInitialize ==
  ASSUME SharedInv, ZoneInv', InitializePreAllocatedZones, UNCHANGED <<search, walk>>
  PROVE  SharedInv'
<1>1. phase = "loading" /\ pc = "idle" /\ UNCHANGED <<pc, call, live>>
  BY DEF InitializePreAllocatedZones
<1>2. PICK mapped \in {{}, {"tiny"}, {"tiny", "small"}} :
        /\ base' = [z \in ZoneNames |-> IF z \in mapped THEN PlacedAt(z) ELSE NULL]
        /\ heap' = [a \in { PlacedAt(z) + DistanceToNextAlignment(PlacedAt(z)) : z \in mapped } |->
                      FirstChunk(CHOOSE z \in mapped :
                                   a = PlacedAt(z) + DistanceToNextAlignment(PlacedAt(z)))]
  BY DEF InitializePreAllocatedZones
<1>3. mapped \in SUBSET ZoneNames
  BY DEF ZoneNames
<1>4. \A z \in ZoneNames : base'[z] # NULL <=> z \in mapped
  BY <1>2, ZoneLayout, SMT DEF NULL
<1>5. TinyFirst'
  <2>1. Mapped' = mapped
    BY <1>3, <1>4 DEF Mapped
  <2> QED
    BY <1>2, <2>1 DEF TinyFirst
<1>6. ASSUME NEW a \in DOMAIN heap'
      PROVE  heap'[a].size >= 16 /\ ~Trap(heap', a) /\ heap'[a].free
  <2>1. PICK z \in mapped : heap'[a] = FirstChunk(z)
    BY <1>2, <1>6
  <2>2. /\ ZoneSize(z) \in Nat /\ ZoneSize(z) >= 32 /\ PlacedAt(z) \in Nat
        /\ PlacedAt(z) + ZoneSize(z) < SizeMod - 64
        /\ DistanceToNextAlignment(PlacedAt(z)) = 0
    BY <1>3, ZoneLayout
  <2>3. heap'[a].size = ZoneSize(z) - 0 - 16 /\ heap'[a].free
    BY <2>1, <2>2 DEF FirstChunk, HEADER
  <2> QED
    BY <2>2, <2>3, LayoutAssumption, SMT DEF Trap
<1>7. DOMAIN heap = {}
  <2>1. Mapped = {}
    BY <1>1 DEF SharedInv, ZoneInv, NothingMapped, Mapped
  <2> QED
    BY <2>1, Basics DEF Tiled
<1>8. \A t \in Freers : ~Busy(t)
  BY <1>7, Walking
<1>9. WalkInv'
  <2>1. \A t \in Freers : ~Busy(t)' /\ WalkAt(heap, walk[t])'
    BY <1>8 DEF Busy, WalkAt
  <2> QED
    BY <2>1 DEF SharedInv, WalkInv
<1>10. NoTraps' /\ NoEmptyChunk(heap)' /\ NothingForgotten'
  BY <1>6 DEF NoTraps, NoEmptyChunk, NothingForgotten
<1>11. Serving' /\ SearchInv'
  BY <1>1, NoSearchYet DEF SharedInv, SearchInv, Serving, Running
<1> QED
  BY <1>5, <1>9, <1>10, <1>11 DEF SharedInv

-----------------------------------------------------------------------------
LEMMA SharedInit == ZInit => SharedInv
<1> SUFFICES ASSUME ZInit PROVE SharedInv
  OBVIOUS
<1>1. Init /\ search = NoSearch /\ walk = [t \in Freers |-> NoWalk]
  BY DEF ZInit
<1>2. ZoneInv
  BY <1>1, ZoneInit, SharedAssumption DEF DamageLasts
<1>3. pc = "idle" /\ DOMAIN heap = {} /\ Mapped = {}
  BY <1>1 DEF Init, Mapped
<1>4. NoTraps /\ NoEmptyChunk(heap) /\ NothingForgotten /\ TinyFirst /\ Serving
  BY <1>3 DEF NoTraps, NoEmptyChunk, NothingForgotten, TinyFirst, Serving, Running
<1>5. SearchInv
  <2>1. NoSearch \in [step : SearchSteps, at : Nat, rest : Header]
    BY LayoutAssumption, SMT DEF NoSearch, SearchSteps, NULL, Header, SizeT
  <2> QED
    BY <1>1, <1>3, <2>1 DEF SearchInv
<1>6. WalkInv
  <2>1. /\ NoWalk \in [step : WalkSteps, mem : Nat, zone : ZoneNames, at : Nat]
        /\ NoWalk.step = "idle"
    BY SMT DEF NoWalk, WalkSteps, ZoneNames, NULL
  <2>2. \A t \in Freers : walk[t] = NoWalk /\ ~Busy(t) /\ WalkAt(heap, walk[t])
    BY <1>1, <2>1 DEF Busy, WalkAt
  <2> QED
    BY <1>1, <2>1, <2>2 DEF WalkInv
<1> QED
  BY <1>2, <1>4, <1>5, <1>6 DEF SharedInv

LEMMA ListTypes ==
  ASSUME SharedInv, ListInv
  PROVE  /\ \A m \in DOMAIN large : IsLarge(m) /\ m \in Nat /\ m # NULL
         /\ head \in Nat
         /\ \A c \in DOMAIN large : next[c] \in Nat
         /\ walk \in [Freers -> [step : WalkSteps, mem : Nat, zone : ZoneNames, at : Nat]]
<1>1. \A m \in DOMAIN large : IsLarge(m)
  BY Basics DEF MemoryOK, IsLarge
<1>2. \A m \in DOMAIN large : m \in Nat /\ m # NULL
  BY <1>1, LargeShape
<1>3. NULL \in Nat
  BY SMT DEF NULL
<1> QED
  BY <1>1, <1>2, <1>3 DEF ListInv, OneWay, SharedInv, WalkInv

LEMMA SharedNext == SharedInv /\ ListInv /\ [ZNext]_zvars => SharedInv'
<1> SUFFICES ASSUME SharedInv, ListInv, [ZNext]_zvars PROVE SharedInv'
  OBVIOUS
<1>1. CASE SearchStep
  BY <1>1, SharedBeginExact, SharedLookForExact, SharedLookForFit, SharedWriteRest,
     SharedShorten, SharedTake DEF SearchStep
<1>2. CASE Next /\ UNCHANGED <<search, walk>> /\ (DefragSection \/ DefragPastEnd)
  BY <1>2, ZoneStep, SharedDefrag DEF SharedInv
<1>3. CASE CreateAndPush
  <2>1. CreateLargeChunk /\ UNCHANGED <<search, walk>> /\ Next
    BY <1>3 DEF CreateAndPush, Next, RunningCall
  <2> QED
    BY <2>1, ZoneStep, SharedCreate DEF SharedInv
<1>4. CASE Initialize
  <2>1. InitializePreAllocatedZones /\ UNCHANGED <<search, walk>> /\ Next
    BY <1>4 DEF Initialize, Next
  <2> QED
    BY <2>1, ZoneStep, SharedInitialize DEF SharedInv
<1>5. ASSUME phase \in CallPhases, UNCHANGED <<search, walk>>, NEW n \in Requests, Malloc(n)
      PROVE  SharedInv'
  <2>1. Next
    BY <1>5 DEF Next, ClientCall
  <2> QED
    BY <1>5, <2>1, ZoneStep, SharedMalloc DEF SharedInv
<1>6. ASSUME phase \in CallPhases, NEW p \in DOMAIN live, FreeAndPop(p)
      PROVE  SharedInv'
  <2>1. Free(p) /\ UNCHANGED <<search, walk>> /\ Next
    BY <1>6 DEF FreeAndPop, Next, ClientCall
  <2> QED
    BY <2>1, ZoneStep, SharedFree DEF SharedInv
<1>7. ASSUME NEW t \in Freers, BeginFree(t) \/ Freeing(t) PROVE SharedInv'
  <2>1. head \in Nat
    BY ListTypes
  <2>2. ToBase(walk[t].at) \in DOMAIN maps /\ walk[t].step = "list" => next[walk[t].at] \in Nat
    BY ListTypes DEF ListInv
  <2>3. FollowList(t) => SharedInv'
    <3>1. FollowList(t) => walk[t].step = "list"
      BY DEF FollowList
    <3> QED
      BY <2>1, <2>2, <3>1, SharedFollowList
  <2> QED
    BY <1>7, <2>1, <2>3, SharedBeginFree, SharedStep, SharedPass, SharedFind, SharedMark
       DEF Freeing
<1>8. CASE UNCHANGED zvars
  <2>1. UNCHANGED <<vars, search, walk>>
    BY <1>8 DEF zvars
  <2>2. SearchInv' /\ WalkInv' /\ BeingFreed' = BeingFreed
    BY <2>1, StillSound DEF vars, SharedInv, SearchInv, WalkInv, WalkAt, Busy, BeingFreed, Zone, Need
  <2>3. NothingForgotten'
    BY <2>1, <2>2, NoneForgotten DEF vars
  <2> QED
    BY <2>1, <2>2, <2>3, StillSound DEF SharedInv
<1>9. DefragSection \/ DefragPastEnd => Next
  BY DEF Next, RunningCall
<1> QED
  BY <1>1, <1>2, <1>3, <1>4, <1>5, <1>6, <1>7, <1>8, <1>9 DEF ZNext, Allocating

-----------------------------------------------------------------------------
\* The list of large chunks while frees walk over it.
LEMMA PushKeeps ==
  ASSUME NEW D, OneWay(D, head, next), NEW m, m \notin D, m # NULL, Push(m)
  PROVE  OneWay(D \cup {m}, head', next')
<1>1. PICK r \in [D -> Nat] : \A c \in D : next[c] # NULL => r[next[c]] < r[c]
  BY DEF OneWay
<1>2. /\ head' = m /\ DOMAIN next' = D \cup {m} /\ next'[m] = head
      /\ \A c \in D : next'[c] = next[c]
  BY DEF Push, OneWay
<1> DEFINE top == IF head = NULL THEN 0 ELSE r[head] + 1
           s == [c \in D \cup {m} |-> IF c = m THEN top ELSE r[c]]
<1>3. top \in Nat /\ (head # NULL => r[head] < top)
  <2>1. head # NULL => r[head] \in Nat
    BY DEF OneWay
  <2> QED
    BY <2>1, SMT
<1> HIDE DEF top
<1>4. /\ s \in [D \cup {m} -> Nat] /\ s[m] = top /\ \A c \in D : s[c] = r[c]
  BY <1>3
<1> HIDE DEF s
<1>5. \A c \in D \cup {m} : next'[c] # NULL => s[next'[c]] < s[c]
  BY <1>1, <1>2, <1>3, <1>4 DEF OneWay
<1>6. \A c \in D \cup {m} : next'[c] \in D \cup {NULL}
  BY <1>2 DEF OneWay
<1>7. \A c, d \in D \cup {m} : next'[c] = next'[d] /\ next'[c] # NULL => c = d
  BY <1>2 DEF OneWay
<1> QED
  BY <1>2, <1>4, <1>5, <1>6, <1>7 DEF OneWay

LEMMA PopKeeps ==
  ASSUME NEW D, OneWay(D, head, next), NEW p \in D, Pop(p), NULL \notin D
  PROVE  OneWay(D \ {p}, head', next')
<1>1. PICK r \in [D -> Nat] : \A c \in D : next[c] # NULL => r[next[c]] < r[c]
  BY DEF OneWay
<1>2. \A c \in D : r[c] \in Nat
  BY <1>1
<1>3. next[p] # p
  <2>1. next[p] = p => r[p] < r[p]
    BY <1>1
  <2> QED
    BY <1>2, <2>1, SMT
<1>4. /\ DOMAIN next' = D \ {p}
      /\ \A c \in D \ {p} : next'[c] = IF next[c] = p THEN next[p] ELSE next[c]
      /\ head' = IF \A c \in D : next[c] # p THEN next[p] ELSE head
  <2>1. \A c \in D \ {p} : c \in { d \in DOMAIN next : next[d] = p } <=> next[c] = p
    BY DEF OneWay
  <2>2. { d \in DOMAIN next : next[d] = p } = {} <=> \A c \in D : next[c] # p
    BY DEF OneWay
  <2> QED
    BY <2>1, <2>2 DEF Pop, OneWay
<1>5. \A c \in D \ {p} : next'[c] \in (D \ {p}) \cup {NULL}
  BY <1>3, <1>4 DEF OneWay
<1>6. head' \in (D \ {p}) \cup {NULL}
  <2>1. CASE \A c \in D : next[c] # p
    BY <1>3, <1>4, <2>1 DEF OneWay
  <2>2. CASE \E c \in D : next[c] = p
    BY <1>4, <2>2 DEF OneWay
  <2> QED
    BY <2>1, <2>2
<1>7. \A c \in D \ {p} : next'[c] # NULL => next'[c] # head'
  <2>1. CASE \A c \in D : next[c] # p
    BY <1>4, <2>1 DEF OneWay
  <2>2. CASE \E c \in D : next[c] = p
    BY <1>4, <2>2 DEF OneWay
  <2> QED
    BY <2>1, <2>2
<1>8. \A c, d \in D \ {p} : next'[c] = next'[d] /\ next'[c] # NULL => c = d
  BY <1>4 DEF OneWay
<1>9. PICK s : s = [c \in D \ {p} |-> r[c]]
  OBVIOUS
<1>10. s \in [D \ {p} -> Nat] /\ \A c \in D \ {p} : s[c] = r[c]
  BY <1>2, <1>9
<1>11. \A c \in D \ {p} : next'[c] # NULL => s[next'[c]] < s[c]
  <2> SUFFICES ASSUME NEW c \in D \ {p}, next'[c] # NULL PROVE s[next'[c]] < s[c]
    OBVIOUS
  <2>1. s[c] = r[c] /\ s[next'[c]] = r[next'[c]] /\ next'[c] \in D
    BY <1>5, <1>10
  <2>2. CASE next[c] = p
    <3>1. r[next[p]] < r[p] /\ r[p] < r[c] /\ next'[c] = next[p]
      BY <1>1, <1>4, <2>2
    <3> QED
      BY <1>2, <2>1, <3>1, SMT
  <2>3. CASE next[c] # p
    BY <1>1, <1>4, <2>1, <2>3
  <2> QED
    BY <2>2, <2>3
<1> QED
  BY <1>4, <1>5, <1>6, <1>7, <1>8, <1>10, <1>11 DEF OneWay

LEMMA ListCreate ==
  ASSUME SharedInv, ListInv, CreateAndPush
  PROVE  ListInv'
<1>0. CreateLargeChunk /\ walk' = walk
  BY DEF CreateAndPush
<1>1. CASE large' = large /\ maps' = maps
  <2>1. UNCHANGED <<head, next>>
    BY <1>1 DEF CreateAndPush, list
  <2> QED
    BY <1>0, <1>1, <2>1 DEF ListInv
<1>2. ASSUME NEW b \in LargeBases \ DOMAIN maps,
             DOMAIN maps' = DOMAIN maps \cup {b},
             DOMAIN large' = DOMAIN large \cup {LargeChunk2Mem(b)}
      PROVE  ListInv'
  <2> DEFINE m == LargeChunk2Mem(b)
  <2>1. IsLarge(m) /\ ToBase(m) = b /\ m # NULL
    <3>1. b \in Nat /\ IsLarge(m)
      BY LayoutAssumption DEF IsLarge
    <3> QED
      BY <3>1, LargePointers, LargeShape
  <2>2. m \notin DOMAIN large
    BY <1>2, <2>1 DEF ListInv
  <2> HIDE DEF m
  <2>3. Push(m)
    <3>1. large' # large /\ DOMAIN large' \ DOMAIN large = {m}
      BY <1>2, <2>2 DEF m
    <3> QED
      BY <3>1 DEF CreateAndPush
  <2>4. OneWay(DOMAIN large', head', next')
    BY <1>2, <2>1, <2>2, <2>3, PushKeeps DEF m, ListInv
  <2>5. \A c \in DOMAIN large' : ToBase(c) \in DOMAIN maps'
    BY <1>2, <2>1 DEF m, ListInv
  <2>6. ASSUME NEW t \in Freers, walk'[t].step = "list", ToBase(walk'[t].at) \in DOMAIN maps'
        PROVE  walk'[t].at \in DOMAIN large'
    <3>1. CASE ToBase(walk[t].at) \in DOMAIN maps
      BY <1>0, <1>2, <2>6, <3>1 DEF ListInv
    <3>2. CASE ToBase(walk[t].at) = b
      <4>1. walk[t].at \in Nat /\ b \in Nat
        BY ListTypes, LayoutAssumption
      <4>2. walk[t].at = m
        BY <3>2, <4>1, SMT DEF m, ToBase, LargeChunk2Mem, LARGE_HEADER, FrontPad,
           DistanceToNextAlignment, ALIGNMENT
      <4> QED
        BY <1>0, <1>2, <4>2 DEF m
    <3> QED
      BY <1>0, <1>2, <2>6, <3>1, <3>2
  <2> QED
    BY <2>4, <2>5, <2>6 DEF ListInv
<1> QED
  BY <1>0, <1>1, <1>2 DEF CreateLargeChunk

LEMMA ListFree ==
  ASSUME SharedInv, ListInv, NEW p \in DOMAIN live, FreeAndPop(p)
  PROVE  ListInv'
<1>1. Free(p) /\ walk' = walk
  BY DEF FreeAndPop
<1>2. CASE p \notin DOMAIN large
  <2>1. UNCHANGED <<large, maps, head, next>>
    BY <1>1, <1>2 DEF Free, Release, Crash, Hang, Stop, memory, FreeAndPop, list
  <2> QED
    BY <1>1, <2>1 DEF ListInv
<1>3. CASE p \in DOMAIN large
  <2>1. /\ Pop(p) /\ DOMAIN large' = DOMAIN large \ {p}
        /\ DOMAIN maps' = DOMAIN maps \ {ToBase(p)}
    BY <1>1, <1>3, SharedAssumption DEF Free, Release, FreeAndPop
  <2>2. OneWay(DOMAIN large', head', next')
    BY <1>3, <2>1, PopKeeps, ListTypes DEF ListInv
  <2>3. \A m \in DOMAIN large \ {p} : ToBase(m) # ToBase(p)
    BY <1>3, ListTypes, LargeShape
  <2>4. \A m \in DOMAIN large' : ToBase(m) \in DOMAIN maps'
    BY <2>1, <2>3 DEF ListInv
  <2>5. \A t \in Freers : walk'[t].step = "list" /\ ToBase(walk'[t].at) \in DOMAIN maps'
          => walk'[t].at \in DOMAIN large'
    BY <1>1, <2>1 DEF ListInv
  <2> QED
    BY <2>2, <2>4, <2>5 DEF ListInv
<1> QED
  BY <1>2, <1>3

\* The constructor: no free of a block in a zone is under way.
LEMMA ListInitialize ==
  ASSUME SharedInv, ListInv, Initialize
  PROVE  ListInv'
<1>1. /\ phase = "loading" /\ large' = [m \in {} |-> 0] /\ walk' = walk
      /\ head' = NULL /\ next' = [c \in {} |-> NULL]
  BY DEF Initialize, InitializePreAllocatedZones
<1>2. DOMAIN heap = {}
  <2>1. Mapped = {}
    BY <1>1 DEF SharedInv, ZoneInv, NothingMapped, Mapped
  <2> QED
    BY <2>1, Basics DEF Tiled
<1>3. \A t \in Freers : walk[t].step = "idle"
  BY <1>2, Walking DEF Busy
<1>4. OneWay({}, head', next')
  <2>1. [c \in {} |-> 0] \in [{} -> Nat]
    OBVIOUS
  <2> QED
    BY <1>1, <2>1 DEF OneWay
<1> QED
  BY <1>1, <1>3, <1>4 DEF ListInv

\* A free that moves on along the list comes to a chunk on it.
LEMMA Led ==
  ASSUME SharedInv, ListInv, NEW t \in Freers, BeginFree(t) \/ Freeing(t),
         NEW u \in Freers, walk'[u].step = "list"
  PROVE  /\ UNCHANGED <<large, maps, head, next>>
         /\ walk'[u] = walk[u] \/ walk'[u].at \in DOMAIN large
<1>1. UNCHANGED <<large, maps, head, next>>
  BY DEF BeginFree, Freeing, FollowList, Step, Pass, Find, Mark, OnlyWalk, memory, vars, list
<1>2. PICK w : Go(t, w)
  BY DEF BeginFree, Freeing, FollowList, Step, Pass, Find, Mark
<1>3. walk'[t] = w /\ \A v \in Freers \ {t} : walk'[v] = walk[v]
  BY <1>2, ListTypes DEF Go
<1>4. CASE u = t
  <2>1. CASE BeginFree(t)
    <3>1. PICK p \in DOMAIN live : ~IsLarge(p) /\ Go(t, ListAt(p, head))
      BY <2>1 DEF BeginFree
    <3>2. walk'[t] = ListAt(p, head)
      BY <3>1, ListTypes DEF Go
    <3>3. walk'[t].at = head /\ head # NULL
      BY <1>4, <3>1, <3>2, OwnedChunk, ListTypes, Following
    <3> QED
      BY <1>1, <1>4, <3>3 DEF ListInv, OneWay
  <2>2. CASE FollowList(t)
    <3>1. PICK c : /\ Go(t, ListAt(walk[t].mem, c)) \/ Go(t, [walk[t] EXCEPT !.step = "crashed"])
                   /\ c \in DOMAIN large \cup {NULL}
      <4>1. walk[t].step = "list" /\ (ToBase(walk[t].at) \in DOMAIN maps =>
              next[walk[t].at] \in DOMAIN large \cup {NULL})
        BY <2>2 DEF FollowList, ListInv, OneWay
      <4>2. {NULL, head} \subseteq DOMAIN large \cup {NULL}
        BY DEF ListInv, OneWay
      <4> QED
        BY <2>2, <4>1, <4>2 DEF FollowList
    <3>2. Busy(t) /\ c \in Nat
      BY <2>2, <3>1, ListTypes, SMT DEF FollowList, Busy, NULL
    <3>3. CASE Go(t, ListAt(walk[t].mem, c))
      <4>1. walk'[t] = ListAt(walk[t].mem, c)
        BY <3>3, ListTypes DEF Go
      <4>2. walk'[t].at = c /\ c # NULL
        BY <1>4, <3>2, <4>1, Walking, Following
      <4> QED
        BY <1>1, <1>4, <3>1, <4>2
    <3>4. CASE Go(t, [walk[t] EXCEPT !.step = "crashed"])
      <4>1. walk'[t] = [walk[t] EXCEPT !.step = "crashed"]
        BY <3>4, ListTypes DEF Go
      <4>2. walk'[t].step = "crashed"
        BY <4>1, ListTypes
      <4> QED
        BY <1>4, <4>2
    <3> QED
      BY <3>1, <3>3, <3>4
  <2>3. Step(t) \/ Pass(t) \/ Find(t) \/ Mark(t) => walk'[t].step # "list"
    <3>1. Begin(walk[t].mem, "small", "find").step = "find"
          /\ Begin(walk[t].mem, walk[t].zone, "again").step = "again" /\ NoWalk.step = "idle"
      BY DEF Begin, NoWalk
    <3>2. /\ walk[t] \in [step : WalkSteps, mem : Nat, zone : ZoneNames, at : Nat]
          /\ walk \in [Freers -> [step : WalkSteps, mem : Nat, zone : ZoneNames, at : Nat]]
      BY ListTypes
    <3> QED
      BY <3>1, <3>2 DEF Step, Pass, Find, Mark, Go
  <2> QED
    BY <1>4, <2>1, <2>2, <2>3 DEF Freeing
<1> QED
  BY <1>1, <1>3, <1>4

LEMMA ListNext == SharedInv /\ ListInv /\ [ZNext]_zvars => ListInv'
<1> SUFFICES ASSUME SharedInv, ListInv, [ZNext]_zvars PROVE ListInv'
  OBVIOUS
<1>1. ASSUME UNCHANGED <<large, maps, head, next, walk>> PROVE ListInv'
  BY <1>1 DEF ListInv
<1>2. ASSUME \/ SearchStep
             \/ (DefragSection \/ DefragPastEnd) /\ UNCHANGED <<list, search, walk>>
      PROVE  ListInv'
  BY <1>1, <1>2 DEF SearchStep, BeginExact, LookForExact, LookForFit, WriteRest, Shorten, Take,
     OnlySearch, DefragSection, DefragPastEnd, DefragChunk, EndSection, Hang, Crash, Stop,
     memory, vars, list
<1>3. ASSUME NEW n, Malloc(n), UNCHANGED <<list, search, walk>> PROVE ListInv'
  BY <1>1, <1>3 DEF Malloc, FtMalloc, Crash, Stop, memory, vars, list
<1>4. CASE UNCHANGED zvars
  BY <1>1, <1>4 DEF zvars, vars, list
<1>5. ASSUME NEW t \in Freers, BeginFree(t) \/ Freeing(t) PROVE ListInv'
  <2>1. UNCHANGED <<large, maps, head, next>>
    BY <1>5 DEF BeginFree, Freeing, FollowList, Step, Pass, Find, Mark, OnlyWalk, memory, vars, list
  <2>2. ASSUME NEW u \in Freers, walk'[u].step = "list", ToBase(walk'[u].at) \in DOMAIN maps'
        PROVE  walk'[u].at \in DOMAIN large'
    BY <1>5, <2>1, <2>2, Led DEF ListInv
  <2> QED
    BY <2>1, <2>2 DEF ListInv
<1> QED
  BY <1>2, <1>3, <1>4, <1>5, ListCreate, ListFree, ListInitialize DEF ZNext, Allocating

LEMMA ListInit == ZInit => ListInv
<1> SUFFICES ASSUME ZInit PROVE ListInv
  OBVIOUS
<1>1. /\ DOMAIN large = {} /\ head = NULL /\ next = [c \in {} |-> NULL]
      /\ \A t \in Freers : walk[t].step = "idle"
  BY DEF ZInit, Init, NoWalk
<1>2. [c \in {} |-> 0] \in [{} -> Nat]
  OBVIOUS
<1> QED
  BY <1>1, <1>2 DEF ListInv, OneWay

LEMMA SharedAlways == ZSpec => [](SharedInv /\ ListInv)
  BY SharedInit, SharedNext, ListInit, ListNext, PTL DEF ZSpec

-----------------------------------------------------------------------------
\* With any number of threads that free while one allocates, and between any
\* two of their loads and stores: the chunks cover the zones, and a block keeps
\* its chunk, in use and large enough, until its own free has marked it.
THEOREM SharedBlocksSafe == ZSpec => []BlocksSurvive
<1>1. SharedInv => BlocksSurvive
  <2> SUFFICES ASSUME SharedInv PROVE BlocksSurvive
    OBVIOUS
  <2>1. ~Damaged /\ ChunksTileZones /\ ZoneBlocksHeld /\ BlocksDisjoint
    BY DamageIsTrap, InvTiles, InvHolds, InvDisjoint DEF SharedInv
  <2>2. BeingFreed \cap DOMAIN live = {}
    BY DEF SharedInv, WalkInv, BeingFreed
  <2>3. \A m \in BeingFreed : ChunkOf(m) \in DOMAIN heap /\ ~heap[ChunkOf(m)].free
    BY Walking DEF BeingFreed
  <2> QED
    BY <2>1, <2>2, <2>3 DEF BlocksSurvive
<1> QED
  BY <1>1, SharedAlways, PTL

\* A free that races with a split finds its block: no walk reads what is not a
\* header, and ftFree refuses no block of the client.
THEOREM SharedFreesLand == ZSpec => []FreesLand
<1>1. SharedInv => FreesLand
  BY Walking DEF FreesLand, Busy, WalkSteps
<1> QED
  BY <1>1, SharedAlways, PTL

\* No store of one thread undoes that of another: a chunk in use belongs to the
\* client, or to a free that has not returned.
THEOREM SharedNothingForgotten == ZSpec => []NothingForgotten
<1>1. SharedInv => NothingForgotten
  BY DEF SharedInv
<1> QED
  BY <1>1, SharedAlways, PTL

\* Defrag changes no header while others walk the zones, because no chunk is
\* empty.
THEOREM SharedDefragReads == ZSpec => DefragWritesNothing
<1> DEFINE Reads == pc = "defrag" => HeaderSizes' = HeaderSizes
<1>1. SharedInv /\ [ZNext]_zvars => [Reads]_zvars
  <2> SUFFICES ASSUME SharedInv, ZNext, pc = "defrag" PROVE HeaderSizes' = HeaderSizes
    OBVIOUS
  <2>1. CASE heap' = heap
    BY <2>1 DEF HeaderSizes
  <2>2. ASSUME NEW t \in Freers, Mark(t) PROVE HeaderSizes' = HeaderSizes
    <3>1. walk[t].at \in DOMAIN heap /\ heap' = GiveBack(heap, walk[t].at)
      BY <2>2, Walking DEF Mark, GiveBack, WalkAt, Busy
    <3>2. /\ DOMAIN heap' = DOMAIN heap /\ heap'[walk[t].at].size = heap[walk[t].at].size
          /\ \A b \in DOMAIN heap \ {walk[t].at} : heap'[b] = heap[b]
      BY <3>1, Basics, GiveBackTiled
    <3>3. \A b \in DOMAIN heap : heap'[b].size = heap[b].size
      BY <3>2
    <3> QED
      BY <3>2, <3>3 DEF HeaderSizes
  <2>3. DefragSection \/ DefragPastEnd => heap' = heap
    BY DefragKeeps
  <2>4. ~SearchStep /\ ~CreateAndPush /\ ~Initialize
        /\ (\A n : ~Malloc(n)) /\ (\A p : ~FreeAndPop(p))
    BY DEF SearchStep, BeginExact, LookForExact, LookForFit, WriteRest, Shorten, Take, Searching,
           CreateAndPush, CreateLargeChunk, Initialize, InitializePreAllocatedZones, Malloc,
           FreeAndPop, Free
  <2>5. \A t \in Freers :
          BeginFree(t) \/ FollowList(t) \/ Step(t) \/ Pass(t) \/ Find(t) => heap' = heap
    BY DEF BeginFree, FollowList, Step, Pass, Find, OnlyWalk, vars, memory
  <2> QED
    BY <2>1, <2>2, <2>3, <2>4, <2>5 DEF ZNext, Allocating, Freeing
<1> QED
  BY <1>1, SharedAlways, PTL DEF ZSpec, DefragWritesNothing

\* With any number of frees on their way through zones.large, and any number of
\* large chunks: neither the head nor a next field that a free loads from a
\* chunk still there leads it to one that is unmapped.
THEOREM SharedWalksLed == ZSpec => LedToChunks
<1> DEFINE Step0 == \A t \in Freers :
                      walk'[t] # walk[t] /\ walk'[t].step = "list"
                        => ToBase(walk'[t].at) \in DOMAIN maps'
<1>1. SharedInv /\ ListInv /\ [ZNext]_zvars => [Step0]_zvars
  <2> SUFFICES ASSUME SharedInv, ListInv, ZNext,
                      NEW u \in Freers, walk'[u] # walk[u], walk'[u].step = "list"
               PROVE  ToBase(walk'[u].at) \in DOMAIN maps'
    OBVIOUS
  <2>1. \E t \in Freers : BeginFree(t) \/ Freeing(t)
    BY DEF ZNext, Allocating, SearchStep, BeginExact, LookForExact, LookForFit, WriteRest,
       Shorten, Take, OnlySearch, CreateAndPush, Initialize, FreeAndPop
  <2>2. walk'[u].at \in DOMAIN large /\ maps' = maps
    BY <2>1, Led
  <2> QED
    BY <2>2 DEF ListInv
<1> QED
  BY <1>1, SharedAlways, PTL DEF ZSpec, LedToChunks
=============================================================================
