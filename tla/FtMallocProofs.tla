--------------------------- MODULE FtMallocProofs ---------------------------
(***************************************************************************)
(* What holds for every layout, request and client, whatever the client    *)
(* has done to the zones: the types, and that large chunks are safe.  It   *)
(* may corrupt the zones, call too early or too late, or free stray        *)
(* addresses.                                                              *)
(***************************************************************************)
EXTENDS FtMalloc, CommonLemmas

\* Facts about the arithmetic of Layout.

LEMMA WrapType == \A x \in Int : -SizeMod <= x /\ x < 2 * SizeMod => Wrap(x) \in SizeT
  BY LayoutAssumption, SMT DEF Wrap, SizeT

LEMMA WrapNat == \A x \in Int : -SizeMod <= x => Wrap(x) \in Nat
  BY LayoutAssumption, SMT DEF Wrap

LEMMA AlignUpType ==
  \A n \in SizeT : AlignUp(n) \in SizeT /\ AlignUp(n) % 16 = 0 /\ AlignUp(n) <= SizeMod - 16
<1> SUFFICES ASSUME NEW n \in SizeT
             PROVE  AlignUp(n) \in SizeT /\ AlignUp(n) % 16 = 0 /\ AlignUp(n) <= SizeMod - 16
  OBVIOUS
<1> DEFINE m == Wrap(n + 15)
<1>1. m \in SizeT
  BY WrapType, LayoutAssumption, SMT DEF SizeT
<1>2. AlignUp(n) = m - (m % 16)
  BY DEF AlignUp, ALIGNMENT
<1> HIDE DEF m
<1>3. /\ m \in Nat /\ m < SizeMod
      /\ m - (m % 16) \in Nat /\ (m - (m % 16)) % 16 = 0 /\ m - (m % 16) <= m
  BY <1>1, LayoutAssumption, SMT DEF SizeT
<1>4. m - (m % 16) <= SizeMod - 16
  BY <1>3, LayoutAssumption, SMT
<1> QED
  BY <1>2, <1>3, <1>4, LayoutAssumption, SMT DEF SizeT

LEMMA LargePointers ==
  /\ FrontPad = 8
  /\ \A b \in Nat : /\ LargeChunk2Mem(b) = b + 32
                    /\ LargeChunk2Mem(b) \in Nat
                    /\ ToBase(LargeChunk2Mem(b)) = b
<1>1. FrontPad = 8
  BY SMT DEF FrontPad, DistanceToNextAlignment, LARGE_HEADER, ALIGNMENT
<1> QED
  BY <1>1, SMT DEF LargeChunk2Mem, ToBase, LARGE_HEADER

-----------------------------------------------------------------------------
\* Operations on headers keep their types.

LEMMA ToNextType ==
  ASSUME MemoryOK, NEW a \in DOMAIN heap
  PROVE  ToNext(heap, a) \in Nat /\ heap[a].size \in SizeT
<1>1. a \in Nat /\ heap[a] \in Header
  BY DEF MemoryOK
<1>2. heap[a].size \in SizeT
  BY <1>1 DEF Header
<1> QED
  BY <1>1, <1>2, WrapNat, LayoutAssumption, SMT DEF ToNext, HEADER, SizeT

LEMMA ZoneEndType ==
  ASSUME MemoryOK, NEW z \in ZoneNames
  PROVE  ToZoneEnd(z) \in SizeT /\ ToFirstChunk(z) \in Nat
<1>1. base[z] \in {NULL, PlacedAt(z)} /\ z \in {"tiny", "small"}
  BY DEF MemoryOK, ZoneNames
<1> QED
  BY <1>1, LayoutAssumption, SMT
  DEF ToZoneEnd, ToFirstChunk, DistanceToNextAlignment, ALIGNMENT, NULL,
      PlacedAt, ZoneSize, SizeT

\* A run of chunks that stops at t has a length, and growing a chunk by it
\* leaves a heap of headers.
LEMMA ExpandedType ==
  ASSUME MemoryOK, NEW a \in DOMAIN heap, NEW t \in Stops(a),
         ConsecutiveFree(ToNext(heap, a), t)
  PROVE  /\ Expanded(a, t) \in [DOMAIN Expanded(a, t) -> Header]
         /\ DOMAIN Expanded(a, t) \subseteq DOMAIN heap
         /\ a \in DOMAIN Expanded(a, t)
<1> DEFINE s == ToNext(heap, a)
<1>1. s \in Nat /\ heap[a].size \in SizeT
  BY ToNextType
<1>2. t = s \/ (t \in Nat /\ s <= t /\ t < SizeMod)
  <2>1. CASE InNoZone(s) /\ t = s
    BY <2>1
  <2>2. CASE \E z \in ZoneNames : InZone(s, z) /\ FreeRunEndsAt(heap, s, ToZoneEnd(z), t)
    <3>1. PICK z \in ZoneNames : FreeRunEndsAt(heap, s, ToZoneEnd(z), t)
      BY <2>2
    <3>2. t \in DOMAIN heap \cup {ToZoneEnd(z)} /\ s <= t /\ t <= ToZoneEnd(z)
      BY <3>1 DEF FreeRunEndsAt
    <3>3. ToZoneEnd(z) \in SizeT
      BY ZoneEndType
    <3>4. t \in Nat
      BY <3>2, <3>3 DEF MemoryOK, SizeT
    <3> QED
      BY <3>2, <3>3, <3>4, LayoutAssumption, SMT DEF SizeT
  <2> QED
    BY <2>1, <2>2 DEF ConsecutiveFree
<1>3. t - s \in Int /\ 0 <= t - s /\ t - s < SizeMod
  BY <1>1, <1>2, LayoutAssumption, SMT
<1>4. Wrap(heap[a].size + (t - s)) \in SizeT
  BY <1>1, <1>3, WrapType, LayoutAssumption, SMT DEF SizeT
<1> DEFINE keep == { c \in DOMAIN heap :
                       c = a \/ ~(ToNext(heap, a) <= c /\ c < ToNext(heap, a) + (t - s)) }
           hd == [heap[a] EXCEPT !.size = Wrap(@ + (t - s))]
<1>5. Expanded(a, t) = heap \/ Expanded(a, t) = [ b \in keep |-> IF b = a THEN hd ELSE heap[b] ]
  BY DEF Expanded, Expand
<1>6. \A b \in DOMAIN heap : heap[b] \in Header
  BY DEF MemoryOK
<1>7. hd \in Header
  BY <1>4, <1>6 DEF Header
<1>8. keep \subseteq DOMAIN heap /\ a \in keep
  OBVIOUS
<1> HIDE DEF keep, hd
<1>9. CASE Expanded(a, t) = heap
  BY <1>9 DEF MemoryOK
<1>10. CASE Expanded(a, t) = [ b \in keep |-> IF b = a THEN hd ELSE heap[b] ]
  BY <1>6, <1>7, <1>8, <1>10
<1> QED
  BY <1>5, <1>9, <1>10

HeaderMap(h) == h \in [DOMAIN h -> Header] /\ DOMAIN h \subseteq Nat

LEMMA SplitType ==
  ASSUME NEW h, HeaderMap(h), NEW a \in DOMAIN h,
         NEW goal \in SizeT, goal <= SizeMod - 16
  PROVE  HeaderMap(SplitChunk(h, a, goal)) /\ a \in DOMAIN SplitChunk(h, a, goal)
<1> DEFINE rest == [size |-> Wrap(h[a].size - goal - HEADER), free |-> TRUE]
           main == [h[a] EXCEPT !.size = goal]
<1>1. a \in Nat /\ h[a] \in Header
  BY DEF HeaderMap
<1>2. h[a].size \in SizeT
  BY <1>1 DEF Header
<1>3. Wrap(h[a].size - goal - HEADER) \in SizeT
  BY <1>2, WrapType, LayoutAssumption, SMT DEF SizeT, HEADER
<1>4. rest \in Header /\ main \in Header
  BY <1>1, <1>3 DEF Header
<1>5. RestOf(a, goal) \in Nat
  BY <1>1, SMT DEF RestOf, HEADER, SizeT
<1>6. SplitChunk(h, a, goal) =
        [ b \in DOMAIN h \cup {RestOf(a, goal)} |->
            IF b = a THEN main ELSE IF b = RestOf(a, goal) THEN rest ELSE h[b] ]
  BY DEF SplitChunk
<1> HIDE DEF rest, main
<1> QED
  BY <1>4, <1>5, <1>6 DEF HeaderMap

LEMMA SetFreeType ==
  ASSUME NEW h, HeaderMap(h), NEW a, NEW f \in BOOLEAN
  PROVE  HeaderMap(SetFree(h, a, f)) /\ DOMAIN SetFree(h, a, f) = DOMAIN h
<1>1. CASE a \in DOMAIN h
  <2>1. h[a] \in Header
    BY <1>1 DEF HeaderMap
  <2>2. [h[a] EXCEPT !.free = f] \in Header
    BY <2>1 DEF Header
  <2>3. SetFree(h, a, f) = [h EXCEPT ![a] = [h[a] EXCEPT !.free = f]]
    BY DEF SetFree
  <2> QED
    BY <2>2, <2>3 DEF HeaderMap
<1>2. CASE a \notin DOMAIN h
  BY <1>2 DEF SetFree, HeaderMap
<1> QED
  BY <1>1, <1>2

\* How a call ends keeps the types of the variables that describe calls.

LEMMA StopType ==
  ASSUME TypeOK, NEW how \in {"hung", "dead"}, Stop(how)
  PROVE  TypeOK'
<1>1. CallOK'
  BY SMT DEF TypeOK, CallOK, Stop, NoCursor, ZoneNames, NULL, Running
<1>2. MemoryOK'
  BY DEF TypeOK, MemoryOK, Stop, memory
<1> QED
  BY <1>1, <1>2 DEF TypeOK

LEMMA DeliverType ==
  ASSUME CallOK, pc \in Running, NEW m \in Nat, Deliver(m), phase' = phase
  PROVE  CallOK'
<1>1. cur' \in [zone : ZoneNames, at : Nat]
  BY DEF Deliver, NoCursor, ZoneNames, NULL
<1>2. call.size \in SizeT /\ call.ptr \in Nat
  BY DEF CallOK
<1>3. CASE call.ptr = NULL \/ m = NULL
  <2>1. pc' = "idle" /\ call' = NoCall
    BY <1>3 DEF Deliver
  <2>2. live' \in [DOMAIN live' -> SizeT] /\ DOMAIN live' \subseteq Nat
    BY <1>2, <1>3 DEF Deliver, CallOK
  <2> QED
    BY <1>1, <2>1, <2>2 DEF CallOK, NoCall, NULL, Running
<1>4. CASE ~(call.ptr = NULL \/ m = NULL)
  <2>1. pc' = "copy" /\ call' = [call EXCEPT !.new = m] /\ live' = live
    BY <1>4 DEF Deliver
  <2>2. call'.size = call.size /\ call' \in [ptr : Nat, size : SizeT \cup {-1}, new : Nat]
    BY <2>1 DEF CallOK
  <2> QED
    BY <1>1, <1>2, <2>1, <2>2 DEF CallOK, Running
<1> QED
  BY <1>3, <1>4

LEMMA FtMallocType ==
  ASSUME TypeOK, NEW p \in Nat, NEW n \in SizeT, pc = "idle", FtMalloc(p, n)
  PROVE  TypeOK'
<1>1. CASE n > SmallMax /\ pc' = "map" /\ call' = [ptr |-> p, size |-> n, new |-> NULL]
           /\ UNCHANGED <<memory, phase, cur, live>>
  <2>1. CallOK'
    BY <1>1, SMT DEF TypeOK, CallOK, Running, NULL
  <2>2. MemoryOK'
    BY <1>1 DEF TypeOK, MemoryOK, memory
  <2> QED
    BY <2>1, <2>2 DEF TypeOK
<1>2. CASE /\ pc' = "defrag"
           /\ cur' = [zone |-> "tiny", at |-> ToFirstChunk("tiny")]
           /\ call' = [ptr |-> p, size |-> n, new |-> NULL]
           /\ UNCHANGED <<memory, phase, live>>
  <2>1. ToFirstChunk("tiny") \in Nat
    BY ZoneEndType DEF TypeOK, ZoneNames
  <2>2. CallOK'
    BY <1>2, <2>1, SMT DEF TypeOK, CallOK, Running, NULL, ZoneNames
  <2>3. MemoryOK'
    BY <1>2 DEF TypeOK, MemoryOK, memory
  <2> QED
    BY <2>2, <2>3 DEF TypeOK
<1>3. CASE Crash
  BY <1>3, StopType DEF Crash
<1>4. CASE UNCHANGED vars
  BY <1>4 DEF vars, TypeOK, MemoryOK, CallOK
<1> QED
  BY <1>1, <1>2, <1>3, <1>4 DEF FtMalloc

LEMMA EndSectionType ==
  ASSUME TypeOK, pc = "defrag", EndSection
  PROVE  TypeOK'
<1>1. ToFirstChunk("small") \in Nat
  BY ZoneEndType DEF TypeOK, ZoneNames
<1>2. CallOK'
  <2>1. cur' \in [zone : ZoneNames, at : Nat] /\ pc' \in Running
    BY <1>1 DEF EndSection, NoCursor, ZoneNames, NULL, Running
  <2>2. UNCHANGED <<phase, call, live>> /\ call.size \in SizeT
    BY DEF EndSection, TypeOK, CallOK, Running
  <2> QED
    BY <2>1, <2>2 DEF TypeOK, CallOK
<1>3. MemoryOK'
  BY DEF EndSection, memory, TypeOK, MemoryOK
<1> QED
  BY <1>2, <1>3 DEF TypeOK

LEMMA DefragSectionType ==
  ASSUME TypeOK, DefragSection
  PROVE  TypeOK'
<1> DEFINE seen == Walk(heap, ToNext(heap, cur.at), ToZoneEnd(cur.zone))
           free == { a \in seen : heap[a].free }
<1>0. pc = "defrag" /\ free \subseteq DOMAIN heap
  BY DEF DefragSection, Walk
<1>1. ASSUME NEW first \in free, NEW t \in Stops(first),
             ConsecutiveFree(ToNext(heap, first), t), DefragChunk(first, t)
      PROVE  TypeOK'
  <2>1. first \in DOMAIN heap
    BY <1>0
  <2>2. HeaderMap(heap')
    <3>1. HeaderMap(heap) /\ HeaderMap(Expanded(first, t))
      BY <1>1, <2>1, ExpandedType DEF TypeOK, MemoryOK, HeaderMap
    <3> QED
      BY <1>1, <3>1 DEF DefragChunk
  <2>3. first \in DOMAIN heap'
    BY <1>1, <2>1, ExpandedType DEF DefragChunk, TypeOK
  <2>4. MemoryOK'
    BY <1>1, <2>2 DEF DefragChunk, TypeOK, MemoryOK, HeaderMap
  <2>5. ToNext(heap', first) \in Nat
    BY <2>3, <2>2, WrapNat, LayoutAssumption, SMT DEF ToNext, HEADER, HeaderMap, Header, SizeT
  <2>6. cur' \in [zone : ZoneNames, at : Nat]
    BY <1>1, <2>5 DEF DefragChunk, TypeOK, CallOK
  <2>7. CallOK'
    BY <1>1, <2>6 DEF DefragChunk, TypeOK, CallOK
  <2> QED
    BY <2>4, <2>7 DEF TypeOK
<1>2. CASE Hang
  BY <1>2, StopType DEF Hang
<1>3. CASE EndSection
  BY <1>0, <1>3, EndSectionType
<1> QED
  BY <1>1, <1>2, <1>3 DEF DefragSection

LEMMA DefragPastEndType ==
  ASSUME TypeOK, DefragPastEnd
  PROVE  TypeOK'
  BY EndSectionType, StopType DEF DefragPastEnd, Crash

LEMMA PlaceType ==
  ASSUME TypeOK, Place
  PROVE  TypeOK'
<1> DEFINE need == AlignUp(call.size)
           z == ZoneFor(call.size)
           exact == { a \in Chunks(z) : heap[a].size = need /\ heap[a].free }
           fitting == { a \in Chunks(z) : heap[a].size >= need /\ heap[a].free }
<1>1. pc = "place" /\ pc \in Running /\ call.size \in SizeT
  BY DEF Place, TypeOK, CallOK, Running
<1>2. need \in SizeT /\ need <= SizeMod - 16
  BY <1>1, AlignUpType
<1>3. exact \subseteq DOMAIN heap /\ fitting \subseteq DOMAIN heap
  BY DEF Chunks, Walk
<1>4. HeaderMap(heap)
  BY DEF TypeOK, MemoryOK, HeaderMap
<1>5. UNCHANGED <<base, large, maps, phase, lost>>
  BY DEF Place
<1>6. ASSUME NEW a \in DOMAIN heap, HeaderMap(heap'), Deliver(Mem(a))
      PROVE  TypeOK'
  <2>1. Mem(a) \in Nat
    BY <1>4 DEF Mem, HEADER, HeaderMap
  <2>2. CallOK'
    BY <1>1, <1>5, <1>6, <2>1, DeliverType DEF TypeOK
  <2>3. MemoryOK'
    BY <1>5, <1>6 DEF TypeOK, MemoryOK, HeaderMap
  <2> QED
    BY <2>2, <2>3 DEF TypeOK
<1>7. ASSUME NEW a \in exact, heap' = SetFree(heap, a, FALSE), Deliver(Mem(a))
      PROVE  TypeOK'
  <2>1. HeaderMap(heap')
    BY <1>4, <1>7, SetFreeType
  <2> QED
    BY <1>3, <1>6, <1>7, <2>1
<1>8. ASSUME NEW a \in fitting, Deliver(Mem(a)),
             heap' = IF heap[a].size >= need + CHUNK_MINIMUM_SIZE
                       THEN SetFree(SplitChunk(heap, a, need), a, FALSE)
                       ELSE SetFree(heap, a, FALSE)
      PROVE  TypeOK'
  <2>1. a \in DOMAIN heap
    BY <1>3
  <2>2. HeaderMap(SplitChunk(heap, a, need))
    BY <1>2, <1>4, <2>1, SplitType
  <2>3. HeaderMap(SetFree(SplitChunk(heap, a, need), a, FALSE))
    BY <2>2, SetFreeType
  <2>4. HeaderMap(SetFree(heap, a, FALSE))
    BY <1>4, SetFreeType
  <2>5. HeaderMap(heap')
    BY <1>8, <2>3, <2>4
  <2> QED
    BY <1>6, <1>8, <2>1, <2>5
<1>9. CASE pc' = "map" /\ UNCHANGED <<heap, call, cur, live>>
  <2>1. MemoryOK'
    BY <1>5, <1>9 DEF TypeOK, MemoryOK
  <2>2. CallOK'
    BY <1>1, <1>5, <1>9 DEF TypeOK, CallOK, Running
  <2> QED
    BY <2>1, <2>2 DEF TypeOK
<1> QED
  BY <1>7, <1>8, <1>9 DEF Place

LEMMA CreateLargeChunkType ==
  ASSUME TypeOK, CreateLargeChunk
  PROVE  TypeOK'
<1> DEFINE length == Reqsize2AllocationSize(call.size)
<1>1. pc \in Running /\ call.size \in SizeT /\ UNCHANGED <<base, heap, phase, lost>>
  BY DEF CreateLargeChunk, TypeOK, CallOK, Running
<1>2. length \in SizeT
  <2>1. call.size + 39 \in Int /\ -SizeMod <= call.size + 39 /\ call.size + 39 < 2 * SizeMod
    BY <1>1, LayoutAssumption, SMT DEF SizeT
  <2>2. Wrap(call.size + 39) \in SizeT
    BY <2>1, WrapType
  <2>3. (ALIGNMENT - 1) + LARGE_HEADER + call.size = call.size + 39
    BY <1>1, SMT DEF ALIGNMENT, LARGE_HEADER, SizeT
  <2> QED
    BY <2>2, <2>3 DEF Reqsize2AllocationSize
<1>3. Wrap(length - FrontPad - LARGE_HEADER) \in SizeT
  <2>1. length - 8 - 24 \in Int /\ -SizeMod <= length - 8 - 24 /\ length - 8 - 24 < 2 * SizeMod
    BY <1>2, LayoutAssumption, SMT DEF SizeT
  <2> QED
    BY <2>1, WrapType, LargePointers DEF LARGE_HEADER
<1> HIDE DEF length
<1>4. ASSUME NEW b \in LargeBases \ DOMAIN maps,
             maps' = [c \in DOMAIN maps \cup {b} |-> IF c = b THEN length ELSE maps[c]],
             large' = [m \in DOMAIN large \cup {LargeChunk2Mem(b)} |->
                         IF m = LargeChunk2Mem(b)
                           THEN Wrap(length - FrontPad - LARGE_HEADER)
                           ELSE large[m]],
             Deliver(LargeChunk2Mem(b))
      PROVE  TypeOK'
  <2>1. b \in Nat /\ LargeChunk2Mem(b) \in Nat
    BY LayoutAssumption, LargePointers
  <2>2. CallOK'
    BY <1>1, <1>4, <2>1, DeliverType DEF TypeOK
  <2>3. length \in Nat
    BY <1>2 DEF SizeT
  <2>4. maps' \in [DOMAIN maps' -> Nat]
        /\ DOMAIN maps' \subseteq LargeBases \cup { PlacedAt(z) : z \in ZoneNames }
    BY <1>4, <2>3 DEF TypeOK, MemoryOK
  <2>5. large' \in [DOMAIN large' -> SizeT]
        /\ DOMAIN large' \subseteq { LargeChunk2Mem(c) : c \in LargeBases }
    BY <1>3, <1>4 DEF TypeOK, MemoryOK
  <2>6. MemoryOK'
    BY <1>1, <2>4, <2>5 DEF TypeOK, MemoryOK
  <2> QED
    BY <2>2, <2>6 DEF TypeOK
<1>5. CASE Deliver(NULL) /\ UNCHANGED <<maps, large>>
  <2>1. CallOK'
    BY <1>1, <1>5, DeliverType DEF TypeOK, NULL
  <2>2. MemoryOK'
    BY <1>1, <1>5 DEF TypeOK, MemoryOK
  <2> QED
    BY <2>1, <2>2 DEF TypeOK
<1> QED
  BY <1>4, <1>5 DEF CreateLargeChunk, length

LEMMA ReleaseType ==
  ASSUME MemoryOK, NEW p, Release(p)
  PROVE  MemoryOK'
<1>1. CASE /\ p \in DOMAIN large
           /\ large' = [m \in DOMAIN large \ {p} |-> large[m]]
           /\ \/ maps' = [b \in DOMAIN maps \ {ToBase(p)} |-> maps[b]] /\ lost' = lost
              \/ MunmapMayFail /\ maps' = maps /\ lost' = lost \cup {ToBase(p)}
           /\ UNCHANGED <<base, heap>>
  <2>1. PICK b \in LargeBases : p = LargeChunk2Mem(b)
    BY <1>1 DEF MemoryOK
  <2>2. ToBase(p) \in LargeBases
    BY <2>1, LargePointers, LayoutAssumption
  <2> QED
    BY <1>1, <2>2 DEF MemoryOK
<1>2. CASE heap' = SetFree(heap, ChunkOf(p), TRUE) /\ UNCHANGED <<base, large, maps, lost>>
  <2>1. HeaderMap(heap')
    BY <1>2, SetFreeType DEF MemoryOK, HeaderMap
  <2> QED
    BY <1>2, <2>1 DEF MemoryOK, HeaderMap
<1>3. CASE UNCHANGED memory
  BY <1>3 DEF memory, MemoryOK
<1> QED
  BY <1>1, <1>2, <1>3 DEF Release

LEMMA FreeType ==
  ASSUME TypeOK, NEW p, Free(p)
  PROVE  TypeOK'
<1>1. CASE Release(p) /\ live' = [q \in DOMAIN live \ {p} |-> live[q]]
           /\ UNCHANGED <<phase, pc, call, cur>>
  <2>1. MemoryOK'
    BY <1>1, ReleaseType DEF TypeOK
  <2>2. CallOK'
    BY <1>1 DEF TypeOK, CallOK
  <2> QED
    BY <2>1, <2>2 DEF TypeOK
<1>2. CASE Hang \/ Crash
  BY <1>2, StopType DEF Hang, Crash
<1> QED
  BY <1>1, <1>2 DEF Free

LEMMA CopyAndFreeType ==
  ASSUME TypeOK, CopyAndFree
  PROVE  TypeOK'
<1>1. MemoryOK'
  BY ReleaseType DEF CopyAndFree, TypeOK
<1>2. call.size \in SizeT /\ call.new \in Nat
  BY DEF CopyAndFree, TypeOK, CallOK, Running
<1>3. live' \in [DOMAIN live' -> SizeT] /\ DOMAIN live' \subseteq Nat
  BY <1>2 DEF CopyAndFree, TypeOK, CallOK
<1>4. CallOK'
  BY <1>3 DEF CopyAndFree, TypeOK, CallOK, NoCall, NULL, Running
<1> QED
  BY <1>1, <1>4 DEF TypeOK

LEMMA ResizeType ==
  ASSUME TypeOK, NEW p, NEW n \in SizeT, ChunkOf(p) \in DOMAIN heap,
         NEW t \in Stops(ChunkOf(p)), ConsecutiveFree(ToNext(heap, ChunkOf(p)), t),
         Resize(p, n, t)
  PROVE  TypeOK'
<1> DEFINE a == ChunkOf(p)
           need == AlignUp(n)
           grown == Expanded(a, t)
           split == SplitChunk(grown, a, need)
<1>1. HeaderMap(grown) /\ a \in DOMAIN grown
  BY ExpandedType DEF TypeOK, MemoryOK, HeaderMap
<1>2. need \in SizeT /\ need <= SizeMod - 16
  BY AlignUpType
<1>3. HeaderMap(split)
  BY <1>1, <1>2, SplitType
<1>4. DOMAIN grown \subseteq DOMAIN split
  BY DEF SplitChunk
<1>5. heap' = split \/ heap' = [b \in DOMAIN grown |-> split[b]]
  BY DEF Resize
<1> HIDE DEF a, need, grown, split
<1>6. HeaderMap(heap')
  BY <1>1, <1>3, <1>4, <1>5 DEF HeaderMap
<1>7. MemoryOK'
  BY <1>6 DEF Resize, TypeOK, MemoryOK, HeaderMap
<1>8. CallOK'
  BY DEF Resize, TypeOK, CallOK
<1> QED
  BY <1>7, <1>8 DEF TypeOK

LEMMA ReallocType ==
  ASSUME TypeOK, NEW p \in Nat, NEW n \in SizeT, Realloc(p, n)
  PROVE  TypeOK'
<1>0. pc = "idle"
  BY DEF Realloc
<1>1. CASE FtMalloc(p, n)
  BY <1>0, <1>1, FtMallocType
<1>2. ASSUME ChunkOf(p) \in DOMAIN heap, NEW t \in Stops(ChunkOf(p)),
             ConsecutiveFree(ToNext(heap, ChunkOf(p)), t), Resize(p, n, t)
      PROVE  TypeOK'
  BY <1>2, ResizeType
<1>3. CASE Hang \/ Crash
  BY <1>3, StopType DEF Hang, Crash
<1>4. CASE UNCHANGED vars
  BY <1>4 DEF vars, TypeOK, MemoryOK, CallOK
<1>5. \A z \in ZoneNames : InZone(p, z) => ChunkOf(p) \in DOMAIN heap
  BY DEF InZone, Chunks, Walk
<1> QED
  BY <1>1, <1>2, <1>3, <1>4, <1>5 DEF Realloc, ResizeCrashes

LEMMA ZoneLayout ==
  \A z \in ZoneNames :
    /\ PlacedAt(z) \in Nat /\ PlacedAt(z) > 0 /\ PlacedAt(z) % 16 = 0
    /\ ZoneSize(z) \in Nat /\ ZoneSize(z) >= 32 /\ ZoneSize(z) % 16 = 0
    /\ PlacedEnd(z) = PlacedAt(z) + ZoneSize(z) /\ PlacedEnd(z) < SizeMod - 64
    /\ DistanceToNextAlignment(PlacedAt(z)) = 0
<1> SUFFICES ASSUME NEW z \in ZoneNames
             PROVE  /\ PlacedAt(z) \in Nat /\ PlacedAt(z) > 0 /\ PlacedAt(z) % 16 = 0
                    /\ ZoneSize(z) \in Nat /\ ZoneSize(z) >= 32 /\ ZoneSize(z) % 16 = 0
                    /\ PlacedEnd(z) = PlacedAt(z) + ZoneSize(z) /\ PlacedEnd(z) < SizeMod - 64
                    /\ DistanceToNextAlignment(PlacedAt(z)) = 0
  OBVIOUS
<1>1. z = "tiny" \/ z = "small"
  BY DEF ZoneNames
<1>2. /\ PlacedAt(z) \in Nat /\ PlacedAt(z) > 0 /\ PlacedAt(z) % 16 = 0
      /\ ZoneSize(z) \in Nat /\ ZoneSize(z) >= 32 /\ ZoneSize(z) % 16 = 0
      /\ PlacedEnd(z) = PlacedAt(z) + ZoneSize(z) /\ PlacedEnd(z) < SizeMod - 64
  BY <1>1, LayoutAssumption, SMT DEF PlacedAt, ZoneSize, PlacedEnd
<1>3. DistanceToNextAlignment(PlacedAt(z)) = 0
  BY <1>2, SMT DEF DistanceToNextAlignment, ALIGNMENT
<1> QED
  BY <1>2, <1>3

LEMMA InitializeType ==
  ASSUME TypeOK, InitializePreAllocatedZones
  PROVE  TypeOK'
<1> PICK mapped \in {{}, {"tiny"}, {"tiny", "small"}} :
      /\ base' = [z \in ZoneNames |-> IF z \in mapped THEN PlacedAt(z) ELSE NULL]
      /\ heap' = [a \in { PlacedAt(z) + DistanceToNextAlignment(PlacedAt(z)) : z \in mapped } |->
                    FirstChunk(CHOOSE z \in mapped :
                                 a = PlacedAt(z) + DistanceToNextAlignment(PlacedAt(z)))]
      /\ maps' = [b \in DOMAIN maps \cup { PlacedAt(z) : z \in mapped } |->
                    IF b \in DOMAIN maps THEN maps[b]
                    ELSE ZoneSize(CHOOSE z \in mapped : b = PlacedAt(z))]
  BY DEF InitializePreAllocatedZones
<1>1. mapped \subseteq ZoneNames
  BY DEF ZoneNames
<1>2. \A z \in ZoneNames : FirstChunk(z) \in Header
  BY ZoneLayout, LayoutAssumption, SMT DEF FirstChunk, Header, SizeT, HEADER
<1>3. heap' \in [DOMAIN heap' -> Header] /\ DOMAIN heap' \subseteq Nat
  BY <1>1, <1>2, ZoneLayout
<1>4. maps' \in [DOMAIN maps' -> Nat]
      /\ DOMAIN maps' \subseteq LargeBases \cup { PlacedAt(z) : z \in ZoneNames }
  BY <1>1, ZoneLayout DEF TypeOK, MemoryOK
<1>5. base' \in [ZoneNames -> Nat] /\ \A z \in ZoneNames : base'[z] \in {NULL, PlacedAt(z)}
  BY ZoneLayout DEF NULL
<1>6. lost' \subseteq LargeBases
  <2>1. \A m \in DOMAIN large : ToBase(m) \in LargeBases
    BY LargePointers, LayoutAssumption DEF TypeOK, MemoryOK
  <2> QED
    BY <2>1 DEF InitializePreAllocatedZones, TypeOK, MemoryOK
<1>7. large' \in [DOMAIN large' -> SizeT] /\ DOMAIN large' = {}
  BY DEF InitializePreAllocatedZones
<1>8. MemoryOK'
  BY <1>3, <1>4, <1>5, <1>6, <1>7 DEF MemoryOK
<1>9. CallOK'
  BY DEF InitializePreAllocatedZones, TypeOK, CallOK
<1> QED
  BY <1>8, <1>9 DEF TypeOK

LEMMA CleanupType ==
  ASSUME TypeOK, CleanupPreAllocatedZones
  PROVE  TypeOK'
<1>1. MemoryOK'
  BY DEF CleanupPreAllocatedZones, TypeOK, MemoryOK
<1>2. CallOK'
  BY DEF CleanupPreAllocatedZones, TypeOK, CallOK
<1> QED
  BY <1>1, <1>2 DEF TypeOK

LEMMA InitType == Init => TypeOK
<1> SUFFICES ASSUME Init PROVE TypeOK
  OBVIOUS
<1>1. MemoryOK
  BY DEF Init, MemoryOK, NULL, ZoneNames
<1>2. CallOK
  BY DEF Init, CallOK, NoCall, NoCursor, NULL, ZoneNames, Running
<1> QED
  BY <1>1, <1>2 DEF TypeOK

\* One step of the allocator, of the client or of the loader keeps the types.
LEMMA StepType == TypeOK /\ [Next]_vars => TypeOK'
<1> SUFFICES ASSUME TypeOK, [Next]_vars PROVE TypeOK'
  OBVIOUS
<1>1. CASE InitializePreAllocatedZones
  BY <1>1, InitializeType
<1>2. CASE CleanupPreAllocatedZones
  BY <1>2, CleanupType
<1>3. CASE ClientCall
  <2>1. ASSUME NEW n \in Requests, Malloc(n) PROVE TypeOK'
    <3>1. n \in SizeT /\ NULL \in Nat /\ pc = "idle"
      BY <2>1, ClientAssumption DEF NULL, Malloc
    <3> QED
      BY <2>1, <3>1, FtMallocType DEF Malloc
  <2>2. ASSUME NEW p \in DOMAIN live \cup WildPointers, Free(p) PROVE TypeOK'
    BY <2>2, FreeType
  <2>3. ASSUME NEW p \in DOMAIN live, NEW n \in Requests, Realloc(p, n) PROVE TypeOK'
    BY <2>3, ReallocType, ClientAssumption DEF TypeOK, CallOK
  <2> QED
    BY <1>3, <2>1, <2>2, <2>3 DEF ClientCall
<1>4. CASE RunningCall
  BY <1>4, DefragSectionType, DefragPastEndType, PlaceType, CreateLargeChunkType, CopyAndFreeType
  DEF RunningCall
<1>5. CASE UNCHANGED vars
  BY <1>5 DEF vars, TypeOK, MemoryOK, CallOK
<1> QED
  BY <1>1, <1>2, <1>3, <1>4, <1>5 DEF Next

\* The types hold for every client: also one that resizes blocks to their exact
\* size, calls before the constructor or after the destructor, frees addresses
\* it was never given, and asks for sizes that wrap.
THEOREM TypeCorrect == Spec => []TypeOK
  BY InitType, StepType, PTL DEF Spec

-----------------------------------------------------------------------------
\* Large chunks.

\* Block m, of n bytes, has its mapping among mp; the list lg, if it has m,
\* knows a size that covers it.
LargeHeld(mp, lg, m, n) ==
  /\ ToBase(m) \in DOMAIN mp
  /\ Fits(n) => /\ m + n <= ToBase(m) + mp[ToBase(m)]
                /\ m \in DOMAIN lg => n <= lg[m]

OwnedLarge == \A p \in DOMAIN live : IsLarge(p) => LargeHeld(maps, large, p, live[p])
NewLarge == pc = "copy" /\ IsLarge(call.new) =>
              LargeHeld(maps, large, call.new, call.size) /\ call.new # call.ptr
OldOwned == pc \in Running /\ call.ptr # NULL => call.ptr \in DOMAIN live

\* Mappings keep clear of each other and of the places of the zones.
Apart(mp, b) ==
  /\ \A z \in ZoneNames : b + mp[b] <= PlacedAt(z) \/ PlacedEnd(z) <= b
  /\ \A c \in LargeBases \cap DOMAIN mp : b < c => b + mp[b] <= c
MappingsApart == \A b \in LargeBases \cap DOMAIN maps : Apart(maps, b)

LargeInv == TypeOK /\ OwnedLarge /\ NewLarge /\ OldOwned /\ MappingsApart

LEMMA LargeShape ==
  ASSUME NEW m, IsLarge(m)
  PROVE  /\ m \in Nat /\ ToBase(m) \in LargeBases /\ ToBase(m) \in Nat
         /\ m = ToBase(m) + 32 /\ m = LargeChunk2Mem(ToBase(m)) /\ m # NULL
<1>1. PICK b \in LargeBases : m = LargeChunk2Mem(b)
  BY DEF IsLarge
<1>2. b \in Nat /\ b > 0
  BY LayoutAssumption
<1>3. LargeChunk2Mem(b) = b + 32 /\ ToBase(LargeChunk2Mem(b)) = b
  BY <1>2, LargePointers
<1> QED
  BY <1>1, <1>2, <1>3, SMT DEF NULL

\* No header of a zone has the address of a large chunk's memory behind it.
LEMMA ZoneMemIsNotLarge ==
  ASSUME NEW a \in Nat, NEW z \in ZoneNames, PlacedAt(z) <= a, a < PlacedEnd(z)
  PROVE  ~IsLarge(Mem(a)) /\ Mem(a) \in Nat /\ Mem(a) # NULL
<1>1. SUFFICES ASSUME IsLarge(Mem(a)) PROVE FALSE
  BY SMT DEF Mem, HEADER, NULL
<1>2. PICK b \in LargeBases : b \in Nat /\ Mem(a) = b + 32
  BY <1>1, LargeShape
<1>3. b + 32 <= PlacedAt(z) \/ PlacedEnd(z) <= b
  BY LayoutAssumption
<1> QED
  BY <1>2, <1>3, ZoneLayout, SMT DEF Mem, HEADER

\* A walk stays in the zone.
LEMMA ChunksInPlace ==
  ASSUME MemoryOK, NEW z \in ZoneNames, NEW a \in Chunks(z)
  PROVE  a \in DOMAIN heap /\ a \in Nat /\ PlacedAt(z) <= a /\ a < PlacedEnd(z) /\ base[z] # NULL
<1>1. a \in DOMAIN heap /\ a \in Nat /\ ToFirstChunk(z) <= a /\ a < ToZoneEnd(z)
  BY DEF Chunks, Walk, MemoryOK
<1>2. base[z] = NULL \/ base[z] = PlacedAt(z)
  BY DEF MemoryOK
<1>3. base[z] # NULL
  BY <1>1, SMT DEF ToZoneEnd, NULL
<1>4. ToFirstChunk(z) = PlacedAt(z) /\ ToZoneEnd(z) = PlacedEnd(z)
  BY <1>2, <1>3, ZoneLayout, SMT DEF ToFirstChunk, ToZoneEnd
<1> QED
  BY <1>1, <1>3, <1>4

\* No large chunk's mapping starts where a zone is, or at NULL.
LEMMA BasesDiffer ==
  \A b \in LargeBases : b \in Nat /\ b # NULL /\ \A z \in ZoneNames : b # PlacedAt(z)
<1> SUFFICES ASSUME NEW b \in LargeBases, NEW z \in ZoneNames
             PROVE  b \in Nat /\ b # NULL /\ b # PlacedAt(z)
  BY DEF ZoneNames
<1>1. b \in Nat /\ b > 0 /\ (b + 32 <= PlacedAt(z) \/ PlacedEnd(z) <= b)
  BY LayoutAssumption
<1> QED
  BY <1>1, ZoneLayout, SMT DEF NULL

-----------------------------------------------------------------------------
\* Steps that leave the mappings, the list and the client's blocks alone.
LEMMA LargeFrame ==
  ASSUME LargeInv, TypeOK', UNCHANGED <<large, maps, live>>, pc' # "copy",
         pc' \in Running /\ call'.ptr # NULL => call'.ptr \in DOMAIN live
  PROVE  LargeInv'
<1>1. OwnedLarge'
  BY DEF LargeInv, OwnedLarge, LargeHeld
<1>2. NewLarge' /\ OldOwned'
  BY DEF NewLarge, OldOwned
<1>3. MappingsApart'
  BY DEF LargeInv, MappingsApart, Apart
<1> QED
  BY <1>1, <1>2, <1>3 DEF LargeInv

LEMMA LargeStop ==
  ASSUME LargeInv, TypeOK', NEW how \in {"hung", "dead"}, Stop(how)
  PROVE  LargeInv'
<1>1. UNCHANGED <<large, maps, live>> /\ pc' = how
  BY DEF Stop, memory
<1>2. pc' # "copy" /\ pc' \notin Running
  BY <1>1 DEF Running
<1> QED
  BY <1>1, <1>2, LargeFrame

LEMMA LargeFtMalloc ==
  ASSUME LargeInv, TypeOK', NEW p, p = NULL \/ p \in DOMAIN live, NEW n,
         pc = "idle", FtMalloc(p, n)
  PROVE  LargeInv'
<1>1. CASE Crash
  BY <1>1, LargeStop DEF Crash
<1>2. CASE /\ UNCHANGED <<memory, live>> /\ pc' \in {"map", "defrag"}
           /\ call' = [ptr |-> p, size |-> n, new |-> NULL]
  <2>1. UNCHANGED <<large, maps, live>> /\ pc' # "copy" /\ call'.ptr = p
    BY <1>2 DEF memory
  <2> QED
    BY <2>1, LargeFrame
<1>3. CASE UNCHANGED vars
  BY <1>3, LargeFrame DEF vars, Running
<1> QED
  BY <1>1, <1>2, <1>3 DEF FtMalloc

\* Delivering a block from a zone changes nothing for the large ones.
LEMMA LargeDeliver ==
  ASSUME LargeInv, TypeOK', pc \in Running, UNCHANGED <<large, maps>>,
         NEW m, ~IsLarge(m), m # NULL, Deliver(m)
  PROVE  LargeInv'
<1>1. MappingsApart'
  BY DEF LargeInv, MappingsApart, Apart
<1>2. CASE call.ptr = NULL
  <2>1. /\ pc' = "idle"
        /\ live' = [p \in DOMAIN live \cup {m} |-> IF p = m THEN call.size ELSE live[p]]
    BY <1>2 DEF Deliver
  <2>2. OwnedLarge'
    BY <2>1 DEF LargeInv, OwnedLarge
  <2>3. NewLarge' /\ OldOwned'
    BY <2>1 DEF NewLarge, OldOwned, Running
  <2> QED
    BY <1>1, <2>2, <2>3 DEF LargeInv
<1>3. CASE call.ptr # NULL
  <2>1. pc' = "copy" /\ call' = [call EXCEPT !.new = m] /\ live' = live
    BY <1>3 DEF Deliver
  <2>2. call'.new = m /\ call'.ptr = call.ptr
    BY <2>1 DEF LargeInv, TypeOK, CallOK
  <2>3. OwnedLarge'
    BY <2>1 DEF LargeInv, OwnedLarge, LargeHeld
  <2>4. NewLarge' /\ OldOwned'
    BY <2>1, <2>2 DEF LargeInv, NewLarge, OldOwned
  <2> QED
    BY <1>1, <2>3, <2>4 DEF LargeInv
<1> QED
  BY <1>2, <1>3

LEMMA LargePlace ==
  ASSUME LargeInv, TypeOK', Place
  PROVE  LargeInv'
<1>1. MemoryOK /\ pc \in Running /\ UNCHANGED <<large, maps>>
  BY DEF LargeInv, TypeOK, Place, Running
<1>2. CASE pc' = "map" /\ UNCHANGED <<heap, call, cur, live>>
  BY <1>1, <1>2, LargeFrame DEF LargeInv, OldOwned
<1>3. ZoneFor(call.size) \in ZoneNames
  BY DEF ZoneFor, ZoneNames
<1>4. ASSUME NEW z \in ZoneNames, NEW a \in Chunks(z), Deliver(Mem(a))
      PROVE  LargeInv'
  <2>1. ~IsLarge(Mem(a)) /\ Mem(a) # NULL
    BY <1>1, ChunksInPlace, ZoneMemIsNotLarge
  <2> QED
    BY <1>1, <1>4, <2>1, LargeDeliver
<1> QED
  BY <1>2, <1>3, <1>4 DEF Place

\* A new mapping lies apart from the others and covers the block it is for.
LEMMA LargeCreate ==
  ASSUME LargeInv, TypeOK', CreateLargeChunk
  PROVE  LargeInv'
<1> DEFINE length == Reqsize2AllocationSize(call.size)
<1>1. pc \in Running /\ call.size \in SizeT /\ TypeOK /\ MemoryOK
  BY DEF CreateLargeChunk, LargeInv, TypeOK, CallOK, Running
<1>2. Fits(call.size) => length = call.size + 39 /\ Wrap(length - 8 - LARGE_HEADER) = call.size + 7
  BY <1>1, LayoutAssumption, SMT
  DEF Fits, Reqsize2AllocationSize, Wrap, ALIGNMENT, LARGE_HEADER, SizeT
<1>3. length = Reqsize2AllocationSize(call.size) /\ FrontPad = 8
  BY LargePointers
<1> HIDE DEF length
<1>4. ASSUME NEW b \in LargeBases \ DOMAIN maps, Vacant(b, length),
             maps' = [c \in DOMAIN maps \cup {b} |-> IF c = b THEN length ELSE maps[c]],
             large' = [m \in DOMAIN large \cup {LargeChunk2Mem(b)} |->
                         IF m = LargeChunk2Mem(b)
                           THEN Wrap(length - FrontPad - LARGE_HEADER)
                           ELSE large[m]],
             Deliver(LargeChunk2Mem(b))
      PROVE  LargeInv'
  <2> DEFINE m == LargeChunk2Mem(b)
  <2>1. b \in Nat /\ m = b + 32 /\ ToBase(m) = b /\ IsLarge(m) /\ m # NULL /\ m \in Nat
    <3>1. b \in Nat /\ m = b + 32 /\ ToBase(m) = b
      BY LargePointers, LayoutAssumption
    <3> QED
      BY <3>1, SMT DEF IsLarge, NULL
  <2>2. m = LargeChunk2Mem(b)
    OBVIOUS
  <2> HIDE DEF m
  <2>3. LargeHeld(maps', large', m, call.size)
    <3>1. b \in DOMAIN maps' /\ maps'[b] = length
      BY <1>4
    <3>2. large'[m] = Wrap(length - 8 - LARGE_HEADER)
      BY <1>3, <1>4, <2>2
    <3>3. call.size \in Nat
      BY <1>1 DEF SizeT
    <3>4. Fits(call.size) => m + call.size <= b + length
      BY <1>2, <2>1, <3>3, SMT
    <3>5. Fits(call.size) => call.size <= large'[m]
      BY <1>2, <3>2, <3>3, SMT
    <3> QED
      BY <2>1, <3>1, <3>4, <3>5 DEF LargeHeld
  <2>4. \A p, n : IsLarge(p) /\ LargeHeld(maps, large, p, n) =>
                   LargeHeld(maps', large', p, n) /\ p # m
    <3> SUFFICES ASSUME NEW p, NEW n, IsLarge(p), LargeHeld(maps, large, p, n)
                 PROVE  LargeHeld(maps', large', p, n) /\ p # m
      OBVIOUS
    <3>1. ToBase(p) \in DOMAIN maps /\ p # m
      BY <1>4, <2>1 DEF LargeHeld
    <3>2. ToBase(p) \in DOMAIN maps' /\ maps'[ToBase(p)] = maps[ToBase(p)]
      BY <1>4, <3>1
    <3>3. p \in DOMAIN large' => p \in DOMAIN large /\ large'[p] = large[p]
      BY <1>4, <2>2, <3>1
    <3> QED
      BY <3>1, <3>2, <3>3 DEF LargeHeld
  <2>5. MappingsApart'
    <3>1. \A c \in LargeBases \cap DOMAIN maps :
            /\ b + length <= c \/ c + maps[c] <= b
            /\ c \in DOMAIN maps' /\ maps'[c] = maps[c]
      BY <1>4 DEF Vacant
    <3>2. \A z \in ZoneNames : b + length <= PlacedAt(z) \/ PlacedEnd(z) <= b
      BY <1>4 DEF Vacant
    <3>3. maps'[b] = length /\ LargeBases \cap DOMAIN maps' = (LargeBases \cap DOMAIN maps) \cup {b}
      BY <1>4
    <3>4. \A c \in LargeBases \cap DOMAIN maps : c \in Nat /\ maps[c] \in Nat
      BY <1>1, LayoutAssumption DEF MemoryOK
    <3>5. length \in Nat
      BY <1>1, <1>3, WrapNat, LayoutAssumption, SMT
      DEF Reqsize2AllocationSize, ALIGNMENT, LARGE_HEADER, SizeT
    <3>6. ASSUME NEW c \in LargeBases \cap DOMAIN maps', NEW d \in LargeBases \cap DOMAIN maps', c < d
          PROVE  c + maps'[c] <= d
      <4>1. CASE c # b /\ d # b
        BY <3>1, <3>3, <3>6, <4>1 DEF LargeInv, MappingsApart, Apart
      <4>2. CASE c = b /\ d # b
        <5>1. d \in LargeBases \cap DOMAIN maps
          BY <3>3, <4>2
        <5>2. b + length <= d \/ d + maps[d] <= b
          BY <3>1, <5>1
        <5>3. d \in Nat /\ maps[d] \in Nat
          BY <3>4, <5>1
        <5> QED
          BY <2>1, <3>3, <3>6, <4>2, <5>2, <5>3, SMT
      <4>3. CASE c # b /\ d = b
        <5>1. c \in LargeBases \cap DOMAIN maps
          BY <3>3, <4>3
        <5>2. b + length <= c \/ c + maps[c] <= b
          BY <3>1, <5>1
        <5>3. c \in Nat /\ maps'[c] = maps[c]
          BY <3>1, <3>4, <5>1
        <5> QED
          BY <2>1, <3>5, <3>6, <4>3, <5>2, <5>3, SMT
      <4>4. c \in Nat
        BY LayoutAssumption
      <4> QED
        BY <3>6, <4>1, <4>2, <4>3, <4>4, SMT
    <3>7. \A c \in LargeBases \cap DOMAIN maps' : \A z \in ZoneNames :
            c + maps'[c] <= PlacedAt(z) \/ PlacedEnd(z) <= c
      BY <3>1, <3>2, <3>3 DEF LargeInv, MappingsApart, Apart
    <3>8. ASSUME NEW c \in LargeBases \cap DOMAIN maps' PROVE Apart(maps', c)
      BY <3>6, <3>7 DEF Apart
    <3> QED
      BY <3>8 DEF MappingsApart
  <2>6. CASE call.ptr = NULL
    <3>1. /\ pc' = "idle"
          /\ live' = [p \in DOMAIN live \cup {m} |-> IF p = m THEN call.size ELSE live[p]]
      BY <1>4, <2>1, <2>2, <2>6 DEF Deliver
    <3>2. OwnedLarge'
      BY <2>3, <2>4, <3>1 DEF LargeInv, OwnedLarge
    <3>3. NewLarge' /\ OldOwned'
      BY <3>1 DEF NewLarge, OldOwned, Running
    <3> QED
      BY <2>5, <3>2, <3>3 DEF LargeInv
  <2>7. CASE call.ptr # NULL
    <3>1. pc' = "copy" /\ call' = [call EXCEPT !.new = m] /\ live' = live
      BY <1>4, <2>1, <2>2, <2>7 DEF Deliver
    <3>2. call'.new = m /\ call'.ptr = call.ptr /\ call'.size = call.size
      BY <1>1, <3>1 DEF TypeOK, CallOK
    <3>3. call.ptr \in DOMAIN live /\ (IsLarge(call.ptr) => LargeHeld(maps, large, call.ptr, live[call.ptr]))
      BY <1>1, <2>7 DEF LargeInv, OldOwned, OwnedLarge
    <3>4. call.ptr # m
      BY <2>1, <2>4, <3>3
    <3>5. OwnedLarge'
      BY <2>4, <3>1 DEF LargeInv, OwnedLarge
    <3>6. NewLarge' /\ OldOwned'
      BY <2>3, <3>1, <3>2, <3>3, <3>4 DEF NewLarge, OldOwned
    <3> QED
      BY <2>5, <3>5, <3>6 DEF LargeInv
  <2> QED
    BY <2>6, <2>7
<1>5. CASE Deliver(NULL) /\ UNCHANGED <<maps, large>>
  <2>1. live' = live /\ pc' = "idle"
    BY <1>5 DEF Deliver
  <2> QED
    BY <1>5, <2>1, LargeFrame DEF Running
<1> QED
  BY <1>3, <1>4, <1>5 DEF CreateLargeChunk

\* Releasing p takes away at most p's own mapping.
LEMMA LargeRelease ==
  ASSUME MemoryOK, NEW p, Release(p), NEW q, NEW n, IsLarge(q), q # p,
         LargeHeld(maps, large, q, n)
  PROVE  LargeHeld(maps', large', q, n)
<1>1. CASE /\ p \in DOMAIN large
           /\ large' = [m \in DOMAIN large \ {p} |-> large[m]]
           /\ \/ maps' = [b \in DOMAIN maps \ {ToBase(p)} |-> maps[b]]
              \/ maps' = maps
  <2>1. IsLarge(p)
    BY <1>1 DEF IsLarge, MemoryOK
  <2>2. ToBase(q) # ToBase(p)
    BY <2>1, LargeShape
  <2>3. ToBase(q) \in DOMAIN maps' /\ maps'[ToBase(q)] = maps[ToBase(q)]
    BY <1>1, <2>2 DEF LargeHeld
  <2>4. q \in DOMAIN large' => q \in DOMAIN large /\ large'[q] = large[q]
    BY <1>1
  <2> QED
    BY <2>3, <2>4 DEF LargeHeld
<1>2. CASE UNCHANGED <<maps, large>>
  BY <1>2 DEF LargeHeld
<1> QED
  BY <1>1, <1>2 DEF Release, memory

LEMMA ReleaseApart ==
  ASSUME MappingsApart, NEW p, Release(p)
  PROVE  MappingsApart'
<1>1. DOMAIN maps' \subseteq DOMAIN maps /\ \A b \in DOMAIN maps' : maps'[b] = maps[b]
  BY DEF Release, memory
<1> QED
  BY <1>1 DEF MappingsApart, Apart

LEMMA LargeFree ==
  ASSUME LargeInv, TypeOK', NEW p, Free(p)
  PROVE  LargeInv'
<1>1. CASE Release(p) /\ live' = [q \in DOMAIN live \ {p} |-> live[q]]
           /\ UNCHANGED <<phase, pc, call, cur>>
  <2>1. OwnedLarge'
    BY <1>1, LargeRelease DEF LargeInv, TypeOK, OwnedLarge
  <2>2. NewLarge' /\ OldOwned'
    BY <1>1 DEF Free, NewLarge, OldOwned, Running
  <2>3. MappingsApart'
    BY <1>1, ReleaseApart DEF LargeInv
  <2> QED
    BY <2>1, <2>2, <2>3 DEF LargeInv
<1>2. CASE Hang \/ Crash
  BY <1>2, LargeStop DEF Hang, Crash
<1> QED
  BY <1>1, <1>2 DEF Free

LEMMA LargeCopy ==
  ASSUME LargeInv, TypeOK', CopyAndFree
  PROVE  LargeInv'
<1>1. /\ pc = "copy" /\ Release(call.ptr) /\ pc' = "idle"
      /\ live' = [p \in (DOMAIN live \ {call.ptr}) \cup {call.new} |->
                    IF p = call.new THEN call.size ELSE live[p]]
  BY DEF CopyAndFree
<1>2. OwnedLarge'
  <2> SUFFICES ASSUME NEW p \in DOMAIN live', IsLarge(p)
               PROVE  LargeHeld(maps', large', p, live'[p])
    BY DEF OwnedLarge
  <2>1. CASE p = call.new
    BY <1>1, <2>1, LargeRelease DEF LargeInv, TypeOK, NewLarge
  <2>2. CASE p # call.new
    BY <1>1, <2>2, LargeRelease DEF LargeInv, TypeOK, OwnedLarge
  <2> QED
    BY <2>1, <2>2
<1>3. NewLarge' /\ OldOwned'
  BY <1>1 DEF NewLarge, OldOwned, Running
<1>4. MappingsApart'
  BY <1>1, ReleaseApart DEF LargeInv
<1> QED
  BY <1>2, <1>3, <1>4 DEF LargeInv

\* Resizing a block of a zone.
LEMMA LargeResize ==
  ASSUME LargeInv, TypeOK', NEW p \in DOMAIN live, ~IsLarge(p), NEW n, NEW t,
         pc = "idle", Resize(p, n, t)
  PROVE  LargeInv'
<1>1. live' = [live EXCEPT ![p] = n] /\ UNCHANGED <<large, maps, pc>>
  BY DEF Resize
<1>2. OwnedLarge'
  BY <1>1 DEF LargeInv, OwnedLarge, LargeHeld
<1>3. NewLarge' /\ OldOwned'
  BY <1>1 DEF NewLarge, OldOwned, Running
<1>4. MappingsApart'
  BY <1>1 DEF LargeInv, MappingsApart, Apart
<1> QED
  BY <1>2, <1>3, <1>4 DEF LargeInv

LEMMA LargeRealloc ==
  ASSUME LargeInv, TypeOK', NEW p \in DOMAIN live, NEW n, Realloc(p, n)
  PROVE  LargeInv'
<1>0. pc = "idle"
  BY DEF Realloc
<1>1. CASE FtMalloc(p, n)
  BY <1>0, <1>1, LargeFtMalloc
<1>2. ASSUME NEW z \in ZoneNames, InZone(p, z), NEW t, Resize(p, n, t)
      PROVE  LargeInv'
  <2>1. ChunkOf(p) \in Chunks(z) /\ p \in Nat
    BY <1>2 DEF InZone, LargeInv, TypeOK, CallOK
  <2>2. ~IsLarge(Mem(ChunkOf(p)))
    BY <2>1, ChunksInPlace, ZoneMemIsNotLarge DEF LargeInv, TypeOK
  <2>3. Mem(ChunkOf(p)) = p
    BY <2>1, SMT DEF Mem, ChunkOf, HEADER
  <2> QED
    BY <1>0, <1>2, <2>2, <2>3, LargeResize
<1>3. CASE Hang \/ Crash
  BY <1>3, LargeStop DEF Hang, Crash
<1>4. CASE UNCHANGED vars
  BY <1>0, <1>4, LargeFrame DEF vars, Running
<1> QED
  BY <1>1, <1>2, <1>3, <1>4 DEF Realloc, ResizeCrashes

\* The constructor forgets the list and adds the zones' mappings.
LEMMA LargeInitialize ==
  ASSUME LargeInv, TypeOK', InitializePreAllocatedZones
  PROVE  LargeInv'
<1>1. /\ large' = [m \in {} |-> 0] /\ UNCHANGED <<pc, call, live>> /\ pc = "idle"
      /\ DOMAIN maps \subseteq DOMAIN maps'
      /\ \A b \in DOMAIN maps : maps'[b] = maps[b]
      /\ DOMAIN maps' \subseteq DOMAIN maps \cup { PlacedAt(z) : z \in ZoneNames }
  BY DEF InitializePreAllocatedZones, ZoneNames
<1>2. OwnedLarge'
  BY <1>1 DEF LargeInv, OwnedLarge, LargeHeld
<1>3. NewLarge' /\ OldOwned'
  BY <1>1 DEF NewLarge, OldOwned, Running
<1>4. LargeBases \cap DOMAIN maps' = LargeBases \cap DOMAIN maps
  BY <1>1, BasesDiffer
<1>5. MappingsApart'
  BY <1>1, <1>4 DEF LargeInv, MappingsApart, Apart
<1> QED
  BY <1>2, <1>3, <1>5 DEF LargeInv

\* The destructor removes the zones' mappings only.
LEMMA LargeCleanup ==
  ASSUME LargeInv, TypeOK', CleanupPreAllocatedZones
  PROVE  LargeInv'
<1>1. /\ UNCHANGED <<large, pc, call, live>> /\ pc = "idle"
      /\ maps' = [b \in DOMAIN maps \ { base[z] : z \in ZoneNames } |-> maps[b]]
  BY DEF CleanupPreAllocatedZones
<1>2. \A b \in LargeBases : \A z \in ZoneNames : b # base[z]
  BY BasesDiffer DEF LargeInv, TypeOK, MemoryOK
<1>3. \A b \in LargeBases : b \in DOMAIN maps => b \in DOMAIN maps' /\ maps'[b] = maps[b]
  BY <1>1, <1>2
<1>4. OwnedLarge'
  <2> SUFFICES ASSUME NEW p \in DOMAIN live, IsLarge(p)
               PROVE  LargeHeld(maps', large', p, live[p])
    BY <1>1 DEF OwnedLarge
  <2>1. LargeHeld(maps, large, p, live[p])
    BY DEF LargeInv, OwnedLarge
  <2> QED
    BY <1>1, <1>3, <2>1, LargeShape DEF LargeHeld
<1>5. NewLarge' /\ OldOwned'
  BY <1>1 DEF NewLarge, OldOwned, Running
<1>6. MappingsApart'
  BY <1>1, <1>3 DEF LargeInv, MappingsApart, Apart
<1> QED
  BY <1>4, <1>5, <1>6 DEF LargeInv

-----------------------------------------------------------------------------
LEMMA LargeInit == Init => LargeInv
<1> SUFFICES ASSUME Init PROVE LargeInv
  OBVIOUS
<1>1. OwnedLarge /\ NewLarge /\ OldOwned /\ MappingsApart
  BY DEF Init, OwnedLarge, NewLarge, OldOwned, MappingsApart, Running
<1> QED
  BY <1>1, InitType DEF LargeInv

LEMMA LargeStep == LargeInv /\ [Next]_vars => LargeInv'
<1> SUFFICES ASSUME LargeInv, [Next]_vars PROVE LargeInv'
  OBVIOUS
<1>0. TypeOK /\ TypeOK'
  BY StepType DEF LargeInv
<1>1. CASE InitializePreAllocatedZones
  BY <1>0, <1>1, LargeInitialize
<1>2. CASE CleanupPreAllocatedZones
  BY <1>0, <1>2, LargeCleanup
<1>3. CASE ClientCall
  <2>1. ASSUME NEW n \in Requests, Malloc(n) PROVE LargeInv'
    BY <1>0, <2>1, LargeFtMalloc DEF Malloc
  <2>2. ASSUME NEW p, Free(p) PROVE LargeInv'
    BY <1>0, <2>2, LargeFree
  <2>3. ASSUME NEW p \in DOMAIN live, NEW n \in Requests, Realloc(p, n) PROVE LargeInv'
    BY <1>0, <2>3, LargeRealloc
  <2> QED
    BY <1>3, <2>1, <2>2, <2>3 DEF ClientCall
<1>4. CASE DefragSection
  <2>1. CASE Hang
    BY <1>0, <2>1, LargeStop DEF Hang
  <2>2. \/ UNCHANGED <<large, maps, live, call>> /\ pc' # "copy" /\ pc \in Running
        \/ Hang
    BY <1>4 DEF DefragSection, DefragChunk, EndSection, memory, Running
  <2> QED
    BY <1>0, <2>1, <2>2, LargeFrame DEF LargeInv, OldOwned
<1>5. CASE DefragPastEnd
  <2>1. CASE Crash
    BY <1>0, <2>1, LargeStop DEF Crash
  <2>2. \/ UNCHANGED <<large, maps, live, call>> /\ pc' # "copy" /\ pc \in Running
        \/ Crash
    BY <1>5 DEF DefragPastEnd, EndSection, memory, Running
  <2> QED
    BY <1>0, <2>1, <2>2, LargeFrame DEF LargeInv, OldOwned
<1>6. CASE Place
  BY <1>0, <1>6, LargePlace
<1>7. CASE CreateLargeChunk
  BY <1>0, <1>7, LargeCreate
<1>8. CASE CopyAndFree
  BY <1>0, <1>8, LargeCopy
<1>9. CASE UNCHANGED vars
  BY <1>0, <1>9 DEF vars, LargeInv, OwnedLarge, NewLarge, OldOwned, MappingsApart
<1> QED
  BY <1>1, <1>2, <1>3, <1>4, <1>5, <1>6, <1>7, <1>8, <1>9 DEF Next, RunningCall

\* Whatever the client does to the zones, a large block it owns stays mapped,
\* the mapping covers it, and the list never records it as smaller.
THEOREM LargeBlocksSafe == Spec => []LargeBlocksHeld
<1>1. LargeInv => LargeBlocksHeld
  BY DEF LargeInv, OwnedLarge, LargeHeld, LargeBlocksHeld
<1> QED
  BY <1>1, LargeInit, LargeStep, PTL DEF Spec
-----------------------------------------------------------------------------
(***************************************************************************)
(* Tilings                                                                 *)
(*                                                                         *)
(* Zones that are covered exactly by their chunks stay so when a chunk is  *)
(* split, grows over a run of free chunks or changes hands, and their      *)
(* walks find what they are meant to find.  That is also so of the part of *)
(* a damaged zone that a walk can still reach: the header splitChunk       *)
(* writes when nothing is left over is a trap, and no operation on another *)
(* chunk makes or removes one.                                             *)
(***************************************************************************)
InPlace(z, a) == PlacedAt(z) <= a /\ a < PlacedEnd(z)

\* Where the chunk at a ends, if nothing wraps.
ChunkEnd(h, a) == a + 16 + h[a].size

\* The size splitChunk computes for a rest of 0 bytes, header included.
Trap(h, a) == h[a].size = SizeMod - 16

\* The chunk lies in zone z, and is followed there by a chunk or the end,
\* unless its header is a trap.
Seated(h, z, a) ==
  /\ InPlace(z, a)
  /\ ~Trap(h, a) =>
       /\ ChunkEnd(h, a) <= PlacedEnd(z)
       /\ ChunkEnd(h, a) \in DOMAIN h \cup {PlacedEnd(z)}

\* The headers of h tile the zones of Z.
Tiled(h, Z) ==
  /\ HeaderMap(h)
  /\ \A z \in Z : PlacedAt(z) \in DOMAIN h
  /\ \A a \in DOMAIN h : \E z \in Z : Seated(h, z, a)
  /\ \A a \in DOMAIN h : a % 16 = 0 /\ h[a].size % 16 = 0
  /\ \A a, b \in DOMAIN h : a < b /\ ~Trap(h, a) => ChunkEnd(h, a) <= b
  /\ \A a \in DOMAIN h : Trap(h, a) => h[a].free

LEMMA TiledTypes ==
  ASSUME NEW h, HeaderMap(h), NEW a \in DOMAIN h
  PROVE  /\ a \in Nat /\ h[a].size \in Nat /\ h[a].size < SizeMod /\ h[a].free \in BOOLEAN
         /\ ChunkEnd(h, a) \in Nat /\ a < ChunkEnd(h, a)
<1>1. a \in Nat /\ h[a] \in Header
  BY DEF HeaderMap
<1>2. h[a].size \in SizeT /\ h[a].free \in BOOLEAN
  BY <1>1 DEF Header
<1> QED
  BY <1>1, <1>2, LayoutAssumption, SMT DEF SizeT, ChunkEnd

\* Zones lie apart.
LEMMA OneZone ==
  \A a \in Nat : \A y, z \in ZoneNames : InPlace(y, a) /\ InPlace(z, a) => y = z
<1> SUFFICES ASSUME NEW a \in Nat, NEW y \in ZoneNames, NEW z \in ZoneNames,
                    InPlace(y, a), InPlace(z, a), y # z
             PROVE  FALSE
  OBVIOUS
<1>1. (y = "tiny" /\ z = "small") \/ (y = "small" /\ z = "tiny")
  BY DEF ZoneNames
<1> QED
  BY <1>1, LayoutAssumption, SMT DEF InPlace, PlacedAt, PlacedEnd, ZoneSize

\* A zone does not begin inside another one.
LEMMA PlacedApart ==
  ASSUME NEW y \in ZoneNames, NEW z \in ZoneNames, NEW a \in Nat,
         InPlace(z, a), a < PlacedAt(y)
  PROVE  PlacedEnd(z) <= PlacedAt(y)
<1>1. y # z
  BY ZoneLayout, SMT DEF InPlace
<1>2. (y = "tiny" /\ z = "small") \/ (y = "small" /\ z = "tiny")
  BY <1>1 DEF ZoneNames
<1> QED
  BY <1>2, LayoutAssumption, SMT DEF InPlace, PlacedAt, PlacedEnd, ZoneSize

\* toNext goes to the end of the chunk; only a trap is its own successor.
LEMMA TiledNext ==
  ASSUME NEW h, NEW Z \in SUBSET ZoneNames, Tiled(h, Z), NEW a \in DOMAIN h
  PROVE  /\ ~Trap(h, a) => ToNext(h, a) = ChunkEnd(h, a)
         /\ Trap(h, a) => ToNext(h, a) = a
         /\ Loops(h, a) <=> Trap(h, a)
<1>1. PICK z \in Z : Seated(h, z, a)
  BY DEF Tiled
<1>2. a \in Nat /\ ChunkEnd(h, a) \in Nat /\ a < ChunkEnd(h, a)
  BY TiledTypes DEF Tiled
<1>3. ToNext(h, a) = Wrap(ChunkEnd(h, a))
  BY DEF ToNext, ChunkEnd, HEADER
<1>4. CASE ~Trap(h, a)
  <2>1. z \in ZoneNames /\ ChunkEnd(h, a) <= PlacedEnd(z)
    BY <1>1, <1>4 DEF Seated
  <2>2. ChunkEnd(h, a) < SizeMod
    BY <1>2, <2>1, ZoneLayout, LayoutAssumption, SMT
  <2>3. ToNext(h, a) = ChunkEnd(h, a)
    BY <1>2, <1>3, <2>2, LayoutAssumption, SMT DEF Wrap
  <2> QED
    BY <1>2, <1>4, <2>3, SMT DEF Loops
<1>5. CASE Trap(h, a)
  <2>1. ChunkEnd(h, a) = a + SizeMod
    BY <1>2, <1>5, LayoutAssumption, SMT DEF ChunkEnd, Trap
  <2>2. ToNext(h, a) = a
    BY <1>2, <1>3, <2>1, LayoutAssumption, SMT DEF Wrap
  <2> QED
    BY <1>5, <2>2 DEF Loops
<1> QED
  BY <1>4, <1>5

\* A walk stops at the first trap.
LEMMA TiledWalk ==
  ASSUME NEW h, NEW Z \in SUBSET ZoneNames, Tiled(h, Z), NEW s, NEW e
  PROVE  Walk(h, s, e) = { a \in DOMAIN h :
                             /\ s <= a /\ a < e
                             /\ \A b \in DOMAIN h : s <= b /\ Trap(h, b) => a <= b }
<1>1. \A b \in DOMAIN h : Loops(h, b) <=> Trap(h, b)
  BY TiledNext
<1> QED
  BY <1>1 DEF Walk

\* A trap in the zone, however far away, makes the chain endless.
LEMMA TrapEndless ==
  ASSUME NEW h, NEW Z \in SUBSET ZoneNames, Tiled(h, Z), NEW s, NEW e,
         NEW a \in DOMAIN h, Trap(h, a), s <= a, a < e, s \in Nat, e \in Nat
  PROVE  \E b \in Walk(h, s, e) : Trap(h, b) /\ Loops(h, b)
<1> DEFINE traps == { b \in DOMAIN h : s <= b /\ Trap(h, b) }
<1>1. DOMAIN h \subseteq Nat
  BY DEF Tiled, HeaderMap
<1>2. PICK x \in traps : \A y \in traps : x <= y
  <2>1. traps \in SUBSET Nat /\ a \in traps
    BY <1>1
  <2>2. traps # {}
    BY <2>1
  <2> HIDE DEF traps
  <2> QED
    BY <2>1, <2>2, Least
<1>3. x <= a /\ x \in Nat /\ a \in Nat
  BY <1>1, <1>2
<1>4. x < e
  BY <1>3, SMT
<1>5. x \in Walk(h, s, e)
  BY <1>2, <1>4, TiledWalk
<1>6. Loops(h, x)
  BY <1>2, TiledNext
<1> QED
  BY <1>2, <1>5, <1>6

-----------------------------------------------------------------------------
\* Changing hands.
LEMMA SameSizes ==
  ASSUME NEW h, NEW Z, Tiled(h, Z), NEW g, HeaderMap(g), DOMAIN g = DOMAIN h,
         \A b \in DOMAIN h : g[b].size = h[b].size,
         \A b \in DOMAIN h : Trap(h, b) => g[b].free
  PROVE  Tiled(g, Z)
<1>1. \A b \in DOMAIN h : ChunkEnd(g, b) = ChunkEnd(h, b) /\ (Trap(g, b) <=> Trap(h, b))
  BY DEF ChunkEnd, Trap
<1> QED
  BY <1>1 DEF Tiled, Seated

Taken(h, a) == SetFree(h, a, FALSE)
GiveBack(h, a) == SetFree(h, a, TRUE)

LEMMA TakeTiled ==
  ASSUME NEW h, NEW Z, Tiled(h, Z), NEW a \in DOMAIN h, ~Trap(h, a), NEW g, g = Taken(h, a)
  PROVE  /\ Tiled(g, Z)
         /\ DOMAIN g = DOMAIN h
         /\ g[a].size = h[a].size
         /\ \A b \in DOMAIN h \ {a} : g[b] = h[b]
         /\ ~g[a].free
<1>1. HeaderMap(g) /\ DOMAIN g = DOMAIN h
  BY SetFreeType DEF Tiled, Taken
<1>2. h[a] \in [size : SizeT, free : BOOLEAN]
  BY DEF Tiled, HeaderMap, Header
<1>3. g = [h EXCEPT ![a] = [h[a] EXCEPT !.free = FALSE]]
  BY DEF SetFree, Taken
<1>4. g[a] = [h[a] EXCEPT !.free = FALSE] /\ \A b \in DOMAIN h \ {a} : g[b] = h[b]
  BY <1>3 DEF Tiled, HeaderMap
<1>5. g[a].size = h[a].size
  BY <1>2, <1>4
<1>6. Tiled(g, Z)
  <2>1. \A b \in DOMAIN h : Trap(h, b) => g[b].free
    BY <1>4 DEF Tiled
  <2> QED
    BY <1>1, <1>4, <1>5, <2>1, SameSizes
<1>7. ~g[a].free
  BY <1>2, <1>4
<1> QED
  BY <1>1, <1>4, <1>5, <1>6, <1>7

LEMMA GiveBackTiled ==
  ASSUME NEW h, NEW Z, Tiled(h, Z), NEW a \in DOMAIN h, NEW g, g = GiveBack(h, a)
  PROVE  /\ Tiled(g, Z)
         /\ DOMAIN g = DOMAIN h
         /\ g[a].size = h[a].size
         /\ \A b \in DOMAIN h \ {a} : g[b] = h[b]
<1>1. HeaderMap(g) /\ DOMAIN g = DOMAIN h
  BY SetFreeType DEF Tiled, GiveBack
<1>2. h[a] \in [size : SizeT, free : BOOLEAN]
  BY DEF Tiled, HeaderMap, Header
<1>3. g = [h EXCEPT ![a] = [h[a] EXCEPT !.free = TRUE]]
  BY DEF SetFree, GiveBack
<1>4. g[a] = [h[a] EXCEPT !.free = TRUE] /\ \A b \in DOMAIN h \ {a} : g[b] = h[b]
  BY <1>3 DEF Tiled, HeaderMap
<1>5. g[a].size = h[a].size
  BY <1>2, <1>4
<1>6. Tiled(g, Z)
  <2>1. g[a].free
    BY <1>2, <1>4
  <2>2. \A b \in DOMAIN h : Trap(h, b) => g[b].free
    BY <1>4, <2>1 DEF Tiled
  <2> QED
    BY <1>1, <1>4, <1>5, <2>2, SameSizes
<1> QED
  BY <1>1, <1>4, <1>5, <1>6

-----------------------------------------------------------------------------
\* splitChunk, where what is left over has room for a header.
SplitInto(h, g, Z, a, goal) ==
  /\ Tiled(g, Z)
  /\ DOMAIN g = DOMAIN h \cup {RestOf(a, goal)}
  /\ RestOf(a, goal) \notin DOMAIN h
  /\ \A b \in DOMAIN g : Trap(g, b) <=> b \in DOMAIN h /\ Trap(h, b)
  /\ RestOf(a, goal) < ChunkEnd(h, a)
  /\ g[a].size = goal
  /\ g[a].free = h[a].free
  /\ \A b \in DOMAIN h \ {a} : g[b] = h[b]

LEMMA SplitTiled ==
  ASSUME NEW h, NEW Z \in SUBSET ZoneNames, Tiled(h, Z), NEW a \in DOMAIN h, ~Trap(h, a),
         NEW goal \in Nat, goal % 16 = 0, goal + 16 <= h[a].size,
         NEW g, g = SplitChunk(h, a, goal)
  PROVE  SplitInto(h, g, Z, a, goal)
<1> DEFINE r == RestOf(a, goal)
           n == h[a].size
           main == [h[a] EXCEPT !.size = goal]
           rest == [size |-> Wrap(n - goal - HEADER), free |-> TRUE]
<1>1. /\ a \in Nat /\ n \in Nat /\ n < SizeMod /\ ChunkEnd(h, a) \in Nat
      /\ a % 16 = 0 /\ n % 16 = 0
  BY TiledTypes DEF Tiled
<1>2. goal \in SizeT /\ goal < SizeMod /\ goal % 16 = 0 /\ goal + 16 <= n
  BY <1>1, LayoutAssumption, SMT DEF SizeT
<1>3. ChunkEnd(h, a) = a + 16 + n
  BY DEF ChunkEnd
<1>4. r = a + 16 + goal
  BY DEF RestOf, HEADER
<1>5. HeaderMap(g) /\ DOMAIN g = DOMAIN h \cup {r}
  <2>1. goal <= SizeMod - 16
    BY <1>1, <1>2, LayoutAssumption, SMT
  <2>2. HeaderMap(g)
    BY <1>2, <2>1, SplitType DEF Tiled
  <2> QED
    BY <2>2 DEF SplitChunk
<1>6. h[a] \in [size : SizeT, free : BOOLEAN]
  BY DEF Tiled, HeaderMap, Header
<1>7. main.size = goal /\ main.free = h[a].free
  BY <1>6
<1>8. g = [ b \in DOMAIN h \cup {r} |-> IF b = a THEN main ELSE IF b = r THEN rest ELSE h[b] ]
  BY DEF SplitChunk
<1>9. Wrap(n - goal - HEADER) = n - goal - 16
  BY <1>1, <1>2, LayoutAssumption, SMT DEF Wrap, HEADER
<1>10. rest.size = n - goal - 16 /\ rest.free = TRUE
  BY <1>9
<1> HIDE DEF n, r, main, rest
<1>11. /\ r \in Nat /\ a < r /\ r + 16 <= ChunkEnd(h, a) /\ r % 16 = 0
       /\ (n - goal - 16) % 16 = 0
       /\ r + 16 + (n - goal - 16) = ChunkEnd(h, a) /\ a + 16 + goal = r
  BY <1>1, <1>2, <1>3, <1>4, SMT
<1>12. \A b \in DOMAIN h : b \in Nat /\ ChunkEnd(h, b) \in Nat /\ b < ChunkEnd(h, b)
  BY TiledTypes DEF Tiled
<1>13. \A b, c \in DOMAIN h : b < c /\ ~Trap(h, b) => ChunkEnd(h, b) <= c
  BY DEF Tiled
<1>14. r \notin DOMAIN h
  BY <1>1, <1>11, <1>13, SMT
<1>15. g[a] = main /\ g[r] = rest /\ \A b \in DOMAIN h \ {a} : g[b] = h[b]
  BY <1>8, <1>14
<1>16. /\ ChunkEnd(g, a) = r /\ ChunkEnd(g, r) = ChunkEnd(h, a)
       /\ \A b \in DOMAIN h \ {a} : ChunkEnd(g, b) = ChunkEnd(h, b)
  BY <1>7, <1>10, <1>11, <1>15 DEF ChunkEnd
<1>17. \A b \in DOMAIN g : b % 16 = 0 /\ g[b].size % 16 = 0
  BY <1>1, <1>2, <1>5, <1>7, <1>10, <1>11, <1>15 DEF Tiled
<1>18. /\ ~Trap(g, a) /\ ~Trap(g, r)
       /\ \A b \in DOMAIN h \ {a} : Trap(g, b) <=> Trap(h, b)
  <2>1. goal # SizeMod - 16 /\ n - goal - 16 # SizeMod - 16
    BY <1>1, <1>2, LayoutAssumption, SMT
  <2> QED
    BY <1>7, <1>10, <1>15, <2>1 DEF Trap
<1>19. \A b \in DOMAIN g : (Trap(g, b) <=> b \in DOMAIN h /\ Trap(h, b)) /\ (Trap(g, b) => g[b].free)
  BY <1>5, <1>14, <1>15, <1>18 DEF Tiled
<1>20. ASSUME NEW b \in DOMAIN g PROVE \E z \in Z : Seated(g, z, b)
  <2>1. CASE b \in DOMAIN h \ {a}
    BY <1>5, <1>16, <1>18, <2>1 DEF Tiled, Seated
  <2>2. PICK z \in Z : Seated(h, z, a)
    BY DEF Tiled
  <2>3. PlacedAt(z) \in Nat /\ PlacedEnd(z) \in Nat
    BY ZoneLayout, SMT
  <2>4. InPlace(z, a) /\ ChunkEnd(h, a) <= PlacedEnd(z) /\ ChunkEnd(h, a) \in DOMAIN h \cup {PlacedEnd(z)}
    BY <2>2 DEF Seated
  <2>5. InPlace(z, r) /\ r <= PlacedEnd(z)
    BY <1>1, <1>11, <2>3, <2>4, SMT DEF InPlace
  <2>6. CASE b = a
    BY <1>5, <1>16, <2>4, <2>5, <2>6 DEF Seated
  <2>7. CASE b = r
    BY <1>5, <1>16, <2>4, <2>5, <2>7 DEF Seated
  <2> QED
    BY <1>5, <2>1, <2>6, <2>7
<1>21. ASSUME NEW b \in DOMAIN g, NEW c \in DOMAIN g, b < c, ~Trap(g, b)
       PROVE  ChunkEnd(g, b) <= c
  <2>1. CASE b = a /\ c = r
    BY <1>11, <1>16, <2>1, SMT
  <2>2. CASE b = a /\ c \in DOMAIN h
    BY <1>11, <1>12, <1>13, <1>16, <1>21, <2>2, SMT
  <2>3. CASE b = r /\ c \in DOMAIN h
    BY <1>1, <1>11, <1>12, <1>13, <1>16, <1>21, <2>3, SMT
  <2>4. CASE b \in DOMAIN h \ {a} /\ c = r
    <3>1. ~Trap(h, b)
      BY <1>21, <1>18, <2>4
    <3>2. b < a
      BY <1>1, <1>11, <1>12, <1>13, <1>21, <2>4, SMT
    <3> QED
      BY <1>1, <1>11, <1>12, <1>13, <1>16, <2>4, <3>1, <3>2, SMT
  <2>5. CASE b \in DOMAIN h \ {a} /\ c \in DOMAIN h
    BY <1>13, <1>16, <1>21, <1>18, <2>5
  <2>6. CASE b = r /\ c = r
    BY <1>11, <1>21, <2>6, SMT
  <2> QED
    BY <1>5, <2>1, <2>2, <2>3, <2>4, <2>5, <2>6
<1>22. \A z \in Z : PlacedAt(z) \in DOMAIN g
  BY <1>5 DEF Tiled
<1>23. Tiled(g, Z)
  BY <1>5, <1>17, <1>20, <1>21, <1>22, <1>19 DEF Tiled
<1>24. r < ChunkEnd(h, a)
  BY <1>1, <1>11, SMT
<1> QED
  BY <1>5, <1>7, <1>14, <1>15, <1>23, <1>24, <1>19 DEF r, SplitInto

\* splitChunk, where nothing is left over: the next chunk becomes a trap.
LEMMA SplitExact ==
  ASSUME NEW h, NEW Z \in SUBSET ZoneNames, Tiled(h, Z), NEW a \in DOMAIN h, ~Trap(h, a),
         NEW r, r = RestOf(a, h[a].size),
         NEW g, g = SplitChunk(h, a, h[a].size)
  PROVE  /\ r = ChunkEnd(h, a)
         /\ r \in DOMAIN h => /\ Tiled(g, Z) /\ DOMAIN g = DOMAIN h
                              /\ Trap(g, r)
                              /\ \A b \in DOMAIN h \ {r} : g[b] = h[b]
         /\ r \notin DOMAIN h => [b \in DOMAIN h |-> g[b]] = h
<1> DEFINE n == h[a].size
           rest == [size |-> Wrap(n - n - HEADER), free |-> TRUE]
<1>1. /\ a \in Nat /\ n \in Nat /\ n < SizeMod /\ ChunkEnd(h, a) \in Nat /\ a < ChunkEnd(h, a)
      /\ a % 16 = 0 /\ n % 16 = 0
  BY TiledTypes DEF Tiled
<1>2. r = ChunkEnd(h, a) /\ r # a
  BY <1>1, SMT DEF ChunkEnd, RestOf, HEADER
<1>3. h[a] \in [size : SizeT, free : BOOLEAN]
  BY DEF Tiled, HeaderMap, Header
<1>4. [h[a] EXCEPT !.size = n] = h[a]
  BY <1>3
<1>5. Wrap(n - n - HEADER) = SizeMod - 16
  BY <1>1, LayoutAssumption, SMT DEF Wrap, HEADER
<1>6. rest.size = SizeMod - 16 /\ rest.free = TRUE /\ rest \in Header
  <2>1. SizeMod - 16 \in SizeT
    BY LayoutAssumption, SMT DEF SizeT
  <2> QED
    BY <1>5, <2>1 DEF Header
<1>7. g = [ b \in DOMAIN h \cup {r} |-> IF b = a THEN h[a] ELSE IF b = r THEN rest ELSE h[b] ]
  BY <1>4 DEF SplitChunk
<1> HIDE DEF n, rest
<1>8. g[r] = rest /\ \A b \in DOMAIN h \ {r} : g[b] = h[b]
  BY <1>2, <1>7
<1>9. ASSUME r \in DOMAIN h
      PROVE  Tiled(g, Z) /\ DOMAIN g = DOMAIN h /\ Trap(g, r)
  <2>1. DOMAIN g = DOMAIN h
    BY <1>7, <1>9
  <2>2. Trap(g, r) /\ g[r].free
    BY <1>6, <1>8 DEF Trap
  <2>3. HeaderMap(g)
    <3>1. \A b \in DOMAIN h : g[b] \in Header
      BY <1>6, <1>8 DEF Tiled, HeaderMap
    <3>2. g = [b \in DOMAIN h |-> g[b]]
      BY <1>7, <1>9
    <3> QED
      BY <2>1, <3>1, <3>2 DEF Tiled, HeaderMap
  <2>4. \A b \in DOMAIN h \ {r} : ChunkEnd(g, b) = ChunkEnd(h, b) /\ (Trap(g, b) <=> Trap(h, b))
    BY <1>8 DEF ChunkEnd, Trap
  <2>5. \A b \in DOMAIN g : b % 16 = 0 /\ g[b].size % 16 = 0
    <3>1. r % 16 = 0 /\ rest.size % 16 = 0
      BY <1>6, <1>9, LayoutAssumption, SMT DEF Tiled
    <3> QED
      BY <1>8, <2>1, <3>1 DEF Tiled
  <2>6. ASSUME NEW b \in DOMAIN g PROVE \E z \in Z : Seated(g, z, b)
    <3>1. PICK z \in Z : Seated(h, z, b)
      BY <2>1 DEF Tiled
    <3>2. Seated(g, z, b)
      BY <2>1, <2>2, <2>4, <3>1 DEF Seated
    <3> QED
      BY <3>2
  <2>7. \A b, c \in DOMAIN g : b < c /\ ~Trap(g, b) => ChunkEnd(g, b) <= c
    BY <2>1, <2>2, <2>4 DEF Tiled
  <2>8. \A b \in DOMAIN g : Trap(g, b) => g[b].free
    BY <1>8, <2>1, <2>2, <2>4 DEF Tiled
  <2>9. \A z \in Z : PlacedAt(z) \in DOMAIN g
    BY <2>1 DEF Tiled
  <2>10. Tiled(g, Z)
    BY <2>3, <2>5, <2>6, <2>7, <2>8, <2>9 DEF Tiled
  <2> QED
    BY <2>1, <2>2, <2>10
<1>10. ASSUME r \notin DOMAIN h PROVE [b \in DOMAIN h |-> g[b]] = h
  <2>1. h = [b \in DOMAIN h |-> h[b]]
    BY DEF Tiled, HeaderMap
  <2>2. \A b \in DOMAIN h : g[b] = h[b]
    BY <1>8, <1>10
  <2> QED
    BY <2>1, <2>2
<1> QED
  BY <1>2, <1>8, <1>9, <1>10

\* From the end of the chunk at a, which is in zone z, to t: whole chunks.
RunTo(h, z, a, t) ==
  /\ Seated(h, z, a) /\ ~Trap(h, a)
  /\ ChunkEnd(h, a) <= t /\ t <= PlacedEnd(z)
  /\ t \in DOMAIN h \cup {PlacedEnd(z)}
  /\ \A b \in DOMAIN h : ChunkEnd(h, a) <= b /\ b < t => ~Trap(h, b)

LEMMA RunLength ==
  \A a, n, s, t, top \in Nat :
    s = a + 16 + n /\ s <= t /\ t < top /\ a % 16 = 0 /\ n % 16 = 0 /\ t % 16 = 0 =>
      /\ (t - s) % 16 = 0
      /\ n + (t - s) = t - a - 16 /\ n + (t - s) \in Nat /\ n + (t - s) < top
      /\ (n + (t - s)) % 16 = 0 /\ a + 16 + (n + (t - s)) = t /\ s + (t - s) = t
  BY SMT

\* expandChunk.  Chunks before the run's end t keep their headers, except for
\* those of the run.
LEMMA ExpandTiled ==
  ASSUME NEW h, NEW Z \in SUBSET ZoneNames, Tiled(h, Z), NEW a \in DOMAIN h,
         NEW z \in Z, NEW t, RunTo(h, z, a, t),
         NEW g, g = Expand(h, a, t - ToNext(h, a))
  PROVE  /\ Tiled(g, Z)
         /\ DOMAIN g = { c \in DOMAIN h : c = a \/ ~(ChunkEnd(h, a) <= c /\ c < t) }
         /\ ChunkEnd(g, a) = t
         /\ ~Trap(g, a) /\ \A b \in DOMAIN h : Trap(h, b) => b \in DOMAIN g
         /\ g[a].size = h[a].size + (t - ChunkEnd(h, a))
         /\ g[a].free = h[a].free
         /\ \A b \in DOMAIN g \ {a} : g[b] = h[b]
<1> DEFINE s == ChunkEnd(h, a)
           n == h[a].size
           by == t - ToNext(h, a)
           keep == { c \in DOMAIN h : c = a \/ ~(s <= c /\ c < t) }
           main == [h[a] EXCEPT !.size = Wrap(@ + by)]
<1>1. \A b \in DOMAIN h : b \in Nat /\ ChunkEnd(h, b) \in Nat /\ b < ChunkEnd(h, b)
  BY TiledTypes DEF Tiled
<1>2. \A b, c \in DOMAIN h : b < c /\ ~Trap(h, b) => ChunkEnd(h, b) <= c
  BY DEF Tiled
<1>3. ~Trap(h, a)
  BY DEF RunTo
<1>4. PlacedAt(z) \in Nat /\ PlacedEnd(z) \in Nat /\ PlacedEnd(z) < SizeMod /\ PlacedEnd(z) % 16 = 0
  BY ZoneLayout, LayoutAssumption, SMT
<1>5. t \in Nat /\ t < SizeMod /\ t % 16 = 0 /\ s <= t /\ t <= PlacedEnd(z)
  <2>1. s <= t /\ t <= PlacedEnd(z) /\ t \in DOMAIN h \cup {PlacedEnd(z)}
    BY DEF RunTo
  <2>2. t \in Nat /\ t % 16 = 0
    BY <1>1, <1>4, <2>1 DEF Tiled
  <2> QED
    BY <1>4, <2>1, <2>2, LayoutAssumption, SMT
<1>6. /\ a \in Nat /\ n \in Nat /\ n < SizeMod /\ a % 16 = 0 /\ n % 16 = 0 /\ s = a + 16 + n
      /\ s \in Nat
  BY TiledTypes DEF Tiled, ChunkEnd
<1>7. ToNext(h, a) = s
  BY <1>3, TiledNext
<1>8. by = t - s /\ by % 16 = 0 /\ n + by = t - a - 16 /\ n + by \in Nat /\ n + by < SizeMod
      /\ (n + by) % 16 = 0 /\ a + 16 + (n + by) = t /\ s + by = t
  <2>1. by = t - s
    BY <1>7
  <2>2. (t - s) % 16 = 0 /\ n + (t - s) = t - a - 16 /\ n + (t - s) \in Nat /\ n + (t - s) < SizeMod
        /\ (n + (t - s)) % 16 = 0 /\ a + 16 + (n + (t - s)) = t /\ s + (t - s) = t
    BY <1>5, <1>6, RunLength, LayoutAssumption
  <2> QED
    BY <2>1, <2>2
<1>9. Wrap(n + by) = n + by
  BY <1>8, LayoutAssumption, SMT DEF Wrap
<1>10. h[a] \in [size : SizeT, free : BOOLEAN]
  BY DEF Tiled, HeaderMap, Header
<1>11. main.size = n + by /\ main.free = h[a].free /\ main \in Header
  <2>1. n + by \in SizeT
    BY <1>8, LayoutAssumption, SMT DEF SizeT
  <2>2. main = [h[a] EXCEPT !.size = n + by]
    BY <1>9
  <2> QED
    BY <1>10, <2>1, <2>2 DEF Header
<1>12. g = [ b \in keep |-> IF b = a THEN main ELSE h[b] ]
  <2>1. by \in Nat /\ by % 16 = 0
    <3>1. t \in Nat /\ s \in Nat /\ s <= t /\ by = t - s
      BY <1>5, <1>6, <1>8
    <3>2. t - s \in Nat
      BY <3>1, SMT
    <3> QED
      BY <1>8, <3>1, <3>2
  <2> HIDE DEF by
  <2>2. (by % 8) * 2 = 0
    BY <2>1, SMT
  <2> USE DEF by
  <2> QED
    BY <1>7, <1>8, <2>2 DEF Expand
<1> HIDE DEF main, n, by
<1>13. /\ DOMAIN g = keep /\ a \in keep /\ keep \subseteq DOMAIN h
       /\ g[a] = main /\ \A b \in keep \ {a} : g[b] = h[b]
  BY <1>12
<1>14. HeaderMap(g)
  <2>1. \A b \in keep : h[b] \in Header /\ b \in Nat
    BY <1>13 DEF Tiled, HeaderMap
  <2> QED
    BY <1>11, <1>12, <1>13, <2>1 DEF HeaderMap
<1>15. ChunkEnd(g, a) = t /\ \A b \in keep \ {a} : ChunkEnd(g, b) = ChunkEnd(h, b)
  BY <1>8, <1>11, <1>13 DEF ChunkEnd
<1>16. ~Trap(g, a) /\ \A b \in keep \ {a} : Trap(g, b) <=> Trap(h, b)
  <2>1. n + by # SizeMod - 16
    BY <1>4, <1>5, <1>6, <1>8, LayoutAssumption, SMT
  <2> QED
    BY <1>11, <1>13, <2>1 DEF Trap
<1>17. \A b \in DOMAIN h : Trap(h, b) => b \in keep
  BY <1>3 DEF RunTo
<1>18. \A b \in keep : Trap(g, b) => g[b].free
  BY <1>13, <1>16 DEF Tiled
<1>19. ASSUME NEW y \in Z PROVE PlacedAt(y) \in DOMAIN g
  <2>1. PlacedAt(y) \in DOMAIN h /\ PlacedAt(y) \in Nat /\ y \in ZoneNames /\ z \in ZoneNames
    BY <1>1 DEF Tiled
  <2>2. CASE PlacedAt(y) = a
    BY <1>13, <2>2
  <2>3. CASE PlacedAt(y) < a
    BY <1>1, <1>6, <1>13, <2>1, <2>3, SMT
  <2>4. CASE a < PlacedAt(y)
    <3>1. PlacedEnd(z) <= PlacedAt(y)
      BY <1>6, <2>1, <2>4, PlacedApart DEF RunTo, Seated
    <3> QED
      BY <1>4, <1>5, <1>13, <2>1, <3>1, SMT
  <2> QED
    BY <1>6, <2>1, <2>2, <2>3, <2>4, SMT
<1>20. ASSUME NEW b \in keep PROVE \E y \in Z : Seated(g, y, b)
  <2>1. CASE b = a
    <3>1. t \in keep \cup {PlacedEnd(z)}
      BY <1>5, SMT DEF RunTo
    <3>2. Seated(g, z, a)
      BY <1>5, <1>13, <1>15, <3>1 DEF RunTo, Seated
    <3> QED
      BY <2>1, <3>2
  <2>2. CASE b # a
    <3>1. PICK y \in Z : Seated(h, y, b)
      BY <1>13 DEF Tiled
    <3>2. ChunkEnd(h, b) \in Nat /\ b \in Nat /\ b < ChunkEnd(h, b)
      BY <1>1
    <3>5. CASE Trap(h, b)
      BY <1>16, <2>2, <3>1, <3>5 DEF Seated
    <3>3. CASE b < a /\ ~Trap(h, b)
      <4>1. ChunkEnd(h, b) <= a
        BY <1>2, <3>3
      <4>2. ~(s <= ChunkEnd(h, b))
        BY <1>1, <3>2, <4>1, SMT
      <4> QED
        BY <1>13, <1>15, <2>2, <3>1, <3>3, <4>2 DEF Seated
    <3>4. CASE a < b /\ ~Trap(h, b)
      <4>1. s <= b
        BY <1>2, <1>3, <3>4
      <4>2. ~(b < t)
        BY <2>2, <4>1
      <4>3. ~(ChunkEnd(h, b) < t)
        BY <1>5, <3>2, <4>2, SMT
      <4> QED
        BY <1>13, <1>15, <2>2, <3>1, <3>4, <4>3 DEF Seated
    <3> QED
      BY <1>6, <2>2, <3>2, <3>3, <3>4, <3>5, SMT
  <2> QED
    BY <2>1, <2>2
<1>21. ASSUME NEW b \in keep, NEW c \in keep, b < c, ~Trap(g, b) PROVE ChunkEnd(g, b) <= c
  <2>1. CASE b = a
    <3>1. s <= c /\ c # a
      BY <1>2, <1>6, <1>21, <1>3, <2>1, SMT
    <3>2. ~(c < t)
      BY <3>1
    <3> QED
      BY <1>1, <1>5, <1>15, <2>1, <3>2, SMT
  <2>2. CASE b # a
    BY <1>2, <1>15, <1>21, <1>16, <2>2
  <2> QED
    BY <2>1, <2>2
<1>22. \A b \in keep : b % 16 = 0 /\ g[b].size % 16 = 0
  BY <1>6, <1>8, <1>11, <1>13 DEF Tiled
<1>23. Tiled(g, Z)
  BY <1>13, <1>14, <1>19, <1>20, <1>21, <1>22, <1>18 DEF Tiled
<1>24. g[a].size = n + (t - s) /\ g[a].free = h[a].free
  BY <1>8, <1>11, <1>13
<1> QED
  BY <1>13, <1>15, <1>23, <1>24, <1>16, <1>17 DEF n
=============================================================================
