----------------------------- MODULE LoopProofs -----------------------------
(***************************************************************************)
(* The while loops of utils.c return what FtMalloc says they do, on sound  *)
(* and on damaged zones, however many headers there are.                   *)
(*                                                                         *)
(* A loop ends at the first header it looks for, at the first trap, or at  *)
(* the zone's end.  That it gets there within its iterations is a matter   *)
(* of counting: each one but the last leaves another header behind.        *)
(*                                                                         *)
(* showZone counts sizes instead of comparing addresses.  Its loop hangs   *)
(* on damaged zones; on sound ones it ends, and the report of              *)
(* show_alloc_mem is the client's list of blocks.                          *)
(***************************************************************************)
EXTENDS HeaderWalk, ShowAllocMem, ZoneProofs

\* Where a loop over zone z can be: at one of its headers or at its end.
OnWalk(z, a) == (a \in DOMAIN heap /\ InPlace(z, a)) \/ a = PlacedEnd(z)

\* Where it comes to a stop.
StopsAt(z, s, found, p) ==
  /\ OnWalk(z, p) /\ s <= p
  /\ p # PlacedEnd(z) => p \in found \/ Trap(heap, p)
  /\ \A b \in DOMAIN heap : s <= b /\ b < p => b \notin found /\ ~Trap(heap, b)

-----------------------------------------------------------------------------
LEMMA HeapFacts ==
  ASSUME ZoneInv
  PROVE  /\ MemoryOK /\ HeaderMap(heap) /\ Tiled(heap, Mapped) /\ Mapped \in SUBSET ZoneNames
         /\ \A a \in DOMAIN heap : a \in Nat /\ a # 0 /\ a % 16 = 0
         /\ IsFiniteSet(DOMAIN heap) /\ Cardinality(DOMAIN heap) \in Nat
         /\ Iterations \in Nat /\ Iterations > Cardinality(DOMAIN heap)
<1>1. MemoryOK /\ Tiled(heap, Mapped) /\ Mapped \in SUBSET ZoneNames
  BY DEF ZoneInv, LargeInv, TypeOK, Mapped
<1>2. HeaderMap(heap)
  BY <1>1 DEF Tiled
<1>3. \A a \in DOMAIN heap : a \in Nat /\ a % 16 = 0 /\ \E z \in ZoneNames : InPlace(z, a)
  BY <1>1, <1>2, TiledTypes DEF Tiled, Seated
<1>4. \A z \in ZoneNames : PlacedAt(z) \in Nat /\ PlacedAt(z) > 0 /\ PlacedEnd(z) \in Nat
                           /\ PlacedEnd(z) < SizeMod
  BY LayoutAssumption, SMT DEF ZoneNames, PlacedAt, PlacedEnd, ZoneSize
<1>5. \A a \in DOMAIN heap : a # 0 /\ a \in 0 .. SizeMod
  BY <1>3, <1>4, LayoutAssumption, SMT DEF InPlace
<1>6. IsFiniteSet(0 .. SizeMod)
  <2>1. 0 \in Int /\ SizeMod \in Int
    BY LayoutAssumption
  <2> QED
    BY <2>1, FS_Interval
<1>7. IsFiniteSet(DOMAIN heap) /\ Cardinality(DOMAIN heap) \in Nat
  BY <1>5, <1>6, FS_Subset, FS_CardinalityType
<1>8. Iterations \in Nat /\ Iterations > Cardinality(DOMAIN heap)
  BY <1>7, SMT DEF Iterations
<1> QED
  BY <1>1, <1>2, <1>3, <1>5, <1>7, <1>8

\* The addresses a loop passes, one iteration after the other.
Passes(at, s, e, found) ==
  /\ at[0] = s
  /\ \A k \in 1 .. Iterations :
       at[k] = IF at[k - 1] < e /\ at[k - 1] \notin found
                 THEN ToNext(heap, at[k - 1]) ELSE at[k - 1]
  /\ Position(s, e, found) = at[Iterations]

\* They stay within D if each step does.
LEMMA PositionSteps ==
  ASSUME ZoneInv, NEW s, NEW e, NEW found, NEW D, s \in D,
         \A c \in D : c < e /\ c \notin found => ToNext(heap, c) \in D
  PROVE  \E at \in [0 .. Iterations -> D] : Passes(at, s, e, found)
<1> DEFINE n == Iterations
           After(c) == IF c < e /\ c \notin found THEN ToNext(heap, c) ELSE c
           G == [c \in D |-> After(c)]
           Loop(f) == [k \in 0 .. n |-> IF k = 0 THEN s
                                        ELSE LET current == f[k - 1]
                                             IN  IF current < e /\ current \notin found
                                                   THEN ToNext(heap, current) ELSE current]
<1>1. n \in Nat
  BY HeapFacts
<1>2. G \in [D -> D]
  OBVIOUS
<1>3. PICK g \in [0 .. n -> D] : Repeats(g, G, s, n)
  <2> HIDE DEF G, n
  <2> QED
    BY <1>1, <1>2, Repeatable
<1>4. \A k \in 0 .. n : k # 0 => k \in 1 .. n /\ k - 1 \in 0 .. n
  BY <1>1, SMT
<1>5. g = Loop(g)
  <2>1. ASSUME NEW k \in 0 .. n PROVE g[k] = Loop(g)[k]
    <3>1. CASE k = 0
      BY <1>3, <3>1 DEF Repeats
    <3>2. CASE k # 0
      <4>1. g[k - 1] \in D /\ g[k] = G[g[k - 1]]
        BY <1>3, <1>4, <3>2 DEF Repeats
      <4> QED
        BY <3>2, <4>1
    <3> QED
      BY <3>1, <3>2
  <2> QED
    BY <1>3, <2>1
<1> DEFINE at == CHOOSE f : f = Loop(f)
<1>6. at = Loop(at)
  <2> HIDE DEF Loop
  <2> QED
    BY <1>5
<1>7. Position(s, e, found) = at[n]
  BY DEF Position
<1> HIDE DEF at
<1>8. /\ DOMAIN at = 0 .. n
      /\ at[0] = s
      /\ \A k \in 1 .. n : k \in 0 .. n /\ k - 1 \in 0 .. n /\ at[k] = After(at[k - 1])
  <2>1. at[0] = s /\ DOMAIN at = 0 .. n
    BY <1>1, <1>6
  <2>2. ASSUME NEW k \in 1 .. n
        PROVE  k \in 0 .. n /\ k - 1 \in 0 .. n /\ at[k] = After(at[k - 1])
    <3>1. k \in 0 .. n /\ k - 1 \in 0 .. n /\ k # 0
      BY <1>1, SMT
    <3>2. at[k] = Loop(at)[k]
      BY <1>6
    <3> QED
      BY <3>1, <3>2
  <2> QED
    BY <2>1, <2>2
<1>9. \A k \in 0 .. n : at[k] \in D
  <2> DEFINE Out == { k \in 0 .. n : at[k] \notin D }
  <2> SUFFICES ASSUME Out # {} PROVE FALSE
    OBVIOUS
  <2>1. PICK k \in Out : \A j \in Out : k <= j
    <3>1. Out \in SUBSET Nat
      BY <1>1
    <3> HIDE DEF Out
    <3> QED
      BY <3>1, Least
  <2>2. k \in 0 .. n /\ at[k] \notin D
    BY <2>1
  <2>3. k # 0
    BY <1>8, <2>2
  <2>4. k \in 1 .. n /\ k - 1 \in 0 .. n /\ ~(k <= k - 1)
    BY <1>1, <2>2, <2>3, SMT
  <2>5. at[k - 1] \in D
    BY <2>1, <2>4
  <2>6. at[k] = After(at[k - 1])
    BY <1>8, <2>4
  <2> QED
    BY <2>2, <2>5, <2>6
<1>10. at = [k \in 0 .. n |-> at[k]]
  BY <1>6
<1>11. at \in [0 .. n -> D]
  BY <1>9, <1>10
<1> QED
  BY <1>7, <1>8, <1>11 DEF Passes

\* The header or the end that a header of zone z leads to.
LEMMA NextOnWalk ==
  ASSUME ZoneInv, NEW z \in Mapped, NEW c \in DOMAIN heap, InPlace(z, c)
  PROVE  /\ PlacedAt(z) \in Nat /\ PlacedEnd(z) \in Nat /\ ToZoneEnd(z) = PlacedEnd(z)
         /\ Trap(heap, c) => ToNext(heap, c) = c
         /\ ~Trap(heap, c) =>
              /\ OnWalk(z, ToNext(heap, c)) /\ ToNext(heap, c) \in Nat /\ c < ToNext(heap, c)
              /\ ToNext(heap, c) <= PlacedEnd(z)
              /\ \A b \in DOMAIN heap : c < b => ToNext(heap, c) <= b
<1>1. /\ PlacedAt(z) \in Nat /\ PlacedEnd(z) \in Nat /\ ToZoneEnd(z) = PlacedEnd(z)
      /\ z \in ZoneNames
  BY HeapFacts, ZoneBounds
<1>2. Trap(heap, c) => ToNext(heap, c) = c
  BY HeapFacts, TiledNext
<1>3. ASSUME ~Trap(heap, c)
      PROVE  /\ OnWalk(z, ToNext(heap, c)) /\ ToNext(heap, c) \in Nat /\ c < ToNext(heap, c)
             /\ ToNext(heap, c) <= PlacedEnd(z)
             /\ \A b \in DOMAIN heap : c < b => ToNext(heap, c) <= b
  <2>1. /\ ToNext(heap, c) = ChunkEnd(heap, c) /\ c \in Nat /\ ChunkEnd(heap, c) \in Nat
        /\ c < ChunkEnd(heap, c)
    BY <1>3, HeapFacts, TiledNext, TiledTypes
  <2>2. PICK y \in Mapped : Seated(heap, y, c)
    BY HeapFacts DEF Tiled
  <2>3. y = z
    BY <2>1, <2>2, HeapFacts, OneZone DEF Seated
  <2>4. /\ ChunkEnd(heap, c) \in DOMAIN heap \cup {PlacedEnd(z)}
        /\ ChunkEnd(heap, c) <= PlacedEnd(z)
    BY <1>3, <2>2, <2>3 DEF Seated
  <2>5. OnWalk(z, ChunkEnd(heap, c))
    BY <1>1, <2>1, <2>4, SMT DEF OnWalk, InPlace
  <2>6. \A b \in DOMAIN heap : c < b => ChunkEnd(heap, c) <= b
    BY <1>3, HeapFacts DEF Tiled
  <2> QED
    BY <2>1, <2>4, <2>5, <2>6
<1> QED
  BY <1>1, <1>2, <1>3

LEMMA WalkTypes ==
  ASSUME ZoneInv, NEW z \in Mapped, NEW a, OnWalk(z, a)
  PROVE  /\ a \in Nat /\ PlacedAt(z) <= a /\ a <= PlacedEnd(z)
         /\ a # PlacedEnd(z) => a \in DOMAIN heap /\ InPlace(z, a) /\ a < PlacedEnd(z)
         /\ PlacedAt(z) \in Nat /\ PlacedEnd(z) \in Nat /\ ToZoneEnd(z) = PlacedEnd(z)
<1>1. /\ PlacedAt(z) \in Nat /\ PlacedEnd(z) \in Nat /\ PlacedAt(z) < PlacedEnd(z)
      /\ ToZoneEnd(z) = PlacedEnd(z)
  BY HeapFacts, ZoneBounds
<1> QED
  BY <1>1, HeapFacts, SMT DEF OnWalk, InPlace

\* Every loop has a place to stop at.
LEMMA StopExists ==
  ASSUME ZoneInv, NEW z \in Mapped, NEW s, OnWalk(z, s), NEW found
  PROVE  \E p : StopsAt(z, s, found, p)
<1> DEFINE Ends == { b \in DOMAIN heap : s <= b /\ b < PlacedEnd(z) /\ (b \in found \/ Trap(heap, b)) }
<1>1. s \in Nat /\ PlacedAt(z) <= s /\ s <= PlacedEnd(z) /\ PlacedAt(z) \in Nat /\ PlacedEnd(z) \in Nat
  BY WalkTypes
<1>2. CASE Ends = {}
  <2>1. StopsAt(z, s, found, PlacedEnd(z))
    BY <1>1, <1>2 DEF StopsAt, OnWalk
  <2> QED
    BY <2>1
<1>3. CASE Ends # {}
  <2>1. PICK p \in Ends : \A b \in Ends : p <= b
    <3>1. Ends \in SUBSET Nat
      BY HeapFacts
    <3> HIDE DEF Ends
    <3> QED
      BY <1>3, <3>1, Least
  <2>2. p \in DOMAIN heap /\ p \in Nat /\ s <= p /\ p < PlacedEnd(z) /\ (p \in found \/ Trap(heap, p))
    BY <2>1, HeapFacts
  <2>3. OnWalk(z, p)
    BY <1>1, <2>2, SMT DEF OnWalk, InPlace
  <2>4. ASSUME NEW b \in DOMAIN heap, s <= b, b < p PROVE b \notin found /\ ~Trap(heap, b)
    <3>1. b \in Nat /\ b < PlacedEnd(z) /\ ~(p <= b)
      BY <1>1, <2>2, <2>4, HeapFacts, SMT
    <3>2. b \notin Ends
      BY <2>1, <3>1
    <3> QED
      BY <2>4, <3>1, <3>2
  <2>5. StopsAt(z, s, found, p)
    BY <2>2, <2>3, <2>4 DEF StopsAt
  <2> QED
    BY <2>5
<1> QED
  BY <1>2, <1>3

\* The loop is there when its iterations are over: with every one of them it
\* has one more header behind it, until it stops.
LEMMA PositionIs ==
  ASSUME ZoneInv, NEW z \in Mapped, NEW s, OnWalk(z, s), NEW found, NEW p, StopsAt(z, s, found, p)
  PROVE  Position(s, ToZoneEnd(z), found) = p
<1> DEFINE e == ToZoneEnd(z)
           D == { a \in DOMAIN heap \cup {PlacedEnd(z)} : OnWalk(z, a) /\ s <= a /\ a <= p }
<1>1. /\ s \in Nat /\ p \in Nat /\ s <= p /\ p <= PlacedEnd(z) /\ PlacedEnd(z) \in Nat
      /\ e = PlacedEnd(z) /\ OnWalk(z, p)
  BY WalkTypes DEF StopsAt
<1>2. s \in D /\ p \in D
  BY <1>1 DEF OnWalk
<1>3. ASSUME NEW c \in D, c < e, c \notin found
      PROVE  /\ ToNext(heap, c) \in D
             /\ c = p => ToNext(heap, c) = p
             /\ c # p => c \in DOMAIN heap /\ c < ToNext(heap, c)
  <2>1. c \in Nat /\ s <= c /\ c <= p /\ c \in DOMAIN heap /\ InPlace(z, c)
    BY <1>1, <1>3, WalkTypes
  <2>2. CASE c = p
    <3>1. ToNext(heap, c) = p
      BY <1>1, <1>3, <2>1, <2>2, NextOnWalk DEF StopsAt
    <3> QED
      BY <1>2, <2>2, <3>1
  <2>3. CASE c # p
    <3>1. c < p
      BY <1>1, <2>1, <2>3, SMT
    <3>2. ~Trap(heap, c)
      BY <2>1, <3>1 DEF StopsAt
    <3>3. /\ OnWalk(z, ToNext(heap, c)) /\ ToNext(heap, c) \in Nat /\ c < ToNext(heap, c)
          /\ ToNext(heap, c) <= PlacedEnd(z)
          /\ \A b \in DOMAIN heap : c < b => ToNext(heap, c) <= b
      BY <2>1, <3>2, NextOnWalk
    <3>4. ToNext(heap, c) <= p
      BY <1>1, <3>1, <3>3 DEF OnWalk
    <3>5. s <= ToNext(heap, c)
      BY <1>1, <2>1, <3>3, SMT
    <3> QED
      BY <2>1, <2>3, <3>3, <3>4, <3>5 DEF OnWalk
  <2> QED
    BY <2>2, <2>3
<1> DEFINE n == Iterations
<1>4. PICK at \in [0 .. n -> D] : Passes(at, s, e, found)
  <2> HIDE DEF D, e
  <2> QED
    BY <1>2, <1>3, PositionSteps
<1>5. n \in Nat /\ n > Cardinality(DOMAIN heap) /\ Cardinality(DOMAIN heap) \in Nat
  BY HeapFacts
<1> DEFINE Behind(a) == { c \in DOMAIN heap : c < a }
<1>6. \A a : IsFiniteSet(Behind(a)) /\ Cardinality(Behind(a)) \in Nat
             /\ Cardinality(Behind(a)) <= Cardinality(DOMAIN heap)
  BY HeapFacts, FS_Subset, FS_CardinalityType
<1>7. \A k \in 0 .. n : at[k] = p \/ k <= Cardinality(Behind(at[k]))
  <2> DEFINE Late == { k \in 0 .. n : ~(at[k] = p \/ k <= Cardinality(Behind(at[k]))) }
  <2> SUFFICES ASSUME Late # {} PROVE FALSE
    OBVIOUS
  <2>1. PICK k \in Late : \A j \in Late : k <= j
    <3>1. Late \in SUBSET Nat
      BY <1>5
    <3> HIDE DEF Late
    <3> QED
      BY <3>1, Least
  <2>2. k \in 0 .. n /\ at[k] # p /\ ~(k <= Cardinality(Behind(at[k])))
    BY <2>1
  <2>3. k # 0
    <3>1. Cardinality(Behind(at[k])) \in Nat
      BY <1>6
    <3> HIDE DEF Behind
    <3> QED
      BY <2>2, <3>1, SMT
  <2>4. k \in 1 .. n /\ k - 1 \in 0 .. n /\ ~(k <= k - 1)
    BY <1>5, <2>2, <2>3, SMT
  <2> DEFINE c == at[k - 1]
  <2>5. c = p \/ k - 1 <= Cardinality(Behind(c))
    BY <2>1, <2>4
  <2>6. c \in D /\ at[k] = IF c < e /\ c \notin found THEN ToNext(heap, c) ELSE c
    BY <1>4, <2>4 DEF Passes
  <2>7. c # p
    BY <1>3, <2>2, <2>6
  <2>8. c \in Nat /\ s <= c /\ c < p /\ c \in DOMAIN heap
    <3>1. c \in Nat /\ s <= c /\ c <= p /\ (c # PlacedEnd(z) => c \in DOMAIN heap)
      BY <2>6, WalkTypes
    <3> QED
      BY <1>1, <2>7, <3>1, SMT
  <2>9. c < e /\ c \notin found
    <3>1. c < e
      BY <1>1, <2>8, SMT
    <3> QED
      BY <2>8, <3>1 DEF StopsAt
  <2>10. at[k] = ToNext(heap, c) /\ c < at[k]
    BY <1>3, <2>6, <2>7, <2>9
  <2>11. at[k] \in Nat
    <3>1. at[k] \in D
      BY <1>4, <2>2
    <3> QED
      BY <1>1, <3>1, HeapFacts
  <2> HIDE DEF c
  <2>12. Behind(c) \cup {c} \subseteq Behind(at[k]) /\ c \notin Behind(c)
    BY <2>8, <2>10, <2>11, HeapFacts, SMT
  <2>13. Cardinality(Behind(c) \cup {c}) = Cardinality(Behind(c)) + 1
    BY <1>6, <2>12, FS_AddElement
  <2>14. Cardinality(Behind(c) \cup {c}) <= Cardinality(Behind(at[k]))
    BY <1>6, <2>12, FS_Subset
  <2> HIDE DEF Behind
  <2> QED
    BY <1>5, <1>6, <2>2, <2>5, <2>7, <2>13, <2>14, SMT
<1>8. at[n] = p
  <2>1. n \in 0 .. n
    BY <1>5, SMT
  <2> HIDE DEF n, Behind
  <2> QED
    BY <1>5, <1>6, <1>7, <2>1, SMT
<1> QED
  BY <1>4, <1>8 DEF Passes

\* A search returns the first header on its walk that it looks for, NULL at the
\* zone's end, and does not return if it is caught by a trap before.
LEMMA SearchFirst ==
  ASSUME ZoneInv, NEW z \in Mapped, NEW s, OnWalk(z, s), NEW found \in SUBSET DOMAIN heap,
         NEW W, W = Walk(heap, s, ToZoneEnd(z))
  PROVE  /\ Search(s, ToZoneEnd(z), found) =
              FirstOf({ a \in W : a \in found }, Endless(heap, s, ToZoneEnd(z)))
         /\ Search(s, ToZoneEnd(z), found) \in DOMAIN heap \cup {NULL, NoReturn}
<1> DEFINE e == PlacedEnd(z)
           hits == { a \in W : a \in found }
<1>1. PICK p : StopsAt(z, s, found, p)
  BY StopExists
<1>2. Position(s, ToZoneEnd(z), found) = p
  BY <1>1, PositionIs
<1>3. /\ s \in Nat /\ p \in Nat /\ s <= p /\ p <= e /\ e \in Nat /\ ToZoneEnd(z) = e
      /\ p # e => p \in DOMAIN heap /\ p < e
      /\ ~(e < e)
  BY <1>1, WalkTypes DEF StopsAt
<1>4. W = { a \in DOMAIN heap : /\ s <= a /\ a < e
                                /\ \A b \in DOMAIN heap : s <= b /\ Trap(heap, b) => a <= b }
  BY <1>3, HeapFacts, TiledWalk
<1>5. \A b \in DOMAIN heap : s <= b /\ (b \in found \/ Trap(heap, b)) => b \in Nat /\ p <= b
  BY <1>1, <1>3, HeapFacts, SMT DEF StopsAt
<1>6. p # e => p \in W /\ (p \in found \/ Trap(heap, p))
  BY <1>1, <1>3, <1>4, <1>5 DEF StopsAt
<1>7. \A a \in W : a \in Nat /\ s <= a /\ a < e /\ a \in DOMAIN heap
                   /\ \A b \in DOMAIN heap : s <= b /\ Trap(heap, b) => a <= b
  BY <1>4, HeapFacts
<1>8. Endless(heap, s, e) <=> \E a \in W : Trap(heap, a)
  BY <1>3, <1>7, HeapFacts, TiledNext DEF Endless
<1> HIDE DEF e
<1>9. CASE p = e
  <2>1. Search(s, e, found) = NULL
    BY <1>2, <1>3, <1>9 DEF Search
  <2>2. \A a \in W : a \notin found /\ ~Trap(heap, a)
    BY <1>3, <1>5, <1>7, <1>9, SMT
  <2> QED
    BY <1>3, <1>8, <2>1, <2>2 DEF FirstOf
<1>10. CASE p # e /\ p \in found
  <2>1. ~(p >= e)
    BY <1>3, <1>10, SMT
  <2>2. Search(s, e, found) = p
    BY <1>2, <1>3, <1>10, <2>1 DEF Search
  <2>3. p \in hits /\ \A a \in hits : p <= a /\ a \in Nat
    BY <1>5, <1>6, <1>7, <1>10
  <2>4. Minimum(hits) = p
    <3>1. Minimum(hits) \in hits /\ \A b \in hits : Minimum(hits) <= b
      <4> HIDE DEF hits
      <4> QED
        BY <2>3 DEF Minimum
    <3> HIDE DEF hits
    <3>2. Minimum(hits) <= p /\ p <= Minimum(hits) /\ Minimum(hits) \in Nat
      BY <2>3, <3>1
    <3> QED
      BY <1>3, <3>2, SMT
  <2>5. hits # {}
    BY <2>3
  <2> HIDE DEF hits
  <2> QED
    BY <1>3, <1>10, <2>2, <2>4, <2>5 DEF FirstOf, hits
<1>11. CASE p # e /\ p \notin found
  <2>1. ~(p >= e)
    BY <1>3, <1>11, SMT
  <2>2. Search(s, e, found) = NoReturn
    BY <1>2, <1>3, <1>11, <2>1 DEF Search
  <2>3. Trap(heap, p) /\ p \in W
    BY <1>6, <1>11
  <2>4. \A a \in W : a \notin found
    <3> SUFFICES ASSUME NEW a \in W, a \in found PROVE FALSE
      OBVIOUS
    <3>1. a \in Nat /\ a <= p
      BY <1>3, <1>7, <1>11, <2>3
    <3>2. p <= a
      BY <1>5, <1>7
    <3>3. a = p
      BY <1>3, <3>1, <3>2, SMT
    <3> QED
      BY <1>11, <3>3
  <2> QED
    BY <1>3, <1>8, <2>2, <2>3, <2>4 DEF FirstOf
<1> QED
  BY <1>9, <1>10, <1>11


LEMMA ZoneStart ==
  ASSUME ZoneInv, NEW z \in Mapped
  PROVE  /\ OnWalk(z, ToFirstChunk(z)) /\ z \in ZoneNames
         /\ ToZoneEnd(z) = PlacedEnd(z) /\ PlacedEnd(z) \in Nat /\ PlacedEnd(z) % 16 = 0
         /\ Chunks(z) = Walk(heap, ToFirstChunk(z), ToZoneEnd(z))
<1>1. /\ ToFirstChunk(z) = PlacedAt(z) /\ PlacedAt(z) \in DOMAIN heap /\ z \in ZoneNames
      /\ PlacedAt(z) \in Nat /\ PlacedEnd(z) \in Nat /\ PlacedAt(z) < PlacedEnd(z)
      /\ ToZoneEnd(z) = PlacedEnd(z)
  BY HeapFacts, ZoneBounds DEF Tiled
<1>2. PlacedEnd(z) % 16 = 0
  BY <1>1, LayoutAssumption, SMT DEF ZoneNames, PlacedAt, PlacedEnd, ZoneSize
<1> QED
  BY <1>1, <1>2, SMT DEF OnWalk, InPlace, Chunks

\* A zone that is not mapped has an empty chain.
LEMMA ZoneAbsent ==
  ASSUME NEW z \in ZoneNames \ Mapped
  PROVE  /\ ToFirstChunk(z) = 0 /\ ToZoneEnd(z) = 0
         /\ (ZoneInv => Chunks(z) = {} /\ ~ChainEndless(z))
<1>1. base[z] = NULL
  BY DEF Mapped
<1>2. ToFirstChunk(z) = 0 /\ ToZoneEnd(z) = 0
  BY <1>1, SMT DEF ToFirstChunk, ToZoneEnd, NULL, DistanceToNextAlignment, ALIGNMENT
<1>3. ASSUME ZoneInv PROVE Chunks(z) = {} /\ ~ChainEndless(z)
  <2>1. \A a \in DOMAIN heap : ~(a < 0)
    BY <1>3, HeapFacts, SMT
  <2> QED
    BY <1>2, <2>1 DEF Chunks, ChainEndless, Endless, Walk
<1> QED
  BY <1>2, <1>3

\* A loop whose condition is false from the start.
LEMMA NoIteration ==
  ASSUME ZoneInv, NEW s, NEW e, ~(s < e), NEW found
  PROVE  Position(s, e, found) = s
<1> DEFINE D == {s}
<1>1. s \in D /\ \A c \in D : c < e /\ c \notin found => ToNext(heap, c) \in D
  OBVIOUS
<1>2. PICK at \in [0 .. Iterations -> D] : Passes(at, s, e, found)
  <2> HIDE DEF D
  <2> QED
    BY <1>1, PositionSteps
<1>3. at[Iterations] \in D
  <2> HIDE DEF D
  <2> QED
    BY HeapFacts, <1>2
<1> QED
  BY <1>2, <1>3 DEF Passes

\* findChunk.
LEMMA FindChunkIs ==
  ASSUME ZoneInv, NEW z \in ZoneNames, NEW m
  PROVE  FindChunk(m, z) = IF \E a \in Chunks(z) : Mem(a) = m
                             THEN CHOOSE a \in Chunks(z) : Mem(a) = m
                             ELSE IF ChainEndless(z) THEN NoReturn ELSE NULL
<1> DEFINE found == { c \in DOMAIN heap : Mem(c) = m }
<1>1. CASE z \in Mapped
  <2> DEFINE hits == { a \in Chunks(z) : a \in found }
  <2>1. FindChunk(m, z) = FirstOf(hits, ChainEndless(z))
    <3>1. found \in SUBSET DOMAIN heap
      OBVIOUS
    <3> HIDE DEF found
    <3>2. Search(ToFirstChunk(z), ToZoneEnd(z), found) = FirstOf(hits, ChainEndless(z))
      BY <1>1, <3>1, ZoneStart, SearchFirst DEF ChainEndless
    <3> QED
      BY <3>2 DEF FindChunk, found
  <2>2. hits = { a \in Chunks(z) : Mem(a) = m }
    BY DEF Chunks, Walk
  <2>3. \A a, b \in hits : a = b
    <3>1. \A a \in hits : a \in Nat /\ Mem(a) = m
      BY HeapFacts DEF Chunks, Walk
    <3> QED
      BY <3>1, SMT DEF Mem, HEADER
  <2>4. CASE hits = {}
    BY <2>1, <2>2, <2>4 DEF FirstOf
  <2>5. ASSUME NEW a \in hits PROVE FindChunk(m, z) = CHOOSE b \in Chunks(z) : Mem(b) = m
    <3>1. a \in Nat /\ \A b \in hits : b = a
      BY <2>3, <2>5, HeapFacts DEF Chunks, Walk
    <3>2. a <= a
      BY <3>1, SMT
    <3> HIDE DEF hits
    <3>3. Minimum(hits) = a
      BY <2>5, <3>1, <3>2 DEF Minimum
    <3>4. (CHOOSE b \in Chunks(z) : Mem(b) = m) = a
      BY <2>2, <2>5, <3>1
    <3> QED
      BY <2>1, <2>5, <3>3, <3>4 DEF FirstOf
  <2> HIDE DEF hits
  <2> QED
    BY <2>2, <2>4, <2>5
<1>2. CASE z \notin Mapped
  <2>1. /\ ToFirstChunk(z) = 0 /\ ToZoneEnd(z) = 0 /\ Chunks(z) = {} /\ ~ChainEndless(z)
    BY <1>2, ZoneAbsent
  <2>2. ~(0 < 0)
    BY SMT
  <2>3. Position(0, 0, found) = 0
    <3> HIDE DEF found
    <3> QED
      BY <2>2, NoIteration
  <2>4. 0 >= 0
    BY SMT
  <2> QED
    BY <2>1, <2>3, <2>4 DEF FindChunk, Search
<1> QED
  BY <1>1, <1>2

\* toZone finds the zone of m, whatever m is.
LEMMA ToZoneIs ==
  ASSUME ZoneInv, NEW m \in Nat
  PROVE  /\ \A z \in ZoneNames : InZone(m, z) <=> ToZone(m) = z
         /\ InNoZone(m) <=> ToZone(m) = "none"
         /\ LookupHangs(m) <=> ToZone(m) = "no return"
         /\ ToZone(m) \in ZoneNames \cup {"none", "no return"}
<1> DEFINE In(z) == ChunkOf(m) \in Chunks(z)
<1>1. ASSUME NEW z \in ZoneNames
      PROVE  /\ In(z) => FindChunk(m, z) # NULL /\ FindChunk(m, z) # NoReturn
             /\ ~In(z) => FindChunk(m, z) = IF ChainEndless(z) THEN NoReturn ELSE NULL
  <2>1. \A a \in Chunks(z) : a \in Nat /\ a # 0
    BY HeapFacts DEF Chunks, Walk
  <2>2. \A a \in Chunks(z) : Mem(a) = m <=> a = ChunkOf(m)
    BY <2>1, SMT DEF Mem, ChunkOf, HEADER
  <2>3. CASE In(z)
    <3>1. FindChunk(m, z) \in Chunks(z)
      BY <2>2, <2>3, FindChunkIs
    <3>2. FindChunk(m, z) \in Nat /\ FindChunk(m, z) # 0
      BY <2>1, <3>1
    <3> QED
      BY <2>3, <3>2, SMT DEF NULL, NoReturn
  <2>4. CASE ~In(z)
    BY <2>2, <2>4, FindChunkIs
  <2> QED
    BY <2>3, <2>4
<1>2. NULL # NoReturn
  BY SMT DEF NULL, NoReturn
<1>3. \A z \in ZoneNames : Chunks(z) \subseteq DOMAIN heap
  BY DEF Chunks, Walk
<1>4. ZoneNames = {"tiny", "small"}
  BY DEF ZoneNames
<1>5. /\ InZone(m, "tiny") <=> In("tiny")
      /\ InZone(m, "small") <=> In("small") /\ ~In("tiny") /\ ~ChainEndless("tiny")
      /\ InNoZone(m) <=> /\ ~In("tiny") /\ ~ChainEndless("tiny")
                         /\ ~In("small") /\ ~ChainEndless("small")
  BY <1>3, <1>4 DEF InZone, InNoZone
<1>6. LookupHangs(m) <=> ~InNoZone(m) /\ ~InZone(m, "tiny") /\ ~InZone(m, "small")
  BY <1>4 DEF LookupHangs
<1>7. ToZone(m) = IF In("tiny") THEN "tiny"
                  ELSE IF ChainEndless("tiny") THEN "no return"
                  ELSE IF In("small") THEN "small"
                  ELSE IF ChainEndless("small") THEN "no return"
                  ELSE "none"
  BY <1>1, <1>2, <1>4 DEF ToZone
<1> QED
  BY <1>4, <1>5, <1>6, <1>7

\* So does the model: every block, header and stray address.
LEMMA InvLookups == ZoneInv => LookupsAgree
<1> SUFFICES ASSUME ZoneInv PROVE LookupsAgree
  OBVIOUS
<1>1. ASSUME NEW m \in DOMAIN live \cup { Mem(a) : a \in DOMAIN heap } \cup DOMAIN heap \cup {8}
      PROVE  m \in Nat
  <2>1. DOMAIN live \subseteq Nat
    BY DEF ZoneInv, LargeInv, TypeOK, CallOK
  <2>2. \A a \in DOMAIN heap : Mem(a) \in Nat
    BY HeapFacts, SMT DEF Mem, HEADER
  <2> QED
    BY <2>1, <2>2, HeapFacts
<1> QED
  BY <1>1, ToZoneIs DEF LookupsAgree

LEMMA ChunkOnWalk ==
  ASSUME ZoneInv, NEW z \in Mapped, NEW a \in Chunks(z)
  PROVE  OnWalk(z, ToNext(heap, a)) /\ OnWalk(z, a)
<1>1. a \in DOMAIN heap /\ InPlace(z, a)
  BY HeapFacts, ChunkPlace DEF Seated
<1>2. Trap(heap, a) => ToNext(heap, a) = a
  BY <1>1, NextOnWalk
<1>3. ~Trap(heap, a) => OnWalk(z, ToNext(heap, a))
  BY <1>1, NextOnWalk
<1> QED
  BY <1>1, <1>2, <1>3 DEF OnWalk

LEMMA InvSearches == ZoneInv => SearchesAgree
<1> SUFFICES ASSUME ZoneInv, NEW z \in Set PROVE
      /\ \A n \in Requests :
           LET need == AlignUp(n)
               free == { a \in Chunks(z) : heap[a].free }
           IN  /\ FindFreeChunk(need, z) =
                    FirstOf({ a \in free : heap[a].size = need }, ChainEndless(z))
               /\ FindFittableFreeChunk(need, z) =
                    FirstOf({ a \in free : heap[a].size >= need }, ChainEndless(z))
      /\ \A a \in Chunks(z) :
           FindFree(ToNext(heap, a), ToZoneEnd(z)) =
             FirstOf({ b \in Walk(heap, ToNext(heap, a), ToZoneEnd(z)) : heap[b].free },
                     Endless(heap, ToNext(heap, a), ToZoneEnd(z)))
  BY DEF SearchesAgree
<1>1. z \in Mapped
  BY DEF Set, Mapped
<1>2. Chunks(z) \subseteq DOMAIN heap
  BY DEF Chunks, Walk
<1>3. ASSUME NEW found \in SUBSET DOMAIN heap
      PROVE  Search(ToFirstChunk(z), ToZoneEnd(z), found)
               = FirstOf({ a \in Chunks(z) : a \in found }, ChainEndless(z))
  BY <1>1, <1>3, ZoneStart, SearchFirst DEF ChainEndless
<1>4. ASSUME NEW need
      PROVE  /\ FindFreeChunk(need, z) =
                  FirstOf({ a \in { b \in Chunks(z) : heap[b].free } : heap[a].size = need },
                          ChainEndless(z))
             /\ FindFittableFreeChunk(need, z) =
                  FirstOf({ a \in { b \in Chunks(z) : heap[b].free } : heap[a].size >= need },
                          ChainEndless(z))
  <2> DEFINE exact == { c \in FreeHeaders : heap[c].size = need }
             fitting == { c \in FreeHeaders : heap[c].size >= need }
  <2>1. exact \in SUBSET DOMAIN heap /\ fitting \in SUBSET DOMAIN heap
    BY DEF FreeHeaders
  <2>2. { a \in Chunks(z) : a \in exact }
          = { a \in { b \in Chunks(z) : heap[b].free } : heap[a].size = need }
    BY <1>2 DEF FreeHeaders
  <2>3. { a \in Chunks(z) : a \in fitting }
          = { a \in { b \in Chunks(z) : heap[b].free } : heap[a].size >= need }
    BY <1>2 DEF FreeHeaders
  <2> QED
    BY <1>3, <2>1, <2>2, <2>3 DEF FindFreeChunk, FindFittableFreeChunk
<1>5. ASSUME NEW a \in Chunks(z)
      PROVE  FindFree(ToNext(heap, a), ToZoneEnd(z)) =
               FirstOf({ b \in Walk(heap, ToNext(heap, a), ToZoneEnd(z)) : heap[b].free },
                       Endless(heap, ToNext(heap, a), ToZoneEnd(z)))
  <2> DEFINE s == ToNext(heap, a)
             W == Walk(heap, s, ToZoneEnd(z))
  <2>1. OnWalk(z, s)
    BY <1>1, <1>5, ChunkOnWalk
  <2>2. FreeHeaders \in SUBSET DOMAIN heap
    BY DEF FreeHeaders
  <2>3. { b \in W : b \in FreeHeaders } = { b \in W : heap[b].free }
    BY DEF FreeHeaders, Walk
  <2> HIDE DEF s
  <2> QED
    BY <1>1, <2>1, <2>2, <2>3, SearchFirst DEF FindFree, s
<1> QED
  BY <1>4, <1>5

\* The loop of consequtiveFreeChunksSize.
LEMMA RunEndIs ==
  ASSUME ZoneInv, NEW y \in Mapped, NEW s, OnWalk(y, s)
  PROVE  LET stop == RunEnd(s, ToZoneEnd(y))
         IN  /\ stop = NoReturn \/ (stop \in Nat /\ s <= stop /\ stop % 16 = 0)
             /\ \A t : FreeRunEndsAt(heap, s, ToZoneEnd(y), t) <=> stop # NoReturn /\ t = stop
             /\ FreeRunEndless(heap, s, ToZoneEnd(y)) <=> stop = NoReturn
<1> DEFINE e == PlacedEnd(y)
           used == DOMAIN heap \ FreeHeaders
           stop == RunEnd(s, ToZoneEnd(y))
<1>1. ToZoneEnd(y) = e /\ e \in Nat /\ e % 16 = 0 /\ y \in ZoneNames /\ ~(e < e) /\ e >= e /\ e <= e
  <2>1. ToZoneEnd(y) = e /\ e \in Nat /\ e % 16 = 0 /\ y \in ZoneNames
    BY ZoneStart
  <2> QED
    BY <2>1, SMT
<1>2. \A b \in DOMAIN heap : /\ b \in Nat /\ b % 16 = 0
                             /\ b \in FreeHeaders <=> heap[b].free
                             /\ b \in used <=> ~heap[b].free
                             /\ Loops(heap, b) <=> Trap(heap, b)
  BY HeapFacts, TiledNext DEF FreeHeaders
<1>3. ASSUME NEW p, StopsAt(y, s, used, p)
      PROVE  /\ Position(s, e, used) = p
             /\ p \in Nat /\ s <= p /\ p <= e /\ p % 16 = 0 /\ s \in Nat
             /\ p # e => p \in DOMAIN heap /\ p < e /\ ~(p >= e)
             /\ stop = IF p = e \/ p \notin FreeHeaders THEN p ELSE NoReturn
             /\ NoReturn # p
  <2>1. Position(s, e, used) = p
    BY <1>1, <1>3, PositionIs
  <2>2. /\ p \in Nat /\ s <= p /\ p <= e /\ s \in Nat
        /\ p # e => p \in DOMAIN heap /\ p < e
    BY <1>1, <1>3, WalkTypes DEF StopsAt
  <2>3. p # e => ~(p >= e)
    BY <1>1, <2>2, SMT
  <2>4. stop = IF p = e \/ p \notin FreeHeaders THEN p ELSE NoReturn
    <3> HIDE DEF e
    <3> QED
      BY <1>1, <2>1, <2>3 DEF RunEnd
  <2>5. NoReturn # p
    BY <2>2, SMT DEF NoReturn
  <2>6. p % 16 = 0
    BY <1>1, <1>2, <2>2
  <2> QED
    BY <2>1, <2>2, <2>3, <2>4, <2>5, <2>6
<1>4. PICK p : StopsAt(y, s, used, p)
  BY StopExists
<1>5. ASSUME NEW t, FreeRunEndsAt(heap, s, e, t) PROVE stop # NoReturn /\ t = stop
  <2>1. /\ t \in DOMAIN heap \cup {e} /\ s <= t /\ t <= e
        /\ t < e => ~heap[t].free
        /\ \A b \in DOMAIN heap : s <= b /\ b < t => b \notin used /\ ~Trap(heap, b)
    BY <1>2, <1>5 DEF FreeRunEndsAt
  <2>2. OnWalk(y, t) /\ (t # e => t < e /\ t \in DOMAIN heap)
    <3>1. s \in Nat /\ PlacedAt(y) <= s /\ PlacedAt(y) \in Nat
      BY WalkTypes
    <3>2. t \in Nat
      BY <1>1, <1>2, <2>1
    <3>3. t # e => t < e
      BY <1>1, <2>1, <3>2, SMT
    <3>4. PlacedAt(y) <= t
      BY <2>1, <3>1, <3>2, SMT
    <3> QED
      BY <2>1, <3>3, <3>4 DEF OnWalk, InPlace
  <2>3. StopsAt(y, s, used, t)
    BY <1>2, <2>1, <2>2 DEF StopsAt
  <2>4. t = e \/ t \notin FreeHeaders
    BY <1>2, <2>1, <2>2
  <2> HIDE DEF stop, used, e
  <2> QED
    BY <1>3, <2>3, <2>4
<1>6. ASSUME stop # NoReturn PROVE FreeRunEndsAt(heap, s, e, stop)
  <2>1. stop = p /\ (p = e \/ p \notin FreeHeaders)
    <3> HIDE DEF stop, used, e
    <3> QED
      BY <1>3, <1>4, <1>6
  <2>2. p \in DOMAIN heap \cup {e} /\ s <= p /\ p <= e
    BY <1>3, <1>4
  <2>3. p < e => ~heap[p].free
    BY <1>1, <1>2, <2>1, <2>2
  <2>4. \A b \in DOMAIN heap : s <= b /\ b < p => heap[b].free /\ ~Loops(heap, b)
    BY <1>2, <1>4 DEF StopsAt
  <2> HIDE DEF stop, used, e
  <2> QED
    BY <2>1, <2>2, <2>3, <2>4 DEF FreeRunEndsAt
<1>7. ASSUME FreeRunEndless(heap, s, e) PROVE stop = NoReturn
  <2>1. PICK a \in Walk(heap, s, e) :
          Loops(heap, a) /\ \A b \in DOMAIN heap : s <= b /\ b <= a => heap[b].free
    BY <1>7 DEF FreeRunEndless
  <2>2. /\ a \in DOMAIN heap /\ a \in Nat /\ s <= a /\ a < e /\ Trap(heap, a)
        /\ \A b \in DOMAIN heap : s <= b /\ Trap(heap, b) => a <= b
    BY <1>2, <2>1, HeapFacts, TiledWalk
  <2>3. a <= a /\ a # e /\ \A b \in DOMAIN heap : b < a => b <= a /\ ~(a <= b)
    BY <1>1, <1>2, <2>2, SMT
  <2>4. OnWalk(y, a)
    <3>1. s \in Nat /\ PlacedAt(y) <= s /\ PlacedAt(y) \in Nat
      BY WalkTypes
    <3>2. PlacedAt(y) <= a
      BY <2>2, <3>1, SMT
    <3> QED
      BY <2>2, <3>2 DEF OnWalk, InPlace
  <2>5. StopsAt(y, s, used, a)
    BY <1>2, <2>1, <2>2, <2>3, <2>4 DEF StopsAt
  <2>6. a \in FreeHeaders
    BY <1>2, <2>1, <2>2, <2>3
  <2> HIDE DEF stop, used, e
  <2> QED
    BY <1>3, <2>3, <2>5, <2>6
<1>8. ASSUME stop = NoReturn PROVE FreeRunEndless(heap, s, e)
  <2>1. p # e /\ p \in FreeHeaders
    <3> HIDE DEF stop, used, e
    <3> QED
      BY <1>3, <1>4, <1>8
  <2>2. p \in DOMAIN heap /\ p \in Nat /\ s <= p /\ p < e /\ p \notin used
    BY <1>2, <1>3, <1>4, <2>1
  <2>3. Trap(heap, p) /\ \A b \in DOMAIN heap : s <= b /\ b < p => heap[b].free /\ ~Trap(heap, b)
    BY <1>2, <1>4, <2>1, <2>2 DEF StopsAt
  <2>4. \A b \in DOMAIN heap : s <= b /\ Trap(heap, b) => p <= b
    BY <1>2, <2>2, <2>3, SMT
  <2>5. p \in Walk(heap, s, e) /\ Loops(heap, p)
    BY <1>2, <2>2, <2>3, <2>4, HeapFacts, TiledWalk
  <2>6. \A b \in DOMAIN heap : s <= b /\ b <= p => heap[b].free
    <3>1. heap[p].free
      BY <1>2, <2>1, <2>2
    <3>2. \A b \in DOMAIN heap : b <= p => b = p \/ b < p
      BY <1>2, <2>2, SMT
    <3> QED
      BY <2>3, <3>1, <3>2
  <2> QED
    BY <2>5, <2>6 DEF FreeRunEndless
<1>9. stop = NoReturn \/ (stop \in Nat /\ s <= stop /\ stop % 16 = 0)
  <2> HIDE DEF stop, used, e
  <2> QED
    BY <1>3, <1>4
<1> HIDE DEF stop, e
<1> QED
  BY <1>1, <1>5, <1>6, <1>7, <1>8, <1>9 DEF stop

\* Where a header's successor is taken for a block, and found: the end or
\* another header of the zone it is found in.
LEMMA FoundOnWalk ==
  ASSUME ZoneInv, NEW z \in Mapped, NEW s, OnWalk(z, s), s % 16 = 0,
         NEW y \in ZoneNames, InZone(s, y)
  PROVE  y \in Mapped /\ OnWalk(y, s)
<1>1. y \in Mapped /\ ChunkOf(s) \in DOMAIN heap /\ InPlace(y, ChunkOf(s))
  BY HeapFacts, ChunkPlace DEF InZone, Seated
<1>2. s \in Nat /\ ChunkOf(s) \in Nat /\ ChunkOf(s) = s - 16
  BY <1>1, WalkTypes, HeapFacts, SMT DEF ChunkOf, HEADER
<1>3. PlacedAt(y) \in Nat /\ PlacedEnd(y) \in Nat /\ PlacedEnd(y) % 16 = 0
  BY <1>1, ZoneStart, HeapFacts, ZoneBounds
<1>4. PlacedAt(y) <= s /\ s <= PlacedEnd(y)
  BY <1>1, <1>2, <1>3, SMT DEF InPlace
<1>5. CASE s = PlacedEnd(y)
  BY <1>1, <1>5 DEF OnWalk
<1>6. CASE s # PlacedEnd(y)
  <2>1. InPlace(y, s)
    BY <1>2, <1>3, <1>4, <1>6, SMT DEF InPlace
  <2>2. s \in DOMAIN heap
    <3> SUFFICES ASSUME s = PlacedEnd(z) PROVE FALSE
      BY DEF OnWalk
    <3>1. z \in ZoneNames
      BY HeapFacts
    <3>2. s = PlacedAt(y)
      BY <2>1, <3>1, AcrossZones
    <3> QED
      BY <1>1, <1>2, <1>3, <3>2, SMT DEF InPlace
  <2> QED
    BY <1>1, <2>1, <2>2 DEF OnWalk
<1> QED
  BY <1>5, <1>6

\* consequtiveFreeChunksSize.
LEMMA InvRuns == ZoneInv => RunsAgree
<1> SUFFICES ASSUME ZoneInv, NEW z \in Set, NEW a \in Chunks(z) PROVE
      LET s == ToNext(heap, a)
          size == ConsequtiveFreeChunksSize(s)
      IN  /\ ConsecutiveFreeHangs(s) <=> size = NoReturn
          /\ \A t \in Stops(a) : ConsecutiveFree(s, t) <=> size = t - s
  BY DEF RunsAgree
<1> DEFINE s == ToNext(heap, a)
           size == ConsequtiveFreeChunksSize(s)
<1>1. z \in Mapped
  BY DEF Set, Mapped
<1>2. OnWalk(z, s)
  BY <1>1, ChunkOnWalk
<1>3. s \in Nat /\ s % 16 = 0
  BY <1>1, <1>2, WalkTypes, HeapFacts, ZoneStart DEF OnWalk
<1>4. \A t \in Stops(a) : t \in Nat /\ t % 16 = 0
  <2>1. ASSUME NEW y \in ZoneNames PROVE ToZoneEnd(y) \in Nat /\ ToZoneEnd(y) % 16 = 0
    <3>1. CASE y \in Mapped
      BY <3>1, ZoneStart
    <3>2. CASE y \notin Mapped
      <4>1. ToZoneEnd(y) = 0
        BY <3>2, ZoneAbsent
      <4> QED
        BY <4>1, SMT
    <3> QED
      BY <3>1, <3>2
  <2> QED
    BY <1>3, <2>1, HeapFacts DEF Stops
<1> HIDE DEF s
<1>5. /\ \A y \in ZoneNames : InZone(s, y) <=> ToZone(s) = y
      /\ InNoZone(s) <=> ToZone(s) = "none"
      /\ LookupHangs(s) <=> ToZone(s) = "no return"
      /\ ToZone(s) \in ZoneNames \cup {"none", "no return"}
  BY <1>3, ToZoneIs
<1>6. ZoneNames = {"tiny", "small"}
  BY DEF ZoneNames
<1>7. \A t \in Stops(a) : /\ NoReturn # t - s
                          /\ 0 = t - s <=> t = s
                          /\ \A u \in Nat : u - s = t - s <=> t = u
  BY <1>3, <1>4, SMT DEF NoReturn
<1>8. CASE ToZone(s) = "no return"
  <2>1. size = NoReturn
    BY <1>8 DEF ConsequtiveFreeChunksSize
  <2>2. ConsecutiveFreeHangs(s) /\ \A t : ~ConsecutiveFree(s, t)
    BY <1>5, <1>6, <1>8 DEF ConsecutiveFreeHangs, ConsecutiveFree
  <2> QED
    BY <1>7, <2>1, <2>2 DEF s
<1>9. CASE ToZone(s) = "none"
  <2>1. size = 0 /\ 0 # NoReturn
    BY <1>9, SMT DEF ConsequtiveFreeChunksSize, NoReturn
  <2>2. ~ConsecutiveFreeHangs(s) /\ \A t : ConsecutiveFree(s, t) <=> t = s
    BY <1>5, <1>6, <1>9 DEF ConsecutiveFreeHangs, ConsecutiveFree
  <2> QED
    BY <1>7, <2>1, <2>2 DEF s
<1>10. ASSUME NEW y \in ZoneNames, ToZone(s) = y
       PROVE  /\ ConsecutiveFreeHangs(s) <=> size = NoReturn
              /\ \A t \in Stops(a) : ConsecutiveFree(s, t) <=> size = t - s
  <2> DEFINE stop == RunEnd(s, ToZoneEnd(y))
  <2>1. y \in Mapped /\ OnWalk(y, s)
    BY <1>1, <1>2, <1>3, <1>5, <1>10, FoundOnWalk
  <2>2. /\ stop = NoReturn \/ (stop \in Nat /\ s <= stop /\ stop % 16 = 0)
        /\ \A t : FreeRunEndsAt(heap, s, ToZoneEnd(y), t) <=> stop # NoReturn /\ t = stop
        /\ FreeRunEndless(heap, s, ToZoneEnd(y)) <=> stop = NoReturn
    BY <2>1, RunEndIs
  <2>3. y # "none" /\ y # "no return"
    BY <1>6
  <2>4. size = IF stop = NoReturn THEN NoReturn ELSE stop - s
    BY <1>10, <2>3 DEF ConsequtiveFreeChunksSize
  <2>5. ConsecutiveFreeHangs(s) <=> stop = NoReturn
    BY <1>5, <1>10, <2>2, <2>3 DEF ConsecutiveFreeHangs
  <2>6. \A t : ConsecutiveFree(s, t) <=> stop # NoReturn /\ t = stop
    BY <1>5, <1>10, <2>2, <2>3 DEF ConsecutiveFree
  <2> HIDE DEF stop, size
  <2>7. stop # NoReturn => size # NoReturn
    BY <1>3, <2>2, <2>4, SMT DEF NoReturn
  <2>8. ASSUME NEW t \in Stops(a) PROVE ConsecutiveFree(s, t) <=> size = t - s
    <3>1. CASE stop = NoReturn
      BY <1>7, <2>4, <2>6, <2>8, <3>1
    <3>2. CASE stop # NoReturn
      BY <1>7, <2>2, <2>4, <2>6, <2>8, <3>2
    <3> QED
      BY <3>1, <3>2
  <2> QED
    BY <2>4, <2>5, <2>7, <2>8
<1> QED
  BY <1>5, <1>8, <1>9, <1>10 DEF s

-----------------------------------------------------------------------------
\* The loops of the code, followed header by header, return what FtMalloc says
\* of the sets of headers, and come to no end exactly where it lets a call
\* hang: for every layout and client, on sound and on damaged zones.
THEOREM LoopsSound == Spec /\ DamageLasts => []LoopsAgree
<1>1. ZoneInv => LoopsAgree
  BY InvLookups, InvSearches, InvRuns DEF LoopsAgree
<1> QED
  BY <1>1, ZoneAlways, PTL

-----------------------------------------------------------------------------
(***************************************************************************)
(* showZone counts sizes.  At a trap the sum wraps to what it was, so it   *)
(* stays where the trap is, short of the zone's size.                      *)
(***************************************************************************)
\* A record of the loop, up to the first trap p of zone z.
Showing(z, p) ==
  { r \in [at : DOMAIN heap, seen : Nat, lines : Seq([mem : Int, size : Int])] :
      InPlace(z, r.at) /\ r.at <= p /\ r.seen = r.at - PlacedAt(z) }

LEMMA ShowStep ==
  ASSUME ZoneInv, NEW z \in Mapped, NEW p, StopsAt(z, ToFirstChunk(z), {}, p), p # PlacedEnd(z),
         NEW r \in Showing(z, p)
  PROVE  AfterChunk(r) \in Showing(z, p)
<1> DEFINE next == ToNext(heap, r.at)
           seen == Wrap(r.seen + heap[r.at].size + HEADER)
<1>1. /\ p \in DOMAIN heap /\ InPlace(z, p) /\ p \in Nat /\ Trap(heap, p)
      /\ \A b \in DOMAIN heap : InPlace(z, b) /\ b < p => ~Trap(heap, b)
      /\ PlacedAt(z) \in Nat /\ PlacedEnd(z) \in Nat /\ PlacedEnd(z) < SizeMod
  <2>1. ToFirstChunk(z) = PlacedAt(z) /\ z \in ZoneNames
    BY HeapFacts, ZoneBounds
  <2>2. PlacedEnd(z) < SizeMod
    BY <2>1, LayoutAssumption, SMT DEF ZoneNames, PlacedAt, PlacedEnd, ZoneSize
  <2>3. OnWalk(z, p) /\ (p \in {} \/ Trap(heap, p))
    BY DEF StopsAt
  <2> QED
    BY <2>1, <2>2, <2>3, WalkTypes DEF StopsAt, InPlace
<1>2. /\ r.at \in DOMAIN heap /\ InPlace(z, r.at) /\ r.at <= p /\ r.seen = r.at - PlacedAt(z)
      /\ r.lines \in Seq([mem : Int, size : Int]) /\ r.at \in Nat
      /\ heap[r.at].size \in Nat /\ heap[r.at].free \in BOOLEAN
  BY HeapFacts, TiledTypes DEF Showing
<1>7. /\ \A m \in Nat : m < SizeMod => Wrap(m) = m
      /\ \A m \in Nat : m < SizeMod => Wrap(m + (SizeMod - 16) + HEADER) = m
      /\ SizeMod \in Nat
  BY LayoutAssumption, SMT DEF Wrap, HEADER
<1>3. next \in DOMAIN heap /\ InPlace(z, next) /\ next <= p /\ next \in Nat
      /\ seen = next - PlacedAt(z) /\ seen \in Nat
  <2>1. CASE r.at = p
    <3>1. next = p /\ heap[p].size = SizeMod - 16
      BY <1>1, <2>1, NextOnWalk DEF Trap
    <3> DEFINE m == p - PlacedAt(z)
    <3>4. m \in Nat /\ m < SizeMod
      BY <1>1, <1>7, SMT DEF InPlace
    <3>5. r.seen = m /\ heap[r.at].size = SizeMod - 16
      BY <1>2, <2>1, <3>1
    <3> HIDE DEF m
    <3>6. seen = m
      BY <1>7, <3>4, <3>5
    <3>2. seen = p - PlacedAt(z) /\ seen \in Nat
      BY <3>4, <3>6 DEF m
    <3>3. p <= p
      BY <1>1, SMT
    <3> QED
      BY <1>1, <3>1, <3>2, <3>3
  <2>2. CASE r.at # p
    <3>1. r.at < p
      BY <1>1, <1>2, <2>2, SMT
    <3>2. ~Trap(heap, r.at)
      BY <1>1, <1>2, <3>1
    <3>3. /\ OnWalk(z, next) /\ next \in Nat /\ r.at < next /\ next <= p
          /\ next = ChunkEnd(heap, r.at)
      BY <1>1, <1>2, <3>1, <3>2, NextOnWalk, HeapFacts, TiledNext
    <3>4. next # PlacedEnd(z)
      BY <1>1, <3>3, SMT DEF InPlace
    <3>5. next \in DOMAIN heap /\ InPlace(z, next)
      BY <3>3, <3>4 DEF OnWalk
    <3> DEFINE m == next - PlacedAt(z)
    <3>6. m \in Nat /\ m < SizeMod
      <4> HIDE DEF next
      <4> QED
        BY <1>1, <1>7, <3>3, <3>5, SMT DEF InPlace
    <3>7. r.seen + heap[r.at].size + HEADER = m
      <4>1. next = r.at + 16 + heap[r.at].size
        BY <3>3 DEF ChunkEnd, HEADER
      <4> HIDE DEF next
      <4> DEFINE n == heap[r.at].size
                 c == r.at
                 first == PlacedAt(z)
                 past == r.seen
      <4>2. n \in Nat /\ c \in Nat /\ first \in Nat /\ past = c - first /\ next = c + 16 + n
        BY <1>1, <1>2, <4>1
      <4>3. m = next - first
        OBVIOUS
      <4> HIDE DEF n, c, first, past, m
      <4>4. past + n + HEADER = m
        BY <4>2, <4>3, SMT DEF HEADER
      <4> QED
        BY <4>4 DEF past, n
    <3> HIDE DEF m
    <3>8. seen = m
      BY <1>7, <3>6, <3>7
    <3> QED
      BY <3>3, <3>5, <3>6, <3>8 DEF m
  <2> QED
    BY <2>1, <2>2
<1> DEFINE line == Line(Mem(r.at), heap[r.at].size)
<1>4. line \in [mem : Int, size : Int]
  BY <1>2, SMT DEF Line, Mem, HEADER
<1>5. Append(r.lines, line) \in Seq([mem : Int, size : Int])
  <2> HIDE DEF line
  <2> QED
    BY <1>2, <1>4
<1> HIDE DEF next, seen, line
<1>6. AfterChunk(r) = [ at |-> next, seen |-> seen,
                        lines |-> IF heap[r.at].free THEN r.lines ELSE Append(r.lines, line) ]
  BY DEF AfterChunk, next, seen, line
<1> DEFINE lines == IF heap[r.at].free THEN r.lines ELSE Append(r.lines, line)
           S == Seq([mem : Int, size : Int])
           new == [at |-> next, seen |-> seen, lines |-> lines]
<1>8. lines \in S
  BY <1>2, <1>5
<1>9. AfterChunk(r) = new
  BY <1>6
<1> HIDE DEF lines, S
<1>10. /\ new \in [at : DOMAIN heap, seen : Nat, lines : S]
       /\ new.at = next /\ new.seen = seen
  BY <1>3, <1>8
<1> HIDE DEF new
<1>11. InPlace(z, new.at) /\ new.at <= p /\ new.seen = new.at - PlacedAt(z)
  BY <1>3, <1>10
<1> QED
  BY <1>9, <1>10, <1>11 DEF Showing, S

\* The records the loop of showZone passes, one iteration after the other.
ShowPasses(at, z) ==
  /\ at[0] = [at |-> ToFirstChunk(z), seen |-> 0, lines |-> <<>>]
  /\ \A k \in 1 .. Iterations :
       at[k] = IF at[k - 1].seen < ToChunkAreaSize(z) THEN AfterChunk(at[k - 1]) ELSE at[k - 1]
  /\ ShowZone(z) = at[Iterations]

LEMMA ShowRuns ==
  ASSUME ZoneInv, NEW z, NEW D, [at |-> ToFirstChunk(z), seen |-> 0, lines |-> <<>>] \in D,
         \A r \in D : r.seen < ToChunkAreaSize(z) => AfterChunk(r) \in D
  PROVE  \E at \in [0 .. Iterations -> D] : ShowPasses(at, z)
<1> DEFINE n == Iterations
           s == [at |-> ToFirstChunk(z), seen |-> 0, lines |-> <<>>]
           After(r) == IF r.seen < ToChunkAreaSize(z) THEN AfterChunk(r) ELSE r
           G == [r \in D |-> After(r)]
           Loop(f) == [k \in 0 .. n |-> IF k = 0 THEN s
                                        ELSE LET r == f[k - 1]
                                             IN  IF r.seen < ToChunkAreaSize(z)
                                                   THEN AfterChunk(r) ELSE r]
<1>1. n \in Nat
  BY HeapFacts
<1>2. G \in [D -> D]
  OBVIOUS
<1>3. s \in D
  OBVIOUS
<1>4. PICK g \in [0 .. n -> D] : Repeats(g, G, s, n)
  <2> HIDE DEF G, n, s
  <2> QED
    BY <1>1, <1>2, <1>3, Repeatable
<1>5. \A k \in 0 .. n : k # 0 => k \in 1 .. n /\ k - 1 \in 0 .. n /\ ~(k <= k - 1)
  BY <1>1, SMT
<1> HIDE DEF s
<1>6. g = Loop(g)
  <2>1. ASSUME NEW k \in 0 .. n PROVE g[k] = Loop(g)[k]
    <3>1. CASE k = 0
      BY <1>4, <3>1 DEF Repeats
    <3>2. CASE k # 0
      <4>1. g[k - 1] \in D /\ g[k] = G[g[k - 1]]
        BY <1>4, <1>5, <3>2 DEF Repeats
      <4> QED
        BY <3>2, <4>1
    <3> QED
      BY <3>1, <3>2
  <2> QED
    BY <1>4, <2>1
<1> DEFINE at == CHOOSE f : f = Loop(f)
<1>7. at = Loop(at)
  <2> HIDE DEF Loop
  <2> QED
    BY <1>6
<1>8. ShowZone(z) = at[n]
  BY DEF ShowZone, Iterations, s
<1> HIDE DEF at
<1>9. at[0] = s
  BY <1>1, <1>7
<1>10. ASSUME NEW k \in 0 .. n, k # 0 PROVE at[k] = After(at[k - 1])
  <2>1. at[k] = Loop(at)[k]
    BY <1>7
  <2> QED
    BY <1>10, <2>1
<1>11. \A k \in 0 .. n : at[k] \in D
  <2> DEFINE Out == { k \in 0 .. n : at[k] \notin D }
  <2> SUFFICES ASSUME Out # {} PROVE FALSE
    OBVIOUS
  <2>1. PICK k \in Out : \A j \in Out : k <= j
    <3>1. Out \in SUBSET Nat
      BY <1>1
    <3> HIDE DEF Out
    <3> QED
      BY <3>1, Least
  <2>2. k \in 0 .. n /\ at[k] \notin D /\ k # 0
    BY <1>3, <1>9, <2>1
  <2>3. at[k - 1] \in D
    BY <1>5, <2>1, <2>2
  <2>4. After(at[k - 1]) \in D
    BY <1>2, <2>3
  <2> QED
    BY <1>10, <2>2, <2>4
<1>12. at = [k \in 0 .. n |-> at[k]]
  BY <1>7
<1>13. at \in [0 .. n -> D]
  BY <1>11, <1>12
<1>14. \A k \in 1 .. n : k \in 0 .. n /\ k # 0
  BY <1>1, SMT
<1> QED
  BY <1>8, <1>9, <1>10, <1>13, <1>14 DEF ShowPasses, s

LEMMA ShowStays ==
  ASSUME ZoneInv, NEW z \in Mapped, NEW p, StopsAt(z, ToFirstChunk(z), {}, p), p # PlacedEnd(z)
  PROVE  ShowZone(z) \in Showing(z, p)
<1> DEFINE s == [at |-> ToFirstChunk(z), seen |-> 0, lines |-> <<>>]
<1>1. s \in Showing(z, p)
  <2>1. /\ ToFirstChunk(z) = PlacedAt(z) /\ PlacedAt(z) \in DOMAIN heap /\ z \in ZoneNames
        /\ PlacedAt(z) \in Nat /\ PlacedEnd(z) \in Nat /\ PlacedAt(z) < PlacedEnd(z)
    BY HeapFacts, ZoneBounds DEF Tiled
  <2>2. InPlace(z, PlacedAt(z)) /\ 0 = PlacedAt(z) - PlacedAt(z)
    BY <2>1, SMT DEF InPlace
  <2>3. PlacedAt(z) <= p
    BY <2>1 DEF StopsAt
  <2>4. <<>> \in Seq([mem : Int, size : Int])
    OBVIOUS
  <2>5. s = [at |-> PlacedAt(z), seen |-> 0, lines |-> <<>>] /\ 0 \in Nat
    BY <2>1
  <2> QED
    BY <2>1, <2>2, <2>3, <2>4, <2>5 DEF Showing
<1>2. PICK at \in [0 .. Iterations -> Showing(z, p)] : ShowPasses(at, z)
  BY <1>1, ShowStep, ShowRuns
<1>3. Iterations \in 0 .. Iterations
  BY HeapFacts, SMT
<1> QED
  BY <1>2, <1>3 DEF ShowPasses

LEMMA InvShowHangs == ZoneInv => DamageHangsReport
<1> SUFFICES ASSUME ZoneInv, Damaged PROVE \E z \in ZoneNames : ~ShowEnds(z)
  BY DEF DamageHangsReport
<1>1. PICK a \in DOMAIN heap : Trap(heap, a)
  BY DamageIsTrap DEF NoTraps
<1>2. PICK z \in Mapped : Seated(heap, z, a)
  BY HeapFacts DEF Tiled
<1>3. PICK p : StopsAt(z, ToFirstChunk(z), {}, p)
  BY StopExists, ZoneStart
<1>4. /\ ToFirstChunk(z) = PlacedAt(z) /\ z \in ZoneNames /\ base[z] = PlacedAt(z)
      /\ PlacedAt(z) \in Nat /\ PlacedEnd(z) \in Nat
  BY HeapFacts, ZoneBounds
<1>5. p # PlacedEnd(z)
  BY <1>1, <1>2, <1>3, <1>4 DEF StopsAt, Seated, InPlace
<1>6. InPlace(z, p)
  BY <1>3, <1>5 DEF StopsAt, OnWalk
<1>7. ShowZone(z) \in Showing(z, p)
  BY <1>3, <1>5, ShowStays
<1>8. /\ ShowZone(z).at \in Nat /\ ShowZone(z).at <= p
      /\ ShowZone(z).seen = ShowZone(z).at - PlacedAt(z)
  BY <1>7, HeapFacts DEF Showing
<1>9. ToChunkAreaSize(z) = ZoneSize(z) /\ ZoneSize(z) \in Nat
      /\ PlacedEnd(z) = PlacedAt(z) + ZoneSize(z)
  <2>1. PlacedAt(z) # NULL
    BY <1>2, <1>4 DEF Mapped
  <2> QED
    BY <1>4, <2>1, ZoneLayout, SMT DEF ToChunkAreaSize
<1>10. p \in Nat
  BY <1>3, <1>4, WalkTypes, ZoneStart DEF StopsAt
<1>11. ~(ShowZone(z).seen >= ToChunkAreaSize(z))
  BY <1>4, <1>6, <1>8, <1>9, <1>10, SMT DEF InPlace
<1> QED
  BY <1>4, <1>11 DEF ShowEnds

\* On zones a resize has damaged the report does not come to its end, whatever
\* the zones' sizes and the client.
THEOREM ReportHangs == SSpec /\ DamageLasts => []DamageHangsReport
<1>1. SInit => Init
  BY DEF SInit
<1>2. [SNext]_svars => [Next]_vars
  BY DEF SNext, svars, vars
<1>3. ZoneInv => DamageHangsReport
  BY InvShowHangs
<1> QED
  BY <1>1, <1>2, <1>3, ZoneAlways, PTL DEF SSpec, Spec

-----------------------------------------------------------------------------
(***************************************************************************)
(* On sound zones showZone comes to the zone's end, and its lines are the  *)
(* chunks in use that it has passed, in ascending order.                   *)
(***************************************************************************)
Lines == Seq([mem : Int, size : Int])

\* L lists the chunks in use of zone z below e.
ListedUpTo(z, e, L) ==
  /\ L \in Lines
  /\ \A i \in 1 .. Len(L) : \E a \in InUse(heap) :
       InPlace(z, a) /\ a < e /\ L[i] = Line(Mem(a), heap[a].size)
  /\ \A a \in InUse(heap) :
       InPlace(z, a) /\ a < e => \E i \in 1 .. Len(L) : L[i].mem = Mem(a)
  /\ \A i, j \in 1 .. Len(L) : i < j => L[i].mem < L[j].mem

\* A record of the loop over a sound zone.
Reading(z) ==
  { r \in [at : Nat, seen : Nat, lines : Lines] :
      OnWalk(z, r.at) /\ r.seen = r.at - PlacedAt(z) /\ ListedUpTo(z, r.at, r.lines) }

LEMMA ListMore ==
  ASSUME ZoneInv, NEW z, NEW c \in InUse(heap), InPlace(z, c), NEW L, ListedUpTo(z, c, L),
         NEW e, \A a \in DOMAIN heap : a < e <=> a < c \/ a = c
  PROVE  ListedUpTo(z, e, Append(L, Line(Mem(c), heap[c].size)))
<1> DEFINE new == Line(Mem(c), heap[c].size)
           M == Append(L, new)
<1>1. /\ c \in DOMAIN heap /\ c \in Nat /\ heap[c].size \in Nat
      /\ \A a \in InUse(heap) : a \in DOMAIN heap /\ a \in Nat
  BY HeapFacts, TiledTypes DEF InUse
<1>2. new \in [mem : Int, size : Int] /\ new.mem = Mem(c)
  BY <1>1, SMT DEF Line, Mem, HEADER
<1>3. L \in Lines /\ Len(L) \in Nat
  BY DEF ListedUpTo, Lines
<1> HIDE DEF new
<1>4. /\ M \in Lines /\ Len(M) = Len(L) + 1 /\ M[Len(L) + 1] = new
      /\ \A i \in 1 .. Len(L) : M[i] = L[i]
  BY <1>2, <1>3, AppendProperties DEF Lines
<1> HIDE DEF M
<1>5. \A i \in 1 .. Len(M) : i \in 1 .. Len(L) \/ i = Len(L) + 1
  BY <1>3, <1>4, SMT
<1>6. \A i \in 1 .. Len(L) : i \in 1 .. Len(M) /\ i < Len(L) + 1 /\ ~(Len(L) + 1 < i)
  BY <1>3, <1>4, SMT
<1>7. Len(L) + 1 \in 1 .. Len(M) /\ ~(Len(L) + 1 < Len(L) + 1)
  BY <1>3, <1>4, SMT
<1>8. \A i \in 1 .. Len(L) : \E a \in InUse(heap) :
        InPlace(z, a) /\ a < c /\ L[i] = Line(Mem(a), heap[a].size)
  BY DEF ListedUpTo
<1>9. \A i \in 1 .. Len(L) : L[i].mem < new.mem
  <2> SUFFICES ASSUME NEW i \in 1 .. Len(L) PROVE L[i].mem < new.mem
    OBVIOUS
  <2>1. PICK a \in InUse(heap) : a < c /\ L[i] = Line(Mem(a), heap[a].size)
    BY <1>8
  <2>2. L[i].mem = Mem(a) /\ a \in Nat
    BY <1>1, <2>1 DEF Line
  <2> QED
    BY <1>1, <1>2, <2>1, <2>2, SMT DEF Mem, HEADER
<1>10. ASSUME NEW i \in 1 .. Len(M)
       PROVE  \E a \in InUse(heap) : InPlace(z, a) /\ a < e /\ M[i] = Line(Mem(a), heap[a].size)
  <2>1. CASE i = Len(L) + 1
    BY <1>1, <1>4, <2>1 DEF new
  <2>2. CASE i \in 1 .. Len(L)
    BY <1>1, <1>4, <1>8, <2>2
  <2> QED
    BY <1>5, <1>10, <2>1, <2>2
<1>11. ASSUME NEW a \in InUse(heap), InPlace(z, a), a < e
       PROVE  \E i \in 1 .. Len(M) : M[i].mem = Mem(a)
  <2>1. CASE a = c
    BY <1>2, <1>4, <1>7, <2>1
  <2>2. CASE a < c
    <3>1. PICK i \in 1 .. Len(L) : L[i].mem = Mem(a)
      BY <1>11, <2>2 DEF ListedUpTo
    <3> QED
      BY <1>4, <1>6, <3>1
  <2> QED
    BY <1>1, <1>11, <2>1, <2>2
<1>12. ASSUME NEW i \in 1 .. Len(M), NEW j \in 1 .. Len(M), i < j
       PROVE  M[i].mem < M[j].mem
  <2>1. i \in 1 .. Len(L)
    BY <1>3, <1>4, <1>12, SMT
  <2>2. CASE j = Len(L) + 1
    BY <1>4, <1>9, <2>1, <2>2
  <2>3. CASE j \in 1 .. Len(L)
    BY <1>4, <1>12, <2>1, <2>3 DEF ListedUpTo
  <2> QED
    BY <1>5, <1>12, <2>2, <2>3
<1> QED
  BY <1>4, <1>10, <1>11, <1>12 DEF ListedUpTo, M, new

LEMMA ListSame ==
  ASSUME NEW z, NEW c \in DOMAIN heap, c \notin InUse(heap), NEW L, ListedUpTo(z, c, L),
         NEW e, \A a \in DOMAIN heap : a < e <=> a < c \/ a = c
  PROVE  ListedUpTo(z, e, L)
<1>1. \A a \in InUse(heap) : a < e <=> a < c
  BY DEF InUse
<1> QED
  BY <1>1 DEF ListedUpTo

\* What toChunkAreaSize returns for a zone that is mapped.
LEMMA AreaSize ==
  ASSUME ZoneInv, NEW z \in Mapped
  PROVE  /\ ToChunkAreaSize(z) = PlacedEnd(z) - PlacedAt(z)
         /\ PlacedAt(z) \in Nat /\ PlacedEnd(z) \in Nat /\ PlacedAt(z) < PlacedEnd(z)
         /\ SizeMod \in Nat /\ PlacedEnd(z) < SizeMod
<1>1. z \in ZoneNames /\ base[z] = PlacedAt(z)
  BY HeapFacts, ZoneBounds
<1>2. /\ PlacedAt(z) \in Nat /\ PlacedAt(z) > 0 /\ ZoneSize(z) \in Nat /\ ZoneSize(z) >= 32
      /\ PlacedEnd(z) = PlacedAt(z) + ZoneSize(z) /\ PlacedEnd(z) < SizeMod - 64
      /\ DistanceToNextAlignment(PlacedAt(z)) = 0
  BY <1>1, ZoneLayout
<1>3. ToChunkAreaSize(z) = ZoneSize(z)
  BY <1>1, <1>2, SMT DEF ToChunkAreaSize, NULL
<1> QED
  BY <1>2, <1>3, LayoutAssumption, SMT

LEMMA ReadStep ==
  ASSUME ZoneInv, NoTraps, NEW z \in Mapped, NEW r \in Reading(z), r.seen < ToChunkAreaSize(z)
  PROVE  /\ AfterChunk(r) \in Reading(z)
         /\ r.at \in DOMAIN heap /\ r.at < AfterChunk(r).at
<1> DEFINE c == r.at
           next == ToNext(heap, c)
           seen == Wrap(r.seen + heap[c].size + HEADER)
           lines == IF heap[c].free THEN r.lines ELSE Append(r.lines, Line(Mem(c), heap[c].size))
<1>1. /\ c \in Nat /\ OnWalk(z, c) /\ r.seen = c - PlacedAt(z) /\ ListedUpTo(z, c, r.lines)
      /\ r.lines \in Lines
  BY DEF Reading
<1>2. /\ PlacedAt(z) \in Nat /\ PlacedEnd(z) \in Nat /\ PlacedEnd(z) < SizeMod /\ SizeMod \in Nat
      /\ ToChunkAreaSize(z) = PlacedEnd(z) - PlacedAt(z)
  BY AreaSize
<1>3. c \in DOMAIN heap /\ InPlace(z, c)
  <2>1. c # PlacedEnd(z)
    BY <1>1, <1>2
  <2> QED
    BY <1>1, <2>1 DEF OnWalk
<1>4. /\ OnWalk(z, next) /\ next \in Nat /\ c < next /\ next <= PlacedEnd(z)
      /\ \A b \in DOMAIN heap : c < b => next <= b
  BY <1>3, NextOnWalk DEF NoTraps
<1>5. next = c + 16 + heap[c].size /\ heap[c].size \in Nat /\ heap[c].free \in BOOLEAN
  <2>1. next = ChunkEnd(heap, c)
    BY <1>3, HeapFacts, TiledNext DEF NoTraps
  <2> QED
    BY <1>3, <2>1, HeapFacts, TiledTypes DEF ChunkEnd
<1> HIDE DEF next
<1>6. seen = next - PlacedAt(z) /\ seen \in Nat
  <2> DEFINE n == heap[c].size
             past == r.seen
             first == PlacedAt(z)
  <2>1. /\ n \in Nat /\ past = c - first /\ first \in Nat /\ next = c + 16 + n /\ first <= c
        /\ next \in Nat /\ next < SizeMod /\ SizeMod \in Nat /\ c \in Nat
    BY <1>1, <1>2, <1>3, <1>4, <1>5 DEF InPlace
  <2> HIDE DEF n, past, first, c
  <2>2. Wrap(past + n + HEADER) = next - first /\ next - first \in Nat
    BY <2>1, SMT DEF Wrap, HEADER
  <2> QED
    BY <2>2 DEF n, past, first, c
<1>7. \A a \in DOMAIN heap : a < next <=> a < c \/ a = c
  <2>1. \A a \in DOMAIN heap : a \in Nat
    BY HeapFacts
  <2> QED
    BY <1>1, <1>4, <2>1, SMT
<1>8. ListedUpTo(z, next, lines)
  <2>1. CASE heap[c].free
    <3>1. c \notin InUse(heap)
      BY <2>1 DEF InUse
    <3> QED
      BY <1>1, <1>3, <1>7, <2>1, <3>1, ListSame
  <2>2. CASE ~heap[c].free
    <3>1. c \in InUse(heap)
      BY <1>3, <2>2 DEF InUse
    <3> QED
      BY <1>1, <1>3, <1>7, <2>2, <3>1, ListMore
  <2> QED
    BY <1>5, <2>1, <2>2
<1>9. AfterChunk(r) = [at |-> next, seen |-> seen, lines |-> lines]
  BY DEF AfterChunk, next
<1> HIDE DEF seen, lines
<1>10. lines \in Lines
  BY <1>8 DEF ListedUpTo
<1> DEFINE new == [at |-> next, seen |-> seen, lines |-> lines]
<1>11. /\ new \in [at : Nat, seen : Nat, lines : Lines]
       /\ new.at = next /\ new.seen = seen /\ new.lines = lines
  BY <1>4, <1>6, <1>10
<1> HIDE DEF new
<1>12. new \in Reading(z)
  BY <1>4, <1>6, <1>8, <1>11 DEF Reading
<1> QED
  BY <1>3, <1>4, <1>9, <1>11, <1>12 DEF new

\* With every iteration the loop has one more header behind it, until it is at
\* the zone's end.
LEMMA ReadAll ==
  ASSUME ZoneInv, NoTraps, NEW z \in Mapped
  PROVE  /\ ListedUpTo(z, PlacedEnd(z), ShowZone(z).lines)
         /\ ShowZone(z).seen = PlacedEnd(z) - PlacedAt(z)
<1> DEFINE n == Iterations
           s == [at |-> ToFirstChunk(z), seen |-> 0, lines |-> <<>>]
           D == Reading(z)
<1>1. n \in Nat /\ n > Cardinality(DOMAIN heap) /\ Cardinality(DOMAIN heap) \in Nat
  BY HeapFacts
<1>2. /\ PlacedAt(z) \in Nat /\ PlacedEnd(z) \in Nat /\ PlacedAt(z) < PlacedEnd(z)
      /\ ToFirstChunk(z) = PlacedAt(z) /\ PlacedAt(z) \in DOMAIN heap
      /\ ToChunkAreaSize(z) = PlacedEnd(z) - PlacedAt(z)
  BY HeapFacts, ZoneBounds, AreaSize DEF Tiled
<1>3. s \in D
  <2>1. OnWalk(z, PlacedAt(z)) /\ 0 = PlacedAt(z) - PlacedAt(z)
    BY <1>2, SMT DEF OnWalk, InPlace
  <2>2. ListedUpTo(z, PlacedAt(z), <<>>)
    <3>1. <<>> \in Lines /\ 1 .. Len(<<>>) = {}
      BY SMT DEF Lines
    <3>2. \A a \in InUse(heap) : ~(InPlace(z, a) /\ a < PlacedAt(z))
      BY <1>2, HeapFacts, SMT DEF InUse, InPlace
    <3> QED
      BY <3>1, <3>2 DEF ListedUpTo
  <2>3. s = [at |-> PlacedAt(z), seen |-> 0, lines |-> <<>>] /\ <<>> \in Lines /\ 0 \in Nat
    BY <1>2, <2>2 DEF ListedUpTo
  <2> QED
    BY <1>2, <2>1, <2>2, <2>3 DEF Reading
<1>4. PICK at \in [0 .. n -> D] : ShowPasses(at, z)
  <2>1. \A r \in D : r.seen < ToChunkAreaSize(z) => AfterChunk(r) \in D
    BY ReadStep
  <2> HIDE DEF D
  <2> QED
    BY <1>3, <2>1, ShowRuns
<1> DEFINE Behind(a) == { c \in DOMAIN heap : c < a }
           e == PlacedEnd(z)
<1>5. \A a : IsFiniteSet(Behind(a)) /\ Cardinality(Behind(a)) \in Nat
             /\ Cardinality(Behind(a)) <= Cardinality(DOMAIN heap)
  BY HeapFacts, FS_Subset, FS_CardinalityType
<1>6. \A k \in 0 .. n : at[k].at = e \/ k <= Cardinality(Behind(at[k].at))
  <2> DEFINE Late == { k \in 0 .. n : ~(at[k].at = e \/ k <= Cardinality(Behind(at[k].at))) }
  <2> SUFFICES ASSUME Late # {} PROVE FALSE
    OBVIOUS
  <2>1. PICK k \in Late : \A j \in Late : k <= j
    <3>1. Late \in SUBSET Nat
      BY <1>1
    <3> HIDE DEF Late
    <3> QED
      BY <3>1, Least
  <2>2. k \in 0 .. n /\ at[k].at # e /\ ~(k <= Cardinality(Behind(at[k].at)))
    BY <2>1
  <2>3. k # 0
    <3>1. Cardinality(Behind(at[k].at)) \in Nat
      BY <1>5
    <3> HIDE DEF Behind
    <3> QED
      BY <2>2, <3>1, SMT
  <2>4. k \in 1 .. n /\ k - 1 \in 0 .. n /\ ~(k <= k - 1)
    BY <1>1, <2>2, <2>3, SMT
  <2> DEFINE r == at[k - 1]
             c == r.at
             d == at[k].at
  <2>5. c = e \/ k - 1 <= Cardinality(Behind(c))
    BY <2>1, <2>4
  <2>6. r \in D /\ at[k] \in D /\ at[k] = IF r.seen < ToChunkAreaSize(z) THEN AfterChunk(r) ELSE r
    BY <1>4, <2>2, <2>4 DEF ShowPasses
  <2>7. c # e
    <3>1. c = e => ~(r.seen < ToChunkAreaSize(z))
      BY <1>2, <2>6, SMT DEF Reading
    <3> QED
      BY <2>2, <2>6, <3>1
  <2>8. r.seen < ToChunkAreaSize(z)
    <3>1. OnWalk(z, c) /\ r.seen = c - PlacedAt(z)
      BY <2>6 DEF Reading
    <3>2. c \in Nat /\ c < PlacedEnd(z)
      BY <2>7, <3>1, WalkTypes
    <3> HIDE DEF c
    <3> QED
      BY <1>2, <3>1, <3>2, SMT
  <2>9. d = AfterChunk(r).at /\ c \in DOMAIN heap /\ c < d /\ c \in Nat /\ d \in Nat
    <3>1. c \in Nat /\ d \in Nat
      BY <2>6 DEF Reading
    <3> QED
      BY <2>6, <2>8, <3>1, ReadStep
  <2>10. ~(k <= Cardinality(Behind(d)))
    BY <2>2
  <2> HIDE DEF c, d, r, D
  <2>11. Behind(c) \cup {c} \subseteq Behind(d) /\ c \notin Behind(c)
    BY <2>9, HeapFacts, SMT
  <2>12. Cardinality(Behind(c) \cup {c}) = Cardinality(Behind(c)) + 1
    BY <1>5, <2>11, FS_AddElement
  <2>13. Cardinality(Behind(c) \cup {c}) <= Cardinality(Behind(d))
    BY <1>5, <2>11, FS_Subset
  <2> HIDE DEF Behind
  <2> QED
    BY <1>1, <1>5, <2>2, <2>5, <2>7, <2>10, <2>12, <2>13, SMT
<1>7. n \in 0 .. n
  BY <1>1, SMT
<1>8. at[n].at = e
  <2> HIDE DEF n, Behind, e
  <2> QED
    BY <1>1, <1>5, <1>6, <1>7, SMT
<1>9. ShowZone(z) \in D /\ ShowZone(z).at = e
  BY <1>4, <1>7, <1>8 DEF ShowPasses
<1> QED
  BY <1>9 DEF Reading

\* A zone that is not mapped has no chunks and no lines.
LEMMA ReadNothing ==
  ASSUME ZoneInv, NEW z \in ZoneNames \ Mapped
  PROVE  /\ ListedUpTo(z, PlacedEnd(z), ShowZone(z).lines)
         /\ ShowZone(z).seen = 0 /\ ToChunkAreaSize(z) = 0
<1> DEFINE s == [at |-> ToFirstChunk(z), seen |-> 0, lines |-> <<>>]
<1>1. ToChunkAreaSize(z) = 0 /\ ~(0 < 0)
  BY SMT DEF ToChunkAreaSize, Mapped
<1>2. \A r \in {s} : ~(r.seen < ToChunkAreaSize(z))
  BY <1>1
<1>3. PICK at \in [0 .. Iterations -> {s}] : ShowPasses(at, z)
  <2>1. s \in {s}
    OBVIOUS
  <2> HIDE DEF s
  <2> QED
    BY <1>2, <2>1, ShowRuns DEF s
<1>4. Iterations \in 0 .. Iterations
  BY HeapFacts, SMT
<1>5. ShowZone(z) = s
  BY <1>3, <1>4 DEF ShowPasses
<1>6. <<>> \in Lines /\ 1 .. Len(<<>>) = {}
  BY SMT DEF Lines
<1>7. \A a \in InUse(heap) : ~InPlace(z, a)
  <2> SUFFICES ASSUME NEW a \in DOMAIN heap, InPlace(z, a) PROVE FALSE
    BY DEF InUse
  <2>1. PICK y \in Mapped : Seated(heap, y, a)
    BY HeapFacts DEF Tiled
  <2>2. y = z
    BY <2>1, HeapFacts, OneZone DEF Seated
  <2> QED
    BY <2>2
<1> QED
  BY <1>1, <1>5, <1>6, <1>7 DEF ListedUpTo

\* What showZone prints of each zone.
LEMMA ZoneListed ==
  ASSUME ZoneInv, NoTraps, NEW z \in ZoneNames
  PROVE  /\ ListedUpTo(z, PlacedEnd(z), ShowZone(z).lines)
         /\ ShowEnds(z)
<1>1. CASE z \in Mapped
  <2>1. /\ ListedUpTo(z, PlacedEnd(z), ShowZone(z).lines)
        /\ ShowZone(z).seen = PlacedEnd(z) - PlacedAt(z)
    BY <1>1, ReadAll
  <2>2. ToChunkAreaSize(z) = PlacedEnd(z) - PlacedAt(z)
        /\ PlacedEnd(z) \in Nat /\ PlacedAt(z) \in Nat
    BY <1>1, AreaSize
  <2> QED
    BY <2>1, <2>2, SMT DEF ShowEnds
<1>2. CASE z \notin Mapped
  <2>1. /\ ListedUpTo(z, PlacedEnd(z), ShowZone(z).lines)
        /\ ShowZone(z).seen = 0 /\ ToChunkAreaSize(z) = 0
    BY <1>2, ReadNothing
  <2> QED
    BY <2>1, SMT DEF ShowEnds
<1> QED
  BY <1>1, <1>2

-----------------------------------------------------------------------------
(***************************************************************************)
(* The order of the list of large chunks.                                  *)
(***************************************************************************)
OrderInv ==
  /\ order \in Seq(Nat)
  /\ { order[i] : i \in 1 .. Len(order) } = DOMAIN large
  /\ \A i, j \in 1 .. Len(order) : order[i] = order[j] => i = j

LEMMA ListedNatNext == MemoryOK' => DOMAIN large' \subseteq Nat
  BY LargeShape DEF MemoryOK, IsLarge

LEMMA OrderStep ==
  ASSUME OrderInv, MemoryOK', Relinked
  PROVE  OrderInv'
<1> DEFINE os == order
           n == Len(order)
<1>1. /\ os \in Seq(Nat) /\ n \in Nat /\ DOMAIN os = 1 .. n
      /\ { os[i] : i \in 1 .. n } = DOMAIN large
      /\ \A i, j \in 1 .. n : os[i] = os[j] => i = j
  BY DEF OrderInv
<1>2. CASE large' = large /\ order' = order
  BY <1>2 DEF OrderInv
<1>3. ASSUME NEW m \in DOMAIN large' \ DOMAIN large, DOMAIN large' = DOMAIN large \cup {m},
             order' = <<m>> \o os
      PROVE  OrderInv'
  <2> DEFINE one == <<m>>
             new == one \o os
  <2>1. m \in Nat
    BY <1>3, ListedNatNext
  <2>2. one \in Seq(Nat) /\ Len(one) = 1 /\ one[1] = m
    BY <2>1
  <2> HIDE DEF one
  <2>3. /\ new \in Seq(Nat) /\ Len(new) = 1 + n
        /\ \A i \in 1 .. 1 + n : new[i] = IF i <= 1 THEN one[i] ELSE os[i - 1]
    <3>1. /\ new \in Seq(Nat) /\ Len(new) = Len(one) + Len(os)
          /\ \A i \in 1 .. Len(one) + Len(os) :
               new[i] = IF i <= Len(one) THEN one[i] ELSE os[i - Len(one)]
      <4>1. os \in Seq(Nat)
        BY <1>1
      <4> HIDE DEF os
      <4> QED
        BY <2>2, <4>1, ConcatProperties
    <3> HIDE DEF new
    <3> QED
      BY <2>2, <3>1
  <2> HIDE DEF new, os, n
  <2>4. \A i \in 1 .. 1 + n : i = 1 \/ (i - 1 \in 1 .. n /\ ~(i <= 1))
    BY <1>1, SMT
  <2>5. \A i \in 1 .. n : i + 1 \in 1 .. 1 + n /\ (i + 1) - 1 = i /\ ~(i + 1 <= 1)
    BY <1>1, SMT
  <2>6. 1 \in 1 .. 1 + n /\ new[1] = m
    BY <1>1, <2>2, <2>3, SMT
  <2>7. \A i \in 1 .. 1 + n : i # 1 => i - 1 \in 1 .. n /\ new[i] = os[i - 1]
    BY <2>3, <2>4
  <2>8. \A i \in 1 .. n : os[i] \in DOMAIN large
    BY <1>1
  <2>9. { new[i] : i \in 1 .. 1 + n } = DOMAIN large \cup {m}
    <3>1. ASSUME NEW x \in DOMAIN large PROVE \E i \in 1 .. 1 + n : new[i] = x
      <4>1. PICK i \in 1 .. n : os[i] = x
        BY <1>1
      <4>2. i + 1 \in 1 .. 1 + n /\ i + 1 # 1 /\ (i + 1) - 1 = i
        BY <2>5, SMT
      <4> QED
        BY <2>7, <4>1, <4>2
    <3> QED
      BY <2>6, <2>7, <2>8, <3>1
  <2>10. ASSUME NEW i \in 1 .. 1 + n, NEW j \in 1 .. 1 + n, new[i] = new[j] PROVE i = j
    <3>1. CASE i # 1 /\ j # 1
      <4>1. i - 1 = j - 1
        BY <1>1, <2>7, <2>10, <3>1
      <4> QED
        BY <4>1, SMT
    <3>2. CASE i = 1 \/ j = 1
      BY <1>3, <2>6, <2>7, <2>8, <2>10, <3>2
    <3> QED
      BY <3>1, <3>2
  <2> QED
    BY <1>3, <2>3, <2>9, <2>10 DEF OrderInv, one, new, os
<1>4. ASSUME NEW i \in DOMAIN order, DOMAIN large' = DOMAIN large \ {os[i]},
             order' = RemoveAt(os, i)
      PROVE  OrderInv'
  <2> DEFINE new == Without(os, i)
  <2>1. i \in 1 .. n /\ order' = new
    BY <1>1, <1>4 DEF RemoveAt, Without
  <2>2. /\ new \in Seq(Nat) /\ Len(new) = n - 1
        /\ \A j \in 1 .. n - 1 : new[j] = IF j < i THEN os[j] ELSE os[j + 1]
    BY <1>1, <2>1, WithoutIs
  <2> HIDE DEF new, os, n
  <2> DEFINE to(j) == IF j < i THEN j ELSE j + 1
  <2>3. \A j \in 1 .. n - 1 : to(j) \in 1 .. n /\ to(j) # i
    BY <1>1, <2>1, SMT
  <2>4. \A j, k \in 1 .. n - 1 : to(j) = to(k) => j = k
    BY <1>1, <2>1, SMT
  <2>5. \A k \in 1 .. n : k # i => \E j \in 1 .. n - 1 : to(j) = k
    <3> SUFFICES ASSUME NEW k \in 1 .. n, k # i PROVE \E j \in 1 .. n - 1 : to(j) = k
      OBVIOUS
    <3>1. CASE k < i
      <4>1. k \in 1 .. n - 1 /\ to(k) = k
        BY <1>1, <2>1, <3>1, SMT
      <4> QED
        BY <4>1
    <3>2. CASE ~(k < i)
      <4>1. k - 1 \in 1 .. n - 1 /\ to(k - 1) = k
        BY <1>1, <2>1, <3>2, SMT
      <4> QED
        BY <4>1
    <3> QED
      BY <3>1, <3>2
  <2>6. \A j \in 1 .. n - 1 : new[j] = os[to(j)]
    BY <2>2
  <2> HIDE DEF to
  <2>7. { new[j] : j \in 1 .. n - 1 } = DOMAIN large \ {os[i]}
    <3>1. \A j \in 1 .. n - 1 : new[j] \in DOMAIN large \ {os[i]}
      BY <1>1, <2>1, <2>3, <2>6
    <3>2. ASSUME NEW x \in DOMAIN large, x # os[i] PROVE \E j \in 1 .. n - 1 : new[j] = x
      <4>1. PICK k \in 1 .. n : os[k] = x
        BY <1>1
      <4>2. PICK j \in 1 .. n - 1 : to(j) = k
        BY <2>5, <3>2, <4>1
      <4> QED
        BY <2>6, <4>1, <4>2
    <3> QED
      BY <3>1, <3>2
  <2>8. \A j, k \in 1 .. n - 1 : new[j] = new[k] => j = k
    BY <1>1, <2>3, <2>4, <2>6
  <2> QED
    BY <1>4, <2>1, <2>2, <2>7, <2>8 DEF OrderInv
<1>5. CASE DOMAIN large' = {} /\ order' = <<>>
  <2>1. <<>> \in Seq(Nat) /\ 1 .. Len(<<>>) = {}
    BY SMT
  <2> QED
    BY <1>5, <2>1 DEF OrderInv
<1> QED
  BY <1>2, <1>3, <1>4, <1>5 DEF Relinked

-----------------------------------------------------------------------------
(***************************************************************************)
(* The report lists the client's blocks.                                   *)
(***************************************************************************)
Covers(l) == Fits(live[l.mem]) => live[l.mem] <= l.size

\* L has one line for each block of P, with enough bytes.
Lists(L, P) ==
  /\ L \in Lines
  /\ { L[i].mem : i \in 1 .. Len(L) } = P
  /\ \A i, j \in 1 .. Len(L) : L[i].mem = L[j].mem => i = j
  /\ \A i \in 1 .. Len(L) : Covers(L[i])

LEMMA ListsBoth ==
  ASSUME NEW L, NEW P, Lists(L, P), NEW M, NEW Q, Lists(M, Q), P \cap Q = {}
  PROVE  Lists(L \o M, P \cup Q)
<1> DEFINE N == L \o M
           l == Len(L)
           m == Len(M)
<1>1. L \in Lines /\ M \in Lines /\ l \in Nat /\ m \in Nat
  BY DEF Lists, Lines
<1>2. /\ N \in Lines /\ Len(N) = l + m
      /\ \A i \in 1 .. l + m : N[i] = IF i <= l THEN L[i] ELSE M[i - l]
  BY <1>1, ConcatProperties DEF Lines
<1>3. /\ { L[i].mem : i \in 1 .. l } = P /\ { M[i].mem : i \in 1 .. m } = Q
      /\ \A i, j \in 1 .. l : L[i].mem = L[j].mem => i = j
      /\ \A i, j \in 1 .. m : M[i].mem = M[j].mem => i = j
      /\ \A i \in 1 .. l : Covers(L[i])
      /\ \A i \in 1 .. m : Covers(M[i])
  BY DEF Lists
<1> HIDE DEF N, l, m
<1>4. \A i \in 1 .. l : i \in 1 .. l + m /\ i <= l
  BY <1>1, SMT
<1>5. \A i \in 1 .. m : l + i \in 1 .. l + m /\ ~(l + i <= l) /\ (l + i) - l = i
  BY <1>1, SMT
<1>6. \A i \in 1 .. l + m : IF i <= l THEN i \in 1 .. l ELSE i - l \in 1 .. m
  BY <1>1, SMT
<1>7. /\ \A i \in 1 .. l : N[i] = L[i]
      /\ \A i \in 1 .. m : N[l + i] = M[i]
      /\ \A i \in 1 .. l + m : i <= l => i \in 1 .. l /\ N[i] = L[i]
      /\ \A i \in 1 .. l + m : ~(i <= l) => i - l \in 1 .. m /\ N[i] = M[i - l]
  BY <1>2, <1>4, <1>5, <1>6
<1>8. { N[i].mem : i \in 1 .. l + m } = P \cup Q
  <2>1. \A i \in 1 .. l + m : N[i].mem \in P \cup Q
    BY <1>3, <1>7
  <2>2. \A p \in P : \E i \in 1 .. l + m : N[i].mem = p
    BY <1>3, <1>4, <1>7
  <2>3. \A q \in Q : \E i \in 1 .. l + m : N[i].mem = q
    BY <1>3, <1>5, <1>7
  <2> QED
    BY <2>1, <2>2, <2>3
<1>9. ASSUME NEW i \in 1 .. l + m, NEW j \in 1 .. l + m, N[i].mem = N[j].mem PROVE i = j
  <2>1. CASE i <= l /\ j <= l
    BY <1>3, <1>7, <1>9, <2>1
  <2>2. CASE ~(i <= l) /\ ~(j <= l)
    <3>1. i - l = j - l
      BY <1>3, <1>7, <1>9, <2>2
    <3> QED
      BY <1>1, <3>1, SMT
  <2>3. CASE i <= l /\ ~(j <= l)
    BY <1>3, <1>7, <1>9, <2>3
  <2>4. CASE ~(i <= l) /\ j <= l
    BY <1>3, <1>7, <1>9, <2>4
  <2> QED
    BY <2>1, <2>2, <2>3, <2>4
<1>10. \A i \in 1 .. l + m : Covers(N[i])
  BY <1>3, <1>7
<1> QED
  BY <1>2, <1>8, <1>9, <1>10 DEF Lists, N

LEMMA ListsCount ==
  ASSUME NEW L, NEW P, Lists(L, P)
  PROVE  Len(L) \in Nat /\ DOMAIN L = 1 .. Len(L) /\ Len(L) = Cardinality(P)
<1> DEFINE n == Len(L)
           f == [i \in 1 .. n |-> L[i].mem]
<1>1. n \in Nat /\ DOMAIN L = 1 .. n
  BY DEF Lists, Lines
<1>2. /\ { L[i].mem : i \in 1 .. n } = P
      /\ \A i, j \in 1 .. n : L[i].mem = L[j].mem => i = j
  BY DEF Lists
<1> HIDE DEF n
<1>3. f \in [1 .. n -> P]
  BY <1>2
<1>4. f \in Surjection(1 .. n, P) /\ f \in Injection(1 .. n, P)
  BY <1>2, <1>3 DEF Surjection, Injection, IsInjective
<1>5. IsFiniteSet(1 .. n) /\ Cardinality(1 .. n) = n
  BY <1>1, FS_Interval, SMT
<1>6. Cardinality(P) = n
  BY <1>4, <1>5, FS_Surjection
<1> QED
  BY <1>1, <1>6 DEF n

ZoneMems(z) == { Mem(a) : a \in { b \in InUse(heap) : InPlace(z, b) } }

LEMMA ZoneLists ==
  ASSUME LeakInv, pc = "idle", ~Damaged, NEW z \in ZoneNames
  PROVE  Lists(ShowZone(z).lines, ZoneMems(z))
<1> DEFINE L == ShowZone(z).lines
<1>1. ZoneInv /\ NoTraps
  BY DamageIsTrap DEF LeakInv
<1>2. ListedUpTo(z, PlacedEnd(z), L)
  BY <1>1, ZoneListed
<1>3. \A a \in InUse(heap) : /\ a \in DOMAIN heap /\ a \in Nat /\ Mem(a) \in DOMAIN live
                             /\ ChunkOf(Mem(a)) = a
  <2>1. \A a \in InUse(heap) : a \in DOMAIN heap /\ a \in Nat
    BY <1>1, HeapFacts DEF InUse
  <2>2. \A a \in Nat : ChunkOf(Mem(a)) = a
    BY SMT DEF ChunkOf, Mem, HEADER
  <2> QED
    BY <2>1, <2>2, AllOwned
<1> HIDE DEF L
<1>10. \A m, n : Line(m, n).mem = m /\ Line(m, n).size = n
  BY DEF Line
<1>5. \A i \in 1 .. Len(L) : \E a \in InUse(heap) :
        InPlace(z, a) /\ L[i].mem = Mem(a) /\ L[i].size = heap[a].size
  BY <1>2, <1>10 DEF ListedUpTo
<1>4. /\ L \in Lines /\ Len(L) \in Nat
      /\ \A i \in 1 .. Len(L) : L[i].mem \in Int
  <2>1. \A a \in InUse(heap) : Mem(a) \in Int
    BY <1>3, SMT DEF Mem, HEADER
  <2>2. L \in Lines /\ Len(L) \in Nat
    BY <1>2 DEF ListedUpTo, Lines
  <2> QED
    BY <1>5, <2>1, <2>2
<1>6. \A a \in InUse(heap) : InPlace(z, a) => \E i \in 1 .. Len(L) : L[i].mem = Mem(a)
  BY <1>2 DEF ListedUpTo, InPlace
<1>7. { L[i].mem : i \in 1 .. Len(L) } = ZoneMems(z)
  BY <1>5, <1>6 DEF ZoneMems
<1>8. ASSUME NEW i \in 1 .. Len(L), NEW j \in 1 .. Len(L), L[i].mem = L[j].mem PROVE i = j
  <2>1. i < j \/ j < i \/ i = j
    BY <1>4, SMT
  <2>2. ~(L[i].mem < L[j].mem) /\ ~(L[j].mem < L[i].mem)
    BY <1>4, <1>8, SMT
  <2> QED
    BY <1>2, <2>1, <2>2 DEF ListedUpTo
<1>9. ASSUME NEW i \in 1 .. Len(L) PROVE Covers(L[i])
  <2>1. PICK a \in InUse(heap) : InPlace(z, a) /\ L[i].mem = Mem(a) /\ L[i].size = heap[a].size
    BY <1>5
  <2>2. ~IsLarge(Mem(a))
    BY <1>3, <2>1, ZoneMemIsNotLarge DEF InPlace
  <2> QED
    BY <1>1, <1>3, <2>1, <2>2, InvHolds DEF ZoneBlocksHeld, Covers
<1> QED
  BY <1>4, <1>7, <1>8, <1>9 DEF Lists, L

LEMMA LargeLists ==
  ASSUME LeakInv, pc = "idle", OrderInv
  PROVE  Lists(ShowLargeZone, DOMAIN large)
<1> DEFINE n == Len(order)
           L == ShowLargeZone
<1>1. MemoryOK /\ OwnedLarge /\ DOMAIN large \subseteq DOMAIN live
  BY AllOwned DEF LeakInv, ZoneInv, LargeInv, TypeOK
<1>2. /\ order \in Seq(Nat) /\ n \in Nat /\ DOMAIN order = 1 .. n
      /\ { order[i] : i \in 1 .. n } = DOMAIN large
      /\ \A i, j \in 1 .. n : order[i] = order[j] => i = j
  BY DEF OrderInv
<1> HIDE DEF n
<1>3. \A m \in DOMAIN large : m \in Nat /\ large[m] \in Nat /\ IsLarge(m)
  <2>1. \A m \in DOMAIN large : IsLarge(m) /\ large[m] \in SizeT
    BY <1>1 DEF MemoryOK, IsLarge
  <2> QED
    BY <2>1, LargeShape DEF SizeT
<1>4. L = [i \in 1 .. n |-> Line(order[i], large[order[i]])]
  BY <1>2 DEF ShowLargeZone
<1>5. \A i \in 1 .. n : order[i] \in DOMAIN large
  BY <1>2
<1>6. \A i \in 1 .. n : Line(order[i], large[order[i]]) \in [mem : Int, size : Int]
  BY <1>3, <1>5, SMT DEF Line
<1>7. L \in [1 .. n -> [mem : Int, size : Int]]
  BY <1>4, <1>6
<1>8. L \in Lines /\ Len(L) = n
  <2> DEFINE S == [mem : Int, size : Int]
  <2> HIDE DEF L, S
  <2>1. L \in Seq(S)
    <3>1. L \in [1 .. n -> S]
      BY <1>7 DEF S
    <3> QED
      BY <1>2, <3>1, SeqDef
  <2>2. DOMAIN L = 1 .. n /\ DOMAIN L = 1 .. Len(L) /\ Len(L) \in Nat
    BY <1>7, <2>1, LenProperties
  <2>3. Len(L) = n
    BY <1>2, <2>2, SMT
  <2> QED
    BY <2>1, <2>3 DEF Lines, S
<1>9. \A i \in 1 .. n : L[i].mem = order[i] /\ L[i].size = large[order[i]]
  BY <1>4 DEF Line
<1> HIDE DEF L
<1>10. { L[i].mem : i \in 1 .. n } = DOMAIN large
  <2>1. \A m \in DOMAIN large : \E i \in 1 .. n : L[i].mem = m
    BY <1>2, <1>9
  <2>2. \A i \in 1 .. n : L[i].mem \in DOMAIN large
    BY <1>5, <1>9
  <2> QED
    BY <2>1, <2>2
<1>11. \A i, j \in 1 .. n : L[i].mem = L[j].mem => i = j
  BY <1>2, <1>9
<1>12. \A i \in 1 .. n : Covers(L[i])
  BY <1>1, <1>3, <1>5, <1>9 DEF Covers, OwnedLarge, LargeHeld
<1> QED
  BY <1>8, <1>10, <1>11, <1>12 DEF Lists, L

\* What the client has, in zones and in mappings of its own.
LEMMA BlocksOfClient ==
  ASSUME LeakInv, pc = "idle", ~Damaged
  PROVE  /\ ZoneMems("tiny") \cup ZoneMems("small") \cup DOMAIN large
              = { p \in DOMAIN live : ~(IsLarge(p) /\ ToBase(p) \in lost) }
         /\ ZoneMems("tiny") \cap ZoneMems("small") = {}
         /\ (ZoneMems("tiny") \cup ZoneMems("small")) \cap DOMAIN large = {}
<1>1. ZoneInv /\ NoTraps /\ MemoryOK /\ LostUnlisted /\ MappingsKnown
  BY DamageIsTrap DEF LeakInv, ZoneInv, LargeInv, TypeOK
<1>2. DOMAIN large \subseteq DOMAIN live /\ \A a \in InUse(heap) : Mem(a) \in DOMAIN live
  BY AllOwned
<1>3. \A a \in InUse(heap) : a \in DOMAIN heap /\ a \in Nat /\ ChunkOf(Mem(a)) = a
  <2>1. \A a \in Nat : ChunkOf(Mem(a)) = a
    BY SMT DEF ChunkOf, Mem, HEADER
  <2> QED
    BY <1>1, <2>1, HeapFacts DEF InUse
<1>4. \A z \in ZoneNames : \A p \in ZoneMems(z) :
        p \in DOMAIN live /\ ~IsLarge(p) /\ ChunkOf(p) \in InUse(heap) /\ InPlace(z, ChunkOf(p))
  BY <1>2, <1>3, ZoneMemIsNotLarge DEF ZoneMems, InPlace
<1>5. \A m \in DOMAIN large : IsLarge(m)
  BY <1>1 DEF MemoryOK, IsLarge
<1>6. ASSUME NEW p \in DOMAIN live, ~(IsLarge(p) /\ ToBase(p) \in lost)
      PROVE  p \in DOMAIN large \/ \E z \in ZoneNames : p \in ZoneMems(z)
  <2>1. CASE IsLarge(p)
    <3>1. ToBase(p) \in DOMAIN maps
      BY <1>1, <2>1 DEF ZoneInv, LargeInv, OwnedLarge, LargeHeld
    <3>2. ToBase(p) \in LargeBases /\ p = LargeChunk2Mem(ToBase(p))
      BY <2>1, LargeShape
    <3>3. PICK m \in DOMAIN large : ToBase(p) = ToBase(m)
      BY <1>1, <1>6, <2>1, <3>1, <3>2 DEF MappingsKnown
    <3>4. m = LargeChunk2Mem(ToBase(m))
      BY <1>5, LargeShape
    <3> QED
      BY <3>2, <3>3, <3>4
  <2>2. CASE ~IsLarge(p)
    <3>1. ZoneHeld(heap, p, live[p]) /\ p \in Nat
      BY <1>1, <2>2 DEF ZoneInv, OwnedZone, LargeInv, TypeOK, CallOK
    <3>2. ChunkOf(p) \in InUse(heap)
      BY <1>1, <3>1 DEF ZoneHeld, NoTraps, InUse
    <3>3. PICK z \in Mapped : Seated(heap, z, ChunkOf(p))
      BY <1>1, <1>3, <3>2, HeapFacts DEF Tiled
    <3>4. Mem(ChunkOf(p)) = p
      BY <3>1, SMT DEF Mem, ChunkOf, HEADER
    <3> QED
      BY <3>2, <3>3, <3>4 DEF ZoneMems, Seated, Mapped
  <2> QED
    BY <2>1, <2>2
<1>7. "tiny" \in ZoneNames /\ "small" \in ZoneNames /\ "tiny" # "small"
      /\ \A z \in ZoneNames : z = "tiny" \/ z = "small"
  BY DEF ZoneNames
<1>8. ZoneMems("tiny") \cap ZoneMems("small") = {}
  BY <1>3, <1>4, <1>7, OneZone
<1> QED
  BY <1>1, <1>2, <1>4, <1>5, <1>6, <1>7, <1>8 DEF LostUnlisted

LEMMA Reported ==
  ASSUME LeakInv, OrderInv, pc = "idle", ~Damaged
  PROVE  Lists(Report, { p \in DOMAIN live : ~(IsLarge(p) /\ ToBase(p) \in lost) })
<1> DEFINE T == ShowZone("tiny").lines
           S == ShowZone("small").lines
<1>1. Lists(T, ZoneMems("tiny")) /\ Lists(S, ZoneMems("small"))
  BY ZoneLists DEF ZoneNames
<1>2. Lists(T \o S, ZoneMems("tiny") \cup ZoneMems("small"))
  <2> HIDE DEF T, S
  <2> QED
    BY <1>1, BlocksOfClient, ListsBoth
<1>3. Lists(ShowLargeZone, DOMAIN large)
  BY LargeLists
<1>4. Lists((T \o S) \o ShowLargeZone, ZoneMems("tiny") \cup ZoneMems("small") \cup DOMAIN large)
  <2> HIDE DEF T, S
  <2> QED
    BY <1>2, <1>3, BlocksOfClient, ListsBoth
<1>5. Report = (T \o S) \o ShowLargeZone
  BY DEF Report
<1> HIDE DEF T, S
<1> QED
  BY <1>4, <1>5, BlocksOfClient

LEMMA InvReport == LeakInv /\ OrderInv => ReportIsExact
<1> SUFFICES ASSUME LeakInv, OrderInv, pc = "idle", ~Damaged
             PROVE  /\ \A z \in ZoneNames :
                         LET lines == ShowZone(z).lines
                         IN  ShowEnds(z) /\ \A i \in 2 .. Len(lines) : lines[i - 1].mem < lines[i].mem
                    /\ Shown = { p \in DOMAIN live : ~(IsLarge(p) /\ ToBase(p) \in lost) }
                    /\ Len(Report) = Cardinality(Shown)
                    /\ \A i \in DOMAIN Report :
                         Fits(live[Report[i].mem]) => live[Report[i].mem] <= Report[i].size
  BY DEF ReportIsExact, Asked
<1>1. ASSUME NEW z \in ZoneNames
      PROVE  /\ ShowEnds(z)
             /\ \A i \in 2 .. Len(ShowZone(z).lines) :
                  ShowZone(z).lines[i - 1].mem < ShowZone(z).lines[i].mem
  <2> DEFINE L == ShowZone(z).lines
  <2>1. ListedUpTo(z, PlacedEnd(z), L) /\ ShowEnds(z)
    BY ZoneListed, DamageIsTrap DEF LeakInv
  <2> HIDE DEF L
  <2>2. Len(L) \in Nat
    BY <2>1 DEF ListedUpTo, Lines
  <2>3. \A i \in 2 .. Len(L) : i - 1 \in 1 .. Len(L) /\ i \in 1 .. Len(L) /\ i - 1 < i
    BY <2>2, SMT
  <2>4. \A i \in 2 .. Len(L) : L[i - 1].mem < L[i].mem
    BY <2>1, <2>3 DEF ListedUpTo
  <2> QED
    BY <2>1, <2>4 DEF L
<1> DEFINE P == { p \in DOMAIN live : ~(IsLarge(p) /\ ToBase(p) \in lost) }
<1>2. Lists(Report, P)
  BY Reported
<1> HIDE DEF P
<1>3. DOMAIN Report = 1 .. Len(Report) /\ Len(Report) = Cardinality(P)
  BY <1>2, ListsCount
<1>4. Shown = P
  BY <1>2, <1>3 DEF Shown, Lists
<1>5. \A i \in DOMAIN Report : Covers(Report[i])
  BY <1>2, <1>3 DEF Lists
<1> QED
  BY <1>1, <1>3, <1>4, <1>5 DEF P, Covers

LEMMA ReportAlways == SSpec /\ DamageLasts => [](LeakInv /\ OrderInv)
<1>1. SInit /\ DamageLasts => LeakInv /\ OrderInv
  <2>1. SInit => OrderInv
    <3>1. <<>> \in Seq(Nat) /\ 1 .. Len(<<>>) = {}
      BY SMT
    <3> QED
      BY <3>1 DEF SInit, Init, OrderInv
  <2> QED
    BY <2>1, LeakInit DEF SInit
<1>2. ASSUME LeakInv, OrderInv, [SNext]_svars PROVE LeakInv' /\ OrderInv'
  <2>5. [Next]_vars
    BY <1>2 DEF SNext, svars, vars
  <2>1. LeakInv'
    BY <1>2, <2>5, LeakStep
  <2>2. MemoryOK'
    BY <2>1 DEF LeakInv, ZoneInv, LargeInv, TypeOK
  <2>3. CASE SNext
    BY <1>2, <2>1, <2>2, <2>3, OrderStep DEF SNext
  <2>4. CASE UNCHANGED svars
    BY <1>2, <2>1, <2>4 DEF svars, vars, OrderInv
  <2> QED
    BY <1>2, <2>1, <2>3, <2>4
<1> QED
  BY <1>1, <1>2, PTL DEF SSpec

\* The report of show_alloc_mem is the client's list of blocks: each once, with
\* enough bytes, in a zone by ascending address, and none it does not have.
THEOREM ReportExact == SSpec /\ DamageLasts => []ReportIsExact
  BY ReportAlways, InvReport, PTL
=============================================================================
