----------------------------- MODULE ZoneProofs -----------------------------
(***************************************************************************)
(* The zones are sound for every client until an exact fit leaves a trap   *)
(* on a chain, and from then on the zone with the trap is frozen behind    *)
(* it: no block is lost, moved or given out twice because of it, and       *)
(* malloc never comes to a choice again.                                   *)
(*                                                                         *)
(* Nothing leaks: as long as a zone is sound each of its chunks in use     *)
(* belongs to the client or to the running realloc, and every mapping of a *)
(* large chunk is on the list or has been lost to a failing munmap or to   *)
(* the constructor.                                                        *)
(*                                                                         *)
(* And for sizes that survive ftMalloc's additions the allocator           *)
(* implements its abstract specification, on damaged zones too.            *)
(***************************************************************************)
EXTENDS FtMallocProofs

Mapped == { z \in ZoneNames : base[z] # NULL }

\* A chunk that holds n bytes from a + 16 on reaches into no later header and
\* not beyond its zone.
Room(h, a, n) ==
  Fits(n) =>
    /\ \A b \in DOMAIN h : a < b => a + 16 + n <= b
    /\ \A z \in ZoneNames : InPlace(z, a) => a + 16 + n <= PlacedEnd(z)

\* Block p, of n bytes, has a chunk of h that holds it, and that is in use
\* unless a trap has been written over its header.
ZoneHeld(h, p, n) ==
  /\ ChunkOf(p) \in DOMAIN h
  /\ ~Trap(h, ChunkOf(p)) => ~h[ChunkOf(p)].free
  /\ Room(h, ChunkOf(p), n)

OwnedZone == \A p \in DOMAIN live : ~IsLarge(p) => ZoneHeld(heap, p, live[p])

NewBlock ==
  pc = "copy" =>
    /\ call.ptr # NULL /\ call.new # NULL /\ call.new \notin DOMAIN live
    /\ IsLarge(call.new) => call.new \in DOMAIN large
    /\ ~IsLarge(call.new) => ZoneHeld(heap, call.new, call.size)

\* The block that is being reallocated has been found.
OldListed == pc \in Running /\ IsLarge(call.ptr) => call.ptr \in DOMAIN large

SmallRequest == pc \in {"defrag", "place"} => call.size <= SmallMax

NothingMapped == phase = "loading" => \A z \in ZoneNames : base[z] = NULL

\* Where the small zone starts at the end of the tiny one, a chunk of 0 bytes
\* at that end can make consequtiveFreeChunksSize return 0 for a trap in the
\* small zone's first header, and a resize then writes over the trap.
DamageLasts == ~ExactFits \/ PlacedEnd("tiny") # SmallBase

\* Only an exact fit writes a trap.
NoTraps == \A a \in DOMAIN heap : ~Trap(heap, a)
Sound == ExactFits \/ NoTraps

\* Defrag has walked the zone up to e: it has met no trap there.
Walked(z, e) == \A b \in DOMAIN heap : InPlace(z, b) /\ b < e => ~Trap(heap, b)
Defragging ==
  /\ Initialised
  /\ \/ cur.at \in DOMAIN heap /\ InPlace(cur.zone, cur.at)
     \/ cur.at = PlacedEnd(cur.zone)
  /\ Walked(cur.zone, cur.at)
  /\ cur.zone = "small" => Walked("tiny", PlacedEnd("tiny"))
DefragInv == (pc = "defrag" => Defragging) /\ (pc = "place" => NoTraps)

ZoneInv ==
  /\ DamageLasts
  /\ LargeInv
  /\ Tiled(heap, Mapped)
  /\ OwnedZone
  /\ NewBlock
  /\ OldListed
  /\ SmallRequest
  /\ NothingMapped
  /\ Sound
  /\ DefragInv

-----------------------------------------------------------------------------
\* In a chunk that is no trap, room is a matter of its size.
LEMMA RoomIsSize ==
  ASSUME NEW h, NEW Z \in SUBSET ZoneNames, Tiled(h, Z), NEW a \in DOMAIN h, ~Trap(h, a),
         NEW n \in SizeT
  PROVE  Room(h, a, n) <=> (Fits(n) => n <= h[a].size)
<1>1. PICK z \in Z : Seated(h, z, a)
  BY DEF Tiled
<1>2. z \in ZoneNames /\ InPlace(z, a) /\ ChunkEnd(h, a) <= PlacedEnd(z)
      /\ ChunkEnd(h, a) \in DOMAIN h \cup {PlacedEnd(z)}
  BY <1>1 DEF Seated
<1>3. a \in Nat /\ h[a].size \in Nat /\ ChunkEnd(h, a) = a + 16 + h[a].size
      /\ ChunkEnd(h, a) \in Nat /\ a < ChunkEnd(h, a) /\ n \in Nat
  BY TiledTypes DEF Tiled, ChunkEnd, SizeT
<1>4. PlacedEnd(z) \in Nat
  BY <1>2, ZoneLayout, SMT
<1>5. ASSUME Fits(n), Room(h, a, n) PROVE n <= h[a].size
  <2>1. a + 16 + n <= ChunkEnd(h, a)
    BY <1>2, <1>3, <1>5 DEF Room
  <2> QED
    BY <1>3, <2>1, SMT
<1>6. ASSUME Fits(n), n <= h[a].size PROVE Room(h, a, n)
  <2>1. a + 16 + n \in Nat /\ a + 16 + n <= ChunkEnd(h, a)
    BY <1>3, <1>6, SMT
  <2>2. ASSUME NEW b \in DOMAIN h, a < b PROVE a + 16 + n <= b
    <3>1. ChunkEnd(h, a) <= b /\ b \in Nat
      BY <2>2 DEF Tiled, HeaderMap
    <3> QED
      BY <1>3, <2>1, <3>1, SMT
  <2>3. ASSUME NEW y \in ZoneNames, InPlace(y, a) PROVE a + 16 + n <= PlacedEnd(y)
    <3>1. y = z
      BY <1>2, <1>3, <2>3, OneZone
    <3> QED
      BY <1>2, <1>3, <1>4, <2>1, <3>1, SMT
  <2> QED
    BY <2>2, <2>3 DEF Room
<1>7. ~Fits(n) => Room(h, a, n)
  BY DEF Room
<1> QED
  BY <1>5, <1>6, <1>7

\* A chunk that stays in use still holds its block, if no header is written
\* into it.
LEMMA HeldOn ==
  ASSUME NEW h, NEW g, DOMAIN g \subseteq DOMAIN h, NEW p, NEW n, ZoneHeld(h, p, n),
         ChunkOf(p) \in DOMAIN g, ~Trap(g, ChunkOf(p)) => ~g[ChunkOf(p)].free
  PROVE  ZoneHeld(g, p, n)
  BY DEF ZoneHeld, Room

LEMMA Pointers ==
  /\ \A p \in Nat : ChunkOf(p) \in Int /\ Mem(p) \in Nat /\ ChunkOf(Mem(p)) = p
  /\ \A p, q \in Nat : ChunkOf(p) = ChunkOf(q) => p = q
  /\ \A p \in Nat : p = ChunkOf(p) + 16
  BY SMT DEF ChunkOf, Mem, HEADER

LEMMA ZoneBounds ==
  ASSUME MemoryOK, NEW z \in Mapped
  PROVE  /\ z \in ZoneNames /\ base[z] = PlacedAt(z)
         /\ ToZoneEnd(z) = PlacedEnd(z) /\ ToFirstChunk(z) = PlacedAt(z)
         /\ PlacedAt(z) \in Nat /\ PlacedEnd(z) \in Nat /\ PlacedAt(z) < PlacedEnd(z)
<1>1. z \in ZoneNames /\ base[z] # NULL /\ base[z] = PlacedAt(z)
  BY DEF Mapped, MemoryOK
<1>2. /\ PlacedAt(z) \in Nat /\ ZoneSize(z) \in Nat /\ ZoneSize(z) >= 32
      /\ PlacedEnd(z) = PlacedAt(z) + ZoneSize(z)
      /\ DistanceToNextAlignment(PlacedAt(z)) = 0
  BY <1>1, ZoneLayout
<1>3. ToFirstChunk(z) = PlacedAt(z) /\ ToZoneEnd(z) = PlacedEnd(z)
  BY <1>1, <1>2, SMT DEF ToFirstChunk, ToZoneEnd
<1> QED
  BY <1>1, <1>2, <1>3, SMT

LEMMA ChunkPlace ==
  ASSUME MemoryOK, Tiled(heap, Mapped), NEW z \in ZoneNames, NEW a \in Chunks(z)
  PROVE  /\ z \in Mapped /\ a \in DOMAIN heap /\ Seated(heap, z, a)
         /\ ToZoneEnd(z) = PlacedEnd(z) /\ ToFirstChunk(z) = PlacedAt(z)
<1>1. a \in DOMAIN heap /\ a \in Nat /\ InPlace(z, a) /\ base[z] # NULL
  BY ChunksInPlace DEF InPlace
<1>2. PICK y \in Mapped : Seated(heap, y, a)
  BY <1>1 DEF Tiled
<1>3. y = z /\ z \in Mapped
  BY <1>1, <1>2, OneZone DEF Seated, Mapped
<1> QED
  BY <1>1, <1>2, <1>3, ZoneBounds

\* What follows a zone directly is the first header of the next one.
LEMMA AcrossZones ==
  ASSUME NEW y \in ZoneNames, NEW z \in ZoneNames, InPlace(z, PlacedEnd(y))
  PROVE  PlacedEnd(y) = PlacedAt(z) /\ y # z
<1>1. (y = "tiny" \/ y = "small") /\ (z = "tiny" \/ z = "small")
  BY DEF ZoneNames
<1> QED
  BY <1>1, LayoutAssumption, SMT DEF InPlace, PlacedAt, PlacedEnd, ZoneSize

LEMMA TrapInZone ==
  ASSUME MemoryOK, Tiled(heap, Mapped), NEW a \in DOMAIN heap, Trap(heap, a),
         NEW z \in Mapped, InPlace(z, a)
  PROVE  ChainEndless(z)
<1>1. /\ ToFirstChunk(z) \in Nat /\ ToZoneEnd(z) \in Nat
      /\ ToFirstChunk(z) <= a /\ a < ToZoneEnd(z)
  BY ZoneBounds DEF InPlace
<1>2. Mapped \in SUBSET ZoneNames
  BY DEF Mapped
<1>3. \E b \in Walk(heap, ToFirstChunk(z), ToZoneEnd(z)) : Loops(heap, b)
  BY <1>1, <1>2, TrapEndless
<1> QED
  BY <1>3 DEF ChainEndless, Endless

\* consequtiveFreeChunksSize never returns for a trap.
LEMMA NoRunAtTrap ==
  ASSUME MemoryOK, Tiled(heap, Mapped), DamageLasts, Sound,
         NEW s \in DOMAIN heap, Trap(heap, s), NEW t, ConsecutiveFree(s, t)
  PROVE  FALSE
<1>1. PICK z \in Mapped : Seated(heap, z, s)
  BY DEF Tiled
<1>2. z \in ZoneNames /\ InPlace(z, s) /\ s \in Nat /\ Mapped \in SUBSET ZoneNames
  BY <1>1 DEF Seated, Mapped, MemoryOK
<1>3. ChainEndless(z) /\ heap[s].free /\ Loops(heap, s)
  BY <1>1, <1>2, TrapInZone, TiledNext DEF Tiled
<1>4. CASE InNoZone(s)
  BY <1>2, <1>3, <1>4 DEF InNoZone
<1>5. ASSUME NEW y \in ZoneNames, FreeRunEndsAt(heap, s, ToZoneEnd(y), t), InZone(s, y)
      PROVE  FALSE
  <2>1. y \in Mapped /\ ToZoneEnd(y) = PlacedEnd(y) /\ PlacedEnd(y) \in Nat
    BY <1>5, ChunkPlace, ZoneBounds DEF InZone
  <2>2. s <= t /\ t <= PlacedEnd(y) /\ t \in DOMAIN heap \cup {PlacedEnd(y)}
        /\ (t < PlacedEnd(y) => ~heap[t].free) /\ ~(s < t)
    BY <1>2, <1>3, <1>5, <2>1, SMT DEF FreeRunEndsAt
  <2>3. t = s
    BY <1>2, <2>1, <2>2, SMT DEF MemoryOK
  <2>4. s = PlacedEnd(y)
    BY <1>2, <1>3, <2>1, <2>2, <2>3, SMT
  <2>5. PlacedEnd(y) = PlacedAt(z) /\ y # z
    BY <1>2, <2>4, AcrossZones
  <2>6. CASE y = "small"
    <3>1. z = "tiny"
      BY <1>2, <2>5, <2>6 DEF ZoneNames
    <3> QED
      BY <1>3, <1>5, <2>6, <3>1 DEF InZone
  <2>7. CASE y = "tiny"
    <3>1. z = "small"
      BY <1>2, <2>5, <2>7 DEF ZoneNames
    <3>2. PlacedEnd("tiny") = SmallBase
      BY <2>5, <2>7, <3>1 DEF PlacedAt
    <3>3. ~ExactFits
      BY <3>2 DEF DamageLasts
    <3> QED
      BY <3>3 DEF Sound, NoTraps
  <2> QED
    BY <2>6, <2>7 DEF ZoneNames
<1> QED
  BY <1>4, <1>5 DEF ConsecutiveFree

\* The chunks expandChunk may swallow are whole free chunks of the same zone.
LEMMA FreeRun ==
  ASSUME MemoryOK, Tiled(heap, Mapped), DamageLasts, Sound, NEW a \in DOMAIN heap, NEW t,
         ConsecutiveFree(ToNext(heap, a), t)
  PROVE  /\ ~Trap(heap, a)
         /\ \E z \in Mapped :
              /\ RunTo(heap, z, a, t)
              /\ \A b \in DOMAIN heap : ToNext(heap, a) <= b /\ b < t => heap[b].free
<1> DEFINE s == ChunkEnd(heap, a)
<1>1. PICK z \in Mapped : Seated(heap, z, a)
  BY DEF Tiled
<1>2. Mapped \in SUBSET ZoneNames /\ z \in ZoneNames
  BY DEF Mapped
<1>3. ~Trap(heap, a)
  <2>1. Trap(heap, a) => ToNext(heap, a) = a
    BY <1>2, TiledNext
  <2> QED
    BY <2>1, NoRunAtTrap
<1>4. ToNext(heap, a) = s
  BY <1>2, <1>3, TiledNext
<1>5. \A b \in DOMAIN heap : b \in Nat /\ ChunkEnd(heap, b) \in Nat /\ b < ChunkEnd(heap, b)
  BY TiledTypes DEF Tiled
<1>6. s \in Nat /\ s <= PlacedEnd(z) /\ s \in DOMAIN heap \cup {PlacedEnd(z)}
  BY <1>1, <1>3, <1>5 DEF Seated
<1>7. CASE t = s
  <2>1. \A b \in DOMAIN heap : ~(s <= b /\ b < t)
    BY <1>5, <1>6, <1>7, SMT
  <2>2. RunTo(heap, z, a, t)
    BY <1>1, <1>3, <1>6, <1>7, <2>1, SMT DEF RunTo
  <2> QED
    BY <1>3, <1>4, <2>1, <2>2
<1>8. ASSUME NEW y \in ZoneNames, FreeRunEndsAt(heap, s, ToZoneEnd(y), t), InZone(s, y)
      PROVE  /\ RunTo(heap, z, a, t)
             /\ \A b \in DOMAIN heap : s <= b /\ b < t => heap[b].free
  <2>1. ChunkOf(s) \in Chunks(y) /\ ChunkOf(s) \in DOMAIN heap
    BY <1>8 DEF InZone
  <2>2. Seated(heap, y, ChunkOf(s)) /\ ToZoneEnd(y) = PlacedEnd(y)
    BY <2>1, ChunkPlace
  <2>3. ChunkOf(s) = s - 16 /\ s = a + 16 + heap[a].size /\ heap[a].size \in Nat /\ a \in Nat
    BY TiledTypes DEF ChunkOf, HEADER, ChunkEnd, Tiled
  <2>4. ~(a < ChunkOf(s))
    <3>1. a < ChunkOf(s) => s <= ChunkOf(s)
      BY <1>3, <2>1 DEF Tiled
    <3> QED
      BY <1>6, <2>3, <3>1, SMT
  <2>5. ChunkOf(s) = a
    BY <2>3, <2>4, SMT
  <2>6. y = z
    BY <1>1, <1>2, <1>5, <2>2, <2>5, OneZone DEF Seated
  <2>7. /\ t \in DOMAIN heap \cup {PlacedEnd(z)} /\ s <= t /\ t <= PlacedEnd(z)
        /\ \A b \in DOMAIN heap : s <= b /\ b < t => heap[b].free /\ ~Loops(heap, b)
    BY <1>8, <2>2, <2>6 DEF FreeRunEndsAt
  <2>8. \A b \in DOMAIN heap : s <= b /\ b < t => ~Trap(heap, b)
    BY <1>2, <2>7, TiledNext
  <2> QED
    BY <1>1, <1>3, <2>7, <2>8 DEF RunTo
<1>9. t = s \/ \E y \in ZoneNames : FreeRunEndsAt(heap, s, ToZoneEnd(y), t) /\ InZone(s, y)
  BY <1>4 DEF ConsecutiveFree
<1> QED
  BY <1>3, <1>4, <1>7, <1>8, <1>9

\* expandChunk keeps the zones tiled, every block of the client held and every
\* trap where it is.
LEMMA GrowChunk ==
  ASSUME MemoryOK, Tiled(heap, Mapped), DamageLasts, Sound, NEW a \in DOMAIN heap, NEW t,
         ConsecutiveFree(ToNext(heap, a), t)
  PROVE  /\ Tiled(Expanded(a, t), Mapped)
         /\ a \in DOMAIN Expanded(a, t)
         /\ ~Trap(heap, a) /\ ~Trap(Expanded(a, t), a)
         /\ Expanded(a, t)[a].free = heap[a].free
         /\ Expanded(a, t)[a].size = Wrap(t - ToNext(heap, a) + heap[a].size)
         /\ \A p, n : ZoneHeld(heap, p, n) => ZoneHeld(Expanded(a, t), p, n)
         /\ \A b \in DOMAIN Expanded(a, t) : b \in DOMAIN heap /\ (Trap(Expanded(a, t), b) => Trap(heap, b))
         /\ \A b \in DOMAIN heap : Trap(heap, b) => b \in DOMAIN Expanded(a, t) /\ Trap(Expanded(a, t), b)
         /\ ToNext(Expanded(a, t), a) = t
         /\ \E z \in Mapped : InPlace(z, a) /\ t <= PlacedEnd(z) /\ a < t
                              /\ t \in DOMAIN Expanded(a, t) \cup {PlacedEnd(z)}
<1> DEFINE g == Expanded(a, t)
           s == ChunkEnd(heap, a)
<1>1. PICK z \in Mapped : /\ RunTo(heap, z, a, t)
                          /\ \A b \in DOMAIN heap : ToNext(heap, a) <= b /\ b < t => heap[b].free
  BY FreeRun
<1>2. Mapped \in SUBSET ZoneNames /\ z \in ZoneNames /\ ~Trap(heap, a)
  BY FreeRun DEF Mapped
<1>3. ToNext(heap, a) = s
  BY <1>2, TiledNext
<1>4. /\ Tiled(g, Mapped)
      /\ DOMAIN g = { c \in DOMAIN heap : c = a \/ ~(s <= c /\ c < t) }
      /\ ChunkEnd(g, a) = t
      /\ ~Trap(g, a) /\ \A b \in DOMAIN heap : Trap(heap, b) => b \in DOMAIN g
      /\ g[a].size = heap[a].size + (t - s)
      /\ g[a].free = heap[a].free
      /\ \A b \in DOMAIN g \ {a} : g[b] = heap[b]
  BY <1>1, <1>2, ExpandTiled DEF Expanded, g
<1> HIDE DEF g
<1>5. a \in DOMAIN g
  BY <1>4
<1>6. /\ g[a].size \in Nat /\ g[a].size < SizeMod /\ heap[a].size \in Nat
      /\ s \in Nat /\ ChunkEnd(g, a) \in Nat /\ a \in Nat /\ a < ChunkEnd(g, a)
  BY <1>4, <1>5, TiledTypes DEF Tiled
<1>7. t \in Nat /\ s <= t
  BY <1>1, <1>4, <1>6 DEF RunTo
<1>8. t - s + heap[a].size = g[a].size
  BY <1>4, <1>6, <1>7, SMT
<1>9. Wrap(g[a].size) = g[a].size
  BY <1>6, LayoutAssumption, SMT DEF Wrap
<1>10. ASSUME NEW p, NEW n, ZoneHeld(heap, p, n) PROVE ZoneHeld(g, p, n)
  <2>1. ChunkOf(p) \in DOMAIN heap /\ (~Trap(heap, ChunkOf(p)) => ~heap[ChunkOf(p)].free)
    BY <1>10 DEF ZoneHeld
  <2>2. ChunkOf(p) \in DOMAIN g
    BY <1>1, <1>3, <1>4, <2>1
  <2>3. ~Trap(g, ChunkOf(p)) => ~g[ChunkOf(p)].free
    BY <1>2, <1>4, <2>1, <2>2 DEF Trap
  <2>4. DOMAIN g \subseteq DOMAIN heap
    BY <1>4
  <2> QED
    BY <1>10, <2>2, <2>3, <2>4, HeldOn
<1>11. \A b \in DOMAIN g \ {a} : Trap(g, b) <=> Trap(heap, b)
  BY <1>4 DEF Trap
<1>12. ToNext(g, a) = t
  BY <1>2, <1>4, <1>5, TiledNext
<1>13. InPlace(z, a) /\ t <= PlacedEnd(z) /\ t \in DOMAIN heap \cup {PlacedEnd(z)}
  BY <1>1 DEF RunTo, Seated
<1>14. t \in DOMAIN g \cup {PlacedEnd(z)} /\ a < t
  BY <1>4, <1>6, <1>7, <1>13, SMT
<1> QED
  BY <1>2, <1>3, <1>4, <1>5, <1>8, <1>9, <1>10, <1>11, <1>12, <1>13, <1>14 DEF g

\* What fits is not cut by rounding up.
LEMMA AlignUpHolds == \A n \in SizeT : Fits(n) => n <= AlignUp(n)
<1> SUFFICES ASSUME NEW n \in SizeT, Fits(n) PROVE n <= AlignUp(n)
  OBVIOUS
<1>1. n \in Nat /\ n + 15 < SizeMod
  BY LayoutAssumption, SMT DEF SizeT, Fits, ALIGNMENT, LARGE_HEADER
<1>2. AlignUp(n) = (n + 15) - ((n + 15) % 16)
  BY <1>1, LayoutAssumption, SMT DEF AlignUp, Wrap, ALIGNMENT
<1> QED
  BY <1>1, <1>2, SMT

\* splitChunk cuts off the free rest of a chunk that belongs to no other block.
LEMMA CutChunk ==
  ASSUME NEW h, NEW Z \in SUBSET ZoneNames, Tiled(h, Z), NEW a \in DOMAIN h, ~Trap(h, a),
         NEW goal \in Nat, goal % 16 = 0, goal + 16 <= h[a].size,
         NEW g, g = SplitChunk(h, a, goal)
  PROVE  /\ Tiled(g, Z)
         /\ a \in DOMAIN g
         /\ g[a].size = goal
         /\ g[a].free = h[a].free
         /\ \E z \in Z : InPlace(z, a) /\ RestOf(a, goal) < PlacedEnd(z) /\ a <= RestOf(a, goal)
         /\ \A p, n : n \in SizeT /\ ZoneHeld(h, p, n) /\ ChunkOf(p) # a => ZoneHeld(g, p, n)
         /\ \A b \in DOMAIN g : Trap(g, b) <=> b \in DOMAIN h /\ Trap(h, b)
         /\ DOMAIN h \subseteq DOMAIN g
<1> DEFINE r == RestOf(a, goal)
<1>1. /\ Tiled(g, Z) /\ DOMAIN g = DOMAIN h \cup {r}
      /\ r \notin DOMAIN h /\ r < ChunkEnd(h, a)
      /\ g[a].size = goal /\ g[a].free = h[a].free
      /\ \A b \in DOMAIN h \ {a} : g[b] = h[b]
      /\ \A b \in DOMAIN g : Trap(g, b) <=> b \in DOMAIN h /\ Trap(h, b)
  BY SplitTiled DEF SplitInto
<1>2. PICK z \in Z : Seated(h, z, a)
  BY DEF Tiled
<1>3. /\ a \in Nat /\ ChunkEnd(h, a) \in Nat /\ r \in Nat
      /\ a <= r /\ PlacedEnd(z) \in Nat
  <2>1. a \in Nat /\ ChunkEnd(h, a) \in Nat
    BY TiledTypes DEF Tiled
  <2>2. PlacedEnd(z) \in Nat
    BY ZoneLayout, SMT
  <2> QED
    BY <2>1, <2>2, SMT DEF RestOf, HEADER
<1> HIDE DEF r
<1>4. InPlace(z, a) /\ r < PlacedEnd(z)
  <2>1. InPlace(z, a) /\ ChunkEnd(h, a) <= PlacedEnd(z)
    BY <1>2 DEF Seated
  <2> QED
    BY <1>1, <1>3, <2>1, SMT
<1>5. ASSUME NEW p, NEW n \in SizeT, ZoneHeld(h, p, n), ChunkOf(p) # a PROVE ZoneHeld(g, p, n)
  <2> DEFINE c == ChunkOf(p)
  <2>1. /\ c \in DOMAIN h /\ c \in DOMAIN g /\ c \in Nat /\ n \in Nat /\ g[c] = h[c]
        /\ (~Trap(h, c) => ~h[c].free) /\ Room(h, c, n) /\ c # a
    BY <1>1, <1>5, TiledTypes DEF ZoneHeld, SizeT, Tiled
  <2> HIDE DEF c
  <2>2. ASSUME Fits(n), c < r PROVE c + 16 + n <= r
    <3>1. ~(a < c)
      <4>1. a < c => ChunkEnd(h, a) <= c
        BY <2>1 DEF Tiled
      <4> QED
        BY <1>1, <1>3, <2>1, <2>2, <4>1, SMT
    <3>2. c < a
      BY <1>3, <2>1, <3>1, SMT
    <3>3. c + 16 + n <= a
      BY <2>1, <2>2, <3>2 DEF Room
    <3> QED
      BY <1>3, <2>1, <3>3, SMT
  <2>3. Room(g, c, n)
    BY <1>1, <2>1, <2>2 DEF Room
  <2>4. ~Trap(g, c) => ~g[c].free
    BY <2>1 DEF Trap
  <2> QED
    BY <2>1, <2>3, <2>4 DEF ZoneHeld, c
<1> QED
  BY <1>1, <1>3, <1>4, <1>5 DEF r

\* splitChunk with nothing left over: the blocks stay where they are, and the
\* chunk behind, if there is one, can no longer be found.
LEMMA ExactChunk ==
  ASSUME NEW h, NEW Z \in SUBSET ZoneNames, Tiled(h, Z), NEW a \in DOMAIN h, ~Trap(h, a),
         NEW r, r = RestOf(a, h[a].size), r \in DOMAIN h,
         NEW g, g = SplitChunk(h, a, h[a].size)
  PROVE  /\ Tiled(g, Z) /\ DOMAIN g = DOMAIN h /\ g[a] = h[a]
         /\ \A p, n : ZoneHeld(h, p, n) => ZoneHeld(g, p, n)
         /\ \A b \in DOMAIN h : Trap(h, b) => Trap(g, b)
<1>1. /\ Tiled(g, Z) /\ DOMAIN g = DOMAIN h /\ Trap(g, r) /\ r = ChunkEnd(h, a)
      /\ \A b \in DOMAIN h \ {r} : g[b] = h[b]
  BY SplitExact
<1>2. a # r
  BY <1>1, TiledTypes, SMT DEF Tiled
<1>3. \A b \in DOMAIN h : Trap(h, b) => Trap(g, b)
  BY <1>1 DEF Trap
<1>4. ASSUME NEW p, NEW n, ZoneHeld(h, p, n) PROVE ZoneHeld(g, p, n)
  <2>1. ChunkOf(p) \in DOMAIN g /\ (~Trap(g, ChunkOf(p)) => ~g[ChunkOf(p)].free)
    BY <1>1, <1>4 DEF ZoneHeld, Trap
  <2> QED
    BY <1>1, <1>4, <2>1, HeldOn
<1> QED
  BY <1>1, <1>2, <1>3, <1>4

-----------------------------------------------------------------------------
\* Steps that leave the heap and the client's blocks alone.
LEMMA ZoneFrame ==
  ASSUME ZoneInv, LargeInv', UNCHANGED <<base, heap, live>>,
         pc' # "copy", DefragInv',
         pc' \in Running /\ IsLarge(call'.ptr) => call'.ptr \in DOMAIN large',
         pc' \in {"defrag", "place"} => call'.size <= SmallMax,
         phase' = phase
  PROVE  ZoneInv'
<1>1. Tiled(heap, Mapped)' /\ OwnedZone' /\ Sound'
  BY DEF ZoneInv, Mapped, OwnedZone, Sound, NoTraps
<1>2. NewBlock' /\ OldListed' /\ SmallRequest' /\ NothingMapped'
  BY DEF ZoneInv, NewBlock, OldListed, SmallRequest, NothingMapped
<1> QED
  BY <1>1, <1>2 DEF ZoneInv, DamageLasts

\* What the step has done to the heap, the call is not inside defrag.
LEMMA NoDefrag ==
  ASSUME pc' \notin {"defrag", "place"}
  PROVE  DefragInv'
  BY DEF DefragInv

LEMMA ZoneStop ==
  ASSUME ZoneInv, LargeInv', NEW how \in {"hung", "dead"}, Stop(how)
  PROVE  ZoneInv'
<1>1. UNCHANGED <<base, heap, live, phase>> /\ pc' = how
  BY DEF Stop, memory
<1> QED
  BY <1>1, ZoneFrame, NoDefrag DEF Running

LEMMA NotLargeInZone ==
  ASSUME TypeOK, NEW p \in Nat, NEW z \in ZoneNames, InZone(p, z)
  PROVE  ~IsLarge(p) /\ ChunkOf(p) \in Chunks(z)
<1>1. ChunkOf(p) \in Chunks(z)
  BY DEF InZone
<1>2. ~IsLarge(Mem(ChunkOf(p)))
  BY <1>1, ChunksInPlace, ZoneMemIsNotLarge DEF TypeOK
<1>3. Mem(ChunkOf(p)) = p
  BY SMT DEF Mem, ChunkOf, HEADER
<1> QED
  BY <1>1, <1>2, <1>3

\* Where defragSection is called for a zone, it has its whole walk to do.
LEMMA SectionStart ==
  ASSUME MemoryOK, Tiled(heap, Mapped), Initialised, NEW z \in ZoneNames
  PROVE  /\ z \in Mapped
         /\ ToFirstChunk(z) \in DOMAIN heap /\ InPlace(z, ToFirstChunk(z))
         /\ Walked(z, ToFirstChunk(z))
<1>1. z \in Mapped
  BY DEF Initialised, Mapped
<1>2. /\ ToFirstChunk(z) = PlacedAt(z) /\ PlacedAt(z) \in Nat /\ PlacedEnd(z) \in Nat
      /\ PlacedAt(z) < PlacedEnd(z)
  BY <1>1, ZoneBounds
<1>3. PlacedAt(z) \in DOMAIN heap /\ DOMAIN heap \subseteq Nat
  BY <1>1 DEF Tiled, MemoryOK
<1>4. InPlace(z, PlacedAt(z)) /\ \A b \in DOMAIN heap : ~(InPlace(z, b) /\ b < PlacedAt(z))
  BY <1>2, <1>3, SMT DEF InPlace
<1> QED
  BY <1>1, <1>2, <1>3, <1>4 DEF Walked

\* ftMalloc is entered with a block that has been found, or with none.
LEMMA ZoneFtMalloc ==
  ASSUME ZoneInv, LargeInv', NEW p, IsLarge(p) => p \in DOMAIN large, NEW n,
         n \in Nat, pc = "idle", FtMalloc(p, n)
  PROVE  ZoneInv'
<1>1. CASE Crash
  BY <1>1, ZoneStop DEF Crash
<1>2. CASE /\ n > SmallMax /\ pc' = "map"
           /\ call' = [ptr |-> p, size |-> n, new |-> NULL]
           /\ UNCHANGED <<memory, phase, cur, live>>
  BY <1>2, ZoneFrame, NoDefrag DEF memory
<1>3. CASE /\ n <= SmallMax /\ Initialised /\ pc' = "defrag"
           /\ cur' = [zone |-> "tiny", at |-> ToFirstChunk("tiny")]
           /\ call' = [ptr |-> p, size |-> n, new |-> NULL]
           /\ UNCHANGED <<memory, phase, live>>
  <2>1. MemoryOK /\ Tiled(heap, Mapped) /\ base' = base /\ heap' = heap /\ large' = large
    BY <1>3 DEF ZoneInv, LargeInv, TypeOK, memory
  <2>2. /\ ToFirstChunk("tiny") \in DOMAIN heap /\ InPlace("tiny", ToFirstChunk("tiny"))
        /\ Walked("tiny", ToFirstChunk("tiny"))
    BY <1>3, <2>1, SectionStart DEF ZoneNames
  <2>3. cur'.zone = "tiny" /\ cur'.at = ToFirstChunk("tiny")
    BY <1>3
  <2>4. DefragInv'
    BY <1>3, <2>1, <2>2, <2>3 DEF DefragInv, Defragging, Walked, Initialised
  <2> QED
    BY <1>3, <2>1, <2>4, ZoneFrame
<1>4. CASE UNCHANGED vars
  BY <1>4, ZoneFrame, NoDefrag DEF vars, Running
<1> QED
  BY <1>1, <1>2, <1>3, <1>4 DEF FtMalloc

-----------------------------------------------------------------------------
\* ftMalloc has found a block: it is the client's, or ftRealloc's to copy to.
LEMMA ZoneDeliver ==
  ASSUME ZoneInv, LargeInv', pc \in Running, UNCHANGED <<base, phase>>, Tiled(heap, Mapped)',
         Sound',
         NEW m, m # NULL, m \notin DOMAIN live, Deliver(m),
         IsLarge(m) => m \in DOMAIN large',
         ~IsLarge(m) => ZoneHeld(heap', m, call.size),
         \A p \in DOMAIN live : ~IsLarge(p) => ZoneHeld(heap', p, live[p]),
         IsLarge(call.ptr) => call.ptr \in DOMAIN large'
  PROVE  ZoneInv'
<1>1. NothingMapped' /\ DamageLasts'
  BY DEF ZoneInv, NothingMapped, DamageLasts
<1>2. CASE call.ptr = NULL
  <2>1. /\ pc' = "idle"
        /\ live' = [p \in DOMAIN live \cup {m} |-> IF p = m THEN call.size ELSE live[p]]
    BY <1>2 DEF Deliver
  <2>2. OwnedZone'
    BY <2>1 DEF OwnedZone
  <2>3. NewBlock' /\ OldListed' /\ SmallRequest' /\ DefragInv'
    BY <2>1 DEF NewBlock, OldListed, SmallRequest, DefragInv, Running
  <2> QED
    BY <1>1, <2>2, <2>3 DEF ZoneInv
<1>3. CASE call.ptr # NULL
  <2>1. pc' = "copy" /\ call' = [call EXCEPT !.new = m] /\ live' = live
    BY <1>3 DEF Deliver
  <2>2. call'.new = m /\ call'.ptr = call.ptr /\ call'.size = call.size
    BY <2>1 DEF ZoneInv, LargeInv, TypeOK, CallOK
  <2>3. OwnedZone'
    BY <2>1 DEF OwnedZone
  <2>4. NewBlock' /\ OldListed' /\ SmallRequest' /\ DefragInv'
    BY <1>3, <2>1, <2>2 DEF NewBlock, OldListed, SmallRequest, DefragInv
  <2> QED
    BY <1>1, <2>3, <2>4 DEF ZoneInv
<1> QED
  BY <1>2, <1>3

\* Taking a free chunk into use for the running call.
LEMMA TakeChunk ==
  ASSUME ZoneInv, LargeInv', pc = "place", UNCHANGED <<base, phase, large>>,
         NEW h, Tiled(h, Mapped), NEW a \in DOMAIN h, \A b \in DOMAIN h : ~Trap(h, b),
         NEW z \in ZoneNames, InPlace(z, a),
         \A p \in DOMAIN live : ~IsLarge(p) => ZoneHeld(h, p, live[p]) /\ ChunkOf(p) # a,
         Room(h, a, call.size),
         heap' = Taken(h, a), Deliver(Mem(a))
  PROVE  ZoneInv'
<1> DEFINE m == Mem(a)
<1>1. ~IsLarge(m) /\ m # NULL /\ m \in Nat /\ ChunkOf(m) = a
  <2>1. a \in Nat
    BY TiledTypes DEF Tiled
  <2> QED
    BY <2>1, ZoneMemIsNotLarge, Pointers DEF InPlace
<1>2. /\ Tiled(heap', Mapped) /\ DOMAIN heap' = DOMAIN h
      /\ heap'[a].size = h[a].size /\ ~heap'[a].free
      /\ \A b \in DOMAIN h \ {a} : heap'[b] = h[b]
  BY TakeTiled
<1>3. Tiled(heap, Mapped)'
  BY <1>2 DEF Mapped
<1>4. NoTraps' /\ Sound'
  BY <1>2 DEF NoTraps, Sound, Trap
<1>5. \A p \in DOMAIN live : ~IsLarge(p) => ZoneHeld(heap', p, live[p])
  BY <1>2 DEF ZoneHeld, Room
<1>6. ZoneHeld(heap', m, call.size) /\ m \notin DOMAIN live
  BY <1>1, <1>2 DEF ZoneHeld, Room
<1>7. IsLarge(call.ptr) => call.ptr \in DOMAIN large'
  BY DEF ZoneInv, OldListed, Running
<1> HIDE DEF m
<1>8. Deliver(m) /\ pc \in Running
  BY DEF m, Running
<1> QED
  BY <1>1, <1>3, <1>4, <1>5, <1>6, <1>7, <1>8, ZoneDeliver

LEMMA ZonePlace ==
  ASSUME ZoneInv, LargeInv', Place
  PROVE  ZoneInv'
<1> DEFINE need == AlignUp(call.size)
           z == ZoneFor(call.size)
<1>1. /\ pc = "place" /\ UNCHANGED <<base, large, maps, phase, lost>>
      /\ TypeOK /\ MemoryOK /\ OwnedZone /\ Tiled(heap, Mapped) /\ Mapped \in SUBSET ZoneNames
      /\ \A b \in DOMAIN heap : ~Trap(heap, b)
  BY DEF Place, ZoneInv, LargeInv, TypeOK, Mapped, DefragInv, NoTraps
<1>2. call.size \in SizeT /\ call.size <= SmallMax /\ z \in ZoneNames
  BY <1>1 DEF ZoneInv, SmallRequest, TypeOK, CallOK, Running, ZoneFor, ZoneNames
<1>3. /\ need \in SizeT /\ need % 16 = 0 /\ need \in Nat
      /\ Fits(call.size) => call.size <= need
  BY <1>2, AlignUpType, AlignUpHolds DEF SizeT
<1>4. call.size \in Nat
  BY <1>2 DEF SizeT
<1> HIDE DEF need, z
<1>5. ASSUME NEW a \in Chunks(z), heap[a].free
      PROVE  /\ a \in DOMAIN heap /\ a \in Nat /\ InPlace(z, a)
             /\ heap[a].size \in Nat /\ ~Trap(heap, a)
             /\ \A p \in DOMAIN live : ~IsLarge(p) => ZoneHeld(heap, p, live[p]) /\ ChunkOf(p) # a
  <2>1. a \in DOMAIN heap /\ a \in Nat /\ InPlace(z, a)
    BY <1>1, <1>2, ChunksInPlace DEF InPlace
  <2>2. heap[a].size \in Nat
    BY <1>1, <2>1, TiledTypes DEF Tiled
  <2> QED
    BY <1>1, <1>5, <2>1, <2>2 DEF OwnedZone, ZoneHeld
<1>6. ASSUME NEW a \in Chunks(z), heap[a].free, heap[a].size >= need,
             heap' = Taken(heap, a), Deliver(Mem(a))
      PROVE  ZoneInv'
  <2>1. /\ a \in DOMAIN heap /\ a \in Nat /\ InPlace(z, a)
        /\ heap[a].size \in Nat /\ ~Trap(heap, a)
        /\ \A p \in DOMAIN live : ~IsLarge(p) => ZoneHeld(heap, p, live[p]) /\ ChunkOf(p) # a
    BY <1>5, <1>6
  <2>2. Fits(call.size) => call.size <= heap[a].size
    BY <1>3, <1>4, <1>6, <2>1, SMT
  <2>3. Room(heap, a, call.size)
    BY <1>1, <1>2, <2>1, <2>2, RoomIsSize
  <2> QED
    BY <1>1, <1>2, <1>6, <2>1, <2>3, TakeChunk
<1>7. ASSUME NEW a \in Chunks(z), heap[a].free, heap[a].size >= need + CHUNK_MINIMUM_SIZE,
             heap' = Taken(SplitChunk(heap, a, need), a), Deliver(Mem(a))
      PROVE  ZoneInv'
  <2>1. /\ a \in DOMAIN heap /\ a \in Nat /\ InPlace(z, a)
        /\ heap[a].size \in Nat /\ ~Trap(heap, a)
        /\ \A p \in DOMAIN live : ~IsLarge(p) => ZoneHeld(heap, p, live[p]) /\ ChunkOf(p) # a
    BY <1>5, <1>7
  <2>2. CHUNK_MINIMUM_SIZE = 32
    BY LayoutAssumption, SMT DEF CHUNK_MINIMUM_SIZE, AlignUp, Wrap, ALIGNMENT, HEADER
  <2>3. need + 16 <= heap[a].size
    BY <1>3, <1>7, <2>1, <2>2, SMT
  <2>4. \A p \in DOMAIN live : live[p] \in SizeT
    BY <1>1 DEF TypeOK, CallOK
  <2>5. PICK g : g = SplitChunk(heap, a, need)
    OBVIOUS
  <2>6. /\ Tiled(g, Mapped) /\ a \in DOMAIN g /\ g[a].size = need
        /\ \A p : \A n \in SizeT : ZoneHeld(heap, p, n) /\ ChunkOf(p) # a => ZoneHeld(g, p, n)
        /\ \A b \in DOMAIN g : ~Trap(g, b)
    BY <1>1, <1>3, <2>1, <2>3, <2>5, CutChunk
  <2>7. Room(g, a, call.size)
    BY <1>1, <1>2, <1>3, <2>6, RoomIsSize
  <2>8. \A p \in DOMAIN live : ~IsLarge(p) => ZoneHeld(g, p, live[p]) /\ ChunkOf(p) # a
    BY <2>1, <2>4, <2>6
  <2> QED
    BY <1>1, <1>2, <1>7, <2>1, <2>5, <2>6, <2>7, <2>8, TakeChunk
<1>8. CASE pc' = "map" /\ UNCHANGED <<heap, call, cur, live>>
  BY <1>1, <1>8, ZoneFrame, NoDefrag DEF ZoneInv, OldListed, Running
<1>9. ASSUME NEW a \in Chunks(z), heap[a].free, heap[a].size = need
      PROVE  heap[a].size >= need
  BY <1>3, <1>9, SMT
<1> QED
  BY <1>6, <1>7, <1>8, <1>9 DEF Place, Taken, need, z

LEMMA ZoneCreate ==
  ASSUME ZoneInv, LargeInv', CreateLargeChunk
  PROVE  ZoneInv'
<1>1. pc = "map" /\ UNCHANGED <<base, heap, phase, lost>>
  BY DEF CreateLargeChunk
<1>2. CASE Deliver(NULL) /\ UNCHANGED <<maps, large>>
  <2>1. live' = live /\ pc' = "idle"
    BY <1>2 DEF Deliver
  <2> QED
    BY <1>1, <2>1, ZoneFrame, NoDefrag DEF Running
<1>3. ASSUME NEW b \in LargeBases \ DOMAIN maps,
             DOMAIN large' = DOMAIN large \cup {LargeChunk2Mem(b)},
             Deliver(LargeChunk2Mem(b))
      PROVE  ZoneInv'
  <2> DEFINE m == LargeChunk2Mem(b)
  <2>1. IsLarge(m) /\ m # NULL /\ m \in DOMAIN large' /\ m \notin DOMAIN live
    <3>1. IsLarge(m) /\ m # NULL /\ m \in DOMAIN large'
      BY <1>3, LargeShape DEF IsLarge
    <3>2. ToBase(m) = b
      BY LargePointers, LayoutAssumption
    <3>3. \A p \in DOMAIN live : IsLarge(p) => ToBase(p) \in DOMAIN maps
      BY DEF ZoneInv, LargeInv, OwnedLarge, LargeHeld
    <3> QED
      BY <3>1, <3>2, <3>3
  <2>2. /\ Tiled(heap, Mapped)' /\ Sound'
        /\ \A p \in DOMAIN live : ~IsLarge(p) => ZoneHeld(heap', p, live[p])
    BY <1>1 DEF ZoneInv, Mapped, OwnedZone, Sound, NoTraps
  <2>3. IsLarge(call.ptr) => call.ptr \in DOMAIN large'
    BY <1>1, <1>3 DEF ZoneInv, OldListed, Running
  <2>4. Deliver(m) /\ pc \in Running
    BY <1>1, <1>3 DEF Running
  <2> HIDE DEF m
  <2> QED
    BY <1>1, <2>1, <2>2, <2>3, <2>4, ZoneDeliver
<1> QED
  BY <1>2, <1>3 DEF CreateLargeChunk

-----------------------------------------------------------------------------
\* What is a trap stays one.
TrapsStay == \A a \in DOMAIN heap : Trap(heap, a) => a \in DOMAIN heap' /\ Trap(heap', a)

\* ftFree takes the chunk of p only, and of the zones' blocks none but p.
LEMMA ZoneRelease ==
  ASSUME TypeOK, Tiled(heap, Mapped), NEW p \in Nat, Release(p)
  PROVE  /\ base' = base
         /\ Tiled(heap', Mapped)
         /\ \A q, n : q \in Nat /\ q # p /\ ZoneHeld(heap, q, n) => ZoneHeld(heap', q, n)
         /\ \A q \in DOMAIN large : q # p => q \in DOMAIN large'
         /\ TrapsStay /\ (Sound => Sound')
<1>1. CASE UNCHANGED <<base, heap>> /\ \A q \in DOMAIN large : q # p => q \in DOMAIN large'
  BY <1>1 DEF TrapsStay, Sound, NoTraps
<1>2. ASSUME NEW z \in ZoneNames, InZone(p, z), heap' = GiveBack(heap, ChunkOf(p)),
             UNCHANGED <<base, large>>
      PROVE  /\ Tiled(heap', Mapped)
             /\ \A q, n : q \in Nat /\ q # p /\ ZoneHeld(heap, q, n) => ZoneHeld(heap', q, n)
             /\ TrapsStay /\ (Sound => Sound')
  <2>1. ChunkOf(p) \in DOMAIN heap
    BY <1>2 DEF InZone
  <2>2. /\ Tiled(heap', Mapped) /\ DOMAIN heap' = DOMAIN heap
        /\ heap'[ChunkOf(p)].size = heap[ChunkOf(p)].size
        /\ \A b \in DOMAIN heap \ {ChunkOf(p)} : heap'[b] = heap[b]
    BY <1>2, <2>1, GiveBackTiled
  <2>3. ASSUME NEW q \in Nat, q # p, NEW n, ZoneHeld(heap, q, n) PROVE ZoneHeld(heap', q, n)
    <3>1. ChunkOf(q) # ChunkOf(p) /\ ChunkOf(q) \in DOMAIN heap
      BY <2>3, Pointers DEF ZoneHeld
    <3>2. heap'[ChunkOf(q)] = heap[ChunkOf(q)] /\ ChunkOf(q) \in DOMAIN heap'
      BY <2>2, <3>1
    <3> QED
      BY <2>2, <2>3, <3>2 DEF ZoneHeld, Room, Trap
  <2>4. \A b \in DOMAIN heap : b \in DOMAIN heap' /\ (Trap(heap', b) <=> Trap(heap, b))
    BY <2>2 DEF Trap
  <2>5. TrapsStay /\ (Sound => Sound')
    BY <2>2, <2>4 DEF TrapsStay, Sound, NoTraps
  <2> QED
    BY <2>2, <2>3, <2>5
<1> QED
  BY <1>1, <1>2 DEF Release, GiveBack, memory

LEMMA ZoneFree ==
  ASSUME ZoneInv, LargeInv', NEW p \in Nat, Free(p)
  PROVE  ZoneInv'
<1>1. CASE Release(p) /\ live' = [q \in DOMAIN live \ {p} |-> live[q]]
           /\ UNCHANGED <<phase, pc, call, cur>>
  <2>1. pc' = "idle" /\ TypeOK /\ Tiled(heap, Mapped)
    BY <1>1 DEF Free, ZoneInv, LargeInv
  <2>2. base' = base /\ Tiled(heap, Mapped)' /\ Sound'
    BY <1>1, <2>1, ZoneRelease DEF Mapped, ZoneInv
  <2>3. OwnedZone'
    <3> SUFFICES ASSUME NEW q \in DOMAIN live', ~IsLarge(q)
                 PROVE  ZoneHeld(heap', q, live'[q])
      BY DEF OwnedZone
    <3>1. q \in DOMAIN live /\ q # p /\ live'[q] = live[q] /\ q \in Nat
      BY <1>1, <2>1 DEF TypeOK, CallOK
    <3>2. ZoneHeld(heap, q, live[q])
      BY <3>1 DEF ZoneInv, OwnedZone
    <3> QED
      BY <1>1, <2>1, <3>1, <3>2, ZoneRelease
  <2>4. NewBlock' /\ OldListed' /\ SmallRequest' /\ NothingMapped'
    BY <1>1, <2>1, <2>2 DEF ZoneInv, NewBlock, OldListed, SmallRequest, NothingMapped, Running
  <2>5. DefragInv' /\ DamageLasts'
    BY <2>1, NoDefrag DEF ZoneInv, DamageLasts
  <2> QED
    BY <2>2, <2>3, <2>4, <2>5 DEF ZoneInv
<1>2. CASE Hang \/ Crash
  BY <1>2, ZoneStop DEF Hang, Crash
<1> QED
  BY <1>1, <1>2 DEF Free

LEMMA ZoneCopy ==
  ASSUME ZoneInv, LargeInv', CopyAndFree
  PROVE  ZoneInv'
<1>1. /\ pc = "copy" /\ Release(call.ptr) /\ pc' = "idle" /\ phase' = phase
      /\ live' = [p \in (DOMAIN live \ {call.ptr}) \cup {call.new} |->
                    IF p = call.new THEN call.size ELSE live[p]]
  BY DEF CopyAndFree
<1>2. /\ TypeOK /\ Tiled(heap, Mapped) /\ call.ptr \in Nat /\ call.new \in Nat
      /\ call.ptr \in DOMAIN live
  BY <1>1 DEF ZoneInv, LargeInv, TypeOK, CallOK, OldOwned, NewBlock, Running
<1>3. base' = base /\ Tiled(heap, Mapped)' /\ Sound'
  BY <1>1, <1>2, ZoneRelease DEF Mapped, ZoneInv
<1>4. OwnedZone'
  <2> SUFFICES ASSUME NEW q \in DOMAIN live', ~IsLarge(q)
               PROVE  ZoneHeld(heap', q, live'[q])
    BY DEF OwnedZone
  <2>1. CASE q = call.new
    <3>1. ZoneHeld(heap, q, call.size) /\ q # call.ptr
      BY <1>1, <1>2, <2>1 DEF ZoneInv, NewBlock
    <3> QED
      BY <1>1, <1>2, <2>1, <3>1, ZoneRelease
  <2>2. CASE q # call.new
    <3>1. q \in DOMAIN live /\ q # call.ptr /\ live'[q] = live[q] /\ q \in Nat
      BY <1>1, <1>2, <2>2 DEF TypeOK, CallOK
    <3>2. ZoneHeld(heap, q, live[q])
      BY <3>1 DEF ZoneInv, OwnedZone
    <3> QED
      BY <1>1, <1>2, <3>1, <3>2, ZoneRelease
  <2> QED
    BY <2>1, <2>2
<1>5. NewBlock' /\ OldListed' /\ SmallRequest' /\ NothingMapped'
  BY <1>1, <1>3 DEF ZoneInv, NewBlock, OldListed, SmallRequest, NothingMapped, Running
<1>6. DefragInv' /\ DamageLasts'
  BY <1>1, NoDefrag DEF ZoneInv, DamageLasts
<1> QED
  BY <1>3, <1>4, <1>5, <1>6 DEF ZoneInv

-----------------------------------------------------------------------------
\* The end of a mapped zone that is no header is in no zone.
LEMMA OutsideZones ==
  ASSUME MemoryOK, Tiled(heap, Mapped), NEW h, Tiled(h, Mapped), NEW z \in Mapped,
         PlacedEnd(z) \notin DOMAIN h
  PROVE  ~InsideSomeZone(PlacedEnd(z))
<1> SUFFICES ASSUME NEW y \in ZoneNames, base[y] <= PlacedEnd(z), PlacedEnd(z) < ToZoneEnd(y)
             PROVE  FALSE
  BY DEF InsideSomeZone
<1>1. PlacedEnd(z) \in Nat /\ z \in ZoneNames
  BY ZoneBounds
<1>2. y \in Mapped
  BY <1>1, SMT DEF ToZoneEnd, NULL, Mapped
<1>3. InPlace(y, PlacedEnd(z))
  BY <1>2, ZoneBounds DEF InPlace
<1>4. PlacedEnd(z) = PlacedAt(y)
  BY <1>1, <1>3, AcrossZones
<1> QED
  BY <1>2, <1>4 DEF Tiled

\* The in-place branch of ftRealloc: the chunk of p holds n bytes then, and
\* every other block what it held.
LEMMA ResizeHeap ==
  ASSUME ZoneInv, NEW p \in DOMAIN live, NEW n \in SizeT, NEW t, NEW z \in ZoneNames,
         InZone(p, z), ConsecutiveFree(ToNext(heap, ChunkOf(p)), t), Resize(p, n, t)
  PROVE  /\ Tiled(heap', Mapped) /\ Sound' /\ TrapsStay
         /\ ZoneHeld(heap', p, n)
         /\ \A q \in DOMAIN live \ {p} : ~IsLarge(q) => ZoneHeld(heap', q, live[q])
<1> DEFINE a == ChunkOf(p)
           need == AlignUp(n)
           grown == Expanded(a, t)
           split == SplitChunk(grown, a, need)
           r == RestOf(a, need)
<1>1. /\ TypeOK /\ MemoryOK /\ Tiled(heap, Mapped) /\ OwnedZone /\ DamageLasts /\ Sound
      /\ p \in Nat /\ Mapped \in SUBSET ZoneNames
      /\ \A q \in DOMAIN live : live[q] \in SizeT /\ q \in Nat
  BY DEF ZoneInv, LargeInv, TypeOK, CallOK, Mapped
<1>2. a \in DOMAIN heap /\ ~IsLarge(p)
  BY <1>1, NotLargeInZone DEF InZone
<1>3. /\ Tiled(grown, Mapped) /\ a \in DOMAIN grown /\ grown[a].free = heap[a].free
      /\ grown[a].size = Wrap(t - ToNext(heap, a) + heap[a].size)
      /\ ~Trap(heap, a) /\ ~Trap(grown, a)
      /\ \A q, k : ZoneHeld(heap, q, k) => ZoneHeld(grown, q, k)
      /\ \A b \in DOMAIN grown : b \in DOMAIN heap /\ (Trap(grown, b) => Trap(heap, b))
      /\ \A b \in DOMAIN heap : Trap(heap, b) => b \in DOMAIN grown /\ Trap(grown, b)
  BY <1>1, <1>2, GrowChunk
<1>4. ~grown[a].free
  BY <1>1, <1>2, <1>3 DEF OwnedZone, ZoneHeld
<1>5. need \in Nat /\ need % 16 = 0 /\ (Fits(n) => n <= need)
  BY AlignUpType, AlignUpHolds DEF SizeT
<1>6. /\ grown[a].size >= need /\ (grown[a].size = need => ExactFits)
      /\ \/ InsideSomeZone(r) /\ heap' = split
         \/ ~InsideSomeZone(r) /\ heap' = [b \in DOMAIN grown |-> split[b]]
  BY <1>1, <1>3 DEF Resize, Reaches
<1>7. \A q \in DOMAIN live : ~IsLarge(q) => ZoneHeld(grown, q, live[q])
  BY <1>1, <1>3 DEF OwnedZone
<1>8. \A q \in DOMAIN live \ {p} : ChunkOf(q) # a
  BY <1>1, Pointers DEF a
<1>9. a \in Nat /\ r = a + 16 + need
  <2>1. a \in Nat
    BY <1>1, <1>2, TiledTypes DEF Tiled
  <2> QED
    BY <2>1 DEF RestOf, HEADER
<1>10. split = SplitChunk(grown, a, need)
  OBVIOUS
<1>11. r = RestOf(a, need)
  OBVIOUS
<1>12. a = ChunkOf(p)
  OBVIOUS
<1> HIDE DEF a, need, grown, split, r
<1>13. grown[a].size \in Nat /\ grown[a].size % 16 = 0
  BY <1>3, TiledTypes DEF Tiled
<1>14. CASE need + 16 <= grown[a].size
  <2>1. /\ Tiled(split, Mapped) /\ a \in DOMAIN split
        /\ split[a].size = need /\ split[a].free = grown[a].free
        /\ \E y \in Mapped : InPlace(y, a) /\ r < PlacedEnd(y) /\ a <= r
        /\ \A q, k : k \in SizeT /\ ZoneHeld(grown, q, k) /\ ChunkOf(q) # a => ZoneHeld(split, q, k)
        /\ \A b \in DOMAIN split : Trap(split, b) <=> b \in DOMAIN grown /\ Trap(grown, b)
        /\ DOMAIN grown \subseteq DOMAIN split
    <3>1. Tiled(grown, Mapped) /\ Mapped \in SUBSET ZoneNames /\ a \in DOMAIN grown /\ ~Trap(grown, a)
      BY <1>1, <1>3
    <3>2. need \in Nat /\ need % 16 = 0
      BY <1>5
    <3> QED
      BY <1>10, <1>11, <1>14, <3>1, <3>2, CutChunk
  <2>2. InsideSomeZone(r)
    <3>1. PICK y \in Mapped : InPlace(y, a) /\ r < PlacedEnd(y) /\ a <= r
      BY <2>1
    <3>2. y \in ZoneNames /\ base[y] = PlacedAt(y) /\ ToZoneEnd(y) = PlacedEnd(y)
          /\ PlacedAt(y) \in Nat
      BY <1>1, <3>1, ZoneBounds
    <3>3. base[y] <= r
      BY <1>5, <1>9, <3>1, <3>2, SMT DEF InPlace
    <3> QED
      BY <3>1, <3>2, <3>3 DEF InsideSomeZone
  <2>3. heap' = split
    BY <1>6, <2>2
  <2>4. ~Trap(split, a)
    BY <1>3, <2>1
  <2>5. Room(split, a, n)
    BY <1>1, <1>5, <2>1, <2>4, RoomIsSize
  <2>6. ZoneHeld(heap', p, n)
    BY <1>4, <1>12, <2>1, <2>3, <2>5 DEF ZoneHeld
  <2>7. Sound' /\ TrapsStay
    BY <1>1, <1>3, <2>1, <2>3 DEF Sound, NoTraps, TrapsStay
  <2> QED
    BY <1>1, <1>7, <1>8, <2>1, <2>3, <2>6, <2>7
<1>15. CASE need = grown[a].size
  <2>1. /\ r = ChunkEnd(grown, a)
        /\ r \notin DOMAIN grown => [b \in DOMAIN grown |-> split[b]] = grown
    BY <1>1, <1>3, <1>10, <1>11, <1>15, SplitExact
  <2>2. Tiled(heap', Mapped) /\ DOMAIN heap' = DOMAIN grown /\ heap'[a] = grown[a]
        /\ (\A q, k : ZoneHeld(grown, q, k) => ZoneHeld(heap', q, k))
        /\ (\A b \in DOMAIN grown : Trap(grown, b) => Trap(heap', b))
    <3>1. CASE r \in DOMAIN grown
      <4>1. /\ Tiled(split, Mapped) /\ DOMAIN split = DOMAIN grown /\ split[a] = grown[a]
            /\ \A q, k : ZoneHeld(grown, q, k) => ZoneHeld(split, q, k)
            /\ \A b \in DOMAIN grown : Trap(grown, b) => Trap(split, b)
        BY <1>1, <1>3, <1>10, <1>11, <1>15, <3>1, ExactChunk
      <4>2. split = [b \in DOMAIN grown |-> split[b]]
        BY <4>1 DEF Tiled, HeaderMap
      <4>3. heap' = split
        BY <1>6, <4>2
      <4> QED
        BY <4>1, <4>3
    <3>2. CASE r \notin DOMAIN grown
      <4>1. PICK y \in Mapped : Seated(grown, y, a)
        BY <1>3 DEF Tiled
      <4>2. r = PlacedEnd(y)
        BY <1>3, <2>1, <3>2, <4>1 DEF Seated
      <4>3. ~InsideSomeZone(r)
        BY <1>1, <1>3, <3>2, <4>2, OutsideZones
      <4>4. heap' = grown
        BY <1>6, <2>1, <3>2, <4>3
      <4> QED
        BY <1>3, <4>4
    <3> QED
      BY <3>1, <3>2
  <2>3. Room(heap', a, n)
    <3>1. a \in DOMAIN heap' /\ ~Trap(heap', a) /\ (Fits(n) => n <= heap'[a].size)
      BY <1>3, <1>5, <1>15, <2>2 DEF Trap
    <3> QED
      BY <1>1, <2>2, <3>1, RoomIsSize
  <2>4. ZoneHeld(heap', p, n)
    BY <1>3, <1>4, <1>12, <2>2, <2>3 DEF ZoneHeld
  <2>5. Sound' /\ TrapsStay
    BY <1>3, <1>6, <1>15, <2>2 DEF Sound, TrapsStay
  <2> QED
    BY <1>7, <2>2, <2>4, <2>5
<1>16. need + 16 <= grown[a].size \/ need = grown[a].size
  BY <1>5, <1>6, <1>13, SMT
<1> QED
  BY <1>14, <1>15, <1>16

LEMMA ZoneResize ==
  ASSUME ZoneInv, LargeInv', NEW p \in DOMAIN live, NEW n \in SizeT, NEW t, pc = "idle",
         NEW z \in ZoneNames, InZone(p, z), ConsecutiveFree(ToNext(heap, ChunkOf(p)), t),
         Resize(p, n, t)
  PROVE  ZoneInv'
<1>1. /\ Tiled(heap', Mapped) /\ Sound'
      /\ ZoneHeld(heap', p, n)
      /\ \A q \in DOMAIN live \ {p} : ~IsLarge(q) => ZoneHeld(heap', q, live[q])
  BY ResizeHeap
<1>2. /\ live' = [live EXCEPT ![p] = n]
      /\ UNCHANGED <<base, large, maps, phase, pc, call, cur, lost>>
  BY DEF Resize
<1>3. OwnedZone' /\ Tiled(heap, Mapped)'
  BY <1>1, <1>2 DEF OwnedZone, Mapped
<1>4. NewBlock' /\ OldListed' /\ SmallRequest' /\ NothingMapped'
  BY <1>2 DEF ZoneInv, NewBlock, OldListed, SmallRequest, NothingMapped, Running
<1>5. DefragInv' /\ DamageLasts'
  BY <1>2, NoDefrag DEF ZoneInv, DamageLasts
<1> QED
  BY <1>1, <1>3, <1>4, <1>5 DEF ZoneInv

LEMMA ZoneRealloc ==
  ASSUME ZoneInv, LargeInv', NEW p \in DOMAIN live, NEW n \in SizeT, Realloc(p, n)
  PROVE  ZoneInv'
<1>1. pc = "idle" /\ TypeOK /\ p \in Nat /\ n \in Nat
  BY DEF Realloc, ZoneInv, LargeInv, TypeOK, CallOK, SizeT
<1>2. CASE p \in DOMAIN large /\ FtMalloc(p, n)
  BY <1>1, <1>2, ZoneFtMalloc
<1>3. CASE Hang \/ Crash
  BY <1>3, ZoneStop DEF Hang, Crash
<1>4. CASE UNCHANGED vars
  BY <1>1, <1>4, ZoneFrame, NoDefrag DEF vars, Running
<1>5. ASSUME NEW z \in ZoneNames, InZone(p, z), FtMalloc(p, n) PROVE ZoneInv'
  BY <1>1, <1>5, NotLargeInZone, ZoneFtMalloc
<1>6. ASSUME NEW z \in ZoneNames, InZone(p, z), NEW t,
             ConsecutiveFree(ToNext(heap, ChunkOf(p)), t), Resize(p, n, t)
      PROVE  ZoneInv'
  BY <1>1, <1>6, ZoneResize
<1>7. \A t : ResizeCrashes(p, n, t) => Crash
  BY DEF ResizeCrashes
<1> QED
  BY <1>2, <1>3, <1>4, <1>5, <1>6, <1>7 DEF Realloc

-----------------------------------------------------------------------------
\* A level of the recursion that finds no free chunk has seen the last of the
\* zone: a trap would have been one.
LEMMA SectionDone ==
  ASSUME MemoryOK, Tiled(heap, Mapped), Defragging, cur \in [zone : ZoneNames, at : Nat],
         \A a \in Walk(heap, ToNext(heap, cur.at), ToZoneEnd(cur.zone)) : ~heap[a].free,
         cur.at # ToZoneEnd(cur.zone)
  PROVE  Walked(cur.zone, PlacedEnd(cur.zone))
<1> DEFINE z == cur.zone
           s == ToNext(heap, cur.at)
<1>1. z \in Mapped /\ z \in ZoneNames /\ Mapped \in SUBSET ZoneNames
  BY DEF Defragging, Initialised, Mapped
<1>2. ToZoneEnd(z) = PlacedEnd(z) /\ PlacedEnd(z) \in Nat
  BY <1>1, ZoneBounds
<1>3. cur.at \in DOMAIN heap /\ InPlace(z, cur.at)
  BY <1>2 DEF Defragging
<1>4. s \in Nat
  BY <1>3, ToNextType
<1> SUFFICES ASSUME NEW b \in DOMAIN heap, InPlace(z, b), b < PlacedEnd(z), Trap(heap, b)
             PROVE  FALSE
  BY DEF Walked
<1>5. b \in Nat /\ cur.at \in Nat /\ ~(b < cur.at)
  BY DEF Defragging, Walked, MemoryOK
<1>6. s <= b
  <2>1. CASE Trap(heap, cur.at)
    <3>1. s = cur.at
      BY <1>1, <1>3, <2>1, TiledNext
    <3> QED
      BY <1>5, <3>1, SMT
  <2>2. CASE ~Trap(heap, cur.at)
    <3>1. s = ChunkEnd(heap, cur.at) /\ cur.at # b
      BY <1>1, <1>3, <2>2, TiledNext
    <3>2. cur.at < b
      BY <1>5, <3>1, SMT
    <3> QED
      BY <1>3, <2>2, <3>1, <3>2 DEF Tiled
  <2> QED
    BY <2>1, <2>2
<1>7. PICK c \in Walk(heap, s, PlacedEnd(z)) : Trap(heap, c)
  BY <1>1, <1>2, <1>4, <1>6, TrapEndless
<1>8. c \in DOMAIN heap
  BY DEF Walk
<1> QED
  BY <1>2, <1>7, <1>8 DEF Tiled

LEMMA ZoneEndSection ==
  ASSUME ZoneInv, LargeInv', pc = "defrag", Walked(cur.zone, PlacedEnd(cur.zone)), EndSection
  PROVE  ZoneInv'
<1>1. /\ MemoryOK /\ Tiled(heap, Mapped) /\ Defragging
      /\ UNCHANGED <<base, heap, large, live, phase, call>>
  BY DEF ZoneInv, LargeInv, TypeOK, DefragInv, EndSection, memory
<1>2. CASE cur.zone = "tiny" /\ pc' = "defrag" /\ cur' = [zone |-> "small", at |-> ToFirstChunk("small")]
  <2>1. /\ ToFirstChunk("small") \in DOMAIN heap /\ InPlace("small", ToFirstChunk("small"))
        /\ Walked("small", ToFirstChunk("small")) /\ Initialised
    BY <1>1, SectionStart DEF ZoneNames, Defragging
  <2>2. cur'.zone = "small" /\ cur'.at = ToFirstChunk("small")
    BY <1>2
  <2>3. DefragInv'
    BY <1>1, <1>2, <2>1, <2>2 DEF DefragInv, Defragging, Walked, Initialised
  <2> QED
    BY <1>1, <1>2, <2>3, ZoneFrame DEF ZoneInv, OldListed, SmallRequest, Running
<1>3. CASE cur.zone = "small" /\ pc' = "place"
  <2>1. Walked("tiny", PlacedEnd("tiny")) /\ Walked("small", PlacedEnd("small"))
    BY <1>1, <1>3 DEF Defragging
  <2>2. NoTraps
    <3> SUFFICES ASSUME NEW a \in DOMAIN heap PROVE ~Trap(heap, a)
      BY DEF NoTraps
    <3>1. PICK z \in Mapped : Seated(heap, z, a)
      BY <1>1 DEF Tiled
    <3>2. InPlace(z, a) /\ a < PlacedEnd(z) /\ (z = "tiny" \/ z = "small")
      BY <3>1 DEF Seated, InPlace, Mapped, ZoneNames
    <3> QED
      BY <2>1, <3>2 DEF Walked
  <2>3. DefragInv'
    BY <1>1, <1>3, <2>2 DEF DefragInv, NoTraps
  <2> QED
    BY <1>1, <1>3, <2>3, ZoneFrame DEF ZoneInv, OldListed, SmallRequest, Running
<1> QED
  BY <1>2, <1>3 DEF EndSection

\* A level that finds a free chunk leaves no trap between it and the start of
\* the next level.
LEMMA ZoneDefragChunk ==
  ASSUME ZoneInv, LargeInv', pc = "defrag", cur.at # ToZoneEnd(cur.zone),
         NEW first \in Walk(heap, ToNext(heap, cur.at), ToZoneEnd(cur.zone)),
         NEW t, ConsecutiveFree(ToNext(heap, first), t), DefragChunk(first, t)
  PROVE  ZoneInv'
<1> DEFINE z == cur.zone
           s == ToNext(heap, cur.at)
<1>1. /\ TypeOK /\ MemoryOK /\ Tiled(heap, Mapped) /\ OwnedZone /\ Defragging /\ DamageLasts
      /\ Sound /\ cur \in [zone : ZoneNames, at : Nat] /\ Mapped \in SUBSET ZoneNames
  BY DEF ZoneInv, LargeInv, TypeOK, CallOK, DefragInv, Mapped
<1>2. /\ heap' = heap \/ heap' = Expanded(first, t)
      /\ UNCHANGED <<base, large, phase, pc, call, live>>
      /\ cur' = [cur EXCEPT !.at = ToNext(heap', first)]
  BY DEF DefragChunk
<1>3. first \in DOMAIN heap /\ s <= first /\ first < ToZoneEnd(z)
  BY DEF Walk
<1>4. /\ Tiled(heap', Mapped) /\ first \in DOMAIN heap' /\ ~Trap(heap, first) /\ ~Trap(heap', first)
      /\ \A q, k : ZoneHeld(heap, q, k) => ZoneHeld(heap', q, k)
      /\ \A b \in DOMAIN heap' : b \in DOMAIN heap /\ (Trap(heap', b) => Trap(heap, b))
  BY <1>1, <1>2, <1>3, GrowChunk
<1>5. OwnedZone' /\ Tiled(heap, Mapped)' /\ Sound' /\ DamageLasts'
  BY <1>1, <1>2, <1>4 DEF OwnedZone, Mapped, Sound, NoTraps, DamageLasts
<1>6. NewBlock' /\ OldListed' /\ SmallRequest' /\ NothingMapped'
  BY <1>2 DEF ZoneInv, NewBlock, OldListed, SmallRequest, NothingMapped
<1>7. cur'.zone = z /\ cur'.at = ChunkEnd(heap', first)
  BY <1>1, <1>2, <1>4, TiledNext
<1>8. /\ z \in Mapped /\ z \in ZoneNames /\ ToZoneEnd(z) = PlacedEnd(z) /\ PlacedEnd(z) \in Nat
      /\ PlacedAt(z) \in Nat
  BY <1>1, ZoneBounds DEF Defragging, Initialised, Mapped
<1>9. cur.at \in DOMAIN heap /\ InPlace(z, cur.at) /\ s \in Nat /\ cur.at \in Nat /\ first \in Nat
  <2>1. cur.at \in DOMAIN heap /\ InPlace(z, cur.at)
    BY <1>1, <1>8 DEF Defragging
  <2> QED
    BY <1>1, <1>3, <2>1, ToNextType DEF MemoryOK
<1>10. cur.at <= s
  <2>1. Trap(heap, cur.at) => s = cur.at
    BY <1>1, <1>9, TiledNext
  <2>2. ~Trap(heap, cur.at) => s = ChunkEnd(heap, cur.at) /\ cur.at < ChunkEnd(heap, cur.at)
    BY <1>1, <1>9, TiledNext, TiledTypes DEF Tiled
  <2> QED
    BY <1>9, <2>1, <2>2, SMT
<1>11. InPlace(z, first)
  BY <1>3, <1>8, <1>9, <1>10, SMT DEF InPlace
<1>12. \A b \in DOMAIN heap : InPlace(z, b) /\ b <= first => ~Trap(heap, b)
  <2> SUFFICES ASSUME NEW b \in DOMAIN heap, InPlace(z, b), b <= first, Trap(heap, b)
               PROVE  FALSE
    OBVIOUS
  <2>1. b \in Nat /\ ~(b < cur.at) /\ b # first
    BY <1>1, <1>4 DEF Defragging, Walked, MemoryOK
  <2>2. s <= b => first <= b
    BY <1>1, TiledWalk
  <2>3. b < s
    BY <1>9, <2>1, <2>2, SMT
  <2>4. CASE Trap(heap, cur.at)
    <3>1. s = cur.at
      BY <1>1, <1>9, <2>4, TiledNext
    <3> QED
      BY <2>1, <2>3, <3>1
  <2>5. CASE ~Trap(heap, cur.at)
    <3>1. s = ChunkEnd(heap, cur.at) /\ b # cur.at
      BY <1>1, <1>9, <2>5, TiledNext
    <3>2. cur.at < b
      BY <1>9, <2>1, <3>1, SMT
    <3>3. s <= b
      BY <1>1, <1>9, <2>5, <3>1, <3>2 DEF Tiled
    <3> QED
      BY <1>9, <2>1, <2>3, <3>3, SMT
  <2> QED
    BY <2>4, <2>5
<1>13. \A b \in DOMAIN heap' : InPlace(z, b) /\ b < ChunkEnd(heap', first) => ~Trap(heap', b)
  <2> SUFFICES ASSUME NEW b \in DOMAIN heap', InPlace(z, b), b < ChunkEnd(heap', first),
                      Trap(heap', b)
               PROVE  FALSE
    OBVIOUS
  <2>1. b \in DOMAIN heap /\ Trap(heap, b) /\ b \in Nat
    BY <1>1, <1>4 DEF MemoryOK
  <2>2. first < b
    BY <1>9, <1>12, <2>1, SMT
  <2>3. ChunkEnd(heap', first) <= b /\ ChunkEnd(heap', first) \in Nat
    BY <1>4, <2>2, TiledTypes DEF Tiled
  <2> QED
    BY <2>1, <2>3, SMT
<1>14. \/ cur'.at \in DOMAIN heap' /\ InPlace(z, cur'.at)
       \/ cur'.at = PlacedEnd(z)
  <2>1. PICK y \in Mapped : Seated(heap', y, first)
    BY <1>4 DEF Tiled
  <2>2. y = z
    BY <1>1, <1>8, <1>9, <1>11, <2>1, OneZone DEF Seated
  <2>3. cur'.at <= PlacedEnd(z) /\ cur'.at \in DOMAIN heap' \cup {PlacedEnd(z)}
        /\ cur'.at \in Nat /\ first < cur'.at
    BY <1>4, <1>7, <2>1, <2>2, TiledTypes DEF Seated, Tiled
  <2> QED
    BY <1>8, <1>9, <1>11, <2>3, SMT DEF InPlace
<1>15. z = "small" => \A b \in DOMAIN heap' : InPlace("tiny", b) /\ b < PlacedEnd("tiny") => ~Trap(heap', b)
  BY <1>1, <1>4 DEF Defragging, Walked
<1>16. Initialised'
  BY <1>1, <1>2 DEF Defragging, Initialised
<1>17. DefragInv'
  <2>1. Defragging'
    BY <1>7, <1>13, <1>14, <1>15, <1>16 DEF Defragging, Walked
  <2>2. pc' = "defrag"
    BY <1>2
  <2> QED
    BY <2>1, <2>2 DEF DefragInv
<1> QED
  BY <1>5, <1>6, <1>17 DEF ZoneInv

LEMMA ZoneDefrag ==
  ASSUME ZoneInv, LargeInv', DefragSection \/ DefragPastEnd
  PROVE  ZoneInv'
<1>1. /\ pc = "defrag" /\ MemoryOK /\ Tiled(heap, Mapped) /\ Defragging
      /\ cur \in [zone : ZoneNames, at : Nat]
  BY DEF DefragSection, DefragPastEnd, ZoneInv, LargeInv, TypeOK, CallOK, DefragInv
<1>2. CASE Hang \/ Crash
  BY <1>2, ZoneStop DEF Hang, Crash
<1>3. CASE DefragPastEnd /\ EndSection
  <2>1. cur.at = PlacedEnd(cur.zone)
    BY <1>1, <1>3, ZoneBounds DEF DefragPastEnd, Defragging, Initialised, Mapped
  <2>2. Walked(cur.zone, PlacedEnd(cur.zone))
    BY <1>1, <2>1 DEF Defragging
  <2> QED
    BY <1>1, <1>3, <2>2, ZoneEndSection
<1> DEFINE seen == Walk(heap, ToNext(heap, cur.at), ToZoneEnd(cur.zone))
<1>4. CASE /\ cur.at # ToZoneEnd(cur.zone) /\ EndSection
           /\ { a \in seen : heap[a].free } = {}
  <2>1. \A a \in seen : ~heap[a].free
    BY <1>4
  <2> QED
    BY <1>1, <1>4, <2>1, SectionDone, ZoneEndSection
<1>5. ASSUME cur.at # ToZoneEnd(cur.zone), NEW first \in seen, NEW t,
             ConsecutiveFree(ToNext(heap, first), t), DefragChunk(first, t)
      PROVE  ZoneInv'
  BY <1>1, <1>5, ZoneDefragChunk
<1> QED
  BY <1>2, <1>3, <1>4, <1>5 DEF DefragSection, DefragPastEnd

\* The constructor gives each mapped zone one free chunk that fills it.
LEMMA ZoneInitialize ==
  ASSUME ZoneInv, LargeInv', InitializePreAllocatedZones
  PROVE  ZoneInv'
<1>1. PICK mapped \in {{}, {"tiny"}, {"tiny", "small"}} :
        /\ base' = [z \in ZoneNames |-> IF z \in mapped THEN PlacedAt(z) ELSE NULL]
        /\ heap' = [a \in { PlacedAt(z) + DistanceToNextAlignment(PlacedAt(z)) : z \in mapped } |->
                      FirstChunk(CHOOSE z \in mapped :
                                   a = PlacedAt(z) + DistanceToNextAlignment(PlacedAt(z)))]
  BY DEF InitializePreAllocatedZones
<1>2. phase = "loading" /\ pc = "idle" /\ phase' = "running" /\ UNCHANGED <<pc, call, cur, live>>
  BY DEF InitializePreAllocatedZones
<1>3. mapped \in SUBSET ZoneNames
  BY DEF ZoneNames
<1>4. mapped = Mapped'
  <2>1. \A z \in ZoneNames : base'[z] # NULL <=> z \in mapped
    BY <1>1, ZoneLayout, SMT DEF NULL
  <2> QED
    BY <1>3, <2>1 DEF Mapped
<1>5. \A y, z \in mapped : PlacedAt(y) = PlacedAt(z) => y = z
  <2>1. \A z \in ZoneNames : InPlace(z, PlacedAt(z)) /\ PlacedAt(z) \in Nat
    BY ZoneLayout, SMT DEF InPlace
  <2> QED
    BY <1>3, <2>1, OneZone
<1>6. \A z \in mapped : PlacedAt(z) + DistanceToNextAlignment(PlacedAt(z)) = PlacedAt(z)
  BY <1>3, ZoneLayout, SMT
<1>7. DOMAIN heap' = { PlacedAt(z) : z \in mapped }
  BY <1>1, <1>6
<1>8. ASSUME NEW z \in mapped PROVE heap'[PlacedAt(z)] = FirstChunk(z)
  <2>1. PlacedAt(z) \in { PlacedAt(y) + DistanceToNextAlignment(PlacedAt(y)) : y \in mapped }
    BY <1>6
  <2>2. \A y \in mapped :
          PlacedAt(z) = PlacedAt(y) + DistanceToNextAlignment(PlacedAt(y)) <=> y = z
    BY <1>5, <1>6
  <2>3. (CHOOSE y \in mapped :
           PlacedAt(z) = PlacedAt(y) + DistanceToNextAlignment(PlacedAt(y))) = z
    BY <2>2
  <2> QED
    BY <1>1, <2>1, <2>3
<1>9. ASSUME NEW z \in mapped
      PROVE  /\ heap'[PlacedAt(z)].size = ZoneSize(z) - 16
             /\ heap'[PlacedAt(z)].size % 16 = 0 /\ PlacedAt(z) % 16 = 0
             /\ ChunkEnd(heap', PlacedAt(z)) = PlacedEnd(z)
             /\ InPlace(z, PlacedAt(z)) /\ PlacedEnd(z) \in Nat
             /\ ~Trap(heap', PlacedAt(z))
  <2>1. heap'[PlacedAt(z)].size = ZoneSize(z) - DistanceToNextAlignment(PlacedAt(z)) - 16
    <3>1. FirstChunk(z).size = ZoneSize(z) - DistanceToNextAlignment(PlacedAt(z)) - 16
      BY DEF FirstChunk, HEADER
    <3>2. heap'[PlacedAt(z)] = FirstChunk(z)
      BY <1>8
    <3> QED
      BY <3>1, <3>2
  <2>2. z \in ZoneNames
    BY <1>3
  <2>3. heap'[PlacedAt(z)].size = ZoneSize(z) - 16
    BY <2>1, <2>2, ZoneLayout, SMT
  <2>4. ChunkEnd(heap', PlacedAt(z)) = PlacedAt(z) + 16 + (ZoneSize(z) - 16)
    BY <2>3 DEF ChunkEnd
  <2>5. /\ PlacedAt(z) \in Nat /\ ZoneSize(z) \in Nat /\ ZoneSize(z) >= 32
        /\ PlacedAt(z) % 16 = 0 /\ ZoneSize(z) % 16 = 0
        /\ PlacedEnd(z) = PlacedAt(z) + ZoneSize(z)
    BY <2>2, ZoneLayout
  <2>6. (ZoneSize(z) - 16) % 16 = 0 /\ PlacedAt(z) + 16 + (ZoneSize(z) - 16) = PlacedEnd(z)
    BY <2>5, SMT
  <2>7. InPlace(z, PlacedAt(z)) /\ PlacedEnd(z) \in Nat
    BY <2>5, SMT DEF InPlace
  <2>8. PlacedEnd(z) < SizeMod - 64
    BY <2>2, ZoneLayout
  <2>9. ~Trap(heap', PlacedAt(z))
    BY <2>3, <2>5, <2>8, LayoutAssumption, SMT DEF Trap
  <2> QED
    BY <2>3, <2>4, <2>5, <2>6, <2>7, <2>9
<1>10. Tiled(heap', mapped)
  <2>1. HeaderMap(heap')
    BY DEF LargeInv, TypeOK, MemoryOK, HeaderMap
  <2>2. \A a \in DOMAIN heap' : \E z \in mapped : Seated(heap', z, a)
    <3> SUFFICES ASSUME NEW z \in mapped PROVE Seated(heap', z, PlacedAt(z))
      BY <1>7
    <3> QED
      BY <1>9, SMT DEF Seated
  <2>3. ASSUME NEW y \in mapped, NEW z \in mapped, PlacedAt(y) < PlacedAt(z)
        PROVE  ChunkEnd(heap', PlacedAt(y)) <= PlacedAt(z)
    <3>1. PlacedEnd(y) <= PlacedAt(z)
      <4>1. y \in ZoneNames /\ z \in ZoneNames /\ PlacedAt(y) \in Nat
        BY <1>3, ZoneLayout
      <4> QED
        BY <1>9, <2>3, <4>1, PlacedApart
    <3> QED
      BY <1>9, <3>1
  <2> QED
    BY <1>7, <1>9, <2>1, <2>2, <2>3 DEF Tiled
<1>11. OwnedZone'
  <2>1. DOMAIN heap = {}
    <3>1. Mapped = {}
      BY <1>2 DEF ZoneInv, NothingMapped, Mapped
    <3> QED
      BY <3>1 DEF ZoneInv, Tiled
  <2> QED
    BY <1>2, <2>1 DEF ZoneInv, OwnedZone, ZoneHeld
<1>12. NewBlock' /\ OldListed' /\ SmallRequest' /\ NothingMapped'
  BY <1>2 DEF NewBlock, OldListed, SmallRequest, NothingMapped, Running
<1>13. Sound'
  BY <1>7, <1>9 DEF Sound, NoTraps
<1>14. DefragInv' /\ DamageLasts'
  BY <1>2, NoDefrag DEF ZoneInv, DamageLasts
<1> QED
  BY <1>4, <1>10, <1>11, <1>12, <1>13, <1>14 DEF ZoneInv

LEMMA ZoneCleanup ==
  ASSUME ZoneInv, LargeInv', CleanupPreAllocatedZones
  PROVE  ZoneInv'
<1>1. /\ pc = "idle" /\ phase' = "exited"
      /\ UNCHANGED <<base, heap, large, pc, call, cur, live, lost>>
  BY DEF CleanupPreAllocatedZones
<1>2. Tiled(heap, Mapped)' /\ OwnedZone' /\ Sound'
  BY <1>1 DEF ZoneInv, Mapped, OwnedZone, Sound, NoTraps
<1>3. NewBlock' /\ OldListed' /\ SmallRequest' /\ NothingMapped'
  BY <1>1 DEF NewBlock, OldListed, SmallRequest, NothingMapped, Running
<1>4. DefragInv' /\ DamageLasts'
  BY <1>1, NoDefrag DEF ZoneInv, DamageLasts
<1> QED
  BY <1>2, <1>3, <1>4 DEF ZoneInv

-----------------------------------------------------------------------------
LEMMA ZoneInit == Init /\ DamageLasts => ZoneInv
<1> SUFFICES ASSUME Init, DamageLasts PROVE ZoneInv
  OBVIOUS
<1>1. Mapped = {} /\ DOMAIN heap = {} /\ LargeInv
  BY LargeInit DEF Init, Mapped
<1>2. Tiled(heap, Mapped)
  <2>1. HeaderMap(heap)
    BY <1>1 DEF LargeInv, TypeOK, MemoryOK, HeaderMap
  <2> QED
    BY <1>1, <2>1 DEF Tiled
<1>3. /\ OwnedZone /\ NewBlock /\ OldListed /\ SmallRequest /\ NothingMapped
      /\ Sound /\ DefragInv
  BY <1>1 DEF Init, OwnedZone, NewBlock, OldListed, SmallRequest, NothingMapped, Running,
              Sound, NoTraps, DefragInv
<1> QED
  BY <1>1, <1>2, <1>3 DEF ZoneInv

LEMMA ZoneStep == ZoneInv /\ [Next]_vars => ZoneInv'
<1> SUFFICES ASSUME ZoneInv, [Next]_vars PROVE ZoneInv'
  OBVIOUS
<1>0. LargeInv' /\ TypeOK
  BY LargeStep DEF ZoneInv, LargeInv
<1>1. CASE InitializePreAllocatedZones
  BY <1>0, <1>1, ZoneInitialize
<1>2. CASE CleanupPreAllocatedZones
  BY <1>0, <1>2, ZoneCleanup
<1>3. CASE ClientCall
  <2>1. ASSUME NEW n \in Requests, Malloc(n) PROVE ZoneInv'
    <3>1. n \in Nat
      BY ClientAssumption DEF SizeT
    <3>2. IsLarge(NULL) => NULL \in DOMAIN large
      BY LargeShape
    <3> QED
      BY <1>0, <2>1, <3>1, <3>2, ZoneFtMalloc DEF Malloc
  <2>2. ASSUME NEW p \in DOMAIN live \cup WildPointers, Free(p) PROVE ZoneInv'
    <3>1. p \in Nat
      BY <1>0, ClientAssumption DEF TypeOK, CallOK
    <3> QED
      BY <1>0, <2>2, <3>1, ZoneFree
  <2>3. ASSUME NEW p \in DOMAIN live, NEW n \in Requests, Realloc(p, n) PROVE ZoneInv'
    BY <1>0, <2>3, ClientAssumption, ZoneRealloc
  <2> QED
    BY <1>3, <2>1, <2>2, <2>3 DEF ClientCall
<1>4. CASE DefragSection \/ DefragPastEnd
  BY <1>0, <1>4, ZoneDefrag
<1>5. CASE Place
  BY <1>0, <1>5, ZonePlace
<1>6. CASE CreateLargeChunk
  BY <1>0, <1>6, ZoneCreate
<1>7. CASE CopyAndFree
  BY <1>0, <1>7, ZoneCopy
<1>8. CASE UNCHANGED vars
  <2>1. Tiled(heap, Mapped)' /\ OwnedZone' /\ Sound' /\ DamageLasts'
    BY <1>8 DEF vars, ZoneInv, Mapped, OwnedZone, Sound, NoTraps, DamageLasts
  <2>2. NewBlock' /\ OldListed' /\ SmallRequest' /\ NothingMapped'
    BY <1>8 DEF vars, ZoneInv, NewBlock, OldListed, SmallRequest, NothingMapped
  <2>3. DefragInv'
    BY <1>8 DEF vars, ZoneInv, DefragInv, Defragging, Walked, Initialised, NoTraps
  <2> QED
    BY <1>0, <2>1, <2>2, <2>3 DEF ZoneInv
<1> QED
  BY <1>1, <1>2, <1>3, <1>4, <1>5, <1>6, <1>7, <1>8 DEF Next, RunningCall

-----------------------------------------------------------------------------
\* No step removes a trap.
LEMMA TrapsRemain == ZoneInv /\ [Next]_vars => TrapsStay
<1> SUFFICES ASSUME ZoneInv, [Next]_vars PROVE TrapsStay
  OBVIOUS
<1>1. /\ TypeOK /\ MemoryOK /\ Tiled(heap, Mapped) /\ DamageLasts /\ Sound
      /\ call.ptr \in Nat /\ \A p \in DOMAIN live \cup WildPointers : p \in Nat
  BY ClientAssumption DEF ZoneInv, LargeInv, TypeOK, CallOK
<1>2. CASE heap' = heap
  BY <1>2 DEF TrapsStay
<1>3. CASE InitializePreAllocatedZones
  <2>1. Mapped = {}
    BY <1>3 DEF InitializePreAllocatedZones, ZoneInv, NothingMapped, Mapped
  <2> QED
    BY <1>1, <2>1 DEF Tiled, TrapsStay
<1>4. CASE CleanupPreAllocatedZones \/ UNCHANGED vars
  BY <1>2, <1>4 DEF CleanupPreAllocatedZones, vars
<1>5. CASE ClientCall
  <2>1. ASSUME NEW p, NEW n, FtMalloc(p, n) PROVE heap' = heap
    BY <2>1 DEF FtMalloc, Crash, Stop, memory, vars
  <2>2. CASE Hang \/ Crash \/ UNCHANGED vars
    BY <1>2, <2>2 DEF Hang, Crash, Stop, memory, vars
  <2>3. ASSUME NEW p \in DOMAIN live \cup WildPointers, Release(p) PROVE TrapsStay
    BY <1>1, <2>3, ZoneRelease
  <2>4. ASSUME NEW p \in DOMAIN live, NEW n \in Requests, NEW z \in ZoneNames, NEW t,
               InZone(p, z), ConsecutiveFree(ToNext(heap, ChunkOf(p)), t), Resize(p, n, t)
        PROVE  TrapsStay
    BY <2>4, ResizeHeap, ClientAssumption
  <2> QED
    BY <1>2, <1>5, <2>1, <2>2, <2>3, <2>4 DEF ClientCall, Malloc, Free, Realloc, ResizeCrashes
<1>6. CASE DefragSection \/ DefragPastEnd
  <2>1. CASE Hang \/ Crash \/ EndSection
    BY <1>2, <2>1 DEF Hang, Crash, Stop, EndSection, memory
  <2>2. ASSUME NEW first \in DOMAIN heap, NEW t, ConsecutiveFree(ToNext(heap, first), t),
               DefragChunk(first, t)
        PROVE  TrapsStay
    <3>1. heap' = heap \/ heap' = Expanded(first, t)
      BY <2>2 DEF DefragChunk
    <3> QED
      BY <1>1, <1>2, <2>2, <3>1, GrowChunk DEF TrapsStay
  <2>3. \A s, e : Walk(heap, s, e) \subseteq DOMAIN heap
    BY DEF Walk
  <2> QED
    BY <1>6, <2>1, <2>2, <2>3 DEF DefragSection, DefragPastEnd
<1>7. CASE Place
  BY <1>7 DEF Place, ZoneInv, DefragInv, NoTraps, TrapsStay
<1>8. CASE CreateLargeChunk
  BY <1>2, <1>8 DEF CreateLargeChunk
<1>9. CASE CopyAndFree
  BY <1>1, <1>9, ZoneRelease DEF CopyAndFree
<1> QED
  BY <1>3, <1>4, <1>5, <1>6, <1>7, <1>8, <1>9 DEF Next, RunningCall

-----------------------------------------------------------------------------
\* What ZoneInv says of the walks.

LEMMA DamageIsTrap == ZoneInv => (Damaged <=> ~NoTraps)
<1> SUFFICES ASSUME ZoneInv PROVE Damaged <=> ~NoTraps
  OBVIOUS
<1>1. Tiled(heap, Mapped) /\ Mapped \in SUBSET ZoneNames
  BY DEF ZoneInv, Mapped
<1> QED
  BY <1>1, TiledNext DEF Damaged, NoTraps

LEMMA DamageIsTrapNext == ZoneInv' => (Damaged' <=> ~NoTraps')
  BY DamageIsTrap, PTL

LEMMA InvDamage == ZoneInv /\ ZoneInv' /\ [Next]_vars => (Damaged => Damaged')
  BY TrapsRemain, DamageIsTrap, DamageIsTrapNext DEF TrapsStay, NoTraps

LEMMA InvSound == ZoneInv => PlaceOnSoundHeap /\ (~ExactFits => ~Damaged)
  BY DamageIsTrap DEF ZoneInv, DefragInv, NoTraps, Sound, PlaceOnSoundHeap

LEMMA InvWalks == ZoneInv => WalksReadHeaders
<1> SUFFICES ASSUME ZoneInv, NEW z \in ZoneNames, NEW a \in Chunks(z)
             PROVE  ToNext(heap, a) \in Chunks(z) \cup {a, ToZoneEnd(z)}
  BY DEF WalksReadHeaders
<1>1. Tiled(heap, Mapped) /\ Mapped \in SUBSET ZoneNames /\ MemoryOK
  BY DEF ZoneInv, LargeInv, TypeOK, Mapped
<1>2. /\ z \in Mapped /\ a \in DOMAIN heap /\ Seated(heap, z, a)
      /\ ToZoneEnd(z) = PlacedEnd(z) /\ ToFirstChunk(z) = PlacedAt(z)
      /\ PlacedAt(z) \in Nat /\ PlacedEnd(z) \in Nat
  BY <1>1, ChunkPlace, ZoneBounds
<1>3. CASE Trap(heap, a)
  BY <1>1, <1>2, <1>3, TiledNext
<1>4. CASE ~Trap(heap, a)
  <2> DEFINE next == ChunkEnd(heap, a)
  <2>1. ToNext(heap, a) = next
    BY <1>1, <1>2, <1>4, TiledNext
  <2>2. /\ a \in Nat /\ next \in Nat /\ a < next
        /\ next <= PlacedEnd(z) /\ next \in DOMAIN heap \cup {PlacedEnd(z)}
        /\ PlacedAt(z) <= a
    BY <1>1, <1>2, <1>4, TiledTypes DEF Tiled, Seated, InPlace
  <2>3. ASSUME next # PlacedEnd(z) PROVE next \in Chunks(z)
    <3>1. next \in DOMAIN heap /\ PlacedAt(z) <= next /\ next < PlacedEnd(z)
      BY <1>2, <2>2, <2>3, SMT
    <3>2. ASSUME NEW b \in DOMAIN heap, PlacedAt(z) <= b, Trap(heap, b) PROVE next <= b
      <4>1. a <= b
        BY <1>1, <1>2, <3>2, TiledWalk DEF Chunks
      <4>2. a < b
        BY <1>1, <1>4, <2>2, <3>2, <4>1, SMT DEF MemoryOK
      <4> QED
        BY <1>1, <1>2, <1>4, <3>2, <4>2 DEF Tiled
    <3> QED
      BY <1>1, <1>2, <3>1, <3>2, TiledWalk DEF Chunks
  <2> QED
    BY <1>2, <2>1, <2>3
<1> QED
  BY <1>3, <1>4

LEMMA InvTiles == ZoneInv => ChunksTileZones
<1> SUFFICES ASSUME ZoneInv, ~Damaged, NEW z \in ZoneNames, base[z] # NULL
             PROVE  ChunksTileZone(z)
  BY DEF ChunksTileZones
<1>1. Tiled(heap, Mapped) /\ Mapped \in SUBSET ZoneNames /\ MemoryOK
  BY DEF ZoneInv, LargeInv, TypeOK, Mapped
<1>2. z \in Mapped /\ \A a \in DOMAIN heap : ~Trap(heap, a)
  BY DamageIsTrap DEF Mapped, NoTraps
<1>3. /\ ToFirstChunk(z) = PlacedAt(z) /\ ToZoneEnd(z) = PlacedEnd(z)
      /\ PlacedAt(z) \in Nat /\ PlacedEnd(z) \in Nat /\ PlacedAt(z) < PlacedEnd(z)
  BY <1>1, <1>2, ZoneBounds
<1>4. Inside(z) = { a \in DOMAIN heap : InPlace(z, a) }
  BY <1>3 DEF Inside, InPlace
<1>5. ToFirstChunk(z) \in Inside(z)
  BY <1>1, <1>2, <1>3, <1>4, SMT DEF Tiled, InPlace
<1>6. ASSUME NEW a \in Inside(z)
      PROVE  /\ ToNext(heap, a) \in Inside(z) \cup {ToZoneEnd(z)}
             /\ \A b \in Inside(z) : a < b => ToNext(heap, a) <= b
  <2>1. a \in DOMAIN heap /\ InPlace(z, a)
    BY <1>4, <1>6
  <2>2. /\ ToNext(heap, a) = ChunkEnd(heap, a) /\ a \in Nat
        /\ ChunkEnd(heap, a) \in Nat /\ a < ChunkEnd(heap, a)
    BY <1>1, <1>2, <2>1, TiledNext, TiledTypes DEF Tiled
  <2>3. PICK y \in Mapped : Seated(heap, y, a)
    BY <1>1, <2>1 DEF Tiled
  <2>4. y = z
    BY <1>1, <2>1, <2>2, <2>3, OneZone DEF Seated
  <2>5. ChunkEnd(heap, a) <= PlacedEnd(z) /\ ChunkEnd(heap, a) \in DOMAIN heap \cup {PlacedEnd(z)}
    BY <1>2, <2>1, <2>3, <2>4 DEF Seated
  <2>6. ChunkEnd(heap, a) # PlacedEnd(z) => InPlace(z, ChunkEnd(heap, a))
    BY <1>3, <2>1, <2>2, <2>5, SMT DEF InPlace
  <2>7. ToNext(heap, a) \in Inside(z) \cup {ToZoneEnd(z)}
    BY <1>3, <1>4, <2>2, <2>5, <2>6
  <2>8. \A b \in Inside(z) : a < b => ToNext(heap, a) <= b
    BY <1>1, <1>2, <1>4, <2>1, <2>2 DEF Tiled
  <2> QED
    BY <2>7, <2>8
<1> QED
  BY <1>5, <1>6 DEF ChunksTileZone

-----------------------------------------------------------------------------
\* What ZoneInv says of the blocks.

\* Block p of n bytes, of the client or about to be the client's.
BlockHeld(p, n) ==
  /\ p \in Nat /\ n \in SizeT
  /\ IsLarge(p) => LargeHeld(maps, large, p, n)
  /\ ~IsLarge(p) => ZoneHeld(heap, p, n)

LEMMA OwnedBlock ==
  ASSUME ZoneInv, NEW p \in DOMAIN live
  PROVE  BlockHeld(p, live[p])
  BY DEF ZoneInv, OwnedZone, LargeInv, OwnedLarge, TypeOK, CallOK, BlockHeld

LEMMA NewBlockHeld ==
  ASSUME ZoneInv, pc = "copy"
  PROVE  BlockHeld(call.new, call.size)
  BY DEF ZoneInv, NewBlock, LargeInv, NewLarge, TypeOK, CallOK, Running, BlockHeld

\* Where a block of a zone lies, and how far it reaches.
LEMMA ZoneBlock ==
  ASSUME ZoneInv, NEW p, NEW n, BlockHeld(p, n), ~IsLarge(p)
  PROVE  /\ ChunkOf(p) \in DOMAIN heap /\ ChunkOf(p) \in Nat /\ p = ChunkOf(p) + 16
         /\ Room(heap, ChunkOf(p), n)
         /\ \E z \in ZoneNames : /\ PlacedAt(z) <= ChunkOf(p) /\ ChunkOf(p) < PlacedEnd(z)
                                 /\ Fits(n) => p + n <= PlacedEnd(z)
<1>1. /\ ZoneHeld(heap, p, n) /\ Tiled(heap, Mapped)
      /\ p \in Nat /\ Mapped \in SUBSET ZoneNames
  BY DEF ZoneInv, BlockHeld, Mapped
<1>2. ChunkOf(p) \in DOMAIN heap /\ Room(heap, ChunkOf(p), n) /\ p = ChunkOf(p) + 16
  BY <1>1, Pointers DEF ZoneHeld
<1>3. ChunkOf(p) \in Nat
  BY <1>1, <1>2 DEF Tiled, HeaderMap
<1>4. PICK z \in Mapped : Seated(heap, z, ChunkOf(p))
  BY <1>1, <1>2 DEF Tiled
<1>5. z \in ZoneNames /\ InPlace(z, ChunkOf(p))
  BY <1>1, <1>4 DEF Seated
<1>6. Fits(n) => p + n <= PlacedEnd(z)
  BY <1>2, <1>5 DEF Room
<1> QED
  BY <1>2, <1>3, <1>5, <1>6 DEF InPlace

\* The size in the header of a block's chunk covers the block, also where the
\* header is a trap.
LEMMA ChunkCovers ==
  ASSUME ZoneInv, NEW p, NEW n \in SizeT, ZoneHeld(heap, p, n), Fits(n)
  PROVE  /\ ChunkOf(p) \in DOMAIN heap /\ heap[ChunkOf(p)].size \in Nat
         /\ n <= heap[ChunkOf(p)].size
<1>1. Tiled(heap, Mapped) /\ Mapped \in SUBSET ZoneNames /\ ChunkOf(p) \in DOMAIN heap
      /\ Room(heap, ChunkOf(p), n)
  BY DEF ZoneInv, Mapped, ZoneHeld
<1>2. heap[ChunkOf(p)].size \in Nat
  BY <1>1, TiledTypes DEF Tiled
<1>3. CASE ~Trap(heap, ChunkOf(p))
  BY <1>1, <1>2, <1>3, RoomIsSize
<1>4. CASE Trap(heap, ChunkOf(p))
  <2>1. n \in Nat /\ n + 39 < SizeMod
    BY LayoutAssumption, SMT DEF SizeT, Fits, ALIGNMENT, LARGE_HEADER
  <2>2. n <= SizeMod - 16
    BY <2>1, LayoutAssumption, SMT
  <2> QED
    BY <1>1, <1>2, <1>4, <2>2 DEF Trap
<1> QED
  BY <1>3, <1>4

LEMMA InvHolds == ZoneInv => ZoneBlocksHeld
<1> SUFFICES ASSUME ZoneInv, ~Damaged, NEW p \in DOMAIN live, ~IsLarge(p), Fits(live[p])
             PROVE  /\ ChunkOf(p) \in DOMAIN heap
                    /\ ~heap[ChunkOf(p)].free
                    /\ live[p] <= heap[ChunkOf(p)].size
  BY DEF ZoneBlocksHeld
<1>1. ZoneHeld(heap, p, live[p]) /\ live[p] \in SizeT
  BY DEF ZoneInv, OwnedZone, LargeInv, TypeOK, CallOK
<1>2. ~Trap(heap, ChunkOf(p))
  BY <1>1, DamageIsTrap DEF ZoneHeld, NoTraps
<1> QED
  BY <1>1, <1>2, ChunkCovers DEF ZoneHeld

LEMMA InvCopies == ZoneInv => CopyFits
<1> SUFFICES ASSUME ZoneInv, pc = "copy", Fits(call.size), Fits(live[call.ptr])
             PROVE  /\ MinOf(live[call.ptr], call.size) <= CopyLength
                    /\ CopyLength <= Capacity(call.ptr)
                    /\ CopyLength <= Capacity(call.new)
  BY DEF CopyFits
<1>1. /\ TypeOK /\ call.size \in SizeT /\ call.ptr \in DOMAIN live
      /\ call.ptr # NULL /\ live[call.ptr] \in SizeT
  BY DEF ZoneInv, LargeInv, TypeOK, CallOK, OldOwned, NewBlock, Running
<1>2. call.size \in Nat /\ live[call.ptr] \in Nat
  BY <1>1 DEF SizeT
<1>3. IsLarge(call.ptr) <=> call.ptr \in DOMAIN large
  BY <1>1 DEF ZoneInv, OldListed, Running, TypeOK, MemoryOK, IsLarge
<1>4. Capacity(call.ptr) \in Nat /\ live[call.ptr] <= Capacity(call.ptr)
  <2>1. CASE IsLarge(call.ptr)
    <3>1. call.ptr \in DOMAIN large /\ live[call.ptr] <= large[call.ptr]
      BY <1>1, <1>3, <2>1 DEF ZoneInv, LargeInv, OwnedLarge, LargeHeld
    <3>2. large[call.ptr] \in Nat
      BY <1>1, <3>1 DEF TypeOK, MemoryOK, SizeT
    <3> QED
      BY <2>1, <3>1, <3>2 DEF Capacity
  <2>2. CASE ~IsLarge(call.ptr)
    <3>1. ZoneHeld(heap, call.ptr, live[call.ptr])
      BY <1>1, <2>2 DEF ZoneInv, OwnedZone
    <3> QED
      BY <1>1, <2>2, <3>1, ChunkCovers DEF Capacity
  <2> QED
    BY <2>1, <2>2
<1>5. Capacity(call.new) \in Nat /\ call.size <= Capacity(call.new)
  <2>1. CASE IsLarge(call.new)
    <3>1. call.new \in DOMAIN large /\ call.size <= large[call.new]
      BY <2>1 DEF ZoneInv, NewBlock, LargeInv, NewLarge, LargeHeld
    <3>2. large[call.new] \in Nat
      BY <1>1, <3>1 DEF TypeOK, MemoryOK, SizeT
    <3> QED
      BY <2>1, <3>1, <3>2 DEF Capacity
  <2>2. CASE ~IsLarge(call.new)
    <3>1. ZoneHeld(heap, call.new, call.size)
      BY <2>2 DEF ZoneInv, NewBlock
    <3> QED
      BY <1>1, <2>2, <3>1, ChunkCovers DEF Capacity
  <2> QED
    BY <2>1, <2>2
<1>6. CopyLength = MinOf(Capacity(call.ptr), call.size)
  BY <1>3 DEF CopyLength, Capacity
<1> QED
  BY <1>2, <1>4, <1>5, <1>6, SMT DEF MinOf

\* A block that fits ends before the header of the next one.
LEMMA TwoBlocks ==
  ASSUME ZoneInv, NEW p, NEW n, BlockHeld(p, n), Fits(n), NEW q, NEW k, BlockHeld(q, k), p < q
  PROVE  p + n <= q - (IF IsLarge(q) THEN LARGE_HEADER ELSE HEADER)
<1>1. p \in Nat /\ q \in Nat /\ n \in Nat
  BY DEF BlockHeld, SizeT
<1>2. ~IsLarge(q) => ChunkOf(q) \in DOMAIN heap /\ ChunkOf(q) \in Nat /\ q = ChunkOf(q) + 16
  BY ZoneBlock
<1>3. CASE ~IsLarge(p)
  <2>1. ChunkOf(p) \in Nat /\ p = ChunkOf(p) + 16 /\ Room(heap, ChunkOf(p), n)
    BY <1>3, ZoneBlock
  <2>2. PICK y \in ZoneNames : /\ PlacedAt(y) <= ChunkOf(p) /\ ChunkOf(p) < PlacedEnd(y)
                               /\ p + n <= PlacedEnd(y)
    BY <1>3, ZoneBlock
  <2>3. PlacedAt(y) \in Nat /\ PlacedEnd(y) \in Nat
    BY ZoneLayout, SMT
  <2>4. CASE ~IsLarge(q)
    <3>1. ChunkOf(p) < ChunkOf(q)
      BY <1>1, <1>2, <2>1, <2>4, SMT
    <3>2. ChunkOf(p) + 16 + n <= ChunkOf(q)
      BY <1>2, <2>1, <2>4, <3>1 DEF Room
    <3> QED
      BY <1>1, <1>2, <2>1, <2>4, <3>2, SMT DEF HEADER
  <2>5. CASE IsLarge(q)
    <3>1. ToBase(q) \in Nat /\ q = ToBase(q) + 32 /\ ToBase(q) \in LargeBases
      BY <2>5, LargeShape
    <3>2. ToBase(q) + 32 <= PlacedAt(y) \/ PlacedEnd(y) <= ToBase(q)
      BY <3>1, LayoutAssumption
    <3> QED
      BY <1>1, <2>1, <2>2, <2>3, <2>5, <3>1, <3>2, SMT DEF LARGE_HEADER
  <2> QED
    BY <2>4, <2>5
<1>4. CASE IsLarge(p)
  <2>1. /\ ToBase(p) \in Nat /\ p = ToBase(p) + 32 /\ ToBase(p) \in LargeBases
        /\ ToBase(p) \in DOMAIN maps /\ p + n <= ToBase(p) + maps[ToBase(p)]
    BY <1>4, LargeShape DEF BlockHeld, LargeHeld
  <2>2. Apart(maps, ToBase(p)) /\ maps[ToBase(p)] \in Nat
    BY <2>1 DEF ZoneInv, LargeInv, MappingsApart, TypeOK, MemoryOK
  <2>3. CASE ~IsLarge(q)
    <3>1. PICK y \in ZoneNames : PlacedAt(y) <= ChunkOf(q) /\ ChunkOf(q) < PlacedEnd(y)
      BY <2>3, ZoneBlock
    <3>2. ToBase(p) + maps[ToBase(p)] <= PlacedAt(y) \/ PlacedEnd(y) <= ToBase(p)
      BY <2>2 DEF Apart
    <3>3. PlacedAt(y) \in Nat /\ PlacedEnd(y) \in Nat
      BY ZoneLayout, SMT
    <3> QED
      BY <1>1, <1>2, <2>1, <2>2, <2>3, <3>1, <3>2, <3>3, SMT DEF HEADER
  <2>4. CASE IsLarge(q)
    <3>1. /\ ToBase(q) \in Nat /\ q = ToBase(q) + 32 /\ ToBase(q) \in LargeBases
          /\ ToBase(q) \in DOMAIN maps
      BY <2>4, LargeShape DEF BlockHeld, LargeHeld
    <3>2. ToBase(p) < ToBase(q)
      BY <1>1, <2>1, <3>1, SMT
    <3>3. ToBase(p) + maps[ToBase(p)] <= ToBase(q)
      BY <2>2, <3>1, <3>2 DEF Apart
    <3> QED
      BY <1>1, <2>1, <2>2, <2>4, <3>1, <3>3, SMT DEF LARGE_HEADER
  <2> QED
    BY <2>3, <2>4
<1> QED
  BY <1>3, <1>4

LEMMA InvDisjoint == ZoneInv => BlocksDisjoint
<1> SUFFICES ASSUME ZoneInv, NEW p \in DOMAIN live, NEW q \in DOMAIN live, p < q, Fits(live[p])
             PROVE  p + live[p] <= q - (IF IsLarge(q) THEN LARGE_HEADER ELSE HEADER)
  BY DEF BlocksDisjoint
<1> QED
  BY OwnedBlock, TwoBlocks

-----------------------------------------------------------------------------
LEMMA ZoneAlways == Spec /\ DamageLasts => []ZoneInv
  BY ZoneInit, ZoneStep, PTL DEF Spec

\* Only an exact fit can damage a zone.
THEOREM NeverDamaged == Spec /\ ~ExactFits => [](~Damaged)
<1> SUFFICES ASSUME ~ExactFits PROVE Spec => [](~Damaged)
  OBVIOUS
<1>1. DamageLasts /\ (ZoneInv => ~Damaged)
  BY InvSound DEF DamageLasts
<1> QED
  BY <1>1, ZoneAlways, PTL

\* Damage, once done, stays: no call repairs a zone, or writes over the trap.
THEOREM DamageRemains == Spec /\ DamageLasts => DamageStays
<1>1. ZoneInv /\ [Next]_vars => ZoneInv'
  BY ZoneStep
<1>2. ZoneInv /\ ZoneInv' /\ [Next]_vars => [Damaged => Damaged']_vars
  BY InvDamage
<1> QED
  BY <1>1, <1>2, ZoneInit, PTL DEF Spec, DamageStays

\* malloc never chooses a chunk from a damaged heap: defrag hangs first.
THEOREM PlacementSound == Spec /\ DamageLasts => []PlaceOnSoundHeap
  BY ZoneAlways, InvSound, PTL

\* Every walk, also of a damaged zone, reads headers only.
THEOREM WalksSound == Spec /\ DamageLasts => []WalksReadHeaders
  BY ZoneAlways, InvWalks, PTL

\* The chunks of each mapped zone cover it without gaps or overlaps, whatever
\* is split, grown, taken and given back, and in every phase of the process.
THEOREM ZonesTiled == Spec /\ DamageLasts => []ChunksTileZones
  BY ZoneAlways, InvTiles, PTL

\* A block in a zone keeps a chunk in use that is as large as was asked for.
THEOREM ZoneBlocksSafe == Spec /\ DamageLasts => []ZoneBlocksHeld
  BY ZoneAlways, InvHolds, PTL

\* No block overlaps another one or another one's header, on damaged zones too.
THEOREM BlocksApart == Spec /\ DamageLasts => []BlocksDisjoint
  BY ZoneAlways, InvDisjoint, PTL

\* realloc copies all of the bytes that both sizes have, within both blocks.
THEOREM CopiesSafe == Spec /\ DamageLasts => []CopyFits
  BY ZoneAlways, InvCopies, PTL

-----------------------------------------------------------------------------
(***************************************************************************)
(* Leaks                                                                   *)
(***************************************************************************)
InUse(h) == { a \in DOMAIN h : ~h[a].free }

Known == DOMAIN live \cup {call.new}
ChunksKnown == \A a \in InUse(heap) : Mem(a) \in Known
ListKnown == DOMAIN large \subseteq Known
MappingsKnown ==
  { b \in DOMAIN maps : b \in LargeBases } = { ToBase(m) : m \in DOMAIN large } \cup lost

\* Without it, unmapping a listed chunk could also take a lost one away.
LostUnlisted == \A m \in DOMAIN large : ToBase(m) \notin lost

\* A block that has been delivered is the client's, or is about to be copied to.
NewIsNull == pc \in {"idle", "defrag", "place", "map"} => call.new = NULL

LeakInv ==
  /\ ZoneInv
  /\ Damaged \/ ChunksKnown
  /\ ListKnown
  /\ MappingsKnown
  /\ LostUnlisted
  /\ NewIsNull

-----------------------------------------------------------------------------
\* Growing and splitting take no chunk into use.
LEMMA ExpandUses ==
  ASSUME NEW h, HeaderMap(h), NEW a \in DOMAIN h, NEW by, NEW g, g = Expand(h, a, by)
  PROVE  InUse(g) \subseteq InUse(h)
<1> DEFINE main == [h[a] EXCEPT !.size = Wrap(@ + by)]
           keep == { c \in DOMAIN h : c = a \/ ~(ToNext(h, a) <= c /\ c < ToNext(h, a) + by) }
<1>1. h[a] \in [size : SizeT, free : BOOLEAN]
  BY DEF HeaderMap, Header
<1>2. main.free = h[a].free
  BY <1>1
<1>3. g = h \/ g = [b \in keep |-> IF b = a THEN main ELSE h[b]]
  BY DEF Expand
<1>4. keep \subseteq DOMAIN h
  OBVIOUS
<1> HIDE DEF main, keep
<1> QED
  BY <1>2, <1>3, <1>4 DEF InUse

LEMMA SplitUses ==
  ASSUME NEW h, HeaderMap(h), NEW a \in DOMAIN h, NEW goal, NEW g, g = SplitChunk(h, a, goal)
  PROVE  InUse(g) \subseteq InUse(h)
<1> DEFINE main == [h[a] EXCEPT !.size = goal]
           rest == [size |-> Wrap(h[a].size - goal - HEADER), free |-> TRUE]
<1>1. h[a] \in [size : SizeT, free : BOOLEAN]
  BY DEF HeaderMap, Header
<1>2. main.free = h[a].free /\ rest.free
  BY <1>1
<1>3. g = [b \in DOMAIN h \cup {RestOf(a, goal)} |->
             IF b = a THEN main ELSE IF b = RestOf(a, goal) THEN rest ELSE h[b]]
  BY DEF SplitChunk
<1> HIDE DEF main, rest
<1> QED
  BY <1>2, <1>3 DEF InUse

LEMMA ResizeUses ==
  ASSUME MemoryOK, NEW p, ChunkOf(p) \in DOMAIN heap, NEW n, NEW t, Resize(p, n, t),
         HeaderMap(Expanded(ChunkOf(p), t)), ChunkOf(p) \in DOMAIN Expanded(ChunkOf(p), t)
  PROVE  InUse(heap') \subseteq InUse(heap)
<1> DEFINE a == ChunkOf(p)
           grown == Expanded(a, t)
           split == SplitChunk(grown, a, AlignUp(n))
<1>1. HeaderMap(heap)
  BY DEF MemoryOK, HeaderMap
<1>2. InUse(grown) \subseteq InUse(heap)
  BY <1>1, ExpandUses DEF Expanded
<1>3. InUse(split) \subseteq InUse(grown)
  BY SplitUses
<1>4. heap' = split \/ heap' = [b \in DOMAIN grown |-> split[b]]
  BY DEF Resize
<1>5. DOMAIN grown \subseteq DOMAIN split
  BY DEF SplitChunk
<1> HIDE DEF grown, split
<1>6. InUse(heap') \subseteq InUse(split)
  BY <1>4, <1>5 DEF InUse
<1> QED
  BY <1>2, <1>3, <1>6

-----------------------------------------------------------------------------
\* Steps that give nothing out and touch no large chunk.
LEMMA LeakFrame ==
  ASSUME LeakInv, ZoneInv', Damaged => Damaged', InUse(heap') \subseteq InUse(heap),
         UNCHANGED <<large, maps, lost>>, Known \subseteq Known', NewIsNull'
  PROVE  LeakInv'
<1>1. Damaged' \/ ChunksKnown'
  BY DEF LeakInv, ChunksKnown
<1>2. ListKnown' /\ MappingsKnown' /\ LostUnlisted'
  BY DEF LeakInv, ListKnown, MappingsKnown, LostUnlisted
<1> QED
  BY <1>1, <1>2 DEF LeakInv

LEMMA LeakStop ==
  ASSUME LeakInv, ZoneInv', NEW how \in {"hung", "dead"}, Stop(how)
  PROVE  LeakInv'
<1>1. /\ UNCHANGED <<base, heap, large, maps, lost, live, call>> /\ pc' = how
  BY DEF Stop, memory
<1>2. Damaged' <=> Damaged
  BY <1>1 DEF Damaged
<1> QED
  BY <1>1, <1>2, LeakFrame DEF Known, NewIsNull

\* What the heap and the list hold is the client's, between two deliveries.
LEMMA AllOwned ==
  ASSUME LeakInv, pc \in {"idle", "defrag", "place", "map"}
  PROVE  /\ DOMAIN large \subseteq DOMAIN live
         /\ Damaged \/ \A a \in InUse(heap) : Mem(a) \in DOMAIN live
         /\ call.new = NULL
<1>1. call.new = NULL /\ MemoryOK /\ ListKnown
  BY DEF LeakInv, NewIsNull, ZoneInv, LargeInv, TypeOK
<1>2. NULL \notin DOMAIN large
  BY <1>1, LargeShape DEF MemoryOK, IsLarge
<1>3. \A a \in InUse(heap) : Mem(a) # NULL
  <2>1. \A a \in Nat : Mem(a) # NULL
    BY SMT DEF Mem, HEADER, NULL
  <2> QED
    BY <1>1, <2>1 DEF InUse, MemoryOK
<1> QED
  BY <1>1, <1>2, <1>3 DEF LeakInv, ListKnown, ChunksKnown, Known

LEMMA LeakDeliver ==
  ASSUME CallOK, pc \in {"place", "map"}, NewIsNull, NEW m, Deliver(m)
  PROVE  /\ DOMAIN live \subseteq Known'
         /\ m # NULL => m \in Known'
         /\ NewIsNull'
<1>1. CASE call.ptr = NULL \/ m = NULL
  <2>1. /\ pc' = "idle" /\ call' = NoCall
        /\ live' = IF m = NULL THEN live
                   ELSE [p \in DOMAIN live \cup {m} |-> IF p = m THEN call.size ELSE live[p]]
    BY <1>1 DEF Deliver
  <2>2. call'.new = NULL /\ DOMAIN live \subseteq DOMAIN live' /\ (m # NULL => m \in DOMAIN live')
    BY <2>1 DEF NoCall
  <2> QED
    BY <2>2 DEF Known, NewIsNull
<1>2. CASE ~(call.ptr = NULL \/ m = NULL)
  <2>1. pc' = "copy" /\ call' = [call EXCEPT !.new = m] /\ live' = live
    BY <1>2 DEF Deliver
  <2>2. call'.new = m
    BY <2>1 DEF CallOK
  <2> QED
    BY <2>1, <2>2 DEF Known, NewIsNull
<1> QED
  BY <1>1, <1>2

LEMMA LeakFtMalloc ==
  ASSUME LeakInv, ZoneInv', NEW p, NEW n, pc = "idle", FtMalloc(p, n)
  PROVE  LeakInv'
<1>1. CASE Crash
  BY <1>1, LeakStop DEF Crash
<1>2. CASE call' = [ptr |-> p, size |-> n, new |-> NULL] /\ UNCHANGED <<memory, phase, live>>
  <2>1. call'.new = NULL /\ call.new = NULL
    BY <1>2, AllOwned
  <2>2. (Damaged' <=> Damaged) /\ UNCHANGED <<heap, large, maps, lost>>
    BY <1>2 DEF Damaged, memory
  <2> QED
    BY <1>2, <2>1, <2>2, LeakFrame DEF Known, NewIsNull
<1>3. CASE UNCHANGED vars
  <2>1. Damaged' <=> Damaged
    BY <1>3 DEF Damaged, vars
  <2> QED
    BY <1>3, <2>1, LeakFrame DEF vars, Known, NewIsNull, LeakInv
<1> QED
  BY <1>1, <1>2, <1>3 DEF FtMalloc

LEMMA LeakPlace ==
  ASSUME LeakInv, ZoneInv', Damaged => Damaged', Place
  PROVE  LeakInv'
<1> DEFINE need == AlignUp(call.size)
           z == ZoneFor(call.size)
<1>1. /\ pc = "place" /\ UNCHANGED <<base, large, maps, phase, lost>>
      /\ MemoryOK /\ HeaderMap(heap) /\ CallOK /\ NewIsNull
  BY DEF Place, LeakInv, ZoneInv, LargeInv, TypeOK, MemoryOK, HeaderMap
<1>2. /\ DOMAIN large \subseteq DOMAIN live
      /\ Damaged \/ \A a \in InUse(heap) : Mem(a) \in DOMAIN live
  BY <1>1, AllOwned
<1>3. ASSUME NEW a \in DOMAIN heap, Deliver(Mem(a)), NEW h,
             a \in DOMAIN h, HeaderMap(h), InUse(h) \subseteq InUse(heap), heap' = SetFree(h, a, FALSE)
      PROVE  LeakInv'
  <2>1. InUse(heap') \subseteq InUse(heap) \cup {a}
    <3>1. heap' = [h EXCEPT ![a] = [h[a] EXCEPT !.free = FALSE]]
      BY <1>3 DEF SetFree
    <3>2. DOMAIN heap' = DOMAIN h /\ \A b \in DOMAIN h \ {a} : heap'[b] = h[b]
      BY <3>1
    <3> QED
      BY <1>3, <3>2 DEF InUse
  <2>2. Mem(a) # NULL
    <3>1. \A b \in Nat : Mem(b) # NULL
      BY SMT DEF Mem, HEADER, NULL
    <3> QED
      BY <1>1, <3>1 DEF MemoryOK
  <2>3. DOMAIN live \subseteq Known' /\ Mem(a) \in Known' /\ NewIsNull'
    BY <1>1, <1>3, <2>2, LeakDeliver
  <2>4. Damaged' \/ ChunksKnown'
    BY <1>2, <2>1, <2>3 DEF ChunksKnown
  <2>5. ListKnown' /\ MappingsKnown' /\ LostUnlisted'
    BY <1>1, <1>2, <2>3 DEF LeakInv, ListKnown, MappingsKnown, LostUnlisted
  <2> QED
    BY <2>3, <2>4, <2>5 DEF LeakInv
<1>4. \A a \in Chunks(z) : a \in DOMAIN heap
  BY DEF Chunks, Walk
<1>5. ASSUME NEW a \in DOMAIN heap
      PROVE  LET h == SplitChunk(heap, a, need)
             IN  a \in DOMAIN h /\ InUse(h) \subseteq InUse(heap) /\ HeaderMap(h)
  <2>1. need \in SizeT /\ need <= SizeMod - 16
    BY <1>1, AlignUpType DEF CallOK, Running
  <2> QED
    BY <1>1, <2>1, SplitUses, SplitType
<1>6. ASSUME NEW a \in Chunks(z), Deliver(Mem(a)), heap' = SetFree(heap, a, FALSE)
      PROVE  LeakInv'
  BY <1>1, <1>3, <1>4, <1>6
<1>7. ASSUME NEW a \in Chunks(z), Deliver(Mem(a)),
             heap' = SetFree(SplitChunk(heap, a, need), a, FALSE)
      PROVE  LeakInv'
  BY <1>3, <1>4, <1>5, <1>7
<1>8. CASE pc' = "map" /\ UNCHANGED <<heap, call, cur, live>>
  <2>1. UNCHANGED <<heap, large, maps, lost>> /\ Known' = Known /\ NewIsNull'
    BY <1>1, <1>8 DEF Known, NewIsNull
  <2> QED
    BY <2>1, LeakFrame
<1> HIDE DEF need, z
<1> QED
  BY <1>6, <1>7, <1>8 DEF Place, need, z

LEMMA LeakCreate ==
  ASSUME LeakInv, ZoneInv', CreateLargeChunk
  PROVE  LeakInv'
<1>1. /\ pc = "map" /\ UNCHANGED <<base, heap, phase, lost>>
      /\ MemoryOK /\ CallOK /\ NewIsNull
  BY DEF CreateLargeChunk, LeakInv, ZoneInv, LargeInv, TypeOK
<1>2. /\ DOMAIN large \subseteq DOMAIN live
      /\ Damaged \/ \A a \in InUse(heap) : Mem(a) \in DOMAIN live
  BY <1>1, AllOwned
<1>3. Damaged' <=> Damaged
  BY <1>1 DEF Damaged
<1>4. ASSUME NEW m, Deliver(m) PROVE (Damaged' \/ ChunksKnown') /\ DOMAIN live \subseteq Known'
                                     /\ (m # NULL => m \in Known') /\ NewIsNull'
  BY <1>1, <1>2, <1>3, <1>4, LeakDeliver DEF ChunksKnown
<1>5. CASE Deliver(NULL) /\ UNCHANGED <<maps, large>>
  BY <1>1, <1>2, <1>4, <1>5 DEF LeakInv, ListKnown, MappingsKnown, LostUnlisted
<1>6. ASSUME NEW b \in LargeBases \ DOMAIN maps,
             DOMAIN maps' = DOMAIN maps \cup {b},
             DOMAIN large' = DOMAIN large \cup {LargeChunk2Mem(b)},
             Deliver(LargeChunk2Mem(b))
      PROVE  LeakInv'
  <2> DEFINE m == LargeChunk2Mem(b)
  <2>1. IsLarge(m) /\ m # NULL /\ ToBase(m) = b
    <3>1. IsLarge(m) /\ m # NULL
      BY LargeShape DEF IsLarge
    <3> QED
      BY <3>1, LargePointers, LayoutAssumption
  <2> HIDE DEF m
  <2>2. DOMAIN large' = DOMAIN large \cup {m} /\ Deliver(m)
    BY <1>6 DEF m
  <2>3. ListKnown' /\ NewIsNull' /\ (Damaged' \/ ChunksKnown')
    BY <1>2, <1>4, <2>1, <2>2 DEF ListKnown
  <2>4. MappingsKnown'
    BY <1>1, <1>6, <2>1, <2>2 DEF LeakInv, MappingsKnown
  <2>5. LostUnlisted'
    BY <1>1, <1>6, <2>1, <2>2 DEF LeakInv, MappingsKnown, LostUnlisted
  <2> QED
    BY <2>3, <2>4, <2>5 DEF LeakInv
<1> QED
  BY <1>5, <1>6 DEF CreateLargeChunk

-----------------------------------------------------------------------------
\* A sound zone's chunks are found by its walk.
LEMMA HeaderFound ==
  ASSUME ZoneInv, ~Damaged, NEW a \in DOMAIN heap
  PROVE  \E z \in ZoneNames : a \in Chunks(z)
<1>1. /\ Tiled(heap, Mapped) /\ Mapped \in SUBSET ZoneNames /\ MemoryOK
      /\ \A b \in DOMAIN heap : ~Trap(heap, b)
  BY DamageIsTrap DEF ZoneInv, LargeInv, TypeOK, Mapped, NoTraps
<1>2. PICK z \in Mapped : Seated(heap, z, a)
  BY <1>1 DEF Tiled
<1>3. InPlace(z, a) /\ ToFirstChunk(z) = PlacedAt(z) /\ ToZoneEnd(z) = PlacedEnd(z)
      /\ z \in ZoneNames
  BY <1>1, <1>2, ZoneBounds DEF Seated
<1>4. a \in Chunks(z)
  BY <1>1, <1>3, TiledWalk DEF Chunks, InPlace
<1> QED
  BY <1>3, <1>4

\* ftFree leaves nothing of p behind, and touches nothing else.
LEMMA LeakRelease ==
  ASSUME LeakInv, Damaged => Damaged', NEW p \in Nat, Release(p)
  PROVE  /\ Damaged' \/ \A a \in InUse(heap') : Mem(a) \in Known \ {p}
         /\ DOMAIN large' \subseteq Known \ {p}
         /\ MappingsKnown' /\ LostUnlisted'
<1>1. MemoryOK /\ ListKnown /\ MappingsKnown /\ LostUnlisted /\ (Damaged \/ ChunksKnown)
  BY DEF LeakInv, ZoneInv, LargeInv, TypeOK
<1>2. \A a \in InUse(heap) : a \in Nat /\ ChunkOf(Mem(a)) = a /\ (Mem(a) = p => p # NULL)
  <2>1. \A a \in Nat : ChunkOf(Mem(a)) = a /\ Mem(a) # NULL
    BY SMT DEF ChunkOf, Mem, HEADER, NULL
  <2> QED
    BY <1>1, <2>1 DEF InUse, MemoryOK
<1>3. CASE /\ p \in DOMAIN large
           /\ large' = [m \in DOMAIN large \ {p} |-> large[m]]
           /\ \/ maps' = [b \in DOMAIN maps \ {ToBase(p)} |-> maps[b]] /\ lost' = lost
              \/ MunmapMayFail /\ maps' = maps /\ lost' = lost \cup {ToBase(p)}
           /\ UNCHANGED <<base, heap>>
  <2>1. \A m \in DOMAIN large : IsLarge(m)
    BY <1>1 DEF IsLarge, MemoryOK
  <2>2. \A m \in DOMAIN large : ToBase(m) = ToBase(p) <=> m = p
    BY <1>3, <2>1, LargeShape
  <2>3. ToBase(p) \in LargeBases
    BY <1>3, <2>1, LargeShape
  <2>4. DOMAIN large' = DOMAIN large \ {p}
    BY <1>3
  <2>5. MappingsKnown' /\ LostUnlisted'
    BY <1>1, <1>3, <2>2, <2>3, <2>4 DEF MappingsKnown, LostUnlisted
  <2>6. ASSUME ~Damaged', NEW a \in InUse(heap') PROVE Mem(a) \in Known \ {p}
    <3>1. a \in InUse(heap) /\ a \in DOMAIN heap /\ ~Damaged
      BY <1>3, <2>6 DEF InUse
    <3>2. Mem(a) \in Known
      BY <1>1, <3>1 DEF ChunksKnown
    <3>3. PICK z \in ZoneNames : a \in Chunks(z)
      BY <3>1, HeaderFound DEF LeakInv
    <3>4. ~IsLarge(Mem(a))
      BY <1>1, <3>3, ChunksInPlace, ZoneMemIsNotLarge
    <3> QED
      BY <1>3, <2>1, <3>2, <3>4
  <2> QED
    BY <1>1, <2>4, <2>5, <2>6 DEF ListKnown
<1>4. CASE /\ p \notin DOMAIN large
           /\ ChunkOf(p) \in DOMAIN heap
           /\ heap' = SetFree(heap, ChunkOf(p), TRUE)
           /\ UNCHANGED <<base, large, maps, lost>>
  <2>1. InUse(heap') \subseteq InUse(heap) \ {ChunkOf(p)}
    <3>1. heap[ChunkOf(p)] \in [size : SizeT, free : BOOLEAN]
      BY <1>1, <1>4 DEF MemoryOK, Header
    <3>2. heap' = [heap EXCEPT ![ChunkOf(p)] = [heap[ChunkOf(p)] EXCEPT !.free = TRUE]]
      BY <1>4 DEF SetFree
    <3>3. DOMAIN heap' = DOMAIN heap /\ heap'[ChunkOf(p)].free
          /\ \A b \in DOMAIN heap \ {ChunkOf(p)} : heap'[b] = heap[b]
      BY <1>4, <3>1, <3>2
    <3> QED
      BY <3>3 DEF InUse
  <2>2. \A a \in InUse(heap') : a \in InUse(heap) /\ Mem(a) # p
    BY <1>2, <2>1
  <2> QED
    BY <1>1, <1>4, <2>2 DEF ListKnown, ChunksKnown, MappingsKnown, LostUnlisted
<1>5. CASE /\ p \notin DOMAIN large
           /\ p # NULL => ~Unmapped /\ InNoZone(p)
           /\ UNCHANGED memory
  <2>1. ASSUME ~Damaged', NEW a \in InUse(heap') PROVE Mem(a) \in Known \ {p}
    <3>1. a \in InUse(heap) /\ a \in DOMAIN heap /\ ~Damaged
      BY <1>5, <2>1 DEF InUse, memory
    <3>2. Mem(a) \in Known
      BY <1>1, <3>1 DEF ChunksKnown
    <3>3. PICK z \in ZoneNames : a \in Chunks(z)
      BY <3>1, HeaderFound DEF LeakInv
    <3>4. Mem(a) # p
      BY <1>2, <1>5, <3>1, <3>3 DEF InNoZone
    <3> QED
      BY <3>2, <3>4
  <2> QED
    BY <1>1, <1>5, <2>1 DEF memory, ListKnown, MappingsKnown, LostUnlisted
<1> QED
  BY <1>3, <1>4, <1>5 DEF Release, InZone

LEMMA LeakFree ==
  ASSUME LeakInv, ZoneInv', Damaged => Damaged', NEW p \in Nat, Free(p)
  PROVE  LeakInv'
<1>1. CASE Hang \/ Crash
  BY <1>1, LeakStop DEF Hang, Crash
<1>2. CASE /\ Release(p) /\ live' = [q \in DOMAIN live \ {p} |-> live[q]]
           /\ UNCHANGED <<phase, pc, call, cur>>
  <2>1. Known \ {p} \subseteq Known' /\ NewIsNull'
    BY <1>2 DEF Known, LeakInv, NewIsNull
  <2> QED
    BY <1>2, <2>1, LeakRelease DEF LeakInv, ChunksKnown, ListKnown
<1> QED
  BY <1>1, <1>2 DEF Free

LEMMA LeakCopy ==
  ASSUME LeakInv, ZoneInv', Damaged => Damaged', CopyAndFree
  PROVE  LeakInv'
<1>1. /\ Release(call.ptr) /\ pc' = "idle" /\ call' = NoCall
      /\ live' = [p \in (DOMAIN live \ {call.ptr}) \cup {call.new} |->
                    IF p = call.new THEN call.size ELSE live[p]]
      /\ call.ptr \in Nat
  BY DEF CopyAndFree, LeakInv, ZoneInv, LargeInv, TypeOK, CallOK
<1>2. Known \ {call.ptr} \subseteq Known' /\ NewIsNull'
  BY <1>1 DEF Known, NewIsNull, NoCall
<1> QED
  BY <1>1, <1>2, LeakRelease DEF LeakInv, ChunksKnown, ListKnown

LEMMA LeakRealloc ==
  ASSUME LeakInv, ZoneInv', Damaged => Damaged', NEW p \in DOMAIN live, NEW n, Realloc(p, n)
  PROVE  LeakInv'
<1>1. /\ pc = "idle" /\ MemoryOK /\ DamageLasts /\ Sound /\ Tiled(heap, Mapped)
  BY DEF Realloc, LeakInv, ZoneInv, LargeInv, TypeOK
<1>2. CASE FtMalloc(p, n)
  BY <1>1, <1>2, LeakFtMalloc
<1>3. CASE Hang \/ Crash
  BY <1>3, LeakStop DEF Hang, Crash
<1>4. CASE UNCHANGED vars
  BY <1>4, LeakFrame DEF vars, Known, NewIsNull, LeakInv
<1>5. ASSUME NEW z \in ZoneNames, InZone(p, z), NEW t,
             ConsecutiveFree(ToNext(heap, ChunkOf(p)), t), Resize(p, n, t)
      PROVE  LeakInv'
  <2>1. ChunkOf(p) \in DOMAIN heap
    BY <1>5 DEF InZone
  <2>2. HeaderMap(Expanded(ChunkOf(p), t)) /\ ChunkOf(p) \in DOMAIN Expanded(ChunkOf(p), t)
    BY <1>1, <1>5, <2>1, GrowChunk DEF Tiled
  <2>3. InUse(heap') \subseteq InUse(heap)
    BY <1>1, <1>5, <2>1, <2>2, ResizeUses
  <2>4. /\ UNCHANGED <<large, maps, pc, call, lost>> /\ DOMAIN live' = DOMAIN live
    BY <1>5 DEF Resize, LeakInv, ZoneInv, LargeInv, TypeOK, CallOK
  <2> QED
    BY <2>3, <2>4, LeakFrame DEF Known, NewIsNull, LeakInv
<1> QED
  BY <1>2, <1>3, <1>4, <1>5 DEF Realloc, ResizeCrashes

-----------------------------------------------------------------------------
LEMMA LeakDefrag ==
  ASSUME LeakInv, ZoneInv', Damaged => Damaged', DefragSection \/ DefragPastEnd
  PROVE  LeakInv'
<1>1. pc = "defrag" /\ HeaderMap(heap)
  BY DEF DefragSection, DefragPastEnd, LeakInv, ZoneInv, LargeInv, TypeOK, MemoryOK, HeaderMap
<1>2. CASE Hang \/ Crash
  BY <1>2, LeakStop DEF Hang, Crash
<1>3. CASE EndSection
  <2>1. UNCHANGED <<heap, large, maps, lost, live, call>>
    BY <1>3 DEF EndSection, memory
  <2>2. NewIsNull'
    BY <1>1, <2>1 DEF LeakInv, NewIsNull
  <2> QED
    BY <2>1, <2>2, LeakFrame DEF Known
<1>4. ASSUME NEW first \in DOMAIN heap, NEW t, DefragChunk(first, t)
      PROVE  LeakInv'
  <2>1. /\ heap' = heap \/ heap' = Expanded(first, t)
        /\ UNCHANGED <<base, large, maps, phase, pc, call, live, lost>>
    BY <1>4 DEF DefragChunk
  <2>2. InUse(heap') \subseteq InUse(heap)
    BY <1>1, <2>1, ExpandUses DEF Expanded
  <2> QED
    BY <2>1, <2>2, LeakFrame DEF Known, NewIsNull, LeakInv
<1>5. \A s, e : Walk(heap, s, e) \subseteq DOMAIN heap
  BY DEF Walk
<1> QED
  BY <1>2, <1>3, <1>4, <1>5 DEF DefragSection, DefragPastEnd

\* The constructor forgets the list, and finds no chunk in use.
LEMMA LeakInitialize ==
  ASSUME LeakInv, ZoneInv', InitializePreAllocatedZones
  PROVE  LeakInv'
<1>1. /\ large' = [m \in {} |-> 0] /\ lost' = lost \cup { ToBase(m) : m \in DOMAIN large }
      /\ UNCHANGED <<pc, call, live>>
  BY DEF InitializePreAllocatedZones
<1>2. InUse(heap') = {}
  BY DEF InitializePreAllocatedZones, FirstChunk, InUse
<1>3. { b \in DOMAIN maps' : b \in LargeBases } = { b \in DOMAIN maps : b \in LargeBases }
  <2>1. PICK mapped \in SUBSET ZoneNames :
          DOMAIN maps' = DOMAIN maps \cup { PlacedAt(z) : z \in mapped }
    BY DEF InitializePreAllocatedZones, ZoneNames
  <2> QED
    BY <2>1, BasesDiffer
<1>4. MappingsKnown'
  BY <1>1, <1>3 DEF LeakInv, MappingsKnown
<1>5. ListKnown' /\ LostUnlisted' /\ NewIsNull' /\ ChunksKnown'
  BY <1>1, <1>2 DEF LeakInv, ListKnown, LostUnlisted, NewIsNull, ChunksKnown
<1> QED
  BY <1>4, <1>5 DEF LeakInv

LEMMA LeakCleanup ==
  ASSUME LeakInv, ZoneInv', CleanupPreAllocatedZones
  PROVE  LeakInv'
<1>1. /\ UNCHANGED <<base, heap, large, pc, call, live, lost>>
      /\ DOMAIN maps' = DOMAIN maps \ { base[z] : z \in ZoneNames }
  BY DEF CleanupPreAllocatedZones
<1>2. \A z \in ZoneNames : base[z] \notin LargeBases
  BY BasesDiffer DEF LeakInv, ZoneInv, LargeInv, TypeOK, MemoryOK
<1>3. MappingsKnown'
  BY <1>1, <1>2 DEF LeakInv, MappingsKnown
<1>4. ListKnown' /\ LostUnlisted' /\ NewIsNull' /\ (Damaged' \/ ChunksKnown')
  BY <1>1 DEF LeakInv, ListKnown, LostUnlisted, NewIsNull, ChunksKnown, Known, Damaged
<1> QED
  BY <1>3, <1>4 DEF LeakInv

LEMMA LeakInit == Init /\ DamageLasts => LeakInv
<1> SUFFICES ASSUME Init, DamageLasts PROVE LeakInv
  OBVIOUS
<1>1. ZoneInv
  BY ZoneInit
<1>2. ChunksKnown /\ ListKnown /\ MappingsKnown /\ LostUnlisted /\ NewIsNull
  BY DEF Init, ChunksKnown, InUse, ListKnown, MappingsKnown, LostUnlisted, NewIsNull, NoCall
<1> QED
  BY <1>1, <1>2 DEF LeakInv

LEMMA LeakStep == LeakInv /\ [Next]_vars => LeakInv'
<1> SUFFICES ASSUME LeakInv, [Next]_vars PROVE LeakInv'
  OBVIOUS
<1>1. ZoneInv /\ ZoneInv' /\ (Damaged => Damaged')
  BY ZoneStep, InvDamage DEF LeakInv
<1>2. CASE InitializePreAllocatedZones \/ CleanupPreAllocatedZones
  BY <1>1, <1>2, LeakInitialize, LeakCleanup
<1>3. CASE ClientCall
  <2>1. ASSUME NEW n, Malloc(n) PROVE LeakInv'
    BY <1>1, <2>1, LeakFtMalloc DEF Malloc
  <2>2. ASSUME NEW p \in DOMAIN live \cup WildPointers, Free(p) PROVE LeakInv'
    <3>1. p \in Nat
      BY <1>1, ClientAssumption DEF ZoneInv, LargeInv, TypeOK, CallOK
    <3> QED
      BY <1>1, <2>2, <3>1, LeakFree
  <2>3. ASSUME NEW p \in DOMAIN live, NEW n, Realloc(p, n) PROVE LeakInv'
    BY <1>1, <2>3, LeakRealloc
  <2> QED
    BY <1>3, <2>1, <2>2, <2>3 DEF ClientCall
<1>4. CASE DefragSection \/ DefragPastEnd
  BY <1>1, <1>4, LeakDefrag
<1>5. CASE Place
  BY <1>1, <1>5, LeakPlace
<1>6. CASE CreateLargeChunk
  BY <1>1, <1>6, LeakCreate
<1>7. CASE CopyAndFree
  BY <1>1, <1>7, LeakCopy
<1>8. CASE UNCHANGED vars
  <2>1. UNCHANGED <<heap, large, maps, lost, live, call, pc>>
    BY <1>8 DEF vars
  <2> QED
    BY <1>1, <2>1, LeakFrame DEF LeakInv, Known, NewIsNull
<1> QED
  BY <1>2, <1>3, <1>4, <1>5, <1>6, <1>7, <1>8 DEF Next, RunningCall

\* Nothing leaks: what is in use is the client's or the running realloc's, and
\* no mapping of a large chunk is forgotten but those that munmap refused to
\* take back and those the constructor's reset of the list has dropped.
THEOREM NoLeaks == Spec /\ DamageLasts => []NothingLeaks
<1>1. LeakInv => NothingLeaks
  BY DEF LeakInv, NothingLeaks, ChunksKnown, ListKnown, MappingsKnown, Known, InUse
<1> QED
  BY <1>1, LeakInit, LeakStep, PTL DEF Spec

-----------------------------------------------------------------------------
(***************************************************************************)
(* The abstract allocator                                                  *)
(***************************************************************************)
RequestsFit == \A n \in Requests : Fits(n)

\* No call runs, or there is a request to answer.
CallKnown ==
  /\ pc = "idle" => call = NoCall
  /\ pc \in Running => Fits(call.size)

OwnedFit == \A p \in DOMAIN live : Fits(live[p])

RefinementInv == ZoneInv /\ RequestsFit /\ CallKnown /\ OwnedFit

-----------------------------------------------------------------------------
\* The call goes on, or ends for good.
LEMMA FitFrame ==
  ASSUME RefinementInv, ZoneInv', UNCHANGED <<call, live>>, pc' # "idle",
         pc' \in Running => pc \in Running
  PROVE  RefinementInv'
  BY DEF RefinementInv, RequestsFit, CallKnown, OwnedFit

LEMMA FitFtMalloc ==
  ASSUME RefinementInv, ZoneInv', pc = "idle", NEW p, NEW n \in Requests, FtMalloc(p, n)
  PROVE  RefinementInv'
<1>1. CASE Crash
  BY <1>1, FitFrame DEF Crash, Stop, Running
<1>2. CASE /\ pc' \in {"map", "defrag"} /\ live' = live
           /\ call' = [ptr |-> p, size |-> n, new |-> NULL]
  BY <1>2 DEF RefinementInv, RequestsFit, CallKnown, OwnedFit
<1>3. CASE UNCHANGED vars
  BY <1>3 DEF vars, RefinementInv, RequestsFit, CallKnown, OwnedFit, Running
<1> QED
  BY <1>1, <1>2, <1>3 DEF FtMalloc

LEMMA FitDeliver ==
  ASSUME RefinementInv, ZoneInv', pc \in Running, NEW m, Deliver(m)
  PROVE  RefinementInv'
<1>1. Fits(call.size) /\ call \in [ptr : Nat, size : SizeT \cup {-1}, new : Nat]
  BY DEF RefinementInv, CallKnown, ZoneInv, LargeInv, TypeOK, CallOK
<1>2. CASE pc' = "copy" /\ call' = [call EXCEPT !.new = m] /\ live' = live
  <2>1. call'.size = call.size
    BY <1>1, <1>2
  <2> QED
    BY <1>1, <1>2, <2>1 DEF RefinementInv, RequestsFit, CallKnown, OwnedFit
<1>3. CASE /\ pc' = "idle" /\ call' = NoCall
           /\ \/ live' = live
              \/ live' = [p \in DOMAIN live \cup {m} |-> IF p = m THEN call.size ELSE live[p]]
  BY <1>1, <1>3 DEF RefinementInv, RequestsFit, CallKnown, OwnedFit, Running
<1> QED
  BY <1>2, <1>3 DEF Deliver

LEMMA FitFree ==
  ASSUME RefinementInv, ZoneInv', NEW p, Free(p)
  PROVE  RefinementInv'
<1>1. CASE Hang \/ Crash
  BY <1>1, FitFrame DEF Hang, Crash, Stop, Running
<1>2. CASE live' = [q \in DOMAIN live \ {p} |-> live[q]] /\ UNCHANGED <<phase, pc, call, cur>>
  BY <1>2 DEF RefinementInv, RequestsFit, CallKnown, OwnedFit
<1> QED
  BY <1>1, <1>2 DEF Free

LEMMA FitRealloc ==
  ASSUME RefinementInv, ZoneInv', NEW p \in DOMAIN live, NEW n \in Requests, Realloc(p, n)
  PROVE  RefinementInv'
<1>1. pc = "idle"
  BY DEF Realloc
<1>2. CASE FtMalloc(p, n)
  BY <1>1, <1>2, FitFtMalloc
<1>3. CASE Hang \/ Crash
  BY <1>3, FitFrame DEF Hang, Crash, Stop, Running
<1>4. CASE UNCHANGED vars
  BY <1>4 DEF vars, RefinementInv, RequestsFit, CallKnown, OwnedFit
<1>5. ASSUME NEW t, Resize(p, n, t) PROVE RefinementInv'
  BY <1>5 DEF Resize, RefinementInv, RequestsFit, CallKnown, OwnedFit
<1> QED
  BY <1>2, <1>3, <1>4, <1>5 DEF Realloc, ResizeCrashes

LEMMA FitStep == RefinementInv /\ [Next]_vars => RefinementInv'
<1> SUFFICES ASSUME RefinementInv, [Next]_vars PROVE RefinementInv'
  OBVIOUS
<1>0. ZoneInv'
  BY ZoneStep DEF RefinementInv
<1>1. CASE InitializePreAllocatedZones \/ CleanupPreAllocatedZones
  <2>1. UNCHANGED <<pc, call, live>>
    BY <1>1 DEF InitializePreAllocatedZones, CleanupPreAllocatedZones
  <2> QED
    BY <1>0, <2>1 DEF RefinementInv, RequestsFit, CallKnown, OwnedFit
<1>2. CASE ClientCall
  BY <1>0, <1>2, FitFtMalloc, FitFree, FitRealloc DEF ClientCall, Malloc
<1>3. CASE DefragSection \/ DefragPastEnd
  <2>1. UNCHANGED <<call, live>> /\ pc' # "idle" /\ pc \in Running
    BY <1>3 DEF DefragSection, DefragPastEnd, DefragChunk, EndSection, Hang, Crash, Stop, Running
  <2> QED
    BY <1>0, <2>1, FitFrame
<1>4. CASE Place
  <2>1. pc \in Running /\ ((pc' = "map" /\ UNCHANGED <<call, live>>) \/ \E m : Deliver(m))
    BY <1>4 DEF Place, Running
  <2> QED
    BY <1>0, <2>1, FitFrame, FitDeliver
<1>5. CASE CreateLargeChunk
  BY <1>0, <1>5, FitDeliver DEF CreateLargeChunk, Running
<1>6. CASE CopyAndFree
  <2>1. /\ pc = "copy" /\ pc' = "idle" /\ call' = NoCall
        /\ live' = [p \in (DOMAIN live \ {call.ptr}) \cup {call.new} |->
                      IF p = call.new THEN call.size ELSE live[p]]
    BY <1>6 DEF CopyAndFree
  <2> QED
    BY <1>0, <2>1 DEF RefinementInv, RequestsFit, CallKnown, OwnedFit, Running
<1>7. CASE UNCHANGED vars
  BY <1>0, <1>7 DEF vars, RefinementInv, RequestsFit, CallKnown, OwnedFit
<1> QED
  BY <1>1, <1>2, <1>3, <1>4, <1>5, <1>6, <1>7 DEF Next, RunningCall

-----------------------------------------------------------------------------
\* The blocks as the client sees them.

BlocksClear ==
  \A p, q \in DOMAIN live : p # q => p + live[p] <= q \/ q + live[q] <= p

BlocksAligned == \A p \in DOMAIN live : p \in Nat /\ p # 0 /\ p % 16 = 0

LEMMA TwoClear ==
  ASSUME ZoneInv, NEW p, NEW n, BlockHeld(p, n), Fits(n),
         NEW q, NEW k, BlockHeld(q, k), Fits(k), p # q
  PROVE  p + n <= q \/ q + k <= p
<1>1. p \in Nat /\ q \in Nat /\ n \in Nat /\ k \in Nat
  BY DEF BlockHeld, SizeT
<1>2. CASE p < q
  <2>1. p + n <= q - (IF IsLarge(q) THEN LARGE_HEADER ELSE HEADER)
    BY <1>2, TwoBlocks
  <2> QED
    BY <1>1, <2>1, SMT DEF LARGE_HEADER, HEADER
<1>3. CASE q < p
  <2>1. q + k <= p - (IF IsLarge(p) THEN LARGE_HEADER ELSE HEADER)
    BY <1>3, TwoBlocks
  <2> QED
    BY <1>1, <2>1, SMT DEF LARGE_HEADER, HEADER
<1> QED
  BY <1>1, <1>2, <1>3, SMT

LEMMA BlockAligned ==
  ASSUME ZoneInv, NEW p, NEW n, BlockHeld(p, n)
  PROVE  p \in Nat /\ p # 0 /\ p % 16 = 0
<1>1. CASE IsLarge(p)
  <2>1. ToBase(p) \in Nat /\ ToBase(p) % 16 = 0 /\ p = ToBase(p) + 32
    BY <1>1, LargeShape, LayoutAssumption
  <2> QED
    BY <2>1, SMT
<1>2. CASE ~IsLarge(p)
  <2>1. ChunkOf(p) \in DOMAIN heap /\ ChunkOf(p) \in Nat
    BY <1>2, ZoneBlock
  <2>2. ChunkOf(p) % 16 = 0
    BY <2>1 DEF ZoneInv, Tiled
  <2>3. p \in Nat /\ p = ChunkOf(p) + 16
    BY Pointers DEF BlockHeld
  <2> QED
    BY <2>1, <2>2, <2>3, SMT
<1> QED
  BY <1>1, <1>2

LEMMA InvClear == RefinementInv => BlocksClear /\ BlocksAligned
<1> SUFFICES ASSUME RefinementInv PROVE BlocksClear /\ BlocksAligned
  OBVIOUS
<1>1. \A p \in DOMAIN live : BlockHeld(p, live[p]) /\ Fits(live[p])
  BY OwnedBlock DEF RefinementInv, OwnedFit
<1>2. BlocksAligned
  BY <1>1, BlockAligned DEF RefinementInv, BlocksAligned
<1>3. BlocksClear
  BY <1>1, TwoClear DEF RefinementInv, BlocksClear
<1> QED
  BY <1>2, <1>3

LEMMA InvClearNext == RefinementInv' => BlocksClear' /\ BlocksAligned'
  BY InvClear, PTL

-----------------------------------------------------------------------------
\* Every step is an abstract one, or changes nothing a client sees.

AbstractStep == [Abstract!ANext]_<<live, [ptr |-> call.ptr, size |-> call.size]>>

LEMMA AbstractStutter ==
  ASSUME UNCHANGED <<call, live>>
  PROVE  AbstractStep
  BY DEF AbstractStep

\* Malloc and Realloc, on entry to ftMalloc.
LEMMA AbstractAsk ==
  ASSUME RefinementInv, pc = "idle", NEW p \in DOMAIN live \cup {0}, NEW n \in Requests,
         FtMalloc(p, n)
  PROVE  AbstractStep
<1>1. CASE call' = [ptr |-> p, size |-> n, new |-> NULL] /\ live' = live
  <2>1. call.ptr = 0 /\ call.size = -1
    BY DEF RefinementInv, CallKnown, NoCall, NULL
  <2>2. [ptr |-> call'.ptr, size |-> call'.size] = [ptr |-> p, size |-> n]
    BY <1>1
  <2>3. Abstract!Ask(p, n)
    BY <1>1, <2>1, <2>2 DEF Abstract!Ask, Abstract!None
  <2> QED
    BY <2>3 DEF AbstractStep, Abstract!ANext
<1>2. CASE Crash \/ UNCHANGED vars
  BY <1>2, AbstractStutter DEF Crash, Stop, vars
<1> QED
  BY <1>1, <1>2 DEF FtMalloc

\* Deliver of a new block to the client, or to ftRealloc, or of NULL.
LEMMA AbstractDeliver ==
  ASSUME RefinementInv, RefinementInv', pc \in Running,
         NEW m, m \notin DOMAIN live, Deliver(m)
  PROVE  AbstractStep
<1>1. /\ call \in [ptr : Nat, size : SizeT \cup {-1}, new : Nat] /\ call.size \in SizeT
      /\ \A p \in DOMAIN live : p \in Nat /\ p # 0
  BY InvClear DEF RefinementInv, ZoneInv, LargeInv, TypeOK, CallOK, BlocksAligned
<1>2. call.size # -1
  BY <1>1, SMT DEF SizeT
<1>3. CASE m = NULL
  <2>1. call' = NoCall /\ live' = live
    BY <1>3 DEF Deliver
  <2>2. Abstract!Refuse
    BY <1>2, <2>1 DEF Abstract!Refuse, Abstract!None, NoCall, NULL
  <2> QED
    BY <2>2 DEF AbstractStep, Abstract!ANext, Abstract!Serve
<1>4. CASE m # NULL /\ call.ptr = NULL
  <2>1. /\ call' = NoCall
        /\ live' = [p \in DOMAIN live \cup {m} |-> IF p = m THEN call.size ELSE live[p]]
    BY <1>4 DEF Deliver
  <2>2. m \in DOMAIN live' /\ live'[m] = call.size
    BY <2>1
  <2>3. m \in Nat /\ m % 16 = 0
    BY <2>2, InvClearNext DEF BlocksAligned
  <2>4. \A q \in DOMAIN live : m + call.size <= q \/ q + live[q] <= m
    <3> TAKE q \in DOMAIN live
    <3>1. q \in DOMAIN live' /\ q # m /\ live'[q] = live[q]
      BY <2>1
    <3>2. m + live'[m] <= q \/ q + live'[q] <= m
      BY <2>2, <3>1, InvClearNext DEF BlocksClear
    <3> QED
      BY <2>2, <3>1, <3>2
  <2>5. live' = [p \in (DOMAIN live \ {call.ptr}) \cup {m} |->
                   IF p = m THEN call.size ELSE live[p]]
    BY <1>1, <1>4, <2>1 DEF NULL
  <2>6. Abstract!Answer(m)
    BY <1>2, <1>4, <2>1, <2>3, <2>4, <2>5
    DEF Abstract!Answer, Abstract!None, Abstract!Clear, NoCall, NULL
  <2> QED
    BY <2>2, <2>6 DEF AbstractStep, Abstract!ANext, Abstract!Serve
<1>5. CASE m # NULL /\ call.ptr # NULL
  <2>1. call' = [call EXCEPT !.new = m] /\ live' = live
    BY <1>5 DEF Deliver
  <2>2. call'.ptr = call.ptr /\ call'.size = call.size
    BY <1>1, <2>1
  <2> QED
    BY <2>1, <2>2 DEF AbstractStep
<1> QED
  BY <1>3, <1>4, <1>5

\* What Place and CreateLargeChunk deliver belongs to nobody.
LEMMA PlacedIsNew ==
  ASSUME RefinementInv, pc = "place", NEW z \in ZoneNames, NEW a \in Chunks(z), heap[a].free
  PROVE  Mem(a) \notin DOMAIN live
<1>1. a \in Nat /\ InPlace(z, a)
  BY ChunksInPlace DEF RefinementInv, ZoneInv, LargeInv, TypeOK, InPlace
<1>2. ~IsLarge(Mem(a)) /\ ChunkOf(Mem(a)) = a
  BY <1>1, ZoneMemIsNotLarge, Pointers DEF InPlace
<1> QED
  BY <1>1, <1>2, ChunksInPlace
  DEF RefinementInv, ZoneInv, OwnedZone, ZoneHeld, DefragInv, NoTraps, LargeInv, TypeOK

LEMMA MappedIsNew ==
  ASSUME RefinementInv, NEW b \in LargeBases \ DOMAIN maps
  PROVE  LargeChunk2Mem(b) \notin DOMAIN live
<1>1. IsLarge(LargeChunk2Mem(b)) /\ ToBase(LargeChunk2Mem(b)) = b
  BY LargePointers, LayoutAssumption DEF IsLarge
<1> QED
  BY <1>1 DEF RefinementInv, ZoneInv, LargeInv, OwnedLarge, LargeHeld

LEMMA AbstractPlace ==
  ASSUME RefinementInv, RefinementInv', Place \/ CreateLargeChunk
  PROVE  AbstractStep
<1>1. pc \in Running
  BY DEF Place, CreateLargeChunk, Running
<1>2. NULL \notin DOMAIN live
  BY InvClear DEF BlocksAligned, NULL
<1>3. ZoneFor(call.size) \in ZoneNames
  BY DEF ZoneFor, ZoneNames
<1>4. CASE Place
  <2>1. ASSUME NEW a \in Chunks(ZoneFor(call.size)), heap[a].free, Deliver(Mem(a))
        PROVE  AbstractStep
    <3>1. pc = "place"
      BY <1>4 DEF Place
    <3> QED
      BY <1>1, <1>3, <2>1, <3>1, PlacedIsNew, AbstractDeliver
  <2>2. CASE UNCHANGED <<call, live>>
    BY <2>2, AbstractStutter
  <2> QED
    BY <1>4, <2>1, <2>2 DEF Place
<1>5. CASE CreateLargeChunk
  BY <1>1, <1>2, <1>5, MappedIsNew, AbstractDeliver DEF CreateLargeChunk
<1> QED
  BY <1>4, <1>5

\* CopyAndFree answers: the new block keeps clear also of the one it replaces.
LEMMA AbstractCopy ==
  ASSUME RefinementInv, CopyAndFree
  PROVE  AbstractStep
<1>1. /\ pc = "copy" /\ call' = NoCall
      /\ live' = [p \in (DOMAIN live \ {call.ptr}) \cup {call.new} |->
                    IF p = call.new THEN call.size ELSE live[p]]
  BY DEF CopyAndFree
<1>2. /\ ZoneInv /\ BlockHeld(call.new, call.size) /\ Fits(call.size)
      /\ call.new \notin DOMAIN live /\ call.size \in SizeT
  BY <1>1, NewBlockHeld
  DEF RefinementInv, CallKnown, ZoneInv, NewBlock, LargeInv, TypeOK, CallOK, Running
<1>3. call.size # -1
  BY <1>2, SMT DEF SizeT
<1>4. call.new \in Nat /\ call.new # 0 /\ call.new % 16 = 0
  BY <1>2, BlockAligned
<1>5. \A q \in DOMAIN live : call.new + call.size <= q \/ q + live[q] <= call.new
  BY <1>2, OwnedBlock, TwoClear DEF RefinementInv, OwnedFit
<1>6. Abstract!Answer(call.new)
  BY <1>1, <1>2, <1>3, <1>4, <1>5
  DEF Abstract!Answer, Abstract!None, Abstract!Clear, NoCall, NULL
<1>7. call.new \in DOMAIN live'
  BY <1>1
<1> QED
  BY <1>6, <1>7 DEF AbstractStep, Abstract!ANext, Abstract!Serve

LEMMA AbstractFree ==
  ASSUME RefinementInv, NEW p, Free(p)
  PROVE  AbstractStep
<1>1. CASE Hang \/ Crash
  BY <1>1, AbstractStutter DEF Hang, Crash, Stop
<1>2. CASE /\ live' = [q \in DOMAIN live \ {p} |-> live[q]]
           /\ UNCHANGED <<phase, pc, call, cur>>
  <2>1. call.ptr = 0 /\ call.size = -1
    BY DEF Free, RefinementInv, CallKnown, NoCall, NULL
  <2>2. CASE p \in DOMAIN live
    <3>1. Abstract!GiveBack(p)
      BY <1>2, <2>1 DEF Abstract!GiveBack, Abstract!None
    <3> QED
      BY <2>2, <3>1 DEF AbstractStep, Abstract!ANext
  <2>3. CASE p \notin DOMAIN live
    <3>1. live' = live
      BY <1>2, <2>3 DEF RefinementInv, ZoneInv, LargeInv, TypeOK, CallOK
    <3> QED
      BY <1>2, <3>1, AbstractStutter
  <2> QED
    BY <2>2, <2>3
<1> QED
  BY <1>1, <1>2 DEF Free

LEMMA AbstractResize ==
  ASSUME RefinementInv, RefinementInv', pc = "idle",
         NEW p \in DOMAIN live, NEW n \in Requests, NEW t, Resize(p, n, t)
  PROVE  AbstractStep
<1>1. live' = [live EXCEPT ![p] = n] /\ call' = call
  BY DEF Resize
<1>2. call.ptr = 0 /\ call.size = -1
  BY DEF RefinementInv, CallKnown, NoCall, NULL
<1>3. p \in DOMAIN live' /\ live'[p] = n /\ DOMAIN live' = DOMAIN live
  BY <1>1 DEF RefinementInv, ZoneInv, LargeInv, TypeOK, CallOK
<1>4. \A q \in DOMAIN live \ {p} : p + n <= q \/ q + live[q] <= p
  <2> TAKE q \in DOMAIN live \ {p}
  <2>1. q \in DOMAIN live' /\ live'[q] = live[q]
    BY <1>1, <1>3
  <2>2. p + live'[p] <= q \/ q + live'[q] <= p
    BY <1>3, <2>1, InvClearNext DEF BlocksClear
  <2> QED
    BY <1>3, <2>1, <2>2
<1>5. Abstract!ResizeInPlace(p, n)
  BY <1>1, <1>2, <1>4 DEF Abstract!ResizeInPlace, Abstract!None, Abstract!Clear
<1> QED
  BY <1>5 DEF AbstractStep, Abstract!ANext

LEMMA AbstractRealloc ==
  ASSUME RefinementInv, RefinementInv', NEW p \in DOMAIN live, NEW n \in Requests, Realloc(p, n)
  PROVE  AbstractStep
<1>1. pc = "idle"
  BY DEF Realloc
<1>2. CASE FtMalloc(p, n)
  BY <1>1, <1>2, AbstractAsk
<1>3. CASE Hang \/ Crash \/ UNCHANGED vars
  BY <1>3, AbstractStutter DEF Hang, Crash, Stop, vars
<1>4. ASSUME NEW t, Resize(p, n, t) PROVE AbstractStep
  BY <1>1, <1>4, AbstractResize
<1> QED
  BY <1>2, <1>3, <1>4 DEF Realloc, ResizeCrashes

LEMMA StepImplements ==
  RefinementInv /\ RefinementInv' /\ [Next]_vars => AbstractStep
<1> SUFFICES ASSUME RefinementInv, RefinementInv', [Next]_vars PROVE AbstractStep
  OBVIOUS
<1>1. CASE ClientCall
  <2>1. ASSUME NEW n \in Requests, Malloc(n) PROVE AbstractStep
    BY <2>1, AbstractAsk DEF Malloc, NULL
  <2> QED
    BY <1>1, <2>1, AbstractFree, AbstractRealloc DEF ClientCall
<1>2. CASE Place \/ CreateLargeChunk
  BY <1>2, AbstractPlace
<1>3. CASE CopyAndFree
  BY <1>3, AbstractCopy
<1>4. CASE \/ InitializePreAllocatedZones \/ CleanupPreAllocatedZones
           \/ DefragSection \/ DefragPastEnd \/ UNCHANGED vars
  <2>1. UNCHANGED <<call, live>>
    BY <1>4 DEF InitializePreAllocatedZones, CleanupPreAllocatedZones, DefragSection,
                DefragPastEnd, DefragChunk, EndSection, Hang, Crash, Stop, vars
  <2> QED
    BY <2>1, AbstractStutter
<1> QED
  BY <1>1, <1>2, <1>3, <1>4 DEF Next, RunningCall

LEMMA InitImplements ==
  Init /\ DamageLasts /\ RequestsFit => RefinementInv /\ Abstract!AInit
<1> SUFFICES ASSUME Init, DamageLasts, RequestsFit PROVE RefinementInv /\ Abstract!AInit
  OBVIOUS
<1>1. ZoneInv
  BY ZoneInit
<1>2. CallKnown /\ OwnedFit
  BY DEF Init, CallKnown, OwnedFit, Running
<1>3. Abstract!AInit
  BY DEF Init, Abstract!AInit, Abstract!None, NoCall, NULL
<1> QED
  BY <1>1, <1>2, <1>3 DEF RefinementInv

-----------------------------------------------------------------------------
\* malloc, free and realloc, with defrag, the two zones and the list of large
\* chunks, do nothing an allocator must not do: a client sees its blocks appear
\* apart from all others, change or go away only when it says so.
THEOREM Implementation == Spec /\ DamageLasts /\ RequestsFit => ImplementsAllocator
<1>1. Init /\ DamageLasts /\ RequestsFit => RefinementInv /\ Abstract!AInit
  BY InitImplements
<1>2. RefinementInv /\ [Next]_vars => RefinementInv'
  BY FitStep
<1>3. RefinementInv /\ RefinementInv' /\ [Next]_vars =>
        [Abstract!ANext]_<<live, [ptr |-> call.ptr, size |-> call.size]>>
  BY StepImplements DEF AbstractStep
<1> QED
  BY <1>1, <1>2, <1>3, PTL DEF Spec, ImplementsAllocator, Abstract!ASafety
=============================================================================
