----------------------------- MODULE HeaderWalk -----------------------------
(***************************************************************************)
(* The while loops of utils.c, header by header.                           *)
(*                                                                         *)
(* FtMalloc speaks of the set of headers a loop visits and of the chunk a  *)
(* search returns.  Here each loop takes one toNext after the other, in    *)
(* the order of the code, and the two agree in every state the allocator   *)
(* gets into, the damaged ones included.                                   *)
(***************************************************************************)
EXTENDS FtMalloc, FiniteSets

NoReturn == -1     \* the loop never ends

\* More iterations than there are headers to look at.
Iterations == Cardinality(DOMAIN heap) + 1

\* Where a loop that goes from s to e, unless it meets a header it is looking
\* for, is after all iterations.
Position(s, e, found) ==
  LET at[k \in 0 .. Iterations] ==
        IF k = 0 THEN s
        ELSE LET current == at[k - 1]
             IN  IF current < e /\ current \notin found THEN ToNext(heap, current) ELSE current
  IN  at[Iterations]

\* while (current < e) { if found return current; current = toNext(current) }
Search(s, e, found) ==
  LET stop == Position(s, e, found)
  IN  IF stop >= e THEN NULL ELSE IF stop \in found THEN stop ELSE NoReturn

FindChunk(m, z) ==
  Search(ToFirstChunk(z), ToZoneEnd(z), { c \in DOMAIN heap : Mem(c) = m })

FreeHeaders == { c \in DOMAIN heap : heap[c].free }

FindFreeChunk(size, z) ==
  Search(ToFirstChunk(z), ToZoneEnd(z), { c \in FreeHeaders : heap[c].size = size })

FindFittableFreeChunk(size, z) ==
  Search(ToFirstChunk(z), ToZoneEnd(z), { c \in FreeHeaders : heap[c].size >= size })

FindFree(s, e) == Search(s, e, FreeHeaders)

\* Mutant: the small zone is forgotten.
ToTinyZone(m) ==
  LET inTiny == FindChunk(m, "tiny")
  IN  IF inTiny = NoReturn THEN "no return" ELSE IF inTiny # NULL THEN "tiny" ELSE "none"

\* The zone's name; "none" is the NULL of toZone.
ToZone(m) ==
  LET inTiny == FindChunk(m, "tiny")
      inSmall == FindChunk(m, "small")
  IN  IF inTiny = NoReturn THEN "no return"
      ELSE IF inTiny # NULL THEN "tiny"
      ELSE IF inSmall = NoReturn THEN "no return"
      ELSE IF inSmall # NULL THEN "small"
      ELSE "none"

\* Where the loop of consequtiveFreeChunksSize ends; the zone's end is e.
RunEnd(s, e) ==
  LET stop == Position(s, e, DOMAIN heap \ FreeHeaders)
  IN  IF stop >= e \/ stop \notin FreeHeaders THEN stop ELSE NoReturn

\* The sum of the toChunkSize of the chunks in the run.
ConsequtiveFreeChunksSize(s) ==
  IF ToZone(s) = "no return" THEN NoReturn
  ELSE IF ToZone(s) = "none" THEN 0
  ELSE LET stop == RunEnd(s, ToZoneEnd(ToZone(s)))
       IN  IF stop = NoReturn THEN NoReturn ELSE stop - s

-----------------------------------------------------------------------------
Set == { z \in ZoneNames : base[z] # NULL }
Minimum(S) == CHOOSE a \in S : \A b \in S : a <= b

\* Every block the client has, header address and stray address is found where
\* the sets of FtMalloc say: findChunk, toZone.
LookupsAgree ==
  \A m \in DOMAIN live \cup { Mem(a) : a \in DOMAIN heap } \cup DOMAIN heap \cup {8} :
    LET found == ToZone(m)
    IN  /\ \A z \in ZoneNames : InZone(m, z) <=> found = z
        /\ InNoZone(m) <=> found = "none"
        /\ LookupHangs(m) <=> found = "no return"

\* A search returns the first header on the walk that fits, NULL if the walk
\* ends without one, and never returns if the walk is endless.
FirstOf(found, endless) ==
  IF found # {} THEN Minimum(found) ELSE IF endless THEN NoReturn ELSE NULL

SearchesAgree ==
  \A z \in Set :
    /\ \A n \in Requests :
         LET need == AlignUp(n)
             free == { a \in Chunks(z) : heap[a].free }
         IN  /\ FindFreeChunk(need, z) =
                  FirstOf({ a \in free : heap[a].size = need }, ChainEndless(z))
             /\ FindFittableFreeChunk(need, z) =
                  FirstOf({ a \in free : heap[a].size >= need }, ChainEndless(z))
    /\ \A a \in Chunks(z) :
         FindFree(ToNext(heap, a), ToZoneEnd(z)) =
           FirstOf({ b \in Walk(heap, ToNext(heap, a), ToZoneEnd(z)) : heap[b].free },
                   Endless(heap, ToNext(heap, a), ToZoneEnd(z)))

\* The run of free chunks behind a header, as expandChunk asks for it.
RunsAgree ==
  \A z \in Set : \A a \in Chunks(z) :
    LET s == ToNext(heap, a)
        size == ConsequtiveFreeChunksSize(s)
    IN  /\ ConsecutiveFreeHangs(s) <=> size = NoReturn
        /\ \A t \in Stops(a) : ConsecutiveFree(s, t) <=> size = t - s

\* The loops of the code, followed header by header, return what FtMalloc says
\* of the sets of headers, on damaged zones too, and come to no end exactly
\* where it lets a call hang.
LoopsAgree == LookupsAgree /\ SearchesAgree /\ RunsAgree
=============================================================================
