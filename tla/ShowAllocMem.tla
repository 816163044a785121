---------------------------- MODULE ShowAllocMem ----------------------------
(***************************************************************************)
(* show_alloc_mem: the report a client can ask for between two calls.      *)
(*                                                                         *)
(* Unlike the walks of malloc and free, showZone does not compare          *)
(* addresses: it adds the chunk sizes up until they reach the size of the  *)
(* zone.  The report only reads, so it is a function of the state in which *)
(* it is asked for; the properties hold of it in every such state.         *)
(***************************************************************************)
EXTENDS FtMalloc, SequencesExt

VARIABLE order     \* the chunks of the list, from zones.large along next

svars == <<vars, order>>

\* Mutant: the size of the payload of one chunk as large as the zone.
PayloadAreaSize(z) ==
  IF base[z] = NULL THEN 0 ELSE ZoneSize(z) - DistanceToNextAlignment(base[z]) - HEADER

\* toChunkAreaSize; a zone that was not mapped has baseSize 0.
ToChunkAreaSize(z) ==
  IF base[z] = NULL THEN 0 ELSE ZoneSize(z) - DistanceToNextAlignment(base[z])

Line(m, size) == [mem |-> m, size |-> size]

\* Mutant: free chunks are listed as well.
AfterAnyChunk(r) ==
  [ at |-> ToNext(heap, r.at),
    seen |-> Wrap(r.seen + heap[r.at].size + HEADER),
    lines |-> Append(r.lines, Line(Mem(r.at), heap[r.at].size)) ]

\* One iteration of showZone.
AfterChunk(r) ==
  [ at |-> ToNext(heap, r.at),
    seen |-> Wrap(r.seen + heap[r.at].size + HEADER),
    lines |-> IF heap[r.at].free THEN r.lines
              ELSE Append(r.lines, Line(Mem(r.at), heap[r.at].size)) ]

\* showZone after as many iterations as there are headers, and one more.
ShowZone(z) ==
  LET state[k \in 0 .. Cardinality(DOMAIN heap) + 1] ==
        IF k = 0 THEN [at |-> ToFirstChunk(z), seen |-> 0, lines |-> <<>>]
        ELSE LET r == state[k - 1]
             IN  IF r.seen < ToChunkAreaSize(z) THEN AfterChunk(r) ELSE r
  IN  state[Cardinality(DOMAIN heap) + 1]

ShowEnds(z) == ShowZone(z).seen >= ToChunkAreaSize(z)

ShowLargeZone == [ i \in DOMAIN order |-> Line(order[i], large[order[i]]) ]

Report == ShowZone("tiny").lines \o ShowZone("small").lines \o ShowLargeZone

-----------------------------------------------------------------------------
\* Where a step leaves the list: push puts the new chunk in front, pop closes
\* the gap, the constructor empties it.
Relinked ==
  \/ large' = large /\ order' = order
  \/ \E m \in DOMAIN large' \ DOMAIN large :
       /\ DOMAIN large' = DOMAIN large \cup {m}
       /\ order' = <<m>> \o order
  \/ \E i \in DOMAIN order :
       /\ DOMAIN large' = DOMAIN large \ {order[i]}
       /\ order' = RemoveAt(order, i)
  \/ phase # phase' /\ DOMAIN large' = {} /\ order' = <<>>

SInit == Init /\ order = <<>>
SNext == Next /\ Relinked
SSpec == SInit /\ [][SNext]_svars

\* As in FairSpec: the thread inside a call is scheduled.
SFairSpec == SSpec /\ WF_svars(RunningCall /\ Relinked)

-----------------------------------------------------------------------------
Asked == phase = "running" /\ pc = "idle"
Shown == { Report[i].mem : i \in DOMAIN Report }

\* Between two calls on sound zones the report lists every block the client
\* has, once, with no fewer bytes than asked for, and nothing else; only large
\* blocks from before the constructor are missing.  The walk by sizes ends, and
\* the lines of a zone ascend (those of large blocks need not).
ReportIsExact ==
  Asked /\ ~Damaged =>
    /\ \A z \in ZoneNames :
         LET lines == ShowZone(z).lines
         IN  ShowEnds(z) /\ \A i \in 2 .. Len(lines) : lines[i - 1].mem < lines[i].mem
    /\ Shown = { p \in DOMAIN live : ~(IsLarge(p) /\ ToBase(p) \in lost) }
    /\ Len(Report) = Cardinality(Shown)
    /\ \A i \in DOMAIN Report :
         Fits(live[Report[i].mem]) => live[Report[i].mem] <= Report[i].size

\* On zones a resize has damaged the report does not come to its end.
DamageHangsReport ==
  Asked /\ Damaged => \E z \in ZoneNames : ~ShowEnds(z)
=============================================================================
