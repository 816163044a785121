----------------------------- MODULE SharedZone -----------------------------
(***************************************************************************)
(* The zones without a lock: one thread calls malloc, the others free what *)
(* it was given.                                                           *)
(*                                                                         *)
(* A header is then read by one thread while another one writes.  The      *)
(* steps here are the loads and stores of the search of ftMalloc, of       *)
(* splitChunk and of ftFree, in the order of the unoptimised build the     *)
(* Makefile makes.  Two threads that both call malloc may take the same    *)
(* chunk: what is checked here is what is left if only one does.           *)
(*                                                                         *)
(* Every free looks through zones.large before the zones, and the thread   *)
(* that allocates unmaps large chunks meanwhile: a free may read a chunk   *)
(* that has gone, and take the process with it.                            *)
(***************************************************************************)
EXTENDS FtMalloc

CONSTANT Freers     \* the threads that only free

\* The client allocates no block of 0 bytes: then defrag merges no chunks (see
\* DefragWritesNothing), and only reads, like the walks of the others.  It
\* resizes none, to an exact fit or otherwise.  munmap succeeds.
ASSUME SharedAssumption == 0 \notin Requests /\ ~ExactFits /\ ~MunmapMayFail

VARIABLES
  head,      \* zones.large; a large chunk is named by its memory, as in large
  next,      \* the next field of every large chunk
  search,    \* of the running ftMalloc: which loop, its current, and rest
  walk       \* of each freeing thread: step, block, and its loop's current

list == <<head, next>>
zvars == <<vars, list, search, walk>>

NoSearch == [step |-> "none", at |-> NULL, rest |-> [size |-> 0, free |-> TRUE]]
NoWalk == [step |-> "idle", mem |-> NULL, zone |-> "tiny", at |-> NULL]

Need == AlignUp(call.size)
Zone == ZoneFor(call.size)

-----------------------------------------------------------------------------
\* The search of ftMalloc

Searching(step) == pc = "place" /\ search.step = step
OnlySearch == UNCHANGED <<vars, list, walk>>

\* findFreeChunk starts.
BeginExact ==
  /\ Searching("none")
  /\ search' = [search EXCEPT !.step = "exact", !.at = ToFirstChunk(Zone)]
  /\ OnlySearch

\* One iteration of findFreeChunk.
LookForExact ==
  /\ Searching("exact")
  /\ \/ /\ search.at < ToZoneEnd(Zone)
        /\ search' = IF heap[search.at].size = Need /\ heap[search.at].free
                       THEN [search EXCEPT !.step = "take"]
                       ELSE [search EXCEPT !.at = ToNext(heap, search.at)]
     \/ /\ search.at >= ToZoneEnd(Zone)
        /\ search' = [search EXCEPT !.step = "fit", !.at = ToFirstChunk(Zone)]
  /\ OnlySearch

\* One iteration of findFittableFreeChunk; at the end of the zone, the way to
\* a large chunk.
LookForFit ==
  /\ Searching("fit")
  /\ \/ /\ search.at < ToZoneEnd(Zone)
        /\ search' = IF heap[search.at].size >= Need /\ heap[search.at].free
                       THEN [search EXCEPT !.step =
                               IF heap[search.at].size >= Need + CHUNK_MINIMUM_SIZE
                                 THEN "split" ELSE "take"]
                       ELSE [search EXCEPT !.at = ToNext(heap, search.at)]
        /\ OnlySearch
     \/ /\ search.at >= ToZoneEnd(Zone)
        /\ search' = NoSearch
        /\ pc' = "map"
        /\ UNCHANGED <<memory, phase, call, cur, live, list, walk>>

\* Mutant: the new header's own bytes are not taken off what is left.
RestAndHeader == [size |-> Wrap(heap[search.at].size - Need), free |-> TRUE]

\* splitChunk's header for what is left.
Rest == [size |-> Wrap(heap[search.at].size - Need - HEADER), free |-> TRUE]

\* Mutant: main->payloadSize is written first.
ShortenFirst ==
  /\ Searching("split")
  /\ search' = [search EXCEPT !.step = "shorten", !.rest = Rest]
  /\ heap' = [heap EXCEPT ![search.at].size = Need]
  /\ UNCHANGED <<base, large, maps, lost, phase, pc, call, cur, live, list, walk>>

\* splitChunk: rest's header, on no chain yet.
WriteRest ==
  /\ Searching("split")
  /\ search' = [search EXCEPT !.step = "shorten", !.rest = Rest]
  /\ OnlySearch

\* splitChunk: main->payloadSize; with it the rest is on the chain.
Shorten ==
  LET a == search.at
      b == RestOf(a, Need)
  IN  /\ Searching("shorten")
      /\ heap' = [c \in DOMAIN heap \cup {b} |->
                    IF c = a THEN [heap[a] EXCEPT !.size = Need]
                    ELSE IF c = b THEN search.rest ELSE heap[c]]
      /\ search' = [search EXCEPT !.step = "take"]
      /\ UNCHANGED <<base, large, maps, lost, phase, pc, call, cur, live, list, walk>>

\* isFree = false, and ftMalloc returns.
Take ==
  /\ Searching("take")
  /\ heap' = SetFree(heap, search.at, FALSE)
  /\ Deliver(Mem(search.at))
  /\ search' = NoSearch
  /\ UNCHANGED <<base, large, maps, phase, lost, list, walk>>

-----------------------------------------------------------------------------
\* zones.large in the thread that allocates: nobody else writes it, so that each
\* change is one step, that of the store that readers see.

\* push
Push(m) ==
  /\ head' = m
  /\ next' = [c \in DOMAIN next \cup {m} |-> IF c = m THEN head ELSE next[c]]

\* Mutant: the head of the list is left alone.
PopInside(p) ==
  LET before == { c \in DOMAIN next : next[c] = p }
  IN  /\ head' = head
      /\ next' = [c \in DOMAIN next \ {p} |-> IF c \in before THEN next[p] ELSE next[c]]

\* pop: the chunk before p, if there is one, or the head is led past p.
Pop(p) ==
  LET before == { c \in DOMAIN next : next[c] = p }
  IN  /\ head' = IF before = {} THEN next[p] ELSE head
      /\ next' = [c \in DOMAIN next \ {p} |-> IF c \in before THEN next[p] ELSE next[c]]

CreateAndPush ==
  /\ CreateLargeChunk
  /\ IF large' = large THEN UNCHANGED list
     ELSE \E m \in DOMAIN large' \ DOMAIN large : Push(m)
  /\ UNCHANGED <<search, walk>>

FreeAndPop(p) ==
  /\ Free(p)
  /\ IF p \in DOMAIN large THEN Pop(p) ELSE UNCHANGED list
  /\ UNCHANGED <<search, walk>>

\* The constructor sets zones.large to NULL.
Initialize ==
  /\ InitializePreAllocatedZones
  /\ head' = NULL
  /\ next' = [c \in {} |-> NULL]
  /\ UNCHANGED <<search, walk>>

-----------------------------------------------------------------------------
\* ftFree in another thread

Go(t, w) == walk' = [walk EXCEPT ![t] = w]
OnlyWalk == UNCHANGED <<vars, list, search>>

Begin(m, z, step) == [step |-> step, mem |-> m, zone |-> z, at |-> ToFirstChunk(z)]

\* findLargeChunk's current has become c: a chunk, which is never that of a
\* block in a zone, or NULL, and findChunk begins with the tiny zone.
ListAt(m, c) ==
  IF c = NULL THEN Begin(m, "tiny", "find")
  ELSE [NoWalk EXCEPT !.step = "list", !.mem = m, !.at = c]

\* The thread frees a block the client has: findLargeChunk loads zones.large.
\* Large blocks are left to the thread that allocates (LargeList has several
\* threads free them).
BeginFree(t) ==
  \E p \in DOMAIN live :
    /\ walk[t].step = "idle"
    /\ ~IsLarge(p)
    /\ Go(t, ListAt(p, head))
    /\ live' = [q \in DOMAIN live \ {p} |-> live[q]]
    /\ UNCHANGED <<memory, phase, pc, call, cur, list, search>>

\* findLargeChunk: current = current->next.  The load is fatal when the chunk
\* has been unmapped, unless createLargeChunk has just got its pages again:
\* then next is NULL, or push has written it already.
FollowList(t) ==
  LET w == walk[t]
      mapped == ToBase(w.at) \in DOMAIN maps
  IN  /\ w.step = "list"
      /\ \/ mapped /\ Go(t, ListAt(w.mem, next[w.at]))
         \/ ~mapped /\ Go(t, [w EXCEPT !.step = "crashed"])
         \/ /\ ~mapped /\ pc = "map"
            /\ \E c \in {NULL, head} : Go(t, ListAt(w.mem, c))
      /\ OnlyWalk

\* Mutant: current is not moved on.
StepInPlace(t) ==
  /\ walk[t].step \in {"find", "again"}
  /\ walk[t].at < ToZoneEnd(walk[t].zone)
  /\ walk[t].at # ChunkOf(walk[t].mem)
  /\ UNCHANGED zvars

\* One iteration of findChunk.  A thread that has left the chain is astray.
Step(t) ==
  LET w == walk[t]
  IN  /\ w.step \in {"find", "again"}
      /\ w.at < ToZoneEnd(w.zone)
      /\ w.at # ChunkOf(w.mem)
      /\ IF w.at \in DOMAIN heap THEN Go(t, [w EXCEPT !.at = ToNext(heap, w.at)])
         ELSE Go(t, [w EXCEPT !.step = "astray"])
      /\ OnlyWalk

\* findChunk returns NULL: on to the small zone, or "Invalid memory address".
Pass(t) ==
  LET w == walk[t]
  IN  /\ w.step \in {"find", "again"}
      /\ w.at >= ToZoneEnd(w.zone)
      /\ Go(t, IF w.step = "find" /\ w.zone = "tiny" THEN Begin(w.mem, "small", "find")
               ELSE [w EXCEPT !.step = "refused"])
      /\ OnlyWalk

\* findChunk returns the chunk; ftFree has it searched for once more.
Find(t) ==
  LET w == walk[t]
  IN  /\ w.step \in {"find", "again"}
      /\ w.at < ToZoneEnd(w.zone)
      /\ w.at = ChunkOf(w.mem)
      /\ Go(t, IF w.step = "find" THEN Begin(w.mem, w.zone, "again")
               ELSE [w EXCEPT !.step = "mark"])
      /\ OnlyWalk

\* Mutant: the second search is dropped, and with it the flag.
MarkNothing(t) ==
  /\ walk[t].step = "mark"
  /\ Go(t, NoWalk)
  /\ OnlyWalk

\* chunk->isFree = true
Mark(t) ==
  /\ walk[t].step = "mark"
  /\ heap' = SetFree(heap, walk[t].at, TRUE)
  /\ Go(t, NoWalk)
  /\ UNCHANGED <<base, large, maps, lost, phase, pc, call, cur, live, list, search>>

-----------------------------------------------------------------------------
ZInit ==
  /\ Init
  /\ head = NULL
  /\ next = [c \in {} |-> NULL]
  /\ search = NoSearch
  /\ walk = [t \in Freers |-> NoWalk]

SearchStep ==
  BeginExact \/ LookForExact \/ LookForFit \/ WriteRest \/ Shorten \/ Take

\* Of the thread that allocates, the loads of defrag are left as coarse as they
\* are in FtMalloc, and its own frees too: nobody else changes the chain.
Allocating ==
  \/ SearchStep
  \/ (DefragSection \/ DefragPastEnd) /\ UNCHANGED <<list, search, walk>>
  \/ CreateAndPush

Freeing(t) == FollowList(t) \/ Step(t) \/ Pass(t) \/ Find(t) \/ Mark(t)

\* One of the frees has read a chunk that is gone: SIGSEGV, for the process.
Crashed == \E t \in Freers : walk[t].step = "crashed"

ZNext ==
  /\ ~Crashed
  /\ \/ Allocating
     \/ Initialize
     \/ phase \in CallPhases /\ ( \/ \E n \in Requests : Malloc(n) /\ UNCHANGED <<list, search, walk>>
                                  \/ \E p \in DOMAIN live : FreeAndPop(p) )
     \/ \E t \in Freers : BeginFree(t) \/ Freeing(t)

ZSpec == ZInit /\ [][ZNext]_zvars

\* Each thread that is inside a call keeps running.
ZFairSpec ==
  /\ ZSpec
  /\ WF_zvars(~Crashed /\ Allocating)
  /\ \A t \in Freers : WF_zvars(~Crashed /\ Freeing(t))

-----------------------------------------------------------------------------
Busy(t) == walk[t].step # "idle"
BeingFreed == { walk[t].mem : t \in { u \in Freers : Busy(u) } }

\* While its header is being split off, a chunk is not on the chain yet: apart
\* from that, the chunks cover the zones in every state any thread can see; and
\* a block keeps its chunk, in use and large enough, until its own free has
\* marked it: no thread takes it before, and none loses it.
BlocksSurvive ==
  /\ ChunksTileZones /\ ~Damaged
  /\ ZoneBlocksHeld /\ BlocksDisjoint
  /\ BeingFreed \cap DOMAIN live = {}
  /\ \A m \in BeingFreed : ChunkOf(m) \in DOMAIN heap /\ ~heap[ChunkOf(m)].free

\* A free that races with a split finds its block all the same: it never reads
\* what is not a header, and is never refused.
FreesLand == \A t \in Freers : walk[t].step \notin {"astray", "refused"}

\* What nobody owns can be given out again, once its free has returned: no
\* store of one thread undoes that of another.
NothingForgotten ==
  \A a \in DOMAIN heap : ~heap[a].free => Mem(a) \in DOMAIN live \cup BeingFreed

\* Defrag, which walks the zones while others free, changes no header: it is
\* only because consequtiveFreeChunksSize finds nothing to merge that no header
\* disappears under the walk of another thread.
HeaderSizes == { <<a, heap[a].size>> : a \in DOMAIN heap }
DefragWritesNothing == [][pc = "defrag" => HeaderSizes' = HeaderSizes]_zvars

\* A free's walk of zones.large is never led to a chunk that is unmapped, by the
\* head or by a next field: only a chunk it stands at can go.
LedToChunks ==
  [][\A t \in Freers :
       walk'[t] # walk[t] /\ walk'[t].step = "list"
         => ToBase(walk'[t].at) \in DOMAIN maps']_zvars

\* The chunk a free stands at in zones.large has been unmapped.
Overtaken(t) == walk[t].step = "list" /\ ToBase(walk[t].at) \notin DOMAIN maps

\* Every free and every malloc returns, although the chunks ahead of a walk may
\* be split, taken or freed meanwhile, unless the large chunk a free stands at
\* is unmapped: that free may crash, or be led round the list for ever.
\* (P ~> Q, for a P that is not-Q, is []<>Q.)
ThreadsReturn ==
  /\ \A t \in Freers : []<>(~Busy(t) \/ Overtaken(t) \/ Crashed)
  /\ []<>(call = NoCall \/ Crashed)
=============================================================================
