------------------------------ MODULE ZoneHeap ------------------------------
(***************************************************************************)
(* The chunk headers of a zone and the walks over them (utils.c).          *)
(*                                                                         *)
(* A heap h maps the address of every header on a chunk chain to           *)
(* [size |-> payloadSize, free |-> isFree].  A C loop that follows toNext  *)
(* from s until it passes e visits, in ascending order, the headers in     *)
(* Walk(h, s, e); it never ends when it meets a header that is its own     *)
(* successor before it finds what it looks for.                            *)
(***************************************************************************)
EXTENDS Layout

Header == [size : SizeT, free : BOOLEAN]

Mem(a) == a + HEADER
ChunkOf(m) == m - HEADER

ToNext(h, a) == Wrap(a + HEADER + h[a].size)

Loops(h, a) == ToNext(h, a) = a

\* The headers a loop from s to e looks at, while it has not found its target.
Walk(h, s, e) ==
  LET traps == { b \in DOMAIN h : s <= b /\ Loops(h, b) }
  IN  { a \in DOMAIN h : s <= a /\ a < e /\ \A b \in traps : a <= b }

Endless(h, s, e) == \E a \in Walk(h, s, e) : Loops(h, a)

\* f is the first header of S a walk meets.
IsFirst(S, f) == f \in S /\ \A g \in S : f <= g

\* The loop of consequtiveFreeChunksSize, started at s, stops at t: the first
\* header in use, or the zone's end.  The sizes it has added up are t - s.
FreeRunEndsAt(h, s, e, t) ==
  /\ t \in DOMAIN h \cup {e}
  /\ s <= t /\ t <= e
  /\ t < e => ~h[t].free
  /\ \A b \in DOMAIN h : s <= b /\ b < t => h[b].free /\ ~Loops(h, b)

FreeRunEndless(h, s, e) ==
  \E a \in Walk(h, s, e) :
    /\ Loops(h, a)
    /\ \A b \in DOMAIN h : s <= b /\ b <= a => h[b].free

\* The chunk grows over the next `by' bytes: the headers in them are payload.
\* expand leaves it as it is when that would break the alignment; the macro
\* MALLOC_ALIGNMENT has no parentheses, so that it is half of it that is checked.
Expand(h, a, by) ==
  IF (by % 8) * 2 # 0 THEN h
  ELSE [ b \in { c \in DOMAIN h : c = a \/ ~(ToNext(h, a) <= c /\ c < ToNext(h, a) + by) } |->
           IF b = a THEN [h[a] EXCEPT !.size = Wrap(@ + by)] ELSE h[b] ]

\* Mutant: offset from the header instead of from the memory behind it.
RestFromHeader(a, goal) == a + goal

RestOf(a, goal) == a + HEADER + goal

\* Mutant: the new header's own bytes are not taken off what is left.
SplitWithoutHeader(h, a, goal) ==
  [ b \in DOMAIN h \cup {RestOf(a, goal)} |->
      IF b = a THEN [h[a] EXCEPT !.size = goal]
      ELSE IF b = RestOf(a, goal)
             THEN [size |-> Wrap(h[a].size - goal), free |-> TRUE]
      ELSE h[b] ]

\* Writes a free header for what is left beyond `goal', and shortens the chunk.
SplitChunk(h, a, goal) ==
  [ b \in DOMAIN h \cup {RestOf(a, goal)} |->
      IF b = a THEN [h[a] EXCEPT !.size = goal]
      ELSE IF b = RestOf(a, goal)
             THEN [size |-> Wrap(h[a].size - goal - HEADER), free |-> TRUE]
      ELSE h[b] ]

SetFree(h, a, f) == [h EXCEPT ![a].free = f]
=============================================================================
