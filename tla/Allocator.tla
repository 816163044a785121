----------------------------- MODULE Allocator ------------------------------
(***************************************************************************)
(* What malloc, free and realloc promise a client, with nothing said about *)
(* zones, headers or lists: blocks the client owns never overlap, a block  *)
(* only goes away or changes its size when the client says so, and every   *)
(* request is answered, with a block or with NULL.                         *)
(*                                                                         *)
(* publish.c exports exactly these calls.  A realloc that moves keeps the  *)
(* old block until the new one is delivered, and keeps it if there is none.*)
(***************************************************************************)
EXTENDS Integers

CONSTANT Sizes      \* the sizes a client may ask for

VARIABLES
  owned,            \* the requested size of every block the client owns
  asked             \* the request being served: block to move, and size

None == [ptr |-> 0, size |-> -1]

\* [p, p + n) keeps clear of every block but those in E.
Clear(p, n, E) ==
  \A q \in DOMAIN owned \ E : p + n <= q \/ q + owned[q] <= p

AInit == owned = [p \in {} |-> 0] /\ asked = None

Ask(p, n) ==
  /\ asked = None
  /\ p = 0 \/ p \in DOMAIN owned
  /\ asked' = [ptr |-> p, size |-> n]
  /\ UNCHANGED owned

\* A new block, which must not overlap even the one it is to replace.
Answer(m) ==
  /\ asked # None
  /\ m \in Nat /\ m % 16 = 0 /\ m \notin DOMAIN owned \cup {0}
  /\ Clear(m, asked.size, {})
  /\ owned' = [p \in (DOMAIN owned \ {asked.ptr}) \cup {m} |->
                 IF p = m THEN asked.size ELSE owned[p]]
  /\ asked' = None

Refuse ==
  /\ asked # None
  /\ asked' = None
  /\ UNCHANGED owned

ResizeInPlace(p, n) ==
  /\ asked = None
  /\ Clear(p, n, {p})
  /\ owned' = [owned EXCEPT ![p] = n]
  /\ UNCHANGED asked

GiveBack(p) ==
  /\ asked = None
  /\ owned' = [q \in DOMAIN owned \ {p} |-> owned[q]]
  /\ UNCHANGED asked

Serve == Refuse \/ \E m \in DOMAIN owned' : Answer(m)

ANext ==
  \/ \E p \in DOMAIN owned \cup {0}, n \in Sizes : Ask(p, n)
  \/ Serve
  \/ \E p \in DOMAIN owned : GiveBack(p) \/ \E n \in Sizes : ResizeInPlace(p, n)

ASafety == AInit /\ [][ANext]_<<owned, asked>>
=============================================================================
