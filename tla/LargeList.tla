------------------------------ MODULE LargeList -----------------------------
(***************************************************************************)
(* The list of large chunks, pointer by pointer: every load and store of   *)
(* zones.large and of the next fields is a step (utils.c 183-235, and the  *)
(* branch of ftFree for large chunks).                                     *)
(*                                                                         *)
(* There is no lock.  With one thread the steps amount to those of         *)
(* ChunkList; with several, FtMalloc's view of the list as a set that      *)
(* changes in one step is not available.                                   *)
(***************************************************************************)
EXTENDS FiniteSets, Sequences, Naturals

CONSTANTS
  Threads,
  Addresses,   \* the addresses large chunks can have
  NoChunk      \* the NULL of a pointer to a chunk

ASSUME ListAssumption ==
  IsFiniteSet(Addresses) /\ NoChunk \notin Addresses

VARIABLES
  head,        \* zones.large
  next,        \* the next field at every address
  mapped,      \* the addresses with a mapping
  pc,          \* of each thread; "crashed" is final for the whole process
  chunk,       \* of each thread: newbie, victim
  current,     \* of each thread: the loop variable of a walk
  successor,   \* of each thread: the value of found->next
  owned        \* history: chunks delivered and not being freed

vars == <<head, next, mapped, pc, chunk, current, successor, owned>>

Pointer == Addresses \cup {NoChunk}
Crashed == \E t \in Threads : pc[t] = "crashed"

locals == <<chunk, current, successor>>

Goto(t, label) == pc' = [pc EXCEPT ![t] = label]

\* The call is over, and its local variables with it.
Return(t) ==
  /\ Goto(t, "idle")
  /\ chunk' = [chunk EXCEPT ![t] = NoChunk]
  /\ current' = [current EXCEPT ![t] = NoChunk]
  /\ successor' = [successor EXCEPT ![t] = NoChunk]

-----------------------------------------------------------------------------
\* createLargeChunk: any address that is free, also one used before.
Create(t) ==
  \E c \in Addresses \ mapped :
    /\ pc[t] = "idle"
    /\ Goto(t, "link")
    /\ mapped' = mapped \cup {c}
    /\ next' = [next EXCEPT ![c] = NoChunk]
    /\ chunk' = [chunk EXCEPT ![t] = c]
    /\ UNCHANGED <<head, current, successor, owned>>

\* Mutant: newbie->next stays NULL.
LinkNothing(t) ==
  /\ pc[t] = "link"
  /\ Goto(t, "publish")
  /\ UNCHANGED <<head, next, mapped, locals, owned>>

\* push: newbie->next = zones.large
Link(t) ==
  /\ pc[t] = "link"
  /\ Goto(t, "publish")
  /\ next' = [next EXCEPT ![chunk[t]] = head]
  /\ UNCHANGED <<head, mapped, locals, owned>>

\* push: zones.large = newbie
Publish(t) ==
  /\ pc[t] = "publish"
  /\ Return(t)
  /\ head' = chunk[t]
  /\ owned' = owned \cup {chunk[t]}
  /\ UNCHANGED <<next, mapped>>

-----------------------------------------------------------------------------
\* ftFree of a block some thread was given.
Free(t) ==
  \E c \in owned :
    /\ pc[t] = "idle"
    /\ Goto(t, "find")
    /\ owned' = owned \ {c}
    /\ chunk' = [chunk EXCEPT ![t] = c]
    /\ current' = [current EXCEPT ![t] = head]
    /\ UNCHANGED <<head, next, mapped, successor>>

\* A load through a pointer to a chunk that has been unmapped.
Crash(t) ==
  /\ Goto(t, "crashed")
  /\ UNCHANGED <<head, next, mapped, locals, owned>>

\* Mutant: current = current->next is missing.
StayThere(t) ==
  \/ current[t] \in mapped /\ UNCHANGED vars
  \/ current[t] \notin mapped /\ Crash(t)

Advance(t) ==
  \/ /\ current[t] \in mapped
     /\ current' = [current EXCEPT ![t] = next[current[t]]]
     /\ UNCHANGED <<head, next, mapped, pc, chunk, successor, owned>>
  \/ current[t] \notin mapped /\ Crash(t)

\* findLargeChunk(mem), first of ftFree itself, then of pop.  When ftFree does
\* not find the chunk it refuses the address; when pop does not, the mapping
\* goes all the same.
Find(t) ==
  /\ pc[t] \in {"find", "pop"}
  /\ \/ /\ current[t] \notin {NoChunk, chunk[t]}
        /\ Advance(t)
     \/ /\ current[t] = chunk[t]
        /\ Goto(t, IF pc[t] = "find" THEN "pop" ELSE "previous")
        /\ current' = [current EXCEPT ![t] = head]
        /\ UNCHANGED <<head, next, mapped, chunk, successor, owned>>
     \/ /\ current[t] = NoChunk /\ pc[t] = "find"
        /\ Return(t)
        /\ UNCHANGED <<head, next, mapped, owned>>
     \/ /\ current[t] = NoChunk /\ pc[t] = "pop"
        /\ Goto(t, "unmap")
        /\ UNCHANGED <<head, next, mapped, locals, owned>>

\* Mutant: the loop of toPrevious returns the last chunk instead of NULL.
PreviousOrLast(t) ==
  /\ pc[t] = "previous"
  /\ \/ /\ current[t] \in mapped
        /\ next[current[t]] \notin {chunk[t], NoChunk}
        /\ Advance(t)
     \/ /\ current[t] \in mapped => next[current[t]] \in {chunk[t], NoChunk}
        /\ Goto(t, "load")
        /\ UNCHANGED <<head, next, mapped, locals, owned>>

\* toPrevious(victim): current stays at the chunk before the victim, or NULL.
Previous(t) ==
  /\ pc[t] = "previous"
  /\ \/ /\ current[t] # NoChunk
        /\ current[t] \in mapped => next[current[t]] # chunk[t]
        /\ Advance(t)
     \/ /\ current[t] = NoChunk \/ (current[t] \in mapped /\ next[current[t]] = chunk[t])
        /\ Goto(t, "load")
        /\ UNCHANGED <<head, next, mapped, locals, owned>>

\* found->next
LoadNext(t) ==
  /\ pc[t] = "load"
  /\ \/ /\ chunk[t] \in mapped
        /\ successor' = [successor EXCEPT ![t] = next[chunk[t]]]
        /\ Goto(t, "store")
        /\ UNCHANGED <<head, next, mapped, chunk, current, owned>>
     \/ chunk[t] \notin mapped /\ Crash(t)

\* Mutant: the head of the list is left alone.
SpliceInside(t) ==
  /\ pc[t] = "store"
  /\ Goto(t, "unmap")
  /\ next' = IF current[t] = NoChunk THEN next ELSE [next EXCEPT ![current[t]] = successor[t]]
  /\ UNCHANGED <<head, mapped, locals, owned>>

\* prev->next = found->next, or zones.large = found->next
Splice(t) ==
  /\ pc[t] = "store"
  /\ \/ /\ current[t] = NoChunk
        /\ head' = successor[t]
        /\ Goto(t, "unmap")
        /\ UNCHANGED <<next, mapped, locals, owned>>
     \/ /\ current[t] \in mapped
        /\ next' = [next EXCEPT ![current[t]] = successor[t]]
        /\ Goto(t, "unmap")
        /\ UNCHANGED <<head, mapped, locals, owned>>
     \/ current[t] \notin mapped \cup {NoChunk} /\ Crash(t)

\* Mutant: the mapping that goes is that of the chunk before.
UnmapPrevious(t) ==
  /\ pc[t] = "unmap"
  /\ Return(t)
  /\ mapped' = mapped \ {current[t]}
  /\ UNCHANGED <<head, next, owned>>

\* toBase and toBaseSize are read from the header of the chunk itself.
Unmap(t) ==
  /\ pc[t] = "unmap"
  /\ Return(t)
  /\ mapped' = mapped \ {chunk[t]}
  /\ UNCHANGED <<head, next, owned>>

-----------------------------------------------------------------------------
Init ==
  /\ head = NoChunk
  /\ next = [c \in Addresses |-> NoChunk]
  /\ mapped = {}
  /\ pc = [t \in Threads |-> "idle"]
  /\ chunk = [t \in Threads |-> NoChunk]
  /\ current = [t \in Threads |-> NoChunk]
  /\ successor = [t \in Threads |-> NoChunk]
  /\ owned = {}

InCall(t) ==
  \/ Link(t) \/ Publish(t)
  \/ Find(t) \/ Previous(t) \/ LoadNext(t) \/ Splice(t) \/ Unmap(t)

Next == ~Crashed /\ \E t \in Threads : Create(t) \/ Free(t) \/ InCall(t)

Spec == Init /\ [][Next]_vars

\* Every thread that is inside a call keeps running.
FairSpec == Spec /\ \A t \in Threads : WF_vars(~Crashed /\ InCall(t))

-----------------------------------------------------------------------------
\* What a walk from h sees after k steps, and the chunks it sees in order.
WalkFrom(h, nx) ==
  LET at[k \in 0 .. Cardinality(Addresses)] ==
        IF k = 0 THEN h
        ELSE LET c == at[k - 1] IN IF c = NoChunk THEN NoChunk ELSE nx[c]
  IN  at

ListFrom(h, nx) ==
  LET seen == WalkFrom(h, nx)
      length == Cardinality({ k \in DOMAIN seen : seen[k] # NoChunk })
  IN  [ i \in 1 .. length |-> seen[i - 1] ]

\* The list a walk from zones.large sees.
Seen == WalkFrom(head, next)
AsSequence == ListFrom(head, next)
Listed == { Seen[k] : k \in DOMAIN Seen } \ {NoChunk}

\* The pointers are pointers, and every thread is at a line of the code.
TypeOK ==
  /\ head \in Pointer /\ next \in [Addresses -> Pointer]
  /\ mapped \subseteq Addresses /\ owned \subseteq Addresses
  /\ pc \in [Threads -> {"idle", "link", "publish", "find", "pop", "previous",
                         "load", "store", "unmap", "crashed"}]
  /\ chunk \in [Threads -> Pointer]
  /\ current \in [Threads -> Pointer] /\ successor \in [Threads -> Pointer]

\* All the client can free is listed, all that is listed is mapped, and the
\* mappings that are not listed are those of the calls under way.
ListMatchesMappings ==
  /\ owned \subseteq Listed
  /\ Listed \subseteq mapped
  /\ mapped \ Listed \subseteq { chunk[t] : t \in { u \in Threads : pc[u] # "idle" } }
  /\ ~Crashed

Sequential == INSTANCE ChunkList WITH Members <- Addresses, list <- AsSequence

\* The pointer steps of push and pop change the list as one step each would.
ImplementsChunkList == Sequential!LSafety

\* Whatever races do to the list, the mapping of a block stays while somebody
\* owns it, and no two calls of the moment are at work on the same chunk.
AtWork(t) == pc[t] \notin {"idle", "crashed"}
OwnedStayMapped ==
  /\ owned \subseteq mapped
  /\ \A t \in Threads : AtWork(t) =>
       /\ chunk[t] \in mapped \ owned
       /\ \A u \in Threads \ {t} : AtWork(u) => chunk[u] # chunk[t]

\* Every call returns.
CallsReturn == \A t \in Threads : pc[t] # "idle" ~> pc[t] = "idle"
=============================================================================
