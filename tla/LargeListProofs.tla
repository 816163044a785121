--------------------------- MODULE LargeListProofs --------------------------
(***************************************************************************)
(* The list of large chunks.  For every number of threads: a race cannot   *)
(* unmap a block under its owner.  For one thread: the loads and stores    *)
(* amount to a list that changes in one step.                              *)
(***************************************************************************)
EXTENDS LargeList, CommonLemmas

Labels == {"idle", "link", "publish", "find", "pop", "previous", "load", "store",
           "unmap", "crashed"}

ListInv == TypeOK /\ OwnedStayMapped

\* Going on to another line of the same call, or dying, as far as the mappings,
\* the owners and the chunk of the call are concerned.
LEMMA StayAtWork ==
  ASSUME ListInv, NEW t \in Threads, AtWork(t), NEW label \in Labels \ {"idle"},
         Goto(t, label), UNCHANGED <<mapped, owned, chunk>>
  PROVE  OwnedStayMapped'
<1>1. \A u \in Threads : AtWork(u)' => AtWork(u)
  BY DEF ListInv, TypeOK, AtWork, Goto
<1> QED
  BY <1>1 DEF ListInv, OwnedStayMapped

LEMMA StayTyped ==
  ASSUME TypeOK, NEW t \in Threads, NEW label \in Labels, Goto(t, label)
  PROVE  pc' \in [Threads -> Labels] /\ pc'[t] = label
  BY DEF TypeOK, Goto, Labels

\* The call returns, and none of the others changes.
LEMMA ReturnTyped ==
  ASSUME TypeOK, NEW t \in Threads, Return(t)
  PROVE  /\ pc' \in [Threads -> Labels]
         /\ chunk' \in [Threads -> Pointer]
         /\ current' \in [Threads -> Pointer]
         /\ successor' \in [Threads -> Pointer]
         /\ ~AtWork(t)'
         /\ \A u \in Threads \ {t} : chunk'[u] = chunk[u] /\ (AtWork(u)' <=> AtWork(u))
  BY DEF TypeOK, Return, Goto, Labels, Pointer, AtWork

LEMMA CrashKeeps ==
  ASSUME ListInv, NEW t \in Threads, AtWork(t), Crash(t)
  PROVE  ListInv'
<1>1. OwnedStayMapped'
  BY StayAtWork DEF Crash, locals, Labels
<1>2. TypeOK'
  BY StayTyped DEF ListInv, TypeOK, Crash, locals, Labels
<1> QED
  BY <1>1, <1>2 DEF ListInv

LEMMA AdvanceKeeps ==
  ASSUME ListInv, NEW t \in Threads, AtWork(t), Advance(t)
  PROVE  ListInv'
<1>1. CASE /\ current[t] \in mapped
           /\ current' = [current EXCEPT ![t] = next[current[t]]]
           /\ UNCHANGED <<head, next, mapped, pc, chunk, successor, owned>>
  <2>1. next[current[t]] \in Pointer
    BY <1>1 DEF ListInv, TypeOK
  <2>2. TypeOK'
    BY <1>1, <2>1 DEF ListInv, TypeOK
  <2>3. OwnedStayMapped'
    BY <1>1 DEF ListInv, OwnedStayMapped, AtWork
  <2> QED
    BY <2>2, <2>3 DEF ListInv
<1> QED
  BY <1>1, CrashKeeps DEF Advance

LEMMA CreateKeeps ==
  ASSUME ListInv, NEW t \in Threads, Create(t)
  PROVE  ListInv'
<1> PICK c \in Addresses \ mapped :
      /\ pc[t] = "idle" /\ Goto(t, "link")
      /\ mapped' = mapped \cup {c}
      /\ next' = [next EXCEPT ![c] = NoChunk]
      /\ chunk' = [chunk EXCEPT ![t] = c]
      /\ UNCHANGED <<head, current, successor, owned>>
  BY DEF Create
<1>1. TypeOK'
  BY StayTyped DEF ListInv, TypeOK, Pointer, Labels
<1>2. \A u \in Threads \ {t} : chunk'[u] = chunk[u] /\ (AtWork(u)' <=> AtWork(u))
  BY DEF ListInv, TypeOK, Goto, AtWork
<1>3. chunk'[t] = c
  BY DEF ListInv, TypeOK
<1>4. OwnedStayMapped'
  BY <1>2, <1>3 DEF ListInv, OwnedStayMapped
<1> QED
  BY <1>1, <1>4 DEF ListInv

LEMMA PublishKeeps ==
  ASSUME ListInv, NEW t \in Threads, Publish(t)
  PROVE  ListInv'
<1>1. /\ AtWork(t) /\ Return(t) /\ head' = chunk[t]
      /\ owned' = owned \cup {chunk[t]} /\ UNCHANGED <<next, mapped>>
  BY DEF Publish, AtWork
<1>2. chunk[t] \in mapped /\ chunk[t] \notin owned
      /\ \A u \in Threads \ {t} : AtWork(u) => chunk[u] # chunk[t]
  BY <1>1 DEF ListInv, OwnedStayMapped
<1>3. TypeOK'
  BY <1>1, <1>2, ReturnTyped DEF ListInv, TypeOK, Labels
<1>4. OwnedStayMapped'
  BY <1>1, <1>2, ReturnTyped DEF ListInv, OwnedStayMapped
<1> QED
  BY <1>3, <1>4 DEF ListInv

LEMMA FreeKeeps ==
  ASSUME ListInv, NEW t \in Threads, Free(t)
  PROVE  ListInv'
<1> PICK c \in owned :
      /\ pc[t] = "idle" /\ Goto(t, "find")
      /\ owned' = owned \ {c}
      /\ chunk' = [chunk EXCEPT ![t] = c]
      /\ current' = [current EXCEPT ![t] = head]
      /\ UNCHANGED <<head, next, mapped, successor>>
  BY DEF Free
<1>1. TypeOK'
  BY StayTyped DEF ListInv, TypeOK, Pointer, Labels
<1>2. \A u \in Threads \ {t} : chunk'[u] = chunk[u] /\ (AtWork(u)' <=> AtWork(u))
  BY DEF ListInv, TypeOK, Goto, AtWork
<1>3. chunk'[t] = c
  BY DEF ListInv, TypeOK
<1>4. OwnedStayMapped'
  BY <1>2, <1>3 DEF ListInv, OwnedStayMapped
<1> QED
  BY <1>1, <1>4 DEF ListInv

LEMMA FindKeeps ==
  ASSUME ListInv, NEW t \in Threads, Find(t)
  PROVE  ListInv'
<1>0. AtWork(t)
  BY DEF Find, AtWork
<1>1. CASE Advance(t)
  BY <1>0, <1>1, AdvanceKeeps
<1>2. ASSUME NEW label \in {"pop", "previous", "unmap"}, Goto(t, label),
             current' = [current EXCEPT ![t] = head] \/ current' = current,
             UNCHANGED <<head, next, mapped, chunk, successor, owned>>
      PROVE  ListInv'
  <2>1. OwnedStayMapped'
    BY <1>0, <1>2, StayAtWork DEF Labels
  <2>2. TypeOK'
    BY <1>2, StayTyped DEF ListInv, TypeOK, Labels
  <2> QED
    BY <2>1, <2>2 DEF ListInv
<1>3. CASE Return(t) /\ UNCHANGED <<head, next, mapped, owned>>
  <2>1. TypeOK'
    BY <1>3, ReturnTyped DEF ListInv, TypeOK, Labels
  <2>2. OwnedStayMapped'
    BY <1>3, ReturnTyped DEF ListInv, OwnedStayMapped
  <2> QED
    BY <2>1, <2>2 DEF ListInv
<1> QED
  BY <1>1, <1>2, <1>3 DEF Find, locals

\* The steps that only move on in the call, or store to the list.
LEMMA ListStepKeeps ==
  ASSUME ListInv, NEW t \in Threads, Link(t) \/ Previous(t) \/ LoadNext(t) \/ Splice(t)
  PROVE  ListInv'
<1>0. AtWork(t)
  BY DEF Link, Previous, LoadNext, Splice, AtWork
<1>1. CASE Advance(t) \/ Crash(t)
  BY <1>0, <1>1, AdvanceKeeps, CrashKeeps
<1>2. CASE ~(Advance(t) \/ Crash(t))
  <2>1. /\ \E label \in {"publish", "load", "store", "unmap"} : Goto(t, label)
        /\ UNCHANGED <<mapped, owned, chunk, current>>
    BY <1>2 DEF Link, Previous, LoadNext, Splice, locals
  <2>2. OwnedStayMapped'
    BY <1>0, <2>1, StayAtWork DEF Labels
  <2>3. pc' \in [Threads -> Labels]
    BY <2>1, StayTyped DEF ListInv, Labels
  <2>4. head' \in Pointer /\ next' \in [Addresses -> Pointer]
        /\ successor' \in [Threads -> Pointer]
    BY <1>2 DEF Link, Previous, LoadNext, Splice, locals, ListInv, TypeOK
  <2>5. TypeOK'
    BY <2>1, <2>3, <2>4 DEF ListInv, TypeOK, Labels
  <2> QED
    BY <2>2, <2>5 DEF ListInv
<1> QED
  BY <1>1, <1>2

LEMMA UnmapKeeps ==
  ASSUME ListInv, NEW t \in Threads, Unmap(t)
  PROVE  ListInv'
<1>1. /\ AtWork(t) /\ Return(t) /\ mapped' = mapped \ {chunk[t]}
      /\ UNCHANGED <<head, next, owned>>
  BY DEF Unmap, AtWork
<1>2. chunk[t] \notin owned /\ \A u \in Threads \ {t} : AtWork(u) => chunk[u] # chunk[t]
  BY <1>1 DEF ListInv, OwnedStayMapped
<1>3. TypeOK'
  BY <1>1, ReturnTyped DEF ListInv, TypeOK, Labels
<1>4. OwnedStayMapped'
  BY <1>1, <1>2, ReturnTyped DEF ListInv, OwnedStayMapped
<1> QED
  BY <1>3, <1>4 DEF ListInv

-----------------------------------------------------------------------------
LEMMA ListInvInit == Init => ListInv
BY DEF Init, ListInv, TypeOK, OwnedStayMapped, AtWork, Pointer

LEMMA ListInvStep == ListInv /\ [Next]_vars => ListInv'
<1> SUFFICES ASSUME ListInv, [Next]_vars PROVE ListInv'
  OBVIOUS
<1>1. ASSUME NEW t \in Threads, Create(t) \/ Free(t) \/ InCall(t) PROVE ListInv'
  BY <1>1, CreateKeeps, PublishKeeps, FreeKeeps, FindKeeps, ListStepKeeps, UnmapKeeps
  DEF InCall
<1>2. CASE UNCHANGED vars
  BY <1>2 DEF vars, ListInv, TypeOK, OwnedStayMapped, AtWork
<1> QED
  BY <1>1, <1>2 DEF Next

\* However many threads race, a block that somebody owns stays mapped, and two
\* calls are never at work on the same chunk.
THEOREM NoUnmapUnderOwner == Spec => []OwnedStayMapped
<1>1. ListInv => OwnedStayMapped
  BY DEF ListInv
<1> QED
  BY <1>1, ListInvInit, ListInvStep, PTL DEF Spec

-----------------------------------------------------------------------------
(***************************************************************************)
(* One thread: the list as a sequence.  What a walk sees is a recursive    *)
(* function; the invariant speaks of a sequence instead that the pointers  *)
(* link; by WalkAlong of CommonLemmas a walk sees just that sequence.      *)
(***************************************************************************)
\* The walk that LargeList defines by recursion, on the sequence the pointers link.
LEMMA ListAsSequence ==
  ASSUME NEW s, NEW h, NEW nx, Linked(Addresses, NoChunk, s, h, nx)
  PROVE  /\ ListFrom(h, nx) = s
         /\ { WalkFrom(h, nx)[k] : k \in DOMAIN WalkFrom(h, nx) } \ {NoChunk} = Members(s)
<1>1. WalkFrom(h, nx) = Follow(Addresses, NoChunk, h, nx)
  BY DEF WalkFrom, Follow
<1>2. FollowedList(Addresses, NoChunk, h, nx) = s /\ Followed(Addresses, NoChunk, h, nx) = Members(s)
  BY ListAlong, ListAssumption
<1> QED
  BY <1>1, <1>2 DEF ListFrom, FollowedList, Followed

-----------------------------------------------------------------------------
\* Where the one thread is in its call, on the list s; i is the place of the
\* chunk that is being freed.
At(t, s, i) ==
  /\ i \in 1 .. Len(s)
  /\ s[i] = chunk[t]
  /\ owned = Members(s) \ {chunk[t]}
  /\ mapped = Members(s)
  /\ pc[t] \in {"find", "pop"} => \E j \in 1 .. i : current[t] = s[j]
  /\ pc[t] = "previous" =>
       \/ i = 1 /\ current[t] = NoChunk
       \/ \E j \in 1 .. Len(s) : current[t] = s[j] /\ (i > 1 => j < i)
  /\ pc[t] \in {"load", "store"} => current[t] = IF i = 1 THEN NoChunk ELSE s[i - 1]
  /\ pc[t] = "store" => successor[t] = next[chunk[t]]

AtLine(t, s) ==
  /\ pc[t] # "crashed"
  /\ pc[t] = "idle" => owned = Members(s) /\ mapped = Members(s)
  /\ pc[t] \in {"link", "publish", "unmap"} =>
       /\ chunk[t] \in Addresses \ Members(s)
       /\ owned = Members(s)
       /\ mapped = Members(s) \cup {chunk[t]}
  /\ pc[t] = "publish" => next[chunk[t]] = head
  /\ pc[t] \in {"find", "pop", "previous", "load", "store"} =>
       \E i \in 1 .. Len(s) : At(t, s, i)

OnList(s) == Linked(Addresses, NoChunk, s, head, next) /\ \A t \in Threads : AtLine(t, s)
OneThread == \E t : Threads = {t}
OneInv == OneThread /\ ListInv /\ \E s \in Seq(Addresses) : OnList(s)

LEMMA CreateOnList ==
  ASSUME ListInv, NEW s, OnList(s), NEW t, Threads = {t}, Create(t)
  PROVE  OnList(s)'
<1> PICK c \in Addresses \ mapped :
      /\ pc[t] = "idle" /\ Goto(t, "link")
      /\ mapped' = mapped \cup {c}
      /\ next' = [next EXCEPT ![c] = NoChunk]
      /\ chunk' = [chunk EXCEPT ![t] = c]
      /\ UNCHANGED <<head, current, successor, owned>>
  BY DEF Create
<1>1. owned = Members(s) /\ mapped = Members(s)
  BY DEF OnList, AtLine
<1>2. Linked(Addresses, NoChunk, s, head', next')
  BY <1>1, StoreElsewhere, ListAssumption DEF OnList, ListInv, TypeOK
<1>3. pc'[t] = "link" /\ chunk'[t] = c
  BY DEF ListInv, TypeOK, Goto
<1>4. AtLine(t, s)'
  BY <1>1, <1>3 DEF AtLine
<1> QED
  BY <1>2, <1>4 DEF OnList

LEMMA LinkOnList ==
  ASSUME ListInv, NEW s, OnList(s), NEW t, Threads = {t}, Link(t)
  PROVE  OnList(s)'
<1>1. /\ chunk[t] \in Addresses \ Members(s)
      /\ owned = Members(s) /\ mapped = Members(s) \cup {chunk[t]}
  BY DEF OnList, AtLine, Link
<1>2. Linked(Addresses, NoChunk, s, head', next')
  BY <1>1, StoreElsewhere, ListAssumption DEF OnList, ListInv, TypeOK, Link
<1>3. pc'[t] = "publish" /\ next'[chunk[t]] = head
  BY <1>1 DEF ListInv, TypeOK, Goto, Link
<1>4. AtLine(t, s)'
  BY <1>1, <1>3 DEF AtLine, Link, locals
<1> QED
  BY <1>2, <1>4 DEF OnList, Link

LEMMA PublishOnList ==
  ASSUME ListInv, NEW s, OnList(s), NEW t, Threads = {t}, Publish(t)
  PROVE  \E c \in Addresses : OnList(<<c>> \o s)'
<1> DEFINE u == <<chunk[t]>> \o s
<1>1. /\ chunk[t] \in Addresses \ Members(s) /\ next[chunk[t]] = head
      /\ owned = Members(s) /\ mapped = Members(s) \cup {chunk[t]}
  BY DEF OnList, AtLine, Publish
<1>2. Linked(Addresses, NoChunk, u, head', next') /\ Members(u) = Members(s) \cup {chunk[t]}
  BY <1>1, PushedChain, ListAssumption DEF OnList, Publish
<1>3. pc'[t] = "idle" /\ owned' = Members(u) /\ mapped' = Members(u)
  BY <1>1, <1>2 DEF ListInv, TypeOK, Return, Goto, Publish
<1> HIDE DEF u
<1>4. \A v : v = u => OnList(v)'
  BY <1>2, <1>3 DEF OnList, AtLine
<1> QED
  BY <1>1, <1>4 DEF u

LEMMA FreeOnList ==
  ASSUME ListInv, NEW s, OnList(s), NEW t, Threads = {t}, Free(t)
  PROVE  OnList(s)'
<1> PICK c \in owned :
      /\ pc[t] = "idle" /\ Goto(t, "find")
      /\ owned' = owned \ {c}
      /\ chunk' = [chunk EXCEPT ![t] = c]
      /\ current' = [current EXCEPT ![t] = head]
      /\ UNCHANGED <<head, next, mapped, successor>>
  BY DEF Free
<1>1. owned = Members(s) /\ mapped = Members(s)
  BY DEF OnList, AtLine
<1>2. PICK i \in 1 .. Len(s) : s[i] = c
  BY <1>1 DEF Members
<1>3. pc'[t] = "find" /\ chunk'[t] = c /\ current'[t] = s[1] /\ 1 \in 1 .. i
  BY <1>2 DEF OnList, Linked, ListInv, TypeOK, Goto
<1>4. At(t, s, i)'
  BY <1>1, <1>2, <1>3 DEF At
<1>5. AtLine(t, s)'
  BY <1>3, <1>4 DEF AtLine
<1> QED
  BY <1>5 DEF OnList

LEMMA FindOnList ==
  ASSUME ListInv, NEW s, OnList(s), NEW t, Threads = {t}, Find(t)
  PROVE  OnList(s)'
<1>1. pc[t] \in {"find", "pop"}
  BY DEF Find
<1>2. PICK i \in 1 .. Len(s) : At(t, s, i)
  BY <1>1 DEF OnList, AtLine
<1>3. PICK j \in 1 .. i : current[t] = s[j]
  BY <1>1, <1>2 DEF At
<1>4. /\ s \in Seq(Addresses) /\ Len(s) \in Nat /\ j \in 1 .. Len(s)
      /\ current[t] \in mapped /\ current[t] # NoChunk
  <2>1. s \in Seq(Addresses) /\ Len(s) \in Nat /\ j \in 1 .. Len(s)
    BY DEF OnList, Linked
  <2> QED
    BY <1>2, <1>3, <2>1, ListAssumption DEF At, Members
<1>5. CASE current[t] # chunk[t]
  <2>1. /\ current' = [current EXCEPT ![t] = next[current[t]]]
        /\ UNCHANGED <<head, next, mapped, pc, chunk, successor, owned>>
    BY <1>4, <1>5 DEF Find, Advance, Crash
  <2>2. j < i
    BY <1>2, <1>3, <1>5 DEF At
  <2>3. current'[t] = s[j + 1] /\ j + 1 \in 1 .. i
    BY <1>3, <1>4, <2>1, <2>2 DEF OnList, Linked, ListInv, TypeOK
  <2>4. At(t, s, i)'
    BY <1>1, <1>2, <2>1, <2>3 DEF At
  <2>5. AtLine(t, s)'
    BY <1>1, <2>1, <2>4 DEF AtLine
  <2> QED
    BY <2>1, <2>5 DEF OnList
<1>6. CASE current[t] = chunk[t]
  <2>1. /\ pc'[t] \in {"pop", "previous"}
        /\ current'[t] = s[1]
        /\ UNCHANGED <<head, next, mapped, chunk, successor, owned>>
    BY <1>1, <1>4, <1>6 DEF Find, Goto, ListInv, TypeOK, OnList, Linked
  <2>2. 1 \in 1 .. i /\ 1 \in 1 .. Len(s) /\ (i > 1 => 1 < i)
    BY <1>4
  <2>3. At(t, s, i)'
    BY <1>2, <2>1, <2>2 DEF At
  <2>4. AtLine(t, s)'
    BY <2>1, <2>3 DEF AtLine
  <2> QED
    BY <2>1, <2>4 DEF OnList
<1> QED
  BY <1>5, <1>6

LEMMA PreviousOnList ==
  ASSUME ListInv, NEW s, OnList(s), NEW t, Threads = {t}, Previous(t)
  PROVE  OnList(s)'
<1>1. pc[t] = "previous"
  BY DEF Previous
<1>2. PICK i \in 1 .. Len(s) : At(t, s, i)
  BY <1>1 DEF OnList, AtLine
<1>3. /\ s \in Seq(Addresses) /\ Len(s) \in Nat
      /\ chunk[t] = s[i] /\ chunk[t] # NoChunk
  BY <1>2, ListAssumption DEF At, OnList, Linked
<1>4. ASSUME Goto(t, "load"), UNCHANGED <<head, next, mapped, locals, owned>>,
             current[t] = IF i = 1 THEN NoChunk ELSE s[i - 1]
      PROVE  OnList(s)'
  <2>1. pc'[t] = "load"
    BY <1>4 DEF Goto, ListInv, TypeOK
  <2>2. At(t, s, i)'
    BY <1>2, <1>4, <2>1 DEF At, locals
  <2> QED
    BY <1>4, <2>1, <2>2 DEF OnList, AtLine
<1>5. CASE current[t] = NoChunk
  <2>1. \A j \in 1 .. Len(s) : s[j] # NoChunk
    BY <1>3, ListAssumption
  <2>2. i = 1
    BY <1>1, <1>2, <1>5, <2>1 DEF At
  <2>3. Goto(t, "load") /\ UNCHANGED <<head, next, mapped, locals, owned>>
    BY <1>5 DEF Previous
  <2> QED
    BY <1>4, <1>5, <2>2, <2>3
<1>6. CASE current[t] # NoChunk
  <2>1. PICK j \in 1 .. Len(s) : current[t] = s[j] /\ (i > 1 => j < i)
    BY <1>1, <1>2, <1>6 DEF At
  <2>2. current[t] \in mapped
    BY <1>2, <2>1 DEF At, Members
  <2>3. next[s[j]] = IF j < Len(s) THEN s[j + 1] ELSE NoChunk
    BY DEF OnList, Linked
  <2>4. \A k \in 1 .. Len(s) : s[k] = s[i] => k = i
    BY DEF OnList, Linked
  <2>5. CASE next[current[t]] = chunk[t]
    <3>1. j < Len(s) /\ s[j + 1] = s[i]
      BY <1>3, <2>1, <2>3, <2>5
    <3>2. j + 1 = i
      BY <1>3, <2>4, <3>1
    <3>3. current[t] = IF i = 1 THEN NoChunk ELSE s[i - 1]
      BY <1>3, <2>1, <3>2
    <3>4. Goto(t, "load") /\ UNCHANGED <<head, next, mapped, locals, owned>>
      BY <1>6, <2>2, <2>5 DEF Previous
    <3> QED
      BY <1>4, <3>3, <3>4
  <2>6. CASE next[current[t]] # chunk[t]
    <3>1. /\ current' = [current EXCEPT ![t] = next[current[t]]]
          /\ UNCHANGED <<head, next, mapped, pc, chunk, successor, owned>>
      BY <1>6, <2>2, <2>6 DEF Previous, Advance, Crash
    <3>2. current'[t] = next[s[j]]
      BY <2>1, <3>1 DEF ListInv, TypeOK
    <3>3. j + 1 # i
      BY <1>3, <2>1, <2>3, <2>6
    <3>4. \/ i = 1 /\ current'[t] = NoChunk
          \/ \E k \in 1 .. Len(s) : current'[t] = s[k] /\ (i > 1 => k < i)
      <4>1. CASE j < Len(s)
        <5>1. j + 1 \in 1 .. Len(s) /\ current'[t] = s[j + 1] /\ (i > 1 => j + 1 < i)
          BY <1>3, <2>1, <2>3, <3>2, <3>3, <4>1
        <5> QED
          BY <5>1
      <4>2. CASE j = Len(s)
        BY <1>3, <2>1, <2>3, <3>2, <4>2
      <4> QED
        BY <1>3, <4>1, <4>2
    <3>5. At(t, s, i)'
      BY <1>1, <1>2, <3>1, <3>4 DEF At
    <3> QED
      BY <1>1, <3>1, <3>5 DEF OnList, AtLine
  <2> QED
    BY <2>5, <2>6
<1> QED
  BY <1>5, <1>6

LEMMA LoadOnList ==
  ASSUME ListInv, NEW s, OnList(s), NEW t, Threads = {t}, LoadNext(t)
  PROVE  OnList(s)'
<1>1. pc[t] = "load"
  BY DEF LoadNext
<1>2. PICK i \in 1 .. Len(s) : At(t, s, i)
  BY <1>1 DEF OnList, AtLine
<1>3. chunk[t] \in mapped
  BY <1>2 DEF At, Members
<1>4. /\ pc'[t] = "store" /\ successor'[t] = next[chunk[t]]
      /\ UNCHANGED <<head, next, mapped, chunk, current, owned>>
  BY <1>3 DEF LoadNext, Crash, Goto, ListInv, TypeOK
<1>5. At(t, s, i)'
  BY <1>1, <1>2, <1>4 DEF At
<1> QED
  BY <1>4, <1>5 DEF OnList, AtLine

LEMMA SpliceOnList ==
  ASSUME ListInv, NEW s, OnList(s), NEW t, Threads = {t}, Splice(t)
  PROVE  \E i \in 1 .. Len(s) : OnList(Without(s, i))'
<1>1. pc[t] = "store"
  BY DEF Splice
<1>2. PICK i \in 1 .. Len(s) : At(t, s, i)
  BY <1>1 DEF OnList, AtLine
<1>3. /\ s \in Seq(Addresses) /\ Len(s) \in Nat
      /\ chunk[t] = s[i] /\ chunk[t] \in Addresses /\ successor[t] = next[s[i]]
      /\ owned = Members(s) \ {s[i]} /\ mapped = Members(s)
  BY <1>1, <1>2 DEF At, OnList, Linked
<1> DEFINE u == Without(s, i)
<1>4. /\ i = 1 => Linked(Addresses, NoChunk, u, next[s[i]], next)
      /\ i > 1 => Linked(Addresses, NoChunk, u, head, [next EXCEPT ![s[i - 1]] = next[s[i]]])
      /\ Members(u) = Members(s) \ {s[i]}
  <2>1. /\ next \in [Addresses -> Pointer] /\ Linked(Addresses, NoChunk, s, head, next)
        /\ IsFiniteSet(Addresses) /\ NoChunk \notin Addresses
    BY ListAssumption DEF OnList, ListInv, TypeOK
  <2> HIDE DEF u
  <2>2. Members(Without(s, i)) = Members(s) \ {s[i]}
    BY <2>1, CutMembers DEF Linked
  <2>3. i = 1 => Linked(Addresses, NoChunk, Without(s, i), next[s[i]], next)
    BY <2>1, CutChain
  <2>4. i > 1 => Linked(Addresses, NoChunk, Without(s, i), head, [next EXCEPT ![s[i - 1]] = next[s[i]]])
    BY <2>1, CutChain
  <2> QED
    BY <2>2, <2>3, <2>4 DEF u
<1> HIDE DEF u
<1>5. ASSUME Linked(Addresses, NoChunk, u, head', next'), Goto(t, "unmap"), UNCHANGED <<mapped, locals, owned>>
      PROVE  OnList(u)'
  <2>1. pc'[t] = "unmap"
    BY <1>5 DEF Goto, ListInv, TypeOK
  <2>2. s[i] \in Members(s)
    BY DEF Members
  <2>3. /\ chunk'[t] \in Addresses \ Members(u)
        /\ owned' = Members(u) /\ mapped' = Members(u) \cup {chunk'[t]}
    BY <1>3, <1>4, <1>5, <2>2 DEF locals
  <2>4. \A v : v = u => OnList(v)'
    BY <1>5, <2>1, <2>3 DEF OnList, AtLine
  <2> QED
    BY <2>4
<1>6. CASE i = 1
  <2>1. current[t] = NoChunk
    BY <1>1, <1>2, <1>6 DEF At
  <2>2. head' = successor[t] /\ Goto(t, "unmap") /\ UNCHANGED <<next, mapped, locals, owned>>
    <3>1. NoChunk \notin mapped
      BY ListAssumption DEF ListInv, TypeOK
    <3> QED
      BY <2>1, <3>1 DEF Splice
  <2> QED
    BY <1>3, <1>4, <1>5, <1>6, <2>2 DEF u
<1>7. CASE i > 1
  <2>1. current[t] = s[i - 1] /\ s[i - 1] \in mapped
    BY <1>1, <1>2, <1>3, <1>7 DEF At, Members
  <2>2. /\ next' = [next EXCEPT ![s[i - 1]] = next[s[i]]]
        /\ Goto(t, "unmap") /\ UNCHANGED <<head, mapped, locals, owned>>
    <3>1. NoChunk \notin mapped
      BY ListAssumption DEF ListInv, TypeOK
    <3> QED
      BY <1>3, <2>1, <3>1 DEF Splice
  <2> QED
    BY <1>4, <1>5, <1>7, <2>2 DEF u
<1> QED
  BY <1>3, <1>6, <1>7

LEMMA UnmapOnList ==
  ASSUME ListInv, NEW s, OnList(s), NEW t, Threads = {t}, Unmap(t)
  PROVE  OnList(s)'
<1>1. /\ chunk[t] \in Addresses \ Members(s)
      /\ owned = Members(s) /\ mapped = Members(s) \cup {chunk[t]}
  BY DEF OnList, AtLine, Unmap
<1>2. pc'[t] = "idle" /\ owned' = Members(s) /\ mapped' = Members(s)
  BY <1>1 DEF Unmap, Return, Goto, ListInv, TypeOK
<1> QED
  BY <1>2 DEF OnList, AtLine, Unmap

-----------------------------------------------------------------------------
\* Every step of the one thread keeps the list, or pushes or pops one chunk.
LEMMA StepOnList ==
  ASSUME ListInv, NEW s, OnList(s), NEW t, Threads = {t},
         Create(t) \/ Free(t) \/ InCall(t)
  PROVE  \/ OnList(s)'
         \/ \E c \in Addresses : OnList(<<c>> \o s)'
         \/ \E i \in 1 .. Len(s) : OnList(Without(s, i))'
BY CreateOnList, LinkOnList, PublishOnList, FreeOnList, FindOnList, PreviousOnList,
   LoadOnList, SpliceOnList, UnmapOnList DEF InCall

LEMMA ListIs ==
  ASSUME NEW s, OnList(s)
  PROVE  AsSequence = s /\ Listed = Members(s)
BY ListAsSequence DEF OnList, AsSequence, Listed, Seen

LEMMA ListIsThen ==
  ASSUME NEW s, OnList(s)'
  PROVE  AsSequence' = s /\ s \in Seq(Addresses)
<1>1. Linked(Addresses, NoChunk, s, head', next')
  BY DEF OnList
<1>2. ListFrom(head', next') = s
  BY <1>1, ListAsSequence
<1> QED
  BY <1>1, <1>2 DEF AsSequence, Linked

LEMMA OneInit == OneThread /\ Init => OneInv /\ AsSequence = <<>>
<1> SUFFICES ASSUME OneThread, Init PROVE OneInv /\ AsSequence = <<>>
  OBVIOUS
<1>1. ListInv
  BY ListInvInit
<1>2. Members(<<>>) = {}
  BY DEF Members
<1>3. OnList(<<>>)
  BY <1>2 DEF OnList, Linked, AtLine, Init
<1>4. AsSequence = <<>>
  BY <1>3, ListIs
<1>5. <<>> \in Seq(Addresses)
  OBVIOUS
<1> QED
  BY <1>1, <1>3, <1>4, <1>5 DEF OneInv

LEMMA OneStep == OneInv /\ [Next]_vars => OneInv' /\ [Sequential!LNext]_AsSequence
<1> SUFFICES ASSUME OneInv, [Next]_vars PROVE OneInv' /\ [Sequential!LNext]_AsSequence
  OBVIOUS
<1>1. ListInv'
  BY ListInvStep DEF OneInv
<1>2. PICK s \in Seq(Addresses) : OnList(s)
  BY DEF OneInv
<1>3. AsSequence = s
  BY <1>2, ListIs
<1>4. PICK t : Threads = {t}
  BY DEF OneInv, OneThread
<1>5. ASSUME NEW u, OnList(u)',
             \/ u = s
             \/ \E c \in Addresses : u = <<c>> \o s
             \/ \E i \in 1 .. Len(s) : u = Without(s, i)
      PROVE  OneInv' /\ [Sequential!LNext]_AsSequence
  <2>1. AsSequence' = u /\ u \in Seq(Addresses)
    BY <1>5, ListIsThen
  <2>2. OneInv'
    BY <1>1, <1>5, <2>1 DEF OneInv, OneThread
  <2>3. ASSUME NEW c \in Addresses, u = <<c>> \o s PROVE Sequential!LNext
    BY <1>3, <2>1, <2>3 DEF Sequential!LNext, Sequential!PushFront
  <2>4. ASSUME NEW i \in 1 .. Len(s), u = Without(s, i) PROVE Sequential!LNext
    <3>1. s[i] \in Addresses /\ i \in DOMAIN s
      BY <1>2
    <3>2. Sequential!Remove(s[i])
      BY <1>3, <2>1, <2>4, <3>1 DEF Sequential!Remove, Without
    <3> QED
      BY <3>1, <3>2 DEF Sequential!LNext
  <2>5. CASE u = s
    BY <1>3, <2>1, <2>2, <2>5
  <2> QED
    BY <1>5, <2>2, <2>3, <2>4, <2>5
<1>6. CASE Next
  <2>1. Create(t) \/ Free(t) \/ InCall(t)
    BY <1>4, <1>6 DEF Next
  <2>2. \/ OnList(s)'
        \/ \E c \in Addresses : OnList(<<c>> \o s)'
        \/ \E i \in 1 .. Len(s) : OnList(Without(s, i))'
    BY <1>2, <1>4, <2>1, StepOnList DEF OneInv
  <2>3. CASE OnList(s)'
    BY <1>5, <2>3
  <2>4. ASSUME NEW c \in Addresses, OnList(<<c>> \o s)'
        PROVE  OneInv' /\ [Sequential!LNext]_AsSequence
    BY <1>5, <2>4
  <2>5. ASSUME NEW i \in 1 .. Len(s), OnList(Without(s, i))'
        PROVE  OneInv' /\ [Sequential!LNext]_AsSequence
    BY <1>5, <2>5
  <2> QED
    BY <2>2, <2>3, <2>4, <2>5
<1>7. CASE UNCHANGED vars
  <2>1. OnList(s)'
    BY <1>2, <1>7 DEF OnList, AtLine, At, vars
  <2> QED
    BY <1>5, <2>1
<1> QED
  BY <1>6, <1>7

LEMMA OneMatches == OneInv => ListMatchesMappings
<1> SUFFICES ASSUME OneInv PROVE ListMatchesMappings
  OBVIOUS
<1>1. PICK s \in Seq(Addresses) : OnList(s)
  BY DEF OneInv
<1>2. PICK t : Threads = {t}
  BY DEF OneInv, OneThread
<1>3. Listed = Members(s)
  BY <1>1, ListIs
<1>4. AtLine(t, s)
  BY <1>1, <1>2 DEF OnList
<1>5. pc[t] \in Labels
  BY <1>2 DEF OneInv, ListInv, TypeOK, Labels
<1>6. /\ owned \subseteq Members(s) /\ Members(s) \subseteq mapped
      /\ mapped \ Members(s) \subseteq IF pc[t] = "idle" THEN {} ELSE {chunk[t]}
  BY <1>4, <1>5 DEF AtLine, At, Labels
<1>7. ~Crashed
  BY <1>2, <1>4 DEF Crashed, AtLine
<1> QED
  BY <1>2, <1>3, <1>6, <1>7 DEF ListMatchesMappings

\* One thread: between any two loads and stores of push and pop, what the client
\* can free is listed, what is listed is mapped, and only the chunk the call is
\* about may be mapped and not listed; no load goes through an unmapped address.
THEOREM ListMatches == Spec /\ OneThread => []ListMatchesMappings
<1> SUFFICES ASSUME OneThread PROVE Spec => []ListMatchesMappings
  OBVIOUS
<1> QED
  BY OneInit, OneStep, OneMatches, PTL DEF Spec

\* One thread: the loads and stores of push and pop change the list a walk sees
\* as one step would, that adds a chunk in front or takes one out.
THEOREM ListImplements == Spec /\ OneThread => ImplementsChunkList
<1> SUFFICES ASSUME OneThread PROVE Spec => ImplementsChunkList
  OBVIOUS
<1>1. Init => Sequential!LInit
  BY OneInit DEF Sequential!LInit
<1> QED
  BY <1>1, OneInit, OneStep, PTL DEF Spec, ImplementsChunkList, Sequential!LSafety
=============================================================================
