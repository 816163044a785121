----------------------------- MODULE CommonLemmas ----------------------------
(***************************************************************************)
(* The numbers are well-ordered.  Proofs that need induction, over the     *)
(* steps of a walk, the headers of a zone or the turns of a loop, take a   *)
(* smallest counterexample instead.  And what a sequence is without a      *)
(* member, and what a walk along a linked list sees.                       *)
(***************************************************************************)
EXTENDS Integers, FiniteSets, Sequences, FiniteSetTheorems, SequenceTheorems, TLAPS

LEMMA Least ==
  ASSUME NEW T \in SUBSET Nat, T # {}
  PROVE  \E x \in T : \A y \in T : x <= y
<1> SUFFICES ASSUME \A x \in T : \E y \in T : y < x PROVE FALSE
  BY SMT
<1>1. PICK top \in T : top \in Nat
  OBVIOUS
<1> DEFINE Below == { k \in 0 .. top : \A y \in T : k < y }
           c == Cardinality(Below)
<1>2. IsFiniteSet(Below) /\ c \in Nat
  <2>1. IsFiniteSet(0 .. top)
    BY <1>1, FS_Interval
  <2> QED
    BY <2>1, FS_Subset, FS_CardinalityType
<1>3. \A k \in Below : k + 1 \in Below /\ \A j \in 0 .. k : j \in Below
  BY <1>1, SMT
<1>4. 0 \in Below
  BY <1>1, SMT
<1>5. CASE c \in Below
  <2>1. 0 .. c \subseteq Below
    BY <1>3, <1>5
  <2>2. Cardinality(0 .. c) = c + 1 /\ IsFiniteSet(0 .. c)
    BY <1>2, FS_Interval
  <2>3. Cardinality(0 .. c) <= c
    BY <1>2, <2>1, FS_Subset
  <2> QED
    BY <1>2, <2>2, <2>3, SMT
<1>6. CASE c \notin Below
  <2> HIDE DEF c
  <2>1. PICK y \in T : y <= c
    BY <1>1, <1>2, <1>6, SMT
  <2>2. Below \subseteq 0 .. y - 1
    BY <2>1, SMT
  <2>3. Cardinality(0 .. y - 1) = y /\ IsFiniteSet(0 .. y - 1)
    <3>1. y \in Nat /\ y - 1 \in Int /\ 0 \in Int
      BY SMT
    <3>2. /\ IsFiniteSet(0 .. y - 1)
          /\ Cardinality(0 .. y - 1) = IF 0 > y - 1 THEN 0 ELSE (y - 1) - 0 + 1
      BY <3>1, FS_Interval
    <3> QED
      BY <3>1, <3>2, SMT
  <2>4. Cardinality(Below) <= y /\ (Cardinality(Below) = y => Below = 0 .. y - 1)
    BY <2>2, <2>3, FS_Subset
  <2>5. y = c /\ Below = 0 .. c - 1
    BY <1>2, <2>1, <2>4, SMT DEF c
  <2>6. c - 1 \in Below
    BY <1>2, <1>4, <2>5, SMT
  <2> QED
    BY <1>2, <1>3, <1>6, <2>5, <2>6, SMT
<1> QED
  BY <1>5, <1>6

\* The cardinality of an interval.
LEMMA CountTo ==
  ASSUME NEW n \in Nat
  PROVE  IsFiniteSet(0 .. n - 1) /\ Cardinality(0 .. n - 1) = n
<1>1. n - 1 \in Int /\ 0 \in Int
  OBVIOUS
<1>2. /\ IsFiniteSet(0 .. n - 1)
      /\ Cardinality(0 .. n - 1) = IF 0 > n - 1 THEN 0 ELSE (n - 1) - 0 + 1
  BY <1>1, FS_Interval
<1> QED
  BY <1>2, SMT

\* Members that are numbered without repetition are no more than there are.
LEMMA CountDistinct ==
  ASSUME NEW S, IsFiniteSet(S), NEW n \in Nat, NEW f \in [1 .. n -> S],
         \A i, j \in 1 .. n : f[i] = f[j] => i = j
  PROVE  Cardinality(S) \in Nat /\ n <= Cardinality(S)
<1>1. Cardinality(S) \in Nat
  BY FS_CardinalityType
<1>2. f \in Injection(1 .. n, S)
  BY DEF Injection, IsInjective
<1>3. Cardinality(1 .. n) <= Cardinality(S)
  BY <1>2, FS_Injection
<1>4. Cardinality(1 .. n) = n
  BY FS_Interval, SMT
<1> QED
  BY <1>1, <1>3, <1>4, SMT

\* f is n steps of G, from s on.
Repeats(f, G, s, n) == f[0] = s /\ \A k \in 1 .. n : f[k] = G[f[k - 1]]

\* A step that stays within D can be repeated.
LEMMA Repeatable ==
  ASSUME NEW D, NEW G \in [D -> D], NEW s \in D, NEW n \in Nat
  PROVE  \E f \in [0 .. n -> D] : Repeats(f, G, s, n)
<1> DEFINE Has(i) == \E f \in [0 .. i -> D] : Repeats(f, G, s, i)
           Lacks == { i \in Nat : ~Has(i) }
<1>1. CASE Lacks = {}
  <2>1. Has(n)
    BY <1>1
  <2> QED
    BY <2>1
<1>2. CASE Lacks # {}
  <2>1. PICK i \in Lacks : \A j \in Lacks : i <= j
    <3>1. Lacks \in SUBSET Nat
      OBVIOUS
    <3> HIDE DEF Lacks
    <3> QED
      BY <1>2, <3>1, Least
  <2>2. i \in Nat /\ ~Has(i)
    BY <2>1
  <2>3. Has(0)
    <3>1. [k \in 0 .. 0 |-> s] \in [0 .. 0 -> D]
      OBVIOUS
    <3>2. [k \in 0 .. 0 |-> s][0] = s /\ 1 .. 0 = {}
      BY SMT
    <3> QED
      BY <3>1, <3>2 DEF Repeats
  <2>4. i # 0
    BY <2>2, <2>3
  <2>5. i - 1 \in Nat
    BY <2>2, <2>4, SMT
  <2>6. Has(i - 1)
    <3>1. i - 1 \in Lacks => i <= i - 1
      BY <2>1
    <3>2. ~(i <= i - 1)
      BY <2>2, SMT
    <3> QED
      BY <2>5, <3>1, <3>2
  <2>7. PICK f \in [0 .. i - 1 -> D] : f[0] = s /\ \A k \in 1 .. i - 1 : f[k] = G[f[k - 1]]
    BY <2>6 DEF Repeats
  <2> DEFINE g == [k \in 0 .. i |-> IF k = i THEN G[f[i - 1]] ELSE f[k]]
  <2>8. i - 1 \in 0 .. i - 1 /\ f[i - 1] \in D /\ G[f[i - 1]] \in D
    BY <2>5, <2>7, SMT
  <2>9. \A k \in 0 .. i : k # i => k \in 0 .. i - 1
    BY <2>2, SMT
  <2>10. g \in [0 .. i -> D] /\ g[0] = s
    BY <2>2, <2>4, <2>7, <2>8, <2>9
  <2>11. ASSUME NEW k \in 1 .. i PROVE g[k] = G[g[k - 1]]
    <3>1. k \in 0 .. i /\ k - 1 \in 0 .. i /\ k - 1 # i
      BY <2>2, SMT
    <3>2. g[k - 1] = f[k - 1]
      BY <3>1
    <3>3. CASE k = i
      BY <3>1, <3>2, <3>3
    <3>4. CASE k # i
      <4>1. k \in 1 .. i - 1
        BY <2>2, <3>4, SMT
      <4> QED
        BY <2>7, <3>1, <3>2, <3>4, <4>1
    <3> QED
      BY <3>3, <3>4
  <2> HIDE DEF g
  <2> QED
    BY <2>2, <2>10, <2>11 DEF Repeats
<1> QED
  BY <1>1, <1>2

-----------------------------------------------------------------------------
Without(s, i) == SubSeq(s, 1, i - 1) \o SubSeq(s, i + 1, Len(s))

\* The members of a sequence without its i-th.
LEMMA WithoutIs ==
  ASSUME NEW S, NEW s \in Seq(S), NEW i \in 1 .. Len(s)
  PROVE  /\ Without(s, i) \in Seq(S) /\ Len(Without(s, i)) = Len(s) - 1
         /\ \A j \in 1 .. Len(s) - 1 : Without(s, i)[j] = IF j < i THEN s[j] ELSE s[j + 1]
<1> DEFINE front == SubSeq(s, 1, i - 1)
           back == SubSeq(s, i + 1, Len(s))
<1>1. front \in Seq(S) /\ Len(front) = i - 1 /\ \A j \in 1 .. i - 1 : front[j] = s[j]
  OBVIOUS
<1>2. back \in Seq(S) /\ Len(back) = Len(s) - i
      /\ \A j \in 1 .. Len(s) - i : back[j] = s[i + j]
  OBVIOUS
<1> HIDE DEF front, back
<1>3. /\ front \o back \in Seq(S) /\ Len(front \o back) = Len(front) + Len(back)
      /\ \A j \in 1 .. Len(front) + Len(back) :
           (front \o back)[j] = IF j <= Len(front) THEN front[j] ELSE back[j - Len(front)]
  BY <1>1, <1>2, ConcatProperties
<1>4. ASSUME NEW j \in 1 .. Len(s) - 1
      PROVE  (front \o back)[j] = IF j < i THEN s[j] ELSE s[j + 1]
  <2>1. CASE j < i
    BY <1>1, <1>2, <1>3, <2>1
  <2>2. CASE j >= i
    <3>1. j - (i - 1) \in 1 .. Len(s) - i /\ i + (j - (i - 1)) = j + 1
      BY <2>2
    <3>2. back[j - (i - 1)] = s[j + 1]
      BY <1>2, <3>1
    <3>3. j \in 1 .. Len(front) + Len(back) /\ ~(j <= Len(front)) /\ Len(front) = i - 1
      BY <1>1, <1>2, <2>2
    <3>4. (front \o back)[j] = back[j - Len(front)]
      BY <1>3, <3>3
    <3> QED
      BY <2>2, <3>2, <3>3, <3>4
  <2>3. j < i \/ j >= i
    <3>1. Len(s) \in Nat
      OBVIOUS
    <3> QED
      BY <3>1
  <2> QED
    BY <2>1, <2>2, <2>3
<1>5. Without(s, i) = front \o back
  BY DEF Without, front, back
<1>6. Len(front) + Len(back) = Len(s) - 1
  BY <1>1, <1>2
<1> QED
  BY <1>3, <1>4, <1>5, <1>6
-----------------------------------------------------------------------------
\* Induction, upwards and downwards.
LEMMA Climb ==
  ASSUME NEW n \in Nat, NEW T, 0 \in T, \A i \in 1 .. n : i - 1 \in T => i \in T
  PROVE  0 .. n \subseteq T
<1> SUFFICES ASSUME NEW j \in 0 .. n, j \notin T PROVE FALSE
  OBVIOUS
<1> DEFINE Missing == { i \in 0 .. n : i \notin T }
<1>1. Missing \in SUBSET Nat /\ Missing # {}
  OBVIOUS
<1>2. PICK i \in Missing : \A k \in Missing : i <= k
  <2> HIDE DEF Missing
  <2> QED
    BY <1>1, Least
<1>3. i \in 1 .. n /\ i \notin T
  BY <1>2
<1>4. i - 1 \in 0 .. n /\ ~(i <= i - 1)
  BY <1>3
<1> QED
  BY <1>2, <1>3, <1>4

LEMMA Descend ==
  ASSUME NEW n \in Nat, NEW T, n \in T, \A i \in 0 .. n - 1 : i + 1 \in T => i \in T
  PROVE  0 .. n \subseteq T
<1> DEFINE U == { i \in 0 .. n : n - i \in T }
<1>1. 0 \in U
  OBVIOUS
<1>2. ASSUME NEW i \in 1 .. n, i - 1 \in U PROVE i \in U
  <2>1. n - i \in 0 .. n - 1 /\ (n - i) + 1 = n - (i - 1)
    OBVIOUS
  <2> QED
    BY <1>2, <2>1
<1> HIDE DEF U
<1>3. 0 .. n \subseteq U
  BY <1>1, <1>2, Climb
<1>4. ASSUME NEW i \in 0 .. n PROVE i \in T
  <2>1. n - i \in 0 .. n /\ n - (n - i) = i
    OBVIOUS
  <2> QED
    BY <1>3, <2>1 DEF U
<1> QED
  BY <1>4

-----------------------------------------------------------------------------
\* f is a recursion: for numbers from b on it rests on the lower number h[k].
Recurs(f, h, b, a, G) == \A k \in Nat : f[k] = G[<<IF k >= b THEN f[h[k]] ELSE a, k>>]

\* Such a recursion comes to an end.
LEMMA Descending ==
  ASSUME NEW D, NEW h, NEW b \in Nat \ {0}, \A k \in Nat : k >= b => h[k] \in 0 .. k - 1,
         NEW a \in D, NEW G \in [D \X Nat -> D]
  PROVE  \E f \in [Nat -> D] : Recurs(f, h, b, a, G)
<1> DEFINE Up(g, n) == \A k \in 0 .. n : g[k] = G[<<IF k >= b THEN g[h[k]] ELSE a, k>>]
           T == { n \in Nat : \E g \in [0 .. n -> D] : Up(g, n) }
<1>1. \A k \in Nat : k >= b => h[k] \in 0 .. k - 1
  OBVIOUS
<1>2. 0 \in T
  <2> DEFINE g == [ k \in 0 .. 0 |-> G[<<a, 0>>] ]
  <2>1. ~(0 >= b) /\ \A k \in 0 .. 0 : k = 0
    OBVIOUS
  <2>2. g \in [0 .. 0 -> D] /\ Up(g, 0)
    BY <2>1
  <2> QED
    BY <2>2
<1>3. ASSUME NEW n \in Nat \ {0}, n - 1 \in T PROVE n \in T
  <2>1. PICK g \in [0 .. n - 1 -> D] : Up(g, n - 1)
    BY <1>3
  <2> DEFINE below == IF n >= b THEN g[h[n]] ELSE a
             e == [ k \in 0 .. n |-> IF k = n THEN G[<<below, n>>] ELSE g[k] ]
  <2>2. below \in D
    BY <1>1
  <2>3. e \in [0 .. n -> D]
    <3>1. \A k \in 0 .. n : k # n => k \in 0 .. n - 1
      OBVIOUS
    <3> HIDE DEF below
    <3> QED
      BY <2>2, <3>1
  <2>4. ASSUME NEW k \in 0 .. n
        PROVE  e[k] = G[<<IF k >= b THEN e[h[k]] ELSE a, k>>]
    <3>1. k >= b => h[k] \in 0 .. n - 1 /\ h[k] \in 0 .. n /\ h[k] # n
      <4>1. k \in Nat /\ (k >= b => h[k] \in 0 .. k - 1)
        BY <1>1
      <4> DEFINE q == h[k]
      <4> HIDE DEF q
      <4>2. q \in 0 .. k - 1 => q \in 0 .. n - 1 /\ q \in 0 .. n /\ q # n
        OBVIOUS
      <4> QED
        BY <4>1, <4>2 DEF q
    <3>2. k >= b => e[h[k]] = g[h[k]]
      BY <3>1
    <3>3. CASE k = n
      BY <3>2, <3>3
    <3>4. CASE k # n
      <4>1. k \in 0 .. n - 1
        BY <3>4
      <4> QED
        BY <2>1, <3>2, <3>4, <4>1
    <3> QED
      BY <3>3, <3>4
  <2> HIDE DEF e
  <2> QED
    BY <2>3, <2>4
<1>4. ASSUME NEW n \in Nat PROVE n \in T
  <2> DEFINE U == { m \in 0 .. n : m \in T }
  <2> HIDE DEF T
  <2>1. 0 \in U /\ \A m \in 1 .. n : m - 1 \in U => m \in U
    BY <1>2, <1>3
  <2> HIDE DEF U
  <2>2. 0 .. n \subseteq U
    BY <2>1, Climb
  <2> QED
    BY <2>2 DEF U
<1>5. ASSUME NEW n \in Nat, NEW g \in [0 .. n -> D], Up(g, n),
             NEW m \in 0 .. n, NEW e \in [0 .. m -> D], Up(e, m)
      PROVE  g[m] = e[m]
  <2> DEFINE Bad == { k \in 0 .. m : g[k] # e[k] }
  <2>1. CASE Bad = {}
    BY <2>1
  <2>2. CASE Bad # {}
    <3>1. PICK k \in Bad : \A j \in Bad : k <= j
      <4>1. Bad \in SUBSET Nat
        OBVIOUS
      <4> HIDE DEF Bad
      <4> QED
        BY <2>2, <4>1, Least
    <3>2. k \in 0 .. m /\ k \in 0 .. n /\ g[k] # e[k]
      OBVIOUS
    <3>3. ASSUME k >= b PROVE g[h[k]] = e[h[k]]
      <4>1. h[k] \in 0 .. k - 1
        BY <1>1, <3>2, <3>3
      <4>2. h[k] \notin Bad
        <5> HIDE DEF Bad
        <5> QED
          BY <3>1, <3>2, <4>1
      <4> QED
        BY <3>2, <4>1, <4>2
    <3>4. /\ g[k] = G[<<IF k >= b THEN g[h[k]] ELSE a, k>>]
          /\ e[k] = G[<<IF k >= b THEN e[h[k]] ELSE a, k>>]
      BY <1>5, <3>2
    <3> QED
      BY <3>2, <3>3, <3>4
  <2> QED
    BY <2>1, <2>2
<1> DEFINE Chosen(n) == CHOOSE g \in [0 .. n -> D] : Up(g, n)
           f == [ k \in Nat |-> Chosen(k)[k] ]
<1>6. ASSUME NEW n \in Nat PROVE Chosen(n) \in [0 .. n -> D] /\ Up(Chosen(n), n)
  <2>1. \E g \in [0 .. n -> D] : Up(g, n)
    BY <1>4
  <2> HIDE DEF Up
  <2> QED
    BY <2>1
<1> HIDE DEF Chosen
<1>7. f \in [Nat -> D]
  BY <1>6
<1>8. ASSUME NEW k \in Nat PROVE f[k] = G[<<IF k >= b THEN f[h[k]] ELSE a, k>>]
  <2>1. Chosen(k)[k] = G[<<IF k >= b THEN Chosen(k)[h[k]] ELSE a, k>>]
    BY <1>6
  <2>2. ASSUME k >= b PROVE f[h[k]] = Chosen(k)[h[k]]
    <3>1. h[k] \in 0 .. k /\ h[k] \in Nat
      BY <1>1, <2>2
    <3>2. Chosen(k)[h[k]] = Chosen(h[k])[h[k]]
      <4> HIDE DEF Up
      <4> QED
        BY <1>5, <1>6, <3>1
    <3> QED
      BY <3>1, <3>2
  <2> QED
    BY <2>1, <2>2
<1> HIDE DEF f
<1> QED
  BY <1>7, <1>8 DEF Recurs

-----------------------------------------------------------------------------
(***************************************************************************)
(* Linked lists.  What a walk along the pointers sees is a recursive       *)
(* function; invariants speak of a sequence instead that the pointers      *)
(* link, and WalkAlong shows that a walk sees just that sequence.          *)
(***************************************************************************)
\* s is the list of members of A that h leads to, next fields being nx; nil ends it.
Linked(A, nil, s, h, nx) ==
  /\ s \in Seq(A)
  /\ \A i, j \in 1 .. Len(s) : s[i] = s[j] => i = j
  /\ h = IF Len(s) = 0 THEN nil ELSE s[1]
  /\ \A i \in 1 .. Len(s) : nx[s[i]] = IF i < Len(s) THEN s[i + 1] ELSE nil

\* The chunks on a list.
Members(s) == { s[i] : i \in 1 .. Len(s) }

\* The walk from h, step by step.
Follow(A, nil, h, nx) ==
  LET at[k \in 0 .. Cardinality(A)] ==
        IF k = 0 THEN h
        ELSE LET c == at[k - 1] IN IF c = nil THEN nil ELSE nx[c]
  IN  at

\* The list such a walk sees.
FollowedList(A, nil, h, nx) ==
  LET seen == Follow(A, nil, h, nx)
      length == Cardinality({ k \in DOMAIN seen : seen[k] # nil })
  IN  [ i \in 1 .. length |-> seen[i - 1] ]

Followed(A, nil, h, nx) ==
  LET seen == Follow(A, nil, h, nx) IN { seen[k] : k \in DOMAIN seen } \ {nil}

\* No list is longer than there are addresses.
LEMMA ChainLength ==
  ASSUME NEW A, IsFiniteSet(A), NEW nil, nil \notin A,
         NEW s, NEW h, NEW nx, Linked(A, nil, s, h, nx)
  PROVE  Cardinality(A) \in Nat /\ Len(s) \in 0 .. Cardinality(A)
<1>1. s \in [1 .. Len(s) -> A] /\ Len(s) \in Nat
  BY DEF Linked
<1> QED
  BY <1>1, CountDistinct DEF Linked

\* The walk along a chain visits its members in order.
LEMMA WalkAlong ==
  ASSUME NEW A, IsFiniteSet(A), NEW nil, nil \notin A,
         NEW s, NEW h, NEW nx, Linked(A, nil, s, h, nx)
  PROVE  Follow(A, nil, h, nx) = [k \in 0 .. Cardinality(A) |-> IF k < Len(s) THEN s[k + 1] ELSE nil]
<1> DEFINE g == [k \in 0 .. Cardinality(A) |-> IF k < Len(s) THEN s[k + 1] ELSE nil]
           Step(f) == [k \in 0 .. Cardinality(A) |->
                         IF k = 0 THEN h
                         ELSE LET c == f[k - 1] IN IF c = nil THEN nil ELSE nx[c]]
<1>1. Cardinality(A) \in Nat /\ Len(s) \in 0 .. Cardinality(A)
  BY ChainLength
<1>2. Follow(A, nil, h, nx) = CHOOSE f : f = Step(f)
  BY DEF Follow
<1>3. g = Step(g)
  <2>1. ASSUME NEW k \in 0 .. Cardinality(A) PROVE g[k] = Step(g)[k]
    <3>1. CASE k = 0
      BY <1>1, <3>1 DEF Linked
    <3>2. CASE k # 0 /\ k <= Len(s)
      <4>1. k - 1 \in 0 .. Cardinality(A) /\ k \in 1 .. Len(s)
        BY <1>1, <3>2
      <4>2. g[k - 1] = s[k] /\ s[k] # nil
        BY <1>1, <3>2, <4>1 DEF Linked
      <4>3. nx[s[k]] = IF k < Len(s) THEN s[k + 1] ELSE nil
        BY <4>1 DEF Linked
      <4> QED
        BY <3>2, <4>2, <4>3
    <3>3. CASE k > Len(s)
      BY <1>1, <3>3
    <3> QED
      BY <1>1, <3>1, <3>2, <3>3
  <2> QED
    BY <2>1
<1>4. ASSUME NEW f, f = Step(f) PROVE f = g
  <2> DEFINE Differ == { k \in 0 .. Cardinality(A) : f[k] # g[k] }
  <2>1. CASE Differ = {}
    <3>1. \A k \in 0 .. Cardinality(A) : f[k] = g[k]
      BY <2>1
    <3>2. f = [k \in 0 .. Cardinality(A) |-> f[k]]
      BY <1>4
    <3> QED
      BY <3>1, <3>2
  <2>2. CASE Differ # {}
    <3>1. Differ \in SUBSET Nat
      BY <1>1
    <3>2. PICK k \in Differ : \A j \in Differ : k <= j
      <4> HIDE DEF Differ
      <4> QED
        BY <2>2, <3>1, Least
    <3>3. k \in 0 .. Cardinality(A) /\ f[k] # g[k] /\ k - 1 \notin Differ
      BY <3>1, <3>2, SMT
    <3>4. f[k] = Step(f)[k] /\ g[k] = Step(g)[k]
      BY <1>3, <1>4
    <3>5. k # 0
      BY <3>3, <3>4
    <3>6. k - 1 \in 0 .. Cardinality(A)
      BY <1>1, <3>3, <3>5, SMT
    <3>7. f[k - 1] = g[k - 1]
      BY <3>3, <3>6
    <3>8. Step(f)[k] = Step(g)[k]
      <4> HIDE DEF g
      <4> QED
        BY <3>3, <3>7
    <3> QED
      BY <3>3, <3>4, <3>8
  <2> QED
    BY <2>1, <2>2
<1> HIDE DEF g, Step
<1>5. (CHOOSE f : f = Step(f)) = Step(CHOOSE f : f = Step(f))
  BY <1>3
<1>6. (CHOOSE f : f = Step(f)) = g
  BY <1>4, <1>5
<1> QED
  BY <1>2, <1>6 DEF g

\* So the list it sees is that sequence, and no chunk is missing.
LEMMA ListAlong ==
  ASSUME NEW A, IsFiniteSet(A), NEW nil, nil \notin A,
         NEW s, NEW h, NEW nx, Linked(A, nil, s, h, nx)
  PROVE  FollowedList(A, nil, h, nx) = s /\ Followed(A, nil, h, nx) = Members(s)
<1> DEFINE seen == Follow(A, nil, h, nx)
<1>1. Cardinality(A) \in Nat /\ Len(s) \in 0 .. Cardinality(A) /\ s \in Seq(A)
  BY ChainLength DEF Linked
<1>2. /\ DOMAIN seen = 0 .. Cardinality(A)
      /\ \A k \in 0 .. Cardinality(A) : seen[k] = IF k < Len(s) THEN s[k + 1] ELSE nil
  <2>1. seen = [k \in 0 .. Cardinality(A) |-> IF k < Len(s) THEN s[k + 1] ELSE nil]
    BY WalkAlong
  <2> HIDE DEF seen
  <2> QED
    BY <2>1
<1>3. \A i \in 1 .. Len(s) : s[i] \in A /\ s[i] # nil
  BY <1>1
<1> HIDE DEF seen
<1>5. { k \in DOMAIN seen : seen[k] # nil } = 0 .. Len(s) - 1
  BY <1>1, <1>2, <1>3
<1>6. Cardinality(0 .. Len(s) - 1) = Len(s)
  BY <1>1, CountTo
<1>7. [ i \in 1 .. Cardinality({ k \in DOMAIN seen : seen[k] # nil }) |-> seen[i - 1] ] = [ i \in 1 .. Len(s) |-> s[i] ]
  <2>1. \A i \in 1 .. Len(s) : seen[i - 1] = s[i]
    BY <1>1, <1>2
  <2> QED
    BY <1>5, <1>6, <2>1
<1>8. s = [ i \in 1 .. Len(s) |-> s[i] ]
  BY <1>1
<1>9. { seen[k] : k \in DOMAIN seen } \ {nil} = Members(s)
  <2>1. ASSUME NEW k \in 0 .. Cardinality(A), seen[k] # nil PROVE seen[k] \in Members(s)
    BY <1>1, <1>2, <2>1 DEF Members
  <2>2. ASSUME NEW i \in 1 .. Len(s)
        PROVE  \E k \in 0 .. Cardinality(A) : seen[k] = s[i]
    <3>1. i - 1 \in 0 .. Cardinality(A) /\ i - 1 < Len(s) /\ (i - 1) + 1 = i
      BY <1>1
    <3> QED
      BY <1>2, <3>1
  <2>3. Members(s) \subseteq { seen[k] : k \in DOMAIN seen } \ {nil}
    <3> SUFFICES ASSUME NEW i \in 1 .. Len(s)
                 PROVE  s[i] \in { seen[k] : k \in DOMAIN seen } \ {nil}
      BY DEF Members
    <3>1. PICK k \in 0 .. Cardinality(A) : seen[k] = s[i]
      BY <2>2
    <3> QED
      BY <1>2, <1>3, <3>1
  <2> QED
    BY <1>2, <2>1, <2>3
<1> QED
  BY <1>7, <1>8, <1>9 DEF seen, FollowedList, Followed

\* A chunk in front that points to the old head makes a list.
LEMMA PushedChain ==
  ASSUME NEW A, IsFiniteSet(A), NEW nil, nil \notin A,
         NEW s, NEW h, NEW nx, Linked(A, nil, s, h, nx),
         NEW c \in A \ Members(s), nx[c] = h
  PROVE  Linked(A, nil, <<c>> \o s, c, nx) /\ Members(<<c>> \o s) = Members(s) \cup {c}
<1> DEFINE u == <<c>> \o s
<1>1. s \in Seq(A) /\ Len(s) \in Nat
  BY DEF Linked
<1>2. /\ u \in Seq(A) /\ Len(u) = Len(s) + 1
      /\ \A i \in 1 .. Len(u) : u[i] = IF i = 1 THEN c ELSE s[i - 1]
  BY <1>1
<1> HIDE DEF u
<1>3. \A i, j \in 1 .. Len(u) : u[i] = u[j] => i = j
  <2>1. \A i \in 1 .. Len(s) : s[i] # c
    BY DEF Members
  <2>2. \A i \in 1 .. Len(u) : i # 1 => i - 1 \in 1 .. Len(s) /\ u[i] = s[i - 1]
    BY <1>1, <1>2
  <2>3. u[1] = c
    BY <1>1, <1>2
  <2>4. \A i, j \in 1 .. Len(s) : s[i] = s[j] => i = j
    BY DEF Linked
  <2> SUFFICES ASSUME NEW i \in 1 .. Len(u), NEW j \in 1 .. Len(u), u[i] = u[j]
               PROVE  i = j
    OBVIOUS
  <2>5. CASE i = 1 \/ j = 1
    BY <2>1, <2>2, <2>3, <2>5
  <2>6. CASE i # 1 /\ j # 1
    <3>1. s[i - 1] = s[j - 1] /\ i - 1 \in 1 .. Len(s) /\ j - 1 \in 1 .. Len(s)
      BY <2>2, <2>6
    <3>2. i - 1 = j - 1
      BY <2>4, <3>1
    <3> QED
      BY <1>1, <1>2, <3>2, SMT
  <2> QED
    BY <2>5, <2>6
<1>4. \A i \in 1 .. Len(u) : nx[u[i]] = IF i < Len(u) THEN u[i + 1] ELSE nil
  <2>1. nx[u[1]] = IF 1 < Len(u) THEN u[2] ELSE nil
    BY <1>1, <1>2 DEF Linked
  <2>2. ASSUME NEW i \in 2 .. Len(u)
        PROVE  nx[u[i]] = IF i < Len(u) THEN u[i + 1] ELSE nil
    <3>1. i - 1 \in 1 .. Len(s) /\ u[i] = s[i - 1]
      BY <1>1, <1>2
    <3>2. nx[s[i - 1]] = IF i - 1 < Len(s) THEN s[(i - 1) + 1] ELSE nil
      BY <3>1 DEF Linked
    <3> QED
      BY <1>1, <1>2, <3>1, <3>2
  <2> QED
    BY <1>1, <1>2, <2>1, <2>2
<1>5. Linked(A, nil, u, c, nx)
  BY <1>1, <1>2, <1>3, <1>4 DEF Linked
<1>6. Members(u) = Members(s) \cup {c}
  <2>1. \A i \in 1 .. Len(s) : i + 1 \in 1 .. Len(u) /\ u[i + 1] = s[i]
    BY <1>1, <1>2
  <2>2. 1 \in 1 .. Len(u) /\ u[1] = c
    BY <1>1, <1>2
  <2>3. \A i \in 1 .. Len(u) : i = 1 \/ (i - 1 \in 1 .. Len(s) /\ u[i] = s[i - 1])
    BY <1>1, <1>2
  <2>4. Members(s) \cup {c} \subseteq Members(u)
    BY <2>1, <2>2 DEF Members
  <2>5. Members(u) \subseteq Members(s) \cup {c}
    BY <2>2, <2>3 DEF Members
  <2> QED
    BY <2>4, <2>5
<1> QED
  BY <1>5, <1>6 DEF u

\* The members of a list without its i-th.
LEMMA CutMembers ==
  ASSUME NEW A, NEW s \in Seq(A), \A j, k \in 1 .. Len(s) : s[j] = s[k] => j = k,
         NEW i \in 1 .. Len(s)
  PROVE  Members(Without(s, i)) = Members(s) \ {s[i]}
<1> DEFINE u == Without(s, i)
<1>1. /\ u \in Seq(A) /\ Len(u) = Len(s) - 1 /\ Len(s) \in Nat
      /\ \A j \in 1 .. Len(s) - 1 : u[j] = IF j < i THEN s[j] ELSE s[j + 1]
  <2>1. Len(s) \in Nat
    OBVIOUS
  <2> HIDE DEF u
  <2>2. /\ Without(s, i) \in Seq(A) /\ Len(Without(s, i)) = Len(s) - 1
        /\ \A j \in 1 .. Len(s) - 1 : Without(s, i)[j] = IF j < i THEN s[j] ELSE s[j + 1]
    BY WithoutIs
  <2> QED
    BY <2>1, <2>2 DEF u
<1> HIDE DEF u
<1>2. \A j \in 1 .. Len(u) :
        \E k \in 1 .. Len(s) : u[j] = s[k] /\ k # i
  <2> SUFFICES ASSUME NEW j \in 1 .. Len(u)
               PROVE  \E k \in 1 .. Len(s) : u[j] = s[k] /\ k # i
    OBVIOUS
  <2> DEFINE J == IF j < i THEN j ELSE j + 1
  <2>1. J \in 1 .. Len(s) /\ u[j] = s[J] /\ J # i
    BY <1>1
  <2> HIDE DEF J
  <2> QED
    BY <2>1
<1>3. \A k \in 1 .. Len(s) : k # i => \E j \in 1 .. Len(u) : u[j] = s[k]
  <2> SUFFICES ASSUME NEW k \in 1 .. Len(s), k # i
               PROVE  \E j \in 1 .. Len(u) : u[j] = s[k]
    OBVIOUS
  <2> DEFINE K == IF k < i THEN k ELSE k - 1
  <2>1. K \in 1 .. Len(u) /\ u[K] = s[k]
    BY <1>1
  <2> HIDE DEF K
  <2> QED
    BY <2>1
<1>4. Members(u) \subseteq Members(s) \ {s[i]}
  BY <1>1, <1>2 DEF Members
<1>5. Members(s) \ {s[i]} \subseteq Members(u)
  BY <1>3 DEF Members
<1> QED
  BY <1>4, <1>5 DEF u

\* A list without its i-th chunk: the pointer before it, which may be the
\* head, is led past it.
LEMMA CutChain ==
  ASSUME NEW A, IsFiniteSet(A), NEW nil, nil \notin A,
         NEW s, NEW h, NEW P, NEW nx \in [A -> P], Linked(A, nil, s, h, nx),
         NEW i \in 1 .. Len(s)
  PROVE  /\ i = 1 => Linked(A, nil, Without(s, i), nx[s[i]], nx)
         /\ i > 1 => Linked(A, nil, Without(s, i), h, [nx EXCEPT ![s[i - 1]] = nx[s[i]]])
<1> DEFINE u == Without(s, i)
<1>1. s \in Seq(A) /\ Len(s) \in Nat /\ s \in [1 .. Len(s) -> A]
  BY DEF Linked
<1>2. /\ u \in Seq(A) /\ Len(u) = Len(s) - 1
      /\ \A j \in 1 .. Len(s) - 1 : u[j] = IF j < i THEN s[j] ELSE s[j + 1]
  BY <1>1, WithoutIs
<1>3. \A j, k \in 1 .. Len(s) : s[j] = s[k] => j = k
  BY DEF Linked
<1>4. \A j \in 1 .. Len(s) : nx[s[j]] = IF j < Len(s) THEN s[j + 1] ELSE nil
  BY DEF Linked
<1>5. h = s[1]
  BY <1>1 DEF Linked
<1> HIDE DEF u
<1>6. \A j, k \in 1 .. Len(u) : u[j] = u[k] => j = k
  <2> SUFFICES ASSUME NEW j \in 1 .. Len(u), NEW k \in 1 .. Len(u), u[j] = u[k]
               PROVE  j = k
    OBVIOUS
  <2> DEFINE J == IF j < i THEN j ELSE j + 1
             K == IF k < i THEN k ELSE k + 1
  <2>1. J \in 1 .. Len(s) /\ K \in 1 .. Len(s) /\ u[j] = s[J] /\ u[k] = s[K]
    BY <1>1, <1>2
  <2>2. J = K
    <3> HIDE DEF J, K
    <3> QED
      BY <1>3, <2>1
  <2> QED
    BY <1>1, <1>2, <2>2, SMT
<1>7. ASSUME i = 1 PROVE Linked(A, nil, u, nx[s[i]], nx)
  <2>1. nx[s[1]] = IF Len(u) = 0 THEN nil ELSE u[1]
    BY <1>1, <1>2, <1>4, <1>7
  <2>2. ASSUME NEW j \in 1 .. Len(u)
        PROVE  nx[u[j]] = IF j < Len(u) THEN u[j + 1] ELSE nil
    <3>1. u[j] = s[j + 1] /\ j + 1 \in 1 .. Len(s)
      BY <1>1, <1>2, <1>7
    <3>2. nx[s[j + 1]] = IF j + 1 < Len(s) THEN s[(j + 1) + 1] ELSE nil
      BY <1>4, <3>1
    <3>3. j < Len(u) => u[j + 1] = s[(j + 1) + 1]
      BY <1>1, <1>2, <1>7
    <3> QED
      BY <1>1, <1>2, <3>1, <3>2, <3>3
  <2> QED
    BY <1>2, <1>6, <1>7, <2>1, <2>2 DEF Linked
<1>8. ASSUME i > 1 PROVE Linked(A, nil, u, h, [nx EXCEPT ![s[i - 1]] = nx[s[i]]])
  <2> DEFINE n2 == [nx EXCEPT ![s[i - 1]] = nx[s[i]]]
  <2>1. h = IF Len(u) = 0 THEN nil ELSE u[1]
    BY <1>1, <1>2, <1>5, <1>8
  <2>2. s[i - 1] \in A /\ i - 1 \in 1 .. Len(s)
    BY <1>1, <1>8
  <2>3. /\ n2[s[i - 1]] = nx[s[i]]
        /\ \A c \in A \ {s[i - 1]} : n2[c] = nx[c]
    BY <2>2
  <2> HIDE DEF n2
  <2>4. ASSUME NEW j \in 1 .. Len(u)
        PROVE  n2[u[j]] = IF j < Len(u) THEN u[j + 1] ELSE nil
    <3>1. CASE j = i - 1
      <4>1. u[j] = s[i - 1] /\ (j < Len(u) => u[j + 1] = s[i + 1])
        BY <1>1, <1>2, <3>1
      <4>2. nx[s[i]] = IF i < Len(s) THEN s[i + 1] ELSE nil
        BY <1>4
      <4> QED
        BY <1>1, <1>2, <2>3, <3>1, <4>1, <4>2
    <3>2. CASE j < i - 1
      <4>1. j \in 1 .. Len(s) /\ j < Len(s) /\ u[j] = s[j] /\ u[j + 1] = s[j + 1] /\ j < Len(u)
        BY <1>1, <1>2, <3>2
      <4>2. s[j] # s[i - 1] /\ s[j] \in A
        BY <1>1, <1>3, <2>2, <3>2, <4>1
      <4>3. nx[s[j]] = s[j + 1]
        BY <1>4, <4>1
      <4> QED
        BY <2>3, <4>1, <4>2, <4>3
    <3>3. CASE j > i - 1
      <4>1. j + 1 \in 1 .. Len(s) /\ u[j] = s[j + 1]
        BY <1>1, <1>2, <3>3
      <4>2. s[j + 1] # s[i - 1] /\ s[j + 1] \in A
        BY <1>1, <1>3, <2>2, <3>3, <4>1
      <4>3. nx[s[j + 1]] = IF j + 1 < Len(s) THEN s[(j + 1) + 1] ELSE nil
        BY <1>4, <4>1
      <4>4. j < Len(u) => u[j + 1] = s[(j + 1) + 1]
        BY <1>1, <1>2, <3>3
      <4> QED
        BY <1>1, <1>2, <2>3, <4>1, <4>2, <4>3, <4>4
    <3> QED
      BY <1>1, <1>2, <3>1, <3>2, <3>3
  <2>5. Linked(A, nil, u, h, n2)
    BY <1>2, <1>6, <2>1, <2>4 DEF Linked
  <2> QED
    BY <2>5 DEF n2
<1> QED
  BY <1>7, <1>8 DEF u


\* A store to a chunk that is on no list leaves the list as it is.
LEMMA StoreElsewhere ==
  ASSUME NEW A, IsFiniteSet(A), NEW nil, nil \notin A,
         NEW s, NEW h, NEW P, NEW nx \in [A -> P], Linked(A, nil, s, h, nx),
         NEW c \in A \ Members(s), NEW p
  PROVE  Linked(A, nil, s, h, [nx EXCEPT ![c] = p])
<1>1. \A i \in 1 .. Len(s) : s[i] \in A /\ s[i] # c
  BY DEF Linked, Members
<1>2. \A i \in 1 .. Len(s) : [nx EXCEPT ![c] = p][s[i]] = nx[s[i]]
  BY <1>1
<1> QED
  BY <1>2 DEF Linked

\* The list stays as it is where its next fields do.
LEMMA ChainFrame ==
  ASSUME NEW A, NEW nil, NEW s, NEW h, NEW nx, Linked(A, nil, s, h, nx),
         NEW n2, \A m \in Members(s) : n2[m] = nx[m]
  PROVE  Linked(A, nil, s, h, n2)
<1>1. \A i \in 1 .. Len(s) : n2[s[i]] = nx[s[i]]
  BY DEF Members
<1> QED
  BY <1>1 DEF Linked

\* A node behind the last one, or as the only one.
LEMMA AppendedChain ==
  ASSUME NEW A, NEW nil, NEW s, NEW h, NEW nx, Linked(A, nil, s, h, nx),
         NEW c \in A \ Members(s), NEW n2, n2[c] = nil,
         Len(s) # 0 => n2[s[Len(s)]] = c,
         \A i \in 1 .. Len(s) : i # Len(s) => n2[s[i]] = nx[s[i]]
  PROVE  /\ Linked(A, nil, Append(s, c), IF Len(s) = 0 THEN c ELSE h, n2)
         /\ Members(Append(s, c)) = Members(s) \cup {c}
<1> DEFINE u == Append(s, c)
           g == IF Len(s) = 0 THEN c ELSE h
<1>1. s \in Seq(A) /\ Len(s) \in Nat
  BY DEF Linked
<1>2. /\ u \in Seq(A) /\ Len(u) = Len(s) + 1
      /\ \A i \in 1 .. Len(u) : u[i] = IF i = Len(u) THEN c ELSE s[i]
  BY <1>1
<1> HIDE DEF u
<1>3. \A i, j \in 1 .. Len(u) : u[i] = u[j] => i = j
  <2>1. \A i \in 1 .. Len(s) : s[i] # c
    BY DEF Members
  <2>2. \A i \in 1 .. Len(u) : i # Len(u) => i \in 1 .. Len(s) /\ u[i] = s[i]
    BY <1>1, <1>2
  <2>3. u[Len(u)] = c
    BY <1>1, <1>2
  <2>4. \A i, j \in 1 .. Len(s) : s[i] = s[j] => i = j
    BY DEF Linked
  <2> QED
    BY <2>1, <2>2, <2>3, <2>4
<1>4. \A i \in 1 .. Len(u) : n2[u[i]] = IF i < Len(u) THEN u[i + 1] ELSE nil
  <2> SUFFICES ASSUME NEW i \in 1 .. Len(u)
               PROVE  n2[u[i]] = IF i < Len(u) THEN u[i + 1] ELSE nil
    OBVIOUS
  <2>1. CASE i = Len(u)
    BY <1>1, <1>2, <2>1
  <2>2. CASE i = Len(s)
    <3>1. u[i] = s[Len(s)] /\ u[i + 1] = c /\ i < Len(u) /\ Len(s) # 0
      BY <1>1, <1>2, <2>2
    <3> QED
      BY <3>1
  <2>3. CASE i < Len(s)
    <3>1. i \in 1 .. Len(s) /\ i # Len(s) /\ u[i] = s[i] /\ u[i + 1] = s[i + 1] /\ i < Len(u)
      BY <1>1, <1>2, <2>3
    <3>2. nx[s[i]] = s[i + 1]
      BY <2>3, <3>1 DEF Linked
    <3> QED
      BY <3>1, <3>2
  <2> QED
    BY <1>1, <1>2, <2>1, <2>2, <2>3
<1>5. Len(u) # 0 /\ g = u[1]
  BY <1>1, <1>2 DEF Linked
<1>6. Linked(A, nil, u, g, n2)
  BY <1>2, <1>3, <1>4, <1>5 DEF Linked
<1>7. Members(u) = Members(s) \cup {c}
  <2>1. \A i \in 1 .. Len(s) : i \in 1 .. Len(u) /\ u[i] = s[i]
    BY <1>1, <1>2
  <2>2. Len(u) \in 1 .. Len(u) /\ u[Len(u)] = c
    BY <1>1, <1>2
  <2>3. \A i \in 1 .. Len(u) : i = Len(u) \/ (i \in 1 .. Len(s) /\ u[i] = s[i])
    BY <1>1, <1>2
  <2>4. Members(s) \cup {c} \subseteq Members(u)
    BY <2>1, <2>2 DEF Members
  <2>5. Members(u) \subseteq Members(s) \cup {c}
    BY <2>2, <2>3 DEF Members
  <2> QED
    BY <2>4, <2>5
<1> QED
  BY <1>6, <1>7 DEF u

\* A list without its first node, and what its places hold.
LEMMA CutFirst ==
  ASSUME NEW A, IsFiniteSet(A), NEW nil, nil \notin A,
         NEW s, NEW h, NEW P, NEW nx \in [A -> P], Linked(A, nil, s, h, nx), h # nil
  PROVE  /\ Len(s) # 0 /\ h = s[1] /\ h \in Members(s) /\ h \in A
         /\ Linked(A, nil, Without(s, 1), nx[h], nx)
         /\ Members(Without(s, 1)) = Members(s) \ {h}
         /\ Len(Without(s, 1)) = Len(s) - 1
         /\ \A j \in 1 .. Len(s) - 1 : Without(s, 1)[j] = s[j + 1]
<1>1. s \in Seq(A) /\ Len(s) \in Nat /\ \A j, k \in 1 .. Len(s) : s[j] = s[k] => j = k
  BY DEF Linked
<1>2. Len(s) # 0 /\ h = s[1] /\ 1 \in 1 .. Len(s) /\ h \in A
  BY <1>1 DEF Linked
<1>3. h \in Members(s)
  BY <1>2 DEF Members
<1>4. Linked(A, nil, Without(s, 1), nx[h], nx)
  BY <1>2, CutChain
<1>5. Members(Without(s, 1)) = Members(s) \ {h}
  BY <1>1, <1>2, CutMembers
<1>6. /\ Len(Without(s, 1)) = Len(s) - 1
      /\ \A j \in 1 .. Len(s) - 1 : Without(s, 1)[j] = IF j < 1 THEN s[j] ELSE s[j + 1]
  BY <1>1, <1>2, WithoutIs
<1> QED
  BY <1>1, <1>2, <1>3, <1>4, <1>5, <1>6
=============================================================================
