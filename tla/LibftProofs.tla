----------------------------- MODULE LibftProofs -----------------------------
(***************************************************************************)
(* libft's functions without state do what they are for, for every size of *)
(* memory, length of string and width of number.                           *)
(*                                                                         *)
(* A loop is a recursive function of its turns in the model.  The lemmas   *)
(* give each one in closed form: where it is after so many turns; Climb and *)
(* Descend show that it is the only function that takes those turns.       *)
(***************************************************************************)
EXTENDS Libft, CommonLemmas

-----------------------------------------------------------------------------
(***************************************************************************)
(* Memory                                                                  *)
(***************************************************************************)
\* What i bytes moved upwards have made of the memory.
Moved(m, d, s, i) ==
  [ x \in Addresses |-> IF d <= x /\ x < d + i THEN m[x - d + s] ELSE m[x] ]

LEMMA CopyUpMoves ==
  ASSUME NEW V, NEW m \in [Addresses -> V], NEW d \in Nat, NEW s \in Nat, NEW n \in Nat,
         d + n <= Size, s + n <= Size, d <= s \/ s + n <= d
  PROVE  CopyUp(m, d, s, n) = Moved(m, d, s, n)
<1> DEFINE Step(f) == [ i \in 0 .. n |->
             IF i = 0 THEN m ELSE [f[i - 1] EXCEPT ![d + i - 1] = f[i - 1][s + i - 1]] ]
           g == [ i \in 0 .. n |-> Moved(m, d, s, i) ]
<1> Size \in Nat
  BY MemoryAssumption
<1>1. ASSUME NEW i \in 1 .. n
      PROVE  Moved(m, d, s, i) =
               [Moved(m, d, s, i - 1) EXCEPT ![d + i - 1] = Moved(m, d, s, i - 1)[s + i - 1]]
  <2>1. s + i - 1 \in Addresses /\ Moved(m, d, s, i - 1)[s + i - 1] = m[s + i - 1]
    BY DEF Moved, Addresses
  <2>2. [Moved(m, d, s, i - 1) EXCEPT ![d + i - 1] = m[s + i - 1]] =
          [ x \in Addresses |-> IF x = d + i - 1 THEN m[s + i - 1] ELSE Moved(m, d, s, i - 1)[x] ]
    BY DEF Moved
  <2>3. ASSUME NEW x \in Addresses
        PROVE  Moved(m, d, s, i)[x] =
                 IF x = d + i - 1 THEN m[s + i - 1] ELSE Moved(m, d, s, i - 1)[x]
    <3>1. CASE x = d + i - 1
      BY <3>1 DEF Moved, Addresses
    <3>2. CASE x # d + i - 1
      BY <3>2 DEF Moved, Addresses
    <3> QED
      BY <3>1, <3>2
  <2> QED
    BY <2>1, <2>2, <2>3 DEF Moved
<1>2. Moved(m, d, s, 0) = m
  BY DEF Moved, Addresses
<1>3. g = Step(g)
  BY <1>1, <1>2
<1>4. ASSUME NEW f, f = Step(f) PROVE f[n] = Moved(m, d, s, n)
  <2> DEFINE T == { i \in 0 .. n : f[i] = Moved(m, d, s, i) }
  <2>1. 0 \in T
    BY <1>2, <1>4
  <2>2. ASSUME NEW i \in 1 .. n, i - 1 \in T PROVE i \in T
    <3>1. i \in 0 .. n /\ i # 0
      OBVIOUS
    <3> QED
      BY <1>1, <1>4, <2>2, <3>1
  <2> HIDE DEF T
  <2>3. 0 .. n \subseteq T
    BY <2>1, <2>2, Climb
  <2> QED
    BY <2>3 DEF T
<1>5. CopyUp(m, d, s, n) = (CHOOSE f : f = Step(f))[n]
  BY DEF CopyUp
<1> HIDE DEF Step, g
<1> QED
  BY <1>3, <1>4, <1>5

LEMMA CopyDownMoves ==
  ASSUME NEW V, NEW m \in [Addresses -> V], NEW d \in Nat, NEW s \in Nat, NEW n \in Nat,
         d + n <= Size, s + n <= Size, s < d
  PROVE  CopyDown(m, d, s, n) = Moved(m, d, s, n)
<1> DEFINE Part(i) == [ x \in Addresses |-> IF d + i <= x /\ x < d + n THEN m[x - d + s] ELSE m[x] ]
           Step(f) == [ i \in 0 .. n |->
             IF i = n THEN m ELSE [f[i + 1] EXCEPT ![d + i] = f[i + 1][s + i]] ]
           g == [ i \in 0 .. n |-> Part(i) ]
<1> Size \in Nat
  BY MemoryAssumption
<1>1. ASSUME NEW i \in 0 .. n - 1
      PROVE  Part(i) = [Part(i + 1) EXCEPT ![d + i] = Part(i + 1)[s + i]]
  <2>1. s + i \in Addresses /\ Part(i + 1)[s + i] = m[s + i]
    BY DEF Addresses
  <2>2. [Part(i + 1) EXCEPT ![d + i] = m[s + i]] =
          [ x \in Addresses |-> IF x = d + i THEN m[s + i] ELSE Part(i + 1)[x] ]
    OBVIOUS
  <2>3. ASSUME NEW x \in Addresses
        PROVE  Part(i)[x] = IF x = d + i THEN m[s + i] ELSE Part(i + 1)[x]
    <3>1. CASE x = d + i
      BY <3>1 DEF Addresses
    <3>2. CASE x # d + i
      BY <3>2 DEF Addresses
    <3> QED
      BY <3>1, <3>2
  <2> QED
    BY <2>1, <2>2, <2>3
<1>2. Part(n) = m /\ Part(0) = Moved(m, d, s, n)
  BY DEF Moved, Addresses
<1> HIDE DEF Part
<1>3. g = Step(g)
  BY <1>1, <1>2
<1>4. ASSUME NEW f, f = Step(f) PROVE f[0] = Part(0)
  <2> DEFINE T == { i \in 0 .. n : f[i] = Part(i) }
  <2>1. n \in T
    BY <1>2, <1>4
  <2>2. ASSUME NEW i \in 0 .. n - 1, i + 1 \in T PROVE i \in T
    <3>1. i \in 0 .. n /\ i # n
      OBVIOUS
    <3> QED
      BY <1>1, <1>4, <2>2, <3>1
  <2> HIDE DEF T
  <2>3. 0 .. n \subseteq T
    BY <2>1, <2>2, Descend
  <2> QED
    BY <2>3 DEF T
<1>5. CopyDown(m, d, s, n) = (CHOOSE f : f = Step(f))[0]
  BY DEF CopyDown
<1> HIDE DEF Step, g
<1> QED
  BY <1>2, <1>3, <1>4, <1>5

SetTo(m, d, b, i) == [ x \in Addresses |-> IF d <= x /\ x < d + i THEN b ELSE m[x] ]

LEMMA MemsetFills ==
  ASSUME NEW V, NEW m \in [Addresses -> V], NEW d \in Nat, NEW b, NEW n \in Nat, d + n <= Size
  PROVE  Memset(m, d, b, n) = SetTo(m, d, b, n)
<1> DEFINE Step(f) == [ i \in 0 .. n |-> IF i = 0 THEN m ELSE [f[i - 1] EXCEPT ![d + i - 1] = b] ]
           g == [ i \in 0 .. n |-> SetTo(m, d, b, i) ]
<1> Size \in Nat
  BY MemoryAssumption
<1>1. ASSUME NEW i \in 1 .. n
      PROVE  SetTo(m, d, b, i) = [SetTo(m, d, b, i - 1) EXCEPT ![d + i - 1] = b]
  <2>1. [SetTo(m, d, b, i - 1) EXCEPT ![d + i - 1] = b] =
          [ x \in Addresses |-> IF x = d + i - 1 THEN b ELSE SetTo(m, d, b, i - 1)[x] ]
    BY DEF SetTo
  <2>2. ASSUME NEW x \in Addresses
        PROVE  SetTo(m, d, b, i)[x] = IF x = d + i - 1 THEN b ELSE SetTo(m, d, b, i - 1)[x]
    BY DEF SetTo, Addresses
  <2> QED
    BY <2>1, <2>2 DEF SetTo
<1>2. SetTo(m, d, b, 0) = m
  BY DEF SetTo, Addresses
<1>3. g = Step(g)
  BY <1>1, <1>2
<1>4. ASSUME NEW f, f = Step(f) PROVE f[n] = SetTo(m, d, b, n)
  <2> DEFINE T == { i \in 0 .. n : f[i] = SetTo(m, d, b, i) }
  <2>1. 0 \in T
    BY <1>2, <1>4
  <2>2. ASSUME NEW i \in 1 .. n, i - 1 \in T PROVE i \in T
    <3>1. i \in 0 .. n /\ i # 0
      OBVIOUS
    <3> QED
      BY <1>1, <1>4, <2>2, <3>1
  <2> HIDE DEF T
  <2>3. 0 .. n \subseteq T
    BY <2>1, <2>2, Climb
  <2> QED
    BY <2>3 DEF T
<1>5. Memset(m, d, b, n) = (CHOOSE f : f = Step(f))[n]
  BY DEF Memset
<1> HIDE DEF Step, g
<1> QED
  BY <1>3, <1>4, <1>5
-----------------------------------------------------------------------------
\* The least of a set of numbers.
LEMMA MinIs ==
  ASSUME NEW S \in SUBSET Nat, S # {}
  PROVE  Min(S) \in S /\ \A y \in S : Min(S) <= y
<1>1. \E x \in S : \A y \in S : x <= y
  BY Least
<1> QED
  BY <1>1 DEF Min

LEMMA MinUnique ==
  ASSUME NEW S \in SUBSET Nat, NEW x \in S, \A y \in S : x <= y
  PROVE  Min(S) = x
<1>1. S # {} /\ x \in Nat
  OBVIOUS
<1>2. Min(S) \in S /\ Min(S) <= x
  BY <1>1, MinIs
<1>3. Min(S) \in Nat /\ x <= Min(S)
  BY <1>2
<1> QED
  BY <1>1, <1>2, <1>3

-----------------------------------------------------------------------------
\* Where ranges differ, and where one has a byte, from i on.
DifferAt(m, s1, s2, i, n) == { k \in i .. n - 1 : m[s1 + k] # m[s2 + k] }
HaveAt(m, s, b, i, n) == { k \in i .. n - 1 : m[s + k] = b }

LEMMA MemcmpFirst ==
  ASSUME NEW m, NEW s1, NEW s2, NEW n \in Nat
  PROVE  Memcmp(m, s1, s2, n) =
           LET at == DifferAt(m, s1, s2, 0, n)
           IN  IF at = {} THEN 0 ELSE m[s1 + Min(at)] - m[s2 + Min(at)]
<1> DEFINE At(i) == DifferAt(m, s1, s2, i, n)
           Found(i) == IF At(i) = {} THEN 0 ELSE m[s1 + Min(At(i))] - m[s2 + Min(At(i))]
           Step(f) == [ i \in 0 .. n |->
             IF i = n THEN 0
             ELSE IF m[s1 + i] # m[s2 + i] THEN m[s1 + i] - m[s2 + i] ELSE f[i + 1] ]
           g == [ i \in 0 .. n |-> Found(i) ]
<1>1. ASSUME NEW i \in 0 .. n - 1
      PROVE  Found(i) = IF m[s1 + i] # m[s2 + i] THEN m[s1 + i] - m[s2 + i] ELSE Found(i + 1)
  <2>1. CASE m[s1 + i] # m[s2 + i]
    <3>1. i \in At(i) /\ At(i) \in SUBSET Nat /\ \A k \in At(i) : i <= k
      BY <2>1 DEF DifferAt
    <3>2. Min(At(i)) = i
      BY <3>1, MinUnique
    <3> QED
      BY <2>1, <3>1, <3>2
  <2>2. CASE m[s1 + i] = m[s2 + i]
    <3>1. \A k \in Int : k \in i .. n - 1 <=> k = i \/ k \in i + 1 .. n - 1
      OBVIOUS
    <3>2. At(i) = At(i + 1)
      BY <2>2, <3>1 DEF DifferAt
    <3> QED
      BY <2>2, <3>2
  <2> QED
    BY <2>1, <2>2
<1>2. Found(n) = 0
  BY DEF DifferAt
<1> HIDE DEF Found
<1>3. g = Step(g)
  BY <1>1, <1>2
<1>4. ASSUME NEW f, f = Step(f) PROVE f[0] = Found(0)
  <2> DEFINE T == { i \in 0 .. n : f[i] = Found(i) }
  <2>1. n \in T
    BY <1>2, <1>4
  <2>2. ASSUME NEW i \in 0 .. n - 1, i + 1 \in T PROVE i \in T
    <3>1. i \in 0 .. n /\ i # n
      OBVIOUS
    <3> QED
      BY <1>1, <1>4, <2>2, <3>1
  <2> HIDE DEF T
  <2>3. 0 .. n \subseteq T
    BY <2>1, <2>2, Descend
  <2> QED
    BY <2>3 DEF T
<1>5. Memcmp(m, s1, s2, n) = (CHOOSE f : f = Step(f))[0]
  BY DEF Memcmp
<1>6. Memcmp(m, s1, s2, n) = Found(0)
  <2> HIDE DEF Step, g
  <2> QED
    BY <1>3, <1>4, <1>5
<1> QED
  BY <1>6 DEF Found

LEMMA MemchrFirst ==
  ASSUME NEW m, NEW s, NEW b, NEW n \in Nat
  PROVE  Memchr(m, s, b, n) =
           LET at == HaveAt(m, s, b, 0, n) IN IF at = {} THEN NULL ELSE s + Min(at)
<1> DEFINE At(i) == HaveAt(m, s, b, i, n)
           Found(i) == IF At(i) = {} THEN NULL ELSE s + Min(At(i))
           Step(f) == [ i \in 0 .. n |->
             IF i = n THEN NULL ELSE IF m[s + i] = b THEN s + i ELSE f[i + 1] ]
           g == [ i \in 0 .. n |-> Found(i) ]
<1>1. ASSUME NEW i \in 0 .. n - 1
      PROVE  Found(i) = IF m[s + i] = b THEN s + i ELSE Found(i + 1)
  <2>1. CASE m[s + i] = b
    <3>1. i \in At(i) /\ At(i) \in SUBSET Nat /\ \A k \in At(i) : i <= k
      BY <2>1 DEF HaveAt
    <3>2. Min(At(i)) = i
      BY <3>1, MinUnique
    <3> QED
      BY <2>1, <3>1, <3>2
  <2>2. CASE m[s + i] # b
    <3>1. \A k \in Int : k \in i .. n - 1 <=> k = i \/ k \in i + 1 .. n - 1
      OBVIOUS
    <3>2. At(i) = At(i + 1)
      BY <2>2, <3>1 DEF HaveAt
    <3> QED
      BY <2>2, <3>2
  <2> QED
    BY <2>1, <2>2
<1>2. Found(n) = NULL
  BY DEF HaveAt
<1> HIDE DEF Found
<1>3. g = Step(g)
  BY <1>1, <1>2
<1>4. ASSUME NEW f, f = Step(f) PROVE f[0] = Found(0)
  <2> DEFINE T == { i \in 0 .. n : f[i] = Found(i) }
  <2>1. n \in T
    BY <1>2, <1>4
  <2>2. ASSUME NEW i \in 0 .. n - 1, i + 1 \in T PROVE i \in T
    <3>1. i \in 0 .. n /\ i # n
      OBVIOUS
    <3> QED
      BY <1>1, <1>4, <2>2, <3>1
  <2> HIDE DEF T
  <2>3. 0 .. n \subseteq T
    BY <2>1, <2>2, Descend
  <2> QED
    BY <2>3 DEF T
<1>5. Memchr(m, s, b, n) = (CHOOSE f : f = Step(f))[0]
  BY DEF Memchr
<1>6. Memchr(m, s, b, n) = Found(0)
  <2> HIDE DEF Step, g
  <2> QED
    BY <1>3, <1>4, <1>5
<1> QED
  BY <1>6 DEF Found

-----------------------------------------------------------------------------
\* The product in ft_calloc does not wrap.
LEMMA ProductFits ==
  ASSUME NEW count \in Nat, NEW size \in Nat, ~CallocRefuses(count, size)
  PROVE  count * size \in Nat /\ count * size <= SizeMax
<1> SizeMax \in Nat
  BY MemoryAssumption
<1>1. CASE size = 0
  BY <1>1
<1>2. CASE size # 0
  <2> DEFINE q == SizeMax \div size
  <2>1. q \in Nat /\ q * size <= SizeMax
    BY <1>2
  <2>2. count <= q
    BY <1>2 DEF CallocRefuses
  <2> HIDE DEF q
  <2>3. count * size <= q * size
    BY <2>1, <2>2
  <2>4. count * size \in Nat /\ q * size \in Nat
    BY <2>1
  <2> QED
    BY <2>1, <2>3, <2>4
<1> QED
  BY <1>1, <1>2

\* A call of the other components.
Elsewhere == StringCall \/ NumberCall \/ PrintCall
MemoryNames == {"memcpy", "memmove", "memset", "memcmp", "memchr", "calloc"}

LEMMA ElsewhereNames ==
  ASSUME Elsewhere
  PROVE  call'.name \notin MemoryNames
<1>1. CASE StringCall
  BY <1>1 DEF MemoryNames, StringCall, DoStrchr, DoStrncmp, DoStrnstr, DoStrlcpy, DoStrlcat,
     DoStrdup, DoStrmapi, DoStrjoin, DoStrtrim, DoSubstr, DoSplit, Returns, Call
<1>2. CASE NumberCall
  BY <1>2 DEF MemoryNames, NumberCall, DoAtoi, DoItoa, Returns, Call
<1>3. CASE PrintCall
  BY <1>3 DEF MemoryNames, PrintCall, DoPrintf, DoPutEndl, DoPutSize, Call
<1> QED
  BY <1>1, <1>2, <1>3 DEF Elsewhere
LEMMA MoveCalls ==
  ASSUME MemoryCall
  PROVE  MovesExactly'
<1> Size \in Nat
  BY MemoryAssumption
<1>1. \A a \in Args :
        /\ a.memory \in [Addresses -> Addresses] /\ a.dst \in Nat /\ a.src \in Nat /\ a.n \in Nat
        /\ a.dst + a.n <= Size /\ a.src + a.n <= Size
  BY DEF Args, Addresses
<1>2. CASE DoMemcpy
  <2>1. PICK a \in Args :
          Apart(a) /\ Call("memcpy", a, [memory |-> Memcpy(a.memory, a.dst, a.src, a.n), value |-> a.dst])
    BY <1>2 DEF DoMemcpy
  <2>2. a.dst <= a.src \/ a.src + a.n <= a.dst
    BY <1>1, <2>1 DEF Apart
  <2>3. Memcpy(a.memory, a.dst, a.src, a.n) = Moved(a.memory, a.dst, a.src, a.n)
    BY <1>1, <2>2, CopyUpMoves DEF Memcpy
  <2> QED
    BY <2>1, <2>3 DEF Call, MovesExactly, Moved
<1>3. CASE DoMemmove
  <2>1. PICK a \in Args :
          Call("memmove", a, [memory |-> Memmove(a.memory, a.dst, a.src, a.n), value |-> a.dst])
    BY <1>3 DEF DoMemmove
  <2>2. Memmove(a.memory, a.dst, a.src, a.n) = Moved(a.memory, a.dst, a.src, a.n)
    <3>1. CASE a.src < a.dst
      BY <1>1, <3>1, CopyDownMoves DEF Memmove
    <3>2. CASE a.dst <= a.src
      <4>1. ~(a.src < a.dst)
        BY <1>1, <3>2
      <4> QED
        BY <1>1, <3>2, <4>1, CopyUpMoves DEF Memmove
    <3>3. a.src < a.dst \/ a.dst <= a.src
      BY <1>1
    <3> QED
      BY <3>1, <3>2, <3>3
  <2> QED
    BY <2>1, <2>2 DEF Call, MovesExactly, Moved
<1>4. CASE DoMemset \/ DoMemcmp \/ DoMemchr \/ DoCalloc
  BY <1>4 DEF DoMemset, DoMemcmp, DoMemchr, DoCalloc, Call, MovesExactly
<1> QED
  BY <1>2, <1>3, <1>4 DEF MemoryCall

LEMMA FindCalls ==
  ASSUME MemoryCall
  PROVE  FindsFirst'
<1>1. CASE DoMemcmp
  <2>1. PICK a \in Args :
          Call("memcmp", a, [memory |-> a.memory, value |-> Memcmp(a.memory, a.dst, a.src, a.n)])
    BY <1>1 DEF DoMemcmp
  <2>2. a.n \in Nat
    BY DEF Args
  <2>3. Memcmp(a.memory, a.dst, a.src, a.n) =
          LET at == DifferAt(a.memory, a.dst, a.src, 0, a.n)
          IN  IF at = {} THEN 0 ELSE a.memory[a.dst + Min(at)] - a.memory[a.src + Min(at)]
    BY <2>2, MemcmpFirst
  <2> QED
    BY <2>1, <2>3 DEF Call, FindsFirst, DifferAt
<1>2. CASE DoMemchr
  <2>1. PICK a \in Args, b \in Addresses :
          Call("memchr", [a EXCEPT !.dst = b], [memory |-> a.memory, value |-> Memchr(a.memory, a.src, b, a.n)])
    BY <1>2 DEF DoMemchr
  <2>2. /\ a.n \in Nat
        /\ [a EXCEPT !.dst = b] = [memory |-> a.memory, dst |-> b, src |-> a.src, n |-> a.n]
    BY DEF Args
  <2>3. Memchr(a.memory, a.src, b, a.n) =
          LET at == HaveAt(a.memory, a.src, b, 0, a.n) IN IF at = {} THEN NULL ELSE a.src + Min(at)
    BY <2>2, MemchrFirst
  <2> QED
    BY <2>1, <2>2, <2>3 DEF Call, FindsFirst, HaveAt
<1>3. CASE DoMemcpy \/ DoMemmove \/ DoMemset \/ DoCalloc
  BY <1>3 DEF DoMemcpy, DoMemmove, DoMemset, DoCalloc, Call, FindsFirst
<1> QED
  BY <1>1, <1>2, <1>3 DEF MemoryCall

LEMMA CallocCalls ==
  ASSUME MemoryCall
  PROVE  CallocClearsAll'
<1> Size \in Nat /\ SizeMax \in Nat
  BY MemoryAssumption
<1>1. CASE DoCalloc
  <2>1. PICK m \in [Addresses -> {1}], count \in 0 .. SizeMax, size \in 0 .. SizeMax,
             p \in Addresses \cup {NULL} :
          LET bytes == (count * size) % (SizeMax + 1)
              given == [memory |-> m, count |-> count, size |-> size]
          IN  \/ /\ p = NULL
                 /\ Call("calloc", given, [memory |-> m, value |-> NULL, died |-> FALSE])
              \/ /\ p # NULL /\ ~CallocRefuses(count, size) /\ ~Short(bytes) /\ p + bytes <= Size
                 /\ Call("calloc", given,
                         [memory |-> Memset(m, p, 0, bytes), value |-> p, died |-> FALSE])
              \/ /\ p # NULL /\ ~CallocRefuses(count, size) /\ Short(bytes)
                 /\ bytes + Overhead # SizeMax + 1
                 /\ Call("calloc", given,
                         [memory |-> Memset(m, p, 0, Size - p), value |-> NULL, died |-> TRUE])
    BY <1>1 DEF DoCalloc
  <2> DEFINE bytes == count * size
  <2>2. CASE p = NULL
    BY <2>1, <2>2 DEF Call, CallocClearsAll
  <2>3. CASE p # NULL
    <3>1. count \in Nat /\ size \in Nat /\ ~CallocRefuses(count, size) /\ p \in Nat /\ p \in Addresses
      BY <2>1, <2>3 DEF Addresses
    <3>2. bytes \in Nat /\ bytes <= SizeMax
      BY <3>1, ProductFits
    <3> HIDE DEF bytes
    <3>3. bytes % (SizeMax + 1) = bytes
      BY <3>2
    <3>4. call'.name = "calloc" /\ call'.args = [memory |-> m, count |-> count, size |-> size]
      BY <2>1 DEF Call
    <3>5. CASE /\ ~Short(bytes) /\ p + bytes <= Size
               /\ result' = [memory |-> Memset(m, p, 0, bytes), value |-> p, died |-> FALSE]
      <4>1. Memset(m, p, 0, bytes) = SetTo(m, p, 0, bytes)
        BY <3>1, <3>2, <3>5, MemsetFills
      <4> QED
        BY <3>4, <3>5, <4>1 DEF CallocClearsAll, SetTo, bytes
    <3>6. CASE Short(bytes) /\ result'.value = NULL /\ result'.died
      BY <3>2, <3>4, <3>6 DEF CallocClearsAll, bytes
    <3>7. \/ /\ ~Short(bytes) /\ p + bytes <= Size
             /\ result' = [memory |-> Memset(m, p, 0, bytes), value |-> p, died |-> FALSE]
          \/ Short(bytes) /\ result'.value = NULL /\ result'.died
      BY <2>1, <2>3, <3>3 DEF Call, bytes
    <3> QED
      BY <3>5, <3>6, <3>7
  <2> QED
    BY <2>2, <2>3
<1>2. CASE DoMemcpy \/ DoMemmove \/ DoMemset \/ DoMemcmp \/ DoMemchr
  BY <1>2 DEF DoMemcpy, DoMemmove, DoMemset, DoMemcmp, DoMemchr, Call, CallocClearsAll
<1> QED
  BY <1>1, <1>2 DEF MemoryCall
-----------------------------------------------------------------------------
(***************************************************************************)
(* Strings                                                                 *)
(***************************************************************************)
\* The greatest of a set with a bound.
MaxUpTo(S, n) == S # {} /\ \A y \in S : y \in Int /\ y <= n

LEMMA MaxIs ==
  ASSUME NEW S, NEW n \in Int, MaxUpTo(S, n)
  PROVE  Max(S) \in S /\ \A y \in S : y <= Max(S)
<1> DEFINE Gaps == { k \in Nat : n - k \in S }
<1>1. Gaps \in SUBSET Nat
  OBVIOUS
<1>2. Gaps # {}
  <2>1. PICK y \in S : y \in Int /\ y <= n
    BY DEF MaxUpTo
  <2>2. n - y \in Nat /\ n - (n - y) = y
    BY <2>1
  <2> QED
    BY <2>2
<1>3. PICK k \in Gaps : \A j \in Gaps : k <= j
  <2> HIDE DEF Gaps
  <2> QED
    BY <1>1, <1>2, Least
<1>4. n - k \in S
  BY <1>3
<1>5. ASSUME NEW y \in S PROVE y <= n - k
  <2>1. y \in Int /\ y <= n
    BY DEF MaxUpTo
  <2>2. n - y \in Nat /\ n - (n - y) = y
    BY <2>1
  <2>3. k <= n - y
    BY <1>3, <2>2
  <2> QED
    BY <2>1, <2>3
<1> HIDE DEF Gaps
<1> QED
  BY <1>4, <1>5 DEF Max

LEMMA MaxUnique ==
  ASSUME NEW S, NEW x \in S, x \in Int, \A y \in S : y \in Int /\ y <= x
  PROVE  Max(S) = x
<1>1. Max(S) \in S /\ \A y \in S : y <= Max(S)
  BY MaxIs DEF MaxUpTo
<1>2. Max(S) \in Int /\ Max(S) <= x /\ x <= Max(S)
  BY <1>1
<1> QED
  BY <1>2

-----------------------------------------------------------------------------
\* A string of length n: its characters, and the NUL that ends it.
StringOf(s, n) ==
  /\ n \in Nat /\ DOMAIN s = 0 .. n /\ s[n] = NUL
  /\ \A i \in 0 .. n - 1 : s[i] # NUL

LEMMA LengthIs ==
  ASSUME NEW s, NEW n, StringOf(s, n)
  PROVE  Strlen(s) = n
<1> DEFINE Ends == { i \in DOMAIN s : s[i] = NUL }
<1>1. Ends \in SUBSET Nat /\ n \in Ends /\ n \in Nat
  BY DEF StringOf
<1>2. \A i \in Ends : n <= i
  BY DEF StringOf
<1> HIDE DEF Ends
<1>3. Min(Ends) = n
  BY <1>1, <1>2, MinUnique
<1> QED
  BY <1>3 DEF Strlen, Ends

LEMMA StringsAre ==
  ASSUME NEW s \in Strings
  PROVE  /\ StringOf(s, Strlen(s)) /\ Strlen(s) <= MaxLen
         /\ s = [ i \in 0 .. Strlen(s) |-> s[i] ]
         /\ \A i \in 0 .. Strlen(s) : s[i] \in Nat
<1> MaxLen \in Nat /\ \A c \in Letters : c \in Nat
  BY StringAssumption
<1>1. PICK k \in 0 .. MaxLen : s \in [0 .. k -> Letters \cup {NUL}]
  BY DEF Strings, StringsOf
<1>2. Cardinality(DOMAIN s) = k + 1
  <2>1. Cardinality(0 .. (k + 1) - 1) = k + 1
    BY CountTo
  <2> QED
    BY <1>1, <2>1
<1>3. \A i \in 0 .. k : s[i] = NUL <=> i = k
  BY <1>1, <1>2 DEF Strings, StringsOf
<1>4. StringOf(s, k)
  BY <1>1, <1>3 DEF StringOf
<1>5. Strlen(s) = k
  BY <1>4, LengthIs
<1>6. s = [ i \in 0 .. k |-> s[i] ] /\ \A i \in 0 .. k : s[i] \in Nat
  BY <1>1 DEF NUL
<1> QED
  BY <1>4, <1>5, <1>6

\* What Fill stores in a block of its own.
LEMMA FillFresh ==
  ASSUME NEW s, NEW from \in Nat, NEW to \in Nat, from <= to,
         \A i \in from .. to - 1 : s[i] # NUL
  PROVE  /\ StringOf(Fill(Fresh, 0, s, from, to), to - from)
         /\ Strlen(Fill(Fresh, 0, s, from, to)) = to - from
         /\ Text(Fill(Fresh, 0, s, from, to)) = Piece(s, from, to)
<1> DEFINE f == Fill(Fresh, 0, s, from, to)
           n == to - from
<1>1. n \in Nat
  OBVIOUS
<1>2. f = [ i \in 0 .. n |-> IF i = n THEN NUL ELSE s[i + from] ]
  <2>1. f = [ i \in 0 .. n |->
                IF i = n THEN NUL ELSE IF 0 <= i /\ i < n THEN s[i - 0 + from] ELSE Fresh[i] ]
    BY DEF Fill, Fresh
  <2>2. \A i \in 0 .. n : i # n => 0 <= i /\ i < n /\ i - 0 + from = i + from
    OBVIOUS
  <2> HIDE DEF f, n
  <2> QED
    BY <2>1, <2>2
<1>3. \A i \in 0 .. n - 1 : i + from \in from .. to - 1
  OBVIOUS
<1> HIDE DEF f
<1>4. StringOf(f, n)
  BY <1>1, <1>2, <1>3 DEF StringOf
<1>5. Strlen(f) = n
  BY <1>4, LengthIs
<1>6. Text(f) = Piece(s, from, to)
  <2>1. Text(f) = [ i \in 1 .. n |-> f[i - 1] ]
    BY <1>1, <1>5 DEF Text, Piece
  <2>2. \A i \in 1 .. n : f[i - 1] = s[from + i - 1]
    <3> SUFFICES ASSUME NEW i \in 1 .. n PROVE f[i - 1] = s[from + i - 1]
      OBVIOUS
    <3>1. i - 1 \in 0 .. n /\ i - 1 # n /\ (i - 1) + from = from + i - 1
      OBVIOUS
    <3> HIDE DEF n
    <3> QED
      BY <1>2, <3>1
  <2> QED
    BY <2>1, <2>2 DEF Piece
<1> QED
  BY <1>4, <1>5, <1>6 DEF f

\* A block that was made for a text: all of it is written, and nothing else.
MadeOf(b, text) ==
  /\ DOMAIN b.str = 0 .. b.size - 1 /\ Strlen(b.str) = b.size - 1
  /\ Text(b.str) = text

LEMMA FreshBlock ==
  ASSUME NEW s, NEW from \in Nat, NEW to \in Nat, from <= to,
         \A i \in from .. to - 1 : s[i] # NUL
  PROVE  MadeOf(Block(to - from + 1, Fill(Fresh, 0, s, from, to)), Piece(s, from, to))
<1>1. to - from + 1 - 1 = to - from
  OBVIOUS
<1> QED
  BY <1>1, FillFresh DEF MadeOf, Block, StringOf

LEMMA StrdupMakes ==
  ASSUME NEW s, NEW n, StringOf(s, n)
  PROVE  MadeOf(Strdup(s), Text(s))
<1>1. n \in Nat /\ Strlen(s) = n
  BY LengthIs DEF StringOf
<1> DEFINE Stops == { i \in DOMAIN s : s[i] = NUL \/ i >= (n + 1) - 1 }
<1>2. Stops \in SUBSET Nat /\ n \in Stops /\ \A i \in Stops : n <= i
  BY <1>1 DEF StringOf
<1> HIDE DEF Stops
<1>3. Min(Stops) = n
  BY <1>2, MinUnique
<1>4. Strlcpy(Fresh, s, n + 1) = [str |-> Fill(Fresh, 0, s, 0, n), value |-> n]
  <2>1. n + 1 # 0
    BY <1>1
  <2> QED
    BY <1>1, <1>3, <2>1 DEF Strlcpy, Stops
<1>5. Strdup(s) = Block(n - 0 + 1, Fill(Fresh, 0, s, 0, n))
  <2>1. ~(n >= n + 1) /\ n - 0 + 1 = n + 1
    BY <1>1
  <2> QED
    BY <1>1, <1>4, <2>1 DEF Strdup
<1>6. \A i \in 0 .. n - 1 : s[i] # NUL
  BY DEF StringOf
<1> QED
  BY <1>1, <1>5, <1>6, FreshBlock DEF Text

LEMMA StrmapiMakes ==
  ASSUME NEW s, NEW n, StringOf(s, n), \A i \in 0 .. n - 1 : s[i] \in Nat
  PROVE  MadeOf(Strmapi(s), [ i \in 1 .. n |-> F(i - 1, s[i - 1]) ])
<1>1. n \in Nat /\ Strlen(s) = n /\ DOMAIN s = 0 .. n
  BY LengthIs DEF StringOf
<1> DEFINE t == [ i \in DOMAIN s |-> F(i, s[i]) ]
<1>2. \A i \in 0 .. n - 1 : t[i] # NUL
  BY <1>1 DEF F, NUL
<1>3. Piece(t, 0, n) = [ i \in 1 .. n |-> F(i - 1, s[i - 1]) ]
  <2>1. \A i \in 1 .. n : 0 + i - 1 \in 0 .. n /\ 0 + i - 1 = i - 1
    BY <1>1
  <2> QED
    BY <1>1, <2>1 DEF Piece
<1> HIDE DEF t
<1>4. MadeOf(Block(n - 0 + 1, Fill(Fresh, 0, t, 0, n)), Piece(t, 0, n))
  BY <1>1, <1>2, FreshBlock
<1>5. n - 0 + 1 = n + 1
  BY <1>1
<1> QED
  BY <1>1, <1>3, <1>4, <1>5 DEF Strmapi, t

LEMMA StrjoinMakes ==
  ASSUME NEW s, NEW n, StringOf(s, n), NEW t, NEW k, StringOf(t, k)
  PROVE  MadeOf(Strjoin(s, t), Text(s) \o Text(t))
<1>1. n \in Nat /\ Strlen(s) = n /\ k \in Nat /\ Strlen(t) = k
  BY LengthIs DEF StringOf
<1> DEFINE f == Fill(Fresh, 0, s, 0, n)
           g == Fill(f, n, t, 0, k)
<1>2. StringOf(f, n) /\ Text(f) = Text(s)
  <2>1. \A i \in 0 .. n - 1 : s[i] # NUL
    BY DEF StringOf
  <2>2. StringOf(f, n - 0) /\ Text(f) = Piece(s, 0, n)
    BY <1>1, <2>1, FillFresh
  <2> HIDE DEF f
  <2> QED
    BY <1>1, <2>2 DEF Text
<1>3. \A i \in 0 .. n - 1 : f[i] = s[i]
  <2>1. f = [ i \in {} \cup 0 .. 0 + (n - 0) |->
               IF i = 0 + (n - 0) THEN NUL ELSE IF 0 <= i /\ i < 0 + (n - 0) THEN s[i - 0 + 0] ELSE Fresh[i] ]
    BY DEF Fill, Fresh
  <2> HIDE DEF f
  <2> QED
    BY <1>1, <2>1
<1> HIDE DEF f
<1>4. g = [ i \in 0 .. n + k |-> IF i = n + k THEN NUL ELSE IF i < n THEN s[i] ELSE t[i - n] ]
  <2>1. g = [ i \in DOMAIN f \cup n .. n + (k - 0) |->
               IF i = n + (k - 0) THEN NUL ELSE IF n <= i /\ i < n + (k - 0) THEN t[i - n + 0] ELSE f[i] ]
    BY DEF Fill
  <2>2. DOMAIN f \cup n .. n + (k - 0) = 0 .. n + k
    BY <1>1, <1>2 DEF StringOf
  <2>3. ASSUME NEW i \in 0 .. n + k
        PROVE  (IF i = n + (k - 0) THEN NUL ELSE IF n <= i /\ i < n + (k - 0) THEN t[i - n + 0] ELSE f[i])
                 = IF i = n + k THEN NUL ELSE IF i < n THEN s[i] ELSE t[i - n]
    <3>1. n + (k - 0) = n + k /\ i - n + 0 = i - n
      BY <1>1
    <3>2. CASE i < n
      BY <1>1, <1>3, <3>1, <3>2
    <3>3. CASE n <= i
      BY <1>1, <3>1, <3>3
    <3> QED
      BY <1>1, <3>2, <3>3
  <2> HIDE DEF g
  <2> QED
    BY <2>1, <2>2, <2>3
<1> HIDE DEF g
<1>5. StringOf(g, n + k)
  BY <1>1, <1>4 DEF StringOf
<1>6. Strlen(g) = n + k /\ DOMAIN g = 0 .. n + k /\ n + k \in Nat
  BY <1>1, <1>4, <1>5, LengthIs
<1>7. /\ Text(s) = [ i \in 1 .. n |-> s[i - 1] ] /\ Text(t) = [ i \in 1 .. k |-> t[i - 1] ]
      /\ Text(g) = [ i \in 1 .. n + k |-> g[i - 1] ]
  BY <1>1, <1>6 DEF Text, Piece
<1>8. Text(g) = Text(s) \o Text(t)
  <2>1. /\ Len(Text(s)) = n /\ Len(Text(t)) = k
        /\ Text(s) \o Text(t) =
             [ i \in 1 .. n + k |-> IF i <= n THEN Text(s)[i] ELSE Text(t)[i - n] ]
    BY <1>1, <1>7
  <2>2. ASSUME NEW i \in 1 .. n + k
        PROVE  g[i - 1] = IF i <= n THEN Text(s)[i] ELSE Text(t)[i - n]
    <3>1. i - 1 \in 0 .. n + k /\ i - 1 # n + k
      BY <1>1
    <3>2. CASE i <= n
      BY <1>1, <1>4, <1>7, <3>1, <3>2
    <3>3. CASE n < i
      <4>1. i - n \in 1 .. k /\ (i - n) - 1 = (i - 1) - n /\ ~(i - 1 < n) /\ ~(i <= n)
        BY <1>1, <3>3
      <4> QED
        BY <1>4, <1>7, <3>1, <4>1
    <3> QED
      BY <1>1, <3>2, <3>3
  <2> QED
    BY <1>7, <2>1, <2>2
<1>9. Strjoin(s, t) = Block(n + k + 1, g)
  BY <1>1 DEF Strjoin, f, g
<1> QED
  BY <1>1, <1>6, <1>8, <1>9 DEF MadeOf, Block

LEMMA MinTwo ==
  ASSUME NEW x \in Nat, NEW y \in Nat
  PROVE  Min({x, y}) = IF x <= y THEN x ELSE y
<1>1. {x, y} \in SUBSET Nat
  OBVIOUS
<1>2. CASE x <= y
  BY <1>1, <1>2, MinUnique
<1>3. CASE y < x
  <2>1. Min({x, y}) = y
    BY <1>1, <1>3, MinUnique
  <2> QED
    BY <1>3, <2>1
<1> QED
  BY <1>2, <1>3

\* A piece of a text, both ways to say it.
LEMMA SubText ==
  ASSUME NEW s, NEW n, StringOf(s, n), NEW a \in Nat, NEW b \in 0 .. n
  PROVE  SubSeq(Text(s), a + 1, b) = Piece(s, a, b)
<1>1. n \in Nat /\ Strlen(s) = n
  BY LengthIs DEF StringOf
<1>2. Text(s) = [ i \in 1 .. n |-> s[i - 1] ] /\ Len(Text(s)) = n
  BY <1>1 DEF Text, Piece
<1>3. SubSeq(Text(s), a + 1, b) = [ i \in 1 .. b - a |-> Text(s)[i + (a + 1) - 1] ]
  BY <1>1, <1>2
<1>4. ASSUME NEW i \in 1 .. b - a PROVE Text(s)[i + (a + 1) - 1] = s[a + i - 1]
  <2>1. i + (a + 1) - 1 \in 1 .. n /\ i + (a + 1) - 1 - 1 = a + i - 1
    BY <1>1
  <2> QED
    BY <1>2, <2>1
<1> QED
  BY <1>3, <1>4 DEF Piece

LEMMA SubstrMakes ==
  ASSUME NEW s, NEW n, StringOf(s, n), NEW start \in Nat, NEW len \in Nat
  PROVE  MadeOf(Substr(s, start, len), SubSeq(Text(s), start + 1, Min({n, start + len})))
<1>1. n \in Nat /\ Strlen(s) = n /\ DOMAIN s = 0 .. n /\ s[n] = NUL
  BY LengthIs DEF StringOf
<1> DEFINE to == IF n <= start + len THEN n ELSE start + len
<1>2. Min({n, start + len}) = to /\ to \in 0 .. n
  BY <1>1, MinTwo
<1>3. SubSeq(Text(s), start + 1, to) = Piece(s, start, to)
  BY <1>2, SubText
<1>4. CASE n < start
  <2> DEFINE e == [ i \in {0} |-> NUL ]
  <2>1. StringOf(e, 0)
    BY DEF StringOf
  <2>2. Strlen(e) = 0
    BY <2>1, LengthIs
  <2>3. Text(e) = <<>> /\ Piece(s, start, to) = <<>>
    BY <1>1, <1>2, <1>4, <2>2 DEF Text, Piece
  <2>4. MadeOf(Strdup(e), Text(e))
    BY <2>1, StrdupMakes
  <2> QED
    BY <1>1, <1>2, <1>3, <1>4, <2>3, <2>4 DEF Substr
<1>5. CASE start <= n
  <2> DEFINE Stops == { i \in start .. n : s[i] = NUL \/ i - start >= len }
  <2>1. Stops \in SUBSET Nat /\ to \in Stops
    BY <1>1, <1>5
  <2>2. \A i \in Stops : to <= i
    BY <1>1, <1>5 DEF StringOf
  <2> HIDE DEF Stops
  <2>3. Min(Stops) = to
    BY <2>1, <2>2, MinUnique
  <2>4. Min({n - start, len}) = to - start /\ start <= to /\ to \in Nat
    <3>1. n - start \in Nat
      BY <1>1, <1>5
    <3> QED
      BY <1>1, <1>5, <3>1, MinTwo
  <2>5. ~(n < start)
    BY <1>1, <1>5
  <2>6. Substr(s, start, len) = Block(to - start + 1, Fill(Fresh, 0, s, start, to))
    BY <1>1, <2>3, <2>4, <2>5 DEF Substr, Stops
  <2>7. \A i \in start .. to - 1 : s[i] # NUL
    BY <1>1, <1>2 DEF StringOf
  <2> HIDE DEF to
  <2> QED
    BY <1>2, <1>3, <2>4, <2>6, <2>7, FreshBlock
<1> QED
  BY <1>1, <1>4, <1>5

LEMMA StrchrNone ==
  ASSUME NEW t, NEW k, StringOf(t, k), NEW c, c # NUL
  PROVE  Strchr(t, c) = Nowhere <=> c \notin Range(Text(t))
<1>1. k \in Nat /\ Strlen(t) = k /\ t[k] = NUL
  BY LengthIs DEF StringOf
<1> DEFINE at == { i \in 0 .. k : t[i] = c }
<1>2. at # {} => Min(at) \in at
  <2>1. at \in SUBSET Nat
    OBVIOUS
  <2> HIDE DEF at
  <2> QED
    BY <2>1, MinIs
<1>3. at = {} <=> Strchr(t, c) = Nowhere
  BY <1>1, <1>2 DEF Strchr, Nowhere
<1>4. Text(t) = [ i \in 1 .. k |-> t[i - 1] ]
  BY <1>1 DEF Text, Piece
<1>5. ASSUME NEW i \in at PROVE c \in Range(Text(t))
  <2>1. i + 1 \in 1 .. k /\ (i + 1) - 1 = i
    BY <1>1
  <2> QED
    BY <1>4, <2>1 DEF Range
<1>6. ASSUME c \in Range(Text(t)) PROVE at # {}
  <2>1. PICK i \in 1 .. k : t[i - 1] = c
    BY <1>4, <1>6 DEF Range
  <2>2. i - 1 \in 0 .. k
    BY <1>1
  <2> QED
    BY <2>1, <2>2
<1> QED
  BY <1>3, <1>5, <1>6

\* The pieces outside of which there are characters of the set only.
TrimCuts(s, t, n) ==
  { p \in (0 .. n) \X (0 .. n) :
      /\ p[1] <= p[2]
      /\ \A i \in 0 .. n - 1 : i < p[1] \/ i >= p[2] => s[i] \in Range(Text(t)) }

TrimsTo(s, t, n, p) ==
  /\ p \in TrimCuts(s, t, n)
  /\ MadeOf(Strtrim(s, t), Piece(s, p[1], p[2]))
  /\ \A q \in TrimCuts(s, t, n) : p[2] - p[1] <= q[2] - q[1]

LEMMA StrtrimMakes ==
  ASSUME NEW s, NEW n, StringOf(s, n), NEW t, NEW k, StringOf(t, k)
  PROVE  \E p \in (0 .. n) \X (0 .. n) : TrimsTo(s, t, n, p)
<1>1. /\ n \in Nat /\ Strlen(s) = n /\ DOMAIN s = 0 .. n /\ s[n] = NUL /\ k \in Nat /\ Strlen(t) = k
      /\ \A i \in 0 .. n - 1 : s[i] # NUL
  BY LengthIs DEF StringOf
<1>2. CASE k = 0 \/ n = 0
  <2>1. MadeOf(Strtrim(s, t), Piece(s, 0, n))
    <3>1. Strtrim(s, t) = Strdup(s)
      BY <1>1, <1>2 DEF Strtrim
    <3> QED
      BY <1>1, <3>1, StrdupMakes DEF Text
  <2>2. ASSUME NEW q \in TrimCuts(s, t, n) PROVE n - 0 <= q[2] - q[1]
    <3>1. q[1] \in 0 .. n /\ q[2] \in 0 .. n /\ q[1] <= q[2]
      BY DEF TrimCuts
    <3>2. CASE n = 0
      BY <3>1, <3>2
    <3>3. CASE n # 0 /\ k = 0
      <4>1. Range(Text(t)) = {}
        BY <1>1, <3>3 DEF Range, Text, Piece
      <4>2. ~(0 < q[1]) /\ ~(n - 1 >= q[2])
        <5>1. 0 \in 0 .. n - 1 /\ n - 1 \in 0 .. n - 1
          BY <1>1, <3>3
        <5> QED
          BY <4>1, <5>1 DEF TrimCuts
      <4> QED
        BY <1>1, <3>1, <4>2
    <3> QED
      BY <1>2, <3>2, <3>3
  <2>3. <<0, n>> \in TrimCuts(s, t, n)
    BY <1>1 DEF TrimCuts
  <2>4. TrimsTo(s, t, n, <<0, n>>)
    BY <2>1, <2>2, <2>3 DEF TrimsTo
  <2> QED
    BY <2>3, <2>4 DEF TrimCuts
<1>3. CASE k # 0 /\ n # 0
  <2> DEFINE In(x) == s[x] \in Range(Text(t))
             Heads == { x \in DOMAIN s : s[x] = NUL \/ Strchr(t, s[x]) = Nowhere }
             i == Min(Heads)
             Tails == { x \in 0 .. n - 1 : x <= i \/ Strchr(t, s[x]) = Nowhere }
             j == Max(Tails)
  <2>1. \A x \in 0 .. n - 1 : Strchr(t, s[x]) = Nowhere <=> ~In(x)
    BY <1>1, StrchrNone
  <2>2. i \in Heads /\ \A x \in Heads : i <= x
    <3>1. Heads \in SUBSET Nat /\ n \in Heads
      BY <1>1
    <3> HIDE DEF Heads
    <3> QED
      BY <3>1, MinIs
  <2>3. i \in 0 .. n /\ \A x \in 0 .. n - 1 : x < i => In(x)
    <3>1. i \in 0 .. n
      BY <1>1, <2>2
    <3> HIDE DEF i
    <3>2. ASSUME NEW x \in 0 .. n - 1, x < i PROVE In(x)
      <4>1. x \notin Heads
        <5> HIDE DEF Heads
        <5> QED
          BY <1>1, <2>2, <3>1, <3>2
      <4> QED
        BY <1>1, <2>1, <4>1
    <3> QED
      BY <3>1, <3>2
  <2>4. i = n \/ (i \in 0 .. n - 1 /\ ~In(i))
    BY <1>1, <2>1, <2>2
  <2> HIDE DEF i
  <2>5. j \in Tails /\ \A x \in Tails : x <= j
    <3>1. 0 \in Tails /\ \A x \in Tails : x \in Int /\ x <= n - 1
      BY <1>1, <1>3, <2>3
    <3>2. n - 1 \in Int
      BY <1>1
    <3> HIDE DEF Tails
    <3> QED
      BY <3>1, <3>2, MaxIs DEF MaxUpTo
  <2>6. j \in 0 .. n - 1 /\ \A x \in 0 .. n - 1 : x > j => In(x)
    <3>1. \A x \in 0 .. n - 1 : x > j => x \notin Tails
      BY <1>1, <2>5
    <3> HIDE DEF j
    <3> QED
      BY <1>1, <2>1, <2>5, <3>1
  <2>7. j <= i \/ ~In(j)
    BY <2>1, <2>5
  <2>8. i <= j + 1 /\ (i = n => j + 1 = n)
    <3>1. i \in 0 .. n - 1 => i \in Tails
      BY <2>3
    <3>2. i = n => n - 1 \in Tails
      BY <1>1, <1>3, <2>3
    <3> HIDE DEF j, Tails
    <3> QED
      BY <1>1, <2>3, <2>4, <2>5, <2>6, <3>1, <3>2
  <2>9. Max({i, j + 1}) = j + 1
    <3> HIDE DEF j
    <3>1. j + 1 \in {i, j + 1} /\ j + 1 \in Int
      BY <2>6
    <3>2. \A y \in {i, j + 1} : y \in Int /\ y <= j + 1
      BY <2>3, <2>6, <2>8
    <3> QED
      BY <3>1, <3>2, MaxUnique
  <2>10. Strtrim(s, t) = Block(j - i + 2, Fill(Fresh, 0, s, i, j + 1))
    BY <1>1, <1>3, <2>9 DEF Strtrim, i
  <2> HIDE DEF j
  <2>11. j - i + 2 = (j + 1) - i + 1 /\ i \in Nat /\ j + 1 \in 0 .. n
    BY <1>1, <2>3, <2>6
  <2>12. MadeOf(Strtrim(s, t), Piece(s, i, j + 1))
    <3>1. \A x \in i .. (j + 1) - 1 : s[x] # NUL
      BY <1>1, <2>3, <2>6
    <3> QED
      BY <2>8, <2>10, <2>11, <3>1, FreshBlock
  <2>13. <<i, j + 1>> \in TrimCuts(s, t, n)
    BY <1>1, <2>3, <2>6, <2>8, <2>11 DEF TrimCuts
  <2>14. ASSUME NEW q \in TrimCuts(s, t, n) PROVE (j + 1) - i <= q[2] - q[1]
    <3>1. /\ q[1] \in 0 .. n /\ q[2] \in 0 .. n /\ q[1] <= q[2]
          /\ \A x \in 0 .. n - 1 : x < q[1] \/ x >= q[2] => In(x)
      BY DEF TrimCuts
    <3>2. CASE i = n
      BY <1>1, <2>8, <3>1, <3>2
    <3>3. CASE i \in 0 .. n - 1 /\ ~In(i)
      <4>1. q[1] <= i /\ i < q[2]
        BY <1>1, <3>1, <3>3
      <4>2. j < q[2]
        BY <1>1, <2>6, <2>7, <3>1, <3>3, <4>1
      <4> QED
        BY <1>1, <2>6, <3>1, <3>3, <4>1, <4>2
    <3> QED
      BY <2>4, <3>2, <3>3
  <2>15. TrimsTo(s, t, n, <<i, j + 1>>)
    BY <2>12, <2>13, <2>14 DEF TrimsTo
  <2> QED
    BY <2>13, <2>15 DEF TrimCuts
<1> QED
  BY <1>2, <1>3
-----------------------------------------------------------------------------
\* A buffer that holds a string of length n, and may be larger.
Reads(f, n) ==
  /\ n \in Nat /\ DOMAIN f \subseteq Nat /\ 0 .. n \subseteq DOMAIN f /\ f[n] = NUL
  /\ \A i \in 0 .. n - 1 : f[i] # NUL

LEMMA ReadLength ==
  ASSUME NEW f, NEW n, Reads(f, n)
  PROVE  Strlen(f) = n
<1> DEFINE Ends == { i \in DOMAIN f : f[i] = NUL }
<1>1. Ends \in SUBSET Nat /\ n \in Ends /\ n \in Nat
  BY DEF Reads
<1>2. \A i \in Ends : n <= i
  BY DEF Reads
<1> HIDE DEF Ends
<1>3. Min(Ends) = n
  BY <1>1, <1>2, MinUnique
<1> QED
  BY <1>3 DEF Strlen, Ends

\* What Fill stores behind the first at characters of a buffer.
LEMMA FillWithin ==
  ASSUME NEW d, DOMAIN d \subseteq Nat, NEW at \in Nat, NEW s, NEW stop \in Nat,
         0 .. at + stop \subseteq DOMAIN d,
         \A i \in 0 .. at - 1 : d[i] # NUL, \A i \in 0 .. stop - 1 : s[i] # NUL
  PROVE  /\ DOMAIN Fill(d, at, s, 0, stop) = DOMAIN d
         /\ \A i \in DOMAIN d : i > at + stop => Fill(d, at, s, 0, stop)[i] = d[i]
         /\ Fill(d, at, s, 0, stop)[at + stop] = NUL
         /\ Text(Fill(d, at, s, 0, stop)) =
              [ x \in 1 .. at + stop |-> IF x <= at THEN d[x - 1] ELSE s[x - 1 - at] ]
<1> DEFINE f == Fill(d, at, s, 0, stop)
           Stored(i) == IF i = at + stop THEN NUL
                        ELSE IF at <= i /\ i < at + stop THEN s[i - at] ELSE d[i]
<1>1. f = [ i \in DOMAIN d |-> Stored(i) ]
  <2>1. f = [ i \in DOMAIN d \cup at .. at + (stop - 0) |->
               IF i = at + (stop - 0) THEN NUL
               ELSE IF at <= i /\ i < at + (stop - 0) THEN s[i - at + 0] ELSE d[i] ]
    BY DEF Fill
  <2>2. DOMAIN d \cup at .. at + (stop - 0) = DOMAIN d /\ at + (stop - 0) = at + stop
    OBVIOUS
  <2>3. \A i \in DOMAIN d : i - at + 0 = i - at
    OBVIOUS
  <2> HIDE DEF f
  <2> QED
    BY <2>1, <2>2, <2>3
<1> HIDE DEF f
<1>2. \A i \in 0 .. at + stop - 1 : f[i] = (IF i < at THEN d[i] ELSE s[i - at]) /\ f[i] # NUL
  <2> SUFFICES ASSUME NEW i \in 0 .. at + stop - 1
               PROVE  f[i] = (IF i < at THEN d[i] ELSE s[i - at]) /\ f[i] # NUL
    OBVIOUS
  <2>1. i \in DOMAIN d /\ i # at + stop
    OBVIOUS
  <2>2. CASE i < at
    BY <1>1, <2>1, <2>2
  <2>3. CASE at <= i
    <3>1. i - at \in 0 .. stop - 1
      BY <2>3
    <3> QED
      BY <1>1, <2>1, <2>3, <3>1
  <2> QED
    BY <2>2, <2>3
<1>3. f[at + stop] = NUL /\ at + stop \in Nat
  BY <1>1
<1>4. Strlen(f) = at + stop
  <2>1. Reads(f, at + stop)
    BY <1>1, <1>2, <1>3 DEF Reads
  <2> QED
    BY <2>1, ReadLength
<1>5. Text(f) = [ x \in 1 .. at + stop |-> IF x <= at THEN d[x - 1] ELSE s[x - 1 - at] ]
  <2>1. Text(f) = [ x \in 1 .. at + stop |-> f[x - 1] ]
    BY <1>4 DEF Text, Piece
  <2>2. \A x \in 1 .. at + stop : f[x - 1] = IF x <= at THEN d[x - 1] ELSE s[x - 1 - at]
    <3> SUFFICES ASSUME NEW x \in 1 .. at + stop
                 PROVE  f[x - 1] = IF x <= at THEN d[x - 1] ELSE s[x - 1 - at]
      OBVIOUS
    <3>1. x - 1 \in 0 .. at + stop - 1 /\ (x <= at <=> x - 1 < at)
      OBVIOUS
    <3> QED
      BY <1>2, <3>1
  <2> QED
    BY <2>1, <2>2
<1>6. \A i \in DOMAIN d : i > at + stop => f[i] = d[i]
  BY <1>1
<1> QED
  BY <1>1, <1>3, <1>5, <1>6 DEF f

\* The part of CutsTell that speaks of one call, for the text that was there.
Tells(old, d, s, n, r) ==
  LET all == old \o Text(s)
      kept == Min({Len(all), Max({Len(old), n - 1})})
  IN  /\ n > 0 /\ n >= Len(old) =>
           Text(r.str) = SubSeq(all, 1, kept) /\ r.value = Len(all)
      /\ DOMAIN r.str = DOMAIN d
      /\ \A i \in DOMAIN d : i >= n => r.str[i] = d[i]
      /\ n < Len(old) \/ n = 0 => r.str = d /\ r.value >= n

LEMMA MaxTwo ==
  ASSUME NEW x \in Int, NEW y \in Int
  PROVE  Max({x, y}) = IF x <= y THEN y ELSE x
<1>1. CASE x <= y
  <2>1. Max({x, y}) = y
    BY <1>1, MaxUnique
  <2> QED
    BY <1>1, <2>1
<1>2. CASE y < x
  <2>1. Max({x, y}) = x
    BY <1>2, MaxUnique
  <2> QED
    BY <1>2, <2>1
<1> QED
  BY <1>1, <1>2

\* As much of s as there is room for, behind the first at characters of d.
LEMMA FillTells ==
  ASSUME NEW d, DOMAIN d \subseteq Nat, NEW at \in Nat, NEW s, NEW L, StringOf(s, L),
         NEW n \in Nat, n > 0, n >= at, 0 .. at \subseteq DOMAIN d, 0 .. n - 1 \subseteq DOMAIN d,
         n = at => d[at] = NUL,
         \A i \in 0 .. at - 1 : d[i] # NUL,
         NEW old, old = [ x \in 1 .. at |-> d[x - 1] ]
  PROVE  Tells(old, d, s, n,
               [ str |-> Fill(d, at, s, 0,
                              Min({ k \in DOMAIN s : s[k] = NUL \/ at + k >= n - 1 })),
                 value |-> at + L ])
<1>1. L \in Nat /\ Strlen(s) = L /\ DOMAIN s = 0 .. L /\ s[L] = NUL /\ \A i \in 0 .. L - 1 : s[i] # NUL
  BY LengthIs DEF StringOf
<1> DEFINE Stops == { k \in DOMAIN s : s[k] = NUL \/ at + k >= n - 1 }
           room == IF n - 1 <= at THEN 0 ELSE n - 1 - at
           stop == IF L <= room THEN L ELSE room
<1>2. stop \in 0 .. L /\ (stop # L => at + stop >= n - 1) /\ (at + stop <= n - 1 \/ (n = at /\ stop = 0))
      /\ \A k \in Nat : at + k >= n - 1 => room <= k
  BY <1>1
<1>3. Stops \in SUBSET Nat /\ stop \in Stops /\ \A k \in Stops : stop <= k
  <2> HIDE DEF stop, room
  <2>1. \A k \in Stops : k \in 0 .. L /\ (k = L \/ room <= k)
    BY <1>1, <1>2
  <2> QED
    BY <1>1, <1>2, <2>1 DEF stop
<1>4. Min(Stops) = stop
  <2> HIDE DEF Stops, stop
  <2> QED
    BY <1>3, MinUnique
<1> HIDE DEF stop, room
<1> DEFINE f == Fill(d, at, s, 0, stop)
           all == old \o Text(s)
<1>5. /\ DOMAIN f = DOMAIN d /\ f[at + stop] = NUL
      /\ \A i \in DOMAIN d : i > at + stop => f[i] = d[i]
      /\ Text(f) = [ x \in 1 .. at + stop |-> IF x <= at THEN d[x - 1] ELSE s[x - 1 - at] ]
  <2>1. 0 .. at + stop \subseteq DOMAIN d
    BY <1>2
  <2>2. stop \in Nat /\ \A i \in 0 .. stop - 1 : s[i] # NUL
    BY <1>1, <1>2
  <2>3. at \in Nat /\ DOMAIN d \subseteq Nat /\ \A i \in 0 .. at - 1 : d[i] # NUL
    OBVIOUS
  <2> QED
    BY ONLY <2>1, <2>2, <2>3, FillWithin
<1> HIDE DEF f
<1>6. ASSUME NEW i \in DOMAIN d, i >= n PROVE f[i] = d[i]
  <2>1. i > at + stop \/ (n = at /\ stop = 0 /\ i = at)
    BY <1>2, <1>6
  <2> QED
    BY <1>5, <2>1
<1>7. /\ Len(old) = at /\ Len(all) = at + L
      /\ all = [ x \in 1 .. at + L |-> IF x <= at THEN d[x - 1] ELSE s[x - 1 - at] ]
  <2>1. Text(s) = [ x \in 1 .. L |-> s[x - 1] ]
    BY <1>1 DEF Text, Piece
  <2>2. Len(old) = at /\ Len(Text(s)) = L
    BY <1>1, <2>1
  <2>3. all = [ x \in 1 .. at + L |-> IF x <= at THEN old[x] ELSE Text(s)[x - at] ]
    BY <1>1, <2>1, <2>2
  <2>4. ASSUME NEW x \in 1 .. at + L
        PROVE  (IF x <= at THEN old[x] ELSE Text(s)[x - at]) = IF x <= at THEN d[x - 1] ELSE s[x - 1 - at]
    <3>1. CASE x <= at
      BY <3>1
    <3>2. CASE x > at
      <4>1. x - at \in 1 .. L /\ (x - at) - 1 = x - 1 - at
        BY <1>1, <3>2
      <4> QED
        BY <2>1, <3>2, <4>1
    <3> QED
      BY <1>1, <3>1, <3>2
  <2> HIDE DEF all
  <2>5. Len(all) = at + L
    BY <1>1, <2>3
  <2> QED
    BY <2>2, <2>3, <2>4, <2>5
<1> HIDE DEF all
<1>8. Min({Len(all), Max({Len(old), n - 1})}) = at + stop
  <2>1. Max({at, n - 1}) = IF at <= n - 1 THEN n - 1 ELSE at
    BY MaxTwo
  <2>2. at + room = (IF at <= n - 1 THEN n - 1 ELSE at) /\ at + room \in Nat /\ at + L \in Nat
    BY <1>1 DEF room
  <2>3. Min({at + L, at + room}) = IF at + L <= at + room THEN at + L ELSE at + room
    BY <2>2, MinTwo
  <2>4. Max({Len(old), n - 1}) = at + room /\ Len(all) = at + L
    BY <1>7, <2>1, <2>2
  <2>5. room \in Nat
    BY DEF room
  <2>6. (IF at + L <= at + room THEN at + L ELSE at + room) = at + stop
    BY <1>1, <2>5 DEF stop
  <2> QED
    BY <2>3, <2>4, <2>6
<1>9. Text(f) = SubSeq(all, 1, at + stop)
  <2>1. SubSeq(all, 1, at + stop) = [ x \in 1 .. at + stop |-> all[x] ]
    BY <1>1, <1>2, <1>7
  <2>2. \A x \in 1 .. at + stop : x \in 1 .. at + L
    BY <1>1, <1>2
  <2> QED
    BY <1>5, <1>7, <2>1, <2>2
<1>10. ~(n < Len(old)) /\ n # 0
  BY <1>7
<1> QED
  BY <1>4, <1>5, <1>6, <1>7, <1>8, <1>9, <1>10 DEF Tells, f, all

LEMMA StrlcpyTells ==
  ASSUME NEW d, NEW k, StringOf(d, k), NEW s, NEW L, StringOf(s, L), NEW n \in 0 .. k + 1
  PROVE  Tells(<<>>, d, s, n, Strlcpy(d, s, n))
<1>1. /\ L \in Nat /\ Strlen(s) = L /\ k \in Nat /\ DOMAIN d = 0 .. k
      /\ Text(s) = [ x \in 1 .. L |-> s[x - 1] ]
  BY LengthIs DEF StringOf, Text, Piece
<1>2. CASE n = 0
  BY <1>1, <1>2 DEF Strlcpy, Tells
<1>3. CASE n # 0
  <2>1. PICK at, old : at \in Nat /\ at = 0 /\ old = <<>>
    OBVIOUS
  <2>2. /\ DOMAIN d \subseteq Nat /\ n > 0 /\ n >= at /\ 0 .. at \subseteq DOMAIN d
        /\ 0 .. n - 1 \subseteq DOMAIN d /\ (n = at => d[at] = NUL) /\ n \in Nat /\ at \in Nat
        /\ \A i \in 0 .. at - 1 : d[i] # NUL
    BY <1>1, <1>3, <2>1
  <2>3. StringOf(s, L) /\ old = [ x \in 1 .. at |-> d[x - 1] ]
    BY <2>1
  <2> DEFINE Stops == { i \in DOMAIN s : s[i] = NUL \/ at + i >= n - 1 }
  <2>4. Tells(old, d, s, n, [str |-> Fill(d, at, s, 0, Min(Stops)), value |-> at + L])
    BY ONLY <2>2, <2>3, FillTells
  <2>5. Stops = { i \in DOMAIN s : s[i] = NUL \/ i >= n - 1 }
    <3>1. \A i \in DOMAIN s : at + i = i
      BY <2>1 DEF StringOf
    <3> QED
      BY <3>1
  <2> HIDE DEF Stops
  <2>6. Strlcpy(d, s, n) = [str |-> Fill(d, at, s, 0, Min(Stops)), value |-> at + L]
    BY <1>1, <1>3, <2>1, <2>5 DEF Strlcpy
  <2> QED
    BY <2>1, <2>4, <2>6
<1> QED
  BY <1>2, <1>3

LEMMA StrlcatTells ==
  ASSUME NEW d, NEW k, Reads(d, k), NEW s, NEW L, StringOf(s, L),
         NEW n \in Nat, 0 .. n - 1 \subseteq DOMAIN d
  PROVE  Tells(Text(d), d, s, n, Strlcat(d, s, n))
<1>1. /\ L \in Nat /\ Strlen(s) = L /\ k \in Nat /\ Strlen(d) = k
      /\ Text(s) = [ x \in 1 .. L |-> s[x - 1] ] /\ Text(d) = [ x \in 1 .. k |-> d[x - 1] ]
      /\ Len(Text(d)) = k
  BY LengthIs, ReadLength DEF StringOf, Reads, Text, Piece
<1>2. CASE n = 0 \/ n < k
  BY <1>1, <1>2 DEF Strlcat, Tells
<1>3. CASE n # 0 /\ n >= k
  <2> DEFINE stop == Min({ i \in DOMAIN s : s[i] = NUL \/ k + i >= n - 1 })
  <2>1. Tells(Text(d), d, s, n, [str |-> Fill(d, k, s, 0, stop), value |-> k + L])
    <3>1. /\ DOMAIN d \subseteq Nat /\ n > 0 /\ n >= k /\ 0 .. k \subseteq DOMAIN d /\ d[k] = NUL
          /\ 0 .. n - 1 \subseteq DOMAIN d /\ k \in Nat /\ n \in Nat
          /\ (\A i \in 0 .. k - 1 : d[i] # NUL) /\ Text(d) = [ x \in 1 .. k |-> d[x - 1] ]
      BY <1>1, <1>3 DEF Reads
    <3>2. StringOf(s, L)
      OBVIOUS
    <3> QED
      BY ONLY <3>1, <3>2, FillTells
  <2> QED
    BY <1>1, <1>3, <2>1 DEF Strlcat
<1> QED
  BY <1>1, <1>2, <1>3

\* The caller's buffer that ft_strlcat is given.
LEMMA BufferReads ==
  ASSUME NEW d \in Strings, NEW n \in Nat
  PROVE  Reads(Buffer(d, n), Strlen(d)) /\ 0 .. n - 1 \subseteq DOMAIN Buffer(d, n)
<1>1. StringOf(d, Strlen(d)) /\ \A i \in 0 .. Strlen(d) : i \in DOMAIN d
  BY StringsAre DEF StringOf
<1>2. DOMAIN Buffer(d, n) = DOMAIN d \cup 0 .. n - 1 /\ \A i \in DOMAIN d : Buffer(d, n)[i] = d[i]
  BY DEF Buffer
<1> QED
  BY <1>1, <1>2 DEF Reads, StringOf

-----------------------------------------------------------------------------
\* Texts and their pieces.
LEMMA PieceIs ==
  ASSUME NEW s, NEW n \in Nat
  PROVE  /\ Piece(s, 0, n) = [ i \in 1 .. n |-> s[i - 1] ] /\ Len(Piece(s, 0, n)) = n
         /\ \A i \in 0 .. n - 1 : Piece(s, 0, n)[i + 1] = s[i]
<1>1. Piece(s, 0, n) = [ i \in 1 .. n |-> s[i - 1] ]
  <2>1. n - 0 = n /\ \A i \in 1 .. n : 0 + i - 1 = i - 1
    OBVIOUS
  <2> QED
    BY <2>1 DEF Piece
<1>2. Len(Piece(s, 0, n)) = n
  BY <1>1
<1>3. ASSUME NEW i \in 0 .. n - 1 PROVE Piece(s, 0, n)[i + 1] = s[i]
  <2>1. i + 1 \in 1 .. n /\ (i + 1) - 1 = i
    OBVIOUS
  <2> QED
    BY <1>1, <2>1
<1> QED
  BY <1>1, <1>2, <1>3

LEMMA PiecesEqual ==
  ASSUME NEW s, NEW t, NEW n \in Nat, NEW k \in Nat
  PROVE  Piece(s, 0, n) = Piece(t, 0, k) <=> n = k /\ \A i \in 0 .. n - 1 : s[i] = t[i]
<1>1. ASSUME n = k, \A i \in 0 .. n - 1 : s[i] = t[i]
      PROVE  Piece(s, 0, n) = Piece(t, 0, k)
  <2>1. \A i \in 1 .. n : s[i - 1] = t[i - 1]
    <3>1. \A i \in 1 .. n : i - 1 \in 0 .. n - 1
      OBVIOUS
    <3> QED
      BY <1>1, <3>1
  <2> QED
    BY <1>1, <2>1, PieceIs
<1>2. ASSUME Piece(s, 0, n) = Piece(t, 0, k)
      PROVE  n = k /\ \A i \in 0 .. n - 1 : s[i] = t[i]
  <2>1. n = k
    BY <1>2, PieceIs
  <2> QED
    BY <1>2, <2>1, PieceIs
<1> QED
  BY <1>1, <1>2

Shorter(n, k) == IF n <= k THEN n ELSE k

\* ft_strncmp returns 0 for strings that are equal as far as n, and no others.
LEMMA StrncmpEqual ==
  ASSUME NEW s, NEW k, StringOf(s, k), NEW t, NEW l, StringOf(t, l), NEW n \in Nat,
         \A i \in 0 .. k : s[i] \in Int, \A i \in 0 .. l : t[i] \in Int
  PROVE  Strncmp(s, t, n) = 0 <=>
           /\ Shorter(n, k) = Shorter(n, l)
           /\ \A i \in 0 .. Shorter(n, k) - 1 : s[i] = t[i]
<1>1. /\ k \in Nat /\ DOMAIN s = 0 .. k /\ s[k] = NUL /\ \A i \in 0 .. k - 1 : s[i] # NUL
      /\ l \in Nat /\ DOMAIN t = 0 .. l /\ t[l] = NUL /\ \A i \in 0 .. l - 1 : t[i] # NUL
  BY DEF StringOf
<1> DEFINE Stops == { i \in DOMAIN s \cap DOMAIN t : i >= n \/ (s[i] = NUL /\ t[i] = NUL) \/ s[i] # t[i] }
           i == Min(Stops)
<1>2. Stops \in SUBSET Nat /\ Shorter(k, l) \in Stops
  BY <1>1 DEF Shorter
<1>3. i \in Stops /\ \A j \in Stops : i <= j
  <2> HIDE DEF Stops
  <2> QED
    BY <1>2, MinIs
<1>4. Strncmp(s, t, n) = IF i >= n THEN 0 ELSE s[i] - t[i]
  BY DEF Strncmp
<1> HIDE DEF i
<1>5. i \in 0 .. k /\ i \in 0 .. l
  BY <1>1, <1>3
<1>6. ASSUME NEW j \in 0 .. i - 1 PROVE j < n /\ s[j] = t[j]
  <2>1. j \notin Stops
    <3> HIDE DEF Stops
    <3> QED
      BY <1>3, <1>5
  <2> QED
    BY <1>1, <1>5, <2>1
<1>7. CASE i >= n
  <2>1. Shorter(n, k) = n /\ Shorter(n, l) = n
    BY <1>1, <1>5, <1>7 DEF Shorter
  <2>2. \A j \in 0 .. n - 1 : s[j] = t[j]
    BY <1>5, <1>6, <1>7
  <2> QED
    BY <1>4, <1>7, <2>1, <2>2
<1>8. CASE i < n /\ s[i] = t[i]
  <2>1. s[i] = NUL /\ t[i] = NUL
    BY <1>3, <1>5, <1>8
  <2>2. i = k /\ i = l
    BY <1>1, <1>5, <2>1
  <2>3. Shorter(n, k) = i /\ Shorter(n, l) = i
    BY <1>5, <1>8, <2>2 DEF Shorter
  <2>4. s[i] - t[i] = 0
    BY <2>1 DEF NUL
  <2> QED
    BY <1>4, <1>5, <1>6, <1>8, <2>3, <2>4
<1>9. CASE i < n /\ s[i] # t[i]
  <2>1. s[i] - t[i] # 0
    BY <1>5, <1>9
  <2>2. Strncmp(s, t, n) # 0
    BY <1>4, <1>5, <1>9, <2>1
  <2>3. ASSUME Shorter(n, k) = Shorter(n, l), \A j \in 0 .. Shorter(n, k) - 1 : s[j] = t[j]
        PROVE  FALSE
    <3>1. ~(i < Shorter(n, k))
      <4>1. Shorter(n, k) \in Nat
        BY <1>1 DEF Shorter
      <4>2. i < Shorter(n, k) => i \in 0 .. Shorter(n, k) - 1
        BY <1>5, <4>1
      <4> QED
        BY <1>9, <2>3, <4>2
    <3>2. k = l /\ i = k
      BY <1>1, <1>5, <1>9, <2>3, <3>1 DEF Shorter
    <3> QED
      BY <1>1, <1>9, <3>2
  <2> QED
    BY <2>2, <2>3
<1> QED
  BY <1>5, <1>7, <1>8, <1>9

Within(s, n) == SubSeq(Text(s), 1, Min({n, Strlen(s)}))
Hits(s, t, n) ==
  { i \in 0 .. Len(Within(s, n)) :
      IsPrefix(Text(t), SubSeq(Within(s, n), i + 1, Len(Within(s, n)))) }

LEMMA WithinIs ==
  ASSUME NEW s, NEW k, StringOf(s, k), NEW n \in Nat
  PROVE  Within(s, n) = Piece(s, 0, Shorter(n, k)) /\ Shorter(n, k) \in 0 .. k
<1>1. k \in Nat /\ Strlen(s) = k
  BY LengthIs DEF StringOf
<1>2. Min({n, k}) = Shorter(n, k) /\ Shorter(n, k) \in 0 .. k
  BY <1>1, MinTwo DEF Shorter
<1>3. SubSeq(Text(s), 0 + 1, Shorter(n, k)) = Piece(s, 0, Shorter(n, k))
  BY <1>2, SubText
<1>4. 0 + 1 = 1
  OBVIOUS
<1> QED
  BY <1>1, <1>2, <1>3, <1>4 DEF Within

LEMMA HitsAre ==
  ASSUME NEW s, NEW k, StringOf(s, k), NEW t, NEW l, StringOf(t, l), NEW n \in Nat, NEW i \in Nat
  PROVE  i \in Hits(s, t, n) <=>
           i + l <= Shorter(n, k) /\ \A x \in 0 .. l - 1 : s[i + x] = t[x]
<1> DEFINE c == Shorter(n, k)
           cut == Within(s, n)
           rest == SubSeq(cut, i + 1, c)
           text == Text(t)
<1>1. c \in Nat /\ cut = [ x \in 1 .. c |-> s[x - 1] ] /\ Len(cut) = c
  <2>1. cut = Piece(s, 0, c) /\ c \in Nat
    BY WithinIs DEF StringOf
  <2> HIDE DEF c, cut
  <2> QED
    BY <2>1, PieceIs
<1>2. l \in Nat /\ text = [ x \in 1 .. l |-> t[x - 1] ] /\ Len(text) = l
  <2>1. l \in Nat /\ Strlen(t) = l
    BY LengthIs DEF StringOf
  <2> QED
    BY <2>1, PieceIs DEF Text
<1>3. SubSeq(text, 1, l) = text
  BY <1>2
<1> HIDE DEF c, cut, text
<1>4. ASSUME i <= c
      PROVE  Len(rest) = c - i /\ rest = [ x \in 1 .. c - i |-> s[i + x - 1] ]
  <2>1. rest = [ x \in 1 .. c - i |-> cut[x + (i + 1) - 1] ]
    BY <1>1, <1>4
  <2>2. ASSUME NEW x \in 1 .. c - i PROVE cut[x + (i + 1) - 1] = s[i + x - 1]
    <3>1. x + (i + 1) - 1 \in 1 .. c /\ x + (i + 1) - 1 - 1 = i + x - 1
      BY <1>1, <1>4
    <3> QED
      BY <1>1, <3>1
  <2>3. Len(rest) = c - i
    BY <1>1, <1>4, <2>1
  <2> HIDE DEF rest
  <2> QED
    BY <2>1, <2>2, <2>3
<1>5. ASSUME i <= c, l <= c - i
      PROVE  SubSeq(rest, 1, l) = [ x \in 1 .. l |-> s[i + x - 1] ]
  <2>1. Len(rest) = c - i /\ rest = [ x \in 1 .. c - i |-> s[i + x - 1] ]
    BY <1>4, <1>5
  <2> HIDE DEF rest
  <2>2. SubSeq(rest, 1, l) = [ x \in 1 .. l |-> rest[x] ]
    BY <1>1, <1>2, <1>5, <2>1
  <2>3. \A x \in 1 .. l : x \in 1 .. c - i
    BY <1>1, <1>2, <1>5
  <2> QED
    BY <2>1, <2>2, <2>3
<1> HIDE DEF rest
<1>6. i \in Hits(s, t, n) <=> i <= c /\ l <= Len(rest) /\ text = SubSeq(rest, 1, l)
  <2>1. i \in Hits(s, t, n) <=> i \in 0 .. Len(cut) /\ IsPrefix(text, SubSeq(cut, i + 1, Len(cut)))
    BY DEF Hits, cut, text
  <2>2. SubSeq(cut, i + 1, Len(cut)) = rest
    BY <1>1 DEF rest
  <2>3. IsPrefix(text, rest) <=>
          Len(text) <= Len(rest) /\ SubSeq(text, 1, Len(text)) = SubSeq(rest, 1, Len(text))
    BY DEF IsPrefix
  <2>4. i \in Hits(s, t, n) <=> i \in 0 .. c /\ l <= Len(rest) /\ text = SubSeq(rest, 1, l)
    <3>1. Len(cut) = c /\ Len(text) = l /\ SubSeq(text, 1, l) = text
      BY <1>1, <1>2, <1>3
    <3> QED
      BY Zenon, <2>1, <2>2, <2>3, <3>1
  <2>5. i \in 0 .. c <=> i <= c
    BY <1>1
  <2> QED
    BY Zenon, <2>4, <2>5
<1>7. ASSUME i <= c, l <= c - i
      PROVE  text = SubSeq(rest, 1, l) <=> \A x \in 0 .. l - 1 : s[i + x] = t[x]
  <2>1. text = SubSeq(rest, 1, l) <=> \A x \in 1 .. l : t[x - 1] = s[i + x - 1]
    BY <1>2, <1>5, <1>7
  <2>2. ASSUME \A x \in 1 .. l : t[x - 1] = s[i + x - 1], NEW x \in 0 .. l - 1
        PROVE  s[i + x] = t[x]
    <3>1. x + 1 \in 1 .. l /\ (x + 1) - 1 = x /\ i + (x + 1) - 1 = i + x
      BY <1>2
    <3> QED
      BY <2>2, <3>1
  <2>3. ASSUME \A x \in 0 .. l - 1 : s[i + x] = t[x], NEW x \in 1 .. l
        PROVE  t[x - 1] = s[i + x - 1]
    <3>1. x - 1 \in 0 .. l - 1 /\ i + (x - 1) = i + x - 1
      BY <1>2
    <3> QED
      BY <2>3, <3>1
  <2> QED
    BY <2>1, <2>2, <2>3
<1>8. i + l <= c <=> i <= c /\ l <= c - i
  BY <1>1, <1>2
<1> QED
  BY <1>4, <1>6, <1>7, <1>8 DEF c

\* ft_strnstr finds the first place where all of the needle is within n.
LEMMA StrnstrFinds ==
  ASSUME NEW s, NEW k, StringOf(s, k), NEW t, NEW l, StringOf(t, l), NEW n \in Nat,
         \A i \in 0 .. k : s[i] \in Int, \A i \in 0 .. l : t[i] \in Int
  PROVE  Strnstr(s, t, n) = IF Hits(s, t, n) = {} THEN Nowhere ELSE Min(Hits(s, t, n))
<1>1. k \in Nat /\ Strlen(s) = k /\ l \in Nat /\ Strlen(t) = l /\ DOMAIN s = 0 .. k
  BY LengthIs DEF StringOf
<1>2. Hits(s, t, n) \in SUBSET Nat
  BY WithinIs, PieceIs DEF Hits
<1>3. CASE l = 0
  <2>1. 0 \in Hits(s, t, n)
    <3>1. 0 + l <= Shorter(n, k) /\ \A x \in 0 .. l - 1 : s[0 + x] = t[x]
      BY <1>1, <1>3 DEF Shorter
    <3> QED
      BY <3>1, HitsAre
  <2>2. Min(Hits(s, t, n)) = 0
    BY <1>2, <2>1, MinUnique
  <2> QED
    BY <1>1, <1>3, <2>1, <2>2 DEF Strnstr
<1>4. CASE l # 0
  <2> DEFINE at == { i \in 0 .. k - 1 : i < n /\ Strncmp(From(s, i), t, l) = 0 /\ i + l <= n }
  <2>1. ASSUME NEW i \in 0 .. k - 1
        PROVE  Strncmp(From(s, i), t, l) = 0 <=> i + l <= k /\ \A x \in 0 .. l - 1 : s[i + x] = t[x]
    <3> DEFINE f == From(s, i)
               r == k - i
    <3>1. f = [ x \in 0 .. r |-> s[i + x] ] /\ r \in Nat
      BY <1>1 DEF From
    <3>2. \A x \in 0 .. r : i + x \in 0 .. k /\ (i + x = k <=> x = r)
      BY <1>1
    <3> HIDE DEF f
    <3>3. StringOf(f, r) /\ \A x \in 0 .. r : f[x] \in Int
      BY <3>1, <3>2 DEF StringOf
    <3> HIDE DEF r
    <3>4. Strncmp(f, t, l) = 0 <=>
            /\ Shorter(l, r) = Shorter(l, l) /\ \A x \in 0 .. Shorter(l, r) - 1 : f[x] = t[x]
      BY <1>1, <3>3, StrncmpEqual
    <3>5. (Shorter(l, r) = Shorter(l, l) <=> l <= r) /\ (l <= r => Shorter(l, r) = l)
      BY <1>1, <3>1 DEF Shorter
    <3>6. l <= r <=> i + l <= k
      BY <1>1 DEF r
    <3>7. l <= r => \A x \in 0 .. l - 1 : f[x] = s[i + x]
      BY <1>1, <3>1
    <3> QED
      BY <3>4, <3>5, <3>6, <3>7 DEF f
  <2>2. ASSUME NEW i \in Nat PROVE i \in at <=> i \in Hits(s, t, n)
    <3>1. i \in Hits(s, t, n) <=>
            i + l <= Shorter(n, k) /\ \A x \in 0 .. l - 1 : s[i + x] = t[x]
      BY HitsAre
    <3>2. i + l <= Shorter(n, k) <=> i + l <= n /\ i + l <= k
      BY <1>1 DEF Shorter
    <3>3. i + l <= n /\ i + l <= k => i < n /\ i \in 0 .. k - 1
      BY <1>1, <1>4
    <3> QED
      BY <2>1, <3>1, <3>2, <3>3
  <2>3. at = Hits(s, t, n)
    <3>1. at \in SUBSET Nat
      OBVIOUS
    <3> HIDE DEF at
    <3> QED
      BY <1>2, <2>2, <3>1
  <2> QED
    BY <1>1, <1>4, <2>3 DEF Strnstr
<1> QED
  BY <1>3, <1>4

LEMMA StrrchrFinds ==
  ASSUME NEW s, NEW k, StringOf(s, k), NEW c
  PROVE  Strrchr(s, c) = Max({ i \in 0 .. k : s[i] = c } \cup {Nowhere})
<1>1. k \in Nat /\ Strlen(s) = k
  BY LengthIs DEF StringOf
<1> DEFINE at == { i \in 0 .. k : s[i] = c }
<1>2. Strrchr(s, c) = IF at = {} THEN Nowhere ELSE Max(at)
  BY <1>1 DEF Strrchr
<1>3. \A y \in at : y \in Nat /\ y <= k
  BY <1>1
<1> HIDE DEF at
<1>4. CASE at = {}
  <2>1. Max(at \cup {Nowhere}) = Nowhere
    BY <1>4, MaxUnique DEF Nowhere
  <2> QED
    BY <1>2, <1>4, <2>1 DEF at
<1>5. CASE at # {}
  <2>1. Max(at) \in at /\ \A y \in at : y <= Max(at)
    BY <1>1, <1>3, <1>5, MaxIs DEF MaxUpTo
  <2>2. Max(at) \in at \cup {Nowhere} /\ Max(at) \in Int
        /\ \A y \in at \cup {Nowhere} : y \in Int /\ y <= Max(at)
    BY <1>3, <2>1 DEF Nowhere
  <2>3. Max(at \cup {Nowhere}) = Max(at)
    BY <2>2, MaxUnique
  <2> QED
    BY <1>2, <1>5, <2>3 DEF at
<1> QED
  BY <1>4, <1>5
-----------------------------------------------------------------------------
\* The blocks that ft_split can have made of a string of length n.
PieceBlocks(s, n) ==
  { Block(p[2] - p[1] + 1, Fill(Fresh, 0, s, p[1], p[2])) : p \in { q \in (0 .. n) \X (0 .. n) : q[1] <= q[2] } }

SplitStates(s, n) == [i : 0 .. n, array : Seq(PieceBlocks(s, n)), refused : BOOLEAN]

SplitStep(s, c, pieces, r) ==
  IF r.refused \/ s[r.i] = NUL THEN r
  ELSE IF s[r.i] = c THEN [r EXCEPT !.i = r.i + 1]
  ELSE IF Len(r.array) = pieces THEN [r EXCEPT !.refused = TRUE]
  ELSE [ i |-> r.i + DelimdLen(s, r.i, c), refused |-> FALSE,
         array |-> Append(r.array, Block(DelimdLen(s, r.i, c) + 1,
                                         Fill(Fresh, 0, s, r.i, r.i + DelimdLen(s, r.i, c)))) ]

LEMMA SplitStepStays ==
  ASSUME NEW s, NEW n, StringOf(s, n), NEW c, NEW pieces, NEW r \in SplitStates(s, n)
  PROVE  SplitStep(s, c, pieces, r) \in SplitStates(s, n)
<1>1. /\ n \in Nat /\ Strlen(s) = n /\ s[n] = NUL
      /\ r.i \in 0 .. n /\ r.array \in Seq(PieceBlocks(s, n)) /\ r.refused \in BOOLEAN
      /\ r = [i |-> r.i, array |-> r.array, refused |-> r.refused]
  BY LengthIs DEF StringOf, SplitStates
<1> DEFINE len == DelimdLen(s, r.i, c)
           Ends == { k \in 0 .. n - r.i : s[r.i + k] \in {c, NUL} }
           b == Block(len + 1, Fill(Fresh, 0, s, r.i, r.i + len))
<1>2. len \in 0 .. n - r.i
  <2>1. Ends \in SUBSET Nat /\ n - r.i \in Ends
    <3>1. r.i + (n - r.i) = n /\ n - r.i \in 0 .. n - r.i
      BY <1>1
    <3> QED
      BY <1>1, <3>1
  <2>2. Min(Ends) \in Ends
    <3> HIDE DEF Ends
    <3> QED
      BY <2>1, MinIs
  <2> QED
    BY <1>1, <2>2 DEF DelimdLen
<1> HIDE DEF len
<1>3. b \in PieceBlocks(s, n) /\ r.i + len \in 0 .. n
  <2>1. <<r.i, r.i + len>> \in { q \in (0 .. n) \X (0 .. n) : q[1] <= q[2] }
    BY <1>1, <1>2
  <2>2. (r.i + len) - r.i + 1 = len + 1
    BY <1>1, <1>2
  <2> QED
    BY <2>1, <2>2 DEF PieceBlocks
<1> HIDE DEF b
<1>4. s[r.i] # NUL => r.i + 1 \in 0 .. n
  BY <1>1
<1>5. Append(r.array, b) \in Seq(PieceBlocks(s, n))
  BY <1>1, <1>3
<1>6. [i |-> r.i + len, refused |-> FALSE, array |-> Append(r.array, b)] \in SplitStates(s, n)
  BY <1>3, <1>5 DEF SplitStates
<1>7. s[r.i] # NUL => [r EXCEPT !.i = r.i + 1] \in SplitStates(s, n)
  BY <1>1, <1>4 DEF SplitStates
<1>8. [r EXCEPT !.refused = TRUE] \in SplitStates(s, n)
  BY <1>1 DEF SplitStates
<1> QED
  BY <1>6, <1>7, <1>8 DEF SplitStep, len, b

\* The loop of ft_split, turn by turn.
SplitTurns(s, n, c, pieces, f) ==
  [ k \in 0 .. n |-> IF k = 0 THEN [i |-> 0, array |-> <<>>, refused |-> FALSE]
                     ELSE SplitStep(s, c, pieces, f[k - 1]) ]

LEMMA SplitExists ==
  ASSUME NEW s, NEW n, StringOf(s, n), NEW c, NEW pieces
  PROVE  \E f : f = SplitTurns(s, n, c, pieces, f)
<1>1. n \in Nat /\ Strlen(s) = n
  BY LengthIs DEF StringOf
<1> DEFINE D == SplitStates(s, n)
           G == [ r \in D |-> SplitStep(s, c, pieces, r) ]
           init == [i |-> 0, array |-> <<>>, refused |-> FALSE]
           Step(f) == [ k \in 0 .. n |-> IF k = 0 THEN init ELSE SplitStep(s, c, pieces, f[k - 1]) ]
<1>2. G \in [D -> D] /\ init \in D
  <2>1. \A r \in D : SplitStep(s, c, pieces, r) \in D
    BY SplitStepStays
  <2>2. init \in D
    BY <1>1 DEF SplitStates
  <2> HIDE DEF D, init
  <2> QED
    BY <2>1, <2>2
<1> HIDE DEF D, init
<1>3. \E f : f = Step(f)
  <2>1. PICK f \in [0 .. n -> D] : Repeats(f, G, init, n)
    <3> HIDE DEF G
    <3> QED
      BY <1>1, <1>2, Repeatable
  <2>2. ASSUME NEW k \in 1 .. n PROVE f[k] = SplitStep(s, c, pieces, f[k - 1])
    <3>1. f[k] = G[f[k - 1]] /\ k - 1 \in 0 .. n
      BY <1>1, <2>1 DEF Repeats
    <3> QED
      BY <3>1
  <2>3. ASSUME NEW k \in 0 .. n
        PROVE  f[k] = IF k = 0 THEN init ELSE SplitStep(s, c, pieces, f[k - 1])
    <3>1. k = 0 \/ k \in 1 .. n
      BY <1>1
    <3> QED
      BY <2>1, <2>2, <3>1 DEF Repeats
  <2>4. f = Step(f)
    BY <2>3
  <2> QED
    BY <2>4
<1> QED
  BY <1>3 DEF init, SplitTurns

\* The runs of characters that ft_split is to return, and how far its loop got.
CutAt(s, n, c, i) == i = n \/ s[i] = c

Runs(s, n, c) ==
  { p \in (0 .. n) \X (0 .. n) :
      /\ p[1] < p[2] /\ \A i \in p[1] .. p[2] - 1 : ~CutAt(s, n, c, i)
      /\ p[1] = 0 \/ CutAt(s, n, c, p[1] - 1)
      /\ CutAt(s, n, c, p[2]) }

RunBlock(s, p) == Block(p[2] - p[1] + 1, Fill(Fresh, 0, s, p[1], p[2]))

\* at are the runs that start before i, one after the other, and array has the piece of each.
AreRuns(at, array, i, s, n, c) ==
  /\ at \in Seq(Runs(s, n, c)) /\ Len(at) = Len(array)
  /\ \A k \in 1 .. Len(at) : array[k] = RunBlock(s, at[k]) /\ at[k][2] <= i
  /\ \A j, k \in 1 .. Len(at) : j < k => at[j][1] < at[k][1]
  /\ \A p \in Runs(s, n, c) : p[1] < i => \E k \in 1 .. Len(at) : at[k] = p

\* from[i] is the number of pieces from i on, as count_split has it.
CountsFrom(from, s, n, c) ==
  \A i \in 0 .. n :
    from[i] = IF s[i] = NUL THEN 0 ELSE IF s[i] # c THEN 1 + from[i + DelimdLen(s, i, c)] ELSE from[i + 1]

\* The loop of ft_split is at the start of a run or at a delimiter, and has
\* made the pieces before it, those that count_split has counted there.
SplitSo(r, from, s, n, c) ==
  ~r.refused =>
    /\ r.i = 0 \/ CutAt(s, n, c, r.i) \/ CutAt(s, n, c, r.i - 1)
    /\ from[r.i] \in Nat => from[0] = Len(r.array) + from[r.i]
    /\ \E at : AreRuns(at, r.array, r.i, s, n, c)

LEMMA RunLength ==
  ASSUME NEW s, NEW n, StringOf(s, n), NEW c, NEW i \in 0 .. n, s[i] # NUL, s[i] # c
  PROVE  /\ DelimdLen(s, i, c) \in 1 .. n - i
         /\ \A j \in i .. i + DelimdLen(s, i, c) - 1 : ~CutAt(s, n, c, j)
         /\ CutAt(s, n, c, i + DelimdLen(s, i, c))
<1>1. n \in Nat /\ Strlen(s) = n /\ s[n] = NUL /\ i \in Nat /\ i < n /\ \A j \in 0 .. n : s[j] = NUL <=> j = n
  <2>1. n \in Nat /\ Strlen(s) = n /\ s[n] = NUL /\ \A j \in 0 .. n - 1 : s[j] # NUL
    BY LengthIs DEF StringOf
  <2>2. ASSUME NEW j \in 0 .. n, j # n PROVE s[j] # NUL
    BY <2>1, <2>2
  <2> QED
    BY <2>1, <2>2
<1> DEFINE Ends == { k \in 0 .. n - i : s[i + k] \in {c, NUL} }
<1>2. Ends \in SUBSET Nat /\ n - i \in Ends
  <2>1. i + (n - i) = n /\ n - i \in 0 .. n - i
    BY <1>1
  <2> QED
    BY <1>1, <2>1
<1> PICK len : len = Min(Ends)
  OBVIOUS
<1>3. len \in Ends /\ \A k \in Ends : len <= k
  <2> HIDE DEF Ends
  <2> QED
    BY <1>2, MinIs
<1>4. len \in 0 .. n - i /\ s[i + len] \in {c, NUL} /\ DelimdLen(s, i, c) = len
  BY <1>1, <1>3 DEF DelimdLen
<1>5. len # 0
  <2>1. i + 0 = i
    BY <1>1
  <2> QED
    BY <1>4, <2>1
<1>6. ASSUME NEW j \in i .. i + len - 1 PROVE ~CutAt(s, n, c, j)
  <2>1. j - i \in 0 .. n - i /\ i + (j - i) = j /\ ~(len <= j - i) /\ j \in 0 .. n
    BY <1>1, <1>4
  <2>2. j - i \notin Ends
    <3> HIDE DEF Ends
    <3> QED
      BY <1>3, <2>1
  <2>3. s[j] \notin {c, NUL}
    BY <2>1, <2>2
  <2> QED
    BY <1>1, <2>1, <2>3 DEF CutAt
<1>7. CutAt(s, n, c, i + len)
  <2>1. i + len \in 0 .. n
    BY <1>1, <1>4
  <2> QED
    BY <1>1, <1>4, <2>1 DEF CutAt
<1> QED
  BY <1>1, <1>4, <1>5, <1>6, <1>7

\* The run that starts at i is the only one that starts before its end.
LEMMA RunAt ==
  ASSUME NEW s, NEW n \in Nat, NEW c, NEW i \in 0 .. n, NEW len \in 1 .. n - i,
         \A j \in i .. i + len - 1 : ~CutAt(s, n, c, j), CutAt(s, n, c, i + len),
         i = 0 \/ CutAt(s, n, c, i - 1)
  PROVE  /\ <<i, i + len>> \in Runs(s, n, c)
         /\ \A p \in Runs(s, n, c) : p[1] \in i .. i + len - 1 => p = <<i, i + len>>
<1>1. <<i, i + len>> \in Runs(s, n, c)
  <2>1. i + len \in 0 .. n /\ i < i + len
    OBVIOUS
  <2>2. <<i, i + len>> \in (0 .. n) \X (0 .. n)
    BY <2>1
  <2> QED
    BY <2>1, <2>2 DEF Runs
<1>2. ASSUME NEW p \in Runs(s, n, c), p[1] \in i .. i + len - 1 PROVE p = <<i, i + len>>
  <2>1. PICK a \in 0 .. n, b \in 0 .. n : p = <<a, b>>
    BY DEF Runs
  <2>2. /\ a < b /\ (\A j \in a .. b - 1 : ~CutAt(s, n, c, j))
        /\ (a = 0 \/ CutAt(s, n, c, a - 1)) /\ CutAt(s, n, c, b) /\ a \in i .. i + len - 1
    BY <1>2, <2>1 DEF Runs
  <2>3. a = i
    <3> SUFFICES ASSUME a # i PROVE FALSE
      OBVIOUS
    <3>1. a - 1 \in i .. i + len - 1 /\ a # 0
      BY <2>2
    <3> QED
      BY <2>2, <3>1
  <2>4. b <= i + len
    <3> SUFFICES ASSUME ~(b <= i + len) PROVE FALSE
      OBVIOUS
    <3>1. i + len \in a .. b - 1
      BY <2>3
    <3> QED
      BY <2>2, <3>1
  <2>5. b >= i + len
    <3> SUFFICES ASSUME ~(b >= i + len) PROVE FALSE
      OBVIOUS
    <3>1. b \in i .. i + len - 1
      BY <2>2, <2>3
    <3> QED
      BY <2>2, <3>1
  <2>6. b = i + len
    BY <2>4, <2>5
  <2> QED
    BY <2>1, <2>3, <2>6
<1> QED
  BY <1>1, <1>2

LEMMA CountIsFrom ==
  ASSUME NEW s, NEW n, StringOf(s, n), NEW c
  PROVE  \E from : CountsFrom(from, s, n, c) /\ CountSplit(s, c) = from[0]
<1>1. n \in Nat /\ Strlen(s) = n /\ s[n] = NUL /\ \A j \in 0 .. n - 1 : s[j] # NUL
  BY LengthIs DEF StringOf
<1> DEFINE Body(f, i) ==
             IF s[i] = NUL THEN 0 ELSE IF s[i] # c THEN 1 + f[i + DelimdLen(s, i, c)] ELSE f[i + 1]
           Step(f) == [ i \in 0 .. n |-> Body(f, i) ]
           ahead(i) == IF s[i] # c THEN DelimdLen(s, i, c) ELSE 1
           h == [ k \in Nat |-> IF k \in 1 .. n THEN k - ahead(n - k) ELSE 0 ]
           G == [ x \in Nat \X Nat |-> IF x[2] \notin 1 .. n THEN 0 ELSE IF s[n - x[2]] # c THEN 1 + x[1] ELSE x[1] ]
<1>2. \A i \in 0 .. n - 1 : ahead(i) \in 1 .. n - i
  <2> SUFFICES ASSUME NEW i \in 0 .. n - 1 PROVE ahead(i) \in 1 .. n - i
    OBVIOUS
  <2>1. i \in 0 .. n /\ s[i] # NUL /\ 1 \in 1 .. n - i
    BY <1>1
  <2>2. s[i] # c => DelimdLen(s, i, c) \in 1 .. n - i
    BY <2>1, RunLength
  <2> QED
    BY <2>1, <2>2
<1> HIDE DEF ahead
<1>3. \A k \in Nat : k >= 1 => h[k] \in 0 .. k - 1
  <2> SUFFICES ASSUME NEW k \in Nat, k >= 1 PROVE h[k] \in 0 .. k - 1
    OBVIOUS
  <2>1. CASE k \in 1 .. n
    <3>1. n - k \in 0 .. n - 1 /\ n - (n - k) = k
      BY <1>1, <2>1
    <3>2. ahead(n - k) \in 1 .. k
      BY <1>2, <3>1
    <3> QED
      BY <2>1, <3>2
  <2>2. CASE k \notin 1 .. n
    BY <2>2
  <2> QED
    BY <2>1, <2>2
<1>4. G \in [Nat \X Nat -> Nat]
  OBVIOUS
<1>5. PICK g \in [Nat -> Nat] : Recurs(g, h, 1, 0, G)
  <2> HIDE DEF G, h
  <2>1. 1 \in Nat \ {0} /\ 0 \in Nat
    OBVIOUS
  <2> QED
    BY ONLY <1>3, <1>4, <2>1, Descending
<1> DEFINE f == [ i \in 0 .. n |-> g[n - i] ]
<1>6. f = Step(f)
  <2>1. ASSUME NEW i \in 0 .. n PROVE f[i] = Body(f, i)
    <3>1. CASE i = n
      <4>1. n - n = 0 /\ f[i] = g[n - n] /\ ~(0 >= 1) /\ 0 \notin 1 .. n
        BY <1>1, <3>1
      <4>2. g[0] = G[<<0, 0>>]
        BY <1>5, <4>1 DEF Recurs
      <4>3. g[0] = 0
        BY <4>1, <4>2
      <4> QED
        BY <1>1, <3>1, <4>1, <4>3
    <3>2. CASE i # n
      <4> PICK k, m : k = n - i /\ m = h[k]
        OBVIOUS
      <4>1. k \in 1 .. n /\ n - k = i /\ i \in 0 .. n - 1 /\ s[i] # NUL /\ k \in Nat /\ k >= 1
        BY <1>1, <3>2
      <4>2. m = k - ahead(i)
        BY <4>1
      <4>3. ahead(i) \in 1 .. k /\ m \in Nat /\ i + ahead(i) \in 0 .. n /\ n - (i + ahead(i)) = m
        BY <1>1, <1>2, <4>1, <4>2
      <4>4. f[i] = g[k] /\ f[i + ahead(i)] = g[m] /\ g[m] \in Nat
        BY <4>3
      <4>5. g[k] = G[<<g[m], k>>]
        <5> HIDE DEF G, h
        <5> QED
          BY <1>5, <4>1 DEF Recurs
      <4>6. g[k] = IF s[i] # c THEN 1 + g[m] ELSE g[m]
        <5>1. <<g[m], k>> \in Nat \X Nat
          BY <4>1, <4>4
        <5> QED
          BY <4>1, <4>5, <5>1
      <4> HIDE DEF f
      <4> QED
        BY <4>1, <4>4, <4>6 DEF ahead
    <3> QED
      BY <3>1, <3>2
  <2> HIDE DEF Body
  <2>2. Step(f) = [ i \in 0 .. n |-> f[i] ]
    BY <2>1
  <2> QED
    BY <2>2
<1> PICK from : from = CHOOSE e : e = Step(e)
  OBVIOUS
<1>7. from = Step(from)
  <2> HIDE DEF f, Step
  <2> QED
    BY <1>6
<1>8. CountSplit(s, c) = from[0]
  BY <1>1 DEF CountSplit
<1>9. CountsFrom(from, s, n, c)
  BY <1>7 DEF CountsFrom
<1> QED
  BY <1>8, <1>9

\* The next run, behind those before it.
LEMMA MoreRuns ==
  ASSUME NEW s, NEW n \in Nat, NEW c, NEW i \in 0 .. n, NEW len \in 1 .. n - i,
         NEW array \in Seq(PieceBlocks(s, n)), NEW at, AreRuns(at, array, i, s, n, c),
         NEW p \in Runs(s, n, c), p[1] = i, p[2] = i + len,
         \A o \in Runs(s, n, c) : o[1] \in i .. i + len - 1 => o = p,
         NEW b, b = RunBlock(s, p)
  PROVE  AreRuns(Append(at, p), Append(array, b), i + len, s, n, c)
<1> PICK L, at2, array2 : L = Len(at) /\ at2 = Append(at, p) /\ array2 = Append(array, b)
  OBVIOUS
<1>1. /\ at \in Seq(Runs(s, n, c)) /\ L \in Nat /\ Len(array) = L
      /\ \A k \in 1 .. L : array[k] = RunBlock(s, at[k]) /\ at[k][2] <= i /\ at[k] \in Runs(s, n, c)
      /\ \A j, k \in 1 .. L : j < k => at[j][1] < at[k][1]
      /\ \A o \in Runs(s, n, c) : o[1] < i => \E k \in 1 .. L : at[k] = o
  BY DEF AreRuns
<1>2. /\ at2 \in Seq(Runs(s, n, c)) /\ Len(at2) = L + 1 /\ Len(array2) = L + 1
      /\ at2[L + 1] = p /\ array2[L + 1] = b
      /\ \A k \in 1 .. L : at2[k] = at[k] /\ array2[k] = array[k]
  <2>1. at2 \in Seq(Runs(s, n, c)) /\ Len(at2) = L + 1 /\ at2[L + 1] = p /\ \A k \in 1 .. L : at2[k] = at[k]
    BY <1>1
  <2>2. Len(array2) = L + 1 /\ array2[L + 1] = b /\ \A k \in 1 .. L : array2[k] = array[k]
    BY <1>1
  <2> QED
    BY <2>1, <2>2
<1>3. \A o \in Runs(s, n, c) : o[1] \in 0 .. n /\ o[2] \in 0 .. n /\ o[1] < o[2]
  BY DEF Runs
<1>4. \A k \in 1 .. L + 1 : k \in 1 .. L \/ k = L + 1
  BY <1>1
<1>5. \A k \in 1 .. L : at[k][1] < i /\ at[k][2] <= i + len
  <2> SUFFICES ASSUME NEW k \in 1 .. L PROVE at[k][1] < i /\ at[k][2] <= i + len
    OBVIOUS
  <2> PICK x, y : x = at[k][1] /\ y = at[k][2]
    OBVIOUS
  <2>1. x \in 0 .. n /\ y \in 0 .. n /\ x < y /\ y <= i
    BY <1>1, <1>3
  <2>2. n \in Nat /\ i \in 0 .. n /\ len \in 1 .. n - i
    OBVIOUS
  <2>3. x < i /\ y <= i + len
    BY ONLY <2>1, <2>2
  <2> QED
    BY <2>3
<1>6. ASSUME NEW k \in 1 .. L + 1 PROVE array2[k] = RunBlock(s, at2[k]) /\ at2[k][2] <= i + len
  BY <1>1, <1>2, <1>4, <1>5
<1>7. ASSUME NEW j \in 1 .. L + 1, NEW k \in 1 .. L + 1, j < k PROVE at2[j][1] < at2[k][1]
  <2>1. j \in 1 .. L
    BY <1>1, <1>7
  <2>2. CASE k = L + 1
    BY <1>2, <1>5, <2>1, <2>2
  <2>3. CASE k \in 1 .. L
    BY <1>1, <1>2, <1>7, <2>1, <2>3
  <2> QED
    BY <1>4, <2>2, <2>3
<1>8. ASSUME NEW o \in Runs(s, n, c), o[1] < i + len PROVE \E k \in 1 .. L + 1 : at2[k] = o
  <2>1. CASE o[1] < i
    <3>1. PICK k \in 1 .. L : at[k] = o
      BY <1>1, <2>1
    <3>2. k \in 1 .. L + 1 /\ at2[k] = o
      BY <1>1, <1>2, <3>1
    <3> QED
      BY <3>2
  <2>2. CASE ~(o[1] < i)
    <3>1. o[1] \in i .. i + len - 1
      BY <1>3, <1>8, <2>2
    <3>2. at2[L + 1] = o /\ L + 1 \in 1 .. L + 1
      BY <1>1, <1>2, <3>1
    <3> QED
      BY <3>2
  <2> QED
    BY <2>1, <2>2
<1>9. AreRuns(at2, array2, i + len, s, n, c)
  BY <1>2, <1>6, <1>7, <1>8 DEF AreRuns
<1> QED
  BY <1>9

LEMMA SplitStepCuts ==
  ASSUME NEW s, NEW n, StringOf(s, n), NEW c, NEW pieces, NEW from, CountsFrom(from, s, n, c),
         NEW r \in SplitStates(s, n), SplitSo(r, from, s, n, c), NEW k \in 1 .. n,
         r.refused \/ r.i = n \/ r.i >= k - 1,
         NEW q, q = SplitStep(s, c, pieces, r)
  PROVE  SplitSo(q, from, s, n, c) /\ (q.refused \/ q.i = n \/ q.i >= k)
<1> PICK i, array : i = r.i /\ array = r.array
  OBVIOUS
<1>1. /\ n \in Nat /\ s[n] = NUL /\ i \in 0 .. n /\ array \in Seq(PieceBlocks(s, n)) /\ r.refused \in BOOLEAN
      /\ r = [i |-> i, array |-> array, refused |-> r.refused]
  BY DEF StringOf, SplitStates
<1>2. CASE r.refused \/ s[i] = NUL
  <2>1. q = r
    BY <1>2 DEF SplitStep
  <2>2. s[i] = NUL => i = n
    BY <1>1 DEF StringOf
  <2> QED
    BY <1>2, <2>1, <2>2
<1>3. CASE ~r.refused /\ s[i] # NUL
  <2>1. i \in 0 .. n - 1 /\ i >= k - 1
    BY <1>1, <1>3
  <2>2. /\ i = 0 \/ CutAt(s, n, c, i) \/ CutAt(s, n, c, i - 1)
        /\ from[i] \in Nat => from[0] = Len(array) + from[i]
    BY <1>3 DEF SplitSo
  <2>3. PICK at : AreRuns(at, array, i, s, n, c)
    BY <1>3 DEF SplitSo
  <2>4. CASE s[i] = c
    <3>1. q = [r EXCEPT !.i = i + 1]
      BY <1>3, <2>4 DEF SplitStep
    <3>2. q.i = i + 1 /\ q.array = array /\ q.refused = FALSE
      BY <1>1, <1>3, <3>1
    <3>3. CutAt(s, n, c, i) /\ (i + 1) - 1 = i
      BY <1>1, <2>4 DEF CutAt
    <3>4. from[i] = from[i + 1]
      BY <1>1, <1>3, <2>4 DEF CountsFrom
    <3>5. AreRuns(at, array, i + 1, s, n, c)
      <4>1. ASSUME NEW p \in Runs(s, n, c), p[1] < i + 1 PROVE p[1] < i
        <5>1. p[1] \in 0 .. n /\ p[2] \in 0 .. n /\ p[1] < p[2] /\ \A j \in p[1] .. p[2] - 1 : ~CutAt(s, n, c, j)
          BY DEF Runs
        <5>2. p[1] \in p[1] .. p[2] - 1
          BY <5>1
        <5>3. p[1] # i
          BY <3>3, <5>1, <5>2
        <5> QED
          BY <1>1, <4>1, <5>1, <5>3
      <4>2. \A j \in 1 .. Len(at) : at[j][2] <= i + 1
        <5> SUFFICES ASSUME NEW j \in 1 .. Len(at) PROVE at[j][2] <= i + 1
          OBVIOUS
        <5>1. at[j] \in Runs(s, n, c) /\ at[j][2] <= i
          BY <2>3 DEF AreRuns
        <5>2. at[j][2] \in 0 .. n
          BY <5>1 DEF Runs
        <5> QED
          BY <1>1, <5>1, <5>2
      <4> QED
        BY <2>3, <4>1, <4>2 DEF AreRuns
    <3>6. SplitSo(q, from, s, n, c)
      BY <2>2, <3>2, <3>3, <3>4, <3>5 DEF SplitSo
    <3> QED
      BY <2>1, <3>2, <3>6
  <2>5. CASE s[i] # c
    <3> PICK len : len = DelimdLen(s, i, c)
      OBVIOUS
    <3>1. /\ len \in 1 .. n - i /\ (\A j \in i .. i + len - 1 : ~CutAt(s, n, c, j)) /\ CutAt(s, n, c, i + len)
      BY <1>1, <1>3, <2>5, RunLength
    <3>2. CASE Len(array) = pieces
      <4>1. q.refused
        BY <1>1, <1>3, <2>5, <3>2 DEF SplitStep
      <4> QED
        BY <4>1 DEF SplitSo
    <3>3. CASE Len(array) # pieces
      <4> PICK p, b : p = <<i, i + len>> /\ b = RunBlock(s, p)
        OBVIOUS
      <4>1. b = Block(len + 1, Fill(Fresh, 0, s, i, i + len))
        <5>1. p[1] = i /\ p[2] = i + len /\ (i + len) - i + 1 = len + 1
          BY <1>1, <3>1
        <5> QED
          BY <5>1 DEF RunBlock
      <4>2. q = [i |-> i + len, refused |-> FALSE, array |-> Append(array, b)]
        BY <1>3, <2>5, <3>3, <4>1 DEF SplitStep
      <4>3. q.i = i + len /\ q.refused = FALSE /\ q.array = Append(array, b)
        BY <4>2
      <4>4. Len(Append(array, b)) = Len(array) + 1 /\ Len(array) \in Nat
        BY <1>1
      <4>5. from[i + len] \in Nat => from[0] = Len(Append(array, b)) + from[i + len]
        <5>1. from[i] = 1 + from[i + len]
          BY <1>1, <1>3, <2>5 DEF CountsFrom
        <5> SUFFICES ASSUME from[i + len] \in Nat PROVE from[0] = Len(Append(array, b)) + from[i + len]
          OBVIOUS
        <5> PICK x, l, z : x = from[i + len] /\ l = Len(array) /\ z = from[0]
          OBVIOUS
        <5>2. x \in Nat /\ l \in Nat /\ from[i] = 1 + x
          BY <4>4, <5>1
        <5>3. z = l + (1 + x)
          BY <2>2, <5>2
        <5>4. z = (l + 1) + x
          BY ONLY <5>2, <5>3
        <5> QED
          BY <4>4, <5>4
      <4>6. /\ p \in Runs(s, n, c) /\ p[1] = i /\ p[2] = i + len
            /\ \A o \in Runs(s, n, c) : o[1] \in i .. i + len - 1 => o = p
        <5>1. i = 0 \/ CutAt(s, n, c, i - 1)
          <6>1. ~CutAt(s, n, c, i)
            BY <1>1, <3>1
          <6> QED
            BY <2>2, <6>1
        <5>2. n \in Nat /\ i \in 0 .. n
          BY <1>1
        <5>3. /\ <<i, i + len>> \in Runs(s, n, c)
              /\ \A o \in Runs(s, n, c) : o[1] \in i .. i + len - 1 => o = <<i, i + len>>
          BY ONLY <3>1, <5>1, <5>2, RunAt
        <5> QED
          BY <5>3
      <4>7. AreRuns(Append(at, p), Append(array, b), i + len, s, n, c)
        BY <1>1, <2>3, <3>1, <4>6, MoreRuns
      <4>8. SplitSo(q, from, s, n, c)
        BY <3>1, <4>3, <4>5, <4>7 DEF SplitSo
      <4> QED
        BY <1>1, <2>1, <3>1, <4>3, <4>8
    <3> QED
      BY <3>2, <3>3
  <2> QED
    BY <2>4, <2>5
<1> QED
  BY <1>1, <1>2, <1>3

\* What ft_split has made when its loop ends.
LEMMA SplitDoes ==
  ASSUME NEW s, NEW n, StringOf(s, n), NEW c, NEW pieces, NEW from, CountsFrom(from, s, n, c),
         NEW r, r = SplitLoop(s, c, pieces)
  PROVE  r \in SplitStates(s, n) /\ SplitSo(r, from, s, n, c) /\ (r.refused \/ r.i = n)
<1>1. n \in Nat /\ Strlen(s) = n
  BY LengthIs DEF StringOf
<1> DEFINE D == SplitStates(s, n)
           init == [i |-> 0, array |-> <<>>, refused |-> FALSE]
           Good(q, k) == q \in D /\ SplitSo(q, from, s, n, c) /\ (q.refused \/ q.i = n \/ q.i >= k)
<1>2. PICK f : f = SplitTurns(s, n, c, pieces, f) /\ r = f[n]
  <2> DEFINE g == CHOOSE f : f = SplitTurns(s, n, c, pieces, f)
  <2>1. g = SplitTurns(s, n, c, pieces, g)
    BY SplitExists
  <2>2. r = g[n]
    BY <1>1 DEF SplitLoop, SplitStep, SplitTurns
  <2> HIDE DEF g
  <2> QED
    BY <2>1, <2>2
<1>3. Good(init, 0)
  <2>1. init \in D /\ init.i = 0 /\ init.array = <<>> /\ ~init.refused
    BY <1>1 DEF SplitStates
  <2>2. PICK e : e = <<>> /\ e \in Seq(Runs(s, n, c)) /\ Len(e) = 0 /\ 1 .. Len(e) = {}
    <3>1. <<>> \in Seq(Runs(s, n, c)) /\ Len(<<>>) = 0 /\ 1 .. 0 = {}
      OBVIOUS
    <3> QED
      BY <3>1
  <2>3. \A p \in Runs(s, n, c) : ~(p[1] < 0)
    BY <1>1 DEF Runs
  <2>4. AreRuns(e, init.array, 0, s, n, c)
    BY <2>1, <2>2, <2>3 DEF AreRuns
  <2>5. from[0] \in Nat => from[0] = Len(init.array) + from[0]
    BY <2>1
  <2> HIDE DEF init, D
  <2>6. SplitSo(init, from, s, n, c)
    BY <2>1, <2>4, <2>5 DEF SplitSo
  <2> QED
    BY <2>1, <2>6
<1> DEFINE T == { k \in 0 .. n : Good(f[k], k) }
<1>4. 0 \in T
  <2>1. f[0] = init
    BY <1>1, <1>2 DEF SplitTurns
  <2> HIDE DEF Good, init
  <2> QED
    BY <1>1, <1>3, <2>1
<1>5. ASSUME NEW k \in 1 .. n, k - 1 \in T PROVE k \in T
  <2>1. f[k] = SplitStep(s, c, pieces, f[k - 1]) /\ k \in 0 .. n
    <3> HIDE DEF init, Good
    <3>1. k \in 0 .. n /\ k # 0
      BY <1>1
    <3> QED
      BY <1>2, <3>1 DEF SplitTurns
  <2>2. Good(f[k - 1], k - 1)
    BY <1>5
  <2>3. f[k] \in D
    BY <2>1, <2>2, SplitStepStays
  <2>4. SplitSo(f[k], from, s, n, c) /\ (f[k].refused \/ f[k].i = n \/ f[k].i >= k)
    BY <2>1, <2>2, SplitStepCuts
  <2> QED
    BY <2>1, <2>3, <2>4
<1> HIDE DEF T
<1>6. 0 .. n \subseteq T
  BY <1>1, <1>4, <1>5, Climb
<1>7. Good(r, n)
  BY <1>1, <1>2, <1>6 DEF T
<1>8. r.i \in 0 .. n
  BY <1>7 DEF SplitStates
<1> QED
  BY <1>1, <1>7, <1>8

\* The array is given back whole.
LEMMA FreedIs ==
  ASSUME NEW m \in Nat
  PROVE  Len(FreeArray(m)) = m + 1 /\ Range(FreeArray(m)) = 0 .. m
<1>1. FreeArray(m) = [ k \in 1 .. m + 1 |-> IF k = m + 1 THEN 0 ELSE k ]
  BY DEF FreeArray
<1>2. DOMAIN FreeArray(m) = 1 .. m + 1 /\ Len(FreeArray(m)) = m + 1
  BY <1>1
<1>3. \A k \in 1 .. m + 1 : FreeArray(m)[k] \in 0 .. m
  BY <1>1
<1>4. ASSUME NEW j \in 0 .. m PROVE \E k \in 1 .. m + 1 : FreeArray(m)[k] = j
  <2>1. CASE j = 0
    <3>1. m + 1 \in 1 .. m + 1 /\ FreeArray(m)[m + 1] = 0
      BY <1>1
    <3> QED
      BY <2>1, <3>1
  <2>2. CASE j # 0
    <3>1. j \in 1 .. m + 1 /\ FreeArray(m)[j] = j
      BY <1>1, <2>2
    <3> QED
      BY <3>1
  <2> QED
    BY <2>1, <2>2
<1> QED
  BY <1>2, <1>3, <1>4 DEF Range

\* A piece of ft_split is the text of its run.
LEMMA RunText ==
  ASSUME NEW s, NEW n, StringOf(s, n), NEW c, NEW p \in Runs(s, n, c)
  PROVE  Text(RunBlock(s, p).str) = Piece(s, p[1], p[2])
<1>1. p[1] \in Nat /\ p[2] \in Nat /\ p[1] <= p[2] /\ \A i \in p[1] .. p[2] - 1 : s[i] # NUL
  BY DEF Runs, StringOf
<1>2. MadeOf(RunBlock(s, p), Piece(s, p[1], p[2]))
  BY <1>1, FreshBlock DEF RunBlock
<1> QED
  BY <1>2 DEF MadeOf

\* What SplitsAllOrNothing says of one call.
SplitWhole(s, c, n, res) ==
  IF res.value = Nowhere
    THEN Len(res.freed) = Len(res.array) + 1 /\ Range(res.freed) = 0 .. Len(res.array)
    ELSE /\ \E at \in [ DOMAIN res.array -> Runs(s, n, c) ] :
              /\ Range(at) = Runs(s, n, c) /\ \A j, k \in DOMAIN at : j < k => at[j][1] < at[k][1]
              /\ \A k \in DOMAIN at : Text(res.array[k].str) = Piece(s, at[k][1], at[k][2])
         /\ res.null = Len(res.array) /\ res.slots = Len(res.array) + 1

LEMMA SplitIsWhole ==
  ASSUME NEW s, NEW n, StringOf(s, n), NEW c, NEW pieces
  PROVE  SplitWhole(s, c, n, Split(s, c, pieces))
<1>1. PICK from : CountsFrom(from, s, n, c) /\ CountSplit(s, c) = from[0]
  BY CountIsFrom
<1> PICK r, res : r = SplitLoop(s, c, pieces) /\ res = Split(s, c, pieces)
  OBVIOUS
<1>2. r \in SplitStates(s, n) /\ SplitSo(r, from, s, n, c) /\ (r.refused \/ r.i = n)
  BY <1>1, SplitDoes
<1>3. /\ res.value = IF r.refused THEN Nowhere ELSE 0
      /\ res.array = r.array /\ res.slots = from[0] + 1 /\ res.null = from[0]
      /\ res.freed = IF r.refused THEN FreeArray(Len(r.array)) ELSE <<>>
  BY <1>1 DEF Split
<1>4. Len(r.array) \in Nat /\ DOMAIN r.array = 1 .. Len(r.array) /\ n \in Nat /\ s[n] = NUL
  BY <1>2 DEF SplitStates, StringOf
<1>5. CASE r.refused
  BY <1>3, <1>4, <1>5, FreedIs DEF SplitWhole
<1>6. CASE ~r.refused
  <2>1. r.i = n /\ (from[n] \in Nat => from[0] = Len(r.array) + from[n])
    BY <1>2, <1>6 DEF SplitSo
  <2>2. from[n] = 0
    BY <1>1, <1>4 DEF CountsFrom
  <2>3. from[0] = Len(r.array)
    BY <1>4, <2>1, <2>2
  <2>4. PICK at : AreRuns(at, r.array, n, s, n, c)
    BY <1>2, <1>6, <2>1 DEF SplitSo
  <2>5. /\ at \in Seq(Runs(s, n, c)) /\ Len(at) = Len(r.array)
        /\ \A k \in 1 .. Len(at) : r.array[k] = RunBlock(s, at[k])
        /\ \A j, k \in 1 .. Len(at) : j < k => at[j][1] < at[k][1]
        /\ \A p \in Runs(s, n, c) : p[1] < n => \E k \in 1 .. Len(at) : at[k] = p
    BY <2>4 DEF AreRuns
  <2>6. DOMAIN at = 1 .. Len(at) /\ at \in [ DOMAIN r.array -> Runs(s, n, c) ]
        /\ \A k \in 1 .. Len(at) : at[k] \in Runs(s, n, c)
    BY <1>4, <2>5
  <2>7. Range(at) = Runs(s, n, c)
    <3>1. \A p \in Runs(s, n, c) : p[1] < n
      <4> SUFFICES ASSUME NEW p \in Runs(s, n, c) PROVE p[1] < n
        OBVIOUS
      <4>1. p[1] \in 0 .. n /\ p[2] \in 0 .. n /\ p[1] < p[2]
        BY DEF Runs
      <4> QED
        BY <1>4, <4>1
    <3> QED
      BY <2>5, <2>6, <3>1 DEF Range
  <2>8. \A k \in DOMAIN at : Text(r.array[k].str) = Piece(s, at[k][1], at[k][2])
    BY <2>5, <2>6, RunText
  <2>9. res.value # Nowhere
    BY <1>3, <1>6 DEF Nowhere
  <2> QED
    BY <1>3, <2>3, <2>5, <2>6, <2>7, <2>8, <2>9 DEF SplitWhole
<1> QED
  BY <1>5, <1>6

LEMMA SplitMakes ==
  ASSUME NEW s, NEW n, StringOf(s, n), NEW c, NEW pieces
  PROVE  SplitLoop(s, c, pieces) \in SplitStates(s, n)
<1>1. PICK from : CountsFrom(from, s, n, c)
  BY CountIsFrom
<1> QED
  BY <1>1, SplitDoes

LEMMA SplitPiecesFilled ==
  ASSUME NEW s, NEW n, StringOf(s, n), NEW c, NEW pieces, NEW k \in DOMAIN Split(s, c, pieces).array
  PROVE  LET b == Split(s, c, pieces).array[k]
         IN  DOMAIN b.str = 0 .. b.size - 1 /\ Strlen(b.str) = b.size - 1
<1> DEFINE array == SplitLoop(s, c, pieces).array
<1>1. array \in Seq(PieceBlocks(s, n)) /\ Split(s, c, pieces).array = array
  BY SplitMakes DEF SplitStates, Split
<1> HIDE DEF array
<1>2. array[k] \in PieceBlocks(s, n)
  BY <1>1
<1>3. PICK p \in (0 .. n) \X (0 .. n) :
        p[1] <= p[2] /\ array[k] = Block(p[2] - p[1] + 1, Fill(Fresh, 0, s, p[1], p[2]))
  BY <1>2 DEF PieceBlocks
<1>4. p[1] \in Nat /\ p[2] \in Nat /\ \A i \in p[1] .. p[2] - 1 : s[i] # NUL
  BY DEF StringOf
<1>5. MadeOf(array[k], Piece(s, p[1], p[2]))
  BY <1>3, <1>4, FreshBlock
<1> QED
  BY <1>1, <1>5 DEF MadeOf
-----------------------------------------------------------------------------
\* What the calls of strings return.
StringNames ==
  {"strchr", "strrchr", "strncmp", "strnstr", "strlcpy", "strlcat",
   "strdup", "strmapi", "strjoin", "strtrim", "substr", "split"}

LEMMA OutsideStrings ==
  ASSUME MemoryCall \/ NumberCall \/ PrintCall
  PROVE  call'.name \notin StringNames
<1>1. CASE MemoryCall
  BY <1>1 DEF StringNames, MemoryCall, DoMemcpy, DoMemmove, DoMemset, DoMemcmp, DoMemchr, DoCalloc, Call
<1>2. CASE NumberCall
  BY <1>2 DEF StringNames, NumberCall, DoAtoi, DoItoa, Returns, Call
<1>3. CASE PrintCall
  BY <1>3 DEF StringNames, PrintCall, DoPrintf, DoPutEndl, DoPutSize, Call
<1> QED
  BY <1>1, <1>2, <1>3

\* The calls of every name but those that a property is about.
LEMMA SearchCalls ==
  ASSUME StringCall
  PROVE  SearchesRight'
<1>1. CASE DoStrchr
  <2>1. PICK s \in Strings, c \in Letters \cup {NUL} :
          \/ Call("strchr", [s |-> s, c |-> c], [value |-> Strchr(s, c)])
          \/ Call("strrchr", [s |-> s, c |-> c], [value |-> Strrchr(s, c)])
    BY <1>1 DEF DoStrchr
  <2>2. Strrchr(s, c) = Max({ i \in 0 .. Strlen(s) : s[i] = c } \cup {Nowhere})
    BY StringsAre, StrrchrFinds
  <2>3. CASE Call("strchr", [s |-> s, c |-> c], [value |-> Strchr(s, c)])
    BY <2>3 DEF Call, SearchesRight, Strchr
  <2>4. CASE Call("strrchr", [s |-> s, c |-> c], [value |-> Strrchr(s, c)])
    BY <2>2, <2>4 DEF Call, SearchesRight
  <2> QED
    BY <2>1, <2>3, <2>4
<1>2. CASE DoStrncmp
  <2>1. PICK s \in Strings, t \in Strings, n \in Sizes :
          Call("strncmp", [s |-> s, t |-> t, n |-> n], [value |-> Strncmp(s, t, n)])
    BY <1>2 DEF DoStrncmp
  <2>2. n \in Nat /\ StringOf(s, Strlen(s)) /\ StringOf(t, Strlen(t))
    BY StringsAre DEF Sizes
  <2>3. /\ \A i \in 0 .. Strlen(s) : s[i] \in Int
        /\ \A i \in 0 .. Strlen(t) : t[i] \in Int
    BY StringsAre
  <2>4. Strncmp(s, t, n) = 0 <=> Within(s, n) = Within(t, n)
    <3>1. Strncmp(s, t, n) = 0 <=>
            /\ Shorter(n, Strlen(s)) = Shorter(n, Strlen(t))
            /\ \A i \in 0 .. Shorter(n, Strlen(s)) - 1 : s[i] = t[i]
      BY <2>2, <2>3, StrncmpEqual
    <3>2. /\ Within(s, n) = Piece(s, 0, Shorter(n, Strlen(s))) /\ Shorter(n, Strlen(s)) \in Nat
          /\ Within(t, n) = Piece(t, 0, Shorter(n, Strlen(t))) /\ Shorter(n, Strlen(t)) \in Nat
      <4>1. Strlen(s) \in Nat /\ Strlen(t) \in Nat
        BY <2>2 DEF StringOf
      <4>2. Within(s, n) = Piece(s, 0, Shorter(n, Strlen(s))) /\ Shorter(n, Strlen(s)) \in 0 .. Strlen(s)
        BY <2>2, WithinIs
      <4>3. Within(t, n) = Piece(t, 0, Shorter(n, Strlen(t))) /\ Shorter(n, Strlen(t)) \in 0 .. Strlen(t)
        BY <2>2, WithinIs
      <4> QED
        BY <4>1, <4>2, <4>3
    <3> QED
      BY <3>1, <3>2, PiecesEqual
  <2> QED
    BY <2>1, <2>4 DEF Call, SearchesRight, Within
<1>3. CASE DoStrnstr
  <2>1. PICK s \in Strings, t \in Strings, n \in Sizes :
          Call("strnstr", [s |-> s, t |-> t, n |-> n], [value |-> Strnstr(s, t, n)])
    BY <1>3 DEF DoStrnstr
  <2>2. n \in Nat /\ StringOf(s, Strlen(s)) /\ StringOf(t, Strlen(t))
    BY StringsAre DEF Sizes
  <2>3. /\ \A i \in 0 .. Strlen(s) : s[i] \in Int
        /\ \A i \in 0 .. Strlen(t) : t[i] \in Int
    BY StringsAre
  <2>4. Strnstr(s, t, n) = IF Hits(s, t, n) = {} THEN Nowhere ELSE Min(Hits(s, t, n))
    BY <2>2, <2>3, StrnstrFinds
  <2> QED
    BY <2>1, <2>4 DEF Call, SearchesRight, Hits, Within
<1>4. CASE DoStrlcpy \/ DoStrlcat \/ DoStrdup \/ DoStrmapi \/ DoStrjoin \/ DoStrtrim \/ DoSubstr \/ DoSplit
  <2>1. call'.name \in {"strlcpy", "strlcat", "strdup", "strmapi", "strjoin", "strtrim", "substr", "split"}
    BY <1>4 DEF DoStrlcpy, DoStrlcat, DoStrdup, DoStrmapi, DoStrjoin, DoStrtrim, DoSubstr, DoSplit, Returns, Call
  <2> QED
    BY <2>1 DEF SearchesRight
<1> QED
  BY <1>1, <1>2, <1>3, <1>4 DEF StringCall

LEMMA CutCalls ==
  ASSUME StringCall
  PROVE  CutsTell'
<1>1. CASE DoStrlcpy
  <2>1. PICK d \in Strings, s \in Strings, n \in Sizes :
          /\ n <= Cardinality(DOMAIN d)
          /\ Call("strlcpy", [d |-> d, s |-> s, n |-> n], Strlcpy(d, s, n))
    BY <1>1 DEF DoStrlcpy
  <2>2. StringOf(d, Strlen(d)) /\ StringOf(s, Strlen(s)) /\ n \in Nat
    BY StringsAre DEF Sizes
  <2>3. n \in 0 .. Strlen(d) + 1
    <3>1. DOMAIN d = 0 .. (Strlen(d) + 1) - 1 /\ Strlen(d) + 1 \in Nat
      BY <2>2 DEF StringOf
    <3>2. Cardinality(DOMAIN d) = Strlen(d) + 1
      BY <3>1, CountTo
    <3> QED
      BY <2>1, <2>2, <3>1, <3>2
  <2>4. Tells(<<>>, d, s, n, Strlcpy(d, s, n))
    BY <2>2, <2>3, StrlcpyTells
  <2> QED
    BY <2>1, <2>4 DEF Call, CutsTell, Tells
<1>2. CASE DoStrlcat
  <2>1. PICK d \in Strings, s \in Strings, n \in Sizes :
          Call("strlcat", [d |-> Buffer(d, n), s |-> s, n |-> n], Strlcat(Buffer(d, n), s, n))
    BY <1>2 DEF DoStrlcat
  <2>2. StringOf(s, Strlen(s)) /\ n \in Nat
    BY StringsAre DEF Sizes
  <2>3. Reads(Buffer(d, n), Strlen(d)) /\ 0 .. n - 1 \subseteq DOMAIN Buffer(d, n)
    BY <2>2, BufferReads
  <2>4. Tells(Text(Buffer(d, n)), Buffer(d, n), s, n, Strlcat(Buffer(d, n), s, n))
    BY <2>2, <2>3, StrlcatTells
  <2> QED
    BY <2>1, <2>4 DEF Call, CutsTell, Tells
<1>3. CASE DoStrchr \/ DoStrncmp \/ DoStrnstr \/ DoStrdup \/ DoStrmapi \/ DoStrjoin \/ DoStrtrim
           \/ DoSubstr \/ DoSplit
  <2>1. call'.name \notin {"strlcpy", "strlcat"}
    BY <1>3 DEF DoStrchr, DoStrncmp, DoStrnstr, DoStrdup, DoStrmapi, DoStrjoin, DoStrtrim, DoSubstr, DoSplit,
       Returns, Call
  <2> QED
    BY <2>1 DEF CutsTell
<1> QED
  BY <1>1, <1>2, <1>3 DEF StringCall

\* A call that returns a block made for the text that its name promises.
LEMMA MakingCalls ==
  ASSUME StringCall
  PROVE  BlocksFilled' /\ PiecesRight'
<1>1. ASSUME result' = Null PROVE BlocksFilled' /\ PiecesRight'
  BY <1>1 DEF BlocksFilled, PiecesRight, Made
<1>2. CASE DoStrdup
  <2>1. PICK s \in Strings : Returns("strdup", [s |-> s], Strdup(s))
    BY <1>2 DEF DoStrdup
  <2>2. MadeOf(Strdup(s), Text(s))
    BY StringsAre, StrdupMakes
  <2>3. CASE Call("strdup", [s |-> s], Strdup(s))
    BY <2>2, <2>3 DEF Call, MadeOf, BlocksFilled, PiecesRight
  <2> QED
    BY <1>1, <2>1, <2>3 DEF Returns, Call
<1>3. CASE DoStrmapi
  <2>1. PICK s \in Strings : Returns("strmapi", [s |-> s], Strmapi(s))
    BY <1>3 DEF DoStrmapi
  <2>2. MadeOf(Strmapi(s), [ i \in 1 .. Strlen(s) |-> F(i - 1, s[i - 1]) ])
    <3>1. StringOf(s, Strlen(s)) /\ \A i \in 0 .. Strlen(s) - 1 : s[i] \in Nat
      BY StringsAre DEF StringOf
    <3> QED
      BY <3>1, StrmapiMakes
  <2>3. CASE Call("strmapi", [s |-> s], Strmapi(s))
    BY <2>2, <2>3 DEF Call, MadeOf, BlocksFilled, PiecesRight
  <2> QED
    BY <1>1, <2>1, <2>3 DEF Returns, Call
<1>4. CASE DoStrjoin
  <2>1. PICK s \in Strings, t \in Strings : Returns("strjoin", [s |-> s, t |-> t], Strjoin(s, t))
    BY <1>4 DEF DoStrjoin
  <2>2. MadeOf(Strjoin(s, t), Text(s) \o Text(t))
    BY StringsAre, StrjoinMakes
  <2>3. CASE Call("strjoin", [s |-> s, t |-> t], Strjoin(s, t))
    BY <2>2, <2>3 DEF Call, MadeOf, BlocksFilled, PiecesRight
  <2> QED
    BY <1>1, <2>1, <2>3 DEF Returns, Call
<1>5. CASE DoSubstr
  <2>1. PICK s \in Strings, start \in Sizes, n \in Sizes :
          Returns("substr", [s |-> s, start |-> start, n |-> n], Substr(s, start, n))
    BY <1>5 DEF DoSubstr
  <2>2. MadeOf(Substr(s, start, n), SubSeq(Text(s), start + 1, Min({Strlen(s), start + n})))
    <3>1. StringOf(s, Strlen(s)) /\ start \in Nat /\ n \in Nat
      BY StringsAre DEF Sizes
    <3> QED
      BY <3>1, SubstrMakes
  <2>3. CASE Call("substr", [s |-> s, start |-> start, n |-> n], Substr(s, start, n))
    BY <2>2, <2>3 DEF Call, MadeOf, BlocksFilled, PiecesRight
  <2> QED
    BY <1>1, <2>1, <2>3 DEF Returns, Call
<1>6. CASE DoStrtrim
  <2>1. PICK s \in Strings, t \in Strings : Returns("strtrim", [s |-> s, t |-> t], Strtrim(s, t))
    BY <1>6 DEF DoStrtrim
  <2>2. PICK p \in (0 .. Strlen(s)) \X (0 .. Strlen(s)) : TrimsTo(s, t, Strlen(s), p)
    BY StringsAre, StrtrimMakes
  <2>3. p[1] <= p[2] /\ p[1] \in Nat /\ p[2] \in Nat
    <3>1. Strlen(s) \in Nat
      BY StringsAre DEF StringOf
    <3> QED
      BY <2>2, <3>1 DEF TrimsTo, TrimCuts
  <2>4. Len(Piece(s, p[1], p[2])) = p[2] - p[1]
    BY <2>3 DEF Piece
  <2>5. CASE Call("strtrim", [s |-> s, t |-> t], Strtrim(s, t))
    <3>1. BlocksFilled'
      BY <2>2, <2>5 DEF TrimsTo, Call, MadeOf, BlocksFilled
    <3>2. PiecesRight'
      BY <2>2, <2>4, <2>5 DEF TrimsTo, TrimCuts, Call, MadeOf, PiecesRight
    <3> QED
      BY <3>1, <3>2
  <2> QED
    BY <1>1, <2>1, <2>5 DEF Returns, Call
<1>7. CASE DoSplit
  <2>1. PICK s \in Strings, c \in Letters \cup {NUL}, pieces \in 0 .. MaxLen :
          Returns("split", [s |-> s, c |-> c], Split(s, c, pieces))
    BY <1>7 DEF DoSplit
  <2>2. \A k \in DOMAIN Split(s, c, pieces).array :
          LET b == Split(s, c, pieces).array[k]
          IN  DOMAIN b.str = 0 .. b.size - 1 /\ Strlen(b.str) = b.size - 1
    BY StringsAre, SplitPiecesFilled
  <2>3. CASE Call("split", [s |-> s, c |-> c], Split(s, c, pieces))
    BY <2>2, <2>3 DEF Call, Making, BlocksFilled, PiecesRight
  <2> QED
    BY <1>1, <2>1, <2>3 DEF Returns, Call
<1>8. CASE DoStrchr \/ DoStrncmp \/ DoStrnstr \/ DoStrlcpy \/ DoStrlcat
  <2>1. call'.name \in {"strchr", "strrchr", "strncmp", "strnstr", "strlcpy", "strlcat"}
    BY <1>8 DEF DoStrchr, DoStrncmp, DoStrnstr, DoStrlcpy, DoStrlcat, Call
  <2> QED
    BY <2>1 DEF BlocksFilled, PiecesRight, Making
<1> QED
  BY <1>2, <1>3, <1>4, <1>5, <1>6, <1>7, <1>8 DEF StringCall

LEMMA SplitCalls ==
  ASSUME StringCall
  PROVE  SplitsAllOrNothing'
<1>1. CASE DoSplit
  <2>1. PICK s \in Strings, c \in Letters \cup {NUL}, pieces \in 0 .. MaxLen :
          Returns("split", [s |-> s, c |-> c], Split(s, c, pieces))
    BY <1>1 DEF DoSplit
  <2>2. SplitWhole(s, c, Strlen(s), Split(s, c, pieces))
    BY StringsAre, SplitIsWhole
  <2>3. call'.args.s = s /\ call'.args.c = c /\ (result' = Null \/ result' = Split(s, c, pieces))
    BY <2>1 DEF Returns, Call
  <2>4. result' # Null => SplitWhole(call'.args.s, call'.args.c, Strlen(call'.args.s), result')
    BY <2>2, <2>3
  <2> QED
    BY <2>4 DEF SplitsAllOrNothing, Made, SplitWhole, Runs, CutAt
<1>2. CASE ~DoSplit
  <2>1. call'.name # "split"
    BY <1>2 DEF StringCall, DoStrchr, DoStrncmp, DoStrnstr, DoStrlcpy, DoStrlcat,
       DoStrdup, DoStrmapi, DoStrjoin, DoStrtrim, DoSubstr, Returns, Call
  <2> QED
    BY <2>1 DEF SplitsAllOrNothing
<1> QED
  BY <1>1, <1>2
-----------------------------------------------------------------------------
(***************************************************************************)
(* Printing                                                                *)
(***************************************************************************)
\* f repeats G for every digit of a number, the first digit first.
Divides(f, b, a, G) == \A k \in Nat : f[k] = G[<<IF k >= b THEN f[k \div b] ELSE a, k>>]

\* A recursion that divides by the base comes to an end.
LEMMA ByDivision ==
  ASSUME NEW D, NEW b \in {10, 16}, NEW a \in D, NEW G \in [D \X Nat -> D]
  PROVE  \E f \in [Nat -> D] : Divides(f, b, a, G)
<1> DEFINE h == [ k \in Nat |-> k \div b ]
<1>1. \A k \in Nat : k >= b => h[k] \in 0 .. k - 1
  <2>1. CASE b = 10
    BY <2>1
  <2>2. CASE b = 16
    BY <2>2
  <2> QED
    BY <2>1, <2>2
<1>2. b \in Nat \ {0}
  OBVIOUS
<1>3. \A k \in Nat : h[k] = k \div b
  OBVIOUS
<1> HIDE DEF h
<1>4. PICK f \in [Nat -> D] : Recurs(f, h, b, a, G)
  BY <1>1, <1>2, Descending
<1> QED
  BY <1>3, <1>4 DEF Recurs, Divides
-----------------------------------------------------------------------------
\* w is s with t behind it.
IsJoin(w, s, t) ==
  /\ Len(w) = Len(s) + Len(t)
  /\ \A j \in 1 .. Len(s) : w[j] = s[j]
  /\ \A j \in 1 .. Len(t) : w[Len(s) + j] = t[j]

LEMMA Joined ==
  ASSUME NEW S, NEW s \in Seq(S), NEW t \in Seq(S)
  PROVE  IsJoin(s \o t, s, t)
<1>1. /\ Len(s) \in Nat /\ Len(t) \in Nat /\ Len(s \o t) = Len(s) + Len(t)
      /\ \A i \in 1 .. Len(s) + Len(t) : (s \o t)[i] = IF i <= Len(s) THEN s[i] ELSE t[i - Len(s)]
  BY ConcatProperties
<1>2. ASSUME NEW j \in 1 .. Len(t) PROVE (s \o t)[Len(s) + j] = t[j]
  <2>1. Len(s) + j \in 1 .. Len(s) + Len(t) /\ ~(Len(s) + j <= Len(s)) /\ (Len(s) + j) - Len(s) = j
    BY <1>1
  <2> QED
    BY <1>1, <2>1
<1> QED
  BY <1>1, <1>2 DEF IsJoin

\* The digits d are read one after the other: v[i] is what the first i make.
Horner(base, L, d, v) ==
  /\ base \in Nat /\ L \in Nat /\ d \in [1 .. L -> Nat] /\ Len(d) = L
  /\ v \in [0 .. L -> Nat] /\ v[0] = 0 /\ \A i \in 1 .. L : v[i] = v[i - 1] * base + d[i]

\* That computes what the digits add up to, each with the weight of its place.
LEMMA NumeralIs ==
  ASSUME NEW base, NEW L, NEW d, NEW v, Horner(base, L, d, v)
  PROVE  Numeral(d, base) = v[L]
<1> /\ base \in Nat /\ L \in Nat /\ d \in [1 .. L -> Nat] /\ Len(d) = L
    /\ v \in [0 .. L -> Nat] /\ v[0] = 0 /\ \A i \in 1 .. L : v[i] = v[i - 1] * base + d[i]
  BY DEF Horner
<1>0. \A x \in Nat : base * x \in Nat
  OBVIOUS
<1> DEFINE Weights(f) == [ k \in Nat |-> IF k = 0 THEN 1 ELSE base * f[k - 1] ]
           weight == CHOOSE f : f = Weights(f)
           Sums(f) == [ k \in 0 .. L |-> IF k = 0 THEN 0 ELSE f[k - 1] + d[k] * weight[L - k] ]
           sum == CHOOSE f : f = Sums(f)
           g == [ k \in 0 .. L |-> v[k] * weight[L - k] ]
<1>1. Numeral(d, base) = sum[L]
  BY DEF Numeral
<1>2. \E f \in [Nat -> Nat] : f = Weights(f)
  <2> DEFINE h == [ k \in Nat |-> IF k = 0 THEN 0 ELSE k - 1 ]
             G == [ x \in Nat \X Nat |-> IF x[2] = 0 THEN 1 ELSE base * x[1] ]
  <2>1. \A k \in Nat : k >= 1 => h[k] = k - 1 /\ h[k] \in 0 .. k - 1
    OBVIOUS
  <2>2. G \in [Nat \X Nat -> Nat] /\ \A x, k \in Nat : G[<<x, k>>] = IF k = 0 THEN 1 ELSE base * x
    OBVIOUS
  <2> HIDE DEF h, G
  <2>3. PICK f \in [Nat -> Nat] : Recurs(f, h, 1, 0, G)
    <3>1. PICK b, a : b = 1 /\ a = 0
      OBVIOUS
    <3>2. /\ b \in Nat \ {0} /\ a \in Nat /\ G \in [Nat \X Nat -> Nat]
          /\ \A k \in Nat : k >= b => h[k] \in 0 .. k - 1
      BY <2>1, <2>2, <3>1
    <3>3. \E f \in [Nat -> Nat] : Recurs(f, h, b, a, G)
      BY ONLY <3>2, Descending
    <3> QED
      BY <3>1, <3>3
  <2>4. ASSUME NEW k \in Nat PROVE f[k] = IF k = 0 THEN 1 ELSE base * f[k - 1]
    <3>1. f[k] = G[<<IF k >= 1 THEN f[h[k]] ELSE 0, k>>]
      BY <2>3 DEF Recurs
    <3>2. CASE k = 0
      BY <2>2, <3>1, <3>2
    <3>3. CASE k # 0
      <4>1. k >= 1 /\ k - 1 \in Nat
        BY <3>3
      <4>2. f[k] = G[<<f[k - 1], k>>] /\ f[k - 1] \in Nat
        BY <2>1, <3>1, <4>1
      <4> QED
        BY <2>2, <3>3, <4>2
    <3> QED
      BY <3>2, <3>3
  <2>5. f = Weights(f)
    BY <2>4
  <2> QED
    BY <2>5
<1>3. weight = Weights(weight)
  BY <1>2
<1> HIDE DEF weight
<1>4. /\ weight[0] = 1
      /\ \A k \in Nat : k # 0 => weight[k] = base * weight[k - 1]
  <2>1. \A k \in Nat : weight[k] = IF k = 0 THEN 1 ELSE base * weight[k - 1]
    BY <1>3
  <2> QED
    BY <2>1
<1>5. \A k \in 0 .. L : weight[k] \in Nat
  <2> DEFINE T == { k \in Nat : weight[k] \in Nat }
  <2>1. 0 \in T /\ \A i \in 1 .. L : i - 1 \in T => i \in T
    <3>1. ASSUME NEW i \in 1 .. L, i - 1 \in T PROVE i \in T
      <4>1. i \in Nat /\ i # 0 /\ weight[i - 1] \in Nat
        BY <3>1
      <4> QED
        BY <1>0, <1>4, <4>1
    <3> QED
      BY <1>4, <3>1
  <2> HIDE DEF T
  <2>2. 0 .. L \subseteq T
    BY <2>1, Climb
  <2> QED
    BY <2>2 DEF T
<1>6. ASSUME NEW k \in 1 .. L
      PROVE  v[k] * weight[L - k] = v[k - 1] * weight[L - (k - 1)] + d[k] * weight[L - k]
  <2>1. PICK x, e, u : x = v[k - 1] /\ e = d[k] /\ u = weight[L - k]
    OBVIOUS
  <2>2. k - 1 \in 0 .. L /\ L - k \in 0 .. L /\ L - (k - 1) \in 0 .. L /\ L - (k - 1) # 0 /\ (L - (k - 1)) - 1 = L - k
    OBVIOUS
  <2>3. x \in Nat /\ e \in Nat /\ v[k] = x * base + e
    BY <2>1, <2>2
  <2>4. u \in Nat
    BY <1>5, <2>1, <2>2
  <2>5. weight[L - (k - 1)] = base * u
    <3>1. L - (k - 1) \in Nat
      OBVIOUS
    <3> QED
      BY <1>4, <2>1, <2>2, <3>1
  <2>6. (x * base + e) * u = x * (base * u) + e * u
    BY <2>3, <2>4
  <2> QED
    BY <2>1, <2>3, <2>5, <2>6
<1>7. g = Sums(g)
  <2>1. ASSUME NEW k \in 0 .. L
        PROVE  g[k] = IF k = 0 THEN 0 ELSE g[k - 1] + d[k] * weight[L - k]
    <3>1. CASE k = 0
      <4>1. weight[L - 0] \in Nat
        BY <1>5
      <4> QED
        BY <3>1, <4>1
    <3>2. CASE k # 0
      <4>1. k \in 1 .. L /\ k - 1 \in 0 .. L
        BY <3>2
      <4> QED
        BY <1>6, <3>2, <4>1
    <3> QED
      BY <3>1, <3>2
  <2> QED
    BY <2>1
<1>8. sum = Sums(sum)
  <2> HIDE DEF g
  <2> QED
    BY <1>7
<1> HIDE DEF sum, g
<1> DEFINE T == { k \in 0 .. L : sum[k] = g[k] }
<1>9. 0 \in T /\ \A i \in 1 .. L : i - 1 \in T => i \in T
  <2>1. \A k \in 0 .. L : sum[k] = IF k = 0 THEN 0 ELSE sum[k - 1] + d[k] * weight[L - k]
    BY <1>8
  <2>2. \A k \in 0 .. L : g[k] = IF k = 0 THEN 0 ELSE g[k - 1] + d[k] * weight[L - k]
    BY <1>7
  <2>3. 0 \in 0 .. L /\ \A i \in 1 .. L : i \in 0 .. L /\ i # 0
    OBVIOUS
  <2>4. 0 \in T
    BY <2>1, <2>2, <2>3
  <2>5. ASSUME NEW i \in 1 .. L, i - 1 \in T PROVE i \in T
    <3>1. i \in 0 .. L /\ i # 0
      OBVIOUS
    <3>2. sum[i] = sum[i - 1] + d[i] * weight[L - i] /\ g[i] = g[i - 1] + d[i] * weight[L - i]
      BY <2>1, <2>2, <3>1
    <3>3. sum[i - 1] = g[i - 1]
      BY <2>5
    <3> QED
      BY <3>1, <3>2, <3>3
  <2> HIDE DEF T
  <2> QED
    BY <2>4, <2>5
<1> HIDE DEF T
<1>10. 0 .. L \subseteq T
  BY <1>9, Climb
<1>11. sum[L] = g[L]
  BY <1>10 DEF T
<1>12. g[L] = v[L]
  <2>1. L - L = 0 /\ L \in 0 .. L /\ v[L] \in Nat
    OBVIOUS
  <2> QED
    BY <1>4, <2>1 DEF g
<1> QED
  BY <1>1, <1>11, <1>12
-----------------------------------------------------------------------------
\* The characters that are printed, and the null pointer of NoText.
Symbols ==
  {"0", "1", "2", "3", "4", "5", "6", "7", "8", "9", "a", "b", "c", "d", "e", "f",
   "A", "B", "C", "D", "E", "F", "-", "x", "%", "\n", "NULL"}

\* An output, and what it is after a call that returned printed.
OutputStates ==
  [fd : Int, at : Nat, how : {"fails", "shortens", "never"}, text : Seq(Symbols), writes : Nat, failed : Nat, printed : Int]

Balance(o) == Len(o.text) - o.failed

Delivers(o, p) ==
  /\ p \in OutputStates /\ p.fd = o.fd
  /\ o.fd >= 0 => p.printed = Balance(p) - Balance(o)
  /\ o.fd < 0 => p.writes = o.writes

LEMMA WriteDelivers ==
  ASSUME NEW o \in OutputStates, o.fd >= 0, NEW s \in Seq(Symbols)
  PROVE  Delivers(o, Write(o, s))
<1> DEFINE wrong == o.writes + 1 = o.at
           failed == wrong /\ o.how = "fails"
           n == IF failed THEN 0 ELSE IF wrong /\ Len(s) > 1 THEN Len(s) - 1 ELSE Len(s)
           sent == SubSeq(s, 1, n)
           p == Write(o, s)
<1>1. /\ o.text \in Seq(Symbols) /\ o.writes \in Nat /\ o.failed \in Nat /\ o.fd \in Int
      /\ Len(o.text) \in Nat /\ Len(s) \in Nat
  BY DEF OutputStates
<1>2. n \in 0 .. Len(s)
  BY <1>1
<1>3. p = [ o EXCEPT !.writes = o.writes + 1, !.failed = IF failed THEN o.failed + 1 ELSE o.failed,
                     !.text = o.text \o sent, !.printed = IF failed THEN -1 ELSE n ]
  BY DEF Write
<1>4. failed => n = 0
  OBVIOUS
<1> HIDE DEF n, failed, p
<1>5. sent \in Seq(Symbols) /\ Len(sent) = n
  BY <1>2
<1> HIDE DEF sent
<1>6. o.text \o sent \in Seq(Symbols) /\ Len(o.text \o sent) = Len(o.text) + n
  BY <1>1, <1>5, ConcatProperties
<1>7. /\ p.fd = o.fd /\ p.text = o.text \o sent /\ p.writes = o.writes + 1
      /\ p.failed = IF failed THEN o.failed + 1 ELSE o.failed
      /\ p.printed = IF failed THEN -1 ELSE n
  BY <1>3 DEF OutputStates
<1>8. p \in OutputStates
  <2>1. (IF failed THEN o.failed + 1 ELSE o.failed) \in Nat /\ (IF failed THEN -1 ELSE n) \in Int
    BY <1>1, <1>2
  <2>2. o.at \in Nat /\ o.how \in {"fails", "shortens", "never"} /\ o.writes + 1 \in Nat
    BY <1>1 DEF OutputStates
  <2>3. p = [ fd |-> o.fd, at |-> o.at, how |-> o.how, text |-> o.text \o sent, writes |-> o.writes + 1,
              failed |-> IF failed THEN o.failed + 1 ELSE o.failed, printed |-> IF failed THEN -1 ELSE n ]
    BY <1>3 DEF OutputStates
  <2> QED
    BY <1>1, <1>6, <2>1, <2>2, <2>3 DEF OutputStates
<1>9. p.printed = Balance(p) - Balance(o)
  BY <1>1, <1>2, <1>4, <1>6, <1>7 DEF Balance
<1>10. ~(o.fd < 0)
  BY <1>1
<1> QED
  BY <1>7, <1>8, <1>9, <1>10 DEF Delivers, p

LEMMA NothingDelivers ==
  ASSUME NEW o \in OutputStates
  PROVE  Delivers(o, Returning(o, 0)) /\ (o.fd < 0 => Delivers(o, Returning(o, -1)))
<1>1. o.text \in Seq(Symbols) /\ o.failed \in Nat /\ o.fd \in Int /\ Balance(o) \in Int
  BY DEF OutputStates, Balance
<1>2. ASSUME NEW n \in Int
      PROVE  /\ Returning(o, n) \in OutputStates /\ Returning(o, n).fd = o.fd
             /\ Returning(o, n).printed = n /\ Returning(o, n).writes = o.writes
             /\ Balance(Returning(o, n)) = Balance(o)
  BY DEF Returning, OutputStates, Balance
<1> QED
  BY <1>1, <1>2 DEF Delivers

LEMMA PutCharDelivers ==
  ASSUME NEW o \in OutputStates, NEW c \in Symbols
  PROVE  Delivers(o, PutChar(o, c))
<1>1. CASE o.fd < 0
  BY <1>1, NothingDelivers DEF PutChar
<1>2. CASE o.fd >= 0
  <2>1. <<c>> \in Seq(Symbols) /\ ~(o.fd < 0)
    BY <1>2 DEF OutputStates
  <2> QED
    BY <1>2, <2>1, WriteDelivers DEF PutChar
<1> QED
  BY <1>1, <1>2 DEF OutputStates

LEMMA PutStrDelivers ==
  ASSUME NEW o \in OutputStates, NEW s \in Seq(Symbols)
  PROVE  Delivers(o, PutStr(o, s))
<1>1. CASE s = NoText \/ o.fd < 0
  BY <1>1, NothingDelivers DEF PutStr
<1>2. CASE ~(s = NoText \/ o.fd < 0)
  <2>1. o.fd >= 0
    BY <1>2 DEF OutputStates
  <2> QED
    BY <1>2, <2>1, WriteDelivers DEF PutStr
<1> QED
  BY <1>1, <1>2

\* printed += f(...)
LEMMA AddedStays ==
  ASSUME NEW p \in OutputStates, NEW q \in OutputStates
  PROVE  Adding(p, q) \in OutputStates
<1>1. p.printed + q.printed \in Int
  BY DEF OutputStates
<1> QED
  BY <1>1 DEF Adding, Returning, OutputStates

LEMMA AddingDelivers ==
  ASSUME NEW o \in OutputStates, NEW p, Delivers(o, p), NEW q, Delivers(p, q)
  PROVE  Delivers(o, Adding(p, q))
<1>1. p \in OutputStates /\ q \in OutputStates /\ p.printed \in Int /\ q.printed \in Int
  BY DEF Delivers, OutputStates
<1>2. Adding(p, q) = [q EXCEPT !.printed = p.printed + q.printed]
  BY DEF Adding, Returning
<1>3. Adding(p, q) = [ fd |-> q.fd, at |-> q.at, how |-> q.how, text |-> q.text, writes |-> q.writes,
                       failed |-> q.failed, printed |-> p.printed + q.printed ]
  BY <1>1, <1>2 DEF OutputStates
<1>4. /\ Adding(p, q) \in OutputStates /\ Adding(p, q).fd = q.fd /\ Adding(p, q).writes = q.writes
      /\ Adding(p, q).printed = p.printed + q.printed /\ Balance(Adding(p, q)) = Balance(q)
  <2>1. p.printed + q.printed \in Int
    BY <1>1
  <2> QED
    BY <1>1, <1>3, <2>1 DEF OutputStates, Balance
<1>5. Balance(o) \in Int /\ Balance(p) \in Int /\ Balance(q) \in Int
  <2>1. \A r \in OutputStates : r.text \in Seq(Symbols) /\ r.failed \in Nat
    BY DEF OutputStates
  <2>2. \A r \in OutputStates : Balance(r) \in Int
    BY <2>1 DEF Balance
  <2> QED
    BY <1>1, <2>2
<1> QED
  BY <1>1, <1>4, <1>5 DEF Delivers

\* The digits of a number, behind what comes first.
Digits(first, b, digits, f) ==
  [ k \in Nat |-> LET above == IF k >= b THEN f[k \div b] ELSE first
                  IN  Adding(above, PutChar(above, digits[(k % b) + 1])) ]

IsDigits(digits, b) == \A i \in 1 .. b : digits[i] \in Symbols

LEMMA QuotientIsLess ==
  ASSUME NEW b \in {10, 16}
  PROVE  /\ \A k \in Nat : k % b \in 0 .. b - 1 /\ (k % b) + 1 \in 1 .. b
         /\ \A k \in Nat : k >= b => k \div b \in 0 .. k - 1
<1>1. CASE b = 10
  BY <1>1
<1>2. CASE b = 16
  BY <1>2
<1> QED
  BY <1>1, <1>2

\* One digit more.
LEMMA DigitDelivers ==
  ASSUME NEW o \in OutputStates, NEW p, Delivers(o, p), NEW b \in {10, 16},
         NEW digits, IsDigits(digits, b), NEW k \in Nat
  PROVE  Delivers(o, Adding(p, PutChar(p, digits[(k % b) + 1])))
<1>1. digits[(k % b) + 1] \in Symbols
  BY QuotientIsLess DEF IsDigits
<1>2. Delivers(p, PutChar(p, digits[(k % b) + 1]))
  BY <1>1, PutCharDelivers DEF Delivers
<1> QED
  BY <1>2, AddingDelivers

LEMMA DigitsExist ==
  ASSUME NEW first \in OutputStates, NEW b \in {10, 16}, NEW digits, IsDigits(digits, b)
  PROVE  \E f : f = Digits(first, b, digits, f)
<1> DEFINE D == OutputStates
           Put(p, k) == Adding(p, PutChar(p, digits[(k % b) + 1]))
           G == [ x \in D \X Nat |-> Put(x[1], x[2]) ]
<1>1. ASSUME NEW p \in D, NEW k \in Nat PROVE Put(p, k) \in D
  <2>1. digits[(k % b) + 1] \in Symbols
    BY QuotientIsLess DEF IsDigits
  <2>2. PutChar(p, digits[(k % b) + 1]) \in OutputStates
    BY <2>1, PutCharDelivers DEF Delivers
  <2> QED
    BY <2>2, AddedStays
<1>2. first \in D
  OBVIOUS
<1> HIDE DEF D, Put
<1>3. G \in [D \X Nat -> D]
  BY <1>1
<1>4. PICK f \in [Nat -> D] : Divides(f, b, first, G)
  <2> HIDE DEF G
  <2>1. b \in {10, 16}
    OBVIOUS
  <2> QED
    BY ONLY <1>2, <1>3, <2>1, ByDivision
<1>5. \A k \in Nat : k >= b => k \div b \in 0 .. k - 1
  BY QuotientIsLess
<1>6. f = Digits(first, b, digits, f)
  <2>1. ASSUME NEW k \in Nat
        PROVE  f[k] = LET above == IF k >= b THEN f[k \div b] ELSE first
                      IN  Adding(above, PutChar(above, digits[(k % b) + 1]))
    <3> DEFINE above == IF k >= b THEN f[k \div b] ELSE first
    <3>1. above \in D
      BY <1>2, <1>5
    <3>2. f[k] = G[<<above, k>>]
      BY <1>4 DEF Divides
    <3> HIDE DEF above
    <3>3. f[k] = Put(above, k)
      BY <3>1, <3>2
    <3> QED
      BY <3>3 DEF Put, above
  <2> QED
    BY <2>1 DEF Digits
<1> QED
  BY <1>6

LEMMA DigitsDeliver ==
  ASSUME NEW o \in OutputStates, NEW first, Delivers(o, first), NEW b \in {10, 16},
         NEW digits, IsDigits(digits, b), NEW n \in Nat
  PROVE  Delivers(o, (CHOOSE f : f = Digits(first, b, digits, f))[n])
<1> DEFINE Put(p, k) == Adding(p, PutChar(p, digits[(k % b) + 1]))
           g == CHOOSE h : h = Digits(first, b, digits, h)
           Bad == { k \in Nat : ~Delivers(o, g[k]) }
<1>1. g = Digits(first, b, digits, g)
  BY DigitsExist DEF Delivers
<1> HIDE DEF g
<1>2. \A k \in Nat : g[k] = Put(IF k >= b THEN g[k \div b] ELSE first, k)
  BY <1>1 DEF Digits
<1>3. ASSUME Bad # {} PROVE FALSE
  <2>1. PICK k \in Bad : \A j \in Bad : k <= j
    <3>1. Bad \in SUBSET Nat /\ Bad # {}
      BY <1>3
    <3> HIDE DEF Bad
    <3> QED
      BY <3>1, Least
  <2>2. k \in Nat /\ ~Delivers(o, g[k])
    OBVIOUS
  <2>3. k >= b => Delivers(o, g[k \div b])
    <3> SUFFICES ASSUME k >= b PROVE Delivers(o, g[k \div b])
      OBVIOUS
    <3>1. k \div b \in Nat /\ ~(k <= k \div b)
      <4>1. k \div b \in 0 .. k - 1
        BY <2>2, QuotientIsLess
      <4> QED
        BY <2>2, <4>1
    <3>2. k \div b \notin Bad
      <4> HIDE DEF Bad
      <4> QED
        BY <2>1, <3>1
    <3> QED
      BY <3>1, <3>2
  <2>4. Delivers(o, IF k >= b THEN g[k \div b] ELSE first)
    BY <2>3
  <2> QED
    BY <1>2, <2>2, <2>4, DigitDelivers
<1> QED
  BY <1>3 DEF g

LEMMA Tables ==
  /\ Len(UDECIMAL) = 10 /\ IsDigits(UDECIMAL, 10)
  /\ Len(UHEX_L) = 16 /\ IsDigits(UHEX_L, 16)
  /\ Len(UHEX_U) = 16 /\ IsDigits(UHEX_U, 16)
<1> DEFINE lower == <<"a", "b", "c", "d", "e", "f">>
           upper == <<"A", "B", "C", "D", "E", "F">>
<1>1. UDECIMAL \in Seq(Symbols) /\ Len(UDECIMAL) = 10
  BY DEF UDECIMAL, Symbols
<1>2. lower \in Seq(Symbols) /\ Len(lower) = 6 /\ upper \in Seq(Symbols) /\ Len(upper) = 6
  BY DEF Symbols
<1>3. UHEX_L = UDECIMAL \o lower /\ UHEX_U = UDECIMAL \o upper
  BY DEF UHEX_L, UHEX_U
<1> HIDE DEF lower, upper
<1>4. /\ UHEX_L \in Seq(Symbols) /\ Len(UHEX_L) = 16
      /\ UHEX_U \in Seq(Symbols) /\ Len(UHEX_U) = 16
  <2>1. ASSUME NEW s \in Seq(Symbols), NEW t \in Seq(Symbols), NEW w, w = s \o t
        PROVE  w \in Seq(Symbols) /\ Len(w) = Len(s) + Len(t)
    <3>1. s \o t \in Seq(Symbols) /\ Len(s \o t) = Len(s) + Len(t)
      BY ConcatProperties
    <3> QED
      BY <2>1, <3>1
  <2>2. UHEX_L \in Seq(Symbols) /\ Len(UHEX_L) = Len(UDECIMAL) + Len(lower)
    BY ONLY <1>1, <1>2, <1>3, <2>1
  <2>3. UHEX_U \in Seq(Symbols) /\ Len(UHEX_U) = Len(UDECIMAL) + Len(upper)
    BY ONLY <1>1, <1>2, <1>3, <2>1
  <2> QED
    BY <1>1, <1>2, <2>2, <2>3
<1>5. \A s \in Seq(Symbols) : IsDigits(s, Len(s))
  BY DEF IsDigits
<1> QED
  BY <1>1, <1>4, <1>5

\* The printers of numbers.
LEMMA PutUnbrDelivers ==
  ASSUME NEW o \in OutputStates, NEW b \in {10, 16}, NEW digits, Len(digits) = b, IsDigits(digits, b),
         NEW n \in Nat
  PROVE  Delivers(o, PutUnbr(o, n, digits))
<1>1. CASE o.fd < 0
  BY <1>1, NothingDelivers DEF PutUnbr
<1>2. CASE ~(o.fd < 0)
  <2>1. Delivers(o, (CHOOSE f : f = Digits(Returning(o, 0), b, digits, f))[n])
    BY NothingDelivers, DigitsDeliver
  <2>2. ~(b < 2) /\ ~(b > 16)
    OBVIOUS
  <2>3. PutUnbr(o, n, digits) = (CHOOSE f : f = Digits(Returning(o, 0), b, digits, f))[n]
    BY <1>2, <2>2 DEF PutUnbr, Digits
  <2> QED
    BY <2>1, <2>3
<1> QED
  BY <1>1, <1>2

LEMMA PutNbrDelivers ==
  ASSUME NEW o \in OutputStates, NEW n \in Int
  PROVE  Delivers(o, PutNbr(o, n))
<1>1. CASE n < 0
  <2> DEFINE minus == PutChar(o, "-")
             m == (-n) % (UIntMax + 1)
  <2>1. Delivers(o, minus) /\ minus \in OutputStates
    BY PutCharDelivers DEF Delivers, Symbols
  <2>2. m \in Nat
    BY <1>1, PrintAssumption
  <2> HIDE DEF minus, m
  <2>3. Delivers(minus, PutUnbr(minus, m, UDECIMAL))
    BY <2>1, <2>2, Tables, PutUnbrDelivers
  <2>4. Delivers(o, Adding(minus, PutUnbr(minus, m, UDECIMAL)))
    BY <2>1, <2>3, AddingDelivers
  <2> QED
    BY <1>1, <2>4 DEF PutNbr, minus, m
<1>2. CASE ~(n < 0)
  <2>1. Delivers(o, (CHOOSE f : f = Digits(Returning(o, 0), 10, UDECIMAL, f))[n])
    BY <1>2, Tables, NothingDelivers, DigitsDeliver
  <2>2. PutNbr(o, n) = (CHOOSE f : f = Digits(Returning(o, 0), 10, UDECIMAL, f))[n]
    BY <1>2 DEF PutNbr, Digits
  <2> QED
    BY <2>1, <2>2
<1> QED
  BY <1>1, <1>2

LEMMA PutPtrDelivers ==
  ASSUME NEW o \in OutputStates, NEW digits, IsDigits(digits, 16), NEW n \in Nat
  PROVE  Delivers(o, PutPtr(o, n, digits))
<1>1. <<"0", "x">> \in Seq(Symbols)
  BY DEF Symbols
<1>2. Delivers(o, PutStr(o, <<"0", "x">>))
  BY <1>1, PutStrDelivers
<1>3. Delivers(o, (CHOOSE f : f = Digits(PutStr(o, <<"0", "x">>), 16, digits, f))[n])
  BY <1>2, DigitsDeliver
<1>4. PutPtr(o, n, digits) = (CHOOSE f : f = Digits(PutStr(o, <<"0", "x">>), 16, digits, f))[n]
  BY DEF PutPtr, Digits
<1> QED
  BY <1>3, <1>4

LEMMA PutSizeDelivers ==
  ASSUME NEW o \in OutputStates, NEW b \in {10, 16}, NEW digits, IsDigits(digits, b), NEW n \in Nat
  PROVE  Delivers(o, PutSize(o, n, digits, b))
<1>1. Delivers(o, (CHOOSE f : f = Digits(Returning(o, 0), b, digits, f))[n])
  BY NothingDelivers, DigitsDeliver
<1>2. PutSize(o, n, digits, b) = (CHOOSE f : f = Digits(Returning(o, 0), b, digits, f))[n]
  BY DEF PutSize, Digits
<1> QED
  BY <1>1, <1>2

-----------------------------------------------------------------------------
\* An output whose writes do not go wrong, and the text t that a call sends.
Clean(o) == o \in OutputStates /\ o.fd >= 0 /\ o.at = 0
Sends(o, p, t) == Clean(p) /\ t \in Seq(Symbols) /\ p.text = o.text \o t

LEMMA WriteSends ==
  ASSUME NEW o, Clean(o), NEW s \in Seq(Symbols)
  PROVE  Sends(o, Write(o, s), s)
<1>1. o \in OutputStates /\ o.fd >= 0 /\ o.at = 0 /\ o.writes \in Nat
  BY DEF Clean, OutputStates
<1>2. Write(o, s) \in OutputStates /\ Write(o, s).fd = o.fd
  BY <1>1, WriteDelivers DEF Delivers
<1>3. ~(o.writes + 1 = o.at)
  BY <1>1
<1>4. Write(o, s) = [ o EXCEPT !.writes = o.writes + 1, !.failed = o.failed,
                               !.text = o.text \o SubSeq(s, 1, Len(s)), !.printed = Len(s) ]
  BY <1>3 DEF Write
<1>5. SubSeq(s, 1, Len(s)) = s
  BY SubSeqFull
<1>6. Write(o, s).at = o.at /\ Write(o, s).text = o.text \o s
  BY <1>1, <1>4, <1>5 DEF OutputStates
<1> QED
  BY <1>1, <1>2, <1>6 DEF Clean, Sends

LEMMA NothingSends ==
  ASSUME NEW o, Clean(o), NEW n \in Int
  PROVE  Sends(o, Returning(o, n), <<>>)
<1>1. o \in OutputStates /\ o.text \in Seq(Symbols) /\ o.fd >= 0 /\ o.at = 0
  BY DEF Clean, OutputStates
<1>2. Returning(o, n) \in OutputStates /\ Returning(o, n).fd = o.fd
      /\ Returning(o, n).at = o.at /\ Returning(o, n).text = o.text
  BY <1>1 DEF Returning, OutputStates
<1>3. <<>> \in Seq(Symbols)
  OBVIOUS
<1>4. o.text \o <<>> = o.text
  BY <1>1, ConcatEmptySeq
<1> QED
  BY <1>1, <1>2, <1>3, <1>4 DEF Clean, Sends

LEMMA PutCharSends ==
  ASSUME NEW o, Clean(o), NEW c \in Symbols
  PROVE  Sends(o, PutChar(o, c), <<c>>)
<1>1. <<c>> \in Seq(Symbols) /\ ~(o.fd < 0)
  BY DEF Clean, OutputStates
<1> QED
  BY <1>1, WriteSends DEF PutChar

LEMMA PutStrSends ==
  ASSUME NEW o, Clean(o), NEW s \in Seq(Symbols)
  PROVE  Sends(o, PutStr(o, s), IF s = NoText THEN <<>> ELSE s)
<1>1. ~(o.fd < 0)
  BY DEF Clean, OutputStates
<1>2. CASE s = NoText
  <2>1. Sends(o, Returning(o, 0), <<>>)
    BY NothingSends
  <2> QED
    BY <1>2, <2>1 DEF PutStr
<1>3. CASE ~(s = NoText)
  BY <1>1, <1>3, WriteSends DEF PutStr
<1> QED
  BY <1>2, <1>3

\* What is returned does not matter to what is sent.
LEMMA AddedSends ==
  ASSUME NEW o, NEW q, NEW t, Sends(o, q, t), NEW p, p.printed \in Int
  PROVE  Sends(o, Adding(p, q), t)
<1>1. q \in OutputStates /\ q.fd >= 0 /\ q.at = 0 /\ q.text = o.text \o t /\ t \in Seq(Symbols)
  BY DEF Sends, Clean
<1>2. q.printed \in Int /\ p.printed + q.printed \in Int
  BY <1>1 DEF OutputStates
<1>3. Adding(p, q) = [q EXCEPT !.printed = p.printed + q.printed]
  BY DEF Adding, Returning
<1>4. Adding(p, q) \in OutputStates /\ Adding(p, q).fd = q.fd /\ Adding(p, q).at = q.at /\ Adding(p, q).text = q.text
  BY <1>1, <1>2, <1>3 DEF OutputStates
<1> QED
  BY <1>1, <1>4 DEF Sends, Clean

\* One text behind the other.
LEMMA BothSent ==
  ASSUME NEW o, Clean(o), NEW p, NEW s, Sends(o, p, s), NEW q, NEW t, Sends(p, q, t)
  PROVE  Sends(o, q, s \o t)
<1>1. o.text \in Seq(Symbols) /\ s \in Seq(Symbols) /\ t \in Seq(Symbols)
  BY DEF Sends, Clean, OutputStates
<1>2. (o.text \o s) \o t = o.text \o (s \o t)
  <2> PICK w : w = o.text
    OBVIOUS
  <2>1. w \in Seq(Symbols) /\ s \in Seq(Symbols) /\ t \in Seq(Symbols)
    BY <1>1
  <2>2. (w \o s) \o t = w \o (s \o t)
    BY ONLY <2>1, ConcatAssociative
  <2> QED
    BY <2>2
<1>3. s \o t \in Seq(Symbols)
  BY <1>1, ConcatProperties
<1> QED
  BY <1>2, <1>3 DEF Sends

\* The digits are different, and their place is their value.
Table(digits, b) ==
  /\ b \in {10, 16} /\ Len(digits) = b /\ DOMAIN digits = 1 .. b /\ IsDigits(digits, b) /\ digits[1] = "0"
  /\ \A i, j \in 1 .. b : digits[i] = digits[j] => i = j

ValueOf(c, digits) == CHOOSE v \in 0 .. Len(digits) - 1 : digits[v + 1] = c
ValuesOf(t, digits) == [ i \in 1 .. Len(t) |-> ValueOf(t[i], digits) ]

LEMMA ValueIs ==
  ASSUME NEW digits, NEW b, Table(digits, b), NEW k \in 0 .. b - 1
  PROVE  ValueOf(digits[k + 1], digits) = k
<1>1. b \in Nat /\ Len(digits) = b /\ \A i, j \in 1 .. b : digits[i] = digits[j] => i = j
  BY DEF Table
<1>2. \A v \in 0 .. b - 1 : v + 1 \in 1 .. b /\ (digits[v + 1] = digits[k + 1] => v = k)
  <2> SUFFICES ASSUME NEW v \in 0 .. b - 1
               PROVE  v + 1 \in 1 .. b /\ (digits[v + 1] = digits[k + 1] => v = k)
    OBVIOUS
  <2>1. v + 1 \in 1 .. b /\ k + 1 \in 1 .. b /\ (v + 1 = k + 1 => v = k)
    BY <1>1
  <2> QED
    BY <1>1, <2>1
<1> QED
  BY <1>1, <1>2 DEF ValueOf

\* t is the number k.
Spelled(t, k, digits, b) ==
  /\ t \in Seq(Symbols) /\ Len(t) \in Nat \ {0}
  /\ \A i \in 1 .. Len(t) : t[i] \in Range(digits)
  /\ \E v : Horner(b, Len(t), ValuesOf(t, digits), v) /\ v[Len(t)] = k
  /\ IF k = 0 THEN Len(t) = 1 /\ t[1] = "0" ELSE t[1] # "0"

LEMMA SpelledOne ==
  ASSUME NEW digits, NEW b, Table(digits, b), NEW k \in 0 .. b - 1
  PROVE  Spelled(<<digits[k + 1]>>, k, digits, b)
<1>1. PICK c, t : c = digits[k + 1] /\ t = <<c>>
  OBVIOUS
<1>2. b \in {10, 16} /\ k + 1 \in 1 .. b /\ k + 1 \in DOMAIN digits /\ k \in Nat /\ b \in Nat
  BY DEF Table
<1>3. c \in Symbols /\ c \in Range(digits) /\ ValueOf(c, digits) = k
  BY <1>1, <1>2, ValueIs DEF Table, IsDigits, Range
<1>4. t \in Seq(Symbols) /\ Len(t) = 1 /\ t[1] = c
  BY <1>1, <1>3
<1>5. k # 0 => c # "0"
  <2>1. 1 \in 1 .. b /\ (k # 0 => k + 1 # 1)
    BY <1>2
  <2> QED
    BY <1>1, <1>2, <2>1 DEF Table
<1>6. k = 0 => c = "0"
  BY <1>1 DEF Table
<1>7. \E v : Horner(b, Len(t), ValuesOf(t, digits), v) /\ v[Len(t)] = k
  <2> DEFINE v == [ i \in 0 .. 1 |-> IF i = 0 THEN 0 ELSE k ]
             d == ValuesOf(t, digits)
  <2>1. d = [ i \in 1 .. 1 |-> ValueOf(t[i], digits) ]
    BY <1>4 DEF ValuesOf
  <2>2. \A i \in 1 .. 1 : i = 1
    OBVIOUS
  <2>3. d[1] = k /\ d \in [1 .. 1 -> Nat] /\ Len(d) = 1
    <3>1. d[1] = k
      BY <1>3, <1>4, <2>1
    <3>2. \A i \in 1 .. 1 : ValueOf(t[i], digits) \in Nat
      BY <1>2, <1>3, <1>4, <2>2
    <3> HIDE DEF d
    <3>3. d \in [1 .. 1 -> Nat]
      BY <2>1, <3>2
    <3> QED
      BY <3>1, <3>3
  <2>4. v \in [0 .. 1 -> Nat] /\ v[0] = 0 /\ v[1] = k
    BY <1>2
  <2>5. k = 0 * b + k
    BY <1>2
  <2> HIDE DEF v, d
  <2>6. \A i \in 1 .. 1 : v[i] = v[i - 1] * b + d[i]
    <3>1. 1 - 1 = 0
      OBVIOUS
    <3> QED
      BY <2>2, <2>3, <2>4, <2>5, <3>1
  <2>7. Horner(b, 1, d, v)
    BY <1>2, <2>3, <2>4, <2>6 DEF Horner
  <2> QED
    BY <1>4, <2>4, <2>7 DEF d
<1>8. \A i \in 1 .. Len(t) : t[i] \in Range(digits)
  <2>1. \A i \in 1 .. 1 : i = 1
    OBVIOUS
  <2> QED
    BY <1>3, <1>4, <2>1
<1>9. Spelled(t, k, digits, b)
  BY <1>4, <1>5, <1>6, <1>7, <1>8 DEF Spelled
<1> QED
  BY <1>1, <1>9

LEMMA SpelledMore ==
  ASSUME NEW digits, NEW b, Table(digits, b), NEW q \in Nat \ {0}, NEW s, Spelled(s, q, digits, b),
         NEW r \in 0 .. b - 1, NEW k, k = q * b + r
  PROVE  Spelled(s \o <<digits[r + 1]>>, k, digits, b)
<1>1. PICK c, t, L : c = digits[r + 1] /\ t = s \o <<c>> /\ L = Len(s)
  OBVIOUS
<1>2. b \in {10, 16} /\ r + 1 \in 1 .. b /\ r + 1 \in DOMAIN digits /\ r \in Nat /\ b \in Nat
  BY DEF Table
<1>3. c \in Symbols /\ c \in Range(digits) /\ ValueOf(c, digits) = r
  BY <1>1, <1>2, ValueIs DEF Table, IsDigits, Range
<1>4. /\ s \in Seq(Symbols) /\ L \in Nat \ {0} /\ s[1] # "0" /\ \A i \in 1 .. L : s[i] \in Range(digits)
  BY <1>1 DEF Spelled
<1>5. t \in Seq(Symbols) /\ Len(t) = L + 1 /\ t[L + 1] = c /\ \A i \in 1 .. L : t[i] = s[i]
  <2> PICK u : u = <<c>>
    OBVIOUS
  <2>1. u \in Seq(Symbols) /\ Len(u) = 1 /\ u[1] = c /\ t = s \o u
    BY <1>1, <1>3
  <2>2. IsJoin(s \o u, s, u) /\ s \o u \in Seq(Symbols)
    BY ONLY <1>4, <2>1, Joined, ConcatProperties
  <2>3. 1 \in 1 .. Len(u)
    BY <2>1
  <2> QED
    BY <1>1, <2>1, <2>2, <2>3 DEF IsJoin
<1>6. k \in Nat /\ k # 0
  BY <1>2
<1>7. PICK v : Horner(b, L, ValuesOf(s, digits), v) /\ v[L] = q
  BY <1>1 DEF Spelled
<1>8. /\ ValuesOf(s, digits) \in [1 .. L -> Nat] /\ v \in [0 .. L -> Nat] /\ v[0] = 0
      /\ \A i \in 1 .. L : v[i] = v[i - 1] * b + ValuesOf(s, digits)[i]
  BY <1>7 DEF Horner
<1> DEFINE M == L + 1
           d == ValuesOf(t, digits)
           u == [ i \in 0 .. M |-> IF i = M THEN k ELSE v[i] ]
<1>9. M \in Nat \ {0} /\ \A i \in 1 .. M : i # M => i \in 1 .. L
  BY <1>4
<1>10. d = [ i \in 1 .. M |-> ValueOf(t[i], digits) ]
  BY <1>5 DEF ValuesOf
<1>11. d[M] = r /\ \A i \in 1 .. L : d[i] = ValuesOf(s, digits)[i]
  <2>1. M \in 1 .. M
    BY <1>9
  <2>2. \A i \in 1 .. L : i \in 1 .. M
    BY <1>4
  <2>3. \A i \in 1 .. L : ValuesOf(s, digits)[i] = ValueOf(s[i], digits)
    BY <1>1 DEF ValuesOf
  <2> HIDE DEF d
  <2> QED
    BY <1>3, <1>5, <1>10, <2>1, <2>2, <2>3
<1> HIDE DEF d
<1>12. d \in [1 .. M -> Nat] /\ Len(d) = M
  <2>1. ASSUME NEW i \in 1 .. M PROVE d[i] \in Nat
    <3>1. CASE i = M
      BY <1>2, <1>11, <3>1
    <3>2. CASE i # M
      <4>1. i \in 1 .. L
        BY <1>9, <3>2
      <4> QED
        BY <1>8, <1>11, <4>1
    <3> QED
      BY <3>1, <3>2
  <2>2. DOMAIN d = 1 .. M
    BY <1>10
  <2> HIDE DEF M
  <2>3. d = [ i \in 1 .. M |-> d[i] ]
    BY <1>10, <2>2
  <2> QED
    BY <1>9, <2>1, <2>2, <2>3
<1>13. u \in [0 .. M -> Nat] /\ u[0] = 0 /\ u[M] = k
  <2>1. ASSUME NEW i \in 0 .. M PROVE (IF i = M THEN k ELSE v[i]) \in Nat
    <3>1. i # M => i \in 0 .. L
      BY <1>4
    <3> QED
      BY <1>6, <1>8, <3>1
  <2>2. 0 \in 0 .. M /\ M \in 0 .. M /\ 0 # M
    BY <1>9
  <2> QED
    BY <1>8, <2>1, <2>2
<1>14. ASSUME NEW i \in 1 .. M PROVE u[i] = u[i - 1] * b + d[i]
  <2>1. i \in 0 .. M /\ i - 1 \in 0 .. M /\ i - 1 # M
    BY <1>4
  <2>2. u[i - 1] = v[i - 1]
    BY <2>1
  <2>3. CASE i = M
    <3>1. i - 1 = L
      BY <1>4, <2>3
    <3>2. u[i] = k /\ u[i - 1] = q /\ d[i] = r
      BY <1>7, <1>11, <1>13, <2>2, <2>3, <3>1
    <3> QED
      BY <3>2
  <2>4. CASE i # M
    <3>1. i \in 1 .. L
      BY <1>9, <2>4
    <3>2. u[i] = v[i]
      BY <2>1, <2>4
    <3> QED
      BY <1>8, <1>11, <2>2, <3>1, <3>2
  <2> QED
    BY <2>3, <2>4
<1> HIDE DEF u
<1>15. Horner(b, M, d, u) /\ u[M] = k
  BY <1>2, <1>9, <1>12, <1>13, <1>14 DEF Horner
<1>16. \E x : Horner(b, Len(t), ValuesOf(t, digits), x) /\ x[Len(t)] = k
  BY <1>5, <1>15 DEF d
<1>17. ASSUME NEW i \in 1 .. M PROVE t[i] \in Range(digits)
  <2>1. i # M => i \in 1 .. L
    BY <1>9
  <2> QED
    BY <1>3, <1>4, <1>5, <2>1
<1>18. t[1] # "0"
  <2>1. 1 \in 1 .. L
    BY <1>4
  <2> QED
    BY <1>4, <1>5, <2>1
<1>19. Spelled(t, k, digits, b)
  BY <1>5, <1>6, <1>9, <1>16, <1>17, <1>18 DEF Spelled
<1> QED
  BY <1>1, <1>19

LEMMA SpellsIt ==
  ASSUME NEW digits, NEW b, Table(digits, b), NEW k \in Nat, NEW t, Spelled(t, k, digits, b)
  PROVE  Spells(t, k, digits)
<1>1. t \in Seq(Symbols) /\ Len(t) \in Nat \ {0} /\ DOMAIN t = 1 .. Len(t) /\ Len(digits) = b
  BY DEF Spelled, Table
<1>2. PICK v : Horner(b, Len(t), ValuesOf(t, digits), v) /\ v[Len(t)] = k
  BY DEF Spelled
<1>3. Numeral(ValuesOf(t, digits), b) = k
  BY <1>2, NumeralIs
<1>4. [ i \in DOMAIN t |-> ValueOf(t[i], digits) ] = ValuesOf(t, digits)
  BY <1>1 DEF ValuesOf
<1>5. t # <<>>
  BY <1>1
<1>6. \A i \in DOMAIN t : t[i] \in Range(digits)
  BY <1>1 DEF Spelled
<1>7. t[1] = "0" => t = <<"0">>
  <2> SUFFICES ASSUME t[1] = "0" PROVE t = <<"0">>
    OBVIOUS
  <2>1. Len(t) = 1
    BY DEF Spelled
  <2>2. t = [ i \in 1 .. 1 |-> t[i] ] /\ \A i \in 1 .. 1 : i = 1
    BY <1>1, <2>1
  <2> QED
    BY <1>1, <2>1, <2>2
<1>8. k = Numeral([ i \in DOMAIN t |-> ValueOf(t[i], digits) ], Len(digits))
  BY <1>1, <1>3, <1>4
<1> QED
  BY <1>5, <1>6, <1>7, <1>8 DEF Spells, ValueOf

\* A number's digits are sent behind what comes first.
LEMMA DigitsSend ==
  ASSUME NEW o, Clean(o), NEW first, NEW s, Sends(o, first, s), NEW digits, NEW b, Table(digits, b), NEW n \in Nat
  PROVE  \E t : /\ Spelled(t, n, digits, b)
                /\ Sends(o, (CHOOSE f : f = Digits(first, b, digits, f))[n], s \o t)
<1> DEFINE Put(p, k) == Adding(p, PutChar(p, digits[(k % b) + 1]))
           Good(p, k) == \E t : Spelled(t, k, digits, b) /\ Sends(o, p, s \o t)
           g == CHOOSE h : h = Digits(first, b, digits, h)
<1>1. b \in {10, 16} /\ IsDigits(digits, b) /\ b \in Nat
  BY DEF Table
<1>2. g = Digits(first, b, digits, g)
  <2>1. \E f : f = Digits(first, b, digits, f)
    BY <1>1, DigitsExist DEF Sends, Clean
  <2> QED
    BY <2>1
<1> HIDE DEF g
<1>3. \A k \in Nat : g[k] = Put(IF k >= b THEN g[k \div b] ELSE first, k)
  BY <1>2 DEF Digits
<1>4. \A k \in Nat :
        /\ k % b \in 0 .. b - 1 /\ k = (k \div b) * b + (k % b) /\ (k % b) + 1 \in 1 .. b
        /\ (k >= b => k \div b \in 1 .. k - 1) /\ (~(k >= b) => k % b = k)
  <2>1. CASE b = 10
    BY <2>1
  <2>2. CASE b = 16
    BY <2>2
  <2> QED
    BY <1>1, <2>1, <2>2
<1>5. ASSUME NEW p, NEW t, Sends(o, p, t), NEW k \in Nat
      PROVE  Sends(o, Put(p, k), t \o <<digits[(k % b) + 1]>>)
  <2>1. PICK c : c = digits[(k % b) + 1] /\ c \in Symbols
    BY <1>1, <1>4 DEF IsDigits
  <2>2. Clean(p) /\ p.printed \in Int
    BY <1>5 DEF Sends, Clean, OutputStates
  <2>3. Sends(p, PutChar(p, c), <<c>>)
    BY <2>1, <2>2, PutCharSends
  <2>4. Sends(o, PutChar(p, c), t \o <<c>>)
    <3> PICK u, q : u = <<c>> /\ q = PutChar(p, c)
      OBVIOUS
    <3>1. Sends(p, q, u)
      BY <2>3
    <3>2. Sends(o, q, t \o u)
      BY ONLY Clean(o), <1>5, <3>1, BothSent
    <3> QED
      BY <3>2
  <2>5. Sends(o, Adding(p, PutChar(p, c)), t \o <<c>>)
    BY <2>2, <2>4, AddedSends
  <2> QED
    BY <2>1, <2>5
<1> HIDE DEF Put
<1>6. ASSUME NEW k \in Nat, ~(k >= b) PROVE Good(g[k], k)
  <2>1. k \in 0 .. b - 1 /\ k % b = k
    BY <1>1, <1>4, <1>6
  <2>2. g[k] = Put(first, k)
    BY <1>3, <1>6
  <2>3. Sends(o, g[k], s \o <<digits[k + 1]>>)
    BY <1>5, <2>1, <2>2
  <2>4. Spelled(<<digits[k + 1]>>, k, digits, b)
    BY <2>1, SpelledOne
  <2> QED
    BY <2>3, <2>4
<1>7. ASSUME NEW k \in Nat, k >= b, Good(g[k \div b], k \div b) PROVE Good(g[k], k)
  <2>1. PICK t : Spelled(t, k \div b, digits, b) /\ Sends(o, g[k \div b], s \o t)
    BY <1>7
  <2>2. PICK q, r, c : q = k \div b /\ r = k % b /\ c = digits[r + 1]
    OBVIOUS
  <2>3. q \in Nat \ {0} /\ r \in 0 .. b - 1 /\ k = q * b + r /\ r + 1 \in 1 .. b
    BY <1>4, <1>7, <2>2
  <2>4. Spelled(t, q, digits, b)
    BY <2>1, <2>2
  <2>5. Spelled(t \o <<digits[r + 1]>>, k, digits, b)
    BY ONLY Table(digits, b), <2>3, <2>4, SpelledMore
  <2>6. Sends(o, g[k], (s \o t) \o <<c>>)
    <3>1. g[k] = Put(g[q], k)
      BY <1>3, <1>7, <2>2
    <3>2. Sends(o, g[q], s \o t)
      BY <2>1, <2>2
    <3> QED
      BY <1>5, <2>2, <3>1, <3>2
  <2>7. (s \o t) \o <<c>> = s \o (t \o <<c>>)
    <3>1. s \in Seq(Symbols) /\ t \in Seq(Symbols) /\ c \in Symbols
      BY <1>1, <2>1, <2>2, <2>3 DEF Sends, Spelled, IsDigits
    <3> PICK u : u = <<c>>
      OBVIOUS
    <3>2. u \in Seq(Symbols)
      BY <3>1
    <3> QED
      BY <3>1, <3>2, ConcatAssociative
  <2>8. Spelled(t \o <<c>>, k, digits, b)
    BY <2>2, <2>5
  <2> QED
    BY <2>6, <2>7, <2>8
<1> HIDE DEF Good
<1>8. ASSUME { k \in Nat : ~Good(g[k], k) } # {} PROVE FALSE
  <2> DEFINE Bad == { k \in Nat : ~Good(g[k], k) }
  <2>1. PICK k \in Bad : \A j \in Bad : k <= j
    <3>1. Bad \in SUBSET Nat /\ Bad # {}
      BY <1>8
    <3> HIDE DEF Bad
    <3> QED
      BY <3>1, Least
  <2>2. k \in Nat /\ ~Good(g[k], k)
    OBVIOUS
  <2>3. k >= b
    BY <1>6, <2>2
  <2>4. k \div b \in Nat /\ ~(k <= k \div b)
    BY <1>4, <2>2, <2>3
  <2>5. k \div b \notin Bad
    <3> HIDE DEF Bad
    <3> QED
      BY <2>1, <2>4
  <2>6. Good(g[k \div b], k \div b)
    BY <2>4, <2>5
  <2> QED
    BY <1>7, <2>2, <2>3, <2>6
<1>9. Good(g[n], n)
  BY <1>8
<1> QED
  BY <1>9 DEF Good, g

\* w is cut where s ends.
Cut(w, s, t) == SubSeq(w, 1, Len(s)) = s /\ After(w, Len(s)) = t

LEMMA BehindIt ==
  ASSUME NEW S, NEW s \in Seq(S), NEW t \in Seq(S)
  PROVE  Cut(s \o t, s, t)
<1> PICK m, n, w, e : m = Len(s) /\ n = Len(t) /\ w = s \o t /\ e = <<>>
  OBVIOUS
<1>1. m \in Nat /\ n \in Nat /\ Len(w) = m + n
  BY ConcatProperties
<1>2. SubSeq(w, 1, m) = s
  <2>1. CASE m = 0
    <3>1. s = <<>> /\ SubSeq(w, 1, m) = <<>>
      BY <1>1, <2>1, SubSeqEmpty
    <3> QED
      BY <3>1
  <2>2. CASE m # 0
    <3>1. 1 \in 1 .. Len(s) /\ Len(s) \in 1 .. Len(s)
      BY <1>1, <2>2
    <3>2. SubSeq(s \o t, 1, Len(s)) = SubSeq(s, 1, Len(s))
      BY <3>1, SubSeqOfConcat1
    <3> QED
      BY <3>2, SubSeqFull
  <2> QED
    BY <2>1, <2>2
<1>3. SubSeq(w, m + 1, Len(w)) = t
  <2>1. CASE n = 0
    <3>1. t = <<>> /\ m + n < m + 1
      BY <1>1, <2>1
    <3>2. SubSeq(w, m + 1, m + n) = <<>>
      BY <1>1, <3>1, SubSeqEmpty
    <3> QED
      BY <1>1, <3>1, <3>2
  <2>2. CASE n # 0
    <3>1. /\ m + 1 \in Len(s) + 1 .. Len(s) + Len(t) /\ m + n \in Len(s) + 1 .. Len(s) + Len(t)
          /\ m + 1 - Len(s) = 1 /\ m + n - Len(s) = Len(t)
      BY <1>1, <2>2
    <3>2. SubSeq(s \o t, m + 1, m + n) = SubSeq(t, m + 1 - Len(s), m + n - Len(s))
      BY <3>1, SubSeqOfConcat2
    <3> QED
      BY <1>1, <3>1, <3>2, SubSeqFull
  <2> QED
    BY <2>1, <2>2
<1> QED
  BY <1>2, <1>3 DEF Cut, After

LEMMA DigitTables == Table(UDECIMAL, 10) /\ Table(UHEX_L, 16) /\ Table(UHEX_U, 16)
<1> DEFINE lower == <<"a", "b", "c", "d", "e", "f">>
           upper == <<"A", "B", "C", "D", "E", "F">>
<1>1. /\ Len(UDECIMAL) = 10 /\ UDECIMAL[1] = "0" /\ UDECIMAL[2] = "1" /\ UDECIMAL[3] = "2" /\ UDECIMAL[4] = "3"
      /\ UDECIMAL[5] = "4" /\ UDECIMAL[6] = "5" /\ UDECIMAL[7] = "6" /\ UDECIMAL[8] = "7" /\ UDECIMAL[9] = "8"
      /\ UDECIMAL[10] = "9" /\ UDECIMAL \in Seq(Symbols) /\ DOMAIN UDECIMAL = 1 .. 10
  BY DEF UDECIMAL, Symbols
<1>2. /\ lower \in Seq(Symbols) /\ Len(lower) = 6 /\ lower[1] = "a" /\ lower[2] = "b" /\ lower[3] = "c"
      /\ lower[4] = "d" /\ lower[5] = "e" /\ lower[6] = "f"
  BY DEF Symbols
<1>3. /\ upper \in Seq(Symbols) /\ Len(upper) = 6 /\ upper[1] = "A" /\ upper[2] = "B" /\ upper[3] = "C"
      /\ upper[4] = "D" /\ upper[5] = "E" /\ upper[6] = "F"
  BY DEF Symbols
<1>4. UHEX_L = UDECIMAL \o lower /\ UHEX_U = UDECIMAL \o upper
  BY DEF UHEX_L, UHEX_U
<1> HIDE DEF lower, upper
<1>5. ASSUME NEW t \in Seq(Symbols), Len(t) = 6, NEW w, w = UDECIMAL \o t
      PROVE  /\ w \in Seq(Symbols) /\ DOMAIN w = 1 .. 16 /\ Len(w) = 16
             /\ \A j \in 1 .. 10 : w[j] = UDECIMAL[j]
             /\ w[11] = t[1] /\ w[12] = t[2] /\ w[13] = t[3] /\ w[14] = t[4] /\ w[15] = t[5] /\ w[16] = t[6]
  <2>1. IsJoin(UDECIMAL \o t, UDECIMAL, t) /\ UDECIMAL \o t \in Seq(Symbols)
    BY ONLY <1>1, <1>5, Joined, ConcatProperties
  <2>2. w \in Seq(Symbols) /\ Len(w) = 16
        /\ (\A j \in 1 .. 10 : w[j] = UDECIMAL[j]) /\ (\A j \in 1 .. 6 : w[10 + j] = t[j])
    <3>1. IsJoin(w, UDECIMAL, t) /\ w \in Seq(Symbols)
      BY <1>5, <2>1
    <3>2. Len(w) = 10 + 6 /\ (\A j \in 1 .. 10 : w[j] = UDECIMAL[j]) /\ (\A j \in 1 .. 6 : w[10 + j] = t[j])
      BY <1>1, <1>5, <3>1 DEF IsJoin
    <3> QED
      BY <3>1, <3>2
  <2>3. /\ 1 \in 1 .. 6 /\ 2 \in 1 .. 6 /\ 3 \in 1 .. 6 /\ 4 \in 1 .. 6 /\ 5 \in 1 .. 6 /\ 6 \in 1 .. 6
        /\ 10 + 1 = 11 /\ 10 + 2 = 12 /\ 10 + 3 = 13 /\ 10 + 4 = 14 /\ 10 + 5 = 15 /\ 10 + 6 = 16
    OBVIOUS
  <2>4. w[10 + 1] = t[1] /\ w[10 + 2] = t[2] /\ w[10 + 3] = t[3] /\ w[10 + 4] = t[4] /\ w[10 + 5] = t[5] /\ w[10 + 6] = t[6]
    BY <2>2, <2>3
  <2> QED
    BY <2>2, <2>3, <2>4
<1>6. \A j \in 1 .. 10 : j \in {1, 2, 3, 4, 5, 6, 7, 8, 9, 10}
  OBVIOUS
<1>7. \A j \in 1 .. 16 : j \in {1, 2, 3, 4, 5, 6, 7, 8, 9, 10, 11, 12, 13, 14, 15, 16}
  OBVIOUS
<1>8. \A w \in Seq(Symbols) : \A b \in {10, 16} : Len(w) = b => IsDigits(w, b)
  BY DEF IsDigits
<1>9. Table(UDECIMAL, 10)
  <2>1. \A i, j \in 1 .. 10 : UDECIMAL[i] = UDECIMAL[j] => i = j
    BY <1>1, <1>6
  <2>2. IsDigits(UDECIMAL, 10)
    BY <1>1, <1>8
  <2> QED
    BY <1>1, <2>1, <2>2 DEF Table
<1>10. \A j \in {1, 2, 3, 4, 5, 6, 7, 8, 9, 10} : j \in 1 .. 10
  OBVIOUS
<1> DEFINE Place(c) ==
             CASE c = "0" -> 1 [] c = "1" -> 2 [] c = "2" -> 3 [] c = "3" -> 4 [] c = "4" -> 5 [] c = "5" -> 6
               [] c = "6" -> 7 [] c = "7" -> 8 [] c = "8" -> 9 [] c = "9" -> 10 [] c \in {"a", "A"} -> 11
               [] c \in {"b", "B"} -> 12 [] c \in {"c", "C"} -> 13 [] c \in {"d", "D"} -> 14
               [] c \in {"e", "E"} -> 15 [] c \in {"f", "F"} -> 16
<1>13. /\ Place("0") = 1 /\ Place("1") = 2 /\ Place("2") = 3 /\ Place("3") = 4 /\ Place("4") = 5 /\ Place("5") = 6
       /\ Place("6") = 7 /\ Place("7") = 8 /\ Place("8") = 9 /\ Place("9") = 10
       /\ Place("a") = 11 /\ Place("b") = 12 /\ Place("c") = 13 /\ Place("d") = 14 /\ Place("e") = 15 /\ Place("f") = 16
       /\ Place("A") = 11 /\ Place("B") = 12 /\ Place("C") = 13 /\ Place("D") = 14 /\ Place("E") = 15 /\ Place("F") = 16
  OBVIOUS
<1> HIDE DEF Place
<1>11. Table(UHEX_L, 16)
  <2>1. /\ UHEX_L \in Seq(Symbols) /\ DOMAIN UHEX_L = 1 .. 16 /\ Len(UHEX_L) = 16
        /\ \A j \in 1 .. 10 : UHEX_L[j] = UDECIMAL[j]
        /\ UHEX_L[11] = "a" /\ UHEX_L[12] = "b" /\ UHEX_L[13] = "c" /\ UHEX_L[14] = "d" /\ UHEX_L[15] = "e" /\ UHEX_L[16] = "f"
    BY <1>2, <1>4, <1>5
  <2>2. /\ UHEX_L[1] = "0" /\ UHEX_L[2] = "1" /\ UHEX_L[3] = "2" /\ UHEX_L[4] = "3" /\ UHEX_L[5] = "4"
        /\ UHEX_L[6] = "5" /\ UHEX_L[7] = "6" /\ UHEX_L[8] = "7" /\ UHEX_L[9] = "8" /\ UHEX_L[10] = "9"
    BY <1>1, <1>10, <2>1
  <2>3. \A i \in 1 .. 16 : Place(UHEX_L[i]) = i
    BY <1>7, <1>13, <2>1, <2>2
  <2>4. IsDigits(UHEX_L, 16)
    BY <1>8, <2>1
  <2> QED
    BY <2>1, <2>2, <2>3, <2>4 DEF Table
<1>12. Table(UHEX_U, 16)
  <2>1. /\ UHEX_U \in Seq(Symbols) /\ DOMAIN UHEX_U = 1 .. 16 /\ Len(UHEX_U) = 16
        /\ \A j \in 1 .. 10 : UHEX_U[j] = UDECIMAL[j]
        /\ UHEX_U[11] = "A" /\ UHEX_U[12] = "B" /\ UHEX_U[13] = "C" /\ UHEX_U[14] = "D" /\ UHEX_U[15] = "E" /\ UHEX_U[16] = "F"
    BY <1>3, <1>4, <1>5
  <2>2. /\ UHEX_U[1] = "0" /\ UHEX_U[2] = "1" /\ UHEX_U[3] = "2" /\ UHEX_U[4] = "3" /\ UHEX_U[5] = "4"
        /\ UHEX_U[6] = "5" /\ UHEX_U[7] = "6" /\ UHEX_U[8] = "7" /\ UHEX_U[9] = "8" /\ UHEX_U[10] = "9"
    BY <1>1, <1>10, <2>1
  <2>3. \A i \in 1 .. 16 : Place(UHEX_U[i]) = i
    BY <1>7, <1>13, <2>1, <2>2
  <2>4. IsDigits(UHEX_U, 16)
    BY <1>8, <2>1
  <2> QED
    BY <2>1, <2>2, <2>3, <2>4 DEF Table
<1> QED
  BY <1>9, <1>11, <1>12

\* What the printers of numbers send.
LEMMA PutSizeSends ==
  ASSUME NEW o, Clean(o), NEW digits, NEW b, Table(digits, b), NEW n \in Nat
  PROVE  \E t : Sends(o, PutSize(o, n, digits, b), t) /\ Spells(t, n, digits)
<1> PICK e : e = <<>>
  OBVIOUS
<1>1. Sends(o, Returning(o, 0), e) /\ e = <<>>
  BY NothingSends
<1>2. PICK t : Spelled(t, n, digits, b) /\ Sends(o, (CHOOSE f : f = Digits(Returning(o, 0), b, digits, f))[n], e \o t)
  <2> PICK first : first = Returning(o, 0)
    OBVIOUS
  <2>1. Clean(o) /\ Sends(o, first, e) /\ Table(digits, b) /\ n \in Nat
    BY <1>1
  <2>2. \E t : Spelled(t, n, digits, b) /\ Sends(o, (CHOOSE f : f = Digits(first, b, digits, f))[n], e \o t)
    BY ONLY <2>1, DigitsSend
  <2> QED
    BY <2>2
<1>3. PutSize(o, n, digits, b) = (CHOOSE f : f = Digits(Returning(o, 0), b, digits, f))[n]
  BY DEF PutSize, Digits
<1>4. e \o t = t
  BY <1>1, <1>2, ConcatEmptySeq DEF Spelled
<1>5. Spells(t, n, digits)
  BY <1>2, SpellsIt
<1> QED
  BY <1>2, <1>3, <1>4, <1>5

LEMMA PutUnbrSends ==
  ASSUME NEW o, Clean(o), NEW digits, NEW b, Table(digits, b), NEW n \in Nat
  PROVE  \E t : Sends(o, PutUnbr(o, n, digits), t) /\ Spells(t, n, digits)
<1>1. ~(o.fd < 0) /\ ~(b < 2) /\ ~(b > 16) /\ Len(digits) = b
  BY DEF Clean, OutputStates, Table
<1>2. PutUnbr(o, n, digits) = PutSize(o, n, digits, b)
  BY <1>1 DEF PutUnbr, PutSize
<1> QED
  BY <1>2, PutSizeSends

LEMMA PutPtrSends ==
  ASSUME NEW o, Clean(o), NEW digits, Table(digits, 16), NEW n \in Nat
  PROVE  \E t : /\ Sends(o, PutPtr(o, n, digits), t)
                /\ Len(t) > 2 /\ SubSeq(t, 1, 2) = <<"0", "x">> /\ Spells(After(t, 2), n, digits)
<1> PICK s, b : s = <<"0", "x">> /\ b = 16
  OBVIOUS
<1>1. s \in Seq(Symbols) /\ Len(s) = 2 /\ ~(s = NoText)
  BY DEF Symbols, NoText
<1>2. Sends(o, PutStr(o, s), s)
  BY <1>1, PutStrSends
<1>3. PICK t : Spelled(t, n, digits, b) /\ Sends(o, (CHOOSE f : f = Digits(PutStr(o, s), b, digits, f))[n], s \o t)
  <2> PICK first : first = PutStr(o, s)
    OBVIOUS
  <2>1. Clean(o) /\ Sends(o, first, s) /\ Table(digits, b) /\ n \in Nat
    BY <1>2
  <2>2. \E t : Spelled(t, n, digits, b) /\ Sends(o, (CHOOSE f : f = Digits(first, b, digits, f))[n], s \o t)
    BY ONLY <2>1, DigitsSend
  <2> QED
    BY <2>2
<1>4. PutPtr(o, n, digits) = (CHOOSE f : f = Digits(PutStr(o, s), b, digits, f))[n]
  BY DEF PutPtr, Digits
<1>5. Spells(t, n, digits) /\ t \in Seq(Symbols) /\ Len(t) \in Nat \ {0}
  BY <1>3, SpellsIt DEF Spelled
<1>6. Cut(s \o t, s, t) /\ Len(s \o t) > 2
  <2>1. Len(s \o t) = Len(s) + Len(t)
    BY <1>1, <1>5, ConcatProperties
  <2>2. Cut(s \o t, s, t)
    BY ONLY <1>1, <1>5, BehindIt
  <2>3. Len(s) + Len(t) > 2
    BY <1>1, <1>5
  <2> QED
    BY <2>1, <2>2, <2>3
<1> QED
  BY <1>1, <1>3, <1>4, <1>5, <1>6 DEF Cut

LEMMA PutNbrSends ==
  ASSUME NEW o, Clean(o), NEW n \in -UIntMax .. UIntMax
  PROVE  \E t : /\ Sends(o, PutNbr(o, n), t)
                /\ IF n < 0 THEN t # <<>> /\ t[1] = "-" /\ Spells(After(t, 1), -n, UDECIMAL)
                            ELSE Spells(t, n, UDECIMAL)
<1>1. n \in Int /\ UIntMax \in Nat
  BY PrintAssumption
<1>2. CASE ~(n < 0)
  <2>1. PutNbr(o, n) = PutSize(o, n, UDECIMAL, 10)
    BY <1>2 DEF PutNbr, PutSize
  <2> QED
    BY <1>1, <1>2, <2>1, DigitTables, PutSizeSends
<1>3. CASE n < 0
  <2> PICK minus, s, m : minus = PutChar(o, "-") /\ s = <<"-">> /\ m = (-n) % (UIntMax + 1)
    OBVIOUS
  <2>1. m = -n /\ m \in Nat
    <3>1. -n \in 0 .. UIntMax
      BY <1>1, <1>3
    <3>2. \A k \in 0 .. UIntMax : k % (UIntMax + 1) = k
      BY <1>1
    <3> QED
      BY <3>1, <3>2
  <2>2. "-" \in Symbols
    BY DEF Symbols
  <2>3. Sends(o, minus, s) /\ s \in Seq(Symbols) /\ Len(s) = 1 /\ s[1] = "-"
    BY <2>2, PutCharSends
  <2>4. Clean(minus) /\ minus.printed \in Int
    BY <2>3 DEF Sends, Clean, OutputStates
  <2>5. PICK t : Sends(minus, PutUnbr(minus, m, UDECIMAL), t) /\ Spells(t, m, UDECIMAL)
    BY <2>1, <2>4, DigitTables, PutUnbrSends
  <2>6. Sends(minus, Adding(minus, PutUnbr(minus, m, UDECIMAL)), t)
    BY <2>4, <2>5, AddedSends
  <2>7. Sends(o, Adding(minus, PutUnbr(minus, m, UDECIMAL)), s \o t)
    <3> PICK q : q = Adding(minus, PutUnbr(minus, m, UDECIMAL))
      OBVIOUS
    <3>1. Clean(o) /\ Sends(o, minus, s) /\ Sends(minus, q, t)
      BY <2>3, <2>6
    <3>2. Sends(o, q, s \o t)
      BY ONLY <3>1, BothSent
    <3> QED
      BY <3>2
  <2>8. t \in Seq(Symbols)
    BY <2>5 DEF Sends
  <2>9. Cut(s \o t, s, t) /\ IsJoin(s \o t, s, t)
    BY ONLY <2>3, <2>8, BehindIt, Joined
  <2>10. After(s \o t, 1) = t /\ (s \o t)[1] = "-" /\ s \o t # <<>>
    <3>1. 1 \in 1 .. Len(s) /\ Len(t) \in Nat
      BY <2>3, <2>8
    <3>2. (s \o t)[1] = s[1] /\ Len(s \o t) = 1 + Len(t)
      BY <2>3, <2>9, <3>1 DEF IsJoin
    <3>3. Len(s \o t) # 0
      BY <3>1, <3>2
    <3> QED
      BY <2>3, <2>9, <3>2, <3>3 DEF Cut
  <2>11. PutNbr(o, n) = Adding(minus, PutUnbr(minus, m, UDECIMAL))
    BY <1>3 DEF PutNbr
  <2> QED
    BY <1>3, <2>1, <2>5, <2>7, <2>10, <2>11
<1> QED
  BY <1>2, <1>3

\* A directive with an argument of its own kind.
Fits(e, arg) ==
  /\ e = "c" => \E c \in Symbols : arg.s = <<c>>
  /\ e = "s" => arg.s \in Seq(Symbols)
  /\ e \in {"p", "P", "u", "x", "X"} => arg.n \in Nat
  /\ e \in {"d", "i"} => arg.n \in -UIntMax .. UIntMax

Directives == Consuming \cup {"%", "q"}

LEMMA PutFmtdDelivers ==
  ASSUME NEW o \in OutputStates, NEW e \in Directives, NEW arg, Fits(e, arg)
  PROVE  Delivers(o, PutFmtd(o, e, arg))
<1>1. CASE e = "c"
  <2>1. PICK c \in Symbols : arg.s = <<c>>
    BY <1>1 DEF Fits
  <2>2. Delivers(o, PutChar(o, arg.s[1]))
    BY <2>1, PutCharDelivers
  <2> QED
    BY <1>1, <2>2 DEF PutFmtd
<1>2. CASE e = "s"
  BY <1>2, PutStrDelivers DEF Fits, PutFmtd
<1>3. CASE e \in {"p", "P"}
  <2>1. Delivers(o, PutPtr(o, arg.n, UHEX_L)) /\ Delivers(o, PutPtr(o, arg.n, UHEX_U))
    BY <1>3, Tables, PutPtrDelivers DEF Fits
  <2> QED
    BY <1>3, <2>1 DEF PutFmtd
<1>4. CASE e \in {"d", "i"}
  <2>1. arg.n \in Int
    BY <1>4, PrintAssumption DEF Fits
  <2> QED
    BY <1>4, <2>1, PutNbrDelivers DEF PutFmtd
<1>5. CASE e \in {"u", "x", "X"}
  <2>1. /\ Delivers(o, PutUnbr(o, arg.n, UDECIMAL))
        /\ Delivers(o, PutUnbr(o, arg.n, UHEX_L)) /\ Delivers(o, PutUnbr(o, arg.n, UHEX_U))
    BY <1>5, Tables, PutUnbrDelivers DEF Fits
  <2> QED
    BY <1>5, <2>1 DEF PutFmtd
<1>6. CASE e = "%"
  <2>1. Delivers(o, PutChar(o, "%"))
    BY PutCharDelivers DEF Symbols
  <2> QED
    BY <1>6, <2>1 DEF PutFmtd
<1>7. CASE e = "q"
  BY <1>7, NothingDelivers DEF PutFmtd
<1> QED
  BY <1>1, <1>2, <1>3, <1>4, <1>5, <1>6, <1>7 DEF Directives, Consuming

\* What the directive e has to print for its argument.
MeantBy(e, arg, text) ==
  CASE e = "%" -> text = <<"%">>
    [] e = "q" -> text = <<>>
    [] e = "c" -> text = arg.s
    [] e = "s" -> text = (IF arg.s = NoText THEN <<>> ELSE arg.s)
    [] e \in {"d", "i"} ->
         IF arg.n < 0 THEN text # <<>> /\ text[1] = "-" /\ Spells(After(text, 1), -arg.n, UDECIMAL)
         ELSE Spells(text, arg.n, UDECIMAL)
    [] e = "u" -> Spells(text, arg.n, UDECIMAL)
    [] e = "x" -> Spells(text, arg.n, UHEX_L)
    [] e = "X" -> Spells(text, arg.n, UHEX_U)
    [] e \in {"p", "P"} -> /\ Len(text) > 2 /\ SubSeq(text, 1, 2) = <<"0", "x">>
                           /\ Spells(After(text, 2), arg.n, IF e = "p" THEN UHEX_L ELSE UHEX_U)

LEMMA PutFmtdSends ==
  ASSUME NEW o, Clean(o), NEW e \in Directives, NEW arg, Fits(e, arg)
  PROVE  \E t : Sends(o, PutFmtd(o, e, arg), t) /\ MeantBy(e, arg, t)
<1>1. CASE e = "c"
  <2>1. PICK c \in Symbols : arg.s = <<c>>
    BY <1>1 DEF Fits
  <2>2. arg.s[1] = c
    BY <2>1
  <2>3. Sends(o, PutChar(o, arg.s[1]), <<c>>)
    BY <2>2, PutCharSends
  <2>4. PutFmtd(o, e, arg) = PutChar(o, arg.s[1])
    BY <1>1 DEF PutFmtd
  <2>5. MeantBy(e, arg, <<c>>)
    BY <1>1, <2>1 DEF MeantBy
  <2> QED
    BY <2>3, <2>4, <2>5
<1>2. CASE e = "s"
  <2> PICK s, t : s = arg.s /\ t = IF s = NoText THEN <<>> ELSE s
    OBVIOUS
  <2>1. s \in Seq(Symbols)
    BY <1>2 DEF Fits
  <2>2. Sends(o, PutStr(o, s), t)
    BY <2>1, PutStrSends
  <2>3. PutFmtd(o, e, arg) = PutStr(o, s)
    BY <1>2 DEF PutFmtd
  <2>4. MeantBy(e, arg, t)
    BY <1>2 DEF MeantBy
  <2> QED
    BY <2>2, <2>3, <2>4
<1>3. CASE e \in {"p", "P"}
  <2> PICK digits : digits = IF e = "p" THEN UHEX_L ELSE UHEX_U
    OBVIOUS
  <2>1. arg.n \in Nat /\ Table(digits, 16)
    BY <1>3, DigitTables DEF Fits
  <2>2. PICK t : /\ Sends(o, PutPtr(o, arg.n, digits), t)
                 /\ Len(t) > 2 /\ SubSeq(t, 1, 2) = <<"0", "x">> /\ Spells(After(t, 2), arg.n, digits)
    BY <2>1, PutPtrSends
  <2>3. PutFmtd(o, e, arg) = PutPtr(o, arg.n, digits)
    BY <1>3 DEF PutFmtd
  <2>4. MeantBy(e, arg, t)
    BY <1>3, <2>2 DEF MeantBy
  <2> QED
    BY <2>2, <2>3, <2>4
<1>4. CASE e \in {"d", "i"}
  <2>1. arg.n \in -UIntMax .. UIntMax
    BY <1>4 DEF Fits
  <2>2. PICK t : /\ Sends(o, PutNbr(o, arg.n), t)
                 /\ IF arg.n < 0 THEN t # <<>> /\ t[1] = "-" /\ Spells(After(t, 1), -arg.n, UDECIMAL)
                                 ELSE Spells(t, arg.n, UDECIMAL)
    BY <2>1, PutNbrSends
  <2>3. PutFmtd(o, e, arg) = PutNbr(o, arg.n)
    BY <1>4 DEF PutFmtd
  <2>4. MeantBy(e, arg, t)
    BY <1>4, <2>2 DEF MeantBy
  <2> QED
    BY <2>2, <2>3, <2>4
<1>5. CASE e \in {"u", "x", "X"}
  <2> PICK digits : digits = IF e = "u" THEN UDECIMAL ELSE IF e = "x" THEN UHEX_L ELSE UHEX_U
    OBVIOUS
  <2>1. arg.n \in Nat /\ (Table(digits, 10) \/ Table(digits, 16))
    BY <1>5, DigitTables DEF Fits
  <2>2. PICK t : Sends(o, PutUnbr(o, arg.n, digits), t) /\ Spells(t, arg.n, digits)
    BY <2>1, PutUnbrSends
  <2>3. PutFmtd(o, e, arg) = PutUnbr(o, arg.n, digits)
    BY <1>5 DEF PutFmtd
  <2>4. MeantBy(e, arg, t)
    BY <1>5, <2>2 DEF MeantBy
  <2> QED
    BY <2>2, <2>3, <2>4
<1>6. CASE e = "%"
  <2>1. "%" \in Symbols
    BY DEF Symbols
  <2>2. Sends(o, PutChar(o, "%"), <<"%">>)
    BY <2>1, PutCharSends
  <2>3. PutFmtd(o, e, arg) = PutChar(o, "%")
    BY <1>6 DEF PutFmtd
  <2>4. MeantBy(e, arg, <<"%">>)
    BY <1>6 DEF MeantBy
  <2> QED
    BY <2>2, <2>3, <2>4
<1>7. CASE e = "q"
  <2>1. Sends(o, Returning(o, 0), <<>>)
    BY NothingSends
  <2>2. PutFmtd(o, e, arg) = Returning(o, 0)
    BY <1>7 DEF PutFmtd
  <2>3. MeantBy(e, arg, <<>>)
    BY <1>7 DEF MeantBy
  <2> QED
    BY <2>1, <2>2, <2>3
<1> QED
  BY <1>1, <1>2, <1>3, <1>4, <1>5, <1>6, <1>7 DEF Directives, Consuming

\* What an item means is what its directive means.
LEMMA ItemMeans ==
  ASSUME NEW x, NEW t
  PROVE  /\ x.fmt = <<"a">> /\ t = <<"a">> => Means(x, t)
         /\ \A e \in Directives : \A arg :
              x.fmt = <<"%", e>> /\ (e \in Consuming => x.args[1] = arg) /\ MeantBy(e, arg, t) => Means(x, t)
<1>1. ASSUME x.fmt = <<"a">>, t = <<"a">> PROVE Means(x, t)
  <2>1. Len(x.fmt) = 1
    BY <1>1
  <2> QED
    BY <1>1, <2>1 DEF Means
<1>2. ASSUME NEW e \in Directives, NEW arg, x.fmt = <<"%", e>>, e \in Consuming => x.args[1] = arg,
             MeantBy(e, arg, t)
      PROVE  Means(x, t)
  <2>1. Len(x.fmt) = 2 /\ x.fmt[2] = e
    BY <1>2
  <2>2. e # "none"
    BY DEF Directives, Consuming
  <2>3. CASE e \in Consuming
    <3>1. x.args[1] = arg /\ MeantBy(e, arg, t)
      BY <1>2, <2>3
    <3>2. CASE e = "c"
      BY <2>1, <3>1, <3>2 DEF Means, MeantBy
    <3>3. CASE e = "s"
      BY <2>1, <3>1, <3>3 DEF Means, MeantBy
    <3>4. CASE e \in {"d", "i"}
      BY <2>1, <3>1, <3>4 DEF Means, MeantBy
    <3>5. CASE e = "u"
      BY <2>1, <3>1, <3>5 DEF Means, MeantBy
    <3>6. CASE e = "x"
      BY <2>1, <3>1, <3>6 DEF Means, MeantBy
    <3>7. CASE e = "X"
      BY <2>1, <3>1, <3>7 DEF Means, MeantBy
    <3>8. CASE e = "p"
      BY <2>1, <3>1, <3>8 DEF Means, MeantBy
    <3>9. CASE e = "P"
      BY <2>1, <3>1, <3>9 DEF Means, MeantBy
    <3> QED
      BY <2>3, <3>2, <3>3, <3>4, <3>5, <3>6, <3>7, <3>8, <3>9 DEF Consuming
  <2>4. CASE e \notin Consuming
    <3>1. e \in {"%", "q"}
      BY <2>4 DEF Directives
    <3> QED
      BY <1>2, <2>1, <2>2, <3>1 DEF Means, MeantBy
  <2> QED
    BY <2>3, <2>4
<1> QED
  BY <1>1, <1>2

-----------------------------------------------------------------------------
\* An item of a format: a character, or a directive with what it takes.
IsItem(x) ==
  \/ x.fmt = <<"a">> /\ x.args = <<>>
  \/ \E e, arg :
       /\ e \in Directives
       /\ x.fmt = <<"%", e>>
       /\ x.args = IF e \in Consuming THEN <<arg>> ELSE <<>>
       /\ e \in Consuming => Fits(e, arg)

LEMMA ItemsAre == \A x \in Items : IsItem(x)
<1>1. \A m \in Ints : m \in -UIntMax .. UIntMax
  <2>1. UIntMax \in Nat /\ UIntMax > 20 /\ INT_MAX \in 0 .. UIntMax - 1
    BY PrintAssumption DEF INT_MAX
  <2> QED
    BY <2>1 DEF Ints
<1>2. \A m \in Unsigned : m \in Nat
  BY PrintAssumption
<1> SUFFICES ASSUME NEW x \in Items PROVE IsItem(x)
  OBVIOUS
<1>3. CASE x = Item(<<"a">>, <<>>)
  BY <1>3 DEF Item, IsItem
<1>4. ASSUME NEW e \in {"%", "q"}, x = Item(<<"%", e>>, <<>>) PROVE IsItem(x)
  BY <1>4 DEF Item, IsItem, Directives, Consuming
<1>5. ASSUME NEW e \in Consuming, NEW arg, Fits(e, arg), x = Item(<<"%", e>>, <<arg>>) PROVE IsItem(x)
  BY <1>5 DEF Item, IsItem, Directives
<1>6. CASE x = Item(<<"%", "c">>, <<Str(<<"b">>)>>)
  <2>1. Fits("c", Str(<<"b">>)) /\ "c" \in Consuming
    BY DEF Fits, Str, Symbols, Consuming
  <2> QED
    BY <1>5, <1>6, <2>1
<1>7. ASSUME NEW s \in {NoText, <<>>, <<"b", "c">>}, x = Item(<<"%", "s">>, <<Str(s)>>) PROVE IsItem(x)
  <2>1. s \in Seq(Symbols)
    <3>1. CASE s = NoText
      BY <3>1 DEF NoText, Symbols
    <3>2. CASE s = <<>>
      BY <3>2
    <3>3. CASE s = <<"b", "c">>
      BY <3>3 DEF Symbols
    <3> QED
      BY <3>1, <3>2, <3>3
  <2>2. Fits("s", Str(s)) /\ "s" \in Consuming
    BY <2>1 DEF Fits, Str, Consuming
  <2> QED
    BY <1>5, <1>7, <2>2
<1>8. ASSUME NEW e \in {"d", "i"}, NEW m \in Ints, x = Item(<<"%", e>>, <<Number(m)>>) PROVE IsItem(x)
  <2>1. Fits(e, Number(m)) /\ e \in Consuming
    BY <1>1 DEF Fits, Number, Consuming
  <2> QED
    BY <1>5, <1>8, <2>1
<1>9. ASSUME NEW e \in {"u", "x", "X", "p", "P"}, NEW m \in Unsigned, x = Item(<<"%", e>>, <<Number(m)>>)
      PROVE  IsItem(x)
  <2>1. Fits(e, Number(m)) /\ e \in Consuming
    BY <1>2 DEF Fits, Number, Consuming
  <2> QED
    BY <1>5, <1>9, <2>1
<1> HIDE DEF IsItem
<1> DEFINE bare == {Item(<<"a">>, <<>>), Item(<<"%", "%">>, <<>>), Item(<<"%", "q">>, <<>>)}
           char == { Item(<<"%", "c">>, <<Str(<<"b">>)>>) }
           texts == { Item(<<"%", "s">>, <<Str(s)>>) : s \in {NoText, <<>>, <<"b", "c">>} }
           ints == { Item(<<"%", e>>, <<Number(m)>>) : e \in {"d", "i"}, m \in Ints }
           naturals == { Item(<<"%", e>>, <<Number(m)>>) : e \in {"u", "x", "X", "p", "P"}, m \in Unsigned }
<1>10. CASE x \in bare
  BY <1>3, <1>4, <1>10
<1>11. CASE x \in texts
  <2>1. PICK s \in {NoText, <<>>, <<"b", "c">>} : x = Item(<<"%", "s">>, <<Str(s)>>)
    BY ONLY <1>11
  <2> QED
    BY <1>7, <2>1
<1>12. CASE x \in ints
  <2>1. PICK e \in {"d", "i"}, m \in Ints : x = Item(<<"%", e>>, <<Number(m)>>)
    BY ONLY <1>12
  <2> QED
    BY <1>8, <2>1
<1>13. CASE x \in naturals
  <2>1. PICK e \in {"u", "x", "X", "p", "P"}, m \in Unsigned : x = Item(<<"%", e>>, <<Number(m)>>)
    BY ONLY <1>13
  <2> QED
    BY <1>9, <2>1
<1>14. CASE x \in char
  BY <1>6, <1>14
<1>15. Items = bare \cup char \cup texts \cup ints \cup naturals
  BY DEF Items
<1> HIDE DEF bare, char, texts, ints, naturals
<1>16. x \in bare \cup char \cup texts \cup ints \cup naturals
  BY <1>15
<1> QED
  BY <1>10, <1>11, <1>12, <1>13, <1>14, <1>16

\* One turn of the loop of ft_vdprintf.
PrintStep(fmt, ap, r) ==
  LET exp == fmt[r.i + 1]
      arg == IF r.used < Len(ap) THEN ap[r.used + 1] ELSE Str(NoText)
  IN  IF r.i > Len(fmt) THEN r
      ELSE IF fmt[r.i] # "%" THEN [r EXCEPT !.i = @ + 1, !.o = Adding(@, PutChar(@, fmt[r.i]))]
      ELSE [ i |-> r.i + 2, used |-> r.used + Taken(exp), o |-> Adding(r.o, PutFmtd(r.o, exp, arg)) ]

Printing(i, used, o) == [i |-> i, used |-> used, o |-> o]

\* The item x stands in the format at i, its arguments behind used others.
Stands(x, fmt, ap, i, used) ==
  /\ i \in Nat \ {0} /\ used \in Nat /\ Len(fmt) \in Nat /\ Len(ap) \in Nat
  /\ i + Len(x.fmt) - 1 <= Len(fmt) /\ used + Len(x.args) <= Len(ap)
  /\ \A j \in 1 .. Len(x.fmt) : fmt[i + j - 1] = x.fmt[j]
  /\ \A j \in 1 .. Len(x.args) : ap[used + j] = x.args[j]

\* The step from p to q sends what x means.
Meaning(p, q, x) == Clean(p) => \E t : Sends(p, q, t) /\ Means(x, t)

LEMMA ItemPrints ==
  ASSUME NEW o \in OutputStates, NEW p, Delivers(o, p), NEW x, IsItem(x),
         NEW fmt, NEW ap, NEW i, NEW used, Stands(x, fmt, ap, i, used)
  PROVE  \E q : /\ Delivers(o, q) /\ Meaning(p, q, x)
                /\ PrintStep(fmt, ap, Printing(i, used, p)) =
                     Printing(i + Len(x.fmt), used + Len(x.args), q)
<1>1. p \in OutputStates /\ i \in Nat /\ used \in Nat /\ Len(fmt) \in Nat /\ Len(ap) \in Nat
  BY DEF Delivers, Stands
<1>2. CASE x.fmt = <<"a">> /\ x.args = <<>>
  <2>1. fmt[i] = "a" /\ ~(i > Len(fmt)) /\ Len(x.fmt) = 1 /\ Len(x.args) = 0 /\ used + 0 = used
    <3>1. Len(x.fmt) = 1 /\ Len(x.args) = 0 /\ x.fmt[1] = "a"
      BY <1>2
    <3>2. i + 1 - 1 = i /\ i + 1 - 1 <= Len(fmt) /\ fmt[i + 1 - 1] = x.fmt[1]
      BY <1>1, <3>1 DEF Stands
    <3> QED
      BY <1>1, <3>1, <3>2
  <2> DEFINE q == Adding(p, PutChar(p, "a"))
  <2>2. PrintStep(fmt, ap, Printing(i, used, p)) = Printing(i + 1, used, q)
    BY <2>1 DEF PrintStep, Printing
  <2>3. Delivers(o, q)
    <3>1. Delivers(p, PutChar(p, "a"))
      BY <1>1, PutCharDelivers DEF Symbols
    <3> QED
      BY <3>1, AddingDelivers
  <2>4. Meaning(p, q, x)
    <3> SUFFICES ASSUME Clean(p) PROVE \E t : Sends(p, q, t) /\ Means(x, t)
      BY DEF Meaning
    <3>1. "a" \in Symbols /\ p.printed \in Int
      BY <1>1 DEF Symbols, OutputStates
    <3>2. Sends(p, PutChar(p, "a"), <<"a">>)
      BY <3>1, PutCharSends
    <3>3. Sends(p, q, <<"a">>)
      BY <3>1, <3>2, AddedSends
    <3>4. Means(x, <<"a">>)
      BY <1>2, ItemMeans
    <3> QED
      BY <3>3, <3>4
  <2> HIDE DEF q
  <2> QED
    BY <2>1, <2>2, <2>3, <2>4
<1>3. CASE ~(x.fmt = <<"a">> /\ x.args = <<>>)
  <2>1. PICK e, arg :
          /\ e \in Directives
          /\ x.fmt = <<"%", e>>
          /\ x.args = IF e \in Consuming THEN <<arg>> ELSE <<>>
          /\ e \in Consuming => Fits(e, arg)
    BY <1>3 DEF IsItem
  <2>2. /\ Len(x.fmt) = 2 /\ x.fmt[1] = "%" /\ x.fmt[2] = e
        /\ Len(x.args) = Taken(e) /\ (e \in Consuming => Len(x.args) = 1 /\ x.args[1] = arg)
    BY <2>1 DEF Taken
  <2>3. fmt[i] = "%" /\ fmt[i + 1] = e /\ ~(i > Len(fmt))
    <3>1. i + 1 - 1 = i /\ i + 2 - 1 = i + 1 /\ i + 2 - 1 <= Len(fmt)
      BY <1>1, <2>2 DEF Stands
    <3>2. fmt[i + 1 - 1] = x.fmt[1] /\ fmt[i + 2 - 1] = x.fmt[2]
      BY <2>2 DEF Stands
    <3> QED
      BY <1>1, <2>2, <3>1, <3>2
  <2> DEFINE given == IF used < Len(ap) THEN ap[used + 1] ELSE Str(NoText)
             q == Adding(p, PutFmtd(p, e, given))
  <2>4. e \in Consuming => given = arg
    BY <1>1, <2>2 DEF Stands
  <2> HIDE DEF given
  <2>5. Fits(e, given)
    BY <2>1, <2>4 DEF Fits, Consuming
  <2>6. Delivers(o, q)
    <3>1. Delivers(p, PutFmtd(p, e, given))
      BY <1>1, <2>1, <2>5, PutFmtdDelivers
    <3> QED
      BY <3>1, AddingDelivers
  <2>7. PrintStep(fmt, ap, Printing(i, used, p)) = Printing(i + 2, used + Taken(e), q)
    BY <2>3 DEF PrintStep, Printing, given
  <2>8. Meaning(p, q, x)
    <3> SUFFICES ASSUME Clean(p) PROVE \E t : Sends(p, q, t) /\ Means(x, t)
      BY DEF Meaning
    <3>1. PICK t : Sends(p, PutFmtd(p, e, given), t) /\ MeantBy(e, given, t)
      BY <2>1, <2>5, PutFmtdSends
    <3>2. p.printed \in Int
      BY <1>1 DEF OutputStates
    <3>3. Sends(p, q, t)
      BY <3>1, <3>2, AddedSends
    <3>4. e \in Consuming => x.args[1] = given
      BY <2>2, <2>4
    <3>5. Means(x, t)
      BY <2>1, <3>1, <3>4, ItemMeans
    <3> QED
      BY <3>3, <3>5
  <2> HIDE DEF q
  <2> QED
    BY <2>2, <2>6, <2>7, <2>8
<1> QED
  BY <1>2, <1>3

LEMMA ItemShapes ==
  ASSUME NEW x, IsItem(x)
  PROVE  /\ x.fmt \in Seq({"a", "%"} \cup Directives) /\ Len(x.fmt) \in {1, 2}
         /\ \E arg : x.args \in Seq({arg}) /\ Len(x.args) \in Nat
<1>1. CASE x.fmt = <<"a">> /\ x.args = <<>>
  BY <1>1
<1>2. ASSUME NEW e \in Directives, NEW arg, x.fmt = <<"%", e>>,
             x.args = IF e \in Consuming THEN <<arg>> ELSE <<>>
      PROVE  /\ x.fmt \in Seq({"a", "%"} \cup Directives) /\ Len(x.fmt) \in {1, 2}
             /\ x.args \in Seq({arg}) /\ Len(x.args) \in Nat
  BY <1>2
<1> QED
  BY <1>1, <1>2 DEF IsItem

\* One item stands behind the other in the format that ft_vdprintf reads.
LEMMA BothStand ==
  ASSUME NEW x, IsItem(x), NEW y, IsItem(y),
         NEW fmt, fmt = x.fmt \o y.fmt, NEW ap, ap = x.args \o y.args
  PROVE  /\ Stands(x, fmt, ap, 1, 0) /\ Stands(y, fmt, ap, 1 + Len(x.fmt), 0 + Len(x.args))
         /\ Len(fmt) \in Nat /\ Len(fmt) >= 2 /\ 1 + Len(x.fmt) + Len(y.fmt) > Len(fmt)
<1>1. /\ x.fmt \in Seq({"a", "%"} \cup Directives) /\ y.fmt \in Seq({"a", "%"} \cup Directives)
      /\ Len(x.fmt) \in {1, 2} /\ Len(y.fmt) \in {1, 2}
  BY ItemShapes
<1>2. PICK S : x.args \in Seq(S) /\ y.args \in Seq(S) /\ Len(x.args) \in Nat /\ Len(y.args) \in Nat
  <2>1. PICK a : x.args \in Seq({a}) /\ Len(x.args) \in Nat
    BY ItemShapes
  <2>2. PICK b : y.args \in Seq({b}) /\ Len(y.args) \in Nat
    BY ItemShapes
  <2>3. x.args \in Seq({a, b}) /\ y.args \in Seq({a, b})
    BY <2>1, <2>2
  <2> QED
    BY <2>1, <2>2, <2>3
<1>3. IsJoin(fmt, x.fmt, y.fmt)
  <2>1. IsJoin(x.fmt \o y.fmt, x.fmt, y.fmt)
    BY ONLY <1>1, Joined
  <2> QED
    BY <2>1
<1>4. IsJoin(ap, x.args, y.args)
  <2>1. IsJoin(x.args \o y.args, x.args, y.args)
    BY ONLY <1>2, Joined
  <2> QED
    BY <2>1
<1> PICK m, n, v, w : m = Len(x.fmt) /\ n = Len(y.fmt) /\ v = Len(x.args) /\ w = Len(y.args)
  OBVIOUS
<1>5. m \in {1, 2} /\ n \in {1, 2} /\ v \in Nat /\ w \in Nat
  BY <1>1, <1>2
<1>9. Len(fmt) = m + n /\ Len(ap) = v + w
  BY <1>3, <1>4 DEF IsJoin
<1>10. /\ 1 + m - 1 <= m + n /\ 0 + v <= v + w /\ m + n >= 2 /\ m + n \in Nat /\ v + w \in Nat
       /\ 1 + m \in Nat \ {0} /\ 0 + v \in Nat /\ (1 + m) + n - 1 <= m + n /\ (0 + v) + w <= v + w
       /\ 1 + m + n > m + n /\ 0 + v = v /\ m \in Nat
  BY ONLY <1>5
<1>6. Stands(x, fmt, ap, 1, 0)
  <2>1. ASSUME NEW j \in 1 .. Len(x.fmt) PROVE fmt[1 + j - 1] = x.fmt[j]
    <3>1. fmt[j] = x.fmt[j]
      BY <1>3 DEF IsJoin
    <3>2. 1 + j - 1 = j
      BY <1>1
    <3> QED
      BY <3>1, <3>2
  <2>2. ASSUME NEW j \in 1 .. Len(x.args) PROVE ap[0 + j] = x.args[j]
    <3>1. ap[j] = x.args[j]
      BY <1>4 DEF IsJoin
    <3>2. 0 + j = j
      BY <1>2
    <3> QED
      BY <3>1, <3>2
  <2>3. 1 + Len(x.fmt) - 1 <= Len(fmt)
    <3>1. 1 + m - 1 <= Len(fmt)
      BY <1>9, <1>10
    <3> QED
      BY <3>1, Zenon
  <2>4. 0 + Len(x.args) <= Len(ap) /\ Len(fmt) \in Nat /\ Len(ap) \in Nat
    BY <1>9, <1>10
  <2>5. 1 \in Nat \ {0} /\ 0 \in Nat
    OBVIOUS
  <2> QED
    BY ONLY <2>1, <2>2, <2>3, <2>4, <2>5 DEF Stands
<1>7. Stands(y, fmt, ap, 1 + Len(x.fmt), 0 + Len(x.args))
  <2>1. ASSUME NEW j \in 1 .. Len(y.fmt) PROVE fmt[(1 + Len(x.fmt)) + j - 1] = y.fmt[j]
    <3>1. fmt[Len(x.fmt) + j] = y.fmt[j]
      BY <1>3 DEF IsJoin
    <3>2. (1 + m) + j - 1 = m + j
      BY <1>10
    <3> QED
      BY <3>1, <3>2
  <2>2. ASSUME NEW j \in 1 .. Len(y.args) PROVE ap[(0 + Len(x.args)) + j] = y.args[j]
    <3>1. ap[Len(x.args) + j] = y.args[j]
      BY <1>4 DEF IsJoin
    <3> QED
      BY <1>10, <3>1
  <2>3. /\ 1 + Len(x.fmt) \in Nat \ {0} /\ 0 + Len(x.args) \in Nat
        /\ (1 + Len(x.fmt)) + Len(y.fmt) - 1 <= Len(fmt) /\ (0 + Len(x.args)) + Len(y.args) <= Len(ap)
        /\ Len(fmt) \in Nat /\ Len(ap) \in Nat
    BY <1>9, <1>10
  <2> QED
    BY ONLY <2>1, <2>2, <2>3 DEF Stands
<1>8. Len(fmt) \in Nat /\ Len(fmt) >= 2 /\ 1 + Len(x.fmt) + Len(y.fmt) > Len(fmt)
  BY <1>9, <1>10
<1> QED
  BY <1>6, <1>7, <1>8

\* The loop of ft_vdprintf, turn by turn.
Loop(o, fmt, ap, f) ==
  [ k \in 0 .. Len(fmt) |-> IF k = 0 THEN Printing(1, 0, o) ELSE PrintStep(fmt, ap, f[k - 1]) ]

LEMMA VdprintfDelivers ==
  ASSUME NEW o \in OutputStates, Delivers(o, o), NEW x, IsItem(x), NEW y, IsItem(y)
  PROVE  /\ Delivers(o, Vdprintf(o, x.fmt \o y.fmt, x.args \o y.args))
         /\ \E p : Meaning(o, p, x) /\ Meaning(p, Vdprintf(o, x.fmt \o y.fmt, x.args \o y.args), y)
<1> DEFINE fmt == x.fmt \o y.fmt
           ap == x.args \o y.args
           N == Len(fmt)
<1>1. /\ Stands(x, fmt, ap, 1, 0) /\ Stands(y, fmt, ap, 1 + Len(x.fmt), 0 + Len(x.args))
      /\ N \in Nat /\ N >= 2 /\ 1 + Len(x.fmt) + Len(y.fmt) > N
  BY BothStand
<1> DEFINE f == CHOOSE h : h = Loop(o, fmt, ap, h)
<1>2. Vdprintf(o, fmt, ap) = f[N].o
  BY DEF Vdprintf, Loop, PrintStep, Printing
<1> HIDE DEF fmt, ap
<1>3. PICK p : /\ Delivers(o, p) /\ Meaning(o, p, x)
               /\ PrintStep(fmt, ap, Printing(1, 0, o)) = Printing(1 + Len(x.fmt), 0 + Len(x.args), p)
  BY <1>1, ItemPrints
<1>4. PICK i, used : i = 1 + Len(x.fmt) /\ used = 0 + Len(x.args)
  OBVIOUS
<1>5. PICK q : /\ Delivers(o, q) /\ Meaning(p, q, y)
               /\ PrintStep(fmt, ap, Printing(i, used, p)) = Printing(i + Len(y.fmt), used + Len(y.args), q)
  <2>1. Stands(y, fmt, ap, i, used)
    BY <1>1, <1>4
  <2> QED
    BY <1>3, <2>1, ItemPrints
<1> DEFINE r0 == Printing(1, 0, o)
           r1 == Printing(i, used, p)
           r2 == Printing(i + Len(y.fmt), used + Len(y.args), q)
           g == [ k \in 0 .. N |-> IF k = 0 THEN r0 ELSE IF k = 1 THEN r1 ELSE r2 ]
<1>6. PrintStep(fmt, ap, r2) = r2 /\ r2.o = q
  BY <1>1, <1>4 DEF PrintStep, Printing
<1>7. r0 = Printing(1, 0, o) /\ PrintStep(fmt, ap, r0) = r1 /\ PrintStep(fmt, ap, r1) = r2
  BY <1>3, <1>4, <1>5
<1> HIDE DEF r0, r1, r2, N
<1>8. g = Loop(o, fmt, ap, g)
  <2>1. ASSUME NEW k \in 0 .. N
        PROVE  g[k] = IF k = 0 THEN Printing(1, 0, o) ELSE PrintStep(fmt, ap, g[k - 1])
    <3>1. CASE k = 0
      <4>1. g[k] = r0
        BY <3>1
      <4> QED
        BY <1>7, <3>1, <4>1
    <3>2. CASE k = 1
      <4>1. g[k] = r1 /\ g[k - 1] = r0 /\ ~(k = 0)
        BY <1>1, <3>2
      <4> HIDE DEF g
      <4> QED
        BY <1>7, <4>1
    <3>3. CASE ~(k = 0) /\ ~(k = 1)
      <4>1. k - 1 \in 0 .. N /\ ~(k - 1 = 0)
        BY <1>1, <3>3
      <4>2. g[k] = r2 /\ g[k - 1] \in {r1, r2}
        BY <3>3, <4>1
      <4> HIDE DEF g
      <4> QED
        BY <1>6, <1>7, <3>3, <4>2
    <3> QED
      BY <3>1, <3>2, <3>3
  <2> QED
    BY <2>1 DEF Loop, N
<1> HIDE DEF g
<1>9. f = Loop(o, fmt, ap, f)
  BY <1>8
<1> HIDE DEF f
<1>10. /\ \A k \in 0 .. N : f[k] = IF k = 0 THEN r0 ELSE PrintStep(fmt, ap, f[k - 1])
  BY <1>7, <1>9 DEF Loop, N
<1>11. \A k \in 0 .. N : k >= 2 => f[k] = r2
  <2> DEFINE T == { k \in Nat : IF k = 0 THEN f[k] = r0 ELSE IF k = 1 THEN f[k] = r1 ELSE f[k] = r2 }
  <2>1. 0 \in T
    BY <1>1, <1>10
  <2>2. ASSUME NEW k \in 1 .. N, k - 1 \in T PROVE k \in T
    <3>1. f[k] = PrintStep(fmt, ap, f[k - 1]) /\ k \in Nat /\ ~(k = 0)
      BY <1>1, <1>10
    <3>2. CASE k = 1
      BY <1>7, <2>2, <3>1, <3>2
    <3>3. CASE k = 2
      BY <1>7, <2>2, <3>1, <3>3
    <3>4. CASE ~(k = 1) /\ ~(k = 2)
      <4>1. ~(k - 1 = 0) /\ ~(k - 1 = 1)
        BY <1>1, <3>4
      <4> QED
        BY <1>6, <2>2, <3>1, <3>4, <4>1
    <3> QED
      BY <3>2, <3>3, <3>4
  <2> HIDE DEF T
  <2>3. 0 .. N \subseteq T
    BY <1>1, <2>1, <2>2, Climb
  <2> QED
    BY <1>1, <2>3 DEF T
<1>12. f[N] = r2
  BY <1>1, <1>11
<1>13. Delivers(o, Vdprintf(o, fmt, ap)) /\ Meaning(o, p, x) /\ Meaning(p, Vdprintf(o, fmt, ap), y)
  BY <1>2, <1>3, <1>5, <1>6, <1>12
<1> QED
  BY <1>13 DEF fmt, ap

LEMMA PutEndlDelivers ==
  ASSUME NEW o \in OutputStates, NEW s \in Seq(Symbols)
  PROVE  /\ ~(s = NoText) => Delivers(o, PutEndl(o, s))
         /\ PutEndl(o, s) \in OutputStates /\ (o.fd < 0 => PutEndl(o, s).writes = o.writes)
<1>1. CASE s = NoText \/ o.fd < 0
  <2>1. PutEndl(o, s) = Returning(o, -1)
    BY <1>1 DEF PutEndl
  <2>2. o.fd < 0 => Delivers(o, Returning(o, -1))
    BY NothingDelivers
  <2>3. Returning(o, -1) \in OutputStates
    BY DEF Returning, OutputStates
  <2> QED
    BY <1>1, <2>1, <2>2, <2>3 DEF Delivers
<1>2. CASE ~(s = NoText \/ o.fd < 0)
  <2> DEFINE p == PutStr(o, s)
  <2>1. Delivers(o, p) /\ p \in OutputStates
    BY PutStrDelivers DEF Delivers
  <2>2. Delivers(p, PutChar(p, "\n"))
    BY <2>1, PutCharDelivers DEF Symbols
  <2>3. Delivers(o, Adding(p, PutChar(p, "\n")))
    BY <2>1, <2>2, AddingDelivers
  <2>4. PutEndl(o, s) = IF p.printed < 0 THEN p ELSE Adding(p, PutChar(p, "\n"))
    BY <1>2 DEF PutEndl
  <2> HIDE DEF p
  <2>5. Delivers(o, PutEndl(o, s))
    BY <2>1, <2>3, <2>4
  <2> QED
    BY <1>2, <2>5 DEF Delivers
<1> QED
  BY <1>1, <1>2

\* The outputs that a call is given: nothing is delivered yet.
LEMMA OutputsAre ==
  ASSUME NEW o \in Outputs
  PROVE  o \in OutputStates /\ Balance(o) = 0 /\ o.writes = 0 /\ Delivers(o, o) /\ o.text = <<>>
<1>1. ASSUME NEW fd \in Int, NEW at \in Nat, NEW how \in {"fails", "shortens", "never"}, o = Opened(fd, at, how)
      PROVE  o \in OutputStates /\ Balance(o) = 0 /\ o.writes = 0 /\ Delivers(o, o) /\ o.text = <<>>
  <2>1. <<>> \in Seq(Symbols) /\ Len(<<>>) = 0
    OBVIOUS
  <2>2. o \in OutputStates /\ Balance(o) = 0 /\ o.writes = 0 /\ o.printed = 0 /\ o.text = <<>>
    BY <1>1, <2>1 DEF Opened, OutputStates, Balance
  <2> QED
    BY <2>2 DEF Delivers
<1>2. CASE o \in { Opened(1, at, how) : at \in 1 .. 3, how \in {"fails", "shortens"} }
  <2>1. PICK at \in 1 .. 3, how \in {"fails", "shortens"} : o = Opened(1, at, how)
    BY <1>2
  <2> QED
    BY <1>1, <2>1
<1>3. CASE o \in { Opened(fd, 0, "never") : fd \in {-1, 1} }
  <2>1. PICK fd \in {-1, 1} : o = Opened(fd, 0, "never")
    BY <1>3
  <2> QED
    BY <1>1, <2>1
<1> QED
  BY <1>2, <1>3 DEF Outputs

PrintNames == {"printf", "putendl", "putsize", "putPtr"}

LEMMA OutsidePrinting ==
  ASSUME MemoryCall \/ StringCall \/ NumberCall
  PROVE  call'.name \notin PrintNames
<1>1. CASE MemoryCall
  BY <1>1 DEF PrintNames, MemoryCall, DoMemcpy, DoMemmove, DoMemset, DoMemcmp, DoMemchr, DoCalloc, Call
<1>2. CASE StringCall
  BY <1>2 DEF PrintNames, StringCall, DoStrchr, DoStrncmp, DoStrnstr, DoStrlcpy, DoStrlcat,
     DoStrdup, DoStrmapi, DoStrjoin, DoStrtrim, DoSubstr, DoSplit, Returns, Call
<1>3. CASE NumberCall
  BY <1>3 DEF PrintNames, NumberCall, DoAtoi, DoItoa, Returns, Call
<1> QED
  BY <1>1, <1>2, <1>3

\* What a call that delivers returns is counted.
Counted(args, r, nothing) ==
  /\ args.o.fd >= 0 /\ ~nothing => r.printed = Len(r.text) - r.failed
  /\ args.o.fd < 0 => r.writes = 0

LEMMA DeliveringCounts ==
  ASSUME NEW args, args.o \in OutputStates, Balance(args.o) = 0, args.o.writes = 0,
         NEW r, Delivers(args.o, r)
  PROVE  Counted(args, r, FALSE)
<1>1. r \in OutputStates
  BY DEF Delivers
<1>2. Balance(r) \in Int /\ Balance(r) = Len(r.text) - r.failed
  <2>1. r.text \in Seq(Symbols) /\ r.failed \in Nat
    BY <1>1 DEF OutputStates
  <2> QED
    BY <2>1 DEF Balance
<1> QED
  BY <1>2 DEF Counted, Delivers

LEMMA PrintCalls ==
  ASSUME PrintCall
  PROVE  CountsBytes'
<1>1. ASSUME NEW name \in PrintNames, NEW args, NEW r, Call(name, args, r),
             Counted(args, r, name = "putendl" /\ args.s = NoText)
      PROVE  CountsBytes'
  BY <1>1 DEF Call, CountsBytes, Counted
<1>2. ASSUME NEW name \in PrintNames, NEW args, NEW r, Call(name, args, r), Counted(args, r, FALSE)
      PROVE  CountsBytes'
  BY <1>2 DEF Call, CountsBytes, Counted
<1>3. CASE DoPrintf
  <2>1. PICK o \in Outputs, x \in Items, y \in Items :
          Call("printf", [o |-> o, items |-> <<x, y>>], Vdprintf(o, x.fmt \o y.fmt, x.args \o y.args))
    BY <1>3 DEF DoPrintf
  <2> DEFINE r == Vdprintf(o, x.fmt \o y.fmt, x.args \o y.args)
             args == [o |-> o, items |-> <<x, y>>]
  <2>2. Delivers(o, r) /\ args.o = o
    BY OutputsAre, ItemsAre, VdprintfDelivers
  <2>3. Call("printf", args, r)
    BY <2>1
  <2> HIDE DEF r, args
  <2>4. Counted(args, r, FALSE)
    BY <2>2, OutputsAre, DeliveringCounts
  <2> QED
    BY <1>2, <2>3, <2>4 DEF PrintNames
<1>4. CASE DoPutEndl
  <2>1. PICK o \in Outputs, s \in {NoText, <<>>, <<"b", "c">>} :
          Call("putendl", [o |-> o, s |-> s], PutEndl(o, s))
    BY <1>4 DEF DoPutEndl
  <2> DEFINE r == PutEndl(o, s)
             args == [o |-> o, s |-> s]
  <2>2. args.o = o /\ args.s = s
    OBVIOUS
  <2>3. s \in Seq(Symbols)
    <3>1. CASE s = NoText
      BY <3>1 DEF NoText, Symbols
    <3>2. CASE s = <<>>
      BY <3>2
    <3>3. CASE s = <<"b", "c">>
      BY <3>3 DEF Symbols
    <3> QED
      BY <3>1, <3>2, <3>3
  <2>4. (~(s = NoText) => Delivers(o, r)) /\ (o.fd < 0 => r.writes = o.writes)
    BY <2>3, OutputsAre, PutEndlDelivers
  <2>5. Call("putendl", args, r)
    BY <2>1
  <2> HIDE DEF r, args
  <2>6. ~(s = NoText) => Counted(args, r, FALSE)
    BY <2>2, <2>4, OutputsAre, DeliveringCounts
  <2>7. Counted(args, r, args.s = NoText)
    BY <2>2, <2>4, <2>6, OutputsAre DEF Counted
  <2>8. "putendl" \in PrintNames
    BY DEF PrintNames
  <2> QED
    BY <2>5, <2>7, <2>8 DEF Call, CountsBytes, Counted
<1>5. CASE DoPutSize
  <2>1. PICK o \in Outputs, n \in Unsigned :
          \/ Call("putsize", [o |-> o, n |-> n], PutSize(o, n, UDECIMAL, 10))
          \/ Call("putPtr", [o |-> o, n |-> n], PutSize(o, n, UHEX_U, 16))
    BY <1>5 DEF DoPutSize
  <2> DEFINE args == [o |-> o, n |-> n]
  <2>2. n \in Nat /\ args.o = o
    BY PrintAssumption
  <2>3. Delivers(o, PutSize(o, n, UDECIMAL, 10)) /\ Delivers(o, PutSize(o, n, UHEX_U, 16))
    BY <2>2, Tables, OutputsAre, PutSizeDelivers
  <2>4. \/ Call("putsize", args, PutSize(o, n, UDECIMAL, 10))
        \/ Call("putPtr", args, PutSize(o, n, UHEX_U, 16))
    BY <2>1
  <2> HIDE DEF args
  <2>5. /\ Counted(args, PutSize(o, n, UDECIMAL, 10), FALSE)
        /\ Counted(args, PutSize(o, n, UHEX_U, 16), FALSE)
    BY <2>2, <2>3, OutputsAre, DeliveringCounts
  <2> QED
    BY <1>2, <2>4, <2>5 DEF PrintNames
<1> QED
  BY <1>3, <1>4, <1>5 DEF PrintCall

\* The text of two items, of which nothing was sent before.
LEMMA BothMean ==
  ASSUME NEW o, Clean(o), o.text = <<>>, NEW x, NEW y, NEW p, NEW r, Meaning(o, p, x), Meaning(p, r, y)
  PROVE  \E k \in 0 .. Len(r.text) : Means(x, SubSeq(r.text, 1, k)) /\ Means(y, After(r.text, k))
<1>1. PICK s : Sends(o, p, s) /\ Means(x, s)
  BY DEF Meaning
<1>2. PICK t : Sends(p, r, t) /\ Means(y, t)
  BY <1>1 DEF Meaning, Sends
<1>3. s \in Seq(Symbols) /\ t \in Seq(Symbols) /\ p.text = <<>> \o s
  BY <1>1, <1>2 DEF Sends
<1>4. r.text = s \o t
  <2>1. <<>> \o s = s
    BY <1>3, ConcatEmptySeq
  <2> QED
    BY <1>2, <1>3, <2>1 DEF Sends
<1>5. Cut(s \o t, s, t) /\ Len(s \o t) = Len(s) + Len(t)
  BY ONLY <1>3, BehindIt, ConcatProperties
<1>6. Len(s) \in 0 .. Len(r.text)
  <2>1. Len(s) \in Nat /\ Len(t) \in Nat
    BY <1>3
  <2> QED
    BY <1>4, <1>5, <2>1
<1> QED
  BY <1>1, <1>2, <1>4, <1>5, <1>6 DEF Cut

LEMMA MeaningCalls ==
  ASSUME PrintCall
  PROVE  PrintsMeaning'
<1>1. CASE DoPrintf
  <2>1. PICK o \in Outputs, x \in Items, y \in Items :
          Call("printf", [o |-> o, items |-> <<x, y>>], Vdprintf(o, x.fmt \o y.fmt, x.args \o y.args))
    BY <1>1 DEF DoPrintf
  <2> DEFINE r == Vdprintf(o, x.fmt \o y.fmt, x.args \o y.args)
             args == [o |-> o, items |-> <<x, y>>]
  <2>2. args.o = o /\ args.items[1] = x /\ args.items[2] = y
    OBVIOUS
  <2>3. o \in OutputStates /\ Delivers(o, o) /\ o.text = <<>> /\ IsItem(x) /\ IsItem(y)
    BY OutputsAre, ItemsAre
  <2>4. PICK p : Meaning(o, p, x) /\ Meaning(p, r, y)
    BY <2>3, VdprintfDelivers
  <2>5. Call("printf", args, r)
    BY <2>1
  <2> HIDE DEF r, args
  <2>6. o.fd >= 0 /\ o.at = 0 =>
          \E k \in 0 .. Len(r.text) : Means(x, SubSeq(r.text, 1, k)) /\ Means(y, After(r.text, k))
    <3> SUFFICES ASSUME o.fd >= 0, o.at = 0
                 PROVE  \E k \in 0 .. Len(r.text) : Means(x, SubSeq(r.text, 1, k)) /\ Means(y, After(r.text, k))
      OBVIOUS
    <3>1. Clean(o)
      BY <2>3 DEF Clean
    <3> QED
      BY <2>3, <2>4, <3>1, BothMean
  <2>7. call'.name = "printf" /\ call'.args = args /\ result' = r
    BY <2>5 DEF Call
  <2>8. call'.args.o = o /\ call'.args.items[1] = x /\ call'.args.items[2] = y
    BY <2>2, <2>7
  <2> QED
    BY <2>6, <2>7, <2>8 DEF PrintsMeaning
<1>2. CASE DoPutEndl
  <2>1. call'.name = "putendl"
    BY <1>2 DEF DoPutEndl, Call
  <2> QED
    BY <2>1 DEF PrintsMeaning
<1>3. CASE DoPutSize
  <2>1. PICK o \in Outputs, n \in Unsigned :
          \/ Call("putsize", [o |-> o, n |-> n], PutSize(o, n, UDECIMAL, 10))
          \/ Call("putPtr", [o |-> o, n |-> n], PutSize(o, n, UHEX_U, 16))
    BY <1>3 DEF DoPutSize
  <2>2. n \in Nat /\ o \in OutputStates /\ o.text = <<>>
    BY PrintAssumption, OutputsAre
  <2>3. ASSUME NEW digits, NEW b, Table(digits, b), o.fd >= 0, o.at = 0
        PROVE  Spells(PutSize(o, n, digits, b).text, n, digits)
    <3>1. Clean(o)
      BY <2>2, <2>3 DEF Clean
    <3>2. PICK t : Sends(o, PutSize(o, n, digits, b), t) /\ Spells(t, n, digits)
      BY <2>2, <2>3, <3>1, PutSizeSends
    <3>3. t \in Seq(Symbols) /\ PutSize(o, n, digits, b).text = <<>> \o t
      BY <2>2, <3>2 DEF Sends
    <3>4. <<>> \o t = t
      BY <3>3, ConcatEmptySeq
    <3> QED
      BY <3>2, <3>3, <3>4
  <2> DEFINE args == [o |-> o, n |-> n]
             r == PutSize(o, n, UDECIMAL, 10)
             q == PutSize(o, n, UHEX_U, 16)
  <2>4. args.o = o /\ args.n = n
    OBVIOUS
  <2>5. o.fd >= 0 /\ o.at = 0 => Spells(r.text, n, UDECIMAL) /\ Spells(q.text, n, UHEX_U)
    BY <2>3, DigitTables
  <2>6. Call("putsize", args, r) \/ Call("putPtr", args, q)
    BY <2>1
  <2> HIDE DEF args, r, q
  <2>7. CASE Call("putsize", args, r)
    <3>1. call'.name = "putsize" /\ call'.args.o = o /\ call'.args.n = n /\ result' = r
      BY <2>4, <2>7 DEF Call
    <3> QED
      BY <2>5, <3>1 DEF PrintsMeaning
  <2>8. CASE Call("putPtr", args, q)
    <3>1. call'.name = "putPtr" /\ call'.args.o = o /\ call'.args.n = n /\ result' = q
      BY <2>4, <2>8 DEF Call
    <3> QED
      BY <2>5, <3>1 DEF PrintsMeaning
  <2> QED
    BY <2>6, <2>7, <2>8
<1> QED
  BY <1>1, <1>2, <1>3 DEF PrintCall
-----------------------------------------------------------------------------
(***************************************************************************)
(* Numbers                                                                 *)
(***************************************************************************)
\* v is what has been read of a number k, digit after digit: digit i of the L
\* is w[i].
ReadAs(v, w, L, k) ==
  /\ L \in Nat /\ v \in [0 .. L -> 0 .. k] /\ v[0] = 0 /\ v[L] = k
  /\ \A i \in 1 .. L : w[i] \in 48 .. 57 /\ v[i] = v[i - 1] * 10 + (w[i] - 48)

\* The text of k with the last digit first: the loop of ft_itoa.
LowDigits(f) == [ k \in Nat |-> IF k = 0 THEN <<>> ELSE <<48 + (k % 10)>> \o f[k \div 10] ]
Lows == CHOOSE f : f = LowDigits(f)

Texts == Seq(48 .. 57)

LEMMA TenthIsLess ==
  /\ \A k \in Nat : k >= 1 => k \div 10 \in 0 .. k - 1
  /\ \A k \in Nat : k \div 10 \in Nat /\ k % 10 \in 0 .. 9 /\ k = 10 * (k \div 10) + (k % 10)
<1> QED
  OBVIOUS

LEMMA LowsAre == Lows = LowDigits(Lows)
<1> DEFINE h == [ k \in Nat |-> k \div 10 ]
           G == [ x \in Texts \X Nat |-> IF x[2] = 0 THEN <<>> ELSE <<48 + (x[2] % 10)>> \o x[1] ]
<1>1. \A k \in Nat : k >= 1 => h[k] \in 0 .. k - 1
  BY TenthIsLess
<1>2. ASSUME NEW s \in Texts, NEW k \in Nat
      PROVE  <<48 + (k % 10)>> \o s \in Texts
  <2>1. 48 + (k % 10) \in 48 .. 57
    OBVIOUS
  <2>2. <<48 + (k % 10)>> \in Texts
    BY <2>1 DEF Texts
  <2> QED
    BY <2>2, ConcatProperties DEF Texts
<1>3. <<>> \in Texts
  BY DEF Texts
<1>4. G \in [Texts \X Nat -> Texts]
  <2>1. ASSUME NEW x \in Texts \X Nat
        PROVE  (IF x[2] = 0 THEN <<>> ELSE <<48 + (x[2] % 10)>> \o x[1]) \in Texts
    <3>1. x[1] \in Texts /\ x[2] \in Nat
      OBVIOUS
    <3> QED
      BY <1>2, <1>3, <3>1
  <2> QED
    BY <2>1
<1>5. \A k \in Nat : h[k] = k \div 10
  OBVIOUS
<1>6. \A s \in Texts, k \in Nat : G[<<s, k>>] = IF k = 0 THEN <<>> ELSE <<48 + (k % 10)>> \o s
  OBVIOUS
<1> HIDE DEF G, h
<1>7. PICK a : a = <<>>
  OBVIOUS
<1>8. PICK f \in [Nat -> Texts] : Recurs(f, h, 1, a, G)
  <2>1. PICK c : c = 1
    OBVIOUS
  <2>2. \E f \in [Nat -> Texts] : Recurs(f, h, c, a, G)
    <3>1. /\ c \in Nat \ {0} /\ a \in Texts /\ G \in [Texts \X Nat -> Texts]
          /\ \A k \in Nat : k >= c => h[k] \in 0 .. k - 1
      BY <1>1, <1>3, <1>4, <1>7, <2>1
    <3> QED
      BY ONLY <3>1, Descending
  <2> QED
    BY <2>1, <2>2
<1>9. ASSUME NEW k \in Nat
      PROVE  f[k] = IF k = 0 THEN <<>> ELSE <<48 + (k % 10)>> \o f[k \div 10]
  <2>1. f[k] = G[<<IF k >= 1 THEN f[k \div 10] ELSE a, k>>]
    BY <1>5, <1>8 DEF Recurs
  <2>2. f[k \div 10] \in Texts
    BY TenthIsLess
  <2>3. CASE k = 0
    <3>1. ~(k >= 1) /\ a \in Texts
      BY <1>3, <1>7, <2>3
    <3>2. f[k] = G[<<a, k>>]
      BY <2>1, <3>1
    <3> QED
      BY <1>6, <1>7, <2>3, <3>1, <3>2
  <2>4. CASE k # 0
    <3>1. k >= 1
      BY <2>4
    <3>2. f[k] = G[<<f[k \div 10], k>>]
      BY <2>1, <3>1
    <3> QED
      BY <1>6, <2>2, <2>4, <3>2
  <2> QED
    BY <2>3, <2>4
<1>10. f = LowDigits(f)
  BY <1>9 DEF LowDigits
<1> QED
  BY <1>10 DEF Lows

\* What is in front of a sequence.
LEMMA Before ==
  ASSUME NEW S, NEW c \in S, NEW s \in Seq(S), NEW t, t = <<c>> \o s
  PROVE  /\ t \in Seq(S) /\ Len(t) = Len(s) + 1 /\ t[1] = c
         /\ \A j \in 1 .. Len(s) : t[j + 1] = s[j]
<1>1. <<c>> \in Seq(S) /\ Len(<<c>>) = 1 /\ <<c>>[1] = c
  OBVIOUS
<1> PICK u : u = <<c>>
  OBVIOUS
<1>2. u \in Seq(S) /\ Len(u) = 1 /\ u[1] = c /\ t = u \o s
  BY <1>1
<1>3. IsJoin(u \o s, u, s) /\ u \o s \in Seq(S)
  BY ONLY <1>2, s \in Seq(S), Joined, ConcatProperties
<1>4. Len(t) = 1 + Len(s) /\ t[1] = c /\ \A j \in 1 .. Len(s) : t[1 + j] = s[j]
  BY <1>2, <1>3 DEF IsJoin
<1>5. \A j \in 1 .. Len(s) : 1 + j = j + 1
  OBVIOUS
<1>6. Len(s) \in Nat
  OBVIOUS
<1> QED
  BY <1>2, <1>3, <1>4, <1>5, <1>6

\* The digits of k, read from the back.
LowRight(k) ==
  /\ Lows[k] \in Texts
  /\ \E v : ReadAs(v, [ i \in 1 .. Len(Lows[k]) |-> Lows[k][Len(Lows[k]) + 1 - i] ], Len(Lows[k]), k)
  /\ k = 0 => Len(Lows[k]) = 0
  /\ k # 0 => Len(Lows[k]) # 0 /\ Lows[k][Len(Lows[k])] # 48

LEMMA LowStep ==
  ASSUME NEW k \in Nat \ {0}, LowRight(k \div 10)
  PROVE  LowRight(k)
<1> DEFINE q == k \div 10
           d == 48 + (k % 10)
           s == Lows[q]
           L == Len(s)
           t == Lows[k]
<1>1. q \in Nat /\ q <= k /\ d \in 48 .. 57 /\ k = q * 10 + (d - 48) /\ (q = 0 => d # 48)
  BY TenthIsLess
<1>2. t = <<d>> \o s
  BY LowsAre DEF LowDigits
<1>3. /\ s \in Texts /\ L \in Nat /\ (q = 0 => L = 0) /\ (q # 0 => L # 0 /\ s[L] # 48)
      /\ \E v : ReadAs(v, [ i \in 1 .. L |-> s[L + 1 - i] ], L, q)
  BY DEF LowRight, ReadAs
<1> HIDE DEF q, d, s, t
<1>4. t \in Texts /\ Len(t) = L + 1 /\ t[1] = d /\ \A j \in 1 .. L : t[j + 1] = s[j]
  BY <1>1, <1>2, <1>3, Before DEF Texts
<1> HIDE DEF L
<1>5. PICK v : ReadAs(v, [ i \in 1 .. L |-> s[L + 1 - i] ], L, q)
  BY <1>3
<1>6. /\ v \in [0 .. L -> 0 .. q] /\ v[0] = 0 /\ v[L] = q
      /\ \A i \in 1 .. L : s[L + 1 - i] \in 48 .. 57 /\ v[i] = v[i - 1] * 10 + (s[L + 1 - i] - 48)
  BY <1>5 DEF ReadAs
<1> DEFINE M == L + 1
           w == [ i \in 1 .. M |-> t[M + 1 - i] ]
           u == [ i \in 0 .. M |-> IF i = M THEN k ELSE v[i] ]
<1>7. u \in [0 .. M -> 0 .. k] /\ u[0] = 0 /\ u[M] = k /\ M \in Nat
  <2>1. ASSUME NEW i \in 0 .. M PROVE (IF i = M THEN k ELSE v[i]) \in 0 .. k
    <3>1. CASE i = M
      BY <3>1
    <3>2. CASE i # M
      <4>1. i \in 0 .. L
        BY <1>3, <3>2
      <4>2. v[i] \in 0 .. q
        BY <1>6, <4>1
      <4> QED
        BY <1>1, <3>2, <4>2
    <3> QED
      BY <3>1, <3>2
  <2>2. 0 \in 0 .. M /\ M \in 0 .. M /\ 0 # M /\ M \in Nat
    BY <1>3
  <2> QED
    BY <1>6, <2>1, <2>2
<1>8. ASSUME NEW i \in 1 .. M PROVE w[i] \in 48 .. 57 /\ u[i] = u[i - 1] * 10 + (w[i] - 48)
  <2>1. i \in 0 .. M /\ i - 1 \in 0 .. M /\ i - 1 # M
    BY <1>3
  <2>2. u[i - 1] = v[i - 1] /\ w[i] = t[M + 1 - i]
    BY <2>1
  <2>3. CASE i = M
    <3>1. M + 1 - i = 1 /\ i - 1 = L
      BY <1>3, <2>3
    <3> QED
      BY <1>1, <1>4, <1>6, <1>7, <2>2, <2>3, <3>1
  <2>4. CASE i # M
    <3>1. i \in 1 .. L /\ M + 1 - i = (L + 1 - i) + 1 /\ L + 1 - i \in 1 .. L
      BY <1>3, <2>4
    <3>2. u[i] = v[i]
      BY <2>1, <2>4
    <3>3. w[i] = s[L + 1 - i]
      BY <1>4, <2>2, <3>1
    <3> QED
      BY <1>6, <2>2, <3>1, <3>2, <3>3
  <2> QED
    BY <2>3, <2>4
<1>9. ReadAs(u, w, M, k)
  BY <1>7, <1>8 DEF ReadAs
<1>10. Len(t) # 0 /\ t[Len(t)] # 48
  <2>1. CASE q = 0
    <3>1. L = 0 /\ Len(t) = 1
      BY <1>3, <1>4, <2>1
    <3> QED
      BY <1>1, <1>4, <2>1, <3>1
  <2>2. CASE q # 0
    <3>1. L \in 1 .. L /\ s[L] # 48 /\ Len(t) = L + 1 /\ L + 1 # 0
      BY <1>3, <1>4, <2>2
    <3> QED
      BY <1>4, <3>1
  <2> QED
    BY <2>1, <2>2
<1>11. w = [ i \in 1 .. Len(t) |-> t[Len(t) + 1 - i] ] /\ M = Len(t)
  BY <1>4
<1> HIDE DEF w, u, M
<1>12. \E x : ReadAs(x, [ i \in 1 .. Len(t) |-> t[Len(t) + 1 - i] ], Len(t), k)
  BY <1>9, <1>11
<1> HIDE DEF ReadAs
<1> QED
  BY <1>4, <1>10, <1>12 DEF LowRight, t

LEMMA LowIsRight == \A k \in Nat : LowRight(k)
<1> SUFFICES ASSUME { k \in Nat : ~LowRight(k) } # {} PROVE FALSE
  OBVIOUS
<1> DEFINE Bad == { k \in Nat : ~LowRight(k) }
<1>1. PICK k \in Bad : \A j \in Bad : k <= j
  <2>1. Bad \in SUBSET Nat /\ Bad # {}
    OBVIOUS
  <2> HIDE DEF Bad
  <2> QED
    BY <2>1, Least
<1>2. k \in Nat /\ ~LowRight(k)
  OBVIOUS
<1>3. CASE k = 0
  <2>1. Lows[0] = <<>>
    BY LowsAre DEF LowDigits
  <2>2. PICK s : s = <<>> /\ s \in Texts /\ Len(s) = 0 /\ Lows[k] = s
    <3>1. <<>> \in Texts /\ Len(<<>>) = 0
      BY DEF Texts
    <3>2. Lows[k] = <<>>
      BY <1>3, <2>1
    <3> HIDE DEF Texts
    <3> QED
      BY <3>1, <3>2
  <2> DEFINE v == [ i \in 0 .. 0 |-> 0 ]
  <2>3. ReadAs(v, [ i \in 1 .. 0 |-> s[0 + 1 - i] ], 0, 0)
    BY DEF ReadAs
  <2> HIDE DEF v, ReadAs
  <2> QED
    BY <1>2, <1>3, <2>2, <2>3 DEF LowRight
<1>4. CASE k # 0
  <2>1. k \div 10 \in Nat /\ ~(k <= k \div 10)
    BY <1>2, <1>4, TenthIsLess
  <2>2. k \div 10 \notin Bad
    <3> HIDE DEF Bad
    <3> QED
      BY <1>1, <2>1
  <2>3. LowRight(k \div 10)
    <3> HIDE DEF LowRight
    <3> QED
      BY <2>1, <2>2
  <2> QED
    BY <1>2, <1>4, <2>3, LowStep
<1> QED
  BY <1>3, <1>4

\* The number of digits is counted as they are written.
Counts(f) == [ k \in Nat |-> IF k = 0 THEN 0 ELSE 1 + f[k \div 10] ]

LEMMA CountIsLength ==
  ASSUME NEW n \in Nat
  PROVE  (CHOOSE f : f = Counts(f))[n] = Len(Lows[n])
<1> DEFINE g == [ k \in Nat |-> Len(Lows[k]) ]
<1>1. \A k \in Nat : LowRight(k)
  BY LowIsRight
<1>2. ASSUME NEW k \in Nat
      PROVE  Len(Lows[k]) = IF k = 0 THEN 0 ELSE 1 + Len(Lows[k \div 10])
  <2>1. CASE k = 0
    BY <1>1, <2>1 DEF LowRight
  <2>2. CASE k # 0
    <3>1. k \div 10 \in Nat /\ k % 10 \in 0 .. 9
      BY TenthIsLess
    <3>2. PICK s, d, t : s = Lows[k \div 10] /\ d = 48 + (k % 10) /\ t = Lows[k]
      OBVIOUS
    <3>3. s \in Seq(48 .. 57) /\ d \in 48 .. 57
      BY <1>1, <3>1, <3>2 DEF LowRight, Texts
    <3>4. t = <<d>> \o s
      BY <2>2, <3>2, LowsAre DEF LowDigits
    <3>5. Len(t) = Len(s) + 1 /\ Len(s) \in Nat
      BY <3>3, <3>4, Before
    <3> QED
      BY <2>2, <3>2, <3>5
  <2> QED
    BY <2>1, <2>2
<1>3. g = Counts(g)
  <2>1. \A k \in Nat : k \div 10 \in Nat
    BY TenthIsLess
  <2> QED
    BY <1>2, <2>1 DEF Counts
<1> DEFINE f == CHOOSE h : h = Counts(h)
<1>4. f = Counts(f)
  BY <1>3
<1> HIDE DEF f, g
<1>5. \A k \in Nat : f[k] = IF k = 0 THEN 0 ELSE 1 + f[k \div 10]
  BY <1>4 DEF Counts
<1> DEFINE Bad == { k \in Nat : f[k] # Len(Lows[k]) }
<1>6. CASE Bad = {}
  BY <1>6 DEF f
<1>7. CASE Bad # {}
  <2>1. PICK k \in Bad : \A j \in Bad : k <= j
    <3>1. Bad \in SUBSET Nat
      OBVIOUS
    <3> HIDE DEF Bad
    <3> QED
      BY <1>7, <3>1, Least
  <2>2. k \in Nat /\ f[k] # Len(Lows[k])
    OBVIOUS
  <2>3. k # 0
    BY <1>2, <1>5, <2>2
  <2>4. k \div 10 \in Nat /\ ~(k <= k \div 10)
    BY <2>2, <2>3, TenthIsLess
  <2>5. k \div 10 \notin Bad
    <3> HIDE DEF Bad
    <3> QED
      BY <2>1, <2>4
  <2>6. f[k \div 10] = Len(Lows[k \div 10])
    BY <2>4, <2>5
  <2> QED
    BY <1>2, <1>5, <2>2, <2>3, <2>6
<1> QED
  BY <1>6, <1>7

\* The digits w of k, of which there are L, stand in a string of length m behind
\* a sign, if there is one.
NumberText(s, m, neg, w, L, k) ==
  /\ StringOf(s, m) /\ L \in Nat \ {0} /\ m = (IF neg THEN 1 ELSE 0) + L
  /\ neg => s[0] = Minus
  /\ \A i \in 1 .. L : s[(IF neg THEN 1 ELSE 0) + i - 1] = w[i]
  /\ \E v : ReadAs(v, w, L, k)

\* One turn of ft_atoi's loop; first is the place of the first digit.
Reading(s, first, last, f) ==
  [ i \in first .. last |-> IF i = first THEN 0 ELSE f[i - 1] * 10 + (s[i - 1] - 48) ]
ReadTo(s, first, last) == CHOOSE f : f = Reading(s, first, last, f)
WrittenAt(s, first, w, L) == \A i \in 1 .. L : s[first + i - 1] = w[i]
ReadIs(s, first, last, v, L) == \A i \in 0 .. L : ReadTo(s, first, last)[first + i] = v[i]

LEMMA ReadNumber ==
  ASSUME NEW s, NEW first \in Nat, NEW L \in Nat, NEW w, NEW k, NEW v, ReadAs(v, w, L, k),
         WrittenAt(s, first, w, L), NEW last, last = first + L
  PROVE  ReadIs(s, first, last, v, L)
<1> DEFINE g == [ j \in first .. last |-> v[j - first] ]
           f == CHOOSE h : h = Reading(s, first, last, h)
<1>1. /\ v \in [0 .. L -> 0 .. k] /\ v[0] = 0
      /\ \A j \in 1 .. L : v[j] = v[j - 1] * 10 + (w[j] - 48)
  BY DEF ReadAs
<1>2. ASSUME NEW j \in first .. last
      PROVE  g[j] = IF j = first THEN 0 ELSE g[j - 1] * 10 + (s[j - 1] - 48)
  <2>1. CASE j = first
    <3>1. j - first = 0
      BY <2>1
    <3> QED
      BY <1>1, <2>1, <3>1
  <2>2. CASE j # first
    <3>1. /\ j - first \in 1 .. L /\ j - 1 \in first .. last /\ (j - 1) - first = (j - first) - 1
          /\ first + (j - first) - 1 = j - 1
      BY <2>2
    <3>2. v[j - first] = v[(j - first) - 1] * 10 + (w[j - first] - 48) /\ s[j - 1] = w[j - first]
      BY <1>1, <3>1 DEF WrittenAt
    <3>3. g[j] = v[j - first] /\ g[j - 1] = v[(j - first) - 1]
      BY <3>1
    <3> HIDE DEF g
    <3> QED
      BY <2>2, <3>2, <3>3
  <2> QED
    BY <2>1, <2>2
<1>3. g = Reading(s, first, last, g)
  BY <1>2 DEF Reading
<1> HIDE DEF g
<1>4. f = Reading(s, first, last, f)
  BY <1>3
<1> HIDE DEF f
<1>5. \A j \in first .. last : f[j] = IF j = first THEN 0 ELSE f[j - 1] * 10 + (s[j - 1] - 48)
  BY <1>4 DEF Reading
<1> DEFINE T == { j \in 0 .. L : f[first + j] = v[j] }
<1>6. 0 \in T
  <2>1. first + 0 = first /\ first \in first .. last
    OBVIOUS
  <2> QED
    BY <1>1, <1>5, <2>1
<1>7. ASSUME NEW j \in 1 .. L, j - 1 \in T PROVE j \in T
  <2>1. /\ first + j \in first .. last /\ first + j # first /\ (first + j) - 1 = first + (j - 1)
        /\ first + j - 1 = first + (j - 1) /\ j \in 0 .. L
    OBVIOUS
  <2>2. f[first + (j - 1)] = v[j - 1]
    BY <1>7
  <2>3. f[first + j] = f[first + (j - 1)] * 10 + (s[first + (j - 1)] - 48)
    BY <1>5, <2>1
  <2>4. s[first + (j - 1)] = w[j]
    BY <2>1 DEF WrittenAt
  <2> QED
    BY <1>1, <2>1, <2>2, <2>3, <2>4
<1> HIDE DEF T
<1>8. 0 .. L \subseteq T
  BY <1>6, <1>7, Climb
<1> QED
  BY <1>8 DEF T, f, ReadTo, ReadIs

\* A digit more overflows if the number that it makes is none of int's.
LEMMA OverflowIs ==
  ASSUME NEW num \in Nat, NEW d \in 0 .. 9
  PROVE  /\ WillOverflow(num, d) <=> ~(num * 10 + d <= IntMax)
         /\ WillUnderflow(num, d) <=> ~(num * 10 + d <= IntMax + 1)
<1>1. IntMax \in Nat /\ IntMax + 1 \in Nat
  BY IntAssumption
<1>2. ASSUME NEW m \in Nat
      PROVE  num > m \div 10 \/ (num = m \div 10 /\ d > m % 10) <=> ~(num * 10 + d <= m)
  <2>1. m = 10 * (m \div 10) + (m % 10) /\ m \div 10 \in Nat /\ m % 10 \in 0 .. 9
    BY TenthIsLess
  <2> QED
    BY <2>1
<1> QED
  BY <1>1, <1>2 DEF WillOverflow, WillUnderflow

\* Where ft_atoi finds a number in a string: behind spaces, and perhaps a sign.
NumberAt(s, n, start, first, last) ==
  /\ StringOf(s, n)
  /\ start \in 0 .. n /\ ~Space(s[start]) /\ \A i \in 0 .. start - 1 : Space(s[i])
  /\ first = (IF s[start] \in {Minus, Plus} THEN start + 1 ELSE start)
  /\ last \in first .. n /\ ~Digit(s[last]) /\ \A i \in first .. last - 1 : Digit(s[i])

Limit(neg) == IF neg THEN IntMax + 1 ELSE IntMax
Clamped(k, neg) ==
  [ value |-> IF k <= Limit(neg) THEN IF neg THEN -k ELSE k ELSE IF neg THEN 0 ELSE -1,
    erange |-> ~(k <= Limit(neg)) ]

LEMMA AtoiIs ==
  ASSUME NEW s, NEW n, NEW start, NEW first, NEW last, NumberAt(s, n, start, first, last),
         NEW v, NEW w, NEW L, NEW k \in Nat, ReadAs(v, w, L, k), WrittenAt(s, first, w, L), last = first + L,
         NEW neg \in BOOLEAN, neg <=> s[start] = Minus
  PROVE  Atoi(s) = Clamped(k, neg)
<1> DEFINE sign == IF neg THEN -1 ELSE 1
           Starts == { i \in DOMAIN s : ~Space(s[i]) }
           Ends == { i \in DOMAIN s : i >= first /\ ~Digit(s[i]) }
           num == ReadTo(s, first, last)
           Stops(i) == IF sign = 1 THEN WillOverflow(num[i], s[i] - 48) ELSE WillUnderflow(num[i], s[i] - 48)
           out == \E i \in first .. last - 1 : Stops(i)
<1>1. /\ n \in Nat /\ DOMAIN s = 0 .. n /\ start \in 0 .. n /\ first \in Nat /\ last \in first .. n
  BY DEF NumberAt, StringOf
<1>2. /\ L \in Nat /\ v \in [0 .. L -> 0 .. k] /\ v[0] = 0 /\ v[L] = k
      /\ \A i \in 1 .. L : w[i] \in 48 .. 57 /\ v[i] = v[i - 1] * 10 + (w[i] - 48)
      /\ \A i \in 1 .. L : s[first + i - 1] = w[i]
  BY DEF ReadAs, WrittenAt
<1>3. Min(Starts) = start
  <2>1. Starts \in SUBSET Nat /\ start \in Starts
    BY <1>1 DEF NumberAt
  <2>2. \A i \in Starts : start <= i
    <3> SUFFICES ASSUME NEW i \in Starts, ~(start <= i) PROVE FALSE
      OBVIOUS
    <3>1. i \in 0 .. start - 1 /\ ~Space(s[i])
      BY <1>1
    <3> QED
      BY <3>1 DEF NumberAt
  <2> HIDE DEF Starts
  <2> QED
    BY <2>1, <2>2, MinUnique
<1>4. Min(Ends) = last
  <2>1. Ends \in SUBSET Nat /\ last \in Ends
    BY <1>1 DEF NumberAt
  <2>2. \A i \in Ends : last <= i
    <3> SUFFICES ASSUME NEW i \in Ends, ~(last <= i) PROVE FALSE
      OBVIOUS
    <3>1. i \in first .. last - 1 /\ ~Digit(s[i])
      BY <1>1
    <3> QED
      BY <3>1 DEF NumberAt
  <2> HIDE DEF Ends
  <2> QED
    BY <2>1, <2>2, MinUnique
<1>5. \A i \in 0 .. L : num[first + i] = v[i]
  <2>1. ReadIs(s, first, last, v, L)
    BY ONLY <1>1, <1>2, ReadAs(v, w, L, k), WrittenAt(s, first, w, L), last = first + L, ReadNumber
  <2> QED
    BY <2>1 DEF ReadIs
<1>6. Atoi(s) = [ value |-> IF ~out THEN num[last] * sign ELSE IF sign = 1 THEN -1 ELSE 0, erange |-> out ]
  <2> DEFINE S(f, sg, to, i) ==
               IF sg = 1 THEN WillOverflow(ReadTo(s, f, to)[i], s[i] - 48)
               ELSE WillUnderflow(ReadTo(s, f, to)[i], s[i] - 48)
             O(f, sg, to) == \E i \in f .. to - 1 : S(f, sg, to, i)
             A(f, sg, to) ==
               [ value |-> IF ~O(f, sg, to) THEN ReadTo(s, f, to)[to] * sg ELSE IF sg = 1 THEN -1 ELSE 0,
                 erange |-> O(f, sg, to) ]
             st == Min(Starts)
             ft == IF s[st] \in {Minus, Plus} THEN st + 1 ELSE st
  <2>1. Atoi(s) = A(ft, IF s[st] = Minus THEN -1 ELSE 1, Min({ i \in DOMAIN s : i >= ft /\ ~Digit(s[i]) }))
    BY DEF Atoi, Reading, ReadTo
  <2>2. st = start /\ ft = first /\ (IF s[st] = Minus THEN -1 ELSE 1) = sign
    BY <1>3 DEF NumberAt
  <2> HIDE DEF A, ft, st, sign, Starts
  <2>3. Atoi(s) = A(first, sign, Min(Ends))
    BY <2>1, <2>2
  <2>4. Atoi(s) = A(first, sign, last)
    <3> HIDE DEF Ends
    <3> QED
      BY <1>4, <2>3
  <2> QED
    BY <2>4 DEF A
<1> HIDE DEF num
<1> DEFINE limit == Limit(neg)
<1>7. limit \in Nat
  BY IntAssumption DEF Limit
<1>8. ASSUME NEW i \in 1 .. L
      PROVE  Stops(first + i - 1) <=> ~(v[i] <= limit)
  <2>1. i - 1 \in 0 .. L /\ i \in 0 .. L /\ first + (i - 1) = first + i - 1
    BY <1>1, <1>2
  <2>2. PICK a, d : a = num[first + i - 1] /\ d = s[first + i - 1] - 48
    OBVIOUS
  <2>3. a = v[i - 1] /\ d = w[i] - 48 /\ a \in Nat
    BY <1>2, <1>5, <2>1, <2>2
  <2>4. d \in 0 .. 9 /\ v[i] = a * 10 + d
    BY <1>2, <2>3
  <2>5. Stops(first + i - 1) <=> IF neg THEN WillUnderflow(a, d) ELSE WillOverflow(a, d)
    BY <2>2
  <2> QED
    BY <2>3, <2>4, <2>5, OverflowIs DEF Limit
<1>9. out <=> ~(k <= limit)
  <2>1. ASSUME out PROVE ~(k <= limit)
    <3>1. PICK i \in first .. last - 1 : Stops(i)
      BY <2>1
    <3>2. i - first + 1 \in 1 .. L /\ first + (i - first + 1) - 1 = i /\ i - first + 1 \in 0 .. L
      BY <1>1, <1>2
    <3>3. ~(v[i - first + 1] <= limit)
      <4> HIDE DEF Stops, limit
      <4> QED
        BY <1>8, <3>1, <3>2
    <3>4. v[i - first + 1] \in 0 .. k
      BY <1>2, <3>2
    <3> HIDE DEF limit
    <3> QED
      BY <1>7, <3>3, <3>4
  <2>2. ASSUME ~(k <= limit) PROVE out
    <3>1. L # 0
      BY <1>2, <1>7, <2>2
    <3>2. L \in 1 .. L /\ first + L - 1 \in first .. last - 1
      BY <1>1, <1>2, <3>1
    <3>3. Stops(first + L - 1)
      <4> HIDE DEF Stops, limit
      <4> QED
        BY <1>2, <1>8, <2>2, <3>2
    <3> HIDE DEF Stops
    <3> QED
      BY <3>2, <3>3
  <2> HIDE DEF out
  <2> QED
    BY <2>1, <2>2
<1>10. num[last] = k
  <2>1. L \in 0 .. L /\ first + L = last
    BY <1>2
  <2> QED
    BY <1>2, <1>5, <2>1
<1>11. k * sign = (IF neg THEN -k ELSE k) /\ (sign = 1 <=> ~neg)
  <2>1. k * (-1) = -k /\ k * 1 = k
    OBVIOUS
  <2> QED
    BY <2>1
<1> HIDE DEF out, sign
<1>12. CASE out
  <2>1. out = TRUE /\ (k <= limit) = FALSE
    BY <1>9, <1>12
  <2> HIDE DEF limit
  <2>2. Atoi(s) = [value |-> IF neg THEN 0 ELSE -1, erange |-> TRUE]
    BY <1>6, <1>11, <2>1
  <2>3. Clamped(k, neg) = [value |-> IF neg THEN 0 ELSE -1, erange |-> TRUE]
    BY <2>1 DEF Clamped, limit
  <2> QED
    BY <2>2, <2>3
<1>13. CASE ~out
  <2>1. out = FALSE /\ (k <= limit) = TRUE
    BY <1>9, <1>13
  <2> HIDE DEF limit
  <2>2. Atoi(s) = [value |-> IF neg THEN -k ELSE k, erange |-> FALSE]
    BY <1>6, <1>10, <1>11, <2>1
  <2>3. Clamped(k, neg) = [value |-> IF neg THEN -k ELSE k, erange |-> FALSE]
    BY <2>1 DEF Clamped, limit
  <2> QED
    BY <2>2, <2>3
<1> QED
  BY <1>12, <1>13

LEMMA AtoiReads ==
  ASSUME NEW s, NEW m, NEW neg \in BOOLEAN, NEW w, NEW L, NEW k \in Nat,
         NumberText(s, m, neg, w, L, k), k <= Limit(neg)
  PROVE  Atoi(s) = [value |-> IF neg THEN -k ELSE k, erange |-> FALSE]
<1> DEFINE first == IF neg THEN 1 ELSE 0
<1>1. /\ StringOf(s, m) /\ L \in Nat \ {0} /\ m = first + L /\ m \in Nat /\ DOMAIN s = 0 .. m /\ s[m] = NUL
      /\ \A i \in 1 .. L : s[first + i - 1] = w[i]
      /\ neg => s[0] = Minus
  BY DEF NumberText, StringOf
<1>2. PICK v : ReadAs(v, w, L, k)
  BY DEF NumberText
<1>3. first \in {0, 1} /\ (neg => first = 1) /\ (~neg => first = 0)
  OBVIOUS
<1> HIDE DEF first
<1>4. \A i \in first .. m - 1 : s[i] \in 48 .. 57
  <2> SUFFICES ASSUME NEW i \in first .. m - 1 PROVE s[i] \in 48 .. 57
    OBVIOUS
  <2>1. i - first + 1 \in 1 .. L /\ first + (i - first + 1) - 1 = i
    BY <1>1, <1>3
  <2> QED
    BY <1>1, <1>2, <2>1 DEF ReadAs
<1>5. ~neg => s[0] \in 48 .. 57
  BY <1>1, <1>3, <1>4
<1>6. NumberAt(s, m, 0, first, m)
  <2>1. ~Space(s[0])
    BY <1>1, <1>5 DEF Space, Minus
  <2>2. first = IF s[0] \in {Minus, Plus} THEN 0 + 1 ELSE 0
    BY <1>1, <1>3, <1>5 DEF Minus, Plus
  <2>3. ~Digit(s[m]) /\ \A i \in first .. m - 1 : Digit(s[i])
    <3>1. s[m] = 0
      BY <1>1 DEF NUL
    <3> QED
      BY <1>4, <3>1 DEF Digit
  <2>4. 0 \in 0 .. m /\ m \in first .. m /\ 0 .. 0 - 1 = {}
    BY <1>1, <1>3
  <2> QED
    BY <1>1, <2>1, <2>2, <2>3, <2>4 DEF NumberAt
<1>7. neg <=> s[0] = Minus
  BY <1>1, <1>5 DEF Minus
<1>8. WrittenAt(s, first, w, L)
  BY <1>1 DEF WrittenAt
<1>9. Atoi(s) = Clamped(k, neg)
  <2>1. PICK z : z = 0
    OBVIOUS
  <2>2. NumberAt(s, m, z, first, m) /\ (neg <=> s[z] = Minus)
    BY <1>6, <1>7, <2>1
  <2>3. neg \in BOOLEAN /\ k \in Nat /\ m = first + L
    BY <1>1
  <2> QED
    BY ONLY <1>2, <1>8, <2>2, <2>3, AtoiIs
<1> QED
  BY <1>9 DEF Clamped

\* Any digits are those of a number.
LEMMA AnyDigits ==
  ASSUME NEW L \in Nat, NEW w, \A i \in 1 .. L : w[i] \in 48 .. 57
  PROVE  \E k \in Nat : \E v : ReadAs(v, w, L, k)
<1> DEFINE h == [ i \in Nat |-> IF i = 0 THEN 0 ELSE i - 1 ]
           G == [ x \in Nat \X Nat |-> IF x[2] \in 1 .. L THEN x[1] * 10 + (w[x[2]] - 48) ELSE 0 ]
<1>1. \A i \in Nat : i >= 1 => h[i] = i - 1 /\ h[i] \in 0 .. i - 1
  OBVIOUS
<1>2. /\ G \in [Nat \X Nat -> Nat]
      /\ \A x, i \in Nat : G[<<x, i>>] = IF i \in 1 .. L THEN x * 10 + (w[i] - 48) ELSE 0
  <2>1. ASSUME NEW x \in Nat \X Nat
        PROVE  (IF x[2] \in 1 .. L THEN x[1] * 10 + (w[x[2]] - 48) ELSE 0) \in Nat
    <3>1. x[1] \in Nat /\ (x[2] \in 1 .. L => w[x[2]] \in 48 .. 57)
      OBVIOUS
    <3> QED
      BY <3>1
  <2> QED
    BY <2>1
<1> HIDE DEF h, G
<1>3. PICK f \in [Nat -> Nat] : Recurs(f, h, 1, 0, G)
  <2>1. PICK b, a : b = 1 /\ a = 0
    OBVIOUS
  <2>2. /\ b \in Nat \ {0} /\ a \in Nat /\ G \in [Nat \X Nat -> Nat]
        /\ \A i \in Nat : i >= b => h[i] \in 0 .. i - 1
    BY <1>1, <1>2, <2>1
  <2>3. \E f \in [Nat -> Nat] : Recurs(f, h, b, a, G)
    BY ONLY <2>2, Descending
  <2> QED
    BY <2>1, <2>3
<1>4. f[0] = 0
  <2>1. f[0] = G[<<IF 0 >= 1 THEN f[h[0]] ELSE 0, 0>>]
    BY <1>3 DEF Recurs
  <2> QED
    BY <1>2, <2>1
<1>5. ASSUME NEW i \in 1 .. L PROVE f[i] = f[i - 1] * 10 + (w[i] - 48) /\ f[i - 1] <= f[i]
  <2>1. i \in Nat /\ i >= 1 /\ i - 1 \in Nat
    OBVIOUS
  <2>2. f[i] = G[<<f[i - 1], i>>]
    <3>1. f[i] = G[<<IF i >= 1 THEN f[h[i]] ELSE 0, i>>]
      BY <1>3, <2>1 DEF Recurs
    <3> QED
      BY <1>1, <2>1, <3>1
  <2>3. f[i - 1] \in Nat /\ w[i] \in 48 .. 57
    BY <2>1
  <2>4. f[i] = f[i - 1] * 10 + (w[i] - 48)
    BY <1>2, <2>1, <2>2, <2>3
  <2> QED
    BY <2>3, <2>4
<1>6. \A i \in 0 .. L : f[i] <= f[L]
  <2> DEFINE T == { i \in 0 .. L : f[L - i] <= f[L] }
  <2>1. 0 \in T
    <3>1. L - 0 = L /\ f[L] \in Nat
      OBVIOUS
    <3> QED
      BY <3>1
  <2>2. \A i \in 1 .. L : i - 1 \in T => i \in T
    <3> SUFFICES ASSUME NEW i \in 1 .. L, i - 1 \in T PROVE i \in T
      OBVIOUS
    <3>1. /\ L - (i - 1) \in 1 .. L /\ (L - (i - 1)) - 1 = L - i /\ i \in 0 .. L
          /\ L - i \in Nat /\ L - (i - 1) \in Nat
      OBVIOUS
    <3>2. f[L - i] <= f[L - (i - 1)]
      BY <1>5, <3>1
    <3>3. f[L - (i - 1)] <= f[L] /\ f[L - i] \in Nat /\ f[L - (i - 1)] \in Nat /\ f[L] \in Nat
      BY <3>1
    <3> QED
      BY <3>1, <3>2, <3>3
  <2> HIDE DEF T
  <2>3. 0 .. L \subseteq T
    BY <2>1, <2>2, Climb
  <2>4. \A i \in 0 .. L : L - i \in 0 .. L /\ L - (L - i) = i
    OBVIOUS
  <2> QED
    BY <2>3, <2>4 DEF T
<1> DEFINE v == [ i \in 0 .. L |-> f[i] ]
<1>7. ReadAs(v, w, L, f[L])
  <2>1. v \in [0 .. L -> 0 .. f[L]]
    <3>1. \A i \in 0 .. L : f[i] \in Nat /\ f[L] \in Nat /\ f[i] <= f[L]
      BY <1>6
    <3> QED
      BY <3>1
  <2>2. 0 \in 0 .. L /\ L \in 0 .. L /\ \A i \in 1 .. L : i \in 0 .. L /\ i - 1 \in 0 .. L
    OBVIOUS
  <2>3. v[0] = 0 /\ v[L] = f[L] /\ \A i \in 1 .. L : v[i] = v[i - 1] * 10 + (w[i] - 48)
    BY <1>4, <1>5, <2>2
  <2> HIDE DEF v
  <2> QED
    BY <2>1, <2>3 DEF ReadAs
<1>8. f[L] \in Nat
  OBVIOUS
<1> HIDE DEF v
<1> QED
  BY <1>7, <1>8

\* What ft_atoi is given.
LEMMA NumberStrings ==
  ASSUME NEW s \in StringsOf(NumberChars, NumberLen)
  PROVE  StringOf(s, Strlen(s)) /\ \A i \in 0 .. Strlen(s) : s[i] \in Nat
<1>1. \A c \in NumberChars : c \in Nat
  BY IntAssumption
<1>2. PICK k \in 0 .. NumberLen : s \in [0 .. k -> NumberChars \cup {NUL}]
  BY DEF StringsOf
<1>3. Cardinality(DOMAIN s) = k + 1 /\ k \in Nat
  <2>1. k \in Nat
    OBVIOUS
  <2>2. Cardinality(0 .. (k + 1) - 1) = k + 1
    BY <2>1, CountTo
  <2>3. (k + 1) - 1 = k
    BY <2>1
  <2> QED
    BY <1>2, <2>1, <2>2, <2>3
<1>4. \A i \in 0 .. k : s[i] = NUL <=> i = k
  BY <1>2, <1>3 DEF StringsOf
<1>5. StringOf(s, k)
  BY <1>2, <1>3, <1>4 DEF StringOf
<1>6. Strlen(s) = k
  BY <1>5, LengthIs
<1>7. \A i \in 0 .. k : s[i] \in Nat
  BY <1>1, <1>2 DEF NUL
<1> QED
  BY <1>5, <1>6, <1>7

LEMMA NumberFound ==
  ASSUME NEW s, NEW n, StringOf(s, n), \A i \in 0 .. n : s[i] \in Nat
  PROVE  \E start, first, last : NumberAt(s, n, start, first, last)
<1>1. n \in Nat /\ s[n] = NUL
  BY DEF StringOf
<1>2. PICK start \in 0 .. n : ~Space(s[start]) /\ \A i \in 0 .. start - 1 : Space(s[i])
  <2> DEFINE S == { i \in 0 .. n : ~Space(s[i]) }
  <2>1. S \in SUBSET Nat /\ n \in S
    BY <1>1 DEF Space, NUL
  <2>2. PICK i \in S : \A j \in S : i <= j
    <3> HIDE DEF S
    <3> QED
      BY <2>1, Least
  <2>3. i \in 0 .. n /\ ~Space(s[i])
    OBVIOUS
  <2>4. ASSUME NEW j \in 0 .. i - 1 PROVE Space(s[j])
    <3>1. j \in 0 .. n /\ ~(i <= j)
      BY <1>1, <2>3
    <3> QED
      BY <2>2, <3>1
  <2> QED
    BY <2>3, <2>4
<1>3. PICK first : first = IF s[start] \in {Minus, Plus} THEN start + 1 ELSE start
  OBVIOUS
<1>4. first \in 0 .. n
  <2>1. s[start] \in {Minus, Plus} => start # n
    BY <1>1 DEF NUL, Minus, Plus
  <2> QED
    BY <1>1, <1>3, <2>1
<1>5. PICK last \in first .. n : ~Digit(s[last]) /\ \A i \in first .. last - 1 : Digit(s[i])
  <2> DEFINE S == { i \in first .. n : ~Digit(s[i]) }
  <2>1. S \in SUBSET Nat /\ n \in S
    <3>1. ~Digit(s[n])
      BY <1>1 DEF Digit, NUL
    <3> QED
      BY <1>1, <1>4, <3>1
  <2>2. PICK i \in S : \A j \in S : i <= j
    <3> HIDE DEF S
    <3> QED
      BY <2>1, Least
  <2>3. i \in first .. n /\ ~Digit(s[i])
    OBVIOUS
  <2>4. ASSUME NEW j \in first .. i - 1 PROVE Digit(s[j])
    <3>1. j \in first .. n /\ ~(i <= j)
      BY <1>1, <1>4, <2>3
    <3> QED
      BY <2>2, <3>1
  <2> QED
    BY <2>3, <2>4
<1>6. NumberAt(s, n, start, first, last)
  BY <1>2, <1>3, <1>5 DEF NumberAt
<1> QED
  BY <1>6

\* What stands in the text is the number read.
LEMMA NumberInIs ==
  ASSUME NEW s, NEW n, NEW start, NEW first, NEW last, NumberAt(s, n, start, first, last),
         NEW v, NEW w, NEW L, NEW k \in Nat, ReadAs(v, w, L, k), WrittenAt(s, first, w, L), last = first + L,
         NEW neg \in BOOLEAN, neg <=> s[start] = Minus
  PROVE  NumberIn(s) = IF neg THEN -k ELSE k
<1> DEFINE t == Text(s)
           Skips == { i \in 1 .. Len(t) + 1 : i = Len(t) + 1 \/ ~Space(t[i]) }
           skip == Min(Skips)
           signed == skip <= Len(t) /\ t[skip] \in {Minus, Plus}
           from == IF signed THEN skip + 1 ELSE skip
           rest == SubSeq(t, from, Len(t))
           Counting == { j \in 0 .. Len(rest) : \A i \in 1 .. j : Digit(rest[i]) }
           digits == Max(Counting)
           d == [ i \in 1 .. digits |-> rest[i] - 48 ]
<1>1. NumberIn(s) = IF signed /\ t[skip] = Minus THEN -Numeral(d, 10) ELSE Numeral(d, 10)
  BY DEF NumberIn
<1>2. /\ StringOf(s, n) /\ n \in Nat /\ start \in 0 .. n /\ first \in Nat /\ last \in first .. n /\ s[n] = NUL
      /\ ~Space(s[start]) /\ \A i \in 0 .. start - 1 : Space(s[i])
  BY DEF NumberAt, StringOf
<1>3. /\ L \in Nat /\ v \in [0 .. L -> 0 .. k] /\ v[0] = 0 /\ v[L] = k
      /\ \A i \in 1 .. L : w[i] \in 48 .. 57 /\ v[i] = v[i - 1] * 10 + (w[i] - 48)
      /\ \A i \in 1 .. L : s[first + i - 1] = w[i]
  BY DEF ReadAs, WrittenAt
<1>4. t = [ i \in 1 .. n |-> s[i - 1] ] /\ Len(t) = n
  <2>1. t = Piece(s, 0, n)
    BY <1>2, LengthIs DEF Text
  <2> HIDE DEF t
  <2> QED
    BY <1>2, <2>1, PieceIs
<1> HIDE DEF t
<1>5. skip = start + 1
  <2>1. Skips \in SUBSET Nat
    BY <1>2, <1>4
  <2>2. start + 1 \in Skips
    <3>1. start # n => t[start + 1] = s[start]
      <4>1. start # n => start + 1 \in 1 .. n /\ (start + 1) - 1 = start
        BY <1>2
      <4> QED
        BY <1>4, <4>1
    <3> QED
      BY <1>2, <1>4, <3>1
  <2>3. ASSUME NEW y \in Skips, ~(start + 1 <= y) PROVE FALSE
    <3>1. y \in 1 .. n /\ y - 1 \in 0 .. start - 1 /\ ~Space(t[y])
      BY <1>2, <1>4, <2>3
    <3> QED
      BY <1>2, <1>4, <3>1
  <2> HIDE DEF Skips
  <2> QED
    BY <2>1, <2>2, <2>3, MinUnique
<1> HIDE DEF skip
<1>6. (signed <=> s[start] \in {Minus, Plus}) /\ (signed => t[skip] = s[start])
  <2>1. CASE start = n
    <3>1. ~(skip <= Len(t)) /\ s[start] = NUL
      BY <1>2, <1>4, <1>5, <2>1
    <3> QED
      BY <3>1 DEF NUL, Minus, Plus
  <2>2. CASE start # n
    <3>1. start + 1 \in 1 .. n /\ (start + 1) - 1 = start
      BY <1>2, <2>2
    <3>2. skip <= Len(t) /\ t[skip] = s[start]
      BY <1>2, <1>4, <1>5, <3>1
    <3> QED
      BY <3>2
  <2> QED
    BY <2>1, <2>2
<1>7. from = first + 1
  BY <1>2, <1>5, <1>6 DEF NumberAt
<1>8. signed /\ t[skip] = Minus <=> neg
  BY <1>6
<1> HIDE DEF signed, from
<1>9. /\ Len(rest) = n - first
      /\ \A i \in 1 .. n - first : rest[i] = s[first + i - 1]
  <2>1. rest = SubSeq(t, first + 1, n)
    BY <1>4, <1>7
  <2>2. SubSeq(t, first + 1, n) = Piece(s, first, n)
    <3>1. n \in 0 .. n
      BY <1>2
    <3> QED
      BY <1>2, <3>1, SubText DEF t
  <2>3. rest = [ i \in 1 .. n - first |-> s[first + i - 1] ]
    <3> HIDE DEF rest
    <3> QED
      BY <2>1, <2>2 DEF Piece
  <2>4. n - first \in Nat
    BY <1>2
  <2> HIDE DEF rest
  <2> QED
    BY <2>3, <2>4
<1> HIDE DEF rest
<1>10. digits = L
  <2>1. L \in Counting
    <3>1. L \in 0 .. n - first /\ \A i \in 1 .. L : i \in 1 .. n - first
      BY <1>2, <1>3
    <3>2. \A i \in 1 .. L : Digit(rest[i])
      <4> SUFFICES ASSUME NEW i \in 1 .. L PROVE Digit(rest[i])
        OBVIOUS
      <4>1. rest[i] = w[i] /\ w[i] \in 48 .. 57
        BY <1>3, <1>9, <3>1
      <4> QED
        BY <4>1 DEF Digit
    <3> QED
      BY <1>9, <3>1, <3>2
  <2>2. ASSUME NEW y \in Counting PROVE y \in Int /\ y <= L
    <3> SUFFICES ASSUME ~(y <= L) PROVE FALSE
      BY <1>2, <1>9
    <3>1. y \in 0 .. n - first /\ \A i \in 1 .. y : Digit(rest[i])
      BY <1>9
    <3>2. L + 1 \in 1 .. y /\ L + 1 \in 1 .. n - first /\ first + (L + 1) - 1 = last
      BY <1>2, <1>3, <3>1
    <3>3. Digit(s[last])
      BY <1>9, <3>1, <3>2
    <3> QED
      BY <3>3 DEF NumberAt
  <2> HIDE DEF Counting
  <2> QED
    BY <1>3, <2>1, <2>2, MaxUnique
<1> HIDE DEF digits
<1>11. Numeral(d, 10) = k
  <2>1. \A i \in 1 .. L : i \in 1 .. n - first
    BY <1>2, <1>3
  <2>2. \A i \in 1 .. L : d[i] = w[i] - 48 /\ w[i] - 48 \in Nat
    <3> SUFFICES ASSUME NEW i \in 1 .. L PROVE d[i] = w[i] - 48 /\ w[i] - 48 \in Nat
      OBVIOUS
    <3>1. rest[i] = w[i] /\ w[i] \in 48 .. 57
      BY <1>3, <1>9, <2>1
    <3>2. d[i] = rest[i] - 48
      BY <1>10
    <3> HIDE DEF d
    <3> QED
      BY <3>1, <3>2
  <2>3. DOMAIN d = 1 .. L /\ d = [ i \in 1 .. L |-> d[i] ] /\ Len(d) = L
    BY <1>3, <1>10
  <2> HIDE DEF d
  <2>4. d \in [1 .. L -> Nat]
    BY <2>2, <2>3
  <2>5. v \in [0 .. L -> Nat]
    BY <1>3
  <2>6. \A i \in 1 .. L : v[i] = v[i - 1] * 10 + d[i]
    BY <1>3, <2>2
  <2>7. Horner(10, L, d, v)
    BY <1>3, <2>3, <2>4, <2>5, <2>6 DEF Horner
  <2>8. Numeral(d, 10) = v[L]
    BY <2>7, NumeralIs
  <2> QED
    BY <1>3, <2>8
<1> HIDE DEF d
<1> QED
  BY <1>1, <1>8, <1>11

LEMMA AtoiCalls ==
  ASSUME NumberCall
  PROVE  AtoiClamps'
<1>1. CASE DoItoa
  BY <1>1 DEF DoItoa, Returns, Call, AtoiClamps
<1>2. CASE DoAtoi
  <2>1. PICK s \in StringsOf(NumberChars, NumberLen) : Call("atoi", [s |-> s], Atoi(s))
    BY <1>2 DEF DoAtoi
  <2>2. call'.args.s = s /\ result' = Atoi(s)
    BY <2>1 DEF Call
  <2>3. PICK n : n = Strlen(s)
    OBVIOUS
  <2>4. StringOf(s, n) /\ \A i \in 0 .. n : s[i] \in Nat
    BY <2>3, NumberStrings
  <2>5. PICK start, first, last : NumberAt(s, n, start, first, last)
    BY <2>4, NumberFound
  <2>6. /\ n \in Nat /\ start \in 0 .. n /\ first \in start .. n /\ last \in first .. n
        /\ \A i \in first .. last - 1 : Digit(s[i])
    BY <2>5 DEF NumberAt, StringOf
  <2> DEFINE L == last - first
             w == [ i \in 1 .. L |-> s[first + i - 1] ]
  <2>7. L \in Nat /\ last = first + L
    BY <2>6
  <2>8. WrittenAt(s, first, w, L)
    BY DEF WrittenAt
  <2>9. \A i \in 1 .. L : w[i] \in 48 .. 57
    <3> SUFFICES ASSUME NEW i \in 1 .. L PROVE w[i] \in 48 .. 57
      OBVIOUS
    <3>1. first + i - 1 \in first .. last - 1 /\ first + i - 1 \in 0 .. n
      BY <2>6
    <3>2. Digit(s[first + i - 1]) /\ s[first + i - 1] \in Nat
      BY <2>4, <2>6, <3>1
    <3> QED
      BY <3>2 DEF Digit
  <2> HIDE DEF L, w
  <2>10. PICK k \in Nat : \E v : ReadAs(v, w, L, k)
    <3>1. \E k \in Nat : \E v : ReadAs(v, w, L, k)
      BY ONLY <2>7, <2>9, AnyDigits
    <3> QED
      BY <3>1
  <2> PICK v : ReadAs(v, w, L, k)
    BY <2>10
  <2>11. PICK neg \in BOOLEAN : neg <=> s[start] = Minus
    OBVIOUS
  <2>12. Atoi(s) = Clamped(k, neg)
    BY ONLY <2>5, <2>7, <2>8, ReadAs(v, w, L, k), <2>11, AtoiIs
  <2>13. NumberIn(s) = IF neg THEN -k ELSE k
    BY ONLY <2>5, <2>7, <2>8, ReadAs(v, w, L, k), <2>11, NumberInIs
  <2>14. Clamped(k, neg) = AsInt(NumberIn(s))
    <3>1. IntMax \in Nat
      BY IntAssumption
    <3>2. CASE neg
      BY <2>13, <3>1, <3>2 DEF Clamped, Limit, AsInt
    <3>3. CASE ~neg
      BY <2>13, <3>1, <3>3 DEF Clamped, Limit, AsInt
    <3> QED
      BY <3>2, <3>3
  <2>15. result' = AsInt(NumberIn(call'.args.s))
    BY ONLY <2>2, <2>12, <2>14
  <2> QED
    BY <2>15 DEF AtoiClamps
<1> QED
  BY <1>1, <1>2 DEF NumberCall

\* ft_itoa's strings; the digits of the two literals are read forwards.
Forwards(f) == [ k \in Nat |-> IF k < 10 THEN <<48 + k>> ELSE Append(f[k \div 10], 48 + (k % 10)) ]
Tops == CHOOSE f : f = Forwards(f)

LEMMA TopsAre == Tops = Forwards(Tops)
<1> DEFINE h == [ k \in Nat |-> k \div 10 ]
           G == [ x \in Texts \X Nat |-> IF x[2] < 10 THEN <<48 + x[2]>> ELSE Append(x[1], 48 + (x[2] % 10)) ]
<1>1. \A k \in Nat : k >= 10 => h[k] \in 0 .. k - 1
  BY TenthIsLess
<1>2. ASSUME NEW s \in Texts, NEW k \in Nat
      PROVE  (k < 10 => <<48 + k>> \in Texts) /\ Append(s, 48 + (k % 10)) \in Texts
  <2>1. 48 + (k % 10) \in 48 .. 57 /\ (k < 10 => 48 + k \in 48 .. 57)
    OBVIOUS
  <2> QED
    BY <2>1 DEF Texts
<1>3. <<>> \in Texts
  BY DEF Texts
<1>4. G \in [Texts \X Nat -> Texts]
  <2>1. ASSUME NEW x \in Texts \X Nat
        PROVE  (IF x[2] < 10 THEN <<48 + x[2]>> ELSE Append(x[1], 48 + (x[2] % 10))) \in Texts
    <3>1. x[1] \in Texts /\ x[2] \in Nat
      OBVIOUS
    <3> QED
      BY <1>2, <3>1
  <2> QED
    BY <2>1
<1>5. \A k \in Nat : h[k] = k \div 10
  OBVIOUS
<1>6. \A s \in Texts, k \in Nat : G[<<s, k>>] = IF k < 10 THEN <<48 + k>> ELSE Append(s, 48 + (k % 10))
  OBVIOUS
<1> HIDE DEF G, h
<1>7. PICK a : a = <<>>
  OBVIOUS
<1>8. PICK f \in [Nat -> Texts] : Recurs(f, h, 10, a, G)
  <2>1. PICK c : c = 10
    OBVIOUS
  <2>2. \E f \in [Nat -> Texts] : Recurs(f, h, c, a, G)
    <3>1. /\ c \in Nat \ {0} /\ a \in Texts /\ G \in [Texts \X Nat -> Texts]
          /\ \A k \in Nat : k >= c => h[k] \in 0 .. k - 1
      BY <1>1, <1>3, <1>4, <1>7, <2>1
    <3> QED
      BY ONLY <3>1, Descending
  <2> QED
    BY <2>1, <2>2
<1>9. ASSUME NEW k \in Nat
      PROVE  f[k] = IF k < 10 THEN <<48 + k>> ELSE Append(f[k \div 10], 48 + (k % 10))
  <2>1. f[k] = G[<<IF k >= 10 THEN f[k \div 10] ELSE a, k>>]
    BY <1>5, <1>8 DEF Recurs
  <2>2. f[k \div 10] \in Texts
    BY TenthIsLess
  <2>3. CASE k < 10
    <3>1. ~(k >= 10) /\ a \in Texts
      BY <1>3, <1>7, <2>3
    <3>2. f[k] = G[<<a, k>>]
      BY <2>1, <3>1
    <3> QED
      BY <1>6, <2>3, <3>1, <3>2
  <2>4. CASE ~(k < 10)
    <3>1. k >= 10
      BY <2>4
    <3>2. f[k] = G[<<f[k \div 10], k>>]
      BY <2>1, <3>1
    <3> QED
      BY <1>6, <2>2, <2>4, <3>2
  <2> QED
    BY <2>3, <2>4
<1>10. f = Forwards(f)
  BY <1>9 DEF Forwards
<1> QED
  BY <1>10 DEF Tops

TopRight(k) ==
  /\ Tops[k] \in Texts /\ Len(Tops[k]) \in Nat \ {0}
  /\ \E v : ReadAs(v, Tops[k], Len(Tops[k]), k)
  /\ k # 0 => Tops[k][1] # 48

LEMMA TopStep ==
  ASSUME NEW k \in Nat, k >= 10 => TopRight(k \div 10)
  PROVE  TopRight(k)
<1>1. CASE k < 10
  <2>1. PICK d, t : d = 48 + k /\ t = Tops[k]
    OBVIOUS
  <2>2. d \in 48 .. 57 /\ t = <<d>> /\ (k # 0 => d # 48)
    BY <1>1, <2>1, TopsAre DEF Forwards
  <2>3. t \in Texts /\ Len(t) = 1 /\ t[1] = d
    BY <2>2 DEF Texts
  <2> DEFINE v == [ i \in 0 .. 1 |-> IF i = 1 THEN k ELSE 0 ]
  <2>4. /\ v \in [0 .. 1 -> 0 .. k] /\ v[0] = 0 /\ v[1] = k
        /\ \A i \in 1 .. 1 : i = 1 /\ i - 1 = 0
    OBVIOUS
  <2> HIDE DEF v
  <2>5. ReadAs(v, t, 1, k)
    BY <2>1, <2>2, <2>3, <2>4 DEF ReadAs
  <2> HIDE DEF ReadAs
  <2> QED
    BY <2>1, <2>2, <2>3, <2>5 DEF TopRight
<1>2. CASE ~(k < 10)
  <2>1. PICK q, d, s, t : q = k \div 10 /\ d = 48 + (k % 10) /\ s = Tops[q] /\ t = Tops[k]
    OBVIOUS
  <2>2. q \in Nat /\ q # 0 /\ q <= k /\ d \in 48 .. 57 /\ k = q * 10 + (d - 48)
    BY <1>2, <2>1, TenthIsLess
  <2>3. t = Append(s, d)
    BY <1>2, <2>1, TopsAre DEF Forwards
  <2>4. s \in Seq(48 .. 57) /\ Len(s) \in Nat \ {0} /\ s[1] # 48 /\ \E v : ReadAs(v, s, Len(s), q)
    BY <1>2, <2>1, <2>2 DEF TopRight, Texts
  <2>5. PICK L : L = Len(s)
    OBVIOUS
  <2>6. t \in Texts /\ Len(t) = L + 1 /\ t[L + 1] = d /\ \A i \in 1 .. L : t[i] = s[i]
    BY <2>2, <2>3, <2>4, <2>5 DEF Texts
  <2>7. PICK v : ReadAs(v, s, L, q)
    BY <2>4, <2>5
  <2>8. /\ L \in Nat \ {0} /\ v \in [0 .. L -> 0 .. q] /\ v[0] = 0 /\ v[L] = q
        /\ \A i \in 1 .. L : s[i] \in 48 .. 57 /\ v[i] = v[i - 1] * 10 + (s[i] - 48)
    BY <2>4, <2>5, <2>7 DEF ReadAs
  <2> DEFINE M == L + 1
             u == [ i \in 0 .. M |-> IF i = M THEN k ELSE v[i] ]
  <2>9. u \in [0 .. M -> 0 .. k] /\ u[0] = 0 /\ u[M] = k /\ M \in Nat
    <3>1. ASSUME NEW i \in 0 .. M PROVE (IF i = M THEN k ELSE v[i]) \in 0 .. k
      <4>1. i # M => i \in 0 .. L
        BY <2>8
      <4>2. i # M => v[i] \in 0 .. q
        BY <2>8, <4>1
      <4> QED
        BY <2>2, <4>2
    <3>2. 0 \in 0 .. M /\ M \in 0 .. M /\ 0 # M /\ M \in Nat
      BY <2>8
    <3> QED
      BY <2>8, <3>1, <3>2
  <2>10. ASSUME NEW i \in 1 .. M PROVE t[i] \in 48 .. 57 /\ u[i] = u[i - 1] * 10 + (t[i] - 48)
    <3>1. i \in 0 .. M /\ i - 1 \in 0 .. M /\ i - 1 # M
      BY <2>8
    <3>2. u[i - 1] = v[i - 1]
      BY <3>1
    <3>3. CASE i = M
      <4>1. i - 1 = L
        BY <2>8, <3>3
      <4> QED
        BY <2>2, <2>6, <2>8, <2>9, <3>2, <3>3, <4>1
    <3>4. CASE i # M
      <4>1. i \in 1 .. L
        BY <2>8, <3>4
      <4>2. u[i] = v[i]
        BY <3>1, <3>4
      <4> QED
        BY <2>6, <2>8, <3>2, <4>1, <4>2
    <3> QED
      BY <3>3, <3>4
  <2>11. ReadAs(u, t, M, k)
    BY <2>9, <2>10 DEF ReadAs
  <2>12. M \in Nat \ {0} /\ t[1] # 48
    BY <2>4, <2>6, <2>8
  <2> HIDE DEF ReadAs, u, M
  <2>13. Len(t) = M
    BY <2>6 DEF M
  <2> QED
    BY <2>1, <2>6, <2>11, <2>12, <2>13 DEF TopRight
<1> QED
  BY <1>1, <1>2

LEMMA TopIsRight == \A k \in Nat : TopRight(k)
<1> SUFFICES ASSUME { k \in Nat : ~TopRight(k) } # {} PROVE FALSE
  OBVIOUS
<1> DEFINE Bad == { k \in Nat : ~TopRight(k) }
<1>1. PICK k \in Bad : \A j \in Bad : k <= j
  <2>1. Bad \in SUBSET Nat /\ Bad # {}
    OBVIOUS
  <2> HIDE DEF Bad
  <2> QED
    BY <2>1, Least
<1>2. k \in Nat /\ ~TopRight(k)
  OBVIOUS
<1>3. k >= 10 => k \div 10 \in Nat /\ ~(k <= k \div 10)
  BY <1>2, TenthIsLess
<1>4. k >= 10 => k \div 10 \notin Bad
  <2> HIDE DEF Bad
  <2> QED
    BY <1>1, <1>3
<1>5. k >= 10 => TopRight(k \div 10)
  <2> HIDE DEF TopRight
  <2> QED
    BY <1>3, <1>4
<1> QED
  BY <1>2, <1>5, TopStep

\* A text that is written down as it is.
LEMMA CStringIs ==
  ASSUME NEW t \in Seq(Nat \ {0})
  PROVE  /\ StringOf(CString(t), Len(t)) /\ Len(t) \in Nat
         /\ \A i \in 1 .. Len(t) : CString(t)[i - 1] = t[i]
<1>1. Len(t) \in Nat
  OBVIOUS
<1>2. CString(t) = [ i \in 0 .. Len(t) |-> IF i = Len(t) THEN NUL ELSE t[i + 1] ]
  BY DEF CString
<1>3. \A i \in 0 .. Len(t) - 1 : i + 1 \in 1 .. Len(t) /\ i # Len(t)
  BY <1>1
<1>4. \A i \in 1 .. Len(t) : i - 1 \in 0 .. Len(t) - 1 /\ (i - 1) + 1 = i
  BY <1>1
<1>5. \A i \in 1 .. Len(t) : t[i] \in Nat \ {0}
  OBVIOUS
<1>6. \A i \in 0 .. Len(t) - 1 : CString(t)[i] = t[i + 1] /\ CString(t)[i] # NUL
  BY <1>1, <1>2, <1>3, <1>5 DEF NUL
<1>7. StringOf(CString(t), Len(t))
  <2> PICK c, n : c = CString(t) /\ n = Len(t)
    OBVIOUS
  <2>1. n \in Nat /\ DOMAIN c = 0 .. n
    BY <1>1, <1>2
  <2>2. n \in 0 .. n
    BY <2>1
  <2>3. c[n] = NUL
    BY <1>2, <2>2
  <2>4. \A i \in 0 .. n - 1 : c[i] # NUL
    BY <1>6
  <2>5. StringOf(c, n)
    BY ONLY <2>1, <2>3, <2>4 DEF StringOf
  <2> QED
    BY <2>5
<1> QED
  BY <1>1, <1>4, <1>6, <1>7

\* What a block of its own is filled with is the string.
LEMMA FilledIs ==
  ASSUME NEW s, NEW n, StringOf(s, n)
  PROVE  LET f == Fill(Fresh, 0, s, 0, n)
         IN  StringOf(f, n) /\ \A i \in 0 .. n - 1 : f[i] = s[i]
<1>1. n \in Nat /\ DOMAIN s = 0 .. n /\ s[n] = NUL /\ \A i \in 0 .. n - 1 : s[i] # NUL
  BY DEF StringOf
<1> DEFINE f == Fill(Fresh, 0, s, 0, n)
<1>2. StringOf(f, n - 0) /\ Text(f) = Piece(s, 0, n) /\ Strlen(f) = n - 0
  BY <1>1, FillFresh
<1>3. n - 0 = n
  BY <1>1
<1> HIDE DEF f
<1>4. Piece(f, 0, n) = Piece(s, 0, n)
  BY <1>2, <1>3 DEF Text
<1>5. ASSUME NEW i \in 0 .. n - 1 PROVE f[i] = s[i]
  <2>1. i + 1 \in 1 .. n /\ (i + 1) - 1 = i
    BY <1>1
  <2>2. Piece(f, 0, n)[i + 1] = f[i] /\ Piece(s, 0, n)[i + 1] = s[i]
    BY <1>1, <2>1, PieceIs
  <2> QED
    BY <1>4, <2>2
<1> QED
  BY <1>2, <1>3, <1>5 DEF f

LEMMA StrdupIs ==
  ASSUME NEW s, NEW n, StringOf(s, n)
  PROVE  Strdup(s) = Block(n + 1, Fill(Fresh, 0, s, 0, n))
<1>1. n \in Nat /\ Strlen(s) = n
  BY LengthIs DEF StringOf
<1> DEFINE Stops == { i \in DOMAIN s : s[i] = NUL \/ i >= (n + 1) - 1 }
<1>2. Stops \in SUBSET Nat /\ n \in Stops /\ \A i \in Stops : n <= i
  BY <1>1 DEF StringOf
<1> HIDE DEF Stops
<1>3. Min(Stops) = n
  BY <1>2, MinUnique
<1>4. Strlcpy(Fresh, s, n + 1) = [str |-> Fill(Fresh, 0, s, 0, n), value |-> n]
  <2>1. n + 1 # 0
    BY <1>1
  <2> QED
    BY <1>1, <1>3, <2>1 DEF Strlcpy, Stops
<1>5. ~(n >= n + 1)
  BY <1>1
<1> QED
  BY <1>1, <1>4, <1>5 DEF Strdup

\* A block with a number's text.
NumberBlock(b, n) ==
  \E m, w, L, k :
    /\ b.size = m + 1 /\ k \in Nat /\ n \in Int /\ k = (IF n < 0 THEN -n ELSE n)
    /\ NumberText(b.str, m, n < 0, w, L, k)
    /\ k # 0 => w[1] # 48

LEMMA StrdupOfNumber ==
  ASSUME NEW n \in Int, NEW k \in Nat, k = (IF n < 0 THEN -n ELSE n), Decimal(n) = IF n < 0 THEN <<Minus>> \o Tops[k] ELSE Tops[k]
  PROVE  NumberBlock(Strdup(CString(Decimal(n))), n)
<1>1. TopRight(k)
  BY TopIsRight
<1> PICK w, L, t : w = Tops[k] /\ L = Len(w) /\ t = Decimal(n)
  OBVIOUS
<1>2. /\ w \in Seq(48 .. 57) /\ L \in Nat \ {0} /\ (\E v : ReadAs(v, w, L, k)) /\ (k # 0 => w[1] # 48)
  BY <1>1 DEF TopRight, Texts
<1> DEFINE off == IF n < 0 THEN 1 ELSE 0
<1>3. t \in Seq(Nat \ {0}) /\ Len(t) = off + L /\ (n < 0 => t[1] = Minus) /\ \A i \in 1 .. L : t[off + i] = w[i]
  <2>1. w \in Seq(Nat \ {0}) /\ Minus \in Nat \ {0}
    <3>1. w \in Seq(48 .. 57)
      BY <1>2
    <3>2. w \in Seq(Nat \ {0})
      BY ONLY <3>1
    <3> QED
      BY <3>2 DEF Minus
  <2>2. CASE n < 0
    <3>1. t = <<Minus>> \o w
      BY <2>2
    <3>2. t \in Seq(Nat \ {0}) /\ Len(t) = L + 1 /\ t[1] = Minus /\ \A i \in 1 .. L : t[i + 1] = w[i]
      <4> PICK c, z, S : c = Minus /\ z = t /\ S = Nat \ {0}
        OBVIOUS
      <4>1. c \in S /\ w \in Seq(S) /\ z = <<c>> \o w
        BY <2>1, <3>1
      <4>2. z \in Seq(S) /\ Len(z) = Len(w) + 1 /\ z[1] = c /\ \A j \in 1 .. Len(w) : z[j + 1] = w[j]
        BY ONLY <4>1, Before
      <4> QED
        BY <4>2
    <3>3. L + 1 = 1 + L /\ \A i \in 1 .. L : i + 1 = 1 + i
      BY <1>2
    <3> QED
      BY <2>2, <3>2, <3>3
  <2>3. CASE ~(n < 0)
    <3>1. t = w
      BY <2>3
    <3>2. 0 + L = L /\ \A i \in 1 .. L : 0 + i = i
      BY <1>2
    <3> QED
      BY <2>1, <2>3, <3>1, <3>2
  <2> QED
    BY <2>2, <2>3
<1> DEFINE m == off + L
           c == CString(t)
           f == Fill(Fresh, 0, c, 0, m)
<1>4. off \in {0, 1} /\ (n < 0 => off = 1)
  OBVIOUS
<1> HIDE DEF off, c, f
<1>5. StringOf(c, m) /\ m \in Nat /\ \A i \in 1 .. m : c[i - 1] = t[i]
  BY <1>3, CStringIs DEF c
<1> HIDE DEF m
<1>6. StringOf(f, m) /\ \A i \in 0 .. m - 1 : f[i] = c[i]
  BY <1>5, FilledIs DEF f
<1>7. Strdup(c) = Block(m + 1, f)
  BY <1>5, StrdupIs DEF f
<1>8. \A i \in 1 .. m : f[i - 1] = t[i]
  <2>1. \A i \in 1 .. m : i - 1 \in 0 .. m - 1
    BY <1>5
  <2> QED
    BY <1>5, <1>6, <2>1
<1>9. \A i \in 1 .. L : f[off + i - 1] = w[i]
  <2> SUFFICES ASSUME NEW i \in 1 .. L PROVE f[off + i - 1] = w[i]
    OBVIOUS
  <2>1. off + i \in 1 .. m /\ (off + i) - 1 = off + i - 1
    BY <1>2, <1>4 DEF m
  <2> QED
    BY <1>3, <1>8, <2>1
<1>10. n < 0 => f[0] = Minus
  <2> SUFFICES ASSUME n < 0 PROVE f[0] = Minus
    OBVIOUS
  <2>1. 1 \in 1 .. m /\ 1 - 1 = 0
    BY <1>2, <1>4 DEF m
  <2> QED
    BY <1>3, <1>8, <2>1
<1>11. NumberText(f, m, n < 0, w, L, k)
  BY <1>2, <1>6, <1>9, <1>10 DEF NumberText, m, off
<1>12. NumberBlock(Block(m + 1, f), n)
  BY <1>2, <1>11 DEF NumberBlock, Block
<1> QED
  BY <1>7, <1>12 DEF c

\* The digits from the back, turned round.
LEMMA Turned ==
  ASSUME NEW n \in Int, n # 0, NEW k \in Nat, k = (IF n < 0 THEN -n ELSE n),
         NEW str, str = IF n < 0 THEN Append(Lows[k], Minus) ELSE Lows[k]
  PROVE  NumberBlock(Block(Len(str) + 1, Strrev(Fill(Fresh, 0, CString(str), 0, Len(str)))), n)
<1>1. LowRight(k) /\ k # 0
  BY LowIsRight
<1> DEFINE s == Lows[k]
           L == Len(s)
           w == [ i \in 1 .. L |-> s[L + 1 - i] ]
           off == IF n < 0 THEN 1 ELSE 0
<1>2. s \in Seq(48 .. 57) /\ L \in Nat \ {0} /\ (\E v : ReadAs(v, w, L, k)) /\ s[L] # 48
  <2>1. s \in Seq(48 .. 57) /\ (\E v : ReadAs(v, w, L, k)) /\ L # 0 /\ s[L] # 48
    BY <1>1 DEF LowRight, Texts
  <2>2. L \in Nat
    <3> HIDE DEF s, w
    <3> QED
      BY <2>1
  <2> HIDE DEF s, w, L
  <2> QED
    BY <2>1, <2>2
<1>3. str = IF n < 0 THEN Append(s, Minus) ELSE s
  OBVIOUS
<1>4. off \in {0, 1} /\ (n < 0 => off = 1)
  OBVIOUS
<1> HIDE DEF s
<1>5. str \in Seq(Nat \ {0}) /\ Len(str) = off + L /\ (n < 0 => str[off + L] = Minus) /\ \A i \in 1 .. L : str[i] = s[i]
  <2>1. s \in Seq(Nat \ {0}) /\ Minus \in Nat \ {0}
    BY <1>2 DEF Minus
  <2>2. CASE n < 0
    <3>1. Append(s, Minus) \in Seq(Nat \ {0}) /\ Len(Append(s, Minus)) = L + 1
          /\ Append(s, Minus)[L + 1] = Minus /\ \A i \in 1 .. L : Append(s, Minus)[i] = s[i]
      BY <2>1
    <3>2. L + 1 = 1 + L
      BY <1>2
    <3> QED
      BY <1>3, <2>2, <3>1, <3>2
  <2>3. CASE ~(n < 0)
    <3>1. 0 + L = L
      BY <1>2
    <3> QED
      BY <1>3, <2>1, <2>3, <3>1
  <2> QED
    BY <2>2, <2>3
<1>6. w[1] # 48 /\ \A i \in 1 .. L : w[i] = s[L + 1 - i] /\ L + 1 - i \in 1 .. L
  <2>1. 1 \in 1 .. L /\ L + 1 - 1 = L
    BY <1>2
  <2>2. \A i \in 1 .. L : L + 1 - i \in 1 .. L
    BY <1>2
  <2> QED
    BY <1>2, <2>1, <2>2
<1> DEFINE m == off + L
           c == CString(str)
           f == Fill(Fresh, 0, c, 0, m)
           r == Strrev(f)
<1> HIDE DEF off, c, f, r, w, L
<1>7. StringOf(c, m) /\ m \in Nat /\ \A i \in 1 .. m : c[i - 1] = str[i]
  BY <1>5, CStringIs DEF c
<1> HIDE DEF m
<1>8. StringOf(f, m) /\ \A i \in 0 .. m - 1 : f[i] = c[i]
  BY <1>7, FilledIs DEF f
<1>9. ASSUME NEW i \in 0 .. m - 1 PROVE r[i] = str[m - i] /\ m - i \in 1 .. m
  <2>1. m - i \in 1 .. m /\ (m - i) - 1 = m - 1 - i /\ m - 1 - i \in 0 .. m - 1 /\ i < m
    BY <1>7
  <2>2. r[i] = f[m - 1 - i]
    <3>1. Strlen(f) = m /\ i \in DOMAIN f
      BY <1>7, <1>8, LengthIs DEF StringOf
    <3> QED
      BY <2>1, <3>1 DEF r, Strrev
  <2> QED
    BY <1>7, <1>8, <2>1, <2>2
<1>10. StringOf(r, m)
  <2>1. DOMAIN r = 0 .. m /\ r[m] = NUL
    <3>1. Strlen(f) = m /\ DOMAIN f = 0 .. m /\ m \in Nat
      BY <1>7, <1>8, LengthIs DEF StringOf
    <3> QED
      BY <3>1 DEF r, Strrev
  <2>2. \A i \in 1 .. m : str[i] # NUL
    <3>1. \A i \in 1 .. Len(str) : str[i] \in Nat \ {0}
      BY <1>5
    <3> QED
      BY <1>5, <3>1 DEF NUL, m
  <2>3. \A i \in 0 .. m - 1 : r[i] # NUL
    BY <1>9, <2>2
  <2> QED
    BY <1>7, <2>1, <2>3 DEF StringOf
<1>11. ASSUME NEW i \in 1 .. L PROVE r[off + i - 1] = w[i]
  <2>1. off + i - 1 \in 0 .. m - 1 /\ m - (off + i - 1) = L + 1 - i
    BY <1>2, <1>4 DEF m
  <2>2. r[off + i - 1] = str[L + 1 - i]
    BY <1>9, <2>1
  <2> QED
    BY <1>5, <1>6, <2>2
<1>12. n < 0 => r[0] = Minus
  <2> SUFFICES ASSUME n < 0 PROVE r[0] = Minus
    OBVIOUS
  <2>1. 0 \in 0 .. m - 1 /\ m - 0 = off + L
    BY <1>2, <1>4 DEF m
  <2> QED
    BY <1>5, <1>9, <2>1
<1>13. NumberText(r, m, n < 0, w, L, k)
  BY <1>2, <1>10, <1>11, <1>12 DEF NumberText, m, off
<1>14. NumberBlock(Block(m + 1, r), n)
  BY <1>6, <1>13 DEF NumberBlock, Block
<1>15. Len(str) = m
  BY <1>5 DEF m
<1> QED
  BY <1>14, <1>15 DEF r, f, c

LEMMA ItoaMakes ==
  ASSUME NEW n \in -IntMax - 1 .. IntMax
  PROVE  NumberBlock(Itoa(n), n)
<1>1. IntMax \in Nat /\ n \in Int
  BY IntAssumption
<1> DEFINE k == IF n < 0 THEN -n ELSE n
<1>2. k \in Nat /\ Magnitude(n) = k
  BY <1>1 DEF Magnitude
<1>3. CASE n = -IntMax - 1 \/ n = 0
  <2>1. Itoa(n) = Strdup(CString(Decimal(n)))
    BY <1>3 DEF Itoa
  <2>2. Decimal(n) = IF n < 0 THEN <<Minus>> \o Tops[k] ELSE Tops[k]
    <3>1. Decimal(n) = IF n < 0 THEN <<Minus>> \o Tops[-n] ELSE Tops[n]
      BY DEF Decimal, Tops, Forwards
    <3> QED
      BY <3>1
  <2> HIDE DEF k
  <2>3. NumberBlock(Strdup(CString(Decimal(n))), n)
    BY <1>1, <1>2, <2>2, StrdupOfNumber DEF k
  <2> QED
    BY <2>1, <2>3
<1>4. CASE ~(n = -IntMax - 1 \/ n = 0)
  <2> DEFINE str == IF n < 0 THEN Append(Lows[k], Minus) ELSE Lows[k]
  <2>1. Itoa(n) = Block(NumLen(n) + 1, Strrev(Fill(Fresh, 0, CString(str), 0, Len(str))))
    <3>1. Itoa(n) = LET st == IF n < 0 THEN Append(Lows[Magnitude(n)], Minus) ELSE Lows[n]
                    IN  Block(NumLen(n) + 1, Strrev(Fill(Fresh, 0, CString(st), 0, Len(st))))
      BY <1>4 DEF Itoa, Lows, LowDigits
    <3>2. str = IF n < 0 THEN Append(Lows[Magnitude(n)], Minus) ELSE Lows[n]
      BY <1>2
    <3> HIDE DEF str
    <3> QED
      BY <3>1, <3>2
  <2>2. NumLen(n) = Len(str)
    <3>1. NumLen(n) = (CHOOSE f : f = Counts(f))[Magnitude(n)] + (IF n < 0 THEN 1 ELSE 0)
      BY <1>4 DEF NumLen, Counts
    <3>2. (CHOOSE f : f = Counts(f))[k] = Len(Lows[k])
      <4> HIDE DEF k
      <4> QED
        BY <1>2, CountIsLength
    <3>3. Lows[k] \in Seq(48 .. 57)
      BY <1>2, LowIsRight DEF LowRight, Texts
    <3> DEFINE s == Lows[k]
    <3>4. Len(s) \in Nat /\ Len(Append(s, Minus)) = Len(s) + 1
      <4> HIDE DEF s
      <4>1. s \in Seq(48 .. 57)
        BY <3>3 DEF s
      <4>2. s \in Seq(Int) /\ Minus \in Int
        BY <4>1 DEF Minus
      <4> QED
        BY <4>2
    <3>5. NumLen(n) = Len(s) + (IF n < 0 THEN 1 ELSE 0)
      <4> HIDE DEF k
      <4> QED
        BY <1>2, <3>1, <3>2
    <3>6. str = IF n < 0 THEN Append(s, Minus) ELSE s
      OBVIOUS
    <3> HIDE DEF s, str
    <3> QED
      BY <3>4, <3>5, <3>6
  <2>3. NumberBlock(Block(Len(str) + 1, Strrev(Fill(Fresh, 0, CString(str), 0, Len(str)))), n)
    <3>1. n \in Int /\ n # 0 /\ k \in Nat /\ k = (IF n < 0 THEN -n ELSE n)
          /\ str = IF n < 0 THEN Append(Lows[k], Minus) ELSE Lows[k]
      BY <1>1, <1>2, <1>4
    <3> HIDE DEF str, k
    <3> QED
      BY ONLY <3>1, Turned
  <2> HIDE DEF str
  <2> QED
    BY <2>1, <2>2, <2>3
<1> QED
  BY <1>3, <1>4

NumberNames == {"atoi", "itoa"}

LEMMA OutsideNumbers ==
  ASSUME MemoryCall \/ StringCall \/ PrintCall
  PROVE  call'.name \notin NumberNames
<1>1. CASE MemoryCall
  BY <1>1 DEF NumberNames, MemoryCall, DoMemcpy, DoMemmove, DoMemset, DoMemcmp, DoMemchr, DoCalloc, Call
<1>2. CASE StringCall
  BY <1>2 DEF NumberNames, StringCall, DoStrchr, DoStrncmp, DoStrnstr, DoStrlcpy, DoStrlcat,
     DoStrdup, DoStrmapi, DoStrjoin, DoStrtrim, DoSubstr, DoSplit, Returns, Call
<1>3. CASE PrintCall
  BY <1>3 DEF NumberNames, PrintCall, DoPrintf, DoPutEndl, DoPutSize, Call
<1> QED
  BY <1>1, <1>2, <1>3

LEMMA ItoaCalls ==
  ASSUME NumberCall
  PROVE  ItoaReadsBack'
<1>1. CASE DoAtoi
  BY <1>1 DEF DoAtoi, Call, ItoaReadsBack
<1>2. CASE DoItoa
  <2>1. PICK n \in -IntMax - 1 .. IntMax : Returns("itoa", [n |-> n], Itoa(n))
    BY <1>2 DEF DoItoa
  <2>2. CASE Call("itoa", [n |-> n], Null)
    BY <2>2 DEF Call, ItoaReadsBack, Made
  <2>3. CASE Call("itoa", [n |-> n], Itoa(n))
    <3> DEFINE b == Itoa(n)
    <3>1. PICK m, w, L, k :
            /\ b.size = m + 1 /\ k \in Nat /\ n \in Int /\ k = (IF n < 0 THEN -n ELSE n)
            /\ NumberText(b.str, m, n < 0, w, L, k)
            /\ k # 0 => w[1] # 48
      BY ItoaMakes DEF NumberBlock
    <3> HIDE DEF b
    <3>2. IntMax \in Nat /\ k <= IF n < 0 THEN IntMax + 1 ELSE IntMax
      BY <3>1, IntAssumption
    <3>3. PICK neg \in BOOLEAN : neg <=> n < 0
      OBVIOUS
    <3>4. NumberText(b.str, m, neg, w, L, k) /\ k <= Limit(neg)
      <4>1. CASE neg
        BY <3>1, <3>2, <3>3, <4>1 DEF NumberText, Limit
      <4>2. CASE ~neg
        BY <3>1, <3>2, <3>3, <4>2 DEF NumberText, Limit
      <4> QED
        BY <4>1, <4>2
    <3>5. Atoi(b.str) = [value |-> IF neg THEN -k ELSE k, erange |-> FALSE]
      <4> PICK z : z = b.str
        OBVIOUS
      <4>1. /\ neg \in BOOLEAN /\ k \in Nat /\ NumberText(z, m, neg, w, L, k)
            /\ k <= Limit(neg)
        BY <3>1, <3>4
      <4>2. Atoi(z) = [value |-> IF neg THEN -k ELSE k, erange |-> FALSE]
        BY ONLY <4>1, AtoiReads
      <4> QED
        BY <4>2
    <3>6. (IF neg THEN -k ELSE k) = n
      BY <3>1, <3>3
    <3>7. /\ StringOf(b.str, m) /\ m \in Nat /\ m = b.size - 1
      BY <3>1 DEF NumberText, StringOf
    <3>8. DOMAIN b.str = 0 .. b.size - 1 /\ Strlen(b.str) = b.size - 1
      BY <3>7, LengthIs DEF StringOf
    <3>9. b.str[0] = 48 => n = 0
      <4> SUFFICES ASSUME b.str[0] = 48, k # 0 PROVE FALSE
        BY <3>1
      <4>1. CASE neg
        BY <3>4, <4>1 DEF NumberText, Minus
      <4>2. CASE ~neg
        <5>1. 1 \in 1 .. L /\ 0 + 1 - 1 = 0
          BY <3>4 DEF NumberText
        <5>2. b.str[0] = w[1]
          BY <3>4, <4>2, <5>1 DEF NumberText
        <5> QED
          BY <3>1, <5>2
      <4> QED
        BY <4>1, <4>2
    <3>10. call' = [name |-> "itoa", args |-> [n |-> n]] /\ result' = b
      BY <2>3 DEF Call, b
    <3> QED
      BY <3>5, <3>6, <3>8, <3>9, <3>10 DEF ItoaReadsBack
  <2> QED
    BY <2>1, <2>2, <2>3 DEF Returns
<1> QED
  BY <1>1, <1>2 DEF NumberCall
-----------------------------------------------------------------------------
\* One call is made, and what it returned stays: a property of calls holds
\* always if it holds after every call.
LEMMA NoCallAtFirst ==
  ASSUME Init
  PROVE  /\ MovesExactly /\ FindsFirst /\ CallocClearsAll
         /\ SearchesRight /\ CutsTell /\ BlocksFilled /\ PiecesRight /\ SplitsAllOrNothing
         /\ AtoiClamps /\ ItoaReadsBack /\ CountsBytes /\ PrintsMeaning
<1>1. call.name = "none"
  BY DEF Init
<1> QED
  BY <1>1 DEF MovesExactly, FindsFirst, CallocClearsAll, SearchesRight, CutsTell, BlocksFilled,
     PiecesRight, Making, SplitsAllOrNothing, AtoiClamps, ItoaReadsBack, CountsBytes, PrintsMeaning

LEMMA MemoryKept ==
  ASSUME MovesExactly /\ FindsFirst /\ CallocClearsAll, [Next]_cvars
  PROVE  MovesExactly' /\ FindsFirst' /\ CallocClearsAll'
<1>1. CASE MemoryCall
  BY <1>1, MoveCalls, FindCalls, CallocCalls
<1>2. CASE StringCall \/ NumberCall \/ PrintCall
  <2>1. call'.name \notin MemoryNames
    BY <1>2, ElsewhereNames DEF Elsewhere
  <2> QED
    BY <2>1 DEF MemoryNames, MovesExactly, FindsFirst, CallocClearsAll
<1>3. CASE UNCHANGED cvars
  BY <1>3 DEF cvars, MovesExactly, FindsFirst, CallocClearsAll
<1> QED
  BY <1>1, <1>2, <1>3 DEF Next

LEMMA StringsKept ==
  ASSUME SearchesRight /\ CutsTell /\ BlocksFilled /\ PiecesRight /\ SplitsAllOrNothing, [Next]_cvars
  PROVE  SearchesRight' /\ CutsTell' /\ BlocksFilled' /\ PiecesRight' /\ SplitsAllOrNothing'
<1>1. CASE StringCall
  BY <1>1, SearchCalls, CutCalls, MakingCalls, SplitCalls
<1>2. CASE MemoryCall \/ NumberCall \/ PrintCall
  <2>1. call'.name \notin StringNames
    BY <1>2, OutsideStrings
  <2>2. SearchesRight' /\ CutsTell' /\ SplitsAllOrNothing'
    BY <2>1 DEF StringNames, SearchesRight, CutsTell, SplitsAllOrNothing
  <2>3. BlocksFilled' /\ PiecesRight'
    BY <2>1 DEF StringNames, BlocksFilled, PiecesRight, Making
  <2> QED
    BY <2>2, <2>3
<1>3. CASE UNCHANGED cvars
  <2>1. call' = call /\ result' = result
    BY <1>3 DEF cvars
  <2>2. SearchesRight'
    BY <2>1 DEF SearchesRight
  <2>3. CutsTell'
    BY <2>1 DEF CutsTell
  <2>4. BlocksFilled'
    BY <2>1 DEF BlocksFilled, Made
  <2>5. PiecesRight'
    BY <2>1 DEF PiecesRight, Made
  <2>6. SplitsAllOrNothing'
    BY <2>1 DEF SplitsAllOrNothing, Made
  <2> QED
    BY <2>2, <2>3, <2>4, <2>5, <2>6
<1>4. StringCall \/ (MemoryCall \/ NumberCall \/ PrintCall) \/ UNCHANGED cvars
  BY DEF Next
<1> QED
  BY ONLY <1>1, <1>2, <1>3, <1>4

LEMMA NumbersKept ==
  ASSUME AtoiClamps /\ ItoaReadsBack, [Next]_cvars
  PROVE  AtoiClamps' /\ ItoaReadsBack'
<1>1. CASE NumberCall
  BY <1>1, AtoiCalls, ItoaCalls
<1>2. CASE MemoryCall \/ StringCall \/ PrintCall
  <2>1. call'.name \notin NumberNames
    BY <1>2, OutsideNumbers
  <2> QED
    BY <2>1 DEF NumberNames, AtoiClamps, ItoaReadsBack
<1>3. CASE UNCHANGED cvars
  <2>1. call' = call /\ result' = result
    BY <1>3 DEF cvars
  <2>2. AtoiClamps'
    BY <2>1 DEF AtoiClamps
  <2>3. ItoaReadsBack'
    BY <2>1 DEF ItoaReadsBack, Made
  <2> QED
    BY <2>2, <2>3
<1> QED
  BY <1>1, <1>2, <1>3 DEF Next

LEMMA PrintingKept ==
  ASSUME CountsBytes /\ PrintsMeaning, [Next]_cvars
  PROVE  CountsBytes' /\ PrintsMeaning'
<1>1. CASE PrintCall
  BY <1>1, PrintCalls, MeaningCalls
<1>2. CASE MemoryCall \/ StringCall \/ NumberCall
  <2>1. call'.name \notin PrintNames
    BY <1>2, OutsidePrinting
  <2> QED
    BY <2>1 DEF PrintNames, CountsBytes, PrintsMeaning
<1>3. CASE UNCHANGED cvars
  <2>1. call' = call /\ result' = result
    BY <1>3 DEF cvars
  <2>2. CountsBytes'
    BY <2>1 DEF CountsBytes
  <2>3. PrintsMeaning'
    BY <2>1 DEF PrintsMeaning
  <2> QED
    BY <2>2, <2>3
<1> QED
  BY <1>1, <1>2, <1>3 DEF Next

\* ft_memcpy and ft_memmove leave at the destination what was at the source,
\* whichever of their loops runs and however the ranges overlap, and they write
\* nothing else: for a memory of every size.
THEOREM MovesAreExact == Spec => []MovesExactly
<1> QED
  BY NoCallAtFirst, MemoryKept, PTL DEF Spec

\* ft_memcmp tells the difference at the first place where the ranges differ,
\* ft_memchr the first place of the byte, if there is one: for every length.
THEOREM FirstPlacesAreFound == Spec => []FindsFirst
<1> QED
  BY NoCallAtFirst, MemoryKept, PTL DEF Spec

\* ft_calloc refuses a product that wraps round, and clears all of the block it
\* returns for any other, for every width of size_t; it dies for none but those
\* sizes whose sum with malloc's own bytes wraps.
THEOREM CallocClearsOrRefuses == Spec => []CallocClearsAll
<1> QED
  BY NoCallAtFirst, MemoryKept, PTL DEF Spec

\* ft_strchr, ft_strrchr, ft_strnstr and ft_strncmp answer for the text within
\* the first n characters and for nothing behind it, for all strings.
THEOREM SearchesAreRight == Spec => []SearchesRight
<1> QED
  BY NoCallAtFirst, StringsKept, PTL DEF Spec

\* ft_strlcpy and ft_strlcat cut where the room ends, touch nothing behind it,
\* and return what tells the caller of the cut, for all strings and sizes.
THEOREM CutsAreTold == Spec => []CutsTell
<1> QED
  BY NoCallAtFirst, StringsKept, PTL DEF Spec

\* Every string that libft makes fills the block it asked for, the pieces of
\* ft_split included: the lengths were counted right, no byte is stored outside.
THEOREM BlocksAreFilled == Spec => []BlocksFilled
<1> QED
  BY NoCallAtFirst, StringsKept, PTL DEF Spec

\* ft_strdup, ft_strmapi, ft_strjoin, ft_substr and ft_strtrim return the text
\* they are for, and trimming leaves the shortest one, for all strings.
THEOREM PiecesAreRight == Spec => []PiecesRight
<1> QED
  BY NoCallAtFirst, StringsKept, PTL DEF Spec

\* ft_split returns all runs of characters between delimiters, in order, in an
\* array of just that many slots and the NULL; or it frees all it was given, each
\* block once: for all strings, however many pieces malloc gives.
THEOREM PiecesOrNothing == Spec => []SplitsAllOrNothing
<1> QED
  BY NoCallAtFirst, StringsKept, PTL DEF Spec

\* ft_atoi returns the number that the digits stand for whenever an int can hold
\* it, and -1 or 0 with errno set when none can, for strings of every length and
\* every width of an int.
THEOREM NumbersAreRead == Spec => []AtoiClamps
<1> QED
  BY NoCallAtFirst, NumbersKept, PTL DEF Spec

\* ft_itoa asks for exactly the bytes it writes and ft_atoi reads the number
\* back, 0 and INT_MIN included, for every width of an int.
THEOREM NumbersReadBack == Spec => []ItoaReadsBack
<1> QED
  BY NoCallAtFirst, NumbersKept, PTL DEF Spec

\* What the printers return is what write took, less one for each write that
\* failed, whichever write fails or is cut short, for every width of the numbers.
THEOREM BytesAreCounted == Spec => []CountsBytes
<1> QED
  BY NoCallAtFirst, PrintingKept, PTL DEF Spec

\* What ft_vdprintf, ft_putsize_t_fd and ft_putPtr send through writes that do
\* not go wrong is what the directives mean, each with its own argument, numbers
\* without a 0 in front: for every width of the numbers.
THEOREM PrintedAsMeant == Spec => []PrintsMeaning
<1> QED
  BY NoCallAtFirst, PrintingKept, PTL DEF Spec
=============================================================================
