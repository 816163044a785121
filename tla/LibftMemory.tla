---------------------------- MODULE LibftMemory -----------------------------
(***************************************************************************)
(* libft's mem_operate.c, mem_measure.c and the size check of ft_calloc.   *)
(*                                                                         *)
(* ftRealloc moves blocks with ft_memcpy.  Each loop is a function of the  *)
(* memory after so many bytes, because a byte that is read may be one that *)
(* was written before; what the calls promise speaks of the memory as it   *)
(* was when the call began, which is one of the arguments.                 *)
(***************************************************************************)
EXTENDS LibftCall, FiniteSetsExt, Integers

CONSTANTS
  Size,      \* bytes of memory
  SizeMax,   \* SIZE_MAX, for the product in ft_calloc
  Overhead   \* what the malloc of this library adds to a large size: 15 + 24

ASSUME MemoryAssumption ==
  Size \in Nat \ {0} /\ SizeMax \in Nat \ {0} /\ Overhead \in Nat

Addresses == 0 .. Size - 1
NULL == -1

\* The loop that goes up, and the one that goes down.
CopyUp(m, d, s, n) ==
  LET after[i \in 0 .. n] ==
        IF i = 0 THEN m
        ELSE LET now == after[i - 1] IN [now EXCEPT ![d + i - 1] = now[s + i - 1]]
  IN  after[n]

CopyDown(m, d, s, n) ==
  LET after[i \in 0 .. n] ==
        IF i = n THEN m
        ELSE LET now == after[i + 1] IN [now EXCEPT ![d + i] = now[s + i]]
  IN  after[0]

Memcpy(m, d, s, n) == CopyUp(m, d, s, n)

\* Mutant: the direction is the other one.
MemmoveWrongWay(m, d, s, n) == IF s < d THEN CopyUp(m, d, s, n) ELSE CopyDown(m, d, s, n)
Memmove(m, d, s, n) == IF s < d THEN CopyDown(m, d, s, n) ELSE CopyUp(m, d, s, n)

Memset(m, d, b, n) ==
  LET after[i \in 0 .. n] == IF i = 0 THEN m ELSE [after[i - 1] EXCEPT ![d + i - 1] = b]
  IN  after[n]

\* Mutant: the loop does not stop at the first difference.
MemcmpLast(m, s1, s2, n) ==
  LET from[i \in 0 .. n] ==
        IF i = 0 THEN 0
        ELSE IF m[s1 + i - 1] # m[s2 + i - 1] THEN m[s1 + i - 1] - m[s2 + i - 1]
        ELSE from[i - 1]
  IN  from[n]

Memcmp(m, s1, s2, n) ==
  LET from[i \in 0 .. n] ==
        IF i = n THEN 0
        ELSE IF m[s1 + i] # m[s2 + i] THEN m[s1 + i] - m[s2 + i]
        ELSE from[i + 1]
  IN  from[0]

Memchr(m, s, b, n) ==
  LET from[i \in 0 .. n] ==
        IF i = n THEN NULL ELSE IF m[s + i] = b THEN s + i ELSE from[i + 1]
  IN  from[0]

\* Mutant: off by one.
CallocRefusesBeyond(count, size) == size # 0 /\ count > SizeMax \div size + 1

\* ft_calloc returns NULL without calling malloc.
CallocRefuses(count, size) == size # 0 /\ count > SizeMax \div size

-----------------------------------------------------------------------------
\* Ranges that lie inside the memory.
Args == { a \in [memory : [Addresses -> Addresses], dst : Addresses, src : Addresses, n : 0 .. Size] :
            a.dst + a.n <= Size /\ a.src + a.n <= Size }

\* ft_memcpy is only called for ranges that do not overlap.
Apart(a) == a.dst + a.n <= a.src \/ a.src + a.n <= a.dst

DoMemcpy == \E a \in Args :
  Apart(a) /\ Call("memcpy", a, [memory |-> Memcpy(a.memory, a.dst, a.src, a.n), value |-> a.dst])
DoMemmove == \E a \in Args :
  Call("memmove", a, [memory |-> Memmove(a.memory, a.dst, a.src, a.n), value |-> a.dst])
DoMemset == \E a \in Args :
  Call("memset", a, [memory |-> Memset(a.memory, a.dst, a.src, a.n), value |-> a.dst])
DoMemcmp == \E a \in Args :
  Call("memcmp", a, [memory |-> a.memory, value |-> Memcmp(a.memory, a.dst, a.src, a.n)])
DoMemchr == \E a \in Args, b \in Addresses :
  Call("memchr", [a EXCEPT !.dst = b], [memory |-> a.memory, value |-> Memchr(a.memory, a.src, b, a.n)])

\* malloc's sum wraps: the mapping it asks for is Overhead bytes or fewer.
Short(bytes) == bytes + Overhead > SizeMax

\* The product is one of size_t.  malloc gives NULL or a range that is large
\* enough; but for a size that is Short, unless the sum is 0, it gives NULL or a
\* mapping that ft_bzero runs out of, writing on to where memory ends.
DoCalloc == \E m \in [Addresses -> {1}], count, size \in 0 .. SizeMax, p \in Addresses \cup {NULL} :
  LET bytes == (count * size) % (SizeMax + 1)
      given == [memory |-> m, count |-> count, size |-> size]
  IN  \/ /\ p = NULL
         /\ Call("calloc", given, [memory |-> m, value |-> NULL, died |-> FALSE])
      \/ /\ p # NULL /\ ~CallocRefuses(count, size) /\ ~Short(bytes) /\ p + bytes <= Size
         /\ Call("calloc", given, [memory |-> Memset(m, p, 0, bytes), value |-> p, died |-> FALSE])
      \/ /\ p # NULL /\ ~CallocRefuses(count, size) /\ Short(bytes)
         /\ bytes + Overhead # SizeMax + 1
         /\ Call("calloc", given, [memory |-> Memset(m, p, 0, Size - p), value |-> NULL, died |-> TRUE])

MemoryCall == DoMemcpy \/ DoMemmove \/ DoMemset \/ DoMemcmp \/ DoMemchr \/ DoCalloc

-----------------------------------------------------------------------------
\* A move leaves at the destination what was at the source before the call,
\* however the ranges overlap, and nothing else is written.
MovesExactly ==
  LET a == call.args
  IN  call.name \in {"memcpy", "memmove"} =>
        result.memory = [ x \in Addresses |->
                            IF a.dst <= x /\ x < a.dst + a.n
                              THEN a.memory[x - a.dst + a.src] ELSE a.memory[x] ]

\* The result of a comparison is the difference at the first place where the
\* ranges differ; that of a search is the first place that has the byte.
FindsFirst ==
  LET a == call.args
      differ == { k \in 0 .. a.n - 1 : a.memory[a.dst + k] # a.memory[a.src + k] }
      have == { k \in 0 .. a.n - 1 : a.memory[a.src + k] = a.dst }
  IN  /\ call.name = "memcmp" =>
           result.value = IF differ = {} THEN 0
                          ELSE a.memory[a.dst + Min(differ)] - a.memory[a.src + Min(differ)]
      /\ call.name = "memchr" =>
           result.value = IF have = {} THEN NULL ELSE a.src + Min(have)

\* A block that ft_calloc returns has room for count times size bytes, whatever
\* size_t makes of the product, and all of them are 0.  Only a product so near to
\* SIZE_MAX that malloc itself wraps is fatal.
CallocClearsAll ==
  LET bytes == call.args.count * call.args.size
  IN  call.name = "calloc" =>
        /\ result.died => bytes <= SizeMax /\ Short(bytes)
        /\ result.value # NULL =>
             /\ ~Short(bytes) /\ result.value + bytes <= Size
             /\ \A x \in Addresses :
                  result.memory[x] = IF result.value <= x /\ x < result.value + bytes
                                       THEN 0 ELSE call.args.memory[x]
=============================================================================
