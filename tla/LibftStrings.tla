---------------------------- MODULE LibftStrings ----------------------------
(***************************************************************************)
(* libft's string functions and ft_split.                                  *)
(*                                                                         *)
(* A string is the function from 0, 1, ... to its characters and the NUL   *)
(* that ends it.  A block that malloc gave is a function too: its domain   *)
(* grows with what is stored, so a store outside shows.  A loop that only  *)
(* moves an index is the least index at which its condition fails.         *)
(***************************************************************************)
EXTENDS LibftCall, SequencesExt, FiniteSetsExt, Integers

CONSTANTS
  Letters,    \* the characters strings are made of
  MaxLen      \* of a string

ASSUME StringAssumption == Letters \subseteq 1 .. 127 /\ MaxLen \in Nat

NUL == 0
Nowhere == -1          \* a null pointer for a place in a string

Strlen(s) == Min({ i \in DOMAIN s : s[i] = NUL })

\* Stores s[from .. to - 1] at str + at, and the NUL.
Fill(str, at, s, from, to) ==
  LET end == at + (to - from)
  IN  [ i \in DOMAIN str \cup at .. end |->
          IF i = end THEN NUL
          ELSE IF at <= i /\ i < end THEN s[i - at + from] ELSE str[i] ]

-----------------------------------------------------------------------------
\* Searches and comparison; the place found, or Nowhere

Strchr(s, c) ==
  LET at == { i \in 0 .. Strlen(s) : s[i] = c }
  IN  IF at = {} THEN Nowhere ELSE Min(at)

Strrchr(s, c) ==
  LET at == { i \in 0 .. Strlen(s) : s[i] = c }
  IN  IF at = {} THEN Nowhere ELSE Max(at)

Strncmp(s1, s2, n) ==
  LET i == Min({ k \in DOMAIN s1 \cap DOMAIN s2 :
                   k >= n \/ (s1[k] = NUL /\ s2[k] = NUL) \/ s1[k] # s2[k] })
  IN  IF i >= n THEN 0 ELSE s1[i] - s2[i]

From(s, i) == [ k \in 0 .. Strlen(s) - i |-> s[i + k] ]

\* Mutant: the needle may reach beyond len.
StrnstrBeyond(haystack, needle, len) ==
  LET at == { i \in 0 .. Strlen(haystack) - 1 :
                i < len /\ Strncmp(From(haystack, i), needle, Strlen(needle)) = 0 }
  IN  IF Strlen(needle) = 0 THEN 0 ELSE IF at = {} THEN Nowhere ELSE Min(at)

Strnstr(haystack, needle, len) ==
  LET at == { i \in 0 .. Strlen(haystack) - 1 :
                /\ i < len
                /\ Strncmp(From(haystack, i), needle, Strlen(needle)) = 0
                /\ i + Strlen(needle) <= len }
  IN  IF Strlen(needle) = 0 THEN 0 ELSE IF at = {} THEN Nowhere ELSE Min(at)

-----------------------------------------------------------------------------
\* Copies into the caller's buffer; the buffer afterwards, and what is returned

Strlcpy(dst, src, dstsize) ==
  [ str |-> IF dstsize = 0 THEN dst
            ELSE Fill(dst, 0, src, 0,
                      Min({ i \in DOMAIN src : src[i] = NUL \/ i >= dstsize - 1 })),
    value |-> Strlen(src) ]

\* Mutant: what is left of the buffer is taken for its size.
StrlcatAnyRoom(dst, src, dstsize) ==
  LET dst_len == Strlen(dst)
      i == Min({ k \in DOMAIN src : src[k] = NUL \/ k >= dstsize - 1 })
  IN  IF dstsize = 0 \/ dstsize < dst_len
        THEN [str |-> dst, value |-> dstsize + Strlen(src)]
        ELSE [str |-> Fill(dst, dst_len, src, 0, i), value |-> dst_len + Strlen(src)]

Strlcat(dst, src, dstsize) ==
  LET dst_len == Strlen(dst)
      i == Min({ k \in DOMAIN src : src[k] = NUL \/ dst_len + k >= dstsize - 1 })
  IN  IF dstsize = 0 \/ dstsize < dst_len
        THEN [str |-> dst, value |-> dstsize + Strlen(src)]
        ELSE [str |-> Fill(dst, dst_len, src, 0, i), value |-> dst_len + Strlen(src)]

-----------------------------------------------------------------------------
\* New strings: the bytes asked of malloc, and what is stored in them

Fresh == [ i \in {} |-> NUL ]
Block(size, str) == [size |-> size, str |-> str]
Null == [value |-> Nowhere]

Strdup(s) ==
  LET dstsize == Strlen(s) + 1
      copy == Strlcpy(Fresh, s, dstsize)
  IN  IF copy.value >= dstsize THEN Null ELSE Block(dstsize, copy.str)

Strjoin(s1, s2) ==
  Block(Strlen(s1) + Strlen(s2) + 1,
        Fill(Fill(Fresh, 0, s1, 0, Strlen(s1)), Strlen(s1), s2, 0, Strlen(s2)))

Substr(s, start, len) ==
  IF Strlen(s) < start THEN Strdup([ i \in {0} |-> NUL ])
  ELSE Block(Min({Strlen(s) - start, len}) + 1,
             Fill(Fresh, 0, s, start,
                  Min({ i \in start .. Strlen(s) : s[i] = NUL \/ i - start >= len })))

\* Mutant: the size leaves no room for the NUL.
StrtrimTight(s1, set) ==
  LET i == Min({ k \in DOMAIN s1 : s1[k] = NUL \/ Strchr(set, s1[k]) = Nowhere })
      j == Max({ k \in 0 .. Strlen(s1) - 1 : k <= i \/ Strchr(set, s1[k]) = Nowhere })
  IN  IF Strlen(set) = 0 \/ Strlen(s1) = 0 THEN Strdup(s1)
      ELSE Block(j - i + 1, Fill(Fresh, 0, s1, i, Max({i, j + 1})))

\* Mutant: the end is not trimmed when only one character is left before it.
StrtrimFront(s1, set) ==
  LET i == Min({ k \in DOMAIN s1 : s1[k] = NUL \/ Strchr(set, s1[k]) = Nowhere })
      j == Max({ k \in 0 .. Strlen(s1) - 1 : k <= i + 1 \/ Strchr(set, s1[k]) = Nowhere })
  IN  IF Strlen(set) = 0 \/ Strlen(s1) = 0 THEN Strdup(s1)
      ELSE Block(j - i + 2, Fill(Fresh, 0, s1, i, Max({i, j + 1})))

\* j is size_t and may be i - 1, when every character is in the set.
Strtrim(s1, set) ==
  LET i == Min({ k \in DOMAIN s1 : s1[k] = NUL \/ Strchr(set, s1[k]) = Nowhere })
      j == Max({ k \in 0 .. Strlen(s1) - 1 : k <= i \/ Strchr(set, s1[k]) = Nowhere })
  IN  IF Strlen(set) = 0 \/ Strlen(s1) = 0 THEN Strdup(s1)
      ELSE Block(j - i + 2, Fill(Fresh, 0, s1, i, Max({i, j + 1})))

\* The client's function, one that tells every place and character apart.
F(i, c) == 128 * (i + 1) + c

Strmapi(s) ==
  Block(Strlen(s) + 1, Fill(Fresh, 0, [ i \in DOMAIN s |-> F(i, s[i]) ], 0, Strlen(s)))

-----------------------------------------------------------------------------
\* ft_split

DelimdLen(s, i, c) == Min({ k \in 0 .. Strlen(s) - i : s[i + k] \in {c, NUL} })

CountSplit(s, c) ==
  LET from[i \in 0 .. Strlen(s)] ==
        IF s[i] = NUL THEN 0
        ELSE IF s[i] # c THEN 1 + from[i + DelimdLen(s, i, c)] ELSE from[i + 1]
  IN  from[0]

\* The loop of ft_split, when malloc gives it this many pieces and no more.
SplitLoop(s, c, pieces) ==
  LET after[k \in 0 .. Strlen(s)] ==
        IF k = 0 THEN [i |-> 0, array |-> <<>>, refused |-> FALSE]
        ELSE LET r == after[k - 1]
                 len == DelimdLen(s, r.i, c)
             IN  IF r.refused \/ s[r.i] = NUL THEN r
                 ELSE IF s[r.i] = c THEN [r EXCEPT !.i = r.i + 1]
                 ELSE IF Len(r.array) = pieces THEN [r EXCEPT !.refused = TRUE]
                 ELSE [ i |-> r.i + len, refused |-> FALSE,
                        array |-> Append(r.array, Block(len + 1, Fill(Fresh, 0, s, r.i, r.i + len))) ]
  IN  after[Strlen(s)]

\* Mutant: the last piece is forgotten.
FreeArrayButLast(i) == [ k \in 1 .. i |-> IF k = i THEN 0 ELSE k ]

\* free_array(str, i) frees str[0] to str[i - 1] and then str, here block 0.
FreeArray(i) == [ k \in 1 .. i + 1 |-> IF k = i + 1 THEN 0 ELSE k ]

\* slots: of the array; null: the one that gets the NULL.
Split(s, c, pieces) ==
  LET r == SplitLoop(s, c, pieces)
  IN  [ value |-> IF r.refused THEN Nowhere ELSE 0,
        array |-> r.array,
        slots |-> CountSplit(s, c) + 1,
        null |-> CountSplit(s, c),
        freed |-> IF r.refused THEN FreeArray(Len(r.array)) ELSE <<>> ]

-----------------------------------------------------------------------------
StringsOf(C, n) ==
  { s \in UNION { [0 .. k -> C \cup {NUL}] : k \in 0 .. n } :
      \A i \in DOMAIN s : s[i] = NUL <=> i = Cardinality(DOMAIN s) - 1 }

Strings == StringsOf(Letters, MaxLen)
Sizes == 0 .. MaxLen + 2

\* What malloc refuses is answered with NULL.
Returns(name, args, block) ==
  \/ Call(name, args, block)
  \/ Call(name, args, Null)

DoStrchr == \E s \in Strings, c \in Letters \cup {NUL} :
  \/ Call("strchr", [s |-> s, c |-> c], [value |-> Strchr(s, c)])
  \/ Call("strrchr", [s |-> s, c |-> c], [value |-> Strrchr(s, c)])
DoStrncmp == \E s, t \in Strings, n \in Sizes :
  Call("strncmp", [s |-> s, t |-> t, n |-> n], [value |-> Strncmp(s, t, n)])
DoStrnstr == \E s, t \in Strings, n \in Sizes :
  Call("strnstr", [s |-> s, t |-> t, n |-> n], [value |-> Strnstr(s, t, n)])

\* The buffer holds a string, and dstsize bytes of it are the caller's.
DoStrlcpy == \E d, s \in Strings, n \in Sizes :
  /\ n <= Cardinality(DOMAIN d)
  /\ Call("strlcpy", [d |-> d, s |-> s, n |-> n], Strlcpy(d, s, n))
\* Beyond the string the buffer holds anything, here the letter itself.
Buffer(d, n) == [ i \in DOMAIN d \cup 0 .. n - 1 |-> IF i \in DOMAIN d THEN d[i] ELSE 1 ]
DoStrlcat == \E d, s \in Strings, n \in Sizes :
  Call("strlcat", [d |-> Buffer(d, n), s |-> s, n |-> n], Strlcat(Buffer(d, n), s, n))

DoStrdup == \E s \in Strings : Returns("strdup", [s |-> s], Strdup(s))
DoStrmapi == \E s \in Strings : Returns("strmapi", [s |-> s], Strmapi(s))
DoStrjoin == \E s, t \in Strings : Returns("strjoin", [s |-> s, t |-> t], Strjoin(s, t))
DoStrtrim == \E s, t \in Strings : Returns("strtrim", [s |-> s, t |-> t], Strtrim(s, t))
DoSubstr == \E s \in Strings, start, n \in Sizes :
  Returns("substr", [s |-> s, start |-> start, n |-> n], Substr(s, start, n))
DoSplit == \E s \in Strings, c \in Letters \cup {NUL}, pieces \in 0 .. MaxLen :
  Returns("split", [s |-> s, c |-> c], Split(s, c, pieces))

StringCall ==
  \/ DoStrchr \/ DoStrncmp \/ DoStrnstr \/ DoStrlcpy \/ DoStrlcat
  \/ DoStrdup \/ DoStrmapi \/ DoStrjoin \/ DoStrtrim \/ DoSubstr \/ DoSplit

-----------------------------------------------------------------------------
\* Characters s[a .. b - 1], and those of a whole string
Piece(s, a, b) == [ i \in 1 .. b - a |-> s[a + i - 1] ]
Text(s) == Piece(s, 0, Strlen(s))

Making == {"strdup", "strmapi", "strjoin", "strtrim", "substr"}
Made == result # Null

\* A new string is stored in the bytes asked of malloc, all of them and no
\* others, for every string and every set to trim, the one that leaves nothing
\* included; and each piece of ft_split as well.
BlocksFilled ==
  LET Filled(b) == DOMAIN b.str = 0 .. b.size - 1 /\ Strlen(b.str) = b.size - 1
  IN  /\ call.name \in Making /\ Made => Filled(result)
      /\ call.name = "split" /\ Made => \A k \in DOMAIN result.array : Filled(result.array[k])

\* ft_strlcpy and ft_strlcat leave in the buffer the text, as far as there is
\* room, terminated, touch nothing behind the room or the string, and return
\* the length of the text, so that the caller can tell that it was cut.
CutsTell ==
  LET a == call.args
      old == IF call.name = "strlcat" THEN Text(a.d) ELSE <<>>
      all == old \o Text(a.s)
      kept == Min({Len(all), Max({Len(old), a.n - 1})})
  IN  /\ call.name \in {"strlcpy", "strlcat"} /\ a.n > 0 /\ a.n >= Len(old) =>
           /\ Text(result.str) = SubSeq(all, 1, kept)
           /\ result.value = Len(all)
      /\ call.name \in {"strlcpy", "strlcat"} =>
           /\ DOMAIN result.str = DOMAIN a.d
           /\ \A i \in DOMAIN a.d : i >= a.n => result.str[i] = a.d[i]
           /\ a.n < Len(old) \/ a.n = 0 => result.str = a.d /\ result.value >= a.n

\* The searches return the first place, or the last, that has what is looked
\* for, all of it within the first n characters; and comparing says "equal"
\* exactly for texts that are equal as far as n.
SearchesRight ==
  LET a == call.args
      places == { i \in 0 .. Strlen(a.s) : a.s[i] = a.c }
      Cut(s) == SubSeq(Text(s), 1, Min({a.n, Strlen(s)}))
      hits == { i \in 0 .. Len(Cut(a.s)) : IsPrefix(Text(a.t), SubSeq(Cut(a.s), i + 1, Len(Cut(a.s)))) }
  IN  /\ call.name = "strchr" => result.value = (IF places = {} THEN Nowhere ELSE Min(places))
      /\ call.name = "strrchr" => result.value = Max(places \cup {Nowhere})
      /\ call.name = "strnstr" => result.value = (IF hits = {} THEN Nowhere ELSE Min(hits))
      /\ call.name = "strncmp" => (result.value = 0 <=> Cut(a.s) = Cut(a.t))

\* What ft_strjoin, ft_substr, ft_strtrim and ft_strmapi return is the text
\* they are for: trimming leaves the shortest piece outside of which there is
\* nothing but characters of the set.
PiecesRight ==
  LET a == call.args
      text == Text(result.str)
      In(i) == a.s[i] \in Range(Text(a.t))
      cuts == { p \in (0 .. Strlen(a.s)) \X (0 .. Strlen(a.s)) :
                  /\ p[1] <= p[2]
                  /\ \A i \in 0 .. Strlen(a.s) - 1 : i < p[1] \/ i >= p[2] => In(i) }
  IN  Made =>
        /\ call.name = "strdup" => text = Text(a.s)
        /\ call.name = "strmapi" => text = [ i \in 1 .. Strlen(a.s) |-> F(i - 1, a.s[i - 1]) ]
        /\ call.name = "strjoin" => text = Text(a.s) \o Text(a.t)
        /\ call.name = "substr" => text = SubSeq(Text(a.s), a.start + 1, Min({Strlen(a.s), a.start + a.n}))
        /\ call.name = "strtrim" =>
             /\ \E p \in cuts : text = Piece(a.s, p[1], p[2])
             /\ \A p \in cuts : Len(text) <= p[2] - p[1]

\* ft_split returns the runs of characters between delimiters, in order, in an
\* array whose slots are all written, the NULL in the last; or, when malloc
\* refuses a piece, it gives back all it was given, the array and every piece so
\* far, each once.
SplitsAllOrNothing ==
  LET s == call.args.s
      Cuts(i) == i = Strlen(s) \/ s[i] = call.args.c
      runs == { p \in (0 .. Strlen(s)) \X (0 .. Strlen(s)) :
                  /\ p[1] < p[2] /\ \A i \in p[1] .. p[2] - 1 : ~Cuts(i)
                  /\ p[1] = 0 \/ Cuts(p[1] - 1)
                  /\ Cuts(p[2]) }
  IN  call.name = "split" /\ Made =>
        IF result.value = Nowhere
          THEN /\ Len(result.freed) = Len(result.array) + 1
               /\ Range(result.freed) = 0 .. Len(result.array)
          ELSE /\ \E at \in [ DOMAIN result.array -> runs ] :
                    /\ Range(at) = runs /\ \A j, k \in DOMAIN at : j < k => at[j][1] < at[k][1]
                    /\ \A k \in DOMAIN at : Text(result.array[k].str) = Piece(s, at[k][1], at[k][2])
               /\ result.null = Len(result.array) /\ result.slots = Len(result.array) + 1
=============================================================================
