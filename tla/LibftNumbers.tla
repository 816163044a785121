---------------------------- MODULE LibftNumbers ----------------------------
(***************************************************************************)
(* ft_atoi and ft_itoa, for an int from -IntMax - 1 to IntMax whose digits *)
(* behave at the ends as those of the real one do: IntMax ends in 7.       *)
(***************************************************************************)
EXTENDS LibftStrings

CONSTANTS
  IntMax,
  NumberChars,    \* the characters of the strings ft_atoi is given
  NumberLen       \* and their length

ASSUME IntAssumption == IntMax \in Nat /\ IntMax % 10 = 7 /\ NumberChars \subseteq 1 .. 127

Minus == 45
Plus == 43
Digit(c) == 48 <= c /\ c <= 57
Space(c) == (9 <= c /\ c <= 13) \/ c = 32

\* Mutant: the last digit is not looked at.
WillOverflowTens(num, next) == num > IntMax \div 10
WillOverflow(num, next) ==
  num > IntMax \div 10 \/ (num = IntMax \div 10 /\ next > IntMax % 10)

\* Division in C rounds towards 0: this is the test on the negated numbers.
WillUnderflow(num, next) ==
  num > (IntMax + 1) \div 10 \/ (num = (IntMax + 1) \div 10 /\ next > (IntMax + 1) % 10)

\* ft_atoi; out of range it returns what is left of LONG_MAX and LONG_MIN in an
\* int, and errno is set.
Atoi(str) ==
  LET start == Min({ i \in DOMAIN str : ~Space(str[i]) })
      first == IF str[start] \in {Minus, Plus} THEN start + 1 ELSE start
      sign == IF str[start] = Minus THEN -1 ELSE 1
      last == Min({ i \in DOMAIN str : i >= first /\ ~Digit(str[i]) })
      num[i \in first .. last] ==
        IF i = first THEN 0 ELSE num[i - 1] * 10 + (str[i - 1] - 48)
      Stops(i) == IF sign = 1 THEN WillOverflow(num[i], str[i] - 48)
                  ELSE WillUnderflow(num[i], str[i] - 48)
      out == \E i \in first .. last - 1 : Stops(i)
  IN  [ value |-> IF ~out THEN num[last] * sign ELSE IF sign = 1 THEN -1 ELSE 0,
        erange |-> out ]

-----------------------------------------------------------------------------
\* The decimal text of n, most significant digit first: the reference, and the
\* text of INT_MIN, which the code has as a literal.
Decimal(n) ==
  LET from[k \in Nat] == IF k < 10 THEN <<48 + k>> ELSE Append(from[k \div 10], 48 + (k % 10))
  IN  IF n < 0 THEN <<Minus>> \o from[-n] ELSE from[n]

CString(seq) == [ i \in 0 .. Len(seq) |-> IF i = Len(seq) THEN NUL ELSE seq[i + 1] ]

Magnitude(n) == IF n < 0 THEN -n ELSE n

\* Mutant: the sign is not counted.
NumLenUnsigned(n) ==
  LET digits[k \in Nat] == IF k = 0 THEN 0 ELSE 1 + digits[k \div 10]
  IN  IF n = 0 THEN 1 ELSE digits[Magnitude(n)]

NumLen(n) ==
  LET digits[k \in Nat] == IF k = 0 THEN 0 ELSE 1 + digits[k \div 10]
  IN  IF n = 0 THEN 1 ELSE digits[Magnitude(n)] + (IF n < 0 THEN 1 ELSE 0)

\* The characters that are not the NUL, in the opposite order.
Strrev(str) ==
  [ i \in DOMAIN str |-> IF i < Strlen(str) THEN str[Strlen(str) - 1 - i] ELSE NUL ]

Itoa(n) ==
  LET low[k \in Nat] == IF k = 0 THEN <<>> ELSE <<48 + (k % 10)>> \o low[k \div 10]
      str == IF n < 0 THEN Append(low[Magnitude(n)], Minus) ELSE low[n]
  IN  IF n = -IntMax - 1 \/ n = 0 THEN Strdup(CString(Decimal(n)))
      ELSE Block(NumLen(n) + 1, Strrev(Fill(Fresh, 0, CString(str), 0, Len(str))))

-----------------------------------------------------------------------------
DoAtoi == \E s \in StringsOf(NumberChars, NumberLen) : Call("atoi", [s |-> s], Atoi(s))
DoItoa == \E n \in -IntMax - 1 .. IntMax : Returns("itoa", [n |-> n], Itoa(n))

NumberCall == DoAtoi \/ DoItoa

-----------------------------------------------------------------------------
\* The number that stands in a string, behind spaces and a sign.
NumberIn(str) ==
  LET s == Text(str)
      skip == Min({ i \in 1 .. Len(s) + 1 : i = Len(s) + 1 \/ ~Space(s[i]) })
      signed == skip <= Len(s) /\ s[skip] \in {Minus, Plus}
      rest == SubSeq(s, IF signed THEN skip + 1 ELSE skip, Len(s))
      digits == Max({ k \in 0 .. Len(rest) : \A i \in 1 .. k : Digit(rest[i]) })
      magnitude == Numeral([ i \in 1 .. digits |-> rest[i] - 48 ], 10)
  IN  IF signed /\ s[skip] = Minus THEN -magnitude ELSE magnitude

AsInt(n) ==
  [ value |-> IF n > IntMax THEN -1 ELSE IF n < -IntMax - 1 THEN 0 ELSE n,
    erange |-> n \notin -IntMax - 1 .. IntMax ]

\* ft_atoi returns the number that the digits up to the first other character
\* stand for whenever an int can hold it, to the last one, and else -1 or 0
\* according to the sign, with errno set: no digit is ever lost to overflow.
AtoiClamps == call.name = "atoi" => result = AsInt(NumberIn(call.args.s))

\* ft_itoa asks for exactly the bytes it writes, and what it writes is read back
\* as the same number by ft_atoi, INT_MIN and 0 included.
ItoaReadsBack ==
  call.name = "itoa" /\ Made =>
    /\ DOMAIN result.str = 0 .. result.size - 1
    /\ Strlen(result.str) = result.size - 1
    /\ Atoi(result.str) = [value |-> call.args.n, erange |-> FALSE]
    /\ result.str[0] = 48 => call.args.n = 0
=============================================================================
