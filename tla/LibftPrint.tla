----------------------------- MODULE LibftPrint -----------------------------
(***************************************************************************)
(* libft's printing: characters, strings, numbers and ft_vdprintf, and the *)
(* two number printers of showAllocMem.c.                                  *)
(*                                                                         *)
(* Everything goes out through write, unbuffered, and write may fail or    *)
(* deliver less.  Each function takes the state of the output and returns  *)
(* it with what the C function returns as `printed'.  Characters are       *)
(* strings of length 1 here, texts sequences of them.                      *)
(***************************************************************************)
EXTENDS LibftCall, SequencesExt, FiniteSetsExt, Integers

CONSTANTS
  UIntMax,    \* of unsigned int, and of uintptr_t
  Unsigned    \* the numbers printed as unsigned int, size_t or pointer

ASSUME PrintAssumption == UIntMax \in Nat /\ UIntMax > 20 /\ UIntMax % 2 = 1 /\ Unsigned \subseteq 0 .. UIntMax

\* The numbers printed as int: the ends of its range, and where digits begin.
INT_MAX == UIntMax \div 2
Ints == {-INT_MAX - 1, -10, -1, 0, 9, 10, INT_MAX}

UDECIMAL == <<"0", "1", "2", "3", "4", "5", "6", "7", "8", "9">>
UHEX_L == UDECIMAL \o <<"a", "b", "c", "d", "e", "f">>
UHEX_U == UDECIMAL \o <<"A", "B", "C", "D", "E", "F">>
NoText == <<"NULL">>        \* a null pointer for a string

\* An open output; of its writes, the one numbered `at' goes wrong, if any.
Opened(fd, at, how) ==
  [fd |-> fd, at |-> at, how |-> how, text |-> <<>>, writes |-> 0, failed |-> 0, printed |-> 0]

Returning(o, n) == [o EXCEPT !.printed = n]

\* printed += f(...): o before f, p after it.
Adding(o, p) == Returning(p, o.printed + p.printed)

\* write(fd, s, n): the kernel's answer.
Write(o, s) ==
  LET wrong == o.writes + 1 = o.at
      failed == wrong /\ o.how = "fails"
      n == IF failed THEN 0 ELSE IF wrong /\ Len(s) > 1 THEN Len(s) - 1 ELSE Len(s)
  IN  [ o EXCEPT !.writes = @ + 1, !.failed = IF failed THEN @ + 1 ELSE @,
                 !.text = @ \o SubSeq(s, 1, n), !.printed = IF failed THEN -1 ELSE n ]

PutChar(o, c) == IF o.fd < 0 THEN Returning(o, 0) ELSE Write(o, <<c>>)

PutStr(o, s) == IF s = NoText \/ o.fd < 0 THEN Returning(o, 0) ELSE Write(o, s)

PutEndl(o, s) ==
  LET p == PutStr(o, s)
  IN  IF s = NoText \/ o.fd < 0 THEN Returning(o, -1)
      ELSE IF p.printed < 0 THEN p ELSE Adding(p, PutChar(p, "\n"))

\* Mutant: what the recursion has printed is not added.
PutUnbrUncounted(o, n, digits) ==
  LET base == Len(digits)
      put[k \in Nat] ==
        IF k >= base THEN PutChar(put[k \div base], digits[(k % base) + 1])
        ELSE Adding(Returning(o, 0), PutChar(o, digits[k + 1]))
  IN  IF o.fd < 0 \/ base < 2 \/ base > 16 THEN Returning(o, -1) ELSE put[n]

\* ft_putunbr_fd; the digits above come first, by recursion.
PutUnbr(o, n, digits) ==
  LET base == Len(digits)
      put[k \in Nat] ==
        LET above == IF k >= base THEN put[k \div base] ELSE Returning(o, 0)
        IN  Adding(above, PutChar(above, digits[(k % base) + 1]))
  IN  IF o.fd < 0 \/ base < 2 \/ base > 16 THEN Returning(o, -1) ELSE put[n]

\* ft_putnbr_fd; n * -1 for INT_MIN is what the multiplication leaves in 32
\* bits, and as unsigned it is the magnitude.
PutNbr(o, n) ==
  LET minus == PutChar(o, "-")
      put[k \in Nat] ==
        LET above == IF k >= 10 THEN put[k \div 10] ELSE Returning(o, 0)
        IN  Adding(above, PutChar(above, UDECIMAL[(k % 10) + 1]))
  IN  IF n < 0 THEN Adding(minus, PutUnbr(minus, (-n) % (UIntMax + 1), UDECIMAL)) ELSE put[n]

\* ft_putptr_fd
PutPtr(o, n, digits) ==
  LET put[k \in Nat] ==
        LET above == IF k >= 16 THEN put[k \div 16] ELSE PutStr(o, <<"0", "x">>)
        IN  Adding(above, PutChar(above, digits[(k % 16) + 1]))
  IN  put[n]

\* ft_putsize_t_fd and ft_putPtr of showAllocMem.c, the latter with base 16.
PutSize(o, n, digits, base) ==
  LET put[k \in Nat] ==
        LET above == IF k >= base THEN put[k \div base] ELSE Returning(o, 0)
        IN  Adding(above, PutChar(above, digits[(k % base) + 1]))
  IN  put[n]

-----------------------------------------------------------------------------
\* An argument is a number or a text; a character is a text of length 1.
Number(n) == [n |-> n, s |-> NoText]
Str(s) == [n |-> 0, s |-> s]

Consuming == {"c", "s", "p", "P", "d", "i", "u", "x", "X"}

\* putfmtd_fd with the argument it takes, if it takes one.
PutFmtd(o, exp, arg) ==
  CASE exp = "c" -> PutChar(o, arg.s[1])
    [] exp = "s" -> PutStr(o, arg.s)
    [] exp = "p" -> PutPtr(o, arg.n, UHEX_L)
    [] exp = "P" -> PutPtr(o, arg.n, UHEX_U)
    [] exp \in {"d", "i"} -> PutNbr(o, arg.n)
    [] exp = "u" -> PutUnbr(o, arg.n, UDECIMAL)
    [] exp = "x" -> PutUnbr(o, arg.n, UHEX_L)
    [] exp = "X" -> PutUnbr(o, arg.n, UHEX_U)
    [] exp = "%" -> PutChar(o, "%")
    [] OTHER -> Returning(o, 0)

\* Mutant: a directive without an argument takes one all the same.
ArgumentsTaken(exp) == 1

\* How many arguments va_arg takes for a directive.
Taken(exp) == IF exp \in Consuming THEN 1 ELSE 0

\* ft_vdprintf; the format does not end in a single %.
Vdprintf(o, fmt, ap) ==
  LET after[k \in 0 .. Len(fmt)] ==
        IF k = 0 THEN [i |-> 1, used |-> 0, o |-> o]
        ELSE LET r == after[k - 1]
                 exp == fmt[r.i + 1]
                 arg == IF r.used < Len(ap) THEN ap[r.used + 1] ELSE Str(NoText)
             IN  IF r.i > Len(fmt) THEN r
                 ELSE IF fmt[r.i] # "%"
                   THEN [r EXCEPT !.i = @ + 1, !.o = Adding(@, PutChar(@, fmt[r.i]))]
                 ELSE [ i |-> r.i + 2, used |-> r.used + Taken(exp),
                        o |-> Adding(r.o, PutFmtd(r.o, exp, arg)) ]
  IN  after[Len(fmt)].o

-----------------------------------------------------------------------------
Item(fmt, args) == [fmt |-> fmt, args |-> args]
Items ==
  {Item(<<"a">>, <<>>), Item(<<"%", "%">>, <<>>), Item(<<"%", "q">>, <<>>)}
    \cup { Item(<<"%", "c">>, <<Str(<<"b">>)>>) }
    \cup { Item(<<"%", "s">>, <<Str(s)>>) : s \in {NoText, <<>>, <<"b", "c">>} }
    \cup { Item(<<"%", e>>, <<Number(n)>>) : e \in {"d", "i"}, n \in Ints }
    \cup { Item(<<"%", e>>, <<Number(n)>>) : e \in {"u", "x", "X", "p", "P"}, n \in Unsigned }

Outputs == { Opened(1, at, how) : at \in 1 .. 3, how \in {"fails", "shortens"} }
             \cup { Opened(fd, 0, "never") : fd \in {-1, 1} }

DoPrintf == \E o \in Outputs, x, y \in Items :
  Call("printf", [o |-> o, items |-> <<x, y>>], Vdprintf(o, x.fmt \o y.fmt, x.args \o y.args))
DoPutEndl == \E o \in Outputs, s \in {NoText, <<>>, <<"b", "c">>} :
  Call("putendl", [o |-> o, s |-> s], PutEndl(o, s))
DoPutSize == \E o \in Outputs, n \in Unsigned :
  \/ Call("putsize", [o |-> o, n |-> n], PutSize(o, n, UDECIMAL, 10))
  \/ Call("putPtr", [o |-> o, n |-> n], PutSize(o, n, UHEX_U, 16))

PrintCall == DoPrintf \/ DoPutEndl \/ DoPutSize

-----------------------------------------------------------------------------
\* text is n in the digits' base, with no 0 in front.
Spells(text, n, digits) ==
  LET Value(c) == CHOOSE v \in 0 .. Len(digits) - 1 : digits[v + 1] = c
  IN  /\ text # <<>>
      /\ \A i \in DOMAIN text : text[i] \in Range(digits)
      /\ n = Numeral([ i \in DOMAIN text |-> Value(text[i]) ], Len(digits))
      /\ text[1] = "0" => text = <<"0">>

After(text, k) == SubSeq(text, k + 1, Len(text))

\* What a directive with its argument has to print.
Means(x, text) ==
  LET e == IF Len(x.fmt) = 2 THEN x.fmt[2] ELSE "none"
      n == x.args[1].n
      s == x.args[1].s
  IN  CASE e = "none" -> text = x.fmt
        [] e = "%" -> text = <<"%">>
        [] e = "q" -> text = <<>>
        [] e = "c" -> text = s
        [] e = "s" -> text = (IF s = NoText THEN <<>> ELSE s)
        [] e \in {"d", "i"} -> IF n < 0 THEN text # <<>> /\ text[1] = "-" /\ Spells(After(text, 1), -n, UDECIMAL)
                               ELSE Spells(text, n, UDECIMAL)
        [] e = "u" -> Spells(text, n, UDECIMAL)
        [] e = "x" -> Spells(text, n, UHEX_L)
        [] e = "X" -> Spells(text, n, UHEX_U)
        [] e \in {"p", "P"} -> /\ Len(text) > 2 /\ SubSeq(text, 1, 2) = <<"0", "x">>
                               /\ Spells(After(text, 2), n, IF e = "p" THEN UHEX_L ELSE UHEX_U)

\* If no write goes wrong, the output is what the directives mean, one after
\* the other, each with its own argument, also behind directives that take
\* none and for the ends of the ranges of numbers.
PrintsMeaning ==
  LET o == call.args.o
      text == result.text
  IN  /\ call.name = "printf" /\ o.fd >= 0 /\ o.at = 0 =>
           \E k \in 0 .. Len(text) :
             Means(call.args.items[1], SubSeq(text, 1, k)) /\ Means(call.args.items[2], After(text, k))
      /\ call.name = "putsize" /\ o.fd >= 0 /\ o.at = 0 => Spells(text, call.args.n, UDECIMAL)
      /\ call.name = "putPtr" /\ o.fd >= 0 /\ o.at = 0 => Spells(text, call.args.n, UHEX_U)

\* What is returned is the number of bytes delivered, less one for every write
\* that failed: a failure in the middle does not stop the rest, and to a
\* descriptor that is none nothing is written.
CountsBytes ==
  call.name \in {"printf", "putendl", "putsize", "putPtr"} =>
    /\ call.args.o.fd >= 0 /\ ~(call.name = "putendl" /\ call.args.s = NoText)
         => result.printed = Len(result.text) - result.failed
    /\ call.args.o.fd < 0 => result.writes = 0
=============================================================================
