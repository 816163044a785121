----------------------------- MODULE LibftCall ------------------------------
(***************************************************************************)
(* A call of a libft function that keeps no state: a behaviour is one call *)
(* with any of the arguments its module chooses, and its result.           *)
(***************************************************************************)
EXTENDS Naturals, Sequences

VARIABLES call, result

cvars == <<call, result>>

NoResult == [value |-> 0]

Init == call = [name |-> "none", args |-> NoResult] /\ result = NoResult

NoCallYet == call.name = "none"

Call(name, args, r) ==
  /\ call' = [name |-> name, args |-> args]
  /\ result' = r

-----------------------------------------------------------------------------
\* The number that the digits d stand for in a base, each by its place: what
\* the properties of the conversions refer to.
Numeral(d, base) ==
  LET weight[k \in Nat] == IF k = 0 THEN 1 ELSE base * weight[k - 1]
      sum[k \in 0 .. Len(d)] == IF k = 0 THEN 0 ELSE sum[k - 1] + d[k] * weight[Len(d) - k]
  IN  sum[Len(d)]
=============================================================================
