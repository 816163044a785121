------------------------------- MODULE Libft --------------------------------
(***************************************************************************)
(* One call of any of libft's functions that keep no state.                *)
(***************************************************************************)
EXTENDS LibftMemory, LibftNumbers, LibftPrint

Next == NoCallYet /\ (MemoryCall \/ StringCall \/ NumberCall \/ PrintCall)

Spec == Init /\ [][Next]_cvars
=============================================================================
