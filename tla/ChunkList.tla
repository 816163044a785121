----------------------------- MODULE ChunkList ------------------------------
(***************************************************************************)
(* What the list of large chunks is for the rest of the allocator: a       *)
(* sequence, newest first, to which a chunk is added and from which one is *)
(* taken in a single step.                                                 *)
(***************************************************************************)
EXTENDS Integers, Sequences

CONSTANT Members

VARIABLE list

LInit == list = <<>>

PushFront(c) == list' = <<c>> \o list

Remove(c) ==
  \E i \in DOMAIN list :
    /\ list[i] = c
    /\ list' = SubSeq(list, 1, i - 1) \o SubSeq(list, i + 1, Len(list))

LNext == \E c \in Members : PushFront(c) \/ Remove(c)

LSafety == LInit /\ [][LNext]_list
=============================================================================
