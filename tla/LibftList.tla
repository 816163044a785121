------------------------------ MODULE LibftList -----------------------------
(***************************************************************************)
(* libft's lists: list_create.c, list_read.c, list_update.c and            *)
(* list_delete.c.                                                          *)
(*                                                                         *)
(* A client keeps one list, copies it with ft_lstmap and clears either.    *)
(* malloc can refuse every node, and the client's f can refuse every       *)
(* content: ft_lstmap then has to take back what it has built.             *)
(***************************************************************************)
EXTENDS Naturals, FiniteSets, Sequences

CONSTANTS
  Nodes,      \* the addresses of nodes
  Contents,   \* the addresses of contents
  NULL

ASSUME ListsAssumption ==
  IsFiniteSet(Nodes) /\ IsFiniteSet(Contents) /\ NULL \notin Nodes \cup Contents

VARIABLES
  heads,      \* the client's list, and the one ft_lstmap makes
  next, content, allocated,   \* the nodes
  live,       \* the contents that were made and not deleted
  madeFrom,   \* history: the content f was given for each content
  asked,      \* history: the contents of the list ft_lstmap was called for
  pc, which,  \* the call under way, and the list it clears
  lst, node   \* its loop variables

vars == <<heads, next, content, allocated, live, madeFrom, asked, pc, which, lst, node>>

\* The nodes of a list: after k steps, in order, and the last one (ft_lstlast).
Walked(head) ==
  LET at[k \in 0 .. Cardinality(Nodes)] ==
        IF k = 0 THEN head
        ELSE LET current == at[k - 1] IN IF current = NULL THEN NULL ELSE next[current]
  IN  at

LstSize(head) == Cardinality({ k \in DOMAIN Walked(head) : Walked(head)[k] # NULL })
InOrder(head) == [ k \in 1 .. LstSize(head) |-> Walked(head)[k - 1] ]
NodesOf(head) == { InOrder(head)[k] : k \in DOMAIN InOrder(head) }
LstLast(head) == Walked(head)[LstSize(head) - 1]

-----------------------------------------------------------------------------
\* ft_lstnew(c), for a node the allocator had.
LstNew(n, c) ==
  /\ n \in Nodes \ allocated
  /\ allocated' = allocated \cup {n}
  /\ content' = [content EXCEPT ![n] = c]

NoCall == UNCHANGED <<madeFrom, asked, pc, which, lst, node>>

\* The contents a client or its f gives to ft_lstnew: a new one, or none.
Given == (Contents \ live) \cup {NULL}

AddFront == \E n \in Nodes, c \in Given :
  /\ pc = "idle"
  /\ LstNew(n, c)
  /\ next' = [next EXCEPT ![n] = heads.list]
  /\ heads' = [heads EXCEPT !.list = n]
  /\ live' = live \cup ({c} \ {NULL})
  /\ NoCall

AddBack == \E n \in Nodes, c \in Given :
  /\ pc = "idle"
  /\ LstNew(n, c)
  /\ \/ /\ heads.list = NULL
        /\ heads' = [heads EXCEPT !.list = n]
        /\ next' = [next EXCEPT ![n] = NULL]
     \/ /\ heads.list # NULL
        /\ next' = [next EXCEPT ![n] = NULL, ![LstLast(heads.list)] = n]
        /\ UNCHANGED heads
  /\ live' = live \cup ({c} \ {NULL})
  /\ NoCall

\* del(n->content), free(n).  The fields of a node that is gone and the history
\* of a content that is gone are not kept.
Forget(c) == madeFrom' = IF c = NULL THEN madeFrom ELSE [madeFrom EXCEPT ![c] = NULL]
Delete(n) ==
  /\ live' = live \ {content[n]}
  /\ allocated' = allocated \ {n}
  /\ next' = [next EXCEPT ![n] = NULL]
  /\ content' = [content EXCEPT ![n] = NULL]
  /\ Forget(content[n])

\* The client takes the first node off its list and gives it to ft_lstdelone.
DelOne ==
  /\ pc = "idle"
  /\ heads.list # NULL
  /\ heads' = [heads EXCEPT !.list = next[heads.list]]
  /\ Delete(heads.list)
  /\ UNCHANGED <<asked, pc, which, lst, node>>

-----------------------------------------------------------------------------
StartMap ==
  /\ pc = "idle"
  /\ heads.list # NULL /\ heads.copy = NULL
  /\ pc' = "map"
  /\ lst' = heads.list
  /\ node' = NULL
  /\ asked' = [ k \in 1 .. LstSize(heads.list) |-> content[InOrder(heads.list)[k]] ]
  /\ UNCHANGED <<heads, next, content, allocated, live, madeFrom, which>>

\* Mutant: the loop of ft_lstmap hangs every copy behind the first one.
AppendAtFirst(n) ==
  IF node = NULL THEN next' = [next EXCEPT ![n] = NULL] /\ heads' = [heads EXCEPT !.copy = n]
  ELSE next' = [next EXCEPT ![heads.copy] = n, ![n] = next[heads.copy]] /\ UNCHANGED heads

\* new_lst = node, or node->next = node.
AppendLast(n) ==
  IF node = NULL THEN next' = [next EXCEPT ![n] = NULL] /\ heads' = [heads EXCEPT !.copy = n]
  ELSE next' = [next EXCEPT ![node] = n, ![n] = NULL] /\ UNCHANGED heads

\* ft_lstnew(f(lst->content)), for one node of the list.
MapNode == \E n \in Nodes, c \in Given :
  /\ pc = "map"
  /\ LstNew(n, c)
  /\ AppendLast(n)
  /\ live' = live \cup ({c} \ {NULL})
  /\ madeFrom' = IF c = NULL THEN madeFrom ELSE [madeFrom EXCEPT ![c] = content[lst]]
  /\ lst' = next[lst]
  /\ \/ next[lst] # NULL /\ node' = n /\ UNCHANGED pc
     \/ next[lst] = NULL /\ node' = NULL /\ pc' = "idle"
  /\ UNCHANGED <<asked, which>>

\* Mutant: the list that is cleared is the one that was to be copied.
TakeBackSource ==
  pc' = "clear" /\ which' = "list" /\ lst' = heads.list

\* ft_lstclear(&new_lst, del)
TakeBack ==
  pc' = "clear" /\ which' = "copy" /\ lst' = heads.copy

\* The allocator refuses the node: f's content is on no list.
MapRefused == \E c \in Given :
  /\ pc = "map"
  /\ live' = live \cup ({c} \ {NULL})
  /\ TakeBack
  /\ node' = NULL
  /\ UNCHANGED <<heads, next, content, allocated, madeFrom, asked>>

-----------------------------------------------------------------------------
StartClear == \E l \in {"list", "copy"} :
  /\ pc = "idle"
  /\ pc' = "clear" /\ which' = l /\ lst' = heads[l]
  /\ UNCHANGED <<heads, next, content, allocated, live, madeFrom, asked, node>>

\* Mutant: the node goes, its content stays.
ClearNodeOnly ==
  /\ pc = "clear" /\ lst # NULL
  /\ allocated' = allocated \ {lst}
  /\ lst' = next[lst]
  /\ UNCHANGED <<heads, next, content, live, madeFrom, asked, pc, which, node>>

\* ft_lstclear, one node.
ClearNode ==
  /\ pc = "clear" /\ lst # NULL
  /\ Delete(lst)
  /\ lst' = next[lst]
  /\ UNCHANGED <<heads, asked, pc, which, node>>

\* Mutant: *lst keeps the address of a node that is gone.
ClearEndKeepingHead ==
  /\ pc = "clear" /\ lst = NULL
  /\ pc' = "idle"
  /\ UNCHANGED <<heads, next, content, allocated, live, madeFrom, asked, which, lst, node>>

\* ft_lstclear: *lst = NULL.
ClearEnd ==
  /\ pc = "clear" /\ lst = NULL
  /\ pc' = "idle" /\ which' = "list"
  /\ heads' = [heads EXCEPT ![which] = NULL]
  /\ asked' = IF which = "copy" THEN <<>> ELSE asked
  /\ UNCHANGED <<next, content, allocated, live, madeFrom, lst, node>>

Init ==
  /\ heads = [list |-> NULL, copy |-> NULL]
  /\ next = [n \in Nodes |-> NULL] /\ content = [n \in Nodes |-> NULL]
  /\ allocated = {} /\ live = {}
  /\ madeFrom = [c \in Contents |-> NULL] /\ asked = <<>>
  /\ pc = "idle" /\ which = "list" /\ lst = NULL /\ node = NULL

InCall == MapNode \/ MapRefused \/ ClearNode \/ ClearEnd
Next == AddFront \/ AddBack \/ DelOne \/ StartMap \/ StartClear \/ InCall

Spec == Init /\ [][Next]_vars

-----------------------------------------------------------------------------
\* Where a walk along each list starts: a list that is being cleared has lost
\* the nodes before the loop variable.
Start(l) == IF pc = "clear" /\ which = l THEN lst ELSE heads[l]
Held == { content[n] : n \in NodesOf(Start("list")) \cup NodesOf(Start("copy")) } \ {NULL}

\* Both lists end, share no node, consist of allocated nodes and hold contents
\* that nobody has deleted, each of them once: no node is freed twice.  Every
\* node that is allocated is on one of them: ft_lstmap takes back all nodes.
ListsHold ==
  LET list == NodesOf(Start("list"))
      copy == NodesOf(Start("copy"))
  IN  /\ \A l \in {"list", "copy"} : Walked(Start(l))[Cardinality(Nodes)] = NULL
      /\ list \cap copy = {}
      /\ list \cup copy = allocated
      /\ Held \subseteq live
      /\ \A m, n \in allocated : content[m] = content[n] => m = n \/ content[m] = NULL

\* A copy that ft_lstmap returned has a node for every node of the list it was
\* called for, in the same order.
MapKeepsOrder ==
  (pc = "idle" /\ heads.copy # NULL) =>
    LET copies == InOrder(heads.copy)
    IN  /\ Len(copies) = Len(asked)
        /\ \A k \in DOMAIN copies :
             content[copies[k]] # NULL => madeFrom[content[copies[k]]] = asked[k]

\* Contents get lost only where ft_lstmap is refused a node, and one at a time.
Lost == live \ Held
RefusedNodesLoseOneContent ==
  [][ /\ Cardinality(Lost' \ Lost) <= 1
      /\ Lost' \subseteq Lost \/ (pc = "map" /\ pc' = "clear") ]_vars
=============================================================================
