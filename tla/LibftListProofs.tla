---------------------------- MODULE LibftListProofs --------------------------
(***************************************************************************)
(* libft's lists, for any number of nodes and contents: both lists hold    *)
(* together, a copy keeps the order, and what gets lost is one content     *)
(* where ft_lstmap is refused a node.                                      *)
(***************************************************************************)
EXTENDS LibftList, CommonLemmas

\* The fields are pointers to nodes and to contents.
Types ==
  /\ heads \in [list : Nodes \cup {NULL}, copy : Nodes \cup {NULL}]
  /\ next \in [Nodes -> Nodes \cup {NULL}] /\ content \in [Nodes -> Contents \cup {NULL}]
  /\ allocated \subseteq Nodes /\ live \subseteq Contents
  /\ madeFrom \in [Contents -> Contents \cup {NULL}] /\ asked \in Seq(Contents \cup {NULL})
  /\ pc \in {"idle", "map", "clear"} /\ which \in {"list", "copy"}
  /\ lst \in Nodes \cup {NULL} /\ node \in Nodes \cup {NULL}

\* No content is in two nodes, and none is deleted while a node holds it.
HeldOnce ==
  \A m \in allocated : content[m] # NULL =>
    content[m] \in live /\ \A n \in allocated : content[n] = content[m] => n = m

\* s and t are what is left of the list and of its copy, and all there is.
Lists(s, t) ==
  /\ Linked(Nodes, NULL, s, Start("list"), next)
  /\ Linked(Nodes, NULL, t, Start("copy"), next)
  /\ Members(s) \cap Members(t) = {}
  /\ Members(s) \cup Members(t) = allocated

\* ft_lstmap has copied the nodes before lst; node is the last of the copies.
Mapping(s, t) ==
  pc = "map" =>
    /\ Len(t) < Len(s) /\ lst = s[Len(t) + 1]
    /\ node = IF Len(t) = 0 THEN NULL ELSE t[Len(t)]
    /\ Len(asked) = Len(s) /\ \A k \in 1 .. Len(s) : asked[k] = content[s[k]]

\* The copy holds what f made of the contents that were asked for, in order,
\* and unless ft_lstmap is still at work all of it.
Copied(t) ==
  ~(pc = "clear" /\ which = "copy") =>
    /\ Len(t) <= Len(asked)
    /\ \A k \in 1 .. Len(t) : content[t[k]] # NULL => madeFrom[content[t[k]]] = asked[k]
    /\ pc # "map" => Len(t) = 0 \/ Len(t) = Len(asked)

InvOf(s, t) == Types /\ HeldOnce /\ Lists(s, t) /\ Mapping(s, t) /\ Copied(t)
ListInv == \E s, t \in Seq(Nodes) : InvOf(s, t)

-----------------------------------------------------------------------------
\* The recursive functions of LibftList, on the sequence that is linked.
LEMMA WalkedIs ==
  ASSUME NEW s, NEW h, Linked(Nodes, NULL, s, h, next)
  PROVE  /\ InOrder(h) = s /\ LstSize(h) = Len(s) /\ NodesOf(h) = Members(s)
         /\ Walked(h)[Cardinality(Nodes)] = NULL
         /\ Len(s) # 0 => LstLast(h) = s[Len(s)]
<1>1. Walked(h) = Follow(Nodes, NULL, h, next)
  BY DEF Walked, Follow
<1>2. FollowedList(Nodes, NULL, h, next) = s
  BY ListAlong, ListsAssumption
<1>3. InOrder(h) = s
  BY <1>1, <1>2 DEF InOrder, LstSize, FollowedList
<1>4. Cardinality(Nodes) \in Nat /\ Len(s) \in 0 .. Cardinality(Nodes)
  BY ChainLength, ListsAssumption
<1>5. Follow(Nodes, NULL, h, next) =
        [k \in 0 .. Cardinality(Nodes) |-> IF k < Len(s) THEN s[k + 1] ELSE NULL]
  BY WalkAlong, ListsAssumption
<1>6. s \in Seq(Nodes) /\ DOMAIN s = 1 .. Len(s)
  BY DEF Linked
<1>7. LstSize(h) = Len(s)
  <2>1. InOrder(h) = [ k \in 1 .. LstSize(h) |-> Walked(h)[k - 1] ]
    BY DEF InOrder
  <2>2. LstSize(h) \in Nat
    <3>1. { k \in DOMAIN Walked(h) : Walked(h)[k] # NULL } \subseteq 0 .. Cardinality(Nodes)
      BY <1>1, <1>5
    <3>2. IsFiniteSet(0 .. Cardinality(Nodes))
      BY <1>4, FS_Interval
    <3> QED
      BY <3>1, <3>2, FS_Subset, FS_CardinalityType DEF LstSize
  <2>3. 1 .. LstSize(h) = 1 .. Len(s)
    BY <1>3, <1>6, <2>1
  <2> QED
    BY <1>6, <2>2, <2>3
<1>8. NodesOf(h) = Members(s)
  BY <1>3, <1>6 DEF NodesOf, Members
<1>9. Walked(h)[Cardinality(Nodes)] = NULL
  BY <1>1, <1>4, <1>5
<1>10. ASSUME Len(s) # 0 PROVE LstLast(h) = s[Len(s)]
  BY <1>1, <1>4, <1>5, <1>7, <1>10 DEF LstLast
<1> QED
  BY <1>3, <1>7, <1>8, <1>9, <1>10

\* The invariant says what the runs check.
LEMMA InvHolds == ListInv => ListsHold
<1> SUFFICES ASSUME NEW s \in Seq(Nodes), NEW t \in Seq(Nodes), InvOf(s, t)
             PROVE  ListsHold
  BY DEF ListInv
<1>1. /\ NodesOf(Start("list")) = Members(s) /\ NodesOf(Start("copy")) = Members(t)
      /\ \A l \in {"list", "copy"} : Walked(Start(l))[Cardinality(Nodes)] = NULL
  BY WalkedIs DEF InvOf, Lists
<1>2. Held \subseteq live
  BY <1>1 DEF InvOf, Lists, HeldOnce, Held
<1> QED
  BY <1>1, <1>2 DEF InvOf, Lists, HeldOnce, ListsHold

LEMMA InvOrdered == ListInv => MapKeepsOrder
<1> SUFFICES ASSUME NEW s \in Seq(Nodes), NEW t \in Seq(Nodes), InvOf(s, t),
                    pc = "idle", heads.copy # NULL
             PROVE  LET copies == InOrder(heads.copy)
                    IN  /\ Len(copies) = Len(asked)
                        /\ \A k \in DOMAIN copies :
                             content[copies[k]] # NULL => madeFrom[content[copies[k]]] = asked[k]
  BY DEF ListInv, MapKeepsOrder
<1>1. Linked(Nodes, NULL, t, heads.copy, next)
  BY DEF InvOf, Lists, Start
<1>2. InOrder(heads.copy) = t
  BY <1>1, WalkedIs
<1>3. Len(t) # 0 /\ DOMAIN t = 1 .. Len(t)
  BY <1>1 DEF Linked
<1> QED
  BY <1>2, <1>3 DEF InvOf, Copied

\* All that nodes hold.
LEMMA HeldIs == ListInv => Held = { content[n] : n \in allocated } \ {NULL}
<1> SUFFICES ASSUME NEW s \in Seq(Nodes), NEW t \in Seq(Nodes), InvOf(s, t)
             PROVE  Held = { content[n] : n \in allocated } \ {NULL}
  BY DEF ListInv
<1>1. NodesOf(Start("list")) = Members(s) /\ NodesOf(Start("copy")) = Members(t)
  BY WalkedIs DEF InvOf, Lists
<1> QED
  BY <1>1 DEF Held, InvOf, Lists
-----------------------------------------------------------------------------
\* ft_lstnew with a content that no node holds.
LEMMA NewHeld ==
  ASSUME Types, HeldOnce, NEW n \in Nodes, NEW c \in Given, LstNew(n, c),
         live' = live \cup ({c} \ {NULL})
  PROVE  /\ HeldOnce' /\ n \notin allocated
         /\ content' \in [Nodes -> Contents \cup {NULL}] /\ content'[n] = c
         /\ \A m \in Nodes : m # n => content'[m] = content[m]
         /\ allocated' = allocated \cup {n} /\ allocated' \subseteq Nodes
         /\ live' \subseteq Contents
<1>1. /\ c \in Contents \cup {NULL} /\ c \notin live
      /\ n \notin allocated /\ allocated' = allocated \cup {n}
      /\ content' = [content EXCEPT ![n] = c]
  BY ListsAssumption DEF Given, LstNew, Types
<1>2. /\ content'[n] = c /\ content' \in [Nodes -> Contents \cup {NULL}]
      /\ \A m \in Nodes : m # n => content'[m] = content[m]
  BY <1>1 DEF Types
<1>3. live' \subseteq Contents
  BY <1>1, ListsAssumption DEF Types
<1>4. HeldOnce'
  <2> SUFFICES ASSUME NEW m \in allocated', content'[m] # NULL
               PROVE  content'[m] \in live' /\ \A k \in allocated' : content'[k] = content'[m] => k = m
    BY DEF HeldOnce
  <2>1. \A k \in allocated : k \in Nodes /\ k # n /\ content'[k] = content[k]
    BY <1>1, <1>2 DEF Types
  <2>2. CASE m = n
    BY <1>1, <1>2, <2>1, <2>2 DEF HeldOnce
  <2>3. CASE m # n
    <3>1. m \in allocated /\ content'[m] = content[m] /\ content[m] \in live
      BY <1>1, <2>1, <2>3 DEF HeldOnce
    <3> QED
      BY <1>1, <1>2, <2>1, <3>1 DEF HeldOnce
  <2> QED
    BY <2>2, <2>3
<1> QED
  BY <1>1, <1>2, <1>3, <1>4 DEF Types

\* del(n->content), free(n): what is left is as it was.
LEMMA DeleteHeld ==
  ASSUME Types, HeldOnce, NEW n \in allocated, Delete(n)
  PROVE  /\ HeldOnce'
         /\ content' \in [Nodes -> Contents \cup {NULL}] /\ next' \in [Nodes -> Nodes \cup {NULL}]
         /\ madeFrom' \in [Contents -> Contents \cup {NULL}]
         /\ allocated' = allocated \ {n} /\ live' = live \ {content[n]}
         /\ \A m \in allocated \ {n} :
              /\ next'[m] = next[m] /\ content'[m] = content[m]
              /\ content[m] # NULL => madeFrom'[content[m]] = madeFrom[content[m]]
<1>1. /\ live' = live \ {content[n]} /\ allocated' = allocated \ {n}
      /\ next' = [next EXCEPT ![n] = NULL] /\ content' = [content EXCEPT ![n] = NULL]
      /\ madeFrom' = IF content[n] = NULL THEN madeFrom ELSE [madeFrom EXCEPT ![content[n]] = NULL]
  BY DEF Delete, Forget
<1>2. n \in Nodes /\ \A m \in allocated : m \in Nodes
  BY DEF Types
<1>3. /\ content' \in [Nodes -> Contents \cup {NULL}] /\ next' \in [Nodes -> Nodes \cup {NULL}]
      /\ \A m \in allocated \ {n} : next'[m] = next[m] /\ content'[m] = content[m]
  BY <1>1, <1>2 DEF Types
<1>4. madeFrom' \in [Contents -> Contents \cup {NULL}]
  BY <1>1, <1>2 DEF Types
<1>5. \A m \in allocated \ {n} : content[m] # NULL =>
        content[m] \in live /\ content[m] # content[n] /\ content[m] \in Contents
  BY <1>2 DEF HeldOnce, Types
<1>6. \A m \in allocated \ {n} : content[m] # NULL => madeFrom'[content[m]] = madeFrom[content[m]]
  BY <1>1, <1>5 DEF Types
<1>7. HeldOnce'
  BY <1>1, <1>3, <1>5 DEF HeldOnce
<1> QED
  BY <1>1, <1>3, <1>4, <1>6, <1>7

\* A copy whose nodes are left alone.
LEMMA CopiedStays ==
  ASSUME NEW t, Copied(t), UNCHANGED <<pc, which, asked>>,
         \A m \in Members(t) :
           content'[m] = content[m] /\ (content[m] # NULL => madeFrom'[content[m]] = madeFrom[content[m]])
  PROVE  Copied(t)'
<1>1. \A k \in 1 .. Len(t) : t[k] \in Members(t)
  BY DEF Members
<1> QED
  BY <1>1 DEF Copied

\* What the client does between two calls.
LEMMA AddFrontKeeps ==
  ASSUME NEW s \in Seq(Nodes), NEW t \in Seq(Nodes), InvOf(s, t), AddFront
  PROVE  ListInv'
<1> PICK n \in Nodes, c \in Given :
      /\ pc = "idle" /\ LstNew(n, c)
      /\ next' = [next EXCEPT ![n] = heads.list]
      /\ heads' = [heads EXCEPT !.list = n]
      /\ live' = live \cup ({c} \ {NULL})
      /\ NoCall
  BY DEF AddFront
<1> DEFINE u == <<n>> \o s
<1>1. Types /\ HeldOnce /\ Lists(s, t) /\ Copied(t)
  BY DEF InvOf
<1>2. /\ HeldOnce' /\ n \notin allocated
      /\ content' \in [Nodes -> Contents \cup {NULL}]
      /\ \A m \in Nodes : m # n => content'[m] = content[m]
      /\ allocated' = allocated \cup {n} /\ allocated' \subseteq Nodes
      /\ live' \subseteq Contents
  BY <1>1, NewHeld
<1>3. /\ UNCHANGED <<madeFrom, asked, pc, which, lst, node>> /\ pc' = "idle"
      /\ heads' \in [list : Nodes \cup {NULL}, copy : Nodes \cup {NULL}]
      /\ heads'.list = n /\ heads'.copy = heads.copy
      /\ next' \in [Nodes -> Nodes \cup {NULL}] /\ next'[n] = heads.list
  BY <1>1 DEF Types, NoCall
<1>4. Types'
  BY <1>1, <1>2, <1>3 DEF Types
<1>5. /\ Linked(Nodes, NULL, s, heads.list, next) /\ Linked(Nodes, NULL, t, heads.copy, next)
      /\ Members(s) \cap Members(t) = {} /\ Members(s) \cup Members(t) = allocated
  BY <1>1 DEF Lists, Start
<1>6. n \in Nodes \ Members(s) /\ n \in Nodes \ Members(t)
  BY <1>2, <1>5
<1>7. Linked(Nodes, NULL, s, heads.list, next') /\ Linked(Nodes, NULL, t, heads.copy, next')
  BY <1>1, <1>5, <1>6, StoreElsewhere, ListsAssumption DEF Types
<1>8. Linked(Nodes, NULL, u, n, next') /\ Members(u) = Members(s) \cup {n}
  <2> HIDE DEF u
  <2>1. IsFiniteSet(Nodes) /\ NULL \notin Nodes
    BY ListsAssumption
  <2>2. /\ Linked(Nodes, NULL, <<n>> \o s, n, next')
        /\ Members(<<n>> \o s) = Members(s) \cup {n}
    <3>1. Linked(Nodes, NULL, s, heads.list, next') /\ n \in Nodes \ Members(s) /\ next'[n] = heads.list
      BY <1>3, <1>6, <1>7
    <3> QED
      BY ONLY <2>1, <3>1, PushedChain
  <2> QED
    BY <2>2 DEF u
<1>9. u \in Seq(Nodes)
  OBVIOUS
<1> HIDE DEF u
<1>10. Lists(u, t)'
  BY <1>2, <1>3, <1>5, <1>6, <1>7, <1>8 DEF Lists, Start
<1>11. Copied(t)'
  <2>1. \A m \in Members(t) : m \in Nodes /\ m # n
    BY <1>2, <1>5
  <2> QED
    BY <1>1, <1>2, <1>3, <2>1, CopiedStays
<1>12. Mapping(u, t)'
  BY <1>3 DEF Mapping
<1> QED
  BY <1>2, <1>4, <1>9, <1>10, <1>11, <1>12 DEF ListInv, InvOf

LEMMA AddBackKeeps ==
  ASSUME NEW s \in Seq(Nodes), NEW t \in Seq(Nodes), InvOf(s, t), AddBack
  PROVE  ListInv'
<1> PICK n \in Nodes, c \in Given :
      /\ pc = "idle" /\ LstNew(n, c)
      /\ \/ /\ heads.list = NULL
            /\ heads' = [heads EXCEPT !.list = n]
            /\ next' = [next EXCEPT ![n] = NULL]
         \/ /\ heads.list # NULL
            /\ next' = [next EXCEPT ![n] = NULL, ![LstLast(heads.list)] = n]
            /\ UNCHANGED heads
      /\ live' = live \cup ({c} \ {NULL})
      /\ NoCall
  BY DEF AddBack
<1> DEFINE u == Append(s, n)
           h == IF Len(s) = 0 THEN n ELSE heads.list
<1>1. Types /\ HeldOnce /\ Lists(s, t) /\ Copied(t)
  BY DEF InvOf
<1>2. /\ HeldOnce' /\ n \notin allocated
      /\ content' \in [Nodes -> Contents \cup {NULL}]
      /\ \A m \in Nodes : m # n => content'[m] = content[m]
      /\ allocated' = allocated \cup {n} /\ allocated' \subseteq Nodes
      /\ live' \subseteq Contents
  BY <1>1, NewHeld
<1>3. /\ Linked(Nodes, NULL, s, heads.list, next) /\ Linked(Nodes, NULL, t, heads.copy, next)
      /\ Members(s) \cap Members(t) = {} /\ Members(s) \cup Members(t) = allocated
  BY <1>1 DEF Lists, Start
<1>4. Len(s) = 0 <=> heads.list = NULL
  BY <1>3, ListsAssumption DEF Linked
<1>5. Len(s) # 0 => LstLast(heads.list) = s[Len(s)] /\ s[Len(s)] \in Members(s)
  BY <1>3, WalkedIs DEF Members
<1>6. n \in Nodes \ Members(s) /\ n \in Nodes \ Members(t)
  BY <1>2, <1>3
<1>7. /\ UNCHANGED <<madeFrom, asked, pc, which, lst, node>> /\ pc' = "idle"
      /\ heads' \in [list : Nodes \cup {NULL}, copy : Nodes \cup {NULL}]
      /\ heads'.list = h /\ heads'.copy = heads.copy
  BY <1>1, <1>4 DEF Types, NoCall
<1>8. /\ next' \in [Nodes -> Nodes \cup {NULL}] /\ next'[n] = NULL
      /\ Len(s) # 0 => next'[s[Len(s)]] = n
      /\ \A m \in Nodes : m # n /\ (Len(s) # 0 => m # s[Len(s)]) => next'[m] = next[m]
  BY <1>1, <1>4, <1>5, <1>6 DEF Types
<1>9. Types'
  BY <1>1, <1>2, <1>7, <1>8 DEF Types
<1>10. \A i \in 1 .. Len(s) : i # Len(s) => next'[s[i]] = next[s[i]]
  <2>1. \A i \in 1 .. Len(s) : s[i] \in Nodes /\ s[i] # n /\ (i # Len(s) => s[i] # s[Len(s)])
    BY <1>3, <1>6 DEF Linked, Members
  <2> QED
    BY <1>8, <2>1
<1>11. Linked(Nodes, NULL, u, h, next') /\ Members(u) = Members(s) \cup {n}
  BY <1>3, <1>6, <1>8, <1>10, AppendedChain
<1>12. Linked(Nodes, NULL, t, heads.copy, next')
  <2>1. \A m \in Members(t) : m \in Nodes /\ m # n /\ (Len(s) # 0 => m # s[Len(s)])
    BY <1>1, <1>3, <1>5, <1>6 DEF Types
  <2> QED
    BY <1>3, <1>8, <2>1, ChainFrame
<1>13. u \in Seq(Nodes)
  OBVIOUS
<1> HIDE DEF u
<1>14. Lists(u, t)'
  BY <1>2, <1>3, <1>6, <1>7, <1>11, <1>12 DEF Lists, Start
<1>15. Copied(t)'
  <2>1. \A m \in Members(t) : m \in Nodes /\ m # n
    BY <1>2, <1>3
  <2> QED
    BY <1>1, <1>2, <1>7, <2>1, CopiedStays
<1>16. Mapping(u, t)'
  BY <1>7 DEF Mapping
<1> QED
  BY <1>2, <1>9, <1>13, <1>14, <1>15, <1>16 DEF ListInv, InvOf
\* The first node of one list is deleted: here the two lists are u, which loses
\* it, and v, which does not.
LEMMA FirstDeleted ==
  ASSUME Types, HeldOnce, NEW u, NEW v, NEW h, NEW g,
         Linked(Nodes, NULL, u, h, next), Linked(Nodes, NULL, v, g, next),
         Members(u) \cap Members(v) = {}, Members(u) \cup Members(v) = allocated,
         h # NULL, Delete(h)
  PROVE  /\ h \in allocated /\ h \in Nodes /\ next[h] \in Nodes \cup {NULL} /\ Without(u, 1) \in Seq(Nodes)
         /\ Linked(Nodes, NULL, Without(u, 1), next[h], next') /\ Linked(Nodes, NULL, v, g, next')
         /\ Members(Without(u, 1)) \cap Members(v) = {}
         /\ Members(Without(u, 1)) \cup Members(v) = allocated'
         /\ \A m \in Members(v) : m \in allocated \ {h}
<1>1. /\ h \in Members(u) /\ h \in Nodes
      /\ Linked(Nodes, NULL, Without(u, 1), next[h], next)
      /\ Members(Without(u, 1)) = Members(u) \ {h}
  <2>1. /\ next \in [Nodes -> Nodes \cup {NULL}] /\ IsFiniteSet(Nodes) /\ NULL \notin Nodes
        /\ Linked(Nodes, NULL, u, h, next) /\ h # NULL
    BY ListsAssumption DEF Types
  <2> QED
    BY ONLY <2>1, CutFirst
<1>2. next[h] \in Nodes \cup {NULL} /\ h \in allocated
  BY <1>1 DEF Types
<1>3. /\ allocated' = allocated \ {h}
      /\ \A m \in allocated \ {h} : next'[m] = next[m]
  BY <1>2, DeleteHeld
<1>4. Linked(Nodes, NULL, Without(u, 1), next[h], next')
  BY <1>1, <1>3, ChainFrame
<1>5. Linked(Nodes, NULL, v, g, next')
  BY <1>1, <1>3, ChainFrame
<1> QED
  BY <1>1, <1>2, <1>3, <1>4, <1>5 DEF Linked

LEMMA DelOneKeeps ==
  ASSUME NEW s \in Seq(Nodes), NEW t \in Seq(Nodes), InvOf(s, t), DelOne
  PROVE  ListInv'
<1> DEFINE u == Without(s, 1)
<1>1. Types /\ HeldOnce /\ Lists(s, t) /\ Copied(t)
  BY DEF InvOf
<1>2. /\ pc = "idle" /\ heads.list # NULL /\ Delete(heads.list)
      /\ heads' = [heads EXCEPT !.list = next[heads.list]]
      /\ UNCHANGED <<asked, pc, which, lst, node>>
  BY DEF DelOne
<1>3. /\ Linked(Nodes, NULL, s, heads.list, next) /\ Linked(Nodes, NULL, t, heads.copy, next)
      /\ Members(s) \cap Members(t) = {} /\ Members(s) \cup Members(t) = allocated
  BY <1>1, <1>2 DEF Lists, Start
<1>4. /\ heads.list \in allocated /\ next[heads.list] \in Nodes \cup {NULL} /\ u \in Seq(Nodes)
      /\ Linked(Nodes, NULL, u, next[heads.list], next') /\ Linked(Nodes, NULL, t, heads.copy, next')
      /\ Members(u) \cap Members(t) = {} /\ Members(u) \cup Members(t) = allocated'
      /\ \A m \in Members(t) : m \in allocated \ {heads.list}
  <2> HIDE DEF u
  <2> QED
    BY <1>1, <1>2, <1>3, FirstDeleted DEF u
<1> HIDE DEF u
<1>5. /\ HeldOnce'
      /\ content' \in [Nodes -> Contents \cup {NULL}] /\ next' \in [Nodes -> Nodes \cup {NULL}]
      /\ madeFrom' \in [Contents -> Contents \cup {NULL}]
      /\ allocated' = allocated \ {heads.list} /\ live' = live \ {content[heads.list]}
      /\ \A m \in allocated \ {heads.list} :
              /\ content'[m] = content[m]
              /\ content[m] # NULL => madeFrom'[content[m]] = madeFrom[content[m]]
  BY <1>1, <1>2, <1>4, DeleteHeld
<1>6. /\ heads' \in [list : Nodes \cup {NULL}, copy : Nodes \cup {NULL}]
      /\ heads'.list = next[heads.list] /\ heads'.copy = heads.copy
  BY <1>1, <1>2, <1>4 DEF Types
<1>7. Types'
  BY <1>1, <1>2, <1>5, <1>6 DEF Types
<1>8. Lists(u, t)'
  BY <1>2, <1>4, <1>6 DEF Lists, Start
<1>9. Copied(t)'
  BY <1>1, <1>2, <1>4, <1>5, CopiedStays
<1>10. Mapping(u, t)'
  BY <1>2 DEF Mapping
<1> QED
  BY <1>4, <1>5, <1>7, <1>8, <1>9, <1>10 DEF ListInv, InvOf

\* ft_lstmap begins.
LEMMA StartMapKeeps ==
  ASSUME NEW s \in Seq(Nodes), NEW t \in Seq(Nodes), InvOf(s, t), StartMap
  PROVE  ListInv'
<1>1. Types /\ HeldOnce /\ Lists(s, t) /\ Copied(t)
  BY DEF InvOf
<1>2. /\ pc = "idle" /\ heads.list # NULL /\ heads.copy = NULL
      /\ pc' = "map" /\ lst' = heads.list /\ node' = NULL
      /\ asked' = [ k \in 1 .. LstSize(heads.list) |-> content[InOrder(heads.list)[k]] ]
      /\ UNCHANGED <<heads, next, content, allocated, live, madeFrom, which>>
  BY DEF StartMap
<1>3. Linked(Nodes, NULL, s, heads.list, next) /\ Linked(Nodes, NULL, t, heads.copy, next)
  BY <1>1, <1>2 DEF Lists, Start
<1>4. Len(s) # 0 /\ heads.list = s[1] /\ Len(t) = 0 /\ Len(s) \in Nat
  BY <1>2, <1>3, ListsAssumption DEF Linked
<1>5. asked' = [ k \in 1 .. Len(s) |-> content[s[k]] ]
  BY <1>2, <1>3, WalkedIs
<1>6. /\ asked' \in Seq(Contents \cup {NULL}) /\ Len(asked') = Len(s)
      /\ \A k \in 1 .. Len(s) : asked'[k] = content[s[k]]
  <2>1. \A k \in 1 .. Len(s) : content[s[k]] \in Contents \cup {NULL}
    BY <1>1 DEF Types
  <2> QED
    BY <1>4, <1>5, <2>1
<1>7. Types'
  BY <1>1, <1>2, <1>6 DEF Types
<1>8. HeldOnce'
  BY <1>1, <1>2 DEF HeldOnce
<1>9. Lists(s, t)'
  BY <1>1, <1>2 DEF Lists, Start
<1>10. Mapping(s, t)'
  <2>1. /\ Len(t) < Len(s) /\ lst' = s[Len(t) + 1]
        /\ node' = IF Len(t) = 0 THEN NULL ELSE t[Len(t)]
    BY <1>2, <1>4
  <2>2. Len(asked') = Len(s) /\ \A k \in 1 .. Len(s) : asked'[k] = content'[s[k]]
    BY <1>2, <1>6
  <2> QED
    BY <2>1, <2>2 DEF Mapping
<1>11. Copied(t)'
  <2>1. 1 .. Len(t) = {} /\ Len(t) <= Len(asked')
    BY <1>4, <1>6
  <2> QED
    BY <1>2, <2>1 DEF Copied
<1> QED
  BY <1>7, <1>8, <1>9, <1>10, <1>11 DEF ListInv, InvOf

LEMMA StartClearKeeps ==
  ASSUME NEW s \in Seq(Nodes), NEW t \in Seq(Nodes), InvOf(s, t), StartClear
  PROVE  ListInv'
<1>1. Types /\ HeldOnce /\ Lists(s, t) /\ Copied(t)
  BY DEF InvOf
<1>2. PICK l \in {"list", "copy"} :
        /\ pc = "idle" /\ pc' = "clear" /\ which' = l /\ lst' = heads[l]
        /\ UNCHANGED <<heads, next, content, allocated, live, madeFrom, asked, node>>
  BY DEF StartClear
<1>3. heads.list \in Nodes \cup {NULL} /\ heads.copy \in Nodes \cup {NULL}
  BY <1>1 DEF Types
<1>4. Types'
  BY <1>1, <1>2, <1>3 DEF Types
<1>5. HeldOnce'
  BY <1>1, <1>2 DEF HeldOnce
<1>6. Lists(s, t)'
  BY <1>1, <1>2 DEF Lists, Start
<1>7. Mapping(s, t)' /\ Copied(t)'
  BY <1>1, <1>2 DEF Mapping, Copied
<1> QED
  BY <1>4, <1>5, <1>6, <1>7 DEF ListInv, InvOf

\* The allocator refuses ft_lstmap a node.
LEMMA MapRefusedKeeps ==
  ASSUME NEW s \in Seq(Nodes), NEW t \in Seq(Nodes), InvOf(s, t), MapRefused
  PROVE  ListInv'
<1>1. Types /\ HeldOnce /\ Lists(s, t)
  BY DEF InvOf
<1>2. PICK c \in Given :
        /\ pc = "map" /\ live' = live \cup ({c} \ {NULL})
        /\ pc' = "clear" /\ which' = "copy" /\ lst' = heads.copy /\ node' = NULL
        /\ UNCHANGED <<heads, next, content, allocated, madeFrom, asked>>
  BY DEF MapRefused, TakeBack
<1>3. heads.copy \in Nodes \cup {NULL} /\ live' \subseteq Contents
  BY <1>1, <1>2 DEF Types, Given
<1>4. Types'
  BY <1>1, <1>2, <1>3 DEF Types
<1>5. HeldOnce'
  BY <1>1, <1>2 DEF HeldOnce
<1>6. Lists(s, t)'
  BY <1>1, <1>2 DEF Lists, Start
<1>7. Mapping(s, t)' /\ Copied(t)'
  BY <1>2 DEF Mapping, Copied
<1> QED
  BY <1>4, <1>5, <1>6, <1>7 DEF ListInv, InvOf
\* ft_lstmap copies one node.
LEMMA MapNodeKeeps ==
  ASSUME NEW s \in Seq(Nodes), NEW t \in Seq(Nodes), InvOf(s, t), MapNode
  PROVE  ListInv'
<1> PICK n \in Nodes, c \in Given :
      /\ pc = "map" /\ LstNew(n, c) /\ AppendLast(n)
      /\ live' = live \cup ({c} \ {NULL})
      /\ madeFrom' = IF c = NULL THEN madeFrom ELSE [madeFrom EXCEPT ![c] = content[lst]]
      /\ lst' = next[lst]
      /\ \/ next[lst] # NULL /\ node' = n /\ UNCHANGED pc
         \/ next[lst] = NULL /\ node' = NULL /\ pc' = "idle"
      /\ UNCHANGED <<asked, which>>
  BY DEF MapNode
<1> DEFINE u == Append(t, n)
           h == IF Len(t) = 0 THEN n ELSE heads.copy
           k == Len(t) + 1
<1>1. Types /\ HeldOnce /\ Lists(s, t) /\ Copied(t) /\ Mapping(s, t)
  BY DEF InvOf
<1>2. /\ HeldOnce' /\ n \notin allocated
      /\ content' \in [Nodes -> Contents \cup {NULL}] /\ content'[n] = c
      /\ \A m \in Nodes : m # n => content'[m] = content[m]
      /\ allocated' = allocated \cup {n} /\ allocated' \subseteq Nodes
      /\ live' \subseteq Contents
  BY <1>1, NewHeld
<1>3. /\ Linked(Nodes, NULL, s, heads.list, next) /\ Linked(Nodes, NULL, t, heads.copy, next)
      /\ Members(s) \cap Members(t) = {} /\ Members(s) \cup Members(t) = allocated
  BY <1>1 DEF Lists, Start
<1>4. /\ Len(s) \in Nat /\ Len(t) \in Nat /\ k \in 1 .. Len(s) /\ lst = s[k] /\ lst \in Nodes
      /\ node = IF Len(t) = 0 THEN NULL ELSE t[Len(t)]
      /\ Len(asked) = Len(s) /\ asked[k] = content[s[k]]
  BY <1>1, <1>3 DEF Mapping
<1>5. next[lst] = IF k < Len(s) THEN s[k + 1] ELSE NULL
  BY <1>3, <1>4 DEF Linked
<1>6. n \in Nodes \ Members(s) /\ n \in Nodes \ Members(t)
  BY <1>2, <1>3
<1>7. Len(t) # 0 => t[Len(t)] \in Members(t) /\ t[Len(t)] \in Nodes /\ t[Len(t)] # NULL
  BY <1>4, ListsAssumption DEF Members
<1>8. /\ heads' \in [list : Nodes \cup {NULL}, copy : Nodes \cup {NULL}]
      /\ heads'.list = heads.list /\ heads'.copy = h
  BY <1>1, <1>4, <1>7 DEF Types, AppendLast
<1>9. /\ next' \in [Nodes -> Nodes \cup {NULL}] /\ next'[n] = NULL
      /\ Len(t) # 0 => next'[t[Len(t)]] = n
      /\ \A m \in Nodes : m # n /\ (Len(t) # 0 => m # t[Len(t)]) => next'[m] = next[m]
  <2>1. next \in [Nodes -> Nodes \cup {NULL}]
    BY <1>1 DEF Types
  <2>2. CASE Len(t) = 0
    <3>1. next' = [next EXCEPT ![n] = NULL]
      BY <1>4, <2>2 DEF AppendLast
    <3> QED
      BY ONLY <1>6, <2>1, <2>2, <3>1
  <2>3. CASE Len(t) # 0
    <3>1. next' = [next EXCEPT ![t[Len(t)]] = n, ![n] = NULL]
      BY <1>4, <1>7, <2>3 DEF AppendLast
    <3>2. n # t[Len(t)] /\ n \in Nodes
      BY <1>6, <1>7, <2>3
    <3> QED
      BY ONLY <1>7, <2>1, <2>3, <3>1, <3>2
  <2> QED
    BY <2>2, <2>3
<1>10. \A i \in 1 .. Len(t) : i # Len(t) => next'[t[i]] = next[t[i]]
  <2>1. \A i \in 1 .. Len(t) : t[i] \in Nodes /\ t[i] # n /\ (i # Len(t) => t[i] # t[Len(t)])
    BY <1>3, <1>6 DEF Linked, Members
  <2> QED
    BY <1>9, <2>1
<1>11. Linked(Nodes, NULL, u, h, next') /\ Members(u) = Members(t) \cup {n}
  BY <1>3, <1>6, <1>9, <1>10, AppendedChain
<1>12. Linked(Nodes, NULL, s, heads.list, next')
  <2>1. \A m \in Members(s) : m \in Nodes /\ m # n /\ (Len(t) # 0 => m # t[Len(t)])
    BY <1>1, <1>3, <1>6, <1>7 DEF Types
  <2> QED
    BY <1>3, <1>9, <2>1, ChainFrame
<1>13. u \in Seq(Nodes) /\ Len(u) = k /\ u[k] = n /\ \A i \in 1 .. Len(t) : u[i] = t[i]
  BY <1>4
<1> HIDE DEF u
<1>14. pc' \in {"map", "idle"} /\ (pc' = "map" => k < Len(s)) /\ (pc' # "map" => k = Len(s))
  BY <1>4, <1>5, ListsAssumption
<1>15. Lists(s, u)'
  BY <1>2, <1>3, <1>6, <1>8, <1>11, <1>12, <1>14 DEF Lists, Start
<1>16. Types'
  <2>1. madeFrom' \in [Contents -> Contents \cup {NULL}]
    BY <1>1, <1>4 DEF Types
  <2>2. lst' \in Nodes \cup {NULL} /\ node' \in Nodes \cup {NULL}
    BY <1>1, <1>4 DEF Types
  <2> QED
    BY <1>1, <1>2, <1>8, <1>9, <1>14, <2>1, <2>2 DEF Types
<1>17. Mapping(s, u)'
  <2> SUFFICES ASSUME pc' = "map"
               PROVE  /\ Len(u) < Len(s) /\ lst' = s[Len(u) + 1]
                      /\ node' = IF Len(u) = 0 THEN NULL ELSE u[Len(u)]
                      /\ Len(asked') = Len(s) /\ \A i \in 1 .. Len(s) : asked'[i] = content'[s[i]]
    BY DEF Mapping
  <2>1. k < Len(s) /\ lst' = s[k + 1] /\ node' = n
    BY <1>5, <1>14
  <2>2. \A i \in 1 .. Len(s) : s[i] \in Nodes /\ s[i] # n /\ asked[i] = content[s[i]]
    BY <1>1, <1>6 DEF Members, Mapping
  <2>3. \A i \in 1 .. Len(s) : asked'[i] = content'[s[i]]
    BY <1>2, <2>2
  <2> QED
    BY <1>4, <1>13, <2>1, <2>3
<1>18. Copied(u)'
  <2>1. Len(u) <= Len(asked') /\ (pc' # "map" => Len(u) = Len(asked'))
    BY <1>4, <1>13, <1>14
  <2>2. ASSUME NEW i \in 1 .. Len(u), content'[u[i]] # NULL
        PROVE  madeFrom'[content'[u[i]]] = asked'[i]
    <3>1. c \notin live /\ c \in Contents \cup {NULL}
      BY <1>1, ListsAssumption DEF Given, Types
    <3>2. CASE i = k
      <4>1. content'[u[i]] = c /\ c # NULL /\ c \in Contents
        BY <1>2, <1>13, <2>2, <3>1, <3>2
      <4>2. madeFrom'[c] = content[lst]
        BY <1>1, <4>1 DEF Types
      <4> QED
        BY <1>4, <3>2, <4>1, <4>2
    <3>3. CASE i # k
      <4>1. i \in 1 .. Len(t) /\ u[i] = t[i] /\ t[i] \in Members(t)
        BY <1>4, <1>13, <3>3 DEF Members
      <4>2. t[i] \in Nodes /\ t[i] # n /\ t[i] \in allocated /\ content'[t[i]] = content[t[i]]
        BY <1>2, <1>3, <1>6, <4>1
      <4>3. content[t[i]] # c /\ content[t[i]] # NULL
        BY <1>1, <2>2, <3>1, <4>1, <4>2 DEF HeldOnce
      <4>4. madeFrom'[content[t[i]]] = madeFrom[content[t[i]]]
        BY <1>1, <4>3 DEF Types
      <4>5. madeFrom[content[t[i]]] = asked[i]
        BY <1>1, <4>1, <4>3 DEF Copied
      <4> QED
        BY <4>1, <4>2, <4>4, <4>5
    <3> QED
      BY <3>2, <3>3
  <2> QED
    BY <2>1, <2>2 DEF Copied
<1> QED
  BY <1>2, <1>13, <1>15, <1>16, <1>17, <1>18 DEF ListInv, InvOf

\* ft_lstclear deletes one node.
LEMMA ClearNodeKeeps ==
  ASSUME NEW s \in Seq(Nodes), NEW t \in Seq(Nodes), InvOf(s, t), ClearNode
  PROVE  ListInv'
<1>1. Types /\ HeldOnce /\ Lists(s, t) /\ Copied(t)
  BY DEF InvOf
<1>2. /\ pc = "clear" /\ lst # NULL /\ Delete(lst) /\ lst' = next[lst]
      /\ UNCHANGED <<heads, asked, pc, which, node>>
  BY DEF ClearNode
<1>3. ASSUME next[lst] \in Nodes \cup {NULL}, lst \in allocated PROVE Types' /\ HeldOnce'
  <2>1. /\ HeldOnce'
        /\ content' \in [Nodes -> Contents \cup {NULL}] /\ next' \in [Nodes -> Nodes \cup {NULL}]
        /\ madeFrom' \in [Contents -> Contents \cup {NULL}]
        /\ allocated' = allocated \ {lst} /\ live' = live \ {content[lst]}
    BY <1>1, <1>2, <1>3, DeleteHeld
  <2> QED
    BY <1>1, <1>2, <1>3, <2>1 DEF Types
<1>4. CASE which = "list"
  <2> DEFINE u == Without(s, 1)
  <2>1. /\ Linked(Nodes, NULL, s, lst, next) /\ Linked(Nodes, NULL, t, heads.copy, next)
        /\ Members(s) \cap Members(t) = {} /\ Members(s) \cup Members(t) = allocated
    BY <1>1, <1>2, <1>4 DEF Lists, Start
  <2>2. /\ lst \in allocated /\ next[lst] \in Nodes \cup {NULL} /\ u \in Seq(Nodes)
        /\ Linked(Nodes, NULL, u, next[lst], next') /\ Linked(Nodes, NULL, t, heads.copy, next')
        /\ Members(u) \cap Members(t) = {} /\ Members(u) \cup Members(t) = allocated'
        /\ \A m \in Members(t) : m \in allocated \ {lst}
    <3> HIDE DEF u
    <3> QED
      BY <1>1, <1>2, <2>1, FirstDeleted DEF u
  <2> HIDE DEF u
  <2>3. \A m \in allocated \ {lst} :
              /\ content'[m] = content[m]
              /\ content[m] # NULL => madeFrom'[content[m]] = madeFrom[content[m]]
    BY <1>1, <1>2, <2>2, DeleteHeld
  <2>4. Lists(u, t)'
    BY <1>2, <1>4, <2>2 DEF Lists, Start
  <2>5. Copied(t)'
    BY <1>1, <1>2, <2>2, <2>3, CopiedStays
  <2>6. Mapping(u, t)'
    BY <1>2 DEF Mapping
  <2> QED
    BY <1>3, <2>2, <2>4, <2>5, <2>6 DEF ListInv, InvOf
<1>5. CASE which = "copy"
  <2> DEFINE u == Without(t, 1)
  <2>1. /\ Linked(Nodes, NULL, t, lst, next) /\ Linked(Nodes, NULL, s, heads.list, next)
        /\ Members(t) \cap Members(s) = {} /\ Members(t) \cup Members(s) = allocated
    BY <1>1, <1>2, <1>5 DEF Lists, Start
  <2>2. /\ lst \in allocated /\ next[lst] \in Nodes \cup {NULL} /\ u \in Seq(Nodes)
        /\ Linked(Nodes, NULL, u, next[lst], next') /\ Linked(Nodes, NULL, s, heads.list, next')
        /\ Members(u) \cap Members(s) = {} /\ Members(u) \cup Members(s) = allocated'
    <3> HIDE DEF u
    <3> QED
      BY <1>1, <1>2, <2>1, FirstDeleted DEF u
  <2> HIDE DEF u
  <2>3. Lists(s, u)'
    BY <1>2, <1>5, <2>2 DEF Lists, Start
  <2>4. Copied(u)' /\ Mapping(s, u)'
    BY <1>2, <1>5 DEF Copied, Mapping
  <2> QED
    BY <1>3, <2>2, <2>3, <2>4 DEF ListInv, InvOf
<1> QED
  BY <1>1, <1>4, <1>5 DEF Types

\* ft_lstclear returns.
LEMMA ClearEndKeeps ==
  ASSUME NEW s \in Seq(Nodes), NEW t \in Seq(Nodes), InvOf(s, t), ClearEnd
  PROVE  ListInv'
<1>1. Types /\ HeldOnce /\ Lists(s, t) /\ Copied(t)
  BY DEF InvOf
<1>2. /\ pc = "clear" /\ lst = NULL /\ pc' = "idle" /\ which' = "list"
      /\ heads' = [heads EXCEPT ![which] = NULL]
      /\ asked' = IF which = "copy" THEN <<>> ELSE asked
      /\ UNCHANGED <<next, content, allocated, live, madeFrom, lst, node>>
  BY DEF ClearEnd
<1>3. /\ heads' \in [list : Nodes \cup {NULL}, copy : Nodes \cup {NULL}]
      /\ heads'["list"] = IF which = "list" THEN NULL ELSE heads["list"]
      /\ heads'["copy"] = IF which = "copy" THEN NULL ELSE heads["copy"]
  BY <1>1, <1>2 DEF Types
<1>4. Types'
  <2>1. asked' \in Seq(Contents \cup {NULL})
    BY <1>1, <1>2 DEF Types
  <2> QED
    BY <1>1, <1>2, <1>3, <2>1 DEF Types
<1>5. HeldOnce'
  BY <1>1, <1>2 DEF HeldOnce
<1>6. Lists(s, t)'
  BY <1>1, <1>2, <1>3 DEF Lists, Start, Types
<1>7. Copied(t)'
  <2>1. CASE which = "list"
    BY <1>1, <1>2, <2>1 DEF Copied
  <2>2. CASE which = "copy"
    <3>1. Linked(Nodes, NULL, t, NULL, next)
      BY <1>1, <1>2, <2>2 DEF Lists, Start
    <3>2. Len(t) = 0 /\ 1 .. Len(t) = {}
      BY <3>1, ListsAssumption DEF Linked
    <3>3. Len(asked') = 0
      BY <1>2, <2>2
    <3> QED
      BY <1>2, <3>2, <3>3 DEF Copied
  <2> QED
    BY <1>1, <2>1, <2>2 DEF Types
<1>8. Mapping(s, t)'
  BY <1>2 DEF Mapping
<1> QED
  BY <1>4, <1>5, <1>6, <1>7, <1>8 DEF ListInv, InvOf

-----------------------------------------------------------------------------
LEMMA ListInvInit == Init => ListInv
<1> SUFFICES ASSUME Init PROVE ListInv
  OBVIOUS
<1> DEFINE s == <<>>
<1>1. s \in Seq(Nodes) /\ Len(s) = 0 /\ 1 .. Len(s) = {}
  OBVIOUS
<1>2. Types /\ HeldOnce
  BY ListsAssumption DEF Init, Types, HeldOnce
<1> HIDE DEF s
<1>3. Members(s) = {}
  BY <1>1 DEF Members
<1>4. Linked(Nodes, NULL, s, NULL, next)
  BY <1>1 DEF Linked
<1>5. Lists(s, s)
  BY <1>3, <1>4 DEF Lists, Start, Init
<1>6. Mapping(s, s) /\ Copied(s)
  BY <1>1 DEF Mapping, Copied, Init
<1> QED
  BY <1>1, <1>2, <1>5, <1>6 DEF ListInv, InvOf

LEMMA ListInvStep == ListInv /\ [Next]_vars => ListInv'
<1> SUFFICES ASSUME NEW s \in Seq(Nodes), NEW t \in Seq(Nodes), InvOf(s, t), [Next]_vars
             PROVE  ListInv'
  BY DEF ListInv
<1>1. CASE AddFront
  BY <1>1, AddFrontKeeps
<1>2. CASE AddBack
  BY <1>2, AddBackKeeps
<1>3. CASE DelOne
  BY <1>3, DelOneKeeps
<1>4. CASE StartMap
  BY <1>4, StartMapKeeps
<1>5. CASE StartClear
  BY <1>5, StartClearKeeps
<1>6. CASE MapNode
  BY <1>6, MapNodeKeeps
<1>7. CASE MapRefused
  BY <1>7, MapRefusedKeeps
<1>8. CASE ClearNode
  BY <1>8, ClearNodeKeeps
<1>9. CASE ClearEnd
  BY <1>9, ClearEndKeeps
<1>10. CASE UNCHANGED vars
  <2>1. InvOf(s, t)'
    BY <1>10 DEF vars, InvOf, Types, HeldOnce, Lists, Start, Mapping, Copied
  <2> QED
    BY <2>1 DEF ListInv
<1> QED
  BY <1>1, <1>2, <1>3, <1>4, <1>5, <1>6, <1>7, <1>8, <1>9, <1>10 DEF Next, InCall

\* Whatever the client and its f do and whatever malloc refuses: no node is
\* freed twice or lost, and no content deleted that a node still holds.
THEOREM BothListsHold == Spec => []ListsHold
<1> QED
  BY ListInvInit, ListInvStep, InvHolds, PTL DEF Spec

\* A copy that ft_lstmap returned has the nodes of the list, in its order.
THEOREM CopyKeepsOrder == Spec => []MapKeepsOrder
<1> QED
  BY ListInvInit, ListInvStep, InvOrdered, PTL DEF Spec
-----------------------------------------------------------------------------
HeldByNodes == \A x : x \in Held <=> x # NULL /\ \E n \in allocated : content[n] = x

LEMMA HeldMembers == ListInv => HeldByNodes
<1> QED
  BY HeldIs DEF HeldByNodes

LEMMA HeldNow ==
  ASSUME ListInv, ListInv'
  PROVE  HeldByNodes /\ HeldByNodes'
<1> QED
  BY HeldMembers, PTL

\* A content that comes with its node, or goes with it, is not lost.
LEMMA NewNodeLosesNone ==
  ASSUME ListInv, ListInv', NEW n \in Nodes, NEW c \in Given, LstNew(n, c),
         live' = live \cup ({c} \ {NULL})
  PROVE  Lost' \subseteq Lost
<1>1. Types /\ HeldOnce
  BY DEF ListInv, InvOf
<1>2. /\ n \notin allocated /\ allocated' = allocated \cup {n} /\ allocated' \subseteq Nodes
      /\ content'[n] = c /\ \A m \in Nodes : m # n => content'[m] = content[m]
  BY <1>1, NewHeld
<1>3. \A x : x \in Held' <=> x # NULL /\ \E m \in allocated' : content'[m] = x
  BY HeldNow DEF HeldByNodes
<1>4. \A x \in Held : x \in Held'
  BY <1>2, <1>3, HeldNow DEF HeldByNodes
<1>5. c # NULL => c \in Held'
  BY <1>2, <1>3
<1> QED
  BY <1>4, <1>5 DEF Lost

LEMMA DeletedNodeLosesNone ==
  ASSUME ListInv, ListInv', NEW n \in allocated, Delete(n)
  PROVE  Lost' \subseteq Lost
<1>1. Types /\ HeldOnce
  BY DEF ListInv, InvOf
<1>2. /\ allocated' = allocated \ {n} /\ live' = live \ {content[n]}
      /\ \A m \in allocated \ {n} : content'[m] = content[m]
  BY <1>1, DeleteHeld
<1>3. \A x : x \in Held' <=> x # NULL /\ \E m \in allocated' : content'[m] = x
  BY HeldNow DEF HeldByNodes
<1>4. \A x \in Held : x # content[n] => x \in Held'
  BY <1>2, <1>3, HeldNow DEF HeldByNodes
<1> QED
  BY <1>2, <1>4 DEF Lost

\* The first node of what is left of a list.
LEMMA FirstAllocated ==
  ASSUME ListInv, NEW l \in {"list", "copy"}, Start(l) # NULL
  PROVE  Start(l) \in allocated
<1> PICK s \in Seq(Nodes), t \in Seq(Nodes) : Lists(s, t)
  BY DEF ListInv, InvOf
<1>1. Start("list") # NULL => Start("list") \in Members(s)
  BY DEF Lists, Linked, Members
<1>2. Start("copy") # NULL => Start("copy") \in Members(t)
  BY DEF Lists, Linked, Members
<1> QED
  BY <1>1, <1>2 DEF Lists

\* Any other step: the nodes, their contents and what is live stay.
LEMMA NothingMoved ==
  ASSUME ListInv, ListInv', UNCHANGED <<content, allocated, live>>
  PROVE  Lost' = Lost
<1>1. \A x : x \in Held' <=> x # NULL /\ \E m \in allocated' : content'[m] = x
  BY HeldNow DEF HeldByNodes
<1>2. \A x : x \in Held' <=> x \in Held
  BY <1>1, HeldNow DEF HeldByNodes
<1> QED
  BY <1>2 DEF Lost

LEMMA RefusalLosesOne ==
  ASSUME ListInv, ListInv', NEW c \in Given, UNCHANGED <<content, allocated>>,
         live' = live \cup ({c} \ {NULL})
  PROVE  Lost' \ Lost \subseteq {c}
<1>1. \A x : x \in Held' <=> x # NULL /\ \E m \in allocated' : content'[m] = x
  BY HeldNow DEF HeldByNodes
<1>2. \A x : x \in Held' <=> x \in Held
  BY <1>1, HeldNow DEF HeldByNodes
<1> QED
  BY <1>2 DEF Lost

LEMMA StepLosesOne ==
  ASSUME ListInv, ListInv', [Next]_vars
  PROVE  \/ Lost' \subseteq Lost
         \/ pc = "map" /\ pc' = "clear" /\ \E c : Lost' \ Lost \subseteq {c}
<1>1. CASE AddFront \/ AddBack \/ MapNode
  <2>1. PICK n \in Nodes, c \in Given : LstNew(n, c) /\ live' = live \cup ({c} \ {NULL})
    BY <1>1 DEF AddFront, AddBack, MapNode
  <2> QED
    BY <2>1, NewNodeLosesNone
<1>2. CASE DelOne
  <2>1. Start("list") \in allocated /\ Delete(Start("list"))
    BY <1>2, FirstAllocated DEF DelOne, Start
  <2> QED
    BY <2>1, DeletedNodeLosesNone
<1>3. CASE ClearNode
  <2>1. which \in {"list", "copy"} /\ Start(which) = lst
    BY <1>3 DEF ClearNode, Start, ListInv, InvOf, Types
  <2>2. lst \in allocated /\ Delete(lst)
    BY <1>3, <2>1, FirstAllocated DEF ClearNode
  <2> QED
    BY <2>2, DeletedNodeLosesNone
<1>4. CASE StartMap \/ StartClear \/ ClearEnd \/ UNCHANGED vars
  <2>1. UNCHANGED <<content, allocated, live>>
    BY <1>4 DEF StartMap, StartClear, ClearEnd, vars
  <2> QED
    BY <2>1, NothingMoved
<1>5. CASE MapRefused
  <2>1. PICK c \in Given :
          pc = "map" /\ pc' = "clear" /\ live' = live \cup ({c} \ {NULL}) /\ UNCHANGED <<content, allocated>>
    BY <1>5 DEF MapRefused, TakeBack
  <2> QED
    BY <2>1, RefusalLosesOne
<1> QED
  BY <1>1, <1>2, <1>3, <1>4, <1>5 DEF Next, InCall

LEMMA AtMostOne ==
  ASSUME NEW S, NEW c, S \subseteq {c}
  PROVE  Cardinality(S) <= 1
<1>1. S = {} \/ S = {c}
  OBVIOUS
<1>2. Cardinality({}) = 0 /\ Cardinality({c}) = 1
  BY FS_EmptySet, FS_Singleton
<1> QED
  BY <1>1, <1>2

\* No call of the client loses a content, except an ft_lstmap that is refused a
\* node: it loses the one content that it had no node for.
THEOREM LossesAreRefusals == Spec => RefusedNodesLoseOneContent
<1>1. ListInv /\ ListInv' /\ [Next]_vars =>
        /\ Cardinality(Lost' \ Lost) <= 1
        /\ Lost' \subseteq Lost \/ (pc = "map" /\ pc' = "clear")
  <2> SUFFICES ASSUME ListInv, ListInv', [Next]_vars
               PROVE  /\ Cardinality(Lost' \ Lost) <= 1
                      /\ Lost' \subseteq Lost \/ (pc = "map" /\ pc' = "clear")
    OBVIOUS
  <2>1. \/ Lost' \subseteq Lost
        \/ pc = "map" /\ pc' = "clear" /\ \E c : Lost' \ Lost \subseteq {c}
    BY StepLosesOne
  <2>2. Lost' \subseteq Lost => Lost' \ Lost \subseteq {NULL}
    OBVIOUS
  <2> QED
    BY <2>1, <2>2, AtMostOne
<1> QED
  BY <1>1, ListInvInit, ListInvStep, PTL DEF Spec, RefusedNodesLoseOneContent
=============================================================================
