--------------------------- MODULE NodeTreeProofs ---------------------------
(***************************************************************************)
(* Proofs about NodeTree, for any finite set of nodes and any depth of the *)
(* C++ stack: its invariants first, then that it has no loop, then what a  *)
(* step may do.                                                            *)
(***************************************************************************)
EXTENDS NodeTree, FiniteSetTheorems, SequenceTheorems, TLAPS

(***************************************************************************)
(* Removing from a list and inserting into it, as std::vector does.        *)
(***************************************************************************)
LEMMA RemoveAtElements ==
  ASSUME NEW S, NEW s \in Seq(S), NEW k \in 1 .. Len(s)
  PROVE  /\ RemoveAt(s, k) \in Seq(S)
         /\ Len(RemoveAt(s, k)) = Len(s) - 1
         /\ \A i \in 1 .. Len(s) - 1 :
               RemoveAt(s, k)[i] = IF i < k THEN s[i] ELSE s[i + 1]
  <1> DEFINE a == SubSeq(s, 1, k - 1)
             b == SubSeq(s, k + 1, Len(s))
  <1>1. /\ a \in Seq(S) /\ Len(a) = k - 1
        /\ \A i \in 1 .. k - 1 : a[i] = s[i]
    BY SubSeqProperties
  <1>2. /\ b \in Seq(S) /\ Len(b) = Len(s) - k
        /\ \A i \in 1 .. Len(s) - k : b[i] = s[i + k]
    BY SubSeqProperties
  <1>3. /\ a \o b \in Seq(S)
        /\ Len(a \o b) = Len(a) + Len(b)
        /\ \A i \in 1 .. Len(a) + Len(b) :
              (a \o b)[i] = IF i <= Len(a) THEN a[i] ELSE b[i - Len(a)]
    BY <1>1, <1>2, ConcatProperties
  <1> HIDE DEF a, b
  <1>4. RemoveAt(s, k) = a \o b
    BY DEF RemoveAt, a, b
  <1>5. ASSUME NEW i \in 1 .. Len(s) - 1
        PROVE  (a \o b)[i] = IF i < k THEN s[i] ELSE s[i + 1]
    <2>1. /\ Len(s) \in Nat /\ k \in 1 .. Len(s) /\ i \in 1 .. Len(a) + Len(b)
          /\ (a \o b)[i] = IF i <= Len(a) THEN a[i] ELSE b[i - Len(a)]
      BY <1>1, <1>2, <1>3
    <2>2. CASE i < k
      BY <1>1, <2>1, <2>2
    <2>3. CASE ~ (i < k)
      <3>1. i - (k - 1) \in 1 .. Len(s) - k /\ (i - (k - 1)) + k = i + 1
        BY <2>1, <2>3
      <3>2. b[i - (k - 1)] = s[i + 1]
        BY <1>2, <3>1
      <3>3. QED
        BY <1>1, <2>1, <2>3, <3>2
    <2>4. QED
      BY <2>2, <2>3
  <1>6. a \o b \in Seq(S) /\ Len(a \o b) = Len(s) - 1
    BY <1>1, <1>2, <1>3
  <1>7. QED
    BY <1>4, <1>5, <1>6

LEMMA InsertAtElements ==
  ASSUME NEW S, NEW s \in Seq(S), NEW e \in S, NEW k \in 1 .. Len(s) + 1
  PROVE  /\ InsertAt(s, k, e) \in Seq(S)
         /\ Len(InsertAt(s, k, e)) = Len(s) + 1
         /\ \A i \in 1 .. Len(s) + 1 :
               InsertAt(s, k, e)[i] = IF i < k THEN s[i]
                                      ELSE IF i = k THEN e
                                      ELSE s[i - 1]
  <1> DEFINE a == SubSeq(s, 1, k - 1)
             b == SubSeq(s, k, Len(s))
  <1>1. /\ a \in Seq(S) /\ Len(a) = k - 1
        /\ \A i \in 1 .. k - 1 : a[i] = s[i]
    BY SubSeqProperties
  <1>2. /\ b \in Seq(S) /\ Len(b) = Len(s) - k + 1
        /\ \A i \in 1 .. Len(s) - k + 1 : b[i] = s[i + k - 1]
    BY SubSeqProperties
  <1>3. /\ a \o <<e>> \in Seq(S)
        /\ Len(a \o <<e>>) = k
        /\ \A i \in 1 .. k : (a \o <<e>>)[i] = IF i < k THEN s[i] ELSE e
    <2>1. <<e>> \in Seq(S) /\ Len(<<e>>) = 1 /\ <<e>>[1] = e
      OBVIOUS
    <2> HIDE DEF a
    <2>2. QED
      BY <1>1, <2>1, ConcatProperties
  <1> DEFINE c == a \o <<e>>
  <1>4. InsertAt(s, k, e) = c \o b
    BY DEF InsertAt
  <1> HIDE DEF b, c
  <1>5. /\ c \o b \in Seq(S)
        /\ Len(c \o b) = Len(c) + Len(b)
        /\ \A i \in 1 .. Len(c) + Len(b) :
              (c \o b)[i] = IF i <= Len(c) THEN c[i] ELSE b[i - Len(c)]
    BY <1>2, <1>3, ConcatProperties DEF c
  <1>6. Len(c) = k /\ \A i \in 1 .. k : c[i] = IF i < k THEN s[i] ELSE e
    BY <1>3 DEF c
  <1>7. QED
    BY <1>2, <1>4, <1>5, <1>6

LEMMA FrontElements ==
  ASSUME NEW S, NEW s \in Seq(S), s # << >>
  PROVE  /\ Front(s) \in Seq(S)
         /\ Len(Front(s)) = Len(s) - 1
         /\ \A i \in 1 .. Len(s) - 1 : Front(s)[i] = s[i]
  <1> DEFINE last == Len(s) - 1
             front == SubSeq(s, 1, last)
  <1>1. /\ last \in Nat
        /\ \A i \in 1 .. last : s[i] \in S
    OBVIOUS
  <1>2. /\ front \in Seq(S)
        /\ Len(front) = IF 1 <= last THEN last - 1 + 1 ELSE 0
        /\ \A i \in 1 .. last - 1 + 1 : front[i] = s[1 + i - 1]
    <2> HIDE DEF last
    <2>1. QED
      BY <1>1, SubSeqProperties
  <1>3. Front(s) = front
    BY DEF Front
  <1> HIDE DEF front, last
  <1>4. Len(front) = last /\ \A i \in 1 .. last : front[i] = s[i]
    BY <1>1, <1>2
  <1>5. QED
    BY <1>2, <1>3, <1>4 DEF last

(***************************************************************************)
(* What these do to the set of the elements and to their being distinct.   *)
(***************************************************************************)
LEMMA RemoveAtInjective ==
  ASSUME NEW S, NEW s \in Seq(S), IsInjective(s), NEW k \in 1 .. Len(s)
  PROVE  /\ IsInjective(RemoveAt(s, k))
         /\ Range(RemoveAt(s, k)) = Range(s) \ {s[k]}
  <1> DEFINE r == RemoveAt(s, k)
  <1>1. /\ r \in Seq(S) /\ Len(r) = Len(s) - 1
        /\ \A i \in 1 .. Len(s) - 1 : r[i] = IF i < k THEN s[i] ELSE s[i + 1]
    BY RemoveAtElements
  <1> HIDE DEF r
  <1>2. DOMAIN r = 1 .. Len(s) - 1 /\ DOMAIN s = 1 .. Len(s)
    BY <1>1
  <1>3. IsInjective(r)
    <2>1. SUFFICES ASSUME NEW i \in 1 .. Len(s) - 1, NEW j \in 1 .. Len(s) - 1,
                          r[i] = r[j]
                   PROVE  i = j
      BY <1>2 DEF IsInjective
    <2>2. PICK x \in 1 .. Len(s) : r[i] = s[x] /\ x = (IF i < k THEN i ELSE i + 1)
      BY <1>1
    <2>3. PICK y \in 1 .. Len(s) : r[j] = s[y] /\ y = (IF j < k THEN j ELSE j + 1)
      BY <1>1
    <2>4. x = y
      BY <1>2, <2>1, <2>2, <2>3 DEF IsInjective
    <2>5. QED
      BY <2>2, <2>3, <2>4
  <1>4. ASSUME NEW x \in Range(r) PROVE x \in Range(s) \ {s[k]}
    BY <1>1, <1>2, <1>4 DEF Range, IsInjective
  <1>5. ASSUME NEW x \in Range(s) \ {s[k]} PROVE x \in Range(r)
    <2>1. PICK i \in 1 .. Len(s) : x = s[i] /\ i # k
      BY <1>2, <1>5 DEF Range
    <2>2. CASE i < k
      BY <1>1, <1>2, <2>1, <2>2 DEF Range
    <2>3. CASE i > k
      <3>1. i - 1 \in 1 .. Len(s) - 1 /\ r[i - 1] = s[i]
        BY <1>1, <2>1, <2>3
      <3>2. QED
        BY <1>2, <2>1, <3>1 DEF Range
    <2>4. QED
      BY <2>1, <2>2, <2>3
  <1>6. QED
    BY <1>3, <1>4, <1>5 DEF r

LEMMA InsertAtInjective ==
  ASSUME NEW S, NEW s \in Seq(S), IsInjective(s),
         NEW e \in S, e \notin Range(s), NEW k \in 1 .. Len(s) + 1
  PROVE  /\ IsInjective(InsertAt(s, k, e))
         /\ Range(InsertAt(s, k, e)) = Range(s) \cup {e}
  <1> DEFINE r == InsertAt(s, k, e)
  <1>1. /\ r \in Seq(S) /\ Len(r) = Len(s) + 1
        /\ \A i \in 1 .. Len(s) + 1 :
              r[i] = IF i < k THEN s[i] ELSE IF i = k THEN e ELSE s[i - 1]
    BY InsertAtElements
  <1> HIDE DEF r
  <1>2. DOMAIN r = 1 .. Len(s) + 1 /\ DOMAIN s = 1 .. Len(s)
    BY <1>1
  <1>3. \A i \in 1 .. Len(s) : s[i] # e
    BY <1>2 DEF Range
  <1>a. ASSUME NEW i \in 1 .. Len(s) + 1, i # k
        PROVE  r[i] # e
    <2>1. CASE i < k
      <3>1. i \in 1 .. Len(s) /\ r[i] = s[i]
        BY <1>1, <2>1
      <3>2. QED
        BY <1>3, <3>1
    <2>2. CASE i > k
      <3>1. i - 1 \in 1 .. Len(s) /\ r[i] = s[i - 1]
        BY <1>1, <2>2
      <3>2. QED
        BY <1>3, <3>1
    <2>3. QED
      BY <1>a, <2>1, <2>2
  <1>b. r[k] = e
    BY <1>1
  <1>4. IsInjective(r)
    <2>1. SUFFICES ASSUME NEW i \in 1 .. Len(s) + 1, NEW j \in 1 .. Len(s) + 1,
                          r[i] = r[j]
                   PROVE  i = j
      BY <1>2 DEF IsInjective
    <2>2. CASE i = k \/ j = k
      <3>1. CASE i = k
        BY <1>a, <1>b, <2>1, <3>1
      <3>2. CASE j = k
        BY <1>a, <1>b, <2>1, <3>2
      <3>3. QED
        BY <2>2, <3>1, <3>2
    <2>3. CASE i # k /\ j # k
      <3>1. PICK x \in 1 .. Len(s) : r[i] = s[x] /\ x = (IF i < k THEN i ELSE i - 1)
        BY <1>1, <2>3
      <3>2. PICK y \in 1 .. Len(s) : r[j] = s[y] /\ y = (IF j < k THEN j ELSE j - 1)
        BY <1>1, <2>3
      <3>3. x = y
        BY <1>2, <2>1, <3>1, <3>2 DEF IsInjective
      <3>4. QED
        BY <2>3, <3>1, <3>2, <3>3
    <2>4. QED
      BY <2>2, <2>3
  <1>5. ASSUME NEW x \in Range(r) PROVE x \in Range(s) \cup {e}
    <2>1. PICK i \in 1 .. Len(s) + 1 : x = r[i]
      BY <1>2, <1>5 DEF Range
    <2>2. QED
      BY <1>1, <1>2, <2>1 DEF Range
  <1>6. ASSUME NEW x \in Range(s) PROVE x \in Range(r)
    <2>1. PICK i \in 1 .. Len(s) : x = s[i]
      BY <1>2, <1>6 DEF Range
    <2>2. i \in 1 .. Len(s) + 1 /\ i + 1 \in 1 .. Len(s) + 1
      OBVIOUS
    <2>3. r[i] = s[i] \/ r[i + 1] = s[i]
      BY <1>1, <2>2
    <2>4. QED
      BY <1>2, <2>1, <2>2, <2>3 DEF Range
  <1>7. e \in Range(r)
    BY <1>1, <1>2 DEF Range
  <1>8. QED
    BY <1>4, <1>5, <1>6, <1>7 DEF r

-----------------------------------------------------------------------------
(***************************************************************************)
(* What is below a set of nodes: the smallest closed set that contains it. *)
(***************************************************************************)
LEMMA BelowSmallest ==
  ASSUME NEW from \in SUBSET Nodes, NEW kids \in [Nodes -> Seq(Nodes)]
  PROVE  /\ from \subseteq Below(from, kids)
         /\ Below(from, kids) \subseteq Nodes
         /\ Closed(Below(from, kids), kids)
         /\ \A S \in SUBSET Nodes :
               from \subseteq S /\ Closed(S, kids) => Below(from, kids) \subseteq S
  <1>1. ASSUME NEW n \in Below(from, kids), NEW m \in Range(kids[n])
        PROVE  m \in Below(from, kids)
    <2>1. m \in Nodes
      <3>1. kids[n] \in Seq(Nodes)
        BY DEF Below
      <3>2. QED
        BY <1>1, <3>1, RangeOfSeq
    <2>2. QED
      BY <1>1, <2>1 DEF Below, Closed
  <1>2. QED
    BY <1>1 DEF Below, Closed

LEMMA BelowMonotone ==
  ASSUME NEW from \in SUBSET Nodes, NEW more \in SUBSET Nodes, from \subseteq more,
         NEW kids \in [Nodes -> Seq(Nodes)]
  PROVE  Below(from, kids) \subseteq Below(more, kids)
  BY BelowSmallest

\* Emptying the lists of the nodes that are not below changes nothing to what
\* is below.
LEMMA BelowReaped ==
  ASSUME NEW from \in SUBSET Nodes, NEW kids \in [Nodes -> Seq(Nodes)]
  PROVE  Below(from, ReapedChildren(kids, Below(from, kids))) = Below(from, kids)
  <1> DEFINE L == Below(from, kids)
             reaped == ReapedChildren(kids, L)
  <1>1. reaped \in [Nodes -> Seq(Nodes)]
    BY DEF ReapedChildren
  <1>2. /\ from \subseteq L /\ L \subseteq Nodes /\ Closed(L, kids)
        /\ \A S \in SUBSET Nodes : from \subseteq S /\ Closed(S, kids) => L \subseteq S
    BY BelowSmallest
  <1>3. \A n \in Nodes : reaped[n] = IF n \in L THEN kids[n] ELSE << >>
    BY DEF ReapedChildren
  <1> HIDE DEF L, reaped
  <1>4. Closed(L, reaped)
    BY <1>2, <1>3 DEF Closed
  <1>5. ASSUME NEW S \in SUBSET Nodes, from \subseteq S, Closed(S, reaped)
        PROVE  L \subseteq S
    <2>1. Closed(S \cap L, kids)
      BY <1>2, <1>3, <1>5 DEF Closed
    <2>2. QED
      BY <1>2, <1>5, <2>1
  <1>6. Below(from, reaped) \subseteq L
    BY <1>1, <1>2, <1>4, BelowSmallest
  <1>7. L \subseteq Below(from, reaped)
    BY <1>1, <1>5, BelowSmallest
  <1>8. QED
    BY <1>6, <1>7 DEF L, reaped

-----------------------------------------------------------------------------
(***************************************************************************)
(* The functions on trees keep the two directions of the links in agreement. *)
(***************************************************************************)
ValidTree(t) == t \in Tree /\ ValidLinks(t.up, t.kids)

LEMMA TreeRecord ==
  ASSUME NEW up \in [Nodes -> Nodes \cup {NoNode}], NEW kids \in [Nodes -> Seq(Nodes)],
         NEW e \in Exceptions \cup {"none"}
  PROVE  [up |-> up, kids |-> kids, exc |-> e] \in Tree
  BY DEF Tree

LEMMA PositionOfChild ==
  ASSUME NEW t, ValidTree(t), NEW n \in Nodes, t.up[n] # NoNode
  PROVE  LET p == t.up[n] IN
         /\ p \in Nodes
         /\ n \in Range(t.kids[p])
         /\ Position(t.kids, p, n) \in 1 .. Len(t.kids[p])
         /\ t.kids[p][Position(t.kids, p, n)] = n
  <1> DEFINE p == t.up[n]
  <1>1. p \in Nodes /\ n \in Range(t.kids[p]) /\ t.kids[p] \in Seq(Nodes)
    BY DEF ValidTree, ValidLinks, Tree
  <1>2. \E i \in DOMAIN t.kids[p] : t.kids[p][i] = n
    BY <1>1 DEF Range
  <1>3. QED
    BY <1>1, <1>2 DEF Position

LEMMA DetachValid ==
  ASSUME NEW t, ValidTree(t), NEW n \in Nodes
  PROVE  /\ ValidTree(Detach(t, n))
         /\ Detach(t, n).up = [t.up EXCEPT ![n] = NoNode]
         /\ Detach(t, n).exc = t.exc
  <1>1. CASE t.up[n] = NoNode
    BY <1>1 DEF Detach, ValidTree, Tree
  <1>2. CASE t.up[n] # NoNode
    <2> DEFINE p == t.up[n]
               k == Position(t.kids, p, n)
               list == RemoveAt(t.kids[p], k)
               d == Detach(t, n)
    <2>1. /\ p \in Nodes /\ n \in Range(t.kids[p])
          /\ k \in 1 .. Len(t.kids[p]) /\ t.kids[p][k] = n
      BY <1>2, PositionOfChild
    <2>2. t.kids[p] \in Seq(Nodes) /\ IsInjective(t.kids[p])
      BY <2>1 DEF ValidTree, ValidLinks, Tree
    <2>3. /\ list \in Seq(Nodes)
          /\ IsInjective(list)
          /\ Range(list) = Range(t.kids[p]) \ {n}
      BY <2>1, <2>2, RemoveAtElements, RemoveAtInjective
    <2>4. /\ d.kids = [t.kids EXCEPT ![p] = list]
          /\ d.up = [t.up EXCEPT ![n] = NoNode]
          /\ d.exc = t.exc
          /\ d = [up |-> d.up, kids |-> d.kids, exc |-> d.exc]
      BY <1>2 DEF Detach, RemoveLink, ValidTree, Tree
    <2> HIDE DEF list, k, d
    <2>5. d \in Tree
      <3>1. d.kids \in [Nodes -> Seq(Nodes)]
        BY <2>3, <2>4 DEF ValidTree, Tree
      <3>2. d.up \in [Nodes -> Nodes \cup {NoNode}] /\ d.exc \in Exceptions \cup {"none"}
        BY <2>4 DEF ValidTree, Tree
      <3>3. [up |-> d.up, kids |-> d.kids, exc |-> d.exc] \in Tree
        BY <3>1, <3>2, TreeRecord
      <3>4. QED
        BY <2>4, <3>3, Zenon
    <2>6. \A m \in Nodes : IsInjective(d.kids[m])
      BY <2>3, <2>4 DEF ValidTree, ValidLinks, Tree
    <2>7. ASSUME NEW c \in Nodes, NEW m \in Nodes
          PROVE  c \in Range(d.kids[m]) <=> d.up[c] = m
      <3>1. c \in Range(t.kids[m]) <=> t.up[c] = m
        BY DEF ValidTree, ValidLinks
      <3>2. t.up \in [Nodes -> Nodes \cup {NoNode}] /\ t.kids \in [Nodes -> Seq(Nodes)]
        BY DEF ValidTree, Tree
      <3>3. QED
        BY <2>1, <2>3, <2>4, <3>1, <3>2, NodesAssumption
    <2>8. QED
      BY <2>4, <2>5, <2>6, <2>7 DEF d, ValidTree, ValidLinks
  <1>3. QED
    BY <1>1, <1>2

LEMMA AttachValid ==
  ASSUME NEW t, ValidTree(t), NEW n \in Nodes, t.up[n] = NoNode, NEW q \in Nodes,
         NEW index \in 0 .. Len(t.kids[q])
  PROVE  /\ ValidTree(Attach(t, n, q, index))
         /\ Attach(t, n, q, index).exc = t.exc
  <1> DEFINE list == InsertAt(t.kids[q], index + 1, n)
             a == Attach(t, n, q, index)
  <1>1. t.kids[q] \in Seq(Nodes) /\ IsInjective(t.kids[q]) /\ n \notin Range(t.kids[q])
    BY NodesAssumption DEF ValidTree, ValidLinks, Tree
  <1>2. index + 1 \in 1 .. Len(t.kids[q]) + 1
    BY <1>1
  <1>3. /\ list \in Seq(Nodes)
        /\ IsInjective(list)
        /\ Range(list) = Range(t.kids[q]) \cup {n}
    BY <1>1, <1>2, InsertAtElements, InsertAtInjective
  <1>4. /\ a.kids = [t.kids EXCEPT ![q] = list]
        /\ a.up = [t.up EXCEPT ![n] = q]
        /\ a.exc = t.exc
        /\ a = [up |-> a.up, kids |-> a.kids, exc |-> a.exc]
    <2> HIDE DEF list
    <2>1. a = [t EXCEPT !.kids[q] = list, !.up[n] = q]
      BY DEF Attach, list
    <2>2. QED
      BY <2>1 DEF ValidTree, Tree
  <1> HIDE DEF list, a
  <1>5. a \in Tree
    <2>1. a.kids \in [Nodes -> Seq(Nodes)]
      BY <1>3, <1>4 DEF ValidTree, Tree
    <2>2. a.up \in [Nodes -> Nodes \cup {NoNode}] /\ a.exc \in Exceptions \cup {"none"}
      BY <1>4 DEF ValidTree, Tree
    <2>3. [up |-> a.up, kids |-> a.kids, exc |-> a.exc] \in Tree
      BY <2>1, <2>2, TreeRecord
    <2>4. QED
      BY <1>4, <2>3, Zenon
  <1>6. \A m \in Nodes : IsInjective(a.kids[m])
    BY <1>3, <1>4 DEF ValidTree, ValidLinks, Tree
  <1>7. ASSUME NEW c \in Nodes, NEW m \in Nodes
        PROVE  c \in Range(a.kids[m]) <=> a.up[c] = m
    <2>1. c \in Range(t.kids[m]) <=> t.up[c] = m
      BY DEF ValidTree, ValidLinks
    <2>2. t.up \in [Nodes -> Nodes \cup {NoNode}] /\ t.kids \in [Nodes -> Seq(Nodes)]
      BY DEF ValidTree, Tree
    <2>3. QED
      BY <1>3, <1>4, <2>1, <2>2, NodesAssumption
  <1>8. QED
    BY <1>4, <1>5, <1>6, <1>7 DEF a, ValidTree, ValidLinks

\* A tree the actions may start from or leave behind.
Sound(t) == ValidTree(t) /\ t.exc # "internal_error"

LEMMA RaiseSound ==
  ASSUME NEW t, Sound(t), NEW e \in Exceptions \ {"internal_error"}
  PROVE  Sound(Raise(t, e))
  <1>1. /\ Raise(t, e).up = t.up
        /\ Raise(t, e).kids = t.kids
        /\ Raise(t, e).exc = e
        /\ Raise(t, e) \in Tree
    BY DEF Sound, ValidTree, Tree, Raise
  <1>2. QED
    BY <1>1 DEF Sound, ValidTree

LEMMA AttachAtSound ==
  ASSUME NEW t, Sound(t), NEW n \in Nodes, t.up[n] = NoNode,
         NEW q \in Nodes \cup {NoNode}, NEW index \in Int, index >= -1
  PROVE  Sound(AttachAt(t, n, q, index))
  <1>1. CASE q = NoNode
    BY <1>1 DEF AttachAt
  <1>2. CASE q # NoNode
    <2>1. q \in Nodes /\ Len(t.kids[q]) \in Nat
      BY <1>2 DEF Sound, ValidTree, Tree
    <2>2. CASE index = -1
      BY <1>2, <2>1, <2>2, AttachValid DEF AttachAt, Sound
    <2>3. CASE index # -1 /\ index > Len(t.kids[q])
      BY <1>2, <2>3, RaiseSound DEF AttachAt, Exceptions
    <2>4. CASE index # -1 /\ ~ (index > Len(t.kids[q]))
      <3>1. index \in 0 .. Len(t.kids[q])
        BY <2>1, <2>4
      <3>2. QED
        BY <1>2, <2>1, <2>4, <3>1, AttachValid DEF AttachAt, Sound
    <2>5. QED
      BY <2>2, <2>3, <2>4
  <1>3. QED
    BY <1>1, <1>2

\* set_parent() keeps the two directions of the links in agreement, whether it
\* returns or throws, and never throws internal_error.
LEMMA SetParentSound ==
  ASSUME NEW t, Sound(t), NEW lk, NEW n \in Nodes, NEW q \in Nodes \cup {NoNode},
         NEW index \in Int, index >= -1
  PROVE  Sound(SetParent(t, lk, n, q, index))
  <1> DEFINE p == t.up[n]
             d == Detach(t, n)
  <1>1. Sound(Raise(t, "locked_node")) /\ Sound(Raise(t, "incompatible_type"))
    BY RaiseSound DEF Exceptions
  <1>2. ~ (p # NoNode /\ n \notin Range(t.kids[p]))
    BY PositionOfChild DEF Sound
  <1>3. Sound(d) /\ d.up[n] = NoNode
    <2>1. ValidTree(d) /\ d.up = [t.up EXCEPT ![n] = NoNode] /\ d.exc = t.exc
      BY DetachValid DEF Sound
    <2>2. t.up \in [Nodes -> Nodes \cup {NoNode}]
      BY DEF Sound, ValidTree, Tree
    <2>3. QED
      BY <2>1, <2>2 DEF Sound
  <1> HIDE DEF d
  <1>4. Sound(AttachAt(d, n, q, index))
    BY <1>3, AttachAtSound
  <1>5. QED
    BY <1>1, <1>2, <1>4 DEF SetParent, d

LEMMA DeleteChildSound ==
  ASSUME NEW t, Sound(t), NEW lk, NEW p \in Nodes, NEW index \in Int
  PROVE  Sound(DeleteChild(t, lk, p, index))
  <1>1. CASE index \notin 0 .. Len(t.kids[p]) - 1
    BY <1>1, RaiseSound DEF DeleteChild, Exceptions
  <1>2. CASE index \in 0 .. Len(t.kids[p]) - 1
    <2>1. t.kids[p][index + 1] \in Nodes
      BY <1>2 DEF Sound, ValidTree, Tree
    <2>2. QED
      BY <1>2, <2>1, SetParentSound DEF DeleteChild
  <1>3. QED
    BY <1>1, <1>2

LEMMA InsertChildSound ==
  ASSUME NEW t, Sound(t), NEW lk, NEW p \in Nodes, NEW index \in Int, index >= -1,
         NEW c \in Nodes \cup {NoNode}
  PROVE  Sound(InsertChild(t, lk, p, index, c))
  <1>1. Sound(Raise(t, "invalid_data"))
    BY RaiseSound DEF Exceptions
  <1>2. c # NoNode => Sound(SetParent(t, lk, c, p, index))
    BY SetParentSound
  <1>3. QED
    BY <1>1, <1>2 DEF InsertChild

LEMMA SetChildSound ==
  ASSUME NEW t, Sound(t), NEW lk, NEW p \in Nodes, NEW index \in Int, index >= -1,
         NEW c \in Nodes \cup {NoNode}
  PROVE  Sound(SetChild(t, lk, p, index, c))
  <1>1. Sound(Raise(t, "invalid_data"))
    BY RaiseSound DEF Exceptions
  <1>2. Sound(DeleteChild(t, lk, p, index))
    BY DeleteChildSound
  <1>3. Sound(InsertChild(DeleteChild(t, lk, p, index), lk, p, index, c))
    BY <1>2, InsertChildSound
  <1>4. QED
    BY <1>1, <1>2, <1>3 DEF SetChild

LEMMA ReplaceWithSound ==
  ASSUME NEW t, Sound(t), NEW lk, NEW n \in Nodes, NEW c \in Nodes \cup {NoNode}
  PROVE  Sound(ReplaceWith(t, lk, n, c))
  <1> DEFINE p == t.up[n]
  <1>1. Sound(Raise(t, "invalid_data")) /\ Sound(Raise(t, "no_parent"))
    BY RaiseSound DEF Exceptions
  <1>2. ASSUME p # NoNode
        PROVE  /\ n \in Range(t.kids[p])
               /\ Sound(SetChild(t, [lk EXCEPT ![p] = 0], p, Offset(t, n), c))
    <2>1. /\ p \in Nodes /\ n \in Range(t.kids[p])
          /\ Position(t.kids, p, n) \in 1 .. Len(t.kids[p])
      BY <1>2, PositionOfChild DEF Sound
    <2>2. Offset(t, n) \in Int /\ Offset(t, n) >= -1
      BY <2>1 DEF Offset
    <2>3. QED
      BY <2>1, <2>2, SetChildSound
  <1>3. QED
    BY <1>1, <1>2 DEF ReplaceWith

-----------------------------------------------------------------------------
(***************************************************************************)
(* Destroying what nothing refers to any more.                             *)
(***************************************************************************)
LEMMA OwnersAreNodes ==
  ASSUME NEW hd \in SUBSET Nodes, NEW gs \in Seq(Nodes \cup {NoNode})
  PROVE  Owners(hd, gs) \in SUBSET Nodes
  BY RangeOfSeq DEF Owners

LEMMA SettleSound ==
  ASSUME TypeOK, NEW t, Sound(t), NEW hd \in SUBSET Nodes,
         NEW gs \in Seq(Nodes \cup {NoNode}), Settle(t, hd, gs)
  PROVE  /\ type' \in [Nodes -> AllKinds]
         /\ parent' \in [Nodes -> Nodes \cup {NoNode}]
         /\ children' \in [Nodes -> Seq(Nodes)]
         /\ held' \subseteq Nodes
         /\ guards' \in Seq(Nodes \cup {NoNode})
         /\ LinksAgree'
         /\ Alive' = Live(hd, gs, t.kids)
         /\ \A n \in Nodes \ Alive' :
               /\ parent'[n] = NoNode /\ children'[n] = << >>
               /\ \A m \in Nodes : parent'[m] # n
  <1> DEFINE L == Live(hd, gs, t.kids)
  <1>1. Owners(hd, gs) \in SUBSET Nodes
    BY OwnersAreNodes
  <1>2. t.up \in [Nodes -> Nodes \cup {NoNode}] /\ t.kids \in [Nodes -> Seq(Nodes)]
    BY DEF Sound, ValidTree, Tree
  <1>3. L \subseteq Nodes /\ Closed(L, t.kids)
    BY <1>1, <1>2, BelowSmallest DEF Live
  <1>4. /\ type' = ReapedType(L)
        /\ parent' = ReapedParent(t.up, L)
        /\ children' = ReapedChildren(t.kids, L)
        /\ held' = hd
        /\ guards' = gs
    BY DEF Settle
  <1>5. Alive' = L
    <2>1. Alive' = Live(hd, gs, children')
      BY <1>4 DEF Alive
    <2>2. QED
      BY <1>1, <1>2, <1>4, <2>1, BelowReaped DEF Live
  <1> HIDE DEF L
  <1>6. type' \in [Nodes -> AllKinds]
    BY <1>4 DEF TypeOK, ReapedType, AllKinds
  <1>7. /\ parent' \in [Nodes -> Nodes \cup {NoNode}]
        /\ children' \in [Nodes -> Seq(Nodes)]
        /\ \A n \in Nodes : /\ parent'[n] = IF n \in L /\ t.up[n] \in L THEN t.up[n] ELSE NoNode
                            /\ children'[n] = IF n \in L THEN t.kids[n] ELSE << >>
    BY <1>2, <1>4 DEF ReapedParent, ReapedChildren
  <1>8. LinksAgree'
    <2>1. ASSUME NEW p \in Nodes PROVE IsInjective(children'[p])
      <3>1. IsInjective(t.kids[p])
        BY DEF Sound, ValidTree, ValidLinks
      <3>2. IsInjective(<< >>)
        BY DEF IsInjective
      <3>3. QED
        BY <1>7, <3>1, <3>2
    <2>2. ASSUME NEW c \in Nodes, NEW p \in Nodes
          PROVE  c \in Range(children'[p]) <=> parent'[c] = p
      <3>1. c \in Range(t.kids[p]) <=> t.up[c] = p
        BY DEF Sound, ValidTree, ValidLinks
      <3>2. Range(<< >>) = {}
        BY DEF Range
      <3>3. CASE p \in L
        <4>1. c \in Range(t.kids[p]) => c \in L
          BY <1>3, <3>3 DEF Closed
        <4>2. QED
          BY <1>7, <3>1, <3>3, <4>1, NodesAssumption
      <3>4. CASE p \notin L
        BY <1>7, <3>1, <3>2, <3>4, NodesAssumption
      <3>5. QED
        BY <3>3, <3>4
    <2>3. QED
      BY <2>1, <2>2 DEF LinksAgree, ValidLinks
  <1>9. \A n \in Nodes \ Alive' :
           /\ parent'[n] = NoNode /\ children'[n] = << >>
           /\ \A m \in Nodes : parent'[m] # n
    BY <1>5, <1>7, NodesAssumption
  <1>10. QED
    BY <1>4, <1>5, <1>6, <1>7, <1>8, <1>9 DEF L

-----------------------------------------------------------------------------
(***************************************************************************)
(* Counting the node_lock objects of a node.                               *)
(***************************************************************************)
GuardsOf(gs, n) == {i \in DOMAIN gs : gs[i] = n}

LEMMA GuardsFinite ==
  ASSUME NEW gs \in Seq(Nodes \cup {NoNode}), NEW n
  PROVE  /\ IsFiniteSet(GuardsOf(gs, n))
         /\ Cardinality(GuardsOf(gs, n)) \in Nat
  <1>1. IsFiniteSet(1 .. Len(gs))
    BY FS_Interval
  <1>2. GuardsOf(gs, n) \in SUBSET (1 .. Len(gs))
    BY DEF GuardsOf
  <1>3. QED
    BY <1>1, <1>2, FS_Subset, FS_CardinalityType

LEMMA GuardsOfAppend ==
  ASSUME NEW gs \in Seq(Nodes \cup {NoNode}), NEW m \in Nodes \cup {NoNode}, NEW n \in Nodes
  PROVE  Cardinality(GuardsOf(Append(gs, m), n)) =
           Cardinality(GuardsOf(gs, n)) + (IF m = n THEN 1 ELSE 0)
  <1>1. CASE m = n
    <2>1. /\ GuardsOf(Append(gs, m), n) = GuardsOf(gs, n) \cup {Len(gs) + 1}
          /\ Len(gs) + 1 \notin GuardsOf(gs, n)
      BY <1>1 DEF GuardsOf
    <2>2. QED
      BY <1>1, <2>1, GuardsFinite, FS_AddElement
  <1>2. CASE m # n
    <2>1. GuardsOf(Append(gs, m), n) = GuardsOf(gs, n)
      BY <1>2 DEF GuardsOf
    <2>2. Cardinality(GuardsOf(gs, n)) \in Nat
      BY GuardsFinite
    <2>3. QED
      BY <1>2, <2>1, <2>2
  <1>3. QED
    BY <1>1, <1>2

LEMMA GuardsOfUnlocked ==
  ASSUME NEW gs \in Seq(Nodes \cup {NoNode}), NEW i \in DOMAIN gs, NEW n \in Nodes
  PROVE  Cardinality(GuardsOf(Unlocked(gs, i), n)) =
           Cardinality(GuardsOf(gs, n)) - (IF gs[i] = n THEN 1 ELSE 0)
  <1>1. GuardsOf(Unlocked(gs, i), n) = GuardsOf(gs, n) \ {i}
    BY NodesAssumption DEF GuardsOf, Unlocked
  <1>2. i \in GuardsOf(gs, n) <=> gs[i] = n
    BY DEF GuardsOf
  <1>3. IsFiniteSet(GuardsOf(gs, n)) /\ Cardinality(GuardsOf(gs, n)) \in Nat
    BY GuardsFinite
  <1>4. Cardinality(GuardsOf(gs, n) \ {i}) =
          IF i \in GuardsOf(gs, n) THEN Cardinality(GuardsOf(gs, n)) - 1
          ELSE Cardinality(GuardsOf(gs, n))
    BY <1>3, FS_RemoveElement
  <1>5. QED
    BY <1>1, <1>2, <1>3, <1>4

LEMMA GuardsOfFront ==
  ASSUME NEW gs \in Seq(Nodes \cup {NoNode}), gs # << >>, NEW n \in Nodes
  PROVE  /\ Front(gs) \in Seq(Nodes \cup {NoNode})
         /\ Last(gs) \in Nodes \cup {NoNode}
         /\ Cardinality(GuardsOf(Front(gs), n)) =
              Cardinality(GuardsOf(gs, n)) - (IF Last(gs) = n THEN 1 ELSE 0)
  <1>1. /\ Front(gs) \in Seq(Nodes \cup {NoNode})
        /\ Len(Front(gs)) = Len(gs) - 1
        /\ \A i \in 1 .. Len(gs) - 1 : Front(gs)[i] = gs[i]
    BY FrontElements
  <1>2. Len(gs) \in 1 .. Len(gs) /\ Last(gs) = gs[Len(gs)]
    BY DEF Last
  <1>3. GuardsOf(Front(gs), n) = GuardsOf(gs, n) \ {Len(gs)}
    BY <1>1, <1>2 DEF GuardsOf
  <1>4. Len(gs) \in GuardsOf(gs, n) <=> Last(gs) = n
    BY <1>2 DEF GuardsOf
  <1>5. IsFiniteSet(GuardsOf(gs, n)) /\ Cardinality(GuardsOf(gs, n)) \in Nat
    BY GuardsFinite
  <1>6. Cardinality(GuardsOf(gs, n) \ {Len(gs)}) =
          IF Len(gs) \in GuardsOf(gs, n) THEN Cardinality(GuardsOf(gs, n)) - 1
          ELSE Cardinality(GuardsOf(gs, n))
    BY <1>5, FS_RemoveElement
  <1>7. QED
    BY <1>1, <1>2, <1>3, <1>4, <1>5, <1>6

\* The f_node of a node_lock owns its node.
LEMMA UnownedHasNoGuard ==
  ASSUME NEW hd \in SUBSET Nodes, NEW gs \in Seq(Nodes \cup {NoNode}),
         NEW kids \in [Nodes -> Seq(Nodes)], NEW n \in Nodes \ Live(hd, gs, kids)
  PROVE  Cardinality(GuardsOf(gs, n)) = 0
  <1>1. Owners(hd, gs) \subseteq Live(hd, gs, kids)
    BY OwnersAreNodes, BelowSmallest DEF Live
  <1>2. GuardsOf(gs, n) = {}
    BY <1>1, NodesAssumption DEF GuardsOf, Owners, Range
  <1>3. QED
    BY <1>2, FS_EmptySet

-----------------------------------------------------------------------------
(***************************************************************************)
(* The inductive invariant.                                                *)
(***************************************************************************)
LEMMA CurrentTreeSound ==
  ASSUME IInv
  PROVE  Sound(CurrentTree)
  BY DEF IInv, TypeOK, LinksAgree, Sound, ValidTree, CurrentTree, Tree, Exceptions

LEMMA AliveAreNodes ==
  ASSUME TypeOK
  PROVE  Alive \subseteq Nodes
  BY OwnersAreNodes, BelowSmallest DEF TypeOK, Alive, Live

\* The locks are right and the nodes destroyed by a step were not locked, as
\* soon as the counters agree with the node_lock objects after it.
LEMMA SettledInv ==
  ASSUME TypeOK, NEW t, Sound(t), NEW hd \in SUBSET Nodes,
         NEW gs \in Seq(Nodes \cup {NoNode}), Settle(t, hd, gs),
         lock' \in [Nodes -> Nat],
         \A n \in Nodes : lock'[n] = Cardinality(GuardsOf(gs, n)),
         exc' \in (Exceptions \cup {"none"}) \ {"internal_error"},
         cleaning' \in Seq(Frame)
  PROVE  IInv'
  <1>1. /\ TypeOK'
        /\ LinksAgree'
        /\ Alive' = Live(hd, gs, t.kids)
        /\ \A n \in Nodes \ Alive' :
              /\ parent'[n] = NoNode /\ children'[n] = << >>
              /\ \A m \in Nodes : parent'[m] # n
    BY SettleSound DEF TypeOK
  <1>2. LocksBalanced'
    BY DEF LocksBalanced, Settle, GuardsOf
  <1>3. ASSUME NEW n \in Nodes \ Alive'
        PROVE  lock'[n] = 0
    <2>1. t.kids \in [Nodes -> Seq(Nodes)] /\ n \in Nodes \ Live(hd, gs, t.kids)
      BY <1>1 DEF Sound, ValidTree, Tree
    <2>2. Cardinality(GuardsOf(gs, n)) = 0
      BY <2>1, UnownedHasNoGuard
    <2>3. QED
      BY <2>2
  <1>4. NeverInternalError'
    BY DEF NeverInternalError
  <1>5. QED
    BY <1>1, <1>2, <1>3, <1>4 DEF IInv, NeverDestroyedLocked

LEMMA FinishInv ==
  ASSUME IInv, NEW t, Sound(t), Finish(t), cleaning' \in Seq(Frame)
  PROVE  IInv'
  <1>1. t.exc \in (Exceptions \cup {"none"}) \ {"internal_error"}
    BY DEF Sound, ValidTree, Tree
  <1>2. lock' \in [Nodes -> Nat] /\ \A n \in Nodes : lock'[n] = Cardinality(GuardsOf(guards, n))
    BY DEF Finish, IInv, TypeOK, LocksBalanced, GuardsOf
  <1>3. QED
    BY <1>1, <1>2, SettledInv DEF Finish, IInv, TypeOK

\* A step that leaves the links alone, and loses no pointer.
LEMMA SameLinksInv ==
  ASSUME IInv, UNCHANGED <<parent, children>>,
         Owners(held, guards) \subseteq Owners(held', guards'),
         TypeOK', LocksBalanced', NeverInternalError'
  PROVE  IInv'
  <1>1. Alive \subseteq Alive'
    <2>1. /\ Owners(held, guards) \in SUBSET Nodes
          /\ Owners(held', guards') \in SUBSET Nodes
          /\ children \in [Nodes -> Seq(Nodes)]
      BY OwnersAreNodes DEF TypeOK, IInv
    <2>2. QED
      BY <2>1, BelowMonotone DEF Alive, Live
  <1>2. LinksAgree'
    BY DEF IInv, LinksAgree, ValidLinks
  <1>3. ASSUME NEW n \in Nodes \ Alive'
        PROVE  /\ lock'[n] = 0
               /\ parent'[n] = NoNode /\ children'[n] = << >>
               /\ \A m \in Nodes : parent'[m] # n
    <2>1. Cardinality(GuardsOf(guards', n)) = 0
      BY <1>3, UnownedHasNoGuard DEF Alive, TypeOK
    <2>2. lock'[n] = 0
      BY <2>1 DEF LocksBalanced, GuardsOf
    <2>3. QED
      BY <1>1, <2>2 DEF IInv, NeverDestroyedLocked
  <1>4. QED
    BY <1>2, <1>3 DEF IInv, NeverDestroyedLocked

LEMMA CallsInv ==
  ASSUME IInv,
         \/ \E n \in Alive, q \in Alive \cup {NoNode}, i \in Indexes : CallSetParent(n, q, i)
         \/ \E p \in Alive, c \in Alive \cup {NoNode}, i \in Indexes : CallInsertChild(p, i, c)
         \/ \E p \in Alive, i \in Indexes : CallDeleteChild(p, i)
         \/ \E p \in Alive, c \in Alive \cup {NoNode}, i \in Indexes : CallSetChild(p, i, c)
         \/ \E n \in Alive, c \in Alive \cup {NoNode} : CallReplaceWith(n, c)
  PROVE  IInv'
  <1> USE AliveAreNodes, CurrentTreeSound DEF IInv
  <1>0. /\ \A i \in Indexes : i \in Int /\ i >= -1
        /\ UNCHANGED cleaning => cleaning' \in Seq(Frame)
    BY DEF Indexes, TypeOK
  <1>1. ASSUME NEW n \in Alive, NEW q \in Alive \cup {NoNode}, NEW i \in Indexes,
               CallSetParent(n, q, i)
        PROVE  IInv'
    <2>1. Sound(SetParent(CurrentTree, lock, n, q, i))
      BY <1>0, SetParentSound
    <2>2. QED
      BY <1>0, <1>1, <2>1, FinishInv DEF CallSetParent
  <1>2. ASSUME NEW p \in Alive, NEW c \in Alive \cup {NoNode}, NEW i \in Indexes,
               CallInsertChild(p, i, c)
        PROVE  IInv'
    <2>1. Sound(InsertChild(CurrentTree, lock, p, i, c))
      BY <1>0, InsertChildSound
    <2>2. QED
      BY <1>0, <1>2, <2>1, FinishInv DEF CallInsertChild
  <1>3. ASSUME NEW p \in Alive, NEW i \in Indexes, CallDeleteChild(p, i)
        PROVE  IInv'
    <2>1. Sound(DeleteChild(CurrentTree, lock, p, i))
      BY <1>0, DeleteChildSound
    <2>2. QED
      BY <1>0, <1>3, <2>1, FinishInv DEF CallDeleteChild
  <1>4. ASSUME NEW p \in Alive, NEW c \in Alive \cup {NoNode}, NEW i \in Indexes,
               CallSetChild(p, i, c)
        PROVE  IInv'
    <2>1. Sound(SetChild(CurrentTree, lock, p, i, c))
      BY <1>0, SetChildSound
    <2>2. QED
      BY <1>0, <1>4, <2>1, FinishInv DEF CallSetChild
  <1>5. ASSUME NEW n \in Alive, NEW c \in Alive \cup {NoNode}, CallReplaceWith(n, c)
        PROVE  IInv'
    <2>1. Sound(ReplaceWith(CurrentTree, lock, n, c))
      BY <1>0, ReplaceWithSound
    <2>2. QED
      BY <1>0, <1>5, <2>1, FinishInv DEF CallReplaceWith
  <1>6. QED
    BY <1>1, <1>2, <1>3, <1>4, <1>5

LEMMA CleaningInv ==
  ASSUME IInv,
         \/ \E n \in Nodes : CallCleanTree(n)
         \/ CleanChild
         \/ CleanReturn
  PROVE  IInv'
  <1>0. TypeOK
    BY DEF IInv
  <1>1. ASSUME NEW n \in Nodes, CallCleanTree(n) PROVE IInv'
    <2>1. << [node |-> n, idx |-> CleanFrom(n)] >> \in Seq(Frame)
      BY <1>0 DEF TypeOK, Frame, CleanFrom
    <2>2. TypeOK' /\ LocksBalanced' /\ NeverInternalError'
      BY <1>1, <2>1 DEF CallCleanTree, IInv, TypeOK, LocksBalanced, NeverInternalError
    <2>3. QED
      BY <1>1, <2>2, SameLinksInv DEF CallCleanTree
  <1>2. ASSUME CleanChild PROVE IInv'
    <2>1. PICK c \in Nodes :
             /\ c = children[Top.node][Top.idx]
             /\ \/ /\ type[c] = "unknown"
                   /\ Finish(DeleteChild(CurrentTree, lock, Top.node, ChildIndex))
                   /\ cleaning' = IF exc' = "none" THEN NextTurn ELSE << >>
                \/ /\ type[c] # "unknown"
                   /\ cleaning' = Append(NextTurn, [node |-> c, idx |-> CleanFrom(c)])
                   /\ UNCHANGED <<type, parent, children, lock, held, guards, exc>>
      BY <1>2 DEF CleanChild
    <2>2. Len(cleaning) \in 1 .. Len(cleaning) /\ Top \in Frame /\ Top.idx > 0
      BY <1>0, <1>2 DEF CleanChild, TypeOK, Top
    <2>3. NextTurn \in Seq(Frame)
      <3>1. [Top EXCEPT !.idx = @ - 1] \in Frame
        BY <2>2 DEF Frame
      <3>2. NextTurn = [cleaning EXCEPT ![Len(cleaning)] = [Top EXCEPT !.idx = @ - 1]]
        BY <1>0, <2>2 DEF NextTurn, Top, TypeOK
      <3>3. QED
        BY <1>0, <2>2, <3>1, <3>2 DEF TypeOK
    <2>4. CASE type[c] = "unknown"
      <3>1. Top.node \in Nodes /\ ChildIndex \in Int
        BY <2>2 DEF Frame, ChildIndex
      <3>2. Sound(DeleteChild(CurrentTree, lock, Top.node, ChildIndex))
        BY <3>1, CurrentTreeSound, DeleteChildSound
      <3>3. cleaning' \in Seq(Frame)
        <4>1. cleaning' = NextTurn \/ cleaning' = << >>
          BY <2>1, <2>4
        <4>2. << >> \in Seq(Frame)
          OBVIOUS
        <4>3. QED
          BY <2>3, <4>1, <4>2
      <3>4. QED
        BY <2>1, <2>4, <3>2, <3>3, FinishInv
    <2>5. CASE type[c] # "unknown"
      <3>1. [node |-> c, idx |-> CleanFrom(c)] \in Frame
        BY <1>0 DEF TypeOK, Frame, CleanFrom
      <3>2. cleaning' \in Seq(Frame)
        BY <2>1, <2>3, <2>5, <3>1
      <3>3. TypeOK' /\ LocksBalanced' /\ NeverInternalError'
        BY <2>1, <2>5, <3>2 DEF IInv, TypeOK, LocksBalanced, NeverInternalError
      <3>4. QED
        BY <2>1, <2>5, <3>3, SameLinksInv
    <2>6. QED
      BY <2>4, <2>5
  <1>3. ASSUME CleanReturn PROVE IInv'
    <2>1. cleaning' \in Seq(Frame)
      BY <1>0, <1>3, FrontElements DEF CleanReturn, TypeOK
    <2>2. TypeOK' /\ LocksBalanced' /\ NeverInternalError'
      BY <1>3, <2>1 DEF CleanReturn, IInv, TypeOK, LocksBalanced, NeverInternalError
    <2>3. QED
      BY <1>3, <2>2, SameLinksInv DEF CleanReturn
  <1>4. QED
    BY <1>1, <1>2, <1>3

LEMMA PointersInv ==
  ASSUME IInv,
         \/ \E n \in Alive : ToUnknown(n)
         \/ \E n \in Nodes, k \in Kinds : Create(n, k)
         \/ \E n \in Nodes : Hold(n)
         \/ \E n \in Nodes : Drop(n)
         \/ Catch
  PROVE  IInv'
  <1>0. TypeOK /\ Alive \subseteq Nodes /\ Sound(CurrentTree)
    BY AliveAreNodes, CurrentTreeSound DEF IInv
  <1>1. ASSUME NEW n \in Alive, ToUnknown(n) PROVE IInv'
    <2>1. TypeOK' /\ LocksBalanced' /\ NeverInternalError'
      BY <1>0, <1>1 DEF ToUnknown, IInv, TypeOK, LocksBalanced, NeverInternalError,
                        AllKinds, Exceptions
    <2>2. QED
      BY <1>1, <2>1, SameLinksInv DEF ToUnknown
  <1>2. ASSUME NEW n \in Nodes, NEW k \in Kinds, Create(n, k) PROVE IInv'
    <2>1. TypeOK' /\ LocksBalanced' /\ NeverInternalError'
      BY <1>0, <1>2, KindsAssumption
      DEF Create, IInv, TypeOK, LocksBalanced, NeverInternalError
    <2>2. Owners(held, guards) \subseteq Owners(held', guards')
      BY <1>2 DEF Create, Owners
    <2>3. QED
      BY <1>2, <2>1, <2>2, SameLinksInv DEF Create
  <1>3. ASSUME NEW n \in Nodes, Hold(n) PROVE IInv'
    <2>1. TypeOK' /\ LocksBalanced' /\ NeverInternalError'
      BY <1>0, <1>3 DEF Hold, IInv, TypeOK, LocksBalanced, NeverInternalError
    <2>2. Owners(held, guards) \subseteq Owners(held', guards')
      BY <1>3 DEF Hold, Owners
    <2>3. QED
      BY <1>3, <2>1, <2>2, SameLinksInv DEF Hold
  <1>4. ASSUME NEW n \in Nodes, Drop(n) PROVE IInv'
    <2>1. /\ lock' \in [Nodes -> Nat]
          /\ \A m \in Nodes : lock'[m] = Cardinality(GuardsOf(guards, m))
          /\ exc' \in (Exceptions \cup {"none"}) \ {"internal_error"}
          /\ cleaning' \in Seq(Frame)
          /\ held \ {n} \in SUBSET Nodes
          /\ guards \in Seq(Nodes \cup {NoNode})
      BY <1>4 DEF Drop, IInv, TypeOK, LocksBalanced, NeverInternalError, GuardsOf
    <2>2. QED
      BY <1>0, <1>4, <2>1, SettledInv DEF Drop
  <1>5. ASSUME Catch PROVE IInv'
    <2>1. TypeOK' /\ LocksBalanced' /\ NeverInternalError'
      BY <1>0, <1>5 DEF Catch, IInv, TypeOK, LocksBalanced, NeverInternalError
    <2>2. QED
      BY <1>5, <2>1, SameLinksInv DEF Catch
  <1>6. QED
    BY <1>1, <1>2, <1>3, <1>4, <1>5

LEMMA GuardsInv ==
  ASSUME IInv,
         \/ \E n \in Alive \cup {NoNode} : GuardLock(n)
         \/ \E i \in 1 .. MaxGuards : GuardUnlock(i)
         \/ GuardEnd
  PROVE  IInv'
  <1>0. /\ TypeOK /\ Alive \subseteq Nodes /\ Sound(CurrentTree)
        /\ \A m \in Nodes : lock[m] \in Nat /\ lock[m] = Cardinality(GuardsOf(guards, m))
        /\ guards \in Seq(Nodes \cup {NoNode})
        /\ exc \in (Exceptions \cup {"none"}) \ {"internal_error"}
    BY AliveAreNodes, CurrentTreeSound
    DEF IInv, TypeOK, LocksBalanced, GuardsOf, NeverInternalError
  <1>1. ASSUME NEW n \in Alive \cup {NoNode}, GuardLock(n) PROVE IInv'
    <2>1. \A m \in Nodes : Cardinality(GuardsOf(guards', m)) =
             Cardinality(GuardsOf(guards, m)) + (IF n = m THEN 1 ELSE 0)
      BY <1>0, <1>1, GuardsOfAppend DEF GuardLock
    <2>2. lock' \in [Nodes -> Nat] /\ guards' \in Seq(Nodes \cup {NoNode})
      BY <1>0, <1>1 DEF GuardLock, TypeOK
    <2>3. \A m \in Nodes : lock'[m] = lock[m] + (IF n = m THEN 1 ELSE 0)
      BY <1>0, <1>1, NodesAssumption DEF GuardLock, TypeOK
    <2>4. LocksBalanced'
      BY <1>0, <2>1, <2>3 DEF LocksBalanced, GuardsOf
    <2>5. TypeOK' /\ NeverInternalError'
      BY <1>0, <1>1, <2>2 DEF GuardLock, TypeOK, NeverInternalError
    <2>6. Owners(held, guards) \subseteq Owners(held', guards')
      <3>1. \A x \in Range(guards) : x \in Range(Append(guards, n))
        <4>1. /\ DOMAIN guards = 1 .. Len(guards)
              /\ DOMAIN Append(guards, n) = 1 .. Len(guards) + 1
              /\ \A i \in 1 .. Len(guards) : Append(guards, n)[i] = guards[i]
          BY <1>0
        <4>2. QED
          BY <4>1 DEF Range
      <3>2. QED
        BY <1>1, <3>1 DEF GuardLock, Owners
    <2>7. QED
      BY <1>1, <2>4, <2>5, <2>6, SameLinksInv DEF GuardLock
  <1>2. ASSUME NEW i \in DOMAIN guards, GuardUnlock(i) PROVE IInv'
    <2>1. guards[i] \in Nodes \cup {NoNode} /\ Unlocked(guards, i) \in Seq(Nodes \cup {NoNode})
      BY <1>0 DEF Unlocked
    <2>2. \A m \in Nodes : Cardinality(GuardsOf(Unlocked(guards, i), m)) =
             Cardinality(GuardsOf(guards, m)) - (IF guards[i] = m THEN 1 ELSE 0)
      BY <1>0, GuardsOfUnlocked
    <2>3. \A m \in Nodes : Cardinality(GuardsOf(Unlocked(guards, i), m)) \in Nat
      BY <2>1, GuardsFinite
    <2>a. CanUnlock(guards[i])
      BY <1>0, <2>1, <2>2, <2>3 DEF CanUnlock
    <2>4. /\ lock' \in [Nodes -> Int]
          /\ \A m \in Nodes : lock'[m] = lock[m] - (IF guards[i] = m THEN 1 ELSE 0)
      BY <1>0, <1>2, <2>1, <2>a, NodesAssumption DEF GuardUnlock, ReleaseLock, TypeOK
    <2>5. \A m \in Nodes : lock'[m] = Cardinality(GuardsOf(Unlocked(guards, i), m))
      BY <1>0, <2>2, <2>4
    <2>6. lock' \in [Nodes -> Nat]
      BY <2>3, <2>4, <2>5
    <2>7. held \in SUBSET Nodes /\ cleaning' \in Seq(Frame) /\ exc' = exc
      BY <1>0, <1>2, <2>a DEF GuardUnlock, TypeOK
    <2>8. QED
      BY <1>0, <1>2, <2>1, <2>5, <2>6, <2>7, <2>a, SettledInv DEF GuardUnlock
  <1>3. ASSUME GuardEnd PROVE IInv'
    <2>1. guards # << >>
      BY <1>3 DEF GuardEnd
    <2>2. \A m \in Nodes : Cardinality(GuardsOf(Front(guards), m)) =
             Cardinality(GuardsOf(guards, m)) - (IF Last(guards) = m THEN 1 ELSE 0)
      BY <1>0, <2>1, GuardsOfFront
    <2>3. Front(guards) \in Seq(Nodes \cup {NoNode}) /\ Last(guards) \in Nodes \cup {NoNode}
      <3>1. Front(guards) \in Seq(Nodes \cup {NoNode})
        BY <1>0, <2>1, FrontElements
      <3>2. Len(guards) \in 1 .. Len(guards)
        BY <1>0, <2>1
      <3>3. QED
        BY <1>0, <3>1, <3>2 DEF Last
    <2>4. \A m \in Nodes : Cardinality(GuardsOf(Front(guards), m)) \in Nat
      BY <2>3, GuardsFinite
    <2>a. CanUnlock(Last(guards))
      BY <1>0, <2>2, <2>3, <2>4 DEF CanUnlock
    <2>5. /\ lock' \in [Nodes -> Int]
          /\ \A m \in Nodes : lock'[m] = lock[m] - (IF Last(guards) = m THEN 1 ELSE 0)
      BY <1>0, <1>3, <2>3, <2>a, NodesAssumption DEF GuardEnd, ReleaseLock, TypeOK
    <2>6. \A m \in Nodes : lock'[m] = Cardinality(GuardsOf(Front(guards), m))
      BY <1>0, <2>2, <2>5
    <2>7. lock' \in [Nodes -> Nat]
      BY <2>4, <2>5, <2>6
    <2>8. held \in SUBSET Nodes /\ cleaning' \in Seq(Frame) /\ exc' = exc
      BY <1>0, <1>3 DEF GuardEnd, TypeOK
    <2>9. QED
      BY <1>0, <1>3, <2>3, <2>6, <2>7, <2>8, SettledInv DEF GuardEnd
  <1>4. QED
    BY <1>1, <1>2, <1>3 DEF GuardUnlock

\* The links agree, the locks are balanced and no locked node is destroyed, in
\* every reachable state and for any program that uses the tree.
THEOREM Invariance == Spec => []IInv
  <1>1. Init => IInv
    <2> SUFFICES ASSUME Init PROVE IInv
      OBVIOUS
    <2>1. TypeOK /\ NeverInternalError
      BY DEF Init, TypeOK, AllKinds, NeverInternalError
    <2>2. \A n \in Nodes : Range(children[n]) = {} /\ IsInjective(children[n])
      BY DEF Init, Range, IsInjective
    <2>3. LinksAgree
      BY <2>2, NodesAssumption DEF Init, LinksAgree, ValidLinks
    <2>4. LocksBalanced
      <3>1. \A n : {i \in DOMAIN guards : guards[i] = n} = {}
        BY DEF Init
      <3>2. QED
        BY <3>1, FS_EmptySet DEF Init, LocksBalanced
    <2>5. NeverDestroyedLocked
      BY NodesAssumption DEF Init, NeverDestroyedLocked
    <2>6. QED
      BY <2>1, <2>3, <2>4, <2>5 DEF IInv
  <1>2. IInv /\ [Next]_vars => IInv'
    <2> SUFFICES ASSUME IInv, [Next]_vars PROVE IInv'
      OBVIOUS
    <2>1. CASE UNCHANGED vars
      <3>1. TypeOK' /\ LocksBalanced' /\ NeverInternalError'
        BY <2>1 DEF vars, IInv, TypeOK, LocksBalanced, NeverInternalError
      <3>2. QED
        BY <2>1, <3>1, SameLinksInv DEF vars
    <2>2. CASE Next
      BY <2>2, CallsInv, CleaningInv, PointersInv, GuardsInv DEF Next
    <2>3. QED
      BY <2>1, <2>2
  <1>3. QED
    BY <1>1, <1>2, PTL DEF Spec

\* The two sides of the tree always name each other.
THEOREM LinksAlwaysAgree == Spec => []LinksAgree
  BY Invariance, PTL DEF IInv

\* node_lock objects and lock counters always agree, through early unlocks and
\* exceptions.
THEOREM LocksAlwaysBalanced == Spec => []LocksBalanced
  BY Invariance, PTL DEF IInv

\* ~node() never meets a locked node, and leaves no pointer to the node behind.
THEOREM DestructorNeverTerminates == Spec => []NeverDestroyedLocked
  BY Invariance, PTL DEF IInv

\* The internal_error of set_parent(), get_offset() and unlock() is unreachable.
THEOREM InternalErrorUnreachable == Spec => []NeverInternalError
  BY Invariance, PTL DEF IInv

-----------------------------------------------------------------------------
(***************************************************************************)
(* The types allowed on the two ends of a link.  set_parent() looks at     *)
(* them when it makes a link; to_unknown() is the only function that may   *)
(* change the type of a linked node, to one that is allowed everywhere.    *)
(***************************************************************************)
TypedLinks(up) ==
  \A n \in Nodes : up[n] # NoNode => type[n] \in CanBeChild /\ type[up[n]] \in AcceptsChildren

LEMMA RaiseTyped ==
  ASSUME NEW t, Sound(t), TypedLinks(t.up), NEW e
  PROVE  TypedLinks(Raise(t, e).up)
  <1>1. Raise(t, e).up = t.up
    BY DEF Sound, ValidTree, Tree, Raise
  <1>2. QED
    BY <1>1

LEMMA AttachAtTyped ==
  ASSUME NEW t, Sound(t), TypedLinks(t.up), NEW n \in Nodes,
         NEW q \in Nodes \cup {NoNode}, NEW index, Compatible(n, q)
  PROVE  TypedLinks(AttachAt(t, n, q, index).up)
  <1>1. TypedLinks(Raise(t, "out_of_range").up)
    BY RaiseTyped
  <1>2. ASSUME q # NoNode, NEW i PROVE TypedLinks(Attach(t, n, q, i).up)
    <2>1. Attach(t, n, q, i).up = [t.up EXCEPT ![n] = q]
      BY DEF Attach, Sound, ValidTree, Tree
    <2>2. t.up \in [Nodes -> Nodes \cup {NoNode}]
      BY DEF Sound, ValidTree, Tree
    <2>3. QED
      BY <1>2, <2>1, <2>2 DEF TypedLinks, Compatible
  <1>3. QED
    BY <1>1, <1>2 DEF AttachAt

LEMMA SetParentTyped ==
  ASSUME NEW t, Sound(t), TypedLinks(t.up), NEW lk, NEW n \in Nodes,
         NEW q \in Nodes \cup {NoNode}, NEW index \in Int, index >= -1
  PROVE  TypedLinks(SetParent(t, lk, n, q, index).up)
  <1> DEFINE d == Detach(t, n)
  <1>1. \A e : TypedLinks(Raise(t, e).up)
    BY RaiseTyped
  <1>2. Sound(d) /\ TypedLinks(d.up)
    <2>1. ValidTree(d) /\ d.up = [t.up EXCEPT ![n] = NoNode] /\ d.exc = t.exc
      BY DetachValid DEF Sound
    <2>2. t.up \in [Nodes -> Nodes \cup {NoNode}]
      BY DEF Sound, ValidTree, Tree
    <2>3. QED
      BY <2>1, <2>2 DEF Sound, TypedLinks
  <1> HIDE DEF d
  <1>3. Compatible(n, q) => TypedLinks(AttachAt(d, n, q, index).up)
    BY <1>2, AttachAtTyped
  <1>4. QED
    BY <1>1, <1>3 DEF SetParent, d

LEMMA DeleteChildTyped ==
  ASSUME NEW t, Sound(t), TypedLinks(t.up), NEW lk, NEW p \in Nodes, NEW index \in Int
  PROVE  TypedLinks(DeleteChild(t, lk, p, index).up)
  <1>1. CASE index \notin 0 .. Len(t.kids[p]) - 1
    BY <1>1, RaiseTyped DEF DeleteChild
  <1>2. CASE index \in 0 .. Len(t.kids[p]) - 1
    <2>1. t.kids[p][index + 1] \in Nodes
      BY <1>2 DEF Sound, ValidTree, Tree
    <2>2. QED
      BY <1>2, <2>1, SetParentTyped DEF DeleteChild
  <1>3. QED
    BY <1>1, <1>2

LEMMA InsertChildTyped ==
  ASSUME NEW t, Sound(t), TypedLinks(t.up), NEW lk, NEW p \in Nodes,
         NEW index \in Int, index >= -1, NEW c \in Nodes \cup {NoNode}
  PROVE  TypedLinks(InsertChild(t, lk, p, index, c).up)
  <1>1. TypedLinks(Raise(t, "invalid_data").up)
    BY RaiseTyped
  <1>2. c # NoNode => TypedLinks(SetParent(t, lk, c, p, index).up)
    BY SetParentTyped
  <1>3. QED
    BY <1>1, <1>2 DEF InsertChild

LEMMA SetChildTyped ==
  ASSUME NEW t, Sound(t), TypedLinks(t.up), NEW lk, NEW p \in Nodes,
         NEW index \in Int, index >= -1, NEW c \in Nodes \cup {NoNode}
  PROVE  TypedLinks(SetChild(t, lk, p, index, c).up)
  <1> DEFINE d == DeleteChild(t, lk, p, index)
  <1>1. TypedLinks(Raise(t, "invalid_data").up)
    BY RaiseTyped
  <1>2. Sound(d) /\ TypedLinks(d.up)
    BY DeleteChildSound, DeleteChildTyped
  <1> HIDE DEF d
  <1>3. TypedLinks(InsertChild(d, lk, p, index, c).up)
    BY <1>2, InsertChildTyped
  <1>4. QED
    BY <1>1, <1>2, <1>3 DEF SetChild, d

LEMMA ReplaceWithTyped ==
  ASSUME NEW t, Sound(t), TypedLinks(t.up), NEW lk, NEW n \in Nodes,
         NEW c \in Nodes \cup {NoNode}
  PROVE  TypedLinks(ReplaceWith(t, lk, n, c).up)
  <1> DEFINE p == t.up[n]
  <1>1. \A e : TypedLinks(Raise(t, e).up)
    BY RaiseTyped
  <1>2. ASSUME p # NoNode
        PROVE  TypedLinks(SetChild(t, [lk EXCEPT ![p] = 0], p, Offset(t, n), c).up)
    <2>1. p \in Nodes /\ Position(t.kids, p, n) \in 1 .. Len(t.kids[p])
      BY <1>2, PositionOfChild DEF Sound
    <2>2. Offset(t, n) \in Int /\ Offset(t, n) >= -1
      BY <2>1 DEF Offset
    <2>3. QED
      BY <2>1, <2>2, SetChildTyped
  <1>3. QED
    BY <1>1, <1>2 DEF ReplaceWith

\* A destroyed node has no link left whose type would matter.
LEMMA SettleTyped ==
  ASSUME TypeOK, NEW t, Sound(t), TypedLinks(t.up), NEW hd, NEW gs, Settle(t, hd, gs)
  PROVE  TypedLinks(parent)'
  <1> DEFINE L == Live(hd, gs, t.kids)
  <1>1. /\ type' = ReapedType(L)
        /\ parent' = ReapedParent(t.up, L)
    BY DEF Settle
  <1> HIDE DEF L
  <1>2. t.up \in [Nodes -> Nodes \cup {NoNode}]
    BY DEF Sound, ValidTree, Tree
  <1>3. ASSUME NEW n \in Nodes, parent'[n] # NoNode
        PROVE  type'[n] \in CanBeChild /\ type'[parent'[n]] \in AcceptsChildren
    <2>1. n \in L /\ t.up[n] \in L /\ parent'[n] = t.up[n] /\ t.up[n] # NoNode
      BY <1>1, <1>3 DEF ReapedParent
    <2>2. t.up[n] \in Nodes
      BY <1>2, <2>1
    <2>3. type'[n] = type[n] /\ type'[t.up[n]] = type[t.up[n]]
      BY <1>1, <2>1, <2>2 DEF ReapedType
    <2>4. QED
      BY <2>1, <2>3 DEF TypedLinks
  <1>4. QED
    BY <1>3 DEF TypedLinks

TypedInv == IInv /\ TypedLinks(parent)

LEMMA CallsTyped ==
  ASSUME TypedInv,
         \/ \E n \in Alive, q \in Alive \cup {NoNode}, i \in Indexes : CallSetParent(n, q, i)
         \/ \E p \in Alive, c \in Alive \cup {NoNode}, i \in Indexes : CallInsertChild(p, i, c)
         \/ \E p \in Alive, i \in Indexes : CallDeleteChild(p, i)
         \/ \E p \in Alive, c \in Alive \cup {NoNode}, i \in Indexes : CallSetChild(p, i, c)
         \/ \E n \in Alive, c \in Alive \cup {NoNode} : CallReplaceWith(n, c)
  PROVE  TypedLinks(parent)'
  <1>0. /\ TypeOK /\ Alive \subseteq Nodes
        /\ Sound(CurrentTree) /\ TypedLinks(CurrentTree.up)
        /\ \A i \in Indexes : i \in Int /\ i >= -1
    BY AliveAreNodes, CurrentTreeSound DEF TypedInv, IInv, CurrentTree, Indexes
  <1>1. ASSUME NEW n \in Alive, NEW q \in Alive \cup {NoNode}, NEW i \in Indexes,
               CallSetParent(n, q, i)
        PROVE  TypedLinks(parent)'
    <2> DEFINE t == SetParent(CurrentTree, lock, n, q, i)
    <2>1. Sound(t) /\ TypedLinks(t.up)
      BY <1>0, SetParentSound, SetParentTyped
    <2>2. Settle(t, held, guards)
      BY <1>1 DEF CallSetParent, Finish
    <2> HIDE DEF t
    <2>3. QED
      BY <1>0, <2>1, <2>2, SettleTyped
  <1>2. ASSUME NEW p \in Alive, NEW c \in Alive \cup {NoNode}, NEW i \in Indexes,
               CallInsertChild(p, i, c)
        PROVE  TypedLinks(parent)'
    <2> DEFINE t == InsertChild(CurrentTree, lock, p, i, c)
    <2>1. Sound(t) /\ TypedLinks(t.up)
      BY <1>0, InsertChildSound, InsertChildTyped
    <2>2. Settle(t, held, guards)
      BY <1>2 DEF CallInsertChild, Finish
    <2> HIDE DEF t
    <2>3. QED
      BY <1>0, <2>1, <2>2, SettleTyped
  <1>3. ASSUME NEW p \in Alive, NEW i \in Indexes, CallDeleteChild(p, i)
        PROVE  TypedLinks(parent)'
    <2> DEFINE t == DeleteChild(CurrentTree, lock, p, i)
    <2>1. Sound(t) /\ TypedLinks(t.up)
      BY <1>0, DeleteChildSound, DeleteChildTyped
    <2>2. Settle(t, held, guards)
      BY <1>3 DEF CallDeleteChild, Finish
    <2> HIDE DEF t
    <2>3. QED
      BY <1>0, <2>1, <2>2, SettleTyped
  <1>4. ASSUME NEW p \in Alive, NEW c \in Alive \cup {NoNode}, NEW i \in Indexes,
               CallSetChild(p, i, c)
        PROVE  TypedLinks(parent)'
    <2> DEFINE t == SetChild(CurrentTree, lock, p, i, c)
    <2>1. Sound(t) /\ TypedLinks(t.up)
      BY <1>0, SetChildSound, SetChildTyped
    <2>2. Settle(t, held, guards)
      BY <1>4 DEF CallSetChild, Finish
    <2> HIDE DEF t
    <2>3. QED
      BY <1>0, <2>1, <2>2, SettleTyped
  <1>5. ASSUME NEW n \in Alive, NEW c \in Alive \cup {NoNode}, CallReplaceWith(n, c)
        PROVE  TypedLinks(parent)'
    <2> DEFINE t == ReplaceWith(CurrentTree, lock, n, c)
    <2>1. Sound(t) /\ TypedLinks(t.up)
      BY <1>0, ReplaceWithSound, ReplaceWithTyped
    <2>2. Settle(t, held, guards)
      BY <1>5 DEF CallReplaceWith, Finish
    <2> HIDE DEF t
    <2>3. QED
      BY <1>0, <2>1, <2>2, SettleTyped
  <1>6. QED
    BY <1>1, <1>2, <1>3, <1>4, <1>5

LEMMA OthersTyped ==
  ASSUME TypedInv, Next
  PROVE  TypedLinks(parent)'
  <1>0. /\ TypeOK /\ Alive \subseteq Nodes
        /\ Sound(CurrentTree) /\ TypedLinks(CurrentTree.up)
    BY AliveAreNodes, CurrentTreeSound DEF TypedInv, IInv, CurrentTree
  <1>1. ASSUME UNCHANGED <<type, parent>> PROVE TypedLinks(parent)'
    BY <1>1 DEF TypedInv, TypedLinks
  <1>2. ASSUME NEW n \in Alive, ToUnknown(n) PROVE TypedLinks(parent)'
    <2>1. parent' = parent /\ \A m \in Nodes : type'[m] = type[m] \/ type'[m] = "unknown"
      BY <1>0, <1>2 DEF ToUnknown, TypeOK
    <2>2. QED
      BY <1>0, <2>1 DEF TypedInv, TypedLinks, TypeOK, CanBeChild, AcceptsChildren
  <1>3. ASSUME NEW n \in Nodes, NEW k \in Kinds, Create(n, k) PROVE TypedLinks(parent)'
    <2>1. parent[n] = NoNode /\ \A m \in Nodes : parent[m] # n
      BY <1>3 DEF Create, TypedInv, IInv, NeverDestroyedLocked
    <2>2. parent' = parent /\ type' = [type EXCEPT ![n] = k]
      BY <1>3 DEF Create
    <2>3. QED
      BY <1>0, <2>1, <2>2 DEF TypedInv, TypedLinks, TypeOK
  <1>4. ASSUME CleanChild PROVE TypedLinks(parent)'
    <2>1. /\ cleaning # << >> /\ Top.idx > 0
          /\ \/ UNCHANGED <<type, parent>>
             \/ Finish(DeleteChild(CurrentTree, lock, Top.node, ChildIndex))
      BY <1>4 DEF CleanChild
    <2>2. CASE Finish(DeleteChild(CurrentTree, lock, Top.node, ChildIndex))
      <3> DEFINE t == DeleteChild(CurrentTree, lock, Top.node, ChildIndex)
      <3>1. Len(cleaning) \in 1 .. Len(cleaning) /\ Top \in Frame
        BY <1>0, <2>1 DEF TypeOK, Top
      <3>2. Top.node \in Nodes /\ ChildIndex \in Int
        BY <3>1 DEF Frame, ChildIndex
      <3>3. Sound(t) /\ TypedLinks(t.up)
        BY <1>0, <3>2, DeleteChildSound, DeleteChildTyped
      <3>4. Settle(t, held, guards)
        BY <2>2 DEF Finish
      <3> HIDE DEF t
      <3>5. QED
        BY <1>0, <3>3, <3>4, SettleTyped
    <2>3. QED
      BY <1>1, <2>1, <2>2
  <1>5. ASSUME NEW n \in Nodes, Drop(n) PROVE TypedLinks(parent)'
    BY <1>0, <1>5, SettleTyped DEF Drop
  <1>6. ASSUME NEW i, GuardUnlock(i) PROVE TypedLinks(parent)'
    <2>1. CASE CanUnlock(guards[i])
      BY <1>0, <1>6, <2>1, SettleTyped DEF GuardUnlock
    <2>2. CASE ~ CanUnlock(guards[i])
      BY <1>0, <1>6, <2>2 DEF GuardUnlock, TypedLinks, TypedInv
    <2>3. QED
      BY <2>1, <2>2
  <1>7. ASSUME GuardEnd PROVE TypedLinks(parent)'
    BY <1>0, <1>7, SettleTyped DEF GuardEnd
  <1>8. ASSUME \/ \E n \in Nodes : CallCleanTree(n) \/ Hold(n)
               \/ \E n \in Alive \cup {NoNode} : GuardLock(n)
               \/ CleanReturn
               \/ Catch
        PROVE  TypedLinks(parent)'
    BY <1>1, <1>8 DEF CallCleanTree, Hold, GuardLock, CleanReturn, Catch
  <1>9. QED
    BY CallsTyped, <1>2, <1>3, <1>4, <1>5, <1>6, <1>7, <1>8 DEF Next

\* No function, however it ends, links a node to one whose type cannot have
\* children, or a delimiter of the parser to any.
THEOREM AlwaysWellTyped == Spec => []WellTyped
  <1>1. Init => TypedLinks(parent)
    BY DEF Init, TypedLinks
  <1>2. TypedInv /\ [Next]_vars => TypedLinks(parent)'
    <2>1. TypedInv /\ UNCHANGED vars => TypedLinks(parent)'
      BY DEF vars, TypedInv, TypedLinks
    <2>2. QED
      BY <2>1, OthersTyped
  <1>3. IInv /\ TypedLinks(parent) => WellTyped
    <2> SUFFICES ASSUME IInv, TypedLinks(parent), NEW n \in Nodes
                 PROVE  /\ children[n] # << >> => type[n] \in AcceptsChildren
                        /\ parent[n] # NoNode => type[n] \in CanBeChild
      BY DEF WellTyped
    <2>1. ASSUME children[n] # << >> PROVE type[n] \in AcceptsChildren
      <3>1. children[n] \in Seq(Nodes)
        BY DEF IInv, TypeOK
      <3>2. children[n][1] \in Nodes /\ children[n][1] \in Range(children[n])
        BY <2>1, <3>1 DEF Range
      <3>3. parent[children[n][1]] = n
        BY <3>2 DEF IInv, LinksAgree, ValidLinks
      <3>4. QED
        BY <3>2, <3>3, NodesAssumption DEF TypedLinks
    <2>2. QED
      BY <2>1 DEF TypedLinks
  <1>4. QED
    BY <1>1, <1>2, <1>3, Invariance, PTL DEF Spec, TypedInv

-----------------------------------------------------------------------------
(***************************************************************************)
(* The tree of nodes has no loop, provided its callers never give a node   *)
(* one of its own descendants as a parent.  set_parent() does not test it: *)
(* the theorem says that this one condition on the callers is enough, for  *)
(* every sequence of calls, exceptions and destructions.                   *)
(***************************************************************************)
NoLoopIn(up) == \A S \in (SUBSET Nodes) \ {{}} : \E n \in S : up[n] \notin S

\* What a call that gives n the parent q may do to the parents: it also loses
\* some, those of the nodes that leave the tree.
Moves(up, new, n, q) == \A m \in Nodes : new[m] \in {up[m], NoNode} \/ (m = n /\ new[m] = q)

\* Losing parents makes no loop.
LEMMA FewerParents ==
  ASSUME NEW up, NEW new, NoLoopIn(up), \A m \in Nodes : new[m] \in {up[m], NoNode}
  PROVE  NoLoopIn(new)
  BY NodesAssumption DEF NoLoopIn

\* A new parent that is not below the node makes no loop: the nodes of a loop
\* that are not below n would already have been one.
LEMMA MoveKeepsNoLoop ==
  ASSUME NEW t, ValidTree(t), NoLoopIn(t.up), NEW new, NEW n \in Nodes, NEW q \in Nodes,
         q \notin Below({n}, t.kids), Moves(t.up, new, n, q)
  PROVE  NoLoopIn(new)
  <1> SUFFICES ASSUME NEW S \in (SUBSET Nodes) \ {{}}, \A m \in S : new[m] \in S
               PROVE  FALSE
    BY DEF NoLoopIn
  <1> DEFINE B == Below({n}, t.kids)
  <1>1. n \in B /\ Closed(B, t.kids) /\ q \notin B
    <2>1. {n} \in SUBSET Nodes /\ t.kids \in [Nodes -> Seq(Nodes)]
      BY DEF ValidTree, Tree
    <2>2. {n} \subseteq B /\ Closed(B, t.kids)
      BY <2>1, BelowSmallest
    <2>3. QED
      BY <2>2
  <1> HIDE DEF B
  <1>2. \A m \in S : m # n => t.up[m] \in S
    BY NodesAssumption DEF Moves
  <1>3. n \in S /\ q \in S
    <2>1. PICK m \in S : t.up[m] \notin S
      BY DEF NoLoopIn
    <2>2. m = n /\ new[n] \in S
      BY <1>2, <2>1
    <2>3. QED
      BY <2>1, <2>2, NodesAssumption DEF Moves
  <1>4. \A m \in S \ B : t.up[m] \in S \ B
    <2> SUFFICES ASSUME NEW m \in S \ B
                 PROVE  t.up[m] \in S \ B
      OBVIOUS
    <2>1. t.up[m] \in S
      BY <1>1, <1>2
    <2>2. m \in Range(t.kids[t.up[m]])
      BY <2>1 DEF ValidTree, ValidLinks
    <2>3. QED
      BY <1>1, <2>1, <2>2 DEF Closed
  <1>5. S \ B \in (SUBSET Nodes) \ {{}}
    BY <1>1, <1>3
  <1>6. QED
    BY <1>4, <1>5 DEF NoLoopIn

-----------------------------------------------------------------------------
(***************************************************************************)
(* Every call moves one node at most.                                      *)
(***************************************************************************)
LEMMA SetParentMoves ==
  ASSUME NEW t, Sound(t), NEW lk, NEW n \in Nodes, NEW q \in Nodes \cup {NoNode},
         NEW index \in Int
  PROVE  Moves(t.up, SetParent(t, lk, n, q, index).up, n, q)
  <1> DEFINE d == Detach(t, n)
  <1>1. t.up \in [Nodes -> Nodes \cup {NoNode}] /\ \A e : Raise(t, e).up = t.up
    BY DEF Sound, ValidTree, Tree, Raise
  <1>2. d.up = [t.up EXCEPT ![n] = NoNode]
    BY DetachValid DEF Sound
  <1> HIDE DEF d
  <1>3. d.up \in [Nodes -> Nodes \cup {NoNode}]
    BY <1>1, <1>2
  <1>4. AttachAt(d, n, q, index).up \in {d.up, [d.up EXCEPT ![n] = q]}
    <2>1. \A e : Raise(d, e).up = d.up
      BY <1>1 DEF Raise
    <2>2. \A i : Attach(d, n, q, i).up = [d.up EXCEPT ![n] = q]
      BY DEF Attach
    <2>3. QED
      BY <2>1, <2>2 DEF AttachAt
  <1>5. Moves(t.up, AttachAt(d, n, q, index).up, n, q)
    BY <1>1, <1>2, <1>3, <1>4 DEF Moves
  <1>6. Moves(t.up, t.up, n, q)
    BY DEF Moves
  <1>7. SetParent(t, lk, n, q, index).up \in {t.up, AttachAt(d, n, q, index).up}
    BY <1>1 DEF SetParent, d
  <1>8. QED
    BY <1>5, <1>6, <1>7

LEMMA DeleteChildMoves ==
  ASSUME NEW t, Sound(t), NEW lk, NEW p \in Nodes, NEW index \in Int
  PROVE  \A m \in Nodes : DeleteChild(t, lk, p, index).up[m] \in {t.up[m], NoNode}
  <1>1. CASE index \notin 0 .. Len(t.kids[p]) - 1
    BY <1>1 DEF DeleteChild, Raise, Sound, ValidTree, Tree
  <1>2. CASE index \in 0 .. Len(t.kids[p]) - 1
    <2>1. t.kids[p][index + 1] \in Nodes
      BY <1>2 DEF Sound, ValidTree, Tree
    <2>2. Moves(t.up, DeleteChild(t, lk, p, index).up, t.kids[p][index + 1], NoNode)
      BY <1>2, <2>1, SetParentMoves DEF DeleteChild
    <2>3. QED
      BY <2>2 DEF Moves
  <1>3. QED
    BY <1>1, <1>2

LEMMA InsertChildMoves ==
  ASSUME NEW t, Sound(t), NEW lk, NEW p \in Nodes, NEW index \in Int,
         NEW c \in Nodes \cup {NoNode}
  PROVE  Moves(t.up, InsertChild(t, lk, p, index, c).up, c, p)
  <1>1. CASE c = NoNode
    BY <1>1 DEF InsertChild, Raise, Moves, Sound, ValidTree, Tree
  <1>2. CASE c # NoNode
    BY <1>2, SetParentMoves DEF InsertChild
  <1>3. QED
    BY <1>1, <1>2

LEMMA SetChildMoves ==
  ASSUME NEW t, Sound(t), NEW lk, NEW p \in Nodes, NEW index \in Int,
         NEW c \in Nodes \cup {NoNode}
  PROVE  Moves(t.up, SetChild(t, lk, p, index, c).up, c, p)
  <1> DEFINE d == DeleteChild(t, lk, p, index)
             i == InsertChild(d, lk, p, index, c)
  <1>1. Sound(d) /\ \A m \in Nodes : d.up[m] \in {t.up[m], NoNode}
    BY DeleteChildSound, DeleteChildMoves
  <1>2. Moves(d.up, i.up, c, p)
    BY <1>1, InsertChildMoves
  <1>3. Raise(t, "invalid_data").up = t.up
    BY DEF Raise, Sound, ValidTree, Tree
  <1>4. SetChild(t, lk, p, index, c).up \in {t.up, d.up, i.up}
    BY <1>3 DEF SetChild
  <1> HIDE DEF d, i
  <1>5. Moves(t.up, t.up, c, p) /\ Moves(t.up, d.up, c, p) /\ Moves(t.up, i.up, c, p)
    BY <1>1, <1>2 DEF Moves
  <1>6. QED
    BY <1>4, <1>5

LEMMA ReplaceWithMoves ==
  ASSUME NEW t, Sound(t), NEW lk, NEW n \in Nodes, NEW c \in Nodes \cup {NoNode}
  PROVE  Moves(t.up, ReplaceWith(t, lk, n, c).up, c, t.up[n])
  <1> DEFINE p == t.up[n]
             r == SetChild(t, [lk EXCEPT ![p] = 0], p, Offset(t, n), c)
  <1>1. \A e : Raise(t, e).up = t.up
    BY DEF Raise, Sound, ValidTree, Tree
  <1>2. p # NoNode => Moves(t.up, r.up, c, p)
    <2> SUFFICES ASSUME p # NoNode
                 PROVE  Moves(t.up, r.up, c, p)
      OBVIOUS
    <2>1. p \in Nodes /\ Position(t.kids, p, n) \in 1 .. Len(t.kids[p])
      BY PositionOfChild DEF Sound
    <2>2. Offset(t, n) \in Int
      BY <2>1 DEF Offset
    <2>3. QED
      BY <2>1, <2>2, SetChildMoves
  <1>3. ReplaceWith(t, lk, n, c).up = t.up \/ (p # NoNode /\ ReplaceWith(t, lk, n, c).up = r.up)
    BY <1>1 DEF ReplaceWith
  <1> HIDE DEF r, p
  <1>4. Moves(t.up, t.up, c, p)
    BY DEF Moves
  <1>5. QED
    BY <1>2, <1>3, <1>4 DEF p

-----------------------------------------------------------------------------
(***************************************************************************)
(* The invariant.                                                          *)
(***************************************************************************)
LEMMA SettleNoLoop ==
  ASSUME NEW t, NoLoopIn(t.up), NEW hd, NEW gs, Settle(t, hd, gs)
  PROVE  Acyclic'
  <1>1. \A m \in Nodes : parent'[m] \in {t.up[m], NoNode}
    BY DEF Settle, ReapedParent
  <1>2. QED
    BY <1>1, FewerParents DEF NoLoopIn, Acyclic

LEMMA CallNoLoop ==
  ASSUME IInv, Acyclic, NEW t, Finish(t), NEW n \in Nodes, NEW q \in Nodes \cup {NoNode},
         Moves(parent, t.up, n, q), q # NoNode => q \notin Below({n}, children)
  PROVE  Acyclic'
  <1>1. NoLoopIn(parent)
    BY DEF NoLoopIn, Acyclic
  <1>2. NoLoopIn(t.up)
    <2>1. CASE q = NoNode
      BY <1>1, <2>1, FewerParents DEF Moves
    <2>2. CASE q # NoNode
      <3>1. ValidTree(CurrentTree) /\ CurrentTree.up = parent /\ CurrentTree.kids = children
        BY CurrentTreeSound DEF Sound, CurrentTree
      <3>2. QED
        BY <1>1, <2>2, <3>1, MoveKeepsNoLoop
    <2>3. QED
      BY <2>1, <2>2
  <1>3. QED
    BY <1>2, SettleNoLoop DEF Finish

LEMMA StepNoLoop ==
  ASSUME ~ AllowLoops, IInv, Acyclic, Next
  PROVE  Acyclic'
  <1>0. /\ Sound(CurrentTree) /\ CurrentTree.up = parent
        /\ Alive \subseteq Nodes
        /\ \A i \in Indexes : i \in Int
    BY CurrentTreeSound, AliveAreNodes DEF IInv, CurrentTree, Indexes
  <1>1. ASSUME NEW n \in Alive, NEW q \in Alive \cup {NoNode}, NEW i \in Indexes,
               CallSetParent(n, q, i)
        PROVE  Acyclic'
    <2>1. Moves(parent, SetParent(CurrentTree, lock, n, q, i).up, n, q)
      BY <1>0, SetParentMoves
    <2>2. QED
      BY <1>0, <1>1, <2>1, CallNoLoop DEF CallSetParent, NoLoop
  <1>2. ASSUME NEW p \in Alive, NEW c \in Alive \cup {NoNode}, NEW i \in Indexes,
               CallInsertChild(p, i, c)
        PROVE  Acyclic'
    <2>1. Moves(parent, InsertChild(CurrentTree, lock, p, i, c).up, c, p)
      BY <1>0, InsertChildMoves
    <2>2. CASE c = NoNode
      <3>1. InsertChild(CurrentTree, lock, p, i, c).up = parent
        BY <1>0, <2>2 DEF InsertChild, Raise, CurrentTree
      <3>2. QED
        BY <1>0, <1>2, <3>1, CallNoLoop DEF CallInsertChild, Moves
    <2>3. CASE c # NoNode
      BY <1>0, <1>2, <2>1, <2>3, CallNoLoop DEF CallInsertChild, NoLoop
    <2>4. QED
      BY <2>2, <2>3
  <1>3. ASSUME NEW p \in Alive, NEW i \in Indexes, CallDeleteChild(p, i)
        PROVE  Acyclic'
    <2>1. Moves(parent, DeleteChild(CurrentTree, lock, p, i).up, p, NoNode)
      BY <1>0, DeleteChildMoves DEF Moves
    <2>2. QED
      BY <1>0, <1>3, <2>1, CallNoLoop DEF CallDeleteChild
  <1>4. ASSUME NEW p \in Alive, NEW c \in Alive \cup {NoNode}, NEW i \in Indexes,
               CallSetChild(p, i, c)
        PROVE  Acyclic'
    <2>1. Moves(parent, SetChild(CurrentTree, lock, p, i, c).up, c, p)
      BY <1>0, SetChildMoves
    <2>2. CASE c = NoNode
      <3>1. SetChild(CurrentTree, lock, p, i, c).up = parent
        BY <1>0, <2>2 DEF SetChild, Raise, CurrentTree
      <3>2. QED
        BY <1>0, <1>4, <3>1, CallNoLoop DEF CallSetChild, Moves
    <2>3. CASE c # NoNode
      BY <1>0, <1>4, <2>1, <2>3, CallNoLoop DEF CallSetChild, NoLoop
    <2>4. QED
      BY <2>2, <2>3
  <1>5. ASSUME NEW n \in Alive, NEW c \in Alive \cup {NoNode}, CallReplaceWith(n, c)
        PROVE  Acyclic'
    <2>1. Moves(parent, ReplaceWith(CurrentTree, lock, n, c).up, c, parent[n])
      BY <1>0, ReplaceWithMoves
    <2>2. parent[n] \in Nodes \cup {NoNode}
      BY <1>0 DEF IInv, TypeOK
    <2>3. CASE c = NoNode
      <3>1. ReplaceWith(CurrentTree, lock, n, c).up = parent
        BY <1>0, <2>3 DEF ReplaceWith, Raise, CurrentTree
      <3>2. QED
        BY <1>0, <1>5, <3>1, CallNoLoop DEF CallReplaceWith, Moves
    <2>4. CASE c # NoNode
      BY <1>0, <1>5, <2>1, <2>2, <2>4, CallNoLoop DEF CallReplaceWith, NoLoop
    <2>5. QED
      BY <2>3, <2>4
  <1>6. ASSUME CleanChild PROVE Acyclic'
    <2>1. CASE parent' = parent
      BY <2>1 DEF Acyclic
    <2>2. CASE Finish(DeleteChild(CurrentTree, lock, Top.node, ChildIndex))
      <3>1. Top.node \in Nodes /\ ChildIndex \in Int
        <4>1. Len(cleaning) \in 1 .. Len(cleaning) /\ cleaning \in Seq(Frame)
          BY <1>6 DEF CleanChild, IInv, TypeOK
        <4>2. Top \in Frame
          BY <4>1 DEF Top
        <4>3. QED
          BY <4>2 DEF Frame, ChildIndex
      <3>2. Moves(parent, DeleteChild(CurrentTree, lock, Top.node, ChildIndex).up,
                  Top.node, NoNode)
        BY <1>0, <3>1, DeleteChildMoves DEF Moves
      <3>3. QED
        BY <2>2, <3>1, <3>2, CallNoLoop
    <2>3. QED
      BY <1>6, <2>1, <2>2 DEF CleanChild
  <1>7. ASSUME NEW hd, NEW gs, Settle(CurrentTree, hd, gs)
        PROVE  Acyclic'
    BY <1>0, <1>7, SettleNoLoop DEF NoLoopIn, Acyclic
  <1>8. ASSUME UNCHANGED parent PROVE Acyclic'
    BY <1>8 DEF Acyclic
  <1>9. QED
    BY <1>1, <1>2, <1>3, <1>4, <1>5, <1>6, <1>7, <1>8
    DEF Next, ToUnknown, CallCleanTree, CleanReturn, Create, Hold, Drop, GuardLock,
        GuardUnlock, GuardEnd, Catch

\* No loop is ever made by a program that never gives a node one of its
\* descendants as parent; what follows is about such programs.
LEMMA NeverALoop ==
  ASSUME ~ AllowLoops
  PROVE  Spec => []Acyclic
  <1>1. Init => Acyclic
    <2> SUFFICES ASSUME Init, NEW S \in (SUBSET Nodes) \ {{}}
                 PROVE  \E n \in S : parent[n] \notin S
      BY DEF Acyclic
    <2>1. PICK n \in S : n \in Nodes
      OBVIOUS
    <2>2. parent[n] = NoNode
      BY <2>1 DEF Init
    <2>3. QED
      BY <2>1, <2>2, NodesAssumption
  <1>2. IInv /\ Acyclic /\ [Next]_vars => Acyclic'
    BY StepNoLoop DEF vars, Acyclic
  <1>3. QED
    BY Invariance, <1>1, <1>2, PTL DEF Spec

-----------------------------------------------------------------------------
(***************************************************************************)
(* What a step of the tree of nodes may do: a lock protects a list and its *)
(* owner, a refused set_child() changes nothing, replace_with() leaves the *)
(* other children where they are and clean_tree() cleans everything.  The  *)
(* first and the last two rest on the tree having no loop.                 *)
(***************************************************************************)
(***************************************************************************)
(* What a lock protects.  The tests of set_parent() keep the node and its  *)
(* list as they are; replace_with() hides the lock of the parent from them *)
(* and it is only because a node is not its own parent, nor the parent of  *)
(* its parent, that the parent itself stays where it is.                   *)
(***************************************************************************)
StaysIn(t, new, m) == new.kids[m] = t.kids[m] /\ new.up[m] = t.up[m]

LEMMA RaiseStays ==
  ASSUME NEW t, Sound(t), NEW e
  PROVE  Raise(t, e).up = t.up /\ Raise(t, e).kids = t.kids
  BY DEF Raise, Sound, ValidTree, Tree

\* set_parent() touches the node, its old parent and its new one.
LEMMA SetParentTouches ==
  ASSUME NEW t, Sound(t), NEW lk, NEW n \in Nodes, NEW q \in Nodes \cup {NoNode},
         NEW index, NEW m \in Nodes
  PROVE  LET r == SetParent(t, lk, n, q, index) IN
         /\ r.up[m] # t.up[m] => m = n
         /\ r.kids[m] # t.kids[m] => m \in {q, t.up[n]}
         /\ ~ MayMove(lk, t.up[n], n, q) => r.up = t.up /\ r.kids = t.kids
  <1> DEFINE d == Detach(t, n)
             a == AttachAt(d, n, q, index)
  <1>1. /\ t.up \in [Nodes -> Nodes \cup {NoNode}]
        /\ t.kids \in [Nodes -> Seq(Nodes)]
        /\ t = [up |-> t.up, kids |-> t.kids, exc |-> t.exc]
    BY DEF Sound, ValidTree, Tree
  <1>2. d.up = [t.up EXCEPT ![n] = NoNode] /\ Sound(d)
    BY DetachValid DEF Sound
  <1>3. d.kids[m] # t.kids[m] => m = t.up[n]
    BY <1>1 DEF Detach, RemoveLink
  <1>4. d = [up |-> d.up, kids |-> d.kids, exc |-> d.exc] /\ d.kids \in [Nodes -> Seq(Nodes)]
    BY <1>2 DEF Sound, ValidTree, Tree
  <1> HIDE DEF d
  <1>5. /\ a.up[m] # d.up[m] => m = n
        /\ a.kids[m] # d.kids[m] => m = q
    <2>1. \A e : Raise(d, e).up = d.up /\ Raise(d, e).kids = d.kids
      BY <1>2, RaiseStays
    <2>2. ASSUME NEW i
          PROVE  /\ Attach(d, n, q, i).up = [d.up EXCEPT ![n] = q]
                 /\ Attach(d, n, q, i).kids = [d.kids EXCEPT ![q] = InsertAt(d.kids[q], i + 1, n)]
      BY <1>4 DEF Attach
    <2>3. d.up \in [Nodes -> Nodes \cup {NoNode}]
      BY <1>1, <1>2
    <2>4. QED
      BY <1>4, <2>1, <2>2, <2>3 DEF AttachAt
  <1>6. d.up[m] # t.up[m] => m = n
    BY <1>1, <1>2
  <1> HIDE DEF a
  <1>7. \A e : Raise(t, e).up = t.up /\ Raise(t, e).kids = t.kids
    BY RaiseStays
  <1>8. \/ SetParent(t, lk, n, q, index) = a /\ MayMove(lk, t.up[n], n, q)
        \/ SetParent(t, lk, n, q, index) = t /\ MayMove(lk, t.up[n], n, q)
        \/ \E e : SetParent(t, lk, n, q, index) = Raise(t, e)
    BY DEF SetParent, a, d
  <1>9. QED
    BY <1>3, <1>5, <1>6, <1>7, <1>8

LEMMA SetParentKeepsLocked ==
  ASSUME NEW t, Sound(t), NEW lk, NEW n \in Nodes, NEW q \in Nodes \cup {NoNode},
         NEW index, NEW m \in Nodes, lk[m] # 0
  PROVE  StaysIn(t, SetParent(t, lk, n, q, index), m)
  <1>1. MayMove(lk, t.up[n], n, q) => m \notin {n, q, t.up[n]}
    BY NodesAssumption DEF MayMove
  <1>2. QED
    BY <1>1, SetParentTouches DEF StaysIn

\* delete_child() moves the child that is removed.
LEMMA DeleteChildTouches ==
  ASSUME NEW t, Sound(t), NEW lk, NEW p \in Nodes, NEW index \in Int, NEW m \in Nodes
  PROVE  /\ DeleteChild(t, lk, p, index).up[m] # t.up[m]
              => index \in 0 .. Len(t.kids[p]) - 1 /\ m = t.kids[p][index + 1]
         /\ \/ DeleteChild(t, lk, p, index).exc # "none"
            \/ index \in 0 .. Len(t.kids[p]) - 1
  <1>1. CASE index \notin 0 .. Len(t.kids[p]) - 1
    <2>1. DeleteChild(t, lk, p, index) = Raise(t, "out_of_range")
      BY <1>1 DEF DeleteChild
    <2>2. Raise(t, "out_of_range").exc = "out_of_range"
      BY DEF Raise, Sound, ValidTree, Tree
    <2>3. QED
      BY <2>1, <2>2, RaiseStays
  <1>2. CASE index \in 0 .. Len(t.kids[p]) - 1
    <2> DEFINE c == t.kids[p][index + 1]
    <2>1. c \in Nodes /\ c \in Range(t.kids[p])
      BY <1>2 DEF Sound, ValidTree, Tree, Range
    <2>2. t.up[c] = p
      BY <2>1 DEF Sound, ValidTree, ValidLinks
    <2>3. DeleteChild(t, lk, p, index) = SetParent(t, lk, c, NoNode, -1)
      BY <1>2 DEF DeleteChild
    <2> HIDE DEF c
    <2>4. QED
      BY <1>2, <2>1, <2>2, <2>3, SetParentTouches, NodesAssumption DEF c
  <1>3. QED
    BY <1>1, <1>2

LEMMA DeleteChildKeepsLocked ==
  ASSUME NEW t, Sound(t), NEW lk, NEW p \in Nodes, NEW index \in Int, NEW m \in Nodes,
         lk[m] # 0
  PROVE  StaysIn(t, DeleteChild(t, lk, p, index), m)
  <1>1. CASE index \notin 0 .. Len(t.kids[p]) - 1
    BY <1>1, RaiseStays DEF DeleteChild, StaysIn
  <1>2. CASE index \in 0 .. Len(t.kids[p]) - 1
    <2> DEFINE c == t.kids[p][index + 1]
    <2>1. c \in Nodes
      BY <1>2 DEF Sound, ValidTree, Tree
    <2>2. DeleteChild(t, lk, p, index) = SetParent(t, lk, c, NoNode, -1)
      BY <1>2 DEF DeleteChild
    <2> HIDE DEF c
    <2>3. QED
      BY <2>1, <2>2, SetParentKeepsLocked
  <1>3. QED
    BY <1>1, <1>2

LEMMA InsertChildTouches ==
  ASSUME NEW t, Sound(t), NEW lk, NEW p \in Nodes, NEW index \in Int,
         NEW c \in Nodes \cup {NoNode}, NEW m \in Nodes
  PROVE  LET r == InsertChild(t, lk, p, index, c) IN
         /\ r.up[m] # t.up[m] => m = c
         /\ lk[m] # 0 => StaysIn(t, r, m)
  BY RaiseStays, SetParentTouches, SetParentKeepsLocked DEF InsertChild, StaysIn

LEMMA SetChildTouches ==
  ASSUME NEW t, Sound(t), NEW lk, NEW p \in Nodes, NEW index \in Int,
         NEW c \in Nodes \cup {NoNode}, NEW m \in Nodes
  PROVE  LET r == SetChild(t, lk, p, index, c) IN
         /\ r.up[m] # t.up[m] =>
              m = c \/ (index \in 0 .. Len(t.kids[p]) - 1 /\ m = t.kids[p][index + 1])
         /\ lk[m] # 0 => StaysIn(t, r, m)
  <1> DEFINE d == DeleteChild(t, lk, p, index)
             i == InsertChild(d, lk, p, index, c)
  <1>1. Sound(d)
    BY DeleteChildSound
  <1>2. /\ d.up[m] # t.up[m] => index \in 0 .. Len(t.kids[p]) - 1 /\ m = t.kids[p][index + 1]
        /\ lk[m] # 0 => StaysIn(t, d, m)
    BY DeleteChildTouches, DeleteChildKeepsLocked
  <1>3. /\ i.up[m] # d.up[m] => m = c
        /\ lk[m] # 0 => StaysIn(d, i, m)
    BY <1>1, InsertChildTouches
  <1>4. SetChild(t, lk, p, index, c) \in {Raise(t, "invalid_data"), d, i}
    BY DEF SetChild
  <1> HIDE DEF d, i
  <1>5. QED
    BY <1>2, <1>3, <1>4, RaiseStays DEF StaysIn

LEMMA ReplaceWithTouches ==
  ASSUME NEW t, Sound(t), NEW lk \in [Nodes -> Nat], NEW n \in Nodes, t.up[n] # n,
         NEW c \in Nodes \cup {NoNode}, c # t.up[n] \/ c = NoNode, NEW m \in Nodes, lk[m] # 0
  PROVE  LET r == ReplaceWith(t, lk, n, c) IN
         /\ r.up[m] = t.up[m]
         /\ r.kids[m] # t.kids[m] => m = t.up[n] /\ c # NoNode
  <1> DEFINE p == t.up[n]
             lp == [lk EXCEPT ![p] = 0]
             r == SetChild(t, lp, p, Offset(t, n), c)
  <1>1. CASE p # NoNode /\ c # NoNode
    <2>1. /\ p \in Nodes /\ Offset(t, n) \in Int
          /\ t.kids[p][Offset(t, n) + 1] = n
      <3>1. /\ p \in Nodes
            /\ Position(t.kids, p, n) \in 1 .. Len(t.kids[p])
            /\ t.kids[p][Position(t.kids, p, n)] = n
        BY <1>1, PositionOfChild DEF Sound
      <3>2. QED
        BY <3>1 DEF Offset
    <2>2. m # p => lp[m] # 0
      BY <2>1
    <2> DEFINE o == Offset(t, n)
    <2> HIDE DEF lp, p, o
    <2>3. /\ r.up[m] # t.up[m] => m \in {c, n}
          /\ lp[m] # 0 => StaysIn(t, r, m)
      BY <2>1, SetChildTouches DEF o
    <2>4. ReplaceWith(t, lk, n, c) \in {Raise(t, "internal_error"), r}
      BY <1>1 DEF ReplaceWith, lp, p
    <2> HIDE DEF r
    <2>5. QED
      BY <1>1, <2>2, <2>3, <2>4, RaiseStays DEF StaysIn, p
  <1>2. CASE p = NoNode \/ c = NoNode
    BY <1>2, RaiseStays DEF ReplaceWith
  <1>3. QED
    BY <1>1, <1>2

\* Removing the k-th element and inserting another there.
LEMMA ReplacedAt ==
  ASSUME NEW S, NEW s \in Seq(S), NEW e \in S, NEW k \in 1 .. Len(s)
  PROVE  InsertAt(RemoveAt(s, k), k, e) = [s EXCEPT ![k] = e]
  <1> DEFINE r == RemoveAt(s, k)
             i == InsertAt(r, k, e)
             x == [s EXCEPT ![k] = e]
  <1>1. /\ r \in Seq(S) /\ Len(r) = Len(s) - 1
        /\ \A j \in 1 .. Len(s) - 1 : r[j] = IF j < k THEN s[j] ELSE s[j + 1]
    BY RemoveAtElements
  <1> HIDE DEF r
  <1>2. k \in 1 .. Len(r) + 1 /\ Len(s) \in Nat
    BY <1>1
  <1>3. /\ i \in Seq(S) /\ Len(i) = Len(s)
        /\ \A j \in 1 .. Len(s) :
              i[j] = IF j < k THEN r[j] ELSE IF j = k THEN e ELSE r[j - 1]
    BY <1>1, <1>2, InsertAtElements
  <1>4. x \in Seq(S) /\ Len(x) = Len(s)
        /\ \A j \in 1 .. Len(s) : x[j] = IF j = k THEN e ELSE s[j]
    OBVIOUS
  <1> HIDE DEF i, x
  <1>5. ASSUME NEW j \in 1 .. Len(s) PROVE i[j] = x[j]
    <2>1. CASE j < k
      BY <1>1, <1>2, <1>3, <1>4, <2>1
    <2>2. CASE j = k
      BY <1>2, <1>3, <1>4, <2>2
    <2>3. CASE j > k
      <3>1. j - 1 \in 1 .. Len(s) - 1 /\ ~ (j - 1 < k) /\ (j - 1) + 1 = j
        BY <1>2, <2>3
      <3>2. r[j - 1] = s[j]
        BY <1>1, <3>1
      <3>3. QED
        BY <1>2, <1>3, <1>4, <2>3, <3>2
    <2>4. QED
      BY <1>2, <2>1, <2>2, <2>3
  <1>6. i = x
    BY <1>3, <1>4, <1>5
  <1>7. QED
    BY <1>6 DEF i, x, r

\* What set_parent() returns when it does not throw.
LEMMA SetParentReturns ==
  ASSUME NEW t, Sound(t), NEW lk, NEW n \in Nodes, NEW q \in Nodes \cup {NoNode},
         NEW index, SetParent(t, lk, n, q, index).exc = "none", q # t.up[n]
  PROVE  SetParent(t, lk, n, q, index) = AttachAt(Detach(t, n), n, q, index)
  <1>1. \A e : Raise(t, e).exc = e
    BY DEF Raise, Sound, ValidTree, Tree
  <1>2. "locked_node" # "none" /\ "incompatible_type" # "none" /\ "internal_error" # "none"
    OBVIOUS
  <1>3. QED
    BY <1>1, <1>2 DEF SetParent

\* What replace_with() makes of the list of the parent when it changes it: the
\* node is removed first, then the new one is taken from where it was, and only
\* then inserted.
LEMMA ReplaceWithList ==
  ASSUME NEW t, Sound(t), t.exc = "none", NEW lk, NEW n \in Nodes, NEW c \in Nodes,
         t.up[n] # NoNode, ReplaceWith(t, lk, n, c).kids[t.up[n]] # t.kids[t.up[n]]
  PROVE  LET p    == t.up[n]
             r    == ReplaceWith(t, lk, n, c)
             list == t.kids[p]
             k    == Offset(t, n) + 1
         IN  IF t.up[c] # p
             THEN r.kids[p] = IF r.exc = "none" THEN [list EXCEPT ![k] = c] ELSE RemoveAt(list, k)
             ELSE Range(r.kids[p]) =
                    Range(list) \ (IF r.exc = "out_of_range" THEN {n, c} ELSE {n})
  <1> DEFINE p == t.up[n]
             k == Position(t.kids, p, n)
             lp == [lk EXCEPT ![p] = 0]
             r == ReplaceWith(t, lk, n, c)
             list == t.kids[p]
             d == DeleteChild(t, lp, p, k - 1)
             gone == RemoveAt(list, k)
             e == Detach(d, c)
  <1>1. /\ p \in Nodes /\ n \in Range(list) /\ k \in 1 .. Len(list)
        /\ list[k] = n /\ p # NoNode
    BY PositionOfChild DEF Sound
  <1>2. /\ t.up \in [Nodes -> Nodes \cup {NoNode}]
        /\ t.kids \in [Nodes -> Seq(Nodes)]
        /\ t = [up |-> t.up, kids |-> t.kids, exc |-> t.exc]
        /\ c # NoNode
        /\ list \in Seq(Nodes) /\ IsInjective(list)
    BY <1>1, NodesAssumption DEF Sound, ValidTree, ValidLinks, Tree
  <1>3. Offset(t, n) = k - 1 /\ (k - 1) + 1 = k /\ k - 1 \in 0 .. Len(list) - 1
        /\ k - 1 \in Int /\ k - 1 # -1
    BY <1>1 DEF Offset
  <1>4. r = SetChild(t, lp, p, k - 1, c)
    BY <1>1, <1>2, <1>3 DEF ReplaceWith
  <1>5. d = SetParent(t, lp, n, NoNode, -1)
    BY <1>1, <1>3 DEF DeleteChild
  <1>6. d.exc # "none" => d.kids = t.kids
    <2>1. AttachAt(Detach(t, n), n, NoNode, -1) = RemoveLink(t, n, p)
      BY <1>1 DEF AttachAt, Detach
    <2>2. RemoveLink(t, n, p).exc = "none"
      BY <1>2 DEF RemoveLink
    <2>3. \/ d = RemoveLink(t, n, p)
          \/ d = t
          \/ \E x : d = Raise(t, x)
      BY <1>5, <2>1 DEF SetParent
    <2> HIDE DEF d
    <2>4. QED
      BY <2>2, <2>3, RaiseStays
  <1> HIDE DEF r, k, p, lp, list
  <1>7. d.exc = "none" /\ r = InsertChild(d, lp, p, k - 1, c)
    <2> HIDE DEF d
    <2>1. r = IF d.exc # "none" THEN d ELSE InsertChild(d, lp, p, k - 1, c)
      BY <1>2, <1>4 DEF SetChild, d
    <2>2. r.kids # t.kids
      BY DEF r, p
    <2>3. QED
      BY <1>6, <2>1, <2>2
  <1>8. d = Detach(t, n) /\ d = RemoveLink(t, n, p)
    <2>1. NoNode # t.up[n] /\ SetParent(t, lp, n, NoNode, -1).exc = "none"
      BY <1>5, <1>7
    <2>2. d = AttachAt(Detach(t, n), n, NoNode, -1)
      BY <1>5, <2>1, SetParentReturns
    <2>3. QED
      BY <1>1, <2>2 DEF AttachAt, Detach, p
  <1>9. /\ d.kids = [t.kids EXCEPT ![p] = gone] /\ d.up = [t.up EXCEPT ![n] = NoNode]
        /\ Sound(d)
    <2>1. Sound(d)
      BY <1>8, DetachValid DEF Sound
    <2>2. QED
      BY <1>2, <1>8, <2>1 DEF RemoveLink, k, list
  <1> HIDE DEF d
  <1>10. /\ gone \in Seq(Nodes) /\ Len(gone) = Len(list) - 1
         /\ IsInjective(gone) /\ Range(gone) = Range(list) \ {n}
    BY <1>1, <1>2, RemoveAtElements, RemoveAtInjective
  <1>11. /\ d = [up |-> d.up, kids |-> d.kids, exc |-> d.exc]
         /\ d.kids \in [Nodes -> Seq(Nodes)] /\ d.kids[p] = gone
    BY <1>1, <1>2, <1>9 DEF Sound, ValidTree, Tree
  <1> HIDE DEF gone
  <1>12. \/ \E x \in {"locked_node", "incompatible_type", "internal_error"} : r = Raise(d, x)
         \/ r = AttachAt(e, c, p, k - 1)
    BY <1>2, <1>3, <1>7 DEF InsertChild, SetParent
  <1>13. \A x : Raise(d, x).exc = x /\ Raise(d, x).kids = d.kids
    BY <1>11 DEF Raise
  <1>14. ASSUME NEW x \in {"locked_node", "incompatible_type", "internal_error"}, r = Raise(d, x)
         PROVE  r.kids[p] = gone /\ r.exc # "none" /\ r.exc # "out_of_range"
    BY <1>11, <1>13, <1>14
  <1>15. /\ e = [up |-> e.up, kids |-> e.kids, exc |-> e.exc] /\ e.exc = "none"
         /\ e.kids \in [Nodes -> Seq(Nodes)]
    <2>1. Sound(e)
      BY <1>9, DetachValid DEF Sound
    <2>2. e.exc = d.exc
      BY <1>11 DEF Detach, RemoveLink
    <2>3. QED
      BY <1>7, <2>1, <2>2 DEF Sound, ValidTree, Tree
  <1>16. CASE r = AttachAt(e, c, p, k - 1) /\ d.up[c] # p
    <2>1. e.kids[p] = gone
      BY <1>1, <1>11, <1>16 DEF Detach, RemoveLink
    <2> HIDE DEF e
    <2>2. r = Attach(e, c, p, k - 1)
      BY <1>1, <1>3, <1>10, <1>16, <2>1 DEF AttachAt
    <2>3. r.kids[p] = InsertAt(gone, k, c) /\ r.exc = "none"
      BY <1>1, <1>3, <1>15, <2>1, <2>2 DEF Attach
    <2>4. r.kids[p] = [list EXCEPT ![k] = c]
      BY <1>1, <1>2, <2>3, ReplacedAt DEF gone
    <2>5. t.up[c] # p
      <3>1. SUFFICES ASSUME c = n PROVE FALSE
        BY <1>2, <1>9, <1>16
      <3>2. [list EXCEPT ![k] = c] = list
        BY <1>1, <1>2, <3>1
      <3>3. QED
        BY <2>4, <3>2 DEF r, p, list
    <2>6. QED
      BY <1>3, <2>3, <2>4, <2>5 DEF r, p, list
  <1>17. CASE r = AttachAt(e, c, p, k - 1) /\ d.up[c] = p
    <2> DEFINE j == Position(d.kids, p, c)
               two == RemoveAt(gone, j)
    <2>1. t.up[c] = p /\ c # n
      BY <1>1, <1>2, <1>9, <1>17
    <2>2. j \in 1 .. Len(gone) /\ gone[j] = c
      <3>1. d.up[c] # NoNode /\ ValidTree(d)
        BY <1>1, <1>9, <1>17 DEF Sound
      <3>2. /\ Position(d.kids, d.up[c], c) \in 1 .. Len(d.kids[d.up[c]])
            /\ d.kids[d.up[c]][Position(d.kids, d.up[c], c)] = c
        BY <3>1, PositionOfChild
      <3>3. QED
        BY <1>11, <1>17, <3>2
    <2>3. e.kids[p] = two
      BY <1>1, <1>11, <1>17 DEF Detach, RemoveLink
    <2>4. /\ two \in Seq(Nodes) /\ IsInjective(two) /\ Range(two) = Range(list) \ {n, c}
          /\ Len(two) \in Nat
      BY <1>10, <2>2, RemoveAtElements, RemoveAtInjective
    <2>5. c \in Range(list)
      BY <1>1, <2>1 DEF list, Sound, ValidTree, ValidLinks
    <2> HIDE DEF e, two, j
    <2>6. CASE k - 1 > Len(two)
      <3>1. r = Raise(e, "out_of_range")
        BY <1>1, <1>3, <1>17, <2>3, <2>6 DEF AttachAt
      <3>2. r.kids[p] = two /\ r.exc = "out_of_range"
        BY <1>15, <2>3, <3>1 DEF Raise
      <3>3. QED
        BY <2>1, <2>4, <3>2 DEF r, p, list
    <2>7. CASE ~ (k - 1 > Len(two))
      <3>1. r = Attach(e, c, p, k - 1)
        BY <1>1, <1>3, <1>17, <2>3, <2>7 DEF AttachAt
      <3>2. r.kids[p] = InsertAt(two, k, c) /\ r.exc = "none"
        BY <1>1, <1>3, <1>15, <2>3, <3>1 DEF Attach
      <3>3. k \in 1 .. Len(two) + 1 /\ c \notin Range(two)
        BY <1>1, <2>4, <2>7
      <3>4. Range(InsertAt(two, k, c)) = Range(two) \cup {c}
        BY <2>4, <3>3, InsertAtInjective
      <3>5. Range(r.kids[p]) = Range(list) \ {n} /\ r.exc # "out_of_range"
        BY <2>1, <2>4, <2>5, <3>2, <3>4
      <3>6. QED
        BY <2>1, <3>5 DEF r, p, list
    <2>8. QED
      BY <2>6, <2>7
  <1>18. CASE r.kids[p] = gone /\ r.exc # "none" /\ r.exc # "out_of_range"
    <2>1. Range(r.kids[p]) = Range(list) \ {n} /\ r.kids[p] = RemoveAt(list, k)
      BY <1>10, <1>18 DEF gone
    <2>2. QED
      BY <1>3, <1>18, <2>1 DEF r, p, list
  <1>19. QED
    BY <1>12, <1>14, <1>16, <1>17, <1>18

\* A locked node outlives the call, with the links the call left it.
LEMMA SettleKeepsLocked ==
  ASSUME IInv, IInv', NEW t, Sound(t), NEW hd \in SUBSET Nodes,
         NEW gs \in Seq(Nodes \cup {NoNode}), Settle(t, hd, gs),
         NEW m \in Nodes, Locked(m)
  PROVE  /\ type'[m] = type[m]
         /\ children'[m] = t.kids[m]
         /\ parent'[m] # t.up[m] => t.up[m] \notin Alive'
  <1>1. m \in Alive'
    <2>1. lock' \in [Nodes -> Nat] /\ lock'[m] > 0
      BY DEF IInv, TypeOK, Locked
    <2>2. m \notin Alive' => lock'[m] = 0
      BY DEF IInv, NeverDestroyedLocked
    <2>3. QED
      BY <2>1, <2>2
  <1>2. Alive' = Live(hd, gs, t.kids)
    BY SettleSound DEF IInv
  <1>3. QED
    BY <1>1, <1>2 DEF Settle, ReapedType, ReapedChildren, ReapedParent

Stays(m) ==
  /\ type'[m] = type[m]
  /\ children'[m] # children[m] => ReplacedIn(m)
  /\ parent'[m] # parent[m] => parent[m] \notin Alive'

LEMMA CallKeepsLocked ==
  ASSUME IInv, IInv', NEW t, Sound(t), Finish(t), NEW m \in Nodes, Locked(m),
         t.kids[m] # children[m] => ReplacedIn(m), t.up[m] = parent[m]
  PROVE  Stays(m)
  <1>1. held \in SUBSET Nodes /\ guards \in Seq(Nodes \cup {NoNode})
    BY DEF IInv, TypeOK
  <1>2. QED
    BY <1>1, SettleKeepsLocked DEF Finish, Stays

\* A node is not its own parent, nor a child of its child.
LEMMA ParentElsewhere ==
  ASSUME IInv, Acyclic, NEW n \in Nodes
  PROVE  parent[n] # n
  <1>1. {n} \in (SUBSET Nodes) \ {{}}
    OBVIOUS
  <1>2. QED
    BY <1>1 DEF Acyclic

LEMMA LockedStays ==
  ASSUME ~ AllowLoops, IInv, IInv', Acyclic, Next, NEW m \in Nodes, Locked(m)
  PROVE  Stays(m)
  <1>0. /\ Sound(CurrentTree) /\ CurrentTree.up = parent /\ CurrentTree.kids = children
        /\ Alive \subseteq Nodes
        /\ \A i \in Indexes : i \in Int /\ i >= -1
        /\ lock \in [Nodes -> Nat] /\ lock[m] # 0
    BY CurrentTreeSound, AliveAreNodes DEF IInv, TypeOK, CurrentTree, Indexes, Locked
  <1>1. ASSUME NEW n \in Alive, NEW q \in Alive \cup {NoNode}, NEW i \in Indexes,
               CallSetParent(n, q, i)
        PROVE  Stays(m)
    <2> DEFINE t == SetParent(CurrentTree, lock, n, q, i)
    <2>1. Finish(t)
      BY <1>1 DEF CallSetParent
    <2>2. Sound(t)
      BY <1>0, SetParentSound
    <2>3. StaysIn(CurrentTree, t, m)
      BY <1>0, SetParentKeepsLocked
    <2> HIDE DEF t
    <2>4. QED
      BY <1>0, <2>1, <2>2, <2>3, CallKeepsLocked DEF StaysIn
  <1>2. ASSUME NEW p \in Alive, NEW c \in Alive \cup {NoNode}, NEW i \in Indexes,
               CallInsertChild(p, i, c)
        PROVE  Stays(m)
    <2> DEFINE t == InsertChild(CurrentTree, lock, p, i, c)
    <2>1. Finish(t)
      BY <1>2 DEF CallInsertChild
    <2>2. Sound(t)
      BY <1>0, InsertChildSound
    <2>3. StaysIn(CurrentTree, t, m)
      BY <1>0, InsertChildTouches
    <2> HIDE DEF t
    <2>4. QED
      BY <1>0, <2>1, <2>2, <2>3, CallKeepsLocked DEF StaysIn
  <1>3. ASSUME NEW p \in Nodes, NEW i \in Int, Finish(DeleteChild(CurrentTree, lock, p, i))
        PROVE  Stays(m)
    <2> DEFINE t == DeleteChild(CurrentTree, lock, p, i)
    <2>1. Sound(t)
      BY <1>0, DeleteChildSound
    <2>2. StaysIn(CurrentTree, t, m)
      BY <1>0, DeleteChildKeepsLocked
    <2> HIDE DEF t
    <2>3. QED
      BY <1>0, <1>3, <2>1, <2>2, CallKeepsLocked DEF StaysIn, t
  <1>4. ASSUME NEW p \in Alive, NEW c \in Alive \cup {NoNode}, NEW i \in Indexes,
               CallSetChild(p, i, c)
        PROVE  Stays(m)
    <2> DEFINE t == SetChild(CurrentTree, lock, p, i, c)
    <2>1. Finish(t)
      BY <1>4 DEF CallSetChild
    <2>2. Sound(t)
      BY <1>0, SetChildSound
    <2>3. StaysIn(CurrentTree, t, m)
      BY <1>0, SetChildTouches
    <2> HIDE DEF t
    <2>4. QED
      BY <1>0, <2>1, <2>2, <2>3, CallKeepsLocked DEF StaysIn
  <1>5. ASSUME NEW n \in Alive, NEW c \in Alive \cup {NoNode}, CallReplaceWith(n, c)
        PROVE  Stays(m)
    <2> DEFINE t == ReplaceWith(CurrentTree, lock, n, c)
    <2>1. Finish(t)
      BY <1>5 DEF CallReplaceWith
    <2>2. Sound(t)
      BY <1>0, ReplaceWithSound
    <2>3. parent[n] # n
      BY <1>0, ParentElsewhere
    <2>4. c # parent[n] \/ c = NoNode
      <3>1. SUFFICES ASSUME c # NoNode, c = parent[n] PROVE FALSE
        OBVIOUS
      <3>2. c \in Nodes /\ c \notin Below({c}, children)
        BY <1>0, <1>5, <3>1, NodesAssumption DEF CallReplaceWith, NoLoop
      <3>3. {c} \subseteq Below({c}, children)
        BY <3>2, BelowSmallest DEF IInv, TypeOK
      <3>4. QED
        BY <3>2, <3>3
    <2>5. t.up[m] = parent[m] /\ (t.kids[m] # children[m] => m = parent[n] /\ c # NoNode)
      BY <1>0, <2>3, <2>4, ReplaceWithTouches
    <2>6. ASSUME t.kids[m] # children[m] PROVE ReplacedIn(m)
      <3>1. m = parent[n] /\ c \in Nodes /\ c \in Alive /\ n \in Nodes /\ m # NoNode
        BY <1>0, <2>5, <2>6, NodesAssumption
      <3>2. held \in SUBSET Nodes /\ guards \in Seq(Nodes \cup {NoNode})
        BY DEF IInv, TypeOK
      <3>3. children'[m] = t.kids[m] /\ exc' = t.exc
        BY <2>1, <2>2, <3>2, SettleKeepsLocked DEF Finish
      <3> DEFINE T == CurrentTree
      <3>4. Sound(T) /\ T.exc = "none" /\ T.up[n] # NoNode /\ T.up = parent /\ T.kids = children
            /\ ReplaceWith(T, lock, n, c).kids[T.up[n]] # T.kids[T.up[n]]
        BY <1>0, <2>6, <3>1 DEF CurrentTree
      <3> HIDE DEF T
      <3>5. IF T.up[c] # T.up[n]
            THEN t.kids[T.up[n]] = IF t.exc = "none" THEN [T.kids[T.up[n]] EXCEPT ![Offset(T, n) + 1] = c]
                                   ELSE RemoveAt(T.kids[T.up[n]], Offset(T, n) + 1)
            ELSE Range(t.kids[T.up[n]]) =
                   Range(T.kids[T.up[n]]) \ (IF t.exc = "out_of_range" THEN {n, c} ELSE {n})
        BY <3>1, <3>4, ReplaceWithList DEF T
      <3> HIDE DEF t
      <3>6. ListReplaced(m, n, c)
        BY <3>1, <3>3, <3>4, <3>5 DEF ListReplaced, T
      <3>7. QED
        BY <1>5, <3>1, <3>6 DEF ReplacedIn
    <2> HIDE DEF t
    <2>7. QED
      BY <2>1, <2>2, <2>5, <2>6, CallKeepsLocked
  <1>6. ASSUME UNCHANGED <<type, parent, children>>
        PROVE  Stays(m)
    BY <1>6 DEF Stays
  <1>7. ASSUME CleanChild
        PROVE  Stays(m)
    <2>1. Top.node \in Nodes /\ ChildIndex \in Int
      <3>1. Len(cleaning) \in 1 .. Len(cleaning) /\ cleaning \in Seq(Frame)
        BY <1>7 DEF CleanChild, IInv, TypeOK
      <3>2. Top \in Frame
        BY <3>1 DEF Top
      <3>3. QED
        BY <3>2 DEF Frame, ChildIndex
    <2>2. QED
      BY <1>3, <1>6, <1>7, <2>1 DEF CleanChild
  <1>8. ASSUME NEW hd \in SUBSET Nodes, NEW gs \in Seq(Nodes \cup {NoNode}),
               Settle(CurrentTree, hd, gs)
        PROVE  Stays(m)
    BY <1>0, <1>8, SettleKeepsLocked DEF Stays
  <1>9. ASSUME NEW n \in Nodes, Drop(n) PROVE Stays(m)
    BY <1>8, <1>9 DEF Drop, IInv, TypeOK
  <1>10. ASSUME NEW i \in 1 .. MaxGuards, GuardUnlock(i) PROVE Stays(m)
    <2>1. Unlocked(guards, i) \in Seq(Nodes \cup {NoNode})
      BY <1>10 DEF GuardUnlock, Unlocked, IInv, TypeOK
    <2>2. QED
      BY <1>6, <1>8, <1>10, <2>1 DEF GuardUnlock, IInv, TypeOK
  <1>11. ASSUME GuardEnd PROVE Stays(m)
    <2>1. Front(guards) \in Seq(Nodes \cup {NoNode})
      BY <1>11, FrontElements DEF GuardEnd, IInv, TypeOK
    <2>2. QED
      BY <1>8, <1>11, <2>1 DEF GuardEnd, IInv, TypeOK
  <1>12. ASSUME NEW n \in Nodes, NEW k \in Kinds, Create(n, k) PROVE Stays(m)
    <2>1. n # m
      BY <1>0, <1>12 DEF Create, IInv, NeverDestroyedLocked
    <2>2. QED
      BY <1>12, <2>1 DEF Create, Stays, IInv, TypeOK
  <1>13. ASSUME NEW n \in Alive, ToUnknown(n) PROVE Stays(m)
    BY <1>0, <1>13 DEF ToUnknown, Stays, IInv, TypeOK
  <1>14. QED
    BY <1>0, <1>1, <1>2, <1>3, <1>4, <1>5, <1>6, <1>7, <1>9, <1>10, <1>11, <1>12, <1>13
    DEF Next, CallDeleteChild, CallCleanTree, CleanReturn, Hold, GuardLock, Catch

\* A list that is locked while a loop walks it is only written by
\* replace_with(), which leaves of it what ListReplaced says for every outcome of
\* the call, and the node that owns it keeps its type and its place, for every
\* nesting of loops and calls.
THEOREM LockProtects ==
  ASSUME ~ AllowLoops
  PROVE  Spec => LockedNodeStays
  <1>1. IInv /\ IInv' /\ Acyclic /\ [Next]_vars
        => [\A n \in Nodes : Locked(n) =>
              /\ type'[n] = type[n]
              /\ children'[n] # children[n] => ReplacedIn(n)
              /\ parent'[n] # parent[n] => parent[n] \notin Alive']_vars
    BY LockedStays DEF Stays
  <1>2. Spec => []IInv
    BY Invariance
  <1>3. Spec => []Acyclic
    BY NeverALoop
  <1>4. QED
    BY <1>1, <1>2, <1>3, PTL DEF Spec, LockedNodeStays

-----------------------------------------------------------------------------
(***************************************************************************)
(* What set_child() does when it is refused for its arguments.             *)
(***************************************************************************)
LEMMA RefusedSetChild ==
  ASSUME NEW t, Sound(t), NEW lk \in [Nodes -> Nat], NEW p \in Nodes, NEW index \in Int,
         NEW c \in Nodes \cup {NoNode},
         \/ c = NoNode
         \/ index \notin 0 .. Len(t.kids[p]) - 1
         \/ lk[t.kids[p][index + 1]] > 0
  PROVE  SetChild(t, lk, p, index, c).kids = t.kids
  <1> DEFINE d == DeleteChild(t, lk, p, index)
             out == index \notin 0 .. Len(t.kids[p]) - 1
             old == t.kids[p][index + 1]
  <1>1. \A e : Raise(t, e).kids = t.kids /\ Raise(t, e).exc = e
    BY RaiseStays DEF Raise, Sound, ValidTree, Tree
  <1>2. CASE c = NoNode
    BY <1>1, <1>2 DEF SetChild
  <1>3. CASE c # NoNode /\ out
    <2>1. d = Raise(t, "out_of_range")
      BY <1>3 DEF DeleteChild
    <2>2. QED
      BY <1>1, <1>3, <2>1 DEF SetChild
  <1>4. CASE c # NoNode /\ ~ out /\ lk[old] > 0
    <2>1. old \in Nodes
      BY <1>4 DEF Sound, ValidTree, Tree
    <2>2. ~ MayMove(lk, t.up[old], old, NoNode)
      BY <1>4, <2>1 DEF MayMove
    <2>3. d = SetParent(t, lk, old, NoNode, -1)
      BY <1>4 DEF DeleteChild
    <2> HIDE DEF old
    <2>4. d = Raise(t, "locked_node")
      BY <2>2, <2>3 DEF SetParent
    <2>5. QED
      BY <1>1, <1>4, <2>4 DEF SetChild
  <1>5. QED
    BY <1>2, <1>3, <1>4

LEMMA RefusedKeeps ==
  ASSUME IInv, NEW p \in Alive, NEW c \in Alive \cup {NoNode}, NEW i \in Indexes,
         CallSetChild(p, i, c),
         \/ c = NoNode
         \/ i \notin 0 .. Len(children[p]) - 1
         \/ lock[children[p][i + 1]] > 0
  PROVE  children' = children
  <1> DEFINE t == SetChild(CurrentTree, lock, p, i, c)
  <1>1. /\ Sound(CurrentTree) /\ CurrentTree.kids = children
        /\ Alive \subseteq Nodes /\ i \in Int /\ lock \in [Nodes -> Nat]
        /\ children \in [Nodes -> Seq(Nodes)]
    BY CurrentTreeSound, AliveAreNodes DEF IInv, TypeOK, CurrentTree, Indexes
  <1>2. t.kids = children
    <2>1. /\ p \in Nodes /\ c \in Nodes \cup {NoNode}
          /\ \/ c = NoNode
             \/ i \notin 0 .. Len(CurrentTree.kids[p]) - 1
             \/ lock[CurrentTree.kids[p][i + 1]] > 0
      BY <1>1
    <2>2. t.kids = CurrentTree.kids
      BY <1>1, <2>1, RefusedSetChild
    <2>3. QED
      BY <1>1, <2>2
  <1> HIDE DEF t
  <1>3. Settle(t, held, guards)
    BY DEF CallSetChild, Finish, t
  <1>4. children' = ReapedChildren(children, Alive)
    BY <1>2, <1>3 DEF Settle, Alive
  <1>5. \A n \in Nodes \ Alive : children[n] = << >>
    BY DEF IInv, NeverDestroyedLocked
  <1>6. QED
    BY <1>1, <1>4, <1>5 DEF ReapedChildren

\* set_child() that is refused for its arguments changed nothing, whatever the
\* locks and the nodes the program holds.
THEOREM RefusedBeforeAnyChange == Spec => RefusedFirst
  <1>1. IInv /\ [Next]_vars
        => [children' # children =>
              \A p \in Alive, c \in Alive \cup {NoNode}, i \in Indexes :
                 \/ c = NoNode
                 \/ i \notin 0 .. Len(children[p]) - 1
                 \/ lock[children[p][i + 1]] > 0
                 => ~ CallSetChild(p, i, c)]_vars
    BY RefusedKeeps
  <1>2. QED
    BY Invariance, <1>1, PTL DEF Spec, RefusedFirst

-----------------------------------------------------------------------------
(***************************************************************************)
(* replace_with() is a removal followed by an insertion at the same place. *)
(* That the parent is still there to see it depends on the lifetime: what  *)
(* kept it alive may be neither the node that leaves nor the new one.      *)
(***************************************************************************)

\* A node that is below a set and not in it has its parent there too.
LEMMA BelowThroughParent ==
  ASSUME NEW t, ValidTree(t), NEW from \in SUBSET Nodes, NEW m \in Below(from, t.kids) \ from
  PROVE  t.up[m] \in Below(from, t.kids)
  <1> DEFINE B == Below(from, t.kids)
  <1>1. /\ t.kids \in [Nodes -> Seq(Nodes)]
        /\ from \subseteq B /\ B \subseteq Nodes /\ Closed(B, t.kids)
        /\ \A S \in SUBSET Nodes : from \subseteq S /\ Closed(S, t.kids) => B \subseteq S
    <2>1. t.kids \in [Nodes -> Seq(Nodes)]
      BY DEF ValidTree, Tree
    <2>2. QED
      BY <2>1, BelowSmallest
  <1> HIDE DEF B
  <1>2. SUFFICES ASSUME t.up[m] \notin B PROVE FALSE
    BY DEF B
  <1>3. m \in B /\ m \notin from
    BY DEF B
  <1>4. ASSUME NEW x \in B \ {m}
        PROVE  Range(t.kids[x]) \subseteq B \ {m}
    <2>1. Range(t.kids[x]) \subseteq B /\ x \in Nodes /\ m \in Nodes
      BY <1>1, <1>3 DEF Closed
    <2>2. m \notin Range(t.kids[x])
      BY <1>2, <2>1 DEF ValidTree, ValidLinks
    <2>3. QED
      BY <2>1, <2>2
  <1>5. QED
    BY <1>1, <1>3, <1>4 DEF Closed

LEMMA ParentNotBelow ==
  ASSUME NEW t, ValidTree(t), NoLoopIn(t.up), NEW n \in Nodes
  PROVE  t.up[n] \notin Below({n}, t.kids)
  <1> DEFINE B == Below({n}, t.kids)
  <1>1. n \in B /\ B \subseteq Nodes
    <2>1. t.kids \in [Nodes -> Seq(Nodes)] /\ {n} \in SUBSET Nodes
      BY DEF ValidTree, Tree
    <2>2. QED
      BY <2>1, BelowSmallest
  <1>2. PICK m \in B : t.up[m] \notin B
    BY <1>1 DEF NoLoopIn
  <1>3. m = n
    BY <1>2, BelowThroughParent
  <1>4. QED
    BY <1>2, <1>3

\* What replace_with() returns when it does not throw.
LEMMA ReplaceWithReturns ==
  ASSUME NEW t, Sound(t), NEW lk, NEW n \in Nodes, NEW c \in Nodes,
         t.up[n] # NoNode, t.up[c] # t.up[n], ReplaceWith(t, lk, n, c).exc = "none"
  PROVE  LET p == t.up[n]
             r == ReplaceWith(t, lk, n, c)
         IN  /\ r.kids[p] = [t.kids[p] EXCEPT ![Offset(t, n) + 1] = c]
             /\ \A m \in Nodes \ {p} : Range(t.kids[m]) \subseteq Range(r.kids[m]) \cup {c}
             /\ Sound(r)
  <1> DEFINE p == t.up[n]
             k == Position(t.kids, p, n)
             lp == [lk EXCEPT ![p] = 0]
             r == ReplaceWith(t, lk, n, c)
             d == DeleteChild(t, lp, p, k - 1)
  <1>1. /\ p \in Nodes /\ n \in Range(t.kids[p]) /\ k \in 1 .. Len(t.kids[p])
        /\ t.kids[p][k] = n /\ p # NoNode
    BY PositionOfChild DEF Sound
  <1>2. /\ t.up \in [Nodes -> Nodes \cup {NoNode}]
        /\ t.kids \in [Nodes -> Seq(Nodes)]
        /\ t = [up |-> t.up, kids |-> t.kids, exc |-> t.exc]
        /\ c # NoNode /\ c # n
    BY NodesAssumption DEF Sound, ValidTree, Tree
  <1>3. Offset(t, n) = k - 1 /\ (k - 1) + 1 = k /\ k - 1 \in 0 .. Len(t.kids[p]) - 1
        /\ k - 1 \in Int
    BY <1>1 DEF Offset
  <1>4. r = SetChild(t, lp, p, k - 1, c)
    BY <1>1, <1>2, <1>3 DEF ReplaceWith
  <1> HIDE DEF lp, r, k, p
  <1>5. d.exc = "none" /\ r = InsertChild(d, lp, p, k - 1, c) /\ r.exc = "none"
    BY <1>2, <1>4 DEF SetChild, r
  <1>6. d = Detach(t, n)
    <2>1. d = SetParent(t, lp, n, NoNode, -1)
      BY <1>1, <1>3 DEF DeleteChild
    <2>2. NoNode # t.up[n]
      BY <1>1 DEF p
    <2>3. d = AttachAt(Detach(t, n), n, NoNode, -1)
      BY <1>5, <2>1, <2>2, SetParentReturns
    <2>4. QED
      BY <2>3 DEF AttachAt
  <1>7. /\ Sound(d)
        /\ d.kids = [t.kids EXCEPT ![p] = RemoveAt(t.kids[p], k)]
        /\ d.up = [t.up EXCEPT ![n] = NoNode]
    <2>1. Sound(d) /\ d.up = [t.up EXCEPT ![n] = NoNode]
      BY <1>6, DetachValid DEF Sound
    <2>2. d = RemoveLink(t, n, p)
      BY <1>1, <1>6 DEF Detach, p
    <2>3. RemoveLink(t, n, p).kids = [t.kids EXCEPT ![p] = RemoveAt(t.kids[p], k)]
      BY <1>2 DEF RemoveLink, k
    <2>4. QED
      BY <2>1, <2>2, <2>3
  <1> HIDE DEF d
  <1> DEFINE e == Detach(d, c)
             gone == RemoveAt(t.kids[p], k)
  <1>8. d.up[c] # p /\ d.up[c] = t.up[c]
    BY <1>1, <1>2, <1>7 DEF p
  <1>9. r = AttachAt(e, c, p, k - 1)
    <2>1. r = SetParent(d, lp, c, p, k - 1)
      BY <1>2, <1>5 DEF InsertChild
    <2>2. SetParent(d, lp, c, p, k - 1).exc = "none" /\ p # d.up[c]
      BY <1>5, <1>8, <2>1
    <2>3. p \in Nodes \cup {NoNode} /\ Sound(d)
      BY <1>1, <1>7
    <2>4. SetParent(d, lp, c, p, k - 1) = AttachAt(Detach(d, c), c, p, k - 1)
      BY <2>2, <2>3, SetParentReturns
    <2>5. QED
      BY <2>1, <2>4
  <1>10. gone \in Seq(Nodes) /\ Len(gone) = Len(t.kids[p]) - 1
    BY <1>1, <1>2, RemoveAtElements
  <1> HIDE DEF gone
  <1>11. d.kids[p] = gone /\ d = [up |-> d.up, kids |-> d.kids, exc |-> d.exc]
         /\ d.kids \in [Nodes -> Seq(Nodes)]
    BY <1>1, <1>2, <1>7 DEF gone, Sound, ValidTree, Tree
  <1>12. /\ e.kids[p] = gone
         /\ \A m \in Nodes \ {p} : Range(t.kids[m]) \subseteq Range(e.kids[m]) \cup {c}
         /\ e = [up |-> e.up, kids |-> e.kids, exc |-> e.exc] /\ e.kids \in [Nodes -> Seq(Nodes)]
         /\ Sound(e)
    <2>1. ASSUME NEW m \in Nodes \ {p}
          PROVE  d.kids[m] = t.kids[m]
      BY <1>2, <1>7
    <2>2. CASE d.up[c] = NoNode
      <3>1. e = d
        BY <2>2 DEF Detach
      <3>2. QED
        BY <1>7, <1>11, <2>1, <3>1
    <2>3. CASE d.up[c] # NoNode
      <3> DEFINE o == d.up[c]
                 j == Position(d.kids, o, c)
      <3>1. o \in Nodes /\ j \in 1 .. Len(d.kids[o]) /\ d.kids[o][j] = c
        BY <1>7, <2>3, PositionOfChild DEF Sound
      <3>2. e.kids = [d.kids EXCEPT ![o] = RemoveAt(d.kids[o], j)]
        BY <1>11, <2>3 DEF Detach, RemoveLink
      <3>3. d.kids[o] \in Seq(Nodes) /\ IsInjective(d.kids[o])
        BY <1>7, <1>11, <3>1 DEF Sound, ValidTree, ValidLinks
      <3> HIDE DEF j, o
      <3>4. Range(RemoveAt(d.kids[o], j)) = Range(d.kids[o]) \ {c}
        BY <3>1, <3>3, RemoveAtInjective
      <3>5. e.kids[p] = d.kids[p]
        BY <1>1, <1>8, <1>11, <3>2 DEF o
      <3>6. \A m \in Nodes \ {p} : Range(t.kids[m]) \subseteq Range(e.kids[m]) \cup {c}
        BY <1>11, <2>1, <3>2, <3>4
      <3>7. Sound(e) /\ e = [up |-> e.up, kids |-> e.kids, exc |-> e.exc]
            /\ e.kids \in [Nodes -> Seq(Nodes)]
        <4>1. Sound(e)
          BY <1>7, DetachValid DEF Sound
        <4>2. QED
          BY <4>1 DEF Sound, ValidTree, Tree
      <3>8. QED
        BY <1>11, <3>5, <3>6, <3>7
    <2>4. QED
      BY <2>2, <2>3
  <1> HIDE DEF e
  <1>13. r = Attach(e, c, p, k - 1)
    <2>1. k - 1 # -1 /\ ~ (k - 1 > Len(e.kids[p]))
      BY <1>1, <1>10, <1>12
    <2>2. QED
      BY <1>1, <1>9, <2>1 DEF AttachAt
  <1>14. r.kids = [e.kids EXCEPT ![p] = InsertAt(gone, k, c)]
    BY <1>3, <1>12, <1>13 DEF Attach
  <1>15. r.kids[p] = [t.kids[p] EXCEPT ![k] = c]
    <2>1. InsertAt(gone, k, c) = [t.kids[p] EXCEPT ![k] = c]
      <3>1. t.kids[p] \in Seq(Nodes)
        BY <1>1, <1>2
      <3>2. QED
        BY <1>1, <3>1, ReplacedAt DEF gone
    <2>2. QED
      BY <1>1, <1>12, <1>14, <2>1
  <1>16. \A m \in Nodes \ {p} : Range(t.kids[m]) \subseteq Range(r.kids[m]) \cup {c}
    BY <1>12, <1>14
  <1>17. Sound(r)
    BY ReplaceWithSound DEF r
  <1>18. QED
    BY <1>3, <1>15, <1>16, <1>17 DEF r, p, k

LEMMA ParentAlive ==
  ASSUME IInv, NEW n \in Alive, parent[n] # NoNode
  PROVE  parent[n] \in Alive
  <1>1. n \in Nodes /\ parent[n] \in Nodes
    BY AliveAreNodes DEF IInv, TypeOK
  <1>2. QED
    BY <1>1 DEF IInv, NeverDestroyedLocked

LEMMA ReplacedWhereItWas ==
  ASSUME ~ AllowLoops, IInv, IInv', Acyclic, NEW n \in Alive, NEW c \in Alive,
         exc' = "none", parent[n] # NoNode, parent[c] # parent[n], CallReplaceWith(n, c)
  PROVE  children'[parent[n]] = [children[parent[n]] EXCEPT ![Offset(CurrentTree, n) + 1] = c]
  <1> DEFINE p == parent[n]
             t == ReplaceWith(CurrentTree, lock, n, c)
             L == Live(held, guards, t.kids)
             S == L \cup Below({c}, children) \cup Below({n}, children)
             O == Owners(held, guards)
  <1>0. /\ Sound(CurrentTree) /\ CurrentTree.up = parent /\ CurrentTree.kids = children
        /\ ValidTree(CurrentTree)
    BY CurrentTreeSound DEF CurrentTree, Sound
  <1>1. /\ n \in Nodes /\ c \in Nodes /\ p \in Alive /\ p \in Nodes /\ p # NoNode /\ c # NoNode
        /\ {n} \in SUBSET Nodes /\ {c} \in SUBSET Nodes
        /\ children \in [Nodes -> Seq(Nodes)]
    BY AliveAreNodes, ParentAlive, NodesAssumption DEF IInv, TypeOK
  <1>2. Finish(t) /\ t.exc = "none" /\ p \notin Below({c}, children)
    BY <1>1 DEF CallReplaceWith, Finish, NoLoop
  <1>3. /\ t.kids[p] = [children[p] EXCEPT ![Offset(CurrentTree, n) + 1] = c]
        /\ \A m \in Nodes \ {p} : Range(children[m]) \subseteq Range(t.kids[m]) \cup {c}
        /\ Sound(t)
    <2> DEFINE T == CurrentTree
               q == T.up[n]
    <2>1. /\ Sound(T) /\ T.up[n] # NoNode /\ T.up[c] # T.up[n]
          /\ ReplaceWith(T, lock, n, c).exc = "none"
      BY <1>0, <1>1, <1>2
    <2> HIDE DEF T
    <2>2. /\ ReplaceWith(T, lock, n, c).kids[q] = [T.kids[q] EXCEPT ![Offset(T, n) + 1] = c]
          /\ \A m \in Nodes \ {q} :
                Range(T.kids[m]) \subseteq Range(ReplaceWith(T, lock, n, c).kids[m]) \cup {c}
          /\ Sound(ReplaceWith(T, lock, n, c))
      BY <1>1, <2>1, ReplaceWithReturns
    <2>3. QED
      BY <1>0, <2>2 DEF T
  <1> HIDE DEF t, p
  <1>4. O \in SUBSET Nodes /\ t.kids \in [Nodes -> Seq(Nodes)]
    BY <1>3, OwnersAreNodes DEF IInv, TypeOK, Sound, ValidTree, Tree
  <1>5. O \subseteq L /\ Closed(L, t.kids) /\ L \subseteq Nodes
    BY <1>4, BelowSmallest DEF Live
  <1>6. /\ c \in Below({c}, children) /\ Closed(Below({c}, children), children)
        /\ n \in Below({n}, children) /\ Closed(Below({n}, children), children)
        /\ Below({c}, children) \subseteq Nodes /\ Below({n}, children) \subseteq Nodes
    BY <1>1, BelowSmallest
  <1>7. p \notin Below({n}, children)
    <2>1. NoLoopIn(CurrentTree.up)
      BY <1>0 DEF NoLoopIn, Acyclic
    <2>2. QED
      BY <1>0, <1>1, <2>1, ParentNotBelow DEF p
  <1>8. p \in L
    <2>1. SUFFICES ASSUME p \notin L PROVE FALSE
      OBVIOUS
    <2> HIDE DEF L
    <2>2. Closed(S, children)
      <3>1. ASSUME NEW m \in L PROVE Range(children[m]) \subseteq L \cup {c}
        BY <1>3, <1>5, <2>1, <3>1 DEF Closed
      <3>2. QED
        BY <1>6, <3>1 DEF Closed
    <2>3. Alive \subseteq S
      <3>1. S \in SUBSET Nodes /\ O \subseteq S
        BY <1>5, <1>6
      <3> HIDE DEF S, O
      <3>2. Below(O, children) \subseteq S
        BY <1>1, <1>4, <2>2, <3>1, BelowSmallest
      <3>3. QED
        BY <3>2 DEF Alive, Live, O
    <2>4. QED
      BY <1>1, <1>2, <1>7, <2>1, <2>3
  <1>9. children' = ReapedChildren(t.kids, L)
    BY <1>2 DEF Finish, Settle
  <1>10. children'[p] = t.kids[p]
    BY <1>1, <1>8, <1>9 DEF ReapedChildren
  <1>11. QED
    BY <1>3, <1>10 DEF p

\* replace_with() that returns leaves all the other children of the parent
\* where they were, and the parent itself outlives what it lost.
THEOREM ReplacesInPlace ==
  ASSUME ~ AllowLoops
  PROVE  Spec => ReplacedInPlace
  <1>1. IInv /\ IInv' /\ Acyclic /\ [Next]_vars
        => [\A n, c \in Alive :
              LET p == parent[n] IN
              /\ exc' = "none" /\ p # NoNode /\ parent[c] # p
              /\ CallReplaceWith(n, c)
              => children'[p] = [children[p] EXCEPT ![Offset(CurrentTree, n) + 1] = c]]_vars
    BY ReplacedWhereItWas
  <1>2. Spec => []IInv
    BY Invariance
  <1>3. Spec => []Acyclic
    BY NeverALoop
  <1>4. QED
    BY <1>1, <1>2, <1>3, PTL DEF Spec, ReplacedInPlace

-----------------------------------------------------------------------------
(***************************************************************************)
(* clean_tree(): what its frames on the stack know.  Each call walks its   *)
(* list from the end: the children behind its index are done with, the one *)
(* under it is the node of the next call.                                  *)
(***************************************************************************)
CleanBelow(c) == \A m \in Below({c}, children) : type[m] # "unknown"

DoneFrom(i) == cleaning[i].idx + (IF i < Len(cleaning) THEN 2 ELSE 1)

FrameInv(i) ==
  LET n == cleaning[i].node IN
  /\ cleaning[i].idx \in 0 .. Len(children[n])
  /\ i > 1 => type[n] # "unknown"
  /\ i < Len(cleaning) => /\ cleaning[i].idx < Len(children[n])
                          /\ children[n][cleaning[i].idx + 1] = cleaning[i + 1].node
  /\ \A j \in DoneFrom(i) .. Len(children[n]) : CleanBelow(children[n][j])

CleanInv ==
  cleaning # << >> =>
    /\ exc = "none"
    /\ cleaning[1].node \in held
    /\ \A i \in 1 .. Len(cleaning) : FrameInv(i)

LEMMA CleaningFrames ==
  ASSUME IInv, cleaning # << >>
  PROVE  /\ Len(cleaning) \in Nat /\ Len(cleaning) >= 1
         /\ \A i \in 1 .. Len(cleaning) : cleaning[i].node \in Nodes /\ cleaning[i].idx \in Nat
         /\ Top = cleaning[Len(cleaning)]
         /\ \A i \in 1 .. Len(cleaning) : children[cleaning[i].node] \in Seq(Nodes)
  <1>1. cleaning \in Seq(Frame) /\ children \in [Nodes -> Seq(Nodes)]
    BY DEF IInv, TypeOK
  <1>2. \A i \in 1 .. Len(cleaning) : cleaning[i] \in Frame
    BY <1>1
  <1>3. QED
    BY <1>1, <1>2 DEF Frame, Top

LEMMA ChildsParent ==
  ASSUME IInv, NEW p \in Nodes, NEW k \in 1 .. Len(children[p])
  PROVE  children[p][k] \in Nodes /\ parent[children[p][k]] = p
         /\ children[p][k] \in Range(children[p])
  <1>1. children[p] \in Seq(Nodes)
    BY DEF IInv, TypeOK
  <1>2. children[p][k] \in Nodes /\ children[p][k] \in Range(children[p])
    BY <1>1 DEF Range
  <1>3. QED
    BY <1>2 DEF IInv, LinksAgree, ValidLinks

\* Each call works on a child of the node of its caller.
LEMMA ChainParent ==
  ASSUME IInv, cleaning # << >>, CleanInv, NEW i \in 1 .. Len(cleaning) - 1
  PROVE  /\ parent[cleaning[i + 1].node] = cleaning[i].node
         /\ cleaning[i].idx + 1 \in 1 .. Len(children[cleaning[i].node])
         /\ children[cleaning[i].node][cleaning[i].idx + 1] = cleaning[i + 1].node
  <1> DEFINE n == cleaning[i].node
             k == cleaning[i].idx + 1
  <1>1. n \in Nodes /\ i \in 1 .. Len(cleaning) /\ i < Len(cleaning) /\ children[n] \in Seq(Nodes)
        /\ cleaning[i].idx \in Nat
    BY CleaningFrames
  <1>2. FrameInv(i)
    BY <1>1 DEF CleanInv
  <1>3. k \in 1 .. Len(children[n]) /\ children[n][k] = cleaning[i + 1].node
    BY <1>1, <1>2 DEF FrameInv
  <1> HIDE DEF k, n
  <1>4. parent[children[n][k]] = n
    BY <1>1, <1>3, ChildsParent
  <1>5. QED
    BY <1>3, <1>4 DEF k, n

\* The tree has no loop: the recursion never comes back to a node.
LEMMA ChainDistinct ==
  ASSUME IInv, Acyclic, cleaning # << >>, CleanInv, NEW i \in 1 .. Len(cleaning) - 1
  PROVE  cleaning[i].node # Top.node
  <1> DEFINE last == Len(cleaning)
             S == {cleaning[m].node : m \in i .. last - 1}
  <1>1. /\ last \in Nat /\ Top = cleaning[last]
        /\ \A m \in 1 .. last : cleaning[m].node \in Nodes
    BY CleaningFrames
  <1>2. \A m \in 1 .. last - 1 : parent[cleaning[m + 1].node] = cleaning[m].node
    BY ChainParent
  <1> HIDE DEF last
  <1>3. SUFFICES ASSUME cleaning[i].node = cleaning[last].node PROVE FALSE
    BY <1>1
  <1>4. i \in Nat /\ i >= 1 /\ i < last
    BY <1>1 DEF last
  <1>5. S \in (SUBSET Nodes) \ {{}}
    <2>1. cleaning[i].node \in S
      BY <1>1, <1>4
    <2>2. S \subseteq Nodes
      BY <1>1, <1>4
    <2>3. QED
      BY <2>1, <2>2
  <1>6. ASSUME NEW m \in i .. last - 1 PROVE parent[cleaning[m].node] \in S
    <2>1. CASE m = i
      <3>1. last - 1 \in 1 .. last - 1 /\ last - 1 \in i .. last - 1 /\ (last - 1) + 1 = last
        BY <1>1, <1>4
      <3>2. parent[cleaning[last].node] = cleaning[last - 1].node
        BY <1>2, <3>1
      <3>3. QED
        BY <1>3, <2>1, <3>1, <3>2
    <2>2. CASE m # i
      <3>1. m - 1 \in 1 .. last - 1 /\ m - 1 \in i .. last - 1 /\ (m - 1) + 1 = m
        BY <1>1, <1>4, <2>2
      <3>2. parent[cleaning[m].node] = cleaning[m - 1].node
        BY <1>2, <3>1
      <3>3. QED
        BY <3>1, <3>2
    <2>3. QED
      BY <2>1, <2>2
  <1>7. \A n \in S : parent[n] \in S
    BY <1>6
  <1> HIDE DEF S
  <1>8. QED
    BY <1>5, <1>7 DEF Acyclic

\* What is below a node is the node and what is below its children.
LEMMA CleanNode ==
  ASSUME IInv, NEW n \in Nodes, \A j \in 1 .. Len(children[n]) : CleanBelow(children[n][j])
  PROVE  \A m \in Below({n}, children) \ {n} : type[m] # "unknown"
  <1> DEFINE under == UNION {Below({c}, children) : c \in Range(children[n])}
             S == {n} \cup under
  <1>1. children \in [Nodes -> Seq(Nodes)] /\ {n} \in SUBSET Nodes
        /\ Range(children[n]) \subseteq Nodes
    BY DEF IInv, TypeOK, Range
  <1>2. \A c \in Range(children[n]) :
          c \in Below({c}, children) /\ Closed(Below({c}, children), children)
          /\ Below({c}, children) \subseteq Nodes
    BY <1>1, BelowSmallest
  <1>3. under \subseteq Nodes /\ Range(children[n]) \subseteq under
    BY <1>2
  <1>4. \A m \in under : Range(children[m]) \subseteq under
    BY <1>2 DEF Closed
  <1> HIDE DEF under
  <1>5. S \in SUBSET Nodes /\ {n} \subseteq S /\ Closed(S, children)
    BY <1>3, <1>4 DEF Closed
  <1>6. Below({n}, children) \subseteq S
    <2> HIDE DEF S
    <2>1. QED
      BY <1>1, <1>5, BelowSmallest
  <1>7. \A m \in under : type[m] # "unknown"
    <2> SUFFICES ASSUME NEW m \in under PROVE type[m] # "unknown"
      OBVIOUS
    <2>1. PICK c \in Range(children[n]) : m \in Below({c}, children)
      BY DEF under
    <2>2. PICK j \in 1 .. Len(children[n]) : c = children[n][j]
      BY <1>1 DEF Range
    <2>3. QED
      BY <2>1, <2>2 DEF CleanBelow
  <1>8. QED
    BY <1>6, <1>7

\* What was clean stays so when lists only get shorter and what is left lives.
LEMMA CleanPruned ==
  ASSUME IInv, IInv', NEW c \in Alive', CleanBelow(c),
         \A m \in Nodes : Range(children'[m]) \subseteq Range(children[m]),
         \A m \in Alive' : type'[m] = type[m]
  PROVE  CleanBelow(c)'
  <1> DEFINE old == Below({c}, children)
             new == Below({c}, children')
  <1>1. /\ children \in [Nodes -> Seq(Nodes)] /\ children' \in [Nodes -> Seq(Nodes)]
        /\ Alive' \subseteq Nodes /\ Owners(held', guards') \in SUBSET Nodes
        /\ Alive' = Below(Owners(held', guards'), children')
    BY OwnersAreNodes, BelowSmallest DEF IInv, TypeOK, Alive, Live
  <1>2. {c} \in SUBSET Nodes
    BY <1>1
  <1>3. c \in old /\ Closed(old, children) /\ old \subseteq Nodes
    BY <1>1, <1>2, BelowSmallest
  <1>4. Closed(Alive', children')
    BY <1>1, BelowSmallest
  <1>5. new \subseteq old
    <2>1. Closed(old, children')
      BY <1>3 DEF Closed
    <2> HIDE DEF old
    <2>2. QED
      BY <1>1, <1>2, <1>3, <2>1, BelowSmallest
  <1>6. new \subseteq Alive'
    <2>1. PICK L : L = Alive'
      OBVIOUS
    <2>2. L \in SUBSET Nodes /\ {c} \subseteq L /\ Closed(L, children')
      BY <1>1, <1>4, <2>1
    <2>3. Below({c}, children') \subseteq L
      BY <1>1, <1>2, <2>2, BelowSmallest
    <2>4. QED
      BY <2>1, <2>3
  <1>7. \A m \in new : type'[m] # "unknown"
    BY <1>5, <1>6 DEF CleanBelow
  <1>8. QED
    BY <1>7 DEF CleanBelow

\* A frame that a step leaves alone, with its place in the chain of calls.
LEMMA FrameStays ==
  ASSUME NEW i, FrameInv(i), i < Len(cleaning), i < Len(cleaning)',
         UNCHANGED <<type, children>>,
         cleaning'[i].node = cleaning[i].node, cleaning'[i].idx = cleaning[i].idx,
         cleaning'[i + 1].node = cleaning[i + 1].node
  PROVE  FrameInv(i)'
  <1>1. DoneFrom(i)' = DoneFrom(i)
    BY DEF DoneFrom
  <1>2. \A x : CleanBelow(x)' <=> CleanBelow(x)
    BY DEF CleanBelow
  <1>3. QED
    BY <1>1, <1>2 DEF FrameInv

\* clean_tree() enters a call: for a child with a known type, or the first.
LEMMA CleanCalls ==
  ASSUME IInv, CleanInv, cleaning # << >>, Top.idx > 0,
         NEW c \in Nodes, c = children[Top.node][Top.idx], type[c] # "unknown",
         cleaning' = Append(NextTurn, [node |-> c, idx |-> CleanFrom(c)]),
         UNCHANGED <<type, parent, children, lock, held, guards, exc>>
  PROVE  CleanInv'
  <1>0. PICK last : last = Len(cleaning)
    OBVIOUS
  <1>1. /\ last \in Nat /\ last >= 1 /\ Top = cleaning[last] /\ cleaning \in Seq(Frame)
        /\ \A i \in 1 .. last : cleaning[i].node \in Nodes /\ cleaning[i].idx \in Nat
        /\ \A i \in 1 .. last : children[cleaning[i].node] \in Seq(Nodes)
    BY <1>0, CleaningFrames DEF IInv, TypeOK
  <1>2. /\ NextTurn \in Seq(Frame) /\ Len(NextTurn) = last
        /\ \A i \in 1 .. last : NextTurn[i].node = cleaning[i].node
        /\ \A i \in 1 .. last :
              NextTurn[i].idx = IF i = last THEN cleaning[i].idx - 1 ELSE cleaning[i].idx
    <2>1. cleaning[last] \in Frame /\ cleaning[last].idx - 1 \in Nat
      <3>1. last \in 1 .. last /\ cleaning[last].idx > 0
        BY <1>1
      <3>2. cleaning[last].idx \in Nat
        BY <1>1, <3>1
      <3>3. cleaning[last] \in Frame
        BY <1>0, <1>1, <3>1
      <3>4. QED
        BY <3>1, <3>2, <3>3
    <2>2. [cleaning[last] EXCEPT !.idx = cleaning[last].idx - 1] \in Frame
      BY <2>1 DEF Frame
    <2>3. NextTurn = [cleaning EXCEPT
                        ![last] = [cleaning[last] EXCEPT !.idx = cleaning[last].idx - 1]]
      BY <1>0, <1>1 DEF NextTurn
    <2>4. /\ NextTurn \in Seq(Frame) /\ Len(NextTurn) = last
          /\ \A i \in 1 .. last : i # last => NextTurn[i] = cleaning[i]
          /\ NextTurn[last] = [cleaning[last] EXCEPT !.idx = cleaning[last].idx - 1]
      BY <1>0, <1>1, <2>2, <2>3
    <2>5. /\ [cleaning[last] EXCEPT !.idx = cleaning[last].idx - 1].node = cleaning[last].node
          /\ [cleaning[last] EXCEPT !.idx = cleaning[last].idx - 1].idx = cleaning[last].idx - 1
      BY <2>1 DEF Frame
    <2>6. QED
      BY <1>1, <2>4, <2>5
  <1>a. PICK new : new = [node |-> c, idx |-> CleanFrom(c)]
    OBVIOUS
  <1>3. new \in Frame /\ new.node = c /\ new.idx = Len(children[c]) /\ Len(children[c]) \in Nat
    <2>1. children[c] \in Seq(Nodes)
      BY DEF IInv, TypeOK
    <2>2. QED
      BY <1>a, <2>1 DEF CleanFrom, Frame
  <1>4. /\ cleaning' \in Seq(Frame) /\ Len(cleaning') = last + 1
        /\ \A i \in 1 .. last : cleaning'[i] = NextTurn[i]
        /\ cleaning'[last + 1] = new
    <2>1. PICK t : t = NextTurn
      OBVIOUS
    <2>2. t \in Seq(Frame) /\ Len(t) = last
      BY <1>2, <2>1, Zenon
    <2>3. cleaning' = Append(t, new)
      BY <1>a, <2>1, Zenon
    <2>4. /\ Append(t, new) \in Seq(Frame) /\ Len(Append(t, new)) = last + 1
          /\ \A i \in 1 .. last : Append(t, new)[i] = t[i]
          /\ Append(t, new)[last + 1] = new
      BY <1>3, <2>2
    <2>5. QED
      BY <2>1, <2>3, <2>4, Zenon
  <1>5. ASSUME NEW i \in 1 .. last, i < last PROVE FrameInv(i)'
    <2>1. /\ cleaning'[i].node = cleaning[i].node /\ cleaning'[i].idx = cleaning[i].idx
          /\ cleaning'[i + 1].node = cleaning[i + 1].node
          /\ i < Len(cleaning) /\ i < Len(cleaning')
      <3>1. i \in 1 .. last /\ i + 1 \in 1 .. last /\ i # last /\ i < last + 1
        BY <1>1, <1>5
      <3>2. cleaning'[i] = NextTurn[i] /\ cleaning'[i + 1] = NextTurn[i + 1]
        BY <1>4, <3>1
      <3>3. i < Len(cleaning) /\ i < Len(cleaning')
        BY <1>0, <1>4, <1>5, <3>1
      <3>4. QED
        BY <1>2, <3>1, <3>2, <3>3
    <2>2. FrameInv(i)
      BY <1>0 DEF CleanInv
    <2>3. QED
      BY <2>1, <2>2, FrameStays
  <1>6. FrameInv(last)'
    <2>1. /\ cleaning'[last].node = cleaning[last].node
          /\ cleaning'[last].idx = cleaning[last].idx - 1
          /\ cleaning'[last + 1].node = c /\ last < Len(cleaning')
          /\ ~ (last < Len(cleaning))
      BY <1>0, <1>1, <1>2, <1>3, <1>4
    <2>2. FrameInv(last)
      BY <1>0, <1>1 DEF CleanInv
    <2>3. DoneFrom(last)' = DoneFrom(last)
      BY <1>1, <2>1 DEF DoneFrom
    <2>4. cleaning[last].idx > 0 /\ children[cleaning[last].node][cleaning[last].idx] = c
          /\ cleaning[last].idx \in Nat
      BY <1>1
    <2> DEFINE n == cleaning[last].node
               k == cleaning[last].idx
    <2>5. /\ k \in 0 .. Len(children[n]) /\ (last > 1 => type[n] # "unknown")
          /\ \A j \in DoneFrom(last) .. Len(children[n]) : CleanBelow(children[n][j])
      BY <2>2 DEF FrameInv
    <2>6. Len(children[n]) \in Nat /\ k - 1 \in 0 .. Len(children[n])
          /\ k - 1 < Len(children[n]) /\ (k - 1) + 1 = k
      <3>1. children[n] \in Seq(Nodes)
        BY <1>1
      <3>2. Len(children[n]) \in Nat
        BY <3>1
      <3>3. k \in Nat /\ k > 0 /\ k <= Len(children[n])
        BY <2>4, <2>5, <3>2
      <3>4. QED
        BY <3>2, <3>3
    <2>7. \A x : CleanBelow(x)' <=> CleanBelow(x)
      BY DEF CleanBelow
    <2>8. QED
      BY <2>1, <2>3, <2>4, <2>5, <2>6, <2>7 DEF FrameInv
  <1>7. FrameInv(last + 1)'
    <2>1. cleaning'[last + 1].node = c /\ cleaning'[last + 1].idx = Len(children[c])
          /\ ~ (last + 1 < Len(cleaning')) /\ DoneFrom(last + 1)' = Len(children[c]) + 1
      BY <1>1, <1>3, <1>4 DEF DoneFrom
    <2>2. type'[c] # "unknown" /\ children'[c] = children[c]
          /\ Len(children[c]) \in 0 .. Len(children[c])
          /\ (Len(children[c]) + 1) .. Len(children[c]) = {}
      BY <1>3
    <2>3. QED
      BY <2>1, <2>2 DEF FrameInv
  <1>8. exc' = "none" /\ cleaning'[1].node \in held'
    BY <1>1, <1>2, <1>4 DEF CleanInv
  <1>9. ASSUME NEW i \in 1 .. last + 1 PROVE FrameInv(i)'
    <2>1. i = last + 1 \/ i = last \/ (i \in 1 .. last /\ i < last)
      BY <1>1
    <2>2. QED
      BY <1>5, <1>6, <1>7, <2>1
  <1>10. QED
    BY <1>4, <1>8, <1>9 DEF CleanInv

\* A call returns: what is below its node is clean, so is the node.
LEMMA CleanReturns ==
  ASSUME IInv, CleanInv, CleanReturn
  PROVE  /\ CleanInv'
         /\ \A m \in Below({Top.node}, children) \ {Top.node} : type[m] # "unknown"
  <1>a. PICK last, prev, n : last = Len(cleaning) /\ prev = last - 1 /\ n = Top.node
    OBVIOUS
  <1>0. cleaning # << >> /\ Top.idx = 0 /\ cleaning' = Front(cleaning)
        /\ UNCHANGED <<type, parent, children, lock, held, guards, exc>>
    BY DEF CleanReturn
  <1>1. /\ last \in Nat /\ last >= 1 /\ Top = cleaning[last] /\ cleaning \in Seq(Frame)
        /\ \A i \in 1 .. last : cleaning[i].node \in Nodes /\ cleaning[i].idx \in Nat
        /\ \A i \in 1 .. last : children[cleaning[i].node] \in Seq(Nodes)
    BY <1>a, <1>0, CleaningFrames DEF IInv, TypeOK
  <1>2. Len(cleaning') = prev /\ \A i \in 1 .. prev : cleaning'[i] = cleaning[i]
    BY <1>a, <1>0, <1>1, FrontElements
  <1>3. \A m \in Below({n}, children) \ {n} : type[m] # "unknown"
    <2>1. FrameInv(last)
      BY <1>a, <1>0, <1>1 DEF CleanInv
    <2>2. DoneFrom(last) = 1
      BY <1>a, <1>0, <1>1 DEF DoneFrom
    <2>3. \A j \in 1 .. Len(children[n]) : CleanBelow(children[n][j])
      BY <1>a, <1>1, <2>1, <2>2 DEF FrameInv
    <2>4. QED
      BY <1>a, <1>1, <2>3, CleanNode
  <1>4. CASE prev >= 1
    <2>1. type[n] # "unknown"
      <3>1. FrameInv(last)
        BY <1>a, <1>0, <1>1 DEF CleanInv
      <3>2. QED
        BY <1>a, <1>1, <1>4, <3>1 DEF FrameInv
    <2>2. CleanBelow(n)
      BY <1>a, <1>3, <2>1 DEF CleanBelow
    <2>3. ASSUME NEW i \in 1 .. prev, i < prev PROVE FrameInv(i)'
      <3>1. /\ cleaning'[i].node = cleaning[i].node /\ cleaning'[i].idx = cleaning[i].idx
            /\ cleaning'[i + 1].node = cleaning[i + 1].node
            /\ i < Len(cleaning) /\ i < Len(cleaning')
        BY <1>a, <1>1, <1>2, <2>3
      <3>2. FrameInv(i)
        BY <1>a, <1>0, <1>1, <1>4, <2>3 DEF CleanInv
      <3>3. QED
        BY <1>0, <3>1, <3>2, FrameStays
    <2>4. FrameInv(prev)'
      <3>1. /\ cleaning'[prev].node = cleaning[prev].node
            /\ cleaning'[prev].idx = cleaning[prev].idx
            /\ cleaning[prev + 1].node = n /\ prev < Len(cleaning)
            /\ ~ (prev < Len(cleaning'))
            /\ cleaning[prev].idx \in Nat
        BY <1>a, <1>1, <1>2, <1>4
      <3>2. FrameInv(prev)
        BY <1>a, <1>0, <1>1, <1>4 DEF CleanInv
      <3>3. /\ DoneFrom(prev)' = cleaning[prev].idx + 1
            /\ DoneFrom(prev) = cleaning[prev].idx + 2
        BY <1>a, <1>0, <3>1 DEF DoneFrom
      <3> DEFINE m == cleaning[prev].node
                 k == cleaning[prev].idx
      <3>4. /\ k \in 0 .. Len(children[m]) /\ (prev > 1 => type[m] # "unknown")
            /\ children[m][k + 1] = n
            /\ \A j \in k + 2 .. Len(children[m]) : CleanBelow(children[m][j])
        BY <3>1, <3>2, <3>3 DEF FrameInv
      <3>5. Len(children[m]) \in Nat
        BY <1>a, <1>1, <3>1
      <3>6. \A j \in k + 1 .. Len(children[m]) : CleanBelow(children[m][j])
        <4> SUFFICES ASSUME NEW j \in k + 1 .. Len(children[m])
                     PROVE  CleanBelow(children[m][j])
          OBVIOUS
        <4>1. j = k + 1 \/ j \in k + 2 .. Len(children[m])
          BY <3>1, <3>5
        <4>2. QED
          BY <2>2, <3>4, <4>1
      <3>7. \A x : CleanBelow(x)' <=> CleanBelow(x)
        BY <1>0 DEF CleanBelow
      <3>8. QED
        BY <1>0, <3>1, <3>3, <3>4, <3>6, <3>7 DEF FrameInv
    <2>5. exc' = "none" /\ cleaning'[1].node \in held'
      BY <1>a, <1>0, <1>1, <1>2, <1>4 DEF CleanInv
    <2>6. ASSUME NEW i \in 1 .. prev PROVE FrameInv(i)'
      <3>1. i < prev \/ i = prev
        BY <1>1, <1>a
      <3>2. QED
        BY <2>3, <2>4, <3>1
    <2>7. CleanInv'
      BY <1>2, <2>5, <2>6 DEF CleanInv
    <2>8. QED
      BY <1>3, <1>a, <2>7
  <1>5. CASE prev = 0
    <2>1. cleaning' = << >>
      BY <1>a, <1>0, <1>1, <1>2, <1>5, FrontElements
    <2>2. QED
      BY <1>a, <1>3, <2>1 DEF CleanInv
  <1>6. prev >= 1 \/ prev = 0
    BY <1>a, <1>1
  <1>7. QED
    BY <1>4, <1>5, <1>6

\* What delete_child() returns when it does not throw.
Without(kids, p, k) == [kids EXCEPT ![p] = RemoveAt(kids[p], k)]

LEMMA DeleteChildReturns ==
  ASSUME NEW t, Sound(t), NEW lk, NEW p \in Nodes, NEW index \in Int,
         DeleteChild(t, lk, p, index).exc = "none"
  PROVE  DeleteChild(t, lk, p, index).kids = Without(t.kids, p, index + 1)
  <1>0. PICK k : k = index + 1
    OBVIOUS
  <1> DEFINE c == t.kids[p][k]
             r == DeleteChild(t, lk, p, index)
  <1>1. t.kids \in [Nodes -> Seq(Nodes)] /\ t = [up |-> t.up, kids |-> t.kids, exc |-> t.exc]
        /\ Len(t.kids[p]) \in Nat
    BY DEF Sound, ValidTree, Tree
  <1>2. c \in Nodes /\ c \in Range(t.kids[p]) /\ k \in 1 .. Len(t.kids[p])
        /\ index \in 0 .. Len(t.kids[p]) - 1
    <2>1. index \in 0 .. Len(t.kids[p]) - 1
      BY DeleteChildTouches
    <2>2. k \in 1 .. Len(t.kids[p])
      BY <1>0, <1>1, <2>1
    <2>3. QED
      BY <1>1, <2>1, <2>2 DEF Range
  <1>3. t.up[c] = p /\ p # NoNode
    BY <1>2, NodesAssumption DEF Sound, ValidTree, ValidLinks
  <1>4. Position(t.kids, p, c) = k
    <2>1. IsInjective(t.kids[p]) /\ k \in DOMAIN t.kids[p]
      BY <1>1, <1>2 DEF Sound, ValidTree, ValidLinks
    <2>2. \A i \in DOMAIN t.kids[p] : t.kids[p][i] = c => i = k
      BY <2>1 DEF IsInjective
    <2>3. QED
      BY <2>1, <2>2 DEF Position
  <1>5. r = SetParent(t, lk, c, NoNode, -1)
    BY <1>0, <1>2 DEF DeleteChild
  <1> HIDE DEF c, r
  <1>6. r = AttachAt(Detach(t, c), c, NoNode, -1)
    <2>1. SetParent(t, lk, c, NoNode, -1).exc = "none" /\ NoNode # t.up[c]
      BY <1>3, <1>5 DEF r
    <2>2. SetParent(t, lk, c, NoNode, -1) = AttachAt(Detach(t, c), c, NoNode, -1)
      BY <1>2, <2>1, SetParentReturns
    <2>3. QED
      BY <1>5, <2>2
  <1>7. r = RemoveLink(t, c, p)
    BY <1>3, <1>6 DEF AttachAt, Detach
  <1>8. r.kids = [t.kids EXCEPT ![p] = RemoveAt(t.kids[p], k)]
    BY <1>1, <1>4, <1>7 DEF RemoveLink
  <1>9. QED
    BY <1>0, <1>8 DEF r, Without

\* The nodes clean_tree() works on survive what it deletes: the first is held
\* and each of the others is a child of the one before.  As the tree has no
\* loop, the first node of the chain to disappear would have kept its parent.
LEMMA ChainSurvives ==
  ASSUME IInv, Acyclic, CleanInv, cleaning # << >>,
         NEW kids \in [Nodes -> Seq(Nodes)],
         \A i \in 1 .. Len(cleaning) - 1 :
            cleaning[i + 1].node \in Range(kids[cleaning[i].node])
  PROVE  \A i \in 1 .. Len(cleaning) : cleaning[i].node \in Live(held, guards, kids)
  <1> DEFINE last == Len(cleaning)
             L == Live(held, guards, kids)
             S == {cleaning[i].node : i \in {j \in 1 .. last : cleaning[j].node \notin L}}
  <1>1. /\ last \in Nat
        /\ \A m \in 1 .. last : cleaning[m].node \in Nodes
    BY CleaningFrames
  <1>2. Owners(held, guards) \in SUBSET Nodes
    BY OwnersAreNodes DEF IInv, TypeOK
  <1>3. /\ Owners(held, guards) \subseteq L /\ Closed(L, kids)
    BY <1>2, BelowSmallest DEF Live
  <1>4. cleaning[1].node \in L
    BY <1>3 DEF CleanInv, Owners
  <1>5. \A i \in 1 .. last - 1 : parent[cleaning[i + 1].node] = cleaning[i].node
    BY ChainParent
  <1> HIDE DEF L
  <1>6. SUFFICES ASSUME S # {} PROVE FALSE
    BY DEF L
  <1>7. S \in (SUBSET Nodes) \ {{}}
    BY <1>1, <1>6
  <1>8. ASSUME NEW i \in 1 .. last, cleaning[i].node \notin L
        PROVE  parent[cleaning[i].node] \in S
    <2>1. i # 1
      BY <1>4, <1>8
    <2>2. i - 1 \in 1 .. last - 1 /\ (i - 1) + 1 = i /\ i - 1 \in 1 .. last
      BY <1>1, <2>1
    <2>3. cleaning[i].node \in Range(kids[cleaning[i - 1].node])
          /\ parent[cleaning[i].node] = cleaning[i - 1].node
      BY <1>5, <2>2
    <2>4. cleaning[i - 1].node \notin L
      BY <1>3, <1>8, <2>3 DEF Closed
    <2>5. QED
      BY <2>2, <2>3, <2>4
  <1>9. \A n \in S : parent[n] \in S
    BY <1>8
  <1> HIDE DEF S
  <1>10. QED
    BY <1>7, <1>9 DEF Acyclic

\* The child under the index is deleted.
LEMMA CleanDeletes ==
  ASSUME IInv, IInv', Acyclic, CleanInv, cleaning # << >>, Top.idx > 0,
         NEW t, t = DeleteChild(CurrentTree, lock, Top.node, ChildIndex),
         Finish(t), exc' = "none", cleaning' = NextTurn
  PROVE  CleanInv'
  <1>0. PICK last, p, k : last = Len(cleaning) /\ p = Top.node /\ k = Top.idx
    OBVIOUS
  <1>1. /\ last \in Nat /\ last >= 1 /\ Top = cleaning[last] /\ cleaning \in Seq(Frame)
        /\ \A i \in 1 .. last : cleaning[i].node \in Nodes /\ cleaning[i].idx \in Nat
        /\ \A i \in 1 .. last : children[cleaning[i].node] \in Seq(Nodes)
        /\ last \in 1 .. last
    BY <1>0, CleaningFrames DEF IInv, TypeOK
  <1>2. FrameInv(last) /\ p = cleaning[last].node /\ k = cleaning[last].idx
    BY <1>0, <1>1 DEF CleanInv
  <1>3. /\ p \in Nodes /\ children[p] \in Seq(Nodes) /\ Len(children[p]) \in Nat
        /\ k \in 1 .. Len(children[p]) /\ ChildIndex = k - 1
    <2>1. p \in Nodes /\ children[p] \in Seq(Nodes) /\ k \in Nat /\ k > 0 /\ ChildIndex = k - 1
      BY <1>0, <1>1, <1>2 DEF ChildIndex
    <2>2. k \in 0 .. Len(children[p])
      BY <1>2 DEF FrameInv
    <2>3. QED
      BY <2>1, <2>2
  <1>4. /\ Sound(CurrentTree) /\ CurrentTree.kids = children
        /\ children \in [Nodes -> Seq(Nodes)]
    BY CurrentTreeSound DEF IInv, TypeOK, CurrentTree
  <1>5. t.exc = "none" /\ Settle(t, held, guards)
    BY DEF Finish
  <1>6. t.kids = [children EXCEPT ![p] = RemoveAt(children[p], k)]
    <2>1. PICK T, i : T = CurrentTree /\ i = ChildIndex
      OBVIOUS
    <2>2. Sound(T) /\ k \in 1 .. Len(T.kids[p]) /\ T.kids = children /\ i = k - 1
      BY <1>3, <1>4, <2>1
    <2>3. t = DeleteChild(T, lock, p, i) /\ t.exc = "none"
      BY <1>0, <1>5, <2>1
    <2>4. DeleteChild(T, lock, p, i).kids = Without(T.kids, p, i + 1)
      <3>1. i \in Int /\ DeleteChild(T, lock, p, i).exc = "none"
        BY <1>3, <2>2, <2>3
      <3>2. QED
        BY <1>3, <2>2, <3>1, DeleteChildReturns
    <2>5. i + 1 = k
      BY <1>3, <2>2
    <2>6. QED
      BY <2>2, <2>3, <2>4, <2>5 DEF Without
  <1>7. Sound(t) /\ t.kids \in [Nodes -> Seq(Nodes)]
    <2>1. Sound(t)
      BY <1>0, <1>3, <1>4, DeleteChildSound
    <2>2. QED
      BY <2>1 DEF Sound, ValidTree, Tree
  <1>8. /\ RemoveAt(children[p], k) \in Seq(Nodes)
        /\ Len(RemoveAt(children[p], k)) = Len(children[p]) - 1
        /\ \A j \in 1 .. Len(children[p]) - 1 :
              RemoveAt(children[p], k)[j] = IF j < k THEN children[p][j] ELSE children[p][j + 1]
        /\ Range(RemoveAt(children[p], k)) \subseteq Range(children[p])
    <2>1. IsInjective(children[p])
      BY <1>3 DEF IInv, LinksAgree, ValidLinks
    <2>2. /\ RemoveAt(children[p], k) \in Seq(Nodes)
          /\ Len(RemoveAt(children[p], k)) = Len(children[p]) - 1
          /\ \A j \in 1 .. Len(children[p]) - 1 :
                RemoveAt(children[p], k)[j] = IF j < k THEN children[p][j] ELSE children[p][j + 1]
      BY <1>3, RemoveAtElements
    <2>3. Range(RemoveAt(children[p], k)) = Range(children[p]) \ {children[p][k]}
      BY <1>3, <2>1, RemoveAtInjective
    <2>4. QED
      BY <2>2, <2>3
  <1>9. /\ \A i \in 1 .. last - 1 : cleaning[i].node # p
        /\ \A i \in 1 .. last - 1 : cleaning[i + 1].node \in Range(children[cleaning[i].node])
    <2>1. \A i \in 1 .. last - 1 : cleaning[i].node # p
      BY <1>0, ChainDistinct
    <2>2. ASSUME NEW i \in 1 .. last - 1
          PROVE  cleaning[i + 1].node \in Range(children[cleaning[i].node])
      <3>1. /\ cleaning[i].idx + 1 \in 1 .. Len(children[cleaning[i].node])
            /\ children[cleaning[i].node][cleaning[i].idx + 1] = cleaning[i + 1].node
        BY <1>0, ChainParent
      <3>2. cleaning[i].node \in Nodes
        BY <1>1
      <3>3. QED
        BY <3>1, <3>2, ChildsParent
    <2>3. QED
      BY <2>1, <2>2
  <1>10. PICK L : L = Live(held, guards, t.kids)
    OBVIOUS
  <1>11. \A i \in 1 .. last : cleaning[i].node \in L
    <2>1. \A i \in 1 .. last - 1 : cleaning[i + 1].node \in Range(t.kids[cleaning[i].node])
      <3>1. ASSUME NEW i \in 1 .. last - 1
            PROVE  t.kids[cleaning[i].node] = children[cleaning[i].node]
        <4>1. i \in 1 .. last
          BY <1>1
        <4>2. cleaning[i].node \in Nodes /\ cleaning[i].node # p
          BY <1>1, <1>9, <4>1
        <4>3. QED
          BY <1>4, <1>6, <4>2
      <3>2. QED
        BY <1>9, <3>1
    <2>2. QED
      BY <1>0, <1>7, <1>10, <2>1, ChainSurvives
  <1>12. Alive' = L /\ children' = ReapedChildren(t.kids, L) /\ type' = ReapedType(L)
         /\ held' = held
    <2>1. held \in SUBSET Nodes /\ guards \in Seq(Nodes \cup {NoNode}) /\ TypeOK
      BY DEF IInv, TypeOK
    <2>2. QED
      BY <1>5, <1>7, <1>10, <2>1, SettleSound DEF Settle
  <1>13. L \subseteq Nodes /\ Closed(L, t.kids)
    <2>1. Owners(held, guards) \in SUBSET Nodes
      BY OwnersAreNodes DEF IInv, TypeOK
    <2>2. QED
      BY <1>7, <1>10, <2>1, BelowSmallest DEF Live
  <1>14. ASSUME NEW c \in L, CleanBelow(c) PROVE CleanBelow(c)'
    <2>1. \A m \in Nodes : Range(children'[m]) \subseteq Range(children[m])
      <3> SUFFICES ASSUME NEW m \in Nodes
                   PROVE  Range(children'[m]) \subseteq Range(children[m])
        OBVIOUS
      <3>1. children'[m] \in {t.kids[m], << >>}
        BY <1>12 DEF ReapedChildren
      <3>2. Range(t.kids[m]) \subseteq Range(children[m])
        BY <1>3, <1>4, <1>6, <1>8
      <3>3. Range(<< >>) = {}
        BY DEF Range
      <3>4. QED
        BY <3>1, <3>2, <3>3
    <2>2. \A m \in Alive' : type'[m] = type[m]
      BY <1>12, <1>13 DEF ReapedType
    <2>3. QED
      BY <1>12, <1>14, <2>1, <2>2, CleanPruned
  <1>15. /\ Len(cleaning') = last
         /\ \A i \in 1 .. last : i # last => cleaning'[i] = cleaning[i]
         /\ cleaning'[last].node = p /\ cleaning'[last].idx = k - 1
    <2>1. cleaning[last] \in Frame
      BY <1>0, <1>1
    <2>2. cleaning' = [cleaning EXCEPT ![last] = [cleaning[last] EXCEPT !.idx = k - 1]]
      BY <1>0, <1>1 DEF NextTurn
    <2>3. /\ [cleaning[last] EXCEPT !.idx = k - 1].node = p
          /\ [cleaning[last] EXCEPT !.idx = k - 1].idx = k - 1
      BY <1>2, <2>1 DEF Frame
    <2>4. QED
      BY <1>0, <1>1, <2>2, <2>3
  <1>16. ASSUME NEW i \in 1 .. last, i # last PROVE FrameInv(i)'
    <2>1. PICK n : n = cleaning[i].node
      OBVIOUS
    <2>2. /\ n \in Nodes /\ n # p /\ n \in L /\ i \in 1 .. last - 1 /\ i < last
      BY <1>1, <1>9, <1>11, <1>16, <2>1
    <2>3. /\ cleaning'[i] = cleaning[i] /\ cleaning'[i + 1].node = cleaning[i + 1].node
          /\ i < Len(cleaning) /\ i < Len(cleaning')
      <3>1. i + 1 \in 1 .. last
        BY <1>1, <2>2
      <3>2. i + 1 = last => cleaning'[i + 1].node = cleaning[i + 1].node
        BY <1>2, <1>15
      <3>3. i + 1 # last => cleaning'[i + 1].node = cleaning[i + 1].node
        BY <1>15, <3>1
      <3>4. QED
        BY <1>0, <1>15, <1>16, <2>2, <3>2, <3>3
    <2>4. children'[n] = children[n] /\ type'[n] = type[n]
      BY <1>4, <1>6, <1>12, <2>2 DEF ReapedChildren, ReapedType
    <2>5. FrameInv(i)
      BY <1>0 DEF CleanInv
    <2>6. DoneFrom(i)' = DoneFrom(i) /\ DoneFrom(i) = cleaning[i].idx + 2
      BY <2>3 DEF DoneFrom
    <2>7. ASSUME NEW j \in DoneFrom(i) .. Len(children[n]) PROVE CleanBelow(children[n][j])'
      <3>1. CleanBelow(children[n][j])
        BY <2>1, <2>5 DEF FrameInv
      <3>2. PICK c : c = children[n][j]
        OBVIOUS
      <3>3. c \in L
        <4>1. j \in 1 .. Len(children[n])
          BY <1>1, <2>1, <2>6
        <4>2. c \in Range(children[n])
          BY <2>2, <3>2, <4>1, ChildsParent
        <4>3. t.kids[n] = children[n]
          BY <1>4, <1>6, <2>2
        <4>4. QED
          BY <1>13, <2>2, <4>2, <4>3 DEF Closed
      <3>4. CleanBelow(c)'
        BY <1>14, <3>1, <3>2, <3>3
      <3>5. children'[n][j] = c
        BY <2>4, <3>2
      <3>6. QED
        BY <3>4, <3>5
    <2>8. QED
      BY <2>1, <2>3, <2>4, <2>5, <2>6, <2>7 DEF FrameInv
  <1>17. FrameInv(last)'
    <2>1. /\ p \in L /\ children'[p] = RemoveAt(children[p], k) /\ type'[p] = type[p]
      BY <1>2, <1>3, <1>1, <1>4, <1>6, <1>11, <1>12 DEF ReapedChildren, ReapedType
    <2>2. Len(children'[p]) = Len(children[p]) - 1 /\ k - 1 \in 0 .. Len(children'[p])
      BY <1>3, <1>8, <2>1
    <2>3. DoneFrom(last)' = k /\ DoneFrom(last) = k + 1
      BY <1>0, <1>2, <1>3, <1>15 DEF DoneFrom
    <2>4. ASSUME NEW j \in k .. Len(children'[p]) PROVE CleanBelow(children[p][j])'
      <3>1. /\ children'[p][j] = children[p][j + 1]
            /\ j + 1 \in k + 1 .. Len(children[p])
        <4>1. j \in 1 .. Len(children[p]) - 1 /\ ~ (j < k)
          BY <1>3, <2>2
        <4>2. QED
          BY <1>3, <1>8, <2>1, <4>1
      <3>2. CleanBelow(children[p][j + 1])
        BY <1>2, <2>3, <3>1 DEF FrameInv
      <3>3. PICK c : c = children[p][j + 1]
        OBVIOUS
      <3>4. c \in L
        <4>1. j \in DOMAIN RemoveAt(children[p], k) /\ RemoveAt(children[p], k)[j] = c
          BY <1>3, <1>8, <2>1, <3>1, <3>3
        <4>2. c \in Range(t.kids[p])
          BY <1>3, <1>4, <1>6, <4>1 DEF Range
        <4>3. QED
          BY <1>13, <2>1, <4>2 DEF Closed
      <3>5. CleanBelow(c)'
        BY <1>14, <3>2, <3>3, <3>4
      <3>6. QED
        BY <3>1, <3>3, <3>5
    <2>5. last > 1 => type[p] # "unknown"
      BY <1>2 DEF FrameInv
    <2>6. cleaning'[last].node = p /\ cleaning'[last].idx = k - 1 /\ ~ (last < Len(cleaning'))
      BY <1>1, <1>15
    <2>7. QED
      BY <2>1, <2>2, <2>3, <2>4, <2>5, <2>6 DEF FrameInv
  <1>18. cleaning'[1].node \in held'
    <2>1. cleaning'[1].node = cleaning[1].node
      BY <1>1, <1>2, <1>15
    <2>2. QED
      BY <1>12, <2>1 DEF CleanInv
  <1>19. QED
    BY <1>15, <1>16, <1>17, <1>18 DEF CleanInv

LEMMA CleanStarts ==
  ASSUME IInv, NEW n \in Nodes, CallCleanTree(n)
  PROVE  CleanInv'
  <1>1. PICK f : f = [node |-> n, idx |-> CleanFrom(n)]
    OBVIOUS
  <1>2. children[n] \in Seq(Nodes) /\ Len(children[n]) \in Nat
    BY DEF IInv, TypeOK
  <1>3. f.node = n /\ f.idx = Len(children[n])
    BY <1>1 DEF CleanFrom
  <1>4. cleaning' = << f >> /\ Len(cleaning') = 1 /\ cleaning'[1] = f
        /\ UNCHANGED <<type, children, held, exc>> /\ n \in held /\ exc = "none"
    BY <1>1 DEF CallCleanTree, Running
  <1>5. FrameInv(1)'
    <2>1. DoneFrom(1)' = Len(children[n]) + 1
      BY <1>2, <1>3, <1>4 DEF DoneFrom
    <2>2. (Len(children[n]) + 1) .. Len(children[n]) = {}
          /\ Len(children[n]) \in 0 .. Len(children[n]) /\ ~ (1 > 1) /\ ~ (1 < 1)
      BY <1>2
    <2>3. QED
      BY <1>3, <1>4, <2>1, <2>2 DEF FrameInv
  <1>6. QED
    BY <1>3, <1>4, <1>5 DEF CleanInv

LEMMA CleanTurn ==
  ASSUME IInv, IInv', Acyclic, CleanInv, CleanChild
  PROVE  CleanInv'
  <1>0. exc = "none" /\ cleaning # << >> /\ Top.idx > 0
    BY DEF CleanChild
  <1>1. PICK c \in Nodes :
          /\ c = children[Top.node][Top.idx]
          /\ \/ /\ Finish(DeleteChild(CurrentTree, lock, Top.node, ChildIndex))
                /\ cleaning' = IF exc' = "none" THEN NextTurn ELSE << >>
             \/ /\ type[c] # "unknown"
                /\ cleaning' = Append(NextTurn, [node |-> c, idx |-> CleanFrom(c)])
                /\ UNCHANGED <<type, parent, children, lock, held, guards, exc>>
    BY DEF CleanChild
  <1>2. CASE /\ type[c] # "unknown"
             /\ cleaning' = Append(NextTurn, [node |-> c, idx |-> CleanFrom(c)])
             /\ UNCHANGED <<type, parent, children, lock, held, guards, exc>>
    BY <1>0, <1>1, <1>2, CleanCalls
  <1>3. CASE /\ Finish(DeleteChild(CurrentTree, lock, Top.node, ChildIndex))
             /\ cleaning' = IF exc' = "none" THEN NextTurn ELSE << >>
    <2>1. PICK t : t = DeleteChild(CurrentTree, lock, Top.node, ChildIndex)
      OBVIOUS
    <2>2. CASE exc' = "none"
      <3>1. Finish(t) /\ cleaning' = NextTurn
        BY <1>3, <2>1, <2>2
      <3>2. QED
        BY <1>0, <2>1, <2>2, <3>1, CleanDeletes
    <2>3. CASE exc' # "none"
      BY <1>3, <2>3 DEF CleanInv
    <2>4. QED
      BY <2>2, <2>3
  <1>4. QED
    BY <1>1, <1>2, <1>3

LEMMA StepClean ==
  ASSUME IInv, IInv', Acyclic, CleanInv, [Next]_vars
  PROVE  CleanInv'
  <1>1. CASE UNCHANGED vars
    BY <1>1 DEF vars, CleanInv, FrameInv, DoneFrom, CleanBelow
  <1>2. CASE cleaning = << >> /\ UNCHANGED cleaning
    BY <1>2 DEF CleanInv
  <1>3. ASSUME NEW n \in Nodes, CallCleanTree(n) PROVE CleanInv'
    BY <1>3, CleanStarts
  <1>4. CASE CleanChild
    BY <1>4, CleanTurn
  <1>5. CASE CleanReturn
    BY <1>5, CleanReturns
  <1>6. CASE Catch
    BY <1>2, <1>6 DEF Catch, CleanInv
  <1>7. QED
    BY <1>1, <1>2, <1>3, <1>4, <1>5, <1>6
    DEF Next, Running, CallSetParent, CallInsertChild, CallDeleteChild, CallSetChild,
        CallReplaceWith, ToUnknown, Create, Hold, Drop, GuardLock, GuardUnlock, GuardEnd

\* The last return: the frame that is left is that of the call itself.
LEMMA CleanEnds ==
  ASSUME IInv, CleanInv, [Next]_vars,
         cleaning # << >>, cleaning' = << >>, exc' = "none"
  PROVE  \A n \in Below({cleaning[1].node}, children) \ {cleaning[1].node} : type[n] # "unknown"
  <1>1. exc = "none"
    BY DEF CleanInv
  <1>2. Len(cleaning) \in Nat /\ cleaning \in Seq(Frame) /\ Len(cleaning) >= 1
        /\ Top = cleaning[Len(cleaning)]
    BY CleaningFrames DEF IInv, TypeOK
  <1>3. ASSUME CleanChild PROVE FALSE
    <2>1. cleaning' \in Seq(Frame) => cleaning' # << >>
      <3>1. NextTurn # << >>
        BY <1>2 DEF NextTurn
      <3>2. \A f : Append(NextTurn, f) # << >>
        BY <1>2 DEF NextTurn
      <3>3. QED
        BY <1>3, <3>1, <3>2 DEF CleanChild
    <2>2. QED
      BY <2>1
  <1>4. CleanReturn
    BY <1>1, <1>3
    DEF Next, vars, Running, CallSetParent, CallInsertChild, CallDeleteChild, CallSetChild,
        CallReplaceWith, ToUnknown, CallCleanTree, Create, Hold, Drop, GuardLock, GuardUnlock,
        GuardEnd, Catch
  <1>5. Len(cleaning) = 1
    <2>1. Front(cleaning) = << >> /\ Len(Front(cleaning)) = Len(cleaning) - 1
      BY <1>2, <1>4, FrontElements DEF CleanReturn
    <2>2. QED
      BY <1>2, <2>1
  <1>6. QED
    BY <1>2, <1>4, <1>5, CleanReturns

\* Of the nodes of the tree only the deleted child, which is unknown, loses its
\* parent; the others that do lose it to the destruction of that child.
LEMMA CleanOnlyUnknown ==
  ASSUME IInv, CleanChild, NEW n \in Nodes, parent'[n] # parent[n]
  PROVE  type[n] = "unknown" \/ parent[n] \notin Alive'
  <1>0. cleaning # << >> /\ Top.idx > 0
    BY DEF CleanChild
  <1>1. PICK c \in Nodes :
          /\ c = children[Top.node][Top.idx]
          /\ type[c] = "unknown"
          /\ Finish(DeleteChild(CurrentTree, lock, Top.node, ChildIndex))
    BY DEF CleanChild
  <1>2. Top.node \in Nodes /\ Top.idx \in Nat /\ ChildIndex \in Int /\ ChildIndex + 1 = Top.idx
    <2>1. Top.node \in Nodes /\ Top.idx \in Nat
      BY <1>0, CleaningFrames
    <2>2. QED
      BY <1>0, <2>1 DEF ChildIndex
  <1>3. PICK t : t = DeleteChild(CurrentTree, lock, Top.node, ChildIndex)
    OBVIOUS
  <1>4. /\ Sound(CurrentTree) /\ CurrentTree.kids = children /\ CurrentTree.up = parent
        /\ parent \in [Nodes -> Nodes \cup {NoNode}]
    BY CurrentTreeSound DEF CurrentTree, IInv, TypeOK
  <1>5. Sound(t)
    BY <1>2, <1>3, <1>4, DeleteChildSound
  <1>6. t.up[n] # parent[n] => n = c
    <2>1. PICK T, p, i : T = CurrentTree /\ p = Top.node /\ i = ChildIndex
      OBVIOUS
    <2>2. Sound(T) /\ p \in Nodes /\ i \in Int
      BY <1>2, <1>4, <2>1
    <2>3. DeleteChild(T, lock, p, i).up[n] # T.up[n] => n = T.kids[p][i + 1]
      BY <2>2, DeleteChildTouches
    <2>4. T.kids[p][i + 1] = c
      BY <1>1, <1>2, <1>4, <2>1
    <2>5. QED
      BY <1>3, <1>4, <2>1, <2>3, <2>4
  <1>7. /\ parent' = ReapedParent(t.up, Alive') /\ Closed(Alive', t.kids)
    <2>1. Settle(t, held, guards)
      BY <1>1, <1>3 DEF Finish
    <2>2. held \in SUBSET Nodes /\ guards \in Seq(Nodes \cup {NoNode}) /\ TypeOK
      BY DEF IInv, TypeOK
    <2>3. Alive' = Live(held, guards, t.kids)
      BY <1>5, <2>1, <2>2, SettleSound
    <2>4. Closed(Live(held, guards, t.kids), t.kids)
      <3>1. Owners(held, guards) \in SUBSET Nodes /\ t.kids \in [Nodes -> Seq(Nodes)]
        BY <1>5, <2>2, OwnersAreNodes DEF Sound, ValidTree, Tree
      <3>2. QED
        BY <3>1, BelowSmallest DEF Live
    <2>5. QED
      BY <2>1, <2>3, <2>4 DEF Settle
  <1>8. CASE t.up[n] = parent[n]
    <2>1. SUFFICES ASSUME parent[n] \in Alive' PROVE FALSE
      OBVIOUS
    <2>2. n \notin Alive' /\ parent[n] # NoNode
      BY <1>7, <1>8, <2>1 DEF ReapedParent
    <2>3. parent[n] \in Nodes /\ n \in Range(t.kids[parent[n]])
      BY <1>4, <1>5, <1>8, <2>2 DEF Sound, ValidTree, ValidLinks
    <2>4. QED
      BY <1>7, <2>1, <2>2, <2>3 DEF Closed
  <1>9. QED
    BY <1>1, <1>6, <1>8

\* clean_tree() that returns left no NODE_UNKNOWN below, and took nothing else
\* out of the tree, for any tree and any depth of the recursion.
THEOREM CleansAll ==
  ASSUME ~ AllowLoops
  PROVE  Spec => CleanComplete
  <1>1. Spec => []IInv
    BY Invariance
  <1>2. Spec => []Acyclic
    BY NeverALoop
  <1>3. Init => CleanInv
    BY DEF Init, CleanInv
  <1>4. IInv /\ IInv' /\ Acyclic /\ CleanInv /\ [Next]_vars => CleanInv'
    BY StepClean
  <1>5. IInv /\ CleanInv /\ [Next]_vars
        => [/\ cleaning # << >> /\ cleaning' = << >> /\ exc' = "none"
               => \A n \in Below({cleaning[1].node}, children) \ {cleaning[1].node} :
                     type[n] # "unknown"
            /\ CleanChild
               => \A n \in Nodes : parent'[n] # parent[n] =>
                     type[n] = "unknown" \/ parent[n] \notin Alive']_vars
    BY CleanEnds, CleanOnlyUnknown
  <1>6. QED
    BY <1>1, <1>2, <1>3, <1>4, <1>5, PTL DEF Spec, CleanComplete
=============================================================================
