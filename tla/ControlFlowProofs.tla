------------------------- MODULE ControlFlowProofs --------------------------
(***************************************************************************)
(* Proofs about ControlFlow, for every set of programs and functions: how  *)
(* the calls of directive_list() and the tree of directives go together,   *)
(* which namespaces are in use and what is known of try, catch and finally.*)
(* Recursion gives the inductions, on the tree, as facts about sets.       *)
(***************************************************************************)
EXTENDS ControlFlow, Recursion

-----------------------------------------------------------------------------
(* Paths, and the directives as a tree.                                    *)

Paths == Seq(Nat)

\* The number of the list in which p is.
List(p) == p[Len(p) - 1]

\* What a directive of a list is, from the owner of the list.
LEMMA ChildFacts ==
    ASSUME NEW o \in Paths, NEW k \in Nat, NEW i \in Nat
    PROVE  /\ o \o <<k, i>> \in Paths
           /\ Len(o \o <<k, i>>) = Len(o) + 2
           /\ Owner(o \o <<k, i>>) = o
           /\ List(o \o <<k, i>>) = k
           /\ Last(o \o <<k, i>>) = i
           /\ \A j \in Nat : Sibling(o \o <<k, i>>, j) = o \o <<k, j>>
  <1>1. PICK n \in Nat : n = Len(o)
    BY LenProperties DEF Paths
  <1>2. PICK c : c = o \o <<k, i>>
    OBVIOUS
  <1>3. /\ <<k, i>> \in Paths /\ Len(<<k, i>>) = 2
        /\ <<k, i>>[1] = k /\ <<k, i>>[2] = i
    BY DEF Paths
  <1>4. /\ c \in Paths /\ Len(c) = n + 2
        /\ \A m \in 1..(n + 2) : c[m] = IF m <= n THEN o[m] ELSE <<k, i>>[m - n]
    BY <1>1, <1>2, <1>3, ConcatProperties DEF Paths
  <1>5. c[n + 1] = k /\ c[n + 2] = i /\ \A m \in 1..n : c[m] = o[m]
    <2>1. n + 1 \in 1..(n + 2) /\ n + 2 \in 1..(n + 2) /\ ~(n + 1 <= n) /\ ~(n + 2 <= n)
          /\ (n + 1) - n = 1 /\ (n + 2) - n = 2
          /\ \A m \in 1..n : m \in 1..(n + 2) /\ m <= n
      OBVIOUS
    <2> QED  BY <1>3, <1>4, <2>1
  <1>6. Owner(c) = o
    <2>1. \A m \in 1..n : c[m] \in Nat
      BY <1>4 DEF Paths
    <2>2. /\ SubSeq(c, 1, n) \in Paths /\ Len(SubSeq(c, 1, n)) = n
          /\ \A m \in 1..n : SubSeq(c, 1, n)[m] = c[m]
      BY <2>1, SubSeqProperties DEF Paths
    <2>3. SubSeq(c, 1, n) = o
      BY <1>1, <1>5, <2>2, SeqEqual DEF Paths
    <2>4. Len(c) - 2 = n
      BY <1>4
    <2> QED  BY <2>3, <2>4 DEF Owner
  <1>7. ASSUME NEW j \in Nat PROVE Sibling(c, j) = o \o <<k, j>>
    <2>1. PICK d : d = o \o <<k, j>>
      OBVIOUS
    <2>2. /\ <<k, j>> \in Paths /\ Len(<<k, j>>) = 2
          /\ <<k, j>>[1] = k /\ <<k, j>>[2] = j
      BY DEF Paths
    <2>3. /\ d \in Paths /\ Len(d) = n + 2
          /\ \A m \in 1..(n + 2) : d[m] = IF m <= n THEN o[m] ELSE <<k, j>>[m - n]
      BY <1>1, <2>1, <2>2, ConcatProperties DEF Paths
    <2>4. PICK e : e = SubSeq(c, 1, n + 1)
      OBVIOUS
    <2>5. \A m \in 1..(n + 1) : c[m] \in Nat
      BY <1>4 DEF Paths
    <2>6. /\ e \in Paths /\ Len(e) = n + 1 /\ \A m \in 1..(n + 1) : e[m] = c[m]
      BY <2>4, <2>5, SubSeqProperties DEF Paths
    <2>7. <<j>> \in Paths /\ Len(<<j>>) = 1 /\ <<j>>[1] = j
      BY DEF Paths
    <2>8. PICK g : g = e \o <<j>>
      OBVIOUS
    <2>9. /\ g \in Paths /\ Len(g) = n + 2
          /\ \A m \in 1..(n + 2) : g[m] = IF m <= n + 1 THEN e[m] ELSE <<j>>[m - (n + 1)]
      BY <2>6, <2>7, <2>8, ConcatProperties DEF Paths
    <2>10. \A m \in 1..(n + 2) : m = n + 2 \/ m = n + 1 \/ m \in 1..n
      OBVIOUS
    <2>11. /\ n + 2 \in 1..(n + 2) /\ n + 1 \in 1..(n + 2) /\ n + 1 \in 1..(n + 1)
           /\ (n + 2) - n = 2 /\ (n + 1) - n = 1 /\ (n + 2) - (n + 1) = 1
           /\ ~(n + 2 <= n + 1) /\ ~(n + 2 <= n) /\ ~(n + 1 <= n)
           /\ \A m \in 1..n : m \in 1..(n + 2) /\ m \in 1..(n + 1) /\ m <= n /\ m <= n + 1
      OBVIOUS
    <2>12. \A m \in 1..(n + 2) : g[m] = d[m]
      BY <1>5, <2>2, <2>3, <2>6, <2>7, <2>9, <2>10, <2>11
    <2>13. g = d
      BY <2>3, <2>9, <2>12, SeqEqual DEF Paths
    <2>14. Front(c) = e
      BY <1>4, <2>4 DEF Front
    <2> QED  BY <2>1, <2>8, <2>13, <2>14 DEF Sibling
  <1>8. /\ Len(c) = Len(o) + 2 /\ List(c) = k /\ Last(c) = i
    BY <1>1, <1>4, <1>5 DEF List, Last
  <1> QED  BY <1>2, <1>4, <1>6, <1>7, <1>8

-----------------------------------------------------------------------------
(* The directives are a tree.                                              *)

Sizes(p) == body[p].sizes

\* What IsBody says of a program.
LEMMA BodyFacts ==
    ASSUME body \in Bodies
    PROVE  /\ <<>> \in DOMAIN body /\ DOMAIN body \subseteq Paths
           /\ body[<<>>].kind \in FunctionKinds \union {"program"} /\ ~body[<<>>].false
           /\ \A p \in DOMAIN body :
                /\ p # <<>> => body[p].kind \in Leaves \union Compounds
                /\ body[p].false \in BOOLEAN /\ (body[p].false => body[p].kind \in Annotated)
                /\ Sizes(p) \in Seq(Nat) /\ Len(Sizes(p)) \in Nat
                /\ Len(Sizes(p)) \in ListCounts(body[p].kind)
                /\ \A k \in 1..Len(Sizes(p)) : Sizes(p)[k] \in Nat
           /\ \A p \in DOMAIN body : \A k \in 1..Len(Sizes(p)) : \A i \in 1..Sizes(p)[k] :
                 p \o <<k, i>> \in DOMAIN body \ {<<>>}
           /\ \A c \in DOMAIN body \ {<<>>} : \E p \in DOMAIN body :
                 \E k \in 1..Len(Sizes(p)) : \E i \in 1..Sizes(p)[k] : c = p \o <<k, i>>
  <1>1. IsBody(body)
    BY BodiesAssumption
  <1>2. \A p \in DOMAIN body : Sizes(p) \in Seq(Nat)
    BY <1>1 DEF IsBody, Sizes
  <1>3. \A p \in DOMAIN body : Len(Sizes(p)) \in Nat
    BY <1>2, LenProperties
  <1>4. \A p \in DOMAIN body : \A k \in 1..Len(Sizes(p)) : Sizes(p)[k] \in Nat
    BY <1>2, ElementOfSeq
  <1> DEFINE list(p, k) == {p \o <<k, i>> : i \in 1..Sizes(p)[k]}
             lists(p) == UNION {list(p, k) : k \in 1..Len(Sizes(p))}
  <1>5. DOMAIN body \ {<<>>} = UNION {lists(p) : p \in DOMAIN body}
    BY <1>1 DEF IsBody, Sizes
  <1>8. \A c, p, k : c \in list(p, k) <=> \E i \in 1..Sizes(p)[k] : c = p \o <<k, i>>
    OBVIOUS
  <1> HIDE DEF list
  <1>9. \A c, p : c \in lists(p) <=> \E k \in 1..Len(Sizes(p)) : c \in list(p, k)
    OBVIOUS
  <1> HIDE DEF lists
  <1>10. \A c : c \in DOMAIN body \ {<<>>} <=> \E p \in DOMAIN body : c \in lists(p)
    BY <1>5
  <1>6. ASSUME NEW p \in DOMAIN body, NEW k \in 1..Len(Sizes(p)), NEW i \in 1..Sizes(p)[k]
        PROVE  p \o <<k, i>> \in DOMAIN body \ {<<>>}
    <2>1. PICK c : c = p \o <<k, i>>
      OBVIOUS
    <2>2. c \in list(p, k)
      BY <1>8, <2>1
    <2>3. c \in lists(p)
      BY <1>9, <2>2
    <2> QED  BY <1>10, <2>1, <2>3
  <1>7. ASSUME NEW c \in DOMAIN body \ {<<>>}
        PROVE  \E p \in DOMAIN body :
                  \E k \in 1..Len(Sizes(p)) : \E i \in 1..Sizes(p)[k] : c = p \o <<k, i>>
    <2>1. PICK p \in DOMAIN body : c \in lists(p)
      BY <1>10
    <2>2. PICK k \in 1..Len(Sizes(p)) : c \in list(p, k)
      BY <1>9, <2>1
    <2>3. \E i \in 1..Sizes(p)[k] : c = p \o <<k, i>>
      BY <2>2, Zenon DEF list
    <2> QED  BY <2>3
  <1> QED  BY <1>1, <1>2, <1>3, <1>4, <1>6, <1>7 DEF IsBody, Paths, Sizes

\* The directives of the list k of o.
IsChild(p, o, k) ==
    /\ o \in DOMAIN body /\ k \in 1..Len(Sizes(o)) /\ Last(p) \in 1..Sizes(o)[k]
    /\ Owner(p) = o /\ List(p) = k /\ p = o \o <<k, Last(p)>> /\ p # <<>>
    /\ p \in Paths /\ Len(p) = Len(o) + 2
    /\ \A j \in Nat : Sibling(p, j) = o \o <<k, j>>
    /\ k \in Nat /\ Last(p) \in Nat

\* The places of a list are directives of it...
LEMMA ChildIn ==
    ASSUME body \in Bodies, NEW o \in DOMAIN body, NEW k \in 1..Len(Sizes(o)),
           NEW i \in 1..Sizes(o)[k]
    PROVE  /\ o \o <<k, i>> \in DOMAIN body \ {<<>>}
           /\ IsChild(o \o <<k, i>>, o, k) /\ Last(o \o <<k, i>>) = i
  <1>1. o \in Paths /\ Len(Sizes(o)) \in Nat /\ Sizes(o)[k] \in Nat
    BY BodyFacts
  <1>2. k \in Nat /\ i \in Nat
    BY <1>1
  <1>3. o \o <<k, i>> \in DOMAIN body \ {<<>>}
    BY BodyFacts
  <1>4. Last(o \o <<k, i>>) = i
    BY <1>1, <1>2, ChildFacts
  <1> QED  BY <1>1, <1>2, <1>3, <1>4, ChildFacts DEF IsChild

\* ... and every directive is at a place of a list.
LEMMA ChildOf ==
    ASSUME body \in Bodies, NEW p \in DOMAIN body, p # <<>>
    PROVE  IsChild(p, Owner(p), List(p))
  <1>1. PICK o \in DOMAIN body : \E k \in 1..Len(Sizes(o)) : \E i \in 1..Sizes(o)[k] : p = o \o <<k, i>>
    BY BodyFacts
  <1>2. PICK k \in 1..Len(Sizes(o)) : \E i \in 1..Sizes(o)[k] : p = o \o <<k, i>>
    BY <1>1
  <1>3. PICK i \in 1..Sizes(o)[k] : p = o \o <<k, i>>
    BY <1>2
  <1>4. IsChild(p, o, k)
    BY <1>3, ChildIn
  <1> QED  BY <1>4 DEF IsChild

\* What holds of the top, and of a directive when it holds of its owner.
LEMMA TreeInduction ==
    ASSUME body \in Bodies, NEW S, <<>> \in S,
           \A p \in DOMAIN body \ {<<>>} : Owner(p) \in S => p \in S
    PROVE  DOMAIN body \subseteq S
  <1>1. PICK rank : rank = [p \in DOMAIN body |-> Len(p)]
    OBVIOUS
  <1>2. rank \in [DOMAIN body -> Nat]
    BY <1>1, BodyFacts, LenProperties DEF Paths
  <1>3. ASSUME NEW p \in DOMAIN body, \A q \in DOMAIN body : rank[q] < rank[p] => q \in S
        PROVE  p \in S
    <2>1. CASE p = <<>>
      BY <2>1
    <2>2. CASE p # <<>>
      <3>1. Owner(p) \in DOMAIN body /\ Len(p) = Len(Owner(p)) + 2
        BY <2>2, ChildOf DEF IsChild
      <3>2. Len(Owner(p)) < Len(p)
        BY <1>1, <1>2, <3>1
      <3> QED  BY <1>1, <1>3, <2>2, <3>1, <3>2
    <2> QED  BY <2>1, <2>2
  <1> QED  BY <1>2, <1>3, RankInduction

\* A directive is two numbers deeper than the one around it.
LEMMA EvenLength ==
    ASSUME body \in Bodies
    PROVE  \A p \in DOMAIN body : \E n \in Nat : Len(p) = 2 * n
  <1>1. PICK S : S = {p \in DOMAIN body : \E n \in Nat : Len(p) = 2 * n}
    OBVIOUS
  <1>2. <<>> \in S
    <2>1. Len(<<>>) = 2 * 0
      OBVIOUS
    <2> QED  BY <1>1, <2>1, BodyFacts
  <1>3. ASSUME NEW p \in DOMAIN body \ {<<>>}, Owner(p) \in S PROVE p \in S
    <2>1. Len(p) = Len(Owner(p)) + 2
      BY ChildOf DEF IsChild
    <2>2. PICK n \in Nat : Len(Owner(p)) = 2 * n
      BY <1>1, <1>3
    <2>3. Len(p) = 2 * (n + 1)
      BY <2>1, <2>2
    <2> QED  BY <1>1, <2>3
  <1> QED  BY <1>1, <1>2, <1>3, TreeInduction

\* Prefixes, place by place.
LEMMA PrefixPlaces ==
    ASSUME NEW s \in Paths, NEW t \in Paths
    PROVE  /\ Len(s) \in Nat /\ Len(t) \in Nat
           /\ IsPrefix(s, t) <=> Len(s) <= Len(t) /\ \A i \in 1..Len(s) : s[i] = t[i]
  <1>1. PICK m \in Nat, n \in Nat : m = Len(s) /\ n = Len(t)
    BY LenProperties DEF Paths
  <1>2. SubSeq(s, 1, m) = s
    BY <1>1, SubSeqFull DEF Paths
  <1>3. ASSUME m <= n
        PROVE  s = SubSeq(t, 1, m) <=> \A i \in 1..m : s[i] = t[i]
    <2>1. \A i \in 1..m : t[i] \in Nat
      BY <1>1, <1>3 DEF Paths
    <2>0. /\ SubSeq(t, 1, m) \in Seq(Nat)
          /\ Len(SubSeq(t, 1, m)) = IF 1 <= m THEN m - 1 + 1 ELSE 0
          /\ \A i \in 1..(m - 1 + 1) : SubSeq(t, 1, m)[i] = t[1 + i - 1]
      BY <2>1, SubSeqProperties
    <2>2. /\ SubSeq(t, 1, m) \in Paths /\ Len(SubSeq(t, 1, m)) = m
          /\ \A i \in 1..m : SubSeq(t, 1, m)[i] = t[i]
      BY <2>0 DEF Paths
    <2>3. (\A i \in 1..m : s[i] = t[i]) => s = SubSeq(t, 1, m)
      BY <1>1, <2>2, SeqEqual DEF Paths
    <2> QED  BY <2>2, <2>3
  <1> QED  BY <1>1, <1>2, <1>3 DEF IsPrefix

\* The directives around another: its owner, and those around that.
LEMMA EnclosingFacts ==
    ASSUME body \in Bodies
    PROVE  /\ Enclosing(<<>>) = {}
           /\ \A p \in DOMAIN body \ {<<>>} :
                 Enclosing(p) = Enclosing(Owner(p)) \union {Owner(p)}
  <1>1. Enclosing(<<>>) = {}
    <2> SUFFICES ASSUME NEW q \in DOMAIN body, IsStrictPrefix(q, <<>>) PROVE FALSE
      BY DEF Enclosing
    <2>1. q \in Paths /\ <<>> \in Paths
      BY BodyFacts
    <2>2. Len(q) <= 0 /\ Len(q) \in Nat
      BY <2>1, PrefixPlaces DEF IsStrictPrefix
    <2>3. q = <<>>
      BY <2>1, <2>2, EmptySeq DEF Paths
    <2> QED  BY <2>3 DEF IsStrictPrefix
  <1>2. ASSUME NEW p \in DOMAIN body \ {<<>>}
        PROVE  Enclosing(p) = Enclosing(Owner(p)) \union {Owner(p)}
    <2>1. PICK o, k, i : o = Owner(p) /\ k = List(p) /\ i = Last(p)
      OBVIOUS
    <2>2. /\ o \in DOMAIN body /\ p = o \o <<k, i>> /\ p \in Paths /\ o \in Paths
          /\ Len(p) = Len(o) + 2 /\ k \in Nat /\ i \in Nat
      BY <2>1, ChildOf, BodyFacts DEF IsChild
    <2>3. PICK n \in Nat : n = Len(o)
      BY <2>2, PrefixPlaces
    <2>4. \A m \in 1..n : p[m] = o[m]
      <3>1. <<k, i>> \in Paths /\ Len(<<k, i>>) = 2
        BY <2>2 DEF Paths
      <3>2. \A m \in 1..(n + 2) : (o \o <<k, i>>)[m] = IF m <= n THEN o[m] ELSE <<k, i>>[m - n]
        BY <2>2, <2>3, <3>1, ConcatProperties DEF Paths
      <3>3. \A m \in 1..n : m \in 1..(n + 2) /\ m <= n
        OBVIOUS
      <3> QED  BY <2>2, <3>2, <3>3
    <2>5. ASSUME NEW q \in DOMAIN body
          PROVE  IsStrictPrefix(q, p) <=> IsStrictPrefix(q, o) \/ q = o
      <3>1. PICK l \in Nat : l = Len(q)
        BY BodyFacts, PrefixPlaces
      <3>2. /\ IsPrefix(q, p) <=> l <= n + 2 /\ \A m \in 1..l : q[m] = p[m]
            /\ IsPrefix(q, o) <=> l <= n /\ \A m \in 1..l : q[m] = o[m]
        <4>1. q \in Paths
          BY BodyFacts
        <4> QED  BY <2>2, <2>3, <3>1, <4>1, PrefixPlaces
      <3>3. l # n + 1
        <4>1. PICK a \in Nat, b \in Nat : l = 2 * a /\ n = 2 * b
          BY <2>2, <2>3, <3>1, EvenLength
        <4> QED  BY <4>1
      <3>4. ASSUME l = n + 2, \A m \in 1..l : q[m] = p[m] PROVE q = p
        BY <2>2, <2>3, <3>1, <3>4, BodyFacts, SeqEqual DEF Paths
      <3>5. \A m \in 1..l : l <= n => m \in 1..n
        BY <3>1
      <3>6. l <= n => (IsPrefix(q, p) <=> IsPrefix(q, o))
        BY <2>4, <3>1, <3>2, <3>5
      <3>7. IsPrefix(q, p) => l <= n \/ q = p
        BY <3>1, <3>2, <3>3, <3>4
      <3>8. IsPrefix(q, o) => l <= n
        BY <3>2
      <3>9. q = o => IsPrefix(q, o)
        BY <2>3, <3>1, <3>2
      <3>10. l <= n => q # p
        BY <2>2, <2>3, <3>1
      <3> QED  BY <3>6, <3>7, <3>8, <3>9, <3>10 DEF IsStrictPrefix
    <2> QED  BY <2>1, <2>2, <2>5 DEF Enclosing
  <1> QED  BY <1>1, <1>2

-----------------------------------------------------------------------------
(* The directives around another, and the calls.                           *)

Around(p) == Enclosing(p) \union {p}

\* Of two directives around a third, one is around the other.
LEMMA AroundFacts ==
    ASSUME body \in Bodies
    PROVE  /\ Around(<<>>) = {<<>>}
           /\ \A p \in DOMAIN body \ {<<>>} :
                /\ Around(p) = Around(Owner(p)) \union {p}
                /\ Owner(p) \in DOMAIN body /\ Enclosing(p) = Around(Owner(p))
           /\ \A p \in DOMAIN body : /\ Around(p) \subseteq DOMAIN body /\ <<>> \in Around(p)
                                     /\ p \in Around(p) /\ Enclosing(p) \subseteq Around(p)
           /\ \A p \in DOMAIN body : \A q \in Around(p) : Around(q) \subseteq Around(p)
  <1>1. Around(<<>>) = {<<>>}
    BY EnclosingFacts DEF Around
  <1>2. ASSUME NEW p \in DOMAIN body \ {<<>>}
        PROVE  /\ Around(p) = Around(Owner(p)) \union {p} /\ Owner(p) \in DOMAIN body
               /\ Enclosing(p) = Around(Owner(p))
    BY EnclosingFacts, ChildOf DEF Around, IsChild
  <1>3. PICK S : S = {p \in DOMAIN body :
                         /\ <<>> \in Around(p)
                         /\ \A q \in Around(p) : Around(q) \subseteq Around(p)}
    OBVIOUS
  <1>4. <<>> \in S
    BY <1>1, <1>3, BodyFacts
  <1>5. ASSUME NEW p \in DOMAIN body \ {<<>>}, Owner(p) \in S PROVE p \in S
    <2>1. <<>> \in Around(p)
      BY <1>2, <1>3, <1>5
    <2>2. ASSUME NEW q \in Around(p) PROVE Around(q) \subseteq Around(p)
      <3>1. CASE q = p
        BY <3>1
      <3>2. CASE q \in Around(Owner(p))
        BY <1>2, <1>3, <1>5, <3>2
      <3> QED  BY <1>2, <3>1, <3>2
    <2> QED  BY <1>3, <2>1, <2>2
  <1>6. DOMAIN body \subseteq S
    BY <1>4, <1>5, TreeInduction
  <1>7. \A p \in DOMAIN body : Around(p) \subseteq DOMAIN body /\ p \in Around(p)
                               /\ Enclosing(p) \subseteq Around(p)
    BY DEF Around, Enclosing
  <1> QED  BY <1>1, <1>2, <1>3, <1>6, <1>7

\* Directives around p: one for each depth, as long as it is deep.
LEMMA AroundLengths ==
    ASSUME body \in Bodies
    PROVE  \A p \in DOMAIN body :
              /\ Len(p) \in Nat
              /\ \A q \in Enclosing(p) : Len(q) < Len(p) /\ q # p /\ Len(q) \in Nat
              /\ \A x, y \in Around(p) : Len(x) = Len(y) => x = y
              /\ \A x, y \in Around(p) : x \in Around(y) \/ y \in Around(x)
              /\ \A q \in Enclosing(p) : \E x \in Around(p) \ {<<>>} : Owner(x) = q
  <1> DEFINE Good(p) ==
              /\ Len(p) \in Nat
              /\ \A q \in Enclosing(p) : Len(q) < Len(p) /\ q # p /\ Len(q) \in Nat
              /\ \A x, y \in Around(p) : Len(x) = Len(y) => x = y
              /\ \A x, y \in Around(p) : x \in Around(y) \/ y \in Around(x)
              /\ \A q \in Enclosing(p) : \E x \in Around(p) \ {<<>>} : Owner(x) = q
  <1>1. PICK S : S = {p \in DOMAIN body : Good(p)}
    OBVIOUS
  <1>2. <<>> \in S
    <2>1. Len(<<>>) \in Nat
      OBVIOUS
    <2>2. Enclosing(<<>>) = {} /\ Around(<<>>) = {<<>>}
      BY EnclosingFacts, AroundFacts
    <2> QED  BY <1>1, <2>1, <2>2, BodyFacts
  <1>3. ASSUME NEW p \in DOMAIN body \ {<<>>}, Owner(p) \in S PROVE p \in S
    <2>1. PICK o : o = Owner(p)
      OBVIOUS
    <2>2. /\ o \in DOMAIN body /\ Good(o)
          /\ Enclosing(p) = Around(o) /\ Around(p) = Around(o) \union {p}
          /\ Around(o) = Enclosing(o) \union {o}
          /\ o \in Around(o)
      BY <1>1, <1>3, <2>1, AroundFacts DEF Around
    <2> HIDE DEF Good
    <2>3. Len(p) = Len(o) + 2 /\ Len(o) \in Nat
      BY <2>1, <2>2, ChildOf DEF IsChild, Good
    <2>4. \A q \in Enclosing(p) : Len(q) < Len(p) /\ Len(q) \in Nat
      BY <2>2, <2>3 DEF Good
    <2>5. \A q \in Enclosing(p) : q # p
      BY <2>3, <2>4
    <2>6. \A x, y \in Around(p) : Len(x) = Len(y) => x = y
      <3>1. \A x \in Around(o) : Len(x) # Len(p)
        BY <2>2, <2>3, <2>4
      <3> QED  BY <2>2, <3>1 DEF Good
    <2>7. \A x, y \in Around(p) : x \in Around(y) \/ y \in Around(x)
      <3>1. \A x \in Around(o) : x \in Around(p)
        BY <2>2
      <3>2. p \in Around(p)
        BY <2>2
      <3> QED  BY <2>2, <3>1, <3>2 DEF Good
    <2>8. \A q \in Enclosing(p) : \E x \in Around(p) \ {<<>>} : Owner(x) = q
      BY <2>1, <2>2 DEF Good
    <2> QED  BY <1>1, <2>3, <2>4, <2>5, <2>6, <2>7, <2>8 DEF Good
  <1>4. DOMAIN body \subseteq S
    <2> HIDE DEF Good
    <2> QED  BY <1>2, <1>3, TreeInduction
  <1> QED  BY <1>1, <1>4

\* Two directives around p in lists of the same one are the same.
LEMMA SameOwner ==
    ASSUME body \in Bodies, NEW p \in DOMAIN body, NEW x \in Around(p), NEW y \in Around(p),
           x # <<>>, y # <<>>, Owner(x) = Owner(y)
    PROVE  x = y
  <1>1. x \in DOMAIN body /\ y \in DOMAIN body
    BY AroundFacts
  <1>2. Len(x) = Len(Owner(x)) + 2 /\ Len(y) = Len(Owner(y)) + 2
    BY <1>1, ChildOf DEF IsChild
  <1> QED  BY <1>2, AroundLengths

-----------------------------------------------------------------------------
(* The calls in progress.                                                  *)

Frames ==
    [owner : DOMAIN body, list : Nat, idx : Nat, base : Nat,
     noAccess : BOOLEAN, ending : BOOLEAN, again : BOOLEAN]

FrameOK(f) ==
    /\ f \in Frames
    /\ f.list \in 1..Len(Sizes(f.owner))
    /\ f.idx \in 1..(Sizes(f.owner)[f.list] + 1)

\* Each call is for the directive at which the one below is.
Chain(s) ==
    /\ s # <<>> => s[1].owner = <<>>
    /\ \A i \in 1..Len(s) : FrameOK(s[i])
    /\ \A i, j \in 1..Len(s) : j = i + 1 => s[i].idx <= Size(s[i]) /\ Current(s[i]) = s[j].owner

\* The directive at which a call is.
LEMMA CurrentFacts ==
    ASSUME body \in Bodies, NEW f, FrameOK(f), f.idx <= Size(f)
    PROVE  /\ Current(f) \in DOMAIN body \ {<<>>}
           /\ IsChild(Current(f), f.owner, f.list)
           /\ Last(Current(f)) = f.idx
           /\ f.owner \in Enclosing(Current(f))
  <1>1. /\ f.owner \in DOMAIN body /\ f.list \in 1..Len(Sizes(f.owner))
        /\ f.idx \in 1..Sizes(f.owner)[f.list]
    <2>1. Sizes(f.owner)[f.list] \in Nat
      BY BodyFacts DEF FrameOK, Frames
    <2> QED  BY <2>1 DEF FrameOK, Frames, Size, Sizes
  <1>2. /\ Current(f) \in DOMAIN body \ {<<>>} /\ IsChild(Current(f), f.owner, f.list)
        /\ Last(Current(f)) = f.idx
    BY <1>1, ChildIn DEF Current
  <1> QED  BY <1>2, AroundFacts DEF IsChild

\* Each call is for a directive around those of the calls it made.
LEMMA ChainAncestors ==
    ASSUME body \in Bodies, NEW s \in Seq(Frames), Chain(s)
    PROVE  \A i, j \in 1..Len(s) : i < j =>
              /\ s[i].idx <= Size(s[i])
              /\ Current(s[i]) \in Around(s[j].owner)
              /\ s[i].owner \in Enclosing(s[j].owner)
  <1>1. PICK n \in Nat : n = Len(s)
    BY LenProperties
  <1>2. SUFFICES ASSUME NEW i \in 1..n
                 PROVE  \A j \in 1..n : i < j =>
                          /\ s[i].idx <= Size(s[i])
                          /\ Current(s[i]) \in Around(s[j].owner)
                          /\ s[i].owner \in Enclosing(s[j].owner)
    BY <1>1
  <1>3. PICK S : S = {m \in Nat : i + 1 + m \in 1..n =>
                                     /\ s[i].idx <= Size(s[i])
                                     /\ Current(s[i]) \in Around(s[i + 1 + m].owner)
                                     /\ s[i].owner \in Enclosing(s[i + 1 + m].owner)}
    OBVIOUS
  <1>4. 0 \in S
    <2> SUFFICES ASSUME i + 1 \in 1..n
                 PROVE  /\ s[i].idx <= Size(s[i])
                        /\ Current(s[i]) \in Around(s[i + 1].owner)
                        /\ s[i].owner \in Enclosing(s[i + 1].owner)
      BY <1>3
    <2>1. s[i].idx <= Size(s[i]) /\ Current(s[i]) = s[i + 1].owner /\ FrameOK(s[i])
      BY <1>1 DEF Chain
    <2> QED  BY <2>1, CurrentFacts, AroundFacts
  <1>5. ASSUME NEW m \in Nat, m \in S PROVE m + 1 \in S
    <2> SUFFICES ASSUME i + 1 + (m + 1) \in 1..n
                 PROVE  /\ s[i].idx <= Size(s[i])
                        /\ Current(s[i]) \in Around(s[i + 1 + (m + 1)].owner)
                        /\ s[i].owner \in Enclosing(s[i + 1 + (m + 1)].owner)
      BY <1>3
    <2>1. PICK j \in 1..n : j = i + 1 + m /\ j + 1 \in 1..n /\ i + 1 + (m + 1) = j + 1
      OBVIOUS
    <2>2. /\ s[i].idx <= Size(s[i])
          /\ Current(s[i]) \in Around(s[j].owner)
          /\ s[i].owner \in Enclosing(s[j].owner)
      BY <1>3, <1>5, <2>1
    <2>3. s[j].idx <= Size(s[j]) /\ Current(s[j]) = s[j + 1].owner /\ FrameOK(s[j])
      BY <1>1, <2>1 DEF Chain
    <2>4. /\ s[j + 1].owner \in DOMAIN body \ {<<>>}
          /\ Enclosing(s[j + 1].owner) = Around(s[j].owner)
      BY <2>3, CurrentFacts, AroundFacts DEF IsChild
    <2>5. Around(s[j].owner) \subseteq Around(s[j + 1].owner)
      BY <2>4, AroundFacts
    <2>6. Enclosing(s[j].owner) \subseteq Around(s[j].owner)
      BY DEF Around
    <2> QED  BY <2>1, <2>2, <2>4, <2>5, <2>6
  <1>6. \A j \in 1..n : i < j => j - (i + 1) \in Nat /\ j = i + 1 + (j - (i + 1))
    OBVIOUS
  <1>7. Nat \subseteq S
    BY <1>4, <1>5, SetInduction
  <1> QED
    <2> TAKE j \in 1..n
    <2> HAVE i < j
    <2>1. PICK m \in Nat : j = i + 1 + m
      BY <1>6
    <2>2. m \in S
      BY <1>7
    <2> QED  BY <1>3, <2>1, <2>2

\* What NextOf() finds.
LEMMA NextFacts ==
    ASSUME body \in Bodies, NEW o \in DOMAIN body, NEW k \in 1..Len(Sizes(o)),
           NEW i \in 0..Sizes(o)[k], NEW gone
    PROVE  /\ NextOf(o, k, i, gone) \in (i + 1)..(Sizes(o)[k] + 1)
           /\ \A j \in (i + 1)..(NextOf(o, k, i, gone) - 1) : o \o <<k, j>> \in gone
           /\ NextOf(o, k, i, gone) <= Sizes(o)[k] => o \o <<k, NextOf(o, k, i, gone)>> \notin gone
  <1>1. PICK n \in Nat : n = Sizes(o)[k]
    BY BodyFacts
  <1>2. PICK S : S = {j \in (i + 1)..n : o \o <<k, j>> \notin gone} \union {n + 1}
    OBVIOUS
  <1>3. NextOf(o, k, i, gone) = Min(S)
    BY <1>1, <1>2 DEF NextOf, Sizes
  <1>4. S \subseteq 1..(n + 1) /\ S # {} /\ n + 1 \in Nat
    BY <1>1, <1>2
  <1>5. PICK m : m = Min(S) /\ m \in S /\ \A y \in S : m <= y
    BY <1>4, Extremes
  <1>6. m \in (i + 1)..(n + 1)
    BY <1>1, <1>2, <1>5
  <1>7. \A j \in (i + 1)..(m - 1) : o \o <<k, j>> \in gone
    <2> TAKE j \in (i + 1)..(m - 1)
    <2>1. j \in (i + 1)..n /\ ~(m <= j)
      BY <1>1, <1>6
    <2> QED  BY <1>2, <1>5, <2>1
  <1>8. m <= n => o \o <<k, m>> \notin gone
    BY <1>2, <1>5
  <1> QED  BY <1>1, <1>3, <1>5, <1>6, <1>7, <1>8

-----------------------------------------------------------------------------
(* What was seen, and the shape of the calls after a step.                 *)

\* A directive that is not marked false, nor any around it.
Live(p) == \A q \in Around(p) : ~body[q].false

\* The calls s are done with p: its turn in a call, or that of a directive around it, is over.
Behind(q, f) ==
    q # <<>> /\ Owner(q) = f.owner /\ (List(q) < f.list \/ (List(q) = f.list /\ Last(q) < f.idx))

Past(p, s) == s = <<>> \/ \E q \in Around(p), i \in 1..Len(s) : Behind(q, s[i])

\* They have reached it.
Seen(p, s) == Past(p, s) \/ \E i \in 1..Len(s) : s[i].owner = p

\* They have entered its list.
Opened(p, s) ==
    Past(Owner(p), s) \/ \E i \in 1..Len(s) : s[i].owner = Owner(p) /\ List(p) <= s[i].list

\* In the lists entered, the directives marked false are unknown.
Settled(s, u) ==
    \A p \in DOMAIN body \ {<<>>} : body[p].false /\ Live(Owner(p)) /\ Opened(p, s) => p \in u

StackInv(s, u, r) ==
    /\ s \in Seq(Frames) /\ Chain(s)
    /\ \A i \in 1..Len(s) : Live(s[i].owner)
    /\ u \subseteq {p \in DOMAIN body \ {<<>>} : body[p].false} /\ r \subseteq u
    /\ Settled(s, u)

\* The call f after the directive at which it is, or at the start of another list.
Onward(f, g, i, r) ==
    FrameOK(g) /\ g.owner = f.owner /\ g.idx = NextOf(g.owner, g.list, i, r)

\* Neither a live directive nor one around it is marked false.
LEMMA LiveFacts ==
    ASSUME body \in Bodies
    PROVE  /\ Live(<<>>)
           /\ \A p \in DOMAIN body \ {<<>>} : Live(p) <=> Live(Owner(p)) /\ ~body[p].false
           /\ \A p \in DOMAIN body : Live(p) => ~body[p].false /\ \A q \in Around(p) : Live(q)
  <1>1. Live(<<>>)
    BY AroundFacts, BodyFacts DEF Live
  <1>2. \A p \in DOMAIN body \ {<<>>} : Live(p) <=> Live(Owner(p)) /\ ~body[p].false
    BY AroundFacts DEF Live
  <1>3. ASSUME NEW p \in DOMAIN body, Live(p)
        PROVE  ~body[p].false /\ \A q \in Around(p) : Live(q)
    BY <1>3, AroundFacts DEF Live
  <1> QED  BY <1>1, <1>2, <1>3

\* What is skipped is removed.
LEMMA Skipped ==
    ASSUME body \in Bodies, NEW f, NEW r, NEW i, NEW g, Onward(f, g, i, r),
           i \in 0..Sizes(g.owner)[g.list],
           NEW q \in DOMAIN body \ {<<>>}, Owner(q) = g.owner, List(q) = g.list,
           Last(q) < g.idx
    PROVE  Last(q) <= i \/ q \in r
  <1>1. /\ g.owner \in DOMAIN body /\ g.list \in 1..Len(Sizes(g.owner))
        /\ Sizes(g.owner)[g.list] \in Nat /\ i \in Nat
    BY BodyFacts DEF Onward, FrameOK, Frames
  <1>2. /\ g.idx \in (i + 1)..(Sizes(g.owner)[g.list] + 1)
        /\ \A j \in (i + 1)..(g.idx - 1) : g.owner \o <<g.list, j>> \in r
    <2>1. PICK o, k, m : o = g.owner /\ k = g.list /\ m = g.idx
      OBVIOUS
    <2>4. o \in DOMAIN body /\ k \in 1..Len(Sizes(o))
      BY <1>1, <2>1
    <2>2. i \in 0..Sizes(o)[k] /\ m = NextOf(o, k, i, r)
      BY <2>1 DEF Onward
    <2>3. m \in (i + 1)..(Sizes(o)[k] + 1) /\ \A j \in (i + 1)..(m - 1) : o \o <<k, j>> \in r
      BY <2>2, <2>4, NextFacts
    <2> QED  BY <2>1, <2>3
  <1>3. q = g.owner \o <<g.list, Last(q)>> /\ Last(q) \in Nat
    BY ChildOf DEF IsChild
  <1>4. Last(q) <= i \/ Last(q) \in (i + 1)..(g.idx - 1)
    BY <1>1, <1>2, <1>3
  <1> QED  BY <1>2, <1>3, <1>4

\* Changing the innermost call.
LEMMA TopReplaced ==
    ASSUME NEW s \in Seq(Frames), s # <<>>, NEW g \in Frames, NEW t, NEW n, n = Len(s),
           t = [s EXCEPT ![Len(s)] = g]
    PROVE  /\ t \in Seq(Frames) /\ Len(t) = n /\ n \in Nat \ {0} /\ t # <<>>
           /\ t[n] = g /\ \A i \in 1..n : i # n => t[i] = s[i]
           /\ Last(s) = s[n] /\ s[n] \in Frames
  <1>1. n \in Nat \ {0}
    BY EmptySeq
  <1>2. n \in 1..Len(s)
    BY <1>1
  <1>3. /\ t \in Seq(Frames) /\ Len(t) = n
        /\ \A i \in 1..n : t[i] = IF i = n THEN g ELSE s[i]
    BY <1>2, ExceptSeq
  <1>4. t # <<>>
    BY <1>1, <1>3, EmptySeq
  <1>5. s[n] \in Frames
    BY <1>2, ElementOfSeq
  <1> QED  BY <1>1, <1>2, <1>3, <1>4, <1>5 DEF Last

\* The innermost call may move on in its directive.
LEMMA TopChain ==
    ASSUME body \in Bodies, NEW s \in Seq(Frames), Chain(s), s # <<>>, NEW f, f = Last(s),
           NEW g, FrameOK(g), g.owner = f.owner, NEW t, t = [s EXCEPT ![Len(s)] = g]
    PROVE  Chain(t)
  <1>1. PICK n : n = Len(s)
    OBVIOUS
  <1>2. /\ t \in Seq(Frames) /\ Len(t) = n /\ n \in Nat \ {0} /\ t # <<>>
        /\ t[n] = g /\ \A i \in 1..n : i # n => t[i] = s[i]
        /\ f = s[n]
    BY <1>1, TopReplaced DEF FrameOK
  <1>3. t[1].owner = <<>>
    <2>1. 1 \in 1..n
      BY <1>2
    <2> QED  BY <1>1, <1>2, <2>1 DEF Chain
  <1>4. \A i \in 1..n : FrameOK(t[i])
    BY <1>1, <1>2 DEF Chain
  <1>5. \A i, j \in 1..n : j = i + 1 => t[i].idx <= Size(t[i]) /\ Current(t[i]) = t[j].owner
    <2> TAKE i, j \in 1..n
    <2> HAVE j = i + 1
    <2>1. i # n
      BY <1>2
    <2>2. t[i] = s[i] /\ t[j].owner = s[j].owner
      BY <1>2, <2>1
    <2> QED  BY <1>1, <2>2 DEF Chain
  <1> QED  BY <1>2, <1>3, <1>4, <1>5 DEF Chain

\* The next directive of the same list.
Passing(s, u, r, f, c, g, t) ==
    /\ StackInv(s, u, r) /\ s # <<>>
    /\ f = Last(s) /\ f.idx <= Size(f) /\ c = Current(f)
    /\ c \in u \/ Len(Sizes(c)) = 0
    /\ g.list = f.list /\ Onward(f, g, f.idx, r)
    /\ t = [s EXCEPT ![Len(s)] = g]

\* A directive is passed: the calls are as they should be, and it alone is new among those seen.
LEMMA PassShape ==
    ASSUME body \in Bodies, NEW s, NEW u, NEW r, NEW f, NEW c, NEW g, NEW t,
           Passing(s, u, r, f, c, g, t)
    PROVE  /\ StackInv(t, u, r)
           /\ \A p \in DOMAIN body \ {<<>>} : Live(p) /\ Seen(p, t) => Seen(p, s) \/ p = c
  <1> USE DEF Passing
  <1>1. PICK n : n = Len(s)
    OBVIOUS
  <1>2. /\ s \in Seq(Frames) /\ Chain(s) /\ Settled(s, u)
        /\ u \subseteq {p \in DOMAIN body \ {<<>>} : body[p].false} /\ r \subseteq u
    BY DEF StackInv
  <1>3. FrameOK(g) /\ g.owner = f.owner
    BY DEF Onward
  <1>4. /\ t \in Seq(Frames) /\ Len(t) = n /\ n \in Nat \ {0} /\ t # <<>>
        /\ t[n] = g /\ \A i \in 1..n : i # n => t[i] = s[i]
        /\ f = s[n]
    BY <1>1, <1>2, <1>3, TopReplaced DEF FrameOK
  <1>5. FrameOK(f)
    BY <1>1, <1>2, <1>4 DEF Chain
  <1>6. /\ c \in DOMAIN body \ {<<>>} /\ IsChild(c, f.owner, f.list) /\ Last(c) = f.idx
    BY <1>5, CurrentFacts
  <1>7. ASSUME NEW q \in DOMAIN body \ {<<>>}, Behind(q, g)
        PROVE  Behind(q, f) \/ q = c \/ q \in r
    <2>1. f.idx \in 0..Sizes(g.owner)[g.list]
      BY <1>3, <1>5, BodyFacts DEF FrameOK, Frames, Size, Sizes
    <2>2. CASE List(q) = f.list /\ Last(q) < g.idx
      <3>1. Last(q) <= f.idx \/ q \in r
        BY <1>7, <2>1, <2>2, <1>3, Skipped DEF Behind
      <3>2. Last(q) \in Nat /\ f.idx \in Nat
        BY <1>5, ChildOf DEF IsChild, FrameOK, Frames
      <3>3. Last(q) = f.idx => q = c
        <4>1. IsChild(q, f.owner, f.list)
          BY <1>3, <1>7, <2>2, ChildOf DEF Behind
        <4> QED  BY <1>6, <4>1 DEF IsChild
      <3>4. Last(q) < f.idx => Behind(q, f)
        BY <1>3, <1>7, <2>2 DEF Behind
      <3> QED  BY <3>1, <3>2, <3>3, <3>4
    <2>3. CASE List(q) < f.list
      BY <1>3, <1>7, <2>3 DEF Behind
    <2> QED  BY <1>7, <2>2, <2>3 DEF Behind
  <1>8. ASSUME NEW p \in DOMAIN body, Live(p), Past(p, t)
        PROVE  Past(p, s) \/ c \in Around(p)
    <2>1. PICK q \in Around(p), i \in 1..n : Behind(q, t[i])
      BY <1>4, <1>8 DEF Past
    <2>2. q \in DOMAIN body \ {<<>>} /\ ~body[q].false
      BY <1>8, <2>1, AroundFacts DEF Live, Behind
    <2>3. q \notin r
      BY <1>2, <2>2
    <2>4. CASE i = n
      <3>1. Behind(q, f) \/ q = c
        BY <1>4, <1>7, <2>1, <2>2, <2>3, <2>4
      <3> QED  BY <1>1, <1>4, <2>1, <2>4, <3>1 DEF Past
    <2>5. CASE i # n
      BY <1>1, <1>4, <2>1, <2>5 DEF Past
    <2> QED  BY <2>4, <2>5
  <1>9. ASSUME NEW p \in DOMAIN body, Live(p), c \in Around(p)
        PROVE  p = c /\ Len(Sizes(c)) = 0
    <2>1. c \notin u
      BY <1>2, <1>9 DEF Live
    <2>2. ASSUME c \in Enclosing(p) PROVE FALSE
      <3>1. PICK x \in Around(p) \ {<<>>} : Owner(x) = c
        BY <2>2, AroundLengths
      <3>2. IsChild(x, c, List(x))
        BY <3>1, AroundFacts, ChildOf
      <3> QED  BY <2>1, <3>2 DEF IsChild
    <2> QED  BY <1>9, <2>1, <2>2 DEF Around
  <1>10. \A p \in DOMAIN body \ {<<>>} : Live(p) /\ Seen(p, t) => Seen(p, s) \/ p = c
    <2> SUFFICES ASSUME NEW p \in DOMAIN body \ {<<>>}, Live(p), Seen(p, t)
                 PROVE  Seen(p, s) \/ p = c
      OBVIOUS
    <2>1. CASE Past(p, t)
      BY <1>8, <1>9, <2>1 DEF Seen
    <2>2. CASE \E i \in 1..n : t[i].owner = p
      BY <1>1, <1>3, <1>4, <2>2 DEF Seen
    <2> QED  BY <1>4, <2>1, <2>2 DEF Seen
  <1>11. Settled(t, u)
    <2> SUFFICES ASSUME NEW p \in DOMAIN body \ {<<>>}, body[p].false, Live(Owner(p)), Opened(p, t)
                 PROVE  p \in u
      BY DEF Settled
    <2>1. Owner(p) \in DOMAIN body
      BY AroundFacts
    <2>2. CASE Past(Owner(p), t)
      <3>1. Past(Owner(p), s) \/ c \in Around(Owner(p))
        BY <1>8, <2>1, <2>2
      <3>2. CASE Past(Owner(p), s)
        BY <1>2, <3>2 DEF Settled, Opened
      <3>3. CASE c \in Around(Owner(p))
        <4>1. Owner(p) = c /\ Len(Sizes(c)) = 0
          BY <1>9, <2>1, <3>3
        <4>2. IsChild(p, c, List(p))
          BY <4>1, ChildOf
        <4> QED  BY <4>1, <4>2 DEF IsChild
      <3> QED  BY <3>1, <3>2, <3>3
    <2>3. CASE \E i \in 1..n : t[i].owner = Owner(p) /\ List(p) <= t[i].list
      <3>1. \A i \in 1..n : t[i].owner = s[i].owner /\ t[i].list = s[i].list
        BY <1>3, <1>4
      <3> QED  BY <1>1, <1>2, <2>3, <3>1 DEF Settled, Opened
    <2> QED  BY <1>4, <2>2, <2>3 DEF Opened
  <1>12. \A i \in 1..n : Live(t[i].owner)
    BY <1>1, <1>3, <1>4 DEF StackInv
  <1>13. Chain(t)
    BY <1>2, <1>3, TopChain
  <1> QED  BY <1>2, <1>4, <1>10, <1>11, <1>12, <1>13 DEF StackInv

\* The numbers of a call and of a directive.
LEMMA FrameNumbers ==
    ASSUME body \in Bodies, NEW f, FrameOK(f)
    PROVE  /\ f.owner \in DOMAIN body /\ f.list \in 1..Len(Sizes(f.owner))
           /\ f.list \in Nat \ {0} /\ f.idx \in Nat \ {0} /\ f.base \in Nat
           /\ Size(f) = Sizes(f.owner)[f.list] /\ Size(f) \in Nat
           /\ f.idx <= Size(f) + 1
           /\ 0 \in 0..Sizes(f.owner)[f.list]
           /\ f.idx <= Size(f) => f.idx \in 0..Sizes(f.owner)[f.list]
  <1>1. PICK o, k, i : o = f.owner /\ k = f.list /\ i = f.idx
    OBVIOUS
  <1>2. o \in DOMAIN body /\ k \in 1..Len(Sizes(o)) /\ i \in 1..(Sizes(o)[k] + 1)
        /\ k \in Nat /\ i \in Nat /\ f.base \in Nat
    BY <1>1 DEF FrameOK, Frames
  <1>3. Sizes(o)[k] \in Nat
    BY <1>2, BodyFacts
  <1>4. Size(f) = Sizes(o)[k]
    BY <1>1 DEF Size, Sizes
  <1>5. k # 0 /\ i # 0 /\ i <= Sizes(o)[k] + 1 /\ 0 \in 0..Sizes(o)[k]
        /\ (i <= Sizes(o)[k] => i \in 0..Sizes(o)[k])
    BY <1>2, <1>3
  <1> QED  BY <1>1, <1>2, <1>3, <1>4, <1>5

\* The numbers of a directive are in the bounds of its list.
LEMMA ChildNumbers ==
    ASSUME body \in Bodies, NEW q, NEW o, NEW k, IsChild(q, o, k)
    PROVE  /\ k \in Nat \ {0} /\ k <= Len(Sizes(o)) /\ Len(Sizes(o)) \in Nat
           /\ Last(q) \in Nat \ {0} /\ Last(q) <= Sizes(o)[k] /\ Sizes(o)[k] \in Nat
           /\ q \in Children(o, k)
  <1>1. o \in DOMAIN body /\ k \in 1..Len(Sizes(o)) /\ Last(q) \in 1..Sizes(o)[k]
        /\ k \in Nat /\ Last(q) \in Nat /\ q = o \o <<k, Last(q)>>
    BY DEF IsChild
  <1>2. Len(Sizes(o)) \in Nat /\ Sizes(o)[k] \in Nat
    BY <1>1, BodyFacts
  <1>3. q \in Children(o, k)
    BY <1>1 DEF Children, Sizes
  <1> QED  BY <1>1, <1>2, <1>3

\* The list of a directive.
LEMMA ChildrenFacts ==
    ASSUME body \in Bodies, NEW o \in DOMAIN body, NEW k \in 1..Len(Sizes(o))
    PROVE  \A q \in Children(o, k) : q \in DOMAIN body \ {<<>>} /\ IsChild(q, o, k)
  <1> TAKE q \in Children(o, k)
  <1>1. PICK i \in 1..Sizes(o)[k] : q = o \o <<k, i>>
    BY DEF Children, Sizes
  <1> QED  BY <1>1, ChildIn

\* A new call.
LEMMA CallPushed ==
    ASSUME NEW s \in Seq(Frames), NEW g \in Frames, NEW t, NEW n, n = Len(s), t = Append(s, g)
    PROVE  /\ t \in Seq(Frames) /\ Len(t) = n + 1 /\ n \in Nat /\ t # <<>>
           /\ t[n + 1] = g /\ \A i \in 1..n : t[i] = s[i]
           /\ \A i \in 1..(n + 1) : i \in 1..n \/ i = n + 1
           /\ s # <<>> => Last(s) = s[n] /\ n \in 1..n
  <1>1. n \in Nat
    BY LenProperties
  <1>2. /\ t \in Seq(Frames) /\ Len(t) = n + 1 /\ t # <<>>
        /\ t[n + 1] = g /\ \A i \in 1..n : t[i] = s[i]
    BY AppendProperties
  <1>3. s # <<>> => n \in 1..n
    BY <1>1, EmptySeq
  <1>4. \A i \in 1..(n + 1) : i \in 1..n \/ i = n + 1
    BY <1>1
  <1> QED  BY <1>1, <1>2, <1>3, <1>4 DEF Last

\* The first list of the directive at which the innermost call is.
Entering(s, u, r, f, c, g, t, v) ==
    /\ StackInv(s, u, r) /\ s # <<>>
    /\ f = Last(s) /\ f.idx <= Size(f) /\ c = Current(f) /\ c \notin u
    /\ FrameOK(g) /\ g.owner = c /\ g.list = 1 /\ g.idx = NextOf(c, 1, 0, r)
    /\ t = Append(s, g) /\ v = u \union Hidden(c, 1)

\* A list is entered: the same, and its directives marked false are unknown.
LEMMA EnterShape ==
    ASSUME body \in Bodies, NEW s, NEW u, NEW r, NEW f, NEW c, NEW g, NEW t, NEW v,
           Entering(s, u, r, f, c, g, t, v)
    PROVE  /\ StackInv(t, v, r) /\ Live(c)
           /\ \A p \in DOMAIN body \ {<<>>} : Live(p) /\ Seen(p, t) => Seen(p, s) \/ p = c
  <1> USE DEF Entering
  <1>1. PICK n : n = Len(s)
    OBVIOUS
  <1>2. /\ s \in Seq(Frames) /\ Chain(s) /\ Settled(s, u)
        /\ u \subseteq {p \in DOMAIN body \ {<<>>} : body[p].false} /\ r \subseteq u
    BY DEF StackInv
  <1>3. g \in Frames
    BY DEF FrameOK
  <1>4. /\ t \in Seq(Frames) /\ Len(t) = n + 1 /\ n \in Nat /\ t # <<>>
        /\ t[n + 1] = g /\ \A i \in 1..n : t[i] = s[i]
        /\ \A i \in 1..(n + 1) : i \in 1..n \/ i = n + 1
        /\ f = s[n] /\ n \in 1..n
    BY <1>1, <1>2, <1>3, CallPushed
  <1>5. FrameOK(f)
    BY <1>1, <1>2, <1>4 DEF Chain
  <1>6. /\ c \in DOMAIN body \ {<<>>} /\ IsChild(c, f.owner, f.list)
    BY <1>5, CurrentFacts
  <1>7. Live(c)
    <2>1. Live(f.owner) /\ Owner(c) = f.owner
      BY <1>1, <1>4, <1>6 DEF StackInv, IsChild
    <2>2. Opened(c, s)
      <3>0. f.list \in Nat
        BY <1>5, FrameNumbers
      <3>1. s[n].owner = Owner(c) /\ List(c) <= s[n].list
        BY <1>4, <1>6, <3>0 DEF IsChild
      <3> QED  BY <1>1, <1>4, <3>1 DEF Opened
    <2>3. ~body[c].false
      BY <1>2, <1>6, <2>1, <2>2 DEF Settled
    <2> QED  BY <1>6, <2>1, <2>3, LiveFacts
  <1>8. ASSUME NEW q \in DOMAIN body \ {<<>>}, Behind(q, g) PROVE q \in r
    <2>1. IsChild(q, c, List(q))
      BY <1>8, ChildOf DEF Behind
    <2>0. List(q) \in Nat \ {0} /\ Last(q) \in Nat \ {0}
      BY <2>1, ChildNumbers
    <2>2. List(q) = 1 /\ Last(q) < g.idx /\ Last(q) \in Nat \ {0}
      BY <1>8, <2>0 DEF Behind
    <2>3. 0 \in 0..Sizes(g.owner)[g.list]
      BY FrameNumbers
    <2>4. Onward(g, g, 0, r)
      BY DEF Onward
    <2>5. Owner(q) = g.owner /\ List(q) = g.list
      BY <2>1, <2>2 DEF IsChild
    <2>6. Last(q) <= 0 \/ q \in r
      BY <2>2, <2>3, <2>4, <2>5, Skipped
    <2> QED  BY <2>2, <2>6
  <1>9. ASSUME NEW p \in DOMAIN body, Live(p), Past(p, t)
        PROVE  Past(p, s)
    <2>1. PICK q \in Around(p), i \in 1..(n + 1) : Behind(q, t[i])
      BY <1>4, <1>9 DEF Past
    <2>2. q \in DOMAIN body \ {<<>>} /\ ~body[q].false
      BY <1>9, <2>1, AroundFacts DEF Live, Behind
    <2>3. q \notin r
      BY <1>2, <2>2
    <2>4. i \in 1..n
      BY <1>4, <1>8, <2>1, <2>2, <2>3
    <2> QED  BY <1>1, <1>4, <2>1, <2>4 DEF Past
  <1>10. \A p \in DOMAIN body \ {<<>>} : Live(p) /\ Seen(p, t) => Seen(p, s) \/ p = c
    <2> SUFFICES ASSUME NEW p \in DOMAIN body \ {<<>>}, Live(p), Seen(p, t)
                 PROVE  Seen(p, s) \/ p = c
      OBVIOUS
    <2>1. CASE Past(p, t)
      BY <1>9, <2>1 DEF Seen
    <2>2. CASE \E i \in 1..(n + 1) : t[i].owner = p
      BY <1>1, <1>4, <2>2 DEF Seen
    <2> QED  BY <1>4, <2>1, <2>2 DEF Seen
  <1>11. Settled(t, v)
    <2> SUFFICES ASSUME NEW p \in DOMAIN body \ {<<>>}, body[p].false, Live(Owner(p)), Opened(p, t)
                 PROVE  p \in v
      BY DEF Settled
    <2>1. Owner(p) \in DOMAIN body
      BY AroundFacts
    <2>2. CASE Past(Owner(p), t)
      <3>1. Past(Owner(p), s)
        BY <1>9, <2>1, <2>2
      <3> QED  BY <1>2, <3>1 DEF Settled, Opened
    <2>3. ASSUME NEW i \in 1..n, t[i].owner = Owner(p), List(p) <= t[i].list
          PROVE  p \in v
      BY <1>1, <1>2, <1>4, <2>3 DEF Settled, Opened
    <2>4. CASE g.owner = Owner(p) /\ List(p) <= g.list
      <3>1. IsChild(p, c, List(p))
        BY <2>4, ChildOf
      <3>2. List(p) = 1
        BY <2>4, <3>1, BodyFacts DEF IsChild
      <3>3. p \in Hidden(c, 1)
        BY <3>1, <3>2 DEF IsChild, Hidden, Children, Sizes
      <3> QED  BY <3>3
    <2> QED  BY <1>4, <2>2, <2>3, <2>4 DEF Opened
  <1>12. \A i \in 1..(n + 1) : Live(t[i].owner)
    BY <1>1, <1>4, <1>7 DEF StackInv
  <1>13. Chain(t)
    <2>1. t[1].owner = <<>>
      <3>1. 1 \in 1..n /\ s # <<>>
        BY <1>4
      <3> QED  BY <1>1, <1>2, <1>4, <3>1 DEF Chain
    <2>2. \A i \in 1..(n + 1) : FrameOK(t[i])
      BY <1>1, <1>2, <1>4 DEF Chain
    <2>3. \A i, j \in 1..(n + 1) : j = i + 1 => t[i].idx <= Size(t[i]) /\ Current(t[i]) = t[j].owner
      <3> TAKE i, j \in 1..(n + 1)
      <3> HAVE j = i + 1
      <3>1. i \in 1..n
        BY <1>4
      <3>2. CASE j = n + 1
        <4>1. i = n /\ t[i] = f /\ t[j] = g
          BY <1>4, <3>2
        <4> QED  BY <4>1
      <3>3. CASE j \in 1..n
        BY <1>1, <1>2, <1>4, <3>1, <3>3 DEF Chain
      <3> QED  BY <1>4, <3>2, <3>3
    <2> QED  BY <1>4, <2>1, <2>2, <2>3 DEF Chain
  <1>14. v \subseteq {p \in DOMAIN body \ {<<>>} : body[p].false} /\ r \subseteq v
    <2>1. 1 \in 1..Len(Sizes(c))
      BY DEF FrameOK
    <2>2. \A p \in Children(c, 1) : p \in DOMAIN body \ {<<>>}
      BY <1>6, <2>1, ChildrenFacts
    <2> QED  BY <1>2, <2>2 DEF Hidden
  <1> QED  BY <1>4, <1>7, <1>10, <1>11, <1>12, <1>13, <1>14 DEF StackInv

\* The first list again, from which more was removed, or the next list.
Relisting(s, u, r, f, g, t, v, w) ==
    /\ StackInv(s, u, r) /\ s # <<>>
    /\ f = Last(s) /\ ~(f.idx <= Size(f))
    /\ FrameOK(g) /\ g.owner = f.owner /\ g.idx = NextOf(g.owner, g.list, 0, w)
    /\ g.list = 1 \/ g.list = f.list + 1
    /\ g.list <= f.list + 1
    /\ t = [s EXCEPT ![Len(s)] = g]
    /\ v = u \/ (g.list = f.list + 1 /\ v = u \union Hidden(g.owner, g.list))
    /\ g.list <= f.list \/ v = u \union Hidden(g.owner, g.list)
    /\ r \subseteq w /\ w \subseteq u

\* A list starts: nothing new is seen, and what is in a function compiled again no longer is.
LEMMA ListShape ==
    ASSUME body \in Bodies, NEW s, NEW u, NEW r, NEW f, NEW g, NEW t, NEW v, NEW w,
           Relisting(s, u, r, f, g, t, v, w)
    PROVE  /\ StackInv(t, v, w)
           /\ \A p \in DOMAIN body \ {<<>>} : Live(p) /\ Seen(p, t) => Seen(p, s)
           /\ g.list = 1 => \A p \in DOMAIN body \ {<<>>} : Live(p) /\ Seen(p, t) =>
                                f.owner \notin Enclosing(p)
  <1> USE DEF Relisting
  <1>1. PICK n : n = Len(s)
    OBVIOUS
  <1>2. /\ s \in Seq(Frames) /\ Chain(s) /\ Settled(s, u)
        /\ u \subseteq {p \in DOMAIN body \ {<<>>} : body[p].false}
    BY DEF StackInv
  <1>4. /\ t \in Seq(Frames) /\ Len(t) = n /\ n \in Nat \ {0} /\ t # <<>>
        /\ t[n] = g /\ \A i \in 1..n : i # n => t[i] = s[i]
        /\ f = s[n] /\ n \in 1..n
    BY <1>1, <1>2, TopReplaced DEF FrameOK
  <1>5. FrameOK(f)
    BY <1>1, <1>2, <1>4 DEF Chain
  <1>6. Chain(t)
    BY <1>2, TopChain
  <1>7. ASSUME NEW q \in DOMAIN body \ {<<>>}, Behind(q, g)
        PROVE  q \in w \/ (Behind(q, f) /\ g.list # 1)
    <2>0. IsChild(q, f.owner, List(q))
      BY <1>7, ChildOf DEF Behind
    <2>1. IsChild(q, f.owner, List(q)) /\ Sizes(f.owner)[List(q)] \in Nat
      BY <2>0, ChildNumbers
    <2>2. 0 \in 0..Sizes(g.owner)[g.list]
      BY FrameNumbers
    <2>3. Onward(g, g, 0, w)
      BY DEF Onward
    <2>4. List(q) \in Nat /\ g.list \in Nat /\ f.list \in Nat /\ Last(q) \in Nat /\ Last(q) > 0
      BY <1>5, <2>1, BodyFacts DEF FrameOK, Frames, IsChild
    <2>5. CASE List(q) = g.list
      <3>1. Last(q) < g.idx /\ Owner(q) = g.owner
        BY <1>7, <2>4, <2>5 DEF Behind
      <3>2. Last(q) <= 0 \/ q \in w
        BY <2>2, <2>3, <2>5, <3>1, Skipped
      <3> QED  BY <2>4, <3>2
    <2>6. CASE List(q) < g.list
      <3>1. List(q) > 0
        BY <2>1, <2>4 DEF IsChild
      <3>2. g.list # 1 /\ List(q) <= f.list
        BY <2>4, <2>6, <3>1
      <3>0. Size(f) \in Nat /\ f.idx \in Nat
        BY <1>5, FrameNumbers
      <3>3. Last(q) <= Size(f) => Last(q) < f.idx
        BY <2>4, <3>0
      <3>4. List(q) = f.list => Last(q) <= Size(f)
        BY <2>1, <2>4 DEF IsChild, Size, Sizes
      <3> QED  BY <1>7, <2>4, <3>2, <3>3, <3>4 DEF Behind
    <2> QED  BY <1>7, <2>4, <2>5, <2>6 DEF Behind
  <1>8. ASSUME NEW p \in DOMAIN body, Live(p), Past(p, t)
        PROVE  Past(p, s) /\ (g.list = 1 => f.owner \notin Enclosing(p))
    <2>1. PICK q \in Around(p), i \in 1..n : Behind(q, t[i])
      BY <1>4, <1>8 DEF Past
    <2>2. q \in DOMAIN body \ {<<>>} /\ ~body[q].false
      BY <1>8, <2>1, AroundFacts DEF Live, Behind
    <2>3. q \notin w
      BY <1>2, <2>2
    <2>4. CASE i = n
      <3>1. Behind(q, f) /\ g.list # 1
        BY <1>4, <1>7, <2>1, <2>2, <2>3, <2>4
      <3> QED  BY <1>1, <1>4, <2>1, <2>4, <3>1 DEF Past
    <2>5. CASE i # n
      <3>1. Past(p, s)
        BY <1>1, <1>4, <2>1, <2>5 DEF Past
      <3>2. ASSUME f.owner \in Enclosing(p) PROVE FALSE
        <4>1. i < n /\ t[i] = s[i]
          BY <1>4, <2>5
        <4>2. /\ s[i].idx <= Size(s[i]) /\ Current(s[i]) \in Around(f.owner)
              /\ FrameOK(s[i])
          BY <1>1, <1>2, <1>4, <4>1, ChainAncestors DEF Chain
        <4>3. f.owner \in Around(p)
          BY <3>2 DEF Around
        <4>4. Current(s[i]) \in Around(p)
          BY <4>2, <4>3, AroundFacts
        <4>5. Current(s[i]) # <<>> /\ Owner(Current(s[i])) = s[i].owner /\ List(Current(s[i])) = s[i].list
              /\ Last(Current(s[i])) = s[i].idx
          BY <4>2, CurrentFacts DEF IsChild
        <4>6. Owner(q) = s[i].owner /\ q # <<>>
          BY <2>1, <4>1 DEF Behind
        <4>7. q = Current(s[i])
          BY <2>1, <4>4, <4>5, <4>6, SameOwner
        <4>8. s[i].list \in Nat /\ s[i].idx \in Nat
          BY <4>2 DEF FrameOK, Frames
        <4> QED  BY <2>1, <4>1, <4>5, <4>7, <4>8 DEF Behind
      <3> QED  BY <3>1, <3>2
    <2> QED  BY <2>4, <2>5
  <1>9. ASSUME NEW p \in DOMAIN body, NEW i \in 1..n, t[i].owner = p
        PROVE  s[i].owner = p /\ f.owner \notin Enclosing(p)
    <2>1. s[i].owner = p
      BY <1>4, <1>9
    <2>2. ASSUME f.owner \in Enclosing(p) PROVE FALSE
      <3>1. CASE i = n
        BY <1>4, <2>1, <2>2, <3>1, AroundLengths
      <3>2. CASE i # n
        <4>1. i < n
          BY <1>4, <3>2
        <4>0. s[i].owner \in Enclosing(s[n].owner)
          BY <1>1, <1>2, <1>4, <4>1, ChainAncestors
        <4>2. p \in Enclosing(f.owner) /\ f.owner \in DOMAIN body
          BY <1>4, <1>5, <2>1, <4>0, FrameNumbers
        <4>3. Len(p) < Len(f.owner) /\ Len(f.owner) < Len(p) /\ Len(p) \in Nat /\ Len(f.owner) \in Nat
          BY <2>2, <4>2, AroundLengths
        <4> QED  BY <4>3
      <3> QED  BY <3>1, <3>2
    <2> QED  BY <2>1, <2>2
  <1>10. \A p \in DOMAIN body \ {<<>>} : Live(p) /\ Seen(p, t) =>
             Seen(p, s) /\ (g.list = 1 => f.owner \notin Enclosing(p))
    BY <1>1, <1>4, <1>8, <1>9 DEF Seen
  <1>11. Settled(t, v)
    <2> SUFFICES ASSUME NEW p \in DOMAIN body \ {<<>>}, body[p].false, Live(Owner(p)), Opened(p, t)
                 PROVE  p \in v
      BY DEF Settled
    <2>0. u \subseteq v
      OBVIOUS
    <2>1. Owner(p) \in DOMAIN body
      BY AroundFacts
    <2>2. CASE Past(Owner(p), t)
      <3>1. Past(Owner(p), s)
        BY <1>8, <2>1, <2>2
      <3> QED  BY <1>2, <2>0, <3>1 DEF Settled, Opened
    <2>3. ASSUME NEW i \in 1..n, i # n, t[i].owner = Owner(p), List(p) <= t[i].list
          PROVE  p \in v
      BY <1>1, <1>2, <1>4, <2>0, <2>3 DEF Settled, Opened
    <2>4. CASE g.owner = Owner(p) /\ List(p) <= g.list
      <3>1. IsChild(p, f.owner, List(p)) /\ f.list \in Nat /\ g.list \in Nat
        BY <1>5, <2>4, ChildOf DEF FrameOK, Frames
      <3>2. CASE List(p) <= f.list
        <4>1. s[n].owner = Owner(p) /\ List(p) <= s[n].list
          BY <1>4, <2>4, <3>2
        <4>2. Opened(p, s)
          BY <1>1, <1>4, <4>1 DEF Opened
        <4> QED  BY <1>2, <2>0, <4>2 DEF Settled
      <3>3. CASE ~(List(p) <= f.list)
        <4>1. List(p) = g.list /\ ~(g.list <= f.list)
          BY <2>4, <3>1, <3>3 DEF IsChild
        <4>2. p \in Hidden(g.owner, g.list)
          BY <3>1, <4>1 DEF IsChild, Hidden, Children, Sizes
        <4> QED  BY <4>1, <4>2
      <3> QED  BY <3>2, <3>3
    <2> QED  BY <1>4, <2>2, <2>3, <2>4 DEF Opened
  <1>12. \A i \in 1..n : Live(t[i].owner)
    BY <1>1, <1>4 DEF StackInv
  <1>14. v \subseteq {p \in DOMAIN body \ {<<>>} : body[p].false} /\ w \subseteq v
    <2>1. g.list \in 1..Len(Sizes(g.owner)) /\ g.owner \in DOMAIN body
      BY FrameNumbers
    <2>2. \A p \in Children(g.owner, g.list) : p \in DOMAIN body \ {<<>>}
      BY <2>1, ChildrenFacts
    <2> QED  BY <1>2, <2>2 DEF Hidden
  <1> QED  BY <1>4, <1>6, <1>10, <1>11, <1>12, <1>14 DEF StackInv

\* The calls below.
LEMMA FrontPlaces ==
    ASSUME NEW S, NEW s \in Seq(S), s # <<>>
    PROVE  /\ Len(s) \in Nat \ {0} /\ Last(s) = s[Len(s)] /\ s[Len(s)] \in S
           /\ Front(s) \in Seq(S) /\ Len(Front(s)) = Len(s) - 1
           /\ \A i \in 1..(Len(s) - 1) : Front(s)[i] = s[i]
  <1>1. PICK n : n = Len(s)
    OBVIOUS
  <1>2. /\ n \in Nat \ {0} /\ n \in 1..n /\ Last(s) = s[n] /\ s[n] \in S
    BY <1>1, EmptySeq, ElementOfSeq DEF Last
  <1>3. PICK d : d = SubSeq(s, 1, n - 1)
    OBVIOUS
  <1>4. \A i \in 1..(n - 1) : s[i] \in S
    BY <1>1, <1>2, ElementOfSeq
  <1>5. /\ d \in Seq(S)
        /\ Len(d) = IF 1 <= n - 1 THEN n - 1 - 1 + 1 ELSE 0
        /\ \A i \in 1..(n - 1 - 1 + 1) : d[i] = s[1 + i - 1]
    BY <1>2, <1>3, <1>4, SubSeqProperties
  <1>6. n - 1 - 1 + 1 = n - 1 /\ (~(1 <= n - 1) => n - 1 = 0)
    BY <1>2
  <1>7. \A i \in 1..(n - 1) : 1 + i - 1 = i
    BY <1>2
  <1>8. Len(d) = n - 1 /\ \A i \in 1..(n - 1) : d[i] = s[i]
    BY <1>5, <1>6, <1>7
  <1>9. Front(s) = d
    BY <1>1, <1>3 DEF Front
  <1> QED  BY <1>1, <1>2, <1>5, <1>8, <1>9

\* A call that is at the end of its last list is done with the directives in its owner.
LEMMA DonePast ==
    ASSUME body \in Bodies, NEW s, NEW n \in 1..Len(s), NEW f, f = s[n], FrameOK(f),
           ~(f.idx <= Size(f)), f.list = Len(Sizes(f.owner)),
           NEW p \in DOMAIN body, f.owner \in Enclosing(p)
    PROVE  Past(p, s)
  <1>1. PICK x \in Around(p) \ {<<>>} : Owner(x) = f.owner
    BY AroundLengths
  <1>2. IsChild(x, f.owner, List(x))
    BY <1>1, AroundFacts, ChildOf
  <1>3. List(x) <= f.list /\ List(x) \in Nat /\ f.list \in Nat
    BY <1>2, BodyFacts DEF IsChild, FrameOK, Frames
  <1>4. List(x) = f.list => Last(x) < f.idx
    <2>1. List(x) = f.list => Last(x) <= Size(f)
      BY <1>2, BodyFacts DEF IsChild, Size, Sizes, FrameOK, Frames
    <2>2. Size(f) \in Nat /\ f.idx \in Nat /\ Last(x) \in Nat
      BY <1>2, BodyFacts DEF IsChild, Size, Sizes, FrameOK, Frames
    <2> QED  BY <2>1, <2>2
  <1>5. Behind(x, f)
    BY <1>1, <1>3, <1>4 DEF Behind
  <1> QED  BY <1>1, <1>5 DEF Past

\* Back to the call below.
Popping(s, u, r, f, d, t) ==
    /\ StackInv(s, u, r) /\ s # <<>>
    /\ f = Last(s) /\ ~(f.idx <= Size(f)) /\ f.list = Len(Sizes(f.owner))
    /\ d = Front(s)
    /\ \/ d = <<>> /\ t = <<>>
       \/ d # <<>> /\ \E g : /\ g.list = Last(d).list /\ Onward(Last(d), g, Last(d).idx, r)
                             /\ t = [d EXCEPT ![Len(d)] = g]

\* A call is over: nothing new is seen.
LEMMA PopShape ==
    ASSUME body \in Bodies, NEW s, NEW u, NEW r, NEW f, NEW d, NEW t,
           Popping(s, u, r, f, d, t)
    PROVE  /\ StackInv(t, u, r)
           /\ \A p \in DOMAIN body \ {<<>>} : Live(p) /\ Seen(p, t) => Seen(p, s)
  <1> USE DEF Popping
  <1>1. PICK n : n = Len(s)
    OBVIOUS
  <1>2. /\ s \in Seq(Frames) /\ Chain(s) /\ Settled(s, u)
        /\ u \subseteq {p \in DOMAIN body \ {<<>>} : body[p].false} /\ r \subseteq u
    BY DEF StackInv
  <1>3. /\ n \in Nat \ {0} /\ n \in 1..n /\ f = s[n]
    BY <1>1, <1>2, EmptySeq DEF Last
  <1>4. /\ d \in Seq(Frames) /\ Len(d) = n - 1 /\ \A i \in 1..(n - 1) : d[i] = s[i]
    <2>1. s \in Seq(Frames) /\ s # <<>>
      BY <1>2
    <2>2. Front(s) \in Seq(Frames) /\ Len(Front(s)) = Len(s) - 1
          /\ \A i \in 1..(Len(s) - 1) : Front(s)[i] = s[i]
      BY <2>1, FrontPlaces
    <2> QED  BY <1>1, <2>2
  <1>5. FrameOK(f)
    BY <1>1, <1>2, <1>3 DEF Chain
  \* f is done with the directives below its owner
  <1>6. ASSUME NEW p \in DOMAIN body, f.owner \in Enclosing(p)
        PROVE  Past(p, s)
    BY <1>1, <1>3, <1>5, <1>6, DonePast
  <1>7. CASE d = <<>> /\ t = <<>>
    <2>1. n = 1
      BY <1>3, <1>4, <1>7
    <2>2. f.owner = <<>>
      BY <1>2, <1>3, <2>1 DEF Chain
    <2>3. \A p \in DOMAIN body \ {<<>>} : <<>> \in Enclosing(p)
      BY AroundFacts
    <2>4. \A p \in DOMAIN body \ {<<>>} : Past(p, s)
      BY <1>6, <2>2, <2>3
    <2>5. Settled(t, u)
      <3> SUFFICES ASSUME NEW p \in DOMAIN body \ {<<>>}, body[p].false, Live(Owner(p))
                   PROVE  p \in u
        BY DEF Settled
      <3>1. Owner(p) \in DOMAIN body
        BY AroundFacts
      <3>2. CASE Owner(p) = <<>>
        <4>1. IsChild(p, f.owner, List(p))
          BY <2>2, <3>2, ChildOf
        <4>3. List(p) <= Len(Sizes(f.owner))
          BY <4>1, ChildNumbers
        <4>2. s[n].owner = Owner(p) /\ List(p) <= s[n].list
          BY <1>3, <2>2, <3>2, <4>3
        <4> QED  BY <1>1, <1>2, <1>3, <4>2 DEF Settled, Opened
      <3>3. CASE Owner(p) # <<>>
        BY <1>2, <2>4, <3>1, <3>3 DEF Settled, Opened
      <3> QED  BY <3>2, <3>3
    <2>6. t \in Seq(Frames) /\ Len(t) = 0
      BY <1>7, EmptySeq
    <2>7. Chain(t)
      BY <1>7, <2>6 DEF Chain
    <2> QED  BY <1>2, <2>4, <2>5, <2>6, <2>7 DEF StackInv, Seen
  <1>8. CASE d # <<>> /\ \E g : /\ g.list = Last(d).list /\ Onward(Last(d), g, Last(d).idx, r)
                                /\ t = [d EXCEPT ![Len(d)] = g]
    <2>1. PICK g : /\ g.list = Last(d).list /\ Onward(Last(d), g, Last(d).idx, r)
                   /\ t = [d EXCEPT ![Len(d)] = g]
      BY <1>8
    <2>2. PICK m, e : m = n - 1 /\ e = Last(d)
      OBVIOUS
    <2>3. FrameOK(g) /\ g.owner = e.owner /\ g.list = e.list
      BY <2>1, <2>2 DEF Onward
    <2>4. /\ t \in Seq(Frames) /\ Len(t) = m /\ m \in Nat \ {0} /\ t # <<>>
          /\ t[m] = g /\ \A i \in 1..m : i # m => t[i] = d[i]
          /\ e = d[m]
      BY <1>4, <1>8, <2>1, <2>2, <2>3, TopReplaced DEF FrameOK
    <2>5. /\ e = s[m] /\ m \in 1..n /\ n = m + 1 /\ \A i \in 1..m : d[i] = s[i] /\ i \in 1..n
      BY <1>3, <1>4, <2>2, <2>4
    <2>6. FrameOK(e) /\ e.idx <= Size(e) /\ Current(e) = f.owner
      BY <1>1, <1>2, <1>3, <2>5 DEF Chain
    <2>7. /\ f.owner \in DOMAIN body \ {<<>>} /\ IsChild(f.owner, e.owner, e.list)
          /\ Last(f.owner) = e.idx
      BY <2>6, CurrentFacts
    <2>8. Chain(d)
      <3>1. d[1].owner = <<>>
        <4>1. 1 \in 1..m
          BY <2>4
        <4> QED  BY <1>2, <2>5, <4>1 DEF Chain
      <3> QED  BY <1>1, <1>2, <1>4, <2>2, <2>5, <3>1 DEF Chain
    <2>9. Chain(t)
      BY <1>4, <1>8, <2>1, <2>2, <2>3, <2>8, TopChain
    <2>10. ASSUME NEW q \in DOMAIN body \ {<<>>}, Behind(q, g)
           PROVE  Behind(q, e) \/ q = f.owner \/ q \in r
      <3>1. e.idx \in 0..Sizes(g.owner)[g.list]
        BY <2>3, <2>6, BodyFacts DEF FrameOK, Frames, Size, Sizes
      <3>2. CASE List(q) = e.list /\ Last(q) < g.idx
        <4>1. Last(q) <= e.idx \/ q \in r
          BY <2>1, <2>2, <2>3, <2>10, <3>1, <3>2, Skipped DEF Behind
        <4>2. Last(q) \in Nat /\ e.idx \in Nat
          BY <2>6, ChildOf DEF IsChild, FrameOK, Frames
        <4>3. Last(q) = e.idx => q = f.owner
          <5>1. IsChild(q, e.owner, e.list)
            BY <2>3, <2>10, <3>2, ChildOf DEF Behind
          <5> QED  BY <2>7, <5>1 DEF IsChild
        <4>4. Last(q) < e.idx => Behind(q, e)
          BY <2>3, <2>10, <3>2 DEF Behind
        <4> QED  BY <4>1, <4>2, <4>3, <4>4
      <3>3. CASE List(q) < e.list
        BY <2>3, <2>10, <3>3 DEF Behind
      <3> QED  BY <2>3, <2>10, <3>2, <3>3 DEF Behind
    <2>11. ASSUME NEW p \in DOMAIN body, Live(p), Past(p, t)
           PROVE  Past(p, s) \/ p = f.owner
      <3>1. PICK q \in Around(p), i \in 1..m : Behind(q, t[i])
        BY <2>4, <2>11 DEF Past
      <3>2. q \in DOMAIN body \ {<<>>} /\ ~body[q].false
        BY <2>11, <3>1, AroundFacts DEF Live, Behind
      <3>3. q \notin r
        BY <1>2, <3>2
      <3>4. CASE i = m
        <4>1. CASE Behind(q, e)
          BY <1>1, <2>5, <3>1, <4>1 DEF Past
        <4>2. CASE q = f.owner
          <5>1. f.owner \in Enclosing(p) \/ p = f.owner
            BY <3>1, <4>2 DEF Around
          <5> QED  BY <1>6, <5>1
        <4> QED  BY <2>4, <2>10, <3>1, <3>2, <3>3, <3>4, <4>1, <4>2
      <3>5. CASE i # m
        <4>1. t[i] = s[i] /\ i \in 1..n
          BY <2>4, <2>5, <3>5
        <4> QED  BY <1>1, <3>1, <4>1 DEF Past
      <3> QED  BY <3>4, <3>5
    <2>12. \A i \in 1..m : /\ t[i].owner = s[i].owner /\ t[i].list = s[i].list
                           /\ i \in 1..n
      BY <2>3, <2>4, <2>5
    <2>13. \A p \in DOMAIN body \ {<<>>} : Live(p) /\ Seen(p, t) => Seen(p, s)
      <3> SUFFICES ASSUME NEW p \in DOMAIN body \ {<<>>}, Live(p), Seen(p, t)
                   PROVE  Seen(p, s)
        OBVIOUS
      <3>1. CASE Past(p, t)
        BY <1>1, <1>3, <2>11, <3>1 DEF Seen
      <3>2. CASE \E i \in 1..m : t[i].owner = p
        BY <1>1, <2>12, <3>2 DEF Seen
      <3> QED  BY <2>4, <3>1, <3>2 DEF Seen
    <2>14. Settled(t, u)
      <3> SUFFICES ASSUME NEW p \in DOMAIN body \ {<<>>}, body[p].false, Live(Owner(p)), Opened(p, t)
                   PROVE  p \in u
        BY DEF Settled
      <3>1. Owner(p) \in DOMAIN body
        BY AroundFacts
      <3>2. Opened(p, s)
        <4>1. CASE Past(Owner(p), t)
          <5>1. CASE Owner(p) = f.owner
            <6>1. List(p) <= f.list
              <7>1. IsChild(p, f.owner, List(p))
                BY <5>1, ChildOf
              <7> QED  BY <7>1, BodyFacts DEF IsChild
            <6> QED  BY <1>1, <1>3, <5>1, <6>1 DEF Opened
          <5> QED  BY <2>11, <3>1, <4>1, <5>1 DEF Opened
        <4>2. CASE \E i \in 1..m : t[i].owner = Owner(p) /\ List(p) <= t[i].list
          BY <1>1, <2>12, <4>2 DEF Opened
        <4> QED  BY <2>4, <4>1, <4>2 DEF Opened
      <3> QED  BY <1>2, <3>2 DEF Settled
    <2>15. \A i \in 1..m : Live(t[i].owner)
      BY <1>1, <2>12 DEF StackInv
    <2> QED  BY <1>2, <2>4, <2>9, <2>13, <2>14, <2>15 DEF StackInv
  <1> QED  BY <1>7, <1>8

\* The program does not change.
LEMMA SameBody ==
    ASSUME body' = body
    PROVE  /\ \A p : Enclosing(p)' = Enclosing(p) /\ Around(p)' = Around(p) /\ (Live(p)' <=> Live(p))
           /\ StackInv(stack, unknown, removed)' <=> StackInv(stack', unknown', removed')
           /\ \A p : Seen(p, stack)' <=> Seen(p, stack')
           /\ \A p : Past(p, stack)' <=> Past(p, stack')
  <1>1. ASSUME NEW p PROVE Enclosing(p)' = Enclosing(p)
    BY Zenon DEF Enclosing
  <1>2. ASSUME NEW p PROVE Around(p)' = Around(p)
    BY <1>1, Zenon DEF Around
  <1>3. ASSUME NEW p PROVE Live(p)' <=> Live(p)
    BY <1>2, Zenon DEF Live
  <1>4. Frames' = Frames
    BY Zenon DEF Frames
  <1>5. ASSUME NEW p PROVE Sizes(p)' = Sizes(p)
    BY Zenon DEF Sizes
  <1>6. ASSUME NEW f PROVE (FrameOK(f)' <=> FrameOK(f)) /\ Size(f)' = Size(f)
    BY <1>4, <1>5, Zenon DEF FrameOK, Size
  <1>7. Chain(stack)' <=> Chain(stack')
    BY <1>6, Zenon DEF Chain, Current
  <1>8. ASSUME NEW p PROVE Past(p, stack)' <=> Past(p, stack')
    BY <1>2, Zenon DEF Past, Behind
  <1>9. ASSUME NEW p PROVE Seen(p, stack)' <=> Seen(p, stack')
    BY <1>8, Zenon DEF Seen
  <1>10. ASSUME NEW p PROVE Opened(p, stack)' <=> Opened(p, stack')
    BY <1>8, Zenon DEF Opened
  <1>11. Settled(stack, unknown)' <=> Settled(stack', unknown')
    BY <1>3, <1>10, Zenon DEF Settled
  <1>12. StackInv(stack, unknown, removed)' <=> StackInv(stack', unknown', removed')
    BY <1>3, <1>4, <1>7, <1>11, Zenon DEF StackInv
  <1> QED  BY <1>1, <1>2, <1>3, <1>8, <1>9, <1>12

-----------------------------------------------------------------------------
(* The namespaces in use, and the invariant of the calls.                  *)

(* The namespaces in use: those of each call after those of the calls below. *)

\* The namespaces used before the directive at which a call is.
Uses(f) ==
    {u \in DOMAIN body \ {<<>>} : /\ Owner(u) = f.owner /\ List(u) = f.list /\ Last(u) < f.idx
                                  /\ body[u].kind = "use" /\ ~body[u].false}

\* They are, in this order, the places a + 1 to b of z.
Part(f, z, a, b) ==
    /\ a \in Nat /\ b \in Nat /\ a <= b /\ b <= Len(z)
    /\ \A m \in (a + 1)..b : z[m] \in Uses(f)
    /\ \A u \in Uses(f) : \E m \in (a + 1)..b : z[m] = u
    /\ \A l, m \in (a + 1)..b : l < m => Last(z[l]) < Last(z[m])

Bound(s, z, i) == IF i <= Len(s) THEN s[i].base ELSE Len(z)

ScopeInv(s, z) ==
    /\ z \in Seq(DOMAIN body)
    /\ s # <<>> => s[1].base = 0
    /\ \A i \in 1..Len(s) : Part(s[i], z, s[i].base, Bound(s, z, i + 1))

CallsInv ==
    /\ body \in Bodies
    /\ StackInv(stack, unknown, removed)
    /\ ScopeInv(stack, scope)
    /\ \A r \in unknown : Live(Owner(r))
    /\ outcome \in {"running", "done", "incompatible_type", "internal_error"}
    /\ outcome = "running" => stack # <<>>
    /\ outcome = "done" => stack = <<>>

-----------------------------------------------------------------------------
(* The four ways in which a step changes the calls. *)

AtTop(f, c) ==
    stack # <<>> /\ f = Last(stack) /\ f.idx <= Size(f) /\ c = Current(f) /\ outcome = "running"

\* Nothing comes after them.
TerminalKinds == {"return", "return_value", "throw", "goto", "break", "continue"}

PassStep(f, c, e, g) ==
    /\ AtTop(f, c) /\ (c \in unknown \/ body[c].kind \in Leaves)
    /\ e \in BOOLEAN /\ g = Advance(f, e) /\ stack' = [stack EXCEPT ![Len(stack)] = g]
    /\ e = (f.ending \/ Kind(c) \in TerminalKinds)
    /\ scope' = IF Kind(c) = "use" THEN Append(scope, c) ELSE scope
    /\ UNCHANGED <<body, unknown, removed, outcome>>

EnterStep(f, c, g) ==
    /\ AtTop(f, c) /\ c \notin unknown /\ body[c].kind \in Compounds
    /\ g = Frame(c, 1, Len(scope), FALSE, removed) /\ stack' = Append(stack, g)
    /\ unknown' = unknown \union Hidden(c, 1)
    /\ UNCHANGED <<body, removed, scope, outcome>>

AtEnd(f) == stack # <<>> /\ f = Last(stack) /\ ~(f.idx <= Size(f)) /\ outcome = "running"

ListStep(f, g) ==
    /\ AtEnd(f) /\ g.again \in BOOLEAN /\ g = Frame(f.owner, g.list, f.base, g.again, removed')
    /\ stack' = Append(Front(stack), g)
    /\ scope' = SubSeq(scope, 1, f.base)
    /\ \/ /\ g.list = 1 /\ body[f.owner].kind = "function" /\ unknown' = unknown
          /\ ~f.ending /\ ~f.again /\ g.again = TRUE
          /\ removed' = removed \union {p \in unknown : IsPrefix(f.owner, p)}
       \/ /\ g.list = f.list + 1 /\ f.list < Len(Sizes(f.owner)) /\ removed' = removed
          /\ g.again = FALSE
          /\ unknown' = unknown \union Hidden(f.owner, g.list)
    /\ UNCHANGED <<body, outcome>>

PopStep(f, e) ==
    /\ AtEnd(f) /\ f.list = Len(Sizes(f.owner)) /\ scope' = SubSeq(scope, 1, f.base)
    /\ ~(body[f.owner].kind = "function" /\ ~f.ending /\ ~f.again)
    /\ \/ Front(stack) = <<>> /\ stack' = <<>> /\ outcome' = "done"
       \/ /\ Front(stack) # <<>> /\ e \in BOOLEAN /\ outcome' = outcome
          /\ e = IF body[f.owner].kind = "list" THEN f.ending ELSE Last(Front(stack)).ending
          /\ stack' = [Front(stack) EXCEPT ![Len(Front(stack))] = Advance(Last(Front(stack)), e)]
    /\ UNCHANGED <<body, unknown, removed>>

\* To replace the innermost call is to remove it and to append another.
LEMMA TopSet ==
    ASSUME NEW s \in Seq(Frames), s # <<>>, NEW g \in Frames
    PROVE  Append(Front(s), g) = [s EXCEPT ![Len(s)] = g]
  <1>1. PICK n : n = Len(s)
    OBVIOUS
  <1>2. PICK t : t = [s EXCEPT ![Len(s)] = g]
    OBVIOUS
  <1>3. /\ t \in Seq(Frames) /\ Len(t) = n /\ n \in Nat \ {0}
        /\ t[n] = g /\ \A i \in 1..n : i # n => t[i] = s[i]
    BY <1>1, <1>2, TopReplaced
  <1>4. PICK d : d = Front(s)
    OBVIOUS
  <1>5. /\ d \in Seq(Frames) /\ Len(d) = n - 1 /\ \A i \in 1..(n - 1) : d[i] = s[i]
    BY <1>1, <1>3, <1>4, FrontPlaces
  <1>6. PICK w : w = Append(d, g)
    OBVIOUS
  <1>7. w \in Seq(Frames) /\ Len(w) = n /\ w[n] = g /\ \A i \in 1..(n - 1) : w[i] = d[i]
    <2>1. Len(d) + 1 = n
      BY <1>3, <1>5
    <2> QED  BY <1>5, <1>6, <2>1, AppendProperties
  <1>8. \A i \in 1..n : i = n \/ (i \in 1..(n - 1) /\ i # n)
    BY <1>3
  <1>9. \A i \in 1..n : w[i] = t[i]
    BY <1>3, <1>5, <1>7, <1>8
  <1> QED  BY <1>2, <1>3, <1>4, <1>6, <1>7, <1>9, SeqEqual

\* What Advance() changes of a call.
LEMMA AdvanceFacts ==
    ASSUME body \in Bodies, NEW f, FrameOK(f), f.idx <= Size(f), NEW e \in BOOLEAN
    PROVE  /\ Onward(f, Advance(f, e), f.idx, removed)
           /\ Advance(f, e).list = f.list /\ Advance(f, e).base = f.base
           /\ Advance(f, e).owner = f.owner /\ Advance(f, e).again = f.again
           /\ Advance(f, e).noAccess = (f.noAccess \/ f.ending)
           /\ Advance(f, e).ending => e
  <1>1. PICK o, k, i : o = f.owner /\ k = f.list /\ i = f.idx
    OBVIOUS
  <1>2. o \in DOMAIN body /\ k \in 1..Len(Sizes(o)) /\ i \in 0..Sizes(o)[k] /\ Sizes(o)[k] \in Nat
        /\ k \in Nat /\ f \in Frames
    BY <1>1, FrameNumbers DEF FrameOK
  <1>3. PICK x : x = NextOf(o, k, i, removed)
    OBVIOUS
  <1>4. x \in 1..(Sizes(o)[k] + 1)
    <2>1. x \in (i + 1)..(Sizes(o)[k] + 1)
      BY <1>2, <1>3, NextFacts
    <2> QED  BY <1>2, <2>1
  <1>5. PICK y, z : /\ y = (f.noAccess \/ f.ending)
                    /\ z = (e /\ ~(After(Current(f)) # <<>> /\ Kind(After(Current(f))) \in {"case", "default"}))
    OBVIOUS
  <1>6. y \in BOOLEAN /\ z \in BOOLEAN /\ (z => e)
    BY <1>2, <1>5 DEF Frames
  <1>7. PICK g : g = [f EXCEPT !.idx = x, !.noAccess = y, !.ending = z]
    OBVIOUS
  <1>8. Advance(f, e) = g
    BY <1>1, <1>3, <1>5, <1>7 DEF Advance, Following
  <1>9. g \in Frames /\ g.owner = o /\ g.list = k /\ g.idx = x /\ g.base = f.base /\ g.again = f.again
        /\ g.noAccess = y /\ g.ending = z
    <2>1. x \in Nat
      BY <1>2, <1>4
    <2>2. g \in Frames /\ g.idx = x /\ g.base = f.base /\ g.again = f.again /\ g.owner = f.owner
          /\ g.list = f.list
      BY <1>2, <1>6, <1>7, <2>1 DEF Frames
    <2>3. g.noAccess = y /\ g.ending = z
      BY <1>2, <1>7 DEF Frames
    <2> QED  BY <1>1, <2>2, <2>3
  <1>10. FrameOK(g)
    BY <1>2, <1>4, <1>9 DEF FrameOK
  <1> QED  BY <1>1, <1>3, <1>5, <1>6, <1>8, <1>9, <1>10 DEF Onward

\* What a new call is.
LEMMA FrameFacts ==
    ASSUME body \in Bodies, NEW o \in DOMAIN body, NEW k \in 1..Len(Sizes(o)),
           NEW b \in Nat, NEW a \in BOOLEAN, NEW gone
    PROVE  LET g == Frame(o, k, b, a, gone)
           IN  /\ FrameOK(g) /\ g.owner = o /\ g.list = k /\ g.base = b /\ g.again = a
               /\ g.idx = NextOf(o, k, 0, gone) /\ ~g.ending /\ ~g.noAccess
  <1>1. Sizes(o)[k] \in Nat /\ k \in Nat
    BY BodyFacts
  <1>2. PICK x : x = NextOf(o, k, 0, gone)
    OBVIOUS
  <1>3. x \in 1..(Sizes(o)[k] + 1)
    <2>1. 0 \in 0..Sizes(o)[k]
      BY <1>1
    <2>2. x \in (0 + 1)..(Sizes(o)[k] + 1)
      BY <1>2, <2>1, NextFacts
    <2> QED  BY <2>2
  <1>4. PICK g : g = [owner |-> o, list |-> k, idx |-> x, base |-> b,
                      noAccess |-> FALSE, ending |-> FALSE, again |-> a]
    OBVIOUS
  <1>5. Frame(o, k, b, a, gone) = g
    BY <1>2, <1>4 DEF Frame
  <1>6. /\ g \in Frames /\ g.owner = o /\ g.list = k /\ g.base = b /\ g.again = a
        /\ g.idx = x /\ ~g.ending /\ ~g.noAccess
    BY <1>1, <1>3, <1>4 DEF Frames
  <1>7. FrameOK(g)
    BY <1>3, <1>6 DEF FrameOK
  <1> QED  BY <1>2, <1>5, <1>6, <1>7

\* The innermost call is sound, and so is the directive at which it is.
LEMMA TopFacts ==
    ASSUME CallsInv, stack # <<>>
    PROVE  /\ FrameOK(Top) /\ Top.ending \in BOOLEAN
           /\ Top.idx <= Size(Top) => Current(Top) \in DOMAIN body \ {<<>>}
  <1>1. body \in Bodies /\ stack \in Seq(Frames) /\ Chain(stack)
    BY DEF CallsInv, StackInv
  <1>2. PICK n : n = Len(stack)
    OBVIOUS
  <1>3. n \in 1..n /\ Top = stack[n]
    <2>1. stack \in Seq(Frames) /\ stack # <<>>
      BY <1>1
    <2>2. Len(stack) \in Nat \ {0} /\ Last(stack) = stack[Len(stack)]
      BY <2>1, FrontPlaces
    <2> QED  BY <1>2, <2>2 DEF Top
  <1>4. FrameOK(Top)
    BY <1>1, <1>2, <1>3 DEF Chain
  <1>5. Top.ending \in BOOLEAN
    BY <1>4 DEF FrameOK, Frames
  <1> QED  BY <1>1, <1>4, <1>5, CurrentFacts

\* The four ways are all.
Classified ==
    \/ \E f, c, e, g : PassStep(f, c, e, g)
    \/ \E f, c, g : EnterStep(f, c, g)
    \/ \E f, g : ListStep(f, g)
    \/ \E f, e : PopStep(f, e)

\* Pass() is the first of the four ways...
LEMMA PassAction ==
    ASSUME CallsInv, NEW p \in DOMAIN body, NEW kinds, At(p, kinds), kinds \subseteq Leaves \union {"unknown"},
           NEW e, e \in BOOLEAN, e = (Top.ending \/ Kind(p) \in TerminalKinds), NEW reported, Pass(e, reported),
           scope' = IF Kind(p) = "use" THEN Append(scope, p) ELSE scope,
           UNCHANGED <<body, unknown, removed, outcome>>
    PROVE  PassStep(Top, p, e, Advance(Top, e)) /\ errors \subseteq errors'
  <1>1. AtTop(Top, p)
    BY DEF At, AtTop, Top
  <1>2. p \in DOMAIN body \ {<<>>}
    BY TopFacts DEF At
  <1>3. p \in unknown \/ body[p].kind \in Leaves
    <2>1. body[p].kind \in Leaves \union Compounds
      BY <1>2, BodyFacts DEF CallsInv
    <2>2. "unknown" \notin Leaves \union Compounds
      BY DEF Leaves, Compounds, FunctionKinds, LoopKinds
    <2>3. p \notin unknown => body[p].kind \in kinds
      BY DEF At, Kind
    <2> QED  BY <2>1, <2>2, <2>3
  <1>4. stack' = [stack EXCEPT ![Len(stack)] = Advance(Top, e)] /\ errors \subseteq errors'
    BY DEF Pass, Top, Last
  <1> QED  BY <1>1, <1>3, <1>4 DEF PassStep

\* ... and Enter() the second.
LEMMA EnterAction ==
    ASSUME CallsInv, NEW p \in DOMAIN body, NEW kinds, At(p, kinds), kinds \subseteq Compounds,
           NEW reported, Enter(p, reported),
           UNCHANGED <<body, removed, scope, outcome>>
    PROVE  EnterStep(Top, p, Frame(p, 1, Len(scope), FALSE, removed)) /\ errors \subseteq errors'
  <1>1. AtTop(Top, p)
    BY DEF At, AtTop, Top
  <1>2. "unknown" \notin Compounds
    BY DEF Leaves, Compounds, FunctionKinds, LoopKinds
  <1>3. p \notin unknown /\ body[p].kind \in Compounds
    BY <1>2 DEF At, Kind
  <1> QED  BY <1>1, <1>3 DEF EnterStep, Enter

\* A call that returns is at its end, and its namespaces are no longer in use.
LEMMA ReturnedFacts ==
    ASSUME CallsInv, Returned
    PROVE  AtEnd(Top) /\ scope' = SubSeq(scope, 1, Top.base)
  <1>1. Size(Top) \in Nat /\ Top.idx \in Nat
    BY TopFacts, FrameNumbers DEF CallsInv, Returned
  <1> QED  BY <1>1 DEF Returned, AtEnd, Top

\* What the internal_error of a use namespace leaves as it is.
Held == <<body, unknown, removed, labels, enters, exits, defaults, scope, stack, errors>>

LEMMA StepCases ==
    ASSUME [Next]_vars
    PROVE  Works \/ (UNCHANGED Held /\ (outcome' = outcome \/ outcome' = "internal_error"))
  <1>1. CASE UseRefused
    BY <1>1, Zenon DEF UseRefused, Held
  <1>2. CASE UNCHANGED vars
    BY <1>2 DEF vars, Held
  <1> QED  BY <1>1, <1>2 DEF Next

\* Every other step changes the calls in one of the four ways and forgets no error.
LEMMA Shapes ==
    ASSUME CallsInv, Works
    PROVE  Classified /\ errors \subseteq errors'
  <1>1. CASE Plain
    <2>1. PICK p \in DOMAIN body :
            /\ At(p, {"expression", "var", "label", "unknown"})
            /\ Pass(Top.ending, {})
            /\ UNCHANGED <<body, unknown, removed, labels, enters, exits, defaults, scope, outcome>>
      BY <1>1 DEF Plain
    <2>2. Kind(p) # "use" /\ Top.ending \in BOOLEAN
      BY <2>1, TopFacts DEF At
    <2>3. {"expression", "var", "label", "unknown"} \subseteq Leaves \union {"unknown"} /\ Kind(p) \notin TerminalKinds
      BY <2>1 DEF At, Leaves, TerminalKinds
    <2>4. PassStep(Top, p, Top.ending, Advance(Top, Top.ending)) /\ errors \subseteq errors'
      BY <2>1, <2>2, <2>3, PassAction
    <2> QED  BY <2>4 DEF Classified
  <1>2. CASE UseNamespace
    <2>1. PICK p \in DOMAIN body :
            /\ At(p, {"use"})
            /\ Pass(Top.ending, {})
            /\ scope' = Append(scope, p)
            /\ UNCHANGED <<body, unknown, removed, labels, enters, exits, defaults, outcome>>
      BY <1>2 DEF UseNamespace
    <2>2. Kind(p) = "use" /\ Top.ending \in BOOLEAN
      BY <2>1, TopFacts DEF At
    <2>3. {"use"} \subseteq Leaves \union {"unknown"} /\ Kind(p) \notin TerminalKinds
      BY <2>1 DEF At, Leaves, TerminalKinds
    <2>4. PassStep(Top, p, Top.ending, Advance(Top, Top.ending)) /\ errors \subseteq errors'
      BY <2>1, <2>2, <2>3, PassAction
    <2> QED  BY <2>4 DEF Classified
  <1>3. CASE Throw
    <2>1. PICK p \in DOMAIN body :
            /\ At(p, {"throw"})
            /\ Pass(TRUE, {})
            /\ UNCHANGED <<body, unknown, removed, labels, enters, exits, defaults, scope, outcome>>
      BY <1>3 DEF Throw
    <2>2. Kind(p) # "use"
      BY <2>1 DEF At
    <2>3. {"throw"} \subseteq Leaves \union {"unknown"} /\ Kind(p) \in TerminalKinds
      BY <2>1 DEF At, Leaves, TerminalKinds
    <2>4. PassStep(Top, p, TRUE, Advance(Top, TRUE)) /\ errors \subseteq errors'
      BY <2>1, <2>2, <2>3, PassAction
    <2> QED  BY <2>4 DEF Classified
  <1>4. CASE Goto
    <2>1. PICK p, reported :
            /\ p \in DOMAIN body
            /\ At(p, {"goto"})
            /\ Pass(TRUE, reported)
            /\ UNCHANGED <<body, unknown, removed, labels, defaults, scope, outcome>>
      BY <1>4, Zenon DEF Goto
    <2>2. Kind(p) # "use"
      BY <2>1 DEF At
    <2>3. {"goto"} \subseteq Leaves \union {"unknown"} /\ Kind(p) \in TerminalKinds
      BY <2>1 DEF At, Leaves, TerminalKinds
    <2>4. PassStep(Top, p, TRUE, Advance(Top, TRUE)) /\ errors \subseteq errors'
      BY <2>1, <2>2, <2>3, PassAction
    <2> QED  BY <2>4 DEF Classified
  <1>5. CASE BreakContinue
    <2>1. PICK p, reported :
            /\ p \in DOMAIN body
            /\ At(p, {"break", "continue"})
            /\ Pass(TRUE, reported)
            /\ UNCHANGED <<body, unknown, removed, labels, enters, defaults, scope, outcome>>
      BY <1>5, Zenon DEF BreakContinue
    <2>2. Kind(p) # "use"
      BY <2>1 DEF At
    <2>3. {"break", "continue"} \subseteq Leaves \union {"unknown"} /\ Kind(p) \in TerminalKinds
      BY <2>1 DEF At, Leaves, TerminalKinds
    <2>4. PassStep(Top, p, TRUE, Advance(Top, TRUE)) /\ errors \subseteq errors'
      BY <2>1, <2>2, <2>3, PassAction
    <2> QED  BY <2>4 DEF Classified
  <1>6. CASE Return
    <2>1. PICK p \in DOMAIN body :
            /\ At(p, {"return", "return_value"})
            /\ Pass(TRUE, ReturnErrors(p))
            /\ UNCHANGED <<body, unknown, removed, labels, enters, exits, defaults, scope, outcome>>
      BY <1>6 DEF Return
    <2>2. Kind(p) # "use"
      BY <2>1 DEF At
    <2>3. {"return", "return_value"} \subseteq Leaves \union {"unknown"} /\ Kind(p) \in TerminalKinds
      BY <2>1 DEF At, Leaves, TerminalKinds
    <2>4. PassStep(Top, p, TRUE, Advance(Top, TRUE)) /\ errors \subseteq errors'
      BY <2>1, <2>2, <2>3, PassAction
    <2> QED  BY <2>4 DEF Classified
  <1>7. CASE Case
    <2>1. PICK p, reported :
            /\ p \in DOMAIN body
            /\ At(p, {"case"})
            /\ Pass(Top.ending, reported)
            /\ UNCHANGED <<body, unknown, removed, labels, enters, exits, defaults, scope, outcome>>
      BY <1>7 DEF Case
    <2>2. Kind(p) # "use" /\ Top.ending \in BOOLEAN
      BY <2>1, TopFacts DEF At
    <2>3. {"case"} \subseteq Leaves \union {"unknown"} /\ Kind(p) \notin TerminalKinds
      BY <2>1 DEF At, Leaves, TerminalKinds
    <2>4. PassStep(Top, p, Top.ending, Advance(Top, Top.ending)) /\ errors \subseteq errors'
      BY <2>1, <2>2, <2>3, PassAction
    <2> QED  BY <2>4 DEF Classified
  <1>8. CASE Default
    <2>1. PICK p, reported :
            /\ p \in DOMAIN body
            /\ At(p, {"default"})
            /\ Pass(Top.ending, reported)
            /\ UNCHANGED <<body, unknown, removed, labels, enters, exits, scope, outcome>>
      BY <1>8, Zenon DEF Default
    <2>2. Kind(p) # "use" /\ Top.ending \in BOOLEAN
      BY <2>1, TopFacts DEF At
    <2>3. {"default"} \subseteq Leaves \union {"unknown"} /\ Kind(p) \notin TerminalKinds
      BY <2>1 DEF At, Leaves, TerminalKinds
    <2>4. PassStep(Top, p, Top.ending, Advance(Top, Top.ending)) /\ errors \subseteq errors'
      BY <2>1, <2>2, <2>3, PassAction
    <2> QED  BY <2>4 DEF Classified
  <1>9. CASE Block \/ Switch \/ Try \/ Function
    <2>1. PICK p, kinds, reported :
            /\ p \in DOMAIN body
            /\ At(p, kinds) /\ kinds \subseteq Compounds
            /\ Enter(p, reported)
            /\ UNCHANGED <<body, removed, scope, outcome>>
      <3>1. LoopKinds \union {"list", "with", "if"} \subseteq Compounds /\ {"switch"} \subseteq Compounds
            /\ {"try", "catch", "typed_catch", "finally"} \subseteq Compounds
            /\ FunctionKinds \subseteq Compounds
        BY DEF Compounds
      <3>2. CASE Block
        BY <3>1, <3>2 DEF Block
      <3>3. CASE Switch
        BY <3>1, <3>3, Zenon DEF Switch
      <3>4. CASE Try
        BY <3>1, <3>4 DEF Try
      <3>5. CASE Function
        BY <3>1, <3>5 DEF Function
      <3> QED  BY <1>9, <3>2, <3>3, <3>4, <3>5
    <2>2. EnterStep(Top, p, Frame(p, 1, Len(scope), FALSE, removed)) /\ errors \subseteq errors'
      BY <2>1, EnterAction
    <2> QED  BY <2>2 DEF Classified
  <1>10. CASE CompileAgain
    <2>1. AtEnd(Top) /\ scope' = SubSeq(scope, 1, Top.base)
      BY <1>10, ReturnedFacts DEF CompileAgain
    <2>2. FrameOK(Top) /\ body \in Bodies
      BY <2>1, TopFacts DEF AtEnd, CallsInv
    <2>3. PICK g : g = Frame(Top.owner, 1, Top.base, TRUE, removed')
      OBVIOUS
    <2>4. g.list = 1 /\ g.again = TRUE
      BY <2>3 DEF Frame
    <2>5. errors \subseteq errors'
      BY <1>10 DEF CompileAgain
    <2>6. ListStep(Top, g)
      BY <1>10, <2>1, <2>3, <2>4 DEF CompileAgain, ListStep
    <2> QED  BY <2>5, <2>6 DEF Classified
  <1>11. CASE NextList
    <2>1. AtEnd(Top) /\ scope' = SubSeq(scope, 1, Top.base)
      BY <1>11, ReturnedFacts DEF NextList
    <2>3. PICK g : g = Frame(Top.owner, Top.list + 1, Top.base, FALSE, removed)
      OBVIOUS
    <2>4. g.list = Top.list + 1 /\ g.again = FALSE
      BY <2>3 DEF Frame
    <2>6. ListStep(Top, g) /\ errors \subseteq errors'
      BY <1>11, <2>1, <2>3, <2>4 DEF NextList, ListStep, Sizes
    <2> QED  BY <2>6 DEF Classified
  <1>12. CASE Leave
    <2>1. AtEnd(Top) /\ scope' = SubSeq(scope, 1, Top.base) /\ stack \in Seq(Frames)
      BY <1>12, ReturnedFacts DEF Leave, CallsInv, StackInv
    <2>2. PICK e : e = EndingOf(Top, Last(Front(stack)).ending)
      OBVIOUS
    <2>3. Front(stack) # <<>> => e \in BOOLEAN
      <3>1. ASSUME Front(stack) # <<>> PROVE Last(Front(stack)) \in Frames
        <4>1. stack # <<>>
          BY <2>1 DEF AtEnd
        <4>2. Front(stack) \in Seq(Frames)
          BY <2>1, <4>1, FrontPlaces
        <4>3. /\ Last(Front(stack)) = Front(stack)[Len(Front(stack))]
              /\ Front(stack)[Len(Front(stack))] \in Frames
          BY <3>1, <4>2, FrontPlaces
        <4> QED  BY <4>3
      <3>2. Top.ending \in BOOLEAN
        BY <2>1, TopFacts DEF AtEnd
      <3> QED  BY <2>2, <3>1, <3>2 DEF Frames, EndingOf
    <2>4. \/ Front(stack) = <<>> /\ stack' = <<>> /\ outcome' = "done"
          \/ /\ Front(stack) # <<>> /\ outcome' = outcome
             /\ stack' = [Front(stack) EXCEPT ![Len(Front(stack))] = Advance(Last(Front(stack)), e)]
      BY <1>12, <2>2 DEF Leave, Last
    <2>5. PopStep(Top, e)
      <3>1. /\ Top.list = Len(Sizes(Top.owner)) /\ UNCHANGED <<body, unknown, removed>>
            /\ ~(body[Top.owner].kind = "function" /\ ~Top.ending /\ ~Top.again)
        BY <1>12 DEF Leave, Sizes
      <3> QED  BY <2>1, <2>2, <2>3, <2>4, <3>1, Zenon DEF PopStep, EndingOf
    <2>6. errors \subseteq errors'
      BY <1>12 DEF Leave
    <2> QED  BY <2>5, <2>6 DEF Classified
  <1> QED  BY <1>1, <1>2, <1>3, <1>4, <1>5, <1>6, <1>7, <1>8, <1>9, <1>10, <1>11, <1>12 DEF Works

\* A call keeps its part of the namespaces when what is after it changes...
LEMMA PartKept ==
    ASSUME NEW f, NEW g, Uses(g) = Uses(f), NEW z, NEW w, NEW a, NEW b, Part(f, z, a, b),
           b <= Len(w), \A m \in 1..b : w[m] = z[m]
    PROVE  Part(g, w, a, b)
  <1>1. \A m \in (a + 1)..b : m \in 1..b /\ w[m] = z[m]
    BY DEF Part
  <1>2. a \in Nat /\ b \in Nat /\ a <= b
    BY DEF Part
  <1>3. \A m \in (a + 1)..b : w[m] \in Uses(g)
    BY <1>1 DEF Part
  <1>4. \A u \in Uses(g) : \E m \in (a + 1)..b : w[m] = u
    BY <1>1 DEF Part
  <1>5. \A l, m \in (a + 1)..b : l < m => Last(w[l]) < Last(w[m])
    BY <1>1 DEF Part
  <1> QED  BY <1>2, <1>3, <1>4, <1>5 DEF Part

\* ... has an empty one before its first use...
LEMMA PartEmpty ==
    ASSUME NEW f, Uses(f) = {}, NEW z, NEW a \in Nat, a <= Len(z)
    PROVE  Part(f, z, a, a)
  <1>1. (a + 1)..a = {}
    OBVIOUS
  <1> QED  BY <1>1 DEF Part

\* ... and a longer one after another use.
LEMMA PartMore ==
    ASSUME NEW f, NEW g, NEW z \in Seq(DOMAIN body), NEW a, Part(f, z, a, Len(z)),
           NEW c \in DOMAIN body, Uses(g) = Uses(f) \union {c}, \A u \in Uses(f) : Last(u) < Last(c)
    PROVE  Part(g, Append(z, c), a, Len(Append(z, c)))
  <1>1. PICK n : n = Len(z)
    OBVIOUS
  <1>2. PICK w : w = Append(z, c)
    OBVIOUS
  <1>3. /\ n \in Nat /\ Len(w) = n + 1 /\ w[n + 1] = c /\ \A m \in 1..n : w[m] = z[m]
    BY <1>1, <1>2, LenProperties, AppendProperties
  <1>4. a \in Nat /\ a <= n
    BY <1>1 DEF Part
  <1>5. /\ \A m \in (a + 1)..(n + 1) : m = n + 1 \/ (m \in (a + 1)..n /\ m \in 1..n)
        /\ \A m \in (a + 1)..n : m \in (a + 1)..(n + 1) /\ m \in 1..n
        /\ n + 1 \in (a + 1)..(n + 1)
    BY <1>3, <1>4
  <1>6. \A m \in (a + 1)..n : w[m] \in Uses(f)
    BY <1>1, <1>3, <1>5 DEF Part
  <1>7. \A m \in (a + 1)..(n + 1) : w[m] \in Uses(g)
    BY <1>3, <1>5, <1>6
  <1>8. \A u \in Uses(g) : \E m \in (a + 1)..(n + 1) : w[m] = u
    <2>1. \A u \in Uses(f) : \E m \in (a + 1)..n : w[m] = u
      BY <1>1, <1>3, <1>5 DEF Part
    <2> QED  BY <1>3, <1>5, <2>1
  <1>9. \A l, m \in (a + 1)..(n + 1) : l < m => Last(w[l]) < Last(w[m])
    <2> TAKE l, m \in (a + 1)..(n + 1)
    <2> HAVE l < m
    <2>1. l \in (a + 1)..n
      BY <1>3, <1>4
    <2>2. CASE m = n + 1
      BY <1>3, <1>6, <2>1, <2>2
    <2>3. CASE m \in (a + 1)..n
      BY <1>1, <1>3, <1>5, <2>1, <2>3 DEF Part
    <2> QED  BY <1>5, <2>2, <2>3
  <1>10. n + 1 \in Nat /\ a <= n + 1
    BY <1>3, <1>4
  <1> QED  BY <1>2, <1>3, <1>4, <1>7, <1>8, <1>9, <1>10 DEF Part

\* The calls below the innermost.
LEMMA BoundFacts ==
    ASSUME body \in Bodies, NEW s \in Seq(Frames), NEW z, ScopeInv(s, z), s # <<>>, NEW n, n = Len(s)
    PROVE  /\ n \in Nat \ {0} /\ Len(z) \in Nat /\ z \in Seq(DOMAIN body)
           /\ \A i \in 1..n : /\ s[i] \in Frames /\ s[i].base \in Nat /\ s[i].base <= Len(z)
                              /\ i # n => i + 1 \in 1..n /\ Part(s[i], z, s[i].base, s[i + 1].base)
                              /\ i = n => Part(s[n], z, s[n].base, Len(z))
           /\ \A i \in 1..n : s[i].base <= s[n].base
  <1>1. n \in Nat \ {0} /\ z \in Seq(DOMAIN body) /\ Len(z) \in Nat
    BY EmptySeq, LenProperties DEF ScopeInv
  <1>10. \A i \in 1..n : s[i] \in Frames
    BY ElementOfSeq
  <1>2. \A i \in 1..n : s[i] \in Frames /\ s[i].base \in Nat
    BY <1>10 DEF Frames
  <1>3. \A i \in 1..n : i # n => i + 1 \in 1..n /\ Bound(s, z, i + 1) = s[i + 1].base
    BY <1>1 DEF Bound
  <1>4. \A i \in 1..n : i = n => Bound(s, z, i + 1) = Len(z)
    BY <1>1 DEF Bound
  <1>5. \A i \in 1..n : Part(s[i], z, s[i].base, Bound(s, z, i + 1))
    BY DEF ScopeInv
  <1>6. \A i \in 1..n : i # n => i + 1 \in 1..n /\ Part(s[i], z, s[i].base, s[i + 1].base)
    BY <1>3, <1>5
  <1>7. n \in 1..n /\ Part(s[n], z, s[n].base, Len(z))
    BY <1>1, <1>4, <1>5
  <1>8. \A i \in 1..n : s[i].base <= Len(z)
    <2> TAKE i \in 1..n
    <2>1. CASE i = n
      BY <1>7, <2>1 DEF Part
    <2>2. CASE i # n
      <3>1. s[i].base <= s[i + 1].base /\ s[i + 1].base <= Len(z) /\ s[i + 1].base \in Nat
        BY <1>6, <2>2 DEF Part
      <3> QED  BY <1>1, <1>2, <3>1
    <2> QED  BY <2>1, <2>2
  <1>9. \A i \in 1..n : s[i].base <= s[n].base
    <2>1. PICK S : S = {m \in Nat : n - m \in 1..n => s[n - m].base <= s[n].base}
      OBVIOUS
    <2>2. 0 \in S
      BY <1>1, <1>2, <1>7, <2>1
    <2>3. ASSUME NEW m \in Nat, m \in S PROVE m + 1 \in S
      <3> SUFFICES ASSUME n - (m + 1) \in 1..n PROVE s[n - (m + 1)].base <= s[n].base
        BY <2>1
      <3>5. PICK i : i = n - (m + 1)
        OBVIOUS
      <3>1. i \in 1..n /\ i = n - (m + 1) /\ i # n /\ i + 1 = n - m /\ n - m \in 1..n
        BY <1>1, <3>5
      <3>2. s[i + 1].base <= s[n].base
        BY <2>1, <2>3, <3>1
      <3>3. s[i].base <= s[i + 1].base
        BY <1>6, <3>1 DEF Part
      <3>4. s[i].base \in Nat /\ s[i + 1].base \in Nat /\ s[n].base \in Nat
        BY <1>2, <1>7, <3>1
      <3> QED  BY <3>1, <3>2, <3>3, <3>4
    <2>4. Nat \subseteq S
      BY <2>2, <2>3, SetInduction
    <2> TAKE i \in 1..n
    <2>5. n - i \in Nat /\ n - (n - i) = i
      BY <1>1
    <2>6. n - i \in S
      BY <2>4, <2>5
    <2> QED  BY <2>1, <2>5, <2>6
  <1> QED  BY <1>1, <1>2, <1>6, <1>7, <1>8, <1>9

\* A call of which the places are known; those below as before.
Rescoping(s, z, t, m, w) ==
    /\ s \in Seq(Frames) /\ ScopeInv(s, z) /\ s # <<>>
    /\ t \in Seq(Frames) /\ m \in 1..Len(s) /\ m = Len(t) /\ w \in Seq(DOMAIN body)
    /\ \A i \in 1..m : i # m => t[i] = s[i]
    /\ t[m].base = s[m].base /\ Part(t[m], w, t[m].base, Len(w))
    /\ s[m].base <= Len(w)
    /\ \A j \in 1..s[m].base : w[j] = z[j]

\* The parts of all the calls, from that of the innermost.
LEMMA ScopeStep ==
    ASSUME body \in Bodies, NEW s, NEW z, NEW t, NEW m, NEW w, Rescoping(s, z, t, m, w)
    PROVE  ScopeInv(t, w)
  <1> USE DEF Rescoping
  <1>0. PICK n : n = Len(s)
    OBVIOUS
  <1>1. n \in Nat /\ Len(w) \in Nat /\ m \in 1..n /\ m \in Nat \ {0} /\ 1 \in 1..n /\ 1 \in 1..m
    <2>1. n \in Nat /\ Len(w) \in Nat
      BY <1>0, LenProperties
    <2> QED  BY <1>0, <2>1
  <1>2. t[1].base = 0
    <2>1. s[1].base = 0
      BY DEF ScopeInv
    <2>2. t[1].base = s[1].base
      BY <1>1
    <2> QED  BY <2>1, <2>2
  <1>3. ASSUME NEW i \in 1..m PROVE Part(t[i], w, t[i].base, Bound(t, w, i + 1))
    <2>1. CASE i = m
      <3>1. Bound(t, w, i + 1) = Len(w)
        BY <1>1, <2>1 DEF Bound
      <3> QED  BY <2>1, <3>1
    <2>2. CASE i # m
      <3>1. i \in 1..n /\ i # n /\ i + 1 \in 1..m /\ i + 1 \in 1..n
        BY <1>1, <2>2
      <3>2. Bound(t, w, i + 1) = s[i + 1].base
        BY <1>1, <3>1 DEF Bound
      <3>3. Part(s[i], z, s[i].base, s[i + 1].base) /\ s[i + 1].base \in Nat /\ s[m].base \in Nat
        BY <1>0, <1>1, <3>1, BoundFacts
      <3>4. s[i + 1].base <= s[m].base
        <4>1. CASE i + 1 = m
          BY <3>3, <4>1
        <4>2. CASE i + 1 # m
          <5>1. PICK S : S = {x \in Nat : i + 1 + x \in 1..m => s[i + 1].base <= s[i + 1 + x].base}
            OBVIOUS
          <5>2. 0 \in S
            BY <3>1, <3>3, <5>1
          <5>3. ASSUME NEW x \in Nat, x \in S PROVE x + 1 \in S
            <6> SUFFICES ASSUME i + 1 + (x + 1) \in 1..m PROVE s[i + 1].base <= s[i + 1 + (x + 1)].base
              BY <5>1
            <6>1. PICK y \in 1..n : /\ y = i + 1 + x /\ y \in 1..m /\ y # n /\ y + 1 \in 1..n
                                    /\ i + 1 + (x + 1) = y + 1
              BY <1>1
            <6>2. s[i + 1].base <= s[y].base
              BY <5>1, <5>3, <6>1
            <6>3. Part(s[y], z, s[y].base, s[y + 1].base)
              BY <1>0, <1>1, <6>1, BoundFacts
            <6>4. s[y].base <= s[y + 1].base /\ s[y].base \in Nat /\ s[y + 1].base \in Nat
              BY <6>3 DEF Part
            <6>5. \A a, b, c \in Nat : a <= b /\ b <= c => a <= c
              OBVIOUS
            <6>6. s[i + 1].base <= s[y + 1].base
              BY <3>3, <6>2, <6>4, <6>5, Zenon
            <6> QED  BY <6>1, <6>6, Zenon
          <5>4. Nat \subseteq S
            BY <5>2, <5>3, SetInduction
          <5>5. m - (i + 1) \in Nat /\ i + 1 + (m - (i + 1)) = m
            BY <1>1, <3>1
          <5>6. m - (i + 1) \in S
            BY <5>4, <5>5
          <5>7. m \in 1..m
            BY <1>1
          <5> QED  BY <5>1, <5>5, <5>6, <5>7
        <4> QED  BY <4>1, <4>2
      <3>5. s[i + 1].base <= Len(w) /\ \A j \in 1..s[i + 1].base : w[j] = z[j]
        <4>1. \A j \in 1..s[i + 1].base : j \in 1..s[m].base
          BY <3>3, <3>4
        <4> QED  BY <1>1, <3>3, <3>4, <4>1
      <3>6. Part(s[i], w, s[i].base, s[i + 1].base)
        <4>1. PICK f, a, b : f = s[i] /\ a = s[i].base /\ b = s[i + 1].base
          OBVIOUS
        <4>2. Part(f, z, a, b) /\ b <= Len(w) /\ \A j \in 1..b : w[j] = z[j]
          BY <3>3, <3>5, <4>1
        <4>3. Part(f, w, a, b)
          BY <4>2, PartKept
        <4> QED  BY <4>1, <4>3
      <3> QED  BY <2>2, <3>2, <3>6
    <2> QED  BY <2>1, <2>2
  <1> QED  BY <1>2, <1>3 DEF ScopeInv

\* What a step leaves true of the calls, and which directives it may reach.
Result(c) ==
    /\ StackInv(stack', unknown', removed') /\ ScopeInv(stack', scope')
    /\ \A p \in DOMAIN body \ {<<>>} : Live(p) /\ Seen(p, stack') => Seen(p, stack) \/ p = c

\* A directive in the list of a call has been marked if it is to be.
LEMMA CurrentSettled ==
    ASSUME CallsInv, NEW i \in 1..Len(stack), NEW q \in DOMAIN body \ {<<>>},
           Owner(q) = stack[i].owner, List(q) = stack[i].list
    PROVE  body[q].false <=> q \in unknown
  <1>1. /\ stack \in Seq(Frames) /\ Settled(stack, unknown) /\ Live(stack[i].owner)
        /\ unknown \subseteq {p \in DOMAIN body \ {<<>>} : body[p].false} /\ FrameOK(stack[i])
        /\ body \in Bodies
    BY DEF CallsInv, StackInv, Chain
  <1>2. List(q) \in Nat
    BY <1>1, FrameNumbers
  <1>3. Opened(q, stack)
    BY <1>2 DEF Opened
  <1> QED  BY <1>1, <1>3 DEF Settled

\* How many lists the directives have.
LEMMA ListCountFacts ==
    /\ \A kind \in Leaves : ListCounts(kind) = {0}
    /\ \A kind \in Compounds \union FunctionKinds \union {"program"} :
            kind \notin Leaves /\ ListCounts(kind) = IF kind = "if" THEN {1, 2} ELSE {1}
  <1>1. \A kind \in Leaves : ListCounts(kind) = {0}
    <2>1. "if" \notin Leaves
      BY DEF Leaves
    <2> QED  BY <2>1 DEF ListCounts
  <1>2. \A kind \in Compounds \union FunctionKinds \union {"program"} : kind \notin Leaves
    BY DEF Leaves, Compounds, FunctionKinds, LoopKinds
  <1>3. "if" \notin Leaves
    BY DEF Leaves
  <1>4. \A kind \in Compounds \union FunctionKinds \union {"program"} :
            ListCounts(kind) = IF kind = "if" THEN {1, 2} ELSE {1}
    BY <1>2, <1>3, Zenon DEF ListCounts
  <1> QED  BY <1>1, <1>2, <1>4

\* A call that moves on is later in its list.
LEMMA OnwardLater ==
    ASSUME body \in Bodies, NEW f, NEW g, NEW i, NEW r, Onward(f, g, i, r),
           i \in 0..Sizes(g.owner)[g.list]
    PROVE  i < g.idx
  <1>1. PICK o, k, m : o = g.owner /\ k = g.list /\ m = g.idx
    OBVIOUS
  <1>2. o \in DOMAIN body /\ k \in 1..Len(Sizes(o))
    BY <1>1, FrameNumbers DEF Onward
  <1>3. i \in 0..Sizes(o)[k] /\ m = NextOf(o, k, i, r) /\ Sizes(o)[k] \in Nat
    BY <1>1, <1>2, BodyFacts DEF Onward
  <1>4. m \in (i + 1)..(Sizes(o)[k] + 1)
    BY <1>2, <1>3, NextFacts
  <1> QED  BY <1>1, <1>3, <1>4

\* What is invariant of the calls, of what is seen and of the namespaces: a directive is passed,
LEMMA PassResult ==
    ASSUME CallsInv, NEW f, NEW c, NEW e, NEW g, PassStep(f, c, e, g)
    PROVE  Result(c)
  <1>1. /\ body \in Bodies /\ stack \in Seq(Frames) /\ Chain(stack) /\ ScopeInv(stack, scope)
        /\ StackInv(stack, unknown, removed) /\ removed \subseteq unknown
        /\ unknown \subseteq {p \in DOMAIN body \ {<<>>} : body[p].false}
    BY DEF CallsInv, StackInv
  <1>2. /\ stack # <<>> /\ f = Last(stack) /\ f.idx <= Size(f) /\ c = Current(f) /\ e \in BOOLEAN
        /\ g = Advance(f, e) /\ stack' = [stack EXCEPT ![Len(stack)] = g]
        /\ c \in unknown \/ body[c].kind \in Leaves
        /\ unknown' = unknown /\ removed' = removed
        /\ scope' = IF Kind(c) = "use" THEN Append(scope, c) ELSE scope
    BY DEF PassStep, AtTop
  <1>3. PICK n : n = Len(stack)
    OBVIOUS
  <1>4. FrameOK(f)
    BY <1>2, TopFacts DEF Top
  <1>5. /\ Onward(f, g, f.idx, removed) /\ g.list = f.list /\ g.base = f.base /\ g.owner = f.owner
        /\ FrameOK(g)
    BY <1>1, <1>2, <1>4, AdvanceFacts DEF Onward
  <1>6. /\ stack' \in Seq(Frames) /\ Len(stack') = n /\ n \in Nat \ {0} /\ n \in 1..n
        /\ stack'[n] = g /\ \A i \in 1..n : i # n => stack'[i] = stack[i]
        /\ f = stack[n]
    BY <1>1, <1>2, <1>3, <1>5, TopReplaced DEF FrameOK
  <1>7. c \in DOMAIN body \ {<<>>} /\ IsChild(c, f.owner, f.list) /\ Last(c) = f.idx
    BY <1>1, <1>2, <1>4, CurrentFacts
  <1>8. c \in unknown \/ Len(Sizes(c)) = 0
    <2>1. ASSUME body[c].kind \in Leaves PROVE Len(Sizes(c)) = 0
      <3>1. Len(Sizes(c)) \in ListCounts(body[c].kind)
        BY <1>1, <1>7, BodyFacts
      <3> QED  BY <2>1, <3>1, ListCountFacts
    <2> QED  BY <1>2, <2>1
  <1>9. /\ StackInv(stack', unknown', removed')
        /\ \A p \in DOMAIN body \ {<<>>} : Live(p) /\ Seen(p, stack') => Seen(p, stack) \/ p = c
    <2>1. PICK t : t = stack'
      OBVIOUS
    <2>2. t = [stack EXCEPT ![Len(stack)] = g]
      BY <1>2, <2>1
    <2>3. /\ StackInv(t, unknown, removed)
          /\ \A p \in DOMAIN body \ {<<>>} : Live(p) /\ Seen(p, t) => Seen(p, stack) \/ p = c
      <3>1. StackInv(stack, unknown, removed) /\ body \in Bodies
        BY <1>1
      <3>2. stack # <<>> /\ f = Last(stack) /\ f.idx <= Size(f) /\ c = Current(f)
        BY <1>2
      <3>3. g.list = f.list /\ Onward(f, g, f.idx, removed)
        BY <1>5
      <3>4. Passing(stack, unknown, removed, f, c, g, t)
        BY <1>8, <2>2, <3>1, <3>2, <3>3 DEF Passing
      <3> QED  BY <3>1, <3>4, PassShape
    <2> QED  BY <1>2, <2>1, <2>3
  <1>10. body[c].false <=> c \in unknown
    BY <1>1, <1>3, <1>6, <1>7, CurrentSettled DEF IsChild
  <1>11. Kind(c) = "use" <=> body[c].kind = "use" /\ ~body[c].false
    BY <1>10 DEF Kind
  <1>12. \A u \in Uses(f) : u \in Uses(g) /\ Last(u) < f.idx
    <2> TAKE u \in Uses(f)
    <2>1. /\ u \in DOMAIN body \ {<<>>} /\ Owner(u) = f.owner /\ List(u) = f.list /\ Last(u) < f.idx
          /\ body[u].kind = "use" /\ ~body[u].false
      BY Zenon DEF Uses
    <2>2. Last(u) < g.idx
      <3>1. f.idx < g.idx /\ f.idx \in Nat /\ g.idx \in Nat
        <4>1. f.idx \in 0..Sizes(g.owner)[g.list] /\ f.idx \in Nat /\ g.idx \in Nat
          BY <1>1, <1>2, <1>4, <1>5, FrameNumbers
        <4> QED  BY <1>1, <1>5, <4>1, OnwardLater
      <3>2. Last(u) \in Nat
        BY <1>1, <2>1, ChildOf DEF IsChild
      <3> QED  BY <2>1, <3>1, <3>2
    <2> QED  BY <1>5, <2>1, <2>2 DEF Uses
  <1>13. \A u \in Uses(g) : u \in Uses(f) \/ u = c
    <2> TAKE u \in Uses(g)
    <2>1. /\ u \in DOMAIN body \ {<<>>} /\ Owner(u) = g.owner /\ List(u) = g.list /\ Last(u) < g.idx
          /\ body[u].kind = "use" /\ ~body[u].false
      BY Zenon DEF Uses
    <2>2. u \notin removed
      BY <1>1, <2>1
    <2>3. f.idx \in 0..Sizes(g.owner)[g.list] /\ f.idx \in Nat
      BY <1>1, <1>2, <1>4, <1>5, FrameNumbers
    <2>4. Last(u) <= f.idx
      BY <1>1, <1>5, <2>1, <2>2, <2>3, Skipped
    <2>5. IsChild(u, f.owner, f.list)
      BY <1>1, <1>5, <2>1, ChildOf
    <2>6. Last(u) = f.idx => u = c
      BY <1>7, <2>5 DEF IsChild
    <2>7. Last(u) < f.idx => u \in Uses(f)
      BY <1>5, <2>1 DEF Uses
    <2>8. Last(u) \in Nat
      BY <2>5 DEF IsChild
    <2> QED  BY <2>3, <2>4, <2>6, <2>7, <2>8
  <1>14. c \in Uses(g) <=> Kind(c) = "use"
    <2>1. Last(c) < g.idx
      <3>1. f.idx \in 0..Sizes(g.owner)[g.list]
        BY <1>1, <1>2, <1>4, <1>5, FrameNumbers
      <3> QED  BY <1>1, <1>5, <1>7, <3>1, OnwardLater
    <2>2. Owner(c) = g.owner /\ List(c) = g.list
      BY <1>5, <1>7 DEF IsChild
    <2> QED  BY <1>7, <1>11, <2>1, <2>2 DEF Uses
  <1>15. Part(f, scope, f.base, Len(scope)) /\ f.base <= Len(scope) /\ scope \in Seq(DOMAIN body)
         /\ Len(scope) \in Nat /\ f.base \in Nat
    BY <1>1, <1>2, <1>3, <1>6, BoundFacts
  <1>16. /\ scope' \in Seq(DOMAIN body) /\ Part(g, scope', g.base, Len(scope'))
         /\ f.base <= Len(scope') /\ \A j \in 1..f.base : scope'[j] = scope[j]
    <2>1. CASE Kind(c) = "use"
      <3>1. Uses(g) = Uses(f) \union {c}
        BY <1>12, <1>13, <1>14, <2>1
      <3>2. scope' = Append(scope, c)
        BY <1>2, <2>1
      <3>3. \A u \in Uses(f) : Last(u) < Last(c)
        BY <1>7, <1>12
      <3>4. Part(g, Append(scope, c), f.base, Len(Append(scope, c)))
        BY <1>7, <1>15, <3>1, <3>3, PartMore
      <3>5. /\ Append(scope, c) \in Seq(DOMAIN body) /\ Len(Append(scope, c)) = Len(scope) + 1
            /\ \A j \in 1..Len(scope) : Append(scope, c)[j] = scope[j]
        BY <1>7, <1>15, AppendProperties
      <3>6. \A j \in 1..f.base : j \in 1..Len(scope)
        BY <1>15
      <3> QED  BY <1>5, <1>15, <3>2, <3>4, <3>5, <3>6
    <2>2. CASE Kind(c) # "use"
      <3>1. Uses(g) = Uses(f)
        BY <1>12, <1>13, <1>14, <2>2
      <3>2. scope' = scope
        BY <1>2, <2>2
      <3>3. Part(g, scope, f.base, Len(scope))
        BY <1>15, <3>1, PartKept
      <3> QED  BY <1>5, <1>15, <3>2, <3>3
    <2> QED  BY <2>1, <2>2
  <1>17. ScopeInv(stack', scope')
    <2>1. PICK t, w : t = stack' /\ w = scope'
      OBVIOUS
    <2>2. /\ t \in Seq(Frames) /\ n = Len(t) /\ w \in Seq(DOMAIN body)
          /\ \A i \in 1..n : i # n => t[i] = stack[i]
          /\ t[n].base = stack[n].base /\ Part(t[n], w, t[n].base, Len(w))
          /\ stack[n].base <= Len(w) /\ \A j \in 1..stack[n].base : w[j] = scope[j]
      BY <1>5, <1>6, <1>16, <2>1
    <2>3. ScopeInv(t, w)
      <3>1. n \in 1..Len(stack) /\ body \in Bodies /\ stack \in Seq(Frames) /\ ScopeInv(stack, scope)
            /\ stack # <<>>
        BY <1>1, <1>2, <1>3, <1>6
      <3>2. Rescoping(stack, scope, t, n, w)
        BY <2>2, <3>1 DEF Rescoping
      <3> QED  BY <3>1, <3>2, ScopeStep
    <2> QED  BY <2>1, <2>3
  <1> QED  BY <1>9, <1>17 DEF Result

\* a list is entered,
LEMMA EnterResult ==
    ASSUME CallsInv, NEW f, NEW c, NEW g, EnterStep(f, c, g)
    PROVE  Result(c) /\ Live(c) /\ \A r \in unknown' : r \in unknown \/ Live(Owner(r))
  <1>1. /\ body \in Bodies /\ stack \in Seq(Frames) /\ Chain(stack) /\ ScopeInv(stack, scope)
        /\ StackInv(stack, unknown, removed) /\ removed \subseteq unknown
        /\ unknown \subseteq {p \in DOMAIN body \ {<<>>} : body[p].false}
    BY DEF CallsInv, StackInv
  <1>2. /\ stack # <<>> /\ f = Last(stack) /\ f.idx <= Size(f) /\ c = Current(f) /\ c \notin unknown
        /\ body[c].kind \in Compounds
        /\ g = Frame(c, 1, Len(scope), FALSE, removed) /\ stack' = Append(stack, g)
        /\ unknown' = unknown \union Hidden(c, 1) /\ removed' = removed /\ scope' = scope
    BY DEF EnterStep, AtTop
  <1>3. PICK n : n = Len(stack)
    OBVIOUS
  <1>4. FrameOK(f)
    BY <1>2, TopFacts DEF Top
  <1>5. c \in DOMAIN body \ {<<>>}
    BY <1>1, <1>2, <1>4, CurrentFacts
  <1>6. 1 \in 1..Len(Sizes(c))
    <2>1. Len(Sizes(c)) \in ListCounts(body[c].kind)
      BY <1>1, <1>5, BodyFacts
    <2>2. Len(Sizes(c)) \in {1, 2}
      BY <1>2, <2>1, ListCountFacts
    <2> QED  BY <2>2
  <1>7. scope \in Seq(DOMAIN body) /\ Len(scope) \in Nat
    BY <1>1, LenProperties DEF ScopeInv
  <1>8. /\ FrameOK(g) /\ g.owner = c /\ g.list = 1 /\ g.base = Len(scope)
        /\ g.idx = NextOf(c, 1, 0, removed)
    <2>1. PICK k, b, a, h : k = 1 /\ b = Len(scope) /\ a = FALSE /\ h = Frame(c, k, b, a, removed)
      OBVIOUS
    <2>2. g = h
      BY <1>2, <2>1
    <2>3. /\ FrameOK(h) /\ h.owner = c /\ h.list = k /\ h.base = b
          /\ h.idx = NextOf(c, k, 0, removed)
      <3>1. k \in 1..Len(Sizes(c)) /\ b \in Nat /\ a \in BOOLEAN
        BY <1>6, <1>7, <2>1
      <3> QED  BY <1>1, <1>5, <2>1, <3>1, FrameFacts
    <2> QED  BY <2>1, <2>2, <2>3
  <1>9. PICK t, v : t = stack' /\ v = unknown'
    OBVIOUS
  <1>10. Entering(stack, unknown, removed, f, c, g, t, v)
    BY <1>1, <1>2, <1>8, <1>9 DEF Entering
  <1>11. /\ StackInv(t, v, removed) /\ Live(c)
         /\ \A p \in DOMAIN body \ {<<>>} : Live(p) /\ Seen(p, t) => Seen(p, stack) \/ p = c
    BY <1>1, <1>10, EnterShape
  <1>12. /\ t \in Seq(Frames) /\ Len(t) = n + 1 /\ n \in Nat /\ t # <<>>
         /\ t[n + 1] = g /\ \A i \in 1..n : t[i] = stack[i]
         /\ \A i \in 1..(n + 1) : i \in 1..n \/ i = n + 1
         /\ n \in 1..n
    <2>1. g \in Frames
      BY <1>8 DEF FrameOK
    <2>2. t = Append(stack, g)
      BY <1>2, <1>9
    <2>3. stack \in Seq(Frames) /\ stack # <<>>
      BY <1>1, <1>2
    <2> QED  BY <1>3, <2>1, <2>2, <2>3, CallPushed
  <1>13. Uses(g) = {}
    <2> SUFFICES ASSUME NEW u \in DOMAIN body \ {<<>>}, Owner(u) = g.owner, List(u) = g.list,
                        Last(u) < g.idx, ~body[u].false
                 PROVE  FALSE
      BY DEF Uses
    <2>1. 0 \in 0..Sizes(g.owner)[g.list]
      BY <1>1, <1>8, FrameNumbers
    <2>2. Onward(g, g, 0, removed)
      BY <1>8 DEF Onward
    <2>3. Last(u) <= 0 \/ u \in removed
      BY <1>1, <2>1, <2>2, Skipped
    <2>4. IsChild(u, Owner(u), List(u))
      BY <1>1, ChildOf
    <2>5. Last(u) \in Nat \ {0}
      BY <1>1, <2>4, ChildNumbers
    <2> QED  BY <1>1, <2>3, <2>5
  <1>14. ScopeInv(t, scope)
    <2>1. ASSUME NEW i \in 1..(n + 1)
          PROVE  Part(t[i], scope, t[i].base, Bound(t, scope, i + 1))
      <3>1. CASE i = n + 1
        <4>1. Bound(t, scope, i + 1) = Len(scope)
          BY <1>12, <3>1 DEF Bound
        <4>2. Part(g, scope, Len(scope), Len(scope))
          <5>1. PICK a \in Nat : a = Len(scope)
            BY <1>7
          <5>2. Part(g, scope, a, a)
            BY <1>13, <5>1, PartEmpty
          <5> QED  BY <5>1, <5>2
        <4> QED  BY <1>8, <1>12, <3>1, <4>1, <4>2
      <3>2. CASE i \in 1..n
        <4>1. Part(stack[i], scope, stack[i].base, Bound(stack, scope, i + 1))
          BY <1>1, <1>3, <3>2 DEF ScopeInv
        <4>2. Bound(stack, scope, i + 1) = Bound(t, scope, i + 1)
          <5>1. CASE i = n
            <6>1. Bound(t, scope, i + 1) = t[n + 1].base
              BY <1>12, <5>1 DEF Bound
            <6>2. Bound(stack, scope, i + 1) = Len(scope)
              BY <1>3, <1>12, <5>1 DEF Bound
            <6> QED  BY <1>8, <1>12, <6>1, <6>2
          <5>2. CASE i # n
            <6>1. i + 1 \in 1..n /\ i + 1 <= n + 1
              BY <1>12, <3>2, <5>2
            <6> QED  BY <1>3, <1>12, <6>1 DEF Bound
          <5> QED  BY <5>1, <5>2
        <4> QED  BY <1>12, <3>2, <4>1, <4>2
      <3> QED  BY <1>12, <3>1, <3>2
    <2>2. t[1].base = 0
      <3>1. 1 \in 1..n
        BY <1>12
      <3> QED  BY <1>1, <1>2, <1>12, <3>1 DEF ScopeInv
    <2> QED  BY <1>7, <1>12, <2>1, <2>2 DEF ScopeInv
  <1>15. \A r \in unknown' : r \in unknown \/ Live(Owner(r))
    <2>1. \A r \in Hidden(c, 1) : Owner(r) = c
      BY <1>1, <1>5, <1>6, ChildrenFacts DEF Hidden, IsChild
    <2> QED  BY <1>2, <1>11, <2>1
  <1> QED  BY <1>2, <1>9, <1>11, <1>14, <1>15 DEF Result

\* What SubSeq() keeps of the namespaces.
LEMMA ScopeCut ==
    ASSUME NEW z \in Seq(DOMAIN body), NEW b \in Nat, b <= Len(z)
    PROVE  /\ SubSeq(z, 1, b) \in Seq(DOMAIN body) /\ Len(SubSeq(z, 1, b)) = b
           /\ \A m \in 1..b : SubSeq(z, 1, b)[m] = z[m]
  <1>1. PICK n : n = Len(z)
    OBVIOUS
  <1>2. \A m \in 1..b : z[m] \in DOMAIN body
    <2>1. n \in Nat /\ \A m \in 1..b : m \in 1..n
      BY <1>1, LenProperties
    <2> QED  BY <1>1, <2>1, ElementOfSeq
  <1>3. PICK w : w = SubSeq(z, 1, b)
    OBVIOUS
  <1>4. /\ w \in Seq(DOMAIN body)
        /\ Len(w) = IF 1 <= b THEN b - 1 + 1 ELSE 0
        /\ \A m \in 1..(b - 1 + 1) : w[m] = z[1 + m - 1]
    BY <1>2, <1>3, SubSeqProperties
  <1>5. b - 1 + 1 = b /\ (~(1 <= b) => b = 0) /\ \A m \in 1..b : 1 + m - 1 = m
    OBVIOUS
  <1>6. Len(w) = b /\ \A m \in 1..b : w[m] = z[m]
    BY <1>4, <1>5
  <1> QED  BY <1>3, <1>4, <1>6

\* another list starts,
LEMMA ListResult ==
    ASSUME CallsInv, NEW f, NEW g, ListStep(f, g)
    PROVE  /\ StackInv(stack', unknown', removed') /\ ScopeInv(stack', scope')
           /\ \A p \in DOMAIN body \ {<<>>} : Live(p) /\ Seen(p, stack') => Seen(p, stack)
           /\ \A r \in unknown' : r \in unknown \/ Live(Owner(r))
           /\ removed' # removed =>
                /\ removed' = removed \union {p \in unknown : IsPrefix(f.owner, p)}
                /\ \A p \in DOMAIN body \ {<<>>} : Live(p) /\ Seen(p, stack') => f.owner \notin Enclosing(p)
                /\ \A p \in DOMAIN body \ {<<>>} : f.owner \in Enclosing(p) => Past(p, stack)
                /\ Live(f.owner)
  <1>1. /\ body \in Bodies /\ stack \in Seq(Frames) /\ Chain(stack) /\ ScopeInv(stack, scope)
        /\ StackInv(stack, unknown, removed) /\ removed \subseteq unknown
        /\ unknown \subseteq {p \in DOMAIN body \ {<<>>} : body[p].false}
    BY DEF CallsInv, StackInv
  <1>2. /\ stack # <<>> /\ f = Last(stack) /\ ~(f.idx <= Size(f))
        /\ g = Frame(f.owner, g.list, f.base, g.again, removed') /\ stack' = Append(Front(stack), g)
        /\ scope' = SubSeq(scope, 1, f.base)
    BY DEF ListStep, AtEnd
  <1>3. \/ /\ g.list = 1 /\ unknown' = unknown
           /\ removed' = removed \union {p \in unknown : IsPrefix(f.owner, p)}
        \/ /\ g.list = f.list + 1 /\ f.list < Len(Sizes(f.owner)) /\ removed' = removed
           /\ unknown' = unknown \union Hidden(f.owner, g.list)
    BY DEF ListStep
  <1>4. FrameOK(f)
    BY <1>2, TopFacts DEF Top
  <1>5. /\ f.owner \in DOMAIN body /\ f.list \in 1..Len(Sizes(f.owner)) /\ f.list \in Nat \ {0}
        /\ f.base \in Nat /\ Len(Sizes(f.owner)) \in Nat
    BY <1>1, <1>4, FrameNumbers, BodyFacts
  <1>6. g.list \in 1..Len(Sizes(f.owner)) /\ g.list \in Nat /\ g.list <= f.list + 1
    BY <1>3, <1>5
  <1>7. g.again \in BOOLEAN
    BY DEF ListStep
  <1>8. /\ FrameOK(g) /\ g.owner = f.owner /\ g.base = f.base
        /\ g.idx = NextOf(f.owner, g.list, 0, removed')
    <2>1. PICK k, a, h : k = g.list /\ a = g.again /\ h = Frame(f.owner, k, f.base, a, removed')
      OBVIOUS
    <2>2. g = h
      BY <1>2, <2>1
    <2>3. /\ FrameOK(h) /\ h.owner = f.owner /\ h.base = f.base
          /\ h.idx = NextOf(f.owner, k, 0, removed')
      BY <1>1, <1>5, <1>6, <1>7, <2>1, FrameFacts
    <2> QED  BY <2>1, <2>2, <2>3
  <1>9. PICK t, v, w, z : t = stack' /\ v = unknown' /\ w = removed' /\ z = scope'
    OBVIOUS
  <1>10. t = [stack EXCEPT ![Len(stack)] = g]
    BY <1>1, <1>2, <1>8, <1>9, TopSet DEF FrameOK
  <1>11. Relisting(stack, unknown, removed, f, g, t, v, w)
    <2>1. g.list = 1 \/ g.list = f.list + 1
      BY <1>3
    <2>2. v = unknown \/ (g.list = f.list + 1 /\ v = unknown \union Hidden(g.owner, g.list))
      BY <1>3, <1>8, <1>9
    <2>3. g.list <= f.list \/ v = unknown \union Hidden(g.owner, g.list)
      BY <1>3, <1>5, <1>8, <1>9
    <2>4. removed \subseteq w /\ w \subseteq unknown
      BY <1>1, <1>3, <1>9
    <2>5. g.idx = NextOf(g.owner, g.list, 0, w)
      BY <1>8, <1>9
    <2> QED  BY <1>1, <1>2, <1>6, <1>8, <1>10, <2>1, <2>2, <2>3, <2>4, <2>5 DEF Relisting
  <1>12. /\ StackInv(t, v, w)
         /\ \A p \in DOMAIN body \ {<<>>} : Live(p) /\ Seen(p, t) => Seen(p, stack)
         /\ g.list = 1 => \A p \in DOMAIN body \ {<<>>} : Live(p) /\ Seen(p, t) =>
                              f.owner \notin Enclosing(p)
    BY <1>1, <1>11, ListShape
  <1>13. PICK n : n = Len(stack)
    OBVIOUS
  <1>14. /\ t \in Seq(Frames) /\ Len(t) = n /\ n \in Nat \ {0} /\ t # <<>> /\ n \in 1..n
         /\ t[n] = g /\ \A i \in 1..n : i # n => t[i] = stack[i]
         /\ f = stack[n]
    BY <1>1, <1>2, <1>8, <1>10, <1>13, TopReplaced DEF FrameOK
  <1>15. scope \in Seq(DOMAIN body) /\ f.base <= Len(scope)
    BY <1>1, <1>2, <1>13, <1>14, BoundFacts
  <1>16. z \in Seq(DOMAIN body) /\ Len(z) = f.base /\ \A m \in 1..f.base : z[m] = scope[m]
    BY <1>2, <1>5, <1>9, <1>15, ScopeCut
  <1>17. Uses(g) = {}
    <2> SUFFICES ASSUME NEW u \in DOMAIN body \ {<<>>}, Owner(u) = g.owner, List(u) = g.list,
                        Last(u) < g.idx, ~body[u].false
                 PROVE  FALSE
      BY DEF Uses
    <2>1. 0 \in 0..Sizes(g.owner)[g.list]
      BY <1>1, <1>8, FrameNumbers
    <2>2. Onward(g, g, 0, w)
      BY <1>8, <1>9 DEF Onward
    <2>3. Last(u) <= 0 \/ u \in w
      BY <1>1, <2>1, <2>2, Skipped
    <2>4. IsChild(u, Owner(u), List(u))
      BY <1>1, ChildOf
    <2>5. Last(u) \in Nat \ {0}
      BY <1>1, <2>4, ChildNumbers
    <2>6. w \subseteq unknown
      BY <1>1, <1>3, <1>9
    <2> QED  BY <1>1, <2>3, <2>5, <2>6
  <1>18. ScopeInv(t, z)
    <2>1. Part(g, z, f.base, f.base)
      BY <1>5, <1>16, <1>17, PartEmpty
    <2>2. Rescoping(stack, scope, t, n, z)
      BY <1>1, <1>2, <1>5, <1>8, <1>13, <1>14, <1>16, <2>1 DEF Rescoping
    <2> QED  BY <1>1, <2>2, ScopeStep
  <1>19. removed' # removed => g.list = 1 /\ removed' = removed \union {p \in unknown : IsPrefix(f.owner, p)}
    BY <1>3
  <1>20. Live(f.owner)
    BY <1>1, <1>13, <1>14 DEF StackInv
  <1>21. \A r \in unknown' : r \in unknown \/ Live(Owner(r))
    <2>1. \A r \in Hidden(f.owner, g.list) : Owner(r) = f.owner
      BY <1>1, <1>5, <1>6, ChildrenFacts DEF Hidden, IsChild
    <2> QED  BY <1>3, <1>20, <2>1
  <1>22. removed' # removed => \A p \in DOMAIN body \ {<<>>} : f.owner \in Enclosing(p) => Past(p, stack)
    <2> SUFFICES ASSUME removed' # removed, NEW p \in DOMAIN body \ {<<>>}, f.owner \in Enclosing(p)
                 PROVE  Past(p, stack)
      OBVIOUS
    <2>1. body[f.owner].kind = "function"
      BY DEF ListStep
    <2>2. f.list = Len(Sizes(f.owner))
      <3>1. Len(Sizes(f.owner)) \in ListCounts("function")
        BY <1>1, <1>5, <2>1, BodyFacts
      <3>2. "function" \in Compounds \union FunctionKinds \union {"program"} /\ "function" # "if"
        BY DEF FunctionKinds
      <3>3. ListCounts("function") = {1}
        BY <3>2, ListCountFacts
      <3>4. Len(Sizes(f.owner)) = 1
        BY <3>1, <3>3
      <3> QED  BY <1>5, <3>4
    <2> QED  BY <1>1, <1>2, <1>4, <1>13, <1>14, <2>2, DonePast
  <1> QED  BY <1>9, <1>12, <1>18, <1>19, <1>20, <1>21, <1>22

\* and a call is over.
LEMMA PopResult ==
    ASSUME CallsInv, NEW f, NEW e, PopStep(f, e)
    PROVE  /\ StackInv(stack', unknown', removed') /\ ScopeInv(stack', scope')
           /\ \A p \in DOMAIN body \ {<<>>} : Live(p) /\ Seen(p, stack') => Seen(p, stack)
           /\ outcome' = "running" => stack' # <<>>
           /\ outcome' = "done" => stack' = <<>>
           /\ outcome' \in {"running", "done"}
  <1>1. /\ body \in Bodies /\ stack \in Seq(Frames) /\ Chain(stack) /\ ScopeInv(stack, scope)
        /\ StackInv(stack, unknown, removed) /\ removed \subseteq unknown
        /\ unknown \subseteq {p \in DOMAIN body \ {<<>>} : body[p].false}
    BY DEF CallsInv, StackInv
  <1>2. /\ stack # <<>> /\ f = Last(stack) /\ ~(f.idx <= Size(f)) /\ f.list = Len(Sizes(f.owner))
        /\ scope' = SubSeq(scope, 1, f.base) /\ unknown' = unknown /\ removed' = removed
        /\ outcome = "running"
    BY DEF PopStep, AtEnd
  <1>3. \/ Front(stack) = <<>> /\ stack' = <<>> /\ outcome' = "done"
        \/ /\ Front(stack) # <<>> /\ e \in BOOLEAN /\ outcome' = outcome
           /\ stack' = [Front(stack) EXCEPT ![Len(Front(stack))] = Advance(Last(Front(stack)), e)]
    BY DEF PopStep
  <1>4. PICK n, d, t, z : n = Len(stack) /\ d = Front(stack) /\ t = stack' /\ z = scope'
    OBVIOUS
  <1>5. /\ n \in Nat \ {0} /\ n \in 1..n /\ f = stack[n] /\ d \in Seq(Frames) /\ Len(d) = n - 1
        /\ \A i \in 1..(n - 1) : d[i] = stack[i]
    <2>1. stack \in Seq(Frames) /\ stack # <<>>
      BY <1>1, <1>2
    <2>2. /\ Len(stack) \in Nat \ {0} /\ Last(stack) = stack[Len(stack)]
          /\ Front(stack) \in Seq(Frames) /\ Len(Front(stack)) = Len(stack) - 1
          /\ \A i \in 1..(Len(stack) - 1) : Front(stack)[i] = stack[i]
      BY <2>1, FrontPlaces
    <2> QED  BY <1>2, <1>4, <2>2
  <1>6. /\ scope \in Seq(DOMAIN body) /\ f.base <= Len(scope) /\ f.base \in Nat
        /\ \A i \in 1..n : /\ stack[i].base <= f.base /\ stack[i].base \in Nat
                           /\ i # n => i + 1 \in 1..n /\ Part(stack[i], scope, stack[i].base, stack[i + 1].base)
    BY <1>1, <1>2, <1>4, <1>5, BoundFacts
  <1>7. z \in Seq(DOMAIN body) /\ Len(z) = f.base /\ \A m \in 1..f.base : z[m] = scope[m]
    BY <1>2, <1>4, <1>6, ScopeCut
  <1>8. CASE d = <<>> /\ t = <<>> /\ outcome' = "done"
    <2>1. Popping(stack, unknown, removed, f, d, t)
      BY <1>1, <1>2, <1>4, <1>8 DEF Popping
    <2>2. /\ StackInv(t, unknown, removed)
          /\ \A p \in DOMAIN body \ {<<>>} : Live(p) /\ Seen(p, t) => Seen(p, stack)
      BY <1>1, <2>1, PopShape
    <2>3. ScopeInv(t, z)
      <3>1. Len(t) = 0
        BY <1>8
      <3> QED  BY <1>7, <1>8, <3>1 DEF ScopeInv
    <2> QED  BY <1>2, <1>4, <1>8, <2>2, <2>3
  <1>9. CASE d # <<>> /\ e \in BOOLEAN /\ t = [d EXCEPT ![Len(d)] = Advance(Last(d), e)] /\ outcome' = outcome
    <2>1. PICK m, a, g : m = n - 1 /\ a = Last(d) /\ g = Advance(a, e)
      OBVIOUS
    <2>2. m \in Nat \ {0} /\ m \in 1..n /\ m # n /\ m + 1 = n /\ a = stack[m] /\ Len(d) = m
      <3>1. Len(d) \in Nat \ {0} /\ Last(d) = d[Len(d)]
        BY <1>5, <1>9, FrontPlaces
      <3>2. m \in Nat \ {0} /\ m \in 1..n /\ m # n /\ m + 1 = n /\ m \in 1..(n - 1) /\ m = Len(d)
        BY <1>5, <2>1, <3>1
      <3> QED  BY <1>5, <2>1, <3>1, <3>2
    <2>3. FrameOK(a) /\ a.idx <= Size(a) /\ Current(a) = f.owner
      BY <1>1, <1>4, <1>5, <2>2 DEF Chain
    <2>4. /\ Onward(a, g, a.idx, removed) /\ g.list = a.list /\ g.base = a.base /\ g.owner = a.owner
          /\ FrameOK(g)
      BY <1>1, <1>9, <2>1, <2>3, AdvanceFacts DEF Onward
    <2>5. t = [d EXCEPT ![Len(d)] = g]
      BY <1>9, <2>1
    <2>6. Popping(stack, unknown, removed, f, d, t)
      BY <1>1, <1>2, <1>4, <1>9, <2>1, <2>4, <2>5 DEF Popping
    <2>7. /\ StackInv(t, unknown, removed)
          /\ \A p \in DOMAIN body \ {<<>>} : Live(p) /\ Seen(p, t) => Seen(p, stack)
      BY <1>1, <2>6, PopShape
    <2>8. /\ t \in Seq(Frames) /\ Len(t) = m /\ t # <<>> /\ t[m] = g
          /\ \A i \in 1..m : i # m => t[i] = d[i]
      BY <1>5, <1>9, <2>2, <2>4, <2>5, TopReplaced DEF FrameOK
    <2>9. \A i \in 1..m : i # m => t[i] = stack[i]
      <3>1. \A i \in 1..m : i \in 1..(n - 1)
        BY <2>2
      <3> QED  BY <1>5, <2>8, <3>1
    \* f.owner is no use
    <2>10. Uses(g) = Uses(a)
      <3>1. /\ f.owner \in DOMAIN body \ {<<>>} /\ IsChild(f.owner, a.owner, a.list)
            /\ Last(f.owner) = a.idx
        BY <1>1, <2>3, CurrentFacts
      <3>2. body[f.owner].kind # "use"
        <4>1. Len(Sizes(f.owner)) \in ListCounts(body[f.owner].kind)
          BY <1>1, <3>1, BodyFacts
        <4>2. Len(Sizes(f.owner)) # 0
          <5>1. FrameOK(f)
            BY <1>2, TopFacts DEF Top
          <5> QED  BY <1>1, <1>2, <5>1, FrameNumbers
        <4>3. "use" \in Leaves
          BY DEF Leaves
        <4> QED  BY <4>1, <4>2, <4>3, ListCountFacts
      <3>3. a.idx \in 0..Sizes(g.owner)[g.list] /\ a.idx \in Nat /\ g.idx \in Nat
        BY <1>1, <2>3, <2>4, FrameNumbers
      <3>4. a.idx < g.idx
        BY <1>1, <2>4, <3>3, OnwardLater
      <3>5. ASSUME NEW u \in DOMAIN body \ {<<>>}, Owner(u) = a.owner, List(u) = a.list,
                   body[u].kind = "use", ~body[u].false
            PROVE  Last(u) < g.idx <=> Last(u) < a.idx
        <4>1. Last(u) \in Nat
          BY <1>1, ChildOf DEF IsChild
        <4>2. Last(u) < a.idx => Last(u) < g.idx
          BY <3>3, <3>4, <4>1
        <4>3. ASSUME Last(u) < g.idx PROVE Last(u) < a.idx
          <5>1. Last(u) <= a.idx \/ u \in removed
            BY <1>1, <2>4, <3>3, <3>5, <4>3, Skipped
          <5>2. u \notin removed
            BY <1>1, <3>5
          <5>3. Last(u) # a.idx
            <6>1. IsChild(u, a.owner, a.list)
              BY <1>1, <3>5, ChildOf
            <6>2. Last(u) = a.idx => u = f.owner
              BY <3>1, <6>1 DEF IsChild
            <6> QED  BY <3>2, <3>5, <6>2
          <5> QED  BY <3>3, <4>1, <5>1, <5>2, <5>3
        <4> QED  BY <4>2, <4>3
      <3>6. \A u : u \in Uses(g) <=> u \in Uses(a)
        BY <2>4, <3>5, Zenon DEF Uses
      <3> QED  BY <3>6, Zenon DEF Uses
    <2>11. Part(g, z, g.base, Len(z))
      <3>1. Part(a, scope, a.base, f.base)
        BY <1>5, <1>6, <2>2
      <3>2. Part(g, z, a.base, f.base)
        <4>1. PICK x, y : x = a.base /\ y = f.base
          OBVIOUS
        <4>2. Part(a, scope, x, y) /\ y <= Len(z) /\ \A j \in 1..y : z[j] = scope[j]
          BY <1>6, <1>7, <3>1, <4>1
        <4>3. Part(g, z, x, y)
          BY <2>10, <4>2, PartKept
        <4> QED  BY <4>1, <4>3
      <3> QED  BY <1>7, <2>4, <3>2
    <2>12. ScopeInv(t, z)
      <3>1. a.base <= Len(z) /\ \A j \in 1..a.base : z[j] = scope[j]
        <4>1. a.base <= f.base /\ a.base \in Nat
          BY <1>6, <2>2
        <4>2. \A j \in 1..a.base : j \in 1..f.base
          BY <1>6, <4>1
        <4> QED  BY <1>7, <4>1, <4>2
      <3>2. Rescoping(stack, scope, t, m, z)
        BY <1>1, <1>2, <1>4, <1>7, <2>2, <2>4, <2>8, <2>9, <2>11, <3>1 DEF Rescoping
      <3> QED  BY <1>1, <3>2, ScopeStep
    <2> QED  BY <1>2, <1>4, <1>9, <2>7, <2>8, <2>12
  <1> QED  BY <1>3, <1>4, <1>8, <1>9

\* The namespaces of a body that does not change.
LEMMA SameScope ==
    ASSUME body' = body
    PROVE  ScopeInv(stack, scope)' <=> ScopeInv(stack', scope')
  <1>1. ASSUME NEW f PROVE Uses(f)' = Uses(f)
    BY Zenon DEF Uses
  <1>2. ASSUME NEW f, NEW a, NEW b PROVE Part(f, scope, a, b)' <=> Part(f, scope', a, b)
    BY <1>1, Zenon DEF Part
  <1>3. ASSUME NEW i
        PROVE Part(stack[i], scope, stack[i].base, Bound(stack, scope, i + 1))'
              <=> Part(stack'[i], scope', stack'[i].base, Bound(stack', scope', i + 1))
    BY <1>1, Zenon DEF Part, Bound
  <1> QED  BY <1>3, Zenon DEF ScopeInv

AtCurrent(p) == AtTop(Top, p)

\* A step keeps the invariant of the calls; a directive is seen for the first time when it is reached,
\* and what clean_tree() removes is in the function compiled again, all of which had been seen.
LEMMA CallsStep ==
    ASSUME CallsInv, Works
    PROVE  /\ CallsInv' /\ body' = body /\ outcome = "running"
           /\ errors \subseteq errors' /\ unknown \subseteq unknown' /\ removed \subseteq removed'
           /\ StackInv(stack', unknown', removed') /\ ScopeInv(stack', scope')
           /\ \A p \in DOMAIN body \ {<<>>} :
                 Live(p) /\ Seen(p, stack') => Seen(p, stack) \/ AtCurrent(p)
           /\ removed' # removed =>
                /\ stack # <<>> /\ removed' = removed \union {p \in unknown : IsPrefix(Top.owner, p)}
                /\ \A p \in DOMAIN body \ {<<>>} :
                      Live(p) /\ Seen(p, stack') => Seen(p, stack) /\ Top.owner \notin Enclosing(p)
                /\ \A p \in DOMAIN body \ {<<>>} : Top.owner \in Enclosing(p) => Past(p, stack)
                /\ Live(Top.owner)
  <1>1. Classified /\ errors \subseteq errors'
    BY Shapes
  <1>2. body \in Bodies
    BY DEF CallsInv
  <1>3. ASSUME body' = body, StackInv(stack', unknown', removed'), ScopeInv(stack', scope'),
               outcome' \in {"running", "done", "incompatible_type"},
               outcome' = "running" => stack' # <<>>,
               outcome' = "done" => stack' = <<>>,
               \A r \in unknown' : r \in unknown \/ Live(Owner(r))
        PROVE  CallsInv'
    <2>1. ASSUME NEW r \in unknown' PROVE Live(Owner(r))
      BY <1>3, <2>1 DEF CallsInv
    <2>2. (\A r \in unknown : Live(Owner(r)))'
      BY <1>3, <2>1, SameBody, Zenon
    <2> QED  BY <1>2, <1>3, <2>2, SameBody, SameScope, Zenon DEF CallsInv
  <1>4. ASSUME NEW f, NEW c, NEW e, NEW g, PassStep(f, c, e, g)
        PROVE  /\ Result(c) /\ AtCurrent(c) /\ body' = body /\ unknown' = unknown /\ removed' = removed
               /\ outcome = "running" /\ outcome' = outcome /\ stack' # <<>>
    <2>1. /\ Result(c) /\ AtTop(f, c) /\ stack # <<>> /\ stack' = [stack EXCEPT ![Len(stack)] = g]
          /\ g = Advance(f, e) /\ e \in BOOLEAN
      BY <1>4, PassResult DEF PassStep, AtTop
    <2>2. AtCurrent(c)
      BY <2>1 DEF AtTop, AtCurrent, Top
    <2>3. stack' # <<>>
      <3>1. FrameOK(f) /\ f.idx <= Size(f) /\ stack \in Seq(Frames)
        BY <2>1, TopFacts DEF AtTop, Top, CallsInv, StackInv
      <3>2. FrameOK(g)
        BY <1>2, <2>1, <3>1, AdvanceFacts DEF Onward
      <3> QED  BY <2>1, <3>1, <3>2, TopReplaced DEF FrameOK
    <2> QED  BY <1>4, <2>1, <2>2, <2>3 DEF PassStep, AtTop
  <1>5. ASSUME NEW f, NEW c, NEW g, EnterStep(f, c, g)
        PROVE  /\ Result(c) /\ AtCurrent(c) /\ body' = body /\ unknown \subseteq unknown'
               /\ removed' = removed /\ outcome = "running" /\ outcome' = outcome /\ stack' # <<>>
               /\ \A r \in unknown' : r \in unknown \/ Live(Owner(r))
    <2>1. Result(c) /\ AtTop(f, c) /\ stack' = Append(stack, g) /\ stack \in Seq(Frames)
      BY <1>5, EnterResult DEF EnterStep, CallsInv, StackInv
    <2>2. AtCurrent(c)
      BY <2>1 DEF AtTop, AtCurrent, Top
    <2>3. stack' # <<>>
      BY <2>1
    <2> QED  BY <1>5, <2>1, <2>2, <2>3, EnterResult DEF EnterStep, AtTop
  <1>6. ASSUME NEW f, NEW g, ListStep(f, g)
        PROVE  /\ StackInv(stack', unknown', removed') /\ ScopeInv(stack', scope')
               /\ \A p \in DOMAIN body \ {<<>>} : Live(p) /\ Seen(p, stack') => Seen(p, stack)
               /\ removed' # removed =>
                    /\ stack # <<>> /\ removed' = removed \union {p \in unknown : IsPrefix(Top.owner, p)}
                    /\ \A p \in DOMAIN body \ {<<>>} : Live(p) /\ Seen(p, stack') => Top.owner \notin Enclosing(p)
                    /\ \A p \in DOMAIN body \ {<<>>} : Top.owner \in Enclosing(p) => Past(p, stack)
                    /\ Live(Top.owner)
               /\ \A r \in unknown' : r \in unknown \/ Live(Owner(r))
               /\ body' = body /\ unknown \subseteq unknown' /\ removed \subseteq removed'
               /\ outcome = "running" /\ outcome' = outcome /\ stack' # <<>>
    <2>1. /\ AtEnd(f) /\ stack' = Append(Front(stack), g) /\ body' = body /\ outcome' = outcome
          /\ unknown \subseteq unknown' /\ removed \subseteq removed'
      BY <1>6 DEF ListStep
    <2>2. f = Top /\ stack # <<>> /\ outcome = "running"
      BY <2>1 DEF AtEnd, Top
    <2>3. Front(stack) \in Seq(Frames)
      BY <2>2, FrontPlaces DEF CallsInv, StackInv
    <2>4. stack' # <<>>
      BY <2>1, <2>3
    <2> QED  BY <1>6, <2>1, <2>2, <2>4, ListResult
  <1>7. ASSUME NEW f, NEW e, PopStep(f, e)
        PROVE  /\ StackInv(stack', unknown', removed') /\ ScopeInv(stack', scope')
               /\ \A p \in DOMAIN body \ {<<>>} : Live(p) /\ Seen(p, stack') => Seen(p, stack)
               /\ body' = body /\ unknown' = unknown /\ removed' = removed
               /\ outcome = "running" /\ outcome' \in {"running", "done"}
               /\ outcome' = "running" => stack' # <<>>
               /\ outcome' = "done" => stack' = <<>>
    BY <1>7, PopResult DEF PopStep, AtEnd
  <1>8. CASE \E f, c, e, g : PassStep(f, c, e, g)
    <2>1. PICK f, c, e, g : PassStep(f, c, e, g)
      BY <1>8
    <2>2. CallsInv'
      BY <1>3, <1>4, <2>1 DEF Result
    <2> QED  BY <1>1, <1>4, <2>1, <2>2 DEF Result
  <1>9. CASE \E f, c, g : EnterStep(f, c, g)
    <2>1. PICK f, c, g : EnterStep(f, c, g)
      BY <1>9
    <2>2. CallsInv'
      BY <1>3, <1>5, <2>1 DEF Result
    <2> QED  BY <1>1, <1>5, <2>1, <2>2 DEF Result
  <1>10. CASE \E f, g : ListStep(f, g)
    <2>1. PICK f, g : ListStep(f, g)
      BY <1>10
    <2>2. CallsInv'
      BY <1>3, <1>6, <2>1
    <2> QED  BY <1>1, <1>6, <2>1, <2>2
  <1>11. CASE \E f, e : PopStep(f, e)
    <2>1. PICK f, e : PopStep(f, e)
      BY <1>11
    <2>2. CallsInv'
      BY <1>3, <1>7, <2>1
    <2> QED  BY <1>1, <1>7, <2>1, <2>2
  <1> QED  BY <1>1, <1>8, <1>9, <1>10, <1>11 DEF Classified

\* At first nothing was seen.
LEMMA CallsInit ==
    ASSUME Init
    PROVE  CallsInv /\ \A p \in DOMAIN body \ {<<>>} : ~Seen(p, stack)
  <1>1. body \in Bodies /\ unknown = Hidden(<<>>, 1) /\ removed = {} /\ scope = <<>>
        /\ stack = <<Frame(<<>>, 1, 0, FALSE, {})>> /\ outcome \in {"running", "incompatible_type"}
    BY Zenon DEF Init
  <1>2. <<>> \in DOMAIN body /\ 1 \in 1..Len(Sizes(<<>>))
    <2>1. /\ <<>> \in DOMAIN body /\ Len(Sizes(<<>>)) \in ListCounts(body[<<>>].kind)
          /\ body[<<>>].kind \in FunctionKinds \union {"program"}
      BY <1>1, BodyFacts
    <2>2. Len(Sizes(<<>>)) \in {1, 2}
      BY <2>1, ListCountFacts
    <2> QED  BY <2>1, <2>2
  <1>3. PICK g : g = Frame(<<>>, 1, 0, FALSE, {})
    OBVIOUS
  <1>4. /\ FrameOK(g) /\ g.owner = <<>> /\ g.list = 1 /\ g.base = 0
        /\ g.idx = NextOf(<<>>, 1, 0, {})
    <2>1. PICK o, k, b, a, w : o = <<>> /\ k = 1 /\ b = 0 /\ a = FALSE /\ w = {}
      OBVIOUS
    <2>2. o \in DOMAIN body /\ k \in 1..Len(Sizes(o)) /\ b \in Nat /\ a \in BOOLEAN
          /\ g = Frame(o, k, b, a, w)
      BY <1>2, <1>3, <2>1
    <2>3. FrameOK(g) /\ g.owner = o /\ g.list = k /\ g.base = b /\ g.idx = NextOf(o, k, 0, w)
      BY <1>1, <2>2, FrameFacts
    <2> QED  BY <2>1, <2>3
  <1>5. /\ stack \in Seq(Frames) /\ Len(stack) = 1 /\ stack[1] = g /\ stack # <<>>
        /\ \A i \in 1..1 : i = 1
    <2>1. g \in Frames /\ stack = <<g>>
      BY <1>1, <1>3, <1>4 DEF FrameOK
    <2> QED  BY <2>1
  <1>6. \A q \in DOMAIN body \ {<<>>} : ~Behind(q, g)
    <2> SUFFICES ASSUME NEW q \in DOMAIN body \ {<<>>}, Behind(q, g) PROVE FALSE
      OBVIOUS
    <2>1. IsChild(q, g.owner, List(q))
      BY <1>1, ChildOf DEF Behind
    <2>0. List(q) \in Nat \ {0} /\ Last(q) \in Nat \ {0}
      BY <1>1, <2>1, ChildNumbers
    <2>2. List(q) = g.list /\ Last(q) < g.idx /\ Owner(q) = g.owner
      BY <1>4, <2>0 DEF Behind
    <2>3. 0 \in 0..Sizes(g.owner)[g.list]
      BY <1>1, <1>4, FrameNumbers
    <2>4. Onward(g, g, 0, {})
      BY <1>4 DEF Onward
    <2>6. Last(q) <= 0 \/ q \in {}
      BY <1>1, <2>2, <2>3, <2>4, Skipped
    <2> QED  BY <2>0, <2>6
  <1>7. \A p \in DOMAIN body : ~Past(p, stack)
    <2> SUFFICES ASSUME NEW p \in DOMAIN body, NEW q \in Around(p), Behind(q, g) PROVE FALSE
      BY <1>5 DEF Past
    <2>1. q \in DOMAIN body \ {<<>>}
      BY <1>1, AroundFacts DEF Behind
    <2> QED  BY <1>6, <2>1
  <1>8. Settled(stack, unknown)
    <2> SUFFICES ASSUME NEW p \in DOMAIN body \ {<<>>}, body[p].false, Opened(p, stack)
                 PROVE  p \in unknown
      BY DEF Settled
    <2>1. Owner(p) \in DOMAIN body
      BY <1>1, AroundFacts
    <2>2. Owner(p) = <<>> /\ List(p) <= 1
      BY <1>4, <1>5, <1>7, <2>1 DEF Opened
    <2>3. IsChild(p, <<>>, List(p))
      BY <1>1, <2>2, ChildOf
    <2>4. List(p) \in Nat \ {0} /\ p \in Children(<<>>, List(p))
      BY <1>1, <2>3, ChildNumbers
    <2>5. List(p) = 1
      BY <2>2, <2>4
    <2> QED  BY <1>1, <2>4, <2>5 DEF Hidden
  <1>9. Chain(stack)
    BY <1>4, <1>5 DEF Chain
  <1>10. unknown \subseteq {p \in DOMAIN body \ {<<>>} : body[p].false} /\ removed \subseteq unknown
    <2>1. \A q \in Children(<<>>, 1) : q \in DOMAIN body \ {<<>>}
      BY <1>1, <1>2, ChildrenFacts
    <2> QED  BY <1>1, <2>1 DEF Hidden
  <1>11. \A i \in 1..Len(stack) : Live(stack[i].owner)
    BY <1>1, <1>4, <1>5, LiveFacts
  <1>12. StackInv(stack, unknown, removed)
    BY <1>5, <1>8, <1>9, <1>10, <1>11 DEF StackInv
  <1>13. ScopeInv(stack, scope)
    <2>1. Uses(g) = {}
      <3>1. \A u \in Uses(g) : u \in DOMAIN body \ {<<>>} /\ Behind(u, g)
        BY DEF Uses, Behind
      <3> QED  BY <1>6, <3>1
    <2>2. scope \in Seq(DOMAIN body) /\ Len(scope) = 0
      BY <1>1
    <2>3. Part(g, scope, 0, 0)
      BY <2>1, <2>2, PartEmpty
    <2>4. Bound(stack, scope, 2) = 0
      BY <1>5, <2>2 DEF Bound
    <2> QED  BY <1>4, <1>5, <2>2, <2>3, <2>4 DEF ScopeInv
  <1>14. outcome \in {"running", "done", "incompatible_type"} /\ (outcome = "done" => stack = <<>>)
    BY <1>1
  <1>15. \A r \in unknown : Live(Owner(r))
    <2>1. \A q \in Children(<<>>, 1) : Owner(q) = <<>>
      BY <1>1, <1>2, ChildrenFacts DEF IsChild
    <2> QED  BY <1>1, <2>1, LiveFacts DEF Hidden
  <1>16. \A p \in DOMAIN body \ {<<>>} : ~Seen(p, stack)
    BY <1>4, <1>5, <1>7 DEF Seen
  <1> QED  BY <1>1, <1>5, <1>12, <1>13, <1>14, <1>15, <1>16 DEF CallsInv

\* The calls of directive_list(), for every program: each is for the directive at which the one
\* below is, none is in a directive marked false, those of the lists entered are unknown, only
\* unknown directives were removed and every call has its part of the namespaces in use.
THEOREM CallsInvariant == Spec => []CallsInv
  <1>1. Init => CallsInv
    BY CallsInit
  <1>2. CallsInv /\ [Next]_vars => CallsInv'
    <2>1. CallsInv /\ Works => CallsInv'
      BY CallsStep
    <2>2. CallsInv /\ UNCHANGED Held /\ (outcome' = outcome \/ outcome' = "internal_error") => CallsInv'
      <3> SUFFICES ASSUME CallsInv, UNCHANGED Held, outcome' = outcome \/ outcome' = "internal_error"
                   PROVE CallsInv'
        OBVIOUS
      <3>1. body' = body /\ stack' = stack /\ unknown' = unknown /\ removed' = removed /\ scope' = scope
        BY DEF Held
      <3>2. StackInv(stack', unknown', removed') /\ ScopeInv(stack', scope')
        BY <3>1 DEF CallsInv
      <3>3. (\A r \in unknown : Live(Owner(r)))'
        BY <3>1, SameBody, Zenon DEF CallsInv
      <3>4. /\ outcome' \in {"running", "done", "incompatible_type", "internal_error"}
            /\ outcome' = "running" => stack' # <<>>
            /\ outcome' = "done" => stack' = <<>>
        BY <3>1 DEF CallsInv
      <3> QED  BY <3>1, <3>2, <3>3, <3>4, SameBody, SameScope, Zenon DEF CallsInv
    <2> QED  BY <2>1, <2>2, StepCases
  <1> QED  BY <1>1, <1>2, PTL DEF Spec

\* The beginning of two paths that agree.
LEMMA SubSeqEqual ==
    ASSUME NEW s \in Paths, NEW t \in Paths, NEW n \in Nat, n <= Len(s), n <= Len(t),
           \A i \in 1..n : s[i] = t[i]
    PROVE  /\ SubSeq(s, 1, n) = SubSeq(t, 1, n) /\ SubSeq(s, 1, n) \in Paths
           /\ Len(SubSeq(s, 1, n)) = n /\ \A i \in 1..n : SubSeq(s, 1, n)[i] = s[i]
  <1>1. \A u \in Paths : n <= Len(u) => \A i \in 1..n : u[i] \in Nat
    BY DEF Paths
  <1>2. ASSUME NEW u \in Paths, n <= Len(u)
        PROVE  /\ SubSeq(u, 1, n) \in Paths /\ Len(SubSeq(u, 1, n)) = n
               /\ \A i \in 1..n : SubSeq(u, 1, n)[i] = u[i]
    <2>1. /\ SubSeq(u, 1, n) \in Seq(Nat)
          /\ Len(SubSeq(u, 1, n)) = IF 1 <= n THEN n - 1 + 1 ELSE 0
          /\ \A i \in 1..(n - 1 + 1) : SubSeq(u, 1, n)[i] = u[1 + i - 1]
      BY <1>1, <1>2, SubSeqProperties
    <2> QED  BY <2>1 DEF Paths
  <1>3. SubSeq(s, 1, n) = SubSeq(t, 1, n)
    <2>1. PICK x, y : x = SubSeq(s, 1, n) /\ y = SubSeq(t, 1, n)
      OBVIOUS
    <2>2. x \in Paths /\ y \in Paths /\ Len(x) = n /\ Len(y) = n /\ \A i \in 1..n : x[i] = y[i]
      BY <1>2, <2>1
    <2>3. x = y
      BY <2>2, SeqEqual DEF Paths
    <2> QED  BY <2>1, <2>3
  <1> QED  BY <1>2, <1>3

\* Two directives of a list differ in their last place.
LEMMA SiblingPlaces ==
    ASSUME body \in Bodies, NEW o, NEW k, NEW u, IsChild(u, o, k), NEW x, IsChild(x, o, k)
    PROVE  /\ u \in Paths /\ x \in Paths
           /\ Len(u) \in Nat /\ Len(u) >= 2 /\ Len(x) = Len(u)
           /\ \A m \in 1..(Len(u) - 1) : u[m] = x[m]
           /\ u[Len(u)] = Last(u) /\ x[Len(u)] = Last(x)
           /\ Front(u) = Front(x) /\ Front(u) \in Paths /\ Len(Front(u)) = Len(u) - 1
           /\ \A m \in 1..(Len(u) - 1) : Front(u)[m] = u[m]
           /\ u[Len(u) - 1] = k
  <1>1. o \in Paths /\ k \in Nat /\ Last(u) \in Nat /\ Last(x) \in Nat /\ u \in Paths /\ x \in Paths
    BY BodyFacts DEF IsChild
  <1>2. PICK n \in Nat : n = Len(o)
    BY <1>1, PrefixPlaces
  <1>3. Len(u) = n + 2 /\ Len(x) = n + 2
    BY <1>2 DEF IsChild
  <1>4. ASSUME NEW i \in Nat, NEW c, c = o \o <<k, i>>
        PROVE  \A m \in 1..(n + 1) : c[m] = IF m <= n THEN o[m] ELSE k
    <2>1. /\ <<k, i>> \in Seq(Nat) /\ Len(<<k, i>>) = 2 /\ <<k, i>>[1] = k
      BY <1>1
    <2>2. \A m \in 1..(n + 2) : c[m] = IF m <= n THEN o[m] ELSE <<k, i>>[m - n]
      BY <1>1, <1>2, <1>4, <2>1, ConcatProperties DEF Paths
    <2>3. \A m \in 1..(n + 1) : m \in 1..(n + 2) /\ (m <= n \/ m - n = 1)
      BY <1>2
    <2> QED  BY <2>1, <2>2, <2>3
  <1>5. \A m \in 1..(n + 1) : u[m] = x[m] /\ u[n + 1] = k
    <2>1. u = o \o <<k, Last(u)>> /\ x = o \o <<k, Last(x)>>
      BY DEF IsChild
    <2>2. \A m \in 1..(n + 1) : u[m] = IF m <= n THEN o[m] ELSE k
      BY <1>1, <1>4, <2>1
    <2>3. \A m \in 1..(n + 1) : x[m] = IF m <= n THEN o[m] ELSE k
      BY <1>1, <1>4, <2>1
    <2>4. n + 1 \in 1..(n + 1) /\ ~(n + 1 <= n)
      BY <1>2
    <2> QED  BY <2>2, <2>3, <2>4
  <1>6. n + 1 \in Nat /\ Len(u) - 1 = n + 1 /\ n + 1 <= Len(u) /\ n + 1 <= Len(x)
    BY <1>2, <1>3
  <1>7. /\ Front(u) = SubSeq(u, 1, n + 1) /\ Front(x) = SubSeq(x, 1, n + 1)
    BY <1>3, <1>6 DEF Front
  <1>8. /\ SubSeq(u, 1, n + 1) = SubSeq(x, 1, n + 1) /\ SubSeq(u, 1, n + 1) \in Paths
        /\ Len(SubSeq(u, 1, n + 1)) = n + 1
        /\ \A m \in 1..(n + 1) : SubSeq(u, 1, n + 1)[m] = u[m]
    BY <1>1, <1>5, <1>6, SubSeqEqual
  <1>9. u[n + 1] = k
    <2>1. n + 1 \in 1..(n + 1)
      BY <1>2
    <2> QED  BY <1>5, <2>1
  <1>10. u[Len(u)] = Last(u) /\ x[Len(u)] = Last(x)
    BY <1>3 DEF Last
  <1>11. Len(u) \in Nat /\ Len(u) >= 2
    BY <1>2, <1>3
  <1> QED  BY <1>1, <1>3, <1>5, <1>6, <1>7, <1>8, <1>9, <1>10, <1>11

\* A directive is written before those in its later siblings.
LEMMA SiblingPrecedes ==
    ASSUME body \in Bodies, NEW o, NEW k, NEW u, IsChild(u, o, k), NEW x, IsChild(x, o, k),
           Last(u) < Last(x), NEW v \in DOMAIN body, x \in Around(v)
    PROVE  Precedes(u, v)
  <1>1. PICK n : n = Len(u)
    OBVIOUS
  <1>2. /\ u \in Paths /\ x \in Paths /\ n \in Nat /\ n >= 2 /\ Len(x) = n
        /\ \A m \in 1..(n - 1) : u[m] = x[m]
        /\ u[n] = Last(u) /\ x[n] = Last(x)
    BY <1>1, SiblingPlaces
  <1>3. v \in Paths /\ Len(v) \in Nat
    BY BodyFacts, PrefixPlaces
  <1>4. n <= Len(v) /\ \A m \in 1..n : x[m] = v[m]
    <2>1. CASE x = v
      BY <1>2, <2>1
    <2>2. CASE x # v
      <3>1. IsPrefix(x, v)
        BY <2>2 DEF Around, Enclosing, IsStrictPrefix
      <3> QED  BY <1>2, <1>3, <3>1, PrefixPlaces
    <2> QED  BY <2>1, <2>2
  <1>5. u[n] < v[n]
    <2>1. n \in 1..n
      BY <1>2
    <2> QED  BY <1>2, <1>4, <2>1
  <1>6. SubSeq(u, 1, n - 1) = SubSeq(v, 1, n - 1)
    <2>1. n - 1 \in Nat /\ n - 1 <= Len(u) /\ n - 1 <= Len(v)
      BY <1>1, <1>2, <1>3, <1>4
    <2>2. \A m \in 1..(n - 1) : u[m] = v[m]
      <3>1. \A m \in 1..(n - 1) : m \in 1..n
        BY <1>2
      <3> QED  BY <1>2, <1>4, <3>1
    <2> QED  BY <1>2, <1>3, <2>1, <2>2, SubSeqEqual
  <1>7. n \in 1..Len(u)
    BY <1>1, <1>2
  <1> QED  BY <1>4, <1>5, <1>6, <1>7 DEF Precedes

\* The directives around that at which the innermost call is are those of the calls.
LEMMA ChainCovers ==
    ASSUME body \in Bodies, NEW s \in Seq(Frames), Chain(s), s # <<>>
    PROVE  \A j \in 1..Len(s) : \A o \in Around(s[j].owner) : \E i \in 1..j : s[i].owner = o
  <1>1. PICK n \in Nat : n = Len(s)
    BY LenProperties
  <1>2. n # 0
    BY <1>1, EmptySeq
  <1>3. PICK S : S = {m \in Nat : m + 1 \in 1..n =>
                         \A o \in Around(s[m + 1].owner) : \E i \in 1..(m + 1) : s[i].owner = o}
    OBVIOUS
  <1>4. 0 \in S
    <2>1. s[1].owner = <<>> /\ 1 \in 1..1
      BY DEF Chain
    <2>2. \A o \in Around(s[1].owner) : \E i \in 1..1 : s[i].owner = o
      BY <2>1, AroundFacts
    <2> QED  BY <1>3, <2>2
  <1>5. ASSUME NEW m \in Nat, m \in S PROVE m + 1 \in S
    <2> SUFFICES ASSUME m + 1 + 1 \in 1..n, NEW o \in Around(s[m + 1 + 1].owner)
                 PROVE  \E i \in 1..(m + 1 + 1) : s[i].owner = o
      BY <1>3
    <2>1. PICK j : j = m + 1
      OBVIOUS
    <2>2. /\ j \in 1..n /\ j + 1 \in 1..n /\ j + 1 \in 1..(j + 1)
          /\ \A i \in 1..j : i \in 1..(j + 1)
      BY <1>1, <2>1
    <2>3. s[j].idx <= Size(s[j]) /\ Current(s[j]) = s[j + 1].owner /\ FrameOK(s[j])
      BY <1>1, <2>2 DEF Chain
    <2>4. /\ s[j + 1].owner \in DOMAIN body \ {<<>>}
          /\ Owner(s[j + 1].owner) = s[j].owner
      BY <2>3, CurrentFacts DEF IsChild
    <2>5. o = s[j + 1].owner \/ o \in Around(s[j].owner)
      BY <2>1, <2>4, AroundFacts
    <2>6. o \in Around(s[j].owner) => \E i \in 1..j : s[i].owner = o
      BY <1>3, <1>5, <2>1, <2>2
    <2> QED  BY <2>1, <2>2, <2>5, <2>6
  <1>6. Nat \subseteq S
    BY <1>4, <1>5, SetInduction
  <1> TAKE j \in 1..Len(s)
  <1>7. j - 1 \in Nat /\ (j - 1) + 1 = j /\ j \in 1..n
    BY <1>1
  <1>8. j - 1 \in S
    BY <1>6, <1>7
  <1> QED  BY <1>3, <1>7, <1>8

\* Each place of the namespaces in use is one of a call.
LEMMA PlaceCall ==
    ASSUME body \in Bodies, NEW s \in Seq(Frames), NEW z, ScopeInv(s, z), s # <<>>,
           NEW m \in 1..Len(z)
    PROVE  \E i \in 1..Len(s) : /\ s[i].base < m /\ z[m] \in Uses(s[i])
                                /\ m \in (s[i].base + 1)..Bound(s, z, i + 1)
                                /\ i < Len(s) => m <= s[i + 1].base
  <1>1. PICK n : n = Len(s)
    OBVIOUS
  <1>2. /\ n \in Nat \ {0} /\ Len(z) \in Nat
        /\ \A i \in 1..n : s[i].base \in Nat
    BY <1>1, BoundFacts
  <1>3. PICK S : S = {i \in 1..n : s[i].base < m}
    OBVIOUS
  <1>4. S \subseteq 1..n /\ S # {}
    <2>1. s[1].base = 0 /\ 1 \in 1..n /\ 0 < m
      BY <1>2 DEF ScopeInv
    <2> QED  BY <1>3, <2>1
  <1>5. PICK i : i \in S /\ \A y \in S : y <= i
    <2>1. Max(S) \in S /\ \A y \in S : Max(S) >= y
      BY <1>2, <1>4, Extremes
    <2>2. \A y \in S : y <= Max(S)
      BY <1>2, <1>4, <2>1
    <2> QED  BY <2>1, <2>2
  <1>6. i \in 1..n /\ s[i].base < m
    BY <1>3, <1>5
  <1>7. i < n => m <= s[i + 1].base
    <2> HAVE i < n
    <2>1. i + 1 \in 1..n /\ ~(i + 1 <= i)
      BY <1>2, <1>6
    <2>2. ~(s[i + 1].base < m)
      BY <1>3, <1>5, <2>1
    <2> QED  BY <1>2, <2>1, <2>2
  <1>8. m <= Bound(s, z, i + 1)
    <2>1. CASE i < n
      <3>1. i + 1 <= Len(s)
        BY <1>1, <1>2, <1>6, <2>1
      <3> QED  BY <1>7, <2>1, <3>1 DEF Bound
    <2>2. CASE ~(i < n)
      <3>1. ~(i + 1 <= Len(s))
        BY <1>1, <1>2, <1>6, <2>2
      <3> QED  BY <1>2, <3>1 DEF Bound
    <2> QED  BY <2>1, <2>2
  <1>9. Part(s[i], z, s[i].base, Bound(s, z, i + 1))
    BY <1>1, <1>6 DEF ScopeInv
  <1>10. m \in (s[i].base + 1)..Bound(s, z, i + 1)
    <2>1. s[i].base \in Nat /\ Bound(s, z, i + 1) \in Nat
      BY <1>9 DEF Part
    <2> QED  BY <1>2, <1>6, <1>8, <2>1
  <1>11. z[m] \in Uses(s[i])
    BY <1>9, <1>10 DEF Part
  <1> QED  BY <1>1, <1>6, <1>7, <1>10, <1>11

\* The call whose list has a namespace, and the directive of that list around the current one.
LEMMA InCall ==
    ASSUME CallsInv, stack # <<>>, Top.idx <= Size(Top), NEW i \in 1..Len(stack),
           NEW u \in Uses(stack[i]), NEW x, x = Current(stack[i])
    PROVE  /\ u \in DOMAIN body \ {<<>>} /\ x \in Around(Current(Top)) /\ Last(u) < Last(x)
           /\ IsChild(u, stack[i].owner, stack[i].list) /\ IsChild(x, stack[i].owner, stack[i].list)
           /\ Kind(u) = "use"
           /\ \A j \in 1..Len(stack) : i < j => x \in Around(stack[j].owner)
  <1>1. body \in Bodies /\ stack \in Seq(Frames) /\ Chain(stack)
    BY DEF CallsInv, StackInv
  <1>2. PICK n : n = Len(stack)
    OBVIOUS
  <1>3. n \in Nat \ {0} /\ Top = stack[n]
    <2>1. Len(stack) \in Nat \ {0} /\ Last(stack) = stack[Len(stack)]
      BY <1>1, FrontPlaces
    <2> QED  BY <1>2, <2>1 DEF Top
  <1>4. /\ u \in DOMAIN body \ {<<>>} /\ Owner(u) = stack[i].owner /\ List(u) = stack[i].list
        /\ Last(u) < stack[i].idx /\ body[u].kind = "use" /\ ~body[u].false
    BY Zenon DEF Uses
  <1>5. Kind(u) = "use"
    BY <1>4, CurrentSettled DEF Kind
  <1>6. stack[i].idx <= Size(stack[i]) /\ FrameOK(stack[i])
    <2>1. CASE i = n
      BY <1>1, <1>2, <1>3, <2>1 DEF Chain
    <2>2. CASE i # n
      <3>1. i < n /\ n \in 1..n
        BY <1>2, <1>3, <2>2
      <3> QED  BY <1>1, <1>2, <3>1, ChainAncestors DEF Chain
    <2> QED  BY <2>1, <2>2
  <1>7. /\ x \in DOMAIN body \ {<<>>} /\ IsChild(x, stack[i].owner, stack[i].list)
        /\ Last(x) = stack[i].idx
    BY <1>1, <1>6, CurrentFacts
  <1>8. \A j \in 1..n : i < j => x \in Around(stack[j].owner)
    BY <1>1, <1>2, ChainAncestors
  <1>9. x \in Around(Current(Top))
    <2>1. Current(Top) \in DOMAIN body \ {<<>>} /\ Owner(Current(Top)) = Top.owner
      BY <1>1, TopFacts, CurrentFacts DEF IsChild
    <2>2. CASE i = n
      BY <1>1, <1>3, <2>1, <2>2, AroundFacts
    <2>3. CASE i # n
      <3>1. i < n /\ n \in 1..n
        BY <1>2, <1>3, <2>3
      <3>2. x \in Around(Top.owner)
        BY <1>3, <1>8, <3>1
      <3> QED  BY <1>1, <2>1, <3>2, AroundFacts
    <2> QED  BY <2>2, <2>3
  <1>10. IsChild(u, stack[i].owner, stack[i].list)
    BY <1>1, <1>4, ChildOf
  <1> QED  BY <1>2, <1>4, <1>5, <1>7, <1>8, <1>9, <1>10

\* The namespaces in use are those given earlier in the lists around.
LEMMA ScopeIsSeen ==
    ASSUME CallsInv, stack # <<>>, Top.idx <= Size(Top), NEW here, here = Current(Top), NEW u
    PROVE  u \in ToSet(scope) <=>
              /\ u \in DOMAIN body
              /\ u # <<>> /\ Kind(u) = "use" /\ Len(u) <= Len(here)
              /\ IsPrefix(Front(u), here) /\ Last(u) < here[Len(u)]
  <1>1. body \in Bodies /\ stack \in Seq(Frames) /\ Chain(stack) /\ ScopeInv(stack, scope)
    BY DEF CallsInv, StackInv
  <1>2. PICK n : n = Len(stack)
    OBVIOUS
  <1>3. n \in Nat \ {0} /\ n \in 1..n /\ Top = stack[n]
    <2>1. Len(stack) \in Nat \ {0} /\ Last(stack) = stack[Len(stack)]
      BY <1>1, FrontPlaces
    <2> QED  BY <1>2, <2>1 DEF Top
  <1>4. scope \in Seq(DOMAIN body) /\ Len(scope) \in Nat /\ DOMAIN scope = 1..Len(scope)
    BY <1>1, LenProperties DEF ScopeInv
  <1>5. u \in ToSet(scope) <=> \E m \in 1..Len(scope) : scope[m] = u
    BY <1>4 DEF ToSet
  <1>6. /\ here \in DOMAIN body \ {<<>>} /\ here \in Paths /\ Owner(here) = Top.owner
        /\ Len(here) \in Nat
    BY <1>1, TopFacts, CurrentFacts, PrefixPlaces DEF IsChild
  <1>7. ASSUME NEW m \in 1..Len(scope), scope[m] = u
        PROVE  /\ u \in DOMAIN body
               /\ u # <<>> /\ Kind(u) = "use" /\ Len(u) <= Len(here)
               /\ IsPrefix(Front(u), here) /\ Last(u) < here[Len(u)]
    <2>1. PICK i \in 1..n : u \in Uses(stack[i])
      BY <1>1, <1>2, <1>7, PlaceCall
    <2>2. PICK x, o, k : x = Current(stack[i]) /\ o = stack[i].owner /\ k = stack[i].list
      OBVIOUS
    <2>3. /\ u \in DOMAIN body \ {<<>>} /\ x \in Around(here) /\ Last(u) < Last(x)
          /\ IsChild(u, o, k) /\ IsChild(x, o, k) /\ Kind(u) = "use"
      BY <1>2, <2>1, <2>2, InCall
    <2>4. PICK l : l = Len(u)
      OBVIOUS
    <2>5. /\ u \in Paths /\ x \in Paths /\ l \in Nat /\ l >= 2 /\ Len(x) = l
          /\ \A m1 \in 1..(l - 1) : u[m1] = x[m1]
          /\ x[l] = Last(x) /\ Front(u) \in Paths /\ Len(Front(u)) = l - 1
          /\ \A m1 \in 1..(l - 1) : Front(u)[m1] = u[m1]
      BY <1>1, <2>3, <2>4, SiblingPlaces
    <2>6. l <= Len(here) /\ \A m1 \in 1..l : x[m1] = here[m1]
      <3>1. CASE x = here
        BY <2>5, <3>1
      <3>2. CASE x # here
        <4>1. IsPrefix(x, here)
          BY <2>3, <3>2 DEF Around, Enclosing, IsStrictPrefix
        <4> QED  BY <1>6, <2>5, <4>1, PrefixPlaces
      <3> QED  BY <3>1, <3>2
    <2>7. Last(u) < here[l]
      <3>1. l \in 1..l
        BY <2>5
      <3> QED  BY <2>3, <2>5, <2>6, <3>1
    <2>8. IsPrefix(Front(u), here)
      <3>1. \A m1 \in 1..(l - 1) : m1 \in 1..l
        BY <2>5
      <3>2. \A m1 \in 1..(l - 1) : Front(u)[m1] = here[m1]
        BY <2>5, <2>6, <3>1
      <3>3. l - 1 <= Len(here)
        BY <1>6, <2>5, <2>6
      <3> QED  BY <1>6, <2>5, <3>2, <3>3, PrefixPlaces
    <2> QED  BY <2>3, <2>4, <2>6, <2>7, <2>8
  <1>8. ASSUME u \in DOMAIN body, u # <<>>, Kind(u) = "use", Len(u) <= Len(here),
               IsPrefix(Front(u), here), Last(u) < here[Len(u)]
        PROVE  \E m \in 1..Len(scope) : scope[m] = u
    <2>1. PICK o, k, l : o = Owner(u) /\ k = List(u) /\ l = Len(u)
      OBVIOUS
    <2>2. IsChild(u, o, k)
      BY <1>1, <1>8, <2>1, ChildOf
    <2>3. /\ u \in Paths /\ l \in Nat /\ l >= 2
          /\ Front(u) \in Paths /\ Len(Front(u)) = l - 1
          /\ \A m \in 1..(l - 1) : Front(u)[m] = u[m]
          /\ u[l - 1] = k
      BY <1>1, <2>1, <2>2, SiblingPlaces
    <2>4. \A m \in 1..(l - 1) : u[m] = here[m]
      BY <1>6, <1>8, <2>3, PrefixPlaces
    <2>5. o \in DOMAIN body /\ o \in Paths /\ Len(o) = l - 2 /\ Len(o) \in Nat
      <3>1. o \in DOMAIN body /\ Len(u) = Len(o) + 2
        BY <2>2 DEF IsChild
      <3>2. o \in Paths /\ Len(o) \in Nat
        BY <1>1, <3>1, BodyFacts, PrefixPlaces
      <3> QED  BY <2>1, <2>3, <3>1, <3>2
    <2>6. IsStrictPrefix(o, here)
      <3>1. \A m \in 1..(l - 2) : o[m] = u[m] /\ m \in 1..(l - 1)
        <4>1. o = SubSeq(u, 1, l - 2) /\ l - 2 \in Nat /\ l - 2 <= Len(u)
          BY <2>1, <2>3 DEF Owner
        <4>2. \A m \in 1..(l - 2) : SubSeq(u, 1, l - 2)[m] = u[m]
          BY <2>3, <4>1, SubSeqEqual
        <4>3. \A m \in 1..(l - 2) : m \in 1..(l - 1)
          BY <2>3
        <4> QED  BY <4>1, <4>2, <4>3
      <3>2. \A m \in 1..(l - 2) : o[m] = here[m]
        BY <2>4, <3>1
      <3>3. l - 2 <= Len(here) /\ l - 2 # Len(here)
        BY <1>6, <1>8, <2>1, <2>3
      <3>4. IsPrefix(o, here)
        BY <1>6, <2>5, <3>2, <3>3, PrefixPlaces
      <3> QED  BY <2>5, <3>3, <3>4 DEF IsStrictPrefix
    <2>7. o \in Enclosing(here) /\ o \in Around(Top.owner)
      BY <1>1, <1>6, <2>5, <2>6, AroundFacts DEF Enclosing
    <2>8. PICK i \in 1..n : stack[i].owner = o
      <3>1. \E i \in 1..n : stack[i].owner = o
        BY <1>1, <1>2, <1>3, <2>7, ChainCovers
      <3> QED  BY <3>1
    <2>9. stack[i].idx <= Size(stack[i]) /\ FrameOK(stack[i])
      <3>1. CASE i = n
        BY <1>1, <1>2, <1>3, <3>1 DEF Chain
      <3>2. CASE i # n
        <4>1. i < n /\ n \in 1..n
          BY <1>3, <3>2
        <4> QED  BY <1>1, <1>2, <4>1, ChainAncestors DEF Chain
      <3> QED  BY <3>1, <3>2
    <2>10. PICK x, kk : x = Current(stack[i]) /\ kk = stack[i].list
      OBVIOUS
    <2>11. x \in DOMAIN body \ {<<>>} /\ IsChild(x, o, kk) /\ Last(x) = stack[i].idx
      BY <1>1, <2>8, <2>9, <2>10, CurrentFacts
    <2>12. x \in Around(here)
      <3>1. CASE i = n
        BY <1>1, <1>3, <1>6, <2>10, <3>1, AroundFacts
      <3>2. CASE i # n
        <4>1. i < n
          BY <1>3, <3>2
        <4>2. x \in Around(Top.owner)
          BY <1>1, <1>2, <1>3, <2>10, <4>1, ChainAncestors
        <4> QED  BY <1>1, <1>6, <4>2, AroundFacts
      <3> QED  BY <3>1, <3>2
    <2>13. /\ x \in Paths /\ Len(x) = l /\ x[l - 1] = kk /\ x[l] = Last(x)
      <3>1. Len(x) = l
        BY <2>1, <2>2, <2>11 DEF IsChild
      <3> QED  BY <1>1, <2>11, <3>1, SiblingPlaces
    <2>14. \A m \in 1..l : x[m] = here[m]
      <3>1. CASE x = here
        BY <3>1
      <3>2. CASE x # here
        <4>1. IsPrefix(x, here)
          BY <2>12, <3>2 DEF Around, Enclosing, IsStrictPrefix
        <4> QED  BY <1>6, <2>13, <4>1, PrefixPlaces
      <3> QED  BY <3>1, <3>2
    <2>15. k = kk /\ Last(u) < Last(x)
      <3>1. l - 1 \in 1..l /\ l \in 1..l /\ l - 1 \in 1..(l - 1)
        BY <2>3
      <3> QED  BY <1>8, <2>1, <2>3, <2>4, <2>13, <2>14, <3>1
    <2>16. body[u].kind = "use" /\ ~body[u].false
      <3>1. u \notin unknown /\ body[u].kind = "use"
        BY <1>8 DEF Kind
      <3>2. Owner(u) = stack[i].owner /\ List(u) = stack[i].list
        BY <2>1, <2>8, <2>10, <2>15
      <3>3. i \in 1..Len(stack)
        BY <1>2
      <3> QED  BY <1>8, <3>1, <3>2, <3>3, CurrentSettled
    <2>17. u \in Uses(stack[i])
      BY <1>8, <2>1, <2>8, <2>10, <2>11, <2>15, <2>16 DEF Uses
    <2>18. Part(stack[i], scope, stack[i].base, Bound(stack, scope, i + 1))
      BY <1>1, <1>2 DEF ScopeInv
    <2>19. PICK m \in (stack[i].base + 1)..Bound(stack, scope, i + 1) : scope[m] = u
      BY <2>17, <2>18 DEF Part
    <2>20. m \in 1..Len(scope)
      <3>1. /\ stack[i].base \in Nat /\ Bound(stack, scope, i + 1) \in Nat
            /\ Bound(stack, scope, i + 1) <= Len(scope)
        BY <2>18 DEF Part
      <3> QED  BY <1>4, <2>19, <3>1
    <2> QED  BY <2>19, <2>20
  <1> QED  BY <1>5, <1>7, <1>8

\* The parts are in the order of the calls.
LEMMA BasesIncrease ==
    ASSUME body \in Bodies, NEW s \in Seq(Frames), NEW z, ScopeInv(s, z), s # <<>>,
           NEW c \in 1..Len(s), NEW a \in 1..Len(s), c <= a
    PROVE  s[c].base <= s[a].base
  <1>1. PICK n : n = Len(s)
    OBVIOUS
  <1>2. /\ n \in Nat \ {0}
        /\ \A i \in 1..n : s[i].base \in Nat
        /\ \A i \in 1..n : i # n => i + 1 \in 1..n /\ Part(s[i], z, s[i].base, s[i + 1].base)
    BY <1>1, BoundFacts
  <1>3. PICK S : S = {x \in Nat : c + x \in 1..n => s[c].base <= s[c + x].base}
    OBVIOUS
  <1>4. 0 \in S
    BY <1>1, <1>2, <1>3
  <1>5. ASSUME NEW x \in Nat, x \in S PROVE x + 1 \in S
    <2> SUFFICES ASSUME c + (x + 1) \in 1..n PROVE s[c].base <= s[c + (x + 1)].base
      BY <1>3
    <2>1. PICK y : y = c + x
      OBVIOUS
    <2>2. y \in 1..n /\ y # n /\ y + 1 \in 1..n /\ c + (x + 1) = y + 1
      BY <1>1, <1>2, <2>1
    <2>3. s[c].base <= s[y].base /\ s[y].base <= s[y + 1].base
      BY <1>2, <1>3, <1>5, <2>1, <2>2 DEF Part
    <2>4. s[c].base \in Nat /\ s[y].base \in Nat /\ s[y + 1].base \in Nat
      BY <1>1, <1>2, <2>2
    <2> QED  BY <2>2, <2>3, <2>4
  <1>6. Nat \subseteq S
    BY <1>4, <1>5, SetInduction
  <1>7. a - c \in Nat /\ c + (a - c) = a /\ a \in 1..n
    BY <1>1, <1>2
  <1>8. a - c \in S
    BY <1>6, <1>7
  <1> QED  BY <1>3, <1>7, <1>8

\* The namespaces in use are in the order in which they were given.
LEMMA ScopeInOrder ==
    ASSUME CallsInv, stack # <<>>, Top.idx <= Size(Top),
           NEW l \in 1..Len(scope), NEW m \in 1..Len(scope), l < m
    PROVE  Precedes(scope[l], scope[m])
  <1>1. body \in Bodies /\ stack \in Seq(Frames) /\ Chain(stack) /\ ScopeInv(stack, scope)
    BY DEF CallsInv, StackInv
  <1>2. PICK n : n = Len(stack)
    OBVIOUS
  <1>3. n \in Nat \ {0} /\ \A i \in 1..n : stack[i].base \in Nat
    BY <1>1, <1>2, BoundFacts
  <1>4. PICK a \in 1..n : /\ stack[a].base < l /\ scope[l] \in Uses(stack[a])
                          /\ l \in (stack[a].base + 1)..Bound(stack, scope, a + 1)
                          /\ a < n => l <= stack[a + 1].base
    BY <1>1, <1>2, PlaceCall
  <1>5. PICK b \in 1..n : /\ stack[b].base < m /\ scope[m] \in Uses(stack[b])
                          /\ m \in (stack[b].base + 1)..Bound(stack, scope, b + 1)
                          /\ b < n => m <= stack[b + 1].base
    BY <1>1, <1>2, PlaceCall
  <1>6. PICK u, v : u = scope[l] /\ v = scope[m]
    OBVIOUS
  <1>7. /\ u \in DOMAIN body \ {<<>>} /\ Last(u) < Last(Current(stack[a]))
        /\ IsChild(u, stack[a].owner, stack[a].list)
        /\ IsChild(Current(stack[a]), stack[a].owner, stack[a].list)
        /\ \A j \in 1..n : a < j => Current(stack[a]) \in Around(stack[j].owner)
    BY <1>2, <1>4, <1>6, InCall
  <1>8. v \in DOMAIN body \ {<<>>} /\ IsChild(v, stack[b].owner, stack[b].list)
    BY <1>2, <1>5, <1>6, InCall
  <1>9. CASE a = b
    <2>1. Last(u) < Last(v)
      <3>1. Part(stack[a], scope, stack[a].base, Bound(stack, scope, a + 1))
        BY <1>1, <1>2 DEF ScopeInv
      <3> QED  BY <1>4, <1>5, <1>6, <1>9, <3>1 DEF Part
    <2>2. v \in Around(v)
      BY <1>1, <1>8, AroundFacts
    <2>3. Precedes(u, v)
      BY <1>1, <1>7, <1>8, <1>9, <2>1, <2>2, SiblingPrecedes
    <2> QED  BY <1>6, <2>3
  <1>10. CASE a < b
    <2>1. Current(stack[a]) \in Around(v)
      <3>1. Current(stack[a]) \in Around(Owner(v))
        BY <1>7, <1>8, <1>10 DEF IsChild
      <3> QED  BY <1>1, <1>8, <3>1, AroundFacts
    <2>2. Precedes(u, v)
      BY <1>1, <1>7, <1>8, <2>1, SiblingPrecedes
    <2> QED  BY <1>6, <2>2
  <1>11. CASE b < a
    <2>1. PICK c \in 1..n : c = b + 1 /\ c <= a
      BY <1>3, <1>11
    <2>2. m <= stack[c].base
      BY <1>3, <1>5, <1>11, <2>1
    <2>3. stack[c].base <= stack[a].base
      BY <1>1, <1>2, <2>1, BasesIncrease
    <2>4. l < m /\ m <= stack[c].base /\ stack[a].base < l /\ l \in Nat /\ m \in Nat
          /\ stack[c].base \in Nat /\ stack[a].base \in Nat
      <3>1. Len(scope) \in Nat
        BY <1>1, LenProperties DEF ScopeInv
      <3> QED  BY <1>3, <1>4, <2>2, <3>1
    <2> QED  BY <2>3, <2>4
  <1> QED  BY <1>3, <1>9, <1>10, <1>11

(* While a directive is compiled, the namespaces in use are those given        *)
(* earlier in the lists around it, in the order in which they are written.     *)
THEOREM NamespacesAreInScope == Spec => []NamespacesInScope
  <1>1. CallsInv => NamespacesInScope
    <2> SUFFICES ASSUME CallsInv, stack # <<>>, Top.idx <= Size(Top),
                        NEW here, here = Current(Top), NEW seen,
                        seen = {u \in DOMAIN body :
                                  /\ u # <<>> /\ Kind(u) = "use" /\ Len(u) <= Len(here)
                                  /\ IsPrefix(Front(u), here) /\ Last(u) < here[Len(u)]}
                 PROVE  /\ ToSet(scope) = seen
                        /\ \A i, j \in DOMAIN scope : i < j => Precedes(scope[i], scope[j])
      BY Zenon DEF NamespacesInScope
    <2>1. \A u : u \in ToSet(scope) <=> u \in seen
      BY ScopeIsSeen
    <2>2. DOMAIN scope = 1..Len(scope)
      BY LenProperties DEF CallsInv, ScopeInv
    <2>3. \A i, j \in DOMAIN scope : i < j => Precedes(scope[i], scope[j])
      BY <2>2, ScopeInOrder
    <2> QED  BY <2>1, <2>3
  <1> QED  BY <1>1, CallsInvariant, PTL

-----------------------------------------------------------------------------
(* The try, catch and finally.                                             *)

Handlers == {"catch", "typed_catch", "finally"}
Tried    == {"try", "catch", "typed_catch"}

\* The kind of a directive once its list is entered.
Given(q) == IF body[q].false THEN "unknown" ELSE body[q].kind

Blamed(p, what, err) == \E e \in err : e.at = p /\ e.what = what

\* What is known of a directive which was compiled: it was complained about, or
\* the one beside it is as it should be.
JudgedTry(p, err) ==
    \/ Blamed(p, "INVALID_TRY", err)
    \/ Last(p) + 1 <= Sizes(Owner(p))[List(p)] /\ Given(Sibling(p, Last(p) + 1)) \in Handlers
    \/ \E j \in 1..Sizes(Owner(p))[List(p)] :
            Given(Sibling(p, j)) \in Handlers /\ Blamed(Sibling(p, j), "NO_TRY", err)

JudgedHandler(p, err) ==
    /\ Blamed(p, "NO_TRY", err) \/ (Last(p) > 1 /\ Given(Sibling(p, Last(p) - 1)) \in Tried)
    /\ body[p].kind # "finally" =>
            \/ Blamed(p, "NOT_LAST_CATCH", err)
            \/ Last(p) = 1
            \/ Given(Sibling(p, Last(p) - 1)) # "catch"

Judged(p, err) ==
    /\ body[p].kind = "try" => JudgedTry(p, err)
    /\ body[p].kind \in Handlers => JudgedHandler(p, err)

\* A handler after a directive which was removed was complained about.
Displaced(r, err) ==
    \A q \in DOMAIN body \ {<<>>} :
        /\ Owner(q) = Owner(r) /\ List(q) = List(r) /\ Last(q) = Last(r) + 1
        /\ Given(q) \in Handlers
        => Blamed(q, "NO_TRY", err)

TryInv ==
    /\ \A p \in DOMAIN body \ {<<>>} : Live(p) /\ Seen(p, stack) => Judged(p, errors)
    /\ \A r \in removed : Displaced(r, errors)

\* Complaints stay.
LEMMA JudgedStays ==
    ASSUME NEW err, NEW more, err \subseteq more
    PROVE  /\ \A p : Judged(p, err) => Judged(p, more)
           /\ \A r : Displaced(r, err) => Displaced(r, more)
  <1>1. \A p, what : Blamed(p, what, err) => Blamed(p, what, more)
    BY DEF Blamed
  <1>2. \A p : JudgedTry(p, err) => JudgedTry(p, more)
    BY <1>1, Zenon DEF JudgedTry
  <1>3. \A p : JudgedHandler(p, err) => JudgedHandler(p, more)
    BY <1>1, Zenon DEF JudgedHandler
  <1> QED  BY <1>1, <1>2, <1>3, Zenon DEF Judged, Displaced

\* The action that compiles a try, catch or finally.
LEMMA TryTaken ==
    ASSUME CallsInv, Works, NEW p, AtCurrent(p), Kind(p) \in TryKinds
    PROVE  Enter(p, TryErrors(p)) /\ UNCHANGED removed
  <1>1. Top.idx <= Size(Top) /\ p = Current(Top) /\ Kind(p) \in {"try", "catch", "typed_catch", "finally"}
    BY DEF AtCurrent, AtTop, TryKinds
  <1>2. ~Returned
    <2>1. Size(Top) \in Nat /\ Top.idx \in Nat
      BY TopFacts, FrameNumbers DEF CallsInv, AtCurrent, AtTop
    <2> QED  BY <1>1, <2>1 DEF Returned
  <1>3. \A q, kinds : At(q, kinds) => q = p /\ Kind(p) \in kinds
    BY <1>1 DEF At
  <1>4. Kind(p) \notin {"expression", "var", "label", "unknown", "use", "throw", "goto", "break",
                        "continue", "return", "return_value", "case", "default", "list", "with",
                        "if", "switch"} \union LoopKinds \union FunctionKinds
    BY <1>1 DEF LoopKinds, FunctionKinds
  <1>5. Try
    <2>1. ~Plain /\ ~UseNamespace /\ ~Throw
      BY <1>3, <1>4 DEF Plain, UseNamespace, Throw
    <2>2. ~Goto
      BY <1>3, <1>4, Zenon DEF Goto
    <2>3. ~BreakContinue
      BY <1>3, <1>4, Zenon DEF BreakContinue
    <2>4. ~Return /\ ~Case
      BY <1>3, <1>4 DEF Return, Case
    <2>5. ~Default
      BY <1>3, <1>4, Zenon DEF Default
    <2>6. ~Block /\ ~Function
      BY <1>3, <1>4 DEF Block, Function
    <2>7. ~Switch
      BY <1>3, <1>4, Zenon DEF Switch
    <2>8. ~CompileAgain /\ ~NextList /\ ~Leave
      BY <1>2 DEF CompileAgain, NextList, Leave
    <2> QED  BY <2>1, <2>2, <2>3, <2>4, <2>5, <2>6, <2>7, <2>8 DEF Works
  <1> QED  BY <1>3, <1>5, Zenon DEF Try

\* The directives of the list in which the current one is.
LEMMA BesideFacts ==
    ASSUME CallsInv, NEW p, AtCurrent(p), NEW n, n = Sizes(Owner(p))[List(p)]
    PROVE  /\ p \in DOMAIN body \ {<<>>} /\ n \in Nat /\ Last(p) \in 1..n
           /\ Owner(p) \in DOMAIN body /\ List(p) \in 1..Len(Sizes(Owner(p)))
           /\ \A j \in 1..n :
                /\ Sibling(p, j) = Owner(p) \o <<List(p), j>>
                /\ Sibling(p, j) \in DOMAIN body \ {<<>>}
                /\ Owner(Sibling(p, j)) = Owner(p) /\ List(Sibling(p, j)) = List(p)
                /\ Last(Sibling(p, j)) = j
                /\ Kind(Sibling(p, j)) = Given(Sibling(p, j))
           /\ Kind(p) = Given(p) /\ Sibling(p, Last(p)) = p
  <1>1. body \in Bodies /\ stack \in Seq(Frames) /\ stack # <<>>
    BY DEF CallsInv, StackInv, AtCurrent, AtTop
  <1>2. PICK l : l = Len(stack)
    OBVIOUS
  <1>3. l \in 1..l /\ Top = stack[l]
    <2>1. Len(stack) \in Nat \ {0} /\ Last(stack) = stack[Len(stack)]
      BY <1>1, FrontPlaces
    <2> QED  BY <1>2, <2>1 DEF Top
  <1>4. p = Current(Top) /\ Top.idx <= Size(Top) /\ FrameOK(Top)
    BY <1>1, TopFacts DEF AtCurrent, AtTop
  <1>5. p \in DOMAIN body \ {<<>>} /\ IsChild(p, Top.owner, Top.list)
    BY <1>1, <1>4, CurrentFacts
  <1>6. PICK o, k : o = Owner(p) /\ k = List(p)
    OBVIOUS
  <1>7. o = Top.owner /\ k = Top.list /\ IsChild(p, o, k)
    BY <1>5, <1>6 DEF IsChild
  <1>8. n = Sizes(o)[k] /\ n \in Nat /\ Last(p) \in 1..n /\ o \in DOMAIN body /\ k \in 1..Len(Sizes(o))
        /\ p = o \o <<k, Last(p)>> /\ \A j \in 1..n : Sibling(p, j) = o \o <<k, j>>
    <2>1. o \in DOMAIN body /\ k \in 1..Len(Sizes(o)) /\ Last(p) \in 1..Sizes(o)[k]
          /\ p = o \o <<k, Last(p)>> /\ \A j \in Nat : Sibling(p, j) = o \o <<k, j>>
      BY <1>7 DEF IsChild
    <2>2. n = Sizes(o)[k] /\ n \in Nat
      BY <1>1, <1>6, <1>7, ChildNumbers
    <2>3. \A j \in 1..n : j \in Nat
      BY <2>2
    <2> QED  BY <2>1, <2>2, <2>3
  <1>9. ASSUME NEW q \in DOMAIN body \ {<<>>}, Owner(q) = o, List(q) = k PROVE Kind(q) = Given(q)
    <2>1. body[q].false <=> q \in unknown
      BY <1>2, <1>3, <1>7, <1>9, CurrentSettled
    <2> QED  BY <2>1 DEF Kind, Given
  <1>10. ASSUME NEW j \in 1..n
         PROVE  /\ Sibling(p, j) = o \o <<k, j>>
                /\ Sibling(p, j) \in DOMAIN body \ {<<>>}
                /\ Owner(Sibling(p, j)) = o /\ List(Sibling(p, j)) = k
                /\ Last(Sibling(p, j)) = j
    <2>1. PICK c : c = o \o <<k, j>>
      OBVIOUS
    <2>2. c \in DOMAIN body \ {<<>>} /\ IsChild(c, o, k) /\ Last(c) = j
      BY <1>1, <1>8, <2>1, ChildIn
    <2> QED  BY <1>8, <2>1, <2>2 DEF IsChild
  <1>11. Kind(p) = Given(p) /\ Sibling(p, Last(p)) = p
    BY <1>5, <1>6, <1>8, <1>9
  <1> QED  BY <1>5, <1>6, <1>8, <1>9, <1>10, <1>11

\* What After() and Before() find in the list of the current directive.
LEMMA NeighbourFacts ==
    ASSUME CallsInv, NEW p, AtCurrent(p), NEW n, n = Sizes(Owner(p))[List(p)]
    PROVE  /\ \/ After(p) = <<>>
              \/ \E j \in (Last(p) + 1)..n :
                    After(p) = Sibling(p, j) /\ \A m \in (Last(p) + 1)..(j - 1) : Sibling(p, m) \in removed
           /\ \/ Before(p) = <<>> /\ \A m \in 1..(Last(p) - 1) : Sibling(p, m) \in removed
              \/ \E j \in 1..(Last(p) - 1) :
                    /\ Before(p) = Sibling(p, j) /\ Sibling(p, j) \notin removed
                    /\ \A m \in (j + 1)..(Last(p) - 1) : Sibling(p, m) \in removed
  <1>1. /\ p \in DOMAIN body \ {<<>>} /\ n \in Nat /\ Last(p) \in 1..n
        /\ Owner(p) \in DOMAIN body /\ List(p) \in 1..Len(Sizes(Owner(p)))
        /\ \A j \in 1..n : Sibling(p, j) = Owner(p) \o <<List(p), j>>
    BY BesideFacts
  <1>2. body \in Bodies
    BY DEF CallsInv
  <1>3. PICK o, k, i, j : o = Owner(p) /\ k = List(p) /\ i = Last(p) /\ j = NextOf(o, k, i, removed)
    OBVIOUS
  <1>4. /\ j \in (i + 1)..(n + 1)
        /\ \A m \in (i + 1)..(j - 1) : o \o <<k, m>> \in removed
    <2>1. i \in 0..Sizes(o)[k]
      BY <1>1, <1>3
    <2> QED  BY <1>1, <1>2, <1>3, <2>1, NextFacts
  <1>5. After(p) = IF j <= n THEN Sibling(p, j) ELSE <<>>
    BY <1>3 DEF After, Following, List, Sizes
  <1>6. \A m \in (i + 1)..(j - 1) : Sibling(p, m) \in removed
    <2>1. \A m \in (i + 1)..(j - 1) : m \in 1..n
      BY <1>1, <1>3, <1>4
    <2> QED  BY <1>1, <1>3, <1>4, <2>1
  <1>7. j <= n => j \in (i + 1)..n
    BY <1>4
  <1>8. PICK E : E = {m \in 1..(i - 1) : Sibling(p, m) \notin removed}
    OBVIOUS
  <1>9. Before(p) = IF E # {} THEN Sibling(p, Max(E)) ELSE <<>>
    BY <1>3, <1>8 DEF Before
  <1>10. CASE E = {}
    BY <1>3, <1>5, <1>6, <1>7, <1>8, <1>9, <1>10
  <1>11. CASE E # {}
    <2>1. i - 1 \in Nat /\ E \subseteq 1..(i - 1)
      BY <1>1, <1>3, <1>8
    <2>2. PICK x : x = Max(E)
      OBVIOUS
    <2>3. x \in E /\ \A y \in E : x >= y
      BY <1>11, <2>1, <2>2, Extremes
    <2>4. x \in 1..(i - 1) /\ Sibling(p, x) \notin removed
      BY <1>8, <2>3
    <2>5. \A m \in (x + 1)..(i - 1) : Sibling(p, m) \in removed
      <3> TAKE m \in (x + 1)..(i - 1)
      <3>1. m \in 1..(i - 1) /\ ~(x >= m)
        BY <2>1, <2>4
      <3> QED  BY <1>8, <2>3, <3>1
    <2> QED  BY <1>3, <1>5, <1>6, <1>7, <1>9, <1>11, <2>2, <2>4, <2>5
  <1> QED  BY <1>10, <1>11

\* A try, catch or finally is judged as it is compiled.
LEMMA TryJudged ==
    ASSUME CallsInv, TryInv, Works, NEW p, AtCurrent(p), Live(p), body[p].kind \in TryKinds
    PROVE  Judged(p, errors')
  <1>1. PICK n, o, k, i : n = Sizes(Owner(p))[List(p)] /\ o = Owner(p) /\ k = List(p) /\ i = Last(p)
    OBVIOUS
  <1>2. /\ p \in DOMAIN body \ {<<>>} /\ n \in Nat /\ i \in 1..n
        /\ \A j \in 1..n :
                /\ Sibling(p, j) \in DOMAIN body \ {<<>>}
                /\ Owner(Sibling(p, j)) = o /\ List(Sibling(p, j)) = k
                /\ Last(Sibling(p, j)) = j
                /\ Kind(Sibling(p, j)) = Given(Sibling(p, j))
        /\ Kind(p) = Given(p) /\ Sibling(p, i) = p
    BY <1>1, BesideFacts
  <1>3. body \in Bodies /\ removed \subseteq unknown
    BY DEF CallsInv, StackInv
  <1>4. Given(p) = body[p].kind
    BY <1>2, <1>3, LiveFacts DEF Given
  <1>5. TryErrors(p) \subseteq errors' /\ errors \subseteq errors'
    <2>1. Enter(p, TryErrors(p))
      BY <1>2, <1>4, TryTaken
    <2> QED  BY <2>1 DEF Enter
  <1>6. \A q, what : Error(q, what).at = q /\ Error(q, what).what = what
    BY DEF Error
  <1>7. ASSUME NEW j \in 2..n, Sibling(p, j - 1) \in removed, Given(Sibling(p, j)) \in Handlers
        PROVE  Blamed(Sibling(p, j), "NO_TRY", errors')
    <2>1. j - 1 \in 1..n /\ j \in 1..n /\ (j - 1) + 1 = j
      BY <1>2
    <2>2. Displaced(Sibling(p, j - 1), errors)
      BY <1>7 DEF TryInv
    <2>3. Displaced(Sibling(p, j - 1), errors')
      BY <1>5, <2>2, JudgedStays
    <2> QED  BY <1>2, <1>7, <2>1, <2>3 DEF Displaced
  <1>8. ASSUME body[p].kind = "try" PROVE JudgedTry(p, errors')
    <2>1. CASE After(p) = <<>> \/ Kind(After(p)) \notin Handlers
      <3>1. TryErrors(p) = {Error(p, "INVALID_TRY")}
        BY <1>2, <1>4, <1>8, <2>1 DEF TryErrors, ErrorIf, Handlers
      <3> QED  BY <1>5, <1>6, <3>1 DEF JudgedTry, Blamed
    <2>2. CASE After(p) # <<>> /\ Kind(After(p)) \in Handlers
      <3>1. PICK j \in (i + 1)..n :
                After(p) = Sibling(p, j) /\ \A m \in (i + 1)..(j - 1) : Sibling(p, m) \in removed
        BY <1>1, <2>2, NeighbourFacts
      <3>2. j \in 1..n /\ Given(Sibling(p, j)) \in Handlers
        BY <1>2, <2>2, <3>1
      <3>3. CASE j = i + 1
        BY <1>1, <1>2, <3>1, <3>2, <3>3 DEF JudgedTry
      <3>4. CASE j # i + 1
        <4>1. j \in 2..n /\ j - 1 \in (i + 1)..(j - 1)
          BY <1>2, <3>1, <3>4
        <4>2. Blamed(Sibling(p, j), "NO_TRY", errors')
          BY <1>7, <3>1, <3>2, <4>1
        <4> QED  BY <1>1, <3>2, <4>2 DEF JudgedTry
      <3> QED  BY <3>3, <3>4
    <2> QED  BY <2>1, <2>2
  <1>9. ASSUME body[p].kind \in Handlers PROVE JudgedHandler(p, errors')
    <2>1. Kind(p) \in Handlers /\ Kind(p) # "try"
      BY <1>2, <1>4, <1>9 DEF Handlers
    <2>2. Blamed(p, "NO_TRY", errors') \/ (i > 1 /\ Given(Sibling(p, i - 1)) \in Tried)
      <3>1. CASE ~Follows(p, Tried)
        <4>1. Error(p, "NO_TRY") \in TryErrors(p)
          BY <2>1, <3>1 DEF TryErrors, ErrorIf, Tried
        <4> QED  BY <1>5, <1>6, <4>1 DEF Blamed
      <3>2. CASE Follows(p, Tried)
        <4>1. PICK j \in 1..(i - 1) :
                 /\ Before(p) = Sibling(p, j)
                 /\ \A m \in (j + 1)..(i - 1) : Sibling(p, m) \in removed
          BY <1>1, <3>2, NeighbourFacts DEF Follows
        <4>2. j \in 1..n /\ i > 1 /\ Given(Sibling(p, j)) \in Tried
          BY <1>2, <3>2, <4>1 DEF Follows
        <4>3. CASE j = i - 1
          BY <4>2, <4>3
        <4>4. CASE j # i - 1
          <5>1. i \in 2..n /\ i - 1 \in (j + 1)..(i - 1)
            BY <1>2, <4>1, <4>4
          <5> QED  BY <1>2, <1>7, <2>1, <4>1, <5>1
        <4> QED  BY <4>3, <4>4
      <3> QED  BY <3>1, <3>2
    <2>3. ASSUME body[p].kind # "finally"
          PROVE  Blamed(p, "NOT_LAST_CATCH", errors') \/ i = 1 \/ Given(Sibling(p, i - 1)) # "catch"
      <3> SUFFICES ASSUME i # 1, Given(Sibling(p, i - 1)) = "catch"
                   PROVE  Blamed(p, "NOT_LAST_CATCH", errors')
        OBVIOUS
      <3>1. i - 1 \in 1..n /\ i - 1 \in 1..(i - 1)
        BY <1>2
      <3>2. Kind(Sibling(p, i - 1)) = "catch"
        BY <1>2, <3>1
      <3>3. Sibling(p, i - 1) \notin removed
        BY <1>3, <3>2 DEF Kind
      <3>4. PICK j \in 1..(i - 1) :
                 /\ Before(p) = Sibling(p, j)
                 /\ \A m \in (j + 1)..(i - 1) : Sibling(p, m) \in removed
        BY <1>1, <3>1, <3>3, NeighbourFacts
      <3>5. j = i - 1
        <4>1. j # i - 1 => i - 1 \in (j + 1)..(i - 1)
          BY <1>2, <3>4
        <4> QED  BY <3>3, <3>4, <4>1
      <3>6. Follows(p, {"catch"})
        BY <1>2, <3>1, <3>2, <3>4, <3>5 DEF Follows
      <3>7. Kind(p) # "try" /\ Kind(p) # "finally"
        BY <1>2, <1>4, <2>1, <2>3
      <3>8. Error(p, "NOT_LAST_CATCH") \in TryErrors(p)
        BY <3>6, <3>7 DEF TryErrors, ErrorIf
      <3> QED  BY <1>5, <1>6, <3>8 DEF Blamed
    <2> QED  BY <1>1, <2>2, <2>3 DEF JudgedHandler
  <1> QED  BY <1>8, <1>9 DEF Judged

\* What is known of the handlers of a body that does not change.
LEMMA SameJudged ==
    ASSUME body' = body
    PROVE  /\ \A p : Judged(p, errors)' <=> Judged(p, errors')
           /\ \A r : Displaced(r, errors)' <=> Displaced(r, errors')
  <1>1. ASSUME NEW q PROVE Given(q)' = Given(q) /\ Sizes(q)' = Sizes(q)
    BY DEF Given, Sizes
  <1>2. ASSUME NEW p, NEW what PROVE Blamed(p, what, errors)' <=> Blamed(p, what, errors')
    BY Zenon DEF Blamed
  <1>3. ASSUME NEW p PROVE JudgedTry(p, errors)' <=> JudgedTry(p, errors')
    BY <1>1, <1>2, Zenon DEF JudgedTry
  <1>4. ASSUME NEW p PROVE JudgedHandler(p, errors)' <=> JudgedHandler(p, errors')
    BY <1>1, <1>2, Zenon DEF JudgedHandler
  <1>5. ASSUME NEW p PROVE Judged(p, errors)' <=> Judged(p, errors')
    BY <1>3, <1>4, Zenon DEF Judged
  <1>6. ASSUME NEW r PROVE Displaced(r, errors)' <=> Displaced(r, errors')
    BY <1>1, <1>2, Zenon DEF Displaced
  <1> QED  BY <1>5, <1>6, Zenon

\* A step keeps the invariant of the try, catch and finally...
LEMMA TryStep ==
    ASSUME CallsInv, TryInv, Works
    PROVE  TryInv'
  <1>1. /\ body \in Bodies /\ body' = body /\ errors \subseteq errors' /\ unknown \subseteq unknown'
        /\ \A p \in DOMAIN body \ {<<>>} :
              Live(p) /\ Seen(p, stack') => Seen(p, stack) \/ AtCurrent(p)
        /\ removed' # removed =>
             /\ removed' = removed \union {p \in unknown : IsPrefix(Top.owner, p)}
             /\ \A p \in DOMAIN body \ {<<>>} : Top.owner \in Enclosing(p) => Past(p, stack)
             /\ Live(Top.owner)
    BY CallsStep DEF CallsInv
  <1>2. \A p : Judged(p, errors) => Judged(p, errors')
    BY <1>1, JudgedStays
  <1>3. \A r : Displaced(r, errors) => Displaced(r, errors')
    BY <1>1, JudgedStays
  <1>4. ASSUME NEW p \in DOMAIN body \ {<<>>}, Live(p), Seen(p, stack')
        PROVE  Judged(p, errors')
    <2>1. CASE Seen(p, stack)
      BY <1>2, <1>4, <2>1 DEF TryInv
    <2>2. CASE ~Seen(p, stack)
      <3>1. AtCurrent(p)
        BY <1>1, <1>4, <2>2
      <3>2. body[p].kind \notin TryKinds => Judged(p, errors')
        BY DEF Judged, TryKinds, Handlers
      <3> QED  BY <1>4, <3>1, <3>2, TryJudged
    <2> QED  BY <2>1, <2>2
  <1>5. ASSUME NEW r \in unknown, IsPrefix(Top.owner, r), removed' # removed
        PROVE  Displaced(r, errors')
    <2>1. r \in DOMAIN body \ {<<>>} /\ body[r].false /\ Live(Owner(r))
      BY DEF CallsInv, StackInv
    <2>2. Top.owner \in DOMAIN body /\ Live(Top.owner) /\ Top.owner # r
      <3>1. stack # <<>>
        BY <1>5, CallsStep
      <3>2. Top.owner \in DOMAIN body
        BY <1>1, <3>1, TopFacts, FrameNumbers
      <3> QED  BY <1>1, <1>5, <2>1, <3>2, LiveFacts
    <2>3. Top.owner \in Enclosing(r)
      BY <1>5, <2>2 DEF Enclosing, IsStrictPrefix
    <2> SUFFICES ASSUME NEW q \in DOMAIN body \ {<<>>}, Owner(q) = Owner(r), List(q) = List(r),
                        Last(q) = Last(r) + 1, Given(q) \in Handlers
                 PROVE  Blamed(q, "NO_TRY", errors)
      BY <1>1 DEF Displaced, Blamed
    <2>4. ~body[q].false /\ body[q].kind \in Handlers
      <3>1. "unknown" \notin Handlers
        BY DEF Handlers
      <3> QED  BY <3>1 DEF Given
    <2>5. Live(q) /\ Enclosing(q) = Enclosing(r)
      BY <1>1, <2>1, <2>4, LiveFacts, AroundFacts
    <2>6. Seen(q, stack)
      BY <1>1, <1>5, <2>3, <2>5 DEF Seen
    <2>7. Blamed(q, "NO_TRY", errors) \/ Given(Sibling(q, Last(q) - 1)) \in Tried
      BY <2>4, <2>5, <2>6 DEF TryInv, Judged, JudgedHandler
    <2>8. Sibling(q, Last(q) - 1) = r
      <3>1. IsChild(q, Owner(r), List(r)) /\ IsChild(r, Owner(r), List(r))
        BY <1>1, <2>1, ChildOf
      <3>2. Last(r) \in Nat /\ Last(q) - 1 = Last(r)
        BY <3>1 DEF IsChild
      <3> QED  BY <3>1, <3>2 DEF IsChild
    <2>9. Given(r) \notin Tried
      BY <2>1 DEF Given, Tried
    <2> QED  BY <2>7, <2>8, <2>9
  <1>6. ASSUME NEW r \in removed' PROVE Displaced(r, errors')
    <2>1. CASE r \in removed
      BY <1>3, <2>1 DEF TryInv
    <2>2. CASE r \notin removed
      BY <1>1, <1>5, <1>6, <2>2
    <2> QED  BY <2>1, <2>2
  <1>7. \A p : (Live(p)' <=> Live(p)) /\ (Seen(p, stack)' <=> Seen(p, stack'))
    BY <1>1, SameBody
  <1>8. (\A p \in DOMAIN body \ {<<>>} : Live(p) /\ Seen(p, stack) => Judged(p, errors))'
    BY <1>1, <1>4, <1>7, SameJudged, Zenon
  <1>9. (\A r \in removed : Displaced(r, errors))'
    BY <1>1, <1>6, SameJudged, Zenon
  <1> QED  BY <1>8, <1>9, Zenon DEF TryInv

\* ... which holds at first, when nothing was seen.
LEMMA TryInit ==
    ASSUME Init
    PROVE  TryInv
  <1>1. \A p \in DOMAIN body \ {<<>>} : ~Seen(p, stack)
    BY CallsInit
  <1>2. removed = {}
    BY Zenon DEF Init
  <1> QED  BY <1>1, <1>2 DEF TryInv

\* The complaints about try, catch and finally, for every program: one that was compiled was complained
\* about, or what is beside it is as it should be, whatever was removed later.
THEOREM TryInvariant == Spec => []TryInv
  <1>1. Init => TryInv
    BY TryInit
  <1>2. CallsInv /\ TryInv /\ [Next]_vars => TryInv'
    <2>1. CallsInv /\ TryInv /\ Works => TryInv'
      BY TryStep
    <2>2. TryInv /\ UNCHANGED Held => TryInv'
      <3> SUFFICES ASSUME TryInv, UNCHANGED Held PROVE TryInv'
        OBVIOUS
      <3>1. body' = body /\ stack' = stack /\ removed' = removed /\ errors' = errors
        BY DEF Held
      <3>2. \A p : (Live(p)' <=> Live(p)) /\ (Seen(p, stack)' <=> Seen(p, stack'))
        BY <3>1, SameBody
      <3>3. (\A p \in DOMAIN body \ {<<>>} : Live(p) /\ Seen(p, stack) => Judged(p, errors))'
        BY <3>1, <3>2, SameJudged, Zenon DEF TryInv
      <3>4. (\A r \in removed : Displaced(r, errors))'
        BY <3>1, SameJudged, Zenon DEF TryInv
      <3> QED  BY <3>3, <3>4, Zenon DEF TryInv
    <2> QED  BY <2>1, <2>2, StepCases
  <1> QED  BY <1>1, <1>2, CallsInvariant, PTL DEF Spec

-----------------------------------------------------------------------------
\* When the calls are over every directive which is not marked false was compiled.
LEMMA AllSeen ==
    ASSUME CallsInv, stack = <<>>
    PROVE  /\ \A p \in DOMAIN body \ {<<>>} : Seen(p, stack)
           /\ \A q \in DOMAIN body \ {<<>>} : Live(Owner(q)) => Kind(q) = Given(q)
           /\ \A p \in Compiled : p \in DOMAIN body \ {<<>>} /\ Live(p)
  <1>1. /\ body \in Bodies /\ unknown \subseteq {p \in DOMAIN body \ {<<>>} : body[p].false}
        /\ Settled(stack, unknown)
    BY DEF CallsInv, StackInv
  <1>2. \A p : Past(p, stack)
    BY DEF Past
  <1>3. \A q \in DOMAIN body \ {<<>>} : Live(Owner(q)) /\ body[q].false => q \in unknown
    BY <1>1, <1>2 DEF Settled, Opened
  <1>4. \A q \in DOMAIN body \ {<<>>} : Live(Owner(q)) => Kind(q) = Given(q)
    BY <1>1, <1>3 DEF Kind, Given
  <1>5. PICK S : S = {p \in DOMAIN body : (\A q \in Around(p) : q \notin unknown) => Live(p)}
    OBVIOUS
  <1>6. DOMAIN body \subseteq S
    <2>1. <<>> \in S
      BY <1>1, <1>5, LiveFacts, BodyFacts
    <2>2. ASSUME NEW p \in DOMAIN body \ {<<>>}, Owner(p) \in S PROVE p \in S
      BY <1>1, <1>3, <1>5, <2>2, LiveFacts, AroundFacts
    <2> QED  BY <1>1, <2>1, <2>2, TreeInduction
  <1>7. \A p \in Compiled : p \in DOMAIN body \ {<<>>} /\ Live(p)
    BY <1>5, <1>6 DEF Compiled, Around
  <1> QED  BY <1>2, <1>4, <1>7 DEF Seen

\* The kinds of a list in which no try, catch or finally is wrong.
TryShape(n, K) ==
    \A i \in 1..n :
        /\ K[i] = "try" => i + 1 <= n /\ K[i + 1] \in Handlers
        /\ K[i] \in Handlers =>
                /\ i > 1 /\ K[i - 1] \in Tried
                /\ K[i] # "finally" => K[i - 1] # "catch"

\* A try, typed catches and perhaps a catch are before a catch or finally.
TryBefore(K, i) ==
    \E a \in 1..(i - 1) :
        /\ K[a] = "try"
        /\ \A m \in (a + 1)..(i - 1) :
                K[m] = "typed_catch" \/ (K[m] = "catch" /\ m + 1 = i /\ K[i] = "finally")

\* Every place of a list with nothing wrong comes after a try and its catches.
LEMMA TryBeforeAll ==
    ASSUME NEW n \in Nat, NEW K, TryShape(n, K)
    PROVE  \A i \in 1..n : K[i] \in Handlers => TryBefore(K, i)
  <1>1. PICK S : S = {i \in Nat : i \in 1..n /\ K[i] \in Handlers => TryBefore(K, i)}
    OBVIOUS
  <1>2. 0 \in S
    BY <1>1
  <1>3. ASSUME NEW j \in Nat, j \in S PROVE j + 1 \in S
    <2> SUFFICES ASSUME j + 1 \in 1..n, K[j + 1] \in Handlers PROVE TryBefore(K, j + 1)
      BY <1>1
    <2>1. PICK i : i = j + 1
      OBVIOUS
    <2>2. i \in Nat /\ i > 1 /\ i - 1 = j /\ j \in 1..n /\ K[j] \in Tried
          /\ (K[i] # "finally" => K[j] # "catch")
      BY <2>1 DEF TryShape
    <2>3. CASE K[j] = "try"
      <3>1. j \in 1..(i - 1) /\ \A m \in (j + 1)..(i - 1) : FALSE
        BY <2>2
      <3> QED  BY <2>1, <2>3, <3>1 DEF TryBefore
    <2>4. CASE K[j] # "try"
      <3>1. K[j] \in Handlers /\ K[j] # "finally"
        BY <2>2, <2>4 DEF Handlers, Tried
      <3>2. PICK a \in 1..(j - 1) :
                /\ K[a] = "try"
                /\ \A m \in (a + 1)..(j - 1) :
                        K[m] = "typed_catch" \/ (K[m] = "catch" /\ m + 1 = j /\ K[j] = "finally")
        BY <1>1, <1>3, <2>2, <3>1 DEF TryBefore
      <3>3. a \in 1..(i - 1) /\ \A m \in (a + 1)..(i - 1) : m = j \/ m \in (a + 1)..(j - 1)
        BY <2>2, <3>2
      <3>4. K[j] = "typed_catch" \/ (K[j] = "catch" /\ j + 1 = i /\ K[i] = "finally")
        BY <2>1, <2>2, <2>4 DEF Tried
      <3>5. \A m \in (a + 1)..(i - 1) :
                K[m] = "typed_catch" \/ (K[m] = "catch" /\ m + 1 = i /\ K[i] = "finally")
        BY <3>1, <3>2, <3>3, <3>4
      <3> QED  BY <2>1, <3>2, <3>3, <3>5 DEF TryBefore
    <2> QED  BY <2>3, <2>4
  <1>4. Nat \subseteq S
    BY <1>2, <1>3, SetInduction
  <1> QED  BY <1>1, <1>4

\* Each of them is in a statement.
TryStatement(K, a, b) ==
    /\ K[a] = "try" /\ a < b
    /\ \A m \in (a + 1)..b :
        /\ K[m] = "finally" => m = b
        /\ K[m] = "catch" => m = b \/ (m + 1 = b /\ K[b] = "finally")
        /\ K[m] \in {"finally", "catch", "typed_catch"}

\* A try, catch or finally in such a list is in a whole statement.
LEMMA TryAround ==
    ASSUME NEW n \in Nat, NEW K, TryShape(n, K), NEW i \in 1..n, K[i] \in TryKinds
    PROVE  \E a \in 1..i, b \in i..n : TryStatement(K, a, b)
  <1>1. CASE K[i] = "try"
    <2>1. i + 1 <= n /\ K[i + 1] \in Handlers
      BY <1>1 DEF TryShape
    <2>2. i \in 1..i /\ i + 1 \in i..n /\ i < i + 1 /\ \A m \in (i + 1)..(i + 1) : m = i + 1
      BY <2>1
    <2> QED  BY <1>1, <2>1, <2>2 DEF TryStatement, Handlers
  <1>2. CASE K[i] # "try"
    <2>1. K[i] \in Handlers
      BY <1>2 DEF Handlers, TryKinds
    <2>2. PICK a \in 1..(i - 1) :
                /\ K[a] = "try"
                /\ \A m \in (a + 1)..(i - 1) :
                        K[m] = "typed_catch" \/ (K[m] = "catch" /\ m + 1 = i /\ K[i] = "finally")
      BY <2>1, TryBeforeAll DEF TryBefore
    <2>3. a \in 1..i /\ i \in i..n /\ a < i /\ \A m \in (a + 1)..i : m = i \/ m \in (a + 1)..(i - 1)
      BY <2>2
    <2>4. TryStatement(K, a, i)
      BY <2>1, <2>2, <2>3 DEF TryStatement, Handlers
    <2> QED  BY <2>3, <2>4
  <1> QED  BY <1>1, <1>2

\* When the calls are over a list nobody complained about has whole try statements.
LEMMA TryIsComplete ==
    ASSUME CallsInv, TryInv
    PROVE  TryComplete
  <1> SUFFICES ASSUME outcome = "done", NEW p \in Compiled PROVE
            LET siblings == {q \in Children(Owner(p), p[Len(p) - 1]) : Kind(q) \in TryKinds}
                at(i) == Kind(Sibling(p, i))
                statement(a, b) ==
                    /\ at(a) = "try" /\ a < b
                    /\ \A m \in {n \in (a + 1)..b : Sibling(p, n) \notin removed} :
                        CASE at(m) = "finally" -> m = b
                          [] at(m) = "catch" -> m = b \/ (m + 1 = b /\ at(b) = "finally")
                          [] OTHER -> at(m) = "typed_catch"
            IN  /\ p \in siblings
                /\ siblings \intersect (Reported("INVALID_TRY") \union Reported("NO_TRY")
                                        \union Reported("NOT_LAST_CATCH")) = {}
                => \E a \in 1..Last(p), b \in Last(p)..body[Owner(p)].sizes[p[Len(p) - 1]] :
                        statement(a, b)
    BY Zenon DEF TryComplete
  <1>1. body \in Bodies /\ stack = <<>>
    BY DEF CallsInv
  <1>2. PICK o, k : o = Owner(p) /\ k = List(p)
    OBVIOUS
  <1>3. p \in DOMAIN body \ {<<>>} /\ Live(p)
    BY <1>1, AllSeen
  <1>4. IsChild(p, o, k) /\ Live(o) /\ o \in DOMAIN body
    BY <1>1, <1>2, <1>3, ChildOf, LiveFacts, AroundFacts
  <1>5. PICK n : n = Sizes(o)[k]
    OBVIOUS
  <1>6. n \in Nat /\ k \in 1..Len(Sizes(o)) /\ Last(p) \in 1..n
    BY <1>1, <1>4, <1>5, ChildNumbers DEF IsChild
  <1>7. ASSUME NEW i \in 1..n
        PROVE  /\ Sibling(p, i) \in DOMAIN body \ {<<>>} /\ IsChild(Sibling(p, i), o, k)
               /\ Last(Sibling(p, i)) = i
               /\ Kind(Sibling(p, i)) = Given(Sibling(p, i))
               /\ Sibling(p, i) \in Children(o, k)
    <2>1. Sibling(p, i) = o \o <<k, i>>
      BY <1>4, <1>6 DEF IsChild
    <2>2. PICK c : c = o \o <<k, i>>
      OBVIOUS
    <2>3. c \in DOMAIN body \ {<<>>} /\ IsChild(c, o, k) /\ Last(c) = i
      BY <1>1, <1>4, <1>5, <1>6, <2>2, ChildIn
    <2>4. Kind(c) = Given(c)
      BY <1>1, <1>4, <2>3, AllSeen DEF IsChild
    <2>5. c \in Children(o, k)
      BY <1>1, <2>3, ChildNumbers
    <2> QED  BY <2>1, <2>2, <2>3, <2>4, <2>5
  <1>8. PICK siblings : siblings = {q \in Children(o, k) : Kind(q) \in TryKinds}
    OBVIOUS
  <1>9. PICK K : K = [i \in 1..n |-> Kind(Sibling(p, i))]
    OBVIOUS
  <1>10. \A i \in 1..n : K[i] = Kind(Sibling(p, i))
    BY <1>9
  <1>11. ASSUME p \in siblings,
                siblings \intersect (Reported("INVALID_TRY") \union Reported("NO_TRY")
                                     \union Reported("NOT_LAST_CATCH")) = {}
         PROVE  \E a \in 1..Last(p), b \in Last(p)..n : TryStatement(K, a, b)
    <2>1. ASSUME NEW i \in 1..n, K[i] \in TryKinds
          PROVE  /\ ~Blamed(Sibling(p, i), "INVALID_TRY", errors)
                 /\ ~Blamed(Sibling(p, i), "NO_TRY", errors)
                 /\ ~Blamed(Sibling(p, i), "NOT_LAST_CATCH", errors)
                 /\ Judged(Sibling(p, i), errors)
                 /\ body[Sibling(p, i)].kind = K[i]
      <3>1. Sibling(p, i) \in siblings
        BY <1>7, <1>8, <1>10, <2>1
      <3>2. /\ Sibling(p, i) \notin Reported("INVALID_TRY")
            /\ Sibling(p, i) \notin Reported("NO_TRY")
            /\ Sibling(p, i) \notin Reported("NOT_LAST_CATCH")
        BY <1>11, <3>1
      <3>3. \A q, what : Blamed(q, what, errors) => q \in Reported(what)
        BY DEF Blamed, Reported
      <3>4. Given(Sibling(p, i)) = K[i] /\ "unknown" \notin TryKinds
        BY <1>7, <1>10 DEF TryKinds
      <3>5. ~body[Sibling(p, i)].false /\ body[Sibling(p, i)].kind = K[i]
        BY <2>1, <3>4 DEF Given
      <3>6. Live(Sibling(p, i))
        BY <1>1, <1>4, <1>7, <3>5, LiveFacts DEF IsChild
      <3>7. Judged(Sibling(p, i), errors)
        BY <1>1, <1>7, <3>6, AllSeen DEF TryInv
      <3> QED  BY <3>2, <3>3, <3>5, <3>7
    <2>2. \A c : c \in Handlers => c \in TryKinds
      BY DEF Handlers, TryKinds
    <2>3. ASSUME NEW i \in 1..n, NEW j \in Nat
          PROVE  Sibling(Sibling(p, i), j) = Sibling(p, j)
      BY <1>4, <1>7 DEF IsChild
    <2>4. ASSUME NEW i \in 1..n
          PROVE  Sizes(Owner(Sibling(p, i)))[List(Sibling(p, i))] = n /\ Last(Sibling(p, i)) = i
      BY <1>5, <1>7 DEF IsChild
    <2>5. ASSUME NEW i \in 1..n, K[i] = "try" PROVE i + 1 <= n /\ K[i + 1] \in Handlers
      <3>1. JudgedTry(Sibling(p, i), errors) /\ ~Blamed(Sibling(p, i), "INVALID_TRY", errors)
        BY <2>1, <2>5 DEF Judged, TryKinds
      <3>2. ASSUME NEW j \in 1..n, Given(Sibling(Sibling(p, i), j)) \in Handlers,
                   Blamed(Sibling(Sibling(p, i), j), "NO_TRY", errors)
            PROVE  FALSE
        <4>1. Sibling(Sibling(p, i), j) = Sibling(p, j)
          BY <1>6, <2>3
        <4>2. K[j] \in TryKinds
          BY <1>7, <1>10, <2>2, <3>2, <4>1
        <4> QED  BY <2>1, <3>2, <4>1, <4>2
      <3>3. i + 1 <= n /\ Given(Sibling(Sibling(p, i), i + 1)) \in Handlers
        BY <2>4, <3>1, <3>2 DEF JudgedTry
      <3>4. i + 1 \in 1..n /\ i + 1 \in Nat
        BY <1>6, <3>3
      <3> QED  BY <1>7, <1>10, <2>3, <3>3, <3>4
    <2>6. ASSUME NEW i \in 1..n, K[i] \in Handlers
          PROVE  /\ i > 1 /\ K[i - 1] \in Tried
                 /\ K[i] # "finally" => K[i - 1] # "catch"
      <3>1. /\ JudgedHandler(Sibling(p, i), errors) /\ body[Sibling(p, i)].kind = K[i]
            /\ ~Blamed(Sibling(p, i), "NO_TRY", errors)
            /\ ~Blamed(Sibling(p, i), "NOT_LAST_CATCH", errors)
        BY <2>1, <2>2, <2>6 DEF Judged
      <3>2. i > 1 /\ Given(Sibling(Sibling(p, i), i - 1)) \in Tried
        BY <2>4, <3>1 DEF JudgedHandler
      <3>3. K[i] # "finally" => Given(Sibling(Sibling(p, i), i - 1)) # "catch"
        <4>1. i # 1
          BY <3>2
        <4> QED  BY <2>4, <3>1, <4>1 DEF JudgedHandler
      <3>4. i - 1 \in 1..n /\ i - 1 \in Nat
        BY <1>6, <3>2
      <3>5. Given(Sibling(Sibling(p, i), i - 1)) = K[i - 1]
        BY <1>7, <1>10, <2>3, <3>4
      <3> QED  BY <3>2, <3>3, <3>5
    <2>7. TryShape(n, K)
      BY <2>5, <2>6 DEF TryShape
    <2>8. K[Last(p)] \in TryKinds
      <3>1. Sibling(p, Last(p)) = p
        BY <1>4, <1>6 DEF IsChild
      <3> QED  BY <1>6, <1>8, <1>10, <1>11, <3>1
    <2> QED  BY <1>6, <2>7, <2>8, TryAround
  <1>12. ASSUME NEW a \in 1..Last(p), NEW b \in Last(p)..n, TryStatement(K, a, b)
         PROVE  /\ Kind(Sibling(p, a)) = "try" /\ a < b
                /\ \A m \in {x \in (a + 1)..b : Sibling(p, x) \notin removed} :
                        CASE Kind(Sibling(p, m)) = "finally" -> m = b
                          [] Kind(Sibling(p, m)) = "catch" ->
                                m = b \/ (m + 1 = b /\ Kind(Sibling(p, b)) = "finally")
                          [] OTHER -> Kind(Sibling(p, m)) = "typed_catch"
    <2>1. a \in 1..n /\ b \in 1..n /\ \A m \in (a + 1)..b : m \in 1..n
      BY <1>6
    <2>2. K[a] = Kind(Sibling(p, a)) /\ K[b] = Kind(Sibling(p, b))
      BY <1>10, <2>1
    <2> SUFFICES ASSUME NEW m \in (a + 1)..b
                 PROVE  CASE Kind(Sibling(p, m)) = "finally" -> m = b
                          [] Kind(Sibling(p, m)) = "catch" ->
                                m = b \/ (m + 1 = b /\ Kind(Sibling(p, b)) = "finally")
                          [] OTHER -> Kind(Sibling(p, m)) = "typed_catch"
      BY <1>12, <2>2 DEF TryStatement
    <2>3. K[m] = Kind(Sibling(p, m))
      BY <1>10, <2>1
    <2>4. /\ K[m] = "finally" => m = b
          /\ K[m] = "catch" => m = b \/ (m + 1 = b /\ K[b] = "finally")
          /\ K[m] \in {"finally", "catch", "typed_catch"}
      BY <1>12 DEF TryStatement
    <2> QED  BY <2>2, <2>3, <2>4
  <1>13. Owner(p) = o /\ p[Len(p) - 1] = k /\ body[Owner(p)].sizes[p[Len(p) - 1]] = n
    BY <1>2, <1>5 DEF List, Sizes
  <1> QED  BY <1>8, <1>11, <1>12, <1>13

\* The try, catch and finally that no error names are in a statement: a try, typed catches, at most one
\* other catch and at most one finally, one of them at least; for every program, whatever optimize()
\* removed between them.
THEOREM TryIsCompleteAlways == Spec => []TryComplete
  <1>1. CallsInv /\ TryInv => TryComplete
    BY TryIsComplete
  <1> QED  BY <1>1, CallsInvariant, TryInvariant, PTL
=============================================================================
