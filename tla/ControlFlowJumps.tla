-------------------------- MODULE ControlFlowJumps --------------------------
(***************************************************************************)
(* Proofs about the jumps of ControlFlow, for every set of programs and    *)
(* functions: where a break, a continue or a goto leads, and what no       *)
(* execution reaches.  The walk of break_continue() is a recursive         *)
(* function, whose equation comes from RecursionExists; the first label of *)
(* a name exists because the labels are finitely many and ordered;         *)
(* Executable is a closure, and stays in any set that its steps keep.      *)
(* Last, what compiling a program again reports: what the first time did.  *)
(***************************************************************************)
EXTENDS ControlFlowProofs, FiniteSetTheorems

-----------------------------------------------------------------------------
(* Routines, labels and what a break or continue may mean.                 *)

\* The innermost of directives around p.
LEMMA LongestFacts ==
    ASSUME body \in Bodies, NEW p \in DOMAIN body, NEW S, S \subseteq Around(p), S # {}
    PROVE  Longest(S) \in S /\ \A q \in S : Len(q) <= Len(Longest(S))
  <1>1. PICK n : n = Len(p)
    OBVIOUS
  <1>2. n \in Nat /\ \A q \in Around(p) : Len(q) \in Nat /\ Len(q) <= n
    BY <1>1, AroundLengths DEF Around
  <1>3. PICK D : D = {Len(q) + 1 : q \in S}
    OBVIOUS
  <1>4. D \subseteq 1..(n + 1) /\ D # {}
    BY <1>2, <1>3
  <1>5. PICK m : m \in D /\ \A y \in D : m >= y
    <2>1. n + 1 \in Nat
      BY <1>2
    <2> QED  BY <1>4, <2>1, Extremes
  <1>6. PICK x \in S : m = Len(x) + 1
    BY <1>3, <1>5
  <1>7. \A q \in S : Len(q) <= Len(x)
    BY <1>2, <1>3, <1>5, <1>6
  <1> QED  BY <1>6, <1>7 DEF Longest

RoutineKinds == FunctionKinds \union {"program"}

\* The function or program in which p is: the innermost around it.
LEMMA RoutineFacts ==
    ASSUME body \in Bodies, NEW p \in DOMAIN body \ {<<>>}
    PROVE  /\ Routine(p) \in Enclosing(p) /\ body[Routine(p)].kind \in RoutineKinds
           /\ \A x \in Enclosing(p) : body[x].kind \in RoutineKinds => Len(x) <= Len(Routine(p))
  <1>1. PICK S : S = {q \in Enclosing(p) : body[q].kind \in RoutineKinds}
    OBVIOUS
  <1>2. <<>> \in S
    BY <1>1, BodyFacts, AroundFacts DEF RoutineKinds
  <1>3. S \subseteq Around(p)
    BY <1>1 DEF Around
  <1>4. Longest(S) \in S /\ \A q \in S : Len(q) <= Len(Longest(S))
    BY <1>2, <1>3, LongestFacts
  <1>5. Routine(p) = Longest(S)
    BY <1>1 DEF Routine, Innermost, RoutineKinds
  <1> QED  BY <1>1, <1>4, <1>5

\* No function is around p without being around q too.
NoFunction(p, q) == \A x \in Enclosing(p) : q \in Around(x) => body[x].kind \notin FunctionKinds

\* A directive is in the same function as one around it when no function is between them.
LEMMA SameRoutine ==
    ASSUME body \in Bodies, NEW p \in DOMAIN body \ {<<>>}, NEW q \in Enclosing(p), q # <<>>
    PROVE  Routine(q) = Routine(p) <=> NoFunction(p, q)
  <1>1. /\ q \in DOMAIN body \ {<<>>} /\ Around(q) \subseteq Around(p) /\ p \in DOMAIN body
        /\ q \in Around(p) /\ Around(p) \subseteq DOMAIN body /\ Around(q) \subseteq DOMAIN body
    BY AroundFacts
  <1>2. /\ Routine(p) \in Enclosing(p) /\ body[Routine(p)].kind \in RoutineKinds
        /\ \A x \in Enclosing(p) : body[x].kind \in RoutineKinds => Len(x) <= Len(Routine(p))
    BY RoutineFacts
  <1>3. /\ Routine(q) \in Enclosing(q) /\ body[Routine(q)].kind \in RoutineKinds
        /\ \A x \in Enclosing(q) : body[x].kind \in RoutineKinds => Len(x) <= Len(Routine(q))
    BY <1>1, RoutineFacts
  <1>4. Enclosing(q) \subseteq Enclosing(p)
    <2>1. q \in Around(Owner(p)) /\ Owner(p) \in DOMAIN body /\ Enclosing(p) = Around(Owner(p))
      BY AroundFacts
    <2>2. Around(q) \subseteq Around(Owner(p))
      BY <2>1, AroundFacts
    <2> QED  BY <2>1, <2>2 DEF Around
  <1>5. /\ \A x \in Enclosing(p) : x \in Around(p) /\ Len(x) \in Nat
        /\ \A x, y \in Around(p) : Len(x) = Len(y) => x = y
        /\ \A x, y \in Around(p) : x \in Around(y) \/ y \in Around(x)
        /\ \A x \in Enclosing(q) : Len(x) < Len(q)
        /\ \A x \in Enclosing(p) : \A y \in Enclosing(x) : Len(y) < Len(x)
        /\ Len(q) \in Nat
    BY <1>1, AroundLengths, AroundFacts
  <1>6. ASSUME Routine(q) = Routine(p), NEW x \in Enclosing(p), q \in Around(x),
               body[x].kind \in FunctionKinds
        PROVE  FALSE
    <2>1. Len(x) <= Len(Routine(q)) /\ Len(Routine(q)) < Len(q) /\ Routine(q) \in Enclosing(p)
      BY <1>2, <1>3, <1>4, <1>5, <1>6 DEF RoutineKinds
    <2>2. Len(q) <= Len(x)
      BY <1>5, <1>6 DEF Around
    <2> QED  BY <1>5, <1>6, <2>1, <2>2
  <1>7. ASSUME NoFunction(p, q) PROVE Routine(q) = Routine(p)
    <2>1. Routine(p) \in Enclosing(q)
      <3>1. CASE Routine(p) = <<>>
        BY <1>1, <3>1, AroundFacts DEF Around
      <3>2. CASE Routine(p) # <<>>
        <4>1. Routine(p) \in DOMAIN body \ {<<>>}
          BY <1>2, <3>2 DEF Enclosing
        <4>2. body[Routine(p)].kind \in FunctionKinds
          <5>1. body[Routine(p)].kind \in Leaves \union Compounds
            BY <4>1, BodyFacts
          <5>2. "program" \notin Leaves \union Compounds
            BY DEF Leaves, Compounds, FunctionKinds, LoopKinds
          <5> QED  BY <1>2, <5>1, <5>2 DEF RoutineKinds
        <4>3. q \notin Around(Routine(p))
          BY <1>2, <1>7, <4>2 DEF NoFunction
        <4>4. Routine(p) \in Around(q) /\ Routine(p) # q
          <5>1. Routine(p) \in Around(Routine(p))
            BY DEF Around
          <5> QED  BY <1>1, <1>2, <1>5, <4>3, <5>1
        <4> QED  BY <4>4 DEF Around
      <3> QED  BY <3>1, <3>2
    <2>2. Len(Routine(p)) <= Len(Routine(q)) /\ Len(Routine(q)) <= Len(Routine(p))
      BY <1>2, <1>3, <1>4, <2>1
    <2>3. Routine(q) \in Enclosing(p)
      BY <1>3, <1>4
    <2> QED  BY <1>2, <1>5, <2>2, <2>3
  <1> QED  BY <1>6, <1>7 DEF NoFunction

\* What Before() finds.
LEMMA BeforeFacts ==
    ASSUME body \in Bodies, NEW q \in DOMAIN body \ {<<>>}
    PROVE  /\ Last(q) \in Nat \ {0}
           /\ \A j \in 1..(Last(q) - 1) : /\ Sibling(q, j) \in DOMAIN body \ {<<>>}
                                          /\ Last(Sibling(q, j)) = j
                                          /\ Front(Sibling(q, j)) = Front(q)
                                          /\ Owner(Sibling(q, j)) = Owner(q)
           /\ \A l \in DOMAIN body : Front(l) = Front(q) =>
                 l # <<>> /\ Last(l) \in Nat \ {0} /\ l = Sibling(q, Last(l))
           /\ \/ Before(q) = <<>> /\ \A m \in 1..(Last(q) - 1) : Sibling(q, m) \in removed
              \/ \E j \in 1..(Last(q) - 1) :
                    /\ Before(q) = Sibling(q, j) /\ Sibling(q, j) \notin removed
                    /\ \A m \in (j + 1)..(Last(q) - 1) : Sibling(q, m) \in removed
  <1>1. PICK o, k, i, n : o = Owner(q) /\ k = List(q) /\ i = Last(q) /\ n = Sizes(Owner(q))[List(q)]
    OBVIOUS
  <1>2. IsChild(q, o, k)
    BY <1>1, ChildOf
  <1>3. i \in Nat \ {0} /\ i <= n /\ n \in Nat
    BY <1>1, <1>2, ChildNumbers
  <1>4. o \in DOMAIN body /\ k \in 1..Len(Sizes(o)) /\ n = Sizes(o)[k]
        /\ \A j \in Nat : Sibling(q, j) = o \o <<k, j>>
    BY <1>1, <1>2 DEF IsChild
  <1>5. ASSUME NEW j \in 1..(i - 1)
        PROVE  /\ Sibling(q, j) \in DOMAIN body \ {<<>>}
               /\ Last(Sibling(q, j)) = j
               /\ Front(Sibling(q, j)) = Front(q)
               /\ Owner(Sibling(q, j)) = Owner(q)
    <2>1. j \in 1..n /\ j \in Nat
      BY <1>3
    <2>2. PICK c : c = o \o <<k, j>>
      OBVIOUS
    <2>3. c \in DOMAIN body \ {<<>>} /\ IsChild(c, o, k) /\ Last(c) = j
      BY <1>4, <2>1, <2>2, ChildIn
    <2>4. Front(c) = Front(q)
      BY <1>2, <2>3, SiblingPlaces
    <2>5. Owner(c) = Owner(q)
      BY <1>1, <2>3 DEF IsChild
    <2> QED  BY <1>4, <2>1, <2>2, <2>3, <2>4, <2>5
  <1>6. ASSUME NEW l \in DOMAIN body, Front(l) = Front(q)
        PROVE  l # <<>> /\ Last(l) \in Nat \ {0} /\ l = Sibling(q, Last(l))
    <2>1. Len(q) \in Nat /\ Len(q) >= 2 /\ Len(Front(q)) = Len(q) - 1
      BY <1>2, SiblingPlaces
    <2>2. l # <<>>
      <3>1. Front(<<>>) = <<>>
        BY DEF Front
      <3> QED  BY <1>6, <2>1, <3>1
    <2>3. IsChild(l, Owner(l), List(l))
      BY <2>2, ChildOf
    <2>4. Last(l) \in Nat \ {0}
      BY <2>3, ChildNumbers
    <2>5. l = Sibling(l, Last(l))
      BY <2>3 DEF IsChild
    <2>6. Sibling(l, Last(l)) = Sibling(q, Last(l))
      BY <1>6 DEF Sibling
    <2> QED  BY <2>2, <2>4, <2>5, <2>6
  <1>8. PICK E : E = {m \in 1..(i - 1) : Sibling(q, m) \notin removed}
    OBVIOUS
  <1>9. Before(q) = IF E # {} THEN Sibling(q, Max(E)) ELSE <<>>
    BY <1>1, <1>8 DEF Before
  <1>10. CASE E = {}
    BY <1>1, <1>3, <1>5, <1>6, <1>8, <1>9, <1>10
  <1>11. CASE E # {}
    <2>1. i - 1 \in Nat /\ E \subseteq 1..(i - 1)
      BY <1>3, <1>8
    <2>2. PICK x : x = Max(E)
      OBVIOUS
    <2>3. x \in E /\ \A y \in E : x >= y
      BY <1>11, <2>1, <2>2, Extremes
    <2>4. x \in 1..(i - 1) /\ Sibling(q, x) \notin removed
      BY <1>8, <2>3
    <2>5. \A m \in (x + 1)..(i - 1) : Sibling(q, m) \in removed
      <3> TAKE m \in (x + 1)..(i - 1)
      <3>1. m \in 1..(i - 1) /\ ~(x >= m)
        BY <2>1, <2>4
      <3> QED  BY <1>8, <2>3, <3>1
    <2> QED  BY <1>1, <1>3, <1>5, <1>6, <1>9, <1>11, <2>2, <2>4, <2>5
  <1> QED  BY <1>10, <1>11

\* A directive with a label in front of it, those of gone left out.
LabelledIn(q, name, gone) ==
    \E l \in DOMAIN body :
        /\ Front(l) = Front(q) /\ Last(l) < Last(q)
        /\ \A i \in (Last(l) + 1)..(Last(q) - 1) : Sibling(q, i) \in gone
        /\ body[l].kind = "label" /\ Name(l) = name

\* The labels are not marked false.
NoneHidden == unknown \subseteq {p \in DOMAIN body \ {<<>>} : body[p].false} /\ removed \subseteq unknown

\* Labels and jumps are never unknown.
LEMMA PlainKinds ==
    ASSUME body \in Bodies, NoneHidden
    PROVE  \A p \in DOMAIN body : \A kind \in {"label", "goto", "break", "continue"} :
              /\ Kind(p) = kind <=> body[p].kind = kind
              /\ body[p].kind = kind => ~body[p].false /\ p \notin unknown /\ p # <<>>
  <1> SUFFICES ASSUME NEW p \in DOMAIN body, NEW kind \in {"label", "goto", "break", "continue"}
               PROVE  /\ Kind(p) = kind <=> body[p].kind = kind
                      /\ body[p].kind = kind => ~body[p].false /\ p \notin unknown /\ p # <<>>
    OBVIOUS
  <1>1. kind \notin Annotated /\ kind \notin RoutineKinds /\ kind # "unknown"
    BY DEF Annotated, RoutineKinds, FunctionKinds
  <1>2. body[p].kind = kind => ~body[p].false /\ p \notin unknown /\ p # <<>>
    BY <1>1, BodyFacts DEF NoneHidden, RoutineKinds
  <1> QED  BY <1>1, <1>2 DEF Kind

\* The label in front of a directive, when what was removed is left out.
LEMMA LabelledFacts ==
    ASSUME body \in Bodies, NoneHidden, NEW q \in DOMAIN body \ {<<>>}, NEW name
    PROVE  Labelled(q, name) <=> LabelledIn(q, name, removed)
  <1>1. /\ Last(q) \in Nat \ {0}
        /\ \A j \in 1..(Last(q) - 1) : /\ Sibling(q, j) \in DOMAIN body \ {<<>>}
                                       /\ Last(Sibling(q, j)) = j
                                       /\ Front(Sibling(q, j)) = Front(q)
        /\ \A l \in DOMAIN body : Front(l) = Front(q) =>
              l # <<>> /\ Last(l) \in Nat \ {0} /\ l = Sibling(q, Last(l))
        /\ \/ Before(q) = <<>> /\ \A m \in 1..(Last(q) - 1) : Sibling(q, m) \in removed
           \/ \E j \in 1..(Last(q) - 1) :
                 /\ Before(q) = Sibling(q, j) /\ Sibling(q, j) \notin removed
                 /\ \A m \in (j + 1)..(Last(q) - 1) : Sibling(q, m) \in removed
    BY BeforeFacts
  <1>2. ASSUME Labelled(q, name) PROVE LabelledIn(q, name, removed)
    <2>1. PICK j \in 1..(Last(q) - 1) :
                 /\ Before(q) = Sibling(q, j) /\ Sibling(q, j) \notin removed
                 /\ \A m \in (j + 1)..(Last(q) - 1) : Sibling(q, m) \in removed
      BY <1>1, <1>2 DEF Labelled
    <2>2. PICK l : l = Sibling(q, j)
      OBVIOUS
    <2>3. l \in DOMAIN body /\ Last(l) = j /\ Front(l) = Front(q) /\ j < Last(q)
      BY <1>1, <2>1, <2>2
    <2>4. body[l].kind = "label" /\ Name(l) = name
      BY <1>2, <2>1, <2>2, <2>3, PlainKinds DEF Labelled
    <2> QED  BY <2>1, <2>3, <2>4 DEF LabelledIn
  <1>3. ASSUME LabelledIn(q, name, removed) PROVE Labelled(q, name)
    <2>1. PICK l \in DOMAIN body :
                /\ Front(l) = Front(q) /\ Last(l) < Last(q)
                /\ \A i \in (Last(l) + 1)..(Last(q) - 1) : Sibling(q, i) \in removed
                /\ body[l].kind = "label" /\ Name(l) = name
      BY <1>3 DEF LabelledIn
    <2>2. l # <<>> /\ Last(l) \in Nat \ {0} /\ l = Sibling(q, Last(l))
          /\ Last(l) \in 1..(Last(q) - 1)
      BY <1>1, <2>1
    <2>3. Kind(l) = "label" /\ l \notin removed
      BY <2>1, PlainKinds DEF NoneHidden
    <2>4. PICK j \in 1..(Last(q) - 1) :
                 /\ Before(q) = Sibling(q, j) /\ Sibling(q, j) \notin removed
                 /\ \A m \in (j + 1)..(Last(q) - 1) : Sibling(q, m) \in removed
      BY <1>1, <2>2, <2>3
    <2>5. j = Last(l)
      <3>1. j < Last(l) => Last(l) \in (j + 1)..(Last(q) - 1)
        BY <2>2, <2>4
      <3>2. Last(l) < j => j \in (Last(l) + 1)..(Last(q) - 1)
        BY <2>2, <2>4
      <3> QED  BY <2>1, <2>2, <2>3, <2>4, <3>1, <3>2
    <2>6. Before(q) = l
      BY <2>2, <2>4, <2>5
    <2> QED  BY <2>1, <2>2, <2>3, <2>6 DEF Labelled
  <1> QED  BY <1>2, <1>3

\* The directives p may mean, when those of gone are left out.
Suits(p, q, gone) ==
    /\ body[q].kind \in LoopKinds \/ (body[q].kind = "switch" /\ (body[p].kind = "break" \/ Name(p) # NoName))
    /\ Name(p) # NoName => LabelledIn(q, Name(p), gone)

MeantIn(p, gone) == {q \in Enclosing(p) : Suits(p, q, gone) /\ Routine(q) = Routine(p)}

\* What a break or continue may mean is fixed by the body and what was removed.
LEMMA MeantIs ==
    ASSUME body \in Bodies, NoneHidden, NEW p \in DOMAIN body, body[p].kind \in JumpKinds
    PROVE  Meant(p) = MeantIn(p, removed)
  <1>1. Kind(p) = "break" <=> body[p].kind = "break"
    BY PlainKinds
  <1>2. \A l \in DOMAIN body : Kind(l) = "label" <=> body[l].kind = "label"
    BY PlainKinds
  <1>3. ASSUME NEW q
        PROVE  (Name(p) # NoName =>
                    \E l \in DOMAIN body :
                        /\ Front(l) = Front(q) /\ Last(l) < Last(q)
                        /\ \A i \in (Last(l) + 1)..(Last(q) - 1) : Sibling(q, i) \in removed
                        /\ Kind(l) = "label" /\ Name(l) = Name(p))
               <=> (Name(p) # NoName => LabelledIn(q, Name(p), removed))
    BY <1>2, Zenon DEF LabelledIn
  <1> QED  BY <1>1, <1>3, Zenon DEF Meant, MeantIn, Suits

\* Around(o) without the directives out of the function, o among them.
Reach(o) ==
    {q \in Around(o) \ {<<>>} : \A x \in Around(o) : q \in Around(x) => body[x].kind \notin FunctionKinds}

\* The directives a walk can reach, one step at a time.
LEMMA ReachFacts ==
    ASSUME body \in Bodies
    PROVE  /\ Reach(<<>>) = {}
           /\ \A o \in DOMAIN body \ {<<>>} :
                Reach(o) = IF body[o].kind \in FunctionKinds THEN {} ELSE Reach(Owner(o)) \union {o}
           /\ \A p \in DOMAIN body \ {<<>>} : \A gone :
                MeantIn(p, gone) = {q \in Reach(Owner(p)) : Suits(p, q, gone)}
  <1>1. Reach(<<>>) = {}
    BY AroundFacts DEF Reach
  <1>2. ASSUME NEW o \in DOMAIN body \ {<<>>}
        PROVE  Reach(o) = IF body[o].kind \in FunctionKinds THEN {} ELSE Reach(Owner(o)) \union {o}
    <2>1. Around(o) = Around(Owner(o)) \union {o} /\ Owner(o) \in DOMAIN body
      BY AroundFacts
    <2>2. \A q \in Around(o) : q \in Around(o)
      OBVIOUS
    <2>3. ASSUME body[o].kind \in FunctionKinds PROVE Reach(o) = {}
      BY <2>1, <2>3 DEF Reach
    <2>4. o \notin Around(Owner(o))
      <3>1. Enclosing(o) = Around(Owner(o)) /\ o \notin Enclosing(o)
        BY AroundFacts, AroundLengths
      <3> QED  BY <3>1
    <2>5. \A x \in Around(Owner(o)) : o \notin Around(x)
      <3> SUFFICES ASSUME NEW x \in Around(Owner(o)), o \in Around(x) PROVE FALSE
        OBVIOUS
      <3>1. Around(x) \subseteq Around(Owner(o))
        BY <2>1, AroundFacts
      <3> QED  BY <2>4, <3>1
    <2>6. ASSUME body[o].kind \notin FunctionKinds, NEW q
          PROVE  q \in Reach(o) <=> q \in Reach(Owner(o)) \/ q = o
      BY <2>1, <2>5, <2>6 DEF Reach
    <2> QED  BY <2>3, <2>6
  <1>3. ASSUME NEW p \in DOMAIN body \ {<<>>}, NEW gone
        PROVE  MeantIn(p, gone) = {q \in Reach(Owner(p)) : Suits(p, q, gone)}
    <2>1. Enclosing(p) = Around(Owner(p))
      BY AroundFacts
    <2>2. ASSUME NEW q \in Enclosing(p), q # <<>>
          PROVE  Routine(q) = Routine(p) <=> q \in Reach(Owner(p))
      <3>1. Routine(q) = Routine(p) <=> NoFunction(p, q)
        BY <2>2, SameRoutine
      <3> QED  BY <2>1, <2>2, <3>1 DEF NoFunction, Reach
    <2>3. ~Suits(p, <<>>, gone)
      <3>1. body[<<>>].kind \in FunctionKinds \union {"program"}
        BY BodyFacts
      <3>2. body[<<>>].kind \notin LoopKinds /\ body[<<>>].kind # "switch"
        BY <3>1 DEF FunctionKinds, LoopKinds
      <3> QED  BY <3>2 DEF Suits
    <2>4. \A q \in Reach(Owner(p)) : q \in Enclosing(p) /\ q # <<>>
      BY <2>1 DEF Reach
    <2> QED  BY <2>2, <2>3, <2>4 DEF MeantIn
  <1> QED  BY <1>1, <1>2, <1>3

\* What the walk finds from o up.
Found(p, o, r) ==
    IF \E q \in Reach(o) : Suits(p, q, removed)
    THEN /\ r \in Reach(o) /\ Suits(p, r, removed)
         /\ \A q \in Reach(o) : Suits(p, q, removed) => Len(q) <= Len(r)
    ELSE r = <<>>

\* break_continue() accepts the directives that may be meant.
LEMMA SuitsFacts ==
    ASSUME body \in Bodies, NoneHidden, NEW p \in DOMAIN body, body[p].kind \in JumpKinds,
           NEW q \in DOMAIN body \ {<<>>}
    PROVE  Accepted(p, q) /\ (Name(p) = NoName \/ Labelled(q, Name(p))) <=> Suits(p, q, removed)
  <1>1. Kind(p) = "break" <=> body[p].kind = "break"
    BY PlainKinds
  <1>2. Labelled(q, Name(p)) <=> LabelledIn(q, Name(p), removed)
    BY LabelledFacts
  <1> QED  BY <1>1, <1>2, Zenon DEF Suits, Accepted, AcceptSwitch

\* The walk of break_continue(), a recursive function, step by step.
LEMMA WalkEquation ==
    ASSUME body \in Bodies, NEW p \in DOMAIN body \ {<<>>}
    PROVE  \E walk :
              /\ BreakTarget(p) = walk[Len(p) - 2]
              /\ \A n \in 0..Len(p) :
                    walk[n] = IF n < 2 \/ body[SubSeq(p, 1, n)].kind \in FunctionKinds THEN <<>>
                              ELSE IF /\ Accepted(p, SubSeq(p, 1, n))
                                      /\ Name(p) = NoName \/ Labelled(SubSeq(p, 1, n), Name(p))
                                   THEN SubSeq(p, 1, n)
                              ELSE walk[n - 2]
  <1> DEFINE N == Len(p)
             D == 0..Len(p)
             V == Paths
             value(n, f) ==
                LET q == SubSeq(p, 1, n)
                IN  IF n < 2 \/ body[q].kind \in FunctionKinds THEN <<>>
                    ELSE IF Accepted(p, q) /\ (Name(p) = NoName \/ Labelled(q, Name(p))) THEN q
                    ELSE f[n - 2]
             E(f) == [n \in D |-> value(n, f)]
             walk == CHOOSE f : f = E(f)
             rank == [n \in D |-> n]
             step == [n \in D |-> [f \in [D -> V] |-> value(n, f)]]
  <1>1. p \in Paths /\ N \in Nat
    BY BodyFacts, PrefixPlaces
  <1>2. \A n \in D : n \in Nat /\ n <= N /\ (~(n < 2) => n - 2 \in D /\ n - 2 < n)
    BY <1>1
  <1>3. \A n \in D : SubSeq(p, 1, n) \in V
    BY <1>1, <1>2, SubSeqEqual
  <1>4. <<>> \in V
    BY DEF Paths
  <1>5. \A n \in D, f \in [D -> V] : value(n, f) \in V
    <2> HIDE DEF V
    <2> TAKE n \in D, f \in [D -> V]
    <2>1. ~(n < 2) => f[n - 2] \in V
      BY <1>2
    <2> QED  BY <1>3, <1>4, <2>1
  <1>6. \A n \in D : \A g, h \in [D -> V] :
            (\A j \in D : rank[j] < rank[n] => g[j] = h[j]) => value(n, g) = value(n, h)
    <2> SUFFICES ASSUME NEW n \in D, NEW g \in [D -> V], NEW h \in [D -> V],
                        \A j \in D : rank[j] < rank[n] => g[j] = h[j]
                 PROVE  value(n, g) = value(n, h)
      <3> HIDE DEF value, D, rank, V
      <3> QED  OBVIOUS
    <2>1. ~(n < 2) => g[n - 2] = h[n - 2]
      BY <1>2
    <2> QED  BY <2>1, Zenon
  <1>7. \A n \in D, f \in [D -> V] : step[n][f] = value(n, f)
    <2> HIDE DEF value, D, V
    <2> QED  OBVIOUS
  <1>8. step \in [D -> [[D -> V] -> V]]
    <2> HIDE DEF value, D, V
    <2> QED  BY <1>5
  <1>9. FromLower(D, [D -> V], rank, step)
    <2> HIDE DEF value, D, V, rank, step
    <2> QED  BY <1>6, <1>7 DEF FromLower
  <1>10. \E f \in [D -> V] : Solves(f, D, step)
    <2>1. rank \in [D -> Nat] /\ \A n \in D : rank[n] <= N
      BY <1>2
    <2> HIDE DEF value, D, V, rank, step, N
    <2> QED  BY <1>1, <1>4, <1>8, <1>9, <2>1, RecursionExists
  <1>11. walk = E(walk)
    <2> HIDE DEF value, D, V, step
    <2>1. PICK f \in [D -> V] : \A n \in D : f[n] = value(n, f)
      BY <1>7, <1>10 DEF Solves
    <2>2. f = E(f)
      BY <2>1
    <2> HIDE DEF E
    <2> QED  BY <2>2
  <1>12. BreakTarget(p) = walk[Len(p) - 2]
    BY Zenon DEF BreakTarget
  <1>13. \A n \in D : walk[n] = value(n, walk)
    <2> HIDE DEF walk, value, D
    <2> QED  BY <1>11
  <1> HIDE DEF walk
  <1> QED  BY <1>12, <1>13, Zenon

\* The walk finds the innermost of them: by induction on the tree.
LEMMA WalkFinds ==
    ASSUME body \in Bodies, NoneHidden, NEW p \in DOMAIN body \ {<<>>}, body[p].kind \in JumpKinds
    PROVE  Found(p, Owner(p), BreakTarget(p))
  <1>1. PICK walk :
              /\ BreakTarget(p) = walk[Len(p) - 2]
              /\ \A n \in 0..Len(p) :
                    walk[n] = IF n < 2 \/ body[SubSeq(p, 1, n)].kind \in FunctionKinds THEN <<>>
                              ELSE IF /\ Accepted(p, SubSeq(p, 1, n))
                                      /\ Name(p) = NoName \/ Labelled(SubSeq(p, 1, n), Name(p))
                                   THEN SubSeq(p, 1, n)
                              ELSE walk[n - 2]
    BY WalkEquation
  <1>2. /\ Enclosing(p) = Around(Owner(p)) /\ Owner(p) \in DOMAIN body
        /\ Around(Owner(p)) \subseteq DOMAIN body
        /\ \A o \in DOMAIN body \ {<<>>} :
              Around(o) = Around(Owner(o)) \union {o} /\ Owner(o) \in Around(o)
    BY AroundFacts
  <1>3. p \in Paths /\ Len(p) \in Nat
    BY BodyFacts, PrefixPlaces
  <1>4. \A o \in Enclosing(p) : Len(o) \in 0..Len(p) /\ SubSeq(p, 1, Len(o)) = o
    <2> TAKE o \in Enclosing(p)
    <2>1. IsPrefix(o, p) /\ o \in Paths
      BY BodyFacts DEF Enclosing, IsStrictPrefix
    <2>2. Len(o) \in Nat /\ Len(o) <= Len(p) /\ \A i \in 1..Len(o) : o[i] = p[i]
      BY <1>3, <2>1, PrefixPlaces
    <2>3. SubSeq(o, 1, Len(o)) = SubSeq(p, 1, Len(o))
      BY DEF Enclosing, IsStrictPrefix, IsPrefix
    <2>4. SubSeq(o, 1, Len(o)) = o
      <3>1. PICK x, n : x = SubSeq(o, 1, Len(o)) /\ n = Len(o)
        OBVIOUS
      <3>2. x \in Paths /\ Len(x) = n /\ \A i \in 1..n : x[i] = o[i]
        BY <2>1, <2>2, <3>1, SubSeqEqual
      <3>3. x = o
        BY <2>1, <3>1, <3>2, SeqEqual DEF Paths
      <3> QED  BY <3>1, <3>3
    <2> QED  BY <2>2, <2>3, <2>4
  <1>5. PICK S : S = {o \in DOMAIN body : o \in Enclosing(p) => Found(p, o, walk[Len(o)])}
    OBVIOUS
  <1>6. <<>> \in S
    <2>1. <<>> \in DOMAIN body /\ <<>> \in Enclosing(p) /\ Len(<<>>) = 0 /\ 0 \in 0..Len(p)
      BY <1>2, <1>3, BodyFacts, AroundFacts
    <2>2. walk[0] = <<>>
      BY <1>1, <2>1
    <2> QED  BY <1>5, <2>1, <2>2, ReachFacts DEF Found
  <1>7. ASSUME NEW o \in DOMAIN body \ {<<>>}, Owner(o) \in S PROVE o \in S
    <2> SUFFICES ASSUME o \in Enclosing(p) PROVE Found(p, o, walk[Len(o)])
      BY <1>5
    <2>1. PICK b, n, m : b = Owner(o) /\ n = Len(o) /\ m = Len(b)
      OBVIOUS
    <2>2. n \in 0..Len(p) /\ SubSeq(p, 1, n) = o
      BY <1>4, <2>1
    <2>3. m = n - 2 /\ m \in Nat /\ n \in Nat /\ ~(n < 2)
      <3>1. IsChild(o, b, List(o))
        BY <2>1, ChildOf
      <3>2. Len(o) = Len(b) + 2 /\ b \in Paths
        BY <3>1, BodyFacts DEF IsChild
      <3>3. Len(b) \in Nat
        BY <3>2, PrefixPlaces
      <3> QED  BY <2>1, <3>2, <3>3
    <2>4. b \in Enclosing(p)
      <3>1. b \in Around(o) /\ Around(o) \subseteq Around(Owner(p))
        BY <1>2, <2>1, AroundFacts
      <3> QED  BY <1>2, <3>1
    <2>5. Found(p, b, walk[m])
      BY <1>5, <1>7, <2>1, <2>4
    <2>6. walk[n] = IF body[o].kind \in FunctionKinds THEN <<>>
                    ELSE IF Suits(p, o, removed) THEN o ELSE walk[m]
      <3>1. Accepted(p, o) /\ (Name(p) = NoName \/ Labelled(o, Name(p))) <=> Suits(p, o, removed)
        BY SuitsFacts
      <3> QED  BY <1>1, <2>2, <2>3, <3>1
    <2>7. Reach(o) = IF body[o].kind \in FunctionKinds THEN {} ELSE Reach(b) \union {o}
      BY <2>1, ReachFacts
    <2>8. \A q \in Reach(b) : Len(q) \in Nat /\ Len(q) <= n
      <3>1. \A q \in Around(o) : Len(q) <= n /\ Len(q) \in Nat
        BY <2>1, <2>3, AroundLengths DEF Around
      <3>2. Reach(b) \subseteq Around(o)
        BY <1>2, <2>1 DEF Reach
      <3> QED  BY <3>1, <3>2
    <2>9. CASE body[o].kind \in FunctionKinds
      BY <2>1, <2>6, <2>7, <2>9 DEF Found
    <2>10. CASE body[o].kind \notin FunctionKinds /\ Suits(p, o, removed)
      <3>1. walk[n] = o /\ o \in Reach(o) /\ Len(o) = n
        BY <2>1, <2>6, <2>7, <2>10
      <3>2. \A q \in Reach(o) : Len(q) <= Len(o)
        BY <2>3, <2>7, <2>8, <2>10, <3>1
      <3> QED  BY <2>1, <2>10, <3>1, <3>2 DEF Found
    <2>11. CASE body[o].kind \notin FunctionKinds /\ ~Suits(p, o, removed)
      <3>1. walk[n] = walk[m] /\ \A q \in Reach(o) : Suits(p, q, removed) => q \in Reach(b)
        BY <2>6, <2>7, <2>11
      <3>2. \A q \in Reach(b) : q \in Reach(o)
        BY <2>7, <2>11
      <3> QED  BY <2>1, <2>5, <3>1, <3>2 DEF Found
    <2> QED  BY <2>9, <2>10, <2>11
  <1>8. DOMAIN body \subseteq S
    BY <1>6, <1>7, TreeInduction
  <1>9. Owner(p) \in Enclosing(p) /\ Len(Owner(p)) = Len(p) - 2
    <2>1. IsChild(p, Owner(p), List(p))
      BY ChildOf
    <2>2. Len(p) = Len(Owner(p)) + 2 /\ Owner(p) \in Paths
      BY <2>1, BodyFacts DEF IsChild
    <2>3. Len(Owner(p)) \in Nat
      BY <2>2, PrefixPlaces
    <2>4. Owner(p) \in Enclosing(p)
      BY <1>2, AroundFacts
    <2> QED  BY <2>2, <2>3, <2>4
  <1> QED  BY <1>1, <1>2, <1>5, <1>8, <1>9

Deepest(S, r) == r \in S /\ \A q \in S : Len(q) <= Len(r)

\* break_continue() finds the innermost directive that may be meant.
LEMMA BreakTargetIs ==
    ASSUME body \in Bodies, NoneHidden, NEW p \in DOMAIN body \ {<<>>}, body[p].kind \in JumpKinds
    PROVE  IF MeantIn(p, removed) = {} THEN BreakTarget(p) = <<>>
           ELSE Deepest(MeantIn(p, removed), BreakTarget(p)) /\ BreakTarget(p) # <<>>
  <1>1. PICK M, r : M = MeantIn(p, removed) /\ r = BreakTarget(p)
    OBVIOUS
  <1>2. M = {q \in Reach(Owner(p)) : Suits(p, q, removed)}
    BY <1>1, ReachFacts
  <1>3. Found(p, Owner(p), r)
    BY <1>1, WalkFinds
  <1>4. ASSUME M # {} PROVE Deepest(M, r) /\ r # <<>>
    BY <1>2, <1>3, <1>4 DEF Found, Deepest, Reach
  <1>5. ASSUME M = {} PROVE r = <<>>
    BY <1>2, <1>3, <1>5 DEF Found
  <1> QED  BY <1>1, <1>4, <1>5

\* The deepest of directives around another is the longest path.
LEMMA DeepestIs ==
    ASSUME body \in Bodies, NEW p \in DOMAIN body, NEW S, S \subseteq Around(p), NEW r, Deepest(S, r)
    PROVE  r = Longest(S)
  <1>1. r \in S /\ \A q \in S : Len(q) <= Len(r)
    BY DEF Deepest
  <1>2. Longest(S) \in S /\ \A q \in S : Len(q) <= Len(Longest(S))
    BY <1>1, LongestFacts
  <1>3. /\ \A x, y \in Around(p) : Len(x) = Len(y) => x = y
        /\ \A x \in Around(p) : Len(x) \in Nat
    BY AroundLengths DEF Around
  <1> QED  BY <1>1, <1>2, <1>3

-----------------------------------------------------------------------------
(* What a step does to the labels, the places of the jumps and the errors. *)

NewErrors ==
    \A e \in errors' : \/ e \in errors
                       \/ e \in Inaccessible(Top) /\ Top.idx <= Size(Top)
                       \/ e.what \notin {"NO_TARGET", "INACCESSIBLE"}

Jumping(p) ==
    /\ AtCurrent(p) /\ Kind(p) \in JumpKinds /\ UNCHANGED <<labels, enters, removed>>
    /\ \/ /\ BreakTarget(p) # <<>> /\ exits' = Recorded(exits, p, BreakTarget(p))
          /\ NewErrors
       \/ /\ BreakTarget(p) = <<>> /\ exits' = exits /\ Error(p, "NO_TARGET") \in errors'
          /\ \A e \in errors' : \/ e \in errors \/ e \in Inaccessible(Top)
                                \/ e = Error(p, "NO_TARGET")

Going(p) ==
    /\ AtCurrent(p) /\ Kind(p) = "goto" /\ UNCHANGED <<labels, removed>> /\ NewErrors
    /\ LET key == <<Routine(p), Name(p)>>
       IN  \/ /\ key \in DOMAIN labels
              /\ enters' = Recorded(enters, p, labels[key])
              /\ exits' = Recorded(exits, p, LongestCommonPrefix({Front(p), Front(labels[key])}))
           \/ /\ key \notin DOMAIN labels
              /\ Error(p, "LABEL_NOT_FOUND") \in errors'
              /\ UNCHANGED <<enters, exits>>

Otherwise ==
    /\ UNCHANGED <<enters, exits>> /\ NewErrors
    /\ \/ labels' = labels
       \/ \E f \in DOMAIN body : labels' = FindLabels(f, DOMAIN labels)
    /\ \A p : AtCurrent(p) =>
            /\ Kind(p) \notin JumpKinds \union {"goto"}
            /\ Kind(p) \in FunctionKinds => labels' = FindLabels(p, DOMAIN labels)

\* What each action does to the labels, the places and the errors.
LEMMA Doing ==
    ASSUME CallsInv, Works
    PROVE  (\E p \in DOMAIN body : Jumping(p)) \/ (\E p \in DOMAIN body : Going(p)) \/ Otherwise
  <1>1. \A c, q, w : \A e \in ErrorIf(c, q, w) : e.what = w
    BY DEF ErrorIf, Error
  <1>0. ASSUME NEW f, NEW known, NEW again, NEW e \in Duplicates(f, known, again)
        PROVE  e.what = "DUPLICATES"
    <2>1. \E p : e = [at |-> f, what |-> "DUPLICATES", again |-> again]
      BY Zenon DEF Duplicates
    <2> QED  BY <2>1
  <1>2. ASSUME NEW q, NEW kinds, At(q, kinds)
        PROVE  /\ \A p : AtCurrent(p) => p = q
               /\ AtCurrent(q) /\ Kind(q) \in kinds /\ Top.idx <= Size(Top)
    BY <1>2 DEF At, AtCurrent, AtTop, Top
  <1>3. Returned => \A p : ~AtCurrent(p)
    <2>1. stack # <<>> => Size(Top) \in Nat /\ Top.idx \in Nat
      BY TopFacts, FrameNumbers DEF CallsInv
    <2> QED  BY <2>1 DEF Returned, AtCurrent, AtTop
  <1>4. ASSUME NEW q, NEW kinds, At(q, kinds), kinds \intersect (JumpKinds \union {"goto"} \union FunctionKinds) = {},
               NEW reported, (\E e : Pass(e, reported)) \/ Enter(q, reported),
               \A x \in reported : x.what \notin {"NO_TARGET", "INACCESSIBLE"},
               UNCHANGED <<labels, enters, exits>>
        PROVE  Otherwise
    <2>1. NewErrors
      BY <1>2, <1>4 DEF NewErrors, Pass, Enter
    <2> QED  BY <1>2, <1>4, <2>1 DEF Otherwise
  <1>5. /\ \A x \in {"expression", "var", "label", "unknown", "use", "throw", "return", "return_value",
                     "case", "default", "list", "with", "if", "switch", "try", "catch", "typed_catch",
                     "finally"} \union LoopKinds : x \notin JumpKinds \union {"goto"} \union FunctionKinds
        /\ \A x \in FunctionKinds : x \notin JumpKinds \union {"goto"}
        /\ "goto" \notin JumpKinds
    BY DEF JumpKinds, LoopKinds, FunctionKinds
  <1>6. CASE Plain
    <2>1. PICK p \in DOMAIN body :
            /\ At(p, {"expression", "var", "label", "unknown"})
            /\ Pass(Top.ending, {})
            /\ UNCHANGED <<body, unknown, removed, labels, enters, exits, defaults, scope, outcome>>
      BY <1>6 DEF Plain
    <2>2. {"expression", "var", "label", "unknown"} \intersect (JumpKinds \union {"goto"} \union FunctionKinds) = {}
      BY <1>5, Zenon
    <2>3. UNCHANGED <<labels, enters, exits>>
      BY <2>1
    <2>4. (\E e : Pass(e, {})) \/ Enter(p, {})
      BY <2>1
    <2>5. \A x \in {} : x.what \notin {"NO_TARGET", "INACCESSIBLE"}
      OBVIOUS
    <2> QED  BY <1>4, <2>1, <2>2, <2>3, <2>4, <2>5
  <1>7. CASE UseNamespace
    <2>1. PICK p \in DOMAIN body :
            /\ At(p, {"use"})
            /\ Pass(Top.ending, {})
            /\ UNCHANGED <<body, unknown, removed, labels, enters, exits, defaults, outcome>>
      BY <1>7 DEF UseNamespace
    <2>2. {"use"} \intersect (JumpKinds \union {"goto"} \union FunctionKinds) = {}
      BY <1>5, Zenon
    <2>3. UNCHANGED <<labels, enters, exits>>
      BY <2>1
    <2>4. (\E e : Pass(e, {})) \/ Enter(p, {})
      BY <2>1
    <2>5. \A x \in {} : x.what \notin {"NO_TARGET", "INACCESSIBLE"}
      OBVIOUS
    <2> QED  BY <1>4, <2>1, <2>2, <2>3, <2>4, <2>5
  <1>8. CASE Throw
    <2>1. PICK p \in DOMAIN body :
            /\ At(p, {"throw"})
            /\ Pass(TRUE, {})
            /\ UNCHANGED <<body, unknown, removed, labels, enters, exits, defaults, scope, outcome>>
      BY <1>8 DEF Throw
    <2>2. \E e : Pass(e, {})
      BY <2>1
    <2> QED  BY <1>4, <1>5, <2>1, <2>2
  <1>9. CASE Goto
    <2>1. PICK p : /\ p \in DOMAIN body /\ At(p, {"goto"})
            /\ \/ /\ <<Routine(p), Name(p)>> \in DOMAIN labels
                  /\ Pass(TRUE, {})
                  /\ enters' = Recorded(enters, p, labels[<<Routine(p), Name(p)>>])
                  /\ exits' = Recorded(exits, p, LongestCommonPrefix({Front(p), Front(labels[<<Routine(p), Name(p)>>])}))
               \/ /\ <<Routine(p), Name(p)>> \notin DOMAIN labels
                  /\ Pass(TRUE, {Error(p, "LABEL_NOT_FOUND")})
                  /\ UNCHANGED <<enters, exits>>
            /\ UNCHANGED <<body, unknown, removed, labels, defaults, scope, outcome>>
      BY <1>9, Zenon DEF Goto
    <2>2. AtCurrent(p) /\ Kind(p) = "goto" /\ Top.idx <= Size(Top)
      BY <1>2, <2>1
    <2>3. Error(p, "LABEL_NOT_FOUND").what = "LABEL_NOT_FOUND"
      BY DEF Error
    <2>4. ASSUME NEW rep, rep \in {{}, {Error(p, "LABEL_NOT_FOUND")}}, Pass(TRUE, rep)
          PROVE  NewErrors /\ rep \subseteq errors'
      BY <2>2, <2>3, <2>4 DEF Pass, NewErrors
    <2>5. CASE <<Routine(p), Name(p)>> \in DOMAIN labels
      <3>1. Pass(TRUE, {}) /\ enters' = Recorded(enters, p, labels[<<Routine(p), Name(p)>>])
            /\ exits' = Recorded(exits, p, LongestCommonPrefix({Front(p), Front(labels[<<Routine(p), Name(p)>>])}))
        BY <2>1, <2>5
      <3>2. NewErrors
        BY <2>4, <3>1
      <3>3. Going(p)
        BY <2>1, <2>2, <2>5, <3>1, <3>2 DEF Going
      <3> QED  BY <2>1, <3>3
    <2>6. CASE <<Routine(p), Name(p)>> \notin DOMAIN labels
      <3>1. Pass(TRUE, {Error(p, "LABEL_NOT_FOUND")}) /\ UNCHANGED <<enters, exits>>
        BY <2>1, <2>6
      <3>2. NewErrors /\ Error(p, "LABEL_NOT_FOUND") \in errors'
        BY <2>4, <3>1
      <3>3. Going(p)
        BY <2>1, <2>2, <2>6, <3>1, <3>2 DEF Going
      <3> QED  BY <2>1, <3>3
    <2> QED  BY <2>5, <2>6
  <1>10. CASE BreakContinue
    <2>1. PICK p : /\ p \in DOMAIN body /\ At(p, {"break", "continue"})
            /\ \/ /\ BreakTarget(p) # <<>>
                  /\ Pass(TRUE, {})
                  /\ exits' = Recorded(exits, p, BreakTarget(p))
               \/ /\ BreakTarget(p) = <<>>
                  /\ Pass(TRUE, {Error(p, "NO_TARGET")})
                  /\ UNCHANGED exits
            /\ UNCHANGED <<body, unknown, removed, labels, enters, defaults, scope, outcome>>
      BY <1>10, Zenon DEF BreakContinue
    <2>2. AtCurrent(p) /\ Kind(p) \in JumpKinds /\ Top.idx <= Size(Top)
      BY <1>2, <2>1 DEF JumpKinds
    <2>3. Pass(TRUE, {}) => NewErrors
      BY <2>2 DEF Pass, NewErrors
    <2>4. Pass(TRUE, {Error(p, "NO_TARGET")}) =>
              /\ Error(p, "NO_TARGET") \in errors'
              /\ \A e \in errors' : \/ e \in errors \/ e \in Inaccessible(Top)
                                    \/ e = Error(p, "NO_TARGET")
      BY DEF Pass
    <2> QED  BY <2>1, <2>2, <2>3, <2>4 DEF Jumping
  <1>11. CASE Return
    <2>1. PICK p \in DOMAIN body :
            /\ At(p, {"return", "return_value"})
            /\ Pass(TRUE, ReturnErrors(p))
            /\ UNCHANGED <<body, unknown, removed, labels, enters, exits, defaults, scope, outcome>>
      BY <1>11 DEF Return
    <2>2. \A e \in ReturnErrors(p) : e.what \in {"RETURN_OUTSIDE", "VALUE_RETURNED", "VALUE_EXPECTED"}
      BY <1>1 DEF ReturnErrors
    <2>3. \A e \in ReturnErrors(p) : e.what \notin {"NO_TARGET", "INACCESSIBLE"}
      BY <2>2
    <2> QED  BY <1>4, <1>5, <2>1, <2>3
  <1>12. CASE Case
    <2>1. PICK p, reported :
            /\ p \in DOMAIN body /\ At(p, {"case"}) /\ Pass(Top.ending, reported)
            /\ reported = ErrorIf(body[Owner(p)].kind # "switch", p, "OUTSIDE_SWITCH")
            /\ UNCHANGED <<body, unknown, removed, labels, enters, exits, defaults, scope, outcome>>
      BY <1>12 DEF Case
    <2>3. \A e \in reported : e.what \notin {"NO_TARGET", "INACCESSIBLE"}
      BY <1>1, <2>1
    <2> QED  BY <1>4, <1>5, <2>1, <2>3
  <1>13. CASE Default
    <2>1. PICK p, reported, inside :
            /\ p \in DOMAIN body /\ At(p, {"default"}) /\ Pass(Top.ending, reported)
            /\ reported = ErrorIf(inside, p, "OUTSIDE_SWITCH")
                           \union ErrorIf(Owner(p) \in defaults, p, "SECOND_DEFAULT")
            /\ UNCHANGED <<body, unknown, removed, labels, enters, exits, scope, outcome>>
      BY <1>13, Zenon DEF Default
    <2>3. \A e \in reported : e.what \notin {"NO_TARGET", "INACCESSIBLE"}
      BY <1>1, <2>1
    <2> QED  BY <1>4, <1>5, <2>1, <2>3
  <1>14. CASE Block
    <2>1. PICK p \in DOMAIN body :
            /\ At(p, LoopKinds \union {"list", "with", "if"})
            /\ Enter(p, {})
            /\ UNCHANGED <<body, removed, labels, enters, exits, defaults, scope, outcome>>
      BY <1>14 DEF Block
    <2>2. (LoopKinds \union {"list", "with", "if"}) \intersect (JumpKinds \union {"goto"} \union FunctionKinds) = {}
      BY <1>5
    <2> QED  BY <1>4, <2>1, <2>2
  <1>15. CASE Switch
    <2>1. PICK p, reported, none :
            /\ p \in DOMAIN body /\ At(p, {"switch"}) /\ Enter(p, reported)
            /\ reported = ErrorIf(none, p, "NO_CASE")
            /\ UNCHANGED <<body, removed, labels, enters, exits, defaults, scope, outcome>>
      BY <1>15, Zenon DEF Switch
    <2>3. \A e \in reported : e.what \notin {"NO_TARGET", "INACCESSIBLE"}
      BY <1>1, <2>1
    <2> QED  BY <1>4, <1>5, <2>1, <2>3
  <1>16. CASE Try
    <2>1. PICK p \in DOMAIN body :
            /\ At(p, {"try", "catch", "typed_catch", "finally"})
            /\ Enter(p, TryErrors(p))
            /\ UNCHANGED <<body, removed, labels, enters, exits, defaults, scope, outcome>>
      BY <1>16 DEF Try
    <2>2. \A e \in TryErrors(p) : e.what \in {"INVALID_TRY", "NO_TRY", "NOT_LAST_CATCH"}
      <3>1. CASE Kind(p) = "try"
        BY <1>1, <3>1 DEF TryErrors
      <3>2. CASE Kind(p) = "finally"
        BY <1>1, <3>2 DEF TryErrors
      <3>3. CASE Kind(p) # "try" /\ Kind(p) # "finally"
        BY <1>1, <3>3 DEF TryErrors
      <3> QED  BY <3>1, <3>2, <3>3
    <2>3. \A e \in TryErrors(p) : e.what \notin {"NO_TARGET", "INACCESSIBLE"}
      BY <2>2
    <2> QED  BY <1>4, <1>5, <2>1, <2>3
  <1>17. CASE Function
    <2>1. PICK p \in DOMAIN body :
            /\ At(p, FunctionKinds)
            /\ labels' = FindLabels(p, DOMAIN labels)
            /\ Enter(p, Duplicates(p, DOMAIN labels, Again))
            /\ UNCHANGED <<body, removed, enters, exits, defaults, scope, outcome>>
      BY <1>17 DEF Function
    <2>2. \A e \in Duplicates(p, DOMAIN labels, Again) : e.what = "DUPLICATES"
      BY <1>0
    <2>3. NewErrors
      BY <1>2, <2>1, <2>2 DEF NewErrors, Enter
    <2> QED  BY <1>2, <1>5, <2>1, <2>3 DEF Otherwise
  <1>18. CASE CompileAgain
    <2>1. /\ Returned /\ labels' = FindLabels(Top.owner, DOMAIN labels)
          /\ errors' = errors \union Duplicates(Top.owner, DOMAIN labels, TRUE)
          /\ UNCHANGED <<enters, exits>>
      BY <1>18 DEF CompileAgain
    <2>2. \A e \in Duplicates(Top.owner, DOMAIN labels, TRUE) : e.what = "DUPLICATES"
      BY <1>0
    <2>3. NewErrors
      BY <2>1, <2>2 DEF NewErrors
    <2>4. Top.owner \in DOMAIN body
      BY <2>1, TopFacts, FrameNumbers DEF Returned, CallsInv
    <2> QED  BY <1>3, <2>1, <2>3, <2>4 DEF Otherwise
  <1>19. CASE NextList \/ Leave
    <2>1. Returned /\ errors' = errors /\ UNCHANGED <<enters, exits, labels>>
      BY <1>19 DEF NextList, Leave
    <2>2. NewErrors
      BY <2>1 DEF NewErrors
    <2> QED  BY <1>3, <2>1, <2>2 DEF Otherwise
  <1> QED  BY <1>6, <1>7, <1>8, <1>9, <1>10, <1>11, <1>12, <1>13, <1>14, <1>15, <1>16, <1>17, <1>18,
              <1>19 DEF Works

\* More may be meant when more is left out.
LEMMA MeantGrows ==
    ASSUME NEW gone, NEW more, gone \subseteq more
    PROVE  \A p : MeantIn(p, gone) \subseteq MeantIn(p, more)
  <1>1. \A q, name : LabelledIn(q, name, gone) => LabelledIn(q, name, more)
    BY DEF LabelledIn
  <1> QED  BY <1>1, Zenon DEF MeantIn, Suits

\* What is removed in a function changes nothing for the jumps out of it.
LEMMA MeantElsewhere ==
    ASSUME body \in Bodies, NoneHidden, NEW f \in DOMAIN body, Live(f), NEW more,
           more = removed \union {x \in unknown : IsPrefix(f, x)},
           NEW p \in DOMAIN body \ {<<>>}, f \notin Enclosing(p)
    PROVE  MeantIn(p, more) = MeantIn(p, removed)
  <1>1. MeantIn(p, removed) \subseteq MeantIn(p, more)
    BY MeantGrows
  <1>2. ASSUME NEW q \in MeantIn(p, more) PROVE q \in MeantIn(p, removed)
    <2>1. q \in Enclosing(p) /\ Suits(p, q, more) /\ Routine(q) = Routine(p) /\ q # <<>>
      BY <1>2, ReachFacts DEF MeantIn, Reach
    <2>2. q \in DOMAIN body \ {<<>>}
      BY <2>1 DEF Enclosing
    <2>3. Enclosing(q) \subseteq Enclosing(p)
      <3>1. q \in Around(Owner(p)) /\ Owner(p) \in DOMAIN body /\ Enclosing(p) = Around(Owner(p))
        BY <2>1, AroundFacts
      <3>2. Around(q) \subseteq Around(Owner(p))
        BY <3>1, AroundFacts
      <3> QED  BY <3>1, <3>2 DEF Around
    <2>4. /\ Last(q) \in Nat \ {0}
          /\ \A j \in 1..(Last(q) - 1) : Sibling(q, j) \in DOMAIN body \ {<<>>}
                                         /\ Owner(Sibling(q, j)) = Owner(q)
          /\ \A l \in DOMAIN body : Front(l) = Front(q) => Last(l) \in Nat \ {0}
      BY <2>2, BeforeFacts
    <2>5. ASSUME NEW j \in 1..(Last(q) - 1), Sibling(q, j) \in more PROVE Sibling(q, j) \in removed
      <3> SUFFICES ASSUME Sibling(q, j) \notin removed PROVE FALSE
        OBVIOUS
      <3>1. Sibling(q, j) \in unknown /\ IsPrefix(f, Sibling(q, j))
        BY <2>5
      <3>2. f # Sibling(q, j)
        BY <3>1, LiveFacts DEF NoneHidden
      <3>3. f \in Enclosing(Sibling(q, j))
        BY <3>1, <3>2 DEF Enclosing, IsStrictPrefix
      <3>4. Enclosing(Sibling(q, j)) = Enclosing(q)
        BY <2>2, <2>4, AroundFacts
      <3> QED  BY <2>3, <3>3, <3>4
    <2>6. LabelledIn(q, Name(p), more) => LabelledIn(q, Name(p), removed)
      <3> SUFFICES ASSUME NEW l \in DOMAIN body,
                          Front(l) = Front(q) /\ Last(l) < Last(q),
                          \A i \in (Last(l) + 1)..(Last(q) - 1) : Sibling(q, i) \in more,
                          body[l].kind = "label" /\ Name(l) = Name(p)
                   PROVE  \A i \in (Last(l) + 1)..(Last(q) - 1) : Sibling(q, i) \in removed
        BY Zenon DEF LabelledIn
      <3>1. \A i \in (Last(l) + 1)..(Last(q) - 1) : i \in 1..(Last(q) - 1)
        BY <2>4
      <3> QED  BY <2>5, <3>1
    <2> QED  BY <2>1, <2>6 DEF MeantIn, Suits
  <1> QED  BY <1>1, <1>2

\* What may be meant, in a body that does not change.
LEMMA SameMeant ==
    ASSUME body' = body
    PROVE  \A p : MeantIn(p, removed)' = MeantIn(p, removed')
  <1>1. ASSUME NEW p PROVE Routine(p)' = Routine(p)
    <2>1. Enclosing(p)' = Enclosing(p)
      BY Zenon DEF Enclosing
    <2> QED  BY <2>1, Zenon DEF Routine, Innermost
  <1>2. ASSUME NEW q, NEW name PROVE LabelledIn(q, name, removed)' <=> LabelledIn(q, name, removed')
    BY Zenon DEF LabelledIn, Name
  <1>3. ASSUME NEW p PROVE Name(p)' = Name(p) /\ Enclosing(p)' = Enclosing(p)
    BY Zenon DEF Name, Enclosing
  <1>4. ASSUME NEW p, NEW q PROVE Suits(p, q, removed)' <=> Suits(p, q, removed')
    BY <1>2, <1>3, Zenon DEF Suits
  <1>5. ASSUME NEW p PROVE MeantIn(p, removed)' = MeantIn(p, removed')
    <2>1. ASSUME NEW q PROVE q \in MeantIn(p, removed)' <=> q \in MeantIn(p, removed')
      BY <1>1, <1>3, <1>4, Zenon DEF MeantIn
    <2> QED  BY <2>1, Zenon
  <1> QED  BY <1>5, Zenon

\* Where a break or continue leads.
Aimed(p) ==
    IF MeantIn(p, removed) = {} THEN Blamed(p, "NO_TARGET", errors)
    ELSE p \in DOMAIN exits /\ Deepest(MeantIn(p, removed), exits[p])

JumpInv ==
    \A p \in DOMAIN body \ {<<>>} : body[p].kind \in JumpKinds =>
        /\ Live(p) /\ Seen(p, stack) => Aimed(p)
        /\ p \in DOMAIN exits => MeantIn(p, removed) # {}
        /\ removed = {} /\ Blamed(p, "NO_TARGET", errors) => MeantIn(p, removed) = {}

\* What a step does to a break or continue.
LEMMA JumpEffects ==
    ASSUME CallsInv, Works, NEW p \in DOMAIN body \ {<<>>}, body[p].kind \in JumpKinds
    PROVE  /\ AtCurrent(p) =>
                IF BreakTarget(p) = <<>> THEN exits' = exits /\ Blamed(p, "NO_TARGET", errors')
                ELSE p \in DOMAIN exits' /\ exits'[p] = BreakTarget(p)
           /\ ~AtCurrent(p) => /\ p \in DOMAIN exits' <=> p \in DOMAIN exits
                               /\ p \in DOMAIN exits => exits'[p] = exits[p]
           /\ Blamed(p, "NO_TARGET", errors') =>
                Blamed(p, "NO_TARGET", errors) \/ (AtCurrent(p) /\ BreakTarget(p) = <<>>)
           /\ AtCurrent(p) => removed' = removed
           /\ \A q \in DOMAIN body \ {<<>>} : AtCurrent(p) /\ AtCurrent(q) => p = q
  <1>1. \A q, r : AtCurrent(q) /\ AtCurrent(r) => q = r
    BY DEF AtCurrent, AtTop
  <1>2. \A q, w : Error(q, w).at = q /\ Error(q, w).what = w
    BY DEF Error
  <1>3. body \in Bodies /\ NoneHidden
    BY DEF CallsInv, StackInv, NoneHidden
  <1>4. Kind(p) \in JumpKinds /\ Kind(p) # "goto"
    BY <1>3, PlainKinds DEF JumpKinds
  <1>5. \A e \in Inaccessible(Top) : e.what # "NO_TARGET"
    BY <1>2 DEF Inaccessible, ErrorIf
  <1>6. NewErrors => (Blamed(p, "NO_TARGET", errors') => Blamed(p, "NO_TARGET", errors))
    BY <1>5 DEF NewErrors, Blamed
  <1>7. CASE \E q \in DOMAIN body : Jumping(q)
    <2>1. PICK q \in DOMAIN body : Jumping(q)
      BY <1>7
    <2>2. AtCurrent(q) /\ removed' = removed
      BY <2>1 DEF Jumping
    <2>3. CASE BreakTarget(q) # <<>>
      <3>1. exits' = Recorded(exits, q, BreakTarget(q)) /\ NewErrors
        BY <2>1, <2>3 DEF Jumping
      <3>2. /\ DOMAIN exits' = DOMAIN exits \union {q} /\ exits'[q] = BreakTarget(q)
            /\ \A x \in DOMAIN exits : x # q => exits'[x] = exits[x]
        <4>1. PICK g, t : g = exits' /\ t = BreakTarget(q)
          OBVIOUS
        <4>2. g = Recorded(exits, q, t)
          BY <3>1, <4>1
        <4>3. /\ DOMAIN g = DOMAIN exits \union {q} /\ g[q] = t
              /\ \A x \in DOMAIN exits : x # q => g[x] = exits[x]
          BY <4>2 DEF Recorded
        <4> QED  BY <4>1, <4>3
      <3> QED  BY <1>1, <1>6, <2>2, <2>3, <3>1, <3>2
    <2>4. CASE BreakTarget(q) = <<>>
      <3>1. /\ exits' = exits /\ Error(q, "NO_TARGET") \in errors'
            /\ \A e \in errors' : \/ e \in errors \/ e \in Inaccessible(Top)
                                  \/ e = Error(q, "NO_TARGET")
        BY <2>1, <2>4 DEF Jumping
      <3>2. Blamed(q, "NO_TARGET", errors')
        BY <1>2, <3>1 DEF Blamed
      <3>3. Blamed(p, "NO_TARGET", errors') => Blamed(p, "NO_TARGET", errors) \/ p = q
        BY <1>2, <1>5, <3>1 DEF Blamed
      <3> QED  BY <1>1, <2>2, <2>4, <3>1, <3>2, <3>3
    <2> QED  BY <2>3, <2>4
  <1>8. CASE \E q \in DOMAIN body : Going(q)
    <2>1. PICK q \in DOMAIN body : Going(q)
      BY <1>8
    <2>2. AtCurrent(q) /\ removed' = removed /\ NewErrors /\ q # p
      BY <1>4, <2>1 DEF Going
    <2>3. ~AtCurrent(p)
      BY <1>1, <2>2
    <2>4. \/ exits' = exits
          \/ \E x : exits' = Recorded(exits, q, x)
      BY <2>1, Zenon DEF Going
    <2>5. ASSUME NEW x, exits' = Recorded(exits, q, x)
          PROVE  /\ p \in DOMAIN exits' <=> p \in DOMAIN exits
                 /\ p \in DOMAIN exits => exits'[p] = exits[p]
      <3>1. PICK g : g = exits'
        OBVIOUS
      <3>2. g = Recorded(exits, q, x)
        BY <2>5, <3>1
      <3>3. /\ DOMAIN g = DOMAIN exits \union {q}
            /\ \A y \in DOMAIN exits : y # q => g[y] = exits[y]
        BY <3>2 DEF Recorded
      <3> QED  BY <2>2, <3>1, <3>3
    <2> QED  BY <1>6, <2>2, <2>3, <2>4, <2>5
  <1>9. CASE Otherwise
    <2>1. exits' = exits /\ NewErrors /\ ~AtCurrent(p)
      BY <1>4, <1>9 DEF Otherwise
    <2> QED  BY <1>6, <2>1
  <1> QED  BY <1>7, <1>8, <1>9, Doing

\* A step keeps the invariant of the breaks and continues...
LEMMA JumpStep ==
    ASSUME CallsInv, JumpInv, Works
    PROVE  JumpInv'
  <1>1. /\ body \in Bodies /\ body' = body /\ errors \subseteq errors' /\ unknown \subseteq unknown'
        /\ removed \subseteq removed' /\ NoneHidden
        /\ \A p \in DOMAIN body \ {<<>>} :
              Live(p) /\ Seen(p, stack') => Seen(p, stack) \/ AtCurrent(p)
        /\ removed' # removed =>
             /\ removed' = removed \union {p \in unknown : IsPrefix(Top.owner, p)}
             /\ \A p \in DOMAIN body \ {<<>>} :
                   Live(p) /\ Seen(p, stack') => Seen(p, stack) /\ Top.owner \notin Enclosing(p)
             /\ Live(Top.owner) /\ Top.owner \in DOMAIN body
    <2>1. stack # <<>> => Top.owner \in DOMAIN body
      BY TopFacts, FrameNumbers DEF CallsInv
    <2> QED  BY <2>1, CallsStep DEF CallsInv, StackInv, NoneHidden
  <1>2. ASSUME NEW p \in DOMAIN body \ {<<>>}, body[p].kind \in JumpKinds
        PROVE  /\ Live(p) /\ Seen(p, stack') =>
                     IF MeantIn(p, removed') = {} THEN Blamed(p, "NO_TARGET", errors')
                     ELSE p \in DOMAIN exits' /\ Deepest(MeantIn(p, removed'), exits'[p])
               /\ p \in DOMAIN exits' => MeantIn(p, removed') # {}
               /\ removed' = {} /\ Blamed(p, "NO_TARGET", errors') => MeantIn(p, removed') = {}
    <2>1. /\ AtCurrent(p) =>
                IF BreakTarget(p) = <<>> THEN exits' = exits /\ Blamed(p, "NO_TARGET", errors')
                ELSE p \in DOMAIN exits' /\ exits'[p] = BreakTarget(p)
          /\ ~AtCurrent(p) => /\ p \in DOMAIN exits' <=> p \in DOMAIN exits
                              /\ p \in DOMAIN exits => exits'[p] = exits[p]
          /\ Blamed(p, "NO_TARGET", errors') =>
                Blamed(p, "NO_TARGET", errors) \/ (AtCurrent(p) /\ BreakTarget(p) = <<>>)
          /\ AtCurrent(p) => removed' = removed
      BY <1>2, JumpEffects
    <2>2. IF MeantIn(p, removed) = {} THEN BreakTarget(p) = <<>>
          ELSE Deepest(MeantIn(p, removed), BreakTarget(p)) /\ BreakTarget(p) # <<>>
      BY <1>1, <1>2, BreakTargetIs
    <2>3. MeantIn(p, removed) \subseteq MeantIn(p, removed')
      BY <1>1, MeantGrows
    <2>4. /\ Live(p) /\ Seen(p, stack) => Aimed(p)
          /\ p \in DOMAIN exits => MeantIn(p, removed) # {}
          /\ removed = {} /\ Blamed(p, "NO_TARGET", errors) => MeantIn(p, removed) = {}
      BY <1>2 DEF JumpInv
    <2>5. Blamed(p, "NO_TARGET", errors) => Blamed(p, "NO_TARGET", errors')
      BY <1>1 DEF Blamed
    <2>6. ASSUME Live(p), Seen(p, stack')
          PROVE  IF MeantIn(p, removed') = {} THEN Blamed(p, "NO_TARGET", errors')
                 ELSE p \in DOMAIN exits' /\ Deepest(MeantIn(p, removed'), exits'[p])
      <3>1. CASE AtCurrent(p)
        BY <2>1, <2>2, <3>1
      <3>2. CASE ~AtCurrent(p)
        <4>1. Seen(p, stack)
          BY <1>1, <2>6, <3>2
        <4>2. MeantIn(p, removed') = MeantIn(p, removed)
          <5>1. CASE removed' = removed
            BY <5>1
          <5>2. CASE removed' # removed
            <6>1. PICK f, more : f = Top.owner /\ more = removed'
              OBVIOUS
            <6>2. /\ f \in DOMAIN body /\ Live(f) /\ f \notin Enclosing(p)
                  /\ more = removed \union {x \in unknown : IsPrefix(f, x)}
              BY <1>1, <2>6, <5>2, <6>1
            <6>3. MeantIn(p, more) = MeantIn(p, removed)
              BY <1>1, <6>2, MeantElsewhere
            <6> QED  BY <6>1, <6>3
          <5> QED  BY <5>1, <5>2
        <4> QED  BY <2>1, <2>4, <2>5, <2>6, <3>2, <4>1, <4>2 DEF Aimed
      <3> QED  BY <3>1, <3>2
    <2>7. p \in DOMAIN exits' => MeantIn(p, removed') # {}
      BY <2>1, <2>2, <2>3, <2>4
    <2>8. removed' = {} /\ Blamed(p, "NO_TARGET", errors') => MeantIn(p, removed') = {}
      BY <1>1, <2>1, <2>2, <2>4
    <2> QED  BY <2>6, <2>7, <2>8
  <1>3. /\ \A p : (Live(p)' <=> Live(p)) /\ (Seen(p, stack)' <=> Seen(p, stack'))
        /\ \A p : MeantIn(p, removed)' = MeantIn(p, removed')
    BY <1>1, SameBody, SameMeant
  <1>4. ASSUME NEW p PROVE Blamed(p, "NO_TARGET", errors)' <=> Blamed(p, "NO_TARGET", errors')
    BY Zenon DEF Blamed
  <1>5. ASSUME NEW p
        PROVE  Aimed(p)' <=> IF MeantIn(p, removed') = {} THEN Blamed(p, "NO_TARGET", errors')
                             ELSE p \in DOMAIN exits' /\ Deepest(MeantIn(p, removed'), exits'[p])
    <2>1. PICK M : M = MeantIn(p, removed')
      OBVIOUS
    <2>2. MeantIn(p, removed)' = M
      BY <1>3, <2>1, Zenon
    <2>3. (p \in DOMAIN exits)' <=> p \in DOMAIN exits'
      OBVIOUS
    <2>4. Deepest(MeantIn(p, removed), exits[p])' <=> Deepest(M, exits'[p])
      BY <2>2, Zenon DEF Deepest
    <2>5. Aimed(p)' <=> IF M = {} THEN Blamed(p, "NO_TARGET", errors')
                        ELSE p \in DOMAIN exits' /\ Deepest(M, exits'[p])
      BY <1>4, <2>2, <2>4, Zenon DEF Aimed
    <2> QED  BY <2>1, <2>5, Zenon
  <1>6. ASSUME NEW p \in DOMAIN body \ {<<>>}, body[p].kind \in JumpKinds
        PROVE  (/\ Live(p) /\ Seen(p, stack) => Aimed(p)
                /\ p \in DOMAIN exits => MeantIn(p, removed) # {}
                /\ removed = {} /\ Blamed(p, "NO_TARGET", errors) => MeantIn(p, removed) = {})'
    BY <1>2, <1>3, <1>4, <1>5, <1>6, Zenon
  <1> QED  BY <1>1, <1>6, Zenon DEF JumpInv

\* find_labels() reports duplicates only.
LEMMA DuplicateErrors ==
    ASSUME NEW f, NEW known, NEW again
    PROVE  \A e \in Duplicates(f, known, again) : e.what = "DUPLICATES"
  <1> TAKE e \in Duplicates(f, known, again)
  <1>1. \E p : e = [at |-> f, what |-> "DUPLICATES", again |-> again]
    BY Zenon DEF Duplicates
  <1> QED  BY <1>1

\* ... which holds at first.
LEMMA JumpInit ==
    ASSUME Init
    PROVE  JumpInv
  <1>1. \A p \in DOMAIN body \ {<<>>} : ~Seen(p, stack)
    BY CallsInit
  <1>2. exits = <<>> /\ errors = Duplicates(<<>>, {}, FALSE)
    BY Zenon DEF Init
  <1>3. DOMAIN exits = {}
    BY <1>2
  <1>4. \A p : ~Blamed(p, "NO_TARGET", errors)
    BY <1>2, DuplicateErrors DEF Blamed
  <1> QED  BY <1>1, <1>3, <1>4 DEF JumpInv

\* Every break and continue that was compiled, for every program: it has the innermost directive it may
\* mean, or was complained about when there was none, and a later optimize() does not change that.
THEOREM JumpInvariant == Spec => []JumpInv
  <1>1. Init => JumpInv
    BY JumpInit
  <1>2. CallsInv /\ JumpInv /\ [Next]_vars => JumpInv'
    <2>1. CallsInv /\ JumpInv /\ Works => JumpInv'
      BY JumpStep
    <2>2. JumpInv /\ UNCHANGED Held => JumpInv'
      <3> SUFFICES ASSUME JumpInv, UNCHANGED Held PROVE JumpInv'
        OBVIOUS
      <3>1. /\ body' = body /\ stack' = stack /\ removed' = removed /\ errors' = errors
            /\ exits' = exits
        BY DEF Held
      <3>2. \A p : (Live(p)' <=> Live(p)) /\ (Seen(p, stack)' <=> Seen(p, stack'))
        BY <3>1, SameBody
      <3>3. \A p : MeantIn(p, removed)' = MeantIn(p, removed)
        BY <3>1, SameMeant, Zenon
      <3>4. \A p : Blamed(p, "NO_TARGET", errors)' <=> Blamed(p, "NO_TARGET", errors)
        BY <3>1, Zenon DEF Blamed
      <3>5. ASSUME NEW p PROVE Aimed(p)' <=> Aimed(p)
        <4>1. Deepest(MeantIn(p, removed), exits[p])' <=> Deepest(MeantIn(p, removed), exits[p])
          BY <3>1, <3>3, Zenon DEF Deepest
        <4> QED  BY <3>1, <3>3, <3>4, <4>1, Zenon DEF Aimed
      <3> QED  BY <3>1, <3>2, <3>3, <3>4, <3>5, Zenon DEF JumpInv
    <2> QED  BY <2>1, <2>2, StepCases
  <1> QED  BY <1>1, <1>2, CallsInvariant, PTL DEF Spec

\* At the end every break and continue has its place or was complained about.
LEMMA BreaksLand ==
    ASSUME CallsInv, JumpInv, stack = <<>>, NEW p \in Compiled, Kind(p) \in JumpKinds
    PROVE  IF Meant(p) = {} THEN p \in Reported("NO_TARGET") /\ p \notin DOMAIN exits
           ELSE (removed = {} => p \notin Reported("NO_TARGET")) /\ exits[p] = Longest(Meant(p))
  <1>1. body \in Bodies /\ NoneHidden
    BY DEF CallsInv, StackInv, NoneHidden
  <1>2. p \in DOMAIN body \ {<<>>} /\ Live(p) /\ Seen(p, stack)
    BY AllSeen
  <1>3. body[p].kind \in JumpKinds
    BY <1>1, <1>2, PlainKinds DEF JumpKinds
  <1>4. Meant(p) = MeantIn(p, removed)
    BY <1>1, <1>2, <1>3, MeantIs
  <1>5. p \in Reported("NO_TARGET") <=> Blamed(p, "NO_TARGET", errors)
    BY DEF Reported, Blamed
  <1>6. /\ Aimed(p)
        /\ p \in DOMAIN exits => MeantIn(p, removed) # {}
        /\ removed = {} /\ Blamed(p, "NO_TARGET", errors) => MeantIn(p, removed) = {}
    BY <1>2, <1>3 DEF JumpInv
  <1>7. CASE MeantIn(p, removed) = {}
    BY <1>4, <1>5, <1>6, <1>7 DEF Aimed
  <1>8. CASE MeantIn(p, removed) # {}
    <2>1. PICK M, r : M = MeantIn(p, removed) /\ r = exits[p]
      OBVIOUS
    <2>2. Deepest(M, r)
      BY <1>6, <1>8, <2>1 DEF Aimed
    <2>3. M \subseteq Around(p)
      BY <2>1 DEF MeantIn, Around
    <2>4. r = Longest(M)
      BY <1>1, <1>2, <2>2, <2>3, DeepestIs
    <2> QED  BY <1>4, <1>5, <1>6, <1>8, <2>1, <2>4
  <1> QED  BY <1>7, <1>8

-----------------------------------------------------------------------------
(* The labels.                                                             *)

\* A leaf is around nothing.
LEMMA LeafFacts ==
    ASSUME body \in Bodies, NEW p \in DOMAIN body \ {<<>>}, body[p].kind \in Leaves,
           NEW x \in DOMAIN body, p \in Around(x)
    PROVE  x = p
  <1> SUFFICES ASSUME p \in Enclosing(x) PROVE FALSE
    BY DEF Around
  <1>1. PICK y \in Around(x) \ {<<>>} : Owner(y) = p
    BY AroundLengths
  <1>2. y \in DOMAIN body /\ y # <<>>
    BY <1>1, AroundFacts
  <1>3. List(y) \in 1..Len(Sizes(p))
    BY <1>1, <1>2, ChildOf DEF IsChild
  <1>4. Len(Sizes(p)) = 0
    BY BodyFacts, ListCountFacts
  <1> QED  BY <1>3, <1>4

\* Precedes() by places.
LEMMA PrecedesPlaces ==
    ASSUME NEW p \in Paths, NEW q \in Paths
    PROVE  Precedes(p, q) <=>
              \E i \in 1..Len(p) : i <= Len(q) /\ (\A m \in 1..(i - 1) : p[m] = q[m]) /\ p[i] < q[i]
  <1>1. Len(p) \in Nat /\ Len(q) \in Nat
    BY PrefixPlaces
  <1>2. ASSUME NEW i \in 1..Len(p), i <= Len(q)
        PROVE  SubSeq(p, 1, i - 1) = SubSeq(q, 1, i - 1) <=> \A m \in 1..(i - 1) : p[m] = q[m]
    <2>1. PICK n : n = i - 1
      OBVIOUS
    <2>2. n \in Nat /\ n <= Len(p) /\ n <= Len(q)
      BY <1>1, <1>2, <2>1
    <2>3. ASSUME \A m \in 1..n : p[m] = q[m] PROVE SubSeq(p, 1, n) = SubSeq(q, 1, n)
      BY <2>2, <2>3, SubSeqEqual
    <2>4. ASSUME SubSeq(p, 1, n) = SubSeq(q, 1, n), NEW m \in 1..n PROVE p[m] = q[m]
      <3>1. SubSeq(p, 1, n)[m] = p[m]
        BY <2>2, SubSeqEqual
      <3>2. SubSeq(q, 1, n)[m] = q[m]
        BY <2>2, SubSeqEqual
      <3> QED  BY <2>4, <3>1, <3>2
    <2> QED  BY <2>1, <2>3, <2>4
  <1> QED  BY <1>2 DEF Precedes

\* The order of the directives is strict.
LEMMA PrecedesOrder ==
    /\ \A p \in Paths : ~Precedes(p, p)
    /\ \A p, q, r \in Paths : Precedes(p, q) /\ Precedes(q, r) => Precedes(p, r)
  <1>1. ASSUME NEW p \in Paths PROVE ~Precedes(p, p)
    <2>1. \A i \in 1..Len(p) : p[i] \in Nat
      BY DEF Paths
    <2> QED  BY <2>1 DEF Precedes
  <1>2. ASSUME NEW p \in Paths, NEW q \in Paths, NEW r \in Paths, Precedes(p, q), Precedes(q, r)
        PROVE  Precedes(p, r)
    <2>1. PICK i \in 1..Len(p) : i <= Len(q) /\ (\A m \in 1..(i - 1) : p[m] = q[m]) /\ p[i] < q[i]
      BY <1>2, PrecedesPlaces
    <2>2. PICK j \in 1..Len(q) : j <= Len(r) /\ (\A m \in 1..(j - 1) : q[m] = r[m]) /\ q[j] < r[j]
      BY <1>2, PrecedesPlaces
    <2>3. Len(p) \in Nat /\ Len(q) \in Nat /\ Len(r) \in Nat
      BY PrefixPlaces
    <2>4. /\ \A m \in 1..Len(p) : p[m] \in Nat
          /\ \A m \in 1..Len(q) : q[m] \in Nat
          /\ \A m \in 1..Len(r) : r[m] \in Nat
      BY DEF Paths
    <2>5. i \in Nat /\ j \in Nat /\ i \in 1..Len(q) /\ j \in 1..Len(r)
      BY <2>1, <2>2, <2>3
    <2>6. PICK k : k = IF i <= j THEN i ELSE j
      OBVIOUS
    <2>7. k \in 1..Len(p) /\ k <= Len(r) /\ \A m \in 1..(k - 1) : m \in 1..(i - 1) /\ m \in 1..(j - 1)
      BY <2>1, <2>2, <2>3, <2>5, <2>6
    <2>8. \A m \in 1..(k - 1) : p[m] = r[m]
      BY <2>1, <2>2, <2>7
    <2>9. p[k] < r[k]
      <3>1. CASE i < j
        <4>1. k = i /\ i \in 1..(j - 1) /\ i \in 1..Len(r)
          BY <2>2, <2>3, <2>5, <2>6, <3>1
        <4>2. q[i] = r[i]
          BY <2>2, <4>1
        <4> QED  BY <2>1, <4>1, <4>2
      <3>2. CASE j < i
        <4>1. k = j /\ j \in 1..(i - 1)
          BY <2>5, <2>6, <3>2
        <4>2. p[j] = q[j]
          BY <2>1, <4>1
        <4> QED  BY <2>2, <4>1, <4>2
      <3>3. CASE i = j
        <4>1. k = i /\ p[i] \in Nat /\ q[i] \in Nat /\ r[i] \in Nat
          BY <2>1, <2>4, <2>5, <2>6, <3>3
        <4> QED  BY <2>1, <2>2, <3>3, <4>1
      <3> QED  BY <2>5, <3>1, <3>2, <3>3
    <2> QED  BY <2>7, <2>8, <2>9, PrecedesPlaces
  <1> QED  BY <1>1, <1>2

\* Two directives, neither of which is around the other, are written one before the other.
LEMMA PrecedesTotal ==
    ASSUME NEW p \in Paths, NEW q \in Paths, ~IsPrefix(p, q), ~IsPrefix(q, p)
    PROVE  Precedes(p, q) \/ Precedes(q, p)
  <1>1. Len(p) \in Nat /\ Len(q) \in Nat
    BY PrefixPlaces
  <1>2. /\ \A m \in 1..Len(p) : p[m] \in Nat
        /\ \A m \in 1..Len(q) : q[m] \in Nat
    BY DEF Paths
  <1>3. PICK S : S = {i \in 1..Len(p) : i <= Len(q) /\ p[i] # q[i]}
    OBVIOUS
  <1>4. S # {}
    <2>1. CASE Len(p) <= Len(q)
      <3>1. PICK i \in 1..Len(p) : p[i] # q[i]
        BY <2>1, PrefixPlaces
      <3> QED  BY <1>1, <1>3, <2>1, <3>1
    <2>2. CASE Len(q) <= Len(p)
      <3>1. PICK i \in 1..Len(q) : q[i] # p[i]
        BY <2>2, PrefixPlaces
      <3> QED  BY <1>1, <1>3, <2>2, <3>1
    <2> QED  BY <1>1, <2>1, <2>2
  <1>5. PICK k : k = Min(S)
    OBVIOUS
  <1>6. k \in S /\ \A y \in S : k <= y
    BY <1>1, <1>3, <1>4, <1>5, Extremes
  <1>7. k \in 1..Len(p) /\ k \in 1..Len(q) /\ p[k] # q[k]
    BY <1>1, <1>3, <1>6
  <1>8. \A m \in 1..(k - 1) : p[m] = q[m]
    <2> TAKE m \in 1..(k - 1)
    <2>1. m \in 1..Len(p) /\ m <= Len(q) /\ ~(k <= m)
      BY <1>1, <1>7
    <2> QED  BY <1>3, <1>6, <2>1
  <1>9. p[k] < q[k] \/ q[k] < p[k]
    <2>1. p[k] \in Nat /\ q[k] \in Nat
      BY <1>2, <1>7
    <2> QED  BY <1>7, <2>1
  <1>10. k <= Len(p) /\ k <= Len(q) /\ \A m \in 1..(k - 1) : q[m] = p[m]
    BY <1>1, <1>7, <1>8
  <1>11. p[k] < q[k] => Precedes(p, q)
    BY <1>7, <1>8, <1>10, PrecedesPlaces
  <1>12. q[k] < p[k] => Precedes(q, p)
    BY <1>7, <1>10, PrecedesPlaces
  <1> QED  BY <1>9, <1>11, <1>12

\* A set of paths, none in another, has a first one.
LEMMA FirstExists ==
    ASSUME NEW L, L \subseteq Paths, IsFiniteSet(L), L # {},
           \A p, q \in L : IsPrefix(p, q) => p = q
    PROVE  \E p \in L : \A q \in L : p = q \/ Precedes(p, q)
  <1> DEFINE earlier(p) == {q \in L : Precedes(q, p)}
  <1>1. ASSUME NEW p PROVE IsFiniteSet(earlier(p)) /\ Cardinality(earlier(p)) \in Nat
    <2>1. earlier(p) \in SUBSET L
      OBVIOUS
    <2>2. IsFiniteSet(earlier(p))
      BY <2>1, FS_Subset
    <2> QED  BY <2>2, FS_CardinalityType
  <1>2. ASSUME NEW p \in L, NEW q \in L, Precedes(q, p)
        PROVE  Cardinality(earlier(q)) < Cardinality(earlier(p))
    <2>1. earlier(q) \subseteq earlier(p)
      BY <1>2, PrecedesOrder
    <2>2. q \in earlier(p) /\ q \notin earlier(q)
      BY <1>2, PrecedesOrder
    <2>3. PICK A, B : A = earlier(q) /\ B = earlier(p)
      OBVIOUS
    <2>4. A \in SUBSET B /\ A # B
      BY <2>1, <2>2, <2>3
    <2>5. /\ IsFiniteSet(B)
          /\ Cardinality(A) \in Nat /\ Cardinality(B) \in Nat
      BY <1>1, <2>3
    <2>6. Cardinality(A) <= Cardinality(B) /\ Cardinality(A) # Cardinality(B)
      BY <2>4, <2>5, FS_Subset
    <2>7. Cardinality(A) < Cardinality(B)
      BY <2>5, <2>6
    <2> QED  BY <2>3, <2>7
  <1> HIDE DEF earlier
  <1>3. PICK m \in {Cardinality(earlier(p)) : p \in L} :
            \A y \in {Cardinality(earlier(p)) : p \in L} : m <= y
    <2>1. PICK R : R = {Cardinality(earlier(p)) : p \in L}
      OBVIOUS
    <2>2. PICK x : x \in L
      OBVIOUS
    <2>3. PICK n : n = Cardinality(earlier(x))
      OBVIOUS
    <2>4. R \subseteq Nat /\ n \in R /\ n \in Nat
      BY <1>1, <2>1, <2>2, <2>3
    <2>5. PICK S : S = {y \in 1..(n + 1) : y - 1 \in R}
      OBVIOUS
    <2>6. n + 1 \in S /\ S \subseteq 1..(n + 1) /\ n + 1 \in Nat
      BY <2>4, <2>5
    <2>7. PICK k : k = Min(S)
      OBVIOUS
    <2>8. k \in S /\ \A y \in S : k <= y
      BY <2>6, <2>7, Extremes
    <2>9. k - 1 \in R /\ k \in 1..(n + 1)
      BY <2>5, <2>8
    <2>10. ASSUME NEW y \in R PROVE k - 1 <= y
      <3>1. y \in Nat /\ y + 1 - 1 = y
        BY <2>4
      <3>2. CASE y <= n
        <4>1. y + 1 \in S
          BY <2>4, <2>5, <3>1, <3>2
        <4>2. k <= y + 1
          BY <2>8, <4>1
        <4> QED  BY <2>9, <3>1, <4>2
      <3>3. CASE ~(y <= n)
        BY <2>4, <2>9, <3>1, <3>3
      <3> QED  BY <3>2, <3>3
    <2> QED  BY <2>1, <2>9, <2>10
  <1>4. PICK p \in L : m = Cardinality(earlier(p))
    BY <1>3
  <1>5. ASSUME NEW q \in L, p # q PROVE Precedes(p, q)
    <2>1. Precedes(p, q) \/ Precedes(q, p)
      BY <1>5, PrecedesTotal
    <2>2. ~Precedes(q, p)
      <3>1. m <= Cardinality(earlier(q))
        BY <1>3
      <3>2. Cardinality(earlier(p)) \in Nat /\ Cardinality(earlier(q)) \in Nat
        BY <1>1
      <3> QED  BY <1>2, <1>4, <3>1, <3>2
    <2> QED  BY <2>1, <2>2
  <1> QED  BY <1>5

\* The labels of a function are not changed by the compiler.
LabelsIn(f) == {p \in DOMAIN body : p # <<>> /\ body[p].kind = "label" /\ Routine(p) = f}

\* No label ever becomes unknown.
LEMMA LabelsAre ==
    ASSUME body \in Bodies, NoneHidden
    PROVE  \A f : LabelsOf(f) = LabelsIn(f)
  <1>1. \A p \in DOMAIN body : Kind(p) = "label" <=> body[p].kind = "label"
    BY PlainKinds
  <1>2. \A p \in DOMAIN body : Len(p) > 0 <=> p # <<>>
    <2> TAKE p \in DOMAIN body
    <2>1. p \in Seq(Nat)
      BY BodyFacts DEF Paths
    <2>2. Len(p) \in Nat /\ (Len(p) = 0 <=> p = <<>>)
      BY <2>1
    <2> QED  BY <2>2
  <1> QED  BY <1>1, <1>2 DEF LabelsOf, LabelsIn

\* find_labels() knows the first label of each name.
LEMMA FirstNamedFacts ==
    ASSUME body \in Bodies, NoneHidden, NEW f, NEW l \in LabelsOf(f), NEW name, name = Name(l)
    PROVE  FirstNamed(f, name) \in LabelsOf(f) /\ Name(FirstNamed(f, name)) = name
  <1>1. PICK L : L = {q \in LabelsOf(f) : Name(q) = name}
    OBVIOUS
  <1>2. /\ L \subseteq Paths /\ L \subseteq DOMAIN body /\ l \in L
        /\ \A q \in L : q # <<>> /\ body[q].kind = "label"
    BY <1>1, LabelsAre, BodyFacts DEF LabelsIn
  <1>3. IsFiniteSet(L)
    <2>1. IsFiniteSet(DOMAIN body)
      BY BodiesAssumption DEF IsBody
    <2> QED  BY <1>2, <2>1, FS_Subset
  <1>4. \A p, q \in L : IsPrefix(p, q) => p = q
    <2> TAKE p, q \in L
    <2>1. "label" \in Leaves
      BY DEF Leaves
    <2>2. IsPrefix(p, q) => p \in Around(q)
      BY <1>2 DEF Around, Enclosing, IsStrictPrefix
    <2> QED  BY <1>2, <2>1, <2>2, LeafFacts
  <1>5. PICK p \in L : \A q \in L : p = q \/ Precedes(p, q)
    BY <1>2, <1>3, <1>4, FirstExists
  <1>6. p \in LabelsOf(f) /\ Name(p) = name
        /\ \A q \in LabelsOf(f) : Name(q) = name => p = q \/ Precedes(p, q)
    BY <1>1, <1>5
  <1>7. \E x \in LabelsOf(f) :
            /\ Name(x) = name
            /\ \A q \in LabelsOf(f) : Name(q) = name => x = q \/ Precedes(x, q)
    BY <1>6
  <1> QED  BY <1>7, Zenon DEF FirstNamed

\* The labels known are those of the functions being compiled, each by its name.
LabelsInv(s, k) ==
    /\ \A key \in DOMAIN k : k[key] \in LabelsIn(key[1]) /\ Name(k[key]) = key[2]
    /\ \A i \in 1..Len(s) : \A l \in LabelsIn(s[i].owner) : <<s[i].owner, Name(l)>> \in DOMAIN k

\* find_labels() keeps what is known and adds the labels of f.
LEMMA FindLabelsFacts ==
    ASSUME body \in Bodies, NoneHidden, NEW f, NEW k, k = FindLabels(f, DOMAIN labels)
    PROVE  /\ \A key \in DOMAIN labels : key \in DOMAIN k /\ k[key] = labels[key]
           /\ \A l \in LabelsIn(f) : <<f, Name(l)>> \in DOMAIN k
           /\ \A key \in DOMAIN k : key \in DOMAIN labels
                                    \/ (k[key] \in LabelsIn(key[1]) /\ Name(k[key]) = key[2])
  <1>1. LabelsOf(f) = LabelsIn(f)
    BY LabelsAre
  <1>2. PICK known : known = DOMAIN labels
    OBVIOUS
  <1>3. k = [key \in known \union {<<f, Name(p)>> : p \in LabelsIn(f)} |->
                IF key \in known THEN labels[key] ELSE FirstNamed(f, key[2])]
    BY <1>1, <1>2 DEF FindLabels
  <1>4. ASSUME NEW key \in DOMAIN k, key \notin known
        PROVE  k[key] \in LabelsIn(key[1]) /\ Name(k[key]) = key[2]
    <2>1. PICK l \in LabelsIn(f) : key = <<f, Name(l)>>
      BY <1>3, <1>4
    <2>2. PICK name : name = Name(l)
      OBVIOUS
    <2>3. key[1] = f /\ key[2] = name /\ k[key] = FirstNamed(f, name)
      BY <1>3, <1>4, <2>1, <2>2
    <2>4. FirstNamed(f, name) \in LabelsIn(f) /\ Name(FirstNamed(f, name)) = name
      BY <1>1, <2>2, FirstNamedFacts
    <2> QED  BY <2>3, <2>4
  <1> QED  BY <1>2, <1>3, <1>4

\* The labels of a body that does not change.
LEMMA SameLabels ==
    ASSUME body' = body
    PROVE  /\ \A f : LabelsIn(f)' = LabelsIn(f)
           /\ \A p : Routine(p)' = Routine(p) /\ Name(p)' = Name(p)
           /\ LabelsInv(stack, labels)' <=> LabelsInv(stack', labels')
  <1>1. \A p : Routine(p)' = Routine(p) /\ Name(p)' = Name(p)
    <2>1. ASSUME NEW p PROVE Routine(p)' = Routine(p)
      <3>1. Enclosing(p)' = Enclosing(p)
        BY Zenon DEF Enclosing
      <3> QED  BY <3>1, Zenon DEF Routine, Innermost
    <2>2. ASSUME NEW p PROVE Name(p)' = Name(p)
      BY Zenon DEF Name
    <2> QED  BY <2>1, <2>2, Zenon
  <1>2. ASSUME NEW f PROVE LabelsIn(f)' = LabelsIn(f)
    <2>1. ASSUME NEW q PROVE q \in LabelsIn(f)' <=> q \in LabelsIn(f)
      BY <1>1, Zenon DEF LabelsIn
    <2> QED  BY <2>1, Zenon
  <1>3. LabelsInv(stack, labels)' <=> LabelsInv(stack', labels')
    BY <1>1, <1>2, Zenon DEF LabelsInv
  <1> QED  BY <1>1, <1>2, <1>3, Zenon

\* A directive which is no function has no label of its own.
LEMMA NoLabels ==
    ASSUME body \in Bodies, NEW c \in DOMAIN body \ {<<>>}, body[c].kind \notin FunctionKinds
    PROVE  LabelsIn(c) = {}
  <1> SUFFICES ASSUME NEW l \in LabelsIn(c) PROVE FALSE
    OBVIOUS
  <1>1. l \in DOMAIN body \ {<<>>} /\ Routine(l) = c
    BY DEF LabelsIn
  <1>2. body[c].kind \in RoutineKinds
    BY <1>1, RoutineFacts
  <1>3. body[c].kind \in Leaves \union Compounds /\ "program" \notin Leaves \union Compounds
    BY BodyFacts DEF Leaves, Compounds, LoopKinds, FunctionKinds
  <1> QED  BY <1>2, <1>3 DEF RoutineKinds

\* What a call is after a step: it goes on...
Passed(h, g, e) ==
    /\ FrameOK(h) /\ h.idx <= Size(h) /\ e \in BOOLEAN /\ g = Advance(h, e)
    /\ \/ /\ h = Top /\ AtCurrent(Current(h)) /\ e = (h.ending \/ Kind(Current(h)) \in TerminalKinds)
          /\ Current(h) \in unknown \/ body[Current(h)].kind \in Leaves
       \/ /\ AtEnd(Top) /\ Top.owner = Current(h) /\ Top.list = Len(Sizes(Top.owner))
          /\ e = IF body[Top.owner].kind = "list" THEN Top.ending ELSE h.ending

\* ... or it is new.
Called(g) ==
    \/ /\ AtCurrent(g.owner) /\ g.owner \notin unknown /\ body[g.owner].kind \in Compounds
       /\ g.list = 1 /\ ~g.again /\ ~g.ending /\ ~g.noAccess /\ g.idx = NextOf(g.owner, 1, 0, removed)
       /\ removed' = removed
    \/ /\ AtEnd(Top) /\ g.owner = Top.owner /\ ~g.ending /\ ~g.noAccess
       /\ g.idx = NextOf(g.owner, g.list, 0, removed')
       /\ \/ g.list = 1 /\ g.again /\ body[g.owner].kind = "function"
          \/ g.list = Top.list + 1 /\ ~g.again /\ removed' = removed

\* Every call after a step is one from before, one that went on, or a new one.
LEMMA CallsAfter ==
    ASSUME CallsInv, Works, NEW j \in 1..Len(stack')
    PROVE  \/ j \in 1..Len(stack) /\ stack'[j] = stack[j]
           \/ \E h, e : j \in 1..Len(stack) /\ h = stack[j] /\ Passed(h, stack'[j], e)
           \/ Called(stack'[j])
  <1>1. body \in Bodies /\ stack \in Seq(Frames) /\ Chain(stack)
    BY DEF CallsInv, StackInv
  <1>2. stack # <<>> => FrameOK(Top) /\ Top = Last(stack)
    BY TopFacts DEF Top
  <1>3. CASE \E f, c, e, g : PassStep(f, c, e, g)
    <2>1. PICK f, c, e, g : PassStep(f, c, e, g)
      BY <1>3, Zenon
    <2>2. /\ stack # <<>> /\ f = Last(stack) /\ f.idx <= Size(f) /\ e \in BOOLEAN
          /\ g = Advance(f, e) /\ stack' = [stack EXCEPT ![Len(stack)] = g]
          /\ c = Current(f) /\ AtCurrent(c) /\ e = (f.ending \/ Kind(c) \in TerminalKinds)
          /\ (c \in unknown \/ body[c].kind \in Leaves)
      BY <2>1 DEF PassStep, AtTop, AtCurrent, Top
    <2>3. FrameOK(f)
      BY <1>2, <2>2 
    <2>4. Onward(f, g, f.idx, removed)
      BY <1>1, <2>2, <2>3, AdvanceFacts
    <2>5. g \in Frames /\ g.owner = f.owner
      BY <2>4 DEF Onward, FrameOK
    <2>6. PICK t, n : t = stack' /\ n = Len(stack)
      OBVIOUS
    <2>7. /\ Len(t) = n /\ n \in Nat \ {0} /\ t[n] = g /\ \A i \in 1..n : i # n => t[i] = stack[i]
          /\ Last(stack) = stack[n]
      BY <1>1, <2>2, <2>5, <2>6, TopReplaced
    <2>8. Passed(f, g, e)
      BY <1>2, <2>2, <2>3 DEF Passed
    <2> QED  BY <2>2, <2>6, <2>7, <2>8
  <1>4. CASE \E f, c, g : EnterStep(f, c, g)
    <2>1. PICK f, c, g : EnterStep(f, c, g)
      BY <1>4, Zenon
    <2>2. /\ AtTop(f, c) /\ c \notin unknown /\ body[c].kind \in Compounds
          /\ g = Frame(c, 1, Len(scope), FALSE, removed) /\ stack' = Append(stack, g)
          /\ removed' = removed
      BY <2>1 DEF EnterStep
    <2>3. AtCurrent(c)
      BY <2>2 DEF AtCurrent, AtTop, Top
    <2>4. Called(g)
      <3>1. PICK b : b = Len(scope)
        OBVIOUS
      <3>2. g = Frame(c, 1, b, FALSE, removed)
        BY <2>2, <3>1
      <3>3. /\ g.owner = c /\ g.list = 1 /\ g.idx = NextOf(c, 1, 0, removed)
            /\ ~g.ending /\ ~g.noAccess /\ ~g.again
        BY <3>2 DEF Frame
      <3> QED  BY <2>2, <2>3, <3>3, Zenon DEF Called
    <2>5. PICK t, n : t = stack' /\ n = Len(stack)
      OBVIOUS
    <2>6. /\ Len(t) = n + 1 /\ n \in Nat /\ \A i \in 1..n : t[i] = stack[i]
          /\ t[n + 1] = g
      <3>1. c \in DOMAIN body
        BY <1>1, <1>2, <2>2, CurrentFacts DEF AtTop
      <3>2. Len(Sizes(c)) \in Nat /\ Len(Sizes(c)) \in ListCounts(body[c].kind)
        BY <1>1, <3>1, BodyFacts
      <3>3. ListCounts(body[c].kind) \subseteq {1, 2}
        BY <2>2, ListCountFacts
      <3>4. 1 \in 1..Len(Sizes(c))
        BY <3>2, <3>3
      <3>5. Len(scope) \in Nat
        BY DEF CallsInv, ScopeInv
      <3>6. g \in Frames
        BY <1>1, <2>2, <3>1, <3>4, <3>5, FrameFacts DEF FrameOK
      <3>7. t = Append(stack, g) /\ n = Len(stack) /\ stack \in Seq(Frames)
        BY <1>1, <2>2, <2>5
      <3> QED  BY <3>6, <3>7, CallPushed
    <2>7. j \in 1..n \/ j = n + 1
      BY <2>5, <2>6
    <2> QED  BY <2>4, <2>5, <2>6, <2>7
  <1>5. CASE \E f, g : ListStep(f, g)
    <2>1. PICK f, g : ListStep(f, g)
      BY <1>5, Zenon
    <2>2. stack # <<>> /\ f = Last(stack) /\ stack' = Append(Front(stack), g) /\ AtEnd(f)
          /\ g = Frame(f.owner, g.list, f.base, g.again, removed')
          /\ \/ g.list = 1 /\ g.again = TRUE /\ body[f.owner].kind = "function"
             \/ g.list = f.list + 1 /\ removed' = removed /\ g.again = FALSE
      BY <2>1 DEF ListStep, AtEnd
    <2>7. Called(g)
      <3>1. PICK o, k, b, a : o = f.owner /\ k = g.list /\ b = f.base /\ a = g.again
        OBVIOUS
      <3>2. g = Frame(o, k, b, a, removed')
        BY <2>2, <3>1
      <3>3. g.owner = o /\ g.idx = NextOf(o, k, 0, removed') /\ ~g.ending /\ ~g.noAccess
        BY <3>2 DEF Frame
      <3> QED  BY <1>2, <2>2, <3>1, <3>3, Zenon DEF Called
    <2>3. PICK d, n, t : d = Front(stack) /\ n = Len(stack) /\ t = stack'
      OBVIOUS
    <2>4. /\ n \in Nat \ {0} /\ Last(stack) = stack[n] /\ d \in Seq(Frames) /\ Len(d) = n - 1
          /\ \A i \in 1..(n - 1) : d[i] = stack[i]
      BY <1>1, <2>2, <2>3, FrontPlaces
    <2>5. Len(t) = n /\ t[n] = g /\ \A i \in 1..(n - 1) : t[i] = d[i]
      BY <2>2, <2>3, <2>4
    <2>6. j \in 1..(n - 1) \/ j = n
      BY <2>3, <2>4, <2>5
    <2> QED  BY <2>3, <2>4, <2>5, <2>6, <2>7
  <1>6. CASE \E f, e : PopStep(f, e)
    <2>1. PICK f, e : PopStep(f, e)
      BY <1>6, Zenon
    <2>2. PICK d, n, t : d = Front(stack) /\ n = Len(stack) /\ t = stack'
      OBVIOUS
    <2>3. stack # <<>>
      BY <2>1 DEF PopStep, AtEnd
    <2>4. /\ n \in Nat \ {0} /\ d \in Seq(Frames) /\ Len(d) = n - 1
          /\ \A i \in 1..(n - 1) : d[i] = stack[i]
      BY <1>1, <2>2, <2>3, FrontPlaces
    <2>5. d # <<>>
      <3>1. \/ d = <<>> /\ t = <<>>
            \/ d # <<>>
        BY <2>1, <2>2 DEF PopStep
      <3> QED  BY <2>2, <3>1
    <2>6. e \in BOOLEAN /\ t = [d EXCEPT ![Len(d)] = Advance(Last(d), e)]
      BY <2>1, <2>2, <2>5 DEF PopStep
    <2>7. PICK h, x, m : h = Last(d) /\ x = Advance(h, e) /\ m = n - 1
      OBVIOUS
    <2>8. h = d[m] /\ m \in 1..n /\ m # n /\ h = stack[m] /\ FrameOK(h) /\ m \in Nat \ {0}
      <3>1. m \in Nat \ {0}
        BY <2>4, <2>5, <2>7
      <3>2. h = d[m]
        BY <2>4, <2>5, <2>7, FrontPlaces
      <3> QED  BY <1>1, <2>2, <2>4, <2>7, <3>1, <3>2 DEF Chain
    <2>9. Passed(h, x, e)
      <3>1. AtEnd(f) /\ f = Top /\ f.list = Len(Sizes(f.owner))
        BY <1>2, <2>1 DEF PopStep, AtEnd
      <3>2. e = IF body[f.owner].kind = "list" THEN f.ending ELSE h.ending
        BY <2>1, <2>2, <2>5, <2>7 DEF PopStep
      <3>3. h.idx <= Size(h) /\ Current(h) = f.owner
        <4>1. f = stack[n] /\ n \in 1..n /\ n = m + 1
          BY <2>2, <2>3, <2>4, <2>7, <3>1, FrontPlaces, <1>1 DEF Top
        <4> QED  BY <1>1, <2>2, <2>8, <4>1 DEF Chain
      <3>4. e \in BOOLEAN /\ x = Advance(h, e)
        BY <2>6, <2>7
      <3> QED  BY <2>8, <3>1, <3>2, <3>3, <3>4, Zenon DEF Passed
    <2>10. Len(t) = m /\ t[m] = x /\ \A i \in 1..m : i # m => t[i] = d[i]
      BY <2>4, <2>6, <2>7, <2>8
    <2>11. j \in 1..m /\ \A i \in 1..m : i \in 1..n /\ i \in 1..(n - 1)
      BY <2>2, <2>4, <2>7, <2>8, <2>10
    <2> QED  BY <2>2, <2>4, <2>8, <2>9, <2>10, <2>11
  <1> QED  BY <1>3, <1>4, <1>5, <1>6, Shapes DEF Classified

\* The owner of a call is that of one before, or the directive reached.
LEMMA OwnersStep ==
    ASSUME CallsInv, Works, NEW j \in 1..Len(stack')
    PROVE  \/ \E i \in 1..Len(stack) : stack'[j].owner = stack[i].owner
           \/ /\ AtCurrent(stack'[j].owner) /\ stack'[j].owner \notin unknown
              /\ body[stack'[j].owner].kind \in Compounds
  <1>1. PICK g : g = stack'[j]
    OBVIOUS
  <1>2. CASE \E h, e : j \in 1..Len(stack) /\ h = stack[j] /\ Passed(h, g, e)
    <2>1. PICK h, e : j \in 1..Len(stack) /\ h = stack[j] /\ Passed(h, g, e)
      BY <1>2
    <2>2. g.owner = h.owner
      BY <2>1 DEF Passed, Advance
    <2> QED  BY <1>1, <2>1, <2>2
  <1>3. CASE Called(g)
    <2>1. CASE AtEnd(Top) /\ g.owner = Top.owner
      <3>1. stack \in Seq(Frames) /\ stack # <<>>
        BY <2>1 DEF CallsInv, StackInv, AtEnd
      <3>2. Len(stack) \in 1..Len(stack) /\ Top = stack[Len(stack)]
        BY <3>1, FrontPlaces DEF Top
      <3> QED  BY <1>1, <2>1, <3>2
    <2> QED  BY <1>1, <1>3, <2>1 DEF Called
  <1> QED  BY <1>1, <1>2, <1>3, CallsAfter

\* Where a goto leads: a label of its function with its name, out of the list around both.
Led(p, target, place) ==
    /\ target \in LabelsIn(Routine(p)) /\ Name(target) = Name(p)
    /\ place = LongestCommonPrefix({Front(p), Front(target)})

Gone(p, s, en, ex, err) ==
    /\ p \in DOMAIN en => p \in DOMAIN ex /\ Led(p, en[p], ex[p])
    /\ Live(p) /\ Seen(p, s) /\ p \notin DOMAIN en =>
            /\ Blamed(p, "LABEL_NOT_FOUND", err)
            /\ \A l \in LabelsIn(Routine(p)) : Name(l) # Name(p)

GotoInv ==
    /\ LabelsInv(stack, labels)
    /\ \A p \in DOMAIN body \ {<<>>} :
            body[p].kind = "goto" => Gone(p, stack, enters, exits, errors)

\* What a step does to the labels.
LEMMA LabelsStep ==
    ASSUME CallsInv, LabelsInv(stack, labels), Works
    PROVE  LabelsInv(stack', labels')
  <1>1. body \in Bodies /\ NoneHidden /\ Chain(stack)
    BY DEF CallsInv, StackInv, NoneHidden
  <1>2. \/ labels' = labels
        \/ \E f \in DOMAIN body : labels' = FindLabels(f, DOMAIN labels)
    BY Doing, Zenon DEF Jumping, Going, Otherwise
  <1>3. /\ \A key \in DOMAIN labels : key \in DOMAIN labels' /\ labels'[key] = labels[key]
        /\ \A key \in DOMAIN labels' : \/ key \in DOMAIN labels
                                       \/ /\ labels'[key] \in LabelsIn(key[1])
                                          /\ Name(labels'[key]) = key[2]
    <2>1. CASE labels' = labels
      BY <2>1
    <2>2. ASSUME NEW f \in DOMAIN body, labels' = FindLabels(f, DOMAIN labels)
          PROVE  /\ \A key \in DOMAIN labels : key \in DOMAIN labels' /\ labels'[key] = labels[key]
                 /\ \A key \in DOMAIN labels' : \/ key \in DOMAIN labels
                                                \/ /\ labels'[key] \in LabelsIn(key[1])
                                                   /\ Name(labels'[key]) = key[2]
      <3>1. PICK k : k = labels'
        OBVIOUS
      <3>2. k = FindLabels(f, DOMAIN labels)
        BY <2>2, <3>1
      <3> QED  BY <1>1, <3>1, <3>2, FindLabelsFacts
    <2> QED  BY <1>2, <2>1, <2>2
  <1>4. ASSUME NEW key \in DOMAIN labels'
        PROVE  labels'[key] \in LabelsIn(key[1]) /\ Name(labels'[key]) = key[2]
    BY <1>3 DEF LabelsInv
  <1>5. ASSUME NEW j \in 1..Len(stack'), NEW l \in LabelsIn(stack'[j].owner)
        PROVE  <<stack'[j].owner, Name(l)>> \in DOMAIN labels'
    <2>1. PICK c : c = stack'[j].owner
      OBVIOUS
    <2>2. CASE \E i \in 1..Len(stack) : c = stack[i].owner
      <3>1. <<c, Name(l)>> \in DOMAIN labels
        BY <1>5, <2>1, <2>2 DEF LabelsInv
      <3> QED  BY <1>3, <2>1, <3>1
    <2>3. CASE AtCurrent(c) /\ c \notin unknown /\ body[c].kind \in Compounds
      <3>1. c \in DOMAIN body \ {<<>>}
        BY <2>3, TopFacts DEF AtCurrent, AtTop
      <3>2. body[c].kind \in FunctionKinds
        BY <1>1, <1>5, <2>1, <3>1, NoLabels
      <3>3. Kind(c) = body[c].kind
        BY <2>3 DEF Kind
      <3>4. \A q : AtCurrent(q) => q = c
        BY <2>3 DEF AtCurrent, AtTop
      <3>5. body[c].kind \notin JumpKinds \union {"goto"}
        BY <3>2 DEF FunctionKinds, JumpKinds
      <3>6. Otherwise
        BY <3>3, <3>4, <3>5, Doing DEF Jumping, Going
      <3>7. labels' = FindLabels(c, DOMAIN labels)
        BY <2>3, <3>2, <3>3, <3>6 DEF Otherwise
      <3>8. PICK k : k = labels'
        OBVIOUS
      <3>9. k = FindLabels(c, DOMAIN labels)
        BY <3>7, <3>8
      <3>10. <<c, Name(l)>> \in DOMAIN k
        BY <1>1, <1>5, <2>1, <3>9, FindLabelsFacts
      <3> QED  BY <2>1, <3>8, <3>10
    <2> QED  BY <2>1, <2>2, <2>3, OwnersStep
  <1> QED  BY <1>4, <1>5 DEF LabelsInv

\* The function in which a directive is compiled is one of those being compiled.
LEMMA RoutineCalled ==
    ASSUME CallsInv, NEW p, AtCurrent(p)
    PROVE  p \in DOMAIN body \ {<<>>} /\ \E i \in 1..Len(stack) : stack[i].owner = Routine(p)
  <1>1. /\ body \in Bodies /\ stack \in Seq(Frames) /\ Chain(stack) /\ stack # <<>>
        /\ p = Current(Top) /\ FrameOK(Top) /\ Top.idx <= Size(Top)
    BY TopFacts DEF CallsInv, StackInv, AtCurrent, AtTop
  <1>2. p \in DOMAIN body \ {<<>>} /\ Owner(p) = Top.owner
    BY <1>1, CurrentFacts DEF IsChild
  <1>3. Routine(p) \in Around(Top.owner)
    BY <1>1, <1>2, RoutineFacts, AroundFacts
  <1>4. PICK n : n = Len(stack)
    OBVIOUS
  <1>5. n \in Nat \ {0} /\ Top = stack[n]
    BY <1>1, <1>4, FrontPlaces DEF Top
  <1>6. \E i \in 1..n : stack[i].owner = Routine(p)
    <2>1. n \in 1..Len(stack) /\ Routine(p) \in Around(stack[n].owner)
      BY <1>3, <1>4, <1>5
    <2> QED  BY <1>1, <1>5, <2>1, ChainCovers
  <1> QED  BY <1>2, <1>4, <1>6

\* What a step does to a goto.
LEMMA GotoEffects ==
    ASSUME CallsInv, GotoInv, Works, NEW p \in DOMAIN body \ {<<>>}, body[p].kind = "goto"
    PROVE  /\ AtCurrent(p) =>
                \/ p \in DOMAIN enters' /\ p \in DOMAIN exits' /\ Led(p, enters'[p], exits'[p])
                \/ /\ UNCHANGED <<enters, exits>> /\ Blamed(p, "LABEL_NOT_FOUND", errors')
                   /\ \A l \in LabelsIn(Routine(p)) : Name(l) # Name(p)
           /\ ~AtCurrent(p) => /\ p \in DOMAIN enters' <=> p \in DOMAIN enters
                               /\ p \in DOMAIN enters =>
                                    /\ p \in DOMAIN exits'
                                    /\ enters'[p] = enters[p] /\ exits'[p] = exits[p]
  <1>1. \A q, r : AtCurrent(q) /\ AtCurrent(r) => q = r
    BY DEF AtCurrent, AtTop
  <1>2. \A q, w : Error(q, w).at = q /\ Error(q, w).what = w
    BY DEF Error
  <1>3. body \in Bodies /\ NoneHidden /\ LabelsInv(stack, labels)
    BY DEF CallsInv, StackInv, NoneHidden, GotoInv
  <1>4. Kind(p) = "goto" /\ Kind(p) \notin JumpKinds
    BY <1>3, PlainKinds DEF JumpKinds
  <1>5. p \in DOMAIN enters => p \in DOMAIN exits
    BY DEF GotoInv, Gone
  <1>6. ASSUME NEW q \in DOMAIN body, Jumping(q)
        PROVE  /\ ~AtCurrent(p)
               /\ p \in DOMAIN enters' <=> p \in DOMAIN enters
               /\ p \in DOMAIN enters =>
                    p \in DOMAIN exits' /\ enters'[p] = enters[p] /\ exits'[p] = exits[p]
    <2>1. AtCurrent(q) /\ q # p /\ enters' = enters
      BY <1>4, <1>6 DEF Jumping
    <2>2. exits' = exits \/ exits' = Recorded(exits, q, BreakTarget(q))
      BY <1>6 DEF Jumping
    <2>3. p \in DOMAIN exits => p \in DOMAIN exits' /\ exits'[p] = exits[p]
      BY <2>1, <2>2 DEF Recorded
    <2> QED  BY <1>1, <1>5, <2>1, <2>3
  <1>7. ASSUME NEW q \in DOMAIN body, Going(q), q # p
        PROVE  /\ ~AtCurrent(p)
               /\ p \in DOMAIN enters' <=> p \in DOMAIN enters
               /\ p \in DOMAIN enters =>
                    p \in DOMAIN exits' /\ enters'[p] = enters[p] /\ exits'[p] = exits[p]
    <2>1. AtCurrent(q)
      BY <1>7 DEF Going
    <2>2. \/ enters' = enters /\ exits' = exits
          \/ \E x, y : enters' = Recorded(enters, q, x) /\ exits' = Recorded(exits, q, y)
      BY <1>7, Zenon DEF Going
    <2>3. /\ p \in DOMAIN enters' <=> p \in DOMAIN enters
          /\ p \in DOMAIN enters => enters'[p] = enters[p]
          /\ p \in DOMAIN exits => p \in DOMAIN exits' /\ exits'[p] = exits[p]
      BY <1>7, <2>2 DEF Recorded
    <2> QED  BY <1>1, <1>5, <1>7, <2>1, <2>3
  <1>8. ASSUME Going(p)
        PROVE  /\ AtCurrent(p)
               /\ \/ /\ p \in DOMAIN enters' /\ p \in DOMAIN exits'
                     /\ Led(p, enters'[p], exits'[p])
                  \/ /\ UNCHANGED <<enters, exits>> /\ Blamed(p, "LABEL_NOT_FOUND", errors')
                     /\ \A l \in LabelsIn(Routine(p)) : Name(l) # Name(p)
    <2>1. PICK r, key : r = Routine(p) /\ key = <<r, Name(p)>>
      OBVIOUS
    <2>2. /\ AtCurrent(p)
          /\ \/ /\ key \in DOMAIN labels
                /\ enters' = Recorded(enters, p, labels[key])
                /\ exits' = Recorded(exits, p, LongestCommonPrefix({Front(p), Front(labels[key])}))
             \/ /\ key \notin DOMAIN labels
                /\ Error(p, "LABEL_NOT_FOUND") \in errors'
                /\ UNCHANGED <<enters, exits>>
      BY <1>8, <2>1, Zenon DEF Going
    <2>3. CASE key \in DOMAIN labels
      <3>1. PICK l, y : l = labels[key] /\ y = LongestCommonPrefix({Front(p), Front(l)})
        OBVIOUS
      <3>2. l \in LabelsIn(key[1]) /\ Name(l) = key[2]
        BY <1>3, <2>3, <3>1 DEF LabelsInv
      <3>3. key[1] = Routine(p) /\ key[2] = Name(p)
        BY <2>1
      <3>4. enters' = Recorded(enters, p, l) /\ exits' = Recorded(exits, p, y)
        BY <2>2, <2>3, <3>1
      <3>5. p \in DOMAIN enters' /\ p \in DOMAIN exits' /\ enters'[p] = l /\ exits'[p] = y
        BY <3>4 DEF Recorded
      <3>6. Led(p, l, y)
        BY <3>1, <3>2, <3>3 DEF Led
      <3> QED  BY <2>2, <3>5, <3>6
    <2>4. CASE key \notin DOMAIN labels
      <3>1. Blamed(p, "LABEL_NOT_FOUND", errors')
        BY <1>2, <2>2, <2>4 DEF Blamed
      <3>2. PICK i \in 1..Len(stack) : stack[i].owner = r
        BY <2>1, <2>2, RoutineCalled
      <3>3. \A l \in LabelsIn(r) : <<r, Name(l)>> \in DOMAIN labels
        BY <1>3, <3>2 DEF LabelsInv
      <3>4. \A l \in LabelsIn(Routine(p)) : Name(l) # Name(p)
        BY <2>1, <2>4, <3>3
      <3> QED  BY <2>2, <2>4, <3>1, <3>4
    <2> QED  BY <2>3, <2>4
  <1>9. CASE Otherwise
    BY <1>4, <1>5, <1>9 DEF Otherwise
  <1> QED  BY <1>6, <1>7, <1>8, <1>9, Doing

\* The gotos of a body that does not change.
LEMMA SameGone ==
    ASSUME body' = body
    PROVE  \A p : Gone(p, stack, enters, exits, errors)' <=> Gone(p, stack', enters', exits', errors')
  <1> SUFFICES ASSUME NEW p
               PROVE  Gone(p, stack, enters, exits, errors)'
                      <=> Gone(p, stack', enters', exits', errors')
    OBVIOUS
  <1>1. /\ \A f : LabelsIn(f)' = LabelsIn(f)
        /\ \A q : Routine(q)' = Routine(q) /\ Name(q)' = Name(q)
    BY SameLabels
  <1>2. (Live(p)' <=> Live(p)) /\ (Seen(p, stack)' <=> Seen(p, stack'))
    BY SameBody
  <1>3. Led(p, enters[p], exits[p])' <=> Led(p, enters'[p], exits'[p])
    BY <1>1, Zenon DEF Led
  <1>4. Blamed(p, "LABEL_NOT_FOUND", errors)' <=> Blamed(p, "LABEL_NOT_FOUND", errors')
    BY Zenon DEF Blamed
  <1>5. LabelsIn(Routine(p))' = LabelsIn(Routine(p))
    BY <1>1, Zenon
  <1>6. (\A l \in LabelsIn(Routine(p)) : Name(l) # Name(p))'
        <=> \A l \in LabelsIn(Routine(p)) : Name(l) # Name(p)
    BY <1>1, <1>5, Zenon
  <1> QED  BY <1>2, <1>3, <1>4, <1>6, Zenon DEF Gone

\* A step keeps the invariant of the gotos...
LEMMA GotoStep ==
    ASSUME CallsInv, GotoInv, Works
    PROVE  GotoInv'
  <1>1. /\ body' = body /\ errors \subseteq errors'
        /\ \A p \in DOMAIN body \ {<<>>} :
              Live(p) /\ Seen(p, stack') => Seen(p, stack) \/ AtCurrent(p)
    BY CallsStep
  <1>2. LabelsInv(stack', labels')
    BY LabelsStep DEF GotoInv
  <1>3. ASSUME NEW p \in DOMAIN body \ {<<>>}, body[p].kind = "goto"
        PROVE  Gone(p, stack', enters', exits', errors')
    <2>1. /\ AtCurrent(p) =>
                \/ p \in DOMAIN enters' /\ p \in DOMAIN exits' /\ Led(p, enters'[p], exits'[p])
                \/ /\ enters' = enters /\ exits' = exits /\ Blamed(p, "LABEL_NOT_FOUND", errors')
                   /\ \A l \in LabelsIn(Routine(p)) : Name(l) # Name(p)
          /\ ~AtCurrent(p) => /\ p \in DOMAIN enters' <=> p \in DOMAIN enters
                              /\ p \in DOMAIN enters =>
                                    /\ p \in DOMAIN exits'
                                    /\ enters'[p] = enters[p] /\ exits'[p] = exits[p]
      BY <1>3, GotoEffects
    <2>2. /\ p \in DOMAIN enters => p \in DOMAIN exits /\ Led(p, enters[p], exits[p])
          /\ Live(p) /\ Seen(p, stack) /\ p \notin DOMAIN enters =>
                /\ Blamed(p, "LABEL_NOT_FOUND", errors)
                /\ \A l \in LabelsIn(Routine(p)) : Name(l) # Name(p)
      BY <1>3 DEF GotoInv, Gone
    <2>3. Blamed(p, "LABEL_NOT_FOUND", errors) => Blamed(p, "LABEL_NOT_FOUND", errors')
      BY <1>1 DEF Blamed
    <2>4. p \in DOMAIN enters' => p \in DOMAIN exits' /\ Led(p, enters'[p], exits'[p])
      BY <2>1, <2>2
    <2>5. Live(p) /\ Seen(p, stack') /\ p \notin DOMAIN enters' =>
                /\ Blamed(p, "LABEL_NOT_FOUND", errors')
                /\ \A l \in LabelsIn(Routine(p)) : Name(l) # Name(p)
      BY <1>1, <2>1, <2>2, <2>3
    <2> QED  BY <2>4, <2>5 DEF Gone
  <1>4. LabelsInv(stack, labels)'
    BY <1>1, <1>2, SameLabels
  <1>5. (\A p \in DOMAIN body \ {<<>>} :
            body[p].kind = "goto" => Gone(p, stack, enters, exits, errors))'
    BY <1>1, <1>3, SameGone, Zenon
  <1> QED  BY <1>4, <1>5, Zenon DEF GotoInv

\* ... which holds at first.
LEMMA GotoInit ==
    ASSUME Init
    PROVE  GotoInv
  <1>1. CallsInv /\ \A p \in DOMAIN body \ {<<>>} : ~Seen(p, stack)
    BY CallsInit
  <1>2. body \in Bodies /\ NoneHidden
    BY <1>1 DEF CallsInv, StackInv, NoneHidden
  <1>3. /\ enters = <<>> /\ stack = <<Frame(<<>>, 1, 0, FALSE, {})>>
        /\ labels = [key \in {<<<<>>, Name(p)>> : p \in LabelsOf(<<>>)} |-> FirstNamed(<<>>, key[2])]
    BY Zenon DEF Init
  <1>4. LabelsOf(<<>>) = LabelsIn(<<>>)
    BY <1>2, LabelsAre
  <1>5. ASSUME NEW key \in DOMAIN labels
        PROVE  labels[key] \in LabelsIn(key[1]) /\ Name(labels[key]) = key[2]
    <2>1. PICK l \in LabelsIn(<<>>) : key = <<<<>>, Name(l)>>
      BY <1>3, <1>4, <1>5
    <2>2. PICK name, f : name = Name(l) /\ f = <<>>
      OBVIOUS
    <2>3. key[1] = f /\ key[2] = name /\ labels[key] = FirstNamed(f, name)
      BY <1>3, <1>5, <2>1, <2>2
    <2>4. FirstNamed(f, name) \in LabelsIn(f) /\ Name(FirstNamed(f, name)) = name
      BY <1>2, <1>4, <2>2, FirstNamedFacts
    <2> QED  BY <2>3, <2>4
  <1>6. ASSUME NEW i \in 1..Len(stack), NEW l \in LabelsIn(stack[i].owner)
        PROVE  <<stack[i].owner, Name(l)>> \in DOMAIN labels
    <2>1. i = 1
      BY <1>3
    <2>2. stack[i] = Frame(<<>>, 1, 0, FALSE, {})
      BY <1>3, <2>1
    <2>3. stack[i].owner = <<>>
      BY <2>2 DEF Frame
    <2> QED  BY <1>3, <1>4, <2>3
  <1>7. DOMAIN enters = {}
    BY <1>3
  <1>8. \A p \in DOMAIN body \ {<<>>} : Gone(p, stack, enters, exits, errors)
    BY <1>1, <1>7 DEF Gone
  <1> QED  BY <1>5, <1>6, <1>8 DEF GotoInv, LabelsInv

\* Every goto that was compiled, for every program: it has a label of its own function with its name, or
\* there is none and it was complained about.
THEOREM GotoInvariant == Spec => []GotoInv
  <1>1. Init => GotoInv
    BY GotoInit
  <1>2. CallsInv /\ GotoInv /\ [Next]_vars => GotoInv'
    <2>1. CallsInv /\ GotoInv /\ Works => GotoInv'
      BY GotoStep
    <2>2. GotoInv /\ UNCHANGED Held => GotoInv'
      <3> SUFFICES ASSUME GotoInv, UNCHANGED Held PROVE GotoInv'
        OBVIOUS
      <3>1. /\ body' = body /\ stack' = stack /\ labels' = labels /\ errors' = errors
            /\ exits' = exits /\ enters' = enters
        BY DEF Held
      <3>2. LabelsInv(stack, labels)'
        BY <3>1, SameLabels, Zenon DEF GotoInv
      <3>3. \A p : Gone(p, stack, enters, exits, errors)' <=> Gone(p, stack, enters, exits, errors)
        BY <3>1, SameGone, Zenon
      <3> QED  BY <3>1, <3>2, <3>3, Zenon DEF GotoInv
    <2> QED  BY <2>1, <2>2, StepCases
  <1> QED  BY <1>1, <1>2, CallsInvariant, PTL DEF Spec

-----------------------------------------------------------------------------
\* The longest common prefix of two paths.
LEMMA CommonPlaces ==
    ASSUME NEW a \in Paths, NEW b \in Paths, NEW e, e = LongestCommonPrefix({a, b})
    PROVE  /\ e \in Paths /\ Len(e) \in Nat /\ IsPrefix(e, a) /\ IsPrefix(e, b)
           /\ \A x \in Paths : IsPrefix(x, a) /\ IsPrefix(x, b) => Len(x) <= Len(e)
  <1>1. PICK C : C = CommonPrefixes({a, b})
    OBVIOUS
  <1>2. Len(a) \in Nat /\ Len(b) \in Nat
    BY PrefixPlaces
  <1>3. ASSUME NEW x PROVE x \in C <=> x \in Paths /\ IsPrefix(x, a) /\ IsPrefix(x, b)
    <2>1. ASSUME x \in C PROVE x \in Paths /\ IsPrefix(x, a) /\ IsPrefix(x, b)
      <3>1. IsPrefix(x, a) /\ IsPrefix(x, b) /\ \E s \in {a, b} : \E l \in 0..Len(s) : x = SubSeq(s, 1, l)
        BY <1>1, <2>1, Zenon DEF CommonPrefixes, Prefixes
      <3>2. PICK s \in {a, b} : \E l \in 0..Len(s) : x = SubSeq(s, 1, l)
        BY <3>1
      <3>5. PICK l \in 0..Len(s) : x = SubSeq(s, 1, l)
        BY <3>2
      <3>3. s \in Paths /\ l \in Nat /\ l <= Len(s)
        BY <1>2
      <3>4. x \in Paths
        BY <3>3, <3>5, SubSeqEqual
      <3> QED  BY <3>1, <3>4
    <2>2. ASSUME x \in Paths, IsPrefix(x, a), IsPrefix(x, b) PROVE x \in C
      <3>1. Len(x) \in Nat /\ Len(x) <= Len(a) /\ \A i \in 1..Len(x) : x[i] = a[i]
        BY <2>2, PrefixPlaces
      <3>2. PICK n, y : n = Len(x) /\ y = SubSeq(a, 1, n)
        OBVIOUS
      <3>3. y \in Paths /\ Len(y) = n /\ \A i \in 1..n : y[i] = a[i]
        BY <3>1, <3>2, SubSeqEqual
      <3>4. x = y
        BY <2>2, <3>1, <3>2, <3>3, SeqEqual DEF Paths
      <3>5. x = SubSeq(a, 1, n) /\ n \in 0..Len(a)
        BY <1>2, <3>1, <3>2, <3>4
      <3>6. x \in Prefixes(a)
        BY <3>5 DEF Prefixes
      <3> QED  BY <1>1, <2>2, <3>6, Zenon DEF CommonPrefixes
    <2> QED  BY <2>1, <2>2
  <1>4. <<>> \in C
    <2>1. <<>> \in Paths /\ Len(<<>>) = 0
      BY DEF Paths
    <2>2. IsPrefix(<<>>, a) /\ IsPrefix(<<>>, b)
      BY <1>2, <2>1, PrefixPlaces
    <2> QED  BY <1>3, <2>1, <2>2
  <1>5. \A x \in C : Len(x) \in Nat /\ Len(x) <= Len(a)
    BY <1>3, PrefixPlaces
  <1>6. PICK D : D = {Len(x) + 1 : x \in C}
    OBVIOUS
  <1>7. PICK n : n = Len(a)
    OBVIOUS
  <1>8. D \subseteq 1..(n + 1) /\ D # {} /\ n + 1 \in Nat
    BY <1>2, <1>4, <1>5, <1>6, <1>7
  <1>9. PICK m : m = Max(D)
    OBVIOUS
  <1>10. m \in D /\ \A y \in D : m >= y
    BY <1>8, <1>9, Extremes
  <1>11. PICK x \in C : m = Len(x) + 1
    BY <1>6, <1>10
  <1>12. \A y \in C : Len(y) <= Len(x)
    <2> TAKE y \in C
    <2>1. Len(y) + 1 \in D
      BY <1>6
    <2>2. m >= Len(y) + 1
      BY <1>10, <2>1
    <2>3. Len(y) \in Nat /\ Len(x) \in Nat
      BY <1>5
    <2> QED  BY <1>11, <2>2, <2>3
  <1>13. e = CHOOSE longest \in C : \A other \in C : Len(other) <= Len(longest)
    BY <1>1 DEF LongestCommonPrefix
  <1>14. e \in C /\ \A y \in C : Len(y) <= Len(e)
    BY <1>11, <1>12, <1>13
  <1> QED  BY <1>3, <1>5, <1>14

\* The list in which a directive is.
LEMMA FrontPrefix ==
    ASSUME NEW p \in Paths, p # <<>>
    PROVE  /\ Front(p) \in Paths /\ Len(p) \in Nat \ {0} /\ Len(Front(p)) = Len(p) - 1
           /\ \A i \in 1..(Len(p) - 1) : Front(p)[i] = p[i]
  BY FrontPlaces DEF Paths

\* Of two directives, neither of which is around the other, the smallest list around both is
\* where the ways to them part.
LEMMA PartsThere ==
    ASSUME NEW p \in Paths, NEW l \in Paths, p # <<>>, l # <<>>, ~IsPrefix(p, l), ~IsPrefix(l, p),
           NEW e, e = LongestCommonPrefix({Front(p), Front(l)})
    PROVE  /\ IsPrefix(e, p) /\ IsPrefix(e, l) /\ e # p /\ e # l
           /\ p[Len(e) + 1] # l[Len(e) + 1]
  <1>1. PICK a, b : a = Front(p) /\ b = Front(l)
    OBVIOUS
  <1>2. /\ a \in Paths /\ Len(p) \in Nat \ {0} /\ Len(a) = Len(p) - 1
        /\ \A i \in 1..(Len(p) - 1) : a[i] = p[i]
    BY <1>1, FrontPrefix
  <1>3. /\ b \in Paths /\ Len(l) \in Nat \ {0} /\ Len(b) = Len(l) - 1
        /\ \A i \in 1..(Len(l) - 1) : b[i] = l[i]
    BY <1>1, FrontPrefix
  <1>4. e = LongestCommonPrefix({a, b})
    BY <1>1
  <1>5. /\ e \in Paths /\ Len(e) \in Nat /\ IsPrefix(e, a) /\ IsPrefix(e, b)
        /\ \A x \in Paths : IsPrefix(x, a) /\ IsPrefix(x, b) => Len(x) <= Len(e)
    BY <1>2, <1>3, <1>4, CommonPlaces
  <1>6. PICK n : n = Len(e)
    OBVIOUS
  <1>7. /\ n \in Nat /\ n <= Len(a) /\ n <= Len(b)
        /\ \A i \in 1..n : e[i] = a[i] /\ e[i] = b[i]
    BY <1>2, <1>3, <1>5, <1>6, PrefixPlaces
  <1>8. /\ n < Len(p) /\ n < Len(l)
        /\ \A i \in 1..n : i \in 1..(Len(p) - 1) /\ i \in 1..(Len(l) - 1)
    BY <1>2, <1>3, <1>7
  <1>9. \A i \in 1..n : e[i] = p[i] /\ e[i] = l[i]
    BY <1>2, <1>3, <1>7, <1>8
  <1>10. IsPrefix(e, p) /\ IsPrefix(e, l) /\ e # p /\ e # l
    <2>0. n <= Len(p) /\ n <= Len(l)
      <3>1. Len(p) \in Nat /\ Len(l) \in Nat /\ n \in Nat
        BY <1>2, <1>3, <1>7
      <3> QED  BY <1>8, <3>1
    <2>1. Len(e) <= Len(p) /\ \A i \in 1..Len(e) : e[i] = p[i]
      BY <1>6, <1>9, <2>0
    <2>2. Len(e) <= Len(l) /\ \A i \in 1..Len(e) : e[i] = l[i]
      BY <1>6, <1>9, <2>0
    <2>3. IsPrefix(e, p) /\ IsPrefix(e, l)
      BY <1>5, <2>1, <2>2, PrefixPlaces
    <2>4. e # p /\ e # l
      BY <1>2, <1>3, <1>6, <1>7, <1>8
    <2> QED  BY <2>3, <2>4
  <1>11. ASSUME p[n + 1] = l[n + 1] PROVE FALSE
    <2>1. \A i \in 1..(n + 1) : p[i] = l[i]
      <3> TAKE i \in 1..(n + 1)
      <3>1. i \in 1..n \/ i = n + 1
        BY <1>7
      <3> QED  BY <1>9, <1>11, <3>1
    <2>2. CASE n + 1 = Len(p)
      <3>1. Len(p) <= Len(l) /\ \A i \in 1..Len(p) : p[i] = l[i]
        BY <1>2, <1>3, <1>7, <1>8, <2>1, <2>2
      <3> QED  BY <3>1, PrefixPlaces
    <2>3. CASE n + 1 = Len(l)
      <3>1. Len(l) <= Len(p) /\ \A i \in 1..Len(l) : l[i] = p[i]
        BY <1>2, <1>3, <1>7, <1>8, <2>1, <2>3
      <3> QED  BY <3>1, PrefixPlaces
    <2>4. CASE n + 1 < Len(p) /\ n + 1 < Len(l)
      <3>1. PICK k, x : k = n + 1 /\ x = SubSeq(a, 1, k)
        OBVIOUS
      <3>2. k \in Nat /\ k <= Len(a) /\ k <= Len(b) /\ \A i \in 1..k : i \in 1..(Len(p) - 1)
                                                               /\ i \in 1..(Len(l) - 1)
        BY <1>2, <1>3, <1>7, <2>4, <3>1
      <3>3. x \in Paths /\ Len(x) = k /\ \A i \in 1..k : x[i] = a[i]
        BY <1>2, <3>1, <3>2, SubSeqEqual
      <3>4. \A i \in 1..k : x[i] = b[i]
        BY <1>2, <1>3, <2>1, <3>1, <3>2, <3>3
      <3>5. IsPrefix(x, a) /\ IsPrefix(x, b)
        BY <1>2, <1>3, <3>2, <3>3, <3>4, PrefixPlaces
      <3>6. k <= n
        BY <1>5, <1>6, <3>3, <3>5
      <3> QED  BY <1>7, <3>1, <3>6
    <2> QED  BY <1>2, <1>3, <1>7, <1>8, <2>2, <2>3, <2>4
  <1> QED  BY <1>6, <1>10, <1>11

\* At the end every goto has its label or was complained about.
LEMMA GotosLand ==
    ASSUME CallsInv, GotoInv, stack = <<>>, NEW p \in Compiled, Kind(p) = "goto"
    PROVE  IF p \in DOMAIN enters
           THEN /\ enters[p] \in LabelsOf(Routine(p)) /\ Name(enters[p]) = Name(p)
                /\ IsPrefix(exits[p], p) /\ IsPrefix(exits[p], enters[p])
                /\ exits[p] # p /\ exits[p] # enters[p]
                /\ p[Len(exits[p]) + 1] # enters[p][Len(exits[p]) + 1]
           ELSE p \in Reported("LABEL_NOT_FOUND")
                /\ \A l \in LabelsOf(Routine(p)) : Name(l) # Name(p)
  <1>1. body \in Bodies /\ NoneHidden
    BY DEF CallsInv, StackInv, NoneHidden
  <1>2. p \in DOMAIN body \ {<<>>} /\ Live(p) /\ Seen(p, stack)
    BY AllSeen
  <1>3. body[p].kind = "goto"
    BY <1>1, <1>2, PlainKinds
  <1>4. \A f : LabelsOf(f) = LabelsIn(f)
    BY <1>1, LabelsAre
  <1>5. /\ p \in DOMAIN enters => Led(p, enters[p], exits[p])
        /\ p \notin DOMAIN enters =>
              /\ Blamed(p, "LABEL_NOT_FOUND", errors)
              /\ \A l \in LabelsIn(Routine(p)) : Name(l) # Name(p)
    BY <1>2, <1>3 DEF GotoInv, Gone
  <1>6. CASE p \notin DOMAIN enters
    BY <1>4, <1>5, <1>6 DEF Reported, Blamed
  <1>7. CASE p \in DOMAIN enters
    <2>1. PICK l, e : l = enters[p] /\ e = exits[p]
      OBVIOUS
    <2>2. /\ l \in LabelsIn(Routine(p)) /\ Name(l) = Name(p)
          /\ e = LongestCommonPrefix({Front(p), Front(l)})
      BY <1>5, <1>7, <2>1 DEF Led
    <2>3. l \in DOMAIN body \ {<<>>} /\ body[l].kind = "label"
      BY <2>2 DEF LabelsIn
    <2>4. p \in Paths /\ l \in Paths /\ p # <<>> /\ l # <<>> /\ p # l
      BY <1>2, <1>3, <2>3, BodyFacts, <1>1
    <2>5. ~IsPrefix(p, l) /\ ~IsPrefix(l, p)
      <3>1. "goto" \in Leaves /\ "label" \in Leaves
        BY DEF Leaves
      <3>2. IsPrefix(p, l) => p \in Around(l)
        BY <1>2, <2>4 DEF Around, Enclosing, IsStrictPrefix
      <3>3. IsPrefix(l, p) => l \in Around(p)
        BY <2>3, <2>4 DEF Around, Enclosing, IsStrictPrefix
      <3> QED  BY <1>1, <1>2, <1>3, <2>3, <2>4, <3>1, <3>2, <3>3, LeafFacts
    <2>6. /\ IsPrefix(e, p) /\ IsPrefix(e, l) /\ e # p /\ e # l
          /\ p[Len(e) + 1] # l[Len(e) + 1]
      BY <2>2, <2>4, <2>5, PartsThere
    <2> QED  BY <1>4, <1>7, <2>1, <2>2, <2>6
  <1> QED  BY <1>6, <1>7

\* Every jump leads to a place of its own function, for every program: a break or continue to the
\* innermost directive that its words may mean, a goto to a label of its name, out of the smallest
\* list around both; and a jump that has nowhere to go was complained about.
THEOREM JumpsLandAlways == Spec => []JumpsLand
  <1>1. CallsInv /\ JumpInv /\ GotoInv => JumpsLand
    <2> SUFFICES ASSUME CallsInv, JumpInv, GotoInv, outcome = "done" PROVE JumpsLand
      BY DEF JumpsLand
    <2>1. stack = <<>>
      BY DEF CallsInv
    <2>2. ASSUME NEW p \in Compiled
          PROVE  /\ Kind(p) \in JumpKinds =>
                        IF Meant(p) = {} THEN p \in Reported("NO_TARGET") /\ p \notin DOMAIN exits
                        ELSE /\ removed = {} => p \notin Reported("NO_TARGET")
                             /\ exits[p] = Longest(Meant(p))
                 /\ Kind(p) = "goto" =>
                        IF p \in DOMAIN enters
                        THEN /\ enters[p] \in LabelsOf(Routine(p)) /\ Name(enters[p]) = Name(p)
                             /\ IsPrefix(exits[p], p) /\ IsPrefix(exits[p], enters[p])
                             /\ exits[p] # p /\ exits[p] # enters[p]
                             /\ p[Len(exits[p]) + 1] # enters[p][Len(exits[p]) + 1]
                        ELSE /\ p \in Reported("LABEL_NOT_FOUND")
                             /\ \A l \in LabelsOf(Routine(p)) : Name(l) # Name(p)
      BY <2>1, BreaksLand, GotosLand
    <2> QED  BY <2>2, Zenon DEF JumpsLand
  <1> QED  BY <1>1, CallsInvariant, JumpInvariant, GotoInvariant, PTL

-----------------------------------------------------------------------------
(* What cannot be reached, read off the body alone.                        *)

MarkKinds == {"case", "default"}

\* No case or default among the places i + 1 to j of the list k of o.
Unmarked(o, k, i, j) == \A n \in (i + 1)..j : body[o \o <<k, n>>].kind \notin MarkKinds

\* Nothing comes after d when nothing comes after those of E.
Ends(d, E) ==
    /\ ~body[d].false
    /\ \/ body[d].kind \in TerminalKinds
       \/ /\ body[d].kind = "list"
          /\ \E i \in 1..Sizes(d)[1] : d \o <<1, i>> \in E /\ Unmarked(d, 1, i, Sizes(d)[1])

\* The directives after which nothing comes.
Ended == UNION {E \in SUBSET (DOMAIN body \ {<<>>}) : \A d \in E : Ends(d, E)}

\* One of them is before place j of the list k of o, and no case or default after it.
CutAt(o, k, i, j) == o \o <<k, i>> \in Ended /\ Unmarked(o, k, i, j)

Cut(p) == \E i \in 1..(Last(p) - 1) : CutAt(Owner(p), List(p), i, Last(p))

\* One is before the directive at which a call is.
Spent(f) ==
    \E i \in 1..(f.idx - 1) : CutAt(f.owner, f.list, i, IF f.idx <= Size(f) THEN f.idx ELSE Size(f))

\* Only declarations and lists are marked false.
LEMMA MarkedFacts ==
    ASSUME body \in Bodies
    PROVE  \A q \in DOMAIN body : body[q].kind \in MarkKinds \union TerminalKinds => ~body[q].false
  <1>1. (MarkKinds \union TerminalKinds) \intersect Annotated = {}
    BY DEF MarkKinds, TerminalKinds, Annotated, FunctionKinds
  <1> QED  BY <1>1, BodyFacts

\* They are the directives whose own kind, or whose last directives, say so.
LEMMA EndedFacts ==
    /\ Ended \subseteq DOMAIN body \ {<<>>}
    /\ \A d \in DOMAIN body \ {<<>>} : d \in Ended <=> Ends(d, Ended)
  <1> DEFINE Good(E) == E \subseteq DOMAIN body \ {<<>>} /\ \A d \in E : Ends(d, E)
  <1>1. \A E, F : E \subseteq F => \A d : Ends(d, E) => Ends(d, F)
    BY DEF Ends
  <1>2. \A d : d \in Ended <=> \E E : Good(E) /\ d \in E
    BY DEF Ended
  <1>3. ASSUME NEW d \in Ended PROVE d \in DOMAIN body \ {<<>>} /\ Ends(d, Ended)
    <2>1. PICK E : Good(E) /\ d \in E
      BY <1>2
    <2>2. E \subseteq Ended
      BY <1>2, <2>1
    <2> QED  BY <1>1, <2>1, <2>2
  <1>4. ASSUME NEW d \in DOMAIN body \ {<<>>}, Ends(d, Ended) PROVE d \in Ended
    <2>1. PICK E : E = Ended \union {d}
      OBVIOUS
    <2>2. \A x \in E : Ends(x, E)
      BY <1>1, <1>3, <1>4, <2>1
    <2>3. Good(E)
      BY <1>3, <2>1, <2>2
    <2> QED  BY <1>2, <2>1, <2>3
  <1> QED  BY <1>3, <1>4

\* The directives of a body that does not change.
LEMMA SameEnded ==
    ASSUME body' = body
    PROVE  /\ Ended' = Ended
           /\ \A p : Cut(p)' <=> Cut(p)
           /\ \A f : Spent(f)' <=> Spent(f)
  <1>1. ASSUME NEW o, NEW k, NEW i, NEW j PROVE Unmarked(o, k, i, j)' <=> Unmarked(o, k, i, j)
    BY Zenon DEF Unmarked
  <1>2. ASSUME NEW p PROVE Sizes(p)' = Sizes(p)
    BY Zenon DEF Sizes
  <1>3. ASSUME NEW d, NEW E PROVE Ends(d, E)' <=> Ends(d, E)
    BY <1>1, <1>2, Zenon DEF Ends
  <1>4. Ended' = Ended
    <2>1. ASSUME NEW E PROVE (\A d \in E : Ends(d, E))' <=> \A d \in E : Ends(d, E)
      BY <1>3, Zenon
    <2>2. {E \in SUBSET (DOMAIN body \ {<<>>}) : \A d \in E : Ends(d, E)}'
            = {E \in SUBSET (DOMAIN body \ {<<>>}) : \A d \in E : Ends(d, E)}
      BY <2>1, Zenon
    <2> QED  BY <2>2, Zenon DEF Ended
  <1>5. ASSUME NEW o, NEW k, NEW i, NEW j PROVE CutAt(o, k, i, j)' <=> CutAt(o, k, i, j)
    BY <1>1, <1>4, Zenon DEF CutAt
  <1>6. ASSUME NEW p PROVE Cut(p)' <=> Cut(p)
    BY <1>5, Zenon DEF Cut
  <1>7. ASSUME NEW f PROVE Spent(f)' <=> Spent(f)
    BY <1>5, Zenon DEF Spent, Size
  <1> QED  BY <1>4, <1>6, <1>7

\* A call that goes past such a directive, or that was past one, is past one unless it resets end_list.
LEMMA AdvanceSpent ==
    ASSUME body \in Bodies, NoneHidden, NEW f, FrameOK(f), f.idx <= Size(f), NEW e \in BOOLEAN,
           Spent(f) \/ Current(f) \in Ended, Advance(f, e).ending
    PROVE  Spent(Advance(f, e))
  <1>1. PICK o, k, i, g : o = f.owner /\ k = f.list /\ i = f.idx /\ g = Advance(f, e)
    OBVIOUS
  <1>2. PICK n : n = Sizes(o)[k]
    OBVIOUS
  <1>3. /\ o \in DOMAIN body /\ k \in 1..Len(Sizes(o)) /\ n \in Nat /\ i \in 1..n /\ Size(f) = n
        /\ f \in Frames /\ o = f.owner
    BY <1>1, <1>2, FrameNumbers DEF FrameOK, Size, Sizes
  <1>4. PICK c, j : c = Current(f) /\ j = NextOf(o, k, i, removed)
    OBVIOUS
  <1>5. /\ j \in (i + 1)..(n + 1) /\ \A m \in (i + 1)..(j - 1) : o \o <<k, m>> \in removed
        /\ j <= n => o \o <<k, j>> \notin removed
    <2>1. i \in 0..Sizes(o)[k]
      BY <1>2, <1>3
    <2>2. /\ NextOf(o, k, i, removed) \in (i + 1)..(Sizes(o)[k] + 1)
          /\ \A m \in (i + 1)..(NextOf(o, k, i, removed) - 1) : o \o <<k, m>> \in removed
          /\ NextOf(o, k, i, removed) <= Sizes(o)[k]
                => o \o <<k, NextOf(o, k, i, removed)>> \notin removed
      BY <1>3, <2>1, NextFacts
    <2> QED  BY <1>2, <1>4, <2>2
  <1>6. /\ c \in DOMAIN body \ {<<>>} /\ IsChild(c, o, k) /\ Last(c) = i /\ c = o \o <<k, i>>
    BY <1>1, <1>4, CurrentFacts DEF Current
  <1>7. /\ g.owner = o /\ g.list = k /\ g.idx = j
    BY <1>1, <1>4, AdvanceFacts DEF Onward
  <1>8. After(c) # <<>> => Kind(After(c)) \notin MarkKinds
    <2>1. PICK x, y, z : x = After(c) /\ y = (x # <<>> /\ Kind(x) \in MarkKinds)
                         /\ z = (f.noAccess \/ f.ending)
      OBVIOUS
    <2>2. g = [f EXCEPT !.idx = Following(o, k, i), !.noAccess = z, !.ending = e /\ ~y]
      BY <1>1, <1>4, <2>1 DEF Advance, MarkKinds
    <2>3. g.ending = (e /\ ~y)
      BY <1>3, <2>2 DEF Frames
    <2> QED  BY <1>1, <2>1, <2>3
  <1>9. \A m \in 1..n : o \o <<k, m>> \in DOMAIN body \ {<<>>}
    BY <1>2, <1>3, ChildIn
  <1>10. After(c) = IF j <= n THEN o \o <<k, j>> ELSE <<>>
    <2>1. /\ Owner(c) = o /\ List(c) = k
          /\ \A m \in Nat : Sibling(c, m) = o \o <<k, m>>
      BY <1>6 DEF IsChild
    <2>2. j \in Nat
      BY <1>3, <1>5
    <2> QED  BY <1>2, <1>4, <1>6, <2>1, <2>2 DEF After, Following, List, Sizes
  <1>11. \A m \in (i + 1)..(j - 1) : body[o \o <<k, m>>].kind \notin MarkKinds
    <2> TAKE m \in (i + 1)..(j - 1)
    <2>1. m \in 1..n
      BY <1>3, <1>5
    <2>2. o \o <<k, m>> \in DOMAIN body /\ body[o \o <<k, m>>].false
      BY <1>5, <1>9, <2>1 DEF NoneHidden
    <2> QED  BY <2>2, MarkedFacts
  <1>12. ASSUME j <= n PROVE body[o \o <<k, j>>].kind \notin MarkKinds
    <2>1. PICK q : q = o \o <<k, j>>
      OBVIOUS
    <2>2. j \in 1..n
      BY <1>3, <1>5, <1>12
    <2>3. q \in DOMAIN body \ {<<>>} /\ After(c) = q
      BY <1>9, <1>10, <1>12, <2>1, <2>2
    <2>4. Kind(q) \notin MarkKinds
      BY <1>8, <2>3
    <2>5. q \in unknown => body[q].false
      BY DEF NoneHidden
    <2> QED  BY <2>1, <2>3, <2>4, <2>5, MarkedFacts DEF Kind
  <1>13. PICK l : l = IF j <= n THEN j ELSE n
    OBVIOUS
  <1>14. Unmarked(o, k, i, l)
    <2> SUFFICES ASSUME NEW m \in (i + 1)..l PROVE body[o \o <<k, m>>].kind \notin MarkKinds
      BY DEF Unmarked
    <2>1. m \in (i + 1)..(j - 1) \/ (m = j /\ j <= n)
      BY <1>3, <1>5, <1>13
    <2> QED  BY <1>11, <1>12, <2>1
  <1>15. l = IF g.idx <= Size(g) THEN g.idx ELSE Size(g)
    BY <1>2, <1>7, <1>13 DEF Size, Sizes
  <1>16. \E m \in 1..(j - 1) : CutAt(o, k, m, l)
    <2>1. CASE c \in Ended
      <3>1. CutAt(o, k, i, l)
        BY <1>6, <1>14, <2>1 DEF CutAt
      <3>2. i \in 1..(j - 1)
        BY <1>3, <1>5
      <3> QED  BY <3>1, <3>2
    <2>2. CASE Spent(f)
      <3>1. PICK m \in 1..(i - 1) : CutAt(o, k, m, i)
        BY <1>1, <1>3, <2>2 DEF Spent
      <3>2. \A x \in (m + 1)..l : x \in (m + 1)..i \/ x \in (i + 1)..l
        BY <1>3, <1>5, <1>13
      <3>3. CutAt(o, k, m, l)
        BY <1>14, <3>1, <3>2 DEF CutAt, Unmarked
      <3>4. m \in 1..(j - 1)
        BY <1>3, <1>5
      <3> QED  BY <3>3, <3>4
    <2> QED  BY <1>4, <2>1, <2>2
  <1>17. Spent(g)
    BY <1>7, <1>15, <1>16 DEF Spent
  <1> QED  BY <1>1, <1>17

\* A call whose list is at its end is past a directive after which nothing comes, and so is
\* every directive that is said not to be accessible.
EndsInv ==
    /\ \A i \in 1..Len(stack) : stack[i].ending => Spent(stack[i])
    /\ \A p : Blamed(p, "INACCESSIBLE", errors) => p \in DOMAIN body \ {<<>>} /\ Cut(p)

\* What the calls say after a step...
LEMMA EndsAfter ==
    ASSUME CallsInv, EndsInv, Works, NEW j \in 1..Len(stack'), stack'[j].ending
    PROVE  Spent(stack'[j])
  <1>1. body \in Bodies /\ NoneHidden /\ stack \in Seq(Frames) /\ Chain(stack)
        /\ \A i \in 1..Len(stack) : Live(stack[i].owner)
    BY DEF CallsInv, StackInv, NoneHidden
  <1>2. PICK g : g = stack'[j]
    OBVIOUS
  <1>3. CASE j \in 1..Len(stack) /\ g = stack[j]
    BY <1>2, <1>3 DEF EndsInv
  <1>4. CASE Called(g)
    BY <1>2, <1>4 DEF Called
  <1>5. ASSUME NEW h, NEW e, j \in 1..Len(stack), h = stack[j], Passed(h, g, e)
        PROVE  Spent(g)
    <2>1. PICK c : c = Current(h)
      OBVIOUS
    <2>2. /\ FrameOK(h) /\ h.idx <= Size(h) /\ e \in BOOLEAN /\ g = Advance(h, e)
          /\ h.ending => Spent(h)
      BY <1>5 DEF Passed, EndsInv
    <2>3. c \in DOMAIN body \ {<<>>}
      BY <1>1, <2>1, <2>2, CurrentFacts
    <2>4. e
      BY <1>1, <1>2, <2>2, AdvanceFacts
    <2>5. Spent(h) \/ c \in Ended
      <3>1. CASE h.ending
        BY <2>2, <3>1
      <3>2. CASE Kind(c) \in TerminalKinds
        <4>1. "unknown" \notin TerminalKinds
          BY DEF TerminalKinds
        <4>2. body[c].kind \in TerminalKinds
          BY <3>2, <4>1 DEF Kind
        <4>3. ~body[c].false
          BY <1>1, <2>3, <4>2, MarkedFacts
        <4> QED  BY <2>3, <4>2, <4>3, EndedFacts DEF Ends
      <3>3. CASE /\ AtEnd(Top) /\ Top.owner = c /\ Top.list = Len(Sizes(c))
                 /\ body[c].kind = "list" /\ Top.ending
        <4>1. stack # <<>> /\ ~(Top.idx <= Size(Top))
          BY <3>3 DEF AtEnd, Top
        <4>2. Len(stack) \in 1..Len(stack) /\ Top = stack[Len(stack)]
          BY <1>1, <4>1, FrontPlaces DEF Top
        <4>3. FrameOK(Top) /\ Spent(Top) /\ Live(c)
          BY <1>1, <3>3, <4>2 DEF Chain, EndsInv
        <4>4. Top.list = 1
          <5>1. Len(Sizes(c)) \in ListCounts(body[c].kind)
            BY <1>1, <2>3, BodyFacts
          <5>2. "list" \in Compounds /\ "list" # "if"
            BY DEF Compounds
          <5>3. ListCounts(body[c].kind) = {1}
            BY <3>3, <5>2, ListCountFacts
          <5> QED  BY <3>3, <5>1, <5>3
        <4>5. PICK n : n = Sizes(c)[1]
          OBVIOUS
        <4>6. Size(Top) = n /\ n \in Nat /\ Top.idx \in Nat /\ Top.idx <= n + 1
          BY <1>1, <3>3, <4>3, <4>4, <4>5, FrameNumbers
        <4>7. PICK i \in 1..(Top.idx - 1) : CutAt(c, 1, i, n)
          BY <3>3, <4>1, <4>3, <4>4, <4>6 DEF Spent
        <4>8. i \in 1..n
          BY <4>6
        <4>9. ~body[c].false
          BY <1>1, <2>3, <4>3, LiveFacts
        <4>10. Ends(c, Ended)
          BY <3>3, <4>5, <4>7, <4>8, <4>9 DEF Ends, CutAt
        <4> QED  BY <2>3, <4>10, EndedFacts
      <3> QED  BY <1>5, <2>1, <2>4, <3>1, <3>2, <3>3 DEF Passed
    <2>6. Advance(h, e).ending
      BY <1>2, <2>2
    <2>7. Spent(Advance(h, e))
      BY <1>1, <2>1, <2>2, <2>5, <2>6, AdvanceSpent
    <2> QED  BY <2>2, <2>7
  <1> QED  BY <1>2, <1>3, <1>4, <1>5, CallsAfter

\* ... and the errors.
LEMMA BlamedAfter ==
    ASSUME CallsInv, EndsInv, Works, NEW p, Blamed(p, "INACCESSIBLE", errors')
    PROVE  p \in DOMAIN body \ {<<>>} /\ Cut(p)
  <1>1. body \in Bodies /\ stack \in Seq(Frames) /\ Chain(stack)
    BY DEF CallsInv, StackInv
  <1>2. PICK e \in errors' : e.at = p /\ e.what = "INACCESSIBLE"
    BY DEF Blamed
  <1>3. CASE e \in errors
    BY <1>2, <1>3 DEF Blamed, EndsInv
  <1>4. CASE e \in Inaccessible(Top) /\ Top.idx <= Size(Top) /\ stack # <<>>
    <2>1. Top.ending /\ p = Current(Top)
      BY <1>2, <1>4 DEF Inaccessible, ErrorIf, Error
    <2>2. Len(stack) \in 1..Len(stack) /\ Top = stack[Len(stack)]
      BY <1>1, <1>4, FrontPlaces DEF Top
    <2>3. FrameOK(Top) /\ Spent(Top)
      BY <1>1, <2>1, <2>2 DEF Chain, EndsInv
    <2>4. /\ p \in DOMAIN body \ {<<>>} /\ Last(p) = Top.idx /\ Owner(p) = Top.owner
          /\ List(p) = Top.list
      BY <1>1, <1>4, <2>1, <2>3, CurrentFacts DEF IsChild
    <2>5. Cut(p)
      BY <1>4, <2>3, <2>4 DEF Spent, Cut
    <2> QED  BY <2>4, <2>5
  <1>5. \/ e \in errors
        \/ e \in Inaccessible(Top) /\ Top.idx <= Size(Top) /\ stack # <<>>
    <2>1. stack # <<>>
      BY CallsStep DEF CallsInv
    <2>2. NewErrors => e \in errors \/ (e \in Inaccessible(Top) /\ Top.idx <= Size(Top))
      BY <1>2 DEF NewErrors
    <2>3. CASE \E q \in DOMAIN body : Jumping(q)
      <3>1. PICK q \in DOMAIN body : Jumping(q)
        BY <2>3
      <3>2. Top.idx <= Size(Top)
        BY <3>1 DEF Jumping, AtCurrent, AtTop
      <3>3. e # Error(q, "NO_TARGET")
        BY <1>2 DEF Error
      <3>4. NewErrors \/ \A x \in errors' : \/ x \in errors \/ x \in Inaccessible(Top)
                                            \/ x = Error(q, "NO_TARGET")
        BY <3>1, Zenon DEF Jumping
      <3> QED  BY <2>1, <2>2, <3>2, <3>3, <3>4
    <2>4. CASE \E q \in DOMAIN body : Going(q)
      BY <2>1, <2>2, <2>4, Zenon DEF Going
    <2>5. CASE Otherwise
      BY <2>1, <2>2, <2>5 DEF Otherwise
    <2> QED  BY <2>3, <2>4, <2>5, Doing
  <1> QED  BY <1>3, <1>4, <1>5

\* The end of a list, for every program: what directive_list() knows of it comes from the body alone.
THEOREM EndsInvariant == Spec => []EndsInv
  <1>1. Init => EndsInv
    <2> SUFFICES ASSUME Init PROVE EndsInv
      OBVIOUS
    <2>1. stack = <<Frame(<<>>, 1, 0, FALSE, {})>> /\ errors = Duplicates(<<>>, {}, FALSE)
      BY Zenon DEF Init
    <2>2. \A p : ~Blamed(p, "INACCESSIBLE", errors)
      BY <2>1, DuplicateErrors DEF Blamed
    <2>3. ASSUME NEW i \in 1..Len(stack) PROVE ~stack[i].ending
      <3>1. i = 1
        BY <2>1
      <3>2. stack[i] = Frame(<<>>, 1, 0, FALSE, {})
        BY <2>1, <3>1
      <3> QED  BY <3>2 DEF Frame
    <2> QED  BY <2>2, <2>3 DEF EndsInv
  <1>2. CallsInv /\ EndsInv /\ [Next]_vars => EndsInv'
    <2>1. ASSUME CallsInv, EndsInv, Works PROVE EndsInv'
      <3>1. body' = body
        BY <2>1, CallsStep
      <3>2. \A j \in 1..Len(stack') : stack'[j].ending => Spent(stack'[j])
        BY <2>1, EndsAfter
      <3>3. \A p : Blamed(p, "INACCESSIBLE", errors') => p \in DOMAIN body \ {<<>>} /\ Cut(p)
        BY <2>1, BlamedAfter
      <3>4. ASSUME NEW p PROVE Blamed(p, "INACCESSIBLE", errors)' <=> Blamed(p, "INACCESSIBLE", errors')
        BY Zenon DEF Blamed
      <3>5. (\A i \in 1..Len(stack) : stack[i].ending => Spent(stack[i]))'
        BY <3>1, <3>2, SameEnded, Zenon
      <3>6. (\A p : Blamed(p, "INACCESSIBLE", errors) => p \in DOMAIN body \ {<<>>} /\ Cut(p))'
        BY <3>1, <3>3, <3>4, SameEnded, Zenon
      <3> QED  BY <3>5, <3>6, Zenon DEF EndsInv
    <2>2. ASSUME EndsInv, UNCHANGED Held PROVE EndsInv'
      <3>1. body' = body /\ stack' = stack /\ errors' = errors
        BY <2>2 DEF Held
      <3>2. ASSUME NEW p PROVE Blamed(p, "INACCESSIBLE", errors)' <=> Blamed(p, "INACCESSIBLE", errors)
        BY <3>1, Zenon DEF Blamed
      <3> QED  BY <2>2, <3>1, <3>2, SameEnded, Zenon DEF EndsInv
    <2> QED  BY <2>1, <2>2, StepCases
  <1> QED  BY <1>1, <1>2, CallsInvariant, PTL DEF Spec

-----------------------------------------------------------------------------
(* Executable stays where no step leads out: not in what is cut off.       *)

\* What holds where the program starts, and stays after every step, holds wherever it goes.
LEMMA ReachStays ==
    ASSUME body \in Bodies, NEW X, Starts \subseteq X, \A point \in X : Steps(point) \subseteq X
    PROVE  Executable \subseteq X
  <1> DEFINE V == SUBSET X
             next(S) == S \union UNION {Steps(point) : point \in S}
             step == [S \in V |-> next(S)]
             E(r) == [n \in Nat |->
                        IF n = 0 THEN Starts
                        ELSE LET before == r[n - 1]
                             IN  before \union UNION {Steps(point) : point \in before}]
             reach == CHOOSE r : r = E(r)
  <1>1. ASSUME NEW S \in V PROVE next(S) \in V
    OBVIOUS
  <1>2. step \in [V -> V] /\ \A S \in V : step[S] = next(S)
    <2> HIDE DEF V, next
    <2> QED  BY <1>1
  <1>3. Starts \in V
    OBVIOUS
  <1>4. PICK f \in [Nat -> V] : f[0] = Starts /\ \A n \in Nat : f[n + 1] = step[f[n]]
    <2> HIDE DEF V, step
    <2> QED  BY <1>2, <1>3, StepAfterStep
  <1>5. \A n \in Nat : f[n] = IF n = 0 THEN Starts ELSE next(f[n - 1])
    <2> HIDE DEF V, step, next
    <2> TAKE n \in Nat
    <2>1. n # 0 => n - 1 \in Nat /\ (n - 1) + 1 = n
      OBVIOUS
    <2> QED  BY <1>2, <1>4, <2>1
  <1>6. f = E(f)
    <2>1. \A r, n : E(r) = [m \in Nat |-> IF m = 0 THEN Starts ELSE next(r[m - 1])]
      OBVIOUS
    <2> HIDE DEF E, next, V
    <2> QED  BY <1>5, <2>1
  <1>7. reach = E(reach)
    <2> HIDE DEF E
    <2> QED  BY <1>6
  <1>8. \A n \in Nat : reach[n] = IF n = 0 THEN Starts ELSE next(reach[n - 1])
    <2>1. \A r : E(r) = [m \in Nat |-> IF m = 0 THEN Starts ELSE next(r[m - 1])]
      OBVIOUS
    <2> HIDE DEF E, next, reach
    <2> QED  BY <1>7, <2>1
  <1> HIDE DEF reach
  <1>9. PICK T : T = {n \in Nat : reach[n] \in V}
    OBVIOUS
  <1>10. 0 \in T
    BY <1>3, <1>8, <1>9
  <1>11. ASSUME NEW n \in Nat, n \in T PROVE n + 1 \in T
    <2>1. n + 1 \in Nat /\ n + 1 # 0 /\ (n + 1) - 1 = n
      OBVIOUS
    <2>2. reach[n + 1] = next(reach[n])
      BY <1>8, <2>1
    <2>3. reach[n + 1] \in V
      <3> HIDE DEF V, next
      <3> QED  BY <1>1, <1>9, <1>11, <2>2
    <2> QED  BY <1>9, <2>1, <2>3
  <1>12. Nat \subseteq T
    BY <1>10, <1>11, SetInduction
  <1>13. 2 * Cardinality(DOMAIN body) \in Nat
    <2>1. IsFiniteSet(DOMAIN body)
      BY BodiesAssumption DEF IsBody
    <2>2. Cardinality(DOMAIN body) \in Nat
      BY <2>1, FS_CardinalityType
    <2> QED  BY <2>2
  <1>14. Executable = reach[2 * Cardinality(DOMAIN body)]
    BY Zenon DEF Executable, reach
  <1> QED  BY <1>9, <1>12, <1>13, <1>14

Places == DOMAIN body \ {<<>>}

\* Where a break or continue leads.
Landed(p, q) ==
    /\ q \in Enclosing(p) \ {<<>>} /\ body[q].kind \in LoopKinds \union {"switch"}
    /\ Routine(q) = Routine(p)

LandInv ==
    \A p \in Places : body[p].kind \in JumpKinds /\ p \in DOMAIN exits => Landed(p, exits[p])

\* A break or continue is given a place around it, of its function, for every program.
THEOREM LandInvariant == Spec => []LandInv
  <1>1. Init => LandInv
    <2> SUFFICES ASSUME Init PROVE LandInv
      OBVIOUS
    <2>1. exits = <<>>
      BY Zenon DEF Init
    <2>2. DOMAIN exits = {}
      BY <2>1
    <2> QED  BY <2>2 DEF LandInv
  <1>2. CallsInv /\ LandInv /\ [Next]_vars => LandInv'
    <2>1. ASSUME body' = body
          PROVE  /\ Places' = Places
                 /\ \A p, q : Landed(p, q)' <=> Landed(p, q)
      <3>1. \A p : Enclosing(p)' = Enclosing(p) /\ Routine(p)' = Routine(p)
        BY <2>1, SameLabels, SameBody
      <3> QED  BY <2>1, <3>1, Zenon DEF Places, Landed
    <2>2. ASSUME CallsInv, LandInv, Works PROVE LandInv'
      <3>1. body' = body /\ body \in Bodies /\ NoneHidden
        BY <2>2, CallsStep DEF CallsInv, StackInv, NoneHidden
      <3>2. ASSUME NEW p \in Places, body[p].kind \in JumpKinds, p \in DOMAIN exits'
            PROVE  Landed(p, exits'[p])
        <4>1. p \in DOMAIN body \ {<<>>}
          BY DEF Places
        <4>2. /\ AtCurrent(p) =>
                    IF BreakTarget(p) = <<>> THEN exits' = exits
                    ELSE p \in DOMAIN exits' /\ exits'[p] = BreakTarget(p)
              /\ ~AtCurrent(p) => /\ p \in DOMAIN exits' <=> p \in DOMAIN exits
                                  /\ p \in DOMAIN exits => exits'[p] = exits[p]
          BY <2>2, <3>2, <4>1, JumpEffects
        <4>3. BreakTarget(p) # <<>> => BreakTarget(p) \in MeantIn(p, removed)
          BY <3>1, <3>2, <4>1, BreakTargetIs DEF Deepest
        <4>4. \A q \in MeantIn(p, removed) : Landed(p, q)
          <5>1. \A q \in MeantIn(p, removed) : q # <<>>
            BY <3>1, <4>1, ReachFacts DEF Reach
          <5> QED  BY <5>1 DEF MeantIn, Suits, Landed
        <4>5. p \in DOMAIN exits => Landed(p, exits[p])
          BY <2>2, <3>2 DEF LandInv
        <4> QED  BY <3>2, <4>2, <4>3, <4>4, <4>5
      <3> QED  BY <2>1, <3>1, <3>2, Zenon DEF LandInv
    <2>3. ASSUME LandInv, UNCHANGED Held PROVE LandInv'
      <3>1. body' = body /\ exits' = exits
        BY <2>3 DEF Held
      <3> QED  BY <2>1, <2>3, <3>1, Zenon DEF LandInv
    <2> QED  BY <2>2, <2>3, StepCases
  <1> QED  BY <1>1, <1>2, CallsInvariant, PTL DEF Spec

\* A directive of a function is cut off when it, or one around it in the function, is.
Buried(y) == \E x \in Around(y) \ {<<>>} : Cut(x) /\ Routine(x) = Routine(y)

\* A directive is in the function of its owner when that is not a function itself.
LEMMA OwnerRoutine ==
    ASSUME body \in Bodies, NEW c \in Places, Owner(c) \in Places,
           body[Owner(c)].kind \notin FunctionKinds
    PROVE  Routine(c) = Routine(Owner(c))
  <1>1. PICK p : p = Owner(c)
    OBVIOUS
  <1>2. c \in DOMAIN body \ {<<>>} /\ p \in DOMAIN body \ {<<>>}
    BY <1>1 DEF Places
  <1>3. Enclosing(c) = Around(p) /\ p \in Enclosing(c) /\ p # <<>>
    BY <1>1, <1>2, AroundFacts
  <1>4. NoFunction(c, p)
    <2> SUFFICES ASSUME NEW x \in Enclosing(c), p \in Around(x) PROVE body[x].kind \notin FunctionKinds
      BY DEF NoFunction
    <2>1. x = p
      <3>1. x \in DOMAIN body /\ x \in Around(p)
        BY <1>2, <1>3, AroundFacts
      <3>2. x # p => x \in Enclosing(p) /\ p \in Enclosing(x)
        BY <3>1 DEF Around
      <3>3. /\ x \in Enclosing(p) => Len(x) < Len(p)
            /\ p \in Enclosing(x) => Len(p) < Len(x)
            /\ Len(x) \in Nat /\ Len(p) \in Nat
        BY <1>2, <3>1, AroundLengths
      <3> QED  BY <3>2, <3>3
    <2> QED  BY <1>1, <2>1
  <1> QED  BY <1>1, <1>2, <1>3, <1>4, SameRoutine

\* What is cut off passes to the directives in it.
LEMMA BuriedFacts ==
    ASSUME body \in Bodies
    PROVE  /\ \A y \in Places : Cut(y) => Buried(y)
           /\ \A y \in Places : \A x \in Around(y) \ {<<>>} :
                 Routine(x) = Routine(y) /\ Buried(x) => Buried(y)
           /\ \A c \in Places : Owner(c) = <<>> \/ body[Owner(c)].kind \in FunctionKinds =>
                 (Buried(c) => Cut(c))
           /\ \A c \in Places :
                 /\ Owner(c) \in Places /\ body[Owner(c)].kind \notin FunctionKinds
                 /\ Buried(c)
                 => Cut(c) \/ Buried(Owner(c))
  <1>1. ASSUME NEW y \in Places, Cut(y) PROVE Buried(y)
    <2>1. y \in Around(y) /\ y # <<>>
      BY DEF Around, Places
    <2> QED  BY <1>1, <2>1 DEF Buried
  <1>2. ASSUME NEW y \in Places, NEW x \in Around(y) \ {<<>>}, Routine(x) = Routine(y), Buried(x)
        PROVE  Buried(y)
    <2>1. Around(x) \subseteq Around(y)
      BY AroundFacts DEF Places
    <2> QED  BY <1>2, <2>1 DEF Buried
  <1>3. ASSUME NEW c \in Places, Owner(c) = <<>> \/ body[Owner(c)].kind \in FunctionKinds, Buried(c)
        PROVE  Cut(c)
    <2>1. PICK x \in Around(c) \ {<<>>} : Cut(x) /\ Routine(x) = Routine(c)
      BY <1>3 DEF Buried
    <2>2. c \in DOMAIN body \ {<<>>} /\ Owner(c) \in DOMAIN body /\ Around(c) = Around(Owner(c)) \union {c}
          /\ Enclosing(c) = Around(Owner(c)) /\ x \in DOMAIN body \ {<<>>}
      BY AroundFacts DEF Places
    <2>3. ASSUME x # c PROVE FALSE
      <3>1. x \in Around(Owner(c)) /\ Owner(c) \in Around(Owner(c))
        BY <2>2, <2>3 DEF Around
      <3>2. Owner(c) # <<>>
        BY <2>1, <3>1, AroundFacts
      <3>3. body[Owner(c)].kind \in RoutineKinds /\ Owner(c) \in Enclosing(c)
        BY <1>3, <2>2, <3>1, <3>2 DEF RoutineKinds
      <3>4. Len(Owner(c)) <= Len(Routine(c)) /\ Routine(c) \in Enclosing(c)
        BY <2>2, <3>3, RoutineFacts
      <3>5. Routine(x) \in Enclosing(x)
        BY <2>2, RoutineFacts
      <3>6. Len(Routine(x)) < Len(x) /\ Len(x) \in Nat /\ Len(Routine(x)) \in Nat
        BY <2>2, <3>5, AroundLengths
      <3>7. Len(x) <= Len(Owner(c)) /\ Len(Owner(c)) \in Nat
        BY <2>2, <3>1, AroundLengths DEF Around
      <3> QED  BY <2>1, <3>4, <3>6, <3>7
    <2> QED  BY <2>1, <2>3
  <1>4. ASSUME NEW c \in Places, Owner(c) \in Places, body[Owner(c)].kind \notin FunctionKinds, Buried(c)
        PROVE  Cut(c) \/ Buried(Owner(c))
    <2>1. PICK x \in Around(c) \ {<<>>} : Cut(x) /\ Routine(x) = Routine(c)
      BY <1>4 DEF Buried
    <2>2. Around(c) = Around(Owner(c)) \union {c}
      BY AroundFacts DEF Places
    <2>3. Routine(c) = Routine(Owner(c))
      BY <1>4, OwnerRoutine
    <2> QED  BY <2>1, <2>2, <2>3 DEF Buried
  <1> QED  BY <1>1, <1>2, <1>3, <1>4

\* Where an execution may be in the function R: not in what is cut off, nor after what ends it.
Clear(y, R)  == Routine(y) = R => ~Buried(y)
Passes(y, R) == Routine(y) = R => ~Buried(y) /\ y \notin Ended

Open(R) ==
    {In(y) : y \in {z \in Places : Clear(z, R)}} \union {Out(y) : y \in {z \in Places : Passes(z, R)}}

\* The places of such an execution.
LEMMA OpenFacts ==
    ASSUME NEW R, NEW y \in Places
    PROVE  /\ In(y) \in Open(R) <=> Clear(y, R)
           /\ Passes(y, R) => Out(y) \in Open(R)
  <1>1. ASSUME In(y) \in Open(R) PROVE Clear(y, R)
    <2>1. "in" # "out"
      OBVIOUS
    <2>2. \A z : In(y) # Out(z)
      BY <2>1 DEF In, Out
    <2>3. PICK z \in {x \in Places : Clear(x, R)} : In(y) = In(z)
      BY <1>1, <2>2 DEF Open
    <2>4. y = z
      BY <2>3 DEF In
    <2> QED  BY <2>3, <2>4
  <1>2. Clear(y, R) => In(y) \in Open(R)
    BY DEF Open
  <1>3. Passes(y, R) => Out(y) \in Open(R)
    BY DEF Open
  <1> QED  BY <1>1, <1>2, <1>3

\* What does not end an execution.
LEMMA NotEnded ==
    ASSUME body \in Bodies, NoneHidden, NEW y \in Places
    PROVE  /\ y \in unknown => y \notin Ended
           /\ Kind(y) \notin TerminalKinds \union {"list"} => y \notin Ended
           /\ body[y].kind \notin TerminalKinds \union {"list"} => y \notin Ended
  <1>1. y \in Ended => ~body[y].false /\ body[y].kind \in TerminalKinds \union {"list"}
    BY EndedFacts DEF Ends, Places
  <1>2. y \in unknown => body[y].false
    BY DEF NoneHidden
  <1> QED  BY <1>1, <1>2, Zenon DEF Kind

\* What is not cut off in its own list is not cut off, when its owner is not.
LEMMA ClearChild ==
    ASSUME body \in Bodies, NEW R, NEW c \in Places, ~Cut(c),
           Owner(c) \in Places /\ body[Owner(c)].kind \notin FunctionKinds => Clear(Owner(c), R)
    PROVE  Clear(c, R)
  <1> SUFFICES ASSUME Routine(c) = R, Buried(c) PROVE FALSE
    BY DEF Clear
  <1>1. Owner(c) \in DOMAIN body
    BY AroundFacts DEF Places
  <1>2. CASE Owner(c) = <<>> \/ body[Owner(c)].kind \in FunctionKinds
    BY <1>2, BuriedFacts
  <1>3. CASE Owner(c) \in Places /\ body[Owner(c)].kind \notin FunctionKinds
    <2>1. Routine(Owner(c)) = R
      BY <1>3, OwnerRoutine
    <2> QED  BY <1>3, <2>1, BuriedFacts DEF Clear
  <1> QED  BY <1>1, <1>2, <1>3 DEF Places

\* The first directive of a list, or what follows an empty one.
LEMMA StartedOpen ==
    ASSUME body \in Bodies, NoneHidden, NEW R, NEW y \in DOMAIN body, NEW k \in 1..Len(Sizes(y)),
           y \in Places /\ body[y].kind \notin FunctionKinds => Clear(y, R)
    PROVE  Started(y, k) \subseteq Open(R)
  <1>1. PICK n : n = Sizes(y)[k] /\ n \in Nat
    BY BodyFacts
  <1>2. CASE n > 0
    <2>1. PICK c : c = y \o <<k, 1>>
      OBVIOUS
    <2>2. 1 \in 1..n
      BY <1>1, <1>2
    <2>3. c \in Places /\ IsChild(c, y, k) /\ Last(c) = 1
      BY <1>1, <2>1, <2>2, ChildIn DEF Places
    <2>4. ~Cut(c)
      BY <2>3 DEF Cut
    <2>5. Clear(c, R)
      BY <2>3, <2>4, ClearChild DEF IsChild
    <2>6. Started(y, k) = {In(c)}
      BY <1>1, <1>2, <2>1 DEF Started, Sizes
    <2> QED  BY <2>3, <2>5, <2>6, OpenFacts
  <1>3. CASE n = 0
    <2>1. Started(y, k) = Completed(y)
      BY <1>1, <1>3 DEF Started, Sizes
    <2>2. CASE body[y].kind \in FunctionKinds \union {"program"}
      <3>1. body[y].kind \notin LoopKinds
        BY <2>2 DEF LoopKinds, FunctionKinds
      <3>2. Completed(y) = {}
        BY <2>2, <3>1, Zenon DEF Completed
      <3> QED  BY <2>1, <3>2
    <2>3. CASE body[y].kind \notin FunctionKinds \union {"program"}
      <3>1. y \in Places
        BY <2>3, BodyFacts DEF Places
      <3>2. y \notin Ended
        <4>1. body[y].kind \notin Leaves
          <5>1. Len(Sizes(y)) # 0
            OBVIOUS
          <5> QED  BY <5>1, ListCountFacts, BodyFacts
        <4>2. body[y].kind \notin TerminalKinds
          BY <4>1 DEF TerminalKinds, Leaves
        <4>3. body[y].kind = "list" => k = 1
          <5> SUFFICES ASSUME body[y].kind = "list" PROVE k = 1
            OBVIOUS
          <5>1. "list" \in Compounds /\ "list" # "if"
            BY DEF Compounds
          <5>2. ListCounts("list") = {1}
            BY <5>1, ListCountFacts
          <5>3. Len(Sizes(y)) = 1
            BY <5>2, BodyFacts
          <5> QED  BY <5>3
        <4>4. y \in Ended => Ends(y, Ended)
          BY <3>1, EndedFacts DEF Places
        <4>5. \A i : i \notin 1..n
          BY <1>3
        <4> QED  BY <1>1, <4>2, <4>3, <4>4, <4>5, Zenon DEF Ends
      <3>3. Clear(y, R) /\ Passes(y, R)
        BY <2>3, <3>1, <3>2 DEF Clear, Passes
      <3>4. Completed(y) \subseteq {In(y), Out(y)}
        BY Zenon DEF Completed
      <3> QED  BY <2>1, <3>1, <3>3, <3>4, OpenFacts
    <2> QED  BY <2>2, <2>3
  <1> QED  BY <1>1, <1>2, <1>3

\* Where the functions start.
LEMMA StartsOpen ==
    ASSUME body \in Bodies, NoneHidden, NEW R
    PROVE  Starts \subseteq Open(R)
  <1> SUFFICES ASSUME NEW f \in DOMAIN body, body[f].kind \in FunctionKinds \union {"program"}
               PROVE  Started(f, 1) \subseteq Open(R)
    BY DEF Starts
  <1>1. f \in Places => body[f].kind \in FunctionKinds
    BY BodyFacts DEF Places, Leaves, Compounds, LoopKinds, FunctionKinds
  <1>2. 1 \in 1..Len(Sizes(f))
    <2>1. ListCounts(body[f].kind) = {1}
      BY Zenon DEF ListCounts, Leaves, FunctionKinds
    <2>2. Len(Sizes(f)) \in {1}
      BY <2>1, BodyFacts
    <2> QED  BY <2>2
  <1> QED  BY <1>1, <1>2, StartedOpen

\* The directive y, which is the ith of the n of the list k of o, and what is after it.
Followed(y, o, k, i, n) ==
    /\ o \in DOMAIN body /\ k \in 1..Len(Sizes(o)) /\ n \in Nat /\ i \in 1..n
    /\ y = o \o <<k, i>>
    /\ IF After(y) = <<>>
       THEN \A m \in (i + 1)..n : o \o <<k, m>> \notin Ended
       ELSE \E j \in (i + 1)..n :
               /\ After(y) = o \o <<k, j>>
               /\ \A m \in (i + 1)..(j - 1) : o \o <<k, m>> \notin Ended

\* What is skipped after a directive was removed, and ends nothing.
LEMMA AfterFacts ==
    ASSUME body \in Bodies, NoneHidden, NEW y \in Places
    PROVE  Followed(y, Owner(y), List(y), Last(y), Sizes(Owner(y))[List(y)])
  <1> SUFFICES ASSUME NEW o, NEW k, NEW i, NEW n,
                      o = Owner(y), k = List(y), i = Last(y), n = Sizes(o)[k]
               PROVE  Followed(y, o, k, i, n)
    OBVIOUS
  <1>1. IsChild(y, o, k)
    BY ChildOf DEF Places
  <1>2. /\ o \in DOMAIN body /\ k \in 1..Len(Sizes(o)) /\ i \in 1..n
        /\ y = o \o <<k, i>> /\ \A m \in Nat : Sibling(y, m) = o \o <<k, m>>
    BY <1>1 DEF IsChild
  <1>3. n \in Nat
    BY <1>2, BodyFacts
  <1>4. PICK j : j = NextOf(o, k, i, removed)
    OBVIOUS
  <1>5. j \in (i + 1)..(n + 1) /\ \A m \in (i + 1)..(j - 1) : o \o <<k, m>> \in removed
    <2>1. i \in 0..Sizes(o)[k]
      BY <1>2, <1>3
    <2>2. /\ NextOf(o, k, i, removed) \in (i + 1)..(Sizes(o)[k] + 1)
          /\ \A m \in (i + 1)..(NextOf(o, k, i, removed) - 1) : o \o <<k, m>> \in removed
      BY <1>2, <2>1, NextFacts
    <2> QED  BY <1>4, <2>2
  <1>6. \A m \in (i + 1)..n : o \o <<k, m>> \in Places
    <2> TAKE m \in (i + 1)..n
    <2>1. m \in 1..n
      BY <1>2, <1>3
    <2> QED  BY <1>2, <2>1, ChildIn DEF Places
  <1>7. \A z \in Places : z \in removed => z \notin Ended
    BY NotEnded DEF NoneHidden
  <1>8. \A m \in (i + 1)..n : m < j => o \o <<k, m>> \notin Ended
    <2> TAKE m \in (i + 1)..n
    <2> HAVE m < j
    <2>1. m \in (i + 1)..(j - 1)
      BY <1>2, <1>3, <1>5
    <2> QED  BY <1>5, <1>6, <1>7, <2>1
  <1>9. After(y) = IF j <= n THEN o \o <<k, j>> ELSE <<>>
    <2>1. j \in Nat
      BY <1>2, <1>3, <1>5
    <2> QED  BY <1>2, <1>4, <2>1 DEF After, Following, List, Sizes
  <1>10. CASE j <= n
    <2>1. j \in (i + 1)..n
      BY <1>2, <1>3, <1>5, <1>10
    <2>2. o \o <<k, j>> # <<>> /\ After(y) = o \o <<k, j>>
      BY <1>6, <1>9, <1>10, <2>1 DEF Places
    <2>3. \A m \in (i + 1)..(j - 1) : m \in (i + 1)..n /\ m < j
      BY <1>2, <1>3, <2>1
    <2> QED  BY <1>2, <1>3, <1>8, <2>1, <2>2, <2>3 DEF Followed
  <1>11. CASE ~(j <= n)
    <2>1. After(y) = <<>>
      BY <1>9, <1>11
    <2>2. \A m \in (i + 1)..n : m < j
      BY <1>2, <1>3, <1>5, <1>11
    <2> QED  BY <1>2, <1>3, <1>8, <2>1, <2>2 DEF Followed
  <1> QED  BY <1>10, <1>11

\* An execution that leaves a directive goes on where it may be.
LEMMA LeftOpen ==
    ASSUME body \in Bodies, NoneHidden, NEW R, NEW y \in Places, Passes(y, R)
    PROVE  Left(y) \subseteq Open(R)
  <1>1. PICK o, k, i, n : o = Owner(y) /\ k = List(y) /\ i = Last(y) /\ n = Sizes(o)[k]
    OBVIOUS
  <1>2. /\ o \in DOMAIN body /\ k \in 1..Len(Sizes(o)) /\ n \in Nat /\ i \in 1..n
        /\ y = o \o <<k, i>>
        /\ IF After(y) = <<>>
           THEN \A m \in (i + 1)..n : o \o <<k, m>> \notin Ended
           ELSE \E j \in (i + 1)..n :
                   /\ After(y) = o \o <<k, j>>
                   /\ \A m \in (i + 1)..(j - 1) : o \o <<k, m>> \notin Ended
    <2>1. Followed(y, o, k, i, n)
      BY <1>1, AfterFacts
    <2> QED  BY <2>1 DEF Followed
  <1>3. Clear(y, R)
    BY DEF Clear, Passes
  <1>4. o \in Places /\ body[o].kind \notin FunctionKinds => Clear(o, R) /\ Routine(o) = Routine(y)
    <2> SUFFICES ASSUME o \in Places, body[o].kind \notin FunctionKinds
                 PROVE  Clear(o, R) /\ Routine(o) = Routine(y)
      OBVIOUS
    <2>1. Routine(o) = Routine(y)
      BY <1>1, OwnerRoutine
    <2>2. o \in Around(y) \ {<<>>}
      BY <1>1, AroundFacts DEF Places
    <2> QED  BY <1>3, <2>1, <2>2, BuriedFacts DEF Clear
  <1>5. CASE After(y) # <<>>
    <2>1. PICK j \in (i + 1)..n : /\ After(y) = o \o <<k, j>>
                                  /\ \A m \in (i + 1)..(j - 1) : o \o <<k, m>> \notin Ended
      BY <1>2, <1>5
    <2>2. PICK z : z = o \o <<k, j>>
      OBVIOUS
    <2>3. j \in 1..n
      BY <1>2, <2>1
    <2>4. z \in Places /\ IsChild(z, o, k) /\ Last(z) = j
      <3>1. j \in 1..Sizes(o)[k]
        BY <1>1, <2>3
      <3> QED  BY <1>2, <2>2, <3>1, ChildIn DEF Places
    <2>5. Owner(z) = o /\ List(z) = k
      BY <2>4 DEF IsChild
    <2>6. Routine(z) = Routine(y)
      <3>1. Enclosing(z) = Enclosing(y)
        BY <1>1, <2>4, <2>5, AroundFacts DEF Places
      <3> QED  BY <3>1 DEF Routine, Innermost
    <2>7. Clear(z, R)
      <3>1. CASE Routine(y) # R
        BY <2>6, <3>1 DEF Clear
      <3>2. CASE Routine(y) = R
        <4>1. ~Cut(y) /\ y \notin Ended
          BY <3>2, BuriedFacts DEF Passes
        <4>2. ~Cut(z)
          <5> SUFFICES ASSUME NEW m \in 1..(j - 1), CutAt(o, k, m, j) PROVE FALSE
            BY <2>4, <2>5 DEF Cut
          <5>1. o \o <<k, m>> \in Ended
            BY DEF CutAt
          <5>2. m < i
            <6>1. m # i
              BY <1>2, <4>1, <5>1
            <6>2. m \notin (i + 1)..(j - 1)
              BY <2>1, <5>1
            <6> QED  BY <1>2, <2>3, <6>1, <6>2
          <5>3. Unmarked(o, k, m, i)
            <6>1. (m + 1)..i \subseteq (m + 1)..j
              BY <1>2, <2>1
            <6> QED  BY <6>1 DEF CutAt, Unmarked
          <5>4. m \in 1..(i - 1)
            BY <1>2, <2>3, <5>2
          <5> QED  BY <1>1, <4>1, <5>1, <5>3, <5>4 DEF Cut, CutAt
        <4> QED  BY <1>4, <2>4, <2>5, <4>2, ClearChild
      <3> QED  BY <3>1, <3>2
    <2>8. Left(y) = {In(z)}
      BY <1>5, <2>1, <2>2 DEF Left
    <2> QED  BY <2>4, <2>7, <2>8, OpenFacts
  <1>6. CASE After(y) = <<>>
    <2>1. Left(y) = Completed(o)
      BY <1>1, <1>6 DEF Left
    <2>2. CASE body[o].kind \in FunctionKinds \union {"program"}
      <3>1. body[o].kind \notin LoopKinds
        BY <2>2 DEF LoopKinds, FunctionKinds
      <3>2. Completed(o) = {}
        BY <2>2, <3>1, Zenon DEF Completed
      <3> QED  BY <2>1, <3>2
    <2>3. CASE body[o].kind \notin FunctionKinds \union {"program"}
      <3>1. o \in Places
        BY <1>2, <2>3, BodyFacts DEF Places
      <3>2. Clear(o, R) /\ Routine(o) = Routine(y)
        BY <1>4, <2>3, <3>1
      <3>3. Routine(y) = R => o \notin Ended
        <4> SUFFICES ASSUME Routine(y) = R, o \in Ended PROVE FALSE
          OBVIOUS
        <4>1. ~Cut(y) /\ y \notin Ended
          BY BuriedFacts DEF Passes
        <4>2. Ends(o, Ended)
          BY <3>1, EndedFacts DEF Places
        <4>3. body[o].kind \notin TerminalKinds
          <5>1. Len(Sizes(o)) # 0
            BY <1>2
          <5>2. body[o].kind \notin Leaves
            BY <1>2, <5>1, ListCountFacts, BodyFacts
          <5> QED  BY <5>2 DEF TerminalKinds, Leaves
        <4>4. body[o].kind = "list"
          BY <4>2, <4>3 DEF Ends
        <4>5. k = 1
          <5>1. "list" \in Compounds /\ "list" # "if"
            BY DEF Compounds
          <5>2. ListCounts("list") = {1}
            BY <5>1, ListCountFacts
          <5>3. Len(Sizes(o)) = 1
            BY <1>2, <4>4, <5>2, BodyFacts
          <5> QED  BY <1>2, <5>3
        <4>6. PICK m \in 1..n : o \o <<k, m>> \in Ended /\ Unmarked(o, k, m, n)
          BY <1>1, <4>2, <4>3, <4>5, Zenon DEF Ends
        <4>7. m < i
          <5>1. m # i
            BY <1>2, <4>1, <4>6
          <5>2. m \notin (i + 1)..n
            BY <1>2, <1>6, <4>6
          <5> QED  BY <1>2, <5>1, <5>2
        <4>8. Unmarked(o, k, m, i)
          <5>1. (m + 1)..i \subseteq (m + 1)..n
            BY <1>2
          <5> QED  BY <4>6, <5>1 DEF Unmarked
        <4>9. m \in 1..(i - 1)
          BY <1>2, <4>7
        <4> QED  BY <1>1, <4>1, <4>6, <4>8, <4>9 DEF Cut, CutAt
      <3>4. Passes(o, R)
        BY <3>2, <3>3 DEF Clear, Passes
      <3>5. Completed(o) \subseteq {In(o), Out(o)}
        BY Zenon DEF Completed
      <3> QED  BY <2>1, <3>1, <3>2, <3>4, <3>5, OpenFacts
    <2> QED  BY <2>2, <2>3
  <1> QED  BY <1>5, <1>6

\* The gotos are in other functions, and lead to labels of theirs.
NoGotos(R) ==
    \A g \in Places : body[g].kind = "goto" /\ g \in DOMAIN enters =>
            enters[g] \in LabelsIn(Routine(g)) /\ Routine(g) # R

\* An execution that comes to a directive goes on where it may be.
LEMMA EnteredOpen ==
    ASSUME body \in Bodies, NoneHidden, LandInv, NEW R, NoGotos(R), NEW y \in Places, Clear(y, R)
    PROVE  Entered(y) \subseteq Open(R)
  <1>1. y \in unknown \/ Kind(y) = body[y].kind
    BY DEF Kind
  <1>2. Kind(y) \notin TerminalKinds \union {"list"} => Out(y) \in Open(R)
    <2> SUFFICES ASSUME Kind(y) \notin TerminalKinds \union {"list"} PROVE Passes(y, R)
      BY OpenFacts
    <2>1. y \notin Ended
      BY NotEnded
    <2> QED  BY <2>1 DEF Passes, Clear
  <1>3. Kind(y) \in Compounds \ FunctionKinds => AllStarted(y) \subseteq Open(R)
    <2> SUFFICES ASSUME Kind(y) \in Compounds \ FunctionKinds, NEW k \in 1..Len(Sizes(y))
                 PROVE  Started(y, k) \subseteq Open(R)
      BY DEF AllStarted, Sizes
    <2>1. y \in DOMAIN body
      BY DEF Places
    <2> QED  BY <2>1, StartedOpen
  <1>4. CASE Kind(y) \in {"return", "return_value", "throw"}
    <2>1. Entered(y) = {}
      BY <1>4, Zenon DEF Entered
    <2> QED  BY <2>1
  <1>5. CASE Kind(y) = "goto"
    <2>1. body[y].kind = "goto"
      BY <1>5, PlainKinds DEF Places
    <2>2. Entered(y) = IF y \in DOMAIN enters THEN {In(enters[y])} ELSE {}
      <3>1. Kind(y) \notin {"return", "return_value", "throw"}
        BY <1>5
      <3> QED  BY <1>5, <3>1, Zenon DEF Entered
    <2>3. ASSUME y \in DOMAIN enters PROVE In(enters[y]) \in Open(R)
      <3>1. PICK l : l = enters[y]
        OBVIOUS
      <3>2. l \in Places /\ Routine(l) # R
        BY <2>1, <2>3, <3>1 DEF NoGotos, LabelsIn, Places
      <3>3. Clear(l, R)
        BY <3>2 DEF Clear
      <3> QED  BY <3>1, <3>2, <3>3, OpenFacts
    <2> QED  BY <2>2, <2>3
  <1>6. CASE Kind(y) \in JumpKinds
    <2>1. body[y].kind \in JumpKinds
      BY <1>6, PlainKinds DEF Places, JumpKinds
    <2>2. Entered(y) \subseteq IF y \in DOMAIN exits THEN {In(exits[y]), Out(exits[y])} ELSE {}
      <3>1. Kind(y) \notin {"return", "return_value", "throw"} /\ Kind(y) # "goto"
        BY <1>6 DEF JumpKinds
      <3>2. Kind(y) = "break" => Entered(y) = IF y \in DOMAIN exits THEN {Out(exits[y])} ELSE {}
        BY <3>1, Zenon DEF Entered
      <3>3. Kind(y) = "continue" => Entered(y) = IF y \in DOMAIN exits THEN {In(exits[y]), Out(exits[y])} ELSE {}
        <4>1. Kind(y) = "continue" => Kind(y) # "break"
          OBVIOUS
        <4> QED  BY <3>1, <4>1, Zenon DEF Entered
      <3> QED  BY <1>6, <3>2, <3>3 DEF JumpKinds
    <2>3. ASSUME y \in DOMAIN exits
          PROVE  In(exits[y]) \in Open(R) /\ Out(exits[y]) \in Open(R)
      <3>1. PICK q : q = exits[y]
        OBVIOUS
      <3>2. /\ q \in Enclosing(y) \ {<<>>} /\ body[q].kind \in LoopKinds \union {"switch"}
            /\ Routine(q) = Routine(y)
        BY <2>1, <2>3, <3>1 DEF LandInv, Landed
      <3>3. q \in Around(y) \ {<<>>} /\ q \in Places
        BY <3>2, AroundFacts DEF Places
      <3>4. Clear(q, R)
        BY <3>2, <3>3, BuriedFacts DEF Clear
      <3>5. body[q].kind \notin TerminalKinds \union {"list"}
        BY <3>2 DEF LoopKinds, TerminalKinds
      <3>6. Passes(q, R)
        BY <3>3, <3>4, <3>5, NotEnded DEF Clear, Passes
      <3> QED  BY <3>1, <3>3, <3>4, <3>6, OpenFacts
    <2> QED  BY <2>2, <2>3
  <1>7. CASE Kind(y) = "switch"
    <2>1. Kind(y) \notin {"return", "return_value", "throw", "goto", "break", "continue"}
      BY <1>7
    <2>2. Entered(y) =
            {Out(y)} \union {In(c) : c \in {d \in Children(y, 1) : Kind(d) \in {"case", "default"}}}
      BY <1>7, <2>1, Zenon DEF Entered
    <2>3. ASSUME NEW c \in Children(y, 1), Kind(c) \in MarkKinds PROVE In(c) \in Open(R)
      <3>1. body[y].kind = "switch" /\ y \in DOMAIN body
        BY <1>1, <1>7 DEF Kind, Places
      <3>2. 1 \in 1..Len(Sizes(y))
        <4>1. "switch" \in Compounds /\ "switch" # "if"
          BY DEF Compounds
        <4>2. ListCounts("switch") = {1}
          BY <4>1, ListCountFacts
        <4> QED  BY <3>1, <4>2, BodyFacts
      <3>3. c \in Places /\ IsChild(c, y, 1)
        BY <3>1, <3>2, ChildrenFacts DEF Places
      <3>4. body[c].kind \in MarkKinds
        BY <2>3 DEF Kind, MarkKinds
      <3>5. ~Cut(c)
        <4> SUFFICES ASSUME NEW i \in 1..(Last(c) - 1), CutAt(y, 1, i, Last(c)) PROVE FALSE
          BY <3>3 DEF Cut, IsChild
        <4>1. Last(c) \in (i + 1)..Last(c)
          BY <3>3 DEF IsChild
        <4> QED  BY <3>3, <3>4, <4>1 DEF CutAt, Unmarked, IsChild
      <3>6. Clear(c, R)
        BY <3>3, <3>5, ClearChild DEF IsChild
      <3> QED  BY <3>3, <3>6, OpenFacts
    <2>4. Out(y) \in Open(R)
      BY <1>2, <1>7 DEF TerminalKinds
    <2> QED  BY <2>2, <2>3, <2>4 DEF MarkKinds
  <1>8. CASE Kind(y) \in {"while", "for", "try", "catch", "typed_catch", "if"}
    <2>1. Entered(y) \subseteq {Out(y)} \union AllStarted(y)
      <3>1. Kind(y) \notin {"return", "return_value", "throw", "goto", "break", "continue", "switch"}
        BY <1>8
      <3> QED  BY <1>8, <3>1, Zenon DEF Entered
    <2>2. Kind(y) \in Compounds \ FunctionKinds /\ Kind(y) \notin TerminalKinds \union {"list"}
      BY <1>8 DEF Compounds, FunctionKinds, LoopKinds, TerminalKinds
    <2> QED  BY <1>2, <1>3, <2>1, <2>2
  <1>9. CASE Kind(y) \in {"do", "list", "with", "finally"}
    <2>1. Entered(y) = AllStarted(y)
      <3>1. Kind(y) \notin {"return", "return_value", "throw", "goto", "break", "continue",
                            "switch", "while", "for", "try", "catch", "typed_catch", "if"}
        BY <1>9
      <3> QED  BY <1>9, <3>1, Zenon DEF Entered
    <2>2. Kind(y) \in Compounds \ FunctionKinds
      BY <1>9 DEF Compounds, FunctionKinds, LoopKinds
    <2> QED  BY <1>3, <2>1, <2>2
  <1>10. CASE Kind(y) \notin {"return", "return_value", "throw", "goto", "break", "continue",
                              "switch", "while", "for", "try", "catch", "typed_catch", "if",
                              "do", "list", "with", "finally"}
    <2>1. Entered(y) = {Out(y)}
      BY <1>10, Zenon DEF Entered
    <2>2. Kind(y) \notin TerminalKinds \union {"list"}
      BY <1>10 DEF TerminalKinds
    <2> QED  BY <1>2, <2>1, <2>2
  <1> QED  BY <1>4, <1>5, <1>6, <1>7, <1>8, <1>9, <1>10 DEF JumpKinds

\* So no execution comes to what is cut off.
LEMMA ExecutableOpen ==
    ASSUME body \in Bodies, NoneHidden, LandInv, NEW R, NoGotos(R)
    PROVE  Executable \subseteq Open(R)
  <1>1. ASSUME NEW point \in Open(R) PROVE Steps(point) \subseteq Open(R)
    <2>1. CASE \E y \in Places : point = In(y) /\ Clear(y, R)
      <3>1. PICK y \in Places : point = In(y) /\ Clear(y, R)
        BY <2>1
      <3>2. Steps(point) = Entered(y)
        BY <3>1 DEF Steps, In
      <3> QED  BY <3>1, <3>2, EnteredOpen
    <2>2. CASE \E y \in Places : point = Out(y) /\ Passes(y, R)
      <3>1. PICK y \in Places : point = Out(y) /\ Passes(y, R)
        BY <2>2
      <3>2. Steps(point) = Left(y)
        BY <3>1 DEF Steps, Out
      <3> QED  BY <3>1, <3>2, LeftOpen
    <2> QED  BY <1>1, <2>1, <2>2 DEF Open
  <1> QED  BY <1>1, StartsOpen, ReachStays

\* InaccessibleIsTrue for every program: what is said not to be accessible is cut off, and no
\* execution of a function without a goto comes to what is cut off in it.
THEOREM InaccessibleIsTrueAlways == Spec => []InaccessibleIsTrue
  <1>1. CallsInv /\ GotoInv /\ LandInv /\ EndsInv => InaccessibleIsTrue
    <2> SUFFICES ASSUME CallsInv, GotoInv, LandInv, EndsInv, NEW p \in Reported("INACCESSIBLE"),
                        \A g \in DOMAIN enters : Routine(g) # Routine(p)
                 PROVE  In(p) \notin Executable
      BY DEF InaccessibleIsTrue
    <2>1. body \in Bodies /\ NoneHidden
      BY DEF CallsInv, StackInv, NoneHidden
    <2>2. Blamed(p, "INACCESSIBLE", errors)
      BY DEF Reported, Blamed
    <2>3. p \in Places /\ Cut(p)
      BY <2>2 DEF EndsInv, Places
    <2>4. NoGotos(Routine(p))
      BY DEF NoGotos, GotoInv, Gone, Led, Places
    <2>5. Executable \subseteq Open(Routine(p))
      BY <2>1, <2>4, ExecutableOpen
    <2>6. ~Clear(p, Routine(p))
      BY <2>1, <2>3, BuriedFacts DEF Clear
    <2> QED  BY <2>3, <2>5, <2>6, OpenFacts
  <1> QED  BY <1>1, CallsInvariant, GotoInvariant, LandInvariant, EndsInvariant, PTL

-----------------------------------------------------------------------------
(* The second compilation of a function.                                   *)

\* The innermost call is over.
Popped ==
    /\ AtEnd(Top) /\ Top.list = Len(Sizes(Top.owner))
    /\ \/ stack' = <<>>
       \/ \E m \in 1..Len(stack) : \E e :
             m \in 1..Len(stack') /\ Passed(stack[m], stack'[m], e) /\ Current(stack[m]) = Top.owner

\* Every call is there after a step, has gone on, starts another list or is over.
LEMMA CallsBefore ==
    ASSUME CallsInv, Works, NEW i \in 1..Len(stack)
    PROVE  \/ i \in 1..Len(stack') /\ stack'[i] = stack[i]
           \/ \E e : i \in 1..Len(stack') /\ Passed(stack[i], stack'[i], e)
           \/ /\ stack[i] = Top /\ AtEnd(Top) /\ i \in 1..Len(stack') /\ stack'[i].owner = Top.owner
              /\ \/ stack'[i].list = 1 /\ stack'[i].again
                 \/ stack'[i].list = Top.list + 1 /\ ~stack'[i].again
           \/ stack[i] = Top /\ Popped
  <1>1. body \in Bodies /\ stack \in Seq(Frames) /\ Chain(stack)
    BY DEF CallsInv, StackInv
  <1>2. stack # <<>> => FrameOK(Top) /\ Top = Last(stack)
    BY TopFacts DEF Top
  <1>3. CASE \E f, c, e, g : PassStep(f, c, e, g)
    <2>1. PICK f, c, e, g : PassStep(f, c, e, g)
      BY <1>3, Zenon
    <2>2. /\ stack # <<>> /\ f = Last(stack) /\ f.idx <= Size(f) /\ e \in BOOLEAN
          /\ g = Advance(f, e) /\ stack' = [stack EXCEPT ![Len(stack)] = g]
          /\ c = Current(f) /\ AtCurrent(c) /\ e = (f.ending \/ Kind(c) \in TerminalKinds)
          /\ (c \in unknown \/ body[c].kind \in Leaves)
      BY <2>1 DEF PassStep, AtTop, AtCurrent, Top
    <2>3. FrameOK(f)
      BY <1>2, <2>2
    <2>4. Onward(f, g, f.idx, removed)
      BY <1>1, <2>2, <2>3, AdvanceFacts
    <2>5. g \in Frames /\ g.owner = f.owner
      BY <2>4 DEF Onward, FrameOK
    <2>6. PICK t, n : t = stack' /\ n = Len(stack)
      OBVIOUS
    <2>7. /\ Len(t) = n /\ n \in Nat \ {0} /\ t[n] = g /\ \A m \in 1..n : m # n => t[m] = stack[m]
          /\ Last(stack) = stack[n]
      BY <1>1, <2>2, <2>5, <2>6, TopReplaced
    <2>8. Passed(f, g, e)
      BY <1>2, <2>2, <2>3 DEF Passed
    <2> QED  BY <2>2, <2>6, <2>7, <2>8
  <1>4. CASE \E f, c, g : EnterStep(f, c, g)
    <2>1. PICK f, c, g : EnterStep(f, c, g)
      BY <1>4, Zenon
    <2>2. stack' = Append(stack, g)
      BY <2>1 DEF EnterStep
    <2>3. PICK t, n : t = stack' /\ n = Len(stack)
      OBVIOUS
    <2>4. n \in Nat /\ Len(t) = n + 1 /\ \A m \in 1..n : t[m] = stack[m]
      BY <1>1, <2>2, <2>3
    <2> QED  BY <2>3, <2>4
  <1>5. CASE \E f, g : ListStep(f, g)
    <2>1. PICK f, g : ListStep(f, g)
      BY <1>5, Zenon
    <2>2. stack # <<>> /\ f = Last(stack) /\ stack' = Append(Front(stack), g) /\ AtEnd(f)
          /\ g = Frame(f.owner, g.list, f.base, g.again, removed')
          /\ \/ g.list = 1 /\ g.again = TRUE
             \/ g.list = f.list + 1 /\ removed' = removed /\ g.again = FALSE
      BY <2>1 DEF ListStep, AtEnd
    <2>3. PICK d, n, t : d = Front(stack) /\ n = Len(stack) /\ t = stack'
      OBVIOUS
    <2>4. /\ n \in Nat \ {0} /\ Last(stack) = stack[n] /\ d \in Seq(Frames) /\ Len(d) = n - 1
          /\ \A m \in 1..(n - 1) : d[m] = stack[m]
      BY <1>1, <2>2, <2>3, FrontPlaces
    <2>5. Len(t) = n /\ t[n] = g /\ \A m \in 1..(n - 1) : t[m] = d[m]
      BY <2>2, <2>3, <2>4
    <2>6. i \in 1..(n - 1) \/ i = n
      BY <2>3, <2>4
    <2>7. g.owner = f.owner
      <3>1. PICK o, k, b, a : o = f.owner /\ k = g.list /\ b = f.base /\ a = g.again
        OBVIOUS
      <3>2. g = Frame(o, k, b, a, removed')
        BY <2>2, <3>1
      <3> QED  BY <3>1, <3>2 DEF Frame
    <2>8. CASE i \in 1..(n - 1)
      <3>1. i \in 1..n
        BY <2>4, <2>8
      <3> QED  BY <2>3, <2>4, <2>5, <2>8, <3>1
    <2>9. CASE i = n
      <3>1. i \in 1..n /\ f = Top
        BY <1>2, <2>2, <2>4, <2>9
      <3> QED  BY <2>2, <2>3, <2>4, <2>5, <2>7, <2>9, <3>1
    <2> QED  BY <2>6, <2>8, <2>9
  <1>6. CASE \E f, e : PopStep(f, e)
    <2>1. PICK f, e : PopStep(f, e)
      BY <1>6, Zenon
    <2>2. PICK d, n, t : d = Front(stack) /\ n = Len(stack) /\ t = stack'
      OBVIOUS
    <2>3. stack # <<>> /\ AtEnd(f) /\ f = Last(stack) /\ f = Top /\ f.list = Len(Sizes(f.owner))
      BY <2>1 DEF PopStep, AtEnd, Top
    <2>4. /\ n \in Nat \ {0} /\ d \in Seq(Frames) /\ Len(d) = n - 1
          /\ \A m \in 1..(n - 1) : d[m] = stack[m]
          /\ f = stack[n]
      BY <1>1, <2>2, <2>3, FrontPlaces
    <2>5. CASE d = <<>>
      <3>1. stack' = <<>>
        BY <2>1, <2>2, <2>5, Zenon DEF PopStep
      <3>2. i = n
        <4>1. n = 1
          BY <2>4, <2>5
        <4> QED  BY <2>2, <4>1
      <3> QED  BY <2>3, <2>4, <3>1, <3>2 DEF Popped
    <2>6. CASE d # <<>>
      <3>1. e \in BOOLEAN /\ t = [d EXCEPT ![Len(d)] = Advance(Last(d), e)]
        BY <2>1, <2>2, <2>6 DEF PopStep
      <3>2. PICK h, x, m : h = Last(d) /\ x = Advance(h, e) /\ m = n - 1
        OBVIOUS
      <3>3. h = d[m] /\ m \in 1..n /\ m # n /\ h = stack[m] /\ FrameOK(h) /\ m \in Nat \ {0}
        <4>1. m \in Nat \ {0}
          BY <2>4, <2>6, <3>2
        <4>2. h = d[m]
          BY <2>4, <2>6, <3>2, FrontPlaces
        <4> QED  BY <1>1, <2>2, <2>4, <3>2, <4>1, <4>2 DEF Chain
      <3>4. h.idx <= Size(h) /\ Current(h) = f.owner
        <4>1. n \in 1..n /\ n = m + 1
          BY <2>4, <3>2
        <4> QED  BY <1>1, <2>2, <2>4, <3>3, <4>1 DEF Chain
      <3>5. Passed(h, x, e)
        <4>1. e = IF body[f.owner].kind = "list" THEN f.ending ELSE h.ending
          BY <2>1, <2>2, <2>6, <3>2 DEF PopStep
        <4> QED  BY <2>3, <3>1, <3>2, <3>3, <3>4, <4>1, Zenon DEF Passed
      <3>6. Len(t) = m /\ t[m] = x /\ \A l \in 1..m : l # m => t[l] = d[l]
        BY <2>4, <3>1, <3>2, <3>3
      <3>7. m \in 1..Len(stack) /\ m \in 1..Len(stack') /\ h = stack[m] /\ x = stack'[m]
        BY <2>2, <3>3, <3>6
      <3>8. Popped
        BY <2>3, <3>4, <3>5, <3>7 DEF Popped
      <3>9. CASE i = n
        BY <2>3, <2>4, <3>8, <3>9
      <3>10. CASE i # n
        <4>1. i \in 1..m
          BY <2>2, <2>4, <3>2, <3>3, <3>10
        <4>2. CASE i = m
          BY <3>5, <3>7, <4>2
        <4>3. CASE i # m
          <5>1. i \in 1..(n - 1)
            BY <3>2, <4>1
          <5> QED  BY <2>2, <2>4, <3>6, <4>1, <4>3, <5>1
        <4> QED  BY <4>2, <4>3
      <3> QED  BY <3>9, <3>10
    <2> QED  BY <2>5, <2>6
  <1> QED  BY <1>3, <1>4, <1>5, <1>6, Shapes DEF Classified

\* The calls are done with q, or compile a function that it is or is in for the second time.
Over(q, s) == Past(q, s) \/ \E i \in 1..Len(s) : s[i].again /\ s[i].owner \in Around(q)

\* The directive was compiled once, if it is not in one marked false.
Known(p, s) == Seen(p, s) \/ Over(Owner(p), s)

\* Functions are compiled again, and only what is in them is removed.
AgainInv ==
    /\ \A i \in 1..Len(stack) : stack[i].again => body[stack[i].owner].kind = "function"
    /\ \A q \in removed : Over(Owner(q), stack)

\* The calls that are done with a directive are done with those in it.
LEMMA OverInside ==
    ASSUME body \in Bodies, NEW a \in DOMAIN body, NEW b \in DOMAIN body, a \in Around(b), NEW s
    PROVE  (Past(a, s) => Past(b, s)) /\ (Over(a, s) => Over(b, s))
  <1>1. Around(a) \subseteq Around(b)
    BY AroundFacts
  <1> QED  BY <1>1 DEF Past, Over

\* What a call that goes on is done with.
LEMMA PassedFacts ==
    ASSUME body \in Bodies, NEW h, NEW g, NEW e, Passed(h, g, e)
    PROVE  /\ g.owner = h.owner /\ g.list = h.list /\ g.again = h.again
           /\ FrameOK(h) /\ Onward(h, g, h.idx, removed) /\ h.idx < g.idx
           /\ Current(h) \in DOMAIN body \ {<<>>} /\ Behind(Current(h), g)
           /\ \A x \in DOMAIN body \ {<<>>} :
                 /\ Behind(x, h) => Behind(x, g)
                 /\ Behind(x, g) => Behind(x, h) \/ x = Current(h) \/ x \in removed
  <1>1. FrameOK(h) /\ h.idx <= Size(h) /\ e \in BOOLEAN /\ g = Advance(h, e)
    BY DEF Passed
  <1>2. g.owner = h.owner /\ g.list = h.list /\ g.again = h.again /\ Onward(h, g, h.idx, removed)
    BY <1>1, AdvanceFacts
  <1>3. h.idx \in 0..Sizes(g.owner)[g.list]
    BY <1>1, <1>2, FrameNumbers
  <1>4. h.idx < g.idx
    BY <1>2, <1>3, OnwardLater
  <1>5. /\ Current(h) \in DOMAIN body \ {<<>>} /\ IsChild(Current(h), h.owner, h.list)
        /\ Last(Current(h)) = h.idx
    BY <1>1, CurrentFacts
  <1>6. Behind(Current(h), g)
    BY <1>2, <1>4, <1>5 DEF Behind, IsChild
  <1>7. FrameOK(g) /\ h.idx \in Nat /\ g.idx \in Nat
    BY <1>1, <1>2, FrameNumbers DEF Onward
  <1>8. ASSUME NEW x \in DOMAIN body \ {<<>>}
        PROVE  /\ Behind(x, h) => Behind(x, g)
               /\ Behind(x, g) => Behind(x, h) \/ x = Current(h) \/ x \in removed
    <2>1. IsChild(x, Owner(x), List(x)) /\ Last(x) \in Nat
      BY ChildOf, ChildNumbers
    <2>2. Behind(x, h) => Behind(x, g)
      BY <1>2, <1>4, <1>7, <2>1 DEF Behind
    <2>3. ASSUME Behind(x, g), ~Behind(x, h), x \notin removed PROVE x = Current(h)
      <3>1. Owner(x) = h.owner /\ List(x) = h.list /\ Last(x) < g.idx /\ ~(Last(x) < h.idx)
        BY <1>2, <2>3 DEF Behind
      <3>2. Last(x) <= h.idx
        BY <1>2, <1>3, <2>3, <3>1, Skipped
      <3>3. Last(x) = h.idx
        BY <1>7, <2>1, <3>1, <3>2
      <3> QED  BY <2>1, <3>1, <3>3 DEF IsChild, Current
    <2> QED  BY <2>2, <2>3
  <1> QED  BY <1>1, <1>2, <1>4, <1>5, <1>6, <1>8

\* What the calls are done with after the innermost is over.
LEMMA PoppedOver ==
    ASSUME CallsInv, Popped, NEW q \in DOMAIN body, Top.owner \in Around(q)
    PROVE  Past(q, stack')
  <1>1. CASE stack' = <<>>
    BY <1>1 DEF Past
  <1>2. CASE \E m \in 1..Len(stack) : \E e :
                m \in 1..Len(stack') /\ Passed(stack[m], stack'[m], e) /\ Current(stack[m]) = Top.owner
    <2>1. PICK m \in 1..Len(stack) : \E e :
                m \in 1..Len(stack') /\ Passed(stack[m], stack'[m], e) /\ Current(stack[m]) = Top.owner
      BY <1>2
    <2>2. PICK e :
                m \in 1..Len(stack') /\ Passed(stack[m], stack'[m], e) /\ Current(stack[m]) = Top.owner
      BY <2>1
    <2>3. Behind(Top.owner, stack'[m])
      BY <2>2, PassedFacts DEF CallsInv
    <2> QED  BY <2>2, <2>3 DEF Past
  <1> QED  BY <1>1, <1>2 DEF Popped

\* What is over stays over.
LEMMA OverStays ==
    ASSUME CallsInv, AgainInv, Works, NEW q \in DOMAIN body, Over(q, stack)
    PROVE  Over(q, stack')
  <1>1. body \in Bodies /\ stack # <<>> /\ StackInv(stack', unknown', removed')
    BY CallsStep DEF CallsInv
  <1>2. \A i \in 1..Len(stack) : FrameOK(stack[i])
    BY DEF CallsInv, StackInv, Chain
  <1>3. ASSUME NEW i \in 1..Len(stack), NEW x \in Around(q), Behind(x, stack[i])
        PROVE  Over(q, stack')
    <2>1. x \in DOMAIN body \ {<<>>} /\ Owner(x) \in Around(q) /\ Owner(x) = stack[i].owner
      <3>1. x \in DOMAIN body \ {<<>>}
        BY <1>1, <1>3, AroundFacts DEF Behind
      <3>2. Owner(x) \in Around(x) /\ Around(x) \subseteq Around(q)
        BY <1>1, <3>1, AroundFacts
      <3> QED  BY <1>3, <3>1, <3>2 DEF Behind
    <2>2. CASE i \in 1..Len(stack') /\ stack'[i] = stack[i]
      BY <1>3, <2>2 DEF Over, Past
    <2>3. CASE \E e : i \in 1..Len(stack') /\ Passed(stack[i], stack'[i], e)
      <3>1. PICK e : i \in 1..Len(stack') /\ Passed(stack[i], stack'[i], e)
        BY <2>3
      <3>2. Behind(x, stack'[i])
        BY <1>1, <1>3, <2>1, <3>1, PassedFacts
      <3> QED  BY <3>1, <3>2 DEF Over, Past
    <2>4. CASE /\ stack[i] = Top /\ AtEnd(Top) /\ i \in 1..Len(stack') /\ stack'[i].owner = Top.owner
               /\ stack'[i].list = 1 /\ stack'[i].again
      BY <2>1, <2>4 DEF Over
    <2>5. CASE /\ stack[i] = Top /\ AtEnd(Top) /\ i \in 1..Len(stack') /\ stack'[i].owner = Top.owner
               /\ stack'[i].list = Top.list + 1 /\ ~stack'[i].again
      <3>1. List(x) <= Top.list /\ List(x) \in Nat /\ Top.list \in Nat
        BY <1>1, <1>2, <1>3, <2>1, <2>5, FrameNumbers, ChildOf, ChildNumbers DEF Behind
      <3>2. Behind(x, stack'[i])
        BY <1>3, <2>1, <2>5, <3>1 DEF Behind
      <3> QED  BY <2>5, <3>2 DEF Over, Past
    <2>6. CASE stack[i] = Top /\ Popped
      BY <2>1, <2>6, PoppedOver DEF Over
    <2> QED  BY <2>2, <2>3, <2>4, <2>5, <2>6, CallsBefore
  <1>4. ASSUME NEW i \in 1..Len(stack), stack[i].again, stack[i].owner \in Around(q)
        PROVE  Over(q, stack')
    <2>1. body[stack[i].owner].kind = "function"
      BY <1>4 DEF AgainInv
    <2>2. CASE i \in 1..Len(stack') /\ stack'[i] = stack[i]
      BY <1>4, <2>2 DEF Over
    <2>3. CASE \E e : i \in 1..Len(stack') /\ Passed(stack[i], stack'[i], e)
      <3>1. PICK e : i \in 1..Len(stack') /\ Passed(stack[i], stack'[i], e)
        BY <2>3
      <3>2. stack'[i].again /\ stack'[i].owner = stack[i].owner
        BY <1>1, <1>4, <3>1, PassedFacts
      <3> QED  BY <1>4, <3>1, <3>2 DEF Over
    <2>4. CASE /\ stack[i] = Top /\ AtEnd(Top) /\ i \in 1..Len(stack') /\ stack'[i].owner = Top.owner
               /\ stack'[i].list = 1 /\ stack'[i].again
      BY <1>4, <2>4 DEF Over
    <2>5. CASE /\ stack[i] = Top /\ AtEnd(Top) /\ i \in 1..Len(stack') /\ stack'[i].owner = Top.owner
               /\ stack'[i].list = Top.list + 1 /\ ~stack'[i].again
      <3>1. FrameOK(stack'[i])
        BY <1>1, <2>5 DEF StackInv, Chain
      <3>2. PICK o, k, l : o = Top.owner /\ k = Top.list /\ l = stack'[i].list
        OBVIOUS
      <3>3. o \in DOMAIN body /\ k \in Nat \ {0} /\ l = k + 1 /\ l <= Len(Sizes(o)) /\ Len(Sizes(o)) \in Nat
        <4>1. FrameOK(Top)
          BY <1>2, <2>5
        <4>2. o \in DOMAIN body /\ k \in Nat \ {0}
          BY <1>1, <3>2, <4>1, FrameNumbers
        <4>3. l \in 1..Len(Sizes(o))
          BY <2>5, <3>1, <3>2 DEF FrameOK
        <4>4. Len(Sizes(o)) \in Nat
          BY <1>1, <4>2, BodyFacts
        <4> QED  BY <2>5, <3>2, <4>2, <4>3, <4>4
      <3>4. Len(Sizes(o)) = 1
        <4>1. Len(Sizes(o)) \in ListCounts("function")
          BY <1>1, <2>1, <2>5, <3>2, <3>3, BodyFacts
        <4>2. ListCounts("function") = {1}
          BY ListCountFacts DEF FunctionKinds
        <4> QED  BY <4>1, <4>2
      <3> QED  BY <3>3, <3>4
    <2>6. CASE stack[i] = Top /\ Popped
      BY <1>4, <2>6, PoppedOver DEF Over
    <2> QED  BY <2>2, <2>3, <2>4, <2>5, <2>6, CallsBefore
  <1> QED  BY <1>1, <1>3, <1>4 DEF Over, Past

\* What is over, in a body that does not change.
LEMMA SameOver ==
    ASSUME body' = body
    PROVE  \A q : /\ Over(q, stack)' <=> Over(q, stack')
                  /\ Known(q, stack)' <=> Known(q, stack')
  <1>1. \A q : Enclosing(q)' = Enclosing(q)
    BY DEF Enclosing
  <1>2. \A q : Around(q)' = Around(q)
    BY <1>1 DEF Around
  <1>3. \A q : Past(q, stack)' <=> Past(q, stack')
    BY <1>2 DEF Past, Behind
  <1>4. \A q : Over(q, stack)' <=> Over(q, stack')
    BY <1>2, <1>3 DEF Over
  <1>5. \A q : Seen(q, stack)' <=> Seen(q, stack')
    BY <1>3 DEF Seen
  <1> QED  BY <1>4, <1>5 DEF Known

\* A function has one list.
LEMMA FunctionList ==
    ASSUME CallsInv, NEW i \in 1..Len(stack), body[stack[i].owner].kind = "function"
    PROVE  stack[i].list = 1 /\ Len(Sizes(stack[i].owner)) = 1
  <1>1. FrameOK(stack[i]) /\ body \in Bodies
    BY DEF CallsInv, StackInv, Chain
  <1>2. PICK o, k : o = stack[i].owner /\ k = stack[i].list
    OBVIOUS
  <1>3. o \in DOMAIN body /\ k \in 1..Len(Sizes(o))
    BY <1>1, <1>2, FrameNumbers
  <1>4. Len(Sizes(o)) \in ListCounts("function")
    BY <1>1, <1>2, <1>3, BodyFacts
  <1>5. ListCounts("function") = {1}
    BY ListCountFacts DEF FunctionKinds
  <1>6. Len(Sizes(o)) = 1
    BY <1>4, <1>5
  <1>7. k = 1
    BY <1>3, <1>6
  <1> QED  BY <1>2, <1>6, <1>7

\* The innermost call is the last.
LEMMA TopPlace ==
    ASSUME CallsInv, stack # <<>>
    PROVE  Len(stack) \in 1..Len(stack) /\ stack[Len(stack)] = Top /\ FrameOK(Top)
  <1>1. stack \in Seq(Frames)
    BY DEF CallsInv, StackInv
  <1> QED  BY <1>1, FrontPlaces, TopFacts DEF Top

\* A step removes only what is in a function compiled again.
LEMMA AgainStep ==
    ASSUME CallsInv, AgainInv, Works
    PROVE  AgainInv'
  <1>1. /\ body \in Bodies /\ body' = body /\ stack # <<>>
        /\ unknown \subseteq {p \in DOMAIN body \ {<<>>} : body[p].false} /\ removed \subseteq unknown
    BY CallsStep DEF CallsInv, StackInv
  <1>2. ASSUME NEW j \in 1..Len(stack'), stack'[j].again
        PROVE  body[stack'[j].owner].kind = "function"
    <2>1. CASE j \in 1..Len(stack) /\ stack'[j] = stack[j]
      BY <1>2, <2>1 DEF AgainInv
    <2>2. CASE \E h, e : j \in 1..Len(stack) /\ h = stack[j] /\ Passed(h, stack'[j], e)
      BY <1>1, <1>2, <2>2, PassedFacts DEF AgainInv
    <2>3. CASE Called(stack'[j])
      BY <1>2, <2>3 DEF Called
    <2> QED  BY <2>1, <2>2, <2>3, CallsAfter
  <1>3. ASSUME NEW q \in removed', q \notin removed
        PROVE  Over(Owner(q), stack')
    <2>1. PICK f, g : ListStep(f, g)
      BY <1>3, Shapes, Zenon DEF Classified, PassStep, EnterStep, PopStep
    <2>2. /\ AtEnd(f) /\ f = Top /\ g = Frame(f.owner, g.list, f.base, g.again, removed')
          /\ stack' = Append(Front(stack), g) /\ g.again = TRUE
          /\ q \in unknown /\ IsPrefix(f.owner, q)
      BY <1>3, <2>1 DEF ListStep, AtEnd, Top
    <2>3. g.owner = f.owner
      <3>1. PICK o, k, b, a : o = f.owner /\ k = g.list /\ b = f.base /\ a = g.again
        OBVIOUS
      <3>2. g = Frame(o, k, b, a, removed')
        BY <2>2, <3>1
      <3> QED  BY <3>1, <3>2 DEF Frame
    <2>4. f.owner \in Around(Owner(q))
      <3>1. q \in DOMAIN body \ {<<>>} /\ body[q].false
        BY <1>1, <2>2
      <3>2. Live(f.owner) /\ f.owner \in DOMAIN body
        BY <1>1, <2>2, TopPlace, FrameNumbers DEF CallsInv, StackInv
      <3>3. q # f.owner
        BY <1>1, <3>1, <3>2, LiveFacts
      <3>4. f.owner \in Enclosing(q)
        BY <2>2, <3>1, <3>2, <3>3 DEF Enclosing, IsStrictPrefix
      <3> QED  BY <1>1, <3>1, <3>4, AroundFacts
    <2>5. \E j \in 1..Len(stack') : stack'[j] = g
      <3>1. Front(stack) \in Seq(Frames)
        BY <1>1, FrontPlaces DEF CallsInv, StackInv
      <3>2. PICK d, t : d = Front(stack) /\ t = stack'
        OBVIOUS
      <3>3. t = Append(d, g) /\ Len(d) \in Nat
        BY <2>2, <3>1, <3>2
      <3>4. Len(t) = Len(d) + 1 /\ t[Len(d) + 1] = g
        BY <3>1, <3>2, <3>3
      <3>5. Len(d) + 1 \in 1..Len(t)
        BY <3>3, <3>4
      <3> QED  BY <3>2, <3>4, <3>5
    <2> QED  BY <2>2, <2>3, <2>4, <2>5 DEF Over
  <1>4. ASSUME NEW q \in removed
        PROVE  Over(Owner(q), stack')
    <2>1. q \in DOMAIN body \ {<<>>}
      BY <1>1
    <2>2. Owner(q) \in DOMAIN body
      BY <1>1, <2>1, AroundFacts
    <2> QED  BY <2>2, OverStays DEF AgainInv
  <1>5. \A q \in removed' : Over(Owner(q), stack)'
    BY <1>1, <1>3, <1>4, SameOver
  <1> QED  BY <1>1, <1>2, <1>5 DEF AgainInv

\* A directive is known from the time it is reached, whether it is marked false or not.
LEMMA KnownStep ==
    ASSUME CallsInv, AgainInv, Works, NEW p \in DOMAIN body \ {<<>>}, Live(Owner(p)), Known(p, stack')
    PROVE  Known(p, stack) \/ AtCurrent(p)
  <1>1. /\ body \in Bodies /\ body' = body /\ stack # <<>> /\ StackInv(stack', unknown', removed')
        /\ unknown \subseteq {x \in DOMAIN body \ {<<>>} : body[x].false} /\ removed \subseteq unknown
        /\ \A i \in 1..Len(stack) : FrameOK(stack[i])
        /\ \A i \in 1..Len(stack') : FrameOK(stack'[i])
    BY CallsStep DEF CallsInv, StackInv, Chain
  <1>2. /\ Owner(p) \in DOMAIN body /\ Around(p) = Around(Owner(p)) \union {p}
        /\ Enclosing(p) = Around(Owner(p)) /\ <<>> \in Around(Owner(p))
        /\ Around(p) \subseteq DOMAIN body /\ Owner(p) \in Around(p)
    BY <1>1, AroundFacts
  <1>3. ASSUME NEW x \in removed, x \in Around(p) PROVE Known(p, stack)
    <2>1. x \in DOMAIN body \ {<<>>} /\ Over(Owner(x), stack)
      BY <1>1 DEF AgainInv
    <2>2. Owner(x) \in DOMAIN body /\ Owner(x) \in Around(Owner(p))
      <3>1. Owner(x) \in DOMAIN body /\ Owner(x) \in Around(x)
        BY <1>1, <2>1, AroundFacts
      <3>2. CASE x = p
        BY <1>1, <1>2, <3>1, <3>2, AroundFacts
      <3>3. CASE x \in Around(Owner(p))
        BY <1>1, <1>2, <3>1, <3>3, AroundFacts
      <3> QED  BY <1>2, <1>3, <3>1, <3>2, <3>3
    <2>3. Over(Owner(p), stack)
      BY <1>1, <1>2, <2>1, <2>2, OverInside
    <2> QED  BY <2>3 DEF Known
  <1>4. ASSUME Past(p, stack) PROVE Known(p, stack)
    BY <1>4 DEF Known, Seen
  <1>5. ASSUME NEW x \in Around(p), NEW j \in 1..Len(stack'), Behind(x, stack'[j])
        PROVE  Known(p, stack) \/ AtCurrent(p)
    <2>1. x \in DOMAIN body \ {<<>>} /\ IsChild(x, Owner(x), List(x)) /\ Owner(x) \in Enclosing(p)
          /\ List(x) \in Nat \ {0} /\ Last(x) \in Nat \ {0} /\ Last(x) <= Sizes(Owner(x))[List(x)]
      <3>1. x \in DOMAIN body \ {<<>>}
        BY <1>2, <1>5 DEF Behind
      <3>2. Owner(x) \in Around(Owner(p))
        <4>1. Owner(x) \in Around(x)
          BY <1>1, <3>1, AroundFacts
        <4> QED  BY <1>1, <1>2, <3>1, <4>1, AroundFacts
      <3> QED  BY <1>1, <1>2, <3>1, <3>2, ChildOf, ChildNumbers
    <2>2. CASE j \in 1..Len(stack) /\ stack'[j] = stack[j]
      BY <1>4, <1>5, <2>2 DEF Past
    <2>3. CASE \E h, e : j \in 1..Len(stack) /\ h = stack[j] /\ Passed(h, stack'[j], e)
      <3>1. PICK h, e : j \in 1..Len(stack) /\ h = stack[j] /\ Passed(h, stack'[j], e)
        BY <2>3
      <3>2. Behind(x, h) \/ x = Current(h) \/ x \in removed
        BY <1>1, <1>5, <2>1, <3>1, PassedFacts
      <3>3. CASE Behind(x, h)
        BY <1>4, <3>1, <3>3 DEF Past
      <3>4. CASE x = Current(h) /\ AtCurrent(x) /\ (x \in unknown \/ body[x].kind \in Leaves)
        <4>1. ASSUME x # p PROVE FALSE
          <5>1. x \in Around(Owner(p))
            BY <1>2, <4>1
          <5>2. ~body[x].false
            BY <5>1 DEF Live
          <5>3. body[x].kind \in Leaves
            BY <1>1, <3>4, <5>2
          <5> QED  BY <1>1, <2>1, <4>1, <5>3, LeafFacts
        <4> QED  BY <3>4, <4>1
      <3>5. CASE AtEnd(Top) /\ Top.owner = x /\ Top.list = Len(Sizes(Top.owner))
        <4>1. CASE x = p
          BY <1>1, <3>5, <4>1, TopPlace DEF Known, Seen
        <4>2. CASE x # p
          <5>1. x \in Enclosing(p)
            BY <1>2, <4>2
          <5>2. PICK n, f : n = Len(stack) /\ f = stack[n]
            OBVIOUS
          <5>3. /\ n \in 1..Len(stack) /\ FrameOK(f) /\ ~(f.idx <= Size(f))
                /\ f.list = Len(Sizes(f.owner)) /\ f.owner \in Enclosing(p)
            BY <1>1, <3>5, <5>1, <5>2, TopPlace DEF AtEnd
          <5> QED  BY <1>1, <1>4, <5>2, <5>3, DonePast
        <4> QED  BY <4>1, <4>2
      <3> QED  BY <1>3, <3>1, <3>2, <3>3, <3>4, <3>5, Zenon DEF Passed
    <2>4. CASE Called(stack'[j])
      <3>1. PICK g : g = stack'[j]
        OBVIOUS
      <3>2. FrameOK(g) /\ Behind(x, g) /\ Called(g)
        BY <1>1, <1>5, <2>4, <3>1
      <3>3. /\ g.owner \in DOMAIN body /\ g.list \in Nat \ {0} /\ g.idx \in Nat \ {0}
            /\ 0 \in 0..Sizes(g.owner)[g.list] /\ Owner(x) = g.owner
        BY <1>1, <3>2, FrameNumbers DEF Behind
      <3>4. ASSUME List(x) = g.list, Last(x) < g.idx, g.idx = NextOf(g.owner, g.list, 0, removed)
            PROVE  x \in removed
        <4>1. Onward(g, g, 0, removed)
          BY <3>2, <3>4 DEF Onward
        <4>2. Last(x) <= 0 \/ x \in removed
          BY <1>1, <2>1, <3>3, <3>4, <4>1, Skipped
        <4> QED  BY <2>1, <4>2
      <3>5. CASE g.list = 1 /\ g.idx = NextOf(g.owner, 1, 0, removed)
        <4>1. List(x) = g.list /\ Last(x) < g.idx
          BY <2>1, <3>2, <3>5 DEF Behind
        <4> QED  BY <1>3, <1>5, <3>4, <3>5, <4>1
      <3>6. CASE AtEnd(Top) /\ g.owner = Top.owner /\ (g.list = 1 \/ (g.list = Top.list + 1 /\ removed' = removed))
                 /\ g.idx = NextOf(g.owner, g.list, 0, removed')
        <4>1. FrameOK(Top) /\ Top.list \in Nat \ {0} /\ Top.idx \in Nat /\ Size(Top) \in Nat /\ ~(Top.idx <= Size(Top))
              /\ Size(Top) = Sizes(Top.owner)[Top.list]
          BY <1>1, <3>6, TopPlace, FrameNumbers DEF AtEnd
        <4>2. CASE List(x) <= Top.list
          <5>1. PICK n : n = Sizes(Top.owner)[Top.list]
            OBVIOUS
          <5>2. n \in Nat /\ n < Top.idx
            BY <4>1, <5>1
          <5>3. List(x) = Top.list => Last(x) <= n
            BY <2>1, <3>3, <3>6, <5>1
          <5>4. List(x) < Top.list \/ (List(x) = Top.list /\ Last(x) < Top.idx)
            BY <2>1, <4>1, <4>2, <5>2, <5>3
          <5>5. Behind(x, Top)
            BY <2>1, <3>3, <3>6, <5>4 DEF Behind
          <5> QED  BY <1>1, <1>4, <5>5, TopPlace DEF Past
        <4>3. CASE ~(List(x) <= Top.list)
          <5>1. List(x) <= g.list
            BY <2>1, <3>2, <3>3 DEF Behind
          <5>2. g.list = Top.list + 1 /\ removed' = removed
            BY <2>1, <3>3, <3>6, <4>1, <4>3, <5>1
          <5>3. List(x) = g.list
            BY <2>1, <4>1, <4>3, <5>1, <5>2
          <5>4. Last(x) < g.idx
            BY <3>2, <3>3, <5>3 DEF Behind
          <5> QED  BY <1>3, <1>5, <3>4, <3>6, <5>2, <5>3, <5>4
        <4> QED  BY <4>2, <4>3
      <3> QED  BY <3>2, <3>5, <3>6, Zenon DEF Called
    <2> QED  BY <2>2, <2>3, <2>4, CallsAfter
  <1>6. ASSUME stack' = <<>> PROVE Known(p, stack)
    <2>1. 1 \in 1..Len(stack)
      BY <1>1, TopPlace
    <2>2. ~(1 \in 1..Len(stack'))
      BY <1>6
    <2>3. stack[1] = Top /\ Popped
      BY <2>1, <2>2, CallsBefore
    <2>4. stack[1].owner = <<>>
      BY <1>1 DEF CallsInv, StackInv, Chain
    <2>5. PICK f : f = stack[1]
      OBVIOUS
    <2>6. FrameOK(f) /\ ~(f.idx <= Size(f)) /\ f.list = Len(Sizes(f.owner)) /\ f.owner \in Enclosing(p)
      BY <1>1, <1>2, <2>1, <2>3, <2>4, <2>5 DEF Popped, AtEnd
    <2> QED  BY <1>1, <1>4, <2>1, <2>5, <2>6, DonePast
  <1>7. ASSUME NEW j \in 1..Len(stack'), stack'[j].owner = p
        PROVE  Known(p, stack) \/ AtCurrent(p)
    BY <1>7, OwnersStep DEF Known, Seen
  <1>8. ASSUME NEW j \in 1..Len(stack'), stack'[j].again, stack'[j].owner \in Around(Owner(p))
        PROVE  Known(p, stack)
    <2>1. CASE j \in 1..Len(stack) /\ stack'[j] = stack[j]
      BY <1>8, <2>1 DEF Known, Over
    <2>2. CASE \E h, e : j \in 1..Len(stack) /\ h = stack[j] /\ Passed(h, stack'[j], e)
      BY <1>1, <1>8, <2>2, PassedFacts DEF Known, Over
    <2>3. CASE Called(stack'[j])
      <3>1. AtEnd(Top) /\ stack'[j].owner = Top.owner /\ body[Top.owner].kind = "function"
        BY <1>8, <2>3 DEF Called
      <3>2. PICK n, f : n = Len(stack) /\ f = stack[n]
        OBVIOUS
      <3>3. n \in 1..Len(stack) /\ f = Top /\ FrameOK(f) /\ ~(f.idx <= Size(f)) /\ f.owner \in Enclosing(p)
        BY <1>1, <1>2, <1>8, <3>1, <3>2, TopPlace DEF AtEnd
      <3>4. f.list = Len(Sizes(f.owner))
        BY <3>1, <3>2, <3>3, FunctionList
      <3> QED  BY <1>1, <1>4, <3>2, <3>3, <3>4, DonePast
    <2> QED  BY <2>1, <2>2, <2>3, CallsAfter
  <1>9. ASSUME Past(p, stack') PROVE Known(p, stack) \/ AtCurrent(p)
    BY <1>5, <1>6, <1>9 DEF Past
  <1>10. CASE Seen(p, stack')
    BY <1>7, <1>9, <1>10 DEF Seen
  <1>11. CASE Over(Owner(p), stack')
    <2>1. Past(Owner(p), stack') => Past(p, stack')
      BY <1>1, <1>2, OverInside
    <2> QED  BY <1>8, <1>9, <1>11, <2>1 DEF Over
  <1> QED  BY <1>10, <1>11 DEF Known

-----------------------------------------------------------------------------
(* When end_list is set: a list sets it to what it is at its own end.      *)

Replaces(d) == body[d].kind = "list" /\ ~body[d].false

\* It is set at place j of the list k of o when the directives of E set it.
Halts(o, k, j, E) ==
    \E i \in 1..(j - 1) :
        /\ o \o <<k, i>> \in E
        /\ \A m \in (i + 1)..(j - 1) : ~Replaces(o \o <<k, m>>)
        /\ \A m \in (i + 1)..j : m <= Sizes(o)[k] => body[o \o <<k, m>>].kind \notin MarkKinds

Stops(d, E) ==
    /\ ~body[d].false
    /\ \/ body[d].kind \in TerminalKinds
       \/ body[d].kind = "list" /\ Halts(d, 1, Sizes(d)[1] + 1, E)

\* The directives that set it.
Stopped == UNION {E \in SUBSET Places : \A d \in E : Stops(d, E)}

\* They are those whose own kind, or the end of whose list, says so.
LEMMA StoppedFacts ==
    /\ Stopped \subseteq Places
    /\ \A d \in Places : d \in Stopped <=> Stops(d, Stopped)
  <1> DEFINE Good(E) == E \subseteq Places /\ \A d \in E : Stops(d, E)
  <1>1. \A E, F : E \subseteq F => \A d : Stops(d, E) => Stops(d, F)
    BY DEF Stops, Halts
  <1>2. \A d : d \in Stopped <=> \E E : Good(E) /\ d \in E
    BY DEF Stopped
  <1>3. ASSUME NEW d \in Stopped PROVE d \in Places /\ Stops(d, Stopped)
    <2>1. PICK E : Good(E) /\ d \in E
      BY <1>2
    <2>2. E \subseteq Stopped
      BY <1>2, <2>1
    <2> QED  BY <1>1, <2>1, <2>2
  <1>4. ASSUME NEW d \in Places, Stops(d, Stopped) PROVE d \in Stopped
    <2>1. PICK E : E = Stopped \union {d}
      OBVIOUS
    <2>2. \A x \in E : Stops(x, E)
      BY <1>1, <1>3, <1>4, <2>1
    <2>3. Good(E)
      BY <1>3, <2>1, <2>2
    <2> QED  BY <1>2, <2>1, <2>3
  <1> QED  BY <1>3, <1>4

\* The directives of a body that does not change.
LEMMA SameStopped ==
    ASSUME body' = body
    PROVE  /\ Stopped' = Stopped
           /\ \A o, k, j, E : Halts(o, k, j, E)' <=> Halts(o, k, j, E)
  <1>1. ASSUME NEW p PROVE Sizes(p)' = Sizes(p)
    BY Zenon DEF Sizes
  <1>2. ASSUME NEW p PROVE Replaces(p)' <=> Replaces(p)
    BY Zenon DEF Replaces
  <1>3. ASSUME NEW o, NEW k, NEW j, NEW E PROVE Halts(o, k, j, E)' <=> Halts(o, k, j, E)
    BY <1>1, <1>2, Zenon DEF Halts
  <1>4. ASSUME NEW d, NEW E PROVE Stops(d, E)' <=> Stops(d, E)
    BY <1>1, <1>3, Zenon DEF Stops
  <1>5. ASSUME NEW E PROVE (\A d \in E : Stops(d, E))' <=> \A d \in E : Stops(d, E)
    BY <1>4, Zenon
  <1>6. {E \in SUBSET Places : \A d \in E : Stops(d, E)}'
          = {E \in SUBSET Places : \A d \in E : Stops(d, E)}
    BY <1>5, Zenon DEF Places
  <1>7. Stopped' = Stopped
    BY <1>6, Zenon DEF Stopped
  <1> QED  BY <1>3, <1>7

\* At the next directive that is not marked false.
LEMMA HaltsNext ==
    ASSUME body \in Bodies, NEW o \in DOMAIN body, NEW k \in 1..Len(Sizes(o)),
           NEW i \in 1..Sizes(o)[k], NEW j \in (i + 1)..(Sizes(o)[k] + 1),
           \A m \in (i + 1)..(j - 1) : body[o \o <<k, m>>].false,
           NEW E, \A d \in E : ~body[d].false
    PROVE  Halts(o, k, j, E) <=>
              /\ o \o <<k, i>> \in E \/ (~Replaces(o \o <<k, i>>) /\ Halts(o, k, i, E))
              /\ ~(j <= Sizes(o)[k] /\ body[o \o <<k, j>>].kind \in MarkKinds)
  <1>1. PICK n : n = Sizes(o)[k]
    OBVIOUS
  <1>2. n \in Nat /\ i \in 1..n /\ j \in (i + 1)..(n + 1) /\ j \in Nat
    BY <1>1, BodyFacts
  <1>3. \A m \in 1..n : o \o <<k, m>> \in DOMAIN body
    BY <1>1, ChildIn
  <1>4. \A m \in (i + 1)..(j - 1) : /\ ~Replaces(o \o <<k, m>>) /\ o \o <<k, m>> \notin E
                                    /\ body[o \o <<k, m>>].kind \notin MarkKinds
    <2> TAKE m \in (i + 1)..(j - 1)
    <2>1. m \in 1..n /\ body[o \o <<k, m>>].false
      BY <1>2
    <2> QED  BY <1>3, <2>1, MarkedFacts DEF Replaces
  <1>5. ASSUME Halts(o, k, j, E)
        PROVE  /\ o \o <<k, i>> \in E \/ (~Replaces(o \o <<k, i>>) /\ Halts(o, k, i, E))
               /\ ~(j <= n /\ body[o \o <<k, j>>].kind \in MarkKinds)
    <2>1. PICK l \in 1..(j - 1) :
            /\ o \o <<k, l>> \in E
            /\ \A m \in (l + 1)..(j - 1) : ~Replaces(o \o <<k, m>>)
            /\ \A m \in (l + 1)..j : m <= n => body[o \o <<k, m>>].kind \notin MarkKinds
      BY <1>1, <1>5 DEF Halts
    <2>2. l <= i
      BY <1>2, <1>4, <2>1
    <2>3. j \in (l + 1)..j
      BY <1>2
    <2>4. CASE l = i
      BY <2>1, <2>3, <2>4
    <2>5. CASE l # i
      <3>1. l \in 1..(i - 1) /\ i \in (l + 1)..(j - 1)
        BY <1>2, <2>2, <2>5
      <3>2. \A m \in (l + 1)..i : m \in (l + 1)..j
        BY <1>2
      <3>3. \A m \in (l + 1)..(i - 1) : m \in (l + 1)..(j - 1)
        BY <1>2
      <3>4. Halts(o, k, i, E)
        BY <1>1, <2>1, <3>1, <3>2, <3>3 DEF Halts
      <3> QED  BY <2>1, <2>3, <3>1, <3>4
    <2> QED  BY <2>4, <2>5
  <1>6. ASSUME o \o <<k, i>> \in E \/ (~Replaces(o \o <<k, i>>) /\ Halts(o, k, i, E)),
               ~(j <= n /\ body[o \o <<k, j>>].kind \in MarkKinds)
        PROVE  Halts(o, k, j, E)
    <2>1. CASE o \o <<k, i>> \in E
      <3>1. i \in 1..(j - 1)
        BY <1>2
      <3>2. \A m \in (i + 1)..j : m \in (i + 1)..(j - 1) \/ m = j
        BY <1>2
      <3>3. \A m \in (i + 1)..j : m <= n => body[o \o <<k, m>>].kind \notin MarkKinds
        BY <1>4, <1>6, <3>2
      <3> QED  BY <1>1, <1>4, <2>1, <3>1, <3>3 DEF Halts
    <2>2. CASE ~Replaces(o \o <<k, i>>) /\ Halts(o, k, i, E)
      <3>1. PICK l \in 1..(i - 1) :
            /\ o \o <<k, l>> \in E
            /\ \A m \in (l + 1)..(i - 1) : ~Replaces(o \o <<k, m>>)
            /\ \A m \in (l + 1)..i : m <= n => body[o \o <<k, m>>].kind \notin MarkKinds
        BY <1>1, <2>2 DEF Halts
      <3>2. l \in 1..(j - 1)
        BY <1>2
      <3>3. \A m \in (l + 1)..j : m \in (l + 1)..i \/ m \in (i + 1)..(j - 1) \/ m = j
        BY <1>2
      <3>4. \A m \in (l + 1)..(j - 1) : m \in (l + 1)..(i - 1) \/ m = i \/ m \in (i + 1)..(j - 1)
        BY <1>2
      <3>5. \A m \in (l + 1)..(j - 1) : ~Replaces(o \o <<k, m>>)
        BY <1>4, <2>2, <3>1, <3>4
      <3>6. \A m \in (l + 1)..j : m <= n => body[o \o <<k, m>>].kind \notin MarkKinds
        BY <1>4, <1>6, <3>1, <3>3
      <3> QED  BY <1>1, <3>1, <3>2, <3>5, <3>6 DEF Halts
    <2> QED  BY <1>6, <2>1, <2>2
  <1> QED  BY <1>1, <1>5, <1>6

\* A call goes past directives that were removed, and end_list is reset at a case or default.
LEMMA AdvanceList ==
    ASSUME body \in Bodies, NoneHidden, NEW f, FrameOK(f), f.idx <= Size(f), NEW e \in BOOLEAN
    PROVE  /\ Size(f) \in Nat /\ f.idx \in 1..Size(f) /\ Advance(f, e).idx \in (f.idx + 1)..(Size(f) + 1)
           /\ \A m \in (f.idx + 1)..(Advance(f, e).idx - 1) :
                 f.owner \o <<f.list, m>> \in removed /\ body[f.owner \o <<f.list, m>>].false
           /\ Advance(f, e).ending <=>
                 /\ e
                 /\ ~(/\ Advance(f, e).idx <= Size(f)
                      /\ body[f.owner \o <<f.list, Advance(f, e).idx>>].kind \in MarkKinds)
  <1>1. PICK o, k, i, g : o = f.owner /\ k = f.list /\ i = f.idx /\ g = Advance(f, e)
    OBVIOUS
  <1>2. PICK n : n = Sizes(o)[k]
    OBVIOUS
  <1>3. /\ o \in DOMAIN body /\ k \in 1..Len(Sizes(o)) /\ n \in Nat /\ i \in 1..n /\ Size(f) = n
        /\ f \in Frames /\ o = f.owner
    BY <1>1, <1>2, FrameNumbers DEF FrameOK, Size, Sizes
  <1>4. PICK c, j : c = Current(f) /\ j = NextOf(o, k, i, removed)
    OBVIOUS
  <1>5. /\ j \in (i + 1)..(n + 1) /\ \A m \in (i + 1)..(j - 1) : o \o <<k, m>> \in removed
        /\ j <= n => o \o <<k, j>> \notin removed
    <2>1. i \in 0..Sizes(o)[k]
      BY <1>2, <1>3
    <2>2. /\ NextOf(o, k, i, removed) \in (i + 1)..(Sizes(o)[k] + 1)
          /\ \A m \in (i + 1)..(NextOf(o, k, i, removed) - 1) : o \o <<k, m>> \in removed
          /\ NextOf(o, k, i, removed) <= Sizes(o)[k]
                => o \o <<k, NextOf(o, k, i, removed)>> \notin removed
      BY <1>3, <2>1, NextFacts
    <2> QED  BY <1>2, <1>4, <2>2
  <1>6. /\ c \in DOMAIN body \ {<<>>} /\ IsChild(c, o, k) /\ Last(c) = i /\ c = o \o <<k, i>>
    BY <1>1, <1>4, CurrentFacts DEF Current
  <1>7. /\ g.owner = o /\ g.list = k /\ g.idx = j
    BY <1>1, <1>4, AdvanceFacts DEF Onward
  <1>8. g.ending <=> e /\ ~(After(c) # <<>> /\ Kind(After(c)) \in MarkKinds)
    <2>1. PICK x, y, z : x = After(c) /\ y = (x # <<>> /\ Kind(x) \in MarkKinds)
                         /\ z = (f.noAccess \/ f.ending)
      OBVIOUS
    <2>2. g = [f EXCEPT !.idx = Following(o, k, i), !.noAccess = z, !.ending = e /\ ~y]
      BY <1>1, <1>4, <2>1 DEF Advance, MarkKinds
    <2>3. g.ending = (e /\ ~y)
      BY <1>3, <2>2 DEF Frames
    <2> QED  BY <1>1, <2>1, <2>3
  <1>9. \A m \in 1..n : o \o <<k, m>> \in DOMAIN body \ {<<>>}
    BY <1>2, <1>3, ChildIn
  <1>10. After(c) = IF j <= n THEN o \o <<k, j>> ELSE <<>>
    <2>1. /\ Owner(c) = o /\ List(c) = k
          /\ \A m \in Nat : Sibling(c, m) = o \o <<k, m>>
      BY <1>6 DEF IsChild
    <2>2. j \in Nat
      BY <1>3, <1>5
    <2> QED  BY <1>2, <1>4, <1>6, <2>1, <2>2 DEF After, Following, List, Sizes
  <1>11. \A m \in (i + 1)..(j - 1) : o \o <<k, m>> \in removed /\ body[o \o <<k, m>>].false
    BY <1>5 DEF NoneHidden
  <1>12. ASSUME j <= n PROVE Kind(o \o <<k, j>>) \in MarkKinds <=> body[o \o <<k, j>>].kind \in MarkKinds
    <2>1. PICK q : q = o \o <<k, j>>
      OBVIOUS
    <2>2. q \in DOMAIN body
      BY <1>3, <1>5, <1>9, <1>12, <2>1
    <2>3. q \in unknown => body[q].false
      BY DEF NoneHidden
    <2>4. "unknown" \notin MarkKinds
      BY DEF MarkKinds
    <2> QED  BY <2>1, <2>2, <2>3, <2>4, MarkedFacts DEF Kind
  <1>13. j <= n => o \o <<k, j>> # <<>>
    BY <1>3, <1>5, <1>9
  <1>14. g.ending <=> e /\ ~(j <= n /\ body[o \o <<k, j>>].kind \in MarkKinds)
    BY <1>8, <1>10, <1>12, <1>13
  <1> QED  BY <1>1, <1>3, <1>5, <1>7, <1>11, <1>14

\* It is not set where a list starts.
LEMMA HaltsFirst ==
    ASSUME body \in Bodies, NEW o \in DOMAIN body, NEW k \in 1..Len(Sizes(o)), NEW gone,
           \A d \in gone : body[d].false, NEW E, \A d \in E : ~body[d].false
    PROVE  /\ ~Halts(o, k, NextOf(o, k, 0, gone), E)
           /\ \A j \in 1..(NextOf(o, k, 0, gone) - 1) : o \o <<k, j>> \in gone
  <1>1. 0 \in 0..Sizes(o)[k]
    BY BodyFacts
  <1>2. \A j \in (0 + 1)..(NextOf(o, k, 0, gone) - 1) : o \o <<k, j>> \in gone
    BY <1>1, NextFacts
  <1>3. \A j \in 1..(NextOf(o, k, 0, gone) - 1) : o \o <<k, j>> \in gone
    BY <1>2
  <1> QED  BY <1>3 DEF Halts

\* What a call knows of end_list, and whether it reported it, when those of gone are left out.
Turn(f, gone) ==
    /\ f.ending <=> Halts(f.owner, f.list, f.idx, Stopped)
    /\ f.noAccess => \E j \in 1..(f.idx - 1) : Halts(f.owner, f.list, j, Stopped)
    /\ \A j \in 1..(f.idx - 1) :
            Halts(f.owner, f.list, j, Stopped) => f.noAccess \/ f.owner \o <<f.list, j>> \in gone
TurnsInv == \A i \in 1..Len(stack) : Turn(stack[i], removed)

\* What sets end_list as a call goes on.
LEMMA PassedStops ==
    ASSUME CallsInv, TurnsInv, NEW h, NEW g, NEW e, Passed(h, g, e)
    PROVE  e <=> Current(h) \in Stopped \/ (~Replaces(Current(h)) /\ h.ending)
  <1>1. body \in Bodies /\ NoneHidden /\ \A i \in 1..Len(stack) : FrameOK(stack[i]) /\ Live(stack[i].owner)
    BY DEF CallsInv, StackInv, NoneHidden, Chain
  <1>2. PICK c : c = Current(h)
    OBVIOUS
  <1>3. c \in Places /\ (c \in Stopped <=> Stops(c, Stopped)) /\ h.ending \in BOOLEAN /\ e \in BOOLEAN
    BY <1>1, <1>2, PassedFacts, StoppedFacts DEF Places, FrameOK, Frames, Passed
  <1>4. "list" \notin TerminalKinds /\ "unknown" \notin TerminalKinds /\ TerminalKinds \subseteq Leaves
        /\ "list" \notin Leaves /\ "list" \in Compounds
    BY DEF TerminalKinds, Leaves, Compounds
  <1>5. CASE /\ e = (h.ending \/ Kind(c) \in TerminalKinds)
             /\ c \in unknown \/ body[c].kind \in Leaves
    <2>1. CASE c \in unknown
      <3>1. Kind(c) \notin TerminalKinds /\ body[c].false
        BY <1>1, <1>4, <2>1 DEF Kind, NoneHidden
      <3>2. e <=> h.ending
        BY <1>5, <3>1, Zenon
      <3>3. c \notin Stopped /\ ~Replaces(c)
        BY <1>3, <3>1 DEF Replaces, Stops
      <3> QED  BY <1>2, <3>2, <3>3, Zenon
    <2>2. CASE c \notin unknown
      <3>1. Kind(c) = body[c].kind /\ body[c].kind \in Leaves
        BY <1>5, <2>2 DEF Kind
      <3>2. body[c].kind # "list"
        BY <1>4, <3>1
      <3>3. body[c].kind \in TerminalKinds => ~body[c].false
        BY <1>1, <1>3, MarkedFacts DEF Places
      <3>4. e <=> h.ending \/ body[c].kind \in TerminalKinds
        BY <1>5, <3>1, Zenon
      <3>5. (c \in Stopped <=> body[c].kind \in TerminalKinds) /\ ~Replaces(c)
        BY <1>3, <3>2, <3>3 DEF Replaces, Stops
      <3> QED  BY <1>2, <3>4, <3>5, Zenon
    <2> QED  BY <2>1, <2>2
  <1>6. CASE /\ AtEnd(Top) /\ Top.owner = c /\ Top.list = Len(Sizes(Top.owner))
             /\ e = IF body[Top.owner].kind = "list" THEN Top.ending ELSE h.ending
    <2>1. /\ Len(stack) \in 1..Len(stack) /\ stack[Len(stack)] = Top /\ FrameOK(Top)
          /\ ~(Top.idx <= Size(Top))
      BY <1>6, TopPlace DEF AtEnd
    <2>2. ~body[c].false
      BY <1>1, <1>6, <2>1 DEF Live, Around
    <2>3. body[c].kind \notin Leaves
      <3>1. Len(Sizes(c)) \in Nat \ {0}
        BY <1>1, <1>6, <2>1, FrameNumbers
      <3>2. Len(Sizes(c)) \in ListCounts(body[c].kind)
        BY <1>1, <1>3, BodyFacts DEF Places
      <3> QED  BY <3>1, <3>2, ListCountFacts
    <2>4. CASE body[c].kind = "list"
      <3>1. Len(Sizes(c)) = 1
        <4>1. Len(Sizes(c)) \in ListCounts(body[c].kind)
          BY <1>1, <1>3, BodyFacts DEF Places
        <4>2. ListCounts(body[c].kind) = {1}
          BY <1>4, <2>4, ListCountFacts
        <4> QED  BY <4>1, <4>2
      <3>2. PICK n : n = Sizes(c)[1]
        OBVIOUS
      <3>3. Top.list = 1 /\ Top.idx = n + 1
        <4>1. Size(Top) = n /\ Size(Top) \in Nat /\ Top.idx \in Nat /\ Top.idx <= Size(Top) + 1
          BY <1>1, <1>6, <2>1, <3>1, <3>2, FrameNumbers
        <4> QED  BY <1>6, <2>1, <3>1, <4>1
      <3>4. Top.ending <=> Halts(c, 1, n + 1, Stopped)
        BY <1>6, <2>1, <3>3 DEF TurnsInv, Turn
      <3>5. e <=> Top.ending
        BY <1>6, <2>4, Zenon
      <3>6. body[c].kind \notin TerminalKinds
        BY <1>4, <2>4
      <3>7. (c \in Stopped <=> Halts(c, 1, n + 1, Stopped)) /\ Replaces(c)
        BY <1>3, <2>2, <2>4, <3>2, <3>6, Zenon DEF Replaces, Stops
      <3> QED  BY <1>2, <3>4, <3>5, <3>7, Zenon
    <2>5. CASE body[c].kind # "list"
      <3>1. e <=> h.ending
        BY <1>6, <2>5, Zenon
      <3>2. c \notin Stopped /\ ~Replaces(c)
        BY <1>3, <1>4, <2>3, <2>5 DEF Replaces, Stops
      <3> QED  BY <1>2, <3>1, <3>2, Zenon
    <2> QED  BY <2>4, <2>5
  <1>7. \/ /\ e = (h.ending \/ Kind(c) \in TerminalKinds)
           /\ c \in unknown \/ body[c].kind \in Leaves
        \/ /\ AtEnd(Top) /\ Top.owner = c /\ Top.list = Len(Sizes(Top.owner))
           /\ e = IF body[Top.owner].kind = "list" THEN Top.ending ELSE h.ending
    BY <1>2, Zenon DEF Passed
  <1> QED  BY <1>2, <1>5, <1>6, <1>7, Zenon

\* What the calls know after a step.
LEMMA TurnsAfter ==
    ASSUME CallsInv, TurnsInv, Works, NEW j \in 1..Len(stack')
    PROVE  Turn(stack'[j], removed')
  <1>1. /\ body \in Bodies /\ NoneHidden /\ removed \subseteq removed' /\ StackInv(stack', unknown', removed')
        /\ \A d \in removed' : body[d].false
    BY CallsStep DEF CallsInv, StackInv, NoneHidden
  <1>2. Stopped \subseteq Places /\ \A d \in Stopped : ~body[d].false
    BY StoppedFacts DEF Stops
  <1>3. PICK g : g = stack'[j]
    OBVIOUS
  <1>4. FrameOK(g)
    BY <1>1, <1>3 DEF StackInv, Chain
  <1>5. CASE j \in 1..Len(stack) /\ g = stack[j]
    <2>1. Turn(g, removed)
      BY <1>5 DEF TurnsInv
    <2> QED  BY <1>1, <1>3, <2>1, Zenon DEF Turn
  <1>6. CASE Called(g)
    <2>1. ~g.ending /\ ~g.noAccess /\ g.idx = NextOf(g.owner, g.list, 0, removed')
      BY <1>6 DEF Called
    <2>2. g.owner \in DOMAIN body /\ g.list \in 1..Len(Sizes(g.owner))
      BY <1>1, <1>4, FrameNumbers
    <2>3. /\ ~Halts(g.owner, g.list, NextOf(g.owner, g.list, 0, removed'), Stopped)
          /\ \A i \in 1..(NextOf(g.owner, g.list, 0, removed') - 1) : g.owner \o <<g.list, i>> \in removed'
      BY <1>1, <1>2, <2>2, HaltsFirst
    <2>4. PICK x : x = g.idx
      OBVIOUS
    <2>5. ~Halts(g.owner, g.list, x, Stopped) /\ \A i \in 1..(x - 1) : g.owner \o <<g.list, i>> \in removed'
      BY <2>1, <2>3, <2>4
    <2> QED  BY <1>3, <2>1, <2>4, <2>5, Zenon DEF Turn
  <1>7. ASSUME NEW h, NEW e, j \in 1..Len(stack), h = stack[j], Passed(h, g, e)
        PROVE  Turn(g, removed')
    <2>1. PICK o, k, i, n : o = h.owner /\ k = h.list /\ i = h.idx /\ n = Size(h)
      OBVIOUS
    <2>2. FrameOK(h) /\ h.idx <= Size(h) /\ e \in BOOLEAN /\ g = Advance(h, e) /\ Turn(h, removed)
      BY <1>7 DEF Passed, TurnsInv
    <2>3. /\ o \in DOMAIN body /\ k \in 1..Len(Sizes(o)) /\ n = Sizes(o)[k] /\ n \in Nat
          /\ g.owner = o /\ g.list = k /\ Current(h) = o \o <<k, i>>
          /\ g.noAccess = (h.noAccess \/ h.ending) /\ h.ending \in BOOLEAN
      BY <1>1, <2>1, <2>2, FrameNumbers, AdvanceFacts DEF FrameOK, Frames, Current
    <2>4. PICK x : x = g.idx
      OBVIOUS
    <2>5. /\ Size(h) \in Nat /\ h.idx \in 1..Size(h) /\ Advance(h, e).idx \in (h.idx + 1)..(Size(h) + 1)
          /\ \A m \in (h.idx + 1)..(Advance(h, e).idx - 1) :
                h.owner \o <<h.list, m>> \in removed /\ body[h.owner \o <<h.list, m>>].false
          /\ Advance(h, e).ending <=>
                /\ e
                /\ ~(/\ Advance(h, e).idx <= Size(h)
                     /\ body[h.owner \o <<h.list, Advance(h, e).idx>>].kind \in MarkKinds)
      BY <1>1, <2>2, AdvanceList
    <2>6. /\ i \in 1..n /\ x \in (i + 1)..(n + 1)
          /\ \A m \in (i + 1)..(x - 1) : o \o <<k, m>> \in removed /\ body[o \o <<k, m>>].false
          /\ g.ending <=> e /\ ~(x <= n /\ body[o \o <<k, x>>].kind \in MarkKinds)
      BY <2>1, <2>2, <2>4, <2>5
    <2>7. e <=> o \o <<k, i>> \in Stopped \/ (~Replaces(o \o <<k, i>>) /\ h.ending)
      <3>1. e <=> Current(h) \in Stopped \/ (~Replaces(Current(h)) /\ h.ending)
        <4>1. Passed(h, g, e)
          BY <1>7
        <4> QED  BY <4>1, PassedStops
      <3> QED  BY <2>3, <3>1, Zenon
    <2>8. h.ending <=> Halts(o, k, i, Stopped)
      BY <2>1, <2>2 DEF Turn
    <2>9. Halts(o, k, x, Stopped) <=>
              /\ o \o <<k, i>> \in Stopped \/ (~Replaces(o \o <<k, i>>) /\ Halts(o, k, i, Stopped))
              /\ ~(x <= Sizes(o)[k] /\ body[o \o <<k, x>>].kind \in MarkKinds)
      <3>1. i \in 1..Sizes(o)[k] /\ x \in (i + 1)..(Sizes(o)[k] + 1)
        BY <2>3, <2>6
      <3> QED  BY <1>1, <1>2, <2>3, <2>6, <3>1, HaltsNext
    <2>10. g.ending <=> Halts(o, k, x, Stopped)
      BY <2>3, <2>6, <2>7, <2>8, <2>9
    <2>11. g.noAccess => \E m \in 1..(x - 1) : Halts(o, k, m, Stopped)
      <3>1. i \in 1..(x - 1) /\ \A m \in 1..(i - 1) : m \in 1..(x - 1)
        BY <2>6
      <3> QED  BY <2>1, <2>2, <2>3, <2>8, <3>1 DEF Turn
    <2>12. ASSUME NEW m \in 1..(x - 1), Halts(o, k, m, Stopped)
           PROVE  g.noAccess \/ o \o <<k, m>> \in removed'
      <3>1. m \in 1..(i - 1) \/ m = i \/ m \in (i + 1)..(x - 1)
        BY <2>6
      <3>2. CASE m \in 1..(i - 1)
        BY <1>1, <2>1, <2>2, <2>3, <2>12, <3>2 DEF Turn
      <3>3. CASE m = i
        BY <2>3, <2>8, <2>12, <3>3
      <3>4. CASE m \in (i + 1)..(x - 1)
        BY <1>1, <2>6, <3>4
      <3> QED  BY <3>1, <3>2, <3>3, <3>4
    <2> QED  BY <2>3, <2>4, <2>10, <2>11, <2>12 DEF Turn
  <1> QED  BY <1>3, <1>5, <1>6, <1>7, CallsAfter

\* A step keeps what the calls know.
LEMMA TurnsStep ==
    ASSUME CallsInv, TurnsInv, Works
    PROVE  TurnsInv'
  <1>1. body' = body
    BY CallsStep
  <1>2. Stopped' = Stopped /\ \A o, k, j, E : Halts(o, k, j, E)' <=> Halts(o, k, j, E)
    BY <1>1, SameStopped
  <1>3. ASSUME NEW j \in 1..Len(stack') PROVE Turn(stack[j], removed)'
    <2>1. PICK f, S, gone : f = stack'[j] /\ S = Stopped /\ gone = removed'
      OBVIOUS
    <2>2. /\ f.ending <=> Halts(f.owner, f.list, f.idx, S)
          /\ f.noAccess => \E m \in 1..(f.idx - 1) : Halts(f.owner, f.list, m, S)
          /\ \A m \in 1..(f.idx - 1) :
                Halts(f.owner, f.list, m, S) => f.noAccess \/ f.owner \o <<f.list, m>> \in gone
      BY <2>1, TurnsAfter, Zenon DEF Turn
    <2> QED  BY <1>2, <2>1, <2>2, Zenon DEF Turn
  <1> QED  BY <1>3 DEF TurnsInv

\* The switches with a default are those being compiled which are past one.
PastDefault(o, s) ==
    /\ body[o].kind = "switch"
    /\ \E i \in 1..Len(s) :
          /\ s[i].owner = o
          /\ \E j \in 1..(s[i].idx - 1) : body[o \o <<1, j>>].kind = "default"
DefaultsInv == \A o \in DOMAIN body : o \in defaults <=> PastDefault(o, stack)

\* What a step does to the switches with a default.
LEMMA DefaultsChange ==
    ASSUME CallsInv, Works
    PROVE  \/ /\ defaults' = defaults /\ \A p : AtCurrent(p) => Kind(p) # "default"
              /\ ~(Popped /\ body[Top.owner].kind = "switch")
           \/ \E p : /\ AtCurrent(p) /\ Kind(p) = "default"
                     /\ defaults' = defaults \union (IF body[Owner(p)].kind = "switch" THEN {Owner(p)} ELSE {})
           \/ AtEnd(Top) /\ defaults' = FlagsAfter(Top.owner) /\ Len(stack') < Len(stack)
  <1>1. ASSUME NEW q, NEW kinds, At(q, kinds)
        PROVE  /\ \A p : AtCurrent(p) => p = q
               /\ AtCurrent(q) /\ Kind(q) \in kinds /\ ~Popped
    BY <1>1 DEF At, AtCurrent, AtTop, Top, Popped, AtEnd
  <1>2. Returned => AtEnd(Top) /\ \A p : ~AtCurrent(p)
    BY ReturnedFacts DEF AtEnd, AtCurrent, AtTop
  <1>3. ASSUME NEW q, NEW kinds, At(q, kinds), "default" \notin kinds, defaults' = defaults
        PROVE  /\ defaults' = defaults /\ \A p : AtCurrent(p) => Kind(p) # "default"
               /\ ~Popped
    BY <1>1, <1>3
  <1>4. CASE Plain \/ UseNamespace \/ Throw \/ Return \/ Case
    <2>1. \E q : \E kinds : At(q, kinds) /\ "default" \notin kinds /\ defaults' = defaults
      <3>1. CASE Plain
        BY <3>1, Zenon DEF Plain
      <3>2. CASE UseNamespace
        BY <3>2, Zenon DEF UseNamespace
      <3>3. CASE Throw
        BY <3>3, Zenon DEF Throw
      <3>4. CASE Return
        BY <3>4, Zenon DEF Return
      <3>5. CASE Case
        BY <3>5, Zenon DEF Case
      <3> QED  BY <1>4, <3>1, <3>2, <3>3, <3>4, <3>5
    <2> QED  BY <1>3, <2>1
  <1>5. CASE Goto \/ BreakContinue \/ Block \/ Switch \/ Try \/ Function
    <2>1. \E q : \E kinds : At(q, kinds) /\ "default" \notin kinds /\ defaults' = defaults
      <3>0. "default" \notin LoopKinds \union {"list", "with", "if"} /\ "default" \notin FunctionKinds
        BY DEF LoopKinds, FunctionKinds
      <3>1. CASE Goto
        BY <3>1, Zenon DEF Goto
      <3>2. CASE BreakContinue
        BY <3>2, Zenon DEF BreakContinue
      <3>3. CASE Block
        BY <3>0, <3>3, Zenon DEF Block
      <3>4. CASE Switch
        BY <3>4, Zenon DEF Switch
      <3>5. CASE Try
        BY <3>5, Zenon DEF Try
      <3>6. CASE Function
        BY <3>0, <3>6, Zenon DEF Function
      <3> QED  BY <1>5, <3>1, <3>2, <3>3, <3>4, <3>5, <3>6
    <2> QED  BY <1>3, <2>1
  <1>6. CASE Default
    <2>1. PICK p : /\ p \in DOMAIN body /\ At(p, {"default"})
                   /\ defaults' = defaults \union (IF body[Owner(p)].kind = "switch" THEN {Owner(p)} ELSE {})
      BY <1>6, Zenon DEF Default
    <2> QED  BY <1>1, <2>1
  <1>7. CASE CompileAgain
    <2>1. Returned /\ defaults' = defaults /\ body[Top.owner].kind = "function"
      BY <1>7 DEF CompileAgain
    <2> QED  BY <1>2, <2>1
  <1>8. CASE NextList
    <2>1. Returned /\ defaults' = defaults /\ Top.list < Len(Sizes(Top.owner))
      BY <1>8 DEF NextList, Sizes
    <2>2. Top.list \in Nat
      BY <1>2, <2>1, TopPlace, FrameNumbers DEF AtEnd, CallsInv
    <2>3. ~Popped
      BY <2>1, <2>2 DEF Popped
    <2> QED  BY <1>2, <2>1, <2>3
  <1>9. CASE Leave
    <2>1. Returned /\ defaults' = FlagsAfter(Top.owner)
      BY <1>9, Zenon DEF Leave
    <2>2. \/ Front(stack) = <<>> /\ stack' = <<>>
          \/ Front(stack) # <<>> /\ \E g : stack' = [Front(stack) EXCEPT ![Len(Front(stack))] = g]
      BY <1>9, Zenon DEF Leave
    <2>3. PICK n, d, t : n = Len(stack) /\ d = Front(stack) /\ t = stack'
      OBVIOUS
    <2>4. n \in Nat \ {0} /\ d \in Seq(Frames) /\ Len(d) = n - 1
      BY <1>2, <2>1, <2>3, FrontPlaces DEF CallsInv, StackInv, AtEnd
    <2>5. Len(t) < n
      <3>1. CASE t = <<>>
        BY <2>4, <3>1
      <3>2. CASE \E g : t = [d EXCEPT ![Len(d)] = g]
        BY <2>4, <3>2
      <3> QED  BY <2>2, <2>3, <3>1, <3>2
    <2> QED  BY <1>2, <2>1, <2>3, <2>5
  <1> QED  BY <1>4, <1>5, <1>6, <1>7, <1>8, <1>9 DEF Works

\* A call is the only one for its directive.
LEMMA OwnersDiffer ==
    ASSUME CallsInv, NEW i \in 1..Len(stack), NEW j \in 1..Len(stack), stack[i].owner = stack[j].owner
    PROVE  i = j
  <1>1. body \in Bodies /\ stack \in Seq(Frames) /\ Chain(stack)
    BY DEF CallsInv, StackInv
  <1>2. ASSUME NEW a \in 1..Len(stack), NEW b \in 1..Len(stack), a < b, stack[a].owner = stack[b].owner
        PROVE  FALSE
    <2>1. stack[a].owner \in Enclosing(stack[b].owner)
      BY <1>1, <1>2, ChainAncestors
    <2>2. stack[b].owner \in DOMAIN body
      BY <1>1, FrameNumbers DEF Chain
    <2> QED  BY <1>1, <1>2, <2>1, <2>2, AroundLengths
  <1>3. ~(i < j) /\ ~(j < i)
    BY <1>2
  <1> QED  BY <1>3

\* The current directive is passed, if it is unknown or a leaf.
LEMMA TopPassed ==
    ASSUME CallsInv, Works, NEW p, AtCurrent(p), p \in unknown \/ body[p].kind \in Leaves
    PROVE  \E e : Len(stack) \in 1..Len(stack') /\ Passed(Top, stack'[Len(stack)], e)
  <1>1. stack # <<>> /\ Top.idx <= Size(Top) /\ p = Current(Top)
    BY DEF AtCurrent, AtTop, Top
  <1>2. Len(stack) \in 1..Len(stack) /\ stack[Len(stack)] = Top /\ body \in Bodies /\ stack \in Seq(Frames)
    BY <1>1, TopPlace DEF CallsInv, StackInv
  <1>3. PICK n : n = Len(stack)
    OBVIOUS
  <1>4. CASE \E f, c, e, g : PassStep(f, c, e, g)
    <2>1. PICK f, c, e, g : PassStep(f, c, e, g)
      BY <1>4, Zenon
    <2>2. /\ f = Top /\ e \in BOOLEAN /\ g = Advance(f, e) /\ stack' = [stack EXCEPT ![n] = g]
          /\ e = (f.ending \/ Kind(p) \in TerminalKinds)
      BY <1>1, <1>3, <2>1 DEF PassStep, AtTop, Top
    <2>3. Passed(Top, g, e)
      BY <1>1, <1>2, <2>2 , TopPlace DEF Passed
    <2>4. PICK t : t = stack'
      OBVIOUS
    <2>5. Len(t) = n /\ n \in 1..n /\ t[n] = g
      BY <1>2, <1>3, <2>2, <2>4
    <2> QED  BY <1>3, <2>3, <2>4, <2>5
  <1>5. CASE \E f, c, g : EnterStep(f, c, g)
    <2>1. PICK f, c, g : EnterStep(f, c, g)
      BY <1>5, Zenon
    <2>2. p \notin unknown /\ body[p].kind \in Compounds
      BY <1>1, <2>1 DEF EnterStep, AtTop, Top
    <2> QED  BY <2>2 DEF Compounds, Leaves, LoopKinds, FunctionKinds
  <1>6. ~(\E f, g : ListStep(f, g)) /\ ~(\E f, e : PopStep(f, e))
    BY <1>1 DEF ListStep, PopStep, AtEnd, Top
  <1> QED  BY <1>4, <1>5, <1>6, Shapes DEF Classified

\* A switch has one list.
LEMMA SwitchList ==
    ASSUME body \in Bodies, NEW f, FrameOK(f), body[f.owner].kind = "switch"
    PROVE  f.list = 1 /\ Len(Sizes(f.owner)) = 1
  <1>1. PICK o, k : o = f.owner /\ k = f.list
    OBVIOUS
  <1>2. o \in DOMAIN body /\ k \in 1..Len(Sizes(o))
    BY <1>1, FrameNumbers
  <1>3. Len(Sizes(o)) \in ListCounts("switch")
    BY <1>1, <1>2, BodyFacts
  <1>4. "switch" \in Compounds /\ "switch" # "if"
    BY DEF Compounds
  <1>5. ListCounts("switch") = {1}
    BY <1>4, ListCountFacts
  <1>6. Len(Sizes(o)) = 1
    BY <1>3, <1>5
  <1>7. k = 1
    BY <1>2, <1>6
  <1> QED  BY <1>1, <1>6, <1>7

\* A call for a switch stays past a default until it is over.
LEMMA DefaultStays ==
    ASSUME CallsInv, AgainInv, Works, NEW o \in DOMAIN body, PastDefault(o, stack), ~(Popped /\ Top.owner = o)
    PROVE  PastDefault(o, stack')
  <1>1. body \in Bodies /\ body' = body /\ StackInv(stack', unknown', removed') /\ AgainInv'
    BY CallsStep, AgainStep DEF CallsInv
  <1>2. PICK i \in 1..Len(stack) :
            /\ stack[i].owner = o
            /\ \E j \in 1..(stack[i].idx - 1) : body[o \o <<1, j>>].kind = "default"
    BY DEF PastDefault
  <1>3. PICK j \in 1..(stack[i].idx - 1) : body[o \o <<1, j>>].kind = "default"
    BY <1>2
  <1>4. CASE i \in 1..Len(stack') /\ stack'[i] = stack[i]
    BY <1>2, <1>4 DEF PastDefault
  <1>5. CASE \E e : i \in 1..Len(stack') /\ Passed(stack[i], stack'[i], e)
    <2>1. PICK e : i \in 1..Len(stack') /\ Passed(stack[i], stack'[i], e)
      BY <1>5
    <2>2. PICK h, g : h = stack[i] /\ g = stack'[i]
      OBVIOUS
    <2>3. g.owner = o /\ FrameOK(h) /\ FrameOK(g) /\ h.idx < g.idx
      BY <1>1, <1>2, <2>1, <2>2, PassedFacts DEF Onward
    <2>4. h.idx \in Nat /\ g.idx \in Nat
      BY <1>1, <2>3, FrameNumbers
    <2>5. j \in 1..(g.idx - 1)
      BY <2>2, <2>3, <2>4
    <2> QED  BY <1>3, <2>1, <2>2, <2>3, <2>5 DEF PastDefault
  <1>6. CASE /\ stack[i] = Top /\ AtEnd(Top) /\ i \in 1..Len(stack') /\ stack'[i].owner = Top.owner
             /\ \/ stack'[i].list = 1 /\ stack'[i].again
                \/ stack'[i].list = Top.list + 1 /\ ~stack'[i].again
    <2>1. body[stack'[i].owner].kind = "switch"
      BY <1>2, <1>6 DEF PastDefault
    <2>2. ~stack'[i].again
      <3>1. stack'[i].again => body[stack'[i].owner].kind = "function"
        BY <1>1, <1>6 DEF AgainInv
      <3> QED  BY <2>1, <3>1
    <2>3. FrameOK(stack'[i]) /\ FrameOK(Top)
      BY <1>1, <1>6 DEF StackInv, Chain, CallsInv
    <2>4. stack'[i].list = 1 /\ Top.list = 1
      BY <1>1, <1>6, <2>1, <2>3, SwitchList
    <2> QED  BY <1>6, <2>2, <2>4
  <1> QED  BY <1>2, <1>4, <1>5, <1>6, CallsBefore

\* Which switches have a default after a step...
LEMMA DefaultsAfter ==
    ASSUME CallsInv, AgainInv, DefaultsInv, Works, NEW o \in DOMAIN body
    PROVE  o \in defaults' <=> PastDefault(o, stack')
  <1>1. /\ body \in Bodies /\ body' = body /\ StackInv(stack', unknown', removed') /\ stack # <<>>
        /\ removed \subseteq removed' /\ NoneHidden
        /\ \A q \in removed' : q \in DOMAIN body /\ body[q].false
        /\ \A q \in unknown : q \in DOMAIN body /\ body[q].false
    BY CallsStep DEF CallsInv, StackInv, NoneHidden
  <1>2. o \in defaults <=> PastDefault(o, stack)
    BY DEF DefaultsInv
  <1>3. /\ Len(stack) \in 1..Len(stack) /\ stack[Len(stack)] = Top /\ FrameOK(Top)
        /\ \A i \in 1..Len(stack) : FrameOK(stack[i])
    BY <1>1, TopPlace DEF CallsInv, StackInv, Chain
  <1>4. ASSUME NEW x \in DOMAIN body, body[x].kind = "default"
        PROVE  ~body[x].false /\ x \notin removed' /\ x \notin removed /\ Kind(x) = "default" /\ body[x].kind \in Leaves
    <2>1. ~body[x].false /\ body[x].kind \in Leaves
      BY <1>1, <1>4, MarkedFacts DEF MarkKinds, Leaves
    <2> QED  BY <1>1, <1>4, <2>1 DEF Kind
  <1>5. ASSUME o \in defaults' PROVE PastDefault(o, stack')
    <2>1. CASE o \in defaults
      <3>1. PastDefault(o, stack)
        BY <1>2, <2>1
      <3>2. ~(Popped /\ Top.owner = o)
        <4>1. ASSUME Popped, Top.owner = o PROVE FALSE
          <5>1. body[Top.owner].kind = "switch" /\ AtEnd(Top)
            BY <3>1, <4>1 DEF PastDefault, Popped
          <5>2. \A p : ~AtCurrent(p)
            BY <5>1 DEF AtCurrent, AtTop, AtEnd, Top
          <5>3. defaults' = FlagsAfter(Top.owner)
            BY <4>1, <5>1, <5>2, DefaultsChange
          <5> QED  BY <1>5, <4>1, <5>1, <5>3 DEF FlagsAfter
        <4> QED  BY <4>1
      <3> QED  BY <3>1, <3>2, DefaultStays
    <2>2. CASE o \notin defaults
      <3>1. PICK p : AtCurrent(p) /\ Kind(p) = "default" /\ o = Owner(p) /\ body[o].kind = "switch"
        <4>1. ~(o \in FlagsAfter(Top.owner))
          BY <2>2 DEF FlagsAfter
        <4>2. PICK p : /\ AtCurrent(p) /\ Kind(p) = "default"
                       /\ defaults' = defaults \union (IF body[Owner(p)].kind = "switch" THEN {Owner(p)} ELSE {})
          BY <1>5, <2>2, <4>1, DefaultsChange
        <4> QED  BY <1>5, <2>2, <4>2
      <3>2. p = Current(Top) /\ Top.idx <= Size(Top)
        BY <3>1 DEF AtCurrent, AtTop, Top
      <3>3. p \in DOMAIN body \ {<<>>} /\ Owner(p) = Top.owner
        BY <1>1, <1>3, <3>2, CurrentFacts DEF IsChild
      <3>4. body[p].kind = "default"
        BY <3>1 DEF Kind
      <3>5. Top.list = 1
        BY <1>1, <1>3, <3>1, <3>3, SwitchList
      <3>6. body[p].kind \in Leaves
        BY <1>4, <3>3, <3>4
      <3>7. PICK e : Len(stack) \in 1..Len(stack') /\ Passed(Top, stack'[Len(stack)], e)
        BY <3>1, <3>6, TopPassed
      <3>8. PICK g, n, h : g = stack'[Len(stack)] /\ n = Len(stack) /\ h = Top
        OBVIOUS
      <3>9. g.owner = o /\ FrameOK(h) /\ FrameOK(g) /\ h.idx < g.idx
        BY <1>1, <3>1, <3>3, <3>7, <3>8, PassedFacts DEF Onward
      <3>10. h.idx \in Nat \ {0} /\ g.idx \in Nat
        BY <1>1, <3>9, FrameNumbers
      <3>11. h.idx \in 1..(g.idx - 1)
        BY <3>9, <3>10
      <3>12. p = o \o <<1, h.idx>>
        BY <3>1, <3>2, <3>3, <3>5, <3>8 DEF Current
      <3> QED  BY <3>1, <3>4, <3>7, <3>8, <3>9, <3>11, <3>12 DEF PastDefault
    <2> QED  BY <2>1, <2>2
  <1>6. ASSUME PastDefault(o, stack') PROVE o \in defaults'
    <2>1. body[o].kind = "switch"
      BY <1>6 DEF PastDefault
    <2>2. PICK i \in 1..Len(stack') :
              /\ stack'[i].owner = o
              /\ \E j \in 1..(stack'[i].idx - 1) : body[o \o <<1, j>>].kind = "default"
      BY <1>6 DEF PastDefault
    <2>3. PICK j \in 1..(stack'[i].idx - 1) : body[o \o <<1, j>>].kind = "default"
      BY <2>2
    <2>4. PICK g, x : g = stack'[i] /\ x = o \o <<1, j>>
      OBVIOUS
    <2>5. FrameOK(g) /\ g.owner = o /\ g.list = 1 /\ g.idx \in Nat /\ Sizes(o)[1] \in Nat
          /\ g.idx <= Sizes(o)[1] + 1 /\ 1 \in 1..Len(Sizes(o))
      <3>1. FrameOK(g) /\ g.owner = o
        BY <1>1, <2>2, <2>4 DEF StackInv, Chain
      <3>2. g.list = 1 /\ Len(Sizes(o)) = 1
        BY <1>1, <2>1, <3>1, SwitchList
      <3> QED  BY <1>1, <3>1, <3>2, FrameNumbers
    <2>6. j \in 1..Sizes(o)[1]
      BY <2>3, <2>4, <2>5
    <2>7. x \in DOMAIN body /\ body[x].kind = "default" /\ Owner(x) = o
      <3>1. x \in DOMAIN body /\ IsChild(x, o, 1)
        BY <1>1, <2>4, <2>5, <2>6, ChildIn
      <3> QED  BY <2>3, <2>4, <3>1 DEF IsChild
    <2>8. ASSUME i \in 1..Len(stack), stack[i].owner = o, j \in 1..(stack[i].idx - 1)
          PROVE  o \in defaults'
      <3>1. PastDefault(o, stack)
        BY <2>1, <2>3, <2>8 DEF PastDefault
      <3>2. o \in defaults
        BY <1>2, <3>1
      <3>3. ASSUME Len(stack') < Len(stack), Top.owner = o PROVE FALSE
        <4>1. i = Len(stack)
          BY <1>3, <2>8, <3>3, OwnersDiffer
        <4>2. Len(stack') \in Nat
          BY <1>1 DEF StackInv
        <4> QED  BY <3>3, <4>1, <4>2
      <3>4. CASE defaults' = FlagsAfter(Top.owner) /\ Len(stack') < Len(stack)
        BY <3>2, <3>3, <3>4 DEF FlagsAfter
      <3> QED  BY <3>2, <3>4, DefaultsChange
    <2>9. CASE i \in 1..Len(stack) /\ g = stack[i]
      BY <2>2, <2>3, <2>4, <2>8, <2>9
    <2>10. CASE \E h, e : i \in 1..Len(stack) /\ h = stack[i] /\ Passed(h, g, e)
      <3>1. PICK h, e : i \in 1..Len(stack) /\ h = stack[i] /\ Passed(h, g, e)
        BY <2>10
      <3>2. FrameOK(h) /\ h.idx <= Size(h) /\ e \in BOOLEAN /\ g = Advance(h, e)
        BY <3>1 DEF Passed
      <3>3. h.owner = o /\ h.list = 1
        BY <1>1, <2>5, <3>1, PassedFacts
      <3>4. \A m \in (h.idx + 1)..(g.idx - 1) : h.owner \o <<h.list, m>> \in removed
        BY <1>1, <3>2, AdvanceList
      <3>5. j <= h.idx
        <4>1. ~(j \in (h.idx + 1)..(g.idx - 1))
          BY <1>4, <2>4, <2>7, <3>3, <3>4
        <4>2. h.idx \in Nat
          BY <1>1, <3>2, FrameNumbers
        <4> QED  BY <2>3, <2>4, <2>5, <4>1, <4>2
      <3>6. CASE j < h.idx
        <4>1. h.idx \in Nat
          BY <1>1, <3>2, FrameNumbers
        <4>2. j \in 1..(h.idx - 1)
          BY <2>3, <2>4, <2>5, <3>6, <4>1
        <4> QED  BY <2>8, <3>1, <3>3, <4>2
      <3>7. CASE j = h.idx
        <4>1. x = Current(h)
          BY <2>4, <3>3, <3>7 DEF Current
        <4>2. Kind(x) = "default" /\ body[x].kind \in Leaves
          BY <1>4, <2>7
        <4>3. CASE AtCurrent(x)
          <5>1. \A p : AtCurrent(p) => p = x
            BY <4>3 DEF AtCurrent, AtTop
          <5>2. ~AtEnd(Top)
            BY <4>3 DEF AtCurrent, AtTop, AtEnd
          <5>3. defaults' = defaults \union (IF body[Owner(x)].kind = "switch" THEN {Owner(x)} ELSE {})
            BY <4>2, <4>3, <5>1, <5>2, DefaultsChange
          <5> QED  BY <2>1, <2>7, <5>3
        <4>4. CASE Top.owner = x
          <5>1. Top.list \in 1..Len(Sizes(x))
            BY <1>1, <1>3, <4>4, FrameNumbers
          <5>2. Len(Sizes(x)) \in ListCounts(body[x].kind)
            BY <1>1, <2>7, BodyFacts
          <5>3. ListCounts(body[x].kind) = {0}
            BY <4>2, ListCountFacts
          <5>4. Len(Sizes(x)) = 0
            BY <5>2, <5>3
          <5> QED  BY <5>1, <5>4
        <4> QED  BY <3>1, <4>1, <4>3, <4>4, Zenon DEF Passed
      <3>8. h.idx \in Nat
        BY <1>1, <3>2, FrameNumbers
      <3> QED  BY <2>3, <2>4, <2>5, <3>5, <3>6, <3>7, <3>8
    <2>11. CASE Called(g)
      <3>1. g.idx = NextOf(g.owner, g.list, 0, removed')
        BY <2>11 DEF Called
      <3>2. \A m \in 1..(NextOf(o, 1, 0, removed') - 1) : o \o <<1, m>> \in removed'
        <4>1. PICK n : n = Sizes(o)[1]
          OBVIOUS
        <4>2. 0 \in 0..n
          BY <2>5, <4>1
        <4>3. o \in DOMAIN body /\ 1 \in 1..Len(Sizes(o)) /\ 0 \in 0..Sizes(o)[1]
          BY <2>5, <4>1, <4>2, Zenon
        <4>4. PICK r, l : r = removed' /\ l = NextOf(o, 1, 0, r)
          OBVIOUS
        <4>5. /\ NextOf(o, 1, 0, r) \in (0 + 1)..(Sizes(o)[1] + 1)
              /\ \A m \in (0 + 1)..(NextOf(o, 1, 0, r) - 1) : o \o <<1, m>> \in r
          BY <1>1, <4>3, NextFacts
        <4>6. 0 + 1 = 1
          OBVIOUS
        <4>7. \A m \in 1..(l - 1) : o \o <<1, m>> \in r
          BY <4>4, <4>5, <4>6, Zenon
        <4> QED  BY <4>4, <4>7, Zenon
      <3>3. x \in removed'
        BY <2>3, <2>4, <2>5, <3>1, <3>2
      <3> QED  BY <1>4, <2>7, <3>3
    <2> QED  BY <2>4, <2>9, <2>10, <2>11, CallsAfter
  <1> QED  BY <1>5, <1>6

\* ... are those the calls say.
LEMMA DefaultsStep ==
    ASSUME CallsInv, AgainInv, DefaultsInv, Works
    PROVE  DefaultsInv'
  <1>1. body' = body
    BY CallsStep
  <1>2. \A o : PastDefault(o, stack)' <=> PastDefault(o, stack')
    BY <1>1 DEF PastDefault
  <1>3. \A o \in DOMAIN body : o \in defaults' <=> PastDefault(o, stack')
    BY DefaultsAfter
  <1> QED  BY <1>1, <1>2, <1>3 DEF DefaultsInv

Whats == {"LABEL_NOT_FOUND", "NO_TARGET", "RETURN_OUTSIDE", "VALUE_RETURNED", "VALUE_EXPECTED", "OUTSIDE_SWITCH",
  "SECOND_DEFAULT", "NO_CASE", "INVALID_TRY", "NO_TRY", "NOT_LAST_CATCH"}

\* What is reported of a directive as it is reached.
Says(p, what) ==
    \/ what = "LABEL_NOT_FOUND" /\ Kind(p) = "goto" /\ <<Routine(p), Name(p)>> \notin DOMAIN labels
    \/ what = "NO_TARGET" /\ Kind(p) \in JumpKinds /\ BreakTarget(p) = <<>>
    \/ what = "RETURN_OUTSIDE" /\ Kind(p) \in {"return", "return_value"} /\ body[Routine(p)].kind = "program"
    \/ what = "VALUE_RETURNED" /\ Kind(p) = "return_value" /\ body[Routine(p)].kind = "procedure"
    \/ what = "VALUE_EXPECTED" /\ Kind(p) = "return" /\ body[Routine(p)].kind = "function"
    \/ what = "OUTSIDE_SWITCH" /\ Kind(p) \in MarkKinds /\ body[Owner(p)].kind # "switch"
    \/ what = "SECOND_DEFAULT" /\ Kind(p) = "default" /\ Owner(p) \in defaults
    \/ /\ what = "NO_CASE" /\ Kind(p) = "switch" /\ Following(p, 1, 0) <= Sizes(p)[1]
       /\ Kind(p \o <<1, Following(p, 1, 0)>>) \notin MarkKinds
    \/ what = "INVALID_TRY" /\ Kind(p) = "try" /\ (After(p) = <<>> \/ Kind(After(p)) \notin Handlers)
    \/ what = "NO_TRY" /\ Kind(p) \in Handlers /\ ~Follows(p, Tried)
    \/ what = "NOT_LAST_CATCH" /\ Kind(p) \in {"catch", "typed_catch"} /\ Follows(p, {"catch"})

\* The errors are those.
Saying(p, reported) ==
    /\ \A e \in reported : \E what \in Whats : Says(p, what) /\ e = Error(p, what)
    /\ \A what \in Whats : Says(p, what) => Error(p, what) \in reported

\* Those that a step reports.
Complained ==
    /\ errors \subseteq errors'
    /\ \A p : AtCurrent(p) =>
            /\ Inaccessible(Top) \subseteq errors'
            /\ \A what \in Whats : Says(p, what) => Error(p, what) \in errors'
    /\ \A e \in errors' :
            \/ e \in errors \/ e.what = "DUPLICATES"
            \/ \E p : /\ AtCurrent(p)
                      /\ e \in Inaccessible(Top) \/ \E what \in Whats : Says(p, what) /\ e = Error(p, what)

\* What is reported of each kind of directive.
LEMMA SayingFacts ==
    ASSUME NEW p
    PROVE  /\ Kind(p) \in {"expression", "var", "label", "unknown", "use", "throw", "list", "with", "if"}
                          \union LoopKinds \union FunctionKinds => Saying(p, {})
           /\ Kind(p) = "goto" =>
                Saying(p, ErrorIf(<<Routine(p), Name(p)>> \notin DOMAIN labels, p, "LABEL_NOT_FOUND"))
           /\ Kind(p) \in JumpKinds => Saying(p, ErrorIf(BreakTarget(p) = <<>>, p, "NO_TARGET"))
           /\ Kind(p) \in {"return", "return_value"} => Saying(p, ReturnErrors(p))
           /\ Kind(p) = "case" => Saying(p, ErrorIf(body[Owner(p)].kind # "switch", p, "OUTSIDE_SWITCH"))
           /\ Kind(p) = "default" =>
                Saying(p, ErrorIf(~(body[Owner(p)].kind = "switch"), p, "OUTSIDE_SWITCH")
                          \union ErrorIf(Owner(p) \in defaults, p, "SECOND_DEFAULT"))
           /\ Kind(p) = "switch" =>
                Saying(p, ErrorIf(Following(p, 1, 0) <= Sizes(p)[1]
                                  /\ Kind(p \o <<1, Following(p, 1, 0)>>) \notin {"case", "default"}, p, "NO_CASE"))
           /\ Kind(p) \in TryKinds => Saying(p, TryErrors(p))
  <1>1. ASSUME Kind(p) \in {"expression", "var", "label", "unknown", "use", "throw", "list", "with", "if"}
                          \union LoopKinds \union FunctionKinds
        PROVE  Saying(p, {})
    <2>1. \A what : ~Says(p, what)
      BY <1>1 DEF Says, LoopKinds, FunctionKinds, JumpKinds, MarkKinds, Handlers
    <2> QED  BY <2>1, Zenon DEF Saying
  <1>2. ASSUME Kind(p) = "goto"
        PROVE  Saying(p, ErrorIf(<<Routine(p), Name(p)>> \notin DOMAIN labels, p, "LABEL_NOT_FOUND"))
    <2>1. \A what : Says(p, what) <=> what = "LABEL_NOT_FOUND" /\ <<Routine(p), Name(p)>> \notin DOMAIN labels
      BY <1>2 DEF Says, JumpKinds, MarkKinds, Handlers
    <2>2. "LABEL_NOT_FOUND" \in Whats
      BY DEF Whats
    <2> QED  BY <2>1, <2>2, Zenon DEF Saying, ErrorIf
  <1>3. ASSUME Kind(p) \in JumpKinds
        PROVE  Saying(p, ErrorIf(BreakTarget(p) = <<>>, p, "NO_TARGET"))
    <2>1. \A what : Says(p, what) <=> what = "NO_TARGET" /\ BreakTarget(p) = <<>>
      BY <1>3 DEF Says, JumpKinds, MarkKinds, Handlers
    <2>2. "NO_TARGET" \in Whats
      BY DEF Whats
    <2> QED  BY <2>1, <2>2, Zenon DEF Saying, ErrorIf
  <1>4. ASSUME Kind(p) \in {"return", "return_value"}
        PROVE  Saying(p, ReturnErrors(p))
    <2>1. \A what : Says(p, what) <=>
              \/ what = "RETURN_OUTSIDE" /\ body[Routine(p)].kind = "program"
              \/ what = "VALUE_RETURNED" /\ body[Routine(p)].kind = "procedure" /\ Kind(p) = "return_value"
              \/ what = "VALUE_EXPECTED" /\ body[Routine(p)].kind = "function" /\ Kind(p) = "return"
      BY <1>4 DEF Says, JumpKinds, MarkKinds, Handlers
    <2>2. "RETURN_OUTSIDE" \in Whats /\ "VALUE_RETURNED" \in Whats /\ "VALUE_EXPECTED" \in Whats
      BY DEF Whats
    <2> QED  BY <2>1, <2>2, Zenon DEF Saying, ErrorIf, ReturnErrors
  <1>5. ASSUME Kind(p) = "case"
        PROVE  Saying(p, ErrorIf(body[Owner(p)].kind # "switch", p, "OUTSIDE_SWITCH"))
    <2>1. \A what : Says(p, what) <=> what = "OUTSIDE_SWITCH" /\ body[Owner(p)].kind # "switch"
      BY <1>5 DEF Says, JumpKinds, MarkKinds, Handlers
    <2>2. "OUTSIDE_SWITCH" \in Whats
      BY DEF Whats
    <2> QED  BY <2>1, <2>2, Zenon DEF Saying, ErrorIf
  <1>6. ASSUME Kind(p) = "default"
        PROVE  Saying(p, ErrorIf(~(body[Owner(p)].kind = "switch"), p, "OUTSIDE_SWITCH")
                         \union ErrorIf(Owner(p) \in defaults, p, "SECOND_DEFAULT"))
    <2>1. \A what : Says(p, what) <=>
              \/ what = "OUTSIDE_SWITCH" /\ body[Owner(p)].kind # "switch"
              \/ what = "SECOND_DEFAULT" /\ Owner(p) \in defaults
      BY <1>6 DEF Says, JumpKinds, MarkKinds, Handlers
    <2>2. "OUTSIDE_SWITCH" \in Whats /\ "SECOND_DEFAULT" \in Whats
      BY DEF Whats
    <2> QED  BY <2>1, <2>2, Zenon DEF Saying, ErrorIf
  <1>7. ASSUME Kind(p) = "switch"
        PROVE  Saying(p, ErrorIf(Following(p, 1, 0) <= Sizes(p)[1]
                                 /\ Kind(p \o <<1, Following(p, 1, 0)>>) \notin {"case", "default"}, p, "NO_CASE"))
    <2>1. \A what : Says(p, what) <=>
              what = "NO_CASE" /\ Following(p, 1, 0) <= Sizes(p)[1]
              /\ Kind(p \o <<1, Following(p, 1, 0)>>) \notin {"case", "default"}
      <3>1. \A what : Says(p, what) <=>
              what = "NO_CASE" /\ Following(p, 1, 0) <= Sizes(p)[1]
              /\ Kind(p \o <<1, Following(p, 1, 0)>>) \notin MarkKinds
        <4>1. Kind(p) \notin JumpKinds /\ Kind(p) \notin MarkKinds /\ Kind(p) \notin Handlers
              /\ Kind(p) \notin {"goto", "return", "return_value", "default", "try", "catch", "typed_catch"}
          BY <1>7 DEF JumpKinds, MarkKinds, Handlers
        <4> QED  BY <1>7, <4>1, Zenon DEF Says
      <3> QED  BY <3>1 DEF MarkKinds
    <2>2. "NO_CASE" \in Whats
      BY DEF Whats
    <2> QED  BY <2>1, <2>2, Zenon DEF Saying, ErrorIf
  <1>8. ASSUME Kind(p) \in TryKinds
        PROVE  Saying(p, TryErrors(p))
    <2>1. "INVALID_TRY" \in Whats /\ "NO_TRY" \in Whats /\ "NOT_LAST_CATCH" \in Whats
      BY DEF Whats
    <2>2. Kind(p) \notin JumpKinds /\ Kind(p) \notin MarkKinds
          /\ Kind(p) \notin {"goto", "return", "return_value", "default", "switch"}
      BY <1>8 DEF JumpKinds, MarkKinds, TryKinds
    <2>3. CASE Kind(p) = "try"
      <3>1. Kind(p) \notin Handlers /\ Kind(p) \notin {"catch", "typed_catch"}
        BY <2>3 DEF Handlers
      <3>2. TryErrors(p) = ErrorIf(After(p) = <<>> \/ Kind(After(p)) \notin {"catch", "typed_catch", "finally"},
                                   p, "INVALID_TRY")
        BY <2>3, Zenon DEF TryErrors
      <3>3. \A what : Says(p, what) <=>
                what = "INVALID_TRY" /\ (After(p) = <<>> \/ Kind(After(p)) \notin Handlers)
        BY <2>2, <2>3, <3>1, Zenon DEF Says
      <3>4. Handlers = {"catch", "typed_catch", "finally"}
        BY DEF Handlers
      <3>5. TryErrors(p) = ErrorIf(After(p) = <<>> \/ Kind(After(p)) \notin Handlers, p, "INVALID_TRY")
        BY <3>2, <3>4
      <3> QED  BY <2>1, <3>3, <3>5, Zenon DEF Saying, ErrorIf
    <2>4. CASE Kind(p) \in Handlers
      <3>1. Kind(p) # "try"
        BY <2>4 DEF Handlers
      <3>2. \A what : Says(p, what) <=>
                \/ what = "NO_TRY" /\ ~Follows(p, Tried)
                \/ what = "NOT_LAST_CATCH" /\ Kind(p) \in {"catch", "typed_catch"} /\ Follows(p, {"catch"})
        BY <2>2, <2>4, <3>1, Zenon DEF Says
      <3>3. Tried = {"try", "catch", "typed_catch"}
        BY DEF Tried
      <3>4. CASE Kind(p) = "finally"
        <4>1. TryErrors(p) = ErrorIf(~Follows(p, {"try", "catch", "typed_catch"}), p, "NO_TRY")
          BY <3>1, <3>4 DEF TryErrors
        <4>2. Kind(p) \notin {"catch", "typed_catch"}
          BY <3>4
        <4>3. TryErrors(p) = ErrorIf(~Follows(p, Tried), p, "NO_TRY")
          BY <3>3, <4>1
        <4>4. \A what : Says(p, what) <=> what = "NO_TRY" /\ ~Follows(p, Tried)
          BY <3>2, <4>2
        <4> QED  BY <2>1, <4>3, <4>4, Zenon DEF Saying, ErrorIf
      <3>5. CASE Kind(p) # "finally"
        <4>1. TryErrors(p) = ErrorIf(~Follows(p, {"try", "catch", "typed_catch"}), p, "NO_TRY")
                             \union ErrorIf(Follows(p, {"catch"}), p, "NOT_LAST_CATCH")
          BY <3>1, <3>5 DEF TryErrors
        <4>2. Kind(p) \in {"catch", "typed_catch"}
          BY <2>4, <3>5 DEF Handlers
        <4>3. TryErrors(p) = ErrorIf(~Follows(p, Tried), p, "NO_TRY")
                             \union ErrorIf(Follows(p, {"catch"}), p, "NOT_LAST_CATCH")
          BY <3>3, <4>1
        <4>4. \A what : Says(p, what) <=> \/ what = "NO_TRY" /\ ~Follows(p, Tried)
                                          \/ what = "NOT_LAST_CATCH" /\ Follows(p, {"catch"})
          BY <3>2, <4>2
        <4>5. PICK x, y : /\ x = ErrorIf(~Follows(p, Tried), p, "NO_TRY")
                          /\ y = ErrorIf(Follows(p, {"catch"}), p, "NOT_LAST_CATCH")
          OBVIOUS
        <4>6. \A e : e \in x <=> e = Error(p, "NO_TRY") /\ ~Follows(p, Tried)
          BY <4>5, Zenon DEF ErrorIf
        <4>7. \A e : e \in y <=> e = Error(p, "NOT_LAST_CATCH") /\ Follows(p, {"catch"})
          BY <4>5, Zenon DEF ErrorIf
        <4>8. TryErrors(p) = x \union y
          BY <4>3, <4>5
        <4>9. Saying(p, x \union y)
          <5>1. ASSUME NEW e \in x PROVE \E what \in Whats : Says(p, what) /\ e = Error(p, what)
            BY <2>1, <4>4, <4>6
          <5>2. ASSUME NEW e \in y PROVE \E what \in Whats : Says(p, what) /\ e = Error(p, what)
            BY <2>1, <4>4, <4>7
          <5>3. ASSUME NEW what \in Whats, Says(p, what) PROVE Error(p, what) \in x \union y
            <6>1. CASE what = "NO_TRY" /\ ~Follows(p, Tried)
              BY <4>6, <6>1
            <6>2. CASE what = "NOT_LAST_CATCH" /\ Follows(p, {"catch"})
              BY <4>7, <6>2
            <6> QED  BY <4>4, <5>3, <6>1, <6>2
          <5> QED  BY <5>1, <5>2, <5>3 DEF Saying
        <4> QED  BY <4>8, <4>9
      <3> QED  BY <3>4, <3>5
    <2> QED  BY <1>8, <2>3, <2>4 DEF TryKinds, Handlers
  <1> QED  BY <1>1, <1>2, <1>3, <1>4, <1>5, <1>6, <1>7, <1>8

\* A step reports them and nothing else.
LEMMA Complaints ==
    ASSUME CallsInv, Works
    PROVE  Complained
  <1>1. ASSUME NEW q, NEW kinds, At(q, kinds)
        PROVE  (\A p : AtCurrent(p) => p = q) /\ AtCurrent(q) /\ Kind(q) \in kinds
    BY <1>1 DEF At, AtCurrent, AtTop, Top
  <1>2. Returned => \A p : ~AtCurrent(p)
    BY ReturnedFacts DEF AtEnd, AtCurrent, AtTop
  <1>3. ASSUME NEW q, NEW kinds, At(q, kinds), NEW reported, Saying(q, reported),
               errors' = errors \union Inaccessible(Top) \union reported
        PROVE  Complained
    <2>1. (\A p : AtCurrent(p) => p = q) /\ AtCurrent(q)
      BY <1>1, <1>3
    <2>2. errors \subseteq errors' /\ Inaccessible(Top) \subseteq errors' /\ reported \subseteq errors'
          /\ \A e \in errors' : e \in errors \/ e \in Inaccessible(Top) \/ e \in reported
      BY <1>3
    <2>3. \A what \in Whats : Says(q, what) => Error(q, what) \in errors'
      BY <1>3, <2>2, Zenon DEF Saying
    <2>4. \A e \in reported : \E what \in Whats : Says(q, what) /\ e = Error(q, what)
      BY <1>3, Zenon DEF Saying
    <2> QED  BY <2>1, <2>2, <2>3, <2>4, Zenon DEF Complained
  <1>4. ASSUME NEW q, Kind(q) \in {"expression", "var", "label", "unknown", "use", "throw", "list", "with", "if"}
                                  \union LoopKinds \union FunctionKinds
        PROVE  Saying(q, {})
    BY <1>4, SayingFacts
  <1>5. ASSUME NEW q, NEW kinds, At(q, kinds),
               kinds \subseteq {"expression", "var", "label", "unknown", "use", "throw", "list", "with", "if"}
                               \union LoopKinds \union FunctionKinds,
               errors' = errors \union Inaccessible(Top) \union {}
        PROVE  Complained
    <2>1. Kind(q) \in kinds
      BY <1>1, <1>5
    <2>2. Saying(q, {})
      BY <1>4, <1>5, <2>1
    <2> QED  BY <1>3, <1>5, <2>2
  <1>6. CASE Plain
    <2>1. PICK p, kinds : At(p, kinds) /\ kinds = {"expression", "var", "label", "unknown"} /\ Pass(Top.ending, {})
      BY <1>6 DEF Plain
    <2>2. errors' = errors \union Inaccessible(Top) \union {}
      BY <2>1 DEF Pass
    <2> QED  BY <1>5, <2>1, <2>2
  <1>7. CASE UseNamespace
    <2>1. PICK p, kinds : At(p, kinds) /\ kinds = {"use"} /\ Pass(Top.ending, {})
      BY <1>7 DEF UseNamespace
    <2>2. errors' = errors \union Inaccessible(Top) \union {}
      BY <2>1 DEF Pass
    <2> QED  BY <1>5, <2>1, <2>2
  <1>8. CASE Throw
    <2>1. PICK p, kinds : At(p, kinds) /\ kinds = {"throw"} /\ Pass(TRUE, {})
      BY <1>8 DEF Throw
    <2>2. errors' = errors \union Inaccessible(Top) \union {}
      BY <2>1 DEF Pass
    <2> QED  BY <1>5, <2>1, <2>2
  <1>9. CASE Goto
    <2>1. PICK p : /\ p \in DOMAIN body /\ At(p, {"goto"})
            /\ \/ /\ <<Routine(p), Name(p)>> \in DOMAIN labels
                  /\ Pass(TRUE, {})
               \/ /\ <<Routine(p), Name(p)>> \notin DOMAIN labels
                  /\ Pass(TRUE, {Error(p, "LABEL_NOT_FOUND")})
      BY <1>9, Zenon DEF Goto
    <2>2. PICK reported : reported = ErrorIf(<<Routine(p), Name(p)>> \notin DOMAIN labels, p, "LABEL_NOT_FOUND")
      OBVIOUS
    <2>3. errors' = errors \union Inaccessible(Top) \union reported
      <3>1. Pass(TRUE, reported)
        BY <2>1, <2>2, Zenon DEF ErrorIf
      <3> QED  BY <3>1 DEF Pass
    <2>4. Saying(p, reported)
      <3>1. Kind(p) = "goto"
        BY <1>1, <2>1
      <3> QED  BY <2>2, <3>1, SayingFacts
    <2> QED  BY <1>3, <2>1, <2>3, <2>4
  <1>10. CASE BreakContinue
    <2>1. PICK p : /\ p \in DOMAIN body /\ At(p, {"break", "continue"})
            /\ \/ /\ BreakTarget(p) # <<>>
                  /\ Pass(TRUE, {})
               \/ /\ BreakTarget(p) = <<>>
                  /\ Pass(TRUE, {Error(p, "NO_TARGET")})
      BY <1>10, Zenon DEF BreakContinue
    <2>2. PICK reported : reported = ErrorIf(BreakTarget(p) = <<>>, p, "NO_TARGET")
      OBVIOUS
    <2>3. errors' = errors \union Inaccessible(Top) \union reported
      <3>1. Pass(TRUE, reported)
        BY <2>1, <2>2, Zenon DEF ErrorIf
      <3> QED  BY <3>1 DEF Pass
    <2>4. Saying(p, reported)
      <3>1. Kind(p) \in JumpKinds
        BY <1>1, <2>1 DEF JumpKinds
      <3> QED  BY <2>2, <3>1, SayingFacts
    <2> QED  BY <1>3, <2>1, <2>3, <2>4
  <1>11. CASE Return
    <2>1. PICK p : At(p, {"return", "return_value"}) /\ Pass(TRUE, ReturnErrors(p))
      BY <1>11 DEF Return
    <2>2. errors' = errors \union Inaccessible(Top) \union ReturnErrors(p)
      BY <2>1 DEF Pass
    <2>3. Saying(p, ReturnErrors(p))
      <3>1. Kind(p) \in {"return", "return_value"}
        BY <1>1, <2>1
      <3> QED  BY <3>1, SayingFacts
    <2> QED  BY <1>3, <2>1, <2>2, <2>3
  <1>12. CASE Case
    <2>1. PICK p, reported :
            /\ At(p, {"case"}) /\ Pass(Top.ending, reported)
            /\ reported = ErrorIf(body[Owner(p)].kind # "switch", p, "OUTSIDE_SWITCH")
      BY <1>12, Zenon DEF Case
    <2>2. errors' = errors \union Inaccessible(Top) \union reported
      BY <2>1 DEF Pass
    <2>3. Saying(p, reported)
      <3>1. Kind(p) = "case"
        BY <1>1, <2>1
      <3> QED  BY <2>1, <3>1, SayingFacts
    <2> QED  BY <1>3, <2>1, <2>2, <2>3
  <1>13. CASE Default
    <2>1. PICK p, reported :
            /\ At(p, {"default"}) /\ Pass(Top.ending, reported)
            /\ reported = ErrorIf(~(body[Owner(p)].kind = "switch"), p, "OUTSIDE_SWITCH")
                          \union ErrorIf(Owner(p) \in defaults, p, "SECOND_DEFAULT")
      BY <1>13, Zenon DEF Default
    <2>2. errors' = errors \union Inaccessible(Top) \union reported
      BY <2>1 DEF Pass
    <2>3. Saying(p, reported)
      <3>1. Kind(p) = "default"
        BY <1>1, <2>1
      <3> QED  BY <2>1, <3>1, SayingFacts
    <2> QED  BY <1>3, <2>1, <2>2, <2>3
  <1>14. CASE Block
    <2>1. PICK p, kinds : At(p, kinds) /\ kinds = LoopKinds \union {"list", "with", "if"} /\ Enter(p, {})
      BY <1>14 DEF Block
    <2>2. errors' = errors \union Inaccessible(Top) \union {}
      BY <2>1 DEF Enter
    <2> QED  BY <1>5, <2>1, <2>2
  <1>15. CASE Switch
    <2>1. PICK p, reported :
            /\ At(p, {"switch"}) /\ Enter(p, reported)
            /\ reported = ErrorIf(Following(p, 1, 0) <= Sizes(p)[1]
                                  /\ Kind(p \o <<1, Following(p, 1, 0)>>) \notin {"case", "default"}, p, "NO_CASE")
      BY <1>15, Zenon DEF Switch, Sizes
    <2>2. errors' = errors \union Inaccessible(Top) \union reported
      BY <2>1 DEF Enter
    <2>3. Saying(p, reported)
      <3>1. Kind(p) = "switch"
        BY <1>1, <2>1
      <3> QED  BY <2>1, <3>1, SayingFacts
    <2> QED  BY <1>3, <2>1, <2>2, <2>3
  <1>16. CASE Try
    <2>1. PICK p : At(p, {"try", "catch", "typed_catch", "finally"}) /\ Enter(p, TryErrors(p))
      BY <1>16 DEF Try
    <2>2. errors' = errors \union Inaccessible(Top) \union TryErrors(p)
      BY <2>1 DEF Enter
    <2>3. Saying(p, TryErrors(p))
      <3>1. Kind(p) \in TryKinds
        BY <1>1, <2>1 DEF TryKinds
      <3> QED  BY <3>1, SayingFacts
    <2> QED  BY <1>3, <2>1, <2>2, <2>3
  <1>17. CASE Function
    <2>1. PICK p, d : At(p, FunctionKinds) /\ Enter(p, d) /\ d = Duplicates(p, DOMAIN labels, Again)
      BY <1>17 DEF Function
    <2>2. errors' = errors \union Inaccessible(Top) \union d /\ \A e \in d : e.what = "DUPLICATES"
      BY <2>1, DuplicateErrors DEF Enter
    <2>3. Saying(p, {}) /\ AtCurrent(p) /\ \A q : AtCurrent(q) => q = p
      BY <1>1, <1>4, <2>1
    <2>4. \A what \in Whats : ~Says(p, what)
      BY <2>3, Zenon DEF Saying
    <2>5. errors \subseteq errors' /\ Inaccessible(Top) \subseteq errors'
          /\ \A e \in errors' : e \in errors \/ e \in Inaccessible(Top) \/ e.what = "DUPLICATES"
      BY <2>2
    <2> QED  BY <2>3, <2>4, <2>5, Zenon DEF Complained
  <1>18. CASE CompileAgain
    <2>1. PICK d : /\ Returned /\ errors' = errors \union d
                   /\ d = Duplicates(Top.owner, DOMAIN labels, TRUE)
      BY <1>18 DEF CompileAgain
    <2>2. errors \subseteq errors' /\ \A e \in errors' : e \in errors \/ e.what = "DUPLICATES"
      BY <2>1, DuplicateErrors
    <2> QED  BY <1>2, <2>1, <2>2, Zenon DEF Complained
  <1>19. CASE NextList \/ Leave
    <2>1. Returned /\ errors' = errors
      BY <1>19 DEF NextList, Leave
    <2> QED  BY <1>2, <2>1, Zenon DEF Complained
  <1> QED  BY <1>6, <1>7, <1>8, <1>9, <1>10, <1>11, <1>12, <1>13, <1>14, <1>15, <1>16, <1>17, <1>18,
              <1>19 DEF Works

\* What is wrong with a directive, as the body and what was removed tell.
Wrong(p, what) ==
    /\ ~body[p].false
    /\ \/ /\ what = "LABEL_NOT_FOUND" /\ body[p].kind = "goto"
          /\ \A l \in LabelsIn(Routine(p)) : Name(l) # Name(p)
       \/ what = "NO_TARGET" /\ body[p].kind \in JumpKinds /\ MeantIn(p, removed) = {}
       \/ /\ what = "RETURN_OUTSIDE" /\ body[p].kind \in {"return", "return_value"}
          /\ body[Routine(p)].kind = "program"
       \/ what = "VALUE_RETURNED" /\ body[p].kind = "return_value" /\ body[Routine(p)].kind = "procedure"
       \/ what = "VALUE_EXPECTED" /\ body[p].kind = "return" /\ body[Routine(p)].kind = "function"
       \/ what = "OUTSIDE_SWITCH" /\ body[p].kind \in MarkKinds /\ body[Owner(p)].kind # "switch"
       \/ /\ what = "SECOND_DEFAULT" /\ body[p].kind = "default" /\ body[Owner(p)].kind = "switch"
          /\ \E j \in 1..(Last(p) - 1) : body[Sibling(p, j)].kind = "default"
       \/ what = "NO_CASE" /\ body[p].kind = "switch" /\ Sizes(p)[1] > 0 /\ body[p \o <<1, 1>>].kind \notin MarkKinds
       \/ /\ what = "INVALID_TRY" /\ body[p].kind = "try"
          /\ Last(p) = Sizes(Owner(p))[List(p)] \/ Given(Sibling(p, Last(p) + 1)) \notin Handlers
       \/ /\ what = "NO_TRY" /\ body[p].kind \in Handlers
          /\ Last(p) = 1 \/ Given(Sibling(p, Last(p) - 1)) \notin Tried
       \/ /\ what = "NOT_LAST_CATCH" /\ body[p].kind \in {"catch", "typed_catch"} /\ Last(p) > 1
          /\ Given(Sibling(p, Last(p) - 1)) = "catch"

\* What is over is known.
LEMMA OverKnown ==
    ASSUME body \in Bodies, NEW p \in DOMAIN body \ {<<>>}, NEW s, Over(p, s)
    PROVE  Known(p, s)
  <1>1. Around(p) = Around(Owner(p)) \union {p}
    BY AroundFacts
  <1>2. CASE Past(p, s)
    BY <1>2 DEF Known, Seen
  <1>3. CASE \E i \in 1..Len(s) : s[i].again /\ s[i].owner \in Around(p)
    <2>1. PICK i \in 1..Len(s) : s[i].again /\ s[i].owner \in Around(p)
      BY <1>3
    <2>2. CASE s[i].owner = p
      BY <2>2 DEF Known, Seen
    <2>3. CASE s[i].owner \in Around(Owner(p))
      BY <2>1, <2>3 DEF Known, Over
    <2> QED  BY <1>1, <2>1, <2>2, <2>3
  <1> QED  BY <1>2, <1>3 DEF Over

\* The directive reached, and the directives in its list and in it.
LEMMA ReachedFacts ==
    ASSUME CallsInv, AgainInv, NEW p, AtCurrent(p)
    PROVE  /\ p \in Places /\ NoneHidden
           /\ Kind(p) # "unknown" => ~body[p].false /\ Kind(p) = body[p].kind
           /\ ~body[p].false => Kind(p) = body[p].kind /\ Live(p)
           /\ \A q \in removed : /\ q \in Places /\ body[q].false /\ Given(q) = "unknown"
                                 /\ Owner(q) = Owner(p) \/ Owner(q) = p => Known(p, stack)
  <1>1. /\ body \in Bodies /\ NoneHidden /\ p \in Places /\ Kind(p) = Given(p) /\ p = Current(Top)
        /\ stack # <<>> /\ Top.idx <= Size(Top)
    BY BesideFacts DEF CallsInv, StackInv, NoneHidden, Places, AtCurrent, AtTop, Top
  <1>2. Len(stack) \in 1..Len(stack) /\ stack[Len(stack)] = Top /\ FrameOK(Top)
    BY <1>1, TopPlace
  <1>3. Owner(p) = Top.owner /\ Live(Top.owner)
    BY <1>1, <1>2, CurrentFacts DEF IsChild, CallsInv, StackInv
  <1>4. ASSUME NEW q \in removed
        PROVE  /\ q \in Places /\ body[q].false /\ Given(q) = "unknown"
               /\ Owner(q) = Owner(p) \/ Owner(q) = p => Known(p, stack)
    <2>1. q \in Places /\ body[q].false /\ Over(Owner(q), stack)
      BY <1>1 DEF NoneHidden, AgainInv, Places
    <2>2. Given(q) = "unknown"
      BY <2>1 DEF Given
    <2>3. CASE Owner(q) = Owner(p)
      BY <2>1, <2>2, <2>3 DEF Known
    <2>4. CASE Owner(q) = p
      <3>1. Known(p, stack)
        BY <1>1, <2>1, <2>4, OverKnown DEF Places
      <3> QED  BY <2>1, <2>2, <3>1
    <2> QED  BY <2>1, <2>2, <2>3, <2>4
  <1>5. Kind(p) # "unknown" => ~body[p].false /\ Kind(p) = body[p].kind
    BY <1>1 DEF Given
  <1>6. ~body[p].false => Kind(p) = body[p].kind /\ Live(p)
    <2>1. ~body[p].false => Live(p)
      BY <1>1, <1>3, LiveFacts DEF Places
    <2> QED  BY <1>1, <2>1 DEF Given
  <1> QED  BY <1>1, <1>4, <1>5, <1>6

\* The directive after it.
LEMMA NextBeside ==
    ASSUME CallsInv, NEW p, AtCurrent(p), NEW n, n = Sizes(Owner(p))[List(p)]
    PROVE  \E i \in (Last(p) + 1)..(n + 1) :
              /\ \A m \in (Last(p) + 1)..(i - 1) : Sibling(p, m) \in removed
              /\ i <= n => After(p) = Sibling(p, i)
              /\ i = n + 1 => After(p) = <<>>
  <1>1. /\ body \in Bodies /\ n \in Nat /\ Last(p) \in 1..n
        /\ Owner(p) \in DOMAIN body /\ List(p) \in 1..Len(Sizes(Owner(p)))
        /\ \A j \in 1..n : Sibling(p, j) = Owner(p) \o <<List(p), j>>
    BY BesideFacts DEF CallsInv
  <1>2. PICK i : i = Following(Owner(p), List(p), Last(p))
    OBVIOUS
  <1>3. i = NextOf(Owner(p), List(p), Last(p), removed)
    BY <1>2 DEF Following
  <1>4. Last(p) \in 0..Sizes(Owner(p))[List(p)]
    BY <1>1
  <1>5. /\ NextOf(Owner(p), List(p), Last(p), removed) \in (Last(p) + 1)..(Sizes(Owner(p))[List(p)] + 1)
        /\ \A j \in (Last(p) + 1)..(NextOf(Owner(p), List(p), Last(p), removed) - 1) :
                Owner(p) \o <<List(p), j>> \in removed
    BY <1>1, <1>4, NextFacts
  <1>6. i \in (Last(p) + 1)..(n + 1) /\ \A j \in (Last(p) + 1)..(i - 1) : Owner(p) \o <<List(p), j>> \in removed
    BY <1>3, <1>5, Zenon
  <1>7. ASSUME NEW m \in (Last(p) + 1)..(i - 1) PROVE Sibling(p, m) \in removed
    <2>1. PICK a : a = Last(p)
      OBVIOUS
    <2>2. m \in 1..n
      BY <1>1, <1>6, <1>7, <2>1
    <2> QED  BY <1>1, <1>6, <2>2
  <1>8. After(p) = IF i <= n THEN Sibling(p, i) ELSE <<>>
    BY <1>2, Zenon DEF After, List, Sizes
  <1> QED  BY <1>1, <1>6, <1>7, <1>8

\* A default is the second of its switch when there is one before it.
LEMMA SecondDefault ==
    ASSUME CallsInv, DefaultsInv, NEW p, AtCurrent(p)
    PROVE  Owner(p) \in defaults <=>
              /\ body[Owner(p)].kind = "switch"
              /\ \E j \in 1..(Last(p) - 1) : body[Sibling(p, j)].kind = "default"
  <1>1. /\ body \in Bodies /\ stack # <<>> /\ p = Current(Top) /\ Top.idx <= Size(Top)
        /\ Owner(p) \in DOMAIN body
    BY BesideFacts DEF CallsInv, AtCurrent, AtTop, Top
  <1>2. PICK n, f, a : n = Len(stack) /\ f = Top /\ a = Last(p)
    OBVIOUS
  <1>3. n \in 1..Len(stack) /\ stack[n] = f /\ FrameOK(f)
    BY <1>1, <1>2, TopPlace
  <1>4. Owner(p) = f.owner /\ List(p) = f.list /\ a = f.idx /\ f.idx \in Nat
        /\ \A j \in Nat : Sibling(p, j) = Owner(p) \o <<f.list, j>>
    BY <1>1, <1>2, <1>3, CurrentFacts, FrameNumbers DEF IsChild
  <1>5. ASSUME body[Owner(p)].kind = "switch"
        PROVE  \A j \in 1..(a - 1) : Sibling(p, j) = Owner(p) \o <<1, j>>
    BY <1>1, <1>3, <1>4, <1>5, SwitchList
  <1>6. Owner(p) \in defaults <=> PastDefault(Owner(p), stack)
    BY <1>1 DEF DefaultsInv
  <1>7. ASSUME PastDefault(Owner(p), stack)
        PROVE  /\ body[Owner(p)].kind = "switch"
               /\ \E j \in 1..(a - 1) : body[Sibling(p, j)].kind = "default"
    <2>1. PICK i \in 1..Len(stack) :
              /\ stack[i].owner = Owner(p)
              /\ \E j \in 1..(stack[i].idx - 1) : body[Owner(p) \o <<1, j>>].kind = "default"
      BY <1>7 DEF PastDefault
    <2>2. body[Owner(p)].kind = "switch"
      BY <1>7 DEF PastDefault
    <2>3. i = n
      BY <1>3, <1>4, <2>1, OwnersDiffer
    <2> QED  BY <1>3, <1>4, <1>5, <2>1, <2>2, <2>3
  <1>8. ASSUME body[Owner(p)].kind = "switch", NEW j \in 1..(a - 1), body[Sibling(p, j)].kind = "default"
        PROVE  PastDefault(Owner(p), stack)
    <2>1. stack[n].owner = Owner(p) /\ j \in 1..(stack[n].idx - 1) /\ body[Owner(p) \o <<1, j>>].kind = "default"
      BY <1>3, <1>4, <1>5, <1>8
    <2> QED  BY <1>3, <1>8, <2>1 DEF PastDefault
  <1> QED  BY <1>2, <1>6, <1>7, <1>8

\* What is said of the jumps, the returns and the marks of a switch is wrong with them.
LEMMA SaysAlike ==
    ASSUME CallsInv, AgainInv, GotoInv, DefaultsInv, NEW p, AtCurrent(p),
           NEW what \in {"LABEL_NOT_FOUND", "NO_TARGET", "RETURN_OUTSIDE", "VALUE_RETURNED", "VALUE_EXPECTED",
                         "OUTSIDE_SWITCH", "SECOND_DEFAULT"}
    PROVE  Says(p, what) <=> Wrong(p, what)
  <1>1. /\ p \in DOMAIN body \ {<<>>} /\ body \in Bodies /\ NoneHidden
        /\ Kind(p) # "unknown" => ~body[p].false /\ Kind(p) = body[p].kind
        /\ ~body[p].false => Kind(p) = body[p].kind
    BY ReachedFacts DEF CallsInv, Places
  <1>2. CASE what = "LABEL_NOT_FOUND"
    <2>1. Says(p, what) <=> Kind(p) = "goto" /\ <<Routine(p), Name(p)>> \notin DOMAIN labels
      BY <1>2 DEF Says
    <2>2. Wrong(p, what) <=>
              ~body[p].false /\ body[p].kind = "goto" /\ \A l \in LabelsIn(Routine(p)) : Name(l) # Name(p)
      BY <1>2 DEF Wrong
    <2>3. PICK i \in 1..Len(stack) : stack[i].owner = Routine(p)
      BY RoutineCalled
    <2>4. \A l \in LabelsIn(Routine(p)) : <<Routine(p), Name(l)>> \in DOMAIN labels
      BY <2>3 DEF GotoInv, LabelsInv
    <2>5. <<Routine(p), Name(p)>> \in DOMAIN labels =>
              \E l \in LabelsIn(Routine(p)) : Name(l) = Name(p)
      <3>1. PICK key : key = <<Routine(p), Name(p)>>
        OBVIOUS
      <3>2. key[1] = Routine(p) /\ key[2] = Name(p)
        BY <3>1
      <3>3. key \in DOMAIN labels => labels[key] \in LabelsIn(key[1]) /\ Name(labels[key]) = key[2]
        BY DEF GotoInv, LabelsInv
      <3> QED  BY <3>1, <3>2, <3>3
    <2> QED  BY <1>1, <2>1, <2>2, <2>4, <2>5
  <1>3. CASE what = "NO_TARGET"
    <2>1. Says(p, what) <=> Kind(p) \in JumpKinds /\ BreakTarget(p) = <<>>
      BY <1>3 DEF Says
    <2>2. Wrong(p, what) <=> ~body[p].false /\ body[p].kind \in JumpKinds /\ MeantIn(p, removed) = {}
      BY <1>3 DEF Wrong
    <2>3. body[p].kind \in JumpKinds => (BreakTarget(p) = <<>> <=> MeantIn(p, removed) = {})
      BY <1>1, BreakTargetIs
    <2>4. "unknown" \notin JumpKinds
      BY DEF JumpKinds
    <2> QED  BY <1>1, <2>1, <2>2, <2>3, <2>4
  <1>4. CASE what = "RETURN_OUTSIDE"
    <2>1. Says(p, what) <=> Kind(p) \in {"return", "return_value"} /\ body[Routine(p)].kind = "program"
      BY <1>4 DEF Says
    <2>2. Wrong(p, what) <=>
            ~body[p].false /\ body[p].kind \in {"return", "return_value"} /\ body[Routine(p)].kind = "program"
      BY <1>4 DEF Wrong
    <2> QED  BY <1>1, <2>1, <2>2
  <1>5. CASE what = "VALUE_RETURNED"
    <2>1. Says(p, what) <=> Kind(p) = "return_value" /\ body[Routine(p)].kind = "procedure"
      BY <1>5 DEF Says
    <2>2. Wrong(p, what) <=> ~body[p].false /\ body[p].kind = "return_value" /\ body[Routine(p)].kind = "procedure"
      BY <1>5 DEF Wrong
    <2> QED  BY <1>1, <2>1, <2>2
  <1>6. CASE what = "VALUE_EXPECTED"
    <2>1. Says(p, what) <=> Kind(p) = "return" /\ body[Routine(p)].kind = "function"
      BY <1>6 DEF Says
    <2>2. Wrong(p, what) <=> ~body[p].false /\ body[p].kind = "return" /\ body[Routine(p)].kind = "function"
      BY <1>6 DEF Wrong
    <2> QED  BY <1>1, <2>1, <2>2
  <1>7. CASE what = "OUTSIDE_SWITCH"
    <2>1. Says(p, what) <=> Kind(p) \in MarkKinds /\ body[Owner(p)].kind # "switch"
      BY <1>7 DEF Says
    <2>2. Wrong(p, what) <=> ~body[p].false /\ body[p].kind \in MarkKinds /\ body[Owner(p)].kind # "switch"
      BY <1>7 DEF Wrong
    <2>3. "unknown" \notin MarkKinds
      BY DEF MarkKinds
    <2> QED  BY <1>1, <2>1, <2>2, <2>3
  <1>8. CASE what = "SECOND_DEFAULT"
    <2>1. Says(p, what) <=> Kind(p) = "default" /\ Owner(p) \in defaults
      BY <1>8 DEF Says
    <2>2. Wrong(p, what) <=>
            /\ ~body[p].false /\ body[p].kind = "default" /\ body[Owner(p)].kind = "switch"
            /\ \E j \in 1..(Last(p) - 1) : body[Sibling(p, j)].kind = "default"
      BY <1>8 DEF Wrong
    <2>3. Owner(p) \in defaults <=>
              /\ body[Owner(p)].kind = "switch"
              /\ \E j \in 1..(Last(p) - 1) : body[Sibling(p, j)].kind = "default"
      BY SecondDefault
    <2> QED  BY <1>1, <2>1, <2>2, <2>3
  <1> QED  BY <1>2, <1>3, <1>4, <1>5, <1>6, <1>7, <1>8

\* What is said of the list of a switch...
LEMMA SaysCase ==
    ASSUME CallsInv, AgainInv, NEW p, AtCurrent(p)
    PROVE  /\ Says(p, "NO_CASE") => Wrong(p, "NO_CASE")
           /\ Wrong(p, "NO_CASE") /\ ~Known(p, stack) => Says(p, "NO_CASE")
  <1>1. /\ p \in DOMAIN body \ {<<>>} /\ body \in Bodies /\ NoneHidden
        /\ Kind(p) # "unknown" => ~body[p].false /\ Kind(p) = body[p].kind
        /\ ~body[p].false => Kind(p) = body[p].kind
        /\ \A q \in removed : body[q].false /\ (Owner(q) = p => Known(p, stack))
    BY ReachedFacts DEF CallsInv, Places
  <1>2. Says(p, "NO_CASE") <=>
            /\ Kind(p) = "switch" /\ Following(p, 1, 0) <= Sizes(p)[1]
            /\ Kind(p \o <<1, Following(p, 1, 0)>>) \notin MarkKinds
    BY DEF Says
  <1>3. Wrong(p, "NO_CASE") <=>
            /\ ~body[p].false /\ body[p].kind = "switch" /\ Sizes(p)[1] > 0
            /\ body[p \o <<1, 1>>].kind \notin MarkKinds
    BY DEF Wrong
  <1>4. SUFFICES ASSUME body[p].kind = "switch", ~body[p].false, Kind(p) = "switch"
                 PROVE  /\ Says(p, "NO_CASE") => Wrong(p, "NO_CASE")
                        /\ Wrong(p, "NO_CASE") /\ ~Known(p, stack) => Says(p, "NO_CASE")
    BY <1>1, <1>2, <1>3
  <1>5. PICK n, i : n = Sizes(p)[1] /\ i = Following(p, 1, 0)
    OBVIOUS
  <1>6. 1 \in 1..Len(Sizes(p)) /\ n \in Nat
    <2>1. Len(Sizes(p)) \in ListCounts("switch")
      BY <1>1, <1>4, BodyFacts
    <2>2. "switch" \in Compounds /\ "switch" # "if"
      BY DEF Compounds
    <2>3. ListCounts("switch") = {1}
      BY <2>2, ListCountFacts
    <2>4. Len(Sizes(p)) = 1
      BY <2>1, <2>3
    <2>5. 1 \in 1..Len(Sizes(p))
      BY <2>4
    <2> QED  BY <1>1, <1>5, <2>5, BodyFacts
  <1>7. i \in 1..(n + 1) /\ \A m \in 1..(i - 1) : p \o <<1, m>> \in removed
    <2>1. 0 \in 0..n
      BY <1>6
    <2>2. 1 \in 1..Len(Sizes(p)) /\ 0 \in 0..Sizes(p)[1]
      BY <1>5, <1>6, <2>1
    <2>3. /\ NextOf(p, 1, 0, removed) \in (0 + 1)..(Sizes(p)[1] + 1)
          /\ \A m \in (0 + 1)..(NextOf(p, 1, 0, removed) - 1) : p \o <<1, m>> \in removed
      BY <1>1, <2>2, NextFacts
    <2>4. 0 + 1 = 1 /\ i = NextOf(p, 1, 0, removed)
      BY <1>5 DEF Following
    <2> QED  BY <1>5, <2>3, <2>4, Zenon
  <1>8. PICK c : c = p \o <<1, 1>>
    OBVIOUS
  <1>9. ASSUME 1 <= n PROVE c \in DOMAIN body \ {<<>>} /\ Owner(c) = p
    <2>1. 1 \in 1..n
      BY <1>6, <1>9
    <2>2. 1 \in 1..Sizes(p)[1]
      BY <1>5, <2>1
    <2> QED  BY <1>1, <1>6, <1>8, <2>2, ChildIn DEF IsChild
  <1>10. CASE i = 1
    <2>1. ASSUME 1 <= n PROVE Kind(c) \in MarkKinds <=> body[c].kind \in MarkKinds
      <3>1. body[c].kind \in MarkKinds => ~body[c].false
        BY <1>1, <1>9, <2>1, MarkedFacts
      <3>2. "unknown" \notin MarkKinds
        BY DEF MarkKinds
      <3> QED  BY <1>1, <1>9, <2>1, <3>1, <3>2 DEF Kind, NoneHidden
    <2>2. Says(p, "NO_CASE") <=> 1 <= n /\ Kind(c) \notin MarkKinds
      BY <1>2, <1>4, <1>5, <1>8, <1>10
    <2>3. Wrong(p, "NO_CASE") <=> 1 <= n /\ body[c].kind \notin MarkKinds
      <3>1. n > 0 <=> 1 <= n
        BY <1>6
      <3> QED  BY <1>3, <1>4, <1>5, <1>8, <3>1
    <2> QED  BY <2>1, <2>2, <2>3
  <1>11. CASE i # 1
    <2>1. c \in removed
      <3>1. 1 \in 1..(i - 1)
        BY <1>6, <1>7, <1>11
      <3> QED  BY <1>7, <1>8, <3>1
    <2>2. 1 <= n
      BY <1>6, <1>7, <1>11
    <2>3. body[c].kind \notin MarkKinds /\ Known(p, stack)
      BY <1>1, <1>9, <2>1, <2>2, MarkedFacts
    <2>4. Wrong(p, "NO_CASE")
      <3>1. n > 0
        BY <1>6, <2>2
      <3> QED  BY <1>3, <1>4, <1>5, <1>8, <2>3, <3>1
    <2> QED  BY <2>3, <2>4
  <1> QED  BY <1>10, <1>11

\* ... of a try...
LEMMA SaysTry ==
    ASSUME CallsInv, AgainInv, NEW p, AtCurrent(p)
    PROVE  /\ Says(p, "INVALID_TRY") => Wrong(p, "INVALID_TRY")
           /\ Wrong(p, "INVALID_TRY") /\ ~Known(p, stack) => Says(p, "INVALID_TRY")
  <1>1. /\ Kind(p) # "unknown" => ~body[p].false /\ Kind(p) = body[p].kind
        /\ ~body[p].false => Kind(p) = body[p].kind
        /\ \A q \in removed : Given(q) = "unknown" /\ (Owner(q) = Owner(p) => Known(p, stack))
    BY ReachedFacts
  <1>2. PICK n, a : n = Sizes(Owner(p))[List(p)] /\ a = Last(p)
    OBVIOUS
  <1>3. /\ n \in Nat /\ a \in 1..n
        /\ \A j \in 1..n : /\ Sibling(p, j) # <<>> /\ Owner(Sibling(p, j)) = Owner(p)
                           /\ Kind(Sibling(p, j)) = Given(Sibling(p, j))
    BY <1>2, BesideFacts
  <1>4. PICK i \in (a + 1)..(n + 1) :
              /\ \A m \in (a + 1)..(i - 1) : Sibling(p, m) \in removed
              /\ i <= n => After(p) = Sibling(p, i)
              /\ i = n + 1 => After(p) = <<>>
    BY <1>2, NextBeside
  <1>5. Says(p, "INVALID_TRY") <=> Kind(p) = "try" /\ (After(p) = <<>> \/ Kind(After(p)) \notin Handlers)
    BY DEF Says
  <1>6. Wrong(p, "INVALID_TRY") <=>
            /\ ~body[p].false /\ body[p].kind = "try"
            /\ a = n \/ Given(Sibling(p, a + 1)) \notin Handlers
    BY <1>2 DEF Wrong
  <1>7. CASE i = a + 1
    <2>1. CASE i = n + 1
      <3>1. a = n
        BY <1>3, <1>7, <2>1
      <3> QED  BY <1>1, <1>4, <1>5, <1>6, <2>1, <3>1
    <2>2. CASE i # n + 1
      <3>1. i \in 1..n /\ i <= n /\ a # n
        BY <1>3, <1>4, <1>7, <2>2
      <3> QED  BY <1>1, <1>3, <1>4, <1>5, <1>6, <1>7, <3>1
    <2> QED  BY <2>1, <2>2
  <1>8. CASE i # a + 1
    <2>1. a + 1 \in (a + 1)..(i - 1) /\ a + 1 \in 1..n
      BY <1>3, <1>4, <1>8
    <2>2. Sibling(p, a + 1) \in removed /\ Owner(Sibling(p, a + 1)) = Owner(p)
      BY <1>3, <1>4, <2>1
    <2>3. Given(Sibling(p, a + 1)) \notin Handlers /\ Known(p, stack)
      <3>1. "unknown" \notin Handlers
        BY DEF Handlers
      <3> QED  BY <1>1, <2>2, <3>1
    <2> QED  BY <1>1, <1>5, <1>6, <2>3
  <1> QED  BY <1>7, <1>8

\* ... and of a catch or finally.
LEMMA SaysHandler ==
    ASSUME CallsInv, AgainInv, NEW p, AtCurrent(p)
    PROVE  /\ Says(p, "NO_TRY") => Wrong(p, "NO_TRY")
           /\ Wrong(p, "NO_TRY") /\ ~Known(p, stack) => Says(p, "NO_TRY")
           /\ Says(p, "NOT_LAST_CATCH") => Wrong(p, "NOT_LAST_CATCH") \/ Wrong(p, "NO_TRY")
           /\ Wrong(p, "NOT_LAST_CATCH") /\ ~Known(p, stack) => Says(p, "NOT_LAST_CATCH")
  <1>1. /\ Kind(p) # "unknown" => ~body[p].false /\ Kind(p) = body[p].kind
        /\ ~body[p].false => Kind(p) = body[p].kind
        /\ \A q \in removed : Given(q) = "unknown" /\ (Owner(q) = Owner(p) => Known(p, stack))
    BY ReachedFacts
  <1>2. PICK n, a, b : n = Sizes(Owner(p))[List(p)] /\ a = Last(p) /\ b = Before(p)
    OBVIOUS
  <1>3. /\ n \in Nat /\ a \in 1..n
        /\ \A j \in 1..n : /\ Sibling(p, j) # <<>> /\ Owner(Sibling(p, j)) = Owner(p)
                           /\ Kind(Sibling(p, j)) = Given(Sibling(p, j))
    BY <1>2, BesideFacts
  <1>4. \/ b = <<>> /\ \A m \in 1..(a - 1) : Sibling(p, m) \in removed
        \/ \E j \in 1..(a - 1) :
              /\ b = Sibling(p, j) /\ Sibling(p, j) \notin removed
              /\ \A m \in (j + 1)..(a - 1) : Sibling(p, m) \in removed
    BY <1>2, NeighbourFacts
  <1>5. /\ "unknown" \notin Handlers /\ "unknown" \notin Tried /\ "catch" \in Handlers /\ "typed_catch" \in Handlers
        /\ "catch" \in Tried
    BY DEF Handlers, Tried
  <1>6. /\ Says(p, "NO_TRY") <=> Kind(p) \in Handlers /\ ~(b # <<>> /\ Kind(b) \in Tried)
        /\ Says(p, "NOT_LAST_CATCH") <=> Kind(p) \in {"catch", "typed_catch"} /\ b # <<>> /\ Kind(b) = "catch"
    BY <1>2 DEF Says, Follows
  <1>7. /\ Wrong(p, "NO_TRY") <=>
                ~body[p].false /\ body[p].kind \in Handlers /\ (a = 1 \/ Given(Sibling(p, a - 1)) \notin Tried)
        /\ Wrong(p, "NOT_LAST_CATCH") <=>
                /\ ~body[p].false /\ body[p].kind \in {"catch", "typed_catch"} /\ a > 1
                /\ Given(Sibling(p, a - 1)) = "catch"
    BY <1>2 DEF Wrong
  <1>8. CASE a = 1
    <2>1. b = <<>>
      BY <1>4, <1>8
    <2>2. ~(a > 1)
      BY <1>8
    <2> QED  BY <1>1, <1>5, <1>6, <1>7, <1>8, <2>1, <2>2
  <1>9. CASE a # 1
    <2>1. a - 1 \in 1..(a - 1) /\ a - 1 \in 1..n /\ a > 1
      BY <1>3, <1>9
    <2>2. PICK x : x = Sibling(p, a - 1)
      OBVIOUS
    <2>3. x # <<>> /\ Owner(x) = Owner(p) /\ Kind(x) = Given(x)
      BY <1>3, <2>1, <2>2
    <2>4. CASE b = x
      BY <1>1, <1>5, <1>6, <1>7, <1>9, <2>1, <2>2, <2>3, <2>4
    <2>5. CASE b # x
      <3>1. x \in removed
        <4>1. CASE b = <<>> /\ \A m \in 1..(a - 1) : Sibling(p, m) \in removed
          BY <2>1, <2>2, <4>1
        <4>2. CASE \E j \in 1..(a - 1) :
                      /\ b = Sibling(p, j) /\ Sibling(p, j) \notin removed
                      /\ \A m \in (j + 1)..(a - 1) : Sibling(p, m) \in removed
          <5>1. PICK j \in 1..(a - 1) :
                      /\ b = Sibling(p, j)
                      /\ \A m \in (j + 1)..(a - 1) : Sibling(p, m) \in removed
            BY <4>2
          <5>2. j # a - 1
            BY <2>2, <2>5, <5>1
          <5>3. a - 1 \in (j + 1)..(a - 1)
            BY <1>3, <5>1, <5>2
          <5> QED  BY <2>2, <5>1, <5>3
        <4> QED  BY <1>4, <4>1, <4>2
      <3>2. Given(x) = "unknown" /\ Known(p, stack)
        BY <1>1, <2>3, <3>1
      <3> QED  BY <1>1, <1>5, <1>6, <1>7, <2>2, <3>2
    <2> QED  BY <2>4, <2>5
  <1> QED  BY <1>8, <1>9

\* What is said of a directive is wrong with it, and all of it when it is reached for the first time.
LEMMA SaysRight ==
    ASSUME CallsInv, AgainInv, GotoInv, DefaultsInv, NEW p, AtCurrent(p), NEW what \in Whats
    PROVE  /\ Says(p, what) => Wrong(p, what) \/ (what = "NOT_LAST_CATCH" /\ Wrong(p, "NO_TRY"))
           /\ Wrong(p, what) /\ ~Known(p, stack) => Says(p, what)
  <1>1. CASE what \in {"LABEL_NOT_FOUND", "NO_TARGET", "RETURN_OUTSIDE", "VALUE_RETURNED", "VALUE_EXPECTED",
                       "OUTSIDE_SWITCH", "SECOND_DEFAULT"}
    BY <1>1, SaysAlike
  <1>2. CASE what = "NO_CASE"
    BY <1>2, SaysCase
  <1>3. CASE what = "INVALID_TRY"
    BY <1>3, SaysTry
  <1>4. CASE what = "NO_TRY" \/ what = "NOT_LAST_CATCH"
    BY <1>4, SaysHandler
  <1> QED  BY <1>1, <1>2, <1>3, <1>4 DEF Whats

\* What is wrong with a directive after a step was wrong before: more may be meant later.
LEMMA WrongBefore ==
    ASSUME body' = body, removed \subseteq removed'
    PROVE  \A p, what : Wrong(p, what)' => Wrong(p, what)
  <1>1. \A f : LabelsIn(f)' = LabelsIn(f)
    BY SameLabels
  <1>2. \A p : Routine(p)' = Routine(p) /\ Name(p)' = Name(p)
    BY SameLabels
  <1>3. \A p : MeantIn(p, removed)' = {} => MeantIn(p, removed) = {}
    <2>1. \A p : MeantIn(p, removed)' = MeantIn(p, removed')
      BY SameMeant
    <2>2. \A p : MeantIn(p, removed) \subseteq MeantIn(p, removed')
      BY MeantGrows
    <2> QED  BY <2>1, <2>2
  <1>4. \A p : LabelsIn(Routine(p))' = LabelsIn(Routine(p)) /\ body[Routine(p)]'.kind = body[Routine(p)].kind
    BY <1>1, <1>2
  <1> QED  BY <1>1, <1>2, <1>3, <1>4 DEF Wrong, Sizes, Given

\* A call is compiled again when the one for the directive reached is in it.
LEMMA AgainKnown ==
    ASSUME CallsInv, NEW p, AtCurrent(p), Again
    PROVE  Known(p, stack)
  <1>1. body \in Bodies /\ stack # <<>> /\ stack \in Seq(Frames) /\ Chain(stack) /\ p = Current(Top) /\ Top.idx <= Size(Top)
    BY DEF CallsInv, StackInv, AtCurrent, AtTop, Top
  <1>2. PICK i \in 1..Len(stack) : stack[i].again
    BY <1>1 DEF Again, ToSet
  <1>3. PICK n : n = Len(stack)
    OBVIOUS
  <1>4. n \in 1..Len(stack) /\ stack[n] = Top /\ FrameOK(Top)
    BY <1>1, <1>3, TopPlace
  <1>5. Owner(p) = Top.owner /\ Top.owner \in DOMAIN body
    BY <1>1, <1>4, CurrentFacts, FrameNumbers DEF IsChild
  <1>6. stack[i].owner \in Around(Top.owner)
    <2>1. CASE i = n
      BY <1>1, <1>4, <1>5, <2>1, AroundFacts
    <2>2. CASE i # n
      <3>1. i < n
        BY <1>3, <1>4, <2>2
      <3> QED  BY <1>1, <1>4, <3>1, ChainAncestors DEF Around
    <2> QED  BY <2>1, <2>2
  <1> QED  BY <1>2, <1>5, <1>6 DEF Known, Over

\* The first directive of its list at which end_list is set.
FirstHalt(p) ==
    /\ Halts(Owner(p), List(p), Last(p), Stopped)
    /\ \A j \in 1..(Last(p) - 1) : ~Halts(Owner(p), List(p), j, Stopped)

Once(p, what) == [at |-> p, what |-> what, again |-> FALSE] \in errors

\* What is wrong with a known directive was reported when it was compiled for the first time.
OnceInv ==
    \A p \in Places : Live(Owner(p)) /\ Known(p, stack) =>
        /\ \A what \in Whats : Wrong(p, what) => Once(p, what)
        /\ FirstHalt(p) => Once(p, "INACCESSIBLE")

\* What the innermost call knows of the directive reached.
LEMMA ReachedTurn ==
    ASSUME CallsInv, TurnsInv, NEW p, AtCurrent(p)
    PROVE  /\ p \in Places /\ Live(Owner(p)) /\ p = Current(Top) /\ Last(p) \in Nat \ {0}
           /\ Top.ending <=> Halts(Owner(p), List(p), Last(p), Stopped)
           /\ Top.noAccess => \E j \in 1..(Last(p) - 1) : Halts(Owner(p), List(p), j, Stopped)
           /\ \A j \in 1..(Last(p) - 1) :
                 Halts(Owner(p), List(p), j, Stopped) => Top.noAccess \/ Sibling(p, j) \in removed
  <1>1. body \in Bodies /\ stack # <<>> /\ p = Current(Top) /\ Top.idx <= Size(Top)
    BY DEF CallsInv, AtCurrent, AtTop, Top
  <1>2. PICK n, f : n = Len(stack) /\ f = Top
    OBVIOUS
  <1>3. n \in 1..Len(stack) /\ stack[n] = f /\ FrameOK(f)
    BY <1>1, <1>2, TopPlace
  <1>4. Turn(f, removed) /\ Live(f.owner)
    BY <1>3 DEF TurnsInv, CallsInv, StackInv
  <1>5. /\ p \in Places /\ Owner(p) = f.owner /\ List(p) = f.list /\ Last(p) = f.idx /\ f.idx \in Nat \ {0}
        /\ \A j \in Nat : Sibling(p, j) = f.owner \o <<f.list, j>>
    BY <1>1, <1>2, <1>3, CurrentFacts, FrameNumbers DEF IsChild, Places
  <1>6. \A j \in 1..(f.idx - 1) : Sibling(p, j) = f.owner \o <<f.list, j>>
    BY <1>5
  <1> QED  BY <1>1, <1>2, <1>4, <1>5, <1>6 DEF Turn

\* The first compilation reports what is wrong...
LEMMA OnceStep ==
    ASSUME CallsInv, AgainInv, GotoInv, TurnsInv, DefaultsInv, OnceInv, Works
    PROVE  OnceInv'
  <1>1. /\ body \in Bodies /\ body' = body /\ errors \subseteq errors' /\ removed \subseteq removed'
        /\ \A p : Live(p)' <=> Live(p)
    BY CallsStep, SameBody DEF CallsInv
  <1>2. \A p, what : Wrong(p, what)' => Wrong(p, what)
    BY <1>1, WrongBefore
  <1>3. \A p : FirstHalt(p)' <=> FirstHalt(p)
    <2>1. \A o, k, j : Halts(o, k, j, Stopped)' <=> Halts(o, k, j, Stopped)
      <3>1. Stopped' = Stopped
        BY <1>1, SameStopped
      <3>2. \A o, k, j, E : Halts(o, k, j, E)' <=> Halts(o, k, j, E)
        BY <1>1, SameStopped
      <3> QED  BY <1>1, <3>1 DEF Halts, Replaces, Sizes
    <2> QED  BY <2>1 DEF FirstHalt
  <1>4. \A p, what : Once(p, what)' <=> [at |-> p, what |-> what, again |-> FALSE] \in errors'
    BY DEF Once
  <1>5. \A p : Known(p, stack)' <=> Known(p, stack')
    BY <1>1, SameOver
  <1>6. ASSUME NEW p \in Places, Live(Owner(p)), Known(p, stack')
        PROVE  /\ \A what \in Whats : Wrong(p, what) => [at |-> p, what |-> what, again |-> FALSE] \in errors'
               /\ FirstHalt(p) => [at |-> p, what |-> "INACCESSIBLE", again |-> FALSE] \in errors'
    <2>1. CASE Known(p, stack)
      BY <1>1, <1>6, <2>1 DEF OnceInv, Once
    <2>2. CASE ~Known(p, stack)
      <3>1. AtCurrent(p)
        BY <1>6, <2>2, KnownStep DEF Places
      <3>2. ~Again
        BY <2>2, <3>1, AgainKnown
      <3>3. \A what : Error(p, what) = [at |-> p, what |-> what, again |-> FALSE]
        <4>1. Again = FALSE
          BY <3>2 DEF Again
        <4> QED  BY <4>1 DEF Error
      <3>4. /\ Inaccessible(Top) \subseteq errors'
            /\ \A what \in Whats : Says(p, what) => Error(p, what) \in errors'
        BY <3>1, Complaints DEF Complained
      <3>5. ASSUME NEW what \in Whats, Wrong(p, what) PROVE Error(p, what) \in errors'
        <4>1. Says(p, what)
          BY <2>2, <3>1, <3>5, SaysRight
        <4> QED  BY <3>4, <4>1
      <3>6. ASSUME FirstHalt(p) PROVE Error(p, "INACCESSIBLE") \in errors'
        <4>1. Top.ending /\ ~Top.noAccess /\ p = Current(Top)
          BY <3>1, <3>6, ReachedTurn DEF FirstHalt
        <4>2. Error(p, "INACCESSIBLE") \in Inaccessible(Top)
          BY <4>1 DEF Inaccessible, ErrorIf
        <4> QED  BY <3>4, <4>2
      <3> QED  BY <3>3, <3>5, <3>6
    <2> QED  BY <2>1, <2>2
  <1>7. Places' = Places /\ \A p : Owner(p)' = Owner(p)
    BY <1>1 DEF Places, Owner
  <1> QED  BY <1>1, <1>2, <1>3, <1>4, <1>5, <1>6, <1>7, Zenon DEF OnceInv

\* ... and of the directives of a list that follow its end the first only.
LEMMA FirstHalts ==
    ASSUME CallsInv, AgainInv, TurnsInv, OnceInv, NEW p, AtCurrent(p), Top.ending, ~Top.noAccess, Known(p, stack)
    PROVE  \/ Once(p, "INACCESSIBLE")
           \/ \E x \in removed : Front(x) = Front(p) /\ Once(x, "INACCESSIBLE")
  <1>1. /\ body \in Bodies /\ p \in Places /\ Live(Owner(p)) /\ Last(p) \in Nat \ {0}
        /\ Halts(Owner(p), List(p), Last(p), Stopped)
        /\ \A j \in 1..(Last(p) - 1) : Halts(Owner(p), List(p), j, Stopped) => Sibling(p, j) \in removed
    BY ReachedTurn DEF CallsInv
  <1>2. CASE FirstHalt(p)
    BY <1>1, <1>2 DEF OnceInv
  <1>3. CASE ~FirstHalt(p)
    <2>1. PICK n, S : n = Last(p) - 1 /\ S = {j \in 1..n : Halts(Owner(p), List(p), j, Stopped)}
      OBVIOUS
    <2>2. n \in Nat /\ S \subseteq 1..n /\ S # {}
      BY <1>1, <1>3, <2>1 DEF FirstHalt
    <2>3. PICK j \in S : \A y \in S : j <= y
      BY <2>2, Extremes
    <2>4. PICK x : x = Sibling(p, j)
      OBVIOUS
    <2>5. j \in 1..n /\ Halts(Owner(p), List(p), j, Stopped)
      BY <2>1, <2>3
    <2>6. x \in removed
      BY <1>1, <2>1, <2>4, <2>5
    <2>7. /\ x \in Places /\ Front(x) = Front(p) /\ Owner(x) = Owner(p) /\ List(x) = List(p) /\ Last(x) = j
      <3>1. j \in 1..Sizes(Owner(p))[List(p)]
        <4>1. Last(p) <= Sizes(Owner(p))[List(p)] /\ Sizes(Owner(p))[List(p)] \in Nat
          BY <1>1, ChildOf, ChildNumbers DEF Places
        <4> QED  BY <1>1, <2>1, <2>5, <4>1
      <3>2. x \in Places /\ Owner(x) = Owner(p) /\ List(x) = List(p) /\ Last(x) = j
        BY <2>4, <3>1, BesideFacts DEF Places
      <3>3. Front(x) = Front(p)
        <4>1. \A l \in 1..(Last(p) - 1) : Front(Sibling(p, l)) = Front(p)
          BY <1>1, BeforeFacts DEF Places
        <4> QED  BY <2>1, <2>4, <2>5, <4>1
      <3> QED  BY <3>2, <3>3
    <2>8. FirstHalt(x)
      <3>1. ASSUME NEW l \in 1..(j - 1) PROVE ~Halts(Owner(p), List(p), l, Stopped)
        <4>1. l \in 1..n /\ ~(j <= l)
          BY <2>2, <2>5, <3>1
        <4> QED  BY <2>1, <2>3, <4>1
      <3> QED  BY <2>5, <2>7, <3>1 DEF FirstHalt
    <2>9. Known(x, stack)
      BY <2>6 DEF AgainInv, Known
    <2> QED  BY <1>1, <2>6, <2>7, <2>8, <2>9 DEF OnceInv
  <1> QED  BY <1>2, <1>3

\* So what a second compilation reports was reported by the first.
LEMMA AlikeStep ==
    ASSUME CallsInv, AgainInv, GotoInv, TurnsInv, DefaultsInv, OnceInv, RecompiledAlike, Works
    PROVE  RecompiledAlike'
  <1>1. /\ body \in Bodies /\ errors \subseteq errors' /\ removed \subseteq removed'
    BY CallsStep DEF CallsInv
  <1>2. \A x : Once(x, "INACCESSIBLE") => x \in Reported("INACCESSIBLE")
    <2>1. ASSUME NEW x, Once(x, "INACCESSIBLE") PROVE x \in Reported("INACCESSIBLE")
      <3>1. PICK e : e = [at |-> x, what |-> "INACCESSIBLE", again |-> FALSE]
        OBVIOUS
      <3>2. e \in errors /\ e.what = "INACCESSIBLE" /\ e.at = x
        BY <2>1, <3>1 DEF Once
      <3> QED  BY <3>2 DEF Reported
    <2> QED  BY <2>1
  <1>3. \A what : Reported(what) \subseteq Reported(what)'
    BY <1>1 DEF Reported
  <1>4. ASSUME NEW e \in errors', e.again
        PROVE  \/ e.what = "DUPLICATES"
               \/ [e EXCEPT !.again = FALSE] \in errors
               \/ e.what = "NOT_LAST_CATCH" /\ [e EXCEPT !.what = "NO_TRY", !.again = FALSE] \in errors
               \/ /\ e.what = "INACCESSIBLE"
                  /\ \E p \in removed : Front(p) = Front(e.at) /\ p \in Reported("INACCESSIBLE")
    <2>1. CASE e \in errors
      BY <1>4, <2>1, Zenon DEF RecompiledAlike
    <2>2. ASSUME NEW p, AtCurrent(p), e \in Inaccessible(Top) \/ \E what \in Whats : Says(p, what) /\ e = Error(p, what)
          PROVE  \/ [e EXCEPT !.again = FALSE] \in errors
                 \/ e.what = "NOT_LAST_CATCH" /\ [e EXCEPT !.what = "NO_TRY", !.again = FALSE] \in errors
                 \/ /\ e.what = "INACCESSIBLE"
                    /\ \E x \in removed : Front(x) = Front(e.at) /\ x \in Reported("INACCESSIBLE")
      <3>1. p \in Places /\ Live(Owner(p)) /\ p = Current(Top)
        BY <2>2, ReachedTurn
      <3>2. ASSUME NEW what, e = Error(p, what)
            PROVE  /\ Again /\ e.at = p /\ e.what = what
                   /\ [e EXCEPT !.again = FALSE] = [at |-> p, what |-> what, again |-> FALSE]
                   /\ [e EXCEPT !.what = "NO_TRY", !.again = FALSE] = [at |-> p, what |-> "NO_TRY", again |-> FALSE]
        <4>1. PICK a : a = Again
          OBVIOUS
        <4>2. e = [at |-> p, what |-> what, again |-> a]
          BY <3>2, <4>1 DEF Error
        <4>3. e.at = p /\ e.what = what /\ e.again = a
          BY <4>2
        <4>4. Again
          BY <1>4, <4>1, <4>3
        <4>5. /\ [e EXCEPT !.again = FALSE] = [at |-> p, what |-> what, again |-> FALSE]
              /\ [e EXCEPT !.what = "NO_TRY", !.again = FALSE] = [at |-> p, what |-> "NO_TRY", again |-> FALSE]
          <5>1. \A b : [e EXCEPT !.again = b] = [at |-> p, what |-> what, again |-> b]
            BY <4>2
          <5>2. ASSUME NEW w, NEW b PROVE [e EXCEPT !.what = w, !.again = b] = [at |-> p, what |-> w, again |-> b]
            <6>1. DOMAIN e = {"at", "what", "again"} /\ e.at = p /\ e.again = a
              BY <4>2
            <6>2. PICK d : d = [e EXCEPT !.what = w, !.again = b]
              OBVIOUS
            <6>3. d.what = w /\ d.again = b /\ d.at = p /\ DOMAIN d = {"at", "what", "again"}
              BY <6>1, <6>2
            <6>4. d = [x \in {"at", "what", "again"} |-> d[x]]
              BY <6>2, <6>3
            <6> QED  BY <6>2, <6>3, <6>4
          <5>3. [e EXCEPT !.again = FALSE] = [at |-> p, what |-> what, again |-> FALSE]
            BY <5>1, Zenon
          <5>4. [e EXCEPT !.what = "NO_TRY", !.again = FALSE] = [at |-> p, what |-> "NO_TRY", again |-> FALSE]
            BY <5>2, Zenon
          <5> QED  BY <5>3, <5>4
        <4> QED  BY <4>3, <4>4, <4>5
      <3>3. CASE \E what \in Whats : Says(p, what) /\ e = Error(p, what)
        <4>1. PICK what \in Whats : Says(p, what) /\ e = Error(p, what)
          BY <3>3
        <4>2. Known(p, stack)
          BY <2>2, <3>2, <4>1, AgainKnown
        <4>3. Wrong(p, what) \/ (what = "NOT_LAST_CATCH" /\ Wrong(p, "NO_TRY"))
          BY <2>2, <4>1, SaysRight
        <4>4. CASE Wrong(p, what)
          <5>1. Once(p, what)
            BY <3>1, <4>1, <4>2, <4>4 DEF OnceInv
          <5>2. [e EXCEPT !.again = FALSE] = [at |-> p, what |-> what, again |-> FALSE]
            BY <3>2, <4>1
          <5> QED  BY <5>1, <5>2 DEF Once
        <4>5. CASE what = "NOT_LAST_CATCH" /\ Wrong(p, "NO_TRY")
          <5>1. "NO_TRY" \in Whats
            BY DEF Whats
          <5>2. Once(p, "NO_TRY")
            BY <3>1, <4>2, <4>5, <5>1 DEF OnceInv
          <5>3. /\ e.what = "NOT_LAST_CATCH"
                /\ [e EXCEPT !.what = "NO_TRY", !.again = FALSE] = [at |-> p, what |-> "NO_TRY", again |-> FALSE]
            BY <3>2, <4>1, <4>5
          <5> QED  BY <5>2, <5>3 DEF Once
        <4> QED  BY <4>3, <4>4, <4>5
      <3>4. CASE e \in Inaccessible(Top)
        <4>1. Top.ending /\ ~Top.noAccess /\ e = Error(p, "INACCESSIBLE")
          BY <3>1, <3>4 DEF Inaccessible, ErrorIf
        <4>2. Known(p, stack) /\ e.what = "INACCESSIBLE" /\ e.at = p
          BY <2>2, <3>2, <4>1, AgainKnown
        <4>3. \/ Once(p, "INACCESSIBLE")
              \/ \E x \in removed : Front(x) = Front(p) /\ Once(x, "INACCESSIBLE")
          BY <2>2, <4>1, <4>2, FirstHalts
        <4>4. CASE Once(p, "INACCESSIBLE")
          BY <3>2, <4>1, <4>4 DEF Once
        <4>5. CASE \E x \in removed : Front(x) = Front(p) /\ Once(x, "INACCESSIBLE")
          BY <1>2, <4>2, <4>5
        <4> QED  BY <4>3, <4>4, <4>5
      <3> QED  BY <2>2, <3>3, <3>4
    <2> QED  BY <2>1, <2>2, Complaints, Zenon DEF Complained
  <1>5. ASSUME NEW e \in errors', e.again
        PROVE  \/ e.what = "DUPLICATES"
               \/ [e EXCEPT !.again = FALSE] \in errors'
               \/ e.what = "NOT_LAST_CATCH" /\ [e EXCEPT !.what = "NO_TRY", !.again = FALSE] \in errors'
               \/ /\ e.what = "INACCESSIBLE"
                  /\ \E p \in removed' : Front(p) = Front(e.at) /\ p \in Reported("INACCESSIBLE")'
    BY <1>1, <1>3, <1>4, <1>5
  <1> QED  BY <1>5 DEF RecompiledAlike

\* At first one call has started, and nothing is known.
LEMMA AlikeInit ==
    ASSUME Init
    PROVE  AgainInv /\ TurnsInv /\ DefaultsInv /\ OnceInv /\ RecompiledAlike
  <1>1. CallsInv /\ \A p \in DOMAIN body \ {<<>>} : ~Seen(p, stack)
    BY CallsInit
  <1>2. /\ body \in Bodies /\ removed = {} /\ defaults = {} /\ stack = <<Frame(<<>>, 1, 0, FALSE, {})>>
        /\ errors = Duplicates(<<>>, {}, FALSE)
    BY Zenon DEF Init
  <1>3. PICK g : g = Frame(<<>>, 1, 0, FALSE, {})
    OBVIOUS
  <1>4. Len(stack) = 1 /\ \A i \in 1..Len(stack) : stack[i] = g
    <2>1. stack = <<g>>
      BY <1>2, <1>3, Zenon
    <2> QED  BY <2>1
  <1>5. g.owner = <<>> /\ g.list = 1 /\ ~g.again /\ ~g.noAccess /\ ~g.ending /\ g.idx = NextOf(<<>>, 1, 0, {})
    BY <1>3 DEF Frame
  <1>6. AgainInv
    BY <1>2, <1>4, <1>5 DEF AgainInv
  <1>7. TurnsInv
    <2>1. <<>> \in DOMAIN body /\ 1 \in 1..Len(Sizes(<<>>))
      <3>1. FrameOK(g)
        BY <1>1, <1>4 DEF CallsInv, StackInv, Chain
      <3> QED  BY <1>2, <1>5, <3>1, FrameNumbers
    <2>2. \A d \in Stopped : ~body[d].false
      BY StoppedFacts DEF Stops
    <2>3. PICK gone : gone = {}
      OBVIOUS
    <2>4. \A d \in gone : body[d].false
      BY <2>3
    <2>5. /\ ~Halts(<<>>, 1, NextOf(<<>>, 1, 0, gone), Stopped)
          /\ \A j \in 1..(NextOf(<<>>, 1, 0, gone) - 1) : <<>> \o <<1, j>> \in gone
      BY <1>2, <2>1, <2>2, <2>4, HaltsFirst
    <2>6. Turn(g, removed)
      BY <1>2, <1>5, <2>3, <2>5 DEF Turn
    <2> QED  BY <1>4, <2>6 DEF TurnsInv
  <1>8. DefaultsInv
    <2>1. body[<<>>].kind # "switch"
      BY <1>2, BodyFacts DEF FunctionKinds
    <2>2. \A o : ~PastDefault(o, stack)
      BY <1>4, <1>5, <2>1 DEF PastDefault
    <2> QED  BY <1>2, <2>2 DEF DefaultsInv
  <1>9. OnceInv
    <2>1. ASSUME NEW p \in Places, Known(p, stack) PROVE FALSE
      <3>1. p \in DOMAIN body \ {<<>>} /\ Owner(p) \in DOMAIN body /\ Owner(p) \in Around(p)
        BY <1>2, AroundFacts DEF Places
      <3>2. ~Over(Owner(p), stack)
        <4>1. ~Past(Owner(p), stack)
          <5>1. Past(Owner(p), stack) => Past(p, stack)
            BY <1>2, <3>1, OverInside
          <5>2. ~Seen(p, stack)
            BY <1>1, <3>1
          <5> QED  BY <5>1, <5>2 DEF Seen
        <4> QED  BY <1>4, <1>5, <4>1 DEF Over
      <3> QED  BY <1>1, <2>1, <3>1, <3>2 DEF Known
    <2> QED  BY <2>1 DEF OnceInv
  <1>10. RecompiledAlike
    BY <1>2, DuplicateErrors, Zenon DEF RecompiledAlike
  <1> QED  BY <1>6, <1>7, <1>8, <1>9, <1>10

\* What is invariant besides the calls and the gotos.
AlikeInv == AgainInv /\ TurnsInv /\ DefaultsInv /\ OnceInv /\ RecompiledAlike

(* RecompiledAlike for every program: what the second compilation of a         *)
(* function reports was reported by the first.                                 *)
THEOREM RecompiledAlikeAlways == Spec => []RecompiledAlike
  <1>1. Init => AlikeInv
    BY AlikeInit DEF AlikeInv
  <1>2. CallsInv /\ GotoInv /\ AlikeInv /\ [Next]_vars => AlikeInv'
    <2>1. CallsInv /\ GotoInv /\ AlikeInv /\ Works => AlikeInv'
      BY AgainStep, TurnsStep, DefaultsStep, OnceStep, AlikeStep DEF AlikeInv
    <2>2. AlikeInv /\ UNCHANGED Held => AlikeInv'
      <3> SUFFICES ASSUME AlikeInv, UNCHANGED Held PROVE AlikeInv'
        OBVIOUS
      <3>1. /\ body' = body /\ stack' = stack /\ removed' = removed /\ errors' = errors
            /\ defaults' = defaults
        BY DEF Held
      <3>2. \A p : Over(p, stack)' <=> Over(p, stack)
        BY <3>1, SameOver
      <3>3. \A p : Known(p, stack)' <=> Known(p, stack)
        BY <3>1, SameOver
      <3>4. AgainInv'
        BY <3>1, <3>2 DEF AlikeInv, AgainInv
      <3>5. Stopped' = Stopped /\ \A o, k, j, E : Halts(o, k, j, E)' <=> Halts(o, k, j, E)
        BY <3>1, SameStopped
      <3>6. \A o, k, j : Halts(o, k, j, Stopped)' <=> Halts(o, k, j, Stopped)
        BY <3>1, <3>5 DEF Halts, Replaces, Sizes
      <3>7. TurnsInv'
        BY <3>1, <3>6 DEF AlikeInv, TurnsInv, Turn
      <3>8. DefaultsInv'
        BY <3>1 DEF AlikeInv, DefaultsInv, PastDefault
      <3>9. OnceInv'
        <4>1. \A p, what : Wrong(p, what)' => Wrong(p, what)
          BY <3>1, WrongBefore
        <4>2. \A p : FirstHalt(p)' <=> FirstHalt(p)
          BY <3>6 DEF FirstHalt
        <4>3. \A p : Live(p)' <=> Live(p)
          BY <3>1, SameBody
        <4>4. Places' = Places /\ \A p, what : Once(p, what)' <=> Once(p, what)
          BY <3>1 DEF Places, Once
        <4>5. OnceInv
          BY DEF AlikeInv
        <4> QED  BY <3>3, <4>1, <4>2, <4>3, <4>4, <4>5, Zenon DEF OnceInv
      <3>10. RecompiledAlike'
        BY <3>1, Zenon DEF AlikeInv, RecompiledAlike, Reported
      <3> QED  BY <3>4, <3>7, <3>8, <3>9, <3>10 DEF AlikeInv
    <2> QED  BY <2>1, <2>2, StepCases
  <1>3. AlikeInv => RecompiledAlike
    BY DEF AlikeInv
  <1> QED  BY <1>1, <1>2, <1>3, CallsInvariant, GotoInvariant, PTL DEF Spec
=============================================================================
