-------------------------- MODULE AttributesProofs --------------------------
(***************************************************************************)
(* Proofs about Attributes, for any programs: the type invariant, that     *)
(* exclusive attributes never meet, that the flag against circular lists   *)
(* marks the lists being walked over, that every circular list used is     *)
(* reported, and that the attributes of a node do not depend on the order  *)
(* of the requests when lists are plain.                                   *)
(***************************************************************************)
EXTENDS Attributes, Recursion, FiniteSetTheorems

(***************************************************************************)
(* Sets of attributes.                                                     *)
(***************************************************************************)

Compatible(S) == \A a, b \in S : b \notin Conflicts(a)

\* verify_exclusive_attributes() lists every conflict on both sides.
LEMMA ConflictsSymmetric ==
    ASSUME NEW a, NEW b, b \in Conflicts(a)
    PROVE  a \in Conflicts(b) /\ a # b
  BY SMTT(30) DEF Conflicts

\* Its cases are the groups, but for the exceptions.
LEMMA ConflictsAreGroups ==
    ASSUME NEW g \in Groups, NEW a \in g, NEW b \in g, a # b, {a, b} \notin Exceptions
    PROVE  b \in Conflicts(a)
  <1>1. CASE g = {"TRUE", "FALSE"}
    BY <1>1 DEF Conflicts
  <1>2. CASE g = {"ABSTRACT", "CONSTRUCTOR", "INLINE", "NATIVE", "STATIC", "VIRTUAL"}
    <2> {a, b} = {b, a}
      OBVIOUS
    <2> QED  BY <1>2, SMTT(60) DEF Conflicts, Exceptions
  <1>3. CASE g = {"FOREACH", "NOBREAK", "AUTOBREAK"}
    BY <1>3 DEF Conflicts
  <1>4. CASE g = Visibility
    BY <1>4 DEF Conflicts, Visibility
  <1> QED  BY <1>1, <1>2, <1>3, <1>4 DEF Groups

LEMMA SetCompatible ==
    ASSUME NEW S, Compatible(S), NEW a
    PROVE  Compatible(SetAttribute(S, a))
  <1> CASE S \intersect Conflicts(a) = {}
    <2> SUFFICES ASSUME NEW x \in S \union {a}, NEW y \in S \union {a}
                 PROVE  y \notin Conflicts(x)
      BY DEF SetAttribute, Compatible
    <2>1. CASE x \in S /\ y \in S
      BY <2>1 DEF Compatible
    <2>2. CASE x = a /\ y \in S
      BY <2>2
    <2>3. CASE x \in S /\ y = a
      BY <2>3, ConflictsSymmetric
    <2>4. CASE x = a /\ y = a
      BY <2>4, ConflictsSymmetric
    <2> QED  BY <2>1, <2>2, <2>3, <2>4
  <1> CASE S \intersect Conflicts(a) # {}
    BY DEF SetAttribute
  <1> QED  OBVIOUS

LEMMA SubsetCompatible ==
    ASSUME NEW S, Compatible(S), NEW T, T \subseteq S
    PROVE  Compatible(T)
  BY DEF Compatible

LEMMA CopyCompatible ==
    ASSUME NEW S, Compatible(S), NEW a, NEW P
    PROVE  Compatible(CopyAttribute(S, a, P))
  BY SetCompatible, SubsetCompatible DEF CopyAttribute

LEMMA InheritedCompatible ==
    ASSUME NEW S, Compatible(S), NEW P, NEW k
    PROVE  Compatible(Inherited(S, P, k))
  <1> DEFINE fromClass == k = "class"
             visible == IF fromClass /\ S \intersect Visibility = {}
                        THEN CopyAttribute(CopyAttribute(CopyAttribute(
                                 S, "PUBLIC", P), "PRIVATE", P), "PROTECTED", P)
                        ELSE S
             typed == IF fromClass /\ visible \intersect MemberTypes = {}
                      THEN CopyAttribute(CopyAttribute(CopyAttribute(
                               visible, "STATIC", P), "ABSTRACT", P), "VIRTUAL", P)
                      ELSE visible
             final == IF "FINAL" \in P THEN SetAttribute(typed, "FINAL") ELSE typed
             native == IF "NATIVE" \in P THEN SetAttribute(final, "NATIVE") ELSE final
             listed == IF fromClass THEN CopyAttribute(native, "ENUMERABLE", P) ELSE native
             false == IF "FALSE" \in P THEN SetAttribute(listed \ {"TRUE"}, "FALSE")
                      ELSE listed
  <1>1. Compatible(visible)
    BY CopyCompatible
  <1>2. Compatible(typed)
    BY <1>1, CopyCompatible
  <1>3. Compatible(final)
    BY <1>2, SetCompatible
  <1>4. Compatible(native)
    BY <1>3, SetCompatible
  <1>5. Compatible(listed)
    BY <1>4, CopyCompatible
  <1>6. Compatible(false)
    <2> Compatible(listed \ {"TRUE"})
      BY <1>5, SubsetCompatible
    <2> QED  BY <1>5, SetCompatible
  <1> HIDE DEF false
  <1>7. Compatible(IF "DYNAMIC" \in P THEN SetAttribute(false, "DYNAMIC") ELSE false)
    BY <1>6, SetCompatible
  <1> USE DEF false
  <1> QED  BY <1>7, Zenon DEF Inherited

\* Attributes are added by name only.
LEMMA SetTyped ==
    ASSUME NEW S, S \subseteq AttributeSet, NEW a \in AttributeSet, NEW P
    PROVE  /\ SetAttribute(S, a) \subseteq AttributeSet
           /\ CopyAttribute(S, a, P) \subseteq AttributeSet
           /\ S \ {a} \subseteq AttributeSet
  <1>1. SetAttribute(S, a) \subseteq AttributeSet
    BY DEF SetAttribute
  <1>2. S \ {a} \subseteq AttributeSet
    OBVIOUS
  <1> QED  BY <1>1, <1>2 DEF CopyAttribute

LEMMA AttributeNames ==
    /\ {"PUBLIC", "PRIVATE", "PROTECTED", "STATIC", "ABSTRACT", "VIRTUAL", "FINAL",
        "NATIVE", "ENUMERABLE", "TRUE", "FALSE", "DYNAMIC", "DEFINED"}
            \subseteq AttributeSet
    /\ Literals \subseteq AttributeSet
    /\ ValueLiterals \subseteq AttributeSet
  BY DEF AttributeSet, Literals, Identifiers, Keywords, ValueLiterals

LEMMA CopyThree ==
    ASSUME NEW S, S \subseteq AttributeSet, NEW P,
           NEW a \in AttributeSet, NEW b \in AttributeSet, NEW c \in AttributeSet
    PROVE  CopyAttribute(CopyAttribute(CopyAttribute(S, a, P), b, P), c, P)
               \subseteq AttributeSet
  <1>1. CopyAttribute(S, a, P) \subseteq AttributeSet
    BY SetTyped
  <1>2. CopyAttribute(CopyAttribute(S, a, P), b, P) \subseteq AttributeSet
    BY <1>1, SetTyped
  <1> QED  BY <1>2, SetTyped

LEMMA InheritedTyped ==
    ASSUME NEW S, S \subseteq AttributeSet, NEW P, NEW k
    PROVE  Inherited(S, P, k) \subseteq AttributeSet
  <1> DEFINE fromClass == k = "class"
             visible == IF fromClass /\ S \intersect Visibility = {}
                        THEN CopyAttribute(CopyAttribute(CopyAttribute(
                                 S, "PUBLIC", P), "PRIVATE", P), "PROTECTED", P)
                        ELSE S
             typed == IF fromClass /\ visible \intersect MemberTypes = {}
                      THEN CopyAttribute(CopyAttribute(CopyAttribute(
                               visible, "STATIC", P), "ABSTRACT", P), "VIRTUAL", P)
                      ELSE visible
             final == IF "FINAL" \in P THEN SetAttribute(typed, "FINAL") ELSE typed
             native == IF "NATIVE" \in P THEN SetAttribute(final, "NATIVE") ELSE final
             listed == IF fromClass THEN CopyAttribute(native, "ENUMERABLE", P) ELSE native
             false == IF "FALSE" \in P THEN SetAttribute(listed \ {"TRUE"}, "FALSE")
                      ELSE listed
  <1>n. /\ "PUBLIC" \in AttributeSet /\ "PRIVATE" \in AttributeSet
        /\ "PROTECTED" \in AttributeSet /\ "STATIC" \in AttributeSet
        /\ "ABSTRACT" \in AttributeSet /\ "VIRTUAL" \in AttributeSet
        /\ "FINAL" \in AttributeSet /\ "NATIVE" \in AttributeSet
        /\ "ENUMERABLE" \in AttributeSet /\ "TRUE" \in AttributeSet
        /\ "FALSE" \in AttributeSet /\ "DYNAMIC" \in AttributeSet
    BY AttributeNames
  <1>1. visible \subseteq AttributeSet
    BY <1>n, CopyThree
  <1> HIDE DEF visible
  <1>2. typed \subseteq AttributeSet
    BY <1>n, <1>1, CopyThree
  <1> HIDE DEF typed
  <1>3. final \subseteq AttributeSet
    BY <1>n, <1>2, SetTyped
  <1> HIDE DEF final
  <1>4. native \subseteq AttributeSet
    BY <1>n, <1>3, SetTyped
  <1> HIDE DEF native
  <1>5. listed \subseteq AttributeSet
    BY <1>n, <1>4, SetTyped
  <1> HIDE DEF listed
  <1>6. false \subseteq AttributeSet
    <2> listed \ {"TRUE"} \subseteq AttributeSet
      BY <1>5
    <2> QED  BY <1>n, <1>5, SetTyped
  <1> HIDE DEF false
  <1>7. (IF "DYNAMIC" \in P THEN SetAttribute(false, "DYNAMIC") ELSE false)
            \subseteq AttributeSet
    BY <1>n, <1>6, SetTyped
  <1> USE DEF visible, typed, final, native, listed, false
  <1> QED  BY <1>7, Zenon DEF Inherited

(***************************************************************************)
(* Stacks: a frame is pushed, changed in place or popped.                  *)
(***************************************************************************)
LEMMA PushFrame ==
  ASSUME NEW S, NEW s \in Seq(S), NEW f \in S
  PROVE  /\ Append(s, f) \in Seq(S)
         /\ Len(Append(s, f)) = Len(s) + 1
         /\ \A i \in 1 .. Len(s) + 1 :
               Append(s, f)[i] = IF i = Len(s) + 1 THEN f ELSE s[i]
  BY AppendProperties

LEMMA PopFrame ==
  ASSUME NEW S, NEW s \in Seq(S), s # << >>
  PROVE  /\ Front(s) \in Seq(S)
         /\ Len(Front(s)) = Len(s) - 1
         /\ Len(s) \in Nat \ {0}
         /\ \A i \in 1 .. Len(s) - 1 : Front(s)[i] = s[i]
  <1> DEFINE n == Len(s) - 1
             front == SubSeq(s, 1, n)
  <1>1. n \in Nat /\ n + 1 = Len(s) /\ \A i \in 1 .. n : s[i] \in S
    OBVIOUS
  <1>2. /\ front \in Seq(S)
        /\ Len(front) = IF 1 <= n THEN n - 1 + 1 ELSE 0
        /\ \A i \in 1 .. n - 1 + 1 : front[i] = s[1 + i - 1]
    <2> HIDE DEF n
    <2>1. QED
      BY <1>1, SubSeqProperties
  <1>3. Front(s) = front
    BY DEF Front
  <1> HIDE DEF front, n
  <1>4. Len(front) = n /\ \A i \in 1 .. n : front[i] = s[i]
    BY <1>1, <1>2
  <1>5. n = Len(s) - 1 /\ Len(s) \in Nat \ {0}
    BY <1>1 DEF n
  <1>6. QED
    BY <1>2, <1>3, <1>4, <1>5

LEMMA ChangeFrame ==
  ASSUME NEW S, NEW s \in Seq(S), s # << >>, NEW f \in S
  PROVE  /\ Append(Front(s), f) \in Seq(S)
         /\ Len(Append(Front(s), f)) = Len(s)
         /\ \A i \in 1 .. Len(s) :
               Append(Front(s), f)[i] = IF i = Len(s) THEN f ELSE s[i]
  <1>1. /\ Front(s) \in Seq(S) /\ Len(Front(s)) = Len(s) - 1
        /\ Len(s) \in Nat \ {0}
        /\ \A i \in 1 .. Len(s) - 1 : Front(s)[i] = s[i]
    BY PopFrame
  <1>2. /\ Append(Front(s), f) \in Seq(S)
        /\ Len(Append(Front(s), f)) = Len(Front(s)) + 1
        /\ \A i \in 1 .. Len(Front(s)) + 1 :
              Append(Front(s), f)[i] =
                IF i = Len(Front(s)) + 1 THEN f ELSE Front(s)[i]
    BY <1>1, PushFrame
  <1>3. QED
    BY <1>1, <1>2

(***************************************************************************)
(* The lists walked over by the calls of a stack, and that each is walked  *)
(* over by one call.                                                       *)
(***************************************************************************)
WalkingFrame(f) == f.stage \in {"list", "value"}

Walkers(s) == {i \in 1 .. Len(s) : WalkingFrame(s[i])}
Walks(s) == {s[i].list : i \in Walkers(s)}
Once(s) == \A i, j \in Walkers(s) : s[i].list = s[j].list => i = j

LEMMA WalksPush ==
    ASSUME NEW S, NEW s \in Seq(S), NEW f \in S, ~ WalkingFrame(f), Once(s)
    PROVE  Walks(Append(s, f)) = Walks(s) /\ Once(Append(s, f))
  <1> DEFINE t == Append(s, f)
  <1>1. /\ Len(t) = Len(s) + 1 /\ Len(s) \in Nat
        /\ \A i \in 1 .. Len(s) + 1 : t[i] = IF i = Len(s) + 1 THEN f ELSE s[i]
    BY PushFrame
  <1> HIDE DEF t
  <1>2. Walkers(t) = Walkers(s) /\ \A i \in Walkers(s) : t[i] = s[i]
    BY <1>1 DEF Walkers
  <1>3. Walks(t) = Walks(s) /\ Once(t)
    BY <1>2 DEF Walks, Once
  <1> QED  BY <1>3 DEF t

\* A frame changed in place, that walks over the same list or still over none.
LEMMA WalksChange ==
    ASSUME NEW S, NEW s \in Seq(S), s # << >>, NEW f \in S, Once(s),
           WalkingFrame(f) <=> WalkingFrame(Last(s)), f.list = Last(s).list
    PROVE  Walks(Append(Front(s), f)) = Walks(s) /\ Once(Append(Front(s), f))
  <1> DEFINE t == Append(Front(s), f)
  <1>1. /\ Len(t) = Len(s) /\ Len(s) \in Nat \ {0} /\ Last(s) = s[Len(s)]
        /\ \A i \in 1 .. Len(s) : t[i] = IF i = Len(s) THEN f ELSE s[i]
    BY ChangeFrame, PopFrame DEF Last
  <1> HIDE DEF t
  <1>2. Walkers(t) = Walkers(s) /\ \A i \in Walkers(s) : t[i].list = s[i].list
    BY <1>1 DEF Walkers
  <1>3. Walks(t) = Walks(s) /\ Once(t)
    BY <1>2 DEF Walks, Once
  <1> QED  BY <1>3 DEF t

\* The last call starts to walk over a list.
LEMMA WalksStart ==
    ASSUME NEW S, NEW s \in Seq(S), s # << >>, NEW f \in S, Once(s),
           ~ WalkingFrame(Last(s)), WalkingFrame(f), f.list \notin Walks(s)
    PROVE  /\ Walks(Append(Front(s), f)) = Walks(s) \union {f.list}
           /\ Once(Append(Front(s), f))
  <1> DEFINE t == Append(Front(s), f)
  <1>1. /\ Len(t) = Len(s) /\ Len(s) \in Nat \ {0} /\ Last(s) = s[Len(s)]
        /\ Len(s) \in 1 .. Len(s)
        /\ \A i \in 1 .. Len(s) : t[i] = IF i = Len(s) THEN f ELSE s[i]
    BY ChangeFrame, PopFrame DEF Last
  <1> HIDE DEF t
  <1>2. /\ Walkers(t) = Walkers(s) \union {Len(s)}
        /\ \A i \in Walkers(s) : t[i] = s[i]
        /\ t[Len(s)] = f
    BY <1>1 DEF Walkers
  <1>3. \A i \in Walkers(s) : s[i].list # f.list
    BY DEF Walks
  <1>4. Walks(t) = Walks(s) \union {f.list}
    BY <1>2 DEF Walks
  <1>5. Once(t)
    BY <1>2, <1>3 DEF Once
  <1> QED  BY <1>4, <1>5 DEF t

LEMMA WalksPop ==
    ASSUME NEW S, NEW s \in Seq(S), s # << >>, Once(s)
    PROVE  /\ ~ WalkingFrame(Last(s)) => Walks(Front(s)) = Walks(s)
           /\ WalkingFrame(Last(s)) => Walks(Front(s)) = Walks(s) \ {Last(s).list}
           /\ Once(Front(s))
  <1> DEFINE t == Front(s)
  <1>1. /\ Len(t) = Len(s) - 1 /\ Len(s) \in Nat \ {0} /\ Last(s) = s[Len(s)]
        /\ Len(s) \in 1 .. Len(s)
        /\ \A i \in 1 .. Len(s) - 1 : t[i] = s[i]
    BY PopFrame DEF Last
  <1> HIDE DEF t
  <1>2. Walkers(t) = Walkers(s) \ {Len(s)} /\ \A i \in Walkers(t) : t[i] = s[i]
    BY <1>1 DEF Walkers
  <1>3. Once(t)
    BY <1>2 DEF Once
  <1>4. CASE ~ WalkingFrame(Last(s))
    <2> Len(s) \notin Walkers(s)
      BY <1>1, <1>4 DEF Walkers
    <2> Walks(t) = Walks(s)
      BY <1>2 DEF Walks
    <2> QED  BY <1>3, <1>4 DEF t
  <1>5. CASE WalkingFrame(Last(s))
    <2>1. Len(s) \in Walkers(s)
      BY <1>1, <1>5 DEF Walkers
    <2>2. \A i \in Walkers(t) : s[i].list # s[Len(s)].list
      BY <1>2, <2>1 DEF Once
    <2>3. Walks(t) = Walks(s) \ {Last(s).list}
      BY <1>1, <1>2, <2>1, <2>2 DEF Walks
    <2> QED  BY <1>3, <1>5, <2>3 DEF t
  <1> QED  BY <1>4, <1>5

(***************************************************************************)
(* The inductive invariant.  A call never runs for the program, whose      *)
(* parent does not exist, and an expression is evaluated only at a place   *)
(* of its list.                                                            *)
(***************************************************************************)
SoundFrames ==
    {g \in Frames : /\ tree.kind[g.node] # "program"
                    /\ tree.kind[g.at] # "program"
                    /\ g.stage = "value" => g.pos <= Len(tree.items[g.list])}

SoundAttrs ==
    /\ attrs \in [Nodes -> SUBSET AttributeSet]
    /\ \A n \in Nodes : Compatible(attrs[n])

SoundStack(s) == s \in Seq(SoundFrames) /\ Once(s)

IInv ==
    /\ tree \in Trees
    /\ SoundAttrs
    /\ looping \subseteq Nodes
    /\ looped \subseteq Nodes \X Nodes
    /\ SoundStack(stack)
    /\ looping = Walks(stack)

LEMMA TreeFacts ==
    ASSUME tree \in Trees
    PROVE  /\ \A n \in Nodes :
                /\ tree.parent[n] \in Nodes \union {NoNode}
                /\ tree.kind[n] \in Kinds
                /\ tree.kids[n] \in Seq(Nodes)
                /\ tree.words[n] \in Seq(Words)
                /\ tree.items[n] \in Seq(Items)
           /\ WellFormed(tree)
  <1>1. tree \in Tree /\ WellFormed(tree)
    BY TreesAssumption
  <1> QED  BY <1>1 DEF Tree

LEMMA FrameFacts ==
    ASSUME NEW g \in SoundFrames
    PROVE  /\ g \in Frames
           /\ g.node \in Nodes /\ g.list \in Nodes /\ g.at \in Nodes
           /\ g.pos \in Nat \ {0} /\ g.todo \in Seq(Nodes)
           /\ tree.kind[g.node] # "program" /\ tree.kind[g.at] # "program"
           /\ g.stage = "value" => g.pos <= Len(tree.items[g.list])
  BY DEF SoundFrames, Frames

LEMMA TopFacts ==
    ASSUME IInv, stack # << >>
    PROVE  Top \in SoundFrames /\ stack \in Seq(SoundFrames) /\ Once(stack)
  BY PopFrame DEF IInv, SoundStack, Top, Last

\* Entering prepare_attributes(): the list of calls walks over the same lists.
LEMMA EnterSound ==
    ASSUME tree \in Trees, SoundAttrs, NEW s, SoundStack(s),
           NEW n \in Nodes \union {NoNode}, Enter(n, s), tree' = tree
    PROVE  SoundAttrs' /\ SoundStack(stack)' /\ Walks(stack') = Walks(s)
  <1>0. SoundFrames' = SoundFrames
    BY DEF SoundFrames
  <1>1. CASE n = NoNode \/ Prepared(n)
    BY <1>0, <1>1 DEF Enter, SoundStack, SoundAttrs, Once, Walkers
  <1>2. CASE ~ (n = NoNode \/ Prepared(n))
    <2>1. n \in Nodes
      BY <1>2
    <2>2. attrs' = [attrs EXCEPT ![n] = @ \union {"DEFINED"}]
      BY <1>2, Zenon DEF Enter
    <2>3. attrs[n] \union {"DEFINED"} = SetAttribute(attrs[n], "DEFINED")
      BY DEF SetAttribute, Conflicts
    <2>4. SoundAttrs'
      <3>1. Compatible(attrs[n] \union {"DEFINED"})
        BY <2>1, <2>3, SetCompatible DEF SoundAttrs
      <3>2. attrs[n] \union {"DEFINED"} \in SUBSET AttributeSet
        BY <2>1 DEF SoundAttrs, AttributeSet
      <3> QED  BY <2>1, <2>2, <3>1, <3>2 DEF SoundAttrs
    <2>5. CASE tree.kind[n] = "program"
      <3> stack' = s
        BY <1>2, <2>5, Zenon DEF Enter
      <3> QED  BY <1>0, <2>4 DEF SoundStack, Once, Walkers
    <2>6. CASE tree.kind[n] # "program"
      <3>1. stack' = Append(s, OwnFrame(n))
        BY <1>2, <2>6, Zenon DEF Enter
      <3>2. OwnFrame(n) \in SoundFrames
        BY <2>1, <2>6 DEF OwnFrame, SoundFrames, Frames
      <3>3. ~ WalkingFrame(OwnFrame(n))
        BY DEF WalkingFrame, OwnFrame
      <3>4. Walks(stack') = Walks(s) /\ Once(stack') /\ stack' \in Seq(SoundFrames)
        BY <3>1, <3>2, <3>3, WalksPush, PushFrame DEF SoundStack
      <3> QED  BY <1>0, <2>4, <3>4 DEF SoundStack, Once, Walkers
    <2> QED  BY <2>5, <2>6
  <1> QED  BY <1>1, <1>2

LEMMA MarkSound ==
    ASSUME SoundAttrs, NEW n \in Nodes, NEW w \in AttributeSet, Mark(n, w)
    PROVE  SoundAttrs'
  <1>1. attrs[n] \subseteq AttributeSet /\ Compatible(attrs[n])
    BY DEF SoundAttrs
  <1>2. /\ SetAttribute(attrs[n], w) \subseteq AttributeSet
        /\ Compatible(SetAttribute(attrs[n], w))
    BY <1>1, SetTyped, SetCompatible
  <1> QED  BY <1>2 DEF SoundAttrs, Mark

\* The last call replaced by one that walks over the same list or over none.
LEMMA ReplaceSound ==
    ASSUME SoundStack(stack), stack # << >>, NEW g \in SoundFrames,
           WalkingFrame(g) <=> WalkingFrame(Top), g.list = Top.list
    PROVE  SoundStack(Replace(g)) /\ Walks(Replace(g)) = Walks(stack)
  BY WalksChange, ChangeFrame DEF SoundStack, Replace, Below, Top

LEMMA BelowSound ==
    ASSUME SoundStack(stack), stack # << >>
    PROVE  /\ SoundStack(Below)
           /\ ~ WalkingFrame(Top) => Walks(Below) = Walks(stack)
           /\ WalkingFrame(Top) => Walks(Below) = Walks(stack) \ {Top.list}
  BY WalksPop, PopFrame DEF SoundStack, Below, Top

\* A search pushed over the calls of s.
LEMMA SearchSound ==
    ASSUME NEW s, SoundStack(s), NEW n \in Nodes, NEW l \in Nodes,
           tree.kind[n] # "program"
    PROVE  /\ SoundStack(Append(s, SearchFrame(n, l)))
           /\ Walks(Append(s, SearchFrame(n, l))) = Walks(s)
  <1>1. SearchFrame(n, l) \in SoundFrames
    BY DEF SearchFrame, SoundFrames, Frames
  <1>2. ~ WalkingFrame(SearchFrame(n, l))
    BY DEF SearchFrame, WalkingFrame
  <1> QED  BY <1>1, <1>2, WalksPush, PushFrame DEF SoundStack

\* A stack of the next state is sound when it was in this one.
LEMMA StackPrimed ==
    ASSUME NEW s, SoundStack(s), stack' = s, tree' = tree
    PROVE  SoundStack(stack)'
  BY DEF SoundStack, SoundFrames, Once, Walkers

(***************************************************************************)
(* The actions.                                                            *)
(***************************************************************************)
LEMMA RequestSound ==
    ASSUME IInv, NEW n \in Nodes, Request(n)
    PROVE  IInv'
  BY EnterSound DEF IInv, Request

LEMMA OwnWordSound ==
    ASSUME IInv, OwnWord
    PROVE  IInv'
  <1> DEFINE w == tree.words[Top.node][Top.pos]
             g == [Top EXCEPT !.pos = @ + 1]
  <1>1. /\ stack # << >> /\ Top.stage = "own" /\ Top \in SoundFrames
        /\ tree' = tree /\ looping' = looping /\ looped' = looped
        /\ tree \in Trees /\ SoundStack(stack)
    BY TopFacts DEF OwnWord, Running, IInv
  <1>2. /\ Top \in Frames /\ Top.node \in Nodes /\ Top.list \in Nodes
        /\ Top.pos \in Nat \ {0} /\ tree.kind[Top.node] # "program"
    BY <1>1, FrameFacts
  <1>3. g \in SoundFrames /\ g.list = Top.list /\ g.stage = "own"
    BY <1>1, <1>2 DEF SoundFrames, Frames
  <1>4. SoundStack(Replace(g)) /\ Walks(Replace(g)) = Walks(stack)
    BY <1>1, <1>3, ReplaceSound DEF WalkingFrame
  <1>5. CASE w \in Literals /\ Mark(Top.node, w) /\ stack' = Replace(g)
    <2>1. SoundAttrs'
      BY <1>2, <1>5, AttributeNames, MarkSound DEF IInv
    <2> QED  BY <1>1, <1>4, <1>5, <2>1, StackPrimed DEF IInv
  <1>6. CASE /\ w \in Nodes
             /\ stack' = Append(Replace(g), SearchFrame(Top.node, w))
             /\ attrs' = attrs
    <2>1. /\ SoundStack(Append(Replace(g), SearchFrame(Top.node, w)))
          /\ Walks(Append(Replace(g), SearchFrame(Top.node, w))) = Walks(stack)
      BY <1>2, <1>4, <1>6, SearchSound
    <2>2. SoundAttrs'
      BY <1>6 DEF IInv, SoundAttrs
    <2> QED  BY <1>1, <1>6, <2>1, <2>2, StackPrimed DEF IInv
  <1> QED  BY <1>5, <1>6 DEF OwnWord

LEMMA WithoutNativeSound ==
    ASSUME NEW n, NEW S, S \subseteq AttributeSet, Compatible(S)
    PROVE  WithoutNative(n, S) \subseteq AttributeSet /\ Compatible(WithoutNative(n, S))
  BY SubsetCompatible DEF WithoutNative

LEMMA OwnDoneSound ==
    ASSUME IInv, OwnDone
    PROVE  IInv'
  <1> DEFINE n == Top.node
             g == [Top EXCEPT !.stage = "inherit"]
  <1>1. /\ stack # << >> /\ Top.stage = "own" /\ Top \in SoundFrames
        /\ tree' = tree /\ looping' = looping /\ looped' = looped
        /\ tree \in Trees /\ SoundStack(stack)
    BY TopFacts DEF OwnDone, Running, IInv
  <1>2. Top \in Frames /\ n \in Nodes /\ tree.kind[n] # "program"
    BY <1>1, FrameFacts
  <1>3. CASE /\ attrs' = [attrs EXCEPT ![n] = WithoutNative(n, @)]
             /\ stack' = Below
    <2>1. /\ WithoutNative(n, attrs[n]) \subseteq AttributeSet
          /\ Compatible(WithoutNative(n, attrs[n]))
      BY <1>2, WithoutNativeSound DEF IInv, SoundAttrs
    <2>2. SoundAttrs'
      BY <1>2, <1>3, <2>1 DEF IInv, SoundAttrs
    <2>3. SoundStack(Below) /\ Walks(Below) = Walks(stack)
      BY <1>1, BelowSound DEF WalkingFrame
    <2> QED  BY <1>1, <1>3, <2>2, <2>3, StackPrimed DEF IInv
  <1>4. CASE Enter(tree.parent[n], Replace(g))
    <2>1. g \in SoundFrames /\ g.list = Top.list /\ g.stage = "inherit"
      BY <1>1, <1>2 DEF SoundFrames, Frames
    <2>2. SoundStack(Replace(g)) /\ Walks(Replace(g)) = Walks(stack)
      BY <1>1, <2>1, ReplaceSound DEF WalkingFrame
    <2>3. tree.parent[n] \in Nodes \union {NoNode}
      BY <1>1, <1>2, TreeFacts
    <2>4. SoundAttrs' /\ SoundStack(stack)' /\ Walks(stack') = Walks(stack)
      BY <1>1, <1>4, <2>2, <2>3, EnterSound DEF IInv
    <2> QED  BY <1>1, <2>4 DEF IInv
  <1> QED  BY <1>3, <1>4, Zenon DEF OwnDone

LEMMA InheritSound ==
    ASSUME IInv, Inherit
    PROVE  IInv'
  <1> DEFINE n == Top.node
             p == tree.parent[n]
             S == Inherited(attrs[n], attrs[p], tree.kind[p])
  <1>1. /\ stack # << >> /\ Top.stage = "inherit" /\ Top \in SoundFrames
        /\ tree' = tree /\ looping' = looping /\ looped' = looped
        /\ tree \in Trees /\ SoundStack(stack)
        /\ attrs' = [attrs EXCEPT ![n] = WithoutNative(n, Inherited(@, attrs[p], tree.kind[p]))]
        /\ stack' = Below
    BY TopFacts DEF Inherit, Running, IInv
  <1>2. n \in Nodes
    BY <1>1, FrameFacts
  <1>3. S \subseteq AttributeSet /\ Compatible(S)
    BY <1>2, InheritedTyped, InheritedCompatible DEF IInv, SoundAttrs
  <1>4. WithoutNative(n, S) \subseteq AttributeSet /\ Compatible(WithoutNative(n, S))
    BY <1>3, WithoutNativeSound
  <1>5. SoundAttrs'
    BY <1>1, <1>2, <1>4 DEF IInv, SoundAttrs
  <1>6. SoundStack(Below) /\ Walks(Below) = Walks(stack)
    BY <1>1, BelowSound DEF WalkingFrame
  <1> QED  BY <1>1, <1>5, <1>6, StackPrimed DEF IInv

LEMMA CheckNameSound ==
    ASSUME IInv, CheckName
    PROVE  IInv'
  <1> DEFINE c == Head(Top.todo)
             g == [Top EXCEPT !.todo = Tail(@)]
             h == [Top EXCEPT !.stage = "found"]
  <1>1. /\ stack # << >> /\ Top.stage = "search" /\ Top \in SoundFrames
        /\ tree' = tree /\ looping' = looping /\ looped' = looped
        /\ tree \in Trees /\ SoundStack(stack) /\ Top.todo # << >>
    BY TopFacts DEF CheckName, Running, IInv
  <1>2. Top \in Frames /\ Top.todo \in Seq(Nodes) /\ Top.list \in Nodes
    BY <1>1, FrameFacts
  <1>3. c \in Nodes /\ Tail(Top.todo) \in Seq(Nodes)
    BY <1>1, <1>2, HeadTailProperties
  <1>4. /\ g \in SoundFrames /\ g.list = Top.list /\ g.stage = "search"
        /\ h \in SoundFrames /\ h.list = Top.list /\ h.stage = "found"
    BY <1>1, <1>2, <1>3 DEF SoundFrames, Frames
  <1>5. /\ SoundStack(Replace(g)) /\ Walks(Replace(g)) = Walks(stack)
        /\ SoundStack(Replace(h)) /\ Walks(Replace(h)) = Walks(stack)
    BY <1>1, <1>4, ReplaceSound DEF WalkingFrame
  <1>6. CASE Enter(c, Replace(g)) \/ Enter(Top.list, Replace(h))
    <2>1. SoundAttrs' /\ SoundStack(stack)' /\ Walks(stack') = Walks(stack)
      BY <1>1, <1>2, <1>3, <1>5, <1>6, EnterSound DEF IInv
    <2> QED  BY <1>1, <2>1 DEF IInv
  <1>7. CASE stack' = Replace(g) /\ attrs' = attrs
    <2>1. SoundAttrs'
      BY <1>7 DEF IInv, SoundAttrs
    <2> QED  BY <1>1, <1>5, <1>7, <2>1, StackPrimed DEF IInv
  <1> QED  BY <1>6, <1>7, Zenon DEF CheckName

\* The directives around a node are some of its parent's.
LEMMA AroundKids ==
    ASSUME tree \in Trees, NEW n \in Nodes, tree.kind[n] # "program",
           NEW S, tree.kids[tree.parent[n]] \in Seq(S)
    PROVE  Around(n) \in Seq(S)
  <1> DEFINE k == tree.kids[tree.parent[n]]
             o == CHOOSE i \in DOMAIN k : k[i] = n
             A == SubSeq(k, 1, o - 1)
             B == SubSeq(k, o, Len(k))
  <1>1. \E i \in DOMAIN k : k[i] = n
    BY TreeFacts DEF WellFormed
  <1>2. k \in Seq(S)
    OBVIOUS
  <1>3. o \in 1 .. Len(k)
    BY <1>1, <1>2
  <1>4. A \in Seq(S) /\ B \in Seq(S)
    <2> HIDE DEF o, k
    <2>1. /\ o - 1 \in Int /\ o \in Int /\ Len(k) \in Int
          /\ \A i \in 1 .. o - 1 : k[i] \in S
          /\ \A i \in o .. Len(k) : k[i] \in S
      BY <1>2, <1>3, ElementOfSeq
    <2> QED  BY <2>1, SubSeqProperties
  <1> HIDE DEF A, B
  <1>5. Reverse(A) \in Seq(S)
    <2>1. /\ Len(A) \in Nat
          /\ \A i \in 1 .. Len(A) : A[Len(A) - i + 1] \in S
      BY <1>4, ElementOfSeq
    <2> QED  BY <2>1 DEF Reverse
  <1>6. Reverse(A) \o B \in Seq(S)
    BY <1>4, <1>5, ConcatProperties
  <1> QED  BY <1>6, Zenon DEF Around, A, B

LEMMA AroundTyped ==
    ASSUME tree \in Trees, NEW n \in Nodes, tree.kind[n] # "program"
    PROVE  tree.parent[n] \in Nodes /\ Around(n) \in Seq(Nodes)
  <1>1. tree.parent[n] \in Nodes
    BY TreeFacts DEF WellFormed
  <1>2. tree.kids[tree.parent[n]] \in Seq(Nodes)
    BY <1>1, TreeFacts
  <1> QED  BY <1>1, <1>2, AroundKids

LEMMA SearchUpSound ==
    ASSUME IInv, SearchUp
    PROVE  IInv'
  <1> DEFINE up == tree.parent[Top.at]
             todo == IF tree.kind[up] = "list" THEN Around(Top.at) ELSE << >>
             g == [Top EXCEPT !.at = up, !.todo = todo]
  <1>1. /\ stack # << >> /\ Top.stage = "search" /\ Top \in SoundFrames
        /\ tree' = tree /\ looping' = looping /\ looped' = looped /\ attrs' = attrs
        /\ tree \in Trees /\ SoundStack(stack)
    BY TopFacts DEF SearchUp, Running, IInv
  <1>2. SoundAttrs'
    BY <1>1 DEF IInv, SoundAttrs
  <1>3. CASE stack' = Below
    <2>1. SoundStack(Below) /\ Walks(Below) = Walks(stack)
      BY <1>1, BelowSound DEF WalkingFrame
    <2> QED  BY <1>1, <1>2, <1>3, <2>1, StackPrimed DEF IInv
  <1>4. CASE tree.kind[up] # "program" /\ stack' = Replace(g)
    <2>1. Top \in Frames /\ Top.at \in Nodes /\ tree.kind[Top.at] # "program"
      BY <1>1, FrameFacts
    <2>2. up \in Nodes /\ todo \in Seq(Nodes)
      BY <1>1, <2>1, AroundTyped, EmptySeq
    <2> HIDE DEF up, todo
    <2>3. g \in SoundFrames /\ g.list = Top.list /\ g.stage = "search"
      BY <1>1, <1>4, <2>1, <2>2 DEF SoundFrames, Frames
    <2>4. SoundStack(Replace(g)) /\ Walks(Replace(g)) = Walks(stack)
      BY <1>1, <2>3, ReplaceSound DEF WalkingFrame
    <2> QED  BY <1>1, <1>2, <1>4, <2>4, StackPrimed DEF IInv
  <1> QED  BY <1>3, <1>4 DEF SearchUp

LEMMA FoundSound ==
    ASSUME IInv, Found
    PROVE  IInv'
  <1> DEFINE g == [Top EXCEPT !.stage = "list"]
  <1>1. /\ stack # << >> /\ Top.stage = "found" /\ Top \in SoundFrames
        /\ tree' = tree /\ attrs' = attrs
        /\ tree \in Trees /\ SoundStack(stack)
    BY TopFacts DEF Found, Running, IInv
  <1>2. Top \in Frames /\ Top.node \in Nodes /\ Top.list \in Nodes
    BY <1>1, FrameFacts
  <1>3. SoundAttrs'
    BY <1>1 DEF IInv, SoundAttrs
  <1>4. CASE /\ looped' = looped \union {<< Top.node, Top.list >>}
             /\ stack' = Below
             /\ looping' = looping
    <2>1. SoundStack(Below) /\ Walks(Below) = Walks(stack)
      BY <1>1, BelowSound DEF WalkingFrame
    <2> QED  BY <1>1, <1>2, <1>3, <1>4, <2>1, StackPrimed DEF IInv
  <1>5. CASE /\ Top.list \notin looping
             /\ looping' = looping \union {Top.list}
             /\ stack' = Replace(g)
             /\ looped' = looped
    <2>1. g \in SoundFrames /\ g.list = Top.list /\ WalkingFrame(g)
      BY <1>1, <1>2 DEF SoundFrames, Frames, WalkingFrame
    <2>2. g.list \notin Walks(stack) /\ ~ WalkingFrame(Top)
      BY <1>1, <1>5, <2>1 DEF IInv, WalkingFrame
    <2> HIDE DEF g
    <2>3. /\ SoundStack(Replace(g))
          /\ Walks(Replace(g)) = Walks(stack) \union {Top.list}
      BY <1>1, <2>1, <2>2, WalksStart, ChangeFrame DEF SoundStack, Replace, Below, Top
    <2> QED  BY <1>1, <1>2, <1>3, <1>5, <2>3, StackPrimed DEF IInv
  <1> QED  BY <1>4, <1>5 DEF Found

LEMMA ValueSound ==
    ASSUME IInv, Value
    PROVE  IInv'
  <1> DEFINE l == tree.items[Top.list]
             i == l[Top.pos]
             g == [Top EXCEPT !.pos = @ + 1]
             h == [Top EXCEPT !.stage = "value"]
  <1>1. /\ stack # << >> /\ Top.stage = "list" /\ Top \in SoundFrames
        /\ tree' = tree /\ looping' = looping /\ looped' = looped
        /\ tree \in Trees /\ SoundStack(stack) /\ Top.pos <= Len(l)
    BY TopFacts DEF Value, Running, IInv
  <1>2. /\ Top \in Frames /\ Top.node \in Nodes /\ Top.list \in Nodes
        /\ Top.pos \in Nat \ {0} /\ tree.kind[Top.node] # "program"
    BY <1>1, FrameFacts
  <1>3. /\ g \in SoundFrames /\ g.list = Top.list /\ g.stage = "list"
        /\ h \in SoundFrames /\ h.list = Top.list /\ h.stage = "value"
    BY <1>1, <1>2 DEF SoundFrames, Frames
  <1>4. /\ SoundStack(Replace(g)) /\ Walks(Replace(g)) = Walks(stack)
        /\ SoundStack(Replace(h)) /\ Walks(Replace(h)) = Walks(stack)
    BY <1>1, <1>3, ReplaceSound DEF WalkingFrame
  <1>5. CASE i.word \in ValueLiterals /\ Mark(Top.node, i.word) /\ stack' = Replace(g)
    <2>1. SoundAttrs'
      BY <1>2, <1>5, AttributeNames, MarkSound DEF IInv
    <2> QED  BY <1>1, <1>4, <1>5, <2>1, StackPrimed DEF IInv
  <1>6. CASE /\ i.word \in Nodes
             /\ stack' = Append(Replace(g), SearchFrame(Top.node, i.word))
             /\ attrs' = attrs
    <2>1. /\ SoundStack(Append(Replace(g), SearchFrame(Top.node, i.word)))
          /\ Walks(Append(Replace(g), SearchFrame(Top.node, i.word))) = Walks(stack)
      BY <1>2, <1>4, <1>6, SearchSound
    <2>2. SoundAttrs'
      BY <1>6 DEF IInv, SoundAttrs
    <2> QED  BY <1>1, <1>6, <2>1, <2>2, StackPrimed DEF IInv
  <1>7. CASE Enter(i.asks, Replace(h))
    <2>1. l \in Seq(Items)
      BY <1>1, <1>2, TreeFacts
    <2>2. i \in Items
      <3> HIDE DEF l
      <3> Top.pos \in 1 .. Len(l)
        BY <1>1, <1>2, <2>1, LenProperties
      <3> QED  BY <2>1, ElementOfSeq
    <2>3. i.asks \in Nodes \union {NoNode}
      BY <2>2 DEF Items
    <2>4. SoundAttrs' /\ SoundStack(stack)' /\ Walks(stack') = Walks(stack)
      BY <1>1, <1>4, <1>7, <2>3, EnterSound DEF IInv
    <2> QED  BY <1>1, <2>4 DEF IInv
  <1> QED  BY <1>5, <1>6, <1>7 DEF Value

LEMMA ValuePos ==
    ASSUME NEW q \in SoundFrames, q.stage = "value"
    PROVE  q.pos <= Len(tree.items[q.list])
  BY DEF SoundFrames

LEMMA NextValue ==
    ASSUME NEW q \in Frames
    PROVE  LET g == [q EXCEPT !.stage = "list", !.pos = @ + 1]
           IN  /\ g \in Frames /\ g.stage = "list"
               /\ g.list = q.list /\ g.node = q.node /\ g.at = q.at
  <1> DEFINE k == q.pos + 1
             h == [q EXCEPT !.stage = "list"]
             g == [q EXCEPT !.stage = "list", !.pos = @ + 1]
  <1>1. k \in Nat \ {0}
    BY DEF Frames
  <1>2. g = [h EXCEPT !.pos = k]
    OBVIOUS
  <1>3. /\ h \in Frames /\ h.stage = "list"
        /\ h.list = q.list /\ h.node = q.node /\ h.at = q.at
    BY DEF Frames
  <1> HIDE DEF k, h, g
  <1>4. /\ g \in Frames /\ g.stage = h.stage
        /\ g.list = h.list /\ g.node = h.node /\ g.at = h.at
    BY <1>1, <1>2, <1>3 DEF Frames
  <1> QED  BY <1>3, <1>4 DEF g

LEMMA EvaluatedSound ==
    ASSUME IInv, Evaluated
    PROVE  IInv'
  <1> DEFINE l == tree.items[Top.list]
             v == l[Top.pos].value
             g == [Top EXCEPT !.stage = "list", !.pos = @ + 1]
  <1>1. /\ stack # << >> /\ Top.stage = "value" /\ Top \in SoundFrames
        /\ tree' = tree /\ looping' = looping /\ looped' = looped
        /\ tree \in Trees /\ SoundStack(stack) /\ stack' = Replace(g)
    BY TopFacts DEF Evaluated, Running, IInv
  <1>2. /\ Top \in Frames /\ Top.node \in Nodes /\ Top.list \in Nodes
        /\ Top.pos \in Nat \ {0}
    BY <1>1, FrameFacts
  <1>3. Top.pos <= Len(l)
    BY <1>1, ValuePos
  <1>4. g \in SoundFrames /\ g.list = Top.list /\ g.stage = "list"
    <2>1. /\ g \in Frames /\ g.stage = "list"
          /\ g.list = Top.list /\ g.node = Top.node /\ g.at = Top.at
      BY <1>2, NextValue
    <2>2. tree.kind[Top.node] # "program" /\ tree.kind[Top.at] # "program"
      BY <1>1, FrameFacts
    <2> HIDE DEF g
    <2> QED  BY <2>1, <2>2 DEF SoundFrames
  <1>5. SoundStack(Replace(g)) /\ Walks(Replace(g)) = Walks(stack)
    BY <1>1, <1>4, ReplaceSound DEF WalkingFrame
  <1>6. SoundAttrs'
    <2>1. CASE attrs' = attrs
      BY <2>1 DEF IInv, SoundAttrs
    <2>2. CASE v # "NONE" /\ Mark(Top.node, v)
      <3>1. l \in Seq(Items)
        BY <1>1, <1>2, TreeFacts
      <3>2. l[Top.pos] \in Items
        <4> HIDE DEF l
        <4> Top.pos \in 1 .. Len(l)
          BY <1>2, <1>3, <3>1, LenProperties
        <4> QED  BY <3>1, ElementOfSeq
      <3>3. v \in {"TRUE", "FALSE", "NONE"}
        BY <3>2 DEF Items
      <3>4. v \in AttributeSet
        BY <2>2, <3>3, AttributeNames
      <3> QED  BY <1>2, <2>2, <3>4, MarkSound DEF IInv
    <2> QED  BY <2>1, <2>2, Zenon DEF Evaluated
  <1> QED  BY <1>1, <1>5, <1>6, StackPrimed DEF IInv

LEMMA ListDoneSound ==
    ASSUME IInv, ListDone
    PROVE  IInv'
  <1>1. /\ stack # << >> /\ Top.stage = "list"
        /\ tree' = tree /\ looped' = looped /\ attrs' = attrs
        /\ looping' = looping \ {Top.list} /\ stack' = Below
        /\ tree \in Trees /\ SoundStack(stack)
    BY TopFacts DEF ListDone, Running, IInv
  <1>2. SoundAttrs'
    BY <1>1 DEF IInv, SoundAttrs
  <1>3. SoundStack(Below) /\ Walks(Below) = Walks(stack) \ {Top.list}
    BY <1>1, BelowSound DEF WalkingFrame
  <1> QED  BY <1>1, <1>2, <1>3, StackPrimed DEF IInv

(***************************************************************************)
(* The theorems.                                                           *)
(***************************************************************************)
LEMMA InitSound == Init => IInv
  <1> SUFFICES ASSUME Init PROVE IInv
    OBVIOUS
  <1>1. SoundAttrs
    BY DEF Init, SoundAttrs, Compatible
  <1>2. SoundStack(stack) /\ Walks(stack) = {}
    BY EmptySeq DEF Init, SoundStack, Once, Walks, Walkers
  <1> QED  BY <1>1, <1>2 DEF Init, IInv

LEMMA StepSound ==
    ASSUME IInv, [Next]_vars
    PROVE  IInv'
  <1>1. ASSUME NEW n \in Nodes, Request(n) PROVE IInv'
    BY <1>1, RequestSound
  <1>2. CASE OwnWord
    BY <1>2, OwnWordSound
  <1>3. CASE OwnDone
    BY <1>3, OwnDoneSound
  <1>4. CASE Inherit
    BY <1>4, InheritSound
  <1>5. CASE CheckName
    BY <1>5, CheckNameSound
  <1>6. CASE SearchUp
    BY <1>6, SearchUpSound
  <1>7. CASE Found
    BY <1>7, FoundSound
  <1>8. CASE Value
    BY <1>8, ValueSound
  <1>9. CASE Evaluated
    BY <1>9, EvaluatedSound
  <1>10. CASE ListDone
    BY <1>10, ListDoneSound
  <1>11. CASE UNCHANGED vars
    BY <1>11 DEF vars, IInv, SoundAttrs, SoundStack, SoundFrames, Once, Walks, Walkers
  <1> QED
    BY <1>1, <1>2, <1>3, <1>4, <1>5, <1>6, <1>7, <1>8, <1>9, <1>10, <1>11
       DEF Next, Step

LEMMA Invariance == Spec => []IInv
  BY InitSound, StepSound, PTL DEF Spec

\* The type invariant, for any programs: the calls of prepare_attributes() and of
\* identifier_to_attrs() always are at a node, a word and a value that exist.
THEOREM AttributesTyped == Spec => []TypeOK
  <1>1. IInv => TypeOK
    <2> SUFFICES ASSUME IInv PROVE TypeOK
      OBVIOUS
    <2> SoundFrames \subseteq Frames
      BY DEF SoundFrames
    <2> stack \in Seq(Frames)
      BY DEF IInv, SoundStack
    <2> QED  BY DEF IInv, SoundAttrs, TypeOK
  <1> QED  BY <1>1, Invariance, PTL

\* No node of any program ever has two exclusive attributes, whatever the words,
\* the lists, and the order in which nodes are prepared: verify_exclusive_attributes()
\* is symmetric, and prepare_attributes() sets nothing without it.
THEOREM AttributesExclusive == Spec => []Exclusive
  <1>1. IInv => Exclusive
    BY ConflictsAreGroups DEF IInv, SoundAttrs, Compatible, Exclusive
  <1> QED  BY <1>1, Invariance, PTL

\* The flag ATTRS is set on the lists some call walks over and on no other, and no
\* list is walked over by two calls.
THEOREM AttributesLooping == Spec => []LoopingIsWalking
  <1>1. IInv => LoopingIsWalking
    <2> SUFFICES ASSUME IInv PROVE LoopingIsWalking
      OBVIOUS
    <2>1. DOMAIN stack = 1 .. Len(stack)
      BY LenProperties DEF IInv, SoundStack
    <2>2. Walkers(stack) = {j \in DOMAIN stack : Walking(j)}
      BY <2>1 DEF Walkers, WalkingFrame, Walking
    <2>3. looping = {stack[i].list : i \in {j \in DOMAIN stack : Walking(j)}}
      BY <2>2 DEF IInv, Walks
    <2>4. \A i, j \in DOMAIN stack :
            Walking(i) /\ Walking(j) /\ stack[i].list = stack[j].list => i = j
      BY <2>2 DEF IInv, SoundStack, Once
    <2> QED  BY <2>3, <2>4 DEF LoopingIsWalking
  <1> QED  BY <1>1, Invariance, PTL

(***************************************************************************)
(* Circular lists.  A call of identifier_to_attrs() for a circular list    *)
(* returns with the error reported for its node: it walks over the whole   *)
(* list, one of its names is circular too, and the call for that one       *)
(* returned with the error.  The search does find the list: what is left   *)
(* of it has the declaration, or an ancestor not reached yet has.          *)
(***************************************************************************)
Circular(n, l) == Endless(l, Visible(n))

Reported(n, L) == \E l \in Nodes : << n, l >> \in L

\* a call of identifier_to_attrs(), and not of prepare_attributes()
Identifies(g) == g.stage \in {"search", "found", "list", "value"}

ItemsBefore(l, k) == {tree.items[l][j].word : j \in {i \in DOMAIN tree.items[l] : i < k}}
WordsBefore(n, k) == {tree.words[n][j] : j \in {i \in DOMAIN tree.words[n] : i < k}}

\* the names a call went by
Passed(g) ==
    Nodes \intersect
        (IF Identifies(g) THEN ItemsBefore(g.list, g.pos) ELSE WordsBefore(g.node, g.pos))

\* The call g, when the names of H are being resolved above it.
FrameOK(g, H, L) ==
    /\ \A l \in Passed(g) \ H : Circular(g.node, l) => Reported(g.node, L)
    /\ g.stage = "search" /\ g.list \in Visible(g.node) =>
           \/ tree.parent[tree.parent[g.list]] \in Ancestors(g.at)
           \/ tree.parent[g.list] \in Range(g.todo)
    /\ g.stage \in {"search", "found"} => g.pos = 1
    /\ g.stage = "inherit" => g.pos > Len(tree.words[g.node])
    /\ g.stage = "value" => tree.items[g.list][g.pos].word \notin Nodes

ResolvedBy(g, n) == IF Identifies(g) /\ g.node = n THEN {g.list} ELSE {}

BelowOK(s, L) ==
    \A i \in 1 .. Len(s) - 1 : FrameOK(s[i], ResolvedBy(s[i + 1], s[i].node), L)

StackOK(s, L) == BelowOK(s, L) /\ (s # << >> => FrameOK(Last(s), {}, L))

Preparing(n, s) == \E i \in 1 .. Len(s) : s[i].node = n /\ ~ Identifies(s[i])

AllReported(n, L) == \A l \in Named(n) : Circular(n, l) => Reported(n, L)

PreparedOK(A, s, L) ==
    \A n \in Nodes :
        "DEFINED" \in A[n] =>
            tree.kind[n] = "program" \/ Preparing(n, s) \/ AllReported(n, L)

CInv == StackOK(stack, looped) /\ PreparedOK(attrs, stack, looped)

(***************************************************************************)
(* The tree.                                                               *)
(***************************************************************************)
LEMMA AncestorsUp ==
    ASSUME tree \in Trees, NEW n \in Nodes
    PROVE  /\ tree.parent[n] = NoNode => Ancestors(n) = {}
           /\ tree.parent[n] # NoNode =>
                Ancestors(n) \subseteq {tree.parent[n]} \union Ancestors(tree.parent[n])
  <1> DEFINE parents == {tree.parent[m] : m \in Nodes} \ {NoNode}
             Holds(C, m) == tree.parent[m] \in C \union {NoNode}
             Closed(m) == {C \in SUBSET parents : Holds(C, m) /\ \A x \in C : Holds(C, x)}
  <1>0. /\ \A m : Ancestors(m) = {x \in parents : \A C \in Closed(m) : x \in C}
        /\ parents \subseteq Nodes /\ \A m \in Nodes : tree.parent[m] \in parents \union {NoNode}
    BY TreeFacts DEF Ancestors
  <1>1. CASE tree.parent[n] = NoNode
    <2>1. {} \in Closed(n)
      BY <1>1
    <2> HIDE DEF Closed
    <2> QED  BY <1>0, <1>1, <2>1
  <1>2. CASE tree.parent[n] # NoNode
    <2>1. PICK p : p = tree.parent[n]
      OBVIOUS
    <2>2. ASSUME NEW C \in Closed(p) PROVE C \union {p} \in Closed(n)
      <3>1. C \union {p} \in SUBSET parents
        BY <1>0, <1>2, <2>1
      <3>2. \A x \in C \union {p} : tree.parent[x] \in C \union {p} \union {NoNode}
        OBVIOUS
      <3> QED  BY <2>1, <3>1, <3>2
    <2>3. ASSUME NEW x \in Ancestors(n), x # p PROVE x \in Ancestors(p)
      <3>1. x \in parents /\ \A C \in Closed(n) : x \in C
        BY <1>0
      <3>2. \A C \in Closed(p) : x \in C
        BY <2>2, <2>3, <3>1
      <3> HIDE DEF Closed, parents
      <3> QED  BY <1>0, <3>1, <3>2
    <2> QED  BY <1>2, <2>1, <2>3
  <1> QED  BY <1>1, <1>2

\* The directives around a node are all those of its parent.
LEMMA AroundAll ==
    ASSUME tree \in Trees, NEW n \in Nodes, tree.kind[n] # "program"
    PROVE  Range(tree.kids[tree.parent[n]]) \subseteq Range(Around(n))
  <1> DEFINE k == tree.kids[tree.parent[n]]
             o == CHOOSE i \in DOMAIN k : k[i] = n
             A == SubSeq(k, 1, o - 1)
             B == SubSeq(k, o, Len(k))
  <1>1. tree.parent[n] \in Nodes /\ \E i \in DOMAIN k : k[i] = n
    BY TreeFacts DEF WellFormed
  <1>2. k \in Seq(Nodes)
    BY <1>1, TreeFacts
  <1>3. o \in 1 .. Len(k) /\ Len(k) \in Nat /\ DOMAIN k = 1 .. Len(k)
    BY <1>1, <1>2
  <1> HIDE DEF o, k
  <1>4. /\ A \in Seq(Nodes) /\ Len(A) = o - 1
        /\ \A i \in 1 .. o - 1 : A[i] = k[i]
    <2>1. /\ o - 1 \in Int /\ 1 \in Int
          /\ \A i \in 1 .. o - 1 : k[i] \in Nodes
      BY <1>2, <1>3, ElementOfSeq
    <2>2. /\ A \in Seq(Nodes)
          /\ Len(A) = IF 1 <= o - 1 THEN o - 1 - 1 + 1 ELSE 0
          /\ \A i \in 1 .. o - 1 - 1 + 1 : A[i] = k[1 + i - 1]
      BY <2>1, SubSeqProperties
    <2> HIDE DEF A
    <2> QED  BY <1>3, <2>2
  <1>5. /\ B \in Seq(Nodes) /\ Len(B) = Len(k) - o + 1
        /\ \A i \in 1 .. Len(k) - o + 1 : B[i] = k[o + i - 1]
    <2>1. /\ o \in Int /\ Len(k) \in Int
          /\ \A i \in o .. Len(k) : k[i] \in Nodes
      BY <1>2, <1>3, ElementOfSeq
    <2>2. /\ B \in Seq(Nodes)
          /\ Len(B) = IF o <= Len(k) THEN Len(k) - o + 1 ELSE 0
          /\ \A i \in 1 .. Len(k) - o + 1 : B[i] = k[o + i - 1]
      BY <2>1, SubSeqProperties
    <2> HIDE DEF B
    <2> QED  BY <1>3, <2>2
  <1> HIDE DEF A, B
  <1>6. /\ Reverse(A) \in Seq(Nodes) /\ Len(Reverse(A)) = o - 1
        /\ \A i \in 1 .. o - 1 : Reverse(A)[o - i] = k[i]
    <2>1. Reverse(A) = [i \in 1 .. o - 1 |-> A[(o - 1) - i + 1]]
      BY <1>4 DEF Reverse
    <2>2. \A i \in 1 .. o - 1 : /\ (o - 1) - i + 1 = o - i
                                /\ o - i \in 1 .. o - 1
                                /\ o - (o - i) = i
      BY <1>3
    <2>3. \A i \in 1 .. o - 1 : A[i] \in Nodes
      BY <1>4, ElementOfSeq
    <2>4. o - 1 \in Nat
      BY <1>3
    <2>5. \A i \in 1 .. o - 1 : Reverse(A)[i] = A[o - i] /\ A[o - i] \in Nodes
      BY <2>1, <2>2, <2>3
    <2>6. Reverse(A) \in Seq(Nodes) /\ Len(Reverse(A)) = o - 1
      BY <2>1, <2>2, <2>3, <2>4, <2>5
    <2> QED  BY <1>4, <2>2, <2>5, <2>6
  <1>7. Around(n) = Reverse(A) \o B
    BY Zenon DEF Around, A, B, o, k
  <1>8. PICK R : R = Reverse(A)
    OBVIOUS
  <1>9. PICK Z : Z = R \o B
    OBVIOUS
  <1>10. /\ Len(Z) = Len(k) /\ DOMAIN Z = 1 .. Len(k)
         /\ \A i \in 1 .. o - 1 : Z[i] = R[i]
         /\ \A i \in o .. Len(k) : Z[i] = k[i]
    <2>1. /\ Z \in Seq(Nodes) /\ Len(Z) = Len(R) + Len(B)
          /\ \A i \in 1 .. Len(R) + Len(B) :
                Z[i] = IF i <= Len(R) THEN R[i] ELSE B[i - Len(R)]
      BY <1>5, <1>6, <1>8, <1>9, ConcatProperties
    <2>2. Len(R) = o - 1 /\ Len(R) + Len(B) = Len(k)
      <3>1. Len(R) = o - 1 /\ Len(B) = Len(k) - o + 1
        BY <1>5, <1>6, <1>8
      <3>2. o \in Nat /\ (o - 1) + (Len(k) - o + 1) = Len(k)
        BY <1>3
      <3> QED  BY <3>1, <3>2
    <2>3. \A i \in 1 .. o - 1 : i \in 1 .. Len(k) /\ i <= o - 1
      BY <1>3
    <2>4. \A i \in o .. Len(k) :
             /\ i \in 1 .. Len(k) /\ ~ (i <= o - 1)
             /\ i - (o - 1) \in 1 .. Len(k) - o + 1
             /\ o + (i - (o - 1)) - 1 = i
      BY <1>3
    <2>5. \A i \in o .. Len(k) : Z[i] = B[i - (o - 1)]
      BY <2>1, <2>2, <2>4
    <2>6. \A i \in o .. Len(k) : B[i - (o - 1)] = k[o + (i - (o - 1)) - 1]
      BY <1>5, <2>4
    <2> QED  BY <2>1, <2>2, <2>3, <2>4, <2>5, <2>6
  <1>11. ASSUME NEW i \in 1 .. Len(k) PROVE k[i] \in Range(Z)
    <2>1. CASE i \in o .. Len(k)
      BY <1>10, <2>1 DEF Range
    <2>2. CASE i \in 1 .. o - 1
      <3>1. o - i \in 1 .. o - 1 /\ o - i \in 1 .. Len(k)
        BY <1>3, <2>2
      <3>2. Z[o - i] = k[i]
        BY <1>6, <1>8, <1>10, <2>2, <3>1
      <3> QED  BY <1>10, <3>1, <3>2 DEF Range
    <2> QED  BY <1>3, <2>1, <2>2
  <1>12. Range(k) \subseteq Range(Z)
    BY <1>3, <1>11 DEF Range
  <1> QED  BY <1>7, <1>8, <1>9, <1>12 DEF k

\* What is visible is declared in a list that is an ancestor.
LEMMA VisibleFacts ==
    ASSUME tree \in Trees, NEW n \in Nodes, NEW l \in Visible(n)
    PROVE  /\ l \in Nodes /\ tree.parent[l] \in Nodes /\ tree.kind[tree.parent[l]] = "var"
           /\ tree.parent[tree.parent[l]] \in Ancestors(n)
           /\ tree.parent[tree.parent[l]] \in Nodes
           /\ tree.kind[tree.parent[tree.parent[l]]] = "list"
           /\ \E i \in DOMAIN tree.kids[tree.parent[l]] : tree.kids[tree.parent[l]][i] = l
           /\ tree.parent[l] \in Range(tree.kids[tree.parent[tree.parent[l]]])
  <1>1. /\ l \in Nodes /\ tree.kind[l] = "variable"
        /\ tree.parent[tree.parent[l]] \in Ancestors(n)
    BY DEF Visible
  <1>2. /\ WellFormed(tree) /\ \A m \in Nodes : tree.parent[m] \in Nodes \union {NoNode}
    BY TreeFacts
  <1>3. /\ tree.parent[l] \in Nodes /\ tree.kind[tree.parent[l]] = "var"
        /\ \E i \in DOMAIN tree.kids[tree.parent[l]] : tree.kids[tree.parent[l]][i] = l
    BY <1>1, <1>2 DEF WellFormed
  <1>4. PICK v : v = tree.parent[l]
    OBVIOUS
  <1>5. /\ tree.parent[v] \in Nodes /\ tree.kind[tree.parent[v]] = "list"
        /\ \E i \in DOMAIN tree.kids[tree.parent[v]] : tree.kids[tree.parent[v]][i] = v
    BY <1>2, <1>3, <1>4 DEF WellFormed
  <1> QED  BY <1>1, <1>3, <1>4, <1>5 DEF Range

\* A circular name is visible, and names another one that is circular.
LEMMA CircularFacts ==
    ASSUME NEW n, NEW l, Circular(n, l)
    PROVE  /\ l \in Visible(n)
           /\ \E m \in Names(l) : Circular(n, m)
  <1>1. PICK C \in SUBSET Visible(n) : l \in C /\ \A m \in C : Names(m) \intersect C # {}
    BY DEF Circular, Endless
  <1>2. PICK m \in Names(l) \intersect C : TRUE
    BY <1>1
  <1> QED  BY <1>1, <1>2 DEF Circular, Endless

(***************************************************************************)
(* The stack.                                                              *)
(***************************************************************************)
LEMMA FrameWeaker ==
    ASSUME NEW g, NEW H, NEW L, NEW M, FrameOK(g, {}, L), L \subseteq M
    PROVE  FrameOK(g, H, M) /\ FrameOK(g, {}, M)
  BY DEF FrameOK, Reported

\* Only the errors change.
LEMMA StackWeaker ==
    ASSUME NEW s, NEW L, NEW M, L \subseteq M
    PROVE  /\ BelowOK(s, L) => BelowOK(s, M)
           /\ StackOK(s, L) => StackOK(s, M)
  <1>1. \A g, H : FrameOK(g, H, L) => FrameOK(g, H, M)
    BY DEF FrameOK, Reported
  <1>2. BelowOK(s, L) => BelowOK(s, M)
    BY <1>1 DEF BelowOK
  <1> QED  BY <1>1, <1>2 DEF StackOK

\* The program does not change.
LEMMA SameTree ==
    ASSUME tree' = tree
    PROVE  /\ \A s, L : StackOK(s, L)' <=> StackOK(s, L)
           /\ \A A, s, L : PreparedOK(A, s, L)' <=> PreparedOK(A, s, L)
  <1>1. \A n : Ancestors(n)' = Ancestors(n)
    BY DEF Ancestors
  <1>2. \A n : Visible(n)' = Visible(n)
    BY <1>1 DEF Visible
  <1>3. \A n, l : Circular(n, l)' <=> Circular(n, l)
    <2>1. \A m : Names(m)' = Names(m)
      BY DEF Names
    <2> QED  BY <1>2, <2>1 DEF Circular, Endless
  <1>4. \A g : Passed(g)' = Passed(g)
    BY DEF Passed, ItemsBefore, WordsBefore, Identifies
  <1>5. \A g, H, L : FrameOK(g, H, L)' <=> FrameOK(g, H, L)
    <2> SUFFICES ASSUME NEW g, NEW H, NEW L
                 PROVE  FrameOK(g, H, L)' <=> FrameOK(g, H, L)
      OBVIOUS
    <2>1. (\A l \in Passed(g) \ H : Circular(g.node, l) => Reported(g.node, L))'
          <=> \A l \in Passed(g) \ H : Circular(g.node, l) => Reported(g.node, L)
      BY <1>3, <1>4 DEF Reported
    <2>2. (g.stage = "search" /\ g.list \in Visible(g.node) =>
               \/ tree.parent[tree.parent[g.list]] \in Ancestors(g.at)
               \/ tree.parent[g.list] \in Range(g.todo))'
          <=> (g.stage = "search" /\ g.list \in Visible(g.node) =>
               \/ tree.parent[tree.parent[g.list]] \in Ancestors(g.at)
               \/ tree.parent[g.list] \in Range(g.todo))
      BY <1>1, <1>2
    <2>3. /\ (g.stage = "inherit" => g.pos > Len(tree.words[g.node]))'
             <=> (g.stage = "inherit" => g.pos > Len(tree.words[g.node]))
          /\ (g.stage = "value" => tree.items[g.list][g.pos].word \notin Nodes)'
             <=> (g.stage = "value" => tree.items[g.list][g.pos].word \notin Nodes)
      OBVIOUS
    <2> QED  BY <2>1, <2>2, <2>3, Zenon DEF FrameOK
  <1>6. \A s, L : StackOK(s, L)' <=> StackOK(s, L)
    BY <1>5 DEF StackOK, BelowOK, ResolvedBy, Identifies, Last
  <1>7. \A n, L : AllReported(n, L)' <=> AllReported(n, L)
    BY <1>3 DEF AllReported, Reported, Named
  <1>8. \A A, s, L : PreparedOK(A, s, L)' <=> PreparedOK(A, s, L)
    BY <1>7 DEF PreparedOK, Preparing, Identifies
  <1> QED  BY <1>6, <1>8

LEMMA OKPush ==
    ASSUME NEW s \in Seq(Frames), NEW f \in Frames, NEW L,
           BelowOK(s, L), FrameOK(f, {}, L),
           s # << >> => FrameOK(Last(s), ResolvedBy(f, Last(s).node), L)
    PROVE  StackOK(Append(s, f), L)
  <1>0. PICK t, k : t = Append(s, f) /\ k = Len(s)
    OBVIOUS
  <1>1. /\ Len(t) = k + 1 /\ k \in Nat /\ t # << >>
        /\ \A i \in 1 .. k + 1 : t[i] = IF i = k + 1 THEN f ELSE s[i]
    BY <1>0, PushFrame
  <1>2. /\ t[k + 1] = f /\ Last(t) = f
        /\ \A i \in 1 .. k : t[i] = s[i]
    BY <1>1 DEF Last
  <1>3. ASSUME NEW i \in 1 .. k
        PROVE  FrameOK(t[i], ResolvedBy(t[i + 1], t[i].node), L)
    <2>1. CASE i = k
      <3>1. s # << >> /\ Last(s) = s[k] /\ t[i] = s[k] /\ t[i + 1] = f
        BY <1>0, <1>2, <2>1 DEF Last
      <3> QED  BY <3>1
    <2>2. CASE i # k
      <3>1. i \in 1 .. k - 1 /\ i + 1 \in 1 .. k
        BY <1>1, <2>2
      <3>2. t[i] = s[i] /\ t[i + 1] = s[i + 1]
        BY <1>2, <3>1
      <3> QED  BY <1>0, <3>1, <3>2 DEF BelowOK
    <2> QED  BY <2>1, <2>2
  <1>4. BelowOK(t, L)
    <2>1. Len(t) - 1 = k
      BY <1>1
    <2> QED  BY <1>3, <2>1 DEF BelowOK
  <1> QED  BY <1>0, <1>2, <1>4 DEF StackOK

LEMMA OKChange ==
    ASSUME NEW s \in Seq(Frames), s # << >>, NEW g \in Frames, NEW L,
           BelowOK(s, L), g.node = Last(s).node, g.list = Last(s).list,
           Identifies(g) <=> Identifies(Last(s))
    PROVE  /\ Append(Front(s), g) \in Seq(Frames) /\ Append(Front(s), g) # << >>
           /\ Last(Append(Front(s), g)) = g
           /\ BelowOK(Append(Front(s), g), L)
  <1>0. PICK t, k : t = Append(Front(s), g) /\ k = Len(s)
    OBVIOUS
  <1>1. /\ Len(t) = k /\ k \in Nat \ {0} /\ t \in Seq(Frames)
        /\ \A i \in 1 .. k : t[i] = IF i = k THEN g ELSE s[i]
    BY <1>0, ChangeFrame, PopFrame
  <1>2. t # << >> /\ Last(t) = g /\ Last(s) = s[k]
    BY <1>0, <1>1 DEF Last
  <1>3. ASSUME NEW i \in 1 .. k - 1
        PROVE  FrameOK(t[i], ResolvedBy(t[i + 1], t[i].node), L)
    <2>1. /\ i \in 1 .. k /\ i # k /\ i + 1 \in 1 .. k
          /\ FrameOK(s[i], ResolvedBy(s[i + 1], s[i].node), L)
      BY <1>0, <1>1 DEF BelowOK
    <2>2. ResolvedBy(t[i + 1], s[i].node) = ResolvedBy(s[i + 1], s[i].node)
      BY <1>1, <1>2, <2>1 DEF ResolvedBy
    <2> QED  BY <1>1, <2>1, <2>2
  <1>4. BelowOK(t, L)
    BY <1>1, <1>3 DEF BelowOK
  <1> QED  BY <1>0, <1>1, <1>2, <1>4

LEMMA OKPop ==
    ASSUME NEW s \in Seq(Frames), s # << >>, NEW L, StackOK(s, L),
           Identifies(Last(s)) /\ Circular(Last(s).node, Last(s).list) =>
               Reported(Last(s).node, L)
    PROVE  Front(s) \in Seq(Frames) /\ StackOK(Front(s), L)
  <1>0. PICK t, k : t = Front(s) /\ k = Len(s) - 1
    OBVIOUS
  <1>1. /\ Len(t) = k /\ k \in Nat /\ Len(s) = k + 1 /\ t \in Seq(Frames)
        /\ \A i \in 1 .. k : t[i] = s[i]
    BY <1>0, PopFrame
  <1>2. \A i \in 1 .. k : FrameOK(s[i], ResolvedBy(s[i + 1], s[i].node), L)
    BY <1>0 DEF StackOK, BelowOK
  <1>3. BelowOK(t, L)
    <2>1. \A i \in 1 .. k - 1 : i \in 1 .. k /\ i + 1 \in 1 .. k
      BY <1>1
    <2>2. \A i \in 1 .. k - 1 : FrameOK(t[i], ResolvedBy(t[i + 1], t[i].node), L)
      BY <1>1, <1>2, <2>1
    <2> QED  BY <1>1, <2>2 DEF BelowOK
  <1>4. ASSUME t # << >> PROVE FrameOK(Last(t), {}, L)
    <2>1. k \in 1 .. k /\ Last(t) = s[k] /\ Last(s) = s[k + 1]
      BY <1>1, <1>4 DEF Last
    <2>2. FrameOK(s[k], ResolvedBy(s[k + 1], s[k].node), L)
      BY <1>2, <2>1
    <2>3. ASSUME NEW l \in ResolvedBy(s[k + 1], s[k].node), Circular(s[k].node, l)
          PROVE  Reported(s[k].node, L)
      BY <2>1, <2>3 DEF ResolvedBy
    <2>4. FrameOK(s[k], {}, L)
      BY <2>2, <2>3 DEF FrameOK
    <2> QED  BY <2>1, <2>4
  <1> QED  BY <1>0, <1>1, <1>3, <1>4 DEF StackOK

LEMMA PreparingPush ==
    ASSUME NEW s \in Seq(Frames), NEW f \in Frames, NEW n
    PROVE  /\ Preparing(n, s) => Preparing(n, Append(s, f))
           /\ f.node = n /\ ~ Identifies(f) => Preparing(n, Append(s, f))
  <1>0. PICK t, k : t = Append(s, f) /\ k = Len(s)
    OBVIOUS
  <1>1. /\ Len(t) = k + 1 /\ k \in Nat
        /\ \A i \in 1 .. k + 1 : t[i] = IF i = k + 1 THEN f ELSE s[i]
    BY <1>0, PushFrame
  <1>2. /\ t[k + 1] = f /\ k + 1 \in 1 .. Len(t)
        /\ \A i \in 1 .. k : t[i] = s[i] /\ i \in 1 .. Len(t)
    BY <1>1
  <1> QED  BY <1>0, <1>2 DEF Preparing

LEMMA PreparingChange ==
    ASSUME NEW s \in Seq(Frames), s # << >>, NEW g \in Frames, NEW n,
           g.node = Last(s).node, Identifies(g) <=> Identifies(Last(s))
    PROVE  Preparing(n, s) => Preparing(n, Append(Front(s), g))
  <1>0. PICK t, k : t = Append(Front(s), g) /\ k = Len(s)
    OBVIOUS
  <1>1. /\ Len(t) = k /\ Last(s) = s[k]
        /\ \A i \in 1 .. k : t[i] = IF i = k THEN g ELSE s[i]
    BY <1>0, ChangeFrame DEF Last
  <1>2. \A i \in 1 .. k : t[i].node = s[i].node /\ (Identifies(t[i]) <=> Identifies(s[i]))
    BY <1>1
  <1> QED  BY <1>0, <1>1, <1>2 DEF Preparing

LEMMA PreparingPop ==
    ASSUME NEW s \in Seq(Frames), s # << >>, NEW n
    PROVE  Preparing(n, s) =>
             Preparing(n, Front(s)) \/ (~ Identifies(Last(s)) /\ n = Last(s).node)
  <1>0. PICK t, k : t = Front(s) /\ k = Len(s) - 1
    OBVIOUS
  <1>1. /\ Len(t) = k /\ k \in Nat /\ Len(s) = k + 1 /\ Last(s) = s[k + 1]
        /\ \A i \in 1 .. k : t[i] = s[i]
    BY <1>0, PopFrame DEF Last
  <1>2. \A i \in 1 .. Len(s) : i \in 1 .. k \/ i = k + 1
    BY <1>1
  <1> QED  BY <1>0, <1>1, <1>2 DEF Preparing

(***************************************************************************)
(* The steps.                                                              *)
(***************************************************************************)
LEMMA CallFacts ==
    ASSUME IInv, CInv, stack # << >>
    PROVE  /\ tree \in Trees /\ Top \in Frames /\ stack \in Seq(Frames)
           /\ Top.node \in Nodes /\ Top.list \in Nodes /\ Top.at \in Nodes
           /\ Top.pos \in Nat \ {0} /\ Top.todo \in Seq(Nodes)
           /\ tree.kind[Top.at] # "program"
           /\ FrameOK(Top, {}, looped) /\ BelowOK(stack, looped)
  <1>1. Top \in SoundFrames
    BY TopFacts
  <1>2. SoundFrames \subseteq Frames
    BY DEF SoundFrames
  <1>3. stack \in Seq(Frames)
    BY <1>2 DEF IInv, SoundStack
  <1> QED  BY <1>1, <1>3, FrameFacts DEF IInv, CInv, StackOK, Top

\* prepare_attributes(n) is called, under the calls of s.
LEMMA EnterOK ==
    ASSUME tree \in Trees, tree' = tree, attrs \in [Nodes -> SUBSET AttributeSet],
           NEW s \in Seq(Frames), NEW L, looped' = L,
           StackOK(s, L), PreparedOK(attrs, s, L),
           NEW n \in Nodes \union {NoNode}, Enter(n, s)
    PROVE  CInv'
  <1>1. CASE n = NoNode \/ Prepared(n)
    BY <1>1, SameTree DEF Enter, CInv
  <1>2. CASE ~ (n = NoNode \/ Prepared(n))
    <2>1. n \in Nodes /\ attrs' = [attrs EXCEPT ![n] = @ \union {"DEFINED"}]
      BY <1>2, Zenon DEF Enter
    <2>2. \A m \in Nodes : m # n => attrs'[m] = attrs[m]
      BY <2>1
    <2>3. CASE tree.kind[n] = "program"
      <3>1. stack' = s
        BY <1>2, <2>3, Zenon DEF Enter
      <3>2. PreparedOK(attrs', s, L)
        BY <2>2, <2>3 DEF PreparedOK
      <3> QED  BY <3>1, <3>2, SameTree DEF CInv
    <2>4. CASE tree.kind[n] # "program"
      <3>1. PICK f : f = OwnFrame(n)
        OBVIOUS
      <3>2. stack' = Append(s, f)
        BY <1>2, <2>4, <3>1, Zenon DEF Enter
      <3>3. /\ f \in Frames /\ f.node = n /\ f.stage = "own" /\ f.pos = 1
            /\ ~ Identifies(f)
        BY <2>1, <3>1 DEF OwnFrame, Frames, Identifies
      <3>4. FrameOK(f, {}, L)
        <4>1. tree.words[n] \in Seq(Words)
          BY <2>1, TreeFacts
        <4>2. WordsBefore(n, 1) = {}
          BY <4>1 DEF WordsBefore
        <4> QED  BY <3>3, <4>2 DEF FrameOK, Passed
      <3>5. StackOK(Append(s, f), L)
        <4>1. BelowOK(s, L) /\ (s # << >> => FrameOK(Last(s), {}, L))
          BY DEF StackOK
        <4>2. s # << >> => FrameOK(Last(s), ResolvedBy(f, Last(s).node), L)
          BY <4>1, FrameWeaker
        <4> QED  BY <3>3, <3>4, <4>1, <4>2, OKPush
      <3>6. PreparedOK(attrs', Append(s, f), L)
        <4>1. /\ \A m : Preparing(m, s) => Preparing(m, Append(s, f))
              /\ Preparing(n, Append(s, f))
          BY <3>3, PreparingPush
        <4> QED  BY <2>2, <4>1 DEF PreparedOK
      <3> QED  BY <3>2, <3>5, <3>6, SameTree DEF CInv
    <2> QED  BY <2>3, <2>4
  <1> QED  BY <1>1, <1>2

\* A search is pushed over the innermost call, changed into g.
LEMMA SearchOK ==
    ASSUME tree \in Trees, NEW s \in Seq(Frames), s # << >>, NEW L,
           NEW l \in Nodes, NEW n \in Nodes, n = Last(s).node,
           BelowOK(s, L), FrameOK(Last(s), {l}, L)
    PROVE  StackOK(Append(s, SearchFrame(n, l)), L)
  <1>1. PICK f : f = SearchFrame(n, l)
    OBVIOUS
  <1>2. /\ f \in Frames /\ f.node = n /\ f.list = l /\ f.at = n /\ f.stage = "search"
        /\ f.pos = 1 /\ f.todo = << >> /\ Identifies(f)
    BY <1>1 DEF SearchFrame, Frames, Identifies
  <1>3. FrameOK(f, {}, L)
    <2>1. tree.items[l] \in Seq(Items)
      BY TreeFacts
    <2>2. ItemsBefore(l, 1) = {}
      BY <2>1 DEF ItemsBefore
    <2>3. l \in Visible(n) => tree.parent[tree.parent[l]] \in Ancestors(n)
      BY DEF Visible
    <2> QED  BY <1>2, <2>2, <2>3 DEF FrameOK, Passed
  <1>4. FrameOK(Last(s), ResolvedBy(f, Last(s).node), L)
    BY <1>2 DEF ResolvedBy
  <1> QED  BY <1>1, <1>2, <1>3, <1>4, OKPush

\* A word that is an attribute does not make the node prepared.
LEMMA MarkOK ==
    ASSUME attrs \in [Nodes -> SUBSET AttributeSet], NEW n \in Nodes,
           NEW w, w # "DEFINED", Mark(n, w), NEW s, NEW L, PreparedOK(attrs, s, L)
    PROVE  PreparedOK(attrs', s, L)
  <1>1. "DEFINED" \in SetAttribute(attrs[n], w) => "DEFINED" \in attrs[n]
    BY DEF SetAttribute
  <1>2. \A m \in Nodes : "DEFINED" \in attrs'[m] => "DEFINED" \in attrs[m]
    BY <1>1 DEF Mark
  <1> QED  BY <1>2 DEF PreparedOK

LEMMA NotDefined ==
    /\ "DEFINED" \notin Literals
    /\ "DEFINED" \notin ValueLiterals
    /\ Literals \intersect Nodes = {}
    /\ ValueLiterals \intersect Nodes = {}
    /\ "EXPRESSION" \notin Nodes
  <1>1. ValueLiterals \subseteq Literals /\ "DEFINED" \notin Literals
    BY DEF ValueLiterals, Literals, Identifiers, Keywords
  <1> QED  BY <1>1, WordsAssumption

\* The innermost call is changed into g: what has to be shown of g.
LEMMA ReplaceOK ==
    ASSUME IInv, CInv, stack # << >>, NEW g \in Frames,
           g.node = Top.node, g.list = Top.list, Identifies(g) <=> Identifies(Top)
    PROVE  /\ Replace(g) \in Seq(Frames) /\ Replace(g) # << >> /\ Last(Replace(g)) = g
           /\ BelowOK(Replace(g), looped)
           /\ FrameOK(g, {}, looped) => StackOK(Replace(g), looped)
           /\ PreparedOK(attrs, Replace(g), looped)
  <1>1. stack \in Seq(Frames) /\ BelowOK(stack, looped)
    BY CallFacts
  <1>2. /\ Replace(g) \in Seq(Frames) /\ Replace(g) # << >> /\ Last(Replace(g)) = g
        /\ BelowOK(Replace(g), looped)
    BY <1>1, OKChange DEF Replace, Below, Top
  <1>3. \A n : Preparing(n, stack) => Preparing(n, Replace(g))
    BY <1>1, PreparingChange DEF Replace, Below, Top
  <1>4. PreparedOK(attrs, Replace(g), looped)
    BY <1>3 DEF CInv, PreparedOK
  <1> QED  BY <1>2, <1>4 DEF StackOK

\* The innermost call returns.
LEMMA BelowReturns ==
    ASSUME IInv, CInv, stack # << >>, NEW L, looped \subseteq L,
           Identifies(Top) /\ Circular(Top.node, Top.list) => Reported(Top.node, L),
           ~ Identifies(Top) => AllReported(Top.node, L),
           NEW A, \A m \in Nodes :
                      m # Top.node \/ Identifies(Top) =>
                          ("DEFINED" \in A[m] => "DEFINED" \in attrs[m])
    PROVE  StackOK(Below, L) /\ PreparedOK(A, Below, L)
  <1>1. stack \in Seq(Frames)
    BY CallFacts
  <1>2. StackOK(stack, L)
    BY StackWeaker DEF CInv
  <1>3. StackOK(Below, L)
    BY <1>1, <1>2, OKPop DEF Below, Top
  <1>4. \A n : Preparing(n, stack) =>
                 Preparing(n, Below) \/ (~ Identifies(Top) /\ n = Top.node)
    BY <1>1, PreparingPop DEF Below, Top
  <1>5. \A n : AllReported(n, looped) => AllReported(n, L)
    BY DEF AllReported, Reported
  <1>6. PreparedOK(A, Below, L)
    BY <1>4, <1>5 DEF CInv, PreparedOK
  <1> QED  BY <1>3, <1>6

\* What a call went by, one place further and at the end.
LEMMA PassedNext ==
    ASSUME NEW l \in Nodes, NEW k \in Nat, tree \in Trees
    PROVE  /\ k \in DOMAIN tree.items[l] =>
                ItemsBefore(l, k + 1) = ItemsBefore(l, k) \union {tree.items[l][k].word}
           /\ k \in DOMAIN tree.words[l] =>
                WordsBefore(l, k + 1) = WordsBefore(l, k) \union {tree.words[l][k]}
  <1>1. /\ tree.items[l] \in Seq(Items) /\ DOMAIN tree.items[l] = 1 .. Len(tree.items[l])
        /\ tree.words[l] \in Seq(Words) /\ DOMAIN tree.words[l] = 1 .. Len(tree.words[l])
    BY TreeFacts
  <1>2. \A i \in Nat : i < k + 1 <=> i < k \/ i = k
    OBVIOUS
  <1>3. (DOMAIN tree.items[l]) \subseteq Nat /\ (DOMAIN tree.words[l]) \subseteq Nat
    BY <1>1
  <1> QED  BY <1>2, <1>3 DEF ItemsBefore, WordsBefore

LEMMA PassedAll ==
    ASSUME NEW l \in Nodes, NEW k \in Nat, tree \in Trees
    PROVE  /\ k > Len(tree.items[l]) => Nodes \intersect ItemsBefore(l, k) = Names(l)
           /\ k > Len(tree.words[l]) => Nodes \intersect WordsBefore(l, k) = Named(l)
  <1>1. /\ tree.items[l] \in Seq(Items) /\ DOMAIN tree.items[l] = 1 .. Len(tree.items[l])
        /\ Len(tree.items[l]) \in Nat
        /\ tree.words[l] \in Seq(Words) /\ DOMAIN tree.words[l] = 1 .. Len(tree.words[l])
        /\ Len(tree.words[l]) \in Nat
    BY TreeFacts
  <1>2. /\ k > Len(tree.items[l]) => \A i \in DOMAIN tree.items[l] : i < k
        /\ k > Len(tree.words[l]) => \A i \in DOMAIN tree.words[l] : i < k
    BY <1>1
  <1> QED  BY <1>2 DEF ItemsBefore, WordsBefore, Names, Named

\* The next state satisfies CInv when its stack and attributes, computed in this
\* one, do.
LEMMA NextOK ==
    ASSUME tree' = tree, NEW s, NEW A, NEW L, stack' = s, attrs' = A, looped' = L,
           StackOK(s, L), PreparedOK(A, s, L)
    PROVE  CInv'
  BY SameTree DEF CInv

LEMMA RequestCircular ==
    ASSUME IInv, CInv, NEW n \in Nodes, Request(n)
    PROVE  CInv'
  <1>1. /\ tree \in Trees /\ tree' = tree /\ looped' = looped
        /\ attrs \in [Nodes -> SUBSET AttributeSet]
        /\ stack = << >> /\ Enter(n, stack)
    BY DEF IInv, SoundAttrs, Request
  <1>2. stack \in Seq(Frames)
    BY <1>1, EmptySeq
  <1> QED  BY <1>1, <1>2, EnterOK DEF CInv

\* The innermost call goes by one more name, or word, w.
LEMMA PassOne ==
    ASSUME IInv, CInv, stack # << >>, Top.stage \in {"own", "list"},
           NEW w, NEW g, g = [Top EXCEPT !.pos = @ + 1],
           Top.stage = "own" => /\ Top.pos <= Len(tree.words[Top.node])
                                /\ w = tree.words[Top.node][Top.pos],
           Top.stage = "list" => /\ Top.pos <= Len(tree.items[Top.list])
                                 /\ w = tree.items[Top.list][Top.pos].word
    PROVE  /\ g \in Frames /\ g.node = Top.node /\ g.list = Top.list /\ g.stage = Top.stage
           /\ Identifies(g) <=> Identifies(Top)
           /\ FrameOK(g, {w}, looped)
           /\ w \notin Nodes => FrameOK(g, {}, looped)
  <1>1. /\ tree \in Trees /\ Top \in Frames /\ FrameOK(Top, {}, looped)
        /\ Top.node \in Nodes /\ Top.list \in Nodes /\ Top.pos \in Nat \ {0}
    BY CallFacts
  <1>2. /\ g \in Frames /\ g.node = Top.node /\ g.list = Top.list
        /\ g.stage = Top.stage /\ g.pos = Top.pos + 1
    BY <1>1 DEF Frames
  <1>3. Identifies(g) <=> Identifies(Top)
    BY <1>2 DEF Identifies
  <1>4. Passed(g) = Passed(Top) \union (Nodes \intersect {w})
    <2>1. CASE Top.stage = "own"
      <3>1. tree.words[Top.node] \in Seq(Words)
        BY <1>1, TreeFacts
      <3>2. Top.pos \in DOMAIN tree.words[Top.node]
        BY <1>1, <2>1, <3>1
      <3>3. WordsBefore(Top.node, Top.pos + 1) = WordsBefore(Top.node, Top.pos) \union {w}
        BY <1>1, <2>1, <3>2, PassedNext
      <3>4. ~ Identifies(Top) /\ ~ Identifies(g)
        BY <1>3, <2>1 DEF Identifies
      <3> QED  BY <1>2, <3>3, <3>4 DEF Passed
    <2>2. CASE Top.stage = "list"
      <3>1. tree.items[Top.list] \in Seq(Items)
        BY <1>1, TreeFacts
      <3>2. Top.pos \in DOMAIN tree.items[Top.list]
        BY <1>1, <2>2, <3>1
      <3>3. ItemsBefore(Top.list, Top.pos + 1) = ItemsBefore(Top.list, Top.pos) \union {w}
        BY <1>1, <2>2, <3>2, PassedNext
      <3>4. Identifies(Top) /\ Identifies(g)
        BY <1>3, <2>2 DEF Identifies
      <3> QED  BY <1>2, <3>3, <3>4 DEF Passed
    <2> QED  BY <2>1, <2>2
  <1>5. \A H : Passed(g) \ (H \union {w}) \subseteq Passed(Top)
    BY <1>4
  <1>6. FrameOK(g, {w}, looped)
    BY <1>1, <1>2, <1>5 DEF FrameOK
  <1>7. w \notin Nodes => Passed(g) = Passed(Top)
    BY <1>4
  <1>8. w \notin Nodes => FrameOK(g, {}, looped)
    BY <1>1, <1>2, <1>7 DEF FrameOK
  <1> QED  BY <1>2, <1>3, <1>6, <1>8

\* The next word, or the next value, when it is an attribute.
LEMMA LiteralOK ==
    ASSUME IInv, CInv, stack # << >>, tree' = tree, looped' = looped,
           NEW g \in Frames, stack' = Replace(g), FrameOK(g, {}, looped),
           g.node = Top.node, g.list = Top.list, Identifies(g) <=> Identifies(Top),
           NEW w, w # "DEFINED", Mark(Top.node, w) \/ attrs' = attrs
    PROVE  CInv'
  <1>1. PICK s : s = Replace(g)
    OBVIOUS
  <1>2. StackOK(s, looped) /\ PreparedOK(attrs, s, looped)
    BY <1>1, ReplaceOK
  <1>3. Top.node \in Nodes /\ attrs \in [Nodes -> SUBSET AttributeSet]
    BY CallFacts DEF IInv, SoundAttrs
  <1>4. PreparedOK(attrs', s, looped)
    BY <1>2, <1>3, MarkOK
  <1> QED  BY <1>1, <1>2, <1>4, NextOK

\* The next word, or the next value, when it is a name.
LEMMA NameOK ==
    ASSUME IInv, CInv, stack # << >>, tree' = tree, looped' = looped, attrs' = attrs,
           NEW g \in Frames, NEW w \in Nodes,
           stack' = Append(Replace(g), SearchFrame(Top.node, w)),
           FrameOK(g, {w}, looped),
           g.node = Top.node, g.list = Top.list, Identifies(g) <=> Identifies(Top)
    PROVE  CInv'
  <1>1. PICK s, n : s = Replace(g) /\ n = Top.node
    OBVIOUS
  <1>2. /\ s \in Seq(Frames) /\ s # << >> /\ Last(s) = g
        /\ BelowOK(s, looped) /\ PreparedOK(attrs, s, looped)
    BY <1>1, ReplaceOK
  <1>3. PICK t : t = Append(s, SearchFrame(n, w))
    OBVIOUS
  <1>4. StackOK(t, looped)
    BY <1>1, <1>2, <1>3, SearchOK, CallFacts
  <1>5. SearchFrame(n, w) \in Frames
    BY <1>1, CallFacts DEF SearchFrame, Frames
  <1>6. \A m : Preparing(m, s) => Preparing(m, t)
    BY <1>2, <1>3, <1>5, PreparingPush
  <1>7. PreparedOK(attrs, t, looped)
    BY <1>2, <1>6 DEF PreparedOK
  <1> QED  BY <1>1, <1>3, <1>4, <1>7, NextOK

LEMMA OwnWordCircular ==
    ASSUME IInv, CInv, OwnWord
    PROVE  CInv'
  <1>1. PICK g, w : /\ g = [Top EXCEPT !.pos = @ + 1]
                    /\ w = tree.words[Top.node][Top.pos]
    OBVIOUS
  <1>2. /\ stack # << >> /\ Top.stage = "own" /\ tree' = tree /\ looped' = looped
        /\ Top.pos <= Len(tree.words[Top.node])
    BY DEF OwnWord, Running
  <1>3. /\ g \in Frames /\ g.node = Top.node /\ g.list = Top.list
        /\ Identifies(g) <=> Identifies(Top)
        /\ FrameOK(g, {w}, looped)
        /\ w \notin Nodes => FrameOK(g, {}, looped)
    BY <1>1, <1>2, PassOne
  <1>4. CASE w \in Literals /\ Mark(Top.node, w) /\ stack' = Replace(g)
    <2>1. w # "DEFINED" /\ w \notin Nodes
      BY <1>4, NotDefined
    <2> QED  BY <1>2, <1>3, <1>4, <2>1, LiteralOK
  <1>5. CASE /\ w \in Nodes
             /\ stack' = Append(Replace(g), SearchFrame(Top.node, w))
             /\ attrs' = attrs
    BY <1>2, <1>3, <1>5, NameOK
  <1> QED  BY <1>1, <1>4, <1>5 DEF OwnWord

\* The innermost call is changed into g and asks for the attributes of n.
LEMMA AskOK ==
    ASSUME IInv, CInv, stack # << >>, tree' = tree, looped' = looped,
           NEW g \in Frames, FrameOK(g, {}, looped),
           g.node = Top.node, g.list = Top.list, Identifies(g) <=> Identifies(Top),
           NEW n \in Nodes \union {NoNode}, Enter(n, Replace(g))
    PROVE  CInv'
  <1>1. PICK s : s = Replace(g)
    OBVIOUS
  <1>2. s \in Seq(Frames) /\ StackOK(s, looped) /\ PreparedOK(attrs, s, looped)
    BY <1>1, ReplaceOK
  <1>3. tree \in Trees /\ attrs \in [Nodes -> SUBSET AttributeSet] /\ Enter(n, s)
    BY <1>1 DEF IInv, SoundAttrs
  <1> QED  BY <1>2, <1>3, EnterOK

\* prepare_attributes() went over all the words: the error is reported for its
\* node if one of them is circular.
LEMMA WordsReported ==
    ASSUME IInv, CInv, stack # << >>, ~ Identifies(Top),
           Top.pos > Len(tree.words[Top.node])
    PROVE  AllReported(Top.node, looped)
  <1>1. /\ tree \in Trees /\ Top.node \in Nodes /\ Top.pos \in Nat
        /\ FrameOK(Top, {}, looped)
    BY CallFacts
  <1>2. Passed(Top) = Named(Top.node)
    BY <1>1, PassedAll DEF Passed
  <1> QED  BY <1>1, <1>2 DEF AllReported, FrameOK

\* prepare_attributes() returns, with new attributes for its node.
LEMMA ReturnOK ==
    ASSUME IInv, CInv, stack # << >>, ~ Identifies(Top),
           Top.pos > Len(tree.words[Top.node]),
           tree' = tree, looped' = looped, stack' = Below,
           NEW S, attrs' = [attrs EXCEPT ![Top.node] = S]
    PROVE  CInv'
  <1>1. PICK n, s, A : n = Top.node /\ s = Below /\ A = attrs'
    OBVIOUS
  <1>2. AllReported(n, looped) /\ attrs \in [Nodes -> SUBSET AttributeSet]
    BY <1>1, WordsReported DEF IInv, SoundAttrs
  <1>3. \A m \in Nodes : m # n => A[m] = attrs[m]
    BY <1>1, <1>2
  <1>4. StackOK(s, looped) /\ PreparedOK(A, s, looped)
    BY <1>1, <1>2, <1>3, BelowReturns
  <1> QED  BY <1>1, <1>4, NextOK

LEMMA OwnDoneCircular ==
    ASSUME IInv, CInv, OwnDone
    PROVE  CInv'
  <1>1. PICK g, n : g = [Top EXCEPT !.stage = "inherit"] /\ n = Top.node
    OBVIOUS
  <1>2. /\ stack # << >> /\ Top.stage = "own" /\ tree' = tree /\ looped' = looped
        /\ Top.pos > Len(tree.words[n]) /\ ~ Identifies(Top)
    BY <1>1 DEF OwnDone, Running, Identifies
  <1>3. CASE /\ attrs' = [attrs EXCEPT ![n] = WithoutNative(n, @)]
             /\ stack' = Below
    <2>1. PICK S : S = WithoutNative(n, attrs[n])
      OBVIOUS
    <2>2. attrs' = [attrs EXCEPT ![n] = S]
      BY <1>3, <2>1
    <2> QED  BY <1>1, <1>2, <1>3, <2>2, ReturnOK
  <1>4. CASE Enter(tree.parent[n], Replace(g))
    <2>1. Top \in Frames /\ n \in Nodes /\ tree \in Trees /\ FrameOK(Top, {}, looped)
      BY <1>1, <1>2, CallFacts
    <2>2. /\ g \in Frames /\ g.node = Top.node /\ g.list = Top.list /\ g.pos = Top.pos
          /\ g.stage = "inherit" /\ ~ Identifies(g)
      BY <1>1, <2>1 DEF Frames, Identifies
    <2>3. Passed(g) = Passed(Top)
      BY <1>2, <2>2 DEF Passed
    <2>4. FrameOK(g, {}, looped)
      BY <1>1, <1>2, <2>1, <2>2, <2>3 DEF FrameOK
    <2>5. tree.parent[n] \in Nodes \union {NoNode}
      BY <2>1, TreeFacts
    <2> QED  BY <1>2, <1>4, <2>2, <2>4, <2>5, AskOK
  <1> QED  BY <1>1, <1>3, <1>4, Zenon DEF OwnDone

LEMMA InheritCircular ==
    ASSUME IInv, CInv, Inherit
    PROVE  CInv'
  <1>1. PICK n, p : n = Top.node /\ p = tree.parent[n]
    OBVIOUS
  <1>2. /\ stack # << >> /\ Top.stage = "inherit" /\ tree' = tree /\ looped' = looped
        /\ stack' = Below /\ ~ Identifies(Top)
    BY DEF Inherit, Running, Identifies
  <1>3. PICK S : S = WithoutNative(n, Inherited(attrs[n], attrs[p], tree.kind[p]))
    OBVIOUS
  <1>4. attrs' = [attrs EXCEPT ![Top.node] = S]
    BY <1>1, <1>3 DEF Inherit
  <1>5. Top.pos > Len(tree.words[Top.node])
    BY <1>2, CallFacts DEF FrameOK
  <1> QED  BY <1>2, <1>4, <1>5, ReturnOK

\* A call of identifier_to_attrs() returns.
LEMMA IdentifiedOK ==
    ASSUME IInv, CInv, stack # << >>, Identifies(Top),
           tree' = tree, attrs' = attrs, stack' = Below, looped \subseteq looped',
           Circular(Top.node, Top.list) => Reported(Top.node, looped')
    PROVE  CInv'
  <1>1. PICK s, A, L : s = Below /\ A = attrs /\ L = looped'
    OBVIOUS
  <1>2. StackOK(s, L) /\ PreparedOK(A, s, L)
    BY <1>1, BelowReturns
  <1> QED  BY <1>1, <1>2, NextOK

LEMMA CheckNameCircular ==
    ASSUME IInv, CInv, CheckName
    PROVE  CInv'
  <1>1. PICK q, c, l : q = Top /\ c = Head(q.todo) /\ l = q.list
    OBVIOUS
  <1>2. PICK g, h : /\ g = [q EXCEPT !.todo = Tail(@)]
                    /\ h = [q EXCEPT !.stage = "found"]
    OBVIOUS
  <1>3. /\ stack # << >> /\ q.stage = "search" /\ q.todo # << >>
        /\ tree' = tree /\ looped' = looped /\ Identifies(q)
    BY <1>1 DEF CheckName, Running, Identifies
  <1>4. /\ q \in Frames /\ q.node \in Nodes /\ l \in Nodes /\ q.todo \in Seq(Nodes)
        /\ tree \in Trees /\ FrameOK(q, {}, looped)
    BY <1>1, <1>3, CallFacts
  <1>5. /\ c \in Nodes /\ Tail(q.todo) \in Seq(Nodes)
        /\ Range(q.todo) \subseteq {c} \union Range(Tail(q.todo))
    <2>1. c \in Nodes /\ Tail(q.todo) \in Seq(Nodes)
      BY <1>1, <1>3, <1>4, HeadTailProperties
    <2>2. /\ Len(Tail(q.todo)) = Len(q.todo) - 1 /\ Len(q.todo) \in Nat \ {0}
          /\ DOMAIN q.todo = 1 .. Len(q.todo) /\ c = q.todo[1]
          /\ \A i \in 1 .. Len(Tail(q.todo)) : Tail(q.todo)[i] = q.todo[i + 1]
      BY <1>1, <1>3, <1>4, HeadTailProperties
    <2>3. PICK t : t = Tail(q.todo)
      OBVIOUS
    <2>4. ASSUME NEW i \in DOMAIN q.todo, i # 1 PROVE q.todo[i] \in Range(t)
      <3>1. i - 1 \in 1 .. Len(t) /\ i - 1 + 1 = i
        BY <2>2, <2>3, <2>4
      <3>2. t[i - 1] = q.todo[i] /\ i - 1 \in DOMAIN t
        BY <2>1, <2>2, <2>3, <3>1
      <3> QED  BY <3>2 DEF Range
    <2>5. \A x \in Range(q.todo) : x = c \/ x \in Range(t)
      BY <2>2, <2>4 DEF Range
    <2> QED  BY <2>1, <2>3, <2>5
  <1>6. /\ g \in Frames /\ g.node = q.node /\ g.list = l /\ g.stage = "search"
        /\ g.pos = q.pos /\ g.at = q.at /\ g.todo = Tail(q.todo) /\ Identifies(g)
    BY <1>1, <1>2, <1>3, <1>4, <1>5 DEF Frames, Identifies
  <1>7. /\ h \in Frames /\ h.node = q.node /\ h.list = l /\ h.stage = "found"
        /\ h.pos = q.pos /\ Identifies(h)
    BY <1>1, <1>2, <1>3, <1>4 DEF Frames, Identifies
  <1>8. Passed(g) = Passed(q) /\ Passed(h) = Passed(q)
    BY <1>1, <1>3, <1>6, <1>7 DEF Passed
  <1>9. FrameOK(h, {}, looped)
    BY <1>3, <1>4, <1>7, <1>8 DEF FrameOK
  <1>10. ASSUME l \in Visible(q.node) => tree.parent[l] # c
         PROVE  FrameOK(g, {}, looped)
    <2>1. l \in Visible(q.node) =>
               \/ tree.parent[tree.parent[l]] \in Ancestors(g.at)
               \/ tree.parent[l] \in Range(g.todo)
      BY <1>1, <1>3, <1>4, <1>5, <1>6, <1>10 DEF FrameOK
    <2> QED  BY <1>1, <1>3, <1>4, <1>6, <1>8, <2>1 DEF FrameOK
  <1>11. CASE tree.kind[c] = "function" /\ Enter(c, Replace(g))
    <2>1. l \in Visible(q.node) => tree.parent[l] # c
      BY <1>4, <1>11, VisibleFacts
    <2> QED  BY <1>1, <1>3, <1>5, <1>6, <1>10, <1>11, <2>1, AskOK
  <1>12. CASE Enter(l, Replace(h))
    BY <1>1, <1>3, <1>4, <1>7, <1>9, <1>12, AskOK
  <1>13. CASE /\ ~ \E i \in DOMAIN tree.kids[c] : tree.kids[c][i] = l
              /\ stack' = Replace(g) /\ attrs' = attrs
    <2>1. l \in Visible(q.node) => tree.parent[l] # c
      BY <1>4, <1>13, VisibleFacts
    <2>2. FrameOK(g, {}, looped)
      BY <1>10, <2>1
    <2> QED  BY <1>1, <1>3, <1>6, <1>13, <2>2, LiteralOK, NotDefined
  <1> QED  BY <1>1, <1>2, <1>11, <1>12, <1>13, Zenon DEF CheckName

LEMMA SearchUpCircular ==
    ASSUME IInv, CInv, SearchUp
    PROVE  CInv'
  <1>1. PICK q, l, up : q = Top /\ l = q.list /\ up = tree.parent[q.at]
    OBVIOUS
  <1>2. /\ stack # << >> /\ q.stage = "search" /\ q.todo = << >>
        /\ tree' = tree /\ looped' = looped /\ attrs' = attrs /\ Identifies(q)
    BY <1>1 DEF SearchUp, Running, Identifies
  <1>3. /\ q \in Frames /\ q.node \in Nodes /\ l \in Nodes /\ q.at \in Nodes
        /\ tree \in Trees /\ FrameOK(q, {}, looped)
        /\ tree.kind[q.at] # "program"
    BY <1>1, <1>2, CallFacts
  <1>4. up \in Nodes /\ up # NoNode /\ tree.kind[up] \in Kinds
    BY <1>1, <1>3, AroundTyped, TreeFacts, NoNodeAssumption
  <1>5. Range(q.todo) = {}
    BY <1>2 DEF Range
  <1>6. l \in Visible(q.node) =>
            \/ tree.parent[tree.parent[l]] = up
            \/ tree.parent[tree.parent[l]] \in Ancestors(up)
    BY <1>1, <1>2, <1>3, <1>4, <1>5, AncestorsUp DEF FrameOK
  <1>7. CASE tree.kind[up] = "program" /\ stack' = Below
    <2>1. Ancestors(up) = {}
      <3>1. tree.parent[up] = NoNode
        BY <1>3, <1>4, <1>7, TreeFacts DEF WellFormed
      <3> QED  BY <1>3, <1>4, <3>1, AncestorsUp
    <2>2. l \notin Visible(q.node)
      BY <1>3, <1>6, <1>7, <2>1, VisibleFacts
    <2>3. ~ Circular(q.node, l)
      BY <2>2, CircularFacts
    <2> QED  BY <1>1, <1>2, <1>7, <2>3, IdentifiedOK
  <1>8. PICK todo : todo = IF tree.kind[up] = "list" THEN Around(q.at) ELSE << >>
    OBVIOUS
  <1>9. PICK g : g = [q EXCEPT !.at = up, !.todo = todo]
    OBVIOUS
  <1>10. CASE tree.kind[up] # "program" /\ stack' = Replace(g)
    <2>1. todo \in Seq(Nodes)
      BY <1>3, <1>8, AroundTyped, EmptySeq
    <2>2. /\ g \in Frames /\ g.node = q.node /\ g.list = l /\ g.stage = "search"
          /\ g.pos = q.pos /\ g.at = up /\ g.todo = todo /\ Identifies(g)
      BY <1>1, <1>2, <1>3, <1>4, <1>9, <2>1 DEF Frames, Identifies
    <2>3. Passed(g) = Passed(q)
      BY <1>1, <1>2, <2>2 DEF Passed
    <2>4. ASSUME l \in Visible(q.node), tree.parent[tree.parent[l]] = up
          PROVE  tree.parent[l] \in Range(todo)
      <3>1. tree.kind[up] = "list" /\ tree.parent[l] \in Range(tree.kids[up])
        BY <1>3, <2>4, VisibleFacts
      <3>2. Range(tree.kids[up]) \subseteq Range(todo)
        BY <1>1, <1>3, <1>8, <3>1, AroundAll
      <3> QED  BY <3>1, <3>2
    <2>5. FrameOK(g, {}, looped)
      BY <1>1, <1>2, <1>3, <1>6, <2>2, <2>3, <2>4 DEF FrameOK
    <2> QED  BY <1>1, <1>2, <1>10, <2>2, <2>5, LiteralOK, NotDefined
  <1> QED  BY <1>1, <1>7, <1>8, <1>9, <1>10, Zenon DEF SearchUp

LEMMA FoundCircular ==
    ASSUME IInv, CInv, Found
    PROVE  CInv'
  <1>1. PICK q, g : q = Top /\ g = [q EXCEPT !.stage = "list"]
    OBVIOUS
  <1>2. /\ stack # << >> /\ q.stage = "found"
        /\ tree' = tree /\ attrs' = attrs /\ Identifies(q)
    BY <1>1 DEF Found, Running, Identifies
  <1>3. /\ q \in Frames /\ q.list \in Nodes /\ FrameOK(q, {}, looped)
    BY <1>1, <1>2, CallFacts
  <1>4. CASE looped' = looped \union {<< Top.node, Top.list >>} /\ stack' = Below
    <2>1. Reported(Top.node, looped')
      BY <1>1, <1>3, <1>4 DEF Reported
    <2> QED  BY <1>1, <1>2, <1>4, <2>1, IdentifiedOK
  <1>5. CASE stack' = Replace(g) /\ looped' = looped
    <2>1. /\ g \in Frames /\ g.node = q.node /\ g.list = q.list /\ g.stage = "list"
          /\ g.pos = q.pos /\ Identifies(g)
      BY <1>1, <1>2, <1>3 DEF Frames, Identifies
    <2>2. Passed(g) = Passed(q)
      BY <1>2, <2>1 DEF Passed
    <2>3. FrameOK(g, {}, looped)
      BY <1>2, <1>3, <2>1, <2>2 DEF FrameOK
    <2> QED  BY <1>1, <1>2, <1>5, <2>1, <2>3, LiteralOK, NotDefined
  <1> QED  BY <1>1, <1>4, <1>5 DEF Found

LEMMA ValueCircular ==
    ASSUME IInv, CInv, Value
    PROVE  CInv'
  <1>1. PICK q, g, h, i, w : /\ q = Top
                             /\ g = [q EXCEPT !.pos = @ + 1]
                             /\ h = [q EXCEPT !.stage = "value"]
                             /\ i = tree.items[q.list][q.pos]
                             /\ w = i.word
    OBVIOUS
  <1>2. /\ stack # << >> /\ q.stage = "list" /\ tree' = tree /\ looped' = looped
        /\ q.pos <= Len(tree.items[q.list]) /\ Identifies(q)
    BY <1>1 DEF Value, Running, Identifies
  <1>3. /\ g \in Frames /\ g.node = q.node /\ g.list = q.list
        /\ Identifies(g) <=> Identifies(q)
        /\ FrameOK(g, {w}, looped)
        /\ w \notin Nodes => FrameOK(g, {}, looped)
    BY <1>1, <1>2, PassOne
  <1>4. CASE w \in ValueLiterals /\ Mark(q.node, w) /\ stack' = Replace(g)
    <2>1. w # "DEFINED" /\ w \notin Nodes
      BY <1>4, NotDefined
    <2> QED  BY <1>1, <1>2, <1>3, <1>4, <2>1, LiteralOK
  <1>5. CASE /\ w \in Nodes
             /\ stack' = Append(Replace(g), SearchFrame(q.node, w))
             /\ attrs' = attrs
    BY <1>1, <1>2, <1>3, <1>5, NameOK
  <1>6. CASE w = "EXPRESSION" /\ Enter(i.asks, Replace(h))
    <2>1. /\ q \in Frames /\ q.list \in Nodes /\ q.pos \in Nat \ {0}
          /\ tree \in Trees /\ FrameOK(q, {}, looped)
      BY <1>1, <1>2, CallFacts
    <2>2. /\ h \in Frames /\ h.node = q.node /\ h.list = q.list /\ h.pos = q.pos
          /\ h.stage = "value" /\ Identifies(h)
      BY <1>1, <2>1 DEF Frames, Identifies
    <2>3. Passed(h) = Passed(q)
      BY <1>2, <2>2 DEF Passed
    <2>4. tree.items[h.list][h.pos].word \notin Nodes
      BY <1>1, <1>6, <2>2, NotDefined
    <2>5. FrameOK(h, {}, looped)
      BY <2>1, <2>2, <2>3, <2>4 DEF FrameOK
    <2>6. tree.items[q.list] \in Seq(Items)
      BY <2>1, TreeFacts
    <2>7. i \in Items
      BY <1>1, <1>2, <2>1, <2>6, ElementOfSeq
    <2>8. i.asks \in Nodes \union {NoNode}
      BY <2>7 DEF Items
    <2> QED  BY <1>1, <1>2, <1>6, <2>2, <2>5, <2>8, AskOK
  <1> QED  BY <1>1, <1>4, <1>5, <1>6, Zenon DEF Value

LEMMA EvaluatedCircular ==
    ASSUME IInv, CInv, Evaluated
    PROVE  CInv'
  <1>1. PICK q, h, g, v : /\ q = Top
                          /\ h = [q EXCEPT !.stage = "list"]
                          /\ g = [q EXCEPT !.stage = "list", !.pos = @ + 1]
                          /\ v = tree.items[q.list][q.pos].value
    OBVIOUS
  <1>2. /\ stack # << >> /\ q.stage = "value" /\ tree' = tree /\ looped' = looped
        /\ stack' = Replace(g) /\ Identifies(q)
    BY <1>1 DEF Evaluated, Running, Identifies
  <1>3. /\ q \in Frames /\ q.list \in Nodes /\ q.pos \in Nat \ {0} /\ tree \in Trees
        /\ FrameOK(q, {}, looped)
    BY <1>1, <1>2, CallFacts
  <1>4. /\ g \in Frames /\ g.stage = "list" /\ g.list = q.list /\ g.node = q.node
        /\ Identifies(g)
    BY <1>1, <1>3, NextValue DEF Identifies
  <1>5. g.pos = q.pos + 1
    BY <1>1, <1>3 DEF Frames
  <1>6. q.pos \in 1 .. Len(tree.items[q.list])
    <2>1. q \in SoundFrames
      BY <1>1, <1>2, TopFacts
    <2>2. q.pos <= Len(tree.items[q.list]) /\ tree.items[q.list] \in Seq(Items)
      BY <1>2, <1>3, <2>1, ValuePos, TreeFacts
    <2> QED  BY <1>3, <2>2
  <1>7. tree.items[q.list][q.pos].word \notin Nodes
    BY <1>2, <1>3 DEF FrameOK
  <1>8. Passed(g) = Passed(q)
    <2>1. q.pos \in DOMAIN tree.items[q.list]
      BY <1>3, <1>6, TreeFacts
    <2>2. ItemsBefore(q.list, q.pos + 1) =
              ItemsBefore(q.list, q.pos) \union {tree.items[q.list][q.pos].word}
      BY <1>3, <2>1, PassedNext
    <2> QED  BY <1>2, <1>4, <1>5, <1>7, <2>2 DEF Passed
  <1>9. FrameOK(g, {}, looped)
    BY <1>3, <1>4, <1>8 DEF FrameOK
  <1>10. v \in {"TRUE", "FALSE", "NONE"}
    <2>1. tree.items[q.list][q.pos] \in Items
      BY <1>3, <1>6, TreeFacts, ElementOfSeq
    <2> QED  BY <1>1, <2>1 DEF Items
  <1>11. attrs' = attrs \/ Mark(q.node, v)
    BY <1>1, Zenon DEF Evaluated
  <1> QED  BY <1>1, <1>2, <1>4, <1>9, <1>10, <1>11, LiteralOK

LEMMA ListDoneCircular ==
    ASSUME IInv, CInv, ListDone
    PROVE  CInv'
  <1>1. PICK q : q = Top
    OBVIOUS
  <1>2. /\ stack # << >> /\ q.stage = "list" /\ q.pos > Len(tree.items[q.list])
        /\ tree' = tree /\ looped' = looped /\ attrs' = attrs /\ stack' = Below
        /\ Identifies(q)
    BY <1>1 DEF ListDone, Running, Identifies
  <1>3. q.list \in Nodes /\ q.pos \in Nat /\ tree \in Trees /\ FrameOK(q, {}, looped)
    BY <1>1, <1>2, CallFacts
  <1>4. Passed(q) = Names(q.list)
    BY <1>2, <1>3, PassedAll DEF Passed
  <1>5. Circular(q.node, q.list) => Reported(q.node, looped)
    BY <1>3, <1>4, CircularFacts DEF FrameOK
  <1> QED  BY <1>1, <1>2, <1>5, IdentifiedOK

LEMMA CircularInvariance == Spec => [](IInv /\ CInv)
  <1>1. Init => IInv /\ CInv
    <2> SUFFICES ASSUME Init PROVE IInv /\ CInv
      OBVIOUS
    <2>1. IInv
      BY InitSound
    <2>2. StackOK(stack, looped)
      BY DEF Init, StackOK, BelowOK
    <2>3. PreparedOK(attrs, stack, looped)
      BY DEF Init, PreparedOK
    <2> QED  BY <2>1, <2>2, <2>3 DEF CInv
  <1>2. IInv /\ CInv /\ [Next]_vars => IInv' /\ CInv'
    <2> SUFFICES ASSUME IInv, CInv, [Next]_vars PROVE CInv'
      BY StepSound
    <2>1. ASSUME NEW n \in Nodes, Request(n) PROVE CInv'
      BY <2>1, RequestCircular
    <2>2. CASE OwnWord
      BY <2>2, OwnWordCircular
    <2>3. CASE OwnDone
      BY <2>3, OwnDoneCircular
    <2>4. CASE Inherit
      BY <2>4, InheritCircular
    <2>5. CASE CheckName
      BY <2>5, CheckNameCircular
    <2>6. CASE SearchUp
      BY <2>6, SearchUpCircular
    <2>7. CASE Found
      BY <2>7, FoundCircular
    <2>8. CASE Value
      BY <2>8, ValueCircular
    <2>9. CASE Evaluated
      BY <2>9, EvaluatedCircular
    <2>10. CASE ListDone
      BY <2>10, ListDoneCircular
    <2>11. CASE UNCHANGED vars
      <3>1. tree' = tree /\ stack' = stack /\ attrs' = attrs /\ looped' = looped
        BY <2>11 DEF vars
      <3> QED  BY <3>1, NextOK DEF CInv
    <2> QED
      BY <2>1, <2>2, <2>3, <2>4, <2>5, <2>6, <2>7, <2>8, <2>9, <2>10, <2>11
         DEF Next, Step
  <1> QED  BY <1>1, <1>2, PTL DEF Spec

\* A circular list is never passed over in silence, for any program: whatever the
\* node asked for first and what the searches prepare on their way,
\* identifier_to_attrs() comes back to a list that is being walked over, and
\* reports it for the node, before that node is prepared.
THEOREM AttributesCircular == Spec => []CircularReported
  <1>1. IInv /\ CInv => CircularReported
    <2> SUFFICES ASSUME IInv, CInv, stack = << >>, NEW n \in Nodes, Prepared(n),
                        NEW l \in Named(n), Endless(l, Visible(n))
                 PROVE  Reported(n, looped)
      BY DEF CircularReported, Reported
    <2>1. Circular(n, l) /\ tree \in Trees
      BY DEF Circular, IInv
    <2>2. tree.kind[n] # "program"
      <3> SUFFICES ASSUME tree.kind[n] = "program" PROVE FALSE
        OBVIOUS
      <3>1. Ancestors(n) = {}
        BY <2>1, AncestorsUp, TreeFacts DEF WellFormed
      <3>2. l \in Visible(n)
        BY <2>1, CircularFacts
      <3> QED  BY <2>1, <3>1, <3>2, VisibleFacts
    <2>3. ~ Preparing(n, stack)
      BY DEF Preparing
    <2>4. AllReported(n, looped)
      BY <2>2, <2>3 DEF CInv, PreparedOK, Prepared
    <2> QED  BY <2>1, <2>4 DEF AllReported
  <1> QED  BY <1>1, CircularInvariance, PTL

(***************************************************************************)
(* The tree: nothing is above itself.                                      *)
(***************************************************************************)
\* The ancestors of a node are its parent and the ancestors of its parent; it is
\* none of them.
LEMMA AncestorsClosed ==
    ASSUME tree \in Trees, NEW n \in Nodes
    PROVE  /\ Ancestors(n) \subseteq Nodes
           /\ tree.parent[n] # NoNode => tree.parent[n] \in Ancestors(n)
           /\ \A x \in Ancestors(n) : Ancestors(x) \subseteq Ancestors(n)
  <1> DEFINE parents == {tree.parent[m] : m \in Nodes} \ {NoNode}
             Holds(C, m) == tree.parent[m] \in C \union {NoNode}
             Closed(m) == {C \in SUBSET parents : Holds(C, m) /\ \A x \in C : Holds(C, x)}
  <1>1. /\ \A m : Ancestors(m) = {x \in parents : \A C \in Closed(m) : x \in C}
        /\ parents \subseteq Nodes /\ tree.parent[n] \in parents \union {NoNode}
    BY TreeFacts DEF Ancestors
  <1>2. \A C \in Closed(n) : tree.parent[n] # NoNode => tree.parent[n] \in C
    OBVIOUS
  <1>3. \A C \in Closed(n) : \A x \in C : C \in Closed(x)
    OBVIOUS
  <1> HIDE DEF parents, Closed
  <1>4. ASSUME NEW x \in Ancestors(n), NEW y \in Ancestors(x) PROVE y \in Ancestors(n)
    <2>1. \A C \in Closed(n) : C \in Closed(x)
      BY <1>1, <1>3
    <2> QED  BY <1>1, <2>1
  <1> QED  BY <1>1, <1>2, <1>4

LEMMA NotAbove ==
    ASSUME tree \in Trees, NEW n \in Nodes
    PROVE  n \notin Ancestors(n)
  <1>1. PICK S : S = {x \in Nodes : x \in Ancestors(x)}
    OBVIOUS
  <1> SUFFICES ASSUME S # {} PROVE FALSE
    BY <1>1
  <1>2. WellFormed(tree) /\ \A x \in Nodes : tree.parent[x] \in Nodes \union {NoNode}
    BY TreeFacts
  <1>3. PICK m \in S : tree.parent[m] \notin S
    <2> S \in SUBSET Nodes
      BY <1>1
    <2> QED  BY <1>2 DEF WellFormed
  <1>4. PICK p : p = tree.parent[m]
    OBVIOUS
  <1>5. /\ m \in Nodes /\ m \in Ancestors(m)
        /\ p # NoNode /\ Ancestors(m) \subseteq {p} \union Ancestors(p)
    BY <1>1, <1>3, <1>4, AncestorsUp
  <1>6. p \in Nodes /\ p \in Ancestors(m)
    BY <1>2, <1>4, <1>5, AncestorsClosed
  <1>7. CASE m = p
    BY <1>3, <1>4, <1>7
  <1>8. CASE m \in Ancestors(p)
    <2>1. Ancestors(m) \subseteq Ancestors(p)
      BY <1>6, <1>8, AncestorsClosed
    <2> QED  BY <1>1, <1>3, <1>4, <1>6, <2>1
  <1> QED  BY <1>5, <1>7, <1>8

LEMMA AncestorsParent ==
    ASSUME tree \in Trees, NEW n \in Nodes, NEW p \in Nodes, tree.parent[n] = p
    PROVE  Ancestors(n) = {p} \union Ancestors(p)
  <1>1. p # NoNode
    BY NoNodeAssumption
  <1> QED  BY <1>1, AncestorsUp, AncestorsClosed

\* The directives around a node are siblings of it.
LEMMA AroundSiblings ==
    ASSUME tree \in Trees, NEW n \in Nodes, tree.kind[n] # "program"
    PROVE  \A c \in Range(Around(n)) : c \in Nodes /\ tree.parent[c] = tree.parent[n]
  <1>1. PICK p, S : p = tree.parent[n] /\ S = {c \in Nodes : tree.parent[c] = p}
    OBVIOUS
  <1>2. p \in Nodes /\ tree.kids[p] \in Seq(Nodes)
    BY <1>1, AroundTyped, TreeFacts
  <1>3. \A i \in 1 .. Len(tree.kids[p]) : tree.kids[p][i] \in S
    <2>1. \A i \in DOMAIN tree.kids[p] : tree.parent[tree.kids[p][i]] = p
      BY <1>2, TreeFacts DEF WellFormed
    <2>2. \A i \in 1 .. Len(tree.kids[p]) : i \in DOMAIN tree.kids[p] /\ tree.kids[p][i] \in Nodes
      BY <1>2, ElementOfSeq
    <2> QED  BY <1>1, <2>1, <2>2
  <1>4. tree.kids[p] \in Seq(S)
    BY <1>2, <1>3
  <1>5. Around(n) \in Seq(S)
    BY <1>1, <1>4, AroundKids
  <1>6. \A i \in DOMAIN Around(n) : Around(n)[i] \in S
    BY <1>5, ElementOfSeq
  <1> QED  BY <1>1, <1>6 DEF Range

(***************************************************************************)
(* What the words of a node give, when lists are plain: the definitions of *)
(* OrderIndependent are equations.                                         *)
(***************************************************************************)
\* The sets of attributes a node may have.
Marks == SUBSET AttributeSet

\* Without names, an item is a value or an expression.
LEMMA PlainItems ==
    ASSUME tree \in Trees, Plain, NEW l \in Nodes, NEW k \in 1 .. Len(tree.items[l]), NEW i,
           i = tree.items[l][k]
    PROVE  /\ i.word # "EXPRESSION" => i.word \in AttributeSet
           /\ i.word = "EXPRESSION" /\ i.value # "NONE" => i.value \in AttributeSet
           /\ i.word \notin Nodes /\ i.asks = NoNode
  <1>1. tree.items[l] \in Seq(Items)
    BY TreeFacts
  <1>2. i \in Items /\ k \in DOMAIN tree.items[l]
    BY <1>1, ElementOfSeq
  <1>3. i.word \notin Nodes /\ i.asks = NoNode
    BY <1>2 DEF Plain, Names
  <1> QED  BY <1>2, <1>3, AttributeNames DEF Items

LEMMA ItemTyped ==
    ASSUME tree \in Trees, Plain, NEW l \in Nodes, NEW k \in 1 .. Len(tree.items[l]),
           NEW S \in Marks
    PROVE  ItemGives(S, tree.items[l][k]) \in Marks
  <1>1. PICK i : i = tree.items[l][k]
    OBVIOUS
  <1>2. /\ i.word # "EXPRESSION" => i.word \in AttributeSet
        /\ i.word = "EXPRESSION" /\ i.value # "NONE" => i.value \in AttributeSet
    BY <1>1, PlainItems
  <1>3. \A a \in AttributeSet : SetAttribute(S, a) \in Marks
    BY SetTyped DEF Marks
  <1>4. ItemGives(S, i) \in Marks
    BY <1>2, <1>3 DEF ItemGives
  <1> QED  BY <1>1, <1>4

\* What the values of a list give, one after the other.
LEMMA ListGivesFacts ==
    ASSUME tree \in Trees, Plain, NEW l \in Nodes, NEW S \in Marks
    PROVE  /\ ListGives(S, l)[0] = S
           /\ \A k \in 1 .. Len(tree.items[l]) :
                 ListGives(S, l)[k] = ItemGives(ListGives(S, l)[k - 1], tree.items[l][k])
           /\ ListGives(S, l)[Len(tree.items[l])] \in Marks
  <1> DEFINE E(f) == [k \in 0 .. Len(tree.items[l]) |->
                         IF k = 0 THEN S ELSE ItemGives(f[k - 1], tree.items[l][k])]
             set == CHOOSE f : f = E(f)
             gives(k, T) == ItemGives(T, tree.items[l][k])
  <1>1. PICK n \in Nat : n = Len(tree.items[l])
    BY TreeFacts, LenProperties
  <1>2. \A k \in 1 .. n : \A T \in Marks : gives(k, T) \in Marks
    BY <1>1, ItemTyped
  <1>3. PICK step : step = [k \in 1 .. n |-> [T \in Marks |-> gives(k, T)]]
    OBVIOUS
  <1>4. step \in [1 .. n -> [Marks -> Marks]]
    BY <1>2, <1>3
  <1>5. \A k \in 1 .. n : \A T \in Marks : step[k][T] = gives(k, T)
    BY <1>3
  <1>6. PICK f : Computed(f, Marks, S, n, step)
    BY <1>4, PlaceAfterPlace
  <1>7. \A k \in 1 .. n : k - 1 \in 0 .. n /\ k # 0 /\ k \in 0 .. n
    OBVIOUS
  <1>8. \A k \in 0 .. n : k = 0 \/ k \in 1 .. n
    OBVIOUS
  <1>9. f = E(f)
    <2>1. \A k \in 1 .. n : f[k] = gives(k, f[k - 1])
      BY <1>5, <1>6, <1>7 DEF Computed
    <2>2. \A k \in 0 .. n : f[k] = IF k = 0 THEN S ELSE gives(k, f[k - 1])
      BY <1>6, <1>8, <2>1 DEF Computed
    <2> QED  BY <1>1, <1>6, <2>2 DEF Computed
  <1>10. set = E(set)
    <2> HIDE DEF E
    <2> QED  BY <1>9
  <1>11. ListGives(S, l) = set
    BY Zenon DEF ListGives
  <1> HIDE DEF set
  <1>12. \A k \in 0 .. n : set[k] = IF k = 0 THEN S ELSE gives(k, set[k - 1])
    BY <1>1, <1>10
  <1>13. set[0] = S
    <2> 0 \in 0 .. n
      OBVIOUS
    <2> QED  BY <1>12
  <1>14. \A k \in 1 .. n : set[k] = gives(k, set[k - 1])
    BY <1>7, <1>12
  <1>15. set[n] \in Marks
    <2> DEFINE T == {k \in Nat : k <= n => set[k] \in Marks}
    <2>1. 0 \in T
      BY <1>13
    <2>2. ASSUME NEW k \in Nat, k \in T PROVE k + 1 \in T
      <3> SUFFICES ASSUME k + 1 <= n PROVE set[k + 1] \in Marks
        OBVIOUS
      <3>1. k + 1 \in 1 .. n /\ k + 1 - 1 = k /\ set[k] \in Marks
        BY <2>2
      <3>2. set[k + 1] = gives(k + 1, set[k])
        BY <1>14, <3>1
      <3>3. gives(k + 1, set[k]) \in Marks
        BY <1>2, <3>1
      <3> QED  BY <3>2, <3>3
    <2>3. n \in T
      <3> HIDE DEF T
      <3> QED  BY <2>1, <2>2, SetInduction
    <2> QED  BY <2>3
  <1> QED  BY <1>1, <1>11, <1>13, <1>14, <1>15

LEMMA WordTyped ==
    ASSUME tree \in Trees, Plain, NEW n \in Nodes, NEW w, NEW S \in Marks
    PROVE  WordGives(S, n, w) \in Marks
  <1>1. CASE w \in Literals
    <2>1. w \in AttributeSet
      BY <1>1, AttributeNames
    <2>2. SetAttribute(S, w) \in Marks
      BY <2>1, SetTyped DEF Marks
    <2> QED  BY <1>1, <2>2 DEF WordGives
  <1>2. CASE w \notin Literals /\ w \in Visible(n)
    <2>1. w \in Nodes
      BY <1>2 DEF Visible
    <2>2. ListGives(S, w)[Len(tree.items[w])] \in Marks
      BY <2>1, ListGivesFacts
    <2> QED  BY <1>2, <2>2 DEF WordGives
  <1>3. CASE w \notin Literals /\ w \notin Visible(n)
    BY <1>3 DEF WordGives
  <1> QED  BY <1>1, <1>2, <1>3

\* What the words of a node give, one after the other.
LEMMA OwnGivesFacts ==
    ASSUME tree \in Trees, Plain, NEW n \in Nodes
    PROVE  /\ OwnGives(n)[0] = {"DEFINED"}
           /\ \A k \in 1 .. Len(tree.words[n]) :
                 OwnGives(n)[k] = WordGives(OwnGives(n)[k - 1], n, tree.words[n][k])
           /\ \A k \in 0 .. Len(tree.words[n]) : OwnGives(n)[k] \in Marks
           /\ Own(n) \in Marks
  <1> DEFINE E(f) == [k \in 0 .. Len(tree.words[n]) |->
                         IF k = 0 THEN {"DEFINED"}
                         ELSE WordGives(f[k - 1], n, tree.words[n][k])]
             own == CHOOSE f : f = E(f)
             gives(k, T) == WordGives(T, n, tree.words[n][k])
  <1>1. PICK m \in Nat : m = Len(tree.words[n])
    BY TreeFacts, LenProperties
  <1>2. \A k \in 1 .. m : \A T \in Marks : gives(k, T) \in Marks
    BY WordTyped
  <1>3. PICK step : step = [k \in 1 .. m |-> [T \in Marks |-> gives(k, T)]]
    OBVIOUS
  <1>4. step \in [1 .. m -> [Marks -> Marks]]
    BY <1>2, <1>3
  <1>5. \A k \in 1 .. m : \A T \in Marks : step[k][T] = gives(k, T)
    BY <1>3
  <1>d. {"DEFINED"} \in Marks
    BY AttributeNames DEF Marks
  <1>6. PICK f : Computed(f, Marks, {"DEFINED"}, m, step)
    BY <1>4, <1>d, PlaceAfterPlace
  <1>7. \A k \in 1 .. m : k - 1 \in 0 .. m /\ k # 0 /\ k \in 0 .. m
    OBVIOUS
  <1>8. \A k \in 0 .. m : k = 0 \/ k \in 1 .. m
    OBVIOUS
  <1>9. f = E(f)
    <2>1. \A k \in 1 .. m : f[k] = gives(k, f[k - 1])
      BY <1>5, <1>6, <1>7 DEF Computed
    <2>2. \A k \in 0 .. m : f[k] = IF k = 0 THEN {"DEFINED"} ELSE gives(k, f[k - 1])
      BY <1>6, <1>8, <2>1 DEF Computed
    <2> QED  BY <1>1, <1>6, <2>2 DEF Computed
  <1>10. own = E(own)
    <2> HIDE DEF E
    <2> QED  BY <1>9
  <1>11. OwnGives(n) = own
    BY Zenon DEF OwnGives
  <1> HIDE DEF own
  <1>12. \A k \in 0 .. m : own[k] = IF k = 0 THEN {"DEFINED"} ELSE gives(k, own[k - 1])
    BY <1>1, <1>10
  <1>13. own[0] = {"DEFINED"}
    <2> 0 \in 0 .. m
      OBVIOUS
    <2> QED  BY <1>12
  <1>14. \A k \in 1 .. m : own[k] = gives(k, own[k - 1])
    BY <1>7, <1>12
  <1>15. \A k \in 0 .. m : own[k] \in Marks
    <2> DEFINE T == {k \in Nat : k <= m => own[k] \in Marks}
    <2>1. 0 \in T
      BY <1>13, <1>d
    <2>2. ASSUME NEW k \in Nat, k \in T PROVE k + 1 \in T
      <3> SUFFICES ASSUME k + 1 <= m PROVE own[k + 1] \in Marks
        OBVIOUS
      <3>1. k + 1 \in 1 .. m /\ k + 1 - 1 = k /\ own[k] \in Marks
        BY <2>2
      <3>2. own[k + 1] = gives(k + 1, own[k])
        BY <1>14, <3>1
      <3>3. gives(k + 1, own[k]) \in Marks
        BY <1>2, <3>1
      <3> QED  BY <3>2, <3>3
    <2>3. Nat \subseteq T
      <3> HIDE DEF T
      <3> QED  BY <2>1, <2>2, SetInduction
    <2> QED  BY <2>3
  <1>16. m \in 0 .. m
    OBVIOUS
  <1>17. Own(n) = own[m]
    BY <1>1, <1>11 DEF Own
  <1> QED  BY <1>1, <1>11, <1>13, <1>14, <1>15, <1>16, <1>17

\* A node has more ancestors than its parent.
LEMMA AncestorsCounted ==
    ASSUME tree \in Trees, NEW n \in Nodes
    PROVE  /\ Cardinality(Ancestors(n)) \in Nat
           /\ Cardinality(Ancestors(n)) <= Cardinality(Nodes)
           /\ Cardinality(Nodes) \in Nat
           /\ tree.parent[n] # NoNode =>
                Cardinality(Ancestors(tree.parent[n])) < Cardinality(Ancestors(n))
  <1>1. IsFiniteSet(Nodes) /\ Cardinality(Nodes) \in Nat
    BY NodesAssumption, FS_CardinalityType
  <1>2. \A m \in Nodes : /\ IsFiniteSet(Ancestors(m))
                         /\ Cardinality(Ancestors(m)) \in Nat
                         /\ Cardinality(Ancestors(m)) <= Cardinality(Nodes)
    <2> TAKE m \in Nodes
    <2>1. Ancestors(m) \in SUBSET Nodes
      BY AncestorsClosed
    <2> QED  BY <1>1, <2>1, FS_Subset, FS_CardinalityType
  <1>3. ASSUME tree.parent[n] # NoNode
        PROVE  Cardinality(Ancestors(tree.parent[n])) < Cardinality(Ancestors(n))
    <2>1. PICK p \in Nodes : p = tree.parent[n]
      BY <1>3, TreeFacts
    <2>2. Ancestors(n) = {p} \union Ancestors(p) /\ p \notin Ancestors(p)
      BY <2>1, AncestorsParent, NotAbove
    <2>3. Cardinality(Ancestors(p) \union {p}) = Cardinality(Ancestors(p)) + 1
      BY <1>2, <2>2, FS_AddElement
    <2>4. Ancestors(n) = Ancestors(p) \union {p}
      BY <2>2
    <2>5. Cardinality(Ancestors(n)) = Cardinality(Ancestors(p)) + 1
      BY <2>3, <2>4
    <2>6. Cardinality(Ancestors(p)) \in Nat
      BY <1>2
    <2> QED  BY <2>1, <2>5, <2>6
  <1> QED  BY <1>1, <1>2, <1>3

\* The attributes expected of a node, from those expected of its parent.
LEMMA ExpectedEquation ==
    ASSUME tree \in Trees, Plain, NEW n \in Nodes
    PROVE  /\ tree.kind[n] = "program" => Expected(n) = {"DEFINED"}
           /\ tree.kind[n] # "program" /\ Barrier(n) =>
                Expected(n) = WithoutNative(n, Own(n))
           /\ tree.kind[n] # "program" /\ ~ Barrier(n) =>
                Expected(n) = WithoutNative(n, Inherited(Own(n), Expected(tree.parent[n]),
                                                         tree.kind[tree.parent[n]]))
  <1> DEFINE value(m, f) ==
                 IF tree.kind[m] = "program" THEN {"DEFINED"}
                 ELSE WithoutNative(m,
                         IF Barrier(m) THEN Own(m)
                         ELSE Inherited(Own(m), f[tree.parent[m]], tree.kind[tree.parent[m]]))
             E(f) == [m \in Nodes |-> value(m, f)]
             expected == CHOOSE f : f = E(f)
  <1>1. PICK rank, N : /\ rank = [m \in Nodes |-> Cardinality(Ancestors(m))]
                       /\ N = Cardinality(Nodes)
    OBVIOUS
  <1>2. rank \in [Nodes -> Nat] /\ N \in Nat /\ \A m \in Nodes : rank[m] <= N
    BY <1>1, AncestorsCounted
  <1>3. \A m \in Nodes : ~ Barrier(m) =>
            tree.parent[m] \in Nodes /\ rank[tree.parent[m]] < rank[m]
    BY <1>1, AncestorsCounted, TreeFacts DEF Barrier
  <1>4. \A m \in Nodes, f \in [Nodes -> Marks] : value(m, f) \in Marks
    <2>1. \A m, S, P, k : S \in Marks => /\ Inherited(S, P, k) \in Marks
                                         /\ WithoutNative(m, S) \in Marks
      BY InheritedTyped DEF Marks, WithoutNative
    <2>2. {"DEFINED"} \in Marks
      BY AttributeNames DEF Marks
    <2>3. \A m \in Nodes : Own(m) \in Marks
      BY OwnGivesFacts
    <2> QED  BY <2>1, <2>2, <2>3
  <1>5. \A m \in Nodes : \A g, h \in [Nodes -> Marks] :
            (\A j \in Nodes : rank[j] < rank[m] => g[j] = h[j]) => value(m, g) = value(m, h)
    BY <1>3
  <1>6. PICK step : step = [m \in Nodes |-> [f \in [Nodes -> Marks] |-> value(m, f)]]
    OBVIOUS
  <1>7. \A m \in Nodes, f \in [Nodes -> Marks] : step[m][f] = value(m, f)
    BY <1>6
  <1>8. step \in [Nodes -> [[Nodes -> Marks] -> Marks]]
    BY <1>4, <1>6
  <1> HIDE DEF value
  <1>9. FromLower(Nodes, [Nodes -> Marks], rank, step)
    BY <1>5, <1>7 DEF FromLower
  <1>10. {} \in Marks
    BY DEF Marks
  <1>11. PICK f \in [Nodes -> Marks] : Solves(f, Nodes, step)
    BY <1>2, <1>8, <1>9, <1>10, RecursionExists
  <1>12. f = E(f)
    BY <1>7, <1>11 DEF Solves
  <1>13. expected = E(expected)
    <2> HIDE DEF E
    <2> QED  BY <1>12
  <1>14. \A m \in Nodes : Expected(m) = expected[m]
    BY Zenon DEF Expected, value
  <1> HIDE DEF expected
  <1>15. \A m \in Nodes : expected[m] = value(m, expected)
    BY <1>13
  <1>16. expected[n] = value(n, expected) /\ Expected(n) = expected[n]
    BY <1>14, <1>15
  <1>17. ~ Barrier(n) => Expected(tree.parent[n]) = expected[tree.parent[n]]
    BY <1>3, <1>14
  <1> QED  BY <1>16, <1>17, Zenon DEF value

(***************************************************************************)
(* The order of the requests.  What a call of prepare_attributes() has     *)
(* given so far is what the words gone by give: when lists are plain, a    *)
(* node half prepared is asked nothing, since the calls in progress are    *)
(* never for an ancestor of the node asked, and so nothing else changes a  *)
(* node but the call that prepares it.  Below, A are the attributes and s  *)
(* the calls.                                                              *)
(***************************************************************************)

\* The call f.
Placed(f, A) ==
    /\ f.stage = "own" => f.pos - 1 <= Len(tree.words[f.node])
    /\ f.stage = "inherit" =>
         /\ ~ Barrier(f.node) /\ "DEFINED" \in A[tree.parent[f.node]]
         /\ A[f.node] = Own(f.node)
    /\ f.stage = "search" =>
         /\ f.at \in {f.node} \union Ancestors(f.node)
         /\ \A c \in Range(f.todo) : tree.parent[c] \in Ancestors(f.node)
    /\ f.stage \in {"found", "list", "value"} => f.list \in Visible(f.node)
    /\ f.stage \in {"list", "value"} => f.pos - 1 <= Len(tree.items[f.list])
    /\ f.stage = "value" => tree.items[f.list][f.pos].word = "EXPRESSION"

\* The call f, made by the call g.
MadeBy(g, f, A) ==
    /\ Identifies(f) =>
         /\ g.stage = "own" /\ g.node = f.node /\ g.pos - 1 \in 1 .. Len(tree.words[g.node])
         /\ f.list = tree.words[g.node][g.pos - 1]
         /\ A[f.node] = IF WalkingFrame(f)
                        THEN ListGives(OwnGives(f.node)[g.pos - 2], f.list)[f.pos - 1]
                        ELSE OwnGives(f.node)[g.pos - 2]
    /\ ~ Identifies(f) =>
         /\ g.stage \in {"inherit", "search", "found"}
         /\ g.stage = "inherit" => f.node = tree.parent[g.node]

\* The call f, made while the call g is in progress.
Apart(g, f) ==
    /\ g.node \notin Ancestors(f.node)
    /\ ~ Identifies(g) /\ ~ Identifies(f) => g.node # f.node

Chained(s, A) ==
    /\ s # << >> => ~ Identifies(s[1])
    /\ \A i \in 1 .. Len(s) : Placed(s[i], A) /\ "DEFINED" \in A[s[i].node]
    /\ \A i, j \in 1 .. Len(s) : j = i + 1 => MadeBy(s[i], s[j], A)
    /\ \A i, j \in 1 .. Len(s) : i < j => Apart(s[i], s[j])

TopOwn(s, A) ==
    s # << >> /\ Last(s).stage = "own" =>
        A[Last(s).node] = OwnGives(Last(s).node)[Last(s).pos - 1]

Answered(A, s) ==
    \A n \in Nodes :
        /\ "DEFINED" \notin A[n] => A[n] = {}
        /\ "DEFINED" \in A[n] => Preparing(n, s) \/ A[n] = Expected(n)

InOrder(s, A) == Chained(s, A) /\ TopOwn(s, A) /\ Answered(A, s)

OInv == Plain => InOrder(stack, attrs)

\* The program does not change.
LEMMA SameOrder ==
    ASSUME tree' = tree
    PROVE  /\ Plain' <=> Plain
           /\ \A s, A : InOrder(s, A)' <=> InOrder(s, A)
  <1>1. \A n : Names(n)' = Names(n) /\ Named(n)' = Named(n)
    BY DEF Names, Named
  <1>2. Plain' <=> Plain
    BY <1>1 DEF Plain
  <1>3. \A n : Ancestors(n)' = Ancestors(n)
    BY DEF Ancestors
  <1>4. \A n : Visible(n)' = Visible(n)
    BY <1>3 DEF Visible
  <1>5. \A S, l : ListGives(S, l)' = ListGives(S, l)
    BY DEF ListGives, ItemGives
  <1>6. \A S, n, w : WordGives(S, n, w)' = WordGives(S, n, w)
    BY <1>4, <1>5 DEF WordGives
  <1>7. \A n : OwnGives(n)' = OwnGives(n)
    BY <1>6 DEF OwnGives
  <1>8. \A n : Own(n)' = Own(n)
    BY <1>7 DEF Own
  <1>9. \A n : Barrier(n)' <=> Barrier(n)
    BY DEF Barrier
  <1>10. \A n, S : WithoutNative(n, S)' = WithoutNative(n, S)
    BY DEF WithoutNative
  <1>11. \A n : Expected(n)' = Expected(n)
    BY <1>8, <1>9, <1>10 DEF Expected
  <1>12. \A f, A : Placed(f, A)' <=> Placed(f, A)
    BY <1>3, <1>4, <1>8, <1>9 DEF Placed
  <1>13. \A g, f, A : MadeBy(g, f, A)' <=> MadeBy(g, f, A)
    BY <1>5, <1>7 DEF MadeBy, Identifies, WalkingFrame
  <1>14. \A g, f : Apart(g, f)' <=> Apart(g, f)
    BY <1>3 DEF Apart, Identifies
  <1>15. \A s, A : Chained(s, A)' <=> Chained(s, A)
    BY <1>12, <1>13, <1>14 DEF Chained, Identifies
  <1>16. \A s, A : TopOwn(s, A)' <=> TopOwn(s, A)
    BY <1>7 DEF TopOwn, Last
  <1>17. \A s, A : Answered(A, s)' <=> Answered(A, s)
    BY <1>11 DEF Answered, Preparing, Identifies
  <1> QED  BY <1>2, <1>15, <1>16, <1>17 DEF InOrder

\* The innermost call and those below it.
LEMMA ChainTop ==
    ASSUME NEW s \in Seq(Frames), s # << >>, NEW A, Chained(s, A),
           NEW q, q = Last(s), NEW t, t = Front(s)
    PROVE  /\ t \in Seq(Frames) /\ q \in Frames
           /\ Placed(q, A) /\ "DEFINED" \in A[q.node]
           /\ t = << >> => ~ Identifies(q)
           /\ t # << >> => MadeBy(Last(t), q, A)
           /\ \A i \in 1 .. Len(t) : Apart(t[i], q)
           /\ \A i \in 1 .. Len(t) : t[i] = s[i]
           /\ Len(s) = Len(t) + 1 /\ s[Len(s)] = q
  <1>0. PICK k : k = Len(t)
    OBVIOUS
  <1>1. /\ k \in Nat /\ Len(s) = k + 1 /\ t \in Seq(Frames)
        /\ \A i \in 1 .. k : t[i] = s[i]
        /\ q = s[k + 1] /\ k + 1 \in 1 .. Len(s)
    BY <1>0, PopFrame DEF Last
  <1>2. q \in Frames
    BY <1>1, ElementOfSeq
  <1>3. Placed(q, A) /\ "DEFINED" \in A[q.node]
    BY <1>1 DEF Chained
  <1>4. \A i \in 1 .. k : i \in 1 .. Len(s) /\ i < k + 1
    BY <1>1
  <1>5. \A i \in 1 .. k : Apart(t[i], q)
    BY <1>1, <1>4 DEF Chained
  <1>6. ASSUME t = << >> PROVE ~ Identifies(q)
    <2> k = 0
      BY <1>0, <1>6
    <2> QED  BY <1>1 DEF Chained
  <1>7. ASSUME t # << >> PROVE MadeBy(Last(t), q, A)
    <2>1. k # 0
      BY <1>0, <1>1, <1>7, EmptySeq
    <2>2. k \in 1 .. k /\ k \in 1 .. Len(s)
      BY <1>1, <2>1
    <2>3. Last(t) = s[k]
      BY <1>0, <1>1, <2>2 DEF Last
    <2>4. MadeBy(s[k], s[k + 1], A)
      BY <1>1, <2>2 DEF Chained
    <2> QED  BY <1>1, <2>3, <2>4
  <1> QED  BY <1>0, <1>1, <1>2, <1>3, <1>5, <1>6, <1>7

LEMMA ChainPush ==
    ASSUME NEW t \in Seq(Frames), NEW f \in Frames, NEW A, Chained(t, A),
           t = << >> => ~ Identifies(f),
           t # << >> => MadeBy(Last(t), f, A),
           Placed(f, A), "DEFINED" \in A[f.node],
           \A i \in 1 .. Len(t) : Apart(t[i], f)
    PROVE  Chained(Append(t, f), A)
  <1>0. PICK s, k : s = Append(t, f) /\ k = Len(t)
    OBVIOUS
  <1>1. /\ k \in Nat /\ Len(s) = k + 1 /\ s[k + 1] = f
        /\ \A i \in 1 .. k : s[i] = t[i]
        /\ \A i \in 1 .. k + 1 : i \in 1 .. k \/ i = k + 1
    BY <1>0, PushFrame
  <1>2. ~ Identifies(s[1])
    <2>1. CASE k = 0
      BY <1>0, <1>1, <2>1, EmptySeq
    <2>2. CASE k # 0
      <3>1. 1 \in 1 .. k /\ t # << >>
        BY <1>0, <1>1, <2>2
      <3> QED  BY <1>1, <3>1 DEF Chained
    <2> QED  BY <2>1, <2>2
  <1>3. \A i \in 1 .. k + 1 : Placed(s[i], A) /\ "DEFINED" \in A[s[i].node]
    BY <1>0, <1>1 DEF Chained
  <1>4. ASSUME NEW i \in 1 .. k + 1, NEW j \in 1 .. k + 1, j = i + 1
        PROVE  MadeBy(s[i], s[j], A)
    <2>1. CASE j \in 1 .. k
      <3>1. i \in 1 .. k
        BY <1>1, <1>4, <2>1
      <3> QED  BY <1>0, <1>1, <1>4, <2>1, <3>1 DEF Chained
    <2>2. CASE j = k + 1
      <3>1. i = k /\ k \in 1 .. k /\ k # 0
        BY <1>1, <1>4, <2>2
      <3>2. t # << >> /\ Last(t) = t[k]
        BY <1>0, <3>1 DEF Last
      <3> QED  BY <1>1, <2>2, <3>1, <3>2
    <2> QED  BY <1>1, <2>1, <2>2
  <1>5. ASSUME NEW i \in 1 .. k + 1, NEW j \in 1 .. k + 1, i < j
        PROVE  Apart(s[i], s[j])
    <2>1. i \in 1 .. k
      BY <1>1, <1>5
    <2>2. CASE j \in 1 .. k
      BY <1>0, <1>1, <1>5, <2>1, <2>2 DEF Chained
    <2>3. CASE j = k + 1
      BY <1>0, <1>1, <2>1, <2>3
    <2> QED  BY <1>1, <2>2, <2>3
  <1> QED  BY <1>0, <1>1, <1>2, <1>3, <1>4, <1>5 DEF Chained

\* Among the calls below the innermost one, for n, those with something to say of
\* the attributes of their node are not for n.
Says(g) == g.stage = "inherit" \/ Identifies(g)

LEMMA ChainAlone ==
    ASSUME NEW s \in Seq(Frames), s # << >>, NEW A, Chained(s, A),
           NEW i \in 1 .. Len(s) - 1, Says(s[i])
    PROVE  s[i].node # Last(s).node
  <1>1. PICK k : k = Len(s)
    OBVIOUS
  <1>2. k \in Nat \ {0} /\ i \in 1 .. k - 1 /\ Last(s) = s[k] /\ k \in 1 .. k /\ i \in 1 .. k
    BY <1>1, PopFrame DEF Last
  <1>3. \A a, b \in 1 .. k : a < b => Apart(s[a], s[b])
    BY <1>1 DEF Chained
  <1>4. \A a, b \in 1 .. k : b = a + 1 => MadeBy(s[a], s[b], A)
    BY <1>1 DEF Chained
  \* the call of prepare_attributes() for the node of the innermost one
  <1>5. PICK h \in 1 .. k : /\ ~ Identifies(s[h]) /\ s[h].node = s[k].node
                            /\ i < h \/ (i = h /\ s[h].stage = "own")
    <2>1. CASE ~ Identifies(s[k])
      <3> i < k
        BY <1>2
      <3> QED  BY <1>2, <2>1
    <2>2. CASE Identifies(s[k])
      <3>1. k - 1 \in 1 .. k /\ k = (k - 1) + 1 /\ (i < k - 1 \/ i = k - 1)
        BY <1>2
      <3>2. MadeBy(s[k - 1], s[k], A)
        BY <1>2, <1>4, <3>1
      <3>3. s[k - 1].stage = "own" /\ s[k - 1].node = s[k].node
        BY <2>2, <3>2 DEF MadeBy
      <3>4. ~ Identifies(s[k - 1])
        BY <3>3 DEF Identifies
      <3> QED  BY <3>1, <3>3, <3>4
    <2> QED  BY <2>1, <2>2
  <1>6. i < h
    BY <1>5 DEF Says, Identifies
  <1>7. CASE s[i].stage = "inherit"
    <2>1. ~ Identifies(s[i])
      BY <1>7 DEF Identifies
    <2> QED  BY <1>2, <1>3, <1>5, <1>6, <2>1 DEF Apart
  <1>8. CASE Identifies(s[i])
    <2>1. i # 1
      BY <1>1, <1>2, <1>8 DEF Chained
    <2>2. i - 1 \in 1 .. k /\ i = (i - 1) + 1 /\ i - 1 < h
      BY <1>2, <1>6, <2>1
    <2>3. s[i - 1].stage = "own" /\ s[i - 1].node = s[i].node
      BY <1>2, <1>4, <1>8, <2>2 DEF MadeBy
    <2>4. ~ Identifies(s[i - 1])
      BY <2>3 DEF Identifies
    <2> QED  BY <1>2, <1>3, <1>5, <2>2, <2>3, <2>4 DEF Apart
  <1> QED  BY <1>7, <1>8 DEF Says

\* Attributes B instead of A: the same for the calls that say something.
LEMMA ChainSame ==
    ASSUME tree \in Trees, NEW s \in Seq(Frames), NEW A, NEW B, Chained(s, A),
           \A n \in Nodes : "DEFINED" \in A[n] => "DEFINED" \in B[n],
           \A i \in 1 .. Len(s) : Says(s[i]) => B[s[i].node] = A[s[i].node]
    PROVE  Chained(s, B)
  <1>1. \A i \in 1 .. Len(s) : s[i] \in Frames
    BY ElementOfSeq
  <1>2. \A i \in 1 .. Len(s) : s[i].node \in Nodes
    BY <1>1 DEF Frames
  <1>3. ASSUME NEW i \in 1 .. Len(s) PROVE Placed(s[i], B)
    <2>1. PICK g : g = s[i]
      OBVIOUS
    <2>2. Placed(g, A) /\ g.node \in Nodes /\ (Says(g) => B[g.node] = A[g.node])
      BY <1>2, <2>1 DEF Chained
    <2>3. g.stage = "inherit" => tree.parent[g.node] \in Nodes
      BY <2>2, TreeFacts DEF Placed, Barrier
    <2>4. g.stage = "inherit" => /\ "DEFINED" \in B[tree.parent[g.node]]
                                 /\ B[g.node] = Own(g.node)
      BY <2>2, <2>3 DEF Placed, Says
    <2>5. Placed(g, B)
      BY <2>2, <2>4 DEF Placed
    <2> QED  BY <2>1, <2>5
  <1>4. ASSUME NEW i \in 1 .. Len(s), NEW j \in 1 .. Len(s), j = i + 1
        PROVE  MadeBy(s[i], s[j], B)
    <2>1. PICK g, f : g = s[i] /\ f = s[j]
      OBVIOUS
    <2>2. MadeBy(g, f, A) /\ (Identifies(f) => B[f.node] = A[f.node])
      BY <1>4, <2>1 DEF Chained, Says
    <2>3. MadeBy(g, f, B)
      BY <2>2 DEF MadeBy
    <2> QED  BY <2>1, <2>3
  <1>5. \A i \in 1 .. Len(s) : "DEFINED" \in B[s[i].node]
    BY <1>2 DEF Chained
  <1> QED  BY <1>3, <1>4, <1>5 DEF Chained

\* The calls below the innermost one, whose node gets the attributes B[n].
LEMMA ChainBelow ==
    ASSUME tree \in Trees, NEW s \in Seq(Frames), s # << >>, NEW A, NEW B, Chained(s, A),
           \A n \in Nodes : n # Last(s).node => B[n] = A[n],
           "DEFINED" \in B[Last(s).node]
    PROVE  Chained(Front(s), B)
  <1>0. PICK t, k : t = Front(s) /\ k = Len(s) - 1
    OBVIOUS
  <1>1. /\ k \in Nat /\ Len(t) = k /\ Len(s) = k + 1 /\ t \in Seq(Frames)
        /\ \A i \in 1 .. k : t[i] = s[i]
        /\ \A i \in 1 .. k : i \in 1 .. Len(s) /\ i \in 1 .. Len(s) - 1
        /\ 1 \in 1 .. k \/ k = 0
    BY <1>0, PopFrame
  <1>2. Chained(t, A)
    <2>1. t # << >> => ~ Identifies(t[1])
      <3> SUFFICES ASSUME t # << >> PROVE ~ Identifies(t[1])
        OBVIOUS
      <3>1. k # 0
        BY <1>1, EmptySeq
      <3> QED  BY <1>1, <3>1 DEF Chained
    <2>2. \A i \in 1 .. k : Placed(t[i], A) /\ "DEFINED" \in A[t[i].node]
      BY <1>1 DEF Chained
    <2>3. \A i, j \in 1 .. k : j = i + 1 => MadeBy(t[i], t[j], A)
      BY <1>1 DEF Chained
    <2>4. \A i, j \in 1 .. k : i < j => Apart(t[i], t[j])
      BY <1>1 DEF Chained
    <2> QED  BY <1>1, <2>1, <2>2, <2>3, <2>4 DEF Chained
  <1>3. ASSUME NEW i \in 1 .. k, Says(t[i]) PROVE B[t[i].node] = A[t[i].node]
    <2>1. t[i].node # Last(s).node
      BY <1>1, <1>3, ChainAlone
    <2>2. t[i] \in Frames
      BY <1>1, ElementOfSeq
    <2>3. t[i].node \in Nodes
      BY <2>2 DEF Frames
    <2> QED  BY <2>1, <2>3
  <1>4. \A n \in Nodes : "DEFINED" \in A[n] => "DEFINED" \in B[n]
    OBVIOUS
  <1>5. \A i \in 1 .. Len(t) : Says(t[i]) => B[t[i].node] = A[t[i].node]
    BY <1>1, <1>3
  <1>6. Chained(t, B)
    BY <1>1, <1>2, <1>4, <1>5, ChainSame
  <1> QED  BY <1>0, <1>6

\* A call enters prepare_attributes(n), which prepares nothing in progress.
LEMMA ChainEnters ==
    ASSUME tree \in Trees, NEW s \in Seq(Frames), NEW A, NEW B, Chained(s, A),
           NEW n \in Nodes, "DEFINED" \notin A[n], "DEFINED" \in B[n],
           \A m \in Nodes : m # n => B[m] = A[m]
    PROVE  Chained(s, B)
  <1>1. \A i \in 1 .. Len(s) : s[i] \in Frames
    BY ElementOfSeq
  <1>2. \A i \in 1 .. Len(s) : s[i].node \in Nodes /\ s[i].node # n
    BY <1>1 DEF Frames, Chained
  <1>3. \A i \in 1 .. Len(s) : Says(s[i]) => B[s[i].node] = A[s[i].node]
    BY <1>2
  <1>4. \A m \in Nodes : "DEFINED" \in A[m] => "DEFINED" \in B[m]
    OBVIOUS
  <1> QED  BY <1>3, <1>4, ChainSame

\* The next state satisfies OInv when its stack and attributes, computed in this
\* one, do.
LEMMA NextOrder ==
    ASSUME tree' = tree, NEW s, NEW A, stack' = s, attrs' = A, InOrder(s, A)
    PROVE  OInv'
  BY SameOrder DEF OInv

LEMMA CallOrder ==
    ASSUME IInv, CInv, OInv, Plain, stack # << >>, NEW q, q = Top, NEW t, t = Below
    PROVE  /\ tree \in Trees /\ q \in Frames /\ stack \in Seq(Frames) /\ t \in Seq(Frames)
           /\ q.node \in Nodes /\ q.list \in Nodes /\ q.at \in Nodes
           /\ q.pos \in Nat \ {0} /\ q.todo \in Seq(Nodes)
           /\ tree.kind[q.node] # "program" /\ tree.kind[q.at] # "program"
           /\ attrs \in [Nodes -> SUBSET AttributeSet]
           /\ Chained(stack, attrs) /\ Answered(attrs, stack) /\ TopOwn(stack, attrs)
           /\ FrameOK(q, {}, looped)
           /\ Placed(q, attrs) /\ "DEFINED" \in attrs[q.node]
           /\ t = << >> => ~ Identifies(q)
           /\ t # << >> => MadeBy(Last(t), q, attrs)
           /\ \A i \in 1 .. Len(t) : Apart(t[i], q) /\ t[i] \in Frames
           /\ \A i \in 1 .. Len(t) : t[i] = stack[i]
           /\ Len(stack) = Len(t) + 1 /\ stack[Len(stack)] = q /\ Len(t) \in Nat
  <1>1. Chained(stack, attrs) /\ Answered(attrs, stack) /\ TopOwn(stack, attrs)
    BY DEF OInv, InOrder
  <1>2. /\ tree \in Trees /\ q \in Frames /\ stack \in Seq(Frames)
        /\ q.node \in Nodes /\ q.list \in Nodes /\ q.at \in Nodes
        /\ q.pos \in Nat \ {0} /\ q.todo \in Seq(Nodes)
        /\ tree.kind[q.at] # "program" /\ FrameOK(q, {}, looped)
    BY CallFacts
  <1>3. tree.kind[q.node] # "program"
    BY TopFacts, FrameFacts
  <1>4. q = Last(stack) /\ t = Front(stack)
    BY DEF Top, Below
  <1>5. /\ t \in Seq(Frames) /\ Placed(q, attrs) /\ "DEFINED" \in attrs[q.node]
        /\ t = << >> => ~ Identifies(q)
        /\ t # << >> => MadeBy(Last(t), q, attrs)
        /\ \A i \in 1 .. Len(t) : Apart(t[i], q)
        /\ \A i \in 1 .. Len(t) : t[i] = stack[i]
        /\ Len(stack) = Len(t) + 1 /\ stack[Len(stack)] = q
    BY <1>1, <1>2, <1>4, ChainTop
  <1>6. Len(t) \in Nat /\ \A i \in 1 .. Len(t) : t[i] \in Frames
    BY <1>5, ElementOfSeq, LenProperties
  <1> QED  BY <1>1, <1>2, <1>3, <1>5, <1>6 DEF IInv, SoundAttrs

\* The node of the innermost call is being prepared.
LEMMA TopPreparing ==
    ASSUME NEW s \in Seq(Frames), s # << >>, NEW A, Chained(s, A)
    PROVE  Preparing(Last(s).node, s)
  <1>1. PICK t, q : t = Front(s) /\ q = Last(s)
    OBVIOUS
  <1>2. /\ t \in Seq(Frames)
        /\ t = << >> => ~ Identifies(q)
        /\ t # << >> => MadeBy(Last(t), q, A)
        /\ \A i \in 1 .. Len(t) : t[i] = s[i]
        /\ Len(s) = Len(t) + 1 /\ s[Len(s)] = q
    BY <1>1, ChainTop
  <1>3. Len(t) \in Nat
    BY <1>2, LenProperties
  <1>4. CASE ~ Identifies(q)
    <2>1. Len(s) \in 1 .. Len(s)
      BY <1>2, <1>3
    <2> QED  BY <1>1, <1>2, <1>4, <2>1 DEF Preparing
  <1>5. CASE Identifies(q)
    <2>1. t # << >> /\ Last(t).stage = "own" /\ Last(t).node = q.node
      BY <1>2, <1>5 DEF MadeBy
    <2>2. Len(t) # 0
      BY <1>2, <2>1, EmptySeq
    <2>3. Len(t) \in 1 .. Len(t) /\ Len(t) \in 1 .. Len(s)
      BY <1>2, <1>3, <2>2
    <2>4. Last(t) = s[Len(t)]
      BY <1>2, <2>3 DEF Last
    <2>5. ~ Identifies(Last(t))
      BY <2>1 DEF Identifies
    <2> QED  BY <1>1, <2>1, <2>3, <2>4, <2>5 DEF Preparing
  <1> QED  BY <1>4, <1>5

\* The innermost call is changed into g, and the attributes of its node into B[n].
LEMMA ReplaceOrder ==
    ASSUME IInv, CInv, OInv, Plain, stack # << >>,
           NEW g \in Frames, g.node = Top.node, Identifies(g) <=> Identifies(Top),
           NEW B, \A n \in Nodes : n # Top.node => B[n] = attrs[n],
           "DEFINED" \in B[Top.node],
           Placed(g, B), Below # << >> => MadeBy(Last(Below), g, B)
    PROVE  /\ Replace(g) \in Seq(Frames) /\ Replace(g) # << >> /\ Last(Replace(g)) = g
           /\ Chained(Replace(g), B) /\ Answered(B, Replace(g))
  <1>1. PICK q, t, u : q = Top /\ t = Below /\ u = Replace(g)
    OBVIOUS
  <1>2. /\ tree \in Trees /\ q \in Frames /\ stack \in Seq(Frames) /\ t \in Seq(Frames)
        /\ q.node \in Nodes
        /\ Chained(stack, attrs) /\ Answered(attrs, stack)
        /\ t = << >> => ~ Identifies(q)
        /\ \A i \in 1 .. Len(t) : Apart(t[i], q)
    BY <1>1, CallOrder
  <1>3. u = Append(t, g) /\ q = Last(stack) /\ t = Front(stack)
    BY <1>1 DEF Replace, Below, Top
  <1>4. Chained(t, B)
    <2>1. "DEFINED" \in B[Last(stack).node]
      BY <1>1, <1>3
    <2>2. \A n \in Nodes : n # Last(stack).node => B[n] = attrs[n]
      BY <1>1, <1>3
    <2> QED  BY <1>2, <1>3, <2>1, <2>2, ChainBelow
  <1>5. \A i \in 1 .. Len(t) : Apart(t[i], g)
    BY <1>1, <1>2 DEF Apart
  <1>6. Chained(u, B)
    BY <1>1, <1>2, <1>3, <1>4, <1>5, ChainPush
  <1>7. u \in Seq(Frames) /\ u # << >> /\ Last(u) = g
    <2>1. /\ u \in Seq(Frames) /\ Len(u) = Len(t) + 1 /\ Len(t) \in Nat
          /\ u[Len(t) + 1] = g
      BY <1>2, <1>3, AppendProperties, LenProperties
    <2> QED  BY <2>1, EmptySeq DEF Last
  <1>8. \A n : Preparing(n, stack) => Preparing(n, u)
    BY <1>1, <1>2, <1>3, PreparingChange
  <1>9. Preparing(q.node, u)
    BY <1>2, <1>3, <1>8, TopPreparing
  <1>10. Answered(B, u)
    <2> SUFFICES ASSUME NEW n \in Nodes
                 PROVE  /\ "DEFINED" \notin B[n] => B[n] = {}
                        /\ "DEFINED" \in B[n] => Preparing(n, u) \/ B[n] = Expected(n)
      BY DEF Answered
    <2>1. CASE n = q.node
      BY <1>1, <1>9, <2>1
    <2>2. CASE n # q.node
      BY <1>1, <1>2, <1>8, <2>2 DEF Answered
    <2> QED  BY <2>1, <2>2
  <1> QED  BY <1>1, <1>6, <1>7, <1>10

\* A call of identifier_to_attrs() returns to the words of its node.
LEMMA IdentifiedOrder ==
    ASSUME IInv, CInv, OInv, Plain, stack # << >>, Identifies(Top),
           tree' = tree, attrs' = attrs, stack' = Below,
           attrs[Top.node] = OwnGives(Top.node)[Last(Below).pos - 1]
    PROVE  OInv'
  <1>1. PICK q, t, A : q = Top /\ t = Below /\ A = attrs
    OBVIOUS
  <1>2. /\ tree \in Trees /\ stack \in Seq(Frames) /\ t \in Seq(Frames)
        /\ Chained(stack, A) /\ Answered(A, stack)
        /\ "DEFINED" \in A[q.node]
        /\ t # << >> /\ MadeBy(Last(t), q, A)
    BY <1>1, CallOrder
  <1>3. q = Last(stack) /\ t = Front(stack)
    BY <1>1 DEF Below, Top
  <1>4. Chained(t, A)
    BY <1>2, <1>3, ChainBelow
  <1>5. TopOwn(t, A)
    <2>1. Last(t).node = q.node
      BY <1>1, <1>2 DEF MadeBy
    <2> QED  BY <1>1, <2>1 DEF TopOwn
  <1>6. \A n : Preparing(n, stack) => Preparing(n, t)
    BY <1>1, <1>2, <1>3, PreparingPop
  <1>7. Answered(A, t)
    BY <1>2, <1>6 DEF Answered
  <1> QED  BY <1>1, <1>4, <1>5, <1>7, NextOrder DEF InOrder

\* A call of prepare_attributes() returns, its node prepared.
LEMMA PreparedOrder ==
    ASSUME IInv, CInv, OInv, Plain, stack # << >>, ~ Identifies(Top),
           tree' = tree, stack' = Below,
           NEW S, S = Expected(Top.node), "DEFINED" \in S,
           attrs' = [attrs EXCEPT ![Top.node] = S]
    PROVE  OInv'
  <1>1. PICK q, t, B : q = Top /\ t = Below /\ B = attrs'
    OBVIOUS
  <1>2. /\ tree \in Trees /\ stack \in Seq(Frames) /\ t \in Seq(Frames) /\ q.node \in Nodes
        /\ Chained(stack, attrs) /\ Answered(attrs, stack)
        /\ attrs \in [Nodes -> SUBSET AttributeSet]
        /\ t # << >> => MadeBy(Last(t), q, attrs)
    BY <1>1, CallOrder
  <1>3. q = Last(stack) /\ t = Front(stack)
    BY <1>1 DEF Below, Top
  <1>4. B[q.node] = S /\ \A n \in Nodes : n # q.node => B[n] = attrs[n]
    BY <1>1, <1>2
  <1>5. Chained(t, B)
    <2>1. "DEFINED" \in B[Last(stack).node]
      BY <1>3, <1>4
    <2>2. \A n \in Nodes : n # Last(stack).node => B[n] = attrs[n]
      BY <1>3, <1>4
    <2> QED  BY <1>2, <1>3, <2>1, <2>2, ChainBelow
  <1>6. TopOwn(t, B)
    BY <1>1, <1>2 DEF MadeBy, TopOwn
  <1>7. \A n : Preparing(n, stack) => Preparing(n, t) \/ n = q.node
    BY <1>2, <1>3, PreparingPop
  <1>8. Answered(B, t)
    <2> SUFFICES ASSUME NEW n \in Nodes
                 PROVE  /\ "DEFINED" \notin B[n] => B[n] = {}
                        /\ "DEFINED" \in B[n] => Preparing(n, t) \/ B[n] = Expected(n)
      BY DEF Answered
    <2>1. CASE n = q.node
      BY <1>1, <1>4, <2>1
    <2>2. CASE n # q.node
      BY <1>2, <1>4, <1>7, <2>2 DEF Answered
    <2> QED  BY <2>1, <2>2
  <1> QED  BY <1>1, <1>5, <1>6, <1>8, NextOrder DEF InOrder

\* prepare_attributes(n) is called, under the calls of t: none is for n or for an
\* ancestor of it.
LEMMA EnterOrder ==
    ASSUME tree \in Trees, tree' = tree, attrs \in [Nodes -> SUBSET AttributeSet], Plain,
           NEW t \in Seq(Frames), NEW n \in Nodes, Enter(n, t),
           Chained(t, attrs'), Answered(attrs, t), TopOwn(t, attrs),
           t # << >> => Last(t).stage \in {"inherit", "search", "found"},
           t # << >> /\ Last(t).stage = "inherit" => n = tree.parent[Last(t).node],
           \A i \in 1 .. Len(t) : t[i].node \notin Ancestors(n),
           \A i \in 1 .. Len(t) : "DEFINED" \in attrs[t[i].node]
    PROVE  OInv'
  <1>1. PICK A, B : A = attrs /\ B = attrs'
    OBVIOUS
  <1>2. CASE Prepared(n)
    <2>1. stack' = t /\ B = A
      BY <1>1, <1>2, Zenon DEF Enter
    <2> QED  BY <1>1, <2>1, NextOrder DEF InOrder
  <1>3. CASE ~ Prepared(n)
    <2>1. n # NoNode /\ "DEFINED" \notin A[n]
      BY <1>1, <1>3, NoNodeAssumption DEF Prepared
    <2>2. B = [A EXCEPT ![n] = @ \union {"DEFINED"}]
      BY <1>1, <1>3, <2>1, Zenon DEF Enter
    <2>3. B[n] = {"DEFINED"} /\ \A m \in Nodes : m # n => B[m] = A[m]
      <3>1. A[n] = {}
        BY <1>1, <2>1 DEF Answered
      <3> QED  BY <1>1, <2>2, <3>1
    <2>4. CASE tree.kind[n] = "program"
      <3>1. stack' = t
        BY <1>3, <2>1, <2>4, Zenon DEF Enter
      <3>2. Expected(n) = {"DEFINED"}
        BY <2>4, ExpectedEquation
      <3>3. Answered(B, t)
        BY <1>1, <2>3, <3>2 DEF Answered
      <3>4. TopOwn(t, B)
        BY DEF TopOwn
      <3> QED  BY <1>1, <3>1, <3>3, <3>4, NextOrder DEF InOrder
    <2>5. CASE tree.kind[n] # "program"
      <3>1. PICK f, u : f = OwnFrame(n) /\ u = Append(t, f)
        OBVIOUS
      <3>2. stack' = u
        BY <1>3, <2>1, <2>5, <3>1, Zenon DEF Enter
      <3>3. /\ f \in Frames /\ f.node = n /\ f.stage = "own" /\ f.pos = 1
            /\ ~ Identifies(f)
        BY <3>1 DEF OwnFrame, Frames, Identifies
      <3>4. Placed(f, B)
        <4>1. Len(tree.words[n]) \in Nat
          BY TreeFacts, LenProperties
        <4>2. f.pos - 1 <= Len(tree.words[f.node])
          BY <3>3, <4>1
        <4> QED  BY <3>3, <4>2 DEF Placed
      <3>5. t # << >> => MadeBy(Last(t), f, B)
        BY <3>3 DEF MadeBy
      <3>6. \A i \in 1 .. Len(t) : Apart(t[i], f)
        BY <1>1, <2>1, <3>3 DEF Apart
      <3>7. Chained(u, B)
        <4>1. "DEFINED" \in B[f.node]
          BY <2>3, <3>3
        <4> QED  BY <1>1, <3>1, <3>3, <3>4, <3>5, <3>6, <4>1, ChainPush
      <3>8. u # << >> /\ Last(u) = f
        <4>1. /\ u \in Seq(Frames) /\ Len(u) = Len(t) + 1 /\ Len(t) \in Nat
              /\ u[Len(t) + 1] = f
          BY <3>1, <3>3, AppendProperties, LenProperties
        <4> QED  BY <4>1, EmptySeq DEF Last
      <3>9. TopOwn(u, B)
        <4>1. OwnGives(n)[0] = {"DEFINED"}
          BY OwnGivesFacts
        <4>2. f.pos - 1 = 0
          BY <3>3
        <4> QED  BY <2>3, <3>3, <3>8, <4>1, <4>2 DEF TopOwn
      <3>10. Answered(B, u)
        <4>1. /\ \A m : Preparing(m, t) => Preparing(m, u)
              /\ Preparing(n, u)
          BY <3>1, <3>3, PreparingPush
        <4> QED  BY <1>1, <2>3, <4>1 DEF Answered
      <3> QED  BY <1>1, <3>2, <3>7, <3>9, <3>10, NextOrder DEF InOrder
    <2> QED  BY <2>4, <2>5
  <1> QED  BY <1>2, <1>3

\* What is said of the calls of t and of a call g above them.
LEMMA EachCall ==
    ASSUME NEW t \in Seq(Frames), NEW g \in Frames, NEW S, g \in S,
           \A i \in 1 .. Len(t) : t[i] \in S
    PROVE  \A i \in 1 .. Len(Append(t, g)) : Append(t, g)[i] \in S
  <1>1. PICK u, k : u = Append(t, g) /\ k = Len(t)
    OBVIOUS
  <1>2. /\ Len(u) = k + 1 /\ k \in Nat
        /\ \A i \in 1 .. k + 1 : u[i] = IF i = k + 1 THEN g ELSE t[i]
    BY <1>1, PushFrame
  <1>3. \A i \in 1 .. k + 1 : i = k + 1 \/ i \in 1 .. k
    BY <1>2
  <1>4. \A i \in 1 .. Len(u) : u[i] \in S
    BY <1>1, <1>2, <1>3
  <1> QED  BY <1>1, <1>4

\* Entering prepare_attributes() keeps what is said of calls in progress.
LEMMA EnterGrows ==
    ASSUME tree \in Trees, attrs \in [Nodes -> SUBSET AttributeSet],
           NEW u \in Seq(Frames), Chained(u, attrs), NEW n \in Nodes, NEW t, Enter(n, t)
    PROVE  /\ Chained(u, attrs') /\ "DEFINED" \in attrs'[n]
           /\ \A m \in Nodes : m # n => attrs'[m] = attrs[m]
  <1>1. CASE Prepared(n)
    <2>1. attrs' = attrs
      BY <1>1, Zenon DEF Enter
    <2> QED  BY <1>1, <2>1 DEF Prepared
  <1>2. CASE ~ Prepared(n)
    <2>1. n # NoNode
      BY NoNodeAssumption
    <2>2. attrs' = [attrs EXCEPT ![n] = @ \union {"DEFINED"}]
      BY <1>2, <2>1, Zenon DEF Enter
    <2>3. "DEFINED" \in attrs'[n] /\ \A m \in Nodes : m # n => attrs'[m] = attrs[m]
      BY <2>2
    <2>4. Chained(u, attrs')
      BY <1>2, <2>3, ChainEnters DEF Prepared
    <2> QED  BY <2>3, <2>4
  <1> QED  BY <1>1, <1>2

LEMMA RequestOrder ==
    ASSUME IInv, CInv, OInv, Plain, NEW n \in Nodes, Request(n)
    PROVE  OInv'
  <1>1. /\ tree \in Trees /\ tree' = tree /\ attrs \in [Nodes -> SUBSET AttributeSet]
        /\ stack = << >> /\ Enter(n, stack)
        /\ Answered(attrs, stack)
    BY DEF IInv, SoundAttrs, Request, OInv, InOrder
  <1>2. PICK t : t = stack
    OBVIOUS
  <1>3. t = << >> /\ t \in Seq(Frames) /\ Len(t) = 0
    BY <1>1, <1>2, EmptySeq
  <1>4. Chained(t, attrs') /\ TopOwn(t, attrs)
    BY <1>3 DEF Chained, TopOwn
  <1>5. Enter(n, t) /\ Answered(attrs, t)
    BY <1>1, <1>2
  <1>6. /\ \A i \in 1 .. Len(t) : t[i].node \notin Ancestors(n)
        /\ \A i \in 1 .. Len(t) : "DEFINED" \in attrs[t[i].node]
    BY <1>3
  <1> QED  BY <1>1, <1>3, <1>4, <1>5, <1>6, EnterOrder

\* The words of the innermost call.
LEMMA OwnFacts ==
    ASSUME IInv, CInv, OInv, Plain, stack # << >>, NEW q, q = Top, q.stage = "own"
    PROVE  /\ attrs[q.node] = OwnGives(q.node)[q.pos - 1]
           /\ q.pos <= Len(tree.words[q.node]) =>
                /\ q.pos \in 1 .. Len(tree.words[q.node])
                /\ OwnGives(q.node)[q.pos] =
                     WordGives(attrs[q.node], q.node, tree.words[q.node][q.pos])
           /\ q.pos > Len(tree.words[q.node]) => attrs[q.node] = Own(q.node)
           /\ ~ Identifies(q)
  <1>1. /\ tree \in Trees /\ q.node \in Nodes /\ q.pos \in Nat \ {0}
        /\ Placed(q, attrs) /\ TopOwn(stack, attrs)
    BY CallOrder
  <1>2. attrs[q.node] = OwnGives(q.node)[q.pos - 1]
    BY <1>1 DEF TopOwn, Top
  <1>3. PICK m \in Nat : m = Len(tree.words[q.node])
    BY <1>1, TreeFacts, LenProperties
  <1>4. q.pos - 1 <= m
    BY <1>1, <1>3 DEF Placed
  <1>5. q.pos <= m => q.pos \in 1 .. m
    BY <1>1
  <1>6. q.pos > m => q.pos - 1 = m
    BY <1>1, <1>4
  <1>7. \A k \in 1 .. m : OwnGives(q.node)[k] =
                              WordGives(OwnGives(q.node)[k - 1], q.node, tree.words[q.node][k])
    BY <1>1, <1>3, OwnGivesFacts
  <1> QED  BY <1>2, <1>3, <1>5, <1>6, <1>7 DEF Own, Identifies

LEMMA OwnWordOrder ==
    ASSUME IInv, CInv, OInv, Plain, OwnWord
    PROVE  OInv'
  <1>1. PICK q, g, w, n, k : /\ q = Top /\ g = [q EXCEPT !.pos = @ + 1]
                             /\ w = tree.words[q.node][q.pos] /\ n = q.node /\ k = q.pos
    OBVIOUS
  <1>2. /\ stack # << >> /\ q.stage = "own" /\ tree' = tree
        /\ k <= Len(tree.words[n])
    BY <1>1 DEF OwnWord, Running
  <1>3. /\ tree \in Trees /\ q \in Frames /\ n \in Nodes /\ k \in Nat \ {0}
        /\ attrs \in [Nodes -> SUBSET AttributeSet]
        /\ "DEFINED" \in attrs[n] /\ Below \in Seq(Frames)
        /\ Below # << >> => MadeBy(Last(Below), q, attrs)
        /\ \A i \in 1 .. Len(Below) : Apart(Below[i], q)
    BY <1>1, <1>2, CallOrder
  <1>4. /\ attrs[n] = OwnGives(n)[k - 1]
        /\ k \in 1 .. Len(tree.words[n])
        /\ OwnGives(n)[k] = WordGives(attrs[n], n, w)
        /\ ~ Identifies(q)
    BY <1>1, <1>2, OwnFacts
  <1>5. /\ g \in Frames /\ g.node = n /\ g.list = q.list /\ g.stage = "own"
        /\ g.pos = k + 1
    BY <1>1, <1>2, <1>3 DEF Frames
  <1>6. g.pos - 1 = k /\ g.pos - 2 = k - 1
    BY <1>3, <1>5
  <1>7. ~ Identifies(g)
    BY <1>5 DEF Identifies
  <1>8. \A B : Placed(g, B)
    BY <1>2, <1>5, <1>6 DEF Placed
  <1>9. \A B : Below # << >> => MadeBy(Last(Below), g, B)
    BY <1>1, <1>3, <1>4, <1>5, <1>7 DEF MadeBy
  <1>10. CASE w \in Literals /\ Mark(n, w) /\ stack' = Replace(g)
    <2>1. PICK B : B = attrs'
      OBVIOUS
    <2>2. /\ B[n] = SetAttribute(attrs[n], w)
          /\ \A m \in Nodes : m # n => B[m] = attrs[m]
      BY <1>3, <1>10, <2>1 DEF Mark
    <2>3. B[n] = OwnGives(n)[k]
      BY <1>4, <1>10, <2>2 DEF WordGives
    <2>4. "DEFINED" \in B[n]
      BY <1>3, <2>2 DEF SetAttribute
    <2>5. /\ Replace(g) # << >> /\ Last(Replace(g)) = g
          /\ Chained(Replace(g), B) /\ Answered(B, Replace(g))
      BY <1>1, <1>2, <1>4, <1>5, <1>7, <1>8, <1>9, <2>2, <2>4, ReplaceOrder
    <2>6. TopOwn(Replace(g), B)
      BY <1>5, <1>6, <2>3, <2>5 DEF TopOwn
    <2> QED  BY <1>2, <1>10, <2>1, <2>5, <2>6, NextOrder DEF InOrder
  <1>11. CASE /\ w \in Nodes
              /\ stack' = Append(Replace(g), SearchFrame(n, w))
              /\ attrs' = attrs
    <2>1. PICK u, f, A, v : /\ u = Replace(g) /\ f = SearchFrame(n, w) /\ A = attrs
                            /\ v = Append(u, f)
      OBVIOUS
    <2>2. /\ u \in Seq(Frames) /\ u # << >> /\ Last(u) = g
          /\ Chained(u, A) /\ Answered(A, u)
      BY <1>1, <1>2, <1>3, <1>4, <1>5, <1>7, <1>8, <1>9, <2>1, ReplaceOrder
    <2>3. /\ f \in Frames /\ f.node = n /\ f.stage = "search" /\ f.list = w /\ f.at = n
          /\ f.todo = << >> /\ f.pos = 1
      BY <1>3, <1>11, <2>1 DEF SearchFrame, Frames
    <2>4. Identifies(f) /\ ~ WalkingFrame(f) /\ Range(f.todo) = {}
      BY <2>3 DEF Identifies, WalkingFrame, Range
    <2>5. Placed(f, A)
      BY <2>3, <2>4 DEF Placed
    <2>6. MadeBy(g, f, A)
      BY <1>1, <1>4, <1>5, <1>6, <2>1, <2>3, <2>4 DEF MadeBy
    <2>7. \A i \in 1 .. Len(u) : Apart(u[i], f)
      <3>1. PICK S : S = {h \in Frames : Apart(h, f)}
        OBVIOUS
      <3>2. g \in S
        BY <1>3, <1>5, <2>3, <2>4, <3>1, NotAbove DEF Apart
      <3>3. \A i \in 1 .. Len(Below) : Below[i] \in S
        <4>1. \A i \in 1 .. Len(Below) : Below[i] \in Frames
          BY <1>3, ElementOfSeq
        <4>2. \A i \in 1 .. Len(Below) : Apart(Below[i], f)
          BY <1>1, <1>3, <2>3, <2>4 DEF Apart
        <4> QED  BY <3>1, <4>1, <4>2
      <3>4. \A i \in 1 .. Len(u) : u[i] \in S
        BY <1>3, <1>5, <2>1, <3>2, <3>3, EachCall DEF Replace
      <3> QED  BY <3>1, <3>4
    <2>8. Chained(v, A)
      BY <1>3, <2>1, <2>2, <2>3, <2>5, <2>6, <2>7, ChainPush
    <2>9. v # << >> /\ Last(v) = f
      <3>1. /\ v \in Seq(Frames) /\ Len(v) = Len(u) + 1 /\ Len(u) \in Nat
            /\ v[Len(u) + 1] = f
        BY <2>1, <2>2, <2>3, AppendProperties, LenProperties
      <3> QED  BY <3>1, EmptySeq DEF Last
    <2>10. TopOwn(v, A)
      BY <2>3, <2>9 DEF TopOwn
    <2>11. Answered(A, v)
      <3>1. \A m : Preparing(m, u) => Preparing(m, v)
        BY <2>1, <2>2, <2>3, PreparingPush
      <3> QED  BY <2>2, <3>1 DEF Answered
    <2> QED  BY <1>2, <1>11, <2>1, <2>8, <2>10, <2>11, NextOrder DEF InOrder
  <1> QED  BY <1>1, <1>10, <1>11 DEF OwnWord

\* What is inherited never takes DEFINED away.
LEMMA CopyKeeps ==
    ASSUME NEW S, "DEFINED" \in S, NEW a, a # "DEFINED", NEW P
    PROVE  /\ "DEFINED" \in SetAttribute(S, a)
           /\ "DEFINED" \in CopyAttribute(S, a, P)
  <1>1. "DEFINED" \in SetAttribute(S, a)
    BY DEF SetAttribute
  <1> QED  BY <1>1 DEF CopyAttribute

LEMMA InheritedKeeps ==
    ASSUME NEW S, "DEFINED" \in S, NEW P, NEW k
    PROVE  "DEFINED" \in Inherited(S, P, k)
  <1> DEFINE fromClass == k = "class"
             visible == IF fromClass /\ S \intersect Visibility = {}
                        THEN CopyAttribute(CopyAttribute(CopyAttribute(
                                 S, "PUBLIC", P), "PRIVATE", P), "PROTECTED", P)
                        ELSE S
             typed == IF fromClass /\ visible \intersect MemberTypes = {}
                      THEN CopyAttribute(CopyAttribute(CopyAttribute(
                               visible, "STATIC", P), "ABSTRACT", P), "VIRTUAL", P)
                      ELSE visible
             final == IF "FINAL" \in P THEN SetAttribute(typed, "FINAL") ELSE typed
             native == IF "NATIVE" \in P THEN SetAttribute(final, "NATIVE") ELSE final
             listed == IF fromClass THEN CopyAttribute(native, "ENUMERABLE", P) ELSE native
             false == IF "FALSE" \in P THEN SetAttribute(listed \ {"TRUE"}, "FALSE")
                      ELSE listed
  <1>1. "DEFINED" \in visible
    <2>1. "DEFINED" \in CopyAttribute(S, "PUBLIC", P)
      BY CopyKeeps
    <2>2. "DEFINED" \in CopyAttribute(CopyAttribute(S, "PUBLIC", P), "PRIVATE", P)
      BY <2>1, CopyKeeps
    <2>3. "DEFINED" \in CopyAttribute(CopyAttribute(CopyAttribute(
                            S, "PUBLIC", P), "PRIVATE", P), "PROTECTED", P)
      BY <2>2, CopyKeeps
    <2> QED  BY <2>3
  <1> HIDE DEF visible
  <1>2. "DEFINED" \in typed
    <2>1. "DEFINED" \in CopyAttribute(visible, "STATIC", P)
      BY <1>1, CopyKeeps
    <2>2. "DEFINED" \in CopyAttribute(CopyAttribute(visible, "STATIC", P), "ABSTRACT", P)
      BY <2>1, CopyKeeps
    <2>3. "DEFINED" \in CopyAttribute(CopyAttribute(CopyAttribute(
                            visible, "STATIC", P), "ABSTRACT", P), "VIRTUAL", P)
      BY <2>2, CopyKeeps
    <2> QED  BY <1>1, <2>3
  <1> HIDE DEF typed
  <1>3. "DEFINED" \in final
    BY <1>2, CopyKeeps
  <1> HIDE DEF final
  <1>4. "DEFINED" \in native
    BY <1>3, CopyKeeps
  <1> HIDE DEF native
  <1>5. "DEFINED" \in listed
    BY <1>4, CopyKeeps
  <1> HIDE DEF listed
  <1>6. "DEFINED" \in false
    <2> "DEFINED" \in listed \ {"TRUE"}
      BY <1>5
    <2> QED  BY <1>5, CopyKeeps
  <1> HIDE DEF false
  <1>7. "DEFINED" \in (IF "DYNAMIC" \in P THEN SetAttribute(false, "DYNAMIC") ELSE false)
    BY <1>6, CopyKeeps
  <1> USE DEF visible, typed, final, native, listed, false
  <1> QED  BY <1>7, Zenon DEF Inherited

LEMMA NativeKeeps ==
    ASSUME NEW n, NEW S, "DEFINED" \in S
    PROVE  "DEFINED" \in WithoutNative(n, S)
  BY DEF WithoutNative

LEMMA OwnDoneOrder ==
    ASSUME IInv, CInv, OInv, Plain, OwnDone
    PROVE  OInv'
  <1>1. PICK q, g, n, p, t, u : /\ q = Top /\ g = [q EXCEPT !.stage = "inherit"]
                                /\ n = q.node /\ p = tree.parent[n]
                                /\ t = Below /\ u = Replace(g)
    OBVIOUS
  <1>2. /\ stack # << >> /\ q.stage = "own" /\ tree' = tree
        /\ q.pos > Len(tree.words[n])
    BY <1>1 DEF OwnDone, Running
  <1>3. /\ tree \in Trees /\ q \in Frames /\ n \in Nodes /\ tree.kind[n] # "program"
        /\ attrs \in [Nodes -> SUBSET AttributeSet]
        /\ "DEFINED" \in attrs[n] /\ t \in Seq(Frames) /\ stack \in Seq(Frames)
        /\ t # << >> => MadeBy(Last(t), q, attrs)
        /\ Chained(stack, attrs) /\ Answered(attrs, stack)
        /\ \A i \in 1 .. Len(t) : Apart(t[i], q) /\ t[i] \in Frames
    BY <1>1, <1>2, CallOrder
  <1>4. attrs[n] = Own(n) /\ ~ Identifies(q)
    BY <1>1, <1>2, OwnFacts
  <1>5. CASE Barrier(n) /\ attrs' = [attrs EXCEPT ![n] = WithoutNative(n, @)] /\ stack' = t
    <2>1. PICK S : S = WithoutNative(n, attrs[n])
      OBVIOUS
    <2>2. S = Expected(n)
      BY <1>3, <1>4, <1>5, <2>1, ExpectedEquation
    <2>3. "DEFINED" \in S
      BY <1>3, <2>1, NativeKeeps
    <2>4. attrs' = [attrs EXCEPT ![n] = S]
      BY <1>5, <2>1
    <2> QED  BY <1>1, <1>2, <1>4, <1>5, <2>2, <2>3, <2>4, PreparedOrder
  <1>6. CASE ~ Barrier(n) /\ Enter(p, u)
    <2>1. p \in Nodes /\ p # n
      <3>1. p \in Nodes
        BY <1>1, <1>3, <1>6, TreeFacts DEF Barrier
      <3> QED  BY <1>1, <1>3, <3>1, AncestorsParent, NotAbove
    <2>2. Ancestors(n) = {p} \union Ancestors(p) /\ n \notin Ancestors(n)
      BY <1>1, <1>3, <2>1, AncestorsParent, NotAbove
    <2>3. /\ g \in Frames /\ g.node = n /\ g.stage = "inherit" /\ ~ Identifies(g)
      BY <1>1, <1>3 DEF Frames, Identifies
    <2>4. Chained(t, attrs)
      <3>1. t = Front(stack) /\ q = Last(stack)
        BY <1>1 DEF Below, Top
      <3> QED  BY <1>1, <1>2, <1>3, <3>1, ChainBelow
    <2>5. /\ Chained(t, attrs') /\ "DEFINED" \in attrs'[p] /\ attrs'[n] = attrs[n]
      BY <1>3, <1>6, <2>1, <2>4, EnterGrows
    <2>6. u = Append(t, g)
      BY <1>1 DEF Replace
    <2>7. PICK B : B = attrs'
      OBVIOUS
    <2>8. Placed(g, B)
      BY <1>1, <1>4, <1>6, <2>3, <2>5, <2>7 DEF Placed
    <2>9. t # << >> => MadeBy(Last(t), g, B)
      BY <1>1, <1>3, <1>4, <2>3 DEF MadeBy
    <2>10. \A i \in 1 .. Len(t) : Apart(t[i], g)
      BY <1>1, <1>3, <1>4, <2>3 DEF Apart
    <2>11. t = << >> => ~ Identifies(g)
      BY <2>3
    <2>12. Chained(u, B)
      <3>1. "DEFINED" \in B[g.node]
        BY <1>3, <2>3, <2>5, <2>7
      <3>2. Chained(t, B)
        BY <2>5, <2>7
      <3> QED  BY <1>3, <2>3, <2>6, <2>8, <2>9, <2>10, <2>11, <3>1, <3>2, ChainPush
    <2>13. /\ u \in Seq(Frames) /\ u # << >> /\ Last(u) = g
      <3>1. /\ u \in Seq(Frames) /\ Len(u) = Len(t) + 1 /\ Len(t) \in Nat
            /\ u[Len(t) + 1] = g
        BY <1>3, <2>3, <2>6, AppendProperties, LenProperties
      <3> QED  BY <3>1, EmptySeq DEF Last
    <2>14. Answered(attrs, u)
      <3>1. g.node = Last(stack).node /\ (Identifies(g) <=> Identifies(Last(stack)))
        BY <1>1, <1>4, <2>3 DEF Top
      <3>2. \A m : Preparing(m, stack) => Preparing(m, Append(Front(stack), g))
        BY <1>2, <1>3, <2>3, <3>1, PreparingChange
      <3>3. u = Append(Front(stack), g)
        BY <1>1, <2>6 DEF Below
      <3> QED  BY <1>3, <3>2, <3>3 DEF Answered
    <2>15. TopOwn(u, attrs)
      BY <2>3, <2>13 DEF TopOwn
    <2>16. \A i \in 1 .. Len(u) : /\ u[i].node \notin Ancestors(p)
                                  /\ "DEFINED" \in attrs[u[i].node]
      <3>1. PICK S : S = {h \in Frames : h.node \notin Ancestors(p) /\ "DEFINED" \in attrs[h.node]}
        OBVIOUS
      <3>2. g \in S
        BY <1>3, <2>2, <2>3, <3>1
      <3>3. \A i \in 1 .. Len(t) : t[i] \in S
        <4>1. \A i \in 1 .. Len(t) : "DEFINED" \in attrs[t[i].node]
          BY <2>4 DEF Chained
        <4>2. \A i \in 1 .. Len(t) : t[i].node \notin Ancestors(p)
          BY <1>1, <1>3, <2>2 DEF Apart
        <4> QED  BY <1>3, <3>1, <4>1, <4>2
      <3>4. \A i \in 1 .. Len(u) : u[i] \in S
        BY <1>3, <2>3, <2>6, <3>2, <3>3, EachCall
      <3> QED  BY <3>1, <3>4
    <2>17. u # << >> => /\ Last(u).stage \in {"inherit", "search", "found"}
                        /\ Last(u).stage = "inherit" => p = tree.parent[Last(u).node]
      BY <1>1, <2>3, <2>13
    <2>18. Chained(u, attrs')
      BY <2>7, <2>12
    <2> QED  BY <1>2, <1>3, <1>6, <2>1, <2>13, <2>14, <2>15, <2>16, <2>17, <2>18, EnterOrder
  <1> QED  BY <1>1, <1>5, <1>6, Zenon DEF OwnDone

LEMMA InheritOrder ==
    ASSUME IInv, CInv, OInv, Plain, Inherit
    PROVE  OInv'
  <1>1. PICK q, n, p, t : q = Top /\ n = q.node /\ p = tree.parent[n] /\ t = Below
    OBVIOUS
  <1>2. /\ stack # << >> /\ q.stage = "inherit" /\ tree' = tree /\ stack' = t
    BY <1>1 DEF Inherit, Running
  <1>3. /\ tree \in Trees /\ n \in Nodes /\ tree.kind[n] # "program"
        /\ "DEFINED" \in attrs[n] /\ Placed(q, attrs)
        /\ Answered(attrs, stack)
        /\ \A i \in 1 .. Len(t) : Apart(t[i], q)
        /\ \A i \in 1 .. Len(t) : t[i] = stack[i]
        /\ Len(stack) = Len(t) + 1 /\ stack[Len(stack)] = q /\ Len(t) \in Nat
    BY <1>1, <1>2, CallOrder
  <1>4. ~ Barrier(n) /\ "DEFINED" \in attrs[p] /\ attrs[n] = Own(n)
    BY <1>1, <1>2, <1>3 DEF Placed
  <1>5. p \in Nodes
    BY <1>1, <1>3, <1>4, TreeFacts DEF Barrier
  <1>6. p \in Ancestors(n) /\ n \notin Ancestors(n)
    BY <1>1, <1>3, <1>5, AncestorsParent, NotAbove
  <1>7. ~ Preparing(p, stack)
    <2>1. \A i \in 1 .. Len(stack) : i \in 1 .. Len(t) \/ i = Len(stack)
      BY <1>3
    <2>2. \A i \in 1 .. Len(t) : stack[i].node # p
      BY <1>1, <1>3, <1>6 DEF Apart
    <2>3. stack[Len(stack)].node # p
      BY <1>1, <1>3, <1>6
    <2> QED  BY <2>1, <2>2, <2>3 DEF Preparing
  <1>8. attrs[p] = Expected(p)
    BY <1>3, <1>4, <1>5, <1>7 DEF Answered
  <1>9. PICK S : S = WithoutNative(n, Inherited(attrs[n], attrs[p], tree.kind[p]))
    OBVIOUS
  <1>10. S = Expected(n)
    BY <1>1, <1>3, <1>4, <1>8, <1>9, ExpectedEquation
  <1>11. "DEFINED" \in S
    BY <1>3, <1>9, InheritedKeeps, NativeKeeps
  <1>12. attrs' = [attrs EXCEPT ![n] = S]
    BY <1>1, <1>9 DEF Inherit
  <1>13. ~ Identifies(q)
    BY <1>2 DEF Identifies
  <1> QED  BY <1>1, <1>2, <1>10, <1>11, <1>12, <1>13, PreparedOrder

\* The word a call of identifier_to_attrs() is for: before are the attributes of
\* the node before the word, after those after it.
Before(n, h) == OwnGives(n)[h.pos - 2]
After(n, h) == OwnGives(n)[h.pos - 1]

LEMMA WordFacts ==
    ASSUME IInv, CInv, OInv, Plain, stack # << >>, NEW q, q = Top, Identifies(q),
           NEW h, h = Last(Below)
    PROVE  /\ Before(q.node, h) \in Marks
           /\ q.list \in Visible(q.node) =>
                After(q.node, h) = ListGives(Before(q.node, h), q.list)[Len(tree.items[q.list])]
           /\ q.list \notin Visible(q.node) => After(q.node, h) = Before(q.node, h)
           /\ attrs[q.node] = IF WalkingFrame(q)
                              THEN ListGives(Before(q.node, h), q.list)[q.pos - 1]
                              ELSE Before(q.node, h)
  <1>1. /\ tree \in Trees /\ q.node \in Nodes /\ q.list \in Nodes
        /\ Below \in Seq(Frames) /\ Below # << >> /\ MadeBy(h, q, attrs)
    BY CallOrder
  <1>2. h \in Frames
    BY <1>1, PopFrame, ElementOfSeq DEF Last
  <1>3. PICK m \in Nat : m = Len(tree.words[q.node])
    BY <1>1, TreeFacts, LenProperties
  <1>4. PICK k : k = h.pos - 1
    OBVIOUS
  <1>5. /\ k \in 1 .. m /\ q.list = tree.words[q.node][k]
        /\ attrs[q.node] = IF WalkingFrame(q)
                           THEN ListGives(Before(q.node, h), q.list)[q.pos - 1]
                           ELSE Before(q.node, h)
    BY <1>1, <1>3, <1>4 DEF MadeBy, Before
  <1>6. k - 1 = h.pos - 2 /\ k - 1 \in 0 .. m
    <2>1. h.pos \in Nat
      BY <1>2 DEF Frames
    <2> QED  BY <1>4, <1>5, <2>1
  <1>7. OwnGives(q.node)[k - 1] \in Marks
    BY <1>1, <1>3, <1>6, OwnGivesFacts
  <1>8. OwnGives(q.node)[k] = WordGives(OwnGives(q.node)[k - 1], q.node, q.list)
    BY <1>1, <1>3, <1>5, OwnGivesFacts
  <1>9. q.list \notin Literals
    BY <1>1, NotDefined
  <1>10. Before(q.node, h) = OwnGives(q.node)[k - 1] /\ After(q.node, h) = OwnGives(q.node)[k]
    BY <1>4, <1>6 DEF Before, After
  <1> QED  BY <1>5, <1>7, <1>8, <1>9, <1>10 DEF WordGives

\* A call of identifier_to_attrs() goes on, for the same word.
LEMMA IdentifyingOrder ==
    ASSUME IInv, CInv, OInv, Plain, stack # << >>, Identifies(Top),
           NEW g \in Frames, g.node = Top.node, g.list = Top.list, Identifies(g),
           NEW B, \A n \in Nodes : n # Top.node => B[n] = attrs[n],
           "DEFINED" \in B[Top.node], Placed(g, B),
           B[Top.node] = IF WalkingFrame(g)
                         THEN ListGives(Before(g.node, Last(Below)), g.list)[g.pos - 1]
                         ELSE Before(g.node, Last(Below))
    PROVE  /\ Replace(g) \in Seq(Frames) /\ Replace(g) # << >> /\ Last(Replace(g)) = g
           /\ InOrder(Replace(g), B)
  <1>1. PICK q, h : q = Top /\ h = Last(Below)
    OBVIOUS
  <1>2. Below # << >> => MadeBy(h, q, attrs)
    BY <1>1, CallOrder
  <1>3. Below # << >> => MadeBy(h, g, B)
    BY <1>1, <1>2 DEF MadeBy, Before
  <1>4. /\ Replace(g) \in Seq(Frames) /\ Replace(g) # << >> /\ Last(Replace(g)) = g
        /\ Chained(Replace(g), B) /\ Answered(B, Replace(g))
    BY <1>1, <1>3, ReplaceOrder
  <1>5. g.stage # "own"
    BY DEF Identifies
  <1>6. TopOwn(Replace(g), B)
    BY <1>4, <1>5 DEF TopOwn
  <1> QED  BY <1>4, <1>6 DEF InOrder

\* No variable is being prepared by the calls in progress, below a search around it.
LEMMA NotDeclaring ==
    ASSUME IInv, CInv, OInv, Plain, stack # << >>, Identifies(Top),
           NEW c \in Nodes, tree.kind[c] = "var", tree.parent[c] \in Ancestors(Top.node),
           NEW i \in 1 .. Len(stack)
    PROVE  stack[i].node # c
  <1> SUFFICES ASSUME stack[i].node = c PROVE FALSE
    OBVIOUS
  <1>1. PICK s, k : s = stack /\ k = Len(stack)
    OBVIOUS
  <1>2. /\ tree \in Trees /\ s \in Seq(Frames) /\ Chained(s, attrs)
        /\ k \in Nat /\ s[k] = Top
    BY <1>1, CallOrder, LenProperties
  <1>3. /\ \A a, b \in 1 .. k : a < b => Apart(s[a], s[b])
        /\ \A a, b \in 1 .. k : b = a + 1 => MadeBy(s[a], s[b], attrs)
        /\ s # << >> => ~ Identifies(s[1])
    BY <1>1, <1>2 DEF Chained
  <1>4. ASSUME NEW j \in 1 .. k, Identifies(s[j]), s[j].node = c PROVE FALSE
    <2>1. j # 1
      BY <1>1, <1>3, <1>4
    <2>2. j - 1 \in 1 .. k /\ j = (j - 1) + 1
      BY <1>2, <1>4, <2>1
    <2>3. PICK h : h = s[j - 1]
      OBVIOUS
    <2>4. MadeBy(h, s[j], attrs)
      BY <1>3, <2>2, <2>3
    <2>5. h.node = c /\ h.pos - 1 \in 1 .. Len(tree.words[c])
          /\ s[j].list = tree.words[c][h.pos - 1]
      BY <1>4, <2>4 DEF MadeBy
    <2>6. s[j].list \in Nodes
      <3>1. s[j] \in Frames
        BY <1>1, <1>2, <1>4, ElementOfSeq
      <3> QED  BY <3>1 DEF Frames
    <2>7. s[j].list \in Named(c)
      <3>1. DOMAIN tree.words[c] = 1 .. Len(tree.words[c])
        BY <1>2, TreeFacts
      <3> QED  BY <2>5, <2>6, <3>1 DEF Named
    <2> QED  BY <2>7 DEF Plain
  <1>5. i \in 1 .. k /\ s[i].node = c
    BY <1>1
  <1>6. ~ Identifies(s[i])
    BY <1>4, <1>5
  <1>7. i # k
    BY <1>2, <1>6
  <1>8. i + 1 \in 1 .. k
    BY <1>2, <1>5, <1>7
  <1>9. MadeBy(s[i], s[i + 1], attrs)
    BY <1>3, <1>5, <1>8
  <1>10. ~ Identifies(s[i + 1])
    <2> SUFFICES ASSUME Identifies(s[i + 1]) PROVE FALSE
      OBVIOUS
    <2>1. s[i + 1].node = c
      BY <1>5, <1>9 DEF MadeBy
    <2> QED  BY <1>4, <1>8, <2>1
  <1>11. s[i + 1].node = tree.parent[c]
    <2>1. s[i].stage = "inherit"
      BY <1>6, <1>9, <1>10 DEF MadeBy, Identifies
    <2> QED  BY <1>5, <1>9, <1>10, <2>1 DEF MadeBy
  <1>12. i + 1 # k
    BY <1>2, <1>10
  <1>13. i + 1 < k /\ k \in 1 .. k
    BY <1>2, <1>8, <1>12
  <1>14. Apart(s[i + 1], s[k])
    BY <1>3, <1>8, <1>13
  <1> QED  BY <1>2, <1>11, <1>14 DEF Apart

\* A search, changed into g, asks for the attributes of m.
LEMMA AskOrder ==
    ASSUME IInv, CInv, OInv, Plain, stack # << >>, tree' = tree,
           Top.stage = "search", NEW g \in Frames, g.node = Top.node, g.list = Top.list,
           g.stage \in {"search", "found"}, Placed(g, attrs),
           NEW m \in Nodes, Enter(m, Replace(g)),
           \A i \in 1 .. Len(stack) : stack[i].node \notin Ancestors(m)
    PROVE  OInv'
  <1>1. PICK q, t, u : q = Top /\ t = Below /\ u = Replace(g)
    OBVIOUS
  <1>2. /\ tree \in Trees /\ attrs \in [Nodes -> SUBSET AttributeSet]
        /\ q \in Frames /\ t \in Seq(Frames)
        /\ "DEFINED" \in attrs[q.node] /\ Len(t) \in Nat
        /\ Chained(stack, attrs)
        /\ \A i \in 1 .. Len(t) : t[i] = stack[i] /\ t[i] \in Frames
        /\ Len(stack) = Len(t) + 1 /\ stack[Len(stack)] = q
    BY <1>1, CallOrder
  <1>3. Identifies(q) /\ Identifies(g) /\ ~ WalkingFrame(q) /\ ~ WalkingFrame(g)
    BY <1>1 DEF Identifies, WalkingFrame
  <1>4. attrs[q.node] = Before(q.node, Last(t))
    BY <1>1, <1>3, WordFacts
  <1>5. u \in Seq(Frames) /\ u # << >> /\ Last(u) = g /\ InOrder(u, attrs)
    BY <1>1, <1>2, <1>3, <1>4, IdentifyingOrder
  <1>6. Enter(m, u) /\ Chained(u, attrs) /\ Answered(attrs, u) /\ TopOwn(u, attrs)
    BY <1>1, <1>5 DEF InOrder
  <1>7. Chained(u, attrs')
    BY <1>2, <1>5, <1>6, EnterGrows
  <1>8. \A i \in 1 .. Len(u) : u[i].node \notin Ancestors(m)
    <2>1. PICK S : S = {h \in Frames : h.node \notin Ancestors(m)}
      OBVIOUS
    <2>2. Len(stack) \in 1 .. Len(stack) /\ \A i \in 1 .. Len(t) : i \in 1 .. Len(stack)
      BY <1>2
    <2>3. g \in S
      BY <1>1, <1>2, <2>1, <2>2
    <2>4. \A i \in 1 .. Len(t) : t[i] \in S
      BY <1>2, <2>1, <2>2
    <2>5. \A i \in 1 .. Len(u) : u[i] \in S
      BY <1>1, <1>2, <2>3, <2>4, EachCall DEF Replace
    <2> QED  BY <2>1, <2>5
  <1>9. \A i \in 1 .. Len(u) : "DEFINED" \in attrs[u[i].node]
    BY <1>6 DEF Chained
  <1>10. u # << >> => /\ Last(u).stage \in {"inherit", "search", "found"}
                      /\ Last(u).stage = "inherit" => m = tree.parent[Last(u).node]
    BY <1>5
  <1> QED  BY <1>2, <1>5, <1>6, <1>7, <1>8, <1>9, <1>10, EnterOrder

LEMMA CheckNameOrder ==
    ASSUME IInv, CInv, OInv, Plain, CheckName
    PROVE  OInv'
  <1>1. PICK q, c, l, n : q = Top /\ c = Head(q.todo) /\ l = q.list /\ n = q.node
    OBVIOUS
  <1>2. PICK g, h : /\ g = [q EXCEPT !.todo = Tail(@)]
                    /\ h = [q EXCEPT !.stage = "found"]
    OBVIOUS
  <1>3. /\ stack # << >> /\ q.stage = "search" /\ q.todo # << >> /\ tree' = tree
        /\ Identifies(q)
    BY <1>1 DEF CheckName, Running, Identifies
  <1>4. /\ tree \in Trees /\ q \in Frames /\ n \in Nodes /\ l \in Nodes
        /\ q.todo \in Seq(Nodes) /\ Placed(q, attrs) /\ "DEFINED" \in attrs[n]
        /\ stack \in Seq(Frames) /\ Below \in Seq(Frames)
        /\ \A i \in 1 .. Len(Below) : Apart(Below[i], q)
        /\ \A i \in 1 .. Len(Below) : Below[i] = stack[i]
        /\ Len(stack) = Len(Below) + 1 /\ stack[Len(stack)] = q /\ Len(Below) \in Nat
    BY <1>1, <1>3, CallOrder
  <1>5. PICK S : S = {x \in Nodes : tree.parent[x] \in Ancestors(n)}
    OBVIOUS
  <1>6. q.todo \in Seq(S)
    <2>1. \A i \in 1 .. Len(q.todo) : q.todo[i] \in Nodes /\ q.todo[i] \in Range(q.todo)
      BY <1>4, ElementOfSeq DEF Range
    <2>2. \A x \in Range(q.todo) : tree.parent[x] \in Ancestors(n)
      BY <1>1, <1>3, <1>4 DEF Placed
    <2>3. \A i \in 1 .. Len(q.todo) : q.todo[i] \in S
      BY <1>5, <2>1, <2>2
    <2> QED  BY <1>4, <2>3
  <1>7. c \in S /\ Tail(q.todo) \in Seq(S) /\ Tail(q.todo) \in Seq(Nodes)
    BY <1>1, <1>3, <1>4, <1>6, HeadTailProperties
  <1>8. /\ g \in Frames /\ g.node = n /\ g.list = l /\ g.stage = "search"
        /\ g.at = q.at /\ g.todo = Tail(q.todo)
        /\ h \in Frames /\ h.node = n /\ h.list = l /\ h.stage = "found"
    BY <1>1, <1>2, <1>3, <1>4, <1>7 DEF Frames
  <1>9. Placed(g, attrs)
    <2>1. \A i \in DOMAIN Tail(q.todo) : Tail(q.todo)[i] \in S
      BY <1>7, ElementOfSeq
    <2>2. \A x \in Range(g.todo) : tree.parent[x] \in Ancestors(n)
      BY <1>5, <1>8, <2>1 DEF Range
    <2>3. g.at \in {n} \union Ancestors(n)
      BY <1>1, <1>3, <1>4, <1>8 DEF Placed
    <2> QED  BY <1>8, <2>2, <2>3 DEF Placed
  <1>10. \A i \in 1 .. Len(stack) : stack[i].node \notin Ancestors(n)
    <2>1. n \notin Ancestors(n)
      BY <1>4, NotAbove
    <2>2. \A i \in 1 .. Len(stack) : i \in 1 .. Len(Below) \/ i = Len(stack)
      BY <1>4
    <2>3. \A i \in 1 .. Len(Below) : stack[i].node \notin Ancestors(n)
      BY <1>1, <1>4 DEF Apart
    <2>4. stack[Len(stack)].node \notin Ancestors(n)
      BY <1>1, <1>4, <2>1
    <2> QED  BY <2>2, <2>3, <2>4
  <1>11. c \in Nodes /\ tree.parent[c] \in Nodes /\ tree.parent[c] \in Ancestors(n)
    BY <1>4, <1>5, <1>7, AncestorsClosed
  <1>12. Ancestors(c) \subseteq Ancestors(n)
    BY <1>4, <1>11, AncestorsParent, AncestorsClosed
  <1>13. CASE Enter(c, Replace(g))
    <2>1. \A i \in 1 .. Len(stack) : stack[i].node \notin Ancestors(c)
      BY <1>10, <1>12
    <2> QED  BY <1>1, <1>3, <1>8, <1>9, <1>11, <1>13, <2>1, AskOrder
  <1>14. CASE /\ tree.kind[c] = "var"
              /\ \E i \in DOMAIN tree.kids[c] : tree.kids[c][i] = l
              /\ Enter(l, Replace(h))
    <2>1. tree.parent[l] = c /\ tree.kind[l] = "variable"
      BY <1>4, <1>11, <1>14, TreeFacts DEF WellFormed
    <2>2. l \in Visible(n)
      BY <1>4, <1>11, <2>1 DEF Visible
    <2>3. Placed(h, attrs)
      BY <1>8, <2>2 DEF Placed
    <2>4. Ancestors(l) = {c} \union Ancestors(c)
      BY <1>4, <1>11, <2>1, AncestorsParent
    <2>5. \A i \in 1 .. Len(stack) : stack[i].node # c
      BY <1>1, <1>3, <1>11, <1>14, NotDeclaring
    <2>6. \A i \in 1 .. Len(stack) : stack[i].node \notin Ancestors(l)
      BY <1>10, <1>12, <2>4, <2>5
    <2> QED  BY <1>1, <1>3, <1>4, <1>8, <1>14, <2>3, <2>6, AskOrder
  <1>15. CASE stack' = Replace(g) /\ attrs' = attrs
    <2>1. Identifies(g) /\ ~ WalkingFrame(q) /\ ~ WalkingFrame(g)
      BY <1>3, <1>8 DEF Identifies, WalkingFrame
    <2>2. attrs[n] = Before(n, Last(Below))
      BY <1>1, <1>3, <2>1, WordFacts
    <2>3. InOrder(Replace(g), attrs)
      BY <1>1, <1>3, <1>4, <1>8, <1>9, <2>1, <2>2, IdentifyingOrder
    <2>4. PICK s, A : s = Replace(g) /\ A = attrs
      OBVIOUS
    <2> QED  BY <1>3, <1>15, <2>3, <2>4, NextOrder
  <1> QED  BY <1>1, <1>2, <1>13, <1>14, <1>15, Zenon DEF CheckName

LEMMA SearchUpOrder ==
    ASSUME IInv, CInv, OInv, Plain, SearchUp
    PROVE  OInv'
  <1>1. PICK q, l, up, n : q = Top /\ l = q.list /\ up = tree.parent[q.at] /\ n = q.node
    OBVIOUS
  <1>2. /\ stack # << >> /\ q.stage = "search" /\ q.todo = << >>
        /\ tree' = tree /\ attrs' = attrs /\ Identifies(q) /\ ~ WalkingFrame(q)
    BY <1>1 DEF SearchUp, Running, Identifies, WalkingFrame
  <1>3. /\ q \in Frames /\ n \in Nodes /\ l \in Nodes /\ q.at \in Nodes
        /\ tree \in Trees /\ FrameOK(q, {}, looped) /\ Placed(q, attrs)
        /\ tree.kind[q.at] # "program" /\ "DEFINED" \in attrs[n]
    BY <1>1, <1>2, CallOrder
  <1>4. attrs[n] = Before(n, Last(Below))
    BY <1>1, <1>2, WordFacts
  <1>5. up \in Nodes /\ up # NoNode
    BY <1>1, <1>3, AroundTyped, NoNodeAssumption
  <1>6. CASE tree.kind[up] = "program" /\ stack' = Below
    <2>1. Range(q.todo) = {}
      BY <1>2 DEF Range
    <2>2. Ancestors(q.at) = {up} /\ tree.kind[up] # "list"
      <3>1. tree.parent[up] = NoNode
        BY <1>3, <1>5, <1>6, TreeFacts DEF WellFormed
      <3>2. Ancestors(up) = {}
        BY <1>3, <1>5, <3>1, AncestorsUp
      <3>3. Ancestors(q.at) = {up} \union Ancestors(up)
        BY <1>1, <1>3, <1>5, AncestorsParent
      <3> QED  BY <1>6, <3>2, <3>3
    <2>3. l \notin Visible(n)
      BY <1>1, <1>2, <1>3, <2>1, <2>2, VisibleFacts DEF FrameOK
    <2>4. attrs[n] = After(n, Last(Below))
      BY <1>1, <1>2, <1>4, <2>3, WordFacts
    <2> QED  BY <1>1, <1>2, <1>6, <2>4, IdentifiedOrder DEF After
  <1>7. PICK todo : todo = IF tree.kind[up] = "list" THEN Around(q.at) ELSE << >>
    OBVIOUS
  <1>8. PICK g : g = [q EXCEPT !.at = up, !.todo = todo]
    OBVIOUS
  <1>9. CASE stack' = Replace(g)
    <2>1. todo \in Seq(Nodes)
      BY <1>3, <1>7, AroundTyped, EmptySeq
    <2>2. /\ g \in Frames /\ g.node = n /\ g.list = l /\ g.stage = "search"
          /\ g.at = up /\ g.todo = todo /\ Identifies(g) /\ ~ WalkingFrame(g)
      BY <1>1, <1>2, <1>3, <1>5, <1>8, <2>1 DEF Frames, Identifies, WalkingFrame
    <2>3. up \in Ancestors(n)
      <3>1. q.at = n \/ q.at \in Ancestors(n)
        BY <1>1, <1>2, <1>3 DEF Placed
      <3>2. up \in Ancestors(q.at)
        BY <1>1, <1>3, <1>5, AncestorsClosed
      <3> QED  BY <1>3, <3>1, <3>2, AncestorsClosed
    <2>4. \A c \in Range(todo) : tree.parent[c] = up
      <3>1. CASE tree.kind[up] = "list"
        BY <1>1, <1>3, <1>7, <3>1, AroundSiblings
      <3>2. CASE tree.kind[up] # "list"
        BY <1>7, <3>2 DEF Range
      <3> QED  BY <3>1, <3>2
    <2>5. Placed(g, attrs)
      BY <2>2, <2>3, <2>4 DEF Placed
    <2>6. InOrder(Replace(g), attrs)
      BY <1>1, <1>2, <1>3, <1>4, <2>2, <2>5, IdentifyingOrder
    <2>7. PICK s, A : s = Replace(g) /\ A = attrs
      OBVIOUS
    <2> QED  BY <1>2, <1>9, <2>6, <2>7, NextOrder
  <1> QED  BY <1>1, <1>6, <1>7, <1>8, <1>9, Zenon DEF SearchUp

\* No list is walked over while another one is searched.
LEMMA NoneWalking ==
    ASSUME IInv, CInv, OInv, Plain, stack # << >>, ~ WalkingFrame(Top)
    PROVE  Walks(stack) = {}
  <1>1. PICK s, k : s = stack /\ k = Len(stack)
    OBVIOUS
  <1>2. /\ Chained(s, attrs) /\ k \in Nat /\ s[k] = Top
    BY <1>1, CallOrder, LenProperties
  <1>3. ASSUME NEW i \in 1 .. k, WalkingFrame(s[i]) PROVE FALSE
    <2>1. i # k
      BY <1>2, <1>3
    <2>2. i + 1 \in 1 .. k
      BY <1>2, <2>1
    <2>3. MadeBy(s[i], s[i + 1], attrs)
      BY <1>1, <1>2, <2>2 DEF Chained
    <2> QED  BY <1>3, <2>3 DEF MadeBy, WalkingFrame
  <1> QED  BY <1>1, <1>3 DEF Walks, Walkers

LEMMA FoundOrder ==
    ASSUME IInv, CInv, OInv, Plain, Found
    PROVE  OInv'
  <1>1. PICK q, g, n, l : q = Top /\ g = [q EXCEPT !.stage = "list"] /\ n = q.node /\ l = q.list
    OBVIOUS
  <1>2. /\ stack # << >> /\ q.stage = "found"
        /\ tree' = tree /\ attrs' = attrs /\ Identifies(q) /\ ~ WalkingFrame(q)
    BY <1>1 DEF Found, Running, Identifies, WalkingFrame
  <1>3. /\ q \in Frames /\ n \in Nodes /\ l \in Nodes /\ tree \in Trees
        /\ FrameOK(q, {}, looped) /\ Placed(q, attrs) /\ "DEFINED" \in attrs[n]
    BY <1>1, <1>2, CallOrder
  <1>4. stack' = Replace(g)
    <2>1. looping = {}
      BY <1>1, <1>2, NoneWalking DEF IInv
    <2> QED  BY <1>1, <2>1 DEF Found
  <1>5. /\ g \in Frames /\ g.node = n /\ g.list = l /\ g.stage = "list" /\ g.pos = 1
        /\ Identifies(g) /\ WalkingFrame(g)
    <2>1. q.pos = 1
      BY <1>2, <1>3 DEF FrameOK
    <2> QED  BY <1>1, <1>3, <2>1 DEF Frames, Identifies, WalkingFrame
  <1>6. Placed(g, attrs)
    <2>1. l \in Visible(n)
      BY <1>1, <1>2, <1>3 DEF Placed
    <2>2. Len(tree.items[l]) \in Nat
      BY <1>3, TreeFacts, LenProperties
    <2>3. g.pos - 1 <= Len(tree.items[g.list])
      BY <1>5, <2>2
    <2> QED  BY <1>5, <2>1, <2>3 DEF Placed
  <1>7. attrs[n] = ListGives(Before(n, Last(Below)), l)[g.pos - 1]
    <2>1. attrs[n] = Before(n, Last(Below)) /\ Before(n, Last(Below)) \in Marks
      BY <1>1, <1>2, WordFacts
    <2>2. ListGives(Before(n, Last(Below)), l)[0] = Before(n, Last(Below))
      BY <1>3, <2>1, ListGivesFacts
    <2>3. g.pos - 1 = 0
      BY <1>5
    <2> QED  BY <2>1, <2>2, <2>3
  <1>8. InOrder(Replace(g), attrs)
    BY <1>1, <1>2, <1>3, <1>5, <1>6, <1>7, IdentifyingOrder
  <1>9. PICK s, A : s = Replace(g) /\ A = attrs
    OBVIOUS
  <1> QED  BY <1>2, <1>4, <1>8, <1>9, NextOrder

\* The next value of a list.
LEMMA ValueFacts ==
    ASSUME IInv, CInv, OInv, Plain, stack # << >>, NEW q, q = Top, WalkingFrame(q),
           q.pos <= Len(tree.items[q.list])
    PROVE  /\ ListGives(Before(q.node, Last(Below)), q.list)[q.pos] =
                 ItemGives(attrs[q.node], tree.items[q.list][q.pos])
           /\ q.pos \in 1 .. Len(tree.items[q.list])
  <1>1. /\ tree \in Trees /\ q.list \in Nodes /\ q.pos \in Nat \ {0}
    BY CallOrder
  <1>2. Identifies(q)
    BY DEF Identifies, WalkingFrame
  <1>3. /\ attrs[q.node] = ListGives(Before(q.node, Last(Below)), q.list)[q.pos - 1]
        /\ Before(q.node, Last(Below)) \in Marks
    BY <1>2, WordFacts
  <1>4. q.pos \in 1 .. Len(tree.items[q.list])
    <2>1. Len(tree.items[q.list]) \in Nat
      BY <1>1, TreeFacts, LenProperties
    <2> QED  BY <1>1, <2>1
  <1> QED  BY <1>1, <1>3, <1>4, ListGivesFacts

\* The call goes one value further.
LEMMA FurtherOrder ==
    ASSUME IInv, CInv, OInv, Plain, stack # << >>, tree' = tree,
           NEW q, q = Top, WalkingFrame(q), q.pos <= Len(tree.items[q.list]),
           NEW g \in Frames, g.node = q.node, g.list = q.list, g.stage = "list",
           g.pos = q.pos + 1, stack' = Replace(g),
           NEW S, S = ItemGives(attrs[q.node], tree.items[q.list][q.pos]), "DEFINED" \in S,
           attrs' = [attrs EXCEPT ![q.node] = S]
    PROVE  OInv'
  <1>1. /\ tree \in Trees /\ q \in Frames /\ q.node \in Nodes /\ q.pos \in Nat \ {0}
        /\ attrs \in [Nodes -> SUBSET AttributeSet] /\ Placed(q, attrs)
    BY CallOrder
  <1>2. /\ Identifies(q) /\ Identifies(g) /\ WalkingFrame(g)
    BY DEF Identifies, WalkingFrame
  <1>3. PICK s, B : s = Replace(g) /\ B = attrs'
    OBVIOUS
  <1>4. B[q.node] = S /\ \A m \in Nodes : m # q.node => B[m] = attrs[m]
    BY <1>1, <1>3
  <1>5. B[q.node] = ListGives(Before(q.node, Last(Below)), q.list)[g.pos - 1]
    <2>1. g.pos - 1 = q.pos
      BY <1>1
    <2> QED  BY <1>4, <2>1, ValueFacts
  <1>6. Placed(g, B)
    <2>1. q.list \in Visible(q.node)
      BY <1>1 DEF Placed, WalkingFrame
    <2>2. g.pos - 1 = q.pos
      BY <1>1
    <2> QED  BY <2>1, <2>2 DEF Placed
  <1>7. "DEFINED" \in B[q.node]
    BY <1>4
  <1>8. InOrder(s, B)
    BY <1>2, <1>3, <1>4, <1>5, <1>6, <1>7, IdentifyingOrder
  <1> QED  BY <1>3, <1>8, NextOrder

LEMMA ValueOrder ==
    ASSUME IInv, CInv, OInv, Plain, Value
    PROVE  OInv'
  <1>1. PICK q, g, h, i, n : /\ q = Top
                             /\ g = [q EXCEPT !.pos = @ + 1]
                             /\ h = [q EXCEPT !.stage = "value"]
                             /\ i = tree.items[q.list][q.pos]
                             /\ n = q.node
    OBVIOUS
  <1>2. /\ stack # << >> /\ q.stage = "list" /\ tree' = tree
        /\ q.pos <= Len(tree.items[q.list]) /\ Identifies(q) /\ WalkingFrame(q)
    BY <1>1 DEF Value, Running, Identifies, WalkingFrame
  <1>3. /\ q \in Frames /\ n \in Nodes /\ q.list \in Nodes /\ tree \in Trees
        /\ q.pos \in Nat \ {0} /\ Placed(q, attrs) /\ "DEFINED" \in attrs[n]
    BY <1>1, <1>2, CallOrder
  <1>4. q.pos \in 1 .. Len(tree.items[q.list])
    BY <1>1, <1>2, ValueFacts
  <1>5. i.word \notin Nodes /\ i.asks = NoNode
    BY <1>1, <1>3, <1>4, PlainItems
  <1>6. CASE i.word \in ValueLiterals /\ Mark(n, i.word) /\ stack' = Replace(g)
    <2>1. /\ g \in Frames /\ g.node = n /\ g.list = q.list /\ g.stage = "list"
          /\ g.pos = q.pos + 1
      BY <1>1, <1>2, <1>3 DEF Frames
    <2>2. i.word # "EXPRESSION"
      BY <1>6 DEF ValueLiterals, Identifiers
    <2>3. PICK S : S = SetAttribute(attrs[n], i.word)
      OBVIOUS
    <2>4. S = ItemGives(attrs[n], i)
      BY <2>2, <2>3 DEF ItemGives
    <2>5. "DEFINED" \in S
      BY <1>3, <2>3 DEF SetAttribute
    <2>6. attrs' = [attrs EXCEPT ![n] = S]
      BY <1>6, <2>3 DEF Mark
    <2> QED  BY <1>1, <1>2, <1>6, <2>1, <2>4, <2>5, <2>6, FurtherOrder
  <1>7. CASE i.word = "EXPRESSION" /\ Enter(i.asks, Replace(h))
    <2>1. stack' = Replace(h) /\ attrs' = attrs
      BY <1>5, <1>7, Zenon DEF Enter
    <2>2. /\ h \in Frames /\ h.node = n /\ h.list = q.list /\ h.stage = "value"
          /\ h.pos = q.pos /\ Identifies(h) /\ WalkingFrame(h)
      BY <1>1, <1>3 DEF Frames, Identifies, WalkingFrame
    <2>3. Placed(h, attrs)
      BY <1>1, <1>2, <1>3, <1>7, <2>2 DEF Placed
    <2>4. attrs[n] = ListGives(Before(n, Last(Below)), q.list)[h.pos - 1]
      BY <1>1, <1>2, <2>2, WordFacts
    <2>5. InOrder(Replace(h), attrs)
      BY <1>1, <1>2, <1>3, <2>2, <2>3, <2>4, IdentifyingOrder
    <2>6. PICK s, A : s = Replace(h) /\ A = attrs
      OBVIOUS
    <2> QED  BY <1>2, <2>1, <2>5, <2>6, NextOrder
  <1> QED  BY <1>1, <1>5, <1>6, <1>7, Zenon DEF Value

LEMMA EvaluatedOrder ==
    ASSUME IInv, CInv, OInv, Plain, Evaluated
    PROVE  OInv'
  <1>1. PICK q, h, g, i, n : /\ q = Top
                             /\ h = [q EXCEPT !.stage = "list"]
                             /\ g = [q EXCEPT !.stage = "list", !.pos = @ + 1]
                             /\ i = tree.items[q.list][q.pos]
                             /\ n = q.node
    OBVIOUS
  <1>2. /\ stack # << >> /\ q.stage = "value" /\ tree' = tree /\ stack' = Replace(g)
        /\ WalkingFrame(q)
    BY <1>1 DEF Evaluated, Running, WalkingFrame
  <1>3. /\ q \in Frames /\ n \in Nodes /\ q.pos \in Nat \ {0} /\ Placed(q, attrs)
        /\ attrs \in [Nodes -> SUBSET AttributeSet] /\ "DEFINED" \in attrs[n]
    BY <1>1, <1>2, CallOrder
  <1>4. q.pos <= Len(tree.items[q.list])
    BY <1>1, <1>2, TopFacts, ValuePos
  <1>5. i.word = "EXPRESSION"
    BY <1>1, <1>2, <1>3 DEF Placed
  <1>6. g \in Frames /\ g.stage = "list" /\ g.list = q.list /\ g.node = n
    BY <1>1, <1>3, NextValue
  <1>7. g.pos = q.pos + 1
    BY <1>1, <1>3 DEF Frames
  <1>8. PICK S : S = IF i.value = "NONE" THEN attrs[n] ELSE SetAttribute(attrs[n], i.value)
    OBVIOUS
  <1>9. S = ItemGives(attrs[n], i)
    BY <1>5, <1>8, Zenon DEF ItemGives
  <1>10. "DEFINED" \in S
    BY <1>3, <1>8 DEF SetAttribute
  <1>11. attrs' = [attrs EXCEPT ![n] = S]
    <2>1. CASE i.value = "NONE"
      <3>1. attrs' = attrs
        BY <1>1, <2>1, Zenon DEF Evaluated
      <3> QED  BY <1>3, <1>8, <2>1, <3>1
    <2>2. CASE i.value # "NONE"
      <3>1. Mark(n, i.value)
        BY <1>1, <2>2, Zenon DEF Evaluated
      <3> QED  BY <1>8, <2>2, <3>1 DEF Mark
    <2> QED  BY <2>1, <2>2
  <1> QED  BY <1>1, <1>2, <1>4, <1>6, <1>7, <1>9, <1>10, <1>11, FurtherOrder

LEMMA ListDoneOrder ==
    ASSUME IInv, CInv, OInv, Plain, ListDone
    PROVE  OInv'
  <1>1. PICK q, n, l : q = Top /\ n = q.node /\ l = q.list
    OBVIOUS
  <1>2. /\ stack # << >> /\ q.stage = "list" /\ q.pos > Len(tree.items[l])
        /\ tree' = tree /\ attrs' = attrs /\ stack' = Below
        /\ Identifies(q) /\ WalkingFrame(q)
    BY <1>1 DEF ListDone, Running, Identifies, WalkingFrame
  <1>3. q.pos \in Nat /\ l \in Nodes /\ tree \in Trees /\ Placed(q, attrs)
    BY <1>1, <1>2, CallOrder
  <1>4. l \in Visible(n) /\ q.pos - 1 <= Len(tree.items[l])
    BY <1>1, <1>2, <1>3 DEF Placed
  <1>5. q.pos - 1 = Len(tree.items[l])
    <2>1. Len(tree.items[l]) \in Nat
      BY <1>3, TreeFacts, LenProperties
    <2> QED  BY <1>2, <1>3, <1>4, <2>1
  <1>6. /\ attrs[n] = ListGives(Before(n, Last(Below)), l)[q.pos - 1]
        /\ After(n, Last(Below)) = ListGives(Before(n, Last(Below)), l)[Len(tree.items[l])]
    BY <1>1, <1>2, <1>4, WordFacts
  <1>7. attrs[n] = After(n, Last(Below))
    BY <1>5, <1>6
  <1> QED  BY <1>1, <1>2, <1>7, IdentifiedOrder DEF After

LEMMA OrderInvariance == Spec => [](IInv /\ CInv /\ OInv)
  <1>1. Init => OInv
    <2> SUFFICES ASSUME Init PROVE InOrder(stack, attrs)
      BY DEF OInv
    <2>1. stack = << >> /\ attrs = [n \in Nodes |-> {}]
      BY DEF Init
    <2>2. Chained(stack, attrs) /\ TopOwn(stack, attrs)
      BY <2>1 DEF Chained, TopOwn
    <2>3. Answered(attrs, stack)
      BY <2>1 DEF Answered
    <2> QED  BY <2>2, <2>3 DEF InOrder
  <1>2. IInv /\ CInv /\ OInv /\ [Next]_vars => OInv'
    <2> SUFFICES ASSUME IInv, CInv, OInv, [Next]_vars PROVE OInv'
      OBVIOUS
    <2>p. tree' = tree
      BY DEF Next, Step, vars, Request, OwnWord, OwnDone, Inherit, CheckName, SearchUp,
             Found, Value, Evaluated, ListDone
    <2>1. CASE ~ Plain
      BY <2>p, <2>1, SameOrder DEF OInv
    <2>2. CASE Plain
      <3>1. ASSUME NEW n \in Nodes, Request(n) PROVE OInv'
        BY <2>2, <3>1, RequestOrder
      <3>2. CASE OwnWord
        BY <2>2, <3>2, OwnWordOrder
      <3>3. CASE OwnDone
        BY <2>2, <3>3, OwnDoneOrder
      <3>4. CASE Inherit
        BY <2>2, <3>4, InheritOrder
      <3>5. CASE CheckName
        BY <2>2, <3>5, CheckNameOrder
      <3>6. CASE SearchUp
        BY <2>2, <3>6, SearchUpOrder
      <3>7. CASE Found
        BY <2>2, <3>7, FoundOrder
      <3>8. CASE Value
        BY <2>2, <3>8, ValueOrder
      <3>9. CASE Evaluated
        BY <2>2, <3>9, EvaluatedOrder
      <3>10. CASE ListDone
        BY <2>2, <3>10, ListDoneOrder
      <3>11. CASE UNCHANGED vars
        <4>1. PICK s, A : s = stack /\ A = attrs
          OBVIOUS
        <4>2. stack' = s /\ attrs' = A /\ InOrder(s, A)
          BY <2>2, <3>11, <4>1 DEF vars, OInv
        <4> QED  BY <2>p, <4>2, NextOrder
      <3> QED
        BY <3>1, <3>2, <3>3, <3>4, <3>5, <3>6, <3>7, <3>8, <3>9, <3>10, <3>11
           DEF Next, Step
    <2> QED  BY <2>1, <2>2
  <1> QED  BY <1>1, <1>2, CircularInvariance, PTL DEF Spec

\* The attributes of a node do not depend on the order of the requests, nor on what
\* the searches of resolve_name() prepare on their way, for any program whose lists
\* are plain: each node gets what its own words give, completed from what its parent
\* gets, as if they were computed from the root down.
THEOREM AttributesOrderIndependent == Spec => []OrderIndependent
  <1>1. OInv => OrderIndependent
    <2> SUFFICES ASSUME OInv, Plain, stack = << >>, NEW n \in Nodes, Prepared(n)
                 PROVE  attrs[n] = Expected(n)
      BY DEF OrderIndependent
    <2>1. ~ Preparing(n, stack)
      BY DEF Preparing
    <2> QED  BY <2>1 DEF OInv, InOrder, Answered, Prepared
  <1> QED  BY <1>1, OrderInvariance, PTL
=============================================================================
