--------------------------- MODULE VariablesProofs ---------------------------
(***************************************************************************)
(* Proofs about Variables, for any finite set of variables, any shapes of  *)
(* declarations, any attribute words and any depth of the C++ stack.       *)
(***************************************************************************)
EXTENDS Variables, FiniteSetTheorems, SequenceTheorems, TLAPS

(***************************************************************************)
(* The inductive invariant about the records: a variable is recorded once  *)
(* because it has one frame "define" in its life, DEFINED being set first. *)
(***************************************************************************)
Defining(v, s) == {i \in 1 .. Len(s) : s[i].var = v /\ s[i].stage = "define"}

RecordInv ==
  /\ \A v \in Vars : Recorded(v) <= 1
  /\ exc = "none" =>
       \A v \in Vars :
         /\ defined[v] <=> Recorded(v) = 1 \/ Defining(v, stack) # {}
         /\ Recorded(v) = 1 => Defining(v, stack) = {}
         /\ \A i, j \in Defining(v, stack) : i = j

(***************************************************************************)
(* The stack: a frame is pushed, changed in place or popped.               *)
(***************************************************************************)
LEMMA PushFrame ==
  ASSUME NEW S, NEW s \in Seq(S), NEW f \in S
  PROVE  /\ Append(s, f) \in Seq(S)
         /\ Len(Append(s, f)) = Len(s) + 1
         /\ \A i \in 1 .. Len(s) + 1 :
               Append(s, f)[i] = IF i = Len(s) + 1 THEN f ELSE s[i]
  BY AppendProperties

LEMMA PopFrame ==
  ASSUME NEW S, NEW s \in Seq(S), s # << >>
  PROVE  /\ Front(s) \in Seq(S)
         /\ Len(Front(s)) = Len(s) - 1
         /\ Len(s) \in Nat \ {0}
         /\ \A i \in 1 .. Len(s) - 1 : Front(s)[i] = s[i]
  <1> DEFINE n == Len(s) - 1
             front == SubSeq(s, 1, n)
  <1>1. n \in Nat /\ n + 1 = Len(s) /\ \A i \in 1 .. n : s[i] \in S
    OBVIOUS
  <1>2. /\ front \in Seq(S)
        /\ Len(front) = IF 1 <= n THEN n - 1 + 1 ELSE 0
        /\ \A i \in 1 .. n - 1 + 1 : front[i] = s[1 + i - 1]
    <2> HIDE DEF n
    <2>1. QED
      BY <1>1, SubSeqProperties
  <1>3. Front(s) = front
    BY DEF Front
  <1> HIDE DEF front, n
  <1>4. Len(front) = n /\ \A i \in 1 .. n : front[i] = s[i]
    BY <1>1, <1>2
  <1>5. n = Len(s) - 1 /\ Len(s) \in Nat \ {0}
    BY <1>1 DEF n
  <1>6. QED
    BY <1>2, <1>3, <1>4, <1>5

LEMMA ChangeFrame ==
  ASSUME NEW S, NEW s \in Seq(S), s # << >>, NEW f \in S
  PROVE  /\ Append(Front(s), f) \in Seq(S)
         /\ Len(Append(Front(s), f)) = Len(s)
         /\ \A i \in 1 .. Len(s) :
               Append(Front(s), f)[i] = IF i = Len(s) THEN f ELSE s[i]
  <1>1. /\ Front(s) \in Seq(S) /\ Len(Front(s)) = Len(s) - 1
        /\ Len(s) \in Nat \ {0}
        /\ \A i \in 1 .. Len(s) - 1 : Front(s)[i] = s[i]
    BY PopFrame
  <1>2. /\ Append(Front(s), f) \in Seq(S)
        /\ Len(Append(Front(s), f)) = Len(Front(s)) + 1
        /\ \A i \in 1 .. Len(Front(s)) + 1 :
              Append(Front(s), f)[i] =
                IF i = Len(Front(s)) + 1 THEN f ELSE Front(s)[i]
    BY <1>1, PushFrame
  <1>3. QED
    BY <1>1, <1>2

LEMMA TopFrame ==
  ASSUME TypeOK, stack # << >>
  PROVE  /\ Top \in Frame
         /\ Len(stack) \in Nat \ {0}
         /\ Top = stack[Len(stack)]
  BY DEF TypeOK, Top, Last

\* The names left in an initializer are names of the initializer.
LEMMA NextName ==
  ASSUME NEW S, NEW s \in Seq(S), s # << >>
  PROVE  /\ Tail(s) \in Seq(S)
         /\ Head(s) \in S
         /\ Head(s) \in Range(s)
         /\ Range(Tail(s)) \subseteq Range(s)
  <1>1. /\ Len(s) \in Nat \ {0} /\ Head(s) = s[1] /\ Tail(s) \in Seq(S)
        /\ Len(Tail(s)) = Len(s) - 1
        /\ \A i \in 1 .. Len(Tail(s)) : Tail(s)[i] = s[i + 1]
    BY HeadTailProperties
  <1>2. DOMAIN s = 1 .. Len(s) /\ DOMAIN Tail(s) = 1 .. Len(Tail(s))
    BY <1>1
  <1>3. \A i \in 1 .. Len(Tail(s)) : i + 1 \in 1 .. Len(s)
    BY <1>1
  <1>4. Range(Tail(s)) \subseteq Range(s)
    BY <1>1, <1>2, <1>3 DEF Range
  <1>5. QED
    BY <1>1, <1>2, <1>4 DEF Range

(***************************************************************************)
(* Types.                                                                  *)
(***************************************************************************)
LEMMA DeclType == Init => decl \in [Vars -> Decl]
  <1> SUFFICES ASSUME Init PROVE decl \in [Vars -> Decl]
    OBVIOUS
  <1>0. NameLists \subseteq Seq(Vars)
    BY BoundsAssumption DEF NameLists
  <1>1. ASSUME NEW d \in Declarations PROVE d \in Decl
    <2>0. PICK s \in Shapes :
            d \in {[typed |-> s.typed, sets |-> s.sets, refs |-> r] :
                    r \in [1 .. Len(s.sets) -> NameLists]}
      BY <1>1, Zenon DEF Declarations
    <2>1. PICK r \in [1 .. Len(s.sets) -> NameLists] :
            d = [typed |-> s.typed, sets |-> s.sets, refs |-> r]
      BY <2>0
    <2>2. s.typed \in BOOLEAN /\ s.sets \in Seq(SetKinds)
      BY ShapesAssumption DEF Shape
    <2>3. Len(s.sets) \in Nat
      BY <2>2
    <2>4. r \in Seq(Seq(Vars)) /\ Len(r) = Len(s.sets)
      BY <1>0, <2>3
    <2>5. QED
      BY <2>1, <2>2, <2>4 DEF Decl
  <1>2. QED
    BY <1>1 DEF Init

LEMMA InitTypeOK == Init => TypeOK
  BY DeclType DEF Init, TypeOK

\* What an expression names is a list of variables.
LEMMA NamesType ==
  ASSUME TypeOK, NEW v \in Vars, NEW k \in 1 .. Len(decl[v].sets)
  PROVE  /\ decl[v].refs[k] \in Seq(Vars)
         /\ ToName(v, k) \subseteq Seq(Vars)
         /\ \A names \in ToName(v, k) :
              names = decl[v].refs[k] \/ (names = << >> /\ <<v, k>> \in done)
  <1>1. decl[v].refs \in Seq(Seq(Vars)) /\ Len(decl[v].refs) = Len(decl[v].sets)
    BY DEF TypeOK, Decl
  <1>2. decl[v].refs[k] \in Seq(Vars)
    BY <1>1
  <1>3. << >> \in Seq(Vars)
    OBVIOUS
  <1>4. QED
    BY <1>2, <1>3, Zenon DEF ToName

\* The names of an initializer are variables.
LEMMA NamesAreVars ==
  ASSUME TypeOK, NEW v \in Vars
  PROVE  /\ Names(decl, v) \subseteq Vars
         /\ Initialized(v) => /\ 1 \in 1 .. Len(decl[v].sets)
                              /\ Names(decl, v) = Range(decl[v].refs[1])
  <1>1. decl[v].sets \in Seq(SetKinds)
    BY DEF TypeOK, Decl
  <1>2. CASE decl[v].sets = << >>
    BY <1>2 DEF Names, Initialized
  <1>3. CASE decl[v].sets # << >>
    <2>1. 1 \in 1 .. Len(decl[v].sets)
      BY <1>1, <1>3
    <2>2. decl[v].refs[1] \in Seq(Vars)
      BY <2>1, NamesType
    <2>3. QED
      BY <1>3, <2>1, <2>2 DEF Names, Range
  <1>4. QED
    BY <1>2, <1>3

LEMMA DefineFrameType == \A v \in Vars, side \in BOOLEAN : DefineFrame(v, side) \in Frame
  BY DEF Frame, DefineFrame

LEMMA CompileFrameType == \A v \in Vars, names \in Seq(Vars) : CompileFrame(v, names) \in Frame
  BY DEF Frame, CompileFrame

LEMMA AttrsFrameType == \A v \in Vars : AttrsFrame(v) \in Frame
  BY DEF Frame, AttrsFrame

\* EnterCompile() pushes a frame with the names of the initializer.
LEMMA CompilePushed ==
  ASSUME TypeOK, NEW v \in Vars, NEW side, NEW below, EnterCompile(v, side, below)
  PROVE  /\ ~side /\ ~compiled[v] /\ Initialized(v) /\ Known(v)
         /\ \E names \in Seq(Vars) :
              /\ stack' = Append(below, CompileFrame(v, names))
              /\ CompileFrame(v, names) \in Frame
              /\ names = decl[v].refs[1] \/ (names = << >> /\ <<v, 1>> \in done)
  <1>1. /\ ~side /\ ~compiled[v] /\ Initialized(v) /\ Known(v)
    BY DEF EnterCompile, MustCompile
  <1>2. PICK names \in ToName(v, 1) : stack' = Append(below, CompileFrame(v, names))
    BY DEF EnterCompile
  <1>3. 1 \in 1 .. Len(decl[v].sets)
    BY <1>1, NamesAreVars
  <1>4. names \in Seq(Vars) /\ (names = decl[v].refs[1] \/ (names = << >> /\ <<v, 1>> \in done))
    BY <1>3, NamesType
  <1>5. CompileFrame(v, names) \in Frame
    BY <1>4, CompileFrameType
  <1>6. QED
    BY <1>1, <1>2, <1>4, <1>5

LEMMA EnterTypeOK ==
  ASSUME TypeOK, NEW v \in Vars, NEW side \in BOOLEAN, NEW below \in Seq(Frame),
         Enter(v, side, below), declared' \subseteq Vars, roots' \subseteq Vars,
         words' \in Nat
  PROVE  TypeOK'
  <1>1. /\ decl' \in [Vars -> Decl] /\ lists' \subseteq Vars
        /\ compiled' \in [Vars -> BOOLEAN] /\ attributes' \in [Vars -> BOOLEAN]
        /\ added' \in [Vars -> Nat] /\ exc' \in {"none", "locked_node"}
        /\ done' \subseteq Vars \X Nat
    BY DEF Enter, TypeOK
  <1>2. /\ stack' \in Seq(Frame) /\ defined' \in [Vars -> BOOLEAN]
        /\ inuse' \in [Vars -> BOOLEAN] /\ calls' \in [Vars -> Nat]
        /\ early' \subseteq Vars
    <2>1. CASE EnterDefine(v, side, below)
      <3>1. InUse(side) \in BOOLEAN
        BY DEF InUse
      <3>2. DefineFrame(v, side) \in Frame
        BY DefineFrameType
      <3>3. QED
        BY <2>1, <3>1, <3>2, PushFrame DEF EnterDefine, TypeOK
    <2>2. CASE EnterCompile(v, side, below)
      <3>1. PICK names \in Seq(Vars) :
              /\ stack' = Append(below, CompileFrame(v, names))
              /\ CompileFrame(v, names) \in Frame
        BY <2>2, CompilePushed
      <3>3. stack' \in Seq(Frame)
        BY <3>1, PushFrame
      <3>2. QED
        BY <2>2, <3>3 DEF EnterCompile, TypeOK
    <2>3. CASE EnterNothing(v, side, below)
      <3>1. inuse' \in [Vars -> BOOLEAN]
        BY <2>3 DEF EnterNothing, InUse, TypeOK
      <3>2. QED
        BY <2>3, <3>1 DEF EnterNothing, TypeOK
    <2>4. QED
      BY <2>1, <2>2, <2>3 DEF Enter
  <1>3. QED
    BY <1>1, <1>2 DEF TypeOK

LEMMA AttrsTypeOK ==
  ASSUME TypeOK, NEW v \in Vars, NEW below \in Seq(Frame), EnterAttrs(v, below),
         words' \in Nat
  PROVE  TypeOK'
  <1>1. AttrsFrame(v) \in Frame
    BY AttrsFrameType
  <1>2. /\ stack' \in Seq(Frame) /\ attributes' \in [Vars -> BOOLEAN]
    <2>1. Append(below, AttrsFrame(v)) \in Seq(Frame)
      BY <1>1, PushFrame
    <2>2. CASE Looping(v, stack)
      BY <2>2, Zenon DEF EnterAttrs, TypeOK
    <2>3. CASE ~Looping(v, stack)
      <3>1. stack' = Append(below, AttrsFrame(v)) /\ attributes' = [attributes EXCEPT ![v] = TRUE]
        BY <2>3, Zenon DEF EnterAttrs
      <3>2. QED
        BY <2>1, <3>1 DEF TypeOK
    <2>4. QED
      BY <2>2, <2>3
  <1>3. QED
    BY <1>2 DEF EnterAttrs, TypeOK

LEMMA ContinueTypeOK ==
  ASSUME TypeOK, stack # << >>, NEW f \in Frame, Continue(f)
  PROVE  stack' \in Seq(Frame)
  BY ChangeFrame DEF TypeOK, Continue, Outer

LEMMA PopTypeOK ==
  ASSUME TypeOK, stack # << >>
  PROVE  Outer \in Seq(Frame)
  BY PopFrame DEF TypeOK, Outer

\* the frame a name is resolved for, and the one an attribute is read for
LEMMA ResolveBelow ==
  ASSUME TypeOK, Resolve
  PROVE  /\ Head(Top.todo) \in Vars
         /\ [Top EXCEPT !.todo = OtherNames(Top)] \in Frame
         /\ Append(Outer, [Top EXCEPT !.todo = OtherNames(Top)]) \in Seq(Frame)
  <1>1. stack # << >> /\ Top.todo # << >>
    BY DEF Resolve, Running
  <1>2. Top \in Frame
    BY <1>1, TopFrame
  <1>3. Top.todo \in Seq(Vars)
    BY <1>2 DEF Frame
  <1>4. Head(Top.todo) \in Vars /\ Tail(Top.todo) \in Seq(Vars)
    BY <1>1, <1>3, NextName
  <1>5. [Top EXCEPT !.todo = OtherNames(Top)] \in Frame
    BY <1>2, <1>4 DEF Frame, OtherNames
  <1>6. QED
    BY <1>1, <1>4, <1>5, ChangeFrame DEF TypeOK, Outer

LEMMA NextAttrType ==
  ASSUME TypeOK, AtAttr
  PROVE  /\ NextAttr \in Frame /\ NextAttr.var = Top.var
         /\ NextAttr.stage = "attrs" /\ NextAttr.busy = FALSE /\ NextAttr.todo = Top.todo
         /\ NextAttr.side = Top.side
         /\ Append(Outer, NextAttr) \in Seq(Frame)
  <1>1. stack # << >> /\ Top \in Frame /\ Top.stage = "attrs" /\ Top.busy = FALSE
    BY TopFrame DEF AtAttr, Running, Frame
  <1>2. Top.child + 1 \in Nat
    BY <1>1 DEF Frame
  <1>3. /\ NextAttr \in Frame /\ NextAttr.var = Top.var
        /\ NextAttr.stage = "attrs" /\ NextAttr.busy = FALSE /\ NextAttr.todo = Top.todo
        /\ NextAttr.side = Top.side
    BY <1>1, <1>2 DEF Frame, NextAttr
  <1>4. QED
    BY <1>1, <1>3, ChangeFrame DEF TypeOK, Outer

LEMMA AttrNameType ==
  ASSUME TypeOK, AttrName
  PROVE  Head(AttrNames) \in Vars
  <1>1. stack # << >> /\ Top \in Frame /\ Top.child \in 1 .. Len(decl[Top.var].sets)
    BY TopFrame DEF AttrName, AtAttr, Running
  <1>2. Top.var \in Vars
    BY <1>1 DEF Frame
  <1>3. AttrNames \in Seq(Vars)
    BY <1>1, <1>2, NamesType DEF AttrNames
  <1>4. QED
    BY <1>3, NextName DEF AttrName

LEMMA CountedTypes ==
  ASSUME NEW f \in Frame, NEW k \in Nat
  PROVE  /\ [f EXCEPT !.child = @ + 1, !.set = k] \in Frame
         /\ [f EXCEPT !.busy = FALSE, !.child = @ + 1, !.set = k] \in Frame
         /\ [f EXCEPT !.busy = FALSE, !.child = @ + 1] \in Frame
  <1> DEFINE c == f.child + 1
  <1>1. c \in Nat
    BY DEF Frame
  <1> HIDE DEF c
  <1>2. /\ [f EXCEPT !.child = c, !.set = k] \in Frame
        /\ [f EXCEPT !.busy = FALSE, !.child = c, !.set = k] \in Frame
        /\ [f EXCEPT !.busy = FALSE, !.child = c] \in Frame
    BY <1>1 DEF Frame
  <1>3. QED
    BY <1>2 DEF c

LEMMA NextTypeOK == TypeOK /\ [Next]_vars => TypeOK'
  <1> SUFFICES ASSUME TypeOK, [Next]_vars PROVE TypeOK'
    OBVIOUS
  <1>0. /\ << >> \in Seq(Frame) /\ stack \in Seq(Frame)
        /\ declared \subseteq Vars /\ roots \subseteq Vars /\ words \in Nat
    BY DEF TypeOK
  <1>1. ASSUME NEW v \in Vars, Declare(v) PROVE TypeOK'
    <2>1. declared' \subseteq Vars /\ roots' \subseteq Vars /\ words' \in Nat
      BY <1>0, <1>1 DEF Declare
    <2>2. QED
      BY <1>0, <1>1, <2>1, EnterTypeOK DEF Declare
  <1>2. ASSUME NEW v \in Vars, Use(v) PROVE TypeOK'
    <2>1. declared' \subseteq Vars /\ roots' \subseteq Vars /\ words' \in Nat
      BY <1>0, <1>2 DEF Use
    <2>2. QED
      BY <1>0, <1>2, <2>1, EnterTypeOK DEF Use
  <1>3. ASSUME NEW v \in Vars, Word(v) PROVE TypeOK'
    <2>1. EnterAttrs(v, stack) /\ words' \in Nat
      BY <1>0, <1>3 DEF Word
    <2>2. QED
      BY <1>0, <2>1, AttrsTypeOK
  <1>4. CASE Resolve
    <2>1. declared' \subseteq Vars /\ roots' \subseteq Vars /\ words' \in Nat
      BY <1>0, <1>4 DEF Resolve
    <2>2. QED
      BY <1>4, <2>1, ResolveBelow, EnterTypeOK DEF Resolve
  <1>5. ASSUME Return \/ Attribute PROVE TypeOK'
    <2>1. stack # << >>
      BY <1>5 DEF Return, DefineType, DefineCompile, DefineCount, DefineCompiled,
                  DefineReturn, DefineList, DefineRefused, CompileReturn, Running,
                  Attribute, AttrKeyword, AttrName, AttrExpression, AttrExpressed,
                  AttrReturn, AtAttr
    <2>2. /\ Top \in Frame /\ Top.var \in Vars /\ Top.child \in Nat
          /\ Outer \in Seq(Frame)
      BY <2>1, TopFrame, PopTypeOK DEF Frame
    <2>3. CASE DefineType
      <3>1. [Top EXCEPT !.child = 1] \in Frame
        BY <2>2 DEF Frame
      <3>2. stack' \in Seq(Frame)
        BY <2>1, <2>3, <3>1, ContinueTypeOK DEF DefineType
      <3>3. compiled' \in [Vars -> BOOLEAN]
        BY <2>2, <2>3 DEF DefineType, TypeOK, Decl
      <3>4. QED
        BY <2>3, <3>2, <3>3 DEF DefineType, TypeOK
    <2>4. CASE DefineCompile
      <3>0. PICK names \in ToName(Top.var, Top.child) :
              Continue([Top EXCEPT !.busy = TRUE, !.todo = names])
        BY <2>4 DEF DefineCompile
      <3>1. names \in Seq(Vars)
        BY <2>2, <2>4, NamesType DEF DefineCompile, AtSet
      <3>2. [Top EXCEPT !.busy = TRUE, !.todo = names] \in Frame
        BY <2>2, <3>1 DEF Frame
      <3>3. stack' \in Seq(Frame)
        BY <2>1, <3>0, <3>2, ContinueTypeOK
      <3>4. QED
        BY <2>2, <2>4, <3>3 DEF DefineCompile, TypeOK
    <2>5. CASE DefineCount
      <3> DEFINE k == IF SetKind = "scope" THEN Top.set + 2 ELSE Top.set + 1
      <3>1. k \in Nat
        BY <2>2 DEF Frame
      <3> HIDE DEF k
      <3>2. [Top EXCEPT !.child = @ + 1, !.set = k] \in Frame
        BY <2>2, <3>1, CountedTypes
      <3>3. [Top EXCEPT !.child = @ + 1,
                        !.set = IF SetKind = "scope" THEN @ + 2 ELSE @ + 1] \in Frame
        BY <3>2 DEF k
      <3>4. stack' \in Seq(Frame)
        BY <2>1, <2>5, <3>3, ContinueTypeOK DEF DefineCount
      <3>5. QED
        BY <2>5, <3>4 DEF DefineCount, TypeOK, flags
    <2>6. CASE DefineCompiled
      <3>1. [Top EXCEPT !.busy = FALSE, !.child = @ + 1, !.set = @ + 1] \in Frame
        <4>1. Top.set + 1 \in Nat
          BY <2>2 DEF Frame
        <4>2. QED
          BY <2>2, <4>1, CountedTypes
      <3>2. stack' \in Seq(Frame)
        BY <2>1, <2>6, <3>1, ContinueTypeOK DEF DefineCompiled
      <3>3. QED
        BY <2>2, <2>6, <3>2 DEF DefineCompiled, TypeOK, flags
    <2>7. CASE DefineReturn
      BY <2>2, <2>7 DEF DefineReturn, TypeOK, flags
    <2>8. CASE DefineList
      BY <2>2, <2>8 DEF DefineList, TypeOK, flags
    <2>9. CASE DefineRefused
      BY <2>9 DEF DefineRefused, TypeOK, flags
    <2>10. CASE CompileReturn
      BY <2>2, <2>10 DEF CompileReturn, SetCompiled, TypeOK
    <2>11. CASE AttrKeyword
      <3>1. NextAttr \in Frame
        BY <2>11, NextAttrType DEF AttrKeyword
      <3>2. stack' \in Seq(Frame)
        BY <2>1, <2>11, <3>1, ContinueTypeOK DEF AttrKeyword
      <3>3. QED
        BY <2>11, <3>2 DEF AttrKeyword, TypeOK, flags
    <2>12. CASE AttrName
      <3>1. Head(AttrNames) \in Vars /\ Append(Outer, NextAttr) \in Seq(Frame)
        BY <2>12, NextAttrType, AttrNameType DEF AttrName
      <3>2. EnterAttrs(Head(AttrNames), Append(Outer, NextAttr)) /\ words' \in Nat
        BY <1>0, <2>12 DEF AttrName
      <3>3. QED
        BY <3>1, <3>2, AttrsTypeOK
    <2>13. CASE AttrExpression
      <3>0. PICK names \in ToName(Top.var, Top.child) :
              Continue([Top EXCEPT !.busy = TRUE, !.todo = names])
        BY <2>13 DEF AttrExpression
      <3>1. names \in Seq(Vars) /\ AttrNames \in Seq(Vars)
        BY <2>2, <2>13, NamesType DEF AttrExpression, AtAttr, AttrNames
      <3>2. [Top EXCEPT !.busy = TRUE, !.todo = names] \in Frame
        BY <2>2, <3>1 DEF Frame
      <3>3. stack' \in Seq(Frame)
        BY <2>1, <3>0, <3>2, ContinueTypeOK
      <3>4. roots' \subseteq Vars
        BY <1>0, <2>13, <3>1 DEF AttrExpression, Range
      <3>5. QED
        BY <2>13, <3>3, <3>4 DEF AttrExpression, TypeOK, flags
    <2>14. CASE AttrExpressed
      <3>1. [Top EXCEPT !.busy = FALSE, !.child = @ + 1] \in Frame
        BY <2>2, CountedTypes
      <3>2. stack' \in Seq(Frame)
        BY <2>1, <2>14, <3>1, ContinueTypeOK DEF AttrExpressed
      <3>3. QED
        BY <2>2, <2>14, <3>2 DEF AttrExpressed, TypeOK, flags
    <2>15. CASE AttrReturn
      BY <2>2, <2>15 DEF AttrReturn, TypeOK, flags
    <2>16. QED
      BY <1>5, <2>3, <2>4, <2>5, <2>6, <2>7, <2>8, <2>9, <2>10, <2>11, <2>12,
         <2>13, <2>14, <2>15 DEF Return, Attribute
  <1>6. CASE UNCHANGED vars
    BY <1>6 DEF vars, flags, TypeOK
  <1>7. QED
    BY <1>1, <1>2, <1>3, <1>4, <1>5, <1>6 DEF Next

\* Every reachable state of the compilation of variables is well typed, whatever
\* the declarations and the attribute words and however deep the calls nest.
THEOREM VariablesTyped == Spec => []TypeOK
  <1>1. QED
    BY InitTypeOK, NextTypeOK, PTL DEF Spec

(***************************************************************************)
(* The steps that change the innermost call and leave it in progress.      *)
(***************************************************************************)
Changes == \/ DefineType \/ DefineCompile \/ DefineCount \/ DefineCompiled
           \/ AttrKeyword \/ AttrExpression \/ AttrExpressed

LEMMA ChangeStep ==
  ASSUME TypeOK, Changes
  PROVE  /\ Running
         /\ \E f \in Frame : /\ Continue(f) /\ f.var = Top.var
                            /\ f.stage = Top.stage /\ f.side = Top.side
         /\ UNCHANGED <<decl, defined, attributes, lists, added, declared, early,
                        words, exc>>
  <1>1. Running
    BY DEF Changes, DefineType, DefineCompile, DefineCount, DefineCompiled,
           AttrKeyword, AttrExpression, AttrExpressed, AtAttr
  <1>2. /\ Top \in Frame /\ Top.var \in Vars /\ Top.child \in Nat /\ Top.set \in Nat
    BY <1>1, TopFrame DEF Frame, Running
  <1>3. CASE DefineType
    <2> DEFINE f == [Top EXCEPT !.child = 1]
    <2>1. /\ f \in Frame /\ f.var = Top.var /\ f.stage = Top.stage /\ f.side = Top.side
      BY <1>2 DEF Frame
    <2>2. QED
      BY <1>1, <1>3, <2>1 DEF DefineType
  <1>4. CASE DefineCompile \/ AttrExpression
    <2>1. PICK names \in ToName(Top.var, Top.child) :
            Continue([Top EXCEPT !.busy = TRUE, !.todo = names])
      BY <1>4 DEF DefineCompile, AttrExpression
    <2>2. names \in Seq(Vars)
      BY <1>2, <1>4, NamesType DEF DefineCompile, AtSet, AttrExpression, AtAttr
    <2> DEFINE f == [Top EXCEPT !.busy = TRUE, !.todo = names]
    <2>3. /\ f \in Frame /\ f.var = Top.var /\ f.stage = Top.stage /\ f.side = Top.side
      BY <1>2, <2>2 DEF Frame
    <2>4. QED
      BY <1>1, <1>4, <2>1, <2>3 DEF DefineCompile, AttrExpression, flags
  <1>5. CASE DefineCount
    <2> DEFINE k == IF SetKind = "scope" THEN Top.set + 2 ELSE Top.set + 1
               f == [Top EXCEPT !.child = @ + 1, !.set = k]
    <2>1. k \in Nat
      BY <1>2
    <2>2. Continue(f) /\ UNCHANGED <<decl, defined, attributes, lists, added,
                                    declared, early, words, exc>>
      BY <1>5 DEF DefineCount, flags
    <2> HIDE DEF k
    <2>3. f \in Frame
      BY <1>2, <2>1, CountedTypes
    <2>4. f.var = Top.var /\ f.stage = Top.stage /\ f.side = Top.side
      BY <1>2 DEF Frame
    <2>5. QED
      BY <1>1, <2>2, <2>3, <2>4
  <1>6. CASE DefineCompiled
    <2> DEFINE k == Top.set + 1
               f == [Top EXCEPT !.busy = FALSE, !.child = @ + 1, !.set = k]
    <2>1. k \in Nat
      BY <1>2
    <2>2. Continue(f) /\ UNCHANGED <<decl, defined, attributes, lists, added,
                                    declared, early, words, exc>>
      BY <1>6 DEF DefineCompiled, flags
    <2> HIDE DEF k
    <2>3. f \in Frame
      BY <1>2, <2>1, CountedTypes
    <2>4. f.var = Top.var /\ f.stage = Top.stage /\ f.side = Top.side
      BY <1>2 DEF Frame
    <2>5. QED
      BY <1>1, <2>2, <2>3, <2>4
  <1>7. CASE AttrKeyword
    <2>1. Top.stage = "attrs"
      BY <1>7 DEF AttrKeyword, AtAttr
    <2>2. NextAttr \in Frame /\ NextAttr.var = Top.var /\ NextAttr.stage = Top.stage
          /\ NextAttr.side = Top.side
      BY <1>7, <2>1, NextAttrType DEF AttrKeyword
    <2>3. QED
      BY <1>1, <1>7, <2>2 DEF AttrKeyword, flags
  <1>8. CASE AttrExpressed
    <2> DEFINE f == [Top EXCEPT !.busy = FALSE, !.child = @ + 1]
    <2>1. f \in Frame
      BY <1>2, CountedTypes
    <2>2. f.var = Top.var /\ f.stage = Top.stage /\ f.side = Top.side
      BY <1>2 DEF Frame
    <2>3. QED
      BY <1>1, <1>8, <2>1, <2>2 DEF AttrExpressed, flags
  <1>9. QED
    BY <1>3, <1>4, <1>5, <1>6, <1>7, <1>8 DEF Changes


(***************************************************************************)
(* A variable is recorded once.                                            *)
(***************************************************************************)
LEMMA DefiningPush ==
  ASSUME NEW s \in Seq(Frame), NEW f \in Frame, NEW w \in Vars
  PROVE  Defining(w, Append(s, f)) =
           Defining(w, s) \cup
             (IF f.var = w /\ f.stage = "define" THEN {Len(s) + 1} ELSE {})
  <1> DEFINE t == Append(s, f)
  <1>1. /\ Len(t) = Len(s) + 1 /\ Len(s) \in Nat
        /\ \A i \in 1 .. Len(s) + 1 : t[i] = IF i = Len(s) + 1 THEN f ELSE s[i]
    BY PushFrame
  <1> HIDE DEF t
  <1>2. \A i : i \in 1 .. Len(t) <=> i \in 1 .. Len(s) \/ i = Len(s) + 1
    BY <1>1
  <1>3. /\ \A i \in 1 .. Len(s) : t[i] = s[i]
        /\ t[Len(s) + 1] = f
    BY <1>1
  <1>4. \A i : i \in Defining(w, t) <=>
               \/ i \in Defining(w, s)
               \/ i = Len(s) + 1 /\ f.var = w /\ f.stage = "define"
    BY <1>2, <1>3 DEF Defining
  <1>5. QED
    BY <1>4 DEF t

LEMMA DefiningPop ==
  ASSUME NEW s \in Seq(Frame), s # << >>, NEW w \in Vars
  PROVE  Defining(w, Front(s)) = Defining(w, s) \ {Len(s)}
  <1>1. /\ Len(Front(s)) = Len(s) - 1 /\ Len(s) \in Nat \ {0}
        /\ \A i \in 1 .. Len(s) - 1 : Front(s)[i] = s[i]
    BY PopFrame
  <1>2. \A i : i \in 1 .. Len(Front(s)) <=> i \in 1 .. Len(s) /\ i # Len(s)
    BY <1>1
  <1>3. \A i \in 1 .. Len(Front(s)) : Front(s)[i] = s[i]
    BY <1>1
  <1>4. \A i : i \in Defining(w, Front(s)) <=> i \in Defining(w, s) /\ i # Len(s)
    BY <1>2, <1>3 DEF Defining
  <1>5. QED
    BY <1>4

LEMMA DefiningChange ==
  ASSUME NEW s \in Seq(Frame), s # << >>, NEW f \in Frame, NEW w \in Vars,
         f.var = s[Len(s)].var, f.stage = s[Len(s)].stage
  PROVE  Defining(w, Append(Front(s), f)) = Defining(w, s)
  <1> DEFINE t == Append(Front(s), f)
  <1>1. /\ Len(t) = Len(s)
        /\ \A i \in 1 .. Len(s) : t[i] = IF i = Len(s) THEN f ELSE s[i]
    BY ChangeFrame
  <1> HIDE DEF t
  <1>2. \A i \in 1 .. Len(s) : t[i].var = s[i].var /\ t[i].stage = s[i].stage
    BY <1>1
  <1>3. QED
    BY <1>1, <1>2 DEF Defining, t

\* a frame that is not a "define" frame comes or goes
LEMMA OtherRecord ==
  ASSUME RecordInv, \A w \in Vars : Defining(w, stack') = Defining(w, stack),
         UNCHANGED <<defined, added, lists, exc>>
  PROVE  RecordInv'
  <1>1. \A w \in Vars : Recorded(w)' = Recorded(w)
    BY DEF Recorded
  <1>2. QED
    BY <1>1 DEF RecordInv

LEMMA PushOther ==
  ASSUME NEW s \in Seq(Frame), NEW f \in Frame, f.stage # "define", NEW w \in Vars
  PROVE  Defining(w, Append(s, f)) = Defining(w, s)
  <1>1. Defining(w, Append(s, f)) = Defining(w, s) \cup {}
    BY DefiningPush
  <1>2. QED
    BY <1>1

LEMMA EnterRecord ==
  ASSUME TypeOK, RecordInv, exc = "none", NEW v \in Vars, NEW side \in BOOLEAN,
         NEW below \in Seq(Frame), Enter(v, side, below),
         \A w \in Vars : Defining(w, below) = Defining(w, stack)
  PROVE  RecordInv'
  <1>1. \A w \in Vars : Recorded(w)' = Recorded(w)
    BY DEF Enter, Recorded
  <1>3. CASE EnterDefine(v, side, below)
    <2>0. DefineFrame(v, side) \in Frame
      BY DefineFrameType
    <2>1. \A w \in Vars : Defining(w, stack') =
            Defining(w, stack) \cup (IF w = v THEN {Len(below) + 1} ELSE {})
      BY <2>0, <1>3, DefiningPush DEF EnterDefine, DefineFrame
    <2>2. /\ ~defined[v] /\ defined'[v]
          /\ \A w \in Vars : w # v => defined'[w] = defined[w]
      BY <1>3 DEF EnterDefine, Known, TypeOK
    <2>3. Defining(v, stack) = {} /\ Recorded(v) # 1
      BY <2>2 DEF RecordInv
    <2>4. QED
      BY <1>1, <2>1, <2>2, <2>3 DEF RecordInv
  <1>4. CASE EnterCompile(v, side, below)
    <2>1. PICK names \in Seq(Vars) :
            /\ stack' = Append(below, CompileFrame(v, names))
            /\ CompileFrame(v, names) \in Frame
      BY <1>4, CompilePushed
    <2>2. CompileFrame(v, names).stage # "define"
      BY DEF CompileFrame
    <2>3. \A w \in Vars : Defining(w, stack') = Defining(w, stack)
      BY <2>1, <2>2, PushOther
    <2>4. UNCHANGED <<defined, added, lists, exc>>
      BY <1>4 DEF EnterCompile, Enter
    <2>5. QED
      BY <2>3, <2>4, OtherRecord
  <1>5. CASE EnterNothing(v, side, below)
    <2>1. \A w \in Vars : Defining(w, stack') = Defining(w, stack)
      BY <1>5 DEF EnterNothing
    <2>2. UNCHANGED <<defined, added, lists, exc>>
      BY <1>5 DEF EnterNothing, Enter
    <2>3. QED
      BY <2>1, <2>2, OtherRecord
  <1>6. QED
    BY <1>3, <1>4, <1>5 DEF Enter

\* a call of identifier_to_attrs() records nothing
LEMMA AttrsRecord ==
  ASSUME TypeOK, RecordInv, NEW v \in Vars, NEW below \in Seq(Frame),
         EnterAttrs(v, below),
         \A w \in Vars : Defining(w, below) = Defining(w, stack)
  PROVE  RecordInv'
  <1>1. AttrsFrame(v) \in Frame /\ AttrsFrame(v).stage # "define"
    BY AttrsFrameType DEF AttrsFrame
  <1>2. stack' = below \/ stack' = Append(below, AttrsFrame(v))
    BY Zenon DEF EnterAttrs
  <1>3. \A w \in Vars : Defining(w, stack') = Defining(w, stack)
    BY <1>1, <1>2, PushOther
  <1>4. UNCHANGED <<defined, added, lists, exc>>
    BY DEF EnterAttrs
  <1>5. QED
    BY <1>3, <1>4, OtherRecord

\* a step of the innermost call that keeps its variable and its stage
LEMMA ContinueRecord ==
  ASSUME TypeOK, RecordInv, Changes
  PROVE  RecordInv'
  <1>1. PICK f \in Frame : Continue(f) /\ f.var = Top.var /\ f.stage = Top.stage
    BY ChangeStep
  <1>2. Running /\ UNCHANGED <<defined, added, lists, exc>>
    BY ChangeStep
  <1>3. \A w \in Vars : Defining(w, stack') = Defining(w, stack)
    BY <1>1, <1>2, TopFrame, DefiningChange DEF Continue, Outer, TypeOK, Running
  <1>4. QED
    BY <1>2, <1>3, OtherRecord

\* a define frame ends: its variable is recorded
LEMMA ReturnRecord ==
  ASSUME TypeOK, RecordInv, Running, Top.stage = "define", stack' = Outer,
         NEW v \in Vars, v = Top.var,
         UNCHANGED <<defined, exc>>,
         Recorded(v)' = Recorded(v) + 1,
         \A w \in Vars : w # v => Recorded(w)' = Recorded(w)
  PROVE  RecordInv'
  <1>1. /\ Top \in Frame /\ Top = stack[Len(stack)] /\ Len(stack) \in Nat \ {0}
    BY TopFrame DEF Running, Frame
  <1>2. \A w \in Vars : Defining(w, stack') = Defining(w, stack) \ {Len(stack)}
    BY DefiningPop DEF Running, Outer, TypeOK
  <1>3. Len(stack) \in Defining(v, stack)
    BY <1>1 DEF Defining
  <1>4. \A w \in Vars : w # v => Len(stack) \notin Defining(w, stack)
    BY <1>1 DEF Defining
  <1>5. exc = "none" /\ exc' = "none"
    BY DEF Running
  <1>6. Recorded(v) \in Nat /\ defined[v]
    <2>1. Recorded(v) \in Nat
      BY <1>1 DEF Recorded, TypeOK
    <2>2. QED
      BY <1>1, <1>3, <1>5, <2>1 DEF RecordInv
  <1>7. Recorded(v) = 0
    BY <1>1, <1>3, <1>5, <1>6 DEF RecordInv
  <1>8. /\ Recorded(v)' = 1 /\ Defining(v, stack') = {}
        /\ defined'[v]
    <2>1. \A i \in Defining(v, stack) : i = Len(stack)
      BY <1>1, <1>3, <1>5 DEF RecordInv
    <2>2. QED
      BY <1>1, <1>2, <1>6, <1>7, <2>1
  <1>9. \A w \in Vars : w # v =>
          /\ Recorded(w)' = Recorded(w) /\ defined'[w] = defined[w]
          /\ Defining(w, stack') = Defining(w, stack)
    BY <1>2, <1>4
  <1>10. \A w \in Vars :
           /\ Recorded(w)' <= 1
           /\ defined'[w] <=> Recorded(w)' = 1 \/ Defining(w, stack') # {}
           /\ Recorded(w)' = 1 => Defining(w, stack') = {}
           /\ \A i, j \in Defining(w, stack') : i = j
    <2>1. ASSUME NEW w \in Vars, w # v
          PROVE  /\ Recorded(w) <= 1
                 /\ defined[w] <=> Recorded(w) = 1 \/ Defining(w, stack) # {}
                 /\ Recorded(w) = 1 => Defining(w, stack) = {}
                 /\ \A i, j \in Defining(w, stack) : i = j
      BY <1>5, <2>1 DEF RecordInv
    <2>2. TAKE w \in Vars
    <2>3. CASE w = v
      <3>1. 1 <= 1
        OBVIOUS
      <3>2. QED
        BY <1>8, <2>3, <3>1
    <2>4. CASE w # v
      BY <1>9, <2>1, <2>4
    <2>5. QED
      BY <2>3, <2>4
  <1>11. QED
    BY <1>10 DEF RecordInv

LEMMA InitRecord == Init => RecordInv
  <1> SUFFICES ASSUME Init PROVE RecordInv
    OBVIOUS
  <1>1. \A v \in Vars : Recorded(v) = 0 /\ ~defined[v]
    BY DEF Init, Recorded
  <1>2. \A v \in Vars : Defining(v, stack) = {}
    BY DEF Init, Defining
  <1>3. QED
    BY <1>1, <1>2 DEF RecordInv
LEMMA NextRecord == TypeOK /\ RecordInv /\ [Next]_vars => RecordInv'
  <1> SUFFICES ASSUME TypeOK, RecordInv, [Next]_vars PROVE RecordInv'
    OBVIOUS
  <1>0. << >> \in Seq(Frame) /\ stack \in Seq(Frame)
    BY DEF TypeOK
  <1>1. ASSUME NEW v \in Vars, Declare(v) PROVE RecordInv'
    BY <1>0, <1>1, EnterRecord DEF Declare, Idle
  <1>2. ASSUME NEW v \in Vars, Use(v) PROVE RecordInv'
    BY <1>0, <1>2, EnterRecord DEF Use, Idle
  <1>3. ASSUME NEW v \in Vars, Word(v) PROVE RecordInv'
    <2>1. EnterAttrs(v, stack)
      BY <1>3 DEF Word
    <2>2. QED
      BY <1>0, <2>1, AttrsRecord
  <1>4. CASE Resolve
    <2> DEFINE g == [Top EXCEPT !.todo = OtherNames(Top)]
    <2>1. /\ Running /\ Top \in Frame /\ Top = stack[Len(stack)]
          /\ Head(Top.todo) \in Vars /\ g \in Frame
          /\ Append(Outer, g) \in Seq(Frame)
      BY <1>4, TopFrame, ResolveBelow DEF Resolve, Running
    <2>2. g.var = Top.var /\ g.stage = Top.stage
      BY <2>1 DEF Frame
    <2>3. Enter(Head(Top.todo), FALSE, Append(Outer, g))
      BY <1>4 DEF Resolve
    <2> HIDE DEF g
    <2>4. \A w \in Vars : Defining(w, Append(Outer, g)) = Defining(w, stack)
      BY <2>1, <2>2, DefiningChange DEF Running, Outer, TypeOK
    <2>5. QED
      BY <2>1, <2>3, <2>4, EnterRecord DEF Running
  <1>5. ASSUME Changes PROVE RecordInv'
    BY <1>5, ContinueRecord
  <1>6. CASE AttrName
    <2>1. /\ Running /\ Top = stack[Len(stack)] /\ Top.stage = "attrs"
      BY <1>6, TopFrame DEF AttrName, AtAttr, Running
    <2>2. /\ NextAttr \in Frame /\ NextAttr.var = Top.var /\ NextAttr.stage = Top.stage
          /\ Append(Outer, NextAttr) \in Seq(Frame) /\ Head(AttrNames) \in Vars
      BY <1>6, <2>1, NextAttrType, AttrNameType DEF AttrName
    <2>3. \A w \in Vars : Defining(w, Append(Outer, NextAttr)) = Defining(w, stack)
      BY <2>1, <2>2, DefiningChange DEF Running, Outer, TypeOK
    <2>4. EnterAttrs(Head(AttrNames), Append(Outer, NextAttr))
      BY <1>6 DEF AttrName
    <2>5. QED
      BY <2>2, <2>3, <2>4, AttrsRecord
  <1>7. ASSUME DefineReturn \/ DefineList \/ DefineRefused \/ CompileReturn \/ AttrReturn
        PROVE  RecordInv'
    <2>1. Running
      BY <1>7 DEF DefineReturn, DefineList, DefineRefused, CompileReturn, AttrReturn
    <2>2. /\ Top \in Frame /\ Top.var \in Vars
          /\ Top = stack[Len(stack)] /\ Len(stack) \in Nat \ {0}
      BY <2>1, TopFrame DEF Frame, Running
    <2>7. CASE DefineReturn
      <3>1. PICK v \in Vars : v = Top.var
        BY <2>2
      <3>2. /\ added' = [added EXCEPT ![v] = @ + 1] /\ lists' = lists
            /\ stack' = Outer /\ Top.stage = "define" /\ UNCHANGED <<defined, exc>>
        BY <2>7, <3>1 DEF DefineReturn, AtEnd, flags
      <3>3. /\ Recorded(v)' = Recorded(v) + 1
            /\ \A w \in Vars : w # v => Recorded(w)' = Recorded(w)
        BY <3>2 DEF Recorded, TypeOK
      <3>4. QED
        BY <2>1, <3>1, <3>2, <3>3, ReturnRecord
    <2>8. CASE DefineList
      <3>1. PICK v \in Vars : v = Top.var
        BY <2>2
      <3>2. /\ lists' = lists \cup {v} /\ added' = added
            /\ stack' = Outer /\ Top.stage = "define" /\ UNCHANGED <<defined, exc>>
        BY <2>8, <3>1 DEF DefineList, AtEnd, flags
      <3>3. v \notin lists
        <4>1. Len(stack) \in Defining(v, stack)
          BY <2>2, <3>1, <3>2 DEF Defining
        <4>2. Recorded(v) # 1 /\ Recorded(v) <= 1
          BY <2>1, <4>1 DEF RecordInv, Running
        <4>3. QED
          BY <4>2 DEF Recorded, TypeOK
      <3>4. /\ Recorded(v)' = Recorded(v) + 1
            /\ \A w \in Vars : w # v => Recorded(w)' = Recorded(w)
        BY <3>2, <3>3 DEF Recorded, TypeOK
      <3>5. QED
        BY <2>1, <3>1, <3>2, <3>4, ReturnRecord
    <2>9. CASE DefineRefused
      <3>1. exc' # "none" /\ \A w \in Vars : Recorded(w)' = Recorded(w)
        BY <2>9 DEF DefineRefused, Recorded
      <3>2. QED
        BY <3>1 DEF RecordInv
    <2>10. CASE CompileReturn \/ AttrReturn
      <3>1. stack' = Front(stack) /\ Top.stage # "define"
            /\ UNCHANGED <<defined, added, lists, exc>>
        BY <2>10 DEF CompileReturn, AttrReturn, Outer, flags
      <3>2. \A w \in Vars : Len(stack) \notin Defining(w, stack)
        BY <2>2, <3>1 DEF Defining
      <3>3. \A w \in Vars : Defining(w, Front(stack)) = Defining(w, stack) \ {Len(stack)}
        BY <2>1, DefiningPop DEF TypeOK, Running
      <3>4. \A w \in Vars : Defining(w, stack') = Defining(w, stack)
        BY <3>1, <3>2, <3>3
      <3>5. QED
        BY <3>1, <3>4, OtherRecord
    <2>11. QED
      BY <1>7, <2>7, <2>8, <2>9, <2>10
  <1>8. CASE UNCHANGED vars
    BY <1>8 DEF vars, flags, RecordInv, Recorded, Defining
  <1>9. QED
    BY <1>1, <1>2, <1>3, <1>4, <1>5, <1>6, <1>7, <1>8
       DEF Next, Return, Attribute, Changes

\* A variable that variable() went through is recorded once, or converted to a
\* list of attributes, never both and never twice, whatever the declarations,
\* circular ones included: DEFINED is set before anything is compiled, so that
\* the define frame of a variable is unique (compiler_variable.cpp:136-160).
THEOREM VariablesRecordedOnce == Spec => []RecordedOnce
  <1>1. TypeOK /\ RecordInv => RecordedOnce
    <2> SUFFICES ASSUME TypeOK, RecordInv PROVE RecordedOnce
      OBVIOUS
    <2>1. Idle => \A v \in Vars : Defining(v, stack) = {}
      BY DEF Idle, Defining
    <2>2. QED
      BY <2>1 DEF RecordInv, RecordedOnce, Idle
  <1>2. QED
    BY <1>1, InitTypeOK, NextTypeOK, InitRecord, NextRecord, PTL DEF Spec
(***************************************************************************)
(* The stack as a set of calls.                                            *)
(***************************************************************************)
LEMMA PushSet ==
  ASSUME NEW S, NEW s \in Seq(S), NEW f \in S
  PROVE  /\ Range(Append(s, f)) = Range(s) \cup {f}
         /\ Front(Append(s, f)) = s
         /\ Append(s, f) # << >>
  <1> DEFINE t == Append(s, f)
  <1>1. /\ t \in Seq(S) /\ Len(t) = Len(s) + 1 /\ Len(s) \in Nat
        /\ \A i \in 1 .. Len(s) + 1 : t[i] = IF i = Len(s) + 1 THEN f ELSE s[i]
    BY PushFrame
  <1> HIDE DEF t
  <1>2. DOMAIN t = 1 .. Len(s) + 1 /\ DOMAIN s = 1 .. Len(s)
    BY <1>1
  <1>3. Range(t) = Range(s) \cup {f}
    <2>1. \A i \in 1 .. Len(s) : t[i] = s[i] /\ i \in 1 .. Len(s) + 1
      BY <1>1
    <2>2. t[Len(s) + 1] = f /\ Len(s) + 1 \in 1 .. Len(s) + 1
      BY <1>1
    <2>3. \A i \in 1 .. Len(s) + 1 : i \in 1 .. Len(s) \/ i = Len(s) + 1
      BY <1>1
    <2>4. QED
      BY <1>2, <2>1, <2>2, <2>3 DEF Range
  <1>4. t # << >>
    BY <1>1
  <1>5. Front(t) = s
    <2>1. /\ Front(t) \in Seq(S) /\ Len(Front(t)) = Len(t) - 1
          /\ \A i \in 1 .. Len(t) - 1 : Front(t)[i] = t[i]
      BY <1>1, <1>4, PopFrame
    <2>2. /\ Front(t) \in Seq(S) /\ Len(Front(t)) = Len(s)
          /\ \A i \in 1 .. Len(s) : Front(t)[i] = s[i]
      BY <1>1, <2>1
    <2>3. QED
      BY <2>2, SeqEqual
  <1>6. QED
    BY <1>3, <1>4, <1>5 DEF t

LEMMA TopSet ==
  ASSUME NEW S, NEW s \in Seq(S), s # << >>
  PROVE  Range(s) = Range(Front(s)) \cup {Last(s)}
  <1>1. /\ Front(s) \in Seq(S) /\ Len(Front(s)) = Len(s) - 1
        /\ Len(s) \in Nat \ {0} /\ Last(s) = s[Len(s)]
        /\ \A i \in 1 .. Len(s) - 1 : Front(s)[i] = s[i]
    BY PopFrame DEF Last
  <1>2. DOMAIN s = 1 .. Len(s) /\ DOMAIN Front(s) = 1 .. Len(s) - 1
    BY <1>1
  <1>3. \A i : i \in 1 .. Len(s) <=> i \in 1 .. Len(s) - 1 \/ i = Len(s)
    BY <1>1
  <1>4. QED
    BY <1>1, <1>2, <1>3 DEF Range

(***************************************************************************)
(* The variables an initializer needs.                                     *)

LEMMA ContinueSet ==
  ASSUME TypeOK, stack # << >>, NEW f \in Frame
  PROVE  /\ Range(Append(Outer, f)) = Range(Outer) \cup {f}
         /\ Range(stack) = Range(Outer) \cup {Top}
         /\ Outer \in Seq(Frame) /\ Range(Outer) \subseteq Frame
         /\ Range(stack) \subseteq Frame
  <1>1. Outer \in Seq(Frame)
    BY PopTypeOK
  <1>2. Range(Append(Outer, f)) = Range(Outer) \cup {f}
    BY <1>1, PushSet
  <1>3. Range(stack) = Range(Outer) \cup {Top}
    BY TopSet DEF TypeOK, Outer, Top
  <1>4. Range(Outer) \subseteq Frame /\ Range(stack) \subseteq Frame
    BY <1>1 DEF Range, TypeOK
  <1>5. QED
    BY <1>1, <1>2, <1>3, <1>4

(***************************************************************************)
(* An initializer is compiled again only by a call inside one of the same  *)
(* variable.  The two ways through variable() differ: the first call sets  *)
(* COMPILED before expression(), the later ones when it returned, so that  *)
(* between the two a variable that was compiled has a frame "compile".     *)
(***************************************************************************)
Compiling(v, F) == \E f \in F : f.stage = "compile" /\ f.var = v

OnceInv ==
  exc = "none" =>
    \A v \in Vars : calls[v] > 0 => compiled[v] \/ Compiling(v, Range(stack))

OnceStep ==
  \A v \in Vars : calls'[v] > calls[v] /\ calls[v] > 0 => InProgress(v)

\* No expression() begins and no "compile" frame ends.
LEMMA OnceQuiet ==
  ASSUME OnceInv, TypeOK, calls' = calls, compiled' = compiled, exc' = exc,
         \A v \in Vars : Compiling(v, Range(stack)) => Compiling(v, Range(stack'))
  PROVE  OnceInv' /\ OnceStep
  <1>1. OnceInv'
    BY DEF OnceInv, Compiling
  <1>2. \A v \in Vars : ~(calls[v] > calls[v])
    BY DEF TypeOK
  <1>3. QED
    BY <1>1, <1>2 DEF OnceStep

LEMMA EnterOnce ==
  ASSUME TypeOK, OnceInv, exc = "none", NEW v \in Vars, NEW side \in BOOLEAN,
         NEW below \in Seq(Frame), Enter(v, side, below),
         \A w \in Vars : Compiling(w, Range(stack)) => Compiling(w, Range(below))
  PROVE  OnceInv' /\ OnceStep
  <1>0. exc' = exc /\ compiled' = compiled
    BY DEF Enter
  <1>1. ASSUME NEW f \in Frame
        PROVE  \A w \in Vars : Compiling(w, Range(stack)) =>
                               Compiling(w, Range(Append(below, f)))
    <2>1. Range(Append(below, f)) = Range(below) \cup {f}
      BY PushSet
    <2>2. QED
      BY <2>1 DEF Compiling
  <1>2. CASE EnterDefine(v, side, below)
    <2>1. DefineFrame(v, side) \in Frame
      BY DefineFrameType
    <2>2. stack' = Append(below, DefineFrame(v, side)) /\ calls' = calls
      BY <1>2 DEF EnterDefine
    <2>3. QED
      BY <1>0, <1>1, <2>1, <2>2, OnceQuiet
  <1>3. CASE EnterCompile(v, side, below)
    <2>1. PICK names \in Seq(Vars) :
            /\ stack' = Append(below, CompileFrame(v, names))
            /\ CompileFrame(v, names) \in Frame
      BY <1>3, CompilePushed
    <2>2. /\ ~compiled[v] /\ calls' = [calls EXCEPT ![v] = @ + 1]
      BY <1>3, CompilePushed DEF EnterCompile
    <2>3. \A w \in Vars : w # v => calls'[w] = calls[w]
      BY <2>2 DEF TypeOK
    <2>4. Compiling(v, Range(stack'))
      <3>1. Range(stack') = Range(below) \cup {CompileFrame(v, names)}
        BY <2>1, PushSet
      <3>2. CompileFrame(v, names).stage = "compile" /\ CompileFrame(v, names).var = v
        BY DEF CompileFrame
      <3>3. QED
        BY <3>1, <3>2 DEF Compiling
    <2>5. OnceInv'
      <3>1. \A w \in Vars : Compiling(w, Range(stack)) => Compiling(w, Range(stack'))
        BY <1>1, <2>1
      <3>2. \A w \in Vars : calls'[w] > 0 => compiled[w] \/ Compiling(w, Range(stack'))
        BY <2>3, <2>4, <3>1 DEF OnceInv
      <3>3. QED
        BY <1>0, <3>2 DEF OnceInv, Compiling
    <2>6. calls[v] > 0 => InProgress(v)
      BY <2>2 DEF OnceInv, Compiling, InProgress
    <2>7. \A w \in Vars : ~(calls[w] > calls[w])
      BY DEF TypeOK
    <2>8. OnceStep
      BY <2>3, <2>6, <2>7 DEF OnceStep
    <2>9. QED
      BY <2>5, <2>8
  <1>4. CASE EnterNothing(v, side, below)
    <2>1. stack' = below /\ calls' = calls
      BY <1>4 DEF EnterNothing
    <2>2. QED
      BY <1>0, <2>1, OnceQuiet
  <1>5. QED
    BY <1>2, <1>3, <1>4 DEF Enter

LEMMA AttrsOnce ==
  ASSUME TypeOK, OnceInv, NEW v \in Vars, NEW below \in Seq(Frame),
         EnterAttrs(v, below),
         \A w \in Vars : Compiling(w, Range(stack)) => Compiling(w, Range(below))
  PROVE  OnceInv' /\ OnceStep
  <1>1. stack' = below \/ stack' = Append(below, AttrsFrame(v))
    BY Zenon DEF EnterAttrs
  <1>2. Range(Append(below, AttrsFrame(v))) = Range(below) \cup {AttrsFrame(v)}
    BY AttrsFrameType, PushSet
  <1>3. \A w \in Vars : Compiling(w, Range(stack)) => Compiling(w, Range(stack'))
    BY <1>1, <1>2 DEF Compiling
  <1>4. calls' = calls /\ compiled' = compiled /\ exc' = exc
    BY DEF EnterAttrs
  <1>5. QED
    BY <1>3, <1>4, OnceQuiet

LEMMA InitOnce == Init => OnceInv
  BY DEF Init, OnceInv

LEMMA NextOnce == TypeOK /\ OnceInv /\ [Next]_vars => OnceInv' /\ OnceStep
  <1> SUFFICES ASSUME TypeOK, OnceInv, [Next]_vars PROVE OnceInv' /\ OnceStep
    OBVIOUS
  <1>0. << >> \in Seq(Frame) /\ stack \in Seq(Frame)
    BY DEF TypeOK
  <1>1. ASSUME NEW v \in Vars, Declare(v) PROVE OnceInv' /\ OnceStep
    BY <1>0, <1>1, EnterOnce DEF Declare, Idle
  <1>2. ASSUME NEW v \in Vars, Use(v) PROVE OnceInv' /\ OnceStep
    BY <1>0, <1>2, EnterOnce DEF Use, Idle
  <1>3. ASSUME NEW v \in Vars, Word(v) PROVE OnceInv' /\ OnceStep
    <2>1. EnterAttrs(v, stack)
      BY <1>3 DEF Word
    <2>2. QED
      BY <1>0, <2>1, AttrsOnce
  <1>4. ASSUME NEW f \in Frame, stack # << >>, f.var = Top.var, f.stage = Top.stage
        PROVE  \A w \in Vars : Compiling(w, Range(stack)) =>
                               Compiling(w, Range(Append(Outer, f)))
    <2>1. /\ Range(Append(Outer, f)) = Range(Outer) \cup {f}
          /\ Range(stack) = Range(Outer) \cup {Top}
      BY <1>4, ContinueSet
    <2>2. QED
      BY <1>4, <2>1 DEF Compiling
  <1>5. CASE Resolve
    <2> DEFINE g == [Top EXCEPT !.todo = OtherNames(Top)]
    <2>1. /\ Running /\ Top \in Frame /\ Head(Top.todo) \in Vars /\ g \in Frame
          /\ Append(Outer, g) \in Seq(Frame)
      BY <1>5, TopFrame, ResolveBelow DEF Resolve, Running
    <2>2. g.var = Top.var /\ g.stage = Top.stage
      BY <2>1 DEF Frame
    <2>3. Enter(Head(Top.todo), FALSE, Append(Outer, g))
      BY <1>5 DEF Resolve
    <2> HIDE DEF g
    <2>4. stack # << >> /\ exc = "none"
      BY <2>1 DEF Running
    <2>5. QED
      BY <1>4, <2>1, <2>2, <2>3, <2>4, EnterOnce
  <1>6. CASE AttrName
    <2>1. /\ stack # << >> /\ Top.stage = "attrs"
      BY <1>6 DEF AttrName, AtAttr, Running
    <2>2. /\ NextAttr \in Frame /\ NextAttr.var = Top.var /\ NextAttr.stage = Top.stage
          /\ Append(Outer, NextAttr) \in Seq(Frame) /\ Head(AttrNames) \in Vars
      BY <1>6, <2>1, NextAttrType, AttrNameType DEF AttrName
    <2>3. EnterAttrs(Head(AttrNames), Append(Outer, NextAttr))
      BY <1>6 DEF AttrName
    <2>4. QED
      BY <1>4, <2>1, <2>2, <2>3, AttrsOnce
  <1>7. ASSUME Changes PROVE OnceInv' /\ OnceStep
    <2>1. PICK f \in Frame : Continue(f) /\ f.var = Top.var /\ f.stage = Top.stage
      BY <1>7, ChangeStep
    <2>2. stack # << >> /\ exc = "none" /\ exc' = exc
      BY <1>7, ChangeStep DEF Running
    <2>3. \A w \in Vars : Compiling(w, Range(stack)) => Compiling(w, Range(stack'))
      BY <1>4, <2>1, <2>2 DEF Continue
    <2>4. Top \in Frame /\ Top.var \in Vars /\ Top \in Range(stack)
      BY <2>2, TopFrame, ContinueSet DEF Frame
    <2>5. PICK t \in Vars : t = Top.var
      BY <2>4
    <2>6. CASE DefineCompile
      <3>1. /\ compiled' = [compiled EXCEPT ![t] = TRUE]
            /\ calls' = [calls EXCEPT ![t] = @ + 1]
            /\ Top.stage = "define"
        BY <2>5, <2>6 DEF DefineCompile, AtSet
      <3>2. /\ compiled'[t]
            /\ \A w \in Vars : w # t => calls'[w] = calls[w] /\ compiled'[w] = compiled[w]
        BY <3>1 DEF TypeOK
      <3>3. OnceInv'
        <4>1. \A w \in Vars : calls'[w] > 0 => compiled'[w] \/ Compiling(w, Range(stack'))
          BY <2>2, <2>3, <3>2 DEF OnceInv
        <4>2. QED
          BY <4>1 DEF OnceInv, Compiling
      <3>4. InProgress(t)
        BY <2>4, <2>5, <3>1 DEF InProgress
      <3>5. \A w \in Vars : ~(calls[w] > calls[w])
        BY DEF TypeOK
      <3>6. QED
        BY <3>2, <3>3, <3>4, <3>5 DEF OnceStep
    <2>7. CASE DefineType
      <3>1. /\ compiled' = [compiled EXCEPT ![t] = compiled[t] \/ decl[t].typed]
            /\ calls' = calls
        BY <2>5, <2>7 DEF DefineType
      <3>2. \A w \in Vars : compiled[w] => compiled'[w]
        BY <3>1 DEF TypeOK
      <3>3. OnceInv'
        <4>1. \A w \in Vars : calls'[w] > 0 => compiled'[w] \/ Compiling(w, Range(stack'))
          BY <2>2, <2>3, <3>1, <3>2 DEF OnceInv
        <4>2. QED
          BY <4>1 DEF OnceInv, Compiling
      <3>4. \A w \in Vars : ~(calls[w] > calls[w])
        BY DEF TypeOK
      <3>5. QED
        BY <3>1, <3>3, <3>4 DEF OnceStep
    <2>8. CASE DefineCount \/ DefineCompiled \/ AttrKeyword \/ AttrExpression \/ AttrExpressed
      <3>1. calls' = calls /\ compiled' = compiled
        BY <2>8 DEF DefineCount, DefineCompiled, AttrKeyword, AttrExpression,
                    AttrExpressed, flags
      <3>2. QED
        BY <2>2, <2>3, <3>1, OnceQuiet
    <2>9. QED
      BY <1>7, <2>6, <2>7, <2>8 DEF Changes
  <1>8. ASSUME DefineReturn \/ DefineList \/ DefineRefused \/ CompileReturn \/ AttrReturn
        PROVE  OnceInv' /\ OnceStep
    <2>1. stack # << >> /\ exc = "none" /\ calls' = calls
      BY <1>8 DEF DefineReturn, DefineList, DefineRefused, CompileReturn, AttrReturn,
                  Running, flags
    <2>2. Top \in Frame /\ Range(stack) = Range(Outer) \cup {Top}
      BY <2>1, TopFrame, ContinueSet
    <2>3. \A w \in Vars : ~(calls[w] > calls[w])
      BY DEF TypeOK
    <2>4. OnceStep
      BY <2>1, <2>3 DEF OnceStep
    <2>5. CASE DefineReturn \/ DefineList \/ AttrReturn
      <3>1. stack' = Outer /\ Top.stage # "compile" /\ compiled' = compiled /\ exc' = exc
        BY <2>5 DEF DefineReturn, DefineList, AttrReturn, AtEnd, flags
      <3>2. \A w \in Vars : Compiling(w, Range(stack)) => Compiling(w, Range(stack'))
        BY <2>2, <3>1 DEF Compiling
      <3>3. QED
        BY <2>1, <3>1, <3>2, OnceQuiet
    <2>6. CASE DefineRefused
      BY <2>4, <2>6 DEF DefineRefused, OnceInv
    <2>7. CASE CompileReturn
      <3>0. PICK t \in Vars : t = Top.var
        BY <2>2 DEF Frame
      <3>1. stack' = Outer /\ compiled' = [compiled EXCEPT ![t] = TRUE]
        BY <2>7, <3>0 DEF CompileReturn, SetCompiled
      <3>2. compiled'[t] /\ \A w \in Vars : compiled[w] => compiled'[w]
        BY <3>1 DEF TypeOK
      <3>3. \A w \in Vars : w # t /\ Compiling(w, Range(stack)) => Compiling(w, Range(stack'))
        BY <2>2, <3>0, <3>1 DEF Compiling
      <3>4. \A w \in Vars : calls'[w] > 0 => compiled'[w] \/ Compiling(w, Range(stack'))
        BY <2>1, <3>2, <3>3 DEF OnceInv
      <3>5. OnceInv'
        BY <3>4 DEF OnceInv, Compiling
      <3>6. QED
        BY <2>4, <3>5
    <2>8. QED
      BY <1>8, <2>5, <2>6, <2>7
  <1>9. CASE UNCHANGED vars
    BY <1>9, OnceQuiet DEF vars, flags
  <1>10. QED
    BY <1>1, <1>2, <1>3, <1>5, <1>6, <1>7, <1>8, <1>9
       DEF Next, Return, Attribute, Changes

\* Once a call of variable() compiled the initializer of a variable and returned,
\* no other call compiles it, whatever the declarations, the initializers and the
\* attribute words, circular ones included: an initializer is compiled again only
\* by a call inside one of the same variable (compiler_variable.cpp:136-158 and
\* 195-201).
THEOREM VariablesCompiledOnce == Spec => CompiledOnce
  <1>1. TypeOK /\ OnceInv /\ [Next]_vars =>
          [\A v \in Vars : calls'[v] > calls[v] /\ calls[v] > 0 => InProgress(v)]_vars
    BY NextOnce DEF OnceStep
  <1>2. QED
    BY <1>1, InitTypeOK, NextTypeOK, InitOnce, NextOnce, PTL DEF Spec, CompiledOnce


(***************************************************************************)
(* What is compiled is what is needed.  Between two directives no call is  *)
(* in progress; the inductive invariant says what is still to be done      *)
(* while some are: a variable asked for is INUSE, or a call in progress    *)
(* will set it, or an expression in progress did not resolve it yet.       *)
(***************************************************************************)
\* a first call that did not reach the initializer, and one that compiles it
Unreached(f) == f.stage = "define" /\ ~f.busy /\ f.set = 0
Starts(f) == Unreached(f) /\ (~f.side \/ HasEffect(f.var))

\* Among the calls F: one that will set INUSE on w; one that has w to resolve;
\* one that will compile the initializer of v.
Pending(w, F) ==
  \E f \in F :
    f.var = w /\ (f.stage = "compile" \/ (Unreached(f) /\ HasEffect(w)))
Waiting(w, F) == \E f \in F : w \in Range(f.todo)
Starting(v, F) == \E f \in F : f.var = v /\ Starts(f)

\* What is known of w when an expression of the calls F, or one before, names it.
Met(w, F) == inuse[w] \/ Pending(w, F) \/ Waiting(w, F)

FrameNeeds(f) ==
  /\ Range(f.todo) \subseteq Needed(roots)
  /\ ~f.busy => f.todo = << >>
  /\ f.stage = "define" =>
       /\ defined[f.var]
       /\ f.busy => calls[f.var] > 0 /\ f.child = 1
       /\ f.side => f.var \in early /\ (HasEffect(f.var) => f.var \in roots)
       /\ ~f.side => inuse[f.var]
       /\ f.set \in {0, 1}
       /\ f.set = 0 => f.child \in {0, 1}
       /\ f.set = 1 => f.child = 2 /\ ~f.busy
  /\ f.stage = "compile" =>
       f.busy /\ calls[f.var] > 0 /\ f.var \in Needed(roots) /\ Known(f.var)
  /\ f.stage = "attrs" /\ f.busy =>
       /\ f.child \in 1 .. Len(decl[f.var].sets)
       /\ Range(decl[f.var].refs[f.child]) \subseteq roots

\* the variables whose initializer expression() was given to, or went through
Expressed(v) == calls[v] > 0 \/ <<v, 1>> \in done
Touched(v) == inuse[v] \/ compiled[v]
Compiled(v) == calls[v] > 0 \/ TypedFirst(v)

StackNeeds(F) == \A f \in F : FrameNeeds(f)
CallsNeeded ==
  \A v \in Vars : calls[v] > 0 => v \in Needed(roots) /\ Initialized(v)
InUseNeeded == \A v \in Vars : inuse[v] => v \in Needed(roots)
TouchedKnown == \A v \in Vars : Touched(v) => Known(v)
RootsMet(F) == \A r \in roots : Met(r, F)
NamesMet(F) ==
  \A v \in Vars : Expressed(v) => \A w \in Names(decl, v) : Met(w, F)
UsedCompiled(F) ==
  \A v \in Vars : Initialized(v) /\ Touched(v) => Compiled(v) \/ Starting(v, F)

NeedParts(F) ==
  /\ StackNeeds(F)
  /\ CallsNeeded
  /\ InUseNeeded
  /\ TouchedKnown
  /\ RootsMet(F)
  /\ NamesMet(F)
  /\ UsedCompiled(F)

NeedInv == NoLists /\ exc = "none" => NeedParts(Range(stack))

(***************************************************************************)
(* The variables an initializer needs.                                     *)
(***************************************************************************)
Grows ==
  /\ decl' = decl
  /\ roots \subseteq roots' /\ roots' \subseteq Vars
  /\ early \subseteq early'
  /\ \A v \in Vars : calls[v] > 0 => calls'[v] > 0
  /\ \A v \in Vars : defined[v] => defined'[v]
  /\ \A v \in Vars : attributes[v] => attributes'[v]
  /\ \A v \in Vars : inuse[v] => inuse'[v]

LEMMA NeededGrows ==
  ASSUME Grows
  PROVE  /\ roots' \subseteq Needed(roots)'
         /\ Needed(roots) \subseteq Needed(roots)'
         /\ \A v \in Needed(roots)' : calls'[v] > 0 =>
              Names(decl, v) \cap Vars \subseteq Needed(roots)'
  <1>1. \A v \in Vars : Names(decl, v)' = Names(decl, v)
    BY DEF Grows, Names
  <1>2. roots' \subseteq Needed(roots)'
    BY DEF Grows, Needed
  <1>3. Needed(roots) \subseteq Needed(roots)'
    <2> SUFFICES ASSUME NEW v \in Needed(roots), NEW C \in SUBSET Vars, roots' \subseteq C,
                        \A x \in C : calls'[x] > 0 => Names(decl, x)' \subseteq C
                 PROVE  v \in C
      BY DEF Needed
    <2>1. roots \subseteq C /\ \A x \in C : calls[x] > 0 => Names(decl, x) \subseteq C
      BY <1>1 DEF Grows
    <2>2. QED
      BY <2>1 DEF Needed
  <1>4. \A v \in Needed(roots)' : calls'[v] > 0 =>
          Names(decl, v) \cap Vars \subseteq Needed(roots)'
    <2> SUFFICES ASSUME NEW v \in Needed(roots)', calls'[v] > 0,
                        NEW w \in Names(decl, v) \cap Vars,
                        NEW C \in SUBSET Vars, roots' \subseteq C,
                        \A x \in C : calls'[x] > 0 => Names(decl, x)' \subseteq C
                 PROVE  w \in C
      BY DEF Needed
    <2>1. v \in C
      BY DEF Needed
    <2>2. QED
      BY <1>1, <2>1
  <1>5. QED
    BY <1>2, <1>3, <1>4

\* The program does not change, so that what is said of it does not.
LEMMA SameProgram ==
  ASSUME decl' = decl
  PROVE  /\ \A v : Names(decl, v)' = Names(decl, v)
         /\ \A v : Initialized(v)' <=> Initialized(v)
         /\ \A v : HasEffect(v)' <=> HasEffect(v)
         /\ \A f : Starts(f)' <=> Starts(f)
         /\ \A v, F : Pending(v, F)' <=> Pending(v, F)
         /\ \A v, F : Starting(v, F)' <=> Starting(v, F)
         /\ \A v, F : Waiting(v, F)' <=> Waiting(v, F)
  BY DEF Names, Initialized, HasEffect, Starts, Unreached, Pending, Starting, Waiting

\* A call that a step leaves alone is not disturbed: all it needs only grows.
LEMMA FrameStays ==
  ASSUME TypeOK, NEW f \in Frame, FrameNeeds(f), Grows
  PROVE  FrameNeeds(f)'
  <1>1. f.var \in Vars
    BY DEF Frame
  <1>2. Needed(roots) \subseteq Needed(roots)'
    BY NeededGrows
  <1>3. HasEffect(f.var)' <=> HasEffect(f.var)
    BY SameProgram DEF Grows
  <1>4. Known(f.var) => Known(f.var)'
    BY <1>1 DEF Known, Grows
  <1>5. Range(f.todo) \subseteq Needed(roots)' /\ (~f.busy => f.todo = << >>)
    BY <1>2 DEF FrameNeeds
  <1>6. f.stage = "define" =>
       /\ defined'[f.var]
       /\ f.busy => calls'[f.var] > 0 /\ f.child = 1
       /\ f.side => f.var \in early' /\ (HasEffect(f.var)' => f.var \in roots')
       /\ ~f.side => inuse'[f.var]
       /\ f.set \in {0, 1}
       /\ f.set = 0 => f.child \in {0, 1}
       /\ f.set = 1 => f.child = 2 /\ ~f.busy
    BY <1>1, <1>3 DEF FrameNeeds, Grows
  <1>7. f.stage = "compile" =>
          f.busy /\ calls'[f.var] > 0 /\ f.var \in Needed(roots)' /\ Known(f.var)'
    BY <1>1, <1>2, <1>4 DEF FrameNeeds, Grows
  <1>8. f.stage = "attrs" /\ f.busy =>
         /\ f.child \in 1 .. Len(decl'[f.var].sets)
         /\ Range(decl'[f.var].refs[f.child]) \subseteq roots'
    BY DEF FrameNeeds, Grows
  <1>9. QED
    BY <1>5, <1>6, <1>7, <1>8 DEF FrameNeeds

\* What a step has to say of the calls F before it and G after it.
LEMMA NeedStep ==
  ASSUME TypeOK, NEW F, NeedParts(F), Grows, NEW G, F \subseteq Frame,
         \A f \in G : f \in F \/ FrameNeeds(f)',
         \A w \in Vars : Pending(w, F) \/ Waiting(w, F) =>
                          inuse'[w] \/ Pending(w, G) \/ Waiting(w, G),
         \A r \in roots' : r \in roots \/ inuse'[r] \/ Pending(r, G) \/ Waiting(r, G),
         \A v \in Vars : calls'[v] > 0 \/ <<v, 1>> \in done' =>
            \/ Expressed(v)
            \/ \A w \in Names(decl, v) : inuse'[w] \/ Pending(w, G) \/ Waiting(w, G),
         \A v \in Vars : inuse'[v] => inuse[v] \/ v \in Needed(roots)',
         \A v \in Vars : calls'[v] > 0 =>
            calls[v] > 0 \/ (v \in Needed(roots)' /\ Initialized(v)),
         \A v \in Vars : inuse'[v] \/ compiled'[v] => Touched(v) \/ Known(v)',
         \A v \in Vars : Initialized(v) /\ (inuse'[v] \/ compiled'[v]) =>
            Touched(v) \/ calls'[v] > 0 \/ TypedFirst(v)' \/ Starting(v, G),
         \A v \in Vars : Initialized(v) /\ Starting(v, F) =>
            Starting(v, G) \/ calls'[v] > 0
  PROVE  NeedParts(G)'
  <1>1. decl' = decl /\ roots' \subseteq Vars
    BY DEF Grows
  <1>2. /\ \A v : Names(decl, v)' = Names(decl, v)
        /\ \A v : Initialized(v)' <=> Initialized(v)
        /\ \A v : HasEffect(v)' <=> HasEffect(v)
        /\ \A v : Pending(v, G)' <=> Pending(v, G)
        /\ \A v : Starting(v, G)' <=> Starting(v, G)
        /\ \A v : Waiting(v, G)' <=> Waiting(v, G)
    BY <1>1, SameProgram
  <1>3. Needed(roots) \subseteq Needed(roots)'
    BY NeededGrows
  <1>4. \A v \in Vars : Known(v) => Known(v)'
    BY DEF Known, Grows
  <1>5. StackNeeds(G)'
    BY FrameStays DEF StackNeeds, NeedParts
  <1>6. CallsNeeded'
    BY <1>2, <1>3 DEF CallsNeeded, NeedParts
  <1>7. InUseNeeded'
    BY <1>3 DEF InUseNeeded, NeedParts
  <1>8. TouchedKnown'
    BY <1>4 DEF TouchedKnown, Touched, NeedParts
  <1>9. \A w \in Vars : Met(w, F) => inuse'[w] \/ Pending(w, G) \/ Waiting(w, G)
    BY DEF Met, Grows
  <1>10. RootsMet(G)'
    <2>1. \A r \in roots' : inuse'[r] \/ Pending(r, G) \/ Waiting(r, G)
      BY <1>1, <1>9 DEF NeedParts, RootsMet
    <2>2. QED
      BY <1>2, <2>1 DEF RootsMet, Met
  <1>11. NamesMet(G)'
    <2>1. ASSUME NEW v \in Vars, calls'[v] > 0 \/ <<v, 1>> \in done', NEW w \in Names(decl, v)
          PROVE  inuse'[w] \/ Pending(w, G) \/ Waiting(w, G)
      <3>1. w \in Vars
        BY NamesAreVars
      <3>2. CASE Expressed(v)
        BY <1>9, <3>1, <3>2 DEF NeedParts, NamesMet
      <3>3. CASE ~Expressed(v)
        BY <2>1, <3>3
      <3>4. QED
        BY <3>2, <3>3
    <2>2. QED
      BY <1>2, <2>1 DEF NamesMet, Met, Expressed
  <1>12. UsedCompiled(G)'
    <2>1. \A v \in Vars : TypedFirst(v) => TypedFirst(v)'
      BY <1>1, <1>2 DEF TypedFirst, Grows
    <2>2. ASSUME NEW v \in Vars, Initialized(v), inuse'[v] \/ compiled'[v]
          PROVE  calls'[v] > 0 \/ TypedFirst(v)' \/ Starting(v, G)
      <3>1. CASE Touched(v)
        <4>1. calls[v] > 0 \/ TypedFirst(v) \/ Starting(v, F)
          BY <2>2, <3>1 DEF NeedParts, UsedCompiled, Compiled
        <4>2. QED
          BY <2>1, <2>2, <4>1 DEF Grows
      <3>2. CASE ~Touched(v)
        BY <2>2, <3>2
      <3>3. QED
        BY <3>1, <3>2
    <2>3. QED
      BY <1>2, <2>2 DEF UsedCompiled, Touched, Compiled
  <1>13. QED
    BY <1>5, <1>6, <1>7, <1>8, <1>10, <1>11, <1>12 DEF NeedParts

\* A step that leaves the calls G.
LEMMA NeedAfter ==
  ASSUME NEW G, G = Range(stack'), NeedParts(G)'
  PROVE  NeedParts(Range(stack))'
  BY DEF NeedParts, StackNeeds, RootsMet, NamesMet, UsedCompiled, Met, Pending, Waiting,
         Starting

LEMMA EnterNeed ==
  ASSUME TypeOK, NeedParts(Range(stack)), NEW v \in Vars, NEW side \in BOOLEAN,
         NEW below \in Seq(Frame), Enter(v, side, below),
         roots \subseteq roots', roots' \subseteq Vars,
         \A f \in Range(below) : FrameNeeds(f),
         \A w \in Vars : Pending(w, Range(stack)) => Pending(w, Range(below)),
         \A w \in Vars : Starting(w, Range(stack)) => Starting(w, Range(below)),
         \A w \in Vars : Waiting(w, Range(stack)) =>
                          Waiting(w, Range(below)) \/ (w = v /\ ~side),
         \A r \in roots' : r \in roots \/ (r = v /\ (~side \/ (~Known(v) /\ HasEffect(v)))),
         ~side => v \in Needed(roots) \/ v \in roots',
         side /\ ~Known(v) /\ HasEffect(v) => v \in roots'
  PROVE  NeedParts(Range(stack))'
  <1>1. PICK B : B = Range(below)
    OBVIOUS
  <1>2. PICK F : F = Range(stack)
    OBVIOUS
  <1>3. F \subseteq Frame /\ B \subseteq Frame
    BY <1>1, <1>2 DEF TypeOK, Range
  <1>4. /\ decl' = decl /\ compiled' = compiled /\ attributes' = attributes /\ done' = done
    BY DEF Enter
  <1>5. /\ \A x \in Vars : Known(x) <=> defined[x] \/ attributes[x]
        /\ \A x \in Vars : Known(x)' <=> defined'[x] \/ attributes[x]
    BY <1>4 DEF Known
  <1>6. ~Known(v) => ~inuse[v] /\ ~compiled[v]
    BY DEF NeedParts, TouchedKnown, Touched
  <1>7. Grows
    <2>1. CASE EnterDefine(v, side, below)
      BY <1>4, <1>6, <2>1 DEF EnterDefine, Grows, TypeOK
    <2>2. CASE EnterCompile(v, side, below)
      BY <1>4, <2>2 DEF EnterCompile, Grows, TypeOK
    <2>3. CASE EnterNothing(v, side, below)
      BY <1>4, <2>3 DEF EnterNothing, Grows, TypeOK
    <2>4. QED
      BY <2>1, <2>2, <2>3 DEF Enter
  <1>8. ~side => v \in Needed(roots)'
    BY <1>7, NeededGrows
  <1>9. \A x : HasEffect(x)' <=> HasEffect(x)
    BY <1>4, SameProgram
  <1>10. \A w \in Vars : Pending(w, F) \/ Waiting(w, F) =>
                         Pending(w, B) \/ Waiting(w, B) \/ (w = v /\ ~side)
    BY <1>1, <1>2
  <1>11. CASE EnterDefine(v, side, below)
    <2>0. PICK f : f = DefineFrame(v, side)
      OBVIOUS
    <2>1. /\ ~Known(v) /\ defined' = [defined EXCEPT ![v] = TRUE]
          /\ inuse' = [inuse EXCEPT ![v] = ~side] /\ calls' = calls
          /\ early' = (IF side THEN early \cup {v} ELSE early)
          /\ stack' = Append(below, f)
      BY <1>11, <2>0 DEF EnterDefine, InUse
    <2>2. /\ f \in Frame /\ f.var = v /\ f.stage = "define" /\ f.side = side
          /\ f.child = 0 /\ f.set = 0 /\ f.busy = FALSE /\ f.todo = << >>
      BY <2>0, DefineFrameType DEF DefineFrame
    <2>3. PICK G : G = B \cup {f}
      OBVIOUS
    <2>4. G = Range(stack')
      BY <1>1, <2>1, <2>2, <2>3, PushSet
    <2>5. /\ \A x \in Vars : x # v => inuse'[x] = inuse[x]
          /\ inuse'[v] = ~side /\ defined'[v]
      BY <2>1 DEF TypeOK
    <2>6. FrameNeeds(f)'
      <3>1. Range(f.todo) = {}
        BY <2>2 DEF Range
      <3>2. side => v \in early' /\ (HasEffect(v)' => v \in roots')
        BY <1>9, <2>1
      <3>3. QED
        BY <2>2, <2>5, <3>1, <3>2 DEF FrameNeeds
    <2>7. /\ \A x : Pending(x, B) => Pending(x, G)
          /\ \A x : Waiting(x, B) => Waiting(x, G)
          /\ \A x : Starting(x, B) => Starting(x, G)
          /\ HasEffect(v) => Pending(v, G)
          /\ ~side => Starting(v, G)
      BY <2>2, <2>3 DEF Pending, Waiting, Starting, Starts, Unreached
    <2>8. \A g \in G : g \in F \/ FrameNeeds(g)'
      BY <1>1, <1>3, <1>7, <2>3, <2>6, FrameStays
    <2>9. \A w \in Vars : Pending(w, F) \/ Waiting(w, F) =>
                          inuse'[w] \/ Pending(w, G) \/ Waiting(w, G)
      BY <1>10, <2>5, <2>7
    <2>10. \A r \in roots' : r \in roots \/ inuse'[r] \/ Pending(r, G) \/ Waiting(r, G)
      BY <2>5, <2>7
    <2>11. \A x \in Vars : calls'[x] > 0 \/ <<x, 1>> \in done' => Expressed(x)
      BY <1>4, <2>1 DEF Expressed
    <2>12. \A x \in Vars : inuse'[x] => inuse[x] \/ (x = v /\ ~side)
      BY <2>5
    <2>13. \A x \in Vars : inuse'[x] => inuse[x] \/ x \in Needed(roots)'
      BY <1>8, <2>12
    <2>14. Known(v)'
      BY <1>5, <2>5
    <2>15. \A x \in Vars : inuse'[x] \/ compiled'[x] => Touched(x) \/ Known(x)'
      BY <1>4, <2>12, <2>14 DEF Touched
    <2>16. \A x \in Vars : Initialized(x) /\ (inuse'[x] \/ compiled'[x]) =>
             Touched(x) \/ calls'[x] > 0 \/ TypedFirst(x)' \/ Starting(x, G)
      BY <1>4, <2>7, <2>12 DEF Touched
    <2>17. \A x \in Vars : Initialized(x) /\ Starting(x, F) => Starting(x, G) \/ calls'[x] > 0
      BY <1>1, <1>2, <2>7
    <2>18. NeedParts(G)'
      BY <1>2, <1>3, <1>7, <2>1, <2>8, <2>9, <2>10, <2>11, <2>13, <2>15, <2>16, <2>17,
         NeedStep
    <2>19. QED
      BY <2>4, <2>18, NeedAfter
  <1>12. CASE EnterCompile(v, side, below)
    <2>0. PICK names \in Seq(Vars) :
            /\ stack' = Append(below, CompileFrame(v, names))
            /\ CompileFrame(v, names) \in Frame
            /\ names = decl[v].refs[1] \/ (names = << >> /\ <<v, 1>> \in done)
      BY <1>12, CompilePushed
    <2>1. PICK f : f = CompileFrame(v, names)
      OBVIOUS
    <2>2. /\ ~side /\ Initialized(v) /\ Known(v)
          /\ calls' = [calls EXCEPT ![v] = @ + 1]
          /\ UNCHANGED <<defined, inuse, early>>
      BY <1>12, CompilePushed DEF EnterCompile
    <2>3. /\ f \in Frame /\ f.var = v /\ f.stage = "compile" /\ f.side = FALSE
          /\ f.busy = TRUE /\ f.todo = names
      BY <2>0, <2>1 DEF CompileFrame
    <2>4. PICK G : G = B \cup {f}
      OBVIOUS
    <2>5. G = Range(stack')
      BY <1>1, <2>0, <2>1, <2>3, <2>4, PushSet
    <2>6. /\ \A x \in Vars : x # v => calls'[x] = calls[x]
          /\ calls'[v] > 0
      BY <2>2 DEF TypeOK
    <2>7. Names(decl, v) = Range(decl[v].refs[1]) /\ Names(decl, v) \subseteq Vars
      BY <2>2, NamesAreVars
    <2>8. Range(names) \subseteq Names(decl, v)
      <3>1. Range(<< >>) = {}
        BY DEF Range
      <3>2. QED
        BY <2>0, <2>7, <3>1
    <2>9. Known(v)' /\ v \in Needed(roots)'
      BY <1>5, <1>8, <2>2
    <2>10. Range(f.todo) \subseteq Needed(roots)'
      BY <1>7, <2>3, <2>6, <2>7, <2>8, <2>9, NeededGrows
    <2>11. FrameNeeds(f)'
      BY <2>3, <2>6, <2>9, <2>10 DEF FrameNeeds
    <2>12. /\ \A x : Pending(x, B) => Pending(x, G)
           /\ \A x : Waiting(x, B) => Waiting(x, G)
           /\ \A x : Starting(x, B) => Starting(x, G)
           /\ Pending(v, G)
           /\ \A x \in Range(names) : Waiting(x, G)
      BY <2>3, <2>4 DEF Pending, Waiting, Starting
    <2>13. \A g \in G : g \in F \/ FrameNeeds(g)'
      BY <1>1, <1>3, <1>7, <2>4, <2>11, FrameStays
    <2>14. \A w \in Vars : Pending(w, F) \/ Waiting(w, F) =>
                           inuse'[w] \/ Pending(w, G) \/ Waiting(w, G)
      BY <1>10, <2>12
    <2>15. \A r \in roots' : r \in roots \/ inuse'[r] \/ Pending(r, G) \/ Waiting(r, G)
      BY <2>12
    <2>16. \A x \in Vars : calls'[x] > 0 \/ <<x, 1>> \in done' =>
             \/ Expressed(x)
             \/ \A w \in Names(decl, x) : inuse'[w] \/ Pending(w, G) \/ Waiting(w, G)
      <3> TAKE x \in Vars
      <3> HAVE calls'[x] > 0 \/ <<x, 1>> \in done'
      <3>1. CASE x # v
        BY <1>4, <2>6, <3>1 DEF Expressed
      <3>2. CASE x = v /\ names = decl[v].refs[1]
        BY <2>7, <2>12, <3>2
      <3>3. CASE x = v /\ <<v, 1>> \in done
        BY <3>3 DEF Expressed
      <3>4. QED
        BY <2>0, <3>1, <3>2, <3>3
    <2>17. \A x \in Vars : calls'[x] > 0 =>
             calls[x] > 0 \/ (x \in Needed(roots)' /\ Initialized(x))
      BY <2>2, <2>6, <2>9
    <2>18. /\ \A x \in Vars : inuse'[x] => inuse[x] \/ x \in Needed(roots)'
           /\ \A x \in Vars : inuse'[x] \/ compiled'[x] => Touched(x) \/ Known(x)'
           /\ \A x \in Vars : Initialized(x) /\ (inuse'[x] \/ compiled'[x]) =>
                 Touched(x) \/ calls'[x] > 0 \/ TypedFirst(x)' \/ Starting(x, G)
      BY <1>4, <2>2 DEF Touched
    <2>19. \A x \in Vars : Initialized(x) /\ Starting(x, F) => Starting(x, G) \/ calls'[x] > 0
      BY <1>1, <1>2, <2>12
    <2>20. NeedParts(G)'
      BY <1>2, <1>3, <1>7, <2>13, <2>14, <2>15, <2>16, <2>17, <2>18, <2>19, NeedStep
    <2>21. QED
      BY <2>5, <2>20, NeedAfter
  <1>13. CASE EnterNothing(v, side, below)
    <2>1. /\ Known(v) /\ ~MustCompile(v, side) /\ stack' = below
          /\ inuse' = [inuse EXCEPT ![v] = inuse[v] \/ ~side]
          /\ defined' = defined /\ calls' = calls /\ early' = early
      BY <1>13 DEF EnterNothing, InUse
    <2>2. /\ \A x \in Vars : inuse'[x] => inuse[x] \/ (x = v /\ ~side)
          /\ ~side => inuse'[v]
          /\ \A x \in Vars : Known(x)' <=> Known(x)
      BY <1>5, <2>1 DEF TypeOK
    <2>3. \A g \in B : g \in F \/ FrameNeeds(g)'
      BY <1>1, <1>3, <1>7, FrameStays
    <2>4. \A w \in Vars : Pending(w, F) \/ Waiting(w, F) =>
                          inuse'[w] \/ Pending(w, B) \/ Waiting(w, B)
      BY <1>10, <2>2
    <2>5. \A r \in roots' : r \in roots \/ inuse'[r] \/ Pending(r, B) \/ Waiting(r, B)
      BY <2>1, <2>2
    <2>6. \A x \in Vars : calls'[x] > 0 \/ <<x, 1>> \in done' => Expressed(x)
      BY <1>4, <2>1 DEF Expressed
    <2>7. \A x \in Vars : inuse'[x] => inuse[x] \/ x \in Needed(roots)'
      BY <1>8, <2>2
    <2>8. \A x \in Vars : inuse'[x] \/ compiled'[x] => Touched(x) \/ Known(x)'
      BY <1>4, <2>1, <2>2 DEF Touched
    <2>9. \A x \in Vars : Initialized(x) /\ (inuse'[x] \/ compiled'[x]) =>
             Touched(x) \/ calls'[x] > 0 \/ TypedFirst(x)' \/ Starting(x, B)
      BY <1>4, <2>1, <2>2 DEF Touched, MustCompile
    <2>10. \A x \in Vars : Initialized(x) /\ Starting(x, F) => Starting(x, B) \/ calls'[x] > 0
      BY <1>1, <1>2
    <2>11. NeedParts(B)'
      BY <1>2, <1>3, <1>7, <2>1, <2>3, <2>4, <2>5, <2>6, <2>7, <2>8, <2>9, <2>10, NeedStep
    <2>12. QED
      BY <1>1, <2>1, <2>11, NeedAfter
  <1>14. QED
    BY <1>11, <1>12, <1>13 DEF Enter

(***************************************************************************)
(* The innermost call t, and the calls O under it.                         *)
(***************************************************************************)
LEMMA TopNeeds ==
  ASSUME TypeOK, NeedParts(Range(stack)), Running
  PROVE  /\ Top \in Frame /\ Top.var \in Vars /\ Top.child \in Nat /\ Top.set \in Nat
         /\ Top.todo \in Seq(Vars) /\ Top.side \in BOOLEAN /\ Top.busy \in BOOLEAN
         /\ FrameNeeds(Top)
         /\ Range(stack) = Range(Outer) \cup {Top}
         /\ Range(stack) \subseteq Frame
         /\ \A f \in Range(Outer) : FrameNeeds(f)
         /\ Outer \in Seq(Frame)
  <1>1. Top \in Frame
    BY TopFrame DEF Running
  <1>2. Range(stack) = Range(Outer) \cup {Top} /\ Range(stack) \subseteq Frame
        /\ Outer \in Seq(Frame)
    BY <1>1, ContinueSet DEF Running
  <1>3. \A f \in Range(stack) : FrameNeeds(f)
    BY DEF NeedParts, StackNeeds
  <1>4. /\ Top.var \in Vars /\ Top.child \in Nat /\ Top.set \in Nat
        /\ Top.todo \in Seq(Vars) /\ Top.side \in BOOLEAN /\ Top.busy \in BOOLEAN
    BY <1>1 DEF Frame
  <1>5. QED
    BY <1>1, <1>2, <1>3, <1>4

LEMMA OneSet ==
  ASSUME TypeOK, NoLists, NEW v \in Vars
  PROVE  /\ Len(decl[v].sets) \in {0, 1}
         /\ Initialized(v) <=> Len(decl[v].sets) = 1
         /\ \A k \in 1 .. Len(decl[v].sets) : k = 1 /\ decl[v].sets[k] # "scope"
  <1>1. decl[v].sets \in Seq(SetKinds) /\ Len(decl[v].sets) < 2
    BY DEF TypeOK, Decl, NoLists
  <1>2. "scope" \notin Range(decl[v].sets)
    BY DEF NoLists
  <1>3. Len(decl[v].sets) \in {0, 1} /\ (Initialized(v) <=> Len(decl[v].sets) = 1)
    <2>1. Len(decl[v].sets) \in Nat
      BY <1>1
    <2>2. decl[v].sets = << >> <=> Len(decl[v].sets) = 0
      BY <1>1
    <2>3. PICK n \in Nat : n = Len(decl[v].sets)
      BY <2>1
    <2>4. n < 2
      BY <1>1, <2>3
    <2>5. n = 0 \/ n = 1
      BY <2>4
    <2>6. QED
      BY <2>2, <2>3, <2>5, 0 # 1, Zenon DEF Initialized
  <1>4. \A k \in 1 .. Len(decl[v].sets) : decl[v].sets[k] # "scope"
    BY <1>1, <1>2 DEF Range
  <1>5. QED
    BY <1>3, <1>4

LEMMA ResolveNeed ==
  ASSUME TypeOK, NeedParts(Range(stack)), Resolve
  PROVE  NeedParts(Range(stack))'
  <1>1. Running /\ Top.todo # << >> /\ Top.busy
    BY DEF Resolve
  <1>2. PICK t : t = Top
    OBVIOUS
  <1>3. PICK g : g = [t EXCEPT !.todo = OtherNames(t)]
    OBVIOUS
  <1>4. PICK v : v = Head(t.todo)
    OBVIOUS
  <1>5. /\ t \in Frame /\ t.todo \in Seq(Vars) /\ FrameNeeds(t) /\ Range(stack) = Range(Outer) \cup {t}
        /\ \A f \in Range(Outer) : FrameNeeds(f)
    BY <1>1, <1>2, TopNeeds
  <1>6. /\ v \in Vars /\ g \in Frame /\ Append(Outer, g) \in Seq(Frame)
        /\ Enter(v, FALSE, Append(Outer, g))
    BY <1>2, <1>3, <1>4, ResolveBelow DEF Resolve
  <1>7. /\ g.var = t.var /\ g.stage = t.stage /\ g.side = t.side /\ g.set = t.set
        /\ g.child = t.child /\ g.busy = t.busy /\ g.todo = Tail(t.todo)
    BY <1>3, <1>5 DEF Frame, OtherNames
  <1>8. Range(g.todo) \subseteq Range(t.todo) /\ v \in Range(t.todo)
    BY <1>1, <1>2, <1>4, <1>5, <1>7, NextName
  <1>9. \A w \in Range(t.todo) : w \in Range(g.todo) \/ w = v
    <2>1. /\ Len(t.todo) \in Nat \ {0} /\ v = t.todo[1]
          /\ Len(g.todo) = Len(t.todo) - 1 /\ g.todo \in Seq(Vars)
          /\ \A i \in 1 .. Len(g.todo) : g.todo[i] = t.todo[i + 1]
      BY <1>1, <1>2, <1>4, <1>5, <1>7, HeadTailProperties
    <2>2. DOMAIN t.todo = 1 .. Len(t.todo) /\ DOMAIN g.todo = 1 .. Len(g.todo)
      BY <1>5, <2>1
    <2>3. \A i \in 2 .. Len(t.todo) : i - 1 \in 1 .. Len(g.todo) /\ g.todo[i - 1] = t.todo[i]
      <3> TAKE i \in 2 .. Len(t.todo)
      <3>1. PICK j \in 1 .. Len(g.todo) : j = i - 1 /\ j + 1 = i
        BY <2>1
      <3>2. QED
        BY <2>1, <3>1
    <2>4. \A i \in 1 .. Len(t.todo) : i = 1 \/ i \in 2 .. Len(t.todo)
      BY <2>1
    <2>5. QED
      BY <2>1, <2>2, <2>3, <2>4 DEF Range
  <1>10. FrameNeeds(g)
    BY <1>1, <1>2, <1>5, <1>7, <1>8 DEF FrameNeeds
  <1>11. PICK F : F = Range(stack)
    OBVIOUS
  <1>12. PICK B : B = Range(Append(Outer, g))
    OBVIOUS
  <1>13. B = Range(Outer) \cup {g} /\ F = Range(Outer) \cup {t} /\ Range(Outer) \subseteq B
    BY <1>1, <1>5, <1>6, <1>11, <1>12, ContinueSet DEF Running
  <1>14. /\ \A w : Pending(w, F) => \/ Pending(w, B)
                                   \/ /\ w = t.var
                                      /\ t.stage = "compile" \/ (Unreached(t) /\ HasEffect(w))
         /\ \A w : Waiting(w, F) => Waiting(w, B) \/ w \in Range(t.todo)
         /\ \A w : Starting(w, F) => Starting(w, B) \/ (w = t.var /\ Starts(t))
         /\ \A f \in B : /\ \A w \in Range(f.todo) : Waiting(w, B)
                         /\ Starts(f) => Starting(f.var, B)
                         /\ f.stage = "compile" \/ (Unreached(f) /\ HasEffect(f.var))
                              => Pending(f.var, B)
    BY <1>13, Zenon DEF Pending, Waiting, Starting
  <1>15. g \in B /\ (Unreached(g) <=> Unreached(t)) /\ (Starts(g) <=> Starts(t))
    BY <1>7, <1>13 DEF Unreached, Starts
  <1>16. /\ \A w \in Vars : Pending(w, F) => Pending(w, B)
         /\ \A w \in Vars : Starting(w, F) => Starting(w, B)
         /\ \A w \in Vars : Waiting(w, F) => Waiting(w, B) \/ w = v
    BY <1>7, <1>9, <1>14, <1>15
  <1>17. \A f \in B : FrameNeeds(f)
    BY <1>5, <1>10, <1>13
  <1>18. v \in Needed(roots)
    BY <1>5, <1>8 DEF FrameNeeds
  <1>19. roots' = roots /\ roots \subseteq Vars
    BY DEF Resolve, TypeOK
  <1>20. QED
    BY <1>6, <1>11, <1>12, <1>16, <1>17, <1>18, <1>19, EnterNeed

\* A call of identifier_to_attrs().
LEMMA AttrsNeed ==
  ASSUME TypeOK, NeedParts(Range(stack)), NEW v \in Vars, NEW below \in Seq(Frame),
         EnterAttrs(v, below),
         \A f \in Range(below) : FrameNeeds(f),
         \A w \in Vars : Pending(w, Range(stack)) => Pending(w, Range(below)),
         \A w \in Vars : Starting(w, Range(stack)) => Starting(w, Range(below)),
         \A w \in Vars : Waiting(w, Range(stack)) => Waiting(w, Range(below))
  PROVE  NeedParts(Range(stack))'
  <1>1. PICK B : B = Range(below)
    OBVIOUS
  <1>2. PICK F : F = Range(stack)
    OBVIOUS
  <1>3. F \subseteq Frame /\ B \subseteq Frame
    BY <1>1, <1>2 DEF TypeOK, Range
  <1>4. UNCHANGED <<decl, defined, compiled, inuse, calls, early, roots, done>>
    BY DEF EnterAttrs
  <1>5. \A x \in Vars : attributes[x] => attributes'[x]
    BY Zenon DEF EnterAttrs, TypeOK
  <1>6. Grows
    BY <1>4, <1>5 DEF Grows, TypeOK
  <1>7. PICK f : f = AttrsFrame(v)
    OBVIOUS
  <1>8. /\ f \in Frame /\ f.stage = "attrs" /\ f.busy = FALSE /\ f.todo = << >>
    BY <1>7, AttrsFrameType DEF AttrsFrame
  <1>9. stack' = below \/ stack' = Append(below, f)
    BY <1>7, Zenon DEF EnterAttrs
  <1>10. PICK G : G = Range(stack')
    OBVIOUS
  <1>11. B \subseteq G /\ G \subseteq B \cup {f}
    <2>1. Range(Append(below, f)) = B \cup {f}
      BY <1>1, <1>8, PushSet
    <2>2. QED
      BY <1>1, <1>9, <1>10, <2>1
  <1>12. FrameNeeds(f)'
    <2>1. Range(f.todo) = {}
      BY <1>8 DEF Range
    <2>2. QED
      BY <1>8, <2>1 DEF FrameNeeds
  <1>13. \A g \in G : g \in F \/ FrameNeeds(g)'
    BY <1>1, <1>3, <1>6, <1>11, <1>12, FrameStays
  <1>14. /\ \A x : Pending(x, B) => Pending(x, G)
         /\ \A x : Waiting(x, B) => Waiting(x, G)
         /\ \A x : Starting(x, B) => Starting(x, G)
    BY <1>11 DEF Pending, Waiting, Starting
  <1>15. /\ \A w \in Vars : Pending(w, F) \/ Waiting(w, F) =>
                          inuse'[w] \/ Pending(w, G) \/ Waiting(w, G)
         /\ \A x \in Vars : Initialized(x) /\ Starting(x, F) => Starting(x, G) \/ calls'[x] > 0
    BY <1>1, <1>2, <1>14
  <1>16. /\ \A r \in roots' : r \in roots \/ inuse'[r] \/ Pending(r, G) \/ Waiting(r, G)
         /\ \A x \in Vars : calls'[x] > 0 \/ <<x, 1>> \in done' =>
              \/ Expressed(x)
              \/ \A w \in Names(decl, x) : inuse'[w] \/ Pending(w, G) \/ Waiting(w, G)
         /\ \A x \in Vars : inuse'[x] => inuse[x] \/ x \in Needed(roots)'
         /\ \A x \in Vars : calls'[x] > 0 =>
              calls[x] > 0 \/ (x \in Needed(roots)' /\ Initialized(x))
         /\ \A x \in Vars : inuse'[x] \/ compiled'[x] => Touched(x) \/ Known(x)'
         /\ \A x \in Vars : Initialized(x) /\ (inuse'[x] \/ compiled'[x]) =>
              Touched(x) \/ calls'[x] > 0 \/ TypedFirst(x)' \/ Starting(x, G)
    BY <1>4 DEF Expressed, Touched
  <1>17. NeedParts(G)'
    BY <1>2, <1>3, <1>6, <1>13, <1>15, <1>16, NeedStep
  <1>18. QED
    BY <1>10, <1>17, NeedAfter

LEMMA AttrNameNeed ==
  ASSUME TypeOK, NeedParts(Range(stack)), AttrName
  PROVE  NeedParts(Range(stack))'
  <1>1. Running /\ AtAttr /\ Top.stage = "attrs" /\ ~Top.busy
    BY DEF AttrName, AtAttr
  <1>2. PICK t : t = Top
    OBVIOUS
  <1>3. PICK g : g = NextAttr
    OBVIOUS
  <1>4. /\ t \in Frame /\ FrameNeeds(t) /\ Range(stack) = Range(Outer) \cup {t}
        /\ \A f \in Range(Outer) : FrameNeeds(f)
    BY <1>1, <1>2, TopNeeds
  <1>5. t.todo = << >>
    BY <1>1, <1>2, <1>4 DEF FrameNeeds
  <1>6. /\ g \in Frame /\ g.stage = "attrs" /\ g.busy = FALSE /\ g.todo = << >>
        /\ Append(Outer, g) \in Seq(Frame)
    BY <1>1, <1>2, <1>3, <1>5, NextAttrType
  <1>7. Range(g.todo) = {} /\ Range(t.todo) = {}
    BY <1>5, <1>6 DEF Range
  <1>8. FrameNeeds(g)
    BY <1>6, <1>7 DEF FrameNeeds
  <1>9. Range(Append(Outer, g)) = Range(Outer) \cup {g}
    BY <1>1, <1>6, ContinueSet DEF Running
  <1>10. /\ \A w \in Vars : Pending(w, Range(stack)) => Pending(w, Range(Append(Outer, g)))
         /\ \A w \in Vars : Starting(w, Range(stack)) => Starting(w, Range(Append(Outer, g)))
         /\ \A w \in Vars : Waiting(w, Range(stack)) => Waiting(w, Range(Append(Outer, g)))
    BY <1>1, <1>2, <1>4, <1>7, <1>9 DEF Pending, Starting, Starts, Unreached, Waiting
  <1>11. \A f \in Range(Append(Outer, g)) : FrameNeeds(f)
    BY <1>4, <1>8, <1>9
  <1>12. EnterAttrs(Head(AttrNames), Append(Outer, g)) /\ Head(AttrNames) \in Vars
    BY <1>3, AttrNameType DEF AttrName
  <1>13. QED
    BY <1>6, <1>10, <1>11, <1>12, AttrsNeed

(***************************************************************************)
(* The steps that change the innermost call t into f.                      *)
(***************************************************************************)
LEMMA DefineTypeNeed ==
  ASSUME TypeOK, NeedParts(Range(stack)), DefineType
  PROVE  NeedParts(Range(stack))'
  <1>1. Running /\ Top.stage = "define" /\ ~Top.busy /\ Top.child = 0
    BY DEF DefineType
  <1>2. PICK t : t = Top
    OBVIOUS
  <1>3. PICK O : O = Range(Outer)
    OBVIOUS
  <1>4. PICK F : F = Range(stack)
    OBVIOUS
  <1>5. /\ t \in Frame /\ t.var \in Vars /\ FrameNeeds(t) /\ F = O \cup {t}
        /\ F \subseteq Frame
    BY <1>1, <1>2, <1>3, <1>4, TopNeeds
  <1>6. PICK f : f = [t EXCEPT !.child = 1]
    OBVIOUS
  <1>7. /\ f \in Frame /\ f.var = t.var /\ f.stage = t.stage /\ f.side = t.side
        /\ f.busy = t.busy /\ f.set = t.set /\ f.todo = t.todo /\ f.child = 1
    BY <1>5, <1>6 DEF Frame
  <1>8. PICK G : G = O \cup {f}
    OBVIOUS
  <1>9. G = Range(stack')
    <2>1. stack' = Append(Outer, f)
      BY <1>2, <1>6 DEF DefineType, Continue
    <2>2. QED
      BY <1>1, <1>3, <1>7, <1>8, <2>1, ContinueSet DEF Running
  <1>10. /\ UNCHANGED <<decl, defined, inuse, attributes, calls, early, roots, done>>
         /\ compiled' = [compiled EXCEPT ![t.var] = compiled[t.var] \/ decl[t.var].typed]
    BY <1>2 DEF DefineType
  <1>11. Grows
    BY <1>10 DEF Grows, TypeOK
  <1>12. t.set = 0 /\ defined[t.var] /\ Unreached(t) /\ (t.side => t.var \in early)
    BY <1>1, <1>2, <1>5 DEF FrameNeeds, Unreached
  <1>13. FrameNeeds(f)'
    <2>1. FrameNeeds(t)'
      BY <1>5, <1>11, FrameStays
    <2>2. QED
      BY <1>1, <1>2, <1>7, <1>12, <2>1 DEF FrameNeeds
  <1>14. /\ \A w \in Vars : Pending(w, F) \/ Waiting(w, F) => Pending(w, G) \/ Waiting(w, G)
         /\ \A w \in Vars : Starting(w, F) => Starting(w, G)
         /\ (t.side /\ ~HasEffect(t.var)) \/ Starting(t.var, G)
    BY <1>5, <1>7, <1>8, <1>12 DEF Pending, Waiting, Starting, Starts, Unreached
  <1>15. \A x \in Vars : compiled'[x] => compiled[x] \/ (x = t.var /\ decl[t.var].typed)
    BY <1>5, <1>10 DEF TypeOK
  <1>16. \A x \in Vars : Initialized(x) /\ (inuse'[x] \/ compiled'[x]) =>
           Touched(x) \/ calls'[x] > 0 \/ TypedFirst(x)' \/ Starting(x, G)
    <2>1. t.side /\ ~HasEffect(t.var) /\ decl[t.var].typed => TypedFirst(t.var)'
      BY <1>10, <1>12, SameProgram DEF TypedFirst
    <2>2. QED
      BY <1>10, <1>14, <1>15, <2>1 DEF Touched
  <1>17. \A x \in Vars : inuse'[x] \/ compiled'[x] => Touched(x) \/ Known(x)'
    BY <1>10, <1>12, <1>15 DEF Touched, Known
  <1>18. /\ \A g \in G : g \in F \/ FrameNeeds(g)'
         /\ \A r \in roots' : r \in roots \/ inuse'[r] \/ Pending(r, G) \/ Waiting(r, G)
         /\ \A x \in Vars : calls'[x] > 0 \/ <<x, 1>> \in done' =>
              \/ Expressed(x)
              \/ \A w \in Names(decl, x) : inuse'[w] \/ Pending(w, G) \/ Waiting(w, G)
         /\ \A x \in Vars : inuse'[x] => inuse[x] \/ x \in Needed(roots)'
         /\ \A x \in Vars : calls'[x] > 0 =>
              calls[x] > 0 \/ (x \in Needed(roots)' /\ Initialized(x))
    BY <1>5, <1>8, <1>10, <1>13 DEF Expressed
  <1>19. NeedParts(G)'
    BY <1>4, <1>5, <1>11, <1>14, <1>16, <1>17, <1>18, NeedStep
  <1>20. QED
    BY <1>9, <1>19, NeedAfter

LEMMA DefineCompileNeed ==
  ASSUME TypeOK, NoLists, NeedParts(Range(stack)), DefineCompile
  PROVE  NeedParts(Range(stack))'
  <1>1. /\ Running /\ Top.stage = "define" /\ ~Top.busy
        /\ Top.child \in 1 .. Len(decl[Top.var].sets) /\ CompileNow(Top, SetKind)
    BY DEF DefineCompile, AtSet
  <1>2. PICK t : t = Top
    OBVIOUS
  <1>3. PICK O : O = Range(Outer)
    OBVIOUS
  <1>4. PICK F : F = Range(stack)
    OBVIOUS
  <1>5. /\ t \in Frame /\ t.var \in Vars /\ FrameNeeds(t) /\ F = O \cup {t}
        /\ F \subseteq Frame
    BY <1>1, <1>2, <1>3, <1>4, TopNeeds
  <1>6. /\ t.child = 1 /\ Initialized(t.var) /\ 1 \in 1 .. Len(decl[t.var].sets)
    BY <1>1, <1>2, <1>5, OneSet DEF Initialized
  <1>7. PICK names \in ToName(t.var, 1) :
           stack' = Append(Outer, [t EXCEPT !.busy = TRUE, !.todo = names])
    BY <1>2, <1>6 DEF DefineCompile, Continue
  <1>8. /\ names \in Seq(Vars)
        /\ names = decl[t.var].refs[1] \/ (names = << >> /\ <<t.var, 1>> \in done)
        /\ Names(decl, t.var) = Range(decl[t.var].refs[1]) /\ Names(decl, t.var) \subseteq Vars
    BY <1>5, <1>6, <1>7, NamesType, NamesAreVars
  <1>9. PICK f : f = [t EXCEPT !.busy = TRUE, !.todo = names]
    OBVIOUS
  <1>10. /\ f \in Frame /\ f.var = t.var /\ f.stage = t.stage /\ f.side = t.side
         /\ f.busy = TRUE /\ f.set = t.set /\ f.todo = names /\ f.child = t.child
    BY <1>5, <1>8, <1>9 DEF Frame
  <1>11. PICK G : G = O \cup {f}
    OBVIOUS
  <1>12. G = Range(stack')
    BY <1>1, <1>3, <1>7, <1>9, <1>10, <1>11, ContinueSet DEF Running
  <1>13. /\ UNCHANGED <<decl, defined, attributes, early, roots, done>>
         /\ compiled' = [compiled EXCEPT ![t.var] = TRUE]
         /\ inuse' = [inuse EXCEPT ![t.var] = TRUE]
         /\ calls' = [calls EXCEPT ![t.var] = @ + 1]
    BY <1>2 DEF DefineCompile
  <1>14. /\ compiled'[t.var] /\ inuse'[t.var] /\ calls'[t.var] > 0
         /\ \A x \in Vars : x # t.var => /\ compiled'[x] = compiled[x]
                                       /\ inuse'[x] = inuse[x]
                                       /\ calls'[x] = calls[x]
    BY <1>5, <1>13 DEF TypeOK
  <1>15. Grows
    BY <1>13, <1>14 DEF Grows, TypeOK
  <1>16. t.set = 0 /\ (t.side => HasEffect(t.var)) /\ t.todo = << >> /\ defined[t.var]
    <2>1. t.set = 0 /\ (~t.side \/ decl[t.var].sets[1] = "effect")
      BY <1>1, <1>2, <1>6 DEF CompileNow, SetKind
    <2>2. QED
      BY <1>1, <1>2, <1>5, <1>6, <2>1 DEF FrameNeeds, HasEffect
  <1>17. t.var \in Needed(roots)'
    <2>1. t.side => t.var \in roots
      BY <1>1, <1>2, <1>5, <1>16 DEF FrameNeeds
    <2>2. ~t.side => inuse[t.var]
      BY <1>1, <1>2, <1>5 DEF FrameNeeds
    <2>3. inuse[t.var] => t.var \in Needed(roots)
      BY <1>5 DEF NeedParts, InUseNeeded
    <2>4. QED
      BY <1>15, <2>1, <2>2, <2>3, NeededGrows DEF Grows
  <1>18. FrameNeeds(f)'
    <2>1. FrameNeeds(t)'
      BY <1>5, <1>15, FrameStays
    <2>2. Range(<< >>) = {}
      BY DEF Range
    <2>3. Range(f.todo) \subseteq Needed(roots)'
      BY <1>8, <1>10, <1>14, <1>15, <1>17, <2>2, NeededGrows
    <2>4. QED
      BY <1>1, <1>2, <1>6, <1>10, <1>14, <1>16, <2>1, <2>3 DEF FrameNeeds
  <1>19. Range(t.todo) = {}
    BY <1>16 DEF Range
  <1>20. /\ \A w \in Vars : Pending(w, F) \/ Waiting(w, F) =>
                          w = t.var \/ Pending(w, G) \/ Waiting(w, G)
         /\ \A w \in Vars : Starting(w, F) => Starting(w, G) \/ w = t.var
         /\ \A w \in Range(names) : Waiting(w, G)
    BY <1>5, <1>10, <1>11, <1>19 DEF Pending, Waiting, Starting
  <1>21. /\ \A w \in Vars : Pending(w, F) \/ Waiting(w, F) =>
                          inuse'[w] \/ Pending(w, G) \/ Waiting(w, G)
         /\ \A x \in Vars : Initialized(x) /\ Starting(x, F) => Starting(x, G) \/ calls'[x] > 0
    BY <1>14, <1>20
  <1>22. \A x \in Vars : calls'[x] > 0 \/ <<x, 1>> \in done' =>
              \/ Expressed(x)
              \/ \A w \in Names(decl, x) : inuse'[w] \/ Pending(w, G) \/ Waiting(w, G)
    <2> TAKE x \in Vars
    <2> HAVE calls'[x] > 0 \/ <<x, 1>> \in done'
    <2>1. CASE x # t.var
      BY <1>13, <1>14, <2>1 DEF Expressed
    <2>2. CASE x = t.var /\ names = decl[t.var].refs[1]
      BY <1>8, <1>20, <2>2
    <2>3. CASE x = t.var /\ <<t.var, 1>> \in done
      BY <2>3 DEF Expressed
    <2>4. QED
      BY <1>8, <2>1, <2>2, <2>3
  <1>23. Known(t.var)'
    BY <1>13, <1>16 DEF Known
  <1>24. /\ \A g \in G : g \in F \/ FrameNeeds(g)'
         /\ \A r \in roots' : r \in roots \/ inuse'[r] \/ Pending(r, G) \/ Waiting(r, G)
         /\ \A x \in Vars : inuse'[x] => inuse[x] \/ x \in Needed(roots)'
         /\ \A x \in Vars : calls'[x] > 0 =>
              calls[x] > 0 \/ (x \in Needed(roots)' /\ Initialized(x))
         /\ \A x \in Vars : inuse'[x] \/ compiled'[x] => Touched(x) \/ Known(x)'
         /\ \A x \in Vars : Initialized(x) /\ (inuse'[x] \/ compiled'[x]) =>
              Touched(x) \/ calls'[x] > 0 \/ TypedFirst(x)' \/ Starting(x, G)
    BY <1>5, <1>6, <1>11, <1>13, <1>14, <1>17, <1>18, <1>23 DEF Touched
  <1>25. NeedParts(G)'
    BY <1>4, <1>5, <1>15, <1>21, <1>22, <1>24, NeedStep
  <1>26. QED
    BY <1>12, <1>25, NeedAfter

\* A step that changes but the frame, and the expressions that are done.
LEMMA QuietNeed ==
  ASSUME TypeOK, NeedParts(Range(stack)), Running,
         UNCHANGED <<decl, flags, calls, early, roots>>,
         NEW G, G = Range(stack'), Range(Outer) \subseteq G,
         \A f \in G : f \in Range(Outer) \/ FrameNeeds(f)',
         Top.todo = << >>, Top.stage # "compile",
         Unreached(Top) => ~Starts(Top) \/ ~Initialized(Top.var),
         \A v \in Vars : <<v, 1>> \in done' =>
            Expressed(v) \/ Names(decl, v) \subseteq roots
  PROVE  NeedParts(Range(stack))'
  <1>1. PICK t : t = Top
    OBVIOUS
  <1>2. PICK O : O = Range(Outer)
    OBVIOUS
  <1>3. PICK F : F = Range(stack)
    OBVIOUS
  <1>4. /\ F = O \cup {t} /\ F \subseteq Frame
    BY <1>1, <1>2, <1>3, TopNeeds
  <1>5. Grows
    BY DEF flags, Grows, TypeOK
  <1>6. Range(t.todo) = {} /\ t.stage # "compile"
        /\ (Unreached(t) => ~Starts(t) \/ ~Initialized(t.var)) /\ O \subseteq G
    BY <1>1, <1>2 DEF Range
  <1>7. Unreached(t) => ~HasEffect(t.var)
    BY <1>6 DEF HasEffect, Starts
  <1>8. /\ \A w \in Vars : Pending(w, F) \/ Waiting(w, F) => Pending(w, G) \/ Waiting(w, G)
        /\ \A w \in Vars : Starting(w, F) /\ Initialized(w) => Starting(w, G)
    <2>1. \A w : Pending(w, F) => Pending(w, G)
      BY <1>4, <1>6, <1>7 DEF Pending
    <2>2. \A w : Waiting(w, F) => Waiting(w, G)
      BY <1>4, <1>6 DEF Waiting
    <2>3. \A w : Starting(w, F) /\ Initialized(w) => Starting(w, G)
      BY <1>4, <1>6 DEF Starting, Starts
    <2>4. QED
      BY <2>1, <2>2, <2>3
  <1>9. UNCHANGED <<inuse, compiled>>
    BY DEF flags
  <1>10. \A x \in Vars : calls'[x] > 0 \/ <<x, 1>> \in done' =>
              \/ Expressed(x)
              \/ \A w \in Names(decl, x) : inuse'[w] \/ Pending(w, G) \/ Waiting(w, G)
    <2>1. \A w \in roots : inuse'[w] \/ Pending(w, G) \/ Waiting(w, G)
      BY <1>3, <1>8, <1>9 DEF NeedParts, RootsMet, Met, TypeOK
    <2>2. QED
      BY <2>1 DEF Expressed
  <1>11. /\ \A g \in G : g \in F \/ FrameNeeds(g)'
         /\ \A r \in roots' : r \in roots \/ inuse'[r] \/ Pending(r, G) \/ Waiting(r, G)
         /\ \A x \in Vars : inuse'[x] => inuse[x] \/ x \in Needed(roots)'
         /\ \A x \in Vars : calls'[x] > 0 =>
              calls[x] > 0 \/ (x \in Needed(roots)' /\ Initialized(x))
         /\ \A x \in Vars : inuse'[x] \/ compiled'[x] => Touched(x) \/ Known(x)'
         /\ \A x \in Vars : Initialized(x) /\ (inuse'[x] \/ compiled'[x]) =>
              Touched(x) \/ calls'[x] > 0 \/ TypedFirst(x)' \/ Starting(x, G)
    BY <1>2, <1>4, <1>9 DEF Touched
  <1>12. NeedParts(G)'
    BY <1>3, <1>4, <1>5, <1>8, <1>10, <1>11, NeedStep
  <1>13. QED
    BY <1>12, NeedAfter

LEMMA QuietSteps ==
  ASSUME TypeOK, NoLists, NeedParts(Range(stack)),
         \/ DefineCount \/ DefineCompiled \/ AttrKeyword \/ AttrExpressed
         \/ DefineReturn \/ DefineList \/ AttrReturn
  PROVE  NeedParts(Range(stack))'
  <1>1. /\ Running /\ UNCHANGED <<decl, flags, calls, early, roots>>
        /\ Top.stage # "compile" /\ (Top.busy => Top.todo = << >>)
    BY DEF DefineCount, DefineCompiled, AttrKeyword, AttrExpressed, DefineReturn, DefineList,
           AttrReturn, AtSet, AtEnd, AtAttr
  <1>2. PICK t : t = Top
    OBVIOUS
  <1>3. /\ t \in Frame /\ t.var \in Vars /\ t.child \in Nat /\ t.set \in Nat
        /\ FrameNeeds(t) /\ t.busy \in BOOLEAN /\ Range(Outer) \subseteq Range(stack)
    BY <1>1, <1>2, TopNeeds
  <1>4. t.todo = << >> /\ Range(t.todo) = {} /\ t.stage # "compile"
    <2>1. t.todo = << >>
      BY <1>1, <1>2, <1>3 DEF FrameNeeds
    <2>2. QED
      BY <1>1, <1>2, <2>1 DEF Range
  <1>5. Grows
    BY <1>1 DEF flags, Grows, TypeOK
  <1>6. FrameNeeds(t)'
    BY <1>3, <1>5, FrameStays
  <1>7. Len(decl[t.var].sets) \in {0, 1} /\ (Initialized(t.var) <=> Len(decl[t.var].sets) = 1)
    BY <1>3, OneSet
  <1>8. ASSUME NEW f \in Frame, stack' = Append(Outer, f), FrameNeeds(f)',
               Unreached(t) => ~Starts(t) \/ ~Initialized(t.var),
               \A v \in Vars : <<v, 1>> \in done' =>
                  Expressed(v) \/ Names(decl, v) \subseteq roots
        PROVE  NeedParts(Range(stack))'
    <2>1. PICK G : G = Range(stack')
      OBVIOUS
    <2>2. G = Range(Outer) \cup {f}
      BY <1>1, <1>8, <2>1, ContinueSet DEF Running
    <2>3. Range(Outer) \subseteq G /\ \A g \in G : g \in Range(Outer) \/ FrameNeeds(g)'
      BY <1>8, <2>2
    <2>4. QED
      BY <1>1, <1>2, <1>4, <1>8, <2>1, <2>3, QuietNeed
  <1>9. ASSUME stack' = Outer,
               Unreached(t) => ~Starts(t) \/ ~Initialized(t.var), done' = done
        PROVE  NeedParts(Range(stack))'
    <2>1. PICK G : G = Range(stack')
      OBVIOUS
    <2>2. Range(Outer) \subseteq G /\ \A g \in G : g \in Range(Outer) \/ FrameNeeds(g)'
      BY <1>9, <2>1
    <2>3. \A v \in Vars : <<v, 1>> \in done' => Expressed(v)
      BY <1>9 DEF Expressed
    <2>4. QED
      BY <1>1, <1>2, <1>4, <1>9, <2>1, <2>2, <2>3, QuietNeed
  <1>10. CASE DefineCount
    <2>1. /\ t.stage = "define" /\ ~t.busy /\ t.child \in 1 .. Len(decl[t.var].sets)
          /\ ~CompileNow(t, decl[t.var].sets[t.child]) /\ done' = done
      BY <1>2, <1>10 DEF DefineCount, AtSet, SetKind
    <2>2. t.child = 1 /\ decl[t.var].sets[1] # "scope"
      BY <1>3, <2>1, OneSet
    <2>3. t.set = 0 /\ t.side /\ decl[t.var].sets[1] # "effect"
      BY <1>3, <2>1, <2>2 DEF CompileNow, FrameNeeds
    <2>4. PICK f : f = [t EXCEPT !.child = 2, !.set = 1]
      OBVIOUS
    <2>5. /\ f \in Frame /\ f.var = t.var /\ f.stage = t.stage /\ f.side = t.side
          /\ f.busy = t.busy /\ f.set = 1 /\ f.todo = t.todo /\ f.child = 2
      BY <1>3, <2>4 DEF Frame
    <2>6. stack' = Append(Outer, f)
      <3>1. SetKind # "scope" /\ Continue([t EXCEPT !.child = t.child + 1,
                      !.set = IF SetKind = "scope" THEN t.set + 2 ELSE t.set + 1])
        BY <1>2, <1>10, <2>2 DEF DefineCount, SetKind
      <3>2. (IF SetKind = "scope" THEN t.set + 2 ELSE t.set + 1) = 1 /\ t.child + 1 = 2
        BY <2>2, <2>3, <3>1
      <3>3. QED
        BY <2>4, <3>1, <3>2 DEF Continue
    <2>7. FrameNeeds(f)'
      BY <1>4, <1>6, <2>1, <2>5 DEF FrameNeeds
    <2>8. ~Starts(t) /\ \A v \in Vars : <<v, 1>> \in done' => Expressed(v)
      BY <2>1, <2>3 DEF Starts, HasEffect, Expressed
    <2>9. QED
      BY <1>8, <2>5, <2>6, <2>7, <2>8
  <1>11. CASE DefineCompiled
    <2>1. t.stage = "define" /\ t.busy /\ done' = done \cup {<<t.var, t.child>>}
      BY <1>2, <1>11 DEF DefineCompiled
    <2>2. t.child = 1 /\ t.set = 0 /\ calls[t.var] > 0
      BY <1>3, <2>1 DEF FrameNeeds
    <2>3. PICK f : f = [t EXCEPT !.busy = FALSE, !.child = 2, !.set = 1]
      OBVIOUS
    <2>4. /\ f \in Frame /\ f.var = t.var /\ f.stage = t.stage /\ f.side = t.side
          /\ f.busy = FALSE /\ f.set = 1 /\ f.todo = t.todo /\ f.child = 2
      BY <1>3, <2>3 DEF Frame
    <2>5. stack' = Append(Outer, f)
      <3>1. Continue([t EXCEPT !.busy = FALSE, !.child = t.child + 1, !.set = t.set + 1])
        BY <1>2, <1>11 DEF DefineCompiled
      <3>2. t.child + 1 = 2 /\ t.set + 1 = 1
        BY <2>2
      <3>3. QED
        BY <2>3, <3>1, <3>2 DEF Continue
    <2>6. FrameNeeds(f)'
      BY <1>4, <1>6, <2>1, <2>4 DEF FrameNeeds
    <2>7. ~Unreached(t) /\ \A v \in Vars : <<v, 1>> \in done' => Expressed(v)
      BY <2>1, <2>2 DEF Unreached, Expressed
    <2>8. QED
      BY <1>8, <2>4, <2>5, <2>6, <2>7
  <1>12. CASE AttrKeyword
    <2>1. AtAttr /\ t.stage = "attrs" /\ ~t.busy /\ done' = done
      BY <1>2, <1>12 DEF AttrKeyword, AtAttr
    <2>2. PICK f : f = NextAttr
      OBVIOUS
    <2>3. f \in Frame /\ f.stage = "attrs" /\ f.busy = FALSE /\ f.todo = << >>
      BY <1>2, <1>4, <2>1, <2>2, NextAttrType
    <2>4. stack' = Append(Outer, f)
      BY <1>12, <2>2 DEF AttrKeyword, Continue
    <2>5. FrameNeeds(f)'
      BY <1>4, <2>3 DEF FrameNeeds
    <2>6. ~Unreached(t) /\ \A v \in Vars : <<v, 1>> \in done' => Expressed(v)
      BY <2>1 DEF Unreached, Expressed
    <2>7. QED
      BY <1>8, <2>3, <2>4, <2>5, <2>6
  <1>13. CASE AttrExpressed
    <2>1. t.stage = "attrs" /\ t.busy /\ done' = done \cup {<<t.var, t.child>>}
      BY <1>2, <1>13 DEF AttrExpressed
    <2>2. /\ t.child \in 1 .. Len(decl[t.var].sets)
          /\ Range(decl[t.var].refs[t.child]) \subseteq roots
      BY <1>3, <2>1 DEF FrameNeeds
    <2>3. t.child = 1 /\ Initialized(t.var)
      BY <1>3, <2>2, OneSet
    <2>4. Names(decl, t.var) \subseteq roots
      BY <1>3, <2>2, <2>3, NamesAreVars
    <2>5. PICK f : f = [t EXCEPT !.busy = FALSE, !.child = 2]
      OBVIOUS
    <2>6. f \in Frame /\ f.stage = "attrs" /\ f.busy = FALSE /\ f.todo = << >>
      BY <1>3, <1>4, <2>1, <2>5 DEF Frame
    <2>7. stack' = Append(Outer, f)
      <3>1. Continue([t EXCEPT !.busy = FALSE, !.child = t.child + 1])
        BY <1>2, <1>13 DEF AttrExpressed
      <3>2. t.child + 1 = 2
        BY <2>3
      <3>3. QED
        BY <2>5, <3>1, <3>2 DEF Continue
    <2>8. FrameNeeds(f)'
      BY <1>4, <2>6 DEF FrameNeeds
    <2>9. ~Unreached(t) /\ \A v \in Vars : <<v, 1>> \in done' =>
                           Expressed(v) \/ Names(decl, v) \subseteq roots
      BY <2>1, <2>4 DEF Unreached, Expressed
    <2>10. QED
      BY <1>8, <2>6, <2>7, <2>8, <2>9
  <1>14. CASE DefineReturn
    <2>1. stack' = Outer /\ done' = done /\ t.stage = "define" /\ ~t.busy
          /\ t.child > Len(decl[t.var].sets)
      BY <1>2, <1>14 DEF DefineReturn, AtEnd
    <2>2. Initialized(t.var) => t.child # 0 /\ t.child # 1
      <3>1. PICK k, n : k \in Nat /\ k = t.child /\ n = Len(decl[t.var].sets) /\ k > n
        BY <1>3, <2>1
      <3>2. n = 1 => k # 0 /\ k # 1
        BY <3>1
      <3>3. QED
        BY <1>7, <3>1, <3>2, Zenon
    <2>3. Unreached(t) => ~Initialized(t.var)
      BY <1>3, <2>1, <2>2 DEF Unreached, FrameNeeds
    <2>4. QED
      BY <1>9, <2>1, <2>3
  <1>15. CASE DefineList
    <2>1. t.stage = "define" /\ t.set > 1
      BY <1>2, <1>15 DEF DefineList, AtEnd, IsList
    <2>2. QED
      BY <1>3, <2>1 DEF FrameNeeds
  <1>16. CASE AttrReturn
    <2>1. stack' = Outer /\ done' = done /\ t.stage = "attrs"
      BY <1>2, <1>16 DEF AttrReturn
    <2>2. QED
      BY <1>9, <2>1 DEF Unreached
  <1>17. QED
    BY <1>10, <1>11, <1>12, <1>13, <1>14, <1>15, <1>16

LEMMA AttrExpressionNeed ==
  ASSUME TypeOK, NoLists, NeedParts(Range(stack)), AttrExpression
  PROVE  NeedParts(Range(stack))'
  <1>1. /\ Running /\ Top.stage = "attrs" /\ ~Top.busy
        /\ Top.child \in 1 .. Len(decl[Top.var].sets)
    BY DEF AttrExpression, AtAttr
  <1>2. PICK t : t = Top
    OBVIOUS
  <1>3. PICK O : O = Range(Outer)
    OBVIOUS
  <1>4. PICK F : F = Range(stack)
    OBVIOUS
  <1>5. /\ t \in Frame /\ t.var \in Vars /\ FrameNeeds(t) /\ F = O \cup {t}
        /\ F \subseteq Frame
    BY <1>1, <1>2, <1>3, <1>4, TopNeeds
  <1>6. /\ t.child = 1 /\ 1 \in 1 .. Len(decl[t.var].sets) /\ Initialized(t.var)
    BY <1>1, <1>2, <1>5, OneSet
  <1>7. PICK names \in ToName(t.var, 1) :
           stack' = Append(Outer, [t EXCEPT !.busy = TRUE, !.todo = names])
    BY <1>2, <1>6 DEF AttrExpression, Continue
  <1>8. /\ names \in Seq(Vars)
        /\ names = decl[t.var].refs[1] \/ (names = << >> /\ <<t.var, 1>> \in done)
        /\ Names(decl, t.var) = Range(decl[t.var].refs[1]) /\ Names(decl, t.var) \subseteq Vars
    BY <1>5, <1>6, <1>7, NamesType, NamesAreVars
  <1>9. PICK f : f = [t EXCEPT !.busy = TRUE, !.todo = names]
    OBVIOUS
  <1>10. /\ f \in Frame /\ f.var = t.var /\ f.stage = "attrs"
         /\ f.busy = TRUE /\ f.todo = names /\ f.child = 1
    BY <1>1, <1>2, <1>5, <1>6, <1>8, <1>9 DEF Frame
  <1>11. PICK G : G = O \cup {f}
    OBVIOUS
  <1>12. G = Range(stack')
    BY <1>1, <1>3, <1>7, <1>9, <1>10, <1>11, ContinueSet DEF Running
  <1>13. /\ UNCHANGED <<decl, defined, compiled, inuse, attributes, calls, early, done>>
         /\ roots' = roots \cup Names(decl, t.var)
    BY <1>2, <1>6, <1>8 DEF AttrExpression, AttrNames, flags
  <1>14. Grows
    BY <1>8, <1>13 DEF Grows, TypeOK
  <1>15. Range(t.todo) = {}
    <2>1. t.todo = << >>
      BY <1>1, <1>2, <1>5 DEF FrameNeeds
    <2>2. QED
      BY <2>1 DEF Range
  <1>16. FrameNeeds(f)'
    <2>1. Range(<< >>) = {}
      BY DEF Range
    <2>2. Range(f.todo) \subseteq Needed(roots)'
      BY <1>8, <1>10, <1>13, <1>14, <2>1, NeededGrows
    <2>3. f.child \in 1 .. Len(decl'[f.var].sets) /\ Range(decl'[f.var].refs[f.child]) \subseteq roots'
      BY <1>6, <1>8, <1>10, <1>13
    <2>4. QED
      BY <1>10, <2>2, <2>3 DEF FrameNeeds
  <1>17. /\ \A w \in Vars : Pending(w, F) \/ Waiting(w, F) => Pending(w, G) \/ Waiting(w, G)
         /\ \A w \in Vars : Starting(w, F) => Starting(w, G)
         /\ \A w \in Range(names) : Waiting(w, G)
    BY <1>1, <1>2, <1>5, <1>10, <1>11, <1>15 DEF Pending, Waiting, Starting, Starts, Unreached
  <1>18. \A r \in roots' : r \in roots \/ inuse'[r] \/ Pending(r, G) \/ Waiting(r, G)
    <2> TAKE r \in roots'
    <2>1. CASE r \in Names(decl, t.var) /\ names = decl[t.var].refs[1]
      BY <1>8, <1>17, <2>1
    <2>2. CASE r \in Names(decl, t.var) /\ <<t.var, 1>> \in done
      <3>1. Met(r, F)
        BY <1>4, <1>5, <2>2 DEF NeedParts, NamesMet, Expressed
      <3>2. QED
        BY <1>8, <1>13, <1>17, <2>2, <3>1 DEF Met
    <2>3. QED
      BY <1>8, <1>13, <2>1, <2>2
  <1>19. /\ \A g \in G : g \in F \/ FrameNeeds(g)'
         /\ \A x \in Vars : calls'[x] > 0 \/ <<x, 1>> \in done' =>
              \/ Expressed(x)
              \/ \A w \in Names(decl, x) : inuse'[w] \/ Pending(w, G) \/ Waiting(w, G)
         /\ \A x \in Vars : inuse'[x] => inuse[x] \/ x \in Needed(roots)'
         /\ \A x \in Vars : calls'[x] > 0 =>
              calls[x] > 0 \/ (x \in Needed(roots)' /\ Initialized(x))
         /\ \A x \in Vars : inuse'[x] \/ compiled'[x] => Touched(x) \/ Known(x)'
         /\ \A x \in Vars : Initialized(x) /\ (inuse'[x] \/ compiled'[x]) =>
              Touched(x) \/ calls'[x] > 0 \/ TypedFirst(x)' \/ Starting(x, G)
    BY <1>5, <1>11, <1>13, <1>16 DEF Touched, Expressed
  <1>20. NeedParts(G)'
    BY <1>4, <1>5, <1>14, <1>17, <1>18, <1>19, NeedStep
  <1>21. QED
    BY <1>12, <1>20, NeedAfter

LEMMA CompileReturnNeed ==
  ASSUME TypeOK, NeedParts(Range(stack)), CompileReturn
  PROVE  NeedParts(Range(stack))'
  <1>1. Running /\ Top.stage = "compile" /\ Top.todo = << >>
    BY DEF CompileReturn
  <1>2. PICK t : t = Top
    OBVIOUS
  <1>3. PICK G : G = Range(Outer)
    OBVIOUS
  <1>4. PICK F : F = Range(stack)
    OBVIOUS
  <1>5. /\ t \in Frame /\ t.var \in Vars /\ FrameNeeds(t) /\ F = G \cup {t}
        /\ F \subseteq Frame
    BY <1>1, <1>2, <1>3, <1>4, TopNeeds
  <1>6. /\ calls[t.var] > 0 /\ t.var \in Needed(roots) /\ Known(t.var)
    BY <1>1, <1>2, <1>5 DEF FrameNeeds
  <1>7. /\ UNCHANGED <<decl, defined, attributes, calls, early, roots>>
        /\ stack' = Outer /\ done' = done \cup {<<t.var, 1>>}
        /\ compiled' = [compiled EXCEPT ![t.var] = TRUE]
        /\ inuse' = [inuse EXCEPT ![t.var] = TRUE]
    BY <1>2 DEF CompileReturn, SetCompiled
  <1>8. /\ inuse'[t.var]
        /\ \A x \in Vars : x # t.var => compiled'[x] = compiled[x] /\ inuse'[x] = inuse[x]
    BY <1>5, <1>7 DEF TypeOK
  <1>9. Grows
    BY <1>7, <1>8 DEF Grows, TypeOK
  <1>10. t.var \in Needed(roots)' /\ Known(t.var)'
    BY <1>6, <1>7, <1>9, NeededGrows DEF Known
  <1>11. Range(t.todo) = {} /\ ~Unreached(t)
    BY <1>1, <1>2 DEF Range, Unreached
  <1>12. /\ \A w \in Vars : Pending(w, F) \/ Waiting(w, F) =>
                           w = t.var \/ Pending(w, G) \/ Waiting(w, G)
         /\ \A w \in Vars : Starting(w, F) => Starting(w, G)
    BY <1>5, <1>11 DEF Pending, Waiting, Starting, Starts
  <1>13. /\ \A w \in Vars : Pending(w, F) \/ Waiting(w, F) =>
                           inuse'[w] \/ Pending(w, G) \/ Waiting(w, G)
         /\ \A x \in Vars : Initialized(x) /\ Starting(x, F) => Starting(x, G) \/ calls'[x] > 0
    BY <1>8, <1>12
  <1>14. /\ \A g \in G : g \in F \/ FrameNeeds(g)'
         /\ \A r \in roots' : r \in roots \/ inuse'[r] \/ Pending(r, G) \/ Waiting(r, G)
         /\ \A x \in Vars : calls'[x] > 0 \/ <<x, 1>> \in done' =>
              \/ Expressed(x)
              \/ \A w \in Names(decl, x) : inuse'[w] \/ Pending(w, G) \/ Waiting(w, G)
         /\ \A x \in Vars : inuse'[x] => inuse[x] \/ x \in Needed(roots)'
         /\ \A x \in Vars : calls'[x] > 0 =>
              calls[x] > 0 \/ (x \in Needed(roots)' /\ Initialized(x))
         /\ \A x \in Vars : inuse'[x] \/ compiled'[x] => Touched(x) \/ Known(x)'
         /\ \A x \in Vars : Initialized(x) /\ (inuse'[x] \/ compiled'[x]) =>
              Touched(x) \/ calls'[x] > 0 \/ TypedFirst(x)' \/ Starting(x, G)
    BY <1>5, <1>6, <1>7, <1>8, <1>10 DEF Touched, Expressed
  <1>15. NeedParts(G)'
    BY <1>4, <1>5, <1>9, <1>13, <1>14, NeedStep
  <1>16. QED
    BY <1>3, <1>7, <1>15, NeedAfter

LEMMA InitNeed == Init => NeedInv
  <1> SUFFICES ASSUME Init PROVE NeedParts(Range(stack))
    BY DEF NeedInv
  <1>1. Range(stack) = {}
    BY DEF Init, Range
  <1>2. \A v \in Vars : ~Expressed(v) /\ ~Touched(v) /\ ~(calls[v] > 0) /\ ~inuse[v]
    BY DEF Init, Expressed, Touched
  <1>3. roots = {}
    BY DEF Init
  <1>4. QED
    BY <1>1, <1>2, <1>3 DEF NeedParts, StackNeeds, CallsNeeded, InUseNeeded, TouchedKnown,
       RootsMet, NamesMet, UsedCompiled

LEMMA NextNeed == TypeOK /\ NeedInv /\ [Next]_vars => NeedInv'
  <1> SUFFICES ASSUME TypeOK, NeedInv, [Next]_vars, NoLists', exc' = "none"
               PROVE  NeedParts(Range(stack))'
    BY DEF NeedInv
  <1>0. << >> \in Seq(Frame) /\ stack \in Seq(Frame) /\ Range(<< >>) = {}
    BY DEF TypeOK, Range
  <1>1. decl' = decl
    BY DEF Next, Declare, Use, Word, Resolve, Enter, EnterAttrs, Return, DefineType,
       DefineCompile, DefineCount, DefineCompiled, DefineReturn, DefineList, DefineRefused,
       CompileReturn, Attribute, AttrKeyword, AttrName, AttrExpression, AttrExpressed,
       AttrReturn, vars
  <1>2. NoLists
    BY <1>1 DEF NoLists
  <1>3. ASSUME exc = "none" PROVE NeedParts(Range(stack))
    BY <1>2, <1>3 DEF NeedInv
  <1>4. ASSUME NEW v \in Vars, Declare(v) PROVE NeedParts(Range(stack))'
    <2>1. /\ stack = << >> /\ exc = "none" /\ Enter(v, TRUE, << >>)
          /\ roots' = IF ~Known(v) /\ Initialized(v) /\ decl[v].sets[1] = "effect"
                      THEN roots \cup {v} ELSE roots
      BY <1>4 DEF Declare, Idle
    <2>2. roots' = IF ~Known(v) /\ HasEffect(v) THEN roots \cup {v} ELSE roots
      BY <2>1 DEF HasEffect
    <2>3. roots \subseteq roots' /\ roots' \subseteq Vars
      BY <2>2 DEF TypeOK
    <2>4. Range(stack) = Range(<< >>)
      BY <2>1
    <2>5. QED
      BY <1>0, <1>3, <2>1, <2>2, <2>3, <2>4, EnterNeed
  <1>5. ASSUME NEW v \in Vars, Use(v) PROVE NeedParts(Range(stack))'
    <2>1. /\ stack = << >> /\ exc = "none" /\ Enter(v, FALSE, << >>)
          /\ roots' = roots \cup {v}
      BY <1>5 DEF Use, Idle
    <2>2. roots \subseteq roots' /\ roots' \subseteq Vars
      BY <2>1 DEF TypeOK
    <2>3. QED
      BY <1>0, <1>3, <2>1, <2>2, EnterNeed
  <1>6. ASSUME NEW v \in Vars, Word(v) PROVE NeedParts(Range(stack))'
    <2>1. exc = "none" /\ EnterAttrs(v, stack)
      BY <1>6 DEF Word, Preparing
    <2>2. NeedParts(Range(stack))
      BY <1>3, <2>1
    <2>3. \A f \in Range(stack) : FrameNeeds(f)
      BY <2>2 DEF NeedParts, StackNeeds
    <2>4. QED
      BY <1>0, <2>1, <2>2, <2>3, AttrsNeed
  <1>7. CASE Resolve
    <2>1. exc = "none"
      BY <1>7 DEF Resolve, Running
    <2>2. QED
      BY <1>3, <1>7, <2>1, ResolveNeed
  <1>8. ASSUME Attribute PROVE NeedParts(Range(stack))'
    <2>1. exc = "none"
      BY <1>8 DEF Attribute, AttrKeyword, AttrName, AttrExpression, AttrExpressed, AttrReturn,
                  AtAttr, Running
    <2>2. QED
      BY <1>2, <1>3, <1>8, <2>1, AttrNameNeed, AttrExpressionNeed, QuietSteps DEF Attribute
  <1>9. ASSUME Return PROVE NeedParts(Range(stack))'
    <2>1. exc = "none"
      BY <1>9 DEF Return, DefineType, DefineCompile, DefineCount, DefineCompiled, DefineReturn,
                  DefineList, DefineRefused, CompileReturn, Running
    <2>2. ~DefineRefused
      BY DEF DefineRefused
    <2>3. QED
      BY <1>2, <1>3, <1>9, <2>1, <2>2, DefineTypeNeed, DefineCompileNeed, CompileReturnNeed,
         QuietSteps DEF Return
  <1>10. CASE UNCHANGED vars
    <2>1. exc = "none" /\ UNCHANGED <<decl, defined, compiled, inuse, attributes, calls, early,
                                      roots, done, stack>>
      BY <1>10 DEF vars, flags
    <2>2. NeedParts(Range(stack))
      BY <1>3, <2>1
    <2>3. QED
      BY <2>1, <2>2 DEF NeedParts, StackNeeds, FrameNeeds, CallsNeeded, InUseNeeded,
         TouchedKnown, RootsMet, NamesMet, UsedCompiled, Met, Pending, Waiting, Starting, Starts,
         Unreached, Expressed, Touched, Compiled, TypedFirst, Known, Names, Initialized,
         HasEffect, Needed
  <1>11. QED
    BY <1>4, <1>5, <1>6, <1>7, <1>8, <1>9, <1>10 DEF Next

LEMMA NeededWhenIdle ==
  ASSUME TypeOK, NeedInv
  PROVE  CompiledIsNeeded
  <1> SUFFICES ASSUME Idle, NoLists
               PROVE  /\ {v \in Vars : inuse[v]} = Needed(roots)
                      /\ \A v \in Vars : calls[v] > 0 => v \in Needed(roots) /\ Initialized(v)
                      /\ \A v \in Needed(roots) :
                           Initialized(v) /\ calls[v] = 0 => TypedFirst(v)
    BY DEF CompiledIsNeeded
  <1>1. NeedParts(Range(stack)) /\ Range(stack) = {}
    BY DEF NeedInv, Idle, Range
  <1>2. /\ \A w : Met(w, {}) => inuse[w]
        /\ \A w : ~Starting(w, {})
    BY DEF Met, Pending, Waiting, Starting
  <1>3. /\ \A r \in roots : inuse[r]
        /\ \A x \in Vars : calls[x] > 0 => \A w \in Names(decl, x) : inuse[w]
        /\ \A x \in Vars : Initialized(x) /\ inuse[x] => calls[x] > 0 \/ TypedFirst(x)
    BY <1>1, <1>2 DEF NeedParts, RootsMet, NamesMet, UsedCompiled, Expressed, Touched, Compiled
  <1>4. /\ \A v \in Vars : calls[v] > 0 => v \in Needed(roots) /\ Initialized(v)
        /\ \A v \in Vars : inuse[v] => v \in Needed(roots)
    BY <1>1 DEF NeedParts, CallsNeeded, InUseNeeded
  <1> DEFINE C == {v \in Vars : inuse[v]}
  <1>5. \A v \in C : calls[v] > 0 => Names(decl, v) \subseteq C
    BY <1>3, NamesAreVars
  <1>6. Needed(roots) \subseteq C
    BY <1>3, <1>5 DEF Needed, TypeOK
  <1>7. Needed(roots) \subseteq Vars
    BY DEF Needed
  <1>8. \A v \in Vars : ~(calls[v] = 0 /\ calls[v] > 0)
    BY DEF TypeOK
  <1>9. QED
    BY <1>3, <1>4, <1>6, <1>7, <1>8

\* Between two directives the variables that are INUSE are those the program
\* asked for and those they need; what was compiled is among them, and what of
\* them was not compiled had its type first: whatever the declarations and the
\* attribute words, circular ones included, and however the references nest
\* (compiler_variable.cpp:107-222).
THEOREM VariablesCompiledAsNeeded == Spec => []CompiledIsNeeded
  <1>1. TypeOK /\ NeedInv => CompiledIsNeeded
    BY NeededWhenIdle
  <1>2. QED
    BY <1>1, InitTypeOK, NextTypeOK, InitNeed, NextNeed, PTL DEF Spec
=============================================================================
