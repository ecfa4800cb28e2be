-------------------------- MODULE BinaryFileProofs --------------------------
(***************************************************************************)
(* Proofs about BinaryFile, for any declarations, constants and code.      *)
(***************************************************************************)
EXTENDS BinaryFile, Recursion, FiniteSetTheorems

(***************************************************************************)
(* The inductive invariant of the frame.  The slots of eight bytes and of  *)
(* whole variables go down from %rbp, each below the one before: the last  *)
(* offset is the lowest.  Those of one byte go down from 0 on their own,   *)
(* until they are all moved below that offset.                             *)
(***************************************************************************)
Fields == {"temps1", "temps8", "offset1", "offset8", "externs", "strings", "stringPrivate",
           "numberPrivate", "boolPrivate", "labels", "relocations", "text"}

Slot == [name : STRING, size : Nat \ {0}, offset : Int]
Slots == Seq(Slot)

FrameTyped ==
    /\ left \subseteq DOMAIN Declarations
    /\ DOMAIN file = Fields
    /\ file.temps1 \in Slots /\ file.temps8 \in Slots
    /\ file.offset1 \in Int /\ file.offset8 \in Int

Stacked8 ==
    /\ file.offset8 <= 0
    /\ \A i \in DOMAIN file.temps8 : /\ file.temps8[i].offset >= file.offset8
                                     /\ file.temps8[i].offset + file.temps8[i].size <= 0
    /\ \A i, j \in DOMAIN file.temps8 :
           i < j => file.temps8[j].offset + file.temps8[j].size <= file.temps8[i].offset

Numbered1 ==
    /\ file.offset1 = -Len(file.temps1)
    /\ \A i \in DOMAIN file.temps1 :
           /\ file.temps1[i].size = 1
           /\ phase = "variables" => file.temps1[i].offset = -i
           /\ phase # "variables" => file.temps1[i].offset = file.offset8 - i

FrameInv == FrameTyped /\ Stacked8 /\ Numbered1

(* What the proofs use of a sequence of slots.                             *)
LEMMA SlotsFacts ==
    ASSUME NEW s \in Slots
    PROVE  /\ Len(s) \in Nat /\ DOMAIN s = 1..Len(s)
           /\ \A i \in DOMAIN s : /\ s[i] \in Slot
                                /\ s[i].offset \in Int
                                /\ s[i].size \in Nat /\ s[i].size > 0
<1>1. Len(s) \in Nat /\ DOMAIN s = 1..Len(s) BY DEF Slots
<1>2. \A i \in DOMAIN s : s[i] \in Slot BY <1>1 DEF Slots
<1>3. \A e \in Slot : e.offset \in Int /\ e.size \in Nat /\ e.size > 0 BY DEF Slot
<1> QED BY <1>1, <1>2, <1>3

LEMMA EmptySlots == ASSUME NEW s, s = <<>> PROVE s \in Slots /\ 0 = -Len(s) /\ DOMAIN s = {}
<1>1. s \in Slots /\ DOMAIN s = {} BY DEF Slots
<1>2. Len(s) \in Nat /\ DOMAIN s = 1..Len(s) BY <1>1, SlotsFacts
<1>3. ASSUME NEW n \in Nat, 1..n = {} PROVE 0 = -n
  <2>1. ~(1 <= n) BY <1>3
  <2> QED BY <2>1
<1> QED BY ONLY <1>1, <1>2, <1>3, Zenon

LEMMA ElementOf == ASSUME NEW S, NEW s \in Seq(S), NEW i \in DOMAIN s PROVE s[i] \in S
  OBVIOUS

LEMMA SlotAppended ==
    ASSUME NEW s \in Slots, NEW e \in Slot
    PROVE  /\ Append(s, e) \in Slots
           /\ Len(Append(s, e)) = Len(s) + 1
           /\ DOMAIN Append(s, e) = DOMAIN s \cup {Len(s) + 1}
           /\ Append(s, e)[Len(s) + 1] = e
           /\ \A i \in DOMAIN s : Append(s, e)[i] = s[i]
  BY DEF Slots

(***************************************************************************)
(* The operations on the rest of the file leave the frame alone.           *)
(***************************************************************************)
SameFrame(f, g) ==
    /\ DOMAIN g = Fields
    /\ g.temps1 = f.temps1 /\ g.temps8 = f.temps8
    /\ g.offset1 = f.offset1 /\ g.offset8 = f.offset8

(* with_name and with_text append to the strings at most.                  *)
LEMMA NamesKeepFrame ==
    ASSUME NEW f, DOMAIN f = Fields, NEW name
    PROVE  SameFrame(f, WithName(f, name)) /\ SameFrame(f, WithText(f, name))
  BY DEF SameFrame, WithName, WithText, Fields

(* The tables of the extern and private variables.                         *)
LEMMA VariablesKeepFrame ==
    ASSUME NEW f, DOMAIN f = Fields, NEW d,
           d.where = "private" => d.type \in {"Boolean", "Integer", "Double", "String"}
    PROVE  /\ SameFrame(f, AddExternVariable(f, d))
           /\ d.where = "private" => SameFrame(f, AddPrivateVariable(f, d))
<1>1. SameFrame(f, AddExternVariable(f, d))
  BY NamesKeepFrame DEF SameFrame, AddExternVariable, Fields
<1>2. ASSUME d.where = "private" PROVE SameFrame(f, AddPrivateVariable(f, d))
  <2> DEFINE named == [f EXCEPT !.strings = Append(@, [kind |-> "name", of |-> d.name,
                                                      size |-> NameSize[d.name]])]
  <2>1. SameFrame(f, named) BY DEF SameFrame, Fields
  <2> HIDE DEF named
  <2>2. /\ SameFrame(f, [named EXCEPT !.boolPrivate = Append(@, d.name)])
        /\ SameFrame(f, [named EXCEPT !.numberPrivate = Append(@, d.name)])
        /\ \A e : SameFrame(f, [named EXCEPT !.stringPrivate = Append(@, e)])
    BY <2>1 DEF SameFrame, Fields
  <2>3. d.type \in {"Boolean", "Integer", "Double", "String"} BY <1>2
  <2>4. CASE d.type = "Boolean" BY <2>2, <2>4 DEF AddPrivateVariable, named
  <2>5. CASE d.type \in {"Integer", "Double"} BY <2>2, <2>5 DEF AddPrivateVariable, named
  <2>6. CASE d.type = "String" BY <2>2, <2>6 DEF AddPrivateVariable, named
  <2> QED BY <2>3, <2>4, <2>5, <2>6
<1> QED BY <1>1, <1>2

(* The constants.                                                          *)
LEMMA ConstantsKeepFrame ==
    ASSUME NEW f, DOMAIN f = Fields, NEW c
    PROVE  SameFrame(f, AddConstantNumber(f, c)) /\ SameFrame(f, AddConstantText(f, c))
<1>1. SameFrame(f, AddConstantNumber(f, c)) BY DEF SameFrame, AddConstantNumber, Fields
<1>2. SameFrame(f, AddConstantText(f, c))
  <2> DEFINE name  == ConstantNames[Cardinality(ConstantsOf(f)) + 1]
             texts == WithText(WithName(f, name), c)
  <2>1. SameFrame(f, texts) BY NamesKeepFrame DEF SameFrame
  <2>2. SameFrame(f, f) BY DEF SameFrame
  <2> HIDE DEF texts, name
  <2>3. \A e : SameFrame(f, [texts EXCEPT !.stringPrivate = Append(@, e)])
    BY <2>1 DEF SameFrame, Fields
  <2> QED BY <2>2, <2>3 DEF AddConstantText, texts, name
<1> QED BY <1>1, <1>2

(* The code.                                                               *)
LEMMA CodeKeepsFrame ==
    ASSUME NEW f, DOMAIN f = Fields, NEW size, NEW r, NEW opcode, NEW immediate, NEW label
    PROVE  /\ SameFrame(f, AddText(f, size))
           /\ SameFrame(f, AddRelocation(f, r.name, r.type, opcode, immediate))
           /\ SameFrame(f, AddLabel(f, label))
           /\ SameFrame(f, Align8(f))
<1>1. \A n : SameFrame(f, AddText(f, n)) BY DEF SameFrame, AddText, Fields
<1>2. SameFrame(f, Align8(f)) BY <1>1 DEF Align8
<1>3. SameFrame(f, AddLabel(f, label)) BY DEF SameFrame, AddLabel, Fields
<1>4. SameFrame(f, AddRelocation(f, r.name, r.type, opcode, immediate))
  <2> DEFINE g == AddText(f, opcode + 4 + immediate)
  <2>1. SameFrame(f, g) BY <1>1
  <2> HIDE DEF g
  <2>2. \A e : SameFrame(f, [g EXCEPT !.relocations = Append(@, e)])
    BY <2>1 DEF SameFrame, Fields
  <2> QED BY <2>2 DEF AddRelocation, g
<1> QED BY <1>1, <1>2, <1>3, <1>4

(* A step that does neither declare a temporary nor move one.              *)
LEMMA FrameKept ==
    ASSUME FrameInv, SameFrame(file, file'), left' \subseteq left,
           (phase = "variables") <=> (phase' = "variables")
    PROVE  FrameInv'
  BY DEF FrameInv, FrameTyped, Stacked8, Numbered1, SameFrame

(***************************************************************************)
(* The two steps about temporaries.                                        *)
(***************************************************************************)
LEMMA TemporaryAdded ==
    ASSUME FrameInv, phase = "variables", phase' = phase, left' \subseteq left,
           NEW d, d.name \in STRING,
           file' = AddTemporaryVariable(file, d)
    PROVE  FrameInv'
<1> USE DEF FrameInv, FrameTyped
<1>1. VariableSize \in Nat \ {0} BY SizesAssumption
<1>2. CASE file' = AddTemporaryVariable1Byte(file, d.name)
  <2> DEFINE e == [name |-> d.name, size |-> 1, offset |-> file.offset1 - 1]
  <2>1. /\ DOMAIN file' = Fields
        /\ file'.temps8 = file.temps8 /\ file'.offset8 = file.offset8
        /\ file'.offset1 = file.offset1 - 1
        /\ file'.temps1 = Append(file.temps1, e)
    BY <1>2 DEF AddTemporaryVariable1Byte, Fields
  <2>2. e \in Slot BY DEF Slot
  <2>3. e.size = 1 /\ e.offset = file.offset1 - 1 OBVIOUS
  <2> HIDE DEF e
  <2>4. FrameTyped' BY <2>1, <2>2, SlotAppended
  <2>5. Stacked8' BY <2>1 DEF Stacked8
  <2>6. Numbered1'
    <3>1. /\ Len(file.temps1) \in Nat /\ DOMAIN file.temps1 = 1..Len(file.temps1)
          /\ Len(file'.temps1) = Len(file.temps1) + 1
          /\ DOMAIN file'.temps1 = DOMAIN file.temps1 \cup {Len(file.temps1) + 1}
          /\ file'.temps1[Len(file.temps1) + 1] = e
          /\ \A i \in DOMAIN file.temps1 : file'.temps1[i] = file.temps1[i]
      <4>1. file.temps1 \in Slots OBVIOUS
      <4>2. Len(file.temps1) \in Nat /\ DOMAIN file.temps1 = 1..Len(file.temps1)
        BY <4>1, SlotsFacts
      <4> HIDE DEF FrameInv, FrameTyped
      <4>3. /\ Len(Append(file.temps1, e)) = Len(file.temps1) + 1
            /\ DOMAIN Append(file.temps1, e) = DOMAIN file.temps1 \cup {Len(file.temps1) + 1}
            /\ Append(file.temps1, e)[Len(file.temps1) + 1] = e
            /\ \A i \in DOMAIN file.temps1 : Append(file.temps1, e)[i] = file.temps1[i]
        BY <4>1, <2>2, SlotAppended
      <4>4. file'.temps1 = Append(file.temps1, e) BY <2>1
      <4> QED BY ONLY <4>2, <4>3, <4>4, Zenon
    <3>2. e.offset = -(Len(file.temps1) + 1) BY <2>3, <3>1 DEF Numbered1
    <3>3. file'.offset1 = -Len(file'.temps1) BY <2>1, <3>1 DEF Numbered1
    <3>4. \A i \in DOMAIN file'.temps1 : file'.temps1[i].size = 1 /\ file'.temps1[i].offset = -i
      BY <2>3, <3>1, <3>2 DEF Numbered1
    <3> QED BY <3>3, <3>4 DEF Numbered1
  <2> QED BY <2>4, <2>5, <2>6
<1>3. ASSUME NEW size \in Nat \ {0}, file' = AddTemporaryVariable8Bytes(file, d.name, size)
      PROVE  FrameInv'
  <2> DEFINE e == [name |-> d.name, size |-> size, offset |-> file.offset8 - size]
             n == Len(file.temps8) + 1
  <2>1. /\ DOMAIN file' = Fields
        /\ file'.temps1 = file.temps1 /\ file'.offset1 = file.offset1
        /\ file'.offset8 = file.offset8 - size
        /\ file'.temps8 = Append(file.temps8, e)
    BY <1>3 DEF AddTemporaryVariable8Bytes, Fields
  <2>2. e \in Slot BY DEF Slot
  <2>3. e.size = size /\ e.offset = file.offset8 - size OBVIOUS
  <2> HIDE DEF e
  <2>4. FrameTyped' BY <2>1, <2>2, SlotAppended
  <2>5. Numbered1' BY <2>1 DEF Numbered1
  <2>6. Stacked8'
    <3>1. /\ file'.temps8[n] = e
          /\ \A i \in DOMAIN file.temps8 : /\ file'.temps8[i] = file.temps8[i]
                                           /\ i \in Int /\ i < n
          /\ DOMAIN file'.temps8 = DOMAIN file.temps8 \cup {n}
          /\ n \in Int
      <4>1. file.temps8 \in Slots OBVIOUS
      <4>2. Len(file.temps8) \in Nat /\ DOMAIN file.temps8 = 1..Len(file.temps8)
        BY <4>1, SlotsFacts
      <4>3. \A i \in DOMAIN file.temps8 : i \in Int /\ i < n BY <4>2
      <4>4. n \in Int BY <4>2
      <4> HIDE DEF FrameInv, FrameTyped
      <4>5. /\ file'.temps8[n] = e
            /\ \A i \in DOMAIN file.temps8 : file'.temps8[i] = file.temps8[i]
            /\ DOMAIN file'.temps8 = DOMAIN file.temps8 \cup {n}
        <5>1. /\ Append(file.temps8, e)[n] = e
              /\ \A i \in DOMAIN file.temps8 : Append(file.temps8, e)[i] = file.temps8[i]
              /\ DOMAIN Append(file.temps8, e) = DOMAIN file.temps8 \cup {n}
          BY <4>1, <2>2, SlotAppended
        <5>2. file'.temps8 = Append(file.temps8, e) BY <2>1
        <5> QED BY ONLY <5>1, <5>2, Zenon
      <4> QED BY <4>3, <4>4, <4>5
    <3>2. \A i \in DOMAIN file.temps8 : /\ file.temps8[i].offset \in Int
                                        /\ file.temps8[i].size \in Nat
                                        /\ file.temps8[i].offset >= file.offset8
                                        /\ file.temps8[i].offset + file.temps8[i].size <= 0
      BY SlotsFacts DEF Stacked8
    <3>3. \A i, j \in DOMAIN file.temps8 :
             i < j => file.temps8[j].offset + file.temps8[j].size <= file.temps8[i].offset
      BY DEF Stacked8
    <3>4. file.offset8 <= 0 /\ file'.offset8 <= 0 BY <2>1 DEF Stacked8
    <3> HIDE DEF n
    <3>5. \A i \in DOMAIN file'.temps8 : /\ file'.temps8[i].offset >= file'.offset8
                                         /\ file'.temps8[i].offset + file'.temps8[i].size <= 0
      BY <2>1, <2>3, <3>1, <3>2, <3>4
    <3>6. \A i, j \in DOMAIN file'.temps8 :
             i < j => file'.temps8[j].offset + file'.temps8[j].size <= file'.temps8[i].offset
      BY <2>3, <3>1, <3>2, <3>3
    <3> QED BY <3>4, <3>5, <3>6 DEF Stacked8
  <2> QED BY <2>4, <2>5, <2>6
<1> QED BY <1>1, <1>2, <1>3 DEF AddTemporaryVariable

LEMMA TemporariesAdjusted ==
    ASSUME FrameInv, AdjustTemporaries
    PROVE  FrameInv'
<1> USE DEF FrameInv, FrameTyped
<1>1. /\ DOMAIN file' = Fields
      /\ file'.temps8 = file.temps8 /\ file'.offset8 = file.offset8
      /\ file'.offset1 = file.offset1
      /\ file'.temps1 = [i \in DOMAIN file.temps1 |->
                            [file.temps1[i] EXCEPT !.offset = @ + file.offset8]]
  BY DEF AdjustTemporaries, AdjustTemporaryOffset1Byte, Fields
<1>2. phase = "variables" /\ phase' = "constants" /\ left' = left BY DEF AdjustTemporaries
<1>3. Len(file.temps1) \in Nat /\ DOMAIN file.temps1 = 1..Len(file.temps1) BY SlotsFacts
<1>4. \A i \in DOMAIN file.temps1 : file.temps1[i] \in Slot BY SlotsFacts
<1>5. \A i \in DOMAIN file.temps1 :
         /\ file'.temps1[i] \in Slot
         /\ file'.temps1[i].size = file.temps1[i].size
         /\ file'.temps1[i].offset = file.temps1[i].offset + file.offset8
  BY <1>1, <1>4 DEF Slot
<1>6. /\ file'.temps1 \in Slots /\ Len(file'.temps1) = Len(file.temps1)
      /\ DOMAIN file'.temps1 = DOMAIN file.temps1
  <2>1. file'.temps1 \in [1..Len(file.temps1) -> Slot] BY <1>1, <1>3, <1>5
  <2>2. file'.temps1 \in Seq(Slot) BY <1>3, <2>1, SeqDef
  <2>3. DOMAIN file'.temps1 = 1..Len(file.temps1) BY <2>1
  <2> QED BY <1>3, <2>2, <2>3, LenProperties DEF Slots
<1>7. FrameTyped' BY <1>1, <1>2, <1>6
<1>8. Stacked8' BY <1>1 DEF Stacked8
<1>9. Numbered1'
  <2>1. \A i \in DOMAIN file.temps1 :
            file.temps1[i].size = 1 /\ file.temps1[i].offset = -i /\ i \in Int
    BY <1>2, <1>3 DEF Numbered1
  <2>2. \A i \in DOMAIN file'.temps1 : /\ file'.temps1[i].size = 1
                                       /\ file'.temps1[i].offset = file'.offset8 - i
    BY <1>1, <1>5, <1>6, <2>1
  <2>3. file'.offset1 = -Len(file'.temps1) BY <1>1, <1>6 DEF Numbered1
  <2> QED BY <1>2, <2>2, <2>3 DEF Numbered1
<1> QED BY <1>7, <1>8, <1>9

-----------------------------------------------------------------------------
(* An empty file has no slots.                                             *)
LEMMA InitFrame == Init => FrameInv
<1> SUFFICES ASSUME Init PROVE FrameInv OBVIOUS
<1>1. /\ DOMAIN file = Fields
      /\ file.temps1 = <<>> /\ file.temps8 = <<>>
      /\ file.offset1 = 0 /\ file.offset8 = 0
      /\ left \subseteq DOMAIN Declarations
  BY DEF Init, NewFile, Fields
<1>2. /\ file.temps1 \in Slots /\ 0 = -Len(file.temps1) /\ DOMAIN file.temps1 = {}
      /\ file.temps8 \in Slots /\ DOMAIN file.temps8 = {}
  BY <1>1, EmptySlots
<1>3. FrameTyped BY <1>1, <1>2 DEF FrameTyped
<1>4. Stacked8 BY <1>1, <1>2 DEF Stacked8
<1>5. Numbered1
  <2>2. file.offset1 = -Len(file.temps1) BY <1>1, <1>2, Zenon
  <2>3. DOMAIN file.temps1 = {} BY <1>2, Zenon
  <2> QED BY ONLY <2>2, <2>3 DEF Numbered1
<1> QED BY <1>3, <1>4, <1>5 DEF FrameInv

(* One step per action.                                                    *)
LEMMA StepFrame == FrameInv /\ [Next]_vars => FrameInv'
<1> SUFFICES ASSUME FrameInv, [Next]_vars PROVE FrameInv' OBVIOUS
<1>0. DOMAIN file = Fields BY DEF FrameInv, FrameTyped
<1>1. CASE AddVariable
  <2>1. PICK i \in left :
           /\ file' = CASE Declarations[i].where = "temporary" ->
                              AddTemporaryVariable(file, Declarations[i])
                        [] Declarations[i].where = "extern" ->
                              AddExternVariable(file, Declarations[i])
                        [] Declarations[i].where = "private" ->
                              AddPrivateVariable(file, Declarations[i])
           /\ left' = left \ {i}
    BY <1>1 DEF AddVariable
  <2>2. phase = "variables" /\ phase' = phase BY <1>1 DEF AddVariable
  <2>3. i \in DOMAIN Declarations BY DEF FrameInv, FrameTyped
  <2>4. /\ Declarations[i].name \in STRING
        /\ Declarations[i].where \in {"temporary", "extern", "private"}
        /\ Declarations[i].where = "private"
              => Declarations[i].type \in {"Boolean", "Integer", "Double", "String"}
    <3> DEFINE Declared == [name : STRING, where : {"temporary", "extern", "private"},
                            type : {"Boolean", "Integer", "Double", "String", "%mxcsr"},
                            full : BOOLEAN]
    <3>3. Declarations \in Seq(Declared) BY DeclarationsAssumption, Zenon
    <3>4. \A e \in Declared : /\ e.name \in STRING
                              /\ e.where \in {"temporary", "extern", "private"}
                              /\ e.type \in {"Boolean", "Integer", "Double", "String", "%mxcsr"}
      OBVIOUS
    <3> HIDE DEF Declared
    <3>1. Declarations[i] \in Declared BY <2>3, <3>3, ElementOf
    <3>2. Declarations[i].where = "private" => Declarations[i].type # "%mxcsr"
      BY <2>3, DeclarationsAssumption
    <3> QED BY <3>1, <3>2, <3>4
  <2>5. CASE Declarations[i].where = "temporary"
    <3>1. file' = AddTemporaryVariable(file, Declarations[i]) BY <2>1, <2>5
    <3> QED BY <2>1, <2>2, <2>4, <3>1, TemporaryAdded
  <2>6. CASE Declarations[i].where \in {"extern", "private"}
    <3>1. SameFrame(file, file') BY <1>0, <2>1, <2>4, <2>6, VariablesKeepFrame
    <3> QED BY <2>1, <2>2, <3>1, FrameKept
  <2> QED BY <2>4, <2>5, <2>6
<1>2. CASE AdjustTemporaries BY <1>2, TemporariesAdjusted
<1>3. CASE AddConstant
  <2>1. SameFrame(file, file') BY <1>0, <1>3, ConstantsKeepFrame DEF AddConstant
  <2> QED BY <1>3, <2>1, FrameKept DEF AddConstant
<1>4. CASE Generate
  <2>1. SameFrame(file, file') BY <1>0, <1>4, CodeKeepsFrame DEF Generate
  <2> QED BY <1>4, <2>1, FrameKept DEF Generate
<1>5. CASE Instruction
  <2>1. SameFrame(file, file') BY <1>0, <1>5, CodeKeepsFrame DEF Instruction
  <2> QED BY <1>5, <2>1, FrameKept DEF Instruction
<1>6. CASE PlaceLabel
  <2>1. SameFrame(file, file') BY <1>0, <1>6, CodeKeepsFrame DEF PlaceLabel
  <2> QED BY <1>6, <2>1, FrameKept DEF PlaceLabel
<1>7. CASE Return
  <2>1. SameFrame(file, AddText(file, 2)) BY <1>0, CodeKeepsFrame
  <2>2. SameFrame(AddText(file, 2), file') BY <1>7, <2>1, CodeKeepsFrame DEF Return, SameFrame
  <2> QED BY <1>7, <2>1, <2>2, FrameKept DEF Return, SameFrame
<1>8. CASE Save \/ Load \/ UNCHANGED vars
  <2>1. SameFrame(file, file') BY <1>0, <1>8 DEF Save, Load, vars, SameFrame
  <2> QED BY <1>8, <2>1, FrameKept DEF Save, Load, vars
<1> QED BY <1>1, <1>2, <1>3, <1>4, <1>5, <1>6, <1>7, <1>8 DEF Next

(***************************************************************************)
(* What the invariant gives: the room taken from the stack is that of the  *)
(* slots of one byte, rounded up to eight bytes, and of the others.        *)
(***************************************************************************)
LEMMA FrameInvDisjoint == FrameInv => FrameDisjoint
<1> SUFFICES ASSUME FrameInv, phase # "variables" PROVE FrameDisjoint
  BY DEF FrameDisjoint
<1> USE DEF FrameInv, FrameTyped
<1>1. \A i \in DOMAIN file.temps8 : /\ file.temps8[i].offset \in Int /\ file.temps8[i].size \in Nat
                                    /\ file.temps8[i].offset >= file.offset8
                                    /\ file.temps8[i].offset + file.temps8[i].size <= 0
                                    /\ i \in Int
  BY SlotsFacts DEF Stacked8
<1>2. \A i \in DOMAIN file.temps1 : /\ file.temps1[i].offset = file.offset8 - i
                                    /\ file.temps1[i].size = 1
                                    /\ i \in Int /\ 1 <= i /\ i <= -file.offset1
  BY SlotsFacts DEF Numbered1
<1>3. /\ SizeOfTemporaryVariables(file) \in Int
      /\ SizeOfTemporaryVariables(file) >= -file.offset1 - file.offset8
      /\ SizeOfTemporaryVariables(file) >= -file.offset8
      /\ file.offset8 <= 0
  <2>1. file.offset1 <= 0 BY SlotsFacts DEF Numbered1
  <2> QED BY <2>1 DEF SizeOfTemporaryVariables, Stacked8
<1>4. \A i, j \in DOMAIN file.temps8 : i # j => Apart(file.temps8[i], file.temps8[j])
  <2> TAKE i, j \in DOMAIN file.temps8
  <2> HAVE i # j
  <2>1. i < j \/ j < i BY <1>1
  <2> QED BY <1>1, <2>1 DEF Apart, Stacked8
<1>5. \A i, j \in DOMAIN file.temps1 : i # j => Apart(file.temps1[i], file.temps1[j])
  BY <1>2 DEF Apart
<1>6. \A i \in DOMAIN file.temps8, j \in DOMAIN file.temps1 : Apart(file.temps8[i], file.temps1[j])
  BY <1>1, <1>2 DEF Apart
<1>7. \A i \in DOMAIN file.temps8 :
         /\ file.temps8[i].offset + file.temps8[i].size <= 0
         /\ file.temps8[i].offset >= -SizeOfTemporaryVariables(file)
  BY <1>1, <1>3
<1>8. \A i \in DOMAIN file.temps1 :
         /\ file.temps1[i].offset + file.temps1[i].size <= 0
         /\ file.temps1[i].offset >= -SizeOfTemporaryVariables(file)
  BY <1>2, <1>3
<1> HIDE DEF FrameInv, FrameTyped
<1> QED BY <1>4, <1>5, <1>6, <1>7, <1>8 DEF FrameDisjoint, Range1, Range8

(* The temporaries of a function never overlap, whatever their number and  *)
(* their types (add_temporary_variable(), binary.cpp:2776).                *)
THEOREM FrameAlwaysDisjoint == Spec => []FrameDisjoint
<1>1. Init => FrameInv BY InitFrame
<1>2. FrameInv /\ [Next]_vars => FrameInv' BY StepFrame
<1>3. FrameInv => FrameDisjoint BY FrameInvDisjoint
<1> QED BY <1>1, <1>2, <1>3, PTL DEF Spec

-----------------------------------------------------------------------------
(***************************************************************************)
(* The layout of a file.  Its parts are placed by sums of sizes.           *)
(***************************************************************************)
(* The function of the sums of the first sizes.                           *)
Sums(f, s, n) ==
    /\ f \in [0..n -> Nat]
    /\ \A i \in 0..n : f[i] = IF i = 0 THEN 0 ELSE f[i - 1] + s[i]

(* Total() runs over the function of the sums.                             *)
LEMMA TotalEquation ==
    ASSUME NEW n \in Nat, NEW s \in Seq(Nat), Len(s) = n
    PROVE  \E f : Sums(f, s, n) /\ Total(s) = f[n]
<1> DEFINE D == 0..n
           E(f) == [i \in D |-> IF i = 0 THEN 0 ELSE f[i - 1] + s[i]]
           value(i, f) == IF i = 0 THEN 0 ELSE f[i - 1] + s[i]
           step == [i \in D |-> [f \in [D -> Nat] |-> value(i, f)]]
           rank == [i \in D |-> i]
           sum == CHOOSE f : f = E(f)
<1>1. \A i \in D : i \in 0..n /\ (i # 0 => i - 1 \in D /\ s[i] \in Nat)
  <2>1. \A i \in 1..n : s[i] \in Nat BY ElementOfSeq
  <2> QED BY <2>1
<1>2. \A i \in D, f \in [D -> Nat] : value(i, f) \in Nat
  <2> SUFFICES ASSUME NEW i \in D, NEW f \in [D -> Nat] PROVE value(i, f) \in Nat OBVIOUS
  <2>1. CASE i = 0 BY <2>1
  <2>2. CASE i # 0
    <3>1. f[i - 1] \in Nat /\ s[i] \in Nat BY <1>1, <2>2
    <3> QED BY <2>2, <3>1
  <2> QED BY <2>1, <2>2
<1>3. /\ rank \in [D -> Nat] /\ \A i \in D : rank[i] <= n
      /\ step \in [D -> [[D -> Nat] -> Nat]]
  BY <1>2
<1>4. \A i \in D : \A g, h \in [D -> Nat] :
          (\A j \in D : rank[j] < rank[i] => g[j] = h[j]) => value(i, g) = value(i, h)
  BY <1>1
<1>5. \A i \in D, g \in [D -> Nat] : step[i][g] = value(i, g) OBVIOUS
<1>6. FromLower(D, [D -> Nat], rank, step)
  <2> SUFFICES ASSUME NEW i \in D, NEW g \in [D -> Nat], NEW h \in [D -> Nat],
                      \A j \in D : rank[j] < rank[i] => g[j] = h[j]
               PROVE  step[i][g] = step[i][h]
    BY DEF FromLower
  <2>1. value(i, g) = value(i, h) BY <1>4
  <2> HIDE DEF step, value
  <2> QED BY <1>5, <2>1
<1>7. \E f \in [D -> Nat] : Solves(f, D, step)
  <2> HIDE DEF step, rank, D
  <2> QED BY <1>3, <1>6, RecursionExists
<1>8. PICK g \in [D -> Nat] : \A i \in D : g[i] = value(i, g)
  <2> HIDE DEF step, value, D
  <2> QED BY <1>5, <1>7 DEF Solves
<1>9. g = E(g) BY <1>8
<1>10. sum = E(sum)
  <2> HIDE DEF E
  <2> QED BY <1>9
<1>11. \A i \in D : sum[i] = value(i, sum)
  <2> HIDE DEF sum
  <2> QED BY <1>10
<1>12. \A i \in D : sum[i] \in Nat
  <2> DEFINE S == {i \in D : sum[i] \in Nat}
  <2> HIDE DEF sum
  <2>1. ASSUME NEW i \in D, \A j \in D : rank[j] < rank[i] => j \in S PROVE i \in S
    <3>1. CASE i = 0 BY <1>1, <1>11, <3>1
    <3>2. CASE i # 0
      <4>1. i - 1 \in S BY <1>1, <2>1, <3>2
      <4>2. sum[i - 1] \in Nat /\ sum[i] = sum[i - 1] + s[i] /\ s[i] \in Nat
        BY <1>1, <1>11, <3>2, <4>1
      <4> QED BY <4>2
    <3> QED BY <3>1, <3>2
  <2>2. D \subseteq S
    <3> HIDE DEF S, rank, D
    <3> QED BY <1>3, <2>1, RankInduction
  <2> QED BY <2>2
<1>13. sum \in [D -> Nat]
  <2> HIDE DEF sum
  <2> QED BY <1>10, <1>12
<1>14. Total(s) = sum[n] BY Zenon DEF Total
<1>15. Sums(sum, s, n)
  <2> HIDE DEF sum
  <2> QED BY <1>11, <1>13 DEF Sums
<1> QED BY <1>14, <1>15

(* One size more adds itself.                                              *)
LEMMA TotalOne ==
    ASSUME NEW n \in Nat, NEW s \in Seq(Nat), NEW t \in Seq(Nat),
           Len(s) = n, Len(t) = n + 1, \A i \in 1..n : t[i] = s[i]
    PROVE  Total(t) = Total(s) + t[n + 1] /\ Total(s) \in Nat
<1>1. PICK f : Sums(f, s, n) /\ Total(s) = f[n] BY TotalEquation
<1>2. PICK g : Sums(g, t, n + 1) /\ Total(t) = g[n + 1]
  <2>1. n + 1 \in Nat OBVIOUS
  <2> QED BY <2>1, TotalEquation
<1> USE DEF Sums
<1> DEFINE S == {i \in Nat : i <= n => f[i] = g[i]}
<1>3. 0 \in S BY <1>1, <1>2
<1>4. ASSUME NEW i \in Nat, i \in S PROVE i + 1 \in S
  <2> SUFFICES ASSUME i + 1 <= n PROVE f[i + 1] = g[i + 1] OBVIOUS
  <2>1. f[i] = g[i] BY <1>4
  <2>2. i + 1 \in 0..n /\ i + 1 \in 0..(n + 1) /\ i + 1 # 0 /\ (i + 1) - 1 = i /\ i + 1 \in 1..n
    OBVIOUS
  <2>3. f[i + 1] = f[i] + s[i + 1] BY <1>1, <2>2
  <2>4. g[i + 1] = g[i] + t[i + 1] BY <1>2, <2>2
  <2> QED BY <2>1, <2>2, <2>3, <2>4
<1>5. n \in S
  <2> HIDE DEF S
  <2> QED BY <1>3, <1>4, SetInduction
<1>6. g[n + 1] = g[n] + t[n + 1] BY <1>2
<1> QED BY <1>1, <1>2, <1>5, <1>6

(* No sizes.                                                               *)
LEMMA TotalNone == Total(<<>>) = 0
<1>1. <<>> \in Seq(Nat) /\ Len(<<>>) = 0 BY EmptySeq
<1>2. ASSUME NEW n \in Nat, n = 0, NEW s \in Seq(Nat), Len(s) = n PROVE Total(s) = 0
  <2>1. PICK f : Sums(f, s, n) /\ Total(s) = f[n] BY <1>2, TotalEquation
  <2> QED BY <1>2, <2>1 DEF Sums
<1> QED BY <1>1, <1>2

(* The bytes of the parts of a sequence, one after the other.              *)
Lengths(parts, n) == [i \in 1..n |-> Len(parts[i])]

Placed(whole, parts, n, A) ==
    /\ whole \in Seq(A) /\ Len(whole) = Total(Lengths(parts, n))
    /\ \A k \in 1..n : /\ Total(Lengths(parts, k - 1)) \in Nat
                       /\ \A j \in 1..Len(parts[k]) :
                              /\ Total(Lengths(parts, k - 1)) + j \in 1..Len(whole)
                              /\ whole[Total(Lengths(parts, k - 1)) + j] = parts[k][j]

(* A part of a concatenation is where the parts before it end.             *)
LEMMA FlattenPlaces ==
    ASSUME NEW A, NEW n \in Nat, NEW parts \in Seq(Seq(A)), Len(parts) = n
    PROVE  Placed(FlattenSeq(parts), parts, n, A)
<1> DEFINE Beginning(m) == [i \in 1..m |-> parts[i]]
           S == {m \in Nat : m <= n => Placed(FlattenSeq(Beginning(m)), parts, m, A)}
<1>1. \A i \in 1..n : parts[i] \in Seq(A) /\ Len(parts[i]) \in Nat
  BY ElementOfSeq, LenProperties
<1>2. ASSUME NEW m \in Nat, m <= n
      PROVE  /\ Beginning(m) \in Seq(Seq(A)) /\ Len(Beginning(m)) = m
             /\ Lengths(parts, m) \in Seq(Nat) /\ Len(Lengths(parts, m)) = m
  <2>1. Beginning(m) \in [1..m -> Seq(A)] BY <1>1, <1>2
  <2>2. Lengths(parts, m) \in [1..m -> Nat] BY <1>1, <1>2 DEF Lengths
  <2> QED BY <2>1, <2>2, FunctionIsSeq
<1>3. 0 \in S
  <2>1. Beginning(0) \in Seq(Seq(A)) /\ Len(Beginning(0)) = 0 BY <1>2
  <2>2. Beginning(0) = <<>> BY <2>1, EmptySeq
  <2>3. FlattenSeq(Beginning(0)) = <<>> BY <2>1, <2>2 DEF FlattenSeq
  <2>4. Lengths(parts, 0) \in Seq(Nat) /\ Len(Lengths(parts, 0)) = 0 BY <1>2
  <2>5. Lengths(parts, 0) = <<>> BY <2>4, EmptySeq
  <2>6. <<>> \in Seq(A) /\ Len(<<>>) = 0 BY EmptySeq
  <2>7. Total(Lengths(parts, 0)) = 0 BY <2>5, TotalNone
  <2>8. Placed(<<>>, parts, 0, A)
    <3>1. \A k \in 1..0 : FALSE OBVIOUS
    <3> QED BY <2>6, <2>7, <3>1 DEF Placed
  <2> HIDE DEF Beginning
  <2> QED BY <2>3, <2>8
<1>4. ASSUME NEW m \in Nat, m \in S PROVE m + 1 \in S
  <2> SUFFICES ASSUME m + 1 <= n
               PROVE  Placed(FlattenSeq(Beginning(m + 1)), parts, m + 1, A)
    OBVIOUS
  <2>1. PICK w : w = FlattenSeq(Beginning(m)) OBVIOUS
  <2>2. Placed(w, parts, m, A) BY <1>4, <2>1
  <2>3. PICK p : p = parts[m + 1] /\ p \in Seq(A) /\ Len(p) \in Nat BY <1>1
  <2>4. FlattenSeq(Beginning(m + 1)) = w \o p
    <3>1. /\ Beginning(m) \in Seq(Seq(A)) /\ Len(Beginning(m)) = m
          /\ Beginning(m + 1) \in Seq(Seq(A)) /\ Len(Beginning(m + 1)) = m + 1
      BY <1>2
    <3>2. \A i \in 1..m : Beginning(m + 1)[i] = Beginning(m)[i] OBVIOUS
    <3>3. Beginning(m + 1)[m + 1] = p BY <2>3
    <3> HIDE DEF Beginning
    <3> QED BY <2>1, <3>1, <3>2, <3>3, FlattenOne
  <2>5. /\ Total(Lengths(parts, m + 1)) = Total(Lengths(parts, m)) + Len(p)
        /\ Total(Lengths(parts, m)) \in Nat
    <3>1. /\ Lengths(parts, m) \in Seq(Nat) /\ Len(Lengths(parts, m)) = m
          /\ Lengths(parts, m + 1) \in Seq(Nat) /\ Len(Lengths(parts, m + 1)) = m + 1
      BY <1>2
    <3>2. \A i \in 1..m : Lengths(parts, m + 1)[i] = Lengths(parts, m)[i] BY DEF Lengths
    <3>3. Lengths(parts, m + 1)[m + 1] = Len(p) BY <2>3 DEF Lengths
    <3> QED BY <3>1, <3>2, <3>3, TotalOne
  <2>6. PICK T : T = [k \in 1..(m + 1) |-> Total(Lengths(parts, k - 1))] OBVIOUS
  <2>7. \A k \in 1..(m + 1) : T[k] = Total(Lengths(parts, k - 1)) BY <2>6
  <2>8. T[m + 1] = Total(Lengths(parts, m)) BY <2>7
  <2>9. /\ w \in Seq(A) /\ Len(w) = T[m + 1] /\ T[m + 1] \in Nat
        /\ \A k \in 1..m : /\ T[k] \in Nat
                           /\ \A j \in 1..Len(parts[k]) :
                                 T[k] + j \in 1..Len(w) /\ w[T[k] + j] = parts[k][j]
    BY <2>2, <2>5, <2>7, <2>8 DEF Placed
  <2>10. PICK wp : wp = w \o p OBVIOUS
  <2>11. Joined(wp, w, p, A) BY <2>3, <2>9, <2>10, ConcatPlaces
  <2>12. \A k \in 1..(m + 1) : /\ T[k] \in Nat
                               /\ \A j \in 1..Len(parts[k]) :
                                     T[k] + j \in 1..Len(wp) /\ wp[T[k] + j] = parts[k][j]
    <3> SUFFICES ASSUME NEW k \in 1..(m + 1)
                 PROVE  /\ T[k] \in Nat
                        /\ \A j \in 1..Len(parts[k]) :
                              T[k] + j \in 1..Len(wp) /\ wp[T[k] + j] = parts[k][j]
      OBVIOUS
    <3>1. CASE k = m + 1
      <4>1. T[k] = Len(w) /\ parts[k] = p /\ T[k] \in Nat BY <2>3, <2>9, <3>1
      <4> QED BY <2>11, <4>1 DEF Joined
    <3>2. CASE k # m + 1
      <4>1. k \in 1..m BY <3>2
      <4> QED BY <2>9, <2>11, <4>1 DEF Joined
    <3> QED BY <3>1, <3>2
  <2>13. wp \in Seq(A) /\ Len(wp) = Total(Lengths(parts, m + 1))
    BY <2>5, <2>8, <2>9, <2>11 DEF Joined
  <2>14. Placed(wp, parts, m + 1, A) BY <2>7, <2>12, <2>13 DEF Placed
  <2> HIDE DEF Beginning
  <2> QED BY <2>4, <2>10, <2>14
<1>5. n \in S
  <2> HIDE DEF S
  <2> QED BY <1>3, <1>4, SetInduction
<1>6. Beginning(n) = parts
  <2>1. parts \in [1..n -> Seq(A)] BY LenProperties
  <2> QED BY <2>1
<1> HIDE DEF Beginning
<1> QED BY <1>5, <1>6

(* The sum of n times the same size: a table of entries of one width.      *)
LEMMA TotalOfEqual ==
    ASSUME NEW n \in Nat, NEW c \in Nat
    PROVE  Total([i \in 1..n |-> c]) = n * c
<1> DEFINE S == {m \in Nat : Total([i \in 1..m |-> c]) = m * c}
<1>1. \A m \in Nat : [i \in 1..m |-> c] \in Seq(Nat) /\ Len([i \in 1..m |-> c]) = m
  <2> TAKE m \in Nat
  <2>1. [i \in 1..m |-> c] \in [1..m -> Nat] OBVIOUS
  <2> QED BY <2>1, FunctionIsSeq
<1>2. 0 \in S
  <2>1. [i \in 1..0 |-> c] \in Seq(Nat) /\ Len([i \in 1..0 |-> c]) = 0 BY <1>1
  <2>2. [i \in 1..0 |-> c] = <<>> BY <2>1, EmptySeq
  <2> QED BY <2>2, TotalNone
<1>3. ASSUME NEW m \in Nat, m \in S PROVE m + 1 \in S
  <2>1. PICK s : s = [i \in 1..m |-> c] OBVIOUS
  <2>2. PICK t : t = [i \in 1..(m + 1) |-> c] OBVIOUS
  <2>3. /\ s \in Seq(Nat) /\ Len(s) = m /\ t \in Seq(Nat) /\ Len(t) = m + 1
    <3>1. m + 1 \in Nat OBVIOUS
    <3> QED BY <1>1, <2>1, <2>2, <3>1
  <2>4. \A i \in 1..m : t[i] = s[i] BY <2>1, <2>2
  <2>5. t[m + 1] = c BY <2>2
  <2>6. Total(t) = Total(s) + c BY <2>3, <2>4, <2>5, TotalOne
  <2>7. Total(s) = m * c BY <1>3, <2>1
  <2>8. (m + 1) * c = m * c + c OBVIOUS
  <2> QED BY <2>2, <2>6, <2>7, <2>8
<1>4. n \in S
  <2> HIDE DEF S
  <2> QED BY <1>2, <1>3, SetInduction
<1> QED BY <1>4

(***************************************************************************)
(* The types of what a file holds, and where its bytes are.                *)
(***************************************************************************)
VariableNames == {Declarations[i].name : i \in DOMAIN Declarations}
                 \cup {ConstantNames[n] : n \in DOMAIN ConstantNames}
Objects == STRING \cup {""} \cup Texts \cup Numbers
Kinds == {"header", "code", "extern", "string", "number", "bool", "name", "text", "padding",
          "magic"}
Types == {"VARIABLE_32BITS", "VARIABLE_32BITS_DATA", "VARIABLE_32BITS_DATA_SIZE",
          "CONSTANT_32BITS", "LABEL_32BITS"}

Extern == [name : VariableNames, nameAt : Nat]
Private == [name : VariableNames, nameAt : Nat, nameSize : Nat, text : Texts \cup {""},
            dataAt : Nat, dataSize : Nat]
LongString == [kind : Kinds, of : Objects, size : Nat]
Reference == [name : Objects \cup Labels, type : Types, position : Nat, immediate : Nat,
              offset : Nat]
Byte == Kinds \X Objects \X Nat

FileTyped(f) ==
    /\ f.externs \in Seq(Extern) /\ f.stringPrivate \in Seq(Private)
    /\ f.numberPrivate \in Seq(Objects) /\ f.boolPrivate \in Seq(Objects)
    /\ f.strings \in Seq(LongString)
    /\ f.relocations \in Seq(Reference)
    /\ f.text \in Nat

(* A part of a file at an offset.                                          *)
Inside(whole, offset, part) ==
    \A j \in 1..Len(part) : offset + j \in 1..Len(whole) /\ whole[offset + j] = part[j]

Starts(s, whole) == \A i \in 1..Len(s) : i \in 1..Len(whole) /\ whole[i] = s[i]

Grown(u, s, t, A) ==
    /\ u \in Seq(A) /\ Len(u) = Len(s) + Len(t) /\ Len(u) \in Nat /\ Len(s) \in Nat
    /\ Inside(u, Len(s), t) /\ Starts(s, u)

(* A part added at the end of a file is at the length the file had.        *)
LEMMA PartJoined ==
    ASSUME NEW A, NEW s \in Seq(A), NEW t \in Seq(A), NEW u, u = s \o t
    PROVE  Grown(u, s, t, A)
<1>1. Joined(u, s, t, A) BY ConcatPlaces
<1> QED BY <1>1 DEF Grown, Joined, Inside, Starts

(* What is added after it does not move a part.                            *)
LEMMA PartKept ==
    ASSUME NEW s, NEW u, Starts(s, u)
    PROVE  /\ \A offset, part : Inside(s, offset, part) => Inside(u, offset, part)
           /\ \A v : Starts(u, v) => Starts(s, v)
  BY DEF Inside, Starts

Nine(w, p1, p2, p3, p4, p5, p6, p7, p8, p9) ==
    /\ Len(w) = Len(p1) + Len(p2) + Len(p3) + Len(p4) + Len(p5) + Len(p6)
                   + Len(p7) + Len(p8) + Len(p9)
    /\ Inside(w, Len(p1), p2)
    /\ Inside(w, Len(p1) + Len(p2), p3)
    /\ Inside(w, Len(p1) + Len(p2) + Len(p3), p4)
    /\ Inside(w, Len(p1) + Len(p2) + Len(p3) + Len(p4), p5)
    /\ Inside(w, Len(p1) + Len(p2) + Len(p3) + Len(p4) + Len(p5)
                    + Len(p6), p7)

(* The nine parts of a file, each after the ones before it.                *)
LEMMA NineParts ==
    ASSUME NEW A,
           NEW p1 \in Seq(A), NEW p2 \in Seq(A), NEW p3 \in Seq(A), NEW p4 \in Seq(A),
           NEW p5 \in Seq(A), NEW p6 \in Seq(A), NEW p7 \in Seq(A), NEW p8 \in Seq(A),
           NEW p9 \in Seq(A), NEW w,
           w = p1 \o p2 \o p3 \o p4 \o p5 \o p6 \o p7 \o p8 \o p9
    PROVE  Nine(w, p1, p2, p3, p4, p5, p6, p7, p8, p9)
<1>1. PICK u2 : u2 = p1 \o p2 OBVIOUS
<1>2. PICK u3 : u3 = u2 \o p3 OBVIOUS
<1>3. PICK u4 : u4 = u3 \o p4 OBVIOUS
<1>4. PICK u5 : u5 = u4 \o p5 OBVIOUS
<1>5. PICK u6 : u6 = u5 \o p6 OBVIOUS
<1>6. PICK u7 : u7 = u6 \o p7 OBVIOUS
<1>7. PICK u8 : u8 = u7 \o p8 OBVIOUS
<1>8. w = u8 \o p9 BY <1>1, <1>2, <1>3, <1>4, <1>5, <1>6, <1>7
<1>12. Grown(u2, p1, p2, A) /\ u2 \in Seq(A)
  <2>1. p1 \in Seq(A) /\ p2 \in Seq(A) OBVIOUS
  <2>2. Grown(u2, p1, p2, A) BY <1>1, <2>1, PartJoined
  <2> QED BY <2>2 DEF Grown
<1>13. Grown(u3, u2, p3, A) /\ u3 \in Seq(A)
  <2>1. u2 \in Seq(A) /\ p3 \in Seq(A) BY <1>12
  <2>2. Grown(u3, u2, p3, A) BY <1>2, <2>1, PartJoined
  <2> QED BY <2>2 DEF Grown
<1>14. Grown(u4, u3, p4, A) /\ u4 \in Seq(A)
  <2>1. u3 \in Seq(A) /\ p4 \in Seq(A) BY <1>13
  <2>2. Grown(u4, u3, p4, A) BY <1>3, <2>1, PartJoined
  <2> QED BY <2>2 DEF Grown
<1>15. Grown(u5, u4, p5, A) /\ u5 \in Seq(A)
  <2>1. u4 \in Seq(A) /\ p5 \in Seq(A) BY <1>14
  <2>2. Grown(u5, u4, p5, A) BY <1>4, <2>1, PartJoined
  <2> QED BY <2>2 DEF Grown
<1>16. Grown(u6, u5, p6, A) /\ u6 \in Seq(A)
  <2>1. u5 \in Seq(A) /\ p6 \in Seq(A) BY <1>15
  <2>2. Grown(u6, u5, p6, A) BY <1>5, <2>1, PartJoined
  <2> QED BY <2>2 DEF Grown
<1>17. Grown(u7, u6, p7, A) /\ u7 \in Seq(A)
  <2>1. u6 \in Seq(A) /\ p7 \in Seq(A) BY <1>16
  <2>2. Grown(u7, u6, p7, A) BY <1>6, <2>1, PartJoined
  <2> QED BY <2>2 DEF Grown
<1>18. Grown(u8, u7, p8, A) /\ u8 \in Seq(A)
  <2>1. u7 \in Seq(A) /\ p8 \in Seq(A) BY <1>17
  <2>2. Grown(u8, u7, p8, A) BY <1>7, <2>1, PartJoined
  <2> QED BY <2>2 DEF Grown
<1>19. Grown(w, u8, p9, A) /\ w \in Seq(A)
  <2>1. u8 \in Seq(A) /\ p9 \in Seq(A) BY <1>18
  <2>2. Grown(w, u8, p9, A) BY <1>8, <2>1, PartJoined
  <2> QED BY <2>2 DEF Grown
<1>20. /\ Starts(u7, w) /\ Starts(u6, w) /\ Starts(u5, w) /\ Starts(u4, w)
       /\ Starts(u3, w) /\ Starts(u2, w)
  <2>8. Starts(u8, w) BY <1>19 DEF Grown
  <2>7. Starts(u7, w)
    <3>1. Starts(u7, u8) BY <1>18 DEF Grown
    <3> QED BY <2>8, <3>1, PartKept
  <2>6. Starts(u6, w)
    <3>1. Starts(u6, u7) BY <1>17 DEF Grown
    <3> QED BY <2>7, <3>1, PartKept
  <2>5. Starts(u5, w)
    <3>1. Starts(u5, u6) BY <1>16 DEF Grown
    <3> QED BY <2>6, <3>1, PartKept
  <2>4. Starts(u4, w)
    <3>1. Starts(u4, u5) BY <1>15 DEF Grown
    <3> QED BY <2>5, <3>1, PartKept
  <2>3. Starts(u3, w)
    <3>1. Starts(u3, u4) BY <1>14 DEF Grown
    <3> QED BY <2>4, <3>1, PartKept
  <2>2. Starts(u2, w)
    <3>1. Starts(u2, u3) BY <1>13 DEF Grown
    <3> QED BY <2>3, <3>1, PartKept
  <2> QED BY <2>2, <2>3, <2>4, <2>5, <2>6, <2>7
<1>21. /\ Inside(w, Len(p1), p2) /\ Inside(w, Len(u2), p3) /\ Inside(w, Len(u3), p4)
       /\ Inside(w, Len(u4), p5) /\ Inside(w, Len(u6), p7)
  <2>1. /\ Inside(u2, Len(p1), p2) /\ Inside(u3, Len(u2), p3) /\ Inside(u4, Len(u3), p4)
        /\ Inside(u5, Len(u4), p5) /\ Inside(u7, Len(u6), p7)
    BY <1>12, <1>13, <1>14, <1>15, <1>17 DEF Grown
  <2> QED BY <1>20, <2>1, PartKept
<1>22. Len(u3) = Len(p1) + Len(p2) + Len(p3) BY <1>12, <1>13 DEF Grown
<1>23. Len(u4) = Len(p1) + Len(p2) + Len(p3) + Len(p4) BY <1>14, <1>22 DEF Grown
<1>24. Len(u6) = Len(p1) + Len(p2) + Len(p3) + Len(p4) + Len(p5) + Len(p6)
  BY <1>15, <1>16, <1>23 DEF Grown
<1>25. Len(w) = Len(p1) + Len(p2) + Len(p3) + Len(p4) + Len(p5) + Len(p6)
                   + Len(p7) + Len(p8) + Len(p9)
  BY <1>17, <1>18, <1>19, <1>24 DEF Grown
<1>26. Len(u2) = Len(p1) + Len(p2) BY <1>12 DEF Grown
<1> QED BY <1>19, <1>21, <1>22, <1>23, <1>24, <1>25, <1>26 DEF Nine

(* The bytes of an object, and of the objects of a table.                  *)
BytesOf(b, kind, name, size) ==
    /\ b \in Seq(Byte) /\ Len(b) = size
    /\ \A k \in 0..(size - 1) : k + 1 \in 1..size /\ b[k + 1] = <<kind, name, k>>

TableOf(t, kind, names, n, width) ==
    /\ t \in Seq(Byte) /\ Len(t) = n * width
    /\ \A i \in 1..n : \A k \in 0..(width - 1) :
          /\ (i - 1) * width + (k + 1) \in 1..Len(t)
          /\ t[(i - 1) * width + (k + 1)] = <<kind, names[i], k>>

(* Bytes() numbers the bytes of an object from 0.                          *)
LEMMA BytesPlaces ==
    ASSUME NEW kind \in Kinds, NEW name \in Objects, NEW size \in Nat
    PROVE  BytesOf(Bytes(kind, name, size), kind, name, size)
<1>1. PICK b : b = Bytes(kind, name, size) OBVIOUS
<1>2. b \in [1..size -> Byte]
  <2>1. \A k \in 1..size : <<kind, name, k - 1>> \in Byte
    <3>1. \A k \in 1..size : k - 1 \in Nat OBVIOUS
    <3> QED BY <3>1 DEF Byte
  <2> QED BY <1>1, <2>1 DEF Bytes
<1>3. \A k \in 0..(size - 1) : k + 1 \in 1..size /\ b[k + 1] = <<kind, name, k>>
  <2>1. \A j \in 1..size : b[j] = <<kind, name, j - 1>> BY <1>1 DEF Bytes
  <2>2. \A k \in 0..(size - 1) : k + 1 \in 1..size /\ (k + 1) - 1 = k OBVIOUS
  <2> QED BY <2>1, <2>2
<1>4. b \in Seq(Byte) /\ Len(b) = size BY <1>2, FunctionIsSeq
<1> QED BY <1>1, <1>3, <1>4 DEF BytesOf

(* The entries of a table are one width apart.                             *)
LEMMA TablePlaces ==
    ASSUME NEW kind \in Kinds, NEW n \in Nat, NEW names \in [1..n -> Objects], NEW width \in Nat,
           NEW parts, parts = [i \in 1..n |-> Bytes(kind, names[i], width)]
    PROVE  TableOf(FlattenSeq(parts), kind, names, n, width)
<1>1. \A i \in 1..n : /\ parts[i] \in Seq(Byte) /\ Len(parts[i]) = width
                      /\ \A k \in 0..(width - 1) : /\ k + 1 \in 1..width
                                                   /\ parts[i][k + 1] = <<kind, names[i], k>>
  BY BytesPlaces DEF BytesOf
<1>2. parts \in Seq(Seq(Byte)) /\ Len(parts) = n
  <2>1. parts \in [1..n -> Seq(Byte)] BY <1>1
  <2> QED BY <2>1, FunctionIsSeq
<1>3. \A m \in Nat : m <= n => Total(Lengths(parts, m)) = m * width
  <2> SUFFICES ASSUME NEW m \in Nat, m <= n PROVE Total(Lengths(parts, m)) = m * width OBVIOUS
  <2>1. ASSUME NEW i \in 1..m PROVE Len(parts[i]) = width
    <3>1. i \in 1..n OBVIOUS
    <3> QED BY <1>1, <3>1, Zenon
  <2>2. Lengths(parts, m) = [i \in 1..m |-> width] BY <2>1, Zenon DEF Lengths
  <2> QED BY <2>2, TotalOfEqual
<1>4. PICK w : w = FlattenSeq(parts) OBVIOUS
<1>5. Placed(w, parts, n, Byte) BY <1>2, <1>4, FlattenPlaces
<1>6. w \in Seq(Byte) /\ Len(w) = n * width
  <2>1. n <= n OBVIOUS
  <2>2. Total(Lengths(parts, n)) = n * width BY <1>3, <2>1, Zenon
  <2> QED BY <1>5, <2>2 DEF Placed
<1>7. ASSUME NEW i \in 1..n, NEW k \in 0..(width - 1)
      PROVE  (i - 1) * width + (k + 1) \in 1..Len(w)
             /\ w[(i - 1) * width + (k + 1)] = <<kind, names[i], k>>
  <2>1. Total(Lengths(parts, i - 1)) = (i - 1) * width
    <3>1. i - 1 \in Nat /\ i - 1 <= n OBVIOUS
    <3>2. PICK m : m = i - 1 OBVIOUS
    <3>3. Total(Lengths(parts, m)) = m * width BY <1>3, <3>1, <3>2
    <3> QED BY <3>2, <3>3
  <2>2. k + 1 \in 1..Len(parts[i]) /\ parts[i][k + 1] = <<kind, names[i], k>> BY <1>1
  <2>3. /\ Total(Lengths(parts, i - 1)) + (k + 1) \in 1..Len(w)
        /\ w[Total(Lengths(parts, i - 1)) + (k + 1)] = parts[i][k + 1]
    BY <1>5, <2>2 DEF Placed
  <2> QED BY <2>1, <2>2, <2>3
<1> QED BY <1>4, <1>6, <1>7 DEF TableOf

SizeBefore(strings, k) == Total([i \in 1..(k - 1) |-> strings[i].size])

(* A string is after the ones before it.                                   *)
LEMMA StringPlaces ==
    ASSUME NEW strings \in Seq(LongString),
           NEW parts, parts = [i \in DOMAIN strings |->
                                 Bytes(strings[i].kind, strings[i].of, strings[i].size)]
    PROVE  /\ FlattenSeq(parts) \in Seq(Byte)
           /\ Len(FlattenSeq(parts)) = SizeBefore(strings, Len(strings) + 1)
           /\ \A i \in DOMAIN strings :
                 strings[i].size > 0 =>
                    /\ SizeBefore(strings, i) + 1 \in 1..Len(FlattenSeq(parts))
                    /\ FlattenSeq(parts)[SizeBefore(strings, i) + 1]
                           = <<strings[i].kind, strings[i].of, 0>>
<1>1. PICK n \in Nat : n = Len(strings) /\ DOMAIN strings = 1..n BY LenProperties
<1>2. ASSUME NEW i \in 1..n
      PROVE  /\ strings[i].size \in Nat
             /\ parts[i] \in Seq(Byte) /\ Len(parts[i]) = strings[i].size
             /\ strings[i].size > 0 => parts[i][1] = <<strings[i].kind, strings[i].of, 0>>
  <2>1. strings[i] \in LongString BY <1>1, ElementOfSeq
  <2>2. strings[i].kind \in Kinds /\ strings[i].of \in Objects /\ strings[i].size \in Nat
    BY <2>1 DEF LongString
  <2>3. parts[i] = Bytes(strings[i].kind, strings[i].of, strings[i].size) BY <1>1
  <2>5. BytesOf(parts[i], strings[i].kind, strings[i].of, strings[i].size)
    BY <2>2, <2>3, BytesPlaces
  <2>4. ASSUME strings[i].size > 0 PROVE parts[i][1] = <<strings[i].kind, strings[i].of, 0>>
    <3>1. 0 \in 0..(strings[i].size - 1) /\ 0 + 1 = 1 BY <2>2, <2>4
    <3> QED BY <2>5, <3>1 DEF BytesOf
  <2> QED BY <2>2, <2>4, <2>5 DEF BytesOf
<1>3. parts \in Seq(Seq(Byte)) /\ Len(parts) = n
  <2>1. parts \in [1..n -> Seq(Byte)] BY <1>1, <1>2
  <2> QED BY <2>1, FunctionIsSeq
<1>4. \A m \in Nat : m <= n => Lengths(parts, m) = [i \in 1..m |-> strings[i].size]
  <2> SUFFICES ASSUME NEW m \in Nat, m <= n
               PROVE  Lengths(parts, m) = [i \in 1..m |-> strings[i].size]
    OBVIOUS
  <2>1. ASSUME NEW i \in 1..m PROVE Len(parts[i]) = strings[i].size
    <3>1. i \in 1..n OBVIOUS
    <3> QED BY <1>2, <3>1, Zenon
  <2> QED BY <2>1, Zenon DEF Lengths
<1>5. PICK w : w = FlattenSeq(parts) OBVIOUS
<1>6. Placed(w, parts, n, Byte) BY <1>3, <1>5, FlattenPlaces
<1>7. w \in Seq(Byte) /\ Len(w) = SizeBefore(strings, Len(strings) + 1)
  <2>1. n <= n /\ (Len(strings) + 1) - 1 = n BY <1>1
  <2>2. Lengths(parts, n) = [i \in 1..n |-> strings[i].size] BY <1>4, <2>1, Zenon
  <2> QED BY <1>6, <2>1, <2>2 DEF Placed, SizeBefore
<1>8. ASSUME NEW i \in 1..n, strings[i].size > 0
      PROVE  /\ SizeBefore(strings, i) + 1 \in 1..Len(w)
             /\ w[SizeBefore(strings, i) + 1] = <<strings[i].kind, strings[i].of, 0>>
  <2>1. i - 1 \in Nat /\ i - 1 <= n OBVIOUS
  <2>2. Lengths(parts, i - 1) = [j \in 1..(i - 1) |-> strings[j].size] BY <1>4, <2>1, Zenon
  <2>3. SizeBefore(strings, i) = Total(Lengths(parts, i - 1)) BY <2>2 DEF SizeBefore
  <2>4. 1 \in 1..Len(parts[i]) /\ parts[i][1] = <<strings[i].kind, strings[i].of, 0>>
    <3>1. strings[i].size \in Nat /\ strings[i].size > 0 BY <1>2, <1>8
    <3>2. Len(parts[i]) = strings[i].size BY <1>2
    <3>3. parts[i][1] = <<strings[i].kind, strings[i].of, 0>> BY <1>2, <1>8
    <3> QED BY <3>1, <3>2, <3>3
  <2>5. /\ Total(Lengths(parts, i - 1)) + 1 \in 1..Len(w)
        /\ w[Total(Lengths(parts, i - 1)) + 1] = parts[i][1]
    BY <1>6, <2>4 DEF Placed
  <2> QED BY <2>3, <2>4, <2>5
<1> QED BY <1>1, <1>5, <1>7, <1>8

CodeAt(w, f) == \A k \in 0..(f.text - 1) : w[HeaderSize + (k + 1)] = <<"code", "", k>>

EntriesAt(w, offset, kind, names, width) ==
    \A i \in DOMAIN names : \A k \in 0..(width - 1) :
        w[offset + ((i - 1) * width + (k + 1))] = <<kind, names[i], k>>

StringsAt(w, offset, strings) ==
    \A i \in DOMAIN strings :
        strings[i].size > 0 =>
            w[offset + (SizeBefore(strings, i) + 1)] = <<strings[i].kind, strings[i].of, 0>>

(* The parts of a file are where the offsets of save() say.                *)
LaidOut(w, f) ==
    /\ Len(w) = ((AfterStringsOffset(f) + 3) \div 4) * 4 + 4
    /\ CodeAt(w, f)
    /\ EntriesAt(w, DataStart(f), "extern", Names(f.externs), VariableSize)
    /\ EntriesAt(w, StringPrivateOffset(f), "string", Names(f.stringPrivate), VariableSize)
    /\ EntriesAt(w, NumberPrivateOffset(f), "number", f.numberPrivate, 8)
    /\ StringsAt(w, StringsOffset(f), f.strings)

TableIn(part, kind, names, width) ==
    /\ part \in Seq(Byte) /\ Len(part) = Len(names) * width
    /\ \A w, offset : Inside(w, offset, part) => EntriesAt(w, offset, kind, names, width)

(* A table inside a file: its entries are at the offset of the table.      *)
LEMMA EntriesInside ==
    ASSUME NEW kind \in Kinds, NEW names \in Seq(Objects), NEW width \in Nat, NEW parts,
           parts = [i \in DOMAIN names |-> Bytes(kind, names[i], width)]
    PROVE  TableIn(FlattenSeq(parts), kind, names, width)
<1>1. PICK n \in Nat : n = Len(names) /\ DOMAIN names = 1..n BY LenProperties
<1>2. names \in [1..n -> Objects] BY <1>1, LenProperties
<1>3. PICK p : p = FlattenSeq(parts) OBVIOUS
<1>4. /\ p \in Seq(Byte) /\ Len(p) = n * width
      /\ \A i \in 1..n : \A k \in 0..(width - 1) :
            /\ (i - 1) * width + (k + 1) \in 1..Len(p)
            /\ p[(i - 1) * width + (k + 1)] = <<kind, names[i], k>>
  <2>1. parts = [i \in 1..n |-> Bytes(kind, names[i], width)] BY <1>1
  <2>2. TableOf(p, kind, names, n, width) BY <1>2, <1>3, <2>1, TablePlaces
  <2> QED BY <2>2 DEF TableOf
<1>5. ASSUME NEW w, NEW offset, Inside(w, offset, p)
      PROVE  EntriesAt(w, offset, kind, names, width)
  <2> SUFFICES ASSUME NEW i \in 1..n, NEW k \in 0..(width - 1)
               PROVE  w[offset + ((i - 1) * width + (k + 1))] = <<kind, names[i], k>>
    BY <1>1 DEF EntriesAt
  <2>1. PICK j : j = (i - 1) * width + (k + 1) OBVIOUS
  <2>2. j \in 1..Len(p) /\ p[j] = <<kind, names[i], k>> BY <1>4, <2>1
  <2>3. w[offset + j] = p[j] BY <1>5, <2>2 DEF Inside
  <2> QED BY <2>1, <2>2, <2>3
<1> QED BY <1>1, <1>3, <1>4, <1>5 DEF TableIn

(* The names of a table, and its strings.                                  *)
LEMMA DeclaredTyped ==
    ASSUME NEW i \in DOMAIN Declarations
    PROVE  /\ Declarations[i].name \in STRING
           /\ Declarations[i].where \in {"temporary", "extern", "private"}
           /\ Declarations[i].where = "private"
                 => Declarations[i].type \in {"Boolean", "Integer", "Double", "String"}
  <1> DEFINE Declared == [name : STRING, where : {"temporary", "extern", "private"},
                          type : {"Boolean", "Integer", "Double", "String", "%mxcsr"},
                          full : BOOLEAN]
  <1>3. Declarations \in Seq(Declared) BY DeclarationsAssumption, Zenon
  <1>4. \A e \in Declared : /\ e.name \in STRING
                            /\ e.where \in {"temporary", "extern", "private"}
                            /\ e.type \in {"Boolean", "Integer", "Double", "String", "%mxcsr"}
    OBVIOUS
  <1> HIDE DEF Declared
  <1>1. Declarations[i] \in Declared BY <1>3
  <1>2. Declarations[i].where = "private" => Declarations[i].type # "%mxcsr"
    BY DeclarationsAssumption
  <1> QED BY <1>1, <1>2, <1>4

(* The names of variables may be those of objects of the file.             *)
LEMMA NamesAreObjects == VariableNames \subseteq STRING /\ VariableNames \subseteq Objects
<1>1. \A i \in DOMAIN Declarations : Declarations[i].name \in STRING BY DeclaredTyped
<1>2. \A n \in DOMAIN ConstantNames : ConstantNames[n] \in STRING
  BY NamesAssumption, LenProperties
<1> QED BY <1>1, <1>2 DEF VariableNames, Objects

NamesOf(names, entries) ==
    /\ names \in Seq(Objects) /\ Len(names) = Len(entries)
    /\ DOMAIN names = DOMAIN entries /\ Len(entries) \in Nat
    /\ \A i \in DOMAIN entries : names[i] = entries[i].name

(* Names() has the name of each entry, at the same place.                  *)
LEMMA NamesTyped ==
    ASSUME NEW E, NEW entries \in Seq(E), \A e \in E : e.name \in VariableNames
    PROVE  NamesOf(Names(entries), entries)
<1>1. PICK n \in Nat : n = Len(entries) /\ DOMAIN entries = 1..n BY LenProperties
<1>2. VariableNames \subseteq Objects BY NamesAreObjects
<1>3. \A i \in 1..n : entries[i].name \in Objects BY <1>1, <1>2, ElementOfSeq
<1>4. \A i \in 1..n : Names(entries)[i] = entries[i].name BY <1>1 DEF Names
<1>5. Names(entries) \in [1..n -> Objects] BY <1>1, <1>3 DEF Names
<1>6. Names(entries) \in Seq(Objects) /\ Len(Names(entries)) = n /\ DOMAIN Names(entries) = 1..n
  BY <1>5, FunctionIsSeq
<1> QED BY <1>1, <1>4, <1>6 DEF NamesOf

(* A sum of sizes is a size.                                               *)
LEMMA TotalTyped == ASSUME NEW s \in Seq(Nat) PROVE Total(s) \in Nat
<1>1. PICK n \in Nat : n = Len(s) BY LenProperties
<1>2. PICK f : Sums(f, s, n) /\ Total(s) = f[n] BY <1>1, TotalEquation
<1> QED BY <1>2 DEF Sums

(* The strings before a string have a size.                                *)
LEMMA SizesTyped ==
    ASSUME NEW strings \in Seq(LongString), NEW k \in 1..(Len(strings) + 1)
    PROVE  SizeBefore(strings, k) \in Nat
<1>1. PICK n \in Nat : n = Len(strings) BY LenProperties
<1>2. k - 1 \in Nat /\ \A i \in 1..(k - 1) : i \in 1..n BY <1>1
<1>3. ASSUME NEW i \in 1..n PROVE strings[i].size \in Nat
  <2>1. strings[i] \in LongString BY <1>1, ElementOfSeq
  <2> QED BY <2>1 DEF LongString
<1>4. PICK s : s = [i \in 1..(k - 1) |-> strings[i].size] OBVIOUS
<1>5. s \in [1..(k - 1) -> Nat] BY <1>2, <1>3, <1>4
<1>6. s \in Seq(Nat) BY <1>2, <1>5, FunctionIsSeq
<1>7. Total(s) \in Nat BY <1>6, TotalTyped
<1> QED BY <1>4, <1>7 DEF SizeBefore

(* The strings inside a file, each at its offset.                          *)
LEMMA StringsInside ==
    ASSUME NEW f, f.strings \in Seq(LongString), NEW p,
           p = FlattenSeq([i \in DOMAIN f.strings |->
                              Bytes(f.strings[i].kind, f.strings[i].of, f.strings[i].size)])
    PROVE  /\ p \in Seq(Byte) /\ Len(p) = StringsSize(f) /\ StringsSize(f) \in Nat
           /\ StringsSize(f) = SizeBefore(f.strings, Len(f.strings) + 1)
           /\ \A v, offset : Inside(v, offset, p) => StringsAt(v, offset, f.strings)
<1>1. PICK parts : parts = [i \in DOMAIN f.strings |->
                              Bytes(f.strings[i].kind, f.strings[i].of, f.strings[i].size)]
  OBVIOUS
<1>2. /\ p \in Seq(Byte)
      /\ Len(p) = SizeBefore(f.strings, Len(f.strings) + 1)
      /\ \A i \in DOMAIN f.strings :
            f.strings[i].size > 0 =>
               /\ SizeBefore(f.strings, i) + 1 \in 1..Len(p)
               /\ p[SizeBefore(f.strings, i) + 1] = <<f.strings[i].kind, f.strings[i].of, 0>>
  BY <1>1, StringPlaces
<1>3. StringsSize(f) = SizeBefore(f.strings, Len(f.strings) + 1) /\ StringsSize(f) \in Nat
  <2>1. Len(f.strings) \in Nat BY LenProperties
  <2>2. (Len(f.strings) + 1) - 1 = Len(f.strings) /\ Len(f.strings) + 1 \in 1..(Len(f.strings) + 1)
    BY <2>1
  <2>3. SizeBefore(f.strings, Len(f.strings) + 1) \in Nat BY <2>2, SizesTyped
  <2> QED BY <2>2, <2>3 DEF StringsSize, SizeBefore
<1>4. ASSUME NEW v, NEW offset, Inside(v, offset, p) PROVE StringsAt(v, offset, f.strings)
  <2> SUFFICES ASSUME NEW i \in DOMAIN f.strings, f.strings[i].size > 0
               PROVE  v[offset + (SizeBefore(f.strings, i) + 1)]
                          = <<f.strings[i].kind, f.strings[i].of, 0>>
    BY DEF StringsAt
  <2>1. PICK j : j = SizeBefore(f.strings, i) + 1 OBVIOUS
  <2>2. j \in 1..Len(p) /\ p[j] = <<f.strings[i].kind, f.strings[i].of, 0>> BY <1>2, <2>1
  <2>3. v[offset + j] = p[j] BY <1>4, <2>2 DEF Inside
  <2> QED BY <2>1, <2>2, <2>3
<1> QED BY <1>2, <1>3, <1>4

(* Written() puts every part where the offsets of the file say it is.      *)
LEMMA FileLaidOut ==
    ASSUME NEW f, FileTyped(f)
    PROVE  /\ LaidOut(Written(f), f)
           /\ DataStart(f) \in Nat /\ StringPrivateOffset(f) \in Nat
           /\ NumberPrivateOffset(f) \in Nat /\ StringsOffset(f) \in Nat
<1>0. HeaderSize \in Nat /\ VariableSize \in Nat BY SizesAssumption
<1>1. PICK p1 : p1 = Bytes("header", "", HeaderSize) OBVIOUS
<1>2. PICK p2 : p2 = Bytes("code", "", f.text) OBVIOUS
<1>3. PICK p3 : p3 = FlattenSeq([i \in DOMAIN f.externs |->
                                    Bytes("extern", f.externs[i].name, VariableSize)])
  OBVIOUS
<1>4. PICK p4 : p4 = FlattenSeq([i \in DOMAIN f.stringPrivate |->
                                    Bytes("string", f.stringPrivate[i].name, VariableSize)])
  OBVIOUS
<1>5. PICK p5 : p5 = FlattenSeq([i \in DOMAIN f.numberPrivate |->
                                    Bytes("number", f.numberPrivate[i], 8)])
  OBVIOUS
<1>6. PICK p6 : p6 = FlattenSeq([i \in DOMAIN f.boolPrivate |->
                                    Bytes("bool", f.boolPrivate[i], 1)])
  OBVIOUS
<1>7. PICK p7 : p7 = FlattenSeq([i \in DOMAIN f.strings |->
                                    Bytes(f.strings[i].kind, f.strings[i].of, f.strings[i].size)])
  OBVIOUS
<1>8. PICK p8 : p8 = Bytes("padding", "", (4 - (AfterStringsOffset(f) % 4)) % 4) OBVIOUS
<1>9. PICK p9 : p9 = Bytes("magic", "", 4) OBVIOUS
<1>10. PICK w : w = Written(f) OBVIOUS
<1>11. w = p1 \o p2 \o p3 \o p4 \o p5 \o p6 \o p7 \o p8 \o p9
  BY <1>1, <1>2, <1>3, <1>4, <1>5, <1>6, <1>7, <1>8, <1>9, <1>10, Zenon DEF Written
<1>12. "" \in Objects /\ f.text \in Nat BY DEF Objects, FileTyped
<1>13. /\ BytesOf(p1, "header", "", HeaderSize) /\ BytesOf(p2, "code", "", f.text)
       /\ BytesOf(p9, "magic", "", 4)
  <2>1. "header" \in Kinds /\ "code" \in Kinds /\ "magic" \in Kinds /\ 4 \in Nat BY DEF Kinds
  <2> QED BY <1>0, <1>1, <1>2, <1>9, <1>12, <2>1, BytesPlaces
<1>14. /\ p1 \in Seq(Byte) /\ p2 \in Seq(Byte) /\ p9 \in Seq(Byte)
       /\ Len(p1) = HeaderSize /\ Len(p2) = f.text /\ Len(p9) = 4
  BY <1>13 DEF BytesOf
<1>15. NamesOf(Names(f.externs), f.externs) /\ NamesOf(Names(f.stringPrivate), f.stringPrivate)
  <2>1. f.externs \in Seq(Extern) /\ \A e \in Extern : e.name \in VariableNames
    BY DEF FileTyped, Extern
  <2>2. f.stringPrivate \in Seq(Private) /\ \A e \in Private : e.name \in VariableNames
    BY DEF FileTyped, Private
  <2> QED BY <2>1, <2>2, NamesTyped
<1>16. /\ p3 \in Seq(Byte) /\ Len(p3) = Len(f.externs) * VariableSize
       /\ \A v, offset : Inside(v, offset, p3)
                            => EntriesAt(v, offset, "extern", Names(f.externs), VariableSize)
  <2>1. PICK parts : parts = [i \in DOMAIN Names(f.externs) |->
                                 Bytes("extern", Names(f.externs)[i], VariableSize)]
    OBVIOUS
  <2>2. p3 = FlattenSeq(parts)
    <3>1. [i \in DOMAIN f.externs |-> Bytes("extern", f.externs[i].name, VariableSize)] = parts
      BY <1>15, <2>1 DEF Names, NamesOf
    <3> QED BY <1>3, <3>1
  <2>3. "extern" \in Kinds BY DEF Kinds
  <2>4. Names(f.externs) \in Seq(Objects) /\ Len(Names(f.externs)) = Len(f.externs)
    BY <1>15 DEF NamesOf
  <2>5. TableIn(p3, "extern", Names(f.externs), VariableSize)
    BY <1>0, <2>1, <2>2, <2>3, <2>4, EntriesInside
  <2> QED BY <2>4, <2>5 DEF TableIn
<1>17. /\ p4 \in Seq(Byte) /\ Len(p4) = Len(f.stringPrivate) * VariableSize
       /\ \A v, offset : Inside(v, offset, p4)
                            => EntriesAt(v, offset, "string", Names(f.stringPrivate), VariableSize)
  <2>1. PICK parts : parts = [i \in DOMAIN Names(f.stringPrivate) |->
                                 Bytes("string", Names(f.stringPrivate)[i], VariableSize)]
    OBVIOUS
  <2>2. p4 = FlattenSeq(parts)
    <3>1. [i \in DOMAIN f.stringPrivate |->
              Bytes("string", f.stringPrivate[i].name, VariableSize)] = parts
      BY <1>15, <2>1 DEF Names, NamesOf
    <3> QED BY <1>4, <3>1
  <2>3. "string" \in Kinds BY DEF Kinds
  <2>4. /\ Names(f.stringPrivate) \in Seq(Objects)
        /\ Len(Names(f.stringPrivate)) = Len(f.stringPrivate)
    BY <1>15 DEF NamesOf
  <2>5. TableIn(p4, "string", Names(f.stringPrivate), VariableSize)
    BY <1>0, <2>1, <2>2, <2>3, <2>4, EntriesInside
  <2> QED BY <2>4, <2>5 DEF TableIn
<1>18. /\ p5 \in Seq(Byte) /\ Len(p5) = Len(f.numberPrivate) * 8
       /\ \A v, offset : Inside(v, offset, p5) => EntriesAt(v, offset, "number", f.numberPrivate, 8)
       /\ p6 \in Seq(Byte) /\ Len(p6) = Len(f.boolPrivate) * 1
       /\ Len(f.numberPrivate) \in Nat /\ Len(f.boolPrivate) \in Nat
  <2>1. PICK numbers : numbers = [i \in DOMAIN f.numberPrivate |->
                                     Bytes("number", f.numberPrivate[i], 8)]
    OBVIOUS
  <2>2. PICK bools : bools = [i \in DOMAIN f.boolPrivate |-> Bytes("bool", f.boolPrivate[i], 1)]
    OBVIOUS
  <2>3. f.numberPrivate \in Seq(Objects) /\ f.boolPrivate \in Seq(Objects) BY DEF FileTyped
  <2>4. p5 = FlattenSeq(numbers) /\ p6 = FlattenSeq(bools) BY <1>5, <1>6, <2>1, <2>2
  <2>5. /\ p5 \in Seq(Byte) /\ Len(p5) = Len(f.numberPrivate) * 8
        /\ \A v, offset :
              Inside(v, offset, p5) => EntriesAt(v, offset, "number", f.numberPrivate, 8)
    <3>1. TableIn(p5, "number", f.numberPrivate, 8)
      <4>1. "number" \in Kinds /\ 8 \in Nat BY DEF Kinds
      <4> QED BY <2>1, <2>3, <2>4, <4>1, EntriesInside
    <3> QED BY <3>1 DEF TableIn
  <2>6. p6 \in Seq(Byte) /\ Len(p6) = Len(f.boolPrivate) * 1
    <3>1. TableIn(p6, "bool", f.boolPrivate, 1)
      <4>1. "bool" \in Kinds /\ 1 \in Nat BY DEF Kinds
      <4> QED BY <2>2, <2>3, <2>4, <4>1, EntriesInside
    <3> QED BY <3>1 DEF TableIn
  <2> QED BY <2>3, <2>5, <2>6, LenProperties
<1>19. /\ p7 \in Seq(Byte) /\ Len(p7) = StringsSize(f) /\ StringsSize(f) \in Nat
       /\ \A v, offset : Inside(v, offset, p7) => StringsAt(v, offset, f.strings)
  BY <1>7, StringsInside DEF FileTyped
<1>20. AfterStringsOffset(f) \in Nat
       /\ AfterStringsOffset(f) = Len(p1) + Len(p2) + Len(p3) + Len(p4) + Len(p5) + Len(p6)
                                      + Len(p7)
       /\ DataStart(f) = Len(p1) + Len(p2) /\ DataStart(f) \in Nat
       /\ StringPrivateOffset(f) = Len(p1) + Len(p2) + Len(p3) /\ StringPrivateOffset(f) \in Nat
       /\ NumberPrivateOffset(f) = Len(p1) + Len(p2) + Len(p3) + Len(p4)
       /\ NumberPrivateOffset(f) \in Nat
       /\ StringsOffset(f) = Len(p1) + Len(p2) + Len(p3) + Len(p4) + Len(p5) + Len(p6)
       /\ StringsOffset(f) \in Nat
  <2>1. /\ Len(p1) \in Nat /\ Len(p2) \in Nat /\ Len(p3) \in Nat /\ Len(p4) \in Nat
        /\ Len(p5) \in Nat /\ Len(p6) \in Nat /\ Len(p7) \in Nat
    BY <1>14, <1>16, <1>17, <1>18, <1>19, LenProperties
  <2>2. DataStart(f) = Len(p1) + Len(p2) BY <1>14 DEF DataStart
  <2>3. StringPrivateOffset(f) = DataStart(f) + Len(p3) BY <1>16 DEF StringPrivateOffset
  <2>4. NumberPrivateOffset(f) = StringPrivateOffset(f) + Len(p4)
    BY <1>17 DEF NumberPrivateOffset
  <2>5. BoolPrivateOffset(f) = NumberPrivateOffset(f) + Len(p5) BY <1>18 DEF BoolPrivateOffset
  <2>6. StringsOffset(f) = BoolPrivateOffset(f) + Len(p6) BY <1>18 DEF StringsOffset
  <2>7. AfterStringsOffset(f) = StringsOffset(f) + Len(p7) BY <1>19 DEF AfterStringsOffset
  <2> QED BY <2>1, <2>2, <2>3, <2>4, <2>5, <2>6, <2>7
<1>21. PICK a \in Nat : a = AfterStringsOffset(f) BY <1>20
<1>22. PICK pad \in Nat : pad = (4 - (a % 4)) % 4 OBVIOUS
<1>27. p8 \in Seq(Byte) /\ Len(p8) = pad
  <2>1. "padding" \in Kinds BY DEF Kinds
  <2>2. p8 = Bytes("padding", "", pad) BY <1>8, <1>21, <1>22
  <2>3. BytesOf(p8, "padding", "", pad) BY <1>12, <2>1, <2>2, BytesPlaces
  <2> QED BY <2>3 DEF BytesOf
<1>23. Nine(w, p1, p2, p3, p4, p5, p6, p7, p8, p9)
  <2>1. /\ p1 \in Seq(Byte) /\ p2 \in Seq(Byte) /\ p3 \in Seq(Byte) /\ p4 \in Seq(Byte)
        /\ p5 \in Seq(Byte) /\ p6 \in Seq(Byte) /\ p7 \in Seq(Byte) /\ p8 \in Seq(Byte)
        /\ p9 \in Seq(Byte)
    BY <1>14, <1>16, <1>17, <1>18, <1>19, <1>27
  <2> QED BY <1>11, <2>1, NineParts
<1>24. Len(w) = ((AfterStringsOffset(f) + 3) \div 4) * 4 + 4
  <2>1. Len(w) = a + pad + 4 BY <1>14, <1>20, <1>21, <1>27, <1>23 DEF Nine
  <2>2. a + pad = ((a + 3) \div 4) * 4 BY <1>22
  <2> QED BY <1>21, <2>1, <2>2
<1>25. CodeAt(w, f)
  <2> SUFFICES ASSUME NEW k \in 0..(f.text - 1)
               PROVE  w[HeaderSize + (k + 1)] = <<"code", "", k>>
    BY DEF CodeAt
  <2>1. k + 1 \in 1..Len(p2) /\ p2[k + 1] = <<"code", "", k>> BY <1>13, <1>14 DEF BytesOf
  <2> QED BY <1>14, <1>23, <2>1 DEF Inside, Nine
<1>26. /\ EntriesAt(w, DataStart(f), "extern", Names(f.externs), VariableSize)
       /\ EntriesAt(w, StringPrivateOffset(f), "string", Names(f.stringPrivate), VariableSize)
       /\ EntriesAt(w, NumberPrivateOffset(f), "number", f.numberPrivate, 8)
       /\ StringsAt(w, StringsOffset(f), f.strings)
  BY <1>16, <1>17, <1>18, <1>19, <1>20, <1>23 DEF Nine
<1> QED BY <1>10, <1>20, <1>24, <1>25, <1>26 DEF LaidOut

(***************************************************************************)
(* What is true of a file at every step of its making.  A long name or     *)
(* text is in the strings, at the offset its entry has; the texts of the   *)
(* constants differ, so that there is a name for each; what the code       *)
(* refers to is in a table; a label is not after the end of the code.      *)
(***************************************************************************)
Held(strings, kind, of, at) ==
    \E k \in DOMAIN strings : /\ strings[k].kind = kind /\ strings[k].of = of
                              /\ strings[k].size > 0 /\ SizeBefore(strings, k) = at

ExternHeld(f, e) == NameSize[e.name] > NameField => Held(f.strings, "name", e.name, e.nameAt)

PrivateHeld(f, e) ==
    /\ e.nameSize > NameField => Held(f.strings, "name", e.name, e.nameAt)
    /\ e.dataSize > DataField => Held(f.strings, "text", e.text, e.dataAt)

TablesHeld(f) ==
    /\ \A i \in DOMAIN f.externs : ExternHeld(f, f.externs[i])
    /\ \A i \in DOMAIN f.stringPrivate : PrivateHeld(f, f.stringPrivate[i])

ConstantsKnown(f) ==
    \A i \in ConstantsOf(f) :
        /\ f.stringPrivate[i].text \in Texts
        /\ f.stringPrivate[i].dataSize = TextSize[f.stringPrivate[i].text]
        /\ \A j \in ConstantsOf(f) : f.stringPrivate[i].text = f.stringPrivate[j].text => i = j

Refers(f, r) ==
    /\ r.offset = r.position + 4 + r.immediate
    /\ r.type = "CONSTANT_32BITS" /\ r.name \in Numbers
          => \E i \in DOMAIN f.numberPrivate : f.numberPrivate[i] = r.name
    /\ r.type = "CONSTANT_32BITS" /\ r.name \notin Numbers
          => \E i \in DOMAIN f.stringPrivate : f.stringPrivate[i].name = r.name
    /\ r.type \notin {"CONSTANT_32BITS", "LABEL_32BITS"}
          => \E i \in DOMAIN f.externs : f.externs[i].name = r.name

RefersWell(f) == \A n \in DOMAIN f.relocations : Refers(f, f.relocations[n])

LabelsIn(f) == \A l \in DOMAIN f.labels : f.labels[l] \in Nat /\ f.labels[l] <= f.text

Sound(f) ==
    /\ DOMAIN f = Fields
    /\ FileTyped(f) /\ TablesHeld(f) /\ ConstantsKnown(f) /\ RefersWell(f) /\ LabelsIn(f)

(* At the end of the code, the labels are before it and are all there.     *)
LabelsPlaced(f) ==
    /\ \A l \in DOMAIN f.labels : f.labels[l] < f.text
    /\ \A n \in DOMAIN f.relocations :
           f.relocations[n].type = "LABEL_32BITS" => f.relocations[n].name \in DOMAIN f.labels

FileInv ==
    /\ left \subseteq DOMAIN Declarations
    /\ Sound(file)
    /\ phase \in {"variables", "constants", "code", "generated", "saved", "loaded"}
    /\ phase \in {"generated", "saved", "loaded"} => LabelsPlaced(file)
    /\ phase \in {"variables", "constants", "code", "generated"} => image = NoImage
    /\ phase = "saved" => image = Saved(file)
    /\ phase = "loaded" => image = Loaded(Saved(file))

-----------------------------------------------------------------------------
(* An entry more.                                                          *)
Added(t, s, e, S) ==
    /\ t \in Seq(S) /\ DOMAIN s \subseteq DOMAIN t
    /\ Len(s) \in Nat /\ DOMAIN s = 1..Len(s) /\ Len(s) + 1 \in DOMAIN t
    /\ t[Len(s) + 1] = e
    /\ \A i \in DOMAIN s : t[i] = s[i]
    /\ \A i \in DOMAIN t : i \in DOMAIN s \/ i = Len(s) + 1

(* An entry appended to a table leaves the others where they were.         *)
LEMMA EntryAdded ==
    ASSUME NEW S, NEW s \in Seq(S), NEW e \in S, NEW t, t = Append(s, e)
    PROVE  Added(t, s, e, S)
<1>1. PICK n \in Nat : n = Len(s) /\ DOMAIN s = 1..n BY LenProperties
<1>2. t \in Seq(S) /\ Len(t) = n + 1 /\ t[n + 1] = e /\ \A i \in 1..n : t[i] = s[i]
  BY <1>1, AppendProperties
<1>3. DOMAIN t = 1..(n + 1) BY <1>2, LenProperties
<1> QED BY <1>1, <1>2, <1>3 DEF Added

(* A string appended is at the end of the ones held, which do not move.    *)
LEMMA StringAdded ==
    ASSUME NEW strings \in Seq(LongString), NEW e \in LongString, NEW t, t = Append(strings, e)
    PROVE  /\ \A kind, of, at : Held(strings, kind, of, at) => Held(t, kind, of, at)
           /\ e.size > 0 => Held(t, e.kind, e.of, SizeBefore(strings, Len(strings) + 1))
<1>1. PICK n \in Nat : n = Len(strings) /\ DOMAIN strings = 1..n BY LenProperties
<1>2. Added(t, strings, e, LongString) BY EntryAdded
<1>3. ASSUME NEW k \in 1..(n + 1) PROVE SizeBefore(t, k) = SizeBefore(strings, k)
  <2>1. ASSUME NEW i \in 1..(k - 1) PROVE t[i].size = strings[i].size
    <3>1. i \in DOMAIN strings BY <1>1
    <3>2. t[i] = strings[i] BY <1>2, <3>1 DEF Added
    <3> QED BY <3>2
  <2>2. [i \in 1..(k - 1) |-> t[i].size] = [i \in 1..(k - 1) |-> strings[i].size]
    BY <2>1, Zenon
  <2> QED BY <2>2 DEF SizeBefore
<1>4. ASSUME NEW kind, NEW of, NEW at, Held(strings, kind, of, at) PROVE Held(t, kind, of, at)
  <2>1. PICK k \in 1..n : /\ strings[k].kind = kind /\ strings[k].of = of
                          /\ strings[k].size > 0 /\ SizeBefore(strings, k) = at
    BY <1>1, <1>4 DEF Held
  <2>2. k \in DOMAIN t /\ t[k] = strings[k] BY <1>1, <1>2 DEF Added
  <2>3. SizeBefore(t, k) = at
    <3>1. k \in 1..(n + 1) OBVIOUS
    <3> QED BY <1>3, <2>1, <3>1
  <2> QED BY <2>1, <2>2, <2>3 DEF Held
<1>5. ASSUME e.size > 0 PROVE Held(t, e.kind, e.of, SizeBefore(strings, Len(strings) + 1))
  <2>1. n + 1 \in DOMAIN t /\ t[n + 1] = e BY <1>1, <1>2 DEF Added
  <2>2. n + 1 \in 1..(n + 1) OBVIOUS
  <2>3. SizeBefore(t, n + 1) = SizeBefore(strings, n + 1) BY <1>3, <2>2
  <2> QED BY <1>1, <1>5, <2>1, <2>3 DEF Held
<1> QED BY <1>4, <1>5

(***************************************************************************)
(* The operations, one after the other.                                    *)
(***************************************************************************)
SameTables(f, g) ==
    /\ DOMAIN g = Fields
    /\ g.externs = f.externs /\ g.stringPrivate = f.stringPrivate
    /\ g.numberPrivate = f.numberPrivate /\ g.boolPrivate = f.boolPrivate
    /\ g.labels = f.labels /\ g.relocations = f.relocations /\ g.text = f.text

StringsGrown(f, g) ==
    /\ SameTables(f, g)
    /\ g.strings \in Seq(LongString)
    /\ \A kind, of, at : Held(f.strings, kind, of, at) => Held(g.strings, kind, of, at)

(* A file whose strings only grew.                                         *)
LEMMA SoundGrown ==
    ASSUME NEW f, NEW g, Sound(f), StringsGrown(f, g)
    PROVE  Sound(g)
<1>1. DOMAIN g = Fields /\ FileTyped(g)
  BY DEF Sound, FileTyped, StringsGrown, SameTables
<1>2. TablesHeld(g)
  BY DEF Sound, TablesHeld, ExternHeld, PrivateHeld, StringsGrown, SameTables
<1>3. ConstantsKnown(g) /\ RefersWell(g) /\ LabelsIn(g)
  BY DEF Sound, ConstantsKnown, ConstantsOf, RefersWell, Refers, LabelsIn, StringsGrown, SameTables
<1> QED BY <1>1, <1>2, <1>3 DEF Sound

(* A file of which only the frame changed.                                 *)
LEMMA SoundTemporaries ==
    ASSUME NEW f, NEW g, Sound(f), SameTables(f, g), g.strings = f.strings
    PROVE  Sound(g)
<1>1. StringsGrown(f, g) BY DEF StringsGrown, Sound, FileTyped
<1> QED BY <1>1, SoundGrown

(* The offset of the next string.                                          *)
LEMMA SizeTyped ==
    ASSUME NEW f, Sound(f)
    PROVE  /\ StringsSize(f) \in Nat
           /\ StringsSize(f) = SizeBefore(f.strings, Len(f.strings) + 1)
<1>1. f.strings \in Seq(LongString) BY DEF Sound, FileTyped
<1>2. PICK p : p = FlattenSeq([i \in DOMAIN f.strings |->
                              Bytes(f.strings[i].kind, f.strings[i].of, f.strings[i].size)])
  OBVIOUS
<1> QED BY <1>1, <1>2, StringsInside

(* add_*_variable() with a name or a text too long for its field.          *)
LEMMA StringAppended ==
    ASSUME NEW f, Sound(f), NEW e \in LongString,
           NEW g, g = [f EXCEPT !.strings = Append(@, e)]
    PROVE  /\ StringsGrown(f, g) /\ Sound(g)
           /\ e.size > 0 => Held(g.strings, e.kind, e.of, StringsSize(f))
<1>1. DOMAIN f = Fields /\ f.strings \in Seq(LongString) BY DEF Sound, FileTyped
<1>2. SameTables(f, g) /\ g.strings = Append(f.strings, e) BY <1>1 DEF SameTables, Fields
<1>3. g.strings \in Seq(LongString)
  <2>1. Added(g.strings, f.strings, e, LongString) BY <1>1, <1>2, EntryAdded
  <2> QED BY <2>1 DEF Added
<1>4. /\ \A kind, of, at : Held(f.strings, kind, of, at) => Held(g.strings, kind, of, at)
      /\ e.size > 0 => Held(g.strings, e.kind, e.of, SizeBefore(f.strings, Len(f.strings) + 1))
  BY <1>1, <1>2, StringAdded
<1>5. StringsGrown(f, g) BY <1>2, <1>3, <1>4 DEF StringsGrown
<1>6. StringsSize(f) = SizeBefore(f.strings, Len(f.strings) + 1) BY SizeTyped
<1> QED BY <1>4, <1>5, <1>6, SoundGrown

(* The sizes of the names and of the texts are numbers.                    *)
LEMMA SizesKnown ==
    /\ \A n \in VariableNames : NameSize[n] \in Nat
    /\ \A t \in Texts : TextSize[t] \in Nat
    /\ NameField \in Nat /\ DataField = 8
  BY NamesAssumption, SizesAssumption DEF VariableNames

(* with_name and with_text.                                                *)
LEMMA NameAdded ==
    ASSUME NEW f, Sound(f), NEW name \in VariableNames, NEW g, g = WithName(f, name)
    PROVE  /\ StringsGrown(f, g) /\ Sound(g)
           /\ NameSize[name] > NameField => Held(g.strings, "name", name, StringsSize(f))
<1>1. NameSize[name] \in Nat /\ NameField \in Nat BY SizesKnown
<1>2. CASE NameSize[name] <= NameField
  <2>1. g = f BY <1>2 DEF WithName
  <2>2. StringsGrown(f, g) BY <2>1 DEF StringsGrown, SameTables, Sound, FileTyped
  <2> QED BY <1>1, <1>2, <2>1, <2>2
<1>3. CASE ~(NameSize[name] <= NameField)
  <2>1. PICK e : e = [kind |-> "name", of |-> name, size |-> NameSize[name]] OBVIOUS
  <2>2. e \in LongString BY <1>1, <2>1, NamesAreObjects DEF LongString, Kinds
  <2>3. g = [f EXCEPT !.strings = Append(@, e)] BY <1>3, <2>1 DEF WithName
  <2>4. e.kind = "name" /\ e.of = name /\ e.size > 0 BY <1>1, <1>3, <2>1
  <2> QED BY <2>2, <2>3, <2>4, StringAppended
<1> QED BY <1>2, <1>3

(* with_text, after with_name.                                             *)
LEMMA TextAdded ==
    ASSUME NEW f, Sound(f), NEW text \in Texts, NEW g, g = WithText(f, text)
    PROVE  /\ StringsGrown(f, g) /\ Sound(g)
           /\ TextSize[text] > DataField => Held(g.strings, "text", text, StringsSize(f))
<1>1. TextSize[text] \in Nat /\ DataField = 8 BY SizesKnown
<1>2. CASE TextSize[text] <= DataField
  <2>1. g = f BY <1>2 DEF WithText
  <2>2. StringsGrown(f, g) BY <2>1 DEF StringsGrown, SameTables, Sound, FileTyped
  <2> QED BY <1>1, <1>2, <2>1, <2>2
<1>3. CASE ~(TextSize[text] <= DataField)
  <2>1. PICK e : e = [kind |-> "text", of |-> text, size |-> TextSize[text]] OBVIOUS
  <2>2. e \in LongString BY <1>1, <2>1 DEF LongString, Kinds, Objects
  <2>3. g = [f EXCEPT !.strings = Append(@, e)] BY <1>3, <2>1 DEF WithText
  <2>4. e.kind = "text" /\ e.of = text /\ e.size > 0 BY <1>1, <1>3, <2>1
  <2> QED BY <2>2, <2>3, <2>4, StringAppended
<1> QED BY <1>2, <1>3

(* An extern variable, its name held when it is long.                      *)
LEMMA ExternAppended ==
    ASSUME NEW f, Sound(f), NEW e \in Extern, ExternHeld(f, e),
           NEW g, g = [f EXCEPT !.externs = Append(@, e)]
    PROVE  Sound(g)
<1>1. DOMAIN f = Fields /\ FileTyped(f) BY DEF Sound
<1>2. /\ DOMAIN g = Fields /\ g.externs = Append(f.externs, e)
      /\ g.stringPrivate = f.stringPrivate /\ g.numberPrivate = f.numberPrivate
      /\ g.boolPrivate = f.boolPrivate /\ g.strings = f.strings /\ g.labels = f.labels
      /\ g.relocations = f.relocations /\ g.text = f.text
  BY <1>1 DEF Fields
<1>3. Added(g.externs, f.externs, e, Extern) BY <1>1, <1>2, EntryAdded DEF FileTyped
<1>4. FileTyped(g) BY <1>1, <1>2, <1>3 DEF FileTyped, Added
<1>5. TablesHeld(g)
  <2>1. \A i \in DOMAIN g.externs : ExternHeld(g, g.externs[i])
    BY <1>2, <1>3 DEF Sound, TablesHeld, ExternHeld, Added
  <2>2. \A i \in DOMAIN g.stringPrivate : PrivateHeld(g, g.stringPrivate[i])
    BY <1>2 DEF Sound, TablesHeld, PrivateHeld
  <2> QED BY <2>1, <2>2 DEF TablesHeld
<1>6. ConstantsKnown(g) /\ LabelsIn(g)
  BY <1>2 DEF Sound, ConstantsKnown, ConstantsOf, LabelsIn
<1>7. RefersWell(g)
  <2>1. \A name : (\E i \in DOMAIN f.externs : f.externs[i].name = name)
                     => \E i \in DOMAIN g.externs : g.externs[i].name = name
    BY <1>3 DEF Added
  <2>2. ASSUME NEW r, Refers(f, r) PROVE Refers(g, r) BY <1>2, <2>1, <2>2 DEF Refers
  <2> QED BY <1>2, <2>2 DEF Sound, RefersWell
<1> QED BY <1>2, <1>4, <1>5, <1>6, <1>7 DEF Sound

(* A constant is known by its text; another private variable is none.      *)
NewConstant(f, e) ==
    (\E n \in DOMAIN ConstantNames : e.name = ConstantNames[n])
        => /\ e.text \in Texts /\ e.dataSize = TextSize[e.text]
           /\ \A i \in ConstantsOf(f) : f.stringPrivate[i].text # e.text

(* A private variable: the text of a constant must be a new one.           *)
LEMMA PrivateAppended ==
    ASSUME NEW f, Sound(f), NEW e \in Private, PrivateHeld(f, e), NewConstant(f, e),
           NEW g, g = [f EXCEPT !.stringPrivate = Append(@, e)]
    PROVE  Sound(g)
<1>1. DOMAIN f = Fields /\ FileTyped(f) BY DEF Sound
<1>2. /\ DOMAIN g = Fields /\ g.stringPrivate = Append(f.stringPrivate, e)
      /\ g.externs = f.externs /\ g.numberPrivate = f.numberPrivate
      /\ g.boolPrivate = f.boolPrivate /\ g.strings = f.strings /\ g.labels = f.labels
      /\ g.relocations = f.relocations /\ g.text = f.text
  BY <1>1 DEF Fields
<1>3. Added(g.stringPrivate, f.stringPrivate, e, Private)
  BY <1>1, <1>2, EntryAdded DEF FileTyped
<1>4. FileTyped(g) BY <1>1, <1>2, <1>3 DEF FileTyped, Added
<1>5. TablesHeld(g)
  <2>1. \A i \in DOMAIN g.stringPrivate : PrivateHeld(g, g.stringPrivate[i])
    BY <1>2, <1>3 DEF Sound, TablesHeld, PrivateHeld, Added
  <2>2. \A i \in DOMAIN g.externs : ExternHeld(g, g.externs[i])
    BY <1>2 DEF Sound, TablesHeld, ExternHeld
  <2> QED BY <2>1, <2>2 DEF TablesHeld
<1>6. ConstantsKnown(g)
  <2>1. PICK m : m = Len(f.stringPrivate) + 1 OBVIOUS
  <2>2. g.stringPrivate[m] = e /\ m \notin DOMAIN f.stringPrivate
    BY <1>3, <2>1 DEF Added
  <2>3. \A i \in ConstantsOf(g) :
            \/ i = m /\ \E n \in DOMAIN ConstantNames : e.name = ConstantNames[n]
            \/ i \in ConstantsOf(f) /\ g.stringPrivate[i] = f.stringPrivate[i]
    BY <1>3, <2>1, <2>2 DEF ConstantsOf, Added
  <2>4. \A i \in ConstantsOf(f) :
            /\ f.stringPrivate[i].text \in Texts
            /\ f.stringPrivate[i].dataSize = TextSize[f.stringPrivate[i].text]
            /\ \A j \in ConstantsOf(f) : f.stringPrivate[i].text = f.stringPrivate[j].text => i = j
    BY DEF Sound, ConstantsKnown
  <2>5. \A i \in ConstantsOf(g) : /\ g.stringPrivate[i].text \in Texts
                                  /\ g.stringPrivate[i].dataSize = TextSize[g.stringPrivate[i].text]
    BY <2>2, <2>3, <2>4 DEF NewConstant
  <2>6. ASSUME NEW i \in ConstantsOf(g), NEW j \in ConstantsOf(g),
               g.stringPrivate[i].text = g.stringPrivate[j].text
        PROVE  i = j
    <3>1. CASE i = m /\ j = m BY <3>1
    <3>2. CASE i # m /\ j # m
      <4>1. /\ i \in ConstantsOf(f) /\ g.stringPrivate[i] = f.stringPrivate[i]
            /\ j \in ConstantsOf(f) /\ g.stringPrivate[j] = f.stringPrivate[j]
        BY <2>3, <3>2
      <4> QED BY <2>4, <2>6, <4>1
    <3>3. CASE i = m /\ j # m
      <4>1. j \in ConstantsOf(f) /\ g.stringPrivate[j] = f.stringPrivate[j] BY <2>3, <3>3
      <4>2. \E n \in DOMAIN ConstantNames : e.name = ConstantNames[n]
        <5>1. i \notin ConstantsOf(f) BY <2>2, <3>3 DEF ConstantsOf
        <5> QED BY <2>3, <5>1
      <4>3. f.stringPrivate[j].text # e.text BY <4>1, <4>2 DEF NewConstant
      <4> QED BY <2>2, <2>6, <3>3, <4>1, <4>3
    <3>4. CASE i # m /\ j = m
      <4>1. i \in ConstantsOf(f) /\ g.stringPrivate[i] = f.stringPrivate[i] BY <2>3, <3>4
      <4>2. \E n \in DOMAIN ConstantNames : e.name = ConstantNames[n]
        <5>1. j \notin ConstantsOf(f) BY <2>2, <3>4 DEF ConstantsOf
        <5> QED BY <2>3, <5>1
      <4>3. f.stringPrivate[i].text # e.text BY <4>1, <4>2 DEF NewConstant
      <4> QED BY <2>2, <2>6, <3>4, <4>1, <4>3
    <3> QED BY <3>1, <3>2, <3>3, <3>4
  <2> QED BY <2>5, <2>6 DEF ConstantsKnown
<1>7. LabelsIn(g) BY <1>2 DEF Sound, LabelsIn
<1>8. RefersWell(g)
  <2>1. \A name : (\E i \in DOMAIN f.stringPrivate : f.stringPrivate[i].name = name)
                     => \E i \in DOMAIN g.stringPrivate : g.stringPrivate[i].name = name
    BY <1>3 DEF Added
  <2>2. ASSUME NEW r, Refers(f, r) PROVE Refers(g, r) BY <1>2, <2>1, <2>2 DEF Refers
  <2> QED BY <1>2, <2>2 DEF Sound, RefersWell
<1> QED BY <1>2, <1>4, <1>5, <1>6, <1>7, <1>8 DEF Sound

(* A number constant.                                                      *)
LEMMA NumberAppended ==
    ASSUME NEW f, Sound(f), NEW x \in Objects
    PROVE  /\ Sound([f EXCEPT !.numberPrivate = Append(@, x)])
           /\ Sound([f EXCEPT !.boolPrivate = Append(@, x)])
<1>1. DOMAIN f = Fields /\ FileTyped(f) BY DEF Sound
<1>a. PICK g : g = [f EXCEPT !.numberPrivate = Append(@, x)] OBVIOUS
<1>b. PICK h : h = [f EXCEPT !.boolPrivate = Append(@, x)] OBVIOUS
<1>2. /\ DOMAIN g = Fields /\ g.numberPrivate = Append(f.numberPrivate, x)
      /\ g.externs = f.externs /\ g.stringPrivate = f.stringPrivate
      /\ g.boolPrivate = f.boolPrivate /\ g.strings = f.strings /\ g.labels = f.labels
      /\ g.relocations = f.relocations /\ g.text = f.text
  BY <1>1, <1>a DEF Fields
<1>3. /\ DOMAIN h = Fields /\ h.boolPrivate = Append(f.boolPrivate, x)
      /\ h.externs = f.externs /\ h.stringPrivate = f.stringPrivate
      /\ h.numberPrivate = f.numberPrivate /\ h.strings = f.strings /\ h.labels = f.labels
      /\ h.relocations = f.relocations /\ h.text = f.text
  BY <1>1, <1>b DEF Fields
<1>4. Added(g.numberPrivate, f.numberPrivate, x, Objects) BY <1>1, <1>2, EntryAdded DEF FileTyped
<1>5. Added(h.boolPrivate, f.boolPrivate, x, Objects) BY <1>1, <1>3, EntryAdded DEF FileTyped
<1>6. FileTyped(g) /\ FileTyped(h) BY <1>1, <1>2, <1>3, <1>4, <1>5 DEF FileTyped, Added
<1>7. TablesHeld(g) /\ TablesHeld(h)
  BY <1>2, <1>3 DEF Sound, TablesHeld, ExternHeld, PrivateHeld
<1>8. ConstantsKnown(g) /\ LabelsIn(g) /\ ConstantsKnown(h) /\ LabelsIn(h)
  BY <1>2, <1>3 DEF Sound, ConstantsKnown, ConstantsOf, LabelsIn
<1>9. RefersWell(g)
  <2>1. \A name : (\E i \in DOMAIN f.numberPrivate : f.numberPrivate[i] = name)
                     => \E i \in DOMAIN g.numberPrivate : g.numberPrivate[i] = name
    BY <1>4 DEF Added
  <2>2. ASSUME NEW r, Refers(f, r) PROVE Refers(g, r) BY <1>2, <2>1, <2>2 DEF Refers
  <2> QED BY <1>2, <2>2 DEF Sound, RefersWell
<1>10. RefersWell(h) BY <1>3 DEF Sound, RefersWell, Refers
<1> QED BY <1>a, <1>b, <1>2, <1>3, <1>6, <1>7, <1>8, <1>9, <1>10 DEF Sound

(* The code grows: the labels placed stay before its end.                  *)
LEMMA CodeAdded ==
    ASSUME NEW f, Sound(f), NEW size \in Nat, NEW g, g = AddText(f, size)
    PROVE  Sound(g) /\ DOMAIN g = Fields /\ g.text = f.text + size /\ g.labels = f.labels
           /\ g.relocations = f.relocations /\ g.externs = f.externs
           /\ g.stringPrivate = f.stringPrivate /\ g.numberPrivate = f.numberPrivate
<1>1. DOMAIN f = Fields /\ FileTyped(f) BY DEF Sound
<1>2. /\ DOMAIN g = Fields /\ g.text = f.text + size
      /\ g.externs = f.externs /\ g.stringPrivate = f.stringPrivate
      /\ g.boolPrivate = f.boolPrivate /\ g.strings = f.strings /\ g.labels = f.labels
      /\ g.relocations = f.relocations /\ g.numberPrivate = f.numberPrivate
  BY <1>1 DEF Fields, AddText
<1>3. FileTyped(g) BY <1>1, <1>2 DEF FileTyped
<1>4. TablesHeld(g) BY <1>2 DEF Sound, TablesHeld, ExternHeld, PrivateHeld
<1>5. ConstantsKnown(g) BY <1>2 DEF Sound, ConstantsKnown, ConstantsOf
<1>6. RefersWell(g) BY <1>2 DEF Sound, RefersWell, Refers
<1>7. LabelsIn(g)
  <2>1. f.text \in Nat BY <1>1 DEF FileTyped
  <2> QED BY <1>2, <2>1 DEF Sound, LabelsIn
<1> QED BY <1>2, <1>3, <1>4, <1>5, <1>6, <1>7 DEF Sound

(* A relocation to an object of the tables.                                *)
LEMMA ReferenceAppended ==
    ASSUME NEW f, Sound(f), NEW r \in Reference, Refers(f, r),
           NEW g, g = [f EXCEPT !.relocations = Append(@, r)]
    PROVE  Sound(g)
<1>1. DOMAIN f = Fields /\ FileTyped(f) BY DEF Sound
<1>2. /\ DOMAIN g = Fields /\ g.relocations = Append(f.relocations, r)
      /\ g.externs = f.externs /\ g.stringPrivate = f.stringPrivate
      /\ g.boolPrivate = f.boolPrivate /\ g.strings = f.strings /\ g.labels = f.labels
      /\ g.text = f.text /\ g.numberPrivate = f.numberPrivate
  BY <1>1 DEF Fields
<1>3. Added(g.relocations, f.relocations, r, Reference) BY <1>1, <1>2, EntryAdded DEF FileTyped
<1>4. FileTyped(g) BY <1>1, <1>2, <1>3 DEF FileTyped, Added
<1>5. TablesHeld(g) BY <1>2 DEF Sound, TablesHeld, ExternHeld, PrivateHeld
<1>6. ConstantsKnown(g) /\ LabelsIn(g)
  BY <1>2 DEF Sound, ConstantsKnown, ConstantsOf, LabelsIn
<1>7. RefersWell(g)
  <2>1. \A q : Refers(f, q) => Refers(g, q) BY <1>2 DEF Refers
  <2>2. \A n \in DOMAIN f.relocations : Refers(f, f.relocations[n]) BY DEF Sound, RefersWell
  <2> QED BY <1>3, <2>1, <2>2 DEF RefersWell, Added
<1> QED BY <1>2, <1>4, <1>5, <1>6, <1>7 DEF Sound

(* A label placed at the end of the code so far.                           *)
LEMMA LabelAdded ==
    ASSUME NEW f, Sound(f), NEW label, NEW g, g = AddLabel(f, label)
    PROVE  Sound(g)
<1>1. DOMAIN f = Fields /\ FileTyped(f) BY DEF Sound
<1>2. /\ DOMAIN g = Fields
      /\ g.labels = [l \in DOMAIN f.labels \cup {label} |->
                        IF l \in DOMAIN f.labels THEN f.labels[l] ELSE f.text]
      /\ g.externs = f.externs /\ g.stringPrivate = f.stringPrivate
      /\ g.boolPrivate = f.boolPrivate /\ g.strings = f.strings
      /\ g.relocations = f.relocations
      /\ g.text = f.text /\ g.numberPrivate = f.numberPrivate
  BY <1>1 DEF Fields, AddLabel
<1>3. FileTyped(g) BY <1>1, <1>2 DEF FileTyped
<1>4. TablesHeld(g) BY <1>2 DEF Sound, TablesHeld, ExternHeld, PrivateHeld
<1>5. ConstantsKnown(g) BY <1>2 DEF Sound, ConstantsKnown, ConstantsOf
<1>6. RefersWell(g) BY <1>2 DEF Sound, RefersWell, Refers
<1>7. LabelsIn(g)
  <2>1. f.text \in Nat BY <1>1 DEF FileTyped
  <2>2. \A l \in DOMAIN f.labels : f.labels[l] \in Nat /\ f.labels[l] <= f.text
    BY DEF Sound, LabelsIn
  <2> QED BY <1>2, <2>1, <2>2 DEF LabelsIn
<1> QED BY <1>2, <1>3, <1>4, <1>5, <1>6, <1>7 DEF Sound

(***************************************************************************)
(* The handlers.                                                           *)
(***************************************************************************)
(* add_extern_variable().                                                  *)
LEMMA ExternAdded ==
    ASSUME NEW f, Sound(f), NEW i \in DOMAIN Declarations
    PROVE  Sound(AddExternVariable(f, Declarations[i]))
<1>1. PICK name : name = Declarations[i].name OBVIOUS
<1>2. name \in VariableNames BY <1>1 DEF VariableNames
<1>3. PICK h : h = WithName(f, name) OBVIOUS
<1>4. /\ StringsGrown(f, h) /\ Sound(h)
      /\ NameSize[name] > NameField => Held(h.strings, "name", name, StringsSize(f))
  BY <1>2, <1>3, NameAdded
<1>5. PICK e : e = [name |-> name, nameAt |-> StringsSize(f)] OBVIOUS
<1>6. e \in Extern
  <2>1. StringsSize(f) \in Nat BY SizeTyped
  <2> QED BY <1>2, <1>5, <2>1 DEF Extern
<1>7. ExternHeld(h, e) BY <1>4, <1>5 DEF ExternHeld
<1>8. AddExternVariable(f, Declarations[i]) = [h EXCEPT !.externs = Append(@, e)]
  BY <1>1, <1>3, <1>5 DEF AddExternVariable
<1> QED BY <1>4, <1>6, <1>7, <1>8, ExternAppended

(* add_private_variable().                                                 *)
LEMMA PrivateAdded ==
    ASSUME NEW f, Sound(f), NEW i \in DOMAIN Declarations, Declarations[i].where = "private"
    PROVE  Sound(AddPrivateVariable(f, Declarations[i]))
<1>1. PICK d : d = Declarations[i] OBVIOUS
<1>2. d.name \in VariableNames /\ d.name \in Objects BY <1>1, NamesAreObjects DEF VariableNames
<1>3. d.type \in {"Boolean", "Integer", "Double", "String"} BY <1>1, DeclaredTyped
<1>4. PICK s : s = [kind |-> "name", of |-> d.name, size |-> NameSize[d.name]] OBVIOUS
<1>5. s \in LongString BY <1>2, <1>4, SizesKnown DEF LongString, Kinds
<1>6. PICK h : h = [f EXCEPT !.strings = Append(@, s)] OBVIOUS
<1>7. Sound(h) BY <1>5, <1>6, StringAppended
<1>8. CASE d.type = "Boolean"
  <2>1. AddPrivateVariable(f, d) = [h EXCEPT !.boolPrivate = Append(@, d.name)]
    BY <1>4, <1>6, <1>8 DEF AddPrivateVariable
  <2>2. Sound([h EXCEPT !.boolPrivate = Append(@, d.name)]) BY <1>2, <1>7, NumberAppended
  <2> QED BY <1>1, <2>1, <2>2, Zenon
<1>9. CASE d.type \in {"Integer", "Double"}
  <2>1. AddPrivateVariable(f, d) = [h EXCEPT !.numberPrivate = Append(@, d.name)]
    BY <1>4, <1>6, <1>9 DEF AddPrivateVariable
  <2>2. Sound([h EXCEPT !.numberPrivate = Append(@, d.name)]) BY <1>2, <1>7, NumberAppended
  <2> QED BY <1>1, <2>1, <2>2, Zenon
<1>10. CASE d.type = "String"
  <2>1. PICK e : e = [name |-> d.name, nameAt |-> 0, nameSize |-> 0,
                      text |-> "", dataAt |-> 0, dataSize |-> 0]
    OBVIOUS
  <2>2. AddPrivateVariable(f, d) = [h EXCEPT !.stringPrivate = Append(@, e)]
    BY <1>4, <1>6, <1>10, <2>1 DEF AddPrivateVariable
  <2>3. e \in Private BY <1>2, <2>1 DEF Private
  <2>6. e.nameSize = 0 /\ e.dataSize = 0 BY <2>1
  <2>4. PrivateHeld(h, e) BY <2>6, SizesKnown DEF PrivateHeld
  <2>5. NewConstant(h, e)
    <3>1. \A n \in DOMAIN ConstantNames : d.name # ConstantNames[n] BY <1>1, NamesAssumption
    <3> QED BY <2>1, <3>1 DEF NewConstant
  <2> QED BY <1>1, <1>7, <2>2, <2>3, <2>4, <2>5, PrivateAppended
<1> QED BY <1>3, <1>8, <1>9, <1>10

(* add_constant() of a number: the same number is not kept twice.          *)
LEMMA NumberAdded ==
    ASSUME NEW f, Sound(f), NEW number \in Numbers
    PROVE  Sound(AddConstantNumber(f, number))
<1>1. number \in Objects BY DEF Objects
<1> QED BY <1>1, NumberAppended DEF AddConstantNumber

(* There is a name for every text: the constants have different texts.     *)
LEMMA NameLeft ==
    ASSUME NEW f, Sound(f), NEW text \in Texts,
           ~ \E i \in ConstantsOf(f) : SameText(f.stringPrivate[i], text)
    PROVE  /\ Cardinality(ConstantsOf(f)) + 1 \in DOMAIN ConstantNames
           /\ \A i \in ConstantsOf(f) : f.stringPrivate[i].text # text
<1>1. \A i \in ConstantsOf(f) : f.stringPrivate[i].text # text
  BY DEF Sound, ConstantsKnown, SameText
<1>2. PICK C : C = ConstantsOf(f) OBVIOUS
<1>3. PICK F : F = [i \in C |-> f.stringPrivate[i].text] OBVIOUS
<1>4. F \in [C -> Texts \ {text}]
  BY <1>1, <1>2, <1>3 DEF Sound, ConstantsKnown
<1>5. \A i, j \in C : F[i] = F[j] => i = j BY <1>2, <1>3 DEF Sound, ConstantsKnown
<1>6. F \in Injection(C, Texts \ {text}) BY <1>4, <1>5 DEF Injection, IsInjective
<1>7. IsFiniteSet(Texts) /\ Cardinality(Texts) <= Len(ConstantNames) BY NamesAssumption
<1>8. /\ IsFiniteSet(Texts \ {text})
      /\ Cardinality(Texts \ {text}) = Cardinality(Texts) - 1
  BY <1>7, FS_RemoveElement
<1>9. IsFiniteSet(C) /\ Cardinality(C) <= Cardinality(Texts \ {text})
  BY <1>6, <1>8, FS_Injection
<1>10. Cardinality(C) \in Nat /\ Cardinality(Texts) \in Nat BY <1>7, <1>9, FS_CardinalityType
<1>11. Len(ConstantNames) \in Nat /\ DOMAIN ConstantNames = 1..Len(ConstantNames)
  BY NamesAssumption, LenProperties
<1>12. Cardinality(C) + 1 \in DOMAIN ConstantNames BY <1>7, <1>8, <1>9, <1>10, <1>11
<1> QED BY <1>1, <1>2, <1>12

(* add_constant() of a text: a text that has a name keeps it.              *)
LEMMA TextConstantAdded ==
    ASSUME NEW f, Sound(f), NEW text \in Texts
    PROVE  Sound(AddConstantText(f, text))
<1>1. CASE \E i \in ConstantsOf(f) : SameText(f.stringPrivate[i], text)
  BY <1>1 DEF AddConstantText
<1>2. CASE ~ \E i \in ConstantsOf(f) : SameText(f.stringPrivate[i], text)
  <2>1. PICK name : name = ConstantNames[Cardinality(ConstantsOf(f)) + 1] OBVIOUS
  <2>2. Cardinality(ConstantsOf(f)) + 1 \in DOMAIN ConstantNames
        /\ \A i \in ConstantsOf(f) : f.stringPrivate[i].text # text
    BY <1>2, NameLeft
  <2>3. name \in VariableNames BY <2>1, <2>2 DEF VariableNames
  <2>4. PICK h : h = WithName(f, name) OBVIOUS
  <2>5. /\ StringsGrown(f, h) /\ Sound(h)
        /\ NameSize[name] > NameField => Held(h.strings, "name", name, StringsSize(f))
    BY <2>3, <2>4, NameAdded
  <2>6. PICK k : k = WithText(h, text) OBVIOUS
  <2>7. /\ StringsGrown(h, k) /\ Sound(k)
        /\ TextSize[text] > DataField => Held(k.strings, "text", text, StringsSize(h))
    BY <2>5, <2>6, TextAdded
  <2>8. PICK e : e = [name |-> name, nameAt |-> StringsSize(f),
                      nameSize |-> NameSize[name], text |-> text,
                      dataAt |-> StringsSize(h), dataSize |-> TextSize[text]]
    OBVIOUS
  <2>9. AddConstantText(f, text) = [k EXCEPT !.stringPrivate = Append(@, e)]
    BY <1>2, <2>1, <2>4, <2>6, <2>8 DEF AddConstantText
  <2>10. e \in Private
    <3>1. StringsSize(f) \in Nat /\ StringsSize(h) \in Nat BY <2>5, SizeTyped
    <3> QED BY <2>3, <2>8, <3>1, SizesKnown DEF Private
  <2>11. /\ e.name = name /\ e.nameAt = StringsSize(f) /\ e.nameSize = NameSize[name]
         /\ e.text = text /\ e.dataAt = StringsSize(h) /\ e.dataSize = TextSize[text]
    BY <2>8
  <2>12. PrivateHeld(k, e) BY <2>5, <2>7, <2>11 DEF PrivateHeld, StringsGrown
  <2>13. NewConstant(k, e)
    <3>1. k.stringPrivate = f.stringPrivate BY <2>5, <2>7 DEF StringsGrown, SameTables
    <3>2. ConstantsOf(k) = ConstantsOf(f) BY <3>1 DEF ConstantsOf
    <3> QED BY <2>2, <2>11, <3>1, <3>2 DEF NewConstant
  <2>14. Sound([k EXCEPT !.stringPrivate = Append(@, e)])
    BY <2>7, <2>10, <2>12, <2>13, PrivateAppended
  <2> QED BY <2>9, <2>14, Zenon
<1> QED BY <1>1, <1>2

(* add_relocation(): the offset is that of the next instruction.           *)
LEMMA RelocationAdded ==
    ASSUME NEW f, Sound(f), NEW name \in Objects \cup Labels, NEW type \in Types,
           NEW opcode \in Nat, NEW immediate \in Nat,
           type = "CONSTANT_32BITS" /\ name \in Numbers
              => \E i \in DOMAIN f.numberPrivate : f.numberPrivate[i] = name,
           type = "CONSTANT_32BITS" /\ name \notin Numbers
              => \E i \in DOMAIN f.stringPrivate : f.stringPrivate[i].name = name,
           type \notin {"CONSTANT_32BITS", "LABEL_32BITS"}
              => \E i \in DOMAIN f.externs : f.externs[i].name = name
    PROVE  Sound(AddRelocation(f, name, type, opcode, immediate))
<1>1. PICK size \in Nat : size = opcode + 4 + immediate OBVIOUS
<1>2. PICK h : h = AddText(f, size) OBVIOUS
<1>3. /\ Sound(h) /\ h.externs = f.externs
      /\ h.stringPrivate = f.stringPrivate /\ h.numberPrivate = f.numberPrivate
  BY <1>2, CodeAdded
<1>4. f.text \in Nat BY DEF Sound, FileTyped
<1>5. PICK r : r = [name |-> name, type |-> type, position |-> f.text + opcode,
                    immediate |-> immediate, offset |-> f.text + opcode + 4 + immediate]
  OBVIOUS
<1>6. r \in Reference
  <2>1. f.text + opcode \in Nat /\ f.text + opcode + 4 + immediate \in Nat BY <1>4
  <2> QED BY <1>5, <2>1 DEF Reference
<1>7. /\ r.name = name /\ r.type = type
      /\ r.offset = r.position + 4 + r.immediate
  BY <1>5
<1>8. Refers(h, r) BY <1>3, <1>7 DEF Refers
<1>9. AddRelocation(f, name, type, opcode, immediate) = [h EXCEPT !.relocations = Append(@, r)]
  BY <1>1, <1>2, <1>5 DEF AddRelocation
<1>10. Sound([h EXCEPT !.relocations = Append(@, r)])
  BY <1>3, <1>6, <1>8, ReferenceAppended
<1> QED BY <1>9, <1>10, Zenon

(* An empty file has no entries.                                           *)
LEMMA InitFile == Init => FileInv
<1> SUFFICES ASSUME Init PROVE FileInv OBVIOUS
<1>1. file = NewFile /\ phase = "variables" /\ image = NoImage
      /\ left \subseteq DOMAIN Declarations
  BY DEF Init
<1>2. PICK none : none = <<>> OBVIOUS
<1>3. DOMAIN none = {} /\ \A S : none \in Seq(S) BY <1>2
<1>4. /\ DOMAIN file = Fields /\ file.text = 0
      /\ file.externs = none /\ file.stringPrivate = none /\ file.numberPrivate = none
      /\ file.boolPrivate = none /\ file.strings = none /\ file.relocations = none
      /\ file.labels = none
  BY <1>1, <1>2 DEF NewFile, Fields
<1>5. FileTyped(file) BY <1>3, <1>4 DEF FileTyped
<1>6. /\ TablesHeld(file) /\ ConstantsKnown(file) /\ RefersWell(file) /\ LabelsIn(file)
  BY <1>3, <1>4 DEF TablesHeld, ConstantsKnown, ConstantsOf, RefersWell, LabelsIn
<1> QED BY <1>1, <1>4, <1>5, <1>6 DEF FileInv, Sound

(* The temporaries are on the stack, not in the file.                      *)
LEMMA TemporaryKeepsTables ==
    ASSUME NEW f, Sound(f), NEW d
    PROVE  Sound(AddTemporaryVariable(f, d)) /\ Sound(AdjustTemporaryOffset1Byte(f))
<1>1. DOMAIN f = Fields BY DEF Sound
<1>2. ASSUME NEW name PROVE Sound(AddTemporaryVariable1Byte(f, name))
  <2>1. PICK g : g = AddTemporaryVariable1Byte(f, name) OBVIOUS
  <2>2. SameTables(f, g) /\ g.strings = f.strings
    BY <1>1, <2>1 DEF SameTables, Fields, AddTemporaryVariable1Byte
  <2> QED BY <2>1, <2>2, SoundTemporaries
<1>3. ASSUME NEW name, NEW size PROVE Sound(AddTemporaryVariable8Bytes(f, name, size))
  <2>1. PICK g : g = AddTemporaryVariable8Bytes(f, name, size) OBVIOUS
  <2>2. SameTables(f, g) /\ g.strings = f.strings
    BY <1>1, <2>1 DEF SameTables, Fields, AddTemporaryVariable8Bytes
  <2> QED BY <2>1, <2>2, SoundTemporaries
<1>4. Sound(AdjustTemporaryOffset1Byte(f))
  <2>1. PICK g : g = AdjustTemporaryOffset1Byte(f) OBVIOUS
  <2>2. SameTables(f, g) /\ g.strings = f.strings
    BY <1>1, <2>1 DEF SameTables, Fields, AdjustTemporaryOffset1Byte
  <2> QED BY <2>1, <2>2, SoundTemporaries
<1>5. Sound(AddTemporaryVariable(f, d)) BY <1>2, <1>3 DEF AddTemporaryVariable
<1> QED BY <1>4, <1>5

(* The end of the code: two bytes and the alignment.                       *)
LEMMA CodeEnds ==
    ASSUME NEW f, Sound(f), NEW g, g = Align8(AddText(f, 2))
    PROVE  /\ Sound(g) /\ g.text > f.text /\ g.labels = f.labels /\ g.relocations = f.relocations
<1>1. PICK h : h = AddText(f, 2) OBVIOUS
<1>2. Sound(h) /\ h.text = f.text + 2 /\ h.labels = f.labels /\ h.relocations = f.relocations
  BY <1>1, CodeAdded
<1>3. f.text \in Nat /\ h.text \in Nat BY <1>2 DEF Sound, FileTyped
<1>4. PICK pad \in Nat : pad = (8 - (h.text % 8)) % 8 BY <1>3
<1>5. g = AddText(h, pad) BY <1>1, <1>4 DEF Align8
<1>6. Sound(g) /\ g.text = h.text + pad /\ g.labels = h.labels /\ g.relocations = h.relocations
  BY <1>2, <1>5, CodeAdded
<1> QED BY <1>2, <1>3, <1>6

(* Each thing the code may refer to is in a table.                         *)
LEMMA ReferenceKnown ==
    ASSUME Sound(file), NEW r \in References
    PROVE  /\ r.name \in Objects \cup Labels /\ r.type \in Types
           /\ r.type = "CONSTANT_32BITS" /\ r.name \in Numbers
                 => \E i \in DOMAIN file.numberPrivate : file.numberPrivate[i] = r.name
           /\ r.type = "CONSTANT_32BITS" /\ r.name \notin Numbers
                 => \E i \in DOMAIN file.stringPrivate : file.stringPrivate[i].name = r.name
           /\ r.type \notin {"CONSTANT_32BITS", "LABEL_32BITS"}
                 => \E i \in DOMAIN file.externs : file.externs[i].name = r.name
<1>1. CASE \E i \in DOMAIN file.externs,
              type \in {"VARIABLE_32BITS", "VARIABLE_32BITS_DATA", "VARIABLE_32BITS_DATA_SIZE"} :
              r = [name |-> file.externs[i].name, type |-> type]
  <2>1. PICK i \in DOMAIN file.externs,
             type \in {"VARIABLE_32BITS", "VARIABLE_32BITS_DATA", "VARIABLE_32BITS_DATA_SIZE"} :
             r = [name |-> file.externs[i].name, type |-> type]
    BY <1>1
  <2>2. r.name = file.externs[i].name /\ r.type = type BY <2>1
  <2>3. file.externs[i].name \in Objects
    <3>1. file.externs \in Seq(Extern) BY DEF Sound, FileTyped
    <3>2. file.externs[i] \in Extern BY <3>1
    <3> QED BY <3>2, NamesAreObjects DEF Extern
  <2> QED BY <2>2, <2>3 DEF Types
<1>2. CASE \E i \in ConstantsOf(file) :
              r = [name |-> file.stringPrivate[i].name, type |-> "CONSTANT_32BITS"]
  <2>1. PICK i \in ConstantsOf(file) :
             r = [name |-> file.stringPrivate[i].name, type |-> "CONSTANT_32BITS"]
    BY <1>2
  <2>2. r.name = file.stringPrivate[i].name /\ r.type = "CONSTANT_32BITS" BY <2>1
  <2>3. PICK n \in DOMAIN ConstantNames : r.name = ConstantNames[n] BY <2>2 DEF ConstantsOf
  <2>4. r.name \notin Numbers BY <2>3, NamesAssumption
  <2>5. r.name \in Objects BY <2>3, NamesAreObjects DEF VariableNames
  <2>6. i \in DOMAIN file.stringPrivate BY DEF ConstantsOf
  <2> QED BY <2>2, <2>4, <2>5, <2>6 DEF Types
<1>3. CASE \E n \in {file.numberPrivate[i] : i \in DOMAIN file.numberPrivate} \cap Numbers :
              r = [name |-> n, type |-> "CONSTANT_32BITS"]
  <2>1. PICK n \in {file.numberPrivate[i] : i \in DOMAIN file.numberPrivate} \cap Numbers :
             r = [name |-> n, type |-> "CONSTANT_32BITS"]
    BY <1>3
  <2>2. r.name = n /\ r.type = "CONSTANT_32BITS" BY <2>1
  <2> QED BY <2>2 DEF Types, Objects
<1>4. CASE \E label \in Labels : r = [name |-> label, type |-> "LABEL_32BITS"]
  <2>1. PICK label \in Labels : r = [name |-> label, type |-> "LABEL_32BITS"] BY <1>4
  <2>2. r.name = label /\ r.type = "LABEL_32BITS" BY <2>1
  <2> QED BY <2>2 DEF Types
<1> QED BY <1>1, <1>2, <1>3, <1>4 DEF References

(* One step per action.                                                    *)
LEMMA StepFile == FileInv /\ [Next]_vars => FileInv'
<1> SUFFICES ASSUME FileInv, [Next]_vars PROVE FileInv' OBVIOUS
<1>0. Sound(file) /\ left \subseteq DOMAIN Declarations BY DEF FileInv
<1>1. CASE AddVariable
  <2>1. PICK i \in left :
           /\ file' = CASE Declarations[i].where = "temporary" ->
                              AddTemporaryVariable(file, Declarations[i])
                        [] Declarations[i].where = "extern" ->
                              AddExternVariable(file, Declarations[i])
                        [] Declarations[i].where = "private" ->
                              AddPrivateVariable(file, Declarations[i])
           /\ left' = left \ {i}
    BY <1>1 DEF AddVariable
  <2>2. i \in DOMAIN Declarations BY <1>0
  <2>3. Declarations[i].where \in {"temporary", "extern", "private"} BY <2>2, DeclaredTyped
  <2>4. Sound(file')
    <3>1. CASE Declarations[i].where = "temporary"
      <4>1. file' = AddTemporaryVariable(file, Declarations[i]) BY <2>1, <3>1
      <4> QED BY <1>0, <4>1, TemporaryKeepsTables
    <3>2. CASE Declarations[i].where = "extern"
      <4>1. file' = AddExternVariable(file, Declarations[i]) BY <2>1, <3>2
      <4> QED BY <1>0, <2>2, <4>1, ExternAdded
    <3>3. CASE Declarations[i].where = "private"
      <4>1. file' = AddPrivateVariable(file, Declarations[i]) BY <2>1, <3>3
      <4> QED BY <1>0, <2>2, <3>3, <4>1, PrivateAdded
    <3> QED BY <2>3, <3>1, <3>2, <3>3
  <2>5. phase = "variables" /\ phase' = phase /\ image' = image BY <1>1 DEF AddVariable
  <2> QED BY <1>0, <2>1, <2>4, <2>5 DEF FileInv
<1>2. CASE AdjustTemporaries
  <2>1. Sound(file') BY <1>0, <1>2, TemporaryKeepsTables DEF AdjustTemporaries
  <2> QED BY <1>2, <2>1 DEF FileInv, AdjustTemporaries
<1>3. CASE AddConstant
  <2>1. Sound(file') BY <1>0, <1>3, NumberAdded, TextConstantAdded DEF AddConstant
  <2> QED BY <1>3, <2>1 DEF FileInv, AddConstant
<1>4. CASE Generate
  <2>1. Sound(file') BY <1>0, <1>4, CodeAdded DEF Generate
  <2> QED BY <1>4, <2>1 DEF FileInv, Generate
<1>5. CASE Instruction
  <2>1. PICK r \in References, immediate \in {0, 1} :
           file' = AddRelocation(file, r.name, r.type, 3, immediate)
    BY <1>5 DEF Instruction
  <2>2. /\ r.name \in Objects \cup Labels /\ r.type \in Types
        /\ r.type = "CONSTANT_32BITS" /\ r.name \in Numbers
              => \E i \in DOMAIN file.numberPrivate : file.numberPrivate[i] = r.name
        /\ r.type = "CONSTANT_32BITS" /\ r.name \notin Numbers
              => \E i \in DOMAIN file.stringPrivate : file.stringPrivate[i].name = r.name
        /\ r.type \notin {"CONSTANT_32BITS", "LABEL_32BITS"}
              => \E i \in DOMAIN file.externs : file.externs[i].name = r.name
    BY <1>0, ReferenceKnown
  <2>3. 3 \in Nat /\ immediate \in Nat OBVIOUS
  <2>4. Sound(AddRelocation(file, r.name, r.type, 3, immediate))
    BY <1>0, <2>2, <2>3, RelocationAdded
  <2>5. Sound(file') BY <2>1, <2>4, Zenon
  <2> QED BY <1>5, <2>5 DEF FileInv, Instruction
<1>6. CASE PlaceLabel
  <2>1. Sound(file') BY <1>0, <1>6, LabelAdded DEF PlaceLabel
  <2> QED BY <1>6, <2>1 DEF FileInv, PlaceLabel
<1>7. CASE Return
  <2>1. /\ Sound(file') /\ file'.text > file.text /\ file'.labels = file.labels
        /\ file'.relocations = file.relocations
    BY <1>0, <1>7, CodeEnds DEF Return
  <2>2. LabelsPlaced(file')
    <3>1. file.text \in Nat /\ file'.text \in Nat BY <1>0, <2>1 DEF Sound, FileTyped
    <3>2. \A l \in DOMAIN file'.labels : file'.labels[l] < file'.text
      BY <1>0, <2>1, <3>1 DEF Sound, LabelsIn
    <3>3. \A n \in DOMAIN file'.relocations :
             file'.relocations[n].type = "LABEL_32BITS"
                => file'.relocations[n].name \in DOMAIN file'.labels
      BY <1>7, <2>1 DEF Return
    <3> QED BY <3>2, <3>3 DEF LabelsPlaced
  <2> QED BY <1>7, <2>1, <2>2 DEF FileInv, Return
<1>8. CASE Save
  <2>1. /\ phase = "generated" /\ phase' = "saved" /\ image' = Saved(file)
        /\ file' = file /\ left' = left
    BY <1>8 DEF Save
  <2>2. image' = Saved(file') BY <2>1
  <2> QED BY <2>1, <2>2 DEF FileInv
<1>9. CASE Load
  <2>1. /\ phase = "saved" /\ phase' = "loaded" /\ image' = Loaded(image)
        /\ file' = file /\ left' = left
    BY <1>9 DEF Load
  <2>2. image = Saved(file) BY <2>1 DEF FileInv
  <2>3. image' = Loaded(Saved(file')) BY <2>1, <2>2
  <2> QED BY <2>1, <2>3 DEF FileInv
<1>10. CASE UNCHANGED vars
  <2>1. file' = file /\ left' = left /\ phase' = phase /\ image' = image BY <1>10 DEF vars
  <2>2. image = Saved(file) => image' = Saved(file') BY <2>1
  <2>3. image = Loaded(Saved(file)) => image' = Loaded(Saved(file')) BY <2>1
  <2> QED BY <2>1, <2>2, <2>3 DEF FileInv
<1> QED BY <1>1, <1>2, <1>3, <1>4, <1>5, <1>6, <1>7, <1>8, <1>9, <1>10 DEF Next

(***************************************************************************)
(* What a saved or loaded file holds.                                      *)
(***************************************************************************)
(* Position() finds a name that is there.                                  *)
LEMMA PositionFound ==
    ASSUME NEW names, NEW name, \E i \in DOMAIN names : names[i] = name
    PROVE  Position(names, name) \in DOMAIN names /\ names[Position(names, name)] = name
  BY Zenon DEF Position

(* The image is that of the file, and is laid out as it is.                *)
LEMMA ImageOfFile ==
    ASSUME FileInv, image # NoImage
    PROVE  /\ Sound(file) /\ LabelsPlaced(file)
           /\ LaidOut(image.bytes, file)
           /\ image.fileSize = ((AfterStringsOffset(file) + 3) \div 4) * 4 + 4
           /\ image.displaced = [i \in DOMAIN file.relocations |->
                                    Displacement(file, file.relocations[i])]
           /\ image.variables = DataStart(file)
<1>1. phase \in {"saved", "loaded"} BY DEF FileInv
<1>2. Sound(file) /\ LabelsPlaced(file) BY <1>1 DEF FileInv
<1>3. PICK s : s = Saved(file) OBVIOUS
<1>4. /\ s.bytes = Written(file) /\ s.variables = DataStart(file)
      /\ s.fileSize = ((AfterStringsOffset(file) + 3) \div 4) * 4 + 4
      /\ s.displaced = [i \in DOMAIN file.relocations |-> Displacement(file, file.relocations[i])]
      /\ DOMAIN s = {"bytes", "fileSize", "variables", "counted", "displaced", "table"}
  BY <1>3 DEF Saved
<1>5. image = s \/ image = Loaded(s) BY <1>1, <1>3 DEF FileInv
<1>6. /\ image.bytes = s.bytes /\ image.fileSize = s.fileSize
      /\ image.displaced = s.displaced /\ image.variables = s.variables
  BY <1>4, <1>5 DEF Loaded
<1>7. LaidOut(image.bytes, file)
  <2>1. FileTyped(file) BY <1>2 DEF Sound
  <2> QED BY <1>4, <1>6, <2>1, FileLaidOut
<1> QED BY <1>2, <1>4, <1>6, <1>7

(* Each kind of reference in turn: code, string, number, variable.         *)
LEMMA FileResolved == FileInv => Resolved
<1> SUFFICES ASSUME FileInv, image # NoImage, NEW n \in DOMAIN file.relocations
             PROVE  At(image, NextInstruction(file.relocations[n]) + image.displaced[n])
                        = Target(file.relocations[n])
  BY DEF Resolved
<1>1. PICK w : w = image.bytes OBVIOUS
<1>2. /\ Sound(file) /\ LabelsPlaced(file) /\ LaidOut(w, file)
      /\ image.displaced[n] = Displacement(file, file.relocations[n])
  BY <1>1, ImageOfFile
<1>3. PICK r : r = file.relocations[n] OBVIOUS
<1>4. r \in Reference BY <1>2, <1>3 DEF Sound, FileTyped
<1>5. Refers(file, r) BY <1>2, <1>3 DEF Sound, RefersWell
<1>6. r.type \in Types /\ r.offset \in Nat /\ r.position \in Nat /\ r.immediate \in Nat
  BY <1>4 DEF Reference
<1>7. NextInstruction(r) = HeaderSize + r.offset
  <2>1. r.offset = r.position + 4 + r.immediate BY <1>5 DEF Refers
  <2>2. HeaderSize \in Nat BY SizesAssumption
  <2> QED BY <1>6, <2>1, <2>2 DEF NextInstruction, TextOffset
<1>8. HeaderSize \in Nat /\ VariableSize \in Nat /\ VariableSize > 0 BY SizesAssumption
<1>9. FileTyped(file) BY <1>2 DEF Sound
<1>10. /\ DataStart(file) \in Nat /\ StringPrivateOffset(file) \in Nat
       /\ NumberPrivateOffset(file) \in Nat
  BY <1>9, FileLaidOut
<1>11. PICK offset : offset = NextInstruction(r) + Displacement(file, r) OBVIOUS
<1>12. SUFFICES w[offset + 1] = Target(r) BY <1>1, <1>2, <1>3, <1>11 DEF At
<1>13. CASE r.type = "LABEL_32BITS"
  <2>1. r.name \in DOMAIN file.labels BY <1>2, <1>3, <1>13 DEF LabelsPlaced
  <2>2. PICK k : k = file.labels[r.name] OBVIOUS
  <2>3. k \in Nat /\ k < file.text /\ file.text \in Nat
    BY <1>2, <1>9, <2>1, <2>2 DEF Sound, LabelsIn, LabelsPlaced, FileTyped
  <2>4. Displacement(file, r) = k - r.offset BY <1>13, <2>2 DEF Displacement
  <2>5. offset + 1 = HeaderSize + (k + 1) BY <1>6, <1>7, <1>8, <1>11, <2>3, <2>4
  <2>6. w[HeaderSize + (k + 1)] = <<"code", "", k>>
    <3>1. k \in 0..(file.text - 1) BY <2>3
    <3>2. CodeAt(w, file) BY <1>2 DEF LaidOut
    <3> QED BY <3>1, <3>2 DEF CodeAt
  <2>7. Target(r) = <<"code", "", k>> BY <1>13, <2>2 DEF Target
  <2> QED BY <2>5, <2>6, <2>7
<1>14. CASE r.type = "CONSTANT_32BITS" /\ r.name \in Numbers
  <2>1. PICK p : p = Position(file.numberPrivate, r.name) OBVIOUS
  <2>2. p \in DOMAIN file.numberPrivate /\ file.numberPrivate[p] = r.name
    BY <1>5, <1>14, <2>1, PositionFound DEF Refers
  <2>3. p \in Nat BY <1>9, <2>2, LenProperties DEF FileTyped
  <2>4. Displacement(file, r) = NumberPrivateOffset(file) - HeaderSize + (p - 1) * 8 - r.offset
    BY <1>14, <2>1 DEF Displacement, TextOffset
  <2>5. offset + 1 = NumberPrivateOffset(file) + ((p - 1) * 8 + (0 + 1))
    BY <1>6, <1>7, <1>8, <1>10, <1>11, <2>3, <2>4
  <2>6. w[NumberPrivateOffset(file) + ((p - 1) * 8 + (0 + 1))] = <<"number", r.name, 0>>
    <3>1. EntriesAt(w, NumberPrivateOffset(file), "number", file.numberPrivate, 8)
      BY <1>2 DEF LaidOut
    <3>2. 0 \in 0..(8 - 1) OBVIOUS
    <3> QED BY <2>2, <3>1, <3>2 DEF EntriesAt
  <2>7. Target(r) = <<"number", r.name, 0>> BY <1>14 DEF Target
  <2> QED BY <2>5, <2>6, <2>7
<1>15. CASE r.type = "CONSTANT_32BITS" /\ r.name \notin Numbers
  <2>0. NamesOf(Names(file.stringPrivate), file.stringPrivate)
    <3>1. file.stringPrivate \in Seq(Private) /\ \A e \in Private : e.name \in VariableNames
      BY <1>9 DEF FileTyped, Private
    <3> QED BY <3>1, NamesTyped
  <2>1. PICK p : p = Position(Names(file.stringPrivate), r.name) OBVIOUS
  <2>2. p \in DOMAIN Names(file.stringPrivate) /\ Names(file.stringPrivate)[p] = r.name
    <3>1. \E i \in DOMAIN file.stringPrivate : file.stringPrivate[i].name = r.name
      BY <1>5, <1>15 DEF Refers
    <3>2. \E i \in DOMAIN Names(file.stringPrivate) : Names(file.stringPrivate)[i] = r.name
      BY <2>0, <3>1 DEF NamesOf
    <3> QED BY <2>1, <3>2, PositionFound
  <2>3. p \in Nat BY <2>0, <2>2, LenProperties DEF NamesOf
  <2>8. PICK before \in Int : before = (p - 1) * VariableSize BY <1>8, <2>3
  <2>4. Displacement(file, r) = StringPrivateOffset(file) - HeaderSize + before - r.offset
    BY <1>15, <2>1, <2>8 DEF Displacement, TextOffset
  <2>5. offset + 1 = StringPrivateOffset(file) + (before + (0 + 1))
    BY <1>6, <1>7, <1>8, <1>10, <1>11, <2>4
  <2>6. w[StringPrivateOffset(file) + (before + (0 + 1))] = <<"string", r.name, 0>>
    <3>1. EntriesAt(w, StringPrivateOffset(file), "string", Names(file.stringPrivate), VariableSize)
      BY <1>2 DEF LaidOut
    <3>2. 0 \in 0..(VariableSize - 1) BY <1>8
    <3> QED BY <2>2, <2>8, <3>1, <3>2 DEF EntriesAt
  <2>7. Target(r) = <<"string", r.name, 0>> BY <1>15 DEF Target
  <2> QED BY <2>5, <2>6, <2>7
<1>16. CASE r.type \notin {"CONSTANT_32BITS", "LABEL_32BITS"}
  <2>0. NamesOf(Names(file.externs), file.externs)
    <3>1. file.externs \in Seq(Extern) /\ \A e \in Extern : e.name \in VariableNames
      BY <1>9 DEF FileTyped, Extern
    <3> QED BY <3>1, NamesTyped
  <2>1. PICK p : p = Position(Names(file.externs), r.name) OBVIOUS
  <2>2. p \in DOMAIN Names(file.externs) /\ Names(file.externs)[p] = r.name
    <3>1. \E i \in DOMAIN file.externs : file.externs[i].name = r.name
      BY <1>5, <1>16 DEF Refers
    <3>2. \E i \in DOMAIN Names(file.externs) : Names(file.externs)[i] = r.name
      BY <2>0, <3>1 DEF NamesOf
    <3> QED BY <2>1, <3>2, PositionFound
  <2>3. p \in Nat BY <2>0, <2>2, LenProperties DEF NamesOf
  <2>8. PICK before \in Int : before = (p - 1) * VariableSize BY <1>8, <2>3
  <2>9. PICK k : k = Extra(r.type) OBVIOUS
  <2>10. k \in 0..(VariableSize - 1) BY <1>8, <2>9, OffsetsAssumption DEF Extra
  <2>4. Displacement(file, r) = DataStart(file) + before + k - HeaderSize - r.offset
    <3>1. VariableSize * (p - 1) = before BY <1>8, <2>3, <2>8
    <3> QED BY <1>16, <2>1, <2>9, <3>1 DEF Displacement, TextOffset
  <2>5. offset + 1 = DataStart(file) + (before + (k + 1))
    BY <1>6, <1>7, <1>8, <1>10, <1>11, <2>4, <2>10
  <2>6. w[DataStart(file) + (before + (k + 1))] = <<"extern", r.name, k>>
    <3>1. EntriesAt(w, DataStart(file), "extern", Names(file.externs), VariableSize)
      BY <1>2 DEF LaidOut
    <3> QED BY <2>2, <2>8, <2>10, <3>1 DEF EntriesAt
  <2>7. Target(r) = <<"extern", r.name, k>> BY <1>16, <2>9 DEF Target
  <2> QED BY <2>5, <2>6, <2>7
<1> QED BY <1>13, <1>14, <1>15, <1>16

(* In every image, saved or loaded, the displacement of an instruction     *)
(* leads to the byte of the object it names, whatever the tables, the      *)
(* strings and the padding before it (save(), binary.cpp:3303).            *)
THEOREM ReferencesResolved == Spec => []Resolved
<1>1. Init => FileInv BY InitFile
<1>2. FileInv /\ [Next]_vars => FileInv' BY StepFile
<1>3. FileInv => Resolved BY FileResolved
<1> QED BY <1>1, <1>2, <1>3, PTL DEF Spec

(***************************************************************************)
(* The table load() reads: the extern variables, then the private ones.    *)
(***************************************************************************)
Entry == [name : VariableNames, nameSize : Nat, nameAt : Nat, text : Texts \cup {""},
          dataSize : Nat, dataAt : Nat]

(* An entry of the file as it is read: at its place, its long name and its *)
(* long text at the offsets it has.                                        *)
EntryFound(w, f, n, v) ==
    /\ w[DataStart(f) + (n - 1) * VariableSize + 1]
           \in {<<"extern", v.name, 0>>, <<"string", v.name, 0>>}
    /\ v.nameSize > NameField => w[v.nameAt + 1] = <<"name", v.name, 0>>
    /\ v.dataSize > DataField => w[v.dataAt + 1] = <<"text", v.text, 0>>

FoundAt(w, f, kind, of, at) == w[at + StringsOffset(f) + 1] = <<kind, of, 0>>

(* A string held is in the saved file at its offset.                       *)
LEMMA HeldFound ==
    ASSUME NEW f, Sound(f), NEW w, LaidOut(w, f), NEW kind, NEW of, NEW at,
           Held(f.strings, kind, of, at)
    PROVE  FoundAt(w, f, kind, of, at)
<1>1. PICK k \in DOMAIN f.strings : /\ f.strings[k].kind = kind /\ f.strings[k].of = of
                                    /\ f.strings[k].size > 0 /\ SizeBefore(f.strings, k) = at
  BY DEF Held
<1>2. StringsAt(w, StringsOffset(f), f.strings) BY DEF LaidOut
<1>3. w[StringsOffset(f) + (at + 1)] = <<kind, of, 0>> BY <1>1, <1>2 DEF StringsAt
<1>4. FileTyped(f) /\ f.strings \in Seq(LongString) BY DEF Sound, FileTyped
<1>5. k \in 1..(Len(f.strings) + 1) BY <1>4, LenProperties
<1>6. at \in Nat BY <1>1, <1>4, <1>5, SizesTyped
<1>7. StringsOffset(f) \in Nat BY <1>4, FileLaidOut
<1>8. StringsOffset(f) + (at + 1) = at + StringsOffset(f) + 1 BY <1>6, <1>7
<1> QED BY <1>3, <1>8 DEF FoundAt

ExternEntry(f, e) == [name |-> e.name, nameSize |-> NameSize[e.name],
                      nameAt |-> e.nameAt + StringsOffset(f),
                      text |-> "", dataSize |-> 0, dataAt |-> 0]
PrivateEntry(f, e) == [e EXCEPT !.nameAt = @ + StringsOffset(f), !.dataAt = @ + StringsOffset(f)]

(* The entry of an extern variable, as load() finds it.                    *)
LEMMA ExternFound ==
    ASSUME NEW f, Sound(f), NEW w, LaidOut(w, f), NEW i \in DOMAIN f.externs,
           NEW v, v = ExternEntry(f, f.externs[i])
    PROVE  v \in Entry /\ EntryFound(w, f, i, v)
<1>1. FileTyped(f) /\ f.externs \in Seq(Extern) BY DEF Sound, FileTyped
<1>2. PICK e : e = f.externs[i] /\ e \in Extern BY <1>1
<1>3. e.name \in VariableNames /\ e.nameAt \in Nat BY <1>2 DEF Extern
<1>4. DataStart(f) \in Nat /\ StringsOffset(f) \in Nat BY <1>1, FileLaidOut
<1>5. /\ v.name = e.name /\ v.nameSize = NameSize[e.name]
      /\ v.nameAt = e.nameAt + StringsOffset(f) /\ v.dataSize = 0
  BY <1>2 DEF ExternEntry
<1>6. v \in Entry
  <2>1. e.nameAt + StringsOffset(f) \in Nat /\ NameSize[e.name] \in Nat
    BY <1>3, <1>4, SizesKnown
  <2> QED BY <1>2, <1>3, <2>1 DEF Entry, ExternEntry
<1>7. w[DataStart(f) + (i - 1) * VariableSize + 1] = <<"extern", v.name, 0>>
  <2>1. EntriesAt(w, DataStart(f), "extern", Names(f.externs), VariableSize) BY DEF LaidOut
  <2>2. NamesOf(Names(f.externs), f.externs)
    <3>1. \A x \in Extern : x.name \in VariableNames BY DEF Extern
    <3> QED BY <1>1, <3>1, NamesTyped
  <2>3. VariableSize \in Nat /\ 0 \in 0..(VariableSize - 1) BY SizesAssumption
  <2>4. i \in DOMAIN Names(f.externs) /\ Names(f.externs)[i] = v.name
    BY <1>2, <1>5, <2>2 DEF NamesOf
  <2>5. i \in Nat BY <1>1, LenProperties
  <2>6. PICK before \in Int : before = (i - 1) * VariableSize BY <2>3, <2>5
  <2>7. w[DataStart(f) + (before + (0 + 1))] = <<"extern", v.name, 0>>
    BY <2>1, <2>3, <2>4, <2>6 DEF EntriesAt
  <2>8. DataStart(f) + (before + (0 + 1)) = DataStart(f) + before + 1 BY <1>4, <2>6
  <2> QED BY <2>6, <2>7, <2>8
<1>8. ASSUME v.nameSize > NameField PROVE w[v.nameAt + 1] = <<"name", v.name, 0>>
  <2>1. Held(f.strings, "name", e.name, e.nameAt)
    BY <1>2, <1>5, <1>8 DEF Sound, TablesHeld, ExternHeld
  <2>2. FoundAt(w, f, "name", e.name, e.nameAt) BY <2>1, HeldFound
  <2> QED BY <1>5, <2>2 DEF FoundAt
<1>9. ~(v.dataSize > DataField) BY <1>5, SizesKnown
<1> QED BY <1>6, <1>7, <1>8, <1>9 DEF EntryFound

(* The entry of a private variable, its long text included.                *)
LEMMA PrivateFound ==
    ASSUME NEW f, Sound(f), NEW w, LaidOut(w, f), NEW i \in DOMAIN f.stringPrivate,
           NEW v, v = PrivateEntry(f, f.stringPrivate[i])
    PROVE  v \in Entry /\ EntryFound(w, f, Len(f.externs) + i, v)
<1>1. FileTyped(f) /\ f.stringPrivate \in Seq(Private) /\ f.externs \in Seq(Extern)
  BY DEF Sound, FileTyped
<1>2. PICK e : e = f.stringPrivate[i] /\ e \in Private BY <1>1
<1>3. e.nameAt \in Nat /\ e.nameSize \in Nat /\ e.dataAt \in Nat /\ e.dataSize \in Nat
  BY <1>2 DEF Private
<1>12. e.name \in VariableNames /\ e.text \in Texts \cup {""} BY <1>2 DEF Private
<1>13. e = [name |-> e.name, nameAt |-> e.nameAt, nameSize |-> e.nameSize, text |-> e.text,
            dataAt |-> e.dataAt, dataSize |-> e.dataSize]
  BY <1>2 DEF Private
<1>4. DataStart(f) \in Nat /\ StringsOffset(f) \in Nat /\ StringPrivateOffset(f) \in Nat
  BY <1>1, FileLaidOut
<1>5. /\ v.name = e.name /\ v.nameSize = e.nameSize
      /\ v.nameAt = e.nameAt + StringsOffset(f)
      /\ v.text = e.text /\ v.dataSize = e.dataSize
      /\ v.dataAt = e.dataAt + StringsOffset(f)
      /\ v = [name |-> v.name, nameSize |-> v.nameSize, nameAt |-> v.nameAt, text |-> v.text,
              dataSize |-> v.dataSize, dataAt |-> v.dataAt]
  BY <1>2, <1>13 DEF PrivateEntry
<1>6. v \in Entry
  <2>1. PICK strings \in Nat : strings = StringsOffset(f) BY <1>4
  <2>2. v.nameAt = e.nameAt + strings /\ v.dataAt = e.dataAt + strings BY <1>5, <2>1
  <2>3. v.nameAt \in Nat BY <1>3, <2>2
  <2>4. v.dataAt \in Nat BY <1>3, <2>2
  <2> QED BY <1>3, <1>5, <1>12, <2>3, <2>4 DEF Entry
<1>7. w[DataStart(f) + ((Len(f.externs) + i) - 1) * VariableSize + 1] = <<"string", v.name, 0>>
  <2>1. EntriesAt(w, StringPrivateOffset(f), "string", Names(f.stringPrivate), VariableSize)
    BY DEF LaidOut
  <2>2. NamesOf(Names(f.stringPrivate), f.stringPrivate)
    <3>1. \A x \in Private : x.name \in VariableNames BY DEF Private
    <3> QED BY <1>1, <3>1, NamesTyped
  <2>3. VariableSize \in Nat /\ 0 \in 0..(VariableSize - 1) BY SizesAssumption
  <2>4. i \in DOMAIN Names(f.stringPrivate) /\ Names(f.stringPrivate)[i] = v.name
    BY <1>2, <1>5, <2>2 DEF NamesOf
  <2>5. i \in Nat /\ Len(f.externs) \in Nat BY <1>1, LenProperties
  <2>6. PICK before \in Int : before = (i - 1) * VariableSize BY <2>3, <2>5
  <2>9. PICK m \in Nat : m = Len(f.externs) BY <2>5
  <2>7. w[StringPrivateOffset(f) + (before + (0 + 1))] = <<"string", v.name, 0>>
    BY <2>1, <2>3, <2>4, <2>6 DEF EntriesAt
  <2>10. PICK externs \in Int : externs = m * VariableSize BY <2>3
  <2>11. ((m + i) - 1) * VariableSize = externs + before BY <2>3, <2>5, <2>6, <2>10
  <2>12. StringPrivateOffset(f) = DataStart(f) + externs BY <2>9, <2>10 DEF StringPrivateOffset
  <2>8. StringPrivateOffset(f) + (before + (0 + 1)) = DataStart(f) + (externs + before) + 1
    BY <1>4, <2>12
  <2> QED BY <2>7, <2>8, <2>9, <2>11
<1>8. PrivateHeld(f, e) BY <1>2 DEF Sound, TablesHeld
<1>9. ASSUME v.nameSize > NameField PROVE w[v.nameAt + 1] = <<"name", v.name, 0>>
  <2>1. Held(f.strings, "name", e.name, e.nameAt) BY <1>5, <1>8, <1>9 DEF PrivateHeld
  <2>2. FoundAt(w, f, "name", e.name, e.nameAt) BY <2>1, HeldFound
  <2> QED BY <1>5, <2>2 DEF FoundAt
<1>10. ASSUME v.dataSize > DataField PROVE w[v.dataAt + 1] = <<"text", v.text, 0>>
  <2>1. Held(f.strings, "text", e.text, e.dataAt) BY <1>5, <1>8, <1>10 DEF PrivateHeld
  <2>2. FoundAt(w, f, "text", e.text, e.dataAt) BY <2>1, HeldFound
  <2> QED BY <1>5, <2>2 DEF FoundAt
<1> QED BY <1>6, <1>7, <1>9, <1>10 DEF EntryFound

(* The table that is saved.                                                *)
LEMMA TableSaved ==
    ASSUME NEW f, Sound(f), NEW w, LaidOut(w, f)
    PROVE  /\ Saved(f).table \in Seq(Entry) /\ Len(Saved(f).table) = Saved(f).counted
           /\ \A n \in DOMAIN Saved(f).table : EntryFound(w, f, n, Saved(f).table[n])
<1>1. f.externs \in Seq(Extern) /\ f.stringPrivate \in Seq(Private) BY DEF Sound, FileTyped
<1>2. PICK a \in Nat, b \in Nat : /\ a = Len(f.externs) /\ DOMAIN f.externs = 1..a
                                  /\ b = Len(f.stringPrivate) /\ DOMAIN f.stringPrivate = 1..b
  BY <1>1, LenProperties
<1>3. PICK s : s = [i \in DOMAIN f.externs |-> ExternEntry(f, f.externs[i])] OBVIOUS
<1>4. PICK t : t = [i \in DOMAIN f.stringPrivate |-> PrivateEntry(f, f.stringPrivate[i])] OBVIOUS
<1>5. Saved(f).table = s \o t /\ Saved(f).counted = a + b
  BY <1>2, <1>3, <1>4 DEF Saved, ExternEntry, PrivateEntry
<1>6. \A i \in 1..a : s[i] \in Entry /\ EntryFound(w, f, i, s[i])
  <2> SUFFICES ASSUME NEW i \in 1..a PROVE s[i] \in Entry /\ EntryFound(w, f, i, s[i]) OBVIOUS
  <2>1. PICK v : v = ExternEntry(f, f.externs[i]) OBVIOUS
  <2>2. s[i] = v BY <1>2, <1>3, <2>1
  <2>3. v \in Entry /\ EntryFound(w, f, i, v) BY <1>2, <2>1, ExternFound
  <2> QED BY <2>2, <2>3
<1>7. \A i \in 1..b : t[i] \in Entry /\ EntryFound(w, f, a + i, t[i])
  <2> SUFFICES ASSUME NEW i \in 1..b PROVE t[i] \in Entry /\ EntryFound(w, f, a + i, t[i])
    OBVIOUS
  <2>1. PICK v : v = PrivateEntry(f, f.stringPrivate[i]) OBVIOUS
  <2>2. t[i] = v BY <1>2, <1>4, <2>1
  <2>3. v \in Entry /\ EntryFound(w, f, a + i, v) BY <1>2, <2>1, PrivateFound
  <2> QED BY <2>2, <2>3
<1>8. s \in Seq(Entry) /\ Len(s) = a
  <2>1. s \in [1..a -> Entry] BY <1>2, <1>3, <1>6
  <2> QED BY <2>1, FunctionIsSeq
<1>9. t \in Seq(Entry) /\ Len(t) = b
  <2>1. t \in [1..b -> Entry] BY <1>2, <1>4, <1>7
  <2> QED BY <2>1, FunctionIsSeq
<1>10. PICK u : u = s \o t OBVIOUS
<1>11. Joined(u, s, t, Entry) BY <1>8, <1>9, <1>10, ConcatPlaces
<1>12. u \in Seq(Entry) /\ Len(u) = a + b /\ DOMAIN u = 1..(a + b)
  <2>1. u \in Seq(Entry) /\ Len(u) = a + b BY <1>8, <1>9, <1>11 DEF Joined
  <2> QED BY <2>1, LenProperties
<1>13. ASSUME NEW n \in 1..(a + b) PROVE EntryFound(w, f, n, u[n])
  <2>1. CASE n <= a
    <3>1. n \in 1..a /\ u[n] = s[n] BY <1>8, <1>11, <2>1 DEF Joined
    <3> QED BY <1>6, <3>1
  <2>2. CASE n > a
    <3>1. PICK i \in 1..b : n = a + i BY <2>2
    <3>2. u[n] = t[i] BY <1>8, <1>9, <1>11, <3>1 DEF Joined
    <3> QED BY <1>7, <3>1, <3>2
  <2> QED BY <2>1, <2>2
<1> QED BY <1>5, <1>10, <1>12, <1>13

(* load() moves the address of a long text, and nothing else.              *)
LEMMA FileReadBack == FileInv => ReadBack
<1> SUFFICES ASSUME FileInv PROVE ReadBack OBVIOUS
<1>1. ASSUME image # NoImage PROVE Len(image.bytes) = image.fileSize
  BY <1>1, ImageOfFile DEF LaidOut
<1>2. ASSUME phase = "loaded", NEW n \in DOMAIN image.table
      PROVE  LET v == image.table[n] IN
             /\ At(image, image.variables + (n - 1) * VariableSize)
                    \in {<<"extern", v.name, 0>>, <<"string", v.name, 0>>}
             /\ v.nameSize > NameField => At(image, v.nameAt) = <<"name", v.name, 0>>
             /\ v.dataSize > DataField => At(image, v.dataAt - Base) = <<"text", v.text, 0>>
  <2>1. PICK s : s = Saved(file) OBVIOUS
  <2>2. image = Loaded(s) /\ Sound(file) BY <1>2, <2>1 DEF FileInv
  <2>3. /\ s.bytes = Written(file) /\ s.variables = DataStart(file)
        /\ DOMAIN s = {"bytes", "fileSize", "variables", "counted", "displaced", "table"}
    BY <2>1 DEF Saved
  <2>4. PICK w : w = Written(file) OBVIOUS
  <2>5. LaidOut(w, file)
    <3>1. FileTyped(file) BY <2>2 DEF Sound
    <3> QED BY <2>4, <3>1, FileLaidOut
  <2>6. /\ s.table \in Seq(Entry) /\ Len(s.table) = s.counted
        /\ \A m \in DOMAIN s.table : EntryFound(w, file, m, s.table[m])
    BY <2>1, <2>2, <2>5, TableSaved
  <2>7. /\ image.bytes = w /\ image.variables = DataStart(file)
        /\ image.table = [m \in DOMAIN s.table |->
              IF m <= s.counted /\ s.table[m].dataSize > DataField
              THEN [s.table[m] EXCEPT !.dataAt = @ + Base] ELSE s.table[m]]
    BY <2>2, <2>3, <2>4 DEF Loaded
  <2>8. n \in DOMAIN s.table /\ n <= s.counted
    <3>1. n \in DOMAIN s.table BY <1>2, <2>7
    <3> QED BY <2>6, <3>1, LenProperties
  <2>9. PICK e : e = s.table[n] OBVIOUS
  <2>10. e \in Entry /\ EntryFound(w, file, n, e) BY <2>6, <2>8, <2>9
  <2>11. PICK v : v = image.table[n] OBVIOUS
  <2>12. v = IF e.dataSize > DataField THEN [e EXCEPT !.dataAt = @ + Base] ELSE e
    BY <2>7, <2>8, <2>9, <2>11
  <2>13. /\ e.dataAt \in Nat /\ Base \in Nat
         /\ e = [name |-> e.name, nameSize |-> e.nameSize, nameAt |-> e.nameAt, text |-> e.text,
                 dataSize |-> e.dataSize, dataAt |-> e.dataAt]
    BY <2>10, OffsetsAssumption DEF Entry
  <2>14. /\ v.name = e.name /\ v.nameSize = e.nameSize /\ v.nameAt = e.nameAt
         /\ v.text = e.text /\ v.dataSize = e.dataSize
         /\ e.dataSize > DataField => v.dataAt - Base = e.dataAt
    <3>1. CASE e.dataSize > DataField
      <4>1. v = [e EXCEPT !.dataAt = @ + Base] BY <2>12, <3>1
      <4>2. v.dataAt = e.dataAt + Base BY <2>13, <4>1
      <4>3. v.dataAt - Base = e.dataAt BY <2>13, <4>2
      <4> QED BY <2>13, <4>1, <4>3
    <3>2. CASE ~(e.dataSize > DataField) BY <2>12, <3>2
    <3> QED BY <3>1, <3>2
  <2>15. /\ w[DataStart(file) + (n - 1) * VariableSize + 1]
                \in {<<"extern", v.name, 0>>, <<"string", v.name, 0>>}
         /\ v.nameSize > NameField => w[v.nameAt + 1] = <<"name", v.name, 0>>
         /\ v.dataSize > DataField => w[(v.dataAt - Base) + 1] = <<"text", v.text, 0>>
    BY <2>10, <2>14 DEF EntryFound
  <2> QED BY <2>7, <2>11, <2>15 DEF At
<1> QED BY <1>1, <1>2 DEF ReadBack

(* load() finds the variables save() wrote: at its place the entry of      *)
(* each, at its address the long name and the long text (binary.cpp:3745). *)
THEOREM FileReadBackAlways == Spec => []ReadBack
<1>1. Init => FileInv BY InitFile
<1>2. FileInv /\ [Next]_vars => FileInv' BY StepFile
<1>3. FileInv => ReadBack BY FileReadBack
<1> QED BY <1>1, <1>2, <1>3, PTL DEF Spec
=============================================================================
