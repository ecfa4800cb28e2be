----------------------------- MODULE BinaryFile -----------------------------
(***************************************************************************)
(* The file build_file makes of a script, and what running_file::load()    *)
(* finds in it: the slots of the temporaries in the stack frame, the       *)
(* tables of extern and private variables, the constants, the strings, and *)
(* the references the code makes to all of these, which save() resolves.   *)
(*                                                                         *)
(* An offset counts bytes.  A byte of the file is <<kind, name, k>>: the   *)
(* byte k of the object of that kind and name.                             *)
(***************************************************************************)
EXTENDS Integers, Sequences, FiniteSets, SequencesExt, TLC

CONSTANTS HeaderSize,    \* sizeof(binary_header)
          VariableSize,  \* sizeof(binary_variable)
          NameField,     \* sizeof(binary_variable::f_name)
          DataField,     \* sizeof(binary_variable::f_data)
          DataOffset,    \* offsetof(binary_variable, f_data)
          SizeOffset,    \* offsetof(binary_variable, f_data_size)
          Declarations,  \* the variables of a script, in the order of their names
          Numbers,       \* the floating point literals
          Texts,         \* the string literals
          NameSize,      \* the length of each name
          TextSize,      \* the length of each literal
          ConstantNames, \* the names "@s1", "@s2"... in the order they are given
          Labels,        \* the labels of the code
          MaxText,       \* how far the code grows: a bound
          Base           \* the address the file is loaded at

ASSUME SizesAssumption == /\ {HeaderSize, VariableSize, NameField, DataField} \subseteq Nat \ {0}
                          /\ VariableSize % 8 = 0 /\ HeaderSize % 8 = 0 /\ DataField = 8

(* The variables of a script and of its flattened nodes; only the code of  *)
(* a function has the temporary %mxcsr.                                    *)
ASSUME DeclarationsAssumption ==
    /\ Declarations \in Seq([name : STRING, where : {"temporary", "extern", "private"},
                             type : {"Boolean", "Integer", "Double", "String", "%mxcsr"},
                             full : BOOLEAN])
    /\ \A i \in DOMAIN Declarations :
           Declarations[i].where = "private" => Declarations[i].type # "%mxcsr"

ASSUME OffsetsAssumption == /\ {DataOffset, SizeOffset} \subseteq 0..(VariableSize - 1)
                            /\ Base \in Nat

(* The counter of add_constant() gives every text a name, and no name of a *)
(* program or of a number starts with "@s".                                *)
ASSUME NamesAssumption ==
    /\ ConstantNames \in Seq(STRING)
    /\ IsFiniteSet(Texts) /\ Cardinality(Texts) <= Len(ConstantNames)
    /\ \A t \in Texts : TextSize[t] \in Nat
    /\ \A i \in DOMAIN Declarations : NameSize[Declarations[i].name] \in Nat
    /\ \A n \in DOMAIN ConstantNames :
           /\ NameSize[ConstantNames[n]] \in Nat
           /\ ConstantNames[n] \notin Numbers
           /\ \A i \in DOMAIN Declarations : Declarations[i].name # ConstantNames[n]

VARIABLES file,   \* build_file
          data,   \* the text literals of the flattened nodes it was given
          left,   \* the declarations to add: indexes in Declarations
          phase,
          image   \* what save() wrote, then what load() made of it

vars == <<file, data, left, phase, image>>

NoImage == [bytes |-> <<>>]

NewFile == [temps1 |-> <<>>, temps8 |-> <<>>, offset1 |-> 0, offset8 |-> 0,
            externs |-> <<>>, strings |-> <<>>, stringPrivate |-> <<>>,
            numberPrivate |-> <<>>, boolPrivate |-> <<>>,
            labels |-> <<>>, relocations |-> <<>>, text |-> 0]

(* A script declares some of the variables; the map of the flattened nodes *)
(* gives them by name.                                                     *)
Init ==
    /\ left \in SUBSET DOMAIN Declarations
    /\ file = NewFile /\ data = {}
    /\ phase = "variables"
    /\ image = NoImage
-----------------------------------------------------------------------------
Total(sizes) == LET sum[i \in 0..Len(sizes)] == IF i = 0 THEN 0 ELSE sum[i - 1] + sizes[i]
                IN  sum[Len(sizes)]

StringsSize(f) == Total([i \in 1..Len(f.strings) |-> f.strings[i].size])

(* A name that does not fit its field goes to the strings.                 *)
WithName(f, name) ==
    IF NameSize[name] <= NameField THEN f
    ELSE [f EXCEPT !.strings = Append(@, [kind |-> "name", of |-> name, size |-> NameSize[name]])]

WithText(f, text) ==
    IF TextSize[text] <= DataField THEN f
    ELSE [f EXCEPT !.strings = Append(@, [kind |-> "text", of |-> text, size |-> TextSize[text]])]

(***************************************************************************)
(* The temporaries.  Those of one byte are numbered on their own, then     *)
(* moved below the others.                                                 *)
(***************************************************************************)
AddTemporaryVariable1Byte(f, name) ==
    [f EXCEPT !.offset1 = @ - 1,
              !.temps1 = Append(@, [name |-> name, size |-> 1, offset |-> f.offset1 - 1])]

AddTemporaryVariable8Bytes(f, name, size) ==
    [f EXCEPT !.offset8 = @ - size,
              !.temps8 = Append(@, [name |-> name, size |-> size, offset |-> f.offset8 - size])]

AddTemporaryVariable(f, d) ==
    CASE d.type = "Boolean" /\ ~d.full                          -> AddTemporaryVariable1Byte(f, d.name)
      [] d.type \in {"Integer", "Double", "%mxcsr"} /\ ~d.full  -> AddTemporaryVariable8Bytes(f, d.name, 8)
      [] OTHER                                      -> AddTemporaryVariable8Bytes(f, d.name, VariableSize)

(* Mutant: the slots of one byte stay where they were numbered.            *)
AdjustNothing(f) == f

AdjustTemporaryOffset1Byte(f) ==
    [f EXCEPT !.temps1 = [i \in DOMAIN f.temps1 |->
                             [f.temps1[i] EXCEPT !.offset = @ + f.offset8]]]

SizeOfTemporaryVariables(f) == ((7 - f.offset1) \div 8) * 8 - f.offset8

AddExternVariable(f, d) ==
    [WithName(f, d.name) EXCEPT
        !.externs = Append(@, [name |-> d.name, nameAt |-> StringsSize(f)])]

(* Only a string has an entry of its own; the name of every private        *)
(* variable is added to the strings.                                       *)
AddPrivateVariable(f, d) ==
    LET named == [f EXCEPT !.strings = Append(@, [kind |-> "name", of |-> d.name,
                                                  size |-> NameSize[d.name]])]
    IN  CASE d.type = "Boolean"             -> [named EXCEPT !.boolPrivate = Append(@, d.name)]
          [] d.type \in {"Integer", "Double"} -> [named EXCEPT !.numberPrivate = Append(@, d.name)]
          [] d.type = "String" ->
                [named EXCEPT !.stringPrivate =
                    Append(@, [name |-> d.name, nameAt |-> 0, nameSize |-> 0,
                               text |-> "", dataAt |-> 0, dataSize |-> 0])]

AddConstantNumber(f, number) ==
    IF \E i \in DOMAIN f.numberPrivate : f.numberPrivate[i] = number THEN f
    ELSE [f EXCEPT !.numberPrivate = Append(@, number)]

(* add_constant() of a text compares it with the "@s" constants before.    *)
ConstantsOf(f) == {i \in DOMAIN f.stringPrivate :
                      \E n \in DOMAIN ConstantNames : f.stringPrivate[i].name = ConstantNames[n]}

SameText(entry, text) == entry.dataSize = TextSize[text] /\ entry.text = text

AddConstantText(f, text) ==
    IF \E i \in ConstantsOf(f) : SameText(f.stringPrivate[i], text) THEN f
    ELSE LET name  == ConstantNames[Cardinality(ConstantsOf(f)) + 1]
             named == WithName(f, name)
         IN  [WithText(named, text) EXCEPT
                 !.stringPrivate = Append(@, [name |-> name, nameAt |-> StringsSize(f),
                                              nameSize |-> NameSize[name], text |-> text,
                                              dataAt |-> StringsSize(named),
                                              dataSize |-> TextSize[text]])]

(***************************************************************************)
(* The code: instructions of some bytes, with a displacement of four       *)
(* before the immediate, if any; the processor adds the displacement to    *)
(* the address of the next instruction.  `immediate` is kept for Resolved  *)
(* only: the bytes between the displacement and that instruction.          *)
(***************************************************************************)
AddText(f, size) == [f EXCEPT !.text = @ + size]

(* Mutant: the next instruction is taken to follow the displacement.       *)
AddRelocationShort(f, name, type, opcode, immediate) ==
    [AddText(f, opcode + 4 + immediate) EXCEPT
        !.relocations = Append(@, [name |-> name, type |-> type, position |-> f.text + opcode,
                                   immediate |-> immediate, offset |-> f.text + opcode + 4])]

AddRelocation(f, name, type, opcode, immediate) ==
    [AddText(f, opcode + 4 + immediate) EXCEPT
        !.relocations = Append(@, [name |-> name, type |-> type, position |-> f.text + opcode,
                                   immediate |-> immediate, offset |-> f.text + opcode + 4 + immediate])]

AddLabel(f, label) ==
    [f EXCEPT !.labels = [l \in DOMAIN f.labels \cup {label} |->
                             IF l \in DOMAIN f.labels THEN f.labels[l] ELSE f.text]]

Align8(f) == AddText(f, (8 - (f.text % 8)) % 8)

(***************************************************************************)
(* save(): where each part goes, and the displacements.                    *)
(***************************************************************************)
TextOffset == HeaderSize
DataStart(f) == HeaderSize + f.text
StringPrivateOffset(f) == DataStart(f) + Len(f.externs) * VariableSize
NumberPrivateOffset(f) == StringPrivateOffset(f) + Len(f.stringPrivate) * VariableSize
BoolPrivateOffset(f) == NumberPrivateOffset(f) + Len(f.numberPrivate) * 8
(* Mutant: the booleans are forgotten.                                     *)
StringsOffsetOfNumbers(f) == BoolPrivateOffset(f)
StringsOffset(f) == BoolPrivateOffset(f) + Len(f.boolPrivate)
AfterStringsOffset(f) == StringsOffset(f) + StringsSize(f)

Position(names, name) == CHOOSE i \in DOMAIN names : names[i] = name
Names(entries) == [i \in DOMAIN entries |-> entries[i].name]

Extra(type) == CASE type = "VARIABLE_32BITS_DATA"      -> DataOffset
                 [] type = "VARIABLE_32BITS_DATA_SIZE" -> SizeOffset
                 [] OTHER                              -> 0

Displacement(f, r) ==
    CASE r.type = "LABEL_32BITS" -> f.labels[r.name] - r.offset
      [] r.type = "CONSTANT_32BITS" /\ r.name \in Numbers ->
             NumberPrivateOffset(f) - TextOffset + (Position(f.numberPrivate, r.name) - 1) * 8 - r.offset
      [] r.type = "CONSTANT_32BITS" /\ r.name \notin Numbers ->
             StringPrivateOffset(f) - TextOffset
                 + (Position(Names(f.stringPrivate), r.name) - 1) * VariableSize - r.offset
      [] OTHER ->
             DataStart(f) + VariableSize * (Position(Names(f.externs), r.name) - 1)
                 + Extra(r.type) - TextOffset - r.offset

Bytes(kind, name, size) == [k \in 1..size |-> <<kind, name, k - 1>>]

Written(f) ==
    Bytes("header", "", HeaderSize) \o Bytes("code", "", f.text)
    \o FlattenSeq([i \in DOMAIN f.externs |-> Bytes("extern", f.externs[i].name, VariableSize)])
    \o FlattenSeq([i \in DOMAIN f.stringPrivate |-> Bytes("string", f.stringPrivate[i].name, VariableSize)])
    \o FlattenSeq([i \in DOMAIN f.numberPrivate |-> Bytes("number", f.numberPrivate[i], 8)])
    \o FlattenSeq([i \in DOMAIN f.boolPrivate |-> Bytes("bool", f.boolPrivate[i], 1)])
    \o FlattenSeq([i \in DOMAIN f.strings |-> Bytes(f.strings[i].kind, f.strings[i].of, f.strings[i].size)])
    \o Bytes("padding", "", (4 - (AfterStringsOffset(f) % 4)) % 4)
    \o Bytes("magic", "", 4)

(* The offsets of the long names and texts become offsets in the file.     *)
Saved(f) ==
    [bytes     |-> Written(f),
     fileSize  |-> ((AfterStringsOffset(f) + 3) \div 4) * 4 + 4,
     variables |-> DataStart(f),
     counted   |-> Len(f.externs) + Len(f.stringPrivate),
     displaced |-> [i \in DOMAIN f.relocations |-> Displacement(f, f.relocations[i])],
     table     |-> [i \in DOMAIN f.externs |->
                       [name |-> f.externs[i].name, nameSize |-> NameSize[f.externs[i].name],
                        nameAt |-> f.externs[i].nameAt + StringsOffset(f),
                        text |-> "", dataSize |-> 0, dataAt |-> 0]]
                   \o [i \in DOMAIN f.stringPrivate |->
                       [f.stringPrivate[i] EXCEPT !.nameAt = @ + StringsOffset(f),
                                                  !.dataAt = @ + StringsOffset(f)]]]

(* load() turns the offsets of the long texts of the first variables into  *)
(* addresses; names stay offsets.                                          *)
Loaded(i) ==
    [i EXCEPT !.table = [n \in DOMAIN i.table |->
        IF n <= i.counted /\ i.table[n].dataSize > DataField
        THEN [i.table[n] EXCEPT !.dataAt = @ + Base] ELSE i.table[n]]]
-----------------------------------------------------------------------------
AddVariable ==
    /\ phase = "variables"
    /\ \E i \in left :
           /\ \A j \in left : i <= j
           /\ LET d == Declarations[i]
              IN  file' = CASE d.where = "temporary" -> AddTemporaryVariable(file, d)
                            [] d.where = "extern"    -> AddExternVariable(file, d)
                            [] d.where = "private"   -> AddPrivateVariable(file, d)
           /\ left' = left \ {i}
    /\ UNCHANGED <<data, phase, image>>

AdjustTemporaries ==
    /\ phase = "variables" /\ left = {}
    /\ file' = AdjustTemporaryOffset1Byte(file)
    /\ phase' = "constants"
    /\ UNCHANGED <<data, left, image>>

(* The data of the flattened nodes, then the constants of the code itself. *)
AddConstant ==
    /\ phase \in {"constants", "code"}
    /\ \/ \E number \in Numbers : file' = AddConstantNumber(file, number) /\ UNCHANGED data
       \/ \E text \in Texts : /\ phase = "constants"
                              /\ file' = AddConstantText(file, text)
                              /\ data' = data \cup {text}
    /\ UNCHANGED <<left, phase, image>>

Generate ==
    /\ phase = "constants"
    /\ file' = AddText(file, 4)
    /\ phase' = "code"
    /\ UNCHANGED <<data, left, image>>

References ==
    {[name |-> file.externs[i].name, type |-> type] : i \in DOMAIN file.externs,
        type \in {"VARIABLE_32BITS", "VARIABLE_32BITS_DATA", "VARIABLE_32BITS_DATA_SIZE"}}
    \cup {[name |-> file.stringPrivate[i].name, type |-> "CONSTANT_32BITS"] : i \in ConstantsOf(file)}
    \cup {[name |-> n, type |-> "CONSTANT_32BITS"] :
            n \in {file.numberPrivate[i] : i \in DOMAIN file.numberPrivate} \cap Numbers}
    \cup {[name |-> label, type |-> "LABEL_32BITS"] : label \in Labels}

Instruction ==
    /\ phase = "code" /\ file.text < MaxText
    /\ \E r \in References, immediate \in {0, 1} :
           /\ r.type = "LABEL_32BITS" => immediate = 0
           /\ file' = AddRelocation(file, r.name, r.type, 3, immediate)
    /\ UNCHANGED <<data, left, phase, image>>

PlaceLabel ==
    /\ phase = "code"
    /\ \E label \in Labels \ DOMAIN file.labels : file' = AddLabel(file, label)
    /\ UNCHANGED <<data, left, phase, image>>

(* The labels a jump names are all placed by the end of the code.          *)
Return ==
    /\ phase = "code"
    /\ \A i \in DOMAIN file.relocations :
           file.relocations[i].type = "LABEL_32BITS" => file.relocations[i].name \in DOMAIN file.labels
    /\ file' = Align8(AddText(file, 2))
    /\ phase' = "generated"
    /\ UNCHANGED <<data, left, image>>

Save ==
    /\ phase = "generated"
    /\ image' = Saved(file)
    /\ phase' = "saved"
    /\ UNCHANGED <<file, data, left>>

Load ==
    /\ phase = "saved"
    /\ image' = Loaded(image)
    /\ phase' = "loaded"
    /\ UNCHANGED <<file, data, left>>

Next == AddVariable \/ AdjustTemporaries \/ AddConstant \/ Generate \/ Instruction
        \/ PlaceLabel \/ Return \/ Save \/ Load

Spec == Init /\ [][Next]_vars
-----------------------------------------------------------------------------
(***************************************************************************)
(* Properties.                                                             *)
(***************************************************************************)
Range8 == {file.temps8[i] : i \in DOMAIN file.temps8}
Range1 == {file.temps1[i] : i \in DOMAIN file.temps1}

Apart(s, t) == s.offset + s.size <= t.offset \/ t.offset + t.size <= s.offset

(* Once the slots of one byte are moved, no two temporaries share a byte   *)
(* of the frame, none reaches the saved %rbp above it, and all are within  *)
(* the space the code takes from the stack (binary.cpp:2893, 3606).        *)
FrameDisjoint ==
    phase # "variables" =>
        /\ \A i, j \in DOMAIN file.temps8 : i # j => Apart(file.temps8[i], file.temps8[j])
        /\ \A i, j \in DOMAIN file.temps1 : i # j => Apart(file.temps1[i], file.temps1[j])
        /\ \A s \in Range8, t \in Range1 : Apart(s, t)
        /\ \A s \in Range8 \cup Range1 :
               s.offset + s.size <= 0 /\ s.offset >= -SizeOfTemporaryVariables(file)

At(i, offset) == i.bytes[offset + 1]

Target(r) ==
    CASE r.type = "LABEL_32BITS" -> <<"code", "", file.labels[r.name]>>
      [] r.type = "CONSTANT_32BITS" /\ r.name \in Numbers    -> <<"number", r.name, 0>>
      [] r.type = "CONSTANT_32BITS" /\ r.name \notin Numbers -> <<"string", r.name, 0>>
      [] OTHER -> <<"extern", r.name, Extra(r.type)>>

(* The processor adds a displacement to the place of the instruction that  *)
(* follows, whatever offset the relocation was given.                      *)
NextInstruction(r) == TextOffset + r.position + 4 + r.immediate

(* Once saved, the processor finds at each displacement the very byte the  *)
(* instruction names: the field of the variable, the constant or the code  *)
(* at the label (save(), binary.cpp:3303).                                 *)
Resolved ==
    image # NoImage =>
        \A n \in DOMAIN file.relocations :
            LET r == file.relocations[n]
            IN  At(image, NextInstruction(r) + image.displaced[n]) = Target(r)

(* load() finds each variable in the table at its place, its long name at  *)
(* an offset of the file and its long text at an address in memory, and    *)
(* exactly as many bytes as the header says (binary.cpp:3477, 3745).       *)
ReadBack ==
    /\ image # NoImage => Len(image.bytes) = image.fileSize
    /\ phase = "loaded" =>
        \A n \in DOMAIN image.table :
            LET v == image.table[n] IN
            /\ At(image, image.variables + (n - 1) * VariableSize)
                   \in {<<"extern", v.name, 0>>, <<"string", v.name, 0>>}
            /\ v.nameSize > NameField => At(image, v.nameAt) = <<"name", v.name, 0>>
            /\ v.dataSize > DataField => At(image, v.dataAt - Base) = <<"text", v.text, 0>>

=============================================================================
