SPECIFICATION Spec
CONSTANTS
    HeaderSize = 24
    VariableSize = 24
    NameField = 4
    DataField = 8
    DataOffset = 16
    SizeOffset = 12
    Declarations <- MCDeclarations
    Numbers = {"@number"}
    Texts = {"one", "two"}
    NameSize <- MCNameSize
    TextSize <- MCTextSize
    ConstantNames <- MCConstantNames
    Labels = {"label"}
    MaxText = 12
    Base = 4096
INVARIANTS FrameDisjoint Resolved ReadBack
CHECK_DEADLOCK FALSE
