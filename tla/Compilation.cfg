SPECIFICATION Spec
CONSTANTS
    WideIntegers = {"big"}
    Scripts <- MCScripts
    Variables <- MCVariables
    DoubleBits <- MCDoubleBits
    LiteralBits <- MCLiteralBits
INVARIANTS Computes CompilesAll StringsOwned
CHECK_DEADLOCK FALSE
