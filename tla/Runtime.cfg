SPECIFICATION Spec
CONSTANTS
    b1 = b1
    b2 = b2
    b3 = b3
    theResult = theResult
    theExtern = theExtern
    theTemp = theTemp
    theConstant = theConstant
    address = address
    Word = 1
    Null = Null
    Followed <- MCFollowed
    Result = theResult
    Temps = {theTemp}
    Buffers <- MCBuffers
    Literals <- MCLiterals
    Order <- MCOrder
    Consts <- MCConsts
    Inputs <- MCInputs
    Counts <- MCCounts
INVARIANTS Ownership
PROPERTIES ImplementsTexts
SYMMETRY BufferSymmetry
VIEW WithoutCall
