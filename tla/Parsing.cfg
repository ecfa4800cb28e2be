SPECIFICATION Spec
CONSTANTS
    Trees <- MCTrees
    Texts <- MCTexts
INVARIANTS RoundTrip NothingLost Ends
CHECK_DEADLOCK FALSE
