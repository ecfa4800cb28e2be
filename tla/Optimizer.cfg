SPECIFICATION Spec
CONSTANTS
    Width = 4
    Turns = 2
    Trees <- MCTrees
    Environments <- MCEnvironments
INVARIANTS SameOutcome TreeKept NothingLeft
PROPERTIES Returns
CHECK_DEADLOCK FALSE
