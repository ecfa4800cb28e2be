SPECIFICATION Spec
CONSTANTS
    Width = 4
    Turns = 2
    Trees <- LogicTrees
    Environments <- MCEnvironments
INVARIANTS NoEffectInOutput
CHECK_DEADLOCK FALSE
