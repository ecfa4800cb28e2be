SPECIFICATION Spec
CONSTANTS
    NoName = "none"
    Bodies <- MCBodies
INVARIANTS JumpsLand InaccessibleIsTrue NamespacesInScope RecompiledAlike TryComplete
CHECK_DEADLOCK FALSE
