SPECIFICATION Spec
CONSTANTS
    HookCount = 4
    MaxOrder = 1
INVARIANTS
    StableTopologicalOrder
CHECK_DEADLOCK FALSE
