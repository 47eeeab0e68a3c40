SPECIFICATION Spec
CONSTANTS
    r10 = r10
    r11 = r11
    s10 = s10
    t11 = t11
    m10 = m10
    Words = {10, 11}
    Initial <- Unhooked
    VMPages <- OnePage
    Slots = {14, 40}
    Anonymous = {13, 30}
    Range = 4
    Hooks = {r10, r11, s10, t11, m10}
    Requests <- Together
    Kind <- KindOf
    Target <- TargetOf
    Size <- SizeOf
    Bytes <- Undo
    Replacement <- ReplacementOf
    Expected <- ExpectationOf
    NeedsOriginal = {r10, r11, s10}
    Misplaced = {}
    ForeignCode <- ForeignOnes
    Faults = {"malloc", "unprotect", "map", "seal", "protect", "restore",
              "remap", "record"}
INVARIANTS
    CallablePagesStand
    BackingBalanced
    ResultsAreTrue
PROPERTIES
    OnlyForeignWorkLost
CHECK_DEADLOCK FALSE
