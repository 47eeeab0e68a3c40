SPECIFICATION Spec
CONSTANTS
    s1 = s1
    s2 = s2
    h1 = h1
    h2 = h2
    h3 = h3
    f1 = f1
    kAll = kAll
    kOne = kOne
    Symbol = Symbol
    Null = Null
    Slots = {s1, s2}
    ImageCount = 3
    ImageSlots <- SlotsOfImages
    TooLarge = {3}
    Hooks = {h1, h2, h3}
    Scope <- Scopes
    Keys = {kAll, kOne}
    Key <- KeyOf
    NeedsOriginal = {h1, h3}
    Foreign = {f1}
    Faults = {"record", "protect", "restore"}
INVARIANTS
    SlotsMatchOutcome
    ChainBreaksReported
PROPERTIES
    OnlyForeignWorkLost
CHECK_DEADLOCK FALSE
