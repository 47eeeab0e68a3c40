SPECIFICATION Spec
CONSTANTS
    d = d
    g1 = g1
    g2 = g2
    e1 = e1
    e2 = e2
    s1 = s1
    s2 = s2
    Hooks = {d, g1, g2, e1, e2, s1, s2}
    Scenarios <- Cases
    Kind <- KindOf
    Targets = {t}
    Target <- OneTarget
    WantsOriginal = {d, g1, e1, s1}
    Expects <- ExpectsOf
    PolicyAny = {d, g1, g2, e1, e2, s1, s2}
    OffMain = {}
    Global = {"libellekit", "CydiaSubstrate"}
    Code = Code
    Foreign = Foreign
    Torn = Torn
    Free = Free
    ForeignWrites = 1
    Faults = {"dlopen", "read", "seam", "record"}
INVARIANTS
    VerdictsMatchDisk
    EffectsAccounted
    OriginalsStand
    SafeMeansUntouched
PROPERTIES
    DisplacedAsInspected
    RequestsEnd
CHECK_DEADLOCK FALSE
