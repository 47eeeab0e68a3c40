SPECIFICATION FairSpec
CONSTANTS
    A = A
    B = B
    h1 = h1
    h2 = h2
    h3 = h3
    h4 = h4
    f1 = f1
    f2 = f2
    kA = kA
    kAddr = kAddr
    kB = kB
    None = None
    Key <- KeyOf
    Classes = {A}
    Above <- OneClass
    Hooks = {h1, h2, h3}
    Patches = {h1, h2, h3, f1}
    Target <- TargetsA
    Keys = {kA, kAddr}
    LocalOnly = {}
    Serialized = FALSE
    Faults = {"artifact", "owner", "installed"}
INVARIANTS
    ChainedOnOwner
PROPERTIES
    CommitsSettle
CHECK_DEADLOCK FALSE
