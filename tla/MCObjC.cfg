SPECIFICATION Spec
CONSTANTS
    A = A
    B = B
    h1 = h1
    h2 = h2
    h3 = h3
    h4 = h4
    f1 = f1
    f2 = f2
    kA = kA
    kAddr = kAddr
    kB = kB
    None = None
    Key <- KeyOf
    Classes = {A, B}
    Above <- TwoClasses
    Hooks = {h1, h2, h3, h4}
    Patches = {h1, h2, h3, h4, f1, f2}
    Target <- Targets
    Keys = {kA, kAddr, kB}
    LocalOnly = {h3}
    Serialized = TRUE
    Faults = {}
INVARIANTS
    ActiveHooksReachable
PROPERTIES
    ImplementsMethodChain
CHECK_DEADLOCK FALSE
