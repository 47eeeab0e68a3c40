SPECIFICATION Spec
CONSTANTS
    m = m
    f = f
    g = g
    h = h
    u = u
    p = p
    Ops = {m, f, g, h, u, p}
    Kind <- KindOf
    Target <- TargetOf
    WantsOld = {m, f}
    Requests <- Together
    Describes = {m}
    Unnamed = {u}
    Toggles = 1
    Faults = {"runtime", "plan", "analyze", "malloc", "report"}
INVARIANT QueuedHooksRun
CHECK_DEADLOCK FALSE
