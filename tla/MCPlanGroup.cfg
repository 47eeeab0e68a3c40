SPECIFICATION Spec
CONSTANTS
    d1 = d1
    k1 = k1
    k2 = k2
    k3 = k3
    e1 = e1
    e2 = e2
    MaxHooks = 3
    MaxGeneration = 0
    Domains = {}
    NoDomain = NoDomain
    DomainOrder <- DomainOrders
    RequireAll = {}
    Keys = {k1, k2, k3}
    Engines = {e1}
    Nobody = Nobody
    Grouping = {e1}
    Chainable = {e1}
    Compensating = {e1}
    Requests <- GroupRequests
    Faults = {"oom", "bookkeeping"}
INVARIANTS
    HonestResult
    PreparationsBalanced
    DependentsFollow
CHECK_DEADLOCK FALSE
