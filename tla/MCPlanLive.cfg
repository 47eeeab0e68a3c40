SPECIFICATION FairSpec
CONSTANTS
    d1 = d1
    k1 = k1
    k2 = k2
    k3 = k3
    e1 = e1
    e2 = e2
    MaxHooks = 2
    MaxGeneration = 1
    Domains = {d1}
    NoDomain = NoDomain
    DomainOrder <- DomainOrders
    RequireAll = {d1}
    Keys = {k1, k2}
    Engines = {e1, e2}
    Nobody = Nobody
    Grouping = {}
    Chainable = {e1}
    Compensating = {}
    Requests <- DeferredRequests
    Faults = {}
PROPERTIES
    DeferredHookSettles
    CallsReturn
CHECK_DEADLOCK FALSE
