SPECIFICATION Spec
CONSTANTS
    d1 = d1
    k1 = k1
    k2 = k2
    k3 = k3
    e1 = e1
    e2 = e2
    MaxHooks = 3
    MaxGeneration = 1
    Domains = {d1}
    NoDomain = NoDomain
    DomainOrder <- DomainOrders
    RequireAll = {d1}
    Keys = {k1, k2, k3}
    Engines = {e1, e2}
    Nobody = Nobody
    Grouping = {}
    Chainable = {e1}
    Compensating = {}
    Requests <- DomainRequests
    Faults = {}
INVARIANTS
    HonestResult
    PreparationsBalanced
    RollupMatchesHooks
    DependentsFollow
PROPERTIES
    DomainStartsWhole
CHECK_DEADLOCK FALSE
