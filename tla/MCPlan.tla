------------------------------- MODULE MCPlan -------------------------------
(* Small callers: which hooks a plan may be given in each run.              *)
EXTENDS HKPlan

CONSTANTS d1, k1, k2, k3, e1, e2

Request(d, o, a, r, v, k, e) ==
    [domain |-> d, order |-> o, after |-> a, role |-> r, availability |-> v,
     key |-> k, engine |-> e]

DomainOrders == [d \in Domains |-> 1]

\* One gated domain with a dependency and a deferred member, and a dependent
\* outside it.
DomainRequests ==
    {Request(d1, 1, {}, "MANDATORY", "REQUIRED_NOW", k1, e1),
     Request(d1, 0, {1}, "MANDATORY", "DEFER_UNTIL_AVAILABLE", k2, e1),
     Request(NoDomain, 0, {1}, "OPTIONAL", "OPTIONAL_IF_PRESENT", k3, e1)}

\* Hooks that share an engine with group callbacks, and one that depends on the
\* first hook and so is never grouped.
GroupRequests ==
    {Request(NoDomain, 0, {}, "OPTIONAL", "REQUIRED_NOW", k1, e1),
     Request(NoDomain, 0, {}, "OPTIONAL", "DEFER_UNTIL_AVAILABLE", k2, e1),
     Request(NoDomain, 0, {1}, "OPTIONAL", "REQUIRED_NOW", k3, e1)}

\* A gated domain and a deferred dependent: enough for the liveness properties.
DeferredRequests ==
    {Request(d1, 0, {}, "MANDATORY", "REQUIRED_NOW", k1, e1),
     Request(d1, 1, {}, "MANDATORY", "DEFER_UNTIL_AVAILABLE", k2, e1)}
=============================================================================
