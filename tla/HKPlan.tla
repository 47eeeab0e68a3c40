------------------------------- MODULE HKPlan -------------------------------
(***************************************************************************)
(* The life of one plan and of the hooks it defers (src/core/HKPlan.c):    *)
(* define domains and add hooks, analyze, prepare, commit, release, then   *)
(* drain the runtime's queue of pending hooks.  Each call runs to its end  *)
(* on the caller's thread, one action per hook it visits, while other      *)
(* threads of the process take ownership of targets and make targets       *)
(* appear.                                                                 *)
(*                                                                         *)
(* Engines are known only through their contract: an attempt to prepare or *)
(* to commit is drawn from the answers the core has to handle.  Two ghost  *)
(* variables keep what the engine really did: live, the prepared states it *)
(* has handed out and not got back, and wrote, the targets it has changed. *)
(***************************************************************************)
EXTENDS HKCommitOrder, Integers, FiniteSets

CONSTANTS
    MaxHooks,        \* bound on plan->hook_count
    MaxGeneration,   \* bound on the image catalog's generation
    Requests,        \* the hook specs a caller may add
    Domains,         \* the domain specs a caller may define
    NoDomain,        \* hook->spec.domain == NULL
    DomainOrder,     \* [Domains -> Nat]: domain_order
    RequireAll,      \* the domains with require_all_mandatory_prepared
    Keys,            \* canonical target keys
    Engines,         \* engine ids
    Nobody,          \* no ownership record for a key
    Grouping,        \* engines with native_grouping and the group callbacks
    Chainable,       \* engines whose chainable_target_kinds cover the target
    Compensating,    \* engines with supports_compensation
    Faults           \* the failures explored, see FaultKinds

Hook == 1..MaxHooks

\* "oom": a report, a group array or a queue slot cannot be allocated;
\* "bookkeeping": an artifact or ownership record cannot; "stranded": a group
\* callback that returns false had already allocated prepared states.
FaultKinds == {"oom", "bookkeeping", "stranded"}

NoRequest == [domain |-> NoDomain, order |-> 0, after |-> {},
              role |-> "OPTIONAL", availability |-> "REQUIRED_NOW",
              key |-> Nobody, engine |-> Nobody]

ASSUME BoundsAssumption == MaxHooks \in Nat /\ MaxGeneration \in Nat
ASSUME RequestsAssumption ==
    Requests \subseteq
        [domain : Domains \cup {NoDomain}, order : Nat, after : SUBSET Hook,
         role : {"MANDATORY", "OPTIONAL"},
         availability : {"REQUIRED_NOW", "OPTIONAL_IF_PRESENT",
                         "DEFER_UNTIL_AVAILABLE"},
         key : Keys, engine : Engines]
ASSUME DomainsAssumption ==
    /\ NoDomain \notin Domains
    /\ DomainOrder \in [Domains -> Nat]
    /\ RequireAll \subseteq Domains
ASSUME EnginesAssumption ==
    /\ Nobody \notin Engines
    /\ Grouping \subseteq Engines
    /\ Chainable \subseteq Engines
    /\ Compensating \subseteq Engines
    /\ Faults \subseteq FaultKinds

PlanStates == {"DRAFT", "ANALYZED", "PREPARED", "COMMITTED", "PARTIAL",
               "FAILED", "RELEASED"}
Outcomes == {"UNANALYZED", "NO_ROUTE", "ANALYZED", "PREPARED", "PENDING",
             "ACTIVE", "STALE_PLAN", "CONFLICT", "FAILED_SAFE",
             "FAILED_PARTIAL", "FAILED_UNKNOWN", "COMPENSATED"}
Mutations == {"NONE", "COMPLETE", "PARTIAL", "UNKNOWN"}

VARIABLES
    generation,      \* the runtime's image catalog generation
    present,         \* keys whose target exists in the process
    owner,           \* the process-wide ownership ledger: key -> engine id
    state,           \* plan->state, "RELEASED" once the plan is freed
    domains,         \* plan->domains
    hookCount,       \* plan->hook_count
    spec,            \* hook->spec
    outcome,         \* hook->result.outcome
    mutation,        \* hook->result.mutation
    imageGeneration, \* hook->result.image_generation
    preparedState,   \* hook->prepared_state # NULL
    home,            \* who owns the hook: "none", "plan", "queue", "freed"
    artifacts,       \* hooks whose artifacts a report has delivered
    runtime,         \* "live" or "released"
    live, wrote,     \* ghosts, see above
    call,            \* the call in progress
    step,            \* where a commit is within one hook
    cursor,          \* the prepare loop's index
    gateOk,          \* domain_gate_ok
    domainFailed,    \* domain_prepare_failed
    todo,            \* commit and drain: hooks still to visit
    visited,         \* commit: hooks already visited
    group,           \* commit: the group being collected
    ledger,          \* hooks with artifacts in the call's own ledger
    attempted, succeeded, failed    \* the call's counters

process == <<generation, present, owner>>
planVars == <<state, domains, hookCount, spec, runtime>>
resultVars == <<outcome, mutation, imageGeneration>>
engineVars == <<preparedState, live>>
loopVars == <<step, cursor, gateOk, domainFailed, todo, visited, group>>
counters == <<attempted, succeeded, failed>>
vars == <<process, planVars, resultVars, engineVars, home, artifacts, wrote,
          call, loopVars, ledger, counters>>

Init ==
    /\ generation = 0
    /\ present \in SUBSET Keys
    /\ owner = [k \in Keys |-> Nobody]
    /\ state = "DRAFT"
    /\ domains = {}
    /\ hookCount = 0
    /\ spec = [h \in Hook |-> NoRequest]
    /\ outcome = [h \in Hook |-> "UNANALYZED"]
    /\ mutation = [h \in Hook |-> "NONE"]
    /\ imageGeneration = [h \in Hook |-> 0]
    /\ preparedState = [h \in Hook |-> FALSE]
    /\ home = [h \in Hook |-> "none"]
    /\ artifacts = {}
    /\ runtime = "live"
    /\ live = [h \in Hook |-> 0]
    /\ wrote = {}
    /\ call = "none"
    /\ step = "visit"
    /\ cursor = 1
    /\ gateOk = {}
    /\ domainFailed = {}
    /\ todo = {}
    /\ visited = {}
    /\ group = {}
    /\ ledger = {}
    /\ attempted = 0 /\ succeeded = 0 /\ failed = 0

InPlan == 1..hookCount
Members(d) == {h \in InPlan : spec[h].domain = d}
Mandatory(d) == {h \in Members(d) : spec[h].role = "MANDATORY"}
PreparedMembers(d) == {h \in Members(d) : outcome[h] = "PREPARED"}
Current(h) == imageGeneration[h] = generation

\* The call returns and its locals are gone.
CallReturns ==
    /\ call' = "none"
    /\ step' = "visit"
    /\ cursor' = 1
    /\ gateOk' = {} /\ domainFailed' = {}
    /\ todo' = {} /\ visited' = {} /\ group' = {}
    /\ ledger' = {}
    /\ attempted' = 0 /\ succeeded' = 0 /\ failed' = 0

\* hk_hook_release_prepared on every hook of S.
ReleasePrepared(S) ==
    /\ preparedState' = [h \in Hook |-> h \notin S /\ preparedState[h]]
    /\ live' = [h \in Hook |->
                   IF h \in S /\ preparedState[h] THEN live[h] - 1 ELSE live[h]]

-----------------------------------------------------------------------------
(* The rest of the process.                                                *)

\* A target (a class, an image) becomes available.
TargetAppears(k) ==
    /\ k \notin present
    /\ present' = present \cup {k}
    /\ UNCHANGED <<generation, owner, planVars, resultVars, engineVars, home,
                   artifacts, wrote, call, loopVars, ledger, counters>>

\* hk_image_catalog_add_entry, by whoever keeps the runtime's catalog, between
\* two calls: the catalog has no lock.
CatalogGrows ==
    /\ call = "none"
    /\ generation < MaxGeneration
    /\ generation' = generation + 1
    /\ UNCHANGED <<present, owner, planVars, resultVars, engineVars, home,
                   artifacts, wrote, call, loopVars, ledger, counters>>

\* Another plan of the process commits a hook on the key, under the lock.
OtherConsumerInstalls(k, e) ==
    /\ owner[k] = Nobody
    /\ owner' = [owner EXCEPT ![k] = e]
    /\ UNCHANGED <<generation, present, planVars, resultVars, engineVars, home,
                   artifacts, wrote, call, loopVars, ledger, counters>>

-----------------------------------------------------------------------------
(* Building and analyzing the plan.                                        *)

\* hk_plan_define_domain.
DefineDomain(d) ==
    /\ call = "none"
    /\ state = "DRAFT"
    /\ d \notin domains
    /\ domains' = domains \cup {d}
    /\ UNCHANGED <<process, state, hookCount, spec, runtime, resultVars,
                   engineVars, home, artifacts, wrote, call, loopVars, ledger,
                   counters>>

\* hk_plan_add_hook: a known domain, dependencies already in the plan, a target
\* key no other hook of the plan has.  Every refusal leaves the plan alone.
AddHook(r) ==
    /\ call = "none"
    /\ state = "DRAFT"
    /\ hookCount < MaxHooks
    /\ r.domain \in domains \cup {NoDomain}
    /\ r.after \subseteq InPlan
    /\ \A h \in InPlan : spec[h].key # r.key
    /\ hookCount' = hookCount + 1
    /\ spec' = [spec EXCEPT ![hookCount + 1] = r]
    /\ home' = [home EXCEPT ![hookCount + 1] = "plan"]
    /\ UNCHANGED <<process, state, domains, runtime, resultVars, engineVars,
                   artifacts, wrote, call, loopVars, ledger, counters>>

\* hk_plan_analyze: each hook finds a route or not.  When the report cannot be
\* allocated the results stay written and the plan stays DRAFT.
Analyze ==
    /\ call = "none"
    /\ state = "DRAFT"
    /\ \E routed \in SUBSET InPlan, reported \in BOOLEAN :
          /\ reported \/ "oom" \in Faults
          /\ outcome' = [h \in Hook |->
                            IF h \notin InPlan THEN outcome[h]
                            ELSE IF h \in routed THEN "ANALYZED" ELSE "NO_ROUTE"]
          /\ imageGeneration' = [h \in Hook |->
                            IF h \in InPlan THEN generation
                            ELSE imageGeneration[h]]
          /\ state' = IF reported THEN "ANALYZED" ELSE "DRAFT"
    /\ UNCHANGED <<process, domains, hookCount, spec, runtime, mutation,
                   engineVars, home, artifacts, wrote, call, loopVars, ledger,
                   counters>>

-----------------------------------------------------------------------------
(* Preparing.                                                              *)

PrepareAttemptKinds == {"ok", "stateless", "inspect", "undeclared", "failed",
                        "not_applicable", "holding"}

\* What hk_hook_dispatch_prepare can meet.  "ok" and "stateless" succeed with
\* and without a prepared state; "inspect" succeeds but its continuation cannot
\* be inspected; "undeclared" succeeds with an undeclared effect.
PrepareAttempts(h) ==
    IF spec[h].key \in present
    THEN {"ok", "stateless", "inspect", "undeclared", "failed"}
    ELSE {"failed"} \cup IF spec[h].availability = "REQUIRED_NOW" THEN {}
                         ELSE {"not_applicable"}

\* A group callback may also fail an operation and leave it a prepared state.
GroupPrepareAttempts(h) ==
    PrepareAttempts(h) \cup IF spec[h].key \in present THEN {"holding"} ELSE {}

PrepareResult(a) ==
    CASE a \in {"ok", "stateless"} -> "OK"
      [] a = "not_applicable"      -> "NOT_APPLICABLE"
      [] OTHER                     -> "FAILED"

PrepareOutcome(h, a) ==
    CASE PrepareResult(a) = "OK"     -> "PREPARED"
      [] PrepareResult(a) = "FAILED" -> "FAILED_SAFE"
      [] OTHER -> IF spec[h].availability = "DEFER_UNTIL_AVAILABLE"
                  THEN "PENDING" ELSE "NO_ROUTE"

Allocated(a) ==
    IF a \in {"ok", "inspect", "undeclared", "holding", "dropped"} THEN 1 ELSE 0

\* Mutant: an uninspectable continuation does not release the prepared state.
ReleasedAtOnceNoInspect(a) == IF a \in {"undeclared", "holding"} THEN 1 ELSE 0

\* Mutant: a failed group operation keeps the state it was left.
ReleasedAtOnceNoHolding(a) == IF a \in {"inspect", "undeclared"} THEN 1 ELSE 0

\* What inspection, effect validation and hk_plan_record_prepare_attempt give
\* back at once because the attempt did not end as HK_PREPARE_OK.
ReleasedAtOnce(a) == IF a \in {"inspect", "undeclared", "holding"} THEN 1 ELSE 0

Held(h) == IF preparedState[h] THEN 1 ELSE 0

\* Prepared states after attempts att, a function of the hooks just attempted,
\* and the release of the hooks in R.
EngineStateAfterPrepare(att, R) ==
    /\ preparedState' = [h \in Hook |->
            IF h \in DOMAIN att THEN att[h] = "ok"
            ELSE preparedState[h] /\ h \notin R]
    /\ live' = [h \in Hook |->
            IF h \in DOMAIN att
            THEN live[h] - Held(h) + Allocated(att[h]) - ReleasedAtOnce(att[h])
            ELSE IF h \in R THEN live[h] - Held(h) ELSE live[h]]

\* The first part of hk_plan_prepare: the gate is evaluated once, on what
\* analysis found.
PrepareBegin ==
    /\ call = "none"
    /\ state = "ANALYZED"
    /\ call' = "prepare"
    /\ gateOk' = {d \in domains :
                    d \in RequireAll =>
                        \A h \in Mandatory(d) : outcome[h] = "ANALYZED"}
    /\ UNCHANGED <<process, planVars, resultVars, engineVars, home, artifacts,
                   wrote, step, cursor, domainFailed, todo, visited, group,
                   ledger, counters>>

\* A mandatory member of a gated domain failed: the domain is given up.
GateTrips(h) ==
    /\ spec[h].domain \in gateOk \cap RequireAll
    /\ spec[h].role = "MANDATORY"

\* Mutant: every member of the domain is counted as released.
DomainReleasesAnyMember(h) ==
    IF GateTrips(h) THEN Members(spec[h].domain) \ {h} ELSE {}

\* Prepared members to release when hook h fails (hk_release_prepared_domain_members).
DomainReleases(h) == IF GateTrips(h) THEN PreparedMembers(spec[h].domain) ELSE {}

DomainFailedAfter(h) ==
    IF GateTrips(h) THEN domainFailed \cup {spec[h].domain} ELSE domainFailed

GateBlocked(h) ==
    /\ spec[h].domain # NoDomain
    /\ spec[h].domain \notin gateOk \/ spec[h].domain \in domainFailed

\* Hooks i..k can go to one prepare_group_ctx call.
PrepareRun(i, k) ==
    \A j \in i..k :
        /\ outcome[j] = "ANALYZED"
        /\ spec[j].domain = NoDomain
        /\ spec[j].engine = spec[i].engine
        /\ spec[j].engine \in Grouping
        /\ j > i => Current(j)

\* hk_plan_prepare_group_count reports a group that ends at k.
PrepareGroupEnds(i, k) ==
    /\ k \in (i + 1)..hookCount
    /\ PrepareRun(i, k)
    /\ k < hookCount => ~PrepareRun(i, k + 1)

PrepareGrouped(i) == \E k \in InPlan : PrepareGroupEnds(i, k)

AtHook == call = "prepare" /\ cursor <= hookCount

PrepareCarriesForward ==
    /\ AtHook
    /\ outcome[cursor] # "ANALYZED"
    /\ cursor' = cursor + 1
    /\ UNCHANGED <<process, planVars, resultVars, engineVars, home, artifacts,
                   wrote, call, step, gateOk, domainFailed, todo, visited,
                   group, ledger, counters>>

\* The image catalog changed since analysis.
PrepareStale ==
    /\ AtHook
    /\ outcome[cursor] = "ANALYZED"
    /\ ~PrepareGrouped(cursor)
    /\ ~Current(cursor)
    /\ LET R == DomainReleases(cursor)
       IN  /\ outcome' = [h \in Hook |->
                            IF h = cursor THEN "STALE_PLAN"
                            ELSE IF h \in R THEN "FAILED_SAFE" ELSE outcome[h]]
           /\ ReleasePrepared(R)
           /\ succeeded' = succeeded - Cardinality(R)
           /\ failed' = failed + 1 + Cardinality(R)
    /\ domainFailed' = DomainFailedAfter(cursor)
    /\ cursor' = cursor + 1
    /\ UNCHANGED <<process, planVars, mutation, imageGeneration, home,
                   artifacts, wrote, call, step, gateOk, todo, visited, group,
                   ledger, attempted>>

PrepareGateBlocked ==
    /\ AtHook
    /\ outcome[cursor] = "ANALYZED"
    /\ ~PrepareGrouped(cursor)
    /\ Current(cursor)
    /\ GateBlocked(cursor)
    /\ outcome' = [outcome EXCEPT ![cursor] = "FAILED_SAFE"]
    /\ attempted' = attempted + 1
    /\ failed' = failed + 1
    /\ cursor' = cursor + 1
    /\ UNCHANGED <<process, planVars, mutation, imageGeneration, engineVars,
                   home, artifacts, wrote, call, step, gateOk, domainFailed,
                   todo, visited, group, ledger, succeeded>>

\* One engine attempt and hk_plan_record_prepare_attempt.
PrepareHook ==
    /\ AtHook
    /\ outcome[cursor] = "ANALYZED"
    /\ ~PrepareGrouped(cursor)
    /\ Current(cursor)
    /\ ~GateBlocked(cursor)
    /\ \E a \in PrepareAttempts(cursor) :
          LET fails == PrepareResult(a) = "FAILED"
              R == IF fails THEN DomainReleases(cursor) ELSE {}
          IN  /\ outcome' = [h \in Hook |->
                                IF h = cursor THEN PrepareOutcome(h, a)
                                ELSE IF h \in R THEN "FAILED_SAFE"
                                ELSE outcome[h]]
              /\ EngineStateAfterPrepare([h \in {cursor} |-> a], R)
              /\ succeeded' = succeeded - Cardinality(R)
                                + IF PrepareResult(a) = "OK" THEN 1 ELSE 0
              /\ failed' = failed + Cardinality(R) + IF fails THEN 1 ELSE 0
              /\ domainFailed' = IF fails THEN DomainFailedAfter(cursor)
                                 ELSE domainFailed
    /\ attempted' = attempted + 1
    /\ cursor' = cursor + 1
    /\ UNCHANGED <<process, planVars, mutation, imageGeneration, home,
                   artifacts, wrote, call, step, gateOk, todo, visited, group,
                   ledger>>

\* hk_plan_prepare_group.  A callback that returns false fails every operation,
\* and the core forgets what it had allocated ("dropped") before it failed.
PrepareGroup ==
    /\ AtHook
    /\ outcome[cursor] = "ANALYZED"
    /\ \E k \in InPlan, accepted \in BOOLEAN, att \in [Hook -> PrepareAttemptKinds] :
          /\ PrepareGroupEnds(cursor, k)
          /\ \A h \in Hook : IF h \in cursor..k
                             THEN att[h] \in GroupPrepareAttempts(h)
                             ELSE att[h] = "failed"
          /\ LET res == [h \in cursor..k |->
                            IF accepted THEN att[h]
                            ELSE IF "stranded" \in Faults /\ Allocated(att[h]) = 1
                            THEN "dropped" ELSE "failed"]
             IN  /\ outcome' = [h \in Hook |->
                                   IF h \in cursor..k
                                   THEN PrepareOutcome(h, res[h])
                                   ELSE outcome[h]]
                 /\ EngineStateAfterPrepare(res, {})
                 /\ succeeded' = succeeded + Cardinality(
                        {h \in cursor..k : PrepareResult(res[h]) = "OK"})
                 /\ failed' = failed + Cardinality(
                        {h \in cursor..k : PrepareResult(res[h]) = "FAILED"})
          /\ attempted' = attempted + (k - cursor + 1)
          /\ cursor' = k + 1
    /\ UNCHANGED <<process, planVars, mutation, imageGeneration, home,
                   artifacts, wrote, call, step, gateOk, domainFailed, todo,
                   visited, group, ledger>>

\* The group's operation array cannot be allocated: the call returns
\* OUT_OF_MEMORY with the plan still ANALYZED.
PrepareGroupOutOfMemory ==
    /\ AtHook
    /\ outcome[cursor] = "ANALYZED"
    /\ PrepareGrouped(cursor)
    /\ "oom" \in Faults
    /\ CallReturns
    /\ UNCHANGED <<process, planVars, resultVars, engineVars, home, artifacts,
                   wrote>>

\* Mutant: any failure fails the plan.
PrepareRollupAnyFailure == IF failed = 0 THEN "PREPARED" ELSE "FAILED"

PrepareRollup ==
    CASE failed = 0                         -> "PREPARED"
      [] failed # 0 /\ succeeded = 0 /\ attempted > 0 -> "FAILED"
      [] OTHER                              -> "PARTIAL"

\* The report is built and the plan's state rolled up; without memory for the
\* report the plan stays ANALYZED.
PrepareEnd ==
    /\ call = "prepare"
    /\ cursor > hookCount
    /\ \E reported \in BOOLEAN :
          /\ reported \/ "oom" \in Faults
          /\ state' = IF reported THEN PrepareRollup ELSE state
    /\ CallReturns
    /\ UNCHANGED <<process, domains, hookCount, spec, runtime, resultVars,
                   engineVars, home, artifacts, wrote>>

-----------------------------------------------------------------------------
(* Committing.                                                             *)

\* What an engine's commit can do: the mutation state it reports, whether it
\* changed the target, and what goes wrong around it.  "record": an artifact
\* was not recorded; "effects": an undeclared effect; "verify": the readback
\* differs; "ownership": no memory for a new ownership record; "predecessor":
\* the engine did not publish the owned predecessor; "append": a group's
\* artifacts do not fit the call's ledger.  Faults do not mask each other, so
\* one at a time is enough.
Attempt(m, w, fs) == {[mutation |-> m, wrote |-> w, fault |-> f] : f \in fs}
OutOfMemory(fs) == IF "bookkeeping" \in Faults THEN fs ELSE {}

CommitAttempts ==
    UNION {Attempt("NONE", FALSE, {"none", "effects"}),
           Attempt("COMPLETE", TRUE,
               {"none", "effects", "verify", "predecessor"}
                  \cup OutOfMemory({"record", "ownership", "append"})),
           Attempt("PARTIAL", TRUE, {"none"}),
           Attempt("UNKNOWN", TRUE, {"none"}),
           Attempt("UNKNOWN", FALSE, {"none"})}

\* A one-hook commit (and a drain): no group ledger; an ownership record is
\* allocated for an unowned key and compared with the predecessor for an owned.
SingleAttempts(h) ==
    {a \in CommitAttempts :
        /\ a.fault # "append"
        /\ a.fault = "ownership" => owner[spec[h].key] = Nobody
        /\ a.fault = "predecessor" => owner[spec[h].key] # Nobody}

GroupAttempts(h) ==
    {a \in CommitAttempts :
        /\ a.fault # "predecessor"
        /\ a.fault = "ownership" => owner[spec[h].key] = Nobody}

\* Mutant: a COMPLETE mutation whose readback differs is reported as NONE.
FinalMutationOptimistic(a) ==
    IF a.fault = "verify" THEN "NONE" ELSE a.mutation

\* hk_plan_finish_commit_attempt and the checks before it: a COMPLETE mutation
\* with a fault, and any mutation with an undeclared effect, is UNKNOWN.
FinalMutation(a) ==
    IF a.fault = "effects" \/ (a.fault # "none" /\ a.mutation = "COMPLETE")
    THEN "UNKNOWN" ELSE a.mutation

CommitOutcome(m) ==
    CASE m = "COMPLETE" -> "ACTIVE"
      [] m = "NONE"     -> "FAILED_SAFE"
      [] m = "PARTIAL"  -> "FAILED_PARTIAL"
      [] m = "UNKNOWN"  -> "FAILED_UNKNOWN"

\* Artifacts reach the call's ledger for a target that was changed.
Recorded(a) == a.wrote /\ a.fault \notin {"record", "append"}

CommitBegin ==
    /\ call = "none"
    /\ state \in {"PREPARED", "PARTIAL"}
    /\ call' = "commit"
    /\ todo' = {h \in InPlan : outcome[h] = "PREPARED"}
    /\ UNCHANGED <<process, planVars, resultVars, engineVars, home, artifacts,
                   wrote, step, cursor, gateOk, domainFailed, visited, group,
                   ledger, counters>>

\* Mutant: commit_after does not take part in the order.
NextHookByOrder(S) ==
    Best([h \in Hook |-> IF spec[h].domain = NoDomain THEN 0
                         ELSE DomainOrder[spec[h].domain]],
         [h \in Hook |-> spec[h].order],
         [h \in Hook |-> {}],
         todo \ S)

\* The hook that follows in hk_build_commit_order's array once the hooks of S
\* are behind.  The array is fixed when the call begins; only hooks in it leave
\* todo, so selecting on the way gives the same order.
NextHook(S) ==
    Best([h \in Hook |-> IF spec[h].domain = NoDomain THEN 0
                         ELSE DomainOrder[spec[h].domain]],
         [h \in Hook |-> spec[h].order],
         [h \in Hook |-> spec[h].after],
         todo \ S)

\* Mutant: a hook with dependencies joins the group of the hooks before it.
GroupableDependent(h) ==
    /\ outcome[h] = "PREPARED"
    /\ spec[h].domain = NoDomain
    /\ spec[h].engine \in Grouping
    /\ owner[spec[h].key] = Nobody

\* hk_plan_commit_group_count's conditions on a member; the ownership lookup is
\* made under the lock and the lock released again.
Groupable(h) ==
    /\ outcome[h] = "PREPARED"
    /\ spec[h].domain = NoDomain
    /\ spec[h].after = {}
    /\ spec[h].engine \in Grouping
    /\ owner[spec[h].key] = Nobody

\* Mutant: a hook settled by its domain's preflight is not skipped.
CommitVisitWithoutSkip ==
    /\ call = "commit"
    /\ step = "visit"
    /\ todo # {}
    /\ outcome[NextHook({})] = "PREPARED"
    /\ step' = IF Groupable(NextHook({})) THEN "grow" ELSE "single"
    /\ group' = {NextHook({})}
    /\ UNCHANGED <<process, planVars, resultVars, engineVars, home, artifacts,
                   wrote, call, cursor, gateOk, domainFailed, todo, visited,
                   ledger, counters>>

CommitVisit ==
    /\ call = "commit"
    /\ step = "visit"
    /\ todo # {}
    /\ LET h == NextHook({})
       IN  IF outcome[h] # "PREPARED"
           THEN /\ todo' = todo \ {h}
                /\ visited' = visited \cup {h}
                /\ UNCHANGED <<step, group>>
           ELSE /\ step' = IF Groupable(h) THEN "grow" ELSE "single"
                /\ group' = {h}
                /\ UNCHANGED <<todo, visited>>
    /\ UNCHANGED <<process, planVars, resultVars, engineVars, home, artifacts,
                   wrote, call, cursor, gateOk, domainFailed, ledger, counters>>

\* The group takes in the next hook of the order, or ends before it.
CommitGrow ==
    /\ call = "commit"
    /\ step = "grow"
    /\ IF /\ todo \ group # {}
          /\ LET h == NextHook(group)
             IN  /\ Groupable(h)
                 /\ Current(h)
                 /\ \A g \in group : spec[g].engine = spec[h].engine
       THEN group' = group \cup {NextHook(group)} /\ UNCHANGED step
       ELSE /\ step' = IF \E g \in group : group = {g} THEN "single" ELSE "group"
            /\ UNCHANGED group
    /\ UNCHANGED <<process, planVars, resultVars, engineVars, home, artifacts,
                   wrote, call, cursor, gateOk, domainFailed, todo, visited,
                   ledger, counters>>

\* The group's arrays or one of its ledgers cannot be allocated: the call
\* returns OUT_OF_MEMORY and drops the artifacts it had collected so far.
CommitGroupOutOfMemory ==
    /\ call = "commit"
    /\ step = "group"
    /\ "oom" \in Faults
    /\ CallReturns
    /\ UNCHANGED <<process, planVars, resultVars, engineVars, home, artifacts,
                   wrote>>

\* Mutant: a group that was compensated in part is reported as restored.
RestoredTogether(comp, res) == IF comp = {} THEN {} ELSE DOMAIN res

\* Of the operations comp that compensate_group_ctx restored, those reported as
\* compensated: one whose artifacts were not recorded is not.
Restored(comp, res) == {h \in comp : res[h].fault \notin {"record", "append"}}

\* hk_plan_commit_group, from the lock to the rollup.  All-NONE covers a failed
\* revalidation, all-UNKNOWN a callback that returned false.
CommitGroup ==
    /\ call = "commit"
    /\ step = "group"
    /\ \E res \in [group -> CommitAttempts], comp \in SUBSET group :
          /\ \A h \in group : res[h] \in GroupAttempts(h)
          /\ comp # {} =>
                /\ \A h \in group : spec[h].engine \in Compensating
                /\ \E h \in group : \/ res[h].mutation \in {"PARTIAL", "UNKNOWN"}
                                    \/ res[h].fault = "verify"
          /\ LET restored == Restored(comp, res)
                 final == [h \in group |-> FinalMutation(res[h])]
                 done == {h \in group \ restored : final[h] = "COMPLETE"}
             IN  /\ outcome' = [h \in Hook |->
                        IF h \in restored THEN "COMPENSATED"
                        ELSE IF h \in group THEN CommitOutcome(final[h])
                        ELSE outcome[h]]
                 /\ mutation' = [h \in Hook |->
                        IF h \in group THEN final[h] ELSE mutation[h]]
                 /\ succeeded' = succeeded + Cardinality(done)
                 /\ failed' = failed + Cardinality(group \ done)
          /\ owner' = [k \in Keys |->
                IF owner[k] = Nobody
                   /\ \E h \in group \ comp :
                         /\ spec[h].key = k
                         /\ res[h].mutation = "COMPLETE"
                         /\ res[h].fault \notin {"record", "effects", "ownership"}
                THEN spec[CHOOSE h \in group : spec[h].key = k].engine
                ELSE owner[k]]
          /\ wrote' = (wrote \cup {h \in group : res[h].wrote}) \ comp
          /\ ledger' = ledger \cup {h \in group : Recorded(res[h])}
    /\ attempted' = attempted + Cardinality(group)
    /\ step' = "visit"
    /\ todo' = todo \ group
    /\ visited' = visited \cup group
    /\ group' = {}
    /\ UNCHANGED <<generation, present, planVars, imageGeneration, engineVars,
                   home, artifacts, call, cursor, gateOk, domainFailed>>

\* The hook being committed on its own is the one in group.
Committing(h) == call = "commit" /\ step = "single" /\ group = {h}

\* The commit moves on past hook h.
Advance(h) ==
    /\ step' = "visit"
    /\ todo' = todo \ {h}
    /\ visited' = visited \cup {h}
    /\ group' = {}
    /\ UNCHANGED <<call, cursor, gateOk, domainFailed>>

\* h is the first hook of its domain in this commit's order.
FirstOfDomain(h) ==
    /\ spec[h].domain # NoDomain
    /\ \A v \in visited : spec[v].domain # spec[h].domain

\* Mutant: a mandatory member that is pending or absent does not count.
PreflightPreparedOnly(d) ==
    \A m \in Mandatory(d) : outcome[m] = "PREPARED" => Current(m)

\* hk_domain_commit_preflight.
Preflight(d) ==
    \A m \in Mandatory(d) :
        /\ outcome[m] = "PREPARED"
        /\ Current(m)
        /\ \A a \in spec[m].after :
              \/ outcome[a] = "ACTIVE"
              \/ spec[a].domain = d /\ outcome[a] = "PREPARED"

PassesPreflight(h) == FirstOfDomain(h) => Preflight(spec[h].domain)

\* Mutant: a dependency is done once it is no longer waiting to be committed.
DependenciesSettled(h) == \A a \in spec[h].after : outcome[a] # "PREPARED"

DependenciesActive(h) == \A a \in spec[h].after : outcome[a] = "ACTIVE"

\* The key is owned by an engine this one cannot chain to.
OwnedByOther(h) ==
    /\ owner[spec[h].key] # Nobody
    /\ \/ spec[h].engine \notin Chainable
       \/ spec[h].engine # owner[spec[h].key]

\* The domain is refused before any member is dispatched
\* (hk_mark_domain_commit_preflight_failed).
CommitPreflightFails(h) ==
    /\ Committing(h)
    /\ ~PassesPreflight(h)
    /\ LET marked == PreparedMembers(spec[h].domain)
       IN  /\ outcome' = [m \in Hook |->
                  IF m \notin marked THEN outcome[m]
                  ELSE IF Current(m) THEN "FAILED_SAFE" ELSE "STALE_PLAN"]
           /\ mutation' = [m \in Hook |->
                  IF m \in marked THEN "NONE" ELSE mutation[m]]
           /\ attempted' = attempted + Cardinality(marked)
           /\ failed' = failed + Cardinality(marked)
    /\ Advance(h)
    /\ UNCHANGED <<process, planVars, imageGeneration, engineVars, home,
                   artifacts, wrote, ledger, succeeded>>

CommitStale(h) ==
    /\ Committing(h)
    /\ PassesPreflight(h)
    /\ ~Current(h)
    /\ outcome' = [outcome EXCEPT ![h] = "STALE_PLAN"]
    /\ failed' = failed + 1
    /\ Advance(h)
    /\ UNCHANGED <<process, planVars, mutation, imageGeneration, engineVars,
                   home, artifacts, wrote, ledger, attempted, succeeded>>

CommitDependencyFails(h) ==
    /\ Committing(h)
    /\ PassesPreflight(h)
    /\ Current(h)
    /\ ~DependenciesActive(h)
    /\ outcome' = [outcome EXCEPT ![h] = "FAILED_SAFE"]
    /\ mutation' = [mutation EXCEPT ![h] = "NONE"]
    /\ attempted' = attempted + 1
    /\ failed' = failed + 1
    /\ Advance(h)
    /\ UNCHANGED <<process, planVars, imageGeneration, engineVars, home,
                   artifacts, wrote, ledger, succeeded>>

CommitConflict(h) ==
    /\ Committing(h)
    /\ PassesPreflight(h)
    /\ Current(h)
    /\ DependenciesActive(h)
    /\ OwnedByOther(h)
    /\ outcome' = [outcome EXCEPT ![h] = "CONFLICT"]
    /\ mutation' = [mutation EXCEPT ![h] = "NONE"]
    /\ attempted' = attempted + 1
    /\ failed' = failed + 1
    /\ Advance(h)
    /\ UNCHANGED <<process, planVars, imageGeneration, engineVars, home,
                   artifacts, wrote, ledger, succeeded>>

\* One attempt's effect on the hook, the ownership ledger and the artifacts.
Install(h, a) ==
    /\ outcome' = [outcome EXCEPT ![h] = CommitOutcome(FinalMutation(a))]
    /\ mutation' = [mutation EXCEPT ![h] = FinalMutation(a)]
    /\ owner' = IF FinalMutation(a) = "COMPLETE" /\ owner[spec[h].key] = Nobody
                THEN [owner EXCEPT ![spec[h].key] = spec[h].engine]
                ELSE owner
    /\ wrote' = IF a.wrote THEN wrote \cup {h} ELSE wrote
    /\ ledger' = IF Recorded(a) THEN ledger \cup {h} ELSE ledger

CommitHook(h) ==
    /\ Committing(h)
    /\ PassesPreflight(h)
    /\ Current(h)
    /\ DependenciesActive(h)
    /\ ~OwnedByOther(h)
    /\ \E a \in SingleAttempts(h) :
          /\ Install(h, a)
          /\ succeeded' = succeeded + IF FinalMutation(a) = "COMPLETE" THEN 1 ELSE 0
          /\ failed' = failed + IF FinalMutation(a) = "COMPLETE" THEN 0 ELSE 1
    /\ attempted' = attempted + 1
    /\ Advance(h)
    /\ UNCHANGED <<generation, present, planVars, imageGeneration, engineVars,
                   home, artifacts>>

CommitRollup ==
    CASE failed = 0                                   -> "COMMITTED"
      [] failed # 0 /\ succeeded = 0 /\ attempted > 0 -> "FAILED"
      [] OTHER                                        -> "PARTIAL"

\* The report takes the ledger.  Without memory for the report the ledger is
\* destroyed and the plan keeps its state.
CommitEnd ==
    /\ call = "commit"
    /\ step = "visit"
    /\ todo = {}
    /\ \E reported \in BOOLEAN :
          /\ reported \/ "oom" \in Faults
          /\ state' = IF reported THEN CommitRollup ELSE state
          /\ artifacts' = IF reported THEN artifacts \cup ledger ELSE artifacts
    /\ CallReturns
    /\ UNCHANGED <<process, domains, hookCount, spec, runtime, resultVars,
                   engineVars, home, wrote>>

-----------------------------------------------------------------------------
(* Releasing the plan, draining the queue, releasing the runtime.          *)

\* hk_plan_release: pending hooks move to the runtime's queue, the others are
\* freed; a hook the queue has no memory for is freed too.
ReleasePlan ==
    /\ call = "none"
    /\ state # "RELEASED"
    /\ state' = "RELEASED"
    /\ \E adopted \in SUBSET {h \in InPlan : outcome[h] = "PENDING"} :
          /\ "oom" \in Faults \/ \A h \in InPlan :
                                    outcome[h] = "PENDING" => h \in adopted
          /\ home' = [h \in Hook |-> IF h \in adopted THEN "queue"
                                     ELSE IF h \in InPlan THEN "freed"
                                     ELSE home[h]]
          /\ ReleasePrepared(InPlan \ adopted)
    /\ UNCHANGED <<process, domains, hookCount, spec, runtime, resultVars,
                   artifacts, wrote, call, loopVars, ledger, counters>>

\* runtime->pending.  One plan's hooks are adopted in add order and compaction
\* keeps their order, so queue order is index order.
Pending == {h \in Hook : home[h] = "queue"}

DrainBegin ==
    /\ call = "none"
    /\ runtime = "live"
    /\ Pending # {}
    /\ call' = "drain"
    /\ todo' = Pending
    /\ UNCHANGED <<process, planVars, resultVars, engineVars, home, artifacts,
                   wrote, step, cursor, gateOk, domainFailed, visited, group,
                   ledger, counters>>

Draining(h) == call = "drain" /\ h \in todo /\ \A g \in todo : h <= g

\* Still absent: the hook stays pending and queued.
DrainKeeps(h) ==
    /\ Draining(h)
    /\ "not_applicable" \in PrepareAttempts(h)
    /\ outcome' = [outcome EXCEPT ![h] = "PENDING"]
    /\ todo' = todo \ {h}
    /\ UNCHANGED <<process, planVars, mutation, imageGeneration, engineVars,
                   home, artifacts, wrote, call, step, cursor, gateOk,
                   domainFailed, visited, group, ledger, counters>>

\* Mutant: the queue is not compacted, the settled hook stays in it.
DrainFreesUncompacted(h, a) ==
    /\ preparedState' = [preparedState EXCEPT ![h] = FALSE]
    /\ live' = [live EXCEPT ![h] = live[h] + Allocated(a) - ReleasedAtOnce(a)
                                     - IF a = "ok" THEN 1 ELSE 0]
    /\ todo' = todo \ {h}
    /\ UNCHANGED <<home, call, step, cursor, gateOk, domainFailed, visited,
                   group>>

\* hk_hook_free after attempt a: whatever it still holds is released.
DrainFrees(h, a) ==
    /\ home' = [home EXCEPT ![h] = "freed"]
    /\ preparedState' = [preparedState EXCEPT ![h] = FALSE]
    /\ live' = [live EXCEPT ![h] = live[h] + Allocated(a) - ReleasedAtOnce(a)
                                     - IF a = "ok" THEN 1 ELSE 0]
    /\ todo' = todo \ {h}
    /\ UNCHANGED <<call, step, cursor, gateOk, domainFailed, visited, group>>

DrainFails(h) ==
    /\ Draining(h)
    /\ \E a \in PrepareAttempts(h) :
          /\ PrepareResult(a) = "FAILED"
          /\ DrainFrees(h, a)
    /\ outcome' = [outcome EXCEPT ![h] = "FAILED_SAFE"]
    /\ UNCHANGED <<process, planVars, mutation, imageGeneration, artifacts,
                   wrote, ledger, counters>>

DrainConflict(h) ==
    /\ Draining(h)
    /\ OwnedByOther(h)
    /\ \E a \in PrepareAttempts(h) :
          /\ PrepareResult(a) = "OK"
          /\ DrainFrees(h, a)
    /\ outcome' = [outcome EXCEPT ![h] = "CONFLICT"]
    /\ mutation' = [mutation EXCEPT ![h] = "NONE"]
    /\ UNCHANGED <<process, planVars, imageGeneration, artifacts, wrote, ledger,
                   counters>>

\* The retry prepares, commits and frees the hook.  Neither commit_after nor
\* the hook's domain nor the image generation is looked at.
DrainInstalls(h) ==
    /\ Draining(h)
    /\ ~OwnedByOther(h)
    /\ \E a \in PrepareAttempts(h), c \in SingleAttempts(h) :
          /\ PrepareResult(a) = "OK"
          /\ DrainFrees(h, a)
          /\ Install(h, c)
    /\ UNCHANGED <<generation, present, planVars, imageGeneration, artifacts,
                   counters>>

DrainEnd ==
    /\ call = "drain"
    /\ todo = {}
    /\ \E reported \in BOOLEAN :
          /\ reported \/ "oom" \in Faults
          /\ artifacts' = IF reported THEN artifacts \cup ledger ELSE artifacts
    /\ CallReturns
    /\ UNCHANGED <<process, planVars, resultVars, engineVars, home, wrote>>

\* hk_runtime_release frees what is still queued.
ReleaseRuntime ==
    /\ call = "none"
    /\ state = "RELEASED"
    /\ runtime = "live"
    /\ runtime' = "released"
    /\ home' = [h \in Hook |-> IF home[h] = "queue" THEN "freed" ELSE home[h]]
    /\ ReleasePrepared(Pending)
    /\ UNCHANGED <<process, state, domains, hookCount, spec, resultVars,
                   artifacts, wrote, call, loopVars, ledger, counters>>

-----------------------------------------------------------------------------

Environment ==
    \/ \E k \in Keys : TargetAppears(k)
    \/ CatalogGrows
    \/ \E k \in Keys, e \in Engines : OtherConsumerInstalls(k, e)

Build ==
    \/ \E d \in Domains : DefineDomain(d)
    \/ \E r \in Requests : AddHook(r)
    \/ Analyze

Prepare ==
    \/ PrepareBegin
    \/ PrepareCarriesForward
    \/ PrepareStale
    \/ PrepareGateBlocked
    \/ PrepareHook
    \/ PrepareGroup
    \/ PrepareGroupOutOfMemory
    \/ PrepareEnd

Commit ==
    \/ CommitBegin
    \/ CommitVisit
    \/ CommitGrow
    \/ CommitGroup
    \/ CommitGroupOutOfMemory
    \/ \E h \in Hook : \/ CommitPreflightFails(h)
                       \/ CommitStale(h)
                       \/ CommitDependencyFails(h)
                       \/ CommitConflict(h)
                       \/ CommitHook(h)
    \/ CommitEnd

Drain ==
    \/ DrainBegin
    \/ \E h \in Hook : \/ DrainKeeps(h)
                       \/ DrainFails(h)
                       \/ DrainConflict(h)
                       \/ DrainInstalls(h)
    \/ DrainEnd

Next == Environment \/ Build \/ Prepare \/ Commit \/ Drain
            \/ ReleasePlan \/ ReleaseRuntime

Spec == Init /\ [][Next]_vars

\* A call that has begun runs on; the host keeps draining while hooks wait.
CallStep == call # "none" /\ (Prepare \/ Commit \/ Drain)
FairSpec == Spec /\ WF_vars(CallStep) /\ WF_vars(DrainBegin)

-----------------------------------------------------------------------------

\* Type invariant.
TypeOK ==
    /\ generation \in 0..MaxGeneration
    /\ present \in SUBSET Keys
    /\ owner \in [Keys -> Engines \cup {Nobody}]
    /\ state \in PlanStates
    /\ domains \in SUBSET Domains
    /\ hookCount \in 0..MaxHooks
    /\ spec \in [Hook -> Requests \cup {NoRequest}]
    /\ outcome \in [Hook -> Outcomes]
    /\ mutation \in [Hook -> Mutations]
    /\ imageGeneration \in [Hook -> 0..MaxGeneration]
    /\ preparedState \in [Hook -> BOOLEAN]
    /\ home \in [Hook -> {"none", "plan", "queue", "freed"}]
    /\ artifacts \in SUBSET Hook
    /\ runtime \in {"live", "released"}
    /\ live \in [Hook -> Int]
    /\ wrote \in SUBSET Hook
    /\ call \in {"none", "prepare", "commit", "drain"}
    /\ step \in {"visit", "grow", "group", "single"}
    /\ cursor \in 1..(MaxHooks + 1)
    /\ gateOk \in SUBSET Domains
    /\ domainFailed \in SUBSET Domains
    /\ todo \in SUBSET Hook
    /\ visited \in SUBSET Hook
    /\ group \in SUBSET Hook
    /\ ledger \in SUBSET Hook
    /\ attempted \in Nat /\ succeeded \in Int /\ failed \in Nat

\* Invariant 4 of ARCHITECTURE.md rests on the mutation state being true: a
\* result that reports NONE, and every outcome that promises an untouched or
\* restored target, belongs to a hook whose target the engine has not changed;
\* ACTIVE belongs to a changed target reported COMPLETE.
HonestResult ==
    \A h \in Hook :
        /\ mutation[h] = "NONE" => h \notin wrote
        /\ outcome[h] \in {"NO_ROUTE", "PREPARED", "PENDING", "STALE_PLAN",
                           "CONFLICT", "FAILED_SAFE", "COMPENSATED"}
               => h \notin wrote
        /\ outcome[h] = "ACTIVE" => h \in wrote /\ mutation[h] = "COMPLETE"

\* ENGINE_CONTRACT.md: "Every successful preparation has exactly one
\* release_prepared call".  At every moment the engine has handed out one
\* prepared state for a hook that holds one and none for a hook that does not,
\* and a freed hook holds none.
PreparationsBalanced ==
    \A h \in Hook :
        /\ live[h] = Held(h)
        /\ home[h] = "freed" => ~preparedState[h]

\* HKPlan.c: "the topological commit order guarantees it is dispatched before
\* this dependent".  What a commit decides about a hook stays right for as long as
\* its plan lives: a hook whose target it has changed has only ACTIVE hooks in
\* commit_after, whatever becomes of them in groups, compensation, and commits
\* after one that ran out of memory; and a hook that it has passed by, installed or
\* not, was not judged by a dependency that is yet to come.
DependentsFollow ==
    \A h \in Hook : home[h] = "plan" =>
        /\ h \in wrote => \A a \in spec[h].after : outcome[a] = "ACTIVE"
        /\ call = "commit" /\ h \in visited =>
              \A a \in spec[h].after : outcome[a] # "PREPARED"

\* A commit changes a target of a domain only when each of the domain's
\* mandatory hooks has been reached by this commit or is still prepared and
\* current: no domain starts with a mandatory member that has no route, is
\* absent, went stale or failed to prepare.
DomainStartsWhole ==
    [][\A h \in wrote' \ wrote :
          call = "commit" /\ spec[h].domain # NoDomain =>
              \A m \in Mandatory(spec[h].domain) :
                  m \in visited' \/ (outcome[m] = "PREPARED" /\ Current(m))]_vars

\* The plan state tells the truth about the hooks: a PREPARED plan has no hook
\* that failed, a FAILED plan no hook that is prepared or active (commit would
\* refuse it), a COMMITTED plan no hook left prepared.  The count behind it is a
\* size_t from which the release of a domain's members is subtracted: it never
\* wraps.
RollupMatchesHooks ==
    /\ state = "PREPARED" =>
          \A h \in InPlan : call = "none" =>
              outcome[h] \in {"PREPARED", "NO_ROUTE", "PENDING"}
    /\ state = "FAILED" =>
          \A h \in InPlan : outcome[h] \notin {"PREPARED", "ACTIVE"}
    /\ state = "COMMITTED" => \A h \in InPlan : outcome[h] # "PREPARED"
    /\ succeeded >= 0

\* A deferred hook whose target has appeared leaves the queue: it is installed
\* or its failure is reported, it does not wait for ever.
DeferredHookSettles ==
    \A h \in Hook :
        (home[h] = "queue" /\ spec[h].key \in present) ~> (home[h] = "freed")

\* Every call returns, whatever the engines answer.
CallsReturn == (call # "none") ~> (call = "none")

=============================================================================
