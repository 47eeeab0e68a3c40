---------------------------- MODULE HKPlan_proofs ---------------------------
(***************************************************************************)
(* The life of a plan is safe for every number of hooks, every domain,     *)
(* dependency graph and engine: results are honest, prepared states are    *)
(* released once, dependencies and domains are respected by every commit.  *)
(***************************************************************************)
EXTENDS HKPlan, WellFoundedInduction, FiniteSetTheorems, TLAPS

(* The selection rule of hk_build_commit_order: it never runs dry on plans *)
(* hk_plan_add_hook can build and picks the least of what is ready.        *)

\* A non-empty set of naturals has a least element.
LEMMA NatMin ==
    ASSUME NEW S \in SUBSET Nat, S # {}
    PROVE  \E m \in S : \A n \in S : m <= n
<1>1. PICK m \in S : \A n \in S : ~(<<n, m>> \in OpToRel(<, Nat))
  BY WFMin, NatLessThanWellFounded
<1>2. ASSUME NEW n \in S PROVE m <= n
  <2>1. ~(n < m)
    BY <1>1 DEF OpToRel
  <2> QED
    BY <2>1
<1> QED
  BY <1>2

\* While dependencies point to earlier hooks, some unplaced hook is selectable.
LEMMA SelectionNeverDry ==
    ASSUME NEW T \in SUBSET Nat, T # {}, NEW a,
           \A i \in T : \A e \in a[i] : e < i
    PROVE  Selectable(a, T) # {}
<1>1. PICK m \in T : \A n \in T : m <= n
  BY NatMin
<1>2. a[m] \cap T = {}
  <2> SUFFICES ASSUME NEW e \in a[m] \cap T PROVE FALSE
    OBVIOUS
  <2>1. e < m /\ m <= e /\ e \in Nat /\ m \in Nat
    BY <1>1
  <2> QED
    BY <2>1
<1> QED
  BY <1>1, <1>2 DEF Selectable, DependenciesProcessed

\* The selection scan ends on a selectable hook that ranks before the others.
LEMMA BestIsLeast ==
    ASSUME NEW T \in SUBSET Nat, NEW a, NEW d, NEW o,
           \A i \in T : d[i] \in Nat /\ o[i] \in Nat,
           Selectable(a, T) # {}
    PROVE  /\ Best(d, o, a, T) \in Selectable(a, T)
           /\ \A j \in Selectable(a, T) :
                 j = Best(d, o, a, T) \/ CommitOrderBefore(d, o, Best(d, o, a, T), j)
<1> DEFINE S == Selectable(a, T)
           D == {d[i] : i \in S}
<1>1. S \subseteq T
  BY DEF Selectable
<1>2. \A i \in S : d[i] \in Nat /\ o[i] \in Nat
  BY <1>1
<1>3. PICK m1 \in D : \A n \in D : m1 <= n
  <2>1. D \in SUBSET Nat /\ D # {}
    BY <1>2
  <2> QED
    BY <2>1, NatMin
<1> DEFINE S1 == {i \in S : d[i] = m1}
           O == {o[i] : i \in S1}
<1>4. PICK m2 \in O : \A n \in O : m2 <= n
  <2>1. O \in SUBSET Nat /\ O # {}
    BY <1>2, <1>3
  <2> QED
    BY <2>1, NatMin
<1> DEFINE S2 == {i \in S1 : o[i] = m2}
<1>5. PICK b \in S2 : \A n \in S2 : b <= n
  <2>1. S2 \in SUBSET Nat /\ S2 # {}
    BY <1>1, <1>4
  <2> QED
    BY <2>1, NatMin
<1>6. b \in S
  BY <1>5
<1>7. ASSUME NEW j \in S, j # b
      PROVE  CommitOrderBefore(d, o, b, j)
  <2>1. d[b] = m1 /\ o[b] = m2 /\ b \in Nat /\ j \in Nat
    BY <1>1, <1>5
  <2>2. m1 \in Nat /\ m2 \in Nat /\ d[j] \in Nat /\ o[j] \in Nat
    BY <1>2, <1>6, <2>1
  <2>3. m1 <= d[j]
    BY <1>3
  <2>4. CASE d[j] = m1 /\ o[j] = m2
    <3>1. b <= j
      BY <1>5, <2>4
    <3> QED
      BY <1>7, <2>1, <2>4, <3>1 DEF CommitOrderBefore
  <2>5. CASE d[j] = m1 /\ o[j] # m2
    <3>1. m2 <= o[j]
      BY <1>4, <2>5
    <3> QED
      BY <2>1, <2>2, <2>5, <3>1 DEF CommitOrderBefore
  <2>6. CASE d[j] # m1
    BY <2>1, <2>2, <2>3, <2>6 DEF CommitOrderBefore
  <2> QED
    BY <2>4, <2>5, <2>6
<1>8. \E x \in S : \A j \in S : j = x \/ CommitOrderBefore(d, o, x, j)
  BY <1>6, <1>7
<1> QED
  BY <1>8 DEF Best

-----------------------------------------------------------------------------
(* The inductive invariant.                                                *)

\* Which calls run in which state of the plan.
Phases ==
    /\ call = "prepare" => state = "ANALYZED"
    /\ call = "commit" => state \in {"PREPARED", "PARTIAL"}
    /\ call = "drain" => state = "RELEASED"
    /\ call # "commit" => step = "visit" /\ visited = {} /\ group = {}

\* The hooks of the plan, their dependencies and their owners.
Placement ==
    /\ \A h \in InPlan : spec[h] \in Requests /\ \A a \in spec[h].after : a < h
    /\ \A h \in Hook :
          /\ h \notin InPlan <=> home[h] = "none"
          /\ h \notin InPlan => outcome[h] = "UNANALYZED"
          /\ home[h] = "plan" <=> h \in InPlan /\ state # "RELEASED"
          /\ home[h] = "queue" => outcome[h] = "PENDING"

\* Outcomes of hooks whose target no attempt has changed.
Uncommitted == {"UNANALYZED", "NO_ROUTE", "ANALYZED", "PREPARED", "PENDING",
                "STALE_PLAN", "CONFLICT", "FAILED_SAFE"}

\* A plan that is still DRAFT has at most been analyzed.
Drafted ==
    state = "DRAFT" =>
        \A h \in Hook : outcome[h] \in {"UNANALYZED", "NO_ROUTE", "ANALYZED"}

\* The results agree with what the engine did.
Truthful ==
    \A h \in Hook :
        /\ outcome[h] \in Uncommitted => mutation[h] = "NONE"
        /\ mutation[h] = "NONE" => h \notin wrote
        /\ outcome[h] = "COMPENSATED" => h \notin wrote
        /\ outcome[h] = "ACTIVE" => h \in wrote /\ mutation[h] = "COMPLETE"

\* The loop variables of a commit and of a drain.
Visiting ==
    /\ call = "commit" =>
          /\ todo \subseteq InPlan
          /\ group \subseteq todo
          /\ step = "visit" => group = {}
          /\ step # "visit" => \A h \in group : outcome[h] = "PREPARED"
          /\ step \in {"grow", "group"} =>
                \A h \in group : spec[h].after = {} /\ spec[h].domain = NoDomain
    /\ call = "drain" => todo \subseteq Pending

\* A domain this commit has entered is whole, or none of it is left to commit.
DomainEntered ==
    call = "commit" =>
        \A h \in todo :
            /\ outcome[h] # "PREPARED" =>
                  spec[h].domain # NoDomain /\ ~FirstOfDomain(h)
            /\ outcome[h] = "PREPARED" /\ spec[h].domain # NoDomain
                                       /\ ~FirstOfDomain(h) =>
                  \A m \in Mandatory(spec[h].domain) :
                      m \in visited \/ (outcome[m] = "PREPARED" /\ Current(m))

\* What this commit has not passed is still ahead of it, and no hook it has
\* passed or is about to install waits for one of those.
Ordered ==
    call = "commit" =>
        /\ \A h \in InPlan : outcome[h] = "PREPARED" => h \in todo
        /\ \A h \in visited \cup group : spec[h].after \cap todo = {}

IInv ==
    /\ TypeOK
    /\ Phases
    /\ Placement
    /\ Drafted
    /\ Truthful
    /\ Visiting
    /\ DomainEntered
    /\ Ordered

-----------------------------------------------------------------------------
(* Facts about the operators.                                              *)

\* The fields of a request.
LEMMA RequestFields ==
    ASSUME NEW r \in Requests
    PROVE  /\ r.domain \in Domains \cup {NoDomain}
           /\ r.order \in Nat
           /\ r.after \in SUBSET Hook
           /\ r.key \in Keys
           /\ r.engine \in Engines
BY RequestsAssumption

\* A set of hooks has a natural number of members.
LEMMA CountHooks ==
    ASSUME NEW S \in SUBSET Hook
    PROVE  IsFiniteSet(S) /\ Cardinality(S) \in Nat
<1>1. IsFiniteSet(Hook)
  BY BoundsAssumption, FS_Interval DEF Hook
<1> QED
  BY <1>1, FS_Subset, FS_CardinalityType

\* The commit's order never ends before the hooks it has to visit do, and its
\* next hook waits for none of them.
LEMMA NextHookInTodo ==
    ASSUME TypeOK, Placement, Visiting, call = "commit",
           NEW S, todo \ S # {}
    PROVE  /\ NextHook(S) \in todo \ S
           /\ spec[NextHook(S)].after \cap (todo \ S) = {}
<1> DEFINE D == [h \in Hook |-> IF spec[h].domain = NoDomain THEN 0
                               ELSE DomainOrder[spec[h].domain]]
           O == [h \in Hook |-> spec[h].order]
           A == [h \in Hook |-> spec[h].after]
           T == todo \ S
<1>1. T \in SUBSET Nat /\ T \subseteq Hook /\ T \subseteq InPlan
  <2>1. todo \in SUBSET Hook
    BY DEF TypeOK
  <2>2. todo \subseteq InPlan
    BY DEF Visiting
  <2>3. Hook \subseteq Nat
    BY BoundsAssumption DEF Hook
  <2> QED
    BY <2>1, <2>2, <2>3
<1>2. \A h \in T : spec[h] \in Requests
  BY <1>1 DEF Placement
<1>3. \A h \in T : D[h] \in Nat /\ O[h] \in Nat
  <2> SUFFICES ASSUME NEW h \in T
               PROVE  D[h] \in Nat /\ O[h] \in Nat
    OBVIOUS
  <2>1. spec[h].domain \in Domains \cup {NoDomain} /\ spec[h].order \in Nat
    BY <1>2, RequestFields
  <2> QED
    BY <1>1, <2>1, DomainsAssumption
<1>4. \A h \in T : \A e \in A[h] : e < h
  BY <1>1 DEF Placement
<1> HIDE DEF D, O, A
<1>5. Selectable(A, T) # {}
  BY <1>1, <1>4, SelectionNeverDry
<1>6. Best(D, O, A, T) \in Selectable(A, T)
  BY <1>1, <1>3, <1>5, BestIsLeast
<1>7. NextHook(S) = Best(D, O, A, T)
  BY DEF NextHook, D, O, A
<1>8. NextHook(S) \in T /\ A[NextHook(S)] \cap T = {}
  BY <1>6, <1>7 DEF Selectable, DependenciesProcessed
<1>9. A[NextHook(S)] = spec[NextHook(S)].after
  BY <1>1, <1>8 DEF A
<1> QED
  BY <1>8, <1>9

-----------------------------------------------------------------------------
(* Type correctness.                                                       *)

LEMMA TypeInit == Init => TypeOK
BY BoundsAssumption DEF Init, TypeOK, PlanStates, Outcomes, Mutations, Hook

\* A request a caller adds, and every outcome an attempt leads to, is typed.
LEMMA OutcomeTypes ==
    /\ \A h \in Hook : \A a : PrepareOutcome(h, a) \in Outcomes
    /\ \A m \in Mutations : CommitOutcome(m) \in Outcomes
    /\ \A c \in CommitAttempts : /\ c.mutation \in Mutations
                                 /\ FinalMutation(c) \in Mutations
<1>1. \A h \in Hook : \A a : PrepareOutcome(h, a) \in Outcomes
  BY DEF PrepareOutcome, PrepareResult, Outcomes
<1>2. \A m \in Mutations : CommitOutcome(m) \in Outcomes
  BY DEF CommitOutcome, Mutations, Outcomes
<1>3. \A c \in CommitAttempts : c.mutation \in Mutations
  BY DEF CommitAttempts, Attempt, Mutations
<1>4. \A c \in CommitAttempts : FinalMutation(c) \in Mutations
  BY <1>3 DEF FinalMutation, Mutations
<1> QED
  BY <1>1, <1>2, <1>3, <1>4

LEMMA TypeEnvironment ==
    ASSUME TypeOK, Environment PROVE TypeOK'
<1> USE DEF TypeOK, planVars, resultVars, engineVars, loopVars, counters
<1>1. ASSUME NEW k \in Keys, TargetAppears(k) PROVE TypeOK'
  BY <1>1 DEF TargetAppears
<1>2. CASE CatalogGrows
  BY <1>2, BoundsAssumption DEF CatalogGrows
<1>3. ASSUME NEW k \in Keys, NEW e \in Engines, OtherConsumerInstalls(k, e)
      PROVE  TypeOK'
  BY <1>3 DEF OtherConsumerInstalls
<1> QED
  BY <1>1, <1>2, <1>3 DEF Environment

LEMMA TypeBuild ==
    ASSUME TypeOK, Build PROVE TypeOK'
<1> USE DEF TypeOK, process, planVars, resultVars, engineVars, loopVars, counters
<1>1. ASSUME NEW d \in Domains, DefineDomain(d) PROVE TypeOK'
  BY <1>1 DEF DefineDomain
<1>2. ASSUME NEW r \in Requests, AddHook(r) PROVE TypeOK'
  BY <1>2, BoundsAssumption DEF AddHook, Hook
<1>3. CASE Analyze
  BY <1>3 DEF Analyze, Outcomes, PlanStates
<1> QED
  BY <1>1, <1>2, <1>3 DEF Build

\* The call's locals after it returned.
LEMMA TypeReturn ==
    CallReturns =>
        /\ call' \in {"none", "prepare", "commit", "drain"}
        /\ step' \in {"visit", "grow", "group", "single"}
        /\ cursor' \in 1..(MaxHooks + 1)
        /\ gateOk' \in SUBSET Domains
        /\ domainFailed' \in SUBSET Domains
        /\ todo' \in SUBSET Hook
        /\ visited' \in SUBSET Hook
        /\ group' \in SUBSET Hook
        /\ ledger' \in SUBSET Hook
        /\ attempted' \in Nat /\ succeeded' \in Int /\ failed' \in Nat
BY BoundsAssumption DEF CallReturns

\* The prepared states after a release and after attempts.
LEMMA TypeEngine ==
    ASSUME TypeOK
    PROVE  /\ \A S : ReleasePrepared(S) =>
                 preparedState' \in [Hook -> BOOLEAN] /\ live' \in [Hook -> Int]
           /\ \A att, R : EngineStateAfterPrepare(att, R) =>
                 preparedState' \in [Hook -> BOOLEAN] /\ live' \in [Hook -> Int]
<1>1. preparedState \in [Hook -> BOOLEAN] /\ live \in [Hook -> Int]
  BY DEF TypeOK
<1>2. ASSUME NEW S, ReleasePrepared(S)
      PROVE  preparedState' \in [Hook -> BOOLEAN] /\ live' \in [Hook -> Int]
  BY <1>1, <1>2 DEF ReleasePrepared
<1>3. ASSUME NEW att, NEW R, EngineStateAfterPrepare(att, R)
      PROVE  preparedState' \in [Hook -> BOOLEAN] /\ live' \in [Hook -> Int]
  <2>1. \A h \in Hook : /\ Held(h) \in Int /\ Allocated(att[h]) \in Int
                        /\ ReleasedAtOnce(att[h]) \in Int
    BY DEF Held, Allocated, ReleasedAtOnce
  <2>2. preparedState' \in [Hook -> BOOLEAN]
    BY <1>1, <1>3 DEF EngineStateAfterPrepare
  <2>3. \A h \in Hook :
           (IF h \in DOMAIN att
            THEN live[h] - Held(h) + Allocated(att[h]) - ReleasedAtOnce(att[h])
            ELSE IF h \in R THEN live[h] - Held(h) ELSE live[h]) \in Int
    BY <1>1, <2>1
  <2> QED
    BY <1>3, <2>2, <2>3 DEF EngineStateAfterPrepare
<1> QED
  BY <1>2, <1>3

LEMMA TypePrepare ==
    ASSUME TypeOK, Prepare PROVE TypeOK'
<1> USE DEF process, planVars, resultVars, engineVars, loopVars, counters
<1>1. CASE PrepareBegin
  BY <1>1 DEF PrepareBegin, TypeOK
<1>2. CASE PrepareCarriesForward
  BY <1>2, BoundsAssumption DEF PrepareCarriesForward, AtHook, TypeOK
<1>3. ASSUME AtHook
      PROVE  /\ cursor \in Hook /\ cursor + 1 \in 1..(MaxHooks + 1)
             /\ DomainReleases(cursor) \in SUBSET Hook
             /\ Cardinality(DomainReleases(cursor)) \in Nat
             /\ DomainFailedAfter(cursor) \in SUBSET Domains
  <2>1. cursor \in Hook /\ cursor + 1 \in 1..(MaxHooks + 1) /\ InPlan \subseteq Hook
    BY <1>3, BoundsAssumption DEF AtHook, TypeOK, Hook, InPlan
  <2>2. DomainReleases(cursor) \in SUBSET Hook
    BY <2>1 DEF DomainReleases, PreparedMembers, Members
  <2>3. DomainFailedAfter(cursor) \in SUBSET Domains
    BY DEF DomainFailedAfter, GateTrips, TypeOK
  <2> QED
    BY <2>1, <2>2, <2>3, CountHooks
<1>4. CASE PrepareStale
  <2>1. outcome' \in [Hook -> Outcomes]
    BY <1>4 DEF PrepareStale, TypeOK, Outcomes
  <2>2. preparedState' \in [Hook -> BOOLEAN] /\ live' \in [Hook -> Int]
    BY <1>4, TypeEngine DEF PrepareStale
  <2>3. failed' \in Nat /\ succeeded' \in Int /\ cursor' \in 1..(MaxHooks + 1)
        /\ domainFailed' \in SUBSET Domains
    BY <1>3, <1>4 DEF PrepareStale, TypeOK
  <2> QED
    BY <1>4, <2>1, <2>2, <2>3 DEF PrepareStale, TypeOK
<1>5. CASE PrepareGateBlocked
  BY <1>3, <1>5 DEF PrepareGateBlocked, TypeOK, Outcomes
<1>6. CASE PrepareHook
  <2>1. PICK a \in PrepareAttempts(cursor) :
           LET fails == PrepareResult(a) = "FAILED"
               R == IF fails THEN DomainReleases(cursor) ELSE {}
           IN  /\ outcome' = [h \in Hook |->
                                 IF h = cursor THEN PrepareOutcome(h, a)
                                 ELSE IF h \in R THEN "FAILED_SAFE"
                                 ELSE outcome[h]]
               /\ EngineStateAfterPrepare([h \in {cursor} |-> a], R)
               /\ succeeded' = succeeded - Cardinality(R)
                                 + IF PrepareResult(a) = "OK" THEN 1 ELSE 0
               /\ failed' = failed + Cardinality(R) + IF fails THEN 1 ELSE 0
               /\ domainFailed' = IF fails THEN DomainFailedAfter(cursor)
                                  ELSE domainFailed
    BY <1>6 DEF PrepareHook
  <2>3. outcome' \in [Hook -> Outcomes]
    BY <2>1, OutcomeTypes DEF TypeOK, Outcomes
  <2>4. preparedState' \in [Hook -> BOOLEAN] /\ live' \in [Hook -> Int]
    BY <2>1, TypeEngine
  <2>5. Cardinality({}) \in Nat
    BY CountHooks
  <2>6. /\ succeeded' \in Int /\ failed' \in Nat
        /\ domainFailed' \in SUBSET Domains
    BY <1>3, <1>6, <2>1, <2>5 DEF PrepareHook, TypeOK
  <2> QED
    BY <1>3, <1>6, <2>3, <2>4, <2>6 DEF PrepareHook, TypeOK
<1>7. CASE PrepareGroup
  <2>1. PICK k \in InPlan, accepted \in BOOLEAN,
             att \in [Hook -> PrepareAttemptKinds] :
          /\ PrepareGroupEnds(cursor, k)
          /\ LET res == [h \in cursor..k |->
                            IF accepted THEN att[h]
                            ELSE IF "stranded" \in Faults /\ Allocated(att[h]) = 1
                            THEN "dropped" ELSE "failed"]
             IN  /\ outcome' = [h \in Hook |->
                                   IF h \in cursor..k
                                   THEN PrepareOutcome(h, res[h])
                                   ELSE outcome[h]]
                 /\ EngineStateAfterPrepare(res, {})
                 /\ succeeded' = succeeded + Cardinality(
                        {h \in cursor..k : PrepareResult(res[h]) = "OK"})
                 /\ failed' = failed + Cardinality(
                        {h \in cursor..k : PrepareResult(res[h]) = "FAILED"})
          /\ attempted' = attempted + (k - cursor + 1)
          /\ cursor' = k + 1
    BY <1>7 DEF PrepareGroup
  <2> DEFINE res == [h \in cursor..k |->
                        IF accepted THEN att[h]
                        ELSE IF "stranded" \in Faults /\ Allocated(att[h]) = 1
                        THEN "dropped" ELSE "failed"]
  <2>2. /\ AtHook /\ cursor \in Hook /\ k \in Hook /\ cursor < k
        /\ cursor..k \subseteq Hook /\ k + 1 \in 1..(MaxHooks + 1)
    BY <1>3, <1>7, <2>1, BoundsAssumption
       DEF PrepareGroup, PrepareGroupEnds, TypeOK, Hook, InPlan
  <2> HIDE DEF res
  <2>4. outcome' \in [Hook -> Outcomes]
    BY <2>1, OutcomeTypes DEF TypeOK, res
  <2>5. preparedState' \in [Hook -> BOOLEAN] /\ live' \in [Hook -> Int]
    BY <2>1, TypeEngine
  <2>6. /\ Cardinality({h \in cursor..k : PrepareResult(res[h]) = "OK"}) \in Nat
        /\ Cardinality({h \in cursor..k : PrepareResult(res[h]) = "FAILED"}) \in Nat
    BY <2>2, CountHooks
  <2>7. succeeded' \in Int /\ failed' \in Nat
    BY <2>1, <2>6 DEF TypeOK, res
  <2>8. attempted' \in Nat /\ cursor' \in 1..(MaxHooks + 1)
    BY <2>1, <2>2, BoundsAssumption DEF TypeOK, Hook
  <2> QED
    BY <1>7, <2>4, <2>5, <2>7, <2>8 DEF PrepareGroup, TypeOK
<1>8. CASE PrepareGroupOutOfMemory
  BY <1>8, TypeReturn DEF PrepareGroupOutOfMemory, TypeOK
<1>9. CASE PrepareEnd
  <2>1. state' \in PlanStates
    BY <1>9 DEF PrepareEnd, PrepareRollup, PlanStates, TypeOK
  <2> QED
    BY <1>9, <2>1, TypeReturn DEF PrepareEnd, TypeOK
<1> QED
  BY <1>1, <1>2, <1>4, <1>5, <1>6, <1>7, <1>8, <1>9 DEF Prepare

\* One attempt's effect is typed.
LEMMA TypeInstall ==
    ASSUME TypeOK, NEW h \in InPlan, Placement, NEW a \in CommitAttempts,
           Install(h, a)
    PROVE  /\ owner' \in [Keys -> Engines \cup {Nobody}]
           /\ outcome' \in [Hook -> Outcomes]
           /\ mutation' \in [Hook -> Mutations]
           /\ wrote' \in SUBSET Hook
           /\ ledger' \in SUBSET Hook
<1>1. h \in Hook /\ spec[h].key \in Keys /\ spec[h].engine \in Engines
  BY RequestFields, BoundsAssumption DEF Placement, TypeOK, InPlan, Hook
<1>2. /\ FinalMutation(a) \in Mutations
      /\ CommitOutcome(FinalMutation(a)) \in Outcomes
  BY OutcomeTypes
<1> QED
  BY <1>1, <1>2 DEF Install, TypeOK

LEMMA TypeCommit ==
    ASSUME TypeOK, Placement, Visiting, Commit PROVE TypeOK'
<1> USE DEF process, planVars, resultVars, engineVars, loopVars, counters
<1>1. CASE CommitBegin
  <2>1. InPlan \subseteq Hook
    BY BoundsAssumption DEF TypeOK, InPlan, Hook
  <2> QED
    BY <1>1, <2>1 DEF CommitBegin, TypeOK
<1>2. CASE CommitVisit
  <2>1. NextHook({}) \in Hook
    BY <1>2, NextHookInTodo DEF CommitVisit, TypeOK
  <2> QED
    BY <1>2, <2>1 DEF CommitVisit, TypeOK
<1>3. CASE CommitGrow
  <2>1. todo \ group # {} => NextHook(group) \in Hook
    BY <1>3, NextHookInTodo DEF CommitGrow, TypeOK
  <2> QED
    BY <1>3, <2>1 DEF CommitGrow, TypeOK
<1>4. CASE CommitGroupOutOfMemory
  BY <1>4, TypeReturn DEF CommitGroupOutOfMemory, TypeOK
<1>5. CASE CommitGroup
  <2>1. PICK res \in [group -> CommitAttempts], comp \in SUBSET group :
          /\ LET restored == {h \in comp : res[h].fault \notin {"record", "append"}}
                 final == [h \in group |-> FinalMutation(res[h])]
                 done == {h \in group \ restored : final[h] = "COMPLETE"}
             IN  /\ outcome' = [h \in Hook |->
                        IF h \in restored THEN "COMPENSATED"
                        ELSE IF h \in group THEN CommitOutcome(final[h])
                        ELSE outcome[h]]
                 /\ mutation' = [h \in Hook |->
                        IF h \in group THEN final[h] ELSE mutation[h]]
                 /\ succeeded' = succeeded + Cardinality(done)
                 /\ failed' = failed + Cardinality(group \ done)
          /\ owner' = [k \in Keys |->
                IF owner[k] = Nobody
                   /\ \E h \in group \ comp :
                         /\ spec[h].key = k
                         /\ res[h].mutation = "COMPLETE"
                         /\ res[h].fault \notin {"record", "effects", "ownership"}
                THEN spec[CHOOSE h \in group : spec[h].key = k].engine
                ELSE owner[k]]
          /\ wrote' = (wrote \cup {h \in group : res[h].wrote}) \ comp
          /\ ledger' = ledger \cup {h \in group : Recorded(res[h])}
    BY <1>5 DEF CommitGroup, Restored
  <2> DEFINE restored == {h \in comp : res[h].fault \notin {"record", "append"}}
             final == [h \in group |-> FinalMutation(res[h])]
             done == {h \in group \ restored : final[h] = "COMPLETE"}
  <2>2. group \in SUBSET Hook /\ group \subseteq InPlan
    BY <1>5 DEF CommitGroup, TypeOK, Visiting
  <2>3. \A h \in group : /\ FinalMutation(res[h]) \in Mutations
                         /\ CommitOutcome(FinalMutation(res[h])) \in Outcomes
    BY OutcomeTypes
  <2>4. Cardinality(group) \in Nat /\ Cardinality(done) \in Nat
        /\ Cardinality(group \ done) \in Nat
    BY <2>2, CountHooks
  <2>5. outcome' \in [Hook -> Outcomes]
    BY <2>1, <2>2, <2>3 DEF TypeOK, Outcomes
  <2>6. mutation' \in [Hook -> Mutations]
    BY <2>1, <2>2, <2>3 DEF TypeOK
  <2>7. attempted' \in Nat /\ succeeded' \in Int /\ failed' \in Nat
    BY <1>5, <2>1, <2>4 DEF CommitGroup, TypeOK
  <2>8. owner' \in [Keys -> Engines \cup {Nobody}]
    <3>1. \A h \in group : spec[h].engine \in Engines
      BY <2>2, RequestFields DEF Placement
    <3>2. \A k \in Keys : (\E h \in group : spec[h].key = k) =>
             spec[CHOOSE h \in group : spec[h].key = k].engine \in Engines
      BY <3>1
    <3> QED
      BY <2>1, <3>2 DEF TypeOK
  <2>9. wrote' \in SUBSET Hook /\ ledger' \in SUBSET Hook
    BY <2>1, <2>2 DEF TypeOK
  <2>10. step' = "visit" /\ todo' \in SUBSET Hook /\ visited' \in SUBSET Hook
         /\ group' \in SUBSET Hook
    BY <1>5, <2>2 DEF CommitGroup, TypeOK
  <2> QED
    BY <1>5, <2>5, <2>6, <2>7, <2>8, <2>9, <2>10 DEF CommitGroup, TypeOK
<1>6. ASSUME NEW h \in Hook, Committing(h), Advance(h)
      PROVE  /\ h \in InPlan
             /\ step' \in {"visit", "grow", "group", "single"}
             /\ todo' \in SUBSET Hook /\ visited' \in SUBSET Hook
             /\ group' \in SUBSET Hook
             /\ UNCHANGED <<call, cursor, gateOk, domainFailed>>
  BY <1>6 DEF Committing, Advance, Visiting, TypeOK
<1>7. ASSUME NEW h \in Hook, CommitPreflightFails(h) PROVE TypeOK'
  <2>1. PreparedMembers(spec[h].domain) \in SUBSET Hook
    BY BoundsAssumption DEF PreparedMembers, Members, InPlan, Hook, TypeOK
  <2>2. Cardinality(PreparedMembers(spec[h].domain)) \in Nat
    BY <2>1, CountHooks
  <2>3. outcome' \in [Hook -> Outcomes] /\ mutation' \in [Hook -> Mutations]
    BY <1>7 DEF CommitPreflightFails, TypeOK, Outcomes, Mutations
  <2>4. attempted' \in Nat /\ failed' \in Nat
    BY <1>7, <2>2 DEF CommitPreflightFails, TypeOK
  <2> QED
    BY <1>6, <1>7, <2>3, <2>4 DEF CommitPreflightFails, TypeOK
<1>8. ASSUME NEW h \in Hook, CommitStale(h) PROVE TypeOK'
  BY <1>6, <1>8 DEF CommitStale, TypeOK, Outcomes
<1>9. ASSUME NEW h \in Hook, CommitDependencyFails(h) PROVE TypeOK'
  BY <1>6, <1>9 DEF CommitDependencyFails, TypeOK, Outcomes, Mutations
<1>10. ASSUME NEW h \in Hook, CommitConflict(h) PROVE TypeOK'
  BY <1>6, <1>10 DEF CommitConflict, TypeOK, Outcomes, Mutations
<1>11. ASSUME NEW h \in Hook, CommitHook(h) PROVE TypeOK'
  <2>1. PICK a \in SingleAttempts(h) :
          /\ Install(h, a)
          /\ succeeded' = succeeded + IF FinalMutation(a) = "COMPLETE" THEN 1 ELSE 0
          /\ failed' = failed + IF FinalMutation(a) = "COMPLETE" THEN 0 ELSE 1
    BY <1>11 DEF CommitHook
  <2>2. a \in CommitAttempts
    BY DEF SingleAttempts
  <2>3. h \in InPlan
    BY <1>6, <1>11 DEF CommitHook
  <2>4. succeeded' \in Int /\ failed' \in Nat /\ attempted' \in Nat
    BY <1>11, <2>1 DEF CommitHook, TypeOK
  <2> QED
    BY <1>6, <1>11, <2>1, <2>2, <2>3, <2>4, TypeInstall DEF CommitHook, TypeOK
<1>12. CASE CommitEnd
  <2>1. state' \in PlanStates /\ artifacts' \in SUBSET Hook
    BY <1>12 DEF CommitEnd, CommitRollup, PlanStates, TypeOK
  <2> QED
    BY <1>12, <2>1, TypeReturn DEF CommitEnd, TypeOK
<1> QED
  BY <1>1, <1>2, <1>3, <1>4, <1>5, <1>7, <1>8, <1>9, <1>10, <1>11, <1>12
     DEF Commit

\* Freeing a queued hook after its attempt is typed.
LEMMA TypeDrainFrees ==
    ASSUME TypeOK, NEW h \in Hook, NEW a, DrainFrees(h, a)
    PROVE  /\ home' \in [Hook -> {"none", "plan", "queue", "freed"}]
           /\ preparedState' \in [Hook -> BOOLEAN]
           /\ live' \in [Hook -> Int]
           /\ todo' \in SUBSET Hook
           /\ UNCHANGED <<call, step, cursor, gateOk, domainFailed, visited, group>>
<1>1. Allocated(a) \in Int /\ ReleasedAtOnce(a) \in Int
  BY DEF Allocated, ReleasedAtOnce
<1> QED
  BY <1>1 DEF DrainFrees, TypeOK

LEMMA TypeDrain ==
    ASSUME TypeOK, Placement, Visiting, Drain PROVE TypeOK'
<1> USE DEF process, planVars, resultVars, engineVars, loopVars, counters
<1>1. CASE DrainBegin
  BY <1>1 DEF DrainBegin, Pending, TypeOK
<1>2. ASSUME NEW h \in Hook, DrainKeeps(h) PROVE TypeOK'
  BY <1>2 DEF DrainKeeps, TypeOK, Outcomes
<1>3. ASSUME NEW h \in Hook, DrainFails(h) PROVE TypeOK'
  BY <1>3, TypeDrainFrees DEF DrainFails, TypeOK, Outcomes
<1>4. ASSUME NEW h \in Hook, DrainConflict(h) PROVE TypeOK'
  BY <1>4, TypeDrainFrees DEF DrainConflict, TypeOK, Outcomes, Mutations
<1>5. ASSUME NEW h \in Hook, DrainInstalls(h) PROVE TypeOK'
  <2>1. PICK a \in PrepareAttempts(h), c \in SingleAttempts(h) :
           DrainFrees(h, a) /\ Install(h, c)
    BY <1>5 DEF DrainInstalls
  <2>2. c \in CommitAttempts
    BY DEF SingleAttempts
  <2>3. h \in InPlan
    BY <1>5 DEF DrainInstalls, Draining, Visiting, Pending, Placement
  <2> QED
    BY <1>5, <2>1, <2>2, <2>3, TypeDrainFrees, TypeInstall
       DEF DrainInstalls, TypeOK
<1>6. CASE DrainEnd
  BY <1>6, TypeReturn DEF DrainEnd, TypeOK
<1> QED
  BY <1>1, <1>2, <1>3, <1>4, <1>5, <1>6 DEF Drain

LEMMA TypeStep ==
    ASSUME TypeOK, Placement, Visiting, [Next]_vars PROVE TypeOK'
<1> USE DEF process, planVars, resultVars, engineVars, loopVars, counters
<1>1. CASE ReleasePlan
  BY <1>1, TypeEngine DEF ReleasePlan, TypeOK, PlanStates
<1>2. CASE ReleaseRuntime
  BY <1>2, TypeEngine DEF ReleaseRuntime, TypeOK
<1>3. CASE UNCHANGED vars
  BY <1>3 DEF vars, TypeOK
<1> QED
  BY <1>1, <1>2, <1>3, TypeEnvironment, TypeBuild, TypePrepare, TypeCommit,
     TypeDrain DEF Next

-----------------------------------------------------------------------------
(* Which call runs when, and who owns the hooks.                           *)

LEMMA PhasesStep ==
    ASSUME IInv, [Next]_vars PROVE Phases'
<1> USE DEF planVars, loopVars, IInv, Phases
<1>1. CASE Environment
  BY <1>1 DEF Environment, TargetAppears, CatalogGrows, OtherConsumerInstalls
<1>2. CASE Build
  BY <1>2 DEF Build, DefineDomain, AddHook, Analyze
<1>3. CASE Prepare
  BY <1>3 DEF Prepare, PrepareBegin, PrepareCarriesForward, PrepareStale,
     PrepareGateBlocked, PrepareHook, PrepareGroup, PrepareGroupOutOfMemory,
     PrepareEnd, AtHook, CallReturns
<1>4. CASE Commit
  <2>1. ASSUME NEW h \in Hook,
               \/ CommitPreflightFails(h) \/ CommitStale(h)
               \/ CommitDependencyFails(h) \/ CommitConflict(h) \/ CommitHook(h)
        PROVE  Phases'
    BY <2>1 DEF CommitPreflightFails, CommitStale, CommitDependencyFails,
       CommitConflict, CommitHook, Committing, Advance
  <2> QED
    BY <1>4, <2>1 DEF Commit, CommitBegin, CommitVisit, CommitGrow, CommitGroup,
       CommitGroupOutOfMemory, CommitEnd, CallReturns
<1>5. CASE Drain
  <2>1. CASE DrainBegin
    <3>1. state = "RELEASED"
      BY <2>1 DEF DrainBegin, Pending, Placement
    <3> QED
      BY <2>1, <3>1 DEF DrainBegin
  <2>2. ASSUME NEW h \in Hook,
               \/ DrainKeeps(h) \/ DrainFails(h) \/ DrainConflict(h)
               \/ DrainInstalls(h)
        PROVE  Phases'
    BY <2>2 DEF DrainKeeps, DrainFails, DrainConflict, DrainInstalls, Draining,
       DrainFrees
  <2> QED
    BY <1>5, <2>1, <2>2 DEF Drain, DrainEnd, CallReturns
<1>6. CASE ReleasePlan \/ ReleaseRuntime
  BY <1>6 DEF ReleasePlan, ReleaseRuntime
<1>7. CASE UNCHANGED vars
  BY <1>7 DEF vars
<1> QED
  BY <1>1, <1>2, <1>3, <1>4, <1>5, <1>6, <1>7 DEF Next

LEMMA PlacementStep ==
    ASSUME IInv, [Next]_vars PROVE Placement'
<1> USE DEF planVars, resultVars, IInv
<1>0. /\ InPlan \subseteq Hook
      /\ outcome \in [Hook -> Outcomes]
      /\ home \in [Hook -> {"none", "plan", "queue", "freed"}]
      /\ hookCount \in 0..MaxHooks
  BY BoundsAssumption DEF TypeOK, InPlan, Hook
\* A step that keeps the plan and the owners may change the outcome of hooks of
\* the plan that are not queued.
<1>1. ASSUME UNCHANGED <<hookCount, spec, home>>,
             (state' = "RELEASED") <=> (state = "RELEASED"),
             \A h \in Hook : h \notin InPlan \/ home[h] = "queue" =>
                                outcome'[h] = outcome[h]
      PROVE  Placement'
  BY <1>1 DEF Placement, InPlan
<1>2. CASE Environment
  BY <1>1, <1>2 DEF Environment, TargetAppears, CatalogGrows, OtherConsumerInstalls
<1>3. CASE Build
  <2>1. ASSUME NEW d \in Domains, DefineDomain(d) PROVE Placement'
    BY <1>1, <2>1 DEF DefineDomain
  <2>2. ASSUME NEW r \in Requests, AddHook(r) PROVE Placement'
    <3>1. /\ InPlan' = InPlan \cup {hookCount + 1}
          /\ hookCount + 1 \in Hook /\ hookCount + 1 \notin InPlan
          /\ \A a \in r.after : a < hookCount + 1
      BY <1>0, <2>2, BoundsAssumption DEF AddHook, InPlan, Hook
    <3>2. /\ spec' = [spec EXCEPT ![hookCount + 1] = r]
          /\ home' = [home EXCEPT ![hookCount + 1] = "plan"]
          /\ outcome' = outcome /\ state' = state /\ state = "DRAFT"
      BY <2>2 DEF AddHook
    <3>3. spec \in [Hook -> Requests \cup {NoRequest}]
      BY DEF TypeOK
    <3>4. \A h \in InPlan' :
             spec'[h] \in Requests /\ \A a \in spec'[h].after : a < h
      BY <1>0, <3>1, <3>2, <3>3 DEF Placement
    <3>5. \A h \in Hook :
            /\ h \notin InPlan' <=> home'[h] = "none"
            /\ h \notin InPlan' => outcome'[h] = "UNANALYZED"
            /\ home'[h] = "plan" <=> h \in InPlan' /\ state' # "RELEASED"
            /\ home'[h] = "queue" => outcome'[h] = "PENDING"
      BY <1>0, <3>1, <3>2 DEF Placement
    <3> QED
      BY <3>4, <3>5 DEF Placement
  <2>3. CASE Analyze
    <3>1. \A h \in Hook : h \notin InPlan \/ home[h] = "queue" =>
                             outcome'[h] = outcome[h]
      BY <1>0, <2>3 DEF Analyze, Placement
    <3> QED
      BY <1>1, <2>3, <3>1 DEF Analyze
  <2> QED
    BY <1>3, <2>1, <2>2, <2>3 DEF Build
<1>4. CASE Prepare
  <2>1. call = "prepare" => state = "ANALYZED" /\ \A h \in Hook : home[h] # "queue"
    BY <1>0 DEF Phases, Placement
  <2>2. AtHook => cursor \in InPlan
    BY <1>0 DEF AtHook, TypeOK, InPlan
  <2>3. \A h \in Hook : h \in DomainReleases(cursor) => h \in InPlan
    BY DEF DomainReleases, PreparedMembers, Members
  <2>4. CASE PrepareStale
    BY <1>0, <1>1, <2>1, <2>2, <2>3, <2>4 DEF PrepareStale, AtHook
  <2>5. CASE PrepareGateBlocked
    BY <1>0, <1>1, <2>1, <2>2, <2>5 DEF PrepareGateBlocked, AtHook
  <2>6. CASE PrepareHook
    BY <1>0, <1>1, <2>1, <2>2, <2>3, <2>6 DEF PrepareHook, AtHook
  <2>7. CASE PrepareGroup
    <3>1. PICK k \in InPlan : \A h \in Hook : h \notin cursor..k => outcome'[h] = outcome[h]
      BY <2>7 DEF PrepareGroup
    <3>2. cursor..k \subseteq InPlan
      BY <1>0, <2>2, <2>7 DEF PrepareGroup, InPlan
    <3> QED
      BY <1>1, <2>1, <2>7, <3>1, <3>2 DEF PrepareGroup, AtHook
  <2>8. CASE PrepareEnd
    <3>1. state' # "RELEASED"
      BY <2>1, <2>8 DEF PrepareEnd, PrepareRollup
    <3> QED
      BY <1>1, <2>1, <2>8, <3>1 DEF PrepareEnd
  <2> QED
    BY <1>1, <1>4, <2>4, <2>5, <2>6, <2>7, <2>8
       DEF Prepare, PrepareBegin, PrepareCarriesForward, PrepareGroupOutOfMemory
<1>5. CASE Commit
  <2>1. call = "commit" => /\ state # "RELEASED"
                           /\ \A h \in Hook : home[h] # "queue"
                           /\ group \subseteq InPlan
    BY <1>0 DEF Phases, Placement, Visiting
  <2>2. ASSUME NEW h \in Hook, CommitPreflightFails(h) PROVE Placement'
    <3>1. PreparedMembers(spec[h].domain) \subseteq InPlan
      BY DEF PreparedMembers, Members
    <3> QED
      BY <1>0, <1>1, <2>1, <2>2, <3>1 DEF CommitPreflightFails, Committing
  <2>3. ASSUME NEW h \in Hook,
               \/ CommitStale(h) \/ CommitDependencyFails(h)
               \/ CommitConflict(h) \/ CommitHook(h)
        PROVE  Placement'
    <3>1. h \in InPlan /\ call = "commit"
      BY <2>1, <2>3 DEF CommitStale, CommitDependencyFails, CommitConflict,
         CommitHook, Committing
    <3>2. \A g \in Hook : g # h => outcome'[g] = outcome[g]
      BY <1>0, <2>3 DEF CommitStale, CommitDependencyFails, CommitConflict,
         CommitHook, Install
    <3>3. UNCHANGED <<hookCount, spec, home, state>>
      BY <2>3 DEF CommitStale, CommitDependencyFails, CommitConflict, CommitHook
    <3> QED
      BY <1>1, <2>1, <3>1, <3>2, <3>3
  <2>4. CASE CommitGroup
    <3>1. \A h \in Hook : h \notin group => outcome'[h] = outcome[h]
      BY <2>4 DEF CommitGroup, Restored
    <3> QED
      BY <1>1, <2>1, <2>4, <3>1 DEF CommitGroup
  <2>5. CASE CommitEnd
    <3>1. state' # "RELEASED"
      BY <2>1, <2>5 DEF CommitEnd, CommitRollup
    <3> QED
      BY <1>1, <2>1, <2>5, <3>1 DEF CommitEnd
  <2> QED
    BY <1>1, <1>5, <2>2, <2>3, <2>4, <2>5
       DEF Commit, CommitBegin, CommitVisit, CommitGrow, CommitGroupOutOfMemory
<1>6. CASE Drain
  <2>1. ASSUME NEW h \in Hook, Draining(h) PROVE home[h] = "queue"
    BY <2>1 DEF Draining, Visiting, Pending
  <2>2. ASSUME NEW h \in Hook, DrainKeeps(h) PROVE Placement'
    <3>1. outcome' = outcome
      BY <1>0, <2>1, <2>2 DEF DrainKeeps, Placement
    <3> QED
      BY <1>1, <2>2, <3>1 DEF DrainKeeps
  <2>3. ASSUME NEW h \in Hook,
               DrainFails(h) \/ DrainConflict(h) \/ DrainInstalls(h)
        PROVE  Placement'
    <3>1. /\ home' = [home EXCEPT ![h] = "freed"]
          /\ \A g \in Hook : g # h => outcome'[g] = outcome[g]
          /\ UNCHANGED <<hookCount, spec, state>>
          /\ Draining(h)
      BY <1>0, <2>3 DEF DrainFails, DrainConflict, DrainInstalls, DrainFrees, Install
    <3>2. home[h] = "queue" /\ h \in InPlan /\ state = "RELEASED"
      BY <1>0, <2>1, <3>1 DEF Placement
    <3> QED
      BY <1>0, <3>1, <3>2 DEF Placement, InPlan
  <2> QED
    BY <1>1, <1>6, <2>2, <2>3 DEF Drain, DrainBegin, DrainEnd
<1>7. CASE ReleasePlan
  <2>1. PICK adopted \in SUBSET {h \in InPlan : outcome[h] = "PENDING"} :
           home' = [h \in Hook |-> IF h \in adopted THEN "queue"
                                   ELSE IF h \in InPlan THEN "freed"
                                   ELSE home[h]]
    BY <1>7 DEF ReleasePlan
  <2>2. state' = "RELEASED" /\ UNCHANGED <<hookCount, spec, outcome>>
    BY <1>7 DEF ReleasePlan
  <2> QED
    BY <1>0, <2>1, <2>2 DEF Placement, InPlan
<1>8. CASE ReleaseRuntime
  BY <1>0, <1>8 DEF ReleaseRuntime, Placement, InPlan
<1>9. CASE UNCHANGED vars
  BY <1>1, <1>9 DEF vars
<1> QED
  BY <1>2, <1>3, <1>4, <1>5, <1>6, <1>7, <1>8, <1>9 DEF Next

-----------------------------------------------------------------------------
(* Results.                                                                *)

LEMMA DraftedStep ==
    ASSUME IInv, [Next]_vars PROVE Drafted'
<1> USE DEF planVars, resultVars, IInv
<1>1. ASSUME state' = state, outcome' = outcome \/ state # "DRAFT"
      PROVE  Drafted'
  BY <1>1 DEF Drafted
<1>2. ASSUME state' # "DRAFT" PROVE Drafted'
  BY <1>2 DEF Drafted
<1>3. CASE Environment
  BY <1>1, <1>3 DEF Environment, TargetAppears, CatalogGrows, OtherConsumerInstalls
<1>4. CASE Build
  <2>1. CASE Analyze
    BY <2>1 DEF Analyze, Drafted
  <2> QED
    BY <1>1, <1>4, <2>1 DEF Build, DefineDomain, AddHook
<1>5. CASE Prepare
  <2>1. state = "ANALYZED"
    BY <1>5 DEF Prepare, PrepareBegin, PrepareCarriesForward, PrepareStale,
       PrepareGateBlocked, PrepareHook, PrepareGroup, PrepareGroupOutOfMemory,
       PrepareEnd, AtHook, Phases
  <2>2. CASE PrepareEnd
    BY <1>2, <2>1, <2>2 DEF PrepareEnd, PrepareRollup
  <2> QED
    BY <1>1, <1>5, <2>1, <2>2 DEF Prepare, PrepareBegin, PrepareCarriesForward,
       PrepareStale, PrepareGateBlocked, PrepareHook, PrepareGroup,
       PrepareGroupOutOfMemory
<1>6. CASE Commit
  <2>1. state \in {"PREPARED", "PARTIAL"}
    BY <1>6 DEF Commit, CommitBegin, CommitVisit, CommitGrow, CommitGroup,
       CommitGroupOutOfMemory, CommitEnd, CommitPreflightFails, CommitStale,
       CommitDependencyFails, CommitConflict, CommitHook, Committing, Phases
  <2>2. CASE CommitEnd
    BY <1>2, <2>1, <2>2 DEF CommitEnd, CommitRollup
  <2> QED
    BY <1>1, <1>6, <2>1, <2>2 DEF Commit, CommitBegin, CommitVisit, CommitGrow,
       CommitGroup, CommitGroupOutOfMemory, CommitPreflightFails, CommitStale,
       CommitDependencyFails, CommitConflict, CommitHook
<1>7. CASE Drain
  <2>1. ASSUME NEW h \in Hook,
               \/ DrainKeeps(h) \/ DrainFails(h) \/ DrainConflict(h)
               \/ DrainInstalls(h)
        PROVE  Drafted'
    <3>1. state = "RELEASED" /\ state' = state
      BY <2>1 DEF DrainKeeps, DrainFails, DrainConflict, DrainInstalls, Draining,
         Phases
    <3> QED
      BY <1>1, <3>1
  <2> QED
    BY <1>1, <1>7, <2>1 DEF Drain, DrainBegin, DrainEnd
<1>8. CASE ReleasePlan
  BY <1>2, <1>8 DEF ReleasePlan
<1>9. CASE ReleaseRuntime \/ UNCHANGED vars
  BY <1>1, <1>9 DEF ReleaseRuntime, vars
<1> QED
  BY <1>3, <1>4, <1>5, <1>6, <1>7, <1>8, <1>9 DEF Next

\* What an attempt says of itself, after the core's own checks, is true.
LEMMA AttemptsHonest ==
    ASSUME NEW c \in CommitAttempts
    PROVE  /\ FinalMutation(c) = "NONE" => ~c.wrote
           /\ FinalMutation(c) = "COMPLETE" => c.wrote /\ c.fault = "none"
           /\ CommitOutcome(FinalMutation(c)) \in Uncommitted =>
                  FinalMutation(c) = "NONE"
           /\ CommitOutcome(FinalMutation(c)) = "ACTIVE" =>
                  FinalMutation(c) = "COMPLETE"
           /\ CommitOutcome(FinalMutation(c)) \notin {"COMPENSATED", "PREPARED"}
<1>1. /\ c.mutation = "NONE" => ~c.wrote
      /\ c.mutation = "COMPLETE" => c.wrote
  BY DEF CommitAttempts, Attempt
<1>2. FinalMutation(c) \in Mutations
  BY OutcomeTypes
<1>3. /\ FinalMutation(c) \in {"UNKNOWN", c.mutation}
      /\ FinalMutation(c) = "COMPLETE" => c.fault = "none"
  BY DEF FinalMutation
<1> QED
  BY <1>1, <1>2, <1>3 DEF CommitOutcome, Uncommitted, Mutations

\* One attempt on a hook whose target is untouched leaves a true result.
LEMMA InstallTruthful ==
    ASSUME TypeOK, Truthful, NEW h \in Hook, outcome[h] \in Uncommitted,
           NEW c \in CommitAttempts, Install(h, c)
    PROVE  Truthful'
<1>1. mutation[h] = "NONE" /\ h \notin wrote
  BY DEF Truthful
<1>2. /\ outcome \in [Hook -> Outcomes] /\ mutation \in [Hook -> Mutations]
  BY DEF TypeOK
<1>3. /\ outcome' = [outcome EXCEPT ![h] = CommitOutcome(FinalMutation(c))]
      /\ mutation' = [mutation EXCEPT ![h] = FinalMutation(c)]
      /\ wrote' = IF c.wrote THEN wrote \cup {h} ELSE wrote
  BY DEF Install
<1> SUFFICES ASSUME NEW g \in Hook
             PROVE  /\ outcome'[g] \in Uncommitted => mutation'[g] = "NONE"
                    /\ mutation'[g] = "NONE" => g \notin wrote'
                    /\ outcome'[g] = "COMPENSATED" => g \notin wrote'
                    /\ outcome'[g] = "ACTIVE" =>
                           g \in wrote' /\ mutation'[g] = "COMPLETE"
  BY DEF Truthful
<1>4. CASE g = h
  BY <1>1, <1>2, <1>3, <1>4, AttemptsHonest
<1>5. CASE g # h
  BY <1>2, <1>3, <1>5 DEF Truthful
<1> QED
  BY <1>4, <1>5

LEMMA TruthfulStep ==
    ASSUME IInv, [Next]_vars PROVE Truthful'
<1> USE DEF resultVars, IInv
<1>0. outcome \in [Hook -> Outcomes] /\ mutation \in [Hook -> Mutations]
  BY DEF TypeOK
\* A step that writes no target may settle hooks that were not committed.
<1>1. ASSUME wrote' = wrote,
             \A h \in Hook :
                 \/ outcome'[h] = outcome[h] /\ mutation'[h] = mutation[h]
                 \/ /\ outcome[h] \in Uncommitted /\ outcome'[h] \in Uncommitted
                    /\ mutation'[h] \in {mutation[h], "NONE"}
      PROVE  Truthful'
  BY <1>1 DEF Truthful, Uncommitted
<1>2. CASE Environment
  BY <1>1, <1>2 DEF Environment, TargetAppears, CatalogGrows, OtherConsumerInstalls
<1>3. CASE Build
  <2>1. CASE Analyze
    BY <1>1, <2>1 DEF Analyze, Drafted, Uncommitted
  <2> QED
    BY <1>1, <1>3, <2>1 DEF Build, DefineDomain, AddHook
<1>4. CASE Prepare
  <2>1. \A h \in Hook : \A a : PrepareOutcome(h, a) \in Uncommitted
    BY DEF PrepareOutcome, PrepareResult, Uncommitted
  <2>2. \A h \in Hook : h \in DomainReleases(cursor) => outcome[h] = "PREPARED"
    BY DEF DomainReleases, PreparedMembers
  <2>3. CASE PrepareStale
    BY <1>1, <2>2, <2>3 DEF PrepareStale, Uncommitted
  <2>4. CASE PrepareGateBlocked
    BY <1>0, <1>1, <2>4 DEF PrepareGateBlocked, Uncommitted
  <2>5. CASE PrepareHook
    <3>1. \A h \in Hook : \/ outcome'[h] = outcome[h]
                          \/ /\ outcome[h] \in Uncommitted
                             /\ outcome'[h] \in Uncommitted
      BY <2>1, <2>2, <2>5 DEF PrepareHook, Uncommitted
    <3> QED
      BY <1>1, <2>5, <3>1 DEF PrepareHook
  <2>6. CASE PrepareGroup
    <3>1. PICK k \in InPlan : /\ PrepareRun(cursor, k)
                             /\ \A h \in Hook :
                                    IF h \in cursor..k
                                    THEN \E a : outcome'[h] = PrepareOutcome(h, a)
                                    ELSE outcome'[h] = outcome[h]
      BY <2>6 DEF PrepareGroup, PrepareGroupEnds
    <3>2. \A h \in cursor..k : outcome[h] = "ANALYZED"
      BY <3>1 DEF PrepareRun
    <3>3. \A h \in Hook : \/ outcome'[h] = outcome[h]
                          \/ /\ outcome[h] \in Uncommitted
                             /\ outcome'[h] \in Uncommitted
      BY <2>1, <3>1, <3>2 DEF Uncommitted
    <3> QED
      BY <1>1, <2>6, <3>3 DEF PrepareGroup
  <2> QED
    BY <1>1, <1>4, <2>3, <2>4, <2>5, <2>6 DEF Prepare, PrepareBegin,
       PrepareCarriesForward, PrepareGroupOutOfMemory, PrepareEnd
<1>5. CASE Commit
  <2>1. ASSUME NEW h \in Hook, Committing(h) PROVE outcome[h] = "PREPARED"
    BY <2>1 DEF Committing, Visiting
  <2>2. ASSUME NEW h \in Hook, CommitPreflightFails(h) PROVE Truthful'
    <3>1. \A m \in PreparedMembers(spec[h].domain) : outcome[m] = "PREPARED"
      BY DEF PreparedMembers
    <3> QED
      BY <1>1, <2>2, <3>1 DEF CommitPreflightFails, Uncommitted
  <2>3. ASSUME NEW h \in Hook,
               CommitStale(h) \/ CommitDependencyFails(h) \/ CommitConflict(h)
        PROVE  Truthful'
    BY <1>0, <1>1, <2>1, <2>3 DEF CommitStale, CommitDependencyFails,
       CommitConflict, Uncommitted
  <2>4. ASSUME NEW h \in Hook, CommitHook(h) PROVE Truthful'
    <3>1. PICK a \in CommitAttempts : Install(h, a)
      BY <2>4 DEF CommitHook, SingleAttempts
    <3>2. outcome[h] \in Uncommitted
      BY <2>1, <2>4 DEF CommitHook, Uncommitted
    <3> QED
      BY <3>1, <3>2, InstallTruthful
  <2>5. CASE CommitGroup
    <3>1. PICK res \in [group -> CommitAttempts], comp \in SUBSET group :
            /\ outcome' = [h \in Hook |->
                  IF h \in {g \in comp : res[g].fault \notin {"record", "append"}}
                  THEN "COMPENSATED"
                  ELSE IF h \in group
                  THEN CommitOutcome([g \in group |-> FinalMutation(res[g])][h])
                  ELSE outcome[h]]
            /\ mutation' = [h \in Hook |->
                  IF h \in group THEN [g \in group |-> FinalMutation(res[g])][h]
                  ELSE mutation[h]]
            /\ wrote' = (wrote \cup {h \in group : res[h].wrote}) \ comp
      BY <2>5 DEF CommitGroup, Restored
    <3>2. \A h \in group : outcome[h] = "PREPARED"
      BY <2>5 DEF CommitGroup, Visiting
    <3> SUFFICES ASSUME NEW g \in Hook
                 PROVE  /\ outcome'[g] \in Uncommitted => mutation'[g] = "NONE"
                        /\ mutation'[g] = "NONE" => g \notin wrote'
                        /\ outcome'[g] = "COMPENSATED" => g \notin wrote'
                        /\ outcome'[g] = "ACTIVE" =>
                               g \in wrote' /\ mutation'[g] = "COMPLETE"
      BY DEF Truthful
    <3>3. CASE g \in group
      <4>1. res[g] \in CommitAttempts /\ g \notin wrote
        BY <3>2, <3>3 DEF Truthful, Uncommitted
      <4>2. CASE outcome'[g] = "COMPENSATED"
        <5>1. g \in comp
          BY <3>1, <3>3, <4>1, <4>2, AttemptsHonest
        <5> QED
          BY <3>1, <4>2, <5>1 DEF Uncommitted
      <4>3. CASE outcome'[g] # "COMPENSATED"
        <5>1. /\ outcome'[g] = CommitOutcome(FinalMutation(res[g]))
              /\ mutation'[g] = FinalMutation(res[g])
          BY <3>1, <3>3, <4>3
        <5>2. g \in wrote' <=> res[g].wrote /\ g \notin comp
          BY <3>1, <3>3, <4>1
        <5>3. g \in comp => res[g].fault # "none"
          BY <3>1, <4>3
        <5> QED
          BY <4>1, <4>3, <5>1, <5>2, <5>3, AttemptsHonest
      <4> QED
        BY <4>2, <4>3
    <3>4. CASE g \notin group
      BY <3>1, <3>4 DEF Truthful
    <3> QED
      BY <3>3, <3>4
  <2> QED
    BY <1>1, <1>5, <2>2, <2>3, <2>4, <2>5 DEF Commit, CommitBegin, CommitVisit,
       CommitGrow, CommitGroupOutOfMemory, CommitEnd
<1>6. CASE Drain
  <2>1. ASSUME NEW h \in Hook, Draining(h) PROVE outcome[h] = "PENDING"
    BY <2>1 DEF Draining, Visiting, Pending, Placement
  <2>2. ASSUME NEW h \in Hook, DrainKeeps(h) \/ DrainFails(h) \/ DrainConflict(h)
        PROVE  Truthful'
    BY <1>0, <1>1, <2>1, <2>2 DEF DrainKeeps, DrainFails, DrainConflict, Uncommitted
  <2>3. ASSUME NEW h \in Hook, DrainInstalls(h) PROVE Truthful'
    <3>1. PICK c \in CommitAttempts : Install(h, c)
      BY <2>3 DEF DrainInstalls, SingleAttempts
    <3>2. outcome[h] \in Uncommitted
      BY <2>1, <2>3 DEF DrainInstalls, Uncommitted
    <3> QED
      BY <3>1, <3>2, InstallTruthful
  <2> QED
    BY <1>1, <1>6, <2>2, <2>3 DEF Drain, DrainBegin, DrainEnd
<1>7. CASE ReleasePlan \/ ReleaseRuntime \/ UNCHANGED vars
  BY <1>1, <1>7 DEF ReleasePlan, ReleaseRuntime, vars
<1> QED
  BY <1>2, <1>3, <1>4, <1>5, <1>6, <1>7 DEF Next

-----------------------------------------------------------------------------
(* Loops.                                                                  *)

LEMMA VisitingStep ==
    ASSUME IInv, [Next]_vars PROVE Visiting'
<1> USE DEF planVars, loopVars, resultVars, IInv
<1>1. ASSUME call' \notin {"commit", "drain"} PROVE Visiting'
  BY <1>1 DEF Visiting
<1>2. ASSUME UNCHANGED <<planVars, resultVars, home, call, loopVars>>
      PROVE  Visiting'
  BY <1>2 DEF Visiting, InPlan, Pending
<1>3. CASE Environment
  BY <1>2, <1>3 DEF Environment, TargetAppears, CatalogGrows, OtherConsumerInstalls
<1>4. CASE Build
  BY <1>1, <1>4 DEF Build, DefineDomain, AddHook, Analyze
<1>5. CASE Prepare
  BY <1>1, <1>5 DEF Prepare, PrepareBegin, PrepareCarriesForward, PrepareStale,
     PrepareGateBlocked, PrepareHook, PrepareGroup, PrepareGroupOutOfMemory,
     PrepareEnd, AtHook, CallReturns
<1>6. CASE Commit
  <2>1. CASE CommitBegin
    <3>1. step = "visit" /\ group = {}
      BY <2>1 DEF CommitBegin, Phases
    <3> QED
      BY <2>1, <3>1 DEF CommitBegin, Visiting, InPlan
  <2>2. CASE CommitVisit
    <3>1. NextHook({}) \in todo /\ group = {} /\ call' = "commit"
      BY <2>2, NextHookInTodo DEF CommitVisit, Visiting
    <3>2. InPlan' = InPlan /\ spec' = spec /\ outcome' = outcome
      BY <2>2 DEF CommitVisit, InPlan
    <3>3. CASE outcome[NextHook({})] # "PREPARED"
      BY <2>2, <3>1, <3>2, <3>3 DEF CommitVisit, Visiting
    <3>4. CASE outcome[NextHook({})] = "PREPARED"
      BY <2>2, <3>1, <3>2, <3>4 DEF CommitVisit, Visiting, Groupable
    <3> QED
      BY <3>3, <3>4
  <2>3. CASE CommitGrow
    <3>1. todo \ group # {} => NextHook(group) \in todo
      BY <2>3, NextHookInTodo DEF CommitGrow
    <3>2. /\ call' = "commit"
          /\ todo' = todo /\ InPlan' = InPlan /\ spec' = spec /\ outcome' = outcome
      BY <2>3 DEF CommitGrow, InPlan
    <3>3. CASE group' = group
      BY <2>3, <3>2, <3>3 DEF CommitGrow, Visiting
    <3>4. CASE /\ todo \ group # {} /\ Groupable(NextHook(group))
               /\ group' = group \cup {NextHook(group)} /\ step' = step
      BY <2>3, <3>1, <3>2, <3>4 DEF CommitGrow, Visiting, Groupable
    <3> QED
      BY <2>3, <3>3, <3>4 DEF CommitGrow
  <2>4. CASE CommitGroup
    BY <2>4 DEF CommitGroup, Visiting, InPlan
  <2>5. ASSUME NEW h \in Hook,
               \/ CommitPreflightFails(h) \/ CommitStale(h)
               \/ CommitDependencyFails(h) \/ CommitConflict(h) \/ CommitHook(h)
        PROVE  Visiting'
    <3>1. Advance(h) /\ call = "commit" /\ UNCHANGED hookCount
      BY <2>5 DEF CommitPreflightFails, CommitStale, CommitDependencyFails,
         CommitConflict, CommitHook, Committing
    <3> QED
      BY <3>1 DEF Advance, Visiting, InPlan
  <2> QED
    BY <1>1, <1>6, <2>1, <2>2, <2>3, <2>4, <2>5
       DEF Commit, CommitGroupOutOfMemory, CommitEnd, CallReturns
<1>7. CASE Drain
  <2>1. CASE DrainBegin
    BY <2>1 DEF DrainBegin, Visiting, Pending
  <2>2. ASSUME NEW h \in Hook, DrainKeeps(h) PROVE Visiting'
    BY <2>2 DEF DrainKeeps, Draining, Visiting, Pending
  <2>3. ASSUME NEW h \in Hook,
               DrainFails(h) \/ DrainConflict(h) \/ DrainInstalls(h)
        PROVE  Visiting'
    <3>1. /\ call = "drain" /\ call' = "drain"
          /\ todo' = todo \ {h} /\ home' = [home EXCEPT ![h] = "freed"]
      BY <2>3 DEF DrainFails, DrainConflict, DrainInstalls, Draining, DrainFrees
    <3>2. home \in [Hook -> {"none", "plan", "queue", "freed"}]
      BY DEF TypeOK
    <3> QED
      BY <3>1, <3>2 DEF Visiting, Pending
  <2> QED
    BY <1>1, <1>7, <2>1, <2>2, <2>3 DEF Drain, DrainEnd, CallReturns
<1>8. CASE ReleasePlan \/ ReleaseRuntime
  BY <1>1, <1>8 DEF ReleasePlan, ReleaseRuntime
<1>9. CASE UNCHANGED vars
  BY <1>2, <1>9 DEF vars
<1> QED
  BY <1>3, <1>4, <1>5, <1>6, <1>7, <1>8, <1>9 DEF Next

LEMMA DomainEnteredStep ==
    ASSUME IInv, [Next]_vars PROVE DomainEntered'
<1> USE DEF process, planVars, loopVars, resultVars, IInv
<1>0. InPlan \subseteq Hook /\ outcome \in [Hook -> Outcomes]
  BY BoundsAssumption DEF TypeOK, InPlan, Hook
<1>1. ASSUME call' # "commit" PROVE DomainEntered'
  BY <1>1 DEF DomainEntered
<1>2. ASSUME UNCHANGED <<generation, planVars, resultVars, call, todo, visited>>
      PROVE  DomainEntered'
  BY <1>2 DEF DomainEntered, FirstOfDomain, Mandatory, Members, InPlan, Current
<1>3. CASE Environment
  BY <1>1, <1>2, <1>3 DEF Environment, TargetAppears, CatalogGrows,
     OtherConsumerInstalls
<1>4. CASE Build
  BY <1>1, <1>4 DEF Build, DefineDomain, AddHook, Analyze
<1>5. CASE Prepare
  BY <1>1, <1>5 DEF Prepare, PrepareBegin, PrepareCarriesForward, PrepareStale,
     PrepareGateBlocked, PrepareHook, PrepareGroup, PrepareGroupOutOfMemory,
     PrepareEnd, AtHook, CallReturns
\* A commit's step passes a set V of hooks of its list that settles no hook
\* outside V, in a domain entered before, or without one.
<1>6. ASSUME NEW V, call = "commit",
             UNCHANGED <<generation, planVars, imageGeneration, call>>,
             todo' = todo \ V, visited' = visited \cup V, V \subseteq Hook,
             \A g \in Hook \ V : outcome'[g] = outcome[g],
             \A v \in V : spec[v].domain = NoDomain \/ ~FirstOfDomain(v)
      PROVE  DomainEntered'
  <2> SUFFICES ASSUME NEW h \in todo'
               PROVE  /\ outcome'[h] # "PREPARED" =>
                            spec[h].domain # NoDomain /\ ~FirstOfDomain(h)'
                      /\ outcome'[h] = "PREPARED" /\ spec[h].domain # NoDomain
                            /\ ~FirstOfDomain(h)' =>
                         \A m \in Mandatory(spec[h].domain) :
                            m \in visited' \/ (outcome'[m] = "PREPARED" /\ Current(m))
    BY <1>6 DEF DomainEntered, Mandatory, Members, InPlan, Current
  <2>1. h \in todo /\ h \notin V /\ h \in Hook /\ outcome'[h] = outcome[h]
    BY <1>6 DEF TypeOK
  <2>2. spec[h].domain # NoDomain => (FirstOfDomain(h)' <=> FirstOfDomain(h))
    <3> SUFFICES ASSUME spec[h].domain # NoDomain
                 PROVE  FirstOfDomain(h)' <=> FirstOfDomain(h)
      OBVIOUS
    <3>1. FirstOfDomain(h)' => FirstOfDomain(h)
      BY <1>6 DEF FirstOfDomain
    <3>2. FirstOfDomain(h) => \A v \in V : spec[v].domain # spec[h].domain
      BY <1>6 DEF FirstOfDomain
    <3>3. FirstOfDomain(h) => FirstOfDomain(h)'
      BY <1>6, <3>2 DEF FirstOfDomain
    <3> QED
      BY <3>1, <3>3
  <2>3. \A m \in Mandatory(spec[h].domain) :
           m \in visited \/ (outcome[m] = "PREPARED" /\ Current(m)) =>
               m \in visited' \/ (outcome'[m] = "PREPARED" /\ Current(m))
    BY <1>0, <1>6 DEF Mandatory, Members
  <2> QED
    BY <1>6, <2>1, <2>2, <2>3 DEF DomainEntered
<1>7. CASE Commit
  <2>1. CASE CommitBegin
    <3>1. visited' = {}
      BY <2>1 DEF CommitBegin, Phases
    <3>2. \A h \in todo' : outcome'[h] = "PREPARED"
      BY <2>1 DEF CommitBegin
    <3> QED
      BY <3>1, <3>2 DEF DomainEntered, FirstOfDomain
  <2>2. CASE CommitVisit
    <3>1. NextHook({}) \in todo
      BY <2>2, NextHookInTodo DEF CommitVisit
    <3>2. CASE outcome[NextHook({})] = "PREPARED"
      BY <1>2, <2>2, <3>2 DEF CommitVisit
    <3>3. CASE outcome[NextHook({})] # "PREPARED"
      <4>1. ~FirstOfDomain(NextHook({}))
        BY <2>2, <3>1, <3>3 DEF CommitVisit, DomainEntered
      <4>2. {NextHook({})} \subseteq Hook
        BY <3>1 DEF TypeOK
      <4> QED
        BY <1>6, <2>2, <3>3, <4>1, <4>2 DEF CommitVisit
    <3> QED
      BY <3>2, <3>3
  <2>3. CASE CommitGrow
    BY <1>2, <2>3 DEF CommitGrow
  <2>4. CASE CommitGroup
    <3>1. \A h \in Hook \ group : outcome'[h] = outcome[h]
      BY <2>4 DEF CommitGroup, Restored
    <3>2. group \subseteq Hook /\ \A h \in group : spec[h].domain = NoDomain
      BY <2>4 DEF CommitGroup, TypeOK, Visiting
    <3> QED
      BY <1>6, <2>4, <3>1, <3>2 DEF CommitGroup
  <2>5. ASSUME NEW h \in Hook, CommitPreflightFails(h) PROVE DomainEntered'
    <3> DEFINE d == spec[h].domain
    <3>1. /\ call = "commit" /\ FirstOfDomain(h) /\ d # NoDomain
          /\ todo' = todo \ {h} /\ visited' = visited \cup {h}
          /\ UNCHANGED <<generation, planVars, imageGeneration, call>>
          /\ outcome' = [m \in Hook |->
                  IF m \notin PreparedMembers(d) THEN outcome[m]
                  ELSE IF Current(m) THEN "FAILED_SAFE" ELSE "STALE_PLAN"]
      BY <2>5 DEF CommitPreflightFails, Committing, PassesPreflight, Advance,
         FirstOfDomain
    <3>2. \A g \in Members(d) : outcome'[g] # "PREPARED"
      BY <1>0, <3>1 DEF PreparedMembers, Members
    <3>3. \A g \in Hook : g \notin Members(d) => outcome'[g] = outcome[g]
      BY <3>1 DEF PreparedMembers
    <3> SUFFICES ASSUME NEW g \in todo'
                 PROVE  /\ outcome'[g] # "PREPARED" =>
                              spec[g].domain # NoDomain /\ ~FirstOfDomain(g)'
                        /\ outcome'[g] = "PREPARED" /\ spec[g].domain # NoDomain
                              /\ ~FirstOfDomain(g)' =>
                           \A m \in Mandatory(spec[g].domain) :
                              m \in visited' \/ (outcome'[m] = "PREPARED" /\ Current(m))
      BY <3>1 DEF DomainEntered, Mandatory, Members, InPlan, Current
    <3>4. g \in todo /\ g \in InPlan /\ g \in Hook
      BY <3>1 DEF TypeOK, Visiting
    <3>5. CASE spec[g].domain = d
      <4>1. g \in Members(d)
        BY <3>4, <3>5 DEF Members
      <4>2. ~FirstOfDomain(g)'
        BY <3>1, <3>5 DEF FirstOfDomain
      <4> QED
        BY <3>1, <3>2, <3>5, <4>1, <4>2
    <3>6. CASE spec[g].domain # d
      <4>1. outcome'[g] = outcome[g]
        BY <3>3, <3>4, <3>6 DEF Members
      <4>2. FirstOfDomain(g)' <=> FirstOfDomain(g)
        BY <3>1, <3>6 DEF FirstOfDomain
      <4>3. \A m \in Mandatory(spec[g].domain) : outcome'[m] = outcome[m]
        BY <1>0, <3>3, <3>6 DEF Mandatory, Members
      <4> QED
        BY <3>1, <3>4, <4>1, <4>2, <4>3 DEF DomainEntered
    <3> QED
      BY <3>5, <3>6
  <2>6. ASSUME NEW h \in Hook,
               \/ CommitStale(h) \/ CommitDependencyFails(h)
               \/ CommitConflict(h) \/ CommitHook(h)
        PROVE  DomainEntered'
    <3>1. /\ call = "commit" /\ PassesPreflight(h) /\ Advance(h) /\ Committing(h)
          /\ UNCHANGED <<generation, planVars, imageGeneration, call>>
          /\ \A g \in Hook \ {h} : outcome'[g] = outcome[g]
      BY <1>0, <2>6 DEF CommitStale, CommitDependencyFails, CommitConflict,
         CommitHook, Committing, Install, Advance
    <3>2. CASE ~FirstOfDomain(h)
      <4> DEFINE V == {h}
      <4>1. /\ todo' = todo \ V /\ visited' = visited \cup V /\ V \subseteq Hook
            /\ \A g \in Hook \ V : outcome'[g] = outcome[g]
            /\ \A v \in V : spec[v].domain = NoDomain \/ ~FirstOfDomain(v)
        BY <3>1, <3>2 DEF Advance
      <4> HIDE DEF V
      <4> QED
        BY <1>6, <3>1, <4>1
    <3>3. CASE FirstOfDomain(h)
      <4>1. \A m \in Mandatory(spec[h].domain) : outcome[m] = "PREPARED" /\ Current(m)
        BY <3>1, <3>3 DEF PassesPreflight, Preflight
      <4>2. \A m \in Mandatory(spec[h].domain) :
               m \in visited' \/ (outcome'[m] = "PREPARED" /\ Current(m))
        BY <1>0, <3>1, <4>1 DEF Mandatory, Members, Advance
      <4> SUFFICES ASSUME NEW g \in todo'
                   PROVE  /\ outcome'[g] # "PREPARED" =>
                                spec[g].domain # NoDomain /\ ~FirstOfDomain(g)'
                          /\ outcome'[g] = "PREPARED" /\ spec[g].domain # NoDomain
                                /\ ~FirstOfDomain(g)' =>
                             \A m \in Mandatory(spec[g].domain) :
                                m \in visited' \/ (outcome'[m] = "PREPARED" /\ Current(m))
        BY <3>1 DEF DomainEntered, Mandatory, Members, InPlan, Current
      <4>3. g \in todo /\ g \in Hook /\ g # h /\ outcome'[g] = outcome[g]
        BY <3>1 DEF TypeOK, Advance
      <4>4. FirstOfDomain(g)' => FirstOfDomain(g)
        BY <3>1 DEF FirstOfDomain, Advance
      <4>5. CASE spec[g].domain = spec[h].domain
        BY <3>1, <4>2, <4>3, <4>4, <4>5 DEF DomainEntered
      <4>6. CASE spec[g].domain # spec[h].domain
        <5>1. FirstOfDomain(g)' <=> FirstOfDomain(g)
          BY <3>1, <4>6 DEF FirstOfDomain, Advance
        <5>2. \A m \in Mandatory(spec[g].domain) : outcome'[m] = outcome[m]
          BY <1>0, <3>1, <4>6 DEF Mandatory, Members
        <5>3. visited \subseteq visited'
          BY <3>1 DEF Advance
        <5> QED
          BY <3>1, <4>3, <5>1, <5>2, <5>3 DEF DomainEntered
      <4> QED
        BY <4>5, <4>6
    <3> QED
      BY <3>2, <3>3
  <2> QED
    BY <1>1, <1>7, <2>1, <2>2, <2>3, <2>4, <2>5, <2>6
       DEF Commit, CommitGroupOutOfMemory, CommitEnd, CallReturns
<1>8. CASE Drain
  BY <1>1, <1>8 DEF Drain, DrainBegin, DrainKeeps, DrainFails, DrainConflict,
     DrainInstalls, DrainEnd, Draining, DrainFrees, CallReturns
<1>9. CASE ReleasePlan \/ ReleaseRuntime
  BY <1>1, <1>9 DEF ReleasePlan, ReleaseRuntime
<1>10. CASE UNCHANGED vars
  BY <1>2, <1>10 DEF vars
<1> QED
  BY <1>3, <1>4, <1>5, <1>7, <1>8, <1>9, <1>10 DEF Next

LEMMA OrderedStep ==
    ASSUME IInv, [Next]_vars PROVE Ordered'
<1> USE DEF planVars, loopVars, resultVars, IInv
<1>0. InPlan \subseteq Hook /\ outcome \in [Hook -> Outcomes]
  BY BoundsAssumption DEF TypeOK, InPlan, Hook
<1>1. ASSUME call' # "commit" PROVE Ordered'
  BY <1>1 DEF Ordered
<1>2. ASSUME UNCHANGED <<planVars, resultVars, call, todo, visited, group>>
      PROVE  Ordered'
  BY <1>2 DEF Ordered, InPlan
\* A commit's step passes the hooks of V and leaves none of them prepared.
<1>3. ASSUME NEW V, call = "commit", UNCHANGED <<planVars, call>>,
             todo' = todo \ V, visited' = visited \cup V, group' = {},
             \A h \in InPlan :
                 outcome'[h] = "PREPARED" => outcome[h] = "PREPARED" /\ h \notin V,
             \A h \in V : spec[h].after \cap todo = {}
      PROVE  Ordered'
  BY <1>3 DEF Ordered, InPlan
<1>4. CASE Environment
  BY <1>1, <1>2, <1>4 DEF Environment, TargetAppears, CatalogGrows,
     OtherConsumerInstalls
<1>5. CASE Build
  BY <1>1, <1>5 DEF Build, DefineDomain, AddHook, Analyze
<1>6. CASE Prepare
  BY <1>1, <1>6 DEF Prepare, PrepareBegin, PrepareCarriesForward, PrepareStale,
     PrepareGateBlocked, PrepareHook, PrepareGroup, PrepareGroupOutOfMemory,
     PrepareEnd, AtHook, CallReturns
<1>7. CASE Commit
  <2>1. CASE CommitBegin
    <3>1. visited' = {} /\ group' = {}
      BY <2>1 DEF CommitBegin, Phases
    <3> QED
      BY <2>1, <3>1 DEF CommitBegin, Ordered, InPlan
  <2>2. CASE CommitVisit
    <3>1. NextHook({}) \in todo /\ spec[NextHook({})].after \cap todo = {}
          /\ group = {} /\ call = "commit"
      BY <2>2, NextHookInTodo DEF CommitVisit, Visiting
    <3>2. CASE outcome[NextHook({})] # "PREPARED"
      <4> DEFINE V == {NextHook({})}
      <4>1. /\ UNCHANGED <<planVars, call>>
            /\ todo' = todo \ V /\ visited' = visited \cup V /\ group' = {}
            /\ outcome' = outcome
        BY <2>2, <3>1, <3>2 DEF CommitVisit
      <4>2. /\ \A h \in InPlan : outcome'[h] = "PREPARED" =>
                                      outcome[h] = "PREPARED" /\ h \notin V
            /\ \A h \in V : spec[h].after \cap todo = {}
        BY <3>1, <3>2, <4>1
      <4> HIDE DEF V
      <4> QED
        BY <1>3, <3>1, <4>1, <4>2
    <3>3. CASE outcome[NextHook({})] = "PREPARED"
      <4>1. /\ UNCHANGED <<planVars, call, outcome, todo, visited>>
            /\ group' = {NextHook({})}
        BY <2>2, <3>3 DEF CommitVisit
      <4> QED
        BY <3>1, <4>1 DEF Ordered, InPlan
    <3> QED
      BY <3>2, <3>3
  <2>3. CASE CommitGrow
    <3>1. UNCHANGED <<planVars, call, outcome, todo, visited>>
      BY <2>3 DEF CommitGrow
    <3>2. CASE group' = group
      BY <3>1, <3>2 DEF Ordered, InPlan
    <3>3. CASE /\ Groupable(NextHook(group))
               /\ group' = group \cup {NextHook(group)}
      BY <3>1, <3>3 DEF Ordered, InPlan, Groupable
    <3> QED
      BY <2>3, <3>2, <3>3 DEF CommitGrow
  <2>4. CASE CommitGroup
    <3>1. PICK res \in [group -> CommitAttempts], comp \in SUBSET group :
            /\ outcome' = [h \in Hook |->
                  IF h \in {g \in comp : res[g].fault \notin {"record", "append"}}
                  THEN "COMPENSATED"
                  ELSE IF h \in group
                  THEN CommitOutcome([g \in group |-> FinalMutation(res[g])][h])
                  ELSE outcome[h]]
            /\ wrote' = (wrote \cup {h \in group : res[h].wrote}) \ comp
      BY <2>4 DEF CommitGroup, Restored
    <3>2. ASSUME NEW h \in group, h \in Hook PROVE outcome'[h] # "PREPARED"
      <4>1. CommitOutcome(FinalMutation(res[h])) # "PREPARED"
        BY <3>1, <3>2, AttemptsHonest
      <4> QED
        BY <3>1, <3>2, <4>1
    <3>3. \A h \in Hook \ group : outcome'[h] = outcome[h]
      BY <3>1
    <3>4. \A h \in group : spec[h].after \cap todo = {}
      BY <2>4 DEF CommitGroup, Ordered
    <3>5. /\ call = "commit" /\ UNCHANGED <<planVars, call>>
          /\ todo' = todo \ group /\ visited' = visited \cup group /\ group' = {}
      BY <2>4 DEF CommitGroup
    <3> QED
      BY <1>0, <1>3, <3>2, <3>3, <3>4, <3>5
  <2>5. ASSUME NEW h \in Hook,
               \/ CommitPreflightFails(h) \/ CommitStale(h)
               \/ CommitDependencyFails(h) \/ CommitConflict(h) \/ CommitHook(h)
        PROVE  Ordered'
    <3> DEFINE V == {h}
    <3>1. Committing(h) /\ Advance(h) /\ UNCHANGED <<planVars, call>>
      BY <2>5 DEF CommitPreflightFails, CommitStale, CommitDependencyFails,
         CommitConflict, CommitHook, Advance
    <3>2. h \in InPlan /\ outcome[h] = "PREPARED" /\ spec[h].after \cap todo = {}
      BY <3>1 DEF Committing, Visiting, Ordered
    <3>3. \A g \in InPlan : outcome'[g] = "PREPARED" =>
                                outcome[g] = "PREPARED" /\ g \notin V
      <4>1. CASE CommitPreflightFails(h)
        <5>1. /\ spec[h].domain # NoDomain
              /\ outcome' = [m \in Hook |->
                  IF m \notin PreparedMembers(spec[h].domain) THEN outcome[m]
                  ELSE IF Current(m) THEN "FAILED_SAFE" ELSE "STALE_PLAN"]
          BY <4>1 DEF CommitPreflightFails, PassesPreflight, FirstOfDomain
        <5>2. h \in PreparedMembers(spec[h].domain)
          BY <3>2 DEF PreparedMembers, Members
        <5> QED
          BY <1>0, <5>1, <5>2
      <4>2. CASE CommitHook(h)
        <5>1. PICK a \in CommitAttempts : Install(h, a)
          BY <4>2 DEF CommitHook, SingleAttempts
        <5>2. CommitOutcome(FinalMutation(a)) # "PREPARED"
          BY <5>1, AttemptsHonest
        <5> QED
          BY <1>0, <5>1, <5>2 DEF Install
      <4>3. CASE CommitStale(h) \/ CommitDependencyFails(h) \/ CommitConflict(h)
        BY <1>0, <4>3 DEF CommitStale, CommitDependencyFails, CommitConflict
      <4> QED
        BY <2>5, <4>1, <4>2, <4>3
    <3>4. /\ call = "commit" /\ todo' = todo \ V /\ visited' = visited \cup V
          /\ group' = {} /\ \A g \in V : spec[g].after \cap todo = {}
      BY <3>1, <3>2 DEF Committing, Advance
    <3> HIDE DEF V
    <3> QED
      BY <1>3, <3>1, <3>3, <3>4
  <2> QED
    BY <1>1, <1>7, <2>1, <2>2, <2>3, <2>4, <2>5
       DEF Commit, CommitGroupOutOfMemory, CommitEnd, CallReturns
<1>8. CASE Drain
  BY <1>1, <1>8 DEF Drain, DrainBegin, DrainKeeps, DrainFails, DrainConflict,
     DrainInstalls, DrainEnd, Draining, DrainFrees, CallReturns
<1>9. CASE ReleasePlan \/ ReleaseRuntime
  BY <1>1, <1>9 DEF ReleasePlan, ReleaseRuntime
<1>10. CASE UNCHANGED vars
  BY <1>2, <1>10 DEF vars
<1> QED
  BY <1>4, <1>5, <1>6, <1>7, <1>8, <1>9, <1>10 DEF Next

-----------------------------------------------------------------------------
(* The theorems.                                                           *)

LEMMA Invariance == Spec => []IInv
<1>1. Init => IInv
  <2> SUFFICES ASSUME Init PROVE IInv
    OBVIOUS
  <2>1. InPlan = {}
    BY DEF Init, InPlan
  <2>2. Placement
    BY <2>1 DEF Init, Placement
  <2> QED
    BY <2>1, <2>2, TypeInit DEF Init, IInv, Phases, Drafted, Truthful, Visiting,
       DomainEntered, Ordered, Uncommitted
<1>2. IInv /\ [Next]_vars => IInv'
  <2> SUFFICES ASSUME IInv, [Next]_vars PROVE IInv'
    OBVIOUS
  <2>1. TypeOK'
    BY TypeStep DEF IInv
  <2> QED
    BY <2>1, PhasesStep, PlacementStep, DraftedStep, TruthfulStep, VisitingStep,
       DomainEnteredStep, OrderedStep DEF IInv
<1> QED
  BY <1>1, <1>2, PTL DEF Spec

\* Every variable of the plan's life keeps its type.
THEOREM TypeCorrect == Spec => []TypeOK
<1>1. IInv => TypeOK
  BY DEF IInv
<1> QED
  BY <1>1, Invariance, PTL

\* Whatever the engines answer and whatever fails around them, the mutation
\* state and the outcome of every hook are true of its target.
THEOREM ResultsAreHonest == Spec => []HonestResult
<1>1. IInv => HonestResult
  BY DEF IInv, Truthful, HonestResult, Uncommitted
<1> QED
  BY <1>1, Invariance, PTL

\* During a commit only a group or a single hook's attempt changes targets.
LEMMA CommitWrites ==
    ASSUME IInv, [Next]_vars, call = "commit", NEW h \in wrote' \ wrote
    PROVE  \/ CommitGroup /\ h \in group
           \/ CommitHook(h)
<1>1. CASE CommitGroup
  BY <1>1 DEF CommitGroup
<1>2. ASSUME NEW g \in Hook, CommitHook(g) PROVE CommitHook(h)
  <2>1. h = g
    BY <1>2 DEF CommitHook, Install
  <2> QED
    BY <1>2, <2>1
<1>3. CASE Environment
  BY <1>3 DEF Environment, TargetAppears, CatalogGrows, OtherConsumerInstalls
<1>4. CASE Build
  BY <1>4 DEF Build, DefineDomain, AddHook, Analyze
<1>5. CASE Prepare
  BY <1>5 DEF Prepare, PrepareBegin, PrepareCarriesForward, PrepareStale,
     PrepareGateBlocked, PrepareHook, PrepareGroup, PrepareGroupOutOfMemory,
     PrepareEnd
<1>6. CASE Commit
  BY <1>1, <1>2, <1>6 DEF Commit, CommitBegin, CommitVisit, CommitGrow,
     CommitGroupOutOfMemory, CommitPreflightFails, CommitStale,
     CommitDependencyFails, CommitConflict, CommitEnd
<1>7. CASE Drain
  BY <1>7 DEF Drain, DrainBegin, DrainKeeps, DrainFails, DrainConflict,
     DrainInstalls, DrainEnd, Draining
<1>8. CASE ReleasePlan \/ ReleaseRuntime \/ UNCHANGED vars
  BY <1>8 DEF ReleasePlan, ReleaseRuntime, vars
<1> QED
  BY <1>3, <1>4, <1>5, <1>6, <1>7, <1>8 DEF Next

\* Only commits and drains change targets.
LEMMA WritesInCalls ==
    ASSUME [Next]_vars, call \notin {"commit", "drain"} PROVE wrote' = wrote
<1>1. CASE Environment \/ Build
  BY <1>1 DEF Environment, TargetAppears, CatalogGrows, OtherConsumerInstalls,
     Build, DefineDomain, AddHook, Analyze
<1>2. CASE Prepare
  BY <1>2 DEF Prepare, PrepareBegin, PrepareCarriesForward, PrepareStale,
     PrepareGateBlocked, PrepareHook, PrepareGroup, PrepareGroupOutOfMemory,
     PrepareEnd
<1>3. CASE Commit
  BY <1>3 DEF Commit, CommitBegin, CommitVisit, CommitGrow, CommitGroup,
     CommitGroupOutOfMemory, CommitPreflightFails, CommitStale,
     CommitDependencyFails, CommitConflict, CommitHook, Committing, CommitEnd
<1>4. CASE Drain
  BY <1>4 DEF Drain, DrainBegin, DrainKeeps, DrainFails, DrainConflict,
     DrainInstalls, DrainEnd, Draining
<1>5. CASE ReleasePlan \/ ReleaseRuntime \/ UNCHANGED vars
  BY <1>5 DEF ReleasePlan, ReleaseRuntime, vars
<1> QED
  BY <1>1, <1>2, <1>3, <1>4, <1>5 DEF Next

\* The specs of a plan's hooks never change.
LEMMA SpecsKept ==
    ASSUME IInv, [Next]_vars, NEW h \in InPlan PROVE spec'[h] = spec[h]
<1> USE DEF planVars
<1>1. CASE Environment
  BY <1>1 DEF Environment, TargetAppears, CatalogGrows, OtherConsumerInstalls
<1>2. ASSUME NEW r \in Requests, AddHook(r) PROVE spec'[h] = spec[h]
  <2>1. hookCount \in Nat /\ h # hookCount + 1
    BY BoundsAssumption DEF IInv, TypeOK, InPlan
  <2> QED
    BY <1>2, <2>1 DEF AddHook, IInv, TypeOK
<1>3. CASE Build
  BY <1>2, <1>3 DEF Build, DefineDomain, Analyze
<1>4. CASE Prepare
  BY <1>4 DEF Prepare, PrepareBegin, PrepareCarriesForward, PrepareStale,
     PrepareGateBlocked, PrepareHook, PrepareGroup, PrepareGroupOutOfMemory,
     PrepareEnd
<1>5. CASE Commit
  BY <1>5 DEF Commit, CommitBegin, CommitVisit, CommitGrow, CommitGroup,
     CommitGroupOutOfMemory, CommitPreflightFails, CommitStale,
     CommitDependencyFails, CommitConflict, CommitHook, CommitEnd
<1>6. CASE Drain
  BY <1>6 DEF Drain, DrainBegin, DrainKeeps, DrainFails, DrainConflict,
     DrainInstalls, DrainEnd
<1>7. CASE ReleasePlan \/ ReleaseRuntime \/ UNCHANGED vars
  BY <1>7 DEF ReleasePlan, ReleaseRuntime, vars
<1> QED
  BY <1>1, <1>3, <1>4, <1>5, <1>6, <1>7 DEF Next

\* While its plan lives, an installed hook stays installed.
LEMMA ActiveStays ==
    ASSUME IInv, [Next]_vars, state' # "RELEASED",
           NEW a \in Hook, outcome[a] = "ACTIVE"
    PROVE  outcome'[a] = "ACTIVE"
<1> USE DEF resultVars
<1>0. outcome \in [Hook -> Outcomes]
  BY DEF IInv, TypeOK
<1>1. CASE Environment
  BY <1>1 DEF Environment, TargetAppears, CatalogGrows, OtherConsumerInstalls
<1>2. CASE Build
  <2>1. CASE Analyze
    BY <2>1 DEF Analyze, IInv, Drafted
  <2> QED
    BY <1>2, <2>1 DEF Build, DefineDomain, AddHook
<1>3. CASE Prepare
  <2>1. a \notin DomainReleases(cursor)
    BY DEF DomainReleases, PreparedMembers
  <2>2. CASE PrepareGroup
    <3>1. PICK k \in InPlan : /\ PrepareRun(cursor, k)
                             /\ \A h \in Hook : h \notin cursor..k =>
                                                  outcome'[h] = outcome[h]
      BY <2>2 DEF PrepareGroup, PrepareGroupEnds
    <3> QED
      BY <3>1 DEF PrepareRun
  <2>3. CASE PrepareStale \/ PrepareGateBlocked \/ PrepareHook
    BY <1>0, <2>1, <2>3 DEF PrepareStale, PrepareGateBlocked, PrepareHook
  <2> QED
    BY <1>3, <2>2, <2>3 DEF Prepare, PrepareBegin, PrepareCarriesForward,
       PrepareGroupOutOfMemory, PrepareEnd
<1>4. CASE Commit
  <2>1. CASE CommitGroup
    <3>1. a \notin group
      BY <2>1 DEF CommitGroup, IInv, Visiting
    <3> QED
      BY <2>1, <3>1 DEF CommitGroup, Restored
  <2>2. ASSUME NEW h \in Hook, CommitPreflightFails(h) PROVE outcome'[a] = "ACTIVE"
    BY <2>2 DEF CommitPreflightFails, PreparedMembers
  <2>3. ASSUME NEW h \in Hook,
               \/ CommitStale(h) \/ CommitDependencyFails(h)
               \/ CommitConflict(h) \/ CommitHook(h)
        PROVE  outcome'[a] = "ACTIVE"
    <3>1. a # h
      BY <2>3 DEF CommitStale, CommitDependencyFails, CommitConflict, CommitHook,
         Committing, IInv, Visiting
    <3> QED
      BY <1>0, <2>3, <3>1 DEF CommitStale, CommitDependencyFails, CommitConflict,
         CommitHook, Install
  <2> QED
    BY <1>4, <2>1, <2>2, <2>3 DEF Commit, CommitBegin, CommitVisit, CommitGrow,
       CommitGroupOutOfMemory, CommitEnd
<1>5. CASE Drain
  <2>1. call = "drain" => FALSE
    BY <1>5 DEF Drain, DrainBegin, DrainKeeps, DrainFails, DrainConflict,
       DrainInstalls, DrainEnd, planVars, IInv, Phases
  <2> QED
    BY <1>5, <2>1 DEF Drain, DrainBegin, DrainKeeps, DrainFails, DrainConflict,
       DrainInstalls, DrainEnd, Draining
<1>6. CASE ReleasePlan \/ ReleaseRuntime \/ UNCHANGED vars
  BY <1>6 DEF ReleasePlan, ReleaseRuntime, vars
<1> QED
  BY <1>1, <1>2, <1>3, <1>4, <1>5, <1>6 DEF Next

\* A plan that lives after a step lived before it.
LEMMA ReleasedForGood ==
    ASSUME IInv, [Next]_vars, state = "RELEASED" PROVE state' = "RELEASED"
<1> USE DEF planVars
<1>0. call \notin {"prepare", "commit"}
  BY DEF IInv, Phases
<1>1. CASE Environment \/ Build
  BY <1>1 DEF Environment, TargetAppears, CatalogGrows, OtherConsumerInstalls,
     Build, DefineDomain, AddHook, Analyze
<1>2. CASE Prepare
  BY <1>0, <1>2 DEF Prepare, PrepareBegin, PrepareCarriesForward, PrepareStale,
     PrepareGateBlocked, PrepareHook, PrepareGroup, PrepareGroupOutOfMemory,
     PrepareEnd, AtHook
<1>3. CASE Commit
  BY <1>0, <1>3 DEF Commit, CommitBegin, CommitVisit, CommitGrow, CommitGroup,
     CommitGroupOutOfMemory, CommitPreflightFails, CommitStale,
     CommitDependencyFails, CommitConflict, CommitHook, Committing, CommitEnd
<1>4. CASE Drain
  BY <1>4 DEF Drain, DrainBegin, DrainKeeps, DrainFails, DrainConflict,
     DrainInstalls, DrainEnd
<1>5. CASE ReleasePlan \/ ReleaseRuntime \/ UNCHANGED vars
  BY <1>5 DEF ReleasePlan, ReleaseRuntime, vars
<1> QED
  BY <1>1, <1>2, <1>3, <1>4, <1>5 DEF Next

\* While a plan lives, every hook whose target it has changed follows hooks that
\* are ACTIVE, and no hook a commit has passed waits for one it has not: the
\* order of the commit, its groups, compensation and its interrupted calls never
\* leave a dependent installed without what it depends on.
THEOREM DependentsAlwaysFollow == Spec => []DependentsFollow
<1> DEFINE Followed == \A h \in Hook : home[h] = "plan" /\ h \in wrote =>
                          \A a \in spec[h].after : outcome[a] = "ACTIVE"
           Passed == \A h \in Hook : home[h] = "plan" =>
                        (call = "commit" /\ h \in visited =>
                            \A a \in spec[h].after : outcome[a] # "PREPARED")
<1>1. IInv => Passed
  <2> SUFFICES ASSUME IInv, call = "commit",
                      NEW h \in Hook, home[h] = "plan", h \in visited,
                      NEW a \in spec[h].after
               PROVE  outcome[a] # "PREPARED"
    OBVIOUS
  <2>1. h \in InPlan /\ spec[h] \in Requests /\ a < h
    BY DEF IInv, Placement
  <2>2. a \in Hook
    BY <2>1, RequestFields
  <2>3. a \in InPlan
    BY <2>1, <2>2, BoundsAssumption DEF InPlan, Hook, IInv, TypeOK
  <2>4. a \notin todo
    BY DEF IInv, Ordered
  <2> QED
    BY <2>3, <2>4 DEF IInv, Ordered
<1>2. Init => Followed
  BY DEF Init
<1>3. IInv /\ IInv' /\ Followed /\ [Next]_vars => Followed'
  <2> SUFFICES ASSUME IInv, IInv', Followed, [Next]_vars,
                      NEW h \in Hook, home'[h] = "plan", h \in wrote',
                      NEW a \in spec'[h].after
               PROVE  outcome'[a] = "ACTIVE"
    OBVIOUS
  <2>1. state' # "RELEASED" /\ state # "RELEASED"
    BY ReleasedForGood DEF IInv, Placement
  <2>2. h \in wrote \/ call = "commit"
    <3>1. call # "drain"
      BY <2>1 DEF IInv, Phases
    <3> QED
      BY <3>1, WritesInCalls
  <2>3. h \in InPlan
    <3>1. CASE h \in wrote
      BY <3>1 DEF IInv, Placement, Truthful, Uncommitted
    <3>2. CASE h \notin wrote
      <4>1. (CommitGroup /\ h \in group) \/ CommitHook(h)
        BY <2>2, <3>2, CommitWrites
      <4> QED
        BY <2>2, <3>2, <4>1 DEF CommitHook, Committing, IInv, Visiting
    <3> QED
      BY <3>1, <3>2
  <2>4. home[h] = "plan" /\ a \in spec[h].after /\ a \in Hook
    BY <2>1, <2>3, SpecsKept, RequestFields DEF IInv, Placement
  <2>5. outcome[a] = "ACTIVE"
    <3>1. CASE h \in wrote
      BY <2>4, <3>1
    <3>2. CASE h \notin wrote
      <4>1. (CommitGroup /\ h \in group) \/ CommitHook(h)
        BY <2>2, <3>2, CommitWrites
      <4>2. CASE CommitGroup /\ h \in group
        <5>1. call = "commit" /\ step = "group" /\ h \in group
          BY <4>2 DEF CommitGroup
        <5> QED
          BY <2>4, <5>1 DEF IInv, Visiting
      <4>3. CASE CommitHook(h)
        BY <2>4, <4>3 DEF CommitHook, DependenciesActive
      <4> QED
        BY <4>1, <4>2, <4>3
    <3> QED
      BY <3>1, <3>2
  <2> QED
    BY <2>1, <2>4, <2>5, ActiveStays
<1>4. Followed /\ Passed => DependentsFollow
  BY DEF DependentsFollow
<1> HIDE DEF Followed, Passed
<1> QED
  BY <1>1, <1>2, <1>3, <1>4, Invariance, PTL DEF Spec

\* A commit changes a target of a domain only when the domain is whole.
THEOREM DomainsStartWhole == Spec => DomainStartsWhole
<1>1. ASSUME IInv, [Next]_vars, NEW h \in wrote' \ wrote,
             call = "commit", spec[h].domain # NoDomain
      PROVE  \A m \in Mandatory(spec[h].domain) :
                 m \in visited' \/ (outcome[m] = "PREPARED" /\ Current(m))
  <2>1. ~(CommitGroup /\ h \in group)
    <3>1. ASSUME call = "commit", step = "group", h \in group
          PROVE  spec[h].domain = NoDomain
      BY <1>1, <3>1 DEF IInv, Visiting
    <3> QED
      BY <1>1, <3>1 DEF CommitGroup
  <2>2. CommitHook(h)
    BY <1>1, <2>1, CommitWrites
  <2>3. PassesPreflight(h) /\ h \in todo /\ outcome[h] = "PREPARED"
        /\ visited \subseteq visited'
    BY <1>1, <2>2 DEF CommitHook, Committing, Advance, IInv, Visiting
  <2>4. CASE FirstOfDomain(h)
    BY <2>3, <2>4 DEF PassesPreflight, Preflight
  <2>5. CASE ~FirstOfDomain(h)
    BY <1>1, <2>3, <2>5 DEF IInv, DomainEntered
  <2> QED
    BY <2>4, <2>5
<1>2. IInv /\ [Next]_vars =>
        [\A h \in wrote' \ wrote :
            call = "commit" /\ spec[h].domain # NoDomain =>
              \A m \in Mandatory(spec[h].domain) :
                  m \in visited' \/ (outcome[m] = "PREPARED" /\ Current(m))]_vars
  BY <1>1
<1> QED
  BY <1>2, Invariance, PTL DEF Spec, DomainStartsWhole

-----------------------------------------------------------------------------
(* Prepared states.                                                        *)

\* Outcomes of hooks that hold no prepared state: no engine was asked for one,
\* or the target was absent.
Unasked == {"UNANALYZED", "NO_ROUTE", "ANALYZED", "PENDING"}

Unprepared == \A h \in Hook : outcome[h] \in Unasked => ~preparedState[h]

BInv == IInv /\ Unprepared /\ PreparationsBalanced

\* What an attempt takes from the engine and gives back leaves one prepared
\* state after a success that has one and none otherwise.
LEMMA AttemptBalance ==
    /\ \A h \in Hook : \A a \in PrepareAttempts(h) : a \in PrepareAttemptKinds
    /\ \A a \in PrepareAttemptKinds :
          /\ Allocated(a) \in Int /\ ReleasedAtOnce(a) \in Int
          /\ Allocated(a) - ReleasedAtOnce(a) = IF a = "ok" THEN 1 ELSE 0
    /\ \A h \in Hook, a \in PrepareAttemptKinds :
          PrepareOutcome(h, a) \in Unasked => a # "ok"
<1>1. \A h \in Hook : \A a \in PrepareAttempts(h) : a \in PrepareAttemptKinds
  BY DEF PrepareAttempts, PrepareAttemptKinds
<1>2. \A a \in PrepareAttemptKinds :
          /\ Allocated(a) \in Int /\ ReleasedAtOnce(a) \in Int
          /\ Allocated(a) - ReleasedAtOnce(a) = IF a = "ok" THEN 1 ELSE 0
  BY DEF PrepareAttemptKinds, Allocated, ReleasedAtOnce
<1>3. \A h \in Hook, a \in PrepareAttemptKinds :
          PrepareOutcome(h, a) \in Unasked => a # "ok"
  BY DEF PrepareOutcome, PrepareResult, Unasked
<1> QED
  BY <1>1, <1>2, <1>3

\* Attempts on hooks of the plan that hold nothing, and the release of others.
LEMMA PrepareBalance ==
    ASSUME BInv, NEW att, NEW R, EngineStateAfterPrepare(att, R),
           home' = home,
           \A h \in Hook : h \in DOMAIN att =>
               /\ ~preparedState[h] /\ home[h] # "freed"
               /\ att[h] \in PrepareAttemptKinds
               /\ outcome'[h] = PrepareOutcome(h, att[h]),
           \A h \in Hook : h \notin DOMAIN att =>
               outcome'[h] = outcome[h] \/ outcome'[h] \notin Unasked
    PROVE  Unprepared' /\ PreparationsBalanced'
<1>1. preparedState \in [Hook -> BOOLEAN] /\ live \in [Hook -> Int]
  BY DEF BInv, IInv, TypeOK
<1>2. /\ preparedState' = [h \in Hook |->
            IF h \in DOMAIN att THEN att[h] = "ok"
            ELSE preparedState[h] /\ h \notin R]
      /\ live' = [h \in Hook |->
            IF h \in DOMAIN att
            THEN live[h] - Held(h) + Allocated(att[h]) - ReleasedAtOnce(att[h])
            ELSE IF h \in R THEN live[h] - Held(h) ELSE live[h]]
  BY DEF EngineStateAfterPrepare
<1>3. \A h \in Hook : live[h] = Held(h) /\ (home[h] = "freed" => ~preparedState[h])
  BY DEF BInv, PreparationsBalanced
<1>4. ASSUME NEW h \in Hook, h \in DOMAIN att
      PROVE  /\ preparedState'[h] = (att[h] = "ok")
             /\ live'[h] = IF att[h] = "ok" THEN 1 ELSE 0
             /\ outcome'[h] \in Unasked => ~preparedState'[h]
             /\ home'[h] # "freed"
  <2>1. att[h] \in PrepareAttemptKinds /\ live[h] = 0 /\ Held(h) = 0
    BY <1>3, <1>4 DEF Held
  <2>2. live'[h] = Allocated(att[h]) - ReleasedAtOnce(att[h])
    BY <1>2, <1>4, <2>1, AttemptBalance
  <2> QED
    BY <1>2, <1>4, <2>1, <2>2, AttemptBalance
<1>5. ASSUME NEW h \in Hook, h \notin DOMAIN att
      PROVE  /\ preparedState'[h] = (preparedState[h] /\ h \notin R)
             /\ live'[h] = IF h \in R THEN 0 ELSE live[h]
  BY <1>1, <1>2, <1>3, <1>5 DEF Held
<1>6. Unprepared'
  <2> SUFFICES ASSUME NEW h \in Hook, outcome'[h] \in Unasked
               PROVE  ~preparedState'[h]
    BY DEF Unprepared
  <2>1. CASE h \in DOMAIN att
    BY <1>4, <2>1
  <2>2. CASE h \notin DOMAIN att
    BY <1>5, <2>2 DEF BInv, Unprepared
  <2> QED
    BY <2>1, <2>2
<1>7. PreparationsBalanced'
  <2> SUFFICES ASSUME NEW h \in Hook
               PROVE  /\ live'[h] = IF preparedState'[h] THEN 1 ELSE 0
                      /\ home'[h] = "freed" => ~preparedState'[h]
    BY DEF PreparationsBalanced, Held
  <2>1. CASE h \in DOMAIN att
    BY <1>4, <2>1
  <2>2. CASE h \notin DOMAIN att
    BY <1>3, <1>5, <2>2 DEF Held
  <2> QED
    BY <2>1, <2>2
<1> QED
  BY <1>6, <1>7

\* The release of the hooks in S, which may be freed at once.
LEMMA ReleaseBalance ==
    ASSUME BInv, NEW S, ReleasePrepared(S),
           \A h \in Hook : home'[h] = home[h] \/ home'[h] # "freed" \/ h \in S,
           \A h \in Hook : outcome'[h] = outcome[h] \/ outcome'[h] \notin Unasked
    PROVE  Unprepared' /\ PreparationsBalanced'
<1>1. preparedState \in [Hook -> BOOLEAN] /\ live \in [Hook -> Int]
  BY DEF BInv, IInv, TypeOK
<1>2. \A h \in Hook : live[h] = Held(h) /\ (home[h] = "freed" => ~preparedState[h])
  BY DEF BInv, PreparationsBalanced
<1>3. ASSUME NEW h \in Hook
      PROVE  /\ preparedState'[h] = (h \notin S /\ preparedState[h])
             /\ live'[h] = IF h \in S THEN 0 ELSE live[h]
  BY <1>1, <1>2 DEF ReleasePrepared, Held
<1>4. Unprepared'
  BY <1>3 DEF Unprepared, BInv
<1>5. PreparationsBalanced'
  <2> SUFFICES ASSUME NEW h \in Hook
               PROVE  /\ live'[h] = IF preparedState'[h] THEN 1 ELSE 0
                      /\ home'[h] = "freed" => ~preparedState'[h]
    BY DEF PreparationsBalanced, Held
  <2> QED
    BY <1>2, <1>3 DEF Held
<1> QED
  BY <1>4, <1>5

\* A queued hook is freed after its retry.
LEMMA FreeBalance ==
    ASSUME BInv, NEW h \in Hook, outcome[h] = "PENDING",
           NEW a \in PrepareAttempts(h), DrainFrees(h, a),
           outcome'[h] \notin Unasked,
           \A g \in Hook : g # h => outcome'[g] = outcome[g]
    PROVE  Unprepared' /\ PreparationsBalanced'
<1>1. /\ preparedState \in [Hook -> BOOLEAN] /\ live \in [Hook -> Int]
      /\ home \in [Hook -> {"none", "plan", "queue", "freed"}]
  BY DEF BInv, IInv, TypeOK
<1>2. \A g \in Hook : live[g] = Held(g) /\ (home[g] = "freed" => ~preparedState[g])
  BY DEF BInv, PreparationsBalanced
<1>3. ~preparedState[h] /\ live[h] = 0
  BY <1>2 DEF BInv, Unprepared, Unasked, Held
<1>4. ~preparedState'[h] /\ live'[h] = 0
  <2>1. /\ Allocated(a) \in Int /\ ReleasedAtOnce(a) \in Int
        /\ Allocated(a) - ReleasedAtOnce(a) = IF a = "ok" THEN 1 ELSE 0
    BY AttemptBalance
  <2>2. /\ preparedState' = [preparedState EXCEPT ![h] = FALSE]
        /\ live' = [live EXCEPT ![h] = live[h] + Allocated(a) - ReleasedAtOnce(a)
                                         - IF a = "ok" THEN 1 ELSE 0]
    BY DEF DrainFrees
  <2> QED
    BY <1>1, <1>3, <2>1, <2>2
<1>5. \A g \in Hook : g # h => /\ preparedState'[g] = preparedState[g]
                               /\ live'[g] = live[g] /\ home'[g] = home[g]
  BY <1>1 DEF DrainFrees
<1>6. Unprepared'
  BY <1>4, <1>5 DEF Unprepared, BInv
<1>7. PreparationsBalanced'
  <2> SUFFICES ASSUME NEW g \in Hook
               PROVE  /\ live'[g] = IF preparedState'[g] THEN 1 ELSE 0
                      /\ home'[g] = "freed" => ~preparedState'[g]
    BY DEF PreparationsBalanced, Held
  <2> QED
    BY <1>2, <1>4, <1>5 DEF Held
<1> QED
  BY <1>6, <1>7

LEMMA BalanceStep ==
    ASSUME "stranded" \notin Faults, BInv, [Next]_vars
    PROVE  Unprepared' /\ PreparationsBalanced'
<1> USE DEF engineVars, resultVars
<1>0. /\ IInv /\ outcome \in [Hook -> Outcomes]
      /\ InPlan \subseteq Hook /\ hookCount \in Nat
  <2>1. IInv /\ TypeOK
    BY DEF BInv, IInv
  <2> QED
    BY <2>1, BoundsAssumption DEF TypeOK, InPlan, Hook
<1>1. ASSUME UNCHANGED <<preparedState, live, home>>,
             \A h \in Hook : outcome'[h] = outcome[h] \/ outcome'[h] \notin Unasked
      PROVE  Unprepared' /\ PreparationsBalanced'
  BY <1>1 DEF BInv, Unprepared, PreparationsBalanced, Held
<1>2. CASE Environment
  BY <1>1, <1>2 DEF Environment, TargetAppears, CatalogGrows, OtherConsumerInstalls
<1>3. CASE Build
  <2>1. ASSUME NEW r \in Requests, AddHook(r)
        PROVE  Unprepared' /\ PreparationsBalanced'
    <3>1. home \in [Hook -> {"none", "plan", "queue", "freed"}]
      BY <1>0 DEF IInv, TypeOK
    <3>2. \A h \in Hook : home'[h] = "freed" => home[h] = "freed"
      BY <2>1, <3>1 DEF AddHook
    <3> QED
      BY <2>1, <3>2 DEF AddHook, BInv, Unprepared, PreparationsBalanced, Held
  <2>2. CASE Analyze
    <3>1. \A h \in Hook : ~preparedState[h]
      BY <1>0, <2>2 DEF Analyze, BInv, Unprepared, Unasked, IInv, Drafted
    <3> QED
      BY <2>2, <3>1 DEF Analyze, BInv, Unprepared, PreparationsBalanced, Held
  <2> QED
    BY <1>1, <1>3, <2>1, <2>2 DEF Build, DefineDomain
<1>4. CASE Prepare
  <2>1. ASSUME NEW h \in InPlan, outcome[h] = "ANALYZED", call = "prepare"
        PROVE  ~preparedState[h] /\ home[h] # "freed"
    BY <1>0, <2>1 DEF BInv, Unprepared, Unasked, IInv, Phases, Placement
  <2>2. AtHook => cursor \in InPlan
    BY <1>0 DEF IInv, AtHook, TypeOK, InPlan
  <2>3. CASE PrepareStale
    <3>1. \A h \in Hook : outcome'[h] = outcome[h] \/ outcome'[h] \notin Unasked
      BY <2>3 DEF PrepareStale, Unasked
    <3> QED
      BY <2>3, <3>1, ReleaseBalance DEF PrepareStale
  <2>4. CASE PrepareGateBlocked
    BY <1>0, <1>1, <2>4 DEF PrepareGateBlocked, Unasked
  <2>5. CASE PrepareHook
    <3>0. PICK a \in PrepareAttempts(cursor) :
            LET R == IF PrepareResult(a) = "FAILED" THEN DomainReleases(cursor)
                     ELSE {}
            IN  /\ outcome' = [h \in Hook |->
                                  IF h = cursor THEN PrepareOutcome(h, a)
                                  ELSE IF h \in R THEN "FAILED_SAFE"
                                  ELSE outcome[h]]
                /\ EngineStateAfterPrepare([h \in {cursor} |-> a], R)
      BY <2>5 DEF PrepareHook
    <3>1. PICK R :
            /\ outcome' = [h \in Hook |->
                              IF h = cursor THEN PrepareOutcome(h, a)
                              ELSE IF h \in R THEN "FAILED_SAFE"
                              ELSE outcome[h]]
            /\ EngineStateAfterPrepare([h \in {cursor} |-> a], R)
      BY <3>0
    <3> DEFINE att == [h \in {cursor} |-> a]
    <3>2. /\ DOMAIN att = {cursor} /\ att[cursor] = a
          /\ cursor \in InPlan /\ cursor \in Hook
          /\ ~preparedState[cursor] /\ home[cursor] # "freed"
      BY <1>0, <2>1, <2>2, <2>5 DEF PrepareHook, AtHook
    <3>3. a \in PrepareAttemptKinds
      BY <3>2, AttemptBalance
    <3>4. EngineStateAfterPrepare(att, R) /\ home' = home
      BY <2>5, <3>1 DEF PrepareHook
    <3> HIDE DEF att
    <3>5. \A h \in Hook : h \in DOMAIN att =>
             /\ ~preparedState[h] /\ home[h] # "freed"
             /\ att[h] \in PrepareAttemptKinds
             /\ outcome'[h] = PrepareOutcome(h, att[h])
      BY <3>1, <3>2, <3>3
    <3>6. \A h \in Hook : h \notin DOMAIN att =>
             outcome'[h] = outcome[h] \/ outcome'[h] \notin Unasked
      BY <3>1, <3>2 DEF Unasked
    <3> QED
      BY <3>4, <3>5, <3>6, PrepareBalance
  <2>6. CASE PrepareGroup
    <3>1. PICK k \in InPlan, accepted \in BOOLEAN,
               att \in [Hook -> PrepareAttemptKinds] :
            /\ PrepareGroupEnds(cursor, k)
            /\ LET res == [h \in cursor..k |->
                              IF accepted THEN att[h]
                              ELSE IF "stranded" \in Faults /\ Allocated(att[h]) = 1
                              THEN "dropped" ELSE "failed"]
               IN  /\ outcome' = [h \in Hook |->
                                     IF h \in cursor..k
                                     THEN PrepareOutcome(h, res[h])
                                     ELSE outcome[h]]
                   /\ EngineStateAfterPrepare(res, {})
      BY <2>6 DEF PrepareGroup
    <3> DEFINE res == [h \in cursor..k |->
                          IF accepted THEN att[h]
                          ELSE IF "stranded" \in Faults /\ Allocated(att[h]) = 1
                          THEN "dropped" ELSE "failed"]
    <3>2. /\ cursor..k \subseteq InPlan
          /\ \A h \in cursor..k : outcome[h] = "ANALYZED"
      <4>1. AtHook
        BY <2>6 DEF PrepareGroup
      <4>2. cursor..k \subseteq InPlan
        BY <1>0, <2>2, <4>1 DEF InPlan
      <4>3. \A h \in cursor..k : outcome[h] = "ANALYZED"
        BY <3>1 DEF PrepareGroupEnds, PrepareRun
      <4> QED
        BY <4>2, <4>3
    <3>3. /\ DOMAIN res = cursor..k
          /\ \A h \in cursor..k : res[h] \in PrepareAttemptKinds
      BY <1>0, <3>2 DEF PrepareAttemptKinds
    <3>4. /\ EngineStateAfterPrepare(res, {}) /\ home' = home
          /\ outcome' = [h \in Hook |-> IF h \in cursor..k
                                        THEN PrepareOutcome(h, res[h])
                                        ELSE outcome[h]]
      BY <2>6, <3>1 DEF PrepareGroup
    <3> HIDE DEF res
    <3>5. \A h \in Hook : h \in DOMAIN res =>
             /\ ~preparedState[h] /\ home[h] # "freed"
             /\ res[h] \in PrepareAttemptKinds
             /\ outcome'[h] = PrepareOutcome(h, res[h])
      BY <2>1, <2>6, <3>2, <3>3, <3>4 DEF PrepareGroup, AtHook
    <3>6. \A h \in Hook : h \notin DOMAIN res => outcome'[h] = outcome[h]
      BY <3>3, <3>4
    <3> QED
      BY <3>4, <3>5, <3>6, PrepareBalance
  <2> QED
    BY <1>1, <1>4, <2>3, <2>4, <2>5, <2>6 DEF Prepare, PrepareBegin,
       PrepareCarriesForward, PrepareGroupOutOfMemory, PrepareEnd
<1>5. CASE Commit
  <2>1. ASSUME NEW c \in CommitAttempts
        PROVE  CommitOutcome(FinalMutation(c)) \notin Unasked
    <3>1. FinalMutation(c) \in Mutations
      BY OutcomeTypes
    <3> QED
      BY <3>1 DEF CommitOutcome, Mutations, Unasked
  <2>2. ASSUME NEW h \in Hook,
               \/ CommitPreflightFails(h) \/ CommitStale(h)
               \/ CommitDependencyFails(h) \/ CommitConflict(h)
        PROVE  Unprepared' /\ PreparationsBalanced'
    BY <1>0, <1>1, <2>2 DEF CommitPreflightFails, CommitStale,
       CommitDependencyFails, CommitConflict, Unasked
  <2>3. ASSUME NEW h \in Hook, CommitHook(h)
        PROVE  Unprepared' /\ PreparationsBalanced'
    <3>1. PICK a \in CommitAttempts : Install(h, a)
      BY <2>3 DEF CommitHook, SingleAttempts
    <3> QED
      BY <1>0, <1>1, <2>1, <2>3, <3>1 DEF CommitHook, Install
  <2>4. CASE CommitGroup
    <3>1. PICK res \in [group -> CommitAttempts], comp \in SUBSET group :
            /\ outcome' = [h \in Hook |->
                  IF h \in {g \in comp : res[g].fault \notin {"record", "append"}}
                  THEN "COMPENSATED"
                  ELSE IF h \in group
                  THEN CommitOutcome([g \in group |-> FinalMutation(res[g])][h])
                  ELSE outcome[h]]
            /\ mutation' = [h \in Hook |->
                  IF h \in group THEN [g \in group |-> FinalMutation(res[g])][h]
                  ELSE mutation[h]]
      BY <2>4 DEF CommitGroup, Restored
    <3>2. \A h \in group : CommitOutcome(FinalMutation(res[h])) \notin Unasked
      BY <2>1
    <3>3. \A h \in Hook : outcome'[h] = outcome[h] \/ outcome'[h] \notin Unasked
      BY <3>1, <3>2 DEF Unasked
    <3> QED
      BY <1>1, <2>4, <3>3 DEF CommitGroup
  <2> QED
    BY <1>1, <1>5, <2>2, <2>3, <2>4 DEF Commit, CommitBegin, CommitVisit,
       CommitGrow, CommitGroupOutOfMemory, CommitEnd
<1>6. CASE Drain
  <2>1. ASSUME NEW h \in Hook, Draining(h) PROVE outcome[h] = "PENDING"
    BY <1>0, <2>1 DEF Draining, IInv, Visiting, Pending, Placement
  <2>2. ASSUME NEW h \in Hook, DrainKeeps(h)
        PROVE  Unprepared' /\ PreparationsBalanced'
    BY <1>0, <1>1, <2>1, <2>2 DEF DrainKeeps
  <2>3. ASSUME NEW h \in Hook, DrainFails(h) \/ DrainConflict(h)
        PROVE  Unprepared' /\ PreparationsBalanced'
    <3>1. PICK a \in PrepareAttempts(h) : DrainFrees(h, a)
      BY <2>3 DEF DrainFails, DrainConflict
    <3>2. /\ outcome'[h] \notin Unasked
          /\ \A g \in Hook : g # h => outcome'[g] = outcome[g]
      BY <1>0, <2>3 DEF DrainFails, DrainConflict, Unasked
    <3>3. outcome[h] = "PENDING"
      BY <2>1, <2>3 DEF DrainFails, DrainConflict
    <3> QED
      BY <3>1, <3>2, <3>3, FreeBalance
  <2>4. ASSUME NEW h \in Hook, DrainInstalls(h)
        PROVE  Unprepared' /\ PreparationsBalanced'
    <3>1. PICK a \in PrepareAttempts(h), c \in CommitAttempts :
             DrainFrees(h, a) /\ Install(h, c)
      BY <2>4 DEF DrainInstalls, SingleAttempts
    <3>2. CommitOutcome(FinalMutation(c)) \notin Unasked
      <4>1. FinalMutation(c) \in Mutations
        BY OutcomeTypes
      <4> QED
        BY <4>1 DEF CommitOutcome, Mutations, Unasked
    <3>3. /\ outcome'[h] \notin Unasked
          /\ \A g \in Hook : g # h => outcome'[g] = outcome[g]
      BY <1>0, <3>1, <3>2 DEF Install
    <3>4. outcome[h] = "PENDING"
      BY <2>1, <2>4 DEF DrainInstalls
    <3> QED
      BY <3>1, <3>3, <3>4, FreeBalance
  <2> QED
    BY <1>1, <1>6, <2>2, <2>3, <2>4 DEF Drain, DrainBegin, DrainEnd
<1>7. CASE ReleasePlan
  <2>1. PICK adopted \in SUBSET {h \in InPlan : outcome[h] = "PENDING"} :
          /\ home' = [h \in Hook |-> IF h \in adopted THEN "queue"
                                     ELSE IF h \in InPlan THEN "freed"
                                     ELSE home[h]]
          /\ ReleasePrepared(InPlan \ adopted)
    BY <1>7 DEF ReleasePlan
  <2>2. \A h \in Hook : \/ home'[h] = home[h] \/ home'[h] # "freed"
                        \/ h \in InPlan \ adopted
    BY <2>1
  <2> QED
    BY <1>7, <2>1, <2>2, ReleaseBalance DEF ReleasePlan
<1>8. CASE ReleaseRuntime
  <2>1. \A h \in Hook : home'[h] = home[h] \/ home'[h] # "freed" \/ h \in Pending
    BY <1>8 DEF ReleaseRuntime, Pending
  <2> QED
    BY <1>8, <2>1, ReleaseBalance DEF ReleaseRuntime
<1>9. CASE UNCHANGED vars
  BY <1>1, <1>9 DEF vars
<1> QED
  BY <1>2, <1>3, <1>4, <1>5, <1>6, <1>7, <1>8, <1>9 DEF Next

\* Unless a group callback fails with prepared states in its hands, every
\* prepared state an engine hands out is released exactly once.
THEOREM PreparationsReleasedOnce ==
    "stranded" \notin Faults => (Spec => []PreparationsBalanced)
<1> SUFFICES ASSUME "stranded" \notin Faults
             PROVE  Spec => []PreparationsBalanced
  OBVIOUS
<1>1. IInv /\ Init => BInv
  BY DEF Init, BInv, Unprepared, PreparationsBalanced, Held
<1>2. BInv /\ IInv' /\ [Next]_vars => BInv'
  BY BalanceStep DEF BInv
<1>3. BInv => PreparationsBalanced
  BY DEF BInv
<1> QED
  BY <1>1, <1>2, <1>3, Invariance, PTL DEF Spec

-----------------------------------------------------------------------------
(* The plan's state and the counters it is derived from.                   *)

PreparedHooks == {h \in InPlan : outcome[h] = "PREPARED"}

\* A prepare counts the hooks that are prepared now, a hook before the cursor has
\* been decided, and nothing has failed while none is counted; a commit has every
\* prepared hook still before it, and when it has counted no success nothing is
\* active, unless an earlier commit settled the plan and this one has nothing to do.
Counted ==
    /\ call \in {"none", "drain"} => succeeded = 0 /\ failed = 0
    /\ call # "prepare" => cursor = 1
    /\ state = "ANALYZED" /\ call = "none" =>
          \A h \in InPlan : outcome[h] \in {"ANALYZED", "NO_ROUTE"}
    /\ call = "prepare" =>
          /\ succeeded = Cardinality(PreparedHooks)
          /\ \A h \in InPlan : /\ outcome[h] # "ACTIVE"
                               /\ h < cursor => outcome[h] # "ANALYZED"
          /\ failed = 0 =>
                \A h \in InPlan :
                    outcome[h] \in {"ANALYZED", "PREPARED", "NO_ROUTE", "PENDING"}
    /\ call = "commit" =>
          /\ PreparedHooks \subseteq todo
          /\ succeeded \in Nat
          /\ succeeded = 0 /\ (\E h \in InPlan : outcome[h] = "ACTIVE") =>
                todo = {} /\ failed = 0
    /\ state = "PARTIAL" /\ call = "none" =>
          PreparedHooks = {} \/ \A h \in InPlan : outcome[h] # "ACTIVE"
    /\ RollupMatchesHooks

\* Hooks that leave and join a set of hooks are counted one by one.
LEMMA CountMoves ==
    ASSUME NEW S \in SUBSET Hook, NEW R \in SUBSET S,
           NEW N \in SUBSET Hook, N \cap S = {}
    PROVE  Cardinality((S \ R) \cup N) = Cardinality(S) - Cardinality(R) + Cardinality(N)
<1>1. S \ R \in SUBSET Hook
  OBVIOUS
<1>2. IsFiniteSet(S) /\ IsFiniteSet(N) /\ IsFiniteSet(S \ R)
  BY <1>1, CountHooks
<1>3. S \cap R = R /\ (S \ R) \cap N = {}
  OBVIOUS
<1>4. Cardinality(S \ R) = Cardinality(S) - Cardinality(R)
  BY <1>2, <1>3, FS_Difference
<1>5. Cardinality((S \ R) \cup N)
        = Cardinality(S \ R) + Cardinality(N) - Cardinality((S \ R) \cap N)
  BY <1>2, FS_Union
<1>6. Cardinality((S \ R) \cap N) = 0
  BY <1>3, FS_EmptySet
<1>7. /\ Cardinality(S) \in Nat /\ Cardinality(R) \in Nat /\ Cardinality(N) \in Nat
  BY CountHooks
<1> QED
  BY <1>4, <1>5, <1>6, <1>7

\* A step that leaves alone what is counted.
LEMMA QuietCount ==
    ASSUME Counted,
           UNCHANGED <<call, state, hookCount, outcome, cursor, succeeded, failed, todo>>
    PROVE  Counted'
BY DEF Counted, RollupMatchesHooks, PreparedHooks, InPlan

\* A plan that cannot be prepared or committed, with no such call under way.
LEMMA IdleCount ==
    ASSUME call' \in {"none", "drain"}, state' \in {"DRAFT", "RELEASED"},
           succeeded' = 0, failed' = 0, cursor' = 1
    PROVE  Counted'
BY DEF Counted, RollupMatchesHooks

\* A prepare decides the analyzed hooks in S and gives up the prepared ones in R.
LEMMA PrepareCount ==
    ASSUME IInv, Counted, call = "prepare",
           UNCHANGED <<call, state, hookCount>>,
           NEW S \in SUBSET InPlan, NEW R \in SUBSET PreparedHooks,
           \A h \in S : outcome[h] = "ANALYZED",
           \A h \in S : outcome'[h] \notin {"ACTIVE", "ANALYZED"},
           \A h \in InPlan \ S :
              outcome'[h] = IF h \in R THEN "FAILED_SAFE" ELSE outcome[h],
           \A h \in InPlan : h < cursor' =>
              h < cursor \/ h \in S \/ outcome[h] # "ANALYZED",
           succeeded' = succeeded - Cardinality(R)
                          + Cardinality({h \in S : outcome'[h] = "PREPARED"}),
           failed' = 0 => /\ failed = 0 /\ R = {}
                          /\ \A h \in S : outcome'[h] \in {"PREPARED", "NO_ROUTE", "PENDING"}
    PROVE  Counted'
<1> DEFINE N == {h \in S : outcome'[h] = "PREPARED"}
<1>1. InPlan' = InPlan /\ InPlan \subseteq Hook /\ state' = "ANALYZED" /\ call' = "prepare"
  BY BoundsAssumption DEF IInv, TypeOK, Phases, InPlan, Hook
<1>2. PreparedHooks' = (PreparedHooks \ R) \cup N
  <2>1. \A h \in InPlan : outcome'[h] = "PREPARED" <=>
           h \in (PreparedHooks \ R) \cup N
    BY DEF PreparedHooks
  <2> QED
    BY <1>1, <2>1 DEF PreparedHooks
<1>3. N \cap PreparedHooks = {}
  BY DEF PreparedHooks
<1>4. /\ PreparedHooks \in SUBSET Hook /\ N \in SUBSET Hook
  BY <1>1 DEF PreparedHooks
<1>5. succeeded' = Cardinality(PreparedHooks') /\ succeeded' \in Nat
  <2>1. succeeded = Cardinality(PreparedHooks)
    BY DEF Counted
  <2>2. Cardinality(PreparedHooks')
          = Cardinality(PreparedHooks) - Cardinality(R) + Cardinality(N)
    BY <1>2, <1>3, <1>4, CountMoves
  <2>3. (PreparedHooks \ R) \cup N \in SUBSET Hook
    BY <1>4
  <2>4. Cardinality(PreparedHooks') \in Nat
    BY <1>2, <2>3, CountHooks
  <2> QED
    BY <2>1, <2>2, <2>4
<1>6. \A h \in InPlan : /\ outcome'[h] # "ACTIVE"
                        /\ h < cursor' => outcome'[h] # "ANALYZED"
  BY DEF Counted
<1>7. failed' = 0 =>
        \A h \in InPlan :
            outcome'[h] \in {"ANALYZED", "PREPARED", "NO_ROUTE", "PENDING"}
  BY DEF Counted
<1> HIDE DEF N
<1> QED
  BY <1>1, <1>5, <1>6, <1>7 DEF Counted, RollupMatchesHooks

\* A commit that has hooks to visit settles some of them.
LEMMA CommitCount ==
    ASSUME IInv, Counted, call = "commit", todo # {},
           UNCHANGED <<call, state, hookCount, cursor>>,
           succeeded' \in Nat, succeeded' >= succeeded,
           \A h \in InPlan : outcome'[h] = "PREPARED" =>
              outcome[h] = "PREPARED" /\ (h \in todo => h \in todo'),
           \A h \in InPlan : outcome'[h] = "ACTIVE" =>
              outcome[h] = "ACTIVE" \/ succeeded' > 0
    PROVE  Counted'
<1>1. InPlan' = InPlan /\ state' \in {"PREPARED", "PARTIAL"} /\ call' = "commit"
  BY DEF IInv, Phases, InPlan
<1>2. PreparedHooks' \subseteq todo'
  BY <1>1 DEF Counted, PreparedHooks
<1>3. succeeded' = 0 => \A h \in InPlan : outcome'[h] # "ACTIVE"
  BY DEF Counted
<1> QED
  BY <1>1, <1>2, <1>3 DEF Counted, RollupMatchesHooks

LEMMA PrepareCounts ==
    ASSUME "oom" \notin Faults, IInv, Counted, Prepare
    PROVE  Counted'
<1> USE DEF resultVars, planVars, counters, loopVars
<1>0. /\ outcome \in [Hook -> Outcomes] /\ InPlan \subseteq Hook
      /\ hookCount \in Nat /\ cursor \in Nat /\ failed \in Nat /\ succeeded \in Int
  BY BoundsAssumption DEF IInv, TypeOK, InPlan, Hook
<1>1. AtHook => cursor \in InPlan /\ cursor \in Hook
  BY <1>0 DEF IInv, TypeOK, AtHook, InPlan
<1>2. Cardinality({}) = 0
  BY FS_EmptySet
<1>3. /\ DomainReleases(cursor) \in SUBSET PreparedHooks
      /\ Cardinality(DomainReleases(cursor)) \in Nat
      /\ Cardinality(DomainReleases(cursor)) = 0 => DomainReleases(cursor) = {}
  <2>1. DomainReleases(cursor) \in SUBSET PreparedHooks
    BY DEF DomainReleases, PreparedMembers, Members, PreparedHooks
  <2>2. DomainReleases(cursor) \in SUBSET Hook
    BY <1>0, <2>1 DEF PreparedHooks
  <2> QED
    BY <2>1, <2>2, CountHooks, FS_EmptySet
<1>4. CASE PrepareBegin
  <2>1. \A h \in InPlan : outcome[h] \in {"ANALYZED", "NO_ROUTE"}
    BY <1>4 DEF PrepareBegin, Counted
  <2>2. PreparedHooks = {}
    BY <2>1 DEF PreparedHooks
  <2>3. PreparedHooks' = PreparedHooks /\ InPlan' = InPlan
    BY <1>4 DEF PrepareBegin, PreparedHooks, InPlan
  <2>4. \A h \in InPlan : ~(h < 1)
    BY <1>0 DEF InPlan
  <2>5. cursor = 1 /\ succeeded = 0 /\ failed = 0
    BY <1>4 DEF PrepareBegin, Counted
  <2> QED
    BY <1>2, <1>4, <2>1, <2>2, <2>3, <2>4, <2>5
       DEF PrepareBegin, Counted, RollupMatchesHooks
<1>5. CASE PrepareCarriesForward
  <2>1. \A h \in InPlan : h < cursor' => h < cursor \/ outcome[h] # "ANALYZED"
    BY <1>0, <1>5 DEF PrepareCarriesForward, InPlan
  <2>2. {h \in {} : outcome'[h] = "PREPARED"} = {}
    OBVIOUS
  <2>3. UNCHANGED <<call, state, hookCount, outcome, succeeded, failed>> /\ call = "prepare"
    BY <1>5 DEF PrepareCarriesForward, AtHook
  <2>4. succeeded' = succeeded - Cardinality({})
                       + Cardinality({h \in {} : outcome'[h] = "PREPARED"})
    <3>1. Cardinality({h \in {} : outcome'[h] = "PREPARED"}) = 0
      BY <1>2, <2>2
    <3> QED
      BY <1>0, <1>2, <2>3, <3>1
  <2>5. {} \in SUBSET InPlan /\ {} \in SUBSET PreparedHooks
    OBVIOUS
  <2> QED
    BY <2>1, <2>3, <2>4, <2>5, PrepareCount
<1>6. CASE PrepareStale \/ PrepareGateBlocked
  <2> DEFINE R == IF PrepareStale THEN DomainReleases(cursor) ELSE {}
  <2>1. /\ call = "prepare" /\ UNCHANGED <<call, state, hookCount>>
        /\ cursor \in InPlan /\ cursor \in Hook
        /\ outcome[cursor] = "ANALYZED" /\ cursor' = cursor + 1
    BY <1>1, <1>6 DEF PrepareStale, PrepareGateBlocked, AtHook
  <2>2. /\ R \in SUBSET PreparedHooks /\ Cardinality(R) \in Nat
        /\ cursor \notin R
    BY <1>2, <1>3, <2>1 DEF PreparedHooks
  <2>3. /\ outcome'[cursor] \in {"STALE_PLAN", "FAILED_SAFE"}
        /\ \A h \in InPlan \ {cursor} :
              outcome'[h] = IF h \in R THEN "FAILED_SAFE" ELSE outcome[h]
    BY <1>0, <1>6, <2>1 DEF PrepareStale, PrepareGateBlocked
  <2>4. succeeded' = succeeded - Cardinality(R) /\ failed' # 0
    BY <1>0, <1>2, <1>3, <1>6 DEF PrepareStale, PrepareGateBlocked
  <2>5. {h \in {cursor} : outcome'[h] = "PREPARED"} = {}
    BY <2>3
  <2>6. succeeded' = succeeded - Cardinality(R)
                       + Cardinality({h \in {cursor} : outcome'[h] = "PREPARED"})
    <3>1. Cardinality({h \in {cursor} : outcome'[h] = "PREPARED"}) = 0
      BY <1>2, <2>5
    <3> HIDE DEF R
    <3> QED
      BY <1>0, <2>2, <2>4, <3>1
  <2>7. \A h \in InPlan : h < cursor' => h < cursor \/ h \in {cursor}
    BY <1>0, <2>1 DEF InPlan
  <2> HIDE DEF R
  <2> QED
    BY <2>1, <2>2, <2>3, <2>4, <2>6, <2>7, PrepareCount
<1>7. CASE PrepareHook
  <2>1. PICK a \in PrepareAttempts(cursor) :
           LET fails == PrepareResult(a) = "FAILED"
               R == IF fails THEN DomainReleases(cursor) ELSE {}
           IN  /\ outcome' = [h \in Hook |->
                                 IF h = cursor THEN PrepareOutcome(h, a)
                                 ELSE IF h \in R THEN "FAILED_SAFE"
                                 ELSE outcome[h]]
               /\ succeeded' = succeeded - Cardinality(R)
                                 + IF PrepareResult(a) = "OK" THEN 1 ELSE 0
               /\ failed' = failed + Cardinality(R) + IF fails THEN 1 ELSE 0
    BY <1>7 DEF PrepareHook
  <2> DEFINE R == IF PrepareResult(a) = "FAILED" THEN DomainReleases(cursor) ELSE {}
             P == {h \in {cursor} : outcome'[h] = "PREPARED"}
  <2>2. /\ call = "prepare" /\ UNCHANGED <<call, state, hookCount>>
        /\ cursor \in InPlan /\ cursor \in Hook
        /\ outcome[cursor] = "ANALYZED" /\ cursor' = cursor + 1
    BY <1>1, <1>7 DEF PrepareHook, AtHook
  <2>3. /\ R \in SUBSET PreparedHooks /\ Cardinality(R) \in Nat
        /\ cursor \notin R
    BY <1>2, <1>3, <2>2 DEF PreparedHooks
  <2>4. /\ outcome'[cursor] = PrepareOutcome(cursor, a)
        /\ \A h \in InPlan \ {cursor} :
              outcome'[h] = IF h \in R THEN "FAILED_SAFE" ELSE outcome[h]
        /\ succeeded' = succeeded - Cardinality(R)
                          + IF PrepareResult(a) = "OK" THEN 1 ELSE 0
        /\ failed' = failed + Cardinality(R)
                       + IF PrepareResult(a) = "FAILED" THEN 1 ELSE 0
    BY <1>0, <2>1, <2>2
  <2>5. /\ outcome'[cursor] \notin {"ACTIVE", "ANALYZED"}
        /\ outcome'[cursor] = "PREPARED" <=> PrepareResult(a) = "OK"
        /\ PrepareResult(a) # "FAILED" =>
              outcome'[cursor] \in {"PREPARED", "NO_ROUTE", "PENDING"}
    BY <2>4 DEF PrepareOutcome, PrepareResult
  <2>6. Cardinality(P) = IF PrepareResult(a) = "OK" THEN 1 ELSE 0
    <3>1. CASE PrepareResult(a) = "OK"
      <4>1. P = {cursor}
        BY <2>5, <3>1
      <4> QED
        BY <3>1, <4>1, FS_Singleton
    <3>2. CASE PrepareResult(a) # "OK"
      <4>1. P = {}
        BY <2>5, <3>2
      <4> QED
        BY <1>2, <3>2, <4>1
    <3> QED
      BY <3>1, <3>2
  <2>7. failed' = 0 => /\ failed = 0 /\ R = {}
                       /\ outcome'[cursor] \in {"PREPARED", "NO_ROUTE", "PENDING"}
    BY <1>0, <1>3, <2>3, <2>4, <2>5
  <2>8. \A h \in InPlan : h < cursor' => h < cursor \/ h \in {cursor}
    BY <1>0, <2>2 DEF InPlan
  <2>9. succeeded' = succeeded - Cardinality(R) + Cardinality(P)
    BY <2>4, <2>6
  <2> HIDE DEF R
  <2> QED
    BY <2>2, <2>3, <2>4, <2>5, <2>7, <2>8, <2>9, PrepareCount
<1>8. CASE PrepareGroup
  <2>1. PICK k \in InPlan, accepted \in BOOLEAN,
             att \in [Hook -> PrepareAttemptKinds] :
          /\ PrepareGroupEnds(cursor, k)
          /\ LET res == [h \in cursor..k |->
                            IF accepted THEN att[h]
                            ELSE IF "stranded" \in Faults /\ Allocated(att[h]) = 1
                            THEN "dropped" ELSE "failed"]
             IN  /\ outcome' = [h \in Hook |->
                                   IF h \in cursor..k
                                   THEN PrepareOutcome(h, res[h])
                                   ELSE outcome[h]]
                 /\ succeeded' = succeeded + Cardinality(
                        {h \in cursor..k : PrepareResult(res[h]) = "OK"})
                 /\ failed' = failed + Cardinality(
                        {h \in cursor..k : PrepareResult(res[h]) = "FAILED"})
          /\ cursor' = k + 1
    BY <1>8 DEF PrepareGroup
  <2>2. PICK res :
          /\ outcome' = [h \in Hook |-> IF h \in cursor..k
                                        THEN PrepareOutcome(h, res[h])
                                        ELSE outcome[h]]
          /\ succeeded' = succeeded + Cardinality(
                 {h \in cursor..k : PrepareResult(res[h]) = "OK"})
          /\ failed' = failed + Cardinality(
                 {h \in cursor..k : PrepareResult(res[h]) = "FAILED"})
    BY <2>1
  <2> DEFINE S == cursor..k
             F == {h \in S : PrepareResult(res[h]) = "FAILED"}
  <2>3. /\ call = "prepare" /\ UNCHANGED <<call, state, hookCount>>
        /\ cursor \in InPlan /\ cursor' = k + 1
    BY <1>1, <1>8, <2>1 DEF PrepareGroup, AtHook
  <2>4. /\ S \in SUBSET InPlan /\ S \in SUBSET Hook
        /\ \A h \in S : outcome[h] = "ANALYZED"
    <3>1. S \in SUBSET InPlan
      BY <1>0, <2>3 DEF InPlan
    <3>2. \A h \in S : outcome[h] = "ANALYZED"
      BY <2>1 DEF PrepareGroupEnds, PrepareRun
    <3> QED
      BY <1>0, <3>1, <3>2
  <2>5. \A h \in InPlan : h < cursor' => h < cursor \/ h \in S
    BY <1>0, <2>3 DEF InPlan
  <2> HIDE DEF S
  <2>6. \A h \in S : /\ outcome'[h] = PrepareOutcome(h, res[h])
                     /\ outcome'[h] \notin {"ACTIVE", "ANALYZED"}
                     /\ outcome'[h] = "PREPARED" <=> PrepareResult(res[h]) = "OK"
                     /\ PrepareResult(res[h]) # "FAILED" =>
                           outcome'[h] \in {"PREPARED", "NO_ROUTE", "PENDING"}
    BY <2>2, <2>4 DEF S, PrepareOutcome, PrepareResult
  <2>7. \A h \in InPlan \ S :
           outcome'[h] = IF h \in {} THEN "FAILED_SAFE" ELSE outcome[h]
    BY <1>0, <2>2 DEF S
  <2>8. /\ F \in SUBSET Hook /\ IsFiniteSet(F) /\ Cardinality(F) \in Nat
        /\ failed' = failed + Cardinality(F)
    <3>1. F \in SUBSET Hook /\ failed' = failed + Cardinality(F)
      BY <2>2, <2>4 DEF S
    <3> HIDE DEF F
    <3> QED
      BY <3>1, CountHooks
  <2>9. failed' = 0 => /\ failed = 0
                       /\ \A h \in S : outcome'[h] \in {"PREPARED", "NO_ROUTE", "PENDING"}
    <3> HIDE DEF F
    <3>1. failed' = 0 => failed = 0 /\ Cardinality(F) = 0
      BY <1>0, <2>8
    <3>2. Cardinality(F) = 0 => F = {}
      BY <2>8, FS_EmptySet
    <3>3. F = {} => \A h \in S : PrepareResult(res[h]) # "FAILED"
      BY DEF F
    <3> QED
      BY <2>6, <3>1, <3>2, <3>3
  <2>10. {h \in S : outcome'[h] = "PREPARED"}
           = {h \in S : PrepareResult(res[h]) = "OK"}
    BY <2>6
  <2>11. succeeded' = succeeded - Cardinality({})
                        + Cardinality({h \in S : outcome'[h] = "PREPARED"})
    <3>1. succeeded' = succeeded + Cardinality({h \in S : outcome'[h] = "PREPARED"})
      BY <2>2, <2>10 DEF S
    <3>2. {h \in S : outcome'[h] = "PREPARED"} \in SUBSET Hook
      BY <2>4
    <3>3. Cardinality({h \in S : outcome'[h] = "PREPARED"}) \in Nat
      BY <3>2, CountHooks
    <3> QED
      BY <1>0, <1>2, <3>1, <3>3
  <2>12. {} \in SUBSET PreparedHooks
    OBVIOUS
  <2> QED
    BY <2>3, <2>4, <2>5, <2>6, <2>7, <2>9, <2>11, <2>12, PrepareCount
<1>9. CASE PrepareGroupOutOfMemory
  BY <1>9 DEF PrepareGroupOutOfMemory
<1>10. CASE PrepareEnd
  <2>1. /\ state' = PrepareRollup /\ call' = "none" /\ cursor' = 1
        /\ succeeded' = 0 /\ failed' = 0
        /\ UNCHANGED <<hookCount, outcome>>
    BY <1>10 DEF PrepareEnd, CallReturns
  <2>2. /\ InPlan' = InPlan /\ PreparedHooks' = PreparedHooks
    BY <2>1 DEF InPlan, PreparedHooks
  <2>3. \A h \in InPlan : outcome[h] # "ANALYZED" /\ outcome[h] # "ACTIVE"
    <3>1. \A h \in InPlan : h < cursor
      BY <1>0, <1>10 DEF PrepareEnd, InPlan
    <3> QED
      BY <1>10, <3>1 DEF PrepareEnd, Counted
  <2>4. state' \in {"PREPARED", "FAILED", "PARTIAL"}
    BY <2>1 DEF PrepareRollup
  <2>5. state' = "PREPARED" =>
           \A h \in InPlan : outcome[h] \in {"PREPARED", "NO_ROUTE", "PENDING"}
    <3>1. state' = "PREPARED" => failed = 0
      BY <2>1 DEF PrepareRollup
    <3> QED
      BY <1>10, <2>3, <3>1 DEF PrepareEnd, Counted
  <2>6. state' = "FAILED" => PreparedHooks = {}
    <3>1. state' = "FAILED" => succeeded = 0
      BY <2>1 DEF PrepareRollup
    <3>2. IsFiniteSet(PreparedHooks)
      <4>1. PreparedHooks \in SUBSET Hook
        BY <1>0 DEF PreparedHooks
      <4> QED
        BY <4>1, CountHooks
    <3> QED
      BY <1>10, <3>1, <3>2, FS_EmptySet DEF PrepareEnd, Counted
  <2> QED
    BY <2>1, <2>2, <2>3, <2>4, <2>5, <2>6 DEF Counted, RollupMatchesHooks, PreparedHooks
<1> QED
  BY <1>4, <1>5, <1>6, <1>7, <1>8, <1>9, <1>10 DEF Prepare

LEMMA CommitCounts ==
    ASSUME "oom" \notin Faults, IInv, Counted, Commit
    PROVE  Counted'
<1> USE DEF resultVars, planVars, counters, loopVars
<1>0. /\ outcome \in [Hook -> Outcomes] /\ InPlan \subseteq Hook
      /\ hookCount \in Nat /\ failed \in Nat /\ succeeded \in Int
      /\ call = "commit" => succeeded \in Nat
  BY BoundsAssumption DEF IInv, TypeOK, InPlan, Hook, Counted
<1>1. CASE CommitBegin
  <2>1. /\ call' = "commit" /\ todo' = PreparedHooks
        /\ state \in {"PREPARED", "PARTIAL"} /\ call = "none"
        /\ UNCHANGED <<state, hookCount, outcome, cursor, succeeded, failed>>
    BY <1>1 DEF CommitBegin, PreparedHooks
  <2>2. InPlan' = InPlan /\ PreparedHooks' = PreparedHooks
    BY <2>1 DEF InPlan, PreparedHooks
  <2>3. PreparedHooks = {} \/ \A h \in InPlan : outcome[h] # "ACTIVE"
    BY <2>1 DEF Counted, RollupMatchesHooks
  <2>4. succeeded = 0 /\ failed = 0 /\ cursor = 1
    BY <2>1 DEF Counted
  <2> QED
    BY <2>1, <2>2, <2>3, <2>4 DEF Counted, RollupMatchesHooks
<1>2. CASE CommitVisit
  <2>1. NextHook({}) \in todo
    BY <1>2, NextHookInTodo DEF CommitVisit, IInv
  <2>2. \A h \in InPlan : outcome[h] = "PREPARED" => (h \in todo => h \in todo')
    BY <1>2 DEF CommitVisit
  <2>3. /\ call = "commit" /\ todo # {}
        /\ UNCHANGED <<call, state, hookCount, cursor, outcome, succeeded>>
    BY <1>2 DEF CommitVisit
  <2> QED
    BY <1>0, <2>2, <2>3, CommitCount
<1>3. CASE CommitGrow
  BY <1>3, QuietCount DEF CommitGrow
<1>4. ASSUME NEW c \in CommitAttempts
      PROVE  /\ CommitOutcome(FinalMutation(c)) # "PREPARED"
             /\ CommitOutcome(FinalMutation(c)) = "ACTIVE" <=> FinalMutation(c) = "COMPLETE"
  <2>1. FinalMutation(c) \in Mutations
    BY OutcomeTypes
  <2> QED
    BY <2>1 DEF CommitOutcome, Mutations
<1>5. CASE CommitGroup
  <2>1. PICK res \in [group -> CommitAttempts], comp \in SUBSET group :
          LET restored == {h \in comp : res[h].fault \notin {"record", "append"}}
              final == [h \in group |-> FinalMutation(res[h])]
              done == {h \in group \ restored : final[h] = "COMPLETE"}
          IN  /\ outcome' = [h \in Hook |->
                     IF h \in restored THEN "COMPENSATED"
                     ELSE IF h \in group THEN CommitOutcome(final[h])
                     ELSE outcome[h]]
              /\ succeeded' = succeeded + Cardinality(done)
    BY <1>5 DEF CommitGroup, Restored
  <2> DEFINE restored == {h \in comp : res[h].fault \notin {"record", "append"}}
             done == {h \in group \ restored :
                         [g \in group |-> FinalMutation(res[g])][h] = "COMPLETE"}
  <2>2. /\ group \subseteq todo /\ group \subseteq Hook /\ todo \subseteq Hook
        /\ call = "commit" /\ todo' = todo \ group
        /\ UNCHANGED <<call, state, hookCount, cursor>>
    BY <1>5 DEF CommitGroup, IInv, Visiting, TypeOK
  <2>3. \A h \in group : /\ CommitOutcome(FinalMutation(res[h])) # "PREPARED"
                         /\ CommitOutcome(FinalMutation(res[h])) = "ACTIVE"
                               <=> FinalMutation(res[h]) = "COMPLETE"
    BY <1>4
  <2>4. /\ \A h \in InPlan : outcome'[h] = "PREPARED" =>
              outcome[h] = "PREPARED" /\ h \notin group
        /\ \A h \in InPlan : outcome'[h] = "ACTIVE" =>
              outcome[h] = "ACTIVE" \/ h \in done
    BY <1>0, <2>1, <2>3
  <2>5. succeeded' = succeeded + Cardinality(done)
    BY <2>1
  <2>6. done \in SUBSET Hook
    BY <2>2
  <2> HIDE DEF done
  <2>7. /\ Cardinality(done) \in Nat
        /\ done # {} => Cardinality(done) > 0
    BY <2>6, CountHooks, FS_EmptySet
  <2>8. succeeded' \in Nat /\ succeeded' >= succeeded
        /\ (done # {} => succeeded' > 0)
    BY <1>0, <2>2, <2>5, <2>7
  <2>9. CASE todo # {}
    BY <2>2, <2>4, <2>8, <2>9, CommitCount
  <2>10. CASE todo = {}
    <3>1. group = {} /\ done = {}
      BY <2>2, <2>10 DEF done
    <3>2. UNCHANGED <<outcome, succeeded, failed, todo>>
      <4>1. outcome' = outcome
        BY <1>0, <2>1, <3>1
      <4>2. Cardinality({}) = 0
        BY FS_EmptySet
      <4>3. succeeded' = succeeded
        BY <1>0, <2>5, <3>1, <4>2
      <4>4. failed' = failed
        <5>1. \E S : S \subseteq group /\ failed' = failed + Cardinality(S)
          BY <1>5 DEF CommitGroup, Restored
        <5>2. failed' = failed + Cardinality({})
          BY <3>1, <5>1
        <5> QED
          BY <1>0, <4>2, <5>2
      <4> QED
        BY <2>2, <2>10, <4>1, <4>3, <4>4
    <3> QED
      BY <2>2, <3>2, QuietCount
  <2> QED
    BY <2>9, <2>10
<1>6. CASE CommitGroupOutOfMemory
  BY <1>6 DEF CommitGroupOutOfMemory
<1>7. ASSUME NEW h \in Hook,
             \/ CommitPreflightFails(h) \/ CommitStale(h)
             \/ CommitDependencyFails(h) \/ CommitConflict(h)
      PROVE  Counted'
  <2>1. Committing(h) /\ Advance(h) /\ UNCHANGED <<state, hookCount, succeeded>>
    BY <1>7 DEF CommitPreflightFails, CommitStale, CommitDependencyFails, CommitConflict
  <2>2. /\ call = "commit" /\ h \in todo /\ todo' = todo \ {h}
        /\ UNCHANGED <<call, cursor>> /\ outcome[h] = "PREPARED" /\ h \in InPlan
    BY <2>1 DEF Committing, Advance, IInv, Visiting
  <2>3. outcome'[h] # "PREPARED"
    <3>1. CASE CommitPreflightFails(h)
      <4>1. h \in PreparedMembers(spec[h].domain)
        BY <2>2 DEF PreparedMembers, Members
      <4> QED
        BY <3>1, <4>1 DEF CommitPreflightFails
    <3>2. CASE CommitStale(h) \/ CommitDependencyFails(h) \/ CommitConflict(h)
      BY <1>0, <3>2 DEF CommitStale, CommitDependencyFails, CommitConflict
    <3> QED
      BY <1>7, <3>1, <3>2
  <2>4. \A g \in InPlan : \/ outcome'[g] = outcome[g]
                          \/ outcome'[g] \notin {"PREPARED", "ACTIVE"}
    BY <1>0, <1>7 DEF CommitPreflightFails, CommitStale, CommitDependencyFails,
       CommitConflict
  <2> QED
    BY <1>0, <2>1, <2>2, <2>3, <2>4, CommitCount
<1>8. ASSUME NEW h \in Hook, CommitHook(h)
      PROVE  Counted'
  <2>1. PICK a \in CommitAttempts :
           /\ Install(h, a)
           /\ succeeded' = succeeded + IF FinalMutation(a) = "COMPLETE" THEN 1 ELSE 0
    BY <1>8 DEF CommitHook, SingleAttempts
  <2>2. /\ call = "commit" /\ h \in todo /\ todo' = todo \ {h}
        /\ UNCHANGED <<call, state, hookCount, cursor>>
    BY <1>8 DEF CommitHook, Committing, Advance, IInv, Visiting
  <2>3. /\ outcome'[h] # "PREPARED"
        /\ outcome'[h] = "ACTIVE" => FinalMutation(a) = "COMPLETE"
        /\ \A g \in Hook : g # h => outcome'[g] = outcome[g]
    BY <1>0, <1>4, <2>1 DEF Install
  <2>4. succeeded' \in Nat /\ succeeded' >= succeeded
        /\ (FinalMutation(a) = "COMPLETE" => succeeded' > 0)
    BY <1>0, <2>1, <2>2
  <2> QED
    BY <1>0, <2>2, <2>3, <2>4, CommitCount
<1>9. CASE CommitEnd
  <2>1. /\ state' = CommitRollup /\ call' = "none" /\ cursor' = 1
        /\ succeeded' = 0 /\ failed' = 0 /\ call = "commit" /\ todo = {}
        /\ UNCHANGED <<hookCount, outcome>>
    BY <1>9 DEF CommitEnd, CallReturns
  <2>2. InPlan' = InPlan /\ PreparedHooks' = PreparedHooks
    BY <2>1 DEF InPlan, PreparedHooks
  <2>3. PreparedHooks = {}
    BY <2>1 DEF Counted
  <2>4. state' \in {"COMMITTED", "FAILED", "PARTIAL"}
    BY <2>1 DEF CommitRollup
  <2>5. state' = "FAILED" => \A h \in InPlan : outcome[h] # "ACTIVE"
    <3>1. state' = "FAILED" => succeeded = 0 /\ failed # 0
      BY <2>1 DEF CommitRollup
    <3> QED
      BY <2>1, <3>1 DEF Counted
  <2> QED
    BY <2>1, <2>2, <2>3, <2>4, <2>5 DEF Counted, RollupMatchesHooks, PreparedHooks
<1> QED
  BY <1>1, <1>2, <1>3, <1>5, <1>6, <1>7, <1>8, <1>9 DEF Commit

LEMMA CountedStep ==
    ASSUME "oom" \notin Faults, IInv, Counted, [Next]_vars
    PROVE  Counted'
<1> USE DEF resultVars, planVars, counters, loopVars
<1>1. CASE Environment
  BY <1>1, QuietCount DEF Environment, TargetAppears, CatalogGrows, OtherConsumerInstalls
<1>2. CASE Build
  <2>1. call = "none" => succeeded = 0 /\ failed = 0 /\ cursor = 1
    BY DEF Counted
  <2>2. ASSUME NEW d \in Domains, DefineDomain(d) PROVE Counted'
    BY <2>2, QuietCount DEF DefineDomain
  <2>3. ASSUME NEW r \in Requests, AddHook(r) PROVE Counted'
    BY <2>1, <2>3, IdleCount DEF AddHook
  <2>4. CASE Analyze
    <3>1. /\ state' = "ANALYZED" /\ call' = "none"
          /\ succeeded' = 0 /\ failed' = 0 /\ cursor' = 1
          /\ \A h \in Hook \cap InPlan : outcome'[h] \in {"ANALYZED", "NO_ROUTE"}
      BY <2>1, <2>4 DEF Analyze
    <3>2. InPlan' = InPlan /\ InPlan \subseteq Hook
      BY <2>4, BoundsAssumption DEF Analyze, InPlan, IInv, TypeOK, Hook
    <3> QED
      BY <3>1, <3>2 DEF Counted, RollupMatchesHooks
  <2> QED
    BY <1>2, <2>2, <2>3, <2>4 DEF Build
<1>3. CASE Drain
  <2>1. state = "RELEASED" /\ state' = "RELEASED"
    <3>1. state' = state
      BY <1>3 DEF Drain, DrainBegin, DrainKeeps, DrainFails, DrainConflict,
         DrainInstalls, DrainEnd
    <3>2. CASE DrainBegin
      <4>1. PICK h \in Hook : home[h] = "queue"
        BY <3>2 DEF DrainBegin, Pending
      <4>2. home[h] # "none" /\ home[h] # "plan"
        BY <4>1
      <4> QED
        BY <3>1, <4>2 DEF IInv, Placement
    <3>3. CASE call = "drain"
      BY <3>1, <3>3 DEF IInv, Phases
    <3> QED
      BY <1>3, <3>2, <3>3 DEF Drain, DrainKeeps, DrainFails, DrainConflict,
         DrainInstalls, DrainEnd, Draining
  <2>2. /\ call \in {"none", "drain"} /\ call' \in {"none", "drain"}
        /\ \/ UNCHANGED <<succeeded, failed, cursor>>
           \/ succeeded' = 0 /\ failed' = 0 /\ cursor' = 1
    BY <1>3 DEF Drain, DrainBegin, DrainKeeps, DrainFails, DrainConflict,
       DrainInstalls, DrainFrees, DrainEnd, Draining, CallReturns
  <2>3. succeeded' = 0 /\ failed' = 0 /\ cursor' = 1
    BY <2>2 DEF Counted
  <2> QED
    BY <2>1, <2>2, <2>3, IdleCount
<1>4. CASE ReleasePlan \/ ReleaseRuntime
  <2>1. /\ call = "none" /\ call' = "none" /\ state' = "RELEASED"
        /\ UNCHANGED <<succeeded, failed, cursor>>
    BY <1>4 DEF ReleasePlan, ReleaseRuntime
  <2>2. succeeded' = 0 /\ failed' = 0 /\ cursor' = 1
    BY <2>1 DEF Counted
  <2> QED
    BY <2>1, <2>2, IdleCount
<1>5. CASE UNCHANGED vars
  BY <1>5, QuietCount DEF vars
<1> QED
  BY <1>1, <1>2, <1>3, <1>4, <1>5, PrepareCounts, CommitCounts DEF Next

\* While the calls find memory for their reports and groups, the plan's state
\* tells the truth about the hooks and the count it rests on never wraps.
THEOREM StateMatchesHooks ==
    "oom" \notin Faults => (Spec => []RollupMatchesHooks)
<1> SUFFICES ASSUME "oom" \notin Faults
             PROVE  Spec => []RollupMatchesHooks
  OBVIOUS
<1>1. Init => Counted
  BY IdleCount DEF Init, Counted, RollupMatchesHooks
<1>2. IInv /\ Counted /\ [Next]_vars => Counted'
  BY CountedStep
<1>3. Counted => RollupMatchesHooks
  BY DEF Counted
<1> QED
  BY <1>1, <1>2, <1>3, Invariance, PTL DEF Spec

=============================================================================
