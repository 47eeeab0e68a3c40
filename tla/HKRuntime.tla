----------------------------- MODULE HKRuntime ------------------------------
(***************************************************************************)
(* A runtime and what it holds: its engines (HKRouting), its image catalog *)
(* (HKImages) and its artifact ledger (HKArtifactLedger.c), and one hook   *)
(* at a time that goes from hk_plan_add_hook to a delivered report. HKPlan *)
(* has the lifecycle of plans with several hooks; here the question is     *)
(* which engine a request reaches, whether what the result claims is true, *)
(* and what the three ledgers hold afterwards.                             *)
(*                                                                         *)
(* The process ledger is shared with the other runtimes of the process and *)
(* is only touched under its lock, so their commits are one step.          *)
(***************************************************************************)
EXTENDS HKRouting

CONSTANTS
    Configs,        \* [platform, context, pinned, list] a host creates
    CatalogMemory,  \* how many catalog entries may find memory
    Images,         \* images of the process
    Preloaded,      \* Seq: those that dyld has loaded before the runtime
    Installable,    \* providers that may become available
    Requests,
    Committed,      \* the requests that the host goes on to commit
    Undeclared,     \* [test engines -> effects they produce without saying so]
    OneImageRebind, \* the test engine that is a rebind engine for one image,
    RebindHeader,   \* and the image's header
    MaxRuntimes,    \* bounds on the runtimes of the host, on its commits (it
    MaxCommits,     \* adds no hook after the last) and on those of others
    MaxOthers

ASSUME RuntimeAssumption ==
    /\ \A image \in Images : image.first \in Nat /\ image.last \in Nat
    /\ Preloaded \in Seq(Images)
    /\ CatalogMemory \subseteq Nat
    /\ \A config \in Configs : /\ config.platform.version \in Seq(Nat)
                                /\ config.platform.arch \in AArch64 \cup Arm32
    /\ \A request \in Requests : /\ request.selector \in Selectors
                                  /\ request.caller \in Selectors
                                  /\ request.address \in Nat
    /\ \A e \in DOMAIN Undeclared : IsFiniteSet(Undeclared[e])
    /\ OneImageRebind \notin BuiltInIds
    /\ Committed \subseteq Requests
    /\ MaxRuntimes \in Nat
    /\ MaxCommits \in Nat
    /\ MaxOthers \in Nat

VARIABLES
    loaded,         \* the dyld list
    available,      \* providers that a discover callback finds
    runtime,
    hook,
    ledger,         \* the ledger of the commit call
    report,         \* the artifacts of the delivered report
    runtimeLedger,
    processLedger,  \* g_process_ledger
    snapshot,       \* a copy of the process ledger that the host keeps
    commits,        \* commits of this runtime so far
    others,         \* commits of other runtimes so far
    made            \* ghost: [commits -> the records it made, in order]

vars == <<loaded, available, runtime, hook, ledger, report, runtimeLedger,
          processLedger, snapshot, commits, others, made>>

ledgers == <<ledger, report, runtimeLedger, processLedger, snapshot, commits,
             others, made>>

NoRuntime(n) == [alive |-> FALSE, created |-> n]
NoHook == [stage |-> "none"]

Init ==
    /\ loaded = Preloaded
    /\ available = {}
    /\ runtime = NoRuntime(0)
    /\ hook = NoHook
    /\ ledger = <<>>
    /\ report = <<>>
    /\ runtimeLedger = <<>>
    /\ processLedger = <<>>
    /\ snapshot = <<>>
    /\ commits = 0
    /\ others = 0
    /\ made = <<>>

-----------------------------------------------------------------------------
(* The process around the runtime.  After an analysis neither the images   *)
(* nor the providers are read again for the hook (the catalog is a copy),  *)
(* so their changes are only interleaved up to there.                      *)

Unsettled == hook.stage \in {"none", "added"} /\ commits < MaxCommits

ImageLoads(image) ==
    /\ Unsettled
    /\ image \notin ToSet(loaded)
    /\ loaded' = Append(loaded, image)
    /\ UNCHANGED <<available, runtime, hook, ledgers>>

ProviderAppears(p) ==
    /\ Unsettled
    /\ p \notin available
    /\ available' = available \cup {p}
    /\ UNCHANGED <<loaded, runtime, hook, ledgers>>

-----------------------------------------------------------------------------
(* The runtime.                                                            *)

Registered(e) == [id |-> e, testing |-> FALSE]

\* The engines of a runtime created with this configuration.
EnginesOf(config) ==
    LET built == PlatformEngines(config.platform)
        kept == IF config.pinned THEN Retained(built, config.list) ELSE built
    IN  [i \in 1..Len(kept) |-> Registered(kept[i])]

\* hk_runtime_create_impl.  The catalog is filled once, here.  A failed
\* allocation of the runtime itself leaves nothing behind.
CreateRuntime(config, memory) ==
    /\ ~runtime.alive
    /\ runtime.created < MaxRuntimes
    /\ runtime' = [alive    |-> TRUE,
                   created  |-> runtime.created + 1,
                   platform |-> config.platform,
                   context  |-> config.context,
                   pinned   |-> config.pinned,
                   list     |-> config.list,
                   engines  |-> EnginesOf(config),
                   catalog  |-> Populate(loaded, memory)]
    /\ UNCHANGED <<loaded, available, hook, ledgers>>

\* hk_runtime_register_engine_for_testing.
RegisterForTesting(e) ==
    /\ runtime.alive
    /\ hook.stage = "none"
    /\ Unsettled
    /\ \A i \in 1..Len(runtime.engines) : runtime.engines[i].id # e
    /\ Registrable(runtime.engines, e)
    /\ runtime' = [runtime EXCEPT
                      !.engines = Append(@, [id |-> e, testing |-> TRUE])]
    /\ UNCHANGED <<loaded, available, hook, ledgers>>

\* hk_runtime_release: the runtime's ledger and catalog go with it, the process
\* ledger and the host's snapshot stay.
ReleaseRuntime ==
    /\ runtime.alive
    /\ hook.stage = "none"
    /\ runtime' = NoRuntime(runtime.created)
    /\ runtimeLedger' = <<>>
    /\ UNCHANGED <<loaded, available, hook, ledger, report, processLedger,
                   snapshot, commits, others, made>>

-----------------------------------------------------------------------------
(* A hook: added, analysed, prepared.                                      *)

\* The selector that the copy of a target takes along.
UsesSelector(request) ==
    \/ request.kind \in {"symbol", "address"}
    \/ request.kind = "memory" /\ request.relative

\* hk_plan_add_hook and hk_hook_copy_target: Swift targets have an entry point of
\* their own, and a continuation cannot be both asked for and forbidden.
Refused(request) ==
    \/ request.kind = "swift"
    \/ request.original = "callable" /\ request.policy = "forbidden"
    \/ UsesSelector(request) /\ ~SelectorCopied(request.selector)
    \/ request.kind = "symbol" /\ ~SelectorCopied(request.caller)

AddHook(request) ==
    /\ runtime.alive
    /\ hook.stage = "none"
    /\ commits < MaxCommits
    /\ ~Refused(request)
    /\ hook' = [stage |-> "added", request |-> request]
    /\ UNCHANGED <<loaded, available, runtime, ledgers>>

\* hk_hook_analyze_one.
Analyze ==
    /\ hook.stage = "added"
    /\ LET request == hook.request
           i == Route(runtime, available, request)
           reach == IF i = 0 THEN {}
                    ELSE EffectiveReach(runtime.engines[i].id, request,
                                        runtime.catalog)
       IN hook' = [stage    |-> IF i = 0 THEN "no-route" ELSE "analyzed",
                   request  |-> request,
                   engine   |-> IF i = 0 THEN "none" ELSE runtime.engines[i].id,
                   testing  |-> i # 0 /\ runtime.engines[i].testing,
                   achieved |-> reach,
                   unmet    |-> request.preferred \ reach]
    /\ UNCHANGED <<loaded, available, runtime, ledgers>>

\* resolve_address: the memory engine of a runtime has no image base, so an
\* image-relative target resolves to its offset.
ImageBase == 0
ResolvedAddress(request) ==
    IF request.kind = "memory" /\ request.relative
    THEN ImageBase + request.address ELSE request.address

\* Mutant: a memory target is not compared with its image.
ScopeStatusInlineOnly(e, request) ==
    IF e \in {"inline-terminal", "inline-relocating", "inline-static"}
    THEN ScopeCheck(runtime.catalog, request.selector, request.uuid,
                    request.address)
    ELSE "OK"

\* The scope check that the chosen engine makes before it reads the target: by
\* containment for an address, by identity for a rebind of one given image, by
\* visiting the callers' images for a rebind over the catalog.  The providers and
\* the other test engines make none.
ScopeStatus(e, request) ==
    CASE e \in {"inline-terminal", "inline-relocating", "inline-static"} ->
            ScopeCheck(runtime.catalog, request.selector, request.uuid,
                       request.address)
      [] e = "memory" /\ request.relative ->
            ScopeCheck(runtime.catalog, request.selector, "any",
                       ResolvedAddress(request))
      [] e = OneImageRebind ->
            ScopeCheckHeader(runtime.catalog, request.caller, "any",
                             RebindHeader)
      [] e = "fishhook" ->
            IF CatalogMatch(runtime.catalog, request.caller) = {}
            THEN "NO_MATCH" ELSE "OK"
      [] OTHER -> "OK"

Extra(e) == IF e \in DOMAIN Undeclared THEN Undeclared[e] ELSE {}

\* hk_hook_dispatch_prepare and hk_hook_validate_prepare_effects: an engine that
\* produces an effect it did not declare fails the hook.
Prepare ==
    /\ hook.stage = "analyzed"
    /\ hook.request \in Committed
    /\ LET e == hook.engine
       IN \E engineAgrees \in BOOLEAN,
             produced \in {Engine[e].prepare, Engine[e].prepare \cup Extra(e)} :
             hook' = IF /\ ScopeAccepts(ScopeStatus(e, hook.request))
                        /\ engineAgrees
                        /\ produced \subseteq Engine[e].prepare
                     THEN [hook EXCEPT !.stage = "prepared"]
                     ELSE [hook EXCEPT !.stage = "failed"]
    /\ UNCHANGED <<loaded, available, runtime, ledgers>>

-----------------------------------------------------------------------------
(* Committing it: the sink, the verification, the outcome.                 *)

\* What one record of the commit is about.
Record(n, effect, state) == [commit |-> n, effect |-> effect, state |-> state]

\* Mutant: only what was recorded is observed.
ObservedIfRecorded(performed, lost) == performed \ lost

\* hk_artifact_sink_record: the effect is observed whether or not the artifact
\* finds memory.
Observed(performed, lost) == performed

\* Mutant: a lost artifact is not held against the engine.
SinkMutationUnrecorded(mutation, e, observed, lost) ==
    IF ~(observed \subseteq Engine[e].commit) THEN "UNKNOWN" ELSE mutation

\* Mutant: an undeclared effect is not held against the engine.
SinkMutationUndeclared(mutation, e, observed, lost) ==
    IF mutation = "COMPLETE" /\ lost # {} THEN "UNKNOWN" ELSE mutation

\* The mutation after the sink's failures and hk_hook_validate_commit_effects.
SinkMutation(mutation, e, observed, lost) ==
    IF \/ mutation = "COMPLETE" /\ lost # {}
       \/ ~(observed \subseteq Engine[e].commit)
    THEN "UNKNOWN" ELSE mutation

\* hk_hook_apply_verification.
VerifiedMutation(mutation, verify) ==
    IF mutation = "COMPLETE" /\ verify = "FAILED" THEN "UNKNOWN" ELSE mutation

OutcomeOf(mutation) ==
    CASE mutation = "COMPLETE" -> "ACTIVE"
      [] mutation = "NONE"     -> "FAILED_SAFE"
      [] mutation = "PARTIAL"  -> "FAILED_PARTIAL"
      [] OTHER                 -> "FAILED_UNKNOWN"

\* What the engine may do: nothing, whatever it did not declare alone, or all of
\* it, with at most one artifact that finds no memory.
Attempts(e) ==
    LET all == Engine[e].commit \cup Extra(e) IN
    {[mutation |-> "NONE", performed |-> p, lost |-> {}] : p \in {{}, Extra(e)}}
    \cup
    {[mutation |-> m, performed |-> all, lost |-> l] :
        m \in {"COMPLETE", "PARTIAL", "UNKNOWN"},
        l \in {{}} \cup {{x} : x \in all}}

\* hk_plan_commit for this hook.
Commit ==
    /\ hook.stage = "prepared"
    /\ commits' = commits + 1
    /\ \E a \in Attempts(hook.engine), verify \in {"UNAVAILABLE", "OK", "FAILED"} :
          LET seen == Observed(a.performed, a.lost)
              settled == SinkMutation(a.mutation, hook.engine, seen, a.lost)
              final == VerifiedMutation(settled, verify)
              state == IF settled = "COMPLETE" /\ verify = "OK"
                       THEN "VERIFIED" ELSE "COMMITTED"
              recorded == SetToSeq(a.performed \ a.lost)
              records == [i \in 1..Len(recorded) |->
                             Record(commits', recorded[i], state)]
          IN /\ ledger' = records
             /\ made' = Append(made, records)
             /\ hook' = [stage     |-> "settled",
                         request   |-> hook.request,
                         engine    |-> hook.engine,
                         testing   |-> hook.testing,
                         achieved  |-> hook.achieved,
                         unmet     |-> hook.unmet,
                         performed |-> a.performed,
                         observed  |-> seen,
                         outcome   |-> OutcomeOf(final)]
    /\ UNCHANGED <<loaded, available, runtime, report, runtimeLedger,
                   processLedger, snapshot, others>>

-----------------------------------------------------------------------------
(* The ledgers.                                                            *)

\* Mutant: the copies made before the failure stay in the ledger.
AppendedInPart(to, from, fits) ==
    IF fits THEN to \o from ELSE to \o SubSeq(from, 1, Len(from) - 1)

\* Mutant: the records are copied from the start of the ledger on.
AppendedAfresh(to, from, fits) == IF fits THEN from ELSE to

\* hk_artifact_ledger_append_ledger: either every record is copied or the count
\* stays where it was.
Appended(to, from, fits) == IF fits THEN to \o from ELSE to

\* The end of hk_plan_commit: without memory for the report the call's ledger is
\* destroyed and reaches nobody.
Report ==
    /\ hook.stage = "settled"
    /\ \/ /\ hook' = [hook EXCEPT !.stage = "unreported"]
          /\ UNCHANGED <<report, runtimeLedger>>
       \/ /\ hook' = [hook EXCEPT !.stage = "reported"]
          /\ report' = ledger
          /\ \E fits \in BOOLEAN :
                runtimeLedger' = Appended(runtimeLedger, ledger, fits)
    /\ UNCHANGED <<loaded, available, runtime, ledger, processLedger, snapshot,
                   commits, others, made>>

\* hk_artifact_process_append_ledger, which also creates the ledger.
AppendProcess ==
    /\ hook.stage = "reported"
    /\ hook' = [hook EXCEPT !.stage = "delivered"]
    /\ \E fits \in BOOLEAN :
          processLedger' = Appended(processLedger, ledger, fits)
    /\ UNCHANGED <<loaded, available, runtime, ledger, report, runtimeLedger,
                   snapshot, commits, others, made>>

\* Another runtime's commit reaches the process ledger, between the steps of this
\* one's.
OtherCommits ==
    /\ commits > 0
    /\ others < MaxOthers
    /\ others' = others + 1
    /\ processLedger' = Appended(processLedger,
                                 <<Record(0, "import", "VERIFIED")>>, TRUE)
    /\ UNCHANGED <<loaded, available, runtime, hook, ledger, report,
                   runtimeLedger, snapshot, commits, made>>

\* hk_copy_process_artifacts; a copy that finds no memory returns none.  The host
\* takes one, at any time.
TakeSnapshot ==
    /\ snapshot = <<>>
    /\ processLedger # <<>>
    /\ snapshot' = processLedger
    /\ UNCHANGED <<loaded, available, runtime, hook, ledger, report,
                   runtimeLedger, processLedger, commits, others, made>>

\* The host releases the plan and the report.
ReleaseHook ==
    /\ hook.stage \in {"no-route", "analyzed", "failed", "unreported", "delivered"}
    /\ hook' = NoHook
    /\ ledger' = <<>>
    /\ report' = <<>>
    /\ UNCHANGED <<loaded, available, runtime, runtimeLedger, processLedger,
                   snapshot, commits, others, made>>

Next ==
    \/ \E image \in Images : ImageLoads(image)
    \/ \E p \in Installable : ProviderAppears(p)
    \/ \E config \in Configs, memory \in CatalogMemory :
          CreateRuntime(config, memory)
    \/ \E e \in DOMAIN TestEngines : RegisterForTesting(e)
    \/ ReleaseRuntime
    \/ \E request \in Requests : AddHook(request)
    \/ Analyze
    \/ Prepare
    \/ Commit
    \/ Report
    \/ AppendProcess
    \/ OtherCommits
    \/ TakeSnapshot
    \/ ReleaseHook

Spec == Init /\ [][Next]_vars

-----------------------------------------------------------------------------
(* Properties: routing.                                                    *)

Chosen == {"analyzed", "failed", "prepared", "settled", "unreported",
           "reported", "delivered"}

Routed == hook.stage \in Chosen

\* Every variable has its type, and the table of engines never holds more than
\* HK_RUNTIME_MAX_ENGINES: hk_runtime_enumerate_backends keeps an array of that
\* size on its stack.
TypeOK ==
    /\ loaded \in Seq(Images)
    /\ available \subseteq Installable
    /\ runtime.alive =>
          /\ Len(runtime.engines) <= MaxEngines
          /\ \A i \in 1..Len(runtime.engines) : runtime.engines[i].id \in EngineIds
          /\ ToSet(runtime.catalog) \subseteq ToSet(loaded)
    /\ hook.stage \in Chosen \cup {"none", "added", "no-route"}
    /\ hook.stage # "none" => runtime.alive /\ hook.request \in Requests
    /\ Routed => hook.engine \in EngineIds
    /\ commits \in 0..MaxCommits
    /\ others \in 0..MaxOthers
    /\ Len(made) = commits

\* The order in which the router ranks two places: the preferred reach, then the
\* rank that the engine's own analysis gives, then the order of registration.
Beats(request, i, j) ==
    \/ Preferred(runtime, request, i) > Preferred(runtime, request, j)
    \/ /\ Preferred(runtime, request, i) = Preferred(runtime, request, j)
       /\ \/ RouteRank(runtime.engines[i].id) > RouteRank(runtime.engines[j].id)
          \/ /\ RouteRank(runtime.engines[i].id) = RouteRank(runtime.engines[j].id)
             /\ i < j

Candidates(request) ==
    {i \in 1..Len(runtime.engines) : Eligible(runtime, available, request, i)}

AnalysisEnds == hook.stage = "added" /\ hook'.stage # "added"

\* hk_hook_analyze_one scans the engines once and keeps one candidate: the engine
\* it ends with is an eligible one that beats every other eligible one, and a
\* request has no route only when no engine is eligible.
RouteIsBest ==
    [][AnalysisEnds =>
          LET candidates == Candidates(hook.request) IN
          IF candidates = {} THEN hook'.stage = "no-route"
          ELSE \E i \in candidates :
                  /\ runtime.engines[i].id = hook'.engine
                  /\ \A j \in candidates \ {i} : Beats(hook.request, i, j)]_vars

Named(e, token) == SpanMatches(token, Engine[e].group) \/ SpanMatches(token, e)

\* hk_runtime_apply_backend_override promises a strict list: on a pinned runtime a
\* hook reaches an engine that the list names (or Objective-C, or one that a test
\* registered), and none that the list names earlier could have served it as well.
PinStrict ==
    runtime.pinned /\ ~hook'.testing =>
        LET list == runtime.list
            places(e) == {k \in 1..Len(list) : Named(e, list[k])}
            i == CHOOSE i \in 1..Len(runtime.engines) :
                    runtime.engines[i].id = hook'.engine
            equal == {j \in Candidates(hook.request) :
                         /\ ~runtime.engines[j].testing
                         /\ Preferred(runtime, hook.request, i)
                               = Preferred(runtime, hook.request, j)
                         /\ RouteRank(hook'.engine)
                               = RouteRank(runtime.engines[j].id)}
        IN  /\ hook'.engine = "objc" \/ places(hook'.engine) # {}
            /\ \A j \in equal :
                  \A k \in places(runtime.engines[j].id) :
                     hook'.engine = "objc" \/ \E n \in places(hook'.engine) : n <= k

\* A host lists the backends and pins the one it saw at work: the group of an
\* automatically routed engine is one that hk_runtime_enumerate_backends shows,
\* and a runtime pinned to that group alone sends the request to the same engine.
PinKeepsRoute ==
    ~runtime.pinned =>
        LET group == Engine[hook'.engine].group
            pinned == EnginesOf([platform |-> runtime.platform, pinned |-> TRUE,
                                 list |-> <<group>>])
                      \o SelectSeq(runtime.engines, LAMBDA x : x.testing)
            other == [runtime EXCEPT !.engines = pinned]
            i == Route(other, available, hook.request)
        IN  /\ group \in ToSet(Enumerated(runtime, available))
            /\ i # 0 /\ pinned[i].id = hook'.engine

\* What pinning promises: the list is strict, and pinning what the automatic
\* order chose changes nothing.
PinsAreHonoured ==
    [][AnalysisEnds /\ hook'.stage = "analyzed" => PinStrict /\ PinKeepsRoute]_vars

Floor(e) == <<Engine[e].floor \div 10000, (Engine[e].floor \div 100) % 100,
              Engine[e].floor % 100>>

\* Versions compared part by part.
AtLeast(parts, floor) ==
    LET part(i) == IF i <= Len(parts) THEN parts[i] ELSE 0
    IN  \E n \in 1..4 : /\ \A i \in 1..(n - 1) : part(i) = floor[i]
                        /\ n <= 3 => part(n) > floor[n]

-----------------------------------------------------------------------------
(* Properties: scopes, effects and ledgers.                                *)

\* The selectors below each one, itself included: those in every set of selectors
\* that holds it and, of what it holds, the members.
Below ==
    [s \in Selectors |->
        {t \in Selectors :
            \A S \in SUBSET Selectors :
                s \in S /\ (\A u \in S : ToSet(Members[u]) \subseteq S) => t \in S}]

Names(s, image) == \E t \in Below[s] : LeafMatches(image, t)

\* An engine of the library that claims HK_REACH_EXACT_IMAGE_SCOPE for a prepared
\* hook has an address inside a loaded image that the request names, of the build
\* it expects; a rebind of one image only prepares inside the callers' scope.
ClaimedScopeHolds ==
    hook.stage \in Chosen \ {"analyzed", "failed"} =>
        /\ "scope" \in hook.achieved /\ ~hook.testing =>
              \E image \in ToSet(loaded) :
                 /\ Names(hook.request.selector, image)
                 /\ image.bounded
                 /\ ResolvedAddress(hook.request) \in image.first..(image.last - 1)
                 /\ hook.request.kind = "address" /\ hook.request.uuid # "any"
                       => image.uuid = hook.request.uuid
        /\ hook.engine = OneImageRebind /\ runtime.catalog # <<>> =>
              \E image \in ToSet(loaded) : /\ Names(hook.request.caller, image)
                                           /\ image.header = RebindHeader

\* When a runtime fills its catalog: two selectors with one ownership key name the
\* same images of it, two sets with the same leaves have one key, and every selector
\* that a plan can copy has a key.  Otherwise the owner of a target would be missed.
KeysMatchScope ==
    [][~runtime.alive /\ runtime'.alive =>
          \A s \in Copied :
             /\ HasKey(s)
             /\ \A t \in Copied :
                   /\ SelectorKey(s) = SelectorKey(t) =>
                         \A image \in ToSet(runtime'.catalog) :
                            Names(s, image) <=> Names(t, image)
                   /\ /\ IsSet(s) /\ IsSet(t)
                      /\ {LeafKey(x) : x \in {y \in Below[s] : ~IsSet(y)}}
                           = {LeafKey(x) : x \in {y \in Below[t] : ~IsSet(y)}}
                      => SelectorKey(s) = SelectorKey(t)]_vars

Settled == hook.stage \in {"settled", "unreported", "reported", "delivered"}

\* The effect that each constraint is there to prevent.
Prevented ==
    [ban \in {"text-patch", "import-patch", "metadata-change", "dynamic-memory",
              "static-continuation", "provider-activation", "provider-image",
              "unknown-commit-effects"} |->
        CASE ban = "text-patch"             -> "text"
          [] ban = "import-patch"           -> "import"
          [] ban = "metadata-change"        -> "metadata"
          [] ban = "dynamic-memory"         -> "allocation"
          [] ban = "static-continuation"    -> "static"
          [] ban = "provider-activation"    -> "activation"
          [] ban = "provider-image"         -> "image"
          [] ban = "unknown-commit-effects" -> "unknown"]

\* What a route may never be.  On a device, an engine that is not certified for the
\* processor or whose first iOS version is later than the device's (the code
\* compares versions as one number), unless a test put it there.  In the automatic
\* order, the finite pool of static continuations for a request that does not rule
\* dynamic memory out.  And one whose commit ends ACTIVE with an effect that the
\* request forbids, whether the engine declared that effect or not.
RoutesAdmissible ==
    /\ Routed /\ ~hook.testing /\ runtime.platform.os = "ios"
          => /\ runtime.platform.arch \in Engine[hook.engine].certified
             /\ Parsed(runtime.platform.version) # 0
                   => AtLeast(runtime.platform.version, Floor(hook.engine))
    /\ Routed /\ ~runtime.pinned /\ hook.engine = "inline-static"
          => \/ hook.request.policy = "no-dynamic-memory"
             \/ "dynamic-memory" \in hook.request.forbids
    /\ Settled /\ hook.outcome = "ACTIVE"
          => /\ \A ban \in hook.request.forbids \cap DOMAIN Prevented :
                   Prevented[ban] \notin hook.performed
             /\ hook.request.policy = "no-dynamic-memory"
                   => "allocation" \notin hook.performed

\* A result never hides an effect: everything done is in observed_commit_effects
\* even when its artifact was lost, an ACTIVE hook has an artifact in the report
\* for each effect, and an effect outside the declaration is never called NONE.
EffectsReported ==
    /\ Settled => hook.performed \subseteq hook.observed
    /\ Settled /\ ~(hook.performed \subseteq Engine[hook.engine].commit)
          => hook.outcome = "FAILED_UNKNOWN"
    /\ hook.stage \in {"reported", "delivered"} /\ hook.outcome = "ACTIVE"
          => {record.effect : record \in ToSet(report)} = hook.performed

\* The records of commit n, if there are any, are this piece of the ledger.
HoldsWhole(records, piece, n) ==
    \/ \A i \in DOMAIN records : records[i].commit # n
    \/ \E k \in 0..Len(records) :
          /\ k + Len(piece) <= Len(records)
          /\ \A i \in DOMAIN records :
                records[i].commit = n <=> i \in (k + 1)..(k + Len(piece))
          /\ \A i \in DOMAIN piece : records[k + i] = piece[i]

\* hk_artifact_ledger_append_ledger works on a ledger that other commits use: the
\* runtime's and the process's ledger hold each commit completely, in its order,
\* once and in one piece, or not at all.  What a host copied from the process ledger stays a prefix
\* of it, after other commits and after the runtimes that made the records are
\* gone: a host compares two snapshots to see what changed in between.
LedgersStand ==
    /\ \A n \in 1..commits :
          /\ HoldsWhole(runtimeLedger, made[n], n)
          /\ HoldsWhole(processLedger, made[n], n)
    /\ Len(snapshot) <= Len(processLedger)
    /\ SubSeq(processLedger, 1, Len(snapshot)) = snapshot

=============================================================================
