----------------------------- MODULE HKRouting ------------------------------
(***************************************************************************)
(* How a runtime chooses the engine for a request: the descriptors of the  *)
(* engines, the eligibility tests of HKEngineInternal.h, the router of     *)
(* hk_hook_analyze_one (HKPlan.c), and the registry, the backend override  *)
(* and the enumeration of HKRuntime.c.  Everything here is a function of   *)
(* its arguments; HKRuntime holds the state.                               *)
(*                                                                         *)
(* A request is a record with the fields kind, original, policy, required, *)
(* preferred, forbids, selector, uuid, address, relative, window and       *)
(* passes: the providers whose preflight accepts the target's code.        *)
(***************************************************************************)
EXTENDS HKImages, FiniteSets, TLC

CONSTANTS
    TestEngines,        \* [ids -> descriptors] that a test registers
    MaxEngines,         \* HK_RUNTIME_MAX_ENGINES, 16 in the code
    DeploymentTarget    \* __IPHONE_OS_VERSION_MIN_REQUIRED

-----------------------------------------------------------------------------
(* What an engine declares.                                                *)

AArch64 == {"arm64", "arm64e"}
Arm32 == {"armv7", "armv7s"}
AllContexts == {"early", "main", "serialized", "arbitrary"}
AllOriginals == {"none", "direct", "callable"}

\* HK_ENGINE_IOS_VERSION.
Version(major, minor, patch) == major * 10000 + minor * 100 + patch

\* A descriptor after memset, as the built-in AArch64 engines complete it.  An
\* empty set of contexts or originals declares nothing.  vtable is struct_size:
\* 0 for the unversioned form, otherwise the number of members it holds.
Native ==
    [group |-> "HookKit", kinds |-> {}, scoped |-> {}, contexts |-> {},
     archs |-> AArch64, certified |-> AArch64, floor |-> Version(15, 0, 0),
     reach |-> {}, originals |-> {}, prepare |-> {}, commit |-> {},
     window |-> 0, hybrid |-> 0, rank |-> 0, vtable |-> 0]

ObjCEngine ==
    [Native EXCEPT !.kinds = {"objc"}, !.archs = AArch64 \cup Arm32,
                   !.certified = AArch64 \cup Arm32, !.floor = Version(9, 0, 0),
                   !.contexts = AllContexts \ {"arbitrary"},
                   !.reach = {"dispatch"}, !.commit = {"metadata"}]

RebindEngine ==
    [Native EXCEPT !.kinds = {"symbol"}, !.reach = {"imports"},
                   !.originals = {"none", "direct"}, !.commit = {"import"}]

MemoryEngine ==
    [Native EXCEPT !.kinds = {"memory"}, !.scoped = {"memory"},
                   !.reach = {"bytes", "scope"}, !.commit = {"memory"}]

InlineEngine ==
    [Native EXCEPT !.kinds = {"address"}, !.scoped = {"address"},
                   !.reach = {"entry", "scope"}, !.originals = {"none"},
                   !.commit = {"text"}]

RelocEngine ==
    [Native EXCEPT !.kinds = {"address"}, !.scoped = {"address"},
                   !.reach = {"entry", "scope"}, !.originals = AllOriginals,
                   !.prepare = {"allocation", "static"},
                   !.commit = {"text", "allocation", "static"}]

StaticEngine ==
    [RelocEngine EXCEPT !.prepare = {"static"}, !.commit = {"text", "static"}]

\* provider_describe over a profile.  window is inspection_size; hybrid is
\* max_overwrite_size for the one that publishes the original too late.
ProviderEngine(group, window) ==
    [Native EXCEPT !.group = group, !.kinds = {"address"}, !.reach = {"entry"},
                   !.contexts = {"early", "main"},
                   !.originals = {"none", "callable"}, !.window = window,
                   !.prepare = {"image", "activation", "unknown"},
                   !.commit = {"text", "allocation", "unknown"}]

DobbyEngine ==
    [ProviderEngine("dobby", 16) EXCEPT
        !.prepare = {}, !.commit = @ \cup {"activation"}]

GumEngine == [ProviderEngine("gum", 4) EXCEPT !.contexts = AllContexts]

ElleKitEngine ==
    [ProviderEngine("ellekit", 4) EXCEPT
        !.hybrid = 16, !.prepare = @ \cup {"allocation", "static"},
        !.commit = @ \cup {"static"}]

SubstituteEngine ==
    [ProviderEngine("substitute", 4) EXCEPT
        !.archs = AArch64 \cup Arm32, !.certified = AArch64 \cup Arm32,
        !.floor = Version(9, 0, 0)]

BuiltInIds ==
    {"objc", "fishhook", "memory", "provider-dobby", "provider-gum",
     "provider-ellekit", "inline-terminal", "inline-relocating", "inline-static",
     "provider-substitute"}

BuiltIn(e) ==
    CASE e = "objc"                -> ObjCEngine
      [] e = "fishhook"            -> RebindEngine
      [] e = "memory"              -> MemoryEngine
      [] e = "provider-dobby"      -> DobbyEngine
      [] e = "provider-gum"        -> GumEngine
      [] e = "provider-ellekit"    -> ElleKitEngine
      [] e = "inline-terminal"     -> InlineEngine
      [] e = "inline-relocating"   -> RelocEngine
      [] e = "inline-static"       -> StaticEngine
      [] e = "provider-substitute" -> SubstituteEngine

EngineIds == BuiltInIds \cup DOMAIN TestEngines
Engine == [e \in EngineIds |-> IF e \in BuiltInIds THEN BuiltIn(e) ELSE TestEngines[e]]

\* The table has room for the engines of the library, and those of the tests have
\* names of their own.
ASSUME RoutingAssumption ==
    /\ MaxEngines \in Nat
    /\ MaxEngines >= 10
    /\ DeploymentTarget \in Nat
    /\ DOMAIN TestEngines \cap BuiltInIds = {}
    /\ \A e \in DOMAIN TestEngines :
          /\ IsFiniteSet(TestEngines[e].reach) /\ IsFiniteSet(TestEngines[e].commit)
          /\ TestEngines[e].rank \in Nat

Providers == {"provider-dobby", "provider-gum", "provider-ellekit",
              "provider-substitute"}

\* hk_engine_vtable_has_field for discover and analyze_operation: an unversioned
\* vtable has every member, a versioned one those its size reaches.
Fields == [describe |-> 1, discover |-> 2, analyze |-> 3]
HasField(e, field) == Engine[e].vtable = 0 \/ Engine[e].vtable >= Fields[field]

-----------------------------------------------------------------------------
(* The platform and the registry.                                          *)

LastMajor == 429496   \* UINT32_MAX / 10000

\* hk_runtime_parse_ios_version and hk_runtime_platform_ios_version on the
\* numbers of kern.osproductversion; an answer that is not a version falls back
\* to the deployment target.  The packed number is a uint32_t: it wraps only for
\* the last major number let through, past 2^32 - 1 = 429496 * 10000 + 7295.
Parsed(parts) ==
    LET part(i) == IF i <= Len(parts) THEN parts[i] ELSE 0
        minor == part(2) * 100 + part(3)
    IN  IF \/ Len(parts) \notin 1..3
           \/ part(1) > LastMajor \/ part(2) > 99 \/ part(3) > 99
        THEN 0
        ELSE IF part(1) = LastMajor /\ minor > 7295
        THEN minor - 7296
        ELSE Version(part(1), part(2), part(3))

PlatformVersion(parts) ==
    IF Parsed(parts) # 0 THEN Parsed(parts) ELSE DeploymentTarget

\* hk_runtime_platform_architecture: a host build has none.
Architecture(platform) ==
    IF platform.os = "ios" THEN platform.arch ELSE "host"

\* Mutant: the pool-backed engine is registered before the dynamic one.
PlatformEnginesStaticFirst(platform) ==
    <<"objc", "fishhook", "memory", "inline-terminal", "inline-static",
      "inline-relocating">>

\* hk_runtime_register_platform_engines: Objective-C on iOS, the native engines and
\* the linked providers on AArch64, Substitute in every canonical build.
PlatformEngines(platform) ==
    LET block(built, engines) == IF built THEN engines ELSE <<>>
        ios == platform.os = "ios"
        native == ios /\ platform.arch \in AArch64
    IN  block(ios, <<"objc">>)
        \o block(native, <<"fishhook", "memory">>)
        \o block(native /\ platform.canonical,
                 <<"provider-dobby", "provider-gum", "provider-ellekit">>)
        \o block(native, <<"inline-terminal", "inline-relocating", "inline-static">>)
        \o block(platform.canonical, <<"provider-substitute">>)

\* Mutant: the size of the table is not looked at.
RegistrableUnbounded(engines, e) == HasField(e, "describe")

\* hk_runtime_register_engine: a versioned vtable must reach describe, and the
\* table has a fixed size.
Registrable(engines, e) ==
    /\ HasField(e, "describe")
    /\ Len(engines) < MaxEngines

\* Mutant: the deployment floor is not compared.
SupportsPlatformAnyVersion(e, platform, testing) ==
    \/ testing
    \/ Architecture(platform) = "host"
    \/ Architecture(platform) \in Engine[e].archs \cap Engine[e].certified

\* hk_engine_supports_platform.
SupportsPlatform(e, platform, testing) ==
    \/ testing
    \/ Architecture(platform) = "host"
    \/ /\ Architecture(platform) \in Engine[e].archs \cap Engine[e].certified
       /\ \/ Engine[e].floor = 0
          \/ /\ PlatformVersion(platform.version) # 0
             /\ PlatformVersion(platform.version) >= Engine[e].floor

-----------------------------------------------------------------------------
(* The eligibility of one engine.                                          *)

\* Mutant: the two enumerations are compared bit by bit (bits 0-2 agree; 4 is the
\* memory effect and the ban on dynamic memory, and so on).
ForbidBitMasked(effect) ==
    CASE effect = "text"       -> "text-patch"
      [] effect = "import"     -> "import-patch"
      [] effect = "metadata"   -> "metadata-change"
      [] effect = "memory"     -> "dynamic-memory"
      [] effect = "allocation" -> "static-continuation"
      [] effect = "activation" -> "provider-activation"
      [] effect = "image"      -> "provider-image"
      [] OTHER                 -> "nothing"

\* hk_effect_forbid_bit: which constraint bans an effect.  The other effects
\* cannot be forbidden.
ForbidBit(effect) ==
    CASE effect = "text"       -> "text-patch"
      [] effect = "import"     -> "import-patch"
      [] effect = "metadata"   -> "metadata-change"
      [] effect = "allocation" -> "dynamic-memory"
      [] effect = "static"     -> "static-continuation"
      [] effect = "activation" -> "provider-activation"
      [] effect = "image"      -> "provider-image"
      [] effect = "unknown"    -> "unknown-commit-effects"
      [] OTHER                 -> "nothing"

\* Mutant: the continuation policy is left to the engines.
EffectiveConstraintsExplicit(request) == request.forbids

\* hk_effective_constraints.  HK_CONTINUATION_FORBIDDEN adds nothing.
EffectiveConstraints(request) ==
    request.forbids \cup
        IF request.policy = "no-dynamic-memory" THEN {"dynamic-memory"} ELSE {}

\* hk_engine_eligible_minimal_full.
EligibleMinimal(e, request) ==
    /\ request.kind \in Engine[e].kinds
    /\ request.required \subseteq Engine[e].reach
    /\ Engine[e].originals = {} \/ request.original \in Engine[e].originals
    /\ \A effect \in Engine[e].prepare \cup Engine[e].commit :
          ForbidBit(effect) \notin EffectiveConstraints(request)

\* Mutant: an empty catalog still supports the claim.
EffectiveReachNoCatalog(e, request, catalog) ==
    IF request.kind \in Engine[e].scoped
    THEN Engine[e].reach ELSE Engine[e].reach \ {"scope"}

\* hk_engine_effective_reach: the exact-scope bit stays only where it can be
\* proved, against a catalog that is not empty.
EffectiveReach(e, request, catalog) ==
    LET provable == /\ request.kind \in Engine[e].scoped
                    /\ catalog # <<>>
                    /\ request.kind = "memory" => request.relative
                    /\ request.kind \in {"address", "memory", "symbol"}
    IN  IF provable THEN Engine[e].reach ELSE Engine[e].reach \ {"scope"}

\* hk_engine_honors_symbol_defining_scope.
HonorsDefiningScope(e, request) ==
    \/ request.kind # "symbol"
    \/ SelectorKind[request.selector] = "any"
    \/ "symbol" \in Engine[e].scoped

\* hk_engine_supports_install_context.
SupportsContext(e, context) ==
    Engine[e].contexts = {} \/ context \in Engine[e].contexts

\* provider_analyze: only the window that will be compared can be pinned, and a
\* late publisher serves an original only with HookKit's own continuation.
ProviderEligible(e, request) ==
    LET window == IF Engine[e].hybrid # 0 /\ request.original # "none"
                  THEN Engine[e].hybrid ELSE Engine[e].window
    IN  /\ request.kind = "address"
        /\ request.original \in Engine[e].originals
        /\ request.policy = "any"
        /\ request.window <= window
        /\ e \in request.passes

\* discover and analyze_operation.  Dobby is linked in and always there; the
\* native engines have neither callback.
Discovered(e, available) ==
    e \in Providers \ {"provider-dobby"} => e \in available
Analysed(e, request) == e \in Providers => ProviderEligible(e, request)

\* analysis.route_rank.
RouteRank(e) == IF HasField(e, "analyze") THEN Engine[e].rank ELSE 0

\* One pass of the loop in hk_hook_analyze_one up to the comparison.
Eligible(r, available, request, i) ==
    LET e == r.engines[i].id IN
    /\ Discovered(e, available)
    /\ Analysed(e, request)
    /\ EligibleMinimal(e, request)
    /\ request.required \subseteq EffectiveReach(e, request, r.catalog)
    /\ HonorsDefiningScope(e, request)
    /\ SupportsContext(e, r.context)
    /\ SupportsPlatform(e, r.platform, r.engines[i].testing)

\* The preferred reach that the engine at place i achieves.
Preferred(r, request, i) ==
    Cardinality(EffectiveReach(r.engines[i].id, request, r.catalog)
                \cap request.preferred)

\* Mutant: the last of several equal engines wins.
ReplacesLast(r, request, i, best) ==
    \/ best = 0
    \/ Preferred(r, request, i) > Preferred(r, request, best)
    \/ /\ Preferred(r, request, i) = Preferred(r, request, best)
       /\ RouteRank(r.engines[i].id) >= RouteRank(r.engines[best].id)

\* The comparison: more preferred reach, then a higher rank, then the place.
Replaces(r, request, i, best) ==
    \/ best = 0
    \/ Preferred(r, request, i) > Preferred(r, request, best)
    \/ /\ Preferred(r, request, i) = Preferred(r, request, best)
       /\ RouteRank(r.engines[i].id) > RouteRank(r.engines[best].id)

\* The loop of hk_hook_analyze_one: the place of the chosen engine, or 0.
Route(r, available, request) ==
    LET best[n \in 0..Len(r.engines)] ==
          IF n = 0 THEN 0
          ELSE IF /\ Eligible(r, available, request, n)
                  /\ Replaces(r, request, n, best[n - 1])
               THEN n ELSE best[n - 1]
    IN best[Len(r.engines)]

-----------------------------------------------------------------------------
(* Backends: the groups a host can list and pin.                           *)

\* hk_ci_span_eq.
Folded(name) == IF name = "HookKit" THEN "hookkit" ELSE name

\* A provider's id without its prefix.
Unprefixed ==
    "provider-dobby" :> "dobby" @@ "provider-gum" :> "gum" @@
    "provider-ellekit" :> "ellekit" @@ "provider-substitute" :> "substitute"

\* hk_backend_span_matches.
SpanMatches(token, id) ==
    \/ Folded(token) = Folded(id)
    \/ Folded(token) = "native" /\ id = "HookKit"
    \/ id \in DOMAIN Unprefixed /\ Folded(token) = Unprefixed[id]

\* Mutant: only the id of an engine is looked up.
TokenRankIdOnly(e, list) ==
    SelectInSeq(list, LAMBDA token : SpanMatches(token, e))

\* hk_backend_token_index, hk_engine_group_token and hk_engine_token_rank: the
\* first place in the list that names the engine or its group, or 0.
TokenRank(e, list) ==
    SelectInSeq(list, LAMBDA token : \/ SpanMatches(token, Engine[e].group)
                                     \/ SpanMatches(token, e))

\* Mutant: a list that names nothing known leaves every engine.
KeptIfUnknown(e, list) ==
    \/ e = "objc"
    \/ TokenRank(e, list) > 0
    \/ \A x \in EngineIds : TokenRank(x, list) = 0

\* hk_runtime_apply_backend_override: Objective-C is never dropped.
Kept(e, list) == e = "objc" \/ TokenRank(e, list) > 0

\* Mutant: the engines keep the order of registration.
PrecedesNever(e, f, list) == FALSE

\* hk_runtime_retain_ordered_engines: a stable sort by the place in the list,
\* engines that the list does not name after the others.
Precedes(e, f, list) ==
    /\ TokenRank(e, list) > 0
    /\ TokenRank(f, list) > 0 => TokenRank(e, list) < TokenRank(f, list)

\* One turn of its loop: everything that the engine precedes moves up.
Inserted(sorted, e, list) ==
    LET at == SelectLastInSeq(sorted, LAMBDA f : ~Precedes(e, f, list))
    IN  SubSeq(sorted, 1, at) \o <<e>> \o SubSeq(sorted, at + 1, Len(sorted))

Retained(engines, list) ==
    LET sorted[n \in 0..Len(engines)] ==
          IF n = 0 THEN <<>>
          ELSE IF Kept(engines[n], list)
               THEN Inserted(sorted[n - 1], engines[n], list)
               ELSE sorted[n - 1]
    IN sorted[Len(engines)]

\* hk_runtime_enumerate_backends: the groups, each once, in routing order.
Enumerated(r, available) ==
    LET shown == SelectSeq(r.engines, LAMBDA x :
                    /\ SupportsPlatform(x.id, r.platform, x.testing)
                    /\ Discovered(x.id, available))
    IN  FoldLeft(LAMBDA seen, x :
                    IF Engine[x.id].group \in ToSet(seen)
                    THEN seen ELSE Append(seen, Engine[x.id].group),
                 <<>>, shown)

=============================================================================
