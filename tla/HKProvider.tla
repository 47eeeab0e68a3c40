----------------------------- MODULE HKProvider -----------------------------
(***************************************************************************)
(* The provider adapters (HKProviderVtable.c) over Dobby, Gum, ElleKit and *)
(* Substitute, with the bindings in HKRuntime.c that find, load and call   *)
(* these libraries, and the core's commit around them (HKPlan.c).          *)
(*                                                                         *)
(* Hooks belong to separate plans and threads.  Discovery, analysis and    *)
(* preparation run without the ownership lock, commit under it.  The       *)
(* libraries themselves are external: what a vendor call may do is what    *)
(* the adapters guard against.  An entry is two parts: its first           *)
(* instruction and the rest of the 16 bytes a provider may overwrite.      *)
(***************************************************************************)
EXTENDS Naturals, Sequences

CONSTANTS
    Hooks,
    Scenarios,      \* hooks that are asked for, and what is installed:
                    \* [asked : SUBSET Hooks, disk : [Images -> SUBSET Symbols]]
    Kind,           \* [Hooks -> Kinds]
    Targets,
    Target,         \* [Hooks -> Targets]
    WantsOriginal,  \* hooks that require HK_ORIGINAL_CALLABLE_CONTINUATION
    Expects,        \* [Hooks -> 0..2]: parts of the entry with expected bytes
    PolicyAny,      \* hooks with HK_CONTINUATION_ANY
    OffMain,        \* hooks requested off the main thread
    Global,         \* images the host may load with global visibility
    Code, Foreign, Torn, Free,
    ForeignWrites,  \* how often foreign code may patch an entry
    Faults

Kinds == {"dobby", "gum", "ellekit", "substitute"}
Loaded == Kinds \ {"dobby"}         \* Dobby is compiled in
Images == {"HKGum", "libellekit", "libhooker", "libsubstitute", "CydiaSubstrate"}
Symbols == {"image", "hkgum_hook_function", "hkgum_transaction",
            "LHHookFunctions", "EKHookFunction", "substitute_hook_functions",
            "MSHookFunction", "SubHookFunction"}
Parts == 1 .. 2
Words == Hooks \cup {Code, Foreign, Torn}   \* a hook: a branch to its replacement

ASSUME HooksAssumption ==
    /\ Kind \in [Hooks -> Kinds]
    /\ Target \in [Hooks -> Targets]
    /\ WantsOriginal \subseteq Hooks
    /\ Expects \in [Hooks -> 0 .. 2]
    /\ PolicyAny \subseteq Hooks /\ OffMain \subseteq Hooks
ASSUME WorldAssumption ==
    /\ Scenarios \subseteq [asked : SUBSET Hooks, disk : [Images -> SUBSET Symbols]]
    \* "image" stands for an image that dlopen_preflight accepts.
    /\ \A c \in Scenarios, i \in Images : c.disk[i] # {} => "image" \in c.disk[i]
    /\ Global \subseteq Images
    /\ ForeignWrites \in Nat
    /\ Faults \subseteq {"dlopen", "malloc", "read", "seam", "record", "owner"}
ASSUME WordsAssumption ==
    /\ Code # Foreign /\ Code # Torn /\ Foreign # Torn
    /\ {Code, Foreign, Torn, Free} \cap Hooks = {}

VARIABLES
    disk,       \* what is installed
    global,     \* images visible to RTLD_DEFAULT
    cache,      \* cached, the memoized verdict on the files
    cacheLock,  \* holder of cache_lock
    bound,      \* the vendor's functions in g_platform_*: <<image, symbol>>
    stateLock,  \* holder of g_platform_*.lock across steps
    entry,      \* what each target's entry holds
    patches,    \* foreign patches made
    lock,       \* holder of g_ownership_lock
    owner,      \* targets with a record in the ledger
    pc,
    verdict,    \* what discover answered
    inspected,  \* prepared->inspected
    page,       \* the continuation held: "none", or the effect it counts as
    body,       \* the words that the page's continuation executes
    called,     \* prepared->provider_called
    cell,       \* sink->published_original, or local_original for a hook that
                \* wants none: "page", "vendor" or "none"
    prepareEffects, commitEffects,  \* observed
    result,     \* the mutation state that the engine returns
    outcome,
    loads,      \* ghost: images whose constructors a preparation may have run
    touched     \* ghost: the vendor wrote to the target

diskVars == <<disk, global>>
findVars == <<cache, cacheLock, verdict>>
bindVars == <<bound, stateLock, loads, prepareEffects>>
codeVars == <<entry, patches, touched>>
pageVars == <<inspected, page, body>>
coreVars == <<lock, owner, outcome>>
callVars == <<called, cell, commitEffects, result>>
vars == <<diskVars, findVars, bindVars, codeVars, pageVars, coreVars, callVars, pc>>

Init ==
    /\ \E c \in Scenarios :
          /\ disk = c.disk
          /\ pc = [h \in Hooks |-> IF h \in c.asked THEN "discover" ELSE "absent"]
    /\ global = {}
    /\ cache = [k \in Loaded |-> "unknown"]
    /\ cacheLock = [k \in Loaded |-> Free]
    /\ bound = [k \in Loaded |-> {}]
    /\ stateLock = [k \in Loaded |-> Free]
    /\ entry = [t \in Targets |-> [i \in Parts |-> Code]]
    /\ patches = 0
    /\ lock = Free
    /\ owner = {}
    /\ verdict = [h \in Hooks |-> "none"]
    /\ inspected = [h \in Hooks |-> [i \in Parts |-> Code]]
    /\ page = [h \in Hooks |-> "none"]
    /\ body = [h \in Hooks |-> [i \in Parts |-> Code]]
    /\ called = [h \in Hooks |-> FALSE]
    /\ cell = [h \in Hooks |-> "none"]
    /\ prepareEffects = [h \in Hooks |-> {}]
    /\ commitEffects = [h \in Hooks |-> {}]
    /\ result = [h \in Hooks |-> "NONE"]
    /\ outcome = [h \in Hooks |-> "REQUESTED"]
    /\ loads = [h \in Hooks |-> {}]
    /\ touched = [h \in Hooks |-> FALSE]

Goto(h, where) == pc' = [pc EXCEPT ![h] = where]

-----------------------------------------------------------------------------
(* The process around HookKit.                                             *)

\* The host loads an installed image with global visibility.
HostLoads(i) ==
    /\ i \in Global \ global
    /\ "image" \in disk[i]
    /\ global' = global \cup {i}
    /\ UNCHANGED <<disk, findVars, bindVars, codeVars, pageVars, coreVars,
                   callVars, pc>>

\* Foreign code patches a part of an entry, without any of HookKit's locks.
ForeignPatch(t, i) ==
    /\ patches < ForeignWrites
    /\ entry[t][i] # Foreign
    /\ entry' = [entry EXCEPT ![t][i] = Foreign]
    /\ patches' = patches + 1
    /\ UNCHANGED <<diskVars, findVars, bindVars, touched, pageVars, coreVars,
                   callVars, pc>>

-----------------------------------------------------------------------------
(* The profiles.                                                           *)

Activation == {"image_load", "activation", "unknown"}

\* Mutant: the profile forgets the static pool.
PoolEffectsDynamic == {"exec_alloc"}

\* What hk_platform_reloc_alloc may hand out.
PoolEffects == {"exec_alloc", "static_use"}

Profile ==
    [k \in Kinds |->
       CASE k = "dobby" ->
              [window |-> 2, early |-> TRUE, atCommit |-> TRUE, prepare |-> {},
               commit |-> {"text", "exec_alloc", "activation", "unknown"}]
         [] k \in {"gum", "substitute"} ->
              [window |-> 1, early |-> TRUE, atCommit |-> FALSE,
               prepare |-> Activation, commit |-> {"text", "exec_alloc", "unknown"}]
         [] k = "ellekit" ->
              [window |-> 1, early |-> FALSE, atCommit |-> FALSE,
               prepare |-> Activation \cup PoolEffects,
               commit |-> {"text", "unknown"} \cup PoolEffects]]

\* provider_needs_hybrid: HookKit's own continuation, the vendor's patch.
Hybrid(h) == ~Profile[Kind[h]].early /\ h \in WantsOriginal

\* The inspected window; the audited overwrite bound is the whole entry.
Window(h) == 1 .. IF Hybrid(h) THEN 2 ELSE Profile[Kind[h]].window

-----------------------------------------------------------------------------
(* Discovery.                                                              *)

\* hk_platform_file_exports.
Exports(i, s) == {"image", s} \subseteq disk[i]

HasElleKit == \E i \in {"libellekit", "libhooker"} : Exports(i, "LHHookFunctions")

\* What the files say.
OnDisk(k) ==
    CASE k = "gum" -> Exports("HKGum", "hkgum_hook_function")
      [] k = "ellekit" -> HasElleKit
      [] k = "substitute" ->
           \/ \E s \in {"substitute_hook_functions", "SubHookFunction"} :
                 Exports("libsubstitute", s)
           \/ /\ Exports("CydiaSubstrate", "MSHookFunction")
              /\ ~Exports("CydiaSubstrate", "LHHookFunctions")
              /\ ~HasElleKit

\* Images that dlsym(RTLD_DEFAULT, s) may find s in.
Visible(s) == {i \in global : Exports(i, s)}

\* Mutant: whoever exports MSHookFunction is taken for Substitute.
LiveSubstituteAnyOrigin ==
    \E s \in {"substitute_hook_functions", "MSHookFunction", "SubHookFunction"} :
        Visible(s) # {}

\* hk_platform_substitute_discover, the symbols that are already loaded.
LiveSubstitute ==
    \/ Visible("substitute_hook_functions") # {}
    \/ \E s \in {"MSHookFunction", "SubHookFunction"} :
          Visible(s) \cap {"libsubstitute", "CydiaSubstrate"} # {}

Answer(h, found) ==
    /\ verdict' = [verdict EXCEPT ![h] = IF found THEN "available" ELSE "unavailable"]
    /\ Goto(h, IF found THEN "analyze" ELSE "noroute")

DiscoverDobby(h) ==
    /\ pc[h] = "discover" /\ Kind[h] = "dobby"
    /\ Answer(h, TRUE)
    /\ UNCHANGED <<diskVars, cache, cacheLock, bindVars, codeVars, pageVars,
                   coreVars, callVars>>

\* Substitute may be bound already, or have been loaded by somebody else.
DiscoverLive(h) ==
    /\ pc[h] = "discover" /\ Kind[h] = "substitute"
    /\ stateLock["substitute"] = Free
    /\ IF bound["substitute"] # {} \/ LiveSubstitute
       THEN Answer(h, TRUE)
       ELSE Goto(h, "recall") /\ UNCHANGED verdict
    /\ UNCHANGED <<diskVars, cache, cacheLock, bindVars, codeVars, pageVars,
                   coreVars, callVars>>

\* The first read of cached, outside the lock.
Recall(h) ==
    /\ \/ pc[h] = "discover" /\ Kind[h] \in {"gum", "ellekit"}
       \/ pc[h] = "recall"
    /\ IF cache[Kind[h]] = "unknown"
       THEN Goto(h, "await") /\ UNCHANGED verdict
       ELSE Answer(h, cache[Kind[h]] = "yes")
    /\ UNCHANGED <<diskVars, cache, cacheLock, bindVars, codeVars, pageVars,
                   coreVars, callVars>>

AwaitCache(h) ==
    /\ pc[h] = "await"
    /\ cacheLock[Kind[h]] = Free
    /\ IF cache[Kind[h]] = "unknown"
       THEN cacheLock' = [cacheLock EXCEPT ![Kind[h]] = h] /\ Goto(h, "probe")
       ELSE Goto(h, "reread") /\ UNCHANGED cacheLock
    /\ UNCHANGED <<diskVars, cache, verdict, bindVars, codeVars, pageVars,
                   coreVars, callVars>>

\* Mutant: ElleKit's order of assignments in Gum's discovery.
ProvisionalEverywhere == Loaded

\* hk_platform_ellekit_discover assigns 0 before it looks at the files.
Provisional == {"ellekit"}

ClearCache(h) ==
    /\ pc[h] = "probe" /\ Kind[h] \in Provisional
    /\ cache[Kind[h]] = "unknown"
    /\ cache' = [cache EXCEPT ![Kind[h]] = "no"]
    /\ UNCHANGED <<diskVars, cacheLock, verdict, bindVars, codeVars, pageVars,
                   coreVars, callVars, pc>>

Probe(h) ==
    /\ pc[h] = "probe"
    /\ Kind[h] \in Provisional => cache[Kind[h]] = "no"
    /\ cache' = [cache EXCEPT ![Kind[h]] = IF OnDisk(Kind[h]) THEN "yes" ELSE "no"]
    /\ cacheLock' = [cacheLock EXCEPT ![Kind[h]] = Free]
    /\ Goto(h, "reread")
    /\ UNCHANGED <<diskVars, verdict, bindVars, codeVars, pageVars, coreVars,
                   callVars>>

\* return cached != 0, read again outside the lock.
Reread(h) ==
    /\ pc[h] = "reread"
    /\ Answer(h, cache[Kind[h]] # "no")
    /\ UNCHANGED <<diskVars, cache, cacheLock, bindVars, codeVars, pageVars,
                   coreVars, callVars>>

-----------------------------------------------------------------------------
(* Analysis and preparation.                                               *)

\* hk_inline_preflight: neither Dobby nor the relocator takes a window with
\* branches in it.
Relocatable(h) == \A i \in Parts : entry[Target[h]][i] \in {Code, Foreign}

\* ctx->validate.
Validates(h) == Kind[h] = "dobby" => h \notin OffMain /\ Relocatable(h)

Analyze(h) ==
    /\ pc[h] = "analyze"
    /\ Goto(h, IF h \in PolicyAny /\ 1 .. Expects[h] \subseteq Window(h) /\ Validates(h)
               THEN "validate" ELSE "noroute")
    /\ UNCHANGED <<diskVars, findVars, bindVars, codeVars, pageVars, coreVars,
                   callVars>>

PrepareFails(h) ==
    /\ Goto(h, "failed")
    /\ outcome' = [outcome EXCEPT ![h] = "FAILED_SAFE"]

AsExpected(h) == \A i \in 1 .. Expects[h] : entry[Target[h]][i] = Code

\* Preflight, the expected bytes, calloc.
Validate(h) ==
    /\ pc[h] = "validate"
    /\ \/ Validates(h) /\ AsExpected(h) /\ Goto(h, "inspect") /\ UNCHANGED outcome
       \/ (Validates(h) /\ AsExpected(h) => "malloc" \in Faults) /\ PrepareFails(h)
    /\ UNCHANGED <<diskVars, findVars, bindVars, codeVars, pageVars, lock, owner,
                   callVars>>

\* The entry is captured; Substitute's is read through Mach VM.
Inspect(h) ==
    /\ pc[h] = "inspect"
    /\ \/ /\ inspected' = [inspected EXCEPT ![h] = entry[Target[h]]]
          /\ Goto(h, IF Hybrid(h) THEN "relocate" ELSE "activate")
          /\ UNCHANGED outcome
       \/ /\ Kind[h] = "substitute" /\ "read" \in Faults
          /\ PrepareFails(h) /\ UNCHANGED inspected
    /\ UNCHANGED <<diskVars, findVars, bindVars, codeVars, page, body, lock,
                   owner, callVars>>

\* hk_reloc_prepare_continuation: the whole window, read anew.  On refusal it
\* gives back what it took.
Relocate(h) ==
    /\ pc[h] = "relocate"
    /\ \/ /\ Relocatable(h) /\ AsExpected(h)
          /\ \E mapping \in {"exec_alloc", "static_use"} :
                page' = [page EXCEPT ![h] = mapping]
          /\ body' = [body EXCEPT ![h] = entry[Target[h]]]
          /\ Goto(h, "activate")
          /\ UNCHANGED outcome
       \/ /\ Relocatable(h) /\ AsExpected(h) => "seam" \in Faults
          /\ PrepareFails(h) /\ UNCHANGED <<page, body>>
    /\ UNCHANGED <<diskVars, findVars, bindVars, codeVars, inspected, lock, owner,
                   callVars>>

\* The paths that the bindings try, in order.
Paths(k) ==
    CASE k = "gum" -> <<"HKGum">>
      [] k = "ellekit" -> <<"libellekit", "libhooker">>
      [] k = "substitute" -> <<"libsubstitute", "CydiaSubstrate">>

\* The vendor's functions that dlsym finds in the image i, if they suffice.
Functions(k, i) ==
    CASE k = "gum" ->
           IF Exports(i, "hkgum_hook_function") /\ Exports(i, "hkgum_transaction")
           THEN {"hkgum_hook_function"} ELSE {}
      [] k = "ellekit" ->
           IF Exports(i, "LHHookFunctions") /\ Exports(i, "EKHookFunction")
           THEN {"LHHookFunctions"} ELSE {}
      [] k = "substitute" ->
           {s \in {"substitute_hook_functions", "MSHookFunction", "SubHookFunction"} :
               Exports(i, s)}

\* What a handle to i gives the binding of k.
Bind(k, i) == {<<i, s>> : s \in Functions(k, i)}

\* Images whose symbols RTLD_DEFAULT gives to load_locked, whoever they are.
GlobalBinding ==
    {b \in global \X {"substitute_hook_functions", "MSHookFunction",
                      "SubHookFunction"} : Exports(b[1], b[2])}

\* Positions in Paths(k) that are opened when dlopen accepts the images in ok.
Opened(k, ok) ==
    {n \in 1 .. Len(Paths(k)) :
        /\ Paths(k)[n] \in ok
        /\ \A m \in 1 .. (n - 1) : Paths(k)[m] \in ok => Functions(k, Paths(k)[m]) = {}}

\* Mutant: only a usable image is reported.
ReportsUsableOnly(k, opened, usable) == usable # {}

\* Whether the binding reports the loading of images: an unusable one is
\* reported by Gum and ElleKit only.
Reports(k, opened, usable) ==
    usable # {} \/ (k # "substitute" /\ opened # {})

\* Mutant: the page outlives a refused activation.
ActivationFailsLeaks(h) == PrepareFails(h) /\ UNCHANGED page

ActivationFails(h) ==
    /\ PrepareFails(h)
    /\ page' = [page EXCEPT ![h] = "none"]

\* A page from the system or from the static pool is an effect.
PageEffect(h) == {page[h]} \ {"none"}

\* Preparation is done: the page counts as an effect of it.
Prepared(h, effects) ==
    /\ prepareEffects' = [prepareEffects EXCEPT ![h] = effects \cup PageEffect(h)]
    /\ Goto(h, "prepared")
    /\ outcome' = [outcome EXCEPT ![h] = "PREPARED"]
    /\ UNCHANGED page

\* The functions are bound already, or nothing has to be loaded.
ActivateNothing(h) ==
    /\ pc[h] = "activate"
    /\ Kind[h] \in Loaded => stateLock[Kind[h]] = Free /\ bound[Kind[h]] # {}
    /\ Prepared(h, {})
    /\ UNCHANGED <<diskVars, findVars, bound, stateLock, loads, codeVars,
                   inspected, body, lock, owner, callVars>>

\* hk_platform_substitute_load_locked finds functions that are loaded already.
ActivateGlobal(h) ==
    /\ pc[h] = "activate" /\ Kind[h] = "substitute"
    /\ stateLock["substitute"] = Free
    /\ bound["substitute"] = {}
    /\ GlobalBinding # {}
    /\ bound' = [bound EXCEPT !["substitute"] = GlobalBinding]
    /\ Prepared(h, Activation)
    /\ UNCHANGED <<diskVars, findVars, stateLock, loads, codeVars, inspected, body,
                   lock, owner, callVars>>

\* The paths are tried; dlopen may refuse an image that preflight accepted.
ActivateFromDisk(h, ok) ==
    LET k == Kind[h]
        opened == {Paths(k)[n] : n \in Opened(k, ok)}
        usable == {i \in opened : Functions(k, i) # {}}
    IN  /\ pc[h] = "activate" /\ k \in Loaded
        /\ stateLock[k] = Free
        /\ bound[k] = {}
        /\ k = "substitute" => GlobalBinding = {}
        /\ loads' = [loads EXCEPT ![h] = @ \cup opened]
        /\ bound' = [bound EXCEPT ![k] = UNION {Bind(k, i) : i \in usable}]
        /\ IF usable # {}
           THEN Prepared(h, IF Reports(k, opened, usable) THEN Activation ELSE {})
           ELSE /\ ActivationFails(h)
                /\ prepareEffects' = [prepareEffects EXCEPT ![h] =
                      IF Reports(k, opened, usable) THEN Activation ELSE {}]
        /\ UNCHANGED <<diskVars, findVars, stateLock, codeVars, inspected, body,
                       lock, owner, callVars>>

\* Sets of images that dlopen may accept.
Openable ==
    LET loadable == {i \in Images : "image" \in disk[i]}
    IN  IF "dlopen" \in Faults THEN SUBSET loadable ELSE {loadable}

-----------------------------------------------------------------------------
(* Commit.                                                                 *)

CommitConflict(h) ==
    /\ pc[h] = "prepared"
    /\ lock = Free
    /\ Target[h] \in owner
    /\ outcome' = [outcome EXCEPT ![h] = "CONFLICT"]
    /\ Goto(h, "done")
    /\ UNCHANGED <<diskVars, findVars, bindVars, codeVars, pageVars, lock, owner,
                   callVars>>

BeginCommit(h) ==
    /\ pc[h] = "prepared"
    /\ lock = Free
    /\ Target[h] \notin owner
    /\ lock' = h
    /\ Goto(h, "check")
    /\ UNCHANGED <<diskVars, findVars, bindVars, codeVars, pageVars, owner,
                   outcome, callVars>>

\* Mutant: the window is not compared with what was inspected.
UnchangedEntryUnchecked(h) == TRUE

UnchangedEntry(h) == \A i \in Window(h) : entry[Target[h]][i] = inspected[h][i]

\* Mutant: a continuation is published when the vendor has returned.
PublishedEarlyNever(h) == cell[h]

\* A hybrid original is complete before the vendor is called.
PublishedEarly(h) == IF Hybrid(h) THEN "page" ELSE cell[h]

Revalidate(h) ==
    /\ pc[h] = "check"
    /\ UnchangedEntry(h)
    /\ cell' = [cell EXCEPT ![h] = PublishedEarly(h)]
    /\ called' = [called EXCEPT ![h] = TRUE]
    /\ Goto(h, "call")
    /\ UNCHANGED <<diskVars, findVars, bindVars, codeVars, pageVars, coreVars,
                   commitEffects, result>>

RevalidateFails(h) ==
    /\ pc[h] = "check"
    /\ ~UnchangedEntry(h) \/ (Kind[h] = "substitute" /\ "read" \in Faults)
    /\ Goto(h, "finish")
    /\ UNCHANGED <<diskVars, findVars, bindVars, codeVars, pageVars, coreVars,
                   callVars>>

\* Gum and ElleKit are called under the binding's lock.
EnterVendor(h) ==
    /\ pc[h] = "call"
    /\ Kind[h] \in Loaded => stateLock[Kind[h]] = Free
    /\ stateLock' = IF Kind[h] \in {"gum", "ellekit"}
                    THEN [stateLock EXCEPT ![Kind[h]] = h] ELSE stateLock
    /\ Goto(h, "inside")
    /\ UNCHANGED <<diskVars, findVars, bound, loads, prepareEffects, codeVars,
                   pageVars, coreVars, callVars>>

\* The vendor stores its trampoline in the cell it was given.
VendorPublishes(h) ==
    /\ pc[h] = "inside"
    /\ Profile[Kind[h]].early
    /\ cell[h] = "none"
    /\ cell' = [cell EXCEPT ![h] = "vendor"]
    /\ UNCHANGED <<diskVars, findVars, bindVars, codeVars, pageVars, coreVars,
                   called, commitEffects, result, pc>>

Overwritten(h, n, w) ==
    [entry EXCEPT ![Target[h]] = [i \in Parts |-> IF i <= n THEN w ELSE @[i]]]

\* The vendor patches the entry, one or both parts of it.
VendorPatches(h, n) ==
    /\ pc[h] = "inside"
    /\ Profile[Kind[h]].early => cell[h] = "vendor"
    /\ entry' = Overwritten(h, n, h)
    /\ touched' = [touched EXCEPT ![h] = TRUE]
    /\ Goto(h, "returned")
    /\ UNCHANGED <<diskVars, findVars, bindVars, patches, pageVars, coreVars,
                   callVars>>

\* It fails, before or after it wrote, or reports success without an original.
VendorFails(h, n) ==
    /\ pc[h] = "inside"
    /\ \E w \in {h, Torn} : entry' = Overwritten(h, n, w)
    /\ touched' = [touched EXCEPT ![h] = n > 0]
    /\ Goto(h, "unsuccessful")
    /\ UNCHANGED <<diskVars, findVars, bindVars, patches, pageVars, coreVars,
                   callVars>>

\* Mutant: a return path that forgets the lock.
UnlockedNever(h) == stateLock

Unlocked(h) ==
    [k \in Loaded |-> IF stateLock[k] = h THEN Free ELSE stateLock[k]]

\* The page is an effect of the commit too, and so is a vendor's trampoline.
TrampolineEffect(h) == IF Hybrid(h) \/ cell[h] = "none" THEN {} ELSE {"exec_alloc"}

VendorReturns(h) ==
    /\ pc[h] = "returned"
    /\ stateLock' = Unlocked(h)
    /\ commitEffects' = [commitEffects EXCEPT ![h] =
          {"text"} \cup PageEffect(h) \cup TrampolineEffect(h) \cup
          IF Profile[Kind[h]].atCommit THEN {"activation", "unknown"} ELSE {}]
    /\ \E complete \in BOOLEAN :
          /\ ~complete => "record" \in Faults
          /\ result' = [result EXCEPT ![h] = IF complete THEN "COMPLETE" ELSE "UNKNOWN"]
    /\ Goto(h, "finish")
    /\ UNCHANGED <<diskVars, findVars, bound, loads, prepareEffects, codeVars,
                   pageVars, coreVars, called, cell>>

\* Mutant: a failed call counts as no mutation.
FailedCallOptimistic == "NONE"

\* "The provider's documented failure semantics permit a partial patch."
FailedCall == "UNKNOWN"

VendorReturnsFailure(h) ==
    /\ pc[h] = "unsuccessful"
    /\ stateLock' = Unlocked(h)
    /\ commitEffects' = [commitEffects EXCEPT ![h] = {"unknown"} \cup PageEffect(h)]
    /\ result' = [result EXCEPT ![h] = FailedCall]
    /\ Goto(h, "finish")
    /\ UNCHANGED <<diskVars, findVars, bound, loads, prepareEffects, codeVars,
                   pageVars, coreVars, called, cell>>

\* hk_plan_finish_commit_attempt, unlock.  The platform's bindings have no
\* readback: a provider's success is not verified.
FinishCommit(h) ==
    /\ pc[h] = "finish"
    /\ \E owned \in BOOLEAN :
          /\ ~owned => "owner" \in Faults
          /\ IF /\ result[h] = "COMPLETE"
                /\ commitEffects[h] \subseteq Profile[Kind[h]].commit
                /\ owned
             THEN /\ outcome' = [outcome EXCEPT ![h] = "ACTIVE"]
                  /\ owner' = owner \cup {Target[h]}
             ELSE /\ outcome' = [outcome EXCEPT ![h] =
                        IF result[h] = "NONE" THEN "FAILED_SAFE" ELSE "FAILED_UNKNOWN"]
                  /\ UNCHANGED owner
    /\ lock' = Free
    /\ Goto(h, "done")
    /\ UNCHANGED <<diskVars, findVars, bindVars, codeVars, pageVars, callVars>>

\* Mutant: only a successful commit keeps the continuation.
KeepsPageOnSuccess(h) == outcome[h] = "ACTIVE"

KeepsPage(h) == called[h]

\* provider_release, for a hook that was committed or for an abandoned plan.
Release(h) ==
    /\ pc[h] \in {"prepared", "done"}
    /\ page' = [page EXCEPT ![h] = IF KeepsPage(h) THEN @ ELSE "none"]
    /\ Goto(h, "released")
    /\ UNCHANGED <<diskVars, findVars, bindVars, codeVars, inspected, body,
                   coreVars, callVars>>

-----------------------------------------------------------------------------

Discover(h) ==
    \/ DiscoverDobby(h) \/ DiscoverLive(h) \/ Recall(h)
    \/ AwaitCache(h) \/ ClearCache(h) \/ Probe(h) \/ Reread(h)

Prepare(h) ==
    \/ Analyze(h) \/ Validate(h) \/ Inspect(h) \/ Relocate(h)
    \/ ActivateNothing(h) \/ ActivateGlobal(h)
    \/ \E ok \in Openable : ActivateFromDisk(h, ok)

Commit(h) ==
    \/ CommitConflict(h) \/ BeginCommit(h)
    \/ Revalidate(h) \/ RevalidateFails(h)
    \/ EnterVendor(h) \/ VendorPublishes(h)
    \/ \E n \in Parts : VendorPatches(h, n)
    \/ \E n \in 0 .. 2 : VendorFails(h, n)
    \/ VendorReturns(h) \/ VendorReturnsFailure(h)
    \/ FinishCommit(h)
    \/ Release(h)

Step(h) == Discover(h) \/ Prepare(h) \/ Commit(h)

Next ==
    \/ \E i \in Images : HostLoads(i)
    \/ \E t \in Targets, i \in Parts : ForeignPatch(t, i)
    \/ \E h \in Hooks : Step(h)

\* Some thread that can run runs.
Fairness == WF_vars(\E h \in Hooks : Step(h))

Spec == Init /\ [][Next]_vars /\ Fairness

-----------------------------------------------------------------------------

Stages == {"absent", "discover", "recall", "await", "probe", "reread", "analyze",
           "validate", "inspect", "relocate", "activate", "prepared", "check", "call",
           "inside", "returned", "unsuccessful", "finish", "done", "released",
           "noroute", "failed"}
Outcomes == {"REQUESTED", "PREPARED", "ACTIVE", "CONFLICT", "FAILED_SAFE",
             "FAILED_UNKNOWN"}
Effects == {"image_load", "activation", "unknown", "exec_alloc", "static_use", "text"}

\* Type invariant.
TypeOK ==
    /\ disk \in [Images -> SUBSET Symbols] /\ global \subseteq Images
    /\ cache \in [Loaded -> {"unknown", "no", "yes"}]
    /\ cacheLock \in [Loaded -> Hooks \cup {Free}]
    /\ bound \in [Loaded -> SUBSET (Images \X Symbols)]
    /\ stateLock \in [Loaded -> Hooks \cup {Free}]
    /\ entry \in [Targets -> [Parts -> Words]]
    /\ patches \in 0 .. ForeignWrites
    /\ lock \in Hooks \cup {Free} /\ owner \subseteq Targets
    /\ pc \in [Hooks -> Stages]
    /\ verdict \in [Hooks -> {"none", "available", "unavailable"}]
    /\ inspected \in [Hooks -> [Parts -> Words]]
    /\ body \in [Hooks -> [Parts -> Words]]
    /\ page \in [Hooks -> {"none", "exec_alloc", "static_use"}]
    /\ called \in [Hooks -> BOOLEAN]
    /\ cell \in [Hooks -> {"none", "page", "vendor"}]
    /\ prepareEffects \in [Hooks -> SUBSET Effects]
    /\ commitEffects \in [Hooks -> SUBSET Effects]
    /\ result \in [Hooks -> {"NONE", "COMPLETE", "UNKNOWN"}]
    /\ outcome \in [Hooks -> Outcomes]
    /\ loads \in [Hooks -> SUBSET Images] /\ touched \in [Hooks -> BOOLEAN]

\* Its own ABI is there, which the code takes as proof of Substitute from any
\* image, or a generic function of a Substitute or Cydia image.
SubstituteInstalled ==
    \/ \E i \in Images : "substitute_hook_functions" \in disk[i]
    \/ \E i \in {"libsubstitute", "CydiaSubstrate"} :
          disk[i] \cap {"MSHookFunction", "SubHookFunction"} # {}

\* hk_platform_gum_discover: "their preflight verdict cannot change while the
\* process runs, so memoize".  However threads race for the first answer, what
\* a memoized discovery tells Gum's users is what is on disk, and ElleKit, whose
\* cache holds a provisional "no" for a while, is never offered when it is absent.
\* hk_platform_substitute_discover: "otherwise a device with only ElleKit would
\* incorrectly advertise Substitute as available".  Substitute is offered only
\* where it is installed, whatever function an earlier preparation bound.
VerdictsMatchDisk ==
    \A h \in Hooks :
        /\ Kind[h] = "gum" /\ verdict[h] # "none" =>
              (verdict[h] = "available" <=> OnDisk("gum"))
        /\ Kind[h] = "ellekit" /\ verdict[h] = "available" => OnDisk("ellekit")
        /\ Kind[h] = "substitute" /\ verdict[h] = "available" =>
              SubstituteInstalled

\* hk_platform_gum_prepare: "A constructor may already have run, so report the
\* attempted image load/activation even though the ABI was unusable."  A
\* preparation that opened an image reports it, whichever path was refused,
\* and one that did not open the bound image does not run constructors again.
\* hk_hook_validate_commit_effects turns an undeclared effect into an UNKNOWN
\* mutation: no adapter does what its profile leaves out.
EffectsAccounted ==
    /\ \A h \in Hooks :
          /\ loads[h] # {} /\ Kind[h] # "substitute" =>
                Activation \subseteq prepareEffects[h]
          /\ prepareEffects[h] \subseteq Profile[Kind[h]].prepare
          /\ commitEffects[h] \subseteq Profile[Kind[h]].commit
    /\ \A g, h \in Hooks :
          Kind[g] = Kind[h] /\ g # h =>
              loads[g] \cap loads[h] \cap {b[1] : b \in bound[Kind[g]]} = {}

\* provider_release frees the continuation only while the vendor was not
\* called.  Where control may reach the replacement, its original stands; a
\* page is held only by a hook that is under way or was handed to the vendor.
\* HKProviderVtable.c: "A hybrid original is complete before this call."  An
\* entry that branches to a replacement that calls its original was patched
\* with the original in place, except where the vendor itself broke its word.
OriginalsStand ==
    /\ \A h \in Hooks : Hybrid(h) /\ touched[h] => page[h] # "none"
    /\ \A h \in Hooks : page[h] # "none" /\ ~called[h] =>
          pc[h] \in {"activate", "prepared", "check", "finish", "done"}
    /\ \A h \in WantsOriginal :
          h \in {entry[Target[h]][i] : i \in Parts} =>
              cell[h] # "none" \/ (Profile[Kind[h]].early /\ outcome[h] # "ACTIVE")

\* ARCHITECTURE.md, invariant 4: a hook reported as safely failed or refused
\* never reached the target, although the vendor's failures may tear it.
SafeMeansUntouched ==
    \A h \in Hooks :
        /\ outcome[h] \in {"FAILED_SAFE", "CONFLICT"} => ~touched[h]
        /\ outcome[h] = "ACTIVE" => touched[h]

\* HKProviderVtable.c: "Capture before activation and compare immediately
\* before the vendor call."  What a vendor's patch displaces is what was
\* inspected; only foreign code that came in between is lost.  HookKit's own
\* continuation executes it too, although its bytes are read a second time and
\* are not compared themselves: the comparison would miss an entry that changed
\* in between only if it changed back, and only a vendor that tears the entry
\* once more can do that.
DisplacedAsInspected ==
    [][\A h \in Hooks : touched'[h] /\ ~touched[h] =>
          \A i \in Window(h) :
              \/ entry[Target[h]][i] = Foreign
              \/ /\ entry[Target[h]][i] = inspected[h][i]
                 /\ Hybrid(h) => entry[Target[h]][i] \in {body[h][i], Torn}]_vars

\* Every request is answered: threads wait for caches, bindings and the
\* ownership lock in turn, but never for each other.
RequestsEnd ==
    <>(\A h \in Hooks : pc[h] \in {"absent", "noroute", "failed", "released"})

=============================================================================
