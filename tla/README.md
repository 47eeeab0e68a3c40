# HookKit in TLA+

HookKit 3 installs hooks (replacements of Objective-C methods, imported
functions, function entry points, Swift vtable slots, memory patches) inside a
running process.  A caller describes hooks in a *plan*; the plan is analyzed,
prepared and committed; hooks whose target does not exist yet wait in a queue
that the host drains.  Engines do the work behind a contract, and the core
reports per hook what was done.  This directory models the core and its engines
in TLA+, checks small instances with TLC and proves the main properties for
every instance with TLAPS.

Source paths are relative to the repository (`src/core/HKPlan.c` is
`src/src/core/HKPlan.c` in `PROJECT.json`).

## 1. Inventory

| component | state | operations | hard behaviour |
|---|---|---|---|
| plan lifecycle, `src/core/HKPlan.c` | plan state, domains, hooks with their result, prepared state and home; the runtime's pending queue | define domain, add hook, analyze, prepare, commit, release, drain | several hooks per call, each of which can fail in its own way; a domain is all or nothing at prepare; images load and other plans take targets between the calls, and while one runs |
| commit ordering, `HKPlan.c` `hk_build_commit_order` | local arrays | one function | shortcut and general selection must agree; dependencies against priorities |
| ownership ledger, `src/core/HKOwnership.c` | process-wide key -> (engine, head replacement, predecessor), one lock | key construction, lock, lookup, record | look-then-act across plans |
| installed records, `src/core/HKInstalled.c` | process-lifetime list of records with the original slot | create, load slot | when the slot becomes visible |
| Objective-C engine, `src/engines/HKObjCEngine.c`, `HKObjCVtable.c` | captured implementation per hook | prepare, commit, verify | inherited methods, chaining, concurrent commits, foreign swizzling |
| import rebinding, `src/engines/HKRebindEngine.c`, `HKRebindVtable.c` | sites per image with captured values | prepare over the catalog, commit site by site, verify | many slots for one hook: stale, failing and uncertain writes half way |
| inline engines, `HKInlineEngine.c`, `HKRelocInlineEngine.c`, their vtables, `HKStaticPool.c` | patch plan, continuation slot, a fixed pool | prepare, commit, verify, release | pool exhaustion, release after commit |
| memory and Swift engines | one location each | prepare, commit, verify | compare then write |
| provider adapters, `HKProviderVtable.c`, and their bindings in `HKRuntime.c` | memoized verdicts on the files, bound functions, inspected entry, continuation | discover, analyze, prepare, commit, release | vendors load constructors, fail half way and publish originals late; their answers are not trusted |
| runtime, `src/core/HKRuntime.c` | engines, policies, catalog, pending queue, artifacts | create, register, override, enumerate, route, release | which engine a request reaches on which platform, with which list of backends |
| image catalog and scopes, `HKImageCatalog.c`, `HKImageScope.c` | entries, generation | populate, match, check | filled once, compared later; selectors may contain themselves |
| artifact ledger and reports, `HKArtifactLedger.c`, `HKReport.c` | the call's, the runtime's and the process's records | record, append, snapshot, mark | what was done is never hidden, though any allocation may fail |
| resolvers, `src/resolvers/` | none (parsers) | Mach-O, chained fixups, export trie, symbols | malformed input |
| native patching, `src/native/` | pages being patched | write code, relocate | protection changes half way |
| legacy facade, `src/compatibility/` | queue of v1/v2 requests, a counter of ids | hook, queue, execute | threads queue while one installs; a live replacement uses a cell the call still writes |

Interactions.  The core calls an engine through its vtable
(`prepare_one_ctx_status`, `commit_one_ctx`, `verify_one_ctx`,
`release_prepared`, and group forms).  Commits of different plans meet in the
ownership ledger, whose lock is held around lookup, engine commit and record of
one hook.  The image catalog is shared by reading its generation.  Engines
write artifacts into a ledger the call owns, which the report adopts.  Nothing
runs on threads of HookKit's own: every interleaving is one of the callers'
threads, of foreign code, and of dyld and the Objective-C runtime.

## 2. Modules

| module | models |
|---|---|
| `HKCommitOrder` | the ranking of hooks: operators shared by the next two |
| `HKBuildOrder` | `hk_build_commit_order` as a loop over a plan given by Init |
| `HKPlan` | the life of a plan and its hooks, one action per hook visited |
| `ObjCMethods` | the Objective-C runtime behind the engine's seam (external) |
| `MethodChain` | abstract specification: what method hooking promises |
| `HKObjC` | the Objective-C engine, ledger and installed records, concurrently |
| `HKRebind` | the rebinding engine: one symbol, many slots, several hooks |
| `HKCodePatch` | inline (relocating, static, terminal) and memory engines, the static pool and the writer they share |
| `HKProvider` | the four provider adapters, their bindings and the core's commit around them, concurrently |
| `HKLegacy` | the compatibility facade: queue, batches, immediate calls, over an abstract plan |
| `HKImages` | selectors, the image catalog, the scope checks and the selector's part of ownership keys |
| `HKRouting` | descriptors, eligibility, the router, the registry and the backend lists |
| `HKRuntime` | a runtime over `HKRouting` and `HKImages`: one hook at a time from request to report, and the three ledgers |
| `*_proofs` | the theorems about the module of the same name |
| `MC*` | instances for TLC |

### HKPlan

Variables are the fields of the plan and of its hooks (`state`, `outcome`,
`mutation`, `imageGeneration`, `preparedState`), the process around it
(`generation`, `present`, `owner`), where each hook lives (`home`: the plan,
the runtime's queue, freed), and the locals of the call in progress.  `call`
names that call; while it is not `"none"` no other call on the plan begins, but
`TargetAppears` and `OtherConsumerInstalls` interleave with every step, because
neither is under the plan's control.  `CatalogGrows` happens between calls: the
catalog is not locked and a caller must not grow it under a running call.

Engines are what the engine contract says of them: each attempt is drawn from
the answers the core must handle (`PrepareAttempts`, `CommitAttempts`), each of
them a mutation state, whether the target was really changed, and what goes
wrong around the attempt.  An engine that lies about NONE or COMPLETE is outside
the contract and not modelled.  Two ghosts keep the truth: `live` counts the
prepared states the engine has handed out and not got back, `wrote` the targets
it has changed.

The steps of a commit are `CommitVisit` (skip, or pick the next hook of the
order), `CommitGrow` (one ownership lookup of the group selector each, with the
lock released again), `CommitGroup`, and for a single hook one of five actions
in the code's order of tests: preflight of its domain, staleness, dependencies,
conflict, dispatch.  The lookup, dispatch and record of a single hook are one
action because the code holds the ledger's lock from the first to the last.

### HKObjC and MethodChain

`MethodChain` says what a caller is promised: a replacement takes the place of
what the class responds with and gets exactly that as its original, in one
instant.  `HKObjC` is what the code does: prepare captures the implementation,
commit takes the lock, compares with the ledger's head and with the live method,
replaces, publishes, verifies, records.  Every hook belongs to a plan and thread
of its own; foreign code replaces methods without the lock, outside commits
(`Serialized`) or at any time.  `HKObjC` instantiates `MethodChain` with its own
`imp` and `original`; a hook appears in the chain at the step that replaces the
method.

### HKRebind

One imported symbol, several hooks on it, each in a plan and thread of its own.
Every runtime's catalog is a snapshot of the images loaded when it was created,
so a hook begins with a prefix of the images (`PrepareBegin(h, n)`).  Prepare
walks the images of the hook's scope in catalog order and reads each use of the
symbol without a lock (`ReadSite`); a slot that images of the shared cache share
is kept once, in the plan of the first image that names it, and read again for
the others.  Commit holds the ownership lock and visits the sites one by one:
the owned predecessor is compared for all sites of an image before the first of
them is written, each site is read again (`RevalidateSite`, `RefuseSite`) and
then written by `hk_native_patch_pointer`, which answers COMPLETE (`WriteSite`),
NONE (`WriteRefused`) or UNKNOWN (`WriteUncertain`).  `FinishCommit` is the
core's side: artifacts, published original, readback, ownership record, result.
Foreign code rewrites a slot at any time, in the window between the re-read and
the write too.  The ghost `touched` holds the slots really stored to.

### HKCodePatch

Four engines patch the same code: relocating inline (over a slot of the static
pool or an anonymous page), static inline (pool only), terminal inline and
memory.  Code is a set of words, each holding one instruction; instructions are
known by what the engines ask about them: a branch and where it goes, the end of
a function, a trap, one that cannot be relocated, any other.  Every hook has its
own plan and thread and walks through `pc`: idle, claimed, mapping, building,
built, prepared, then, under the ownership lock, check, write, remap and finish.
The pool's bitmap (`used`), the allocated pages (`mapped`), their protection
(`writable`) and contents (`body`) are shared and change without that lock, as in
`hk_static_pool_take`, `hk_platform_reloc_alloc` and `hk_platform_reloc_free`.

Preparation: `ClaimSlot` takes the nearest free slot under the pool's lock;
`KeepSlot` and `ReturnSlot` are the reach test and the unprotecting outside it,
so a slot out of reach is taken away from other threads for a moment; `MapPage`
is the fallback of the default engine; `BuildPage` reads the entry, judges it and
writes thunk and continuation; `SealPage` makes the page executable.  Every
refusal after the page was taken goes through `ReleaseAndFail`.

Commit: `Revalidate`, then the writer, either `WriteInPlace` or, when the kernel
refuses to make the page writable, `CopyPage` and `RemapPage`, which exchange all
VM pages the patch touches; each can fail before (`WriteRefused`) or after the
fact (`RemapFails`, a protection not restored).  `EngineEnds` makes the
continuation permanent for any answer but NONE, `EngineDeclines` gives it back.
`FinishCommit` is the core's side, `Release` the end of the plan, which frees the
page of a hook that was never activated.  A write of a few words is one step: the
hazard that a thread runs through a half-written patch is excluded by the engines,
which refuse entry patches longer than one aligned word, and not modelled.  The
words a failed remap leaves unmapped are not modelled either: the mapping
survives.  The ghost `stored` says whether the patch was really written.

### HKProvider

Each hook is a request of its own plan and thread, with a program counter from
`discover` to `released`.  What is installed on disk does not change; the host
may load an image with global visibility, foreign code may patch the entry.
Discovery has the code's double-checked memo step by step: the first read
outside the lock (`Recall`), the wait (`AwaitCache`), ElleKit's provisional "no"
(`ClearCache`), the probe and the last read outside the lock again (`Reread`);
Substitute first looks at symbols that are loaded already (`DiscoverLive`).
Preparation reads the entry three times (expected bytes, inspected window,
relocation), takes a page for the hybrid form, and activates: nothing to do, a
function that is already visible, or `dlopen` over the paths in order.  The commit
holds the ownership lock; between the comparison with the inspected window and
the return of the vendor the entry can change.  The vendor is external and does
what the adapter says it guards against: it publishes its original before it
patches (or never, for ElleKit), patches one or both parts, fails before or after
writing, or returns success without an original.  An entry has two parts, the first
instruction and the rest of the window.

### HKLegacy

`LoadCounter` and `BuildSpec` are the two halves of the unlocked increment;
`Enqueue` and `Execute` are critical sections of one lock; `Execute` only takes the
snapshot (`rest`).  `Loop` is one turn of `executeHooks` over it: a memory patch is
run at once in a plan of its own, any other operation is kept for the batch, one
plan for all, that follows.  Both go through the same phases as an immediate call:
runtime, plan, add, prepare, publish, commit, map, release; `RefuseMemory` is a memory
patch that ends before it has a spec.  `AddHooks` is the loop over `hk_plan_add_hook`:
it refuses an operation when one added before it has its stable id, which is the kind
and the number that `BuildSpec` gave it, or its target, and it may find no memory.  What differs is kept: a lone call clears
its cell first, gives up when the original was asked for and nothing was prepared,
and reports a commit without a report; a batch does none of this and keeps its
runtime when it gets no plan.  The plan is external here and answers what `HKPlan`
lets it answer; `live` is the ghost that says whether control can reach the
replacement.

### HKImages, HKRouting, HKRuntime

`HKImages` and `HKRouting` are functions of their arguments, translated from the C
functions of the same subject; recursion over selectors is a recursive function of
the levels left, as in the code.  `HKRuntime` holds the state: the images loaded,
the providers installed, a runtime with its engines in registration order (after
the backend list has filtered and sorted them) and its catalog, one hook with its
request, and the three ledgers.  A version keeps its width: a major number
above 429496 is refused and packing wraps at 2^32.  The registered engines are the ten
of `hk_runtime_register_platform_engines` with their declared reach, originals,
contexts, effects, architectures and first version.  A test may register two more:
one that produces an effect it does not declare and one that rebinds a single
image.  The steps of `Commit` are one action because one hook of one runtime is
enough for the questions asked here; `Report` and `AppendProcess` are two, since
other runtimes append to the process ledger in between.

## 3. Runs

| run | bounds | what it checks |
|---|---|---|
| `build_order` | 4 hooks, keys 0..1, all dependency graphs on earlier hooks, all prepared subsets | the finished array is the stable topological order, both loops; a commit is never refused for its order |
| `plan_domain` | 3 hooks, 1 gated domain, a deferred member, a dependent outside, 2 engines, 1 image load | results are honest, prepared states are released once, the plan's state matches its hooks and its count never wraps, a dependent follows its dependencies and stands on them, domains start whole |
| `plan_group` | 3 hooks, one grouping and compensating engine, allocation failures | honest results, the same balance and the same order with group answers, compensation and lost records |
| `plan_live` | 2 hooks, fairness | calls return; deferred hooks settle |
| `objc` | 2 classes, 4 hooks, 3 keys, 2 foreign patches | refinement of `MethodChain`, active hooks reachable through their slots |
| `objc_foreign` | 1 class, 3 hooks, 1 foreign patch at any time, allocation failures | chains start at the owner, every commit settles |
| `rebind` | 3 images sharing 2 slots, one too large; 3 hooks on 2 keys with overlapping scopes, 1 foreign rebinding, failing artifacts, protection and restoration | results match the slots really written, only foreign work can be lost in the window, a broken chain is always reported |
| `code_patch` | 2 words of one VM page; slots 14 and 40, pages 13 and 30 with a branch that reaches 4; three sets of 3 hooks out of 5 (two relocating, static, terminal, memory over both words); 1 foreign patch, 8 kinds of faults | whatever can be called stands, slots and pages are neither shared nor lost, results are true, only foreign work can be lost |
| `provider` | 12 cases of one or two out of 7 hooks (Dobby, 2 Gum, 2 ElleKit, 2 Substitute) on one entry, each with the images installed for it; 2 images the host may load, 1 foreign patch, failing `dlopen`, reads, pages and records | memoized verdicts, genuine Substitute, every load and effect reported and declared, continuations stand, originals first, failures told truthfully, what is displaced was inspected, every request ends |
| `legacy` | 5 sets of 2 or 3 operations out of 6 (a message, two hooks of one function, one of another, an unnamed function, a memory patch), 1 change of mode, every fault | no operation lost or run twice, originals of live replacements stay, refusals are safe, success is usable, runtimes released, accepted operations settle |
| `legacy_ids` | as `legacy` | a claim of a header the code does not meet (section 6) |
| `runtime` | 9 configurations of platform, version, context and backend list; 9 selectors, depth 2; 4 images of which one loads late and one is unreadable; a catalog with or without memory; 12 engines; 37 requests, 7 of them committed; 1 commit of this runtime, 1 of another | routing, backend lists, scopes, effects and the three ledgers |

Bounds.  Three hooks are enough for a domain with two members and a dependent
outside it, for a group of two followed by a single hook, and for a hook that
is failed by a later one; two engines for a conflict; one image load makes every
hook stale.  Four hooks in `build_order` let two chains of dependencies cross
with both ordering keys.  Two slots and three images give `rebind` a slot named
by two images, a commit that stops after its first slot, and two scopes that
share one slot; a failing ownership or installed record is left to the proofs
there, which assume nothing about the faults.  In `code_patch` word 11 reaches slot 14 and word 10 does not, so the
pool is exhausted, returned out of reach and used in the same run; two words on
one VM page are enough for the writer to exchange a neighbour; a failing
ownership or installed record is left to the proofs there too.
In `provider` two hooks are enough for every race on a memo, a binding or an
entry, and each case has the images that make it interesting: an image without
the functions, a placeholder before a real one, Substitute beside ElleKit; failing
allocations and ownership records, requests off the main thread and other
continuation policies are left out of the instance, they lead to the ends that other
faults reach as well.  In `legacy` two threads give every order of the counter's
two halves, and three operations a batch with a refused, an added and a separate
member.  In `runtime` the table holds 11 engines where the code has 16, so that the
built-in ten and a test's engine fill it, and depth 2 stands for 32; the versions
lie on both sides of the two floors the engines have, one cannot be read and one
wraps when it is packed.
`CHECK_DEADLOCK FALSE` in every cfg: when a runtime
is released, or all hooks are settled, nothing more happens.

Fairness.  `WF(CallStep)`: a call that has begun runs on, on its caller's
thread.  `WF(DrainBegin)`: the host calls `hk_runtime_drain_pending` at the
relevant class or load event (`docs/3.0/PUBLIC_C_ABI.md:557`); it need not come
at once.  `WF(CommitStep(h))` in `HKObjC`: a thread continues, and the mutex is
given to one of finitely many contenders, each of which asks once.
`WF(\E h : Step(h))` in `HKProvider`: some thread that can run does; no thread is
promised a turn of its own, the requests are finitely many.  In `HKLegacy`
`WF(Installer)`: the host goes on calling `executeHooks` as long as operations are
queued, as `HookKit.h` asks of it, and a call that has begun runs on;
`WF(BuildSpec(o) \/ Enqueue(o))`: a thread that has begun to queue finishes.  No
fairness is assumed of a request that was not made.  `HKRuntime` states none.

Mutants.  Every property of a passing run has a mutant in `PROJECT.json`, and one
made of several claims has one for each of them: a definition next to the real
one, marked `Mutant:`, that changes it the way a plausible bug would; TLC finds the
property violated with it.

Every type invariant is proved (section 4); `runtime` checks its own with TLC too.  `NoStaleWrite` of `HKObjC` is
proved and not checked by a run of its own.

## 4. Proofs

`HKPlan_proofs` proves for any number of hooks, domains, engines and images:

* `TypeCorrect`, `ResultsAreHonest`, `DependentsAlwaysFollow`,
  `DomainsStartWhole`, from one inductive invariant `IInv`.  `HonestResult` is
  not inductive: that a hook about to be attempted has not been written follows
  from where it is in the plan's life.  `IInv` adds `Phases` (which outcomes
  occur in which plan state), `Placement` (where a hook lives), `Drafted`,
  `Truthful` (outcome and mutation against `wrote`), `Visiting` (the hooks
  still to visit are the prepared ones), `DomainEntered` (a domain one of
  whose members was visited had passed its preflight) and `Ordered` (every prepared
  hook is still ahead of the commit, and none that it has passed, or has put in the
  group at hand, waits for one that is).
* `DependentsFollow` is more than the test before a write: it speaks of every later
  state of the plan.  `Ordered` says that a dependency met by the test can no longer
  change in this commit, because a group takes no hook that waits for another;
  `ActiveStays` that no later call takes ACTIVE away, a second prepare or commit after
  an OUT_OF_MEMORY included; `ReleasedForGood` that this lasts until release.
* `PreparationsReleasedOnce`, under `"stranded" \notin Faults`, from `IInv`,
  `Unprepared` (a hook without outcome PREPARED in a phase before it holds
  nothing) and the balance itself.
* `StateMatchesHooks`, under `"oom" \notin Faults`: the state a call ends in
  agrees with the outcomes of its hooks and the counter it is derived from never
  wraps.  The counters are locals that a failing domain takes back from, so
  `RollupMatchesHooks` is strengthened to `Counted`: during a prepare `succeeded`
  is the number of prepared hooks, a hook before the cursor has been decided, and
  during a commit every prepared hook is still to be visited.  The hypothesis is
  needed: after an OUT_OF_MEMORY a second prepare meets hooks that the first one
  prepared and subtracts what it never counted (section 6).

`HKBuildOrder_proofs` rests on lemmas about `HKCommitOrder`: a nonempty set of hooks
whose dependencies point to earlier hooks always has a selectable one
(`SelectionNeverDry`, by the least element of a set of naturals) and the
selection is unique (`BestIsLeast`).  `HKPlan_proofs` has those that it needs.

`HKObjC_proofs` has both levels.  About the abstract one: no patch is ever lost
(`NeverLost`) and each has its original once it is live (`LiveHasOriginal`), for
every class hierarchy; reachability is a closure, so the argument needs no
induction over chains.  About the engine: the refinement under `Serialized`: while
a hook is between revalidation and replacement it holds the lock, nobody else
writes, so what it captured is what the class responds with.  With it the abstract
promises hold of the methods the engine patches (`ChainPromises`).  `ChainsOnOwner`
needs no such assumption: the core's comparison of the published original with the
owned predecessor is enough.  `ActiveReachable` joins the three records of a chain
(methods, original slots, ledger heads): from `SlotsPublished` (a written hook is
confirmed and its slot is its original, a failed one has none) and `HeadsLead` (the
ledger's head for a key leads to every active hook of it).  Its hypotheses are
`Serialized` and `Faults = {}`: foreign code that adds an override while a commit
runs leaves the chain, and a hook whose record finds no memory stays in it without
a slot.

`HKRebind_proofs` proves for every set of slots, images, scopes, hooks and faults
that the type is kept, that `SlotsMatchOutcome` holds (a hook's result says
where its replacement was really stored) and that the window between re-read
and write loses only foreign work.  A result is decided long after the stores,
so `SlotsMatchOutcome` is not inductive; the invariant adds `Holding` (only the
lock's holder is between the begin and the end of a commit), `AtSite` (the slot
about to be written is the hook's, unwritten, and holds what was captured or a
foreign function: no other hook can have come in between), `Stored` (what the
engine counts as written is what was stored, and the mutation state it ends with
tells NONE, some and all apart) and `Undecided` (no result before the end).
`ChainBreaksTold` proves that a slot of an ACTIVE hook leads to its replacement, or
ends at foreign code or at a hook that said it has no original.  A commit writes its
slots long before it publishes its original, so for a while a slot leads to a hook
from which nothing leads on; `ChainKept` follows both what is in the slot and what
the committing hook captured there, `ReadsKept` ties each captured value to the set
from which the original is taken, `OriginalsLate` says when an original appears.

`HKCodePatch_proofs` proves the type and all four properties of `HKCodePatch` for every code
memory, pool, reach, set of hooks of the four kinds, foreign patches and faults.
`CallablePagesStand` needs to know why a page that can be called is not given
back: a word that branches into a slot or page was patched by a hook that is
*activated* and holds that page (`BranchesGrounded`, for the writer's private
copy too, because a remap puts old words back), an activated hook keeps its page
(`Paged`), pages taken and pages held are the same and each is held once
(`Balanced`), the page of a prepared or activated hook is sealed and built for it
(`Built`), and every store is preceded by what makes it permanent (`Activation`).
`Window` (what can be in a hook's words between revalidation and write) gives the
action property.  The assumptions are those of the module: addresses are
integers, slots, pages and code are disjoint, regions lie in the code, and
neither foreign code nor the bytes of a memory patch contain a branch into a
continuation.

`HKProvider_proofs` proves the type, all four invariants and the action property of
`HKProvider` for every set of hooks of the four adapters, images on disk, targets and
faults.  `Inv` has `CommitsExclude` (one commit at a time), `CallAccounted` (how far
a hook has come decides what the vendor may have done and which result can stand for
it), `PagesHeld` (when a hybrid hook has its page, and that it stays in the cell once
the vendor was called), `EntriesAccounted` (who can have written what is in an entry,
or what was seen there), `CachesTrue` (what a memo and a binding say of the files,
and who relies on it) and `LoadsAccounted` (which images an activation loaded in
vain).  Looking for the proof of `DisplacedAsInspected` showed that its first form
was too strong for vendors that tear an entry: see section 6.

`HKLegacy_proofs` proves the type and the three invariants of `HKLegacy` for any set
of operations.  `Inv` has `PlacesDisjoint` (an accepted operation waits in one place
once, or is in the plan at hand), `PhasesKept` (what each phase of the installing
thread holds), `SettledOnce` (an operation is settled exactly when it has left these
places) and `LiveAccounted` (a replacement becomes reachable in a commit, with the
original published before it in its cell).

`HKRuntime_proofs` proves the type, the four invariants and two of the three action
properties of `HKRuntime` for every platform, backend list, set of images, selectors
and requests, and every engine that a test may register.  `IInv` has `RuntimeKept`
(a runtime's table has no engine too many, says which are a test's, and holds the
relocating engine before the static one unless the host pinned an order; its
catalog has loaded images only), `HookKept` (the fields a hook has in each stage),
`RouteKept` (the engine a hook is routed to was eligible, and the scope was checked
before the hook was prepared), `LedgerKept` (each shared ledger holds each commit
whole or not at all, and the commit under way in none before its turn) and
`EffectsKept` (result, ledger and what was done agree).

The loops of the code are recursive functions of the turns made, so most of the
module says what they compute.  `LoopExists` shows that such a function exists,
`Counting` is the induction, over the least turn that breaks a claim, and each loop
has a lemma of its own: `RouteBest` (after each turn the candidate beats every
eligible engine seen), `VersionsCompare` (a version whose one number reaches
the floor of an engine of the library is not an earlier version part by part),
`CatalogLoaded`, `MatchesNamed` (an image that a nested set matches is one that a
leaf below it names), `CommitMakes`, `CopiedCollects` and `KeysTell` (the key of a set
that can be copied is the set of its leaves' keys).  The assumptions are those of
the three modules: the table has room for the library's ten engines, tests name
theirs differently, image bounds and addresses are naturals, effects and reaches
are finite sets, and the processor is one that
`hk_runtime_platform_architecture` names.

Only model-checked: the liveness properties of every module (fairness is out of the
prover's reach), the refuted `QueuedHooksRun`, and `PinsAreHonoured` of `HKRuntime`.
The last compares the route of a pinned list with the one of the automatic order
over a second table, built with `SelectSeq` and `FoldLeft`, of which the prover has
no facts.

## 5. What is not modelled

* Resolvers (`src/resolvers/`, `hk_symbols.c`): parsers over the bytes of an image
  without state.  What can go wrong in them is a bound of an offset, and a model
  over a handful of bytes would be a transliteration that shows nothing of it.
* Instruction encoding and relocation (`hk_arm64.c`): `HKCodePatch` knows
  instructions by class only.
* The Swift engine and Swift metadata: one pointer is written by the writer that
  `HKRebind` models; `hk_plan_add_swift_hook` and `hk_legacy_hook_swift` with it.
* In the legacy facade: image handles, symbol lookup, the list of types and the old
  module classes (`HKLegacyModules.m`), which translate arguments.
* Identifiers (`HKIDs.c`), of which only distinctness is used.
* The content of artifacts beyond commit, effect and state; the text of diagnostics.
* Pointer authentication; the Objective-C and Swift runtimes, dyld, the vendors'
  libraries and the Mach VM beyond the seams the code calls through.

## 6. Where code and documentation disagree

`legacy_ids` ends in a violation on purpose: `hk_legacy_spec_counter`
(`HKLegacyFacade.c:238`) is incremented by every queuing thread without a lock, so
two threads that queue functions at once can both get `legacy-function-1` (two that
queue messages, `legacy-objc-1`).  The plan compares whole ids (`HKPlan.c:852`) and
refuses the second, on another target, where `HookKit.h:109` says that every queued
hook runs exactly once.  A message and a function with one number do not collide.

Found with the models, without a run of their own:

* A domain's preflight (`HKPlan.c:2077`) does not look at ownership, which
  ARCHITECTURE.md's third invariant asks to be revalidated; a conflict is met hook
  by hook, after other members were installed.
* `hk_runtime_drain_pending` (`HKPlan.c:1238`) installs a hook whose dependency
  failed: `commit_after` is not looked at on a retry.
* The ownership lookups of a group and its callback are under two separate holds of
  the lock (`HKPlan.c:2166`), so a target can be taken in between.
* The original slot of an Objective-C hook is filled after the replacement is
  reachable (`HKObjCVtable.c:102`), against ARCHITECTURE.md's fifth invariant.
* `hk_platform_ellekit_discover` stores "unavailable" before it reads the files
  (`HKRuntime.c:309`) and the memo is read outside the lock: a second thread may be
  told that an installed ElleKit is absent, where the comment above says the memo is
  "for the same reason as hk_platform_gum_discover".  `VerdictsMatchDisk` states
  what remains true.
* `hk_platform_substitute_load_locked` (`HKRuntime.c:419`) binds a global
  `MSHookFunction` from any image, while discovery is careful to ask where it comes
  from; and an image it opens and cannot use is not reported as loaded, where Gum
  and ElleKit report it.  `EffectsAccounted` leaves Substitute out for that reason.
* A batch whose plan cannot be created (`HKLegacyFacade.c:317`) returns without
  releasing its runtime; `CallsEndCleanly` counts these apart.
* `executeHooks` installs memory patches before the rest of the snapshot, where
  `HookKit.h:141` says "in submission order"; a batch does not look at the status of
  its commit; and an early-published `old_ptr` stays written when the commit ends
  PARTIAL or UNKNOWN, as `HKLegacyFacade.c` wants and `HookKit.h:395` ("written only
  for the operations that succeeded") does not.
* An immediate hook call sets the caller's cell to NULL before anything else
  (`HKLegacyFacade.c:151`, `:415`, `:438`), and so it is NULL after a refusal, where
  `HookKit.h:171` says of HK_ERR_NOT_SUPPORTED that "the caller's old_ptr is
  untouched".  `map_result` clears it too, in a batch as well, when
  nothing was changed (`:40`).
* `HK_CONTINUATION_FORBIDDEN` reaches engines that relocate or take a static slot
  (`hk_effective_constraints` adds nothing for it), where PUBLIC_C_ABI.md says "no
  relocated stub, static continuation slot"; only a request for a callable original
  is refused.  `HK_FORBID_UNKNOWN_PREPARATION_EFFECTS` and
  `HK_FORBID_LATE_IMAGE_CALLBACK` are declared and read nowhere.
* The comment at `HKRelocInlineVtable.c:231` says that static continuations can be
  refused "without refusing dynamic ones"; the relocating engine declares the use of
  static slots too, so that ban takes both away.
* The runtime never sets the memory engine's image base (`HKRuntime.c:1229`): an
  image-relative memory target is resolved against 0, and then refused or not by
  the scope check.
* Providers never check `expected_image`: they claim no exact scope, and a request
  that does not require it is served without a look at the image it names.
* The hybrid adapter reads the entry twice, once for the window that the commit
  compares (`HKProviderVtable.c:380`) and once to build its continuation (`:389`),
  and never compares the two: when the entry changed between these reads and changed
  back, the continuation executes other instructions than the patch displaces.  Only
  a vendor's failure that tears an entry a second time can do that, so
  `DisplacedAsInspected` allows for exactly this case.
* An explicit set of one selector and that selector have different ownership keys,
  although they name the same images.

Smaller ones: a group prepare callback that
allocates a state and then returns false leaks it, because `HKPlan.c:1699`
overwrites the pointer before it is inspected, against the comment at
`HKPlan.c:1575` (the fault `"stranded"` of `HKPlan`); when the report of a commit
or drain cannot be allocated the artifacts of targets already changed are
dropped (`HKPlan.c:2629`, `:1414`); the stale path of prepare counts a hook as
failed but not attempted, so a plan whose hooks are all stale rolls up to
PARTIAL (`HKPlan.c:1798`); after an OUT_OF_MEMORY in the middle of prepare a
second prepare on the same plan meets hooks that are PREPARED already, which the
comment at `HKPlan.c:1834` takes to be unreachable, and a domain that then fails
subtracts members this call never counted; foreign code that adds an override
of an inherited method during a commit is not in the chain of the new hook.

## 7. Plan

Done: the ordering, the plan lifecycle, the Objective-C engine with its ledger, the
rebinding engine, the inline and memory engines over the static pool, the provider
adapters, the runtime with routing, catalog and ledgers, the legacy facade.
Next, in this order:

1. `PinsAreHonoured`: what a pinned list leaves of the table as a recursive function
   like the other loops, and the proof that the automatic route stays the best.
2. `HKArm64`: relocation and branch emission of `hk_arm64.c` as operators over
   decoded instructions, checked against a reference meaning (what the moved
   instruction does from its new address).
3. `HKPlan` composed with `HKRouting` through `Analyze`'s choice of routed hooks.
