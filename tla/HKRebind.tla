------------------------------ MODULE HKRebind ------------------------------
(***************************************************************************)
(* Hooks on one imported symbol, installed by rewriting the import slots   *)
(* of every image in a hook's caller scope (HKRebindEngine.c and           *)
(* HKRebindVtable.c over the catalog), with the core's commit around it    *)
(* (HKPlan.c) and the writer it is given (hk_native_patch_pointer).        *)
(*                                                                         *)
(* Hooks belong to separate plans and threads.  Prepare reads slot after   *)
(* slot without a lock; commit holds the ownership lock and visits slot    *)
(* after slot.  Foreign code rewrites slots whenever it likes.  A slot     *)
(* holds a function: the symbol itself, a replacement, or Null for a weak  *)
(* import that is absent.  Each plan has its own runtime, whose catalog    *)
(* holds the images that were loaded when the runtime was created.         *)
(* Pointer signatures and addends are left out.                            *)
(***************************************************************************)
EXTENDS Naturals

CONSTANTS
    Slots,          \* addresses of import slots
    ImageCount,     \* images, in the order they are loaded
    ImageSlots,     \* [Images -> sets of slots]; images of the shared cache
                    \* may name the same slot
    TooLarge,       \* images with more than HK_REBIND_MAX_SITES sites
    Hooks,          \* replacement functions of the hooks
    Scope,          \* [Hooks -> sets of images]: caller_image_scope
    Keys,
    Key,            \* [Hooks -> Keys]: the canonical key, the scope is in it
    NeedsOriginal,  \* hooks whose original_requirement is not NONE
    Foreign,        \* replacement functions of foreign code
    Symbol,         \* the imported function
    Null,
    Faults          \* "record", "owner", "installed": allocations that fail;
                    \* "protect", "restore": the writer's system calls that do

Images == 1..ImageCount
Replacements == Hooks \cup Foreign
Functions == Replacements \cup {Symbol, Null}

ASSUME ImagesAssumption ==
    /\ ImageCount \in Nat
    /\ ImageSlots \in [Images -> SUBSET Slots]
    /\ TooLarge \subseteq Images
    /\ Null \notin Slots
ASSUME HooksAssumption ==
    /\ Hooks \cap Foreign = {}
    /\ {Symbol, Null} \cap Replacements = {} /\ Symbol # Null
    /\ Scope \in [Hooks -> SUBSET Images]
    /\ Key \in [Hooks -> Keys]
    /\ \A g, h \in Hooks : Key[g] = Key[h] <=> Scope[g] = Scope[h]
    /\ NeedsOriginal \subseteq Hooks
    /\ Faults \subseteq {"record", "owner", "installed", "protect", "restore"}

VARIABLES
    slot,       \* what each slot holds
    pc,         \* where the hook is
    bundle,     \* bundle[h][s]: the image whose plan has the site s, or 0
    toRead,     \* <<image, slot>> pairs that prepare has still to read
    captured,   \* the value read at each site
    found,      \* values read in the plans of the bundle
    lock,       \* holder of g_ownership_lock, or Null
    head,       \* head_replacement of the ledger's record for a key, or Null
    owned,      \* the head as looked up when the commit began
    at,         \* the site revalidated and about to be written
    written,    \* sites whose write returned COMPLETE
    state,      \* the mutation state the engine ends with
    recorded,   \* sites with an artifact
    original,   \* the original slot of a hook; of foreign code, what it replaced
    outcome,
    touched     \* ghost: sites the replacement was really stored in

prepareVars == <<bundle, toRead, captured, found>>
commitVars == <<owned, at, written, state, recorded, touched>>
coreVars == <<lock, head, original, outcome>>
vars == <<slot, pc, prepareVars, commitVars, coreVars>>

Init ==
    /\ \E v \in {Symbol, Null} : slot = [s \in Slots |-> v]
    /\ pc = [h \in Hooks |-> "idle"]
    /\ bundle = [h \in Hooks |-> [s \in Slots |-> 0]]
    /\ toRead = [h \in Hooks |-> {}]
    /\ found = [h \in Hooks |-> {}]
    /\ captured = [h \in Hooks |-> [s \in Slots |-> Null]]
    /\ lock = Null
    /\ head = [k \in Keys |-> Null]
    /\ owned = [h \in Hooks |-> Null]
    /\ at = [h \in Hooks |-> Null]
    /\ written = [h \in Hooks |-> {}]
    /\ state = [h \in Hooks |-> "NONE"]
    /\ recorded = [h \in Hooks |-> {}]
    /\ original = [r \in Replacements |-> Null]
    /\ outcome = [h \in Hooks |-> "ANALYZED"]
    /\ touched = [h \in Hooks |-> {}]

Sites(h) == {s \in Slots : bundle[h][s] # 0}

-----------------------------------------------------------------------------
(* The rest of the process.                                                *)

\* Foreign code exchanges a slot and goes on to what it found there; it leaves
\* an absent import alone.
ForeignRebind(f, s) ==
    /\ original[f] = Null
    /\ slot[s] # Null
    /\ slot' = [slot EXCEPT ![s] = f]
    /\ original' = [original EXCEPT ![f] = slot[s]]
    /\ UNCHANGED <<pc, prepareVars, commitVars, lock, head, outcome>>

-----------------------------------------------------------------------------
(* rebind_prepare_one_ctx_status: the catalog match and its visitor.       *)

\* n images were loaded when the hook's runtime was created.
Matching(h, n) == {i \in Scope[h] : i <= n}

\* The uses that the visitor comes by.
Uses(h, n) == {u \in Matching(h, n) \X Slots : u[2] \in ImageSlots[u[1]]}

\* Each slot is kept once, in the plan of the first image that names it.
Collected(h, n) ==
    [s \in Slots |->
        IF \A i \in Matching(h, n) : s \notin ImageSlots[i] THEN 0
        ELSE CHOOSE i \in Matching(h, n) :
                /\ s \in ImageSlots[i]
                /\ \A j \in Matching(h, n) : s \in ImageSlots[j] => i <= j]

\* An image has too many sites, or none imports the symbol.
PrepareRefused(h, n) ==
    /\ pc[h] = "idle"
    /\ Matching(h, n) \cap TooLarge # {} \/ Uses(h, n) = {}
    /\ pc' = [pc EXCEPT ![h] = "done"]
    /\ outcome' = [outcome EXCEPT ![h] = "FAILED_SAFE"]
    /\ UNCHANGED <<slot, prepareVars, commitVars, lock, head, original>>

PrepareBegin(h, n) ==
    /\ pc[h] = "idle"
    /\ Matching(h, n) \cap TooLarge = {}
    /\ Uses(h, n) # {}
    /\ bundle' = [bundle EXCEPT ![h] = Collected(h, n)]
    /\ toRead' = [toRead EXCEPT ![h] = Uses(h, n)]
    /\ pc' = [pc EXCEPT ![h] = "reading"]
    /\ UNCHANGED <<slot, captured, found, commitVars, coreVars>>

\* The plan of image i keeps a site.
InBundle(h, i) == \E s \in Slots : bundle[h][s] = i

\* add_site: images in catalog order, the slots of one in metadata order.  A
\* slot that an earlier plan keeps is read again; only its value counts.
ReadSite(h, u) ==
    /\ pc[h] = "reading"
    /\ u \in toRead[h]
    /\ \A v \in toRead[h] : u[1] <= v[1]
    /\ toRead' = [toRead EXCEPT ![h] = @ \ {u}]
    /\ captured' = IF bundle[h][u[2]] = u[1]
                   THEN [captured EXCEPT ![h][u[2]] = slot[u[2]]] ELSE captured
    /\ found' = IF InBundle(h, u[1])
                THEN [found EXCEPT ![h] = @ \cup {slot[u[2]]}] ELSE found
    /\ UNCHANGED <<slot, pc, bundle, commitVars, coreVars>>

\* originals_agree of the bundle.
OriginalsAgree(h) == \E v \in Functions : found[h] = {v}

\* Mutant: any site's original will do.
HasOriginalSomewhere(h) == found[h] # {Null}

\* One original for all the sites, and not NULL.
HasOriginal(h) == OriginalsAgree(h) /\ Null \notin found[h]

PrepareEnd(h) ==
    /\ pc[h] = "reading"
    /\ toRead[h] = {}
    /\ LET ok == h \in NeedsOriginal => HasOriginal(h)
       IN  /\ pc' = [pc EXCEPT ![h] = IF ok THEN "prepared" ELSE "done"]
           /\ outcome' = [outcome EXCEPT ![h] =
                             IF ok THEN "PREPARED" ELSE "FAILED_SAFE"]
    /\ UNCHANGED <<slot, prepareVars, commitVars, lock, head, original>>

-----------------------------------------------------------------------------
(* hk_plan_commit around rebind_commit_one_ctx and hk_rebind_commit.       *)

\* The engine chains on its own hooks, so an owned key is no conflict.
BeginCommit(h) ==
    /\ pc[h] = "prepared"
    /\ lock = Null
    /\ lock' = h
    /\ owned' = [owned EXCEPT ![h] = head[Key[h]]]
    /\ pc' = [pc EXCEPT ![h] = "site"]
    /\ UNCHANGED <<slot, prepareVars, at, written, state, recorded,
                   touched, head, original, outcome>>

Left(h) == Sites(h) \ written[h]

\* s may be the next site: its image comes before the others not finished yet.
Upcoming(h, s) ==
    /\ s \in Left(h)
    /\ \A t \in Left(h) : bundle[h][s] <= bundle[h][t]

\* The sites of the image s belongs to.
Alongside(h, s) == {t \in Sites(h) : bundle[h][t] = bundle[h][s]}

\* hk_rebind_commit checks the predecessor of all sites of an image before it
\* writes one of them.
PredecessorMatches(h, s) ==
    /\ owned[h] # Null
    /\ Alongside(h, s) \cap written[h] = {}
    => \A t \in Alongside(h, s) : captured[h][t] = owned[h]

\* Mutant: a refusal is clean whatever was written before.
StateOnRefusalClean(h) == "NONE"

\* A refusal is clean only while nothing has been written.
StateOnRefusal(h) == IF written[h] = {} THEN "NONE" ELSE "PARTIAL"

EngineEnds(h, m) ==
    /\ state' = [state EXCEPT ![h] = m]
    /\ pc' = [pc EXCEPT ![h] = "finish"]

\* Mutant: a site is not read again before it is written.
StillHoldsUnchecked(h, s) == TRUE

\* The slot holds what prepare read.
StillHolds(h, s) == slot[s] = captured[h][s]

RevalidateSite(h, s) ==
    /\ pc[h] = "site"
    /\ Upcoming(h, s)
    /\ PredecessorMatches(h, s)
    /\ StillHolds(h, s)
    /\ at' = [at EXCEPT ![h] = s]
    /\ pc' = [pc EXCEPT ![h] = "write"]
    /\ UNCHANGED <<slot, prepareVars, owned, written, state, recorded,
                   touched, coreVars>>

RefuseSite(h, s) ==
    /\ pc[h] = "site"
    /\ Upcoming(h, s)
    /\ ~(PredecessorMatches(h, s) /\ StillHolds(h, s))
    /\ EngineEnds(h, StateOnRefusal(h))
    /\ UNCHANGED <<slot, prepareVars, owned, at, written, recorded,
                   touched, coreVars>>

\* The store of hk_native_patch_pointer, and the artifact if there is memory.
Store(h) ==
    /\ slot' = [slot EXCEPT ![at[h]] = h]
    /\ touched' = [touched EXCEPT ![h] = @ \cup {at[h]}]
    /\ \/ recorded' = [recorded EXCEPT ![h] = @ \cup {at[h]}]
       \/ "record" \in Faults /\ UNCHANGED recorded

WriteSite(h) ==
    /\ pc[h] = "write"
    /\ Store(h)
    /\ written' = [written EXCEPT ![h] = @ \cup {at[h]}]
    /\ at' = [at EXCEPT ![h] = Null]
    /\ pc' = [pc EXCEPT ![h] = "site"]
    /\ UNCHANGED <<prepareVars, owned, state, coreVars>>

\* The page cannot be made writable: nothing is stored.
WriteRefused(h) ==
    /\ pc[h] = "write"
    /\ "protect" \in Faults
    /\ EngineEnds(h, StateOnRefusal(h))
    /\ UNCHANGED <<slot, prepareVars, owned, at, written, recorded,
                   touched, coreVars>>

\* The page's protection cannot be restored after the store.
WriteUncertain(h) ==
    /\ pc[h] = "write"
    /\ "restore" \in Faults
    /\ Store(h)
    /\ EngineEnds(h, "UNKNOWN")
    /\ UNCHANGED <<prepareVars, owned, at, written, coreVars>>

EngineCompletes(h) ==
    /\ pc[h] = "site"
    /\ Left(h) = {}
    /\ EngineEnds(h, "COMPLETE")
    /\ UNCHANGED <<slot, prepareVars, owned, at, written, recorded,
                   touched, coreVars>>

\* sink->published_original.
Published(h) ==
    IF state[h] = "COMPLETE" /\ OriginalsAgree(h)
    THEN CHOOSE v \in Functions : found[h] = {v} ELSE Null

\* Artifacts recorded, the owned predecessor published, the readback agrees.
Confirmed(h) ==
    /\ recorded[h] = touched[h]
    /\ owned[h] # Null => Published(h) = owned[h]
    /\ \A s \in Sites(h) : slot[s] = h

OutcomeOf(m) ==
    CASE m = "NONE"    -> "FAILED_SAFE"
      [] m = "PARTIAL" -> "FAILED_PARTIAL"
      [] OTHER         -> "FAILED_UNKNOWN"

\* hk_plan_commit after the dispatch, hk_plan_finish_commit_attempt, unlock.
FinishCommit(h) ==
    /\ pc[h] = "finish"
    /\ \E fault \in (Faults \cap {"owner", "installed"}) \cup {"none"} :
          /\ fault = "owner" => head[Key[h]] = Null
          /\ IF state[h] = "COMPLETE" /\ Confirmed(h) /\ fault # "owner"
             THEN /\ outcome' = [outcome EXCEPT ![h] = "ACTIVE"]
                  /\ head' = [head EXCEPT ![Key[h]] = h]
                  /\ original' = IF fault = "installed" THEN original
                                 ELSE [original EXCEPT ![h] = Published(h)]
             ELSE /\ outcome' = [outcome EXCEPT ![h] = OutcomeOf(state[h])]
                  /\ UNCHANGED <<head, original>>
    /\ lock' = Null
    /\ pc' = [pc EXCEPT ![h] = "done"]
    /\ UNCHANGED <<slot, prepareVars, commitVars>>

PrepareStep(h) ==
    \/ \E n \in 0..ImageCount : PrepareRefused(h, n) \/ PrepareBegin(h, n)
    \/ \E u \in Images \X Slots : ReadSite(h, u)
    \/ PrepareEnd(h)

CommitStep(h) ==
    \/ BeginCommit(h)
    \/ \E s \in Slots : RevalidateSite(h, s) \/ RefuseSite(h, s)
    \/ WriteSite(h)
    \/ WriteRefused(h)
    \/ WriteUncertain(h)
    \/ EngineCompletes(h)
    \/ FinishCommit(h)

Next ==
    \/ \E f \in Foreign, s \in Slots : ForeignRebind(f, s)
    \/ \E h \in Hooks : PrepareStep(h) \/ CommitStep(h)

Spec == Init /\ [][Next]_vars

-----------------------------------------------------------------------------

\* Type invariant.
TypeOK ==
    /\ slot \in [Slots -> Functions]
    /\ pc \in [Hooks -> {"idle", "reading", "prepared", "site", "write",
                         "finish", "done"}]
    /\ bundle \in [Hooks -> [Slots -> 0..ImageCount]]
    /\ toRead \in [Hooks -> SUBSET (Images \X Slots)]
    /\ captured \in [Hooks -> [Slots -> Functions]]
    /\ found \in [Hooks -> SUBSET Functions]
    /\ lock \in Hooks \cup {Null}
    /\ head \in [Keys -> Hooks \cup {Null}]
    /\ owned \in [Hooks -> Hooks \cup {Null}]
    /\ at \in [Hooks -> Slots \cup {Null}]
    /\ written \in [Hooks -> SUBSET Slots]
    /\ state \in [Hooks -> {"NONE", "COMPLETE", "PARTIAL", "UNKNOWN"}]
    /\ recorded \in [Hooks -> SUBSET Slots]
    /\ original \in [Replacements -> Functions]
    /\ outcome \in [Hooks -> {"ANALYZED", "PREPARED", "ACTIVE", "FAILED_SAFE",
                              "FAILED_PARTIAL", "FAILED_UNKNOWN"}]
    /\ touched \in [Hooks -> SUBSET Slots]

\* HKRebindEngine.h on the mutation states: a hook that failed safely was
\* stored nowhere, a partial one in some of its slots and not in all, an ACTIVE
\* one in every slot, each with its artifact, and nowhere else.
SlotsMatchOutcome ==
    \A h \in Hooks :
        /\ outcome[h] = "FAILED_SAFE" => touched[h] = {}
        /\ outcome[h] = "FAILED_PARTIAL" =>
              touched[h] # {} /\ touched[h] # Sites(h)
        /\ outcome[h] = "ACTIVE" =>
              touched[h] = Sites(h) /\ recorded[h] = Sites(h)
        /\ \A s \in Slots : slot[s] = h => s \in touched[h]

\* ARCHITECTURE.md, invariant 3: a slot is re-read right before it is written
\* and stale state is refused.  What the window between the two can still lose
\* is foreign work, never another hook's: a hook is stored only over what it
\* captured or over a foreign replacement.
OnlyForeignWorkLost ==
    [][\A h \in Hooks : \A s \in touched'[h] \ touched[h] :
          slot[s] = captured[h][s] \/ slot[s] \in Foreign]_vars

\* Functions a call that arrives at v can get to, each going on through the
\* original it was given.
Reach(given, v) ==
    {w \in Functions :
        \A S \in SUBSET Functions :
            /\ v \in S
            /\ \A r \in S \cap Replacements : given[r] # Null => given[r] \in S
            => w \in S}

\* b did not get the original its request asked for, and its result says so.
ReportedWithoutOriginal(b) ==
    /\ original[b] = Null
    /\ \/ outcome[b] \in {"FAILED_PARTIAL", "FAILED_UNKNOWN"}
       \/ b \notin NeedsOriginal
       \/ "installed" \in Faults

\* Overlapping scopes, chained keys, foreign rebinding and half-done commits
\* notwithstanding: when nobody is committing, a call through a slot of an
\* ACTIVE hook gets to the hook, unless it ends at a hook whose result says
\* that it has no original.  No ACTIVE hook silently bypasses another.
ChainBreaksReported ==
    lock = Null =>
        \A h \in Hooks : outcome[h] = "ACTIVE" =>
            \A s \in Sites(h) :
                \/ h \in Reach(original, slot[s])
                \/ \E b \in Reach(original, slot[s]) \cap Hooks : ReportedWithoutOriginal(b)

=============================================================================
