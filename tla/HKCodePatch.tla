---------------------------- MODULE HKCodePatch ----------------------------
(***************************************************************************)
(* The engines that patch code: relocating inline over anonymous pages or  *)
(* the static pool (HKRelocInlineEngine.c, HKStaticPool.c and the seams in *)
(* HKRuntime.c), terminal inline (HKInlineEngine.c) and the memory engine  *)
(* (HKMemoryEngine.c), with the writer they share (hk_native.c) and the    *)
(* core's commit around them (HKPlan.c).                                   *)
(*                                                                         *)
(* Hooks belong to separate plans and threads.  Prepare runs without the   *)
(* ownership lock, commit under it.  Code memory is a sequence of words; a *)
(* word holds one instruction.  A copy of a few words is one step.  Only   *)
(* patches of one word are installed at an entry, because the platform's   *)
(* engines have allow_non_atomic_entry_patch = false; a longer one fails   *)
(* in the end whatever the preflight of its words says.                    *)
(***************************************************************************)
EXTENDS Integers

CONSTANTS
    Words,          \* addresses of the code words, one unit apart
    Initial,        \* [Words -> Instructions]: the code as loaded
    VMPages,        \* a partition of Words: what the writer protects at once
    Slots,          \* addresses of the static pool's slots
    Anonymous,      \* addresses where vm_allocate may place a page
    Range,          \* reach of the 4-byte branch B
    Hooks,
    Requests,       \* sets of hooks that the process may ask for
    Kind,           \* [Hooks -> Kinds]: the engine that was matched
    Target,         \* [Hooks -> Words]
    Size,           \* [Hooks -> Nat]: words of a memory patch; 1 at an entry
    Bytes,          \* replacement_bytes of the memory patches
    Replacement,    \* [Hooks -> Int]: address of the replacement function
    Expected,       \* [Hooks -> SUBSET Instructions]: expected bytes and mask
    NeedsOriginal,  \* hooks whose original_requirement is not NONE
    Misplaced,      \* hooks on an address that is misaligned or outside the
                    \* image the request names
    ForeignCode,    \* instructions that foreign code may write
    Faults          \* what may fail, see below

Backing == Slots \cup Anonymous
Kinds == {"relocating", "static", "terminal", "memory"}

\* A branch B with its destination; an instruction that ends a function
\* otherwise, that traps, that cannot be relocated; any other.
Instructions == [op : {"b", "ret", "trap", "fixed", "plain"}, to : Int]
Branch(a) == [op |-> "b", to |-> a]
Zero == [op |-> "trap", to |-> 0]

Region(h) == Target[h] .. (Target[h] + Size[h] - 1)

\* Hooks that keep a continuation.
Relocating == {h \in Hooks : Kind[h] \in {"relocating", "static"}}

\* The ownership key: target kind and address, for memory the size too.
Key(h) == <<Kind[h] = "memory", Target[h], Size[h]>>
Keys == {Key(h) : h \in Hooks}

ASSUME MemoryAssumption ==
    /\ Words \subseteq Int
    /\ Initial \in [Words -> Instructions]
    /\ VMPages \subseteq SUBSET Words
    /\ \A w \in Words : \E v \in VMPages : w \in v
    /\ Backing \subseteq Int /\ 0 \notin Backing
    /\ Slots \cap Anonymous = {} /\ Words \cap Backing = {}
    /\ Range \in Nat
ASSUME HooksAssumption ==
    /\ "free" \notin Hooks
    /\ Requests \subseteq SUBSET Hooks
    /\ Kind \in [Hooks -> Kinds]
    /\ Target \in [Hooks -> Words]
    /\ Size \in [Hooks -> Nat \ {0}]
    /\ \A h \in Hooks : Kind[h] # "memory" => Size[h] = 1
    /\ \A h \in Hooks : Region(h) \subseteq Words
    /\ Replacement \in [Hooks -> Int \ Backing]
    /\ \A h \in Hooks : Kind[h] = "memory" =>
          Bytes[h] \in [Region(h) -> {i \in Instructions : i.to \notin Backing}]
    /\ Expected \in [Hooks -> SUBSET Instructions]
    /\ NeedsOriginal \subseteq Hooks /\ Misplaced \subseteq Hooks
    /\ Faults \subseteq {"malloc", "unprotect", "map", "seal", "protect",
                         "restore", "remap", "record", "owner", "installed"}
ASSUME ForeignAssumption ==
    /\ ForeignCode \subseteq Instructions
    /\ \A i \in ForeignCode : i.to \notin Backing
    /\ \A w \in Words : Initial[w].to \notin Backing

VARIABLES
    code,       \* what each code word holds
    foreign,    \* foreign instructions not written yet
    pc,         \* where the hook is
    page,       \* plan->trampoline, or 0
    used,       \* slots whose bit is set in the pool's bitmap
    mapped,     \* anonymous pages allocated
    writable,   \* slots and pages that are R-W; the others are R-X
    body,       \* what was last built in each slot or page
    captured,   \* plan->original
    lock,       \* holder of g_ownership_lock, or "free"
    owner,      \* keys with a record in the ledger
    copy,       \* the writer's private copy of the VM pages it patches
    activated,  \* plan->activated
    state,      \* the mutation state the engine ends with
    recorded,   \* the artifacts could be recorded
    slot,       \* the process-lifetime original slot: the continuation, or 0
    outcome,
    stored      \* ghost: the patch was really written

poolVars == <<used, mapped, writable, body>>
coreVars == <<lock, owner, slot, outcome>>
commitVars == <<copy, activated, state, recorded, stored>>
vars == <<code, foreign, pc, page, captured, poolVars, coreVars, commitVars>>

\* A continuation page: the thunk's destination, the displaced instruction and
\* the word that the jump back goes to.
Bodies == [thunk : Int, displaced : Instructions, resume : Int]
Unbuilt == [thunk |-> 0, displaced |-> Zero, resume |-> 0]

Init ==
    /\ code = Initial
    /\ foreign = ForeignCode
    /\ \E asked \in Requests :
          pc = [h \in Hooks |-> IF h \in asked THEN "idle" ELSE "absent"]
    /\ page = [h \in Hooks |-> 0]
    /\ used = {} /\ mapped = {} /\ writable = {}
    /\ body = [p \in Backing |-> Unbuilt]
    /\ captured = [h \in Hooks |-> [w \in Words |-> Zero]]
    /\ lock = "free"
    /\ owner = {}
    /\ copy = [w \in Words |-> Zero]
    /\ activated = [h \in Hooks |-> FALSE]
    /\ state = [h \in Hooks |-> "NONE"]
    /\ recorded = [h \in Hooks |-> FALSE]
    /\ slot = [h \in Hooks |-> 0]
    /\ outcome = [h \in Hooks |-> "ANALYZED"]
    /\ stored = [h \in Hooks |-> FALSE]

-----------------------------------------------------------------------------

\* Foreign code patches a word, without any of HookKit's locks.
ForeignPatch(w, i) ==
    /\ i \in foreign
    /\ code' = [code EXCEPT ![w] = i]
    /\ foreign' = foreign \ {i}
    /\ UNCHANGED <<pc, page, captured, poolVars, coreVars, commitVars>>

-----------------------------------------------------------------------------
(* Preparation.                                                            *)

\* hk_arm64_branch_size is 4.
InReach(from, to) == -Range <= to - from /\ to - from < Range

Fail(h) ==
    /\ pc' = [pc EXCEPT ![h] = "failed"]
    /\ outcome' = [outcome EXCEPT ![h] = "FAILED_SAFE"]

\* hk_platform_reloc_free: a slot goes back to the bitmap as it is, a page to
\* the system.
FreePage(h) ==
    /\ used' = used \ {page[h]}
    /\ mapped' = mapped \ {page[h]}
    /\ page' = [page EXCEPT ![h] = 0]

\* Image scope, alignment, what the terminal engine cannot give, malloc.
PrepareRefused(h) ==
    /\ pc[h] = "idle"
    /\ \/ h \in Misplaced
       \/ Kind[h] = "terminal" /\ h \in NeedsOriginal
       \/ "malloc" \in Faults
    /\ Fail(h)
    /\ UNCHANGED <<code, foreign, page, captured, poolVars, lock, owner, slot,
                   commitVars>>

\* hk_static_pool_claim under the pool's lock: the nearest free slot.
Distance(a, b) == IF a > b THEN a - b ELSE b - a
Nearest(w) == {s \in Slots \ used :
                  \A t \in Slots \ used :
                      \/ Distance(s, w) < Distance(t, w)
                      \/ Distance(s, w) = Distance(t, w) /\ s <= t}

ClaimSlot(h, s) ==
    /\ pc[h] = "idle"
    /\ h \in Relocating \ Misplaced
    /\ s \in Nearest(Target[h])
    /\ used' = used \cup {s}
    /\ page' = [page EXCEPT ![h] = s]
    /\ pc' = [pc EXCEPT ![h] = "claimed"]
    /\ UNCHANGED <<code, foreign, captured, mapped, writable, body, coreVars,
                   commitVars>>

\* The pool is exhausted.  Only the default engine has another source.
NoSlot(h) ==
    /\ pc[h] = "idle"
    /\ h \in Relocating \ Misplaced
    /\ Slots \subseteq used
    /\ IF Kind[h] = "relocating"
       THEN pc' = [pc EXCEPT ![h] = "mapping"] /\ UNCHANGED outcome
       ELSE Fail(h)
    /\ UNCHANGED <<code, foreign, page, captured, poolVars, lock, owner, slot,
                   commitVars>>

\* hk_static_pool_take after the claim: the default engine insists on reach.
KeepSlot(h) ==
    /\ pc[h] = "claimed"
    /\ Kind[h] = "relocating" => InReach(Target[h], page[h])
    /\ writable' = writable \cup {page[h]}
    /\ pc' = [pc EXCEPT ![h] = "building"]
    /\ UNCHANGED <<code, foreign, page, captured, used, mapped, body, coreVars,
                   commitVars>>

ReturnSlot(h) ==
    /\ pc[h] = "claimed"
    /\ \/ Kind[h] = "relocating" /\ ~InReach(Target[h], page[h])
       \/ "unprotect" \in Faults
    /\ FreePage(h)
    /\ IF Kind[h] = "relocating"
       THEN pc' = [pc EXCEPT ![h] = "mapping"] /\ UNCHANGED outcome
       ELSE Fail(h)
    /\ UNCHANGED <<code, foreign, captured, writable, body, lock, owner, slot,
                   commitVars>>

\* hk_native_reloc_alloc: other mappings decide which page it finds.
MapPage(h, p) ==
    /\ pc[h] = "mapping"
    /\ p \in Anonymous \ mapped
    /\ mapped' = mapped \cup {p}
    /\ writable' = writable \cup {p}
    /\ body' = [body EXCEPT ![p] = Unbuilt]
    /\ page' = [page EXCEPT ![h] = p]
    /\ pc' = [pc EXCEPT ![h] = "building"]
    /\ UNCHANGED <<code, foreign, captured, used, coreVars, commitVars>>

NoPage(h) ==
    /\ pc[h] = "mapping"
    /\ "map" \in Faults \/ Anonymous \subseteq mapped
    /\ Fail(h)
    /\ UNCHANGED <<code, foreign, page, captured, poolVars, lock, owner, slot,
                   commitVars>>

\* The words that the patch will replace, read once.
Found(h) == [w \in Words |-> IF w \in Region(h) THEN code[w] ELSE Zero]
AsExpected(h) == \A w \in Region(h) : code[w] \in Expected[h]

\* Preflight of an entry that is to be relocated.
Relocatable(i) == i.op = "plain"

\* Where the entry will branch to: the thunk if it is near.
Destination(h) ==
    IF h \in Relocating /\ InReach(Target[h], page[h])
    THEN page[h] ELSE Replacement[h]

AtomicPatch(h) == InReach(Target[h], Destination(h))

\* What a call of the original does: the displaced instruction, then the rest.
Continuation(h) ==
    [thunk |-> Replacement[h], displaced |-> captured[h][Target[h]],
     resume |-> Target[h] + 1]

BuildPage(h) ==
    /\ pc[h] = "building"
    /\ AsExpected(h)
    /\ Relocatable(code[Target[h]])
    /\ captured' = [captured EXCEPT ![h] = Found(h)]
    /\ body' = [body EXCEPT ![page[h]] = Continuation(h)']
    /\ pc' = [pc EXCEPT ![h] = "built"]
    /\ UNCHANGED <<code, foreign, page, used, mapped, writable, coreVars,
                   commitVars>>

\* Mutant: a refusal drops the page.
ReleaseAndFailLeaks(h) == Fail(h) /\ UNCHANGED <<page, used, mapped>>

\* reloc_release_and_fail.
ReleaseAndFail(h) == Fail(h) /\ FreePage(h)

BuildRefused(h) ==
    /\ pc[h] = "building"
    /\ ~(AsExpected(h) /\ Relocatable(code[Target[h]]))
    /\ ReleaseAndFail(h)
    /\ UNCHANGED <<code, foreign, captured, writable, body, lock, owner, slot,
                   commitVars>>

SealPage(h) ==
    /\ pc[h] = "built"
    /\ AtomicPatch(h)
    /\ writable' = writable \ {page[h]}
    /\ pc' = [pc EXCEPT ![h] = "prepared"]
    /\ outcome' = [outcome EXCEPT ![h] = "PREPARED"]
    /\ UNCHANGED <<code, foreign, page, captured, used, mapped, body, lock,
                   owner, slot, commitVars>>

\* The page cannot be sealed, or it is sealed and the patch is not atomic.
SealRefused(h) ==
    /\ pc[h] = "built"
    /\ \/ "seal" \in Faults /\ UNCHANGED writable
       \/ ~AtomicPatch(h) /\ writable' = writable \ {page[h]}
    /\ ReleaseAndFail(h)
    /\ UNCHANGED <<code, foreign, captured, body, lock, owner, slot, commitVars>>

\* inline_prepare_one_ctx_status and memory_prepare_one_ctx_status.
Acceptable(h) ==
    /\ AsExpected(h)
    /\ Kind[h] = "terminal" => code[Target[h]].op # "trap" /\ AtomicPatch(h)

PrepareInPlace(h) ==
    /\ pc[h] = "idle"
    /\ h \notin Relocating \cup Misplaced
    /\ Kind[h] = "terminal" => h \notin NeedsOriginal
    /\ IF Acceptable(h)
       THEN /\ captured' = [captured EXCEPT ![h] = Found(h)]
            /\ pc' = [pc EXCEPT ![h] = "prepared"]
            /\ outcome' = [outcome EXCEPT ![h] = "PREPARED"]
       ELSE Fail(h) /\ UNCHANGED captured
    /\ UNCHANGED <<code, foreign, page, poolVars, lock, owner, slot, commitVars>>

-----------------------------------------------------------------------------
(* Commit.                                                                 *)

\* None of these engines chains: an owned target is a conflict.
CommitConflict(h) ==
    /\ pc[h] = "prepared"
    /\ lock = "free"
    /\ Key(h) \in owner
    /\ pc' = [pc EXCEPT ![h] = "done"]
    /\ outcome' = [outcome EXCEPT ![h] = "CONFLICT"]
    /\ UNCHANGED <<code, foreign, page, captured, poolVars, lock, owner, slot,
                   commitVars>>

BeginCommit(h) ==
    /\ pc[h] = "prepared"
    /\ lock = "free"
    /\ Key(h) \notin owner
    /\ lock' = h
    /\ pc' = [pc EXCEPT ![h] = "check"]
    /\ UNCHANGED <<code, foreign, page, captured, poolVars, owner, slot, outcome,
                   commitVars>>

\* Mutant: the entry is not compared with what prepare read.
StillHoldsUnchecked(h) == TRUE

StillHolds(h) == \A w \in Region(h) : code[w] = captured[h][w]

Revalidate(h) ==
    /\ pc[h] = "check"
    /\ StillHolds(h)
    /\ pc' = [pc EXCEPT ![h] = "write"]
    /\ UNCHANGED <<code, foreign, page, captured, poolVars, coreVars, commitVars>>

\* The engine's commit returns NONE: the continuation is given back.
EngineDeclines(h) ==
    /\ state' = [state EXCEPT ![h] = "NONE"]
    /\ pc' = [pc EXCEPT ![h] = "finish"]
    /\ FreePage(h)

RevalidateFails(h) ==
    /\ pc[h] = "check"
    /\ ~StillHolds(h)
    /\ EngineDeclines(h)
    /\ UNCHANGED <<code, foreign, captured, writable, body, coreVars, copy,
                   activated, recorded, stored>>

\* hk_write_locked cannot make the VM page writable, nor copy it.
WriteRefused(h) ==
    /\ pc[h] = "write"
    /\ "protect" \in Faults
    /\ EngineDeclines(h)
    /\ UNCHANGED <<code, foreign, captured, writable, body, coreVars, copy,
                   activated, recorded, stored>>

Patch(h) ==
    IF Kind[h] = "memory" THEN Bytes[h]
    ELSE [w \in Region(h) |-> Branch(Destination(h))]

\* Words with the patch of h in place.
Patched(h, words) ==
    [w \in Words |-> IF w \in Region(h) THEN Patch(h)[w] ELSE words[w]]

\* Mutant: only a write known to be complete makes the page permanent.
ActivatesOnComplete(m) == m = "COMPLETE"

\* Any possible publication is permanent.
Activates(m) == m # "NONE"

EngineEnds(h, m) ==
    /\ state' = [state EXCEPT ![h] = m]
    /\ activated' = [activated EXCEPT ![h] = Activates(m)]
    /\ \/ recorded' = [recorded EXCEPT ![h] = TRUE]
       \/ "record" \in Faults /\ UNCHANGED recorded
    /\ pc' = [pc EXCEPT ![h] = "finish"]

\* The VM page is made writable, written, and its protection restored or not.
WriteInPlace(h) ==
    /\ pc[h] = "write"
    /\ code' = Patched(h, code)
    /\ stored' = [stored EXCEPT ![h] = TRUE]
    /\ \E m \in {"COMPLETE", "UNKNOWN"} :
          /\ m = "UNKNOWN" => "restore" \in Faults
          /\ EngineEnds(h, m)
    /\ UNCHANGED <<foreign, page, captured, poolVars, coreVars, copy>>

\* hk_range_bounds: the words of all VM pages that the patch touches.
Exchanged(h) == UNION {v \in VMPages : v \cap Region(h) # {}}

\* The kernel refuses that: a private copy is patched instead ...
CopyPage(h) ==
    /\ pc[h] = "write"
    /\ "remap" \in Faults
    /\ copy' = [w \in Words |-> IF w \in Exchanged(h) THEN code[w] ELSE Zero]
    /\ pc' = [pc EXCEPT ![h] = "remap"]
    /\ UNCHANGED <<code, foreign, page, captured, poolVars, coreVars, activated,
                   state, recorded, stored>>

\* ... and mapped over the target.
RemapPage(h) ==
    /\ pc[h] = "remap"
    /\ code' = [w \in Words |-> IF w \in Exchanged(h) THEN Patched(h, copy)[w]
                                ELSE code[w]]
    /\ stored' = [stored EXCEPT ![h] = TRUE]
    /\ copy' = [w \in Words |-> Zero]
    /\ EngineEnds(h, "COMPLETE")
    /\ UNCHANGED <<foreign, page, captured, poolVars, coreVars>>

\* A failed remap is no proof that the old mapping survived; here it did.
RemapFails(h) ==
    /\ pc[h] = "remap"
    /\ copy' = [w \in Words |-> Zero]
    /\ EngineEnds(h, "UNKNOWN")
    /\ UNCHANGED <<code, foreign, page, captured, poolVars, coreVars, stored>>

\* Artifacts recorded and the readback agrees.
Confirmed(h) ==
    /\ recorded[h]
    /\ \A w \in Region(h) : code[w] = Patch(h)[w]

\* Mutant: a write that could not be confirmed counts as not made.
OutcomeOfOptimistic(m) == "FAILED_SAFE"

OutcomeOf(m) == IF m = "NONE" THEN "FAILED_SAFE" ELSE "FAILED_UNKNOWN"

\* hk_plan_commit after the dispatch, hk_plan_finish_commit_attempt, unlock.
FinishCommit(h) ==
    /\ pc[h] = "finish"
    /\ \E fault \in (Faults \cap {"owner", "installed"}) \cup {"none"} :
          IF state[h] = "COMPLETE" /\ Confirmed(h) /\ fault # "owner"
          THEN /\ outcome' = [outcome EXCEPT ![h] = "ACTIVE"]
               /\ owner' = owner \cup {Key(h)}
               /\ slot' = IF fault = "installed" THEN slot
                          ELSE [slot EXCEPT ![h] = page[h]]
          ELSE /\ outcome' = [outcome EXCEPT ![h] = OutcomeOf(state[h])]
               /\ UNCHANGED <<owner, slot>>
    /\ lock' = "free"
    /\ pc' = [pc EXCEPT ![h] = "done"]
    /\ UNCHANGED <<code, foreign, page, captured, poolVars, commitVars>>

\* release_prepared, for a hook that was committed or for an abandoned plan.
Reclaims(h) == ~activated[h]

Release(h) ==
    /\ pc[h] \in {"prepared", "done"}
    /\ pc' = [pc EXCEPT ![h] = "released"]
    /\ IF Reclaims(h) THEN FreePage(h) ELSE UNCHANGED <<page, used, mapped>>
    /\ UNCHANGED <<code, foreign, captured, writable, body, coreVars, commitVars>>

PrepareStep(h) ==
    \/ PrepareRefused(h)
    \/ \E s \in Slots : ClaimSlot(h, s)
    \/ NoSlot(h)
    \/ KeepSlot(h) \/ ReturnSlot(h)
    \/ \E p \in Anonymous : MapPage(h, p)
    \/ NoPage(h)
    \/ BuildPage(h) \/ BuildRefused(h)
    \/ SealPage(h) \/ SealRefused(h)
    \/ PrepareInPlace(h)

CommitStep(h) ==
    \/ CommitConflict(h)
    \/ BeginCommit(h)
    \/ Revalidate(h) \/ RevalidateFails(h)
    \/ WriteRefused(h)
    \/ WriteInPlace(h)
    \/ CopyPage(h) \/ RemapPage(h) \/ RemapFails(h)
    \/ FinishCommit(h)
    \/ Release(h)

Next ==
    \/ \E w \in Words, i \in ForeignCode : ForeignPatch(w, i)
    \/ \E h \in Hooks : PrepareStep(h) \/ CommitStep(h)

Spec == Init /\ [][Next]_vars

-----------------------------------------------------------------------------

\* Type invariant.
TypeOK ==
    /\ code \in [Words -> Instructions]
    /\ foreign \subseteq ForeignCode
    /\ pc \in [Hooks -> {"absent", "idle", "claimed", "mapping", "building",
                         "built", "prepared", "check", "write", "remap", "finish",
                         "done", "failed", "released"}]
    /\ page \in [Hooks -> Backing \cup {0}]
    /\ used \subseteq Slots /\ mapped \subseteq Anonymous
    /\ writable \subseteq Backing
    /\ body \in [Backing -> Bodies]
    /\ captured \in [Hooks -> [Words -> Instructions]]
    /\ lock \in Hooks \cup {"free"}
    /\ owner \subseteq Keys
    /\ copy \in [Words -> Instructions]
    /\ activated \in [Hooks -> BOOLEAN]
    /\ state \in [Hooks -> {"NONE", "COMPLETE", "UNKNOWN"}]
    /\ recorded \in [Hooks -> BOOLEAN]
    /\ slot \in [Hooks -> Backing \cup {0}]
    /\ outcome \in [Hooks -> {"ANALYZED", "PREPARED", "ACTIVE", "CONFLICT",
                              "FAILED_SAFE", "FAILED_UNKNOWN"}]
    /\ stored \in [Hooks -> BOOLEAN]

\* A slot or page that can be called: held by h, executable, and built for h.
Stands(h, p) ==
    /\ p = page[h]
    /\ p \in used \cup mapped
    /\ p \notin writable
    /\ body[p] = Continuation(h)

\* HKRelocInlineEngine.h: "a page reached by a live entry patch is never passed
\* here" (to free).  Whatever threads claim, build, abandon and release: a word
\* that branches into a slot or page was patched by a hook on that word whose
\* continuation still stands, and so does the one behind an original slot.
CallablePagesStand ==
    /\ \A w \in Words : code[w].op = "b" /\ code[w].to \in Backing =>
          \E h \in Relocating : Target[h] = w /\ Stands(h, code[w].to)
    /\ \A h \in Hooks : slot[h] # 0 => Stands(h, slot[h])

\* HKRuntime.c on the pool that all runtimes of the process share: a slot is
\* never handed out twice, and neither slots nor pages are lost: whatever is
\* taken is held by one hook that is still under way, prepared, or activated.
BackingBalanced ==
    /\ used \cup mapped = {page[h] : h \in Hooks} \ {0}
    /\ \A g, h \in Hooks : page[g] = page[h] /\ page[g] # 0 => g = h
    /\ \A h \in Hooks :
          pc[h] \in {"absent", "failed", "released"} /\ ~activated[h] => page[h] = 0

\* ARCHITECTURE.md, invariant 4: NONE only when nothing was written.  A result
\* that says so is true, and an ACTIVE hook was written.
ResultsAreTrue ==
    \A h \in Hooks :
        /\ outcome[h] \in {"FAILED_SAFE", "CONFLICT"} => ~stored[h]
        /\ outcome[h] = "ACTIVE" => stored[h]

\* ARCHITECTURE.md, invariant 3, for engines whose patches overlap under
\* different ownership keys and for a writer that may exchange a whole VM page:
\* a commit changes only words of its own region that hold what it captured;
\* all else it can overwrite is foreign code written in the meantime.
OnlyForeignWorkLost ==
    [][\A h \in Hooks : stored'[h] /\ ~stored[h] =>
          \A w \in Words : code'[w] # code[w] =>
              \/ w \in Region(h) /\ code[w] = captured[h][w]
              \/ code[w] \in ForeignCode]_vars

=============================================================================
