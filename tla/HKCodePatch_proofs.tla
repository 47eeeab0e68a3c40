------------------------ MODULE HKCodePatch_proofs ------------------------
(***************************************************************************)
(* Proofs about HKCodePatch, for every code memory, pool, set of hooks,    *)
(* foreign patches, and with every fault.                                  *)
(***************************************************************************)
EXTENDS HKCodePatch, TLAPS

-----------------------------------------------------------------------------
(* The inductive invariant.                                                *)

\* Only the holder of the ownership lock is in an engine's commit.
Holding ==
    \A h \in Hooks :
        pc[h] \in {"check", "write", "remap", "finish"} => lock = h

\* Who has a continuation page, by the place it is at: a relocating hook, from
\* the claim to a refusal.  A hook that is activated keeps it.
Paged ==
    \A h \in Hooks :
        /\ page[h] # 0 => h \in Relocating
        /\ pc[h] \in {"absent", "idle", "mapping", "failed"} => page[h] = 0
        /\ pc[h] = "mapping" => h \in Relocating
        /\ pc[h] \in {"claimed", "building", "built"} => page[h] # 0
        /\ pc[h] \in {"prepared", "check", "write", "remap"} /\ h \in Relocating =>
              page[h] # 0
        /\ activated[h] /\ h \in Relocating => page[h] # 0
        /\ pc[h] \in {"released", "finish"} /\ ~activated[h] => page[h] = 0

\* Slots and pages taken are those held, each by one hook.
Balanced ==
    /\ \A h \in Hooks : page[h] # 0 => page[h] \in used \cup mapped
    /\ \A p \in used \cup mapped : \E h \in Hooks : page[h] = p
    /\ \A g, h \in Hooks : page[g] = page[h] /\ page[g] # 0 => g = h

\* Nothing is activated or stored before the write, and every store is known
\* to be possible: a hook that was stored is activated.
Activation ==
    \A h \in Hooks :
        /\ pc[h] \in {"absent", "idle", "claimed", "mapping", "building", "built",
                      "prepared", "check", "write", "remap", "failed"} =>
              ~activated[h]
        /\ stored[h] => activated[h]
        /\ pc[h] = "finish" => (activated[h] <=> state[h] # "NONE")
        /\ pc[h] = "finish" /\ state[h] = "COMPLETE" => stored[h]
        /\ slot[h] # 0 => activated[h] /\ slot[h] = page[h]

\* The page of a prepared or activated hook is sealed and complete.
Built ==
    \A h \in Hooks : page[h] # 0 =>
        /\ pc[h] \in {"built", "prepared", "check", "write", "remap"} \/ activated[h] =>
              body[page[h]] = Continuation(h)
        /\ pc[h] \in {"prepared", "check", "write", "remap", "done"} \/ activated[h] =>
              page[h] \notin writable

\* An instruction that word w may hold: if it branches into a slot or page, it
\* is the patch of an activated hook on w.
Grounded(w, i) ==
    i.op = "b" /\ i.to \in Backing =>
        \E h \in Relocating : Target[h] = w /\ activated[h] /\ page[h] = i.to

BranchesGrounded ==
    \A w \in Words : Grounded(w, code[w]) /\ Grounded(w, copy[w])

\* Between revalidation and write only foreign code has come in between.
Window ==
    \A h \in Hooks :
        /\ pc[h] \in {"write", "remap"} =>
              \A w \in Region(h) : code[w] = captured[h][w] \/ code[w] \in ForeignCode
        /\ pc[h] = "remap" =>
              \A w \in Exchanged(h) : code[w] = copy[w] \/ code[w] \in ForeignCode

\* The result is written with the lock released, or when prepare refuses.
Undecided ==
    \A h \in Hooks :
        pc[h] \notin {"done", "failed", "released"} =>
            outcome[h] \in {"ANALYZED", "PREPARED"}

IInv ==
    /\ TypeOK
    /\ Holding
    /\ Paged
    /\ Balanced
    /\ Activation
    /\ Built
    /\ BranchesGrounded
    /\ Window
    /\ Undecided
    /\ ResultsAreTrue

Rest == Holding /\ Paged /\ Balanced /\ Activation /\ Built /\ BranchesGrounded
        /\ Window /\ Undecided /\ ResultsAreTrue

\* Facts about the constants that the steps below use.
LEMMA Constants ==
    /\ Words \subseteq Int /\ Backing \subseteq Int /\ 0 \notin Backing
    /\ Backing = Slots \cup Anonymous /\ Slots \cap Anonymous = {}
    /\ "free" \notin Hooks
    /\ Relocating \subseteq Hooks
    /\ \A h \in Hooks : Target[h] \in Words /\ Region(h) \subseteq Words
    /\ \A h \in Hooks : Replacement[h] \in Int /\ Replacement[h] \notin Backing
    /\ \A h \in Relocating : Region(h) = {Target[h]}
    /\ ForeignCode \subseteq Instructions
    /\ \A i \in ForeignCode : i.to \notin Backing
    /\ Zero \in Instructions /\ Zero.op # "b"
    /\ Unbuilt \in Bodies
<1>1. ASSUME NEW h \in Relocating
      PROVE  Region(h) = {Target[h]}
  <2>1. h \in Hooks /\ Size[h] = 1 /\ Target[h] \in Int
    BY HooksAssumption, MemoryAssumption DEF Relocating
  <2> QED
    BY <2>1 DEF Region
<1>2. Zero \in Instructions /\ Zero.op # "b"
  BY DEF Zero, Instructions
<1>3. Unbuilt \in Bodies
  BY <1>2 DEF Unbuilt, Bodies
<1> QED
  BY <1>1, <1>2, <1>3, MemoryAssumption, HooksAssumption, ForeignAssumption
     DEF Backing, Relocating

\* The part of them that types need.
LEMMA Sorts ==
    /\ Backing = Slots \cup Anonymous /\ 0 \notin Backing
    /\ Zero \in Instructions /\ Unbuilt \in Bodies
BY Constants

-----------------------------------------------------------------------------
(* Types.                                                                  *)

\* Giving a page back keeps the types of the pool's state.
LEMMA FreeTypes ==
    ASSUME TypeOK, NEW h \in Hooks, FreePage(h)
    PROVE  /\ page' \in [Hooks -> Backing \cup {0}]
           /\ used' \subseteq Slots /\ mapped' \subseteq Anonymous
BY DEF TypeOK, FreePage

\* What an entry branches to is an address.
LEMMA DestinationType ==
    ASSUME TypeOK, NEW h \in Hooks
    PROVE  Destination(h) \in Int
BY Constants DEF TypeOK, Destination

\* A patch consists of instructions.
LEMMA PatchedType ==
    ASSUME TypeOK, NEW h \in Hooks, NEW words \in [Words -> Instructions]
    PROVE  Patched(h, words) \in [Words -> Instructions]
<1>1. CASE Kind[h] = "memory"
  <2>1. \A w \in Region(h) : Patch(h)[w] \in Instructions
    BY <1>1, HooksAssumption DEF Patch
  <2> QED
    BY <2>1 DEF Patched
<1>2. CASE Kind[h] # "memory"
  <2>1. Branch(Destination(h)) \in Instructions
    BY DestinationType DEF Branch, Instructions
  <2>2. \A w \in Region(h) : Patch(h)[w] = Branch(Destination(h))
    BY <1>2 DEF Patch
  <2> QED
    BY <2>1, <2>2 DEF Patched
<1> QED
  BY <1>1, <1>2

\* Preparation keeps the types.
LEMMA PrepareTypes ==
    ASSUME TypeOK, Paged, NEW h \in Hooks, PrepareStep(h)
    PROVE  TypeOK'
<1> USE Sorts DEF TypeOK, poolVars, coreVars, commitVars
<1>1. CASE PrepareRefused(h)
  BY <1>1 DEF PrepareRefused, Fail
<1>2. ASSUME NEW s \in Slots, ClaimSlot(h, s) PROVE TypeOK'
  BY <1>2 DEF ClaimSlot
<1>3. CASE NoSlot(h)
  BY <1>3 DEF NoSlot, Fail
<1>4. CASE KeepSlot(h)
  <2>1. page[h] \in Backing
    BY <1>4 DEF KeepSlot, Paged
  <2> QED
    BY <1>4, <2>1 DEF KeepSlot
<1>5. CASE ReturnSlot(h)
  <2>1. FreePage(h)
    BY <1>5 DEF ReturnSlot
  <2> QED
    BY <1>5, <2>1, FreeTypes DEF ReturnSlot, Fail
<1>6. ASSUME NEW p \in Anonymous, MapPage(h, p) PROVE TypeOK'
  <2>1. /\ body' \in [Backing -> Bodies]
        /\ page' \in [Hooks -> Backing \cup {0}]
        /\ pc' = [pc EXCEPT ![h] = "building"]
    BY <1>6 DEF MapPage
  <2> QED
    BY <1>6, <2>1 DEF MapPage
<1>7. CASE NoPage(h)
  BY <1>7 DEF NoPage, Fail
<1>8. CASE BuildPage(h)
  <2> USE <1>8 DEF BuildPage
  <2>1. Found(h) \in [Words -> Instructions]
    BY DEF Found
  <2>2. captured' \in [Hooks -> [Words -> Instructions]]
    BY <2>1
  <2>3. Continuation(h)' \in Bodies
    <3>1. Target[h] \in Words /\ Target[h] \in Int /\ Replacement[h] \in Int
      BY Constants
    <3> QED
      BY <2>2, <3>1 DEF Continuation, Bodies
  <2>4. body' \in [Backing -> Bodies]
    BY <2>3
  <2> QED
    BY <2>2, <2>4
<1>9. CASE BuildRefused(h)
  <2>1. FreePage(h)
    BY <1>9 DEF BuildRefused, ReleaseAndFail
  <2> QED
    BY <1>9, <2>1, FreeTypes DEF BuildRefused, ReleaseAndFail, Fail
<1>10. CASE SealPage(h)
  BY <1>10 DEF SealPage
<1>11. CASE SealRefused(h)
  <2>1. FreePage(h)
    BY <1>11 DEF SealRefused, ReleaseAndFail
  <2> QED
    BY <1>11, <2>1, FreeTypes DEF SealRefused, ReleaseAndFail, Fail
<1>12. CASE PrepareInPlace(h)
  <2>1. Found(h) \in [Words -> Instructions]
    BY DEF Found
  <2> QED
    <3>1. CASE Acceptable(h)
      <4>1. captured' \in [Hooks -> [Words -> Instructions]]
        BY <1>12, <2>1, <3>1 DEF PrepareInPlace
      <4> QED
        BY <1>12, <3>1, <4>1 DEF PrepareInPlace
    <3>2. CASE ~Acceptable(h)
      BY <1>12, <3>2 DEF PrepareInPlace, Fail
    <3> QED
      BY <3>1, <3>2
<1> QED
  BY <1>1, <1>2, <1>3, <1>4, <1>5, <1>6, <1>7, <1>8, <1>9, <1>10, <1>11, <1>12
     DEF PrepareStep

\* Commit keeps the types.
LEMMA CommitTypes ==
    ASSUME TypeOK, NEW h \in Hooks, CommitStep(h)
    PROVE  TypeOK'
<1> USE Sorts DEF TypeOK, poolVars, coreVars, commitVars
<1>1. CASE CommitConflict(h)
  BY <1>1 DEF CommitConflict
<1>2. CASE BeginCommit(h)
  BY <1>2 DEF BeginCommit
<1>3. CASE Revalidate(h)
  BY <1>3 DEF Revalidate
<1>4. CASE RevalidateFails(h) \/ WriteRefused(h)
  <2>1. FreePage(h)
    BY <1>4 DEF RevalidateFails, WriteRefused, EngineDeclines
  <2> QED
    BY <1>4, <2>1, FreeTypes DEF RevalidateFails, WriteRefused, EngineDeclines
<1>5. ASSUME NEW m \in {"COMPLETE", "UNKNOWN"}, EngineEnds(h, m)
      PROVE  /\ state' \in [Hooks -> {"NONE", "COMPLETE", "UNKNOWN"}]
             /\ activated' \in [Hooks -> BOOLEAN]
             /\ recorded' \in [Hooks -> BOOLEAN]
             /\ pc' = [pc EXCEPT ![h] = "finish"]
  BY <1>5 DEF EngineEnds, Activates
<1>6. CASE WriteInPlace(h)
  <2>1. code' \in [Words -> Instructions]
    BY <1>6, PatchedType DEF WriteInPlace
  <2> QED
    BY <1>5, <1>6, <2>1 DEF WriteInPlace
<1>7. CASE CopyPage(h)
  BY <1>7 DEF CopyPage
<1>8. CASE RemapPage(h)
  <2>1. code' \in [Words -> Instructions]
    <3>1. Patched(h, copy) \in [Words -> Instructions]
      BY PatchedType
    <3> QED
      BY <1>8, <3>1 DEF RemapPage
  <2> QED
    BY <1>5, <1>8, <2>1 DEF RemapPage
<1>9. CASE RemapFails(h)
  BY <1>5, <1>9 DEF RemapFails
<1>10. CASE FinishCommit(h)
  <2>1. OutcomeOf(state[h]) \in {"FAILED_SAFE", "FAILED_UNKNOWN"}
    BY DEF OutcomeOf
  <2>2. Key(h) \in Keys
    BY DEF Keys
  <2>3. PICK fault \in (Faults \cap {"owner", "installed"}) \cup {"none"} :
          IF state[h] = "COMPLETE" /\ Confirmed(h) /\ fault # "owner"
          THEN /\ outcome' = [outcome EXCEPT ![h] = "ACTIVE"]
               /\ owner' = owner \cup {Key(h)}
               /\ slot' = IF fault = "installed" THEN slot
                          ELSE [slot EXCEPT ![h] = page[h]]
          ELSE /\ outcome' = [outcome EXCEPT ![h] = OutcomeOf(state[h])]
               /\ UNCHANGED <<owner, slot>>
    BY <1>10 DEF FinishCommit
  <2>4. /\ outcome' \in [Hooks -> {"ANALYZED", "PREPARED", "ACTIVE", "CONFLICT",
                                    "FAILED_SAFE", "FAILED_UNKNOWN"}]
        /\ owner' \subseteq Keys
        /\ slot' \in [Hooks -> Backing \cup {0}]
    <3>1. CASE state[h] = "COMPLETE" /\ Confirmed(h) /\ fault # "owner"
      <4>1. outcome' = [outcome EXCEPT ![h] = "ACTIVE"]
        BY <2>3, <3>1
      <4>2. owner' = owner \cup {Key(h)}
        BY <2>3, <3>1
      <4>3. slot' = slot \/ slot' = [slot EXCEPT ![h] = page[h]]
        BY <2>3, <3>1
      <4>4. slot' \in [Hooks -> Backing \cup {0}]
        BY <4>3
      <4> QED
        BY <2>2, <4>1, <4>2, <4>4
    <3>2. CASE ~(state[h] = "COMPLETE" /\ Confirmed(h) /\ fault # "owner")
      <4>1. outcome' = [outcome EXCEPT ![h] = OutcomeOf(state[h])]
        BY <2>3, <3>2
      <4>2. owner' = owner /\ slot' = slot
        BY <2>3, <3>2
      <4> QED
        BY <2>1, <4>1, <4>2
    <3> QED
      BY <3>1, <3>2
  <2> QED
    BY <1>10, <2>4 DEF FinishCommit
<1>11. CASE Release(h)
  BY <1>11, FreeTypes DEF Release
<1> QED
  BY <1>1, <1>2, <1>3, <1>4, <1>6, <1>7, <1>8, <1>9, <1>10, <1>11 DEF CommitStep

-----------------------------------------------------------------------------
(* Preparation keeps the rest of the invariant.                            *)

\* A continuation depends on what the hook captured.
LEMMA ContinuationStays ==
    ASSUME NEW h \in Hooks, captured'[h] = captured[h]
    PROVE  Continuation(h)' = Continuation(h)
BY DEF Continuation

\* Steps that touch neither code nor pages nor the commit's state, of a hook
\* without a page.
LEMMA PlainPrepareStep ==
    ASSUME IInv, NEW h \in Hooks, page[h] = 0,
           UNCHANGED <<code, page, poolVars, lock, owner, slot, commitVars>>,
           \A g \in Hooks \ {h} : captured'[g] = captured[g],
           pc[h] \in {"idle", "mapping"},
           \E to \in {"mapping", "failed", "prepared"} :
               /\ pc' = [pc EXCEPT ![h] = to]
               /\ to = "prepared" => h \notin Relocating
               /\ to = "mapping" => h \in Relocating
               /\ outcome' = [outcome EXCEPT ![h] =
                     IF to = "failed" THEN "FAILED_SAFE"
                     ELSE IF to = "prepared" THEN "PREPARED" ELSE @]
    PROVE  Rest'
<1> USE DEF IInv, poolVars, commitVars
<1>1. Holding' /\ Undecided'
  BY DEF Holding, Undecided, TypeOK
<1>2. Paged' /\ Balanced' /\ Activation'
  BY DEF Paged, Balanced, Activation, TypeOK
<1>3. Built'
  BY ContinuationStays DEF Built, TypeOK
<1>4. BranchesGrounded'
  BY DEF BranchesGrounded, Grounded
<1>5. Window'
  BY DEF Window, TypeOK
<1>6. ResultsAreTrue'
  BY DEF ResultsAreTrue, Activation, TypeOK
<1> QED
  BY <1>1, <1>2, <1>3, <1>4, <1>5, <1>6 DEF Rest

\* A hook that is not activated gives its page back.
LEMMA FreeKeeps ==
    ASSUME IInv, NEW h \in Hooks, FreePage(h), ~activated[h],
           UNCHANGED <<code, body, captured, copy, activated, stored, slot>>,
           writable' \subseteq writable,
           \A g \in Hooks \ {h} : pc'[g] = pc[g],
           pc'[h] \in {"mapping", "failed", "finish", "released"},
           pc'[h] = "mapping" => h \in Relocating
    PROVE  /\ Balanced' /\ Built' /\ BranchesGrounded'
           /\ Paged' /\ Window'
<1> USE DEF IInv, FreePage
<1>1. \A g \in Hooks \ {h} : page'[g] = page[g]
  BY DEF TypeOK
<1>2. page'[h] = 0
  BY DEF TypeOK
<1>3. Balanced'
  BY <1>1, <1>2 DEF Balanced, TypeOK
<1>4. Built'
  BY <1>1, <1>2, ContinuationStays DEF Built
<1>5. BranchesGrounded'
  BY <1>1, Constants DEF BranchesGrounded, Grounded
<1>6. Paged'
  BY <1>1, <1>2 DEF Paged
<1>7. Window'
  BY DEF Window
<1> QED
  BY <1>3, <1>4, <1>5, <1>6, <1>7

\* A hook without a page takes one that is free.
LEMMA TakeKeeps ==
    ASSUME Balanced, NEW h \in Hooks, NEW p, p # 0, p \notin used \cup mapped,
           page[h] = 0, page'[h] = p, \A g \in Hooks \ {h} : page'[g] = page[g],
           0 \notin used \cup mapped,
           used' \cup mapped' = (used \cup mapped) \cup {p}
    PROVE  Balanced'
<1>1. \A g \in Hooks : page'[g] # 0 => page'[g] \in used' \cup mapped'
  BY DEF Balanced
<1>2. ASSUME NEW q \in used' \cup mapped'
      PROVE  \E g \in Hooks : page'[g] = q
  <2>1. CASE q = p
    BY <2>1
  <2>2. CASE q # p
    <3>1. q \in used \cup mapped
      BY <2>2
    <3>2. PICK g \in Hooks : page[g] = q
      BY <3>1 DEF Balanced
    <3>3. g # h
      BY <3>1, <3>2
    <3> QED
      BY <3>2, <3>3
  <2> QED
    BY <2>1, <2>2
<1>3. \A g \in Hooks \ {h} : page[g] # p
  BY DEF Balanced
<1>4. \A f, g \in Hooks : page'[f] = page'[g] /\ page'[f] # 0 => f = g
  BY <1>3 DEF Balanced
<1> QED
  BY <1>1, <1>2, <1>4 DEF Balanced

\* What is left of the invariant when a hook that is not in a commit moves.
LEMMA Bystanders ==
    ASSUME IInv, NEW h \in Hooks, ~activated[h], ~stored[h],
           UNCHANGED <<lock, activated, stored, slot, state>>,
           \A g \in Hooks \ {h} : pc'[g] = pc[g] /\ outcome'[g] = outcome[g],
           pc'[h] \in {"claimed", "mapping", "building", "built", "prepared", "failed"},
           \/ outcome'[h] = outcome[h] /\ outcome[h] \in {"ANALYZED", "PREPARED"}
                                        /\ pc'[h] # "failed"
           \/ outcome'[h] = "PREPARED"
           \/ outcome'[h] = "FAILED_SAFE" /\ pc'[h] = "failed"
    PROVE  Holding' /\ Undecided' /\ ResultsAreTrue'
<1> USE DEF IInv
<1>1. Holding'
  BY DEF Holding
<1>2. Undecided'
  BY DEF Undecided
<1>3. ResultsAreTrue'
  BY DEF ResultsAreTrue
<1> QED
  BY <1>1, <1>2, <1>3

\* Every step of a preparation keeps the rest of the invariant.
LEMMA PrepareStepKeeps ==
    ASSUME IInv, NEW h \in Hooks, PrepareStep(h)
    PROVE  Rest'
<1> USE Sorts DEF IInv, poolVars, coreVars, commitVars
<1>1. CASE PrepareRefused(h)
  <2>1. page[h] = 0
    BY <1>1 DEF PrepareRefused, Paged
  <2> QED
    BY <1>1, <2>1, PlainPrepareStep DEF PrepareRefused, Fail
<1>2. ASSUME NEW s \in Slots, ClaimSlot(h, s) PROVE Rest'
  <2> USE <1>2 DEF ClaimSlot
  <2>1. page[h] = 0 /\ ~activated[h] /\ ~stored[h] /\ h \in Relocating
    BY DEF Paged, Activation
  <2>2. s \notin used /\ s \notin mapped /\ s # 0
    BY Constants DEF Nearest, TypeOK
  <2>3. page'[h] = s /\ \A g \in Hooks \ {h} : page'[g] = page[g]
    BY DEF TypeOK
  <2>4. pc'[h] = "claimed" /\ \A g \in Hooks \ {h} : pc'[g] = pc[g]
    BY DEF TypeOK
  <2>5. Holding' /\ Undecided' /\ ResultsAreTrue'
    BY <2>1, <2>4, Bystanders DEF Undecided
  <2>6. Paged'
    BY <2>1, <2>2, <2>3, <2>4 DEF Paged
  <2>7. Balanced'
    <3>1. 0 \notin used \cup mapped
      BY DEF TypeOK
    <3> QED
      BY <2>1, <2>2, <2>3, <3>1, TakeKeeps
  <2>8. Activation'
    BY <2>1, <2>3, <2>4 DEF Activation
  <2>9. Built'
    BY <2>1, <2>3, <2>4, ContinuationStays DEF Built
  <2>10. BranchesGrounded'
    BY <2>1, <2>3, Constants DEF BranchesGrounded, Grounded
  <2>11. Window'
    BY <2>4 DEF Window
  <2> QED
    BY <2>5, <2>6, <2>7, <2>8, <2>9, <2>10, <2>11 DEF Rest
<1>3. CASE NoSlot(h)
  <2>1. page[h] = 0 /\ outcome = [outcome EXCEPT ![h] = @]
    BY <1>3 DEF NoSlot, Paged, TypeOK
  <2> QED
    BY <1>3, <2>1, PlainPrepareStep DEF NoSlot, Fail
<1>4. CASE KeepSlot(h)
  <2> USE <1>4 DEF KeepSlot
  <2>1. ~activated[h] /\ ~stored[h] /\ page[h] # 0
    BY DEF Activation, Paged
  <2>2. pc'[h] = "building" /\ \A g \in Hooks \ {h} : pc'[g] = pc[g]
    BY DEF TypeOK
  <2>3. Holding' /\ Undecided' /\ ResultsAreTrue'
    BY <2>1, <2>2, Bystanders DEF Undecided
  <2>4. Paged' /\ Balanced' /\ Activation'
    BY <2>1, <2>2 DEF Paged, Balanced, Activation
  <2>5. Built'
    BY <2>1, <2>2, ContinuationStays DEF Built, Balanced
  <2>6. BranchesGrounded' /\ Window'
    BY <2>2 DEF BranchesGrounded, Grounded, Window
  <2> QED
    BY <2>3, <2>4, <2>5, <2>6 DEF Rest
<1>5. CASE ReturnSlot(h)
  <2> USE <1>5 DEF ReturnSlot
  <2>1. ~activated[h] /\ ~stored[h]
    BY DEF Activation
  <2>2. /\ \A g \in Hooks \ {h} : pc'[g] = pc[g] /\ outcome'[g] = outcome[g]
        /\ \/ outcome'[h] = "FAILED_SAFE" /\ pc'[h] = "failed"
           \/ outcome' = outcome /\ pc'[h] = "mapping" /\ h \in Relocating
    <3>1. CASE Kind[h] = "relocating"
      BY <3>1 DEF TypeOK, Relocating
    <3>2. CASE Kind[h] # "relocating"
      BY <3>2 DEF TypeOK, Fail
    <3> QED
      BY <3>1, <3>2
  <2>3. Holding' /\ Undecided' /\ ResultsAreTrue'
    BY <2>1, <2>2, Bystanders DEF Undecided
  <2>4. Balanced' /\ Built' /\ BranchesGrounded' /\ Paged' /\ Window'
    BY <2>1, <2>2, FreeKeeps
  <2>5. Activation'
    BY <2>1, <2>2 DEF Activation, FreePage, TypeOK
  <2> QED
    BY <2>3, <2>4, <2>5 DEF Rest
<1>6. ASSUME NEW p \in Anonymous, MapPage(h, p) PROVE Rest'
  <2> USE <1>6 DEF MapPage
  <2>1. page[h] = 0 /\ ~activated[h] /\ ~stored[h]
    BY DEF Paged, Activation
  <2>2. p \notin used /\ p \notin mapped /\ p # 0
    BY Constants DEF TypeOK
  <2>3. page'[h] = p /\ \A g \in Hooks \ {h} : page'[g] = page[g]
    BY DEF TypeOK
  <2>4. pc'[h] = "building" /\ \A g \in Hooks \ {h} : pc'[g] = pc[g]
    BY DEF TypeOK
  <2>5. Holding' /\ Undecided' /\ ResultsAreTrue'
    BY <2>1, <2>4, Bystanders DEF Undecided
  <2>6. h \in Relocating
    BY DEF Paged
  <2>7. Paged'
    BY <2>1, <2>2, <2>3, <2>4, <2>6 DEF Paged
  <2>8. Balanced'
    <3>1. 0 \notin used \cup mapped
      BY DEF TypeOK
    <3> QED
      BY <2>1, <2>2, <2>3, <3>1, TakeKeeps
  <2>9. Activation'
    BY <2>1, <2>3, <2>4 DEF Activation
  <2>10. \A g \in Hooks \ {h} : page[g] # p
    BY <2>2 DEF Balanced
  <2>11. \A q \in Backing \ {p} : body'[q] = body[q]
    BY DEF TypeOK
  <2>12. Built'
    BY <2>1, <2>3, <2>4, <2>10, <2>11, ContinuationStays DEF Built, TypeOK
  <2>13. BranchesGrounded'
    BY <2>1, <2>3, Constants DEF BranchesGrounded, Grounded
  <2>14. Window'
    BY <2>4 DEF Window
  <2> QED
    BY <2>5, <2>7, <2>8, <2>9, <2>12, <2>13, <2>14 DEF Rest
<1>7. CASE NoPage(h)
  <2>1. page[h] = 0
    BY <1>7 DEF NoPage, Paged
  <2> QED
    BY <1>7, <2>1, PlainPrepareStep DEF NoPage, Fail
<1>8. CASE BuildPage(h)
  <2> USE <1>8 DEF BuildPage
  <2>1. ~activated[h] /\ ~stored[h] /\ page[h] # 0 /\ page[h] \in Backing
    BY DEF Activation, Paged, TypeOK
  <2>2. pc'[h] = "built" /\ \A g \in Hooks \ {h} : pc'[g] = pc[g]
    BY DEF TypeOK
  <2>3. Holding' /\ Undecided' /\ ResultsAreTrue'
    BY <2>1, <2>2, Bystanders DEF Undecided
  <2>4. Paged' /\ Balanced' /\ Activation'
    BY <2>1, <2>2 DEF Paged, Balanced, Activation
  <2>5. \A g \in Hooks \ {h} : captured'[g] = captured[g]
    BY DEF TypeOK
  <2>6. body'[page[h]] = Continuation(h)'
    BY <2>1 DEF TypeOK
  <2>7. \A g \in Hooks \ {h} : page[g] # 0 => body'[page[g]] = body[page[g]]
    BY <2>1 DEF Balanced, TypeOK
  <2>8. Built'
    BY <2>1, <2>2, <2>5, <2>6, <2>7, ContinuationStays DEF Built
  <2>9. BranchesGrounded' /\ Window'
    BY <2>2, <2>5 DEF BranchesGrounded, Grounded, Window
  <2> QED
    BY <2>3, <2>4, <2>8, <2>9 DEF Rest
<1>9. CASE BuildRefused(h) \/ SealRefused(h)
  <2> USE <1>9 DEF BuildRefused, SealRefused, ReleaseAndFail
  <2>1. ~activated[h] /\ ~stored[h]
    BY DEF Activation
  <2>2. /\ pc'[h] = "failed" /\ outcome'[h] = "FAILED_SAFE"
        /\ \A g \in Hooks \ {h} : pc'[g] = pc[g] /\ outcome'[g] = outcome[g]
    BY DEF TypeOK, Fail
  <2>3. Holding' /\ Undecided' /\ ResultsAreTrue'
    BY <2>1, <2>2, Bystanders
  <2>4. Balanced' /\ Built' /\ BranchesGrounded' /\ Paged' /\ Window'
    BY <2>1, <2>2, FreeKeeps
  <2>5. Activation'
    BY <2>1, <2>2 DEF Activation, FreePage, TypeOK
  <2> QED
    BY <2>3, <2>4, <2>5 DEF Rest
<1>10. CASE SealPage(h)
  <2> USE <1>10 DEF SealPage
  <2>1. ~activated[h] /\ ~stored[h] /\ page[h] # 0
    BY DEF Activation, Paged
  <2>2. /\ pc'[h] = "prepared" /\ outcome'[h] = "PREPARED"
        /\ \A g \in Hooks \ {h} : pc'[g] = pc[g] /\ outcome'[g] = outcome[g]
    BY DEF TypeOK
  <2>3. Holding' /\ Undecided' /\ ResultsAreTrue'
    BY <2>1, <2>2, Bystanders
  <2>4. Paged' /\ Balanced' /\ Activation'
    BY <2>1, <2>2 DEF Paged, Balanced, Activation
  <2>5. Built'
    BY <2>1, <2>2, ContinuationStays DEF Built
  <2>6. BranchesGrounded' /\ Window'
    BY <2>2 DEF BranchesGrounded, Grounded, Window
  <2> QED
    BY <2>3, <2>4, <2>5, <2>6 DEF Rest
<1>11. CASE PrepareInPlace(h)
  <2>1. page[h] = 0 /\ h \notin Relocating
    BY <1>11 DEF PrepareInPlace, Paged
  <2>2. \A g \in Hooks \ {h} : captured'[g] = captured[g]
    BY <1>11 DEF PrepareInPlace, TypeOK
  <2> QED
    BY <1>11, <2>1, <2>2, PlainPrepareStep DEF PrepareInPlace, Fail
<1> QED
  BY <1>1, <1>2, <1>3, <1>4, <1>5, <1>6, <1>7, <1>8, <1>9, <1>10, <1>11
     DEF PrepareStep

-----------------------------------------------------------------------------
(* Foreign code and commit keep the rest of the invariant.                 *)

\* Foreign code branches into no slot or page, and is all that may slip in
\* between revalidation and write.
LEMMA ForeignKeeps ==
    ASSUME IInv, NEW w \in Words, NEW i \in ForeignCode, ForeignPatch(w, i)
    PROVE  TypeOK' /\ Rest'
<1> USE DEF IInv, ForeignPatch, poolVars, coreVars, commitVars
<1>1. \A v \in Words : code'[v] = code[v] \/ code'[v] \in ForeignCode
  BY DEF TypeOK
<1>2. code' \in [Words -> Instructions]
  BY Constants DEF TypeOK
<1>3. TypeOK'
  BY <1>2 DEF TypeOK
<1>4. Holding' /\ Paged' /\ Balanced' /\ Activation'
  BY DEF Holding, Paged, Balanced, Activation
<1>5. Built'
  BY ContinuationStays DEF Built
<1>6. BranchesGrounded'
  BY <1>1, Constants DEF BranchesGrounded, Grounded
<1>7. Window'
  <2>1. \A h \in Hooks : Region(h) \subseteq Words /\ Exchanged(h) \subseteq Words
    BY Constants, MemoryAssumption DEF Exchanged
  <2>2. \A h \in Hooks : captured'[h] = captured[h]
    OBVIOUS
  <2> QED
    BY <1>1, <2>1, <2>2 DEF Window
<1>8. Undecided' /\ ResultsAreTrue'
  BY DEF Undecided, ResultsAreTrue
<1> QED
  BY <1>3, <1>4, <1>5, <1>6, <1>7, <1>8 DEF Rest

\* Under the lock no other hook is between revalidation and its end.
LEMMA AloneInCommit ==
    ASSUME Holding, NEW h \in Hooks,
           pc[h] \in {"check", "write", "remap", "finish"}
    PROVE  \A g \in Hooks \ {h} : pc[g] \notin {"check", "write", "remap", "finish"}
BY DEF Holding

\* Only the branch to the thunk of h leads into a slot or page.
LEMMA PatchLeadsHome ==
    ASSUME NEW h \in Hooks, NEW w \in Region(h), Patch(h)[w].to \in Backing
    PROVE  h \in Relocating /\ Target[h] = w /\ Patch(h)[w].to = page[h]
<1>1. Kind[h] # "memory"
  BY HooksAssumption DEF Patch
<1>2. Patch(h)[w].to = Destination(h)
  BY <1>1 DEF Patch, Branch
<1>3. h \in Relocating /\ Destination(h) = page[h]
  BY <1>2, Constants DEF Destination
<1> QED
  BY <1>2, <1>3, Constants

\* What a write that ends in mutation state m leaves behind.
LEMMA WriteKeeps ==
    ASSUME IInv, NEW h \in Hooks, pc[h] \in {"write", "remap"},
           NEW m \in {"COMPLETE", "UNKNOWN"}, EngineEnds(h, m),
           UNCHANGED <<page, captured, poolVars, coreVars>>,
           \A g \in Hooks \ {h} : stored'[g] = stored[g],
           m = "COMPLETE" => stored'[h],
           \A w \in Words : copy'[w] = copy[w] \/ copy'[w] = Zero,
           \A w \in Words : \/ code'[w] \in {code[w], copy[w]}
                            \/ w \in Region(h) /\ code'[w] = Patch(h)[w]
    PROVE  Rest'
<1> USE DEF IInv, EngineEnds, poolVars, coreVars
<1>1. /\ pc'[h] = "finish" /\ activated'[h] /\ state'[h] = m
      /\ \A g \in Hooks \ {h} : /\ pc'[g] = pc[g] /\ state'[g] = state[g]
                                /\ activated'[g] = activated[g]
  BY DEF TypeOK, Activates
<1>2. Holding' /\ Undecided'
  BY <1>1 DEF Holding, Undecided
<1>3. Paged' /\ Balanced'
  BY <1>1 DEF Paged, Balanced
<1>4. Activation'
  BY <1>1 DEF Activation
<1>5. Built'
  BY <1>1, ContinuationStays DEF Built
<1>6. BranchesGrounded'
  <2>1. \A w \in Words : Grounded(w, code[w]) /\ Grounded(w, copy[w])
    BY DEF BranchesGrounded
  <2>2. ASSUME NEW w \in Words, NEW i, Grounded(w, i)
        PROVE  i.op = "b" /\ i.to \in Backing =>
                   \E g \in Relocating : Target[g] = w /\ activated'[g] /\ page'[g] = i.to
    BY <1>1, <2>2, Constants DEF Grounded
  <2>3. ASSUME NEW w \in Words,
               code'[w].op = "b", code'[w].to \in Backing
        PROVE  \E g \in Relocating : Target[g] = w /\ activated'[g] /\ page'[g] = code'[w].to
    BY <1>1, <2>1, <2>2, <2>3, PatchLeadsHome
  <2>4. ASSUME NEW w \in Words,
               copy'[w].op = "b", copy'[w].to \in Backing
        PROVE  \E g \in Relocating : Target[g] = w /\ activated'[g] /\ page'[g] = copy'[w].to
    BY <2>1, <2>2, <2>4, Constants
  <2> QED
    BY <2>3, <2>4 DEF BranchesGrounded, Grounded
<1>7. Window'
  BY <1>1, AloneInCommit DEF Window
<1>8. ResultsAreTrue'
  BY <1>1 DEF ResultsAreTrue, Undecided
<1> QED
  BY <1>2, <1>3, <1>4, <1>5, <1>6, <1>7, <1>8 DEF Rest

\* Every step of a commit keeps the rest of the invariant.
LEMMA CommitStepKeeps ==
    ASSUME IInv, NEW h \in Hooks, CommitStep(h)
    PROVE  Rest'
<1> USE Sorts DEF IInv, poolVars, coreVars, commitVars
<1>1. CASE CommitConflict(h)
  <2> USE <1>1 DEF CommitConflict
  <2>1. /\ pc'[h] = "done" /\ outcome'[h] = "CONFLICT"
        /\ \A g \in Hooks \ {h} : pc'[g] = pc[g] /\ outcome'[g] = outcome[g]
    BY DEF TypeOK
  <2>2. ~activated[h] /\ ~stored[h]
    BY DEF Activation
  <2>3. Holding' /\ Undecided' /\ ResultsAreTrue'
    BY <2>1, <2>2 DEF Holding, Undecided, ResultsAreTrue
  <2>4. Paged' /\ Balanced' /\ Activation'
    BY <2>1, <2>2 DEF Paged, Balanced, Activation
  <2>5. Built' /\ BranchesGrounded' /\ Window'
    BY <2>1, ContinuationStays DEF Built, BranchesGrounded, Grounded, Window
  <2> QED
    BY <2>3, <2>4, <2>5 DEF Rest
<1>2. CASE BeginCommit(h)
  <2> USE <1>2 DEF BeginCommit
  <2>1. pc'[h] = "check" /\ \A g \in Hooks \ {h} : pc'[g] = pc[g]
    BY DEF TypeOK
  <2>2. Holding' /\ Undecided' /\ ResultsAreTrue'
    BY <2>1, Constants DEF Holding, Undecided, ResultsAreTrue
  <2>3. Paged' /\ Balanced' /\ Activation'
    BY <2>1 DEF Paged, Balanced, Activation
  <2>4. Built' /\ BranchesGrounded' /\ Window'
    BY <2>1, ContinuationStays DEF Built, BranchesGrounded, Grounded, Window
  <2> QED
    BY <2>2, <2>3, <2>4 DEF Rest
<1>3. CASE Revalidate(h)
  <2> USE <1>3 DEF Revalidate
  <2>1. pc'[h] = "write" /\ \A g \in Hooks \ {h} : pc'[g] = pc[g]
    BY DEF TypeOK
  <2>2. Holding' /\ Undecided' /\ ResultsAreTrue'
    BY <2>1 DEF Holding, Undecided, ResultsAreTrue
  <2>3. Paged' /\ Balanced' /\ Activation'
    BY <2>1 DEF Paged, Balanced, Activation
  <2>4. Built' /\ BranchesGrounded'
    BY <2>1, ContinuationStays DEF Built, BranchesGrounded, Grounded
  <2>5. Window'
    BY <2>1 DEF Window, StillHolds
  <2> QED
    BY <2>2, <2>3, <2>4, <2>5 DEF Rest
<1>4. CASE RevalidateFails(h) \/ WriteRefused(h)
  <2> USE <1>4 DEF RevalidateFails, WriteRefused, EngineDeclines
  <2>1. ~activated[h] /\ ~stored[h]
    BY DEF Activation
  <2>2. /\ pc'[h] = "finish" /\ state'[h] = "NONE"
        /\ \A g \in Hooks \ {h} : pc'[g] = pc[g] /\ state'[g] = state[g]
    BY DEF TypeOK
  <2>3. Holding' /\ Undecided' /\ ResultsAreTrue'
    BY <2>2 DEF Holding, Undecided, ResultsAreTrue
  <2>4. Balanced' /\ Built' /\ BranchesGrounded' /\ Paged' /\ Window'
    BY <2>1, <2>2, FreeKeeps
  <2>5. Activation'
    BY <2>1, <2>2 DEF Activation, FreePage, TypeOK
  <2> QED
    BY <2>3, <2>4, <2>5 DEF Rest
<1>5. CASE WriteInPlace(h)
  <2> USE <1>5 DEF WriteInPlace
  <2>1. stored'[h] /\ \A g \in Hooks \ {h} : stored'[g] = stored[g]
    BY DEF TypeOK
  <2>2. \A w \in Words : \/ code'[w] \in {code[w], copy[w]}
                         \/ w \in Region(h) /\ code'[w] = Patch(h)[w]
    BY DEF Patched
  <2>3. PICK m \in {"COMPLETE", "UNKNOWN"} : EngineEnds(h, m)
    OBVIOUS
  <2> QED
    BY <2>1, <2>2, <2>3, WriteKeeps
<1>6. CASE CopyPage(h)
  <2> USE <1>6 DEF CopyPage
  <2>1. pc'[h] = "remap" /\ \A g \in Hooks \ {h} : pc'[g] = pc[g]
    BY DEF TypeOK
  <2>2. Exchanged(h) \subseteq Words
    BY MemoryAssumption DEF Exchanged
  <2>3. Holding' /\ Undecided' /\ ResultsAreTrue'
    BY <2>1 DEF Holding, Undecided, ResultsAreTrue
  <2>4. Paged' /\ Balanced' /\ Activation'
    BY <2>1 DEF Paged, Balanced, Activation
  <2>5. Built'
    BY <2>1, ContinuationStays DEF Built
  <2>6. BranchesGrounded'
    BY Constants DEF BranchesGrounded, Grounded
  <2>7. Window'
    BY <2>1, <2>2, AloneInCommit DEF Window
  <2> QED
    BY <2>3, <2>4, <2>5, <2>6, <2>7 DEF Rest
<1>7. CASE RemapPage(h)
  <2> USE <1>7 DEF RemapPage
  <2>1. Patched(h, copy) = [w \in Words |-> IF w \in Region(h) THEN Patch(h)[w] ELSE copy[w]]
    BY DEF Patched
  <2>2. stored'[h] /\ \A g \in Hooks \ {h} : stored'[g] = stored[g]
    BY DEF TypeOK
  <2>3. \A w \in Words : \/ code'[w] \in {code[w], copy[w]}
                         \/ w \in Region(h) /\ code'[w] = Patch(h)[w]
    BY <2>1
  <2> QED
    BY <2>2, <2>3, WriteKeeps
<1>8. CASE RemapFails(h)
  BY <1>8, WriteKeeps DEF RemapFails
<1>9. CASE FinishCommit(h)
  <2> USE <1>9 DEF FinishCommit
  <2>1. pc'[h] = "done" /\ \A g \in Hooks \ {h} : pc'[g] = pc[g]
    BY DEF TypeOK
  <2>2. PICK fault \in (Faults \cap {"owner", "installed"}) \cup {"none"} :
          IF state[h] = "COMPLETE" /\ Confirmed(h) /\ fault # "owner"
          THEN /\ outcome' = [outcome EXCEPT ![h] = "ACTIVE"]
               /\ owner' = owner \cup {Key(h)}
               /\ slot' = IF fault = "installed" THEN slot
                          ELSE [slot EXCEPT ![h] = page[h]]
          ELSE /\ outcome' = [outcome EXCEPT ![h] = OutcomeOf(state[h])]
               /\ UNCHANGED <<owner, slot>>
    OBVIOUS
  <2>3. /\ outcome'[h] = "ACTIVE" => state[h] = "COMPLETE"
        /\ outcome'[h] = "FAILED_SAFE" => state[h] = "NONE"
        /\ outcome'[h] # "CONFLICT"
        /\ \/ slot'[h] = slot[h]
           \/ state[h] = "COMPLETE" /\ slot'[h] = page[h]
        /\ \A g \in Hooks \ {h} : outcome'[g] = outcome[g] /\ slot'[g] = slot[g]
    BY <2>2 DEF TypeOK, OutcomeOf
  <2>4. Holding' /\ Undecided'
    BY <2>1, <2>3, AloneInCommit DEF Holding, Undecided
  <2>5. ResultsAreTrue'
    BY <2>3 DEF ResultsAreTrue, Activation
  <2>6. Paged' /\ Balanced'
    BY <2>1 DEF Paged, Balanced
  <2>7. Activation'
    BY <2>1, <2>3 DEF Activation
  <2>8. Built'
    BY <2>1, ContinuationStays DEF Built, Paged
  <2>9. BranchesGrounded' /\ Window'
    BY <2>1 DEF BranchesGrounded, Grounded, Window
  <2> QED
    BY <2>4, <2>5, <2>6, <2>7, <2>8, <2>9 DEF Rest
<1>10. CASE Release(h)
  <2> USE <1>10 DEF Release, Reclaims
  <2>1. pc'[h] = "released" /\ \A g \in Hooks \ {h} : pc'[g] = pc[g]
    BY DEF TypeOK
  <2>2. Holding' /\ ResultsAreTrue'
    BY <2>1 DEF Holding, ResultsAreTrue
  <2>3. Undecided'
    BY <2>1 DEF Undecided
  <2>4. CASE ~activated[h]
    <3>1. Balanced' /\ Built' /\ BranchesGrounded' /\ Paged' /\ Window'
      BY <2>1, <2>4, FreeKeeps
    <3>2. Activation'
      BY <2>1, <2>4 DEF Activation, FreePage, TypeOK
    <3> QED
      BY <2>2, <2>3, <3>1, <3>2 DEF Rest
  <2>5. CASE activated[h]
    <3>1. Paged' /\ Balanced' /\ Activation'
      BY <2>1, <2>5 DEF Paged, Balanced, Activation
    <3>2. Built' /\ BranchesGrounded' /\ Window'
      BY <2>1, <2>5, ContinuationStays DEF Built, BranchesGrounded, Grounded, Window
    <3> QED
      BY <2>2, <2>3, <2>5, <3>1, <3>2 DEF Rest
  <2> QED
    BY <2>4, <2>5
<1> QED
  BY <1>1, <1>2, <1>3, <1>4, <1>5, <1>6, <1>7, <1>8, <1>9, <1>10 DEF CommitStep

-----------------------------------------------------------------------------
(* The theorems.                                                           *)

LEMMA Initially == Init => IInv
<1> SUFFICES ASSUME Init PROVE IInv
  OBVIOUS
<1> USE Sorts DEF Init
<1>1. TypeOK
  BY MemoryAssumption DEF TypeOK
<1>2. Holding /\ Paged /\ Balanced /\ Activation /\ Built
  BY DEF Holding, Paged, Balanced, Activation, Built
<1>3. BranchesGrounded
  BY Constants, ForeignAssumption DEF BranchesGrounded, Grounded
<1>4. Window /\ Undecided /\ ResultsAreTrue
  BY DEF Window, Undecided, ResultsAreTrue
<1> QED
  BY <1>1, <1>2, <1>3, <1>4 DEF IInv

LEMMA Inductive == IInv /\ [Next]_vars => IInv'
<1> SUFFICES ASSUME IInv, [Next]_vars PROVE IInv'
  OBVIOUS
<1>1. ASSUME NEW w \in Words, NEW i \in ForeignCode, ForeignPatch(w, i)
      PROVE  IInv'
  BY <1>1, ForeignKeeps DEF IInv, Rest
<1>2. ASSUME NEW h \in Hooks, PrepareStep(h) PROVE IInv'
  BY <1>2, PrepareTypes, PrepareStepKeeps DEF IInv, Rest
<1>3. ASSUME NEW h \in Hooks, CommitStep(h) PROVE IInv'
  BY <1>3, CommitTypes, CommitStepKeeps DEF IInv, Rest
<1>4. CASE UNCHANGED vars
  <2> USE <1>4 DEF IInv, vars, poolVars, coreVars, commitVars
  <2>1. TypeOK'
    BY DEF TypeOK
  <2>2. Holding' /\ Paged' /\ Balanced' /\ Activation'
    BY DEF Holding, Paged, Balanced, Activation
  <2>3. Built' /\ BranchesGrounded'
    BY DEF Built, Continuation, BranchesGrounded, Grounded
  <2>4. Window' /\ Undecided' /\ ResultsAreTrue'
    BY DEF Window, Undecided, ResultsAreTrue
  <2> QED
    BY <2>1, <2>2, <2>3, <2>4
<1> QED
  BY <1>1, <1>2, <1>3, <1>4 DEF Next

LEMMA Invariant == Spec => []IInv
<1> QED
  BY Initially, Inductive, PTL DEF Spec

\* The state of the pool, the pages, the ledger and the results always has its
\* type.
THEOREM TypeCorrect == Spec => []TypeOK
<1>1. IInv => TypeOK
  BY DEF IInv
<1> QED
  BY <1>1, Invariant, PTL

\* Whatever can be called stands: no word of code and no original slot leads
\* to a continuation that was freed, handed on, left writable or rebuilt.
THEOREM PagesStandWhileCallable == Spec => []CallablePagesStand
<1>1. ASSUME IInv PROVE CallablePagesStand
  <2> USE <1>1 DEF IInv
  <2>1. ASSUME NEW h \in Hooks, activated[h], page[h] # 0
        PROVE  Stands(h, page[h])
    BY <2>1 DEF Stands, Balanced, Built
  <2>2. ASSUME NEW w \in Words, code[w].op = "b", code[w].to \in Backing
        PROVE  \E h \in Relocating : Target[h] = w /\ Stands(h, code[w].to)
    <3>1. PICK h \in Relocating : /\ Target[h] = w /\ activated[h]
                                  /\ page[h] = code[w].to
      BY <2>2 DEF BranchesGrounded, Grounded
    <3> QED
      BY <2>1, <2>2, <3>1, Constants
  <2>3. ASSUME NEW h \in Hooks, slot[h] # 0
        PROVE  Stands(h, slot[h])
    BY <2>1, <2>3 DEF Activation
  <2> QED
    BY <2>2, <2>3 DEF CallablePagesStand
<1> QED
  BY <1>1, Invariant, PTL

\* Slots and pages are neither handed out twice nor lost.
THEOREM BackingNeverLostOrShared == Spec => []BackingBalanced
<1>1. ASSUME IInv PROVE BackingBalanced
  <2> USE <1>1 DEF IInv
  <2>1. used \cup mapped = {page[h] : h \in Hooks} \ {0}
    BY Sorts DEF Balanced, TypeOK
  <2>2. \A h \in Hooks :
          pc[h] \in {"absent", "failed", "released"} /\ ~activated[h] => page[h] = 0
    BY DEF Paged
  <2> QED
    BY <2>1, <2>2 DEF BackingBalanced, Balanced
<1> QED
  BY <1>1, Invariant, PTL

\* FAILED_SAFE and CONFLICT mean that nothing was written, ACTIVE that it was.
THEOREM ResultsTellTheTruth == Spec => []ResultsAreTrue
<1>1. IInv => ResultsAreTrue
  BY DEF IInv
<1> QED
  BY <1>1, Invariant, PTL

\* What a commit writes over.
LEMMA WriteLosesOnlyForeignWork ==
    ASSUME IInv, Next, NEW h \in Hooks, stored'[h], ~stored[h],
           NEW w \in Words, code'[w] # code[w]
    PROVE  \/ w \in Region(h) /\ code[w] = captured[h][w]
           \/ code[w] \in ForeignCode
<1> USE DEF IInv, poolVars, coreVars, commitVars
<1>1. stored' # stored
  OBVIOUS
<1>2. PICK g \in Hooks : WriteInPlace(g) \/ RemapPage(g)
  <2>1. \A v \in Words, i \in ForeignCode : ~ForeignPatch(v, i)
    BY <1>1 DEF ForeignPatch
  <2>2. \A g \in Hooks : ~PrepareStep(g)
    BY <1>1 DEF PrepareStep, PrepareRefused, ClaimSlot, NoSlot, KeepSlot,
                ReturnSlot, MapPage, NoPage, BuildPage, BuildRefused, SealPage,
                SealRefused, PrepareInPlace
  <2>3. PICK g \in Hooks : CommitStep(g)
    BY <2>1, <2>2 DEF Next
  <2>4. WriteInPlace(g) \/ RemapPage(g)
    BY <1>1, <2>3 DEF CommitStep, CommitConflict, BeginCommit, Revalidate,
                      RevalidateFails, WriteRefused, CopyPage, RemapFails,
                      FinishCommit, Release
  <2> QED
    BY <2>4
<1>3. g = h
  BY <1>2 DEF WriteInPlace, RemapPage, TypeOK
<1>4. CASE WriteInPlace(h)
  <2>1. w \in Region(h)
    BY <1>4 DEF WriteInPlace, Patched
  <2> QED
    BY <1>4, <2>1 DEF WriteInPlace, Window
<1>5. CASE RemapPage(h)
  <2>1. Patched(h, copy) =
            [v \in Words |-> IF v \in Region(h) THEN Patch(h)[v] ELSE copy[v]]
    BY DEF Patched
  <2>2. w \in Exchanged(h)
    BY <1>5 DEF RemapPage
  <2>3. CASE w \in Region(h)
    BY <1>5, <2>3 DEF RemapPage, Window
  <2>4. CASE w \notin Region(h)
    <3>1. code'[w] = copy[w]
      BY <1>5, <2>1, <2>2, <2>4 DEF RemapPage
    <3> QED
      BY <1>5, <2>2, <3>1 DEF RemapPage, Window
  <2> QED
    BY <2>3, <2>4
<1> QED
  BY <1>2, <1>3, <1>4, <1>5

\* A commit overwrites what it captured; outside those words, and within the
\* window after revalidation, only foreign code can be lost.
THEOREM CommitsOverwriteWhatTheyCaptured == Spec => OnlyForeignWorkLost
<1> DEFINE Safe ==
      \A h \in Hooks : stored'[h] /\ ~stored[h] =>
          \A w \in Words : code'[w] # code[w] =>
              \/ w \in Region(h) /\ code[w] = captured[h][w]
              \/ code[w] \in ForeignCode
<1>1. IInv /\ [Next]_vars => [Safe]_vars
  BY WriteLosesOnlyForeignWork
<1>2. Spec => [][Safe]_vars
  BY <1>1, Invariant, PTL DEF Spec
<1> QED
  BY <1>2 DEF OnlyForeignWorkLost

=============================================================================
