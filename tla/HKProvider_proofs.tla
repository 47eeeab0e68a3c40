-------------------------- MODULE HKProvider_proofs --------------------------
(***************************************************************************)
(* Proofs about HKProvider, for any set of hooks, targets and scenarios    *)
(* and any number of foreign patches.                                      *)
(***************************************************************************)
EXTENDS HKProvider, TLAPS

-----------------------------------------------------------------------------
(* The profiles.                                                           *)

\* What the four profiles have in common, and where they differ.
LEMMA ProfileFacts ==
    ASSUME NEW k \in Kinds
    PROVE  /\ Profile[k].early \in BOOLEAN /\ Profile[k].atCommit \in BOOLEAN
           /\ Profile[k].early <=> k # "ellekit"
           /\ Profile[k].atCommit => k = "dobby"
           /\ Profile[k].window \in Parts
           /\ k # "dobby" => Activation \subseteq Profile[k].prepare
           /\ k = "ellekit" => PoolEffects \subseteq Profile[k].prepare
           /\ {"text", "exec_alloc", "unknown"} \subseteq Profile[k].commit
           /\ k = "dobby" => "activation" \in Profile[k].commit
           /\ k = "ellekit" => PoolEffects \subseteq Profile[k].commit
  <1>1. CASE k = "dobby"
    <2>1. Profile[k] = [window |-> 2, early |-> TRUE, atCommit |-> TRUE, prepare |-> {},
                        commit |-> {"text", "exec_alloc", "activation", "unknown"}]
      BY <1>1 DEF Profile, Kinds
    <2> QED
      BY <1>1, <2>1 DEF Parts
  <1>2. CASE k \in {"gum", "substitute"}
    <2>1. Profile[k] = [window |-> 1, early |-> TRUE, atCommit |-> FALSE,
                        prepare |-> Activation, commit |-> {"text", "exec_alloc", "unknown"}]
      BY <1>2 DEF Profile, Kinds
    <2> QED
      BY <1>2, <2>1 DEF Parts
  <1>3. CASE k = "ellekit"
    <2>1. Profile[k] = [window |-> 1, early |-> FALSE, atCommit |-> FALSE,
                        prepare |-> Activation \cup PoolEffects,
                        commit |-> {"text", "unknown"} \cup PoolEffects]
      BY <1>3 DEF Profile, Kinds
    <2> QED
      BY <1>3, <2>1 DEF Parts, PoolEffects
  <1> QED
    BY <1>1, <1>2, <1>3 DEF Kinds

\* Only ElleKit's hooks are hybrid, and a window is part of the entry.
LEMMA HybridFacts ==
    ASSUME NEW h \in Hooks
    PROVE  /\ Kind[h] \in Kinds
           /\ Hybrid(h) \in BOOLEAN
           /\ Hybrid(h) => Kind[h] = "ellekit" /\ ~Profile[Kind[h]].early
           /\ ~Profile[Kind[h]].early /\ h \in WantsOriginal => Hybrid(h)
           /\ Window(h) \subseteq Parts
  <1>1. Kind[h] \in Kinds
    BY HooksAssumption
  <1>2. Hybrid(h) => Kind[h] = "ellekit" /\ ~Profile[Kind[h]].early
    BY <1>1, ProfileFacts DEF Hybrid
  <1>3. Window(h) \subseteq Parts
    <2>1. Profile[Kind[h]].window \in Parts
      BY <1>1, ProfileFacts
    <2> QED
      BY <2>1 DEF Window, Parts
  <1> QED
    BY <1>1, <1>2, <1>3 DEF Hybrid

\* The images of a library are images, and what they give a binding is symbols.
LEMMA OpenedFacts ==
    ASSUME NEW k \in Loaded
    PROVE  /\ \A n \in 1 .. Len(Paths(k)) : Paths(k)[n] \in Images
           /\ \A i \in Images : Functions(k, i) \subseteq Symbols
           /\ \A i \in Images : Bind(k, i) \in SUBSET (Images \X Symbols)
  <1>1. \A n \in 1 .. Len(Paths(k)) : Paths(k)[n] \in Images
    BY DEF Paths, Images, Loaded, Kinds
  <1>2. \A i \in Images : Functions(k, i) \subseteq Symbols
    BY DEF Functions, Symbols, Loaded, Kinds
  <1> QED
    BY <1>1, <1>2 DEF Bind

\* Every step keeps the types.
LEMMA TypeStep ==
    ASSUME TypeOK, [Next]_vars
    PROVE  TypeOK'
  <1>pc. pc \in [Hooks -> Stages]
    BY DEF TypeOK
  <1>outcome. outcome \in [Hooks -> Outcomes]
    BY DEF TypeOK
  <1>verdict. verdict \in [Hooks -> {"none", "available", "unavailable"}]
    BY DEF TypeOK
  <1>cacheLock. cacheLock \in [Loaded -> Hooks \cup {Free}]
    BY DEF TypeOK
  <1>stateLock. stateLock \in [Loaded -> Hooks \cup {Free}]
    BY DEF TypeOK
  <1>bound. bound \in [Loaded -> SUBSET (Images \X Symbols)] /\ global \subseteq Images
    BY DEF TypeOK
  <1>loads. loads \in [Hooks -> SUBSET Images]
    BY DEF TypeOK
  <1>entry. entry \in [Targets -> [Parts -> Words]]
    BY DEF TypeOK
  <1>patches. patches \in 0 .. ForeignWrites
    BY DEF TypeOK
  <1>touched. touched \in [Hooks -> BOOLEAN]
    BY DEF TypeOK
  <1>inspected. inspected \in [Hooks -> [Parts -> Words]]
    BY DEF TypeOK
  <1>body. body \in [Hooks -> [Parts -> Words]]
    BY DEF TypeOK
  <1>page. page \in [Hooks -> {"none", "exec_alloc", "static_use"}]
    BY DEF TypeOK
  <1>prepareEffects. prepareEffects \in [Hooks -> SUBSET Effects]
    BY DEF TypeOK
  <1>commitEffects. commitEffects \in [Hooks -> SUBSET Effects]
    BY DEF TypeOK
  <1>result. result \in [Hooks -> {"NONE", "COMPLETE", "UNKNOWN"}]
    BY DEF TypeOK
  <1>owner. owner \subseteq Targets
    BY DEF TypeOK
  <1>1. CASE UNCHANGED vars
    BY <1>1
       DEF vars, diskVars, findVars, bindVars, codeVars, pageVars, coreVars,
           callVars, TypeOK, Stages, Outcomes
  <1>2. ASSUME NEW i \in Images, HostLoads(i) PROVE TypeOK'
    BY <1>2
       DEF HostLoads, diskVars, findVars, bindVars, codeVars, pageVars, coreVars,
           callVars, TypeOK, Stages, Outcomes
  <1>3. ASSUME NEW t \in Targets, NEW i \in Parts, ForeignPatch(t, i) PROVE TypeOK'
    <2>1. entry' \in [Targets -> [Parts -> Words]]
      BY <1>3, <1>entry DEF ForeignPatch, Words, codeVars
    <2>2. patches' \in 0 .. ForeignWrites
      BY <1>3, <1>patches, WorldAssumption DEF ForeignPatch
    <2> QED
      BY <1>3, <2>1, <2>2
         DEF ForeignPatch, diskVars, findVars, bindVars, codeVars, pageVars,
             coreVars, callVars, TypeOK
  <1>4. ASSUME NEW h \in Hooks, DiscoverDobby(h)
         PROVE  TypeOK'
    BY <1>4
       DEF DiscoverDobby, Answer, Goto, diskVars, findVars, bindVars, codeVars,
           pageVars, coreVars, callVars, TypeOK, Stages, Outcomes
  <1>5. ASSUME NEW h \in Hooks, DiscoverLive(h)
         PROVE  TypeOK'
    <2>1. pc' \in [Hooks -> Stages]
      BY <1>5, <1>pc DEF DiscoverLive, Answer, Goto, Stages
    <2>2. verdict' \in [Hooks -> {"none", "available", "unavailable"}]
      BY <1>5, <1>verdict DEF DiscoverLive, Answer
    <2> QED
      BY <1>5, <2>1, <2>2
         DEF DiscoverLive, diskVars, findVars, bindVars, codeVars, pageVars,
             coreVars, callVars, TypeOK
  <1>6. ASSUME NEW h \in Hooks, Recall(h)
         PROVE  TypeOK'
    <2>1. pc' \in [Hooks -> Stages]
      BY <1>6, <1>pc DEF Recall, Answer, Goto, Stages
    <2>2. verdict' \in [Hooks -> {"none", "available", "unavailable"}]
      BY <1>6, <1>verdict DEF Recall, Answer
    <2> QED
      BY <1>6, <2>1, <2>2
         DEF Recall, diskVars, findVars, bindVars, codeVars, pageVars, coreVars,
             callVars, TypeOK
  <1>7. ASSUME NEW h \in Hooks, AwaitCache(h)
         PROVE  TypeOK'
    <2>1. pc' \in [Hooks -> Stages]
      BY <1>7, <1>pc DEF AwaitCache, Goto, Stages
    <2>2. cacheLock' \in [Loaded -> Hooks \cup {Free}]
      BY <1>7, <1>cacheLock DEF AwaitCache
    <2> QED
      BY <1>7, <2>1, <2>2
         DEF AwaitCache, diskVars, findVars, bindVars, codeVars, pageVars,
             coreVars, callVars, TypeOK
  <1>8. ASSUME NEW h \in Hooks, ClearCache(h)
         PROVE  TypeOK'
    BY <1>8
       DEF ClearCache, diskVars, findVars, bindVars, codeVars, pageVars, coreVars,
           callVars, TypeOK, Stages, Outcomes
  <1>9. ASSUME NEW h \in Hooks, Probe(h)
         PROVE  TypeOK'
    BY <1>9
       DEF Probe, Goto, diskVars, findVars, bindVars, codeVars, pageVars, coreVars,
           callVars, TypeOK, Stages, Outcomes
  <1>10. ASSUME NEW h \in Hooks, Reread(h)
         PROVE  TypeOK'
    BY <1>10
       DEF Reread, Answer, Goto, diskVars, findVars, bindVars, codeVars, pageVars,
           coreVars, callVars, TypeOK, Stages, Outcomes
  <1>11. ASSUME NEW h \in Hooks, Analyze(h)
         PROVE  TypeOK'
    BY <1>11
       DEF Analyze, Goto, diskVars, findVars, bindVars, codeVars, pageVars,
           coreVars, callVars, TypeOK, Stages, Outcomes
  <1>12. ASSUME NEW h \in Hooks, Validate(h)
         PROVE  TypeOK'
    <2>1. pc' \in [Hooks -> Stages]
      BY <1>12, <1>pc DEF Validate, PrepareFails, Goto, Stages
    <2>2. outcome' \in [Hooks -> Outcomes]
      BY <1>12, <1>outcome DEF Validate, PrepareFails, Outcomes
    <2> QED
      BY <1>12, <2>1, <2>2
         DEF Validate, diskVars, findVars, bindVars, codeVars, pageVars, coreVars,
             callVars, TypeOK
  <1>13. ASSUME NEW h \in Hooks, Inspect(h)
         PROVE  TypeOK'
    <2>1. pc' \in [Hooks -> Stages]
      BY <1>13, <1>pc DEF Inspect, PrepareFails, Goto, Stages
    <2>2. outcome' \in [Hooks -> Outcomes]
      BY <1>13, <1>outcome DEF Inspect, PrepareFails, Outcomes
    <2>3. inspected' \in [Hooks -> [Parts -> Words]]
      BY <1>13, <1>inspected, HooksAssumption, <1>entry DEF Inspect
    <2> QED
      BY <1>13, <2>1, <2>2, <2>3
         DEF Inspect, diskVars, findVars, bindVars, codeVars, pageVars, coreVars,
             callVars, TypeOK
  <1>14. ASSUME NEW h \in Hooks, Relocate(h)
         PROVE  TypeOK'
    <2>1. pc' \in [Hooks -> Stages]
      BY <1>14, <1>pc DEF Relocate, PrepareFails, Goto, Stages
    <2>2. outcome' \in [Hooks -> Outcomes]
      BY <1>14, <1>outcome DEF Relocate, PrepareFails, Outcomes
    <2>3. page' \in [Hooks -> {"none", "exec_alloc", "static_use"}]
      BY <1>14, <1>page DEF Relocate
    <2>4. body' \in [Hooks -> [Parts -> Words]]
      BY <1>14, <1>body, HooksAssumption, <1>entry DEF Relocate
    <2> QED
      BY <1>14, <2>1, <2>2, <2>3, <2>4
         DEF Relocate, diskVars, findVars, bindVars, codeVars, pageVars, coreVars,
             callVars, TypeOK
  <1>15. ASSUME NEW h \in Hooks, ActivateNothing(h)
         PROVE  TypeOK'
    <2>1. pc' \in [Hooks -> Stages]
      BY <1>15, <1>pc DEF ActivateNothing, Prepared, Goto, Stages
    <2>2. outcome' \in [Hooks -> Outcomes]
      BY <1>15, <1>outcome DEF ActivateNothing, Prepared, Outcomes
    <2>3. prepareEffects' \in [Hooks -> SUBSET Effects]
      BY <1>15, <1>prepareEffects, <1>page
         DEF ActivateNothing, Prepared, PageEffect, Effects
    <2> QED
      BY <1>15, <2>1, <2>2, <2>3
         DEF ActivateNothing, Prepared, diskVars, findVars, bindVars, codeVars,
             pageVars, coreVars, callVars, TypeOK
  <1>16. ASSUME NEW h \in Hooks, ActivateGlobal(h)
         PROVE  TypeOK'
    <2>1. pc' \in [Hooks -> Stages]
      BY <1>16, <1>pc DEF ActivateGlobal, Prepared, Goto, Stages
    <2>2. outcome' \in [Hooks -> Outcomes]
      BY <1>16, <1>outcome DEF ActivateGlobal, Prepared, Outcomes
    <2>3. prepareEffects' \in [Hooks -> SUBSET Effects]
      BY <1>16, <1>prepareEffects, <1>page
         DEF ActivateGlobal, Prepared, PageEffect, Activation, Effects
    <2>4. bound' \in [Loaded -> SUBSET (Images \X Symbols)]
      BY <1>16, <1>bound DEF ActivateGlobal, GlobalBinding, Loaded, Kinds, Symbols
    <2> QED
      BY <1>16, <2>1, <2>2, <2>3, <2>4
         DEF ActivateGlobal, Prepared, diskVars, findVars, bindVars, codeVars,
             pageVars, coreVars, callVars, TypeOK
  <1>17. ASSUME NEW h \in Hooks, NEW ok \in Openable, ActivateFromDisk(h, ok)
         PROVE  TypeOK'
    <2> DEFINE k == Kind[h]
               opened == {Paths(k)[n] : n \in Opened(k, ok)}
               usable == {i \in opened : Functions(k, i) # {}}
               effects == IF Reports(k, opened, usable) THEN Activation ELSE {}
    <2>1. k \in Loaded
      BY <1>17 DEF ActivateFromDisk
    <2>2. opened \subseteq Images /\ usable \subseteq opened
      BY <2>1, OpenedFacts DEF Opened
    <2>3. pc' \in [Hooks -> Stages]
      BY <1>17, <1>pc
         DEF ActivateFromDisk, Prepared, ActivationFails, PrepareFails, Goto,
             Stages
    <2>4. outcome' \in [Hooks -> Outcomes]
      BY <1>17, <1>outcome
         DEF ActivateFromDisk, Prepared, ActivationFails, PrepareFails, Outcomes
    <2>5. page' \in [Hooks -> {"none", "exec_alloc", "static_use"}]
      BY <1>17, <1>page DEF ActivateFromDisk, Prepared, ActivationFails
    <2>6. prepareEffects' \in [Hooks -> SUBSET Effects]
      <3>1. \/ prepareEffects' = [prepareEffects EXCEPT ![h] = effects \cup PageEffect(h)]
            \/ prepareEffects' = [prepareEffects EXCEPT ![h] = effects]
        BY <1>17 DEF ActivateFromDisk, Prepared
      <3>2. effects \subseteq Effects
        BY DEF Activation, Effects
      <3>3. PageEffect(h) \subseteq Effects
        BY <1>page DEF PageEffect, Effects
      <3> HIDE DEF effects
      <3> QED
        BY <3>1, <3>2, <3>3, <1>prepareEffects
    <2>7. bound' \in [Loaded -> SUBSET (Images \X Symbols)]
      <3>1. bound' = [bound EXCEPT ![k] = UNION {Bind(k, i) : i \in usable}]
        BY <1>17 DEF ActivateFromDisk
      <3>2. \A i \in usable : Bind(k, i) \in SUBSET (Images \X Symbols)
        BY <2>1, <2>2, OpenedFacts
      <3> HIDE DEF usable, k
      <3>3. UNION {Bind(k, i) : i \in usable} \in SUBSET (Images \X Symbols)
        BY <3>2
      <3> QED
        BY <3>1, <3>3, <1>bound
    <2>8. loads' \in [Hooks -> SUBSET Images]
      <3>1. loads' = [loads EXCEPT ![h] = @ \cup opened]
        BY <1>17 DEF ActivateFromDisk
      <3> HIDE DEF opened
      <3> QED
        BY <2>2, <3>1, <1>loads
    <2> QED
      BY <1>17, <2>3, <2>4, <2>5, <2>6, <2>7, <2>8
         DEF ActivateFromDisk, diskVars, findVars, bindVars, codeVars, pageVars,
             coreVars, callVars, TypeOK
  <1>18. ASSUME NEW h \in Hooks, CommitConflict(h)
         PROVE  TypeOK'
    BY <1>18
       DEF CommitConflict, Goto, diskVars, findVars, bindVars, codeVars, pageVars,
           coreVars, callVars, TypeOK, Stages, Outcomes
  <1>19. ASSUME NEW h \in Hooks, BeginCommit(h)
         PROVE  TypeOK'
    BY <1>19
       DEF BeginCommit, Goto, diskVars, findVars, bindVars, codeVars, pageVars,
           coreVars, callVars, TypeOK, Stages, Outcomes
  <1>20. ASSUME NEW h \in Hooks, Revalidate(h)
         PROVE  TypeOK'
    BY <1>20
       DEF Revalidate, Goto, PublishedEarly, diskVars, findVars, bindVars,
           codeVars, pageVars, coreVars, callVars, TypeOK, Stages, Outcomes
  <1>21. ASSUME NEW h \in Hooks, RevalidateFails(h)
         PROVE  TypeOK'
    BY <1>21
       DEF RevalidateFails, Goto, diskVars, findVars, bindVars, codeVars, pageVars,
           coreVars, callVars, TypeOK, Stages, Outcomes
  <1>22. ASSUME NEW h \in Hooks, EnterVendor(h)
         PROVE  TypeOK'
    BY <1>22
       DEF EnterVendor, Goto, diskVars, findVars, bindVars, codeVars, pageVars,
           coreVars, callVars, TypeOK, Stages, Outcomes
  <1>23. ASSUME NEW h \in Hooks, VendorPublishes(h)
         PROVE  TypeOK'
    BY <1>23
       DEF VendorPublishes, diskVars, findVars, bindVars, codeVars, pageVars,
           coreVars, callVars, TypeOK, Stages, Outcomes
  <1>24. ASSUME NEW h \in Hooks, NEW n \in Parts, VendorPatches(h, n)
         PROVE  TypeOK'
    <2>1. pc' \in [Hooks -> Stages]
      BY <1>24, <1>pc DEF VendorPatches, Goto, Stages
    <2>2. entry' \in [Targets -> [Parts -> Words]]
      BY <1>24, <1>entry DEF VendorPatches, Overwritten, Words
    <2> QED
      BY <1>24, <2>1, <2>2
         DEF VendorPatches, diskVars, findVars, bindVars, codeVars, pageVars,
             coreVars, callVars, TypeOK
  <1>25. ASSUME NEW h \in Hooks, NEW n \in 0 .. 2, VendorFails(h, n)
         PROVE  TypeOK'
    <2>1. PICK w \in {h, Torn} : entry' = Overwritten(h, n, w)
      BY <1>25 DEF VendorFails
    <2>2. entry' \in [Targets -> [Parts -> Words]]
      BY <2>1, <1>entry DEF Overwritten, Words
    <2>3. pc' \in [Hooks -> Stages]
      BY <1>25, <1>pc DEF VendorFails, Goto, Stages
    <2>4. touched' \in [Hooks -> BOOLEAN]
      BY <1>25, <1>touched DEF VendorFails
    <2> QED
      BY <1>25, <2>2, <2>3, <2>4
         DEF VendorFails, diskVars, findVars, bindVars, codeVars, pageVars,
             coreVars, callVars, TypeOK
  <1>26. ASSUME NEW h \in Hooks, VendorReturns(h)
         PROVE  TypeOK'
    <2>1. pc' \in [Hooks -> Stages]
      BY <1>26, <1>pc DEF VendorReturns, Goto, Stages
    <2>2. stateLock' \in [Loaded -> Hooks \cup {Free}]
      BY <1>26, <1>stateLock DEF VendorReturns, Unlocked
    <2>3. commitEffects' \in [Hooks -> SUBSET Effects]
      BY <1>26, <1>commitEffects, <1>page
         DEF VendorReturns, PageEffect, TrampolineEffect, Effects
    <2>4. result' \in [Hooks -> {"NONE", "COMPLETE", "UNKNOWN"}]
      BY <1>26, <1>result DEF VendorReturns
    <2> QED
      BY <1>26, <2>1, <2>2, <2>3, <2>4
         DEF VendorReturns, diskVars, findVars, bindVars, codeVars, pageVars,
             coreVars, callVars, TypeOK
  <1>27. ASSUME NEW h \in Hooks, VendorReturnsFailure(h)
         PROVE  TypeOK'
    <2>1. pc' \in [Hooks -> Stages]
      BY <1>27, <1>pc DEF VendorReturnsFailure, Goto, Stages
    <2>2. stateLock' \in [Loaded -> Hooks \cup {Free}]
      BY <1>27, <1>stateLock DEF VendorReturnsFailure, Unlocked
    <2>3. commitEffects' \in [Hooks -> SUBSET Effects]
      BY <1>27, <1>commitEffects, <1>page
         DEF VendorReturnsFailure, PageEffect, Effects
    <2>4. result' \in [Hooks -> {"NONE", "COMPLETE", "UNKNOWN"}]
      BY <1>27, <1>result DEF VendorReturnsFailure, FailedCall
    <2> QED
      BY <1>27, <2>1, <2>2, <2>3, <2>4
         DEF VendorReturnsFailure, diskVars, findVars, bindVars, codeVars,
             pageVars, coreVars, callVars, TypeOK
  <1>28. ASSUME NEW h \in Hooks, FinishCommit(h)
         PROVE  TypeOK'
    <2>1. pc' \in [Hooks -> Stages]
      BY <1>28, <1>pc DEF FinishCommit, Goto, Stages
    <2>2. outcome' \in [Hooks -> Outcomes]
      BY <1>28, <1>outcome DEF FinishCommit, Outcomes
    <2>3. owner' \subseteq Targets
      BY <1>28, <1>owner, HooksAssumption DEF FinishCommit
    <2> QED
      BY <1>28, <2>1, <2>2, <2>3
         DEF FinishCommit, diskVars, findVars, bindVars, codeVars, pageVars,
             coreVars, callVars, TypeOK
  <1>29. ASSUME NEW h \in Hooks, Release(h)
         PROVE  TypeOK'
    BY <1>29
       DEF Release, Goto, KeepsPage, diskVars, findVars, bindVars, codeVars,
           pageVars, coreVars, callVars, TypeOK, Stages, Outcomes
  <1> QED
    BY <1>1, <1>2, <1>3, <1>4, <1>5, <1>6, <1>7, <1>8, <1>9, <1>10, <1>11,
       <1>12, <1>13, <1>14, <1>15, <1>16, <1>17, <1>18, <1>19, <1>20, <1>21,
       <1>22, <1>23, <1>24, <1>25, <1>26, <1>27, <1>28, <1>29
       DEF Next, Step, Discover, Prepare, Commit

-----------------------------------------------------------------------------
(* The inductive invariant, in five parts.                                 *)

\* Stages of a commit, which holds the ownership lock.
Committing == {"check", "call", "inside", "returned", "unsuccessful", "finish"}

\* One commit at a time.
CommitsExclude == \A h \in Hooks : pc[h] \in Committing => lock = h

\* How far a hook has come decides whether the vendor was called, what it may
\* have done to the target, and which result and outcome can stand for that.
CallAccounted ==
    \A h \in Hooks :
        /\ touched[h] => /\ called[h]
                         /\ pc[h] \in {"returned", "unsuccessful", "finish", "done", "released"}
        /\ called[h] => pc[h] \in {"call", "inside", "returned", "unsuccessful", "finish",
                                   "done", "released"}
        /\ pc[h] \in {"call", "inside", "returned", "unsuccessful"} => called[h]
        /\ pc[h] = "returned" =>
              touched[h] /\ (Profile[Kind[h]].early => cell[h] = "vendor")
        /\ result[h] # "NONE" => pc[h] \in {"finish", "done", "released"}
        /\ pc[h] = "finish" /\ result[h] = "NONE" => ~touched[h]
        /\ result[h] = "COMPLETE" =>
              touched[h] /\ (Profile[Kind[h]].early => cell[h] # "none")
        /\ outcome[h] \in {"FAILED_SAFE", "CONFLICT", "ACTIVE"} =>
              pc[h] \in {"failed", "done", "released"}
        /\ outcome[h] \in {"FAILED_SAFE", "CONFLICT"} => ~touched[h]
        /\ outcome[h] = "ACTIVE" => result[h] = "COMPLETE"

\* A hybrid hook has its page from the relocation on, keeps it once the vendor
\* was called, and has it in its cell by then.
PagesHeld ==
    \A h \in Hooks :
        /\ pc[h] = "relocate" => Hybrid(h)
        /\ page[h] # "none" =>
              /\ Hybrid(h)
              /\ called[h] \/ pc[h] \in {"activate", "prepared", "check", "finish", "done"}
        /\ Hybrid(h) /\ (called[h] \/ pc[h] \in {"activate", "prepared", "check"}) =>
              page[h] # "none"
        /\ Hybrid(h) /\ called[h] => cell[h] = "page"

\* A branch to a replacement is in an entry, or was seen there, only if its hook's
\* vendor wrote it.  While the vendor is called the window is as inspected, but for
\* foreign code; and a continuation that differs from what was inspected shows in
\* the entry, unless foreign or torn code was inspected.
EntriesAccounted ==
    /\ \A t \in Targets, i \in Parts, g \in Hooks : entry[t][i] = g => touched[g]
    /\ \A h \in Hooks, i \in Parts, g \in Hooks : inspected[h][i] = g => touched[g]
    /\ \A h \in Hooks : pc[h] \in {"call", "inside"} =>
          \A i \in Window(h) : entry[Target[h]][i] \in {Foreign, inspected[h][i]}
    /\ \A h \in Hooks :
          Hybrid(h) /\ pc[h] \in {"activate", "prepared", "check", "call", "inside"} =>
              \A i \in Parts : \/ inspected[h][i] \in {body[h][i], Foreign, Torn}
                               \/ entry[Target[h]][i] # inspected[h][i]

\* What a cache and a binding say of the files, and which hooks rely on it.
CachesTrue ==
    /\ \A k \in Loaded : cache[k] = "yes" => OnDisk(k)
    /\ cache["gum"] = "no" => ~OnDisk("gum")
    /\ bound["substitute"] # {} => SubstituteInstalled
    /\ \A h \in Hooks :
          /\ pc[h] \in {"recall", "await", "probe", "reread"} => Kind[h] \in Loaded
          /\ pc[h] = "reread" => cache[Kind[h]] # "unknown"
          /\ pc[h] \in {"analyze", "validate", "inspect", "relocate", "activate"} =>
                verdict[h] = "available"

\* Images are loaded by an activation; those that did not suffice bind nothing.
LoadsAccounted ==
    \A h \in Hooks :
        /\ loads[h] # {} =>
              /\ Kind[h] \in Loaded
              /\ pc[h] \in {"prepared", "failed", "done", "released"} \cup Committing
        /\ Kind[h] \in Loaded /\ bound[Kind[h]] = {} =>
              \A i \in loads[h] : Functions(Kind[h], i) = {}

-----------------------------------------------------------------------------
\* A hook takes the lock when it begins a commit and gives it up at the end.
LEMMA ExclusionStep ==
    ASSUME TypeOK, CommitsExclude, [Next]_vars
    PROVE  CommitsExclude'
  <1>types. /\ pc \in [Hooks -> Stages]
            /\ lock \in Hooks \cup {Free}
    BY DEF TypeOK
  <1>1. CASE UNCHANGED vars
    BY <1>1, <1>types
       DEF vars, diskVars, findVars, bindVars, codeVars, pageVars, coreVars,
           callVars, CommitsExclude, Committing
  <1>2. ASSUME NEW i \in Images, HostLoads(i) PROVE CommitsExclude'
    BY <1>2, <1>types
       DEF HostLoads, diskVars, findVars, bindVars, codeVars, pageVars, coreVars,
           callVars, CommitsExclude, Committing
  <1>3. ASSUME NEW t \in Targets, NEW i \in Parts, ForeignPatch(t, i) PROVE CommitsExclude'
    BY <1>3, <1>types
       DEF ForeignPatch, diskVars, findVars, bindVars, codeVars, pageVars,
           coreVars, callVars, CommitsExclude, Committing
  <1>4. ASSUME NEW h \in Hooks, DiscoverDobby(h)
         PROVE  CommitsExclude'
    BY <1>4, <1>types
       DEF DiscoverDobby, Answer, Goto, diskVars, findVars, bindVars, codeVars,
           pageVars, coreVars, callVars, CommitsExclude, Committing
  <1>5. ASSUME NEW h \in Hooks, DiscoverLive(h)
         PROVE  CommitsExclude'
    BY <1>5, <1>types
       DEF DiscoverLive, Answer, Goto, diskVars, findVars, bindVars, codeVars,
           pageVars, coreVars, callVars, CommitsExclude, Committing
  <1>6. ASSUME NEW h \in Hooks, Recall(h)
         PROVE  CommitsExclude'
    BY <1>6, <1>types
       DEF Recall, Answer, Goto, diskVars, findVars, bindVars, codeVars, pageVars,
           coreVars, callVars, CommitsExclude, Committing
  <1>7. ASSUME NEW h \in Hooks, AwaitCache(h)
         PROVE  CommitsExclude'
    BY <1>7, <1>types
       DEF AwaitCache, Goto, diskVars, findVars, bindVars, codeVars, pageVars,
           coreVars, callVars, CommitsExclude, Committing
  <1>8. ASSUME NEW h \in Hooks, ClearCache(h)
         PROVE  CommitsExclude'
    BY <1>8, <1>types
       DEF ClearCache, diskVars, findVars, bindVars, codeVars, pageVars, coreVars,
           callVars, CommitsExclude, Committing
  <1>9. ASSUME NEW h \in Hooks, Probe(h)
         PROVE  CommitsExclude'
    BY <1>9, <1>types
       DEF Probe, Goto, diskVars, findVars, bindVars, codeVars, pageVars, coreVars,
           callVars, CommitsExclude, Committing
  <1>10. ASSUME NEW h \in Hooks, Reread(h)
         PROVE  CommitsExclude'
    BY <1>10, <1>types
       DEF Reread, Answer, Goto, diskVars, findVars, bindVars, codeVars, pageVars,
           coreVars, callVars, CommitsExclude, Committing
  <1>11. ASSUME NEW h \in Hooks, Analyze(h)
         PROVE  CommitsExclude'
    BY <1>11, <1>types
       DEF Analyze, Goto, diskVars, findVars, bindVars, codeVars, pageVars,
           coreVars, callVars, CommitsExclude, Committing
  <1>12. ASSUME NEW h \in Hooks, Validate(h)
         PROVE  CommitsExclude'
    BY <1>12, <1>types
       DEF Validate, PrepareFails, Goto, diskVars, findVars, bindVars, codeVars,
           pageVars, coreVars, callVars, CommitsExclude, Committing
  <1>13. ASSUME NEW h \in Hooks, Inspect(h)
         PROVE  CommitsExclude'
    BY <1>13, <1>types
       DEF Inspect, PrepareFails, Goto, diskVars, findVars, bindVars, codeVars,
           pageVars, coreVars, callVars, CommitsExclude, Committing
  <1>14. ASSUME NEW h \in Hooks, Relocate(h)
         PROVE  CommitsExclude'
    BY <1>14, <1>types
       DEF Relocate, PrepareFails, Goto, diskVars, findVars, bindVars, codeVars,
           pageVars, coreVars, callVars, CommitsExclude, Committing
  <1>15. ASSUME NEW h \in Hooks, ActivateNothing(h)
         PROVE  CommitsExclude'
    BY <1>15, <1>types
       DEF ActivateNothing, Prepared, Goto, diskVars, findVars, bindVars, codeVars,
           pageVars, coreVars, callVars, CommitsExclude, Committing
  <1>16. ASSUME NEW h \in Hooks, ActivateGlobal(h)
         PROVE  CommitsExclude'
    BY <1>16, <1>types
       DEF ActivateGlobal, Prepared, Goto, diskVars, findVars, bindVars, codeVars,
           pageVars, coreVars, callVars, CommitsExclude, Committing
  <1>17. ASSUME NEW h \in Hooks, NEW ok \in Openable, ActivateFromDisk(h, ok)
         PROVE  CommitsExclude'
    BY <1>17, <1>types
       DEF ActivateFromDisk, Prepared, PrepareFails, ActivationFails, Goto,
           diskVars, findVars, bindVars, codeVars, pageVars, coreVars, callVars,
           CommitsExclude, Committing
  <1>18. ASSUME NEW h \in Hooks, CommitConflict(h)
         PROVE  CommitsExclude'
    BY <1>18, <1>types
       DEF CommitConflict, Goto, diskVars, findVars, bindVars, codeVars, pageVars,
           coreVars, callVars, CommitsExclude, Committing
  <1>19. ASSUME NEW h \in Hooks, BeginCommit(h)
         PROVE  CommitsExclude'
    BY <1>19, <1>types, WordsAssumption
       DEF BeginCommit, Goto, diskVars, findVars, bindVars, codeVars, pageVars,
           coreVars, callVars, CommitsExclude, Committing
  <1>20. ASSUME NEW h \in Hooks, Revalidate(h)
         PROVE  CommitsExclude'
    BY <1>20, <1>types
       DEF Revalidate, Goto, PublishedEarly, diskVars, findVars, bindVars,
           codeVars, pageVars, coreVars, callVars, CommitsExclude, Committing
  <1>21. ASSUME NEW h \in Hooks, RevalidateFails(h)
         PROVE  CommitsExclude'
    BY <1>21, <1>types
       DEF RevalidateFails, Goto, diskVars, findVars, bindVars, codeVars, pageVars,
           coreVars, callVars, CommitsExclude, Committing
  <1>22. ASSUME NEW h \in Hooks, EnterVendor(h)
         PROVE  CommitsExclude'
    BY <1>22, <1>types
       DEF EnterVendor, Goto, diskVars, findVars, bindVars, codeVars, pageVars,
           coreVars, callVars, CommitsExclude, Committing
  <1>23. ASSUME NEW h \in Hooks, VendorPublishes(h)
         PROVE  CommitsExclude'
    BY <1>23, <1>types
       DEF VendorPublishes, diskVars, findVars, bindVars, codeVars, pageVars,
           coreVars, callVars, CommitsExclude, Committing
  <1>24. ASSUME NEW h \in Hooks, NEW n \in Parts, VendorPatches(h, n)
         PROVE  CommitsExclude'
    BY <1>24, <1>types
       DEF VendorPatches, Goto, Overwritten, diskVars, findVars, bindVars,
           codeVars, pageVars, coreVars, callVars, CommitsExclude, Committing
  <1>25. ASSUME NEW h \in Hooks, NEW n \in 0 .. 2, VendorFails(h, n)
         PROVE  CommitsExclude'
    BY <1>25, <1>types
       DEF VendorFails, Goto, Overwritten, diskVars, findVars, bindVars, codeVars,
           pageVars, coreVars, callVars, CommitsExclude, Committing
  <1>26. ASSUME NEW h \in Hooks, VendorReturns(h)
         PROVE  CommitsExclude'
    BY <1>26, <1>types
       DEF VendorReturns, Goto, Unlocked, diskVars, findVars, bindVars, codeVars,
           pageVars, coreVars, callVars, CommitsExclude, Committing
  <1>27. ASSUME NEW h \in Hooks, VendorReturnsFailure(h)
         PROVE  CommitsExclude'
    BY <1>27, <1>types
       DEF VendorReturnsFailure, Goto, Unlocked, FailedCall, diskVars, findVars,
           bindVars, codeVars, pageVars, coreVars, callVars, CommitsExclude,
           Committing
  <1>28. ASSUME NEW h \in Hooks, FinishCommit(h)
         PROVE  CommitsExclude'
    BY <1>28, <1>types
       DEF FinishCommit, Goto, diskVars, findVars, bindVars, codeVars, pageVars,
           coreVars, callVars, CommitsExclude, Committing
  <1>29. ASSUME NEW h \in Hooks, Release(h)
         PROVE  CommitsExclude'
    BY <1>29, <1>types
       DEF Release, Goto, KeepsPage, diskVars, findVars, bindVars, codeVars,
           pageVars, coreVars, callVars, CommitsExclude, Committing
  <1> QED
    BY <1>1, <1>2, <1>3, <1>4, <1>5, <1>6, <1>7, <1>8, <1>9, <1>10, <1>11,
       <1>12, <1>13, <1>14, <1>15, <1>16, <1>17, <1>18, <1>19, <1>20, <1>21,
       <1>22, <1>23, <1>24, <1>25, <1>26, <1>27, <1>28, <1>29
       DEF Next, Step, Discover, Prepare, Commit

\* The vendor is called once; what it did decides the result and the outcome.
LEMMA CallStep ==
    ASSUME TypeOK, CallAccounted, [Next]_vars
    PROVE  CallAccounted'
  <1>types. /\ pc \in [Hooks -> Stages]
            /\ touched \in [Hooks -> BOOLEAN]
            /\ called \in [Hooks -> BOOLEAN]
            /\ cell \in [Hooks -> {"none", "page", "vendor"}]
            /\ result \in [Hooks -> {"NONE", "COMPLETE", "UNKNOWN"}]
            /\ outcome \in [Hooks -> Outcomes]
    BY DEF TypeOK
  <1>1. CASE UNCHANGED vars
    BY <1>1, <1>types
       DEF vars, diskVars, findVars, bindVars, codeVars, pageVars, coreVars,
           callVars, CallAccounted
  <1>2. ASSUME NEW i \in Images, HostLoads(i) PROVE CallAccounted'
    BY <1>2, <1>types
       DEF HostLoads, diskVars, findVars, bindVars, codeVars, pageVars, coreVars,
           callVars, CallAccounted
  <1>3. ASSUME NEW t \in Targets, NEW i \in Parts, ForeignPatch(t, i) PROVE CallAccounted'
    BY <1>3, <1>types
       DEF ForeignPatch, diskVars, findVars, bindVars, codeVars, pageVars,
           coreVars, callVars, CallAccounted
  <1>4. ASSUME NEW h \in Hooks, DiscoverDobby(h)
         PROVE  CallAccounted'
    BY <1>4, <1>types
       DEF DiscoverDobby, Answer, Goto, diskVars, findVars, bindVars, codeVars,
           pageVars, coreVars, callVars, CallAccounted
  <1>5. ASSUME NEW h \in Hooks, DiscoverLive(h)
         PROVE  CallAccounted'
    BY <1>5, <1>types
       DEF DiscoverLive, Answer, Goto, diskVars, findVars, bindVars, codeVars,
           pageVars, coreVars, callVars, CallAccounted
  <1>6. ASSUME NEW h \in Hooks, Recall(h)
         PROVE  CallAccounted'
    BY <1>6, <1>types
       DEF Recall, Answer, Goto, diskVars, findVars, bindVars, codeVars, pageVars,
           coreVars, callVars, CallAccounted
  <1>7. ASSUME NEW h \in Hooks, AwaitCache(h)
         PROVE  CallAccounted'
    BY <1>7, <1>types
       DEF AwaitCache, Goto, diskVars, findVars, bindVars, codeVars, pageVars,
           coreVars, callVars, CallAccounted
  <1>8. ASSUME NEW h \in Hooks, ClearCache(h)
         PROVE  CallAccounted'
    BY <1>8, <1>types
       DEF ClearCache, diskVars, findVars, bindVars, codeVars, pageVars, coreVars,
           callVars, CallAccounted
  <1>9. ASSUME NEW h \in Hooks, Probe(h)
         PROVE  CallAccounted'
    BY <1>9, <1>types
       DEF Probe, Goto, diskVars, findVars, bindVars, codeVars, pageVars, coreVars,
           callVars, CallAccounted
  <1>10. ASSUME NEW h \in Hooks, Reread(h)
         PROVE  CallAccounted'
    BY <1>10, <1>types
       DEF Reread, Answer, Goto, diskVars, findVars, bindVars, codeVars, pageVars,
           coreVars, callVars, CallAccounted
  <1>11. ASSUME NEW h \in Hooks, Analyze(h)
         PROVE  CallAccounted'
    BY <1>11, <1>types
       DEF Analyze, Goto, diskVars, findVars, bindVars, codeVars, pageVars,
           coreVars, callVars, CallAccounted
  <1>12. ASSUME NEW h \in Hooks, Validate(h)
         PROVE  CallAccounted'
    BY <1>12, <1>types
       DEF Validate, PrepareFails, Goto, diskVars, findVars, bindVars, codeVars,
           pageVars, coreVars, callVars, CallAccounted
  <1>13. ASSUME NEW h \in Hooks, Inspect(h)
         PROVE  CallAccounted'
    BY <1>13, <1>types
       DEF Inspect, PrepareFails, Goto, diskVars, findVars, bindVars, codeVars,
           pageVars, coreVars, callVars, CallAccounted
  <1>14. ASSUME NEW h \in Hooks, Relocate(h)
         PROVE  CallAccounted'
    BY <1>14, <1>types
       DEF Relocate, PrepareFails, Goto, diskVars, findVars, bindVars, codeVars,
           pageVars, coreVars, callVars, CallAccounted
  <1>15. ASSUME NEW h \in Hooks, ActivateNothing(h)
         PROVE  CallAccounted'
    BY <1>15, <1>types
       DEF ActivateNothing, Prepared, Goto, diskVars, findVars, bindVars, codeVars,
           pageVars, coreVars, callVars, CallAccounted
  <1>16. ASSUME NEW h \in Hooks, ActivateGlobal(h)
         PROVE  CallAccounted'
    BY <1>16, <1>types
       DEF ActivateGlobal, Prepared, Goto, diskVars, findVars, bindVars, codeVars,
           pageVars, coreVars, callVars, CallAccounted
  <1>17. ASSUME NEW h \in Hooks, NEW ok \in Openable, ActivateFromDisk(h, ok)
         PROVE  CallAccounted'
    BY <1>17, <1>types
       DEF ActivateFromDisk, Prepared, PrepareFails, ActivationFails, Goto,
           diskVars, findVars, bindVars, codeVars, pageVars, coreVars, callVars,
           CallAccounted
  <1>18. ASSUME NEW h \in Hooks, CommitConflict(h)
         PROVE  CallAccounted'
    BY <1>18, <1>types
       DEF CommitConflict, Goto, diskVars, findVars, bindVars, codeVars, pageVars,
           coreVars, callVars, CallAccounted
  <1>19. ASSUME NEW h \in Hooks, BeginCommit(h)
         PROVE  CallAccounted'
    BY <1>19, <1>types
       DEF BeginCommit, Goto, diskVars, findVars, bindVars, codeVars, pageVars,
           coreVars, callVars, CallAccounted
  <1>20. ASSUME NEW h \in Hooks, Revalidate(h)
         PROVE  CallAccounted'
    BY <1>20, <1>types
       DEF Revalidate, Goto, PublishedEarly, diskVars, findVars, bindVars,
           codeVars, pageVars, coreVars, callVars, CallAccounted
  <1>21. ASSUME NEW h \in Hooks, RevalidateFails(h)
         PROVE  CallAccounted'
    BY <1>21, <1>types
       DEF RevalidateFails, Goto, diskVars, findVars, bindVars, codeVars, pageVars,
           coreVars, callVars, CallAccounted
  <1>22. ASSUME NEW h \in Hooks, EnterVendor(h)
         PROVE  CallAccounted'
    BY <1>22, <1>types
       DEF EnterVendor, Goto, diskVars, findVars, bindVars, codeVars, pageVars,
           coreVars, callVars, CallAccounted
  <1>23. ASSUME NEW h \in Hooks, VendorPublishes(h)
         PROVE  CallAccounted'
    BY <1>23, <1>types
       DEF VendorPublishes, diskVars, findVars, bindVars, codeVars, pageVars,
           coreVars, callVars, CallAccounted
  <1>24. ASSUME NEW h \in Hooks, NEW n \in Parts, VendorPatches(h, n)
         PROVE  CallAccounted'
    BY <1>24, <1>types
       DEF VendorPatches, Goto, Overwritten, diskVars, findVars, bindVars,
           codeVars, pageVars, coreVars, callVars, CallAccounted
  <1>25. ASSUME NEW h \in Hooks, NEW n \in 0 .. 2, VendorFails(h, n)
         PROVE  CallAccounted'
    BY <1>25, <1>types
       DEF VendorFails, Goto, Overwritten, diskVars, findVars, bindVars, codeVars,
           pageVars, coreVars, callVars, CallAccounted
  <1>26. ASSUME NEW h \in Hooks, VendorReturns(h)
         PROVE  CallAccounted'
    BY <1>26, <1>types
       DEF VendorReturns, Goto, Unlocked, diskVars, findVars, bindVars, codeVars,
           pageVars, coreVars, callVars, CallAccounted
  <1>27. ASSUME NEW h \in Hooks, VendorReturnsFailure(h)
         PROVE  CallAccounted'
    BY <1>27, <1>types
       DEF VendorReturnsFailure, Goto, Unlocked, FailedCall, diskVars, findVars,
           bindVars, codeVars, pageVars, coreVars, callVars, CallAccounted
  <1>28. ASSUME NEW h \in Hooks, FinishCommit(h)
         PROVE  CallAccounted'
    BY <1>28, <1>types
       DEF FinishCommit, Goto, diskVars, findVars, bindVars, codeVars, pageVars,
           coreVars, callVars, CallAccounted
  <1>29. ASSUME NEW h \in Hooks, Release(h)
         PROVE  CallAccounted'
    BY <1>29, <1>types
       DEF Release, Goto, KeepsPage, diskVars, findVars, bindVars, codeVars,
           pageVars, coreVars, callVars, CallAccounted
  <1> QED
    BY <1>1, <1>2, <1>3, <1>4, <1>5, <1>6, <1>7, <1>8, <1>9, <1>10, <1>11,
       <1>12, <1>13, <1>14, <1>15, <1>16, <1>17, <1>18, <1>19, <1>20, <1>21,
       <1>22, <1>23, <1>24, <1>25, <1>26, <1>27, <1>28, <1>29
       DEF Next, Step, Discover, Prepare, Commit

\* A page is taken by the relocation and freed only without a call.
LEMMA PageStep ==
    ASSUME TypeOK, CallAccounted, PagesHeld, [Next]_vars
    PROVE  PagesHeld'
  <1>types. /\ pc \in [Hooks -> Stages]
            /\ page \in [Hooks -> {"none", "exec_alloc", "static_use"}]
            /\ called \in [Hooks -> BOOLEAN]
            /\ cell \in [Hooks -> {"none", "page", "vendor"}]
    BY DEF TypeOK
  <1>early. \A h \in Hooks : Hybrid(h) => ~Profile[Kind[h]].early
    BY HybridFacts
  <1>calls. \A h \in Hooks : pc[h] \in {"relocate", "activate"} => ~called[h]
    BY DEF CallAccounted
  <1>1. CASE UNCHANGED vars
    BY <1>1, <1>types
       DEF vars, diskVars, findVars, bindVars, codeVars, pageVars, coreVars,
           callVars, PagesHeld
  <1>2. ASSUME NEW i \in Images, HostLoads(i) PROVE PagesHeld'
    BY <1>2, <1>types
       DEF HostLoads, diskVars, findVars, bindVars, codeVars, pageVars, coreVars,
           callVars, PagesHeld
  <1>3. ASSUME NEW t \in Targets, NEW i \in Parts, ForeignPatch(t, i) PROVE PagesHeld'
    BY <1>3, <1>types
       DEF ForeignPatch, diskVars, findVars, bindVars, codeVars, pageVars,
           coreVars, callVars, PagesHeld
  <1>4. ASSUME NEW h \in Hooks, DiscoverDobby(h)
         PROVE  PagesHeld'
    BY <1>4, <1>types
       DEF DiscoverDobby, Answer, Goto, diskVars, findVars, bindVars, codeVars,
           pageVars, coreVars, callVars, PagesHeld
  <1>5. ASSUME NEW h \in Hooks, DiscoverLive(h)
         PROVE  PagesHeld'
    BY <1>5, <1>types
       DEF DiscoverLive, Answer, Goto, diskVars, findVars, bindVars, codeVars,
           pageVars, coreVars, callVars, PagesHeld
  <1>6. ASSUME NEW h \in Hooks, Recall(h)
         PROVE  PagesHeld'
    BY <1>6, <1>types
       DEF Recall, Answer, Goto, diskVars, findVars, bindVars, codeVars, pageVars,
           coreVars, callVars, PagesHeld
  <1>7. ASSUME NEW h \in Hooks, AwaitCache(h)
         PROVE  PagesHeld'
    BY <1>7, <1>types
       DEF AwaitCache, Goto, diskVars, findVars, bindVars, codeVars, pageVars,
           coreVars, callVars, PagesHeld
  <1>8. ASSUME NEW h \in Hooks, ClearCache(h)
         PROVE  PagesHeld'
    BY <1>8, <1>types
       DEF ClearCache, diskVars, findVars, bindVars, codeVars, pageVars, coreVars,
           callVars, PagesHeld
  <1>9. ASSUME NEW h \in Hooks, Probe(h)
         PROVE  PagesHeld'
    BY <1>9, <1>types
       DEF Probe, Goto, diskVars, findVars, bindVars, codeVars, pageVars, coreVars,
           callVars, PagesHeld
  <1>10. ASSUME NEW h \in Hooks, Reread(h)
         PROVE  PagesHeld'
    BY <1>10, <1>types
       DEF Reread, Answer, Goto, diskVars, findVars, bindVars, codeVars, pageVars,
           coreVars, callVars, PagesHeld
  <1>11. ASSUME NEW h \in Hooks, Analyze(h)
         PROVE  PagesHeld'
    BY <1>11, <1>types
       DEF Analyze, Goto, diskVars, findVars, bindVars, codeVars, pageVars,
           coreVars, callVars, PagesHeld
  <1>12. ASSUME NEW h \in Hooks, Validate(h)
         PROVE  PagesHeld'
    BY <1>12, <1>types
       DEF Validate, PrepareFails, Goto, diskVars, findVars, bindVars, codeVars,
           pageVars, coreVars, callVars, PagesHeld
  <1>13. ASSUME NEW h \in Hooks, Inspect(h)
         PROVE  PagesHeld'
    BY <1>13, <1>types
       DEF Inspect, PrepareFails, Goto, diskVars, findVars, bindVars, codeVars,
           pageVars, coreVars, callVars, PagesHeld
  <1>14. ASSUME NEW h \in Hooks, Relocate(h)
         PROVE  PagesHeld'
    BY <1>14, <1>types, <1>calls
       DEF Relocate, PrepareFails, Goto, diskVars, findVars, bindVars, codeVars,
           pageVars, coreVars, callVars, PagesHeld
  <1>15. ASSUME NEW h \in Hooks, ActivateNothing(h)
         PROVE  PagesHeld'
    BY <1>15, <1>types
       DEF ActivateNothing, Prepared, Goto, diskVars, findVars, bindVars, codeVars,
           pageVars, coreVars, callVars, PagesHeld
  <1>16. ASSUME NEW h \in Hooks, ActivateGlobal(h)
         PROVE  PagesHeld'
    BY <1>16, <1>types
       DEF ActivateGlobal, Prepared, Goto, diskVars, findVars, bindVars, codeVars,
           pageVars, coreVars, callVars, PagesHeld
  <1>17. ASSUME NEW h \in Hooks, NEW ok \in Openable, ActivateFromDisk(h, ok)
         PROVE  PagesHeld'
    BY <1>17, <1>types, <1>calls
       DEF ActivateFromDisk, Prepared, PrepareFails, ActivationFails, Goto,
           diskVars, findVars, bindVars, codeVars, pageVars, coreVars, callVars,
           PagesHeld
  <1>18. ASSUME NEW h \in Hooks, CommitConflict(h)
         PROVE  PagesHeld'
    BY <1>18, <1>types
       DEF CommitConflict, Goto, diskVars, findVars, bindVars, codeVars, pageVars,
           coreVars, callVars, PagesHeld
  <1>19. ASSUME NEW h \in Hooks, BeginCommit(h)
         PROVE  PagesHeld'
    BY <1>19, <1>types
       DEF BeginCommit, Goto, diskVars, findVars, bindVars, codeVars, pageVars,
           coreVars, callVars, PagesHeld
  <1>20. ASSUME NEW h \in Hooks, Revalidate(h)
         PROVE  PagesHeld'
    BY <1>20, <1>types
       DEF Revalidate, Goto, PublishedEarly, diskVars, findVars, bindVars,
           codeVars, pageVars, coreVars, callVars, PagesHeld
  <1>21. ASSUME NEW h \in Hooks, RevalidateFails(h)
         PROVE  PagesHeld'
    BY <1>21, <1>types
       DEF RevalidateFails, Goto, diskVars, findVars, bindVars, codeVars, pageVars,
           coreVars, callVars, PagesHeld
  <1>22. ASSUME NEW h \in Hooks, EnterVendor(h)
         PROVE  PagesHeld'
    BY <1>22, <1>types
       DEF EnterVendor, Goto, diskVars, findVars, bindVars, codeVars, pageVars,
           coreVars, callVars, PagesHeld
  <1>23. ASSUME NEW h \in Hooks, VendorPublishes(h)
         PROVE  PagesHeld'
    BY <1>23, <1>types, <1>early
       DEF VendorPublishes, diskVars, findVars, bindVars, codeVars, pageVars,
           coreVars, callVars, PagesHeld
  <1>24. ASSUME NEW h \in Hooks, NEW n \in Parts, VendorPatches(h, n)
         PROVE  PagesHeld'
    BY <1>24, <1>types
       DEF VendorPatches, Goto, Overwritten, diskVars, findVars, bindVars,
           codeVars, pageVars, coreVars, callVars, PagesHeld
  <1>25. ASSUME NEW h \in Hooks, NEW n \in 0 .. 2, VendorFails(h, n)
         PROVE  PagesHeld'
    BY <1>25, <1>types
       DEF VendorFails, Goto, Overwritten, diskVars, findVars, bindVars, codeVars,
           pageVars, coreVars, callVars, PagesHeld
  <1>26. ASSUME NEW h \in Hooks, VendorReturns(h)
         PROVE  PagesHeld'
    BY <1>26, <1>types
       DEF VendorReturns, Goto, Unlocked, diskVars, findVars, bindVars, codeVars,
           pageVars, coreVars, callVars, PagesHeld
  <1>27. ASSUME NEW h \in Hooks, VendorReturnsFailure(h)
         PROVE  PagesHeld'
    BY <1>27, <1>types
       DEF VendorReturnsFailure, Goto, Unlocked, FailedCall, diskVars, findVars,
           bindVars, codeVars, pageVars, coreVars, callVars, PagesHeld
  <1>28. ASSUME NEW h \in Hooks, FinishCommit(h)
         PROVE  PagesHeld'
    BY <1>28, <1>types
       DEF FinishCommit, Goto, diskVars, findVars, bindVars, codeVars, pageVars,
           coreVars, callVars, PagesHeld
  <1>29. ASSUME NEW h \in Hooks, Release(h)
         PROVE  PagesHeld'
    BY <1>29, <1>types
       DEF Release, Goto, KeepsPage, diskVars, findVars, bindVars, codeVars,
           pageVars, coreVars, callVars, PagesHeld
  <1> QED
    BY <1>1, <1>2, <1>3, <1>4, <1>5, <1>6, <1>7, <1>8, <1>9, <1>10, <1>11,
       <1>12, <1>13, <1>14, <1>15, <1>16, <1>17, <1>18, <1>19, <1>20, <1>21,
       <1>22, <1>23, <1>24, <1>25, <1>26, <1>27, <1>28, <1>29
       DEF Next, Step, Discover, Prepare, Commit

\* The entries, the copies of them and the ghost of the vendor's writes are left
\* alone, and no hook enters the stages that EntriesAccounted speaks of.
LEMMA EntryFrame ==
    ASSUME EntriesAccounted, UNCHANGED <<entry, touched, inspected, body>>,
           \A g \in Hooks : pc'[g] \in {"call", "inside"} => pc[g] \in {"call", "inside"},
           \A g \in Hooks :
              Hybrid(g) /\ pc'[g] \in {"activate", "prepared", "check", "call", "inside"} =>
                 pc[g] \in {"activate", "prepared", "check", "call", "inside"}
    PROVE  EntriesAccounted'
  BY DEF EntriesAccounted, Window, Hybrid

\* Nobody writes code, and a vendor writes its hook's branch once.
LEMMA EntryStep ==
    ASSUME TypeOK, CommitsExclude, CallAccounted, PagesHeld, EntriesAccounted, [Next]_vars
    PROVE  EntriesAccounted'
  <1>types. /\ pc \in [Hooks -> Stages]
            /\ entry \in [Targets -> [Parts -> Words]]
            /\ touched \in [Hooks -> BOOLEAN]
            /\ inspected \in [Hooks -> [Parts -> Words]]
            /\ body \in [Hooks -> [Parts -> Words]]
    BY DEF TypeOK
  <1>target. \A h \in Hooks : Target[h] \in Targets /\ Window(h) \subseteq Parts
    BY HooksAssumption, HybridFacts
  <1>1. CASE UNCHANGED vars
    BY <1>1, <1>types, <1>target
       DEF vars, diskVars, findVars, bindVars, codeVars, pageVars, coreVars,
           callVars, EntriesAccounted
  <1>2. ASSUME NEW i \in Images, HostLoads(i) PROVE EntriesAccounted'
    BY <1>2, <1>types, <1>target
       DEF HostLoads, diskVars, findVars, bindVars, codeVars, pageVars, coreVars,
           callVars, EntriesAccounted
  <1>3. ASSUME NEW t \in Targets, NEW i \in Parts, ForeignPatch(t, i) PROVE EntriesAccounted'
    BY <1>3, <1>types, <1>target, WordsAssumption
       DEF ForeignPatch, diskVars, findVars, bindVars, codeVars, pageVars,
           coreVars, callVars, EntriesAccounted
  <1>4. ASSUME NEW h \in Hooks,
                \/ DiscoverDobby(h) \/ DiscoverLive(h) \/ Recall(h)
                \/ AwaitCache(h) \/ ClearCache(h) \/ Probe(h) \/ Reread(h)
         PROVE  EntriesAccounted'
    <2>1. UNCHANGED <<entry, touched, inspected, body>>
      BY <1>4
         DEF DiscoverDobby, DiscoverLive, Recall, AwaitCache, ClearCache, Probe,
             Reread, diskVars, findVars, bindVars, codeVars, pageVars, coreVars,
             callVars
    <2>2. \A g \in Hooks : pc'[g] # pc[g] =>
             /\ pc'[g] \notin {"call", "inside"} \/ pc[g] \in {"call", "inside"}
             /\ \/ pc'[g] \notin {"activate", "prepared", "check", "call", "inside"}
                \/ pc[g] \in {"activate", "prepared", "check", "call", "inside"}
      BY <1>4, <1>types
         DEF DiscoverDobby, DiscoverLive, Recall, AwaitCache, ClearCache, Probe,
             Reread, Answer, Goto
    <2> QED
      BY <2>1, <2>2, EntryFrame
  <1>5. ASSUME NEW h \in Hooks,
                \/ Analyze(h) \/ Validate(h) \/ ActivateNothing(h)
                \/ ActivateGlobal(h)
         PROVE  EntriesAccounted'
    <2>1. UNCHANGED <<entry, touched, inspected, body>>
      BY <1>5
         DEF Analyze, Validate, ActivateNothing, ActivateGlobal, diskVars,
             findVars, bindVars, codeVars, pageVars, coreVars, callVars
    <2>2. \A g \in Hooks : pc'[g] # pc[g] =>
             /\ pc'[g] \notin {"call", "inside"} \/ pc[g] \in {"call", "inside"}
             /\ \/ pc'[g] \notin {"activate", "prepared", "check", "call", "inside"}
                \/ pc[g] \in {"activate", "prepared", "check", "call", "inside"}
      BY <1>5, <1>types
         DEF Analyze, Validate, ActivateNothing, ActivateGlobal, PrepareFails,
             Prepared, Goto
    <2> QED
      BY <2>1, <2>2, EntryFrame
  <1>6. ASSUME NEW h \in Hooks,
                \/ CommitConflict(h) \/ BeginCommit(h) \/ RevalidateFails(h)
                \/ EnterVendor(h) \/ VendorPublishes(h) \/ VendorReturns(h)
                \/ VendorReturnsFailure(h) \/ FinishCommit(h) \/ Release(h)
         PROVE  EntriesAccounted'
    <2>1. UNCHANGED <<entry, touched, inspected, body>>
      BY <1>6
         DEF CommitConflict, BeginCommit, RevalidateFails, EnterVendor,
             VendorPublishes, VendorReturns, VendorReturnsFailure, FinishCommit,
             Release, diskVars, findVars, bindVars, codeVars, pageVars, coreVars,
             callVars
    <2>2. \A g \in Hooks : pc'[g] # pc[g] =>
             /\ pc'[g] \notin {"call", "inside"} \/ pc[g] \in {"call", "inside"}
             /\ \/ pc'[g] \notin {"activate", "prepared", "check", "call", "inside"}
                \/ pc[g] \in {"activate", "prepared", "check", "call", "inside"}
      BY <1>6, <1>types
         DEF CommitConflict, BeginCommit, RevalidateFails, EnterVendor,
             VendorPublishes, VendorReturns, VendorReturnsFailure, FinishCommit,
             Release, Goto
    <2> QED
      BY <2>1, <2>2, EntryFrame
  <1>7. ASSUME NEW h \in Hooks, Inspect(h)
         PROVE  EntriesAccounted'
    <2>1. CASE PrepareFails(h) /\ UNCHANGED inspected
      <3>1. UNCHANGED <<entry, touched, inspected, body>>
        BY <1>7, <2>1 DEF Inspect, codeVars
      <3>2. \A g \in Hooks : pc'[g] # pc[g] => pc'[g] = "failed"
        BY <2>1, <1>types DEF PrepareFails, Goto
      <3> QED
        BY <3>1, <3>2, EntryFrame
    <2>2. CASE inspected' = [inspected EXCEPT ![h] = entry[Target[h]]]
      <3>1. UNCHANGED <<entry, touched, body>>
        BY <1>7 DEF Inspect, codeVars
      <3>2. pc[h] = "inspect"
        BY <1>7 DEF Inspect
      <3>3. \A g \in Hooks : g # h => pc'[g] = pc[g] /\ inspected'[g] = inspected[g]
        BY <1>7, <2>2, <1>types DEF Inspect, PrepareFails, Goto
      <3>4. pc'[h] \in {"relocate", "activate", "failed"} /\ (pc'[h] = "activate" => ~Hybrid(h))
        BY <1>7, <1>types DEF Inspect, PrepareFails, Goto
      <3>5. inspected'[h] = entry[Target[h]]
        BY <2>2, <1>types
      <3> QED
        BY <3>1, <3>2, <3>3, <3>4, <3>5, <1>target
           DEF EntriesAccounted, Window, Hybrid
    <2> QED
      BY <1>7, <2>1, <2>2 DEF Inspect
  <1>8. ASSUME NEW h \in Hooks, Relocate(h)
         PROVE  EntriesAccounted'
    <2>1. CASE PrepareFails(h) /\ UNCHANGED body
      <3>1. UNCHANGED <<entry, touched, inspected, body>>
        BY <1>8, <2>1 DEF Relocate, codeVars
      <3>2. \A g \in Hooks : pc'[g] # pc[g] => pc'[g] = "failed"
        BY <2>1, <1>types DEF PrepareFails, Goto
      <3> QED
        BY <3>1, <3>2, EntryFrame
    <2>2. CASE body' = [body EXCEPT ![h] = entry[Target[h]]] /\ Goto(h, "activate")
      <3>1. UNCHANGED <<entry, touched, inspected>>
        BY <1>8 DEF Relocate, codeVars
      <3>2. \A g \in Hooks : g # h => pc'[g] = pc[g] /\ body'[g] = body[g]
        BY <2>2, <1>types DEF Goto
      <3>3. pc'[h] = "activate" /\ body'[h] = entry[Target[h]]
        BY <2>2, <1>types DEF Goto
      <3> QED
        BY <3>1, <3>2, <3>3, <1>target DEF EntriesAccounted, Window, Hybrid
    <2> QED
      BY <1>8, <2>1, <2>2 DEF Relocate
  <1>9. ASSUME NEW h \in Hooks, NEW ok \in Openable, ActivateFromDisk(h, ok)
         PROVE  EntriesAccounted'
    <2>1. UNCHANGED <<entry, touched, inspected, body>>
      BY <1>9
         DEF ActivateFromDisk, diskVars, findVars, bindVars, codeVars, pageVars,
             coreVars, callVars, Prepared, ActivationFails
    <2>2. \A g \in Hooks : pc'[g] \in {"call", "inside"} => pc[g] \in {"call", "inside"}
      BY <1>9, <1>types
         DEF ActivateFromDisk, Prepared, ActivationFails, PrepareFails, Goto
    <2>3. \A g \in Hooks :
             Hybrid(g) /\ pc'[g] \in {"activate", "prepared", "check", "call", "inside"} =>
                pc[g] \in {"activate", "prepared", "check", "call", "inside"}
      BY <1>9, <1>types
         DEF ActivateFromDisk, Prepared, ActivationFails, PrepareFails, Goto
    <2> QED
      BY <2>1, <2>2, <2>3, EntryFrame
  <1>10. ASSUME NEW h \in Hooks, Revalidate(h)
         PROVE  EntriesAccounted'
    <2>1. UNCHANGED <<entry, touched, inspected, body>>
      BY <1>10 DEF Revalidate, codeVars, pageVars
    <2>2. \A g \in Hooks : g # h => pc'[g] = pc[g]
      BY <1>10, <1>types DEF Revalidate, Goto
    <2>3. pc[h] = "check" /\ pc'[h] = "call" /\ UnchangedEntry(h)
      BY <1>10, <1>types DEF Revalidate, Goto
    <2> QED
      BY <2>1, <2>2, <2>3 DEF EntriesAccounted, UnchangedEntry, Window, Hybrid
  <1>11. ASSUME NEW h \in Hooks, NEW n \in Parts, VendorPatches(h, n)
         PROVE  EntriesAccounted'
    <2>1. PICK w \in {h, Torn} : entry' = Overwritten(h, n, w)
      BY <1>11 DEF VendorPatches
    <2>2. UNCHANGED <<inspected, body>>
      BY <1>11 DEF VendorPatches, pageVars
    <2>3. /\ pc[h] = "inside" /\ pc'[h] \in {"returned", "unsuccessful"}
          /\ \A g \in Hooks : g # h => pc'[g] = pc[g]
      BY <1>11, <1>types DEF VendorPatches, Goto
    <2>4. ~touched[h]
      BY <2>3 DEF CallAccounted
    <2>5. \A g \in Hooks : touched[g] => touched'[g]
      BY <1>11, <2>4, <1>types DEF VendorPatches
    <2>6. \A t \in Targets, i \in Parts : entry'[t][i] # entry[t][i] => entry'[t][i] = w /\ n > 0
      BY <2>1, <1>types DEF Overwritten, Parts
    <2>7. n > 0 => touched'[h]
      BY <1>11, <1>types DEF VendorPatches
    <2>8. \A g \in Hooks : pc[g] \in {"call", "inside"} => g = h
      BY <2>3 DEF CommitsExclude, Committing
    <2>9. \A t \in Targets, i \in Parts, g \in Hooks : entry'[t][i] = g => touched'[g]
      BY <2>5, <2>6, <2>7, WordsAssumption DEF EntriesAccounted
    <2>10. \A g \in Hooks, i \in Parts :
              inspected[g][i] \in {body[g][i], Foreign, Torn} \/ entry[Target[g]][i] # inspected[g][i]
              => \/ inspected[g][i] \in {body[g][i], Foreign, Torn}
                 \/ entry'[Target[g]][i] # inspected[g][i]
      BY <2>4, <2>6, <1>target DEF EntriesAccounted
    <2>11. \A g \in Hooks : Hybrid(g)' = Hybrid(g) /\ Window(g)' = Window(g)
      BY DEF Hybrid, Window
    <2> QED
      BY <2>2, <2>3, <2>5, <2>8, <2>9, <2>10, <2>11 DEF EntriesAccounted
  <1>12. ASSUME NEW h \in Hooks, NEW n \in 0 .. 2, VendorFails(h, n)
         PROVE  EntriesAccounted'
    <2>1. PICK w \in {h, Torn} : entry' = Overwritten(h, n, w)
      BY <1>12 DEF VendorFails
    <2>2. UNCHANGED <<inspected, body>>
      BY <1>12 DEF VendorFails, pageVars
    <2>3. /\ pc[h] = "inside" /\ pc'[h] \in {"returned", "unsuccessful"}
          /\ \A g \in Hooks : g # h => pc'[g] = pc[g]
      BY <1>12, <1>types DEF VendorFails, Goto
    <2>4. ~touched[h]
      BY <2>3 DEF CallAccounted
    <2>5. \A g \in Hooks : touched[g] => touched'[g]
      BY <1>12, <2>4, <1>types DEF VendorFails
    <2>6. \A t \in Targets, i \in Parts : entry'[t][i] # entry[t][i] => entry'[t][i] = w /\ n > 0
      BY <2>1, <1>types DEF Overwritten, Parts
    <2>7. n > 0 => touched'[h]
      BY <1>12, <1>types DEF VendorFails
    <2>8. \A g \in Hooks : pc[g] \in {"call", "inside"} => g = h
      BY <2>3 DEF CommitsExclude, Committing
    <2>9. \A t \in Targets, i \in Parts, g \in Hooks : entry'[t][i] = g => touched'[g]
      BY <2>5, <2>6, <2>7, WordsAssumption DEF EntriesAccounted
    <2>10. \A g \in Hooks, i \in Parts :
              inspected[g][i] \in {body[g][i], Foreign, Torn} \/ entry[Target[g]][i] # inspected[g][i]
              => \/ inspected[g][i] \in {body[g][i], Foreign, Torn}
                 \/ entry'[Target[g]][i] # inspected[g][i]
      BY <2>4, <2>6, <1>target DEF EntriesAccounted
    <2>11. \A g \in Hooks : Hybrid(g)' = Hybrid(g) /\ Window(g)' = Window(g)
      BY DEF Hybrid, Window
    <2> QED
      BY <2>2, <2>3, <2>5, <2>8, <2>9, <2>10, <2>11 DEF EntriesAccounted
  <1> QED
    BY <1>1, <1>2, <1>3, <1>4, <1>5, <1>6, <1>7, <1>8, <1>9, <1>10, <1>11,
       <1>12
       DEF Next, Step, Discover, Prepare, Commit

\* The files do not change.
LEMMA DiskFixed ==
    ASSUME [Next]_vars
    PROVE  /\ disk' = disk
           /\ \A k \in Loaded : OnDisk(k)' <=> OnDisk(k)
           /\ OnDisk("gum")' <=> OnDisk("gum")
           /\ OnDisk("ellekit")' <=> OnDisk("ellekit")
           /\ SubstituteInstalled' <=> SubstituteInstalled
           /\ \A k \in Loaded, i \in Images : Functions(k, i)' = Functions(k, i)
  <1>1. disk' = disk
    <2>1. CASE UNCHANGED vars
      BY <2>1 DEF vars, diskVars
    <2>2. ASSUME NEW i \in Images, HostLoads(i) PROVE disk' = disk
      BY <2>2 DEF HostLoads
    <2>3. ASSUME NEW t \in Targets, NEW i \in Parts, ForeignPatch(t, i) PROVE disk' = disk
      BY <2>3 DEF ForeignPatch, diskVars
    <2>4. ASSUME NEW h \in Hooks, Discover(h) PROVE disk' = disk
      BY <2>4 DEF Discover, DiscoverDobby, DiscoverLive, Recall, AwaitCache, ClearCache,
                  Probe, Reread, diskVars
    <2>5. ASSUME NEW h \in Hooks, NEW ok \in Openable, ActivateFromDisk(h, ok)
          PROVE  disk' = disk
      BY <2>5 DEF ActivateFromDisk, diskVars
    <2>6. ASSUME NEW h \in Hooks, Analyze(h) \/ Validate(h) \/ Inspect(h) \/ Relocate(h)
                                  \/ ActivateNothing(h) \/ ActivateGlobal(h)
          PROVE  disk' = disk
      BY <2>6 DEF Analyze, Validate, Inspect, Relocate, ActivateNothing, ActivateGlobal,
                  diskVars
    <2>7. ASSUME NEW h \in Hooks, Commit(h) PROVE disk' = disk
      BY <2>7 DEF Commit, CommitConflict, BeginCommit, Revalidate, RevalidateFails,
                  EnterVendor, VendorPublishes, VendorPatches, VendorFails, VendorReturns,
                  VendorReturnsFailure, FinishCommit, Release, diskVars
    <2> QED
      BY <2>1, <2>2, <2>3, <2>4, <2>5, <2>6, <2>7 DEF Next, Step, Prepare
  <1>2. \A k \in Loaded : OnDisk(k)' <=> OnDisk(k)
    BY <1>1 DEF OnDisk, HasElleKit, Exports, Loaded, Kinds
  <1>3. SubstituteInstalled' <=> SubstituteInstalled
    BY <1>1 DEF SubstituteInstalled
  <1>4. \A k \in Loaded, i \in Images : Functions(k, i)' = Functions(k, i)
    BY <1>1 DEF Functions, Exports
  <1> QED
    BY <1>1, <1>2, <1>3, <1>4 DEF Loaded, Kinds

\* What the files or the symbols that are already loaded are taken for is true.
LEMMA SubstituteFound ==
    ASSUME TypeOK, OnDisk("substitute") \/ LiveSubstitute
    PROVE  SubstituteInstalled
  <1>1. global \subseteq Images
    BY DEF TypeOK
  <1>2. CASE OnDisk("substitute")
    BY <1>2 DEF OnDisk, Exports, SubstituteInstalled, Images
  <1>3. CASE LiveSubstitute
    BY <1>1, <1>3 DEF LiveSubstitute, Visible, Exports, SubstituteInstalled, Images
  <1> QED
    BY <1>2, <1>3

\* Discovery's answers are left alone, and no hook is sent back to discovery or
\* into a preparation.
LEMMA DiscoveryFrame ==
    ASSUME CachesTrue, VerdictsMatchDisk, [Next]_vars,
           UNCHANGED <<cache, bound, verdict>>,
           \A g \in Hooks :
              /\ pc'[g] \in {"recall", "await", "probe", "reread"} => pc'[g] = pc[g]
              /\ pc'[g] \in {"analyze", "validate", "inspect", "relocate", "activate"} =>
                    pc[g] \in {"analyze", "validate", "inspect", "relocate", "activate"}
    PROVE  CachesTrue' /\ VerdictsMatchDisk'
  <1>1. VerdictsMatchDisk'
    BY DiskFixed DEF VerdictsMatchDisk
  <1>2. CachesTrue'
    BY DiskFixed DEF CachesTrue
  <1> QED
    BY <1>1, <1>2

\* An answer that agrees with the files.
LEMMA AnswerStep ==
    ASSUME TypeOK, CachesTrue, VerdictsMatchDisk, [Next]_vars,
           NEW h \in Hooks, NEW found \in BOOLEAN, Answer(h, found),
           UNCHANGED <<cache, bound>>,
           Kind[h] = "gum" => (found <=> OnDisk("gum")),
           Kind[h] = "ellekit" /\ found => OnDisk("ellekit"),
           Kind[h] = "substitute" /\ found => SubstituteInstalled
    PROVE  CachesTrue' /\ VerdictsMatchDisk'
  <1>1. /\ verdict'[h] = IF found THEN "available" ELSE "unavailable"
        /\ \A g \in Hooks : g # h => verdict'[g] = verdict[g]
    BY DEF Answer, TypeOK
  <1>2. /\ pc'[h] = IF found THEN "analyze" ELSE "noroute"
        /\ \A g \in Hooks : g # h => pc'[g] = pc[g]
    BY DEF Answer, Goto, TypeOK
  <1>3. VerdictsMatchDisk'
    BY <1>1, DiskFixed DEF VerdictsMatchDisk
  <1>4. CachesTrue'
    BY <1>1, <1>2, DiskFixed DEF CachesTrue
  <1> QED
    BY <1>3, <1>4

\* A cache is filled with what the files say and a binding follows a true answer.
LEMMA DiscoveryStep ==
    ASSUME TypeOK, CachesTrue, VerdictsMatchDisk, [Next]_vars
    PROVE  CachesTrue' /\ VerdictsMatchDisk'
  <1>types. /\ pc \in [Hooks -> Stages]
            /\ verdict \in [Hooks -> {"none", "available", "unavailable"}]
            /\ cache \in [Loaded -> {"unknown", "no", "yes"}]
            /\ bound \in [Loaded -> SUBSET (Images \X Symbols)]
    BY DEF TypeOK
  <1>kinds. \A h \in Hooks : Kind[h] \in Kinds
    BY HooksAssumption
  <1>1. CASE UNCHANGED vars
    <2>1. UNCHANGED <<cache, bound, verdict>>
      BY <1>1 DEF vars, findVars, bindVars
    <2>2. \A g \in Hooks :
             /\ pc'[g] \in {"recall", "await", "probe", "reread"} => pc'[g] = pc[g]
             /\ pc'[g] \in {"analyze", "validate", "inspect", "relocate", "activate"} =>
                   pc[g] \in {"analyze", "validate", "inspect", "relocate", "activate"}
      BY <1>1, <1>types DEF vars
    <2> QED
      BY <2>1, <2>2, DiscoveryFrame
  <1>2. ASSUME NEW i \in Images, HostLoads(i) PROVE CachesTrue' /\ VerdictsMatchDisk'
    <2>1. UNCHANGED <<cache, bound, verdict>>
      BY <1>2 DEF HostLoads, findVars, bindVars
    <2>2. \A g \in Hooks :
             /\ pc'[g] \in {"recall", "await", "probe", "reread"} => pc'[g] = pc[g]
             /\ pc'[g] \in {"analyze", "validate", "inspect", "relocate", "activate"} =>
                   pc[g] \in {"analyze", "validate", "inspect", "relocate", "activate"}
      BY <1>2, <1>types DEF HostLoads
    <2> QED
      BY <2>1, <2>2, DiscoveryFrame
  <1>3. ASSUME NEW t \in Targets, NEW i \in Parts, ForeignPatch(t, i) PROVE CachesTrue' /\ VerdictsMatchDisk'
    <2>1. UNCHANGED <<cache, bound, verdict>>
      BY <1>3 DEF ForeignPatch, findVars, bindVars
    <2>2. \A g \in Hooks :
             /\ pc'[g] \in {"recall", "await", "probe", "reread"} => pc'[g] = pc[g]
             /\ pc'[g] \in {"analyze", "validate", "inspect", "relocate", "activate"} =>
                   pc[g] \in {"analyze", "validate", "inspect", "relocate", "activate"}
      BY <1>3, <1>types DEF ForeignPatch
    <2> QED
      BY <2>1, <2>2, DiscoveryFrame
  <1>4. ASSUME NEW h \in Hooks,
                \/ Analyze(h) \/ Validate(h) \/ Inspect(h) \/ Relocate(h)
                \/ ActivateNothing(h)
         PROVE  CachesTrue' /\ VerdictsMatchDisk'
    <2>1. UNCHANGED <<cache, bound, verdict>>
      BY <1>4
         DEF Analyze, Validate, Inspect, Relocate, ActivateNothing, findVars,
             bindVars
    <2>2. \A g \in Hooks : pc'[g] # pc[g] =>
             /\ pc'[g] \notin {"recall", "await", "probe", "reread"}
             /\ \/ pc'[g] \notin {"analyze", "validate", "inspect", "relocate", "activate"}
                \/ pc[g] \in {"analyze", "validate", "inspect", "relocate", "activate"}
      BY <1>4, <1>types
         DEF Analyze, Validate, Inspect, Relocate, ActivateNothing, PrepareFails,
             Prepared, Goto
    <2> QED
      BY <2>1, <2>2, DiscoveryFrame
  <1>5. ASSUME NEW h \in Hooks,
                \/ CommitConflict(h) \/ BeginCommit(h) \/ Revalidate(h)
                \/ RevalidateFails(h) \/ EnterVendor(h) \/ VendorPublishes(h)
                \/ (\E n \in Parts : VendorPatches(h, n))
                \/ (\E n \in 0 .. 2 : VendorFails(h, n)) \/ VendorReturns(h)
                \/ VendorReturnsFailure(h) \/ FinishCommit(h) \/ Release(h)
         PROVE  CachesTrue' /\ VerdictsMatchDisk'
    <2>1. UNCHANGED <<cache, bound, verdict>>
      BY <1>5
         DEF CommitConflict, BeginCommit, Revalidate, RevalidateFails, EnterVendor,
             VendorPublishes, VendorPatches, VendorFails, VendorReturns,
             VendorReturnsFailure, FinishCommit, Release, findVars, bindVars
    <2>2. \A g \in Hooks : pc'[g] # pc[g] =>
             /\ pc'[g] \notin {"recall", "await", "probe", "reread"}
             /\ \/ pc'[g] \notin {"analyze", "validate", "inspect", "relocate", "activate"}
                \/ pc[g] \in {"analyze", "validate", "inspect", "relocate", "activate"}
      BY <1>5, <1>types
         DEF CommitConflict, BeginCommit, Revalidate, RevalidateFails, EnterVendor,
             VendorPublishes, VendorPatches, VendorFails, VendorReturns,
             VendorReturnsFailure, FinishCommit, Release, Goto
    <2> QED
      BY <2>1, <2>2, DiscoveryFrame
  <1>6. ASSUME NEW h \in Hooks, DiscoverDobby(h)
         PROVE  CachesTrue' /\ VerdictsMatchDisk'
    <2>1. Answer(h, TRUE) /\ Kind[h] = "dobby" /\ UNCHANGED <<cache, bound>>
      BY <1>6 DEF DiscoverDobby, bindVars
    <2> QED
      BY <2>1, AnswerStep
  <1>7. ASSUME NEW h \in Hooks, DiscoverLive(h)
         PROVE  CachesTrue' /\ VerdictsMatchDisk'
    <2>1. Kind[h] = "substitute" /\ UNCHANGED <<cache, bound>>
      BY <1>7 DEF DiscoverLive, bindVars
    <2>2. CASE bound["substitute"] # {} \/ LiveSubstitute
      <3>1. Answer(h, TRUE)
        BY <1>7, <2>2 DEF DiscoverLive
      <3>2. SubstituteInstalled
        BY <2>2, SubstituteFound DEF CachesTrue
      <3> QED
        BY <2>1, <3>1, <3>2, AnswerStep
    <2>3. CASE ~(bound["substitute"] # {} \/ LiveSubstitute)
      <3>1. Goto(h, "recall") /\ UNCHANGED verdict
        BY <1>7, <2>3 DEF DiscoverLive
      <3>2. pc'[h] = "recall" /\ \A g \in Hooks : g # h => pc'[g] = pc[g]
        BY <3>1, <1>types DEF Goto
      <3>3. VerdictsMatchDisk'
        BY <3>1, DiskFixed DEF VerdictsMatchDisk
      <3>4. CachesTrue'
        BY <2>1, <3>1, <3>2, DiskFixed DEF CachesTrue, Loaded, Kinds
      <3> QED
        BY <3>3, <3>4
    <2> QED
      BY <2>2, <2>3
  <1>8. ASSUME NEW h \in Hooks, Recall(h)
         PROVE  CachesTrue' /\ VerdictsMatchDisk'
    <2>1. UNCHANGED <<cache, bound>>
      BY <1>8 DEF Recall, bindVars
    <2>2. Kind[h] \in Loaded
      BY <1>8 DEF Recall, CachesTrue, Loaded, Kinds
    <2>3. CASE cache[Kind[h]] = "unknown"
      <3>1. Goto(h, "await") /\ UNCHANGED verdict
        BY <1>8, <2>3 DEF Recall
      <3>2. pc'[h] = "await" /\ \A g \in Hooks : g # h => pc'[g] = pc[g]
        BY <3>1, <1>types DEF Goto
      <3>3. VerdictsMatchDisk'
        BY <3>1, DiskFixed DEF VerdictsMatchDisk
      <3>4. CachesTrue'
        BY <2>1, <2>2, <3>1, <3>2, DiskFixed DEF CachesTrue
      <3> QED
        BY <3>3, <3>4
    <2>4. CASE cache[Kind[h]] # "unknown"
      <3>1. Answer(h, cache[Kind[h]] = "yes")
        BY <1>8, <2>4 DEF Recall
      <3>2. /\ cache[Kind[h]] = "yes" => OnDisk(Kind[h])
            /\ Kind[h] = "gum" => (cache[Kind[h]] = "yes" <=> OnDisk("gum"))
        BY <2>2, <2>4, <1>types DEF CachesTrue
      <3> QED
        BY <2>1, <3>1, <3>2, AnswerStep, SubstituteFound
    <2> QED
      BY <2>3, <2>4
  <1>9. ASSUME NEW h \in Hooks, AwaitCache(h)
         PROVE  CachesTrue' /\ VerdictsMatchDisk'
    <2>1. UNCHANGED <<cache, bound, verdict>>
      BY <1>9 DEF AwaitCache, bindVars
    <2>2. /\ pc[h] = "await" /\ pc'[h] \in {"probe", "reread"}
          /\ pc'[h] = "reread" => cache[Kind[h]] # "unknown"
          /\ \A g \in Hooks : g # h => pc'[g] = pc[g]
      BY <1>9, <1>types DEF AwaitCache, Goto
    <2>3. VerdictsMatchDisk'
      BY <2>1, DiskFixed DEF VerdictsMatchDisk
    <2>4. CachesTrue'
      BY <2>1, <2>2, DiskFixed DEF CachesTrue
    <2> QED
      BY <2>3, <2>4
  <1>10. ASSUME NEW h \in Hooks, ClearCache(h)
         PROVE  CachesTrue' /\ VerdictsMatchDisk'
    <2>1. UNCHANGED <<bound, verdict, pc>> /\ Kind[h] = "ellekit"
      BY <1>10 DEF ClearCache, bindVars, Provisional
    <2>2. cache'["ellekit"] = "no" /\ \A k \in Loaded : k # "ellekit" => cache'[k] = cache[k]
      BY <1>10, <2>1, <1>types DEF ClearCache, Loaded, Kinds
    <2>3. VerdictsMatchDisk'
      BY <2>1, DiskFixed DEF VerdictsMatchDisk
    <2>4. CachesTrue'
      BY <2>1, <2>2, DiskFixed DEF CachesTrue, Loaded, Kinds
    <2> QED
      BY <2>3, <2>4
  <1>11. ASSUME NEW h \in Hooks, Probe(h)
         PROVE  CachesTrue' /\ VerdictsMatchDisk'
    <2>1. UNCHANGED <<bound, verdict>> /\ Kind[h] \in Loaded
      BY <1>11 DEF Probe, bindVars, CachesTrue
    <2>2. /\ cache'[Kind[h]] = IF OnDisk(Kind[h]) THEN "yes" ELSE "no"
          /\ \A k \in Loaded : k # Kind[h] => cache'[k] = cache[k]
      BY <1>11, <2>1, <1>types DEF Probe
    <2>3. pc'[h] = "reread" /\ \A g \in Hooks : g # h => pc'[g] = pc[g]
      BY <1>11, <1>types DEF Probe, Goto
    <2>4. VerdictsMatchDisk'
      BY <2>1, DiskFixed DEF VerdictsMatchDisk
    <2>5. CachesTrue'
      BY <2>1, <2>2, <2>3, DiskFixed DEF CachesTrue, Loaded, Kinds
    <2> QED
      BY <2>4, <2>5
  <1>12. ASSUME NEW h \in Hooks, Reread(h)
         PROVE  CachesTrue' /\ VerdictsMatchDisk'
    <2>1. UNCHANGED <<cache, bound>> /\ Answer(h, cache[Kind[h]] # "no")
      BY <1>12 DEF Reread, bindVars
    <2>2. Kind[h] \in Loaded /\ cache[Kind[h]] # "unknown"
      BY <1>12 DEF Reread, CachesTrue
    <2>3. /\ cache[Kind[h]] # "no" => OnDisk(Kind[h])
          /\ Kind[h] = "gum" => (cache[Kind[h]] # "no" <=> OnDisk("gum"))
      BY <2>2, <1>types DEF CachesTrue
    <2> QED
      BY <2>1, <2>3, AnswerStep, SubstituteFound
  <1>13. ASSUME NEW h \in Hooks, ActivateGlobal(h)
         PROVE  CachesTrue' /\ VerdictsMatchDisk'
    <2>1. UNCHANGED <<cache, verdict>> /\ pc[h] = "activate"
      BY <1>13 DEF ActivateGlobal, findVars
    <2>2. pc'[h] \in {"prepared", "failed"} /\ \A g \in Hooks : g # h => pc'[g] = pc[g]
      BY <1>13, <1>types DEF ActivateGlobal, Prepared, Goto
    <2>3. bound'["substitute"] # bound["substitute"] => Kind[h] = "substitute"
      BY <1>13, <1>types DEF ActivateGlobal, Loaded, Kinds
    <2>4. bound'["substitute"] # bound["substitute"] => SubstituteInstalled
      BY <2>1, <2>3 DEF CachesTrue, VerdictsMatchDisk
    <2>5. VerdictsMatchDisk'
      BY <2>1, DiskFixed DEF VerdictsMatchDisk
    <2>6. CachesTrue'
      BY <2>1, <2>2, <2>4, DiskFixed DEF CachesTrue
    <2> QED
      BY <2>5, <2>6
  <1>14. ASSUME NEW h \in Hooks, NEW ok \in Openable, ActivateFromDisk(h, ok)
         PROVE  CachesTrue' /\ VerdictsMatchDisk'
    <2>1. UNCHANGED <<cache, verdict>> /\ pc[h] = "activate"
      BY <1>14 DEF ActivateFromDisk, findVars
    <2>2. pc'[h] \in {"prepared", "failed"} /\ \A g \in Hooks : g # h => pc'[g] = pc[g]
      BY <1>14, <1>types
         DEF ActivateFromDisk, Prepared, ActivationFails, PrepareFails, Goto
    <2>3. bound'["substitute"] # bound["substitute"] => Kind[h] = "substitute"
      BY <1>14, <1>types DEF ActivateFromDisk, Loaded, Kinds
    <2>4. bound'["substitute"] # bound["substitute"] => SubstituteInstalled
      BY <2>1, <2>3 DEF CachesTrue, VerdictsMatchDisk
    <2>5. VerdictsMatchDisk'
      BY <2>1, DiskFixed DEF VerdictsMatchDisk
    <2>6. CachesTrue'
      BY <2>1, <2>2, <2>4, DiskFixed DEF CachesTrue
    <2> QED
      BY <2>5, <2>6
  <1> QED
    BY <1>1, <1>2, <1>3, <1>4, <1>5, <1>6, <1>7, <1>8, <1>9, <1>10, <1>11,
       <1>12, <1>13, <1>14
       DEF Next, Step, Discover, Prepare, Commit

\* Loads and bindings are left alone, and no hook is sent back to before its
\* activation.
LEMMA LoadsFrame ==
    ASSUME TypeOK, LoadsAccounted, [Next]_vars, UNCHANGED <<loads, bound>>,
           \A g \in Hooks : pc[g] \in {"prepared", "failed", "done", "released"} \cup Committing
              => pc'[g] \in {"prepared", "failed", "done", "released"} \cup Committing
    PROVE  LoadsAccounted'
  <1>1. loads \in [Hooks -> SUBSET Images]
    BY DEF TypeOK
  <1> QED
    BY <1>1, DiskFixed DEF LoadsAccounted

\* The effects are left alone as well.
LEMMA EffectFrame ==
    ASSUME TypeOK, LoadsAccounted, EffectsAccounted, [Next]_vars,
           UNCHANGED <<loads, bound, prepareEffects, commitEffects>>,
           \A g \in Hooks : pc[g] \in {"prepared", "failed", "done", "released"} \cup Committing
              => pc'[g] \in {"prepared", "failed", "done", "released"} \cup Committing
    PROVE  LoadsAccounted' /\ EffectsAccounted'
  <1>1. LoadsAccounted'
    BY LoadsFrame
  <1>2. EffectsAccounted'
    BY DEF EffectsAccounted
  <1> QED
    BY <1>1, <1>2

\* A page is an effect that the profile of a hybrid hook declares.
LEMMA PageDeclared ==
    ASSUME TypeOK, PagesHeld, NEW h \in Hooks
    PROVE  /\ PageEffect(h) \subseteq Profile[Kind[h]].prepare
           /\ PageEffect(h) \subseteq Profile[Kind[h]].commit
  <1>1. CASE page[h] = "none"
    BY <1>1 DEF PageEffect
  <1>2. CASE page[h] # "none"
    <2>1. Kind[h] = "ellekit" /\ Kind[h] \in Kinds
      BY <1>2, HybridFacts DEF PagesHeld
    <2>2. PageEffect(h) \subseteq PoolEffects
      BY DEF PageEffect, PoolEffects, TypeOK
    <2> QED
      BY <2>1, <2>2, ProfileFacts
  <1> QED
    BY <1>1, <1>2

\* An activation reports what it opens and binds only what it opens itself.
LEMMA EffectStep ==
    ASSUME TypeOK, PagesHeld, LoadsAccounted, EffectsAccounted, [Next]_vars
    PROVE  LoadsAccounted' /\ EffectsAccounted'
  <1>types. /\ pc \in [Hooks -> Stages]
            /\ bound \in [Loaded -> SUBSET (Images \X Symbols)]
            /\ loads \in [Hooks -> SUBSET Images]
            /\ prepareEffects \in [Hooks -> SUBSET Effects]
            /\ commitEffects \in [Hooks -> SUBSET Effects]
    BY DEF TypeOK
  <1>1. CASE UNCHANGED vars
    <2>1. UNCHANGED <<loads, bound, prepareEffects, commitEffects>>
      BY <1>1 DEF vars, bindVars, callVars
    <2>2. \A g \in Hooks : pc[g] \in {"prepared", "failed", "done", "released"} \cup Committing
             => pc'[g] \in {"prepared", "failed", "done", "released"} \cup Committing
      BY <1>1, <1>types DEF vars, Committing
    <2> QED
      BY <2>1, <2>2, EffectFrame
  <1>2. ASSUME NEW i \in Images, HostLoads(i) PROVE LoadsAccounted' /\ EffectsAccounted'
    <2>1. UNCHANGED <<loads, bound, prepareEffects, commitEffects>>
      BY <1>2 DEF HostLoads, bindVars, callVars
    <2>2. \A g \in Hooks : pc[g] \in {"prepared", "failed", "done", "released"} \cup Committing
             => pc'[g] \in {"prepared", "failed", "done", "released"} \cup Committing
      BY <1>2, <1>types DEF HostLoads, Committing
    <2> QED
      BY <2>1, <2>2, EffectFrame
  <1>3. ASSUME NEW t \in Targets, NEW i \in Parts, ForeignPatch(t, i) PROVE LoadsAccounted' /\ EffectsAccounted'
    <2>1. UNCHANGED <<loads, bound, prepareEffects, commitEffects>>
      BY <1>3 DEF ForeignPatch, bindVars, callVars
    <2>2. \A g \in Hooks : pc[g] \in {"prepared", "failed", "done", "released"} \cup Committing
             => pc'[g] \in {"prepared", "failed", "done", "released"} \cup Committing
      BY <1>3, <1>types DEF ForeignPatch, Committing
    <2> QED
      BY <2>1, <2>2, EffectFrame
  <1>4. ASSUME NEW h \in Hooks,
                \/ DiscoverDobby(h) \/ DiscoverLive(h) \/ Recall(h)
                \/ AwaitCache(h) \/ ClearCache(h) \/ Probe(h) \/ Reread(h)
         PROVE  LoadsAccounted' /\ EffectsAccounted'
    <2>1. UNCHANGED <<loads, bound, prepareEffects, commitEffects>>
      BY <1>4
         DEF DiscoverDobby, DiscoverLive, Recall, AwaitCache, ClearCache, Probe,
             Reread, bindVars, callVars
    <2>2. \A g \in Hooks : pc'[g] # pc[g] =>
             \/ pc'[g] \in {"prepared", "failed", "done", "released"} \cup Committing
             \/ pc[g] \notin {"prepared", "failed", "done", "released"} \cup Committing
      BY <1>4, <1>types
         DEF DiscoverDobby, DiscoverLive, Recall, AwaitCache, ClearCache, Probe,
             Reread, Answer, Goto, Committing
    <2> QED
      BY <2>1, <2>2, EffectFrame
  <1>5. ASSUME NEW h \in Hooks,
                \/ Analyze(h) \/ Validate(h) \/ Inspect(h) \/ Relocate(h)
         PROVE  LoadsAccounted' /\ EffectsAccounted'
    <2>1. UNCHANGED <<loads, bound, prepareEffects, commitEffects>>
      BY <1>5 DEF Analyze, Validate, Inspect, Relocate, bindVars, callVars
    <2>2. \A g \in Hooks : pc'[g] # pc[g] =>
             \/ pc'[g] \in {"prepared", "failed", "done", "released"} \cup Committing
             \/ pc[g] \notin {"prepared", "failed", "done", "released"} \cup Committing
      BY <1>5, <1>types
         DEF Analyze, Validate, Inspect, Relocate, PrepareFails, Goto, Committing
    <2> QED
      BY <2>1, <2>2, EffectFrame
  <1>6. ASSUME NEW h \in Hooks,
                \/ CommitConflict(h) \/ BeginCommit(h) \/ Revalidate(h)
                \/ RevalidateFails(h) \/ EnterVendor(h) \/ VendorPublishes(h)
                \/ (\E n \in Parts : VendorPatches(h, n))
                \/ (\E n \in 0 .. 2 : VendorFails(h, n)) \/ FinishCommit(h)
                \/ Release(h)
         PROVE  LoadsAccounted' /\ EffectsAccounted'
    <2>1. UNCHANGED <<loads, bound, prepareEffects, commitEffects>>
      BY <1>6
         DEF CommitConflict, BeginCommit, Revalidate, RevalidateFails, EnterVendor,
             VendorPublishes, VendorPatches, VendorFails, FinishCommit, Release,
             bindVars, callVars
    <2>2. \A g \in Hooks : pc'[g] # pc[g] =>
             \/ pc'[g] \in {"prepared", "failed", "done", "released"} \cup Committing
             \/ pc[g] \notin {"prepared", "failed", "done", "released"} \cup Committing
      BY <1>6, <1>types
         DEF CommitConflict, BeginCommit, Revalidate, RevalidateFails, EnterVendor,
             VendorPublishes, VendorPatches, VendorFails, FinishCommit, Release,
             Goto, Committing
    <2> QED
      BY <2>1, <2>2, EffectFrame
  <1>7. ASSUME NEW h \in Hooks, ActivateNothing(h)
         PROVE  LoadsAccounted' /\ EffectsAccounted'
    <2>1. UNCHANGED <<loads, bound, commitEffects>> /\ pc[h] = "activate"
      BY <1>7 DEF ActivateNothing, callVars
    <2>2. pc'[h] = "prepared" /\ \A g \in Hooks : g # h => pc'[g] = pc[g]
      BY <1>7, <1>types DEF ActivateNothing, Prepared, Goto
    <2>3. /\ prepareEffects'[h] = PageEffect(h)
          /\ \A g \in Hooks : g # h => prepareEffects'[g] = prepareEffects[g]
      BY <1>7, <1>types DEF ActivateNothing, Prepared
    <2>4. loads[h] = {}
      BY <2>1 DEF LoadsAccounted, Committing
    <2>5. LoadsAccounted'
      <3>1. \A g \in Hooks : pc[g] \in {"prepared", "failed", "done", "released"} \cup Committing
               => pc'[g] \in {"prepared", "failed", "done", "released"} \cup Committing
        BY <2>2
      <3> QED
        BY <2>1, <3>1, LoadsFrame
    <2>6. EffectsAccounted'
      BY <2>1, <2>3, <2>4, PageDeclared DEF EffectsAccounted
    <2> QED
      BY <2>5, <2>6
  <1>8. ASSUME NEW h \in Hooks, ActivateGlobal(h)
         PROVE  LoadsAccounted' /\ EffectsAccounted'
    <2>1. /\ UNCHANGED <<loads, commitEffects>> /\ pc[h] = "activate"
          /\ Kind[h] = "substitute" /\ bound["substitute"] = {}
      BY <1>8 DEF ActivateGlobal, callVars
    <2>2. pc'[h] = "prepared" /\ \A g \in Hooks : g # h => pc'[g] = pc[g]
      BY <1>8, <1>types DEF ActivateGlobal, Prepared, Goto
    <2>3. /\ prepareEffects'[h] = Activation \cup PageEffect(h)
          /\ \A g \in Hooks : g # h => prepareEffects'[g] = prepareEffects[g]
      BY <1>8, <1>types DEF ActivateGlobal, Prepared
    <2>4. /\ bound'["substitute"] = GlobalBinding /\ GlobalBinding # {}
          /\ \A k \in Loaded : k # "substitute" => bound'[k] = bound[k]
      BY <1>8, <1>types DEF ActivateGlobal, Loaded, Kinds
    <2>5. loads[h] = {}
      BY <2>1 DEF LoadsAccounted, Committing
    <2>6. LoadsAccounted'
      <3>1. ASSUME NEW g \in Hooks, loads[g] # {}
            PROVE  /\ Kind[g] \in Loaded
                   /\ pc'[g] \in {"prepared", "failed", "done", "released"} \cup Committing
        BY <3>1, <2>2 DEF LoadsAccounted
      <3>2. ASSUME NEW g \in Hooks, Kind[g] \in Loaded, bound'[Kind[g]] = {}, NEW i \in loads[g]
            PROVE  Functions(Kind[g], i)' = {}
        <4>1. bound[Kind[g]] = {} /\ i \in Images
          BY <3>2, <2>4, <1>types
        <4> QED
          BY <3>2, <4>1, DiskFixed DEF LoadsAccounted
      <3> QED
        BY <2>1, <3>1, <3>2 DEF LoadsAccounted
    <2>7. Activation \cup PageEffect(h) \subseteq Profile[Kind[h]].prepare
      BY <2>1, PageDeclared, ProfileFacts DEF Kinds
    \* What was loaded without success exports none of the functions.
    <2>8. ASSUME NEW g \in Hooks, Kind[g] = "substitute", NEW b \in GlobalBinding
          PROVE  b[1] \notin loads[g]
      <3>1. b[2] \in Functions("substitute", b[1])
        BY <2>8 DEF GlobalBinding, Functions
      <3>2. \A i \in loads[g] : Functions("substitute", i) = {}
        BY <2>1, <2>8 DEF LoadsAccounted, Loaded, Kinds
      <3> QED
        BY <3>1, <3>2
    <2>9. \A g \in Hooks : loads[g] # {} => Kind[g] \in Loaded
      BY DEF LoadsAccounted
    <2>10. ASSUME NEW f \in Hooks, NEW g \in Hooks, Kind[f] = Kind[g], f # g
           PROVE  loads'[f] \cap loads'[g] \cap {b[1] : b \in bound'[Kind[f]]} = {}
      <3>1. CASE Kind[f] = "substitute"
        BY <3>1, <2>1, <2>4, <2>8
      <3>2. CASE Kind[f] # "substitute" /\ Kind[f] \in Loaded
        BY <3>2, <2>1, <2>4, <2>10 DEF EffectsAccounted
      <3>3. CASE Kind[f] \notin Loaded
        BY <3>3, <2>1, <2>9
      <3> QED
        BY <3>1, <3>2, <3>3
    <2>11. EffectsAccounted'
      BY <2>1, <2>3, <2>5, <2>7, <2>10 DEF EffectsAccounted
    <2> QED
      BY <2>6, <2>11
  <1>9. ASSUME NEW h \in Hooks, NEW ok \in Openable, ActivateFromDisk(h, ok)
         PROVE  LoadsAccounted' /\ EffectsAccounted'
    <2> DEFINE k == Kind[h]
               opened == {Paths(k)[n] : n \in Opened(k, ok)}
               usable == {i \in opened : Functions(k, i) # {}}
               binding == UNION {Bind(k, i) : i \in usable}
               effects == IF Reports(k, opened, usable) THEN Activation ELSE {}
    <2>1. /\ UNCHANGED commitEffects /\ pc[h] = "activate"
          /\ k \in Loaded /\ bound[k] = {}
      BY <1>9 DEF ActivateFromDisk, callVars
    <2>2. opened \subseteq Images /\ usable \subseteq opened
      BY <2>1, OpenedFacts DEF Opened
    <2>3. pc'[h] \in {"prepared", "failed"} /\ \A g \in Hooks : g # h => pc'[g] = pc[g]
      BY <1>9, <1>types
         DEF ActivateFromDisk, Prepared, ActivationFails, PrepareFails, Goto
    <2>4. /\ \/ prepareEffects'[h] = effects \cup PageEffect(h)
             \/ prepareEffects'[h] = effects
          /\ \A g \in Hooks : g # h => prepareEffects'[g] = prepareEffects[g]
      <3>1. \/ prepareEffects' = [prepareEffects EXCEPT ![h] = effects \cup PageEffect(h)]
            \/ prepareEffects' = [prepareEffects EXCEPT ![h] = effects]
        BY <1>9 DEF ActivateFromDisk, Prepared
      <3> HIDE DEF effects
      <3> QED
        BY <3>1, <1>types
    <2>5. loads[h] = {}
      BY <2>1 DEF LoadsAccounted, Committing
    <2>6. loads'[h] = opened /\ \A g \in Hooks : g # h => loads'[g] = loads[g]
      <3>1. loads' = [loads EXCEPT ![h] = @ \cup opened]
        BY <1>9 DEF ActivateFromDisk
      <3> HIDE DEF opened
      <3> QED
        BY <2>5, <3>1, <1>types
    <2>7. bound'[k] = binding /\ \A j \in Loaded : j # k => bound'[j] = bound[j]
      <3>1. bound' = [bound EXCEPT ![k] = binding]
        BY <1>9 DEF ActivateFromDisk
      <3> HIDE DEF binding, k
      <3> QED
        BY <2>1, <3>1, <1>types
    <2>8. opened # {} /\ k # "substitute" => effects = Activation
      BY DEF Reports
    <2>9. effects \cup PageEffect(h) \subseteq Profile[k].prepare
      <3>1. k \in Kinds /\ k # "dobby"
        BY <2>1 DEF Loaded
      <3>2. effects \subseteq Profile[k].prepare
        BY <3>1, ProfileFacts
      <3> QED
        BY <3>2, PageDeclared
    <2>10. \A b \in binding : b[1] \in usable /\ Functions(k, b[1]) # {}
      BY DEF Bind
    <2>11. binding = {} => usable = {}
      <3>1. \A i \in usable : Bind(k, i) # {}
        BY DEF Bind
      <3> HIDE DEF usable
      <3> QED
        BY <3>1
    <2>12. LoadsAccounted'
      <3>1. ASSUME NEW g \in Hooks, Kind[g] \in Loaded, bound'[Kind[g]] = {}, NEW i \in loads'[g]
            PROVE  Functions(Kind[g], i) = {}
        <4>1. CASE g = h
          BY <3>1, <4>1, <2>6, <2>7, <2>11
        <4>2. CASE g # h
          BY <3>1, <4>2, <2>1, <2>6, <2>7 DEF LoadsAccounted
        <4> QED
          BY <4>1, <4>2
      <3>2. \A g \in Hooks : loads'[g] \subseteq Images
        BY <2>2, <2>6, <1>types
      <3>3. \A g \in Hooks : loads'[g] # {} =>
               /\ Kind[g] \in Loaded
               /\ pc'[g] \in {"prepared", "failed", "done", "released"} \cup Committing
        BY <2>1, <2>3, <2>6 DEF LoadsAccounted
      <3> QED
        BY <3>1, <3>2, <3>3, DiskFixed DEF LoadsAccounted
    \* Whoever opened images before had no use for any of them.
    <2>13. ASSUME NEW f \in Hooks, NEW g \in Hooks, Kind[f] = Kind[g], f # g
           PROVE  loads'[f] \cap loads'[g] \cap {b[1] : b \in bound'[Kind[f]]} = {}
      <3>1. \A e \in Hooks : Kind[e] = k => \A i \in loads[e] : Functions(k, i) = {}
        BY <2>1 DEF LoadsAccounted
      <3> HIDE DEF binding, usable, opened, k
      <3>2. CASE Kind[f] = k
        BY <3>1, <3>2, <2>6, <2>7, <2>10, <2>13
      <3>3. CASE Kind[f] # k /\ Kind[f] \in Loaded
        <4>1. f # h /\ g # h
          BY <3>3, <2>13 DEF k
        <4> QED
          BY <3>3, <4>1, <2>6, <2>7, <2>13 DEF EffectsAccounted
      <3>4. CASE Kind[f] \notin Loaded
        BY <3>4, <2>1, <2>6, <2>13 DEF LoadsAccounted, k
      <3> QED
        BY <3>2, <3>3, <3>4
    <2>14. EffectsAccounted'
      <3>1. loads'[h] # {} /\ k # "substitute" => Activation \subseteq prepareEffects'[h]
        BY <2>4, <2>6, <2>8
      <3>2. prepareEffects'[h] \subseteq Profile[k].prepare
        BY <2>4, <2>9
      <3> HIDE DEF effects, opened
      <3> QED
        BY <3>1, <3>2, <2>1, <2>4, <2>6, <2>13 DEF EffectsAccounted
    <2> QED
      BY <2>12, <2>14
  <1>10. ASSUME NEW h \in Hooks, VendorReturns(h)
         PROVE  LoadsAccounted' /\ EffectsAccounted'
    <2>1. UNCHANGED <<loads, bound, prepareEffects>> /\ pc[h] \in Committing
      BY <1>10 DEF VendorReturns, Committing
    <2>2. pc'[h] = "finish" /\ \A g \in Hooks : g # h => pc'[g] = pc[g]
      BY <1>10, <1>types DEF VendorReturns, Goto
    <2>3. /\ commitEffects'[h] = 
             {"text"} \cup PageEffect(h) \cup TrampolineEffect(h) \cup
             IF Profile[Kind[h]].atCommit THEN {"activation", "unknown"} ELSE {}
          /\ \A g \in Hooks : g # h => commitEffects'[g] = commitEffects[g]
      BY <1>10, <1>types DEF VendorReturns
    <2>4. Kind[h] \in Kinds
      BY HooksAssumption
    <2>5. commitEffects'[h] \subseteq Profile[Kind[h]].commit
      BY <2>3, <2>4, PageDeclared, ProfileFacts DEF TrampolineEffect
    <2>6. LoadsAccounted'
      <3>1. \A g \in Hooks : pc'[g] = pc[g] \/ pc'[g] \in Committing
        BY <2>2 DEF Committing
      <3> QED
        BY <2>1, <3>1, LoadsFrame
    <2>7. EffectsAccounted'
      BY <2>1, <2>3, <2>5 DEF EffectsAccounted
    <2> QED
      BY <2>6, <2>7
  <1>11. ASSUME NEW h \in Hooks, VendorReturnsFailure(h)
         PROVE  LoadsAccounted' /\ EffectsAccounted'
    <2>1. UNCHANGED <<loads, bound, prepareEffects>> /\ pc[h] \in Committing
      BY <1>11 DEF VendorReturnsFailure, Committing
    <2>2. pc'[h] = "finish" /\ \A g \in Hooks : g # h => pc'[g] = pc[g]
      BY <1>11, <1>types DEF VendorReturnsFailure, Goto
    <2>3. /\ commitEffects'[h] = {"unknown"} \cup PageEffect(h)
          /\ \A g \in Hooks : g # h => commitEffects'[g] = commitEffects[g]
      BY <1>11, <1>types DEF VendorReturnsFailure
    <2>4. Kind[h] \in Kinds
      BY HooksAssumption
    <2>5. commitEffects'[h] \subseteq Profile[Kind[h]].commit
      BY <2>3, <2>4, PageDeclared, ProfileFacts
    <2>6. LoadsAccounted'
      <3>1. \A g \in Hooks : pc'[g] = pc[g] \/ pc'[g] \in Committing
        BY <2>2 DEF Committing
      <3> QED
        BY <2>1, <3>1, LoadsFrame
    <2>7. EffectsAccounted'
      BY <2>1, <2>3, <2>5 DEF EffectsAccounted
    <2> QED
      BY <2>6, <2>7
  <1> QED
    BY <1>1, <1>2, <1>3, <1>4, <1>5, <1>6, <1>7, <1>8, <1>9, <1>10, <1>11
       DEF Next, Step, Discover, Prepare, Commit

-----------------------------------------------------------------------------
(* The theorems.                                                           *)

\* The inductive invariant.
Inv == /\ TypeOK
       /\ CommitsExclude
       /\ CallAccounted
       /\ PagesHeld
       /\ EntriesAccounted
       /\ CachesTrue
       /\ VerdictsMatchDisk
       /\ LoadsAccounted
       /\ EffectsAccounted

\* It holds before discovery begins.
LEMMA InitInv ==
    ASSUME Init
    PROVE  Inv
  <1>1. TypeOK
    <2>1. PICK c \in Scenarios :
             /\ disk = c.disk
             /\ pc = [h \in Hooks |-> IF h \in c.asked THEN "discover" ELSE "absent"]
      BY DEF Init
    <2>2. disk \in [Images -> SUBSET Symbols]
      BY <2>1, WorldAssumption
    <2>3. pc \in [Hooks -> Stages]
      BY <2>1 DEF Stages
    <2>4. /\ entry \in [Targets -> [Parts -> Words]]
          /\ inspected \in [Hooks -> [Parts -> Words]]
          /\ body \in [Hooks -> [Parts -> Words]]
      BY DEF Init, Words
    <2>5. outcome \in [Hooks -> Outcomes]
      BY DEF Init, Outcomes
    <2>6. patches \in 0 .. ForeignWrites
      BY WorldAssumption DEF Init
    <2> QED
      BY <2>2, <2>3, <2>4, <2>5, <2>6 DEF Init, TypeOK
  <1>2. \A h \in Hooks : pc[h] \in {"discover", "absent"}
    BY DEF Init
  <1>3. CommitsExclude
    BY <1>2 DEF CommitsExclude, Committing
  <1>4. CallAccounted
    BY <1>2 DEF Init, CallAccounted
  <1>5. PagesHeld
    BY <1>2 DEF Init, PagesHeld
  <1>6. EntriesAccounted
    <2>1. \A h \in Hooks : Target[h] \in Targets /\ Window(h) \subseteq Parts
      BY HooksAssumption, HybridFacts
    <2> QED
      BY <1>2, <2>1, WordsAssumption DEF Init, EntriesAccounted
  <1>7. CachesTrue
    BY <1>2 DEF Init, CachesTrue, Loaded, Kinds
  <1>8. VerdictsMatchDisk
    BY DEF Init, VerdictsMatchDisk
  <1>9. LoadsAccounted
    BY DEF Init, LoadsAccounted
  <1>10. EffectsAccounted
    BY DEF Init, EffectsAccounted
  <1> QED
    BY <1>1, <1>3, <1>4, <1>5, <1>6, <1>7, <1>8, <1>9, <1>10 DEF Inv

\* Every step keeps it.
LEMMA NextInv ==
    ASSUME Inv, [Next]_vars
    PROVE  Inv'
  BY TypeStep, ExclusionStep, CallStep, PageStep, EntryStep, DiscoveryStep, EffectStep
     DEF Inv

\* The invariant holds throughout.
THEOREM Invariance == Spec => []Inv
  BY InitInv, NextInv, PTL DEF Spec

\* Every variable keeps its type, whatever the vendors and foreign code do.
THEOREM TypeCorrect == Spec => []TypeOK
  <1>1. Inv => TypeOK
    BY DEF Inv
  <1> QED
    BY <1>1, Invariance, PTL

\* hk_platform_*_discover: however many threads race for the memoized verdicts and
\* whatever the host loads meanwhile, an answer agrees with what is installed.
THEOREM VerdictsCorrect == Spec => []VerdictsMatchDisk
  <1>1. Inv => VerdictsMatchDisk
    BY DEF Inv
  <1> QED
    BY <1>1, Invariance, PTL

\* hk_hook_validate_commit_effects and the bindings: a preparation that opened an
\* image says so, no adapter goes beyond its profile, and no two preparations load
\* the image that is bound.
THEOREM EffectsCorrect == Spec => []EffectsAccounted
  <1>1. Inv => EffectsAccounted
    BY DEF Inv
  <1> QED
    BY <1>1, Invariance, PTL

\* provider_release and the commit: an original stands wherever control may reach
\* the replacement, and no page outlives a hook whose vendor was never called.
THEOREM OriginalsCorrect == Spec => []OriginalsStand
  <1>1. ASSUME Inv PROVE OriginalsStand
    <2>1. \A h \in Hooks : Hybrid(h) /\ touched[h] => page[h] # "none"
      BY <1>1 DEF Inv, CallAccounted, PagesHeld
    <2>2. \A h \in Hooks : page[h] # "none" /\ ~called[h] =>
             pc[h] \in {"activate", "prepared", "check", "finish", "done"}
      BY <1>1 DEF Inv, PagesHeld
    <2>3. ASSUME NEW h \in WantsOriginal, h \in {entry[Target[h]][i] : i \in Parts}
          PROVE  cell[h] # "none" \/ (Profile[Kind[h]].early /\ outcome[h] # "ACTIVE")
      <3>1. h \in Hooks /\ Target[h] \in Targets
        BY HooksAssumption
      <3>2. touched[h] /\ called[h]
        BY <1>1, <2>3, <3>1 DEF Inv, EntriesAccounted, CallAccounted
      <3>3. CASE Profile[Kind[h]].early
        BY <1>1, <3>1, <3>3 DEF Inv, CallAccounted
      <3>4. CASE ~Profile[Kind[h]].early
        <4>1. Hybrid(h)
          BY <3>1, <3>4, HybridFacts
        <4> QED
          BY <1>1, <3>1, <3>2, <4>1 DEF Inv, PagesHeld
      <3> QED
        BY <3>3, <3>4
    <2> QED
      BY <2>1, <2>2, <2>3 DEF OriginalsStand
  <1> QED
    BY <1>1, Invariance, PTL

\* ARCHITECTURE.md, invariant 4: what is reported as safely failed or refused
\* never reached the target, and what is reported as active did.
THEOREM SafeOutcomes == Spec => []SafeMeansUntouched
  <1>1. Inv => SafeMeansUntouched
    BY DEF Inv, CallAccounted, SafeMeansUntouched
  <1> QED
    BY <1>1, Invariance, PTL

\* A step that lets the vendor write is taken in its call, and only by its hook.
LEMMA TouchingStep ==
    ASSUME TypeOK, [Next]_vars, NEW h \in Hooks, touched'[h], ~touched[h]
    PROVE  pc[h] = "inside"
  <1>types. touched \in [Hooks -> BOOLEAN]
    BY DEF TypeOK
  <1>1. CASE UNCHANGED vars
    <2>1. UNCHANGED touched
      BY <1>1 DEF vars, codeVars
    <2> QED
      BY <2>1
  <1>2. ASSUME NEW i \in Images, HostLoads(i) PROVE pc[h] = "inside"
    <2>1. UNCHANGED touched
      BY <1>2 DEF HostLoads, codeVars
    <2> QED
      BY <2>1
  <1>3. ASSUME NEW t \in Targets, NEW i \in Parts, ForeignPatch(t, i) PROVE pc[h] = "inside"
    <2>1. UNCHANGED touched
      BY <1>3 DEF ForeignPatch, codeVars
    <2> QED
      BY <2>1
  <1>4. ASSUME NEW f \in Hooks,
                \/ DiscoverDobby(f) \/ DiscoverLive(f) \/ Recall(f)
                \/ AwaitCache(f) \/ ClearCache(f) \/ Probe(f) \/ Reread(f)
         PROVE  pc[h] = "inside"
    <2>1. UNCHANGED touched
      BY <1>4
         DEF DiscoverDobby, DiscoverLive, Recall, AwaitCache, ClearCache, Probe,
             Reread, codeVars
    <2> QED
      BY <2>1
  <1>5. ASSUME NEW f \in Hooks,
                \/ Analyze(f) \/ Validate(f) \/ Inspect(f) \/ Relocate(f)
                \/ ActivateNothing(f) \/ ActivateGlobal(f)
                \/ (\E ok \in Openable : ActivateFromDisk(f, ok))
         PROVE  pc[h] = "inside"
    <2>1. UNCHANGED touched
      BY <1>5
         DEF Analyze, Validate, Inspect, Relocate, ActivateNothing, ActivateGlobal,
             ActivateFromDisk, codeVars
    <2> QED
      BY <2>1
  <1>6. ASSUME NEW f \in Hooks,
                \/ CommitConflict(f) \/ BeginCommit(f) \/ Revalidate(f)
                \/ RevalidateFails(f) \/ EnterVendor(f) \/ VendorPublishes(f)
                \/ VendorReturns(f) \/ VendorReturnsFailure(f) \/ FinishCommit(f)
                \/ Release(f)
         PROVE  pc[h] = "inside"
    <2>1. UNCHANGED touched
      BY <1>6
         DEF CommitConflict, BeginCommit, Revalidate, RevalidateFails, EnterVendor,
             VendorPublishes, VendorReturns, VendorReturnsFailure, FinishCommit,
             Release, codeVars
    <2> QED
      BY <2>1
  <1>7. ASSUME NEW f \in Hooks, NEW n \in Parts, VendorPatches(f, n)
         PROVE  pc[h] = "inside"
    <2>1. \A g \in Hooks : g # f => touched'[g] = touched[g]
      BY <1>7, <1>types DEF VendorPatches
    <2>2. pc[f] = "inside"
      BY <1>7 DEF VendorPatches
    <2> QED
      BY <2>1, <2>2
  <1>8. ASSUME NEW f \in Hooks, NEW n \in 0 .. 2, VendorFails(f, n)
         PROVE  pc[h] = "inside"
    <2>1. \A g \in Hooks : g # f => touched'[g] = touched[g]
      BY <1>8, <1>types DEF VendorFails
    <2>2. pc[f] = "inside"
      BY <1>8 DEF VendorFails
    <2> QED
      BY <2>1, <2>2
  <1> QED
    BY <1>1, <1>2, <1>3, <1>4, <1>5, <1>6, <1>7, <1>8
       DEF Next, Step, Discover, Prepare, Commit

\* HKProviderVtable.c, "Capture before activation and compare immediately before
\* the vendor call": what the vendor displaces is what was inspected, and what
\* HookKit's continuation executes.
THEOREM DisplacedCorrect == Spec => DisplacedAsInspected
  <1> DEFINE Displaced ==
        \A h \in Hooks : touched'[h] /\ ~touched[h] =>
          \A i \in Window(h) :
              \/ entry[Target[h]][i] = Foreign
              \/ /\ entry[Target[h]][i] = inspected[h][i]
                 /\ Hybrid(h) => entry[Target[h]][i] \in {body[h][i], Torn}
  <1>1. ASSUME Inv, [Next]_vars PROVE Displaced
    <2>1. SUFFICES ASSUME NEW h \in Hooks, touched'[h], ~touched[h],
                          NEW i \in Window(h), entry[Target[h]][i] # Foreign
                   PROVE  /\ entry[Target[h]][i] = inspected[h][i]
                          /\ Hybrid(h) => entry[Target[h]][i] \in {body[h][i], Torn}
      OBVIOUS
    <2>2. pc[h] = "inside"
      BY <1>1, <2>1, TouchingStep DEF Inv
    <2>3. i \in Parts
      BY <2>1, HybridFacts
    <2> QED
      BY <1>1, <2>1, <2>2, <2>3 DEF Inv, EntriesAccounted
  <1>2. Inv /\ [Next]_vars => [Displaced]_vars
    BY <1>1
  <1> QED
    BY <1>2, Invariance, PTL DEF Spec, DisplacedAsInspected

=============================================================================
