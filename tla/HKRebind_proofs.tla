-------------------------- MODULE HKRebind_proofs --------------------------
(***************************************************************************)
(* Proofs about HKRebind, for every set of slots, images, scopes, hooks    *)
(* and foreign functions, and with every fault.                            *)
(***************************************************************************)
EXTENDS HKRebind, WellFoundedInduction, TLAPS

-----------------------------------------------------------------------------
(* The inductive invariant.                                                *)

\* Only the holder of the ownership lock is in the engine's commit.
Holding ==
    \A h \in Hooks : pc[h] \in {"site", "write", "finish"} => lock = h

\* The site about to be written is one of the hook's, has not been written,
\* and holds what prepare read unless foreign code has come in between.
AtSite ==
    \A h \in Hooks : pc[h] = "write" =>
        /\ at[h] \in Sites(h)
        /\ at[h] \notin written[h]
        /\ slot[at[h]] = captured[h][at[h]] \/ slot[at[h]] \in Foreign

\* What the mutation state with which the engine ends says of the stores.
StateTells(h) ==
    /\ state[h] = "NONE" => touched[h] = {}
    /\ state[h] = "PARTIAL" => touched[h] # {} /\ touched[h] # Sites(h)
    /\ state[h] = "COMPLETE" => touched[h] = Sites(h)

\* The stores follow the engine's account of them.
Stored ==
    \A h \in Hooks :
        /\ touched[h] \subseteq Sites(h)
        /\ pc[h] \in {"idle", "reading", "prepared"} =>
              touched[h] = {} /\ written[h] = {}
        /\ pc[h] \in {"site", "write"} => touched[h] = written[h]
        /\ pc[h] = "finish" => StateTells(h)

\* The result is written with the lock released, or when prepare refuses.
Undecided ==
    \A h \in Hooks : pc[h] # "done" => outcome[h] \in {"ANALYZED", "PREPARED"}

IInv ==
    /\ TypeOK
    /\ Holding
    /\ AtSite
    /\ Stored
    /\ Undecided
    /\ SlotsMatchOutcome

\* Facts about the constants that the steps below use.
LEMMA Constants ==
    /\ Hooks \subseteq Functions /\ Foreign \subseteq Functions
    /\ Hooks \subseteq Replacements /\ Foreign \subseteq Replacements
    /\ Hooks \cap Foreign = {}
    /\ Symbol \in Functions /\ Null \in Functions
    /\ Null \notin Hooks /\ Symbol \notin Hooks /\ Null \notin Slots
    /\ \A h \in Hooks : Key[h] \in Keys /\ Scope[h] \subseteq Images
BY HooksAssumption, ImagesAssumption DEF Functions, Replacements

\* A set of images that is not empty has a first one.
LEMMA Least ==
    ASSUME NEW T \in SUBSET Nat, T # {}
    PROVE  \E x \in T : \A y \in T : x <= y
<1> DEFINE R == {p \in Nat \X Nat : p[1] < p[2]}
<1>1. IsWellFoundedOn(R, Nat)
  <2>1. IsWellFoundedOn(OpToRel(<, Nat), Nat)
    BY NatLessThanWellFounded
  <2>2. OpToRel(<, Nat) = R
    BY DEF OpToRel
  <2> QED
    BY <2>1, <2>2
<1>2. \E x \in T : \A y \in T : ~ (<<y, x>> \in R)
  BY <1>1, WFMin
<1>3. PICK x \in T : \A y \in T : ~ (<<y, x>> \in R)
  BY <1>2
<1>4. ASSUME NEW y \in T PROVE x <= y
  <2>1. x \in Nat /\ y \in Nat
    OBVIOUS
  <2>2. ~ (<<y, x>> \in R)
    BY <1>3
  <2>3. ~ (y < x)
    BY <2>1, <2>2
  <2> QED
    BY <2>1, <2>3
<1> QED
  BY <1>4

\* The image a slot is kept for is one of the catalog's, or 0.
LEMMA CollectedType ==
    ASSUME NEW h \in Hooks, NEW n \in 0..ImageCount
    PROVE  Collected(h, n) \in [Slots -> 0..ImageCount]
<1> DEFINE D(s) == {i \in Matching(h, n) : s \in ImageSlots[i]}
           F(s) == CHOOSE i \in Matching(h, n) :
                      /\ s \in ImageSlots[i]
                      /\ \A j \in Matching(h, n) : s \in ImageSlots[j] => i <= j
<1>1. ImageCount \in Nat /\ Matching(h, n) \subseteq 1..ImageCount
  BY Constants, ImagesAssumption DEF Matching, Images
<1>2. ASSUME NEW s \in Slots, D(s) # {}
      PROVE  F(s) \in 1..ImageCount
  <2>1. D(s) \in SUBSET Nat
    BY <1>1
  <2>2. PICK i \in D(s) : \A j \in D(s) : i <= j
    BY <1>2, <2>1, Least
  <2>3. \E k \in Matching(h, n) :
           /\ s \in ImageSlots[k]
           /\ \A j \in Matching(h, n) : s \in ImageSlots[j] => k <= j
    BY <2>2
  <2>4. F(s) \in Matching(h, n)
    BY <2>3
  <2> QED
    BY <1>1, <2>4
<1>3. ASSUME NEW s \in Slots
      PROVE  (IF \A i \in Matching(h, n) : s \notin ImageSlots[i] THEN 0
              ELSE F(s)) \in 0..ImageCount
  <2>1. CASE \A i \in Matching(h, n) : s \notin ImageSlots[i]
    BY <1>1, <2>1
  <2>2. CASE D(s) # {}
    <3>1. F(s) \in 0..ImageCount
      BY <1>1, <1>2, <2>2
    <3> QED
      BY <2>2, <3>1
  <2> QED
    BY <2>1, <2>2
<1> QED
  BY <1>3 DEF Collected

\* What a hook publishes is a function, or Null.
LEMMA PublishedType ==
    ASSUME NEW h \in Hooks
    PROVE  Published(h) \in Functions
<1>1. CASE state[h] = "COMPLETE" /\ OriginalsAgree(h)
  <2>1. \E v \in Functions : found[h] = {v}
    BY <1>1 DEF OriginalsAgree
  <2>2. (CHOOSE v \in Functions : found[h] = {v}) \in Functions
    BY <2>1
  <2> QED
    BY <1>1, <2>2 DEF Published
<1>2. CASE ~(state[h] = "COMPLETE" /\ OriginalsAgree(h))
  BY <1>2, Constants DEF Published
<1> QED
  BY <1>1, <1>2

\* What FinishCommit makes of a hook's result o.
Ends(h, o) ==
    /\ outcome' = [outcome EXCEPT ![h] = o]
    /\ IF o = "ACTIVE"
       THEN /\ state[h] = "COMPLETE" /\ Confirmed(h)
            /\ head' = [head EXCEPT ![Key[h]] = h]
            /\ \/ original' = [original EXCEPT ![h] = Published(h)]
               \/ original' = original /\ "installed" \in Faults
       ELSE UNCHANGED <<head, original>>

\* A commit that finishes ends the hook as ACTIVE or as its state says.
LEMMA FinishEnds ==
    ASSUME NEW h \in Hooks, FinishCommit(h)
    PROVE  Ends(h, "ACTIVE") \/ Ends(h, OutcomeOf(state[h]))
<1>1. PICK fault \in (Faults \cap {"owner", "installed"}) \cup {"none"} :
         IF state[h] = "COMPLETE" /\ Confirmed(h) /\ fault # "owner"
         THEN /\ outcome' = [outcome EXCEPT ![h] = "ACTIVE"]
              /\ head' = [head EXCEPT ![Key[h]] = h]
              /\ original' = IF fault = "installed" THEN original
                             ELSE [original EXCEPT ![h] = Published(h)]
         ELSE /\ outcome' = [outcome EXCEPT ![h] = OutcomeOf(state[h])]
              /\ UNCHANGED <<head, original>>
  BY DEF FinishCommit
<1>2. OutcomeOf(state[h]) # "ACTIVE"
  BY DEF OutcomeOf
<1> QED
  BY <1>1, <1>2 DEF Ends

-----------------------------------------------------------------------------
(* Type correctness.                                                       *)

\* The values stay within their types.
LEMMA TypePreserved ==
    ASSUME TypeOK, AtSite, [Next]_vars
    PROVE  TypeOK'
<1> USE Constants DEF prepareVars, commitVars, coreVars
<1>1. CASE UNCHANGED vars
  BY <1>1 DEF vars, TypeOK
<1>2. ASSUME NEW f \in Foreign, NEW s \in Slots, ForeignRebind(f, s)
      PROVE  TypeOK'
  BY <1>2 DEF ForeignRebind, TypeOK
<1>3. ASSUME NEW h \in Hooks, NEW n \in 0..ImageCount, PrepareRefused(h, n)
      PROVE  TypeOK'
  BY <1>3 DEF PrepareRefused, TypeOK
<1>4. ASSUME NEW h \in Hooks, NEW n \in 0..ImageCount, PrepareBegin(h, n)
      PROVE  TypeOK'
  <2>1. Collected(h, n) \in [Slots -> 0..ImageCount]
    BY CollectedType
  <2>2. Uses(h, n) \in SUBSET (Images \X Slots)
    BY DEF Uses, Matching
  <2> QED
    BY <1>4, <2>1, <2>2 DEF PrepareBegin, TypeOK
<1>5. ASSUME NEW h \in Hooks, NEW u \in Images \X Slots, ReadSite(h, u)
      PROVE  TypeOK'
  <2>1. slot[u[2]] \in Functions /\ u[2] \in Slots
    BY DEF TypeOK
  <2>2. captured' \in [Hooks -> [Slots -> Functions]]
    BY <1>5, <2>1 DEF ReadSite, TypeOK
  <2>3. found' \in [Hooks -> SUBSET Functions]
    BY <1>5, <2>1 DEF ReadSite, TypeOK
  <2> QED
    BY <1>5, <2>2, <2>3 DEF ReadSite, TypeOK
<1>6. ASSUME NEW h \in Hooks, PrepareEnd(h)
      PROVE  TypeOK'
  BY <1>6 DEF PrepareEnd, TypeOK
<1>7. ASSUME NEW h \in Hooks, BeginCommit(h)
      PROVE  TypeOK'
  BY <1>7 DEF BeginCommit, TypeOK
<1>8. ASSUME NEW h \in Hooks, NEW s \in Slots, RevalidateSite(h, s)
      PROVE  TypeOK'
  BY <1>8 DEF RevalidateSite, TypeOK
<1>9. ASSUME NEW h \in Hooks, NEW s \in Slots, RefuseSite(h, s)
      PROVE  TypeOK'
  BY <1>9 DEF RefuseSite, EngineEnds, StateOnRefusal, TypeOK
<1>10. ASSUME NEW h \in Hooks, WriteSite(h)
       PROVE  TypeOK'
  <2>1. at[h] \in Slots
    BY <1>10 DEF WriteSite, AtSite, Sites
  <2> QED
    BY <1>10, <2>1 DEF WriteSite, Store, TypeOK
<1>11. ASSUME NEW h \in Hooks, WriteRefused(h)
       PROVE  TypeOK'
  BY <1>11 DEF WriteRefused, EngineEnds, StateOnRefusal, TypeOK
<1>12. ASSUME NEW h \in Hooks, WriteUncertain(h)
       PROVE  TypeOK'
  <2>1. at[h] \in Slots
    BY <1>12 DEF WriteUncertain, AtSite, Sites
  <2>2. slot' \in [Slots -> Functions]
    BY <1>12, <2>1 DEF WriteUncertain, Store, TypeOK
  <2>3. touched' \in [Hooks -> SUBSET Slots]
    BY <1>12, <2>1 DEF WriteUncertain, Store, TypeOK
  <2>4. recorded' \in [Hooks -> SUBSET Slots]
    <3>1. \/ recorded' = [recorded EXCEPT ![h] = @ \cup {at[h]}]
          \/ recorded' = recorded
      BY <1>12 DEF WriteUncertain, Store
    <3>2. CASE recorded' = [recorded EXCEPT ![h] = @ \cup {at[h]}]
      BY <2>1, <3>2 DEF TypeOK
    <3>3. CASE recorded' = recorded
      BY <3>3 DEF TypeOK
    <3> QED
      BY <3>1, <3>2, <3>3
  <2> QED
    BY <1>12, <2>2, <2>3, <2>4 DEF WriteUncertain, EngineEnds, TypeOK
<1>13. ASSUME NEW h \in Hooks, EngineCompletes(h)
       PROVE  TypeOK'
  BY <1>13 DEF EngineCompletes, EngineEnds, TypeOK
<1>14. ASSUME NEW h \in Hooks, FinishCommit(h)
       PROVE  TypeOK'
  <2>1. Published(h) \in Functions
    BY PublishedType
  <2>2. OutcomeOf(state[h]) \in {"FAILED_SAFE", "FAILED_PARTIAL", "FAILED_UNKNOWN"}
    <3>1. state[h] \in {"NONE", "COMPLETE", "PARTIAL", "UNKNOWN"}
      BY DEF TypeOK
    <3> QED
      BY <3>1 DEF OutcomeOf
  <2>3. /\ outcome' \in [Hooks -> {"ANALYZED", "PREPARED", "ACTIVE", "FAILED_SAFE",
                                   "FAILED_PARTIAL", "FAILED_UNKNOWN"}]
        /\ head' \in [Keys -> Hooks \cup {Null}]
        /\ original' \in [Replacements -> Functions]
    <3>1. CASE Ends(h, "ACTIVE")
      <4>1. original' = original \/ original' = [original EXCEPT ![h] = Published(h)]
        BY <3>1 DEF Ends
      <4>2. original' \in [Replacements -> Functions]
        BY <2>1, <4>1 DEF TypeOK
      <4>3. head' \in [Keys -> Hooks \cup {Null}]
        BY <3>1 DEF Ends, TypeOK
      <4> QED
        BY <3>1, <4>2, <4>3 DEF Ends, TypeOK
    <3>2. CASE Ends(h, OutcomeOf(state[h]))
      BY <2>2, <3>2 DEF Ends, TypeOK
    <3> QED
      BY <1>14, <3>1, <3>2, FinishEnds
  <2> QED
    BY <1>14, <2>3 DEF FinishCommit, TypeOK
<1> QED
  BY <1>1, <1>2, <1>3, <1>4, <1>5, <1>6, <1>7, <1>8, <1>9, <1>10, <1>11, <1>12,
     <1>13, <1>14
  DEF Next, PrepareStep, CommitStep

-----------------------------------------------------------------------------
(* The steps preserve the rest of the invariant.                           *)

Rest == Holding /\ AtSite /\ Stored /\ Undecided /\ SlotsMatchOutcome

\* Foreign code never makes a slot look like a hook's.
LEMMA ForeignStep ==
    ASSUME IInv, NEW f \in Foreign, NEW s \in Slots, ForeignRebind(f, s)
    PROVE  Rest'
<1> USE Constants DEF IInv, ForeignRebind, prepareVars, commitVars
<1>1. Holding' /\ Undecided'
  BY DEF Holding, Undecided
<1>2. Stored'
  BY DEF Stored, StateTells, Sites
<1>3. AtSite'
  BY DEF AtSite, Sites, TypeOK
<1>4. SlotsMatchOutcome'
  BY DEF SlotsMatchOutcome, Sites, TypeOK
<1> QED
  BY <1>1, <1>2, <1>3, <1>4 DEF Rest

\* Nothing is stored during prepare.
LEMMA PrepareStepKeeps ==
    ASSUME IInv, NEW h \in Hooks, PrepareStep(h)
    PROVE  Rest'
<1> USE Constants DEF IInv, prepareVars, commitVars, coreVars
<1>1. ASSUME NEW n \in 0..ImageCount, PrepareRefused(h, n)
      PROVE  Rest'
  <2> USE <1>1 DEF PrepareRefused
  <2>1. Holding' /\ AtSite' /\ Undecided'
    BY DEF Holding, AtSite, Undecided, Sites, TypeOK
  <2>2. Stored'
    BY DEF Stored, StateTells, Sites, TypeOK
  <2>3. SlotsMatchOutcome'
    BY DEF SlotsMatchOutcome, Stored, Sites, TypeOK
  <2> QED
    BY <2>1, <2>2, <2>3 DEF Rest
<1>2. ASSUME NEW n \in 0..ImageCount, PrepareBegin(h, n)
      PROVE  Rest'
  <2> USE <1>2 DEF PrepareBegin
  <2>1. \A g \in Hooks \ {h} : Sites(g)' = Sites(g)
    BY DEF Sites, TypeOK
  <2>2. Holding' /\ Undecided'
    BY DEF Holding, Undecided, TypeOK
  <2>3. AtSite'
    BY <2>1 DEF AtSite, TypeOK
  <2>4. Stored'
    BY <2>1 DEF Stored, StateTells, TypeOK
  <2>5. SlotsMatchOutcome'
    <3>1. outcome[h] \in {"ANALYZED", "PREPARED"}
      BY DEF Undecided
    <3>2. UNCHANGED <<slot, touched, recorded, outcome>>
      OBVIOUS
    <3> HIDE DEF PrepareBegin
    <3> QED
      BY <2>1, <3>1, <3>2 DEF SlotsMatchOutcome
  <2> QED
    BY <2>2, <2>3, <2>4, <2>5 DEF Rest
<1>3. ASSUME NEW u \in Images \X Slots, ReadSite(h, u)
      PROVE  Rest'
  <2> USE <1>3 DEF ReadSite
  <2>1. \A g \in Hooks \ {h} : captured'[g] = captured[g]
    BY DEF TypeOK
  <2>2. Holding' /\ Undecided'
    BY DEF Holding, Undecided
  <2>3. AtSite'
    BY <2>1 DEF AtSite, Sites
  <2>4. Stored'
    BY DEF Stored, StateTells, Sites
  <2>5. SlotsMatchOutcome'
    BY DEF SlotsMatchOutcome, Sites
  <2> QED
    BY <2>2, <2>3, <2>4, <2>5 DEF Rest
<1>4. ASSUME PrepareEnd(h)
      PROVE  Rest'
  <2> USE <1>4 DEF PrepareEnd
  <2>1. Holding' /\ AtSite' /\ Undecided'
    BY DEF Holding, AtSite, Undecided, Sites, TypeOK
  <2>2. Stored'
    BY DEF Stored, StateTells, Sites, TypeOK
  <2>3. SlotsMatchOutcome'
    BY DEF SlotsMatchOutcome, Stored, Sites, TypeOK
  <2> QED
    BY <2>1, <2>2, <2>3 DEF Rest
<1> QED
  BY <1>1, <1>2, <1>3, <1>4 DEF PrepareStep

\* The commit of the holder: it stores only in its own sites, one at a time,
\* and what it reports is what it stored.
LEMMA CommitStepKeeps ==
    ASSUME IInv, NEW h \in Hooks, CommitStep(h)
    PROVE  Rest'
<1> USE Constants DEF IInv, prepareVars, commitVars, coreVars
<1>1. CASE BeginCommit(h)
  <2> USE <1>1 DEF BeginCommit
  <2>1. Holding' /\ AtSite' /\ Undecided'
    BY DEF Holding, AtSite, Undecided, Sites, TypeOK
  <2>2. Stored'
    BY DEF Stored, StateTells, Sites, TypeOK
  <2>3. SlotsMatchOutcome'
    BY DEF SlotsMatchOutcome, Sites
  <2> QED
    BY <2>1, <2>2, <2>3 DEF Rest
<1>2. ASSUME NEW s \in Slots, RevalidateSite(h, s)
      PROVE  Rest'
  <2> USE <1>2 DEF RevalidateSite
  <2>1. Holding' /\ Undecided'
    BY DEF Holding, Undecided, TypeOK
  <2>2. AtSite'
    BY DEF AtSite, Upcoming, Left, StillHolds, Sites, TypeOK
  <2>3. Stored'
    BY DEF Stored, StateTells, Sites, TypeOK
  <2>4. SlotsMatchOutcome'
    BY DEF SlotsMatchOutcome, Sites
  <2> QED
    BY <2>1, <2>2, <2>3, <2>4 DEF Rest
<1>3. ASSUME EngineEnds(h, StateOnRefusal(h)),
             pc[h] \in {"site", "write"}, written[h] # Sites(h),
             UNCHANGED <<slot, bundle, captured, at, written, recorded, touched,
                         lock, outcome>>
      PROVE  Rest'
  <2> USE <1>3 DEF EngineEnds
  <2>1. Holding' /\ AtSite' /\ Undecided'
    BY DEF Holding, AtSite, Undecided, Sites, TypeOK
  <2>2. Stored'
    BY DEF Stored, StateTells, StateOnRefusal, Sites, TypeOK
  <2>3. SlotsMatchOutcome'
    BY DEF SlotsMatchOutcome, Sites
  <2> QED
    BY <2>1, <2>2, <2>3 DEF Rest
<1>4. ASSUME NEW s \in Slots, RefuseSite(h, s)
      PROVE  Rest'
  <2>1. written[h] # Sites(h)
    BY <1>4 DEF RefuseSite, Upcoming, Left
  <2> QED
    BY <1>3, <1>4, <2>1 DEF RefuseSite
<1>5. CASE WriteRefused(h)
  <2>1. written[h] # Sites(h)
    BY <1>5 DEF WriteRefused, AtSite
  <2> QED
    BY <1>3, <1>5, <2>1 DEF WriteRefused
<1>6. ASSUME pc[h] = "write", Store(h), UNCHANGED <<bundle, captured, outcome>>,
             \A g \in Hooks \ {h} : /\ pc'[g] = pc[g] /\ at'[g] = at[g]
                                    /\ written'[g] = written[g]
                                    /\ state'[g] = state[g]
      PROVE  /\ \A g \in Hooks : touched'[g] \subseteq Sites(g)'
             /\ SlotsMatchOutcome'
             /\ \A g \in Hooks \ {h} : pc[g] \notin {"site", "write", "finish"}
  <2>1. at[h] \in Sites(h) /\ at[h] \in Slots
    BY <1>6 DEF AtSite, Sites
  <2>2. \A g \in Hooks : Sites(g)' = Sites(g)
    BY <1>6 DEF Sites
  <2>3. \A g \in Hooks \ {h} : touched'[g] = touched[g] /\ recorded'[g] = recorded[g]
    BY <1>6 DEF Store, TypeOK
  <2>4. touched'[h] = touched[h] \cup {at[h]}
    BY <1>6 DEF Store, TypeOK
  <2>5. \A g \in Hooks : touched'[g] \subseteq Sites(g)'
    BY <2>1, <2>2, <2>3, <2>4 DEF Stored
  <2>6. \A g \in Hooks, s \in Slots : slot'[s] = g => s \in touched'[g]
    BY <1>6, <2>1, <2>3, <2>4 DEF Store, SlotsMatchOutcome, TypeOK
  <2>7. outcome[h] \in {"ANALYZED", "PREPARED"}
    BY <1>6 DEF Undecided
  <2>8. SlotsMatchOutcome'
    BY <1>6, <2>2, <2>3, <2>6, <2>7 DEF SlotsMatchOutcome
  <2>9. \A g \in Hooks \ {h} : pc[g] \notin {"site", "write", "finish"}
    BY <1>6 DEF Holding
  <2> QED
    BY <2>5, <2>8, <2>9
<1>7. CASE WriteSite(h)
  <2> USE <1>7 DEF WriteSite
  <2>1. /\ \A g \in Hooks : touched'[g] \subseteq Sites(g)'
        /\ SlotsMatchOutcome'
        /\ \A g \in Hooks \ {h} : pc[g] \notin {"site", "write", "finish"}
    BY <1>6 DEF TypeOK
  <2>2. Holding' /\ AtSite' /\ Undecided'
    BY <2>1 DEF Holding, AtSite, Undecided, TypeOK
  <2>3. /\ touched'[h] = written'[h]
        /\ \A g \in Hooks \ {h} : touched'[g] = touched[g] /\ written'[g] = written[g]
    BY DEF Store, Stored, TypeOK
  <2>4. Stored'
    BY <2>1, <2>3 DEF Stored, StateTells, TypeOK
  <2> QED
    BY <2>1, <2>2, <2>4 DEF Rest
<1>8. CASE WriteUncertain(h)
  <2> USE <1>8 DEF WriteUncertain, EngineEnds
  <2>1. /\ \A g \in Hooks : touched'[g] \subseteq Sites(g)'
        /\ SlotsMatchOutcome'
        /\ \A g \in Hooks \ {h} : pc[g] \notin {"site", "write", "finish"}
    BY <1>6 DEF TypeOK
  <2>2. Holding' /\ AtSite' /\ Undecided'
    BY <2>1 DEF Holding, AtSite, Undecided, TypeOK
  <2>3. \A g \in Hooks \ {h} : touched'[g] = touched[g]
    BY DEF Store, TypeOK
  <2>4. state'[h] = "UNKNOWN"
    BY DEF TypeOK
  <2>5. Stored'
    BY <2>1, <2>3, <2>4 DEF Stored, StateTells, TypeOK
  <2> QED
    BY <2>1, <2>2, <2>5 DEF Rest
<1>9. CASE EngineCompletes(h)
  <2> USE <1>9 DEF EngineCompletes, EngineEnds
  <2>1. Holding' /\ AtSite' /\ Undecided'
    BY DEF Holding, AtSite, Undecided, Sites, TypeOK
  <2>2. touched[h] = Sites(h)
    BY DEF Stored, Left
  <2>3. Stored'
    BY <2>2 DEF Stored, StateTells, Sites, TypeOK
  <2>4. SlotsMatchOutcome'
    BY DEF SlotsMatchOutcome, Sites
  <2> QED
    BY <2>1, <2>3, <2>4 DEF Rest
<1>10. CASE FinishCommit(h)
  <2> USE <1>10 DEF FinishCommit
  <2>1. Holding' /\ AtSite'
    BY DEF Holding, AtSite, Sites, TypeOK
  <2>2. \A g \in Hooks \ {h} : outcome'[g] = outcome[g]
    BY FinishEnds DEF Ends, TypeOK
  <2>3. Undecided'
    BY <2>2 DEF Undecided, TypeOK
  <2>4. Stored'
    BY DEF Stored, StateTells, Sites, TypeOK
  <2>5. StateTells(h)
    BY DEF Stored
  <2>6. \/ /\ outcome'[h] = "ACTIVE"
           /\ touched[h] = Sites(h) /\ recorded[h] = Sites(h)
        \/ outcome'[h] = OutcomeOf(state[h])
    BY <2>5, FinishEnds DEF Ends, Confirmed, StateTells, TypeOK
  <2>7. \/ /\ state[h] = "NONE" /\ OutcomeOf(state[h]) = "FAILED_SAFE"
        \/ /\ state[h] = "PARTIAL" /\ OutcomeOf(state[h]) = "FAILED_PARTIAL"
        \/ OutcomeOf(state[h]) = "FAILED_UNKNOWN"
    BY DEF OutcomeOf
  <2>8. SlotsMatchOutcome'
    BY <2>2, <2>5, <2>6, <2>7 DEF StateTells, SlotsMatchOutcome, Sites
  <2> QED
    BY <2>1, <2>3, <2>4, <2>8 DEF Rest
<1> QED
  BY <1>1, <1>2, <1>4, <1>5, <1>7, <1>8, <1>9, <1>10 DEF CommitStep

-----------------------------------------------------------------------------

\* Every step preserves the invariant.
LEMMA Inductive ==
    ASSUME IInv, [Next]_vars
    PROVE  IInv'
<1>1. TypeOK'
  BY TypePreserved DEF IInv
<1>2. Rest'
  <2>1. CASE UNCHANGED vars
    BY <2>1 DEF vars, prepareVars, commitVars, coreVars, IInv, Rest, Holding, AtSite,
                Stored, StateTells, Undecided, SlotsMatchOutcome, Sites
  <2> QED
    BY <2>1, ForeignStep, PrepareStepKeeps, CommitStepKeeps DEF Next
<1> QED
  BY <1>1, <1>2 DEF IInv, Rest

\* The invariant holds at first.
LEMMA Initially ==
    ASSUME Init
    PROVE  IInv
<1> USE Constants DEF Init
<1>1. TypeOK
  BY ImagesAssumption DEF TypeOK
<1>2. Rest
  BY DEF Rest, Holding, AtSite, Stored, StateTells, Undecided, SlotsMatchOutcome, Sites
<1> QED
  BY <1>1, <1>2 DEF IInv, Rest

\* So it holds always.
LEMMA Invariant == Spec => []IInv
<1>1. Init => IInv
  BY Initially
<1>2. IInv /\ [Next]_vars => IInv'
  BY Inductive
<1> QED
  BY <1>1, <1>2, PTL DEF Spec

\* The engine and the core never leave the types of their state.
THEOREM TypeCorrect == Spec => []TypeOK
<1>1. IInv => TypeOK
  BY DEF IInv
<1> QED
  BY <1>1, Invariant, PTL

\* Whatever slots change under a hook and wherever its commit stops, the result
\* tells which of its slots were stored in.
THEOREM ResultsTellTheTruth == Spec => []SlotsMatchOutcome
<1>1. IInv => SlotsMatchOutcome
  BY DEF IInv
<1> QED
  BY <1>1, Invariant, PTL

\* However many plans rebind the same slots, the unlocked window between the
\* re-read and the store never costs another hook its slot.
THEOREM HooksNeverOverwritten == Spec => OnlyForeignWorkLost
<1> DEFINE Lossless ==
        \A h \in Hooks : \A s \in touched'[h] \ touched[h] :
            slot[s] = captured[h][s] \/ slot[s] \in Foreign
<1>1. ASSUME IInv, Next
      PROVE  Lossless
  <2>1. CASE touched' = touched
    BY <2>1
  <2>2. ASSUME NEW h \in Hooks, pc[h] = "write", Store(h)
        PROVE  Lossless
    BY <1>1, <2>2 DEF Store, IInv, AtSite, TypeOK
  <2>3. \/ touched' = touched
        \/ \E h \in Hooks : pc[h] = "write" /\ Store(h)
    BY <1>1 DEF Next, ForeignRebind, PrepareStep, CommitStep, PrepareRefused,
                PrepareBegin, ReadSite, PrepareEnd, BeginCommit, RevalidateSite,
                RefuseSite, WriteSite, WriteRefused, WriteUncertain,
                EngineCompletes, FinishCommit, commitVars
  <2> QED
    BY <2>1, <2>2, <2>3
<1>2. IInv /\ [Next]_vars => [Lossless]_vars
  BY <1>1
<1> QED
  BY <1>2, Invariant, PTL DEF Spec, OnlyForeignWorkLost

-----------------------------------------------------------------------------
(* Chains through overlapping scopes.                                      *)

\* A patch that gets an original takes nothing out of anyone's reach.
LEMMA ReachGrows ==
    ASSUME NEW o, NEW n, NEW v,
           \A x \in Replacements : o[x] # Null => n[x] = o[x]
    PROVE  Reach(o, v) \subseteq Reach(n, v)
<1> SUFFICES ASSUME NEW w \in Reach(o, v), NEW S \in SUBSET Functions, v \in S,
                    \A x \in S \cap Replacements : n[x] # Null => n[x] \in S
             PROVE  w \in S
  BY DEF Reach
<1>1. \A x \in S \cap Replacements : o[x] # Null => o[x] \in S
  OBVIOUS
<1> QED
  BY <1>1 DEF Reach

\* What can be reached from what can be reached can be reached.
LEMMA ReachThrough ==
    ASSUME NEW o, NEW v
    PROVE  /\ v \in Functions => v \in Reach(o, v)
           /\ \A w \in Reach(o, v) : Reach(o, w) \subseteq Reach(o, v)
           /\ \A x \in Reach(o, v) \cap Replacements :
                 o[x] # Null => Reach(o, o[x]) \subseteq Reach(o, v)
<1>1. v \in Functions => v \in Reach(o, v)
  BY DEF Reach
<1>2. \A w \in Reach(o, v) : Reach(o, w) \subseteq Reach(o, v)
  BY DEF Reach
<1>3. \A x \in Reach(o, v) \cap Replacements :
         o[x] # Null => Reach(o, o[x]) \subseteq Reach(o, v)
  BY DEF Reach
<1> QED
  BY <1>1, <1>2, <1>3

\* Hooks that have ended without the original that was asked for.
Silent == {b \in Hooks : pc[b] = "done" /\ ReportedWithoutOriginal(b)}

\* From v, through the originals o, a call gets to h or ends at one of E.
Leads(o, E, v, h) == h \in Reach(o, v) \/ Reach(o, v) \cap E # {}

\* Prepare captures a value that it counts among the originals, at every site.
ReadsKept ==
    \A h \in Hooks :
        /\ pc[h] = "idle" => Sites(h) = {}
        /\ \A s \in Sites(h) :
              captured[h][s] \in found[h] \/ <<bundle[h][s], s>> \in toRead[h]
        /\ pc[h] \in {"prepared", "site", "write", "finish"} =>
              toRead[h] = {} /\ (h \in NeedsOriginal => HasOriginal(h))

\* A hook has its original from the end of its commit, for which it holds the lock.
OriginalsLate ==
    \A h \in Hooks :
        /\ pc[h] # "done" => original[h] = Null
        /\ lock = h => pc[h] \in {"site", "write", "finish"}

\* A slot of an ACTIVE hook leads to the hook, or to the one that is being committed,
\* which has written the slot; and what the latter captured there does too.
ChainKept ==
    \A h \in Hooks : outcome[h] = "ACTIVE" =>
        \A s \in Sites(h) :
            /\ \/ Leads(original, Silent, slot[s], h)
               \/ \E g \in Hooks : /\ lock = g /\ s \in touched[g]
                                   /\ g \in Reach(original, slot[s])
            /\ \A g \in Hooks :
                  lock = g /\ (s \in touched[g] \/ (pc[g] = "write" /\ at[g] = s)) =>
                      Leads(original, Silent, captured[g][s], h)

\* A site is kept for an image whose use of it is read.
LEMMA CollectedUses ==
    ASSUME NEW h \in Hooks, NEW n \in 0..ImageCount, NEW s \in Slots,
           Collected(h, n)[s] # 0
    PROVE  <<Collected(h, n)[s], s>> \in Uses(h, n)
<1> DEFINE D == {i \in Matching(h, n) : s \in ImageSlots[i]}
           F == CHOOSE i \in Matching(h, n) :
                      /\ s \in ImageSlots[i]
                      /\ \A j \in Matching(h, n) : s \in ImageSlots[j] => i <= j
<1>1. D # {} /\ Collected(h, n)[s] = F
  BY DEF Collected
<1>2. D \in SUBSET Nat
  BY Constants, ImagesAssumption DEF Matching, Images
<1>3. PICK i \in D : \A j \in D : i <= j
  BY <1>1, <1>2, Least
<1>4. F \in Matching(h, n) /\ s \in ImageSlots[F]
  BY <1>3
<1> HIDE DEF F
<1> QED
  BY <1>1, <1>4 DEF Uses

\* Every step keeps what prepare read.
LEMMA ReadsStep ==
    ASSUME TypeOK, ReadsKept, [Next]_vars
    PROVE  ReadsKept'
<1> USE DEF prepareVars, commitVars, coreVars
<1>1. CASE UNCHANGED vars
  BY <1>1 DEF vars, ReadsKept, Sites, HasOriginal, OriginalsAgree
<1>2. ASSUME NEW f \in Foreign, NEW s \in Slots, ForeignRebind(f, s)
      PROVE  ReadsKept'
  BY <1>2 DEF ForeignRebind, ReadsKept, Sites, HasOriginal, OriginalsAgree
<1>3. ASSUME NEW h \in Hooks, NEW n \in 0..ImageCount, PrepareRefused(h, n)
      PROVE  ReadsKept'
  BY <1>3 DEF PrepareRefused, ReadsKept, Sites, HasOriginal, OriginalsAgree, TypeOK
<1>4. ASSUME NEW h \in Hooks, NEW n \in 0..ImageCount, PrepareBegin(h, n)
      PROVE  ReadsKept'
  <2>1. /\ pc'[h] = "reading" /\ bundle'[h] = Collected(h, n) /\ toRead'[h] = Uses(h, n)
        /\ \A g \in Hooks \ {h} : pc'[g] = pc[g] /\ bundle'[g] = bundle[g] /\ toRead'[g] = toRead[g]
        /\ captured' = captured /\ found' = found
    BY <1>4 DEF PrepareBegin, TypeOK
  <2>2. \A s \in Sites(h)' : <<bundle'[h][s], s>> \in toRead'[h]
    BY <2>1, CollectedUses DEF Sites
  <2> QED
    BY <2>1, <2>2 DEF ReadsKept, Sites, HasOriginal, OriginalsAgree
<1>5. ASSUME NEW h \in Hooks, NEW u \in Images \X Slots, ReadSite(h, u)
      PROVE  ReadsKept'
  <2>1. /\ pc' = pc /\ bundle' = bundle /\ pc[h] = "reading"
        /\ \A g \in Hooks \ {h} : /\ captured'[g] = captured[g] /\ found'[g] = found[g]
                                  /\ toRead'[g] = toRead[g]
        /\ toRead'[h] = toRead[h] \ {u} /\ found[h] \subseteq found'[h]
        /\ \A s \in Slots : <<bundle[h][s], s>> # u => captured'[h][s] = captured[h][s]
    BY <1>5 DEF ReadSite, TypeOK
  <2>2. ASSUME NEW s \in Slots, <<bundle[h][s], s>> = u
        PROVE  captured'[h][s] \in found'[h]
    <3>1. bundle[h][u[2]] = u[1] /\ u[2] = s /\ InBundle(h, u[1])
      BY <2>2 DEF InBundle
    <3>2. captured'[h][s] = slot[s]
      BY <1>5, <3>1 DEF ReadSite, TypeOK
    <3>3. found'[h] = found[h] \cup {slot[s]}
      BY <1>5, <3>1 DEF ReadSite, TypeOK
    <3> QED
      BY <3>2, <3>3
  <2>3. \A s \in Sites(h) :
           captured'[h][s] \in found'[h] \/ <<bundle'[h][s], s>> \in toRead'[h]
    BY <2>1, <2>2 DEF ReadsKept, Sites
  <2>4. \A g \in Hooks : Sites(g)' = Sites(g)
    BY <2>1 DEF Sites
  <2> QED
    BY <2>1, <2>3, <2>4 DEF ReadsKept, HasOriginal, OriginalsAgree
<1>6. ASSUME NEW h \in Hooks, PrepareEnd(h)
      PROVE  ReadsKept'
  BY <1>6 DEF PrepareEnd, ReadsKept, Sites, HasOriginal, OriginalsAgree, TypeOK
<1>7. ASSUME NEW h \in Hooks, CommitStep(h)
      PROVE  ReadsKept'
  <2>1. /\ UNCHANGED prepareVars
        /\ \A g \in Hooks \ {h} : pc'[g] = pc[g]
        /\ pc[h] \in {"prepared", "site", "write", "finish"} /\ pc'[h] # "idle"
    BY <1>7 DEF CommitStep, BeginCommit, RevalidateSite, RefuseSite, WriteSite, WriteRefused,
                WriteUncertain, EngineCompletes, EngineEnds, FinishCommit, TypeOK
  <2> QED
    BY <2>1 DEF ReadsKept, Sites, HasOriginal, OriginalsAgree
<1> QED
  BY <1>1, <1>2, <1>3, <1>4, <1>5, <1>6, <1>7 DEF Next, PrepareStep

\* Every step keeps the originals of the hooks that have not ended at Null.
LEMMA OriginalsStep ==
    ASSUME IInv, OriginalsLate, [Next]_vars
    PROVE  OriginalsLate'
<1> USE Constants DEF IInv, TypeOK, prepareVars, commitVars, coreVars
<1>1. CASE UNCHANGED vars
  BY <1>1 DEF vars, OriginalsLate
<1>2. ASSUME NEW f \in Foreign, NEW s \in Slots, ForeignRebind(f, s)
      PROVE  OriginalsLate'
  BY <1>2 DEF ForeignRebind, OriginalsLate
<1>3. ASSUME NEW h \in Hooks, PrepareStep(h)
      PROVE  OriginalsLate'
  BY <1>3 DEF PrepareStep, PrepareRefused, PrepareBegin, ReadSite, PrepareEnd, OriginalsLate
<1>4. ASSUME NEW h \in Hooks, CommitStep(h), ~FinishCommit(h)
      PROVE  OriginalsLate'
  <2>1. /\ UNCHANGED original /\ \A g \in Hooks \ {h} : pc'[g] = pc[g]
        /\ pc'[h] \in {"site", "write", "finish"} /\ pc[h] # "done" /\ lock' \in {h, lock}
    BY <1>4 DEF CommitStep, BeginCommit, RevalidateSite, RefuseSite, WriteSite, WriteRefused,
                WriteUncertain, EngineCompletes, EngineEnds
  <2> QED
    BY <2>1 DEF OriginalsLate
<1>5. ASSUME NEW h \in Hooks, FinishCommit(h)
      PROVE  OriginalsLate'
  <2>1. \A g \in Hooks \ {h} : pc'[g] = pc[g] /\ original'[g] = original[g]
    BY <1>5, FinishEnds DEF Ends, FinishCommit
  <2>2. pc'[h] = "done" /\ lock' = Null
    BY <1>5 DEF FinishCommit
  <2> QED
    BY <2>1, <2>2 DEF OriginalsLate
<1> QED
  BY <1>1, <1>2, <1>3, <1>4, <1>5 DEF Next

\* A step that stores nothing and ends no commit keeps the chains.
LEMMA QuietStep ==
    ASSUME ChainKept, UNCHANGED <<slot, touched, original>>, Silent \subseteq Silent',
           \A h \in Hooks : outcome'[h] = "ACTIVE" =>
                               outcome[h] = "ACTIVE" /\ Sites(h)' = Sites(h),
           \A g \in Hooks : lock = g => lock' = g,
           \A g \in Hooks : lock' = g =>
               /\ captured'[g] = captured[g]
               /\ \/ lock = g /\ (pc'[g] = "write" => pc[g] = "write" /\ at'[g] = at[g])
                  \/ touched[g] = {} /\ pc'[g] # "write"
    PROVE  ChainKept'
<1> SUFFICES ASSUME NEW h \in Hooks, outcome'[h] = "ACTIVE", NEW s \in Sites(h)'
             PROVE  /\ \/ Leads(original', Silent', slot'[s], h)
                       \/ \E g \in Hooks : /\ lock' = g /\ s \in touched'[g]
                                           /\ g \in Reach(original', slot'[s])
                    /\ \A g \in Hooks :
                          lock' = g /\ (s \in touched'[g] \/ (pc'[g] = "write" /\ at'[g] = s)) =>
                              Leads(original', Silent', captured'[g][s], h)
  BY DEF ChainKept
<1>1. outcome[h] = "ACTIVE" /\ s \in Sites(h)
  OBVIOUS
<1>2. \A v : Leads(original, Silent, v, h) => Leads(original', Silent', v, h)
  BY DEF Leads
<1>3. \/ Leads(original, Silent, slot[s], h)
      \/ \E g \in Hooks : lock = g /\ s \in touched[g] /\ g \in Reach(original, slot[s])
  BY <1>1 DEF ChainKept
<1>4. ASSUME NEW g \in Hooks, lock' = g, s \in touched'[g] \/ (pc'[g] = "write" /\ at'[g] = s)
      PROVE  Leads(original', Silent', captured'[g][s], h)
  <2>1. lock = g /\ (s \in touched[g] \/ (pc[g] = "write" /\ at[g] = s))
    <3>1. touched'[g] = touched[g]
      OBVIOUS
    <3>2. \/ lock = g /\ (pc'[g] = "write" => pc[g] = "write" /\ at'[g] = at[g])
          \/ touched[g] = {} /\ pc'[g] # "write"
      BY <1>4
    <3> QED
      BY <1>4, <3>1, <3>2
  <2>2. Leads(original, Silent, captured[g][s], h)
    BY <1>1, <2>1 DEF ChainKept
  <2> QED
    BY <1>2, <1>4, <2>2
<1> QED
  BY <1>2, <1>3, <1>4

\* The lock's holder stores in a slot that it has revalidated.
LEMMA StoreStep ==
    ASSUME IInv, ChainKept, OriginalsLate, NEW g \in Hooks, pc[g] = "write", Store(g),
           UNCHANGED <<bundle, captured, lock, original, outcome>>, Silent \subseteq Silent',
           pc'[g] # "write"
    PROVE  ChainKept'
<1> USE Constants DEF IInv
<1>1. at[g] \in Slots /\ lock = g
  BY DEF AtSite, Sites, Holding
<1>2. /\ slot'[at[g]] = g /\ \A s \in Slots : s # at[g] => slot'[s] = slot[s]
      /\ touched'[g] = touched[g] \cup {at[g]}
  BY <1>1 DEF Store, TypeOK
<1> SUFFICES ASSUME NEW h \in Hooks, outcome[h] = "ACTIVE", NEW s \in Sites(h)
             PROVE  /\ \/ Leads(original, Silent', slot'[s], h)
                       \/ /\ s \in touched'[g]
                          /\ g \in Reach(original, slot'[s])
                    /\ s \in touched'[g] => Leads(original, Silent', captured[g][s], h)
  BY <1>1 DEF ChainKept, Sites
<1>3. \A v : Leads(original, Silent, v, h) => Leads(original, Silent', v, h)
  BY DEF Leads
<1>4. s \in Slots
  BY DEF Sites
<1>5. \A x \in Hooks : lock = x => x = g
  BY <1>1
<1>6. CASE s = at[g]
  <2>1. g \in Reach(original, slot'[s]) /\ s \in touched'[g]
    BY <1>2, <1>6, ReachThrough
  <2>2. Leads(original, Silent, captured[g][s], h)
    BY <1>1, <1>6 DEF ChainKept
  <2> QED
    BY <1>3, <2>1, <2>2
<1>7. CASE s # at[g]
  <2>1. slot'[s] = slot[s] /\ (s \in touched'[g] <=> s \in touched[g])
    BY <1>2, <1>4, <1>7
  <2>2. \/ Leads(original, Silent, slot[s], h)
        \/ s \in touched[g] /\ g \in Reach(original, slot[s])
    BY <1>5 DEF ChainKept
  <2>3. ASSUME s \in touched[g]
        PROVE  Leads(original, Silent, captured[g][s], h)
    <3>1. lock = g /\ (s \in touched[g] \/ (pc[g] = "write" /\ at[g] = s))
      BY <1>1, <2>3
    <3> QED
      BY <3>1 DEF ChainKept
  <2> QED
    BY <1>3, <2>1, <2>2, <2>3
<1> QED
  BY <1>6, <1>7

\* Every step keeps the chains.
LEMMA ChainStep ==
    ASSUME IInv, ReadsKept, OriginalsLate, ChainKept, [Next]_vars
    PROVE  ChainKept'
<1> USE Constants DEF IInv, prepareVars, commitVars, coreVars
<1>1. CASE UNCHANGED vars
  BY <1>1 DEF vars, ChainKept, Sites, Silent, ReportedWithoutOriginal
<1>2. ASSUME NEW f \in Foreign, NEW t \in Slots, ForeignRebind(f, t)
      PROVE  ChainKept'
  <2>1. /\ original[f] = Null /\ original'[f] = slot[t] /\ slot[t] # Null
        /\ \A x \in Replacements : x # f => original'[x] = original[x]
        /\ slot'[t] = f /\ \A s \in Slots : s # t => slot'[s] = slot[s]
    BY <1>2 DEF ForeignRebind, TypeOK
  <2>2. UNCHANGED <<pc, bundle, captured, lock, at, touched, outcome>>
    BY <1>2 DEF ForeignRebind
  <2>3. Silent \subseteq Silent'
    BY <2>1, <2>2 DEF Silent, ReportedWithoutOriginal
  <2>4. \A x \in Replacements : original[x] # Null => original'[x] = original[x]
    BY <2>1
  <2>5. \A v : Reach(original, v) \subseteq Reach(original', v)
    BY <2>4, ReachGrows
  <2>6. \A s \in Slots : Reach(original', slot[s]) \subseteq Reach(original', slot'[s])
    <3>1. f \in Reach(original', f)
      BY ReachThrough
    <3>2. Reach(original', slot[t]) \subseteq Reach(original', f)
      BY <2>1, <3>1, ReachThrough
    <3> QED
      BY <2>1, <3>2
  <2>7. ASSUME NEW h \in Hooks, outcome[h] = "ACTIVE", NEW s \in Sites(h)
        PROVE  /\ \/ Leads(original', Silent', slot'[s], h)
                  \/ \E g \in Hooks : /\ lock = g /\ s \in touched[g]
                                      /\ g \in Reach(original', slot'[s])
               /\ \A g \in Hooks :
                     lock = g /\ (s \in touched[g] \/ (pc[g] = "write" /\ at[g] = s)) =>
                         Leads(original', Silent', captured[g][s], h)
    <3>1. \A v : Leads(original, Silent, v, h) => Leads(original', Silent', v, h)
      BY <2>3, <2>5 DEF Leads
    <3>2. s \in Slots
      BY DEF Sites
    <3>3. Leads(original', Silent', slot[s], h) => Leads(original', Silent', slot'[s], h)
      BY <2>6, <3>2 DEF Leads
    <3>4. \A g : g \in Reach(original, slot[s]) => g \in Reach(original', slot'[s])
      BY <2>5, <2>6, <3>2
    <3> QED
      BY <2>7, <3>1, <3>3, <3>4 DEF ChainKept
  <2> QED
    BY <2>2, <2>7 DEF ChainKept, Sites
<1>3. ASSUME NEW h \in Hooks, PrepareStep(h)
      PROVE  ChainKept'
  <2>1. /\ UNCHANGED <<slot, touched, original, lock, at>>
        /\ pc[h] \in {"idle", "reading"} /\ pc'[h] \in {"idle", "reading", "prepared", "done"}
        /\ outcome'[h] \in {outcome[h], "FAILED_SAFE", "PREPARED"}
        /\ \A g \in Hooks \ {h} : /\ pc'[g] = pc[g] /\ captured'[g] = captured[g]
                                  /\ bundle'[g] = bundle[g] /\ outcome'[g] = outcome[g]
    BY <1>3 DEF PrepareStep, PrepareRefused, PrepareBegin, ReadSite, PrepareEnd, TypeOK
  <2>2. outcome'[h] # "ACTIVE" /\ lock # h
    BY <2>1 DEF Undecided, OriginalsLate
  <2>3. Silent \subseteq Silent'
    BY <2>1 DEF Silent, ReportedWithoutOriginal
  <2>4. \A g \in Hooks : outcome'[g] = "ACTIVE" =>
                            outcome[g] = "ACTIVE" /\ Sites(g)' = Sites(g)
    BY <2>1, <2>2 DEF Sites
  <2>5. \A g \in Hooks : lock' = g =>
           captured'[g] = captured[g] /\ lock = g /\ pc'[g] = pc[g] /\ at'[g] = at[g]
    BY <2>1, <2>2
  <2> QED
    BY <2>1, <2>3, <2>4, <2>5, QuietStep
<1>4. ASSUME NEW h \in Hooks, BeginCommit(h)
      PROVE  ChainKept'
  <2>1. /\ UNCHANGED <<slot, touched, original, captured, bundle, outcome>>
        /\ pc[h] = "prepared" /\ pc'[h] = "site" /\ lock = Null /\ lock' = h
        /\ \A g \in Hooks \ {h} : pc'[g] = pc[g]
    BY <1>4 DEF BeginCommit, TypeOK
  <2>2. Silent \subseteq Silent' /\ touched[h] = {}
    BY <2>1 DEF Silent, ReportedWithoutOriginal, Stored
  <2>3. \A g \in Hooks : Sites(g)' = Sites(g)
    BY <2>1 DEF Sites
  <2> QED
    BY <2>1, <2>2, <2>3, QuietStep
<1>5. ASSUME NEW h \in Hooks, NEW t \in Slots, RevalidateSite(h, t)
      PROVE  ChainKept'
  <2>1. /\ UNCHANGED <<slot, touched, original, captured, bundle, outcome, lock>>
        /\ pc[h] = "site" /\ pc'[h] = "write" /\ at'[h] = t /\ slot[t] = captured[h][t]
        /\ t \in Sites(h) \ written[h]
        /\ \A g \in Hooks \ {h} : pc'[g] = pc[g]
    BY <1>5 DEF RevalidateSite, Upcoming, Left, StillHolds, TypeOK
  <2>2. Silent \subseteq Silent' /\ lock = h /\ t \notin touched[h]
    BY <2>1 DEF Silent, ReportedWithoutOriginal, Holding, Stored
  <2>3. ASSUME NEW k \in Hooks, outcome[k] = "ACTIVE", NEW s \in Sites(k)
        PROVE  /\ \/ Leads(original, Silent', slot[s], k)
                  \/ s \in touched[h] /\ h \in Reach(original, slot[s])
               /\ s \in touched[h] \/ s = t => Leads(original, Silent', captured[h][s], k)
    <3>1. \A v : Leads(original, Silent, v, k) => Leads(original, Silent', v, k)
      BY <2>2 DEF Leads
    <3>2. \/ Leads(original, Silent, slot[s], k)
          \/ s \in touched[h] /\ h \in Reach(original, slot[s])
      BY <2>2, <2>3 DEF ChainKept
    <3>3. CASE s = t
      BY <2>1, <2>2, <3>1, <3>2, <3>3
    <3>4. CASE s # t
      <4>1. ASSUME s \in touched[h] PROVE Leads(original, Silent, captured[h][s], k)
        <5>1. lock = h /\ (s \in touched[h] \/ (pc[h] = "write" /\ at[h] = s))
          BY <2>2, <4>1
        <5> QED
          BY <2>3, <5>1 DEF ChainKept
      <4> QED
        BY <3>1, <3>2, <3>4, <4>1
    <3> QED
      BY <3>3, <3>4
  <2>4. \A g \in Hooks : Sites(g)' = Sites(g)
    BY <2>1 DEF Sites
  <2> QED
    BY <2>1, <2>2, <2>3, <2>4 DEF ChainKept
<1>6. ASSUME NEW h \in Hooks,
             \/ \E t \in Slots : RefuseSite(h, t)
             \/ WriteRefused(h) \/ EngineCompletes(h)
      PROVE  ChainKept'
  <2>1. /\ UNCHANGED <<slot, touched, original, captured, bundle, outcome, lock, at>>
        /\ pc[h] # "done" /\ pc'[h] = "finish"
        /\ \A g \in Hooks \ {h} : pc'[g] = pc[g]
    BY <1>6 DEF RefuseSite, WriteRefused, EngineCompletes, EngineEnds, TypeOK
  <2>2. Silent \subseteq Silent'
    BY <2>1 DEF Silent, ReportedWithoutOriginal
  <2>3. \A g \in Hooks : Sites(g)' = Sites(g)
    BY <2>1 DEF Sites
  <2>4. \A g \in Hooks : lock' = g =>
           lock = g /\ (pc'[g] = "write" => pc[g] = "write" /\ at'[g] = at[g])
    BY <2>1
  <2> QED
    BY <2>1, <2>2, <2>3, <2>4, QuietStep
<1>7. ASSUME NEW h \in Hooks, WriteSite(h) \/ WriteUncertain(h)
      PROVE  ChainKept'
  <2>1. /\ UNCHANGED <<bundle, captured, lock, original, outcome>>
        /\ Store(h) /\ pc[h] = "write" /\ pc'[h] \in {"site", "finish"}
        /\ \A g \in Hooks \ {h} : pc'[g] = pc[g]
    BY <1>7 DEF WriteSite, WriteUncertain, EngineEnds, TypeOK
  <2>2. Silent \subseteq Silent'
    BY <2>1 DEF Silent, ReportedWithoutOriginal
  <2> QED
    BY <2>1, <2>2, StoreStep
<1>8. ASSUME NEW g \in Hooks, FinishCommit(g)
      PROVE  ChainKept'
  <2>1. /\ UNCHANGED <<slot, bundle, captured, touched, found>> /\ lock' = Null
        /\ pc[g] = "finish" /\ pc'[g] = "done" /\ lock = g /\ original[g] = Null
        /\ \A x \in Hooks \ {g} : pc'[x] = pc[x]
    BY <1>8 DEF FinishCommit, TypeOK, Holding, OriginalsLate
  <2>2. /\ \A x \in Hooks \ {g} : outcome'[x] = outcome[x]
        /\ \A x \in Replacements : x # g => original'[x] = original[x]
    <3>1. \A x \in Hooks \ {g} : outcome'[x] = outcome[x]
      BY <1>8, FinishEnds DEF Ends, TypeOK
    <3>2. original' = original \/ original' = [original EXCEPT ![g] = Published(g)]
      BY <1>8, FinishEnds DEF Ends
    <3>3. \A x \in Replacements : x # g => original'[x] = original[x]
      BY <3>2 DEF TypeOK
    <3> QED
      BY <3>1, <3>3
  <2>3. Silent \subseteq Silent'
    BY <2>1, <2>2 DEF Silent, ReportedWithoutOriginal
  <2>4. \A v : Reach(original, v) \subseteq Reach(original', v)
    BY <2>1, <2>2, ReachGrows
  <2>5. \A x \in Hooks : Sites(x)' = Sites(x)
    BY <2>1 DEF Sites
  <2>6. ASSUME touched[g] # {}
        PROVE  g \in Silent' \/ \A s \in Sites(g) : original'[g] = captured[g][s] /\ original'[g] # Null
    <3>1. CASE Ends(g, "ACTIVE") /\ original' = [original EXCEPT ![g] = Published(g)]
      <4>1. original'[g] = Published(g) /\ state[g] = "COMPLETE"
        BY <3>1 DEF Ends, TypeOK
      <4>2. g \in NeedsOriginal => OriginalsAgree(g) /\ Null \notin found[g]
        BY <2>1 DEF ReadsKept, HasOriginal
      <4>3. CASE Published(g) = Null
        <5>1. g \notin NeedsOriginal
          <6>1. ASSUME g \in NeedsOriginal PROVE FALSE
            <7>1. PICK v \in Functions : found[g] = {v}
              BY <4>2, <6>1 DEF OriginalsAgree
            <7>2. found[g] = {Published(g)}
              BY <4>1, <4>2, <6>1, <7>1 DEF Published
            <7> QED
              BY <4>2, <4>3, <6>1, <7>2
          <6> QED
            BY <6>1
        <5> QED
          BY <2>1, <4>1, <4>3, <5>1 DEF Silent, ReportedWithoutOriginal
      <4>4. CASE Published(g) # Null
        <5>1. OriginalsAgree(g) /\ found[g] = {Published(g)}
          <6>1. OriginalsAgree(g) /\ Published(g) = CHOOSE v \in Functions : found[g] = {v}
            BY <4>4 DEF Published
          <6>2. PICK v \in Functions : found[g] = {v}
            BY <6>1 DEF OriginalsAgree
          <6> QED
            BY <6>1, <6>2
        <5>2. \A s \in Sites(g) : captured[g][s] \in found[g]
          BY <2>1 DEF ReadsKept
        <5> QED
          BY <4>1, <4>4, <5>1, <5>2
      <4> QED
        BY <4>3, <4>4
    <3>2. CASE Ends(g, "ACTIVE") /\ original' = original /\ "installed" \in Faults
      BY <2>1, <3>2 DEF Silent, ReportedWithoutOriginal
    <3>3. CASE Ends(g, OutcomeOf(state[g])) /\ ~Ends(g, "ACTIVE")
      <4>1. state[g] # "NONE"
        BY <2>1, <2>6 DEF Stored, StateTells
      <4>2. OutcomeOf(state[g]) \in {"FAILED_PARTIAL", "FAILED_UNKNOWN"}
        BY <4>1 DEF OutcomeOf
      <4>3. outcome'[g] = OutcomeOf(state[g]) /\ original' = original
        BY <3>3, <4>2 DEF Ends, TypeOK
      <4> QED
        BY <2>1, <4>2, <4>3 DEF Silent, ReportedWithoutOriginal
    <3> QED
      BY <1>8, <3>1, <3>2, <3>3, FinishEnds DEF Ends
  <2>7. outcome'[g] = "ACTIVE" => \A s \in Sites(g) : slot[s] = g
    <3>1. OutcomeOf(state[g]) # "ACTIVE"
      BY DEF OutcomeOf
    <3> QED
      BY <1>8, <3>1, FinishEnds DEF Ends, Confirmed, TypeOK
  <2>8. ASSUME NEW h \in Hooks, outcome'[h] = "ACTIVE", NEW s \in Sites(h)
        PROVE  Leads(original', Silent', slot[s], h)
    <3>1. CASE h = g
      BY <2>7, <2>8, <3>1, ReachThrough DEF Leads
    <3>2. CASE h # g
      <4>1. outcome[h] = "ACTIVE"
        BY <2>2, <2>8, <3>2
      <4>2. \A v : Leads(original, Silent, v, h) => Leads(original', Silent', v, h)
        BY <2>3, <2>4 DEF Leads
      <4>3. CASE Leads(original, Silent, slot[s], h)
        BY <4>2, <4>3
      <4>4. CASE s \in touched[g] /\ g \in Reach(original, slot[s])
        <5>1. g \in Reach(original', slot[s]) /\ s \in Sites(g)
          BY <2>4, <4>4 DEF Stored
        <5>2. CASE g \in Silent'
          BY <5>1, <5>2 DEF Leads
        <5>3. CASE original'[g] = captured[g][s] /\ original'[g] # Null
          <6>1. Leads(original, Silent, captured[g][s], h)
            <7>1. lock = g /\ (s \in touched[g] \/ (pc[g] = "write" /\ at[g] = s))
              BY <2>1, <4>4
            <7> QED
              BY <2>8, <4>1, <7>1 DEF ChainKept
          <6>2. Reach(original', captured[g][s]) \subseteq Reach(original', slot[s])
            BY <5>1, <5>3, ReachThrough
          <6> QED
            BY <4>2, <6>1, <6>2 DEF Leads
        <5> QED
          BY <2>6, <4>4, <5>1, <5>2, <5>3
      <4> QED
        BY <2>1, <2>8, <4>1, <4>3, <4>4 DEF ChainKept
    <3> QED
      BY <3>1, <3>2
  <2> QED
    BY <2>1, <2>5, <2>8 DEF ChainKept
<1> QED
  BY <1>1, <1>2, <1>3, <1>4, <1>5, <1>6, <1>7, <1>8 DEF Next, CommitStep

\* Overlapping scopes, foreign rebinding, half-done commits and failed allocations
\* notwithstanding: between commits, a call through a slot of an ACTIVE hook gets to the
\* hook or ends at a hook whose result says that it has no original.
THEOREM ChainBreaksTold == Spec => []ChainBreaksReported
<1> DEFINE J == ReadsKept /\ OriginalsLate /\ ChainKept
<1>1. Init => J
  BY Constants DEF Init, ReadsKept, OriginalsLate, ChainKept, Sites
<1>2. IInv /\ J /\ [Next]_vars => J'
  BY ReadsStep, OriginalsStep, ChainStep DEF IInv
<1>3. IInv /\ J => ChainBreaksReported
  <2> SUFFICES ASSUME IInv, J, lock = Null, NEW h \in Hooks, outcome[h] = "ACTIVE",
                      NEW s \in Sites(h)
               PROVE  \/ h \in Reach(original, slot[s])
                      \/ \E b \in Reach(original, slot[s]) \cap Hooks :
                            ReportedWithoutOriginal(b)
    BY DEF ChainBreaksReported
  <2>1. Leads(original, Silent, slot[s], h)
    BY Constants DEF ChainKept
  <2> QED
    BY <2>1 DEF Leads, Silent
<1> QED
  BY <1>1, <1>2, <1>3, Invariant, PTL DEF Spec

=============================================================================
