--------------------------- MODULE HKObjC_proofs ---------------------------
(***************************************************************************)
(* Proofs about the method search, about MethodChain and about HKObjC, for *)
(* every hierarchy and any number of hooks, keys and foreign patchers.     *)
(***************************************************************************)
EXTENDS HKObjC, TLAPS

-----------------------------------------------------------------------------
(* The method search.                                                      *)

\* The search ends at one class only.
LEMMA NearestUnique ==
    ASSUME NEW f, NEW c \in Classes, NEW d \in Classes, NEW e \in Classes,
           Nearest(f, c, d), Nearest(f, c, e)
    PROVE  d = e
BY HierarchyAssumption DEF Nearest

\* Lookup gives the implementation of the class the search ends at.
LEMMA LookupNearest ==
    ASSUME NEW f, NEW c \in Classes, NEW d \in Classes, Nearest(f, c, d)
    PROVE  Lookup(f, c) = f[d]
<1> DEFINE x == CHOOSE e \in Classes : Nearest(f, c, e)
<1>1. x \in Classes /\ Nearest(f, c, x)
  OBVIOUS
<1>2. x = d
  BY <1>1, NearestUnique
<1> QED
  BY <1>2 DEF Lookup

\* Replacing the method of class t moves the end of a search from c to t when
\* c inherits through t, and leaves it where it was otherwise.
LEMMA ReplacedSearch ==
    ASSUME NEW f \in [Classes -> Imps \cup {None}],
           NEW t \in Classes, NEW p \in Patches,
           NEW c \in Classes, NEW d \in Classes, Nearest(f, c, d)
    PROVE  \/ /\ Nearest(Replaced(f, t, p), c, t)
              /\ Nearest(f, t, d)
           \/ /\ Nearest(Replaced(f, t, p), c, d)
              /\ d # t
<1> DEFINE g == Replaced(f, t, p)
<1>1. p # None
  BY PatchesAssumption
<1>2. g[t] = p /\ \A e \in Classes : e # t => g[e] = f[e]
  BY DEF Replaced
<1>3. Above[c] \subseteq Classes /\ Above[t] \subseteq Classes
      /\ Above[d] \subseteq Classes
  BY HierarchyAssumption
<1>4. CASE t \in Above[c] /\ d \in Above[t]
  <2>1. Above[d] \subseteq Above[t] /\ t \in Above[t]
    BY <1>4, HierarchyAssumption
  <2>2. Above[t] \subseteq Above[c]
    BY <1>4, HierarchyAssumption
  <2>3. Nearest(g, c, t)
    BY <1>1, <1>2, <1>3, <1>4, <2>1 DEF Nearest
  <2>4. Nearest(f, t, d)
    BY <1>4, <2>2 DEF Nearest
  <2> QED
    BY <2>3, <2>4
<1>5. CASE ~(t \in Above[c] /\ d \in Above[t])
  <2>1. d \in Above[c] /\ f[d] # None
    BY DEF Nearest
  <2>2. d # t
    BY <1>5, <2>1, HierarchyAssumption
  <2>3. t \in Above[c] => t \in Above[d]
    BY <1>5, <2>1, HierarchyAssumption
  <2>4. Nearest(g, c, d)
    BY <1>2, <1>3, <2>1, <2>2, <2>3 DEF Nearest
  <2> QED
    BY <2>2, <2>4
<1> QED
  BY <1>4, <1>5

\* A class that defines the method itself is where the search ends.
LEMMA LookupLocal ==
    ASSUME NEW f, NEW c \in Classes, f[c] # None
    PROVE  Lookup(f, c) = f[c]
<1>1. Nearest(f, c, c)
  BY HierarchyAssumption DEF Nearest
<1> QED
  BY <1>1, LookupNearest

\* A search that ends somewhere ends at an implementation.
LEMMA LookupImp ==
    ASSUME NEW f \in [Classes -> Imps \cup {None}], Resolves(f),
           NEW c \in Classes
    PROVE  Lookup(f, c) \in Imps
<1>1. PICK d \in Classes : Nearest(f, c, d)
  BY DEF Resolves
<1>2. Lookup(f, c) = f[d]
  BY <1>1, LookupNearest
<1> QED
  BY <1>1, <1>2 DEF Nearest

\* Replacing or adding a method leaves every class responding.
LEMMA ResolvesReplaced ==
    ASSUME NEW f \in [Classes -> Imps \cup {None}], Resolves(f),
           NEW t \in Classes, NEW p \in Patches
    PROVE  Resolves(Replaced(f, t, p))
<1> SUFFICES ASSUME NEW c \in Classes
             PROVE  \E e \in Classes : Nearest(Replaced(f, t, p), c, e)
  BY DEF Resolves
<1>1. PICK d \in Classes : Nearest(f, c, d)
  BY DEF Resolves
<1> QED
  BY <1>1, ReplacedSearch

\* MethodChain reads and replaces methods as HKObjC does.
LEMMA SameOperators ==
    /\ Chain!Imps = Imps
    /\ \A f : Chain!Resolves(f) <=> Resolves(f)
    /\ \A f, c, p : /\ Chain!Lookup(f, c) = Lookup(f, c)
                    /\ Chain!Replaced(f, c, p) = Replaced(f, c, p)
    /\ \A o, v : Chain!Reach(o, v) = Reach(o, v)
<1>1. Chain!Imps = Imps
  BY DEF Chain!Imps, Imps
<1>2. \A f : Chain!Resolves(f) <=> Resolves(f)
  BY DEF Chain!Resolves, Chain!Nearest, Resolves, Nearest
<1>3. \A f, c, p : /\ Chain!Lookup(f, c) = Lookup(f, c)
                   /\ Chain!Replaced(f, c, p) = Replaced(f, c, p)
  BY DEF Chain!Lookup, Chain!Nearest, Chain!Replaced, Lookup, Nearest, Replaced
<1>4. \A o, v : Chain!Reach(o, v) = Reach(o, v)
  BY <1>1 DEF Chain!Reach, Reach
<1> QED
  BY <1>1, <1>2, <1>3, <1>4

-----------------------------------------------------------------------------
(* MethodChain, the abstract specification.                                *)

\* The chain's variables keep their types and every class keeps responding to
\* the selector (hk_objc_commit replaces or adds methods, it removes none).
THEOREM ChainTypeCorrect == Chain!Spec => []Chain!TypeOK
<1>1. Chain!Init => Chain!TypeOK
  BY SameOperators DEF Chain!Init, Chain!TypeOK, Imps
<1>2. Chain!TypeOK /\ [Chain!Next]_(Chain!vars) => Chain!TypeOK'
  <2> SUFFICES ASSUME Chain!TypeOK, [Chain!Next]_(Chain!vars)
               PROVE  Chain!TypeOK'
    OBVIOUS
  <2>1. CASE UNCHANGED Chain!vars
    BY <2>1 DEF Chain!vars, Chain!TypeOK
  <2>2. ASSUME NEW p \in Patches, Chain!Install(p)
        PROVE  Chain!TypeOK'
    <3> DEFINE t == Target[p]
    <3>1. t \in Classes /\ p \in Imps
      BY PatchesAssumption DEF Imps
    <3>3. Lookup(imp, t) \in Imps
      BY <3>1, LookupImp, SameOperators DEF Chain!TypeOK
    <3>4. imp' = Replaced(imp, t, p) /\ imp \in [Classes -> Imps \cup {None}]
      BY <2>2, SameOperators DEF Chain!Install, Chain!TypeOK
    <3>5. imp' \in [Classes -> Imps \cup {None}]
      BY <3>1, <3>4 DEF Replaced
    <3>6. original' \in [Patches -> Imps \cup {None}]
      BY <2>2, <3>3, SameOperators DEF Chain!Install, Chain!TypeOK
    <3>7. Resolves(imp')
      BY <3>1, <3>4, ResolvesReplaced, SameOperators DEF Chain!TypeOK
    <3> QED
      BY <3>5, <3>6, <3>7, SameOperators DEF Chain!TypeOK, Resolves, Nearest
  <2> QED
    BY <2>1, <2>2 DEF Chain!Next
<1> QED
  BY <1>1, <1>2, PTL DEF Chain!Spec

\* A replacement that calls can arrive at has an original.
THEOREM LiveHasOriginal == Chain!Spec => []Chain!LivePatchHasOriginal
<1>1. Chain!Init => Chain!LivePatchHasOriginal
  BY PatchesAssumption DEF Chain!Init, Chain!LivePatchHasOriginal
<1>2. Chain!TypeOK /\ Chain!LivePatchHasOriginal /\ [Chain!Next]_(Chain!vars) => Chain!LivePatchHasOriginal'
  <2> SUFFICES ASSUME Chain!TypeOK, Chain!LivePatchHasOriginal, [Chain!Next]_(Chain!vars),
                      NEW c \in Classes, imp'[c] \in Patches
               PROVE  original'[imp'[c]] # None
    BY DEF Chain!LivePatchHasOriginal
  <2>1. CASE UNCHANGED Chain!vars
    BY <2>1 DEF Chain!vars, Chain!LivePatchHasOriginal
  <2>2. ASSUME NEW p \in Patches, Chain!Install(p)
        PROVE  original'[imp'[c]] # None
    <3>1. Target[p] \in Classes
      BY PatchesAssumption
    <3>2. PICK d \in Classes : Nearest(imp, Target[p], d)
      BY <3>1, SameOperators DEF Chain!TypeOK, Resolves
    <3>3. Lookup(imp, Target[p]) # None
      BY <3>1, <3>2, LookupNearest DEF Nearest
    <3>4. original'[p] # None
      BY <2>2, <3>3, SameOperators DEF Chain!Install, Chain!TypeOK
    <3>5. imp'[c] = p \/ imp'[c] = imp[c]
      BY <2>2, <3>1, SameOperators DEF Chain!Install, Chain!TypeOK, Replaced
    <3>6. \A q \in Patches : q # p => original'[q] = original[q]
      BY <2>2, SameOperators DEF Chain!Install, Chain!TypeOK
    <3> QED
      BY <3>4, <3>5, <3>6 DEF Chain!LivePatchHasOriginal
  <2> QED
    BY <2>1, <2>2 DEF Chain!Next
<1> QED
  BY <1>1, <1>2, ChainTypeCorrect, PTL DEF Chain!Spec

\* However patches pile up on a class, its subclasses and its superclasses,
\* each stays reachable from the class it was installed on.
THEOREM NeverLost == Chain!Spec => []Chain!NothingLost
<1>1. Chain!Init => Chain!NothingLost
  BY SameOperators DEF Chain!Init, Chain!NothingLost
<1>2. Chain!TypeOK /\ Chain!NothingLost /\ [Chain!Next]_(Chain!vars) => Chain!NothingLost'
  <2> SUFFICES ASSUME Chain!TypeOK, Chain!NothingLost, [Chain!Next]_(Chain!vars)
               PROVE  Chain!NothingLost'
    OBVIOUS
  <2>1. CASE UNCHANGED Chain!vars
    BY <2>1 DEF Chain!vars, Chain!NothingLost, Reach, Lookup, Nearest
  <2>2. ASSUME NEW p \in Patches, Chain!Install(p)
        PROVE  Chain!NothingLost'
    <3> DEFINE t == Target[p]
               Closed(S, o) == \A r \in S \cap Patches :
                                  o[r] # None => o[r] \in S
    <3> SUFFICES ASSUME NEW q \in Patches, original'[q] # None,
                        NEW S \in SUBSET Imps,
                        Lookup(imp', Target[q]) \in S, Closed(S, original')
                 PROVE  q \in S
      BY SameOperators DEF Chain!NothingLost, Reach, Imps
    <3>1. /\ t \in Classes
          /\ Target[q] \in Classes
      BY PatchesAssumption
    <3>2. PICK d \in Classes : Nearest(imp, Target[q], d)
      BY <3>1, SameOperators DEF Chain!TypeOK, Resolves
    <3>3. imp' = Replaced(imp, t, p) /\ imp \in [Classes -> Imps \cup {None}]
      BY <2>2, SameOperators DEF Chain!Install, Chain!TypeOK
    <3>4. /\ original[p] = None
          /\ original'[p] = Lookup(imp, t)
          /\ \A r \in Patches : r # p => original'[r] = original[r]
      BY <2>2, SameOperators DEF Chain!Install, Chain!TypeOK
    <3>5. Closed(S, original)
      BY <3>4
    <3>6. Lookup(imp, Target[q]) = imp[d] /\ imp[d] # None
      BY <3>1, <3>2, LookupNearest DEF Nearest
    <3>7. CASE Nearest(imp', Target[q], t) /\ Nearest(imp, t, d)
      <4>0. Lookup(imp', Target[q]) = imp'[t]
        BY <3>1, <3>7, LookupNearest
      <4>1. Lookup(imp', Target[q]) = p
        BY <3>1, <3>3, <4>0 DEF Replaced
      <4>2. Lookup(imp, t) = imp[d]
        BY <3>1, <3>7, LookupNearest
      <4>3. imp[d] \in S
        BY <3>4, <3>6, <4>1, <4>2
      <4> QED
        BY <3>4, <3>5, <3>6, <4>1, <4>3, SameOperators DEF Chain!NothingLost, Reach
    <3>8. CASE Nearest(imp', Target[q], d) /\ d # t
      <4>1. q # p
        <5>1. t \in Above[t] /\ imp'[t] # None
          BY <3>1, <3>3, HierarchyAssumption, PatchesAssumption DEF Replaced
        <5>2. CASE q = p
          <6>1. t \in Above[d] /\ d \in Above[t]
            BY <3>8, <5>1, <5>2 DEF Nearest
          <6> QED
            BY <3>1, <3>8, <6>1, HierarchyAssumption
        <5> QED
          BY <5>2
      <4>0. Lookup(imp', Target[q]) = imp'[d]
        BY <3>1, <3>8, LookupNearest
      <4>2. Lookup(imp', Target[q]) = imp[d]
        BY <3>3, <3>8, <4>0 DEF Replaced
      <4> QED
        BY <3>4, <3>5, <3>6, <4>1, <4>2, SameOperators DEF Chain!NothingLost, Reach
    <3> QED
      BY <3>1, <3>2, <3>3, <3>7, <3>8, ReplacedSearch
  <2> QED
    BY <2>1, <2>2 DEF Chain!Next
<1> QED
  BY <1>1, <1>2, ChainTypeCorrect, PTL DEF Chain!Spec

-----------------------------------------------------------------------------
(* The inductive invariant.                                                *)

\* Only the holder of the ownership lock is between lookup and unlock.
LockHeld ==
    \A h \in Hooks : pc[h] \in {"locked", "checked", "written"} => lock = h

\* A hook that has not been written yet has no original.
Unwritten ==
    \A h \in Hooks :
        pc[h] \in {"idle", "prepared", "locked", "checked"} => original[h] = None

\* What the holder looked up in the ledger is still what the ledger holds.
LedgerStable ==
    \A h \in Hooks :
        pc[h] \in {"locked", "checked", "written"} => owned[h] = head[Key[h]]

\* What the holder checked still holds, as far as nobody ignores the lock.
CheckHolds ==
    \A h \in Hooks :
        pc[h] = "checked" =>
            /\ owned[h] # None => captured[h] = owned[h]
            /\ Serialized => Current(h) = captured[h]

IInv ==
    /\ TypeOK
    /\ Resolves(imp)
    /\ LockHeld
    /\ Unwritten
    /\ LedgerStable
    /\ CheckHolds

\* Facts about the constants that the steps below use.
LEMMA Constants ==
    /\ Hooks \subseteq Patches
    /\ \A p \in Patches : Target[p] \in Classes /\ p \in Imps /\ p # None
    /\ \A h \in Hooks : Key[h] \in Keys
BY HooksAssumption, PatchesAssumption DEF Imps

\* The values stay within their types and every class keeps responding.
LEMMA TypePreserved ==
    ASSUME TypeOK, Resolves(imp), [Next]_vars
    PROVE  TypeOK' /\ Resolves(imp')
<1> USE Constants
<1>1. CASE UNCHANGED vars
  BY <1>1 DEF vars, TypeOK, Resolves, Nearest
<1>2. ASSUME NEW h \in Hooks, Prepare(h)
      PROVE  TypeOK' /\ Resolves(imp')
  <2>1. Current(h) \in Imps
    BY LookupImp DEF TypeOK, Current
  <2> QED
    BY <1>2, <2>1 DEF Prepare, TypeOK, Resolves, Nearest
<1>3. ASSUME NEW h \in Hooks, PrepareRefused(h)
      PROVE  TypeOK' /\ Resolves(imp')
  BY <1>3 DEF PrepareRefused, TypeOK, Resolves, Nearest
<1>4. ASSUME NEW h \in Hooks, BeginCommit(h)
      PROVE  TypeOK' /\ Resolves(imp')
  BY <1>4 DEF BeginCommit, TypeOK, Resolves, Nearest
<1>5. ASSUME NEW h \in Hooks, CommitRefused(h)
      PROVE  TypeOK' /\ Resolves(imp')
  BY <1>5 DEF CommitRefused, TypeOK, Resolves, Nearest
<1>6. ASSUME NEW h \in Hooks, Revalidate(h)
      PROVE  TypeOK' /\ Resolves(imp')
  BY <1>6 DEF Revalidate, TypeOK, Resolves, Nearest
<1>7. ASSUME NEW h \in Hooks, ReplaceMethod(h)
      PROVE  TypeOK' /\ Resolves(imp')
  <2>1. imp' = Replaced(imp, Target[h], h)
    BY <1>7 DEF ReplaceMethod
  <2>2. Resolves(imp')
    BY <2>1, ResolvesReplaced DEF TypeOK
  <2>3. imp' \in [Classes -> Imps \cup {None}]
    BY <2>1 DEF TypeOK, Replaced
  <2>4. original' \in [Patches -> Imps \cup {None}]
    BY <1>7 DEF ReplaceMethod, TypeOK
  <2> QED
    BY <1>7, <2>2, <2>3, <2>4 DEF ReplaceMethod, TypeOK
<1>8. ASSUME NEW h \in Hooks, FinishCommit(h)
      PROVE  TypeOK' /\ Resolves(imp')
  <2>1. /\ head' \in [Keys -> Hooks \cup {None}]
        /\ slot' \in [Hooks -> Imps \cup {None}]
        /\ outcome' \in [Hooks -> {"ANALYZED", "PREPARED", "ACTIVE",
                                   "FAILED_SAFE", "FAILED_UNKNOWN"}]
    <3>1. original[h] \in Imps \cup {None}
      BY DEF TypeOK
    <3>2. PICK fault \in Faults \cup {"none"} :
             IF Confirmed(h) /\ fault \notin {"artifact", "owner"}
             THEN /\ outcome' = [outcome EXCEPT ![h] = "ACTIVE"]
                  /\ head' = HeadAfter(h)
                  /\ slot' = IF fault = "installed" THEN slot
                             ELSE [slot EXCEPT ![h] = original[h]]
             ELSE /\ outcome' = [outcome EXCEPT ![h] = "FAILED_UNKNOWN"]
                  /\ UNCHANGED <<head, slot>>
      BY <1>8 DEF FinishCommit
    <3> QED
      BY <3>1, <3>2 DEF HeadAfter, TypeOK
  <2> QED
    BY <1>8, <2>1 DEF FinishCommit, TypeOK, Resolves, Nearest
<1>9. ASSUME NEW f \in Foreign, ForeignPatch(f)
      PROVE  TypeOK' /\ Resolves(imp')
  <2>1. f \in Patches
    BY DEF Foreign
  <2>2. imp' = Replaced(imp, Target[f], f)
    BY <1>9 DEF ForeignPatch
  <2>3. Resolves(imp')
    BY <2>1, <2>2, ResolvesReplaced DEF TypeOK
  <2>4. imp' \in [Classes -> Imps \cup {None}]
    BY <2>1, <2>2 DEF TypeOK, Replaced
  <2>5. Lookup(imp, Target[f]) \in Imps
    BY <2>1, LookupImp DEF TypeOK
  <2>6. original' \in [Patches -> Imps \cup {None}]
    BY <1>9, <2>5 DEF ForeignPatch, TypeOK
  <2> QED
    BY <1>9, <2>3, <2>4, <2>6 DEF ForeignPatch, TypeOK
<1> QED
  BY <1>1, <1>2, <1>3, <1>4, <1>5, <1>6, <1>7, <1>8, <1>9 DEF Next, CommitStep

\* Every step keeps the lock discipline and what was checked under it.
LEMMA DisciplinePreserved ==
    ASSUME IInv, [Next]_vars
    PROVE  (LockHeld /\ Unwritten /\ LedgerStable /\ CheckHolds)'
<1> USE Constants DEF IInv
<1> DEFINE G == (LockHeld /\ Unwritten /\ LedgerStable /\ CheckHolds)'
<1>1. CASE UNCHANGED vars
  <2>1. \A g \in Hooks : Current(g)' = Current(g)
    BY <1>1 DEF vars, Current, Lookup, Nearest
  <2> QED
    BY <1>1, <2>1 DEF vars, LockHeld, Unwritten, LedgerStable, CheckHolds
<1>2. ASSUME NEW h \in Hooks, Prepare(h)
      PROVE  G
  <2>1. \A g \in Hooks : Current(g)' = Current(g)
    BY <1>2 DEF Prepare, Current, Lookup, Nearest
  <2> QED
    BY <1>2, <2>1 DEF Prepare, TypeOK, LockHeld, Unwritten,
                      LedgerStable, CheckHolds
<1>3. ASSUME NEW h \in Hooks, PrepareRefused(h)
      PROVE  G
  <2>1. \A g \in Hooks : Current(g)' = Current(g)
    BY <1>3 DEF PrepareRefused, Current, Lookup, Nearest
  <2> QED
    BY <1>3, <2>1 DEF PrepareRefused, TypeOK, LockHeld, Unwritten,
                      LedgerStable, CheckHolds
<1>4. ASSUME NEW h \in Hooks, BeginCommit(h)
      PROVE  G
  <2>1. \A g \in Hooks : Current(g)' = Current(g)
    BY <1>4 DEF BeginCommit, Current, Lookup, Nearest
  <2> QED
    BY <1>4, <2>1 DEF BeginCommit, TypeOK, LockHeld, Unwritten,
                      LedgerStable, CheckHolds
<1>5. ASSUME NEW h \in Hooks, CommitRefused(h)
      PROVE  G
  <2>1. \A g \in Hooks : Current(g)' = Current(g)
    BY <1>5 DEF CommitRefused, Current, Lookup, Nearest
  <2> QED
    BY <1>5, <2>1 DEF CommitRefused, TypeOK, LockHeld, Unwritten,
                      LedgerStable, CheckHolds
<1>6. ASSUME NEW h \in Hooks, Revalidate(h)
      PROVE  G
  <2>1. \A g \in Hooks : Current(g)' = Current(g)
    BY <1>6 DEF Revalidate, Current, Lookup, Nearest
  <2> QED
    BY <1>6, <2>1 DEF Revalidate, StillAsPrepared, TypeOK, LockHeld, Unwritten,
                      LedgerStable, CheckHolds
<1>7. ASSUME NEW h \in Hooks, ReplaceMethod(h)
      PROVE  G
  <2>1. \A g \in Hooks : g # h => pc[g] \notin {"locked", "checked", "written"}
    BY <1>7 DEF ReplaceMethod, LockHeld
  <2>2. \A g \in Hooks : pc'[g] # "checked"
    BY <1>7, <2>1 DEF ReplaceMethod, TypeOK
  <2> QED
    BY <1>7, <2>1, <2>2 DEF ReplaceMethod, TypeOK, LockHeld, Unwritten,
                            LedgerStable, CheckHolds
<1>8. ASSUME NEW h \in Hooks, FinishCommit(h)
      PROVE  G
  <2>1. \A g \in Hooks : g # h => pc[g] \notin {"locked", "checked", "written"}
    BY <1>8 DEF FinishCommit, LockHeld
  <2>2. \A g \in Hooks : pc'[g] \notin {"locked", "checked", "written"}
    BY <1>8, <2>1 DEF FinishCommit, TypeOK
  <2>3. Unwritten'
    BY <1>8 DEF FinishCommit, TypeOK, Unwritten
  <2> QED
    BY <2>2, <2>3 DEF LockHeld, LedgerStable, CheckHolds
<1>9. ASSUME NEW f \in Foreign, ForeignPatch(f)
      PROVE  G
  <2>1. f \in Patches /\ f \notin Hooks
    BY DEF Foreign
  <2>2. Serialized => \A g \in Hooks : pc[g] # "checked"
    BY <1>9 DEF ForeignPatch, LockHeld
  <2>3. CheckHolds'
    BY <1>9, <2>2 DEF ForeignPatch, CheckHolds
  <2> QED
    BY <1>9, <2>1, <2>3 DEF ForeignPatch, TypeOK, LockHeld, Unwritten,
                            LedgerStable
<1> QED
  BY <1>1, <1>2, <1>3, <1>4, <1>5, <1>6, <1>7, <1>8, <1>9 DEF Next, CommitStep

\* The lock discipline of hk_plan_commit and what hk_objc_commit checks under it.
LEMMA Invariance == Spec => []IInv
<1>1. Init => IInv
  BY Constants DEF Init, IInv, TypeOK, LockHeld, Unwritten, LedgerStable,
                   CheckHolds, Imps
<1>2. IInv /\ [Next]_vars => IInv'
  BY TypePreserved, DisciplinePreserved DEF IInv, Resolves, Nearest
<1> QED
  BY <1>1, <1>2, PTL DEF Spec

-----------------------------------------------------------------------------

\* The variables of concurrent prepares and commits keep their types.
THEOREM TypeCorrect == Spec => []TypeOK
<1>1. IInv => TypeOK
  BY DEF IInv
<1> QED
  BY <1>1, Invariance, PTL

\* While foreign code respects the install contexts, a hook is written only
\* over the implementation it captured and the ledger's head.
THEOREM StaleWritesRefused == Serialized => (Spec => NoStaleWrite)
<1> SUFFICES ASSUME Serialized
             PROVE  Spec => NoStaleWrite
  OBVIOUS
<1>1. IInv /\ [Next]_vars =>
          [\A h \in Hooks :
              pc[h] = "checked" /\ pc'[h] = "written" =>
                  /\ Current(h) = captured[h]
                  /\ head[Key[h]] \in {None, captured[h]}]_vars
  BY DEF IInv, CheckHolds, LedgerStable
<1> QED
  BY <1>1, Invariance, PTL DEF Spec, NoStaleWrite

\* While foreign code respects the install contexts, concurrent commits install
\* as if each took effect in one instant with what it displaced as its original:
\* HKObjC implements MethodChain.
THEOREM Refinement == Serialized => (Spec => ImplementsMethodChain)
<1> SUFFICES ASSUME Serialized
             PROVE  Spec => ImplementsMethodChain
  OBVIOUS
<1>1. Init => Chain!Init
  BY DEF Init, Chain!Init, Chain!Resolves, Chain!Nearest, Resolves, Nearest
<1>2. IInv /\ [Next]_vars => [Chain!Next]_(Chain!vars)
  <2> SUFFICES ASSUME IInv, [Next]_vars
               PROVE  [Chain!Next]_(Chain!vars)
    OBVIOUS
  <2>1. ASSUME NEW h \in Hooks, ReplaceMethod(h)
        PROVE  Chain!Install(h)
    <3>1. /\ Target[h] \in Classes
          /\ original[h] = None
          /\ Lookup(imp, Target[h]) = captured[h]
      BY <2>1, Constants DEF IInv, ReplaceMethod, Unwritten, CheckHolds, Current
    <3>2. imp[Target[h]] # None => Lookup(imp, Target[h]) = imp[Target[h]]
      BY <3>1, LookupLocal
    <3> QED
      BY <2>1, <3>1, <3>2, SameOperators DEF ReplaceMethod, Chain!Install
  <2>2. ASSUME NEW f \in Foreign, ForeignPatch(f)
        PROVE  Chain!Install(f)
    BY <2>2, SameOperators DEF ForeignPatch, Chain!Install
  <2>3. ASSUME NEW h \in Hooks,
               Prepare(h) \/ PrepareRefused(h) \/ BeginCommit(h)
                 \/ CommitRefused(h) \/ Revalidate(h) \/ FinishCommit(h)
        PROVE  UNCHANGED Chain!vars
    BY <2>3 DEF Prepare, PrepareRefused, BeginCommit, CommitRefused,
                Revalidate, FinishCommit, Chain!vars
  <2>4. UNCHANGED vars => UNCHANGED Chain!vars
    BY DEF vars, Chain!vars
  <2> QED
    BY <2>1, <2>2, <2>3, <2>4, Constants
       DEF Next, CommitStep, Chain!Next, Foreign
<1> QED
  BY <1>1, <1>2, Invariance, PTL DEF Spec, ImplementsMethodChain, Chain!Spec

\* An ACTIVE hook on an owned target goes on to the hook that owned it, foreign
\* code or not: the core's comparison with the ledger never lets another pass.
THEOREM ChainsOnOwner == Spec => []ChainedOnOwner
<1> DEFINE J == ChainedOnOwner /\ \A h \in Hooks :
                                     outcome[h] = "ACTIVE" => pc[h] = "done"
<1>1. Init => J
  BY DEF Init, ChainedOnOwner
<1>2. IInv /\ J /\ [Next]_vars => J'
  <2> SUFFICES ASSUME IInv, J, [Next]_vars
               PROVE  J'
    OBVIOUS
  <2> USE DEF IInv, TypeOK, ChainedOnOwner
  <2>1. CASE UNCHANGED vars
    BY <2>1 DEF vars
  <2>2. ASSUME NEW h \in Hooks,
               Prepare(h) \/ PrepareRefused(h) \/ BeginCommit(h)
                 \/ CommitRefused(h) \/ Revalidate(h)
        PROVE  J'
    BY <2>2 DEF Prepare, PrepareRefused, BeginCommit, CommitRefused, Revalidate
  <2>3. ASSUME NEW h \in Hooks, ReplaceMethod(h)
        PROVE  J'
    BY <2>3, Constants DEF ReplaceMethod
  <2>4. ASSUME NEW h \in Hooks, FinishCommit(h)
        PROVE  J'
    BY <2>4 DEF FinishCommit, Confirmed
  <2>5. ASSUME NEW f \in Foreign, ForeignPatch(f)
        PROVE  J'
    BY <2>5, Constants DEF ForeignPatch, Foreign
  <2> QED
    BY <2>1, <2>2, <2>3, <2>4, <2>5 DEF Next, CommitStep
<1> QED
  BY <1>1, <1>2, Invariance, PTL DEF Spec

\* The promises of MethodChain hold of the methods that HKObjC patches.
THEOREM ChainPromises ==
    Serialized => (Spec => [](Chain!LivePatchHasOriginal /\ Chain!NothingLost))
<1> SUFFICES ASSUME Serialized
             PROVE  Spec => [](Chain!LivePatchHasOriginal /\ Chain!NothingLost)
  OBVIOUS
<1>1. Spec => Chain!Spec
  BY Refinement DEF ImplementsMethodChain
<1> QED
  BY <1>1, LiveHasOriginal, NeverLost, PTL

-----------------------------------------------------------------------------
(* Reachability through the published slots, when foreign code respects    *)
(* the install contexts and no allocation fails.                           *)

\* A hook that was written is confirmed when its commit ends, and from then on its
\* slot holds its original; no other hook has a slot.
SlotsPublished ==
    \A h \in Hooks :
        /\ pc[h] = "written" => /\ Current(h) = h /\ original[h] # None
                                /\ owned[h] # None => original[h] = owned[h]
        /\ outcome[h] = "ACTIVE" => pc[h] = "done" /\ original[h] # None
        /\ outcome[h] = "ACTIVE" => slot[h] = original[h]
        /\ outcome[h] # "ACTIVE" => slot[h] = None
        /\ pc[h] = "done" /\ outcome[h] # "ACTIVE" => original[h] = None

\* The ledger's head for the key of an active hook leads to the hook.
HeadsLead ==
    \A h \in Hooks :
        outcome[h] = "ACTIVE" =>
            head[Key[h]] \in Hooks /\ h \in Reach(original, head[Key[h]])

\* A patch that gets its original takes nothing out of anyone's reach.
LEMMA ReachGrows ==
    ASSUME NEW o, NEW n, NEW p \in Patches, o[p] = None,
           \A q \in Patches : q # p => n[q] = o[q], NEW v
    PROVE  Reach(o, v) \subseteq Reach(n, v)
<1> SUFFICES ASSUME NEW w \in Reach(o, v), NEW S \in SUBSET Imps, v \in S,
                    \A q \in S \cap Patches : n[q] # None => n[q] \in S
             PROVE  w \in S
  BY DEF Reach
<1>1. \A q \in S \cap Patches : o[q] # None => o[q] \in S
  OBVIOUS
<1> QED
  BY <1>1 DEF Reach

\* What is within reach of its original is within reach of a patch, and so is itself.
LEMMA ReachThrough ==
    ASSUME NEW o, NEW p \in Patches
    PROVE  /\ p \in Reach(o, p)
           /\ o[p] # None => Reach(o, o[p]) \subseteq Reach(o, p)
BY DEF Reach, Imps

\* The chain is the same read through functions that agree.
LEMMA ReachSame ==
    ASSUME NEW o, NEW n, \A q \in Patches : n[q] = o[q], NEW v
    PROVE  Reach(n, v) = Reach(o, v)
BY DEF Reach

\* Every step keeps the slots and the heads.
LEMMA PublicationPreserved ==
    ASSUME Serialized, Faults = {}, IInv, SlotsPublished, HeadsLead, [Next]_vars
    PROVE  SlotsPublished' /\ HeadsLead'
<1> USE Constants DEF IInv
<1>1. CASE UNCHANGED vars
  <2>1. \A g \in Hooks : Current(g)' = Current(g)
    BY <1>1 DEF vars, Current, Lookup, Nearest
  <2>2. original' = original /\ head' = head /\ outcome' = outcome /\ pc' = pc
        /\ owned' = owned /\ slot' = slot
    BY <1>1 DEF vars
  <2> QED
    BY <2>1, <2>2 DEF SlotsPublished, HeadsLead
<1>2. ASSUME NEW h \in Hooks,
             Prepare(h) \/ PrepareRefused(h) \/ BeginCommit(h) \/ CommitRefused(h)
               \/ Revalidate(h)
      PROVE  SlotsPublished' /\ HeadsLead'
  <2>1. /\ imp' = imp /\ original' = original /\ head' = head /\ slot' = slot
        /\ pc[h] \in {"idle", "prepared", "locked"} /\ pc'[h] # "written"
        /\ \A g \in Hooks : g # h => /\ pc'[g] = pc[g] /\ owned'[g] = owned[g]
                                     /\ outcome'[g] = outcome[g]
        /\ outcome'[h] = "ACTIVE" => outcome[h] = "ACTIVE"
    BY <1>2 DEF Prepare, PrepareRefused, BeginCommit, CommitRefused, Revalidate, TypeOK
  <2>2. \A g \in Hooks : Current(g)' = Current(g)
    BY <2>1 DEF Current, Lookup, Nearest
  <2>3. outcome[h] # "ACTIVE" /\ original[h] = None
    BY <2>1 DEF SlotsPublished, Unwritten
  <2>4. SlotsPublished'
    BY <2>1, <2>2, <2>3 DEF SlotsPublished
  <2>5. HeadsLead'
    BY <2>1, <2>3 DEF HeadsLead
  <2> QED
    BY <2>4, <2>5
<1>3. ASSUME NEW h \in Hooks, ReplaceMethod(h)
      PROVE  SlotsPublished' /\ HeadsLead'
  <2>1. /\ UNCHANGED <<owned, head, slot, outcome, captured>>
        /\ imp' = Replaced(imp, Target[h], h) /\ pc[h] = "checked" /\ pc'[h] = "written"
        /\ \A g \in Hooks : g # h => pc'[g] = pc[g]
        /\ \A q \in Patches : q # h => original'[q] = original[q]
    BY <1>3 DEF ReplaceMethod, TypeOK
  <2>2. \A g \in Hooks : g # h => pc[g] # "written"
    BY <2>1 DEF LockHeld
  <2>3. original[h] = None /\ outcome[h] # "ACTIVE"
    BY <2>1 DEF Unwritten, SlotsPublished
  <2>4. imp'[Target[h]] = h /\ h # None
    BY <2>1 DEF TypeOK, Replaced
  <2>5. Current(h)' = h
    BY <2>4, LookupLocal DEF Current
  <2>6. original'[h] = captured[h] /\ captured[h] # None
    <3>1. Lookup(imp, Target[h]) = captured[h]
      BY <2>1 DEF CheckHolds, Current
    <3>2. imp[Target[h]] # None => Lookup(imp, Target[h]) = imp[Target[h]]
      BY LookupLocal
    <3>3. Lookup(imp, Target[h]) \in Imps
      BY LookupImp DEF TypeOK
    <3>4. None \notin Imps
      BY PatchesAssumption DEF Imps
    <3>5. original'[h] = captured[h]
      BY <1>3, <3>1, <3>2 DEF ReplaceMethod, TypeOK
    <3> QED
      BY <3>1, <3>3, <3>4, <3>5
  <2>7. owned[h] # None => original'[h] = owned[h]
    BY <2>1, <2>6 DEF CheckHolds
  <2>8. SlotsPublished'
    BY <2>1, <2>2, <2>3, <2>5, <2>6, <2>7 DEF SlotsPublished
  <2>9. HeadsLead'
    BY <2>1, <2>3, ReachGrows DEF HeadsLead
  <2> QED
    BY <2>8, <2>9
<1>4. ASSUME NEW h \in Hooks, FinishCommit(h)
      PROVE  SlotsPublished' /\ HeadsLead'
  <2>1. Confirmed(h) /\ original[h] # None
    <3>1. pc[h] = "written"
      BY <1>4 DEF FinishCommit
    <3> QED
      BY <3>1 DEF SlotsPublished, Confirmed
  <2>2. /\ pc[h] = "written" /\ original' = original /\ imp' = imp /\ owned' = owned
        /\ outcome' = [outcome EXCEPT ![h] = "ACTIVE"]
        /\ head' = [head EXCEPT ![Key[h]] = h]
        /\ slot' = [slot EXCEPT ![h] = original[h]]
        /\ pc' = [pc EXCEPT ![h] = "done"]
    BY <1>4, <2>1 DEF FinishCommit, HeadAfter
  <2>3. \A g \in Hooks : Current(g)' = Current(g)
    BY <2>2 DEF Current, Lookup, Nearest
  <2>4. SlotsPublished'
    BY <2>1, <2>2, <2>3 DEF SlotsPublished, TypeOK
  <2>5. HeadsLead'
    <3> SUFFICES ASSUME NEW g \in Hooks, outcome'[g] = "ACTIVE"
                 PROVE  head'[Key[g]] \in Hooks /\ g \in Reach(original, head'[Key[g]])
      BY <2>2 DEF HeadsLead
    <3>1. head'[Key[h]] = h /\ (Key[g] # Key[h] => head'[Key[g]] = head[Key[g]])
      BY <2>2 DEF TypeOK
    <3>2. CASE g = h
      BY <3>1, <3>2, ReachThrough
    <3>3. CASE g # h /\ Key[g] # Key[h]
      BY <2>2, <3>1, <3>3 DEF HeadsLead, TypeOK
    <3>4. CASE g # h /\ Key[g] = Key[h]
      <4>1. outcome[g] = "ACTIVE"
        BY <2>2, <3>4 DEF TypeOK
      <4>2. head[Key[h]] \in Hooks /\ g \in Reach(original, head[Key[h]])
        BY <3>4, <4>1 DEF HeadsLead
      <4>3. owned[h] = head[Key[h]] /\ owned[h] # None
        BY <2>2, <4>2 DEF LedgerStable
      <4>4. original[h] = head[Key[h]]
        BY <2>1, <4>3 DEF Confirmed
      <4> QED
        BY <2>1, <3>1, <3>4, <4>2, <4>4, ReachThrough
    <3> QED
      BY <3>2, <3>3, <3>4
  <2> QED
    BY <2>4, <2>5
<1>5. ASSUME NEW f \in Foreign, ForeignPatch(f)
      PROVE  SlotsPublished' /\ HeadsLead'
  <2>1. f \in Patches /\ f \notin Hooks /\ lock = None
    BY <1>5 DEF ForeignPatch, Foreign
  <2>2. \A g \in Hooks : pc[g] # "written"
    BY <2>1 DEF LockHeld
  <2>3. /\ UNCHANGED <<pc, owned, head, slot, outcome>> /\ original[f] = None
        /\ \A q \in Patches : q # f => original'[q] = original[q]
    BY <1>5 DEF ForeignPatch, TypeOK
  <2>4. SlotsPublished'
    BY <2>1, <2>2, <2>3 DEF SlotsPublished
  <2>5. HeadsLead'
    BY <2>1, <2>3, ReachGrows DEF HeadsLead
  <2> QED
    BY <2>4, <2>5
<1> QED
  BY <1>1, <1>2, <1>3, <1>4, <1>5 DEF Next, CommitStep

\* Between commits, a call to the class of an ACTIVE hook gets to its replacement through
\* the original slots alone and the ledger's head is at or above it, in every hierarchy.
THEOREM ActiveReachable ==
    Serialized /\ Faults = {} => (Spec => []ActiveHooksReachable)
<1> SUFFICES ASSUME Serialized, Faults = {}
             PROVE  Spec => []ActiveHooksReachable
  OBVIOUS
<1>1. Init => SlotsPublished /\ HeadsLead
  BY DEF Init, SlotsPublished, HeadsLead
<1>2. IInv /\ SlotsPublished /\ HeadsLead /\ [Next]_vars => (SlotsPublished /\ HeadsLead)'
  BY PublicationPreserved
<1>3. IInv /\ SlotsPublished /\ HeadsLead /\ Chain!NothingLost => ActiveHooksReachable
  <2> SUFFICES ASSUME IInv, SlotsPublished, HeadsLead, Chain!NothingLost, lock = None,
                      NEW h \in Hooks, outcome[h] = "ACTIVE"
               PROVE  LET given == [p \in Patches |->
                                       IF p \in Hooks THEN slot[p] ELSE original[p]]
                      IN  /\ h \in Reach(given, Current(h))
                          /\ head[Key[h]] # None
                          /\ h \in Reach(given, head[Key[h]])
    BY DEF ActiveHooksReachable
  <2> DEFINE given == [p \in Patches |-> IF p \in Hooks THEN slot[p] ELSE original[p]]
  <2>1. \A g \in Hooks : slot[g] = original[g]
    <3>1. \A g \in Hooks : pc[g] \in {"idle", "prepared", "done"}
      BY Constants DEF IInv, TypeOK, LockHeld
    <3> QED
      BY <3>1 DEF IInv, Unwritten, SlotsPublished
  <2>2. \A q \in Patches : given[q] = original[q]
    BY <2>1
  <2> HIDE DEF given
  <2>3. h \in Reach(original, Current(h))
    BY Constants, SameOperators DEF Chain!NothingLost, SlotsPublished, Current
  <2>4. head[Key[h]] \in Hooks /\ h \in Reach(original, head[Key[h]])
    BY DEF HeadsLead
  <2>5. h \in Reach(given, Current(h)) /\ h \in Reach(given, head[Key[h]])
    BY <2>2, <2>3, <2>4, ReachSame
  <2>6. head[Key[h]] # None
    BY <2>4, Constants
  <2> QED
    BY <2>5, <2>6 DEF given
<1> QED
  BY <1>1, <1>2, <1>3, Invariance, ChainPromises, PTL DEF Spec

=============================================================================
