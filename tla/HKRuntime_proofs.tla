-------------------------- MODULE HKRuntime_proofs --------------------------
(***************************************************************************)
(* A runtime keeps its promises about routes, scopes, effects and ledgers  *)
(* for every configuration, every set of images, selectors and requests,   *)
(* and every engine that a test may register.                              *)
(***************************************************************************)
EXTENDS HKRuntime, FiniteSetTheorems, WellFoundedInduction, TLAPS

-----------------------------------------------------------------------------
(* Loops.                                                                  *)

\* A non-empty set of naturals has a least element.
LEMMA NatMin ==
    ASSUME NEW S \in SUBSET Nat, S # {}
    PROVE  \E m \in S : \A n \in S : m <= n
<1>1. PICK m \in S : \A n \in S : ~(<<n, m>> \in OpToRel(<, Nat))
  BY WFMin, NatLessThanWellFounded
<1>2. ASSUME NEW n \in S PROVE m <= n
  <2>1. ~(n < m)
    BY <1>1 DEF OpToRel
  <2> QED
    BY <2>1
<1> QED
  BY <1>2

\* A set of numbers that holds 0 and, with each, the next one holds all of them.
LEMMA Counting ==
    ASSUME NEW N \in Nat, NEW T,
           0 \in T, \A n \in 1..N : n - 1 \in T => n \in T
    PROVE  0..N \subseteq T
<1> DEFINE B == {n \in 0..N : n \notin T}
<1> SUFFICES ASSUME B # {} PROVE FALSE
  OBVIOUS
<1>1. PICK m \in B : \A n \in B : m <= n
  <2>1. B \in SUBSET Nat
    OBVIOUS
  <2> HIDE DEF B
  <2> QED
    BY <2>1, NatMin
<1>2. m \in 1..N /\ m - 1 \in 0..N
  BY <1>1
<1>3. m - 1 \notin B
  BY <1>1, <1>2
<1> QED
  BY <1>1, <1>2, <1>3

\* f is what a loop over 1..N has computed after each of its turns.
Runs(N, S, base, step, f) ==
    /\ f \in [0..N -> S]
    /\ f[0] = base
    /\ \A n \in 1..N : f[n] = step[n][f[n - 1]]

\* Every loop computes something.
LEMMA LoopExists ==
    ASSUME NEW N \in Nat, NEW S, NEW base \in S, NEW step \in [1..N -> [S -> S]]
    PROVE  \E f : Runs(N, S, base, step, f)
<1> DEFINE T == {k \in 0..N : \E f : Runs(k, S, base, step, f)}
<1>1. 0 \in T
  <2> DEFINE z == [i \in 0..0 |-> base]
  <2>1. Runs(0, S, base, step, z)
    BY DEF Runs
  <2> QED
    BY <2>1
<1>2. ASSUME NEW m \in 1..N, m - 1 \in T PROVE m \in T
  <2>1. PICK f : Runs(m - 1, S, base, step, f)
    BY <1>2
  <2> DEFINE g == [i \in 0..m |-> IF i = m THEN step[m][f[m - 1]] ELSE f[i]]
  <2>2. f[m - 1] \in S /\ step[m] \in [S -> S]
    BY <2>1 DEF Runs
  <2>3. g \in [0..m -> S]
    BY <2>1, <2>2 DEF Runs
  <2>4. g[0] = base
    BY <2>1 DEF Runs
  <2>5. ASSUME NEW n \in 1..m PROVE g[n] = step[n][g[n - 1]]
    <3>1. n - 1 \in 0..m /\ n - 1 # m /\ g[n - 1] = f[n - 1]
      OBVIOUS
    <3>2. CASE n = m
      BY <3>1, <3>2
    <3>3. CASE n # m
      <4>1. n \in 1..(m - 1) /\ g[n] = f[n]
        BY <3>3
      <4> QED
        BY <2>1, <3>1, <4>1 DEF Runs
    <3> QED
      BY <3>2, <3>3
  <2>6. Runs(m, S, base, step, g)
    <3> HIDE DEF g
    <3> QED
      BY <2>3, <2>4, <2>5 DEF Runs
  <2> QED
    BY <2>6
<1>3. 0..N \subseteq T
  <2> HIDE DEF T
  <2> QED
    BY <1>1, <1>2, Counting
<1> QED
  BY <1>3

-----------------------------------------------------------------------------
(* The router.                                                             *)

\* f holds the candidate of hk_hook_analyze_one after each turn of its loop.
Scans(r, a, q, f) ==
    /\ f \in [0..Len(r.engines) -> 0..Len(r.engines)]
    /\ f[0] = 0
    /\ \A n \in 1..Len(r.engines) :
          f[n] = IF Eligible(r, a, q, n) /\ Replaces(r, q, n, f[n - 1])
                 THEN n ELSE f[n - 1]
    /\ Route(r, a, q) = f[Len(r.engines)]

\* The route is what that loop computes.
LEMMA RouteRuns ==
    ASSUME NEW r, NEW a, NEW q, Len(r.engines) \in Nat
    PROVE  \E f : Scans(r, a, q, f)
<1> DEFINE N == Len(r.engines)
           Body(f) == [n \in 0..N |->
                          IF n = 0 THEN 0
                          ELSE IF /\ Eligible(r, a, q, n)
                                  /\ Replaces(r, q, n, f[n - 1])
                               THEN n ELSE f[n - 1]]
           step == [n \in 1..N |-> [b \in 0..N |->
                      IF Eligible(r, a, q, n) /\ Replaces(r, q, n, b) THEN n ELSE b]]
<1>1. Route(r, a, q) = (CHOOSE f : f = Body(f))[N]
  BY DEF Route
<1>2. PICK f : Runs(N, 0..N, 0, step, f)
  <2>1. step \in [1..N -> [0..N -> 0..N]] /\ N \in Nat /\ 0 \in 0..N
    OBVIOUS
  <2> HIDE DEF step, N
  <2> QED
    BY <2>1, LoopExists
<1>3. f = Body(f)
  <2>1. ASSUME NEW n \in 1..N
        PROVE  f[n] = IF Eligible(r, a, q, n) /\ Replaces(r, q, n, f[n - 1])
                      THEN n ELSE f[n - 1]
    <3>1. f[n - 1] \in 0..N
      BY <1>2 DEF Runs
    <3>2. step[n] = [b \in 0..N |->
             IF Eligible(r, a, q, n) /\ Replaces(r, q, n, b) THEN n ELSE b]
      OBVIOUS
    <3> QED
      BY <1>2, <3>1, <3>2 DEF Runs
  <2> QED
    BY <1>2, <2>1 DEF Runs
<1> DEFINE c == CHOOSE g : g = Body(g)
<1>4. c = Body(c)
  BY <1>3
<1> HIDE DEF c
<1>5. c[0] = 0
  BY <1>4
<1>6. ASSUME NEW n \in 1..N
      PROVE  c[n] = IF Eligible(r, a, q, n) /\ Replaces(r, q, n, c[n - 1])
                    THEN n ELSE c[n - 1]
  BY <1>4
<1>7. c \in [0..N -> 0..N]
  <2> DEFINE T == {n \in 0..N : c[n] \in 0..N}
  <2>1. 0..N \subseteq T
    <3>1. 0 \in T
      BY <1>5
    <3>2. \A n \in 1..N : n - 1 \in T => n \in T
      BY <1>6
    <3> HIDE DEF T
    <3> QED
      BY <3>1, <3>2, Counting
  <2> QED
    BY <1>4, <2>1
<1>8. Route(r, a, q) = c[N]
  BY <1>1 DEF c
<1> QED
  BY <1>5, <1>6, <1>7, <1>8 DEF Scans

-----------------------------------------------------------------------------
(* The engines of the library.                                             *)

Reaches == {"dispatch", "imports", "bytes", "scope", "entry"}
Effects == {"metadata", "import", "memory", "text", "allocation", "static",
            "activation", "unknown"}

\* These sets are finite.
LEMMA FiniteLiterals == IsFiniteSet(Reaches) /\ IsFiniteSet(Effects)
<1>1. IsFiniteSet(Reaches)
  <2>1. IsFiniteSet({}) /\ \A S, x : IsFiniteSet(S) => IsFiniteSet(S \cup {x})
    BY FS_EmptySet, FS_AddElement
  <2>2. Reaches = {} \cup {"dispatch"} \cup {"imports"} \cup {"bytes"} \cup {"scope"}
                     \cup {"entry"}
    BY DEF Reaches
  <2> QED
    BY <2>1, <2>2
<1>2. IsFiniteSet(Effects)
  <2>1. IsFiniteSet({}) /\ \A S, x : IsFiniteSet(S) => IsFiniteSet(S \cup {x})
    BY FS_EmptySet, FS_AddElement
  <2>2. Effects = {} \cup {"metadata"} \cup {"import"} \cup {"memory"} \cup {"text"}
                     \cup {"allocation"} \cup {"static"} \cup {"activation"}
                     \cup {"unknown"}
    BY DEF Effects
  <2> QED
    BY <2>1, <2>2
<1> QED
  BY <1>1, <1>2

\* What the proofs use of a descriptor: d is of a kind that claims an exact scope
\* only for the requests in S.
Declares(d, S) ==
    /\ d.reach \subseteq Reaches
    /\ d.commit \subseteq Effects
    /\ d.rank = 0
    /\ d.floor \in {90000, 150000}
    /\ "scope" \in d.reach => d.scoped \subseteq S

LEMMA ObjCDeclares == Declares(ObjCEngine, {})
<1>1. ObjCEngine.reach \subseteq Reaches /\ "scope" \notin ObjCEngine.reach
  BY DEF ObjCEngine, Native, Reaches
<1>2. ObjCEngine.commit \subseteq Effects
  BY DEF ObjCEngine, Native, Effects
<1>3. ObjCEngine.rank = 0 /\ ObjCEngine.floor = 90000
  BY DEF ObjCEngine, Native, Version
<1> QED
  BY <1>1, <1>2, <1>3 DEF Declares

LEMMA RebindDeclares == Declares(RebindEngine, {})
<1>1. RebindEngine.reach \subseteq Reaches /\ "scope" \notin RebindEngine.reach
  BY DEF RebindEngine, Native, Reaches
<1>2. RebindEngine.commit \subseteq Effects
  BY DEF RebindEngine, Native, Effects
<1>3. RebindEngine.rank = 0 /\ RebindEngine.floor = 150000
  BY DEF RebindEngine, Native, Version
<1> QED
  BY <1>1, <1>2, <1>3 DEF Declares

LEMMA MemoryDeclares == Declares(MemoryEngine, {"memory"})
<1>1. MemoryEngine.reach \subseteq Reaches
  BY DEF MemoryEngine, Native, Reaches
<1>2. MemoryEngine.commit \subseteq Effects
  BY DEF MemoryEngine, Native, Effects
<1>3. MemoryEngine.rank = 0 /\ MemoryEngine.floor = 150000
  BY DEF MemoryEngine, Native, Version
<1>4. MemoryEngine.scoped = {"memory"}
  BY DEF MemoryEngine, Native
<1> QED
  BY <1>1, <1>2, <1>3, <1>4 DEF Declares

LEMMA InlineDeclares ==
    /\ Declares(InlineEngine, {"address"})
    /\ Declares(RelocEngine, {"address"})
    /\ Declares(StaticEngine, {"address"})
<1>1. /\ InlineEngine.reach \subseteq Reaches
      /\ RelocEngine.reach \subseteq Reaches
      /\ StaticEngine.reach \subseteq Reaches
  BY DEF InlineEngine, RelocEngine, StaticEngine, Native, Reaches
<1>2. /\ InlineEngine.commit \subseteq Effects
      /\ RelocEngine.commit \subseteq Effects
      /\ StaticEngine.commit \subseteq Effects
  BY DEF InlineEngine, RelocEngine, StaticEngine, Native, Effects
<1>3. /\ InlineEngine.rank = 0 /\ InlineEngine.floor = 150000
      /\ RelocEngine.rank = 0 /\ RelocEngine.floor = 150000
      /\ StaticEngine.rank = 0 /\ StaticEngine.floor = 150000
  BY DEF InlineEngine, RelocEngine, StaticEngine, Native, Version
<1>4. /\ InlineEngine.scoped = {"address"}
      /\ RelocEngine.scoped = {"address"}
      /\ StaticEngine.scoped = {"address"}
  BY DEF InlineEngine, RelocEngine, StaticEngine, Native
<1> QED
  BY <1>1, <1>2, <1>3, <1>4 DEF Declares

LEMMA ProvidersDeclare ==
    /\ Declares(DobbyEngine, {}) /\ Declares(GumEngine, {})
    /\ Declares(ElleKitEngine, {}) /\ Declares(SubstituteEngine, {})
<1>1. /\ DobbyEngine.reach = {"entry"} /\ GumEngine.reach = {"entry"}
      /\ ElleKitEngine.reach = {"entry"} /\ SubstituteEngine.reach = {"entry"}
  BY DEF DobbyEngine, GumEngine, ElleKitEngine, SubstituteEngine, ProviderEngine, Native
<1>2. DobbyEngine.commit \subseteq Effects
  BY DEF DobbyEngine, ProviderEngine, Native, Effects
<1>3. GumEngine.commit \subseteq Effects
  BY DEF GumEngine, ProviderEngine, Native, Effects
<1>4. ElleKitEngine.commit \subseteq Effects
  BY DEF ElleKitEngine, ProviderEngine, Native, Effects
<1>5. SubstituteEngine.commit \subseteq Effects
  BY DEF SubstituteEngine, ProviderEngine, Native, Effects
<1>6. /\ DobbyEngine.rank = 0 /\ GumEngine.rank = 0
      /\ ElleKitEngine.rank = 0 /\ SubstituteEngine.rank = 0
  BY DEF DobbyEngine, GumEngine, ElleKitEngine, SubstituteEngine, ProviderEngine, Native
<1>7. /\ DobbyEngine.floor = 150000 /\ GumEngine.floor = 150000
      /\ ElleKitEngine.floor = 150000 /\ SubstituteEngine.floor = 90000
  BY DEF DobbyEngine, GumEngine, ElleKitEngine, SubstituteEngine, ProviderEngine, Native,
         Version
<1>8. {"entry"} \subseteq Reaches /\ "scope" \notin {"entry"}
  BY DEF Reaches
<1> QED
  BY <1>1, <1>2, <1>3, <1>4, <1>5, <1>6, <1>7, <1>8 DEF Declares

\* The kinds of requests for which an engine of the library claims an exact scope.
ScopedKinds(e) ==
    IF e = "memory" THEN {"memory"}
    ELSE IF e \in {"inline-terminal", "inline-relocating", "inline-static"}
         THEN {"address"} ELSE {}

\* Every engine of the library declares what it should.
LEMMA LibraryDeclares ==
    ASSUME NEW e \in BuiltInIds
    PROVE  e \in EngineIds /\ Engine[e] = BuiltIn(e) /\ Declares(Engine[e], ScopedKinds(e))
<1>1. e \in EngineIds /\ Engine[e] = BuiltIn(e)
  BY DEF Engine, EngineIds
<1>2. Declares(BuiltIn(e), ScopedKinds(e))
  <2>1. CASE e = "objc"
    BY <2>1, ObjCDeclares DEF BuiltIn, ScopedKinds
  <2>2. CASE e = "fishhook"
    BY <2>2, RebindDeclares DEF BuiltIn, ScopedKinds
  <2>3. CASE e = "memory"
    BY <2>3, MemoryDeclares DEF BuiltIn, ScopedKinds
  <2>4. CASE e \in {"inline-terminal", "inline-relocating", "inline-static"}
    BY <2>4, InlineDeclares DEF BuiltIn, ScopedKinds
  <2>5. CASE e \in Providers
    BY <2>5, ProvidersDeclare DEF BuiltIn, ScopedKinds, Providers
  <2> QED
    BY <2>1, <2>2, <2>3, <2>4, <2>5 DEF BuiltInIds, Providers
<1> QED
  BY <1>1, <1>2

\* Every engine declares a finite reach, finitely many effects and a rank.
LEMMA EnginesDeclare ==
    ASSUME NEW e \in EngineIds
    PROVE  /\ IsFiniteSet(Engine[e].reach) /\ IsFiniteSet(Engine[e].commit)
           /\ Engine[e].rank \in Nat /\ RouteRank(e) \in Nat
<1>1. CASE e \in BuiltInIds
  BY <1>1, LibraryDeclares, FiniteLiterals, FS_Subset DEF Declares, RouteRank
<1>2. CASE e \notin BuiltInIds
  BY <1>2, RoutingAssumption DEF Engine, EngineIds, RouteRank
<1> QED
  BY <1>1, <1>2

-----------------------------------------------------------------------------
(* The choice of the router.                                               *)

\* The elements of a sequence over S are in S.
LEMMA ElementOf ==
    ASSUME NEW S, NEW s \in Seq(S), NEW i \in 1..Len(s)
    PROVE  s[i] \in S
  OBVIOUS

\* A table of engines.
Tabled(r) ==
    /\ r.engines \in Seq([id : EngineIds, testing : BOOLEAN])
    /\ Len(r.engines) \in Nat

\* The preferred reach of a place is a number.
LEMMA PreferredCounts ==
    ASSUME NEW r, Tabled(r), NEW q, NEW i \in 1..Len(r.engines)
    PROVE  /\ Preferred(r, q, i) \in Nat
           /\ RouteRank(r.engines[i].id) \in Nat
<1>1. r.engines[i].id \in EngineIds
  <2>1. r.engines[i] \in [id : EngineIds, testing : BOOLEAN]
    BY ElementOf DEF Tabled
  <2> QED
    BY <2>1
<1>2. EffectiveReach(r.engines[i].id, q, r.catalog) \subseteq Engine[r.engines[i].id].reach
  BY DEF EffectiveReach
<1>3. IsFiniteSet(EffectiveReach(r.engines[i].id, q, r.catalog) \cap q.preferred)
  BY <1>1, <1>2, EnginesDeclare, FS_Subset
<1> QED
  BY <1>1, <1>3, EnginesDeclare, FS_CardinalityType DEF Preferred

\* Beats over any table.
Better(r, q, i, j) ==
    \/ Preferred(r, q, i) > Preferred(r, q, j)
    \/ /\ Preferred(r, q, i) = Preferred(r, q, j)
       /\ \/ RouteRank(r.engines[i].id) > RouteRank(r.engines[j].id)
          \/ /\ RouteRank(r.engines[i].id) = RouteRank(r.engines[j].id)
             /\ i < j

\* The first n places have the best of them in b.
BestOf(r, a, q, n, b) ==
    /\ b \in 0..n
    /\ b = 0 => \A i \in 1..n : ~Eligible(r, a, q, i)
    /\ b # 0 => /\ Eligible(r, a, q, b)
                /\ \A j \in 1..n : Eligible(r, a, q, j) /\ j # b => Better(r, q, b, j)

\* One scan that keeps one candidate finds the best engine, if there is any.
LEMMA RouteBest ==
    ASSUME NEW r, Tabled(r), NEW a, NEW q
    PROVE  BestOf(r, a, q, Len(r.engines), Route(r, a, q))
<1> DEFINE N == Len(r.engines)
<1>1. N \in Nat
  BY DEF Tabled
<1> PICK f : Scans(r, a, q, f)
  BY <1>1, RouteRuns
<1>2. /\ f \in [0..N -> 0..N] /\ f[0] = 0
      /\ \A n \in 1..N : f[n] = IF Eligible(r, a, q, n) /\ Replaces(r, q, n, f[n - 1])
                                THEN n ELSE f[n - 1]
      /\ Route(r, a, q) = f[N]
  BY DEF Scans
<1>3. \A i \in 1..N : Preferred(r, q, i) \in Nat /\ RouteRank(r.engines[i].id) \in Nat
  BY PreferredCounts
<1> DEFINE T == {n \in 0..N : BestOf(r, a, q, n, f[n])}
<1>4. 0 \in T
  BY <1>1, <1>2 DEF BestOf
<1>5. ASSUME NEW n \in 1..N, n - 1 \in T PROVE n \in T
  <2> DEFINE b == f[n - 1]
  <2>1. BestOf(r, a, q, n - 1, b) /\ n - 1 \in Nat /\ n \in Nat
    BY <1>5
  <2>2. f[n] = IF Eligible(r, a, q, n) /\ Replaces(r, q, n, b) THEN n ELSE b
    BY <1>2
  <2>3. 1..n = 1..(n - 1) \cup {n} /\ n \notin 1..(n - 1)
    BY <2>1
  <2> HIDE DEF b
  <2>4. CASE ~Eligible(r, a, q, n)
    BY <2>1, <2>2, <2>3, <2>4 DEF BestOf
  <2>5. CASE Eligible(r, a, q, n) /\ b = 0
    <3>1. f[n] = n
      BY <2>2, <2>5 DEF Replaces
    <3> QED
      BY <2>1, <2>3, <2>5, <3>1 DEF BestOf
  <2>6. CASE Eligible(r, a, q, n) /\ b # 0
    <3>1. b \in 1..N /\ b < n /\ Preferred(r, q, b) \in Nat /\ RouteRank(r.engines[b].id) \in Nat
      BY <1>3, <2>1, <2>6 DEF BestOf
    <3>2. Preferred(r, q, n) \in Nat /\ RouteRank(r.engines[n].id) \in Nat
      BY <1>3
    <3>3. CASE Replaces(r, q, n, b)
      <4>1. f[n] = n
        BY <2>2, <2>6, <3>3
      <4>2. Better(r, q, n, b)
        BY <2>6, <3>3 DEF Replaces, Better
      <4>3. ASSUME NEW j \in 1..(n - 1), Eligible(r, a, q, j), j # b
            PROVE  Better(r, q, n, j)
        <5>1. Better(r, q, b, j)
          BY <2>1, <2>6, <4>3 DEF BestOf
        <5>2. j \in 1..N /\ Preferred(r, q, j) \in Nat /\ RouteRank(r.engines[j].id) \in Nat
          BY <1>3
        <5> QED
          BY <2>6, <3>1, <3>2, <3>3, <5>1, <5>2 DEF Replaces, Better
      <4> QED
        BY <2>1, <2>3, <2>6, <4>1, <4>2, <4>3 DEF BestOf
    <3>4. CASE ~Replaces(r, q, n, b)
      <4>1. f[n] = b
        BY <2>2, <3>4
      <4>2. Better(r, q, b, n)
        BY <2>6, <3>1, <3>2, <3>4 DEF Replaces, Better
      <4> QED
        BY <2>1, <2>3, <2>6, <4>1, <4>2 DEF BestOf
    <3> QED
      BY <3>3, <3>4
  <2> QED
    BY <2>4, <2>5, <2>6
<1>6. 0..N \subseteq T
  <2> HIDE DEF T, N
  <2> QED
    BY <1>1, <1>4, <1>5, Counting
<1> QED
  BY <1>1, <1>2, <1>6

-----------------------------------------------------------------------------
(* The table of a new runtime.                                             *)

\* In this order of engines, the static one has the relocating one before it.
DynamicFirst(s) ==
    \A i \in 1..Len(s) : s[i] = "inline-static" =>
        \E j \in 1..(i - 1) : s[j] = "inline-relocating"

\* A table of k engines of the library has room for s.
Fits(s, k) == s \in Seq(BuiltInIds) /\ Len(s) <= k /\ DynamicFirst(s)

\* Tables are put together from blocks.
LEMMA Joined ==
    ASSUME NEW s, NEW t, NEW k \in Nat, NEW m \in Nat, Fits(s, k), Fits(t, m)
    PROVE  Fits(s \o t, k + m)
<1>1. s \in Seq(BuiltInIds) /\ t \in Seq(BuiltInIds) /\ Len(s) <= k /\ Len(t) <= m
  BY DEF Fits
<1>2. /\ s \o t \in Seq(BuiltInIds) /\ Len(s \o t) = Len(s) + Len(t)
      /\ Len(s) \in Nat /\ Len(t) \in Nat
      /\ \A i \in 1..(Len(s) + Len(t)) :
            (s \o t)[i] = IF i <= Len(s) THEN s[i] ELSE t[i - Len(s)]
  BY <1>1
<1>3. ASSUME NEW i \in 1..Len(s \o t), (s \o t)[i] = "inline-static"
      PROVE  \E j \in 1..(i - 1) : (s \o t)[j] = "inline-relocating"
  <2>1. CASE i <= Len(s)
    <3>1. PICK j \in 1..(i - 1) : s[j] = "inline-relocating"
      BY <1>2, <1>3, <2>1 DEF Fits, DynamicFirst
    <3> QED
      BY <1>2, <2>1, <3>1
  <2>2. CASE i > Len(s)
    <3>1. i - Len(s) \in 1..Len(t) /\ t[i - Len(s)] = "inline-static"
      BY <1>2, <1>3, <2>2
    <3>2. PICK j \in 1..(i - Len(s) - 1) : t[j] = "inline-relocating"
      BY <3>1 DEF Fits, DynamicFirst
    <3>3. Len(s) + j \in 1..(i - 1) /\ (s \o t)[Len(s) + j] = t[j]
      BY <1>2, <2>2, <3>1, <3>2
    <3> QED
      BY <3>2, <3>3
  <2> QED
    BY <1>2, <2>1, <2>2
<1> QED
  BY <1>1, <1>2, <1>3 DEF Fits, DynamicFirst

\* What the platform registers.
LEMMA PlatformTable ==
    ASSUME NEW platform
    PROVE  Fits(PlatformEngines(platform), 10)
<1> DEFINE block(built, s) == IF built THEN s ELSE <<>>
           ios == platform.os = "ios"
           native == ios /\ platform.arch \in AArch64
           b1 == block(ios, <<"objc">>)
           b2 == block(native, <<"fishhook", "memory">>)
           b3 == block(native /\ platform.canonical,
                       <<"provider-dobby", "provider-gum", "provider-ellekit">>)
           b4 == block(native, <<"inline-terminal", "inline-relocating", "inline-static">>)
           b5 == block(platform.canonical, <<"provider-substitute">>)
<1>1. PlatformEngines(platform) = b1 \o b2 \o b3 \o b4 \o b5
  BY DEF PlatformEngines
<1>e. \A k \in Nat : Fits(<<>>, k)
  BY DEF Fits, DynamicFirst
<1>2. Fits(b1, 1)
  <2>1. Fits(<<"objc">>, 1)
    BY DEF Fits, DynamicFirst, BuiltInIds
  <2> QED
    BY <1>e, <2>1
<1>3. Fits(b2, 2)
  <2>1. Fits(<<"fishhook", "memory">>, 2)
    BY DEF Fits, DynamicFirst, BuiltInIds
  <2> QED
    BY <1>e, <2>1
<1>4. Fits(b3, 3)
  <2>1. Fits(<<"provider-dobby", "provider-gum", "provider-ellekit">>, 3)
    BY DEF Fits, DynamicFirst, BuiltInIds
  <2> QED
    BY <1>e, <2>1
<1>5. Fits(b4, 3)
  <2>1. Fits(<<"inline-terminal", "inline-relocating", "inline-static">>, 3)
    BY DEF Fits, DynamicFirst, BuiltInIds
  <2> QED
    BY <1>e, <2>1
<1>6. Fits(b5, 1)
  <2>1. Fits(<<"provider-substitute">>, 1)
    BY DEF Fits, DynamicFirst, BuiltInIds
  <2> QED
    BY <1>e, <2>1
<1> HIDE DEF b1, b2, b3, b4, b5
<1>7. Fits(b1 \o b2, 3)
  BY <1>2, <1>3, Joined, 1 + 2 = 3
<1>8. Fits(b1 \o b2 \o b3, 6)
  BY <1>7, <1>4, Joined, 3 + 3 = 6
<1>9. Fits(b1 \o b2 \o b3 \o b4, 9)
  BY <1>8, <1>5, Joined, 6 + 3 = 9
<1>10. Fits(b1 \o b2 \o b3 \o b4 \o b5, 10)
  BY <1>9, <1>6, Joined, 9 + 1 = 10
<1> QED
  BY <1>1, <1>10

\* A non-empty set of places has a last one.
LEMMA LastPlace ==
    ASSUME NEW N \in Nat, NEW I \in SUBSET (1..N), I # {}
    PROVE  Max(I) \in I
<1>i. \A i \in I : i \in Nat /\ i <= N
  OBVIOUS
<1> DEFINE D == {d \in Nat : N - d \in I}
<1>1. PICK m \in D : \A d \in D : m <= d
  <2>1. PICK i \in I : TRUE
    OBVIOUS
  <2>2. N - i \in Nat /\ N - (N - i) = i
    BY <1>i
  <2>3. D \in SUBSET Nat /\ D # {}
    BY <2>2
  <2> HIDE DEF D
  <2> QED
    BY <2>3, NatMin
<1>2. PICK x \in I : x = N - m
  BY <1>1
<1>3. ASSUME NEW y \in I PROVE x >= y
  <2>1. N - y \in Nat /\ N - (N - y) = y
    BY <1>i
  <2>2. m <= N - y /\ m \in Nat
    BY <1>1, <2>1
  <2> QED
    BY <1>2, <1>i, <2>2
<1> QED
  BY <1>2, <1>3 DEF Max

\* An insertion makes a table longer by one.
LEMMA InsertedFits ==
    ASSUME NEW S, NEW s \in Seq(S), NEW e \in S, NEW list
    PROVE  Inserted(s, e, list) \in Seq(S) /\ Len(Inserted(s, e, list)) = Len(s) + 1
<1> DEFINE I == {i \in 1..Len(s) : ~Precedes(e, s[i], list)}
           at == IF I # {} THEN Max(I) ELSE 0
<1>1. Inserted(s, e, list) = SubSeq(s, 1, at) \o <<e>> \o SubSeq(s, at + 1, Len(s))
  BY DEF Inserted, SelectLastInSeq
<1>2. at \in 0..Len(s)
  <2>1. Len(s) \in Nat /\ I \in SUBSET (1..Len(s))
    OBVIOUS
  <2>2. I # {} => Max(I) \in I
    BY <2>1, LastPlace
  <2> QED
    BY <2>1, <2>2
<1> HIDE DEF at
<1>3. SubSeq(s, 1, at) \in Seq(S) /\ Len(SubSeq(s, 1, at)) = at
  BY <1>2
<1>4. SubSeq(s, at + 1, Len(s)) \in Seq(S) /\ Len(SubSeq(s, at + 1, Len(s))) = Len(s) - at
  BY <1>2
<1>5. <<e>> \in Seq(S) /\ Len(<<e>>) = 1
  OBVIOUS
<1> DEFINE a == SubSeq(s, 1, at)
           b == SubSeq(s, at + 1, Len(s))
           c == <<e>>
<1>6. (a \o c) \o b \in Seq(S) /\ Len((a \o c) \o b) = Len(a) + Len(c) + Len(b)
  <2>1. a \in Seq(S) /\ b \in Seq(S) /\ c \in Seq(S)
    BY <1>3, <1>4, <1>5
  <2> HIDE DEF a, b, c
  <2> QED
    BY <2>1
<1>7. Inserted(s, e, list) = (a \o c) \o b
  BY <1>1
<1>8. Len(a) = at /\ Len(b) = Len(s) - at /\ Len(c) = 1 /\ Len(s) \in Nat
  BY <1>3, <1>4, <1>5
<1> HIDE DEF a, b, c
<1>9. Len(a) + Len(c) + Len(b) = Len(s) + 1
  BY <1>2, <1>8
<1> QED
  BY <1>6, <1>7, <1>9

\* f holds the engines that hk_runtime_retain_ordered_engines has kept after each
\* turn of its loop.
Retains(engines, list, f) ==
    /\ f[0] = <<>>
    /\ \A n \in 1..Len(engines) :
          f[n] = IF Kept(engines[n], list)
                 THEN Inserted(f[n - 1], engines[n], list) ELSE f[n - 1]
    /\ Retained(engines, list) = f[Len(engines)]

\* What is retained is what that loop computes.
LEMMA RetainedRuns ==
    ASSUME NEW S, NEW engines \in Seq(S), NEW list
    PROVE  \E f : Retains(engines, list, f)
<1> DEFINE N == Len(engines)
           Body(f) == [n \in 0..N |->
                          IF n = 0 THEN <<>>
                          ELSE IF Kept(engines[n], list)
                               THEN Inserted(f[n - 1], engines[n], list)
                               ELSE f[n - 1]]
           step == [n \in 1..N |-> [t \in Seq(S) |->
                      IF Kept(engines[n], list) THEN Inserted(t, engines[n], list) ELSE t]]
<1>1. Retained(engines, list) = (CHOOSE f : f = Body(f))[N]
  BY DEF Retained
<1>2. PICK f : Runs(N, Seq(S), <<>>, step, f)
  <2>1. ASSUME NEW n \in 1..N, NEW t \in Seq(S)
        PROVE  Inserted(t, engines[n], list) \in Seq(S)
    BY InsertedFits, ElementOf
  <2>2. step \in [1..N -> [Seq(S) -> Seq(S)]] /\ N \in Nat /\ <<>> \in Seq(S)
    BY <2>1
  <2> HIDE DEF step, N
  <2> QED
    BY <2>2, LoopExists
<1>3. f = Body(f)
  <2>1. ASSUME NEW n \in 1..N
        PROVE  f[n] = IF Kept(engines[n], list)
                      THEN Inserted(f[n - 1], engines[n], list) ELSE f[n - 1]
    <3>1. f[n - 1] \in Seq(S)
      BY <1>2 DEF Runs
    <3>2. step[n] = [t \in Seq(S) |->
             IF Kept(engines[n], list) THEN Inserted(t, engines[n], list) ELSE t]
      OBVIOUS
    <3> QED
      BY <1>2, <3>1, <3>2 DEF Runs
  <2> QED
    BY <1>2, <2>1 DEF Runs
<1> DEFINE c == CHOOSE g : g = Body(g)
<1>4. c = Body(c)
  BY <1>3
<1>5. Retained(engines, list) = c[N]
  BY <1>1
<1> HIDE DEF c
<1>6. c[0] = <<>>
  BY <1>4
<1>7. ASSUME NEW n \in 1..N
      PROVE  c[n] = IF Kept(engines[n], list)
                    THEN Inserted(c[n - 1], engines[n], list) ELSE c[n - 1]
  BY <1>4
<1> QED
  BY <1>5, <1>6, <1>7 DEF Retains

\* A pinned table holds engines of the unpinned one and no more of them.
LEMMA RetainedFits ==
    ASSUME NEW S, NEW engines \in Seq(S), NEW list
    PROVE  /\ Retained(engines, list) \in Seq(S)
           /\ Len(Retained(engines, list)) <= Len(engines)
<1> DEFINE N == Len(engines)
<1> PICK f : Retains(engines, list, f)
  BY RetainedRuns
<1>1. /\ f[0] = <<>> /\ Retained(engines, list) = f[N]
      /\ \A n \in 1..N : f[n] = IF Kept(engines[n], list)
                                THEN Inserted(f[n - 1], engines[n], list) ELSE f[n - 1]
  BY DEF Retains
<1> DEFINE T == {n \in 0..N : f[n] \in Seq(S) /\ Len(f[n]) <= n}
<1>2. 0 \in T
  <2>1. f[0] \in Seq(S) /\ Len(f[0]) = 0 /\ 0 \in 0..N
    BY <1>1
  <2> QED
    BY <2>1
<1>3. ASSUME NEW n \in 1..N, n - 1 \in T PROVE n \in T
  <2>1. f[n - 1] \in Seq(S) /\ Len(f[n - 1]) <= n - 1 /\ Len(f[n - 1]) \in Nat
    BY <1>3
  <2>2. engines[n] \in S
    BY ElementOf
  <2>3. CASE Kept(engines[n], list)
    <3>1. f[n] = Inserted(f[n - 1], engines[n], list)
      BY <1>1, <2>3
    <3>2. f[n] \in Seq(S) /\ Len(f[n]) = Len(f[n - 1]) + 1
      BY <2>1, <2>2, <3>1, InsertedFits
    <3> QED
      BY <2>1, <3>2
  <2>4. CASE ~Kept(engines[n], list)
    BY <1>1, <2>1, <2>4
  <2> QED
    BY <2>3, <2>4
<1>4. N \in Nat /\ 0..N \subseteq T
  <2>1. N \in Nat
    OBVIOUS
  <2> HIDE DEF T, N
  <2> QED
    BY <2>1, <1>2, <1>3, Counting
<1> QED
  BY <1>1, <1>4

-----------------------------------------------------------------------------
(* The catalog of a new runtime.                                           *)

\* One turn of the loop of hk_image_catalog_populate_from_dyld.
Filled(t, image, memory) ==
    IF Listed(image) /\ Len(t) < memory THEN Append(t, image) ELSE t

\* f holds its entries after each turn.
Populates(images, memory, f) ==
    /\ f[0] = <<>>
    /\ \A n \in 1..Len(images) : f[n] = Filled(f[n - 1], images[n], memory)
    /\ Populate(images, memory) = f[Len(images)]

\* The catalog is what that loop computes.
LEMMA PopulateRuns ==
    ASSUME NEW S, NEW images \in Seq(S), NEW memory
    PROVE  \E f : Populates(images, memory, f)
<1> DEFINE N == Len(images)
           Body(f) == [n \in 0..N |-> IF n = 0 THEN <<>>
                                      ELSE Filled(f[n - 1], images[n], memory)]
           step == [n \in 1..N |-> [t \in Seq(S) |-> Filled(t, images[n], memory)]]
<1>1. Populate(images, memory) = (CHOOSE f : f = Body(f))[N]
  BY DEF Populate, Filled
<1>2. PICK f : Runs(N, Seq(S), <<>>, step, f)
  <2>1. ASSUME NEW n \in 1..N, NEW t \in Seq(S)
        PROVE  Filled(t, images[n], memory) \in Seq(S)
    BY ElementOf DEF Filled
  <2>2. step \in [1..N -> [Seq(S) -> Seq(S)]]
    BY <2>1
  <2>3. N \in Nat /\ <<>> \in Seq(S)
    OBVIOUS
  <2> HIDE DEF step, N
  <2> QED
    BY <2>2, <2>3, LoopExists
<1>3. f = Body(f)
  <2>1. ASSUME NEW n \in 1..N
        PROVE  f[n] = Filled(f[n - 1], images[n], memory)
    <3>1. f[n - 1] \in Seq(S)
      BY <1>2 DEF Runs
    <3>2. step[n] = [t \in Seq(S) |-> Filled(t, images[n], memory)]
      OBVIOUS
    <3> QED
      BY <1>2, <3>1, <3>2 DEF Runs
  <2> QED
    BY <1>2, <2>1 DEF Runs
<1> DEFINE c == CHOOSE g : g = Body(g)
<1>4. c = Body(c)
  BY <1>3
<1>5. Populate(images, memory) = c[N]
  BY <1>1
<1> HIDE DEF c
<1>6. c[0] = <<>>
  BY <1>4
<1>7. ASSUME NEW n \in 1..N
      PROVE  c[n] = Filled(c[n - 1], images[n], memory)
  <2>1. n \in 0..N /\ n # 0
    OBVIOUS
  <2> QED
    BY <1>4, <2>1
<1> QED
  BY <1>5, <1>6, <1>7 DEF Populates

\* The set of the elements of a sequence.
LEMMA Elements ==
    ASSUME NEW S, NEW s \in Seq(S)
    PROVE  /\ ToSet(s) = {s[i] : i \in 1..Len(s)}
           /\ ToSet(s) \in SUBSET S
           /\ s \in Seq(ToSet(s))
<1>1. ToSet(s) = {s[i] : i \in 1..Len(s)}
  BY DEF ToSet
<1>2. \A i \in 1..Len(s) : s[i] \in S
  BY ElementOf
<1> QED
  BY <1>1, <1>2

\* The catalog holds images of the dyld list.
LEMMA CatalogLoaded ==
    ASSUME NEW S, NEW images \in Seq(S), NEW memory
    PROVE  /\ Populate(images, memory) \in Seq(S)
           /\ ToSet(Populate(images, memory)) \subseteq ToSet(images)
<1> DEFINE N == Len(images)
           E == ToSet(images)
<1> PICK f : Populates(images, memory, f)
  BY PopulateRuns
<1>1. /\ f[0] = <<>> /\ Populate(images, memory) = f[N]
      /\ \A n \in 1..N : f[n] = Filled(f[n - 1], images[n], memory)
  BY DEF Populates
<1>2. N \in Nat /\ E \in SUBSET S /\ \A n \in 1..N : images[n] \in E
  BY Elements
<1> HIDE DEF E
<1> DEFINE T == {n \in 0..N : f[n] \in Seq(E)}
<1>3. 0 \in T
  <2>1. f[0] \in Seq(E) /\ 0 \in 0..N
    BY <1>1, <1>2
  <2> QED
    BY <2>1
<1>4. ASSUME NEW n \in 1..N, n - 1 \in T PROVE n \in T
  <2>1. f[n - 1] \in Seq(E)
    BY <1>4
  <2>2. Filled(f[n - 1], images[n], memory) \in Seq(E)
    BY <1>2, <2>1 DEF Filled
  <2> QED
    BY <1>1, <2>2
<1>5. 0..N \subseteq T
  <2> HIDE DEF T, N
  <2> QED
    BY <1>2, <1>3, <1>4, Counting
<1>6. Populate(images, memory) \in Seq(E)
  BY <1>1, <1>2, <1>5
<1>7. ToSet(Populate(images, memory)) \in SUBSET E
  BY <1>6, Elements
<1>8. Populate(images, memory) \in Seq(S)
  BY <1>2, <1>6
<1> QED
  BY <1>7, <1>8 DEF E

-----------------------------------------------------------------------------
(* The table of a live runtime.                                            *)

Entries == [id : EngineIds, testing : BOOLEAN]

\* The engines that a test registers are the ones that are not of the library.
MarksTests(engines) ==
    \A i \in 1..Len(engines) : engines[i].testing <=> engines[i].id \notin BuiltInIds

\* The relocating engine is tried before the static one.
RelocFirst(engines) ==
    \A i \in 1..Len(engines) : engines[i].id = "inline-static" =>
        \E j \in 1..(i - 1) : engines[j].id = "inline-relocating"

\* A new runtime has a table of engines of the library, which fits, in the order
\* of registration unless it is pinned.
LEMMA NewTable ==
    ASSUME NEW config
    PROVE  /\ EnginesOf(config) \in Seq(Entries)
           /\ Len(EnginesOf(config)) <= MaxEngines
           /\ MarksTests(EnginesOf(config))
           /\ ~config.pinned => RelocFirst(EnginesOf(config))
<1> DEFINE built == PlatformEngines(config.platform)
           kept == IF config.pinned THEN Retained(built, config.list) ELSE built
           engines == [i \in 1..Len(kept) |-> Registered(kept[i])]
<1>1. EnginesOf(config) = engines
  BY DEF EnginesOf
<1>2. built \in Seq(BuiltInIds) /\ Len(built) <= 10 /\ DynamicFirst(built)
  BY PlatformTable DEF Fits
<1>3. kept \in Seq(BuiltInIds) /\ Len(kept) \in Nat /\ Len(kept) <= 10
  <2> HIDE DEF built
  <2>1. /\ Retained(built, config.list) \in Seq(BuiltInIds)
        /\ Len(Retained(built, config.list)) <= Len(built)
    BY <1>2, RetainedFits
  <2>2. kept \in Seq(BuiltInIds) /\ Len(kept) <= Len(built)
    BY <1>2, <2>1
  <2> HIDE DEF kept
  <2> QED
    BY <1>2, <2>2
<1>4. ~config.pinned => DynamicFirst(kept)
  BY <1>2
<1> HIDE DEF kept, built
<1>5. \A i \in 1..Len(kept) : kept[i] \in BuiltInIds
  BY <1>3, ElementOf
<1>6. \A i \in 1..Len(kept) : Registered(kept[i]) \in Entries
  BY <1>5 DEF Registered, Entries, EngineIds
<1>7. engines \in Seq(Entries) /\ Len(engines) = Len(kept)
  BY <1>3, <1>6
<1>8. \A i \in 1..Len(kept) : engines[i].id = kept[i] /\ engines[i].testing = FALSE
  BY DEF Registered
<1> HIDE DEF engines
<1>9. Len(engines) <= MaxEngines
  BY <1>3, <1>7, RoutingAssumption
<1>10. MarksTests(engines)
  BY <1>5, <1>7, <1>8 DEF MarksTests
<1>11. ASSUME ~config.pinned PROVE RelocFirst(engines)
  <2> SUFFICES ASSUME NEW i \in 1..Len(engines), engines[i].id = "inline-static"
               PROVE  \E j \in 1..(i - 1) : engines[j].id = "inline-relocating"
    BY DEF RelocFirst
  <2>1. PICK j \in 1..(i - 1) : kept[j] = "inline-relocating"
    BY <1>4, <1>7, <1>8, <1>11 DEF DynamicFirst
  <2>2. j \in 1..Len(kept)
    BY <1>3, <1>7
  <2> QED
    BY <1>8, <2>1, <2>2
<1> QED
  BY <1>1, <1>7, <1>9, <1>10, <1>11

\* A test engine may be added to such a table.
LEMMA TestTable ==
    ASSUME NEW engines \in Seq(Entries), Len(engines) < MaxEngines,
           MarksTests(engines), NEW e \in DOMAIN TestEngines
    PROVE  LET longer == Append(engines, [id |-> e, testing |-> TRUE]) IN
           /\ longer \in Seq(Entries)
           /\ Len(longer) <= MaxEngines
           /\ MarksTests(longer)
           /\ RelocFirst(engines) => RelocFirst(longer)
<1> DEFINE entry == [id |-> e, testing |-> TRUE]
           longer == Append(engines, entry)
<1>1. entry \in Entries /\ entry.id = e /\ entry.testing = TRUE /\ e \notin BuiltInIds
  BY RoutingAssumption DEF Entries, EngineIds
<1> HIDE DEF entry
<1>2. /\ longer \in Seq(Entries) /\ Len(longer) = Len(engines) + 1
      /\ Len(engines) \in Nat
      /\ \A i \in 1..Len(engines) : longer[i] = engines[i]
      /\ longer[Len(engines) + 1] = entry
  BY <1>1
<1> HIDE DEF longer
<1>3. Len(longer) <= MaxEngines
  BY <1>2, RoutingAssumption
<1>4. MarksTests(longer)
  BY <1>1, <1>2 DEF MarksTests
<1>5. ASSUME RelocFirst(engines) PROVE RelocFirst(longer)
  <2> SUFFICES ASSUME NEW i \in 1..Len(longer), longer[i].id = "inline-static"
               PROVE  \E j \in 1..(i - 1) : longer[j].id = "inline-relocating"
    BY DEF RelocFirst
  <2>1. i \in 1..Len(engines)
    BY <1>1, <1>2 DEF BuiltInIds
  <2>2. PICK j \in 1..(i - 1) : engines[j].id = "inline-relocating"
    BY <1>2, <1>5, <2>1 DEF RelocFirst
  <2> QED
    BY <1>2, <2>1, <2>2
<1> QED
  BY <1>2, <1>3, <1>4, <1>5 DEF longer, entry

\* Whatever the static engine can serve, the relocating one can serve as well,
\* unless the request rules dynamic memory out.
LEMMA RelocServes ==
    ASSUME NEW r, NEW a, NEW q,
           NEW i \in 1..Len(r.engines), NEW j \in 1..Len(r.engines),
           r.engines[i].id = "inline-static", r.engines[j].id = "inline-relocating",
           r.engines[i].testing = r.engines[j].testing,
           Eligible(r, a, q, i), "dynamic-memory" \notin EffectiveConstraints(q)
    PROVE  /\ Eligible(r, a, q, j)
           /\ Preferred(r, q, i) = Preferred(r, q, j)
           /\ RouteRank(r.engines[i].id) = RouteRank(r.engines[j].id)
<1> DEFINE s == "inline-static"
           d == "inline-relocating"
<1>1. Engine[s] = StaticEngine /\ Engine[d] = RelocEngine
  BY LibraryDeclares DEF BuiltIn, BuiltInIds
<1>2. /\ StaticEngine.kinds = RelocEngine.kinds
      /\ StaticEngine.scoped = RelocEngine.scoped
      /\ StaticEngine.contexts = RelocEngine.contexts
      /\ StaticEngine.archs = RelocEngine.archs
      /\ StaticEngine.certified = RelocEngine.certified
      /\ StaticEngine.floor = RelocEngine.floor
      /\ StaticEngine.reach = RelocEngine.reach
      /\ StaticEngine.originals = RelocEngine.originals
      /\ StaticEngine.rank = RelocEngine.rank
      /\ StaticEngine.vtable = RelocEngine.vtable
  BY DEF StaticEngine, RelocEngine, Native
<1>3. /\ StaticEngine.prepare \cup StaticEngine.commit = {"text", "static"}
      /\ RelocEngine.prepare \cup RelocEngine.commit = {"text", "static", "allocation"}
  BY DEF StaticEngine, RelocEngine, Native
<1>4. Discovered(d, a) /\ Analysed(d, q)
  BY DEF Discovered, Analysed, Providers
<1>5. EligibleMinimal(s, q)
  BY DEF Eligible
<1>6. EligibleMinimal(d, q)
  <2>1. ForbidBit("allocation") = "dynamic-memory"
    BY DEF ForbidBit
  <2>2. \A effect \in {"text", "static", "allocation"} :
           ForbidBit(effect) \notin EffectiveConstraints(q)
    BY <1>1, <1>3, <1>5, <2>1 DEF EligibleMinimal
  <2> QED
    BY <1>1, <1>2, <1>3, <1>5, <2>2 DEF EligibleMinimal
<1>7. EffectiveReach(d, q, r.catalog) = EffectiveReach(s, q, r.catalog)
  BY <1>1, <1>2 DEF EffectiveReach
<1>8. /\ HonorsDefiningScope(s, q) <=> HonorsDefiningScope(d, q)
      /\ SupportsContext(s, r.context) <=> SupportsContext(d, r.context)
      /\ SupportsPlatform(s, r.platform, r.engines[i].testing)
           <=> SupportsPlatform(d, r.platform, r.engines[j].testing)
  BY <1>1, <1>2 DEF HonorsDefiningScope, SupportsContext, SupportsPlatform
<1>9. Eligible(r, a, q, j)
  BY <1>4, <1>6, <1>7, <1>8 DEF Eligible
<1>10. RouteRank(s) = RouteRank(d)
  BY <1>1, <1>2 DEF RouteRank, HasField
<1> QED
  BY <1>7, <1>9, <1>10 DEF Preferred

-----------------------------------------------------------------------------
(* Versions.                                                               *)

\* The code compares two versions as numbers, part * 100 + part: that is the
\* comparison part by part.
LEMMA VersionsCompare ==
    ASSUME NEW parts \in Seq(Nat), NEW e, Engine[e].floor \in {90000, 150000},
           Parsed(parts) # 0, Parsed(parts) >= Engine[e].floor
    PROVE  AtLeast(parts, Floor(e))
<1> DEFINE part(i) == IF i <= Len(parts) THEN parts[i] ELSE 0
           a == part(1)
           b == part(2)
           c == part(3)
           f == Engine[e].floor
<1>1. a \in Nat /\ b \in Nat /\ c \in Nat
  <2>1. Len(parts) \in Nat /\ \A i \in 1..Len(parts) : parts[i] \in Nat
    BY ElementOf
  <2> QED
    BY <2>1
\* A number that wrapped is below every floor.
<1>2. b <= 99 /\ c <= 99 /\ Parsed(parts) = a * 10000 + b * 100 + c
  <2>1. b <= 99 /\ c <= 99
    BY <1>1 DEF Parsed
  <2>2. \/ Parsed(parts) = a * 10000 + b * 100 + c
        \/ Parsed(parts) = b * 100 + c - 7296
    BY <1>1 DEF Parsed, Version
  <2>3. b * 100 + c - 7296 < 90000
    BY <1>1, <2>1
  <2> QED
    BY <2>1, <2>2, <2>3
<1>3. f = 90000 \/ f = 150000
  OBVIOUS
<1>4. Floor(e) = <<f \div 10000, (f \div 100) % 100, f % 100>>
  BY DEF Floor
<1>5. AtLeast(parts, Floor(e)) =
        \E n \in 1..4 : /\ \A i \in 1..(n - 1) : part(i) = Floor(e)[i]
                        /\ n <= 3 => part(n) > Floor(e)[n]
  BY DEF AtLeast
<1>6. PICK m \in Nat : f = m * 10000 /\ Floor(e)[1] = m /\ Floor(e)[2] = 0 /\ Floor(e)[3] = 0
  <2>1. CASE f = 90000
    <3>1. 90000 \div 10000 = 9 /\ (90000 \div 100) % 100 = 0 /\ 90000 % 100 = 0
      OBVIOUS
    <3>2. Floor(e) = <<9, 0, 0>>
      BY <1>4, <2>1, <3>1
    <3> QED
      BY <2>1, <3>2
  <2>2. CASE f = 150000
    <3>1. 150000 \div 10000 = 15 /\ (150000 \div 100) % 100 = 0 /\ 150000 % 100 = 0
      OBVIOUS
    <3>2. Floor(e) = <<15, 0, 0>>
      BY <1>4, <2>2, <3>1
    <3> QED
      BY <2>2, <3>2
  <2> QED
    BY <1>3, <2>1, <2>2
<1>7. a >= m
  <2>1. a * 10000 + b * 100 + c >= m * 10000
    BY <1>2, <1>6
  <2> HIDE DEF a, b, c
  <2> QED
    BY <1>1, <1>2, <2>1
<1>8. /\ part(1) = a /\ part(2) = b /\ part(3) = c
      /\ Floor(e)[1] = m /\ Floor(e)[2] = 0 /\ Floor(e)[3] = 0
  BY <1>6
<1> HIDE DEF part, a, b, c, f
<1>9. CASE a > m
  BY <1>5, <1>8, <1>9
<1>10. CASE a = m /\ b > 0
  <2>1. \A i \in 1..(2 - 1) : part(i) = Floor(e)[i]
    BY <1>8, <1>10
  <2> QED
    BY <1>5, <1>8, <1>10, <2>1
<1>11. CASE a = m /\ b = 0 /\ c > 0
  <2>1. \A i \in 1..(3 - 1) : part(i) = Floor(e)[i]
    BY <1>8, <1>11
  <2> QED
    BY <1>5, <1>8, <1>11, <2>1
<1>12. CASE a = m /\ b = 0 /\ c = 0
  <2>1. \A i \in 1..(4 - 1) : part(i) = Floor(e)[i]
    BY <1>8, <1>12
  <2> QED
    BY <1>5, <2>1
<1> QED
  BY <1>1, <1>6, <1>7, <1>9, <1>10, <1>11, <1>12

-----------------------------------------------------------------------------
(* Selectors.                                                              *)

\* A selector is below itself, and what is below a member is below the set.
LEMMA BelowClosed ==
    ASSUME NEW s \in Selectors
    PROVE  /\ s \in Below[s]
           /\ \A m \in ToSet(Members[s]) : m \in Selectors /\ Below[m] \subseteq Below[s]
<1>1. s \in Below[s]
  BY DEF Below
<1>2. ASSUME NEW m \in ToSet(Members[s])
      PROVE  m \in Selectors /\ Below[m] \subseteq Below[s]
  <2>1. m \in Selectors
    BY SelectorsAssumption, Elements
  <2>2. ASSUME NEW t \in Below[m] PROVE t \in Below[s]
    <3>1. t \in Selectors
      BY <2>1, <2>2 DEF Below
    <3>2. ASSUME NEW S \in SUBSET Selectors, s \in S,
                 \A u \in S : ToSet(Members[u]) \subseteq S
          PROVE  t \in S
      <4>1. m \in S
        BY <3>2
      <4> QED
        BY <2>1, <2>2, <3>2, <4>1 DEF Below
    <3> QED
      BY <3>1, <3>2 DEF Below
  <2> QED
    BY <2>1, <2>2
<1> QED
  BY <1>1, <1>2

\* f holds the selectors that entry_matches_selector accepts with each number of
\* levels left.
Accepts(image, f) ==
    /\ f[0] = {t \in Selectors : LeafMatches(image, t)}
    /\ \A r \in 1..MaxDepth :
          f[r] = {t \in Selectors : \/ LeafMatches(image, t)
                                    \/ ToSet(Members[t]) \cap f[r - 1] # {}}
    /\ \A s : EntryMatches(image, s) <=> s \in f[MaxDepth]

\* entry_matches_selector accepts those.
LEMMA AcceptsRuns ==
    ASSUME NEW image
    PROVE  \E f : Accepts(image, f)
<1> DEFINE N == MaxDepth
           S == SUBSET Selectors
           Deeper(M) == {t \in Selectors : \/ LeafMatches(image, t)
                                           \/ ToSet(Members[t]) \cap M # {}}
           leaves == {t \in Selectors : LeafMatches(image, t)}
           Body(f) == [r \in 0..N |->
                         {t \in Selectors :
                             \/ LeafMatches(image, t)
                             \/ r > 0 /\ ToSet(Members[t]) \cap f[r - 1] # {}}]
           step == [n \in 1..N |-> [M \in S |-> Deeper(M)]]
<1>1. \A s : EntryMatches(image, s) <=> s \in (CHOOSE f : f = Body(f))[N]
  BY DEF EntryMatches
<1>n. N \in Nat
  BY SelectorsAssumption
<1>2. PICK f : Runs(N, S, leaves, step, f)
  <2>1. step \in [1..N -> [S -> S]] /\ leaves \in S
    OBVIOUS
  <2> HIDE DEF step, N, S, leaves
  <2> QED
    BY <1>n, <2>1, LoopExists
<1>3. f = Body(f)
  <2>1. ASSUME NEW n \in 1..N PROVE f[n] = Deeper(f[n - 1])
    <3>1. f[n - 1] \in S
      BY <1>n, <1>2 DEF Runs
    <3>2. step[n] = [M \in S |-> Deeper(M)]
      OBVIOUS
    <3> QED
      BY <1>2, <3>1, <3>2 DEF Runs
  <2>2. f[0] = leaves /\ DOMAIN f = 0..N /\ f = [n \in 0..N |-> f[n]]
    BY <1>2 DEF Runs
  <2>3. ASSUME NEW n \in 0..N PROVE f[n] = Body(f)[n]
    <3>1. CASE n = 0
      BY <2>2, <3>1
    <3>2. CASE n # 0
      <4>1. n \in 1..N /\ n > 0
        BY <1>n, <3>2
      <4> QED
        BY <2>1, <4>1
    <3> QED
      BY <3>1, <3>2
  <2> QED
    BY <2>2, <2>3
<1> DEFINE c == CHOOSE g : g = Body(g)
<1>4. c = Body(c)
  BY <1>3
<1>5. \A s : EntryMatches(image, s) <=> s \in c[N]
  BY <1>1
<1> HIDE DEF c
<1>6. c[0] = leaves
  BY <1>n, <1>4
<1>7. ASSUME NEW n \in 1..N PROVE c[n] = Deeper(c[n - 1])
  <2>1. n \in 0..N /\ n > 0
    BY <1>n
  <2> QED
    BY <1>4, <2>1
<1> QED
  BY <1>5, <1>6, <1>7 DEF Accepts

\* An entry that entry_matches_selector accepts is one that the selector names.
LEMMA MatchesNamed ==
    ASSUME NEW s, NEW image, EntryMatches(image, s)
    PROVE  s \in Selectors /\ Names(s, image)
<1> PICK f : Accepts(image, f)
  BY AcceptsRuns
<1>n. MaxDepth \in Nat
  BY SelectorsAssumption
<1> DEFINE G == {t \in Selectors : Names(t, image)}
           T == {r \in 0..MaxDepth : f[r] \subseteq G}
<1>l. ASSUME NEW t \in Selectors, LeafMatches(image, t) PROVE t \in G
  BY <1>l, BelowClosed DEF Names
<1>1. 0 \in T
  <2>1. f[0] \subseteq G
    BY <1>l DEF Accepts
  <2> QED
    BY <1>n, <2>1
<1>2. ASSUME NEW r \in 1..MaxDepth, r - 1 \in T PROVE r \in T
  <2>1. f[r - 1] \subseteq G
    BY <1>2
  <2>2. ASSUME NEW t \in f[r] PROVE t \in G
    <3>1. t \in Selectors /\ (LeafMatches(image, t) \/ ToSet(Members[t]) \cap f[r - 1] # {})
      BY <2>2 DEF Accepts
    <3>2. CASE ToSet(Members[t]) \cap f[r - 1] # {}
      <4>1. PICK m \in ToSet(Members[t]) : m \in G
        BY <2>1, <3>2
      <4>2. PICK u \in Below[m] : LeafMatches(image, u)
        BY <4>1 DEF Names
      <4>3. u \in Below[t]
        BY <3>1, <4>1, <4>2, BelowClosed
      <4> QED
        BY <3>1, <4>2, <4>3 DEF Names
    <3> QED
      BY <1>l, <3>1, <3>2
  <2> QED
    BY <2>2
<1>3. 0..MaxDepth \subseteq T
  <2> HIDE DEF T
  <2> QED
    BY <1>n, <1>1, <1>2, Counting
<1>4. f[MaxDepth] \subseteq G /\ s \in f[MaxDepth]
  BY <1>n, <1>3 DEF Accepts
<1> QED
  BY <1>4

-----------------------------------------------------------------------------
(* Ledgers.                                                                *)

\* A finite set is put in some order.
LEMMA Serialized ==
    ASSUME NEW S, IsFiniteSet(S)
    PROVE  /\ SetToSeq(S) \in Seq(S)
           /\ {SetToSeq(S)[i] : i \in 1..Len(SetToSeq(S))} = S
<1> DEFINE n == Cardinality(S)
           s == SetToSeq(S)
<1>1. n \in Nat /\ ExistsBijection(1..n, S)
  BY FS_CardinalityType
<1>2. PICK g \in [1..n -> S] : IsInjective(g)
  BY <1>1 DEF ExistsBijection, Bijection, Injection
<1>3. s \in [1..n -> S] /\ IsInjective(s)
  BY <1>2 DEF SetToSeq
<1>4. Cardinality(1..n) = n
  <2>1. n \in Int /\ 1 \in Int /\ (IF 1 > n THEN 0 ELSE n - 1 + 1) = n
    BY <1>1
  <2> HIDE DEF n
  <2> QED
    BY <2>1, FS_Interval
<1> HIDE DEF s
<1>5. s \in Surjection(1..n, S)
  <2>1. s \in Injection(1..n, S)
    BY <1>3 DEF Injection
  <2> HIDE DEF n
  <2> QED
    BY <1>4, <2>1, FS_Injection DEF n
<1>6. s \in Seq(S) /\ Len(s) = n
  BY <1>1, <1>3
<1>7. {s[i] : i \in 1..n} = S
  BY <1>5 DEF Surjection
<1> QED
  BY <1>6, <1>7 DEF s

\* A piece at the end of a ledger that has no record of its commit.
LEMMA HeldAtEnd ==
    ASSUME NEW S, NEW records \in Seq(S), NEW piece \in Seq(S), NEW n,
           \A i \in 1..Len(records) : records[i].commit # n,
           \A i \in 1..Len(piece) : piece[i].commit = n
    PROVE  HoldsWhole(records \o piece, piece, n)
<1> DEFINE all == records \o piece
           k == Len(records)
<1>1. /\ all \in Seq(S) /\ Len(all) = k + Len(piece) /\ k \in Nat /\ Len(piece) \in Nat
      /\ \A i \in 1..(k + Len(piece)) :
            all[i] = IF i <= k THEN records[i] ELSE piece[i - k]
  OBVIOUS
<1>2. DOMAIN all = 1..(k + Len(piece)) /\ DOMAIN piece = 1..Len(piece)
  BY <1>1
<1> HIDE DEF all
<1>3. ASSUME NEW i \in DOMAIN all
      PROVE  all[i].commit = n <=> i \in (k + 1)..(k + Len(piece))
  <2>1. CASE i <= k
    BY <1>1, <1>2, <2>1
  <2>2. CASE i > k
    <3>1. i - k \in 1..Len(piece) /\ all[i] = piece[i - k]
      BY <1>1, <1>2, <2>2
    <3> QED
      BY <1>1, <1>2, <2>2, <3>1
  <2> QED
    BY <1>1, <1>2, <2>1, <2>2
<1>4. ASSUME NEW i \in DOMAIN piece PROVE all[k + i] = piece[i]
  <2>1. k + i \in 1..(k + Len(piece)) /\ ~(k + i <= k) /\ (k + i) - k = i
    BY <1>1, <1>2
  <2> QED
    BY <1>1, <2>1
<1>5. k \in 0..Len(all) /\ k + Len(piece) <= Len(all)
  BY <1>1
<1> HIDE DEF k
<1> QED
  BY <1>3, <1>4, <1>5 DEF HoldsWhole, all

\* Records of other commits leave a commit where it is.
LEMMA HeldOn ==
    ASSUME NEW S, NEW records \in Seq(S), NEW piece \in Seq(S), NEW more \in Seq(S),
           NEW n, HoldsWhole(records, piece, n),
           \A i \in 1..Len(more) : more[i].commit # n
    PROVE  HoldsWhole(records \o more, piece, n)
<1> DEFINE all == records \o more
           l == Len(records)
<1>1. /\ all \in Seq(S) /\ Len(all) = l + Len(more) /\ l \in Nat /\ Len(more) \in Nat
      /\ \A i \in 1..(l + Len(more)) :
            all[i] = IF i <= l THEN records[i] ELSE more[i - l]
  OBVIOUS
<1>2. DOMAIN all = 1..(l + Len(more)) /\ DOMAIN records = 1..l
  BY <1>1
<1> HIDE DEF all
<1>3. ASSUME NEW i \in DOMAIN all, i > l PROVE all[i].commit # n
  <2>1. i - l \in 1..Len(more) /\ all[i] = more[i - l]
    BY <1>1, <1>2, <1>3
  <2> QED
    BY <2>1
<1>4. CASE \A i \in DOMAIN records : records[i].commit # n
  <2>1. \A i \in DOMAIN all : all[i].commit # n
    BY <1>1, <1>2, <1>3, <1>4
  <2> QED
    BY <2>1 DEF HoldsWhole, all
<1>5. ASSUME NEW k \in 0..Len(records), k + Len(piece) <= Len(records),
             \A i \in DOMAIN records :
                records[i].commit = n <=> i \in (k + 1)..(k + Len(piece)),
             \A i \in DOMAIN piece : records[k + i] = piece[i]
      PROVE  HoldsWhole(all, piece, n)
  <2>1. Len(piece) \in Nat /\ DOMAIN piece = 1..Len(piece)
    OBVIOUS
  <2>2. ASSUME NEW i \in DOMAIN all
        PROVE  all[i].commit = n <=> i \in (k + 1)..(k + Len(piece))
    <3>1. CASE i <= l
      BY <1>1, <1>2, <1>5, <3>1
    <3>2. CASE i > l
      BY <1>1, <1>2, <1>3, <1>5, <2>1, <3>2
    <3> QED
      BY <1>1, <1>2, <3>1, <3>2
  <2>3. ASSUME NEW i \in DOMAIN piece PROVE all[k + i] = piece[i]
    <3>1. k + i \in 1..l
      BY <1>1, <1>5, <2>1
    <3>2. all[k + i] = records[k + i]
      BY <1>1, <3>1
    <3>3. records[k + i] = piece[i]
      BY <1>5
    <3> QED
      BY <3>2, <3>3
  <2>4. k \in 0..Len(all) /\ k + Len(piece) <= Len(all)
    BY <1>1, <1>5, <2>1
  <2> QED
    BY <2>2, <2>3, <2>4 DEF HoldsWhole
<1> QED
  BY <1>4, <1>5 DEF HoldsWhole, all

\* s is the beginning of t.
Begins(s, t) == Len(s) <= Len(t) /\ \A i \in 1..Len(s) : t[i] = s[i]

LEMMA BeginsPrefix ==
    ASSUME NEW S, NEW s \in Seq(S), NEW t \in Seq(S), Begins(s, t)
    PROVE  Len(s) <= Len(t) /\ SubSeq(t, 1, Len(s)) = s
<1>1. Len(s) \in Nat /\ Len(t) \in Nat /\ Len(s) <= Len(t)
  BY DEF Begins
<1> DEFINE p == SubSeq(t, 1, Len(s))
<1>2. p \in Seq(S) /\ Len(p) = Len(s) /\ \A i \in 1..Len(s) : p[i] = t[i]
  BY <1>1
<1> HIDE DEF p
<1>3. \A i \in 1..Len(s) : p[i] = s[i]
  BY <1>2 DEF Begins
<1>4. p = s
  BY <1>2, <1>3
<1> QED
  BY <1>1, <1>4 DEF p

LEMMA BeginsOn ==
    ASSUME NEW S, NEW s \in Seq(S), NEW t \in Seq(S), NEW u \in Seq(S), Begins(s, t)
    PROVE  Begins(s, t \o u)
<1>1. /\ Len(t \o u) = Len(t) + Len(u) /\ Len(t) \in Nat /\ Len(u) \in Nat
      /\ \A i \in 1..Len(t) : (t \o u)[i] = t[i]
  OBVIOUS
<1>2. Len(s) \in Nat /\ Len(s) <= Len(t) /\ \A i \in 1..Len(s) : t[i] = s[i]
  BY DEF Begins
<1> QED
  BY <1>1, <1>2 DEF Begins

-----------------------------------------------------------------------------
(* The inductive invariant.                                                *)

\* A live runtime: what it was created with, a sound table and a catalog.
LiveRuntime(r) ==
    /\ r = [alive |-> TRUE, created |-> r.created, platform |-> r.platform,
            context |-> r.context, pinned |-> r.pinned, list |-> r.list,
            engines |-> r.engines, catalog |-> r.catalog]
    /\ r.engines \in Seq(Entries)
    /\ Len(r.engines) <= MaxEngines
    /\ MarksTests(r.engines)
    /\ ~r.pinned => RelocFirst(r.engines)
    /\ r.platform.version \in Seq(Nat)
    /\ r.platform.arch \in AArch64 \cup Arm32
    /\ r.catalog \in Seq(Images)

\* Without a runtime there is no hook; a runtime's catalog holds loaded images.
RuntimeKept ==
    /\ loaded \in Seq(Images)
    /\ available \subseteq Installable
    /\ \/ runtime = NoRuntime(runtime.created) /\ hook.stage = "none"
       \/ LiveRuntime(runtime) /\ ToSet(runtime.catalog) \subseteq ToSet(loaded)

Analysed4 == {"no-route", "analyzed", "failed", "prepared"}
Settled4 == {"settled", "unreported", "reported", "delivered"}

\* The fields of a hook in each stage.
HookShape(h) ==
    \/ h = NoHook
    \/ h = [stage |-> "added", request |-> h.request]
    \/ /\ h.stage \in Analysed4
       /\ h = [stage |-> h.stage, request |-> h.request, engine |-> h.engine,
               testing |-> h.testing, achieved |-> h.achieved, unmet |-> h.unmet]
    \/ /\ h.stage \in Settled4
       /\ h = [stage |-> h.stage, request |-> h.request, engine |-> h.engine,
               testing |-> h.testing, achieved |-> h.achieved, unmet |-> h.unmet,
               performed |-> h.performed, observed |-> h.observed,
               outcome |-> h.outcome]

\* A hook has the fields of its stage, and room for its commit until it has made it.
HookKept ==
    /\ HookShape(hook)
    /\ hook.stage # "none" => hook.request \in Requests
    /\ hook.stage \in {"added"} \cup Analysed4 => commits < MaxCommits

\* The engine of hook h was one that runtime r may choose, and its scope was
\* checked before the hook was prepared.
Chose(r, h) ==
    /\ h.engine \in EngineIds
    /\ ~h.testing => h.engine \in BuiltInIds
    /\ SupportsPlatform(h.engine, r.platform, h.testing)
    /\ EligibleMinimal(h.engine, h.request)
    /\ h.achieved = EffectiveReach(h.engine, h.request, r.catalog)
    /\ ~r.pinned /\ h.engine = "inline-static" =>
          "dynamic-memory" \in EffectiveConstraints(h.request)

\* ScopeStatus over any catalog.
StatusIn(catalog, e, request) ==
    CASE e \in {"inline-terminal", "inline-relocating", "inline-static"} ->
            ScopeCheck(catalog, request.selector, request.uuid, request.address)
      [] e = "memory" /\ request.relative ->
            ScopeCheck(catalog, request.selector, "any", ResolvedAddress(request))
      [] e = OneImageRebind ->
            ScopeCheckHeader(catalog, request.caller, "any", RebindHeader)
      [] e = "fishhook" ->
            IF CatalogMatch(catalog, request.caller) = {} THEN "NO_MATCH" ELSE "OK"
      [] OTHER -> "OK"

RouteKept ==
    /\ Routed => Chose(runtime, hook)
    /\ hook.stage \in Chosen \ {"analyzed", "failed"} =>
          ScopeAccepts(StatusIn(runtime.catalog, hook.engine, hook.request))

AllEffects == {"import"} \cup UNION {Engine[e].commit \cup Extra(e) : e \in EngineIds}
Records == [commit : Nat, effect : AllEffects, state : {"VERIFIED", "COMMITTED"}]

\* No record is of commit n.
Lacks(records, n) == \A i \in 1..Len(records) : records[i].commit # n

\* A ledger that holds the first c commits whole, of which m has the records, or
\* not at all, and nothing of a later one.
Booked(records, c, m) ==
    /\ records \in Seq(Records)
    /\ \A i \in 1..Len(records) : records[i].commit <= c
    /\ \A n \in 1..c : HoldsWhole(records, m[n], n)

\* The records of the commits.
Made(c, m) ==
    /\ c \in Nat
    /\ m \in Seq(Seq(Records)) /\ Len(m) = c
    /\ \A n \in 1..c : \A i \in 1..Len(m[n]) : m[n][i].commit = n

\* What the ledgers hold; the commit that is under way is in none of the shared
\* ones before its turn.
LedgerKept ==
    /\ commits \in 0..MaxCommits /\ others \in 0..MaxOthers
    /\ Made(commits, made)
    /\ ledger \in Seq(Records) /\ report \in Seq(Records) /\ snapshot \in Seq(Records)
    /\ Booked(runtimeLedger, commits, made)
    /\ Booked(processLedger, commits, made)
    /\ Begins(snapshot, processLedger)
    /\ hook.stage \in Settled4 => commits > 0 /\ ledger = made[commits]
    /\ hook.stage = "settled" => Lacks(runtimeLedger, commits)
    /\ hook.stage \in {"settled", "reported"} => Lacks(processLedger, commits)

\* The effects that a ledger tells of.
EffectsIn(records) == {records[i].effect : i \in 1..Len(records)}

\* The result of a commit matches what was done and what was recorded.
EffectsKept ==
    /\ hook.stage \in Settled4 =>
          /\ hook.performed \subseteq hook.observed
          /\ ~(hook.performed \subseteq Engine[hook.engine].commit) =>
                hook.outcome = "FAILED_UNKNOWN"
          /\ hook.outcome = "ACTIVE" =>
                EffectsIn(ledger) = hook.performed
    /\ hook.stage \in {"reported", "delivered"} => report = ledger

IInv == RuntimeKept /\ HookKept /\ RouteKept /\ LedgerKept /\ EffectsKept

\* The status that the model computes.
LEMMA StatusSame ==
    \A e, request : ScopeStatus(e, request) = StatusIn(runtime.catalog, e, request)
  BY DEF ScopeStatus, StatusIn

LEMMA InitKept == Init => IInv
<1> SUFFICES ASSUME Init PROVE IInv
  OBVIOUS
<1>1. hook.stage = "none" /\ runtime = NoRuntime(runtime.created)
  BY DEF Init, NoHook, NoRuntime
<1>2. RuntimeKept
  BY <1>1, RuntimeAssumption DEF Init, RuntimeKept
<1>3. HookKept
  BY <1>1 DEF Init, HookKept, HookShape, Analysed4
<1>4. RouteKept
  BY <1>1 DEF RouteKept, Routed, Chosen
<1>5. LedgerKept
  BY <1>1, RuntimeAssumption
     DEF Init, LedgerKept, Settled4, Made, Booked, Begins
<1>6. EffectsKept
  BY <1>1 DEF EffectsKept, Settled4
<1> QED
  BY <1>2, <1>3, <1>4, <1>5, <1>6 DEF IInv

-----------------------------------------------------------------------------
(* Every step keeps it.                                                    *)

\* A runtime is alive or it is not.
LEMMA AliveOrNot ==
    ASSUME RuntimeKept
    PROVE  /\ runtime.alive \in BOOLEAN
           /\ runtime.alive => LiveRuntime(runtime) /\ ToSet(runtime.catalog) \subseteq ToSet(loaded)
           /\ ~runtime.alive => hook.stage = "none"
<1>1. CASE runtime = NoRuntime(runtime.created) /\ hook.stage = "none"
  <2>1. runtime.alive = FALSE
    BY <1>1 DEF NoRuntime
  <2> QED
    BY <1>1, <2>1
<1>2. CASE LiveRuntime(runtime) /\ ToSet(runtime.catalog) \subseteq ToSet(loaded)
  <2>1. runtime.alive = TRUE
    BY <1>2 DEF LiveRuntime
  <2> QED
    BY <1>2, <2>1
<1> QED
  BY <1>1, <1>2 DEF RuntimeKept

LEMMA RuntimeStep ==
    ASSUME RuntimeKept, [Next]_vars
    PROVE  RuntimeKept'
<1> USE AliveOrNot
<1>k. loaded \in Seq(Images) /\ available \subseteq Installable
  BY DEF RuntimeKept
<1>same. ASSUME loaded' = loaded, available' = available, runtime' = runtime,
                runtime.alive \/ hook' = hook
         PROVE  RuntimeKept'
  <2>1. CASE runtime.alive
    <3>1. LiveRuntime(runtime) /\ ToSet(runtime.catalog) \subseteq ToSet(loaded)
      BY <2>1
    <3> QED
      BY <1>same, <1>k, <3>1 DEF RuntimeKept
  <2>2. CASE hook' = hook
    BY <1>same, <2>2 DEF RuntimeKept
  <2> QED
    BY <1>same, <2>1, <2>2
<1>1. ASSUME NEW image \in Images, ImageLoads(image) PROVE RuntimeKept'
  <2>1. loaded' = Append(loaded, image) /\ available' = available /\ runtime' = runtime
        /\ hook' = hook
    BY <1>1 DEF ImageLoads
  <2>2. loaded' \in Seq(Images) /\ ToSet(loaded) \subseteq ToSet(loaded')
    <3>1. /\ loaded' \in Seq(Images) /\ Len(loaded') = Len(loaded) + 1
          /\ Len(loaded) \in Nat
          /\ \A i \in 1..Len(loaded) : loaded'[i] = loaded[i]
      BY <1>k, <2>1
    <3>2. \A x : x \in ToSet(loaded) => \E i \in 1..Len(loaded) : x = loaded[i]
      BY <1>k, Elements
    <3>3. \A i \in 1..Len(loaded') : loaded'[i] \in ToSet(loaded')
      BY <3>1, Elements
    <3> QED
      BY <3>1, <3>2, <3>3
  <2> QED
    BY <1>k, <2>1, <2>2 DEF RuntimeKept
<1>2. ASSUME NEW p \in Installable, ProviderAppears(p) PROVE RuntimeKept'
  <2>1. /\ loaded' = loaded /\ available' = available \cup {p}
        /\ runtime' = runtime /\ hook' = hook
    BY <1>2 DEF ProviderAppears
  <2> QED
    BY <1>k, <2>1 DEF RuntimeKept
<1>3. ASSUME NEW config \in Configs, NEW memory \in CatalogMemory,
             CreateRuntime(config, memory)
      PROVE  RuntimeKept'
  <2> DEFINE catalog == Populate(loaded, memory)
             engines == EnginesOf(config)
  <2>1. /\ loaded' = loaded /\ available' = available
        /\ runtime' = [alive |-> TRUE, created |-> runtime.created + 1,
                       platform |-> config.platform, context |-> config.context,
                       pinned |-> config.pinned, list |-> config.list,
                       engines |-> engines, catalog |-> catalog]
    BY <1>3 DEF CreateRuntime
  <2>2. catalog \in Seq(Images) /\ ToSet(catalog) \subseteq ToSet(loaded)
    BY <1>k, CatalogLoaded
  <2>3. /\ engines \in Seq(Entries) /\ Len(engines) <= MaxEngines
        /\ MarksTests(engines) /\ (~config.pinned => RelocFirst(engines))
    BY NewTable
  <2> HIDE DEF catalog, engines
  <2>4. /\ runtime' = [alive |-> TRUE, created |-> runtime'.created,
                       platform |-> runtime'.platform, context |-> runtime'.context,
                       pinned |-> runtime'.pinned, list |-> runtime'.list,
                       engines |-> runtime'.engines, catalog |-> runtime'.catalog]
        /\ runtime'.engines = engines /\ runtime'.catalog = catalog
        /\ runtime'.pinned = config.pinned /\ runtime'.platform = config.platform
    BY <2>1
  <2>5. LiveRuntime(runtime')
    BY <2>2, <2>3, <2>4, RuntimeAssumption DEF LiveRuntime
  <2> QED
    BY <1>k, <2>1, <2>2, <2>4, <2>5 DEF RuntimeKept
<1>4. ASSUME NEW e \in DOMAIN TestEngines, RegisterForTesting(e) PROVE RuntimeKept'
  <2> DEFINE longer == Append(runtime.engines, [id |-> e, testing |-> TRUE])
  <2>1. /\ runtime.alive /\ loaded' = loaded /\ available' = available
        /\ Len(runtime.engines) < MaxEngines
        /\ runtime' = [runtime EXCEPT !.engines = longer]
    BY <1>4 DEF RegisterForTesting, Registrable
  <2>2. LiveRuntime(runtime) /\ ToSet(runtime.catalog) \subseteq ToSet(loaded)
    BY <2>1
  <2>3. /\ runtime.engines \in Seq(Entries) /\ MarksTests(runtime.engines)
        /\ ~runtime.pinned => RelocFirst(runtime.engines)
    BY <2>2 DEF LiveRuntime
  <2>4. /\ longer \in Seq(Entries) /\ Len(longer) <= MaxEngines /\ MarksTests(longer)
        /\ RelocFirst(runtime.engines) => RelocFirst(longer)
    BY <2>1, <2>3, TestTable
  <2> HIDE DEF longer
  <2>5. runtime' = [alive |-> TRUE, created |-> runtime.created,
                    platform |-> runtime.platform, context |-> runtime.context,
                    pinned |-> runtime.pinned, list |-> runtime.list,
                    engines |-> longer, catalog |-> runtime.catalog]
    BY <2>1, <2>2 DEF LiveRuntime
  <2>6. LiveRuntime(runtime')
    BY <2>2, <2>3, <2>4, <2>5 DEF LiveRuntime
  <2>7. runtime'.catalog = runtime.catalog
    BY <2>5
  <2> QED
    BY <1>k, <2>1, <2>2, <2>6, <2>7 DEF RuntimeKept
<1>5. CASE ReleaseRuntime
  <2>1. /\ loaded' = loaded /\ available' = available /\ hook' = hook
        /\ hook.stage = "none" /\ runtime' = NoRuntime(runtime.created)
    BY <1>5 DEF ReleaseRuntime
  <2>2. runtime' = NoRuntime(runtime'.created)
    BY <2>1 DEF NoRuntime
  <2> QED
    BY <1>k, <2>1, <2>2 DEF RuntimeKept
<1>6. ASSUME NEW request \in Requests, AddHook(request) PROVE RuntimeKept'
  BY <1>6, <1>same DEF AddHook
<1>7. CASE Analyze
  BY <1>7, <1>same DEF Analyze
<1>8. CASE Prepare
  BY <1>8, <1>same DEF Prepare
<1>9. CASE Commit
  BY <1>9, <1>same DEF Commit
<1>10. CASE Report
  BY <1>10, <1>same DEF Report
<1>11. CASE AppendProcess
  BY <1>11, <1>same DEF AppendProcess
<1>12. CASE OtherCommits
  BY <1>12, <1>same DEF OtherCommits
<1>13. CASE TakeSnapshot
  BY <1>13, <1>same DEF TakeSnapshot
<1>14. CASE ReleaseHook
  BY <1>14, <1>same DEF ReleaseHook
<1>15. CASE UNCHANGED vars
  BY <1>15, <1>same DEF vars
<1> QED
  BY <1>1, <1>2, <1>3, <1>4, <1>5, <1>6, <1>7, <1>8, <1>9, <1>10, <1>11, <1>12, <1>13,
     <1>14, <1>15 DEF Next

\* The steps that do something for the hook.
HookActs ==
    \/ \E request \in Requests : AddHook(request)
    \/ Analyze \/ Prepare \/ Commit \/ Report \/ AppendProcess \/ ReleaseHook

\* The others leave it and the report of its commit alone.
LEMMA Bystanders ==
    ASSUME RuntimeKept, [Next]_vars, ~HookActs
    PROVE  /\ hook' = hook /\ commits' = commits /\ ledger' = ledger
           /\ report' = report /\ made' = made
           /\ runtime' = runtime \/ hook.stage = "none"
<1>1. ASSUME NEW image \in Images, ImageLoads(image)
      PROVE  UNCHANGED <<hook, commits, ledger, report, made, runtime>>
  BY <1>1 DEF ImageLoads, ledgers
<1>2. ASSUME NEW p \in Installable, ProviderAppears(p)
      PROVE  UNCHANGED <<hook, commits, ledger, report, made, runtime>>
  BY <1>2 DEF ProviderAppears, ledgers
<1>3. ASSUME NEW config \in Configs, NEW memory \in CatalogMemory,
             CreateRuntime(config, memory)
      PROVE  UNCHANGED <<hook, commits, ledger, report, made>> /\ hook.stage = "none"
  <2>1. ~runtime.alive /\ UNCHANGED <<hook, commits, ledger, report, made>>
    BY <1>3 DEF CreateRuntime, ledgers
  <2> QED
    BY <2>1, AliveOrNot
<1>4. ASSUME NEW e \in DOMAIN TestEngines, RegisterForTesting(e)
      PROVE  UNCHANGED <<hook, commits, ledger, report, made>> /\ hook.stage = "none"
  BY <1>4 DEF RegisterForTesting, ledgers
<1>5. CASE ReleaseRuntime
  BY <1>5 DEF ReleaseRuntime
<1>6. CASE OtherCommits
  BY <1>6 DEF OtherCommits
<1>7. CASE TakeSnapshot
  BY <1>7 DEF TakeSnapshot
<1>8. CASE UNCHANGED vars
  BY <1>8 DEF vars
<1> QED
  BY <1>1, <1>2, <1>3, <1>4, <1>5, <1>6, <1>7, <1>8 DEF Next, HookActs

LEMMA HookStep ==
    ASSUME RuntimeKept, HookKept, [Next]_vars
    PROVE  HookKept'
<1>k. /\ HookShape(hook)
      /\ hook.stage # "none" => hook.request \in Requests
      /\ hook.stage \in {"added"} \cup Analysed4 => commits < MaxCommits
  BY DEF HookKept
<1>1. CASE ~HookActs
  <2>1. hook' = hook /\ commits' = commits
    BY <1>1, Bystanders
  <2> QED
    BY <1>k, <2>1 DEF HookKept
<1>2. ASSUME NEW request \in Requests, AddHook(request) PROVE HookKept'
  <2>1. /\ hook' = [stage |-> "added", request |-> request]
        /\ commits' = commits /\ commits < MaxCommits
    BY <1>2 DEF AddHook, ledgers
  <2>2. hook'.stage = "added" /\ hook'.request = request /\ HookShape(hook')
    BY <2>1 DEF HookShape
  <2> QED
    BY <2>1, <2>2 DEF HookKept
<1>3. CASE Analyze
  <2>1. PICK st \in {"no-route", "analyzed"} :
           \E e, testing, reach, unmet :
              hook' = [stage |-> st, request |-> hook.request, engine |-> e,
                       testing |-> testing, achieved |-> reach, unmet |-> unmet]
    BY <1>3 DEF Analyze
  <2>2. hook.stage = "added" /\ commits' = commits
    BY <1>3 DEF Analyze, ledgers
  <2>3. hook'.stage = st /\ hook'.request = hook.request /\ HookShape(hook')
    BY <2>1 DEF HookShape, Analysed4
  <2> QED
    BY <1>k, <2>2, <2>3 DEF HookKept
<1>4. CASE Prepare
  <2>1. hook.stage = "analyzed" /\ commits' = commits
    BY <1>4 DEF Prepare, ledgers
  <2>2. PICK st \in {"prepared", "failed"} : hook' = [hook EXCEPT !.stage = st]
    BY <1>4 DEF Prepare
  <2>3. hook = [stage |-> hook.stage, request |-> hook.request, engine |-> hook.engine,
                testing |-> hook.testing, achieved |-> hook.achieved, unmet |-> hook.unmet]
    BY <1>k, <2>1 DEF HookShape, NoHook, Settled4
  <2>4. hook' = [stage |-> st, request |-> hook.request, engine |-> hook.engine,
                 testing |-> hook.testing, achieved |-> hook.achieved, unmet |-> hook.unmet]
    BY <2>2, <2>3
  <2>5. hook'.stage = st /\ hook'.request = hook.request /\ HookShape(hook')
    BY <2>4 DEF HookShape, Analysed4
  <2> QED
    BY <1>k, <2>1, <2>5 DEF HookKept, Analysed4
<1>5. CASE Commit
  <2>1. PICK p, o, u : hook' =
           [stage |-> "settled", request |-> hook.request, engine |-> hook.engine,
            testing |-> hook.testing, achieved |-> hook.achieved, unmet |-> hook.unmet,
            performed |-> p, observed |-> o, outcome |-> u]
    BY <1>5 DEF Commit
  <2>2. hook.stage = "prepared"
    BY <1>5 DEF Commit
  <2>3. hook'.stage = "settled" /\ hook'.request = hook.request /\ HookShape(hook')
    BY <2>1 DEF HookShape, Settled4
  <2> QED
    BY <1>k, <2>2, <2>3 DEF HookKept, Analysed4
<1>6. ASSUME NEW st \in Settled4, hook.stage \in Settled4,
             hook' = [hook EXCEPT !.stage = st]
      PROVE  HookKept'
  <2>1. hook = [stage |-> hook.stage, request |-> hook.request, engine |-> hook.engine,
                testing |-> hook.testing, achieved |-> hook.achieved,
                unmet |-> hook.unmet, performed |-> hook.performed,
                observed |-> hook.observed, outcome |-> hook.outcome]
    BY <1>k, <1>6 DEF HookShape, NoHook, Analysed4, Settled4
  <2>2. hook' = [stage |-> st, request |-> hook.request, engine |-> hook.engine,
                 testing |-> hook.testing, achieved |-> hook.achieved,
                 unmet |-> hook.unmet, performed |-> hook.performed,
                 observed |-> hook.observed, outcome |-> hook.outcome]
    BY <1>6, <2>1
  <2>3. hook'.stage = st /\ hook'.request = hook.request /\ HookShape(hook')
    BY <2>2 DEF HookShape
  <2> QED
    BY <1>k, <1>6, <2>3 DEF HookKept, Analysed4, Settled4
<1>7. CASE Report
  BY <1>6, <1>7 DEF Report, Settled4
<1>8. CASE AppendProcess
  BY <1>6, <1>8 DEF AppendProcess, Settled4
<1>9. CASE ReleaseHook
  <2>1. hook' = NoHook
    BY <1>9 DEF ReleaseHook
  <2> QED
    BY <2>1 DEF HookKept, HookShape, NoHook, Analysed4
<1> QED
  BY <1>1, <1>2, <1>3, <1>4, <1>5, <1>7, <1>8, <1>9 DEF HookActs

\* A step that only moves a hook to another stage.
LEMMA StageOnly ==
    ASSUME NEW h, HookShape(h), h.stage \in Analysed4 \cup Settled4, NEW st
    PROVE  LET g == [h EXCEPT !.stage = st] IN
           /\ g.stage = st /\ g.request = h.request /\ g.engine = h.engine
           /\ g.testing = h.testing /\ g.achieved = h.achieved
           /\ h.stage \in Settled4 => /\ g.performed = h.performed
                                      /\ g.observed = h.observed
                                      /\ g.outcome = h.outcome
<1>1. CASE h.stage \in Analysed4
  <2>1. h = [stage |-> h.stage, request |-> h.request, engine |-> h.engine,
             testing |-> h.testing, achieved |-> h.achieved, unmet |-> h.unmet]
    BY <1>1 DEF HookShape, NoHook, Analysed4, Settled4
  <2>2. [h EXCEPT !.stage = st] =
           [stage |-> st, request |-> h.request, engine |-> h.engine,
            testing |-> h.testing, achieved |-> h.achieved, unmet |-> h.unmet]
    BY <2>1
  <2> QED
    BY <1>1, <2>2 DEF Analysed4, Settled4
<1>2. CASE h.stage \in Settled4
  <2>1. h = [stage |-> h.stage, request |-> h.request, engine |-> h.engine,
             testing |-> h.testing, achieved |-> h.achieved, unmet |-> h.unmet,
             performed |-> h.performed, observed |-> h.observed, outcome |-> h.outcome]
    BY <1>2 DEF HookShape, NoHook, Analysed4, Settled4
  <2>2. [h EXCEPT !.stage = st] =
           [stage |-> st, request |-> h.request, engine |-> h.engine,
            testing |-> h.testing, achieved |-> h.achieved, unmet |-> h.unmet,
            performed |-> h.performed, observed |-> h.observed, outcome |-> h.outcome]
    BY <2>1
  <2> QED
    BY <2>2
<1> QED
  BY <1>1, <1>2

\* What the router's choice is.
LEMMA ChoiceSound ==
    ASSUME NEW r, LiveRuntime(r), NEW a, NEW q, NEW i \in 1..Len(r.engines),
           i = Route(r, a, q)
    PROVE  LET e == r.engines[i].id IN
           /\ e \in EngineIds /\ (~r.engines[i].testing => e \in BuiltInIds)
           /\ SupportsPlatform(e, r.platform, r.engines[i].testing)
           /\ EligibleMinimal(e, q)
           /\ ~r.pinned /\ e = "inline-static" =>
                 "dynamic-memory" \in EffectiveConstraints(q)
<1> DEFINE e == r.engines[i].id
<1>1. Tabled(r) /\ Len(r.engines) \in Nat /\ MarksTests(r.engines)
  BY DEF LiveRuntime, Tabled, Entries
<1>2. BestOf(r, a, q, Len(r.engines), i)
  BY <1>1, RouteBest
<1>3. Eligible(r, a, q, i)
  BY <1>1, <1>2 DEF BestOf
<1>4. r.engines[i] \in [id : EngineIds, testing : BOOLEAN]
  BY <1>1, ElementOf DEF Tabled
<1>5. e \in EngineIds /\ (~r.engines[i].testing => e \in BuiltInIds)
  BY <1>1, <1>4 DEF MarksTests
<1>6. SupportsPlatform(e, r.platform, r.engines[i].testing) /\ EligibleMinimal(e, q)
  BY <1>3 DEF Eligible
<1>7. ASSUME ~r.pinned, e = "inline-static",
             "dynamic-memory" \notin EffectiveConstraints(q)
      PROVE  FALSE
  <2>1. PICK j \in 1..(i - 1) : r.engines[j].id = "inline-relocating"
    BY <1>7 DEF LiveRuntime, RelocFirst
  <2>2. j \in 1..Len(r.engines) /\ j < i
    BY <1>1
  <2>3. r.engines[j] \in [id : EngineIds, testing : BOOLEAN]
    BY <1>1, <2>2, ElementOf DEF Tabled
  <2>4. r.engines[i].testing = FALSE /\ r.engines[j].testing = FALSE
    BY <1>1, <1>4, <1>7, <2>1, <2>2, <2>3 DEF MarksTests, BuiltInIds
  <2>5. /\ Eligible(r, a, q, j)
        /\ Preferred(r, q, i) = Preferred(r, q, j)
        /\ RouteRank(r.engines[i].id) = RouteRank(r.engines[j].id)
    BY <1>3, <1>7, <2>1, <2>2, <2>4, RelocServes
  <2>6. Better(r, q, i, j)
    BY <1>1, <1>2, <2>2, <2>5 DEF BestOf
  <2>7. Preferred(r, q, i) \in Nat /\ RouteRank(r.engines[i].id) \in Nat
    BY <1>1, PreferredCounts
  <2> QED
    BY <1>1, <2>2, <2>5, <2>6, <2>7 DEF Better
<1> QED
  BY <1>5, <1>6, <1>7

LEMMA RouteStep ==
    ASSUME RuntimeKept, HookKept, RouteKept, [Next]_vars
    PROVE  RouteKept'
<1> DEFINE Late == Chosen \ {"analyzed", "failed"}
<1>k. /\ hook.stage \in Chosen => Chose(runtime, hook)
      /\ hook.stage \in Late =>
            ScopeAccepts(StatusIn(runtime.catalog, hook.engine, hook.request))
  BY DEF RouteKept, Routed
<1>shape. HookShape(hook)
  BY DEF HookKept
<1>none. ASSUME hook'.stage \notin Chosen PROVE RouteKept'
  BY <1>none DEF RouteKept, Routed
<1>same. ASSUME runtime' = runtime, hook.stage \in Chosen,
                hook'.engine = hook.engine, hook'.request = hook.request,
                hook'.testing = hook.testing, hook'.achieved = hook.achieved,
                hook'.stage \in Late =>
                   ScopeAccepts(StatusIn(runtime.catalog, hook.engine, hook.request))
         PROVE  RouteKept'
  <2>1. Chose(runtime', hook')
    BY <1>k, <1>same DEF Chose
  <2> QED
    BY <1>same, <2>1 DEF RouteKept, Routed
<1>1. CASE ~HookActs
  <2>1. hook' = hook /\ (runtime' = runtime \/ hook.stage = "none")
    BY <1>1, Bystanders
  <2>2. CASE runtime' = runtime
    BY <1>k, <2>1, <2>2 DEF RouteKept, Routed
  <2>3. CASE hook.stage = "none"
    BY <1>none, <2>1, <2>3 DEF Chosen
  <2> QED
    BY <2>1, <2>2, <2>3
<1>2. ASSUME NEW request \in Requests, AddHook(request) PROVE RouteKept'
  <2>1. hook'.stage = "added"
    BY <1>2 DEF AddHook
  <2> QED
    BY <1>none, <2>1 DEF Chosen
<1>3. CASE Analyze
  <2> DEFINE i == Route(runtime, available, hook.request)
             e == runtime.engines[i].id
             reach == EffectiveReach(e, hook.request, runtime.catalog)
  <2>1. hook.stage = "added" /\ runtime' = runtime
    BY <1>3 DEF Analyze
  <2>2. LiveRuntime(runtime)
    BY <2>1, AliveOrNot
  <2>3. i \in 0..Len(runtime.engines) /\ Len(runtime.engines) \in Nat
    <3>1. Tabled(runtime)
      BY <2>2 DEF LiveRuntime, Tabled, Entries
    <3> QED
      BY <3>1, RouteBest DEF BestOf, Tabled
  <2>4. CASE i = 0
    <3>1. hook'.stage = "no-route"
      BY <1>3, <2>4 DEF Analyze
    <3> QED
      BY <1>none, <3>1 DEF Chosen
  <2>5. CASE i # 0
    <3>1. /\ hook'.stage = "analyzed" /\ hook'.engine = e /\ hook'.request = hook.request
          /\ hook'.testing = (i # 0 /\ runtime.engines[i].testing)
          /\ hook'.achieved = reach
      BY <1>3, <2>5 DEF Analyze
    <3>2. i \in 1..Len(runtime.engines)
      BY <2>3, <2>5
    <3> HIDE DEF i
    <3>3. /\ e \in EngineIds /\ (~runtime.engines[i].testing => e \in BuiltInIds)
          /\ SupportsPlatform(e, runtime.platform, runtime.engines[i].testing)
          /\ EligibleMinimal(e, hook.request)
          /\ ~runtime.pinned /\ e = "inline-static" =>
                "dynamic-memory" \in EffectiveConstraints(hook.request)
      BY <2>2, <3>2, ChoiceSound DEF i
    <3>4. hook'.testing = runtime.engines[i].testing
      <4>1. runtime.engines[i] \in Entries
        BY <2>2, <3>2, ElementOf DEF LiveRuntime
      <4>2. runtime.engines[i].testing \in BOOLEAN
        BY <4>1 DEF Entries
      <4> QED
        BY <2>5, <3>1, <4>2
    <3> HIDE DEF e
    <3>5. Chose(runtime', hook')
      BY <2>1, <3>1, <3>3, <3>4 DEF Chose
    <3> QED
      BY <3>1, <3>5 DEF RouteKept, Routed
  <2> QED
    BY <2>4, <2>5
<1>4. CASE Prepare
  <2>1. hook.stage = "analyzed" /\ runtime' = runtime
    BY <1>4 DEF Prepare
  <2>2. PICK st \in {"prepared", "failed"} :
           /\ hook' = [hook EXCEPT !.stage = st]
           /\ st = "prepared" => ScopeAccepts(ScopeStatus(hook.engine, hook.request))
    BY <1>4 DEF Prepare
  <2>3. /\ hook'.stage = st /\ hook'.request = hook.request /\ hook'.engine = hook.engine
        /\ hook'.testing = hook.testing /\ hook'.achieved = hook.achieved
    BY <1>shape, <2>1, <2>2, StageOnly DEF Analysed4
  <2>4. st = "prepared" =>
           ScopeAccepts(StatusIn(runtime.catalog, hook.engine, hook.request))
    BY <2>2, StatusSame
  <2> QED
    BY <1>same, <2>1, <2>2, <2>3, <2>4 DEF Chosen
<1>5. CASE Commit
  <2>1. /\ hook.stage = "prepared" /\ runtime' = runtime
        /\ hook'.request = hook.request /\ hook'.engine = hook.engine
        /\ hook'.testing = hook.testing /\ hook'.achieved = hook.achieved
    BY <1>5 DEF Commit
  <2> QED
    BY <1>k, <1>same, <2>1 DEF Chosen
<1>6. ASSUME NEW st \in Settled4, hook.stage \in Settled4, runtime' = runtime,
             hook' = [hook EXCEPT !.stage = st]
      PROVE  RouteKept'
  <2>1. /\ hook'.stage = st /\ hook'.request = hook.request /\ hook'.engine = hook.engine
        /\ hook'.testing = hook.testing /\ hook'.achieved = hook.achieved
    BY <1>shape, <1>6, StageOnly
  <2>2. hook.stage \in Late /\ hook.stage \in Chosen
    BY <1>6 DEF Settled4, Chosen
  <2> QED
    BY <1>k, <1>same, <1>6, <2>1, <2>2
<1>7. CASE Report
  BY <1>6, <1>7 DEF Report, Settled4
<1>8. CASE AppendProcess
  BY <1>6, <1>8 DEF AppendProcess, Settled4
<1>9. CASE ReleaseHook
  <2>1. hook'.stage = "none"
    BY <1>9 DEF ReleaseHook, NoHook
  <2> QED
    BY <1>none, <2>1 DEF Chosen
<1> QED
  BY <1>1, <1>2, <1>3, <1>4, <1>5, <1>7, <1>8, <1>9 DEF HookActs

-----------------------------------------------------------------------------
(* The ledgers of a step.                                                  *)

LEMMA BookedEmpty ==
    ASSUME NEW c \in Nat, NEW m
    PROVE  Booked(<<>>, c, m)
  BY DEF Booked, HoldsWhole

\* A new commit is in no ledger yet.
LEMMA BookedNext ==
    ASSUME NEW c, NEW m, Made(c, m), NEW piece \in Seq(Records),
           \A i \in 1..Len(piece) : piece[i].commit = c + 1
    PROVE  /\ Made(c + 1, Append(m, piece)) /\ Append(m, piece)[c + 1] = piece
           /\ \A records : Booked(records, c, m) =>
                 Booked(records, c + 1, Append(m, piece)) /\ Lacks(records, c + 1)
<1> DEFINE longer == Append(m, piece)
<1>1. /\ c \in Nat /\ m \in Seq(Seq(Records)) /\ Len(m) = c
      /\ \A n \in 1..c : \A i \in 1..Len(m[n]) : m[n][i].commit = n
  BY DEF Made
<1>2. /\ longer \in Seq(Seq(Records)) /\ Len(longer) = c + 1
      /\ \A n \in 1..c : longer[n] = m[n]
      /\ longer[c + 1] = piece
  <2> DEFINE T == Seq(Records)
  <2>1. m \in Seq(T) /\ piece \in T /\ Len(m) = c /\ c \in Nat
    BY <1>1
  <2> HIDE DEF T
  <2>2. /\ longer \in Seq(T) /\ Len(longer) = c + 1
        /\ \A n \in 1..c : longer[n] = m[n]
        /\ longer[c + 1] = piece
    BY <2>1
  <2> QED
    BY <2>2 DEF T
<1> HIDE DEF longer
<1>3. 1..(c + 1) = 1..c \cup {c + 1}
  BY <1>1
<1>4. Made(c + 1, longer)
  BY <1>1, <1>2, <1>3 DEF Made
<1>5. ASSUME NEW records, Booked(records, c, m)
      PROVE  Booked(records, c + 1, longer) /\ Lacks(records, c + 1)
  <2>1. /\ records \in Seq(Records)
        /\ \A i \in 1..Len(records) : records[i].commit <= c /\ records[i].commit \in Nat
        /\ \A n \in 1..c : HoldsWhole(records, m[n], n)
    <3>1. \A i \in 1..Len(records) : records[i] \in Records
      BY <1>5, ElementOf DEF Booked
    <3> QED
      BY <1>5, <3>1 DEF Booked, Records
  <2>2. Lacks(records, c + 1)
    BY <1>1, <2>1 DEF Lacks
  <2>3. HoldsWhole(records, longer[c + 1], c + 1)
    BY <2>1, <2>2 DEF HoldsWhole, Lacks
  <2>4. \A n \in 1..(c + 1) : HoldsWhole(records, longer[n], n)
    BY <1>2, <1>3, <2>1, <2>3
  <2>5. \A i \in 1..Len(records) : records[i].commit <= c + 1
    BY <1>1, <2>1
  <2> QED
    BY <2>1, <2>2, <2>4, <2>5 DEF Booked
<1> QED
  BY <1>2, <1>4, <1>5 DEF longer

\* Adding a whole commit, or a record of another runtime, keeps a ledger in order.
LEMMA BookedMore ==
    ASSUME NEW c, NEW m, Made(c, m), NEW records, Booked(records, c, m),
           NEW k \in 0..c, NEW piece \in Seq(Records),
           \A i \in 1..Len(piece) : piece[i].commit = k,
           k # 0 => piece = m[k] /\ Lacks(records, k)
    PROVE  Booked(records \o piece, c, m)
<1> DEFINE all == records \o piece
<1>1. /\ records \in Seq(Records) /\ c \in Nat
      /\ \A i \in 1..Len(records) : records[i].commit <= c
      /\ \A n \in 1..c : HoldsWhole(records, m[n], n) /\ m[n] \in Seq(Records)
  <2>1. c \in Nat /\ m \in Seq(Seq(Records)) /\ Len(m) = c
    BY DEF Made
  <2>2. \A n \in 1..c : m[n] \in Seq(Records)
    BY <2>1, ElementOf
  <2> QED
    BY <2>1, <2>2 DEF Booked
<1>2. /\ all \in Seq(Records) /\ Len(all) = Len(records) + Len(piece)
      /\ Len(records) \in Nat /\ Len(piece) \in Nat
      /\ \A i \in 1..(Len(records) + Len(piece)) :
            all[i] = IF i <= Len(records) THEN records[i] ELSE piece[i - Len(records)]
  BY <1>1
<1> HIDE DEF all
<1>3. ASSUME NEW i \in 1..Len(all) PROVE all[i].commit <= c
  <2>1. CASE i <= Len(records)
    BY <1>1, <1>2, <2>1
  <2>2. CASE i > Len(records)
    <3>1. i - Len(records) \in 1..Len(piece) /\ all[i] = piece[i - Len(records)]
      BY <1>2, <2>2
    <3> QED
      BY <1>1, <3>1
  <2> QED
    BY <1>2, <2>1, <2>2
<1>4. ASSUME NEW n \in 1..c PROVE HoldsWhole(all, m[n], n)
  <2>1. CASE n = k
    <3>1. piece = m[n] /\ \A i \in 1..Len(records) : records[i].commit # n
      BY <1>1, <2>1 DEF Lacks
    <3> QED
      BY <1>1, <2>1, <3>1, HeldAtEnd DEF all
  <2>2. CASE n # k
    <3>1. \A i \in 1..Len(piece) : piece[i].commit # n
      BY <2>2
    <3>2. HoldsWhole(records, m[n], n) /\ m[n] \in Seq(Records)
      BY <1>1
    <3> QED
      BY <1>1, <3>1, <3>2, HeldOn DEF all
  <2> QED
    BY <2>1, <2>2
<1> QED
  BY <1>2, <1>3, <1>4 DEF Booked, all

\* What the engine performed is among what it declares and what it hides.
LEMMA AttemptTyped ==
    ASSUME NEW e, NEW a \in Attempts(e)
    PROVE  /\ a.performed \subseteq Engine[e].commit \cup Extra(e)
           /\ a.mutation \in {"NONE", "COMPLETE", "PARTIAL", "UNKNOWN"}
<1> DEFINE all == Engine[e].commit \cup Extra(e)
<1>1. CASE a \in {[mutation |-> "NONE", performed |-> p, lost |-> {}] : p \in {{}, Extra(e)}}
  BY <1>1
<1>2. CASE a \in {[mutation |-> x, performed |-> all, lost |-> l] :
                    x \in {"COMPLETE", "PARTIAL", "UNKNOWN"},
                    l \in {{}} \cup {{y} : y \in all}}
  <2>1. PICK x \in {"COMPLETE", "PARTIAL", "UNKNOWN"} :
           \E l : a = [mutation |-> x, performed |-> all, lost |-> l]
    BY <1>2
  <2> QED
    BY <2>1
<1> QED
  BY <1>1, <1>2 DEF Attempts

\* The records of commit n for the effects P.
RecordsOf(P, n, st) ==
    LET recorded == SetToSeq(P)
    IN  [i \in 1..Len(recorded) |-> Record(n, recorded[i], st)]

\* There is one for each effect, of that commit.
LEMMA Recorded ==
    ASSUME NEW e \in EngineIds, NEW P \in SUBSET (Engine[e].commit \cup Extra(e)),
           NEW n \in Nat, NEW st \in {"VERIFIED", "COMMITTED"}
    PROVE  LET records == RecordsOf(P, n, st)
           IN  /\ records \in Seq(Records)
               /\ \A i \in 1..Len(records) : records[i].commit = n
               /\ EffectsIn(records) = P
<1> DEFINE s == SetToSeq(P)
           records == [i \in 1..Len(s) |-> Record(n, s[i], st)]
<1>r. RecordsOf(P, n, st) = records
  BY DEF RecordsOf
<1>1. IsFiniteSet(P)
  <2>1. IsFiniteSet(Engine[e].commit)
    BY EnginesDeclare
  <2>2. IsFiniteSet(Extra(e))
    BY RuntimeAssumption, FS_EmptySet DEF Extra
  <2>3. IsFiniteSet(Engine[e].commit \cup Extra(e))
    BY <2>1, <2>2, FS_Union
  <2> QED
    BY <2>3, FS_Subset
<1>2. s \in Seq(P) /\ {s[i] : i \in 1..Len(s)} = P
  BY <1>1, Serialized
<1> HIDE DEF s
<1>3. P \subseteq AllEffects
  BY DEF AllEffects
<1>4. \A i \in 1..Len(s) : /\ Record(n, s[i], st) \in Records
                           /\ Record(n, s[i], st).commit = n
                           /\ Record(n, s[i], st).effect = s[i]
  <2>1. \A i \in 1..Len(s) : s[i] \in AllEffects
    BY <1>2, <1>3
  <2> QED
    BY <2>1 DEF Record, Records
<1>5. Len(s) \in Nat
  BY <1>2
<1>6. records \in Seq(Records) /\ Len(records) = Len(s)
  BY <1>4, <1>5
<1>7. \A i \in 1..Len(s) : records[i].commit = n /\ records[i].effect = s[i]
  BY <1>4
<1>8. EffectsIn(records) = P
  <2> HIDE DEF records
  <2> QED
    BY <1>2, <1>6, <1>7 DEF EffectsIn
<1> QED
  BY <1>r, <1>6, <1>7, <1>8

\* What a commit writes and what its result says.
LEMMA CommitMakes ==
    ASSUME RouteKept, commits \in Nat, Commit
    PROVE  /\ ledger' \in Seq(Records)
           /\ \A i \in 1..Len(ledger') : ledger'[i].commit = commits + 1
           /\ made' = Append(made, ledger') /\ commits' = commits + 1
           /\ hook'.stage = "settled"
           /\ hook'.performed \subseteq hook'.observed
           /\ ~(hook'.performed \subseteq Engine[hook'.engine].commit) =>
                 hook'.outcome = "FAILED_UNKNOWN"
           /\ hook'.outcome = "ACTIVE" =>
                 EffectsIn(ledger') = hook'.performed
<1> DEFINE e == hook.engine
<1>1. e \in EngineIds
  BY DEF Commit, RouteKept, Routed, Chosen, Chose
<1>2. PICK a \in Attempts(e), verify \in {"UNAVAILABLE", "OK", "FAILED"} :
         LET seen == Observed(a.performed, a.lost)
             settled == SinkMutation(a.mutation, e, seen, a.lost)
             final == VerifiedMutation(settled, verify)
             state == IF settled = "COMPLETE" /\ verify = "OK"
                      THEN "VERIFIED" ELSE "COMMITTED"
             recorded == SetToSeq(a.performed \ a.lost)
             records == [i \in 1..Len(recorded) |->
                            Record(commits', recorded[i], state)]
         IN /\ ledger' = records
            /\ made' = Append(made, records)
            /\ hook' = [stage |-> "settled", request |-> hook.request, engine |-> e,
                        testing |-> hook.testing, achieved |-> hook.achieved,
                        unmet |-> hook.unmet, performed |-> a.performed,
                        observed |-> seen, outcome |-> OutcomeOf(final)]
  BY DEF Commit
<1> DEFINE settled == SinkMutation(a.mutation, e, a.performed, a.lost)
           final == VerifiedMutation(settled, verify)
           state == IF settled = "COMPLETE" /\ verify = "OK"
                    THEN "VERIFIED" ELSE "COMMITTED"
           P == a.performed \ a.lost
           records == RecordsOf(P, commits + 1, state)
<1>3. commits' = commits + 1
  BY DEF Commit
<1>4. /\ ledger' = records /\ made' = Append(made, records)
      /\ hook' = [stage |-> "settled", request |-> hook.request, engine |-> e,
                  testing |-> hook.testing, achieved |-> hook.achieved,
                  unmet |-> hook.unmet, performed |-> a.performed,
                  observed |-> a.performed, outcome |-> OutcomeOf(final)]
  BY <1>2, <1>3 DEF Observed, RecordsOf
<1>5. /\ a.performed \subseteq Engine[e].commit \cup Extra(e)
      /\ a.mutation \in {"NONE", "COMPLETE", "PARTIAL", "UNKNOWN"}
  BY AttemptTyped
<1>6. /\ records \in Seq(Records)
      /\ \A i \in 1..Len(records) : records[i].commit = commits + 1
      /\ EffectsIn(records) = P
  <2>1. P \in SUBSET (Engine[e].commit \cup Extra(e)) /\ commits + 1 \in Nat
        /\ state \in {"VERIFIED", "COMMITTED"}
    BY <1>5
  <2> DEFINE n == commits + 1
  <2>2. n \in Nat
    BY <2>1
  <2> HIDE DEF P, state, e, n
  <2>3. /\ RecordsOf(P, n, state) \in Seq(Records)
        /\ \A i \in 1..Len(RecordsOf(P, n, state)) : RecordsOf(P, n, state)[i].commit = n
        /\ EffectsIn(RecordsOf(P, n, state)) = P
    BY <1>1, <2>1, <2>2, Recorded
  <2> QED
    BY <2>3 DEF n
<1>7. ~(a.performed \subseteq Engine[e].commit) => OutcomeOf(final) = "FAILED_UNKNOWN"
  BY DEF SinkMutation, VerifiedMutation, OutcomeOf
<1>8. OutcomeOf(final) = "ACTIVE" => P = a.performed
  <2>1. OutcomeOf(final) = "ACTIVE" => final = "COMPLETE"
    <3> HIDE DEF final
    <3> QED
      BY DEF OutcomeOf
  <2>2. final = "COMPLETE" => settled = "COMPLETE"
    <3> HIDE DEF settled
    <3> QED
      BY DEF VerifiedMutation
  <2>3. settled = "COMPLETE" => a.lost = {}
    BY DEF SinkMutation
  <2> QED
    BY <2>1, <2>2, <2>3
<1> HIDE DEF records, final, P
<1>9. /\ hook'.stage = "settled" /\ hook'.engine = e /\ hook'.performed = a.performed
      /\ hook'.observed = a.performed /\ hook'.outcome = OutcomeOf(final)
  BY <1>4
<1> QED
  BY <1>3, <1>4, <1>6, <1>7, <1>8, <1>9

LEMMA LedgerStep ==
    ASSUME RuntimeKept, HookKept, RouteKept, LedgerKept, [Next]_vars
    PROVE  LedgerKept'
<1>k. /\ commits \in 0..MaxCommits /\ others \in 0..MaxOthers
      /\ Made(commits, made)
      /\ ledger \in Seq(Records) /\ report \in Seq(Records) /\ snapshot \in Seq(Records)
      /\ Booked(runtimeLedger, commits, made)
      /\ Booked(processLedger, commits, made)
      /\ Begins(snapshot, processLedger)
      /\ hook.stage \in Settled4 => commits > 0 /\ ledger = made[commits]
      /\ hook.stage = "settled" => Lacks(runtimeLedger, commits)
      /\ hook.stage \in {"settled", "reported"} => Lacks(processLedger, commits)
  BY DEF LedgerKept
<1>n. commits \in Nat /\ others \in Nat /\ MaxCommits \in Nat /\ MaxOthers \in Nat
      /\ processLedger \in Seq(Records) /\ runtimeLedger \in Seq(Records)
  BY <1>k, RuntimeAssumption DEF Booked
<1>own. ASSUME hook.stage \in Settled4
        PROVE  \A i \in 1..Len(ledger) : ledger[i].commit = commits
  <2>1. commits \in 1..commits /\ ledger = made[commits]
    BY <1>k, <1>n, <1>own
  <2> QED
    BY <1>k, <2>1 DEF Made
<1>same. ASSUME UNCHANGED ledgers, hook' = hook \/ hook'.stage \notin Settled4
         PROVE  LedgerKept'
  BY <1>k, <1>same DEF LedgerKept, ledgers, Settled4
<1>1. ASSUME NEW image \in Images, ImageLoads(image) PROVE LedgerKept'
  BY <1>1, <1>same DEF ImageLoads
<1>2. ASSUME NEW p \in Installable, ProviderAppears(p) PROVE LedgerKept'
  BY <1>2, <1>same DEF ProviderAppears
<1>3. ASSUME NEW config \in Configs, NEW memory \in CatalogMemory,
             CreateRuntime(config, memory)
      PROVE  LedgerKept'
  BY <1>3, <1>same DEF CreateRuntime
<1>4. ASSUME NEW e \in DOMAIN TestEngines, RegisterForTesting(e) PROVE LedgerKept'
  BY <1>4, <1>same DEF RegisterForTesting
<1>5. CASE ReleaseRuntime
  <2>1. /\ UNCHANGED <<hook, ledger, report, processLedger, snapshot, commits, others, made>>
        /\ runtimeLedger' = <<>> /\ hook.stage = "none"
    BY <1>5 DEF ReleaseRuntime
  <2>2. Booked(runtimeLedger', commits, made)
    BY <1>n, <2>1, BookedEmpty
  <2> QED
    BY <1>k, <2>1, <2>2 DEF LedgerKept, Settled4
<1>6. ASSUME NEW request \in Requests, AddHook(request) PROVE LedgerKept'
  <2>1. hook'.stage = "added" /\ UNCHANGED ledgers
    BY <1>6 DEF AddHook
  <2> QED
    BY <1>same, <2>1 DEF Settled4
<1>7. CASE Analyze
  <2>1. hook'.stage \in {"no-route", "analyzed"} /\ UNCHANGED ledgers
    BY <1>7 DEF Analyze
  <2> QED
    BY <1>same, <2>1 DEF Settled4
<1>8. CASE Prepare
  <2>1. hook.stage = "analyzed" /\ UNCHANGED ledgers
    BY <1>8 DEF Prepare
  <2>2. PICK st \in {"prepared", "failed"} : hook' = [hook EXCEPT !.stage = st]
    BY <1>8 DEF Prepare
  <2>3. hook'.stage = st
    BY <2>1, <2>2, StageOnly DEF HookKept, Analysed4
  <2> QED
    BY <1>same, <2>1, <2>3 DEF Settled4
<1>9. CASE Commit
  <2>1. /\ ledger' \in Seq(Records)
        /\ \A i \in 1..Len(ledger') : ledger'[i].commit = commits + 1
        /\ made' = Append(made, ledger') /\ commits' = commits + 1
        /\ hook'.stage = "settled"
    BY <1>9, <1>n, CommitMakes
  <2>2. UNCHANGED <<report, runtimeLedger, processLedger, snapshot, others>>
    BY <1>9 DEF Commit
  <2>3. commits' \in 0..MaxCommits /\ commits' > 0
    <3>1. commits < MaxCommits
      BY <1>9 DEF Commit, HookKept, Analysed4
    <3> QED
      BY <1>n, <2>1, <3>1
  <2>4. /\ Made(commits + 1, Append(made, ledger'))
        /\ Append(made, ledger')[commits + 1] = ledger'
        /\ \A records : Booked(records, commits, made) =>
              /\ Booked(records, commits + 1, Append(made, ledger'))
              /\ Lacks(records, commits + 1)
    BY <1>k, <2>1, BookedNext
  <2> QED
    BY <1>k, <2>1, <2>2, <2>3, <2>4 DEF LedgerKept
<1>10. CASE Report
  <2>1. /\ hook.stage = "settled"
        /\ UNCHANGED <<ledger, processLedger, snapshot, commits, others, made>>
    BY <1>10 DEF Report
  <2>2. hook.stage \in Settled4 /\ HookShape(hook)
    BY <2>1 DEF HookKept, Settled4
  <2>3. CASE /\ hook' = [hook EXCEPT !.stage = "unreported"]
             /\ UNCHANGED <<report, runtimeLedger>>
    <3>1. hook'.stage = "unreported"
      BY <2>2, <2>3, StageOnly
    <3> QED
      BY <1>k, <2>1, <2>2, <2>3, <3>1 DEF LedgerKept
  <2>4. ASSUME NEW fits \in BOOLEAN, hook' = [hook EXCEPT !.stage = "reported"],
               report' = ledger, runtimeLedger' = Appended(runtimeLedger, ledger, fits)
        PROVE  LedgerKept'
    <3>1. hook'.stage = "reported"
      BY <2>2, <2>4, StageOnly
    <3>2. Booked(runtimeLedger \o ledger, commits, made)
      <4>1. commits \in 0..commits /\ ledger = made[commits] /\ Lacks(runtimeLedger, commits)
        BY <1>k, <1>n, <2>1, <2>2
      <4> QED
        BY <1>k, <1>own, <2>2, <4>1, BookedMore
    <3>3. Booked(runtimeLedger', commits, made)
      BY <1>k, <2>4, <3>2 DEF Appended
    <3> QED
      BY <1>k, <2>1, <2>2, <2>4, <3>1, <3>3 DEF LedgerKept
  <2> QED
    BY <1>10, <2>3, <2>4 DEF Report
<1>11. CASE AppendProcess
  <2>1. /\ hook.stage = "reported" /\ hook' = [hook EXCEPT !.stage = "delivered"]
        /\ UNCHANGED <<ledger, report, runtimeLedger, snapshot, commits, others, made>>
    BY <1>11 DEF AppendProcess
  <2>2. PICK fits \in BOOLEAN : processLedger' = Appended(processLedger, ledger, fits)
    BY <1>11 DEF AppendProcess
  <2>3. hook.stage \in Settled4 /\ HookShape(hook)
    BY <2>1 DEF HookKept, Settled4
  <2>4. hook'.stage = "delivered"
    BY <2>1, <2>3, StageOnly
  <2>5. Booked(processLedger \o ledger, commits, made)
    <3>1. commits \in 0..commits /\ ledger = made[commits] /\ Lacks(processLedger, commits)
      BY <1>k, <1>n, <2>1, <2>3
    <3> QED
      BY <1>k, <1>own, <2>3, <3>1, BookedMore
  <2>6. Begins(snapshot, processLedger \o ledger)
    BY <1>k, <1>n, BeginsOn
  <2>7. Booked(processLedger', commits, made) /\ Begins(snapshot, processLedger')
    BY <1>k, <2>2, <2>5, <2>6 DEF Appended
  <2> QED
    BY <1>k, <2>1, <2>3, <2>4, <2>7 DEF LedgerKept
<1>12. CASE OtherCommits
  <2> DEFINE piece == <<Record(0, "import", "VERIFIED")>>
  <2>1. /\ others < MaxOthers /\ others' = others + 1 /\ commits > 0
        /\ processLedger' = processLedger \o piece
        /\ UNCHANGED <<hook, ledger, report, runtimeLedger, snapshot, commits, made>>
    BY <1>12 DEF OtherCommits, Appended
  <2>2. /\ piece \in Seq(Records)
        /\ \A i \in 1..Len(piece) : piece[i].commit = 0
    BY DEF Record, Records, AllEffects
  <2> HIDE DEF piece
  <2>3. Booked(processLedger', commits, made)
    <3>1. 0 \in 0..commits
      BY <1>n
    <3>2. Booked(processLedger \o piece, commits, made)
      BY <1>k, <2>2, <3>1, BookedMore
    <3> QED
      BY <2>1, <3>2
  <2>4. Begins(snapshot, processLedger')
    BY <1>k, <1>n, <2>1, <2>2, BeginsOn
  <2>5. hook.stage \in {"settled", "reported"} => Lacks(processLedger', commits)
    <3> SUFFICES ASSUME Lacks(processLedger, commits) PROVE Lacks(processLedger', commits)
      BY <1>k
    <3>1. /\ Len(processLedger') = Len(processLedger) + Len(piece)
          /\ Len(processLedger) \in Nat /\ Len(piece) \in Nat
          /\ \A i \in 1..(Len(processLedger) + Len(piece)) :
                processLedger'[i] = IF i <= Len(processLedger) THEN processLedger[i]
                                    ELSE piece[i - Len(processLedger)]
      BY <1>n, <2>1, <2>2
    <3>2. ASSUME NEW i \in 1..Len(processLedger') PROVE processLedger'[i].commit # commits
      <4>1. CASE i <= Len(processLedger)
        BY <3>1, <4>1 DEF Lacks
      <4>2. CASE i > Len(processLedger)
        <5>1. /\ i - Len(processLedger) \in 1..Len(piece)
              /\ processLedger'[i] = piece[i - Len(processLedger)]
          BY <3>1, <4>2
        <5>2. processLedger'[i].commit = 0
          BY <2>2, <5>1
        <5> QED
          BY <1>n, <2>1, <5>2
      <4> QED
        BY <3>1, <4>1, <4>2
    <3> QED
      BY <3>2 DEF Lacks
  <2>6. others' \in 0..MaxOthers
    BY <1>n, <2>1
  <2> QED
    BY <1>k, <2>1, <2>3, <2>4, <2>5, <2>6 DEF LedgerKept
<1>13. CASE TakeSnapshot
  <2>1. /\ snapshot' = processLedger
        /\ UNCHANGED <<hook, ledger, report, runtimeLedger, processLedger, commits,
                       others, made>>
    BY <1>13 DEF TakeSnapshot
  <2>2. Begins(snapshot', processLedger)
    BY <1>n, <2>1 DEF Begins
  <2> QED
    BY <1>k, <1>n, <2>1, <2>2 DEF LedgerKept
<1>14. CASE ReleaseHook
  <2>1. /\ hook' = NoHook /\ ledger' = <<>> /\ report' = <<>>
        /\ UNCHANGED <<runtimeLedger, processLedger, snapshot, commits, others, made>>
    BY <1>14 DEF ReleaseHook
  <2>2. hook'.stage = "none"
    BY <2>1 DEF NoHook
  <2> QED
    BY <1>k, <2>1, <2>2 DEF LedgerKept, Settled4
<1>15. CASE UNCHANGED vars
  BY <1>15, <1>same DEF vars, ledgers
<1> QED
  BY <1>1, <1>2, <1>3, <1>4, <1>5, <1>6, <1>7, <1>8, <1>9, <1>10, <1>11, <1>12, <1>13,
     <1>14, <1>15 DEF Next

LEMMA EffectStep ==
    ASSUME RuntimeKept, HookKept, RouteKept, LedgerKept, EffectsKept, [Next]_vars
    PROVE  EffectsKept'
<1>k. /\ hook.stage \in Settled4 =>
            /\ hook.performed \subseteq hook.observed
            /\ ~(hook.performed \subseteq Engine[hook.engine].commit) =>
                  hook.outcome = "FAILED_UNKNOWN"
            /\ hook.outcome = "ACTIVE" => EffectsIn(ledger) = hook.performed
      /\ hook.stage \in {"reported", "delivered"} => report = ledger
  BY DEF EffectsKept
<1>none. ASSUME hook'.stage \notin Settled4 PROVE EffectsKept'
  BY <1>none DEF EffectsKept, Settled4
<1>1. CASE ~HookActs
  <2>1. hook' = hook /\ ledger' = ledger /\ report' = report
    BY <1>1, Bystanders
  <2> QED
    BY <1>k, <2>1 DEF EffectsKept
<1>2. ASSUME NEW request \in Requests, AddHook(request) PROVE EffectsKept'
  <2>1. hook'.stage = "added"
    BY <1>2 DEF AddHook
  <2> QED
    BY <1>none, <2>1 DEF Settled4
<1>3. CASE Analyze
  <2>1. hook'.stage \in {"no-route", "analyzed"}
    BY <1>3 DEF Analyze
  <2> QED
    BY <1>none, <2>1 DEF Settled4
<1>4. CASE Prepare
  <2>1. PICK st \in {"prepared", "failed"} : hook' = [hook EXCEPT !.stage = st]
    BY <1>4 DEF Prepare
  <2>2. hook'.stage = st
    <3>1. hook.stage \in Analysed4 /\ HookShape(hook)
      BY <1>4 DEF Prepare, HookKept, Analysed4
    <3> QED
      BY <2>1, <3>1, StageOnly
  <2> QED
    BY <1>none, <2>2 DEF Settled4
<1>5. CASE Commit
  <2>1. commits \in Nat
    BY DEF LedgerKept, Made
  <2> QED
    BY <1>5, <2>1, CommitMakes DEF EffectsKept
<1>6. ASSUME NEW st \in Settled4, hook.stage \in Settled4, ledger' = ledger,
             hook' = [hook EXCEPT !.stage = st],
             st \in {"reported", "delivered"} => report' = ledger
      PROVE  EffectsKept'
  <2>1. /\ hook'.stage = st /\ hook'.engine = hook.engine
        /\ hook'.performed = hook.performed /\ hook'.observed = hook.observed
        /\ hook'.outcome = hook.outcome
    BY <1>6, StageOnly DEF HookKept
  <2> QED
    BY <1>k, <1>6, <2>1 DEF EffectsKept
<1>7. CASE Report
  BY <1>6, <1>7 DEF Report, Settled4
<1>8. CASE AppendProcess
  BY <1>k, <1>6, <1>8 DEF AppendProcess, Settled4
<1>9. CASE ReleaseHook
  <2>1. hook'.stage = "none"
    BY <1>9 DEF ReleaseHook, NoHook
  <2> QED
    BY <1>none, <2>1 DEF Settled4
<1> QED
  BY <1>1, <1>2, <1>3, <1>4, <1>5, <1>7, <1>8, <1>9 DEF HookActs

LEMMA StepKept == IInv /\ [Next]_vars => IInv'
  BY RuntimeStep, HookStep, RouteStep, LedgerStep, EffectStep DEF IInv

\* The invariant holds in every state of every behaviour.
THEOREM Inductive == Spec => []IInv
  BY InitKept, StepKept, PTL DEF Spec

-----------------------------------------------------------------------------
(* What follows.                                                           *)

\* The variables have their types, and no runtime ever holds more engines than
\* hk_runtime_enumerate_backends has room for.
THEOREM TypeCorrect == Spec => []TypeOK
<1>1. ASSUME IInv PROVE TypeOK
  <2> USE <1>1 DEF IInv
  <2>1. loaded \in Seq(Images) /\ available \subseteq Installable
    BY DEF RuntimeKept
  <2>2. ASSUME runtime.alive
        PROVE  /\ Len(runtime.engines) <= MaxEngines
               /\ \A i \in 1..Len(runtime.engines) : runtime.engines[i].id \in EngineIds
               /\ ToSet(runtime.catalog) \subseteq ToSet(loaded)
    <3>1. LiveRuntime(runtime) /\ ToSet(runtime.catalog) \subseteq ToSet(loaded)
      BY <2>2, AliveOrNot
    <3>2. \A i \in 1..Len(runtime.engines) : runtime.engines[i] \in Entries
      BY <3>1, ElementOf DEF LiveRuntime
    <3> QED
      BY <3>1, <3>2 DEF LiveRuntime, Entries
  <2>3. /\ hook.stage \in Chosen \cup {"none", "added", "no-route"}
        /\ hook.stage # "none" => hook.request \in Requests
    <3>1. HookShape(hook) /\ (hook.stage # "none" => hook.request \in Requests)
      BY DEF HookKept
    <3>2. hook.stage \in {"none", "added"} \cup Analysed4 \cup Settled4
      BY <3>1 DEF HookShape, NoHook
    <3> QED
      BY <3>1, <3>2 DEF Analysed4, Settled4, Chosen
  <2>4. hook.stage # "none" => runtime.alive
    BY AliveOrNot
  <2>5. Routed => hook.engine \in EngineIds
    BY DEF RouteKept, Chose
  <2>6. commits \in 0..MaxCommits /\ others \in 0..MaxOthers /\ Len(made) = commits
    BY DEF LedgerKept, Made
  <2> QED
    BY <2>1, <2>2, <2>3, <2>4, <2>5, <2>6 DEF TypeOK
<1> QED
  BY <1>1, Inductive, PTL

\* The runtime's and the process's ledger hold every commit whole or not at all,
\* whatever fails on the way and whoever else commits, and what a host copied
\* stays the beginning of the process ledger.
THEOREM LedgersAlwaysStand == Spec => []LedgersStand
<1>1. ASSUME IInv PROVE LedgersStand
  <2>1. /\ Booked(runtimeLedger, commits, made) /\ Booked(processLedger, commits, made)
        /\ Begins(snapshot, processLedger) /\ snapshot \in Seq(Records)
    BY <1>1 DEF IInv, LedgerKept
  <2>2. /\ Len(snapshot) <= Len(processLedger)
        /\ SubSeq(processLedger, 1, Len(snapshot)) = snapshot
    BY <2>1, BeginsPrefix DEF Booked
  <2> QED
    BY <2>1, <2>2 DEF LedgersStand, Booked
<1> QED
  BY <1>1, Inductive, PTL

\* A result never hides an effect, with or without memory for its artifact.
THEOREM EffectsAlwaysReported == Spec => []EffectsReported
<1>1. ASSUME IInv PROVE EffectsReported
  <2>1. EffectsKept /\ (Settled <=> hook.stage \in Settled4)
    BY <1>1 DEF IInv, Settled, Settled4
  <2>2. report \in Seq(Records)
    BY <1>1 DEF IInv, LedgerKept
  <2>3. {record.effect : record \in ToSet(report)} = EffectsIn(report)
    <3>1. ToSet(report) = {report[i] : i \in 1..Len(report)}
      BY <2>2, Elements
    <3> QED
      BY <3>1 DEF EffectsIn
  <2> QED
    BY <2>1, <2>3 DEF EffectsReported, EffectsKept, Settled4
<1> QED
  BY <1>1, Inductive, PTL

\* hk_effect_forbid_bit finds the ban that is there to prevent an effect.
LEMMA ForbidBitsPrevent ==
    \A ban \in DOMAIN Prevented : ForbidBit(Prevented[ban]) = ban
<1> SUFFICES ASSUME NEW ban \in DOMAIN Prevented PROVE ForbidBit(Prevented[ban]) = ban
  OBVIOUS
<1> DEFINE bans == {"text-patch", "import-patch", "metadata-change", "dynamic-memory",
                    "static-continuation", "provider-activation", "provider-image",
                    "unknown-commit-effects"}
<1>b. ban \in bans /\ DOMAIN Prevented = bans
  BY DEF Prevented
<1>1. CASE ban = "text-patch"
  <2>1. Prevented[ban] = "text"
    BY <1>b, <1>1 DEF Prevented
  <2> QED
    BY <1>1, <2>1 DEF ForbidBit
<1>2. CASE ban = "import-patch"
  <2>1. Prevented[ban] = "import"
    BY <1>b, <1>2 DEF Prevented
  <2> QED
    BY <1>2, <2>1 DEF ForbidBit
<1>3. CASE ban = "metadata-change"
  <2>1. Prevented[ban] = "metadata"
    BY <1>b, <1>3 DEF Prevented
  <2> QED
    BY <1>3, <2>1 DEF ForbidBit
<1>4. CASE ban = "dynamic-memory"
  <2>1. Prevented[ban] = "allocation"
    BY <1>b, <1>4 DEF Prevented
  <2> QED
    BY <1>4, <2>1 DEF ForbidBit
<1>5. CASE ban = "static-continuation"
  <2>1. Prevented[ban] = "static"
    BY <1>b, <1>5 DEF Prevented
  <2> QED
    BY <1>5, <2>1 DEF ForbidBit
<1>6. CASE ban = "provider-activation"
  <2>1. Prevented[ban] = "activation"
    BY <1>b, <1>6 DEF Prevented
  <2> QED
    BY <1>6, <2>1 DEF ForbidBit
<1>7. CASE ban = "provider-image"
  <2>1. Prevented[ban] = "image"
    BY <1>b, <1>7 DEF Prevented
  <2> QED
    BY <1>7, <2>1 DEF ForbidBit
<1>8. CASE ban = "unknown-commit-effects"
  <2>1. Prevented[ban] = "unknown"
    BY <1>b, <1>8 DEF Prevented
  <2> QED
    BY <1>8, <2>1 DEF ForbidBit
<1> QED
  BY <1>b, <1>1, <1>2, <1>3, <1>4, <1>5, <1>6, <1>7, <1>8

\* On a device no hook is routed to an engine that is not certified for it, the
\* automatic order spends no static continuation on a request that allows dynamic
\* memory, and no ACTIVE hook has done what its request forbids.
THEOREM RoutesAlwaysAdmissible == Spec => []RoutesAdmissible
<1>1. ASSUME IInv PROVE RoutesAdmissible
  <2>r. Routed => /\ Chose(runtime, hook) /\ LiveRuntime(runtime)
    <3>1. Routed => Chose(runtime, hook)
      BY <1>1 DEF IInv, RouteKept
    <3>2. Routed => LiveRuntime(runtime)
      BY <1>1, AliveOrNot DEF IInv, Routed, Chosen
    <3> QED
      BY <3>1, <3>2
  <2>1. ASSUME Routed, ~hook.testing, runtime.platform.os = "ios"
        PROVE  /\ runtime.platform.arch \in Engine[hook.engine].certified
               /\ Parsed(runtime.platform.version) # 0
                     => AtLeast(runtime.platform.version, Floor(hook.engine))
    <3>1. /\ hook.engine \in BuiltInIds
          /\ SupportsPlatform(hook.engine, runtime.platform, hook.testing)
          /\ runtime.platform.version \in Seq(Nat)
          /\ runtime.platform.arch \in AArch64 \cup Arm32
      BY <2>1, <2>r DEF Chose, LiveRuntime
    <3>2. /\ Architecture(runtime.platform) = runtime.platform.arch
          /\ Architecture(runtime.platform) # "host"
      BY <2>1, <3>1 DEF Architecture, AArch64, Arm32
    <3>3. Engine[hook.engine].floor \in {90000, 150000}
      BY <3>1, LibraryDeclares DEF Declares
    <3>4. /\ runtime.platform.arch \in Engine[hook.engine].certified
          /\ PlatformVersion(runtime.platform.version) >= Engine[hook.engine].floor
      BY <2>1, <3>1, <3>2, <3>3 DEF SupportsPlatform
    <3>5. ASSUME Parsed(runtime.platform.version) # 0
          PROVE  AtLeast(runtime.platform.version, Floor(hook.engine))
      <4>1. Parsed(runtime.platform.version) >= Engine[hook.engine].floor
        BY <3>4, <3>5 DEF PlatformVersion
      <4> QED
        BY <3>1, <3>3, <3>5, <4>1, VersionsCompare
    <3> QED
      BY <3>4, <3>5
  <2>2. ASSUME Routed, ~runtime.pinned, hook.engine = "inline-static"
        PROVE  \/ hook.request.policy = "no-dynamic-memory"
               \/ "dynamic-memory" \in hook.request.forbids
    BY <2>2, <2>r DEF Chose, EffectiveConstraints
  <2>3. ASSUME Settled, hook.outcome = "ACTIVE"
        PROVE  /\ \A ban \in hook.request.forbids \cap DOMAIN Prevented :
                     Prevented[ban] \notin hook.performed
               /\ hook.request.policy = "no-dynamic-memory"
                     => "allocation" \notin hook.performed
    <3>1. Routed /\ hook.stage \in Settled4
      BY <2>3 DEF Routed, Settled, Chosen, Settled4
    <3>2. hook.performed \subseteq Engine[hook.engine].commit
      BY <1>1, <2>3, <3>1 DEF IInv, EffectsKept
    <3>3. \A effect \in hook.performed :
             ForbidBit(effect) \notin EffectiveConstraints(hook.request)
      BY <2>r, <3>1, <3>2 DEF Chose, EligibleMinimal
    <3>4. \A ban \in DOMAIN Prevented : ForbidBit(Prevented[ban]) = ban
      BY ForbidBitsPrevent
    <3>5. ForbidBit("allocation") = "dynamic-memory"
      BY DEF ForbidBit
    <3>6. hook.request.forbids \subseteq EffectiveConstraints(hook.request)
      BY DEF EffectiveConstraints
    <3>7. hook.request.policy = "no-dynamic-memory" =>
             "dynamic-memory" \in EffectiveConstraints(hook.request)
      BY DEF EffectiveConstraints
    <3> QED
      BY <3>3, <3>4, <3>5, <3>6, <3>7
  <2> QED
    BY <2>1, <2>2, <2>3 DEF RoutesAdmissible
<1> QED
  BY <1>1, Inductive, PTL

\* The engine that the router ends with beats every other one that is eligible,
\* and a request without a route is one that no engine is eligible for.
THEOREM RouteAlwaysBest == Spec => RouteIsBest
<1> DEFINE Best ==
      AnalysisEnds =>
        IF Candidates(hook.request) = {} THEN hook'.stage = "no-route"
        ELSE \E i \in Candidates(hook.request) :
                /\ runtime.engines[i].id = hook'.engine
                /\ \A j \in Candidates(hook.request) \ {i} : Beats(hook.request, i, j)
<1>1. ASSUME IInv, [Next]_vars, AnalysisEnds PROVE Best
  <2> DEFINE q == hook.request
             i == Route(runtime, available, q)
  <2>1. hook.stage = "added" /\ hook'.stage # "added"
    BY <1>1 DEF AnalysisEnds
  <2>2. Analyze
    <3>1. HookActs
      BY <1>1, <2>1, Bystanders DEF IInv
    <3> QED
      BY <2>1, <3>1 DEF HookActs, AddHook, Prepare, Commit, Report, AppendProcess,
                        ReleaseHook
  <2>3. Tabled(runtime)
    <3>1. LiveRuntime(runtime)
      BY <1>1, <2>1, AliveOrNot DEF IInv
    <3> QED
      BY <3>1 DEF LiveRuntime, Tabled, Entries
  <2>4. BestOf(runtime, available, q, Len(runtime.engines), i)
    BY <2>3, RouteBest
  <2>5. /\ i = 0 => hook'.stage = "no-route"
        /\ i # 0 => hook'.engine = runtime.engines[i].id
    BY <2>2 DEF Analyze
  <2> HIDE DEF i
  <2>6. Candidates(q) = {j \in 1..Len(runtime.engines) : Eligible(runtime, available, q, j)}
    BY DEF Candidates
  <2>7. CASE i = 0
    <3>1. Candidates(q) = {}
      BY <2>4, <2>6, <2>7 DEF BestOf
    <3> QED
      BY <2>5, <2>7, <3>1
  <2>8. CASE i # 0
    <3>1. i \in Candidates(q)
      BY <2>3, <2>4, <2>6, <2>8 DEF BestOf, Tabled
    <3>2. \A j \in Candidates(q) \ {i} : Better(runtime, q, i, j)
      BY <2>4, <2>6, <2>8 DEF BestOf
    <3>3. \A j : Better(runtime, q, i, j) => Beats(q, i, j)
      BY DEF Better, Beats
    <3> QED
      BY <2>5, <2>8, <3>1, <3>2, <3>3
  <2> QED
    BY <2>7, <2>8
<1>2. IInv /\ [Next]_vars => [Best]_vars
  BY <1>1
<1>3. Spec => [][Best]_vars
  BY <1>2, Inductive, PTL DEF Spec
<1> QED
  BY <1>3 DEF RouteIsBest

\* A scope check that ends well, on a catalog that is not empty, found an image
\* that the selector names, of the right build, with the address in it.
LEMMA ScopeProved ==
    ASSUME NEW catalog, catalog # <<>>, NEW s, NEW uuid, NEW address,
           ScopeAccepts(ScopeCheck(catalog, s, uuid, address))
    PROVE  \E image \in ToSet(catalog) :
              Names(s, image) /\ RightBuild(image, uuid) /\ Holds(image, address)
<1> DEFINE named == CatalogMatch(catalog, s)
           right == {image \in named : RightBuild(image, uuid)}
<1>1. \E image \in right : Holds(image, address)
  <2> SUFFICES ASSUME ~(\E image \in right : Holds(image, address)) PROVE FALSE
    OBVIOUS
  <2>1. ScopeCheck(catalog, s, uuid, address) \in
           {"NO_MATCH", "UUID_MISMATCH", "UNREADABLE_IMAGE", "ADDRESS_OUTSIDE"}
    BY DEF ScopeCheck
  <2> QED
    BY <2>1 DEF ScopeAccepts
<1>2. PICK image \in right : Holds(image, address)
  BY <1>1
<1>3. image \in ToSet(catalog) /\ EntryMatches(image, s) /\ RightBuild(image, uuid)
  BY DEF CatalogMatch
<1> QED
  BY <1>2, <1>3, MatchesNamed

LEMMA HeaderProved ==
    ASSUME NEW catalog, catalog # <<>>, NEW s, NEW header,
           ScopeAccepts(ScopeCheckHeader(catalog, s, "any", header))
    PROVE  \E image \in ToSet(catalog) : Names(s, image) /\ image.header = header
<1> DEFINE named == CatalogMatch(catalog, s)
           right == {image \in named : RightBuild(image, "any")}
<1>1. \E image \in right : image.header = header
  <2> SUFFICES ASSUME ~(\E image \in right : image.header = header) PROVE FALSE
    OBVIOUS
  <2>1. ScopeCheckHeader(catalog, s, "any", header) \in {"NO_MATCH", "UUID_MISMATCH"}
    BY DEF ScopeCheckHeader
  <2> QED
    BY <2>1 DEF ScopeAccepts
<1>2. PICK image \in right : image.header = header
  BY <1>1
<1>3. image \in ToSet(catalog) /\ EntryMatches(image, s)
  BY DEF CatalogMatch
<1> QED
  BY <1>2, <1>3, MatchesNamed

\* A prepared hook that claims an exact image scope has its address in a loaded
\* image that the request names, of the build that it expects.
THEOREM ClaimedScopeAlwaysHolds == Spec => []ClaimedScopeHolds
<1>1. ASSUME IInv PROVE ClaimedScopeHolds
  <2> SUFFICES ASSUME hook.stage \in Chosen \ {"analyzed", "failed"}
               PROVE  /\ "scope" \in hook.achieved /\ ~hook.testing =>
                            \E image \in ToSet(loaded) :
                               /\ Names(hook.request.selector, image)
                               /\ image.bounded
                               /\ ResolvedAddress(hook.request) \in image.first..(image.last - 1)
                               /\ hook.request.kind = "address" /\ hook.request.uuid # "any"
                                     => image.uuid = hook.request.uuid
                      /\ hook.engine = OneImageRebind /\ runtime.catalog # <<>> =>
                            \E image \in ToSet(loaded) : /\ Names(hook.request.caller, image)
                                                         /\ image.header = RebindHeader
    BY DEF ClaimedScopeHolds
  <2> DEFINE q == hook.request
             e == hook.engine
             catalog == runtime.catalog
  <2>1. /\ Chose(runtime, hook) /\ ScopeAccepts(StatusIn(catalog, e, q))
    BY <1>1 DEF IInv, RouteKept, Routed
  <2>2. q \in Requests
    BY <1>1 DEF IInv, HookKept, Chosen
  <2>3. LiveRuntime(runtime) /\ ToSet(catalog) \subseteq ToSet(loaded)
    BY <1>1, AliveOrNot DEF IInv, Chosen
  <2>4. \A image \in ToSet(catalog) : image \in Images
    BY <2>3, Elements DEF LiveRuntime
  <2>5. q.address \in Nat /\ \A image \in Images : image.first \in Nat /\ image.last \in Nat
    BY <2>2, RuntimeAssumption
  <2>6. ASSUME "scope" \in hook.achieved, ~hook.testing
        PROVE  \E image \in ToSet(loaded) :
                  /\ Names(q.selector, image) /\ image.bounded
                  /\ ResolvedAddress(q) \in image.first..(image.last - 1)
                  /\ q.kind = "address" /\ q.uuid # "any" => image.uuid = q.uuid
    <3>1. e \in BuiltInIds /\ Declares(Engine[e], ScopedKinds(e))
      BY <2>1, <2>6, LibraryDeclares DEF Chose
    <3>2. /\ "scope" \in Engine[e].reach /\ q.kind \in Engine[e].scoped
          /\ catalog # <<>> /\ (q.kind = "memory" => q.relative)
      BY <2>1, <2>6 DEF Chose, EffectiveReach
    <3>3. q.kind \in ScopedKinds(e)
      BY <3>1, <3>2 DEF Declares
    <3>4. CASE e = "memory"
      <4>1. q.kind = "memory" /\ q.relative
        BY <3>2, <3>3, <3>4 DEF ScopedKinds
      <4>2. StatusIn(catalog, e, q) =
               ScopeCheck(catalog, q.selector, "any", ResolvedAddress(q))
        BY <3>4, <4>1, RuntimeAssumption DEF StatusIn, BuiltInIds
      <4>3. PICK image \in ToSet(catalog) :
               Names(q.selector, image) /\ Holds(image, ResolvedAddress(q))
        BY <2>1, <3>2, <4>2, ScopeProved
      <4>4. ResolvedAddress(q) \in Nat
        BY <2>5 DEF ResolvedAddress, ImageBase
      <4>5. image.bounded /\ ResolvedAddress(q) \in image.first..(image.last - 1)
        BY <2>4, <2>5, <4>3, <4>4 DEF Holds
      <4> QED
        BY <2>3, <4>1, <4>3, <4>5
    <3>5. CASE e \in {"inline-terminal", "inline-relocating", "inline-static"}
      <4>1. q.kind = "address"
        BY <3>3, <3>5 DEF ScopedKinds
      <4>2. StatusIn(catalog, e, q) = ScopeCheck(catalog, q.selector, q.uuid, q.address)
        BY <3>5, RuntimeAssumption DEF StatusIn, BuiltInIds
      <4>3. PICK image \in ToSet(catalog) :
               /\ Names(q.selector, image) /\ RightBuild(image, q.uuid)
               /\ Holds(image, q.address)
        BY <2>1, <3>2, <4>2, ScopeProved
      <4>4. ResolvedAddress(q) = q.address
        BY <4>1 DEF ResolvedAddress
      <4>5. image.bounded /\ q.address \in image.first..(image.last - 1)
        BY <2>4, <2>5, <4>3 DEF Holds
      <4>6. q.uuid # "any" => image.uuid = q.uuid
        BY <4>3 DEF RightBuild
      <4> QED
        BY <2>3, <4>3, <4>4, <4>5, <4>6
    <3> QED
      BY <3>3, <3>4, <3>5 DEF ScopedKinds
  <2>7. ASSUME e = OneImageRebind, catalog # <<>>
        PROVE  \E image \in ToSet(loaded) : /\ Names(q.caller, image)
                                            /\ image.header = RebindHeader
    <3>1. StatusIn(catalog, e, q) = ScopeCheckHeader(catalog, q.caller, "any", RebindHeader)
      BY <2>7, RuntimeAssumption DEF StatusIn, BuiltInIds
    <3>2. PICK image \in ToSet(catalog) : Names(q.caller, image) /\ image.header = RebindHeader
      BY <2>1, <2>7, <3>1, HeaderProved
    <3> QED
      BY <2>3, <3>2
  <2> QED
    BY <2>6, <2>7
<1> QED
  BY <1>1, Inductive, PTL

-----------------------------------------------------------------------------
(* The ownership keys of selectors.                                        *)

\* What is below a selector is the selector and what is below its members.
LEMMA BelowUnfolds ==
    ASSUME NEW s \in Selectors
    PROVE  /\ Below[s] \in SUBSET Selectors
           /\ \A t \in Below[s] : t = s \/ \E m \in ToSet(Members[s]) : t \in Below[m]
<1> DEFINE M == ToSet(Members[s])
           S == {t \in Selectors : t = s \/ \E m \in M : t \in Below[m]}
<1>1. Below[s] \in SUBSET Selectors
  BY DEF Below
<1>2. \A m \in M : m \in Selectors /\ m \in Below[m]
  BY BelowClosed
<1>3. ASSUME NEW u \in S, NEW v \in ToSet(Members[u]) PROVE v \in S
  <2>1. v \in Selectors
    BY <1>3, BelowClosed
  <2>2. CASE u = s
    BY <1>2, <1>3, <2>1, <2>2
  <2>3. ASSUME NEW m \in M, u \in Below[m] PROVE v \in Below[m]
    <3>1. m \in Selectors
      BY <1>2
    <3>2. ASSUME NEW R \in SUBSET Selectors, m \in R,
                 \A x \in R : ToSet(Members[x]) \subseteq R
          PROVE  v \in R
      <4>1. u \in R
        BY <2>3, <3>1, <3>2 DEF Below
      <4> QED
        BY <1>3, <3>2, <4>1
    <3> QED
      BY <2>1, <3>1, <3>2 DEF Below
  <2> QED
    BY <2>1, <2>2, <2>3
<1>4. S \in SUBSET Selectors /\ s \in S /\ \A u \in S : ToSet(Members[u]) \subseteq S
  BY <1>3
<1>5. ASSUME NEW t \in Below[s] PROVE t \in S
  <2> HIDE DEF S
  <2> QED
    BY <1>4, <1>5 DEF Below
<1> QED
  BY <1>1, <1>5

\* The keys of the leaves below a selector.
Leaves(s) == {LeafKey(x) : x \in {y \in Below[s] : ~IsSet(y)}}

LEMMA LeavesUnfold ==
    ASSUME NEW s \in Selectors
    PROVE  /\ ~IsSet(s) => Leaves(s) = {LeafKey(s)} /\ Below[s] = {s}
           /\ IsSet(s) => Leaves(s) = UNION {Leaves(m) : m \in ToSet(Members[s])}
<1>1. ASSUME ~IsSet(s) PROVE Leaves(s) = {LeafKey(s)} /\ Below[s] = {s}
  <2>1. Members[s] = <<>>
    BY <1>1, SelectorsAssumption DEF IsSet
  <2>2. ToSet(Members[s]) = {}
    BY <2>1 DEF ToSet
  <2>3. Below[s] = {s}
    BY <2>2, BelowClosed, BelowUnfolds
  <2> QED
    BY <1>1, <2>3 DEF Leaves
<1>2. ASSUME IsSet(s)
      PROVE  Leaves(s) = UNION {Leaves(m) : m \in ToSet(Members[s])}
  <2>1. ASSUME NEW k \in Leaves(s)
        PROVE  \E m \in ToSet(Members[s]) : k \in Leaves(m)
    <3>1. PICK x \in Below[s] : ~IsSet(x) /\ k = LeafKey(x)
      BY <2>1 DEF Leaves
    <3>2. PICK m \in ToSet(Members[s]) : x \in Below[m]
      BY <1>2, <3>1, BelowUnfolds
    <3> QED
      BY <3>1, <3>2 DEF Leaves
  <2>2. ASSUME NEW m \in ToSet(Members[s]), NEW k \in Leaves(m) PROVE k \in Leaves(s)
    <3>1. PICK x \in Below[m] : ~IsSet(x) /\ k = LeafKey(x)
      BY <2>2 DEF Leaves
    <3>2. x \in Below[s]
      BY <3>1, BelowClosed
    <3> QED
      BY <3>1, <3>2 DEF Leaves
  <2> QED
    BY <2>1, <2>2
<1> QED
  BY <1>1, <1>2

\* w holds the selectors that hk_image_selector_copy_owned copies with each number
\* of levels left.
Copies(w) ==
    /\ w[0] = {s \in Selectors : Members[s] = <<>>}
    /\ \A r \in 1..MaxDepth :
          w[r] = {s \in Selectors : ToSet(Members[s]) \subseteq w[r - 1]}
    /\ Copied = w[MaxDepth]

LEMMA CopiesRuns == \E w : Copies(w)
<1> DEFINE N == MaxDepth
           S == SUBSET Selectors
           base == {s \in Selectors : Members[s] = <<>>}
           Deeper(W) == {s \in Selectors : ToSet(Members[s]) \subseteq W}
           Body(w) == [r \in 0..N |->
                         {s \in Selectors : IF r = 0 THEN Members[s] = <<>>
                                            ELSE ToSet(Members[s]) \subseteq w[r - 1]}]
           step == [n \in 1..N |-> [W \in S |-> Deeper(W)]]
<1>1. Copied = (CHOOSE w : w = Body(w))[N]
  BY DEF Copied
<1>n. N \in Nat
  BY SelectorsAssumption
<1>2. PICK w : Runs(N, S, base, step, w)
  <2>1. step \in [1..N -> [S -> S]] /\ base \in S
    OBVIOUS
  <2> HIDE DEF step, N, S, base
  <2> QED
    BY <1>n, <2>1, LoopExists
<1>3. w = Body(w)
  <2>1. ASSUME NEW n \in 1..N PROVE w[n] = Deeper(w[n - 1])
    <3>1. w[n - 1] \in S
      BY <1>n, <1>2 DEF Runs
    <3>2. step[n] = [W \in S |-> Deeper(W)]
      OBVIOUS
    <3> QED
      BY <1>2, <3>1, <3>2 DEF Runs
  <2>2. w[0] = base /\ w = [n \in 0..N |-> w[n]]
    BY <1>2 DEF Runs
  <2>3. ASSUME NEW n \in 0..N PROVE w[n] = Body(w)[n]
    <3>1. CASE n = 0
      BY <2>2, <3>1
    <3>2. CASE n # 0
      <4>1. n \in 1..N
        BY <1>n, <3>2
      <4> QED
        BY <2>1, <3>2, <4>1
    <3> QED
      BY <3>1, <3>2
  <2> QED
    BY <2>2, <2>3
<1> DEFINE c == CHOOSE g : g = Body(g)
<1>4. c = Body(c)
  BY <1>3
<1>5. Copied = c[N]
  BY <1>1
<1> HIDE DEF c
<1>6. c[0] = base
  BY <1>n, <1>4
<1>7. ASSUME NEW n \in 1..N PROVE c[n] = Deeper(c[n - 1])
  <2>1. n \in 0..N /\ n # 0
    BY <1>n
  <2> QED
    BY <1>4, <2>1
<1> QED
  BY <1>5, <1>6, <1>7 DEF Copies

\* What key_selector_collect makes of selector t with r levels left, g being what
\* it makes with one less.
Gathered(r, g, t) ==
    IF ~IsSet(t) THEN [ok |-> TRUE, keys |-> {LeafKey(t)}]
    ELSE IF r = 0
         THEN [ok |-> Members[t] = <<>>, keys |-> {}]
         ELSE [ok |-> \A m \in ToSet(Members[t]) : g[m].ok,
               keys |-> UNION {g[m].keys : m \in ToSet(Members[t])}]

Collects(f) ==
    /\ \A r \in 0..MaxDepth : \A t \in Selectors : f[r][t] = Gathered(r, f[r - 1], t)
    /\ \A s : Collected(s) = f[MaxDepth][s]

LEMMA CollectsRuns == \E f : Collects(f)
<1> DEFINE N == MaxDepth
           K == {LeafKey(t) : t \in Selectors}
           S == [Selectors -> [ok : BOOLEAN, keys : SUBSET K]]
           At(r, g) == [t \in Selectors |-> Gathered(r, g, t)]
           base == At(0, <<>>)
           Body(f) == [r \in 0..N |-> At(r, f[r - 1])]
           step == [n \in 1..N |-> [g \in S |-> At(n, g)]]
<1>1. \A s : Collected(s) = (CHOOSE f : f = Body(f))[N][s]
  BY DEF Collected, Gathered
<1>n. N \in Nat
  BY SelectorsAssumption
<1>z. \A g : At(0, g) = base
  BY DEF Gathered
<1>2. PICK f : Runs(N, S, base, step, f)
  <2>1. ASSUME NEW t \in Selectors, NEW n \in 0..N, NEW g, n = 0 \/ g \in S
        PROVE  Gathered(n, g, t) \in [ok : BOOLEAN, keys : SUBSET K]
    <3>1. CASE ~IsSet(t)
      BY <3>1 DEF Gathered
    <3>2. CASE IsSet(t) /\ n = 0
      BY <3>2 DEF Gathered
    <3>3. CASE IsSet(t) /\ n # 0
      <4>1. g \in S
        BY <2>1, <3>3
      <4>2. \A m \in ToSet(Members[t]) : m \in Selectors
        BY BelowClosed
      <4>3. \A m \in ToSet(Members[t]) : g[m].keys \in SUBSET K
        <5>1. \A m \in Selectors : g[m] \in [ok : BOOLEAN, keys : SUBSET K]
          BY <4>1
        <5> QED
          BY <4>2, <5>1
      <4>4. UNION {g[m].keys : m \in ToSet(Members[t])} \in SUBSET K
        <5> HIDE DEF K
        <5> QED
          BY <4>3
      <4>5. Gathered(n, g, t) = [ok |-> \A m \in ToSet(Members[t]) : g[m].ok,
                                 keys |-> UNION {g[m].keys : m \in ToSet(Members[t])}]
        BY <3>3 DEF Gathered
      <4> QED
        BY <4>4, <4>5
    <3> QED
      BY <3>1, <3>2, <3>3
  <2>2. base \in S
    BY <1>n, <2>1
  <2>3. ASSUME NEW n \in 1..N, NEW g \in S PROVE At(n, g) \in S
    <3>1. n \in 0..N
      BY <1>n
    <3> QED
      BY <2>1, <3>1
  <2>4. step \in [1..N -> [S -> S]]
    <3> HIDE DEF At, S
    <3> QED
      BY <2>3
  <2> HIDE DEF step, N, S, base
  <2> QED
    BY <1>n, <2>2, <2>4, LoopExists
<1> HIDE DEF At
<1>3. f = Body(f)
  <2>1. ASSUME NEW n \in 1..N PROVE f[n] = At(n, f[n - 1])
    <3>1. f[n - 1] \in S
      BY <1>n, <1>2 DEF Runs
    <3>2. step[n] = [g \in S |-> At(n, g)]
      OBVIOUS
    <3> HIDE DEF S
    <3> QED
      BY <1>2, <3>1, <3>2 DEF Runs
  <2>2. f[0] = base /\ f = [n \in 0..N |-> f[n]]
    BY <1>2 DEF Runs
  <2>3. ASSUME NEW n \in 0..N PROVE f[n] = Body(f)[n]
    <3>1. CASE n = 0
      <4>1. f[0] = At(0, f[n - 1])
        BY <1>z, <2>2
      <4> QED
        BY <3>1, <4>1
    <3>2. CASE n # 0
      <4>1. n \in 1..N
        BY <1>n, <3>2
      <4> QED
        BY <2>1, <4>1
    <3> QED
      BY <3>1, <3>2
  <2> QED
    BY <2>2, <2>3
<1> DEFINE c == CHOOSE g : g = Body(g)
<1>4. c = Body(c)
  BY <1>3
<1>5. \A s : Collected(s) = c[N][s]
  BY <1>1
<1> HIDE DEF c
<1>6. ASSUME NEW n \in 0..N PROVE c[n] = At(n, c[n - 1])
  BY <1>4
<1>7. ASSUME NEW n \in 0..N, NEW t \in Selectors PROVE c[n][t] = Gathered(n, c[n - 1], t)
  BY <1>6 DEF At
<1> QED
  BY <1>5, <1>7 DEF Collects

\* A selector that can be copied has a key, made of the leaves below it.
LEMMA CopiedCollects ==
    ASSUME NEW s \in Copied
    PROVE  s \in Selectors /\ Collected(s).ok /\ Collected(s).keys = Leaves(s)
<1>n. MaxDepth \in Nat
  BY SelectorsAssumption
<1> PICK w : Copies(w)
  BY CopiesRuns
<1> PICK f : Collects(f)
  BY CollectsRuns
<1> DEFINE Right(r, t) == f[r][t].ok /\ f[r][t].keys = Leaves(t)
           T == {r \in 0..MaxDepth : w[r] \subseteq Selectors /\ \A t \in w[r] : Right(r, t)}
<1>f. \A r \in 0..MaxDepth : \A t \in Selectors : f[r][t] = Gathered(r, f[r - 1], t)
  BY DEF Collects
<1>leaf. ASSUME NEW r \in 0..MaxDepth, NEW t \in Selectors, ~IsSet(t) PROVE Right(r, t)
  <2>1. f[r][t] = [ok |-> TRUE, keys |-> {LeafKey(t)}]
    BY <1>f, <1>leaf DEF Gathered
  <2> QED
    BY <1>leaf, <2>1, LeavesUnfold
<1>1. 0 \in T
  <2>1. w[0] \subseteq Selectors /\ 0 \in 0..MaxDepth
    BY <1>n DEF Copies
  <2>2. ASSUME NEW t \in w[0], IsSet(t) PROVE Right(0, t)
    <3>1. t \in Selectors /\ Members[t] = <<>>
      BY <2>2 DEF Copies
    <3>2. f[0][t] = [ok |-> Members[t] = <<>>, keys |-> {}]
      BY <1>f, <2>1, <2>2, <3>1 DEF Gathered
    <3>3. ToSet(Members[t]) = {}
      BY <3>1 DEF ToSet
    <3>4. Leaves(t) = {}
      BY <2>2, <3>1, <3>3, LeavesUnfold
    <3>5. f[0][t].ok = (Members[t] = <<>>) /\ f[0][t].keys = {}
      BY <3>2
    <3>6. (Members[t] = <<>>) = TRUE
      BY <3>1
    <3> QED
      BY <3>4, <3>5, <3>6
  <2> QED
    BY <1>leaf, <2>1, <2>2
<1>2. ASSUME NEW r \in 1..MaxDepth, r - 1 \in T PROVE r \in T
  <2>1. w[r] \subseteq Selectors /\ r \in 0..MaxDepth /\ r # 0
    BY <1>n DEF Copies
  <2>2. ASSUME NEW t \in w[r], IsSet(t) PROVE Right(r, t)
    <3> DEFINE M == ToSet(Members[t])
               g == f[r - 1]
    <3>1. t \in Selectors /\ M \subseteq w[r - 1]
      BY <2>2 DEF Copies
    <3>2. \A m \in M : g[m].ok /\ g[m].keys = Leaves(m)
      BY <1>2, <3>1
    <3>3. f[r][t] = [ok |-> \A m \in M : g[m].ok, keys |-> UNION {g[m].keys : m \in M}]
      BY <1>f, <2>1, <2>2, <3>1 DEF Gathered
    <3>4. Leaves(t) = UNION {Leaves(m) : m \in M}
      BY <2>2, <3>1, LeavesUnfold
    <3> HIDE DEF M, g
    <3>5. UNION {g[m].keys : m \in M} = UNION {Leaves(m) : m \in M}
      BY <3>2
    <3> QED
      BY <3>2, <3>3, <3>4, <3>5
  <2> QED
    BY <1>leaf, <2>1, <2>2
<1>3. 0..MaxDepth \subseteq T
  <2> HIDE DEF T
  <2> QED
    BY <1>n, <1>1, <1>2, Counting
<1>4. s \in w[MaxDepth] /\ Collected(s) = f[MaxDepth][s] /\ MaxDepth \in T
  BY <1>n, <1>3 DEF Copies, Collects
<1> QED
  BY <1>4

\* Two leaves with one key match the same entries, and no set has a leaf's key.
LEMMA LeafKeysTell ==
    ASSUME NEW s \in Selectors, ~IsSet(s)
    PROVE  /\ LeafKey(s)[1] # "set"
           /\ \A t \in Selectors : \A image :
                 ~IsSet(t) /\ LeafKey(s) = LeafKey(t) =>
                    (LeafMatches(image, s) <=> LeafMatches(image, t))
<1> DEFINE valued == {"path", "uuid", "header"}
<1>1. \A t \in Selectors : ~IsSet(t) =>
         SelectorKind[t] \in {"any", "main", "path", "uuid", "header"}
  BY SelectorsAssumption DEF IsSet
<1>2. \A t \in Selectors :
         /\ SelectorKind[t] \in valued => LeafKey(t) = <<SelectorKind[t], SelectorValue[t]>>
         /\ SelectorKind[t] \notin valued => LeafKey(t) = <<SelectorKind[t]>>
  BY DEF LeafKey
<1>3. \A t \in Selectors : LeafKey(t)[1] = SelectorKind[t]
  BY <1>2
<1>4. ASSUME NEW t \in Selectors, NEW image, ~IsSet(t), LeafKey(s) = LeafKey(t)
      PROVE  LeafMatches(image, s) <=> LeafMatches(image, t)
  <2>1. SelectorKind[s] = SelectorKind[t]
    BY <1>3, <1>4
  <2>2. SelectorKind[s] \in valued => SelectorValue[s] = SelectorValue[t]
    <3> SUFFICES ASSUME SelectorKind[s] \in valued
                 PROVE  SelectorValue[s] = SelectorValue[t]
      OBVIOUS
    <3>1. <<SelectorKind[s], SelectorValue[s]>> = <<SelectorKind[t], SelectorValue[t]>>
      BY <1>2, <1>4, <2>1
    <3> QED
      BY <3>1
  <2>3. CASE SelectorKind[s] \in valued
    <3>1. SelectorValue[s] = SelectorValue[t] /\ SelectorKind[s] = SelectorKind[t]
      BY <2>1, <2>2, <2>3
    <3> QED
      BY <3>1 DEF LeafMatches
  <2>4. CASE SelectorKind[s] \in {"any", "main"}
    BY <2>1, <2>4 DEF LeafMatches
  <2> QED
    BY <1>1, <2>3, <2>4
<1> QED
  BY <1>1, <1>3, <1>4

\* What a selector names is settled by the keys of its leaves.
LEMMA LeavesName ==
    ASSUME NEW s \in Selectors, NEW t \in Selectors, NEW image,
           Leaves(s) \subseteq Leaves(t), Names(s, image)
    PROVE  Names(t, image)
<1>1. PICK x \in Below[s] : LeafMatches(image, x)
  BY DEF Names
<1>2. x \in Selectors /\ ~IsSet(x)
  BY <1>1, BelowUnfolds DEF LeafMatches, IsSet
<1>3. LeafKey(x) \in Leaves(t)
  BY <1>1, <1>2 DEF Leaves
<1>4. PICK y \in Below[t] : ~IsSet(y) /\ LeafKey(x) = LeafKey(y)
  BY <1>3 DEF Leaves
<1>5. y \in Selectors
  BY <1>4, BelowUnfolds
<1>6. LeafMatches(image, y)
  BY <1>1, <1>2, <1>4, <1>5, LeafKeysTell
<1> QED
  BY <1>4, <1>6 DEF Names

\* Two selectors with one key have the same leaves.
LEMMA KeysTell ==
    ASSUME NEW s \in Copied, NEW t \in Copied
    PROVE  /\ SelectorKey(s) = SelectorKey(t) => Leaves(s) = Leaves(t)
           /\ IsSet(s) /\ IsSet(t) /\ Leaves(s) = Leaves(t) => SelectorKey(s) = SelectorKey(t)
<1>1. /\ s \in Selectors /\ Collected(s).keys = Leaves(s)
      /\ t \in Selectors /\ Collected(t).keys = Leaves(t)
  BY CopiedCollects
<1>2. /\ IsSet(s) => SelectorKey(s) = <<"set", Leaves(s)>>
      /\ IsSet(t) => SelectorKey(t) = <<"set", Leaves(t)>>
      /\ ~IsSet(s) => SelectorKey(s) = LeafKey(s) /\ Leaves(s) = {LeafKey(s)}
      /\ ~IsSet(t) => SelectorKey(t) = LeafKey(t) /\ Leaves(t) = {LeafKey(t)}
  BY <1>1, LeavesUnfold DEF SelectorKey
<1>3. /\ ~IsSet(s) => LeafKey(s)[1] # "set"
      /\ ~IsSet(t) => LeafKey(t)[1] # "set"
  BY <1>1, LeafKeysTell
<1>4. ASSUME SelectorKey(s) = SelectorKey(t) PROVE Leaves(s) = Leaves(t)
  <2>1. CASE IsSet(s) /\ IsSet(t)
    <3>1. <<"set", Leaves(s)>> = <<"set", Leaves(t)>>
      BY <1>2, <1>4, <2>1
    <3> QED
      BY <3>1
  <2>2. CASE ~IsSet(s) /\ ~IsSet(t)
    BY <1>2, <1>4, <2>2
  <2>3. CASE IsSet(s) /\ ~IsSet(t)
    <3>1. LeafKey(t) = <<"set", Leaves(s)>>
      BY <1>2, <1>4, <2>3
    <3> QED
      BY <1>3, <2>3, <3>1
  <2>4. CASE ~IsSet(s) /\ IsSet(t)
    <3>1. LeafKey(s) = <<"set", Leaves(t)>>
      BY <1>2, <1>4, <2>4
    <3> QED
      BY <1>3, <2>4, <3>1
  <2> QED
    BY <2>1, <2>2, <2>3, <2>4
<1> QED
  BY <1>2, <1>4

\* Two selectors with one ownership key name the same images of the catalog, two
\* spellings of one set have one key, and every selector that a plan can copy has
\* a key, at every depth: hk_image_selector_copy and the key agree on the limit.
THEOREM KeysAlwaysMatchScope == Spec => KeysMatchScope
<1> DEFINE Match ==
      ~runtime.alive /\ runtime'.alive =>
          \A s \in Copied :
             /\ HasKey(s)
             /\ \A t \in Copied :
                   /\ SelectorKey(s) = SelectorKey(t) =>
                         \A image \in ToSet(runtime'.catalog) :
                            Names(s, image) <=> Names(t, image)
                   /\ /\ IsSet(s) /\ IsSet(t)
                      /\ {LeafKey(x) : x \in {y \in Below[s] : ~IsSet(y)}}
                           = {LeafKey(x) : x \in {y \in Below[t] : ~IsSet(y)}}
                      => SelectorKey(s) = SelectorKey(t)
<1>1. ASSUME NEW s \in Copied PROVE HasKey(s)
  BY CopiedCollects DEF HasKey
<1>2. ASSUME NEW s \in Copied, NEW t \in Copied, SelectorKey(s) = SelectorKey(t), NEW image
      PROVE  Names(s, image) <=> Names(t, image)
  <2>1. Leaves(s) = Leaves(t) /\ s \in Selectors /\ t \in Selectors
    BY <1>2, KeysTell, CopiedCollects
  <2> QED
    BY <2>1, LeavesName
<1>3. ASSUME NEW s \in Copied, NEW t \in Copied, IsSet(s), IsSet(t),
             {LeafKey(x) : x \in {y \in Below[s] : ~IsSet(y)}}
                = {LeafKey(x) : x \in {y \in Below[t] : ~IsSet(y)}}
      PROVE  SelectorKey(s) = SelectorKey(t)
  <2>1. Leaves(s) = Leaves(t)
    BY <1>3 DEF Leaves
  <2> QED
    BY <1>3, <2>1, KeysTell
<1>4. Match
  BY <1>1, <1>2, <1>3
<1>5. [Match]_vars
  BY <1>4
<1>6. Spec => [][Match]_vars
  BY <1>5, PTL DEF Spec
<1> QED
  BY <1>6 DEF KeysMatchScope

=============================================================================
