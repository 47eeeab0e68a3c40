------------------------ MODULE HKBuildOrder_proofs ------------------------
(***************************************************************************)
(* hk_build_commit_order is correct for plans of every size, with every    *)
(* ordering key and every dependency graph hk_plan_add_hook can build.     *)
(***************************************************************************)
EXTENDS HKBuildOrder, WellFoundedInduction, TLAPS

(* The selection rule of hk_build_commit_order: it never runs dry on plans *)
(* hk_plan_add_hook can build and picks the least of what is ready.        *)

\* A non-empty set of naturals has a least element.
LEMMA NatMin ==
    ASSUME NEW S \in SUBSET Nat, S # {}
    PROVE  \E m \in S : \A n \in S : m <= n
<1>1. PICK m \in S : \A n \in S : ~(<<n, m>> \in OpToRel(<, Nat))
  BY WFMin, NatLessThanWellFounded
<1>2. ASSUME NEW n \in S PROVE m <= n
  <2>1. ~(n < m)
    BY <1>1 DEF OpToRel
  <2> QED
    BY <2>1
<1> QED
  BY <1>2

\* While dependencies point to earlier hooks, some unplaced hook is selectable.
LEMMA SelectionNeverDry ==
    ASSUME NEW T \in SUBSET Nat, T # {}, NEW a,
           \A i \in T : \A e \in a[i] : e < i
    PROVE  Selectable(a, T) # {}
<1>1. PICK m \in T : \A n \in T : m <= n
  BY NatMin
<1>2. a[m] \cap T = {}
  <2> SUFFICES ASSUME NEW e \in a[m] \cap T PROVE FALSE
    OBVIOUS
  <2>1. e < m /\ m <= e /\ e \in Nat /\ m \in Nat
    BY <1>1
  <2> QED
    BY <2>1
<1> QED
  BY <1>1, <1>2 DEF Selectable, DependenciesProcessed

\* The selection scan ends on a selectable hook that ranks before the others.
LEMMA BestIsLeast ==
    ASSUME NEW T \in SUBSET Nat, NEW a, NEW d, NEW o,
           \A i \in T : d[i] \in Nat /\ o[i] \in Nat,
           Selectable(a, T) # {}
    PROVE  /\ Best(d, o, a, T) \in Selectable(a, T)
           /\ \A j \in Selectable(a, T) :
                 j = Best(d, o, a, T) \/ CommitOrderBefore(d, o, Best(d, o, a, T), j)
<1> DEFINE S == Selectable(a, T)
           D == {d[i] : i \in S}
<1>1. S \subseteq T
  BY DEF Selectable
<1>2. \A i \in S : d[i] \in Nat /\ o[i] \in Nat
  BY <1>1
<1>3. PICK m1 \in D : \A n \in D : m1 <= n
  <2>1. D \in SUBSET Nat /\ D # {}
    BY <1>2
  <2> QED
    BY <2>1, NatMin
<1> DEFINE S1 == {i \in S : d[i] = m1}
           O == {o[i] : i \in S1}
<1>4. PICK m2 \in O : \A n \in O : m2 <= n
  <2>1. O \in SUBSET Nat /\ O # {}
    BY <1>2, <1>3
  <2> QED
    BY <2>1, NatMin
<1> DEFINE S2 == {i \in S1 : o[i] = m2}
<1>5. PICK b \in S2 : \A n \in S2 : b <= n
  <2>1. S2 \in SUBSET Nat /\ S2 # {}
    BY <1>1, <1>4
  <2> QED
    BY <2>1, NatMin
<1>6. b \in S
  BY <1>5
<1>7. ASSUME NEW j \in S, j # b
      PROVE  CommitOrderBefore(d, o, b, j)
  <2>1. d[b] = m1 /\ o[b] = m2 /\ b \in Nat /\ j \in Nat
    BY <1>1, <1>5
  <2>2. m1 \in Nat /\ m2 \in Nat /\ d[j] \in Nat /\ o[j] \in Nat
    BY <1>2, <1>6, <2>1
  <2>3. m1 <= d[j]
    BY <1>3
  <2>4. CASE d[j] = m1 /\ o[j] = m2
    <3>1. b <= j
      BY <1>5, <2>4
    <3> QED
      BY <1>7, <2>1, <2>4, <3>1 DEF CommitOrderBefore
  <2>5. CASE d[j] = m1 /\ o[j] # m2
    <3>1. m2 <= o[j]
      BY <1>4, <2>5
    <3> QED
      BY <2>1, <2>2, <2>5, <3>1 DEF CommitOrderBefore
  <2>6. CASE d[j] # m1
    BY <2>1, <2>2, <2>3, <2>6 DEF CommitOrderBefore
  <2> QED
    BY <2>4, <2>5, <2>6
<1>8. \E x \in S : \A j \in S : j = x \/ CommitOrderBefore(d, o, x, j)
  BY <1>6, <1>7
<1> QED
  BY <1>8 DEF Best

-----------------------------------------------------------------------------
(* The inductive invariant.                                                *)

Placed(n) == {order[p] : p \in 1..n}

\* Every prepared dependency of i is among the first n hooks of the order.
ReadyAfter(i, n) == after[i] \cap prepared \subseteq Placed(n)

\* The inputs are those of hk_plan_add_hook and hk_plan_prepare.
Inputs ==
    /\ dom \in [Hooks -> 0..MaxOrder]
    /\ ord \in [Hooks -> 0..MaxOrder]
    /\ after \in [Hooks -> SUBSET Hooks]
    /\ prepared \in SUBSET Hooks
    /\ \A i \in Hooks : \A d \in after[i] : d < i

\* The array and the hooks still to place partition the prepared hooks.
Partition ==
    /\ todo \subseteq prepared
    /\ \A i \in prepared : i \in todo \/ i \in Placed(Len(order))
    /\ \A p \in 1..Len(order) : order[p] \in prepared \ todo

\* The shortcut runs on simple plans and has placed what lies behind it.
Shortcut ==
    pc = "copy" => SimpleOrder /\ todo = {i \in prepared : i >= cursor}

\* No hook still to place was ready at a position given to one it ranks before.
Greedy ==
    \A p \in 1..Len(order), j \in todo :
        ReadyAfter(j, p - 1) => CommitOrderBefore(dom, ord, order[p], j)

\* The same between two placed hooks.
Sorted ==
    \A p, q \in 1..Len(order) :
        p < q /\ ReadyAfter(order[q], p - 1)
            => CommitOrderBefore(dom, ord, order[p], order[q])

\* Nothing has happened before the scan.
ScanState == pc = "scan" => cursor = 1 /\ todo = prepared

IInv ==
    /\ TypeOK
    /\ ScanState
    /\ Inputs
    /\ Partition
    /\ Shortcut
    /\ DependenciesFirst
    /\ Greedy
    /\ Sorted
    /\ pc = "done" => todo = {}
    /\ pc # "refused"

\* Placing hook x, an unplaced hook whose prepared dependencies are placed and
\* that ranks before every other one that is ready, keeps the order correct.
LEMMA PlaceOne ==
    ASSUME IInv, NEW x \in todo,
           after[x] \cap todo = {},
           \A j \in todo \ {x} :
               after[j] \cap todo = {} => CommitOrderBefore(dom, ord, x, j),
           order' = Append(order, x),
           todo' = todo \ {x},
           UNCHANGED input
    PROVE  /\ order' \in Seq(Hooks)
           /\ todo' \in SUBSET prepared'
           /\ Partition'
           /\ DependenciesFirst'
           /\ Greedy'
           /\ Sorted'
<1>0. PICK L \in Nat : L = Len(order)
  BY DEF IInv, TypeOK
<1> USE <1>0 DEF input
<1>1. /\ order \in Seq(Hooks)
      /\ x \in Hooks /\ x \in prepared
      /\ L \in Nat
  BY DEF IInv, TypeOK, Inputs
<1>2. /\ order' \in Seq(Hooks)
      /\ Len(order') = L + 1
      /\ order'[L + 1] = x
      /\ \A p \in 1..L : order'[p] = order[p]
  BY <1>1
<1>3. \A n \in 0..L : Placed(n)' = Placed(n)
  BY <1>1, <1>2 DEF Placed
<1>4. /\ x \notin Placed(L)
      /\ \A i \in prepared : i \in todo \/ i \in Placed(L)
  BY DEF IInv, Partition, Placed
<1>5. Placed(L + 1)' = Placed(L) \cup {x}
  <2>1. Placed(L + 1)' = {order'[p] : p \in 1..(L + 1)}
    BY DEF Placed
  <2>2. 1..(L + 1) = (1..L) \cup {L + 1}
    BY <1>1
  <2> QED
    BY <1>2, <2>1, <2>2 DEF Placed
<1>6. \A n \in 0..L, i \in Hooks : ReadyAfter(i, n)' <=> ReadyAfter(i, n)
  BY <1>3 DEF ReadyAfter
<1>7. \A n \in 0..L : Placed(n) \subseteq Placed(L)
  BY <1>1 DEF Placed
<1>8. \A i \in Hooks : ReadyAfter(i, L) => after[i] \cap todo = {}
  BY DEF IInv, Partition, Placed, ReadyAfter
<1>9. Partition'
  <2>1. todo' \subseteq prepared'
    BY DEF IInv, Partition
  <2>2. \A i \in prepared' : i \in todo' \/ i \in Placed(L + 1)'
    BY <1>4, <1>5
  <2>3. \A p \in 1..(L + 1) : order'[p] \in prepared' \ todo'
    <3> SUFFICES ASSUME NEW p \in 1..(L + 1)
                 PROVE  order'[p] \in prepared' \ todo'
      OBVIOUS
    <3>1. CASE p \in 1..L
      BY <1>2, <3>1 DEF IInv, Partition
    <3>2. CASE p = L + 1
      BY <1>1, <1>2, <3>2
    <3> QED
      BY <1>1, <3>1, <3>2
  <2> QED
    BY <1>2, <2>1, <2>2, <2>3 DEF Partition, Placed
<1>10. DependenciesFirst'
  <2> SUFFICES ASSUME NEW p \in 1..(L + 1)
               PROVE  /\ order'[p] \notin Placed(p - 1)'
                      /\ after[order'[p]] \cap prepared \subseteq Placed(p - 1)'
    BY <1>2 DEF DependenciesFirst, Placed
  <2>1. CASE p \in 1..L
    <3>1. p - 1 \in 0..L
      BY <1>1, <2>1
    <3> QED
      BY <1>2, <1>3, <2>1, <3>1 DEF IInv, DependenciesFirst, Placed
  <2>2. CASE p = L + 1
    <3>1. Placed(p - 1)' = Placed(L)
      BY <1>1, <1>3, <2>2
    <3>2. after[x] \cap prepared \subseteq Placed(L)
      BY <1>4
    <3> QED
      BY <1>2, <1>4, <2>2, <3>1, <3>2
  <2> QED
    BY <1>1, <2>1, <2>2
<1>11. Greedy'
  <2> SUFFICES ASSUME NEW p \in 1..(L + 1), NEW j \in todo \ {x},
                      ReadyAfter(j, p - 1)'
               PROVE  CommitOrderBefore(dom, ord, order'[p], j)
    BY <1>2 DEF Greedy, CommitOrderBefore
  <2>1. j \in Hooks /\ p - 1 \in 0..L
    BY <1>1 DEF IInv, TypeOK
  <2>2. ReadyAfter(j, p - 1)
    BY <1>6, <2>1
  <2>3. CASE p \in 1..L
    BY <1>2, <2>2, <2>3 DEF IInv, Greedy
  <2>4. CASE p = L + 1
    <3>1. ReadyAfter(j, L)
      BY <1>1, <2>2, <2>4
    <3> QED
      BY <1>2, <1>8, <2>1, <2>4, <3>1
  <2> QED
    BY <1>1, <2>3, <2>4
<1>12. Sorted'
  <2> SUFFICES ASSUME NEW p \in 1..(L + 1), NEW q \in 1..(L + 1), p < q,
                      after[order'[q]] \cap prepared \subseteq Placed(p - 1)'
               PROVE  CommitOrderBefore(dom, ord, order'[p], order'[q])
    BY <1>2 DEF Sorted, ReadyAfter, CommitOrderBefore
  <2>1. /\ p \in 1..L /\ p - 1 \in 0..L
        /\ q \in 1..L \/ q = L + 1
        /\ order'[q] \in Hooks
    BY <1>1, <1>2
  <2>2. ReadyAfter(order'[q], p - 1)
    BY <1>3, <2>1 DEF ReadyAfter
  <2>3. CASE q \in 1..L
    BY <1>2, <2>1, <2>2, <2>3 DEF IInv, Sorted
  <2>4. CASE q = L + 1
    BY <1>2, <2>1, <2>2, <2>4 DEF IInv, Greedy
  <2> QED
    BY <2>1, <2>3, <2>4
<1>13. todo' \in SUBSET prepared'
  BY DEF IInv, TypeOK
<1> QED
  BY <1>2, <1>9, <1>10, <1>11, <1>12, <1>13

\* Scan, Copy and Select keep the invariant.
LEMMA Invariance == Spec => []IInv
<1>1. Init => IInv
  <2> SUFFICES ASSUME Init PROVE IInv
    OBVIOUS
  <2>1. Len(order) = 0 /\ order \in Seq(Hooks)
    BY DEF Init
  <2>2. TypeOK /\ Inputs
    BY <2>1, HookCountAssumption DEF Init, TypeOK, Inputs
  <2>3. Partition /\ DependenciesFirst /\ Greedy /\ Sorted
    BY <2>1 DEF Init, Partition, DependenciesFirst, Greedy, Sorted
  <2> QED
    BY <2>2, <2>3 DEF Init, IInv, Shortcut, ScanState
<1>2. IInv /\ [Next]_vars => IInv'
  <2> SUFFICES ASSUME IInv, [Next]_vars
               PROVE  IInv'
    OBVIOUS
  <2> DEFINE Rest == Partition /\ DependenciesFirst /\ Greedy /\ Sorted
  <2>1. ASSUME UNCHANGED <<input, todo, order>>
        PROVE  Rest' /\ Inputs'
    BY <2>1 DEF IInv, input, Inputs, Partition, DependenciesFirst, Greedy,
                Sorted, ReadyAfter, Placed, CommitOrderBefore
  <2>2. CASE UNCHANGED vars
    <3>1. TypeOK' /\ ScanState' /\ Shortcut'
      BY <2>2 DEF vars, input, IInv, TypeOK, ScanState, Shortcut, SimpleOrder
    <3>2. Rest' /\ Inputs'
      BY <2>1, <2>2 DEF vars, input
    <3>3. (pc' = "done" => todo' = {}) /\ pc' # "refused"
      BY <2>2 DEF vars, IInv
    <3> QED
      BY <3>1, <3>2, <3>3 DEF IInv
  <2>3. CASE Scan
    <3>1. ASSUME SimpleOrder PROVE Shortcut'
      <4>1. cursor = 1 /\ todo = prepared
        BY <2>3 DEF Scan, IInv, ScanState
      <4>2. SimpleOrder'
        BY <2>3, <3>1 DEF Scan, SimpleOrder, input
      <4>3. \A i \in prepared : i >= 1
        BY DEF IInv, TypeOK, Hooks
      <4>4. todo' = {i \in prepared' : i >= cursor'}
        BY <2>3, <4>1, <4>3 DEF Scan, input
      <4> QED
        BY <4>2, <4>4 DEF Shortcut
    <3>2. Shortcut'
      BY <2>3, <3>1 DEF Scan, Shortcut
    <3> QED
      BY <2>1, <2>3, <3>2 DEF Scan, input, IInv, TypeOK, ScanState
  <2>4. CASE Copy
    <3>1. CASE cursor > HookCount
      <4>1. todo = {}
        BY <2>4, <3>1, HookCountAssumption
           DEF Copy, IInv, Shortcut, TypeOK, Hooks
      <4> QED
        BY <2>1, <2>4, <3>1, <4>1
           DEF Copy, input, IInv, TypeOK, Shortcut, ScanState
    <3>2. CASE ~(cursor > HookCount) /\ cursor \in prepared
      <4>1. /\ cursor \in todo
            /\ \A i \in prepared : after[i] = {}
            /\ \A i, j \in prepared : dom[i] = dom[j] /\ ord[i] = ord[j]
            /\ todo \subseteq prepared /\ prepared \subseteq Nat
            /\ \A j \in todo : j >= cursor
            /\ cursor \in Nat
        BY <2>4, <3>2, HookCountAssumption
           DEF Copy, IInv, Shortcut, SimpleOrder, TypeOK, Hooks
      <4>2. /\ order' = Append(order, cursor)
            /\ todo' = todo \ {cursor}
            /\ UNCHANGED input
        BY <2>4, <3>2 DEF Copy
      <4>3. \A j \in todo \ {cursor} : CommitOrderBefore(dom, ord, cursor, j)
        BY <4>1 DEF CommitOrderBefore
      <4>4. order' \in Seq(Hooks) /\ todo' \in SUBSET prepared' /\ Rest'
        BY <4>1, <4>2, <4>3, PlaceOne
      <4>5. Shortcut' /\ cursor' \in 1..(HookCount + 1)
        <5>1. SimpleOrder'
          BY <4>1, <4>2 DEF SimpleOrder, input
        <5>2. todo = {i \in prepared : i >= cursor}
          BY <2>4 DEF Copy, IInv, Shortcut
        <5>3. /\ cursor' = cursor + 1 /\ cursor \in 1..HookCount
              /\ prepared' = prepared
          BY <2>4, <3>2, <4>2, HookCountAssumption
             DEF Copy, IInv, TypeOK, input
        <5>4. \A i \in prepared : (i >= cursor /\ i # cursor) <=> i >= cursor + 1
          <6> SUFFICES ASSUME NEW i \in prepared
                       PROVE  (i >= cursor /\ i # cursor) <=> i >= cursor + 1
            OBVIOUS
          <6>1. i \in Nat /\ cursor \in Nat
            BY <4>1
          <6> QED
            BY <6>1
        <5>5. todo' = {i \in prepared' : i >= cursor'}
          <6>1. todo' = {i \in prepared : i >= cursor /\ i # cursor}
            BY <4>2, <5>2
          <6> QED
            BY <5>3, <5>4, <6>1
        <5> QED
          BY <5>1, <5>3, <5>5, HookCountAssumption DEF Shortcut
      <4> QED
        BY <2>4, <3>2, <4>2, <4>4, <4>5
           DEF Copy, input, IInv, TypeOK, Inputs, ScanState
    <3>3. CASE ~(cursor > HookCount) /\ cursor \notin prepared
      <4>1. Shortcut' /\ cursor' \in 1..(HookCount + 1)
        <5>1. /\ SimpleOrder /\ todo = {i \in prepared : i >= cursor}
              /\ prepared \subseteq Nat
          BY <2>4 DEF Copy, IInv, Shortcut, TypeOK, Hooks
        <5>2. /\ cursor' = cursor + 1 /\ cursor \in 1..HookCount
              /\ todo' = todo /\ UNCHANGED input
          BY <2>4, <3>3, HookCountAssumption DEF Copy, IInv, TypeOK
        <5>3. SimpleOrder'
          BY <5>1, <5>2 DEF SimpleOrder, input
        <5>4. \A i \in prepared : i >= cursor <=> i >= cursor + 1
          BY <3>3, <5>1, <5>2
        <5>5. todo' = {i \in prepared' : i >= cursor'}
          BY <5>1, <5>2, <5>4 DEF input
        <5> QED
          BY <5>2, <5>3, <5>5, HookCountAssumption DEF Shortcut
      <4> QED
        BY <2>1, <2>4, <3>3, <4>1 DEF Copy, input, IInv, TypeOK, ScanState
    <3> QED
      BY <3>1, <3>2, <3>3
  <2>5. CASE Select
    <3>1. todo \in SUBSET Hooks /\ after \in [Hooks -> SUBSET Hooks]
      BY DEF IInv, TypeOK
    <3>2. CASE Selectable(after, todo) = {}
      <4>1. todo = {}
        <5>1. todo \in SUBSET Nat
          BY <3>1, HookCountAssumption DEF Hooks
        <5>2. \A i \in todo : \A e \in after[i] : e < i
          BY <3>1 DEF IInv, Inputs
        <5> QED
          BY <3>2, <5>1, <5>2, SelectionNeverDry
      <4> QED
        BY <2>1, <2>5, <3>2, <4>1
           DEF Select, input, IInv, TypeOK, Shortcut, ScanState
    <3>3. CASE Selectable(after, todo) # {}
      <4> DEFINE b == Best(dom, ord, after, todo)
      <4>1. /\ b \in Selectable(after, todo)
            /\ \A j \in Selectable(after, todo) :
                  j = b \/ CommitOrderBefore(dom, ord, b, j)
        <5>1. todo \in SUBSET Nat /\ \A i \in todo : dom[i] \in Nat /\ ord[i] \in Nat
          BY <3>1, HookCountAssumption, MaxOrderAssumption DEF IInv, TypeOK, Hooks
        <5> QED
          BY <3>3, <5>1, BestIsLeast
      <4>2. /\ b \in todo /\ after[b] \cap todo = {}
            /\ \A j \in todo \ {b} :
                  after[j] \cap todo = {} => CommitOrderBefore(dom, ord, b, j)
        BY <4>1 DEF Selectable, DependenciesProcessed
      <4>3. /\ order' = Append(order, b)
            /\ todo' = todo \ {b}
            /\ UNCHANGED <<input, pc, cursor>>
        BY <2>5, <3>3 DEF Select
      <4>4. order' \in Seq(Hooks) /\ todo' \in SUBSET prepared' /\ Rest'
        BY <4>2, <4>3, PlaceOne
      <4> QED
        BY <2>5, <4>3, <4>4
           DEF Select, input, IInv, TypeOK, Inputs, Shortcut, ScanState
    <3> QED
      BY <3>2, <3>3
  <2> QED
    BY <2>2, <2>3, <2>4, <2>5 DEF Next
<1> QED
  BY <1>1, <1>2, PTL DEF Spec

-----------------------------------------------------------------------------

\* The locals of the ordering loops keep their types.
THEOREM TypeCorrect == Spec => []TypeOK
<1>1. IInv => TypeOK
  BY DEF IInv
<1> QED
  BY <1>1, Invariance, PTL

\* For every plan hk_plan_add_hook can build, the selection never runs dry: the
\* cycle that hk_build_commit_order would report as OUT_OF_MEMORY cannot occur.
THEOREM OrderNeverRefused == Spec => []NeverRefused
<1>1. IInv => NeverRefused
  BY DEF IInv, NeverRefused
<1> QED
  BY <1>1, Invariance, PTL

\* A prepared dependency stands before its dependents, in every prefix.
THEOREM DependenciesStandFirst == Spec => []DependenciesFirst
<1>1. IInv => DependenciesFirst
  BY DEF IInv
<1> QED
  BY <1>1, Invariance, PTL

\* The shortcut and the general loop both compute the stable topological order.
THEOREM OrderIsStableTopological == Spec => []StableTopologicalOrder
<1>1. IInv => StableOnceDone
  <2> SUFFICES ASSUME IInv, pc = "done"
               PROVE  /\ {order[p] : p \in 1..Len(order)} = prepared
                      /\ \A p, q \in 1..Len(order) :
                            /\ p < q
                            /\ after[order[q]] \cap prepared \subseteq
                                   {order[r] : r \in 1..(p - 1)}
                            => CommitOrderBefore(dom, ord, order[p], order[q])
    BY DEF StableOnceDone
  <2>1. todo = {}
    BY DEF IInv
  <2>2. {order[p] : p \in 1..Len(order)} = prepared
    BY <2>1 DEF IInv, Partition, Placed
  <2> QED
    BY <2>2 DEF IInv, Sorted, ReadyAfter, Placed
<1> QED
  BY <1>1, Invariance, OrderNeverRefused, DependenciesStandFirst, PTL
  DEF StableTopologicalOrder

=============================================================================
