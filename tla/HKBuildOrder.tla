---------------------------- MODULE HKBuildOrder ----------------------------
(***************************************************************************)
(* hk_build_commit_order (HKPlan.c): the order in which a commit visits    *)
(* the prepared hooks of a plan.  One pass decides whether the plan is     *)
(* simple (no prepared hook names a dependency, one ordering key); a       *)
(* simple plan keeps add order, any other is sorted by repeated selection. *)
(* The inputs are whatever hk_plan_add_hook and hk_plan_prepare can leave: *)
(* any subset prepared, dependencies on earlier hooks only.                *)
(***************************************************************************)
EXTENDS HKCommitOrder, Sequences

CONSTANTS
    HookCount,   \* plan->hook_count
    MaxOrder     \* bound on domain_order and commit_order

ASSUME HookCountAssumption == HookCount \in Nat
ASSUME MaxOrderAssumption == MaxOrder \in Nat

Hooks == 1..HookCount

VARIABLES
    dom, ord, after,   \* the plan's ordering keys and dependencies
    prepared,          \* hooks whose outcome is PREPARED
    todo,              \* prepared hooks not written to the order yet
    cursor,            \* index of the add-order copy loop
    order,             \* the array handed to hk_plan_commit
    pc

input == <<dom, ord, after, prepared>>
vars == <<dom, ord, after, prepared, todo, cursor, order, pc>>

Init ==
    /\ dom \in [Hooks -> 0..MaxOrder]
    /\ ord \in [Hooks -> 0..MaxOrder]
    /\ after \in {f \in [Hooks -> SUBSET Hooks] :
                     \A i \in Hooks : \A d \in f[i] : d < i}
    /\ prepared \in SUBSET Hooks
    /\ todo = prepared
    /\ cursor = 1
    /\ order = <<>>
    /\ pc = "scan"

\* Mutant: equal ordering keys are enough for the shortcut.
SimpleOrderIgnoringDependencies ==
    \A i, j \in prepared : dom[i] = dom[j] /\ ord[i] = ord[j]

\* Mutant: no dependencies are enough for the shortcut.
SimpleOrderIgnoringKeys == \A i \in prepared : after[i] = {}

\* No dependency edge and one ordering key among the prepared hooks.
SimpleOrder ==
    /\ \A i \in prepared : after[i] = {}
    /\ \A i, j \in prepared : dom[i] = dom[j] /\ ord[i] = ord[j]

Scan ==
    /\ pc = "scan"
    /\ pc' = IF SimpleOrder THEN "copy" ELSE "select"
    /\ UNCHANGED <<input, todo, cursor, order>>

\* The shortcut: copy the prepared hooks in add order.
Copy ==
    /\ pc = "copy"
    /\ IF cursor > HookCount
       THEN pc' = "done" /\ UNCHANGED <<todo, cursor, order>>
       ELSE /\ cursor' = cursor + 1
            /\ IF cursor \in prepared
               THEN order' = Append(order, cursor) /\ todo' = todo \ {cursor}
               ELSE UNCHANGED <<order, todo>>
            /\ UNCHANGED pc
    /\ UNCHANGED input

\* Mutant: a dependency that never prepared is waited for.
SelectWaitingForUnprepared ==
    /\ pc = "select"
    /\ LET placed == {order[p] : p \in 1..Len(order)}
           ready == {i \in todo : after[i] \subseteq placed}
       IN  IF ready = {}
           THEN /\ pc' = IF todo = {} THEN "done" ELSE "refused"
                /\ UNCHANGED <<todo, order>>
           ELSE \E best \in ready :
                /\ \A j \in ready : j = best \/ CommitOrderBefore(dom, ord, best, j)
                /\ order' = Append(order, best)
                /\ todo' = todo \ {best}
                /\ UNCHANGED pc
    /\ UNCHANGED <<input, cursor>>

\* One round of the general selection; with nothing selectable the function
\* returns false and hk_plan_commit reports OUT_OF_MEMORY.
Select ==
    /\ pc = "select"
    /\ IF Selectable(after, todo) = {}
       THEN /\ pc' = IF todo = {} THEN "done" ELSE "refused"
            /\ UNCHANGED <<todo, order>>
       ELSE /\ LET best == Best(dom, ord, after, todo)
               IN  order' = Append(order, best) /\ todo' = todo \ {best}
            /\ UNCHANGED pc
    /\ UNCHANGED <<input, cursor>>

Next == Scan \/ Copy \/ Select

Spec == Init /\ [][Next]_vars

-----------------------------------------------------------------------------

\* Type invariant of the ordering loop's locals.
TypeOK ==
    /\ dom \in [Hooks -> 0..MaxOrder]
    /\ ord \in [Hooks -> 0..MaxOrder]
    /\ after \in [Hooks -> SUBSET Hooks]
    /\ prepared \in SUBSET Hooks
    /\ todo \in SUBSET prepared
    /\ cursor \in 1..(HookCount + 1)
    /\ order \in Seq(Hooks)
    /\ pc \in {"scan", "copy", "select", "done", "refused"}

\* The comment on hk_build_commit_order says a cycle is impossible through the
\* public add path: for every plan that path can build, the selection never
\* runs dry, so a commit is never refused for its order.
NeverRefused == pc # "refused"

\* Every array prefix is duplicate-free, and a prepared dependency of a hook in
\* it stands before the hook, in the shortcut and in the general loop alike.
DependenciesFirst ==
    \A p \in 1..Len(order) :
        /\ order[p] \notin {order[q] : q \in 1..(p - 1)}
        /\ after[order[p]] \cap prepared \subseteq {order[q] : q \in 1..(p - 1)}

\* The reference definition of the finished order: each prepared hook once, and
\* at no position a hook that stands later but was ready (its prepared
\* dependencies all stand before that position) ranks before the one chosen.
\* Both loops must produce it, so the shortcut is only an optimisation.
StableOnceDone ==
    pc = "done" =>
        /\ {order[p] : p \in 1..Len(order)} = prepared
        /\ \A p, q \in 1..Len(order) :
              /\ p < q
              /\ after[order[q]] \cap prepared \subseteq
                     {order[r] : r \in 1..(p - 1)}
              => CommitOrderBefore(dom, ord, order[p], order[q])

\* hk_build_commit_order always finds an order, and it is the stable
\* topological one: never refused, dependencies first at every moment, and at
\* the end the smallest ready hook at every position.
StableTopologicalOrder == NeverRefused /\ DependenciesFirst /\ StableOnceDone

=============================================================================
