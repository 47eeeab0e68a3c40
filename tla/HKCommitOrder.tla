--------------------------- MODULE HKCommitOrder ---------------------------
(***************************************************************************)
(* How hk_plan_commit ranks the hooks of a plan (HKPlan.c, the helpers of  *)
(* hk_build_commit_order).  A hook is its index in the plan's add order.   *)
(*                                                                         *)
(*   dom[i]    domain_order of the hook's domain, 0 without a domain       *)
(*   ord[i]    commit_order of the hook                                    *)
(*   after[i]  commit_after: hooks added before i                          *)
(*   todo      prepared hooks not placed yet; every other hook counts as   *)
(*             processed, those that never prepared included               *)
(***************************************************************************)
EXTENDS Naturals

\* Smaller (domain_order, commit_order, add index) first.
CommitOrderBefore(dom, ord, i, j) ==
    \/ dom[i] < dom[j]
    \/ dom[i] = dom[j] /\ ord[i] < ord[j]
    \/ dom[i] = dom[j] /\ ord[i] = ord[j] /\ i < j

\* Mutant: one processed commit_after entry is enough.
DependenciesProcessedOne(after, todo, i) ==
    after[i] = {} \/ ~(after[i] \subseteq todo)

\* Every commit_after entry has been processed.
DependenciesProcessed(after, todo, i) == after[i] \cap todo = {}

\* The unprocessed prepared hooks whose dependencies are all processed.
Selectable(after, todo) ==
    {i \in todo : DependenciesProcessed(after, todo, i)}

\* The hook the selection scan ends on.
Best(dom, ord, after, todo) ==
    CHOOSE i \in Selectable(after, todo) :
        \A j \in Selectable(after, todo) :
            j = i \/ CommitOrderBefore(dom, ord, i, j)

=============================================================================
