---------------------------- MODULE MethodChain ----------------------------
(***************************************************************************)
(* What method hooking promises: a replacement takes the place of the      *)
(* implementation its class responds with and, in the same instant, gets   *)
(* exactly that implementation as its original.                            *)
(***************************************************************************)
EXTENDS ObjCMethods

VARIABLES
    imp,        \* [Classes -> Imps \cup {None}]
    original    \* [Patches -> Imps \cup {None}], None until installed

vars == <<imp, original>>

Init ==
    /\ imp \in {f \in [Classes -> Classes \cup {None}] :
                   \A c \in Classes : f[c] \in {c, None}}
    /\ Resolves(imp)
    /\ original = [p \in Patches |-> None]

Install(p) ==
    /\ original[p] = None
    /\ original' = [original EXCEPT ![p] = Lookup(imp, Target[p])]
    /\ imp' = Replaced(imp, Target[p], p)

Next == \E p \in Patches : Install(p)

Spec == Init /\ [][Next]_vars

\* The variables stay within their types and every class keeps responding.
TypeOK ==
    /\ imp \in [Classes -> Imps \cup {None}]
    /\ original \in [Patches -> Imps \cup {None}]
    /\ Resolves(imp)

\* A replacement that calls can arrive at has an original: the NULL that
\* replace_method returns for an added override is never taken for one.
LivePatchHasOriginal ==
    \A c \in Classes : imp[c] \in Patches => original[imp[c]] # None

\* No patch of the process is ever lost: a call that arrives at the class a
\* patch was installed on still gets to the patch, however many others were
\* installed on the class, its subclasses or its superclasses since.
NothingLost ==
    \A p \in Patches :
        original[p] # None => p \in Reach(original, Lookup(imp, Target[p]))

=============================================================================
