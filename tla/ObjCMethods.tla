---------------------------- MODULE ObjCMethods ----------------------------
(***************************************************************************)
(* The Objective-C runtime as the seam of HKObjCEngine.c uses it: one      *)
(* selector, a class hierarchy, and per class the implementation it        *)
(* defines itself or None.  An implementation is a replacement function (a *)
(* hook, or the patch of foreign code) or the code a class was compiled    *)
(* with, for which the class itself stands.                                *)
(***************************************************************************)
CONSTANTS
    Classes,
    Above,      \* Above[c]: c and its superclasses
    Patches,    \* replacement functions, each installed at most once
    Target,     \* Target[p]: the class whose method p replaces
    None

ASSUME HierarchyAssumption ==
    /\ Above \in [Classes -> SUBSET Classes]
    /\ \A c \in Classes :
          /\ c \in Above[c]
          /\ \A d \in Above[c] :
                /\ Above[d] \subseteq Above[c]
                /\ \A e \in Above[c] : e \in Above[d] \/ d \in Above[e]
    /\ \A c, d \in Classes : c \in Above[d] /\ d \in Above[c] => c = d
ASSUME PatchesAssumption ==
    /\ Target \in [Patches -> Classes]
    /\ Patches \cap Classes = {}
    /\ None \notin Patches \cup Classes

Imps == Classes \cup Patches

\* d is where the search for the method from c ends: a class that defines it,
\* below every other superclass of c that does.
Nearest(imp, c, d) ==
    /\ d \in Above[c]
    /\ imp[d] # None
    /\ \A e \in Above[c] : imp[e] # None => e \in Above[d]

\* method_get_imp(get_instance_method(c)).
Lookup(imp, c) == imp[CHOOSE d \in Classes : Nearest(imp, c, d)]

\* Every class responds to the selector.
Resolves(imp) == \A c \in Classes : \E d \in Classes : Nearest(imp, c, d)

\* What replace_method returns is imp[c]: None when it added an override.
Replaced(imp, c, p) == [imp EXCEPT ![c] = p]

\* Implementations a call that arrives at v can still get to, each going on
\* through the original it was given.
Reach(original, v) ==
    {w \in Imps :
        \A S \in SUBSET Imps :
            /\ v \in S
            /\ \A p \in S \cap Patches : original[p] # None => original[p] \in S
            => w \in S}

=============================================================================
