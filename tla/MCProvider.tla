----------------------------- MODULE MCProvider -----------------------------
(***************************************************************************)
(* One target.  Two Gum hooks race for discovery and activation, as do two *)
(* ElleKit hooks, one of them without an original; a Dobby hook and two    *)
(* Substitute hooks meet them on the same entry.                           *)
(***************************************************************************)
EXTENDS HKProvider

CONSTANTS d, g1, g2, e1, e2, s1, s2

KindOf ==
    [h \in Hooks |-> CASE h = d -> "dobby"
                       [] h \in {g1, g2} -> "gum"
                       [] h \in {e1, e2} -> "ellekit"
                       [] h \in {s1, s2} -> "substitute"]
OneTarget == [h \in Hooks |-> CHOOSE t \in Targets : TRUE]
ExpectsOf == [h \in Hooks |-> CASE h = e1 -> 2 [] h = g2 -> 1 [] OTHER -> 0]

None == [i \in Images |-> {}]
With(i, symbols) == [None EXCEPT ![i] = {"image"} \cup symbols]
Both(a, b) == [i \in Images |-> a[i] \cup b[i]]

Gum == With("HKGum", {"hkgum_hook_function", "hkgum_transaction"})
OldGum == With("HKGum", {"hkgum_hook_function"})
ElleKit == With("libellekit", {"LHHookFunctions", "EKHookFunction", "MSHookFunction"})
Placeholder == With("libellekit", {})
LibHooker == With("libhooker", {"LHHookFunctions"})
Shim == With("libhooker", {"LHHookFunctions", "EKHookFunction"})
Substitute == With("libsubstitute", {"substitute_hook_functions", "SubHookFunction"})
Cydia == With("CydiaSubstrate", {"MSHookFunction"})

Case(hooks, installed) == [asked |-> hooks, disk |-> installed]
Cases ==
    {Case({g1, g2}, Gum), Case({g1, g2}, OldGum), Case({g1, d}, None),
     Case({e1, e2}, ElleKit), Case({e1, e2}, Both(Placeholder, Shim)),
     Case({e1, e2}, LibHooker), Case({s1, s2}, Both(ElleKit, Substitute)),
     Case({s1, s2}, Both(LibHooker, Cydia)), Case({s1}, Cydia),
     Case({s1}, ElleKit), Case({d, e1}, ElleKit), Case({d, g2}, Gum)}
=============================================================================
