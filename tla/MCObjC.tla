------------------------------- MODULE MCObjC -------------------------------
(* A class and its subclass, keys by name and by address, foreign patchers.  *)
EXTENDS HKObjC

CONSTANTS A, B, h1, h2, h3, h4, f1, f2, kA, kAddr, kB

TwoClasses == [c \in Classes |-> IF c = A THEN {A} ELSE {A, B}]
OneClass == [c \in Classes |-> {c}]

\* h3, h4 and f2 patch the subclass, everything else the superclass.
Targets == [p \in Patches |-> IF p \in {h3, h4, f2} THEN B ELSE A]
TargetsA == [p \in Patches |-> A]
KeyOf == [h \in Hooks |-> IF h = h4 THEN kB ELSE IF h = h3 THEN kAddr ELSE kA]
=============================================================================
