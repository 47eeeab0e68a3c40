------------------------------ MODULE MCRebind ------------------------------
(* Three images that share a slot, hooks with equal and overlapping scopes.  *)
EXTENDS HKRebind

CONSTANTS s1, s2, h1, h2, h3, kAll, kOne, f1

SlotsOfImages == <<{s1}, {s1, s2}, {s2}>>
Scopes == [h \in Hooks |-> IF h = h3 THEN {2, 3} ELSE {1, 2}]
KeyOf == [h \in Hooks |-> IF h = h3 THEN kOne ELSE kAll]
=============================================================================
