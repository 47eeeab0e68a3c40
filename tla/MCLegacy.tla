------------------------------ MODULE MCLegacy ------------------------------
(***************************************************************************)
(* A message, two hooks on one function and one on another, a function     *)
(* without a name, and a memory patch; two or three of them at a time.     *)
(***************************************************************************)
EXTENDS HKLegacy

CONSTANTS m, f, g, h, u, p

KindOf == [o \in Ops |-> CASE o = m -> "message" [] o = p -> "memory" [] OTHER -> "function"]
TargetOf == [o \in Ops |-> IF o \in {f, g, p} THEN f ELSE o]
Together == {{m, f}, {f, g}, {f, h}, {f, p}, {m, u, p}}
=============================================================================
