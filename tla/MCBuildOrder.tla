---------------------------- MODULE MCBuildOrder ----------------------------
(* Every plan of up to HookCount hooks with small ordering keys.            *)
EXTENDS HKBuildOrder
=============================================================================
