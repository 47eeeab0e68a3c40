------------------------------- MODULE HKObjC -------------------------------
(***************************************************************************)
(* Concurrent installation of Objective-C method hooks: the phases of      *)
(* HKObjCEngine.c and HKObjCVtable.c as hk_plan_prepare and hk_plan_commit *)
(* call them, the process-wide ownership ledger with its lock              *)
(* (HKOwnership.c) and the installed records that hold the original slots  *)
(* (HKInstalled.c).  Every hook is committed by a thread of its own, so a  *)
(* hook prepares while another one commits; foreign code patches methods   *)
(* without any lock.                                                       *)
(***************************************************************************)
EXTENDS ObjCMethods

CONSTANTS
    Hooks,        \* hooks of separate plans, with distinct replacements
    Keys,         \* canonical target keys
    Key,          \* [Hooks -> Keys]; a class has one key by name, one by address
    LocalOnly,    \* hooks with HK_OBJC_LOCAL_METHOD_ONLY
    Serialized,   \* foreign code keeps out of commits, as the install contexts
                  \* of objc_describe ask
    Faults        \* allocations that may fail: "artifact", "owner", "installed"

ASSUME HooksAssumption ==
    /\ Hooks \subseteq Patches
    /\ Key \in [Hooks -> Keys]
    /\ \A g, h \in Hooks : Key[g] = Key[h] => Target[g] = Target[h]
    /\ LocalOnly \subseteq Hooks
    /\ Serialized \in BOOLEAN
    /\ Faults \subseteq {"artifact", "owner", "installed"}

Foreign == Patches \ Hooks

VARIABLES
    imp,        \* the runtime's method tables
    pc,         \* where the hook is
    captured,   \* plan->original_imp
    lock,       \* holder of g_ownership_lock
    owned,      \* ownership.head_replacement as looked up under the lock
    original,   \* sink->published_original; for foreign code its own original
    head,       \* head_replacement of the ledger's record for a key
    slot,       \* the original slot hk_hook_original_slot gives, or None
    outcome

vars == <<imp, pc, captured, lock, owned, original, head, slot, outcome>>

Init ==
    /\ imp \in {f \in [Classes -> Classes \cup {None}] :
                   \A c \in Classes : f[c] \in {c, None}}
    /\ Resolves(imp)
    /\ pc = [h \in Hooks |-> "idle"]
    /\ captured = [h \in Hooks |-> None]
    /\ lock = None
    /\ owned = [h \in Hooks |-> None]
    /\ original = [p \in Patches |-> None]
    /\ head = [k \in Keys |-> None]
    /\ slot = [h \in Hooks |-> None]
    /\ outcome = [h \in Hooks |-> "ANALYZED"]

Current(h) == Lookup(imp, Target[h])

\* objc_prepare_one_ctx_status: resolve the method and capture what it holds.
Prepare(h) ==
    /\ pc[h] = "idle"
    /\ h \in LocalOnly => imp[Target[h]] # None
    /\ captured' = [captured EXCEPT ![h] = Current(h)]
    /\ pc' = [pc EXCEPT ![h] = "prepared"]
    /\ outcome' = [outcome EXCEPT ![h] = "PREPARED"]
    /\ UNCHANGED <<imp, lock, owned, original, head, slot>>

\* The method is inherited and the request asked for a local one.
PrepareRefused(h) ==
    /\ pc[h] = "idle"
    /\ h \in LocalOnly /\ imp[Target[h]] = None
    /\ pc' = [pc EXCEPT ![h] = "done"]
    /\ outcome' = [outcome EXCEPT ![h] = "FAILED_SAFE"]
    /\ UNCHANGED <<imp, captured, lock, owned, original, head, slot>>

\* Mutant: the lookup is made without waiting for the lock.
BeginCommitUnlocked(h) ==
    /\ pc[h] = "prepared"
    /\ lock' = h
    /\ owned' = [owned EXCEPT ![h] = head[Key[h]]]
    /\ pc' = [pc EXCEPT ![h] = "locked"]
    /\ UNCHANGED <<imp, captured, original, head, slot, outcome>>

\* hk_plan_commit takes the lock and looks the key up.  The engine is the only
\* one for methods and it chains, so an owned key is no conflict.
BeginCommit(h) ==
    /\ pc[h] = "prepared"
    /\ lock = None
    /\ lock' = h
    /\ owned' = [owned EXCEPT ![h] = head[Key[h]]]
    /\ pc' = [pc EXCEPT ![h] = "locked"]
    /\ UNCHANGED <<imp, captured, original, head, slot, outcome>>

\* Mutant: only the ledger is consulted, not the live method.
StillAsPreparedByLedger(h) == owned[h] # None => captured[h] = owned[h]

\* hk_objc_commit's two checks: the captured implementation is the recorded
\* head of an owned target, and the method still resolves to it.
StillAsPrepared(h) ==
    /\ owned[h] # None => captured[h] = owned[h]
    /\ Current(h) = captured[h]

\* Mutant: the early return forgets the lock.
CommitRefusedHoldingLock(h) ==
    /\ pc[h] = "locked"
    /\ ~StillAsPrepared(h)
    /\ pc' = [pc EXCEPT ![h] = "done"]
    /\ outcome' = [outcome EXCEPT ![h] = "FAILED_SAFE"]
    /\ UNCHANGED <<imp, captured, lock, owned, original, head, slot>>

CommitRefused(h) ==
    /\ pc[h] = "locked"
    /\ ~StillAsPrepared(h)
    /\ pc' = [pc EXCEPT ![h] = "done"]
    /\ outcome' = [outcome EXCEPT ![h] = "FAILED_SAFE"]
    /\ lock' = None
    /\ UNCHANGED <<imp, captured, owned, original, head, slot>>

Revalidate(h) ==
    /\ pc[h] = "locked"
    /\ StillAsPrepared(h)
    /\ pc' = [pc EXCEPT ![h] = "checked"]
    /\ UNCHANGED <<imp, captured, lock, owned, original, head, slot, outcome>>

\* replace_method; a local method it displaced is the original, otherwise the
\* inherited one captured at prepare.
ReplaceMethod(h) ==
    /\ pc[h] = "checked"
    /\ original' = [original EXCEPT ![h] =
           IF imp[Target[h]] # None THEN imp[Target[h]] ELSE captured[h]]
    /\ imp' = Replaced(imp, Target[h], h)
    /\ pc' = [pc EXCEPT ![h] = "written"]
    /\ UNCHANGED <<captured, lock, owned, head, slot, outcome>>

\* Mutant: the core does not compare the original with the owned predecessor.
ConfirmedByReadback(h) == Current(h) = h

\* The engine published the owned predecessor and the readback agrees.
Confirmed(h) ==
    /\ owned[h] # None => original[h] = owned[h]
    /\ Current(h) = h

\* Mutant: a chained hook leaves the ledger's record as it is.
HeadAfterFirstOnly(h) ==
    IF head[Key[h]] = None THEN [head EXCEPT ![Key[h]] = h] ELSE head

\* hk_ownership_record_locked.
HeadAfter(h) == [head EXCEPT ![Key[h]] = h]

\* hk_plan_finish_commit_attempt up to the unlock: verification, ownership, the
\* installed record with the original slot.  A record is allocated for a key
\* that has none; without memory for the slot the hook is active without one.
FinishCommit(h) ==
    /\ pc[h] = "written"
    /\ \E fault \in Faults \cup {"none"} :
          /\ fault = "owner" => head[Key[h]] = None
          /\ IF Confirmed(h) /\ fault \notin {"artifact", "owner"}
             THEN /\ outcome' = [outcome EXCEPT ![h] = "ACTIVE"]
                  /\ head' = HeadAfter(h)
                  /\ slot' = IF fault = "installed" THEN slot
                             ELSE [slot EXCEPT ![h] = original[h]]
             ELSE /\ outcome' = [outcome EXCEPT ![h] = "FAILED_UNKNOWN"]
                  /\ UNCHANGED <<head, slot>>
    /\ lock' = None
    /\ pc' = [pc EXCEPT ![h] = "done"]
    /\ UNCHANGED <<imp, captured, owned, original>>

\* Foreign code replaces a method and goes on to what it displaced.
ForeignPatch(f) ==
    /\ original[f] = None
    /\ Serialized => lock = None
    /\ original' = [original EXCEPT ![f] = Lookup(imp, Target[f])]
    /\ imp' = Replaced(imp, Target[f], f)
    /\ UNCHANGED <<pc, captured, lock, owned, head, slot, outcome>>

CommitStep(h) ==
    \/ BeginCommit(h)
    \/ CommitRefused(h)
    \/ Revalidate(h)
    \/ ReplaceMethod(h)
    \/ FinishCommit(h)

Next ==
    \/ \E h \in Hooks : Prepare(h) \/ PrepareRefused(h) \/ CommitStep(h)
    \/ \E f \in Foreign : ForeignPatch(f)

Spec == Init /\ [][Next]_vars

\* A thread that has prepared its hook goes on to commit it; the lock, when it
\* is free, is given to one of those that ask for it.
FairSpec == Spec /\ \A h \in Hooks : WF_vars(CommitStep(h))

-----------------------------------------------------------------------------

\* Type invariant.
TypeOK ==
    /\ imp \in [Classes -> Imps \cup {None}]
    /\ pc \in [Hooks -> {"idle", "prepared", "locked", "checked", "written",
                         "done"}]
    /\ captured \in [Hooks -> Imps \cup {None}]
    /\ lock \in Hooks \cup {None}
    /\ owned \in [Hooks -> Hooks \cup {None}]
    /\ original \in [Patches -> Imps \cup {None}]
    /\ head \in [Keys -> Hooks \cup {None}]
    /\ slot \in [Hooks -> Imps \cup {None}]
    /\ outcome \in [Hooks -> {"ANALYZED", "PREPARED", "ACTIVE", "FAILED_SAFE",
                              "FAILED_UNKNOWN"}]

\* Each installation takes effect in one instant with the implementation it
\* displaced as its original, whatever was prepared or patched in between.
Chain == INSTANCE MethodChain WITH imp <- imp, original <- original
ImplementsMethodChain == Chain!Spec

\* PUBLIC_C_ABI.md: a successor prepared before its predecessor commits fails
\* safely rather than overwriting a stale target state.  A hook is written only
\* over the implementation it captured, and on an owned key only over the head.
NoStaleWrite ==
    [][\A h \in Hooks :
          pc[h] = "checked" /\ pc'[h] = "written" =>
              /\ Current(h) = captured[h]
              /\ head[Key[h]] \in {None, captured[h]}]_vars

\* When nobody is committing, a call to the class of an ACTIVE hook gets to its
\* replacement through the original slots alone, and the ledger's head for its
\* key is at or above it: the next commit chains on the right hook.
ActiveHooksReachable ==
    lock = None =>
        \A h \in Hooks : outcome[h] = "ACTIVE" =>
            LET given == [p \in Patches |->
                             IF p \in Hooks THEN slot[p] ELSE original[p]]
            IN  /\ h \in Reach(given, Current(h))
                /\ head[Key[h]] # None
                /\ h \in Reach(given, head[Key[h]])

\* An ACTIVE hook chained on an owned target has exactly the hook that owned it
\* as its original, even when foreign code patches the method during the commit.
ChainedOnOwner ==
    \A h \in Hooks :
        outcome[h] = "ACTIVE" /\ owned[h] # None => original[h] = owned[h]

\* Every hook that reaches its commit is settled.
CommitsSettle == \A h \in Hooks : (pc[h] = "prepared") ~> (pc[h] = "done")

=============================================================================
