------------------------------ MODULE HKLegacy ------------------------------
(***************************************************************************)
(* The compatibility facade: HKSubstitutor.m, its queue and executeHooks,  *)
(* over HKLegacyFacade.c, which turns a legacy call or a batch into one    *)
(* runtime and one plan.                                                   *)
(*                                                                         *)
(* HookKit.h lets several threads enqueue while one thread installs.  Each *)
(* operation is issued by a thread of its own when batching is on, and by  *)
(* the installing thread otherwise.  The plan below is external here: what *)
(* it may answer is what HKPlan and the engines allow.                     *)
(***************************************************************************)
EXTENDS Naturals, Sequences, SequencesExt

CONSTANTS
    Ops,
    Kind,           \* [Ops -> {"message", "function", "memory"}]
    Target,         \* [Ops -> targets]
    WantsOld,       \* operations with an old_ptr cell
    Describes,      \* operations whose engine describes the continuation when
                    \* it prepares (ObjC, relocating inline)
    Unnamed,        \* functions that the fishhook adapter finds no name for
    Requests,       \* sets of operations that the host may ask for
    Toggles,        \* how often the host may change the batching mode
    Faults

ASSUME OpsAssumption ==
    /\ Kind \in [Ops -> {"message", "function", "memory"}]
    /\ WantsOld \subseteq {o \in Ops : Kind[o] # "memory"}
    /\ Describes \subseteq Ops
    /\ Unnamed \subseteq {o \in Ops : Kind[o] = "function"}
    /\ Requests \subseteq SUBSET Ops
    /\ Toggles \in Nat
    /\ Faults \subseteq {"runtime", "plan", "analyze", "malloc", "report"}

VARIABLES
    batching,   \* _batching
    toggles,
    pc,         \* where the thread of an operation is
    counter,    \* hk_legacy_spec_counter
    seen,       \* the counter as the thread loaded it
    id,         \* stable_hook_id: the number in id_buf
    queue,      \* _queuedOperations
    phase,      \* where the installing thread is
    round,      \* operations of this executeHooks or immediate call
    immediate,  \* it is an immediate call
    rest,       \* what the loop over the snapshot has still to look at
    single,     \* operations still to be executed one by one
    batch,      \* operations to be executed in one plan
    current,    \* operations of the plan at hand
    inBatch,    \* the plan at hand is a batch's
    hooks,      \* operations that were added to it
    prepared,
    mutation,   \* [Ops -> mutation states], the settled results
    available,  \* result.original_available
    runtimes,   \* runtimes alive
    cell,       \* *old_ptr: the "caller"'s value, "null" or "original"
    result,     \* what each operation was answered
    told,       \* what the call that settled the operation returned
    live,       \* ghost: control may reach the replacement
    runs,       \* ghost: how often the operation was settled
    orphaned    \* ghost: batches whose plan could not be created

queueVars == <<batching, toggles, pc, counter, seen, id, queue>>
planVars == <<current, inBatch, hooks, prepared, mutation, available>>
jobVars == <<round, immediate, rest, single, batch>>
userVars == <<cell, result, told, live, runs>>
vars == <<queueVars, phase, planVars, jobVars, userVars, runtimes, orphaned>>

Init ==
    /\ batching \in BOOLEAN
    /\ toggles = 0
    /\ \E asked \in Requests :
          pc = [o \in Ops |-> IF o \in asked THEN "ready" ELSE "absent"]
    /\ counter = 0
    /\ seen = [o \in Ops |-> 0]
    /\ id = [o \in Ops |-> 0]
    /\ queue = <<>>
    /\ phase = "idle"
    /\ immediate = FALSE
    /\ round = <<>> /\ rest = <<>> /\ single = <<>> /\ batch = <<>> /\ current = <<>>
    /\ inBatch = FALSE
    /\ hooks = {} /\ prepared = {}
    /\ mutation = [o \in Ops |-> "NONE"]
    /\ available = [o \in Ops |-> FALSE]
    /\ runtimes = 0
    /\ cell = [o \in Ops |-> "caller"]
    /\ result = [o \in Ops |-> "none"]
    /\ told = [o \in Ops |-> "none"]
    /\ live = [o \in Ops |-> FALSE]
    /\ runs = [o \in Ops |-> 0]
    /\ orphaned = 0

-----------------------------------------------------------------------------
(* The threads that hook.                                                  *)

SetBatching ==
    /\ toggles < Toggles
    /\ batching' = ~batching
    /\ toggles' = toggles + 1
    /\ UNCHANGED <<pc, counter, seen, id, queue, phase, planVars, jobVars,
                   userVars, runtimes, orphaned>>

\* init_spec_id increments the counter without a lock: a load ...
LoadCounter(o) ==
    /\ pc[o] = "ready"
    /\ batching /\ Kind[o] # "memory"
    /\ seen' = [seen EXCEPT ![o] = counter]
    /\ pc' = [pc EXCEPT ![o] = "counting"]
    /\ UNCHANGED <<batching, toggles, counter, id, queue, phase, planVars,
                   jobVars, userVars, runtimes, orphaned>>

\* ... and a store; the number becomes the operation's id.
BuildSpec(o) ==
    /\ pc[o] = "counting"
    /\ counter' = seen[o] + 1
    /\ id' = [id EXCEPT ![o] = seen[o] + 1]
    /\ seen' = [seen EXCEPT ![o] = 0]
    /\ pc' = [pc EXCEPT ![o] = "built"]
    /\ UNCHANGED <<batching, toggles, queue, phase, planVars, jobVars, userVars,
                   runtimes, orphaned>>

\* Under @synchronized(self).  A memory patch has no spec yet.
Enqueue(o) ==
    /\ \/ pc[o] = "built"
       \/ pc[o] = "ready" /\ batching /\ Kind[o] = "memory"
    /\ queue' = Append(queue, o)
    /\ pc' = [pc EXCEPT ![o] = "accepted"]
    /\ UNCHANGED <<batching, toggles, counter, seen, id, phase, planVars, jobVars,
                   userVars, runtimes, orphaned>>

-----------------------------------------------------------------------------
(* The installing thread.                                                  *)

\* A hook call with batching off: the facade clears *old_ptr and applies it.
Immediate(o) ==
    /\ pc[o] = "ready" /\ ~batching /\ phase = "idle"
    /\ pc' = [pc EXCEPT ![o] = "accepted"]
    /\ counter' = IF Kind[o] = "memory" THEN counter ELSE counter + 1
    /\ id' = [id EXCEPT ![o] = counter']
    /\ round' = <<o>> /\ single' = <<o>>
    /\ immediate' = TRUE
    /\ phase' = "next"
    /\ UNCHANGED <<batching, toggles, seen, queue, planVars, rest, batch, userVars,
                   runtimes, orphaned>>

\* Mutant: the snapshot stays in the queue.
DrainedTwice == queue

\* removeAllObjects, in the same critical section as the copy.
Drained == <<>>

\* Mutant: executeHooks looks at the mode.
HasWorkIfBatching == batching /\ queue # <<>>

\* "if (operations.count == 0) return": the mode is not asked again.
HasWork == queue # <<>>

\* executeHooks: the snapshot.
Execute ==
    /\ phase = "idle"
    /\ HasWork
    /\ round' = queue
    /\ rest' = queue
    /\ queue' = Drained
    /\ phase' = "next"
    /\ UNCHANGED <<batching, toggles, pc, counter, seen, id, immediate, single, batch,
                   planVars, userVars, runtimes, orphaned>>

\* The loop over it: a memory patch is executed at once, the others are collected.
Loop ==
    /\ phase = "next" /\ single = <<>> /\ rest # <<>>
    /\ rest' = Tail(rest)
    /\ IF Kind[Head(rest)] = "memory"
       THEN single' = <<Head(rest)>> /\ UNCHANGED batch
       ELSE batch' = Append(batch, Head(rest)) /\ UNCHANGED single
    /\ UNCHANGED <<queueVars, phase, planVars, round, immediate, userVars, runtimes,
                   orphaned>>

\* The next operation on its own; apply_plan clears the cell first.
NextSingle ==
    /\ phase = "next" /\ single # <<>>
    /\ current' = <<Head(single)>>
    /\ single' = Tail(single)
    /\ cell' = [cell EXCEPT ![Head(single)] = IF Head(single) \in WantsOld THEN "null" ELSE @]
    /\ phase' = "runtime"
    /\ UNCHANGED <<queueVars, inBatch, hooks, prepared, mutation, available, round, immediate,
                   rest, batch, result, told, live, runs, runtimes, orphaned>>

NextBatch ==
    /\ phase = "next" /\ rest = <<>> /\ single = <<>> /\ batch # <<>>
    /\ current' = batch
    /\ batch' = <<>>
    /\ inBatch' = TRUE
    /\ phase' = "runtime"
    /\ UNCHANGED <<queueVars, hooks, prepared, mutation, available, round, immediate, rest, single,
                   userVars, runtimes, orphaned>>

\* "Allocation failure: fall back to the per-op path rather than silently
\* dropping queued hooks."
FallBack ==
    /\ phase = "next" /\ rest = <<>> /\ single = <<>> /\ batch # <<>>
    /\ "malloc" \in Faults
    /\ single' = batch
    /\ batch' = <<>>
    /\ UNCHANGED <<queueVars, phase, planVars, round, immediate, rest, userVars,
                   runtimes, orphaned>>

Members == ToSet(current)

\* The plan and its results are gone.
ForgetPlan ==
    /\ current' = <<>> /\ hooks' = {} /\ prepared' = {}
    /\ inBatch' = FALSE
    /\ mutation' = [o \in Ops |-> "NONE"]
    /\ available' = [o \in Ops |-> FALSE]

\* The operations in ops are answered with r.
Settle(ops, r) ==
    /\ result' = [o \in Ops |-> IF o \in ops THEN r ELSE result[o]]
    /\ runs' = [o \in Ops |-> IF o \in ops THEN runs[o] + 1 ELSE runs[o]]

\* The array of a batch's hooks comes before its runtime.
NoHooks ==
    /\ phase = "runtime" /\ inBatch
    /\ "malloc" \in Faults
    /\ Settle(Members, "ERR")
    /\ ForgetPlan
    /\ phase' = "next"
    /\ UNCHANGED <<queueVars, jobVars, cell, told, live, runtimes, orphaned>>

\* hk_legacy_hook_memory before it has a spec: no certified writer, no memory for
\* the bytes it expects, or an unreadable target.
RefuseMemory ==
    /\ phase = "runtime" /\ ~inBatch
    /\ \A o \in Members : Kind[o] = "memory"
    /\ \E r \in {"NOT_SUPPORTED", "ERR", "INVALID"} :
          /\ r = "ERR" => "malloc" \in Faults
          /\ Settle(Members, r)
    /\ ForgetPlan
    /\ phase' = "next"
    /\ UNCHANGED <<queueVars, jobVars, cell, told, live, runtimes, orphaned>>

CreateRuntime ==
    /\ phase = "runtime"
    /\ runtimes' = runtimes + 1
    /\ phase' = "plan"
    /\ UNCHANGED <<queueVars, planVars, jobVars, userVars, orphaned>>

NoRuntime ==
    /\ phase = "runtime"
    /\ "runtime" \in Faults
    /\ Settle(Members, "NOT_SUPPORTED")
    /\ ForgetPlan
    /\ phase' = "next"
    /\ UNCHANGED <<queueVars, jobVars, cell, told, live, runtimes,
                   orphaned>>

CreatePlan ==
    /\ phase = "plan"
    /\ phase' = "add"
    /\ UNCHANGED <<queueVars, planVars, jobVars, userVars, runtimes,
                   orphaned>>

\* A batch returns without releasing the runtime.
NoPlan ==
    /\ phase = "plan"
    /\ "plan" \in Faults
    /\ Settle(Members, "ERR")
    /\ IF inBatch
       THEN phase' = "next" /\ orphaned' = orphaned + 1 /\ ForgetPlan
       ELSE phase' = "release" /\ UNCHANGED <<orphaned, planVars>>
    /\ UNCHANGED <<queueVars, jobVars, cell, told, live, runtimes>>

\* Operations before position n of the plan at hand.
Before(n) == {current[m] : m \in 1 .. (n - 1)}

\* hk_plan_add_hook refuses the operation at position n: one of those added before
\* it has its stable_hook_id ("legacy-objc-N" of a message, "legacy-function-N" of a
\* function) or, looked at once the hook is allocated, its target.
Refused(n, added, lost) ==
    \E p \in Before(n) \cap added :
        /\ Kind[p] = Kind[current[n]]
        /\ \/ id[p] = id[current[n]]
           \/ Target[p] = Target[current[n]] /\ current[n] \notin lost

\* hk_legacy_route_function_spec: what the fishhook adapter cannot name.
Unrouted == Members \cap Unnamed

\* The loop over hk_plan_add_hook; for the operations in lost there is no memory.
AddHooks ==
    \E added \in SUBSET Members, lost \in SUBSET (Members \ Unrouted) :
        LET refused == {current[n] : n \in {k \in 1 .. Len(current) :
                                              Refused(k, added, lost)}} \ Unrouted
        IN  /\ phase = "add"
            /\ lost # {} => "malloc" \in Faults
            /\ added = Members \ (Unrouted \cup lost \cup refused)
            /\ hooks' = added
            /\ result' = [o \in Ops |->
                  CASE o \in Unrouted -> "NOT_SUPPORTED"
                    [] o \in refused -> "INVALID"
                    [] o \in lost \ refused -> "ERR"
                    [] OTHER -> result[o]]
            /\ runs' = [o \in Ops |-> runs[o] + IF o \in Members \ added THEN 1 ELSE 0]
            /\ phase' = IF inBatch \/ added # {} THEN "prepare" ELSE "release"
            /\ UNCHANGED <<queueVars, current, inBatch, prepared, mutation, available,
                           jobVars, cell, told, live, runtimes, orphaned>>

\* hk_plan_analyze and hk_plan_prepare; hooks without a route stay behind.
Prepare(ready) ==
    /\ phase = "prepare"
    /\ prepared' = ready
    \* A lone operation whose original is wanted must be prepared.
    /\ IF ~inBatch /\ hooks \cap WantsOld # {} /\ ready = {}
       THEN Settle(hooks, "ERR") /\ phase' = "release"
       ELSE phase' = "publish" /\ UNCHANGED <<result, runs>>
    /\ UNCHANGED <<queueVars, current, inBatch, hooks, mutation, available, jobVars,
                   cell, told, live, runtimes, orphaned>>

PrepareFails ==
    /\ phase = "prepare"
    /\ "analyze" \in Faults
    /\ IF inBatch
       THEN phase' = "map" /\ UNCHANGED <<result, runs>>
       ELSE phase' = "release" /\ Settle(hooks, "ERR")
    /\ UNCHANGED <<queueVars, planVars, jobVars, cell, told, live, runtimes,
                   orphaned>>

\* Mutant: cells are written when the hooks are active.
PublishedEarlyNever == {}

\* "Early publication for engines that describe a continuation at prepare time".
PublishedEarly == prepared \cap WantsOld \cap Describes

Publish ==
    /\ phase = "publish"
    /\ cell' = [o \in Ops |-> IF o \in PublishedEarly THEN "original" ELSE cell[o]]
    /\ phase' = "commit"
    /\ UNCHANGED <<queueVars, planVars, jobVars, result, told, live, runs, runtimes,
                   orphaned>>

\* hk_plan_commit settles the prepared hooks in turn: an uncertain mutation may have
\* left the replacement reachable, a proven NONE has not.
CommitOne(o, m) ==
    /\ phase = "commit"
    /\ o = SelectSeq(current, LAMBDA c : c \in prepared)[1]
    /\ prepared' = prepared \ {o}
    /\ mutation' = [mutation EXCEPT ![o] = m]
    /\ \E reached \in BOOLEAN :
          /\ m = "COMPLETE" => reached
          /\ m = "NONE" => ~reached
          /\ live' = [live EXCEPT ![o] = reached]
    /\ \E handle \in BOOLEAN :
          /\ handle => m = "COMPLETE" /\ o \in WantsOld
          /\ ~handle /\ m = "COMPLETE" /\ o \in WantsOld => "malloc" \in Faults
          /\ available' = [available EXCEPT ![o] = handle]
    /\ UNCHANGED <<queueVars, phase, current, inBatch, hooks, jobVars, cell, result,
                   told, runs, runtimes, orphaned>>

\* Mutant: every failure clears the cell.
ClearsOnFailure(o) == mutation[o] # "COMPLETE"

\* "Only proven NONE may clear it".
Clears(o) == mutation[o] = "NONE"

\* Mutant: an active hook is a success, with or without its original.
AnswersWithoutOriginal(o, safe) ==
    CASE mutation[o] = "COMPLETE" -> "OK"
      [] mutation[o] = "NONE" -> IF o \in safe THEN "NOT_SUPPORTED" ELSE "ERR"
      [] mutation[o] = "PARTIAL" -> "PARTIAL"
      [] mutation[o] = "UNKNOWN" -> "ERR"

\* Mutant: what is not proven is not supported.
AnswersOptimistic(o, safe) ==
    CASE mutation[o] = "COMPLETE" ->
           IF o \in WantsOld /\ ~available[o] THEN "ERR" ELSE "OK"
      [] mutation[o] = "PARTIAL" -> "PARTIAL"
      [] OTHER -> "NOT_SUPPORTED"

\* map_result, the status.  An operation that changed nothing ends as NO_ROUTE or
\* FAILED_SAFE (it is in safe) or as another outcome (a stale plan, a conflict,
\* a plan that was not analyzed), which map_result does not name.
Answers(o, safe) ==
    CASE mutation[o] = "COMPLETE" ->
           IF o \in WantsOld /\ ~available[o] THEN "ERR" ELSE "OK"
      [] mutation[o] = "NONE" -> IF o \in safe THEN "NOT_SUPPORTED" ELSE "ERR"
      [] mutation[o] = "PARTIAL" -> "PARTIAL"
      [] mutation[o] = "UNKNOWN" -> "ERR"

\* map_result for the hooks that the plan holds.  A lone operation reports that
\* the commit could not allocate its report; a batch does not look.
MapResults ==
    /\ phase \in {"commit", "map"}
    /\ phase = "commit" => prepared = {}
    /\ cell' = [o \in Ops |->
          CASE o \in hooks \cap WantsOld /\ Clears(o) -> "null"
            [] o \in hooks \cap WantsOld /\ available[o] -> "original"
            [] OTHER -> cell[o]]
    /\ \E failed \in BOOLEAN, safe \in SUBSET hooks :
          /\ failed => ~inBatch /\ "report" \in Faults
          /\ result' = [o \in Ops |-> IF o \in hooks
                                      THEN IF failed THEN "ERR" ELSE Answers(o, safe)
                                      ELSE result[o]]
    /\ runs' = [o \in Ops |-> IF o \in hooks THEN runs[o] + 1 ELSE runs[o]]
    /\ phase' = "release"
    /\ UNCHANGED <<queueVars, planVars, jobVars, told, live, runtimes, orphaned>>

\* Mutant: a plan without hooks is not released.
ReleasedIfHooked == IF hooks = {} THEN 0 ELSE 1

\* hk_runtime_release, on every path that got this far.
Released == 1

ReleasePlan ==
    /\ phase = "release"
    /\ runtimes' = runtimes - Released
    /\ ForgetPlan
    /\ phase' = "next"
    /\ UNCHANGED <<queueVars, jobVars, userVars, orphaned>>

\* "HK_OK if all operations succeeded, HK_ERR_PARTIAL if some did"; a call of
\* its own returns its own result.
Overall ==
    LET all == ToSet(round)
        ok == {o \in all : result[o] = "OK"}
    IN  IF ok = all THEN "OK" ELSE IF ok # {} THEN "PARTIAL" ELSE "ERR"

Return ==
    /\ phase = "next" /\ rest = <<>> /\ single = <<>> /\ batch = <<>>
    /\ told' = [o \in Ops |->
          CASE o \notin ToSet(round) -> told[o]
            [] immediate -> result[o]
            [] OTHER -> Overall]
    /\ phase' = "idle"
    /\ round' = <<>>
    /\ immediate' = FALSE
    /\ UNCHANGED <<queueVars, planVars, rest, single, batch, cell, result, live, runs,
                   runtimes, orphaned>>

-----------------------------------------------------------------------------

Clients(o) == LoadCounter(o) \/ BuildSpec(o) \/ Enqueue(o)

Installer ==
    \/ \E o \in Ops : Immediate(o)
    \/ Execute \/ Loop \/ NextSingle \/ NextBatch \/ FallBack
    \/ NoHooks \/ RefuseMemory \/ CreateRuntime \/ NoRuntime \/ CreatePlan \/ NoPlan \/ AddHooks
    \/ \E ready \in SUBSET hooks : Prepare(ready)
    \/ PrepareFails \/ Publish
    \/ \E o \in prepared, m \in {"NONE", "COMPLETE", "PARTIAL", "UNKNOWN"} : CommitOne(o, m)
    \/ MapResults \/ ReleasePlan \/ Return

Next == SetBatching \/ (\E o \in Ops : Clients(o)) \/ Installer

\* Threads run, and the host calls executeHooks after its last hook.
Fairness == WF_vars(Installer) /\ \A o \in Ops : WF_vars(BuildSpec(o) \/ Enqueue(o))

Spec == Init /\ [][Next]_vars /\ Fairness

-----------------------------------------------------------------------------

Pending == ToSet(rest) \cup ToSet(single) \cup ToSet(batch) \cup
           (IF phase \in {"next", "idle"} THEN {} ELSE Members)

Phases == {"idle", "next", "runtime", "plan", "add", "prepare", "publish", "commit",
           "map", "release"}
Mutations == {"NONE", "COMPLETE", "PARTIAL", "UNKNOWN"}
Statuses == {"none", "OK", "ERR", "NOT_SUPPORTED", "INVALID", "PARTIAL"}

\* Type invariant.
TypeOK ==
    /\ batching \in BOOLEAN /\ toggles \in 0 .. Toggles
    /\ pc \in [Ops -> {"absent", "ready", "counting", "built", "accepted"}]
    /\ queue \in Seq(Ops) /\ round \in Seq(Ops) /\ current \in Seq(Ops)
    /\ immediate \in BOOLEAN
    /\ rest \in Seq(Ops) /\ single \in Seq(Ops) /\ batch \in Seq(Ops)
    /\ counter \in Nat /\ seen \in [Ops -> Nat] /\ id \in [Ops -> Nat]
    /\ phase \in Phases
    /\ inBatch \in BOOLEAN /\ hooks \subseteq Ops /\ prepared \subseteq Ops
    /\ mutation \in [Ops -> Mutations]
    /\ available \in [Ops -> BOOLEAN] /\ live \in [Ops -> BOOLEAN]
    /\ runtimes \in Nat /\ orphaned \in Nat
    /\ cell \in [Ops -> {"caller", "null", "original"}]
    /\ result \in [Ops -> Statuses] /\ told \in [Ops -> Statuses]
    /\ runs \in [Ops -> Nat]

\* HookKit.h: "enqueue may race executeHooks, which drains a snapshot under the
\* same lock".  An accepted operation is queued, under way or settled, and
\* never more than one of them, however often the mode changes.
OperationsSettleOnce ==
    \A o \in Ops :
        /\ runs[o] <= 1
        /\ runs[o] = 0 =>
              (o \in ToSet(queue) \cup Pending <=> pc[o] = "accepted")
        /\ runs[o] = 1 =>
              o \notin ToSet(queue) \cup ToSet(rest) \cup ToSet(single) \cup ToSet(batch)

\* HKLegacyFacade.c: "A live replacement may already use an early-published
\* original."  From the moment it can run, through every failure of the plan,
\* its cell holds the original.
LiveKeepsOriginal ==
    \A o \in WantsOld \cap Describes : live[o] => cell[o] = "original"

\* HookKit.h: "off the main thread each returns HK_ERR_NOT_SUPPORTED without
\* writing anything".  What is answered so, or as invalid, did not happen.
\* HookKit.h: "Returns HK_OK if all operations succeeded".  A caller that is
\* told so, for one operation or a batch, may call every original it asked for.
\* HKLegacyFacade.c: "one legacy call is one 3.0 runtime/plan lifecycle": when
\* the call answers, its runtime is gone, but for the batches that got no plan.
CallsEndCleanly ==
    /\ \A o \in Ops :
          /\ result[o] \in {"NOT_SUPPORTED", "INVALID"} => ~live[o]
          /\ told[o] = "OK" =>
                live[o] /\ (o \in WantsOld => cell[o] = "original")
    /\ phase \in {"next", "idle"} => runtimes = orphaned

\* HookKit.h: disabling batching "leaves them queued - they still run at the
\* next executeHooks".
AcceptedOperationsSettle ==
    []<>(\A o \in Ops : pc[o] = "accepted" => runs[o] = 1)

\* HookKit.h: "the batch queue is thread-safe [...] so every queued hook runs
\* exactly once".  No hook is turned away because of one on another target.
QueuedHooksRun ==
    \A o \in Ops : result[o] = "INVALID" /\ Kind[o] # "memory" =>
        \E p \in Ops \ {o} : Target[p] = Target[o] /\ Kind[p] = Kind[o]

=============================================================================
