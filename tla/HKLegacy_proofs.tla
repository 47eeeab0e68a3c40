--------------------------- MODULE HKLegacy_proofs ---------------------------
(***************************************************************************)
(* Proofs about HKLegacy, for any set of operations and requests, any      *)
(* number of mode changes and every choice of faults.                      *)
(***************************************************************************)
EXTENDS HKLegacy, TLAPS

-----------------------------------------------------------------------------
(* Sequences of operations.                                                *)

\* No operation occurs twice.
Distinct(s) == \A i, j \in 1 .. Len(s) : s[i] = s[j] => i = j

\* The elements of a sequence.
LEMMA Elements ==
    ASSUME NEW s \in Seq(Ops)
    PROVE  /\ ToSet(s) = {s[i] : i \in 1 .. Len(s)}
           /\ ToSet(s) \subseteq Ops
           /\ s = <<>> <=> ToSet(s) = {}
  <1>1. ToSet(s) = {s[i] : i \in 1 .. Len(s)}
    BY DEF ToSet
  <1>2. ToSet(s) \subseteq Ops
    BY <1>1
  <1>3. ASSUME s # <<>> PROVE ToSet(s) # {}
    <2>1. Len(s) \in Nat /\ Len(s) # 0
      BY <1>3
    <2>2. 1 \in 1 .. Len(s)
      BY <2>1
    <2> QED
      BY <1>1, <2>2
  <1>4. ASSUME s = <<>> PROVE ToSet(s) = {}
    BY <1>1, <1>4
  <1> QED
    BY <1>1, <1>2, <1>3, <1>4

\* Nothing, and one operation.
LEMMA Singles ==
    /\ <<>> \in Seq(Ops) /\ ToSet(<<>>) = {} /\ Distinct(<<>>)
    /\ \A o \in Ops : <<o>> \in Seq(Ops) /\ ToSet(<<o>>) = {o} /\ Distinct(<<o>>)
  BY DEF ToSet, Distinct

\* A new operation at the end.
LEMMA Appending ==
    ASSUME NEW s \in Seq(Ops), NEW o \in Ops, Distinct(s), o \notin ToSet(s)
    PROVE  /\ Append(s, o) \in Seq(Ops)
           /\ ToSet(Append(s, o)) = ToSet(s) \cup {o}
           /\ Distinct(Append(s, o))
  <1> DEFINE t == Append(s, o)
  <1>1. /\ t \in Seq(Ops) /\ Len(t) = Len(s) + 1 /\ Len(s) \in Nat
        /\ \A i \in 1 .. Len(s) : t[i] = s[i]
        /\ t[Len(s) + 1] = o
    OBVIOUS
  <1> HIDE DEF t
  <1>2. ToSet(s) = {s[i] : i \in 1 .. Len(s)} /\ ToSet(t) = {t[i] : i \in 1 .. Len(t)}
    BY <1>1, Elements
  <1>3. ToSet(t) = ToSet(s) \cup {o}
    <2>1. ASSUME NEW x \in ToSet(t) PROVE x \in ToSet(s) \cup {o}
      <3>1. PICK i \in 1 .. Len(t) : x = t[i]
        BY <1>2, <2>1
      <3>2. CASE i \in 1 .. Len(s)
        BY <1>1, <1>2, <3>1, <3>2
      <3>3. CASE i = Len(s) + 1
        BY <1>1, <3>1, <3>3
      <3> QED
        BY <1>1, <3>1, <3>2, <3>3
    <2>2. ASSUME NEW x \in ToSet(s) PROVE x \in ToSet(t)
      <3>1. PICK i \in 1 .. Len(s) : x = s[i]
        BY <1>2, <2>2
      <3>2. i \in 1 .. Len(t) /\ t[i] = x
        BY <1>1, <3>1
      <3> QED
        BY <1>2, <3>2
    <2>3. o \in ToSet(t)
      <3>1. Len(s) + 1 \in 1 .. Len(t)
        BY <1>1
      <3> QED
        BY <1>1, <1>2, <3>1
    <2> QED
      BY <2>1, <2>2, <2>3
  <1>4. Distinct(t)
    <2>1. SUFFICES ASSUME NEW i \in 1 .. Len(t), NEW j \in 1 .. Len(t), t[i] = t[j], i < j
                   PROVE  FALSE
      BY <1>1 DEF Distinct
    <2>2. i \in 1 .. Len(s) /\ t[i] = s[i] /\ s[i] \in ToSet(s)
      BY <1>1, <1>2, <2>1
    <2>3. CASE j = Len(s) + 1
      BY <1>1, <2>1, <2>2, <2>3
    <2>4. CASE j \in 1 .. Len(s)
      <3>1. s[i] = s[j]
        BY <1>1, <2>1, <2>2, <2>4
      <3>2. i = j
        BY <2>2, <2>4, <3>1 DEF Distinct
      <3> QED
        BY <1>1, <2>1, <3>2
    <2> QED
      BY <1>1, <2>1, <2>3, <2>4
  <1> QED
    BY <1>1, <1>3, <1>4 DEF t

\* The first operation, and what comes after it.
LEMMA Splitting ==
    ASSUME NEW s \in Seq(Ops), s # <<>>, Distinct(s)
    PROVE  /\ Head(s) \in Ops /\ Head(s) \in ToSet(s)
           /\ Tail(s) \in Seq(Ops)
           /\ ToSet(Tail(s)) = ToSet(s) \ {Head(s)}
           /\ Distinct(Tail(s))
  <1> DEFINE t == Tail(s)
  <1>1. /\ t \in Seq(Ops) /\ Len(s) \in Nat /\ Len(s) > 0 /\ Len(t) = Len(s) - 1
        /\ \A i \in 1 .. Len(t) : t[i] = s[i + 1]
        /\ Head(s) = s[1] /\ s[1] \in Ops
    OBVIOUS
  <1> HIDE DEF t
  <1>2. ToSet(s) = {s[i] : i \in 1 .. Len(s)} /\ ToSet(t) = {t[i] : i \in 1 .. Len(t)}
    BY <1>1, Elements
  <1>3. Head(s) \in ToSet(s)
    BY <1>1, <1>2
  <1>4. ToSet(t) = ToSet(s) \ {Head(s)}
    <2>1. ASSUME NEW x \in ToSet(t) PROVE x \in ToSet(s) \ {Head(s)}
      <3>1. PICK i \in 1 .. Len(t) : x = t[i]
        BY <1>2, <2>1
      <3>2. i + 1 \in 1 .. Len(s) /\ x = s[i + 1] /\ i + 1 # 1 /\ 1 \in 1 .. Len(s)
        BY <1>1, <3>1
      <3> QED
        BY <1>1, <1>2, <3>2 DEF Distinct
    <2>2. ASSUME NEW x \in ToSet(s), x # Head(s) PROVE x \in ToSet(t)
      <3>1. PICK i \in 1 .. Len(s) : x = s[i]
        BY <1>2, <2>2
      <3>2. i # 1
        BY <1>1, <2>2, <3>1
      <3>3. i - 1 \in 1 .. Len(t) /\ t[i - 1] = s[(i - 1) + 1] /\ (i - 1) + 1 = i
        BY <1>1, <3>1, <3>2
      <3> QED
        BY <1>2, <3>1, <3>3
    <2> QED
      BY <2>1, <2>2
  <1>5. Distinct(t)
    <2>1. SUFFICES ASSUME NEW i \in 1 .. Len(t), NEW j \in 1 .. Len(t), t[i] = t[j]
                   PROVE  i = j
      BY DEF Distinct
    <2>2. /\ i + 1 \in 1 .. Len(s) /\ j + 1 \in 1 .. Len(s)
          /\ s[i + 1] = s[j + 1]
      BY <1>1, <2>1
    <2>3. i + 1 = j + 1
      BY <2>2 DEF Distinct
    <2> QED
      BY <2>1, <2>3
  <1> QED
    BY <1>1, <1>3, <1>4, <1>5 DEF t

-----------------------------------------------------------------------------
(* The inductive invariant, in four parts.                                 *)

\* Operations that wait, in the order in which they are taken up.
Waiting == ToSet(queue) \cup ToSet(rest) \cup ToSet(single) \cup ToSet(batch)

\* An operation waits in one place, once, or is in the plan at hand.
PlacesDisjoint ==
    /\ Distinct(queue) /\ Distinct(rest) /\ Distinct(single) /\ Distinct(batch)
    /\ ToSet(queue) \cap (ToSet(rest) \cup ToSet(single) \cup ToSet(batch) \cup Members) = {}
    /\ ToSet(rest) \cap (ToSet(single) \cup ToSet(batch) \cup Members) = {}
    /\ ToSet(single) \cap (ToSet(batch) \cup Members) = {}
    /\ ToSet(batch) \cap Members = {}

\* What a phase of the installing thread has and what it has not: a plan has hooks
\* between its building and its release, and they come from its operations.
PhasesKept ==
    /\ phase \in {"idle", "next"} => current = <<>>
    /\ phase = "idle" => rest = <<>> /\ single = <<>> /\ batch = <<>> /\ round = <<>>
    /\ phase \in {"idle", "next", "runtime", "plan", "add"} => hooks = {}
    /\ phase \notin {"publish", "commit"} => prepared = {}
    /\ hooks \subseteq Members /\ prepared \subseteq hooks
    /\ phase \notin {"commit", "release"} => \A o \in Ops : mutation[o] = "NONE"
    /\ runtimes = orphaned +
          IF phase \in {"idle", "next", "runtime"} THEN 0 ELSE 1

\* Accepted operations wait or are in the plan until they are settled, which
\* happens to those that are not hooks of the plan when it is built, and to its
\* hooks before it is released.
SettledOnce ==
    \A o \in Ops :
        /\ runs[o] \in {0, 1}
        /\ o \in Waiting \cup Members \/ runs[o] = 1 => pc[o] = "accepted"
        /\ pc[o] = "accepted" /\ runs[o] = 0 => o \in Waiting \cup Members
        /\ o \in Waiting => runs[o] = 0
        /\ o \in Members =>
              (runs[o] = 0 <=> \/ phase \in {"runtime", "plan", "add"}
                               \/ phase # "release" /\ o \in hooks)
        /\ runs[o] = 0 => result[o] = "none"

\* A replacement becomes reachable in a commit, whose result says so, and with its
\* original in place if that was published before; a success vouches for both.
LiveAccounted ==
    \A o \in Ops :
        /\ live[o] /\ runs[o] = 0 =>
              phase = "commit" /\ o \in hooks \ prepared /\ mutation[o] # "NONE"
        /\ phase = "commit" /\ o \in prepared \cap WantsOld \cap Describes =>
              cell[o] = "original"
        /\ mutation[o] = "COMPLETE" => live[o]
        /\ result[o] = "OK" => live[o] /\ (o \in WantsOld => cell[o] = "original")
        /\ result[o] \in {"NOT_SUPPORTED", "INVALID"} => ~live[o]
        /\ told[o] = "OK" => result[o] = "OK"

-----------------------------------------------------------------------------
\* The first operation of a sequence is one.
LEMMA Heads ==
    ASSUME NEW s \in Seq(Ops), s # <<>>
    PROVE  Head(s) \in Ops /\ Tail(s) \in Seq(Ops)
  OBVIOUS

\* Every step keeps the types.
LEMMA TypeStep ==
    ASSUME TypeOK, PhasesKept, [Next]_vars
    PROVE  TypeOK'
  <1>queue. queue \in Seq(Ops)
    BY DEF TypeOK
  <1>rest. rest \in Seq(Ops)
    BY DEF TypeOK
  <1>single. single \in Seq(Ops)
    BY DEF TypeOK
  <1>batch. batch \in Seq(Ops)
    BY DEF TypeOK
  <1>current. current \in Seq(Ops)
    BY DEF TypeOK
  <1>round. round \in Seq(Ops)
    BY DEF TypeOK
  <1>pc. pc \in [Ops -> {"absent", "ready", "counting", "built", "accepted"}]
    BY DEF TypeOK
  <1>toggles. toggles \in 0 .. Toggles
    BY DEF TypeOK
  <1>counter. counter \in Nat
    BY DEF TypeOK
  <1>id. id \in [Ops -> Nat]
    BY DEF TypeOK
  <1>seen. seen \in [Ops -> Nat]
    BY DEF TypeOK
  <1>phase. phase \in Phases
    BY DEF TypeOK
  <1>mutation. mutation \in [Ops -> Mutations]
    BY DEF TypeOK
  <1>available. available \in [Ops -> BOOLEAN]
    BY DEF TypeOK
  <1>live. live \in [Ops -> BOOLEAN]
    BY DEF TypeOK
  <1>cell. cell \in [Ops -> {"caller", "null", "original"}]
    BY DEF TypeOK
  <1>result. result \in [Ops -> Statuses]
    BY DEF TypeOK
  <1>told. told \in [Ops -> Statuses]
    BY DEF TypeOK
  <1>runs. runs \in [Ops -> Nat]
    BY DEF TypeOK
  <1>runtimes. runtimes \in Nat
    BY DEF TypeOK
  <1>orphaned. orphaned \in Nat
    BY DEF TypeOK
  <1>hooks. hooks \subseteq Ops
    BY DEF TypeOK
  <1>prepared. prepared \subseteq Ops
    BY DEF TypeOK
  <1>1. CASE UNCHANGED vars
    BY <1>1 DEF vars, queueVars, planVars, jobVars, userVars, TypeOK
  <1>2. CASE SetBatching
    <2>1. toggles' \in 0 .. Toggles
      BY <1>2, <1>toggles, OpsAssumption DEF SetBatching
    <2> QED
      BY <1>2, <2>1 DEF SetBatching, queueVars, planVars, jobVars, userVars, TypeOK
  <1>3. ASSUME NEW o \in Ops, LoadCounter(o)
         PROVE  TypeOK'
    BY <1>3 DEF LoadCounter, queueVars, planVars, jobVars, userVars, TypeOK
  <1>4. ASSUME NEW o \in Ops, BuildSpec(o)
         PROVE  TypeOK'
    <2>1. counter' \in Nat
      BY <1>4, <1>counter, <1>seen DEF BuildSpec
    <2>2. id' \in [Ops -> Nat]
      BY <1>4, <1>id, <1>seen DEF BuildSpec
    <2>3. seen' \in [Ops -> Nat]
      BY <1>4, <1>seen DEF BuildSpec
    <2>4. pc' \in [Ops -> {"absent", "ready", "counting", "built", "accepted"}]
      BY <1>4, <1>pc DEF BuildSpec
    <2> QED
      BY <1>4, <2>1, <2>2, <2>3, <2>4
         DEF BuildSpec, queueVars, planVars, jobVars, userVars, TypeOK
  <1>5. ASSUME NEW o \in Ops, Enqueue(o)
         PROVE  TypeOK'
    <2>1. queue' \in Seq(Ops)
      BY <1>5, <1>queue DEF Enqueue
    <2>2. pc' \in [Ops -> {"absent", "ready", "counting", "built", "accepted"}]
      BY <1>5, <1>pc DEF Enqueue
    <2> QED
      BY <1>5, <2>1, <2>2
         DEF Enqueue, queueVars, planVars, jobVars, userVars, TypeOK
  <1>6. ASSUME NEW o \in Ops, Immediate(o)
         PROVE  TypeOK'
    <2>1. pc' \in [Ops -> {"absent", "ready", "counting", "built", "accepted"}]
      BY <1>6, <1>pc DEF Immediate
    <2>2. counter' \in Nat
      BY <1>6, <1>counter DEF Immediate
    <2>3. id' \in [Ops -> Nat]
      BY <1>6, <1>id, <1>counter DEF Immediate
    <2>4. round' \in Seq(Ops)
      BY <1>6, <1>round, Singles DEF Immediate
    <2>5. single' \in Seq(Ops)
      BY <1>6, <1>single, Singles DEF Immediate
    <2>6. phase' \in Phases
      BY <1>6, <1>phase DEF Immediate, Phases
    <2> QED
      BY <1>6, <2>1, <2>2, <2>3, <2>4, <2>5, <2>6
         DEF Immediate, queueVars, planVars, jobVars, userVars, TypeOK
  <1>7. CASE Execute
    <2>1. round' \in Seq(Ops)
      BY <1>7, <1>round, <1>queue DEF Execute
    <2>2. rest' \in Seq(Ops)
      BY <1>7, <1>rest, <1>queue DEF Execute
    <2>3. queue' \in Seq(Ops)
      BY <1>7, <1>queue, Singles DEF Execute, Drained
    <2>4. phase' \in Phases
      BY <1>7, <1>phase DEF Execute, Phases
    <2> QED
      BY <1>7, <2>1, <2>2, <2>3, <2>4
         DEF Execute, queueVars, planVars, jobVars, userVars, TypeOK
  <1>8. CASE Loop
    <2>1. rest' \in Seq(Ops)
      BY <1>8, <1>rest DEF Loop
    <2>2. single' \in Seq(Ops)
      BY <1>8, <1>single, <1>rest, Singles, Heads DEF Loop
    <2>3. batch' \in Seq(Ops)
      BY <1>8, <1>batch, <1>rest, Heads DEF Loop
    <2> QED
      BY <1>8, <2>1, <2>2, <2>3
         DEF Loop, queueVars, planVars, jobVars, userVars, TypeOK
  <1>9. CASE NextSingle
    <2>1. current' \in Seq(Ops)
      BY <1>9, <1>current, <1>single, Heads, Singles DEF NextSingle
    <2>2. single' \in Seq(Ops)
      BY <1>9, <1>single DEF NextSingle
    <2>3. cell' \in [Ops -> {"caller", "null", "original"}]
      BY <1>9, <1>cell, <1>single, Heads DEF NextSingle
    <2>4. phase' \in Phases
      BY <1>9, <1>phase DEF NextSingle, Phases
    <2> QED
      BY <1>9, <2>1, <2>2, <2>3, <2>4
         DEF NextSingle, queueVars, planVars, jobVars, userVars, TypeOK
  <1>10. CASE NextBatch
    <2>1. current' \in Seq(Ops)
      BY <1>10, <1>current, <1>batch DEF NextBatch
    <2>2. batch' \in Seq(Ops)
      BY <1>10, <1>batch, Singles DEF NextBatch
    <2>3. phase' \in Phases
      BY <1>10, <1>phase DEF NextBatch, Phases
    <2> QED
      BY <1>10, <2>1, <2>2, <2>3
         DEF NextBatch, queueVars, planVars, jobVars, userVars, TypeOK
  <1>11. CASE FallBack
    <2>1. single' \in Seq(Ops)
      BY <1>11, <1>single, <1>batch DEF FallBack
    <2>2. batch' \in Seq(Ops)
      BY <1>11, <1>batch, Singles DEF FallBack
    <2> QED
      BY <1>11, <2>1, <2>2
         DEF FallBack, queueVars, planVars, jobVars, userVars, TypeOK
  <1>12. CASE NoHooks
    <2>1. result' \in [Ops -> Statuses]
      BY <1>12, <1>result DEF NoHooks, Settle, Statuses
    <2>2. runs' \in [Ops -> Nat]
      BY <1>12, <1>runs DEF NoHooks, Settle
    <2>3. phase' \in Phases
      BY <1>12, <1>phase DEF NoHooks, Phases
    <2>4. mutation' \in [Ops -> Mutations]
      BY <1>12, <1>mutation DEF NoHooks, ForgetPlan, Mutations
    <2>5. available' \in [Ops -> BOOLEAN]
      BY <1>12, <1>available DEF NoHooks, ForgetPlan
    <2>6. current' \in Seq(Ops)
      BY <1>12, <1>current, Singles DEF NoHooks, ForgetPlan
    <2> QED
      BY <1>12, <2>1, <2>2, <2>3, <2>4, <2>5, <2>6
         DEF NoHooks, ForgetPlan, queueVars, planVars, jobVars, userVars, TypeOK
  <1>13. CASE CreateRuntime
    <2>1. runtimes' \in Nat
      BY <1>13, <1>runtimes DEF CreateRuntime
    <2>2. phase' \in Phases
      BY <1>13, <1>phase DEF CreateRuntime, Phases
    <2> QED
      BY <1>13, <2>1, <2>2
         DEF CreateRuntime, queueVars, planVars, jobVars, userVars, TypeOK
  <1>14. CASE NoRuntime
    <2>1. result' \in [Ops -> Statuses]
      BY <1>14, <1>result DEF NoRuntime, Settle, Statuses
    <2>2. runs' \in [Ops -> Nat]
      BY <1>14, <1>runs DEF NoRuntime, Settle
    <2>3. phase' \in Phases
      BY <1>14, <1>phase DEF NoRuntime, Phases
    <2>4. mutation' \in [Ops -> Mutations]
      BY <1>14, <1>mutation DEF NoRuntime, ForgetPlan, Mutations
    <2>5. available' \in [Ops -> BOOLEAN]
      BY <1>14, <1>available DEF NoRuntime, ForgetPlan
    <2>6. current' \in Seq(Ops)
      BY <1>14, <1>current, Singles DEF NoRuntime, ForgetPlan
    <2> QED
      BY <1>14, <2>1, <2>2, <2>3, <2>4, <2>5, <2>6
         DEF NoRuntime, ForgetPlan, queueVars, planVars, jobVars, userVars, TypeOK
  <1>25. CASE RefuseMemory
    <2>1. result' \in [Ops -> Statuses]
      BY <1>25, <1>result DEF RefuseMemory, Settle, Statuses
    <2>2. runs' \in [Ops -> Nat]
      BY <1>25, <1>runs DEF RefuseMemory, Settle
    <2>3. phase' \in Phases
      BY <1>25, <1>phase DEF RefuseMemory, Phases
    <2>4. mutation' \in [Ops -> Mutations]
      BY <1>25, <1>mutation DEF RefuseMemory, ForgetPlan, Mutations
    <2>5. available' \in [Ops -> BOOLEAN]
      BY <1>25, <1>available DEF RefuseMemory, ForgetPlan
    <2>6. current' \in Seq(Ops)
      BY <1>25, <1>current, Singles DEF RefuseMemory, ForgetPlan
    <2> QED
      BY <1>25, <2>1, <2>2, <2>3, <2>4, <2>5, <2>6
         DEF RefuseMemory, ForgetPlan, queueVars, planVars, jobVars, userVars, TypeOK
  <1>15. CASE CreatePlan
    <2>1. phase' \in Phases
      BY <1>15, <1>phase DEF CreatePlan, Phases
    <2> QED
      BY <1>15, <2>1 DEF CreatePlan, queueVars, planVars, jobVars, userVars, TypeOK
  <1>16. CASE NoPlan
    <2>1. result' \in [Ops -> Statuses]
      BY <1>16, <1>result DEF NoPlan, Settle, Statuses
    <2>2. runs' \in [Ops -> Nat]
      BY <1>16, <1>runs DEF NoPlan, Settle
    <2>3. phase' \in Phases
      BY <1>16, <1>phase DEF NoPlan, Phases
    <2>4. mutation' \in [Ops -> Mutations]
      BY <1>16, <1>mutation DEF NoPlan, ForgetPlan, Mutations, planVars
    <2>5. available' \in [Ops -> BOOLEAN]
      BY <1>16, <1>available DEF NoPlan, ForgetPlan, planVars
    <2>6. current' \in Seq(Ops)
      BY <1>16, <1>current, Singles DEF NoPlan, ForgetPlan, planVars
    <2>7. hooks' \subseteq Ops
      BY <1>16, <1>hooks DEF NoPlan, ForgetPlan, planVars
    <2>8. prepared' \subseteq Ops
      BY <1>16, <1>prepared DEF NoPlan, ForgetPlan, planVars
    <2>9. orphaned' \in Nat
      BY <1>16, <1>orphaned DEF NoPlan
    <2> QED
      BY <1>16, <2>1, <2>2, <2>3, <2>4, <2>5, <2>6, <2>7, <2>8, <2>9
         DEF NoPlan, ForgetPlan, queueVars, planVars, jobVars, userVars, TypeOK
  <1>17. CASE AddHooks
    <2>1. result' \in [Ops -> Statuses]
      <3>1. PICK added \in SUBSET Members, lost \in SUBSET (Members \ Unrouted) :
               LET refused == {current[n] : n \in {k \in 1 .. Len(current) :
                                                     Refused(k, added, lost)}} \ Unrouted
               IN  result' = [o \in Ops |->
                      CASE o \in Unrouted -> "NOT_SUPPORTED"
                        [] o \in refused -> "INVALID"
                        [] o \in lost \ refused -> "ERR"
                        [] OTHER -> result[o]]
        BY <1>17 DEF AddHooks
      <3> QED
        BY <1>result, <3>1 DEF Statuses
    <2>2. runs' \in [Ops -> Nat]
      BY <1>17, <1>runs DEF AddHooks
    <2>3. phase' \in Phases
      BY <1>17, <1>phase DEF AddHooks, Phases
    <2>4. hooks' \subseteq Ops
      BY <1>17, <1>hooks, Elements, <1>current DEF AddHooks, Members
    <2>5. UNCHANGED <<queueVars, current, inBatch, prepared, mutation, available,
                      jobVars, cell, told, live, runtimes, orphaned>>
      BY <1>17 DEF AddHooks
    <2> QED
      BY <2>1, <2>2, <2>3, <2>4, <2>5
         DEF queueVars, planVars, jobVars, userVars, TypeOK
  <1>18. ASSUME NEW ready \in SUBSET hooks, Prepare(ready)
         PROVE  TypeOK'
    <2>1. result' \in [Ops -> Statuses]
      BY <1>18, <1>result DEF Prepare, Settle, Statuses
    <2>2. runs' \in [Ops -> Nat]
      BY <1>18, <1>runs DEF Prepare, Settle
    <2>3. phase' \in Phases
      BY <1>18, <1>phase DEF Prepare, Phases
    <2>4. prepared' \subseteq Ops
      BY <1>18, <1>prepared, <1>hooks DEF Prepare
    <2> QED
      BY <1>18, <2>1, <2>2, <2>3, <2>4
         DEF Prepare, queueVars, planVars, jobVars, userVars, TypeOK
  <1>19. CASE PrepareFails
    <2>1. result' \in [Ops -> Statuses]
      BY <1>19, <1>result DEF PrepareFails, Settle, Statuses
    <2>2. runs' \in [Ops -> Nat]
      BY <1>19, <1>runs DEF PrepareFails, Settle
    <2>3. phase' \in Phases
      BY <1>19, <1>phase DEF PrepareFails, Phases
    <2> QED
      BY <1>19, <2>1, <2>2, <2>3
         DEF PrepareFails, queueVars, planVars, jobVars, userVars, TypeOK
  <1>20. CASE Publish
    <2>1. cell' \in [Ops -> {"caller", "null", "original"}]
      BY <1>20, <1>cell DEF Publish
    <2>2. phase' \in Phases
      BY <1>20, <1>phase DEF Publish, Phases
    <2> QED
      BY <1>20, <2>1, <2>2
         DEF Publish, queueVars, planVars, jobVars, userVars, TypeOK
  <1>21. ASSUME NEW o \in prepared,
                NEW m \in {"NONE", "COMPLETE", "PARTIAL", "UNKNOWN"}, CommitOne(o, m)
         PROVE  TypeOK'
    <2>1. prepared' \subseteq Ops
      BY <1>21, <1>prepared DEF CommitOne
    <2>2. mutation' \in [Ops -> Mutations]
      BY <1>21, <1>mutation DEF CommitOne, Mutations
    <2>3. live' \in [Ops -> BOOLEAN]
      BY <1>21, <1>live DEF CommitOne
    <2>4. available' \in [Ops -> BOOLEAN]
      BY <1>21, <1>available DEF CommitOne
    <2> QED
      BY <1>21, <2>1, <2>2, <2>3, <2>4
         DEF CommitOne, queueVars, planVars, jobVars, userVars, TypeOK
  <1>22. CASE MapResults
    <2>1. cell' \in [Ops -> {"caller", "null", "original"}]
      BY <1>22, <1>cell DEF MapResults
    <2>2. result' \in [Ops -> Statuses]
      BY <1>22, <1>result, <1>mutation DEF MapResults, Answers, Statuses, Mutations
    <2>3. runs' \in [Ops -> Nat]
      BY <1>22, <1>runs DEF MapResults
    <2>4. phase' \in Phases
      BY <1>22, <1>phase DEF MapResults, Phases
    <2> QED
      BY <1>22, <2>1, <2>2, <2>3, <2>4
         DEF MapResults, queueVars, planVars, jobVars, userVars, TypeOK
  <1>23. CASE ReleasePlan
    <2>1. runtimes' \in Nat
      BY <1>23, <1>runtimes, <1>orphaned DEF ReleasePlan, Released, PhasesKept
    <2>2. mutation' \in [Ops -> Mutations]
      BY <1>23, <1>mutation DEF ReleasePlan, ForgetPlan, Mutations
    <2>3. available' \in [Ops -> BOOLEAN]
      BY <1>23, <1>available DEF ReleasePlan, ForgetPlan
    <2>4. current' \in Seq(Ops)
      BY <1>23, <1>current, Singles DEF ReleasePlan, ForgetPlan
    <2>5. phase' \in Phases
      BY <1>23, <1>phase DEF ReleasePlan, Phases
    <2> QED
      BY <1>23, <2>1, <2>2, <2>3, <2>4, <2>5
         DEF ReleasePlan, ForgetPlan, queueVars, planVars, jobVars, userVars,
             TypeOK
  <1>24. CASE Return
    <2>1. told' \in [Ops -> Statuses]
      BY <1>24, <1>told, <1>result DEF Return, Overall, Statuses
    <2>2. phase' \in Phases
      BY <1>24, <1>phase DEF Return, Phases
    <2>3. round' \in Seq(Ops)
      BY <1>24, <1>round, Singles DEF Return
    <2> QED
      BY <1>24, <2>1, <2>2, <2>3
         DEF Return, queueVars, planVars, jobVars, userVars, TypeOK
  <1> QED
    BY <1>1, <1>2, <1>3, <1>4, <1>5, <1>6, <1>7, <1>8, <1>9, <1>10, <1>11,
       <1>12, <1>13, <1>14, <1>15, <1>16, <1>17, <1>18, <1>19, <1>20, <1>21,
       <1>22, <1>23, <1>24, <1>25
       DEF Next, Clients, Installer

\* A plan whose operations were all still to be settled is answered and forgotten.
LEMMA DroppedPlan ==
    ASSUME TypeOK, PlacesDisjoint, PhasesKept, SettledOnce, LiveAccounted,
           phase \in {"runtime", "plan"}, phase' = "next",
           NEW r \in {"ERR", "NOT_SUPPORTED", "INVALID"}, Settle(Members, r), ForgetPlan,
           UNCHANGED <<pc, queue, rest, single, batch, round, cell, told, live>>,
           runtimes' = orphaned', orphaned' \in Nat
    PROVE  PlacesDisjoint' /\ PhasesKept' /\ SettledOnce' /\ LiveAccounted'
  <1>1. runs \in [Ops -> Nat]
    BY DEF TypeOK
  <1>2. \A o \in Ops : /\ runs'[o] = IF o \in Members THEN runs[o] + 1 ELSE runs[o]
                       /\ result'[o] = IF o \in Members THEN r ELSE result[o]
    BY DEF Settle
  <1>3. /\ current' = <<>> /\ hooks' = {} /\ prepared' = {} /\ Members' = {}
        /\ \A o \in Ops : mutation'[o] = "NONE"
    BY Singles DEF ForgetPlan, Members
  <1>4. PlacesDisjoint'
    BY <1>3 DEF PlacesDisjoint
  <1>5. PhasesKept'
    <2>1. runtimes' = orphaned' + 0
      <3>1. \A n \in Nat : n = n + 0
        OBVIOUS
      <3> QED
        BY ONLY <3>1, runtimes' = orphaned', orphaned' \in Nat
    <2>2. hooks' \subseteq Members' /\ prepared' \subseteq hooks'
      BY <1>3
    <2> QED
      BY <1>3, <2>1, <2>2 DEF PhasesKept
  <1>6. Waiting' = Waiting /\ Waiting \cap Members = {}
    BY DEF Waiting, PlacesDisjoint
  <1>7. \A o \in Members \cap Ops : runs[o] = 0 /\ ~live[o] /\ told[o] # "OK"
    BY DEF SettledOnce, LiveAccounted
  <1>8. SettledOnce'
    BY <1>1, <1>2, <1>3, <1>6, <1>7 DEF SettledOnce
  <1>9. LiveAccounted'
    BY <1>2, <1>3, <1>7 DEF LiveAccounted
  <1> QED
    BY <1>4, <1>5, <1>8, <1>9

\* Every step keeps the other parts.
LEMMA PartsStep ==
    ASSUME TypeOK, PlacesDisjoint, PhasesKept, SettledOnce, LiveAccounted, [Next]_vars
    PROVE  PlacesDisjoint' /\ PhasesKept' /\ SettledOnce' /\ LiveAccounted'
  <1>types. /\ phase \in Phases
            /\ pc \in [Ops -> {"absent", "ready", "counting", "built", "accepted"}]
            /\ runs \in [Ops -> Nat]
            /\ result \in [Ops -> Statuses]
            /\ mutation \in [Ops -> Mutations]
            /\ live \in [Ops -> BOOLEAN]
            /\ cell \in [Ops -> {"caller", "null", "original"}]
            /\ runtimes \in Nat
            /\ orphaned \in Nat
    BY DEF TypeOK
  <1>seqs. /\ queue \in Seq(Ops) /\ rest \in Seq(Ops) /\ single \in Seq(Ops)
           /\ batch \in Seq(Ops) /\ current \in Seq(Ops)
    BY DEF TypeOK
  <1>1. CASE UNCHANGED vars
    <2>1. PlacesDisjoint'
      BY <1>1
         DEF vars, queueVars, planVars, jobVars, userVars, PlacesDisjoint, Members
    <2>2. PhasesKept'
      BY <1>1, <1>types
         DEF vars, queueVars, planVars, jobVars, userVars, PhasesKept, Members
    <2>3. SettledOnce'
      BY <1>1, <1>types
         DEF vars, queueVars, planVars, jobVars, userVars, SettledOnce, Waiting,
             Members, PhasesKept
    <2>4. LiveAccounted'
      BY <1>1, <1>types
         DEF vars, queueVars, planVars, jobVars, userVars, LiveAccounted,
             PhasesKept, SettledOnce
    <2> QED
      BY <2>1, <2>2, <2>3, <2>4
  <1>2. CASE SetBatching
    <2>1. PlacesDisjoint'
      BY <1>2
         DEF SetBatching, queueVars, planVars, jobVars, userVars, PlacesDisjoint,
             Members
    <2>2. PhasesKept'
      BY <1>2, <1>types
         DEF SetBatching, queueVars, planVars, jobVars, userVars, PhasesKept,
             Members
    <2>3. SettledOnce'
      BY <1>2, <1>types
         DEF SetBatching, queueVars, planVars, jobVars, userVars, SettledOnce,
             Waiting, Members, PhasesKept
    <2>4. LiveAccounted'
      BY <1>2, <1>types
         DEF SetBatching, queueVars, planVars, jobVars, userVars, LiveAccounted,
             PhasesKept, SettledOnce
    <2> QED
      BY <2>1, <2>2, <2>3, <2>4
  <1>3. ASSUME NEW o \in Ops, LoadCounter(o)
         PROVE  PlacesDisjoint' /\ PhasesKept' /\ SettledOnce' /\ LiveAccounted'
    <2>1. PlacesDisjoint'
      BY <1>3
         DEF LoadCounter, queueVars, planVars, jobVars, userVars, PlacesDisjoint,
             Members
    <2>2. PhasesKept'
      BY <1>3, <1>types
         DEF LoadCounter, queueVars, planVars, jobVars, userVars, PhasesKept,
             Members
    <2>3. SettledOnce'
      BY <1>3, <1>types
         DEF LoadCounter, queueVars, planVars, jobVars, userVars, SettledOnce,
             Waiting, Members, PhasesKept
    <2>4. LiveAccounted'
      BY <1>3, <1>types
         DEF LoadCounter, queueVars, planVars, jobVars, userVars, LiveAccounted,
             PhasesKept, SettledOnce
    <2> QED
      BY <2>1, <2>2, <2>3, <2>4
  <1>4. ASSUME NEW o \in Ops, BuildSpec(o)
         PROVE  PlacesDisjoint' /\ PhasesKept' /\ SettledOnce' /\ LiveAccounted'
    <2>1. PlacesDisjoint'
      BY <1>4
         DEF BuildSpec, queueVars, planVars, jobVars, userVars, PlacesDisjoint,
             Members
    <2>2. PhasesKept'
      BY <1>4, <1>types
         DEF BuildSpec, queueVars, planVars, jobVars, userVars, PhasesKept, Members
    <2>3. SettledOnce'
      BY <1>4, <1>types
         DEF BuildSpec, queueVars, planVars, jobVars, userVars, SettledOnce,
             Waiting, Members, PhasesKept
    <2>4. LiveAccounted'
      BY <1>4, <1>types
         DEF BuildSpec, queueVars, planVars, jobVars, userVars, LiveAccounted,
             PhasesKept, SettledOnce
    <2> QED
      BY <2>1, <2>2, <2>3, <2>4
  <1>5. ASSUME NEW o \in Ops, Enqueue(o)
         PROVE  PlacesDisjoint' /\ PhasesKept' /\ SettledOnce' /\ LiveAccounted'
    <2>1. pc[o] # "accepted" /\ runs[o] = 0
      BY <1>5, <1>types DEF Enqueue, SettledOnce
    <2>2. o \notin Waiting \cup Members
      BY <2>1 DEF SettledOnce
    <2>3. ToSet(queue') = ToSet(queue) \cup {o} /\ Distinct(queue')
      BY <1>5, <2>2, <1>seqs, Appending DEF Enqueue, Waiting, PlacesDisjoint
    <2>4. UNCHANGED <<rest, single, batch, round, current, hooks, prepared, phase, mutation,
                      runtimes, orphaned, runs, result, live, cell, told>>
      BY <1>5 DEF Enqueue, jobVars, planVars, userVars
    <2>5. pc'[o] = "accepted" /\ \A p \in Ops : p # o => pc'[p] = pc[p]
      BY <1>5, <1>types DEF Enqueue
    <2>6. PlacesDisjoint'
      BY <2>2, <2>3, <2>4 DEF PlacesDisjoint, Members, Waiting
    <2>7. PhasesKept'
      BY <2>4 DEF PhasesKept, Members
    <2>8. SettledOnce'
      <3>1. Waiting' = Waiting \cup {o} /\ Members' = Members
        BY <2>3, <2>4 DEF Waiting, Members
      <3> QED
        BY <2>1, <2>2, <2>4, <2>5, <3>1 DEF SettledOnce
    <2>9. LiveAccounted'
      BY <2>4 DEF LiveAccounted
    <2> QED
      BY <2>6, <2>7, <2>8, <2>9
  <1>6. ASSUME NEW o \in Ops, Immediate(o)
         PROVE  PlacesDisjoint' /\ PhasesKept' /\ SettledOnce' /\ LiveAccounted'
    <2>1. pc[o] # "accepted" /\ runs[o] = 0 /\ phase = "idle"
      BY <1>6, <1>types DEF Immediate, SettledOnce
    <2>2. o \notin Waiting \cup Members
      BY <2>1 DEF SettledOnce
    <2>3. ToSet(single) = {} /\ Members = {} /\ current = <<>>
      BY <2>1, Singles DEF PhasesKept, Members
    <2>4. ToSet(single') = {o} /\ Distinct(single')
      BY <1>6, Singles DEF Immediate
    <2>5. UNCHANGED <<queue, rest, batch, current, hooks, prepared, mutation,
                      runtimes, orphaned, runs, result, live, cell, told>>
      BY <1>6 DEF Immediate, planVars, userVars
    <2>6. phase' = "next" /\ pc'[o] = "accepted" /\ \A p \in Ops : p # o => pc'[p] = pc[p]
      BY <1>6, <1>types DEF Immediate
    <2>7. PlacesDisjoint'
      BY <2>2, <2>3, <2>4, <2>5 DEF PlacesDisjoint, Members, Waiting
    <2>8. PhasesKept'
      BY <2>1, <2>5, <2>6 DEF PhasesKept, Members
    <2>9. SettledOnce'
      BY <2>1, <2>2, <2>3, <2>4, <2>5, <2>6 DEF SettledOnce, Members, Waiting
    <2>10. LiveAccounted'
      BY <2>1, <2>5, <2>6 DEF LiveAccounted
    <2> QED
      BY <2>7, <2>8, <2>9, <2>10
  <1>7. CASE Execute
    <2>1. phase = "idle" /\ phase' = "next" /\ rest' = queue /\ queue' = <<>>
      BY <1>7 DEF Execute, Drained
    <2>2. UNCHANGED <<pc, single, batch, current, hooks, prepared, mutation, cell,
                      runtimes, orphaned, runs, result, live, told>>
      BY <1>7 DEF Execute, planVars, userVars
    <2>3. rest = <<>> /\ Members = {} /\ ToSet(<<>>) = {} /\ Distinct(<<>>)
      BY <2>1, Singles DEF PhasesKept, Members
    <2>4. PlacesDisjoint'
      BY <2>1, <2>2, <2>3 DEF PlacesDisjoint, Members
    <2>5. PhasesKept'
      BY <2>1, <2>2 DEF PhasesKept, Members
    <2>6. SettledOnce'
      BY <2>1, <2>2, <2>3 DEF SettledOnce, Members, Waiting
    <2>7. LiveAccounted'
      BY <2>1, <2>2 DEF LiveAccounted
    <2> QED
      BY <2>4, <2>5, <2>6, <2>7
  <1>8. CASE Loop
    <2> DEFINE first == Head(rest)
    <2>1. phase = "next" /\ single = <<>> /\ rest # <<>>
      BY <1>8 DEF Loop
    <2>2. UNCHANGED <<pc, queue, phase, current, hooks, prepared, mutation, cell,
                      runtimes, orphaned, runs, result, live, told>>
      BY <1>8 DEF Loop, queueVars, planVars, userVars
    <2>3. /\ first \in ToSet(rest) /\ first \in Ops
          /\ ToSet(rest') = ToSet(rest) \ {first} /\ Distinct(rest')
      BY <1>8, <2>1, <1>seqs, Splitting DEF Loop, PlacesDisjoint
    <2>4. first \notin ToSet(queue) \cup ToSet(single) \cup ToSet(batch) \cup Members
      BY <2>3 DEF PlacesDisjoint
    <2> HIDE DEF first
    <2>5. ToSet(single) = {}
      BY <2>1, Singles
    <2>6. /\ Distinct(single') /\ Distinct(batch')
          /\ \/ ToSet(single') = {first} /\ ToSet(batch') = ToSet(batch)
             \/ ToSet(single') = {} /\ ToSet(batch') = ToSet(batch) \cup {first}
      <3>1. \/ single' = <<first>> /\ batch' = batch
            \/ batch' = Append(batch, first) /\ single' = single
        BY <1>8 DEF Loop, first
      <3>2. CASE single' = <<first>> /\ batch' = batch
        BY <3>2, <2>3, Singles DEF PlacesDisjoint
      <3>3. CASE batch' = Append(batch, first) /\ single' = single
        BY <3>3, <2>3, <2>4, <2>5, <1>seqs, Appending DEF PlacesDisjoint
      <3> QED
        BY <3>1, <3>2, <3>3
    <2>7. PlacesDisjoint'
      BY <2>2, <2>3, <2>4, <2>5, <2>6 DEF PlacesDisjoint, Members
    <2>8. PhasesKept'
      BY <2>1, <2>2 DEF PhasesKept, Members
    <2>9. Waiting' = Waiting /\ Members' = Members
      BY <2>2, <2>3, <2>5, <2>6 DEF Waiting, Members
    <2>10. SettledOnce'
      BY <2>2, <2>9 DEF SettledOnce
    <2>11. LiveAccounted'
      BY <2>2 DEF LiveAccounted
    <2> QED
      BY <2>7, <2>8, <2>10, <2>11
  <1>9. CASE NextSingle
    <2> DEFINE first == Head(single)
    <2>1. phase = "next" /\ phase' = "runtime" /\ single # <<>> /\ current' = <<first>>
      BY <1>9 DEF NextSingle
    <2>2. UNCHANGED <<pc, queue, rest, batch, hooks, prepared, mutation, round,
                      runtimes, orphaned, runs, result, live, told>>
      BY <1>9 DEF NextSingle, queueVars
    <2>3. /\ first \in ToSet(single) /\ first \in Ops
          /\ ToSet(single') = ToSet(single) \ {first} /\ Distinct(single')
      BY <1>9, <2>1, <1>seqs, Splitting DEF NextSingle, PlacesDisjoint
    <2>4. \A p \in Ops : p # first => cell'[p] = cell[p]
      BY <1>9, <1>types DEF NextSingle
    <2>5. Members = {} /\ Members' = {first}
      BY <2>1, <2>3, Singles DEF PhasesKept, Members
    <2>6. first \notin ToSet(queue) \cup ToSet(rest) \cup ToSet(batch)
      BY <2>3 DEF PlacesDisjoint
    <2>7. runs[first] = 0 /\ ~live[first] /\ result[first] = "none"
      BY <2>1, <2>3 DEF SettledOnce, LiveAccounted, Waiting
    <2> HIDE DEF first
    <2>8. PlacesDisjoint'
      BY <2>2, <2>3, <2>5, <2>6 DEF PlacesDisjoint
    <2>9. PhasesKept'
      BY <2>1, <2>2 DEF PhasesKept
    <2>10. Waiting' = Waiting \ {first} /\ first \in Waiting
      BY <2>2, <2>3, <2>6 DEF Waiting
    <2>11. SettledOnce'
      BY <2>1, <2>2, <2>5, <2>7, <2>10 DEF SettledOnce
    <2>12. LiveAccounted'
      BY <2>1, <2>2, <2>4, <2>7 DEF LiveAccounted
    <2> QED
      BY <2>8, <2>9, <2>11, <2>12
  <1>10. CASE NextBatch
    <2>1. /\ phase = "next" /\ phase' = "runtime"
          /\ current' = batch /\ batch' = <<>>
      BY <1>10 DEF NextBatch
    <2>2. UNCHANGED <<pc, queue, rest, single, hooks, prepared, mutation, round, cell,
                      runtimes, orphaned, runs, result, live, told>>
      BY <1>10 DEF NextBatch, queueVars, userVars
    <2>3. Members = {} /\ Members' = ToSet(batch) /\ ToSet(batch') = {} /\ Distinct(batch')
      BY <2>1, Singles DEF PhasesKept, Members
    <2>4. PlacesDisjoint'
      BY <2>2, <2>3 DEF PlacesDisjoint
    <2>5. PhasesKept'
      BY <2>1, <2>2 DEF PhasesKept
    <2>6. Waiting' = Waiting \ ToSet(batch) /\ ToSet(batch) \subseteq Waiting
      BY <2>2, <2>3 DEF Waiting, PlacesDisjoint
    <2>7. SettledOnce'
      BY <2>1, <2>2, <2>3, <2>6 DEF SettledOnce
    <2>8. LiveAccounted'
      BY <2>1, <2>2 DEF LiveAccounted
    <2> QED
      BY <2>4, <2>5, <2>7, <2>8
  <1>11. CASE FallBack
    <2>1. phase = "next" /\ single = <<>> /\ single' = batch /\ batch' = <<>>
      BY <1>11 DEF FallBack
    <2>2. UNCHANGED <<pc, queue, rest, phase, current, hooks, prepared, mutation, round,
                      cell, runtimes, orphaned, runs, result, live, told>>
      BY <1>11 DEF FallBack, queueVars, planVars, userVars
    <2>3. ToSet(single) = {} /\ ToSet(batch') = {} /\ Distinct(batch')
      BY <2>1, Singles
    <2>4. PlacesDisjoint'
      BY <2>1, <2>2, <2>3 DEF PlacesDisjoint, Members
    <2>5. PhasesKept'
      BY <2>1, <2>2 DEF PhasesKept, Members
    <2>6. Waiting' = Waiting /\ Members' = Members
      BY <2>1, <2>2, <2>3 DEF Waiting, Members
    <2>7. SettledOnce'
      BY <2>2, <2>6 DEF SettledOnce
    <2>8. LiveAccounted'
      BY <2>2 DEF LiveAccounted
    <2> QED
      BY <2>4, <2>5, <2>7, <2>8
  <1>12. CASE NoHooks
    <2>1. phase = "runtime" /\ Settle(Members, "ERR")
      BY <1>12 DEF NoHooks
    <2>2. ForgetPlan /\ phase' = "next"
      BY <1>12 DEF NoHooks
    <2>3. UNCHANGED <<pc, queue, rest, single, batch, round, cell, told, live>>
      BY <1>12 DEF NoHooks, queueVars, jobVars
    <2>4. runtimes' = orphaned' /\ orphaned' \in Nat
      BY <1>12, <2>1, <1>types DEF NoHooks, PhasesKept
    <2> QED
      BY <2>1, <2>2, <2>3, <2>4, DroppedPlan
  <1>13. CASE CreateRuntime
    <2>1. PlacesDisjoint'
      BY <1>13
         DEF CreateRuntime, queueVars, planVars, jobVars, userVars, PlacesDisjoint,
             Members
    <2>2. PhasesKept'
      BY <1>13, <1>types
         DEF CreateRuntime, queueVars, planVars, jobVars, userVars, PhasesKept,
             Members
    <2>3. SettledOnce'
      BY <1>13, <1>types
         DEF CreateRuntime, queueVars, planVars, jobVars, userVars, SettledOnce,
             Waiting, Members, PhasesKept
    <2>4. LiveAccounted'
      BY <1>13, <1>types
         DEF CreateRuntime, queueVars, planVars, jobVars, userVars, LiveAccounted,
             PhasesKept, SettledOnce
    <2> QED
      BY <2>1, <2>2, <2>3, <2>4
  <1>14. CASE NoRuntime
    <2>1. phase = "runtime" /\ Settle(Members, "NOT_SUPPORTED")
      BY <1>14 DEF NoRuntime
    <2>2. ForgetPlan /\ phase' = "next"
      BY <1>14 DEF NoRuntime
    <2>3. UNCHANGED <<pc, queue, rest, single, batch, round, cell, told, live>>
      BY <1>14 DEF NoRuntime, queueVars, jobVars
    <2>4. runtimes' = orphaned' /\ orphaned' \in Nat
      BY <1>14, <2>1, <1>types DEF NoRuntime, PhasesKept
    <2> QED
      BY <2>1, <2>2, <2>3, <2>4, DroppedPlan
  <1>25. CASE RefuseMemory
    <2>1. PICK r \in {"NOT_SUPPORTED", "ERR", "INVALID"} : Settle(Members, r)
      BY <1>25 DEF RefuseMemory
    <2>2. phase = "runtime" /\ ForgetPlan /\ phase' = "next"
      BY <1>25 DEF RefuseMemory
    <2>3. UNCHANGED <<pc, queue, rest, single, batch, round, cell, told, live>>
      BY <1>25 DEF RefuseMemory, queueVars, jobVars
    <2>4. runtimes' = orphaned' /\ orphaned' \in Nat
      BY <1>25, <2>2, <1>types DEF RefuseMemory, PhasesKept
    <2> QED
      BY <2>1, <2>2, <2>3, <2>4, DroppedPlan
  <1>15. CASE CreatePlan
    <2>1. PlacesDisjoint'
      BY <1>15
         DEF CreatePlan, queueVars, planVars, jobVars, userVars, PlacesDisjoint,
             Members
    <2>2. PhasesKept'
      BY <1>15, <1>types
         DEF CreatePlan, queueVars, planVars, jobVars, userVars, PhasesKept,
             Members
    <2>3. SettledOnce'
      BY <1>15, <1>types
         DEF CreatePlan, queueVars, planVars, jobVars, userVars, SettledOnce,
             Waiting, Members, PhasesKept
    <2>4. LiveAccounted'
      BY <1>15, <1>types
         DEF CreatePlan, queueVars, planVars, jobVars, userVars, LiveAccounted,
             PhasesKept, SettledOnce
    <2> QED
      BY <2>1, <2>2, <2>3, <2>4
  <1>16. CASE NoPlan
    <2>1. phase = "plan" /\ Settle(Members, "ERR")
      BY <1>16 DEF NoPlan
    <2>2. UNCHANGED <<pc, queue, rest, single, batch, round, cell, told, live>>
      BY <1>16 DEF NoPlan, queueVars, jobVars
    <2>3. CASE inBatch
      <3>1. ForgetPlan /\ phase' = "next"
        BY <1>16, <2>3 DEF NoPlan
      <3>2. runtimes' = orphaned' /\ orphaned' \in Nat
        BY <1>16, <2>1, <2>3, <1>types DEF NoPlan, PhasesKept
      <3> QED
        BY <2>1, <2>2, <3>1, <3>2, DroppedPlan
    <2>4. CASE ~inBatch
      <3>1. /\ phase' = "release"
            /\ UNCHANGED <<current, hooks, prepared, mutation, runtimes, orphaned>>
        BY <1>16, <2>4 DEF NoPlan, planVars
      <3>2. \A o \in Ops : /\ runs'[o] = IF o \in Members THEN runs[o] + 1 ELSE runs[o]
                           /\ result'[o] = IF o \in Members THEN "ERR" ELSE result[o]
        BY <2>1 DEF Settle
      <3>3. PlacesDisjoint'
        BY <2>2, <3>1 DEF PlacesDisjoint, Members
      <3>4. PhasesKept'
        BY <2>1, <2>2, <3>1 DEF PhasesKept, Members
      <3>5. Waiting' = Waiting /\ Members' = Members
        BY <2>2, <3>1 DEF Waiting, Members
      <3>6. Waiting \cap Members = {}
        BY DEF Waiting, PlacesDisjoint
      <3>7. SettledOnce'
        BY <2>1, <2>2, <3>1, <3>2, <3>5, <3>6, <1>types DEF SettledOnce
      <3>8. \A o \in Members \cap Ops : runs[o] = 0 /\ ~live[o] /\ told[o] # "OK"
        BY <2>1 DEF SettledOnce, LiveAccounted
      <3>9. LiveAccounted'
        BY <2>1, <2>2, <3>1, <3>2, <3>8 DEF LiveAccounted
      <3> QED
        BY <3>3, <3>4, <3>7, <3>9
    <2> QED
      BY <2>3, <2>4
  <1>17. CASE AddHooks
    <2>1. PlacesDisjoint' /\ Waiting' = Waiting /\ Members' = Members
      BY <1>17
         DEF AddHooks, queueVars, planVars, jobVars, userVars, PlacesDisjoint,
             Members, Waiting
    <2>2. PhasesKept'
      BY <1>17, <1>types
         DEF AddHooks, queueVars, planVars, jobVars, userVars, PhasesKept, Members
    <2>3. /\ phase = "add" /\ phase' \in {"prepare", "release"} /\ hooks = {}
          /\ hooks' \subseteq Members /\ (phase' = "release" => hooks' = {})
          /\ UNCHANGED <<pc, prepared, mutation, live, cell, told>>
      BY <1>17 DEF AddHooks, queueVars, PhasesKept
    <2>4. \A o \in Ops : runs'[o] = runs[o] + IF o \in Members \ hooks' THEN 1 ELSE 0
      BY <1>17 DEF AddHooks
    <2>5. \A n \in 1 .. Len(current) : current[n] \in Members
      BY <1>seqs, Elements DEF Members
    <2>6. \A o \in Ops : result'[o] = result[o] \/
             (o \in Members \ hooks' /\ result'[o] \in {"NOT_SUPPORTED", "INVALID", "ERR"})
      <3>1. PICK added \in SUBSET Members, lost \in SUBSET (Members \ Unrouted) :
               /\ hooks' = added
               /\ LET refused == {current[n] : n \in {k \in 1 .. Len(current) :
                                                        Refused(k, added, lost)}} \ Unrouted
                  IN  /\ added = Members \ (Unrouted \cup lost \cup refused)
                      /\ result' = [o \in Ops |->
                            CASE o \in Unrouted -> "NOT_SUPPORTED"
                              [] o \in refused -> "INVALID"
                              [] o \in lost \ refused -> "ERR"
                              [] OTHER -> result[o]]
        BY <1>17 DEF AddHooks
      <3> DEFINE refused == {current[n] : n \in {k \in 1 .. Len(current) :
                                                    Refused(k, added, lost)}} \ Unrouted
      <3>2. refused \subseteq Members
        BY <2>5
      <3>3. /\ hooks' = Members \ (Unrouted \cup lost \cup refused)
            /\ result' = [o \in Ops |->
                  CASE o \in Unrouted -> "NOT_SUPPORTED"
                    [] o \in refused -> "INVALID"
                    [] o \in lost \ refused -> "ERR"
                    [] OTHER -> result[o]]
        BY <3>1
      <3> HIDE DEF refused
      <3> QED
        BY <3>1, <3>2, <3>3 DEF Unrouted
    <2>7. Waiting \cap Members = {}
      BY DEF Waiting, PlacesDisjoint
    <2>8. \A o \in Members \cap Ops : runs[o] = 0 /\ ~live[o] /\ told[o] # "OK"
      BY <2>3 DEF SettledOnce, LiveAccounted
    <2>9. SettledOnce'
      BY <2>1, <2>3, <2>4, <2>6, <2>7, <2>8, <1>types DEF SettledOnce
    <2>10. LiveAccounted'
      BY <2>3, <2>4, <2>6, <2>8, <1>types DEF LiveAccounted, SettledOnce
    <2> QED
      BY <2>1, <2>2, <2>9, <2>10
  <1>18. ASSUME NEW ready \in SUBSET hooks, Prepare(ready)
         PROVE  PlacesDisjoint' /\ PhasesKept' /\ SettledOnce' /\ LiveAccounted'
    <2>1. PlacesDisjoint' /\ Waiting' = Waiting /\ Members' = Members
      BY <1>18
         DEF Prepare, queueVars, planVars, jobVars, userVars, PlacesDisjoint,
             Members, Waiting
    <2>2. PhasesKept'
      BY <1>18, <1>types
         DEF Prepare, Settle, queueVars, planVars, jobVars, userVars, PhasesKept,
             Members
    <2>3. /\ phase = "prepare" /\ phase' \in {"publish", "release"} /\ prepared = {}
          /\ UNCHANGED <<pc, hooks, mutation, live, cell, told>>
      BY <1>18 DEF Prepare, queueVars, PhasesKept
    <2>4. \A o \in Ops :
             IF phase' = "release" /\ o \in hooks
             THEN runs'[o] = runs[o] + 1 /\ result'[o] = "ERR"
             ELSE runs'[o] = runs[o] /\ result'[o] = result[o]
      BY <1>18 DEF Prepare, Settle
    <2>5. Waiting \cap Members = {} /\ hooks \subseteq Members
      BY DEF Waiting, PlacesDisjoint, PhasesKept
    <2>6. \A o \in hooks \cap Ops : runs[o] = 0 /\ ~live[o] /\ told[o] # "OK"
      BY <2>3, <2>5 DEF SettledOnce, LiveAccounted
    <2>7. SettledOnce'
      BY <2>1, <2>3, <2>4, <2>5, <2>6, <1>types DEF SettledOnce
    <2>8. LiveAccounted'
      BY <2>3, <2>4, <2>6 DEF LiveAccounted
    <2> QED
      BY <2>1, <2>2, <2>7, <2>8
  <1>19. CASE PrepareFails
    <2>1. PlacesDisjoint' /\ Waiting' = Waiting /\ Members' = Members
      BY <1>19
         DEF PrepareFails, queueVars, planVars, jobVars, userVars, PlacesDisjoint,
             Members, Waiting
    <2>2. PhasesKept'
      BY <1>19, <1>types
         DEF PrepareFails, Settle, queueVars, planVars, jobVars, userVars,
             PhasesKept, Members
    <2>3. /\ phase = "prepare" /\ phase' \in {"map", "release"} /\ prepared = {}
          /\ UNCHANGED <<pc, hooks, mutation, live, cell, told>>
      BY <1>19 DEF PrepareFails, queueVars, planVars, PhasesKept
    <2>4. \A o \in Ops :
             IF phase' = "release" /\ o \in hooks
             THEN runs'[o] = runs[o] + 1 /\ result'[o] = "ERR"
             ELSE runs'[o] = runs[o] /\ result'[o] = result[o]
      BY <1>19 DEF PrepareFails, Settle
    <2>5. Waiting \cap Members = {} /\ hooks \subseteq Members
      BY DEF Waiting, PlacesDisjoint, PhasesKept
    <2>6. \A o \in hooks \cap Ops : runs[o] = 0 /\ ~live[o] /\ told[o] # "OK"
      BY <2>3, <2>5 DEF SettledOnce, LiveAccounted
    <2>7. SettledOnce'
      BY <2>1, <2>3, <2>4, <2>5, <2>6, <1>types DEF SettledOnce
    <2>8. LiveAccounted'
      BY <2>3, <2>4, <2>6 DEF LiveAccounted
    <2> QED
      BY <2>1, <2>2, <2>7, <2>8
  <1>20. CASE Publish
    <2>1. PlacesDisjoint' /\ Waiting' = Waiting /\ Members' = Members
      BY <1>20
         DEF Publish, queueVars, planVars, jobVars, userVars, PlacesDisjoint,
             Members, Waiting
    <2>2. PhasesKept'
      BY <1>20, <1>types
         DEF Publish, queueVars, planVars, jobVars, userVars, PhasesKept, Members
    <2>3. /\ phase = "publish" /\ phase' = "commit"
          /\ UNCHANGED <<pc, hooks, prepared, mutation, live, runs, result, told>>
      BY <1>20 DEF Publish, queueVars, planVars
    <2>4. \A o \in Ops :
             cell'[o] = IF o \in prepared \cap WantsOld \cap Describes THEN "original" ELSE cell[o]
      BY <1>20 DEF Publish, PublishedEarly
    <2>5. SettledOnce'
      BY <2>1, <2>3 DEF SettledOnce
    <2>6. LiveAccounted'
      BY <2>3, <2>4 DEF LiveAccounted
    <2> QED
      BY <2>1, <2>2, <2>5, <2>6
  <1>21. ASSUME NEW o \in prepared,
                NEW m \in {"NONE", "COMPLETE", "PARTIAL", "UNKNOWN"}, CommitOne(o, m)
         PROVE  PlacesDisjoint' /\ PhasesKept' /\ SettledOnce' /\ LiveAccounted'
    <2>1. PlacesDisjoint'
      BY <1>21
         DEF CommitOne, queueVars, planVars, jobVars, userVars, PlacesDisjoint,
             Members
    <2>2. PhasesKept'
      BY <1>21, <1>types
         DEF CommitOne, queueVars, planVars, jobVars, userVars, PhasesKept, Members
    <2>3. SettledOnce'
      BY <1>21, <1>types
         DEF CommitOne, queueVars, planVars, jobVars, userVars, SettledOnce,
             Waiting, Members, PhasesKept
    <2>4. LiveAccounted'
      BY <1>21, <1>types
         DEF CommitOne, queueVars, planVars, jobVars, userVars, LiveAccounted,
             PhasesKept, SettledOnce
    <2> QED
      BY <2>1, <2>2, <2>3, <2>4
  <1>22. CASE MapResults
    <2>1. PlacesDisjoint' /\ Waiting' = Waiting /\ Members' = Members
      BY <1>22
         DEF MapResults, queueVars, planVars, jobVars, userVars, PlacesDisjoint,
             Members, Waiting
    <2>2. PhasesKept'
      BY <1>22, <1>types
         DEF MapResults, queueVars, planVars, jobVars, userVars, PhasesKept,
             Members
    <2>3. /\ phase \in {"commit", "map"} /\ phase' = "release" /\ prepared = {}
          /\ UNCHANGED <<pc, hooks, prepared, mutation, live, told>>
      BY <1>22 DEF MapResults, queueVars, planVars, PhasesKept
    <2>4. \A o \in Ops : runs'[o] = IF o \in hooks THEN runs[o] + 1 ELSE runs[o]
      BY <1>22 DEF MapResults
    <2>5. \A o \in Ops : o \notin hooks => result'[o] = result[o] /\ cell'[o] = cell[o]
      BY <1>22 DEF MapResults
    <2>6. ASSUME NEW o \in Ops, o \in hooks
          PROVE  /\ \E safe : result'[o] \in {"ERR", Answers(o, safe)}
                 /\ mutation[o] # "NONE" /\ o \in WantsOld /\ available[o] =>
                       cell'[o] = "original"
      <3>1. \E safe : result'[o] \in {"ERR", Answers(o, safe)}
        BY <1>22, <2>6 DEF MapResults
      <3>2. ASSUME mutation[o] # "NONE", o \in WantsOld, available[o]
            PROVE  cell'[o] = "original"
        <4>1. cell'[o] = CASE o \in hooks \cap WantsOld /\ Clears(o) -> "null"
                           [] o \in hooks \cap WantsOld /\ available[o] -> "original"
                           [] OTHER -> cell[o]
          BY <1>22, <2>6 DEF MapResults
        <4> QED
          BY <4>1, <3>2, <2>6 DEF Clears
      <3> QED
        BY <3>1, <3>2
    <2>7. ASSUME NEW o \in Ops, mutation[o] \in Mutations, NEW safe
          PROVE  /\ Answers(o, safe) = "OK" => /\ mutation[o] = "COMPLETE"
                                               /\ o \in WantsOld => available[o]
                 /\ Answers(o, safe) \in {"NOT_SUPPORTED", "INVALID"} =>
                       mutation[o] = "NONE"
      BY <2>7 DEF Answers, Mutations
    <2>8. Waiting \cap Members = {} /\ hooks \subseteq Members
      BY DEF Waiting, PlacesDisjoint, PhasesKept
    <2>9. \A o \in hooks \cap Ops :
             runs[o] = 0 /\ told[o] # "OK" /\ (live[o] => mutation[o] # "NONE")
      BY <2>3, <2>8 DEF SettledOnce, LiveAccounted
    <2>10. SettledOnce'
      BY <2>1, <2>3, <2>4, <2>5, <2>8, <2>9, <1>types DEF SettledOnce
    <2>11. LiveAccounted'
      <3>1. SUFFICES ASSUME NEW o \in Ops
                     PROVE  /\ result'[o] = "OK" =>
                                  live[o] /\ (o \in WantsOld => cell'[o] = "original")
                            /\ result'[o] \in {"NOT_SUPPORTED", "INVALID"} => ~live[o]
                            /\ told[o] = "OK" => result'[o] = "OK"
                            /\ live[o] => runs'[o] # 0
        BY <2>3 DEF LiveAccounted
      <3>2. CASE o \in hooks
        BY <3>2, <2>3, <2>4, <2>6, <2>7, <2>9, <1>types DEF LiveAccounted
      <3>3. CASE o \notin hooks
        BY <3>3, <2>3, <2>4, <2>5 DEF LiveAccounted
      <3> QED
        BY <3>2, <3>3
    <2> QED
      BY <2>1, <2>2, <2>10, <2>11
  <1>23. CASE ReleasePlan
    <2>1. phase = "release" /\ phase' = "next" /\ ForgetPlan /\ runtimes' = runtimes - 1
      BY <1>23 DEF ReleasePlan, Released
    <2>2. UNCHANGED <<pc, queue, rest, single, batch, round, cell, told, live, result, runs,
                      orphaned>>
      BY <1>23 DEF ReleasePlan, queueVars, jobVars, userVars
    <2>3. /\ current' = <<>> /\ hooks' = {} /\ prepared' = {} /\ Members' = {}
          /\ \A o \in Ops : mutation'[o] = "NONE"
      BY <2>1, Singles DEF ForgetPlan, Members
    <2>4. PlacesDisjoint'
      BY <2>2, <2>3 DEF PlacesDisjoint
    <2>5. PhasesKept'
      BY <2>1, <2>2, <2>3, <1>types DEF PhasesKept
    <2>6. Waiting' = Waiting
      BY <2>2 DEF Waiting
    <2>7. SettledOnce'
      BY <2>1, <2>2, <2>3, <2>6 DEF SettledOnce
    <2>8. LiveAccounted'
      BY <2>1, <2>2, <2>3 DEF LiveAccounted
    <2> QED
      BY <2>4, <2>5, <2>7, <2>8
  <1>24. CASE Return
    <2>1. PlacesDisjoint' /\ Waiting' = Waiting /\ Members' = Members
      BY <1>24
         DEF Return, queueVars, planVars, jobVars, userVars, PlacesDisjoint,
             Members, Waiting
    <2>2. PhasesKept'
      BY <1>24, <1>types
         DEF Return, queueVars, planVars, jobVars, userVars, PhasesKept, Members
    <2>3. /\ phase = "next" /\ phase' = "idle"
          /\ UNCHANGED <<pc, hooks, prepared, mutation, live, cell, result, runs>>
      BY <1>24 DEF Return, queueVars, planVars
    <2>4. \A o \in Ops : told'[o] = "OK" => told[o] = "OK" \/ result[o] = "OK"
      <3>1. ASSUME NEW o \in Ops, o \in ToSet(round), Overall = "OK" PROVE result[o] = "OK"
        BY <3>1 DEF Overall
      <3>2. \A o \in Ops : \/ told'[o] = told[o] \/ told'[o] = result[o]
                           \/ o \in ToSet(round) /\ told'[o] = Overall
        BY <1>24 DEF Return
      <3> QED
        BY <3>1, <3>2
    <2>5. SettledOnce'
      BY <2>1, <2>3 DEF SettledOnce
    <2>6. LiveAccounted'
      BY <2>3, <2>4 DEF LiveAccounted
    <2> QED
      BY <2>1, <2>2, <2>5, <2>6
  <1> QED
    BY <1>1, <1>2, <1>3, <1>4, <1>5, <1>6, <1>7, <1>8, <1>9, <1>10, <1>11,
       <1>12, <1>13, <1>14, <1>15, <1>16, <1>17, <1>18, <1>19, <1>20, <1>21,
       <1>22, <1>23, <1>24, <1>25
       DEF Next, Clients, Installer

-----------------------------------------------------------------------------
(* An original that was published stays where a live replacement finds it. *)

\* Every step keeps the originals of the live replacements in their cells.
LEMMA OriginalStep ==
    ASSUME TypeOK, PhasesKept, SettledOnce, LiveAccounted, LiveKeepsOriginal, [Next]_vars
    PROVE  LiveKeepsOriginal'
  <1>types. /\ live \in [Ops -> BOOLEAN]
            /\ cell \in [Ops -> {"caller", "null", "original"}]
            /\ WantsOld \subseteq Ops
    BY OpsAssumption DEF TypeOK
  <1>0. ASSUME live' = live, cell' = cell PROVE LiveKeepsOriginal'
    BY <1>0 DEF LiveKeepsOriginal
  <1>1. CASE UNCHANGED vars
    BY <1>0, <1>1 DEF vars, userVars
  <1>2. CASE SetBatching
    BY <1>0, <1>2 DEF SetBatching, userVars
  <1>3. ASSUME NEW o \in Ops, Clients(o) PROVE LiveKeepsOriginal'
    BY <1>0, <1>3 DEF Clients, LoadCounter, BuildSpec, Enqueue, userVars
  <1>4. ASSUME NEW o \in Ops, Immediate(o) PROVE LiveKeepsOriginal'
    BY <1>0, <1>4 DEF Immediate, userVars
  <1>5. CASE Execute \/ Loop \/ NextBatch \/ FallBack
    BY <1>0, <1>5 DEF Execute, Loop, NextBatch, FallBack, userVars
  <1>6. CASE NextSingle
    <2>1. phase = "next" /\ single # <<>> /\ single \in Seq(Ops)
      BY <1>6 DEF NextSingle, TypeOK
    <2>2. Head(single) \in Ops /\ Head(single) \in ToSet(single)
      BY <2>1, Elements
    <2>3. ~live[Head(single)]
      BY <2>1, <2>2 DEF SettledOnce, LiveAccounted, Waiting
    <2>4. live' = live /\ \A p \in Ops : p # Head(single) => cell'[p] = cell[p]
      BY <1>6, <1>types DEF NextSingle
    <2> QED
      BY <2>3, <2>4, <1>types DEF LiveKeepsOriginal
  <1>7. CASE \/ NoHooks \/ RefuseMemory \/ CreateRuntime \/ NoRuntime \/ CreatePlan
             \/ NoPlan \/ AddHooks
    BY <1>0, <1>7 DEF NoHooks, RefuseMemory, CreateRuntime, NoRuntime, CreatePlan,
       NoPlan, AddHooks, userVars
  <1>8. ASSUME NEW ready \in SUBSET hooks, Prepare(ready) PROVE LiveKeepsOriginal'
    BY <1>0, <1>8 DEF Prepare
  <1>9. CASE PrepareFails
    BY <1>0, <1>9 DEF PrepareFails
  <1>10. CASE Publish
    <2>1. live' = live /\ \A p \in Ops : cell'[p] = "original" \/ cell'[p] = cell[p]
      BY <1>10 DEF Publish
    <2> QED
      BY <2>1, <1>types DEF LiveKeepsOriginal
  <1>11. ASSUME NEW o \in prepared, NEW m \in Mutations, CommitOne(o, m)
         PROVE  LiveKeepsOriginal'
    <2>1. phase = "commit" /\ cell' = cell /\ \A p \in Ops : p # o => live'[p] = live[p]
      BY <1>11, <1>types DEF CommitOne
    <2>2. o \in WantsOld \cap Describes => cell[o] = "original"
      BY <2>1, <1>types DEF LiveAccounted
    <2> QED
      BY <2>1, <2>2, <1>types DEF LiveKeepsOriginal
  <1>12. CASE MapResults
    <2>1. SUFFICES ASSUME NEW o \in WantsOld \cap Describes, live[o]
                   PROVE  cell'[o] = "original"
      BY <1>12 DEF MapResults, LiveKeepsOriginal
    <2>2. o \in Ops /\ cell[o] = "original"
      BY <2>1, <1>types DEF LiveKeepsOriginal
    <2>3. phase \in {"commit", "map"}
      BY <1>12 DEF MapResults
    <2>4. o \in hooks => runs[o] = 0 /\ mutation[o] # "NONE"
      BY <2>1, <2>2, <2>3 DEF PhasesKept, SettledOnce, LiveAccounted
    <2>5. cell'[o] = CASE o \in hooks \cap WantsOld /\ Clears(o) -> "null"
                       [] o \in hooks \cap WantsOld /\ available[o] -> "original"
                       [] OTHER -> cell[o]
      BY <1>12, <2>2 DEF MapResults
    <2> QED
      BY <2>2, <2>4, <2>5 DEF Clears
  <1>13. CASE ReleasePlan \/ Return
    BY <1>0, <1>13 DEF ReleasePlan, Return, userVars
  <1> QED
    BY <1>1, <1>2, <1>3, <1>4, <1>5, <1>6, <1>7, <1>8, <1>9, <1>10, <1>11, <1>12, <1>13
       DEF Next, Installer, Mutations

-----------------------------------------------------------------------------
(* The theorems.                                                           *)

\* The inductive invariant.
Inv ==
    /\ TypeOK
    /\ PlacesDisjoint
    /\ PhasesKept
    /\ SettledOnce
    /\ LiveAccounted
    /\ LiveKeepsOriginal

\* It holds before anything is hooked.
LEMMA InitInv ==
    ASSUME Init PROVE Inv
  <1>1. /\ queue = <<>> /\ rest = <<>> /\ single = <<>> /\ batch = <<>> /\ current = <<>>
        /\ round = <<>> /\ phase = "idle" /\ hooks = {} /\ prepared = {}
        /\ runtimes = 0 /\ orphaned = 0
    BY DEF Init
  <1>2. \A o \in Ops : /\ pc[o] \in {"ready", "absent"} /\ runs[o] = 0 /\ ~live[o]
                       /\ result[o] = "none" /\ told[o] = "none" /\ mutation[o] = "NONE"
    BY DEF Init
  <1>3. Waiting = {} /\ Members = {}
    BY <1>1, Singles DEF Waiting, Members
  <1>4. TypeOK
    <2>1. <<>> \in Seq(Ops)
      BY Singles
    <2>2. toggles \in 0 .. Toggles
      BY OpsAssumption DEF Init
    <2>3. pc \in [Ops -> {"absent", "ready", "counting", "built", "accepted"}]
      BY DEF Init
    <2> QED
      BY <2>1, <2>2, <2>3 DEF Init, TypeOK, Phases, Mutations, Statuses
  <1>5. PlacesDisjoint
    BY <1>1, <1>3, Singles DEF PlacesDisjoint
  <1>6. PhasesKept
    BY <1>1, <1>2 DEF PhasesKept
  <1>7. SettledOnce
    BY <1>2, <1>3 DEF SettledOnce
  <1>8. LiveAccounted
    BY <1>1, <1>2 DEF LiveAccounted
  <1>9. LiveKeepsOriginal
    BY <1>2, OpsAssumption DEF LiveKeepsOriginal
  <1> QED
    BY <1>4, <1>5, <1>6, <1>7, <1>8, <1>9 DEF Inv

\* Every step keeps it.
LEMMA NextInv ==
    ASSUME Inv, [Next]_vars PROVE Inv'
  BY TypeStep, PartsStep, OriginalStep DEF Inv

\* The inductive invariant holds in every state.
THEOREM Invariance == Spec => []Inv
  <1>1. Init => Inv
    BY InitInv
  <1>2. Inv /\ [Next]_vars => Inv'
    BY NextInv
  <1> QED
    BY <1>1, <1>2, PTL DEF Spec

\* The facade's state keeps its types, whatever the host asks for and whatever fails.
THEOREM TypeCorrect == Spec => []TypeOK
  <1>1. Inv => TypeOK
    BY DEF Inv
  <1> QED
    BY <1>1, Invariance, PTL

\* Enqueueing may race executeHooks and the mode may change at any moment: an accepted
\* operation is in the queue, under way or settled, and is settled at most once.
THEOREM SettlementCorrect == Spec => []OperationsSettleOnce
  <1>1. Inv => OperationsSettleOnce
    <2>1. SUFFICES ASSUME Inv, NEW o \in Ops
                   PROVE  /\ runs[o] <= 1
                          /\ runs[o] = 0 =>
                                (o \in ToSet(queue) \cup Pending <=> pc[o] = "accepted")
                          /\ runs[o] = 1 => o \notin ToSet(queue) \cup ToSet(rest) \cup
                                                     ToSet(single) \cup ToSet(batch)
      BY DEF OperationsSettleOnce
    <2>2. ToSet(queue) \cup Pending = Waiting \cup Members
      <3>1. phase \in {"next", "idle"} => Members = {}
        BY <2>1, Singles DEF Inv, PhasesKept, Members
      <3> QED
        BY <3>1 DEF Pending, Waiting
    <2>3. runs[o] \in {0, 1} /\ (o \in Waiting => runs[o] = 0)
      BY <2>1 DEF Inv, SettledOnce
    <2>4. runs[o] = 0 => (o \in Waiting \cup Members <=> pc[o] = "accepted")
      BY <2>1 DEF Inv, SettledOnce
    <2> QED
      BY <2>2, <2>3, <2>4 DEF Waiting
  <1> QED
    BY <1>1, Invariance, PTL

\* A replacement that control may reach finds its original in the caller's cell, from
\* the early publication on and through every failure of the plan.
THEOREM OriginalsKept == Spec => []LiveKeepsOriginal
  <1>1. Inv => LiveKeepsOriginal
    BY DEF Inv
  <1> QED
    BY <1>1, Invariance, PTL

\* What a call answers is true of the process, and its runtime is gone by then, but
\* for those of the batches that got no plan.
THEOREM AnswersCorrect == Spec => []CallsEndCleanly
  <1>1. Inv => CallsEndCleanly
    <2>1. SUFFICES ASSUME Inv PROVE CallsEndCleanly
      OBVIOUS
    <2>2. phase \in {"next", "idle"} => runtimes = orphaned
      <3>1. orphaned \in Nat
        BY <2>1 DEF Inv, TypeOK
      <3> QED
        BY <2>1, <3>1 DEF Inv, PhasesKept
    <2>3. \A o \in Ops : /\ result[o] \in {"NOT_SUPPORTED", "INVALID"} => ~live[o]
                         /\ told[o] = "OK" =>
                               live[o] /\ (o \in WantsOld => cell[o] = "original")
      BY <2>1 DEF Inv, LiveAccounted
    <2> QED
      BY <2>2, <2>3 DEF CallsEndCleanly
  <1> QED
    BY <1>1, Invariance, PTL

=============================================================================
