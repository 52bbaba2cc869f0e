-------------------------- MODULE AgentLifecycleProofs --------------------------
(***************************************************************************)
(* What holds of the agent lifecycle for every number of agents and tasks, *)
(* every cap and attempt limit, every choice of reconcilers and features,  *)
(* and any number of restarts: claims, tokens and the abstract teardown.   *)
(* Then supervision and the cap on agent processes, until the controller   *)
(* is first restarted (a restart forgets every handle); the claims on      *)
(* agents that are being torn down; one finish thread per agent, and one   *)
(* attempt charged per agent.                                              *)
(***************************************************************************)
EXTENDS AgentLifecycle, TLAPS, FiniteSetTheorems

USE ConstantsAssumption

-------------------------------------------------------------------------------
(* Every outcome of _handle_task_failure leaves a well-typed task row.     *)
LEMMA FailureTypes ==
  ASSUME TaskTypes, NEW t, handle_task_failure(t), admitted' = admitted
  PROVE  TaskTypes'
<1>1. ASSUME NEW s \in Statuses, NEW o, NEW n, NEW b,
             t \in Tasks => /\ o \in Agents \cup {NoAgent}
                            /\ n \in Nat /\ b \in BOOLEAN,
             WriteTask(t, s, o, n, b)
      PROVE  TaskTypes'
  BY <1>1 DEF TaskTypes, WriteTask
<1>2. t \in Tasks => /\ attempts[t] \in Nat /\ attempts[t] + 1 \in Nat
                     /\ owner[t] \in Agents \cup {NoAgent}
                     /\ blocked[t] \in BOOLEAN
  BY DEF TaskTypes
<1>3. CASE WriteTask(t, "pending", NoAgent, attempts[t], blocked[t])
  BY <1>1, <1>2, <1>3 DEF Statuses
<1>4. CASE WriteTask(t, "pending", NoAgent, attempts[t] + 1, blocked[t])
  BY <1>1, <1>2, <1>4 DEF Statuses
<1>5. ASSUME NEW s \in {"failed", "cancelled", "completed"},
             WriteTask(t, s, owner[t], attempts[t] + 1, blocked[t])
      PROVE  TaskTypes'
  BY <1>1, <1>2, <1>5 DEF Statuses
<1>6. CASE WriteTask(t, "pending", NoAgent, 0, TRUE)
  BY <1>1, <1>6 DEF Statuses
<1>7. QED BY <1>3, <1>4, <1>5, <1>6 DEF handle_task_failure

-------------------------------------------------------------------------------
(* Every step of every thread keeps the types.                             *)
LEMMA TypeStep == TypeOK /\ [Next]_vars => TypeOK'
<1> SUFFICES ASSUME TypeOK, [Next]_vars PROVE TypeOK' OBVIOUS
<1>1. CASE Spawner
  <2>1. ASSUME SpawnProcess PROVE TypeOK'
    BY <2>1 DEF TypeOK, AgentTypes, ClaimTypes, TaskTypes, SpawnTypes,
       MonTypes, RecTypes, SpawnProcess, Kinds, FinPcs, Statuses, MonPcs,
       RecPcs, agentVars, claimVars, taskVars, busVars
  <2>2. ASSUME SpawnRow PROVE TypeOK'
    BY <2>2 DEF TypeOK, AgentTypes, ClaimTypes, TaskTypes, SpawnTypes,
       MonTypes, RecTypes, SpawnRow, Kinds, FinPcs, Statuses, MonPcs, RecPcs,
       agentVars, claimVars, taskVars, busVars
  <2>3. ASSUME SpawnOwn PROVE TypeOK'
    <3> USE <2>3
    <3>1. TaskTypes' BY DEF SpawnOwn, TypeOK, TaskTypes, AgentTypes, Statuses, SpawnTypes
    <3>2. QED
      BY <3>1 DEF TypeOK, AgentTypes, ClaimTypes, SpawnTypes, MonTypes,
         RecTypes, SpawnOwn, Kinds, FinPcs, Statuses, MonPcs, RecPcs,
         agentVars, claimVars, taskVars, busVars
  <2>4. ASSUME SpawnError PROVE TypeOK'
    BY <2>4 DEF TypeOK, AgentTypes, ClaimTypes, TaskTypes, SpawnTypes,
       MonTypes, RecTypes, SpawnError, Kinds, FinPcs, Statuses, MonPcs, RecPcs,
       agentVars, claimVars, taskVars, busVars
  <2>5. ASSUME NEW t \in Tasks, ApiSpawnRefused(t) PROVE TypeOK'
    BY <2>5 DEF TypeOK, AgentTypes, ClaimTypes, TaskTypes, SpawnTypes,
       MonTypes, RecTypes, ApiSpawnRefused, Kinds, FinPcs, Statuses, MonPcs,
       RecPcs, agentVars, claimVars, taskVars, busVars
  <2>6. ASSUME NEW t \in Tasks, NEW a \in Agents, FillSlots(t, a) PROVE TypeOK'
    BY <2>6 DEF TypeOK, AgentTypes, ClaimTypes, TaskTypes, SpawnTypes,
       MonTypes, RecTypes, FillSlots, SpawnBegin, Kinds, FinPcs, Statuses,
       MonPcs, RecPcs, agentVars, claimVars, taskVars, busVars
  <2>7. ASSUME NEW t \in Tasks, NEW a \in Agents, ApiFill(t, a) PROVE TypeOK'
    BY <2>7 DEF TypeOK, AgentTypes, ClaimTypes, TaskTypes, SpawnTypes,
       MonTypes, RecTypes, ApiFill, SpawnBegin, Kinds, FinPcs, Statuses,
       MonPcs, RecPcs, agentVars, claimVars, taskVars, busVars
  <2>8. ASSUME NEW t \in Tasks, NEW a \in Agents, ApiSpawnRun(t, a) PROVE TypeOK'
    BY <2>8 DEF TypeOK, AgentTypes, ClaimTypes, TaskTypes, SpawnTypes,
       MonTypes, RecTypes, ApiSpawnRun, SpawnBegin, Kinds, FinPcs, Statuses,
       MonPcs, RecPcs, agentVars, claimVars, taskVars, busVars
  <2>9. QED BY <1>1, <2>1, <2>2, <2>3, <2>4, <2>5, <2>6, <2>7, <2>8 DEF Spawner
<1>2. CASE Monitor
  <2>12. ASSUME MonBegin PROVE TypeOK'
    BY <2>12 DEF TypeOK, AgentTypes, ClaimTypes, TaskTypes, SpawnTypes,
       MonTypes, RecTypes, MonBegin, Kinds, FinPcs, Statuses, MonPcs, RecPcs,
       agentVars, claimVars, taskVars, busVars
  <2>1. ASSUME MonDep PROVE TypeOK'
    <3> USE <2>1
    <3>1. MonTypes' BY DEF MonDep, TypeOK, MonTypes, MonPcs, ClaimTypes, AgentTypes, ActiveRows
    <3>2. QED
      BY <3>1 DEF TypeOK, AgentTypes, ClaimTypes, TaskTypes, SpawnTypes,
         RecTypes, MonDep, ActiveRows, Kinds, FinPcs, Statuses, MonPcs, RecPcs,
         agentVars, claimVars, taskVars, busVars
  <2>2. ASSUME DepPop PROVE TypeOK'
    BY <2>2 DEF TypeOK, AgentTypes, ClaimTypes, TaskTypes, SpawnTypes,
       MonTypes, RecTypes, DepPop, ClaimPop, Revoke, Kinds, FinPcs, Statuses,
       MonPcs, RecPcs, agentVars, claimVars, taskVars, busVars
  <2>3. ASSUME DepWrite PROVE TypeOK'
    <3> USE <2>3
    <3>1. MonTypes' BY DEF DepWrite, TypeOK, MonTypes, MonPcs
    <3>2. TaskTypes'
      BY DEF DepWrite, ResetTask, taskVars, TypeOK, TaskTypes, Statuses,
         MonTypes, AgentTypes
    <3>3. AgentTypes' BY DEF DepWrite, MarkRow, Revoke, TypeOK, AgentTypes, busVars
    <3>4. QED
      BY <3>1, <3>2, <3>3 DEF DepWrite, TypeOK, ClaimTypes, SpawnTypes,
         RecTypes, busVars
  <2>4. ASSUME MonPoll PROVE TypeOK'
    <3> USE <2>4
    <3>1. MonTypes'
      <4>1. PICK S \in SUBSET (handles \cap Running) :
              mon' = [mon EXCEPT !.pc = "sweep", !.unmet = {},
                                 !.todo = (handles \ Running) \cup S]
        BY DEF MonPoll
      <4> DEFINE T == (handles \ Running) \cup S
      <4>2. T \in SUBSET Agents BY DEF TypeOK, ClaimTypes
      <4>3. mon' = [mon EXCEPT !.pc = "sweep", !.unmet = {}, !.todo = T] BY <4>1
      <4> HIDE DEF T
      <4>4. QED BY <4>2, <4>3 DEF TypeOK, MonTypes, MonPcs
    <3>2. QED
      BY <3>1 DEF TypeOK, AgentTypes, ClaimTypes, TaskTypes, SpawnTypes,
         RecTypes, MonPoll, Kinds, FinPcs, Statuses, MonPcs, RecPcs, agentVars,
         claimVars, taskVars, busVars
  <2>5. ASSUME SweepPop PROVE TypeOK'
    BY <2>5 DEF TypeOK, AgentTypes, ClaimTypes, TaskTypes, SpawnTypes,
       MonTypes, RecTypes, SweepPop, ClaimPop, Revoke, StartFinish, Kinds,
       FinPcs, Statuses, MonPcs, RecPcs, agentVars, claimVars, taskVars,
       busVars
  <2>6. ASSUME MonReconcile PROVE TypeOK'
    <3> USE <2>6
    <3>1. RecTypes'
      BY DEF TypeOK, RecTypes, RecStates, RecPcs, ClaimTypes, MonReconcile, RecBegin
    <3>2. QED
      BY <3>1 DEF TypeOK, AgentTypes, ClaimTypes, TaskTypes, SpawnTypes,
         MonTypes, MonReconcile, RecBegin, Kinds, FinPcs, Statuses, MonPcs,
         RecPcs, agentVars, claimVars, taskVars, busVars
  <2>7. ASSUME MonRest PROVE TypeOK'
    <3> USE <2>7
    <3>1. MonTypes' BY DEF MonRest, TypeOK, MonTypes, MonPcs, ClaimTypes, AgentTypes, ActiveRows
    <3>2. QED
      BY <3>1 DEF TypeOK, AgentTypes, ClaimTypes, TaskTypes, SpawnTypes,
         RecTypes, MonRest, Kinds, FinPcs, Statuses, MonPcs, RecPcs, agentVars,
         claimVars, taskVars, busVars
  <2>8. ASSUME NEW a \in Agents, DepMet(a) PROVE TypeOK'
    BY <2>8 DEF TypeOK, AgentTypes, ClaimTypes, TaskTypes, SpawnTypes,
       MonTypes, RecTypes, DepMet, Kinds, FinPcs, Statuses, MonPcs, RecPcs,
       agentVars, claimVars, taskVars, busVars
  <2>9. ASSUME NEW a \in Agents, DepKill(a) PROVE TypeOK'
    <3> USE <2>9
    <3>1. MonTypes'
      <4>1. CASE mon' = [mon EXCEPT !.pc = "depPop", !.cur = a]
        BY <4>1 DEF TypeOK, MonTypes, MonPcs
      <4>2. CASE mon' = [mon EXCEPT !.pc = "depWrite", !.cur = a]
        BY <4>2 DEF TypeOK, MonTypes, MonPcs
      <4>3. QED BY <4>1, <4>2 DEF DepKill
    <3>2. QED
      BY <3>1 DEF TypeOK, AgentTypes, ClaimTypes, TaskTypes, SpawnTypes,
         RecTypes, DepKill, ClaimAdd, Finished, Kinds, FinPcs, Statuses,
         MonPcs, RecPcs, agentVars, claimVars, taskVars, busVars
  <2>10. ASSUME NEW a \in Agents, SweepClaim(a) PROVE TypeOK'
    <3> USE <2>10
    <3>1. MonTypes'
      <4>1. CASE mon' = [mon EXCEPT !.pc = "sweepPop", !.cur = a]
        BY <4>1 DEF TypeOK, MonTypes, MonPcs
      <4>2. CASE mon' = [mon EXCEPT !.todo = @ \ {a}]
        BY <4>2 DEF TypeOK, MonTypes, MonPcs, SweepClaim
      <4>3. QED BY <4>1, <4>2 DEF SweepClaim
    <3>2. QED
      BY <3>1 DEF TypeOK, AgentTypes, ClaimTypes, TaskTypes, SpawnTypes,
         RecTypes, SweepClaim, ClaimAdd, Finished, Kinds, FinPcs, Statuses,
         MonPcs, RecPcs, agentVars, claimVars, taskVars, busVars
  <2>11. QED
    BY <1>2, <2>1, <2>2, <2>3, <2>4, <2>5, <2>6, <2>7, <2>8, <2>9, <2>10, <2>12
    DEF Monitor
<1>3. CASE Dispatcher
  <2>1. ASSUME BusPop PROVE TypeOK'
    BY <2>1 DEF TypeOK, AgentTypes, ClaimTypes, TaskTypes, SpawnTypes,
       MonTypes, RecTypes, BusPop, ClaimPop, Revoke, StartFinish, Kinds,
       FinPcs, Statuses, MonPcs, RecPcs, agentVars, claimVars, taskVars,
       busVars
  <2>2. ASSUME NEW a \in Agents, BusClaim(a) PROVE TypeOK'
    BY <2>2 DEF TypeOK, AgentTypes, ClaimTypes, TaskTypes, SpawnTypes,
       MonTypes, RecTypes, BusClaim, ClaimAdd, Kinds, FinPcs, Statuses, MonPcs,
       RecPcs, agentVars, claimVars, taskVars, busVars
  <2>3. QED BY <1>3, <2>1, <2>2 DEF Dispatcher
<1>4. CASE Faults
  <2>1. ASSUME NEW a \in Agents, FinishErrorClaimed(a) PROVE TypeOK'
    BY <2>1 DEF TypeOK, AgentTypes, ClaimTypes, TaskTypes, SpawnTypes,
       MonTypes, RecTypes, FinishErrorClaimed, FinGoto, Kinds, FinPcs,
       Statuses, MonPcs, RecPcs, agentVars, claimVars, taskVars, busVars
  <2>2. ASSUME NEW a \in Agents, FinishErrorOrphan(a) PROVE TypeOK'
    BY <2>2 DEF TypeOK, AgentTypes, ClaimTypes, TaskTypes, SpawnTypes,
       MonTypes, RecTypes, FinishErrorOrphan, FinGoto, MarkRow, Revoke,
       ResetIfInProgress, ResetTask, Kinds, FinPcs, Statuses, MonPcs, RecPcs,
       agentVars, claimVars, taskVars, busVars
  <2>3. QED BY <1>4, <2>1, <2>2 DEF Faults
<1>5. CASE Operator
  <2>1. ASSUME ApiReconcile PROVE TypeOK'
    <3> USE <2>1
    <3>1. RecTypes'
      BY DEF TypeOK, RecTypes, RecStates, RecPcs, ClaimTypes, ApiReconcile, RecBegin
    <3>2. QED
      BY <3>1 DEF TypeOK, AgentTypes, ClaimTypes, TaskTypes, SpawnTypes,
         MonTypes, ApiReconcile, RecBegin, Kinds, FinPcs, Statuses, MonPcs,
         RecPcs, agentVars, claimVars, taskVars, busVars
  <2>2. ASSUME NEW t \in Tasks, ApiSpawn(t) PROVE TypeOK'
    BY <2>2 DEF TypeOK, AgentTypes, ClaimTypes, TaskTypes, SpawnTypes,
       MonTypes, RecTypes, ApiSpawn, Kinds, FinPcs, Statuses, MonPcs, RecPcs,
       agentVars, claimVars, taskVars, busVars
  <2>3. ASSUME NEW t \in Tasks, ApiCancel(t) PROVE TypeOK'
    BY <2>3 DEF TypeOK, AgentTypes, ClaimTypes, TaskTypes, SpawnTypes,
       MonTypes, RecTypes, ApiCancel, Kinds, FinPcs, Statuses, MonPcs, RecPcs,
       agentVars, claimVars, taskVars, busVars
  <2>4. ASSUME NEW t \in Tasks, DependencyAdded(t) PROVE TypeOK'
    BY <2>4 DEF TypeOK, AgentTypes, ClaimTypes, TaskTypes, SpawnTypes,
       MonTypes, RecTypes, DependencyAdded, Kinds, FinPcs, Statuses, MonPcs,
       RecPcs, agentVars, claimVars, taskVars, busVars
  <2>5. ASSUME NEW t \in Tasks, DependencyMet(t) PROVE TypeOK'
    BY <2>5 DEF TypeOK, AgentTypes, ClaimTypes, TaskTypes, SpawnTypes,
       MonTypes, RecTypes, DependencyMet, Kinds, FinPcs, Statuses, MonPcs,
       RecPcs, agentVars, claimVars, taskVars, busVars
  <2>6. ASSUME NEW a \in Agents, ApiKill(a) PROVE TypeOK'
    BY <2>6 DEF TypeOK, AgentTypes, ClaimTypes, TaskTypes, SpawnTypes,
       MonTypes, RecTypes, ApiKill, Finished, MarkRow, Revoke, ResetTask,
       Kinds, FinPcs, Statuses, MonPcs, RecPcs, agentVars, claimVars, taskVars,
       busVars
  <2>7. QED BY <1>5, <2>1, <2>2, <2>3, <2>4, <2>5, <2>6 DEF Operator
<1>6. CASE Restart
  <2>1. AgentTypes' BY <1>6 DEF TypeOK, AgentTypes, Restart, ActiveRows
  <2>2. ClaimTypes' BY <1>6 DEF ClaimTypes, Restart, Kinds, FinPcs
  <2>3. TaskTypes' BY <1>6 DEF TypeOK, TaskTypes, Restart, Statuses
  <2>4. SpawnTypes' /\ MonTypes'
    BY <1>6 DEF Restart, SpawnTypes, MonTypes, MonPcs, MonIdle
  <2>5. RecTypes' BY <1>6 DEF Restart, RecTypes, RecStates, RecPcs
  <2>6. restarts' \in 0..MaxRestarts BY <1>6 DEF TypeOK, Restart
  <2>7. QED BY <2>1, <2>2, <2>3, <2>4, <2>5, <2>6 DEF TypeOK
<1>7. ASSUME NEW k \in Kinds, NEW a \in Agents, FinishThread(k, a) PROVE TypeOK'
  <2>1. ASSUME FinishMark(k, a) PROVE TypeOK'
    BY <2>1 DEF TypeOK, AgentTypes, ClaimTypes, TaskTypes, SpawnTypes,
       MonTypes, RecTypes, FinishMark, FinGoto, MarkRow, Revoke, Kinds, FinPcs,
       Statuses, MonPcs, RecPcs, agentVars, claimVars, taskVars, busVars
  <2>2. ASSUME FinishComplete(k, a) PROVE TypeOK'
    <3> USE <2>2
    <3>1. TaskTypes' BY DEF FinishComplete, TypeOK, TaskTypes, AgentTypes, Statuses, SpawnTypes
    <3>2. QED
      BY <3>1 DEF TypeOK, AgentTypes, ClaimTypes, SpawnTypes, MonTypes,
         RecTypes, FinishComplete, FinGoto, Kinds, FinPcs, Statuses, MonPcs,
         RecPcs, agentVars, claimVars, taskVars, busVars
  <2>3. ASSUME FinishFail(k, a) PROVE TypeOK'
    <3> USE <2>3
    <3>1. TaskTypes' BY FailureTypes DEF TypeOK, FinishFail
    <3>2. QED
      BY <3>1 DEF TypeOK, AgentTypes, ClaimTypes, SpawnTypes, MonTypes,
         RecTypes, FinishFail, FinGoto, Kinds, FinPcs, Statuses, MonPcs,
         RecPcs, agentVars, claimVars, taskVars, busVars
  <2>4. ASSUME FinishPost(k, a) PROVE TypeOK'
    <3> USE <2>4
    <3>1. TaskTypes'
      BY FailureTypes DEF TypeOK, FinishPost, TaskTypes, taskVars
    <3>2. QED
      BY <3>1 DEF TypeOK, AgentTypes, ClaimTypes, SpawnTypes, MonTypes,
         RecTypes, FinishPost, FinGoto, Kinds, FinPcs, Statuses, MonPcs,
         RecPcs, agentVars, claimVars, taskVars, busVars
  <2>5. ASSUME FinishRelease(k, a) PROVE TypeOK'
    BY <2>5 DEF TypeOK, AgentTypes, ClaimTypes, TaskTypes, SpawnTypes,
       MonTypes, RecTypes, FinishRelease, FinGoto, Kinds, FinPcs, Statuses,
       MonPcs, RecPcs, agentVars, claimVars, taskVars, busVars
  <2>6. QED BY <1>7, <2>1, <2>2, <2>3, <2>4, <2>5 DEF FinishThread
<1>8. ASSUME NEW r \in Reconcilers, Reconcile(r) PROVE TypeOK'
  <2>1. ASSUME RecKeys(r) PROVE TypeOK'
    <3> USE <2>1
    <3>1. RecTypes'
      <4> DEFINE S == handles \ rec[r].known
                 K == rec[r].known \cup handles
                 f == [rec EXCEPT ![r].pc = "handles", ![r].todo = S]
      <4>1. S \in SUBSET Agents /\ K \in SUBSET Agents
        BY DEF TypeOK, RecTypes, RecStates, ClaimTypes
      <4>2. rec' = [f EXCEPT ![r].known = K]
        BY DEF RecKeys, TypeOK, RecTypes, RecStates
      <4>3. "handles" \in RecPcs BY DEF RecPcs
      <4> HIDE DEF S, K
      <4>4. f \in [Reconcilers -> RecStates]
        BY <4>1, <4>3, ZenonT(60) DEF TypeOK, RecTypes, RecStates
      <4> HIDE DEF f
      <4>5. QED BY <4>1, <4>2, <4>4 DEF RecTypes, RecStates
    <3>2. QED
      BY <3>1 DEF TypeOK, AgentTypes, ClaimTypes, TaskTypes, SpawnTypes,
         MonTypes, RecKeys, Kinds, FinPcs, Statuses, MonPcs, RecPcs, agentVars,
         claimVars, taskVars, busVars
  <2>2. ASSUME RecRows(r) PROVE TypeOK'
    <3> USE <2>2
    <3>1. RecTypes'
      <4> DEFINE X == ActiveRows \ rec[r].known
      <4>1. X \in SUBSET Agents BY DEF ActiveRows
      <4> DEFINE f == [rec EXCEPT ![r].pc = "rows"]
      <4>2. rec' = [f EXCEPT ![r].todo = X]
        BY DEF RecRows, TypeOK, RecTypes, RecStates
      <4>3. "rows" \in RecPcs BY DEF RecPcs
      <4> HIDE DEF X
      <4>4. f \in [Reconcilers -> RecStates]
        BY <4>3 DEF TypeOK, RecTypes, RecStates
      <4> HIDE DEF f
      <4>5. QED BY <4>1, <4>2, <4>4 DEF RecTypes, RecStates
    <3>2. QED
      BY <3>1 DEF TypeOK, AgentTypes, ClaimTypes, TaskTypes, SpawnTypes,
         MonTypes, RecRows, ActiveRows, Kinds, FinPcs, Statuses, MonPcs,
         RecPcs, agentVars, claimVars, taskVars, busVars
  <2>3. ASSUME RecInProgress(r) PROVE TypeOK'
    <3> USE <2>3
    <3>1. RecTypes'
      <4> DEFINE X == {<<t, owner[t]>> : t \in {u \in Tasks : status[u] = "in_progress"}}
      <4>1. X \in SUBSET (Tasks \X (Agents \cup {NoAgent})) BY DEF TypeOK, TaskTypes
      <4> DEFINE f == [rec EXCEPT ![r].pc = "watch"]
      <4>2. rec' = [f EXCEPT ![r].prog = X]
        BY DEF RecInProgress, TypeOK, RecTypes, RecStates
      <4>3. "watch" \in RecPcs BY DEF RecPcs
      <4> HIDE DEF X
      <4>4. f \in [Reconcilers -> RecStates]
        BY <4>3 DEF TypeOK, RecTypes, RecStates
      <4> HIDE DEF f
      <4>5. QED BY <4>1, <4>2, <4>4 DEF RecTypes, RecStates
    <3>2. QED
      BY <3>1 DEF TypeOK, AgentTypes, ClaimTypes, TaskTypes, SpawnTypes,
         MonTypes, RecInProgress, Kinds, FinPcs, Statuses, MonPcs, RecPcs,
         agentVars, claimVars, taskVars, busVars
  <2>4. ASSUME RecWatch(r) PROVE TypeOK'
    <3> USE <2>4
    <3>1. RecTypes'
      <4> DEFINE X == {p \in rec[r].prog :
                        \A a \in ActiveRows : ~(taskOf[a] = p[1] /\ a = p[2])}
      <4>1. X \in SUBSET (Tasks \X (Agents \cup {NoAgent})) BY DEF TypeOK, RecTypes, RecStates
      <4> DEFINE f == [rec EXCEPT ![r].pc = "reset"]
      <4>2. rec' = [f EXCEPT ![r].prog = X]
        BY DEF RecWatch, TypeOK, RecTypes, RecStates
      <4>3. "reset" \in RecPcs BY DEF RecPcs
      <4> HIDE DEF X
      <4>4. f \in [Reconcilers -> RecStates]
        BY <4>3 DEF TypeOK, RecTypes, RecStates
      <4> HIDE DEF f
      <4>5. QED BY <4>1, <4>2, <4>4 DEF RecTypes, RecStates
    <3>2. QED
      BY <3>1 DEF TypeOK, AgentTypes, ClaimTypes, TaskTypes, SpawnTypes,
         MonTypes, RecWatch, ActiveRows, Kinds, FinPcs, Statuses, MonPcs,
         RecPcs, agentVars, claimVars, taskVars, busVars
  <2>5. ASSUME RecDone(r) PROVE TypeOK'
    <3> USE <2>5
    <3>1. RecTypes'
      <4> DEFINE K == {}
                 f == [rec EXCEPT ![r].pc = "idle"]
      <4>1. K \in SUBSET Agents OBVIOUS
      <4>2. rec' = [f EXCEPT ![r].known = K]
        BY DEF RecDone, TypeOK, RecTypes, RecStates
      <4>3. "idle" \in RecPcs BY DEF RecPcs
      <4> HIDE DEF K
      <4>4. f \in [Reconcilers -> RecStates]
        BY <4>3 DEF TypeOK, RecTypes, RecStates
      <4> HIDE DEF f
      <4>5. QED BY <4>1, <4>2, <4>4 DEF RecTypes, RecStates
    <3>2. QED
      BY <3>1 DEF TypeOK, AgentTypes, ClaimTypes, TaskTypes, SpawnTypes,
         MonTypes, RecDone, Kinds, FinPcs, Statuses, MonPcs, RecPcs, agentVars,
         claimVars, taskVars, busVars
  <2>6. ASSUME NEW a \in Agents, RecHandleOk(r, a) PROVE TypeOK'
    <3> USE <2>6
    <3>1. RecTypes' BY DEF TypeOK, RecTypes, RecStates, RecHandleOk, RecVisited
    <3>2. QED
      BY <3>1 DEF TypeOK, AgentTypes, ClaimTypes, TaskTypes, SpawnTypes,
         MonTypes, RecHandleOk, Kinds, FinPcs, Statuses, MonPcs, RecPcs,
         agentVars, claimVars, taskVars, busVars
  <2>7. ASSUME NEW a \in Agents, RecHandleNoRow(r, a) PROVE TypeOK'
    <3> USE <2>7
    <3>1. RecTypes' BY DEF TypeOK, RecTypes, RecStates, RecHandleNoRow, RecVisited
    <3>2. QED
      BY <3>1 DEF TypeOK, AgentTypes, ClaimTypes, TaskTypes, SpawnTypes,
         MonTypes, RecHandleNoRow, Finished, Kinds, FinPcs, Statuses, MonPcs,
         RecPcs, agentVars, claimVars, taskVars, busVars
  <2>8. ASSUME NEW a \in Agents, RecHandleStale(r, a) PROVE TypeOK'
    <3> USE <2>8
    <3>1. RecTypes' BY DEF TypeOK, RecTypes, RecStates, RecHandleStale, RecVisited
    <3>2. QED
      BY <3>1 DEF TypeOK, AgentTypes, ClaimTypes, TaskTypes, SpawnTypes,
         MonTypes, RecHandleStale, Finished, FailAgentAndRepairTask, MarkRow,
         Revoke, ResetIfInProgress, ResetTask, Kinds, FinPcs, Statuses, MonPcs,
         RecPcs, agentVars, claimVars, taskVars, busVars
  <2>9. ASSUME NEW a \in Agents, RecRowStale(r, a) PROVE TypeOK'
    <3> USE <2>9
    <3>1. RecTypes' BY DEF TypeOK, RecTypes, RecStates, RecRowStale, RecVisited
    <3>2. QED
      BY <3>1 DEF TypeOK, AgentTypes, ClaimTypes, TaskTypes, SpawnTypes,
         MonTypes, RecRowStale, FailAgentAndRepairTask, MarkRow, Revoke,
         ResetIfInProgress, ResetTask, Kinds, FinPcs, Statuses, MonPcs, RecPcs,
         agentVars, claimVars, taskVars, busVars
  <2>10. ASSUME NEW a \in Agents, RecRowAlive(r, a) PROVE TypeOK'
    <3> USE <2>10
    <3>1. RecTypes' BY DEF TypeOK, RecTypes, RecStates, RecRowAlive, RecVisited
    <3>2. QED
      BY <3>1 DEF TypeOK, AgentTypes, ClaimTypes, TaskTypes, SpawnTypes,
         MonTypes, RecRowAlive, Kinds, FinPcs, Statuses, MonPcs, RecPcs,
         agentVars, claimVars, taskVars, busVars
  <2>11. ASSUME NEW a \in Agents, RecRowDead(r, a) PROVE TypeOK'
    <3> USE <2>11
    <3>1. RecTypes' BY DEF TypeOK, RecTypes, RecStates, RecRowDead, RecVisited
    <3>2. QED
      BY <3>1 DEF TypeOK, AgentTypes, ClaimTypes, TaskTypes, SpawnTypes,
         MonTypes, RecRowDead, Kinds, FinPcs, Statuses, MonPcs, RecPcs,
         agentVars, claimVars, taskVars, busVars
  <2>12. ASSUME NEW p \in rec[r].prog, RecReset(r, p) PROVE TypeOK'
    <3> USE <2>12
    <3>1. RecTypes' BY DEF TypeOK, RecTypes, RecStates, RecReset
    <3>2. QED
      BY <3>1 DEF TypeOK, AgentTypes, ClaimTypes, TaskTypes, SpawnTypes,
         MonTypes, RecReset, ResetTask, Kinds, FinPcs, Statuses, MonPcs,
         RecPcs, agentVars, claimVars, taskVars, busVars
  <2>13. QED
    BY <1>8, <2>1, <2>2, <2>3, <2>4, <2>5, <2>6, <2>7, <2>8, <2>9, <2>10,
       <2>11, <2>12 DEF Reconcile
<1>9. ASSUME NEW a \in Agents, ProcessExit(a) PROVE TypeOK'
  BY <1>9 DEF TypeOK, AgentTypes, ClaimTypes, TaskTypes, SpawnTypes, MonTypes,
     RecTypes, ProcessExit, Finished, Kinds, FinPcs, Statuses, MonPcs, RecPcs,
     agentVars, claimVars, taskVars, busVars
<1>10. CASE UNCHANGED vars
  BY <1>10 DEF vars, TypeOK, AgentTypes, ClaimTypes, TaskTypes, SpawnTypes,
    MonTypes, RecTypes
<1>11. QED BY <1>1, <1>2, <1>3, <1>4, <1>5, <1>6, <1>7, <1>8, <1>9, <1>10 DEF Next

(* The types of the lifecycle's state hold in every reachable state.       *)
THEOREM TypeCorrect == Spec => []TypeOK
<1>1. Init => TypeOK
  BY DEF Init, MonIdle, TypeOK, AgentTypes, ClaimTypes, TaskTypes, SpawnTypes, MonTypes,
     RecTypes, RecStates, Kinds, FinPcs, Statuses, MonPcs, RecPcs
<1>2. QED BY <1>1, TypeStep, PTL DEF Spec

-------------------------------------------------------------------------------
(* What every step of every thread preserves of the handing-over of        *)
(* handles and tokens.  ClaimExclusive alone is not inductive: a spawn     *)
(* must find no finish thread of its agent, which is so because the agent  *)
(* id is fresh (UnbornIsBare) and the call in progress is the one that     *)
(* took it (SpawnStages).                                                  *)
Handover == UnbornIsBare /\ SpawnStages /\ ClaimExclusive /\ ClosedRowTokenDead

IInv == TypeOK /\ Handover

touched == <<proc, token, row, taskOf, handles, fin, spawn>>

(* A step that touches neither agents, handles, finish threads nor the     *)
(* spawn in progress preserves it.                                         *)
LEMMA Untouched == ASSUME Handover, UNCHANGED touched PROVE Handover'
BY DEF Handover, UnbornIsBare, SpawnStages, ClaimExclusive, ClosedRowTokenDead,
   touched

(* Every step of every thread preserves it.                                *)
LEMMA HandoverStep == IInv /\ [Next]_vars => Handover'
<1> SUFFICES ASSUME TypeOK, Handover, [Next]_vars PROVE Handover'
  BY DEF IInv
<1>1. CASE Spawner
  <2>1. ASSUME SpawnProcess PROVE Handover'
    BY <2>1 DEF SpawnProcess, TypeOK, AgentTypes, ClaimTypes, SpawnTypes,
       Handover, UnbornIsBare, SpawnStages, ClaimExclusive, ClosedRowTokenDead,
       claimVars, agentVars
  <2>2. ASSUME SpawnRow PROVE Handover'
    BY <2>2 DEF SpawnRow, TypeOK, AgentTypes, ClaimTypes, SpawnTypes, Handover,
       UnbornIsBare, SpawnStages, ClaimExclusive, ClosedRowTokenDead,
       claimVars, agentVars
  <2>3. ASSUME SpawnOwn PROVE Handover'
    BY <2>3 DEF SpawnOwn, TypeOK, AgentTypes, ClaimTypes, SpawnTypes, Handover,
       UnbornIsBare, SpawnStages, ClaimExclusive, ClosedRowTokenDead,
       claimVars, agentVars
  <2>4. ASSUME SpawnError PROVE Handover'
    BY <2>4 DEF SpawnError, TypeOK, AgentTypes, ClaimTypes, SpawnTypes,
       Handover, UnbornIsBare, SpawnStages, ClaimExclusive, ClosedRowTokenDead,
       claimVars, agentVars
  <2>5. ASSUME NEW t \in Tasks, ApiSpawnRefused(t) PROVE Handover'
    BY <2>5, Untouched DEF ApiSpawnRefused, touched, agentVars, claimVars
  <2>6. ASSUME NEW t \in Tasks, NEW a \in Agents, FillSlots(t, a) PROVE Handover'
    BY <2>6 DEF FillSlots, SpawnBegin, TypeOK, AgentTypes, ClaimTypes,
       SpawnTypes, Handover, UnbornIsBare, SpawnStages, ClaimExclusive,
       ClosedRowTokenDead, claimVars, agentVars
  <2>7. ASSUME NEW t \in Tasks, NEW a \in Agents, ApiFill(t, a) PROVE Handover'
    BY <2>7 DEF ApiFill, SpawnBegin, TypeOK, AgentTypes, ClaimTypes,
       SpawnTypes, Handover, UnbornIsBare, SpawnStages, ClaimExclusive,
       ClosedRowTokenDead, claimVars, agentVars
  <2>8. ASSUME NEW t \in Tasks, NEW a \in Agents, ApiSpawnRun(t, a) PROVE Handover'
    BY <2>8 DEF ApiSpawnRun, SpawnBegin, TypeOK, AgentTypes, ClaimTypes,
       SpawnTypes, Handover, UnbornIsBare, SpawnStages, ClaimExclusive,
       ClosedRowTokenDead, claimVars, agentVars
  <2>9. QED
    BY <1>1, <2>1, <2>2, <2>3, <2>4, <2>5, <2>6, <2>7, <2>8 DEF Spawner
<1>2. CASE Monitor
  <2>1. ASSUME MonBegin \/ MonDep PROVE Handover'
    BY <2>1, Untouched DEF MonBegin, MonDep, touched, agentVars, claimVars
  <2>2. ASSUME DepPop PROVE Handover'
    BY <2>2 DEF DepPop, ClaimPop, Revoke, MonTypes, TypeOK, AgentTypes,
       ClaimTypes, SpawnTypes, Handover, UnbornIsBare, SpawnStages,
       ClaimExclusive, ClosedRowTokenDead, claimVars, agentVars
  <2>3. ASSUME DepWrite PROVE Handover'
    BY <2>3 DEF DepWrite, MarkRow, Revoke, MonTypes, TypeOK, AgentTypes,
       ClaimTypes, SpawnTypes, Handover, UnbornIsBare, SpawnStages,
       ClaimExclusive, ClosedRowTokenDead, claimVars, agentVars
  <2>4. ASSUME MonPoll PROVE Handover'
    BY <2>4, Untouched DEF MonPoll, touched, agentVars, claimVars
  <2>5. ASSUME SweepPop PROVE Handover'
    BY <2>5 DEF SweepPop, ClaimPop, Revoke, StartFinish, MonTypes, Kinds,
       FinPcs, TypeOK, AgentTypes, ClaimTypes, SpawnTypes, Handover,
       UnbornIsBare, SpawnStages, ClaimExclusive, ClosedRowTokenDead,
       claimVars, agentVars
  <2>6. ASSUME MonReconcile PROVE Handover'
    BY <2>6, Untouched DEF MonReconcile, RecBegin, touched, agentVars,
       claimVars
  <2>7. ASSUME MonRest PROVE Handover'
    BY <2>7, Untouched DEF MonRest, touched, agentVars, claimVars
  <2>8. ASSUME NEW a \in Agents, DepMet(a) PROVE Handover'
    BY <2>8, Untouched DEF DepMet, touched, agentVars, claimVars
  <2>9. ASSUME NEW a \in Agents, DepKill(a) PROVE Handover'
    BY <2>9 DEF DepKill, Finished, TypeOK, AgentTypes, ClaimTypes, SpawnTypes,
       Handover, UnbornIsBare, SpawnStages, ClaimExclusive, ClosedRowTokenDead,
       claimVars, agentVars
  <2>10. ASSUME NEW a \in Agents, SweepClaim(a) PROVE Handover'
    BY <2>10 DEF SweepClaim, Finished, TypeOK, AgentTypes, ClaimTypes,
       SpawnTypes, Handover, UnbornIsBare, SpawnStages, ClaimExclusive,
       ClosedRowTokenDead, claimVars, agentVars
  <2>11. QED
    BY <1>2, <2>1, <2>2, <2>3, <2>4, <2>5, <2>6, <2>7, <2>8, <2>9, <2>10 DEF
       Monitor
<1>3. CASE Dispatcher
  <2>1. ASSUME BusPop PROVE Handover'
    BY <2>1 DEF BusPop, ClaimPop, Revoke, StartFinish, Kinds, FinPcs, TypeOK,
       AgentTypes, ClaimTypes, SpawnTypes, Handover, UnbornIsBare, SpawnStages,
       ClaimExclusive, ClosedRowTokenDead, claimVars, agentVars
  <2>2. ASSUME NEW a \in Agents, BusClaim(a) PROVE Handover'
    BY <2>2, Untouched DEF BusClaim, touched, agentVars, claimVars
  <2>3. QED
    BY <1>3, <2>1, <2>2 DEF Dispatcher
<1>4. CASE Faults
  <2>1. ASSUME NEW a \in Agents, FinishErrorClaimed(a) PROVE Handover'
    BY <2>1 DEF FinishErrorClaimed, FinGoto, Kinds, FinPcs, TypeOK, AgentTypes,
       ClaimTypes, SpawnTypes, Handover, UnbornIsBare, SpawnStages,
       ClaimExclusive, ClosedRowTokenDead, claimVars, agentVars
  <2>2. ASSUME NEW a \in Agents, FinishErrorOrphan(a) PROVE Handover'
    BY <2>2 DEF FinishErrorOrphan, FinGoto, MarkRow, Revoke, Kinds, FinPcs,
       TypeOK, AgentTypes, ClaimTypes, SpawnTypes, Handover, UnbornIsBare,
       SpawnStages, ClaimExclusive, ClosedRowTokenDead, claimVars, agentVars
  <2>3. QED
    BY <1>4, <2>1, <2>2 DEF Faults
<1>5. CASE Operator
  <2>1. ASSUME ApiReconcile PROVE Handover'
    BY <2>1, Untouched DEF ApiReconcile, RecBegin, touched, agentVars,
       claimVars
  <2>2. ASSUME NEW t \in Tasks, ApiSpawn(t) PROVE Handover'
    BY <2>2, Untouched DEF ApiSpawn, touched, agentVars, claimVars
  <2>3. ASSUME NEW t \in Tasks, ApiCancel(t) PROVE Handover'
    BY <2>3, Untouched DEF ApiCancel, touched, agentVars, claimVars
  <2>4. ASSUME NEW t \in Tasks, DependencyAdded(t) PROVE Handover'
    BY <2>4, Untouched DEF DependencyAdded, touched, agentVars, claimVars
  <2>5. ASSUME NEW t \in Tasks, DependencyMet(t) PROVE Handover'
    BY <2>5, Untouched DEF DependencyMet, touched, agentVars, claimVars
  <2>6. ASSUME NEW a \in Agents, ApiKill(a) PROVE Handover'
    BY <2>6 DEF ApiKill, Finished, MarkRow, Revoke, TypeOK, AgentTypes,
       ClaimTypes, SpawnTypes, Handover, UnbornIsBare, SpawnStages,
       ClaimExclusive, ClosedRowTokenDead, claimVars, agentVars
  <2>7. QED
    BY <1>5, <2>1, <2>2, <2>3, <2>4, <2>5, <2>6 DEF Operator
<1>6. CASE Restart
  BY <1>6 DEF Restart, ActiveRows, Kinds, TypeOK, AgentTypes, ClaimTypes,
     SpawnTypes, Handover, UnbornIsBare, SpawnStages, ClaimExclusive,
     ClosedRowTokenDead, claimVars, agentVars
<1>7. ASSUME NEW k \in Kinds, NEW a \in Agents, FinishThread(k, a) PROVE Handover'
  <2>1. ASSUME FinishMark(k, a) PROVE Handover'
    BY <2>1 DEF FinishMark, FinGoto, MarkRow, Revoke, Kinds, FinPcs, TypeOK,
       AgentTypes, ClaimTypes, SpawnTypes, Handover, UnbornIsBare, SpawnStages,
       ClaimExclusive, ClosedRowTokenDead, claimVars, agentVars
  <2>2. ASSUME FinishComplete(k, a) PROVE Handover'
    BY <2>2 DEF FinishComplete, FinGoto, Kinds, FinPcs, TypeOK, AgentTypes,
       ClaimTypes, SpawnTypes, Handover, UnbornIsBare, SpawnStages,
       ClaimExclusive, ClosedRowTokenDead, claimVars, agentVars
  <2>3. ASSUME FinishFail(k, a) PROVE Handover'
    BY <2>3 DEF FinishFail, FinGoto, Kinds, FinPcs, TypeOK, AgentTypes,
       ClaimTypes, SpawnTypes, Handover, UnbornIsBare, SpawnStages,
       ClaimExclusive, ClosedRowTokenDead, claimVars, agentVars
  <2>4. ASSUME FinishPost(k, a) PROVE Handover'
    BY <2>4 DEF FinishPost, FinGoto, Kinds, FinPcs, TypeOK, AgentTypes,
       ClaimTypes, SpawnTypes, Handover, UnbornIsBare, SpawnStages,
       ClaimExclusive, ClosedRowTokenDead, claimVars, agentVars
  <2>5. ASSUME FinishRelease(k, a) PROVE Handover'
    BY <2>5 DEF FinishRelease, FinGoto, Kinds, FinPcs, TypeOK, AgentTypes,
       ClaimTypes, SpawnTypes, Handover, UnbornIsBare, SpawnStages,
       ClaimExclusive, ClosedRowTokenDead, claimVars, agentVars
  <2>6. QED
    BY <1>7, <2>1, <2>2, <2>3, <2>4, <2>5 DEF FinishThread
<1>8. ASSUME NEW r \in Reconcilers, Reconcile(r) PROVE Handover'
  <2>1. ASSUME RecKeys(r) PROVE Handover'
    BY <2>1, Untouched DEF RecKeys, touched, agentVars, claimVars
  <2>2. ASSUME RecRows(r) PROVE Handover'
    BY <2>2, Untouched DEF RecRows, touched, agentVars, claimVars
  <2>3. ASSUME RecInProgress(r) PROVE Handover'
    BY <2>3, Untouched DEF RecInProgress, touched, agentVars, claimVars
  <2>4. ASSUME RecWatch(r) PROVE Handover'
    BY <2>4, Untouched DEF RecWatch, touched, agentVars, claimVars
  <2>5. ASSUME RecDone(r) PROVE Handover'
    BY <2>5 DEF RecDone, TypeOK, AgentTypes, ClaimTypes, SpawnTypes, Handover,
       UnbornIsBare, SpawnStages, ClaimExclusive, ClosedRowTokenDead,
       claimVars, agentVars
  <2>6. ASSUME NEW a \in Agents, RecHandleOk(r, a) PROVE Handover'
    BY <2>6, Untouched DEF RecHandleOk, touched, agentVars, claimVars
  <2>7. ASSUME NEW a \in Agents, RecHandleNoRow(r, a) PROVE Handover'
    BY <2>7 DEF RecHandleNoRow, Finished, TypeOK, AgentTypes, ClaimTypes,
       SpawnTypes, Handover, UnbornIsBare, SpawnStages, ClaimExclusive,
       ClosedRowTokenDead, claimVars, agentVars
  <2>8. ASSUME NEW a \in Agents, RecHandleStale(r, a) PROVE Handover'
    BY <2>8 DEF RecHandleStale, Finished, FailAgentAndRepairTask, MarkRow,
       Revoke, TypeOK, AgentTypes, ClaimTypes, SpawnTypes, Handover,
       UnbornIsBare, SpawnStages, ClaimExclusive, ClosedRowTokenDead,
       claimVars, agentVars
  <2>9. ASSUME NEW a \in Agents, RecRowStale(r, a) PROVE Handover'
    BY <2>9 DEF RecRowStale, FailAgentAndRepairTask, MarkRow, Revoke, TypeOK,
       AgentTypes, ClaimTypes, SpawnTypes, Handover, UnbornIsBare, SpawnStages,
       ClaimExclusive, ClosedRowTokenDead, claimVars, agentVars
  <2>10. ASSUME NEW a \in Agents, RecRowAlive(r, a) PROVE Handover'
    BY <2>10, Untouched DEF RecRowAlive, touched, agentVars, claimVars
  <2>11. ASSUME NEW a \in Agents, RecRowDead(r, a) PROVE Handover'
    BY <2>11 DEF RecRowDead, Kinds, FinPcs, TypeOK, AgentTypes, ClaimTypes,
       SpawnTypes, Handover, UnbornIsBare, SpawnStages, ClaimExclusive,
       ClosedRowTokenDead, claimVars, agentVars
  <2>12. ASSUME NEW p \in rec[r].prog, RecReset(r, p) PROVE Handover'
    BY <2>12, Untouched DEF RecReset, touched, agentVars, claimVars
  <2>13. QED
    BY <1>8, <2>1, <2>2, <2>3, <2>4, <2>5, <2>6, <2>7, <2>8, <2>9, <2>10,
       <2>11, <2>12 DEF Reconcile
<1>9. ASSUME NEW a \in Agents, ProcessExit(a) PROVE Handover'
  BY <1>9 DEF ProcessExit, Finished, TypeOK, AgentTypes, ClaimTypes,
     SpawnTypes, Handover, UnbornIsBare, SpawnStages, ClaimExclusive,
     ClosedRowTokenDead, claimVars, agentVars
<1>10. CASE UNCHANGED vars
  BY <1>10, Untouched DEF vars, touched
<1>11. QED
  BY <1>1, <1>2, <1>3, <1>4, <1>5, <1>6, <1>7, <1>8, <1>9, <1>10 DEF Next

(* The strengthened invariant holds in every reachable state.              *)
LEMMA Inductive == Spec => []IInv
<1>1. Init => Handover
  BY DEF Init, Handover, UnbornIsBare, SpawnStages, ClaimExclusive,
     ClosedRowTokenDead, Kinds
<1>2. Init => TypeOK
  BY DEF Init, MonIdle, TypeOK, AgentTypes, ClaimTypes, TaskTypes, SpawnTypes, MonTypes,
     RecTypes, RecStates, Kinds, FinPcs, Statuses, MonPcs, RecPcs
<1>3. Init => IInv BY <1>1, <1>2 DEF IInv
<1>4. IInv /\ [Next]_vars => IInv' BY TypeStep, HandoverStep DEF IInv
<1>5. QED BY <1>3, <1>4, PTL DEF Spec

(* claim_finish hands an agent's handle out once: while a finish thread of *)
(* start_finish_thread runs, the agent has neither a handle nor a live     *)
(* token, so no other path can start a second one.                         *)
THEOREM ClaimsAreExclusive == Spec => []ClaimExclusive
<1>1. IInv => ClaimExclusive BY DEF IInv, Handover
<1>2. QED BY <1>1, Inductive, PTL

(* Every path that closes an agents row takes the agent's API token with   *)
(* it: agent_update_status revokes it, in whichever thread it runs.        *)
THEOREM ClosedRowsHaveNoToken == Spec => []ClosedRowTokenDead
<1>1. IInv => ClosedRowTokenDead BY DEF IInv, Handover
<1>2. QED BY <1>1, Inductive, PTL
-------------------------------------------------------------------------------
(* Refinement: the lifecycle implements AgentTeardown under `phase`.       *)

(* An agent stays in its phase when none of the three facts that make it   *)
(* up changes.                                                             *)
LEMMA SamePhase ==
  ASSUME NEW a,
         proc'[a] = "unborn" <=> proc[a] = "unborn",
         a \in handles' <=> a \in handles,
         fin'["claimed"][a] = "idle" <=> fin["claimed"][a] = "idle"
  PROVE  PhaseOf(a)' = PhaseOf(a)
BY DEF PhaseOf

(* When no agent changes phase, the step is a stutter.                     *)
LEMMA Stutter ==
  ASSUME \A a \in Agents : PhaseOf(a)' = PhaseOf(a)
  PROVE  UNCHANGED phase
BY DEF phase

(* When one agent does, it is a step of that agent.                        *)
LEMMA OneMoves ==
  ASSUME NEW b \in Agents, NEW from, NEW to,
         PhaseOf(b) = from, PhaseOf(b)' = to,
         \A a \in Agents \ {b} : PhaseOf(a)' = PhaseOf(a)
  PROVE  Teardown!Step(b, from, to)
BY DEF phase, Teardown!Step

(* Every step of every thread is a step of AgentTeardown or a stutter.     *)
LEMMA TeardownStep == IInv /\ [Next]_vars => [Teardown!Next]_phase
<1> SUFFICES ASSUME TypeOK, Handover, [Next]_vars
             PROVE  Teardown!Next \/ UNCHANGED phase
  BY DEF IInv
<1>a. ASSUME UNCHANGED <<proc, handles, fin>> PROVE UNCHANGED phase
  BY <1>a, SamePhase, Stutter
<1>b. ASSUME NEW b \in Agents, proc' = Finished(b), UNCHANGED <<handles, fin>>
      PROVE  UNCHANGED phase
  <2>1. \A a \in Agents : proc'[a] = "unborn" <=> proc[a] = "unborn"
    BY <1>b DEF Finished, TypeOK, AgentTypes
  <2>2. QED BY <1>b, <2>1, SamePhase, Stutter
<1>c. ASSUME NEW k \in Kinds, NEW b \in Agents, NEW pc, FinGoto(k, b, pc),
             UNCHANGED <<proc, handles>>,
             k = "claimed" => pc # "idle" /\ fin[k][b] # "idle"
      PROVE  UNCHANGED phase
  <2>1. \A a \in Agents :
          fin'["claimed"][a] = "idle" <=> fin["claimed"][a] = "idle"
    BY <1>c DEF FinGoto, TypeOK, ClaimTypes, Kinds
  <2>2. QED BY <1>c, <2>1, SamePhase, Stutter
<1>d. ASSUME NEW b \in Agents, handles' = handles \ {b}, UNCHANGED fin,
             proc' = proc \/ proc' = Finished(b)
      PROVE  Teardown!Next \/ UNCHANGED phase
  <2>1. \A a \in Agents : proc'[a] = "unborn" <=> proc[a] = "unborn"
    BY <1>d DEF Finished, TypeOK, AgentTypes
  <2>2. \A a \in Agents \ {b} : PhaseOf(a)' = PhaseOf(a)
    BY <1>d, <2>1, SamePhase
  <2>3. CASE b \in handles
    <3>1. PhaseOf(b) = "supervised"
      BY <2>3 DEF PhaseOf, Handover, UnbornIsBare
    <3>2. PhaseOf(b)' = "torn"
      BY <1>d, <2>1, <2>3 DEF PhaseOf, Handover, UnbornIsBare, ClaimExclusive
    <3>3. QED
      BY <2>2, <3>1, <3>2, OneMoves DEF Teardown!Next, Teardown!Drop
  <2>4. CASE b \notin handles
    BY <1>d, <2>1, <2>2, <2>4, SamePhase, Stutter
  <2>5. QED BY <2>3, <2>4
<1>e. ASSUME NEW b \in Agents, ClaimPop(b), StartFinish(b), UNCHANGED proc
      PROVE  Teardown!Next \/ UNCHANGED phase
  <2>1. \A a \in Agents \ {b} : PhaseOf(a)' = PhaseOf(a)
    BY <1>e, SamePhase DEF ClaimPop, StartFinish, TypeOK, ClaimTypes, Kinds
  <2>2. CASE b \in handles
    <3>1. PhaseOf(b) = "supervised"
      BY <2>2 DEF PhaseOf, Handover, UnbornIsBare
    <3>2. PhaseOf(b)' = "tearing"
      BY <1>e, <2>2 DEF PhaseOf, Handover, UnbornIsBare, ClaimPop, StartFinish,
         TypeOK, ClaimTypes, Kinds
    <3>3. QED
      BY <2>1, <3>1, <3>2, OneMoves DEF Teardown!Next, Teardown!Claim
  <2>3. CASE b \notin handles
    <3>1. handles' = handles /\ fin' = fin
      BY <1>e, <2>3 DEF ClaimPop, StartFinish
    <3>2. QED BY <1>a, <1>e, <3>1
  <2>4. QED BY <2>2, <2>3
<1>1. CASE Spawner
  <2>1. ASSUME SpawnProcess PROVE Teardown!Next
    <3>1. PICK b \in Agents : b = spawn.agent
      BY <2>1 DEF SpawnProcess, TypeOK, SpawnTypes
    <3>2. PhaseOf(b) = "unborn"
      BY <2>1, <3>1 DEF PhaseOf, SpawnProcess, Handover, SpawnStages
    <3>3. PhaseOf(b)' = "supervised"
      BY <2>1, <3>1 DEF PhaseOf, SpawnProcess, TypeOK, AgentTypes
    <3>4. \A a \in Agents \ {b} : PhaseOf(a)' = PhaseOf(a)
      BY <2>1, <3>1, SamePhase DEF SpawnProcess, TypeOK, AgentTypes
    <3>5. QED
      BY <3>1, <3>2, <3>3, <3>4, OneMoves DEF Teardown!Next, Teardown!Spawn
  <2>2. CASE SpawnRow \/ SpawnOwn \/ SpawnError
    BY <1>a, <2>2 DEF SpawnRow, SpawnOwn, SpawnError, claimVars, agentVars
  <2>3. ASSUME NEW t \in Tasks, NEW a \in Agents,
               \/ ApiSpawnRefused(t) \/ FillSlots(t, a) \/ ApiFill(t, a)
               \/ ApiSpawnRun(t, a)
        PROVE  UNCHANGED phase
    BY <1>a, <2>3 DEF ApiSpawnRefused, FillSlots, ApiFill, ApiSpawnRun,
       SpawnBegin, claimVars, agentVars
  <2>4. ASSUME NEW t \in Tasks, ApiSpawnRefused(t) PROVE UNCHANGED phase
    BY <1>a, <2>4 DEF ApiSpawnRefused, claimVars, agentVars
  <2>5. QED BY <1>1, <2>1, <2>2, <2>3, <2>4 DEF Spawner
<1>2. CASE Monitor
  <2>1. CASE MonBegin \/ MonDep \/ DepWrite \/ MonPoll \/ MonReconcile \/ MonRest
    BY <1>a, <2>1 DEF MonBegin, MonDep, DepWrite, MonPoll, MonReconcile, MonRest,
       RecBegin, claimVars, agentVars
  <2>2. CASE DepPop
    <3>1. mon.cur \in Agents BY <2>2 DEF DepPop, TypeOK, MonTypes
    <3>2. QED BY <1>d, <2>2, <3>1 DEF DepPop, ClaimPop
  <2>3. CASE SweepPop
    <3>1. mon.cur \in Agents BY <2>3 DEF SweepPop, TypeOK, MonTypes
    <3>2. QED BY <1>e, <2>3, <3>1 DEF SweepPop
  <2>4. ASSUME NEW a \in Agents, DepMet(a) PROVE UNCHANGED phase
    BY <1>a, <2>4 DEF DepMet, claimVars, agentVars
  <2>5. ASSUME NEW a \in Agents, DepKill(a) \/ SweepClaim(a)
        PROVE  UNCHANGED phase
    BY <1>b, <2>5 DEF DepKill, SweepClaim
  <2>6. QED BY <1>2, <2>1, <2>2, <2>3, <2>4, <2>5 DEF Monitor
<1>3. CASE Dispatcher
  <2>1. CASE BusPop
    <3>1. disp \in Agents BY <2>1 DEF BusPop, TypeOK, ClaimTypes
    <3>2. QED BY <1>e, <2>1, <3>1 DEF BusPop
  <2>2. ASSUME NEW a \in Agents, BusClaim(a) PROVE UNCHANGED phase
    BY <1>a, <2>2 DEF BusClaim, agentVars
  <2>3. QED BY <1>3, <2>1, <2>2 DEF Dispatcher
<1>4. CASE Faults
  <2>1. ASSUME NEW a \in Agents, FinishErrorClaimed(a) PROVE UNCHANGED phase
    BY <1>c, <2>1 DEF FinishErrorClaimed, agentVars, Kinds
  <2>2. ASSUME NEW a \in Agents, FinishErrorOrphan(a) PROVE UNCHANGED phase
    BY <1>c, <2>2 DEF FinishErrorOrphan, Kinds
  <2>3. QED BY <1>4, <2>1, <2>2 DEF Faults
<1>5. CASE Operator
  <2>1. CASE ApiReconcile
    BY <1>a, <2>1 DEF ApiReconcile, RecBegin, claimVars, agentVars
  <2>2. ASSUME NEW t \in Tasks,
               \/ ApiSpawn(t) \/ ApiCancel(t)
               \/ DependencyAdded(t) \/ DependencyMet(t)
        PROVE  UNCHANGED phase
    BY <1>a, <2>2 DEF ApiSpawn, ApiCancel, DependencyAdded, DependencyMet,
       claimVars, agentVars
  <2>3. ASSUME NEW a \in Agents, ApiKill(a) PROVE UNCHANGED phase
    BY <1>b, <2>3 DEF ApiKill, claimVars
  <2>4. QED BY <1>5, <2>1, <2>2, <2>3 DEF Operator
<1>6. CASE Restart
  <2>1. proc' = proc /\ handles' = {} BY <1>6 DEF Restart
  <2>2. \A a \in Agents : fin'["claimed"][a] = "idle" BY <1>6 DEF Restart, Kinds
  <2>3. \A a \in Agents :
          PhaseOf(a)' = IF PhaseOf(a) = "unborn" THEN "unborn" ELSE "torn"
    BY <2>1, <2>2 DEF PhaseOf
  <2>4. QED BY <2>3 DEF Teardown!Next, Teardown!Crash, phase
<1>7. ASSUME NEW k \in Kinds, NEW b \in Agents, FinishThread(k, b)
      PROVE  Teardown!Next \/ UNCHANGED phase
  <2>1. CASE \/ FinishMark(k, b) \/ FinishComplete(k, b)
             \/ FinishFail(k, b) \/ FinishPost(k, b)
    <3>1. PICK pc \in FinPcs \ {"idle"} : FinGoto(k, b, pc)
      BY <2>1 DEF FinishMark, FinishComplete, FinishFail, FinishPost, FinPcs
    <3>2. fin[k][b] # "idle" /\ UNCHANGED <<proc, handles>>
      BY <2>1 DEF FinishMark, FinishComplete, FinishFail, FinishPost, agentVars
    <3>3. QED BY <1>c, <3>1, <3>2
  <2>2. CASE FinishRelease(k, b) /\ k = "orphan"
    BY <1>c, <2>2 DEF FinishRelease, agentVars
  <2>3. CASE FinishRelease(k, b) /\ k = "claimed"
    <3>1. PhaseOf(b) = "tearing"
      BY <2>3 DEF FinishRelease, PhaseOf, Handover, UnbornIsBare, ClaimExclusive
    <3>2. PhaseOf(b)' = "torn"
      BY <2>3, <3>1 DEF FinishRelease, FinGoto, PhaseOf, agentVars, TypeOK,
         ClaimTypes, Kinds
    <3>3. \A a \in Agents \ {b} : PhaseOf(a)' = PhaseOf(a)
      BY <2>3, SamePhase DEF FinishRelease, FinGoto, agentVars, TypeOK,
         ClaimTypes, Kinds
    <3>4. QED
      BY <3>1, <3>2, <3>3, OneMoves DEF Teardown!Next, Teardown!Finish
  <2>4. QED BY <1>7, <2>1, <2>2, <2>3 DEF FinishThread, Kinds
<1>8. ASSUME NEW r \in Reconcilers, Reconcile(r)
      PROVE  Teardown!Next \/ UNCHANGED phase
  <2>1. CASE \/ RecKeys(r) \/ RecRows(r) \/ RecInProgress(r) \/ RecWatch(r)
             \/ RecDone(r)
    BY <1>a, <2>1 DEF RecKeys, RecRows, RecInProgress, RecWatch, RecDone,
       claimVars, agentVars
  <2>2. ASSUME NEW a \in Agents,
               RecHandleOk(r, a) \/ RecRowStale(r, a) \/ RecRowAlive(r, a)
        PROVE  UNCHANGED phase
    BY <1>a, <2>2 DEF RecHandleOk, RecRowStale, RecRowAlive, claimVars, agentVars
  <2>3. ASSUME NEW a \in Agents, RecHandleNoRow(r, a) \/ RecHandleStale(r, a)
        PROVE  Teardown!Next \/ UNCHANGED phase
    BY <1>d, <2>3 DEF RecHandleNoRow, RecHandleStale
  <2>4. ASSUME NEW a \in Agents, RecRowDead(r, a) PROVE UNCHANGED phase
    BY <1>a, <1>c, <2>4 DEF RecRowDead, FinGoto, agentVars, Kinds
  <2>5. ASSUME NEW p \in rec[r].prog, RecReset(r, p) PROVE UNCHANGED phase
    BY <1>a, <2>5 DEF RecReset, claimVars, agentVars
  <2>6. QED BY <1>8, <2>1, <2>2, <2>3, <2>4, <2>5 DEF Reconcile
<1>9. ASSUME NEW a \in Agents, ProcessExit(a) PROVE UNCHANGED phase
  BY <1>b, <1>9 DEF ProcessExit, claimVars
<1>10. CASE UNCHANGED vars
  BY <1>a, <1>10 DEF vars
<1>11. QED
  BY <1>1, <1>2, <1>3, <1>4, <1>5, <1>6, <1>7, <1>8, <1>9, <1>10 DEF Next

(* The lifecycle implements the teardown promise of claim_finish: each     *)
(* agent is supervised once, and the one path that takes its handle hands  *)
(* it to one finish thread or drops it, under every interleaving of sweep, *)
(* dispatcher, dependency check, reconcilers, operators and restarts.      *)
THEOREM ImplementsTeardown == Spec => TeardownSpec
<1>1. Init => Teardown!Init
  BY DEF Init, Teardown!Init, phase, PhaseOf
<1>2. IInv /\ [Next]_vars => [Teardown!Next]_phase BY TeardownStep
<1>3. QED BY <1>1, <1>2, Inductive, PTL DEF Spec, TeardownSpec, Teardown!Spec

-------------------------------------------------------------------------------
(* Every agent process has a handle: who drops one has killed the process  *)
(* or saw it exited, and it is still the same process when the handle goes, *)
(* because agents the monitor looks at were born when it collected them.   *)
LookedAt == {"dep", "depPop", "depWrite", "sweep", "sweepPop"}

Tended ==
  /\ RunningIsSupervised
  /\ mon.pc \in {"depPop", "sweepPop"} => proc[mon.cur] = "exited"
  /\ disp # NoAgent => proc[disp] = "exited"
  /\ mon.pc \in LookedAt => \A a \in mon.todo : proc[a] # "unborn"

tendedVars == <<proc, handles, disp, mon>>

LEMMA TendedUntouched == ASSUME Tended, UNCHANGED tendedVars PROVE Tended'
BY DEF Tended, RunningIsSupervised, Running, tendedVars

(* Only a restart is counted.                                              *)
LEMMA RestartsCounted ==
  ASSUME [Next]_vars PROVE UNCHANGED restarts \/ Restart
<1> DEFINE Counted == UNCHANGED restarts \/ Restart
<1>1. CASE Spawner
  <2>1. CASE SpawnProcess \/ SpawnRow \/ SpawnOwn \/ SpawnError
    BY <2>1 DEF SpawnProcess, SpawnRow, SpawnOwn, SpawnError
  <2>2. ASSUME NEW t \in Tasks, ApiSpawnRefused(t) PROVE Counted
    BY <2>2 DEF ApiSpawnRefused
  <2>3. ASSUME NEW t \in Tasks, NEW a \in Agents,
               FillSlots(t, a) \/ ApiFill(t, a) \/ ApiSpawnRun(t, a)
        PROVE  Counted
    BY <2>3 DEF FillSlots, ApiFill, ApiSpawnRun, SpawnBegin
  <2>4. QED BY <1>1, <2>1, <2>2, <2>3 DEF Spawner
<1>2. CASE Monitor
  <2>1. CASE MonBegin \/ MonDep \/ DepPop \/ DepWrite \/ MonPoll \/ SweepPop
           \/ MonReconcile \/ MonRest
    BY <2>1 DEF MonBegin, MonDep, DepPop, DepWrite, MonPoll, SweepPop,
       MonReconcile, MonRest, RecBegin
  <2>2. ASSUME NEW a \in Agents, DepMet(a) \/ DepKill(a) \/ SweepClaim(a)
        PROVE  Counted
    BY <2>2 DEF DepMet, DepKill, SweepClaim
  <2>3. QED BY <1>2, <2>1, <2>2 DEF Monitor
<1>3. CASE Dispatcher
  <2>1. CASE BusPop
    BY <2>1 DEF BusPop
  <2>2. ASSUME NEW a \in Agents, BusClaim(a) PROVE Counted
    BY <2>2 DEF BusClaim
  <2>3. QED BY <1>3, <2>1, <2>2 DEF Dispatcher
<1>4. CASE Faults
  <2>1. ASSUME NEW a \in Agents, FinishErrorClaimed(a) \/ FinishErrorOrphan(a)
        PROVE  Counted
    BY <2>1 DEF FinishErrorClaimed, FinishErrorOrphan
  <2>2. QED BY <1>4, <2>1 DEF Faults
<1>5. CASE Operator
  <2>1. CASE ApiReconcile
    BY <2>1 DEF ApiReconcile, RecBegin
  <2>2. ASSUME NEW t \in Tasks,
               ApiSpawn(t) \/ ApiCancel(t) \/ DependencyAdded(t) \/
               DependencyMet(t)
        PROVE  Counted
    BY <2>2 DEF ApiSpawn, ApiCancel, DependencyAdded, DependencyMet
  <2>3. ASSUME NEW a \in Agents, ApiKill(a) PROVE Counted
    BY <2>3 DEF ApiKill
  <2>4. QED BY <1>5, <2>1, <2>2, <2>3 DEF Operator
<1>6. ASSUME NEW k \in Kinds, NEW a \in Agents, FinishThread(k, a)
      PROVE  Counted
  <2>1. CASE FinishMark(k, a) \/ FinishComplete(k, a) \/ FinishFail(k, a) \/
           FinishPost(k, a) \/ FinishRelease(k, a)
    BY <2>1 DEF FinishMark, FinishComplete, FinishFail, FinishPost,
       FinishRelease
  <2>2. QED BY <1>6, <2>1 DEF FinishThread
<1>7. ASSUME NEW r \in Reconcilers, Reconcile(r) PROVE Counted
  <2>1. CASE RecKeys(r) \/ RecRows(r) \/ RecInProgress(r) \/ RecWatch(r) \/
           RecDone(r)
    BY <2>1 DEF RecKeys, RecRows, RecInProgress, RecWatch, RecDone
  <2>2. ASSUME NEW a \in Agents,
               RecHandleOk(r, a) \/ RecHandleNoRow(r, a) \/ RecHandleStale(r,
               a) \/ RecRowStale(r, a) \/ RecRowAlive(r, a) \/ RecRowDead(r,
               a)
        PROVE  Counted
    BY <2>2 DEF RecHandleOk, RecHandleNoRow, RecHandleStale, RecRowStale,
       RecRowAlive, RecRowDead
  <2>3. ASSUME NEW p \in rec[r].prog, RecReset(r, p) PROVE Counted
    BY <2>3 DEF RecReset
  <2>4. QED BY <1>7, <2>1, <2>2, <2>3 DEF Reconcile
<1>8. CASE Restart
  BY <1>8
<1>9. ASSUME NEW a \in Agents, ProcessExit(a) PROVE Counted
  BY <1>9 DEF ProcessExit, Finished, agentVars, claimVars, taskVars, busVars
<1>10. CASE UNCHANGED vars
  BY <1>10 DEF vars
<1>11. QED BY <1>1, <1>2, <1>3, <1>4, <1>5, <1>6, <1>7, <1>8, <1>9, <1>10 DEF
   Next

LEMMA TendedStep ==
  ASSUME IInv, Tended, [Next]_vars, restarts' = 0 PROVE Tended'
<1> USE DEF IInv
<1>1. CASE Spawner
  <2>1. CASE SpawnRow \/ SpawnOwn \/ SpawnError
    BY <2>1, TendedUntouched DEF SpawnRow, SpawnOwn, SpawnError, tendedVars,
       agentVars, claimVars, busVars
  <2>2. ASSUME NEW t \in Tasks, ApiSpawnRefused(t) PROVE Tended'
    BY <2>2, TendedUntouched DEF ApiSpawnRefused, tendedVars, agentVars,
       claimVars, busVars
  <2>3. ASSUME NEW t \in Tasks, NEW a \in Agents,
               ApiFill(t, a) \/ ApiSpawnRun(t, a)
        PROVE  Tended'
    BY <2>3, TendedUntouched DEF ApiFill, ApiSpawnRun, SpawnBegin,
       tendedVars, agentVars, claimVars, busVars
  <2>4. ASSUME SpawnProcess PROVE Tended'
    BY <2>4 DEF SpawnProcess, Handover, SpawnStages, SpawnTypes, TypeOK,
       AgentTypes, ClaimTypes, MonTypes, Tended, RunningIsSupervised,
       Running, LookedAt, busVars
  <2>5. ASSUME NEW t \in Tasks, NEW a \in Agents, FillSlots(t, a)
        PROVE  Tended'
    BY <2>5 DEF FillSlots, SpawnBegin, TypeOK, AgentTypes, ClaimTypes,
       MonTypes, Tended, RunningIsSupervised, Running, LookedAt, agentVars,
       claimVars, taskVars, busVars
  <2>6. QED BY <1>1, <2>1, <2>2, <2>3, <2>4, <2>5 DEF Spawner
<1>2. CASE Monitor
  <2>1. ASSUME MonBegin PROVE Tended'
    BY <2>1 DEF MonBegin, TypeOK, AgentTypes, ClaimTypes, MonTypes, Tended,
       RunningIsSupervised, Running, LookedAt, agentVars, claimVars,
       taskVars, busVars
  <2>2. ASSUME MonDep PROVE Tended'
    BY <2>2 DEF MonDep, ActiveRows, Handover, UnbornIsBare, TypeOK,
       AgentTypes, ClaimTypes, MonTypes, Tended, RunningIsSupervised,
       Running, LookedAt, agentVars, claimVars, busVars
  <2>3. ASSUME DepPop PROVE Tended'
    BY <2>3 DEF DepPop, ClaimPop, TypeOK, AgentTypes, ClaimTypes, MonTypes,
       Tended, RunningIsSupervised, Running, LookedAt, agentVars, claimVars,
       taskVars, busVars
  <2>4. ASSUME DepWrite PROVE Tended'
    BY <2>4 DEF DepWrite, TypeOK, AgentTypes, ClaimTypes, MonTypes, Tended,
       RunningIsSupervised, Running, LookedAt, agentVars, claimVars,
       taskVars, busVars
  <2>5. ASSUME MonPoll PROVE Tended'
    BY <2>5 DEF MonPoll, Handover, UnbornIsBare, TypeOK, AgentTypes,
       ClaimTypes, MonTypes, Tended, RunningIsSupervised, Running, LookedAt,
       agentVars, claimVars, busVars
  <2>6. ASSUME SweepPop PROVE Tended'
    BY <2>6 DEF SweepPop, ClaimPop, StartFinish, TypeOK, AgentTypes,
       ClaimTypes, MonTypes, Tended, RunningIsSupervised, Running, LookedAt,
       agentVars, claimVars, taskVars, busVars
  <2>7. ASSUME MonReconcile PROVE Tended'
    BY <2>7 DEF MonReconcile, RecBegin, TypeOK, AgentTypes, ClaimTypes,
       MonTypes, Tended, RunningIsSupervised, Running, LookedAt, agentVars,
       claimVars, taskVars, busVars
  <2>8. ASSUME MonRest PROVE Tended'
    BY <2>8 DEF MonRest, TypeOK, AgentTypes, ClaimTypes, MonTypes, Tended,
       RunningIsSupervised, Running, LookedAt, agentVars, claimVars,
       taskVars, busVars
  <2>9. ASSUME NEW a \in Agents, DepMet(a) PROVE Tended'
    BY <2>9 DEF DepMet, TypeOK, AgentTypes, ClaimTypes, MonTypes, Tended,
       RunningIsSupervised, Running, LookedAt, agentVars, claimVars,
       taskVars, busVars
  <2>10. ASSUME NEW a \in Agents, DepKill(a) PROVE Tended'
    <3>1. proc' = Finished(a) /\ UNCHANGED <<handles, disp>>
      BY <2>10 DEF DepKill, claimVars, busVars
    <3>2. /\ proc'[a] = "exited"
          /\ \A b \in Agents : /\ proc'[b] = "running" => proc[b] = "running"
                               /\ proc[b] = "exited" => proc'[b] = "exited"
                               /\ proc[b] # "unborn" => proc'[b] # "unborn"
      BY <2>10, <3>1 DEF Finished, DepKill, TypeOK, AgentTypes, MonTypes, Tended, LookedAt
    <3>9. mon.pc \in LookedAt /\ a \in mon.todo BY <2>10 DEF DepKill, LookedAt
    <3>3. mon'.todo \subseteq mon.todo
      BY <2>10 DEF DepKill, TypeOK, MonTypes
    <3>4. mon'.pc \in {"depPop", "sweepPop"} => mon'.cur = a
      BY <2>10 DEF DepKill, TypeOK, MonTypes
    <3>5. mon.todo \subseteq Agents /\ handles \subseteq Agents /\ disp \in Agents \cup {NoAgent}
      BY DEF TypeOK, MonTypes, ClaimTypes
    <3>6. \A b \in mon'.todo : proc'[b] # "unborn"
      BY <3>2, <3>3, <3>5, <3>9 DEF Tended
    <3>7. Running' \subseteq handles' BY <3>1, <3>2 DEF Tended, RunningIsSupervised, Running
    <3>8. disp' # NoAgent => proc'[disp'] = "exited" BY <3>1, <3>2, <3>5 DEF Tended
    <3>10. QED BY <3>2, <3>4, <3>6, <3>7, <3>8 DEF Tended, RunningIsSupervised
  <2>11. ASSUME NEW a \in Agents, SweepClaim(a) PROVE Tended'
    <3>1. proc' = Finished(a) /\ UNCHANGED <<handles, disp>>
      BY <2>11 DEF SweepClaim, claimVars, busVars
    <3>2. /\ proc'[a] = "exited"
          /\ \A b \in Agents : /\ proc'[b] = "running" => proc[b] = "running"
                               /\ proc[b] = "exited" => proc'[b] = "exited"
                               /\ proc[b] # "unborn" => proc'[b] # "unborn"
      BY <2>11, <3>1 DEF Finished, SweepClaim, TypeOK, AgentTypes, MonTypes, Tended, LookedAt
    <3>9. mon.pc \in LookedAt /\ a \in mon.todo BY <2>11 DEF SweepClaim, LookedAt
    <3>3. mon'.todo \subseteq mon.todo
      BY <2>11 DEF SweepClaim, TypeOK, MonTypes
    <3>4. mon'.pc \in {"depPop", "sweepPop"} => mon'.cur = a
      BY <2>11 DEF SweepClaim, TypeOK, MonTypes
    <3>5. mon.todo \subseteq Agents /\ handles \subseteq Agents /\ disp \in Agents \cup {NoAgent}
      BY DEF TypeOK, MonTypes, ClaimTypes
    <3>6. \A b \in mon'.todo : proc'[b] # "unborn"
      BY <3>2, <3>3, <3>5, <3>9 DEF Tended
    <3>7. Running' \subseteq handles' BY <3>1, <3>2 DEF Tended, RunningIsSupervised, Running
    <3>8. disp' # NoAgent => proc'[disp'] = "exited" BY <3>1, <3>2, <3>5 DEF Tended
    <3>10. QED BY <3>2, <3>4, <3>6, <3>7, <3>8 DEF Tended, RunningIsSupervised
  <2>12. QED BY <1>2, <2>1, <2>2, <2>3, <2>4, <2>5, <2>6, <2>7, <2>8, <2>9,
     <2>10, <2>11 DEF Monitor
<1>3. CASE Dispatcher
  <2>1. ASSUME BusPop PROVE Tended'
    BY <2>1 DEF BusPop, ClaimPop, StartFinish, TypeOK, AgentTypes,
       ClaimTypes, MonTypes, Tended, RunningIsSupervised, Running, LookedAt,
       agentVars, claimVars, taskVars, busVars
  <2>2. ASSUME NEW a \in Agents, BusClaim(a) PROVE Tended'
    BY <2>2 DEF BusClaim, ClaimAdd, TypeOK, AgentTypes, ClaimTypes, MonTypes,
       Tended, RunningIsSupervised, Running, LookedAt, agentVars, claimVars,
       taskVars, busVars
  <2>3. QED BY <1>3, <2>1, <2>2 DEF Dispatcher
<1>4. CASE Faults
  <2>1. ASSUME NEW a \in Agents, FinishErrorClaimed(a) \/ FinishErrorOrphan(a)
        PROVE  Tended'
    BY <2>1, TendedUntouched DEF FinishErrorClaimed, FinishErrorOrphan,
       tendedVars, agentVars, claimVars, busVars
  <2>2. QED BY <1>4, <2>1 DEF Faults
<1>5. CASE Operator
  <2>1. CASE ApiReconcile
    BY <2>1, TendedUntouched DEF ApiReconcile, RecBegin, tendedVars,
       agentVars, claimVars, busVars
  <2>2. ASSUME NEW t \in Tasks,
               ApiSpawn(t) \/ ApiCancel(t) \/ DependencyAdded(t) \/
               DependencyMet(t)
        PROVE  Tended'
    BY <2>2, TendedUntouched DEF ApiSpawn, ApiCancel, DependencyAdded,
       DependencyMet, tendedVars, agentVars, claimVars, busVars
  <2>3. ASSUME NEW a \in Agents, ApiKill(a) PROVE Tended'
    BY <2>3 DEF ApiKill, Finished, MarkRow, ResetTask, TypeOK, AgentTypes,
       ClaimTypes, MonTypes, Tended, RunningIsSupervised, Running, LookedAt,
       agentVars, claimVars, taskVars, busVars
  <2>4. QED BY <1>5, <2>1, <2>2, <2>3 DEF Operator
<1>6. ASSUME NEW k \in Kinds, NEW a \in Agents, FinishThread(k, a)
      PROVE  Tended'
  <2>1. CASE FinishMark(k, a) \/ FinishComplete(k, a) \/ FinishFail(k, a) \/
           FinishPost(k, a) \/ FinishRelease(k, a)
    BY <2>1, TendedUntouched DEF FinishMark, FinishComplete, FinishFail,
       FinishPost, FinishRelease, tendedVars, agentVars, claimVars, busVars
  <2>2. QED BY <1>6, <2>1 DEF FinishThread
<1>7. ASSUME NEW r \in Reconcilers, Reconcile(r) PROVE Tended'
  <2>1. CASE RecKeys(r) \/ RecRows(r) \/ RecInProgress(r) \/ RecWatch(r)
    BY <2>1, TendedUntouched DEF RecKeys, RecRows, RecInProgress, RecWatch,
       tendedVars, agentVars, claimVars, busVars
  <2>2. ASSUME NEW a \in Agents,
               RecHandleOk(r, a) \/ RecRowStale(r, a) \/ RecRowAlive(r, a) \/
               RecRowDead(r, a)
        PROVE  Tended'
    BY <2>2, TendedUntouched DEF RecHandleOk, RecRowStale, RecRowAlive,
       RecRowDead, tendedVars, agentVars, claimVars, busVars
  <2>3. ASSUME NEW p \in rec[r].prog, RecReset(r, p) PROVE Tended'
    BY <2>3, TendedUntouched DEF RecReset, tendedVars, agentVars, claimVars,
       busVars
  <2>4. ASSUME RecDone(r) PROVE Tended'
    BY <2>4 DEF RecDone, TypeOK, AgentTypes, ClaimTypes, MonTypes, Tended,
       RunningIsSupervised, Running, LookedAt, agentVars, claimVars,
       taskVars, busVars
  <2>5. ASSUME NEW a \in Agents, RecHandleNoRow(r, a) PROVE Tended'
    BY <2>5 DEF RecHandleNoRow, Finished, RecVisited, TypeOK, AgentTypes,
       ClaimTypes, MonTypes, Tended, RunningIsSupervised, Running, LookedAt,
       agentVars, claimVars, taskVars, busVars
  <2>6. ASSUME NEW a \in Agents, RecHandleStale(r, a) PROVE Tended'
    BY <2>6 DEF RecHandleStale, Finished, RecVisited, FailAgentAndRepairTask,
       MarkRow, ResetIfInProgress, ResetTask, TypeOK, AgentTypes, ClaimTypes,
       MonTypes, Tended, RunningIsSupervised, Running, LookedAt, agentVars,
       claimVars, taskVars, busVars
  <2>7. QED BY <1>7, <2>1, <2>2, <2>3, <2>4, <2>5, <2>6 DEF Reconcile
<1>8. CASE Restart
  BY <1>8 DEF Restart, TypeOK
<1>9. ASSUME NEW a \in Agents, ProcessExit(a) PROVE Tended'
  BY <1>9 DEF ProcessExit, Finished, TypeOK, AgentTypes, ClaimTypes,
     MonTypes, Tended, RunningIsSupervised, Running, LookedAt, agentVars,
     claimVars, taskVars, busVars
<1>10. CASE UNCHANGED vars
  BY <1>10, TendedUntouched DEF vars, tendedVars
<1>11. QED BY <1>1, <1>2, <1>3, <1>4, <1>5, <1>6, <1>7, <1>8, <1>9, <1>10 DEF
   Next

(* Until the first restart every agent process has a handle, whatever the  *)
(* sweep, the dispatcher, the dependency check, reconcilers, operators and *)
(* failing calls do (RunningIsSupervised).                                 *)
THEOREM AgentsAreSupervised == Spec => [](restarts = 0 => RunningIsSupervised)
<1> DEFINE I == restarts = 0 => Tended
<1>1. Init => I
  BY DEF Init, MonIdle, Tended, RunningIsSupervised, Running, LookedAt
<1>2. IInv /\ I /\ [Next]_vars => I'
  <2> SUFFICES ASSUME IInv, I, [Next]_vars, restarts' = 0 PROVE Tended'
    OBVIOUS
  <2>1. restarts = 0
    BY RestartsCounted DEF IInv, TypeOK, Restart
  <2>2. QED BY <2>1, TendedStep
<1>3. I => (restarts = 0 => RunningIsSupervised) BY DEF Tended
<1>4. QED BY <1>1, <1>2, <1>3, Inductive, PTL DEF Spec

-------------------------------------------------------------------------------
(* The cap.  A spawn that passed the check but has not started its process *)
(* counts already; the sets get_active_count adds up are finite, because   *)
(* agents are born one at a time and only born ones are claimed.           *)
Born == {a \in Agents : proc[a] # "unborn"}

Started == Cardinality(Running) + (IF spawn.pc = "checked" THEN 1 ELSE 0)

Capped ==
  /\ IsFiniteSet(Born) /\ finishing \subseteq Born
  /\ admitted = {}
  /\ Started <= MaxActive

(* A step that starts no process and passes no spawn check.                *)
Calm ==
  /\ \A a \in Agents : /\ proc'[a] = "running" => proc[a] = "running"
                       /\ proc'[a] = "unborn" <=> proc[a] = "unborn"
  /\ spawn'.pc = "checked" => spawn.pc = "checked"
  /\ finishing' \subseteq finishing \cup Born
  /\ admitted' = admitted

calmVars == <<proc, spawn, finishing, admitted>>

LEMMA CalmUntouched == ASSUME UNCHANGED calmVars PROVE Calm
BY DEF Calm, calmVars

(* Without operators only the monitor spawns.                              *)
LEMMA CalmOrSpawn ==
  ASSUME IInv, Tended, Capped, "api" \notin Features, [Next]_vars, restarts' = 0
  PROVE  Calm \/ SpawnProcess \/ \E t \in Tasks, a \in Agents : FillSlots(t, a)
<1> DEFINE Goal == Calm \/ SpawnProcess
                   \/ \E t \in Tasks, a \in Agents : FillSlots(t, a)
<1> USE DEF IInv
<1>1. CASE Spawner
  <2>1. ASSUME SpawnProcess PROVE Goal
    BY <2>1
  <2>2. ASSUME SpawnRow PROVE Goal
    BY <2>2 DEF SpawnRow, Calm, TypeOK, SpawnTypes, agentVars, claimVars
  <2>3. ASSUME SpawnOwn PROVE Goal
    BY <2>3 DEF SpawnOwn, Calm, TypeOK, SpawnTypes, agentVars, claimVars
  <2>4. ASSUME SpawnError PROVE Goal
    BY <2>4 DEF SpawnError, Calm, TypeOK, SpawnTypes, agentVars, claimVars
  <2>5. ASSUME NEW t \in Tasks, ApiSpawnRefused(t) PROVE Goal
    BY <2>5 DEF ApiSpawnRefused, Capped
  <2>6. ASSUME NEW t \in Tasks, NEW a \in Agents, FillSlots(t, a) PROVE Goal
    BY <2>6
  <2>7. ASSUME NEW t \in Tasks, NEW a \in Agents, ApiFill(t, a) PROVE Goal
    BY <2>7 DEF ApiFill
  <2>8. ASSUME NEW t \in Tasks, NEW a \in Agents, ApiSpawnRun(t, a) PROVE Goal
    BY <2>8 DEF ApiSpawnRun, Capped
  <2>9. QED BY <1>1, <2>1, <2>2, <2>3, <2>4, <2>5, <2>6, <2>7, <2>8 DEF
     Spawner
<1>2. CASE Monitor
  <2>1. CASE MonBegin \/ MonDep \/ DepPop \/ MonPoll \/ SweepPop \/
           MonReconcile \/ MonRest
    BY <2>1, CalmUntouched DEF MonBegin, MonDep, DepPop, MonPoll, SweepPop,
       MonReconcile, MonRest, RecBegin, calmVars, agentVars, claimVars,
       busVars
  <2>2. ASSUME NEW a \in Agents, DepMet(a) PROVE Goal
    BY <2>2, CalmUntouched DEF DepMet, calmVars, agentVars, claimVars,
       busVars
  <2>3. ASSUME DepWrite PROVE Goal
    BY <2>3 DEF DepWrite, TypeOK, AgentTypes, ClaimTypes, MonTypes, Calm,
       Born, agentVars, claimVars, taskVars, busVars
  <2>4. ASSUME NEW a \in Agents, DepKill(a) PROVE Goal
    BY <2>4 DEF DepKill, ClaimAdd, Finished, Tended, LookedAt, TypeOK,
       AgentTypes, ClaimTypes, MonTypes, Calm, Born
  <2>5. ASSUME NEW a \in Agents, SweepClaim(a) PROVE Goal
    BY <2>5 DEF SweepClaim, ClaimAdd, Finished, Tended, LookedAt, TypeOK,
       AgentTypes, ClaimTypes, MonTypes, Calm, Born
  <2>6. QED BY <1>2, <2>1, <2>2, <2>3, <2>4, <2>5 DEF Monitor
<1>3. CASE Dispatcher
  <2>1. CASE BusPop
    BY <2>1, CalmUntouched DEF BusPop, calmVars, agentVars, claimVars,
       busVars
  <2>2. ASSUME NEW a \in Agents, BusClaim(a) PROVE Goal
    BY <2>2 DEF BusClaim, ClaimAdd, TypeOK, AgentTypes, ClaimTypes, MonTypes,
       Calm, Born, agentVars, claimVars, taskVars, busVars
  <2>3. QED BY <1>3, <2>1, <2>2 DEF Dispatcher
<1>4. CASE Faults
  <2>1. ASSUME NEW a \in Agents, FinishErrorClaimed(a) \/ FinishErrorOrphan(a)
        PROVE  Goal
    BY <2>1, CalmUntouched DEF FinishErrorClaimed, FinishErrorOrphan,
       calmVars, agentVars, claimVars, busVars
  <2>2. QED BY <1>4, <2>1 DEF Faults
<1>5. CASE Operator
  <2>1. CASE ApiReconcile
    BY <2>1, CalmUntouched DEF ApiReconcile, RecBegin, calmVars, agentVars,
       claimVars, busVars
  <2>2. ASSUME NEW t \in Tasks,
               ApiCancel(t) \/ DependencyAdded(t) \/ DependencyMet(t)
        PROVE  Goal
    BY <2>2, CalmUntouched DEF ApiCancel, DependencyAdded, DependencyMet,
       calmVars, agentVars, claimVars, busVars
  <2>3. ASSUME NEW t \in Tasks, ApiSpawn(t) PROVE Goal
    BY <2>3 DEF ApiSpawn
  <2>4. ASSUME NEW a \in Agents, ApiKill(a) PROVE Goal
    BY <2>4 DEF ApiKill
  <2>5. QED BY <1>5, <2>1, <2>2, <2>3, <2>4 DEF Operator
<1>6. ASSUME NEW k \in Kinds, NEW a \in Agents, FinishThread(k, a)
      PROVE  Goal
  <2>1. CASE FinishMark(k, a) \/ FinishComplete(k, a) \/ FinishFail(k, a) \/
           FinishPost(k, a)
    BY <2>1, CalmUntouched DEF FinishMark, FinishComplete, FinishFail,
       FinishPost, calmVars, agentVars, claimVars, busVars
  <2>2. ASSUME FinishRelease(k, a) PROVE Goal
    BY <2>2 DEF FinishRelease, FinGoto, TypeOK, AgentTypes, ClaimTypes,
       MonTypes, Calm, Born, agentVars, claimVars, taskVars, busVars
  <2>3. QED BY <1>6, <2>1, <2>2 DEF FinishThread
<1>7. ASSUME NEW r \in Reconcilers, Reconcile(r) PROVE Goal
  <2>1. CASE RecKeys(r) \/ RecRows(r) \/ RecInProgress(r) \/ RecWatch(r) \/
           RecDone(r)
    BY <2>1, CalmUntouched DEF RecKeys, RecRows, RecInProgress, RecWatch,
       RecDone, calmVars, agentVars, claimVars, busVars
  <2>2. ASSUME NEW a \in Agents,
               RecHandleOk(r, a) \/ RecRowStale(r, a) \/ RecRowAlive(r, a) \/
               RecRowDead(r, a)
        PROVE  Goal
    BY <2>2, CalmUntouched DEF RecHandleOk, RecRowStale, RecRowAlive,
       RecRowDead, calmVars, agentVars, claimVars, busVars
  <2>3. ASSUME NEW p \in rec[r].prog, RecReset(r, p) PROVE Goal
    BY <2>3, CalmUntouched DEF RecReset, calmVars, agentVars, claimVars,
       busVars
  <2>4. ASSUME NEW a \in Agents, RecHandleNoRow(r, a) PROVE Goal
    BY <2>4 DEF RecHandleNoRow, Finished, RecVisited, TypeOK, AgentTypes,
       ClaimTypes, MonTypes, Calm, Born, agentVars, claimVars, taskVars,
       busVars
  <2>5. ASSUME NEW a \in Agents, RecHandleStale(r, a) PROVE Goal
    BY <2>5 DEF RecHandleStale, Finished, RecVisited, FailAgentAndRepairTask,
       MarkRow, ResetIfInProgress, ResetTask, TypeOK, AgentTypes, ClaimTypes,
       MonTypes, Calm, Born, agentVars, claimVars, taskVars, busVars
  <2>6. QED BY <1>7, <2>1, <2>2, <2>3, <2>4, <2>5 DEF Reconcile
<1>8. CASE Restart
  BY <1>8 DEF Restart, TypeOK
<1>9. ASSUME NEW a \in Agents, ProcessExit(a) PROVE Goal
  BY <1>9 DEF ProcessExit, Finished, TypeOK, AgentTypes, ClaimTypes,
     MonTypes, Calm, Born, agentVars, claimVars, taskVars, busVars
<1>10. CASE UNCHANGED vars
  BY <1>10, CalmUntouched DEF vars, calmVars
<1>11. QED BY <1>1, <1>2, <1>3, <1>4, <1>5, <1>6, <1>7, <1>8, <1>9, <1>10 DEF
   Next

(* get_active_count counts every agent process.                            *)
LEMMA CountedRunning ==
  ASSUME IInv, Tended, Capped PROVE Cardinality(Running) <= get_active_count
<1> DEFINE alive == handles \cap Running
           others == ActiveRows \ (alive \cup finishing)
<1>1. alive = Running BY DEF Tended, RunningIsSupervised
<1>2. /\ alive \subseteq Born /\ others \subseteq Born /\ finishing \subseteq Born
  BY DEF Born, Running, ActiveRows, Capped, IInv, Handover, UnbornIsBare
<1>3. /\ Cardinality(alive) \in Nat /\ Cardinality(others) \in Nat
      /\ Cardinality(finishing) \in Nat
  BY <1>2, FS_Subset, FS_CardinalityType DEF Capped
<1>4. get_active_count
        = Cardinality(alive) + Cardinality(finishing) + Cardinality(others)
  BY DEF get_active_count
<1> HIDE DEF alive, others
<1>5. QED BY <1>1, <1>3, <1>4

LEMMA CappedStep ==
  ASSUME IInv, Tended, Capped, "api" \notin Features, [Next]_vars, restarts' = 0
  PROVE  Capped'
<1> DEFINE Pending == IF spawn.pc = "checked" THEN 1 ELSE 0
<1>0. Running \subseteq Born /\ IsFiniteSet(Running) /\ Cardinality(Running) \in Nat
  BY FS_Subset, FS_CardinalityType DEF Capped, Running, Born
<1>1. CASE Calm
  <2>1. Born' = Born /\ Running' \subseteq Running
    BY <1>1 DEF Calm, Born, Running
  <2>2. Cardinality(Running') <= Cardinality(Running) /\ Cardinality(Running') \in Nat
    BY <2>1, <1>0, FS_Subset, FS_CardinalityType
  <2>3. Pending' <= Pending /\ Pending \in Nat /\ Pending' \in Nat BY <1>1 DEF Calm
  <2>4. Started' <= MaxActive
    BY <1>0, <2>2, <2>3 DEF Capped, Started
  <2>5. QED BY <1>1, <2>1, <2>4 DEF Capped, Calm
<1>2. CASE SpawnProcess
  <2>1. PICK a \in Agents : a = spawn.agent
    BY <1>2 DEF SpawnProcess, IInv, TypeOK, SpawnTypes
  <2>2. /\ proc' = [proc EXCEPT ![a] = "running"]
        /\ spawn.pc = "checked" /\ spawn'.pc = "handled"
        /\ UNCHANGED <<finishing, admitted>>
    BY <1>2, <2>1 DEF SpawnProcess, IInv, TypeOK, SpawnTypes
  <2>3. Born' = Born \cup {a} /\ Running' = Running \cup {a}
    BY <2>2 DEF Born, Running, IInv, TypeOK, AgentTypes
  <2>4. IsFiniteSet(Born') BY <2>3, FS_AddElement DEF Capped
  <2>5. Cardinality(Running') <= Cardinality(Running) + 1 /\ Cardinality(Running') \in Nat
    <3>1. /\ IsFiniteSet(Running \cup {a})
          /\ Cardinality(Running \cup {a})
               = IF a \in Running THEN Cardinality(Running) ELSE Cardinality(Running) + 1
      BY <1>0, FS_AddElement
    <3>2. QED BY <3>1, <2>3, <1>0
  <2>6. Started' <= MaxActive
    BY <1>0, <2>2, <2>5 DEF Capped, Started
  <2>7. QED BY <2>2, <2>3, <2>4, <2>6 DEF Capped
<1>3. ASSUME NEW t \in Tasks, NEW a \in Agents, FillSlots(t, a) PROVE Capped'
  <2>1. UNCHANGED <<proc, finishing, admitted>> /\ spawn'.pc = "checked"
    BY <1>3 DEF FillSlots, SpawnBegin, claimVars
  <2>2. get_active_count < MaxActive BY <1>3 DEF FillSlots, CanFill
  <2>3. Born' = Born /\ Running' = Running BY <2>1 DEF Born, Running
  <2>4. get_active_count \in Nat
    <3> DEFINE alive == handles \cap Running
               others == ActiveRows \ (alive \cup finishing)
    <3>1. /\ alive \subseteq Born /\ others \subseteq Born /\ finishing \subseteq Born
      BY DEF Born, Running, ActiveRows, Capped, IInv, Handover, UnbornIsBare
    <3>2. /\ Cardinality(alive) \in Nat /\ Cardinality(others) \in Nat
          /\ Cardinality(finishing) \in Nat
      BY <3>1, FS_Subset, FS_CardinalityType DEF Capped
    <3>3. QED BY <3>2 DEF get_active_count
  <2>5. Started' <= MaxActive
    BY <1>0, <2>1, <2>2, <2>3, <2>4, CountedRunning DEF Started
  <2>6. QED BY <2>1, <2>3, <2>5 DEF Capped
<1>4. QED BY <1>1, <1>2, <1>3, CalmOrSpawn

(* Without operators' spawn requests (which may force one more) and until  *)
(* the first restart (which forgets handles), the agent processes never    *)
(* outnumber MAX_ACTIVE_AGENTS, although agents exit, are claimed and      *)
(* finished while slots are counted (RunningWithinCap).                    *)
THEOREM RunningStaysWithinCap ==
  ASSUME "api" \notin Features
  PROVE  Spec => [](restarts = 0 => RunningWithinCap)
<1> DEFINE I == restarts = 0 => Tended /\ Capped
<1>1. Init => I
  <2> SUFFICES ASSUME Init PROVE Tended /\ Capped OBVIOUS
  <2>1. Tended
    BY DEF Init, MonIdle, Tended, RunningIsSupervised, Running, LookedAt
  <2>2. Born = {} /\ Running = {} BY DEF Init, Born, Running
  <2>3. QED BY <2>1, <2>2, FS_EmptySet DEF Init, Capped, Started
<1>2. IInv /\ I /\ [Next]_vars => I'
  <2> SUFFICES ASSUME IInv, I, [Next]_vars, restarts' = 0
               PROVE  Tended' /\ Capped'
    OBVIOUS
  <2>1. restarts = 0 BY RestartsCounted DEF IInv, TypeOK, Restart
  <2>2. QED BY <2>1, TendedStep, CappedStep
<1>3. IInv /\ I => (restarts = 0 => RunningWithinCap)
  <2> SUFFICES ASSUME Capped PROVE RunningWithinCap OBVIOUS
  <2>1. Cardinality(Running) \in Nat
    BY FS_Subset, FS_CardinalityType DEF Capped, Running, Born
  <2>2. QED BY <2>1 DEF Capped, Started, RunningWithinCap
<1>4. QED BY <1>1, <1>2, <1>3, Inductive, PTL DEF Spec

-------------------------------------------------------------------------------
(* A claim is on its way to being released, without the event bus and      *)
(* without reconcile requests: the sweep then has the handles it collected *)
(* to itself, so the claim it takes comes with a finish thread.            *)
SweepHasHandles ==
  /\ mon.pc \in {"sweep", "sweepPop"} => mon.todo \subseteq handles
  /\ mon.pc = "sweepPop" => mon.cur \in mon.todo

OneReconciler == rec["monitor"].pc # "idle" => mon.pc = "reconcile"

Held == ClaimIsHeld /\ SweepHasHandles /\ OneReconciler /\ disp = NoAgent

heldVars == <<handles, finishing, fin, mon, rec, disp>>

LEMMA HeldUntouched == ASSUME Held, UNCHANGED heldVars PROVE Held'
BY DEF Held, ClaimIsHeld, SweepHasHandles, OneReconciler, heldVars

LEMMA HeldStep ==
  ASSUME IInv, Held, "bus" \notin Features, Reconcilers = {"monitor"}, [Next]_vars
  PROVE  Held'
<1> USE DEF IInv
<1>1. CASE Spawner
  <2>1. CASE SpawnRow \/ SpawnOwn \/ SpawnError
    BY <2>1, HeldUntouched DEF SpawnRow, SpawnOwn, SpawnError, heldVars,
       agentVars, claimVars, busVars
  <2>2. ASSUME NEW t \in Tasks, ApiSpawnRefused(t) PROVE Held'
    BY <2>2, HeldUntouched DEF ApiSpawnRefused, heldVars, agentVars,
       claimVars, busVars
  <2>3. ASSUME NEW t \in Tasks, NEW a \in Agents,
               ApiFill(t, a) \/ ApiSpawnRun(t, a)
        PROVE  Held'
    BY <2>3, HeldUntouched DEF ApiFill, ApiSpawnRun, SpawnBegin, heldVars,
       agentVars, claimVars, busVars
  <2>4. ASSUME SpawnProcess PROVE Held'
    BY <2>4 DEF SpawnProcess, TypeOK, ClaimTypes, MonTypes, RecTypes,
       RecStates, Kinds, Held, ClaimIsHeld, SweepHasHandles, OneReconciler,
       agentVars, claimVars, taskVars, busVars
  <2>5. ASSUME NEW t \in Tasks, NEW a \in Agents, FillSlots(t, a) PROVE Held'
    BY <2>5 DEF FillSlots, SpawnBegin, TypeOK, ClaimTypes, MonTypes,
       RecTypes, RecStates, Kinds, Held, ClaimIsHeld, SweepHasHandles,
       OneReconciler, agentVars, claimVars, taskVars, busVars
  <2>6. QED BY <1>1, <2>1, <2>2, <2>3, <2>4, <2>5 DEF Spawner
<1>2. CASE Monitor
  <2>1. ASSUME MonBegin PROVE Held'
    BY <2>1 DEF MonBegin, TypeOK, ClaimTypes, MonTypes, RecTypes, RecStates,
       Kinds, Held, ClaimIsHeld, SweepHasHandles, OneReconciler, agentVars,
       claimVars, taskVars, busVars
  <2>2. ASSUME MonDep PROVE Held'
    BY <2>2 DEF MonDep, ActiveRows, TypeOK, ClaimTypes, MonTypes, RecTypes,
       RecStates, Kinds, Held, ClaimIsHeld, SweepHasHandles, OneReconciler,
       agentVars, claimVars, taskVars, busVars
  <2>3. ASSUME DepPop PROVE Held'
    BY <2>3 DEF DepPop, ClaimPop, TypeOK, ClaimTypes, MonTypes, RecTypes,
       RecStates, Kinds, Held, ClaimIsHeld, SweepHasHandles, OneReconciler,
       agentVars, claimVars, taskVars, busVars
  <2>4. ASSUME DepWrite PROVE Held'
    BY <2>4 DEF DepWrite, TypeOK, ClaimTypes, MonTypes, RecTypes, RecStates,
       Kinds, Held, ClaimIsHeld, SweepHasHandles, OneReconciler, agentVars,
       claimVars, taskVars, busVars
  <2>5. ASSUME MonPoll PROVE Held'
    BY <2>5 DEF MonPoll, TypeOK, ClaimTypes, MonTypes, RecTypes, RecStates,
       Kinds, Held, ClaimIsHeld, SweepHasHandles, OneReconciler, agentVars,
       claimVars, taskVars, busVars
  <2>6. ASSUME SweepPop PROVE Held'
    BY <2>6 DEF SweepPop, ClaimPop, StartFinish, TypeOK, ClaimTypes,
       MonTypes, RecTypes, RecStates, Kinds, Held, ClaimIsHeld,
       SweepHasHandles, OneReconciler, agentVars, claimVars, taskVars,
       busVars
  <2>7. ASSUME MonReconcile PROVE Held'
    BY <2>7 DEF MonReconcile, RecBegin, TypeOK, ClaimTypes, MonTypes,
       RecTypes, RecStates, Kinds, Held, ClaimIsHeld, SweepHasHandles,
       OneReconciler, agentVars, claimVars, taskVars, busVars
  <2>8. ASSUME MonRest PROVE Held'
    BY <2>8 DEF MonRest, TypeOK, ClaimTypes, MonTypes, RecTypes, RecStates,
       Kinds, Held, ClaimIsHeld, SweepHasHandles, OneReconciler, agentVars,
       claimVars, taskVars, busVars
  <2>9. ASSUME NEW a \in Agents, DepMet(a) PROVE Held'
    BY <2>9 DEF DepMet, TypeOK, ClaimTypes, MonTypes, RecTypes, RecStates,
       Kinds, Held, ClaimIsHeld, SweepHasHandles, OneReconciler, agentVars,
       claimVars, taskVars, busVars
  <2>10. ASSUME NEW a \in Agents, DepKill(a) PROVE Held'
    BY <2>10 DEF DepKill, ClaimAdd, Finished, TypeOK, ClaimTypes, MonTypes,
       RecTypes, RecStates, Kinds, Held, ClaimIsHeld, SweepHasHandles,
       OneReconciler, agentVars, claimVars, taskVars, busVars
  <2>11. ASSUME NEW a \in Agents, SweepClaim(a) PROVE Held'
    <3>1. /\ mon.pc = "sweep" /\ a \in mon.todo
          /\ UNCHANGED <<handles, fin, rec, disp>>
      BY <2>11 DEF SweepClaim, busVars
    <3>2. \/ /\ finishing' = finishing \cup {a}
             /\ mon'.pc = "sweepPop" /\ mon'.cur = a /\ mon'.todo = mon.todo
          \/ /\ finishing' = finishing
             /\ mon'.pc = "sweep" /\ mon'.todo = mon.todo \ {a}
      BY <2>11, <3>1 DEF SweepClaim, ClaimAdd, TypeOK, MonTypes
    <3>3. ClaimIsHeld' BY <3>1, <3>2 DEF Held, ClaimIsHeld
    <3>4. QED
      BY <3>1, <3>2, <3>3 DEF Held, SweepHasHandles, OneReconciler
  <2>12. QED BY <1>2, <2>1, <2>2, <2>3, <2>4, <2>5, <2>6, <2>7, <2>8, <2>9,
     <2>10, <2>11 DEF Monitor
<1>3. CASE Dispatcher
  <2>1. ASSUME BusPop PROVE Held'
    BY <2>1 DEF BusPop, Held
  <2>2. ASSUME NEW a \in Agents, BusClaim(a) PROVE Held'
    BY <2>2 DEF BusClaim
  <2>3. QED BY <1>3, <2>1, <2>2 DEF Dispatcher
<1>4. CASE Faults
  <2>1. ASSUME NEW a \in Agents, FinishErrorClaimed(a) PROVE Held'
    BY <2>1 DEF FinishErrorClaimed, FinGoto, TypeOK, ClaimTypes, MonTypes,
       RecTypes, RecStates, Kinds, Held, ClaimIsHeld, SweepHasHandles,
       OneReconciler, agentVars, claimVars, taskVars, busVars
  <2>2. ASSUME NEW a \in Agents, FinishErrorOrphan(a) PROVE Held'
    BY <2>2 DEF FinishErrorOrphan, FinGoto, MarkRow, ResetIfInProgress,
       ResetTask, TypeOK, ClaimTypes, MonTypes, RecTypes, RecStates, Kinds,
       Held, ClaimIsHeld, SweepHasHandles, OneReconciler, agentVars,
       claimVars, taskVars, busVars
  <2>3. QED BY <1>4, <2>1, <2>2 DEF Faults
<1>5. CASE Operator
  <2>1. ASSUME NEW t \in Tasks,
               ApiSpawn(t) \/ ApiCancel(t) \/ DependencyAdded(t) \/
               DependencyMet(t)
        PROVE  Held'
    BY <2>1, HeldUntouched DEF ApiSpawn, ApiCancel, DependencyAdded,
       DependencyMet, heldVars, agentVars, claimVars, busVars
  <2>2. ASSUME NEW a \in Agents, ApiKill(a) PROVE Held'
    BY <2>2, HeldUntouched DEF ApiKill, heldVars, agentVars, claimVars,
       busVars
  <2>3. ASSUME ApiReconcile PROVE Held'
    BY <2>3 DEF ApiReconcile
  <2>4. QED BY <1>5, <2>1, <2>2, <2>3 DEF Operator
<1>6. ASSUME NEW k \in Kinds, NEW a \in Agents, FinishThread(k, a)
      PROVE  Held'
  <2>1. ASSUME FinishMark(k, a) PROVE Held'
    BY <2>1 DEF FinishMark, FinGoto, MarkRow, TypeOK, ClaimTypes, MonTypes,
       RecTypes, RecStates, Kinds, Held, ClaimIsHeld, SweepHasHandles,
       OneReconciler, agentVars, claimVars, taskVars, busVars
  <2>2. ASSUME FinishComplete(k, a) PROVE Held'
    BY <2>2 DEF FinishComplete, FinGoto, TypeOK, ClaimTypes, MonTypes,
       RecTypes, RecStates, Kinds, Held, ClaimIsHeld, SweepHasHandles,
       OneReconciler, agentVars, claimVars, taskVars, busVars
  <2>3. ASSUME FinishFail(k, a) PROVE Held'
    BY <2>3 DEF FinishFail, FinGoto, TypeOK, ClaimTypes, MonTypes, RecTypes,
       RecStates, Kinds, Held, ClaimIsHeld, SweepHasHandles, OneReconciler,
       agentVars, claimVars, taskVars, busVars
  <2>4. ASSUME FinishPost(k, a) PROVE Held'
    BY <2>4 DEF FinishPost, FinGoto, TypeOK, ClaimTypes, MonTypes, RecTypes,
       RecStates, Kinds, Held, ClaimIsHeld, SweepHasHandles, OneReconciler,
       agentVars, claimVars, taskVars, busVars
  <2>5. ASSUME FinishRelease(k, a) PROVE Held'
    BY <2>5 DEF FinishRelease, FinGoto, TypeOK, ClaimTypes, MonTypes,
       RecTypes, RecStates, Kinds, Held, ClaimIsHeld, SweepHasHandles,
       OneReconciler, agentVars, claimVars, taskVars, busVars
  <2>6. QED BY <1>6, <2>1, <2>2, <2>3, <2>4, <2>5 DEF FinishThread
<1>7. ASSUME NEW r \in Reconcilers, Reconcile(r) PROVE Held'
  <2>1. ASSUME RecKeys(r) PROVE Held'
    BY <2>1 DEF RecKeys, TypeOK, ClaimTypes, MonTypes, RecTypes, RecStates,
       Kinds, Held, ClaimIsHeld, SweepHasHandles, OneReconciler, agentVars,
       claimVars, taskVars, busVars
  <2>2. ASSUME RecRows(r) PROVE Held'
    BY <2>2 DEF RecRows, ActiveRows, TypeOK, ClaimTypes, MonTypes, RecTypes,
       RecStates, Kinds, Held, ClaimIsHeld, SweepHasHandles, OneReconciler,
       agentVars, claimVars, taskVars, busVars
  <2>3. ASSUME RecInProgress(r) PROVE Held'
    BY <2>3 DEF RecInProgress, TypeOK, ClaimTypes, MonTypes, RecTypes,
       RecStates, Kinds, Held, ClaimIsHeld, SweepHasHandles, OneReconciler,
       agentVars, claimVars, taskVars, busVars
  <2>4. ASSUME RecWatch(r) PROVE Held'
    BY <2>4 DEF RecWatch, TypeOK, ClaimTypes, MonTypes, RecTypes, RecStates,
       Kinds, Held, ClaimIsHeld, SweepHasHandles, OneReconciler, agentVars,
       claimVars, taskVars, busVars
  <2>5. ASSUME RecDone(r) PROVE Held'
    BY <2>5 DEF RecDone, TypeOK, ClaimTypes, MonTypes, RecTypes, RecStates,
       Kinds, Held, ClaimIsHeld, SweepHasHandles, OneReconciler, agentVars,
       claimVars, taskVars, busVars
  <2>6. ASSUME NEW a \in Agents, RecHandleOk(r, a) PROVE Held'
    BY <2>6 DEF RecHandleOk, RecVisited, TypeOK, ClaimTypes, MonTypes,
       RecTypes, RecStates, Kinds, Held, ClaimIsHeld, SweepHasHandles,
       OneReconciler, agentVars, claimVars, taskVars, busVars
  <2>7. ASSUME NEW a \in Agents, RecHandleNoRow(r, a) PROVE Held'
    BY <2>7 DEF RecHandleNoRow, Finished, RecVisited, TypeOK, ClaimTypes,
       MonTypes, RecTypes, RecStates, Kinds, Held, ClaimIsHeld,
       SweepHasHandles, OneReconciler, agentVars, claimVars, taskVars,
       busVars
  <2>8. ASSUME NEW a \in Agents, RecHandleStale(r, a) PROVE Held'
    BY <2>8 DEF RecHandleStale, Finished, RecVisited, FailAgentAndRepairTask,
       MarkRow, ResetIfInProgress, ResetTask, TypeOK, ClaimTypes, MonTypes,
       RecTypes, RecStates, Kinds, Held, ClaimIsHeld, SweepHasHandles,
       OneReconciler, agentVars, claimVars, taskVars, busVars
  <2>9. ASSUME NEW a \in Agents, RecRowStale(r, a) PROVE Held'
    BY <2>9 DEF RecRowStale, RecVisited, FailAgentAndRepairTask, MarkRow,
       ResetIfInProgress, ResetTask, TypeOK, ClaimTypes, MonTypes, RecTypes,
       RecStates, Kinds, Held, ClaimIsHeld, SweepHasHandles, OneReconciler,
       agentVars, claimVars, taskVars, busVars
  <2>10. ASSUME NEW a \in Agents, RecRowAlive(r, a) PROVE Held'
    BY <2>10 DEF RecRowAlive, RecVisited, TypeOK, ClaimTypes, MonTypes,
       RecTypes, RecStates, Kinds, Held, ClaimIsHeld, SweepHasHandles,
       OneReconciler, agentVars, claimVars, taskVars, busVars
  <2>11. ASSUME NEW a \in Agents, RecRowDead(r, a) PROVE Held'
    BY <2>11 DEF RecRowDead, RecVisited, TypeOK, ClaimTypes, MonTypes,
       RecTypes, RecStates, Kinds, Held, ClaimIsHeld, SweepHasHandles,
       OneReconciler, agentVars, claimVars, taskVars, busVars
  <2>12. ASSUME NEW p \in rec[r].prog, RecReset(r, p) PROVE Held'
    BY <2>12 DEF RecReset, ResetTask, TypeOK, ClaimTypes, MonTypes, RecTypes,
       RecStates, Kinds, Held, ClaimIsHeld, SweepHasHandles, OneReconciler,
       agentVars, claimVars, taskVars, busVars
  <2>13. QED BY <1>7, <2>1, <2>2, <2>3, <2>4, <2>5, <2>6, <2>7, <2>8, <2>9,
     <2>10, <2>11, <2>12 DEF Reconcile
<1>8. CASE Restart
  BY <1>8 DEF Restart, MonIdle, TypeOK, ClaimTypes, MonTypes, RecTypes,
     RecStates, Kinds, Held, ClaimIsHeld, SweepHasHandles, OneReconciler
<1>9. ASSUME NEW a \in Agents, ProcessExit(a) PROVE Held'
  BY <1>9, HeldUntouched DEF ProcessExit, heldVars, claimVars, busVars
<1>10. CASE UNCHANGED vars
  BY <1>10, HeldUntouched DEF vars, heldVars
<1>11. QED BY <1>1, <1>2, <1>3, <1>4, <1>5, <1>6, <1>7, <1>8, <1>9, <1>10 DEF
   Next

(* Without the event bus and reconcile requests every claimed teardown is  *)
(* on its way to being released, across restarts, failing calls, kills and *)
(* the dependency check (ClaimIsHeld).                                     *)
THEOREM ClaimsAreHeld ==
  ASSUME "bus" \notin Features, Reconcilers = {"monitor"}
  PROVE  Spec => []ClaimIsHeld
<1>1. Init => Held
  BY DEF Init, MonIdle, Held, ClaimIsHeld, SweepHasHandles, OneReconciler
<1>2. IInv /\ Held /\ [Next]_vars => Held' BY HeldStep
<1>3. Held => ClaimIsHeld BY DEF Held
<1>4. QED BY <1>1, <1>2, <1>3, Inductive, PTL DEF Spec

-------------------------------------------------------------------------------
(* One finish thread and one attempt per agent, in an environment without  *)
(* event bus, operators and dependencies that are added to live tasks, but *)
(* with failing calls and restarts.                                        *)
Core ==
  /\ "bus" \notin Features /\ "api" \notin Features /\ "deps" \notin Features
  /\ Reconcilers = {"monitor"}

(* The steps that are left.                                                *)
CoreNext ==
  \/ SpawnProcess \/ SpawnRow \/ SpawnOwn \/ SpawnError
  \/ \E t \in Tasks, b \in Agents : FillSlots(t, b)
  \/ Monitor \/ Faults \/ Reconcile("monitor") \/ Restart
  \/ \E t \in Tasks : DependencyMet(t)
  \/ \E k \in Kinds, b \in Agents : FinishThread(k, b)
  \/ \E b \in Agents : ProcessExit(b)
  \/ UNCHANGED vars

LEMMA CoreSteps ==
  ASSUME Core, admitted = {}, disp = NoAgent, [Next]_vars PROVE CoreNext
<1>1. CASE Spawner
  BY <1>1 DEF Spawner, CoreNext, Core, ApiFill, ApiSpawnRun, ApiSpawnRefused
<1>2. CASE Dispatcher
  BY <1>2 DEF Dispatcher, BusPop, BusClaim, Core
<1>3. CASE Operator
  BY <1>3 DEF Operator, CoreNext, Core, ApiReconcile, ApiSpawn, ApiCancel,
     DependencyAdded, ApiKill
<1> QED BY <1>1, <1>2, <1>3 DEF Next, CoreNext, Core

-------------------------------------------------------------------------------
(* An agent that was given its task and still owns it, and one whose row   *)
(* says that it runs as well.                                              *)
Working(a) == taskOf[a] # NoTask /\ active_agent_matches_task(a)
Current(a) == row[a] = "active" /\ Working(a)

Claimed(a) == fin["claimed"][a] # "idle"
Orphan(a) == fin["orphan"][a] # "idle"

(* Agents are started in the last phase of a cycle only, and have their    *)
(* handle before they have the task.                                       *)
SpawnsLast ==
  /\ admitted = {}
  /\ spawn.pc # "idle" => mon.pc = "fill" /\ spawn.by = "monitor"
  /\ spawn.pc \in {"handled", "rowed"} => spawn.agent \in handles

(* An agent in a finish thread has exited and has no handle.               *)
FinishedExited ==
  /\ mon.pc = "sweepPop" => proc[mon.cur] = "exited"
  /\ \A a \in Agents : Claimed(a) \/ Orphan(a) => proc[a] = "exited" /\ a \notin handles

(* While a thread finishes an agent whose row and task are not written     *)
(* yet, the claim is there and the dependency check has nothing against    *)
(* the agent.                                                              *)
ClaimsStand ==
  /\ \A a \in Agents : Claimed(a) /\ Current(a) =>
       a \in finishing /\ ~blocked[taskOf[a]] /\ taskOf[a] \notin mon.unmet
  /\ mon.pc \notin {"begun", "dep", "depPop", "depWrite"} => mon.unmet = {}

(* The check has seen every task in work that is blocked, and it is        *)
(* through with every handle of one before the sweep collects handles.     *)
DepsChecked ==
  /\ mon.pc \in {"begun", "dep", "depPop", "depWrite"} =>
       \A a \in Agents : Working(a) /\ blocked[taskOf[a]] => taskOf[a] \in mon.unmet
  /\ mon.pc \in {"dep", "depPop", "depWrite"} =>
       \A a \in handles : Working(a) /\ blocked[taskOf[a]] => a \in mon.todo
  /\ mon.pc \in {"sweep", "sweepPop"} =>
       \A a \in handles : Working(a) => ~blocked[taskOf[a]]

(* What is killed for its dependencies is in nobody else's hands.          *)
KillsAlone ==
  /\ mon.pc \in {"depPop", "depWrite"} => ~(Claimed(mon.cur) /\ Current(mon.cur))
  /\ mon.pc = "depWrite" => mon.cur \notin handles
  /\ mon.pc = "sweepPop" => mon.cur \in finishing

(* The reconciler knows the agents that are being finished.                *)
Reads == rec["monitor"]
FinishedKnown ==
  /\ Reads.pc \in {"keys", "handles", "rows"} =>
       \A a \in Agents : Claimed(a) /\ Current(a) => a \in Reads.known
  /\ Reads.pc \in {"handles", "rows"} => handles \subseteq Reads.known
  /\ Reads.pc = "rows" =>
       \A a \in Reads.todo : a \notin Reads.known /\ ~(Claimed(a) /\ Working(a))
                             /\ proc[a] # "unborn"

FinishedOnce ==
  /\ SpawnsLast /\ FinishedExited /\ ClaimsStand /\ DepsChecked /\ KillsAlone
  /\ FinishedKnown /\ NeverFinishedTwice

-------------------------------------------------------------------------------
(* Who changes what.                                                       *)
LEMMA MonMoves ==
  ASSUME IInv, Held, CoreNext
  PROVE  \/ mon' = mon \/ Monitor \/ Restart
         \/ /\ mon'.pc = "fill" /\ mon.pc \in {"reconcile", "fill"}
            /\ mon'.unmet = mon.unmet
<1> DEFINE Goal == \/ mon' = mon \/ Monitor \/ Restart
                   \/ /\ mon'.pc = "fill" /\ mon.pc \in {"reconcile", "fill"}
                      /\ mon'.unmet = mon.unmet
<1>1. CASE SpawnProcess \/ SpawnRow \/ SpawnOwn \/ SpawnError
  BY <1>1 DEF SpawnProcess, SpawnRow, SpawnOwn, SpawnError
<1>2. ASSUME NEW t \in Tasks, NEW b \in Agents, FillSlots(t, b) PROVE Goal
  BY <1>2 DEF FillSlots, IInv, TypeOK, MonTypes
<1>3. CASE Monitor
  BY <1>3
<1>4. CASE Faults
  BY <1>4 DEF Faults, FinishErrorClaimed, FinishErrorOrphan
<1>5. ASSUME NEW t \in Tasks, DependencyMet(t) PROVE Goal
  BY <1>5 DEF DependencyMet
<1>6. ASSUME NEW k \in Kinds, NEW b \in Agents, FinishThread(k, b) PROVE Goal
  BY <1>6 DEF FinishThread, FinishMark, FinishComplete, FinishFail,
     FinishPost, FinishRelease
<1>7. CASE Reconcile("monitor")
  <2>1. CASE RecKeys("monitor") \/ RecRows("monitor") \/
     RecInProgress("monitor") \/ RecWatch("monitor")
    BY <2>1 DEF RecKeys, RecRows, RecInProgress, RecWatch
  <2>2. ASSUME NEW b \in Agents,
               RecHandleOk("monitor", b) \/ RecHandleNoRow("monitor", b) \/
               RecHandleStale("monitor", b) \/ RecRowStale("monitor", b) \/
               RecRowAlive("monitor", b) \/ RecRowDead("monitor", b)
        PROVE  Goal
    BY <2>2 DEF RecHandleOk, RecHandleNoRow, RecHandleStale, RecRowStale,
       RecRowAlive, RecRowDead
  <2>3. ASSUME NEW p \in rec["monitor"].prog, RecReset("monitor", p) PROVE Goal
    BY <2>3 DEF RecReset
  <2>4. CASE RecDone("monitor")
    BY <2>4 DEF RecDone, IInv, TypeOK, MonTypes, Held, OneReconciler
  <2>5. QED BY <1>7, <2>1, <2>2, <2>3, <2>4 DEF Reconcile
<1>8. CASE Restart
  BY <1>8
<1>9. ASSUME NEW b \in Agents, ProcessExit(b) PROVE Goal
  BY <1>9 DEF ProcessExit
<1>10. CASE UNCHANGED vars
  BY <1>10 DEF vars, taskVars
<1> QED BY <1>1, <1>2, <1>3, <1>4, <1>5, <1>6, <1>7, <1>8, <1>9, <1>10 DEF
   CoreNext

LEMMA RecMoves ==
  ASSUME Core, CoreNext
  PROVE  rec' = rec \/ Reconcile("monitor") \/ MonReconcile \/ Restart
<1> DEFINE Goal == rec' = rec \/ Reconcile("monitor") \/ MonReconcile \/ Restart
<1>1. CASE SpawnProcess \/ SpawnRow \/ SpawnOwn \/ SpawnError
  BY <1>1 DEF SpawnProcess, SpawnRow, SpawnOwn, SpawnError
<1>2. ASSUME NEW t \in Tasks, NEW b \in Agents, FillSlots(t, b) PROVE Goal
  BY <1>2 DEF FillSlots, SpawnBegin
<1>3. CASE Monitor
  <2>1. CASE MonBegin \/ MonDep \/ DepPop \/ DepWrite \/ MonPoll \/ SweepPop
     \/ MonRest
    BY <2>1 DEF MonBegin, MonDep, DepPop, DepWrite, MonPoll, SweepPop,
       MonRest
  <2>2. ASSUME NEW b \in Agents, DepMet(b) \/ DepKill(b) \/ SweepClaim(b)
        PROVE  Goal
    BY <2>2 DEF DepMet, DepKill, SweepClaim
  <2>3. CASE MonReconcile
    BY <2>3
  <2>4. QED BY <1>3, <2>1, <2>2, <2>3 DEF Monitor
<1>4. CASE Faults
  BY <1>4 DEF Faults, FinishErrorClaimed, FinishErrorOrphan
<1>5. ASSUME NEW t \in Tasks, DependencyMet(t) PROVE Goal
  BY <1>5 DEF DependencyMet
<1>6. ASSUME NEW k \in Kinds, NEW b \in Agents, FinishThread(k, b) PROVE Goal
  BY <1>6 DEF FinishThread, FinishMark, FinishComplete, FinishFail,
     FinishPost, FinishRelease
<1>7. CASE Reconcile("monitor")
  BY <1>7
<1>8. CASE Restart
  BY <1>8
<1>9. ASSUME NEW b \in Agents, ProcessExit(b) PROVE Goal
  BY <1>9 DEF ProcessExit
<1>10. CASE UNCHANGED vars
  BY <1>10 DEF vars, taskVars
<1> QED BY <1>1, <1>2, <1>3, <1>4, <1>5, <1>6, <1>7, <1>8, <1>9, <1>10 DEF
   CoreNext

(* No agent gets a row or a task, or its task a dependency, but by a spawn.*)
WorkKept(a) ==
  /\ row'[a] = "active" => row[a] = "active"
  /\ Working(a)' => /\ Working(a) /\ taskOf'[a] = taskOf[a]
                    /\ blocked'[taskOf[a]] => blocked[taskOf[a]]

LEMMA WorkFrame ==
  ASSUME NEW a, UNCHANGED <<row, taskOf, taskVars>> PROVE WorkKept(a)
BY DEF WorkKept, Working, active_agent_matches_task, taskVars

LEMMA WorkWanes ==
  ASSUME IInv, SpawnsLast, CoreNext, NEW a \in Agents, a \notin handles \/ mon.pc # "fill"
  PROVE  WorkKept(a)
<1> USE DEF IInv
<1>1. CASE SpawnProcess \/ SpawnError
  BY <1>1, WorkFrame DEF SpawnProcess, SpawnError, agentVars
<1>2. CASE SpawnRow
  BY <1>2 DEF SpawnRow, SpawnsLast, SpawnTypes, WorkKept, Working,
     active_agent_matches_task, TypeOK, AgentTypes, TaskTypes, taskVars
<1>3. CASE SpawnOwn
  BY <1>3 DEF SpawnOwn, SpawnsLast, SpawnTypes, WorkKept, Working,
     active_agent_matches_task, TypeOK, AgentTypes, TaskTypes, agentVars
<1>4. ASSUME NEW t \in Tasks, NEW b \in Agents, FillSlots(t, b)
      PROVE  WorkKept(a)
  BY <1>4 DEF FillSlots, SpawnBegin, SpawnChecks, can_task_accept_agent,
     WorkKept, Working, active_agent_matches_task, TypeOK, AgentTypes,
     TaskTypes, Statuses, MonTypes, RecTypes, RecStates, Handover,
     UnbornIsBare, agentVars, claimVars, taskVars, busVars
<1>5. CASE Monitor
  <2>1. CASE MonBegin \/ MonDep \/ DepPop \/ MonPoll \/ SweepPop \/
     MonReconcile \/ MonRest
    BY <2>1, WorkFrame DEF MonBegin, MonDep, DepPop, MonPoll, SweepPop,
       MonReconcile, MonRest, RecBegin, agentVars
  <2>2. ASSUME NEW b \in Agents, DepMet(b) \/ DepKill(b) \/ SweepClaim(b)
        PROVE  WorkKept(a)
    BY <2>2, WorkFrame DEF DepMet, DepKill, SweepClaim, agentVars
  <2>3. CASE DepWrite
    BY <2>3 DEF DepWrite, ResetTask, MarkRow, Revoke, WorkKept, Working,
       active_agent_matches_task, TypeOK, AgentTypes, TaskTypes, Statuses,
       MonTypes, RecTypes, RecStates, Handover, UnbornIsBare, agentVars,
       claimVars, taskVars, busVars
  <2>4. QED BY <1>5, <2>1, <2>2, <2>3 DEF Monitor
<1>6. CASE Faults
  <2>1. ASSUME NEW b \in Agents, FinishErrorClaimed(b) PROVE WorkKept(a)
    BY <2>1, WorkFrame DEF FinishErrorClaimed, agentVars
  <2>2. ASSUME NEW b \in Agents, FinishErrorOrphan(b) PROVE WorkKept(a)
    BY <2>2 DEF FinishErrorOrphan, FinGoto, MarkRow, ResetIfInProgress,
       ResetTask, WorkKept, Working, active_agent_matches_task, TypeOK,
       AgentTypes, TaskTypes, Statuses, MonTypes, RecTypes, RecStates,
       Handover, UnbornIsBare, agentVars, claimVars, taskVars, busVars
  <2>3. QED BY <1>6, <2>1, <2>2 DEF Faults
<1>7. ASSUME NEW t \in Tasks, DependencyMet(t) PROVE WorkKept(a)
  BY <1>7 DEF DependencyMet, WorkKept, Working, active_agent_matches_task,
     TypeOK, AgentTypes, TaskTypes, Statuses, MonTypes, RecTypes, RecStates,
     Handover, UnbornIsBare, agentVars, claimVars, taskVars, busVars
<1>8. ASSUME NEW k \in Kinds, NEW b \in Agents, FinishThread(k, b) PROVE WorkKept(a)
  <2>1. CASE FinishRelease(k, b)
    BY <2>1, WorkFrame DEF FinishRelease, agentVars
  <2>2. CASE FinishMark(k, b)
    BY <2>2 DEF FinishMark, FinGoto, MarkRow, WorkKept, Working,
       active_agent_matches_task, TypeOK, AgentTypes, TaskTypes, Statuses,
       MonTypes, RecTypes, RecStates, Handover, UnbornIsBare, agentVars,
       claimVars, taskVars, busVars
  <2>3. CASE FinishComplete(k, b)
    BY <2>3 DEF FinishComplete, FinGoto, WorkKept, Working,
       active_agent_matches_task, TypeOK, AgentTypes, TaskTypes, Statuses,
       MonTypes, RecTypes, RecStates, Handover, UnbornIsBare, agentVars,
       claimVars, taskVars, busVars
  <2>4. CASE FinishFail(k, b)
    BY <2>4 DEF FinishFail, FinGoto, handle_task_failure, WriteTask,
       WorkKept, Working, active_agent_matches_task, TypeOK, AgentTypes,
       TaskTypes, Statuses, MonTypes, RecTypes, RecStates, Handover,
       UnbornIsBare, agentVars, claimVars, taskVars, busVars
  <2>5. CASE FinishPost(k, b)
    BY <2>5 DEF FinishPost, FinGoto, handle_task_failure, WriteTask,
       WorkKept, Working, active_agent_matches_task, TypeOK, AgentTypes,
       TaskTypes, Statuses, MonTypes, RecTypes, RecStates, Handover,
       UnbornIsBare, agentVars, claimVars, taskVars, busVars
  <2>6. QED BY <1>8, <2>1, <2>2, <2>3, <2>4, <2>5 DEF FinishThread
<1>9. CASE Reconcile("monitor")
  <2>1. CASE RecKeys("monitor") \/ RecRows("monitor") \/
     RecInProgress("monitor") \/ RecWatch("monitor")
    BY <2>1, WorkFrame DEF RecKeys, RecRows, RecInProgress, RecWatch,
       agentVars
  <2>2. ASSUME NEW b \in Agents,
               RecHandleOk("monitor", b) \/ RecHandleNoRow("monitor", b) \/
               RecRowAlive("monitor", b) \/ RecRowDead("monitor", b)
        PROVE  WorkKept(a)
    BY <2>2, WorkFrame DEF RecHandleOk, RecHandleNoRow, RecRowAlive,
       RecRowDead, agentVars
  <2>3. CASE RecDone("monitor")
    BY <2>3 DEF RecDone, WorkKept, Working, active_agent_matches_task,
       TypeOK, AgentTypes, TaskTypes, Statuses, MonTypes, RecTypes,
       RecStates, Handover, UnbornIsBare, agentVars, claimVars, taskVars,
       busVars
  <2>4. ASSUME NEW b \in Agents, RecHandleStale("monitor", b) PROVE WorkKept(a)
    BY <2>4 DEF RecHandleStale, Finished, RecVisited, FailAgentAndRepairTask,
       MarkRow, ResetIfInProgress, ResetTask, WorkKept, Working,
       active_agent_matches_task, TypeOK, AgentTypes, TaskTypes, Statuses,
       MonTypes, RecTypes, RecStates, Handover, UnbornIsBare, agentVars,
       claimVars, taskVars, busVars
  <2>5. ASSUME NEW b \in Agents, RecRowStale("monitor", b) PROVE WorkKept(a)
    BY <2>5 DEF RecRowStale, RecVisited, FailAgentAndRepairTask, MarkRow,
       ResetIfInProgress, ResetTask, WorkKept, Working,
       active_agent_matches_task, TypeOK, AgentTypes, TaskTypes, Statuses,
       MonTypes, RecTypes, RecStates, Handover, UnbornIsBare, agentVars,
       claimVars, taskVars, busVars
  <2>6. ASSUME NEW p \in rec["monitor"].prog, RecReset("monitor", p)
        PROVE  WorkKept(a)
    BY <2>6 DEF RecReset, ResetTask, WorkKept, Working,
       active_agent_matches_task, TypeOK, AgentTypes, TaskTypes, Statuses,
       MonTypes, RecTypes, RecStates, Handover, UnbornIsBare, agentVars,
       claimVars, taskVars, busVars
  <2>7. QED BY <1>9, <2>1, <2>2, <2>3, <2>4, <2>5, <2>6 DEF Reconcile
<1>10. CASE Restart
  BY <1>10 DEF Restart, MonIdle, WorkKept, Working,
     active_agent_matches_task, TypeOK, AgentTypes, TaskTypes, Statuses,
     MonTypes, RecTypes, RecStates, Handover, UnbornIsBare
<1>11. ASSUME NEW b \in Agents, ProcessExit(b) PROVE WorkKept(a)
  BY <1>11, WorkFrame DEF ProcessExit, agentVars
<1>12. CASE UNCHANGED vars
  BY <1>12, WorkFrame DEF vars, agentVars, taskVars
<1> QED BY <1>1, <1>2, <1>3, <1>4, <1>5, <1>6, <1>7, <1>8, <1>9, <1>10,
   <1>11, <1>12 DEF CoreNext

(* Where threads, orphans' threads and handles come from.                  *)
ThreadsKept(a) ==
  /\ Claimed(a)' => Claimed(a) \/ (SweepPop /\ a = mon.cur /\ a \in handles)
  /\ Orphan(a)' => Orphan(a) \/ RecRowDead("monitor", a)
  /\ a \in handles' => a \in handles \/ (proc[a] = "unborn" /\ mon.pc = "fill")
  /\ proc[a] = "exited" => proc'[a] = "exited"
  /\ proc'[a] = "unborn" => proc[a] = "unborn"
  /\ proc[a] = "unborn" => proc'[a] = "unborn" \/ a = spawn.agent
  /\ proc[a] # "unborn" => taskOf'[a] = taskOf[a]

LEMMA ThreadsFrame ==
  ASSUME NEW a, UNCHANGED <<proc, taskOf, handles, fin>> PROVE ThreadsKept(a)
BY DEF ThreadsKept, Claimed, Orphan

LEMMA HandOvers ==
  ASSUME IInv, SpawnsLast, CoreNext, NEW a \in Agents PROVE ThreadsKept(a)
<1> USE DEF IInv
<1>1. CASE SpawnRow \/ SpawnOwn \/ SpawnError
  BY <1>1, ThreadsFrame DEF SpawnRow, SpawnOwn, SpawnError, agentVars,
     claimVars
<1>2. CASE SpawnProcess
  BY <1>2 DEF SpawnProcess, SpawnsLast, SpawnTypes, Handover, SpawnStages,
     ThreadsKept, Claimed, Orphan, TypeOK, AgentTypes, ClaimTypes, Kinds,
     Handover, UnbornIsBare
<1>3. ASSUME NEW t \in Tasks, NEW b \in Agents, FillSlots(t, b)
      PROVE  ThreadsKept(a)
  BY <1>3 DEF FillSlots, SpawnBegin, SpawnChecks, can_task_accept_agent,
     ThreadsKept, Claimed, Orphan, TypeOK, AgentTypes, ClaimTypes, Kinds,
     Handover, UnbornIsBare, agentVars, claimVars, taskVars, busVars
<1>4. CASE Monitor
  <2>1. CASE MonBegin \/ MonDep \/ DepWrite \/ MonPoll \/ MonReconcile \/
     MonRest
    BY <2>1, ThreadsFrame DEF MonBegin, MonDep, DepWrite, MonPoll,
       MonReconcile, MonRest, RecBegin, agentVars, claimVars
  <2>2. ASSUME NEW b \in Agents, DepMet(b) PROVE ThreadsKept(a)
    BY <2>2, ThreadsFrame DEF DepMet, agentVars, claimVars
  <2>3. CASE DepPop
    BY <2>3 DEF DepPop, ClaimPop, ThreadsKept, Claimed, Orphan, TypeOK,
       AgentTypes, ClaimTypes, Kinds, Handover, UnbornIsBare, agentVars,
       claimVars, taskVars, busVars
  <2>4. CASE SweepPop
    BY <2>4 DEF SweepPop, ClaimPop, StartFinish, ThreadsKept, Claimed,
       Orphan, TypeOK, AgentTypes, ClaimTypes, Kinds, Handover, UnbornIsBare,
       agentVars, claimVars, taskVars, busVars
  <2>5. ASSUME NEW b \in Agents, DepKill(b) PROVE ThreadsKept(a)
    BY <2>5 DEF DepKill, ClaimAdd, Finished, ThreadsKept, Claimed, Orphan,
       TypeOK, AgentTypes, ClaimTypes, Kinds, Handover, UnbornIsBare,
       agentVars, claimVars, taskVars, busVars
  <2>6. ASSUME NEW b \in Agents, SweepClaim(b) PROVE ThreadsKept(a)
    BY <2>6 DEF SweepClaim, ClaimAdd, Finished, ThreadsKept, Claimed, Orphan,
       TypeOK, AgentTypes, ClaimTypes, Kinds, Handover, UnbornIsBare,
       agentVars, claimVars, taskVars, busVars
  <2>7. QED BY <1>4, <2>1, <2>2, <2>3, <2>4, <2>5, <2>6 DEF Monitor
<1>5. CASE Faults
  <2>1. ASSUME NEW b \in Agents, FinishErrorClaimed(b) PROVE ThreadsKept(a)
    BY <2>1 DEF FinishErrorClaimed, FinGoto, ThreadsKept, Claimed, Orphan,
       TypeOK, AgentTypes, ClaimTypes, Kinds, Handover, UnbornIsBare,
       agentVars, claimVars, taskVars, busVars
  <2>2. ASSUME NEW b \in Agents, FinishErrorOrphan(b) PROVE ThreadsKept(a)
    BY <2>2 DEF FinishErrorOrphan, FinGoto, MarkRow, ResetIfInProgress,
       ResetTask, ThreadsKept, Claimed, Orphan, TypeOK, AgentTypes,
       ClaimTypes, Kinds, Handover, UnbornIsBare, agentVars, claimVars,
       taskVars, busVars
  <2>3. QED BY <1>5, <2>1, <2>2 DEF Faults
<1>6. ASSUME NEW t \in Tasks, DependencyMet(t) PROVE ThreadsKept(a)
  BY <1>6, ThreadsFrame DEF DependencyMet, agentVars, claimVars
<1>7. ASSUME NEW k \in Kinds, NEW b \in Agents, FinishThread(k, b) PROVE ThreadsKept(a)
  <2>1. CASE FinishMark(k, b)
    BY <2>1 DEF FinishMark, FinGoto, MarkRow, ThreadsKept, Claimed, Orphan,
       TypeOK, AgentTypes, ClaimTypes, Kinds, Handover, UnbornIsBare,
       agentVars, claimVars, taskVars, busVars
  <2>2. CASE FinishComplete(k, b)
    BY <2>2 DEF FinishComplete, FinGoto, ThreadsKept, Claimed, Orphan,
       TypeOK, AgentTypes, ClaimTypes, Kinds, Handover, UnbornIsBare,
       agentVars, claimVars, taskVars, busVars
  <2>3. CASE FinishFail(k, b)
    BY <2>3 DEF FinishFail, FinGoto, handle_task_failure, WriteTask,
       ThreadsKept, Claimed, Orphan, TypeOK, AgentTypes, ClaimTypes, Kinds,
       Handover, UnbornIsBare, agentVars, claimVars, taskVars, busVars
  <2>4. CASE FinishPost(k, b)
    BY <2>4 DEF FinishPost, FinGoto, handle_task_failure, WriteTask,
       ThreadsKept, Claimed, Orphan, TypeOK, AgentTypes, ClaimTypes, Kinds,
       Handover, UnbornIsBare, agentVars, claimVars, taskVars, busVars
  <2>5. CASE FinishRelease(k, b)
    BY <2>5 DEF FinishRelease, FinGoto, ThreadsKept, Claimed, Orphan, TypeOK,
       AgentTypes, ClaimTypes, Kinds, Handover, UnbornIsBare, agentVars,
       claimVars, taskVars, busVars
  <2>6. QED BY <1>7, <2>1, <2>2, <2>3, <2>4, <2>5 DEF FinishThread
<1>8. CASE Reconcile("monitor")
  <2>1. CASE RecKeys("monitor") \/ RecRows("monitor") \/
     RecInProgress("monitor") \/ RecWatch("monitor") \/ RecDone("monitor")
    BY <2>1, ThreadsFrame DEF RecKeys, RecRows, RecInProgress, RecWatch,
       RecDone, agentVars, claimVars
  <2>2. ASSUME NEW b \in Agents,
               RecHandleOk("monitor", b) \/ RecRowStale("monitor", b) \/
               RecRowAlive("monitor", b)
        PROVE  ThreadsKept(a)
    BY <2>2, ThreadsFrame DEF RecHandleOk, RecRowStale, RecRowAlive,
       agentVars, claimVars
  <2>3. ASSUME NEW p \in rec["monitor"].prog, RecReset("monitor", p)
        PROVE  ThreadsKept(a)
    BY <2>3, ThreadsFrame DEF RecReset, agentVars, claimVars
  <2>4. ASSUME NEW b \in Agents, RecHandleNoRow("monitor", b)
        PROVE  ThreadsKept(a)
    BY <2>4 DEF RecHandleNoRow, Finished, RecVisited, ThreadsKept, Claimed,
       Orphan, TypeOK, AgentTypes, ClaimTypes, Kinds, Handover, UnbornIsBare,
       agentVars, claimVars, taskVars, busVars
  <2>5. ASSUME NEW b \in Agents, RecHandleStale("monitor", b)
        PROVE  ThreadsKept(a)
    BY <2>5 DEF RecHandleStale, Finished, RecVisited, FailAgentAndRepairTask,
       MarkRow, ResetIfInProgress, ResetTask, ThreadsKept, Claimed, Orphan,
       TypeOK, AgentTypes, ClaimTypes, Kinds, Handover, UnbornIsBare,
       agentVars, claimVars, taskVars, busVars
  <2>6. ASSUME NEW b \in Agents, RecRowDead("monitor", b) PROVE ThreadsKept(a)
    BY <2>6 DEF RecRowDead, RecVisited, ThreadsKept, Claimed, Orphan, TypeOK,
       AgentTypes, ClaimTypes, Kinds, Handover, UnbornIsBare, agentVars,
       claimVars, taskVars, busVars
  <2>7. QED BY <1>8, <2>1, <2>2, <2>3, <2>4, <2>5, <2>6 DEF Reconcile
<1>9. CASE Restart
  BY <1>9 DEF Restart, MonIdle, ThreadsKept, Claimed, Orphan, TypeOK,
     AgentTypes, ClaimTypes, Kinds, Handover, UnbornIsBare
<1>10. ASSUME NEW b \in Agents, ProcessExit(b) PROVE ThreadsKept(a)
  BY <1>10 DEF ProcessExit, Finished, ThreadsKept, Claimed, Orphan, TypeOK,
     AgentTypes, ClaimTypes, Kinds, Handover, UnbornIsBare, agentVars,
     claimVars, taskVars, busVars
<1>11. CASE UNCHANGED vars
  BY <1>11, ThreadsFrame DEF vars, agentVars, claimVars, taskVars
<1> QED BY <1>1, <1>2, <1>3, <1>4, <1>5, <1>6, <1>7, <1>8, <1>9, <1>10, <1>11
   DEF CoreNext

(* A claim is dropped when its thread ends, after a kill, or by a crash.   *)
Released(a) ==
  \/ Claimed(a) /\ ~Claimed(a)'
  \/ DepWrite /\ a = mon.cur
  \/ Restart

LEMMA Releases ==
  ASSUME IInv, CoreNext, NEW a \in finishing, a \notin finishing' PROVE Released(a)
<1> USE DEF IInv
<1>1. CASE SpawnProcess \/ SpawnRow \/ SpawnOwn \/ SpawnError
  BY <1>1 DEF SpawnProcess, SpawnRow, SpawnOwn, SpawnError, claimVars
<1>2. ASSUME NEW t \in Tasks, NEW b \in Agents, FillSlots(t, b)
      PROVE  Released(a)
  BY <1>2 DEF FillSlots, SpawnBegin, claimVars
<1>3. CASE Monitor
  <2>1. CASE MonBegin \/ MonDep \/ DepPop \/ MonPoll \/ SweepPop \/
     MonReconcile \/ MonRest
    BY <2>1 DEF MonBegin, MonDep, DepPop, MonPoll, SweepPop, MonReconcile,
       MonRest, RecBegin, claimVars
  <2>2. ASSUME NEW b \in Agents, DepMet(b) PROVE Released(a)
    BY <2>2 DEF DepMet, claimVars
  <2>3. CASE DepWrite
    BY <2>3 DEF DepWrite, Released
  <2>4. ASSUME NEW b \in Agents, DepKill(b) PROVE Released(a)
    BY <2>4 DEF DepKill, ClaimAdd
  <2>5. ASSUME NEW b \in Agents, SweepClaim(b) PROVE Released(a)
    BY <2>5 DEF SweepClaim, ClaimAdd
  <2>6. QED BY <1>3, <2>1, <2>2, <2>3, <2>4, <2>5 DEF Monitor
<1>4. CASE Faults
  BY <1>4 DEF Faults, FinishErrorClaimed, FinishErrorOrphan, claimVars
<1>5. ASSUME NEW t \in Tasks, DependencyMet(t) PROVE Released(a)
  BY <1>5 DEF DependencyMet, claimVars
<1>6. ASSUME NEW k \in Kinds, NEW b \in Agents, FinishThread(k, b) PROVE Released(a)
  <2>1. CASE FinishMark(k, b) \/ FinishComplete(k, b) \/ FinishFail(k, b) \/
     FinishPost(k, b)
    BY <2>1 DEF FinishMark, FinishComplete, FinishFail, FinishPost, claimVars
  <2>2. CASE FinishRelease(k, b)
    BY <2>2 DEF FinishRelease, FinGoto, Released, Claimed, TypeOK,
       ClaimTypes, Kinds
  <2>3. QED BY <1>6, <2>1, <2>2 DEF FinishThread
<1>7. CASE Reconcile("monitor")
  BY <1>7 DEF Reconcile, RecKeys, RecRows, RecInProgress, RecWatch, RecDone,
     RecHandleOk, RecHandleNoRow, RecHandleStale, RecRowStale, RecRowAlive,
     RecRowDead, RecReset, claimVars
<1>8. CASE Restart
  BY <1>8 DEF Released
<1>9. ASSUME NEW b \in Agents, ProcessExit(b) PROVE Released(a)
  BY <1>9 DEF ProcessExit, claimVars
<1>10. CASE UNCHANGED vars
  BY <1>10 DEF vars, claimVars, taskVars
<1> QED BY <1>1, <1>2, <1>3, <1>4, <1>5, <1>6, <1>7, <1>8, <1>9, <1>10 DEF
   CoreNext

-------------------------------------------------------------------------------
(* Each part of FinishedOnce is kept.                                      *)
LEMMA SpawnsLastStep ==
  ASSUME IInv, Held, SpawnsLast, CoreNext PROVE SpawnsLast'
<1> USE DEF IInv
<1>1. CASE SpawnProcess
  BY <1>1 DEF SpawnProcess, SpawnsLast, TypeOK, SpawnTypes, MonTypes,
     ClaimTypes, Handover, SpawnStages, UnbornIsBare, agentVars, claimVars,
     taskVars, busVars
<1>2. CASE SpawnRow
  BY <1>2 DEF SpawnRow, SpawnsLast, TypeOK, SpawnTypes, MonTypes, ClaimTypes,
     Handover, SpawnStages, UnbornIsBare, agentVars, claimVars, taskVars,
     busVars
<1>3. CASE SpawnOwn
  BY <1>3 DEF SpawnOwn, SpawnsLast, TypeOK, SpawnTypes, MonTypes, ClaimTypes,
     Handover, SpawnStages, UnbornIsBare, agentVars, claimVars, taskVars,
     busVars
<1>4. CASE SpawnError
  BY <1>4 DEF SpawnError, SpawnsLast, TypeOK, SpawnTypes, MonTypes,
     ClaimTypes, Handover, SpawnStages, UnbornIsBare, agentVars, claimVars,
     taskVars, busVars
<1>5. ASSUME NEW t \in Tasks, NEW b \in Agents, FillSlots(t, b)
      PROVE  SpawnsLast'
  BY <1>5 DEF FillSlots, SpawnBegin, SpawnChecks, can_task_accept_agent,
     SpawnsLast, TypeOK, SpawnTypes, MonTypes, ClaimTypes, Handover,
     SpawnStages, UnbornIsBare, agentVars, claimVars, taskVars, busVars
<1>6. CASE Monitor
  <2>1. CASE MonBegin
    BY <2>1 DEF MonBegin, SpawnsLast, TypeOK, SpawnTypes, MonTypes,
       ClaimTypes, Handover, SpawnStages, UnbornIsBare, agentVars, claimVars,
       taskVars, busVars
  <2>2. CASE MonDep
    BY <2>2 DEF MonDep, ActiveRows, SpawnsLast, TypeOK, SpawnTypes, MonTypes,
       ClaimTypes, Handover, SpawnStages, UnbornIsBare, agentVars, claimVars,
       taskVars, busVars
  <2>3. CASE DepPop
    BY <2>3 DEF DepPop, ClaimPop, SpawnsLast, TypeOK, SpawnTypes, MonTypes,
       ClaimTypes, Handover, SpawnStages, UnbornIsBare, agentVars, claimVars,
       taskVars, busVars
  <2>4. CASE DepWrite
    BY <2>4 DEF DepWrite, ResetTask, MarkRow, Revoke, SpawnsLast, TypeOK,
       SpawnTypes, MonTypes, ClaimTypes, Handover, SpawnStages, UnbornIsBare,
       agentVars, claimVars, taskVars, busVars
  <2>5. CASE MonPoll
    BY <2>5 DEF MonPoll, SpawnsLast, TypeOK, SpawnTypes, MonTypes,
       ClaimTypes, Handover, SpawnStages, UnbornIsBare, agentVars, claimVars,
       taskVars, busVars
  <2>6. CASE SweepPop
    BY <2>6 DEF SweepPop, ClaimPop, StartFinish, SpawnsLast, TypeOK,
       SpawnTypes, MonTypes, ClaimTypes, Handover, SpawnStages, UnbornIsBare,
       agentVars, claimVars, taskVars, busVars
  <2>7. CASE MonReconcile
    BY <2>7 DEF MonReconcile, RecBegin, SpawnsLast, TypeOK, SpawnTypes,
       MonTypes, ClaimTypes, Handover, SpawnStages, UnbornIsBare, agentVars,
       claimVars, taskVars, busVars
  <2>8. CASE MonRest
    BY <2>8 DEF MonRest, SpawnsLast, TypeOK, SpawnTypes, MonTypes,
       ClaimTypes, Handover, SpawnStages, UnbornIsBare, agentVars, claimVars,
       taskVars, busVars
  <2>9. ASSUME NEW b \in Agents, DepMet(b) PROVE SpawnsLast'
    BY <2>9 DEF DepMet, SpawnsLast, TypeOK, SpawnTypes, MonTypes, ClaimTypes,
       Handover, SpawnStages, UnbornIsBare, agentVars, claimVars, taskVars,
       busVars
  <2>10. ASSUME NEW b \in Agents, DepKill(b) PROVE SpawnsLast'
    BY <2>10 DEF DepKill, ClaimAdd, Finished, SpawnsLast, TypeOK, SpawnTypes,
       MonTypes, ClaimTypes, Handover, SpawnStages, UnbornIsBare, agentVars,
       claimVars, taskVars, busVars
  <2>11. ASSUME NEW b \in Agents, SweepClaim(b) PROVE SpawnsLast'
    BY <2>11 DEF SweepClaim, ClaimAdd, Finished, SpawnsLast, TypeOK,
       SpawnTypes, MonTypes, ClaimTypes, Handover, SpawnStages, UnbornIsBare,
       agentVars, claimVars, taskVars, busVars
  <2>12. QED BY <1>6, <2>1, <2>2, <2>3, <2>4, <2>5, <2>6, <2>7, <2>8, <2>9,
     <2>10, <2>11 DEF Monitor
<1>7. CASE Faults
  BY <1>7 DEF Faults, FinishErrorClaimed, FinishErrorOrphan, SpawnsLast,
     claimVars
<1>8. ASSUME NEW t \in Tasks, DependencyMet(t) PROVE SpawnsLast'
  BY <1>8 DEF DependencyMet, SpawnsLast, claimVars
<1>9. ASSUME NEW k \in Kinds, NEW b \in Agents, FinishThread(k, b) PROVE SpawnsLast'
  BY <1>9 DEF FinishThread, FinishMark, FinishComplete, FinishFail,
     FinishPost, FinishRelease, SpawnsLast, claimVars
<1>10. CASE Reconcile("monitor")
  <2>1. CASE RecKeys("monitor") \/ RecRows("monitor") \/
     RecInProgress("monitor") \/ RecWatch("monitor")
    BY <2>1 DEF RecKeys, RecRows, RecInProgress, RecWatch, SpawnsLast,
       claimVars
  <2>2. ASSUME NEW b \in Agents,
               RecHandleOk("monitor", b) \/ RecRowStale("monitor", b) \/
               RecRowAlive("monitor", b) \/ RecRowDead("monitor", b)
        PROVE  SpawnsLast'
    BY <2>2 DEF RecHandleOk, RecRowStale, RecRowAlive, RecRowDead,
       SpawnsLast, claimVars
  <2>3. ASSUME NEW p \in rec["monitor"].prog, RecReset("monitor", p)
        PROVE  SpawnsLast'
    BY <2>3 DEF RecReset, SpawnsLast, claimVars
  <2>4. CASE RecDone("monitor")
    BY <2>4 DEF RecDone, SpawnsLast, Held, OneReconciler, TypeOK, MonTypes,
       claimVars
  <2>5. ASSUME NEW b \in Agents, RecHandleNoRow("monitor", b) PROVE SpawnsLast'
    BY <2>5 DEF RecHandleNoRow, SpawnsLast, Held, OneReconciler
  <2>6. ASSUME NEW b \in Agents, RecHandleStale("monitor", b) PROVE SpawnsLast'
    BY <2>6 DEF RecHandleStale, SpawnsLast, Held, OneReconciler
  <2>7. QED BY <1>10, <2>1, <2>2, <2>3, <2>4, <2>5, <2>6 DEF Reconcile
<1>11. CASE Restart
  BY <1>11 DEF Restart, MonIdle, SpawnsLast, TypeOK, SpawnTypes, MonTypes,
     ClaimTypes, Handover, SpawnStages, UnbornIsBare
<1>12. ASSUME NEW b \in Agents, ProcessExit(b) PROVE SpawnsLast'
  BY <1>12 DEF ProcessExit, SpawnsLast, claimVars
<1>13. CASE UNCHANGED vars
  BY <1>13 DEF vars, SpawnsLast, claimVars, taskVars
<1> QED BY <1>1, <1>2, <1>3, <1>4, <1>5, <1>6, <1>7, <1>8, <1>9, <1>10,
   <1>11, <1>12, <1>13 DEF CoreNext

LEMMA FinishedExitedStep ==
  ASSUME IInv, Held, FinishedOnce, CoreNext PROVE FinishedExited'
<1> USE DEF IInv, FinishedOnce
<1>1. ASSUME NEW a \in Agents, Claimed(a)' \/ Orphan(a)'
      PROVE  proc'[a] = "exited" /\ a \notin handles'
  <2>1. ThreadsKept(a) BY HandOvers
  <2>2. CASE Claimed(a) \/ Orphan(a)
    BY <2>1, <2>2 DEF ThreadsKept, FinishedExited
  <2>3. CASE SweepPop /\ a = mon.cur
    BY <2>3 DEF SweepPop, ClaimPop, FinishedExited
  <2>4. CASE RecRowDead("monitor", a)
    <3>1. /\ proc' = proc /\ handles' = handles /\ proc[a] # "running"
          /\ a \in Reads.todo /\ Reads.pc = "rows"
      BY <2>4 DEF RecRowDead, agentVars, Reads
    <3>2. proc[a] # "unborn" /\ a \notin handles
      BY <3>1 DEF FinishedKnown
    <3>3. QED BY <3>1, <3>2 DEF TypeOK, AgentTypes
  <2>5. QED BY <1>1, <2>1, <2>2, <2>3, <2>4 DEF ThreadsKept
<1>2. ASSUME mon'.pc = "sweepPop" PROVE proc'[mon'.cur] = "exited"
  <2>1. CASE mon' = mon
    <3>1. mon.cur \in Agents BY <2>1, <1>2 DEF TypeOK, MonTypes
    <3>2. ThreadsKept(mon.cur) BY <3>1, HandOvers
    <3>3. QED BY <1>2, <2>1, <3>2 DEF FinishedExited, ThreadsKept
  <2>2. CASE Monitor
    <3>1. ASSUME NEW a \in Agents, SweepClaim(a) PROVE proc'[mon'.cur] = "exited"
      <4>1. mon.pc = "sweep" /\ a \in mon.todo /\ proc' = Finished(a)
        BY <3>1 DEF SweepClaim
      <4>2. mon'.cur = a BY <1>2, <3>1, <4>1 DEF SweepClaim, TypeOK, MonTypes
      <4>3. proc[a] # "unborn"
        BY <4>1 DEF Held, SweepHasHandles, Handover, UnbornIsBare
      <4>4. QED BY <4>1, <4>2, <4>3 DEF Finished, TypeOK, AgentTypes
    <3>2. QED
      BY <1>2, <2>2, <3>1 DEF Monitor, MonBegin, MonDep, DepPop, DepWrite,
         MonPoll, SweepPop, MonReconcile, MonRest, DepMet, DepKill, TypeOK, MonTypes
  <2>3. CASE Restart
    BY <1>2, <2>3 DEF Restart, MonIdle
  <2>4. QED BY <1>2, <2>1, <2>2, <2>3, MonMoves
<1> QED BY <1>1, <1>2 DEF FinishedExited

(* What the monitor's steps make of mon.                                   *)
LEMMA CycleMoves ==
  ASSUME IInv, Monitor
  PROVE  \/ MonBegin /\ mon.pc = "idle" /\ mon'.pc = "begun"
         \/ MonDep /\ mon.pc = "begun" /\ mon'.pc = "dep" /\ mon'.unmet = mon.unmet
         \/ /\ \E a \in Agents : DepMet(a)
            /\ mon.pc = "dep" /\ mon'.pc = "dep" /\ mon'.unmet = mon.unmet
         \/ /\ \E a \in Agents : DepKill(a)
            /\ mon.pc = "dep" /\ mon'.pc \in {"depPop", "depWrite"}
            /\ mon'.unmet = mon.unmet /\ mon'.todo = mon.todo
         \/ /\ DepPop /\ mon.pc = "depPop" /\ mon'.pc = "depWrite"
            /\ mon'.unmet = mon.unmet /\ mon'.todo = mon.todo /\ mon'.cur = mon.cur
         \/ /\ DepWrite /\ mon.pc = "depWrite" /\ mon'.pc = "dep"
            /\ mon'.unmet = mon.unmet /\ mon'.todo = mon.todo \ {mon.cur}
         \/ MonPoll /\ mon.pc = "dep" /\ mon'.pc = "sweep" /\ mon'.unmet = {}
         \/ /\ \E a \in Agents : SweepClaim(a)
            /\ mon.pc = "sweep" /\ mon'.pc \in {"sweep", "sweepPop"} /\ mon'.unmet = mon.unmet
         \/ /\ SweepPop /\ mon.pc = "sweepPop" /\ mon'.pc = "sweep" /\ mon'.unmet = mon.unmet
         \/ /\ MonReconcile /\ mon.pc = "sweep" /\ mon'.pc = "reconcile"
            /\ mon'.unmet = mon.unmet
         \/ MonRest /\ mon.pc = "fill" /\ mon'.pc = "idle" /\ mon'.unmet = mon.unmet
<1> USE DEF IInv, TypeOK, MonTypes
<1>1. CASE MonBegin BY <1>1 DEF MonBegin
<1>2. CASE MonDep BY <1>2 DEF MonDep
<1>3. CASE \E a \in Agents : DepMet(a) BY <1>3 DEF DepMet
<1>4. CASE \E a \in Agents : DepKill(a) BY <1>4 DEF DepKill
<1>5. CASE DepPop BY <1>5 DEF DepPop
<1>6. CASE DepWrite BY <1>6 DEF DepWrite
<1>7. CASE MonPoll BY <1>7 DEF MonPoll
<1>8. CASE \E a \in Agents : SweepClaim(a) BY <1>8 DEF SweepClaim
<1>9. CASE SweepPop BY <1>9 DEF SweepPop
<1>10. CASE MonReconcile BY <1>10 DEF MonReconcile
<1>11. CASE MonRest BY <1>11 DEF MonRest
<1> QED
  BY <1>1, <1>2, <1>3, <1>4, <1>5, <1>6, <1>7, <1>8, <1>9, <1>10, <1>11
     DEF Monitor

LEMMA ClaimsStandStep ==
  ASSUME IInv, Held, FinishedOnce, CoreNext PROVE ClaimsStand'
<1> USE DEF IInv, FinishedOnce
<1>1. ASSUME NEW a \in Agents, Claimed(a)', Current(a)'
      PROVE  a \in finishing' /\ ~blocked'[taskOf'[a]] /\ taskOf'[a] \notin mon'.unmet
  <2>0. ThreadsKept(a) BY HandOvers
  <2>1. CASE Claimed(a)
    <3>1. a \notin handles BY <2>1 DEF FinishedExited
    <3>2. WorkKept(a) BY <3>1, WorkWanes
    <3>3. /\ Current(a) /\ taskOf'[a] = taskOf[a]
          /\ a \in finishing /\ ~blocked'[taskOf[a]] /\ ~blocked[taskOf[a]]
          /\ taskOf[a] \notin mon.unmet
      BY <1>1, <2>1, <3>2 DEF WorkKept, Current, ClaimsStand
    <3>4. ~Restart BY <1>1 DEF Restart, Claimed, Kinds
    <3>5. a \in finishing'
      <4>1. SUFFICES ASSUME Released(a) PROVE FALSE BY <3>3, Releases
      <4>2. DepWrite /\ a = mon.cur BY <1>1, <3>4, <4>1 DEF Released
      <4>3. QED BY <2>1, <3>3, <4>2 DEF DepWrite, KillsAlone
    <3>6. taskOf[a] \notin mon'.unmet
      <4>1. CASE MonBegin
        BY <3>3, <4>1 DEF MonBegin, TypeOK, MonTypes
      <4>2. CASE ~MonBegin
        BY <3>3, <3>4, <4>2, MonMoves, CycleMoves
      <4>3. QED BY <4>1, <4>2
    <3>7. QED BY <3>3, <3>5, <3>6
  <2>2. CASE SweepPop /\ a = mon.cur /\ a \in handles
    <3>1. /\ mon.pc = "sweepPop" /\ finishing' = finishing /\ taskOf' = taskOf
          /\ blocked' = blocked /\ mon'.unmet = mon.unmet
      BY <2>2 DEF SweepPop, taskVars, TypeOK, MonTypes
    <3>2. Working(a) BY <1>1, <3>1, WorkWanes DEF WorkKept, Current
    <3>3. QED
      BY <2>2, <3>1, <3>2 DEF KillsAlone, DepsChecked, ClaimsStand
  <2>3. QED BY <1>1, <2>0, <2>1, <2>2 DEF ThreadsKept
<1>2. ASSUME mon'.pc \notin {"begun", "dep", "depPop", "depWrite"}
      PROVE  mon'.unmet = {}
  <2>1. CASE Restart BY <2>1 DEF Restart, MonIdle
  <2>2. CASE ~Restart
    BY <1>2, <2>2, MonMoves, CycleMoves DEF ClaimsStand
  <2>3. QED BY <2>1, <2>2
<1> QED BY <1>1, <1>2 DEF ClaimsStand

LEMMA DepsCheckedStep ==
  ASSUME IInv, TypeOK', Held, FinishedOnce, CoreNext PROVE DepsChecked'
<1> USE DEF IInv, FinishedOnce
<1> DEFINE Early == {"begun", "dep", "depPop", "depWrite"}
           Busy == {"begun", "dep", "depPop", "depWrite", "sweep", "sweepPop"}
<1>1. ASSUME mon'.pc \in Busy
      PROVE  /\ mon.pc # "fill" /\ ~Restart /\ (mon' = mon \/ Monitor)
             /\ \A a \in Agents : WorkKept(a) /\ (a \in handles' => a \in handles)
  <2>1. ~Restart BY <1>1 DEF Restart, MonIdle
  <2>2. mon.pc # "fill" /\ (mon' = mon \/ Monitor)
    BY <1>1, <2>1, MonMoves, CycleMoves
  <2>3. QED BY <2>1, <2>2, WorkWanes, HandOvers DEF ThreadsKept
<1>2. ASSUME NEW a \in Agents, mon'.pc \in Early, Working(a)', blocked'[taskOf'[a]]
      PROVE  taskOf'[a] \in mon'.unmet
  <2>1. Working(a) /\ taskOf'[a] = taskOf[a] /\ blocked[taskOf[a]]
    BY <1>1, <1>2 DEF WorkKept
  <2>2. CASE MonBegin
    BY <2>1, <2>2 DEF MonBegin, TypeOK, MonTypes, AgentTypes, Working
  <2>3. CASE ~MonBegin
    <3>1. mon.pc \in Early /\ mon'.unmet = mon.unmet
      BY <1>1, <1>2, <2>3, CycleMoves
    <3>2. QED BY <2>1, <3>1 DEF DepsChecked
  <2>4. QED BY <2>2, <2>3
<1>3. ASSUME NEW a \in handles', mon'.pc \in {"dep", "depPop", "depWrite"},
             Working(a)', blocked'[taskOf'[a]]
      PROVE  a \in mon'.todo
  <2>0. a \in Agents BY <1>3 DEF TypeOK, ClaimTypes
  <2>1. /\ Working(a) /\ taskOf'[a] = taskOf[a] /\ blocked[taskOf[a]]
        /\ a \in handles
    BY <1>1, <1>3, <2>0 DEF WorkKept
  <2>2. CASE MonDep
    BY <2>1, <2>2 DEF MonDep, TypeOK, MonTypes
  <2>3. CASE ~MonDep
    <3>1. mon.pc \in {"dep", "depPop", "depWrite"}
      BY <1>1, <1>3, <2>3, CycleMoves
    <3>2. a \in mon.todo /\ taskOf[a] \in mon.unmet
      BY <2>0, <2>1, <3>1 DEF DepsChecked
    <3>3. ASSUME NEW b \in Agents, DepMet(b) PROVE a \in mon'.todo
      <4>1. a # b BY <2>1, <3>2, <3>3 DEF DepMet
      <4>2. QED BY <3>2, <3>3, <4>1 DEF DepMet, TypeOK, MonTypes
    <3>4. CASE DepWrite
      <4>1. a # mon.cur BY <2>1, <3>4 DEF DepWrite, KillsAlone
      <4>2. QED BY <3>2, <3>4, <4>1 DEF DepWrite, TypeOK, MonTypes
    <3>5. CASE ~DepWrite /\ \A b \in Agents : ~DepMet(b)
      <4>1. mon'.todo = mon.todo
        BY <1>1, <1>3, <3>1, <3>5, CycleMoves
      <4>2. QED BY <3>2, <4>1
    <3>6. QED BY <3>3, <3>4, <3>5
  <2>4. QED BY <2>2, <2>3
<1>4. ASSUME NEW a \in handles', mon'.pc \in {"sweep", "sweepPop"}, Working(a)'
      PROVE  ~blocked'[taskOf'[a]]
  <2>0. a \in Agents BY <1>4 DEF TypeOK, ClaimTypes
  <2>1. /\ Working(a) /\ taskOf'[a] = taskOf[a] /\ a \in handles
        /\ blocked'[taskOf[a]] => blocked[taskOf[a]]
    BY <1>1, <1>4, <2>0 DEF WorkKept
  <2>2. CASE MonPoll
    BY <2>1, <2>2 DEF MonPoll, DepsChecked
  <2>3. CASE ~MonPoll
    <3>1. mon.pc \in {"sweep", "sweepPop"}
      BY <1>1, <1>4, <2>3, CycleMoves
    <3>2. QED BY <2>1, <3>1 DEF DepsChecked
  <2>4. QED BY <2>2, <2>3
<1> QED BY <1>2, <1>3, <1>4 DEF DepsChecked

LEMMA KillsAloneStep ==
  ASSUME IInv, Held, FinishedOnce, CoreNext PROVE KillsAlone'
<1> USE DEF IInv, FinishedOnce
<1>0. SUFFICES ASSUME mon'.pc \in {"depPop", "depWrite", "sweepPop"} PROVE KillsAlone'
  BY DEF KillsAlone
<1>1. CASE mon' = mon
  <2>1. mon.cur \in Agents BY <1>0, <1>1 DEF TypeOK, MonTypes
  <2>2. ThreadsKept(mon.cur) /\ WorkKept(mon.cur)
    BY <1>0, <1>1, <2>1, HandOvers, WorkWanes
  <2>3. ~SweepPop /\ ~DepWrite /\ ~Restart
    <3>1. ~Restart BY <1>0 DEF Restart, MonIdle
    <3>2. ~SweepPop BY <1>1 DEF SweepPop, TypeOK, MonTypes
    <3>3. ~DepWrite BY <1>1 DEF DepWrite, TypeOK, MonTypes
    <3>4. QED BY <3>1, <3>2, <3>3
  <2>4. ASSUME mon.pc = "sweepPop" PROVE mon.cur \in finishing'
    <3>1. mon.cur \in finishing /\ ~Claimed(mon.cur)
      BY <2>1, <2>4 DEF KillsAlone, FinishedExited, Held, SweepHasHandles
    <3>2. QED BY <2>3, <3>1, Releases DEF Released
  <2>5. QED
    BY <1>0, <1>1, <2>2, <2>3, <2>4 DEF KillsAlone, ThreadsKept, WorkKept, Current
<1>2. CASE Monitor
  <2>1. ASSUME NEW a \in Agents, DepKill(a) PROVE KillsAlone'
    <3>1. /\ mon.pc = "dep" /\ a \in mon.todo
          /\ blocked[taskOf[a]] \/ taskOf[a] \in mon.unmet
          /\ mon'.cur = a /\ handles' = handles /\ fin' = fin
          /\ UNCHANGED <<row, taskOf, status, owner>>
          /\ mon'.pc = "depPop" \/ (mon'.pc = "depWrite" /\ a \in finishing)
      BY <2>1 DEF DepKill, taskVars, TypeOK, MonTypes
    <3>2. ~(Claimed(a) /\ Current(a)) BY <3>1 DEF ClaimsStand
    <3>3. ~(Claimed(a) /\ Current(a))'
      BY <3>1, <3>2 DEF Claimed, Current, Working, active_agent_matches_task
    <3>4. ASSUME mon'.pc = "depWrite" PROVE a \notin handles
      <4>1. a \in finishing BY <3>1, <3>4
      <4>2. Claimed(a)
        BY <3>1, <4>1, ConstantsAssumption
           DEF Held, ClaimIsHeld, Claimed, ConstantsAssumption
      <4>3. QED BY <4>2 DEF FinishedExited
    <3>5. QED BY <3>1, <3>3, <3>4 DEF KillsAlone
  <2>2. CASE DepPop
    <3>1. /\ mon.pc = "depPop" /\ mon'.pc = "depWrite" /\ mon'.cur = mon.cur
          /\ handles' = handles \ {mon.cur} /\ fin' = fin
          /\ UNCHANGED <<row, taskOf, status, owner>>
      BY <2>2 DEF DepPop, ClaimPop, taskVars, TypeOK, MonTypes
    <3>2. QED
      BY <3>1 DEF KillsAlone, Claimed, Current, Working, active_agent_matches_task
  <2>3. ASSUME NEW a \in Agents, SweepClaim(a) PROVE KillsAlone'
    BY <1>0, <2>3 DEF SweepClaim, ClaimAdd, KillsAlone, TypeOK, MonTypes
  <2>4. QED
    <3>1. (\E a \in Agents : DepKill(a) \/ SweepClaim(a)) \/ DepPop
      BY <1>0, <1>2, CycleMoves
    <3>2. QED BY <2>1, <2>2, <2>3, <3>1
<1>3. QED BY <1>0, <1>1, <1>2, MonMoves DEF Restart, MonIdle

LEMMA FinishedKnownStep ==
  ASSUME Core, IInv, TypeOK', Held, FinishedOnce, CoreNext PROVE FinishedKnown'
<1> USE DEF IInv, FinishedOnce
<1>m. Reads \in RecStates /\ "monitor" \in Reconcilers /\ handles' \subseteq Agents
  BY DEF Core, Reads, TypeOK, RecTypes, ClaimTypes
<1>0. SUFFICES ASSUME Reads'.pc \in {"keys", "handles", "rows"} PROVE FinishedKnown'
  BY DEF FinishedKnown
<1>1. CASE MonReconcile
  <2>1. /\ Reads' = [pc |-> "keys", known |-> finishing, todo |-> {}, prog |-> {}]
        /\ UNCHANGED <<row, taskOf, fin, status, owner>>
    BY <1>1 DEF MonReconcile, RecBegin, Reads, agentVars, claimVars, taskVars,
       TypeOK, RecTypes, Core
  <2>2. \A a \in Agents : (Claimed(a) /\ Current(a))' => Claimed(a) /\ Current(a)
    BY <2>1 DEF Claimed, Current, Working, active_agent_matches_task
  <2>3. QED BY <2>1, <2>2 DEF FinishedKnown, ClaimsStand
<1>2. ASSUME Reads.pc # "idle"
      PROVE  /\ mon.pc = "reconcile"
             /\ \A a \in Agents :
                  /\ WorkKept(a) /\ (a \in handles' => a \in handles)
                  /\ Claimed(a)' => Claimed(a)
                  /\ proc'[a] = "unborn" => proc[a] = "unborn"
  <2>1. mon.pc = "reconcile" BY <1>2 DEF Held, OneReconciler, Reads
  <2>2. QED BY <2>1, WorkWanes, HandOvers DEF ThreadsKept, SweepPop
<1>3. ASSUME Reads'.pc = Reads.pc, Reads'.known = Reads.known,
             Reads'.todo \subseteq Reads.todo
      PROVE  FinishedKnown'
  <2>1. /\ \A a \in Agents : (Claimed(a) /\ Current(a))' => Claimed(a) /\ Current(a)
        /\ \A a \in Agents : (Claimed(a) /\ Working(a))' => Claimed(a) /\ Working(a)
        /\ \A a \in Agents : proc'[a] = "unborn" => proc[a] = "unborn"
        /\ handles' \subseteq handles
    BY <1>0, <1>2, <1>3, <1>m DEF WorkKept, Current
  <2>2. Reads.todo \subseteq Agents BY <1>m DEF RecStates
  <2>3. QED BY <1>3, <2>1, <2>2 DEF FinishedKnown
<1>4. CASE Reconcile("monitor")
  <2>1. CASE RecKeys("monitor")
    <3>1. /\ Reads.pc = "keys" /\ Reads'.pc = "handles" /\ handles' = handles
          /\ Reads'.known = Reads.known \cup handles
      BY <1>m, <2>1 DEF RecKeys, Reads, claimVars, TypeOK, RecTypes, RecStates
    <3>2. QED BY <1>2, <3>1 DEF FinishedKnown, WorkKept, Current
  <2>2. CASE RecRows("monitor")
    <3>1. /\ Reads.pc = "handles" /\ Reads'.pc = "rows" /\ handles' = handles
          /\ Reads'.known = Reads.known /\ Reads'.todo = ActiveRows \ Reads.known
          /\ UNCHANGED <<proc, row>>
      BY <1>m, <2>2 DEF RecRows, Reads, agentVars, claimVars, TypeOK, RecTypes, RecStates
    <3>2. \A a \in ActiveRows : a \in Agents /\ row[a] = "active" /\ proc[a] # "unborn"
      BY DEF ActiveRows, Handover, UnbornIsBare
    <3>3. QED BY <1>2, <3>1, <3>2 DEF FinishedKnown, WorkKept, Current
  <2>3. ASSUME NEW b \in Agents, RecVisited("monitor", b) PROVE FinishedKnown'
    BY <1>3, <1>m, <2>3 DEF RecVisited, Reads, TypeOK, RecTypes, RecStates
  <2>4. ASSUME NEW b \in Agents,
               RecHandleOk("monitor", b) \/ RecHandleNoRow("monitor", b) \/
               RecHandleStale("monitor", b) \/ RecRowStale("monitor", b) \/
               RecRowAlive("monitor", b) \/ RecRowDead("monitor", b)
        PROVE  FinishedKnown'
    BY <2>3, <2>4 DEF RecHandleOk, RecHandleNoRow, RecHandleStale, RecRowStale,
       RecRowAlive, RecRowDead
  <2>5. ASSUME NEW p \in rec["monitor"].prog, RecReset("monitor", p)
        PROVE  FinishedKnown'
    BY <1>3, <1>m, <2>5 DEF RecReset, Reads, TypeOK, RecTypes, RecStates
  <2>6. CASE RecInProgress("monitor") \/ RecWatch("monitor") \/ RecDone("monitor")
    BY <1>0, <1>m, <2>6 DEF RecInProgress, RecWatch, RecDone, Reads, TypeOK,
       RecTypes, RecStates
  <2>7. QED BY <1>4, <2>1, <2>2, <2>4, <2>5, <2>6 DEF Reconcile
<1>5. CASE rec' = rec
  BY <1>3, <1>5 DEF Reads
<1>6. CASE Restart
  BY <1>0, <1>6 DEF Restart, Reads, Core
<1> QED BY <1>1, <1>4, <1>5, <1>6, RecMoves

LEMMA FinishedOnceStep ==
  ASSUME Core, IInv, Held, FinishedOnce, CoreNext PROVE NeverFinishedTwice'
<1> USE DEF IInv, FinishedOnce
<1> SUFFICES ASSUME NEW a \in Agents, Claimed(a)', Orphan(a)' PROVE FALSE
  BY DEF NeverFinishedTwice, Claimed, Orphan
<1>1. ThreadsKept(a) BY HandOvers
<1>2. ASSUME RecRowDead("monitor", a) PROVE FALSE
  <2>1. /\ Reads.pc = "rows" /\ a \in Reads.todo /\ active_agent_matches_task(a)
    BY <1>2 DEF RecRowDead, Reads
  <2>2. proc[a] # "unborn" /\ ~(Claimed(a) /\ Working(a))
    BY <2>1 DEF FinishedKnown
  <2>3. Working(a) BY <2>1, <2>2 DEF Working, Handover, UnbornIsBare
  <2>4. mon.pc = "reconcile" BY <2>1 DEF Held, OneReconciler, Reads
  <2>5. QED BY <1>1, <2>2, <2>3, <2>4 DEF ThreadsKept, SweepPop
<1>3. Orphan(a) BY <1>1, <1>2 DEF ThreadsKept
<1>4. a \notin handles BY <1>3 DEF FinishedExited
<1> QED
  BY <1>1, <1>3, <1>4 DEF ThreadsKept, NeverFinishedTwice, Claimed, Orphan

LEMMA FinishedOnceInit == ASSUME Core, Init PROVE Held /\ FinishedOnce
BY DEF Init, MonIdle, Held, ClaimIsHeld, SweepHasHandles, OneReconciler,
   FinishedOnce, SpawnsLast, FinishedExited, ClaimsStand, DepsChecked,
   KillsAlone, FinishedKnown, NeverFinishedTwice, Claimed, Orphan, Working,
   Current, Reads, Kinds, Core

LEMMA FinishedOnceNext ==
  ASSUME Core, IInv, Held, FinishedOnce, [Next]_vars PROVE (Held /\ FinishedOnce)'
<1>1. CoreNext BY CoreSteps DEF FinishedOnce, SpawnsLast, Held
<1>2. Held' /\ TypeOK' BY HeldStep, TypeStep DEF Core, IInv
<1>3. FinishedOnce'
  BY <1>1, <1>2, SpawnsLastStep, FinishedExitedStep, ClaimsStandStep,
     DepsCheckedStep, KillsAloneStep, FinishedKnownStep, FinishedOnceStep
     DEF FinishedOnce
<1> QED BY <1>2, <1>3

(* Without bus, operators and dependencies added meanwhile no agent is     *)
(* finished by two threads, although the dependency check drops claims     *)
(* that are not its own and the reconciler goes by what it read before     *)
(* (NeverFinishedTwice).                                                   *)
THEOREM AgentsFinishOnce == ASSUME Core PROVE Spec => []NeverFinishedTwice
<1>1. Init => Held /\ FinishedOnce BY FinishedOnceInit
<1>2. IInv /\ Held /\ FinishedOnce /\ [Next]_vars => (Held /\ FinishedOnce)'
  BY FinishedOnceNext
<1>3. FinishedOnce => NeverFinishedTwice BY DEF FinishedOnce
<1>4. QED BY <1>1, <1>2, <1>3, Inductive, PTL DEF Spec

-------------------------------------------------------------------------------
(* Attempts.  Every attempt counted for a task has an agent of its own     *)
(* that is spent: its thread has charged it, and no other one will come.   *)
(* An agent that may have been charged to its task and will not be again.  *)
Spent(a) ==
  /\ proc[a] = "exited" /\ a \notin handles
  /\ row[a] # "active" /\ ~Working(a)
  /\ \A k \in Kinds : fin[k][a] \in {"idle", "release"}

SpentOn(t) == {a \in Agents : taskOf[a] = t /\ Spent(a)}

Charges ==
  /\ IsFiniteSet(Born)
  /\ \A k \in Kinds, a \in Agents : fin[k][a] \in {"ok", "bad", "post"} => row[a] # "active"
  /\ \A t \in Tasks : attempts[t] <= Cardinality(SpentOn(t))

FinKept(k, a) ==
  /\ fin'[k][a] \in {"ok", "bad", "post"} =>
       fin[k][a] \in {"ok", "bad", "post"} \/ row'[a] # "active"
  /\ fin[k][a] \in {"idle", "release"} =>
       \/ fin'[k][a] \in {"idle", "release"}
       \/ a \in handles
       \/ RecRowDead("monitor", a)
LEMMA FinKeptFrame ==
  ASSUME NEW k, NEW a, UNCHANGED fin PROVE FinKept(k, a)
BY DEF FinKept

LEMMA FinWrites ==
  ASSUME IInv, CoreNext, NEW i \in Kinds, NEW a \in Agents PROVE FinKept(i, a)
<1> USE DEF IInv
<1>1. CASE SpawnProcess \/ SpawnRow \/ SpawnOwn \/ SpawnError
  BY <1>1, FinKeptFrame DEF SpawnProcess, SpawnRow, SpawnOwn, SpawnError,
     claimVars
<1>2. ASSUME NEW t \in Tasks, NEW b \in Agents, FillSlots(t, b)
      PROVE  FinKept(i, a)
  BY <1>2, FinKeptFrame DEF FillSlots, SpawnBegin, claimVars
<1>3. CASE Monitor
  <2>1. CASE MonBegin \/ MonDep \/ DepPop \/ DepWrite \/ MonPoll \/
     MonReconcile \/ MonRest
    BY <2>1, FinKeptFrame DEF MonBegin, MonDep, DepPop, DepWrite, MonPoll,
       MonReconcile, MonRest, RecBegin, claimVars
  <2>2. ASSUME NEW b \in Agents, DepMet(b) \/ DepKill(b) \/ SweepClaim(b)
        PROVE  FinKept(i, a)
    BY <2>2, FinKeptFrame DEF DepMet, DepKill, SweepClaim, claimVars
  <2>3. CASE SweepPop
    BY <2>3 DEF SweepPop, ClaimPop, StartFinish, FinKept, TypeOK, ClaimTypes,
       AgentTypes, Kinds, agentVars, claimVars, taskVars, busVars
  <2>4. QED BY <1>3, <2>1, <2>2, <2>3 DEF Monitor
<1>4. CASE Faults
  <2>1. ASSUME NEW b \in Agents, FinishErrorClaimed(b) PROVE FinKept(i, a)
    BY <2>1 DEF FinishErrorClaimed, FinGoto, FinKept, TypeOK, ClaimTypes,
       AgentTypes, Kinds, agentVars, claimVars, taskVars, busVars
  <2>2. ASSUME NEW b \in Agents, FinishErrorOrphan(b) PROVE FinKept(i, a)
    BY <2>2 DEF FinishErrorOrphan, FinGoto, MarkRow, ResetIfInProgress,
       ResetTask, FinKept, TypeOK, ClaimTypes, AgentTypes, Kinds, agentVars,
       claimVars, taskVars, busVars
  <2>3. QED BY <1>4, <2>1, <2>2 DEF Faults
<1>5. ASSUME NEW t \in Tasks, DependencyMet(t) PROVE FinKept(i, a)
  BY <1>5, FinKeptFrame DEF DependencyMet, claimVars
<1>6. ASSUME NEW k \in Kinds, NEW b \in Agents, FinishThread(k, b) PROVE FinKept(i, a)
  <2>1. CASE FinishMark(k, b)
    BY <2>1 DEF FinishMark, FinGoto, MarkRow, FinKept, TypeOK, ClaimTypes,
       AgentTypes, Kinds, agentVars, claimVars, taskVars, busVars
  <2>2. CASE FinishComplete(k, b)
    BY <2>2 DEF FinishComplete, FinGoto, FinKept, TypeOK, ClaimTypes,
       AgentTypes, Kinds, agentVars, claimVars, taskVars, busVars
  <2>3. CASE FinishFail(k, b)
    BY <2>3 DEF FinishFail, FinGoto, handle_task_failure, WriteTask, FinKept,
       TypeOK, ClaimTypes, AgentTypes, Kinds, agentVars, claimVars, taskVars,
       busVars
  <2>4. CASE FinishPost(k, b)
    BY <2>4 DEF FinishPost, FinGoto, handle_task_failure, WriteTask, FinKept,
       TypeOK, ClaimTypes, AgentTypes, Kinds, agentVars, claimVars, taskVars,
       busVars
  <2>5. CASE FinishRelease(k, b)
    BY <2>5 DEF FinishRelease, FinGoto, FinKept, TypeOK, ClaimTypes,
       AgentTypes, Kinds, agentVars, claimVars, taskVars, busVars
  <2>6. QED BY <1>6, <2>1, <2>2, <2>3, <2>4, <2>5 DEF FinishThread
<1>7. CASE Reconcile("monitor")
  <2>1. CASE RecKeys("monitor") \/ RecRows("monitor") \/
     RecInProgress("monitor") \/ RecWatch("monitor") \/ RecDone("monitor")
    BY <2>1, FinKeptFrame DEF RecKeys, RecRows, RecInProgress, RecWatch,
       RecDone, claimVars
  <2>2. ASSUME NEW b \in Agents,
               RecHandleOk("monitor", b) \/ RecHandleNoRow("monitor", b) \/
               RecHandleStale("monitor", b) \/ RecRowStale("monitor", b) \/
               RecRowAlive("monitor", b)
        PROVE  FinKept(i, a)
    BY <2>2, FinKeptFrame DEF RecHandleOk, RecHandleNoRow, RecHandleStale,
       RecRowStale, RecRowAlive, claimVars
  <2>3. ASSUME NEW p \in rec["monitor"].prog, RecReset("monitor", p)
        PROVE  FinKept(i, a)
    BY <2>3, FinKeptFrame DEF RecReset, claimVars
  <2>4. ASSUME NEW b \in Agents, RecRowDead("monitor", b) PROVE FinKept(i, a)
    BY <2>4 DEF RecRowDead, RecVisited, FinKept, TypeOK, ClaimTypes,
       AgentTypes, Kinds, agentVars, claimVars, taskVars, busVars
  <2>5. QED BY <1>7, <2>1, <2>2, <2>3, <2>4 DEF Reconcile
<1>8. CASE Restart
  BY <1>8 DEF Restart, MonIdle, FinKept, TypeOK, ClaimTypes, AgentTypes,
     Kinds
<1>9. ASSUME NEW b \in Agents, ProcessExit(b) PROVE FinKept(i, a)
  BY <1>9, FinKeptFrame DEF ProcessExit, claimVars
<1>10. CASE UNCHANGED vars
  BY <1>10, FinKeptFrame DEF vars, claimVars, taskVars
<1> QED BY <1>1, <1>2, <1>3, <1>4, <1>5, <1>6, <1>7, <1>8, <1>9, <1>10 DEF
   CoreNext

(* A charge is the last write of a finish thread but for its release.      *)
Charge(k, b) ==
  /\ fin[k][b] \in {"bad", "post"} /\ fin'[k][b] = "release"
  /\ \A i \in Kinds \ {k} : fin'[i][b] = fin[i][b]
  /\ UNCHANGED <<proc, row, taskOf, handles>>
  /\ status'[taskOf[b]] # "in_progress"

LEMMA Charged ==
  ASSUME IInv, CoreNext, NEW u \in Tasks
  PROVE  \/ attempts'[u] <= attempts[u]
         \/ /\ \E k \in Kinds, b \in Agents : Charge(k, b) /\ taskOf[b] = u
            /\ attempts'[u] <= attempts[u] + 1
<1> DEFINE Goal == \/ attempts'[u] <= attempts[u]
                   \/ /\ \E k \in Kinds, b \in Agents : Charge(k, b) /\ taskOf[b] = u
                      /\ attempts'[u] <= attempts[u] + 1
<1> USE DEF IInv
<1>0. attempts[u] \in Nat BY DEF TypeOK, TaskTypes
<1>1. CASE attempts' = attempts
  BY <1>0, <1>1
<1>2. ASSUME NEW k \in Kinds, NEW b \in Agents, FinishFail(k, b) \/ FinishPost(k, b),
             handle_task_failure(taskOf[b])
      PROVE  Goal
  <2>1. CASE taskOf[b] # u
    BY <1>0, <1>2, <2>1 DEF handle_task_failure, WriteTask, TypeOK, TaskTypes
  <2>2. CASE taskOf[b] = u
    <3>1. attempts'[u] <= attempts[u] + 1 /\ status'[u] # "in_progress"
      BY <1>0, <1>2, <2>2 DEF handle_task_failure, WriteTask, TypeOK, TaskTypes
    <3>2. Charge(k, b)
      BY <1>2, <2>2, <3>1 DEF Charge, FinishFail, FinishPost, FinGoto, agentVars,
         TypeOK, ClaimTypes
    <3>3. QED BY <2>2, <3>1, <3>2
  <2>3. QED BY <2>1, <2>2
<1>3. CASE SpawnProcess \/ SpawnRow \/ SpawnOwn \/ SpawnError
  BY <1>3, <1>1 DEF SpawnProcess, SpawnRow, SpawnOwn, SpawnError, taskVars,
     ResetTask, ResetIfInProgress, FailAgentAndRepairTask
<1>4. ASSUME NEW t \in Tasks, NEW b \in Agents, FillSlots(t, b) PROVE Goal
  BY <1>4, <1>1 DEF FillSlots, SpawnBegin, taskVars, ResetTask,
     ResetIfInProgress, FailAgentAndRepairTask
<1>5. CASE Monitor
  BY <1>5, <1>1 DEF Monitor, MonBegin, MonDep, DepPop, DepWrite, MonPoll,
     SweepPop, MonReconcile, MonRest, DepMet, DepKill, SweepClaim, RecBegin,
     taskVars, ResetTask, ResetIfInProgress, FailAgentAndRepairTask
<1>6. CASE Faults
  BY <1>6, <1>1 DEF Faults, FinishErrorClaimed, FinishErrorOrphan, taskVars,
     ResetTask, ResetIfInProgress, FailAgentAndRepairTask
<1>7. ASSUME NEW t \in Tasks, DependencyMet(t) PROVE Goal
  BY <1>7, <1>1 DEF DependencyMet, taskVars, ResetTask, ResetIfInProgress,
     FailAgentAndRepairTask
<1>8. ASSUME NEW k \in Kinds, NEW b \in Agents, FinishThread(k, b) PROVE Goal
  <2>1. CASE FinishMark(k, b) \/ FinishComplete(k, b) \/ FinishRelease(k, b)
    BY <2>1, <1>1 DEF FinishMark, FinishComplete, FinishRelease, taskVars,
       ResetTask, ResetIfInProgress, FailAgentAndRepairTask
  <2>2. CASE FinishFail(k, b)
    BY <2>2, <1>2 DEF FinishFail
  <2>3. CASE FinishPost(k, b)
    BY <2>3, <1>1, <1>2 DEF FinishPost, taskVars
  <2>4. QED BY <1>8, <2>1, <2>2, <2>3 DEF FinishThread
<1>9. CASE Reconcile("monitor")
  BY <1>9, <1>1 DEF Reconcile, RecKeys, RecRows, RecInProgress, RecWatch,
     RecDone, RecHandleOk, RecHandleNoRow, RecHandleStale, RecRowStale,
     RecRowAlive, RecRowDead, RecReset, taskVars, ResetTask,
     ResetIfInProgress, FailAgentAndRepairTask
<1>10. CASE Restart
  BY <1>10, <1>1 DEF Restart
<1>11. ASSUME NEW b \in Agents, ProcessExit(b) PROVE Goal
  BY <1>11, <1>1 DEF ProcessExit, taskVars, ResetTask, ResetIfInProgress,
     FailAgentAndRepairTask
<1>12. CASE UNCHANGED vars
  BY <1>12, <1>1 DEF vars, taskVars, ResetTask, ResetIfInProgress,
     FailAgentAndRepairTask
<1> QED BY <1>3, <1>4, <1>5, <1>6, <1>7, <1>8, <1>9, <1>10, <1>11, <1>12 DEF
   CoreNext

LEMMA SpentStays ==
  ASSUME IInv, FinishedOnce, CoreNext, NEW a \in Agents, Spent(a) PROVE Spent(a)'
<1> USE DEF IInv, FinishedOnce
<1>1. proc[a] = "exited" /\ a \notin handles BY DEF Spent
<1>2. ThreadsKept(a) /\ WorkKept(a) BY <1>1, HandOvers, WorkWanes
<1>3. ~RecRowDead("monitor", a)
  BY <1>1 DEF Spent, RecRowDead, Working, Handover, UnbornIsBare
<1>4. \A k \in Kinds : fin'[k][a] \in {"idle", "release"}
  BY <1>1, <1>3, FinWrites DEF Spent, FinKept
<1> QED BY <1>1, <1>2, <1>4 DEF Spent, ThreadsKept, WorkKept

LEMMA ChargesStep ==
  ASSUME IInv, TypeOK', FinishedOnce, Charges, CoreNext PROVE Charges'
<1> USE DEF IInv, FinishedOnce
<1>1. ASSUME NEW k \in Kinds, NEW a \in Agents, fin'[k][a] \in {"ok", "bad", "post"}
      PROVE  row'[a] # "active"
  <2>1. SUFFICES ASSUME fin[k][a] \in {"ok", "bad", "post"} PROVE row'[a] # "active"
    BY <1>1, FinWrites DEF FinKept
  <2>2. row[a] # "active" /\ a \notin handles
    BY <2>1 DEF Charges, FinishedExited, Claimed, Orphan, Kinds
  <2>3. QED BY <2>2, WorkWanes DEF WorkKept
<1>2. IsFiniteSet(Born')
  <2>1. Born' \subseteq Born \cup {spawn.agent}
    BY HandOvers DEF Born, ThreadsKept
  <2>2. IsFiniteSet(Born \cup {spawn.agent}) BY FS_AddElement DEF Charges
  <2>3. QED BY <2>1, <2>2, FS_Subset
<1>3. ASSUME NEW t \in Tasks PROVE attempts'[t] <= Cardinality(SpentOn(t)')
  <2> DEFINE S == SpentOn(t)
             T == SpentOn(t)'
  <2>1. S \subseteq T
    BY SpentStays, HandOvers DEF SpentOn, ThreadsKept, Spent
  <2>2. T \subseteq Born' /\ S \subseteq Born BY DEF SpentOn, Spent, Born
  <2>3. /\ IsFiniteSet(S) /\ IsFiniteSet(T)
        /\ Cardinality(S) \in Nat /\ Cardinality(T) \in Nat
        /\ Cardinality(S) <= Cardinality(T)
    <3>1. IsFiniteSet(S) BY <2>2, FS_Subset DEF Charges
    <3>2. IsFiniteSet(T) BY <1>2, <2>2, FS_Subset
    <3>3. QED BY <2>1, <3>1, <3>2, FS_Subset, FS_CardinalityType
  <2>4. attempts[t] <= Cardinality(S) BY DEF Charges
  <2>5. attempts[t] \in Nat BY DEF TypeOK, TaskTypes
  <2>6. attempts'[t] \in Nat BY DEF TypeOK, TaskTypes
  <2>7. CASE attempts'[t] <= attempts[t]
    BY <2>3, <2>4, <2>5, <2>6, <2>7
  <2>8. ASSUME NEW k \in Kinds, NEW b \in Agents, Charge(k, b), taskOf[b] = t,
               attempts'[t] <= attempts[t] + 1
        PROVE  attempts'[t] <= Cardinality(T)
    <3>1. b \notin S BY <2>8 DEF SpentOn, Spent, Charge
    <3>2. b \in T
      <4>1. proc[b] = "exited" /\ b \notin handles /\ row[b] # "active"
        BY <2>8 DEF Charge, FinishedExited, Claimed, Orphan, Charges, Kinds
      <4>2. \A i \in Kinds : fin'[i][b] \in {"idle", "release"}
        BY <2>8 DEF Charge, NeverFinishedTwice, Kinds
      <4>3. ~Working(b)'
        BY <2>8 DEF Charge, Working, active_agent_matches_task
      <4>4. QED BY <2>8, <4>1, <4>2, <4>3 DEF Charge, SpentOn, Spent
    <3>3. Cardinality(S \cup {b}) = Cardinality(S) + 1
      BY <2>3, <3>1, FS_AddElement
    <3>4. Cardinality(S \cup {b}) <= Cardinality(T)
      BY <2>1, <2>3, <3>2, FS_Subset
    <3> HIDE DEF S, T
    <3>5. QED BY <2>3, <2>4, <2>5, <2>6, <2>8, <3>3, <3>4
  <2>9. QED BY <2>7, <2>8, Charged
<1> QED BY <1>1, <1>2, <1>3 DEF Charges

(* Failures, retries, repeated teardowns and restarts never charge a task  *)
(* more attempts than agents of it have ended (ChargedOncePerAgent).        *)
THEOREM AgentsAreChargedOnce == ASSUME Core PROVE Spec => []ChargedOncePerAgent
<1> DEFINE I == Held /\ FinishedOnce /\ Charges
<1>1. Init => I
  <2> SUFFICES ASSUME Init PROVE I OBVIOUS
  <2>1. Held /\ FinishedOnce BY FinishedOnceInit
  <2>2. Born = {} /\ \A t \in Tasks : SpentOn(t) = {}
    BY DEF Init, Born, SpentOn, Spent
  <2>3. ASSUME NEW t \in Tasks PROVE attempts[t] <= Cardinality(SpentOn(t))
    <3>1. attempts[t] = 0 BY DEF Init
    <3>2. Cardinality(SpentOn(t)) = 0 BY <2>2, FS_EmptySet
    <3>3. QED BY <3>1, <3>2
  <2>4. Charges
    BY <2>2, <2>3, FS_EmptySet DEF Init, Charges, Kinds
  <2>5. QED BY <2>1, <2>4
<1>2. IInv /\ I /\ [Next]_vars => I'
  <2> SUFFICES ASSUME IInv, Held, FinishedOnce, Charges, [Next]_vars PROVE I'
    OBVIOUS
  <2>1. CoreNext BY CoreSteps DEF FinishedOnce, SpawnsLast, Held
  <2>2. QED BY <2>1, FinishedOnceNext, ChargesStep, TypeStep DEF IInv
<1>3. IInv /\ I => ChargedOncePerAgent
  <2> SUFFICES ASSUME IInv, I, NEW t \in Tasks
      PROVE  attempts[t] <= Cardinality({a \in Agents : taskOf[a] = t /\ Ended(a)})
    BY DEF ChargedOncePerAgent
  <2> DEFINE S == SpentOn(t)
             E == {a \in Agents : taskOf[a] = t /\ Ended(a)}
  <2>1. S \subseteq E /\ E \subseteq Born
    BY DEF SpentOn, Spent, Ended, Born
  <2>2. IsFiniteSet(S) /\ IsFiniteSet(E) BY <2>1, FS_Subset DEF Charges
  <2>3. /\ Cardinality(S) \in Nat /\ Cardinality(E) \in Nat
        /\ Cardinality(S) <= Cardinality(E)
    BY <2>1, <2>2, FS_Subset, FS_CardinalityType
  <2>4. attempts[t] \in Nat /\ attempts[t] <= Cardinality(S)
    BY DEF Charges, IInv, TypeOK, TaskTypes
  <2> HIDE DEF S, E
  <2>5. attempts[t] <= Cardinality(E) BY <2>3, <2>4
  <2>6. QED BY <2>5 DEF E
<1>4. QED BY <1>1, <1>2, <1>3, Inductive, PTL DEF Spec
===============================================================================
