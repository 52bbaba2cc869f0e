---------------------------- MODULE AgentLifecycle ----------------------------
(***************************************************************************)
(* The life of an agent subprocess in the swarm controller: spawning it    *)
(* for a task, noticing that it exited, claiming its teardown, finishing   *)
(* it, and the repair paths that run beside that (dependency-violation     *)
(* kills, the reconciler, restarts of the controller, operator requests).  *)
(*                                                                         *)
(* Threads: the monitor loop, the finish threads it starts, the event-bus  *)
(* dispatcher, HTTP request threads, and the agent processes.  An action   *)
(* is a DB write with the reads that guard it, or a section under a lock,   *)
(* so the threads interleave between them.  A task carries the             *)
(* columns the lifecycle reads: status, agent_id (owner), attempts, and    *)
(* whether a dependency is unmet (blocked).                                *)
(***************************************************************************)
EXTENDS Integers, FiniteSets

CONSTANTS
  Agents,       \* agent ids: spawn_agent mints a fresh one for every run
  Tasks,        \* task ids
  NoAgent,      \* an empty agent_id
  NoTask,       \* the task of an agent id not minted yet
  MaxAttempts,  \* tasks.max_attempts
  MaxActive,    \* MAX_ACTIVE_AGENTS
  Reconcilers,  \* who calls reconcile_agent_runtime_state
  Features,     \* what else goes on: "bus" the event-bus dispatcher runs,
                \* "api" operators use the HTTP routes, "deps" dependencies
                \* are added to live tasks, "faults" DB calls may raise
  MaxRestarts   \* bound on controller restarts

ASSUME ConstantsAssumption ==
  /\ NoAgent \notin Agents
  /\ NoTask \notin Tasks
  /\ MaxAttempts \in Nat \ {0}
  /\ MaxActive \in Nat
  /\ Reconcilers \subseteq {"monitor", "api"}
  /\ "monitor" \in Reconcilers
  /\ MaxRestarts \in Nat
  /\ Features \subseteq {"bus", "api", "deps", "faults"}

VARIABLES
  proc,       \* the operating-system process of each agent
  token,      \* its row in agent_tokens
  row,        \* its row in agents ("none" before the upsert and once pruned)
  taskOf,     \* the task it was spawned for
  handles,    \* keys of _active_handles
  finishing,  \* _finishing_agents
  fin,        \* where each _finish_agent thread is
  status, owner, attempts, blocked,  \* the task rows
  spawn,      \* the spawn_agent call in progress (they hold _fill_slots_lock)
  admitted,   \* tasks whose /api/spawn request passed its checks
  mon,        \* the monitor loop
  rec,        \* each reconcile_agent_runtime_state call in progress
  disp,       \* the agent whose AGENT_EXITED event is being handled
  noticed,    \* agents whose waiter thread is through with them: AGENT_EXITED
              \* was handled, or the controller that spawned them has died
  restarts

taskVars == <<status, owner, attempts, blocked>>
agentVars == <<proc, token, row, taskOf>>
claimVars == <<handles, finishing, fin>>
busVars == <<disp, noticed>>
vars == <<proc, token, row, taskOf, handles, finishing, fin, status, owner,
          attempts, blocked, spawn, admitted, mon, rec, disp,
          noticed, restarts>>

Statuses == {"pending", "in_progress", "completed", "failed", "cancelled"}
Kinds == {"claimed", "orphan"}   \* started by start_finish_thread / by reconcile
FinPcs == {"idle", "start", "ok", "bad", "post", "release"}

ActiveRows == {a \in Agents : row[a] = "active"}
Running == {a \in Agents : proc[a] = "running"}
Finished(a) == [proc EXCEPT ![a] = IF @ = "running" THEN "exited" ELSE @]

(* agent_update_status: an UPDATE, so no effect on a pruned row.           *)
MarkRow(a, s) == row' = [row EXCEPT ![a] = IF @ = "none" THEN @ ELSE s]
(* Mutant: the token outlives the row.                                     *)
RevokeSkipped(a) == UNCHANGED token

Revoke(a) == token' = [token EXCEPT ![a] = IF @ = "live" THEN "revoked" ELSE @]

(* task_update / task_update_status to "pending": _apply_status_invariants *)
(* clears the owner with it.                                               *)
ResetTask(t) ==
  /\ status' = [status EXCEPT ![t] = "pending"]
  /\ owner' = [owner EXCEPT ![t] = NoAgent]
  /\ UNCHANGED <<attempts, blocked>>

ResetIfInProgress(t) ==
  IF status[t] = "in_progress" THEN ResetTask(t) ELSE UNCHANGED taskVars

can_task_accept_agent(t) == status[t] = "pending" /\ owner[t] = NoAgent

active_agent_matches_task(a) ==
  status[taskOf[a]] = "in_progress" /\ owner[taskOf[a]] = a

(* Mutant: processes without an agents row do not count.                   *)
active_rows_only == Cardinality(ActiveRows)

get_active_count ==
  LET alive == handles \cap Running
  IN  Cardinality(alive) + Cardinality(finishing)
        + Cardinality(ActiveRows \ (alive \cup finishing))

-------------------------------------------------------------------------------
(* unmet: the tasks with an unmet dependency when the cycle began.         *)
MonIdle == [pc |-> "idle", todo |-> {}, cur |-> NoAgent, unmet |-> {}]

Init ==
  /\ proc = [a \in Agents |-> "unborn"]
  /\ token = [a \in Agents |-> "none"]
  /\ row = [a \in Agents |-> "none"]
  /\ taskOf = [a \in Agents |-> NoTask]
  /\ handles = {} /\ finishing = {}
  /\ fin = [k \in Kinds |-> [a \in Agents |-> "idle"]]
  /\ status = [t \in Tasks |-> "pending"]
  /\ owner = [t \in Tasks |-> NoAgent]
  /\ attempts = [t \in Tasks |-> 0]
  /\ blocked = [t \in Tasks |-> FALSE]
  /\ spawn = [pc |-> "idle", agent |-> NoAgent, by |-> "monitor"]
  /\ admitted = {}
  /\ mon = MonIdle
  /\ rec = [r \in Reconcilers |->
              [pc |-> "idle", known |-> {}, todo |-> {}, prog |-> {}]]
  /\ disp = NoAgent /\ noticed = {}
  /\ restarts = 0

-------------------------------------------------------------------------------
(* spawn_agent, called under _fill_slots_lock.                             *)

(* The checks: the fresh task row accepts an agent, and no DB-active agent *)
(* has the task.                                                           *)
SpawnChecks(t) ==
  /\ can_task_accept_agent(t)
  /\ \A b \in ActiveRows : taskOf[b] # t

SpawnBegin(by, t, a) ==
  /\ spawn.pc = "idle"
  /\ taskOf[a] = NoTask
  /\ SpawnChecks(t)
  /\ taskOf' = [taskOf EXCEPT ![a] = t]
  /\ spawn' = [pc |-> "checked", agent |-> a, by |-> by]
  /\ UNCHANGED <<proc, token, row, claimVars, taskVars, rec,
                 busVars, restarts>>

(* fill_slots: capacity is read under the lock; _get_next_task returns a   *)
(* pending task whose dependencies are met, none twice in a cycle.         *)
CanFill(t) == get_active_count < MaxActive /\ ~blocked[t]

FillSlots(t, a) ==
  /\ mon.pc = "fill" /\ CanFill(t)
  /\ \A b \in mon.todo : taskOf[b] # t
  /\ SpawnBegin("monitor", t, a)
  /\ mon' = [mon EXCEPT !.todo = @ \cup {a}]
  /\ UNCHANGED admitted

(* POST /api/spawn-batch runs fill_slots on a request thread.              *)
ApiFill(t, a) ==
  /\ "api" \in Features /\ CanFill(t)
  /\ SpawnBegin("api", t, a)
  /\ UNCHANGED <<mon, admitted>>

ApiSpawnRun(t, a) ==
  /\ t \in admitted
  /\ SpawnBegin("api", t, a)
  /\ admitted' = admitted \ {t}
  /\ UNCHANGED mon

ApiSpawnRefused(t) ==
  /\ t \in admitted /\ spawn.pc = "idle" /\ ~SpawnChecks(t)
  /\ admitted' = admitted \ {t}
  /\ UNCHANGED <<agentVars, claimVars, taskVars, spawn, mon, rec,
                 busVars, restarts>>

(* The token row is written before Popen, the handle right after it.       *)
SpawnProcess ==
  LET a == spawn.agent IN
  /\ spawn.pc = "checked"
  /\ token' = [token EXCEPT ![a] = "live"]
  /\ proc' = [proc EXCEPT ![a] = "running"]
  /\ handles' = handles \cup {a}
  /\ spawn' = [spawn EXCEPT !.pc = "handled"]
  /\ UNCHANGED <<row, taskOf, finishing, fin, taskVars, admitted, mon, rec,
                 busVars, restarts>>

(* Mutant: a status that is none of the lifecycle's.                       *)
SpawnRowMisspelt ==
  /\ spawn.pc = "handled"
  /\ row' = [row EXCEPT ![spawn.agent] = "running"]
  /\ spawn' = [spawn EXCEPT !.pc = "rowed"]
  /\ UNCHANGED <<proc, token, taskOf, claimVars, taskVars, admitted, mon, rec,
                 busVars, restarts>>

SpawnRow ==
  /\ spawn.pc = "handled"
  /\ row' = [row EXCEPT ![spawn.agent] = "active"]
  /\ spawn' = [spawn EXCEPT !.pc = "rowed"]
  /\ UNCHANGED <<proc, token, taskOf, claimVars, taskVars, admitted, mon, rec,
                 busVars, restarts>>

SpawnOwn ==
  LET a == spawn.agent IN
  /\ spawn.pc = "rowed"
  /\ status' = [status EXCEPT ![taskOf[a]] = "in_progress"]
  /\ owner' = [owner EXCEPT ![taskOf[a]] = a]
  /\ spawn' = [spawn EXCEPT !.pc = "idle"]
  /\ UNCHANGED <<agentVars, claimVars, attempts, blocked, admitted, mon, rec,
                 busVars, restarts>>

(* Popen, the agent upsert or the task update raises: the token is revoked *)
(* and None returned; a process that was started stays with its handle.    *)
SpawnError ==
  LET a == spawn.agent IN
  /\ "faults" \in Features
  /\ spawn.pc \in {"checked", "handled", "rowed"}
  /\ token' = [token EXCEPT ![a] = "revoked"]
  /\ spawn' = [spawn EXCEPT !.pc = "idle"]
  /\ UNCHANGED <<proc, row, taskOf, claimVars, taskVars, admitted, mon, rec,
                 busVars, restarts>>

-------------------------------------------------------------------------------
(* claim_finish: the agent joins _finishing_agents under one lock; then    *)
(* the token is revoked and the handle popped, and whoever pops a handle   *)
(* starts the finish thread.                                               *)

ClaimAdd(a) == a \notin finishing /\ finishing' = finishing \cup {a}

(* Mutant: get instead of pop.                                             *)
ClaimPopKeepsHandle(a) == Revoke(a) /\ UNCHANGED handles

ClaimPop(a) ==
  /\ Revoke(a)
  /\ handles' = handles \ {a}

(* Mutant: the result of claim_finish is not looked at.                    *)
StartFinishUnclaimed(a) == fin' = [fin EXCEPT !["claimed"][a] = "start"]

StartFinish(a) ==
  fin' = IF a \in handles THEN [fin EXCEPT !["claimed"][a] = "start"] ELSE fin

(* A cycle of the monitor begins with one read of which tasks exist and    *)
(* which are completed; check_dep_violations goes by that read.            *)
MonBegin ==
  /\ mon.pc = "idle"
  /\ mon' = [mon EXCEPT !.pc = "begun", !.unmet = {t \in Tasks : blocked[t]}]
  /\ UNCHANGED <<agentVars, claimVars, taskVars, spawn, admitted, rec,
                 busVars, restarts>>

(* check_dep_violations, over the handles and the DB-active agents of      *)
(* tasks that have no handle.                                              *)
MonDep ==
  /\ mon.pc = "begun"
  /\ mon' = [mon EXCEPT !.pc = "dep", !.todo = handles \cup
       {a \in ActiveRows : \A b \in handles : taskOf[b] # taskOf[a]}]
  /\ UNCHANGED <<agentVars, claimVars, taskVars, spawn, admitted, rec,
                 busVars, restarts>>

(* The dependencies themselves are read now: one that was unmet may have   *)
(* been dropped, a new one may be of a task the read did not see.          *)
DepMet(a) ==
  /\ mon.pc = "dep" /\ a \in mon.todo
  /\ taskOf[a] \in mon.unmet => ~blocked[taskOf[a]]
  /\ mon' = [mon EXCEPT !.todo = @ \ {a}]
  /\ UNCHANGED <<agentVars, claimVars, taskVars, spawn, admitted, rec,
                 busVars, restarts>>

DepKill(a) ==
  /\ mon.pc = "dep" /\ a \in mon.todo
  /\ blocked[taskOf[a]] \/ taskOf[a] \in mon.unmet
  /\ proc' = Finished(a)
  /\ \/ ClaimAdd(a) /\ mon' = [mon EXCEPT !.pc = "depPop", !.cur = a]
     \/ /\ a \in finishing /\ UNCHANGED finishing
        /\ mon' = [mon EXCEPT !.pc = "depWrite", !.cur = a]
  /\ UNCHANGED <<token, row, taskOf, handles, fin, taskVars, spawn, admitted,
                 rec, busVars, restarts>>

DepPop ==
  /\ mon.pc = "depPop"
  /\ ClaimPop(mon.cur)
  /\ mon' = [mon EXCEPT !.pc = "depWrite"]
  /\ UNCHANGED <<proc, row, taskOf, finishing, fin, taskVars, spawn, admitted,
                 rec, busVars, restarts>>

(* The result of claim_finish is not looked at: the task is reset, the     *)
(* agent failed and the claim dropped whoever owns the teardown.  An       *)
(* exception skips the writes left, never the dropping of the claim.       *)
DepWrite ==
  LET a == mon.cur IN
  /\ mon.pc = "depWrite"
  /\ \/ ResetTask(taskOf[a]) /\ MarkRow(a, "failed") /\ Revoke(a)
     \/ /\ "faults" \in Features
        /\ ResetTask(taskOf[a]) \/ UNCHANGED taskVars
        /\ UNCHANGED <<row, token>>
  /\ finishing' = finishing \ {a}
  /\ mon' = [mon EXCEPT !.pc = "dep", !.todo = @ \ {a}, !.cur = NoAgent]
  /\ UNCHANGED <<proc, taskOf, handles, fin, spawn, admitted, rec,
                 busVars, restarts>>

(* check_agent_status: one snapshot of exited and timed-out handles.       *)
(* Mutant: only processes past their timeout are swept.                    *)
MonPollTimedOutOnly ==
  /\ mon.pc = "dep" /\ mon.todo = {}
  /\ \E timed \in SUBSET (handles \cap Running) :
       mon' = [mon EXCEPT !.pc = "sweep", !.todo = timed, !.unmet = {}]
  /\ UNCHANGED <<agentVars, claimVars, taskVars, spawn, admitted, rec,
                 busVars, restarts>>

MonPoll ==
  /\ mon.pc = "dep" /\ mon.todo = {}
  /\ \E timed \in SUBSET (handles \cap Running) :
       mon' = [mon EXCEPT !.pc = "sweep", !.unmet = {},
                          !.todo = (handles \ Running) \cup timed]
  /\ UNCHANGED <<agentVars, claimVars, taskVars, spawn, admitted, rec,
                 busVars, restarts>>

SweepClaim(a) ==
  /\ mon.pc = "sweep" /\ a \in mon.todo
  /\ proc' = Finished(a)
  /\ \/ ClaimAdd(a) /\ mon' = [mon EXCEPT !.pc = "sweepPop", !.cur = a]
     \/ /\ a \in finishing /\ UNCHANGED finishing
        /\ mon' = [mon EXCEPT !.todo = @ \ {a}]
  /\ UNCHANGED <<token, row, taskOf, handles, fin, taskVars, spawn, admitted,
                 rec, busVars, restarts>>

SweepPop ==
  /\ mon.pc = "sweepPop"
  /\ ClaimPop(mon.cur) /\ StartFinish(mon.cur)
  /\ mon' = [mon EXCEPT !.pc = "sweep", !.todo = @ \ {mon.cur}, !.cur = NoAgent]
  /\ UNCHANGED <<proc, row, taskOf, finishing, taskVars, spawn, admitted, rec,
                 busVars, restarts>>

MonRest ==
  /\ mon.pc = "fill" /\ ~(spawn.pc # "idle" /\ spawn.by = "monitor")
  /\ mon' = [mon EXCEPT !.pc = "idle", !.todo = {}]
  /\ UNCHANGED <<agentVars, claimVars, taskVars, spawn, admitted, rec,
                 busVars, restarts>>

-------------------------------------------------------------------------------
(* _on_agent_exited, on the dispatcher thread.                             *)

BusClaim(a) ==
  /\ "bus" \in Features /\ disp = NoAgent
  /\ proc[a] = "exited" /\ a \notin noticed
  /\ noticed' = noticed \cup {a}
  /\ \/ ClaimAdd(a) /\ disp' = a
     \/ a \in finishing /\ UNCHANGED <<finishing, disp>>
  /\ UNCHANGED <<agentVars, handles, fin, taskVars, spawn, admitted, mon,
                 rec, restarts>>

BusPop ==
  /\ disp # NoAgent
  /\ ClaimPop(disp) /\ StartFinish(disp)
  /\ disp' = NoAgent
  /\ UNCHANGED <<proc, row, taskOf, finishing, taskVars, spawn, admitted, mon,
                 rec, noticed, restarts>>

-------------------------------------------------------------------------------
(* _finish_agent, in the thread of start_finish_thread ("claimed") or of   *)
(* the reconciler ("orphan").                                              *)

FinGoto(k, a, pc) == fin' = [fin EXCEPT ![k][a] = pc]

(* Exit code, log and worktree decide success and the agent row is closed; *)
(* a continuation found in the log still makes a failed run a success.     *)
FinishMark(k, a) ==
  /\ fin[k][a] = "start"
  /\ \/ FinGoto(k, a, "ok") /\ MarkRow(a, "completed")
     \/ \E pc \in {"ok", "bad"} : FinGoto(k, a, pc) /\ MarkRow(a, "failed")
  /\ Revoke(a)
  /\ UNCHANGED <<proc, taskOf, handles, finishing, taskVars, spawn, admitted,
                 mon, rec, busVars, restarts>>

(* _phase_complete_task: unconditional.                                    *)
FinishComplete(k, a) ==
  /\ fin[k][a] = "ok"
  /\ status' = [status EXCEPT ![taskOf[a]] = "completed"]
  /\ FinGoto(k, a, "post")
  /\ UNCHANGED <<agentVars, handles, finishing, owner, attempts, blocked,
                 spawn, admitted, mon, rec, busVars, restarts>>

WriteTask(t, s, o, n, b) ==
  /\ status' = [status EXCEPT ![t] = s]
  /\ owner' = [owner EXCEPT ![t] = o]
  /\ attempts' = [attempts EXCEPT ![t] = n]
  /\ blocked' = [blocked EXCEPT ![t] = b]

(* _handle_task_failure: an infrastructure failure is not charged; below   *)
(* the limit the task is retried; at the limit it is failed, soft-         *)
(* completed, cancelled, or sent behind a research feeder.                 *)
handle_task_failure(t) ==
  LET n == attempts[t] + 1 IN
  \/ WriteTask(t, "pending", NoAgent, attempts[t], blocked[t])
  \/ n < MaxAttempts /\ WriteTask(t, "pending", NoAgent, n, blocked[t])
  \/ /\ n >= MaxAttempts
     /\ \/ \E s \in {"failed", "cancelled", "completed"} :
             WriteTask(t, s, owner[t], n, blocked[t])
        \/ WriteTask(t, "pending", NoAgent, 0, TRUE)

FinishFail(k, a) ==
  /\ fin[k][a] = "bad"
  /\ handle_task_failure(taskOf[a])
  /\ FinGoto(k, a, "release")
  /\ UNCHANGED <<agentVars, handles, finishing, spawn, admitted, mon, rec,
                 busVars, restarts>>

(* The post-completion pipeline may still turn the success into a failure. *)
FinishPost(k, a) ==
  /\ fin[k][a] = "post"
  /\ handle_task_failure(taskOf[a]) \/ UNCHANGED taskVars
  /\ FinGoto(k, a, "release")
  /\ UNCHANGED <<agentVars, handles, finishing, spawn, admitted, mon, rec,
                 busVars, restarts>>

(* Mutant: no discard when the thread ends.                                *)
FinishReleaseKeepsClaim(k, a) ==
  /\ fin[k][a] = "release"
  /\ FinGoto(k, a, "idle")
  /\ UNCHANGED <<agentVars, handles, finishing, taskVars, spawn, admitted, mon,
                 rec, busVars, restarts>>

FinishRelease(k, a) ==
  /\ fin[k][a] = "release"
  /\ FinGoto(k, a, "idle")
  /\ finishing' = IF k = "claimed" THEN finishing \ {a} ELSE finishing
  /\ UNCHANGED <<agentVars, handles, taskVars, spawn, admitted, mon, rec,
                 busVars, restarts>>

(* Mutant: the discard is not in a finally block.                          *)
FinishErrorNoFinally(a) ==
  /\ "faults" \in Features /\ fin["claimed"][a] \in {"start", "ok", "bad", "post"}
  /\ FinGoto("claimed", a, "idle")
  /\ UNCHANGED <<agentVars, handles, finishing, taskVars, spawn, admitted, mon,
                 rec, busVars, restarts>>

(* An exception in _finish_agent: start_finish_thread only prints it; the  *)
(* reconciler's thread forces agent and task out of the active states.     *)
FinishErrorClaimed(a) ==
  /\ "faults" \in Features /\ fin["claimed"][a] \in {"start", "ok", "bad", "post"}
  /\ FinGoto("claimed", a, "release")
  /\ UNCHANGED <<agentVars, handles, finishing, taskVars, spawn, admitted, mon,
                 rec, busVars, restarts>>

FinishErrorOrphan(a) ==
  /\ "faults" \in Features /\ fin["orphan"][a] \in {"start", "ok", "bad", "post"}
  /\ FinGoto("orphan", a, "idle")
  /\ MarkRow(a, "failed") /\ Revoke(a)
  /\ ResetIfInProgress(taskOf[a])
  /\ UNCHANGED <<proc, taskOf, handles, finishing, spawn, admitted, mon, rec,
                 busVars, restarts>>

-------------------------------------------------------------------------------
(* reconcile_agent_runtime_state.                                          *)

(* Mutant: the agents being finished are not skipped.                      *)
RecBeginForgetsFinishing(r) ==
  /\ rec[r].pc = "idle"
  /\ rec' = [rec EXCEPT ![r] = [pc |-> "keys", known |-> {},
                                todo |-> {}, prog |-> {}]]
  /\ UNCHANGED <<agentVars, claimVars, taskVars, spawn, admitted,
                 busVars, restarts>>

RecBegin(r) ==
  /\ rec[r].pc = "idle"
  /\ rec' = [rec EXCEPT ![r] = [pc |-> "keys", known |-> finishing,
                                todo |-> {}, prog |-> {}]]
  /\ UNCHANGED <<agentVars, claimVars, taskVars, spawn, admitted,
                 busVars, restarts>>

MonReconcile ==
  /\ mon.pc = "sweep" /\ mon.todo = {}
  /\ mon' = [mon EXCEPT !.pc = "reconcile"]
  /\ RecBegin("monitor")

ApiReconcile == "api" \in Reconcilers /\ RecBegin("api") /\ UNCHANGED mon

(* Mutant: the agents with a handle are not known.                         *)
RecKeysForgetsHandles(r) ==
  /\ rec[r].pc = "keys"
  /\ rec' = [rec EXCEPT ![r].pc = "handles",
                        ![r].todo = handles \ rec[r].known]
  /\ UNCHANGED <<agentVars, claimVars, taskVars, spawn, admitted, mon,
                 busVars, restarts>>

RecKeys(r) ==
  /\ rec[r].pc = "keys"
  /\ rec' = [rec EXCEPT ![r].pc = "handles",
                        ![r].todo = handles \ rec[r].known,
                        ![r].known = @ \cup handles]
  /\ UNCHANGED <<agentVars, claimVars, taskVars, spawn, admitted, mon,
                 busVars, restarts>>

RecVisited(r, a) == rec' = [rec EXCEPT ![r].todo = @ \ {a}]

(* A live handle whose agent owns its task is left alone.                  *)
RecHandleOk(r, a) ==
  /\ rec[r].pc = "handles" /\ a \in rec[r].todo
  /\ row[a] # "none" /\ active_agent_matches_task(a)
  /\ RecVisited(r, a)
  /\ UNCHANGED <<agentVars, claimVars, taskVars, spawn, admitted, mon,
                 busVars, restarts>>

(* Mutant: dropped without being killed.                                   *)
RecHandleNoRowSpared(r, a) ==
  /\ rec[r].pc = "handles" /\ a \in rec[r].todo
  /\ row[a] = "none"
  /\ handles' = handles \ {a}
  /\ RecVisited(r, a)
  /\ UNCHANGED <<proc, token, row, taskOf, finishing, fin, taskVars, spawn,
                 admitted, mon, busVars, restarts>>

(* One without a DB row is killed and dropped.                             *)
RecHandleNoRow(r, a) ==
  /\ rec[r].pc = "handles" /\ a \in rec[r].todo
  /\ row[a] = "none"
  /\ proc' = Finished(a) /\ handles' = handles \ {a}
  /\ RecVisited(r, a)
  /\ UNCHANGED <<token, row, taskOf, finishing, fin, taskVars, spawn, admitted,
                 mon, busVars, restarts>>

(* _fail_agent_and_repair_task; an exception skips the writes left.        *)
FailAgentAndRepairTask(a) ==
  \/ MarkRow(a, "failed") /\ Revoke(a) /\ ResetIfInProgress(taskOf[a])
  \/ /\ "faults" \in Features
     /\ (MarkRow(a, "failed") /\ Revoke(a)) \/ UNCHANGED <<row, token>>
     /\ UNCHANGED taskVars

(* One that does not own its task is killed, dropped and failed, and the   *)
(* task reset if it is in progress.                                        *)
RecHandleStale(r, a) ==
  /\ rec[r].pc = "handles" /\ a \in rec[r].todo
  /\ row[a] # "none" /\ ~active_agent_matches_task(a)
  /\ proc' = Finished(a) /\ handles' = handles \ {a}
  /\ FailAgentAndRepairTask(a)
  /\ RecVisited(r, a)
  /\ UNCHANGED <<taskOf, finishing, fin, spawn, admitted, mon,
                 busVars, restarts>>

RecRows(r) ==
  /\ rec[r].pc = "handles" /\ rec[r].todo = {}
  /\ rec' = [rec EXCEPT ![r].pc = "rows", ![r].todo = ActiveRows \ rec[r].known]
  /\ UNCHANGED <<agentVars, claimVars, taskVars, spawn, admitted, mon,
                 busVars, restarts>>

RecRowStale(r, a) ==
  /\ rec[r].pc = "rows" /\ a \in rec[r].todo
  /\ ~active_agent_matches_task(a)
  /\ FailAgentAndRepairTask(a)
  /\ RecVisited(r, a)
  /\ UNCHANGED <<proc, taskOf, claimVars, spawn, admitted, mon,
                 busVars, restarts>>

RecRowAlive(r, a) ==
  /\ rec[r].pc = "rows" /\ a \in rec[r].todo
  /\ active_agent_matches_task(a) /\ proc[a] = "running"
  /\ RecVisited(r, a)
  /\ UNCHANGED <<agentVars, claimVars, taskVars, spawn, admitted, mon,
                 busVars, restarts>>

(* Dead and not known: finished in a thread of the reconciler's own.       *)
RecRowDead(r, a) ==
  /\ rec[r].pc = "rows" /\ a \in rec[r].todo
  /\ active_agent_matches_task(a) /\ proc[a] # "running"
  /\ fin' = IF fin["orphan"][a] = "idle"
            THEN [fin EXCEPT !["orphan"][a] = "start"] ELSE fin
  /\ RecVisited(r, a)
  /\ UNCHANGED <<agentVars, handles, finishing, taskVars, spawn, admitted, mon,
                 busVars, restarts>>

(* The watchdog reads the in-progress tasks, then the active agents, then  *)
(* resets every task whose owner is not among them.                        *)
RecInProgress(r) ==
  /\ rec[r].pc = "rows" /\ rec[r].todo = {}
  /\ rec' = [rec EXCEPT ![r].pc = "watch", ![r].prog =
       {<<t, owner[t]>> : t \in {u \in Tasks : status[u] = "in_progress"}}]
  /\ UNCHANGED <<agentVars, claimVars, taskVars, spawn, admitted, mon,
                 busVars, restarts>>

RecWatch(r) ==
  /\ rec[r].pc = "watch"
  /\ rec' = [rec EXCEPT ![r].pc = "reset", ![r].prog =
       {p \in @ : \A a \in ActiveRows : ~(taskOf[a] = p[1] /\ a = p[2])}]
  /\ UNCHANGED <<agentVars, claimVars, taskVars, spawn, admitted, mon,
                 busVars, restarts>>

RecReset(r, p) ==
  /\ rec[r].pc = "reset" /\ p \in rec[r].prog
  /\ ResetTask(p[1])
  /\ rec' = [rec EXCEPT ![r].prog = @ \ {p}]
  /\ UNCHANGED <<agentVars, claimVars, spawn, admitted, mon,
                 busVars, restarts>>

(* prune_history deletes the rows of agents that are not active.           *)
RecDone(r) ==
  /\ rec[r].pc = "reset" /\ rec[r].prog = {}
  /\ row' = [a \in Agents |-> IF row[a] = "active" THEN "active" ELSE "none"]
  /\ rec' = [rec EXCEPT ![r].pc = "idle", ![r].known = {}]
  /\ mon' = IF r = "monitor" THEN [mon EXCEPT !.pc = "fill"] ELSE mon
  /\ UNCHANGED <<proc, token, taskOf, claimVars, taskVars, spawn, admitted,
                 busVars, restarts>>

Reconcile(r) ==
  \/ RecKeys(r) \/ RecRows(r) \/ RecInProgress(r) \/ RecWatch(r) \/ RecDone(r)
  \/ \E a \in Agents :
       \/ RecHandleOk(r, a) \/ RecHandleNoRow(r, a) \/ RecHandleStale(r, a)
       \/ RecRowStale(r, a) \/ RecRowAlive(r, a) \/ RecRowDead(r, a)
  \/ \E p \in rec[r].prog : RecReset(r, p)

-------------------------------------------------------------------------------
(* The world outside: processes, operators, and restarts.                  *)

ProcessExit(a) ==
  /\ proc[a] = "running"
  /\ proc' = Finished(a)
  /\ UNCHANGED <<token, row, taskOf, claimVars, taskVars, spawn, admitted, mon,
                 rec, busVars, restarts>>

(* POST /api/spawn, whose capacity check "force" skips: a task that is not *)
(* pending is forced to it by an upsert of the whole row, which keeps its  *)
(* agent_id.                                                               *)
ApiSpawn(t) ==
  /\ "api" \in Features /\ t \notin admitted
  /\ status[t] \notin {"in_progress", "cancelled"} /\ ~blocked[t]
  /\ status' = [status EXCEPT ![t] = "pending"]
  /\ admitted' = admitted \cup {t}
  /\ UNCHANGED <<agentVars, claimVars, owner, attempts, blocked, spawn, mon, rec,
                 busVars, restarts>>

ApiCancel(t) ==
  /\ "api" \in Features /\ status[t] \in {"pending", "in_progress"}
  /\ status' = [status EXCEPT ![t] = "cancelled"]
  /\ UNCHANGED <<agentVars, claimVars, owner, attempts, blocked, spawn, admitted,
                 mon, rec, busVars, restarts>>

(* POST /api/kill: with a handle only the process is killed; without one   *)
(* the agent row is failed and the task reset as well (when the process is *)
(* gone already: taskkill goes on, os.kill raises and nothing happens).    *)
ApiKill(a) ==
  /\ "api" \in Features
  /\ proc' = Finished(a)
  /\ \/ a \in handles /\ UNCHANGED <<token, row, taskVars>>
     \/ /\ a \notin handles /\ row[a] # "none"
        /\ MarkRow(a, "failed") /\ Revoke(a) /\ ResetTask(taskOf[a])
  /\ UNCHANGED <<taskOf, claimVars, spawn, admitted, mon, rec,
                 busVars, restarts>>

(* A dependency of the task is added while it is live, or completes.       *)
DependencyAdded(t) ==
  /\ "deps" \in Features /\ ~blocked[t]
  /\ blocked' = [blocked EXCEPT ![t] = TRUE]
  /\ UNCHANGED <<agentVars, claimVars, status, owner, attempts, spawn, admitted,
                 mon, rec, busVars, restarts>>

DependencyMet(t) ==
  /\ blocked[t]
  /\ blocked' = [blocked EXCEPT ![t] = FALSE]
  /\ UNCHANGED <<agentVars, claimVars, status, owner, attempts, spawn, admitted,
                 mon, rec, busVars, restarts>>

(* The controller dies and a new one starts: threads, handles and queued   *)
(* events are gone, processes and the database stay.  _handle_startup_     *)
(* orphans fails the agents past their timeout and resets their tasks; the *)
(* processes are left alone.                                               *)
Restart ==
  /\ restarts < MaxRestarts /\ restarts' = restarts + 1
  /\ handles' = {} /\ finishing' = {} /\ admitted' = {}
  /\ fin' = [k \in Kinds |-> [a \in Agents |-> "idle"]]
  /\ spawn' = [pc |-> "idle", agent |-> NoAgent, by |-> "monitor"]
  /\ mon' = MonIdle
  /\ rec' = [r \in Reconcilers |->
               [pc |-> "idle", known |-> {}, todo |-> {}, prog |-> {}]]
  /\ disp' = NoAgent
  /\ noticed' = {a \in Agents : taskOf[a] # NoTask}
  /\ \E old \in SUBSET ActiveRows :
       LET reset == {taskOf[a] : a \in old} IN
       /\ row' = [a \in Agents |-> IF a \in old THEN "failed" ELSE row[a]]
       /\ token' = [a \in Agents |-> IF a \in old /\ token[a] = "live"
                                     THEN "revoked" ELSE token[a]]
       /\ status' = [t \in Tasks |-> IF t \in reset THEN "pending" ELSE status[t]]
       /\ owner' = [t \in Tasks |-> IF t \in reset THEN NoAgent ELSE owner[t]]
  /\ UNCHANGED <<proc, taskOf, attempts, blocked>>

-------------------------------------------------------------------------------
Spawner ==
  \/ SpawnProcess \/ SpawnRow \/ SpawnOwn \/ SpawnError
  \/ \E t \in Tasks :
       \/ ApiSpawnRefused(t)
       \/ \E a \in Agents : FillSlots(t, a) \/ ApiFill(t, a) \/ ApiSpawnRun(t, a)

Monitor ==
  \/ MonBegin \/ MonDep \/ DepPop \/ DepWrite \/ MonPoll \/ SweepPop
  \/ MonReconcile \/ MonRest
  \/ \E a \in Agents : DepMet(a) \/ DepKill(a) \/ SweepClaim(a)

Dispatcher == BusPop \/ \E a \in Agents : BusClaim(a)

FinishThread(k, a) ==
  \/ FinishMark(k, a) \/ FinishComplete(k, a) \/ FinishFail(k, a)
  \/ FinishPost(k, a) \/ FinishRelease(k, a)

Faults == \E a \in Agents : FinishErrorClaimed(a) \/ FinishErrorOrphan(a)

Operator ==
  \/ ApiReconcile
  \/ \E t \in Tasks :
       ApiSpawn(t) \/ ApiCancel(t) \/ DependencyAdded(t) \/ DependencyMet(t)
  \/ \E a \in Agents : ApiKill(a)

Next ==
  \/ Spawner \/ Monitor \/ Dispatcher \/ Faults \/ Operator \/ Restart
  \/ \E k \in Kinds, a \in Agents : FinishThread(k, a)
  \/ \E r \in Reconcilers : Reconcile(r)
  \/ \E a \in Agents : ProcessExit(a)

Spec == Init /\ [][Next]_vars

(* Fairness: the monitor is one thread, which also reconciles between its  *)
(* steps; a spawn_agent call runs to its end; every finish thread, the     *)
(* dispatcher and a reconcile request are threads; and a process ends,     *)
(* since the sweep kills it once AGENT_TIMEOUT has passed.                 *)
Fairness ==
  /\ WF_vars(Monitor \/ Reconcile("monitor"))
  /\ WF_vars(SpawnProcess \/ SpawnRow \/ SpawnOwn)
  /\ WF_vars(Dispatcher)
  /\ \A r \in Reconcilers : WF_vars(Reconcile(r))
  /\ \A k \in Kinds, a \in Agents : WF_vars(FinishThread(k, a))
  /\ \A a \in Agents : WF_vars(ProcessExit(a))

LiveSpec == Spec /\ Fairness

-------------------------------------------------------------------------------
(* The types of the state.                                                 *)
MonPcs == {"idle", "begun", "dep", "depPop", "depWrite", "sweep", "sweepPop",
           "reconcile", "fill"}
RecPcs == {"idle", "keys", "handles", "rows", "watch", "reset"}

AgentTypes ==
  /\ proc \in [Agents -> {"unborn", "running", "exited"}]
  /\ token \in [Agents -> {"none", "live", "revoked"}]
  /\ row \in [Agents -> {"none", "active", "completed", "failed"}]
  /\ taskOf \in [Agents -> Tasks \cup {NoTask}]
  /\ noticed \subseteq Agents

ClaimTypes ==
  /\ handles \subseteq Agents /\ finishing \subseteq Agents
  /\ fin \in [Kinds -> [Agents -> FinPcs]]
  /\ disp \in Agents \cup {NoAgent}

TaskTypes ==
  /\ status \in [Tasks -> Statuses]
  /\ owner \in [Tasks -> Agents \cup {NoAgent}]
  /\ attempts \in [Tasks -> Nat]
  /\ blocked \in [Tasks -> BOOLEAN]
  /\ admitted \subseteq Tasks

SpawnTypes ==
  /\ spawn \in [pc : {"idle", "checked", "handled", "rowed"},
                agent : Agents \cup {NoAgent}, by : {"monitor", "api"}]
  /\ spawn.pc # "idle" => spawn.agent \in Agents

MonTypes ==
  /\ mon \in [pc : MonPcs, todo : SUBSET Agents, cur : Agents \cup {NoAgent},
              unmet : SUBSET Tasks]
  /\ mon.pc \in {"depPop", "depWrite", "sweepPop"} => mon.cur \in Agents

RecStates == [pc : RecPcs, known : SUBSET Agents, todo : SUBSET Agents,
              prog : SUBSET (Tasks \X (Agents \cup {NoAgent}))]

RecTypes == rec \in [Reconcilers -> RecStates]

TypeOK ==
  /\ AgentTypes /\ ClaimTypes /\ TaskTypes
  /\ SpawnTypes /\ MonTypes /\ RecTypes
  /\ restarts \in 0..MaxRestarts

(* The lifecycle implements the teardown promise of claim_finish: one path *)
(* gets an agent's handle, so at most one finish thread is ever started    *)
(* for it, whatever the sweep, the dispatcher, the dependency check, the   *)
(* reconciler, the operators and a restart do in between.                  *)
PhaseOf(a) ==
  IF proc[a] = "unborn" THEN "unborn"
  ELSE IF a \in handles THEN "supervised"
  ELSE IF fin["claimed"][a] # "idle" THEN "tearing" ELSE "torn"

phase == [a \in Agents |-> PhaseOf(a)]

Teardown == INSTANCE AgentTeardown
TeardownSpec == Teardown!Spec

(* Before its process starts an agent has left no trace but its task ...   *)
UnbornIsBare ==
  \A a \in Agents :
    /\ taskOf[a] = NoTask => proc[a] = "unborn"
    /\ proc[a] = "unborn" =>
         a \notin handles /\ row[a] = "none" /\ fin["claimed"][a] = "idle"

(* ... and the spawn in progress is about such an agent until the process  *)
(* and the handle are there.                                               *)
SpawnStages ==
  spawn.pc # "idle" =>
    /\ taskOf[spawn.agent] # NoTask
    /\ spawn.pc = "checked" <=> proc[spawn.agent] = "unborn"

(* An agent whose finish thread runs has no handle and no live token:      *)
(* whatever the sweep, the dispatcher, the dependency check, the           *)
(* reconciler and a restart do, claim_finish hands the handle out once.    *)
ClaimExclusive ==
  \A a \in Agents : fin["claimed"][a] # "idle" =>
    a \notin handles /\ token[a] # "live"

(* A closed agents row never comes with a live API token: every path that  *)
(* closes the row revokes the token with it (agent_update_status).         *)
ClosedRowTokenDead ==
  \A a \in Agents : row[a] \in {"completed", "failed"} => token[a] # "live"

(* Two processes never work on one task at a time.                         *)
OneProcessPerTask ==
  \A a, b \in Running : taskOf[a] = taskOf[b] => a = b

(* The agent processes never outnumber MAX_ACTIVE_AGENTS: get_active_count *)
(* errs on the high side while agents exit and are finished.               *)
RunningWithinCap == Cardinality(Running) <= MaxActive

(* Every agent process has a handle, so the sweep will see it exit.        *)
RunningIsSupervised == Running \subseteq handles

(* An agent is finished by one _finish_agent at a time: the reconciler     *)
(* starts none for an agent the sweep handed to a finish thread.           *)
NeverFinishedTwice ==
  \A a \in Agents : fin["claimed"][a] = "idle" \/ fin["orphan"][a] = "idle"

(* A claim is always on its way to being released: the agent is between    *)
(* claim_finish's two sections, being killed, or in its finish thread.     *)
ClaimIsHeld ==
  \A a \in finishing :
    \/ fin["claimed"][a] # "idle"
    \/ mon.cur = a /\ mon.pc \in {"depPop", "depWrite", "sweepPop"}
    \/ disp = a

(* A task is not charged more attempts than agents of it were finished.    *)
Ended(a) == proc[a] = "exited" /\ a \notin handles
ChargedOncePerAgent ==
  \A t \in Tasks :
    attempts[t] <= Cardinality({a \in Agents : taskOf[a] = t /\ Ended(a)})

(* Work that is handed to a task is never lost sight of: an agent whose    *)
(* process ended leaves the active agents, and so a slot comes free.       *)
ExitedIsClosed == \A a \in Agents :
  proc[a] = "exited" ~> row[a] # "active" /\ token[a] # "live"

(* An in-progress task does not stay so for ever: it ends or is retried.   *)
TaskIsReleased == \A t \in Tasks :
  status[t] = "in_progress" ~> status[t] # "in_progress"

(* A claimed teardown is released.                                         *)
ClaimIsReleased == \A a \in Agents : a \in finishing ~> a \notin finishing

(* The dependency check kills only agents whose task has an unmet          *)
(* dependency: "any running agent whose task dependencies are not yet      *)
(* satisfied".                                                             *)
DepKillIsJustified ==
  [][\A a \in Agents : DepKill(a) => blocked[taskOf[a]]]_vars
===============================================================================
