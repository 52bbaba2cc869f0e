------------------------------ MODULE Containment ------------------------------
(***************************************************************************)
(* The containment breaker and the threads it shares agents and auto-mode  *)
(* with.  The monitor counts the guard-blocked calls of finished agents    *)
(* (their signals rows) and of running ones (their logs); at the threshold *)
(* it holds the offenders' tasks, stops their processes and suspends       *)
(* auto-mode.  An operator acknowledges the trip by re-enabling auto-mode   *)
(* and releases the held tasks one by one.  Beside them the quota watcher  *)
(* stops and continues every agent, finish threads rewrite task rows and   *)
(* write the signals rows late, and the controller may restart.            *)
(*                                                                         *)
(* A step is a database write with the read right before it, a section     *)
(* under a lock, or a signal sent.  Of a task's metadata only the hold is   *)
(* kept: whether it is set, whose run it is about, the calls counted then   *)
(* and when it tripped.  Moments are told apart only by the number of      *)
(* acknowledgements begun before them.                                     *)
(***************************************************************************)
EXTENDS Integers, FiniteSets, FiniteSetsExt

CONSTANTS
  Agents,       \* agent ids, a fresh one for every run
  Tasks,
  NoAgent, NoTask,
  Threshold,    \* containment_spike_threshold
  MaxBlocked,   \* bound on the blocked calls of an agent
  MaxRequests,  \* bound on the operator's requests
  MaxQuota,     \* bound on how often the quota runs out
  MaxRestarts   \* bound on controller restarts

ASSUME ConstantsAssumption ==
  /\ NoAgent \notin Agents /\ NoTask \notin Tasks
  /\ Threshold \in Nat \ {0} /\ MaxBlocked \in Nat
  /\ MaxRequests \in Nat /\ MaxQuota \in Nat /\ MaxRestarts \in Nat

VARIABLES
  proc,     \* "unborn", "running", "stopped" (SIGSTOP) or "exited"
  row,      \* agents.status: "none", "active", "closed"
  taskOf,   \* the task an agent was spawned for
  handles,  \* keys of _active_handles
  frozen,   \* handles flagged FROZEN_KEY
  blocked,  \* "[GUARD] blocked" lines in the agent's log
  signals,  \* agents with an agent_signals row
  out,      \* those of them whose row is before check's cutoff
  fin,      \* where the finish thread of each agent is
  snap,     \* the task metadata it read
  status,   \* tasks.status: "pending", "busy", "done"
  meta,     \* tasks.metadata, the containment keys
  auto,     \* auto_mode_state
  config,   \* config.json: auto_mode_enabled, containment_ack_at and _counts
  acks,     \* acknowledgements begun
  requests, \* requests made
  mon,      \* the monitor thread
  op,       \* the operator's request in progress
  quota,    \* the quota watcher, and whether the quota is used up
  restarts

vars == <<proc, row, taskOf, handles, frozen, blocked, signals, out, fin, snap,
          status, meta, auto, config, acks, requests, mon, op, quota, restarts>>
procVars == <<proc, row, taskOf, handles, frozen>>
logVars == <<blocked, signals, out>>
finVars == <<fin, snap>>
taskVars == <<status, meta>>
ctlVars == <<auto, config, acks, requests>>
threadVars == <<mon, op, quota, restarts>>

NoHold == [held |-> FALSE, agent |-> NoAgent, seen |-> 0, epoch |-> 0]
Hold == [held : BOOLEAN, agent : Agents \cup {NoAgent},
         seen : 0..MaxBlocked, epoch : 0..MaxRequests]

MonPcs == {"idle", "scan", "flag", "freeze", "mark", "gate", "spawn"}
MonIdle == [pc |-> "idle", found |-> {}, todo |-> {}, live |-> {},
            epoch |-> 0, task |-> NoTask]
OpPcs == {"idle", "snapshot", "config", "fill", "spawn", "thaw", "unmark"}
OpIdle == [pc |-> "idle", known |-> {}, counts |-> [a \in Agents |-> 0],
           task |-> NoTask, agent |-> NoAgent]
FinPcs == {"idle", "closed", "write", "signals", "done"}

is_held(t) == meta[t].held

Init ==
  /\ proc = [a \in Agents |-> "unborn"]
  /\ row = [a \in Agents |-> "none"]
  /\ taskOf = [a \in Agents |-> NoTask]
  /\ handles = {} /\ frozen = {}
  /\ blocked = [a \in Agents |-> 0] /\ signals = {} /\ out = {}
  /\ fin = [a \in Agents |-> "idle"] /\ snap = [a \in Agents |-> NoHold]
  /\ status = [t \in Tasks |-> "pending"]
  /\ meta = [t \in Tasks |-> NoHold]
  /\ auto = [enabled |-> TRUE, quota |-> FALSE, contain |-> FALSE,
             userOff |-> FALSE]
  /\ config = [enabled |-> TRUE, ack |-> 0, counts |-> [a \in Agents |-> 0]]
  /\ acks = 0 /\ requests = 0
  /\ mon = MonIdle /\ op = OpIdle
  /\ quota = [over |-> FALSE, left |-> MaxQuota, stopped |-> FALSE,
              pc |-> "idle", pids |-> {}]
  /\ restarts = 0

-------------------------------------------------------------------------------
(* Agents.                                                                 *)

(* spawn_agent for a task it finds pending and without an active agent.    *)
SpawnAgent(t, a) ==
  /\ proc[a] = "unborn" /\ status[t] = "pending"
  /\ \A b \in Agents : row[b] = "active" => taskOf[b] # t
  /\ proc' = [proc EXCEPT ![a] = "running"]
  /\ row' = [row EXCEPT ![a] = "active"]
  /\ taskOf' = [taskOf EXCEPT ![a] = t]
  /\ handles' = handles \cup {a}
  /\ status' = [status EXCEPT ![t] = "busy"]
  /\ UNCHANGED <<frozen, meta>>

(* The call of spawn_agent that comes back without an agent.               *)
SpawnRefused(t) ==
  /\ \/ status[t] # "pending"
     \/ \E b \in Agents : row[b] = "active" /\ taskOf[b] = t
     \/ \A a \in Agents : proc[a] # "unborn"
  /\ UNCHANGED <<procVars, taskVars>>

Block(a) ==
  /\ proc[a] = "running" /\ blocked[a] < MaxBlocked
  /\ blocked' = [blocked EXCEPT ![a] = @ + 1]
  /\ UNCHANGED <<procVars, signals, out, finVars, taskVars, ctlVars, threadVars>>

Exit(a) ==
  /\ proc[a] = "running"
  /\ proc' = [proc EXCEPT ![a] = "exited"]
  /\ UNCHANGED <<row, taskOf, handles, frozen, logVars, finVars, taskVars,
                 ctlVars, threadVars>>

(* The watchdog: the timeout, and the absolute deadline that also ends an  *)
(* agent the quota watcher stopped.  A flagged handle is left alone.       *)
Timeout(a) ==
  /\ mon.pc = "idle"
  /\ a \in handles \ frozen /\ proc[a] \in {"running", "stopped"}
  /\ proc' = [proc EXCEPT ![a] = "exited"]
  /\ UNCHANGED <<row, taskOf, handles, frozen, logVars, finVars, taskVars,
                 ctlVars, threadVars>>

(* _finish_agent, up to phase 4: the handle is gone and the row closed.    *)
FinishClose(a) ==
  /\ proc[a] = "exited" /\ row[a] = "active" /\ fin[a] = "idle"
  /\ row' = [row EXCEPT ![a] = "closed"]
  /\ handles' = handles \ {a} /\ frozen' = frozen \ {a}
  /\ fin' = [fin EXCEPT ![a] = "closed"]
  /\ UNCHANGED <<proc, taskOf, logVars, snap, taskVars, ctlVars, threadVars>>

(* Phase 5 reads the task row ...                                          *)
FinishRead(a) ==
  /\ fin[a] = "closed"
  /\ snap' = [snap EXCEPT ![a] = meta[taskOf[a]]]
  /\ fin' = [fin EXCEPT ![a] = "write"]
  /\ UNCHANGED <<procVars, logVars, taskVars, ctlVars, threadVars>>

(* ... and writes it back: the completion evidence and the retry write the *)
(* metadata they read, an exhausted task only gets a new status.           *)
FinishWrite(a) ==
  LET t == taskOf[a]
  IN  /\ fin[a] = "write"
      /\ \/ /\ \E s \in {"pending", "done"} : status' = [status EXCEPT ![t] = s]
            /\ meta' = [meta EXCEPT ![t] = snap[a]]
         \/ /\ status' = [status EXCEPT ![t] = "done"]
            /\ UNCHANGED meta
      /\ fin' = [fin EXCEPT ![a] = "signals"]
      /\ snap' = [snap EXCEPT ![a] = NoHold]
      /\ UNCHANGED <<procVars, logVars, ctlVars, threadVars>>

(* Phase 6c: only now is there a signals row.                              *)
FinishSignals(a) ==
  /\ fin[a] = "signals"
  /\ signals' = signals \cup {a}
  /\ fin' = [fin EXCEPT ![a] = "done"]
  /\ UNCHANGED <<procVars, blocked, out, snap, taskVars, ctlVars, threadVars>>

(* The window of the breaker moves past a row.                             *)
Expire(a) ==
  /\ a \in signals \ out
  /\ out' = out \cup {a}
  /\ UNCHANGED <<procVars, blocked, signals, finVars, taskVars, ctlVars,
                 threadVars>>

-------------------------------------------------------------------------------
(* The monitor: _containment_tick, then the scheduling of the same cycle.  *)

TickBegin ==
  /\ mon.pc = "idle"
  /\ mon' = [MonIdle EXCEPT !.pc = "scan", !.found = signals \ out, !.epoch = acks]
  /\ UNCHANGED <<procVars, logVars, finVars, taskVars, ctlVars, op, quota,
                 restarts>>

_reviewed_counts(a) ==
  LET m == meta[taskOf[a]]
      held == IF m.agent = a THEN m.seen ELSE 0
  IN  IF held > config.counts[a] THEN held ELSE config.counts[a]

_unreviewed(a) ==
  IF blocked[a] > _reviewed_counts(a) THEN blocked[a] - _reviewed_counts(a) ELSE 0

(* Mutant: a running agent is invisible until it exited.                   *)
finishedOnly(known) == {}

_live_rows(known) == {a \in Agents \ known : row[a] = "active"}

(* The rest of check: the live rows, what is unreviewed, the decision.     *)
TickEvaluate ==
  LET rows == mon.found \cup _live_rows(mon.found)
      offenders == {a \in rows : _unreviewed(a) > 0}
      total == MapThenSumSet(_unreviewed, offenders)
  IN  /\ mon.pc = "scan"
      /\ mon' = IF total >= Threshold
                  THEN [mon EXCEPT !.pc = "flag", !.todo = offenders,
                                   !.found = {}, !.live = offenders \ mon.found]
                  ELSE [MonIdle EXCEPT !.pc = "gate"]
      /\ UNCHANGED <<procVars, logVars, finVars, taskVars, ctlVars, op, quota,
                     restarts>>

(* flag_tasks, one offender: its task goes on hold unless it is held for   *)
(* this very run.                                                          *)
TickFlag(a) ==
  LET t == taskOf[a]
  IN  /\ mon.pc = "flag" /\ a \in mon.todo
      /\ meta' = IF is_held(t) /\ meta[t].agent = a THEN meta
                 ELSE [meta EXCEPT ![t] = [held |-> TRUE, agent |-> a,
                                          seen |-> blocked[a], epoch |-> mon.epoch]]
      /\ mon' = [mon EXCEPT !.todo = @ \ {a},
                            !.pc = IF mon.todo = {a} THEN "freeze" ELSE @]
      /\ UNCHANGED <<procVars, logVars, finVars, status, ctlVars, op, quota,
                     restarts>>

(* freeze_agent: SIGSTOP to an offender that still runs ...                *)
FreezeSignal(a) ==
  /\ mon.pc = "freeze" /\ a \in mon.live
  /\ IF row[a] = "active" /\ proc[a] # "exited"
       THEN /\ proc' = [proc EXCEPT ![a] = "stopped"]
            /\ mon' = [mon EXCEPT !.pc = "mark", !.todo = {a}]
       ELSE /\ mon' = [mon EXCEPT !.live = @ \ {a}]
            /\ UNCHANGED proc
  /\ UNCHANGED <<row, taskOf, handles, frozen, logVars, finVars, taskVars,
                 ctlVars, op, quota, restarts>>

(* ... and then, if it has a handle, the flag the quota watcher respects.  *)
FreezeMark ==
  /\ mon.pc = "mark"
  /\ frozen' = frozen \cup (mon.todo \cap handles)
  /\ mon' = [mon EXCEPT !.pc = "freeze", !.todo = {}, !.live = @ \ mon.todo]
  /\ UNCHANGED <<proc, row, taskOf, handles, logVars, finVars, taskVars, ctlVars,
                 op, quota, restarts>>

(* Auto-mode off, persistently for the first trip of a suspension.         *)
TickSuspend ==
  /\ mon.pc = "freeze" /\ mon.live = {}
  /\ auto' = [auto EXCEPT !.contain = TRUE, !.enabled = FALSE]
  /\ config' = IF auto.contain THEN config ELSE [config EXCEPT !.enabled = FALSE]
  /\ mon' = [MonIdle EXCEPT !.pc = "gate"]
  /\ UNCHANGED <<procVars, logVars, finVars, taskVars, acks, requests, op, quota,
                 restarts>>

(* Mutant: the hold is not looked at.                                      *)
SelectableHeld(t) == status[t] = "pending"

(* fill_slots picks under _fill_slots_lock a pending task that is not held.*)
Selectable(t) == status[t] = "pending" /\ ~is_held(t)

SlotsFree == mon.pc # "spawn" /\ op.pc # "spawn"

MonSelect ==
  /\ mon.pc = "gate"
  /\ \/ /\ ~auto.quota /\ ~auto.contain /\ auto.enabled /\ SlotsFree
        /\ \E t \in Tasks :
             Selectable(t) /\ mon' = [MonIdle EXCEPT !.pc = "spawn", !.task = t]
     \/ /\ (auto.quota \/ auto.contain \/ ~auto.enabled \/ \A t \in Tasks : ~Selectable(t))
        /\ mon' = MonIdle
  /\ UNCHANGED <<procVars, logVars, finVars, taskVars, ctlVars, op, quota,
                 restarts>>

MonSpawn ==
  /\ mon.pc = "spawn"
  /\ (\E a \in Agents : SpawnAgent(mon.task, a)) \/ SpawnRefused(mon.task)
  /\ mon' = MonIdle
  /\ UNCHANGED <<logVars, finVars, ctlVars, op, quota, restarts>>

-------------------------------------------------------------------------------
(* The operator's requests.                                                *)

NewRequest == requests < MaxRequests /\ requests' = requests + 1

(* set_auto_mode, the section under the lock.                              *)
AutoOn ==
  /\ op.pc = "idle" /\ NewRequest
  /\ auto' = [enabled |-> TRUE, quota |-> FALSE, contain |-> FALSE,
              userOff |-> FALSE]
  /\ IF auto.contain
       THEN /\ acks < MaxRequests
            /\ acks' = acks + 1
            /\ op' = [OpIdle EXCEPT !.pc = "snapshot", !.known = signals]
            /\ UNCHANGED config
       ELSE /\ config' = [config EXCEPT !.enabled = TRUE]
            /\ op' = [OpIdle EXCEPT !.pc = "fill"]
            /\ UNCHANGED acks
  /\ UNCHANGED <<procVars, logVars, finVars, taskVars, mon, quota, restarts>>

AutoOff ==
  /\ op.pc = "idle" /\ NewRequest
  /\ auto' = [auto EXCEPT !.enabled = FALSE, !.quota = FALSE, !.userOff = TRUE]
  /\ config' = [config EXCEPT !.enabled = FALSE]
  /\ UNCHANGED <<procVars, logVars, finVars, taskVars, acks, threadVars>>

(* ack_snapshot: the counts in the logs of the active agents.              *)
AckSnapshot ==
  /\ op.pc = "snapshot"
  /\ op' = [op EXCEPT !.pc = "config",
              !.counts = [a \in Agents |-> IF row[a] = "active" THEN blocked[a] ELSE 0]]
  /\ UNCHANGED <<procVars, logVars, finVars, taskVars, ctlVars, mon, quota, restarts>>

(* The acknowledgement in config and config.json; rows written before it   *)
(* began fall behind the cutoff.                                           *)
AckConfig ==
  /\ op.pc = "config"
  /\ config' = [enabled |-> TRUE, ack |-> acks, counts |-> op.counts]
  /\ out' = out \cup op.known
  /\ op' = [OpIdle EXCEPT !.pc = "fill"]
  /\ UNCHANGED <<procVars, blocked, signals, finVars, taskVars, auto, acks, requests,
                 mon, quota, restarts>>

(* fill_slots at the end of the request: auto-mode is not looked at again. *)
OpSelect ==
  /\ op.pc = "fill"
  /\ \/ /\ SlotsFree
        /\ \E t \in Tasks :
             Selectable(t) /\ op' = [OpIdle EXCEPT !.pc = "spawn", !.task = t]
     \/ (\A t \in Tasks : ~Selectable(t)) /\ op' = OpIdle
  /\ UNCHANGED <<procVars, logVars, finVars, taskVars, ctlVars, mon, quota, restarts>>

(* The spawn route for a task: not while it runs or is held; a finished    *)
(* task is first made pending again.                                       *)
SpawnRoute(t) ==
  /\ op.pc = "idle" /\ SlotsFree /\ NewRequest
  /\ status[t] # "busy" /\ ~is_held(t)
  /\ status' = [status EXCEPT ![t] = "pending"]
  /\ op' = [OpIdle EXCEPT !.pc = "spawn", !.task = t]
  /\ UNCHANGED <<procVars, logVars, finVars, meta, auto, config, acks, mon, quota,
                 restarts>>

OpSpawn ==
  /\ op.pc = "spawn"
  /\ (\E a \in Agents : SpawnAgent(op.task, a)) \/ SpawnRefused(op.task)
  /\ op' = OpIdle
  /\ UNCHANGED <<logVars, finVars, ctlVars, mon, quota, restarts>>

(* release: the hold goes, the reviewed counts stay; then the agent thaws. *)
Release(t) ==
  /\ op.pc = "idle" /\ meta[t].agent # NoAgent /\ NewRequest
  /\ meta' = [meta EXCEPT ![t].held = FALSE]
  /\ op' = [OpIdle EXCEPT !.pc = "thaw", !.agent = meta[t].agent]
  /\ UNCHANGED <<procVars, logVars, finVars, status, auto, config, acks, mon, quota,
                 restarts>>

(* Mutant: SIGCONT is not sent.                                            *)
ContinueNone(S) == UNCHANGED proc

(* SIGCONT to the processes of S.                                          *)
Continue(S) ==
  proc' = [a \in Agents |-> IF a \in S /\ proc[a] = "stopped" THEN "running" ELSE proc[a]]

(* thaw_agent: SIGCONT, if there is a handle or an active row ...          *)
Thaw ==
  /\ op.pc = "thaw"
  /\ Continue({op.agent} \cap {a \in Agents : row[a] = "active"})
  /\ op' = [op EXCEPT !.pc = "unmark"]
  /\ UNCHANGED <<row, taskOf, handles, frozen, logVars, finVars, taskVars,
                 ctlVars, mon, quota, restarts>>

(* ... and then the flag goes.                                             *)
Unmark ==
  /\ op.pc = "unmark"
  /\ frozen' = frozen \ {op.agent}
  /\ op' = OpIdle
  /\ UNCHANGED <<proc, row, taskOf, handles, logVars, finVars, taskVars, ctlVars,
                 mon, quota, restarts>>

(* The chat's set_auto_mode action leaves the suspension as it is.         *)
ChatAutoMode(on) ==
  /\ auto.enabled # on /\ NewRequest
  /\ auto' = [auto EXCEPT !.enabled = on, !.quota = @ /\ on]
  /\ UNCHANGED <<procVars, logVars, finVars, taskVars, config, acks, threadVars>>

-------------------------------------------------------------------------------
(* The quota watcher.                                                      *)

(* External: the provider's quota runs out and is there again.             *)
QuotaRunsOut ==
  /\ ~quota.over /\ quota.left > 0
  /\ quota' = [quota EXCEPT !.over = TRUE, !.left = @ - 1]
  /\ UNCHANGED <<procVars, logVars, finVars, taskVars, ctlVars, mon, op, restarts>>

QuotaIsBack ==
  /\ quota.over
  /\ quota' = [quota EXCEPT !.over = FALSE]
  /\ UNCHANGED <<procVars, logVars, finVars, taskVars, ctlVars, mon, op, restarts>>

(* auto_mode_state under the lock, over and under the limit.               *)
QuotaSuspend ==
  /\ quota.pc = "idle" /\ quota.over /\ auto.enabled
  /\ auto' = [auto EXCEPT !.enabled = FALSE, !.quota = TRUE]
  /\ UNCHANGED <<procVars, logVars, finVars, taskVars, config, acks, requests, threadVars>>

QuotaResume ==
  /\ quota.pc = "idle" /\ ~quota.over
  /\ auto.quota /\ ~auto.enabled /\ ~auto.userOff /\ ~auto.contain
  /\ auto' = [auto EXCEPT !.enabled = TRUE, !.quota = FALSE]
  /\ UNCHANGED <<procVars, logVars, finVars, taskVars, config, acks, requests, threadVars>>

(* _quota_signal_agents collects the processes: of the handles those not   *)
(* flagged, of other active rows those whose task is not held ...          *)
QuotaTargets ==
  {a \in Agents : /\ proc[a] # "exited" /\ row[a] = "active" /\ a \notin frozen
                  /\ a \in handles \/ ~is_held(taskOf[a])}

QuotaCollect ==
  /\ quota.pc = "idle" /\ quota.over # quota.stopped
  /\ quota' = [quota EXCEPT !.pc = IF quota.over THEN "stop" ELSE "cont",
                            !.pids = QuotaTargets]
  /\ UNCHANGED <<procVars, logVars, finVars, taskVars, ctlVars, mon, op, restarts>>

(* ... and sends the signal after the lock is released.                    *)
QuotaSignal ==
  /\ quota.pc \in {"stop", "cont"}
  /\ IF quota.pc = "stop"
       THEN proc' = [a \in Agents |-> IF a \in quota.pids /\ proc[a] = "running"
                                        THEN "stopped" ELSE proc[a]]
       ELSE Continue(quota.pids)
  /\ quota' = [quota EXCEPT !.pc = "idle", !.pids = {}, !.stopped = (quota.pc = "stop")]
  /\ UNCHANGED <<row, taskOf, handles, frozen, logVars, finVars, taskVars,
                 ctlVars, mon, op, restarts>>

-------------------------------------------------------------------------------
(* A restart: threads, handles and flags are gone; agents run on.  Startup *)
(* closes rows of old agents unless their task is held, makes busy tasks   *)
(* without an active agent pending, and recover() restores the suspension  *)
(* of an unacknowledged trip and stops the held agents again.              *)
unacked(t, ack) == is_held(t) /\ meta[t].epoch >= ack

(* Mutant: a restart begins without a suspension.                          *)
recoveredNone == {}

recovered ==
  {t \in Tasks : \/ unacked(t, config.ack)
                 \/ /\ is_held(t) /\ meta[t].agent # NoAgent
                    /\ row[meta[t].agent] = "active" /\ proc[meta[t].agent] # "exited"}

Restart ==
  /\ restarts < MaxRestarts
  /\ restarts' = restarts + 1
  /\ handles' = {} /\ frozen' = {}
  /\ mon' = MonIdle /\ op' = OpIdle
  /\ quota' = [quota EXCEPT !.stopped = FALSE, !.pc = "idle", !.pids = {}]
  /\ fin' = [a \in Agents |-> IF fin[a] = "idle" THEN "idle" ELSE "done"]
  /\ snap' = [a \in Agents |-> NoHold]
  /\ auto' = [enabled |-> config.enabled, quota |-> FALSE,
              contain |-> recovered # {}, userOff |-> FALSE]
  /\ \E old \in SUBSET {a \in Agents : row[a] = "active" /\ ~is_held(taskOf[a])} :
       LET row2 == [a \in Agents |-> IF a \in old THEN "closed" ELSE row[a]]
       IN  /\ row' = row2
           /\ status' = [t \in Tasks |->
                IF status[t] = "busy" /\ \A a \in Agents : taskOf[a] = t => row2[a] # "active"
                  THEN "pending" ELSE status[t]]
  /\ proc' = [a \in Agents |->
       IF proc[a] = "running" /\ row[a] = "active"
            /\ is_held(taskOf[a]) /\ meta[taskOf[a]].agent = a
         THEN "stopped" ELSE proc[a]]
  /\ UNCHANGED <<taskOf, logVars, meta, config, acks, requests>>

-------------------------------------------------------------------------------
Monitor ==
  \/ TickBegin \/ TickEvaluate
  \/ (\E a \in Agents : TickFlag(a) \/ FreezeSignal(a))
  \/ FreezeMark \/ TickSuspend \/ MonSelect \/ MonSpawn

OpSteps == AckSnapshot \/ AckConfig \/ OpSelect \/ OpSpawn \/ Thaw \/ Unmark

Request ==
  \/ AutoOn \/ AutoOff
  \/ (\E t \in Tasks : SpawnRoute(t) \/ Release(t))
  \/ (\E on \in BOOLEAN : ChatAutoMode(on))

Finish(a) == FinishClose(a) \/ FinishRead(a) \/ FinishWrite(a) \/ FinishSignals(a)

QuotaWatcher == QuotaSuspend \/ QuotaResume \/ QuotaCollect \/ QuotaSignal

Next ==
  \/ Monitor \/ OpSteps \/ Request \/ QuotaWatcher \/ Restart
  \/ QuotaRunsOut \/ QuotaIsBack
  \/ \E a \in Agents : Block(a) \/ Exit(a) \/ Timeout(a) \/ Finish(a) \/ Expire(a)

Spec == Init /\ [][Next]_vars

(* Threads that run take their next step, a lock is not withheld from the  *)
(* monitor for ever, and the quota comes back; that agents do or exit, and *)
(* that operators ask for anything, is not assumed.                        *)
Fairness ==
  /\ SF_vars(Monitor) /\ WF_vars(OpSteps) /\ WF_vars(QuotaCollect \/ QuotaSignal)
  /\ WF_vars(QuotaIsBack)
  /\ \A a \in Agents : WF_vars(Finish(a))

LiveSpec == Spec /\ Fairness

-------------------------------------------------------------------------------
(* The state has the shape the code gives it.                              *)
AgentTypes ==
  /\ proc \in [Agents -> {"unborn", "running", "stopped", "exited"}]
  /\ row \in [Agents -> {"none", "active", "closed"}]
  /\ taskOf \in [Agents -> Tasks \cup {NoTask}]
  /\ \A a \in Agents : row[a] # "none" => taskOf[a] \in Tasks
  /\ handles \subseteq Agents /\ frozen \subseteq handles
  /\ blocked \in [Agents -> 0..MaxBlocked]
  /\ signals \subseteq Agents /\ out \subseteq signals

FinTypes ==
  /\ fin \in [Agents -> FinPcs] /\ snap \in [Agents -> Hold]
  /\ \A a \in Agents : fin[a] # "idle" => taskOf[a] \in Tasks

TaskTypes ==
  /\ status \in [Tasks -> {"pending", "busy", "done"}]
  /\ meta \in [Tasks -> Hold]

ControlTypes ==
  /\ auto \in [enabled : BOOLEAN, quota : BOOLEAN, contain : BOOLEAN,
               userOff : BOOLEAN]
  /\ config \in [enabled : BOOLEAN, ack : 0..MaxRequests,
                 counts : [Agents -> 0..MaxBlocked]]
  /\ requests \in 0..MaxRequests /\ acks \in 0..requests

MonTypes ==
  /\ mon \in [pc : MonPcs, found : SUBSET signals, todo : SUBSET Agents,
              live : SUBSET Agents, epoch : 0..MaxRequests, task : Tasks \cup {NoTask}]
  /\ mon.pc = "spawn" => mon.task \in Tasks

OpTypes ==
  /\ op \in [pc : OpPcs, known : SUBSET signals, counts : [Agents -> 0..MaxBlocked],
             task : Tasks \cup {NoTask}, agent : Agents \cup {NoAgent}]
  /\ op.pc = "spawn" => op.task \in Tasks

QuotaTypes ==
  quota \in [over : BOOLEAN, left : 0..MaxQuota, stopped : BOOLEAN,
             pc : {"idle", "stop", "cont"}, pids : SUBSET Agents]

TypeOK ==
  /\ AgentTypes /\ FinTypes /\ TaskTypes /\ ControlTypes
  /\ MonTypes /\ OpTypes /\ QuotaTypes
  /\ restarts \in 0..MaxRestarts

Tripping == mon.pc \in {"flag", "freeze", "mark"}
Acknowledging == op.pc \in {"snapshot", "config"}

(* A trip nobody acknowledged keeps auto-mode suspended: whatever finish    *)
(* threads write over the task rows, whatever the quota watcher, the chat  *)
(* and releases do, and across a restart at any point, a hold that tripped *)
(* after the acknowledged moment means suspended_for_containment, unless   *)
(* the monitor is about to set it or the operator is acknowledging.        *)
UnackedIsSuspended ==
  \A t \in Tasks :
    unacked(t, config.ack) => auto.contain \/ Tripping \/ Acknowledging

(* The scheduler never starts a held task: from picking a task to spawning *)
(* its agent in the monitor no hold appears on it, not even one a finish   *)
(* thread brings back.                                                     *)
MonitorPicksNoHeld == mon.pc = "spawn" => ~is_held(mon.task)

(* What the operator has not reviewed of the agents the breaker knows of or *)
(* whose finish thread is yet to tell it.                                  *)
Spike ==
  LET known == {a \in Agents : \/ row[a] = "active" \/ a \in signals \ out
                               \/ fin[a] \in {"closed", "write", "signals"}}
  IN  MapThenSumSet(_unreviewed, known) >= Threshold

(* A spike of unreviewed blocked calls suspends auto-mode, although agents *)
(* move from the live rows to the signals rows while the monitor counts.   *)
SpikeSuspends == Spike ~> (auto.contain \/ ~Spike)

(* A row that is active and not an offender's.                             *)
Supervised(a) == row[a] = "active" /\ meta[taskOf[a]].agent # a

(* "SIGCONTs on resume": an agent stopped for the quota does not stay so,  *)
(* whatever trips, releases and mode changes fall in between.  (A new      *)
(* controller has lost _agents_frozen.)                                    *)
QuotaStopEnds ==
  \A a \in Agents :
    (proc[a] = "stopped" /\ Supervised(a))
      ~> (proc[a] # "stopped" \/ ~Supervised(a) \/ restarts > 0)
===============================================================================
