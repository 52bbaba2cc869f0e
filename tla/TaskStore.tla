------------------------------ MODULE TaskStore -------------------------------
(***************************************************************************)
(* The tasks table (swarm/db.py) under everything that writes it: HTTP     *)
(* requests that edit rows and dependency lists, the sweep of ghost        *)
(* dependencies, the scheduler, finish threads and startup repair.         *)
(*                                                                         *)
(* A task is its status, whether agent_id is set, and its dependency list; *)
(* archive is the table completed_task_ids.  Every writer but task_delete  *)
(* holds _task_write_lock, and so do the checks of a dependency list with  *)
(* the write behind them.  The rows a request goes by are read before, in  *)
(* an action of its own.  An agent is here the run of a task, from its     *)
(* spawn to what its finish thread writes of the task; AgentLifecycle has  *)
(* the steps in between.                                                   *)
(***************************************************************************)
EXTENDS Integers

CONSTANTS
  Tasks,        \* task ids
  Threads,      \* request and finish threads
  Sweeper,      \* the monitor thread, when it sweeps
  NoTask, NoWrite,
  MaxRequests,  \* bound on requests, and retries of tasks
  MaxRestarts   \* bound on restarts of the controller

ASSUME StoreAssumption ==
  /\ Sweeper \notin Threads
  /\ NoTask \notin Tasks
  /\ MaxRequests \in Nat /\ MaxRestarts \in Nat

VARIABLES
  status,   \* "absent" when there is no row
  owned,    \* agent_id is set
  deps,     \* the dependency list, {} when there is no row
  archive,  \* completed_task_ids
  agents,   \* tasks that have an agent
  req,      \* the request each thread is serving
  requests, restarts

rows == <<status, owned, deps, archive>>
vars == <<status, owned, deps, archive, agents, req, requests, restarts>>

Statuses == {"pending", "in_progress", "completed", "failed", "cancelled"}

(* What a request writes: a whole row (task_upsert), or with status "keep" *)
(* a dependency list only (task_update).                                   *)
Writes == [task : Tasks, deps : SUBSET Tasks,
           status : Statuses \cup {"keep"}, owned : BOOLEAN]

Row(t, D, s, o) == [task |-> t, deps |-> D, status |-> s, owned |-> o]
Deps(t, D) == Row(t, D, "keep", FALSE)

Live == {t \in Tasks : status[t] # "absent"}
known == Live \cup archive

(* A request: the writes it still has to make, the one it holds the lock   *)
(* for, and for an insertion the tasks between which the new one goes.     *)
Idle == [pc |-> "idle", todo |-> {}, cur |-> NoWrite, old |-> NoTask, new |-> NoTask]
Work(W) == [Idle EXCEPT !.pc = "work", !.todo = W]

-------------------------------------------------------------------------------
(* Dependency graphs: g[t] is what t waits for.                            *)

Reachable(g, t) ==
  {u \in Tasks : \A S \in SUBSET Tasks :
     t \in S /\ (\A v \in S : g[v] \subseteq S) => u \in S}

(* Everyone in C waits for someone in C.                                   *)
Looped(g, C) == C # {} /\ \A u \in C : g[u] \cap C # {}

(* Mutant: the search stops after one step.                                *)
would_introduce_short_cycle(t, D) == \E d \in D : t \in deps[d]

(* _would_introduce_cycle: a search from t, over the stored lists.         *)
would_introduce_cycle(t, D) ==
  LET g == [deps EXCEPT ![t] = D]
  IN  \E C \in SUBSET Reachable(g, t) : Looped(g, C)

validate_task_dependencies(w) ==
  w.task \notin w.deps /\ ~would_introduce_cycle(w.task, w.deps)

(* Mutant: a dependency whose row was deleted blocks.                      *)
must_be_completed(d) == status[d] = "completed"

is_dependency_met(d) == status[d] \in {"completed", "absent"}

Init ==
  /\ status \in [Tasks -> {"absent", "pending"}]
  /\ deps \in [Tasks -> SUBSET Tasks]
  /\ \A t \in Tasks : status[t] = "absent" => deps[t] = {}
  /\ \A C \in SUBSET Tasks : ~Looped(deps, C)
  /\ owned = [t \in Tasks |-> FALSE]
  /\ archive = {} /\ agents = {}
  /\ req = [r \in Threads \cup {Sweeper} |-> Idle]
  /\ requests = 0 /\ restarts = 0

-------------------------------------------------------------------------------
(* The write lock.                                                         *)

Unlocked == \A r \in Threads \cup {Sweeper} : req[r].pc # "locked"

Lock(r, w) ==
  /\ req[r].pc = "work" /\ w \in req[r].todo
  /\ Unlocked
  /\ validate_task_dependencies(w)
  /\ req' = [req EXCEPT ![r].pc = "locked", ![r].cur = w,
                        ![r].todo = @ \ {w}]
  /\ UNCHANGED <<rows, agents, requests, restarts>>

(* ValueError: the request ends there, with what it wrote before.          *)
Refuse(r, w) ==
  /\ req[r].pc = "work" /\ w \in req[r].todo
  /\ Unlocked
  /\ ~validate_task_dependencies(w)
  /\ req' = [req EXCEPT ![r] = Idle]
  /\ UNCHANGED <<rows, agents, requests, restarts>>

Written(r) ==
  req' = [req EXCEPT ![r] =
    IF @.todo # {} THEN [@ EXCEPT !.pc = "work", !.cur = NoWrite]
    ELSE IF @.new # NoTask THEN [@ EXCEPT !.pc = "rewire", !.cur = NoWrite]
    ELSE Idle]

(* Mutant: an upsert does not record a completed task.                     *)
UpsertUnarchived(r) ==
  LET w == req[r].cur IN
  /\ req[r].pc = "locked" /\ w.status # "keep"
  /\ status' = [status EXCEPT ![w.task] = w.status]
  /\ owned' = [owned EXCEPT ![w.task] = w.owned]
  /\ deps' = [deps EXCEPT ![w.task] = w.deps]
  /\ Written(r)
  /\ UNCHANGED <<archive, agents, requests, restarts>>

(* task_upsert: the whole row, and nothing leaves the archive.             *)
Upsert(r) ==
  LET w == req[r].cur IN
  /\ req[r].pc = "locked" /\ w.status # "keep"
  /\ status' = [status EXCEPT ![w.task] = w.status]
  /\ owned' = [owned EXCEPT ![w.task] = w.owned]
  /\ deps' = [deps EXCEPT ![w.task] = w.deps]
  /\ archive' = IF w.status = "completed" THEN archive \cup {w.task} ELSE archive
  /\ Written(r)
  /\ UNCHANGED <<agents, requests, restarts>>

(* task_update of the dependency list; the row may be gone.                *)
UpdateDeps(r) ==
  LET w == req[r].cur IN
  /\ req[r].pc = "locked" /\ w.status = "keep"
  /\ deps' = IF w.task \in Live THEN [deps EXCEPT ![w.task] = w.deps] ELSE deps
  /\ Written(r)
  /\ UNCHANGED <<status, owned, archive, agents, requests, restarts>>

-------------------------------------------------------------------------------
(* Requests, up to the point where their rows are read.                    *)

Begin(r, request) ==
  /\ req[r].pc = "idle" /\ requests < MaxRequests
  /\ req' = [req EXCEPT ![r] = request]
  /\ requests' = requests + 1
  /\ UNCHANGED <<rows, restarts>>

(* PUT, POST and DELETE .../dependencies: new entries must be known, the   *)
(* entries that a removal leaves are not looked at.                        *)
EditDependencies(r, t, D) ==
  /\ t \in Live /\ t \notin D
  /\ D \subseteq known \/ \E d \in deps[t] : D = deps[t] \ {d}
  /\ Begin(r, Work({Row(t, D, status[t], owned[t])}))
  /\ UNCHANGED agents

(* PUT /api/tasks/<id> and the batch and spawn routes: status alone.       *)
EditStatus(r, t, s) ==
  /\ t \in Live
  /\ Begin(r, Work({Row(t, deps[t], s, owned[t])}))
  /\ UNCHANGED agents

(* POST /api/tasks: whether the id is taken is not looked at.              *)
Create(r, t, D) ==
  /\ t \notin D /\ D \subseteq known
  /\ Begin(r, Work({Row(t, D, "pending", FALSE)}))
  /\ UNCHANGED agents

(* insert-after: the new task first, then the dependents are read and      *)
(* rewired one by one.                                                     *)
InsertAfter(r, t, n) ==
  /\ t \in Live /\ n \notin known
  /\ Begin(r, [Work({Row(n, {t}, "pending", FALSE)}) EXCEPT !.old = t, !.new = n])
  /\ UNCHANGED agents

Rewire(r) ==
  LET t == req[r].old
      n == req[r].new
      W == {Deps(u, (deps[u] \ {t}) \cup {n}) :
              u \in {v \in Live \ {n} : t \in deps[v]}}
  IN
  /\ req[r].pc = "rewire"
  /\ req' = [req EXCEPT ![r] = IF W = {} THEN Idle ELSE Work(W)]
  /\ UNCHANGED <<rows, agents, requests, restarts>>

(* _handle_task_failure with attempts left: the row, or when it is gone    *)
(* the snapshot taken before the agent was finished, made pending.         *)
Retry(r, t) ==
  /\ t \in agents /\ agents' = agents \ {t}
  /\ \E D \in SUBSET (Tasks \ {t}) :
       /\ t \in Live => D = deps[t]
       /\ Begin(r, Work({Row(t, D, "pending", FALSE)}))

(* _sweep_ghost_deps: drop entries that are neither rows nor archived.     *)
Swept == {"pending", "in_progress", "failed"}

Ghosts(t) == deps[t] \ known

(* Mutant: only tasks that wait are swept.                                 *)
SweepPending ==
  LET W == {Deps(t, deps[t] \ Ghosts(t)) :
              t \in {u \in Tasks : status[u] = "pending" /\ Ghosts(u) # {}}}
  IN
  /\ req[Sweeper].pc = "idle" /\ W # {}
  /\ req' = [req EXCEPT ![Sweeper] = Work(W)]
  /\ UNCHANGED <<rows, agents, requests, restarts>>

Sweep ==
  LET W == {Deps(t, deps[t] \ Ghosts(t)) :
              t \in {u \in Tasks : status[u] \in Swept /\ Ghosts(u) # {}}}
  IN
  /\ req[Sweeper].pc = "idle" /\ W # {}
  /\ req' = [req EXCEPT ![Sweeper] = Work(W)]
  /\ UNCHANGED <<rows, agents, requests, restarts>>

-------------------------------------------------------------------------------
(* Writes that go by no earlier read.                                      *)

(* task_delete takes no lock: the row goes, and with it its id from every  *)
(* dependency list.                                                        *)
Delete(t) ==
  /\ t \in Live
  /\ requests < MaxRequests /\ requests' = requests + 1
  /\ status' = [status EXCEPT ![t] = "absent"]
  /\ owned' = [owned EXCEPT ![t] = FALSE]
  /\ deps' = [u \in Tasks |-> IF u = t THEN {} ELSE deps[u] \ {t}]
  /\ UNCHANGED <<archive, agents, req, restarts>>

(* task_update_status, with _apply_status_invariants: pending clears the   *)
(* owner, the archive follows the status, and a row that is gone stays so. *)
task_update_status(t, s, o) ==
  /\ Unlocked
  /\ IF t \in Live
     THEN /\ status' = [status EXCEPT ![t] = s]
          /\ owned' = [owned EXCEPT ![t] = o /\ s # "pending"]
     ELSE UNCHANGED <<status, owned>>
  /\ archive' = IF s = "completed" THEN archive \cup {t} ELSE archive \ {t}
  /\ UNCHANGED <<deps, req, restarts>>

(* POST .../reset and cancellation.                                        *)
Operate(t, s) ==
  /\ t \in Live
  /\ requests < MaxRequests /\ requests' = requests + 1
  /\ task_update_status(t, s, owned[t])
  /\ UNCHANGED agents

Spawn(t) ==
  /\ status[t] = "pending" /\ ~owned[t] /\ t \notin agents
  /\ \A d \in deps[t] : is_dependency_met(d)
  /\ task_update_status(t, "in_progress", TRUE)
  /\ agents' = agents \cup {t}
  /\ UNCHANGED requests

(* Completion, or failure with no attempt left, whatever the task has      *)
(* become meanwhile.                                                       *)
Finish(t, s) ==
  /\ t \in agents /\ agents' = agents \ {t}
  /\ task_update_status(t, s, owned[t])
  /\ UNCHANGED requests

(* The reconciler resets tasks in progress without an agent.               *)
Watchdog(t) ==
  /\ status[t] = "in_progress" /\ t \notin agents
  /\ task_update_status(t, "pending", FALSE)
  /\ UNCHANGED <<agents, requests>>

(* A new controller: requests are gone; repair_malformed_task_rows clears  *)
(* the owner of pending tasks, and the archive entry of those with a       *)
(* completed timestamp left; then backfill_completed_task_ids.             *)
Restart ==
  /\ restarts < MaxRestarts /\ restarts' = restarts + 1
  /\ req' = [r \in Threads \cup {Sweeper} |-> Idle]
  /\ owned' = [t \in Tasks |-> owned[t] /\ status[t] # "pending"]
  /\ \E stamped \in SUBSET {t \in archive : status[t] = "pending"} :
       archive' = (archive \ stamped) \cup {t \in Tasks : status[t] = "completed"}
  /\ UNCHANGED <<status, deps, agents, requests>>

-------------------------------------------------------------------------------
Serve(r) ==
  \/ Upsert(r) \/ UpdateDeps(r) \/ Rewire(r)
  \/ \E w \in req[r].todo : Lock(r, w) \/ Refuse(r, w)

Request(r) ==
  \E t \in Tasks :
    \/ \E D \in SUBSET Tasks : EditDependencies(r, t, D) \/ Create(r, t, D)
    \/ \E s \in Statuses : EditStatus(r, t, s)
    \/ \E n \in Tasks : InsertAfter(r, t, n)
    \/ Retry(r, t)

Next ==
  \/ \E r \in Threads : Request(r)
  \/ \E r \in Threads \cup {Sweeper} : Serve(r)
  \/ Sweep
  \/ \E t \in Tasks :
       \/ Delete(t) \/ Spawn(t) \/ Watchdog(t)
       \/ \E s \in {"pending", "cancelled"} : Operate(t, s)
       \/ \E s \in {"completed", "failed"} : Finish(t, s)
  \/ Restart

Spec == Init /\ [][Next]_vars

(* Threads run, the monitor sweeps, reconciles and fills slots (with which *)
(* task is left open), and agents end (AGENT_TIMEOUT).                     *)
Fairness ==
  /\ \A r \in Threads \cup {Sweeper} : WF_vars(Serve(r))
  /\ WF_vars(Sweep) /\ WF_vars(\E t \in Tasks : Watchdog(t))
  /\ WF_vars(\E t \in Tasks : Spawn(t))
  /\ WF_vars(\E t \in Tasks, s \in {"completed", "failed"} : Finish(t, s))

LiveSpec == Spec /\ Fairness

-------------------------------------------------------------------------------
Requests ==
  [pc : {"idle", "work", "locked", "rewire"}, todo : SUBSET Writes,
   cur : Writes \cup {NoWrite}, old : Tasks \cup {NoTask},
   new : Tasks \cup {NoTask}]

(* The types of the state, and only rows have dependencies and owners.     *)
TypeOK ==
  /\ status \in [Tasks -> Statuses \cup {"absent"}]
  /\ owned \in [Tasks -> BOOLEAN]
  /\ deps \in [Tasks -> SUBSET Tasks]
  /\ archive \subseteq Tasks /\ agents \subseteq Tasks
  /\ req \in [Threads \cup {Sweeper} -> Requests]
  /\ \A r \in Threads \cup {Sweeper} :
       /\ req[r].pc = "locked" => req[r].cur \in Writes
       /\ req[r].pc = "rewire" => req[r].new \in Tasks
  /\ \A t \in Tasks : status[t] = "absent" => deps[t] = {} /\ ~owned[t]
  /\ requests \in 0..MaxRequests /\ restarts \in 0..MaxRestarts

(* The dependency graph never has a cycle, whatever lists are edited at a  *)
(* time: each is checked with the others in force when it is written.      *)
Acyclic == \A C \in SUBSET Tasks : ~Looped(deps, C)

(* At most one thread is between its check and its write ...               *)
OneLocked ==
  \A q, r \in Threads \cup {Sweeper} :
    req[q].pc = "locked" /\ req[r].pc = "locked" => q = r

(* ... and its write leaves the graph without a cycle.                     *)
LockedIsSafe ==
  \A r \in Threads \cup {Sweeper} : req[r].pc = "locked" =>
    \A C \in SUBSET Tasks : ~Looped([deps EXCEPT ![req[r].cur.task] = req[r].cur.deps], C)

(* A completed task is in the permanent record, by which dependencies      *)
(* survive the deletion of its row.                                        *)
CompletedIsArchived == \A t \in Tasks : status[t] = "completed" => t \in archive

(* A dependency nobody knows does not stay in the list of a task that may  *)
(* wait for it, whoever edits lists and deletes rows meanwhile.            *)
Clean == \A t \in Tasks : status[t] \in Swept => Ghosts(t) = {}

GhostsAreSwept == ~Clean ~> Clean

(* No pending task waits for ever, unless a task it may wait for failed,   *)
(* was cancelled, or is pending with an owner, which no cycle picks.       *)
EveryTaskRuns ==
  \A t \in Tasks :
    status[t] = "pending" ~>
      \/ status[t] # "pending"
      \/ \E u \in Reachable(deps, t) :
           \/ status[u] \in {"failed", "cancelled"}
           \/ status[u] = "pending" /\ owned[u]

(* "The scheduler treats pending as unclaimed work": a pending task has no *)
(* owner, since those columns are normalised at the DB boundary.           *)
PendingIsUnowned == \A t \in Tasks : status[t] = "pending" => ~owned[t]

(* A task is inserted into a dependency chain atomically: no dependent of  *)
(* the task before it is started by its old list while that goes on.       *)
InsertIsAtomic ==
  [][\A t \in Tasks : \A r \in Threads :
       Spawn(t) /\ req[r].pc = "rewire" /\ req[r].old \in deps[t] => t = req[r].new]_vars
===============================================================================
