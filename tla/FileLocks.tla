------------------------------- MODULE FileLocks --------------------------------
(***************************************************************************)
(* The file locks of one project: the agents' side (tool_dispatch and      *)
(* runtime_helpers, in the agent's process) and the controller's (the lock *)
(* routes of api_projects, the registry and maintenance/file_locks).       *)
(*                                                                         *)
(* All locks are one JSON column.  Every route reads it, and writes it     *)
(* back whole in a later step; nothing orders two requests.  With Overlap  *)
(* FALSE the routes happen not to meet between these two steps.  An agent  *)
(* that finds a file held by a live sibling hands its work to a            *)
(* continuation task behind the sibling, moves its own dependents there,   *)
(* and ends.                                                               *)
(*                                                                         *)
(* A lock is the TASK_ID the runtime sends both as agent_id and as         *)
(* task_id.  The lock release of a finished agent compares that with the   *)
(* agent's own id and finds nothing, so finishing has no step for it.      *)
(* What an agent edits is given by the task it works for (its root).       *)
(* An agent that runs a pipeline, or whose unlock requests fail, leaves its *)
(* locks behind.                                                           *)
(***************************************************************************)
EXTENDS Integers, Sequences, FiniteSets

CONSTANTS
  Files, Tasks,
  Given,      \* the tasks there are to do, the others are continuations
  Past,       \* completed tasks whose locks may have been left behind
  Needs,      \* the files a given task edits, one after the other
  Waits,      \* the dependencies of a given task
  Readers,    \* dashboard threads that ask for the list of locks
  NoTask, NoFile,
  Overlap,    \* whether requests split another's reading and writing the column
  MaxFaults,  \* bound on agents that are killed and on answers an agent does
              \* not wait for
  MaxReads    \* bound on the dashboard's requests

ASSUME LocksAssumption ==
  /\ Given \subseteq Tasks /\ Past \subseteq Tasks \ Given /\ Readers \cap Tasks = {}
  /\ NoTask \notin Tasks /\ NoFile \notin Files
  /\ Needs \in [Given -> Seq(Files)] /\ Waits \in [Given -> SUBSET Given]
  /\ Overlap \in BOOLEAN /\ MaxFaults \in Nat /\ MaxReads \in Nat

VARIABLES
  column,   \* projects.file_locks
  task,     \* tasks rows; root and behind are metadata of a continuation
  agent,    \* the process of a task's agent
  req,      \* the lock or unlock request of an agent, on the controller
  list,     \* the request for all locks, of an agent or a reader
  worked,   \* given tasks whose files have all been edited
  left,     \* tasks whose dependency could not be moved, or not in time
  back,     \* tasks handed to a continuation that had been handed on itself
  faults, reads

vars == <<column, task, agent, req, list, worked, left, back, faults, reads>>
bounds == <<faults, reads>>

Absent == [status |-> "absent", deps |-> {}, root |-> NoTask, behind |-> NoTask]
NoAgent == [pc |-> "none", claimed |-> {}, file |-> NoFile, owner |-> NoTask,
            follow |-> NoTask, kids |-> {}, kid |-> NoTask, deps |-> {}]
NoLocks == [f \in Files |-> NoTask]
NoReq == [pc |-> "idle", file |-> NoFile, view |-> NoLocks, prev |-> NoTask]
NoList == [pc |-> "idle", view |-> NoLocks, stale |-> NoLocks]

Init ==
  /\ column \in [Files -> Past \cup {NoTask}]
  /\ task = [t \in Tasks |->
       IF t \in Given THEN [status |-> "pending", deps |-> Waits[t], root |-> t,
                           behind |-> NoTask]
       ELSE IF t \in Past THEN [Absent EXCEPT !.status = "completed"] ELSE Absent]
  /\ agent = [t \in Tasks |-> NoAgent]
  /\ req = [t \in Tasks |-> NoReq]
  /\ list = [x \in Tasks \cup Readers |-> NoList]
  /\ worked = {} /\ left = {} /\ back = {}
  /\ faults = 0 /\ reads = 0

Alive(t) == agent[t].pc \notin {"none", "ended", "dead"}
Work(t) == Needs[task[t].root]

(* A lock's owner is live when its task is in progress and its active      *)
(* agent has a process.                                                    *)
file_lock_owner_is_live(t) == task[t].status = "in_progress" /\ Alive(t)

Undisturbed ==
  Overlap \/ /\ \A t \in Tasks : req[t].pc \notin {"write", "replace", "free"}
             /\ \A x \in Tasks \cup Readers : list[x].pc \notin {"found", "erase", "got"}

-------------------------------------------------------------------------------
(* A task's agent, from outside.                                           *)

Spawn(t) ==
  /\ task[t].status = "pending" /\ agent[t].pc = "none"
  /\ \A d \in task[t].deps : task[d].status = "completed"
  /\ req[t].pc = "idle" /\ list[t].pc = "idle"
  /\ task' = [task EXCEPT ![t].status = "in_progress"]
  /\ agent' = [agent EXCEPT ![t] = [NoAgent EXCEPT !.pc = "work"]]
  /\ UNCHANGED <<column, req, list, worked, left, back, bounds>>

Kill(t) ==
  /\ Alive(t) /\ faults < MaxFaults
  /\ agent' = [agent EXCEPT ![t] = [NoAgent EXCEPT !.pc = "dead"]]
  /\ faults' = faults + 1
  /\ UNCHANGED <<column, task, req, list, worked, left, back, reads>>

(* Mutant: whatever ends an agent completes its task.                      *)
FinishAnyway(t) ==
  /\ agent[t].pc \in {"ended", "dead"}
  /\ task' = [task EXCEPT ![t].status = "completed"]
  /\ agent' = [agent EXCEPT ![t] = NoAgent]
  /\ UNCHANGED <<column, req, list, worked, left, back, bounds>>

(* The finish thread: an exit completes the task, a kill puts it back.     *)
Finish(t) ==
  /\ agent[t].pc \in {"ended", "dead"}
  /\ task' = [task EXCEPT ![t].status =
                IF agent[t].pc = "ended" THEN "completed" ELSE "pending"]
  /\ agent' = [agent EXCEPT ![t] = NoAgent]
  /\ UNCHANGED <<column, req, list, worked, left, back, bounds>>

-------------------------------------------------------------------------------
(* The lock route.                                                         *)

(* The first edit of a file asks for its lock.                             *)
AskLock(t) ==
  LET n == Cardinality(agent[t].claimed) + 1
      f == Work(t)[n] IN
  /\ agent[t].pc = "work" /\ n \in DOMAIN Work(t) /\ req[t].pc = "idle"
  /\ agent' = [agent EXCEPT ![t].pc = "lock", ![t].file = f]
  /\ req' = [req EXCEPT ![t] = [NoReq EXCEPT !.pc = "read", !.file = f]]
  /\ UNCHANGED <<column, task, list, worked, left, back, bounds>>

(* The answer to t: the file, an owner, or neither.                        *)
Answered(t, o) ==
  LET a == agent[t] IN
  /\ req' = [req EXCEPT ![t] = NoReq]
  /\ agent' = [agent EXCEPT ![t] =
       IF a.pc # "lock" THEN a
       ELSE IF o = t THEN [a EXCEPT !.pc = "work", !.claimed = a.claimed \cup {req[t].file}]
       ELSE IF o = NoTask THEN [a EXCEPT !.pc = "list"]
       ELSE [a EXCEPT !.pc = "handoff", !.owner = o]]

LockRead(t) ==
  /\ req[t].pc \in {"read", "unlock"} /\ Undisturbed
  /\ req' = [req EXCEPT ![t].view = column,
                        ![t].pc = IF @ = "read" THEN "write" ELSE "free"]
  /\ UNCHANGED <<column, task, agent, list, worked, left, back, bounds>>

(* Mutant: a task's own lock, from before its agent was killed, is not its. *)
lock_file_anew(t) ==
  LET v == req[t].view   f == req[t].file IN
  /\ req[t].pc = "write"
  /\ IF v[f] = NoTask
     THEN column' = [v EXCEPT ![f] = t] /\ Answered(t, t)
     ELSE /\ column' = v
          /\ req' = [req EXCEPT ![t].pc = "check"] /\ UNCHANGED agent
  /\ UNCHANGED <<task, list, worked, left, back, bounds>>

lock_file(t) ==
  LET v == req[t].view   f == req[t].file IN
  /\ req[t].pc = "write"
  /\ IF v[f] \in {NoTask, t}
     THEN column' = [v EXCEPT ![f] = t] /\ Answered(t, t)
     ELSE /\ column' = v
          /\ req' = [req EXCEPT ![t].pc = "check"] /\ UNCHANGED agent
  /\ UNCHANGED <<task, list, worked, left, back, bounds>>

LockCheck(t) ==
  LET o == column[req[t].file] IN
  /\ req[t].pc = "check"
  /\ IF o # NoTask /\ ~file_lock_owner_is_live(o)
     THEN /\ req' = [req EXCEPT ![t].pc = "reread", ![t].prev = o]
          /\ UNCHANGED agent
     ELSE IF o = t
     THEN /\ req' = [req EXCEPT ![t] = NoReq]
          /\ agent' = [agent EXCEPT ![t].pc = IF @ = "lock" THEN "list" ELSE @]
     ELSE Answered(t, o)
  /\ UNCHANGED <<column, task, list, worked, left, back, bounds>>

ReplaceRead(t) ==
  /\ req[t].pc = "reread" /\ Undisturbed
  /\ req' = [req EXCEPT ![t].pc = "replace", ![t].view = column]
  /\ UNCHANGED <<column, task, agent, list, worked, left, back, bounds>>

replace_file_lock(t) ==
  LET v == req[t].view   f == req[t].file IN
  /\ req[t].pc = "replace"
  /\ IF v[f] \in {NoTask, req[t].prev}
     THEN column' = [v EXCEPT ![f] = t] /\ Answered(t, t)
     ELSE /\ column' = v
          /\ req' = [req EXCEPT ![t].pc = "again"] /\ UNCHANGED agent
  /\ UNCHANGED <<task, list, worked, left, back, bounds>>

(* The owner that came in between is named, whether it is live or not.     *)
ReplaceAgain(t) ==
  LET o == column[req[t].file] IN
  /\ req[t].pc = "again"
  /\ IF o = t
     THEN /\ req' = [req EXCEPT ![t] = NoReq]
          /\ agent' = [agent EXCEPT ![t].pc = IF @ = "lock" THEN "list" ELSE @]
     ELSE Answered(t, o)
  /\ UNCHANGED <<column, task, list, worked, left, back, bounds>>

(* The agent gives up on an answer; the request goes on.                   *)
LoseAnswer(t) ==
  /\ agent[t].pc = "lock" /\ faults < MaxFaults
  /\ agent' = [agent EXCEPT ![t].pc = "list"]
  /\ faults' = faults + 1
  /\ UNCHANGED <<column, task, req, list, worked, left, back, reads>>

-------------------------------------------------------------------------------
(* The list of locks: stale ones are removed first, one by one.            *)

AskList(x) ==
  /\ list[x].pc = "idle"
  /\ IF x \in Readers
     THEN reads < MaxReads /\ reads' = reads + 1 /\ UNCHANGED agent
     ELSE /\ agent[x].pc = "list" /\ UNCHANGED reads
          /\ agent' = [agent EXCEPT ![x].pc = "listed"]
  /\ list' = [list EXCEPT ![x] = [NoList EXCEPT !.pc = "find"]]
  /\ UNCHANGED <<column, task, req, worked, left, back, faults>>

ListRead(x) ==
  /\ list[x].pc \in {"find", "remove", "get"} /\ Undisturbed
  /\ list[x].pc = "remove" => list[x].stale # NoLocks
  /\ list' = [list EXCEPT ![x].view = column,
       ![x].pc = CASE @ = "find" -> "found" [] @ = "remove" -> "erase"
                   [] @ = "get" -> "got"]
  /\ UNCHANGED <<column, task, agent, req, worked, left, back, bounds>>

find_stale_file_locks(x) ==
  LET v == list[x].view IN
  /\ list[x].pc = "found"
  /\ column' = v
  /\ list' = [list EXCEPT ![x].pc = "remove", ![x].stale =
       [f \in Files |-> IF v[f] # NoTask /\ ~file_lock_owner_is_live(v[f])
                        THEN v[f] ELSE NoTask]]
  /\ UNCHANGED <<task, agent, req, worked, left, back, bounds>>

remove_file_lock(x, f) ==
  LET v == list[x].view IN
  /\ list[x].pc = "erase" /\ list[x].stale[f] # NoTask
  /\ column' = [v EXCEPT ![f] = IF @ = list[x].stale[f] THEN NoTask ELSE @]
  /\ list' = [list EXCEPT ![x].pc = "remove", ![x].stale[f] = NoTask]
  /\ UNCHANGED <<task, agent, req, worked, left, back, bounds>>

Reconciled(x) ==
  /\ list[x].pc = "remove" /\ list[x].stale = NoLocks
  /\ list' = [list EXCEPT ![x].pc = "get"]
  /\ UNCHANGED <<column, task, agent, req, worked, left, back, bounds>>

(* An agent that finds no other owner there reports a failed lock and      *)
(* tries again.                                                            *)
get_locked_files(x) ==
  LET v == list[x].view IN
  /\ list[x].pc = "got"
  /\ column' = v
  /\ list' = [list EXCEPT ![x] = NoList]
  /\ IF x \in Tasks /\ agent[x].pc = "listed"
     THEN LET o == v[agent[x].file]
          IN  agent' = [agent EXCEPT ![x] =
                IF o \in {NoTask, x} THEN [@ EXCEPT !.pc = "work"]
                ELSE [@ EXCEPT !.pc = "handoff", !.owner = o]]
     ELSE UNCHANGED agent
  /\ UNCHANGED <<task, req, worked, left, back, bounds>>

-------------------------------------------------------------------------------
(* The handoff.                                                            *)

Continuations(t) ==
  {c \in Tasks \ {t} : /\ task[c].status \in {"pending", "in_progress"}
                       /\ task[c].behind = agent[t].owner
                       /\ task[c].root = task[t].root}

HandedOn(c) == agent[c].pc \in {"dependents", "move", "patch", "unlock", "ended"}

(* lock_conflict_handoff finds the continuation of this work behind this   *)
(* owner, whatever its agent has done with the work by now ...             *)
HandoffReuse(t) ==
  /\ agent[t].pc = "handoff"
  /\ \E c \in Continuations(t) :
       /\ agent' = [agent EXCEPT ![t].pc = "dependents", ![t].follow = c]
       /\ back' = IF HandedOn(c) THEN back \cup {t} ELSE back
  /\ UNCHANGED <<column, task, req, list, worked, left, bounds>>

(* ... or makes one, which waits for the owner and all t waited for.       *)
HandoffCreate(t) ==
  LET fresh == {c \in Tasks : task[c].status = "absent"}
      c == CHOOSE c \in fresh : TRUE IN
  /\ agent[t].pc = "handoff" /\ Continuations(t) = {} /\ fresh # {}
  /\ task' = [task EXCEPT ![c] =
       [status |-> "pending", deps |-> task[t].deps \cup {agent[t].owner},
        root |-> task[t].root, behind |-> agent[t].owner]]
  /\ agent' = [agent EXCEPT ![t].pc = "dependents", ![t].follow = c]
  /\ UNCHANGED <<column, req, list, worked, left, back, bounds>>

(* The answer is lost: the agent goes on without the file.                 *)
HandoffLost(t) ==
  /\ agent[t].pc = "dependents" /\ faults < MaxFaults
  /\ agent' = [agent EXCEPT ![t].pc = "work", ![t].follow = NoTask]
  /\ faults' = faults + 1
  /\ UNCHANGED <<column, task, req, list, worked, left, back, reads>>

(* Mutant: only running tasks are dependents.                              *)
get_running_dependents(t) ==
  {d \in Tasks \ {t} : task[d].status = "in_progress" /\ t \in task[d].deps}

get_task_dependents(t) ==
  {d \in Tasks \ {t} : task[d].status \in {"pending", "in_progress"} /\ t \in task[d].deps}

Dependents(t) ==
  /\ agent[t].pc = "dependents"
  /\ agent' = [agent EXCEPT ![t].pc = "move", ![t].kids = get_task_dependents(t)]
  /\ UNCHANGED <<column, task, req, list, worked, left, back, bounds>>

(* The list of dependents does not come: the agent moves none.             *)
DependentsLost(t) ==
  /\ agent[t].pc = "dependents" /\ faults < MaxFaults
  /\ agent' = [agent EXCEPT ![t].pc = "move"]
  /\ left' = left \cup get_task_dependents(t)
  /\ faults' = faults + 1
  /\ UNCHANGED <<column, task, req, list, worked, back, reads>>

(* The dependencies of d, with the continuation in the place of t.         *)
Moved(t, d) == {IF e = t THEN agent[t].follow ELSE e : e \in task[d].deps}

MoveRead(t) ==
  /\ agent[t].pc = "move"
  /\ \E d \in agent[t].kids :
       agent' = [agent EXCEPT ![t].pc = "patch", ![t].kid = d, ![t].kids = @ \ {d},
                              ![t].deps = Moved(t, d)]
  /\ UNCHANGED <<column, task, req, list, worked, left, back, bounds>>

(* A search from t meets t again.                                          *)
Cyclic(deps) ==
  \E C \in SUBSET Tasks : C # {} /\ \A t \in C : deps[t] \cap C # {}

(* By then the continuation may have been run and have ended, or have read *)
(* which tasks it will move itself.                                        *)
Ended(c) ==
  task[c].status = "completed" \/ agent[c].pc \in {"move", "patch", "unlock", "ended"}

(* The route refuses a list that closes a cycle, and the agent goes on     *)
(* after a refused or lost request.  A list that was changed since it was  *)
(* read is overwritten, and what another agent had moved moves back.       *)
MovePatch(t) ==
  LET d == agent[t].kid
      deps == [u \in Tasks |-> IF u = d THEN agent[t].deps ELSE task[u].deps] IN
  /\ agent[t].pc = "patch"
  /\ task' = IF Cyclic(deps) THEN task ELSE [task EXCEPT ![d].deps = deps[d]]
  /\ left' = IF Cyclic(deps) \/ Ended(agent[t].follow) \/ deps[d] # Moved(t, d)
             THEN left \cup {d} ELSE left
  /\ agent' = [agent EXCEPT ![t].pc = "move", ![t].kid = NoTask, ![t].deps = {}]
  /\ UNCHANGED <<column, req, list, worked, back, bounds>>

MoveLost(t) ==
  /\ agent[t].pc = "patch" /\ faults < MaxFaults
  /\ left' = left \cup {agent[t].kid}
  /\ agent' = [agent EXCEPT ![t].pc = "move", ![t].kid = NoTask, ![t].deps = {}]
  /\ faults' = faults + 1
  /\ UNCHANGED <<column, task, req, list, worked, back, reads>>

-------------------------------------------------------------------------------
(* The end of an agent.                                                    *)

(* TASK_COMPLETE with everything edited, or after a handoff.               *)
Complete(t) ==
  /\ \/ agent[t].pc = "work" /\ Cardinality(agent[t].claimed) = Len(Work(t))
        /\ worked' = worked \cup {task[t].root}
     \/ agent[t].pc = "move" /\ agent[t].kids = {} /\ UNCHANGED worked
  /\ agent' = [agent EXCEPT ![t].pc = "unlock"]
  /\ UNCHANGED <<column, task, req, list, left, back, bounds>>

Unlock(t, f) ==
  /\ agent[t].pc = "unlock" /\ f \in agent[t].claimed /\ req[t].pc = "idle"
  /\ req' = [req EXCEPT ![t] = [NoReq EXCEPT !.pc = "unlock", !.file = f]]
  /\ agent' = [agent EXCEPT ![t].claimed = @ \ {f}]
  /\ UNCHANGED <<column, task, list, worked, left, back, bounds>>

unlock_file(t) ==
  LET v == req[t].view   f == req[t].file IN
  /\ req[t].pc = "free"
  /\ column' = IF v[f] = t THEN [v EXCEPT ![f] = NoTask] ELSE column
  /\ req' = [req EXCEPT ![t] = NoReq]
  /\ UNCHANGED <<task, agent, list, worked, left, back, bounds>>

Exit(t) ==
  /\ agent[t].pc = "unlock" /\ agent[t].claimed = {} /\ req[t].pc = "idle"
  /\ agent' = [agent EXCEPT ![t] = [NoAgent EXCEPT !.pc = "ended"]]
  /\ UNCHANGED <<column, task, req, list, worked, left, back, bounds>>

-------------------------------------------------------------------------------
Lists(x) ==
  \/ AskList(x) \/ ListRead(x) \/ find_stale_file_locks(x) \/ Reconciled(x)
  \/ get_locked_files(x)
  \/ \E f \in Files : remove_file_lock(x, f)

Locks(t) ==
  \/ LockRead(t) \/ lock_file(t) \/ LockCheck(t) \/ ReplaceRead(t)
  \/ replace_file_lock(t) \/ ReplaceAgain(t) \/ unlock_file(t)

Process(t) ==
  \/ AskLock(t) \/ \E f \in Files : Unlock(t, f)
  \/ HandoffReuse(t) \/ HandoffCreate(t) \/ Dependents(t) \/ MoveRead(t)
  \/ MovePatch(t) \/ Complete(t) \/ Exit(t)

Faults(t) ==
  Kill(t) \/ LoseAnswer(t) \/ HandoffLost(t) \/ DependentsLost(t) \/ MoveLost(t)

Works ==
  \/ \E x \in Tasks \cup Readers : Lists(x)
  \/ \E t \in Tasks : Locks(t) \/ Process(t) \/ Spawn(t) \/ Finish(t)

Next == Works \/ \E t \in Tasks : Faults(t)

Spec == Init /\ [][Next]_vars

(* Requests, agents, the monitor and the finish threads do not all stop    *)
(* while one of them has something to do.                                  *)
LiveSpec == Spec /\ WF_vars(Works)

-------------------------------------------------------------------------------
(* Properties.                                                             *)

TaskRows ==
  [status : {"absent", "pending", "in_progress", "completed"}, deps : SUBSET Tasks,
   root : Given \cup {NoTask}, behind : Tasks \cup {NoTask}]
Processes ==
  [pc : {"none", "work", "lock", "list", "listed", "handoff", "dependents", "move",
         "patch", "unlock", "ended", "dead"},
   claimed : SUBSET Files, file : Files \cup {NoFile}, owner : Tasks \cup {NoTask},
   follow : Tasks \cup {NoTask}, kids : SUBSET Tasks, kid : Tasks \cup {NoTask},
   deps : SUBSET Tasks]
Columns == [Files -> Tasks \cup {NoTask}]
Requests ==
  [pc : {"idle", "read", "write", "check", "reread", "replace", "again", "unlock", "free"},
   file : Files \cup {NoFile}, view : Columns, prev : Tasks \cup {NoTask}]
Listings ==
  [pc : {"idle", "find", "found", "remove", "erase", "get", "got"},
   view : Columns, stale : Columns]

(* The column, the rows, the processes and the requests have their shape.  *)
TypeOK ==
  /\ column \in Columns
  /\ task \in [Tasks -> TaskRows]
  /\ agent \in [Tasks -> Processes]
  /\ req \in [Tasks -> Requests]
  /\ list \in [Tasks \cup Readers -> Listings]
  /\ worked \subseteq Given /\ left \subseteq Tasks /\ back \subseteq Tasks
  /\ faults \in 0..MaxFaults /\ reads \in 0..MaxReads

(* Work that a task gave away is queued: when a task is completed, its     *)
(* work is done, or a continuation of it is pending or in progress.  Work  *)
(* is lost in one way only: a continuation that has been handed on already *)
(* is given it back, and ends.                                             *)
WorkIsCarried ==
  \A t \in Given : task[t].status = "completed" =>
    \/ t \in worked
    \/ \E c \in Tasks : /\ task[c].root = t
                        /\ task[c].status \in {"pending", "in_progress"} \/ c \in back

(* A task does not start before the work it depends on is done, through    *)
(* any chain of continuations on both sides, unless a dependency of this   *)
(* work could not be moved in time.                                        *)
DependentsWait ==
  \A t \in Tasks : task[t].status = "in_progress" =>
    \/ Waits[task[t].root] \subseteq worked
    \/ \E u \in left : task[u].root = task[t].root

(* No two running agents have claimed the same file.                       *)
OneWriter ==
  \A t, u \in Tasks : t # u => agent[t].claimed \cap agent[u].claimed = {}

(* Conflicts, stale locks and handoffs keep no work from being done.       *)
WorkIsDone == <>(worked = Given)

===============================================================================
