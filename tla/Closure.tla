-------------------------------- MODULE Closure --------------------------------
(***************************************************************************)
(* The closure loop of one project in mode "stabilize": verification runs  *)
(* execute the project's checks, failing checks become regressions,        *)
(* regressions get repair tasks, finished tasks and passing runs resolve   *)
(* them, and the status derived from all this gates the feature tasks.     *)
(*                                                                         *)
(* Runs of three types work beside each other and beside the thread that   *)
(* finishes an agent, each through several database writes: a step is one  *)
(* write with the read right before it.  A failing check is a fingerprint; *)
(* a regression has one row per fingerprint for ever (its id is a hash of  *)
(* it), and the repair tasks of a fingerprint are numbered by their round. *)
(* Feature tasks are one task that comes back; at most one agent finishes  *)
(* at a time.                                                              *)
(***************************************************************************)
EXTENDS Integers, Sequences, FiniteSets, FiniteSetsExt

CONSTANTS
  Fingerprints,   \* the project's checks, by the fingerprint of their failure
  Hard,           \* those of the boot and smoke checks
  RunTypes,       \* run types in use
  Budget,         \* autonomy.repair_budget
  StallThreshold, \* autonomy.stall_threshold, and of the recurrence summary
  MaxBreaks,      \* bound on how often a check starts to fail
  MaxFails,       \* bound on agents that fail or do not repair
  MaxRounds,      \* bound on the repair and triage tasks of a fingerprint
  MaxRequests,    \* bound on the requests for a run or for repairs
  MaxRestarts     \* bound on controller restarts

ASSUME ConstantsAssumption ==
  /\ IsFiniteSet(Fingerprints) /\ Hard \subseteq Fingerprints
  /\ RunTypes \subseteq {"periodic", "manual"}
  /\ Budget \in Nat \ {0} /\ StallThreshold \in Nat \ {0}
  /\ MaxBreaks \in Nat /\ MaxFails \in Nat
  /\ MaxRounds \in Nat /\ MaxRequests \in Nat /\ MaxRestarts \in Nat

VARIABLES
  broken,   \* checks that fail
  reg,      \* regressions rows
  tasks,    \* the repair and triage tasks of a fingerprint, by round; one that
            \* completed, failed or was cancelled has "ended"
  feature,  \* the feature task: "none", "pending" or "running"
  proj,     \* the closure columns of the projects row
  active,   \* run types with a pending or running verification_runs row
  ver,      \* the thread of each run type
  fin,      \* the finish thread
  breaks, fails, requests, restarts

vars == <<broken, reg, tasks, feature, proj, active, ver, fin, breaks, fails,
          requests, restarts>>
bounds == <<breaks, fails, requests, restarts>>

Open == {f \in Fingerprints : reg[f].st = "open"}
Unlinked == 0
NoReg == [st |-> "none", occ |-> 0, src |-> "none", link |-> Unlinked]
Active == {"pending", "in_progress"}

VerPcs == {"idle", "checks", "upsert", "resolve", "cancel", "read", "write",
           "list", "plan", "task", "link", "derive"}
VerIdle == [pc |-> "idle", failing |-> {}, todo |-> {},
            links |-> [f \in Fingerprints |-> Unlinked], f |-> {}, round |-> 0,
            open |-> 0, stall |-> 0, route |-> FALSE]
FinIdle == [pc |-> "idle", f |-> {}, r |-> 0, again |-> FALSE,
            open |-> 0, stall |-> 0]

Init ==
  /\ broken = {}
  /\ reg = [f \in Fingerprints |-> NoReg]
  /\ tasks = [f \in Fingerprints |-> <<>>]
  /\ feature = "none"
  /\ proj = [open |-> 0, stall |-> 0, status |-> "yellow", seen |-> FALSE]
  /\ active = {}
  /\ ver = [v \in RunTypes |-> VerIdle] /\ fin = FinIdle
  /\ breaks = 0 /\ fails = 0 /\ requests = 0 /\ restarts = 0

-------------------------------------------------------------------------------
(* refresh_project_recurrence_state: the summary is read ...               *)
Summary ==
  [open |-> Cardinality(Open),
   stall |-> Max({0} \cup {reg[f].occ : f \in Open})]

(* ... and the counts written; without an open regression a stalled or     *)
(* frozen project turns green.                                             *)
Refreshed(open, stall) ==
  [proj EXCEPT !.open = open, !.stall = stall,
               !.status = IF open = 0 /\ @ \in {"stalled", "frozen"} THEN "green" ELSE @]

(* derive_closure_status from a run's results and the project's row, for a *)
(* project with all kinds of checks and no critical flows.                 *)
derive_closure_status(failing) ==
  IF proj.stall >= StallThreshold /\ proj.open > 0 THEN "stalled"
  ELSE IF failing \cap Hard # {} THEN "frozen"
  ELSE IF failing = {} /\ proj.open = 0 THEN "green"
  ELSE "yellow"

_is_expansion_blocked == proj.status \in {"frozen", "stalled"} /\ proj.open > 0

Running == {f \in Fingerprints : \E r \in DOMAIN tasks[f] : tasks[f][r].run}
PendingRepair ==
  \E f \in Fingerprints : \E r \in DOMAIN tasks[f] : tasks[f][r].st = "pending"

-------------------------------------------------------------------------------
(* run_closure_verification.                                               *)

(* Mutant: the scheduler verifies only when there is nothing at all.       *)
WantedIdle(v) ==
  \/ v = "manual"
  \/ /\ v = "periodic" /\ ~PendingRepair /\ feature = "none" /\ Running = {}
     /\ ~proj.seen \/ proj.open > 0 \/ proj.status # "green"

(* What starts a run: a request; the scheduler, when it has nothing to     *)
(* spawn but expansion that is blocked; the idle cycle, when there is      *)
(* nothing at all, no agent works and the project is under pressure.       *)
Wanted(v) ==
  \/ v = "manual"
  \/ /\ v = "periodic" /\ ~PendingRepair
     /\ \/ feature = "pending" /\ _is_expansion_blocked
        \/ /\ feature = "none" /\ Running = {}
           /\ ~proj.seen \/ proj.open > 0 \/ proj.status # "green"

NewRequest == requests < MaxRequests /\ requests' = requests + 1

(* The guard lets no run start beside an active one of its type (a row no  *)
(* longer among the newest twenty of the project it would not see).        *)
Start(v) ==
  /\ ver[v].pc = "idle" /\ v \notin active /\ Wanted(v)
  /\ active' = active \cup {v}
  /\ ver' = [ver EXCEPT ![v] = [VerIdle EXCEPT !.pc = "checks"]]
  /\ IF v = "manual" THEN NewRequest ELSE UNCHANGED requests
  /\ UNCHANGED <<broken, reg, tasks, feature, proj, fin, breaks, fails, restarts>>

(* The checks, and complete_verification_run.                              *)
Checks(v) ==
  /\ ver[v].pc = "checks"
  /\ active' = active \ {v}
  /\ proj' = [proj EXCEPT !.seen = TRUE]
  /\ ver' = [ver EXCEPT ![v] =
       IF broken # {} THEN [VerIdle EXCEPT !.pc = "upsert", !.failing = broken, !.todo = broken]
       ELSE IF Open = {} THEN [VerIdle EXCEPT !.pc = "derive"]
       ELSE [VerIdle EXCEPT !.pc = "resolve", !.todo = Open,
                            !.links = [f \in Fingerprints |-> reg[f].link]]]
  /\ UNCHANGED <<broken, reg, tasks, feature, fin, bounds>>

(* upsert_regressions_for_run: an open regression has one more occurrence, *)
(* any other row starts over, without its link.                            *)
Upsert(v, f) ==
  /\ ver[v].pc = "upsert" /\ f \in ver[v].todo
  /\ LET row == reg[f]
         occ == IF row.occ < StallThreshold THEN row.occ + 1 ELSE row.occ
     IN  reg' = [reg EXCEPT ![f] =
           IF row.st = "open" THEN [row EXCEPT !.src = v, !.occ = occ]
           ELSE [st |-> "open", occ |-> 1, src |-> v, link |-> Unlinked]]
  /\ ver' = [ver EXCEPT ![v].todo = @ \ {f},
                        ![v].pc = IF ver[v].todo = {f} THEN "read" ELSE @]
  /\ UNCHANGED <<broken, tasks, feature, proj, active, fin, bounds>>

(* resolve_regressions_for_passing_run, one of the rows listed ...         *)
Resolve(v, f) ==
  /\ ver[v].pc = "resolve" /\ f \in ver[v].todo
  /\ reg' = [reg EXCEPT ![f].st = "resolved"]
  /\ ver' = [ver EXCEPT ![v].todo = @ \ {f}, ![v].f = {f}, ![v].pc = "cancel"]
  /\ UNCHANGED <<broken, tasks, feature, proj, active, fin, bounds>>

(* ... and its repair, as linked when the rows were listed.                *)
Cancel(v, f) ==
  LET r == ver[v].links[f]
  IN  /\ ver[v].pc = "cancel" /\ f \in ver[v].f
      /\ tasks' = IF r # Unlinked /\ tasks[f][r].st \in Active
                    THEN [tasks EXCEPT ![f][r].st = "ended"] ELSE tasks
      /\ ver' = [ver EXCEPT ![v].f = {},
                            ![v].pc = IF ver[v].todo = {} THEN "read" ELSE "resolve"]
      /\ UNCHANGED <<broken, reg, feature, proj, active, fin, bounds>>

RefreshRead(v) ==
  /\ ver[v].pc = "read"
  /\ ver' = [ver EXCEPT ![v].pc = "write", ![v].open = Summary.open,
                        ![v].stall = Summary.stall]
  /\ UNCHANGED <<broken, reg, tasks, feature, proj, active, fin, bounds>>

RefreshWrite(v) ==
  /\ ver[v].pc = "write"
  /\ proj' = Refreshed(ver[v].open, ver[v].stall)
  /\ ver' = [ver EXCEPT ![v].open = 0, ![v].stall = 0,
                        ![v].pc = IF ver[v].failing = {} THEN "derive" ELSE "list"]
  /\ UNCHANGED <<broken, reg, tasks, feature, active, fin, bounds>>

(* The thread after planning; the repair route derives nothing.            *)
Planned(t) ==
  IF t.todo # {} THEN [t EXCEPT !.pc = "plan", !.f = {}, !.round = 0]
  ELSE IF t.route THEN VerIdle
  ELSE [VerIdle EXCEPT !.pc = "derive", !.failing = t.failing]

(* Mutant: repairs are planned only for regressions that are new.          *)
PlanListNew(v) ==
  /\ ver[v].pc = "list"
  /\ ver' = [ver EXCEPT ![v] =
       Planned([@ EXCEPT !.todo = {f \in Open : reg[f].src = v /\ reg[f].occ = 1}])]
  /\ UNCHANGED <<broken, reg, tasks, feature, proj, active, fin, bounds>>

(* plan_repair_tasks_for_run: the open regressions this run saw last.      *)
PlanList(v) ==
  /\ ver[v].pc = "list"
  /\ ver' = [ver EXCEPT ![v] = Planned([@ EXCEPT !.todo = {f \in Open : reg[f].src = v}])]
  /\ UNCHANGED <<broken, reg, tasks, feature, proj, active, fin, bounds>>

(* The repair route plans for the newest failed run.                       *)
RepairRoute(u) ==
  /\ "manual" \in RunTypes /\ ver["manual"].pc = "idle" /\ proj.seen
  /\ \E f \in Open : reg[f].src = u
  /\ ver' = [ver EXCEPT !["manual"] =
       [VerIdle EXCEPT !.pc = "plan", !.todo = {f \in Open : reg[f].src = u},
                       !.route = TRUE]]
  /\ NewRequest
  /\ UNCHANGED <<broken, reg, tasks, feature, proj, active, fin, breaks, fails,
                 restarts>>

(* ensure_repair_task_for_regression: an open regression without a repair  *)
(* under way, and never triaged.                                           *)
NeedsRepair(f) ==
  /\ reg[f].st = "open"
  /\ \/ reg[f].link = Unlinked
     \/ LET t == tasks[f][reg[f].link] IN t.st \notin Active /\ ~t.triage

(* Its round is one more than the tasks there are ...                      *)
PlanOne(v, f) ==
  /\ ver[v].pc = "plan" /\ f \in ver[v].todo
  /\ NeedsRepair(f) => Len(tasks[f]) < MaxRounds
  /\ LET t == [ver[v] EXCEPT !.todo = @ \ {f}]
     IN  ver' = [ver EXCEPT ![v] =
           IF NeedsRepair(f)
             THEN [t EXCEPT !.pc = "task", !.f = {f}, !.round = Len(tasks[f]) + 1]
             ELSE Planned(t)]
  /\ UNCHANGED <<broken, reg, tasks, feature, proj, active, fin, bounds>>

(* ... the task of that round is written, over one another thread wrote    *)
(* for the same round; past the budget it is a triage task ...             *)
PlanTask(v, f) ==
  LET t == [triage |-> ver[v].round > Budget, st |-> "pending", run |-> FALSE]
  IN  /\ ver[v].pc = "task" /\ f \in ver[v].f
      /\ tasks' = IF ver[v].round \in DOMAIN tasks[f]
                    THEN [tasks EXCEPT ![f][ver[v].round].st = "pending"]
                    ELSE [tasks EXCEPT ![f] = Append(@, t)]
      /\ ver' = [ver EXCEPT ![v].pc = "link"]
      /\ UNCHANGED <<broken, reg, feature, proj, active, fin, bounds>>

(* ... and linked; a triaged regression is stalled.                        *)
PlanLink(v, f) ==
  /\ ver[v].pc = "link" /\ f \in ver[v].f
  /\ reg' = [reg EXCEPT ![f].link = ver[v].round,
                        ![f].st = IF ver[v].round > Budget THEN "stalled" ELSE @]
  /\ ver' = [ver EXCEPT ![v] = Planned(@)]
  /\ UNCHANGED <<broken, tasks, feature, proj, active, fin, bounds>>

Derive(v) ==
  /\ ver[v].pc = "derive"
  /\ proj' = [proj EXCEPT !.status = derive_closure_status(ver[v].failing)]
  /\ ver' = [ver EXCEPT ![v] = VerIdle]
  /\ UNCHANGED <<broken, reg, tasks, feature, active, fin, bounds>>

-------------------------------------------------------------------------------
(* Agents.  The scheduler waits for the periodic run, which holds its lock.*)
SlotsFree == "periodic" \in RunTypes => ver["periodic"].pc = "idle"

RepairStart(f, r) ==
  /\ SlotsFree /\ tasks[f][r].st = "pending" /\ ~tasks[f][r].run
  /\ tasks' = [tasks EXCEPT ![f][r].st = "in_progress", ![f][r].run = TRUE]
  /\ UNCHANGED <<broken, reg, feature, proj, active, ver, fin, bounds>>

FeatureComes ==
  /\ feature = "none" /\ feature' = "pending"
  /\ UNCHANGED <<broken, reg, tasks, proj, active, ver, fin, bounds>>

FeatureStart ==
  /\ SlotsFree /\ feature = "pending" /\ ~_is_expansion_blocked
  /\ feature' = "running"
  /\ UNCHANGED <<broken, reg, tasks, proj, active, ver, fin, bounds>>

(* Work that is merged can make any check fail.                            *)
Break(f) ==
  /\ f \notin broken /\ breaks < MaxBreaks
  /\ broken' = broken \cup {f} /\ breaks' = breaks + 1
  /\ UNCHANGED <<reg, tasks, feature, proj, active, ver, fin, fails, requests, restarts>>

(* The agent of a repair completes; its work may not repair anything.      *)
RepairDone(f, r) ==
  /\ fin.pc = "idle" /\ tasks[f][r].run
  /\ tasks' = [tasks EXCEPT ![f][r].st = "ended", ![f][r].run = FALSE]
  /\ \/ broken' = broken \ {f} /\ UNCHANGED fails
     \/ fails < MaxFails /\ fails' = fails + 1 /\ UNCHANGED broken
  /\ fin' = [FinIdle EXCEPT !.pc = "gate", !.f = {f}, !.r = r]
  /\ UNCHANGED <<reg, feature, proj, active, ver, breaks, requests, restarts>>

(* It fails: a retry, by itself or after research, or the end of the task, *)
(* whatever became of the task's row meanwhile.                            *)
RepairFails(f, r) ==
  /\ tasks[f][r].run /\ fails < MaxFails
  /\ \E s \in {"pending", "ended"} :
       tasks' = [tasks EXCEPT ![f][r].st = s, ![f][r].run = FALSE]
  /\ fails' = fails + 1
  /\ UNCHANGED <<broken, reg, feature, proj, active, ver, fin, breaks, requests,
                 restarts>>

(* A feature is done, and may have repaired something.                     *)
FeatureDone ==
  /\ fin.pc = "idle" /\ feature = "running"
  /\ feature' = "none"
  /\ \E S \in SUBSET broken : broken' = broken \ S
  /\ fin' = [FinIdle EXCEPT !.pc = "gate"]
  /\ UNCHANGED <<reg, tasks, proj, active, ver, bounds>>

(* The finish thread goes on if the project counts an open regression.     *)
FinGate ==
  /\ fin.pc = "gate"
  /\ fin' = IF proj.open = 0 THEN FinIdle
            ELSE [fin EXCEPT !.pc = IF fin.f = {} THEN "read" ELSE "resolve"]
  /\ UNCHANGED <<broken, reg, tasks, feature, proj, active, ver, bounds>>

(* resolve_regressions_for_linked_task refreshes only if it resolved one.  *)
FinResolve(f) ==
  LET mine == reg[f].st = "open" /\ reg[f].link = fin.r
  IN  /\ fin.pc = "resolve" /\ f \in fin.f
      /\ reg' = IF mine THEN [reg EXCEPT ![f].st = "resolved"] ELSE reg
      /\ fin' = [FinIdle EXCEPT !.pc = "read", !.again = mine]
      /\ UNCHANGED <<broken, tasks, feature, proj, active, ver, bounds>>

FinRead ==
  /\ fin.pc = "read"
  /\ fin' = [fin EXCEPT !.pc = "write", !.open = Summary.open, !.stall = Summary.stall]
  /\ UNCHANGED <<broken, reg, tasks, feature, proj, active, ver, bounds>>

FinWrite ==
  /\ fin.pc = "write"
  /\ proj' = Refreshed(fin.open, fin.stall)
  /\ fin' = IF fin.again THEN [FinIdle EXCEPT !.pc = "read"] ELSE FinIdle
  /\ UNCHANGED <<broken, reg, tasks, feature, active, ver, bounds>>

-------------------------------------------------------------------------------
(* A restart ends the threads; the agents are closed and their tasks are   *)
(* pending again.  A verification_runs row stays as it is.                 *)
Restart ==
  /\ restarts < MaxRestarts
  /\ restarts' = restarts + 1
  /\ ver' = [v \in RunTypes |-> VerIdle] /\ fin' = FinIdle
  /\ feature' = IF feature = "running" THEN "pending" ELSE feature
  /\ tasks' = [f \in Fingerprints |-> [r \in DOMAIN tasks[f] |->
       [tasks[f][r] EXCEPT !.st = IF @ = "in_progress" THEN "pending" ELSE @, !.run = FALSE]]]
  /\ UNCHANGED <<broken, reg, proj, active, breaks, fails, requests>>

-------------------------------------------------------------------------------
Run(v) ==
  \/ Checks(v) \/ RefreshRead(v) \/ RefreshWrite(v)
  \/ PlanList(v) \/ Derive(v)
  \/ \E f \in Fingerprints :
       \/ Upsert(v, f) \/ Resolve(v, f) \/ Cancel(v, f)
       \/ PlanOne(v, f) \/ PlanTask(v, f) \/ PlanLink(v, f)

FinishThread == FinGate \/ FinRead \/ FinWrite \/ (\E f \in Fingerprints : FinResolve(f))

Agent(f) ==
  \E r \in DOMAIN tasks[f] : RepairStart(f, r) \/ RepairDone(f, r) \/ RepairFails(f, r)

Next ==
  \/ \E v \in RunTypes : Start(v) \/ Run(v) \/ RepairRoute(v)
  \/ \E f \in Fingerprints : Break(f) \/ Agent(f)
  \/ FeatureComes \/ FeatureStart \/ FeatureDone \/ FinishThread \/ Restart

Spec == Init /\ [][Next]_vars

(* Threads that run take their next step; the monitor starts the run that  *)
(* is due, the scheduler comes to every pending task again and again       *)
(* between two periodic runs, and agents end.  Requests are not assumed.   *)
Fairness ==
  /\ \A v \in RunTypes : WF_vars(Run(v))
  /\ "periodic" \in RunTypes => WF_vars(Start("periodic"))
  /\ WF_vars(FinishThread) /\ SF_vars(FeatureStart) /\ SF_vars(FeatureDone)
  /\ \A f \in Fingerprints : SF_vars(Agent(f))

LiveSpec == Spec /\ Fairness

-------------------------------------------------------------------------------
RegRecords == [st : {"none", "open", "stalled", "resolved"}, occ : 0..StallThreshold,
               src : RunTypes \cup {"none"}, link : Nat]
TaskRecords == [triage : BOOLEAN, st : Active \cup {"ended"}, run : BOOLEAN]
ProjRecords == [open : 0..Cardinality(Fingerprints), stall : 0..StallThreshold,
                status : {"yellow", "green", "frozen", "stalled"}, seen : BOOLEAN]
VerRecords == [pc : VerPcs, failing : SUBSET Fingerprints, todo : SUBSET Fingerprints,
               links : [Fingerprints -> Nat], f : SUBSET Fingerprints, round : Nat,
               open : 0..Cardinality(Fingerprints), stall : 0..StallThreshold,
               route : BOOLEAN]
FinRecords == [pc : {"idle", "gate", "resolve", "read", "write"}, f : SUBSET Fingerprints,
               r : Nat, again : BOOLEAN, open : 0..Cardinality(Fingerprints),
               stall : 0..StallThreshold]

(* A link, in the table or in a thread's hands, leads to a task there is,  *)
(* and a thread deals with one regression at a time.                       *)
ThreadLeads(t, table) ==
  /\ \A f \in Fingerprints : t.links[f] <= Len(table[f])
  /\ t.pc \in {"cancel", "task", "link"} => \E g \in Fingerprints : t.f = {g}
  /\ t.pc \in {"task", "link"} => t.round > 0
  /\ \A f \in t.f :
       /\ t.pc = "task" => t.round <= Len(table[f]) + 1
       /\ t.pc = "link" => t.round <= Len(table[f])

LinksLead ==
  /\ \A f \in Fingerprints : reg[f].link <= Len(tasks[f])
  /\ \A v \in RunTypes : ThreadLeads(ver[v], tasks)

(* The state has the shape the code gives it, and links lead somewhere.    *)
TypeOK ==
  /\ broken \subseteq Fingerprints
  /\ reg \in [Fingerprints -> RegRecords]
  /\ tasks \in [Fingerprints -> Seq(TaskRecords)]
  /\ feature \in {"none", "pending", "running"}
  /\ proj \in ProjRecords /\ active \subseteq RunTypes
  /\ ver \in [RunTypes -> VerRecords] /\ fin \in FinRecords
  /\ LinksLead
  /\ breaks \in 0..MaxBreaks /\ fails \in 0..MaxFails
  /\ requests \in 0..MaxRequests /\ restarts \in 0..MaxRestarts

Quiet == fin.pc = "idle" /\ \A v \in RunTypes : ver[v].pc = "idle"

(* Every open regression has its repair, however runs, requests and finish *)
(* threads overlap: when all of them are done, and none was cut short,     *)
(* no failure is left that nobody planned for.                             *)
OpenIsLinked ==
  (Quiet /\ restarts = 0) => \A f \in Open : reg[f].link # Unlinked

(* The project counts other open regressions than it has, and no thread is *)
(* about to refresh the count.                                             *)
StaleCount == Quiet /\ proj.open # Cardinality(Open)

(* A run that a crash left "running" keeps the guard closed.               *)
RunLeftBehind == "periodic" \in active /\ ver["periodic"].pc = "idle"

(* The gate opens again if repair agents repair in the end, whatever fails *)
(* before: nothing but a count gone stale or a run left behind keeps the   *)
(* expansion tasks of a frozen or stalled project waiting for ever.        *)
GateOpensUnlessStale ==
  feature = "pending" ~> (feature = "running" \/ StaleCount \/ RunLeftBehind)

(* "The closure policy no deadlock rule": expansion work gets to run.      *)
GateOpens == feature = "pending" ~> feature = "running"
===============================================================================
