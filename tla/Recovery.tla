------------------------------- MODULE Recovery --------------------------------
(***************************************************************************)
(* What becomes of a task of one project when its agent ends: retries,     *)
(* research feeders, recovery tasks, continuations and validation bugs     *)
(* (swarm/agent_recovery.py, the outcome phases of agent_finish.py,        *)
(* _spawn_validation_bug_task, maintenance/recovery.py).                   *)
(*                                                                         *)
(* Each end of an agent is judged by a finish thread of its own, through   *)
(* many database writes; a step is one write with the read right before    *)
(* it.  The threads meet in the task table: they create tasks, turn each   *)
(* other's dependents over to them and cancel what became superfluous,     *)
(* while the scheduler starts whatever is pending and unblocked.           *)
(*                                                                         *)
(* Tasks that are created are numbered in the order of their creation.     *)
(* What an agent does, whether its work validates and whether a failure is *)
(* one of the infrastructure is left open.  The watchdog is with the life  *)
(* of agents (AgentLifecycle); continuations an agent asks for itself are  *)
(* not modelled.                                                           *)
(***************************************************************************)
EXTENDS Integers, FiniteSets, FiniteSetsExt

CONSTANTS
  Tasks,        \* the tasks there are at first
  Type,         \* their types: "bug" and "feature" (exhausted, they are
                \* researched), "soft" (art_pass: completed), "qa" and "audit"
                \* (cancelled; the recovery of qa never is research)
  Waits,        \* their dependencies
  Attempts,     \* their max_attempts
  Chain,        \* how many "bug-" their ids begin with
  Anchor,       \* head_task_id of the project, or NoTask
  NoTask,
  Finishers,    \* finish threads, and the thread of a request
  Prompt,       \* whether finish threads win their races: no agent begins and
                \* ends, no task starts before its research is injected, and
                \* no operator resets a task, while a thread is about it
  MaxAttempts,                 \* max_attempts of a task that is created ...
  FeederAttempts,              \* ... and of research
  MAX_RESEARCH_FEEDER_CYCLES,
  MAX_RECOVERY_TASKS,          \* _MAX_RECOVERY_TASKS_PER_BRANCH
  DeepChain,                   \* chain depth at which no further bug is made
  MaxNew,       \* bound on tasks created
  MaxFails,     \* bound on agents that fail
  MaxTroubles,  \* bound on resets, pauses and restarts, together
  MaxCleanups   \* bound on cleanups, which do not go with a pause or restart

New == 1..MaxNew
Ids == Tasks \cup New
Types == {"bug", "feature", "soft", "qa", "audit"}

ASSUME RecoveryAssumption ==
  /\ IsFiniteSet(Tasks) /\ Tasks \cap New = {} /\ NoTask \notin Ids
  /\ Type \in [Tasks -> Types] /\ Waits \in [Tasks -> SUBSET Tasks]
  /\ Attempts \in [Tasks -> Nat \ {0}] /\ Chain \in [Tasks -> Nat]
  /\ Anchor \in Tasks \cup {NoTask}
  /\ Prompt \in BOOLEAN
  /\ MaxAttempts \in Nat \ {0} /\ FeederAttempts \in Nat \ {0}
  /\ MAX_RESEARCH_FEEDER_CYCLES \in Nat /\ MAX_RECOVERY_TASKS \in Nat \ {0}
  /\ DeepChain \in Nat \ {0}
  /\ MaxNew \in Nat /\ MaxFails \in Nat /\ MaxTroubles \in Nat /\ MaxCleanups \in Nat

VARIABLES
  row,     \* the tasks rows
  head,    \* head_task_id
  live,    \* tasks with an agent
  fin,     \* the finish threads
  paused,  \* orchestrator.PAUSED_PROJECTS names the project ...
  skips,   \* ... and agent_lifecycle.PAUSED_PROJECTS does
  fails, resets, pauses, cleanups, restarts, \* how often so far
  renewed  \* a recovery was reset

vars == <<row, head, live, fin, paused, skips, fails, resets, renewed, pauses, cleanups,
          restarts>>
bounds == <<fails, resets, renewed, pauses, cleanups, restarts>>

(* A row.  role is what the metadata calls the task, of the task it was    *)
(* made for (feeds_into_task_id, failed_task_id, parent_task, ...), root   *)
(* its recovery_root_task_id.                                              *)
Absent == [st |-> "absent", att |-> 0, max |-> 1, deps |-> {}, type |-> "bug",
           role |-> "plain", of |-> NoTask, root |-> NoTask, depth |-> 0,
           cycles |-> 0, chain |-> 0]
Task(type, role, of, D) ==
  [Absent EXCEPT !.st = "pending", !.max = MaxAttempts, !.deps = D, !.type = type,
                 !.role = role, !.of = of]

(* A thread: the task it is about, the task it turns others over to (x)     *)
(* and away from which (from), those it has to cancel or change (todo) and *)
(* those to follow (kin), the branch whose lock it holds, where it goes on *)
(* (then), what it read of another row (deps, cycles) or of the branch     *)
(* (deps, depth), whether it is about research that was given up, and the  *)
(* tasks that were started since it began.                                 *)
Idle == [pc |-> "idle", t |-> NoTask, x |-> NoTask, from |-> {}, todo |-> {},
         kin |-> {}, lock |-> NoTask, then |-> "idle", deps |-> {}, cycles |-> 0,
         depth |-> 0, exhausted |-> FALSE, seen |-> {}]

Init ==
  /\ row = [t \in Ids |->
       IF t \in Tasks THEN [Task(Type[t], "plain", NoTask, Waits[t])
                              EXCEPT !.max = Attempts[t], !.chain = Chain[t]]
       ELSE Absent]
  /\ head = Anchor /\ live = {}
  /\ fin = [h \in Finishers |-> Idle]
  /\ paused \in BOOLEAN /\ skips = paused
  /\ fails = 0 /\ resets = 0 /\ renewed = FALSE /\ pauses = 0 /\ cleanups = 0 /\ restarts = 0

-------------------------------------------------------------------------------
(* Reading the table.                                                      *)

Rows == {t \in Ids : row[t].st # "absent"}
Active == {t \in Rows : row[t].st \in {"pending", "in_progress"}}
Dependents(t) == {u \in Rows : t \in row[u].deps}
Met(d) == row[d].st \in {"completed", "absent"}

Free == {n \in New : row[n].st = "absent"}
Fresh == CHOOSE n \in Free : \A m \in Free : n <= m

(* The oldest and the newest of some tasks.                                *)
Older(t, u) == t \in Tasks \/ (u \notin Tasks /\ t <= u)
Oldest(S) == CHOOSE t \in S : \A u \in S : Older(t, u)
Newest(S) == CHOOSE t \in S : \A u \in S : Older(u, t)

(* A write of dependencies that would close a cycle is refused, with a     *)
(* ValueError (TaskStore has the search).                                  *)
Acyclic(g) ==
  ~\E C \in SUBSET {u \in Rows : g[u].deps # {}} :
     C # {} /\ \A u \in C : g[u].deps \cap C # {}
Writable(t, D) == t \notin D /\ Acyclic([row EXCEPT ![t].deps = D])

Feeders == {f \in Active : row[f].role = "feeder"}
IsRecovery(t) == row[t].role \in {"recovery", "escalated"}
Root(t) == IF row[t].root # NoTask THEN row[t].root ELSE t
Branch(t) == {u \in Rows : row[u].root = Root(t)}

(* The task "bug-<t>", be it a validation bug or a continuation.           *)
BugOf(t) == {b \in Rows : row[b].role \in {"bug", "continuation"} /\ row[b].of = t}

-------------------------------------------------------------------------------
(* Threads.                                                                *)

At(h, pc) == fin[h].pc = pc
Goes(h, f) == fin' = [fin EXCEPT ![h] = f]
Go(h, pc) == Goes(h, [fin[h] EXCEPT !.pc = pc])
Done(h) == fin' = [fin EXCEPT ![h] = Idle]
Set(t, s) == row' = [row EXCEPT ![t].st = s]
Reset(t) == [row[t] EXCEPT !.st = "pending", !.att = 0]
Else == UNCHANGED <<live, paused, skips, bounds>>

(* An exception ends the thread; it is only printed.                       *)
Refused(h) == Done(h) /\ UNCHANGED row

(* From here on the thread turns the tasks of D over from S to x.          *)
Hands(h, S, x, D) ==
  Goes(h, [fin[h] EXCEPT !.pc = "reparent", !.from = S, !.x = x, !.todo = D, !.kin = {},
                         !.deps = {}, !.depth = 0, !.cycles = 0])

(* The task the thread brings the results of research to.                  *)
Researched(h) ==
  IF fin[h].t \in Rows /\ row[fin[h].t].role = "feeder" THEN row[fin[h].t].of ELSE NoTask

Advanced(S, x) == IF head \in S THEN x ELSE head

Spawn(t) ==
  /\ row[t].st = "pending" /\ t \notin live /\ ~paused
  /\ Prompt => ~\E h \in Finishers : Researched(h) = t
  /\ \A d \in row[t].deps : Met(d)
  /\ Set(t, "in_progress") /\ live' = live \cup {t}
  /\ fin' = [h \in Finishers |-> IF At(h, "idle") THEN Idle
                                ELSE [fin[h] EXCEPT !.seen = @ \cup {t}]]
  /\ UNCHANGED <<head, paused, skips, bounds>>

(* A thread for the end of an agent, or for a request.                     *)
Begin(h, first) == At(h, "idle") /\ Goes(h, first)

AgentEnds(h, t, pc) ==
  /\ t \in live /\ live' = live \ {t}
  /\ Prompt => \A g \in Finishers : t \notin fin[g].seen
  /\ Begin(h, [fin[h] EXCEPT !.pc = pc, !.t = t])
  /\ UNCHANGED <<row, head, paused, skips, resets, renewed, pauses, cleanups, restarts>>

AgentSucceeds(h, t) == AgentEnds(h, t, "complete") /\ UNCHANGED fails
AgentFails(h, t) == AgentEnds(h, t, "judge") /\ fails < MaxFails /\ fails' = fails + 1

(* replace_task_dependencies, for one of the dependents read before: its   *)
(* list is read anew.  The end of it releases the lock of the branch.      *)
Reparent(h, u) ==
  LET f == fin[h]
      D == IF row[u].deps \cap f.from = {} THEN row[u].deps
           ELSE ((row[u].deps \ f.from) \cup {f.x}) \ {u}
  IN
  /\ At(h, "reparent") /\ u \in f.todo
  /\ IF Writable(u, D)
     THEN row' = [row EXCEPT ![u].deps = D] /\ Goes(h, [f EXCEPT !.todo = @ \ {u}])
     ELSE Refused(h)
  /\ UNCHANGED head /\ Else

Reparented(h) ==
  /\ At(h, "reparent") /\ fin[h].todo = {}
  /\ IF fin[h].then = "idle" THEN Done(h)
     ELSE Goes(h, [fin[h] EXCEPT !.pc = fin[h].then, !.lock = NoTask])
  /\ UNCHANGED <<row, head>> /\ Else

-------------------------------------------------------------------------------
(* An agent that succeeded: _phase_complete_task and what follows it.      *)

Complete(h) ==
  LET t == fin[h].t IN
  /\ At(h, "complete")
  /\ Set(t, "completed")
  /\ Goes(h, [fin[h] EXCEPT !.pc = "stale",
       !.todo = {r \in Rows \ {t} : row[r].of = t
                   /\ \/ row[r].role = "recovery" /\ row[r].st = "pending"
                      \/ row[r].role = "feeder" /\ r \in Active}])
  /\ UNCHANGED head /\ Else

(* What was to help the task is no longer needed.                          *)
CancelStale(h, r) ==
  /\ At(h, "stale") /\ r \in fin[h].todo
  /\ Set(r, "cancelled") /\ Goes(h, [fin[h] EXCEPT !.todo = @ \ {r}])
  /\ UNCHANGED head /\ Else

Validated(t) == row[t].type \in {"bug", "feature"}

(* A continuation has done the work of the recovery it continues.          *)
Credit(h) ==
  LET t == fin[h].t  o == row[t].of IN
  /\ At(h, "stale") /\ fin[h].todo = {}
  /\ IF row[t].role = "continuation" /\ row[o].st = "failed" THEN Set(o, "completed")
     ELSE UNCHANGED row
  /\ IF row[t].role = "feeder" THEN Go(h, "apply")
     ELSE IF Validated(t) THEN Go(h, "validate")
     ELSE Done(h)
  /\ UNCHANGED head /\ Else

ValidationPasses(h) ==
  /\ At(h, "validate") /\ Done(h) /\ UNCHANGED <<row, head>> /\ Else

(* The metadata of a bug task, whatever the row had before.                *)
AsBugOf(t, r) ==
  [r EXCEPT !.role = "bug", !.root = NoTask, !.depth = 0, !.cycles = row[t].cycles,
            !.chain = row[t].chain + 1]

(* _spawn_validation_bug_task: the errors may be those another bug is made *)
(* for; a chain of bugs of bugs ends in a recovery; a bug task there is    *)
(* already is only set to pending.                                         *)
ValidationFails(h) ==
  LET t == fin[h].t  b == Fresh IN
  /\ At(h, "validate")
  /\ \/ /\ \E o \in Active \ BugOf(t) : row[o].role = "bug"
        /\ Done(h) /\ UNCHANGED row
     \/ /\ row[t].chain + 1 >= DeepChain
        /\ row' = [row EXCEPT ![t].st = "failed", ![t].att = row[t].max]
        /\ Goes(h, [fin[h] EXCEPT !.pc = "review", !.then = "idle"])
     \/ /\ row[t].chain + 1 < DeepChain /\ BugOf(t) # {}
        /\ row' = [r \in Ids |-> IF r \in BugOf(t) THEN [AsBugOf(t, row[r]) EXCEPT !.st = "pending"]
                                ELSE row[r]]
        /\ Done(h)
     \/ /\ row[t].chain + 1 < DeepChain /\ BugOf(t) = {} /\ Free # {}
        /\ row' = [row EXCEPT ![b] = AsBugOf(t, Task("bug", "bug", t, {t}))]
        /\ Hands(h, {t}, b, Dependents(t))
  /\ UNCHANGED head /\ Else

(* Mutant: a cycle of research is not counted.                             *)
ApplyReadUncounted(h) ==
  LET f == fin[h].t  o == row[f].of IN
  /\ At(h, "apply")
  /\ IF row[o].st \in {"absent", "completed"} THEN Done(h)
     ELSE Goes(h, [fin[h] EXCEPT !.pc = "inject", !.x = o, !.deps = row[o].deps \ {f},
                   !.cycles = row[o].cycles])
  /\ UNCHANGED <<row, head>> /\ Else

(* _apply_research_feeder_result reads the task that was researched ...    *)
ApplyRead(h) ==
  LET f == fin[h].t  o == row[f].of IN
  /\ At(h, "apply")
  /\ IF row[o].st \in {"absent", "completed"} THEN Done(h)
     ELSE Goes(h, [fin[h] EXCEPT !.pc = "inject", !.x = o, !.deps = row[o].deps \ {f},
                   !.cycles = row[o].cycles + 1])
  /\ UNCHANGED <<row, head>> /\ Else

(* ... and writes what it makes of what it read.                           *)
ApplyWrite(h) ==
  LET f == fin[h]  o == f.x
      capped == ~f.exhausted /\ f.cycles > MAX_RESEARCH_FEEDER_CYCLES
      found == [row[o] EXCEPT !.deps = f.deps, !.cycles = f.cycles]
  IN
  /\ At(h, "inject")
  /\ IF capped /\ row[o].type = "soft"
     THEN row' = [row EXCEPT ![o].st = "completed", ![o].cycles = f.cycles]
     ELSE IF ~Writable(o, f.deps) THEN UNCHANGED row
     ELSE row' = [row EXCEPT ![o] =
            IF capped THEN [found EXCEPT !.st = "failed", !.att = found.max]
            ELSE [found EXCEPT !.st = "pending", !.att = 0]]
  /\ Done(h)
  /\ UNCHANGED head /\ Else

-------------------------------------------------------------------------------
(* An agent that failed: _handle_task_failure.                             *)

(* Mutant: a recovery that failed is treated as any other task.            *)
OutcomeNoTerminal(t) ==
  IF row[t].role = "feeder" THEN "exhaust"
  ELSE IF row[t].type = "soft" THEN "soft"
  ELSE IF row[t].type \in {"bug", "feature"} THEN "feed"
  ELSE "dependents"

Outcome(t) ==
  IF row[t].role = "recovery" THEN IF row[t].type = "bug" THEN "feed" ELSE "terminal"
  ELSE IF row[t].role = "feeder" THEN "exhaust"
  ELSE IF row[t].type = "soft" THEN "soft"
  ELSE IF row[t].type \in {"bug", "feature"} THEN "feed"
  ELSE "dependents"

(* A failure of the infrastructure charges no attempt.                     *)
Judge(h) ==
  LET t == fin[h].t IN
  /\ At(h, "judge")
  /\ \/ Set(t, "pending") /\ Done(h)
     \/ /\ row[t].att + 1 < row[t].max
        /\ row' = [row EXCEPT ![t].st = "pending", ![t].att = @ + 1]
        /\ Done(h)
     \/ /\ row[t].att + 1 >= row[t].max
        /\ row' = [row EXCEPT ![t].st = "failed", ![t].att = @ + 1]
        /\ Goes(h, [fin[h] EXCEPT !.pc = Outcome(t), !.cycles = row[t].cycles])
  /\ UNCHANGED head /\ Else

(* Mutant: nobody tells the task the research was for.                     *)
ExhaustOnly(h) ==
  /\ At(h, "exhaust") /\ Set(fin[h].t, "cancelled") /\ Done(h)
  /\ UNCHANGED head /\ Else

(* The research is given up, and the task it was for goes on without it.   *)
Exhaust(h) ==
  /\ At(h, "exhaust")
  /\ Set(fin[h].t, "cancelled")
  /\ Goes(h, [fin[h] EXCEPT !.pc = "apply", !.exhausted = TRUE])
  /\ UNCHANGED head /\ Else

SoftComplete(h) ==
  /\ At(h, "soft") /\ Set(fin[h].t, "completed") /\ Done(h)
  /\ UNCHANGED head /\ Else

(* _spawn_research_feeder: no more of it; not now; the one there is (of    *)
(* the task, or else of the project); a new one.                           *)
Feed(h) ==
  LET t == fin[h].t
      own == {f \in Feeders : row[f].of = t}
  IN
  /\ At(h, "feed")
  /\ IF fin[h].cycles >= MAX_RESEARCH_FEEDER_CYCLES THEN Done(h) /\ UNCHANGED row
     ELSE IF skips THEN row' = [row EXCEPT ![t] = Reset(t)] /\ Done(h)
     ELSE /\ UNCHANGED row
          /\ IF Feeders = {} THEN Go(h, "create")
             ELSE \E f \in IF own # {} THEN own ELSE Feeders :
                    Goes(h, [fin[h] EXCEPT !.pc = "hold", !.x = f])
  /\ UNCHANGED head /\ Else

(* get_project_head: not one that failed or was cancelled.                 *)
LiveHead == {t \in Rows : t = head /\ row[t].st \in {"pending", "in_progress", "completed"}}

CreateFeeder(h) ==
  LET t == fin[h].t IN
  /\ At(h, "create") /\ Free # {}
  /\ row' = [row EXCEPT ![Fresh] =
       [Task("audit", "feeder", t, LiveHead) EXCEPT !.max = FeederAttempts]]
  /\ Goes(h, [fin[h] EXCEPT !.pc = "hold", !.x = Fresh])
  /\ UNCHANGED head /\ Else

(* The task waits for the research.                                        *)
Hold(h) ==
  LET t == fin[h].t  D == row[t].deps \cup {fin[h].x} IN
  /\ At(h, "hold")
  /\ IF Writable(t, D) THEN row' = [row EXCEPT ![t] = [Reset(t) EXCEPT !.deps = D]]
     ELSE UNCHANGED row
  /\ Done(h)
  /\ UNCHANGED head /\ Else

(* What is not researched is cancelled, with a recovery first if other     *)
(* tasks depend on it.                                                     *)
CheckDependents(h) ==
  LET t == fin[h].t IN
  /\ At(h, "dependents")
  /\ Goes(h, IF Dependents(t) \cap Active = {} THEN [fin[h] EXCEPT !.pc = "cancel"]
             ELSE [fin[h] EXCEPT !.pc = "review", !.then = "cancel"])
  /\ UNCHANGED <<row, head>> /\ Else

Cancel(h) ==
  /\ At(h, "cancel") /\ Set(fin[h].t, "cancelled") /\ Done(h)
  /\ UNCHANGED head /\ Else

-------------------------------------------------------------------------------
(* _spawn_review_task and _spawn_terminal_recovery_continuation.           *)

Waiting(t) == {d \in row[t].deps : ~Met(d)}

(* _replacement_task_dependencies: those of the task that are still waited *)
(* for, else those of the branch.  (The genesis task, the last resort, is  *)
(* complete.)                                                              *)
Replacement(t) ==
  LET kin == {u \in {row[t].root, row[t].of} \cap Rows : u # t /\ Waiting(u) # {}} IN
  IF Waiting(t) # {} THEN Waiting(t)
  ELSE IF row[t].deps # {} /\ row[t].role # "recovery" THEN {}
  ELSE IF row[t].root \in kin THEN Waiting(row[t].root)
  ELSE UNION {Waiting(u) : u \in kin}

(* Mutant: a recovery that was not started yet does not count.             *)
AliveStarted(S) == {u \in S : row[u].st \in {"in_progress", "failed"}}

(* Those of a branch that still may do its work.                           *)
Alive(S) == {u \in S : row[u].st \in {"pending", "in_progress", "failed"}}

(* Under the lock of the branch: the task of the branch that goes on, if   *)
(* there is one, and the others that are superfluous.                      *)
ReviewRead(h) ==
  LET t == fin[h].t
      branch == Branch(t)
      alive == Alive(branch)
      running == {u \in alive : row[u].st = "in_progress"}
      x == IF alive = {} THEN NoTask
           ELSE Oldest(IF running # {} THEN running ELSE alive)
      lost == Cardinality({u \in branch : row[u].st \in {"failed", "cancelled"}})
      least == IF Cardinality(branch) >= MAX_RECOVERY_TASKS /\ row[t].type # "qa" THEN 1 ELSE 0
  IN
  /\ At(h, "review")
  /\ \/ skips /\ (IF fin[h].then = "idle" THEN Done(h) ELSE Go(h, fin[h].then))
     \/ /\ ~skips /\ \A g \in Finishers : fin[g].lock # Root(t)
        /\ Goes(h, [fin[h] EXCEPT !.pc = "prune", !.lock = Root(t), !.x = x, !.from = {t},
                    !.todo = {u \in alive \ {x} : row[u].st = "pending"},
                    !.kin = Dependents(t),
                    !.depth = Max({row[t].depth, lost, least}),
                    !.deps = IF branch = {} THEN Replacement(t) ELSE {Newest(branch)}])
  /\ UNCHANGED <<row, head>> /\ Else

Prune(h, r) ==
  /\ At(h, "prune") /\ r \in fin[h].todo
  /\ Set(r, "cancelled") /\ Goes(h, [fin[h] EXCEPT !.todo = @ \ {r}])
  /\ UNCHANGED head /\ Else

(* The one there is takes over.                                            *)
Adopt(h) ==
  LET f == fin[h] IN
  /\ At(h, "prune") /\ f.todo = {} /\ f.x # NoTask
  /\ head' = IF f.then = "head" THEN head ELSE Advanced(f.from, f.x)
  /\ Hands(h, f.from, f.x, f.kin)
  /\ UNCHANGED row /\ Else

(* A new one does, and from the second on it is research.                  *)
CreateRecovery(h) ==
  LET f == fin[h]  t == f.t
      research == f.depth >= 1 /\ row[t].type # "qa"
      new == IF research
             THEN [Task("audit", "escalated", t, f.deps) EXCEPT !.max = FeederAttempts]
             ELSE Task(row[t].type, "recovery", t, f.deps)
  IN
  /\ At(h, "prune") /\ f.todo = {} /\ f.x = NoTask /\ Free # {}
  /\ row' = [row EXCEPT ![Fresh] = [new EXCEPT !.root = f.lock, !.depth = f.depth + 1]]
  /\ head' = Advanced({t}, Fresh)
  /\ Hands(h, {t}, Fresh, f.kin)
  /\ Else

(* A recovery that failed goes on as a bug of its own.                     *)
Terminal(h) ==
  LET t == fin[h].t
      x == IF BugOf(t) # {} THEN CHOOSE b \in BugOf(t) : TRUE ELSE Fresh
      made == IF BugOf(t) # {} THEN row[x] ELSE Task("bug", "continuation", t, {})
  IN
  /\ At(h, "terminal") /\ (BugOf(t) = {} => Free # {})
  /\ IF Writable(x, Replacement(t))
     THEN /\ row' = [row EXCEPT ![x] =
               [made EXCEPT !.st = "pending", !.role = "continuation", !.root = Root(t),
                            !.depth = 0, !.cycles = 0, !.chain = row[t].chain + 1,
                            !.deps = Replacement(t)]]
          /\ head' = Advanced({t}, x)
          /\ Goes(h, [fin[h] EXCEPT !.pc = "reparent", !.from = {t}, !.x = x,
                                    !.todo = Dependents(t) \ {x}])
     ELSE Refused(h) /\ UNCHANGED head
  /\ Else

-------------------------------------------------------------------------------
(* Operators and restarts.                                                 *)

Trouble == resets + pauses + restarts < MaxTroubles
Interruption == Trouble /\ cleanups = 0

ResetRequest(t) ==
  /\ Trouble /\ resets' = resets + 1 /\ renewed' = (renewed \/ IsRecovery(t))
  /\ row[t].st \in {"completed", "failed", "cancelled"}
  /\ Prompt => \A h \in Finishers : fin[h].t # t
  /\ row' = [row EXCEPT ![t] = Reset(t)]
  /\ UNCHANGED <<head, live, fin, paused, skips, fails, pauses, cleanups, restarts>>

(* The route changes the list of the orchestrator only.                    *)
PauseRequest ==
  /\ Interruption /\ pauses' = pauses + 1 /\ paused' = ~paused
  /\ UNCHANGED <<row, head, live, fin, skips, fails, resets, renewed, cleanups, restarts>>

(* cleanup_recovery_branches, for one branch.                              *)
RecoveriesOf(root) == {r \in Rows : row[r].role = "recovery" /\ row[r].root = root}
Continuations(root) == {r \in Rows : row[r].role = "continuation" /\ row[r].root = root}

Best(S) ==
  LET running == {u \in S : row[u].st = "in_progress"} IN
  Oldest(IF running # {} THEN running ELSE S)

Following(S) == {u \in Rows : row[u].deps \cap S # {}}

CleanupRequest(h, root) ==
  LET going == Continuations(root) \cap Active
      trying == RecoveriesOf(root) \cap Active
      lost == {r \in RecoveriesOf(root) : row[r].st = "failed"}
      x == Best(IF going # {} THEN going ELSE trying)
      S == RecoveriesOf(root) \ {x}
  IN
  /\ cleanups < MaxCleanups /\ pauses + restarts = 0 /\ cleanups' = cleanups + 1
  /\ \/ /\ going \cup trying # {}
        /\ Begin(h, [fin[h] EXCEPT !.pc = "prune", !.t = root, !.x = x, !.from = S,
                     !.then = "head", !.todo = {r \in S : row[r].st = "pending"},
                     !.kin = Following(S)])
     \/ /\ going \cup trying = {} /\ lost # {}
        /\ Begin(h, [fin[h] EXCEPT !.pc = "terminal", !.t = Newest(lost), !.then = "sweep",
                     !.deps = RecoveriesOf(root), !.kin = Following(RecoveriesOf(root))])
  /\ UNCHANGED <<row, head, live, paused, skips, fails, resets, renewed, pauses, restarts>>

(* After the continuation, the other recoveries of the branch, and then    *)
(* the head.                                                               *)
Sweep(h) ==
  LET f == fin[h] IN
  /\ At(h, "sweep")
  /\ Goes(h, [f EXCEPT !.pc = "reparent", !.from = f.deps, !.todo = f.kin, !.then = "head"])
  /\ UNCHANGED <<row, head>> /\ Else

SetHead(h) ==
  /\ At(h, "head")
  /\ head' = Advanced(fin[h].from, fin[h].x) /\ Done(h)
  /\ UNCHANGED row /\ Else

Restart ==
  /\ Interruption /\ restarts' = restarts + 1
  /\ row' = [t \in Ids |-> IF row[t].st = "in_progress" THEN [row[t] EXCEPT !.st = "pending"]
                           ELSE row[t]]
  /\ live' = {} /\ fin' = [h \in Finishers |-> Idle] /\ skips' = paused
  /\ UNCHANGED <<head, paused, fails, resets, renewed, pauses, cleanups>>

-------------------------------------------------------------------------------
Step(h) ==
  \/ Reparented(h) \/ Complete(h) \/ Credit(h)
  \/ ValidationPasses(h) \/ ValidationFails(h) \/ ApplyRead(h) \/ ApplyWrite(h)
  \/ Judge(h) \/ Exhaust(h) \/ SoftComplete(h)
  \/ Feed(h) \/ CreateFeeder(h) \/ Hold(h) \/ CheckDependents(h) \/ Cancel(h)
  \/ ReviewRead(h) \/ Adopt(h) \/ CreateRecovery(h) \/ Terminal(h) \/ Sweep(h) \/ SetHead(h)
  \/ \E u \in Ids : Reparent(h, u) \/ CancelStale(h, u) \/ Prune(h, u)

Ends(t) == \E h \in Finishers : AgentSucceeds(h, t) \/ AgentFails(h, t)

Next ==
  \/ \E h \in Finishers : Step(h)
  \/ \E t \in Ids : Spawn(t) \/ Ends(t) \/ ResetRequest(t)
  \/ \E h \in Finishers, t \in Ids : CleanupRequest(h, t)
  \/ PauseRequest \/ Restart

Spec == Init /\ [][Next]_vars

-------------------------------------------------------------------------------
Quiet == \A h \in Finishers : At(h, "idle")

GivenUp(t) == row[t].st = "failed" /\ row[t].cycles >= MAX_RESEARCH_FEEDER_CYCLES

(* t waits for d, however long the chain between them is.                  *)
WaitsFor(t, d) ==
  \A S \in SUBSET Rows : t \in S /\ (\A u \in S : row[u].deps \subseteq S) => d \in S

(* A feeder was chained to the head of the project, and that waits for the *)
(* very task the feeder is for (the write in Hold was refused then).       *)
Entangled(d) == \E f \in Rows \ {d} : row[f].role = "feeder" /\ WaitsFor(f, d)

(* A task of the branch goes on, or the branch is given up openly.         *)
Pursued(d) ==
  \E x \in Rows : /\ row[x].role # "feeder" /\ Root(x) = Root(d)
                 /\ (GivenUp(x) \/ row[x].st \in {"pending", "in_progress", "completed"})

(* No failure is dropped: when no finish thread is at work, a failed task, *)
(* and a cancelled one an active task waits for, has a retry, a recovery,  *)
(* a continuation or research that goes on in its branch, unless its       *)
(* cycles are used up, whatever threads judged other tasks meanwhile.      *)
(* (A restart loses the threads; a cleanup may cancel the recovery an      *)
(* operator reopened while a thread takes it up, and he may reopen a task  *)
(* whose dependency was cancelled when nothing depended on it.)            *)
WorkGoesOn ==
  ~skips /\ ~renewed /\ restarts = 0 /\ Quiet =>
    \A d \in Rows :
      (\/ row[d].st = "failed"
       \/ /\ row[d].st = "cancelled" /\ row[d].role # "feeder" /\ resets = 0
          /\ \E t \in Active : d \in row[t].deps)
      => Pursued(d) \/ Entangled(d)

(* Research that is over releases the task it was for: that is never left  *)
(* waiting for a feeder that was cancelled, although the result is written *)
(* from what was read earlier.                                             *)
FeederReleases ==
  resets = 0 /\ restarts = 0 /\ Quiet =>
    \A f \in Rows :
      LET o == row[f].of IN
      row[f].role = "feeder" /\ row[o].st = "pending" /\ f \in row[o].deps =>
        row[f].st \notin {"failed", "cancelled"}

(* "cap on how many feeders one task can spawn" (constants.py:62): of the  *)
(* feeders of a task there are at most as many.                            *)
FeederCap ==
  \A t \in Ids :
    Cardinality({f \in Rows : row[f].role = "feeder" /\ row[f].of = t})
      <= MAX_RESEARCH_FEEDER_CYCLES

(* Research does not repeat for ever: the cap holds, though the count is   *)
(* kept in the metadata other threads rewrite, until an operator resets a  *)
(* task or a cleanup writes the metadata of a continuation anew.           *)
FeedersBounded == resets = 0 /\ restarts = 0 /\ cleanups = 0 => FeederCap

(* No thread adds a recovery to a branch in which one is pending or runs   *)
(* (the comment on _get_recovery_lock: "an exponential cascade of parallel *)
(* recovery tasks"), unless an operator reopened one.                      *)
RecoveryIsAlone ==
  [][~renewed =>
       \A r \in Free : IsRecovery(r)' =>
         \A u \in Active : IsRecovery(u) => row[u].root # row'[r].root]_vars
===============================================================================
