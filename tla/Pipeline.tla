------------------------------ MODULE Pipeline ------------------------------
(***************************************************************************)
(* The phase pipeline of an agent process: swarm/pipeline.py run_pipeline  *)
(* with the phases of swarm/phases/.  Phases run in the configured order,  *)
(* which an experiment may shuffle; a failed validation gets the work      *)
(* phase and the validation once more before the pipeline gives up.        *)
(***************************************************************************)
EXTENDS Naturals, Sequences

CONSTANTS MaxRepairs,    \* max_repair_attempts
          PhaseLoops,    \* the loop limits of the phases
          ScoutFloor,    \* loops before a scout's report is taken (3 or 5)
          SynthAttempts  \* SYNTHESIZE_MAX_ATTEMPTS

ASSUME PipelineAssumption ==
  {MaxRepairs, PhaseLoops, ScoutFloor, SynthAttempts} \subseteq Nat /\ PhaseLoops > 0 /\ SynthAttempts > 0

VARIABLES pipeline,  \* the configured phase names
          pos,       \* the phase to run next, or running
          stage,     \* "off", "next", "phase" (one is running), "done"
          current,   \* the phase that is running
          repairing, \* "no", or the phase of the repair that is running
          state,     \* the TaskState handed from phase to phase
          job,       \* the locals of the running phase
          tree,      \* the work tree: [dirty: uncommitted changes, valid: validated as it is]
          locked,    \* the server holds a file lock for this task
          queued,    \* the follow-ups this process had created: "handoff", "continuation"
          cut        \* a request for a follow-up failed on the way

pipelineVars == <<pipeline, pos, stage, current, repairing, state, job, tree>>
World == <<locked, queued, cut>>

PHASE_REGISTRY == {"plan", "scout", "diagnose", "art", "synthesize", "create_tasks", "work", "validate"}

NewJob == [loop |-> 1, mutated |-> FALSE, commit |-> "none", premature |-> 0, completed |-> FALSE]
NewState == [failed |-> FALSE, infra |-> FALSE, attempts |-> 0, fast |-> FALSE, proposed |-> FALSE]

PipelineInit(phases) ==
  /\ pipeline = phases /\ pos = 1 /\ repairing = "no" /\ current = "none"
  /\ stage = (IF phases = <<>> THEN "off" ELSE "next")
  /\ state = NewState /\ job = NewJob
  /\ tree = [dirty |-> FALSE, valid |-> FALSE]

At(phase) == stage = "phase" /\ current = phase

\* The next name of the pipeline: an unknown one is skipped.
NextPhase ==
  /\ stage = "next"
  /\ IF pos > Len(pipeline)
     THEN stage' = "done" /\ UNCHANGED <<pos, current, job>>
     ELSE IF pipeline[pos] \notin PHASE_REGISTRY
     THEN pos' = pos + 1 /\ UNCHANGED <<stage, current, job>>
     ELSE stage' = "phase" /\ current' = pipeline[pos] /\ job' = NewJob /\ UNCHANGED pos
  /\ UNCHANGED <<pipeline, repairing, state, tree>> /\ UNCHANGED World

\* A validation that failed is repaired while attempts are left, unless the
\* failure is the controller's own.
Repairs(s) ==
  /\ s.failed /\ current = "validate" /\ ~s.infra /\ s.attempts < MaxRepairs
  /\ \E i \in DOMAIN pipeline : pipeline[i] = "work"

\* Mutant: the repair's work is not validated again.
RepairWorkOnly(phase) == "no"

\* The repair runs the work phase and then the validation that failed.
RepairNext(phase) == IF phase = "work" THEN "validate" ELSE "no"

Left == current' = "none" /\ job' = NewJob

\* What follows a phase that left s behind, having raised or not.  A repair
\* that fails does not stop the pipeline: its next phase runs.
After(s, raised) ==
  IF repairing # "no"
  THEN LET following == IF s.failed \/ raised THEN "no" ELSE RepairNext(repairing)
       IN /\ state' = s /\ repairing' = following
          /\ IF following # "no"
             THEN current' = following /\ job' = NewJob /\ UNCHANGED <<stage, pos>>
             ELSE stage' = "next" /\ pos' = pos + 1 /\ Left
  ELSE IF ~raised /\ Repairs(s)
  THEN /\ state' = [s EXCEPT !.failed = FALSE, !.infra = FALSE, !.attempts = @ + 1]
       /\ repairing' = "work" /\ current' = "work" /\ job' = NewJob
       /\ UNCHANGED <<stage, pos>>
  ELSE /\ state' = s
       /\ IF raised \/ s.failed THEN stage' = "done" /\ UNCHANGED pos
          ELSE stage' = "next" /\ pos' = pos + 1
       /\ Left /\ UNCHANGED repairing

Fail(s) == [s EXCEPT !.failed = TRUE]

\* An exception in a phase, a model that cannot be reached among them; what it
\* is classified as decides on a later repair.
Raise ==
  /\ stage = "phase" /\ ~job.completed
  /\ \E infra \in BOOLEAN : After([Fail(state) EXCEPT !.infra = infra], TRUE)
  /\ UNCHANGED <<pipeline, tree>> /\ UNCHANGED World

Again(j) == /\ job' = [j EXCEPT !.loop = @ + 1]
            /\ UNCHANGED <<pos, stage, current, repairing, state>>

\* One more round of a phase that only looks at the project.
Inspecting == {"plan", "scout", "diagnose", "art"}
Inspect ==
  /\ stage = "phase" /\ current \in Inspecting /\ job.loop < PhaseLoops
  /\ current = "scout" => ~state.fast
  /\ Again(job)
  /\ UNCHANGED <<pipeline, tree>> /\ UNCHANGED World

\* The plan: concrete, perhaps declaring the task trivial, or the synthetic
\* one when the loops are used up.
PlanPhase ==
  /\ At("plan")
  /\ \E fast \in BOOLEAN : After([state EXCEPT !.fast = fast], FALSE)
  /\ UNCHANGED <<pipeline, tree>> /\ UNCHANGED World

\* The scout: skipped for a trivial task, its report taken from the floor on,
\* and pieced together from the conversation when the loops are used up.
ScoutPhase ==
  /\ At("scout")
  /\ state.fast \/ job.loop >= ScoutFloor \/ job.loop = PhaseLoops
  /\ After(state, FALSE)
  /\ UNCHANGED <<pipeline, tree>> /\ UNCHANGED World

\* Diagnosis and art direction end in a report in any case.
ReportPhase ==
  /\ stage = "phase" /\ current \in {"diagnose", "art"}
  /\ After(state, FALSE)
  /\ UNCHANGED <<pipeline, tree>> /\ UNCHANGED World

\* The synthesis: a few attempts at parsing one, else a fallback that proposes nothing.
SynthesizePhase ==
  /\ At("synthesize")
  /\ \/ job.loop < SynthAttempts /\ Again(job)
     \/ \E proposed \in BOOLEAN : After([state EXCEPT !.proposed = proposed], FALSE)
  /\ UNCHANGED <<pipeline, tree>> /\ UNCHANGED World

\* The proposed tasks are created, or the loops are used up, which fails nothing.
CreateTasksPhase ==
  /\ At("create_tasks")
  /\ \/ state.proposed /\ job.loop < PhaseLoops /\ Again(job)
     \/ After(state, FALSE)
  /\ UNCHANGED <<pipeline, tree>> /\ UNCHANGED World

-----------------------------------------------------------------------------
Working == At("work") /\ job.loop <= PhaseLoops /\ ~job.completed

\* A call of the work phase.  A write may meet a lock and have a hand-off
\* created, which the phase takes as a failed call like any other; a shell
\* command may change files, or commit them, unnoticed.
WorkWrite ==
  /\ Working
  /\ \/ locked' = TRUE /\ tree' = [dirty |-> TRUE, valid |-> FALSE] /\ UNCHANGED queued
     \/ ~locked /\ queued' = queued \cup {"handoff"} /\ UNCHANGED <<locked, tree>>
  /\ Again([job EXCEPT !.mutated = TRUE])
  /\ UNCHANGED <<pipeline, cut>>

WorkCommit ==
  /\ Working
  /\ \E ok \in BOOLEAN :
       /\ tree' = [tree EXCEPT !.dirty = @ /\ ~ok]
       /\ Again([job EXCEPT !.mutated = TRUE, !.commit = IF ok THEN "tool" ELSE @])
  /\ UNCHANGED pipeline /\ UNCHANGED World

WorkShell ==
  /\ Working
  /\ \/ tree' = [tree EXCEPT !.dirty = FALSE]
     \/ tree' = [dirty |-> TRUE, valid |-> FALSE]
     \/ UNCHANGED tree
  /\ Again(job)
  /\ UNCHANGED pipeline /\ UNCHANGED World

Finish(j) == /\ job' = [j EXCEPT !.completed = TRUE]
             /\ UNCHANGED <<pos, stage, current, repairing, state>>

NeedsCommit == job.mutated /\ job.commit = "none"

\* WORK_COMPLETE with no write, or with a commit behind it.
WorkComplete ==
  /\ Working /\ ~NeedsCommit
  /\ Finish(job)
  /\ UNCHANGED <<pipeline, tree>> /\ UNCHANGED World

\* Mutant: the third claim is taken as it is.
ThirdClaimIsTaken == Finish([job EXCEPT !.commit = "auto"]) /\ UNCHANGED tree

\* The third claim is answered by a commit made for the agent, which can fail.
AutoCommit ==
  \/ Finish([job EXCEPT !.commit = "auto"]) /\ tree' = [tree EXCEPT !.dirty = FALSE]
  \/ Again([job EXCEPT !.premature = 3]) /\ UNCHANGED tree

\* WORK_COMPLETE with writes and no commit yet: fine if the tree is clean,
\* otherwise sent back twice.  The status of the tree may not be had.
WorkPremature ==
  /\ Working /\ NeedsCommit
  /\ \/ ~tree.dirty /\ Finish([job EXCEPT !.commit = "run_command"]) /\ UNCHANGED tree
     \/ job.premature < 2 /\ Again([job EXCEPT !.premature = @ + 1]) /\ UNCHANGED tree
     \/ job.premature >= 2 /\ AutoCommit
  /\ UNCHANGED pipeline /\ UNCHANGED World

\* The request that creates the continuation: its failure is only logged.
spawn_continuation_task(wanted) ==
  \/ wanted /\ queued' = queued \cup {"continuation"} /\ UNCHANGED cut
  \/ wanted /\ cut' = TRUE /\ UNCHANGED queued
  \/ ~wanted /\ UNCHANGED <<queued, cut>>

\* Out of loops: a continuation is asked for (where the task may have one) and
\* the phase fails.
WorkEnds(continues) ==
  /\ At("work")
  /\ \/ job.completed /\ After(state, FALSE) /\ UNCHANGED <<queued, cut>>
     \/ /\ ~job.completed /\ job.loop > PhaseLoops
        /\ After(Fail(state), FALSE)
        /\ spawn_continuation_task(continues)
  /\ UNCHANGED <<pipeline, tree, locked>>

\* The validation: it passes (with no error that is new since the agent was
\* started), or fails, or cannot be carried out.
ValidatePhase ==
  /\ At("validate")
  /\ \/ tree' = [tree EXCEPT !.valid = TRUE] /\ After(state, FALSE)
     \/ UNCHANGED tree /\ After(Fail(state), FALSE)
  /\ UNCHANGED pipeline /\ UNCHANGED World

Look == Inspect \/ PlanPhase \/ ScoutPhase \/ ReportPhase \/ SynthesizePhase \/ CreateTasksPhase
Work(continues) == WorkWrite \/ WorkCommit \/ WorkShell \/ WorkComplete \/ WorkPremature
                     \/ WorkEnds(continues)
run_pipeline(continues) == NextPhase \/ Look \/ Work(continues) \/ ValidatePhase \/ Raise

-----------------------------------------------------------------------------
TaskStates == [failed : BOOLEAN, infra : BOOLEAN, attempts : 0..MaxRepairs,
               fast : BOOLEAN, proposed : BOOLEAN]
Jobs == [loop : 1..(PhaseLoops + SynthAttempts), mutated : BOOLEAN,
         commit : {"none", "tool", "run_command", "auto"}, premature : 0..3,
         completed : BOOLEAN]

PipelineTypeOK ==
  /\ pipeline \in Seq(STRING) /\ pos \in 1..(Len(pipeline) + 1)
  /\ stage \in {"off", "next", "phase", "done"}
  /\ current \in PHASE_REGISTRY \cup {"none"} /\ repairing \in {"no", "work", "validate"}
  /\ state \in TaskStates /\ job \in Jobs
  /\ tree \in [dirty : BOOLEAN, valid : BOOLEAN]

WorldTypeOK ==
  /\ {locked, cut} \subseteq BOOLEAN /\ queued \subseteq {"handoff", "continuation"}

Places(name) == {i \in DOMAIN pipeline : pipeline[i] = name}

\* A pipeline that ends well, and was to validate after its last work phase,
\* leaves a tree that passed validation as it is, repairs included.
SuccessIsValidated ==
  /\ stage = "done" /\ ~state.failed
  /\ \E v \in Places("validate") : \A w \in Places("work") : w < v
  /\ Places("work") # {}
  => tree.valid

\* The work phase is left as completed with uncommitted changes only where a
\* git_commit of the agent went before: repeating WORK_COMPLETE does not get it there.
CompletedWorkWasCommitted ==
  At("work") /\ job.completed /\ job.mutated /\ tree.dirty => job.commit = "tool"

\* What run_pipeline's docstring says it returns: the state after all phases,
\* or after the first failure.  No phase runs on a state that has failed.
StopsAtFirstFailure == stage = "phase" => ~state.failed
=============================================================================
