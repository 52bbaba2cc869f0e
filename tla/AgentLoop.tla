------------------------------ MODULE AgentLoop ------------------------------
(***************************************************************************)
(* One agent process: the tool loop of swarm/agent_runtime.py main().  The *)
(* model's answers are the environment; the process decides after each of  *)
(* them whether to run tools, to ask again, to accept a completion, to     *)
(* hand the task off or to give up, and with which exit code it leaves.    *)
(***************************************************************************)
EXTENDS ModelRouting, Pipeline, FiniteSets, Functions

CONSTANTS Assignments,     \* what a process may be started for: set of records
          Batches,         \* the tool calls one answer can hold: sequences of Tools
          MaxLoops,        \* MAX_TOOL_LOOPS
          ScoutLoops,      \* SCOUT_LOOPS of the task's type
          MalformedLimit,  \* free corrections at one loop position (2)
          TruncatedLimit,  \* answers cut off in a row (3)
          ParseBudget,     \* _PARSE_RETRY_TOTAL_BUDGET (8)
          ReflectionMax    \* _REFLECTION_MAX (40)

ASSUME LoopAssumption ==
  /\ \A t \in Assignments :
       /\ t.type \in {"bug", "qa", "feature", "playthrough_bot"}
       /\ t.chain \in {"free", "ended"}
       /\ t.ceiling \in {"either", "fast", "strong"}
       /\ t.pipeline \in Seq(STRING)
       /\ {t.readonly, t.scouted, t.adaptive} \subseteq BOOLEAN
       /\ ~(t.scouted /\ t.adaptive)
  /\ \A b \in Batches : b \in Seq(Tools) /\ b # <<>>
  /\ {MaxLoops, MalformedLimit, TruncatedLimit, ParseBudget, ReflectionMax} \subseteq Nat \ {0}
  /\ ScoutLoops \in Nat

VARIABLES task,    \* the assignment: type, chain, pipeline, readonly, scouted, adaptive, ceiling
          at,      \* where the process stands
          run,     \* the locals of main() that live across loops
          answer,  \* the response being dealt with and the tier it is charged to
          todo,    \* the calls of the answer still to be executed
          how,     \* what ended the loop
          code,    \* the exit code
          refused  \* "fresh" after a completion was refused for failing output, "tools"
                   \* once a batch followed, "no" again once a command was run

loopVars == <<task, at, run, answer, todo, how, code, refused>>
vars == <<loopVars, pipelineVars, World>>

NoAnswer == [kind |-> "none", tools |-> <<>>, complete |-> FALSE, malformed |-> FALSE]

\* What one response can be: tool calls that parse, a tag left open, a tag whose
\* JSON does not parse, plain text, text that names write_file, or the
\* provider's refusal of a context that is too long.
Answers ==
  {[kind |-> "tools", tools |-> b, complete |-> c, malformed |-> m] :
      b \in Batches, c \in BOOLEAN, m \in BOOLEAN}
  \cup {[kind |-> k, tools |-> <<>>, complete |-> c, malformed |-> FALSE] :
      k \in {"truncated", "invalid", "text", "mention"}, c \in BOOLEAN}
  \cup {[NoAnswer EXCEPT !.kind = "context"]}

Asked(a) == Range(a.tools)

NewRun == [loop |-> 0, malformed |-> 0, truncated |-> 0, parses |-> 0, nudged |-> FALSE,
           outputs |-> "none", passed |-> FALSE, cheap |-> 0, requested |-> {},
           scouting |-> FALSE, tier |-> "default", claimed |-> FALSE, reflections |-> 0]

Init ==
  /\ task \in Assignments
  /\ at = (IF task.pipeline = <<>> THEN "loop" ELSE "pipeline")
  /\ PipelineInit(task.pipeline)
  /\ run = [NewRun EXCEPT !.scouting = task.scouted /\ ScoutLoops > 0]
  /\ answer = NoAnswer /\ todo = <<>> /\ how = "none" /\ code = 0
  /\ locked = FALSE /\ queued = {} /\ cut = FALSE /\ refused = "no"

\* A configured pipeline replaces the loop, unless it cannot be loaded.
PipelineStep ==
  /\ at = "pipeline"
  /\ run_pipeline(task.chain = "free")
  /\ UNCHANGED loopVars

PipelineFallsBack ==
  /\ at = "pipeline" /\ stage = "next" /\ pos = 1 /\ state = NewState
  /\ stage' = "off" /\ at' = "loop"
  /\ UNCHANGED <<task, run, answer, todo, how, code, refused>>
  /\ UNCHANGED <<pipeline, pos, current, repairing, state, job, tree>> /\ UNCHANGED World

\* The exit after a pipeline: claimed files are not unlocked on this way out.
PipelineReturns ==
  /\ at = "pipeline" /\ stage = "done"
  /\ at' = "exited" /\ code' = (IF state.failed THEN 1 ELSE 0)
  /\ UNCHANGED <<task, run, answer, todo, how, refused>> /\ UNCHANGED pipelineVars
  /\ UNCHANGED World

\* The next turn of the loop: tool_loop_count += 1 and continue, with the
\* counters the branch has changed.  A new position has no corrections yet, and no tier.
NextLoop(r) ==
  /\ run' = [r EXCEPT !.loop = @ + 1, !.malformed = 0, !.tier = "default"]
  /\ at' = "loop"
  /\ answer' = NoAnswer /\ todo' = <<>>

\* A break out of the loop: of the locals, the pass and the claims still matter.
Stop(reason) ==
  /\ run' = [NewRun EXCEPT !.passed = run.passed, !.claimed = run.claimed]
  /\ at' = "stopped" /\ how' = reason
  /\ answer' = NoAnswer /\ todo' = <<>>

\* Streaks are only compared with 0 and with the cap, so they are counted to it.
CountCheap(r, tier) ==
  [r EXCEPT !.tier = tier,
            !.cheap = IF tier # "cheap" THEN 0
                      ELSE IF @ < MaxCheap THEN @ + 1 ELSE MaxCheap]

\* The top of the loop up to the response: the scout hands over at its
\* threshold, the router picks a tier, the model answers.  A spent quota can
\* show at any call.
AskModel ==
  /\ at = "loop" /\ run.loop < MaxLoops
  /\ \E a \in Answers, overCap \in BOOLEAN :
       LET scouting == run.scouting /\ run.loop < ScoutLoops
           tier == IF ~task.adaptive THEN "default"
                   ELSE choose_adaptive_flat_provider(task.type, run.loop, run.requested,
                          run.cheap, resolve_policy(task.ceiling, overCap))
           asked == CountCheap([run EXCEPT !.scouting = scouting], tier)
       IN IF a.kind = "context"
          THEN Stop("context")
          ELSE /\ run' = [asked EXCEPT !.requested = Asked(a)]
               /\ answer' = a /\ at' = "answered"
               /\ UNCHANGED <<todo, how>>
  /\ UNCHANGED <<task, code, refused>> /\ UNCHANGED World

ByCheap == at = "answered" /\ task.adaptive /\ run.tier = "cheap"
Escalates == ByCheap /\ Asked(answer) \cap STRONG_TOOLS # {}

\* A cheap answer that asks for a strong tool is asked again of the strong
\* provider.  Whether TASK_COMPLETE was said is not looked up again, and a
\* context error of this second call is read as text.
Escalate ==
  /\ Escalates
  /\ \E a \in Answers :
       /\ answer' = [a EXCEPT !.complete = answer.complete,
                              !.kind = IF @ = "context" THEN "text" ELSE @]
       /\ run' = [run EXCEPT !.tier = "strong", !.requested = Asked(a)]
  /\ UNCHANGED <<task, at, todo, how, code, refused>> /\ UNCHANGED World

\* A cheap answer that says TASK_COMPLETE is turned down, its tools with it,
\* and the streak is set so that the router is to pick the strong tier next.
GuardCheap ==
  /\ ByCheap /\ ~Escalates /\ answer.complete
  /\ NextLoop([run EXCEPT !.requested = {}, !.cheap = MaxCheap])
  /\ UNCHANGED <<task, how, code, refused>> /\ UNCHANGED World

Settled == at = "answered" /\ ~Escalates /\ ~(ByCheap /\ answer.complete)

\* Mutant: corrections are free however often they were given.
MayAlwaysCorrect == TRUE

MayCorrect == run.malformed < MalformedLimit

\* Calls without their required arguments are sent back at no cost, twice.
Correct ==
  /\ Settled /\ answer.malformed /\ MayCorrect
  /\ run' = [run EXCEPT !.malformed = @ + (IF @ < MalformedLimit THEN 1 ELSE 0)]
  /\ at' = "loop" /\ answer' = NoAnswer
  /\ UNCHANGED <<task, todo, how, code, refused>> /\ UNCHANGED World

\* A response cut off inside a call, or one whose call does not parse: asked
\* again until too many came in a row or in all.
RetryParse ==
  /\ Settled /\ answer.kind \in {"truncated", "invalid"}
  /\ LET r == [run EXCEPT !.parses = @ + 1,
                          !.truncated = IF answer.kind = "truncated" THEN @ + 1 ELSE @]
     IN IF \/ answer.kind = "truncated" /\ r.truncated >= TruncatedLimit
           \/ r.parses >= ParseBudget
        THEN Stop("failed")
        ELSE NextLoop(r) /\ UNCHANGED how
  /\ UNCHANGED <<task, code, refused>> /\ UNCHANGED World

\* No call and no completion: told to write smaller files, or nudged once, or failed.
Nudge ==
  /\ Settled /\ answer.kind \in {"text", "mention"} /\ ~answer.complete
  /\ IF answer.kind = "mention" THEN NextLoop(run) /\ UNCHANGED how
     ELSE IF ~run.nudged THEN NextLoop([run EXCEPT !.nudged = TRUE]) /\ UNCHANGED how
     ELSE Stop("failed")
  /\ UNCHANGED <<task, code, refused>> /\ UNCHANGED World

\* The calls are taken up: the evidence of the batch before is dropped,
\* whatever the new batch does.
BeginBatch ==
  /\ Settled /\ answer.kind = "tools" /\ ~(answer.malformed /\ MayCorrect)
  /\ run' = [run EXCEPT !.truncated = 0, !.outputs = "none", !.nudged = FALSE]
  /\ todo' = answer.tools /\ at' = "calls"
  /\ refused' = (IF refused = "fresh" THEN "tools" ELSE refused)
  /\ UNCHANGED <<task, answer, how, code>> /\ UNCHANGED World

Calling(tools) == at = "calls" /\ todo # <<>> /\ Head(todo) \in tools
Blocked == run.scouting /\ Head(todo) = "write"

\* A call without an effect on the loop: a read, any other tool, a write the
\* scout may not do or one to a file already claimed.
CallPlain ==
  /\ at = "calls" /\ todo # <<>> /\ Head(todo) # "run"
  /\ Head(todo) = "write" => Blocked \/ run.claimed
  /\ todo' = Tail(todo)
  /\ UNCHANGED <<task, at, run, answer, how, code, refused>> /\ UNCHANGED World

\* The first write of a file asks for its lock; the request can be granted
\* with the answer lost, and a refused one needs no hand-off to come of it.
CallWrite ==
  /\ Calling({"write"}) /\ ~Blocked /\ ~run.claimed
  /\ \E granted, heard \in BOOLEAN :
       /\ locked' = (locked \/ granted)
       /\ run' = [run EXCEPT !.claimed = granted /\ heard]
  /\ todo' = Tail(todo)
  /\ UNCHANGED <<task, at, answer, how, code, queued, cut, refused>>

\* Mutant: the loop goes on after a hand-off.
HandOverGoesOn == todo' = Tail(todo) /\ UNCHANGED <<at, run, answer, how>>

HandOver == Stop("handoff")

\* A write that met another task's lock and had its continuation created: the
\* rest of the batch is dropped and the task ends as complete.
CallHandoff ==
  /\ Calling({"write"}) /\ ~Blocked /\ ~run.claimed
  /\ queued' = queued \cup {"handoff"}
  /\ HandOver
  /\ UNCHANGED <<task, code, locked, cut, refused>>

\* A command: its output can be empty, clean, or hold a line that matches a
\* failure pattern.  Only a playthrough bot's self-test leaves a pass behind.
CallRun ==
  /\ Calling({"run"})
  /\ \E out \in {"none", "clean", "failing"}, pass \in BOOLEAN :
       /\ pass => task.type = "playthrough_bot" /\ out = "clean"
       /\ run' = [run EXCEPT !.passed = @ \/ pass,
                             !.outputs = IF "failing" \in {@, out} THEN "failing"
                                         ELSE IF out = "clean" THEN "clean" ELSE @]
  /\ todo' = Tail(todo) /\ refused' = "no"
  /\ UNCHANGED <<task, at, answer, how, code>> /\ UNCHANGED World

\* TASK_COMPLETE is considered at once where there was no call, else after them.
BatchDone == at = "calls" /\ todo = <<>>
Claims == /\ answer.complete
          /\ BatchDone \/ (Settled /\ answer.kind \in {"text", "mention"})

Untested == task.type = "playthrough_bot" /\ ~run.passed

\* Mutant: a refusal clears the failing output, as an earlier version did.
NoEvidence == "none"

\* What the refusal of a completion keeps of the failing output.
KeptEvidence == run.outputs

RefuseUntested ==
  /\ Claims /\ Untested
  /\ NextLoop(run)
  /\ UNCHANGED <<task, how, code, refused>> /\ UNCHANGED World

RefuseFailing ==
  /\ Claims /\ ~Untested /\ run.outputs = "failing"
  /\ NextLoop([run EXCEPT !.outputs = KeptEvidence])
  /\ refused' = "fresh"
  /\ UNCHANGED <<task, how, code>> /\ UNCHANGED World

Accept ==
  /\ Claims /\ ~Untested /\ run.outputs # "failing"
  /\ Stop("complete")
  /\ UNCHANGED <<task, code, refused>> /\ UNCHANGED World

\* A batch without a completion: the conversation is compacted and the loop goes on.
EndBatch ==
  /\ BatchDone /\ ~answer.complete
  /\ NextLoop(run)
  /\ UNCHANGED <<task, how, code, refused>> /\ UNCHANGED World

LoopLimit ==
  /\ at = "loop" /\ run.loop = MaxLoops
  /\ Stop("limit")
  /\ UNCHANGED <<task, code, refused>> /\ UNCHANGED World

\* Mutant: every run that used its loops up is complete.
LimitIsComplete == how \in {"complete", "handoff", "limit"}

\* task_complete_hit: running out of loops counts as complete too, except for
\* a playthrough bot without its pass.
TaskComplete == \/ how \in {"complete", "handoff"}
                \/ how = "limit" /\ (task.type # "playthrough_bot" \/ run.passed)

NoReflection == {"qa"}
NoContinuation == {"qa"}

Reflects == /\ at = "stopped" /\ how \in {"complete", "handoff"}
            /\ ~task.readonly /\ task.type \notin NoReflection

\* One call of the graph reflection after a completion.  Answers without a
\* usable call and calls that edit the graph cost one of its calls alike.
Reflect ==
  /\ Reflects /\ run.reflections < ReflectionMax
  /\ run' = [run EXCEPT !.reflections = @ + 1]
  /\ UNCHANGED <<task, at, answer, todo, how, code, refused>> /\ UNCHANGED World

\* The reflection ends (done, out of calls, or failed) or there is none, and
\* what is left uncommitted is committed.
Close ==
  /\ at = "stopped" /\ how # "context"
  /\ at' = "closing"
  /\ UNCHANGED <<task, run, answer, todo, how, code, refused>> /\ UNCHANGED World

SpawnAtLimit == how = "limit" /\ task.type \notin NoContinuation /\ ~task.readonly
                              /\ task.chain = "free"

\* Running out of loops leaves a continuation behind; running out of context
\* takes its own way out and does so too, whatever the task's type.
Continue ==
  /\ \/ at = "closing" /\ spawn_continuation_task(SpawnAtLimit)
     \/ at = "stopped" /\ how = "context" /\ spawn_continuation_task(task.chain = "free")
  /\ at' = "leaving"
  /\ UNCHANGED <<task, run, answer, todo, how, code, locked, refused>>

\* The claimed files are unlocked, each by a request whose failure is
\* swallowed, and the process exits.
Leave ==
  /\ at = "leaving"
  /\ \E heard \in BOOLEAN : locked' = (locked /\ ~(run.claimed /\ heard))
  /\ run' = [run EXCEPT !.claimed = FALSE]
  /\ code' = (IF how = "context" \/ TaskComplete THEN 0 ELSE 1)
  /\ at' = "exited"
  /\ UNCHANGED <<task, answer, todo, how, queued, cut, refused>>

Exited == at = "exited" /\ UNCHANGED vars

Piped == PipelineStep \/ PipelineFallsBack \/ PipelineReturns
Answered == Escalate \/ GuardCheap \/ Correct \/ RetryParse \/ Nudge \/ BeginBatch
Called == CallPlain \/ CallWrite \/ CallHandoff \/ CallRun \/ EndBatch
Claimed == RefuseUntested \/ RefuseFailing \/ Accept
Ending == LoopLimit \/ Reflect \/ Close \/ Continue \/ Leave
Looped == AskModel \/ Answered \/ Called \/ Claimed \/ Ending
Next == Piped \/ (Looped /\ UNCHANGED pipelineVars) \/ Exited

\* main() runs by itself: every call of the model and every tool returns, each
\* under a timeout of its own.
Spec == Init /\ [][Next]_vars /\ WF_vars(Next)

-----------------------------------------------------------------------------
Runs == [loop : 0..MaxLoops, malformed : 0..MalformedLimit,
         truncated : 0..TruncatedLimit, parses : 0..ParseBudget, nudged : BOOLEAN,
         outputs : {"none", "clean", "failing"}, passed : BOOLEAN, cheap : 0..MaxCheap,
         requested : SUBSET Tools, scouting : BOOLEAN,
         tier : {"default", "cheap", "strong"}, claimed : BOOLEAN,
         reflections : 0..ReflectionMax]

AnswerRecords ==
  [kind : {"none", "tools", "truncated", "invalid", "text", "mention", "context"},
   tools : Seq(Tools), complete : BOOLEAN, malformed : BOOLEAN]

LoopTypeOK ==
  /\ task \in Assignments /\ run \in Runs
  /\ at \in {"pipeline", "loop", "answered", "calls", "stopped", "closing",
             "leaving", "exited"}
  /\ answer \in AnswerRecords /\ todo \in Seq(Tools)
  /\ how \in {"none", "complete", "failed", "context", "limit", "handoff"}
  /\ code \in 0..1 /\ refused \in {"no", "fresh", "tools"}

TypeOK == LoopTypeOK /\ PipelineTypeOK /\ WorldTypeOK

\* Saying it again is not fixing it: a completion refused because the last
\* output held failures is not accepted before the agent has used a tool, by
\* whichever of the two paths (with or without calls) it is repeated.
RefusalSticks == how = "complete" => refused # "fresh"

\* What the comment on the refusal promises: the failing output counts until
\* the agent runs a command again.
EvidencePersists == how = "complete" => refused = "no"

\* A playthrough bot succeeds only after its self-test passed in this run,
\* unless its work went on to another task: also when its loops run out.
SelfTestGates ==
  at = "exited" /\ code = 0 /\ task.type = "playthrough_bot" /\ stage = "off"
    => run.passed \/ how \in {"handoff", "context"}

\* A run never leaves two tasks to do what it left undone: the hand-off to a
\* file's owner and the continuations at the loop and the context limit
\* exclude each other.  (A pipeline's work phase ignores the hand-off it caused.)
OneFollowUp == at # "pipeline" /\ how # "none" => Cardinality(queued) <= 1

\* However the model answers (cut off, malformed, empty, refused for ever), the
\* process comes to its exit.
Terminates == <>(at = "exited")

=============================================================================
