---------------------------- MODULE AgentLoopProofs ----------------------------
(***************************************************************************)
(* Proofs about the agent process, for every set of assignments, every set *)
(* of answers the model may give and every limit on loops and corrections. *)
(***************************************************************************)
EXTENDS AgentLoop, FiniteSetTheorems, SequenceTheorems, TLAPS

(* The limits, one by one.                                                 *)
LEMMA Limits ==
  /\ MaxLoops \in Nat /\ MaxLoops > 0 /\ MalformedLimit \in Nat /\ MalformedLimit > 0
  /\ TruncatedLimit \in Nat /\ TruncatedLimit > 0 /\ ParseBudget \in Nat /\ ParseBudget > 0
  /\ ReflectionMax \in Nat /\ ReflectionMax > 0 /\ MaxCheap \in Nat /\ MaxCheap > 0
  /\ MaxRepairs \in Nat /\ PhaseLoops \in Nat /\ PhaseLoops > 0
  /\ SynthAttempts \in Nat /\ SynthAttempts > 0
<1>1. {MaxLoops, MalformedLimit, TruncatedLimit, ParseBudget, ReflectionMax} \subseteq Nat \ {0}
  BY LoopAssumption
<1> QED BY <1>1, PipelineAssumption, MaxCheapAssumption

-------------------------------------------------------------------------------
(* Where the process stands says whether the loop has ended and whether it *)
(* may take another turn.                                                  *)
Position ==
  /\ at \in {"pipeline", "loop", "answered", "calls"} => how = "none"
  /\ at \in {"stopped", "closing", "leaving"} => how # "none"
  /\ at \in {"answered", "calls"} => run.loop < MaxLoops
  /\ at = "calls" => answer.kind = "tools"

LoopInv == LoopTypeOK /\ Position

(* An answer has its fields; whatever it asks for are tools.               *)
LEMMA AnswersAreRecords ==
  ASSUME NEW a \in Answers \cup {NoAnswer}
  PROVE  a \in AnswerRecords /\ Asked(a) \in SUBSET Tools
<1>1. a \in AnswerRecords
  <2> <<>> \in Seq(Tools)
    BY EmptySeq
  <2>1. NoAnswer \in AnswerRecords
    BY DEF NoAnswer, AnswerRecords
  <2>2. [NoAnswer EXCEPT !.kind = "context"] \in AnswerRecords
    BY <2>1 DEF AnswerRecords
  <2>3. ASSUME NEW b \in Batches, NEW c \in BOOLEAN, NEW m \in BOOLEAN
        PROVE  [kind |-> "tools", tools |-> b, complete |-> c, malformed |-> m] \in AnswerRecords
    BY LoopAssumption DEF AnswerRecords
  <2>4. ASSUME NEW k \in {"truncated", "invalid", "text", "mention"}, NEW c \in BOOLEAN
        PROVE  [kind |-> k, tools |-> <<>>, complete |-> c, malformed |-> FALSE] \in AnswerRecords
    BY DEF AnswerRecords
  <2> QED BY <2>1, <2>2, <2>3, <2>4 DEF Answers
<1>2. Asked(a) \in SUBSET Tools
  BY <1>1 DEF AnswerRecords, Asked, Range
<1> QED BY <1>1, <1>2

(* The strong provider's answer keeps the cheap one's claim.               *)
LEMMA EscalatedIsAnswer ==
  ASSUME NEW a \in AnswerRecords, NEW c \in BOOLEAN
  PROVE  [a EXCEPT !.complete = c, !.kind = IF @ = "context" THEN "text" ELSE @]
           \in AnswerRecords
<1> DEFINE k == IF a.kind = "context" THEN "text" ELSE a.kind
<1>1. k \in {"none", "tools", "truncated", "invalid", "text", "mention", "context"}
  BY DEF AnswerRecords
<1>2. [a EXCEPT !.complete = c, !.kind = k] \in AnswerRecords
  <2> HIDE DEF k
  <2> QED BY <1>1 DEF AnswerRecords
<1>3. [a EXCEPT !.complete = c].kind = a.kind
  BY DEF AnswerRecords
<1> QED BY <1>2, <1>3

LEMMA NextLoopType ==
  ASSUME NEW r \in Runs, r.loop < MaxLoops, NextLoop(r)
  PROVE  /\ run' \in Runs /\ at' = "loop" /\ answer' = NoAnswer /\ todo' \in Seq(Tools)
         /\ run'.outputs = r.outputs /\ run'.passed = r.passed
<1>1. r.loop + 1 \in 0..MaxLoops /\ 0 \in 0..MalformedLimit
  BY Limits DEF Runs
<1> QED BY <1>1, EmptySeq DEF NextLoop, Runs

LEMMA NewRunType == NewRun \in Runs
<1>1. /\ 0 \in 0..MaxLoops /\ 0 \in 0..MalformedLimit /\ 0 \in 0..TruncatedLimit
      /\ 0 \in 0..ParseBudget /\ 0 \in 0..MaxCheap /\ 0 \in 0..ReflectionMax
  BY Limits
<1> QED BY <1>1 DEF NewRun, Runs

LEMMA StopType ==
  ASSUME run \in Runs, NEW reason, Stop(reason)
  PROVE  /\ run' \in Runs /\ at' = "stopped" /\ how' = reason
         /\ answer' = NoAnswer /\ todo' \in Seq(Tools) /\ run'.passed = run.passed
BY NewRunType, EmptySeq DEF Stop, Runs

LEMMA CountCheapType ==
  ASSUME NEW r \in Runs, NEW tier \in {"default", "cheap", "strong"}
  PROVE  /\ CountCheap(r, tier) \in Runs
         /\ CountCheap(r, tier).loop = r.loop
         /\ CountCheap(r, tier).outputs = r.outputs
         /\ CountCheap(r, tier).passed = r.passed
<1> DEFINE n == IF tier # "cheap" THEN 0 ELSE IF r.cheap < MaxCheap THEN r.cheap + 1 ELSE MaxCheap
<1>1. n \in 0..MaxCheap
  BY Limits DEF Runs
<1>2. CountCheap(r, tier) = [r EXCEPT !.tier = tier, !.cheap = n]
  BY DEF CountCheap, Runs
<1> HIDE DEF n
<1> QED BY <1>1, <1>2 DEF Runs

LEMMA TierType ==
  ASSUME NEW type, NEW loop, NEW requested, NEW cheap, NEW ceiling
  PROVE  choose_adaptive_flat_provider(type, loop, requested, cheap, ceiling)
           \in {"default", "cheap", "strong"}
BY DEF choose_adaptive_flat_provider

(* The answer to a call of the model: the provider refused the context, or *)
(* the answer is there and only the tier, the streak and the tools asked   *)
(* for have changed.                                                       *)
LEMMA AskedType ==
  ASSUME LoopInv, AskModel
  PROVE  \/ Stop("context")
         \/ /\ at' = "answered" /\ answer' \in AnswerRecords /\ UNCHANGED <<task, todo, how, code, refused>>
            /\ run' \in Runs /\ run'.loop = run.loop
            /\ run'.outputs = run.outputs /\ run'.passed = run.passed
<1> USE DEF LoopInv
<1> PICK a \in Answers, overCap \in BOOLEAN :
      LET scouting == run.scouting /\ run.loop < ScoutLoops
          tier == IF ~task.adaptive THEN "default"
                  ELSE choose_adaptive_flat_provider(task.type, run.loop, run.requested,
                         run.cheap, resolve_policy(task.ceiling, overCap))
          asked == CountCheap([run EXCEPT !.scouting = scouting], tier)
      IN IF a.kind = "context"
         THEN Stop("context")
         ELSE /\ run' = [asked EXCEPT !.requested = Asked(a)]
              /\ answer' = a /\ at' = "answered"
              /\ UNCHANGED <<todo, how>>
  BY DEF AskModel
<1> DEFINE scouting == run.scouting /\ run.loop < ScoutLoops
           tier == IF ~task.adaptive THEN "default"
                   ELSE choose_adaptive_flat_provider(task.type, run.loop, run.requested,
                          run.cheap, resolve_policy(task.ceiling, overCap))
           asked == CountCheap([run EXCEPT !.scouting = scouting], tier)
<1>1. CASE a.kind = "context"
  BY <1>1
<1>2. CASE a.kind # "context"
  <2>1. scouting \in BOOLEAN /\ tier \in {"default", "cheap", "strong"}
    BY TierType
  <2>2. /\ run' = [asked EXCEPT !.requested = Asked(a)]
        /\ answer' = a /\ at' = "answered" /\ UNCHANGED <<task, todo, how, code, refused>>
    BY <1>2 DEF AskModel
  <2> HIDE DEF scouting, tier
  <2>3. /\ [run EXCEPT !.scouting = scouting] \in Runs
        /\ [run EXCEPT !.scouting = scouting].loop = run.loop
        /\ [run EXCEPT !.scouting = scouting].outputs = run.outputs
        /\ [run EXCEPT !.scouting = scouting].passed = run.passed
    BY <2>1 DEF LoopTypeOK, Runs
  <2>4. /\ asked \in Runs /\ asked.loop = run.loop
        /\ asked.outputs = run.outputs /\ asked.passed = run.passed
    BY <2>1, <2>3, CountCheapType
  <2>5. a \in AnswerRecords /\ Asked(a) \in SUBSET Tools
    BY AnswersAreRecords
  <2> HIDE DEF asked
  <2>6. /\ run' \in Runs /\ run'.loop = run.loop
        /\ run'.outputs = run.outputs /\ run'.passed = run.passed
    BY <2>2, <2>4, <2>5 DEF Runs
  <2> QED BY <2>2, <2>5, <2>6
<1> QED BY <1>1, <1>2

-------------------------------------------------------------------------------
(* Every turn of the loop keeps its variables typed and its place.         *)
LEMMA LoopStep ==
  ASSUME LoopInv, Looped
  PROVE  LoopInv'
<1> USE DEF LoopInv
<1>1. CASE AskModel
  <2>1. CASE Stop("context")
    BY <1>1, <2>1, StopType, AnswersAreRecords DEF AskModel, LoopTypeOK, Position
  <2>2. CASE at' = "answered"
    <3>1. run.loop < MaxLoops /\ at = "loop"
      BY <1>1 DEF AskModel
    <3>2. /\ run' \in Runs /\ run'.loop = run.loop /\ answer' \in AnswerRecords
          /\ UNCHANGED <<task, todo, how, code, refused>>
      BY <1>1, <2>2, AskedType DEF Stop
    <3> QED BY <2>2, <3>1, <3>2 DEF LoopTypeOK, Position
  <2> QED BY <1>1, <2>1, <2>2, AskedType
<1>2. CASE Escalate
  <2> PICK a \in Answers :
        /\ answer' = [a EXCEPT !.complete = answer.complete,
                               !.kind = IF @ = "context" THEN "text" ELSE @]
        /\ run' = [run EXCEPT !.tier = "strong", !.requested = Asked(a)]
    BY <1>2 DEF Escalate
  <2>1. a \in AnswerRecords /\ Asked(a) \in SUBSET Tools
    BY AnswersAreRecords
  <2>2. answer' \in AnswerRecords
    BY <2>1, EscalatedIsAnswer DEF LoopTypeOK, AnswerRecords
  <2>3. run' \in Runs /\ run'.loop = run.loop
    BY <2>1 DEF LoopTypeOK, Runs
  <2> QED BY <1>2, <2>2, <2>3 DEF Escalate, Escalates, ByCheap, LoopTypeOK, Position
<1>3. CASE GuardCheap
  <2>1. MaxCheap \in 0..MaxCheap
    BY Limits
  <2>2. /\ [run EXCEPT !.requested = {}, !.cheap = MaxCheap] \in Runs
        /\ [run EXCEPT !.requested = {}, !.cheap = MaxCheap].loop = run.loop
    BY <2>1 DEF LoopTypeOK, Runs
  <2>3. NextLoop([run EXCEPT !.requested = {}, !.cheap = MaxCheap]) /\ at = "answered"
    BY <1>3 DEF GuardCheap, ByCheap
  <2>4. run' \in Runs /\ at' = "loop" /\ answer' = NoAnswer /\ todo' \in Seq(Tools)
    BY <2>2, <2>3, NextLoopType DEF Position
  <2> QED BY <1>3, <2>3, <2>4, AnswersAreRecords DEF GuardCheap, LoopTypeOK, Position
<1>4. CASE Correct
  <2>1. run.malformed + (IF run.malformed < MalformedLimit THEN 1 ELSE 0) \in 0..MalformedLimit
    BY Limits, SMTT(30) DEF LoopTypeOK, Runs
  <2>2. run' \in Runs
    BY <1>4, <2>1 DEF Correct, LoopTypeOK, Runs
  <2> QED BY <1>4, <2>2, AnswersAreRecords DEF Correct, Settled, LoopTypeOK, Position
<1>5. CASE RetryParse
  <2> DEFINE r == [run EXCEPT !.parses = @ + 1,
                              !.truncated = IF answer.kind = "truncated" THEN @ + 1 ELSE @]
             fails == \/ answer.kind = "truncated" /\ r.truncated >= TruncatedLimit
                      \/ r.parses >= ParseBudget
  <2>1. CASE fails
    BY <1>5, <2>1, StopType, AnswersAreRecords DEF RetryParse, LoopTypeOK, Position
  <2>2. CASE ~fails
    <3> DEFINE p == run.parses + 1
               t == IF answer.kind = "truncated" THEN run.truncated + 1 ELSE run.truncated
    <3>1. r = [run EXCEPT !.parses = p, !.truncated = t]
      BY DEF LoopTypeOK, Runs
    <3>2. r.parses = p /\ r.truncated = t /\ r.loop = run.loop
      BY DEF LoopTypeOK, Runs
    <3>3. p \in 0..ParseBudget /\ t \in 0..TruncatedLimit
      <4>1. run.parses \in Nat /\ run.truncated \in 0..TruncatedLimit
        BY DEF LoopTypeOK, Runs
      <4>2. p < ParseBudget /\ (answer.kind = "truncated" => t < TruncatedLimit)
        <5> HIDE DEF r
        <5>1. ~(p >= ParseBudget) /\ (answer.kind = "truncated" => ~(t >= TruncatedLimit))
          BY <2>2, <3>2
        <5> QED BY <4>1, <5>1, Limits
      <4> QED BY <4>1, <4>2, Limits
    <3>4. NextLoop(r) /\ UNCHANGED <<task, how, code, refused>> /\ at = "answered"
      BY <1>5, <2>2 DEF RetryParse, Settled
    <3> HIDE DEF p, t
    <3>5. [run EXCEPT !.parses = p, !.truncated = t] \in Runs
      BY <3>3 DEF LoopTypeOK, Runs
    <3>6. r \in Runs
      BY <3>1, <3>5
    <3> HIDE DEF r
    <3>7. run' \in Runs /\ at' = "loop" /\ answer' = NoAnswer /\ todo' \in Seq(Tools)
      BY <3>2, <3>4, <3>6, NextLoopType DEF Position
    <3> QED BY <3>4, <3>7, AnswersAreRecords DEF LoopTypeOK, Position
  <2> QED BY <2>1, <2>2
<1>6. CASE Nudge
  <2>1. CASE Stop("failed")
    BY <1>6, <2>1, StopType, AnswersAreRecords DEF Nudge, LoopTypeOK, Position
  <2>2. ASSUME NEW r \in {run, [run EXCEPT !.nudged = TRUE]}, NextLoop(r), UNCHANGED how
        PROVE  LoopInv'
    <3>1. r \in Runs /\ r.loop = run.loop
      BY DEF LoopTypeOK, Runs
    <3>2. at = "answered" /\ UNCHANGED <<task, code, refused>>
      BY <1>6 DEF Nudge, Settled
    <3>3. run' \in Runs /\ at' = "loop" /\ answer' = NoAnswer /\ todo' \in Seq(Tools)
      BY <2>2, <3>1, <3>2, NextLoopType DEF Position
    <3> QED BY <2>2, <3>2, <3>3, AnswersAreRecords DEF LoopTypeOK, Position
  <2> QED BY <1>6, <2>1, <2>2 DEF Nudge
<1>7. CASE BeginBatch
  <2>1. 0 \in 0..TruncatedLimit
    BY Limits
  <2>2. run' \in Runs /\ run'.loop = run.loop
    BY <1>7, <2>1 DEF BeginBatch, LoopTypeOK, Runs
  <2>3. answer.tools \in Seq(Tools)
    BY DEF LoopTypeOK, AnswerRecords
  <2> QED BY <1>7, <2>2, <2>3 DEF BeginBatch, Settled, LoopTypeOK, Position
<1>8. CASE CallPlain
  BY <1>8, HeadTailProperties DEF CallPlain, LoopTypeOK, Position
<1>9. CASE CallWrite
  <2>1. run' \in Runs /\ run'.loop = run.loop
    BY <1>9 DEF CallWrite, LoopTypeOK, Runs
  <2> QED BY <1>9, <2>1, HeadTailProperties DEF CallWrite, Calling, LoopTypeOK, Position
<1>10. CASE CallHandoff
  BY <1>10, StopType, AnswersAreRecords DEF CallHandoff, HandOver, LoopTypeOK, Position
<1>11. CASE CallRun
  <2>1. run' \in Runs /\ run'.loop = run.loop
    BY <1>11 DEF CallRun, LoopTypeOK, Runs
  <2> QED BY <1>11, <2>1, HeadTailProperties DEF CallRun, Calling, LoopTypeOK, Position
<1>12. ASSUME NEW r \in Runs, r.loop = run.loop, NextLoop(r),
              at \in {"answered", "calls"}, UNCHANGED <<task, how, code>>,
              refused' \in {refused, "fresh"}
       PROVE  LoopInv'
  <2>1. run' \in Runs /\ at' = "loop" /\ answer' = NoAnswer /\ todo' \in Seq(Tools)
    BY <1>12, NextLoopType DEF Position
  <2> QED BY <1>12, <2>1, AnswersAreRecords DEF LoopTypeOK, Position
<1>13. CASE EndBatch
  BY <1>12, <1>13 DEF EndBatch, BatchDone, LoopTypeOK
<1>14. CASE RefuseUntested
  BY <1>12, <1>14 DEF RefuseUntested, Claims, BatchDone, Settled, LoopTypeOK
<1>15. CASE RefuseFailing
  <2>1. /\ [run EXCEPT !.outputs = KeptEvidence] \in Runs
        /\ [run EXCEPT !.outputs = KeptEvidence].loop = run.loop
    BY DEF KeptEvidence, LoopTypeOK, Runs
  <2> QED BY <1>12, <1>15, <2>1 DEF RefuseFailing, Claims, BatchDone, Settled
<1>16. CASE Accept
  BY <1>16, StopType, AnswersAreRecords DEF Accept, LoopTypeOK, Position
<1>17. CASE LoopLimit
  BY <1>17, StopType, AnswersAreRecords DEF LoopLimit, LoopTypeOK, Position
<1>18. CASE Reflect
  <2>1. run.reflections + 1 \in 0..ReflectionMax
    BY <1>18, Limits, SMTT(30) DEF Reflect, LoopTypeOK, Runs
  <2>2. run' \in Runs /\ run'.loop = run.loop
    BY <1>18, <2>1 DEF Reflect, LoopTypeOK, Runs
  <2> QED BY <1>18, <2>2 DEF Reflect, Reflects, LoopTypeOK, Position
<1>19. CASE Close
  BY <1>19 DEF Close, LoopTypeOK, Position
<1>20. CASE Continue
  BY <1>20 DEF Continue, LoopTypeOK, Position
<1>21. CASE Leave
  <2>1. run' \in Runs
    BY <1>21 DEF Leave, LoopTypeOK, Runs
  <2> QED BY <1>21, <2>1 DEF Leave, LoopTypeOK, Position
<1> QED BY <1>1, <1>2, <1>3, <1>4, <1>5, <1>6, <1>7, <1>8, <1>9, <1>10, <1>11, <1>13,
           <1>14, <1>15, <1>16, <1>17, <1>18, <1>19, <1>20, <1>21
        DEF Looped, Answered, Called, Claimed, Ending

-------------------------------------------------------------------------------
(* The phase that runs is the one at the pipeline's place, or that of the  *)
(* repair; a pipeline is done when it ran out of phases or has failed.     *)
Courses ==
  /\ stage = "phase" =>
       /\ pos \in DOMAIN pipeline
       /\ current = IF repairing = "no" THEN pipeline[pos] ELSE repairing
  /\ stage # "phase" => repairing = "no"
  /\ stage = "done" => state.failed \/ pos > Len(pipeline)

PipeInv == PipelineTypeOK /\ Courses

LEMMA NewTypes == NewState \in TaskStates /\ NewJob \in Jobs
<1>1. 0 \in 0..MaxRepairs /\ 1 \in 1..(PhaseLoops + SynthAttempts) /\ 0 \in 0..3
  BY Limits
<1> QED BY <1>1 DEF NewState, NewJob, TaskStates, Jobs

(* What follows a phase: a repair, or the phase is left with its state, and *)
(* the pipeline is done or comes to its next place.                        *)
LEMMA AfterPhase ==
  ASSUME PipeInv, stage = "phase", NEW s \in TaskStates, NEW raised \in BOOLEAN,
         raised => s.failed, After(s, raised), UNCHANGED pipeline,
         tree' \in [dirty : BOOLEAN, valid : BOOLEAN]
  PROVE  /\ PipeInv' /\ job' = NewJob
         /\ \/ repairing' # "no"
            \/ /\ repairing' = "no" /\ state' = s
               /\ pos' = pos + 1 \/ (pos' = pos /\ s.failed)
         /\ stage' = "next" => pos' = pos + 1
<1> USE DEF PipeInv
<1>0. pos \in 1..Len(pipeline) /\ Len(pipeline) \in Nat /\ pipeline \in Seq(STRING)
  BY DEF Courses, PipelineTypeOK
<1>1. CASE repairing # "no"
  <2> DEFINE following == IF s.failed \/ raised THEN "no" ELSE RepairNext(repairing)
  <2>1. following \in {"no", "validate"}
    BY DEF RepairNext
  <2>2. /\ state' = s /\ repairing' = following
        /\ IF following # "no"
           THEN current' = following /\ job' = NewJob /\ UNCHANGED <<stage, pos>>
           ELSE stage' = "next" /\ pos' = pos + 1 /\ Left
    BY <1>1 DEF After
  <2> HIDE DEF following
  <2>3. CASE following = "no"
    BY <1>0, <2>2, <2>3, NewTypes DEF Left, PipelineTypeOK, Courses
  <2>4. CASE following = "validate"
    BY <1>0, <2>2, <2>4, NewTypes DEF PipelineTypeOK, Courses, PHASE_REGISTRY
  <2> QED BY <2>1, <2>3, <2>4
<1>2. CASE repairing = "no" /\ ~raised /\ Repairs(s)
  <2>1. s.attempts + 1 \in 0..MaxRepairs
    BY <1>2, Limits DEF Repairs, TaskStates
  <2>2. [s EXCEPT !.failed = FALSE, !.infra = FALSE, !.attempts = @ + 1] \in TaskStates
    BY <2>1 DEF TaskStates
  <2> QED BY <1>0, <1>2, <2>2, NewTypes DEF After, PipelineTypeOK, Courses, PHASE_REGISTRY
<1>3. CASE repairing = "no" /\ ~(~raised /\ Repairs(s))
  <2>1. /\ state' = s /\ repairing' = "no" /\ Left
        /\ IF raised \/ s.failed THEN stage' = "done" /\ UNCHANGED pos
           ELSE stage' = "next" /\ pos' = pos + 1
    BY <1>3 DEF After
  <2> QED BY <1>0, <2>1, NewTypes DEF Left, PipelineTypeOK, Courses
<1> QED BY <1>1, <1>2, <1>3

(* Another round of the phase that runs, or its completion, is about its   *)
(* own locals.                                                             *)
LEMMA SamePhase ==
  ASSUME PipeInv, job' \in Jobs, tree' \in [dirty : BOOLEAN, valid : BOOLEAN],
         UNCHANGED <<pipeline, pos, stage, current, repairing, state>>
  PROVE  PipeInv'
BY DEF PipeInv, PipelineTypeOK, Courses

LEMMA AgainType ==
  ASSUME NEW j \in Jobs, j.loop <= PhaseLoops \/ j.loop < SynthAttempts, Again(j)
  PROVE  /\ job' \in Jobs /\ job'.completed = j.completed /\ job'.commit = j.commit
         /\ job'.mutated = j.mutated
         /\ UNCHANGED <<pos, stage, current, repairing, state>>
<1>1. j.loop + 1 \in 1..(PhaseLoops + SynthAttempts)
  BY Limits DEF Jobs
<1> QED BY <1>1 DEF Again, Jobs

LEMMA FailType == ASSUME NEW s \in TaskStates
                  PROVE  Fail(s) \in TaskStates /\ Fail(s).failed
BY DEF Fail, TaskStates

Trees == [dirty : BOOLEAN, valid : BOOLEAN]

(* The phase that runs goes on: only the work phase touches the tree.      *)
PhaseGoesOn ==
  /\ stage = "phase" /\ UNCHANGED <<pipeline, pos, stage, current, repairing, state>>
  /\ job' \in Jobs /\ tree' \in Trees
  /\ current # "work" => UNCHANGED tree

(* The phase is left: no phase clears a failure, and a validation that did *)
(* not fail has found the tree valid.                                      *)
PhaseEnds ==
  /\ stage = "phase" /\ UNCHANGED pipeline /\ tree' \in Trees
  /\ tree.valid => tree'.valid
  /\ \E s \in TaskStates, raised \in BOOLEAN :
       /\ After(s, raised) /\ (raised => s.failed)
       /\ state.failed => s.failed
       /\ current = "validate" /\ ~s.failed => tree'.valid

(* Every step of the pipeline is one of three.                             *)
LEMMA PipeMoves ==
  ASSUME PipeInv, NEW continues, run_pipeline(continues)
  PROVE  NextPhase \/ PhaseGoesOn \/ PhaseEnds
<1>0. /\ state \in TaskStates /\ job \in Jobs /\ tree \in Trees
      /\ pipeline \in Seq(STRING) /\ pos \in 1..(Len(pipeline) + 1) /\ Len(pipeline) \in Nat
  BY DEF PipeInv, PipelineTypeOK, Trees
<1>d. [dirty |-> TRUE, valid |-> FALSE] \in Trees
  <2>1. \A d, v \in BOOLEAN : [dirty |-> d, valid |-> v] \in Trees
    BY DEF Trees
  <2> QED BY <2>1
<1>1. ASSUME NEW s \in TaskStates, After(s, FALSE), UNCHANGED <<pipeline, tree>>,
             stage = "phase", state.failed => s.failed, current # "validate" \/ s.failed
      PROVE  PhaseEnds
  BY <1>0, <1>1 DEF PhaseEnds
<1>2. ASSUME NEW j \in Jobs, j.loop <= PhaseLoops \/ j.loop < SynthAttempts, Again(j),
             stage = "phase", UNCHANGED pipeline, tree' \in Trees,
             current = "work" \/ UNCHANGED tree
      PROVE  PhaseGoesOn
  BY <1>2, AgainType DEF PhaseGoesOn
<1>3. ASSUME NEW j \in Jobs, Finish(j), UNCHANGED pipeline, tree' \in Trees, At("work")
      PROVE  PhaseGoesOn
  BY <1>3 DEF Finish, Jobs, At, PhaseGoesOn
<1>5. CASE Inspect
  <2>1. job.loop <= PhaseLoops
    BY <1>0, <1>5, Limits DEF Inspect, Jobs
  <2> QED BY <1>0, <1>2, <1>5, <2>1 DEF Inspect
<1>6. CASE PlanPhase
  <2>1. \A fast \in BOOLEAN : /\ [state EXCEPT !.fast = fast] \in TaskStates
                              /\ [state EXCEPT !.fast = fast].failed = state.failed
    BY <1>0 DEF TaskStates
  <2> QED BY <1>0, <1>1, <1>6, <2>1 DEF PlanPhase, At
<1>7. CASE ScoutPhase \/ ReportPhase
  BY <1>0, <1>1, <1>7 DEF ScoutPhase, ReportPhase, At
<1>8. CASE SynthesizePhase
  <2>1. \A proposed \in BOOLEAN :
          /\ [state EXCEPT !.proposed = proposed] \in TaskStates
          /\ [state EXCEPT !.proposed = proposed].failed = state.failed
    BY <1>0 DEF TaskStates
  <2> QED BY <1>0, <1>1, <1>2, <1>8, <2>1 DEF SynthesizePhase, At
<1>9. CASE CreateTasksPhase
  <2>1. job.loop < PhaseLoops => job.loop <= PhaseLoops
    BY <1>0, Limits DEF Jobs
  <2> QED BY <1>0, <1>1, <1>2, <1>9, <2>1 DEF CreateTasksPhase, At
<1>10. CASE WorkWrite
  <2>1. [job EXCEPT !.mutated = TRUE] \in Jobs /\ [job EXCEPT !.mutated = TRUE].loop = job.loop
    BY <1>0 DEF Jobs
  <2>2. tree' \in Trees
    BY <1>0, <1>d, <1>10 DEF WorkWrite
  <2> QED BY <1>0, <1>2, <1>10, <2>1, <2>2 DEF WorkWrite, Working, At
<1>11. CASE WorkCommit
  <2> PICK ok \in BOOLEAN :
         /\ tree' = [tree EXCEPT !.dirty = @ /\ ~ok]
         /\ Again([job EXCEPT !.mutated = TRUE, !.commit = IF ok THEN "tool" ELSE @])
    BY <1>11 DEF WorkCommit
  <2> DEFINE j == [job EXCEPT !.mutated = TRUE, !.commit = IF ok THEN "tool" ELSE @]
  <2>1. j \in Jobs /\ j.loop = job.loop
    BY <1>0 DEF Jobs
  <2>2. tree' \in Trees
    BY <1>0 DEF Trees
  <2> QED BY <1>2, <1>11, <2>1, <2>2 DEF WorkCommit, Working, At
<1>12. CASE WorkShell
  <2>1. tree' \in Trees
    BY <1>0, <1>d, <1>12 DEF WorkShell, Trees
  <2> QED BY <1>0, <1>2, <1>12, <2>1 DEF WorkShell, Working, At
<1>13. CASE WorkComplete
  BY <1>0, <1>3, <1>13 DEF WorkComplete, Working
<1>14. CASE WorkPremature
  <2>1. /\ [job EXCEPT !.commit = "run_command"] \in Jobs
        /\ [job EXCEPT !.commit = "auto"] \in Jobs
        /\ [job EXCEPT !.premature = 3] \in Jobs
        /\ [job EXCEPT !.premature = 3].loop = job.loop
    BY <1>0 DEF Jobs
  <2>2. ASSUME job.premature < 2
        PROVE  /\ [job EXCEPT !.premature = @ + 1] \in Jobs
               /\ [job EXCEPT !.premature = @ + 1].loop = job.loop
    <3>1. job.premature + 1 \in 0..3
      BY <1>0, <2>2 DEF Jobs
    <3> QED BY <1>0, <3>1 DEF Jobs
  <2>3. [tree EXCEPT !.dirty = FALSE] \in Trees
    BY <1>0 DEF Trees
  <2>4. /\ Working /\ UNCHANGED pipeline
        /\ \/ Finish([job EXCEPT !.commit = "run_command"]) /\ UNCHANGED tree
           \/ job.premature < 2 /\ Again([job EXCEPT !.premature = @ + 1]) /\ UNCHANGED tree
           \/ Finish([job EXCEPT !.commit = "auto"]) /\ tree' = [tree EXCEPT !.dirty = FALSE]
           \/ Again([job EXCEPT !.premature = 3]) /\ UNCHANGED tree
    BY <1>14 DEF WorkPremature, AutoCommit
  <2> QED BY <1>0, <1>2, <1>3, <2>1, <2>2, <2>3, <2>4 DEF Working, At
<1>15. CASE WorkEnds(continues)
  BY <1>0, <1>1, <1>15, FailType DEF WorkEnds, At
<1>16. CASE ValidatePhase
  <2>1. CASE tree' = [tree EXCEPT !.valid = TRUE] /\ After(state, FALSE)
    <3>1. tree' \in Trees /\ tree'.valid
      BY <1>0, <2>1 DEF Trees
    <3> QED BY <1>0, <1>16, <2>1, <3>1 DEF ValidatePhase, At, PhaseEnds
  <2>2. CASE UNCHANGED tree /\ After(Fail(state), FALSE)
    BY <1>0, <1>1, <1>16, <2>2, FailType DEF ValidatePhase, At
  <2> QED BY <1>16, <2>1, <2>2 DEF ValidatePhase
<1>17. CASE Raise
  <2> PICK infra \in BOOLEAN : After([Fail(state) EXCEPT !.infra = infra], TRUE)
    BY <1>17 DEF Raise
  <2>1. [Fail(state) EXCEPT !.infra = infra] \in TaskStates
        /\ [Fail(state) EXCEPT !.infra = infra].failed
    BY <1>0, FailType DEF TaskStates
  <2> QED BY <1>0, <1>17, <2>1 DEF Raise, PhaseEnds
<1> QED BY <1>5, <1>6, <1>7, <1>8, <1>9, <1>10, <1>11, <1>12, <1>13, <1>14, <1>15,
           <1>16, <1>17 DEF run_pipeline, Look, Work

(* Every step of the pipeline keeps its types and its course, and it comes *)
(* to a next place only by leaving the one before.                         *)
LEMMA PipeStep ==
  ASSUME PipeInv, NEW continues, run_pipeline(continues)
  PROVE  PipeInv' /\ (stage' = "next" => pos' = pos + 1)
<1>0. pipeline \in Seq(STRING) /\ pos \in 1..(Len(pipeline) + 1) /\ Len(pipeline) \in Nat
  BY DEF PipeInv, PipelineTypeOK
<1>1. CASE NextPhase
  <2>1. CASE pos > Len(pipeline)
    BY <1>0, <1>1, <2>1 DEF NextPhase, PipeInv, PipelineTypeOK, Courses
  <2>2. CASE pos <= Len(pipeline) /\ pipeline[pos] \notin PHASE_REGISTRY
    BY <1>0, <1>1, <2>2 DEF NextPhase, PipeInv, PipelineTypeOK, Courses
  <2>3. CASE pos <= Len(pipeline) /\ pipeline[pos] \in PHASE_REGISTRY
    BY <1>0, <1>1, <2>3, NewTypes DEF NextPhase, PipeInv, PipelineTypeOK, Courses
  <2> QED BY <1>0, <2>1, <2>2, <2>3
<1>2. CASE PhaseGoesOn
  BY <1>2, SamePhase DEF PhaseGoesOn, Trees
<1>3. CASE PhaseEnds
  BY <1>3, AfterPhase DEF PhaseEnds, Trees
<1> QED BY <1>1, <1>2, <1>3, PipeMoves

-------------------------------------------------------------------------------
(* The variables as a whole.                                               *)
Typed == LoopInv /\ PipeInv /\ WorldTypeOK

LEMMA WorldStep ==
  ASSUME WorldTypeOK, Next
  PROVE  WorldTypeOK'
<1> USE DEF WorldTypeOK
<1>1. ASSUME NEW wanted, spawn_continuation_task(wanted), UNCHANGED locked
      PROVE  WorldTypeOK'
  BY <1>1 DEF spawn_continuation_task
<1>2. CASE Piped
  <2>1. CASE PipelineStep
    <3>1. CASE UNCHANGED World
      BY <3>1 DEF World
    <3>2. CASE WorkWrite
      BY <3>2 DEF WorkWrite
    <3>3. CASE WorkEnds(task.chain = "free")
      BY <1>1, <3>3 DEF WorkEnds
    <3> QED BY <2>1, <3>1, <3>2, <3>3
            DEF PipelineStep, run_pipeline, NextPhase, Look, Inspect, PlanPhase, ScoutPhase,
                ReportPhase, SynthesizePhase, CreateTasksPhase, Work, WorkCommit, WorkShell,
                WorkComplete, WorkPremature, ValidatePhase, Raise
  <2>2. CASE PipelineFallsBack \/ PipelineReturns
    BY <2>2 DEF PipelineFallsBack, PipelineReturns, World
  <2> QED BY <1>2, <2>1, <2>2 DEF Piped
<1>3. CASE Looped
  <2>1. CASE UNCHANGED World
    BY <2>1 DEF World
  <2>2. CASE CallWrite \/ CallHandoff \/ Leave
    BY <2>2 DEF CallWrite, CallHandoff, Leave
  <2>3. CASE Continue
    BY <1>1, <2>3 DEF Continue
  <2> QED BY <1>3, <2>1, <2>2, <2>3
          DEF Looped, AskModel, Answered, Escalate, GuardCheap, Correct, RetryParse, Nudge,
              BeginBatch, Called, CallPlain, CallRun, EndBatch, Claimed, RefuseUntested,
              RefuseFailing, Accept, Ending, LoopLimit, Reflect, Close
<1>4. CASE Exited
  BY <1>4 DEF Exited, vars, World
<1> QED BY <1>2, <1>3, <1>4 DEF Next

LEMMA TypedStep ==
  ASSUME Typed, [Next]_vars
  PROVE  Typed'
<1> USE DEF Typed
<1>1. CASE Looped /\ UNCHANGED pipelineVars
  <2>1. LoopInv'
    BY <1>1, LoopStep
  <2>2. PipeInv'
    BY <1>1 DEF pipelineVars, PipeInv, PipelineTypeOK, Courses
  <2> QED BY <1>1, <2>1, <2>2, WorldStep DEF Next
<1>2. CASE PipelineStep
  <2>1. LoopInv'
    BY <1>2 DEF PipelineStep, loopVars, LoopInv, LoopTypeOK, Position
  <2>2. PipeInv'
    BY <1>2, PipeStep DEF PipelineStep
  <2> QED BY <1>2, <2>1, <2>2, WorldStep DEF Next, Piped
<1>3. CASE PipelineFallsBack
  <2>1. LoopInv'
    BY <1>3 DEF PipelineFallsBack, LoopInv, LoopTypeOK, Position
  <2>2. PipeInv'
    BY <1>3 DEF PipelineFallsBack, PipeInv, PipelineTypeOK, Courses
  <2> QED BY <1>3, <2>1, <2>2, WorldStep DEF Next, Piped
<1>4. CASE PipelineReturns
  <2>1. LoopInv'
    BY <1>4 DEF PipelineReturns, LoopInv, LoopTypeOK, Position
  <2>2. PipeInv'
    BY <1>4 DEF PipelineReturns, pipelineVars, PipeInv, PipelineTypeOK, Courses
  <2> QED BY <1>4, <2>1, <2>2, WorldStep DEF Next, Piped
<1>5. CASE UNCHANGED vars
  BY <1>5 DEF vars, loopVars, pipelineVars, World, LoopInv, LoopTypeOK, Position, PipeInv,
     PipelineTypeOK, Courses, WorldTypeOK
<1> QED BY <1>1, <1>2, <1>3, <1>4, <1>5 DEF Next, Piped, Exited

LEMMA TypedInit == Init => Typed
<1> SUFFICES ASSUME Init PROVE Typed
  OBVIOUS
<1>1. [NewRun EXCEPT !.scouting = task.scouted /\ ScoutLoops > 0] \in Runs
  <2>1. (task.scouted /\ ScoutLoops > 0) \in BOOLEAN
    OBVIOUS
  <2> QED BY <2>1, NewRunType DEF Runs
<1>2. LoopInv
  BY <1>1, EmptySeq, AnswersAreRecords DEF Init, LoopInv, LoopTypeOK, Position
<1>3. task.pipeline \in Seq(STRING)
  BY LoopAssumption DEF Init
<1>4. tree \in [dirty : BOOLEAN, valid : BOOLEAN]
  <2>1. \A d, v \in BOOLEAN : [dirty |-> d, valid |-> v] \in [dirty : BOOLEAN, valid : BOOLEAN]
    OBVIOUS
  <2> QED BY <2>1 DEF Init, PipelineInit
<1>5. 1 \in 1..(Len(task.pipeline) + 1)
  BY <1>3, LenProperties
<1>6. PipeInv
  BY <1>3, <1>4, <1>5, NewTypes DEF Init, PipelineInit, PipeInv, PipelineTypeOK, Courses
<1> QED BY <1>2, <1>6 DEF Init, Typed, WorldTypeOK

(* Every variable of the process keeps its type: whatever the model        *)
(* answers, no counter passes its limit, and the pipeline stays within its *)
(* phases and its repairs (main(), run_pipeline()).                        *)
THEOREM TypeCorrect == Spec => []TypeOK
<1>1. Typed => TypeOK
  BY DEF Typed, TypeOK, LoopInv, PipeInv
<1> QED BY <1>1, TypedInit, TypedStep, PTL DEF Spec

-------------------------------------------------------------------------------
(* A refused completion stays refused.  While the loop goes on, the        *)
(* failing output a completion was refused for is still held against the   *)
(* next one, unless a batch of calls was taken up in between.              *)
Refusals == refused = "fresh" =>
  at # "calls" /\ how # "complete" /\ (how = "none" => run.outputs = "failing")

(* A step that keeps the refusal and the evidence for it, outside a batch, *)
(* or that takes the process out of its loop without a completion.         *)
LEMMA RefusalsKept ==
  ASSUME Refusals, refused' = refused,
         \/ how' = how /\ run'.outputs = run.outputs /\ (at' = "calls" => at = "calls")
         \/ how' \notin {"none", "complete"} /\ at' # "calls"
  PROVE  Refusals'
BY DEF Refusals

LEMMA RefusalsStep ==
  ASSUME Typed, Refusals, [Next]_vars
  PROVE  Refusals'
<1>0. run \in Runs /\ Position /\ LoopTypeOK
  BY DEF Typed, LoopInv, LoopTypeOK
<1>1. CASE AskModel
  <2>1. CASE Stop("context")
    BY <1>0, <1>1, <2>1, StopType, RefusalsKept DEF AskModel
  <2>2. CASE at' = "answered"
    BY <1>1, <2>2, AskedType, RefusalsKept DEF Stop, AskModel, Typed
  <2> QED BY <1>1, <2>1, <2>2, AskedType DEF Typed
<1>2. CASE Escalate
  BY <1>0, <1>2, RefusalsKept DEF Escalate, Escalates, ByCheap, Runs
<1>3. ASSUME NEW r \in Runs, r.loop = run.loop, r.outputs = run.outputs, NextLoop(r),
             at \in {"answered", "calls"}, UNCHANGED <<how, refused>>
      PROVE  Refusals'
  BY <1>0, <1>3, NextLoopType, RefusalsKept DEF Position
<1>4. CASE GuardCheap
  <2>1. MaxCheap \in 0..MaxCheap
    BY Limits
  <2>2. /\ [run EXCEPT !.requested = {}, !.cheap = MaxCheap] \in Runs
        /\ [run EXCEPT !.requested = {}, !.cheap = MaxCheap].loop = run.loop
        /\ [run EXCEPT !.requested = {}, !.cheap = MaxCheap].outputs = run.outputs
    BY <1>0, <2>1 DEF Runs
  <2> QED BY <1>3, <1>4, <2>2 DEF GuardCheap, ByCheap
<1>5. CASE Correct
  BY <1>0, <1>5, RefusalsKept DEF Correct, Settled, Runs
<1>6. CASE RetryParse
  <2> DEFINE r == [run EXCEPT !.parses = @ + 1,
                              !.truncated = IF answer.kind = "truncated" THEN @ + 1 ELSE @]
  <2>1. CASE Stop("failed")
    BY <1>0, <1>6, <2>1, StopType, RefusalsKept DEF RetryParse
  <2>2. CASE NextLoop(r) /\ UNCHANGED how
    <3>1. run'.outputs = run.outputs /\ at' = "loop"
      BY <1>0, <2>2 DEF NextLoop, Runs
    <3> QED BY <1>6, <2>2, <3>1, RefusalsKept DEF RetryParse
  <2> QED BY <1>6, <2>1, <2>2 DEF RetryParse
<1>7. CASE Nudge
  <2>1. CASE Stop("failed")
    BY <1>0, <1>7, <2>1, StopType, RefusalsKept DEF Nudge
  <2>2. ASSUME NEW r \in {run, [run EXCEPT !.nudged = TRUE]}, NextLoop(r), UNCHANGED how
        PROVE  Refusals'
    <3>1. r \in Runs /\ r.loop = run.loop /\ r.outputs = run.outputs
      BY <1>0 DEF Runs
    <3>2. at = "answered" /\ UNCHANGED refused
      BY <1>7 DEF Nudge, Settled
    <3> QED BY <1>3, <2>2, <3>1, <3>2
  <2> QED BY <1>7, <2>1, <2>2 DEF Nudge
<1>8. CASE BeginBatch
  BY <1>0, <1>8 DEF BeginBatch, Refusals, LoopTypeOK
<1>9. CASE CallPlain
  BY <1>9, RefusalsKept DEF CallPlain
<1>10. CASE CallWrite
  BY <1>0, <1>10, RefusalsKept DEF CallWrite, Calling, Runs
<1>11. CASE CallHandoff
  BY <1>0, <1>11, StopType, RefusalsKept DEF CallHandoff, HandOver
<1>12. CASE CallRun
  BY <1>12 DEF CallRun, Refusals
<1>13. CASE EndBatch
  BY <1>0, <1>3, <1>13 DEF EndBatch, BatchDone
<1>14. CASE RefuseUntested
  BY <1>0, <1>3, <1>14 DEF RefuseUntested, Claims, BatchDone, Settled
<1>15. CASE RefuseFailing
  <2>1. at \in {"answered", "calls"} /\ run.outputs = "failing" /\ how' = how
        /\ NextLoop([run EXCEPT !.outputs = KeptEvidence])
    BY <1>15 DEF RefuseFailing, Claims, BatchDone, Settled
  <2>2. run'.outputs = "failing" /\ at' = "loop"
    BY <1>0, <2>1 DEF KeptEvidence, NextLoop, Runs
  <2> QED BY <1>0, <2>1, <2>2 DEF Position, Refusals
<1>16. CASE Accept
  <2>1. refused # "fresh"
    BY <1>0, <1>16 DEF Accept, Claims, BatchDone, Settled, Refusals, Position
  <2> QED BY <1>16, <2>1 DEF Accept, Refusals
<1>17. CASE LoopLimit
  BY <1>0, <1>17, StopType, RefusalsKept DEF LoopLimit
<1>18. CASE Reflect
  BY <1>0, <1>18, RefusalsKept DEF Reflect, Runs
<1>19. CASE Close \/ Continue
  BY <1>19, RefusalsKept DEF Close, Continue
<1>20. CASE Leave
  BY <1>0, <1>20, RefusalsKept DEF Leave, Runs
<1>21. CASE Piped
  BY <1>21, RefusalsKept DEF Piped, PipelineStep, PipelineFallsBack, PipelineReturns, loopVars
<1>22. CASE UNCHANGED vars
  BY <1>22, RefusalsKept DEF vars, loopVars
<1> QED BY <1>1, <1>2, <1>4, <1>5, <1>6, <1>7, <1>8, <1>9, <1>10, <1>11, <1>12, <1>13, <1>14,
           <1>15, <1>16, <1>17, <1>18, <1>19, <1>20, <1>21, <1>22
        DEF Next, Looped, Answered, Called, Claimed, Ending, Exited

(* However a completion is repeated, with or without calls, after a        *)
(* correction, an escalation or a cut-off answer: one that was refused for *)
(* failing output is not accepted before a batch of calls was taken up     *)
(* (the TASK_COMPLETE branches of main()).                                 *)
THEOREM RefusedIsNotAccepted == Spec => []RefusalSticks
<1> DEFINE IInv == Typed /\ Refusals
<1>1. Init => IInv
  BY TypedInit DEF Init, Refusals
<1>2. IInv /\ [Next]_vars => IInv'
  BY TypedStep, RefusalsStep
<1>3. IInv => RefusalSticks
  BY DEF Refusals, RefusalSticks
<1> QED BY <1>1, <1>2, <1>3, PTL DEF Spec

-------------------------------------------------------------------------------
(* A playthrough bot that completes has passed its self-test, and one that *)
(* exits with success has, unless its work went on elsewhere.              *)
Tests ==
  /\ how = "complete" /\ task.type = "playthrough_bot" => run.passed
  /\ SelfTestGates

LEMMA TestsKept ==
  ASSUME Tests, UNCHANGED task, run.passed => run'.passed,
         how' = how \/ how' # "complete", at' # "exited"
  PROVE  Tests'
BY DEF Tests, SelfTestGates

LEMMA TestsStep ==
  ASSUME Typed, Tests, [Next]_vars
  PROVE  Tests'
<1>0. run \in Runs /\ Position
  BY DEF Typed, LoopInv, LoopTypeOK
<1>1. ASSUME NEW reason, reason # "complete", Stop(reason), UNCHANGED task
      PROVE  Tests'
  BY <1>0, <1>1, StopType, TestsKept
<1>2. ASSUME NEW r \in Runs, r.passed = run.passed, NextLoop(r), UNCHANGED <<task, how>>
      PROVE  Tests'
  <2>1. run'.passed = run.passed /\ at' = "loop"
    BY <1>2 DEF NextLoop, Runs
  <2> QED BY <1>2, <2>1, TestsKept
<1>3. CASE AskModel
  <2>1. CASE Stop("context")
    BY <1>1, <1>3, <2>1 DEF AskModel
  <2>2. CASE at' = "answered"
    BY <1>3, <2>2, AskedType, TestsKept DEF Stop, AskModel, Typed
  <2> QED BY <1>3, <2>1, <2>2, AskedType DEF Typed
<1>4. CASE Escalate
  BY <1>0, <1>4, TestsKept DEF Escalate, Escalates, ByCheap, Runs
<1>5. CASE GuardCheap
  <2>1. MaxCheap \in 0..MaxCheap
    BY Limits
  <2>2. /\ [run EXCEPT !.requested = {}, !.cheap = MaxCheap] \in Runs
        /\ [run EXCEPT !.requested = {}, !.cheap = MaxCheap].passed = run.passed
    BY <1>0, <2>1 DEF Runs
  <2> QED BY <1>2, <1>5, <2>2 DEF GuardCheap
<1>6. CASE Correct
  BY <1>0, <1>6, TestsKept DEF Correct, Runs
<1>7. CASE RetryParse
  <2> DEFINE r == [run EXCEPT !.parses = @ + 1,
                              !.truncated = IF answer.kind = "truncated" THEN @ + 1 ELSE @]
  <2>1. CASE Stop("failed")
    BY <1>1, <1>7, <2>1 DEF RetryParse
  <2>2. CASE NextLoop(r) /\ UNCHANGED how
    <3>1. run'.passed = run.passed /\ at' = "loop"
      BY <1>0, <2>2 DEF NextLoop, Runs
    <3> QED BY <1>7, <2>2, <3>1, TestsKept DEF RetryParse
  <2> QED BY <1>7, <2>1, <2>2 DEF RetryParse
<1>8. CASE Nudge
  <2>1. CASE Stop("failed")
    BY <1>1, <1>8, <2>1 DEF Nudge
  <2>2. ASSUME NEW r \in {run, [run EXCEPT !.nudged = TRUE]}, NextLoop(r), UNCHANGED how
        PROVE  Tests'
    <3>1. r \in Runs /\ r.passed = run.passed
      BY <1>0 DEF Runs
    <3> QED BY <1>2, <1>8, <2>2, <3>1 DEF Nudge
  <2> QED BY <1>8, <2>1, <2>2 DEF Nudge
<1>9. CASE BeginBatch \/ CallPlain
  BY <1>0, <1>9, TestsKept DEF BeginBatch, CallPlain, Calling, Runs
<1>10. CASE CallWrite
  BY <1>0, <1>10, TestsKept DEF CallWrite, Calling, Runs
<1>11. CASE CallHandoff
  BY <1>1, <1>11 DEF CallHandoff, HandOver
<1>12. CASE CallRun
  <2> PICK out \in {"none", "clean", "failing"}, pass \in BOOLEAN :
         run' = [run EXCEPT !.passed = @ \/ pass,
                            !.outputs = IF "failing" \in {@, out} THEN "failing"
                                        ELSE IF out = "clean" THEN "clean" ELSE @]
    BY <1>12 DEF CallRun
  <2>1. run'.passed = (run.passed \/ pass)
    BY <1>0 DEF Runs
  <2> QED BY <1>12, <2>1, TestsKept DEF CallRun, Calling
<1>13. CASE EndBatch \/ RefuseUntested
  BY <1>0, <1>2, <1>13 DEF EndBatch, RefuseUntested
<1>14. CASE RefuseFailing
  <2>1. /\ [run EXCEPT !.outputs = KeptEvidence] \in Runs
        /\ [run EXCEPT !.outputs = KeptEvidence].passed = run.passed
    BY <1>0 DEF KeptEvidence, Runs
  <2> QED BY <1>2, <1>14, <2>1 DEF RefuseFailing
<1>15. CASE Accept
  BY <1>0, <1>15, StopType DEF Accept, Untested, Tests, SelfTestGates
<1>16. CASE LoopLimit
  BY <1>1, <1>16 DEF LoopLimit
<1>17. CASE Reflect
  BY <1>0, <1>17, TestsKept DEF Reflect, Reflects, Runs
<1>18. CASE Close \/ Continue
  BY <1>18, TestsKept DEF Close, Continue
<1>19. CASE Leave
  <2>1. run'.passed = run.passed
    BY <1>0, <1>19 DEF Leave, Runs
  <2>2. code' = 0 => how = "context" \/ TaskComplete
    BY <1>19 DEF Leave
  <2> QED BY <1>19, <2>1, <2>2 DEF Leave, TaskComplete, Tests, SelfTestGates
<1>20. CASE PipelineStep \/ PipelineFallsBack
  BY <1>20, TestsKept DEF PipelineStep, PipelineFallsBack, loopVars
<1>21. CASE PipelineReturns
  BY <1>21 DEF PipelineReturns, pipelineVars, Tests, SelfTestGates
<1>22. CASE UNCHANGED vars
  BY <1>22 DEF vars, loopVars, pipelineVars, Tests, SelfTestGates
<1> QED BY <1>3, <1>4, <1>5, <1>6, <1>7, <1>8, <1>9, <1>10, <1>11, <1>12, <1>13, <1>14,
           <1>15, <1>16, <1>17, <1>18, <1>19, <1>20, <1>21, <1>22
        DEF Next, Piped, Looped, Answered, Called, Claimed, Ending, Exited

(* A playthrough bot exits with success only after its self-test passed in *)
(* this run, also when its loops ran out, unless the task was handed off   *)
(* or continued (the pass gate of main() and its exit code).               *)
THEOREM BotsAreTested == Spec => []SelfTestGates
<1> DEFINE IInv == Typed /\ Tests
<1>1. Init => IInv
  BY TypedInit DEF Init, Tests, SelfTestGates
<1>2. IInv /\ [Next]_vars => IInv'
  BY TypedStep, TestsStep
<1>3. IInv => SelfTestGates
  BY DEF Tests
<1> QED BY <1>1, <1>2, <1>3, PTL DEF Spec

-------------------------------------------------------------------------------
(* What has been left behind so far: nothing within the loop, what ended   *)
(* it after, and one continuation at the most at the end.                  *)
FollowUps ==
  /\ at = "pipeline" /\ stage = "next" /\ pos = 1 => queued = {}
  /\ at \in {"loop", "answered", "calls"} => queued = {}
  /\ at \in {"stopped", "closing"} =>
       queued = IF how = "handoff" THEN {"handoff"} ELSE {}
  /\ at \in {"leaving", "exited"} /\ how # "none" =>
       queued \in {{}, {"handoff"}, {"continuation"}}

LEMMA FollowUpsKept ==
  ASSUME FollowUps, UNCHANGED <<queued, how>>,
         \/ {at, at'} \subseteq {"loop", "answered", "calls"}
         \/ {at, at'} \subseteq {"stopped", "closing"}
         \/ {at, at'} \subseteq {"leaving", "exited"}
  PROVE  FollowUps'
BY DEF FollowUps

LEMMA FollowUpsStep ==
  ASSUME Typed, FollowUps, [Next]_vars
  PROVE  FollowUps'
<1>0. run \in Runs /\ Position
  BY DEF Typed, LoopInv, LoopTypeOK
<1>1. ASSUME NEW reason, reason # "handoff", Stop(reason), UNCHANGED queued,
             at \in {"loop", "answered", "calls"}
      PROVE  FollowUps'
  BY <1>1 DEF Stop, FollowUps
<1>2. ASSUME NEW r, NextLoop(r), UNCHANGED <<queued, how>>, at \in {"answered", "calls"}
      PROVE  FollowUps'
  BY <1>2, FollowUpsKept DEF NextLoop
<1>3. CASE AskModel
  <2>1. CASE Stop("context")
    BY <1>1, <1>3, <2>1 DEF AskModel, World
  <2>2. CASE at' = "answered"
    BY <1>3, <2>2, AskedType, FollowUpsKept DEF Stop, AskModel, World, Typed
  <2> QED BY <1>3, <2>1, <2>2, AskedType DEF Typed
<1>4. CASE Escalate
  BY <1>4, FollowUpsKept DEF Escalate, Escalates, ByCheap, World
<1>5. CASE GuardCheap \/ RefuseUntested \/ RefuseFailing \/ EndBatch
  BY <1>2, <1>5 DEF GuardCheap, ByCheap, RefuseUntested, RefuseFailing, EndBatch, Claims,
     BatchDone, Settled, World
<1>6. CASE Correct
  BY <1>6, FollowUpsKept DEF Correct, Settled, World
<1>7. CASE RetryParse
  BY <1>1, <1>2, <1>7 DEF RetryParse, Settled, World
<1>8. CASE Nudge
  BY <1>1, <1>2, <1>8 DEF Nudge, Settled, World
<1>9. CASE BeginBatch \/ CallPlain
  BY <1>9, FollowUpsKept DEF BeginBatch, CallPlain, Settled, World
<1>10. CASE CallWrite
  BY <1>10, FollowUpsKept DEF CallWrite, Calling
<1>11. CASE CallHandoff
  <2>1. queued = {}
    BY <1>11 DEF CallHandoff, Calling, FollowUps
  <2> QED BY <1>11, <2>1 DEF CallHandoff, HandOver, Stop, FollowUps
<1>12. CASE CallRun
  BY <1>12, FollowUpsKept DEF CallRun, Calling, World
<1>13. CASE Accept
  BY <1>1, <1>13 DEF Accept, Claims, BatchDone, Settled, World
<1>14. CASE LoopLimit
  BY <1>1, <1>14 DEF LoopLimit, World
<1>15. CASE Reflect \/ Close
  BY <1>15, FollowUpsKept DEF Reflect, Reflects, Close, World
<1>16. CASE Continue
  <2>1. at' = "leaving" /\ how' = how
    BY <1>16 DEF Continue
  <2>2. queued' \in {queued, queued \cup {"continuation"}}
    BY <1>16 DEF Continue, spawn_continuation_task
  <2>3. CASE queued' = queued
    BY <1>16, <2>1, <2>3 DEF Continue, FollowUps
  <2>4. CASE queued' # queued
    <3>1. how \in {"limit", "context"} /\ at \in {"stopped", "closing"}
      BY <1>16, <2>4 DEF Continue, spawn_continuation_task, SpawnAtLimit
    <3>2. queued = {}
      BY <3>1 DEF FollowUps
    <3> QED BY <2>1, <2>2, <3>2 DEF FollowUps
  <2> QED BY <2>3, <2>4
<1>17. CASE Leave
  BY <1>17, FollowUpsKept DEF Leave
<1>18. CASE PipelineStep
  <2>1. stage' = "next" => pos' # 1
    BY <1>18, PipeStep DEF PipelineStep, Typed, PipeInv, PipelineTypeOK
  <2> QED BY <1>18, <2>1 DEF PipelineStep, loopVars, FollowUps
<1>19. CASE PipelineFallsBack
  BY <1>19 DEF PipelineFallsBack, World, FollowUps
<1>20. CASE PipelineReturns
  BY <1>0, <1>20 DEF PipelineReturns, Position, FollowUps
<1>21. CASE UNCHANGED vars
  BY <1>21 DEF vars, loopVars, pipelineVars, World, FollowUps
<1> QED BY <1>3, <1>4, <1>5, <1>6, <1>7, <1>8, <1>9, <1>10, <1>11, <1>12, <1>13, <1>14,
           <1>15, <1>16, <1>17, <1>18, <1>19, <1>20, <1>21
        DEF Next, Piped, Looped, Answered, Called, Claimed, Ending, Exited

(* One run leaves at most one task to do what it left undone: a hand-off   *)
(* ends the loop as a completion, and of the two continuations each has an *)
(* end of its own (handoff branch, loop limit and context limit of main()).*)
THEOREM OneFollowUpAtMost == Spec => []OneFollowUp
<1> DEFINE IInv == Typed /\ FollowUps
<1>1. Init => IInv
  BY TypedInit DEF Init, FollowUps
<1>2. IInv /\ [Next]_vars => IInv'
  BY TypedStep, FollowUpsStep
<1>3. IInv => OneFollowUp
  <2> SUFFICES ASSUME IInv, at # "pipeline", how # "none"
               PROVE  Cardinality(queued) <= 1
    BY DEF OneFollowUp
  <2>1. queued \in {{}, {"handoff"}, {"continuation"}}
    BY DEF Typed, LoopInv, LoopTypeOK, Position, FollowUps
  <2>2. CASE queued = {}
    BY <2>2, FS_EmptySet
  <2>3. CASE queued \in {{"handoff"}, {"continuation"}}
    <3>1. Cardinality({"handoff"}) = 1 /\ Cardinality({"continuation"}) = 1
      BY FS_Singleton
    <3> QED BY <2>3, <3>1
  <2> QED BY <2>1, <2>2, <2>3
<1> QED BY <1>1, <1>2, <1>3, PTL DEF Spec

-------------------------------------------------------------------------------
(* Validations behind which the pipeline has no work phase any more. Once  *)
(* one of them is passed, a run that has not failed has a valid tree,      *)
(* except while a repair is at work.                                       *)
Final == {v \in Places("validate") : \A w \in Places("work") : w < v}

Validated ==
  (\E v \in Final : v < pos) /\ repairing = "no" /\ ~state.failed => tree.valid

LEMMA ValidatedStep ==
  ASSUME PipeInv, Validated, NEW continues, run_pipeline(continues)
  PROVE  Validated'
<1>0. /\ pipeline \in Seq(STRING) /\ pos \in 1..(Len(pipeline) + 1) /\ Len(pipeline) \in Nat
      /\ DOMAIN pipeline = 1..Len(pipeline)
  BY DEF PipeInv, PipelineTypeOK
<1>1. CASE NextPhase
  <2>1. UNCHANGED <<pipeline, repairing, state, tree>>
    BY <1>1 DEF NextPhase
  <2>2. ASSUME NEW v \in Final, v < pos' PROVE v < pos
    BY <1>0, <1>1, <2>2 DEF NextPhase, Final, Places, PHASE_REGISTRY
  <2> QED BY <2>1, <2>2 DEF Validated, Final, Places
<1>2. CASE PhaseGoesOn
  <2>1. CASE UNCHANGED tree
    BY <1>2, <2>1 DEF PhaseGoesOn, Validated, Final, Places
  <2>2. CASE current = "work" /\ repairing = "no"
    <3>1. pos \in Places("work")
      BY <1>2, <2>2 DEF PhaseGoesOn, PipeInv, Courses, Places
    <3>2. \A v \in Final : pos < v
      BY <3>1 DEF Final
    <3> QED BY <1>0, <1>2, <3>2 DEF PhaseGoesOn, Validated, Final, Places
  <2>3. CASE repairing # "no"
    BY <1>2, <2>3 DEF PhaseGoesOn, Validated
  <2> QED BY <1>2, <2>1, <2>2, <2>3 DEF PhaseGoesOn
<1>3. CASE PhaseEnds
  <2> PICK s \in TaskStates, raised \in BOOLEAN :
         /\ After(s, raised) /\ (raised => s.failed)
         /\ state.failed => s.failed
         /\ current = "validate" /\ ~s.failed => tree'.valid
    BY <1>3 DEF PhaseEnds
  <2>0. /\ stage = "phase" /\ UNCHANGED pipeline /\ tree' \in Trees
        /\ tree.valid => tree'.valid
    BY <1>3 DEF PhaseEnds
  <2> SUFFICES ASSUME NEW v \in Final, v < pos', repairing' = "no", ~state'.failed
               PROVE  tree'.valid
    BY <2>0 DEF Validated, Final, Places
  <2>1. state' = s /\ (pos' = pos + 1 \/ (pos' = pos /\ s.failed))
    BY <2>0, AfterPhase DEF Trees
  <2>2. ~s.failed /\ ~state.failed /\ pos' = pos + 1
    BY <2>1
  <2>3. CASE repairing = "no" /\ v < pos
    BY <2>0, <2>2, <2>3 DEF Validated
  <2>4. CASE repairing = "no" /\ v = pos
    <3>1. current = "validate"
      BY <2>0, <2>4 DEF PipeInv, Courses, Final, Places
    <3> QED BY <2>2, <3>1
  <2>5. CASE repairing # "no"
    <3>1. repairing = "validate"
      BY <2>2, <2>5 DEF After, RepairNext, PipeInv, PipelineTypeOK
    <3>2. current = "validate"
      BY <2>0, <3>1 DEF PipeInv, Courses
    <3> QED BY <2>2, <3>2
  <2>6. v <= pos
    BY <1>0, <2>2 DEF Final, Places
  <2> QED BY <1>0, <2>3, <2>4, <2>5, <2>6 DEF Final, Places
<1> QED BY <1>1, <1>2, <1>3, PipeMoves

(* A pipeline that ends well and has a validation after its last work      *)
(* phase leaves a tree that was validated as it is, for every order of the *)
(* phases and every number of repairs (run_pipeline(), work, validate).    *)
THEOREM SuccessMeansValidated == Spec => []SuccessIsValidated
<1> DEFINE IInv == Typed /\ Validated
<1>1. Init => IInv
  <2>1. Init => pos = 1 /\ pipeline \in Seq(STRING)
    BY TypedInit DEF Init, PipelineInit, Typed, PipeInv, PipelineTypeOK
  <2>2. Init => Validated
    BY <2>1 DEF Validated, Final, Places
  <2> QED BY <2>2, TypedInit
<1>2. IInv /\ [Next]_vars => IInv'
  <2> SUFFICES ASSUME IInv, [Next]_vars PROVE Validated'
    BY TypedStep
  <2>1. CASE UNCHANGED pipelineVars
    BY <2>1 DEF pipelineVars, Validated, Final, Places
  <2>2. CASE PipelineStep
    BY <2>2, ValidatedStep DEF PipelineStep, Typed
  <2>3. CASE PipelineFallsBack
    BY <2>3 DEF PipelineFallsBack, Validated, Final, Places
  <2> QED BY <2>1, <2>2, <2>3 DEF Next, Piped, PipelineReturns, Exited, vars
<1>3. IInv => SuccessIsValidated
  <2> SUFFICES ASSUME IInv, stage = "done", ~state.failed, NEW v \in Final
               PROVE  tree.valid
    BY DEF SuccessIsValidated, Final
  <2>1. pos > Len(pipeline) /\ repairing = "no"
    BY DEF Typed, PipeInv, Courses
  <2>2. v \in 1..Len(pipeline) /\ Len(pipeline) \in Nat /\ pos \in Nat
    BY DEF Final, Places, Typed, PipeInv, PipelineTypeOK
  <2> QED BY <2>1, <2>2 DEF Validated
<1> QED BY <1>1, <1>2, <1>3, PTL DEF Spec

-------------------------------------------------------------------------------
(* Until the work phase is left as completed, the only commit it can count *)
(* is one of its own tool.                                                 *)
Commits ==
  /\ ~job.completed => job.commit \in {"none", "tool"}
  /\ CompletedWorkWasCommitted

LEMMA CommitsGoOn ==
  ASSUME job'.completed = FALSE, job'.commit \in {"none", "tool"}
  PROVE  Commits'
BY DEF Commits, CompletedWorkWasCommitted

LEMMA CommitsStep ==
  ASSUME PipeInv, Commits, NEW continues, run_pipeline(continues)
  PROVE  Commits'
<1>0. job \in Jobs /\ tree \in Trees
  BY DEF PipeInv, PipelineTypeOK, Trees
<1>1. CASE job' = NewJob
  BY <1>1, CommitsGoOn DEF NewJob
<1>2. ASSUME NEW j \in Jobs, ~j.completed, j.commit \in {"none", "tool"}, Again(j)
      PROVE  Commits'
  <2>1. job'.completed = j.completed /\ job'.commit = j.commit
    BY <1>2 DEF Again, Jobs
  <2> QED BY <1>2, <2>1, CommitsGoOn DEF Jobs
<1>3. ASSUME NEW s, NEW raised, stage = "phase", After(s, raised)
      PROVE  Commits'
  BY <1>1, <1>3 DEF After, Left
<1>4. CASE NextPhase
  BY <1>1, <1>4 DEF NextPhase, At, Commits, CompletedWorkWasCommitted
<1>5. CASE Inspect \/ SynthesizePhase \/ CreateTasksPhase
  <2>1. ASSUME current # "work", Again(job)
        PROVE  Commits'
    <3>1. job'.completed = job.completed /\ job'.commit = job.commit
      BY <1>0, <2>1 DEF Again, Jobs
    <3> QED BY <2>1, <3>1 DEF Again, At, Commits, CompletedWorkWasCommitted
  <2> QED BY <1>3, <1>5, <2>1 DEF Inspect, Inspecting, SynthesizePhase, CreateTasksPhase, At
<1>6. CASE PlanPhase \/ ScoutPhase \/ ReportPhase \/ ValidatePhase \/ Raise \/ WorkEnds(continues)
  BY <1>3, <1>6 DEF PlanPhase, ScoutPhase, ReportPhase, ValidatePhase, Raise, WorkEnds, At
<1>7. CASE WorkWrite
  <2>1. /\ [job EXCEPT !.mutated = TRUE] \in Jobs
        /\ [job EXCEPT !.mutated = TRUE].completed = job.completed
        /\ [job EXCEPT !.mutated = TRUE].commit = job.commit
    BY <1>0 DEF Jobs
  <2> QED BY <1>2, <1>7, <2>1 DEF WorkWrite, Working, Commits
<1>8. CASE WorkCommit
  <2> PICK ok \in BOOLEAN : Again([job EXCEPT !.mutated = TRUE, !.commit = IF ok THEN "tool" ELSE @])
    BY <1>8 DEF WorkCommit
  <2> DEFINE j == [job EXCEPT !.mutated = TRUE, !.commit = IF ok THEN "tool" ELSE @]
  <2>1. j \in Jobs /\ j.completed = job.completed /\ j.commit \in {"tool", job.commit}
    BY <1>0 DEF Jobs
  <2> HIDE DEF j
  <2>2. ~job.completed /\ job.commit \in {"none", "tool"}
    BY <1>8 DEF WorkCommit, Working, Commits
  <2> QED BY <1>2, <2>1, <2>2 DEF j
<1>9. CASE WorkShell
  BY <1>0, <1>2, <1>9 DEF WorkShell, Working, Commits
<1>10. CASE WorkComplete
  <2>1. job.mutated => job.commit = "tool"
    BY <1>10 DEF WorkComplete, NeedsCommit, Working, Commits
  <2>2. job'.completed /\ job'.mutated = job.mutated /\ job'.commit = job.commit
    BY <1>0, <1>10 DEF WorkComplete, Finish, Jobs
  <2> QED BY <2>1, <2>2 DEF Commits, CompletedWorkWasCommitted
<1>11. CASE WorkPremature
  <2>0. ~job.completed /\ job.commit = "none"
    BY <1>11 DEF WorkPremature, Working, NeedsCommit
  <2>1. CASE ~tree.dirty /\ Finish([job EXCEPT !.commit = "run_command"]) /\ UNCHANGED tree
    <3>1. job'.completed
      BY <1>0, <2>1 DEF Finish, Jobs
    <3> QED BY <2>1, <3>1 DEF Commits, CompletedWorkWasCommitted
  <2>2. CASE job.premature < 2 /\ Again([job EXCEPT !.premature = @ + 1])
    <3>1. job'.completed = job.completed /\ job'.commit = job.commit
      BY <1>0, <2>2 DEF Again, Jobs
    <3> QED BY <1>0, <2>0, <3>1, CommitsGoOn DEF Jobs
  <2>3. CASE Finish([job EXCEPT !.commit = "auto"]) /\ tree' = [tree EXCEPT !.dirty = FALSE]
    <3>1. job'.completed /\ ~tree'.dirty
      BY <1>0, <2>3 DEF Finish, Jobs, Trees
    <3> QED BY <3>1 DEF Commits, CompletedWorkWasCommitted
  <2>4. CASE Again([job EXCEPT !.premature = 3])
    <3>1. job'.completed = job.completed /\ job'.commit = job.commit
      BY <1>0, <2>4 DEF Again, Jobs
    <3> QED BY <1>0, <2>0, <3>1, CommitsGoOn DEF Jobs
  <2> QED BY <1>11, <2>1, <2>2, <2>3, <2>4 DEF WorkPremature, AutoCommit
<1> QED BY <1>4, <1>5, <1>6, <1>7, <1>8, <1>9, <1>10, <1>11 DEF run_pipeline, Look, Work

(* The work phase is left as completed with uncommitted changes only after *)
(* a commit of its own: repeating WORK_COMPLETE does not get it there (the *)
(* premature claims of phases/work.py).                                    *)
THEOREM CompletedMeansCommitted == Spec => []CompletedWorkWasCommitted
<1> DEFINE IInv == Typed /\ Commits
<1>1. Init => IInv
  <2>1. Init => Commits
    BY DEF Init, PipelineInit, NewJob, Commits, CompletedWorkWasCommitted
  <2> QED BY <2>1, TypedInit
<1>2. IInv /\ [Next]_vars => IInv'
  <2> SUFFICES ASSUME IInv, [Next]_vars PROVE Commits'
    BY TypedStep
  <2>1. CASE UNCHANGED pipelineVars
    BY <2>1 DEF pipelineVars, Commits, CompletedWorkWasCommitted, At
  <2>2. CASE PipelineStep
    BY <2>2, CommitsStep DEF PipelineStep, Typed
  <2>3. CASE PipelineFallsBack
    BY <2>3 DEF PipelineFallsBack, Commits, CompletedWorkWasCommitted, At
  <2> QED BY <2>1, <2>2, <2>3 DEF Next, Piped, PipelineReturns, Exited, vars
<1>3. IInv => CompletedWorkWasCommitted
  BY DEF Commits
<1> QED BY <1>1, <1>2, <1>3, PTL DEF Spec
================================================================================
