----------------------------- MODULE MCAgentLoop -----------------------------
(***************************************************************************)
(* Instances of AgentLoop for TLC.                                         *)
(***************************************************************************)
EXTENDS AgentLoop

Plain == [type |-> "feature", chain |-> "free", pipeline |-> <<>>, readonly |-> FALSE, scouted |-> FALSE,
          adaptive |-> FALSE, ceiling |-> "either"]

\* One assignment per way the process treats a task differently.
Pipelines == {
  <<"plan", "scout", "work", "validate">>,      \* "control"
  <<"work", "validate", "plan", "scout">>,      \* two of the orders "variant-d" shuffles to
  <<"validate", "work">>,
  <<"scout", "synthesize", "create_tasks">>,
  <<"scout", "diagnose">>,                      \* a research feeder
  <<"art", "nothing", "work">> }                \* with a name that is not registered

SomeAssignments ==
  {[Plain EXCEPT !.pipeline = p] : p \in Pipelines} \cup
  { Plain,
    [Plain EXCEPT !.adaptive = TRUE, !.chain = "ended"],
    [Plain EXCEPT !.type = "bug", !.adaptive = TRUE, !.ceiling = "strong"],
    [Plain EXCEPT !.type = "qa", !.readonly = TRUE, !.scouted = TRUE],
    [Plain EXCEPT !.type = "playthrough_bot"] }

SomeBatches == {<<"read">>, <<"other">>, <<"run">>, <<"write", "run">>}
=============================================================================
