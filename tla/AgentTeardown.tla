----------------------------- MODULE AgentTeardown -----------------------------
(***************************************************************************)
(* What claim_finish promises of the teardown of agents: each agent is     *)
(* supervised once, from its spawn until one path takes its handle; the    *)
(* path that takes it either hands it to a finish thread or drops it; and  *)
(* a torn agent is never supervised or finished again.                     *)
(***************************************************************************)
CONSTANT Agents

VARIABLE phase   \* of each agent

Phases == {"unborn", "supervised", "tearing", "torn"}

Init == phase = [a \in Agents |-> "unborn"]

Step(a, from, to) ==
  /\ phase[a] = from
  /\ phase' = [phase EXCEPT ![a] = to]

Spawn(a) == Step(a, "unborn", "supervised")
Claim(a) == Step(a, "supervised", "tearing")   \* handed to a finish thread
Drop(a) == Step(a, "supervised", "torn")       \* killed by a repair path
Finish(a) == Step(a, "tearing", "torn")

(* The controller dies: every handle and finish thread goes with it.       *)
Crash ==
  phase' = [a \in Agents |-> IF phase[a] = "unborn" THEN "unborn" ELSE "torn"]

Next ==
  \/ \E a \in Agents : Spawn(a) \/ Claim(a) \/ Drop(a) \/ Finish(a)
  \/ Crash

Spec == Init /\ [][Next]_phase
===============================================================================
