---------------------------- MODULE ModelRouting ----------------------------
(***************************************************************************)
(* Which provider tier answers an agent's next model call: the tactical    *)
(* choice of swarm/model_routing.py under the strategic ceiling of         *)
(* swarm/model_policy.py.  Tools are abstracted to the classes the router  *)
(* tells apart: those in READ_ONLY_TOOLS, those in STRONG_TOOLS, the rest. *)
(***************************************************************************)
EXTENDS Naturals

CONSTANT MaxCheap   \* max_consecutive_cheap_loops of loop_model_routing

ASSUME MaxCheapAssumption == MaxCheap \in Nat \ {0}

READ_ONLY_TOOLS == {"read"}
STRONG_TOOLS == {"write", "run"}
Tools == READ_ONLY_TOOLS \cup STRONG_TOOLS \cup {"other"}

STRONG_TASK_TYPES == {"bug", "qa"}

\* The ceiling the policy table gives a task; spending over the project's cap
\* of strong loops lowers the ordinary ceiling, and only that one.
resolve_policy(ceiling, overCap) ==
  IF ceiling = "either" /\ overCap THEN "fast" ELSE ceiling

\* The tier of the call made at loop position `loop', from the tools the agent
\* last asked for (next_tools, or last_tools where that list is empty).  The
\* fast and the strong provider are two different ones.
choose_adaptive_flat_provider(type, loop, requested, cheap, ceiling) ==
  LET qualitative == CASE ceiling = "strong" -> TRUE
                       [] ceiling = "fast" -> FALSE
                       [] OTHER -> type \in STRONG_TASK_TYPES
      cautious == IF ceiling = "fast" THEN "cheap" ELSE "strong"
      probe == requested # {} /\ requested \subseteq READ_ONLY_TOOLS
  IN IF loop = 0 \/ cheap >= MaxCheap THEN cautious
     ELSE IF qualitative THEN IF probe /\ cheap = 0 THEN "cheap" ELSE "strong"
     ELSE IF requested = {} THEN cautious
     ELSE IF probe THEN "cheap" ELSE "strong"

=============================================================================
