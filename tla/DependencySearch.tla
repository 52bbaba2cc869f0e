--------------------------- MODULE DependencySearch ---------------------------
(***************************************************************************)
(* The depth-first search of _would_introduce_cycle, and that it decides   *)
(* what would_introduce_cycle of TaskStore says, for every graph over the  *)
(* tasks of the instance.                                                  *)
(***************************************************************************)
EXTENDS TaskStore

RECURSIVE dfs(_, _, _), dfs_all(_, _, _)

(* Search from node n; s has the nodes on the path, those done with, and   *)
(* whether a cycle was found.                                              *)
dfs(g, n, s) ==
  LET r == dfs_all(g, g[n], [s EXCEPT !.visiting = @ \cup {n}])
  IN  IF r.found THEN r
      ELSE [r EXCEPT !.visiting = @ \ {n}, !.visited = @ \cup {n}]

(* The loop over a list of dependencies, which ends at the first cycle.    *)
dfs_all(g, D, s) ==
  IF D = {} \/ s.found THEN s
  ELSE LET d == CHOOSE d \in D : TRUE
           r == IF d \in s.visiting THEN [s EXCEPT !.found = TRUE]
                ELSE IF d \in s.visited THEN s ELSE dfs(g, d, s)
       IN  dfs_all(g, D \ {d}, r)

search_finds_cycle(g, t) ==
  dfs(g, t, [visiting |-> {}, visited |-> {}, found |-> FALSE]).found

(* The search reports a cycle exactly when, within what it reaches, there  *)
(* are tasks that all wait for one of them.                                *)
ASSUME SearchDecides ==
  \A g \in [Tasks -> SUBSET Tasks], t \in Tasks :
    search_finds_cycle(g, t) <=> \E C \in SUBSET Reachable(g, t) : Looped(g, C)
===============================================================================
