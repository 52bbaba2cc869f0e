------------------------------ MODULE MCTaskStore ------------------------------
(* Model-checking instance of TaskStore.                                   *)
EXTENDS DependencySearch, TLC

CONSTANTS t1, t2

Symmetry == Permutations(Tasks)

(* Of two initial states that differ in the names of t1 and t2, one.       *)
MCInit ==
  /\ Init
  /\ status[t2] = "absent" => status[t1] = "absent"
  /\ status[t1] = status[t2] => deps[t1] = {}

MCSpec == MCInit /\ [][Next]_vars /\ Fairness
===============================================================================
