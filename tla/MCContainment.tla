---------------------------- MODULE MCContainment -----------------------------
(* Model-checking instance of Containment.                                 *)
EXTENDS Containment, TLC

Symmetry == Permutations(Agents) \cup Permutations(Tasks)
===============================================================================
