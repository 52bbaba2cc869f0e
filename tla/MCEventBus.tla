------------------------------ MODULE MCEventBus ------------------------------
(* Two dispatcher threads are enough for one to overlap the other; a third *)
(* lets the bus be switched on again after that.                           *)
EXTENDS EventBus

MCThreads == 1..3
===============================================================================
