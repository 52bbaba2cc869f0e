------------------------------ MODULE MCRecovery ------------------------------
(* A bug, an audit, and an art pass that waits for both; the bug is the    *)
(* head of the project.                                                    *)
EXTENDS Recovery, TLC

CONSTANTS bug, audit, art

MCTasks == {bug, audit, art}
MCType == bug :> "bug" @@ audit :> "audit" @@ art :> "soft"
MCWaits == bug :> {} @@ audit :> {} @@ art :> {bug, audit}
MCAttempts == bug :> 1 @@ audit :> 1 @@ art :> 2
MCChain == bug :> 1 @@ audit :> 0 @@ art :> 0

Threads == Permutations(Finishers)
===============================================================================
