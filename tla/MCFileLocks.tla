----------------------------- MODULE MCFileLocks ------------------------------
(* Two tasks that edit the same file, a third that waits for one of them,  *)
(* room for their continuations, and a lock that may have been left behind.*)
EXTENDS FileLocks, TLC

CONSTANTS ta, tb, td, c1, c2, c3, old, file

MCFiles == {file}
MCTasks == {ta, tb, td, c1, c2, c3, old}
MCGiven == {ta, tb, td}
MCPast == {old}
MCNeeds == ta :> <<file>> @@ tb :> <<file>> @@ td :> <<>>
MCWaits == ta :> {} @@ tb :> {} @@ td :> {ta}
===============================================================================
