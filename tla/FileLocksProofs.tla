---------------------------- MODULE FileLocksProofs ----------------------------
(***************************************************************************)
(* Proofs about the file locks and the hand-offs, for every set of tasks,  *)
(* files and readers, whatever the tasks edit and wait for, and however    *)
(* often agents are killed and answers are lost.                           *)
(***************************************************************************)
EXTENDS FileLocks, TLAPS

LEMMA Names ==
  /\ NoTask \notin Tasks /\ NoTask \notin Given /\ Given \subseteq Tasks
  /\ Readers \cap Tasks = {}
  /\ Past \subseteq Tasks /\ NoFile \notin Files /\ Overlap \in BOOLEAN
  /\ Needs \in [Given -> Seq(Files)] /\ Waits \in [Given -> SUBSET Given]
  /\ MaxFaults \in Nat /\ MaxReads \in Nat
BY LocksAssumption

-------------------------------------------------------------------------------
(* What goes together in a row and its process: who runs is in progress,   *)
(* who has work has a root, and where an agent has its dependents in hand. *)

Active == {"pending", "in_progress"}

Place(t) ==
  /\ task[t].status = "in_progress" <=> agent[t].pc # "none"
  /\ task[t].status \in Active => task[t].root \in Given
  /\ task[t].status = "absent" => task[t].root = NoTask
  /\ t \in Given => task[t].root = t /\ task[t].status # "absent"

InHand(t) ==
  /\ agent[t].pc \notin {"move", "patch"} => agent[t].kids = {}
  /\ IF agent[t].pc = "patch" THEN agent[t].kid \in Tasks ELSE agent[t].kid = NoTask
  /\ agent[t].pc = "handoff" => agent[t].owner \in Tasks
  /\ agent[t].pc \in {"dependents", "move", "patch"} =>
       LET c == agent[t].follow IN
       /\ c \in Tasks /\ task[c].root = task[t].root /\ task[c].status # "absent"

Placed == \A t \in Tasks : Place(t)
Held == \A t \in Tasks : InHand(t)

LEMMA FieldsOf ==
  ASSUME TypeOK, NEW t \in Tasks
  PROVE  /\ task[t] \in TaskRows /\ agent[t] \in Processes /\ req[t] \in Requests
         /\ list[t] \in Listings
         /\ task[t].deps \subseteq Tasks /\ task[t].root \in Given \cup {NoTask}
         /\ agent[t].kids \subseteq Tasks /\ agent[t].claimed \subseteq Files
         /\ agent[t].follow \in Tasks \cup {NoTask} /\ agent[t].owner \in Tasks \cup {NoTask}
         /\ agent[t].kid \in Tasks \cup {NoTask} /\ agent[t].deps \subseteq Tasks
         /\ agent[t].file \in Files \cup {NoFile}
         /\ req[t].file \in Files \cup {NoFile} /\ req[t].view \in Columns
         /\ req[t].prev \in Tasks \cup {NoTask}
BY DEF TypeOK, TaskRows, Processes, Requests, Listings

(* One process, one row, one request, one listing is written.              *)
LEMMA PutProcess ==
  ASSUME TypeOK, NEW t \in Tasks, NEW g \in Processes, agent' = [agent EXCEPT ![t] = g]
  PROVE  agent' \in [Tasks -> Processes]
BY DEF TypeOK

LEMMA PutRequest ==
  ASSUME TypeOK, NEW t \in Tasks, NEW r \in Requests, req' = [req EXCEPT ![t] = r]
  PROVE  req' \in [Tasks -> Requests]
BY DEF TypeOK

LEMMA InitSound == Init => TypeOK /\ Placed /\ Held
<1> SUFFICES ASSUME Init PROVE TypeOK /\ Placed /\ Held
  OBVIOUS
<1>1. /\ column \in Columns /\ agent \in [Tasks -> Processes]
      /\ req \in [Tasks -> Requests] /\ list \in [Tasks \cup Readers -> Listings]
  BY Names DEF Init, Columns, Processes, Requests, Listings, NoAgent, NoReq, NoList, NoLocks
<1>2. task \in [Tasks -> TaskRows]
  BY Names DEF Init, TaskRows, Absent
<1>3. TypeOK
  <2>1. /\ worked = {} /\ left = {} /\ back = {} /\ faults \in 0..MaxFaults
        /\ reads \in 0..MaxReads
    BY Names DEF Init
  <2> QED BY <1>1, <1>2, <2>1 DEF TypeOK
<1>4. Placed
  BY Names DEF Init, Placed, Place, Active, Absent, NoAgent
<1>5. Held
  BY Names DEF Init, Held, InHand, NoAgent
<1> QED BY <1>3, <1>4, <1>5

-------------------------------------------------------------------------------
(* Every step keeps the types.                                             *)

LEMMA AnsweredType ==
  ASSUME TypeOK, NEW t \in Tasks, NEW o \in Tasks \cup {NoTask}, Answered(t, o),
         req[t].file \in Files
  PROVE  req' \in [Tasks -> Requests] /\ agent' \in [Tasks -> Processes]
<1>1. NoReq \in Requests
  BY DEF NoReq, NoLocks, Requests, Columns
<1>2. req' \in [Tasks -> Requests]
  BY <1>1, PutRequest DEF Answered
<1> DEFINE a == agent[t]
<1>3. a \in Processes
  BY FieldsOf
<1>4. [a EXCEPT !.pc = "work", !.claimed = a.claimed \cup {req[t].file}] \in Processes
  BY <1>3 DEF Processes
<1>5. [a EXCEPT !.pc = "list"] \in Processes
  BY <1>3 DEF Processes
<1>6. [a EXCEPT !.pc = "handoff", !.owner = o] \in Processes
  BY <1>3 DEF Processes
<1>7. agent' = [agent EXCEPT ![t] =
         IF a.pc # "lock" THEN a
         ELSE IF o = t THEN [a EXCEPT !.pc = "work", !.claimed = a.claimed \cup {req[t].file}]
         ELSE IF o = NoTask THEN [a EXCEPT !.pc = "list"]
         ELSE [a EXCEPT !.pc = "handoff", !.owner = o]]
  BY DEF Answered
<1>8. agent' \in [Tasks -> Processes]
  <2> HIDE DEF a
  <2> QED BY <1>3, <1>4, <1>5, <1>6, <1>7 DEF TypeOK
<1> QED BY <1>2, <1>8

(* A request that is being served is about a file, and so is the agent     *)
(* that waits for its answer.                                              *)
Asked == \A t \in Tasks : req[t].pc # "idle" => req[t].file \in Files
Wanted ==
  \A t \in Tasks : agent[t].pc \in {"lock", "list", "listed"} => agent[t].file \in Files

LEMMA LocksType ==
  ASSUME TypeOK, Asked, NEW t \in Tasks, Locks(t)
  PROVE  TypeOK' /\ Asked'
<1>0. /\ column \in Columns /\ NoReq \in Requests /\ NoReq.pc = "idle"
      /\ req[t] \in Requests /\ agent[t] \in Processes
  BY FieldsOf DEF NoReq, NoLocks, Requests, Columns, TypeOK
<1>1. CASE LockRead(t)
  <2>1. /\ [req[t] EXCEPT !.view = column, !.pc = IF @ = "read" THEN "write" ELSE "free"]
             \in Requests
        /\ [req[t] EXCEPT !.view = column, !.pc = IF @ = "read" THEN "write" ELSE "free"].file
             = req[t].file
    BY <1>0 DEF Requests
  <2> QED BY <1>1, <2>1, PutRequest DEF LockRead, TypeOK, Asked, bounds
<1>2. CASE lock_file(t)
  <2>1. req[t].file \in Files /\ req[t].view \in Columns
    BY <1>2, FieldsOf DEF lock_file, Asked
  <2>2. column' \in Columns
    BY <1>2, <2>1 DEF lock_file, Columns
  <2>3. CASE req[t].view[req[t].file] \in {NoTask, t}
    <3>1. Answered(t, t)
      BY <1>2, <2>3 DEF lock_file
    <3>2. req' \in [Tasks -> Requests] /\ agent' \in [Tasks -> Processes] /\ Asked'
      BY <1>0, <2>1, <3>1, AnsweredType DEF Answered, Asked, TypeOK
    <3> QED BY <1>2, <2>2, <3>2 DEF lock_file, TypeOK, bounds
  <2>4. CASE req[t].view[req[t].file] \notin {NoTask, t}
    <3>1. [req[t] EXCEPT !.pc = "check"] \in Requests
          /\ [req[t] EXCEPT !.pc = "check"].file = req[t].file
      BY <1>0 DEF Requests
    <3> QED BY <1>2, <2>1, <2>2, <2>4, <3>1, PutRequest DEF lock_file, TypeOK, Asked, bounds
  <2> QED BY <2>3, <2>4
<1>3. CASE LockCheck(t)
  <2>1. req[t].file \in Files /\ column[req[t].file] \in Tasks \cup {NoTask}
    BY <1>0, <1>3 DEF LockCheck, Asked, Columns
  <2> DEFINE o == column[req[t].file]
  <2>2. CASE o # NoTask /\ ~file_lock_owner_is_live(o)
    <3>1. [req[t] EXCEPT !.pc = "reread", !.prev = o] \in Requests
          /\ [req[t] EXCEPT !.pc = "reread", !.prev = o].file = req[t].file
      BY <1>0, <2>1 DEF Requests
    <3> QED BY <1>3, <2>1, <2>2, <3>1, PutRequest DEF LockCheck, TypeOK, Asked, bounds
  <2>3. CASE o = t /\ ~(o # NoTask /\ ~file_lock_owner_is_live(o))
    <3>1. [agent[t] EXCEPT !.pc = IF @ = "lock" THEN "list" ELSE @] \in Processes
      BY <1>0 DEF Processes
    <3> QED BY <1>0, <1>3, <2>1, <2>3, <3>1, PutRequest, PutProcess
            DEF LockCheck, TypeOK, Asked, bounds
  <2>4. CASE o # t /\ ~(o # NoTask /\ ~file_lock_owner_is_live(o))
    <3>1. Answered(t, o)
      BY <1>3, <2>4 DEF LockCheck
    <3> QED BY <1>3, <2>1, <3>1, AnsweredType
            DEF LockCheck, TypeOK, Asked, bounds, Answered, NoReq
  <2> QED BY <2>2, <2>3, <2>4
<1>4. CASE ReplaceRead(t)
  <2>1. [req[t] EXCEPT !.pc = "replace", !.view = column] \in Requests
        /\ [req[t] EXCEPT !.pc = "replace", !.view = column].file = req[t].file
    BY <1>0 DEF Requests
  <2> QED BY <1>4, <2>1, PutRequest DEF ReplaceRead, TypeOK, Asked, bounds
<1>5. CASE replace_file_lock(t)
  <2>1. req[t].file \in Files /\ req[t].view \in Columns
    BY <1>5, FieldsOf DEF replace_file_lock, Asked
  <2>2. column' \in Columns
    BY <1>5, <2>1 DEF replace_file_lock, Columns
  <2>3. CASE req[t].view[req[t].file] \in {NoTask, req[t].prev}
    <3>1. Answered(t, t)
      BY <1>5, <2>3 DEF replace_file_lock
    <3>2. req' \in [Tasks -> Requests] /\ agent' \in [Tasks -> Processes] /\ Asked'
      BY <1>0, <2>1, <3>1, AnsweredType DEF Answered, Asked, TypeOK
    <3> QED BY <1>5, <2>2, <3>2 DEF replace_file_lock, TypeOK, bounds
  <2>4. CASE req[t].view[req[t].file] \notin {NoTask, req[t].prev}
    <3>1. [req[t] EXCEPT !.pc = "again"] \in Requests
          /\ [req[t] EXCEPT !.pc = "again"].file = req[t].file
      BY <1>0 DEF Requests
    <3> QED BY <1>5, <2>1, <2>2, <2>4, <3>1, PutRequest
            DEF replace_file_lock, TypeOK, Asked, bounds
  <2> QED BY <2>3, <2>4
<1>6. CASE ReplaceAgain(t)
  <2>1. req[t].file \in Files /\ column[req[t].file] \in Tasks \cup {NoTask}
    BY <1>0, <1>6 DEF ReplaceAgain, Asked, Columns
  <2> DEFINE o == column[req[t].file]
  <2>2. CASE o = t
    <3>1. [agent[t] EXCEPT !.pc = IF @ = "lock" THEN "list" ELSE @] \in Processes
      BY <1>0 DEF Processes
    <3> QED BY <1>0, <1>6, <2>1, <2>2, <3>1, PutRequest, PutProcess
            DEF ReplaceAgain, TypeOK, Asked, bounds
  <2>3. CASE o # t
    <3>1. Answered(t, o)
      BY <1>6, <2>3 DEF ReplaceAgain
    <3> QED BY <1>6, <2>1, <3>1, AnsweredType
            DEF ReplaceAgain, TypeOK, Asked, bounds, Answered, NoReq
  <2> QED BY <2>2, <2>3
<1>7. CASE unlock_file(t)
  <2>1. req[t].file \in Files /\ req[t].view \in Columns
    BY <1>7, FieldsOf DEF unlock_file, Asked
  <2>2. column' \in Columns
    BY <1>0, <1>7, <2>1 DEF unlock_file, Columns
  <2> QED BY <1>0, <1>7, <2>2, PutRequest DEF unlock_file, TypeOK, Asked, bounds
<1> QED BY <1>1, <1>2, <1>3, <1>4, <1>5, <1>6, <1>7 DEF Locks

LEMMA ListsType ==
  ASSUME TypeOK, Wanted, NEW x \in Tasks \cup Readers, Lists(x)
  PROVE  TypeOK'
<1>0. /\ column \in Columns /\ NoList \in Listings /\ list[x] \in Listings
      /\ list[x].view \in Columns /\ list[x].stale \in Columns
  BY DEF NoList, NoLocks, Listings, Columns, TypeOK
<1>1. CASE AskList(x)
  <2>1. list' \in [Tasks \cup Readers -> Listings]
    <3>1. [NoList EXCEPT !.pc = "find"] \in Listings
      BY <1>0 DEF Listings
    <3> QED BY <1>1, <3>1 DEF AskList, TypeOK
  <2>2. reads' \in 0..MaxReads
    BY <1>1, Names DEF AskList, TypeOK
  <2>3. agent' \in [Tasks -> Processes]
    <3>1. CASE x \in Readers
      BY <1>1, <3>1 DEF AskList, TypeOK
    <3>2. CASE x \notin Readers
      <4>1. x \in Tasks /\ agent[x] \in Processes
        BY <3>2, FieldsOf
      <4>2. [agent[x] EXCEPT !.pc = "listed"] \in Processes
        BY <4>1 DEF Processes
      <4>3. agent' = [agent EXCEPT ![x] = [agent[x] EXCEPT !.pc = "listed"]]
        BY <1>1, <3>2 DEF AskList
      <4> QED BY <4>1, <4>2, <4>3, PutProcess
    <3> QED BY <3>1, <3>2
  <2> QED BY <1>1, <2>1, <2>2, <2>3 DEF AskList, TypeOK
<1>2. CASE ListRead(x)
  <2>1. \A pc \in {"found", "erase", "got"} :
          [list[x] EXCEPT !.view = column, !.pc = pc] \in Listings
    BY <1>0 DEF Listings
  <2>2. \E pc \in {"found", "erase", "got"} :
          list' = [list EXCEPT ![x] = [list[x] EXCEPT !.view = column, !.pc = pc]]
    BY <1>2 DEF ListRead
  <2>3. list' \in [Tasks \cup Readers -> Listings]
    BY <2>1, <2>2 DEF TypeOK
  <2> QED BY <1>2, <2>3 DEF ListRead, TypeOK, bounds
<1>3. CASE find_stale_file_locks(x)
  <2> DEFINE v == list[x].view
             S == [f \in Files |-> IF v[f] # NoTask /\ ~file_lock_owner_is_live(v[f])
                                   THEN v[f] ELSE NoTask]
  <2>1. S \in Columns
    BY <1>0 DEF Columns
  <2>2. [list[x] EXCEPT !.pc = "remove", !.stale = S] \in Listings
    <3> HIDE DEF S
    <3> QED BY <1>0, <2>1 DEF Listings
  <2>3. list' = [list EXCEPT ![x] = [list[x] EXCEPT !.pc = "remove", !.stale = S]]
    BY <1>3 DEF find_stale_file_locks
  <2>4. list' \in [Tasks \cup Readers -> Listings]
    <3> HIDE DEF S
    <3> QED BY <2>2, <2>3 DEF TypeOK
  <2> QED BY <1>0, <1>3, <2>4 DEF find_stale_file_locks, TypeOK, bounds
<1>4. CASE Reconciled(x)
  <2>1. [list[x] EXCEPT !.pc = "get"] \in Listings
    BY <1>0 DEF Listings
  <2> QED BY <1>4, <2>1 DEF Reconciled, TypeOK, bounds
<1>5. CASE get_locked_files(x)
  <2>1. column' \in Columns /\ list' \in [Tasks \cup Readers -> Listings]
    BY <1>0, <1>5 DEF get_locked_files, TypeOK
  <2>2. agent' \in [Tasks -> Processes]
    <3>1. CASE ~(x \in Tasks /\ agent[x].pc = "listed")
      BY <1>5, <3>1 DEF get_locked_files, TypeOK
    <3>2. CASE x \in Tasks /\ agent[x].pc = "listed"
      <4> DEFINE o == list[x].view[agent[x].file]
      <4>0. agent[x] \in Processes
        BY <3>2, FieldsOf
      <4>1. /\ [agent[x] EXCEPT !.pc = "work"] \in Processes
            /\ \A u \in Tasks : [agent[x] EXCEPT !.pc = "handoff", !.owner = u] \in Processes
        BY <4>0 DEF Processes
      <4>2. o \in Tasks \cup {NoTask}
        BY <1>0, <3>2 DEF Columns, Wanted
      <4> QED BY <1>5, <3>2, <4>1, <4>2 DEF get_locked_files, TypeOK
    <3> QED BY <3>1, <3>2
  <2> QED BY <1>5, <2>1, <2>2 DEF get_locked_files, TypeOK, bounds
<1>6. ASSUME NEW f \in Files, remove_file_lock(x, f) PROVE TypeOK'
  <2>1. column' \in Columns
    BY <1>0, <1>6 DEF remove_file_lock, Columns
  <2>2. [list[x].stale EXCEPT ![f] = NoTask] \in Columns
    BY <1>0 DEF Columns
  <2>3. [list[x] EXCEPT !.pc = "remove", !.stale = [list[x].stale EXCEPT ![f] = NoTask]]
          \in Listings
    BY <1>0, <2>2 DEF Listings
  <2>4. list' = [list EXCEPT ![x] = [list[x] EXCEPT !.pc = "remove",
                                      !.stale = [list[x].stale EXCEPT ![f] = NoTask]]]
    BY <1>6 DEF remove_file_lock
  <2> QED BY <1>6, <2>1, <2>3, <2>4 DEF remove_file_lock, TypeOK, bounds
<1> QED BY <1>1, <1>2, <1>3, <1>4, <1>5, <1>6 DEF Lists

LEMMA FaultsType ==
  ASSUME TypeOK, Asked, Held, NEW t \in Tasks, Faults(t)
  PROVE  TypeOK' /\ Asked'
<1>0. agent[t] \in Processes /\ NoAgent \in Processes
  BY FieldsOf DEF NoAgent, Processes
<1>1. /\ faults < MaxFaults /\ faults' = faults + 1
      /\ UNCHANGED <<column, task, req, list, worked, back, reads>>
  BY DEF Faults, Kill, LoseAnswer, HandoffLost, DependentsLost, MoveLost
<1>2. faults' \in 0..MaxFaults
  BY <1>1, Names DEF TypeOK
<1>3. left' \subseteq Tasks
  BY DEF Faults, Kill, LoseAnswer, HandoffLost, DependentsLost, MoveLost, TypeOK,
     get_task_dependents, Held, InHand
<1>4. agent' \in [Tasks -> Processes]
  <2>1. CASE Kill(t)
    <3>1. [NoAgent EXCEPT !.pc = "dead"] \in Processes
      BY <1>0 DEF Processes
    <3> QED BY <2>1, <3>1, PutProcess DEF Kill
  <2>2. CASE LoseAnswer(t)
    <3>1. [agent[t] EXCEPT !.pc = "list"] \in Processes
      BY <1>0 DEF Processes
    <3> QED BY <2>2, <3>1, PutProcess DEF LoseAnswer
  <2>3. CASE HandoffLost(t)
    <3>1. [agent[t] EXCEPT !.pc = "work", !.follow = NoTask] \in Processes
      BY <1>0 DEF Processes
    <3>2. agent' = [agent EXCEPT ![t] = [agent[t] EXCEPT !.pc = "work", !.follow = NoTask]]
      BY <2>3 DEF HandoffLost
    <3> QED BY <3>1, <3>2, PutProcess
  <2>4. CASE DependentsLost(t)
    <3>1. [agent[t] EXCEPT !.pc = "move"] \in Processes
      BY <1>0 DEF Processes
    <3> QED BY <2>4, <3>1, PutProcess DEF DependentsLost
  <2>5. CASE MoveLost(t)
    <3>1. [agent[t] EXCEPT !.pc = "move", !.kid = NoTask, !.deps = {}] \in Processes
      BY <1>0 DEF Processes
    <3>2. agent' = [agent EXCEPT ![t] =
                      [agent[t] EXCEPT !.pc = "move", !.kid = NoTask, !.deps = {}]]
      BY <2>5 DEF MoveLost
    <3> QED BY <3>1, <3>2, PutProcess
  <2> QED BY <2>1, <2>2, <2>3, <2>4, <2>5 DEF Faults
<1> QED BY <1>1, <1>2, <1>3, <1>4 DEF TypeOK, Asked

LEMMA ProcessType ==
  ASSUME TypeOK, Asked, Placed, Held, NEW t \in Tasks, Process(t)
  PROVE  TypeOK' /\ Asked'
<1>0. /\ agent[t] \in Processes /\ task[t] \in TaskRows /\ NoReq \in Requests
      /\ NoAgent \in Processes
  BY FieldsOf DEF NoAgent, NoReq, NoLocks, Processes, Requests, Columns
<1>1. CASE AskLock(t)
  <2> DEFINE n == Cardinality(agent[t].claimed) + 1   f == Work(t)[n]
  <2>1. f \in Files
    <3>1. task[t].root \in Given
      BY <1>1 DEF AskLock, Placed, Place, Active
    <3>2. Work(t) \in Seq(Files)
      BY <3>1, Names DEF Work
    <3>3. n \in DOMAIN Work(t)
      BY <1>1 DEF AskLock
    <3> HIDE DEF n
    <3> QED BY <3>2, <3>3
  <2>2. [agent[t] EXCEPT !.pc = "lock", !.file = f] \in Processes
    <3> HIDE DEF f
    <3> QED BY <1>0, <2>1 DEF Processes
  <2>3. /\ [NoReq EXCEPT !.pc = "read", !.file = f] \in Requests
        /\ [NoReq EXCEPT !.pc = "read", !.file = f].file \in Files
    <3> HIDE DEF f
    <3> QED BY <1>0, <2>1 DEF Requests
  <2>4. /\ agent' = [agent EXCEPT ![t] = [agent[t] EXCEPT !.pc = "lock", !.file = f]]
        /\ req' = [req EXCEPT ![t] = [NoReq EXCEPT !.pc = "read", !.file = f]]
        /\ UNCHANGED <<column, task, list, worked, left, back, bounds>>
    BY <1>1 DEF AskLock
  <2> HIDE DEF f
  <2> QED BY <2>1, <2>2, <2>3, <2>4, PutProcess, PutRequest DEF TypeOK, Asked, bounds
<1>2. ASSUME NEW f \in Files, Unlock(t, f) PROVE TypeOK' /\ Asked'
  <2>1. /\ [NoReq EXCEPT !.pc = "unlock", !.file = f] \in Requests
        /\ [NoReq EXCEPT !.pc = "unlock", !.file = f].file \in Files
    BY <1>0 DEF Requests
  <2>2. [agent[t] EXCEPT !.claimed = agent[t].claimed \ {f}] \in Processes
    BY <1>0 DEF Processes
  <2> QED BY <1>2, <2>1, <2>2, PutProcess, PutRequest DEF Unlock, TypeOK, Asked, bounds
<1>3. CASE HandoffReuse(t)
  <2>1. PICK c \in Tasks :
          agent' = [agent EXCEPT ![t] = [agent[t] EXCEPT !.pc = "dependents", !.follow = c]]
    BY <1>3 DEF HandoffReuse, Continuations
  <2>2. [agent[t] EXCEPT !.pc = "dependents", !.follow = c] \in Processes
    BY <1>0 DEF Processes
  <2>3. back' \subseteq Tasks
    BY <1>3 DEF HandoffReuse, TypeOK
  <2> QED BY <1>3, <2>1, <2>2, <2>3, PutProcess DEF HandoffReuse, TypeOK, Asked, bounds
<1>4. CASE HandoffCreate(t)
  <2> DEFINE c == CHOOSE c \in {d \in Tasks : task[d].status = "absent"} : TRUE
             r == [status |-> "pending", deps |-> task[t].deps \cup {agent[t].owner},
                   root |-> task[t].root, behind |-> agent[t].owner]
  <2>1. c \in Tasks
    BY <1>4 DEF HandoffCreate
  <2>2. [agent[t] EXCEPT !.pc = "dependents", !.follow = c] \in Processes
    <3> HIDE DEF c
    <3> QED BY <1>0, <2>1 DEF Processes
  <2>3. agent[t].owner \in Tasks
    BY <1>4 DEF HandoffCreate, Held, InHand
  <2>4. r \in TaskRows
    BY <2>3, FieldsOf DEF TaskRows
  <2>5. /\ task' = [task EXCEPT ![c] = r]
        /\ agent' = [agent EXCEPT ![t] = [agent[t] EXCEPT !.pc = "dependents", !.follow = c]]
        /\ UNCHANGED <<column, req, list, worked, left, back, bounds>>
    BY <1>4 DEF HandoffCreate
  <2> HIDE DEF c, r
  <2> QED BY <2>1, <2>2, <2>4, <2>5, PutProcess DEF TypeOK, Asked, bounds
<1>5. CASE Dependents(t)
  <2>1. [agent[t] EXCEPT !.pc = "move", !.kids = get_task_dependents(t)] \in Processes
    <3>1. get_task_dependents(t) \subseteq Tasks
      BY DEF get_task_dependents
    <3> QED BY <1>0, <3>1 DEF Processes
  <2> QED BY <1>5, <2>1, PutProcess DEF Dependents, TypeOK, Asked, bounds
<1>6. CASE MoveRead(t)
  <2>1. PICK d \in agent[t].kids :
          agent' = [agent EXCEPT ![t] = [agent[t] EXCEPT !.pc = "patch", !.kid = d,
                      !.kids = agent[t].kids \ {d}, !.deps = Moved(t, d)]]
    BY <1>6 DEF MoveRead
  <2>2. d \in Tasks
    BY FieldsOf
  <2>3. Moved(t, d) \subseteq Tasks
    <3>1. agent[t].follow \in Tasks
      BY <1>6 DEF MoveRead, Held, InHand
    <3> QED BY <2>2, <3>1, FieldsOf DEF Moved
  <2>4. [agent[t] EXCEPT !.pc = "patch", !.kid = d, !.kids = agent[t].kids \ {d},
                         !.deps = Moved(t, d)] \in Processes
    BY <1>0, <2>2, <2>3 DEF Processes
  <2> QED BY <1>6, <2>1, <2>4, PutProcess DEF MoveRead, TypeOK, Asked, bounds
<1>7. CASE MovePatch(t)
  <2>1. agent[t].kid \in Tasks /\ agent[t].deps \subseteq Tasks
    BY <1>7, FieldsOf DEF MovePatch, Held, InHand
  <2>2. [agent[t] EXCEPT !.pc = "move", !.kid = NoTask, !.deps = {}] \in Processes
    BY <1>0 DEF Processes
  <2>3. [task[agent[t].kid] EXCEPT !.deps = agent[t].deps] \in TaskRows
    BY <2>1, FieldsOf DEF TaskRows
  <2>4. task' \in [Tasks -> TaskRows] /\ left' \subseteq Tasks
    BY <1>7, <2>1, <2>3 DEF MovePatch, TypeOK
  <2> QED BY <1>7, <2>2, <2>4, PutProcess DEF MovePatch, TypeOK, Asked, bounds
<1>8. CASE Complete(t)
  <2>1. [agent[t] EXCEPT !.pc = "unlock"] \in Processes
    BY <1>0 DEF Processes
  <2>2. task[t].root \in Given
    BY <1>8 DEF Complete, Placed, Place, Active
  <2> QED BY <1>8, <2>1, <2>2, PutProcess DEF Complete, TypeOK, Asked, bounds
<1>9. CASE Exit(t)
  <2>1. [NoAgent EXCEPT !.pc = "ended"] \in Processes
    BY <1>0 DEF Processes
  <2> QED BY <1>9, <2>1, PutProcess DEF Exit, TypeOK, Asked, bounds
<1> QED BY <1>1, <1>2, <1>3, <1>4, <1>5, <1>6, <1>7, <1>8, <1>9 DEF Process

-------------------------------------------------------------------------------
(* The invariants the theorems follow from.                                *)

Sound == TypeOK /\ Asked /\ Wanted /\ Placed /\ Held

(* Some dependency of this work could not be moved in time.                *)
Excused(r) == \E u \in left : task[u].root = r

(* A task that has still to run carries the work w the task t waits for,   *)
(* and if its agent is about to end, it has t among those it will move.    *)
Leaving(d) == agent[d].pc \in {"move", "patch", "unlock", "ended"}
Awaited(t, w) ==
  \E d \in task[t].deps :
    /\ task[d].root = w /\ task[d].status \in Active
    /\ Leaving(d) => t \in agent[d].kids \cup {agent[d].kid}

Waiting ==
  \A t \in Tasks : task[t].status \in Active =>
    \A w \in Waits[task[t].root] :
      \/ w \in worked \/ Excused(task[t].root)
      \/ task[t].status = "pending" /\ Awaited(t, w)

(* Work that is not done has a task whose agent has not handed it on.      *)
Carrying(c) == task[c].status \in Active /\ ~HandedOn(c)
Carried ==
  \A r \in Given :
    \/ r \in worked
    \/ \E c \in Tasks : task[c].root = r /\ (Carrying(c) \/ c \in back)

(* What a step has to say for the invariants to be kept.                   *)
RootsStay ==
  /\ \A u \in Tasks : task[u].root # NoTask => task'[u].root = task[u].root
  /\ worked \subseteq worked' /\ left \subseteq left' /\ back \subseteq back'

LEMMA ExcusedStays ==
  ASSUME TypeOK, RootsStay, NEW r \in Given, Excused(r)
  PROVE  Excused(r)'
BY Names DEF RootsStay, Excused, TypeOK

LEMMA WaitingKept ==
  ASSUME Sound, Sound', Waiting, RootsStay,
         \A t \in Tasks : task'[t].status \in Active => task[t].status \in Active,
         \A t \in Tasks : \A w \in Given :
           task[t].status = "pending" /\ Awaited(t, w) =>
             \/ w \in worked' \/ Excused(task[t].root)'
             \/ task'[t].status = "pending" /\ Awaited(t, w)'
  PROVE  Waiting'
<1> SUFFICES ASSUME NEW t \in Tasks, task'[t].status \in Active,
                    NEW w \in Waits[task'[t].root]
             PROVE  \/ w \in worked' \/ Excused(task[t].root)'
                    \/ task'[t].status = "pending" /\ Awaited(t, w)'
  BY DEF Waiting
<1>1. task[t].status \in Active /\ task[t].root \in Given
  BY DEF Sound, Placed, Place
<1>2. task'[t].root = task[t].root
  BY <1>1, Names DEF RootsStay
<1>3. w \in Waits[task[t].root] /\ w \in Given
  BY <1>1, <1>2, Names
<1>4. CASE w \in worked
  BY <1>4 DEF RootsStay
<1>5. CASE Excused(task[t].root)
  <2>1. PICK r \in Given : task[t].root = r
    BY <1>1
  <2>2. Excused(r)'
    <3>1. Excused(r)
      BY <1>5, <2>1 DEF Excused
    <3> QED BY <3>1, ExcusedStays DEF Sound
  <2> QED BY <1>2, <2>1, <2>2 DEF Excused
<1>6. CASE task[t].status = "pending" /\ Awaited(t, w)
  BY <1>2, <1>3, <1>6
<1> QED BY <1>1, <1>3, <1>4, <1>5, <1>6 DEF Waiting

LEMMA CarriedKept ==
  ASSUME Sound, Carried, RootsStay,
         \A c \in Tasks : Carrying(c) /\ task[c].root \in Given =>
           \/ Carrying(c)' \/ task[c].root \in worked'
           \/ \E e \in Tasks :
                task'[e].root = task[c].root /\ (Carrying(e)' \/ e \in back')
  PROVE  Carried'
<1> SUFFICES ASSUME NEW r \in Given
             PROVE  \/ r \in worked'
                    \/ \E c \in Tasks : task'[c].root = r /\ (Carrying(c)' \/ c \in back')
  BY DEF Carried
<1>1. CASE r \in worked
  BY <1>1 DEF RootsStay
<1>2. CASE \E c \in Tasks : task[c].root = r /\ (Carrying(c) \/ c \in back)
  <2>1. PICK c \in Tasks : task[c].root = r /\ (Carrying(c) \/ c \in back)
    BY <1>2
  <2>2. task'[c].root = r
    BY <2>1, Names DEF RootsStay
  <2>3. CASE Carrying(c)
    <3>1. \/ Carrying(c)' \/ r \in worked'
          \/ \E e \in Tasks : task'[e].root = r /\ (Carrying(e)' \/ e \in back')
      BY <2>1, <2>3
    <3> QED BY <2>2, <3>1
  <2>4. CASE c \in back
    BY <2>2, <2>4 DEF RootsStay
  <2> QED BY <2>1, <2>3, <2>4
<1> QED BY <1>1, <1>2 DEF Carried

-------------------------------------------------------------------------------
(* Steps about locks: an agent stays at its work, or at releasing its      *)
(* files, and the tasks stay what they are.                                *)

Editing == {"work", "lock", "list", "listed", "handoff"}

MinorStep ==
  /\ task' = task /\ worked' = worked /\ left' = left /\ back' = back
  /\ \A u \in Tasks :
       \/ agent'[u] = agent[u]
       \/ /\ \/ agent[u].pc \in Editing /\ agent'[u].pc \in Editing
             \/ agent[u].pc = "unlock" /\ agent'[u].pc = "unlock"
          /\ agent'[u].kids = agent[u].kids /\ agent'[u].kid = agent[u].kid
          /\ agent'[u].pc \in {"lock", "list", "listed"} => agent'[u].file \in Files
          /\ agent'[u].pc = "handoff" => agent'[u].owner \in Tasks

LEMMA MinorKeeps ==
  ASSUME Sound, TypeOK', Asked', Waiting, Carried, MinorStep
  PROVE  Sound' /\ Waiting' /\ Carried'
<1>1. Wanted'
  BY DEF MinorStep, Sound, Wanted
<1>2. Placed'
  BY DEF MinorStep, Sound, Placed, Place, Editing
<1>3. Held'
  <2> SUFFICES ASSUME NEW t \in Tasks PROVE InHand(t)'
    BY DEF Held
  <2>1. InHand(t)
    BY DEF Sound, Held
  <2> QED BY <2>1 DEF MinorStep, InHand, Editing
<1>4. Sound'
  BY <1>1, <1>2, <1>3 DEF Sound
<1>5. RootsStay
  BY DEF MinorStep, RootsStay
<1>6. \A t \in Tasks : Leaving(t)' = Leaving(t) /\ HandedOn(t)' = HandedOn(t)
  BY DEF MinorStep, Leaving, HandedOn, Editing
<1>7. \A t \in Tasks : agent'[t].kids = agent[t].kids /\ agent'[t].kid = agent[t].kid
  BY DEF MinorStep
<1>8. Waiting'
  <2>1. \A t \in Tasks : \A w \in Given : Awaited(t, w) => Awaited(t, w)'
    <3> SUFFICES ASSUME NEW t \in Tasks, NEW w \in Given, Awaited(t, w)
                 PROVE  Awaited(t, w)'
      OBVIOUS
    <3>1. task[t].deps \subseteq Tasks
      BY FieldsOf DEF Sound
    <3> QED BY <1>6, <1>7, <3>1 DEF Awaited, MinorStep
  <2>2. \A t \in Tasks : task'[t].status = task[t].status
    BY DEF MinorStep
  <2> QED BY <1>4, <1>5, <2>1, <2>2, WaitingKept
<1>9. Carried'
  <2>1. \A c \in Tasks : Carrying(c) => Carrying(c)'
    BY <1>6 DEF Carrying, MinorStep
  <2> QED BY <1>5, <2>1, CarriedKept
<1> QED BY <1>4, <1>8, <1>9

LEMMA MinorSteps ==
  ASSUME Sound, NEW t \in Tasks,
         Locks(t) \/ AskLock(t) \/ (\E f \in Files : Unlock(t, f)) \/ LoseAnswer(t)
  PROVE  MinorStep
<1>0. agent \in [Tasks -> Processes] /\ column \in Columns /\ agent[t] \in Processes
  BY FieldsOf DEF Sound, TypeOK
<1> DEFINE Minor(g) ==
      \/ g = agent[t]
      \/ /\ \/ agent[t].pc \in Editing /\ g.pc \in Editing
            \/ agent[t].pc = "unlock" /\ g.pc = "unlock"
         /\ g.kids = agent[t].kids /\ g.kid = agent[t].kid
         /\ g.pc \in {"lock", "list", "listed"} => g.file \in Files
         /\ g.pc = "handoff" => g.owner \in Tasks
<1>1. /\ task' = task /\ worked' = worked /\ left' = left /\ back' = back
      /\ req[t].pc # "idle" => req[t].file \in Files
      /\ agent[t].pc = "lock" => agent[t].file \in Files
  BY DEF Locks, LockRead, lock_file, LockCheck, ReplaceRead, replace_file_lock, ReplaceAgain,
         unlock_file, AskLock, Unlock, LoseAnswer, Sound, Asked, Wanted
<1>2. ASSUME NEW o \in Tasks \cup {NoTask}, Answered(t, o)
      PROVE  \E g : agent' = [agent EXCEPT ![t] = g] /\ Minor(g)
  <2>1. CASE agent[t].pc # "lock"
    BY <1>2, <2>1 DEF Answered
  <2>2. CASE agent[t].pc = "lock" /\ o = t
    <3> DEFINE g == [agent[t] EXCEPT !.pc = "work",
                                     !.claimed = agent[t].claimed \cup {req[t].file}]
    <3>1. agent' = [agent EXCEPT ![t] = g]
      BY <1>2, <2>2 DEF Answered
    <3>2. g.pc = "work" /\ g.kids = agent[t].kids /\ g.kid = agent[t].kid
      BY <1>0 DEF Processes
    <3> QED BY <2>2, <3>1, <3>2 DEF Editing
  <2>3. CASE agent[t].pc = "lock" /\ o # t /\ o = NoTask
    <3> DEFINE g == [agent[t] EXCEPT !.pc = "list"]
    <3>1. agent' = [agent EXCEPT ![t] = g]
      BY <1>2, <2>3 DEF Answered
    <3>2. /\ g.pc = "list" /\ g.kids = agent[t].kids /\ g.kid = agent[t].kid
          /\ g.file = agent[t].file
      BY <1>0 DEF Processes
    <3> QED BY <1>1, <2>3, <3>1, <3>2 DEF Editing
  <2>4. CASE agent[t].pc = "lock" /\ o # t /\ o # NoTask
    <3> DEFINE g == [agent[t] EXCEPT !.pc = "handoff", !.owner = o]
    <3>1. agent' = [agent EXCEPT ![t] = g]
      BY <1>2, <2>4 DEF Answered
    <3>2. /\ g.pc = "handoff" /\ g.kids = agent[t].kids /\ g.kid = agent[t].kid
          /\ g.owner = o
      BY <1>0 DEF Processes
    <3> QED BY <2>4, <3>1, <3>2 DEF Editing
  <2> QED BY <2>1, <2>2, <2>3, <2>4
<1>3. \E g : agent' = [agent EXCEPT ![t] = g] /\ Minor(g)
  <2>0. agent = [agent EXCEPT ![t] = agent[t]]
    BY <1>0
  <2>1. [agent[t] EXCEPT !.pc = IF @ = "lock" THEN "list" ELSE @].pc
           = IF agent[t].pc = "lock" THEN "list" ELSE agent[t].pc
    BY <1>0 DEF Processes
  <2>2. Minor([agent[t] EXCEPT !.pc = IF @ = "lock" THEN "list" ELSE @])
    <3>1. CASE agent[t].pc = "lock"
      BY <1>0, <1>1, <3>1 DEF Processes, Editing
    <3>2. CASE agent[t].pc # "lock"
      BY <1>0, <3>2 DEF Processes
    <3> QED BY <3>1, <3>2
  <2> HIDE DEF Minor
  <2>3. CASE LockRead(t) \/ ReplaceRead(t) \/ unlock_file(t)
    <3>1. Minor(agent[t])
      BY DEF Minor
    <3> QED BY <2>0, <2>3, <3>1 DEF LockRead, ReplaceRead, unlock_file
  <2>4. CASE lock_file(t) \/ replace_file_lock(t)
    <3>1. Minor(agent[t])
      BY DEF Minor
    <3>2. UNCHANGED agent \/ Answered(t, t)
      BY <2>4 DEF lock_file, replace_file_lock
    <3> QED BY <1>2, <2>0, <3>1, <3>2
  <2>5. CASE LockCheck(t) \/ ReplaceAgain(t)
    <3> DEFINE o == column[req[t].file]
    <3>1. Minor(agent[t])
      BY DEF Minor
    <3>2. o \in Tasks \cup {NoTask}
      BY <1>0, <1>1, <2>5 DEF LockCheck, ReplaceAgain, Columns
    <3>3. \/ UNCHANGED agent \/ Answered(t, o)
          \/ agent' = [agent EXCEPT ![t].pc = IF @ = "lock" THEN "list" ELSE @]
      BY <2>5 DEF LockCheck, ReplaceAgain
    <3> QED BY <1>2, <2>0, <2>2, <3>1, <3>2, <3>3
  <2>6. CASE AskLock(t)
    <3> DEFINE f == Work(t)[Cardinality(agent[t].claimed) + 1]
               g == [agent[t] EXCEPT !.pc = "lock", !.file = f]
    <3>1. agent' = [agent EXCEPT ![t] = g] /\ agent[t].pc = "work"
      BY <2>6 DEF AskLock
    <3>2. f \in Files
      <4>1. task[t].root \in Given
        BY <3>1 DEF Sound, Placed, Place, Active
      <4>2. Work(t) \in Seq(Files)
        BY <4>1, Names DEF Work
      <4>3. Cardinality(agent[t].claimed) + 1 \in DOMAIN Work(t)
        BY <2>6 DEF AskLock
      <4> QED BY <4>2, <4>3
    <3>3. /\ g.pc = "lock" /\ g.file = f /\ g.kids = agent[t].kids
          /\ g.kid = agent[t].kid
      <4> HIDE DEF f
      <4> QED BY <1>0 DEF Processes
    <3> HIDE DEF f, g
    <3> QED BY <3>1, <3>2, <3>3 DEF Minor, Editing
  <2>7. CASE \E f \in Files : Unlock(t, f)
    <3> PICK f \in Files : Unlock(t, f)
      BY <2>7
    <3> DEFINE g == [agent[t] EXCEPT !.claimed = agent[t].claimed \ {f}]
    <3>1. agent' = [agent EXCEPT ![t] = g] /\ agent[t].pc = "unlock"
      BY DEF Unlock
    <3>2. g.pc = agent[t].pc /\ g.kids = agent[t].kids /\ g.kid = agent[t].kid
      BY <1>0 DEF Processes
    <3> QED BY <3>1, <3>2 DEF Minor
  <2>8. CASE LoseAnswer(t)
    <3> DEFINE g == [agent[t] EXCEPT !.pc = "list"]
    <3>1. agent' = [agent EXCEPT ![t] = g] /\ agent[t].pc = "lock"
      BY <2>8 DEF LoseAnswer
    <3>2. /\ g.pc = "list" /\ g.file = agent[t].file /\ g.kids = agent[t].kids
          /\ g.kid = agent[t].kid
      BY <1>0 DEF Processes
    <3> QED BY <1>1, <3>1, <3>2 DEF Minor, Editing
  <2> QED BY <2>3, <2>4, <2>5, <2>6, <2>7, <2>8 DEF Locks
<1> QED BY <1>0, <1>1, <1>3 DEF MinorStep
LEMMA ListsMinor ==
  ASSUME Sound, NEW x \in Tasks \cup Readers, Lists(x)
  PROVE  MinorStep /\ Asked'
<1>0. /\ task' = task /\ worked' = worked /\ left' = left /\ back' = back /\ req' = req
  BY DEF Lists, AskList, ListRead, find_stale_file_locks, Reconciled, get_locked_files,
         remove_file_lock, bounds
<1>1. Asked'
  BY <1>0 DEF Sound, Asked
<1>2. agent \in [Tasks -> Processes] /\ list[x].view \in Columns
  BY DEF Sound, TypeOK, Listings
<1>3. CASE agent' = agent
  BY <1>0, <1>1, <1>3 DEF MinorStep
<1>4. CASE AskList(x) /\ x \notin Readers
  <2> DEFINE g == [agent[x] EXCEPT !.pc = "listed"]
  <2>1. x \in Tasks /\ agent[x].pc = "list" /\ agent' = [agent EXCEPT ![x] = g]
    BY <1>4 DEF AskList
  <2>2. agent[x] \in Processes
    BY <1>2, <2>1
  <2>3. g.pc = "listed" /\ g.kids = agent[x].kids /\ g.kid = agent[x].kid
        /\ g.file = agent[x].file
    BY <2>2 DEF Processes
  <2>4. g.file \in Files
    BY <2>1, <2>3 DEF Sound, Wanted
  <2> HIDE DEF g
  <2> QED BY <1>0, <1>1, <1>2, <2>1, <2>3, <2>4 DEF MinorStep, Editing
<1>5. CASE get_locked_files(x) /\ x \in Tasks /\ agent[x].pc = "listed"
  <2> DEFINE o == list[x].view[agent[x].file]
             g == IF o \in {NoTask, x} THEN [agent[x] EXCEPT !.pc = "work"]
                  ELSE [agent[x] EXCEPT !.pc = "handoff", !.owner = o]
  <2>1. agent' = [agent EXCEPT ![x] = g]
    BY <1>5 DEF get_locked_files
  <2>2. agent[x] \in Processes
    BY <1>2, <1>5
  <2>3. o \in Tasks \cup {NoTask}
    BY <1>2, <1>5 DEF Sound, Wanted, Columns
  <2>4. /\ g.pc \in {"work", "handoff"} /\ g.kids = agent[x].kids /\ g.kid = agent[x].kid
        /\ g.pc = "handoff" => g.owner \in Tasks
    <3>1. CASE o \in {NoTask, x}
      BY <2>2, <3>1 DEF Processes
    <3>2. CASE o \notin {NoTask, x}
      BY <2>2, <2>3, <3>2 DEF Processes
    <3> QED BY <3>1, <3>2
  <2> HIDE DEF g
  <2> QED BY <1>0, <1>1, <1>2, <1>5, <2>1, <2>4 DEF MinorStep, Editing
<1> QED BY <1>3, <1>4, <1>5 DEF Lists, AskList, ListRead, find_stale_file_locks, Reconciled,
           get_locked_files, remove_file_lock

-------------------------------------------------------------------------------
(* Steps of one agent on the way to a hand-off and to its end.             *)

LEMMA OwnStep ==
  ASSUME Sound, TypeOK', Asked', Waiting, Carried, NEW t \in Tasks, NEW g,
         task' = task, agent' = [agent EXCEPT ![t] = g],
         worked \subseteq worked', left \subseteq left', back \subseteq back',
         agent[t].pc # "none", g.pc # "none",
         g.pc \notin {"lock", "list", "listed"}, InHand(t)',
         \A k \in Tasks :
           /\ task[k].status = "pending" /\ t \in task[k].deps /\ Leaving(t)'
           /\ Leaving(t) => k \in agent[t].kids \cup {agent[t].kid}
           => \/ k \in g.kids \cup {g.kid} \/ task[t].root \in worked' \/ k \in left',
         ~HandedOn(t) /\ HandedOn(t)' =>
           \/ task[t].root \in worked'
           \/ \E e \in Tasks : task[e].root = task[t].root /\ (Carrying(e)' \/ e \in back')
  PROVE  Sound' /\ Waiting' /\ Carried'
<1>0. agent \in [Tasks -> Processes]
  BY DEF Sound, TypeOK
<1>1. agent'[t] = g /\ \A u \in Tasks \ {t} : agent'[u] = agent[u]
  BY <1>0
<1>2. Wanted'
  BY <1>1 DEF Sound, Wanted
<1>3. Placed'
  BY <1>1 DEF Sound, Placed, Place
<1>4. Held'
  <2>1. \A u \in Tasks \ {t} : InHand(u)'
    BY <1>1 DEF Sound, Held, InHand
  <2> QED BY <2>1 DEF Held
<1>5. Sound' /\ RootsStay
  BY <1>2, <1>3, <1>4 DEF Sound, RootsStay
<1>6. Waiting'
  <2>1. ASSUME NEW k \in Tasks, NEW w \in Given, task[k].status = "pending", Awaited(k, w)
        PROVE  w \in worked' \/ Excused(task[k].root)' \/ Awaited(k, w)'
    <3>1. PICK d \in task[k].deps :
            /\ task[d].root = w /\ task[d].status \in Active
            /\ Leaving(d) => k \in agent[d].kids \cup {agent[d].kid}
      BY <2>1 DEF Awaited
    <3>2. d \in Tasks
      BY FieldsOf DEF Sound
    <3>3. CASE d # t
      <4>1. Leaving(d)' = Leaving(d) /\ agent'[d] = agent[d]
        BY <1>1, <3>2, <3>3 DEF Leaving
      <4> QED BY <3>1, <4>1 DEF Awaited
    <3>4. CASE d = t /\ ~Leaving(t)'
      BY <3>1, <3>4 DEF Awaited
    <3>5. CASE d = t /\ Leaving(t)'
      <4>1. k \in g.kids \cup {g.kid} \/ task[t].root \in worked' \/ k \in left'
        BY <2>1, <3>1, <3>5
      <4>2. CASE k \in g.kids \cup {g.kid}
        BY <1>1, <3>1, <3>5, <4>2 DEF Awaited
      <4>3. CASE task[t].root \in worked'
        BY <3>1, <3>5, <4>3
      <4>4. CASE k \in left'
        BY <4>4 DEF Excused
      <4> QED BY <4>1, <4>2, <4>3, <4>4
    <3> QED BY <3>3, <3>4, <3>5
  <2>2. \A k \in Tasks : task'[k].status = task[k].status
    OBVIOUS
  <2> QED BY <1>5, <2>1, <2>2, WaitingKept
<1>7. Carried'
  <2>1. ASSUME NEW c \in Tasks, Carrying(c), task[c].root \in Given
        PROVE  \/ Carrying(c)' \/ task[c].root \in worked'
               \/ \E e \in Tasks :
                    task'[e].root = task[c].root /\ (Carrying(e)' \/ e \in back')
    <3>1. CASE c # t
      BY <1>1, <2>1, <3>1 DEF Carrying, HandedOn
    <3>2. CASE c = t /\ ~HandedOn(t)'
      BY <2>1, <3>2 DEF Carrying
    <3>3. CASE c = t /\ HandedOn(t)'
      <4>1. \/ task[t].root \in worked'
            \/ \E e \in Tasks : task[e].root = task[t].root /\ (Carrying(e)' \/ e \in back')
        BY <2>1, <3>3 DEF Carrying
      <4> QED BY <3>3, <4>1
    <3> QED BY <3>1, <3>2, <3>3
  <2> QED BY <1>5, <2>1, CarriedKept
<1> QED BY <1>5, <1>6, <1>7

LEMMA OwnSteps ==
  ASSUME Sound, TypeOK', Asked', Waiting, Carried, NEW t \in Tasks,
         \/ Kill(t) \/ HandoffReuse(t) \/ HandoffLost(t) \/ Dependents(t)
         \/ DependentsLost(t) \/ MoveRead(t) \/ MoveLost(t) \/ Complete(t) \/ Exit(t)
  PROVE  Sound' /\ Waiting' /\ Carried'
<1>0. /\ agent \in [Tasks -> Processes] /\ agent[t] \in Processes /\ NoAgent \in Processes
      /\ task[t].root \in Given \cup {NoTask} /\ NoTask \notin Tasks
      /\ agent[t].kids \subseteq Tasks
  BY FieldsOf, Names DEF Sound, TypeOK, NoAgent, Processes
<1>1. InHand(t) /\ Place(t)
  BY DEF Sound, Held, Placed
<1>2. worked \subseteq worked' /\ left \subseteq left' /\ back \subseteq back'
  BY DEF Kill, HandoffReuse, HandoffLost, Dependents, DependentsLost, MoveRead, MoveLost,
         Complete, Exit
<1>3. task' = task /\ agent[t].pc # "none"
  BY DEF Kill, HandoffReuse, HandoffLost, Dependents, DependentsLost, MoveRead, MoveLost,
         Complete, Exit, Alive
<1>4. \A k \in Tasks : task[k].status = "pending" => k # t
  BY <1>1, <1>3 DEF Place
<1>5. CASE Kill(t)
  <2> DEFINE g == [NoAgent EXCEPT !.pc = "dead"]
  <2>1. agent' = [agent EXCEPT ![t] = g]
    BY <1>5 DEF Kill
  <2>2. g.pc = "dead" /\ g.kids = {} /\ g.kid = NoTask
    BY DEF NoAgent
  <2> HIDE DEF g
  <2>3. InHand(t)'
    BY <1>0, <2>1, <2>2 DEF InHand
  <2>4. ~Leaving(t)' /\ ~HandedOn(t)'
    BY <1>0, <2>1, <2>2 DEF Leaving, HandedOn
  <2> QED BY <1>2, <1>3, <2>1, <2>2, <2>3, <2>4, OwnStep
<1>6. CASE HandoffReuse(t)
  <2>1. PICK c \in Continuations(t) :
          /\ agent' = [agent EXCEPT ![t] = [agent[t] EXCEPT !.pc = "dependents", !.follow = c]]
          /\ back' = IF HandedOn(c) THEN back \cup {t} ELSE back
    BY <1>6 DEF HandoffReuse
  <2> DEFINE g == [agent[t] EXCEPT !.pc = "dependents", !.follow = c]
  <2>2. agent' = [agent EXCEPT ![t] = g] /\ agent[t].pc = "handoff"
    BY <1>6, <2>1 DEF HandoffReuse
  <2>3. g.pc = "dependents" /\ g.kids = {} /\ g.kid = NoTask /\ g.follow = c
    BY <1>0, <1>1, <2>2 DEF Processes, InHand
  <2>4. c \in Tasks /\ c # t /\ task[c].root = task[t].root /\ task[c].status \in Active
    BY DEF Continuations, Active
  <2> HIDE DEF g
  <2>5. InHand(t)'
    BY <1>0, <1>3, <2>2, <2>3, <2>4 DEF InHand, Active
  <2>6. ~Leaving(t)'
    BY <1>0, <2>2, <2>3 DEF Leaving
  <2>7. Carrying(c)' \/ t \in back'
    <3>1. CASE HandedOn(c)
      BY <2>1, <3>1
    <3>2. CASE ~HandedOn(c)
      BY <1>0, <1>3, <2>2, <2>4, <3>2 DEF HandedOn, Carrying
    <3> QED BY <3>1, <3>2
  <2> QED BY <1>2, <1>3, <2>2, <2>3, <2>4, <2>5, <2>6, <2>7, OwnStep
<1>7. CASE HandoffLost(t)
  <2> DEFINE g == [agent[t] EXCEPT !.pc = "work", !.follow = NoTask]
  <2>1. agent' = [agent EXCEPT ![t] = g] /\ agent[t].pc = "dependents"
    BY <1>7 DEF HandoffLost
  <2>2. g.pc = "work" /\ g.kids = {} /\ g.kid = NoTask
    BY <1>0, <1>1, <2>1 DEF Processes, InHand
  <2> HIDE DEF g
  <2>3. InHand(t)'
    BY <1>0, <2>1, <2>2 DEF InHand
  <2>4. ~Leaving(t)' /\ ~HandedOn(t)'
    BY <1>0, <2>1, <2>2 DEF Leaving, HandedOn
  <2> QED BY <1>2, <1>3, <2>1, <2>2, <2>3, <2>4, OwnStep
<1>8. CASE Dependents(t)
  <2> DEFINE g == [agent[t] EXCEPT !.pc = "move", !.kids = get_task_dependents(t)]
  <2>1. agent' = [agent EXCEPT ![t] = g] /\ agent[t].pc = "dependents"
    BY <1>8 DEF Dependents
  <2>2. /\ g.pc = "move" /\ g.kids = get_task_dependents(t) /\ g.kid = NoTask
        /\ g.follow = agent[t].follow
    BY <1>0, <1>1, <2>1 DEF Processes, InHand
  <2> HIDE DEF g
  <2>3. InHand(t)'
    BY <1>0, <1>1, <1>3, <2>1, <2>2 DEF InHand
  <2>4. HandedOn(t)
    BY <2>1 DEF HandedOn
  <2>5. \A k \in Tasks : task[k].status = "pending" /\ t \in task[k].deps => k \in g.kids
    BY <1>4, <2>2 DEF get_task_dependents
  <2> QED BY <1>2, <1>3, <2>1, <2>2, <2>3, <2>4, <2>5, OwnStep
<1>9. CASE DependentsLost(t)
  <2> DEFINE g == [agent[t] EXCEPT !.pc = "move"]
  <2>1. agent' = [agent EXCEPT ![t] = g] /\ agent[t].pc = "dependents"
    BY <1>9 DEF DependentsLost
  <2>2. g.pc = "move" /\ g.kids = {} /\ g.kid = NoTask /\ g.follow = agent[t].follow
    BY <1>0, <1>1, <2>1 DEF Processes, InHand
  <2> HIDE DEF g
  <2>3. InHand(t)'
    BY <1>0, <1>1, <1>3, <2>1, <2>2 DEF InHand
  <2>4. HandedOn(t)
    BY <2>1 DEF HandedOn
  <2>5. \A k \in Tasks : task[k].status = "pending" /\ t \in task[k].deps => k \in left'
    BY <1>4, <1>9 DEF DependentsLost, get_task_dependents
  <2> QED BY <1>2, <1>3, <2>1, <2>2, <2>3, <2>4, <2>5, OwnStep
<1>10. CASE MoveRead(t)
  <2>1. PICK d \in agent[t].kids :
          agent' = [agent EXCEPT ![t] = [agent[t] EXCEPT !.pc = "patch", !.kid = d,
                      !.kids = agent[t].kids \ {d}, !.deps = Moved(t, d)]]
    BY <1>10 DEF MoveRead
  <2> DEFINE g == [agent[t] EXCEPT !.pc = "patch", !.kid = d,
                      !.kids = agent[t].kids \ {d}, !.deps = Moved(t, d)]
  <2>2. agent' = [agent EXCEPT ![t] = g] /\ agent[t].pc = "move" /\ d \in Tasks
    BY <1>0, <1>10, <2>1 DEF MoveRead
  <2>3. /\ g.pc = "patch" /\ g.kids = agent[t].kids \ {d} /\ g.kid = d
        /\ g.follow = agent[t].follow
    BY <1>0 DEF Processes
  <2> HIDE DEF g
  <2>4. InHand(t)'
    BY <1>0, <1>1, <1>3, <2>2, <2>3 DEF InHand
  <2>5. HandedOn(t) /\ Leaving(t)
    BY <2>2 DEF HandedOn, Leaving
  <2>6. agent[t].kid = NoTask
    BY <1>1, <2>2 DEF InHand
  <2>7. \A k \in Tasks : k \in agent[t].kids \cup {agent[t].kid} => k \in g.kids \cup {g.kid}
    BY <1>0, <2>3, <2>6
  <2> QED BY <1>2, <1>3, <2>2, <2>3, <2>4, <2>5, <2>7, OwnStep
<1>11. CASE MoveLost(t)
  <2> DEFINE g == [agent[t] EXCEPT !.pc = "move", !.kid = NoTask, !.deps = {}]
  <2>1. /\ agent' = [agent EXCEPT ![t] = g] /\ agent[t].pc = "patch"
        /\ left' = left \cup {agent[t].kid}
    BY <1>11 DEF MoveLost
  <2>2. /\ g.pc = "move" /\ g.kids = agent[t].kids /\ g.kid = NoTask
        /\ g.follow = agent[t].follow
    BY <1>0 DEF Processes
  <2> HIDE DEF g
  <2>3. InHand(t)'
    BY <1>0, <1>1, <1>3, <2>1, <2>2 DEF InHand
  <2>4. HandedOn(t) /\ Leaving(t)
    BY <2>1 DEF HandedOn, Leaving
  <2>5. \A k \in Tasks :
          k \in agent[t].kids \cup {agent[t].kid} => k \in g.kids \/ k \in left'
    BY <2>1, <2>2
  <2> QED BY <1>2, <1>3, <2>1, <2>2, <2>3, <2>4, <2>5, OwnStep
<1>12. CASE Complete(t)
  <2> DEFINE g == [agent[t] EXCEPT !.pc = "unlock"]
  <2>1. agent' = [agent EXCEPT ![t] = g]
    BY <1>12 DEF Complete
  <2>2. g.pc = "unlock" /\ g.kids = agent[t].kids /\ g.kid = agent[t].kid
    BY <1>0 DEF Processes
  <2> HIDE DEF g
  <2>3. \/ agent[t].pc = "work" /\ task[t].root \in worked'
        \/ agent[t].pc = "move" /\ agent[t].kids = {}
    BY <1>12 DEF Complete
  <2>4. g.kids = {} /\ g.kid = NoTask
    BY <1>1, <2>2, <2>3 DEF InHand
  <2>5. InHand(t)'
    BY <1>0, <2>1, <2>2, <2>4 DEF InHand
  <2>6. CASE agent[t].pc = "work" /\ task[t].root \in worked'
    BY <1>2, <1>3, <2>1, <2>2, <2>5, <2>6, OwnStep
  <2>7. CASE agent[t].pc = "move"
    <3>1. HandedOn(t) /\ Leaving(t)
      BY <2>7 DEF HandedOn, Leaving
    <3> QED BY <1>2, <1>3, <2>1, <2>2, <2>5, <3>1, OwnStep
  <2> QED BY <2>3, <2>6, <2>7
<1>13. CASE Exit(t)
  <2> DEFINE g == [NoAgent EXCEPT !.pc = "ended"]
  <2>1. agent' = [agent EXCEPT ![t] = g] /\ agent[t].pc = "unlock"
    BY <1>13 DEF Exit
  <2>2. g.pc = "ended" /\ g.kids = {} /\ g.kid = NoTask
    BY DEF NoAgent
  <2> HIDE DEF g
  <2>3. InHand(t)'
    BY <1>0, <2>1, <2>2 DEF InHand
  <2>4. HandedOn(t) /\ Leaving(t) /\ agent[t].kids = {} /\ agent[t].kid = NoTask
    BY <1>1, <2>1 DEF HandedOn, Leaving, InHand
  <2> QED BY <1>2, <1>3, <2>1, <2>2, <2>3, <2>4, OwnStep
<1> QED BY <1>5, <1>6, <1>7, <1>8, <1>9, <1>10, <1>11, <1>12, <1>13

-------------------------------------------------------------------------------
(* Steps that write a task.                                                *)

LEMMA SpawnType ==
  ASSUME TypeOK, Asked, NEW t \in Tasks, Spawn(t) \/ Finish(t)
  PROVE  TypeOK' /\ Asked'
<1>0. agent[t] \in Processes /\ NoAgent \in Processes /\ task[t] \in TaskRows
  BY FieldsOf DEF NoAgent, Processes
<1>1. /\ [NoAgent EXCEPT !.pc = "work"] \in Processes
      /\ [task[t] EXCEPT !.status = "in_progress"] \in TaskRows
      /\ [task[t] EXCEPT !.status = "pending"] \in TaskRows
      /\ [task[t] EXCEPT !.status = "completed"] \in TaskRows
  BY <1>0 DEF Processes, TaskRows
<1>2. \E g \in Processes : agent' = [agent EXCEPT ![t] = g]
  BY <1>0, <1>1 DEF Spawn, Finish
<1>3. \E r \in TaskRows : task' = [task EXCEPT ![t] = r]
  BY <1>1 DEF Spawn, Finish
<1>4. UNCHANGED <<column, req, list, worked, left, back, bounds>>
  BY DEF Spawn, Finish
<1> QED BY <1>2, <1>3, <1>4 DEF TypeOK, Asked, bounds

LEMMA SpawnKeeps ==
  ASSUME Sound, TypeOK', Asked', Waiting, Carried, NEW t \in Tasks, Spawn(t)
  PROVE  Sound' /\ Waiting' /\ Carried'
<1>0. /\ task \in [Tasks -> TaskRows] /\ agent \in [Tasks -> Processes] /\ NoTask \notin Tasks
      /\ task[t] \in TaskRows
  BY Names DEF Sound, TypeOK
<1>1. /\ task[t].status = "pending" /\ agent[t].pc = "none"
      /\ \A d \in task[t].deps : task[d].status = "completed"
      /\ worked' = worked /\ left' = left /\ back' = back
  BY DEF Spawn
<1>2. /\ task'[t].status = "in_progress" /\ task'[t].root = task[t].root
      /\ task'[t].deps = task[t].deps
      /\ \A u \in Tasks \ {t} : task'[u] = task[u] /\ agent'[u] = agent[u]
      /\ \A u \in Tasks : task'[u].root = task[u].root /\ task'[u].deps = task[u].deps
  BY <1>0 DEF Spawn, TaskRows
<1>3. agent'[t].pc = "work" /\ agent'[t].kids = {} /\ agent'[t].kid = NoTask
  BY <1>0 DEF Spawn, NoAgent
<1>4. Sound'
  <2>1. Wanted'
    BY <1>2, <1>3 DEF Sound, Wanted
  <2>2. Placed'
    BY <1>1, <1>2, <1>3 DEF Sound, Placed, Place, Active
  <2>3. InHand(t)'
    BY <1>3 DEF InHand
  <2>4. \A u \in Tasks \ {t} : InHand(u)'
    BY <1>1, <1>2 DEF Sound, Held, InHand
  <2> QED BY <2>1, <2>2, <2>3, <2>4 DEF Sound, Held
<1>5. RootsStay
  BY <1>1, <1>2 DEF RootsStay
<1>6. Waiting'
  <2>1. ASSUME NEW k \in Tasks, NEW w \in Given, task[k].status = "pending", Awaited(k, w)
        PROVE  task'[k].status = "pending" /\ Awaited(k, w)'
    <3>1. PICK d \in task[k].deps :
            /\ task[d].root = w /\ task[d].status \in Active
            /\ Leaving(d) => k \in agent[d].kids \cup {agent[d].kid}
      BY <2>1 DEF Awaited
    <3>2. d \in Tasks
      BY FieldsOf DEF Sound
    <3>3. k # t
      BY <1>1, <3>1 DEF Active
    <3>4. CASE d # t
      BY <1>2, <2>1, <3>1, <3>2, <3>3, <3>4 DEF Awaited, Leaving
    <3>5. CASE d = t
      BY <1>2, <1>3, <2>1, <3>1, <3>3, <3>5 DEF Awaited, Leaving, Active
    <3> QED BY <3>4, <3>5
  <2>2. \A k \in Tasks : task'[k].status \in Active => task[k].status \in Active
    BY <1>1, <1>2 DEF Active
  <2> QED BY <1>4, <1>5, <2>1, <2>2, WaitingKept
<1>7. Carried'
  <2>1. \A c \in Tasks : Carrying(c) => Carrying(c)'
    BY <1>2, <1>3 DEF Carrying, HandedOn, Active
  <2> QED BY <1>5, <2>1, CarriedKept
<1> QED BY <1>4, <1>6, <1>7

LEMMA FinishKeeps ==
  ASSUME Sound, TypeOK', Asked', Waiting, Carried, NEW t \in Tasks, Finish(t)
  PROVE  Sound' /\ Waiting' /\ Carried'
<1>0. /\ task \in [Tasks -> TaskRows] /\ agent \in [Tasks -> Processes] /\ NoTask \notin Tasks
      /\ task[t] \in TaskRows
  BY Names DEF Sound, TypeOK
<1>1. /\ agent[t].pc \in {"ended", "dead"}
      /\ worked' = worked /\ left' = left /\ back' = back
  BY DEF Finish
<1>2. task[t].status = "in_progress" /\ agent[t].kids = {} /\ agent[t].kid = NoTask
  BY <1>1 DEF Sound, Placed, Place, Held, InHand
<1>3. /\ task'[t].status = IF agent[t].pc = "ended" THEN "completed" ELSE "pending"
      /\ \A u \in Tasks \ {t} : task'[u] = task[u] /\ agent'[u] = agent[u]
      /\ \A u \in Tasks : task'[u].root = task[u].root /\ task'[u].deps = task[u].deps
  BY <1>0 DEF Finish, TaskRows
<1>4. agent'[t].pc = "none" /\ agent'[t].kids = {} /\ agent'[t].kid = NoTask
  BY <1>0 DEF Finish, NoAgent
<1>5. Sound'
  <2>1. Wanted'
    BY <1>3, <1>4 DEF Sound, Wanted
  <2>2. Placed'
    BY <1>2, <1>3, <1>4 DEF Sound, Placed, Place, Active
  <2>3. InHand(t)'
    BY <1>4 DEF InHand
  <2>4. \A u \in Tasks \ {t} : InHand(u)'
    BY <1>3 DEF Sound, Held, InHand
  <2> QED BY <2>1, <2>2, <2>3, <2>4 DEF Sound, Held
<1>6. RootsStay
  BY <1>1, <1>3 DEF RootsStay
<1>7. Waiting'
  <2>1. ASSUME NEW k \in Tasks, NEW w \in Given, task[k].status = "pending", Awaited(k, w)
        PROVE  task'[k].status = "pending" /\ Awaited(k, w)'
    <3>1. PICK d \in task[k].deps :
            /\ task[d].root = w /\ task[d].status \in Active
            /\ Leaving(d) => k \in agent[d].kids \cup {agent[d].kid}
      BY <2>1 DEF Awaited
    <3>2. d \in Tasks
      BY FieldsOf DEF Sound
    <3>3. k # t
      BY <1>2, <2>1
    <3>4. CASE d # t
      BY <1>3, <2>1, <3>1, <3>2, <3>3, <3>4 DEF Awaited, Leaving
    <3>5. CASE d = t
      <4>1. agent[t].pc = "dead"
        BY <1>0, <1>1, <1>2, <3>1, <3>5 DEF Leaving
      <4> QED BY <1>3, <1>4, <2>1, <3>1, <3>3, <3>5, <4>1 DEF Awaited, Leaving, Active
    <3> QED BY <3>4, <3>5
  <2>2. \A k \in Tasks : task'[k].status \in Active => task[k].status \in Active
    BY <1>2, <1>3 DEF Active
  <2> QED BY <1>5, <1>6, <2>1, <2>2, WaitingKept
<1>8. Carried'
  <2>1. \A c \in Tasks : Carrying(c) => Carrying(c)'
    BY <1>1, <1>3, <1>4 DEF Carrying, HandedOn, Active
  <2> QED BY <1>6, <2>1, CarriedKept
<1> QED BY <1>5, <1>7, <1>8

(* A continuation waits for everything its work waits for, since the agent *)
(* that makes it has not been started before that was done.                *)
LEMMA HandoffCreateKeeps ==
  ASSUME Sound, TypeOK', Asked', Waiting, Carried, NEW t \in Tasks, HandoffCreate(t)
  PROVE  Sound' /\ Waiting' /\ Carried'
<1>0. /\ task \in [Tasks -> TaskRows] /\ agent \in [Tasks -> Processes] /\ NoTask \notin Tasks
      /\ agent[t] \in Processes /\ \A u \in Tasks : task[u].deps \subseteq Tasks
  BY Names, FieldsOf DEF Sound, TypeOK
<1>1. /\ agent[t].pc = "handoff"
      /\ worked' = worked /\ left' = left /\ back' = back
  BY DEF HandoffCreate
<1>2. PICK c \in Tasks :
        /\ task[c].status = "absent"
        /\ task' = [task EXCEPT ![c] =
             [status |-> "pending", deps |-> task[t].deps \cup {agent[t].owner},
              root |-> task[t].root, behind |-> agent[t].owner]]
        /\ agent' = [agent EXCEPT ![t] = [agent[t] EXCEPT !.pc = "dependents", !.follow = c]]
  BY DEF HandoffCreate
<1> DEFINE r == [status |-> "pending", deps |-> task[t].deps \cup {agent[t].owner},
                 root |-> task[t].root, behind |-> agent[t].owner]
           g == [agent[t] EXCEPT !.pc = "dependents", !.follow = c]
<1>3. /\ g.pc = "dependents" /\ g.follow = c /\ g.kids = agent[t].kids
      /\ g.kid = agent[t].kid
  BY <1>0 DEF Processes
<1>4. /\ r.status = "pending" /\ r.root = task[t].root
      /\ task' = [task EXCEPT ![c] = r] /\ agent' = [agent EXCEPT ![t] = g]
  BY <1>2
<1> HIDE DEF r, g
<1>5. /\ task[t].status = "in_progress" /\ task[t].root \in Given
      /\ agent[t].kids = {} /\ agent[t].kid = NoTask
      /\ task[c].root = NoTask /\ agent[c].pc = "none" /\ c \notin Given /\ c # t
  BY <1>1, <1>2 DEF Sound, Placed, Place, Held, InHand, Active
<1>6. /\ agent'[t] = g /\ \A u \in Tasks \ {t} : agent'[u] = agent[u]
      /\ task'[c] = r /\ \A u \in Tasks \ {c} : task'[u] = task[u]
  BY <1>0, <1>2, <1>4
<1>7. Sound'
  <2>1. Wanted'
    BY <1>3, <1>6 DEF Sound, Wanted
  <2>2. Placed'
    <3>1. Place(c)'
      BY <1>4, <1>5, <1>6 DEF Place, Active
    <3>2. \A u \in Tasks \ {c} : Place(u)'
      BY <1>1, <1>3, <1>5, <1>6 DEF Sound, Placed, Place, Active
    <3> QED BY <3>1, <3>2 DEF Placed
  <2>3. InHand(t)'
    BY <1>2, <1>3, <1>4, <1>5, <1>6 DEF InHand
  <2>4. ASSUME NEW u \in Tasks \ {t} PROVE InHand(u)'
    <3>1. CASE u = c
      <4>1. InHand(c)
        BY <1>2 DEF Sound, Held
      <4> QED BY <1>5, <1>6, <3>1, <4>1 DEF InHand
    <3>2. CASE u # c
      <4>1. InHand(u) /\ agent'[u] = agent[u] /\ task'[u] = task[u]
        BY <1>6, <3>2 DEF Sound, Held
      <4>2. \A e \in Tasks : task[e].status # "absent" => task'[e] = task[e]
        BY <1>2, <1>6
      <4> QED BY <4>1, <4>2 DEF InHand
    <3> QED BY <3>1, <3>2
  <2> QED BY <2>1, <2>2, <2>3, <2>4 DEF Sound, Held
<1>8. RootsStay
  BY <1>1, <1>5, <1>6 DEF RootsStay
<1>9. Waiting'
  <2> SUFFICES ASSUME NEW k \in Tasks, task'[k].status \in Active,
                      NEW w \in Waits[task'[k].root]
               PROVE  \/ w \in worked' \/ Excused(task[k].root)'
                      \/ task'[k].status = "pending" /\ Awaited(k, w)'
    BY DEF Waiting
  <2>1. ASSUME NEW u \in Tasks, task[u].root \in Given, task'[k].root = task[u].root,
               Excused(task[u].root)
        PROVE  Excused(task[k].root)'
    <3>1. PICK q \in Given : task[u].root = q
      BY <2>1
    <3>2. Excused(q)
      BY <2>1, <3>1 DEF Excused
    <3>3. Excused(q)'
      BY <1>8, <3>2, ExcusedStays DEF Sound
    <3> QED BY <2>1, <3>1, <3>3 DEF Excused
  <2>2. CASE k = c
    <3>1. task'[k].root = task[t].root /\ w \in Waits[task[t].root]
      BY <1>4, <1>6, <2>2
    <3>2. w \in worked \/ Excused(task[t].root)
      BY <1>5, <3>1 DEF Waiting, Active
    <3> QED BY <1>1, <1>5, <2>1, <3>1, <3>2
  <2>3. CASE k # c
    <3>1. task'[k] = task[k] /\ task[k].status \in Active /\ task[k].root \in Given
      BY <1>6, <2>3 DEF Sound, Placed, Place
    <3>2. \/ w \in worked \/ Excused(task[k].root)
          \/ task[k].status = "pending" /\ Awaited(k, w)
      BY <3>1 DEF Waiting
    <3>3. ASSUME Awaited(k, w) PROVE Awaited(k, w)'
      <4>1. PICK d \in task[k].deps :
              /\ task[d].root = w /\ task[d].status \in Active
              /\ Leaving(d) => k \in agent[d].kids \cup {agent[d].kid}
        BY <3>3 DEF Awaited
      <4>2. d \in Tasks /\ d # c
        BY <1>0, <1>2, <4>1 DEF Active
      <4>3. CASE d = t
        BY <1>3, <1>6, <3>1, <4>1, <4>2, <4>3 DEF Awaited, Leaving
      <4>4. CASE d # t
        BY <1>6, <3>1, <4>1, <4>2, <4>4 DEF Awaited, Leaving
      <4> QED BY <4>3, <4>4
    <3> QED BY <1>1, <2>1, <3>1, <3>2, <3>3
  <2> QED BY <2>2, <2>3
<1>10. Carried'
  <2>1. Carrying(c)'
    BY <1>4, <1>5, <1>6 DEF Carrying, HandedOn, Active
  <2>2. ASSUME NEW e \in Tasks, Carrying(e), task[e].root \in Given
        PROVE  \/ Carrying(e)' \/ task[e].root \in worked'
               \/ \E d \in Tasks :
                    task'[d].root = task[e].root /\ (Carrying(d)' \/ d \in back')
    <3>1. CASE e = t
      BY <1>2, <1>4, <1>6, <2>1, <3>1
    <3>2. CASE e # t
      BY <1>2, <1>6, <2>2, <3>2 DEF Carrying, HandedOn, Active
    <3> QED BY <3>1, <3>2
  <2> QED BY <1>8, <2>2, CarriedKept
<1> QED BY <1>7, <1>9, <1>10

(* Where the agent's list goes in, in time and unread by others, the       *)
(* continuation takes the agent's place.                                   *)
LEMMA MovePatchKeeps ==
  ASSUME Sound, TypeOK', Asked', Waiting, Carried, NEW t \in Tasks, MovePatch(t)
  PROVE  Sound' /\ Waiting' /\ Carried'
<1> DEFINE d == agent[t].kid
           c == agent[t].follow
           g == [agent[t] EXCEPT !.pc = "move", !.kid = NoTask, !.deps = {}]
<1>0. /\ task \in [Tasks -> TaskRows] /\ agent \in [Tasks -> Processes] /\ NoTask \notin Tasks
      /\ agent[t] \in Processes /\ \A u \in Tasks : task[u].deps \subseteq Tasks
      /\ \A u \in Tasks : task[u] \in TaskRows
  BY Names, FieldsOf DEF Sound, TypeOK
<1>1. /\ agent' = [agent EXCEPT ![t] = g] /\ agent[t].pc = "patch"
      /\ worked' = worked /\ back' = back /\ left \subseteq left'
  BY DEF MovePatch
<1>2. /\ d \in Tasks /\ c \in Tasks /\ task[c].root = task[t].root
      /\ task[c].status # "absent"
  BY <1>1 DEF Sound, Held, InHand
<1>3. /\ g.pc = "move" /\ g.kids = agent[t].kids /\ g.kid = NoTask
      /\ g.follow = agent[t].follow
  BY <1>0 DEF Processes
<1> HIDE DEF g
<1>4. agent'[t] = g /\ \A u \in Tasks \ {t} : agent'[u] = agent[u]
  BY <1>0, <1>1
<1>5. /\ \A u \in Tasks : task'[u].status = task[u].status /\ task'[u].root = task[u].root
      /\ \A u \in Tasks \ {d} : task'[u].deps = task[u].deps
      /\ d \in left' \/ (task'[d].deps = Moved(t, d) /\ ~Ended(c))
  <2> DEFINE deps == [u \in Tasks |-> IF u = d THEN agent[t].deps ELSE task[u].deps]
  <2>1. /\ task' = IF Cyclic(deps) THEN task ELSE [task EXCEPT ![d].deps = deps[d]]
        /\ left' = IF Cyclic(deps) \/ Ended(c) \/ deps[d] # Moved(t, d)
                   THEN left \cup {d} ELSE left
    BY DEF MovePatch
  <2> HIDE DEF deps, d, c
  <2>2. CASE Cyclic(deps)
    BY <2>1, <2>2
  <2>3. CASE ~Cyclic(deps)
    <3>1. task' = [task EXCEPT ![d] = [task[d] EXCEPT !.deps = deps[d]]]
      BY <2>1, <2>3
    <3>2. /\ [task[d] EXCEPT !.deps = deps[d]].status = task[d].status
          /\ [task[d] EXCEPT !.deps = deps[d]].root = task[d].root
          /\ [task[d] EXCEPT !.deps = deps[d]].deps = deps[d]
      BY <1>0, <1>2 DEF TaskRows
    <3>3. task'[d].deps = deps[d]
      BY <1>0, <1>2, <3>1, <3>2
    <3>4. /\ \A u \in Tasks : task'[u].status = task[u].status /\ task'[u].root = task[u].root
          /\ \A u \in Tasks \ {d} : task'[u].deps = task[u].deps
      BY <1>0, <1>2, <3>1, <3>2
    <3>5. d \in left' \/ (deps[d] = Moved(t, d) /\ ~Ended(c))
      BY <2>1
    <3> QED BY <3>3, <3>4, <3>5
  <2> QED BY <2>2, <2>3
<1>6. Sound'
  <2>1. Wanted'
    BY <1>3, <1>4 DEF Sound, Wanted
  <2>2. Placed'
    BY <1>1, <1>3, <1>4, <1>5 DEF Sound, Placed, Place
  <2>3. InHand(t)'
    BY <1>2, <1>3, <1>4, <1>5 DEF InHand
  <2>4. \A u \in Tasks \ {t} : InHand(u)'
    BY <1>4, <1>5 DEF Sound, Held, InHand
  <2> QED BY <2>1, <2>2, <2>3, <2>4 DEF Sound, Held
<1>7. RootsStay
  BY <1>1, <1>5 DEF RootsStay
<1>8. Waiting'
  <2>1. ASSUME NEW k \in Tasks, NEW w \in Given, task[k].status = "pending", Awaited(k, w)
        PROVE  Excused(task[k].root)' \/ Awaited(k, w)'
    <3>1. PICK e \in task[k].deps :
            /\ task[e].root = w /\ task[e].status \in Active
            /\ Leaving(e) => k \in agent[e].kids \cup {agent[e].kid}
      BY <2>1 DEF Awaited
    <3>2. e \in Tasks
      BY <1>0
    <3>3. ASSUME e \in task'[k].deps, e # t \/ k # d PROVE Awaited(k, w)'
      <4>1. CASE e # t
        BY <1>4, <1>5, <3>1, <3>2, <3>3, <4>1 DEF Awaited, Leaving
      <4>2. CASE e = t /\ k # d
        <5>1. k \in agent[t].kids
          BY <1>1, <3>1, <4>2 DEF Leaving
        <5> QED BY <1>3, <1>4, <1>5, <3>1, <3>2, <3>3, <4>2, <5>1 DEF Awaited
      <4> QED BY <3>3, <4>1, <4>2
    <3>4. CASE k # d
      BY <1>5, <3>3, <3>4
    <3>5. CASE k = d /\ d \in left'
      BY <1>2, <3>5 DEF Excused
    <3>6. CASE k = d /\ task'[d].deps = Moved(t, d) /\ ~Ended(c)
      <4>1. CASE e # t
        <5>1. e \in Moved(t, d)
          BY <3>1, <3>6, <4>1 DEF Moved
        <5> QED BY <3>3, <3>6, <4>1, <5>1
      <4>2. CASE e = t
        <5>1. c \in task'[k].deps
          BY <3>1, <3>6, <4>2 DEF Moved
        <5>2. c # t /\ ~Leaving(c)
          BY <1>1, <3>6 DEF Ended, Leaving
        <5>3. task[c].root = w /\ task[c].status \in Active
          <6>1. task[c].status \in {"absent", "pending", "in_progress", "completed"}
            BY <1>0, <1>2 DEF TaskRows
          <6> QED BY <1>2, <3>1, <3>6, <4>2, <6>1 DEF Ended, Active
        <5> HIDE DEF c
        <5> QED BY <1>2, <1>4, <1>5, <5>1, <5>2, <5>3 DEF Awaited, Leaving
      <4> QED BY <4>1, <4>2
    <3> QED BY <1>5, <3>4, <3>5, <3>6
  <2> QED BY <1>5, <1>6, <1>7, <2>1, WaitingKept
<1>9. Carried'
  <2>1. \A e \in Tasks : Carrying(e) => Carrying(e)'
    BY <1>1, <1>3, <1>4, <1>5 DEF Carrying, HandedOn
  <2> QED BY <1>7, <2>1, CarriedKept
<1> QED BY <1>6, <1>8, <1>9

-------------------------------------------------------------------------------
(* The theorems.                                                           *)

LEMMA Kept == Sound /\ Waiting /\ Carried /\ [Next]_vars => Sound' /\ Waiting' /\ Carried'
<1> SUFFICES ASSUME Sound, Waiting, Carried, [Next]_vars
             PROVE  Sound' /\ Waiting' /\ Carried'
  OBVIOUS
<1>1. ASSUME NEW x \in Tasks \cup Readers, Lists(x) PROVE Sound' /\ Waiting' /\ Carried'
  <2>1. TypeOK'
    BY <1>1, ListsType DEF Sound
  <2> QED BY <1>1, <2>1, ListsMinor, MinorKeeps
<1>2. ASSUME NEW t \in Tasks, Locks(t) PROVE Sound' /\ Waiting' /\ Carried'
  <2>1. TypeOK' /\ Asked'
    BY <1>2, LocksType DEF Sound
  <2> QED BY <1>2, <2>1, MinorSteps, MinorKeeps
<1>3. ASSUME NEW t \in Tasks, Process(t) PROVE Sound' /\ Waiting' /\ Carried'
  <2>1. TypeOK' /\ Asked'
    BY <1>3, ProcessType DEF Sound
  <2>2. CASE AskLock(t) \/ \E f \in Files : Unlock(t, f)
    BY <2>1, <2>2, MinorSteps, MinorKeeps
  <2>3. CASE HandoffCreate(t)
    BY <2>1, <2>3, HandoffCreateKeeps
  <2>4. CASE MovePatch(t)
    BY <2>1, <2>4, MovePatchKeeps
  <2>5. CASE HandoffReuse(t) \/ Dependents(t) \/ MoveRead(t) \/ Complete(t) \/ Exit(t)
    BY <2>1, <2>5, OwnSteps
  <2> QED BY <1>3, <2>2, <2>3, <2>4, <2>5 DEF Process
<1>4. ASSUME NEW t \in Tasks, Spawn(t) \/ Finish(t) PROVE Sound' /\ Waiting' /\ Carried'
  <2>1. TypeOK' /\ Asked'
    BY <1>4, SpawnType DEF Sound
  <2> QED BY <1>4, <2>1, SpawnKeeps, FinishKeeps
<1>5. ASSUME NEW t \in Tasks, Faults(t) PROVE Sound' /\ Waiting' /\ Carried'
  <2>1. TypeOK' /\ Asked'
    BY <1>5, FaultsType DEF Sound
  <2>2. CASE LoseAnswer(t)
    BY <2>1, <2>2, MinorSteps, MinorKeeps
  <2>3. CASE Kill(t) \/ HandoffLost(t) \/ DependentsLost(t) \/ MoveLost(t)
    BY <2>1, <2>3, OwnSteps
  <2> QED BY <1>5, <2>2, <2>3 DEF Faults
<1>6. CASE UNCHANGED vars
  <2>1. TypeOK'
    BY <1>6 DEF vars, Sound, TypeOK
  <2>2. Asked' /\ MinorStep
    BY <1>6 DEF vars, Sound, Asked, MinorStep
  <2> QED BY <2>1, <2>2, MinorKeeps
<1> QED BY <1>1, <1>2, <1>3, <1>4, <1>5, <1>6 DEF Next, Works

LEMMA InitKept == Init => Sound /\ Waiting /\ Carried
<1> SUFFICES ASSUME Init PROVE Sound /\ Waiting /\ Carried
  OBVIOUS
<1>1. Sound
  BY InitSound DEF Sound, Asked, Wanted, Init, NoReq, NoAgent
<1>2. \A t \in Given : /\ task[t].status = "pending" /\ task[t].root = t
                       /\ task[t].deps = Waits[t]
  BY Names DEF Init
<1>3. \A t \in Tasks : agent[t].pc = "none"
  BY DEF Init, NoAgent
<1>4. \A t \in Tasks : task[t].status \in Active => t \in Given
  BY DEF Init, Absent, Active
<1>5. Waiting
  <2> SUFFICES ASSUME NEW t \in Given, NEW w \in Waits[t] PROVE Awaited(t, w)
    BY <1>2, <1>4 DEF Waiting
  <2>1. w \in Given /\ w \in Tasks
    BY Names
  <2> QED BY <1>2, <1>3, <2>1 DEF Awaited, Leaving, Active
<1>6. Carried
  BY <1>2, <1>3, Names DEF Carried, Carrying, HandedOn, Active
<1> QED BY <1>1, <1>5, <1>6

(* The column, the rows, the processes and the requests keep their shape.  *)
THEOREM TypeCorrect == Spec => []TypeOK
<1>1. Sound => TypeOK
  BY DEF Sound
<1> QED BY <1>1, InitKept, Kept, PTL DEF Spec

(* Work that a task gave away is queued: no conflict, no kill and no lost  *)
(* answer loses it, unless a continuation that had been handed on itself   *)
(* was given it back.                                                      *)
THEOREM WorkStaysQueued == Spec => []WorkIsCarried
<1>1. Sound /\ Carried => WorkIsCarried
  <2> SUFFICES ASSUME Sound, Carried, NEW t \in Given, task[t].status = "completed",
                      t \notin worked
               PROVE  \E c \in Tasks :
                        /\ task[c].root = t
                        /\ task[c].status \in {"pending", "in_progress"} \/ c \in back
    BY DEF WorkIsCarried
  <2>1. PICK c \in Tasks : task[c].root = t /\ (Carrying(c) \/ c \in back)
    BY DEF Carried
  <2> QED BY <2>1 DEF Carrying, Active
<1> QED BY <1>1, InitKept, Kept, PTL DEF Spec

(* A task starts only when what it depends on is done, whichever           *)
(* continuations have taken it over, unless a dependency of its work could *)
(* not be moved in time or was moved back.                                 *)
THEOREM DependentsWaitForWork == Spec => []DependentsWait
<1>1. Sound /\ Waiting => DependentsWait
  BY DEF DependentsWait, Waiting, Excused, Active
<1> QED BY <1>1, InitKept, Kept, PTL DEF Spec

-------------------------------------------------------------------------------
(* One writer per file.  While no two requests overlap and no agent is     *)
(* killed, a claim is in the column until its agent gives it back: a task   *)
(* whose agent is not live has ended for good, so that a lock that is      *)
(* replaced or removed was nobody's.  (A task whose agent was killed runs  *)
(* again, and may take its lock anew after the route judged it stale.)     *)

Gone(o) == \/ task[o].status = "completed"
           \/ task[o].status = "in_progress" /\ agent[o].pc = "ended"

Writes(t) == req[t].pc \in {"write", "replace", "free"}
ListWrites(x) == list[x].pc \in {"found", "erase", "got"}

Claims ==
  \A t \in Tasks : /\ agent[t].pc # "dead"
                   /\ agent[t].pc \in {"none", "ended"} => agent[t].claimed = {}
                   /\ \A f \in agent[t].claimed : column[f] = t

Owners ==
  \A f \in Files :
    column[f] # NoTask => task[column[f]].status \in {"in_progress", "completed"}

Requested ==
  \A t \in Tasks :
    /\ req[t].pc # "idle" => Alive(t)
    /\ req[t].pc \in {"unlock", "free"} =>
         agent[t].pc = "unlock" /\ req[t].file \notin agent[t].claimed
    /\ req[t].pc \in {"reread", "replace"} => req[t].prev \in Tasks /\ Gone(req[t].prev)

Listed ==
  \A x \in Tasks \cup Readers : \A f \in Files :
    list[x].stale[f] # NoTask => list[x].stale[f] \in Tasks /\ Gone(list[x].stale[f])

(* One request at most is between its reading and its writing, and what it *)
(* read is what is there.                                                  *)
Alone ==
  /\ \A t \in Tasks : Writes(t) => req[t].view = column
  /\ \A x \in Tasks \cup Readers : ListWrites(x) => list[x].view = column
  /\ \A t, u \in Tasks : Writes(t) /\ Writes(u) => t = u
  /\ \A x, y \in Tasks \cup Readers : ListWrites(x) /\ ListWrites(y) => x = y
  /\ \A t \in Tasks, x \in Tasks \cup Readers : ~(Writes(t) /\ ListWrites(x))

Locked == Claims /\ Owners /\ Requested /\ Listed /\ Alone

Here == {"in_progress", "completed"}
Stays ==
  \A o \in Tasks : /\ Gone(o) => Gone(o)'
                   /\ task[o].status \in Here => task'[o].status \in Here

LEMMA DeadOwner ==
  ASSUME Sound, Claims, Owners, NEW f \in Files, column[f] # NoTask,
         ~file_lock_owner_is_live(column[f])
  PROVE  column[f] \in Tasks /\ Gone(column[f])
<1>1. PICK o \in Tasks : column[f] = o
  BY DEF Sound, TypeOK, Columns
<1>2. task[o].status \in {"in_progress", "completed"} /\ ~file_lock_owner_is_live(o)
  BY <1>1 DEF Owners
<1>3. agent[o].pc # "dead" /\ (task[o].status = "in_progress" => agent[o].pc # "none")
  BY DEF Claims, Sound, Placed, Place
<1> QED BY <1>1, <1>2, <1>3 DEF file_lock_owner_is_live, Alive, Gone

(* A step of one agent that is about no lock.                              *)
LEMMA AgentKeepsLocks ==
  ASSUME Sound, Locked, NEW t \in Tasks, NEW g, agent' = [agent EXCEPT ![t] = g],
         column' = column, req' = req, list' = list, Stays,
         g.claimed = agent[t].claimed, g.pc # "dead",
         g.pc \in {"none", "ended"} => g.claimed = {} /\ req[t].pc = "idle",
         req[t].pc \in {"unlock", "free"} => g.pc = "unlock"
  PROVE  Locked'
<1>0. agent \in [Tasks -> Processes] /\ column \in Columns
  BY DEF Sound, TypeOK
<1>1. agent'[t] = g /\ \A u \in Tasks \ {t} : agent'[u] = agent[u]
  BY <1>0
<1>2. Claims'
  BY <1>1 DEF Locked, Claims
<1>3. Owners'
  BY <1>0 DEF Locked, Owners, Stays, Here, Columns
<1>4. Requested'
  <2> SUFFICES ASSUME NEW u \in Tasks
               PROVE  /\ req[u].pc # "idle" => agent'[u].pc \notin {"none", "ended", "dead"}
                      /\ req[u].pc \in {"unlock", "free"} =>
                           agent'[u].pc = "unlock" /\ req[u].file \notin agent'[u].claimed
                      /\ req[u].pc \in {"reread", "replace"} =>
                           req[u].prev \in Tasks /\ Gone(req[u].prev)
    <3>1. \A u \in Tasks : req[u].pc \in {"reread", "replace"} /\ req[u].prev \in Tasks
                              /\ Gone(req[u].prev) => Gone(req[u].prev)'
      BY DEF Stays, Gone
    <3> QED BY <3>1 DEF Requested, Alive
  <2>1. /\ req[u].pc # "idle" => agent[u].pc \notin {"none", "ended", "dead"}
        /\ req[u].pc \in {"unlock", "free"} =>
             agent[u].pc = "unlock" /\ req[u].file \notin agent[u].claimed
        /\ req[u].pc \in {"reread", "replace"} => req[u].prev \in Tasks /\ Gone(req[u].prev)
    BY DEF Locked, Requested, Alive
  <2>2. CASE u = t
    BY <1>1, <2>1, <2>2
  <2>3. CASE u # t
    BY <1>1, <2>1, <2>3
  <2> QED BY <2>2, <2>3
<1>5. Listed'
  BY DEF Locked, Listed, Stays, Gone
<1>6. Alone'
  BY DEF Locked, Alone, Writes, ListWrites
<1> QED BY <1>2, <1>3, <1>4, <1>5, <1>6 DEF Locked

LEMMA AgentsKeepLocks ==
  ASSUME Sound, Locked, NEW t \in Tasks,
         \/ HandoffReuse(t) \/ HandoffLost(t) \/ Dependents(t) \/ DependentsLost(t)
         \/ MoveRead(t) \/ MovePatch(t) \/ MoveLost(t) \/ Complete(t) \/ LoseAnswer(t)
         \/ HandoffCreate(t) \/ Exit(t) \/ Spawn(t) \/ Finish(t)
  PROVE  Locked'
<1>0. /\ agent \in [Tasks -> Processes] /\ agent[t] \in Processes /\ task \in [Tasks -> TaskRows]
      /\ \A u \in Tasks : task[u] \in TaskRows
  BY DEF Sound, TypeOK
<1>1. /\ agent[t].pc # "dead" /\ (agent[t].pc \in {"none", "ended"} => agent[t].claimed = {})
      /\ req[t].pc \in {"unlock", "free"} => agent[t].pc = "unlock"
      /\ agent[t].pc \in {"none", "ended"} => req[t].pc = "idle"
  BY DEF Locked, Claims, Requested, Alive
<1>2. column' = column /\ req' = req /\ list' = list
  BY DEF HandoffReuse, HandoffLost, Dependents, DependentsLost, MoveRead, MovePatch, MoveLost,
         Complete, LoseAnswer, HandoffCreate, Exit, Spawn, Finish
<1>3. \A u \in Tasks \ {t} : agent'[u] = agent[u]
  BY <1>0 DEF HandoffReuse, HandoffLost, Dependents, DependentsLost, MoveRead, MovePatch,
         MoveLost, Complete, LoseAnswer, HandoffCreate, Exit, Spawn, Finish
<1>4. CASE \/ HandoffReuse(t) \/ HandoffLost(t) \/ Dependents(t) \/ DependentsLost(t)
           \/ MoveRead(t) \/ MovePatch(t) \/ MoveLost(t) \/ Complete(t) \/ LoseAnswer(t)
           \/ HandoffCreate(t)
  <2>1. \E g : /\ agent' = [agent EXCEPT ![t] = g] /\ g.claimed = agent[t].claimed
              /\ g.pc \notin {"none", "ended", "dead"}
    <3>1. CASE HandoffReuse(t)
      <4>1. PICK c : agent' = [agent EXCEPT ![t] = [agent[t] EXCEPT !.pc = "dependents", !.follow = c]]
        BY <3>1 DEF HandoffReuse
      <4> DEFINE g == [agent[t] EXCEPT !.pc = "dependents", !.follow = c]
      <4>2. g.claimed = agent[t].claimed /\ g.pc \notin {"none", "ended", "dead"}
        BY <1>0 DEF Processes
      <4> QED BY <4>1, <4>2
    <3>2. CASE HandoffLost(t)
      <4> DEFINE g == [agent[t] EXCEPT !.pc = "work", !.follow = NoTask]
      <4>1. agent' = [agent EXCEPT ![t] = g]
        BY <3>2 DEF HandoffLost
      <4>2. g.claimed = agent[t].claimed /\ g.pc \notin {"none", "ended", "dead"}
        BY <1>0 DEF Processes
      <4> QED BY <4>1, <4>2
    <3>3. CASE Dependents(t)
      <4> DEFINE g == [agent[t] EXCEPT !.pc = "move", !.kids = get_task_dependents(t)]
      <4>1. agent' = [agent EXCEPT ![t] = g]
        BY <3>3 DEF Dependents
      <4>2. g.claimed = agent[t].claimed /\ g.pc \notin {"none", "ended", "dead"}
        BY <1>0 DEF Processes
      <4> QED BY <4>1, <4>2
    <3>4. CASE DependentsLost(t)
      <4> DEFINE g == [agent[t] EXCEPT !.pc = "move"]
      <4>1. agent' = [agent EXCEPT ![t] = g]
        BY <3>4 DEF DependentsLost
      <4>2. g.claimed = agent[t].claimed /\ g.pc \notin {"none", "ended", "dead"}
        BY <1>0 DEF Processes
      <4> QED BY <4>1, <4>2
    <3>5. CASE MoveRead(t)
      <4>1. PICK d : agent' = [agent EXCEPT ![t] = [agent[t] EXCEPT !.pc = "patch", !.kid = d,
                                   !.kids = agent[t].kids \ {d}, !.deps = Moved(t, d)]]
        BY <3>5 DEF MoveRead
      <4> DEFINE g == [agent[t] EXCEPT !.pc = "patch", !.kid = d,
                                   !.kids = agent[t].kids \ {d}, !.deps = Moved(t, d)]
      <4>2. g.claimed = agent[t].claimed /\ g.pc \notin {"none", "ended", "dead"}
        BY <1>0 DEF Processes
      <4> QED BY <4>1, <4>2
    <3>6. CASE MovePatch(t) \/ MoveLost(t)
      <4> DEFINE g == [agent[t] EXCEPT !.pc = "move", !.kid = NoTask, !.deps = {}]
      <4>1. agent' = [agent EXCEPT ![t] = g]
        BY <3>6 DEF MovePatch, MoveLost
      <4>2. g.claimed = agent[t].claimed /\ g.pc \notin {"none", "ended", "dead"}
        BY <1>0 DEF Processes
      <4> QED BY <4>1, <4>2
    <3>7. CASE Complete(t)
      <4> DEFINE g == [agent[t] EXCEPT !.pc = "unlock"]
      <4>1. agent' = [agent EXCEPT ![t] = g]
        BY <3>7 DEF Complete
      <4>2. g.claimed = agent[t].claimed /\ g.pc \notin {"none", "ended", "dead"}
        BY <1>0 DEF Processes
      <4> QED BY <4>1, <4>2
    <3>8. CASE LoseAnswer(t)
      <4> DEFINE g == [agent[t] EXCEPT !.pc = "list"]
      <4>1. agent' = [agent EXCEPT ![t] = g]
        BY <3>8 DEF LoseAnswer
      <4>2. g.claimed = agent[t].claimed /\ g.pc \notin {"none", "ended", "dead"}
        BY <1>0 DEF Processes
      <4> QED BY <4>1, <4>2
    <3>9. CASE HandoffCreate(t)
      <4>1. PICK c : agent' = [agent EXCEPT ![t] = [agent[t] EXCEPT !.pc = "dependents", !.follow = c]]
        BY <3>9 DEF HandoffCreate
      <4> DEFINE g == [agent[t] EXCEPT !.pc = "dependents", !.follow = c]
      <4>2. g.claimed = agent[t].claimed /\ g.pc \notin {"none", "ended", "dead"}
        BY <1>0 DEF Processes
      <4> QED BY <4>1, <4>2
    <3> QED BY <1>4, <3>1, <3>2, <3>3, <3>4, <3>5, <3>6, <3>7, <3>8, <3>9
  <2>2. agent[t].pc \notin {"none", "ended", "dead", "unlock"}
    BY <1>4 DEF HandoffReuse, HandoffLost, Dependents, DependentsLost, MoveRead, MovePatch,
         MoveLost, Complete, LoseAnswer, HandoffCreate
  <2>3. \A u \in Tasks : task[u].status \in Here => task'[u].status = task[u].status
    <3>1. CASE MovePatch(t)
      BY <1>0, <3>1 DEF MovePatch, TaskRows
    <3>2. CASE HandoffCreate(t)
      <4>1. PICK c \in Tasks : /\ task[c].status = "absent"
                              /\ \E r : task' = [task EXCEPT ![c] = r]
        BY <3>2 DEF HandoffCreate
      <4> QED BY <1>0, <4>1 DEF Here
    <3>3. CASE ~MovePatch(t) /\ ~HandoffCreate(t)
      <4>1. task' = task
        BY <1>4, <3>3 DEF HandoffReuse, HandoffLost, Dependents, DependentsLost, MoveRead,
             MoveLost, Complete, LoseAnswer
      <4> QED BY <4>1
    <3> QED BY <3>1, <3>2, <3>3
  <2>4. Stays
    BY <1>3, <2>2, <2>3 DEF Stays, Gone, Here
  <2>5. PICK g : /\ agent' = [agent EXCEPT ![t] = g] /\ g.claimed = agent[t].claimed
                 /\ g.pc \notin {"none", "ended", "dead"}
    BY <2>1
  <2> QED BY <1>1, <1>2, <2>2, <2>4, <2>5, AgentKeepsLocks
<1>5. CASE Exit(t)
  <2>1. /\ agent' = [agent EXCEPT ![t] = [NoAgent EXCEPT !.pc = "ended"]] /\ task' = task
        /\ agent[t].pc = "unlock" /\ agent[t].claimed = {} /\ req[t].pc = "idle"
    BY <1>5 DEF Exit
  <2>2. Stays
    BY <1>3, <2>1 DEF Stays, Gone
  <2>3. [NoAgent EXCEPT !.pc = "ended"].claimed = {} /\ [NoAgent EXCEPT !.pc = "ended"].pc = "ended"
    BY DEF NoAgent
  <2> QED BY <1>2, <2>1, <2>2, <2>3, AgentKeepsLocks
<1>6. CASE Spawn(t)
  <2>1. /\ agent' = [agent EXCEPT ![t] = [NoAgent EXCEPT !.pc = "work"]]
        /\ agent[t].pc = "none" /\ req[t].pc = "idle" /\ task[t].status = "pending"
        /\ task' = [task EXCEPT ![t].status = "in_progress"]
    BY <1>6 DEF Spawn
  <2>2. Stays
    BY <1>0, <1>3, <2>1 DEF Stays, Gone, Here
  <2>3. [NoAgent EXCEPT !.pc = "work"].claimed = {} /\ [NoAgent EXCEPT !.pc = "work"].pc = "work"
    BY DEF NoAgent
  <2> QED BY <1>1, <1>2, <2>1, <2>2, <2>3, AgentKeepsLocks
<1>7. CASE Finish(t)
  <2>1. agent[t].pc = "ended" /\ agent' = [agent EXCEPT ![t] = NoAgent]
        /\ task' = [task EXCEPT ![t].status = "completed"]
    BY <1>1, <1>7 DEF Finish
  <2>2. Stays
    BY <1>0, <1>3, <2>1 DEF Stays, Gone, Here, TaskRows
  <2>3. NoAgent.claimed = {} /\ NoAgent.pc = "none"
    BY DEF NoAgent
  <2> QED BY <1>1, <1>2, <2>1, <2>2, <2>3, AgentKeepsLocks
<1> QED BY <1>4, <1>5, <1>6, <1>7

(* A step of one request that writes no lock: it reads, looks at an owner, *)
(* or is asked for.                                                        *)
LEMMA GoneStays ==
  ASSUME Sound, task' = task,
         \A u \in Tasks : agent[u].pc = "ended" => agent'[u].pc = "ended"
  PROVE  Stays
BY DEF Stays, Gone, Here

LEMMA LocksKeepLocks ==
  ASSUME ~Overlap, Sound, Locked, NEW t \in Tasks, Locks(t)
  PROVE  Locked'
<1> DEFINE f == req[t].file
<1>0. /\ agent \in [Tasks -> Processes] /\ req \in [Tasks -> Requests] /\ column \in Columns
      /\ req[t] \in Requests /\ agent[t] \in Processes /\ agent[t].claimed \subseteq Files
      /\ req[t].view \in Columns /\ NoTask \notin Tasks
  BY FieldsOf, Names DEF Sound, TypeOK
<1>1. /\ Claims /\ Owners /\ Requested /\ Listed /\ Alone
  BY DEF Locked
<1>2. /\ req[t].pc # "idle" /\ f \in Files
      /\ Alive(t) /\ task[t].status = "in_progress"
      /\ req[t].pc \in {"unlock", "free"} =>
           agent[t].pc = "unlock" /\ f \notin agent[t].claimed
      /\ req[t].pc \in {"reread", "replace"} => req[t].prev \in Tasks /\ Gone(req[t].prev)
  <2>1. req[t].pc # "idle"
    BY DEF Locks, LockRead, lock_file, LockCheck, ReplaceRead, replace_file_lock, ReplaceAgain,
           unlock_file
  <2> QED BY <1>1, <2>1 DEF Requested, Alive, Sound, Asked, Placed, Place
<1>3. /\ task' = task /\ list' = list
      /\ \A u \in Tasks \ {t} : req'[u] = req[u] /\ agent'[u] = agent[u]
  BY <1>0 DEF Locks, LockRead, lock_file, LockCheck, ReplaceRead, replace_file_lock,
     ReplaceAgain, unlock_file, Answered
<1> HIDE DEF f
(* The agent, after an answer that is not a grant.                         *)
<1>4. ASSUME agent'[t].claimed = agent[t].claimed,
             agent'[t].pc = agent[t].pc \/ agent'[t].pc \in {"list", "handoff"},
             column' = column,
             req'[t].file = f \/ req'[t].pc = "idle",
             req'[t].pc \in {"unlock", "free"} => req[t].pc \in {"unlock", "free"}
                                               /\ agent'[t].pc = agent[t].pc,
             req'[t].pc \in {"reread", "replace"} =>
               req'[t].prev \in Tasks /\ Gone(req'[t].prev),
             Writes(t)' => req'[t].view = column /\ Undisturbed
      PROVE  Locked'
  <2>1. agent'[t].pc \notin {"none", "ended", "dead"}
    BY <1>2, <1>4 DEF Alive
  <2>2. Stays
    BY <1>2, <1>3, <2>1, GoneStays DEF Alive
  <2>3. Claims'
    BY <1>1, <1>3, <1>4, <2>1 DEF Claims
  <2>4. Owners'
    BY <1>1, <1>3, <1>4 DEF Owners
  <2>5. Requested'
    <3>1. ASSUME NEW u \in Tasks \ {t}, req[u].pc \in {"reread", "replace"}
          PROVE  req'[u].prev \in Tasks /\ Gone(req[u].prev)'
      BY <1>1, <1>3, <2>2, <3>1 DEF Requested, Stays, Gone
    <3>2. req'[t].pc \in {"reread", "replace"} => Gone(req[t].prev)'
      BY <1>4, <2>2 DEF Stays, Gone
    <3>3. req'[t].pc \in {"unlock", "free"} =>
            agent'[t].pc = "unlock" /\ req'[t].file \notin agent'[t].claimed
      BY <1>2, <1>4
    <3> QED BY <1>1, <1>3, <1>4, <2>1, <3>1, <3>2, <3>3 DEF Requested, Alive
  <2>6. Listed'
    BY <1>1, <1>3, <2>2 DEF Listed, Stays, Gone
  <2>7. Alone'
    BY <1>1, <1>3, <1>4 DEF Alone, Writes, ListWrites, Undisturbed
  <2> QED BY <2>3, <2>4, <2>5, <2>6, <2>7 DEF Locked
(* A write of the column: the request that wrote was alone.                *)
<1>5. ASSUME Writes(t), ~Writes(t)',
             req'[t].pc \notin {"unlock", "free", "reread", "replace"},
             agent'[t].pc = agent[t].pc \/ agent'[t].pc = "work",
             req'[t].pc # "idle" \/ agent'[t].pc = agent[t].pc \/ agent'[t].pc = "work",
             \A u \in Tasks : agent'[u].claimed \subseteq {e \in Files : column'[e] = u},
             \A e \in Files : column'[e] \in {NoTask, t, column[e]}
      PROVE  Locked'
  <2>1. agent'[t].pc \notin {"none", "ended", "dead"}
    BY <1>2, <1>5 DEF Alive
  <2>2. Stays
    BY <1>2, <1>3, <2>1, GoneStays DEF Alive
  <2>3. Claims'
    BY <1>1, <1>3, <1>5, <2>1 DEF Claims
  <2>4. Owners'
    BY <1>1, <1>2, <1>3, <1>5 DEF Owners
  <2>5. Requested'
    <3>1. ASSUME NEW u \in Tasks \ {t}, req[u].pc \in {"reread", "replace"}
          PROVE  req'[u].prev \in Tasks /\ Gone(req[u].prev)'
      BY <1>1, <1>3, <2>2, <3>1 DEF Requested, Stays, Gone
    <3> QED BY <1>1, <1>3, <1>5, <2>1, <3>1 DEF Requested, Alive
  <2>6. Listed'
    BY <1>1, <1>3, <2>2 DEF Listed, Stays, Gone
  <2>7. Alone'
    BY <1>1, <1>3, <1>5 DEF Alone, Writes, ListWrites
  <2> QED BY <2>3, <2>4, <2>5, <2>6, <2>7 DEF Locked
<1>6. \A u \in Tasks : \A e \in agent[u].claimed : e \in Files /\ column[e] = u
  BY <1>1, FieldsOf DEF Claims, Sound
(* What the answer to t does to its agent.                                 *)
<1>7. ASSUME NEW o, o # t, Answered(t, o)
      PROVE  /\ agent'[t].claimed = agent[t].claimed /\ req'[t] = NoReq
             /\ agent'[t].pc = agent[t].pc \/ agent'[t].pc \in {"list", "handoff"}
  <2>1. /\ [agent[t] EXCEPT !.pc = "list"].claimed = agent[t].claimed
        /\ [agent[t] EXCEPT !.pc = "list"].pc = "list"
        /\ [agent[t] EXCEPT !.pc = "handoff", !.owner = o].claimed = agent[t].claimed
        /\ [agent[t] EXCEPT !.pc = "handoff", !.owner = o].pc = "handoff"
    BY <1>0 DEF Processes
  <2> QED BY <1>0, <1>7, <2>1 DEF Answered
<1>8. ASSUME Answered(t, t)
      PROVE  /\ agent'[t].claimed \subseteq agent[t].claimed \cup {f} /\ req'[t] = NoReq
             /\ agent'[t].pc = agent[t].pc \/ agent'[t].pc = "work"
  <2>1. /\ [agent[t] EXCEPT !.pc = "work", !.claimed = agent[t].claimed \cup {f}].claimed
             = agent[t].claimed \cup {f}
        /\ [agent[t] EXCEPT !.pc = "work", !.claimed = agent[t].claimed \cup {f}].pc = "work"
    BY <1>0 DEF Processes
  <2> QED BY <1>0, <1>8, <2>1 DEF Answered, f
<1>9. NoReq.pc = "idle"
  BY DEF NoReq
<1>10. Writes(t) => req[t].view = column
  BY <1>1 DEF Alone
<1>11. CASE LockRead(t)
  <2> DEFINE r == [req[t] EXCEPT !.view = column, !.pc = IF @ = "read" THEN "write" ELSE "free"]
  <2>1. req'[t] = r /\ agent' = agent /\ column' = column /\ Undisturbed
        /\ req[t].pc \in {"read", "unlock"}
    BY <1>0, <1>11 DEF LockRead
  <2>2. r.view = column /\ r.file = f /\ (r.pc = IF req[t].pc = "read" THEN "write" ELSE "free")
    BY <1>0 DEF Requests, f
  <2> HIDE DEF r
  <2> QED BY <1>4, <2>1, <2>2
<1>12. CASE ReplaceRead(t)
  <2> DEFINE r == [req[t] EXCEPT !.pc = "replace", !.view = column]
  <2>1. req'[t] = r /\ agent' = agent /\ column' = column /\ Undisturbed
        /\ req[t].pc = "reread"
    BY <1>0, <1>12 DEF ReplaceRead
  <2>2. r.view = column /\ r.file = f /\ r.pc = "replace" /\ r.prev = req[t].prev
    BY <1>0 DEF Requests, f
  <2> HIDE DEF r
  <2> QED BY <1>2, <1>4, <2>1, <2>2
<1>13. CASE LockCheck(t)
  <2> DEFINE o == column[f]
  <2>1. column' = column /\ req[t].pc = "check"
    BY <1>13 DEF LockCheck
  <2>2. CASE o # NoTask /\ ~file_lock_owner_is_live(o)
    <3> DEFINE r == [req[t] EXCEPT !.pc = "reread", !.prev = o]
    <3>1. req'[t] = r /\ agent' = agent
      BY <1>0, <1>13, <2>2 DEF LockCheck, f
    <3>2. r.file = f /\ r.pc = "reread" /\ r.prev = o
      BY <1>0 DEF Requests, f
    <3>3. o \in Tasks /\ Gone(o)
      BY <1>1, <1>2, <2>2, DeadOwner
    <3>4. r.prev \in Tasks /\ Gone(r.prev)
      BY <3>2, <3>3
    <3> HIDE DEF r
    <3>5. ~Writes(t)'
      BY <3>1, <3>2 DEF Writes
    <3> QED BY <1>4, <2>1, <3>1, <3>2, <3>4, <3>5
  <2>3. CASE o = t /\ ~(o # NoTask /\ ~file_lock_owner_is_live(o))
    <3> DEFINE g == [agent[t] EXCEPT !.pc = IF @ = "lock" THEN "list" ELSE @]
    <3>1. req'[t] = NoReq /\ agent'[t] = g
      BY <1>0, <1>13, <2>3 DEF LockCheck, f
    <3>2. g.claimed = agent[t].claimed /\ (g.pc = agent[t].pc \/ g.pc = "list")
      BY <1>0 DEF Processes
    <3> HIDE DEF g
    <3> QED BY <1>4, <1>9, <2>1, <3>1, <3>2 DEF Writes
  <2>4. CASE o # t /\ ~(o # NoTask /\ ~file_lock_owner_is_live(o))
    <3>1. Answered(t, o)
      BY <1>13, <2>4 DEF LockCheck, f
    <3> QED BY <1>4, <1>7, <1>9, <2>1, <2>4, <3>1 DEF Writes
  <2> QED BY <2>2, <2>3, <2>4
<1>14. CASE ReplaceAgain(t)
  <2> DEFINE o == column[f]
  <2>1. column' = column /\ req[t].pc = "again"
    BY <1>14 DEF ReplaceAgain
  <2>2. CASE o = t
    <3> DEFINE g == [agent[t] EXCEPT !.pc = IF @ = "lock" THEN "list" ELSE @]
    <3>1. req'[t] = NoReq /\ agent'[t] = g
      BY <1>0, <1>14, <2>2 DEF ReplaceAgain, f
    <3>2. g.claimed = agent[t].claimed /\ (g.pc = agent[t].pc \/ g.pc = "list")
      BY <1>0 DEF Processes
    <3> HIDE DEF g
    <3> QED BY <1>4, <1>9, <2>1, <3>1, <3>2 DEF Writes
  <2>3. CASE o # t
    <3>1. Answered(t, o)
      BY <1>14, <2>3 DEF ReplaceAgain, f
    <3> QED BY <1>4, <1>7, <1>9, <2>1, <2>3, <3>1 DEF Writes
  <2> QED BY <2>2, <2>3
<1>15. CASE lock_file(t) \/ replace_file_lock(t)
  <2>1. Writes(t) /\ req[t].view = column /\ req[t].pc \in {"write", "replace"}
    BY <1>10, <1>15 DEF lock_file, replace_file_lock, Writes
  <2>2. \/ /\ column' = [column EXCEPT ![f] = t] /\ Answered(t, t)
           /\ \/ column[f] \in {NoTask, t}
              \/ req[t].pc = "replace" /\ column[f] = req[t].prev
        \/ /\ column' = column /\ agent' = agent
           /\ \E pc \in {"check", "again"} : req' = [req EXCEPT ![t].pc = pc]
    BY <1>15, <2>1 DEF lock_file, replace_file_lock, f
  <2>3. CASE column' = [column EXCEPT ![f] = t] /\ Answered(t, t)
             /\ (\/ column[f] \in {NoTask, t}
                 \/ req[t].pc = "replace" /\ column[f] = req[t].prev)
    <3>1. ASSUME NEW u \in Tasks \ {t} PROVE f \notin agent[u].claimed
      <4>1. SUFFICES ASSUME f \in agent[u].claimed PROVE FALSE
        OBVIOUS
      <4>2. column[f] = u /\ u # NoTask
        BY <1>0, <1>6, <4>1
      <4>3. Gone(u)
        BY <1>2, <2>3, <4>2
      <4>4. agent[u].claimed = {}
        BY <1>1, <4>3 DEF Gone, Claims, Sound, Placed, Place
      <4> QED BY <4>1, <4>4
    <3>2. \A e \in Files : column'[e] \in {NoTask, t, column[e]}
      BY <1>0, <1>2, <2>3 DEF Columns
    <3>3. \A u \in Tasks : agent'[u].claimed \subseteq {e \in Files : column'[e] = u}
      <4>1. column'[f] = t /\ \A e \in Files \ {f} : column'[e] = column[e]
        BY <1>0, <1>2, <2>3 DEF Columns
      <4>2. agent'[t].claimed \subseteq agent[t].claimed \cup {f}
        BY <1>8, <2>3
      <4> QED BY <1>2, <1>3, <1>6, <3>1, <4>1, <4>2
    <3> QED BY <1>5, <1>8, <1>9, <2>1, <2>3, <3>2, <3>3 DEF Writes
  <2>4. CASE /\ column' = column /\ agent' = agent
             /\ \E pc \in {"check", "again"} : req' = [req EXCEPT ![t].pc = pc]
    <3>1. req'[t].pc \in {"check", "again"} /\ req'[t].file = f
      BY <1>0, <2>4 DEF Requests, f
    <3> QED BY <1>4, <2>4, <3>1 DEF Writes
  <2> QED BY <2>2, <2>3, <2>4
<1>16. CASE unlock_file(t)
  <2>1. /\ Writes(t) /\ req[t].view = column /\ f \notin agent[t].claimed
        /\ req'[t] = NoReq /\ agent' = agent
        /\ column' = IF column[f] = t THEN [column EXCEPT ![f] = NoTask] ELSE column
    BY <1>0, <1>2, <1>10, <1>16 DEF unlock_file, Writes, f
  <2>2. \A e \in Files : column'[e] \in {NoTask, t, column[e]}
    BY <1>0, <2>1 DEF Columns
  <2>3. \A u \in Tasks : agent'[u].claimed \subseteq {e \in Files : column'[e] = u}
    BY <1>0, <1>6, <2>1 DEF Columns
  <2> QED BY <1>5, <1>9, <2>1, <2>2, <2>3 DEF Writes
<1> QED BY <1>11, <1>12, <1>13, <1>14, <1>15, <1>16 DEF Locks

LEMMA AskKeepsLocks ==
  ASSUME Sound, Locked, NEW t \in Tasks, AskLock(t) \/ \E f \in Files : Unlock(t, f)
  PROVE  Locked'
<1>0. /\ agent \in [Tasks -> Processes] /\ req \in [Tasks -> Requests]
      /\ agent[t] \in Processes
  BY FieldsOf DEF Sound, TypeOK
<1>1. /\ Claims /\ Owners /\ Requested /\ Listed /\ Alone
  BY DEF Locked
<1>2. /\ task' = task /\ list' = list /\ column' = column /\ req[t].pc = "idle"
      /\ \A u \in Tasks \ {t} : req'[u] = req[u] /\ agent'[u] = agent[u]
      /\ agent[t].pc \in {"work", "unlock"}
  BY <1>0 DEF AskLock, Unlock, bounds
<1>3. /\ agent'[t].pc \in {"lock", "unlock"} /\ agent'[t].claimed \subseteq agent[t].claimed
      /\ req'[t].pc \in {"read", "unlock"}
      /\ req'[t].pc = "unlock" => agent'[t].pc = "unlock" /\ req'[t].file \notin agent'[t].claimed
  <2>1. CASE AskLock(t)
    <3>1. PICK h : /\ agent' = [agent EXCEPT ![t] = [agent[t] EXCEPT !.pc = "lock", !.file = h]]
                   /\ req' = [req EXCEPT ![t] = [NoReq EXCEPT !.pc = "read", !.file = h]]
      BY <2>1 DEF AskLock
    <3>2. /\ [agent[t] EXCEPT !.pc = "lock", !.file = h].pc = "lock"
          /\ [agent[t] EXCEPT !.pc = "lock", !.file = h].claimed = agent[t].claimed
          /\ [NoReq EXCEPT !.pc = "read", !.file = h].pc = "read"
      BY <1>0 DEF Processes, NoReq
    <3> QED BY <1>0, <3>1, <3>2
  <2>2. ASSUME NEW h \in Files, Unlock(t, h)
        PROVE  /\ agent'[t].pc \in {"lock", "unlock"}
               /\ agent'[t].claimed \subseteq agent[t].claimed
               /\ req'[t].pc \in {"read", "unlock"}
               /\ req'[t].pc = "unlock" =>
                    agent'[t].pc = "unlock" /\ req'[t].file \notin agent'[t].claimed
    <3>1. /\ agent' = [agent EXCEPT ![t] = [agent[t] EXCEPT !.claimed = agent[t].claimed \ {h}]]
          /\ req' = [req EXCEPT ![t] = [NoReq EXCEPT !.pc = "unlock", !.file = h]]
          /\ agent[t].pc = "unlock"
      BY <2>2 DEF Unlock
    <3>2. /\ [agent[t] EXCEPT !.claimed = agent[t].claimed \ {h}].pc = agent[t].pc
          /\ [agent[t] EXCEPT !.claimed = agent[t].claimed \ {h}].claimed = agent[t].claimed \ {h}
          /\ [NoReq EXCEPT !.pc = "unlock", !.file = h].pc = "unlock"
          /\ [NoReq EXCEPT !.pc = "unlock", !.file = h].file = h
      BY <1>0 DEF Processes, NoReq
    <3> QED BY <1>0, <3>1, <3>2
  <2> QED BY <2>1, <2>2
<1>4. Stays
  BY <1>2, <1>3, GoneStays
<1>5. Claims'
  BY <1>1, <1>2, <1>3 DEF Claims
<1>6. Owners'
  BY <1>1, <1>2 DEF Owners
<1>7. Requested'
  <2>1. ASSUME NEW u \in Tasks \ {t}, req[u].pc \in {"reread", "replace"}
        PROVE  req'[u].prev \in Tasks /\ Gone(req[u].prev)'
    BY <1>1, <1>2, <1>4, <2>1 DEF Requested, Stays, Gone
  <2> QED BY <1>1, <1>2, <1>3, <2>1 DEF Requested, Alive
<1>8. Listed'
  BY <1>1, <1>2, <1>4 DEF Listed, Stays, Gone
<1>9. Alone'
  BY <1>1, <1>2, <1>3 DEF Alone, Writes, ListWrites
<1> QED BY <1>5, <1>6, <1>7, <1>8, <1>9 DEF Locked

LEMMA ListsKeepLocks ==
  ASSUME ~Overlap, Sound, Locked, NEW x \in Tasks \cup Readers, Lists(x)
  PROVE  Locked'
<1> DEFINE Xs == Tasks \cup Readers
           v == list[x].view
<1>0. /\ agent \in [Tasks -> Processes] /\ list \in [Xs -> Listings] /\ column \in Columns
      /\ list[x] \in Listings /\ v \in Columns /\ list[x].stale \in Columns
      /\ NoTask \notin Tasks /\ Readers \cap Tasks = {}
  BY Names DEF Sound, TypeOK, Listings
<1>1. /\ Claims /\ Owners /\ Requested /\ Listed /\ Alone
  BY DEF Locked
<1>2. /\ task' = task /\ req' = req /\ \A y \in Xs \ {x} : list'[y] = list[y]
  BY <1>0 DEF Lists, AskList, ListRead, find_stale_file_locks, Reconciled, get_locked_files,
     remove_file_lock, bounds
<1>3. \A u \in Tasks : /\ agent'[u].claimed = agent[u].claimed
                       /\ \/ agent'[u].pc = agent[u].pc
                          \/ /\ agent[u].pc \in {"list", "listed"}
                             /\ agent'[u].pc \in {"listed", "work", "handoff"}
  <2>1. CASE agent' = agent
    BY <2>1
  <2>2. CASE AskList(x) /\ x \notin Readers
    <3>1. x \in Tasks /\ agent[x].pc = "list" /\ agent[x] \in Processes
          /\ agent' = [agent EXCEPT ![x] = [agent[x] EXCEPT !.pc = "listed"]]
      BY <1>0, <2>2 DEF AskList
    <3>2. /\ [agent[x] EXCEPT !.pc = "listed"].claimed = agent[x].claimed
          /\ [agent[x] EXCEPT !.pc = "listed"].pc = "listed"
      BY <3>1 DEF Processes
    <3> QED BY <1>0, <3>1, <3>2
  <2>3. CASE get_locked_files(x) /\ x \in Tasks /\ agent[x].pc = "listed"
    <3> DEFINE o == v[agent[x].file]
               g == IF o \in {NoTask, x} THEN [agent[x] EXCEPT !.pc = "work"]
                    ELSE [agent[x] EXCEPT !.pc = "handoff", !.owner = o]
    <3>1. agent' = [agent EXCEPT ![x] = g]
      BY <2>3 DEF get_locked_files
    <3>2. agent[x] \in Processes
      BY <1>0, <2>3
    <3>3. g.claimed = agent[x].claimed /\ g.pc \in {"work", "handoff"}
      <4>1. CASE o \in {NoTask, x}
        BY <3>2, <4>1 DEF Processes
      <4>2. CASE o \notin {NoTask, x}
        BY <3>2, <4>2 DEF Processes
      <4> QED BY <4>1, <4>2
    <3> HIDE DEF g
    <3> QED BY <1>0, <2>3, <3>1, <3>3
  <2> QED BY <2>1, <2>2, <2>3 DEF Lists, AskList, ListRead, find_stale_file_locks, Reconciled,
             get_locked_files, remove_file_lock
<1>4. Stays
  BY <1>2, <1>3, GoneStays
<1>5. Requested'
  <2>1. ASSUME NEW u \in Tasks, req[u].pc \in {"reread", "replace"}
        PROVE  req'[u].prev \in Tasks /\ Gone(req[u].prev)'
    BY <1>1, <1>2, <1>4, <2>1 DEF Requested, Stays, Gone
  <2>2. ASSUME NEW u \in Tasks, req[u].pc \in {"unlock", "free"}
        PROVE  agent'[u].pc = "unlock" /\ req[u].file \notin agent'[u].claimed
    BY <1>1, <1>3, <2>2 DEF Requested
  <2>3. ASSUME NEW u \in Tasks, req[u].pc # "idle" PROVE Alive(u)'
    BY <1>1, <1>3, <2>3 DEF Requested, Alive
  <2> QED BY <1>2, <2>1, <2>2, <2>3 DEF Requested
(* The column loses locks at most, and those that go were nobody's.        *)
<1>6. ASSUME \A e \in Files : \/ column'[e] = column[e]
                             \/ /\ column'[e] = NoTask
                                /\ \E o \in Tasks : column[e] = o /\ Gone(o)
      PROVE  Claims' /\ Owners'
  <2>1. Owners'
    BY <1>1, <1>2, <1>6 DEF Owners
  <2>2. ASSUME NEW u \in Tasks, NEW e \in agent[u].claimed PROVE column'[e] = u
    <3>1. e \in Files /\ column[e] = u
      BY <1>1, FieldsOf DEF Claims, Sound
    <3>2. ~Gone(u)
      BY <1>1, <2>2 DEF Gone, Claims, Sound, Placed, Place
    <3> QED BY <1>6, <3>1, <3>2
  <2>3. \A u \in Tasks : /\ agent'[u].pc # "dead"
                         /\ agent'[u].pc \in {"none", "ended"} => agent'[u].claimed = {}
    BY <1>1, <1>3 DEF Claims
  <2>4. \A u \in Tasks : \A e \in agent'[u].claimed : column'[e] = u
    BY <1>3, <2>2
  <2> QED BY <2>1, <2>3, <2>4 DEF Claims
<1>7. ASSUME \A e \in Files : list'[x].stale[e] # NoTask =>
               list'[x].stale[e] \in Tasks /\ Gone(list'[x].stale[e])
      PROVE  Listed'
  <2>1. \A e \in Files : list'[x].stale[e] # NoTask =>
           list'[x].stale[e] \in Tasks /\ Gone(list[x].stale[e])'
    BY <1>4, <1>7 DEF Stays, Gone
  <2>2. \A y \in Xs \ {x} : \A e \in Files : list'[y].stale[e] # NoTask =>
           list'[y].stale[e] \in Tasks /\ Gone(list[y].stale[e])'
    BY <1>1, <1>2, <1>4 DEF Listed, Stays, Gone
  <2> QED BY <2>1, <2>2 DEF Listed
<1>8. \A e \in Files : list[x].stale[e] # NoTask =>
         list[x].stale[e] \in Tasks /\ Gone(list[x].stale[e])
  BY <1>1 DEF Listed
<1>9. ListWrites(x) => v = column
  BY <1>1 DEF Alone
<1>10. CASE AskList(x)
  <2>1. list'[x] = [NoList EXCEPT !.pc = "find"] /\ column' = column
    BY <1>0, <1>10 DEF AskList
  <2>2. list'[x].pc = "find" /\ \A e \in Files : list'[x].stale[e] = NoTask
    BY <2>1 DEF NoList, NoLocks
  <2>3. Alone'
    BY <1>1, <1>2, <2>1, <2>2 DEF Alone, Writes, ListWrites
  <2> QED BY <1>5, <1>6, <1>7, <2>1, <2>2, <2>3 DEF Locked
<1>11. CASE ListRead(x)
  <2>1. PICK pc : list'[x] = [list[x] EXCEPT !.view = column, !.pc = pc]
    BY <1>0, <1>11 DEF ListRead
  <2>2. list'[x].view = column /\ list'[x].stale = list[x].stale /\ column' = column
        /\ Undisturbed
    BY <1>0, <1>11, <2>1 DEF ListRead, Listings
  <2>3. Alone'
    BY <1>1, <1>2, <2>2 DEF Alone, Writes, ListWrites, Undisturbed
  <2> QED BY <1>5, <1>6, <1>7, <1>8, <2>2, <2>3 DEF Locked
<1>12. CASE find_stale_file_locks(x)
  <2> DEFINE S == [e \in Files |-> IF v[e] # NoTask /\ ~file_lock_owner_is_live(v[e])
                                   THEN v[e] ELSE NoTask]
  <2>1. /\ list'[x] = [list[x] EXCEPT !.pc = "remove", !.stale = S]
        /\ column' = v /\ list[x].pc = "found"
    BY <1>0, <1>12 DEF find_stale_file_locks
  <2>2. list'[x].pc = "remove" /\ list'[x].stale = S
    <3> HIDE DEF S
    <3> QED BY <1>0, <2>1 DEF Listings
  <2>3. ListWrites(x) /\ column' = column
    BY <1>9, <2>1 DEF ListWrites
  <2>4. \A e \in Files : S[e] # NoTask => S[e] \in Tasks /\ Gone(S[e])
    <3> SUFFICES ASSUME NEW e \in Files, S[e] # NoTask
                 PROVE  S[e] \in Tasks /\ Gone(S[e])
      OBVIOUS
    <3>1. S[e] = column[e] /\ column[e] # NoTask /\ ~file_lock_owner_is_live(column[e])
      BY <1>9, <2>3
    <3> HIDE DEF S
    <3> QED BY <1>1, <3>1, DeadOwner
  <2> HIDE DEF S
  <2>5. Alone'
    BY <1>1, <1>2, <2>2, <2>3 DEF Alone, Writes, ListWrites
  <2> QED BY <1>5, <1>6, <1>7, <2>2, <2>3, <2>4, <2>5 DEF Locked
<1>13. CASE Reconciled(x)
  <2>1. list'[x] = [list[x] EXCEPT !.pc = "get"] /\ column' = column
    BY <1>0, <1>13 DEF Reconciled
  <2>2. list'[x].pc = "get" /\ list'[x].stale = list[x].stale
    BY <1>0, <2>1 DEF Listings
  <2>3. Alone'
    BY <1>1, <1>2, <2>1, <2>2 DEF Alone, Writes, ListWrites
  <2> QED BY <1>5, <1>6, <1>7, <1>8, <2>1, <2>2, <2>3 DEF Locked
<1>14. CASE get_locked_files(x)
  <2>1. list'[x] = NoList /\ column' = v /\ list[x].pc = "got"
    BY <1>0, <1>14 DEF get_locked_files
  <2>2. ListWrites(x) /\ column' = column
    BY <1>9, <2>1 DEF ListWrites
  <2>3. list'[x].pc = "idle" /\ \A e \in Files : list'[x].stale[e] = NoTask
    BY <2>1 DEF NoList, NoLocks
  <2>4. Alone'
    BY <1>1, <1>2, <2>2, <2>3 DEF Alone, Writes, ListWrites
  <2> QED BY <1>5, <1>6, <1>7, <2>2, <2>3, <2>4 DEF Locked
<1>15. ASSUME NEW f \in Files, remove_file_lock(x, f) PROVE Locked'
  <2> DEFINE n == [v EXCEPT ![f] = IF @ = list[x].stale[f] THEN NoTask ELSE @]
             r == [list[x] EXCEPT !.pc = "remove", !.stale = [list[x].stale EXCEPT ![f] = NoTask]]
  <2>1. /\ column' = n /\ list' = [list EXCEPT ![x] = r]
        /\ list[x].pc = "erase" /\ list[x].stale[f] # NoTask
    BY <1>15 DEF remove_file_lock
  <2>2. r.pc = "remove" /\ r.stale = [list[x].stale EXCEPT ![f] = NoTask]
    BY <1>0 DEF Listings
  <2>3. ListWrites(x) /\ v = column
    BY <1>9, <2>1 DEF ListWrites
  <2>4. \A e \in Files :
          n[e] # column[e] => n[e] = NoTask /\ column[e] \in Tasks /\ Gone(column[e])
    <3> SUFFICES ASSUME NEW e \in Files, n[e] # column[e]
                 PROVE  n[e] = NoTask /\ column[e] \in Tasks /\ Gone(column[e])
      OBVIOUS
    <3>1. e = f /\ n[e] = NoTask /\ column[e] = list[x].stale[f]
      BY <1>0, <2>3 DEF Columns
    <3>2. list[x].stale[f] \in Tasks /\ Gone(list[x].stale[f])
      BY <1>8, <2>1
    <3> HIDE DEF n
    <3> QED BY <3>1, <3>2
  <2>5. list'[x] = r
    BY <1>0, <2>1
  <2> HIDE DEF n, r
  <2>6. \A e \in Files : list'[x].stale[e] # NoTask => list'[x].stale[e] = list[x].stale[e]
    BY <1>0, <2>2, <2>5 DEF Columns
  <2>7. Alone'
    BY <1>1, <1>2, <2>2, <2>3, <2>5 DEF Alone, Writes, ListWrites
  <2>8. Claims' /\ Owners'
    BY <1>6, <2>1, <2>4
  <2>9. Listed'
    BY <1>7, <1>8, <2>6
  <2> QED BY <1>5, <2>7, <2>8, <2>9 DEF Locked
<1> QED BY <1>10, <1>11, <1>12, <1>13, <1>14, <1>15 DEF Lists

NoneIsKilled == \A t \in Tasks : ~Kill(t)

(* Two agents never edit the same file at once, while no two lock requests *)
(* overlap and no agent is killed, whatever other answers are lost: a      *)
(* stale lock belongs to nobody, and every claim is in the column.         *)
THEOREM FilesHaveOneWriter ==
  ~Overlap => (Spec /\ [][NoneIsKilled]_vars => []OneWriter)
<1> SUFFICES ASSUME ~Overlap PROVE Spec /\ [][NoneIsKilled]_vars => []OneWriter
  OBVIOUS
<1>1. Init => Sound /\ Waiting /\ Carried /\ Locked
  <2> SUFFICES ASSUME Init PROVE Locked
    BY InitKept
  <2>1. /\ \A t \in Tasks : /\ agent[t].pc = "none" /\ agent[t].claimed = {}
                           /\ req[t].pc = "idle"
        /\ \A x \in Tasks \cup Readers :
             list[x].pc = "idle" /\ \A f \in Files : list[x].stale[f] = NoTask
    BY DEF Init, NoAgent, NoReq, NoList, NoLocks
  <2>2. Owners
    BY LocksAssumption DEF Init, Owners, Absent
  <2> QED BY <2>1, <2>2 DEF Locked, Claims, Requested, Listed, Alone, Writes, ListWrites
<1>2. /\ Sound /\ Waiting /\ Carried /\ Locked /\ [Next]_vars /\ [NoneIsKilled]_vars
      => (Sound /\ Waiting /\ Carried /\ Locked)'
  <2> SUFFICES ASSUME Sound, Waiting, Carried, Locked, [Next]_vars, [NoneIsKilled]_vars
               PROVE  Locked'
    BY Kept
  <2>1. ASSUME NEW x \in Tasks \cup Readers, Lists(x) PROVE Locked'
    BY <2>1, ListsKeepLocks
  <2>2. ASSUME NEW t \in Tasks, Locks(t) PROVE Locked'
    BY <2>2, LocksKeepLocks
  <2>3. ASSUME NEW t \in Tasks, Process(t) PROVE Locked'
    BY <2>3, AskKeepsLocks, AgentsKeepLocks DEF Process
  <2>4. ASSUME NEW t \in Tasks, Spawn(t) \/ Finish(t) PROVE Locked'
    BY <2>4, AgentsKeepLocks
  <2>5. ASSUME NEW t \in Tasks, Faults(t), vars' # vars PROVE Locked'
    BY <2>5, AgentsKeepLocks DEF Faults, NoneIsKilled
  <2>6. CASE UNCHANGED vars
    BY <2>6 DEF vars, Locked, Claims, Owners, Requested, Alive, Listed, Gone, Alone, Writes,
       ListWrites
  <2> QED BY <2>1, <2>2, <2>3, <2>4, <2>5, <2>6 DEF Next, Works
<1>3. Locked => OneWriter
  BY DEF Locked, Claims, OneWriter
<1> QED BY <1>1, <1>2, <1>3, PTL DEF Spec

===============================================================================
