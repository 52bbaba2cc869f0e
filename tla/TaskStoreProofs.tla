---------------------------- MODULE TaskStoreProofs ----------------------------
(***************************************************************************)
(* What holds of the tasks table for every set of tasks and threads and    *)
(* every number of requests and restarts.                                  *)
(***************************************************************************)
EXTENDS TaskStore, TLAPS

USE StoreAssumption

AllThreads == Threads \cup {Sweeper}

-------------------------------------------------------------------------------
(* Dependency graphs.                                                      *)

(* A graph without a loop has none after edges were dropped.               *)
LEMMA SubgraphAcyclic ==
  ASSUME NEW g, NEW h, \A t \in Tasks : h[t] \subseteq g[t],
         \A C \in SUBSET Tasks : ~Looped(g, C)
  PROVE  \A C \in SUBSET Tasks : ~Looped(h, C)
BY DEF Looped

(* A search reaches where it starts and what a reached task waits for.     *)
LEMMA ReachableClosed ==
  ASSUME NEW g \in [Tasks -> SUBSET Tasks], NEW t \in Tasks
  PROVE  /\ t \in Reachable(g, t)
         /\ \A v \in Reachable(g, t) : g[v] \subseteq Reachable(g, t)
BY DEF Reachable

(* A list that passes the search leaves no loop anywhere: one without the  *)
(* edited task was there before, one with it is within what t reaches.     *)
LEMMA CheckedIsAcyclic ==
  ASSUME deps \in [Tasks -> SUBSET Tasks], Acyclic,
         NEW t \in Tasks, NEW D \in SUBSET Tasks, ~would_introduce_cycle(t, D)
  PROVE  \A C \in SUBSET Tasks : ~Looped([deps EXCEPT ![t] = D], C)
<1> DEFINE g == [deps EXCEPT ![t] = D]
<1>1. g \in [Tasks -> SUBSET Tasks]
  OBVIOUS
<1>2. \A C \in SUBSET Reachable(g, t) : ~Looped(g, C)
  BY DEF would_introduce_cycle
<1> SUFFICES ASSUME NEW C \in SUBSET Tasks, Looped(g, C)
             PROVE  FALSE
  OBVIOUS
<1>3. CASE t \notin C
  <2>1. \A u \in C : g[u] = deps[u]
    BY <1>3
  <2>2. Looped(deps, C)
    BY <2>1 DEF Looped
  <2> QED BY <2>2 DEF Acyclic
<1>4. CASE t \in C
  <2> DEFINE R == Reachable(g, t)
  <2>1. t \in R /\ \A v \in R : g[v] \subseteq R
    BY <1>1, ReachableClosed
  <2> HIDE DEF R, g
  <2>2. Looped(g, C \cap R)
    BY <1>4, <2>1 DEF Looped
  <2> QED BY <1>2, <2>2 DEF R
<1> QED BY <1>3, <1>4

-------------------------------------------------------------------------------
(* The inductive invariant: besides what the theorems state, one thread at *)
(* most holds the lock, and the list it is about to write is safe.         *)
IInv == TypeOK /\ Acyclic /\ OneLocked /\ LockedIsSafe /\ CompletedIsArchived

(* What holds of a request in progress.                                    *)
RequestTypes(q) ==
  /\ q \in [AllThreads -> Requests]
  /\ \A r \in AllThreads :
       /\ q[r].pc = "locked" => q[r].cur \in Writes
       /\ q[r].pc = "rewire" => q[r].new \in Tasks

(* A request that does not hold the lock.                                  *)
Ready ==
  {q \in Requests : q.pc # "locked" /\ (q.pc = "rewire" => q.new \in Tasks)}

LEMMA WorkType ==
  /\ Idle \in Ready
  /\ \A W \in SUBSET Writes : Work(W) \in Ready
  /\ \A W \in SUBSET Writes, t \in Tasks, n \in Tasks :
       [Work(W) EXCEPT !.old = t, !.new = n] \in Ready
BY DEF Idle, Work, Requests, Ready

LEMMA DepsType == \A t \in Tasks, D \in SUBSET Tasks : Deps(t, D) \in Writes
BY DEF Deps, Row, Writes

(* A thread that gives up the lock, or never had it, leaves the others as  *)
(* they are.                                                               *)
LEMMA Unlocking ==
  ASSUME RequestTypes(req), OneLocked, LockedIsSafe,
         NEW r \in AllThreads, NEW q \in Ready, req' = [req EXCEPT ![r] = q]
  PROVE  /\ RequestTypes(req)'
         /\ OneLocked'
         /\ \A p \in AllThreads : req'[p].pc = "locked" => req[p] = req'[p]
BY DEF RequestTypes, OneLocked, AllThreads, Ready

(* After a write the thread goes on with the next one, or is done.         *)
LEMMA WrittenType ==
  ASSUME RequestTypes(req), NEW r \in AllThreads, Written(r)
  PROVE  \E q \in Ready : req' = [req EXCEPT ![r] = q]
<1> DEFINE q == IF req[r].todo # {}
                THEN [req[r] EXCEPT !.pc = "work", !.cur = NoWrite]
                ELSE IF req[r].new # NoTask
                THEN [req[r] EXCEPT !.pc = "rewire", !.cur = NoWrite]
                ELSE Idle
<1>1. q \in Ready
  <2>1. req[r] \in Requests
    BY DEF RequestTypes
  <2> QED BY <2>1, WorkType DEF Requests, Ready
<1>2. req' = [req EXCEPT ![r] = q]
  BY DEF Written
<1> QED BY <1>1, <1>2

(* Edges that go away take no safety with them.                            *)
LEMMA FewerEdges ==
  ASSUME TypeOK, Acyclic, LockedIsSafe,
         \A t \in Tasks : deps'[t] \subseteq deps[t], deps' \in [Tasks -> SUBSET Tasks],
         \A r \in AllThreads : req'[r].pc = "locked" => req'[r] = req[r]
  PROVE  Acyclic' /\ LockedIsSafe'
<1>1. Acyclic'
  BY SubgraphAcyclic DEF Acyclic
<1>2. ASSUME NEW r \in AllThreads, req'[r].pc = "locked"
      PROVE  \A C \in SUBSET Tasks :
               ~Looped([deps' EXCEPT ![req'[r].cur.task] = req'[r].cur.deps], C)
  <2> DEFINE w == req[r].cur
             g == [deps EXCEPT ![w.task] = w.deps]
             h == [deps' EXCEPT ![w.task] = w.deps]
  <2>1. req'[r] = req[r] /\ req[r].pc = "locked"
    BY <1>2
  <2>2. \A C \in SUBSET Tasks : ~Looped(g, C)
    BY <2>1 DEF LockedIsSafe, AllThreads
  <2>3. \A t \in Tasks : h[t] \subseteq g[t]
    BY DEF TypeOK
  <2> HIDE DEF g, h
  <2>4. \A C \in SUBSET Tasks : ~Looped(h, C)
    BY <2>2, <2>3, SubgraphAcyclic
  <2> QED BY <2>1, <2>4 DEF h
<1> QED BY <1>1, <1>2 DEF LockedIsSafe, AllThreads

-------------------------------------------------------------------------------
(* The parts of TypeOK.                                                    *)
RowTypes ==
  /\ status \in [Tasks -> Statuses \cup {"absent"}]
  /\ owned \in [Tasks -> BOOLEAN]
  /\ deps \in [Tasks -> SUBSET Tasks]
  /\ archive \subseteq Tasks /\ agents \subseteq Tasks
  /\ \A t \in Tasks : status[t] = "absent" => deps[t] = {} /\ ~owned[t]

Counters == requests \in 0..MaxRequests /\ restarts \in 0..MaxRestarts

LEMMA TypeParts == TypeOK <=> RowTypes /\ RequestTypes(req) /\ Counters
BY DEF TypeOK, RowTypes, RequestTypes, Counters, AllThreads

LEMMA TypePartsNext ==
  ASSUME RowTypes', RequestTypes(req)', Counters'
  PROVE  TypeOK'
BY DEF TypeOK, RowTypes, RequestTypes, Counters, AllThreads

(* A step that leaves the rows and takes no lock.                          *)
LEMMA RequestStep ==
  ASSUME IInv, NEW r \in AllThreads, NEW q \in Ready,
         req' = [req EXCEPT ![r] = q], UNCHANGED rows,
         agents' \subseteq Tasks, Counters'
  PROVE  IInv'
<1>1. RequestTypes(req)' /\ OneLocked'
      /\ \A p \in AllThreads : req'[p].pc = "locked" => req[p] = req'[p]
  BY Unlocking, TypeParts DEF IInv
<1>2. RowTypes'
  BY TypeParts DEF IInv, RowTypes, rows
<1>3. Acyclic' /\ LockedIsSafe'
  BY <1>1, <1>2, FewerEdges DEF IInv, rows, RowTypes
<1>4. CompletedIsArchived'
  BY DEF IInv, CompletedIsArchived, rows
<1> QED BY <1>1, <1>2, <1>3, <1>4, TypePartsNext DEF IInv

(* Every request begins with writes that are well formed.                  *)
LEMMA RequestBegins ==
  ASSUME IInv, NEW r \in Threads, Request(r)
  PROVE  IInv'
<1>1. ASSUME NEW q \in Ready, Begin(r, q), agents' \subseteq Tasks
      PROVE  IInv'
  <2>1. Counters'
    BY <1>1, TypeParts DEF IInv, Counters, Begin
  <2> QED BY <1>1, <2>1, RequestStep DEF Begin, AllThreads
<1>2. RowTypes
  BY TypeParts DEF IInv
<1>3. \A w \in Writes : Work({w}) \in Ready
  BY WorkType
<1>4. \A t \in Tasks, D \in SUBSET Tasks, s \in Statuses, o \in BOOLEAN :
        Row(t, D, s, o) \in Writes
  BY DEF Row, Writes
<1>5. PICK t \in Tasks :
        \/ \E D \in SUBSET Tasks : EditDependencies(r, t, D) \/ Create(r, t, D)
        \/ \E s \in Statuses : EditStatus(r, t, s)
        \/ \E n \in Tasks : InsertAfter(r, t, n)
        \/ Retry(r, t)
  BY DEF Request
<1>6. ASSUME NEW D \in SUBSET Tasks, EditDependencies(r, t, D)
      PROVE  IInv'
  <2>1. status[t] \in Statuses /\ owned[t] \in BOOLEAN
    BY <1>2, <1>6 DEF EditDependencies, Live, RowTypes
  <2>2. Begin(r, Work({Row(t, D, status[t], owned[t])})) /\ agents' \subseteq Tasks
    BY <1>2, <1>6 DEF EditDependencies, RowTypes
  <2> QED BY <1>1, <1>3, <1>4, <2>1, <2>2
<1>7. ASSUME NEW D \in SUBSET Tasks, Create(r, t, D)
      PROVE  IInv'
  <2>1. Begin(r, Work({Row(t, D, "pending", FALSE)})) /\ agents' \subseteq Tasks
    BY <1>2, <1>7 DEF Create, RowTypes
  <2> QED BY <1>1, <1>3, <1>4, <2>1 DEF Statuses
<1>8. ASSUME NEW s \in Statuses, EditStatus(r, t, s)
      PROVE  IInv'
  <2>1. Begin(r, Work({Row(t, deps[t], s, owned[t])})) /\ agents' \subseteq Tasks
    BY <1>2, <1>8 DEF EditStatus, RowTypes
  <2>2. deps[t] \in SUBSET Tasks /\ owned[t] \in BOOLEAN
    BY <1>2 DEF RowTypes
  <2> QED BY <1>1, <1>3, <1>4, <2>1, <2>2
<1>9. ASSUME NEW n \in Tasks, InsertAfter(r, t, n)
      PROVE  IInv'
  <2> DEFINE W == {Row(n, {t}, "pending", FALSE)}
             q == [Work(W) EXCEPT !.old = t, !.new = n]
  <2>1. Begin(r, q) /\ agents' \subseteq Tasks
    BY <1>2, <1>9 DEF InsertAfter, RowTypes
  <2>2. W \in SUBSET Writes
    BY <1>4 DEF Statuses
  <2>3. q \in Ready
    BY <2>2, WorkType
  <2> QED BY <1>1, <2>1, <2>3
<1>10. ASSUME Retry(r, t)
       PROVE  IInv'
  <2>1. PICK D \in SUBSET Tasks : Begin(r, Work({Row(t, D, "pending", FALSE)}))
    BY <1>10 DEF Retry
  <2>2. agents' \subseteq Tasks
    BY <1>2, <1>10 DEF Retry, RowTypes
  <2> QED BY <1>1, <1>3, <1>4, <2>1, <2>2 DEF Statuses
<1> QED BY <1>5, <1>6, <1>7, <1>8, <1>9, <1>10

(* A write that was checked under the lock.                                *)
LEMMA WriteStep ==
  ASSUME IInv, NEW r \in AllThreads, req[r].pc = "locked", Written(r),
         deps' \in {deps, [deps EXCEPT ![req[r].cur.task] = req[r].cur.deps]}
  PROVE  RequestTypes(req)' /\ OneLocked' /\ Acyclic' /\ LockedIsSafe'
<1>1. PICK q \in Ready : req' = [req EXCEPT ![r] = q]
  BY WrittenType, TypeParts DEF IInv
<1>2. RequestTypes(req)' /\ OneLocked'
      /\ \A p \in AllThreads : req'[p].pc = "locked" => req[p] = req'[p]
  BY <1>1, Unlocking, TypeParts DEF IInv
<1>3. \A p \in AllThreads : req'[p].pc # "locked"
  <2>1. req'[r].pc # "locked"
    BY <1>1, TypeParts DEF IInv, RequestTypes, Ready
  <2> QED BY <1>2, <2>1 DEF IInv, OneLocked, AllThreads
<1>4. Acyclic'
  BY DEF IInv, Acyclic, LockedIsSafe, AllThreads
<1> QED BY <1>2, <1>3, <1>4 DEF LockedIsSafe, AllThreads

(* A request in progress: lock, refusal, the two writes, the rewiring.     *)
LEMMA RequestServed ==
  ASSUME IInv, NEW r \in AllThreads, Serve(r)
  PROVE  IInv'
<1> USE TypeParts DEF IInv
<1>1. CASE Upsert(r)
  <2> DEFINE w == req[r].cur
  <2>1. w \in Writes /\ w.status # "keep"
    BY <1>1 DEF Upsert, RequestTypes
  <2>2. RequestTypes(req)' /\ OneLocked' /\ Acyclic' /\ LockedIsSafe'
    BY <1>1, WriteStep DEF Upsert
  <2>3. w.task \in Tasks /\ w.status \in Statuses /\ w.owned \in BOOLEAN
        /\ w.deps \in SUBSET Tasks
    BY <2>1 DEF Writes
  <2> HIDE DEF w
  <2>4. /\ status' = [status EXCEPT ![w.task] = w.status]
        /\ owned' = [owned EXCEPT ![w.task] = w.owned]
        /\ deps' = [deps EXCEPT ![w.task] = w.deps]
        /\ archive' = IF w.status = "completed" THEN archive \cup {w.task} ELSE archive
        /\ UNCHANGED <<agents, requests, restarts>>
    BY <1>1 DEF Upsert, w
  <2>5. RowTypes' /\ Counters'
    BY <2>3, <2>4 DEF RowTypes, Counters, Statuses
  <2>6. CompletedIsArchived'
    BY <2>3, <2>4 DEF CompletedIsArchived, RowTypes
  <2> QED BY <2>2, <2>5, <2>6, TypePartsNext
<1>2. CASE UpdateDeps(r)
  <2>1. req[r].cur \in Writes
    BY <1>2 DEF UpdateDeps, RequestTypes
  <2>2. RequestTypes(req)' /\ OneLocked' /\ Acyclic' /\ LockedIsSafe'
    BY <1>2, WriteStep DEF UpdateDeps
  <2>3. RowTypes' /\ Counters'
    BY <1>2, <2>1 DEF UpdateDeps, RowTypes, Counters, Live, Writes
  <2>4. CompletedIsArchived'
    BY <1>2 DEF CompletedIsArchived, UpdateDeps
  <2> QED BY <2>2, <2>3, <2>4, TypePartsNext
<1>3. CASE Rewire(r)
  <2> DEFINE W == {Deps(u, (deps[u] \ {req[r].old}) \cup {req[r].new}) :
                     u \in {v \in Live \ {req[r].new} : req[r].old \in deps[v]}}
  <2>1. req[r].new \in Tasks
    BY <1>3 DEF Rewire, RequestTypes
  <2>2. W \in SUBSET Writes
    <3>1. \A u \in Tasks : Deps(u, (deps[u] \ {req[r].old}) \cup {req[r].new}) \in Writes
      BY <2>1, DepsType DEF RowTypes
    <3> QED BY <3>1 DEF Live
  <2>3. Idle \in Ready /\ Work(W) \in Ready
    BY <2>2, WorkType
  <2>4. /\ req' = [req EXCEPT ![r] = IF W = {} THEN Idle ELSE Work(W)]
        /\ UNCHANGED rows /\ agents' \subseteq Tasks /\ Counters'
    BY <1>3 DEF Rewire, RowTypes, Counters
  <2> HIDE DEF W
  <2> QED BY <2>3, <2>4, RequestStep
<1>4. ASSUME NEW w \in req[r].todo, Lock(r, w)
      PROVE  IInv'
  <2>1. w \in Writes /\ req[r] \in Requests
    BY <1>4 DEF RequestTypes, Requests
  <2>2. RowTypes' /\ Counters' /\ Acyclic' /\ CompletedIsArchived' /\ deps' = deps
    BY <1>4 DEF Lock, rows, RowTypes, Counters, Acyclic, CompletedIsArchived
  <2> DEFINE q == [req[r] EXCEPT !.pc = "locked", !.cur = w, !.todo = @ \ {w}]
  <2>3. q \in Requests /\ q.cur = w /\ q.pc = "locked"
    BY <2>1 DEF Requests
  <2>4. req' = [req EXCEPT ![r] = q]
    BY <1>4 DEF Lock
  <2> HIDE DEF q
  <2>5. RequestTypes(req)'
    BY <2>1, <2>3, <2>4 DEF RequestTypes
  <2>6. \A p \in AllThreads : req'[p].pc = "locked" => p = r /\ req'[p].cur = w
    BY <1>4, <2>3, <2>4 DEF Lock, Unlocked, RequestTypes, AllThreads
  <2>7. OneLocked'
    BY <2>6 DEF OneLocked, AllThreads
  <2>8. \A C \in SUBSET Tasks : ~Looped([deps EXCEPT ![w.task] = w.deps], C)
    <3>1. w.task \in Tasks /\ w.deps \in SUBSET Tasks
          /\ ~would_introduce_cycle(w.task, w.deps)
      BY <1>4, <2>1 DEF Lock, validate_task_dependencies, Writes
    <3> QED BY <3>1, CheckedIsAcyclic DEF RowTypes
  <2>9. LockedIsSafe'
    BY <2>2, <2>6, <2>8 DEF LockedIsSafe, AllThreads
  <2> QED BY <2>2, <2>5, <2>7, <2>9, TypePartsNext
<1>5. ASSUME NEW w \in req[r].todo, Refuse(r, w)
      PROVE  IInv'
  <2>1. Idle \in Ready
    BY WorkType
  <2>2. req' = [req EXCEPT ![r] = Idle] /\ UNCHANGED rows /\ agents' \subseteq Tasks
        /\ Counters'
    BY <1>5 DEF Refuse, RowTypes, Counters
  <2> QED BY <2>1, <2>2, RequestStep
<1> QED BY <1>1, <1>2, <1>3, <1>4, <1>5 DEF Serve

(* The sweep plans shorter lists.                                          *)
LEMMA SweepStep ==
  ASSUME IInv, Sweep
  PROVE  IInv'
<1> USE TypeParts DEF IInv
<1> DEFINE W == {Deps(t, deps[t] \ Ghosts(t)) :
                   t \in {u \in Tasks : status[u] \in Swept /\ Ghosts(u) # {}}}
<1>1. W \in SUBSET Writes
  <2>1. \A t \in Tasks : Deps(t, deps[t] \ Ghosts(t)) \in Writes
    BY DepsType DEF RowTypes
  <2> QED BY <2>1
<1>2. Work(W) \in Ready
  BY <1>1, WorkType
<1>3. /\ req' = [req EXCEPT ![Sweeper] = Work(W)]
      /\ UNCHANGED rows /\ agents' \subseteq Tasks /\ Counters'
  BY DEF Sweep, RowTypes, Counters
<1> HIDE DEF W
<1> QED BY <1>2, <1>3, RequestStep DEF AllThreads

(* A change of status leaves the dependency lists and the requests.        *)
LEMMA StatusStep ==
  ASSUME IInv, NEW t \in Tasks, NEW s \in Statuses, NEW o \in BOOLEAN,
         task_update_status(t, s, o), agents' \subseteq Tasks, Counters'
  PROVE  IInv'
<1> USE TypeParts DEF IInv
<1>1. deps' = deps /\ req' = req
  BY DEF task_update_status
<1>2. RowTypes'
  BY DEF task_update_status, RowTypes, Live, Statuses
<1>3. RequestTypes(req)' /\ OneLocked' /\ Acyclic' /\ LockedIsSafe'
  BY <1>1 DEF RequestTypes, OneLocked, Acyclic, LockedIsSafe
<1>4. CompletedIsArchived'
  BY DEF task_update_status, CompletedIsArchived, RowTypes, Live
<1> QED BY <1>2, <1>3, <1>4, TypePartsNext

(* Deleting a row drops edges.                                             *)
LEMMA DeleteStep ==
  ASSUME IInv, NEW t \in Tasks, Delete(t)
  PROVE  IInv'
<1> USE TypeParts DEF IInv
<1>1. RowTypes' /\ Counters' /\ \A u \in Tasks : deps'[u] \subseteq deps[u]
  BY DEF Delete, RowTypes, Counters
<1>2. RequestTypes(req)' /\ OneLocked' /\ req' = req
  BY DEF Delete, RequestTypes, OneLocked
<1>3. Acyclic' /\ LockedIsSafe'
  BY <1>1, <1>2, FewerEdges DEF RowTypes
<1>4. CompletedIsArchived'
  BY DEF Delete, CompletedIsArchived, RowTypes
<1> QED BY <1>1, <1>2, <1>3, <1>4, TypePartsNext

(* A new controller has no requests.                                       *)
LEMMA RestartStep ==
  ASSUME IInv, Restart
  PROVE  IInv'
<1> USE TypeParts DEF IInv
<1>1. RowTypes' /\ Counters' /\ deps' = deps
  BY DEF Restart, RowTypes, Counters
<1>2. \A r \in AllThreads : req'[r] = Idle /\ req'[r].pc # "locked"
  BY DEF Restart, AllThreads, Idle
<1>3. RequestTypes(req)'
  BY <1>2, WorkType DEF Restart, RequestTypes, AllThreads, Ready
<1>4. OneLocked' /\ LockedIsSafe' /\ Acyclic'
  BY <1>1, <1>2 DEF OneLocked, LockedIsSafe, Acyclic, AllThreads
<1>5. CompletedIsArchived'
  BY DEF Restart, CompletedIsArchived, RowTypes
<1> QED BY <1>1, <1>3, <1>4, <1>5, TypePartsNext

LEMMA InitIInv == Init => IInv
<1> SUFFICES ASSUME Init PROVE IInv
  OBVIOUS
<1>1. RowTypes /\ Counters
  BY DEF Init, RowTypes, Counters, Statuses
<1>2. \A r \in AllThreads : req[r] = Idle /\ req[r].pc # "locked"
  BY DEF Init, AllThreads, Idle
<1>3. RequestTypes(req)
  BY <1>2, WorkType DEF Init, RequestTypes, AllThreads, Ready
<1>4. OneLocked /\ LockedIsSafe /\ Acyclic /\ CompletedIsArchived
  BY <1>2 DEF Init, OneLocked, LockedIsSafe, Acyclic, CompletedIsArchived, AllThreads
<1> QED BY <1>1, <1>3, <1>4, TypeParts DEF IInv

(* Every step of every thread preserves the invariant.                     *)
LEMMA Step == IInv /\ [Next]_vars => IInv'
<1> SUFFICES ASSUME IInv, [Next]_vars PROVE IInv'
  OBVIOUS
<1>1. RowTypes /\ Counters
  BY TypeParts DEF IInv
<1>2. ASSUME NEW r \in Threads, Request(r) PROVE IInv'
  BY <1>2, RequestBegins
<1>3. ASSUME NEW r \in AllThreads, Serve(r) PROVE IInv'
  BY <1>3, RequestServed
<1>4. CASE Sweep
  BY <1>4, SweepStep
<1>5. ASSUME NEW t \in Tasks, Delete(t) PROVE IInv'
  BY <1>5, DeleteStep
<1>6. ASSUME NEW t \in Tasks, Spawn(t) PROVE IInv'
  <2>1. Counters' /\ agents' \subseteq Tasks
    BY <1>1, <1>6 DEF Spawn, Counters, RowTypes, task_update_status
  <2> QED BY <1>1, <1>6, <2>1, StatusStep DEF Spawn, Statuses, RowTypes
<1>7. ASSUME NEW t \in Tasks, Watchdog(t) PROVE IInv'
  <2>1. Counters' /\ agents' \subseteq Tasks
    BY <1>1, <1>7 DEF Watchdog, Counters, RowTypes, task_update_status
  <2> QED BY <1>1, <1>7, <2>1, StatusStep DEF Watchdog, Statuses, RowTypes
<1>8. ASSUME NEW t \in Tasks, NEW s \in {"pending", "cancelled"}, Operate(t, s)
      PROVE  IInv'
  <2>1. Counters' /\ agents' \subseteq Tasks
    BY <1>1, <1>8 DEF Operate, Counters, RowTypes, task_update_status
  <2> QED BY <1>1, <1>8, <2>1, StatusStep DEF Operate, Statuses, RowTypes
<1>9. ASSUME NEW t \in Tasks, NEW s \in {"completed", "failed"}, Finish(t, s)
      PROVE  IInv'
  <2>1. Counters' /\ agents' \subseteq Tasks
    BY <1>1, <1>9 DEF Finish, Counters, RowTypes, task_update_status
  <2> QED BY <1>1, <1>9, <2>1, StatusStep DEF Finish, Statuses, RowTypes
<1>10. CASE Restart
  BY <1>10, RestartStep
<1>11. CASE UNCHANGED vars
  BY <1>11 DEF IInv, vars, TypeOK, Acyclic, OneLocked, LockedIsSafe, CompletedIsArchived
<1> QED BY <1>2, <1>3, <1>4, <1>5, <1>6, <1>7, <1>8, <1>9, <1>10, <1>11
        DEF Next, AllThreads

LEMMA Invariance == Spec => []IInv
BY InitIInv, Step, PTL DEF Spec

-------------------------------------------------------------------------------
(* The table and the requests keep their types.                            *)
THEOREM TypeCorrect == Spec => []TypeOK
BY Invariance, PTL DEF IInv

(* No sequence of edits, insertions, deletions, sweeps, retries and        *)
(* restarts, however many threads interleave, closes a circle of tasks     *)
(* that wait for each other: the check and the write are under one lock.   *)
THEOREM NoDependencyCycle == Spec => []Acyclic
BY Invariance, PTL DEF IInv

(* A task that shows as completed is in the permanent record, so that its  *)
(* row may be pruned.                                                      *)
THEOREM CompletedIsRecorded == Spec => []CompletedIsArchived
BY Invariance, PTL DEF IInv
===============================================================================
