---------------------------- MODULE RecoveryProofs -----------------------------
(***************************************************************************)
(* Research is bounded and releases the task it was for: for all tasks,    *)
(* threads, limits and pauses of the project.                              *)
(*                                                                         *)
(* The finish threads of a task and of its research each write what they   *)
(* read steps before.  The invariant says that for every task at most one  *)
(* feeder is out, that the task waits for it, and that the feeders that    *)
(* are back are counted.                                                   *)
(***************************************************************************)
EXTENDS Recovery, FiniteSetTheorems, WellFoundedInduction, TLAPS

Roles == {"plain", "recovery", "escalated", "continuation", "bug", "feeder"}
Places == {"idle", "complete", "stale", "validate", "apply", "inject", "judge", "exhaust",
           "soft", "feed", "create", "hold", "dependents", "cancel", "review", "prune",
           "reparent", "terminal", "sweep", "head"}
Perhaps == Ids \cup {NoTask}

RowTypes == [st : {"absent", "pending", "in_progress", "completed", "failed", "cancelled"},
             att : Nat, max : Nat, deps : SUBSET Ids, type : Types, role : Roles,
             of : Perhaps, root : Perhaps, depth : Nat, cycles : Nat, chain : Nat]
ThreadTypes == [pc : Places, t : Perhaps, x : Perhaps, from : SUBSET Ids, todo : SUBSET Ids,
                kin : SUBSET Ids, lock : Perhaps,
                then : {"idle", "cancel", "head", "sweep"}, deps : SUBSET Ids,
                cycles : Nat, depth : Nat, exhausted : BOOLEAN, seen : SUBSET Ids]

(* Whose origin is known, and who turns tasks over to whom.                *)
RowsOK ==
  /\ row \in [Ids -> RowTypes]
  /\ \A t \in Ids : /\ row[t].role # "plain" => row[t].of \in Ids
                    /\ row[t].st = "absent" => row[t].role = "plain"
ThreadsOK ==
  /\ fin \in [Finishers -> ThreadTypes]
  /\ \A h \in Finishers :
       /\ fin[h].pc = "idle" <=> fin[h].t = NoTask
       /\ fin[h].pc \in {"hold", "inject", "reparent", "sweep"} => fin[h].x \in Ids
       /\ fin[h].pc \in {"exhaust", "apply"} => row[fin[h].t].role = "feeder"
       /\ fin[h].pc = "review" => fin[h].then \in {"idle", "cancel"}

TypeOK ==
  /\ RowsOK /\ ThreadsOK /\ head \in Perhaps /\ live \subseteq Ids
  /\ paused \in BOOLEAN /\ skips \in BOOLEAN /\ renewed \in BOOLEAN
  /\ fails \in Nat /\ resets \in Nat /\ pauses \in Nat /\ cleanups \in Nat /\ restarts \in Nat

(* Neither an operator nor a restart has taken tasks back to their start.  *)
Calm == resets = 0 /\ restarts = 0 /\ cleanups = 0

-------------------------------------------------------------------------------
About(h, t) == fin[h].t = t
Handled(t) == \E h \in Finishers : About(h, t)

Feeds(t) ==
  /\ row[t].type \in {"bug", "feature"} /\ row[t].role # "feeder"
  /\ row[t].role = "recovery" => row[t].type = "bug"

Feeder(f, t) == row[f].role = "feeder" /\ row[f].of = t

(* The result of f is not in the row of its task yet.                      *)
Out(f) == row[f].st \in {"pending", "in_progress"} \/ f \in live \/ Handled(f)

(* What a row says of the task's origin, and never changes.                *)
Origins ==
  /\ \A t \in Tasks : row[t].role = "plain" /\ row[t].root = NoTask /\ row[t].st # "absent"
  /\ \A t \in Ids : row[t].st = "absent" =>
       row[t].role = "plain" /\ row[t].root = NoTask /\ t \notin live /\ ~Handled(t)
  /\ \A t \in Ids : row[t].role \notin {"plain"} =>
       row[t].of \in Ids /\ row[row[t].of].st # "absent"
  /\ \A f \in Ids : row[f].role = "feeder" =>
       row[f].type = "audit" /\ row[f].root = NoTask /\ Feeds(row[f].of)
  /\ \A c \in Ids : row[c].role = "continuation" =>
       row[row[c].of].role = "recovery" /\ row[row[c].of].type # "bug"

(* A task is pending, or has one agent, or a finish thread is about it.    *)
OneHand ==
  /\ \A t \in Ids : row[t].st = "pending" => t \notin live /\ ~Handled(t)
  /\ \A t \in live : ~Handled(t)
  /\ \A h, g \in Finishers : fin[h].t = fin[g].t /\ fin[h].t # NoTask => h = g
  /\ \A h \in Finishers : fin[h].pc \notin {"idle", "complete", "judge"} =>
       row[fin[h].t].st # "in_progress"
  /\ \A f \in live : row[f].role = "feeder" => row[f].st = "in_progress"

(* Where the threads about feeders are, and those about other tasks.       *)
Way(h) ==
  LET f == fin[h]  t == f.t IN
  /\ f.pc = "idle" => f = Idle
  /\ f.then \in {"idle", "cancel"} /\ f.pc \notin {"sweep", "head"}
  /\ t \in Ids /\ row[t].role = "feeder" =>
       f.pc \in {"complete", "stale", "judge", "exhaust", "apply", "inject"}
  /\ f.pc \in {"exhaust", "apply", "inject"} => row[t].role = "feeder"
  /\ f.pc \in {"stale", "apply", "inject"} /\ row[t].role = "feeder" =>
       row[t].st \in {"completed", "cancelled"}
  /\ f.pc \in {"feed", "create", "hold"} => Feeds(t)
  /\ f.pc \in {"feed", "create"} => f.cycles = row[t].cycles /\ row[t].st # "completed"
  /\ f.pc = "create" => f.cycles < MAX_RESEARCH_FEEDER_CYCLES
  /\ f.pc = "terminal" => row[t].role = "recovery" /\ row[t].type # "bug"
  /\ f.pc \in {"prune", "reparent"} => f.from = {t}
  /\ f.pc \in {"prune", "reparent"} /\ f.x # NoTask =>
       row[f.x].st # "absent" /\ row[f.x].role # "feeder"
  /\ f.pc = "reparent" => f.x # NoTask
  /\ f.pc \in {"stale", "prune"} =>
       \A r \in f.todo : row[r].st # "absent" /\ row[r].role # "feeder"
Ways == \A h \in Finishers : Way(h)

(* A task that has a bug or a continuation is never worked at again.       *)
Succeeded ==
  \A b, t \in Ids : row[b].role \in {"bug", "continuation"} /\ row[b].of = t =>
    /\ t \notin live /\ row[t].st \notin {"pending", "in_progress"}
    /\ \A f \in Ids : Feeder(f, t) => ~Out(f)
    /\ \A h \in Finishers : About(h, t) =>
         fin[h].pc \in {"reparent", "review", "prune", "cancel"}

(* At most one feeder of a task is out, none while the task is worked at   *)
(* or complete, and a pending task waits for it.                           *)
OneOut ==
  \A t, f \in Ids : Feeder(f, t) /\ Out(f) =>
    /\ \A g \in Ids : Feeder(g, t) /\ Out(g) => g = f
    /\ t \notin live /\ row[t].st \notin {"in_progress", "completed"}
    /\ row[t].st = "pending" => f \in row[t].deps
    /\ \A h \in Finishers : About(h, t) =>
         fin[h].pc = "hold" /\ fin[h].x = f /\ ~Handled(f) /\ (f \in live => f \in fin[h].seen)

(* Who holds a task back has just made its feeder, or found one of another *)
(* task.                                                                   *)
Holds ==
  \A h \in Finishers : fin[h].pc = "hold" =>
    /\ fin[h].x \in Ids /\ row[fin[h].x].role = "feeder"
    /\ Feeder(fin[h].x, fin[h].t) => row[fin[h].x].st \in {"pending", "in_progress"}

(* What a thread has read of the task the research was for is still so.    *)
Inject(h) ==
  fin[h].pc = "inject" =>
    LET f == fin[h]  o == f.x IN
    /\ o = row[f.t].of /\ f.cycles = row[o].cycles + 1
    /\ f.t \notin f.deps
    /\ \A g \in f.deps : Feeder(g, o) => row[g].st = "completed"
Injects == \A h \in Finishers : Inject(h)

(* The feeders that are back are counted.                                  *)
Back(t) == {f \in Ids : Feeder(f, t) /\ ~Out(f)}
AllOf(t) == {f \in Ids : Feeder(f, t)}
Counted ==
  \A t \in Ids : /\ Cardinality(Back(t)) <= row[t].cycles
                 /\ Cardinality(AllOf(t)) <= MAX_RESEARCH_FEEDER_CYCLES

(* A task depends on no feeder of its own that gave up.                    *)
Released ==
  \A t, f \in Ids : Feeder(f, t) /\ f \in row[t].deps => Out(f) \/ row[f].st = "completed"

Research ==
  /\ Origins /\ OneHand /\ Ways /\ Succeeded /\ OneOut /\ Holds /\ Injects /\ Counted
  /\ Released

(* The write of a result closes no cycle.                                  *)
ResultsWritable ==
  \A h \in Finishers : fin[h].pc = "inject" => Writable(fin[h].x, fin[h].deps)

-------------------------------------------------------------------------------
(* What the definitions choose.                                            *)

LEMMA LeastExists ==
  ASSUME NEW S \in SUBSET Nat, S # {} PROVE \E n \in S : \A m \in S : n <= m
<1>1. \E n \in S : \A m \in S : ~ (<<m, n>> \in OpToRel(<, Nat))
  BY NatLessThanWellFounded, WFMin, Zenon
<1>2. PICK n \in S : \A m \in S : ~ (m < n)
  BY <1>1, Zenon DEF OpToRel
<1> QED BY <1>2

LEMMA GreatestExists ==
  ASSUME NEW k \in Nat, NEW S \in SUBSET (1..k), S # {}
  PROVE  \E n \in S : \A m \in S : m <= n
<1> DEFINE T == {k - n : n \in S}
<1>1. T \in SUBSET Nat /\ T # {}
  <2> PICK n \in S : TRUE
    OBVIOUS
  <2>1. k - n \in T
    OBVIOUS
  <2>2. \A m \in S : k - m \in Nat
    OBVIOUS
  <2> QED BY <2>1, <2>2
<1>2. PICK d \in T : \A e \in T : d <= e
  BY <1>1, LeastExists
<1>3. PICK n \in S : d = k - n
  BY <1>2
<1>4. \A m \in S : m <= n
  <2> TAKE m \in S
  <2>1. k - n <= k - m
    BY <1>2, <1>3
  <2> QED BY <2>1
<1> QED BY <1>4

LEMMA FreshIsFree ==
  ASSUME Free # {} PROVE Fresh \in Free /\ Fresh \in New /\ row[Fresh].st = "absent"
<1>1. Free \in SUBSET Nat
  BY RecoveryAssumption DEF Free, New
<1>2. \E n \in Free : \A m \in Free : n <= m
  BY <1>1, LeastExists
<1> QED BY <1>2 DEF Fresh, Free

LEMMA OldestIsOne ==
  ASSUME NEW S \in SUBSET Ids, S # {} PROVE Oldest(S) \in S
<1>1. \E t \in S : \A u \in S : Older(t, u)
  <2>1. CASE S \cap Tasks # {}
    BY <2>1 DEF Older
  <2>2. CASE S \cap Tasks = {}
    <3>1. S \in SUBSET Nat
      BY <2>2 DEF Ids, New
    <3> QED BY <2>2, <3>1, LeastExists DEF Older
  <2> QED BY <2>1, <2>2
<1> QED BY <1>1 DEF Oldest

LEMMA NewestIsOne ==
  ASSUME NEW S \in SUBSET Ids, S # {} PROVE Newest(S) \in S
<1>1. \E t \in S : \A u \in S : Older(u, t)
  <2>1. CASE S \cap New = {}
    BY <2>1 DEF Older, Ids
  <2>2. CASE S \cap New # {}
    <3>1. S \cap New \in SUBSET (1..MaxNew) /\ MaxNew \in Nat
      BY RecoveryAssumption DEF New
    <3>2. PICK n \in S \cap New : \A m \in S \cap New : m <= n
      BY <2>2, <3>1, GreatestExists
    <3>3. \A u \in S : Older(u, n)
      BY <3>2, RecoveryAssumption DEF Older, Ids
    <3> QED BY <3>2, <3>3
  <2> QED BY <2>1, <2>2
<1> QED BY <1>1 DEF Newest

LEMMA BestIsOne ==
  ASSUME NEW S \in SUBSET Ids, S # {} PROVE Best(S) \in S
BY OldestIsOne DEF Best

LEMMA GreatestOfThree ==
  ASSUME NEW a \in Nat, NEW b \in Nat, NEW c \in Nat PROVE Max({a, b, c}) \in Nat
<1> DEFINE S == {a, b, c}
<1>1. \E x \in S : \A y \in S : x >= y
  OBVIOUS
<1>2. Max(S) \in S
  BY <1>1 DEF Max
<1> QED BY <1>2

LEMMA Constants ==
  /\ NoTask \notin Ids /\ New \subseteq Ids /\ Tasks \subseteq Ids /\ Tasks \cap New = {}
  /\ MaxNew \in Nat /\ MAX_RESEARCH_FEEDER_CYCLES \in Nat
  /\ MaxAttempts \in Nat /\ FeederAttempts \in Nat
  /\ IsFiniteSet(New) /\ IsFiniteSet(Ids)
<1>1. NoTask \notin Ids /\ New \subseteq Ids /\ Tasks \subseteq Ids /\ Tasks \cap New = {}
  BY RecoveryAssumption DEF Ids
<1>2. /\ MaxNew \in Nat /\ MAX_RESEARCH_FEEDER_CYCLES \in Nat
      /\ MaxAttempts \in Nat /\ FeederAttempts \in Nat
  BY RecoveryAssumption
<1>3. IsFiniteSet(New)
  BY <1>2, FS_Interval DEF New
<1>4. IsFiniteSet(Ids)
  BY <1>3, RecoveryAssumption, FS_Union DEF Ids
<1> QED BY <1>1, <1>2, <1>3, <1>4

-------------------------------------------------------------------------------
(* Types.                                                                  *)

Statuses == {"absent", "pending", "in_progress", "completed", "failed", "cancelled"}

LEMMA RowOf ==
  ASSUME RowsOK, NEW t \in Ids
  PROVE  /\ row[t] \in RowTypes
         /\ row[t].st \in Statuses /\ row[t].att \in Nat /\ row[t].max \in Nat
         /\ row[t].deps \subseteq Ids /\ row[t].type \in Types /\ row[t].role \in Roles
         /\ row[t].of \in Perhaps /\ row[t].root \in Perhaps
         /\ row[t].depth \in Nat /\ row[t].cycles \in Nat /\ row[t].chain \in Nat
BY DEF RowsOK, RowTypes, Statuses

LEMMA RowWith ==
  ASSUME NEW r \in RowTypes
  PROVE  /\ \A s \in Statuses : [r EXCEPT !.st = s] \in RowTypes
         /\ \A s \in Statuses, n \in Nat : [r EXCEPT !.st = s, !.att = n] \in RowTypes
         /\ \A D \in SUBSET Ids : [r EXCEPT !.deps = D] \in RowTypes
         /\ \A n \in Nat : [r EXCEPT !.cycles = n] \in RowTypes
         /\ \A n \in Nat : [r EXCEPT !.max = n] \in RowTypes
BY DEF RowTypes, Statuses

LEMMA ThreadOf ==
  ASSUME ThreadsOK, NEW h \in Finishers
  PROVE  /\ fin[h] \in ThreadTypes
         /\ fin[h].pc \in Places /\ fin[h].t \in Perhaps /\ fin[h].x \in Perhaps
         /\ fin[h].from \subseteq Ids /\ fin[h].todo \subseteq Ids
         /\ fin[h].kin \subseteq Ids /\ fin[h].lock \in Perhaps
         /\ fin[h].then \in {"idle", "cancel", "head", "sweep"} /\ fin[h].deps \subseteq Ids
         /\ fin[h].cycles \in Nat /\ fin[h].depth \in Nat /\ fin[h].seen \subseteq Ids
         /\ fin[h].pc # "idle" => fin[h].t \in Ids
BY DEF ThreadsOK, ThreadTypes, Perhaps

LEMMA IdleType == Idle \in ThreadTypes
BY DEF ThreadTypes, Idle, Places, Perhaps

LEMMA TaskType ==
  ASSUME NEW type \in Types, NEW role \in Roles, NEW of \in Perhaps, NEW D \in SUBSET Ids
  PROVE  Task(type, role, of, D) \in RowTypes
BY Constants DEF Task, Absent, RowTypes, Perhaps, Types, Roles

FeedersStay == \A u \in Ids : row[u].role = "feeder" => row'[u].role = "feeder"

(* A row is written that stays what it is, or is new.                      *)
LEMMA PutRow ==
  ASSUME RowsOK, NEW t \in Ids, NEW r \in RowTypes,
         row' = [row EXCEPT ![t] = r],
         \/ r.role = row[t].role /\ r.of = row[t].of
         \/ row[t].role # "feeder" /\ r.of \in Ids,
         r.st # "absent" \/ (row[t].st = "absent" /\ r.role = row[t].role)
  PROVE  RowsOK' /\ FeedersStay
BY DEF RowsOK, FeedersStay

LEMMA SetsRow ==
  ASSUME RowsOK, NEW t \in Ids, NEW s \in Statuses \ {"absent"}, Set(t, s)
  PROVE  RowsOK' /\ FeedersStay
<1>1. row' = [row EXCEPT ![t] = [row[t] EXCEPT !.st = s]]
  BY DEF Set
<1>2. [row[t] EXCEPT !.st = s] \in RowTypes
  BY RowOf, RowWith
<1>3. /\ [row[t] EXCEPT !.st = s].role = row[t].role
      /\ [row[t] EXCEPT !.st = s].of = row[t].of
      /\ [row[t] EXCEPT !.st = s].st = s
  BY RowOf DEF RowTypes
<1> QED BY <1>1, <1>2, <1>3, PutRow

LEMMA RowsStay == ASSUME RowsOK, UNCHANGED row PROVE RowsOK' /\ FeedersStay
BY DEF RowsOK, FeedersStay

LEMMA PutThread ==
  ASSUME ThreadsOK, FeedersStay, NEW h \in Finishers, NEW f \in ThreadTypes, Goes(h, f),
         f.pc # "idle", f.t \in Ids,
         f.pc \in {"hold", "inject", "reparent", "sweep"} => f.x \in Ids,
         f.pc \in {"exhaust", "apply"} => row'[f.t].role = "feeder",
         f.pc = "review" => f.then \in {"idle", "cancel"}
  PROVE  ThreadsOK'
<1>1. fin' \in [Finishers -> ThreadTypes]
  BY DEF ThreadsOK, Goes
<1>2. fin'[h] = f /\ \A g \in Finishers \ {h} : fin'[g] = fin[g]
  BY DEF ThreadsOK, Goes
<1>3. \A g \in Finishers : fin[g].pc # "idle" => fin[g].t \in Ids
  BY ThreadOf
<1> QED BY <1>1, <1>2, <1>3, Constants DEF ThreadsOK, FeedersStay

LEMMA Finishes ==
  ASSUME ThreadsOK, FeedersStay, NEW h \in Finishers, Done(h) PROVE ThreadsOK'
<1>1. fin' \in [Finishers -> ThreadTypes]
  BY IdleType DEF ThreadsOK, Done
<1>2. fin'[h] = Idle /\ \A g \in Finishers \ {h} : fin'[g] = fin[g]
  BY DEF ThreadsOK, Done
<1>3. \A g \in Finishers : fin[g].pc # "idle" => fin[g].t \in Ids
  BY ThreadOf
<1> QED BY <1>1, <1>2, <1>3 DEF ThreadsOK, FeedersStay, Idle

(* A thread goes on about its task, from one place to another.             *)
LEMMA GoesOn ==
  ASSUME ThreadsOK, FeedersStay, NEW h \in Finishers, NEW p \in Places,
         fin[h].pc # "idle", p \notin {"idle", "review"}, Go(h, p),
         p \in {"hold", "inject", "reparent", "sweep"} => fin[h].x \in Ids,
         p \in {"exhaust", "apply"} => row'[fin[h].t].role = "feeder"
  PROVE  ThreadsOK'
<1> DEFINE f == [fin[h] EXCEPT !.pc = p]
<1>1. f \in ThreadTypes /\ f.pc = p /\ f.t = fin[h].t /\ f.x = fin[h].x
  BY ThreadOf DEF ThreadTypes
<1> QED BY <1>1, ThreadOf, PutThread DEF Go

(* A thread has done one of the tasks on its list.                         *)
LEMMA Ticks ==
  ASSUME ThreadsOK, FeedersStay, NEW h \in Finishers, NEW D \in SUBSET Ids,
         fin[h].pc # "idle", Goes(h, [fin[h] EXCEPT !.todo = D])
  PROVE  ThreadsOK'
<1> DEFINE f == [fin[h] EXCEPT !.todo = D]
<1>1. /\ f \in ThreadTypes /\ f.pc = fin[h].pc /\ f.t = fin[h].t /\ f.x = fin[h].x
      /\ f.then = fin[h].then
  BY ThreadOf DEF ThreadTypes
<1>2. /\ f.pc \in {"hold", "inject", "reparent", "sweep"} => f.x \in Ids
      /\ f.pc \in {"exhaust", "apply"} => row'[f.t].role = "feeder"
      /\ f.pc = "review" => f.then \in {"idle", "cancel"}
  BY <1>1, ThreadOf DEF ThreadsOK, FeedersStay
<1> QED BY <1>1, <1>2, ThreadOf, PutThread

(* A thread begins to turn tasks over.                                     *)
LEMMA HandsOver ==
  ASSUME ThreadsOK, FeedersStay, NEW h \in Finishers, NEW S \in SUBSET Ids, NEW x \in Ids,
         NEW D \in SUBSET Ids, fin[h].pc # "idle", Hands(h, S, x, D)
  PROVE  ThreadsOK'
<1> DEFINE g == [fin[h] EXCEPT !.pc = "reparent", !.from = S, !.x = x, !.todo = D,
                               !.kin = {}, !.deps = {}, !.depth = 0, !.cycles = 0]
<1>1. g \in ThreadTypes /\ g.pc = "reparent" /\ g.t = fin[h].t /\ g.x = x
  <2> PICK f \in ThreadTypes : f = fin[h]
    BY ThreadOf
  <2> QED BY DEF ThreadTypes, Places, Perhaps
<1> QED BY <1>1, ThreadOf, PutThread DEF Hands

LEMMA Creates ==
  ASSUME RowsOK, Free # {}, NEW r \in RowTypes, r.st # "absent", r.of \in Ids,
         row' = [row EXCEPT ![Fresh] = r]
  PROVE  RowsOK' /\ FeedersStay
<1>1. Fresh \in Ids
  BY FreshIsFree, Constants
<1>2. PICK b \in Ids : b = Fresh
  BY <1>1
<1>3. row[b].role = "plain"
  BY <1>2, FreshIsFree DEF RowsOK
<1>4. row' = [row EXCEPT ![b] = r]
  BY <1>2
<1> QED BY <1>3, <1>4 DEF RowsOK, FeedersStay

-------------------------------------------------------------------------------
(* A step of a thread changes rows, the head of the project and itself.    *)
StepTypes == RowsOK' /\ ThreadsOK' /\ head' \in Perhaps

LEMMA TransferTypes ==
  ASSUME TypeOK, NEW h \in Finishers,
         \/ \E u \in Ids : Reparent(h, u) \/ CancelStale(h, u) \/ Prune(h, u)
         \/ Reparented(h) \/ Complete(h) \/ Credit(h)
  PROVE  StepTypes
<1> USE DEF TypeOK, At
<1> DEFINE f == fin[h]   t == fin[h].t
<1>1. ASSUME NEW u \in Ids, Reparent(h, u) PROVE StepTypes
  <2> DEFINE D == IF row[u].deps \cap f.from = {} THEN row[u].deps
                  ELSE ((row[u].deps \ f.from) \cup {f.x}) \ {u}
  <2>1. CASE ~Writable(u, D)
    BY <1>1, <2>1, RowsStay, Finishes DEF Reparent, Refused, StepTypes
  <2>2. CASE Writable(u, D)
    <3>1. D \subseteq Ids /\ f.pc = "reparent"
      BY <1>1, RowOf, ThreadOf DEF Reparent, ThreadsOK
    <3>2. row' = [row EXCEPT ![u] = [row[u] EXCEPT !.deps = D]]
      BY <1>1, <2>2 DEF Reparent
    <3>3. /\ [row[u] EXCEPT !.deps = D] \in RowTypes
          /\ [row[u] EXCEPT !.deps = D].role = row[u].role
          /\ [row[u] EXCEPT !.deps = D].of = row[u].of
          /\ [row[u] EXCEPT !.deps = D].st = row[u].st
      <4> HIDE DEF D
      <4> QED BY <3>1, RowOf DEF RowTypes
    <3>4. RowsOK' /\ FeedersStay
      BY <3>2, <3>3, PutRow
    <3>5. Goes(h, [fin[h] EXCEPT !.todo = f.todo \ {u}])
      BY <1>1, <2>2 DEF Reparent
    <3>6. f.todo \ {u} \subseteq Ids
      BY ThreadOf
    <3>7. ThreadsOK'
      BY <3>1, <3>4, <3>5, <3>6, Ticks
    <3> QED BY <1>1, <3>4, <3>7 DEF Reparent, StepTypes
  <2> QED BY <2>1, <2>2
<1>2. ASSUME NEW r \in Ids, CancelStale(h, r) \/ Prune(h, r) PROVE StepTypes
  <2>1. RowsOK' /\ FeedersStay
    BY <1>2, SetsRow DEF CancelStale, Prune, Statuses
  <2>2. fin[h].pc # "idle" /\ Goes(h, [fin[h] EXCEPT !.todo = f.todo \ {r}])
    BY <1>2 DEF CancelStale, Prune
  <2>3. f.todo \ {r} \subseteq Ids
    BY ThreadOf
  <2>4. ThreadsOK'
    BY <2>1, <2>2, <2>3, Ticks
  <2> QED BY <1>2, <2>1, <2>4 DEF CancelStale, Prune, StepTypes
<1>3. CASE Reparented(h)
  <2>1. CASE f.then = "idle"
    BY <1>3, <2>1, RowsStay, Finishes DEF Reparented, StepTypes
  <2>2. CASE f.then # "idle"
    <3> DEFINE g == [fin[h] EXCEPT !.pc = fin[h].then, !.lock = NoTask]
    <3>1. g \in ThreadTypes /\ g.pc = f.then /\ g.t = f.t /\ g.x = f.x
      BY ThreadOf, ZenonT(60) DEF ThreadTypes, Places, Perhaps
    <3>2. Goes(h, g) /\ f.pc = "reparent"
      BY <1>3, <2>2 DEF Reparented
    <3>3. f.x \in Ids /\ f.t \in Ids /\ g.pc \in {"cancel", "head", "sweep"}
      BY <2>2, <3>1, <3>2, ThreadOf DEF ThreadsOK
    <3>4. RowsOK' /\ FeedersStay
      BY <1>3, RowsStay DEF Reparented
    <3>5. ThreadsOK'
      BY <3>1, <3>2, <3>3, <3>4, PutThread
    <3> QED BY <1>3, <3>4, <3>5 DEF Reparented, StepTypes
  <2> QED BY <2>1, <2>2
<1>4. CASE Complete(h)
  <2> DEFINE D == {r \in Rows \ {t} : row[r].of = t
                   /\ \/ row[r].role = "recovery" /\ row[r].st = "pending"
                      \/ row[r].role = "feeder" /\ r \in Active}
             g == [fin[h] EXCEPT !.pc = "stale", !.todo = D]
  <2>1. f.pc = "complete" /\ t \in Ids
    BY <1>4, ThreadOf DEF Complete
  <2>2. RowsOK' /\ FeedersStay
    BY <1>4, <2>1, SetsRow DEF Complete, Statuses
  <2>3. D \subseteq Ids
    BY DEF Rows
  <2>4. g \in ThreadTypes /\ g.pc = "stale" /\ g.t = t
    <3> HIDE DEF D
    <3> QED BY <2>3, ThreadOf, ZenonT(60) DEF ThreadTypes, Places
  <2>5. Goes(h, g)
    BY <1>4 DEF Complete
  <2>6. ThreadsOK'
    BY <2>1, <2>2, <2>4, <2>5, PutThread
  <2> QED BY <1>4, <2>2, <2>6 DEF Complete, StepTypes
<1>5. CASE Credit(h)
  <2>1. f.pc = "stale" /\ t \in Ids
    BY <1>5, ThreadOf DEF Credit
  <2>2. RowsOK' /\ FeedersStay
    <3>1. CASE row[t].role = "continuation" /\ row[row[t].of].st = "failed"
      <4>1. row[t].of \in Ids
        BY <2>1, <3>1 DEF RowsOK
      <4> QED BY <1>5, <3>1, <4>1, SetsRow DEF Credit, Statuses
    <3>2. CASE ~(row[t].role = "continuation" /\ row[row[t].of].st = "failed")
      BY <1>5, <3>2, RowsStay DEF Credit
    <3> QED BY <3>1, <3>2
  <2>3. ThreadsOK'
    <3>1. CASE row[t].role = "feeder"
      <4>1. Go(h, "apply") /\ row'[t].role = "feeder"
        BY <1>5, <2>1, <2>2, <3>1 DEF Credit, FeedersStay
      <4> QED BY <2>1, <2>2, <4>1, GoesOn DEF Places
    <3>2. CASE row[t].role # "feeder" /\ Validated(t)
      <4>1. Go(h, "validate")
        BY <1>5, <3>2 DEF Credit
      <4> QED BY <2>1, <2>2, <4>1, GoesOn DEF Places
    <3>3. CASE row[t].role # "feeder" /\ ~Validated(t)
      BY <1>5, <2>2, <3>3, Finishes DEF Credit
    <3> QED BY <3>1, <3>2, <3>3
  <2> QED BY <1>5, <2>2, <2>3 DEF Credit, StepTypes
<1> QED BY <1>1, <1>2, <1>3, <1>4, <1>5

LEMMA ResultTypes ==
  ASSUME TypeOK, NEW h \in Finishers,
         ValidationPasses(h) \/ ApplyRead(h) \/ ApplyWrite(h) \/ Exhaust(h)
  PROVE  StepTypes
<1> USE DEF TypeOK, At
<1> DEFINE f == fin[h]   t == fin[h].t
<1>1. CASE ValidationPasses(h)
  BY <1>1, RowsStay, Finishes DEF ValidationPasses, StepTypes
<1>2. CASE ApplyRead(h)
  <2> DEFINE o == row[t].of
             g == [fin[h] EXCEPT !.pc = "inject", !.x = o, !.deps = row[o].deps \ {t},
                                 !.cycles = row[o].cycles + 1]
  <2>1. f.pc = "apply" /\ t \in Ids /\ o \in Ids
    BY <1>2, ThreadOf DEF ApplyRead, RowsOK, ThreadsOK
  <2>2. RowsOK' /\ FeedersStay
    BY <1>2, RowsStay DEF ApplyRead
  <2>3. CASE Done(h)
    BY <1>2, <2>2, <2>3, Finishes DEF ApplyRead, StepTypes
  <2>4. CASE Goes(h, g)
    <3>1. row[o].deps \ {t} \subseteq Ids /\ row[o].cycles + 1 \in Nat
      BY <2>1, RowOf
    <3>2. g \in ThreadTypes /\ g.pc = "inject" /\ g.t = t /\ g.x = o
      <4> HIDE DEF o
      <4> PICK a \in ThreadTypes : a = fin[h]
        BY ThreadOf
      <4>1. row[o].deps \ {a.t} \in SUBSET Ids /\ o \in Perhaps
        BY <2>1, <3>1 DEF Perhaps
      <4> QED BY <3>1, <4>1 DEF ThreadTypes, Places
    <3>3. ThreadsOK'
      BY <2>1, <2>2, <2>4, <3>2, PutThread
    <3> QED BY <1>2, <2>2, <3>3 DEF ApplyRead, StepTypes
  <2> QED BY <1>2, <2>3, <2>4 DEF ApplyRead
<1>3. CASE ApplyWrite(h)
  <2> DEFINE o == f.x   found == [row[o] EXCEPT !.deps = f.deps, !.cycles = f.cycles]
  <2>1. f.pc = "inject" /\ o \in Ids /\ Done(h)
    BY <1>3 DEF ApplyWrite, ThreadsOK
  <2>2. row[o] \in RowTypes /\ f.cycles \in Nat /\ f.deps \subseteq Ids
    BY <2>1, RowOf, ThreadOf
  <2>3. found \in RowTypes /\ found.max \in Nat
    BY <2>2 DEF RowTypes
  <2>4. RowsOK' /\ FeedersStay
    <3>1. CASE UNCHANGED row
      BY <3>1, RowsStay
    <3>2. CASE row' = [row EXCEPT ![o].st = "completed", ![o].cycles = f.cycles]
      <4> DEFINE r == [row[o] EXCEPT !.st = "completed", !.cycles = f.cycles]
      <4>1. row' = [row EXCEPT ![o] = r]
        BY <2>1, <3>2 DEF RowsOK
      <4>2. r \in RowTypes /\ r.role = row[o].role /\ r.of = row[o].of /\ r.st # "absent"
        BY <2>2 DEF RowTypes
      <4> QED BY <2>1, <4>1, <4>2, PutRow
    <3>3. CASE row' = [row EXCEPT ![o] = [found EXCEPT !.st = "failed", !.att = found.max]]
      <4> DEFINE r == [found EXCEPT !.st = "failed", !.att = found.max]
      <4>1. r \in RowTypes /\ r.role = row[o].role /\ r.of = row[o].of /\ r.st # "absent"
        BY <2>2, <2>3 DEF RowTypes
      <4> QED BY <2>1, <3>3, <4>1, PutRow
    <3>4. CASE row' = [row EXCEPT ![o] = [found EXCEPT !.st = "pending", !.att = 0]]
      <4> DEFINE r == [found EXCEPT !.st = "pending", !.att = 0]
      <4>1. r \in RowTypes /\ r.role = row[o].role /\ r.of = row[o].of /\ r.st # "absent"
        BY <2>2, <2>3 DEF RowTypes
      <4> QED BY <2>1, <3>4, <4>1, PutRow
    <3> QED BY <1>3, <3>1, <3>2, <3>3, <3>4, Zenon DEF ApplyWrite
  <2> QED BY <1>3, <2>1, <2>4, Finishes DEF ApplyWrite, StepTypes
<1>4. CASE Exhaust(h)
  <2> DEFINE g == [fin[h] EXCEPT !.pc = "apply", !.exhausted = TRUE]
  <2>1. f.pc = "exhaust" /\ t \in Ids /\ row[t].role = "feeder"
    BY <1>4, ThreadOf DEF Exhaust, ThreadsOK
  <2>2. RowsOK' /\ FeedersStay
    BY <1>4, <2>1, SetsRow DEF Exhaust, Statuses
  <2>3. g \in ThreadTypes /\ g.pc = "apply" /\ g.t = t
    BY ThreadOf, ZenonT(60) DEF ThreadTypes, Places
  <2>4. Goes(h, g)
    BY <1>4 DEF Exhaust
  <2>5. ThreadsOK'
    BY <2>1, <2>2, <2>3, <2>4, PutThread DEF FeedersStay
  <2> QED BY <1>4, <2>2, <2>5 DEF Exhaust, StepTypes
<1> QED BY <1>1, <1>2, <1>3, <1>4

LEMMA BugTypes ==
  ASSUME TypeOK, NEW h \in Finishers, ValidationFails(h) PROVE StepTypes
<1> USE DEF TypeOK, At
<1> DEFINE f == fin[h]   t == fin[h].t   b == Fresh
<1>0. f.pc = "validate" /\ t \in Ids /\ row[t] \in RowTypes /\ row[t].max \in Nat
  BY ThreadOf, RowOf DEF ValidationFails
<1>1. CASE Done(h) /\ UNCHANGED row
  BY <1>1, RowsStay, Finishes DEF ValidationFails, StepTypes
<1>2. CASE /\ row' = [row EXCEPT ![t].st = "failed", ![t].att = row[t].max]
           /\ Goes(h, [fin[h] EXCEPT !.pc = "review", !.then = "idle"])
  <2> DEFINE r == [row[t] EXCEPT !.st = "failed", !.att = row[t].max]
             g == [fin[h] EXCEPT !.pc = "review", !.then = "idle"]
  <2>1. row' = [row EXCEPT ![t] = r]
    BY <1>0, <1>2 DEF RowsOK
  <2>2. r \in RowTypes /\ r.role = row[t].role /\ r.of = row[t].of /\ r.st # "absent"
    BY <1>0 DEF RowTypes
  <2>3. RowsOK' /\ FeedersStay
    BY <1>0, <2>1, <2>2, PutRow
  <2>4. g \in ThreadTypes /\ g.pc = "review" /\ g.t = t /\ g.then = "idle"
    BY ThreadOf, ZenonT(60) DEF ThreadTypes, Places
  <2>5. ThreadsOK'
    BY <1>0, <1>2, <2>3, <2>4, PutThread
  <2> QED BY <2>3, <2>5 DEF ValidationFails, StepTypes
<1>3. CASE /\ row' = [r \in Ids |-> IF r \in BugOf(t)
                                    THEN [AsBugOf(t, row[r]) EXCEPT !.st = "pending"]
                                    ELSE row[r]]
           /\ Done(h)
  <2> DEFINE New2(r) == [AsBugOf(t, row[r]) EXCEPT !.st = "pending"]
  <2>1. \A r \in Ids : /\ New2(r) \in RowTypes /\ New2(r).role = "bug"
                       /\ New2(r).of = row[r].of /\ New2(r).st = "pending"
    <3> TAKE r \in Ids
    <3>1. row[r] \in RowTypes /\ row[t].cycles \in Nat /\ row[t].chain + 1 \in Nat
      BY <1>0, RowOf
    <3> QED BY <3>1, Constants DEF AsBugOf, RowTypes, Roles, Perhaps
  <2>2. \A r \in BugOf(t) : row[r].of = t /\ row[r].role # "feeder"
    BY DEF BugOf
  <2> HIDE DEF New2
  <2>3. row' = [r \in Ids |-> IF r \in BugOf(t) THEN New2(r) ELSE row[r]]
    BY <1>3 DEF New2
  <2>4. RowsOK' /\ FeedersStay
    BY <1>0, <2>1, <2>2, <2>3 DEF RowsOK, FeedersStay
  <2> QED BY <1>3, <2>4, Finishes DEF ValidationFails, StepTypes
<1>4. CASE /\ Free # {} /\ row' = [row EXCEPT ![b] = AsBugOf(t, Task("bug", "bug", t, {t}))]
           /\ Hands(h, {t}, b, Dependents(t))
  <2> DEFINE T == Task("bug", "bug", t, {t})   r == AsBugOf(t, T)
             D == Dependents(t)
  <2>1. b \in Ids
    BY <1>4, FreshIsFree, Constants
  <2>2. T \in RowTypes /\ T.st = "pending" /\ T.of = t
    <3>1. T \in RowTypes
      BY <1>0, TaskType DEF Types, Roles, Perhaps
    <3> QED BY <3>1 DEF Task, Absent
  <2>3. r \in RowTypes /\ r.st = "pending" /\ r.of = t /\ r.role = "bug"
    <3> HIDE DEF T
    <3>1. row[t].cycles \in Nat /\ row[t].chain + 1 \in Nat
      BY <1>0, RowOf
    <3> QED BY <2>2, <3>1, Constants DEF AsBugOf, RowTypes, Roles, Perhaps
  <2>4. row' = [row EXCEPT ![b] = r]
    BY <1>4
  <2>5. RowsOK' /\ FeedersStay
    <3> HIDE DEF r
    <3> QED BY <1>0, <1>4, <2>3, <2>4, Creates
  <2>6. D \subseteq Ids
    BY DEF Dependents, Rows
  <2>7. ThreadsOK'
    BY <1>0, <1>4, <2>1, <2>5, <2>6, HandsOver
  <2> QED BY <2>5, <2>7 DEF ValidationFails, StepTypes
<1> QED BY <1>1, <1>2, <1>3, <1>4 DEF ValidationFails

LEMMA FailureTypes ==
  ASSUME TypeOK, NEW h \in Finishers,
         \/ Judge(h) \/ SoftComplete(h) \/ Feed(h) \/ CreateFeeder(h) \/ Hold(h)
         \/ CheckDependents(h) \/ Cancel(h)
  PROVE  StepTypes
<1> USE DEF TypeOK, At
<1> DEFINE f == fin[h]   t == fin[h].t
<1>0. ASSUME f.pc # "idle"
      PROVE  t \in Ids /\ row[t] \in RowTypes /\ row[t].att + 1 \in Nat /\ row[t].deps \subseteq Ids
  BY <1>0, ThreadOf, RowOf
<1>1. CASE Judge(h)
  <2>1. t \in Ids /\ row[t] \in RowTypes /\ row[t].att + 1 \in Nat
    BY <1>0, <1>1 DEF Judge
  <2>2. CASE Set(t, "pending") /\ Done(h)
    BY <1>1, <2>1, <2>2, SetsRow, Finishes DEF Judge, Statuses, StepTypes
  <2>3. ASSUME NEW s \in {"pending", "failed"},
               row' = [row EXCEPT ![t].st = s, ![t].att = @ + 1]
        PROVE  RowsOK' /\ FeedersStay
    <3> DEFINE r == [row[t] EXCEPT !.st = s, !.att = @ + 1]
    <3>1. row' = [row EXCEPT ![t] = r]
      BY <2>1, <2>3 DEF RowsOK
    <3>2. r \in RowTypes /\ r.role = row[t].role /\ r.of = row[t].of /\ r.st # "absent"
      BY <2>1 DEF RowTypes
    <3> QED BY <2>1, <3>1, <3>2, PutRow
  <2>4. CASE /\ row' = [row EXCEPT ![t].st = "pending", ![t].att = @ + 1]
             /\ Done(h)
    BY <1>1, <2>3, <2>4, Finishes DEF Judge, StepTypes
  <2>5. CASE /\ row' = [row EXCEPT ![t].st = "failed", ![t].att = @ + 1]
             /\ Goes(h, [fin[h] EXCEPT !.pc = Outcome(t), !.cycles = row[t].cycles])
    <3> DEFINE p == Outcome(t)   g == [fin[h] EXCEPT !.pc = p, !.cycles = row[t].cycles]
    <3>1. /\ p \in {"feed", "terminal", "exhaust", "soft", "dependents"}
          /\ p = "exhaust" => row[t].role = "feeder"
      BY DEF Outcome
    <3>2. RowsOK' /\ FeedersStay
      BY <2>3, <2>5
    <3>3. g \in ThreadTypes /\ g.pc = p /\ g.t = t
      <4> PICK a \in ThreadTypes : a = fin[h]
        BY ThreadOf
      <4>1. row[a.t].cycles \in Nat
        BY <2>1, RowOf
      <4> HIDE DEF p
      <4> QED BY <3>1, <4>1 DEF ThreadTypes, Places
    <3>4. p = "exhaust" => row'[t].role = "feeder"
      BY <2>1, <3>1, <3>2 DEF FeedersStay
    <3>5. ThreadsOK'
      <4> HIDE DEF g, p
      <4>1. Goes(h, g)
        BY <2>5 DEF g, p
      <4> QED BY <2>1, <3>1, <3>2, <3>3, <3>4, <4>1, PutThread
    <3> QED BY <1>1, <3>2, <3>5 DEF Judge, StepTypes
  <2> QED BY <1>1, <2>2, <2>4, <2>5 DEF Judge
<1>2. CASE SoftComplete(h) \/ Cancel(h)
  BY <1>0, <1>2, SetsRow, Finishes DEF SoftComplete, Cancel, Statuses, StepTypes
<1>3. CASE Feed(h)
  <2>1. f.pc = "feed" /\ t \in Ids /\ row[t] \in RowTypes
    BY <1>0, <1>3 DEF Feed
  <2>2. CASE Done(h) /\ UNCHANGED row
    BY <1>3, <2>2, RowsStay, Finishes DEF Feed, StepTypes
  <2>3. CASE row' = [row EXCEPT ![t] = Reset(t)] /\ Done(h)
    <3>1. /\ Reset(t) \in RowTypes /\ Reset(t).role = row[t].role /\ Reset(t).of = row[t].of
          /\ Reset(t).st # "absent"
      BY <2>1 DEF Reset, RowTypes
    <3> QED BY <1>3, <2>1, <2>3, <3>1, PutRow, Finishes DEF Feed, StepTypes
  <2>4. CASE UNCHANGED row /\ Go(h, "create")
    BY <1>3, <2>1, <2>4, RowsStay, GoesOn DEF Feed, Places, StepTypes
  <2>5. ASSUME NEW x \in Feeders, UNCHANGED row,
               Goes(h, [fin[h] EXCEPT !.pc = "hold", !.x = x])
        PROVE  StepTypes
    <3> DEFINE g == [fin[h] EXCEPT !.pc = "hold", !.x = x]
    <3>1. x \in Ids
      BY <2>5 DEF Feeders, Active, Rows
    <3>2. g \in ThreadTypes /\ g.pc = "hold" /\ g.t = t /\ g.x = x
      <4> PICK a \in ThreadTypes : a = fin[h]
        BY ThreadOf
      <4> QED BY <3>1 DEF ThreadTypes, Places, Perhaps
    <3>3. RowsOK' /\ FeedersStay
      BY <2>5, RowsStay
    <3>4. ThreadsOK'
      BY <2>1, <2>5, <3>1, <3>2, <3>3, PutThread
    <3> QED BY <1>3, <3>3, <3>4 DEF Feed, StepTypes
  <2> QED BY <1>3, <2>2, <2>3, <2>4, <2>5 DEF Feed
<1>4. CASE CreateFeeder(h)
  <2> DEFINE T == Task("audit", "feeder", t, LiveHead)   r == [T EXCEPT !.max = FeederAttempts]
  <2>1. f.pc = "create" /\ t \in Ids /\ Free # {}
    BY <1>0, <1>4 DEF CreateFeeder
  <2>2. T \in RowTypes /\ T.st = "pending" /\ T.of = t
    <3>1. LiveHead \subseteq Ids
      BY DEF LiveHead, Rows
    <3>2. T \in RowTypes
      BY <2>1, <3>1, TaskType DEF Types, Roles, Perhaps
    <3> QED BY <3>2 DEF Task, Absent
  <2>3. r \in RowTypes /\ r.st = "pending" /\ r.of = t
    <3> HIDE DEF T
    <3> QED BY <2>2, Constants DEF RowTypes
  <2>4. RowsOK' /\ FeedersStay
    <3> HIDE DEF r
    <3>1. row' = [row EXCEPT ![Fresh] = r]
      BY <1>4 DEF CreateFeeder, r
    <3> QED BY <2>1, <2>3, <3>1, Creates
  <2>5. ThreadsOK'
    <3>1. PICK x \in Ids : x = Fresh
      BY <2>1, FreshIsFree, Constants
    <3>2. Goes(h, [fin[h] EXCEPT !.pc = "hold", !.x = x])
      BY <1>4, <3>1 DEF CreateFeeder
    <3> DEFINE e == [fin[h] EXCEPT !.pc = "hold", !.x = x]
    <3>3. e \in ThreadTypes /\ e.pc = "hold" /\ e.t = t /\ e.x = x
      <4> PICK a \in ThreadTypes : a = fin[h]
        BY ThreadOf
      <4> QED BY DEF ThreadTypes, Places, Perhaps
    <3> QED BY <2>1, <2>4, <3>2, <3>3, PutThread
  <2> QED BY <1>4, <2>4, <2>5 DEF CreateFeeder, StepTypes
<1>5. CASE Hold(h)
  <2> DEFINE D == row[t].deps \cup {f.x}
  <2>1. f.pc = "hold" /\ t \in Ids /\ row[t] \in RowTypes /\ Done(h)
    BY <1>0, <1>5 DEF Hold
  <2>2. RowsOK' /\ FeedersStay
    <3>1. CASE Writable(t, D)
      <4> DEFINE r == [Reset(t) EXCEPT !.deps = D]
      <4>1. D \subseteq Ids
        BY <1>0, <2>1 DEF ThreadsOK
      <4>2. r \in RowTypes /\ r.role = row[t].role /\ r.of = row[t].of /\ r.st # "absent"
        <5> HIDE DEF D
        <5> QED BY <2>1, <4>1 DEF Reset, RowTypes
      <4>3. row' = [row EXCEPT ![t] = r]
        BY <1>5, <3>1 DEF Hold
      <4> HIDE DEF r
      <4> QED BY <2>1, <4>2, <4>3, PutRow
    <3>2. CASE ~Writable(t, D)
      BY <1>5, <3>2, RowsStay DEF Hold
    <3> QED BY <3>1, <3>2
  <2> QED BY <1>5, <2>1, <2>2, Finishes DEF Hold, StepTypes
<1>6. CASE CheckDependents(h)
  <2>1. f.pc = "dependents" /\ t \in Ids /\ RowsOK' /\ FeedersStay
    BY <1>0, <1>6, RowsStay DEF CheckDependents
  <2>2. PICK g : /\ Goes(h, g)
                 /\ \/ g = [fin[h] EXCEPT !.pc = "cancel"]
                    \/ g = [fin[h] EXCEPT !.pc = "review", !.then = "cancel"]
    BY <1>6 DEF CheckDependents
  <2>3. /\ g \in ThreadTypes /\ g.pc \in {"cancel", "review"} /\ g.t = t
        /\ g.pc = "review" => g.then = "cancel"
    BY <2>2, ThreadOf, ZenonT(60) DEF ThreadTypes, Places
  <2>4. ThreadsOK'
    BY <2>1, <2>2, <2>3, PutThread
  <2> QED BY <1>6, <2>1, <2>4 DEF CheckDependents, StepTypes
<1> QED BY <1>1, <1>2, <1>3, <1>4, <1>5, <1>6

LEMMA WaitingTypes ==
  ASSUME RowsOK, NEW t \in Ids PROVE Replacement(t) \subseteq Ids
<1>1. \A u \in Ids : Waiting(u) \subseteq Ids
  BY RowOf DEF Waiting
<1>2. \A u \in {row[t].root, row[t].of} \cap Rows : Waiting(u) \subseteq Ids
  BY <1>1 DEF Rows
<1> QED BY <1>1, <1>2, Zenon DEF Replacement

LEMMA RootType == ASSUME RowsOK, NEW t \in Ids PROVE Root(t) \in Ids
BY RowOf DEF Root, Perhaps

LEMMA ReviewTypes ==
  ASSUME TypeOK, NEW h \in Finishers, ReviewRead(h) PROVE StepTypes
<1> USE DEF TypeOK, At
<1> DEFINE f == fin[h]   t == fin[h].t
           branch == Branch(t)   alive == Alive(branch)
<1>1. f.pc = "review" /\ t \in Ids
  BY ThreadOf DEF ReviewRead
<1>2. RowsOK' /\ FeedersStay
  BY RowsStay DEF ReviewRead
<1>3. CASE IF f.then = "idle" THEN Done(h) ELSE Go(h, f.then)
  <2>1. CASE f.then = "idle"
    BY <1>2, <1>3, <2>1, Finishes DEF ReviewRead, StepTypes
  <2>2. CASE f.then # "idle"
    <3>1. f.then = "cancel"
      BY <1>1, <2>2 DEF ThreadsOK
    <3> QED BY <1>1, <1>2, <1>3, <2>2, <3>1, GoesOn DEF Places, ReviewRead, StepTypes
  <2> QED BY <2>1, <2>2
<1>4. CASE ~(IF f.then = "idle" THEN Done(h) ELSE Go(h, f.then))
  <2> DEFINE running == {u \in alive : row[u].st = "in_progress"}
             x == IF alive = {} THEN NoTask
                  ELSE Oldest(IF running # {} THEN running ELSE alive)
             lost == Cardinality({u \in branch : row[u].st \in {"failed", "cancelled"}})
             least == IF Cardinality(branch) >= MAX_RECOVERY_TASKS /\ row[t].type # "qa"
                      THEN 1 ELSE 0
             D == {u \in alive \ {x} : row[u].st = "pending"}
             N == Max({row[t].depth, lost, least})
             K == IF branch = {} THEN Replacement(t) ELSE {Newest(branch)}
             g == [fin[h] EXCEPT !.pc = "prune", !.lock = Root(t), !.x = x, !.from = {t},
                                 !.todo = D, !.kin = Dependents(t), !.depth = N, !.deps = K]
  <2>1. branch \subseteq Ids /\ alive \subseteq branch /\ Dependents(t) \subseteq Ids
    BY DEF Branch, Alive, Rows, Dependents
  <2>2. x \in Perhaps /\ D \subseteq Ids
    <3>1. CASE alive = {}
      BY <2>1, <3>1 DEF Perhaps
    <3>2. CASE alive # {}
      <4> DEFINE S == IF running # {} THEN running ELSE alive
      <4>1. S \subseteq Ids /\ S # {}
        BY <2>1, <3>2
      <4>2. Oldest(S) \in Ids
        <5> HIDE DEF S
        <5> QED BY <4>1, OldestIsOne
      <4> QED BY <2>1, <3>2, <4>2 DEF Perhaps
    <3> QED BY <3>1, <3>2
  <2>3. N \in Nat
    <3>1. IsFiniteSet({u \in branch : row[u].st \in {"failed", "cancelled"}})
      BY <2>1, Constants, FS_Subset
    <3>2. lost \in Nat
      BY <3>1, FS_CardinalityType
    <3>3. row[t].depth \in Nat /\ least \in Nat
      BY <1>1, RowOf
    <3> HIDE DEF lost, least
    <3> QED BY <3>2, <3>3, GreatestOfThree
  <2>4. K \subseteq Ids
    BY <1>1, <2>1, WaitingTypes, NewestIsOne
  <2>5. g \in ThreadTypes /\ g.pc = "prune" /\ g.t = t
    <3> DEFINE r == Root(t)   kin == Dependents(t)
    <3> PICK a \in ThreadTypes : a = fin[h]
      BY ThreadOf
    <3>1. r \in Perhaps /\ kin \subseteq Ids /\ a.t \in Ids
      BY <1>1, <2>1, RootType DEF Perhaps
    <3> HIDE DEF r, kin, x, D, N, K
    <3>2. /\ [a EXCEPT !.pc = "prune", !.lock = r, !.x = x, !.from = {a.t}, !.todo = D,
                        !.kin = kin, !.depth = N, !.deps = K] \in ThreadTypes
          /\ [a EXCEPT !.pc = "prune", !.lock = r, !.x = x, !.from = {a.t}, !.todo = D,
                        !.kin = kin, !.depth = N, !.deps = K].pc = "prune"
          /\ [a EXCEPT !.pc = "prune", !.lock = r, !.x = x, !.from = {a.t}, !.todo = D,
                        !.kin = kin, !.depth = N, !.deps = K].t = a.t
      BY <2>2, <2>3, <2>4, <3>1, ZenonT(60) DEF ThreadTypes, Places
    <3> QED BY <3>2 DEF r, kin
  <2>6. Goes(h, g)
    BY <1>4, Zenon DEF ReviewRead
  <2>7. ThreadsOK'
    <3> HIDE DEF g
    <3> QED BY <1>1, <1>2, <2>5, <2>6, PutThread
  <2> QED BY <1>2, <2>7 DEF ReviewRead, StepTypes
<1> QED BY <1>3, <1>4

LEMMA RecoveryTypes ==
  ASSUME TypeOK, NEW h \in Finishers,
         Adopt(h) \/ CreateRecovery(h) \/ Terminal(h) \/ Sweep(h) \/ SetHead(h)
  PROVE  StepTypes
<1> USE DEF TypeOK, At
<1> DEFINE f == fin[h]   t == fin[h].t
<1>0. ASSUME f.pc # "idle" PROVE t \in Ids /\ row[t] \in RowTypes /\ Dependents(t) \subseteq Ids
  BY <1>0, ThreadOf, RowOf DEF Dependents, Rows
<1>1. CASE Adopt(h)
  <2>1. f.pc = "prune" /\ f.x \in Ids /\ f.from \subseteq Ids /\ f.kin \subseteq Ids
    BY <1>1, ThreadOf DEF Adopt, Perhaps
  <2>2. RowsOK' /\ FeedersStay
    BY <1>1, RowsStay DEF Adopt
  <2>3. ThreadsOK'
    BY <1>1, <2>1, <2>2, HandsOver DEF Adopt
  <2>4. head' \in Perhaps
    BY <1>1, <2>1 DEF Adopt, Advanced, Perhaps
  <2> QED BY <2>2, <2>3, <2>4 DEF StepTypes
<1>2. CASE CreateRecovery(h)
  <2> DEFINE research == f.depth >= 1 /\ row[t].type # "qa"
             A == [Task("audit", "escalated", t, f.deps) EXCEPT !.max = FeederAttempts]
             B == Task(row[t].type, "recovery", t, f.deps)
             new == IF research THEN A ELSE B
             r == [new EXCEPT !.root = f.lock, !.depth = f.depth + 1]
  <2>1. /\ f.pc = "prune" /\ t \in Ids /\ Free # {} /\ f.deps \subseteq Ids /\ f.kin \subseteq Ids
        /\ f.depth + 1 \in Nat /\ f.lock \in Perhaps
    BY <1>0, <1>2, ThreadOf DEF CreateRecovery
  <2>2. new \in RowTypes /\ new.st = "pending" /\ new.of = t
    <3>1. /\ Task("audit", "escalated", t, f.deps) \in RowTypes
          /\ Task(row[t].type, "recovery", t, f.deps) \in RowTypes
      BY <2>1, TaskType, RowOf DEF Types, Roles, Perhaps
    <3>2. /\ Task("audit", "escalated", t, f.deps).st = "pending"
          /\ Task("audit", "escalated", t, f.deps).of = t
          /\ B.st = "pending" /\ B.of = t
      BY DEF Task, Absent
    <3>3. A \in RowTypes /\ A.st = "pending" /\ A.of = t
      BY <3>1, <3>2, Constants DEF RowTypes
    <3> QED BY <3>1, <3>2, <3>3
  <2>3. r \in RowTypes /\ r.st = "pending" /\ r.of = t
    <3> HIDE DEF new
    <3> PICK l \in Perhaps : l = f.lock
      BY <2>1
    <3> PICK n \in Nat : n = f.depth + 1
      BY <2>1
    <3> QED BY <2>2 DEF RowTypes
  <2>4. row' = [row EXCEPT ![Fresh] = r]
    BY <1>2 DEF CreateRecovery
  <2>5. RowsOK' /\ FeedersStay
    <3> HIDE DEF r
    <3> QED BY <2>1, <2>3, <2>4, Creates
  <2>6. Fresh \in Ids
    BY <2>1, FreshIsFree, Constants
  <2>7. ThreadsOK'
    BY <1>2, <2>1, <2>5, <2>6, HandsOver DEF CreateRecovery
  <2>8. head' \in Perhaps
    BY <1>2, <2>6 DEF CreateRecovery, Advanced, Perhaps
  <2> QED BY <2>5, <2>7, <2>8 DEF StepTypes
<1>3. CASE Terminal(h)
  <2> DEFINE x == IF BugOf(t) # {} THEN CHOOSE b \in BugOf(t) : TRUE ELSE Fresh
             T == Task("bug", "continuation", t, {})
             made == IF BugOf(t) # {} THEN row[x] ELSE T
             r == [made EXCEPT !.st = "pending", !.role = "continuation", !.root = Root(t),
                               !.depth = 0, !.cycles = 0, !.chain = row[t].chain + 1,
                               !.deps = Replacement(t)]
             g == [fin[h] EXCEPT !.pc = "reparent", !.from = {t}, !.x = x,
                                 !.todo = Dependents(t) \ {x}]
  <2>1. f.pc = "terminal" /\ t \in Ids /\ Dependents(t) \subseteq Ids
    BY <1>0, <1>3 DEF Terminal
  <2>2. CASE ~Writable(x, Replacement(t))
    BY <1>3, <2>2, RowsStay, Finishes DEF Terminal, Refused, StepTypes
  <2>3. CASE Writable(x, Replacement(t))
    <3>1. /\ x \in Ids /\ made \in RowTypes /\ made.of = t
          /\ row[x].role # "feeder"
      <4>1. CASE BugOf(t) # {}
        <5>1. x \in BugOf(t)
          BY <4>1
        <5>2. PICK b \in BugOf(t) : b = x
          BY <5>1
        <5>3. b \in Ids /\ row[b].of = t /\ row[b].role # "feeder"
          BY DEF BugOf, Rows
        <5> QED BY <4>1, <5>2, <5>3, RowOf
      <4>2. CASE BugOf(t) = {}
        <5>1. Free # {}
          BY <1>3, <4>2 DEF Terminal
        <5>2. x = Fresh /\ x \in Ids /\ row[x].st = "absent"
          BY <4>2, <5>1, FreshIsFree, Constants
        <5>3. T \in RowTypes /\ T.of = t
          <6>1. T \in RowTypes
            BY <2>1, TaskType DEF Types, Roles, Perhaps
          <6> QED BY <6>1 DEF Task, Absent
        <5>4. row[x].role # "feeder"
          <6> PICK b \in Ids : b = x
            BY <5>2
          <6> QED BY <5>2 DEF RowsOK
        <5> QED BY <4>2, <5>2, <5>3, <5>4
      <4> QED BY <4>1, <4>2
    <3>2. r \in RowTypes /\ r.st = "pending" /\ r.of = t
      <4> DEFINE D == Replacement(t)   k == Root(t)   n == row[t].chain + 1
      <4>1. D \subseteq Ids /\ k \in Perhaps /\ n \in Nat
        BY <2>1, RowOf, WaitingTypes, RootType DEF Perhaps
      <4> HIDE DEF D, k, n, made
      <4>2. /\ [made EXCEPT !.st = "pending", !.role = "continuation", !.root = k,
                            !.depth = 0, !.cycles = 0, !.chain = n, !.deps = D] \in RowTypes
            /\ [made EXCEPT !.st = "pending", !.role = "continuation", !.root = k,
                            !.depth = 0, !.cycles = 0, !.chain = n, !.deps = D].st = "pending"
            /\ [made EXCEPT !.st = "pending", !.role = "continuation", !.root = k,
                            !.depth = 0, !.cycles = 0, !.chain = n, !.deps = D].of = t
        BY <3>1, <4>1 DEF RowTypes, Roles
      <4> QED BY <4>2 DEF D, k, n
    <3>3. row' = [row EXCEPT ![x] = r] /\ head' = Advanced({t}, x) /\ Goes(h, g)
      BY <1>3, <2>3, Zenon DEF Terminal
    <3>4. RowsOK' /\ FeedersStay
      <4>1. PICK y \in Ids : y = x
        BY <3>1
      <4>2. PICK q \in RowTypes : q = r
        BY <3>2
      <4>3. q.st # "absent" /\ q.of \in Ids /\ row[y].role # "feeder"
        BY <2>1, <3>1, <3>2, <4>1, <4>2
      <4>4. row' = [row EXCEPT ![y] = q]
        BY <3>3, <4>1, <4>2, Zenon
      <4> HIDE DEF x, r
      <4>5. RowsOK
        OBVIOUS
      <4> QED BY <4>3, <4>4, <4>5 DEF RowsOK, FeedersStay
    <3>5. g \in ThreadTypes /\ g.pc = "reparent" /\ g.t = t /\ g.x = x
      <4> DEFINE D == Dependents(t) \ {x}
      <4>1. D \subseteq Ids /\ x \in Perhaps
        BY <2>1, <3>1 DEF Perhaps
      <4> HIDE DEF x, D
      <4> PICK a \in ThreadTypes : a = fin[h]
        BY ThreadOf
      <4>2. a.t \in Ids
        BY <2>1
      <4>3. /\ [a EXCEPT !.pc = "reparent", !.from = {a.t}, !.x = x, !.todo = D] \in ThreadTypes
            /\ [a EXCEPT !.pc = "reparent", !.from = {a.t}, !.x = x, !.todo = D].pc = "reparent"
            /\ [a EXCEPT !.pc = "reparent", !.from = {a.t}, !.x = x, !.todo = D].t = a.t
            /\ [a EXCEPT !.pc = "reparent", !.from = {a.t}, !.x = x, !.todo = D].x = x
        BY <4>1, <4>2 DEF ThreadTypes, Places
      <4> QED BY <4>3 DEF D
    <3>6. ThreadsOK' /\ head' \in Perhaps
      <4> HIDE DEF g, x
      <4>1. ThreadsOK'
        BY <2>1, <3>1, <3>3, <3>4, <3>5, PutThread
      <4> QED BY <3>1, <3>3, <4>1 DEF Advanced, Perhaps
    <3> QED BY <3>4, <3>6 DEF StepTypes
  <2> QED BY <2>2, <2>3
<1>4. CASE Sweep(h)
  <2> DEFINE g == [fin[h] EXCEPT !.pc = "reparent", !.from = f.deps, !.todo = f.kin,
                                 !.then = "head"]
  <2>1. f.pc = "sweep" /\ t \in Ids /\ f.x \in Ids
    BY <1>0, <1>4 DEF Sweep, ThreadsOK
  <2>2. RowsOK' /\ FeedersStay
    BY <1>4, RowsStay DEF Sweep
  <2>3. g \in ThreadTypes /\ g.pc = "reparent" /\ g.t = t /\ g.x = f.x
    <3> PICK a \in ThreadTypes : a = fin[h]
      BY ThreadOf
    <3> QED BY DEF ThreadTypes, Places
  <2>4. Goes(h, g)
    BY <1>4, Zenon DEF Sweep
  <2>5. ThreadsOK'
    <3> HIDE DEF g
    <3> QED BY <2>1, <2>2, <2>3, <2>4, PutThread
  <2> QED BY <1>4, <2>2, <2>5 DEF Sweep, StepTypes
<1>5. CASE SetHead(h)
  <2>1. RowsOK' /\ FeedersStay
    BY <1>5, RowsStay DEF SetHead
  <2>2. head' \in Perhaps
    BY <1>5, ThreadOf DEF SetHead, Advanced
  <2> QED BY <1>5, <2>1, <2>2, Finishes DEF SetHead, StepTypes
<1> QED BY <1>1, <1>2, <1>3, <1>4, <1>5

LEMMA StepTypesKept ==
  ASSUME TypeOK, NEW h \in Finishers, Step(h) PROVE TypeOK'
<1>1. StepTypes
  BY TransferTypes, ResultTypes, BugTypes, FailureTypes, ReviewTypes, RecoveryTypes DEF Step
<1>2. Else
  BY DEF Step, Reparented, Complete, Credit, ValidationPasses, ValidationFails, ApplyRead,
         ApplyWrite, Judge, Exhaust, SoftComplete, Feed, CreateFeeder, Hold, CheckDependents,
         Cancel, ReviewRead, Adopt, CreateRecovery, Terminal, Sweep, SetHead, Reparent,
         CancelStale, Prune
<1> QED BY <1>1, <1>2 DEF StepTypes, TypeOK, Else, bounds

LEMMA RequestTypes ==
  ASSUME TypeOK, NEW h \in Finishers, NEW t \in Ids, CleanupRequest(h, t) PROVE TypeOK'
<1> USE DEF TypeOK, At
<1> DEFINE f == fin[h]   R == RecoveriesOf(t)
           going == Continuations(t) \cap Active   trying == R \cap Active
           lost == {r \in R : row[r].st = "failed"}
           x == Best(IF going # {} THEN going ELSE trying)
           S == R \ {x}
           a1 == [fin[h] EXCEPT !.pc = "prune", !.t = t, !.x = x, !.from = S,
                     !.then = "head", !.todo = {r \in S : row[r].st = "pending"},
                     !.kin = Following(S)]
           a2 == [fin[h] EXCEPT !.pc = "terminal", !.t = Newest(lost), !.then = "sweep",
                     !.deps = R, !.kin = Following(R)]
<1>1. /\ R \subseteq Ids /\ going \subseteq Ids /\ trying \subseteq Ids /\ lost \subseteq Ids
      /\ \A P \in SUBSET Ids : Following(P) \subseteq Ids
  BY DEF RecoveriesOf, Continuations, Rows, Following
<1>2. RowsOK' /\ FeedersStay
  BY RowsStay DEF CleanupRequest
<1>3. CASE going \cup trying # {} /\ Goes(h, a1)
  <2>1. x \in Ids
    BY <1>1, <1>3, BestIsOne
  <2>2. a1 \in ThreadTypes /\ a1.pc = "prune" /\ a1.t = t
    <3> PICK a \in ThreadTypes : a = fin[h]
      BY ThreadOf
    <3> DEFINE D == {r \in S : row[r].st = "pending"}   kin == Following(S)
    <3>1. x \in Perhaps /\ t \in Perhaps /\ S \subseteq Ids /\ D \subseteq Ids /\ kin \subseteq Ids
      BY <1>1, <2>1 DEF Perhaps
    <3> HIDE DEF x, S, D, kin
    <3>2. /\ [a EXCEPT !.pc = "prune", !.t = t, !.x = x, !.from = S, !.then = "head",
                       !.todo = D, !.kin = kin] \in ThreadTypes
          /\ [a EXCEPT !.pc = "prune", !.t = t, !.x = x, !.from = S, !.then = "head",
                       !.todo = D, !.kin = kin].pc = "prune"
          /\ [a EXCEPT !.pc = "prune", !.t = t, !.x = x, !.from = S, !.then = "head",
                       !.todo = D, !.kin = kin].t = t
      BY <3>1 DEF ThreadTypes, Places
    <3> QED BY <3>2 DEF D, kin
  <2>3. ThreadsOK'
    <3> HIDE DEF a1
    <3> QED BY <1>2, <1>3, <2>2, PutThread
  <2> QED BY <1>2, <2>3 DEF CleanupRequest
<1>4. CASE lost # {} /\ Goes(h, a2)
  <2>1. Newest(lost) \in Ids
    BY <1>1, <1>4, NewestIsOne
  <2>2. a2 \in ThreadTypes /\ a2.pc = "terminal" /\ a2.t = Newest(lost)
    <3> PICK a \in ThreadTypes : a = fin[h]
      BY ThreadOf
    <3> DEFINE n == Newest(lost)   kin == Following(R)
    <3>1. n \in Perhaps /\ kin \subseteq Ids /\ R \subseteq Ids
      BY <1>1, <2>1 DEF Perhaps
    <3> HIDE DEF n, kin, R
    <3>2. /\ [a EXCEPT !.pc = "terminal", !.t = n, !.then = "sweep", !.deps = R, !.kin = kin]
               \in ThreadTypes
          /\ [a EXCEPT !.pc = "terminal", !.t = n, !.then = "sweep", !.deps = R,
                       !.kin = kin].pc = "terminal"
          /\ [a EXCEPT !.pc = "terminal", !.t = n, !.then = "sweep", !.deps = R,
                       !.kin = kin].t = n
      BY <3>1 DEF ThreadTypes, Places
    <3> QED BY <3>2 DEF n, kin
  <2>3. ThreadsOK'
    <3> HIDE DEF a2
    <3> QED BY <1>2, <1>4, <2>1, <2>2, PutThread
  <2> QED BY <1>2, <2>3 DEF CleanupRequest
<1>5. (going \cup trying # {} /\ Goes(h, a1)) \/ (lost # {} /\ Goes(h, a2))
  BY Zenon DEF CleanupRequest, Begin
<1> QED BY <1>3, <1>4, <1>5

LEMMA OthersTypes ==
  ASSUME TypeOK,
         \/ \E t \in Ids : Spawn(t) \/ Ends(t) \/ ResetRequest(t)
         \/ PauseRequest \/ Restart
  PROVE  TypeOK'
<1> USE DEF TypeOK, At
<1>1. ASSUME NEW t \in Ids, Spawn(t) PROVE TypeOK'
  <2>1. RowsOK' /\ FeedersStay
    BY <1>1, SetsRow DEF Spawn, Statuses
  <2>4. \A h \in Finishers :
          /\ fin'[h] \in ThreadTypes
          /\ fin'[h].pc = fin[h].pc /\ fin'[h].t = fin[h].t
          /\ fin[h].pc # "idle" => fin'[h].x = fin[h].x /\ fin'[h].then = fin[h].then
    <3> TAKE h \in Finishers
    <3> PICK a \in ThreadTypes : a = fin[h]
      BY ThreadOf
    <3>1. CASE a.pc = "idle"
      <4>1. fin'[h] = Idle
        BY <1>1, <3>1 DEF Spawn
      <4>2. fin[h].t = NoTask /\ Idle.pc = "idle" /\ Idle.t = NoTask
        BY <3>1 DEF ThreadsOK, Idle
      <4> QED BY <3>1, <4>1, <4>2, IdleType
    <3>2. CASE a.pc # "idle"
      <4>1. fin'[h] = [a EXCEPT !.seen = a.seen \cup {t}]
        BY <1>1, <3>2 DEF Spawn
      <4> QED BY <4>1 DEF ThreadTypes
    <3> QED BY <3>1, <3>2
  <2>5. fin' \in [Finishers -> ThreadTypes]
    BY <1>1, <2>4 DEF Spawn
  <2>6. ThreadsOK'
    BY <2>1, <2>4, <2>5, ThreadOf DEF ThreadsOK, FeedersStay
  <2> QED BY <1>1, <2>1, <2>6 DEF Spawn, bounds
<1>2. ASSUME NEW t \in Ids, NEW h \in Finishers, AgentSucceeds(h, t) \/ AgentFails(h, t)
      PROVE  TypeOK'
  <2>1. RowsOK' /\ FeedersStay
    BY <1>2, RowsStay DEF AgentSucceeds, AgentFails, AgentEnds
  <2>2. PICK p \in {"complete", "judge"} : Goes(h, [fin[h] EXCEPT !.pc = p, !.t = t])
    BY <1>2 DEF AgentSucceeds, AgentFails, AgentEnds, Begin
  <2>3. [fin[h] EXCEPT !.pc = p, !.t = t] \in ThreadTypes
    <3> PICK a \in ThreadTypes : a = fin[h]
      BY ThreadOf
    <3> QED BY DEF ThreadTypes, Places, Perhaps
  <2>4. ThreadsOK'
    <3> PICK g \in ThreadTypes : g = [fin[h] EXCEPT !.pc = p, !.t = t]
      BY <2>3
    <3>1. g.pc = p /\ g.t = t
      BY ThreadOf DEF ThreadTypes
    <3> QED BY <2>1, <2>2, <3>1, PutThread
  <2> QED BY <1>2, <2>1, <2>4 DEF AgentSucceeds, AgentFails, AgentEnds
<1>3. ASSUME NEW t \in Ids, ResetRequest(t) PROVE TypeOK'
  <2>1. /\ Reset(t) \in RowTypes /\ Reset(t).role = row[t].role /\ Reset(t).of = row[t].of
        /\ Reset(t).st # "absent"
    <3> PICK r \in RowTypes : r = row[t]
      BY RowOf
    <3> QED BY DEF Reset, RowTypes
  <2>2. RowsOK' /\ FeedersStay
    BY <1>3, <2>1, PutRow DEF ResetRequest
  <2>3. ThreadsOK'
    BY <1>3, <2>2, ThreadOf DEF ResetRequest, ThreadsOK, FeedersStay
  <2> QED BY <1>3, <2>2, <2>3 DEF ResetRequest
<1>4. CASE PauseRequest
  <2>1. RowsOK' /\ ThreadsOK'
    BY <1>4 DEF PauseRequest, RowsOK, ThreadsOK
  <2> QED BY <1>4, <2>1 DEF PauseRequest, Interruption
<1>5. CASE Restart
  <2>1. \A t \in Ids : /\ row'[t] \in RowTypes /\ row'[t].role = row[t].role
                       /\ row'[t].of = row[t].of
                       /\ row'[t].st = "absent" => row[t].st = "absent"
    <3> TAKE t \in Ids
    <3> PICK r \in RowTypes : r = row[t]
      BY RowOf
    <3> QED BY <1>5 DEF Restart, RowTypes
  <2>2. row' \in [Ids -> RowTypes]
    BY <1>5, <2>1 DEF Restart
  <2>3. RowsOK'
    BY <2>1, <2>2 DEF RowsOK
  <2>4. ThreadsOK'
    BY <1>5, IdleType DEF Restart, ThreadsOK, Idle
  <2> QED BY <1>5, <2>3, <2>4 DEF Restart
<1> QED BY <1>1, <1>2, <1>3, <1>4, <1>5 DEF Ends

LEMMA InitTypes == Init => TypeOK
<1> SUFFICES ASSUME Init PROVE TypeOK
  OBVIOUS
<1> DEFINE First(t) == [Task(Type[t], "plain", NoTask, Waits[t])
                          EXCEPT !.max = Attempts[t], !.chain = Chain[t]]
<1>1. \A t \in Tasks : /\ First(t) \in RowTypes /\ First(t).role = "plain"
                       /\ First(t).st = "pending"
  <2> TAKE t \in Tasks
  <2> DEFINE T == Task(Type[t], "plain", NoTask, Waits[t])
  <2>1. /\ Type[t] \in Types /\ Waits[t] \in SUBSET Ids
        /\ Attempts[t] \in Nat /\ Chain[t] \in Nat
    BY Constants, RecoveryAssumption
  <2>2. T \in RowTypes /\ T.role = "plain" /\ T.st = "pending"
    <3>1. T \in RowTypes
      BY <2>1, TaskType DEF Roles, Perhaps
    <3> QED BY <3>1 DEF Task, Absent
  <2> PICK n \in Nat, c \in Nat : n = Attempts[t] /\ c = Chain[t]
    BY <2>1
  <2> HIDE DEF T
  <2>3. /\ [T EXCEPT !.max = n, !.chain = c] \in RowTypes
        /\ [T EXCEPT !.max = n, !.chain = c].role = "plain"
        /\ [T EXCEPT !.max = n, !.chain = c].st = "pending"
    BY <2>2 DEF RowTypes
  <2> QED BY <2>3 DEF T
<1>2. Absent \in RowTypes /\ Absent.role = "plain"
  BY DEF Absent, RowTypes, Types, Roles, Perhaps
<1>3. RowsOK
  BY <1>1, <1>2, Zenon DEF Init, RowsOK
<1>4. ThreadsOK
  BY IdleType DEF Init, ThreadsOK, Idle
<1>5. head \in Perhaps
  BY RecoveryAssumption DEF Init, Perhaps, Ids
<1> QED BY <1>3, <1>4, <1>5 DEF Init, TypeOK

LEMMA TypesKept == TypeOK /\ [Next]_vars => TypeOK'
<1> SUFFICES ASSUME TypeOK, [Next]_vars PROVE TypeOK'
  OBVIOUS
<1>1. CASE UNCHANGED vars
  BY <1>1 DEF vars, TypeOK, RowsOK, ThreadsOK
<1>2. CASE Next
  BY <1>2, StepTypesKept, RequestTypes, OthersTypes DEF Next
<1> QED BY <1>1, <1>2

(* The rows and the threads are what the code may write, a task that was   *)
(* made for another one names it, and a thread that turns tasks over knows *)
(* to whom.                                                                *)
THEOREM TypeCorrect == Spec => []TypeOK
BY InitTypes, TypesKept, PTL DEF Spec

-------------------------------------------------------------------------------
(* What the steps do, seen from the research.                              *)

Others(h) == \A g \in Finishers \ {h} : fin'[g] = fin[g]
SameOrigin(u) ==
  /\ row'[u].role = row[u].role /\ row'[u].of = row[u].of /\ row'[u].root = row[u].root
  /\ row'[u].type = row[u].type /\ (row'[u].st = "absent" <=> row[u].st = "absent")

(* A task that is no feeder, and how its state may change.                 *)
Changes(h, u) ==
  LET t == fin[h].t IN
  \/ row'[u].st \in {row[u].st, "cancelled"}
  \/ u = t /\ row'[u].st = "completed" /\ fin[h].pc \in {"complete", "soft"}
  \/ u = t /\ row'[u].st = "failed" /\ fin[h].pc \in {"validate", "judge"}
  \/ /\ u = t /\ row'[u].st = "pending" /\ fin[h].pc \in {"judge", "feed", "hold"}
     /\ fin'[h] = Idle /\ (fin[h].pc = "hold" => fin[h].x \in row'[u].deps)
  \/ /\ row[t].role = "continuation" /\ u = row[t].of /\ fin[h].pc = "stale"
     /\ row[u].st = "failed" /\ row'[u].st = "completed"

(* Where a thread goes on.                                                 *)
Onward(h) ==
  /\ fin'[h].t = fin[h].t /\ fin'[h].seen = fin[h].seen
  /\ fin'[h].pc \notin {"idle", "complete", "judge", "inject", "apply", "exhaust"}
  /\ fin[h].pc # "hold"
  /\ fin[h].pc \in {"complete", "judge"} => row'[fin[h].t].st \in {"completed", "failed"}
  /\ fin'[h].pc = "hold" =>
       /\ fin'[h].x \in Ids /\ row[fin'[h].x].role = "feeder"
       /\ row[fin'[h].x].st \in {"pending", "in_progress"}
  /\ fin[h].pc \in {"reparent", "review", "prune", "cancel"} =>
       fin'[h].pc \in {"reparent", "review", "prune", "cancel"}

(* A thread about another task than research makes no task.                *)
PlainStep(h) ==
  /\ fin[h].t \in Ids /\ row[fin[h].t].role # "feeder"
  /\ live' = live /\ Others(h) /\ Way(h)'
  /\ \A u \in Ids :
       /\ SameOrigin(u) /\ row'[u].cycles = row[u].cycles
       /\ row[u].role = "feeder" => row'[u].st = row[u].st
       /\ Changes(h, u)
       /\ \A f \in Ids \ {u} : row[f].role = "feeder" /\ f \in row[u].deps => f \in row'[u].deps
       /\ \A f \in Ids : row[f].role = "feeder" /\ f \in row'[u].deps =>
            f \in row[u].deps \/ (fin[h].pc = "hold" /\ u = fin[h].t /\ f = fin[h].x)
  /\ fin'[h] = Idle \/ Onward(h)

(* A thread makes a task that is no research, and turns tasks over to it.  *)
MakeStep(h) ==
  /\ fin[h].t \in Ids /\ row[fin[h].t].role # "feeder"
  /\ fin[h].pc \in {"validate", "prune", "terminal"}
  /\ live' = live /\ Others(h) /\ Way(h)'
  /\ \E b \in New :
       /\ row[b].st = "absent" /\ \A u \in Ids \ {b} : row'[u] = row[u]
       /\ row'[b].st = "pending" /\ row'[b].of = fin[h].t
       /\ row'[b].role \in {"bug", "continuation", "recovery", "escalated"}
       /\ row'[b].role \in {"bug", "continuation"} => fin[h].pc \in {"validate", "terminal"}
       /\ row'[b].role = "continuation" =>
            row[fin[h].t].role = "recovery" /\ row[fin[h].t].type # "bug"
  /\ fin'[h].t = fin[h].t /\ fin'[h].seen = fin[h].seen /\ fin'[h].pc = "reparent"

(* A thread about research, until it writes what it found.                 *)
FeederStep(h) ==
  /\ fin[h].t \in Ids /\ row[fin[h].t].role = "feeder"
  /\ live' = live /\ Others(h) /\ Way(h)'
  /\ \A u \in Ids : /\ SameOrigin(u) /\ row'[u].cycles = row[u].cycles
                    /\ row'[u].deps = row[u].deps
                    /\ u # fin[h].t =>
                         \/ row'[u].st = row[u].st
                         \/ row[u].role # "feeder" /\ row'[u].st = "cancelled"
  /\ \/ fin'[h] = Idle /\ row'[fin[h].t].st = "pending"
     \/ /\ row'[fin[h].t].st \notin {"pending", "in_progress"}
        /\ fin'[h].t = fin[h].t /\ fin'[h].seen = fin[h].seen
        /\ fin'[h].pc \in {"stale", "apply", "inject", "exhaust"}
        /\ fin'[h].pc = "inject" =>
             LET o == row[fin[h].t].of IN
             /\ fin'[h].x = o /\ fin'[h].cycles = row[o].cycles + 1
             /\ fin'[h].deps = row[o].deps \ {fin[h].t}

LEMMA PutsThread ==
  ASSUME ThreadsOK, NEW h \in Finishers, NEW f, Goes(h, f)
  PROVE  fin'[h] = f /\ Others(h)
BY DEF ThreadsOK, Goes, Others

LEMMA EndsThread ==
  ASSUME ThreadsOK, NEW h \in Finishers, Done(h)
  PROVE  fin'[h] = Idle /\ Others(h) /\ Way(h)'
<1>1. fin'[h] = Idle /\ Others(h)
  BY DEF ThreadsOK, Done, Others
<1>2. Way(h)'
  BY <1>1, Constants DEF Way, Idle
<1> QED BY <1>1, <1>2

LEMMA PutsRow ==
  ASSUME RowsOK, NEW t \in Ids, NEW r, row' = [row EXCEPT ![t] = r]
  PROVE  row'[t] = r /\ \A u \in Ids \ {t} : row'[u] = row[u]
BY DEF RowsOK

(* Nothing is written.                                                     *)
RowsSame == \A u \in Ids : row'[u] = row[u]

LEMMA WhereThreadsAre ==
  ASSUME TypeOK, Research, NEW h \in Finishers, fin[h].pc # "idle"
  PROVE  /\ fin[h].t \in Ids /\ row[fin[h].t].st # "absent"
         /\ fin[h].pc \notin {"complete", "judge"} => row[fin[h].t].st # "in_progress"
         /\ row[fin[h].t].st # "pending" /\ fin[h].t \notin live
         /\ \A g \in Finishers : fin[g].t = fin[h].t => g = h
         /\ Way(h)
<1>1. fin[h].t \in Ids /\ Handled(fin[h].t) /\ Way(h) /\ fin[h].t # NoTask
  BY ThreadOf, Constants DEF TypeOK, Research, Ways, Handled, About
<1>2. row[fin[h].t].st # "absent"
  BY <1>1 DEF Research, Origins
<1>3. /\ row[fin[h].t].st # "pending" /\ fin[h].t \notin live
      /\ \A g \in Finishers : fin[g].t = fin[h].t => g = h
      /\ fin[h].pc \notin {"complete", "judge"} => row[fin[h].t].st # "in_progress"
  BY <1>1 DEF Research, OneHand
<1> QED BY <1>1, <1>2, <1>3

LEMMA TransferSteps ==
  ASSUME TypeOK, Research, NEW h \in Finishers,
         \/ \E u \in Ids : Reparent(h, u) \/ CancelStale(h, u) \/ Prune(h, u)
         \/ Reparented(h)
  PROVE  PlainStep(h) \/ FeederStep(h)
<1> USE DEF TypeOK, At
<1> DEFINE f == fin[h]   t == fin[h].t
<1>1. ASSUME NEW u \in Ids, Reparent(h, u) PROVE PlainStep(h)
  <2> DEFINE D == IF row[u].deps \cap f.from = {} THEN row[u].deps
                  ELSE ((row[u].deps \ f.from) \cup {f.x}) \ {u}
  <2>1. /\ f.pc = "reparent" /\ t \in Ids /\ row[t].role # "feeder" /\ f.from = {t}
        /\ f.x \in Ids /\ row[f.x].role # "feeder" /\ live' = live /\ Way(h)
    BY <1>1, WhereThreadsAre DEF Reparent, Way, ThreadsOK, Else
  <2>2. CASE ~Writable(u, D)
    <3>1. RowsSame /\ fin'[h] = Idle /\ Others(h) /\ Way(h)'
      BY <1>1, <2>2, EndsThread DEF Reparent, Refused, RowsSame
    <3> QED BY <2>1, <3>1 DEF PlainStep, RowsSame, SameOrigin, Changes
  <2>3. CASE Writable(u, D)
    <3> DEFINE r == [row[u] EXCEPT !.deps = D]   g == [fin[h] EXCEPT !.todo = f.todo \ {u}]
    <3>1. row' = [row EXCEPT ![u] = r] /\ Goes(h, g)
      BY <1>1, <2>3 DEF Reparent
    <3>2. row'[u] = r /\ \A v \in Ids \ {u} : row'[v] = row[v]
      <4> HIDE DEF r
      <4> QED BY <3>1, PutsRow
    <3>3. fin'[h] = g /\ Others(h)
      <4> HIDE DEF g
      <4> QED BY <3>1, PutsThread
    <3>4. /\ r.role = row[u].role /\ r.of = row[u].of /\ r.root = row[u].root /\ r.st = row[u].st
          /\ r.type = row[u].type /\ r.cycles = row[u].cycles /\ r.deps = D
      <4> PICK q \in RowTypes : q = row[u]
        BY RowOf
      <4> HIDE DEF D
      <4> QED BY DEF RowTypes
    <3>5. /\ g.pc = f.pc /\ g.t = f.t /\ g.x = f.x /\ g.seen = f.seen /\ g.then = f.then
          /\ g.from = f.from /\ g.cycles = f.cycles
      <4> PICK q \in ThreadTypes : q = fin[h]
        BY ThreadOf
      <4> QED BY DEF ThreadTypes
    <3> HIDE DEF r, g
    <3>6. \A v \in Ids : SameOrigin(v) /\ row'[v].cycles = row[v].cycles /\ row'[v].st = row[v].st
      BY <3>2, <3>4 DEF SameOrigin
    <3>7. \A v \in Ids :
            /\ \A e \in Ids \ {v} : row[e].role = "feeder" /\ e \in row[v].deps => e \in row'[v].deps
            /\ \A e \in Ids : row[e].role = "feeder" /\ e \in row'[v].deps => e \in row[v].deps
      BY <2>1, <3>2, <3>4
    <3>8. Way(h)'
      BY <2>1, <3>3, <3>5, <3>6 DEF Way, SameOrigin
    <3> QED BY <2>1, <3>3, <3>5, <3>6, <3>7, <3>8 DEF PlainStep, Changes, Onward
  <2> QED BY <2>2, <2>3
<1>2. ASSUME NEW r \in Ids, CancelStale(h, r) \/ Prune(h, r) PROVE PlainStep(h) \/ FeederStep(h)
  <2> DEFINE q == [row[r] EXCEPT !.st = "cancelled"]   g == [fin[h] EXCEPT !.todo = f.todo \ {r}]
  <2>1. /\ f.pc \in {"stale", "prune"} /\ t \in Ids /\ r \in f.todo
        /\ row[r].role # "feeder" /\ row[r].st # "absent" /\ live' = live /\ Way(h)
        /\ row[t].st # "in_progress" /\ row[t].st # "pending"
    BY <1>2, WhereThreadsAre DEF CancelStale, Prune, Way, Else
  <2>2. row' = [row EXCEPT ![r] = q] /\ Goes(h, g)
    BY <1>2 DEF CancelStale, Prune, Set
  <2>3. row'[r] = q /\ \A v \in Ids \ {r} : row'[v] = row[v]
    <3> HIDE DEF q
    <3> QED BY <2>2, PutsRow
  <2>4. fin'[h] = g /\ Others(h)
    <3> HIDE DEF g
    <3> QED BY <2>2, PutsThread
  <2>5. /\ q.role = row[r].role /\ q.of = row[r].of /\ q.root = row[r].root /\ q.st = "cancelled"
        /\ q.type = row[r].type /\ q.cycles = row[r].cycles /\ q.deps = row[r].deps
    <3> PICK p \in RowTypes : p = row[r]
      BY RowOf
    <3> QED BY DEF RowTypes
  <2>6. /\ g.pc = f.pc /\ g.t = f.t /\ g.x = f.x /\ g.seen = f.seen /\ g.then = f.then
        /\ g.from = f.from /\ g.cycles = f.cycles /\ g.todo = f.todo \ {r}
    <3> PICK p \in ThreadTypes : p = fin[h]
      BY ThreadOf
    <3> QED BY DEF ThreadTypes
  <2> HIDE DEF q, g
  <2>7. \A v \in Ids : /\ SameOrigin(v) /\ row'[v].cycles = row[v].cycles
                       /\ row'[v].deps = row[v].deps
                       /\ row'[v].st \in {row[v].st, "cancelled"}
                       /\ row[v].role = "feeder" => row'[v].st = row[v].st
    BY <2>1, <2>3, <2>5 DEF SameOrigin
  <2>8. Way(h)'
    <3>1. \A v \in fin'[h].todo : row'[v].st # "absent" /\ row'[v].role # "feeder"
      BY <2>1, <2>4, <2>6, <2>7, ThreadOf DEF Way, SameOrigin
    <3>2. f.pc = "prune" /\ f.x # NoTask => row'[f.x].st # "absent" /\ row'[f.x].role # "feeder"
      BY <2>1, <2>7, ThreadOf DEF Way, SameOrigin, Perhaps
    <3> QED BY <2>1, <2>4, <2>6, <2>7, <3>1, <3>2 DEF Way, SameOrigin
  <2>9. CASE row[t].role # "feeder"
    BY <2>1, <2>4, <2>6, <2>7, <2>8, <2>9 DEF PlainStep, Changes, Onward
  <2>10. CASE row[t].role = "feeder"
    <3>1. f.pc = "stale" /\ row'[t].st = row[t].st
      BY <2>1, <2>7, <2>10 DEF Way
    <3> QED BY <2>1, <2>4, <2>6, <2>7, <2>8, <2>10, <3>1 DEF FeederStep
  <2> QED BY <2>9, <2>10
<1>3. CASE Reparented(h)
  <2> DEFINE g == [fin[h] EXCEPT !.pc = f.then, !.lock = NoTask]
  <2>1. /\ f.pc = "reparent" /\ t \in Ids /\ row[t].role # "feeder" /\ f.then \in {"idle", "cancel"}
        /\ live' = live /\ RowsSame
    BY <1>3, WhereThreadsAre DEF Reparented, Way, Else, RowsSame
  <2>2. CASE f.then = "idle"
    <3>1. fin'[h] = Idle /\ Others(h) /\ Way(h)'
      BY <1>3, <2>2, EndsThread DEF Reparented
    <3> QED BY <2>1, <3>1 DEF PlainStep, RowsSame, SameOrigin, Changes
  <2>3. CASE f.then = "cancel"
    <3>1. Goes(h, g)
      BY <1>3, <2>3 DEF Reparented
    <3>2. fin'[h] = g /\ Others(h)
      <4> HIDE DEF g
      <4> QED BY <3>1, PutsThread
    <3>3. g.pc = "cancel" /\ g.t = f.t /\ g.seen = f.seen /\ g.then = "cancel"
      <4> PICK q \in ThreadTypes : q = fin[h]
        BY ThreadOf
      <4> QED BY <2>3 DEF ThreadTypes
    <3> HIDE DEF g
    <3>4. Way(h)'
      BY <2>1, <3>2, <3>3 DEF Way, RowsSame
    <3> QED BY <2>1, <3>2, <3>3, <3>4 DEF PlainStep, RowsSame, SameOrigin, Changes, Onward
  <2> QED BY <2>1, <2>2, <2>3
<1> QED BY <1>1, <1>2, <1>3

(* The rows keep all but their state, their attempts and perhaps t its     *)
(* dependencies.                                                           *)
Steady(t) ==
  \A v \in Ids : /\ SameOrigin(v) /\ row'[v].cycles = row[v].cycles
                 /\ v # t => row'[v].st = row[v].st /\ row'[v].deps = row[v].deps

LEMMA SetDoes ==
  ASSUME RowsOK, NEW t \in Ids, NEW s \in Statuses \ {"absent"}, row[t].st # "absent", Set(t, s)
  PROVE  Steady(t) /\ row'[t].st = s /\ row'[t].deps = row[t].deps
<1>1. row' = [row EXCEPT ![t] = [row[t] EXCEPT !.st = s]]
  BY DEF Set
<1> DEFINE r == [row[t] EXCEPT !.st = s]
<1>2. row'[t] = r /\ \A v \in Ids \ {t} : row'[v] = row[v]
  <2> HIDE DEF r
  <2> QED BY <1>1, PutsRow DEF r
<1>3. /\ r.role = row[t].role /\ r.of = row[t].of /\ r.root = row[t].root /\ r.st = s
      /\ r.type = row[t].type /\ r.cycles = row[t].cycles /\ r.deps = row[t].deps
  <2> PICK p \in RowTypes : p = row[t]
    BY RowOf
  <2> QED BY DEF RowTypes
<1> HIDE DEF r
<1> QED BY <1>2, <1>3 DEF SameOrigin, Steady

LEMMA PutDoes ==
  ASSUME RowsOK, NEW t \in Ids, NEW r \in RowTypes, row' = [row EXCEPT ![t] = r],
         r.role = row[t].role, r.of = row[t].of, r.root = row[t].root, r.type = row[t].type,
         r.cycles = row[t].cycles, r.st # "absent", row[t].st # "absent"
  PROVE  Steady(t) /\ row'[t].st = r.st /\ row'[t].deps = r.deps
BY PutsRow DEF SameOrigin, Steady

LEMMA GoDoes ==
  ASSUME ThreadsOK, NEW h \in Finishers, NEW p, Go(h, p)
  PROVE  /\ Others(h) /\ fin'[h].pc = p /\ fin'[h].t = fin[h].t /\ fin'[h].x = fin[h].x
         /\ fin'[h].seen = fin[h].seen /\ fin'[h].then = fin[h].then
         /\ fin'[h].from = fin[h].from /\ fin'[h].todo = fin[h].todo
         /\ fin'[h].cycles = fin[h].cycles /\ fin'[h].deps = fin[h].deps
<1> DEFINE g == [fin[h] EXCEPT !.pc = p]
<1>1. fin'[h] = g /\ Others(h)
  BY PutsThread DEF Go
<1>2. /\ g.pc = p /\ g.t = fin[h].t /\ g.x = fin[h].x /\ g.seen = fin[h].seen
      /\ g.then = fin[h].then /\ g.from = fin[h].from /\ g.todo = fin[h].todo
      /\ g.cycles = fin[h].cycles /\ g.deps = fin[h].deps
  <2> PICK q \in ThreadTypes : q = fin[h]
    BY ThreadOf
  <2> QED BY DEF ThreadTypes
<1> QED BY <1>1, <1>2

LEMMA HandsDoes ==
  ASSUME ThreadsOK, NEW h \in Finishers, NEW S, NEW x, NEW D, Hands(h, S, x, D)
  PROVE  /\ Others(h) /\ fin'[h].pc = "reparent" /\ fin'[h].t = fin[h].t /\ fin'[h].x = x
         /\ fin'[h].seen = fin[h].seen /\ fin'[h].then = fin[h].then /\ fin'[h].from = S
<1> DEFINE g == [fin[h] EXCEPT !.pc = "reparent", !.from = S, !.x = x, !.todo = D,
                               !.kin = {}, !.deps = {}, !.depth = 0, !.cycles = 0]
<1>1. fin'[h] = g /\ Others(h)
  BY PutsThread DEF Hands
<1>2. /\ g.pc = "reparent" /\ g.t = fin[h].t /\ g.x = x /\ g.seen = fin[h].seen
      /\ g.then = fin[h].then /\ g.from = S
  <2> PICK q \in ThreadTypes : q = fin[h]
    BY ThreadOf
  <2> QED BY DEF ThreadTypes
<1> QED BY <1>1, <1>2

(* A thread of a task that is over, or whose write changes only the task,  *)
(* ends.                                                                   *)
LEMMA PlainEnd ==
  ASSUME TypeOK, Research, NEW h \in Finishers, fin[h].pc # "idle",
         row[fin[h].t].role # "feeder", live' = live, Done(h), Steady(fin[h].t),
         Changes(h, fin[h].t),
         row'[fin[h].t].deps = row[fin[h].t].deps
  PROVE  PlainStep(h)
<1>1. fin'[h] = Idle /\ Others(h) /\ Way(h)'
  BY EndsThread DEF TypeOK
<1>2. fin[h].t \in Ids
  BY WhereThreadsAre
<1>3. \A v \in Ids : Changes(h, v)
  BY DEF Changes, Steady
<1>4. \A v \in Ids : row'[v].deps = row[v].deps
  BY DEF Steady
<1> QED BY <1>1, <1>2, <1>3, <1>4 DEF PlainStep, Steady, SameOrigin

LEMMA NothingWritten == ASSUME UNCHANGED row PROVE \A t \in Ids : Steady(t) /\ row'[t].deps = row[t].deps
BY DEF Steady, SameOrigin

(* A thread about a task is at none of the places where the task may have  *)
(* a bug or a continuation, so it has none; nor has it research out.       *)
LEMMA NoBug ==
  ASSUME TypeOK, Research, NEW h \in Finishers,
         fin[h].pc \notin {"idle", "reparent", "review", "prune", "cancel"}
  PROVE  /\ BugOf(fin[h].t) = {}
         /\ \A b \in Ids : row[b].of = fin[h].t => row[b].role \notin {"bug", "continuation"}
<1>1. fin[h].t \in Ids
  BY WhereThreadsAre
<1> QED BY <1>1 DEF BugOf, Rows, Research, Succeeded, About

LEMMA NoneOut ==
  ASSUME TypeOK, Research, NEW h \in Finishers, fin[h].pc \notin {"idle", "hold"}
  PROVE  \A f \in Ids : Feeder(f, fin[h].t) => ~Out(f)
<1>1. fin[h].t \in Ids
  BY WhereThreadsAre
<1> QED BY <1>1 DEF Research, OneOut, About

LEMMA OutcomeSteps ==
  ASSUME TypeOK, Research, NEW h \in Finishers, Complete(h) \/ Credit(h) \/ ValidationPasses(h)
  PROVE  PlainStep(h) \/ FeederStep(h)
<1> USE DEF TypeOK, At
<1> DEFINE f == fin[h]   t == fin[h].t
<1>1. CASE Complete(h)
  <2> DEFINE D == {r \in Rows \ {t} : row[r].of = t
                   /\ \/ row[r].role = "recovery" /\ row[r].st = "pending"
                      \/ row[r].role = "feeder" /\ r \in Active}
             g == [fin[h] EXCEPT !.pc = "stale", !.todo = D]
  <2>1. f.pc = "complete" /\ t \in Ids /\ row[t].st # "absent" /\ live' = live /\ Way(h)
    BY <1>1, WhereThreadsAre DEF Complete, Else
  <2>2. Steady(t) /\ row'[t].st = "completed" /\ row'[t].deps = row[t].deps
    BY <1>1, <2>1, SetDoes DEF Complete, Statuses
  <2>3. Goes(h, g)
    BY <1>1 DEF Complete
  <2>4. fin'[h] = g /\ Others(h)
    <3> HIDE DEF g
    <3> QED BY <2>3, PutsThread
  <2>5. g.pc = "stale" /\ g.t = t /\ g.seen = f.seen /\ g.then = f.then /\ g.todo = D
    <3> HIDE DEF D
    <3> PICK p \in ThreadTypes : p = fin[h]
      BY ThreadOf
    <3> QED BY DEF ThreadTypes
  <2>6. \A r \in D : r \in Ids /\ row[r].st # "absent" /\ row[r].role # "feeder"
    <3> TAKE r \in D
    <3>1. r \in Ids /\ row[r].st # "absent" /\ row[r].of = t
      BY DEF Rows
    <3>2. CASE row[r].role = "feeder"
      <4>1. Feeder(r, t) /\ Out(r)
        BY <3>1, <3>2 DEF Feeder, Out, Active
      <4> QED BY <2>1, <3>1, <4>1, NoneOut
    <3> QED BY <3>1, <3>2
  <2> HIDE DEF D, g
  <2>7. Way(h)'
    BY <2>1, <2>2, <2>4, <2>5, <2>6 DEF Way, Steady, SameOrigin
  <2>8. CASE row[t].role # "feeder"
    <3>1. \A v \in Ids : Changes(h, v)
      BY <2>1, <2>2 DEF Changes, Steady
    <3>2. \A v \in Ids : row'[v].deps = row[v].deps
      BY <2>2 DEF Steady
    <3>3. Onward(h)
      BY <2>1, <2>2, <2>4, <2>5 DEF Onward
    <3>4. \A v \in Ids : /\ SameOrigin(v) /\ row'[v].cycles = row[v].cycles
                         /\ row[v].role = "feeder" => row'[v].st = row[v].st
      BY <2>2, <2>8 DEF Steady
    <3> QED BY <2>1, <2>4, <2>7, <2>8, <3>1, <3>2, <3>3, <3>4 DEF PlainStep
  <2>9. CASE row[t].role = "feeder"
    BY <2>1, <2>2, <2>4, <2>5, <2>7, <2>9 DEF FeederStep, Steady
  <2> QED BY <2>8, <2>9
<1>2. CASE Credit(h)
  <2> DEFINE o == row[t].of
  <2>1. /\ f.pc = "stale" /\ t \in Ids /\ row[t].st # "absent" /\ live' = live /\ Way(h)
        /\ row[t].st # "in_progress" /\ row[t].st # "pending"
    BY <1>2, WhereThreadsAre DEF Credit, Else
  <2>2. /\ \A v \in Ids : /\ SameOrigin(v) /\ row'[v].cycles = row[v].cycles
                          /\ row'[v].deps = row[v].deps /\ Changes(h, v)
                          /\ row[v].role = "feeder" => row'[v].st = row[v].st
        /\ row[t].role = "feeder" => \A v \in Ids : row'[v].st = row[v].st
    <3>1. CASE row[t].role = "continuation" /\ row[o].st = "failed"
      <4>1. o \in Ids /\ row[o].role = "recovery"
        BY <2>1, <3>1 DEF Research, Origins
      <4>2. Steady(o) /\ row'[o].st = "completed" /\ row'[o].deps = row[o].deps
        BY <1>2, <3>1, <4>1, SetDoes DEF Credit, Statuses
      <4> QED BY <2>1, <3>1, <4>1, <4>2 DEF Steady, Changes
    <3>2. CASE ~(row[t].role = "continuation" /\ row[o].st = "failed")
      BY <1>2, <3>2 DEF Credit, SameOrigin, Changes
    <3> QED BY <3>1, <3>2
  <2>3. CASE row[t].role = "feeder"
    <3>1. Go(h, "apply")
      BY <1>2, <2>3 DEF Credit
    <3>2. Others(h) /\ fin'[h].pc = "apply" /\ fin'[h].t = t /\ fin'[h].seen = f.seen
          /\ fin'[h].then = f.then
      BY <3>1, GoDoes
    <3>3. Way(h)'
      BY <2>1, <2>2, <2>3, <3>2 DEF Way, SameOrigin
    <3> QED BY <2>1, <2>2, <2>3, <3>2, <3>3 DEF FeederStep
  <2>4. CASE row[t].role # "feeder" /\ Validated(t)
    <3>1. Go(h, "validate")
      BY <1>2, <2>4 DEF Credit
    <3>2. Others(h) /\ fin'[h].pc = "validate" /\ fin'[h].t = t /\ fin'[h].seen = f.seen
          /\ fin'[h].then = f.then
      BY <3>1, GoDoes
    <3>3. Way(h)'
      BY <2>1, <2>2, <2>4, <3>2 DEF Way, SameOrigin
    <3>4. Onward(h)
      BY <2>1, <3>2 DEF Onward
    <3> QED BY <2>1, <2>2, <2>4, <3>2, <3>3, <3>4 DEF PlainStep
  <2>5. CASE row[t].role # "feeder" /\ ~Validated(t)
    <3>1. fin'[h] = Idle /\ Others(h) /\ Way(h)'
      BY <1>2, <2>5, EndsThread DEF Credit
    <3> QED BY <2>1, <2>2, <2>5, <3>1 DEF PlainStep
  <2> QED BY <2>3, <2>4, <2>5
<1>3. CASE ValidationPasses(h)
  <2>1. f.pc = "validate" /\ t \in Ids /\ row[t].role # "feeder" /\ live' = live
    BY <1>3, WhereThreadsAre DEF ValidationPasses, Way, Else
  <2>2. Steady(t) /\ row'[t].deps = row[t].deps /\ Changes(h, t) /\ Done(h)
    BY <1>3, <2>1, NothingWritten DEF ValidationPasses, Changes
  <2> QED BY <2>1, <2>2, PlainEnd
<1> QED BY <1>1, <1>2, <1>3

LEMMA FreshDoes ==
  ASSUME RowsOK, Free # {}, NEW r, row' = [row EXCEPT ![Fresh] = r]
  PROVE  /\ Fresh \in New /\ row[Fresh].st = "absent" /\ row'[Fresh] = r
         /\ \A u \in Ids \ {Fresh} : row'[u] = row[u]
<1>1. Fresh \in New /\ row[Fresh].st = "absent" /\ Fresh \in Ids
  BY FreshIsFree, Constants
<1> QED BY <1>1, PutsRow

(* Turning tasks over to a new one.                                        *)
LEMMA WayOfNew ==
  ASSUME TypeOK, Research, NEW h \in Finishers, NEW b \in Ids,
         fin[h].t \in Ids, row[fin[h].t].role # "feeder", row'[fin[h].t] = row[fin[h].t],
         fin'[h].pc = "reparent", fin'[h].t = fin[h].t, fin'[h].then = fin[h].then,
         fin'[h].from = {fin[h].t}, fin'[h].x = b,
         row'[b].st # "absent", row'[b].role # "feeder"
  PROVE  Way(h)'
<1>1. Way(h)
  BY DEF Research, Ways
<1> QED BY <1>1, Constants DEF Way

LEMMA BugSteps ==
  ASSUME TypeOK, Research, NEW h \in Finishers, ValidationFails(h)
  PROVE  PlainStep(h) \/ MakeStep(h)
<1> USE DEF TypeOK, At
<1> DEFINE f == fin[h]   t == fin[h].t   b == Fresh
<1>0. /\ f.pc = "validate" /\ t \in Ids /\ row[t].st # "absent" /\ row[t].role # "feeder"
      /\ live' = live /\ Way(h) /\ row[t].st # "pending" /\ row[t].st # "in_progress"
  BY WhereThreadsAre DEF ValidationFails, Way, Else
<1>1. CASE Done(h) /\ UNCHANGED row
  <2>1. Steady(t) /\ row'[t].deps = row[t].deps /\ Changes(h, t)
    BY <1>0, <1>1, NothingWritten DEF Changes
  <2> QED BY <1>0, <1>1, <2>1, PlainEnd
<1>2. CASE /\ row' = [row EXCEPT ![t].st = "failed", ![t].att = row[t].max]
           /\ Goes(h, [fin[h] EXCEPT !.pc = "review", !.then = "idle"])
  <2> DEFINE r == [row[t] EXCEPT !.st = "failed", !.att = row[t].max]
             g == [fin[h] EXCEPT !.pc = "review", !.then = "idle"]
  <2>1. row' = [row EXCEPT ![t] = r]
    BY <1>0, <1>2 DEF RowsOK
  <2>2. /\ r \in RowTypes /\ r.role = row[t].role /\ r.of = row[t].of /\ r.st = "failed"
        /\ r.root = row[t].root /\ r.type = row[t].type /\ r.cycles = row[t].cycles
        /\ r.deps = row[t].deps
    <3> PICK p \in RowTypes : p = row[t]
      BY <1>0, RowOf
    <3> QED BY DEF RowTypes
  <2>3. Steady(t) /\ row'[t].st = "failed" /\ row'[t].deps = row[t].deps
    <3> HIDE DEF r
    <3> QED BY <1>0, <2>1, <2>2, PutDoes
  <2>4. fin'[h] = g /\ Others(h)
    <3> HIDE DEF g
    <3> QED BY <1>2, PutsThread DEF g
  <2>5. g.pc = "review" /\ g.t = t /\ g.then = "idle" /\ g.seen = f.seen
    <3> PICK p \in ThreadTypes : p = fin[h]
      BY ThreadOf
    <3> QED BY DEF ThreadTypes
  <2> HIDE DEF r, g
  <2>6. Way(h)' /\ Onward(h)
    BY <1>0, <2>3, <2>4, <2>5 DEF Way, Steady, SameOrigin, Onward
  <2>7. \A v \in Ids : /\ Changes(h, v) /\ row'[v].deps = row[v].deps
                       /\ row[v].role = "feeder" => row'[v].st = row[v].st
    BY <1>0, <2>3 DEF Changes, Steady
  <2> QED BY <1>0, <2>3, <2>4, <2>6, <2>7 DEF PlainStep, Steady
<1>3. CASE BugOf(t) # {}
  BY <1>0, <1>3, NoBug
<1>4. CASE /\ Free # {} /\ row' = [row EXCEPT ![b] = AsBugOf(t, Task("bug", "bug", t, {t}))]
           /\ Hands(h, {t}, b, Dependents(t))
  <2> DEFINE T == Task("bug", "bug", t, {t})   r == AsBugOf(t, T)
  <2>1. T \in RowTypes /\ T.st = "pending" /\ T.of = t
    <3>1. T \in RowTypes
      BY <1>0, TaskType DEF Types, Roles, Perhaps
    <3> QED BY <3>1 DEF Task, Absent
  <2>2. r.st = "pending" /\ r.of = t /\ r.role = "bug"
    <3> HIDE DEF T
    <3> QED BY <2>1 DEF AsBugOf, RowTypes
  <2>3. /\ b \in New /\ row[b].st = "absent" /\ row'[b] = r
        /\ \A u \in Ids \ {b} : row'[u] = row[u]
    <3> HIDE DEF r
    <3> QED BY <1>4, FreshDoes DEF r
  <2>4. /\ Others(h) /\ fin'[h].pc = "reparent" /\ fin'[h].t = t /\ fin'[h].x = b
        /\ fin'[h].seen = f.seen /\ fin'[h].then = f.then /\ fin'[h].from = {t}
    BY <1>4, HandsDoes
  <2>5. Way(h)'
    <3> HIDE DEF r
    <3> QED BY <1>0, <2>2, <2>3, <2>4, WayOfNew, Constants
  <2> HIDE DEF r
  <2> QED BY <1>0, <2>2, <2>3, <2>4, <2>5 DEF MakeStep
<1> QED BY <1>1, <1>2, <1>3, <1>4 DEF ValidationFails

LEMMA JudgeSteps ==
  ASSUME TypeOK, Research, NEW h \in Finishers, Judge(h)
  PROVE  PlainStep(h) \/ FeederStep(h)
<1> USE DEF TypeOK, At
<1> DEFINE f == fin[h]   t == fin[h].t
<1>0. /\ f.pc = "judge" /\ t \in Ids /\ row[t].st # "absent" /\ live' = live /\ Way(h)
      /\ row[t] \in RowTypes /\ row[t].att + 1 \in Nat /\ row[t].st # "pending"
  BY WhereThreadsAre, RowOf, SMTT(30) DEF Judge, Else
<1>1. ASSUME NEW s \in {"pending", "failed"},
             \/ Set(t, s)
             \/ row' = [row EXCEPT ![t].st = s, ![t].att = @ + 1]
      PROVE  Steady(t) /\ row'[t].st = s /\ row'[t].deps = row[t].deps
  <2>1. CASE Set(t, s)
    BY <1>0, <1>1, <2>1, SetDoes DEF Statuses
  <2>2. CASE row' = [row EXCEPT ![t].st = s, ![t].att = @ + 1]
    <3> DEFINE r == [row[t] EXCEPT !.st = s, !.att = @ + 1]
    <3>1. row' = [row EXCEPT ![t] = r]
      BY <1>0, <2>2 DEF RowsOK
    <3>2. /\ r \in RowTypes /\ r.role = row[t].role /\ r.of = row[t].of /\ r.st = s
          /\ r.root = row[t].root /\ r.type = row[t].type /\ r.cycles = row[t].cycles
          /\ r.deps = row[t].deps
      <4> PICK p \in RowTypes : p = row[t]
        BY <1>0
      <4> QED BY <1>0 DEF RowTypes
    <3> HIDE DEF r
    <3> QED BY <1>0, <3>1, <3>2, PutDoes
  <2> QED BY <1>1, <2>1, <2>2
<1>2. CASE /\ Set(t, "pending") \/ row' = [row EXCEPT ![t].st = "pending", ![t].att = @ + 1]
           /\ Done(h)
  <2>1. Steady(t) /\ row'[t].st = "pending" /\ row'[t].deps = row[t].deps
    BY <1>1, <1>2
  <2>2. fin'[h] = Idle /\ Others(h) /\ Way(h)'
    BY <1>2, EndsThread
  <2>3. CASE row[t].role # "feeder"
    <3>1. Changes(h, t)
      BY <1>0, <2>1, <2>2 DEF Changes
    <3> QED BY <1>0, <1>2, <2>1, <2>3, <3>1, PlainEnd
  <2>4. CASE row[t].role = "feeder"
    BY <1>0, <2>1, <2>2, <2>4 DEF FeederStep, Steady
  <2> QED BY <2>3, <2>4
<1>3. CASE /\ row' = [row EXCEPT ![t].st = "failed", ![t].att = @ + 1]
           /\ Goes(h, [fin[h] EXCEPT !.pc = Outcome(t), !.cycles = row[t].cycles])
  <2> DEFINE p == Outcome(t)   g == [fin[h] EXCEPT !.pc = p, !.cycles = row[t].cycles]
  <2>1. Steady(t) /\ row'[t].st = "failed" /\ row'[t].deps = row[t].deps
    BY <1>1, <1>3
  <2>2. /\ p \in {"feed", "terminal", "exhaust", "soft", "dependents"}
        /\ p = "exhaust" <=> row[t].role = "feeder"
        /\ p = "terminal" => row[t].role = "recovery" /\ row[t].type # "bug"
        /\ p = "feed" => Feeds(t)
    BY DEF Outcome, Feeds
  <2>3. fin'[h] = g /\ Others(h)
    <3> HIDE DEF g
    <3> QED BY <1>3, PutsThread DEF g
  <2>4. g.pc = p /\ g.t = t /\ g.then = f.then /\ g.seen = f.seen /\ g.cycles = row[t].cycles
    <3> HIDE DEF p
    <3> PICK a \in ThreadTypes : a = fin[h]
      BY ThreadOf
    <3> QED BY DEF ThreadTypes
  <2> HIDE DEF p, g
  <2>5. Way(h)'
    BY <1>0, <2>1, <2>2, <2>3, <2>4 DEF Way, Steady, SameOrigin, Feeds
  <2>6. CASE row[t].role # "feeder"
    <3>1. Onward(h)
      BY <1>0, <2>1, <2>2, <2>3, <2>4, <2>6 DEF Onward
    <3>2. \A v \in Ids : /\ Changes(h, v) /\ row'[v].deps = row[v].deps
                         /\ row[v].role = "feeder" => row'[v].st = row[v].st
      BY <1>0, <2>1, <2>6 DEF Changes, Steady
    <3> QED BY <1>0, <2>1, <2>3, <2>5, <2>6, <3>1, <3>2 DEF PlainStep, Steady
  <2>7. CASE row[t].role = "feeder"
    BY <1>0, <2>1, <2>2, <2>3, <2>4, <2>5, <2>7 DEF FeederStep, Steady
  <2> QED BY <2>6, <2>7
<1> QED BY <1>2, <1>3 DEF Judge

LEMMA FailureSteps ==
  ASSUME TypeOK, Research, NEW h \in Finishers,
         Exhaust(h) \/ SoftComplete(h) \/ Cancel(h) \/ CheckDependents(h)
  PROVE  PlainStep(h) \/ FeederStep(h)
<1> USE DEF TypeOK, At
<1> DEFINE f == fin[h]   t == fin[h].t
<1>0. ASSUME f.pc # "idle"
      PROVE  t \in Ids /\ row[t].st # "absent" /\ Way(h) /\ row[t].st # "pending"
             /\ (f.pc # "complete" /\ f.pc # "judge" => row[t].st # "in_progress")
  BY <1>0, WhereThreadsAre
<1>1. CASE Exhaust(h)
  <2> DEFINE g == [fin[h] EXCEPT !.pc = "apply", !.exhausted = TRUE]
  <2>1. f.pc = "exhaust" /\ t \in Ids /\ row[t].role = "feeder" /\ row[t].st # "absent" /\ Way(h)
        /\ live' = live
    BY <1>0, <1>1 DEF Exhaust, ThreadsOK, Else
  <2>2. Steady(t) /\ row'[t].st = "cancelled" /\ row'[t].deps = row[t].deps
    BY <1>1, <2>1, SetDoes DEF Exhaust, Statuses
  <2>3. fin'[h] = g /\ Others(h)
    <3>1. Goes(h, g)
      BY <1>1, Zenon DEF Exhaust
    <3> HIDE DEF g
    <3> QED BY <3>1, PutsThread
  <2>4. g.pc = "apply" /\ g.t = t /\ g.then = f.then /\ g.seen = f.seen
    <3> PICK a \in ThreadTypes : a = fin[h]
      BY ThreadOf
    <3> QED BY DEF ThreadTypes
  <2> HIDE DEF g
  <2>5. Way(h)'
    BY <2>1, <2>2, <2>3, <2>4 DEF Way, Steady, SameOrigin
  <2> QED BY <2>1, <2>2, <2>3, <2>4, <2>5 DEF FeederStep, Steady
<1>2. CASE SoftComplete(h) \/ Cancel(h)
  <2>1. /\ f.pc \in {"soft", "cancel"} /\ t \in Ids /\ row[t].role # "feeder"
        /\ row[t].st # "absent" /\ live' = live /\ Done(h)
    BY <1>0, <1>2 DEF SoftComplete, Cancel, Way, Else
  <2>2. PICK s \in {"completed", "cancelled"} : Set(t, s) /\ (s = "completed" => f.pc = "soft")
    BY <1>2 DEF SoftComplete, Cancel
  <2>3. Steady(t) /\ row'[t].st = s /\ row'[t].deps = row[t].deps
    BY <2>1, <2>2, SetDoes DEF Statuses
  <2>4. Changes(h, t)
    BY <2>2, <2>3 DEF Changes
  <2> QED BY <2>1, <2>3, <2>4, PlainEnd
<1>3. CASE CheckDependents(h)
  <2>1. /\ f.pc = "dependents" /\ t \in Ids /\ row[t].role # "feeder" /\ live' = live /\ Way(h)
        /\ RowsSame /\ row[t].st # "in_progress" /\ row[t].st # "pending"
    BY <1>0, <1>3 DEF CheckDependents, Way, Else, RowsSame
  <2>2. PICK g : /\ Goes(h, g)
                 /\ \/ g = [fin[h] EXCEPT !.pc = "cancel"]
                    \/ g = [fin[h] EXCEPT !.pc = "review", !.then = "cancel"]
    BY <1>3 DEF CheckDependents
  <2>3. /\ g.pc \in {"cancel", "review"} /\ g.t = t /\ g.seen = f.seen
        /\ g.then \in {f.then, "cancel"}
    <3> PICK a \in ThreadTypes : a = fin[h]
      BY ThreadOf
    <3> QED BY <2>2 DEF ThreadTypes
  <2>4. fin'[h] = g /\ Others(h)
    BY <2>2, PutsThread
  <2>5. Way(h)' /\ Onward(h)
    <3>1. Way(h)'
      BY <2>1, <2>3, <2>4 DEF Way, RowsSame
    <3>2. Onward(h)
      BY <2>1, <2>3, <2>4 DEF Onward
    <3> QED BY <3>1, <3>2
  <2> QED BY <2>1, <2>4, <2>5 DEF PlainStep, RowsSame, SameOrigin, Changes
<1> QED BY <1>1, <1>2, <1>3

LEMMA ResearchSteps ==
  ASSUME TypeOK, Research, NEW h \in Finishers, Feed(h) \/ Hold(h)
  PROVE  PlainStep(h)
<1> USE DEF TypeOK, At
<1> DEFINE f == fin[h]   t == fin[h].t
<1>0. /\ f.pc \in {"feed", "hold"} /\ t \in Ids /\ row[t].st # "absent" /\ row[t].role # "feeder"
      /\ live' = live /\ Way(h) /\ row[t] \in RowTypes /\ Feeds(t)
      /\ row[t].st # "pending" /\ row[t].st # "in_progress"
  BY WhereThreadsAre, RowOf DEF Feed, Hold, Way, Else
<1>1. CASE Done(h) /\ UNCHANGED row
  <2>1. Steady(t) /\ row'[t].deps = row[t].deps /\ Changes(h, t)
    BY <1>0, <1>1, NothingWritten DEF Changes
  <2> QED BY <1>0, <1>1, <2>1, PlainEnd
<1>2. /\ Reset(t) \in RowTypes /\ Reset(t).role = row[t].role /\ Reset(t).of = row[t].of
      /\ Reset(t).root = row[t].root /\ Reset(t).type = row[t].type
      /\ Reset(t).cycles = row[t].cycles /\ Reset(t).st = "pending"
      /\ Reset(t).deps = row[t].deps
  <2> PICK p \in RowTypes : p = row[t]
    BY <1>0
  <2> QED BY DEF Reset, RowTypes
<1>3. CASE Feed(h)
  <2>1. f.pc = "feed"
    BY <1>3 DEF Feed
  <2>2. CASE row' = [row EXCEPT ![t] = Reset(t)] /\ Done(h)
    <3>1. Steady(t) /\ row'[t].st = "pending" /\ row'[t].deps = row[t].deps
      BY <1>0, <1>2, <2>2, PutDoes
    <3>2. fin'[h] = Idle
      BY <2>2, EndsThread
    <3>3. Changes(h, t)
      BY <2>1, <3>1, <3>2 DEF Changes
    <3> QED BY <1>0, <2>2, <3>1, <3>3, PlainEnd
  <2>3. CASE UNCHANGED row /\ Go(h, "create") /\ f.cycles < MAX_RESEARCH_FEEDER_CYCLES
    <3>1. /\ Others(h) /\ fin'[h].pc = "create" /\ fin'[h].t = t /\ fin'[h].seen = f.seen
          /\ fin'[h].then = f.then /\ fin'[h].cycles = f.cycles
      BY <2>3, GoDoes
    <3>2. Way(h)'
      BY <1>0, <2>1, <2>3, <3>1 DEF Way, Feeds
    <3>3. Onward(h)
      BY <1>0, <2>1, <3>1 DEF Onward
    <3> QED BY <1>0, <2>3, <3>1, <3>2, <3>3 DEF PlainStep, SameOrigin, Changes
  <2>4. ASSUME NEW x \in Feeders, UNCHANGED row,
               Goes(h, [fin[h] EXCEPT !.pc = "hold", !.x = x])
        PROVE  PlainStep(h)
    <3> DEFINE g == [fin[h] EXCEPT !.pc = "hold", !.x = x]
    <3>1. fin'[h] = g /\ Others(h)
      <4> HIDE DEF g
      <4> QED BY <2>4, PutsThread DEF g
    <3>2. g.pc = "hold" /\ g.t = t /\ g.x = x /\ g.then = f.then /\ g.seen = f.seen
      <4> PICK a \in ThreadTypes : a = fin[h]
        BY ThreadOf
      <4> QED BY DEF ThreadTypes
    <3> HIDE DEF g
    <3>3. Way(h)'
      BY <1>0, <2>4, <3>1, <3>2 DEF Way, Feeds
    <3>4. x \in Ids /\ row[x].role = "feeder" /\ row[x].st \in {"pending", "in_progress"}
      BY <2>4 DEF Feeders, Active, Rows
    <3>5. Onward(h)
      BY <1>0, <2>1, <3>1, <3>2, <3>4 DEF Onward
    <3> QED BY <1>0, <2>4, <3>1, <3>2, <3>3, <3>5 DEF PlainStep, SameOrigin, Changes
  <2>5. f.cycles < MAX_RESEARCH_FEEDER_CYCLES \/ (Done(h) /\ UNCHANGED row)
    <3>1. CASE f.cycles >= MAX_RESEARCH_FEEDER_CYCLES
      BY <1>3, <3>1, Zenon DEF Feed
    <3>2. CASE ~(f.cycles >= MAX_RESEARCH_FEEDER_CYCLES)
      <4>1. f.cycles \in Nat /\ MAX_RESEARCH_FEEDER_CYCLES \in Nat
        BY ThreadOf, Constants
      <4> QED BY <3>2, <4>1
    <3> QED BY <3>1, <3>2
  <2> QED BY <1>1, <1>3, <2>2, <2>3, <2>4, <2>5 DEF Feed
<1>4. CASE Hold(h)
  <2> DEFINE D == row[t].deps \cup {f.x}
  <2>1. f.pc = "hold" /\ Done(h) /\ fin'[h] = Idle /\ Others(h) /\ Way(h)' /\ f.x \in Ids
    BY <1>4, EndsThread DEF Hold, ThreadsOK
  <2>2. CASE ~Writable(t, D)
    BY <1>1, <1>4, <2>1, <2>2 DEF Hold
  <2>3. CASE Writable(t, D)
    <3> DEFINE r == [Reset(t) EXCEPT !.deps = D]
    <3>1. D \subseteq Ids
      BY <1>0, <2>1, RowOf
    <3>2. /\ r \in RowTypes /\ r.role = row[t].role /\ r.of = row[t].of
          /\ r.root = row[t].root /\ r.type = row[t].type
          /\ r.cycles = row[t].cycles /\ r.st = "pending" /\ r.deps = D
      <4> PICK p \in RowTypes : p = Reset(t)
        BY <1>2
      <4> HIDE DEF D
      <4> QED BY <1>2, <3>1 DEF RowTypes
    <3>3. row' = [row EXCEPT ![t] = r]
      BY <1>4, <2>3 DEF Hold
    <3>4. Steady(t) /\ row'[t].st = "pending" /\ row'[t].deps = D
      <4> HIDE DEF r, D
      <4> QED BY <1>0, <3>2, <3>3, PutDoes
    <3> HIDE DEF r
    <3>5. \A v \in Ids : /\ Changes(h, v)
                         /\ row[v].role = "feeder" => row'[v].st = row[v].st
      BY <1>0, <2>1, <3>4 DEF Changes, Steady
    <3>6. \A v \in Ids :
            /\ \A e \in Ids \ {v} : row[e].role = "feeder" /\ e \in row[v].deps => e \in row'[v].deps
            /\ \A e \in Ids : row[e].role = "feeder" /\ e \in row'[v].deps =>
                 e \in row[v].deps \/ (fin[h].pc = "hold" /\ v = fin[h].t /\ e = fin[h].x)
      BY <2>1, <3>4 DEF Steady
    <3> QED BY <1>0, <2>1, <3>4, <3>5, <3>6 DEF PlainStep, Steady
  <2> QED BY <2>2, <2>3
<1> QED BY <1>3, <1>4

LEMMA ReviewSteps ==
  ASSUME TypeOK, Research, NEW h \in Finishers, ReviewRead(h) \/ Adopt(h)
  PROVE  PlainStep(h)
<1> USE DEF TypeOK, At
<1> DEFINE f == fin[h]   t == fin[h].t
<1>0. /\ f.pc \in {"review", "prune"} /\ t \in Ids /\ row[t].st # "absent"
      /\ row[t].role # "feeder" /\ live' = live /\ Way(h) /\ UNCHANGED row
      /\ row[t].st # "pending" /\ row[t].st # "in_progress"
  BY WhereThreadsAre DEF ReviewRead, Adopt, Way, Else
<1>1. ASSUME Others(h), Way(h)', fin'[h] = Idle \/ Onward(h) PROVE PlainStep(h)
  BY <1>0, <1>1 DEF PlainStep, SameOrigin, Changes
<1>2. CASE Adopt(h)
  <2>1. f.pc = "prune" /\ f.x \in Ids /\ f.from = {t} /\ Hands(h, f.from, f.x, f.kin)
    BY <1>0, <1>2, ThreadOf DEF Adopt, Way, Perhaps
  <2>2. /\ Others(h) /\ fin'[h].pc = "reparent" /\ fin'[h].t = t /\ fin'[h].x = f.x
        /\ fin'[h].seen = f.seen /\ fin'[h].then = f.then /\ fin'[h].from = {t}
    BY <2>1, HandsDoes
  <2>3. Way(h)' /\ Onward(h)
    BY <1>0, <2>1, <2>2, Constants DEF Way, Onward
  <2> QED BY <1>1, <2>2, <2>3
<1>3. CASE ReviewRead(h) /\ IF f.then = "idle" THEN Done(h) ELSE Go(h, f.then)
  <2>1. CASE f.then = "idle"
    BY <1>1, <1>3, <2>1, EndsThread
  <2>2. CASE f.then # "idle"
    <3>1. f.pc = "review" /\ f.then = "cancel"
      BY <1>0, <1>3, <2>2 DEF Way, ReviewRead
    <3>2. /\ Others(h) /\ fin'[h].pc = "cancel" /\ fin'[h].t = t
          /\ fin'[h].seen = f.seen /\ fin'[h].then = f.then
      BY <1>3, <3>1, GoDoes
    <3>3. Way(h)' /\ Onward(h)
      BY <1>0, <3>1, <3>2 DEF Way, Onward
    <3> QED BY <1>1, <3>2, <3>3
  <2> QED BY <2>1, <2>2
<1>4. CASE ReviewRead(h) /\ ~(IF f.then = "idle" THEN Done(h) ELSE Go(h, f.then))
  <2> DEFINE branch == Branch(t)   alive == Alive(branch)
             running == {u \in alive : row[u].st = "in_progress"}
             x == IF alive = {} THEN NoTask
                  ELSE Oldest(IF running # {} THEN running ELSE alive)
             lost == Cardinality({u \in branch : row[u].st \in {"failed", "cancelled"}})
             least == IF Cardinality(branch) >= MAX_RECOVERY_TASKS /\ row[t].type # "qa"
                      THEN 1 ELSE 0
             D == {u \in alive \ {x} : row[u].st = "pending"}
             N == Max({row[t].depth, lost, least})
             K == IF branch = {} THEN Replacement(t) ELSE {Newest(branch)}
             r == Root(t)   kin == Dependents(t)
             g == [fin[h] EXCEPT !.pc = "prune", !.lock = r, !.x = x, !.from = {t},
                                 !.todo = D, !.kin = kin, !.depth = N, !.deps = K]
  <2>1. \A u \in alive : u \in Ids /\ row[u].st # "absent" /\ row[u].role # "feeder"
    <3>1. r \in Ids
      BY <1>0, RootType
    <3>2. \A u \in branch : u \in Ids /\ row[u].st # "absent" /\ row[u].root = r
      BY DEF Branch, Rows
    <3>3. \A u \in branch : row[u].role # "feeder"
      BY <3>1, <3>2, Constants DEF Research, Origins
    <3> QED BY <3>2, <3>3 DEF Alive
  <2>2. x # NoTask => x \in alive
    <3> DEFINE S == IF running # {} THEN running ELSE alive
    <3>1. CASE alive # {}
      <4>1. S \subseteq alive /\ S \subseteq Ids /\ S # {}
        BY <2>1, <3>1
      <4>2. Oldest(S) \in S
        <5> HIDE DEF S
        <5> QED BY <4>1, OldestIsOne
      <4> QED BY <3>1, <4>1, <4>2
    <3> QED BY <3>1
  <2>3. \A u \in D : row[u].st # "absent" /\ row[u].role # "feeder"
    BY <2>1
  <2>4. Goes(h, g)
    BY <1>4, Zenon DEF ReviewRead
  <2>5. fin'[h] = g /\ Others(h)
    <3> HIDE DEF g
    <3> QED BY <2>4, PutsThread
  <2>6. /\ g.pc = "prune" /\ g.t = t /\ g.x = x /\ g.from = {t} /\ g.todo = D
        /\ g.then = f.then /\ g.seen = f.seen
    <3> HIDE DEF x, D, N, K, r, kin
    <3> PICK a \in ThreadTypes : a = fin[h]
      BY ThreadOf
    <3>1. /\ [a EXCEPT !.pc = "prune", !.lock = r, !.x = x, !.from = {a.t}, !.todo = D,
                       !.kin = kin, !.depth = N, !.deps = K].pc = "prune"
          /\ [a EXCEPT !.pc = "prune", !.lock = r, !.x = x, !.from = {a.t}, !.todo = D,
                       !.kin = kin, !.depth = N, !.deps = K].t = a.t
          /\ [a EXCEPT !.pc = "prune", !.lock = r, !.x = x, !.from = {a.t}, !.todo = D,
                       !.kin = kin, !.depth = N, !.deps = K].x = x
          /\ [a EXCEPT !.pc = "prune", !.lock = r, !.x = x, !.from = {a.t}, !.todo = D,
                       !.kin = kin, !.depth = N, !.deps = K].from = {a.t}
          /\ [a EXCEPT !.pc = "prune", !.lock = r, !.x = x, !.from = {a.t}, !.todo = D,
                       !.kin = kin, !.depth = N, !.deps = K].todo = D
          /\ [a EXCEPT !.pc = "prune", !.lock = r, !.x = x, !.from = {a.t}, !.todo = D,
                       !.kin = kin, !.depth = N, !.deps = K].then = a.then
          /\ [a EXCEPT !.pc = "prune", !.lock = r, !.x = x, !.from = {a.t}, !.todo = D,
                       !.kin = kin, !.depth = N, !.deps = K].seen = a.seen
      BY DEF ThreadTypes
    <3> QED BY <3>1
  <2> HIDE DEF g, x, D
  <2>7. f.pc = "review"
    BY <1>4 DEF ReviewRead
  <2>8. Way(h)'
    BY <1>0, <2>1, <2>2, <2>3, <2>5, <2>6 DEF Way
  <2>9. Onward(h)
    BY <1>0, <2>5, <2>6, <2>7 DEF Onward
  <2> QED BY <1>1, <2>5, <2>8, <2>9
<1> QED BY <1>2, <1>3, <1>4

LEMMA RecoverySteps ==
  ASSUME TypeOK, Research, NEW h \in Finishers, CreateRecovery(h) \/ Terminal(h)
  PROVE  PlainStep(h) \/ MakeStep(h)
<1> USE DEF TypeOK, At
<1> DEFINE f == fin[h]   t == fin[h].t
<1>0. /\ f.pc \in {"prune", "terminal"} /\ t \in Ids /\ row[t].st # "absent"
      /\ row[t].role # "feeder" /\ live' = live /\ Way(h)
  BY WhereThreadsAre DEF CreateRecovery, Terminal, Way, Else
<1>1. CASE CreateRecovery(h)
  <2> DEFINE research == f.depth >= 1 /\ row[t].type # "qa"
             A == [Task("audit", "escalated", t, f.deps) EXCEPT !.max = FeederAttempts]
             B == Task(row[t].type, "recovery", t, f.deps)
             new == IF research THEN A ELSE B
             r == [new EXCEPT !.root = f.lock, !.depth = f.depth + 1]
  <2>1. /\ f.pc = "prune" /\ Free # {} /\ f.deps \subseteq Ids
    BY <1>1, ThreadOf DEF CreateRecovery
  <2>2. /\ new \in RowTypes /\ new.st = "pending" /\ new.of = t
        /\ new.role \in {"escalated", "recovery"}
    <3>1. /\ Task("audit", "escalated", t, f.deps) \in RowTypes
          /\ Task(row[t].type, "recovery", t, f.deps) \in RowTypes
      BY <1>0, <2>1, TaskType, RowOf DEF Types, Roles, Perhaps
    <3>2. /\ Task("audit", "escalated", t, f.deps).st = "pending"
          /\ Task("audit", "escalated", t, f.deps).of = t
          /\ Task("audit", "escalated", t, f.deps).role = "escalated"
          /\ B.st = "pending" /\ B.of = t /\ B.role = "recovery"
      BY DEF Task, Absent
    <3>3. A \in RowTypes /\ A.st = "pending" /\ A.of = t /\ A.role = "escalated"
      BY <3>1, <3>2, Constants DEF RowTypes
    <3> HIDE DEF A, B
    <3> QED BY <3>1, <3>2, <3>3 DEF B
  <2>3. r.st = "pending" /\ r.of = t /\ r.role \in {"escalated", "recovery"}
    <3> HIDE DEF new
    <3> QED BY <2>2 DEF RowTypes
  <2>4. row' = [row EXCEPT ![Fresh] = r] /\ Hands(h, {t}, Fresh, f.kin)
    BY <1>1 DEF CreateRecovery
  <2>5. /\ Fresh \in New /\ row[Fresh].st = "absent" /\ row'[Fresh] = r
        /\ \A u \in Ids \ {Fresh} : row'[u] = row[u]
    <3> HIDE DEF r
    <3> QED BY <2>1, <2>4, FreshDoes
  <2>6. /\ Others(h) /\ fin'[h].pc = "reparent" /\ fin'[h].t = t /\ fin'[h].x = Fresh
        /\ fin'[h].seen = f.seen /\ fin'[h].then = f.then /\ fin'[h].from = {t}
    BY <2>4, HandsDoes
  <2> HIDE DEF r
  <2>7. Way(h)'
    BY <1>0, <2>3, <2>5, <2>6, WayOfNew, Constants
  <2> QED BY <1>0, <2>1, <2>3, <2>5, <2>6, <2>7 DEF MakeStep
<1>2. CASE Terminal(h)
  <2> DEFINE x == IF BugOf(t) # {} THEN CHOOSE b \in BugOf(t) : TRUE ELSE Fresh
             T == Task("bug", "continuation", t, {})
             made == IF BugOf(t) # {} THEN row[x] ELSE T
             r == [made EXCEPT !.st = "pending", !.role = "continuation", !.root = Root(t),
                               !.depth = 0, !.cycles = 0, !.chain = row[t].chain + 1,
                               !.deps = Replacement(t)]
             g == [fin[h] EXCEPT !.pc = "reparent", !.from = {t}, !.x = x,
                                 !.todo = Dependents(t) \ {x}]
  <2>1. f.pc = "terminal" /\ BugOf(t) = {} /\ Free # {} /\ x = Fresh /\ made = T
    <3>1. f.pc = "terminal"
      BY <1>2 DEF Terminal
    <3>2. BugOf(t) = {}
      BY <3>1, NoBug
    <3> QED BY <1>2, <3>1, <3>2 DEF Terminal
  <2>2. CASE ~Writable(x, Replacement(t))
    <3>1. Done(h) /\ UNCHANGED row
      BY <1>2, <2>2 DEF Terminal, Refused
    <3>2. Steady(t) /\ row'[t].deps = row[t].deps /\ Changes(h, t)
      BY <1>0, <3>1, NothingWritten DEF Changes
    <3> QED BY <1>0, <3>1, <3>2, PlainEnd
  <2>3. CASE Writable(x, Replacement(t))
    <3>1. row' = [row EXCEPT ![x] = r] /\ Goes(h, g)
      BY <1>2, <2>3, Zenon DEF Terminal
    <3>2. r.st = "pending" /\ r.of = t /\ r.role = "continuation"
      <4>1. T \in RowTypes /\ T.of = t
        <5>1. T \in RowTypes
          BY <1>0, TaskType DEF Types, Roles, Perhaps
        <5> QED BY <5>1 DEF Task, Absent
      <4> DEFINE D == Replacement(t)   k == Root(t)   n == row[t].chain + 1
      <4>2. made \in RowTypes /\ made.of = t
        BY <2>1, <4>1
      <4> HIDE DEF D, k, n, made
      <4>3. /\ [made EXCEPT !.st = "pending", !.role = "continuation", !.root = k,
                            !.depth = 0, !.cycles = 0, !.chain = n, !.deps = D].st = "pending"
            /\ [made EXCEPT !.st = "pending", !.role = "continuation", !.root = k,
                            !.depth = 0, !.cycles = 0, !.chain = n, !.deps = D].of = t
            /\ [made EXCEPT !.st = "pending", !.role = "continuation", !.root = k,
                            !.depth = 0, !.cycles = 0, !.chain = n, !.deps = D].role
                 = "continuation"
        BY <4>2 DEF RowTypes
      <4> QED BY <4>3 DEF D, k, n
    <3>3. /\ Fresh \in New /\ row[Fresh].st = "absent" /\ row'[Fresh] = r
          /\ \A u \in Ids \ {Fresh} : row'[u] = row[u]
      <4>1. row' = [row EXCEPT ![Fresh] = r]
        BY <2>1, <3>1
      <4> HIDE DEF r
      <4> QED BY <2>1, <4>1, FreshDoes
    <3>4. fin'[h] = g /\ Others(h)
      <4> HIDE DEF g
      <4> QED BY <3>1, PutsThread
    <3>5. /\ g.pc = "reparent" /\ g.from = {t} /\ g.x = x /\ g.t = t /\ g.then = f.then
          /\ g.seen = f.seen
      <4> DEFINE D == Dependents(t) \ {x}
      <4> HIDE DEF x, D
      <4> PICK a \in ThreadTypes : a = fin[h]
        BY ThreadOf
      <4>1. /\ [a EXCEPT !.pc = "reparent", !.from = {a.t}, !.x = x, !.todo = D].pc = "reparent"
            /\ [a EXCEPT !.pc = "reparent", !.from = {a.t}, !.x = x, !.todo = D].from = {a.t}
            /\ [a EXCEPT !.pc = "reparent", !.from = {a.t}, !.x = x, !.todo = D].x = x
            /\ [a EXCEPT !.pc = "reparent", !.from = {a.t}, !.x = x, !.todo = D].t = a.t
            /\ [a EXCEPT !.pc = "reparent", !.from = {a.t}, !.x = x, !.todo = D].then = a.then
            /\ [a EXCEPT !.pc = "reparent", !.from = {a.t}, !.x = x, !.todo = D].seen = a.seen
        BY DEF ThreadTypes
      <4> QED BY <4>1 DEF D
    <3> HIDE DEF r, g, x
    <3>6. Way(h)'
      BY <1>0, <2>1, <3>2, <3>3, <3>4, <3>5, WayOfNew, Constants
    <3>7. row[t].role = "recovery" /\ row[t].type # "bug"
      BY <1>0, <2>1 DEF Way
    <3> QED BY <1>0, <2>1, <3>2, <3>3, <3>4, <3>5, <3>6, <3>7 DEF MakeStep
  <2> QED BY <2>2, <2>3
<1> QED BY <1>1, <1>2

(* A thread brings the results of research to a task that is there and is  *)
(* not complete.                                                           *)
LEMMA ResultsAwaited ==
  ASSUME TypeOK, Research, NEW h \in Finishers, fin[h].pc \in {"apply", "inject"}
  PROVE  LET o == row[fin[h].t].of IN
         /\ fin[h].t \in Ids /\ Feeder(fin[h].t, o) /\ Out(fin[h].t)
         /\ o \in Ids /\ row[o].st \notin {"absent", "completed", "in_progress"} /\ Feeds(o)
         /\ o \notin live /\ ~Handled(o)
<1> DEFINE f == fin[h].t   o == row[f].of
<1>1. f \in Ids /\ row[f].role = "feeder" /\ Handled(f)
  BY WhereThreadsAre DEF Way, Handled, About
<1>2. Feeder(f, o) /\ Out(f)
  BY <1>1 DEF Feeder, Out
<1>3. o \in Ids /\ row[o].st # "absent" /\ Feeds(o)
  BY <1>1 DEF Research, Origins
<1>4. o \notin live /\ row[o].st \notin {"completed", "in_progress"} /\ ~Handled(o)
  BY <1>1, <1>2, <1>3 DEF Research, OneOut, Handled
<1> QED BY <1>1, <1>2, <1>3, <1>4

LEMMA ReadSteps ==
  ASSUME TypeOK, Research, NEW h \in Finishers, ApplyRead(h)
  PROVE  FeederStep(h)
<1> USE DEF TypeOK, At
<1> DEFINE t == fin[h].t   o == row[t].of
           g == [fin[h] EXCEPT !.pc = "inject", !.x = o, !.deps = row[o].deps \ {t},
                               !.cycles = row[o].cycles + 1]
<1>1. /\ fin[h].pc = "apply" /\ t \in Ids /\ row[t].role = "feeder" /\ live' = live
      /\ UNCHANGED row /\ Way(h) /\ row[t].st \in {"completed", "cancelled"}
  BY WhereThreadsAre DEF ApplyRead, Way, Else
<1>2. row[o].st \notin {"absent", "completed"}
  BY <1>1, ResultsAwaited
<1>3. Goes(h, g)
  BY <1>2, Zenon DEF ApplyRead
<1>4. fin'[h] = g /\ Others(h)
  <2> HIDE DEF g
  <2> QED BY <1>3, PutsThread
<1>5. /\ g.pc = "inject" /\ g.x = o /\ g.deps = row[o].deps \ {t} /\ g.t = t
      /\ g.cycles = row[o].cycles + 1 /\ g.then = fin[h].then /\ g.seen = fin[h].seen
  <2> PICK a \in ThreadTypes : a = fin[h]
    BY ThreadOf
  <2> DEFINE D == row[o].deps \ {t}   n == row[o].cycles + 1
  <2> HIDE DEF o, D, n
  <2>1. /\ [a EXCEPT !.pc = "inject", !.x = o, !.deps = D, !.cycles = n].pc = "inject"
        /\ [a EXCEPT !.pc = "inject", !.x = o, !.deps = D, !.cycles = n].x = o
        /\ [a EXCEPT !.pc = "inject", !.x = o, !.deps = D, !.cycles = n].deps = D
        /\ [a EXCEPT !.pc = "inject", !.x = o, !.deps = D, !.cycles = n].t = a.t
        /\ [a EXCEPT !.pc = "inject", !.x = o, !.deps = D, !.cycles = n].cycles = n
        /\ [a EXCEPT !.pc = "inject", !.x = o, !.deps = D, !.cycles = n].then = a.then
        /\ [a EXCEPT !.pc = "inject", !.x = o, !.deps = D, !.cycles = n].seen = a.seen
    BY DEF ThreadTypes
  <2> QED BY <2>1 DEF D, n
<1> HIDE DEF g
<1>6. Way(h)'
  BY <1>1, <1>4, <1>5 DEF Way
<1> QED BY <1>1, <1>4, <1>5, <1>6 DEF FeederStep, SameOrigin

-------------------------------------------------------------------------------
(* What the steps keep.                                                    *)

SameFeeders ==
  \A f, u \in Ids : /\ Feeder(f, u)' <=> Feeder(f, u)
                    /\ Feeder(f, u) => (Out(f)' <=> Out(f))

LEMMA CountKept ==
  ASSUME Research, SameFeeders, RowsOK',
         \A u \in Ids : row'[u].cycles = row[u].cycles \/ row[u].st = "absent"
  PROVE  Counted'
<1>1. \A u \in Ids : Back(u)' = Back(u) /\ AllOf(u)' = AllOf(u)
  BY DEF SameFeeders, Back, AllOf
<1>2. ASSUME NEW u \in Ids, row[u].st = "absent" PROVE Cardinality(Back(u)) <= row'[u].cycles
  <2>1. Back(u) = {}
    BY <1>2 DEF Back, Feeder, Research, Origins
  <2>2. row'[u].cycles \in Nat
    BY DEF RowsOK, RowTypes
  <2> QED BY <2>1, <2>2, FS_EmptySet
<1> QED BY <1>1, <1>2 DEF Research, Counted

SameThread(g) ==
  /\ fin'[g].pc = fin[g].pc /\ fin'[g].t = fin[g].t /\ fin'[g].x = fin[g].x
  /\ fin'[g].then = fin[g].then /\ fin'[g].from = fin[g].from /\ fin'[g].todo = fin[g].todo
  /\ fin'[g].cycles = fin[g].cycles /\ fin'[g].deps = fin[g].deps
  /\ fin[g] = Idle => fin'[g] = Idle

(* A thread that does nothing is where it was, unless its task changes.    *)
LEMMA WayKept ==
  ASSUME TypeOK, Research, NEW g \in Finishers, SameThread(g),
         \A u \in Ids : row[u].st # "absent" =>
           /\ SameOrigin(u)
           /\ u = fin[g].t =>
                /\ row'[u].cycles = row[u].cycles
                /\ row[u].role = "feeder" => row'[u].st = row[u].st
                /\ row'[u].st = "completed" =>
                     \/ row[u].st = "completed"
                     \/ \E b \in Ids : row[b].role = "continuation" /\ row[b].of = u
  PROVE  Way(g)'
<1>1. Way(g)
  BY DEF Research, Ways
<1>2. CASE fin[g].pc = "idle"
  BY <1>1, <1>2, Constants DEF Way, Idle, SameThread
<1>3. CASE fin[g].pc # "idle"
  <2> DEFINE t == fin[g].t
  <2>1. t \in Ids /\ row[t].st # "absent"
    BY <1>3, WhereThreadsAre
  <2>2. /\ SameOrigin(t) /\ row'[t].cycles = row[t].cycles
        /\ row[t].role = "feeder" => row'[t].st = row[t].st
    BY <2>1
  <2>3. fin[g].pc \in {"feed", "create"} => row'[t].st # "completed"
    BY <1>1, <2>1, NoBug DEF Way
  <2>4. \A x \in Ids : row[x].st # "absent" /\ row[x].role # "feeder" =>
          row'[x].st # "absent" /\ row'[x].role # "feeder"
    BY DEF SameOrigin
  <2>5. fin[g].x # NoTask => fin[g].x \in Ids
    BY ThreadOf DEF TypeOK, Perhaps
  <2>6. fin[g].todo \subseteq Ids
    BY ThreadOf DEF TypeOK
  <2> QED BY <1>1, <1>3, <2>1, <2>2, <2>3, <2>4, <2>5, <2>6 DEF Way, SameOrigin, Feeds, SameThread
<1> QED BY <1>2, <1>3

LEMMA OtherWaysKept ==
  ASSUME TypeOK, Research, NEW h \in Finishers, Others(h),
         \A u \in Ids : row[u].st # "absent" =>
           /\ SameOrigin(u)
           /\ \/ \A g \in Finishers \ {h} : fin[g].t # u
              \/ /\ row'[u].cycles = row[u].cycles
                 /\ row[u].role = "feeder" => row'[u].st = row[u].st
                 /\ row'[u].st = "completed" =>
                      \/ row[u].st = "completed"
                      \/ \E b \in Ids : row[b].role = "continuation" /\ row[b].of = u
  PROVE  \A g \in Finishers \ {h} : Way(g)'
<1> TAKE g \in Finishers \ {h}
<1>1. SameThread(g)
  BY DEF Others, SameThread
<1> QED BY <1>1, WayKept

(* What was read of a task that is researched stays so.                    *)
LEMMA InjectKept ==
  ASSUME TypeOK, Research, NEW g \in Finishers, fin'[g].pc = "inject" => SameThread(g),
         \A u \in Ids : row[u].st # "absent" =>
           SameOrigin(u) /\ (u = fin[g].x => row'[u].cycles = row[u].cycles),
         \A e \in fin[g].deps :
           fin[g].pc = "inject" /\ row'[e].role = "feeder" /\ row'[e].of = fin[g].x =>
             Feeder(e, fin[g].x) /\ row'[e].st = row[e].st
  PROVE  Inject(g)'
<1> SUFFICES ASSUME fin'[g].pc = "inject"
             PROVE  /\ fin'[g].x = row'[fin'[g].t].of
                    /\ fin'[g].cycles = row'[fin'[g].x].cycles + 1
                    /\ fin'[g].t \notin fin'[g].deps
                    /\ \A e \in fin'[g].deps :
                         row'[e].role = "feeder" /\ row'[e].of = fin'[g].x =>
                           row'[e].st = "completed"
  BY DEF Inject, Feeder
<1> DEFINE o == fin[g].x
<1>1. SameThread(g) /\ fin[g].pc = "inject"
  BY DEF SameThread
<1>2. /\ fin[g].t \in Ids /\ o \in Ids /\ fin[g].deps \subseteq Ids
      /\ row[fin[g].t].st # "absent" /\ row[o].st # "absent"
      /\ o = row[fin[g].t].of
  BY <1>1, ThreadOf, WhereThreadsAre, ResultsAwaited
     DEF TypeOK, ThreadsOK, Research, Injects, Inject
<1>3. /\ fin[g].cycles = row[o].cycles + 1 /\ fin[g].t \notin fin[g].deps
      /\ \A e \in fin[g].deps : Feeder(e, o) => row[e].st = "completed"
  BY <1>1 DEF Research, Injects, Inject
<1>4. \A e \in fin[g].deps : row'[e].role = "feeder" /\ row'[e].of = o =>
        row'[e].st = "completed"
  BY <1>1, <1>3
<1> QED BY <1>1, <1>2, <1>3, <1>4, SMTT(30) DEF SameOrigin, SameThread

LEMMA PlainKeeps ==
  ASSUME TypeOK, TypeOK', Research, NEW h \in Finishers, fin[h].pc # "idle", PlainStep(h)
  PROVE  Research'
<1> DEFINE t == fin[h].t
<1>0. /\ t \in Ids /\ row[t].st # "absent" /\ row[t].st # "pending" /\ t \notin live
      /\ fin[h].pc \notin {"complete", "judge"} => row[t].st # "in_progress"
      /\ \A g \in Finishers : fin[g].t = t => g = h
      /\ t # NoTask /\ row[t].role # "feeder"
  BY WhereThreadsAre, Constants DEF PlainStep
<1>1. /\ \A u \in Ids : SameOrigin(u) /\ row'[u].cycles = row[u].cycles
      /\ live' = live /\ Others(h)
  BY DEF PlainStep
<1>2. \A u \in Ids : /\ Handled(u)' => Handled(u)
                     /\ u # t => (Handled(u) => Handled(u)')
  BY <1>1, Constants DEF PlainStep, Others, Onward, Handled, About, Idle
<1>3. \A f \in Ids : row[f].role = "feeder" => (Out(f)' <=> Out(f)) /\ row'[f].st = row[f].st
  BY <1>0, <1>1, <1>2 DEF PlainStep, Out
<1>4. SameFeeders
  BY <1>1, <1>3 DEF SameFeeders, Feeder, SameOrigin
<1>5. Origins'
  <2>1. Origins
    BY DEF Research
  <2> QED BY <1>1, <1>2, <2>1, Constants DEF Origins, SameOrigin, Feeds
<1>6. \A u \in Ids : row'[u].st = "pending" =>
        \/ row[u].st = "pending"
        \/ /\ u = t /\ fin[h].pc \in {"judge", "feed", "hold"} /\ fin'[h] = Idle
           /\ fin[h].pc = "hold" => fin[h].x \in row'[u].deps
  BY DEF PlainStep, Changes
<1>7. \A u \in Ids : row'[u].st = "in_progress" => row[u].st = "in_progress"
  BY DEF PlainStep, Changes
<1>8. \A u \in Ids : row'[u].st = "completed" =>
        \/ row[u].st = "completed"
        \/ u = t /\ fin[h].pc \in {"complete", "soft"}
        \/ row[t].role = "continuation" /\ u = row[t].of
  BY DEF PlainStep, Changes
<1>9. OneHand'
  <2>1. \A u \in Ids : row'[u].st = "pending" => u \notin live /\ ~Handled(u)'
    <3> TAKE u \in Ids
    <3> HAVE row'[u].st = "pending"
    <3>1. CASE row[u].st = "pending"
      BY <1>2, <3>1 DEF Research, OneHand
    <3>2. CASE u = t /\ fin'[h] = Idle
      BY <1>0, <1>1, <3>2 DEF Handled, About, Others, Idle
    <3> QED BY <1>6, <3>1, <3>2
  <2>2. \A u \in live : ~Handled(u)'
    BY <1>2 DEF Research, OneHand, TypeOK
  <2>3. \A k, g \in Finishers : fin'[k].t = fin'[g].t /\ fin'[k].t # NoTask => k = g
    <3> TAKE k, g \in Finishers
    <3>1. fin'[k].t \in {fin[k].t, NoTask} /\ fin'[g].t \in {fin[g].t, NoTask}
      BY <1>1 DEF PlainStep, Others, Onward, Idle
    <3> QED BY <3>1 DEF Research, OneHand
  <2>4. \A g \in Finishers : fin'[g].pc \notin {"idle", "complete", "judge"} =>
          row'[fin'[g].t].st # "in_progress"
    <3> TAKE g \in Finishers
    <3> HAVE fin'[g].pc \notin {"idle", "complete", "judge"}
    <3>1. CASE g # h
      <4>1. fin'[g] = fin[g] /\ fin[g].t \in Ids
        BY <1>1, <3>1, WhereThreadsAre DEF Others
      <4> QED BY <1>7, <4>1 DEF Research, OneHand
    <3>2. CASE g = h
      <4>1. fin'[h].t = t /\ (fin[h].pc \in {"complete", "judge"} =>
                                row'[t].st \in {"completed", "failed"})
        BY <3>2 DEF PlainStep, Onward, Idle
      <4> QED BY <1>0, <1>7, <3>2, <4>1
    <3> QED BY <3>1, <3>2
  <2>5. \A f \in live : row'[f].role = "feeder" => row'[f].st = "in_progress"
    BY <1>1, <1>3 DEF Research, OneHand, TypeOK, SameOrigin
  <2> QED BY <1>1, <2>1, <2>2, <2>3, <2>4, <2>5 DEF OneHand
<1>10. Ways'
  <2>1. \A g \in Finishers \ {h} : Way(g)'
    <3>1. \A u \in Ids : row'[u].st = "completed" =>
            \/ row[u].st = "completed" \/ \A g \in Finishers \ {h} : fin[g].t # u
            \/ \E b \in Ids : row[b].role = "continuation" /\ row[b].of = u
      BY <1>0, <1>8
    <3> QED BY <1>1, <1>3, <3>1, OtherWaysKept
  <2> QED BY <2>1 DEF PlainStep, Ways
<1>11. Succeeded'
  <2> SUFFICES ASSUME NEW b \in Ids, NEW o \in Ids,
                      row[b].role \in {"bug", "continuation"}, row[b].of = o
               PROVE  /\ o \notin live /\ row'[o].st \notin {"pending", "in_progress"}
                      /\ \A f \in Ids : Feeder(f, o) => ~Out(f)
                      /\ \A g \in Finishers : About(g, o)' =>
                           fin'[g].pc \in {"reparent", "review", "prune", "cancel"}
    BY <1>1, <1>4 DEF Succeeded, SameOrigin, SameFeeders
  <2>1. /\ o \notin live /\ row[o].st \notin {"pending", "in_progress"}
        /\ \A f \in Ids : Feeder(f, o) => ~Out(f)
        /\ \A g \in Finishers : About(g, o) =>
             fin[g].pc \in {"reparent", "review", "prune", "cancel"}
    BY DEF Research, Succeeded
  <2>2. row'[o].st \notin {"pending", "in_progress"}
    BY <1>6, <1>7, <2>1 DEF About
  <2>3. ASSUME NEW g \in Finishers, About(g, o)'
        PROVE  fin'[g].pc \in {"reparent", "review", "prune", "cancel"}
    BY <1>1, <2>1, <2>3, Constants DEF PlainStep, About, Others, Onward, Idle
  <2> QED BY <2>1, <2>2, <2>3
<1>12. OneOut'
  <2> SUFFICES ASSUME NEW o \in Ids, NEW f \in Ids, Feeder(f, o), Out(f)
               PROVE  /\ \A g \in Ids : Feeder(g, o) /\ Out(g) => g = f
                      /\ o \notin live /\ row'[o].st \notin {"in_progress", "completed"}
                      /\ row'[o].st = "pending" => f \in row'[o].deps
                      /\ \A g \in Finishers : About(g, o)' =>
                           /\ fin'[g].pc = "hold" /\ fin'[g].x = f /\ ~Handled(f)'
                           /\ f \in live => f \in fin'[g].seen
    BY <1>1, <1>4 DEF OneOut, SameFeeders
  <2>1. /\ \A g \in Ids : Feeder(g, o) /\ Out(g) => g = f
        /\ o \notin live /\ row[o].st \notin {"in_progress", "completed"}
        /\ row[o].st = "pending" => f \in row[o].deps
        /\ \A g \in Finishers : About(g, o) =>
             /\ fin[g].pc = "hold" /\ fin[g].x = f /\ ~Handled(f)
             /\ f \in live => f \in fin[g].seen
    BY DEF Research, OneOut
  <2>2. row[f].role = "feeder" /\ f # o
    BY DEF Feeder, Research, Origins, Feeds
  <2>3. row'[o].st \notin {"in_progress", "completed"}
    <3>1. ~(o = t /\ fin[h].pc \in {"complete", "soft"})
      BY <2>1 DEF About
    <3>2. ~(row[t].role = "continuation" /\ o = row[t].of)
      BY <1>0 DEF Research, Succeeded
    <3> QED BY <1>7, <1>8, <2>1, <3>1, <3>2
  <2>4. ASSUME row'[o].st = "pending" PROVE f \in row'[o].deps
    <3>1. CASE row[o].st = "pending"
      BY <2>1, <2>2, <3>1 DEF PlainStep
    <3>2. CASE o = t /\ (fin[h].pc = "hold" => fin[h].x \in row'[o].deps)
      BY <2>1, <3>2 DEF About
    <3> QED BY <1>6, <2>4, <3>1, <3>2
  <2>5. ASSUME NEW g \in Finishers, About(g, o)'
        PROVE  /\ fin'[g].pc = "hold" /\ fin'[g].x = f /\ ~Handled(f)'
               /\ f \in live => f \in fin'[g].seen
    <3>1. CASE g # h
      <4>1. fin'[g] = fin[g] /\ About(g, o)
        BY <1>1, <2>5, <3>1 DEF Others, About
      <4> QED BY <1>2, <2>1, <4>1
    <3>2. CASE g = h
      BY <2>1, <2>5, <3>2, Constants DEF PlainStep, Onward, About, Idle
    <3> QED BY <3>1, <3>2
  <2> QED BY <2>1, <2>3, <2>4, <2>5
<1>13. Holds'
  <2> SUFFICES ASSUME NEW g \in Finishers, fin'[g].pc = "hold"
               PROVE  /\ fin'[g].x \in Ids /\ row'[fin'[g].x].role = "feeder"
                      /\ row'[fin'[g].x].of = fin'[g].t =>
                           row'[fin'[g].x].st \in {"pending", "in_progress"}
    BY DEF Holds, Feeder
  <2>1. CASE g # h
    <3>1. /\ fin'[g] = fin[g] /\ fin[g].x \in Ids /\ row[fin[g].x].role = "feeder"
          /\ Feeder(fin[g].x, fin[g].t) => row[fin[g].x].st \in {"pending", "in_progress"}
      BY <1>1, <2>1 DEF Others, Research, Holds
    <3> QED BY <1>1, <1>3, <3>1 DEF SameOrigin, Feeder
  <2>2. CASE g = h
    <3>1. /\ fin'[h].x \in Ids /\ row[fin'[h].x].role = "feeder"
          /\ row[fin'[h].x].st \in {"pending", "in_progress"}
      BY <2>2 DEF PlainStep, Onward, Idle
    <3> QED BY <1>1, <1>3, <2>2, <3>1 DEF SameOrigin
  <2> QED BY <2>1, <2>2
<1>14. Injects'
  <2> SUFFICES ASSUME NEW g \in Finishers PROVE Inject(g)'
    BY DEF Injects
  <2>1. fin'[g].pc = "inject" => SameThread(g)
    BY <1>1 DEF PlainStep, Onward, Others, Idle, SameThread
  <2>2. ASSUME NEW e \in fin[g].deps, row'[e].role = "feeder", row'[e].of = fin[g].x
        PROVE  Feeder(e, fin[g].x) /\ row'[e].st = row[e].st
    <3>1. e \in Ids
      BY ThreadOf DEF TypeOK
    <3> QED BY <1>1, <1>3, <2>2, <3>1 DEF SameOrigin, Feeder
  <2> QED BY <1>1, <2>1, <2>2, InjectKept
<1>15. Counted'
  BY <1>1, <1>4, CountKept DEF TypeOK
<1>16. Released'
  <2> SUFFICES ASSUME NEW o \in Ids, NEW f \in Ids, Feeder(f, o), f \in row'[o].deps
               PROVE  Out(f) \/ row[f].st = "completed"
    BY <1>3, <1>4 DEF Released, SameFeeders, Feeder
  <2>1. row[f].role = "feeder"
    BY DEF Feeder
  <2>2. CASE f \in row[o].deps
    BY <2>2 DEF Research, Released
  <2>3. CASE fin[h].pc = "hold" /\ o = t /\ f = fin[h].x
    BY <2>3 DEF Research, Holds, Out
  <2> QED BY <2>1, <2>2, <2>3 DEF PlainStep
<1> QED BY <1>5, <1>9, <1>10, <1>11, <1>12, <1>13, <1>14, <1>15, <1>16 DEF Research

LEMMA MakeKeeps ==
  ASSUME TypeOK, TypeOK', Research, NEW h \in Finishers, fin[h].pc # "idle", MakeStep(h)
  PROVE  Research'
<1> DEFINE t == fin[h].t
<1>0. /\ t \in Ids /\ row[t].st # "absent" /\ row[t].st # "pending" /\ t \notin live
      /\ row[t].st # "in_progress"
      /\ \A g \in Finishers : fin[g].t = t => g = h
      /\ t # NoTask /\ row[t].role # "feeder"
      /\ \A f \in Ids : Feeder(f, t) => ~Out(f)
  BY WhereThreadsAre, NoneOut, Constants DEF MakeStep
<1>1. PICK b \in New :
       /\ row[b].st = "absent" /\ \A u \in Ids \ {b} : row'[u] = row[u]
       /\ row'[b].st = "pending" /\ row'[b].of = t
       /\ row'[b].role \in {"bug", "continuation", "recovery", "escalated"}
       /\ row'[b].role \in {"bug", "continuation"} => fin[h].pc \in {"validate", "terminal"}
       /\ row'[b].role = "continuation" => row[t].role = "recovery" /\ row[t].type # "bug"
  BY DEF MakeStep
<1>2. /\ live' = live /\ Others(h) /\ fin'[h].t = t /\ fin'[h].pc = "reparent"
      /\ fin'[h].seen = fin[h].seen /\ fin[h].pc \in {"validate", "prune", "terminal"}
  BY DEF MakeStep
<1>3. /\ b \in Ids /\ b \notin Tasks /\ b # t /\ b \notin live /\ ~Handled(b)
      /\ row[b].role = "plain" /\ row[b].root = NoTask
  BY <1>0, <1>1, Constants DEF Research, Origins
<1>4. \A u \in Ids : Handled(u)' <=> Handled(u)
  BY <1>2 DEF Others, Handled, About
<1>5. \A u \in Ids : row[u].role # "plain" => row[u].of \in Ids \ {b}
  BY <1>1 DEF Research, Origins
<1>6. SameFeeders
  BY <1>1, <1>2, <1>3, <1>4 DEF SameFeeders, Feeder, Out
<1>7. \A u \in Ids : row[u].role = "feeder" => u # b /\ row'[u] = row[u]
  BY <1>1, <1>3
<1>8. Origins'
  <2>1. Origins
    BY DEF Research
  <2>2. \A u \in Tasks : row'[u].role = "plain" /\ row'[u].root = NoTask /\ row'[u].st # "absent"
    BY <1>1, <1>3, <2>1, Constants DEF Origins
  <2>3. \A u \in Ids : row'[u].st = "absent" =>
          /\ row'[u].role = "plain" /\ row'[u].root = NoTask /\ u \notin live' /\ ~Handled(u)'
    BY <1>1, <1>2, <1>4, <2>1 DEF Origins
  <2>4. \A u \in Ids : row'[u].role \notin {"plain"} =>
          row'[u].of \in Ids /\ row'[row'[u].of].st # "absent"
    BY <1>0, <1>1, <1>3, <2>1 DEF Origins
  <2>5. \A f \in Ids : row'[f].role = "feeder" =>
          row'[f].type = "audit" /\ row'[f].root = NoTask /\ Feeds(row[f].of)'
    BY <1>1, <1>5, <2>1 DEF Origins, Feeds
  <2>6. \A c \in Ids : row'[c].role = "continuation" =>
          row'[row'[c].of].role = "recovery" /\ row'[row'[c].of].type # "bug"
    BY <1>0, <1>1, <1>3, <1>5, <2>1 DEF Origins
  <2> QED BY <1>1, <1>7, <2>2, <2>3, <2>4, <2>5, <2>6 DEF Origins, Feeds
<1>9. OneHand'
  <2>1. OneHand
    BY DEF Research
  <2>2. \A u \in Ids : row'[u].st = "pending" => u \notin live /\ ~Handled(u)'
    BY <1>1, <1>3, <1>4, <2>1 DEF OneHand
  <2>3. \A u \in live : ~Handled(u)'
    BY <1>4, <2>1 DEF OneHand, TypeOK
  <2>4. \A k, g \in Finishers : fin'[k].t = fin'[g].t /\ fin'[k].t # NoTask => k = g
    <3>1. \A g \in Finishers : fin'[g].t = fin[g].t
      BY <1>2 DEF Others
    <3> QED BY <2>1, <3>1 DEF OneHand
  <2>5. \A g \in Finishers : fin'[g].pc \notin {"idle", "complete", "judge"} =>
          row'[fin'[g].t].st # "in_progress"
    <3> TAKE g \in Finishers
    <3> HAVE fin'[g].pc \notin {"idle", "complete", "judge"}
    <3>1. CASE g # h
      <4>1. fin'[g] = fin[g] /\ fin[g].t \in Ids
        BY <1>2, <3>1, WhereThreadsAre DEF Others
      <4> QED BY <1>1, <2>1, <4>1 DEF OneHand
    <3>2. CASE g = h
      BY <1>0, <1>1, <1>2, <1>3, <3>2
    <3> QED BY <3>1, <3>2
  <2>6. \A f \in live : row'[f].role = "feeder" => row'[f].st = "in_progress"
    BY <1>1, <1>3, <2>1 DEF OneHand, TypeOK
  <2> QED BY <1>2, <2>2, <2>3, <2>4, <2>5, <2>6 DEF OneHand
<1>10. Ways'
  <2>1. \A g \in Finishers \ {h} : Way(g)'
    <3>1. \A u \in Ids : row[u].st # "absent" => row'[u] = row[u]
      BY <1>1
    <3> QED BY <1>2, <3>1, OtherWaysKept DEF SameOrigin
  <2> QED BY <2>1 DEF MakeStep, Ways
<1>11. Succeeded'
  <2> SUFFICES ASSUME NEW c \in Ids, NEW o \in Ids,
                      row'[c].role \in {"bug", "continuation"}, row'[c].of = o
               PROVE  /\ o \notin live /\ row'[o].st \notin {"pending", "in_progress"}
                      /\ \A f \in Ids : Feeder(f, o) => ~Out(f)
                      /\ \A g \in Finishers : About(g, o)' =>
                           fin'[g].pc \in {"reparent", "review", "prune", "cancel"}
    BY <1>2, <1>6 DEF Succeeded, SameFeeders
  <2>1. CASE c = b
    <3>1. o = t /\ row'[o] = row[o]
      BY <1>0, <1>1, <1>3, <2>1
    <3>2. \A g \in Finishers : About(g, o)' => g = h
      BY <1>0, <1>2, <3>1 DEF About, Others
    <3> QED BY <1>0, <1>2, <3>1, <3>2
  <2>2. CASE c # b
    <3>1. /\ row[c].role \in {"bug", "continuation"} /\ row[c].of = o /\ o # b
          /\ row'[o] = row[o]
      BY <1>1, <1>5, <2>2
    <3>2. /\ o \notin live /\ row[o].st \notin {"pending", "in_progress"}
          /\ \A f \in Ids : Feeder(f, o) => ~Out(f)
          /\ \A g \in Finishers : About(g, o) =>
               fin[g].pc \in {"reparent", "review", "prune", "cancel"}
      BY <3>1 DEF Research, Succeeded
    <3>3. \A g \in Finishers : About(g, o)' =>
            fin'[g].pc \in {"reparent", "review", "prune", "cancel"}
      BY <1>2, <3>2 DEF About, Others
    <3> QED BY <3>1, <3>2, <3>3
  <2> QED BY <2>1, <2>2
<1>12. OneOut'
  <2> SUFFICES ASSUME NEW o \in Ids, NEW f \in Ids, Feeder(f, o), Out(f)
               PROVE  /\ \A g \in Ids : Feeder(g, o) /\ Out(g) => g = f
                      /\ o \notin live /\ row'[o].st \notin {"in_progress", "completed"}
                      /\ row'[o].st = "pending" => f \in row'[o].deps
                      /\ \A g \in Finishers : About(g, o)' =>
                           /\ fin'[g].pc = "hold" /\ fin'[g].x = f /\ ~Handled(f)'
                           /\ f \in live => f \in fin'[g].seen
    BY <1>2, <1>6 DEF OneOut, SameFeeders
  <2>1. /\ \A g \in Ids : Feeder(g, o) /\ Out(g) => g = f
        /\ o \notin live /\ row[o].st \notin {"in_progress", "completed"}
        /\ row[o].st = "pending" => f \in row[o].deps
        /\ \A g \in Finishers : About(g, o) =>
             /\ fin[g].pc = "hold" /\ fin[g].x = f /\ ~Handled(f)
             /\ f \in live => f \in fin[g].seen
    BY DEF Research, OneOut
  <2>2. row'[o] = row[o]
    BY <1>1, <1>5 DEF Feeder
  <2>3. o # t
    BY <1>0
  <2>4. \A g \in Finishers : About(g, o)' => About(g, o) /\ fin'[g] = fin[g]
    BY <1>2, <2>3 DEF About, Others
  <2> QED BY <1>4, <2>1, <2>2, <2>4
<1>13. Holds'
  <2> SUFFICES ASSUME NEW g \in Finishers, fin'[g].pc = "hold"
               PROVE  /\ fin'[g].x \in Ids /\ row'[fin'[g].x].role = "feeder"
                      /\ row'[fin'[g].x].of = fin'[g].t =>
                           row'[fin'[g].x].st \in {"pending", "in_progress"}
    BY DEF Holds, Feeder
  <2>1. /\ fin'[g] = fin[g] /\ fin[g].x \in Ids /\ row[fin[g].x].role = "feeder"
        /\ Feeder(fin[g].x, fin[g].t) => row[fin[g].x].st \in {"pending", "in_progress"}
    BY <1>2 DEF Others, Research, Holds
  <2> QED BY <1>7, <2>1 DEF Feeder
<1>14. Injects'
  <2> SUFFICES ASSUME NEW g \in Finishers PROVE Inject(g)'
    BY DEF Injects
  <2>1. fin'[g].pc = "inject" => SameThread(g)
    BY <1>2 DEF Others, SameThread
  <2>2. \A u \in Ids : row[u].st # "absent" => SameOrigin(u) /\ row'[u].cycles = row[u].cycles
    BY <1>1 DEF SameOrigin
  <2>3. ASSUME NEW e \in fin[g].deps, row'[e].role = "feeder", row'[e].of = fin[g].x
        PROVE  Feeder(e, fin[g].x) /\ row'[e].st = row[e].st
    <3>1. e \in Ids /\ e # b
      BY <1>1, <2>3, ThreadOf DEF TypeOK
    <3> QED BY <1>1, <2>3, <3>1 DEF Feeder
  <2> QED BY <2>1, <2>2, <2>3, InjectKept
<1>15. Counted'
  <2>1. \A u \in Ids : row'[u].cycles = row[u].cycles \/ row[u].st = "absent"
    BY <1>1
  <2> QED BY <1>6, <2>1, CountKept DEF TypeOK
<1>16. Released'
  <2> SUFFICES ASSUME NEW o \in Ids, NEW f \in Ids, Feeder(f, o), f \in row'[o].deps
               PROVE  Out(f) \/ row[f].st = "completed"
    BY <1>6, <1>7 DEF Released, SameFeeders, Feeder
  <2>1. row'[o] = row[o]
    BY <1>1, <1>5 DEF Feeder
  <2> QED BY <2>1 DEF Research, Released
<1> QED BY <1>8, <1>9, <1>10, <1>11, <1>12, <1>13, <1>14, <1>15, <1>16 DEF Research

LEMMA FeederKeeps ==
  ASSUME TypeOK, TypeOK', Research, NEW h \in Finishers, fin[h].pc # "idle", FeederStep(h)
  PROVE  Research'
<1> PICK k \in Ids : k = fin[h].t
  BY DEF FeederStep
<1> DEFINE o == row[k].of
<1>0. /\ k \in Ids /\ row[k].st # "absent" /\ row[k].st # "pending" /\ k \notin live
      /\ \A g \in Finishers : fin[g].t = k => g = h
      /\ k # NoTask /\ row[k].role = "feeder" /\ Handled(k) /\ Out(k) /\ Feeder(k, o)
      /\ o \in Ids
  <2>1. /\ k \in Ids /\ row[k].st # "absent" /\ row[k].st # "pending" /\ k \notin live
        /\ \A g \in Finishers : fin[g].t = k => g = h
        /\ k # NoTask /\ row[k].role = "feeder"
    BY WhereThreadsAre, Constants DEF FeederStep
  <2> QED BY <2>1 DEF Handled, About, Out, Feeder, Research, Origins
<1>1. /\ \A u \in Ids : /\ SameOrigin(u) /\ row'[u].cycles = row[u].cycles
                        /\ row'[u].deps = row[u].deps
      /\ live' = live /\ Others(h)
  BY DEF FeederStep
<1>2. \A u \in Ids \ {k} : row'[u].st = row[u].st \/
                           (row[u].role # "feeder" /\ row'[u].st = "cancelled")
  BY DEF FeederStep
<1>3. /\ \A u \in Ids : Handled(u)' => Handled(u)
      /\ \A u \in Ids \ {k} : Handled(u) => Handled(u)'
      /\ fin'[h].t \in {k, NoTask}
  BY <1>1, Constants, SMTT(30) DEF FeederStep, Others, Handled, About, Idle
<1>4. Out(k)'
  BY <1>0 DEF FeederStep, Out, Handled, About
<1>5. \A f \in Ids : row[f].role = "feeder" =>
        /\ Out(f)' <=> Out(f)
        /\ f # k => row'[f].st = row[f].st
  <2> SUFFICES ASSUME NEW f \in Ids, row[f].role = "feeder", f # k
               PROVE  (Out(f)' <=> Out(f)) /\ row'[f].st = row[f].st
    BY <1>0, <1>4
  <2>1. row'[f].st = row[f].st /\ (Handled(f)' <=> Handled(f))
    BY <1>2, <1>3
  <2> QED BY <1>1, <2>1 DEF Out
<1>6. SameFeeders
  BY <1>1, <1>5 DEF SameFeeders, Feeder, SameOrigin
<1>7. \A f, u \in Ids : Feeder(f, u) => u # k
  BY <1>0 DEF Feeder, Research, Origins, Feeds
<1>8. Origins'
  <2>1. Origins
    BY DEF Research
  <2> QED BY <1>1, <1>3, <2>1, Constants DEF Origins, SameOrigin, Feeds
<1>9. OneHand'
  <2>0. OneHand
    BY DEF Research
  <2>1. \A u \in Ids : row'[u].st = "pending" => u \notin live /\ ~Handled(u)'
    <3> TAKE u \in Ids
    <3> HAVE row'[u].st = "pending"
    <3>1. CASE u # k
      BY <1>2, <1>3, <2>0, <3>1 DEF OneHand
    <3>2. CASE u = k
      <4>1. fin'[h].t = NoTask
        BY <3>2, SMTT(30) DEF FeederStep, Idle
      <4> QED BY <1>0, <1>1, <3>2, <4>1 DEF Handled, About, Others
    <3> QED BY <3>1, <3>2
  <2>2. \A u \in live : ~Handled(u)'
    BY <1>3, <2>0 DEF OneHand, TypeOK
  <2>3. \A i, g \in Finishers : fin'[i].t = fin'[g].t /\ fin'[i].t # NoTask => i = g
    <3> TAKE i, g \in Finishers
    <3>1. fin'[i].t \in {fin[i].t, NoTask} /\ fin'[g].t \in {fin[g].t, NoTask}
      BY <1>1, <1>3 DEF Others
    <3> QED BY <2>0, <3>1 DEF OneHand
  <2>4. \A g \in Finishers : fin'[g].pc \notin {"idle", "complete", "judge"} =>
          row'[fin'[g].t].st # "in_progress"
    <3> TAKE g \in Finishers
    <3> HAVE fin'[g].pc \notin {"idle", "complete", "judge"}
    <3>1. CASE g # h
      <4>1. fin'[g] = fin[g] /\ fin[g].t \in Ids /\ fin[g].t # k
        BY <1>0, <1>1, <3>1, WhereThreadsAre DEF Others
      <4> QED BY <1>2, <2>0, <4>1 DEF OneHand
    <3>2. CASE g = h
      BY <3>2, SMTT(30) DEF FeederStep, Idle
    <3> QED BY <3>1, <3>2
  <2>5. \A f \in live : row'[f].role = "feeder" => row'[f].st = "in_progress"
    BY <1>0, <1>1, <1>5, <2>0 DEF OneHand, TypeOK, SameOrigin
  <2> QED BY <1>1, <2>1, <2>2, <2>3, <2>4, <2>5 DEF OneHand
<1>10. Ways'
  <2>1. \A g \in Finishers \ {h} : fin[g].t # k
    BY <1>0
  <2>2. \A u \in Ids \ {k} : /\ row[u].role = "feeder" => row'[u].st = row[u].st
                             /\ row'[u].st = "completed" => row[u].st = "completed"
    BY <1>2
  <2>3. \A g \in Finishers \ {h} : Way(g)'
    BY <1>1, <2>1, <2>2, OtherWaysKept
  <2> QED BY <2>3 DEF FeederStep, Ways
<1>11. Succeeded'
  <2> SUFFICES ASSUME NEW b \in Ids, NEW u \in Ids,
                      row[b].role \in {"bug", "continuation"}, row[b].of = u
               PROVE  /\ u \notin live /\ row'[u].st \notin {"pending", "in_progress"}
                      /\ \A f \in Ids : Feeder(f, u) => ~Out(f)
                      /\ \A g \in Finishers : About(g, u)' =>
                           fin'[g].pc \in {"reparent", "review", "prune", "cancel"}
    BY <1>1, <1>6 DEF Succeeded, SameOrigin, SameFeeders
  <2>1. /\ u \notin live /\ row[u].st \notin {"pending", "in_progress"}
        /\ \A f \in Ids : Feeder(f, u) => ~Out(f)
        /\ \A g \in Finishers : About(g, u) =>
             fin[g].pc \in {"reparent", "review", "prune", "cancel"}
    BY DEF Research, Succeeded
  <2>2. u # k
    <3>1. fin[h].pc \in {"complete", "stale", "judge", "exhaust", "apply", "inject"}
      BY <1>0 DEF Research, Ways, Way
    <3> QED BY <2>1, <3>1 DEF About
  <2>3. ASSUME NEW g \in Finishers, About(g, u)' PROVE About(g, u) /\ fin'[g] = fin[g]
    BY <1>1, <1>3, <2>2, <2>3, Constants DEF About, Others
  <2> QED BY <1>2, <2>1, <2>2, <2>3
<1>12. OneOut'
  <2> SUFFICES ASSUME NEW u \in Ids, NEW f \in Ids, Feeder(f, u), Out(f)
               PROVE  /\ \A g \in Ids : Feeder(g, u) /\ Out(g) => g = f
                      /\ u \notin live /\ row'[u].st \notin {"in_progress", "completed"}
                      /\ row'[u].st = "pending" => f \in row'[u].deps
                      /\ \A g \in Finishers : About(g, u)' =>
                           /\ fin'[g].pc = "hold" /\ fin'[g].x = f /\ ~Handled(f)'
                           /\ f \in live => f \in fin'[g].seen
    BY <1>1, <1>6 DEF OneOut, SameFeeders
  <2>1. /\ \A g \in Ids : Feeder(g, u) /\ Out(g) => g = f
        /\ u \notin live /\ row[u].st \notin {"in_progress", "completed"}
        /\ row[u].st = "pending" => f \in row[u].deps
        /\ \A g \in Finishers : About(g, u) =>
             /\ fin[g].pc = "hold" /\ fin[g].x = f /\ ~Handled(f)
             /\ f \in live => f \in fin[g].seen
    BY DEF Research, OneOut
  <2>2. u # k
    BY <1>7
  <2>3. ASSUME NEW g \in Finishers, About(g, u)' PROVE About(g, u) /\ fin'[g] = fin[g]
    BY <1>1, <1>3, <2>2, <2>3, Constants DEF About, Others
  <2> QED BY <1>1, <1>2, <1>3, <2>1, <2>2, <2>3
<1>13. Holds'
  <2> SUFFICES ASSUME NEW g \in Finishers, fin'[g].pc = "hold"
               PROVE  /\ fin'[g].x \in Ids /\ row'[fin'[g].x].role = "feeder"
                      /\ row'[fin'[g].x].of = fin'[g].t =>
                           row'[fin'[g].x].st \in {"pending", "in_progress"}
    BY DEF Holds, Feeder
  <2>1. fin'[g] = fin[g]
    BY <1>1, SMTT(30) DEF FeederStep, Others, Idle
  <2> DEFINE x == fin[g].x
  <2>2. /\ x \in Ids /\ row[x].role = "feeder" /\ fin[g].t \in Ids
        /\ Feeder(x, fin[g].t) => row[x].st \in {"pending", "in_progress"}
    BY <2>1, WhereThreadsAre DEF Research, Holds
  <2>3. Feeder(x, fin[g].t) => x # k
    BY <1>0, <2>1, <2>2 DEF Research, OneOut, About
  <2> QED BY <1>1, <1>5, <2>1, <2>2, <2>3 DEF SameOrigin, Feeder
<1>14. Injects'
  <2>1. ASSUME NEW g \in Finishers \ {h} PROVE Inject(g)'
    <3>1. SameThread(g)
      BY <1>1, <2>1 DEF Others, SameThread
    <3>2. ASSUME NEW e \in fin[g].deps, row'[e].role = "feeder", row'[e].of = fin[g].x
          PROVE  fin[g].pc = "inject" => Feeder(e, fin[g].x) /\ row'[e].st = row[e].st
      <4>1. e \in Ids /\ Feeder(e, fin[g].x)
        BY <1>1, <3>2, ThreadOf DEF TypeOK, SameOrigin, Feeder
      <4>2. ASSUME fin[g].pc = "inject" PROVE e # k
        <5>1. /\ fin[g].x = row[fin[g].t].of /\ fin[g].t \notin fin[g].deps
              /\ fin[g].t \in Ids /\ fin[g].x \in Ids
              /\ Feeder(fin[g].t, fin[g].x) /\ Out(fin[g].t)
          BY <4>2, ResultsAwaited DEF Research, Injects, Inject
        <5>2. e = k => fin[g].t = k
          BY <1>0, <4>1, <5>1 DEF Research, OneOut
        <5> QED BY <1>0, <2>1, <5>2
      <4> QED BY <1>1, <1>5, <3>2, <4>1, <4>2 DEF SameOrigin
    <3> QED BY <1>1, <3>1, <3>2, InjectKept
  <2>2. Inject(h)'
    <3> SUFFICES ASSUME fin'[h].pc = "inject"
                 PROVE  /\ fin'[h].x = row'[fin'[h].t].of
                        /\ fin'[h].cycles = row'[fin'[h].x].cycles + 1
                        /\ fin'[h].t \notin fin'[h].deps
                        /\ \A e \in fin'[h].deps :
                             row'[e].role = "feeder" /\ row'[e].of = fin'[h].x =>
                               row'[e].st = "completed"
      BY DEF Inject, Feeder
    <3>1. /\ fin'[h].t = k /\ fin'[h].x = o /\ fin'[h].cycles = row[o].cycles + 1
          /\ fin'[h].deps = row[o].deps \ {k}
      <4>1. fin'[h] # Idle
        BY DEF Idle
      <4> QED BY <4>1, Zenon DEF FeederStep
    <3>2. ASSUME NEW e \in row[o].deps \ {k}, row'[e].role = "feeder", row'[e].of = o
          PROVE  row'[e].st = "completed"
      <4>1. e \in Ids /\ Feeder(e, o)
        BY <1>0, <1>1, <3>2, RowOf DEF TypeOK, SameOrigin, Feeder
      <4>2. Out(e) \/ row[e].st = "completed"
        BY <1>0, <4>1 DEF Research, Released
      <4>3. Out(e) => e = k
        BY <1>0, <4>1 DEF Research, OneOut
      <4> QED BY <1>1, <1>5, <3>2, <4>1, <4>2, <4>3 DEF SameOrigin
    <3>3. row'[k].of = o /\ row'[o].cycles = row[o].cycles
      BY <1>0, <1>1 DEF SameOrigin
    <3> HIDE DEF o
    <3> QED BY <3>1, <3>2, <3>3
  <2> QED BY <2>1, <2>2 DEF Injects
<1>15. Counted'
  BY <1>1, <1>6, CountKept DEF TypeOK
<1>16. Released'
  <2> SUFFICES ASSUME NEW u \in Ids, NEW f \in Ids, Feeder(f, u), f \in row[u].deps
               PROVE  Out(f) \/ row'[f].st = "completed"
    BY <1>1, <1>6 DEF Released, SameFeeders
  <2> QED BY <1>0, <1>5 DEF Research, Released, Feeder
<1> QED BY <1>8, <1>9, <1>10, <1>11, <1>12, <1>13, <1>14, <1>15, <1>16 DEF Research

LEMMA WriteStep ==
  ASSUME TypeOK, Research, ResultsWritable, NEW h \in Finishers, ApplyWrite(h)
  PROVE  LET o == fin[h].x IN
         /\ live' = live /\ Others(h) /\ fin'[h] = Idle /\ Way(h)'
         /\ \A u \in Ids \ {o} : row'[u] = row[u]
         /\ SameOrigin(o) /\ row'[o].st \in {"failed", "pending"}
         /\ row'[o].deps = fin[h].deps /\ row'[o].cycles = fin[h].cycles
<1> DEFINE f == fin[h]   o == f.x
           capped == ~f.exhausted /\ f.cycles > MAX_RESEARCH_FEEDER_CYCLES
           found == [row[o] EXCEPT !.deps = f.deps, !.cycles = f.cycles]
           r == IF capped THEN [found EXCEPT !.st = "failed", !.att = found.max]
                ELSE [found EXCEPT !.st = "pending", !.att = 0]
<1>1. f.pc = "inject" /\ o \in Ids /\ Writable(o, f.deps)
  BY DEF ApplyWrite, At, TypeOK, ThreadsOK, ResultsWritable
<1>2. row[o].type # "soft" /\ row[o].st # "absent"
  BY <1>1, ResultsAwaited DEF Research, Injects, Inject, Feeds
<1>3. row' = [row EXCEPT ![o] = r] /\ Done(h) /\ live' = live
  BY <1>1, <1>2, Zenon DEF ApplyWrite, Else
<1>4. row'[o] = r /\ \A u \in Ids \ {o} : row'[u] = row[u]
  <2> HIDE DEF r, o
  <2> QED BY <1>1, <1>3, PutsRow DEF TypeOK
<1>5. fin'[h] = Idle /\ Others(h) /\ Way(h)'
  BY <1>3, EndsThread DEF TypeOK
<1>6. /\ r.role = row[o].role /\ r.of = row[o].of /\ r.root = row[o].root
      /\ r.type = row[o].type /\ r.st \in {"failed", "pending"}
      /\ r.deps = f.deps /\ r.cycles = f.cycles
  <2> PICK q \in RowTypes : q = row[o]
    BY <1>1, RowOf DEF TypeOK
  <2> QED BY DEF RowTypes
<1> HIDE DEF r
<1> QED BY <1>2, <1>3, <1>4, <1>5, <1>6 DEF SameOrigin

LEMMA WriteKeeps ==
  ASSUME TypeOK, TypeOK', Research, ResultsWritable, NEW h \in Finishers, ApplyWrite(h)
  PROVE  Research'
<1>a. fin[h].pc = "inject"
  BY DEF ApplyWrite, At
<1> PICK k \in Ids : k = fin[h].t
  BY <1>a, WhereThreadsAre
<1> PICK o \in Ids : o = fin[h].x
  BY <1>a DEF TypeOK, ThreadsOK
<1>0. /\ row[k].st \in {"completed", "cancelled"} /\ k \notin live
      /\ \A g \in Finishers : fin[g].t = k => g = h
      /\ k # NoTask /\ o # NoTask /\ k # o /\ Handled(k) /\ Out(k) /\ Feeder(k, o)
      /\ row[o].st \notin {"absent", "completed", "in_progress"} /\ Feeds(o)
      /\ o \notin live /\ ~Handled(o)
      /\ fin[h].cycles = row[o].cycles + 1 /\ k \notin fin[h].deps
      /\ \A e \in fin[h].deps : Feeder(e, o) => row[e].st = "completed"
  <2>1. /\ k \notin live /\ \A g \in Finishers : fin[g].t = k => g = h
        /\ Handled(k) /\ Way(h)
    BY <1>a, WhereThreadsAre DEF Handled, About
  <2>2. /\ o = row[k].of /\ fin[h].cycles = row[o].cycles + 1 /\ k \notin fin[h].deps
        /\ \A e \in fin[h].deps : Feeder(e, o) => row[e].st = "completed"
    BY <1>a DEF Research, Injects, Inject
  <2>3. /\ Out(k) /\ Feeder(k, o) /\ Feeds(o) /\ o \notin live /\ ~Handled(o)
        /\ row[o].st \notin {"absent", "completed", "in_progress"}
    BY <1>a, <2>2, ResultsAwaited
  <2>4. k # o /\ row[k].st \in {"completed", "cancelled"}
    BY <1>a, <2>1, <2>3 DEF Feeds, Feeder, Way
  <2> QED BY <2>1, <2>2, <2>3, <2>4, Constants
<1>1. /\ live' = live /\ Others(h) /\ fin'[h] = Idle /\ Way(h)'
      /\ \A u \in Ids \ {o} : row'[u] = row[u]
      /\ SameOrigin(o) /\ row'[o].st \in {"failed", "pending"}
      /\ row'[o].deps = fin[h].deps /\ row'[o].cycles = fin[h].cycles
  BY WriteStep
<1>2. \A u \in Ids : SameOrigin(u)
  BY <1>1 DEF SameOrigin
<1>3. /\ \A u \in Ids \ {k} : Handled(u)' <=> Handled(u)
      /\ ~Handled(k)'
  BY <1>0, <1>1, Constants DEF Others, Handled, About, Idle
<1>4. /\ \A f \in Ids : row[f].role = "feeder" => f # o /\ row'[f] = row[f]
      /\ ~Out(k)'
      /\ \A f \in Ids \ {k} : row[f].role = "feeder" => (Out(f)' <=> Out(f))
  BY <1>0, <1>1, <1>3 DEF Feeds, Out
<1>5. \A f, u \in Ids : Feeder(f, u)' <=> Feeder(f, u)
  BY <1>2 DEF Feeder, SameOrigin
<1>6. \A f \in Ids : Feeder(f, o) /\ Out(f) => f = k
  BY <1>0 DEF Research, OneOut
<1>7. \A g \in Finishers, u \in Ids : fin'[g].t = u => g # h /\ fin'[g] = fin[g] /\ u # k /\ u # o
  BY <1>0, <1>1, Constants DEF Others, Idle, Handled, About
<1>8. Origins'
  <2>1. Origins
    BY DEF Research
  <2>2. \A u \in Ids : row'[u].st = "absent" =>
          /\ row'[u].role = "plain" /\ row'[u].root = NoTask /\ u \notin live' /\ ~Handled(u)'
    BY <1>0, <1>1, <1>2, <1>3, <2>1, SMTT(30) DEF Origins, SameOrigin
  <2>3. \A u \in Ids : row'[u].role # "plain" =>
          row'[u].of \in Ids /\ row'[row'[u].of].st # "absent"
    BY <1>2, <2>1 DEF Origins, SameOrigin
  <2>4. \A f \in Ids : row'[f].role = "feeder" =>
          row'[f].type = "audit" /\ row'[f].root = NoTask /\ Feeds(row[f].of)'
    BY <1>2, <2>1, <2>3 DEF Origins, SameOrigin, Feeds
  <2>5. \A c \in Ids : row'[c].role = "continuation" =>
          row'[row'[c].of].role = "recovery" /\ row'[row'[c].of].type # "bug"
    BY <1>2, <2>1, <2>3 DEF Origins, SameOrigin
  <2>6. \A u \in Tasks : row'[u].role = "plain" /\ row'[u].root = NoTask /\ row'[u].st # "absent"
    BY <1>2, <2>1, Constants DEF Origins, SameOrigin
  <2> QED BY <1>2, <2>2, <2>3, <2>4, <2>5, <2>6 DEF Origins, Feeds, SameOrigin
<1>9. OneHand'
  <2>0. OneHand
    BY DEF Research
  <2>1. \A u \in Ids : row'[u].st = "pending" => u \notin live /\ ~Handled(u)'
    BY <1>0, <1>1, <1>3, <2>0 DEF OneHand
  <2>2. \A u \in live : ~Handled(u)'
    BY <1>3, <2>0 DEF OneHand, TypeOK
  <2>3. \A i, g \in Finishers : fin'[i].t = fin'[g].t /\ fin'[i].t # NoTask => i = g
    BY <1>1, <2>0 DEF OneHand, Others, Idle
  <2>4. \A g \in Finishers : fin'[g].pc \notin {"idle", "complete", "judge"} =>
          row'[fin'[g].t].st # "in_progress"
    <3> TAKE g \in Finishers
    <3> HAVE fin'[g].pc \notin {"idle", "complete", "judge"}
    <3>1. g # h /\ fin'[g] = fin[g] /\ fin[g].t \in Ids
      BY <1>1, WhereThreadsAre DEF Others, Idle
    <3> QED BY <1>1, <2>0, <3>1 DEF OneHand
  <2>5. \A f \in live : row'[f].role = "feeder" => row'[f].st = "in_progress"
    BY <1>2, <1>4, <2>0 DEF OneHand, TypeOK, SameOrigin
  <2> QED BY <1>1, <2>1, <2>2, <2>3, <2>4, <2>5 DEF OneHand
<1>10. Ways'
  <2>1. \A u \in Ids : u = o => \A g \in Finishers \ {h} : fin[g].t # u
    BY <1>0 DEF Handled, About
  <2>2. \A g \in Finishers \ {h} : Way(g)'
    BY <1>1, <1>2, <2>1, OtherWaysKept
  <2> QED BY <1>1, <2>2 DEF Ways
<1>11. Succeeded'
  <2> SUFFICES ASSUME NEW b \in Ids, NEW u \in Ids,
                      row[b].role \in {"bug", "continuation"}, row[b].of = u
               PROVE  /\ u \notin live /\ row'[u].st \notin {"pending", "in_progress"}
                      /\ \A f \in Ids : Feeder(f, u) => ~Out(f)'
                      /\ \A g \in Finishers : About(g, u)' =>
                           fin'[g].pc \in {"reparent", "review", "prune", "cancel"}
    BY <1>1, <1>2, <1>5 DEF Succeeded, SameOrigin
  <2>1. /\ u \notin live /\ row[u].st \notin {"pending", "in_progress"}
        /\ \A f \in Ids : Feeder(f, u) => ~Out(f)
        /\ \A g \in Finishers : About(g, u) =>
             fin[g].pc \in {"reparent", "review", "prune", "cancel"}
    BY DEF Research, Succeeded
  <2>2. u # o
    BY <1>0, <2>1
  <2> QED BY <1>1, <1>4, <1>7, <2>1, <2>2 DEF About, Feeder
<1>12. OneOut'
  <2> SUFFICES ASSUME NEW u \in Ids, NEW f \in Ids, Feeder(f, u), Out(f)'
               PROVE  /\ \A g \in Ids : Feeder(g, u) /\ Out(g)' => g = f
                      /\ u \notin live /\ row'[u].st \notin {"in_progress", "completed"}
                      /\ row'[u].st = "pending" => f \in row'[u].deps
                      /\ \A g \in Finishers : About(g, u)' =>
                           /\ fin'[g].pc = "hold" /\ fin'[g].x = f /\ ~Handled(f)'
                           /\ f \in live => f \in fin'[g].seen
    BY <1>1, <1>5 DEF OneOut
  <2>1. f # k /\ Out(f)
    BY <1>4 DEF Feeder
  <2>2. /\ \A g \in Ids : Feeder(g, u) /\ Out(g) => g = f
        /\ u \notin live /\ row[u].st \notin {"in_progress", "completed"}
        /\ row[u].st = "pending" => f \in row[u].deps
        /\ \A g \in Finishers : About(g, u) =>
             /\ fin[g].pc = "hold" /\ fin[g].x = f /\ ~Handled(f)
             /\ f \in live => f \in fin[g].seen
    BY <2>1 DEF Research, OneOut
  <2>3. u # o
    BY <1>6, <2>1
  <2>4. \A g \in Ids : Feeder(g, u) /\ Out(g)' => Out(g)
    BY <1>4 DEF Feeder
  <2> QED BY <1>1, <1>3, <1>7, <2>1, <2>2, <2>3, <2>4 DEF About
<1>13. Holds'
  <2> SUFFICES ASSUME NEW g \in Finishers, fin'[g].pc = "hold"
               PROVE  /\ fin'[g].x \in Ids /\ row'[fin'[g].x].role = "feeder"
                      /\ row'[fin'[g].x].of = fin'[g].t =>
                           row'[fin'[g].x].st \in {"pending", "in_progress"}
    BY DEF Holds, Feeder
  <2>1. fin'[g] = fin[g]
    BY <1>1 DEF Others, Idle
  <2>2. /\ fin[g].x \in Ids /\ row[fin[g].x].role = "feeder"
        /\ Feeder(fin[g].x, fin[g].t) => row[fin[g].x].st \in {"pending", "in_progress"}
    BY <2>1 DEF Research, Holds
  <2> QED BY <1>4, <2>1, <2>2 DEF Feeder
<1>14. Injects'
  <2> SUFFICES ASSUME NEW g \in Finishers, fin'[g].pc = "inject" PROVE Inject(g)'
    BY DEF Injects, Inject
  <2>1. g # h /\ fin'[g] = fin[g] /\ fin[g].pc = "inject"
    BY <1>1 DEF Others, Idle
  <2>2. SameThread(g)
    BY <2>1 DEF SameThread
  <2>3. fin[g].x # o
    <3>1. /\ fin[g].t \in Ids /\ Feeder(fin[g].t, fin[g].x) /\ Out(fin[g].t)
      BY <2>1, ResultsAwaited DEF Research, Injects, Inject
    <3> QED BY <1>0, <1>6, <2>1, <3>1
  <2>4. \A u \in Ids : row[u].st # "absent" =>
          SameOrigin(u) /\ (u = fin[g].x => row'[u].cycles = row[u].cycles)
    BY <1>1, <1>2, <2>3
  <2>5. \A e \in fin[g].deps :
          fin[g].pc = "inject" /\ row'[e].role = "feeder" /\ row'[e].of = fin[g].x =>
            Feeder(e, fin[g].x) /\ row'[e].st = row[e].st
    <3> TAKE e \in fin[g].deps
    <3>1. e \in Ids
      BY ThreadOf DEF TypeOK
    <3> QED BY <1>2, <1>4, <3>1 DEF Feeder, SameOrigin
  <2> QED BY <2>2, <2>4, <2>5, InjectKept
<1>15. Counted'
  <2>1. Counted /\ row[o].cycles \in Nat
    BY RowOf DEF Research, TypeOK
  <2>2. \A u \in Ids : AllOf(u)' = AllOf(u)
    BY <1>5 DEF AllOf
  <2>3. \A u \in Ids \ {o} : Back(u)' = Back(u)
    <3> TAKE u \in Ids \ {o}
    <3>1. \A f \in Ids : Feeder(f, u) => f # k
      BY <1>0 DEF Feeder
    <3> QED BY <1>4, <1>5, <3>1 DEF Back, Feeder
  <2>4. Back(o)' = Back(o) \cup {k}
    BY <1>0, <1>4, <1>5 DEF Back, Feeder
  <2>5. IsFiniteSet(Back(o)) /\ k \notin Back(o)
    <3>1. Back(o) \subseteq Ids
      BY DEF Back
    <3>2. IsFiniteSet(Back(o))
      BY <3>1, Constants, FS_Subset
    <3> QED BY <1>0, <3>2 DEF Back
  <2>6. Cardinality(Back(o) \cup {k}) = Cardinality(Back(o)) + 1
        /\ Cardinality(Back(o)) \in Nat
    BY <2>5, FS_AddElement, FS_CardinalityType
  <2>7. Cardinality(Back(o)) + 1 <= row'[o].cycles
    BY <1>0, <1>1, <2>1, <2>6 DEF Counted
  <2>8. \A u \in Ids : /\ Cardinality(Back(u))' <= row'[u].cycles
                       /\ Cardinality(AllOf(u))' <= MAX_RESEARCH_FEEDER_CYCLES
    <3> TAKE u \in Ids
    <3>1. CASE u = o
      BY <2>1, <2>2, <2>4, <2>6, <2>7, <3>1 DEF Counted
    <3>2. CASE u # o
      BY <1>1, <2>1, <2>2, <2>3, <3>2 DEF Counted
    <3> QED BY <3>1, <3>2
  <2> QED BY <2>8 DEF Counted
<1>16. Released'
  <2> SUFFICES ASSUME NEW u \in Ids, NEW f \in Ids, Feeder(f, u), f \in row'[u].deps
               PROVE  Out(f)' \/ row'[f].st = "completed"
    BY <1>5 DEF Released
  <2>1. row'[f] = row[f]
    BY <1>4 DEF Feeder
  <2>2. CASE u = o
    BY <1>0, <1>1, <2>1, <2>2
  <2>3. CASE u # o
    <3>1. f # k /\ (Out(f) \/ row[f].st = "completed")
      BY <1>0, <1>1, <2>3 DEF Feeder, Research, Released
    <3> QED BY <1>4, <2>1, <3>1 DEF Feeder
  <2> QED BY <2>2, <2>3
<1> QED BY <1>8, <1>9, <1>10, <1>11, <1>12, <1>13, <1>14, <1>15, <1>16 DEF Research

-------------------------------------------------------------------------------
(* A feeder is made.                                                       *)

LEMMA FeederMade ==
  ASSUME TypeOK, Research, NEW h \in Finishers, CreateFeeder(h)
  PROVE  /\ fin[h].pc = "create" /\ live' = live /\ Others(h)
         /\ fin'[h].pc = "hold" /\ fin'[h].t = fin[h].t /\ fin'[h].seen = fin[h].seen
         /\ fin'[h].then = fin[h].then
         /\ \E b \in New :
              /\ row[b].st = "absent" /\ \A u \in Ids \ {b} : row'[u] = row[u]
              /\ fin'[h].x = b
              /\ row'[b].st = "pending" /\ row'[b].role = "feeder" /\ row'[b].of = fin[h].t
              /\ row'[b].type = "audit" /\ row'[b].root = NoTask /\ row'[b].cycles = 0
<1> DEFINE r == [Task("audit", "feeder", fin[h].t, LiveHead) EXCEPT !.max = FeederAttempts]
<1>1. fin[h].pc = "create" /\ Free # {} /\ live' = live
  BY DEF CreateFeeder, At, Else
<1> PICK b \in New : b = Fresh /\ row[b].st = "absent"
  BY <1>1, FreshIsFree
<1> DEFINE g == [fin[h] EXCEPT !.pc = "hold", !.x = b]
<1>2. row' = [row EXCEPT ![b] = r] /\ Goes(h, g)
  BY DEF CreateFeeder
<1>3. row'[b] = r /\ \A u \in Ids \ {b} : row'[u] = row[u]
  <2> HIDE DEF r
  <2> QED BY <1>2, PutsRow, Constants DEF TypeOK
<1>4. fin'[h] = g /\ Others(h)
  <2> HIDE DEF g
  <2> QED BY <1>2, PutsThread DEF TypeOK
<1>5. /\ r.st = "pending" /\ r.role = "feeder" /\ r.of = fin[h].t
      /\ r.type = "audit" /\ r.root = NoTask /\ r.cycles = 0
  BY DEF Task, Absent
<1>6. /\ g.pc = "hold" /\ g.x = b /\ g.t = fin[h].t /\ g.seen = fin[h].seen
      /\ g.then = fin[h].then
  <2> PICK a \in ThreadTypes : a = fin[h]
    BY ThreadOf DEF TypeOK
  <2> QED BY DEF ThreadTypes
<1> HIDE DEF r, g
<1> QED BY <1>1, <1>3, <1>4, <1>5, <1>6

LEMMA FeedKeeps ==
  ASSUME TypeOK, TypeOK', Research, NEW h \in Finishers, CreateFeeder(h)
  PROVE  Research'
<1>a. fin[h].pc = "create"
  BY FeederMade
<1> PICK t \in Ids : t = fin[h].t
  BY <1>a, WhereThreadsAre
<1> PICK b \in New :
       /\ row[b].st = "absent" /\ \A u \in Ids \ {b} : row'[u] = row[u]
       /\ fin'[h].x = b
       /\ row'[b].st = "pending" /\ row'[b].role = "feeder" /\ row'[b].of = t
       /\ row'[b].type = "audit" /\ row'[b].root = NoTask /\ row'[b].cycles = 0
  BY FeederMade
<1>0. /\ row[t].st \notin {"absent", "pending", "in_progress", "completed"} /\ t \notin live
      /\ \A g \in Finishers : fin[g].t = t => g = h
      /\ t # NoTask /\ Feeds(t) /\ fin[h].then \in {"idle", "cancel"}
      /\ row[t].cycles < MAX_RESEARCH_FEEDER_CYCLES
      /\ \A f \in Ids : Feeder(f, t) => ~Out(f)
      /\ \A c \in Ids : row[c].of = t => row[c].role \notin {"bug", "continuation"}
  BY <1>a, WhereThreadsAre, NoneOut, NoBug, Constants DEF Way
<1>1. /\ live' = live /\ Others(h) /\ fin'[h].t = t /\ fin'[h].pc = "hold"
      /\ fin'[h].seen = fin[h].seen /\ fin'[h].then \in {"idle", "cancel"}
  BY <1>0, FeederMade
<1>2. /\ b \in Ids /\ b \notin Tasks /\ b # t /\ b \notin live /\ ~Handled(b)
      /\ row[b].role = "plain" /\ row[b].root = NoTask
  BY <1>0, Constants DEF Research, Origins
<1>3. \A u \in Ids : Handled(u)' <=> Handled(u)
  BY <1>1 DEF Others, Handled, About
<1>4. \A u \in Ids : row[u].role # "plain" => u # b /\ row[u].of \in Ids \ {b}
  BY <1>2 DEF Research, Origins
<1>5. \A f, u \in Ids : Feeder(f, u)' <=> Feeder(f, u) \/ (f = b /\ u = t)
  BY <1>2 DEF Feeder
<1>6. /\ \A f \in Ids \ {b} : Out(f)' <=> Out(f)
      /\ Out(b)'
  BY <1>1, <1>3 DEF Out
<1>7. \A u \in Ids : row[u].role = "feeder" => u # b /\ row'[u] = row[u]
  BY <1>2
<1>8. Origins'
  <2>1. Origins
    BY DEF Research
  <2>2. \A u \in Tasks : row'[u].role = "plain" /\ row'[u].root = NoTask /\ row'[u].st # "absent"
    BY <1>2, <2>1, Constants DEF Origins
  <2>3. \A u \in Ids : row'[u].st = "absent" =>
          /\ row'[u].role = "plain" /\ row'[u].root = NoTask /\ u \notin live' /\ ~Handled(u)'
    BY <1>1, <1>3, <2>1 DEF Origins
  <2>4. \A u \in Ids : row'[u].role \notin {"plain"} =>
          row'[u].of \in Ids /\ row'[row'[u].of].st # "absent"
    BY <1>0, <1>2, <2>1 DEF Origins
  <2>5. \A f \in Ids : row'[f].role = "feeder" =>
          row'[f].type = "audit" /\ row'[f].root = NoTask /\ Feeds(row[f].of)'
    <3> TAKE f \in Ids
    <3> HAVE row'[f].role = "feeder"
    <3>1. CASE f = b
      <4>1. Feeds(t)'
        BY <1>0, <1>2 DEF Feeds
      <4> QED BY <3>1, <4>1 DEF Feeds
    <3>2. CASE f # b
      <4>1. /\ row'[f] = row[f] /\ row[f].type = "audit" /\ row[f].root = NoTask
            /\ Feeds(row[f].of) /\ row[f].of \in Ids \ {b}
        BY <1>4, <2>1, <3>2 DEF Origins
      <4> PICK u \in Ids \ {b} : u = row[f].of
        BY <4>1
      <4>2. Feeds(u)'
        BY <4>1 DEF Feeds
      <4> QED BY <4>1, <4>2 DEF Feeds
    <3> QED BY <3>1, <3>2
  <2>6. \A c \in Ids : row'[c].role = "continuation" =>
          row'[row'[c].of].role = "recovery" /\ row'[row'[c].of].type # "bug"
    BY <1>4, <2>1 DEF Origins
  <2> QED BY <2>2, <2>3, <2>4, <2>5, <2>6 DEF Origins, Feeds
<1>9. OneHand'
  <2>1. OneHand
    BY DEF Research
  <2>2. \A u \in Ids : row'[u].st = "pending" => u \notin live /\ ~Handled(u)'
    BY <1>2, <1>3, <2>1 DEF OneHand
  <2>3. \A u \in live : ~Handled(u)'
    BY <1>3, <2>1 DEF OneHand, TypeOK
  <2>4. \A k, g \in Finishers : fin'[k].t = fin'[g].t /\ fin'[k].t # NoTask => k = g
    <3>1. \A g \in Finishers : fin'[g].t = fin[g].t
      BY <1>1 DEF Others
    <3> QED BY <2>1, <3>1 DEF OneHand
  <2>5. \A g \in Finishers : fin'[g].pc \notin {"idle", "complete", "judge"} =>
          row'[fin'[g].t].st # "in_progress"
    <3> TAKE g \in Finishers
    <3> HAVE fin'[g].pc \notin {"idle", "complete", "judge"}
    <3>1. CASE g # h
      <4>1. fin'[g] = fin[g] /\ fin[g].t \in Ids
        BY <1>1, <3>1, WhereThreadsAre DEF Others
      <4> QED BY <2>1, <4>1 DEF OneHand
    <3>2. CASE g = h
      BY <1>0, <1>1, <1>2, <3>2
    <3> QED BY <3>1, <3>2
  <2>6. \A f \in live : row'[f].role = "feeder" => row'[f].st = "in_progress"
    BY <1>2, <2>1 DEF OneHand, TypeOK
  <2> QED BY <1>1, <2>2, <2>3, <2>4, <2>5, <2>6 DEF OneHand
<1>10. Ways'
  <2>1. \A g \in Finishers \ {h} : Way(g)'
    BY <1>1, OtherWaysKept DEF SameOrigin
  <2>2. Way(h)'
    <3>1. Feeds(t)' /\ row'[t] = row[t] /\ row[t].role # "feeder"
      BY <1>0, <1>2 DEF Feeds
    <3> QED BY <1>1, <3>1 DEF Way
  <2> QED BY <2>1, <2>2 DEF Ways
<1>11. Succeeded'
  <2> SUFFICES ASSUME NEW c \in Ids, NEW o \in Ids,
                      row'[c].role \in {"bug", "continuation"}, row'[c].of = o
               PROVE  /\ o \notin live /\ row'[o].st \notin {"pending", "in_progress"}
                      /\ \A f \in Ids : Feeder(f, o)' => ~Out(f)'
                      /\ \A g \in Finishers : About(g, o)' =>
                           fin'[g].pc \in {"reparent", "review", "prune", "cancel"}
    BY <1>1 DEF Succeeded
  <2>1. c # b /\ row[c].role \in {"bug", "continuation"} /\ row[c].of = o /\ o # b /\ o # t
    BY <1>0, <1>4
  <2>2. /\ o \notin live /\ row[o].st \notin {"pending", "in_progress"}
        /\ \A f \in Ids : Feeder(f, o) => ~Out(f)
        /\ \A g \in Finishers : About(g, o) =>
             fin[g].pc \in {"reparent", "review", "prune", "cancel"}
    BY <2>1 DEF Research, Succeeded
  <2>3. \A g \in Finishers : About(g, o)' => About(g, o) /\ fin'[g] = fin[g]
    BY <1>1, <2>1 DEF About, Others
  <2>4. \A f \in Ids : Feeder(f, o)' => Feeder(f, o) /\ ~Out(f)'
    BY <1>5, <1>6, <1>7, <2>1, <2>2 DEF Feeder
  <2> QED BY <2>1, <2>2, <2>3, <2>4
<1>12. OneOut'
  <2> SUFFICES ASSUME NEW o \in Ids, NEW f \in Ids, Feeder(f, o)', Out(f)'
               PROVE  /\ \A g \in Ids : Feeder(g, o)' /\ Out(g)' => g = f
                      /\ o \notin live /\ row'[o].st \notin {"in_progress", "completed"}
                      /\ row'[o].st = "pending" => f \in row'[o].deps
                      /\ \A g \in Finishers : About(g, o)' =>
                           /\ fin'[g].pc = "hold" /\ fin'[g].x = f /\ ~Handled(f)'
                           /\ f \in live => f \in fin'[g].seen
    BY <1>1 DEF OneOut
  <2>1. CASE o = t
    <3>1. f = b
      BY <1>0, <1>5, <1>6, <2>1
    <3>2. \A g \in Ids : Feeder(g, o)' /\ Out(g)' => g = b
      BY <1>0, <1>5, <1>6, <2>1
    <3>3. row'[t] = row[t] /\ \A g \in Finishers : About(g, t)' => g = h
      BY <1>0, <1>1, <1>2 DEF About, Others
    <3> QED BY <1>0, <1>1, <1>2, <1>3, <2>1, <3>1, <3>2, <3>3
  <2>2. CASE o # t
    <3>1. Feeder(f, o) /\ Out(f) /\ f # b /\ o # b
      BY <1>4, <1>5, <1>6, <2>2 DEF Feeder
    <3>2. /\ \A g \in Ids : Feeder(g, o) /\ Out(g) => g = f
          /\ o \notin live /\ row[o].st \notin {"in_progress", "completed"}
          /\ row[o].st = "pending" => f \in row[o].deps
          /\ \A g \in Finishers : About(g, o) =>
               /\ fin[g].pc = "hold" /\ fin[g].x = f /\ ~Handled(f)
               /\ f \in live => f \in fin[g].seen
      BY <3>1 DEF Research, OneOut
    <3>3. \A g \in Finishers : About(g, o)' => About(g, o) /\ fin'[g] = fin[g]
      BY <1>1, <2>2 DEF About, Others
    <3>4. \A g \in Ids : Feeder(g, o)' /\ Out(g)' => Feeder(g, o) /\ Out(g)
      BY <1>4, <1>5, <1>6, <2>2 DEF Feeder
    <3> QED BY <1>3, <3>1, <3>2, <3>3, <3>4
  <2> QED BY <2>1, <2>2
<1>13. Holds'
  <2> SUFFICES ASSUME NEW g \in Finishers, fin'[g].pc = "hold"
               PROVE  /\ fin'[g].x \in Ids /\ row'[fin'[g].x].role = "feeder"
                      /\ row'[fin'[g].x].of = fin'[g].t =>
                           row'[fin'[g].x].st \in {"pending", "in_progress"}
    BY DEF Holds, Feeder
  <2>1. CASE g = h
    BY <1>2, <2>1
  <2>2. CASE g # h
    <3>1. /\ fin'[g] = fin[g] /\ fin[g].x \in Ids /\ row[fin[g].x].role = "feeder"
          /\ Feeder(fin[g].x, fin[g].t) => row[fin[g].x].st \in {"pending", "in_progress"}
      BY <1>1, <2>2 DEF Others, Research, Holds
    <3> QED BY <1>7, <3>1 DEF Feeder
  <2> QED BY <2>1, <2>2
<1>14. Injects'
  <2> SUFFICES ASSUME NEW g \in Finishers PROVE Inject(g)'
    BY DEF Injects
  <2>1. fin'[g].pc = "inject" => SameThread(g)
    BY <1>1 DEF Others, SameThread
  <2>2. \A u \in Ids : row[u].st # "absent" => SameOrigin(u) /\ row'[u].cycles = row[u].cycles
    BY DEF SameOrigin
  <2>3. \A e \in fin[g].deps :
          fin[g].pc = "inject" /\ row'[e].role = "feeder" /\ row'[e].of = fin[g].x =>
            Feeder(e, fin[g].x) /\ row'[e].st = row[e].st
    <3> TAKE e \in fin[g].deps
    <3> HAVE fin[g].pc = "inject" /\ row'[e].role = "feeder" /\ row'[e].of = fin[g].x
    <3>1. e \in Ids /\ fin[g].x \in Ids
      BY ThreadOf DEF TypeOK, ThreadsOK
    <3>2. fin[g].x # t
      BY <1>0, ResultsAwaited DEF Research, Injects, Inject, Feeder
    <3> QED BY <3>1, <3>2 DEF Feeder
  <2> QED BY <2>1, <2>2, <2>3, InjectKept
<1>15. Counted'
  <2>1. Counted /\ row[t].cycles \in Nat
    BY RowOf DEF Research, TypeOK
  <2>2. \A u \in Ids : Back(u)' = Back(u)
    BY <1>4, <1>5, <1>6 DEF Back, Feeder
  <2>3. \A u \in Ids \ {t} : AllOf(u)' = AllOf(u)
    BY <1>5 DEF AllOf
  <2>4. AllOf(t) = Back(t) /\ AllOf(t)' = Back(t) \cup {b} /\ b \notin Back(t)
    BY <1>0, <1>2, <1>4, <1>5 DEF AllOf, Back, Feeder
  <2>5. IsFiniteSet(Back(t))
    <3>1. Back(t) \subseteq Ids
      BY DEF Back
    <3> QED BY <3>1, Constants, FS_Subset
  <2>6. /\ Cardinality(Back(t) \cup {b}) = Cardinality(Back(t)) + 1
        /\ Cardinality(Back(t)) \in Nat
    BY <2>4, <2>5, FS_AddElement, FS_CardinalityType
  <2>7. Cardinality(Back(t)) + 1 <= MAX_RESEARCH_FEEDER_CYCLES
    BY <1>0, <2>1, <2>6, Constants DEF Counted
  <2>8. \A u \in Ids : Cardinality(AllOf(u))' <= MAX_RESEARCH_FEEDER_CYCLES
    <3> TAKE u \in Ids
    <3>1. CASE u = t
      BY <2>4, <2>6, <2>7, <3>1
    <3>2. CASE u # t
      BY <2>1, <2>3, <3>2 DEF Counted
    <3> QED BY <3>1, <3>2
  <2>9. \A u \in Ids : Cardinality(Back(u))' <= row'[u].cycles
    <3> TAKE u \in Ids
    <3>1. CASE u = b
      <4>1. Back(b) = {}
        BY <1>4 DEF Back, Feeder
      <4> QED BY <2>2, <3>1, <4>1, FS_EmptySet
    <3>2. CASE u # b
      BY <2>1, <2>2, <3>2 DEF Counted
    <3> QED BY <3>1, <3>2
  <2> QED BY <2>8, <2>9 DEF Counted
<1>16. Released'
  <2> SUFFICES ASSUME NEW o \in Ids, NEW f \in Ids, Feeder(f, o)', f \in row'[o].deps
               PROVE  Out(f)' \/ row'[f].st = "completed"
    BY DEF Released
  <2>1. CASE f = b
    BY <1>6, <2>1
  <2>2. CASE f # b
    <3>1. Feeder(f, o) /\ o # b
      BY <1>4, <1>5, <2>2 DEF Feeder
    <3>2. Out(f) \/ row[f].st = "completed"
      BY <3>1 DEF Research, Released
    <3> QED BY <1>6, <2>2, <3>2
  <2> QED BY <2>1, <2>2
<1> QED BY <1>8, <1>9, <1>10, <1>11, <1>12, <1>13, <1>14, <1>15, <1>16 DEF Research

-------------------------------------------------------------------------------
(* An agent begins, and ends.                                              *)

LEMMA Starts ==
  ASSUME TypeOK, Research, NEW t \in Ids, Spawn(t)
  PROVE  /\ row[t].st = "pending" /\ \A d \in row[t].deps : Met(d)
         /\ Prompt => ~\E h \in Finishers : Researched(h) = t
         /\ live' = live \cup {t} /\ \A u \in Ids \ {t} : row'[u] = row[u]
         /\ SameOrigin(t) /\ row'[t].st = "in_progress"
         /\ row'[t].cycles = row[t].cycles /\ row'[t].deps = row[t].deps
         /\ \A g \in Finishers :
              /\ SameThread(g)
              /\ fin[g].pc # "idle" => fin'[g].seen = fin[g].seen \cup {t}
<1> DEFINE r == [row[t] EXCEPT !.st = "in_progress"]
           G(g) == [fin[g] EXCEPT !.seen = fin[g].seen \cup {t}]
<1>1. /\ row[t].st = "pending" /\ \A d \in row[t].deps : Met(d)
      /\ Prompt => ~\E h \in Finishers : Researched(h) = t
      /\ live' = live \cup {t} /\ row' = [row EXCEPT ![t] = r]
      /\ fin' = [g \in Finishers |-> IF fin[g].pc = "idle" THEN Idle ELSE G(g)]
  BY DEF Spawn, Set, At
<1>2. row'[t] = r /\ \A u \in Ids \ {t} : row'[u] = row[u]
  <2> HIDE DEF r
  <2> QED BY <1>1, PutsRow DEF TypeOK
<1>3. /\ r.role = row[t].role /\ r.of = row[t].of /\ r.root = row[t].root
      /\ r.type = row[t].type /\ r.st = "in_progress"
      /\ r.cycles = row[t].cycles /\ r.deps = row[t].deps
  <2> PICK q \in RowTypes : q = row[t]
    BY RowOf DEF TypeOK
  <2> QED BY DEF RowTypes
<1>4. ASSUME NEW g \in Finishers
      PROVE  SameThread(g) /\ (fin[g].pc # "idle" => fin'[g].seen = fin[g].seen \cup {t})
  <2>1. CASE fin[g].pc = "idle"
    <3>1. fin'[g] = Idle /\ fin[g] = Idle
      BY <1>1, <2>1 DEF Research, Ways, Way
    <3> QED BY <2>1, <3>1 DEF SameThread
  <2>2. CASE fin[g].pc # "idle"
    <3>1. fin'[g] = G(g) /\ fin[g] # Idle
      BY <1>1, <2>2 DEF Idle
    <3>2. /\ G(g).pc = fin[g].pc /\ G(g).t = fin[g].t /\ G(g).x = fin[g].x
          /\ G(g).then = fin[g].then /\ G(g).from = fin[g].from /\ G(g).todo = fin[g].todo
          /\ G(g).cycles = fin[g].cycles /\ G(g).deps = fin[g].deps
          /\ G(g).seen = fin[g].seen \cup {t}
      <4> PICK a \in ThreadTypes : a = fin[g]
        BY ThreadOf DEF TypeOK
      <4> QED BY DEF ThreadTypes
    <3> HIDE DEF G
    <3> QED BY <3>1, <3>2 DEF SameThread
  <2> QED BY <2>1, <2>2
<1> HIDE DEF r, G
<1> QED BY <1>1, <1>2, <1>3, <1>4 DEF SameOrigin

LEMMA SpawnKeeps ==
  ASSUME Prompt, TypeOK, TypeOK', Research, NEW t \in Ids, Spawn(t)
  PROVE  Research'
<1>1. /\ row[t].st = "pending" /\ \A d \in row[t].deps : Met(d)
      /\ ~\E h \in Finishers : Researched(h) = t
      /\ live' = live \cup {t} /\ \A u \in Ids \ {t} : row'[u] = row[u]
      /\ SameOrigin(t) /\ row'[t].st = "in_progress"
      /\ row'[t].cycles = row[t].cycles /\ row'[t].deps = row[t].deps
      /\ \A g \in Finishers : SameThread(g)
      /\ \A g \in Finishers : fin[g].pc # "idle" => fin'[g].seen = fin[g].seen \cup {t}
  BY Starts
<1>2. t \notin live /\ ~Handled(t) /\ t # NoTask
  BY <1>1, Constants DEF Research, OneHand
<1>3. \A u \in Ids : SameOrigin(u) /\ row'[u].cycles = row[u].cycles /\ row'[u].deps = row[u].deps
  BY <1>1 DEF SameOrigin
<1>4. \A u \in Ids : Handled(u)' <=> Handled(u)
  BY <1>1 DEF SameThread, Handled, About
<1>5. \A f \in Ids : Out(f)' <=> Out(f)
  BY <1>1, <1>4 DEF Out
<1>6. SameFeeders
  BY <1>3, <1>5 DEF SameFeeders, Feeder, SameOrigin
<1>7. \A f \in Ids : Feeder(f, t) => ~Out(f)
  <2> SUFFICES ASSUME NEW f \in Ids, Feeder(f, t), Out(f) PROVE FALSE
    OBVIOUS
  <2>1. f \in row[t].deps
    BY <1>1 DEF Research, OneOut
  <2>2. row[f].st = "completed"
    BY <1>1, <2>1 DEF Met, Feeder, Research, Origins
  <2>3. Handled(f)
    BY <2>2 DEF Out, Feeder, Research, OneHand
  <2>4. PICK h \in Finishers : fin[h].t = f
    BY <2>3 DEF Handled, About
  <2>5. Researched(h) = t
    BY <2>2, <2>4 DEF Researched, Rows, Feeder
  <2> QED BY <1>1, <2>5
<1>8. Origins'
  <2>1. Origins
    BY DEF Research
  <2>2. \A u \in Tasks : row'[u].role = "plain" /\ row'[u].root = NoTask /\ row'[u].st # "absent"
    BY <1>3, <2>1, Constants DEF Origins, SameOrigin
  <2>3. \A u \in Ids : row'[u].st = "absent" =>
          /\ row'[u].role = "plain" /\ row'[u].root = NoTask /\ u \notin live' /\ ~Handled(u)'
    BY <1>1, <1>3, <1>4, <2>1 DEF Origins, SameOrigin
  <2>4. \A u \in Ids : row'[u].role \notin {"plain"} =>
          row'[u].of \in Ids /\ row'[row'[u].of].st # "absent"
    BY <1>3, <2>1 DEF Origins, SameOrigin
  <2>5. \A f \in Ids : row'[f].role = "feeder" =>
          row'[f].type = "audit" /\ row'[f].root = NoTask /\ Feeds(row[f].of)'
    BY <1>3, <2>1 DEF Origins, SameOrigin, Feeds
  <2>6. \A c \in Ids : row'[c].role = "continuation" =>
          row'[row'[c].of].role = "recovery" /\ row'[row'[c].of].type # "bug"
    BY <1>3, <2>1 DEF Origins, SameOrigin
  <2> QED BY <1>3, <2>2, <2>3, <2>4, <2>5, <2>6 DEF Origins, Feeds, SameOrigin
<1>9. OneHand'
  <2>1. OneHand
    BY DEF Research
  <2>2. \A u \in Ids : row'[u].st = "pending" => u \notin live' /\ ~Handled(u)'
    BY <1>1, <1>4, <2>1 DEF OneHand
  <2>3. \A u \in live' : ~Handled(u)'
    BY <1>1, <1>2, <1>4, <2>1 DEF OneHand, TypeOK
  <2>4. \A k, g \in Finishers : fin'[k].t = fin'[g].t /\ fin'[k].t # NoTask => k = g
    BY <1>1, <2>1 DEF OneHand, SameThread
  <2>5. \A g \in Finishers : fin'[g].pc \notin {"idle", "complete", "judge"} =>
          row'[fin'[g].t].st # "in_progress"
    <3> TAKE g \in Finishers
    <3> HAVE fin'[g].pc \notin {"idle", "complete", "judge"}
    <3>1. /\ fin[g].pc \notin {"idle", "complete", "judge"} /\ fin'[g].t = fin[g].t
      BY <1>1 DEF SameThread
    <3>2. fin[g].t \in Ids /\ fin[g].t # t
      BY <1>2, <3>1, WhereThreadsAre DEF Handled, About
    <3> QED BY <1>1, <2>1, <3>1, <3>2 DEF OneHand
  <2>6. \A f \in live' : row'[f].role = "feeder" => row'[f].st = "in_progress"
    BY <1>1, <2>1 DEF OneHand, TypeOK
  <2> QED BY <2>2, <2>3, <2>4, <2>5, <2>6 DEF OneHand
<1>10. Ways'
  <2> SUFFICES ASSUME NEW g \in Finishers PROVE Way(g)'
    BY DEF Ways
  <2>1. \A u \in Ids : u = fin[g].t => u # t
    BY <1>2 DEF Handled, About
  <2> QED BY <1>1, <1>3, <2>1, WayKept
<1>11. Succeeded'
  <2> SUFFICES ASSUME NEW b \in Ids, NEW u \in Ids,
                      row[b].role \in {"bug", "continuation"}, row[b].of = u
               PROVE  /\ u \notin live' /\ row'[u].st \notin {"pending", "in_progress"}
                      /\ \A f \in Ids : Feeder(f, u) => ~Out(f)
                      /\ \A g \in Finishers : About(g, u)' =>
                           fin'[g].pc \in {"reparent", "review", "prune", "cancel"}
    BY <1>3, <1>6 DEF Succeeded, SameOrigin, SameFeeders
  <2>1. /\ u \notin live /\ row[u].st \notin {"pending", "in_progress"}
        /\ \A f \in Ids : Feeder(f, u) => ~Out(f)
        /\ \A g \in Finishers : About(g, u) =>
             fin[g].pc \in {"reparent", "review", "prune", "cancel"}
    BY DEF Research, Succeeded
  <2> QED BY <1>1, <2>1 DEF About, SameThread
<1>12. OneOut'
  <2> SUFFICES ASSUME NEW u \in Ids, NEW f \in Ids, Feeder(f, u), Out(f)
               PROVE  /\ \A g \in Ids : Feeder(g, u) /\ Out(g) => g = f
                      /\ u \notin live' /\ row'[u].st \notin {"in_progress", "completed"}
                      /\ row'[u].st = "pending" => f \in row'[u].deps
                      /\ \A g \in Finishers : About(g, u)' =>
                           /\ fin'[g].pc = "hold" /\ fin'[g].x = f /\ ~Handled(f)'
                           /\ f \in live' => f \in fin'[g].seen
    BY <1>6 DEF OneOut, SameFeeders
  <2>1. /\ \A g \in Ids : Feeder(g, u) /\ Out(g) => g = f
        /\ u \notin live /\ row[u].st \notin {"in_progress", "completed"}
        /\ row[u].st = "pending" => f \in row[u].deps
        /\ \A g \in Finishers : About(g, u) =>
             /\ fin[g].pc = "hold" /\ fin[g].x = f /\ ~Handled(f)
             /\ f \in live => f \in fin[g].seen
    BY DEF Research, OneOut
  <2>2. u # t
    BY <1>7
  <2>3. \A g \in Finishers : About(g, u)' =>
          /\ About(g, u) /\ fin'[g].pc = fin[g].pc /\ fin'[g].x = fin[g].x
          /\ fin[g].pc = "hold" => fin'[g].seen = fin[g].seen \cup {t}
    BY <1>1 DEF About, SameThread
  <2> QED BY <1>1, <1>4, <2>1, <2>2, <2>3
<1>13. Holds'
  <2> SUFFICES ASSUME NEW g \in Finishers, fin'[g].pc = "hold"
               PROVE  /\ fin'[g].x \in Ids /\ row'[fin'[g].x].role = "feeder"
                      /\ row'[fin'[g].x].of = fin'[g].t =>
                           row'[fin'[g].x].st \in {"pending", "in_progress"}
    BY DEF Holds, Feeder
  <2>1. /\ fin'[g].x = fin[g].x /\ fin'[g].t = fin[g].t
        /\ fin[g].x \in Ids /\ row[fin[g].x].role = "feeder"
        /\ Feeder(fin[g].x, fin[g].t) => row[fin[g].x].st \in {"pending", "in_progress"}
    BY <1>1 DEF SameThread, Research, Holds
  <2> QED BY <1>1, <1>3, <2>1 DEF Feeder, SameOrigin
<1>14. Injects'
  <2> SUFFICES ASSUME NEW g \in Finishers PROVE Inject(g)'
    BY DEF Injects
  <2>1. \A e \in fin[g].deps :
          fin[g].pc = "inject" /\ row'[e].role = "feeder" /\ row'[e].of = fin[g].x =>
            Feeder(e, fin[g].x) /\ row'[e].st = row[e].st
    <3> TAKE e \in fin[g].deps
    <3> HAVE fin[g].pc = "inject" /\ row'[e].role = "feeder" /\ row'[e].of = fin[g].x
    <3>1. e \in Ids
      BY ThreadOf DEF TypeOK
    <3>2. Feeder(e, fin[g].x)
      BY <1>3, <3>1 DEF Feeder, SameOrigin
    <3>3. row[e].st = "completed"
      BY <3>2 DEF Research, Injects, Inject
    <3> QED BY <1>1, <3>1, <3>2, <3>3
  <2> QED BY <1>1, <1>3, <2>1, InjectKept
<1>15. Counted'
  BY <1>3, <1>6, CountKept DEF TypeOK
<1>16. Released'
  <2> SUFFICES ASSUME NEW u \in Ids, NEW f \in Ids, Feeder(f, u), f \in row[u].deps
               PROVE  Out(f) \/ row'[f].st = "completed"
    BY <1>3, <1>6 DEF Released, SameFeeders
  <2> QED BY <1>1 DEF Research, Released
<1> QED BY <1>8, <1>9, <1>10, <1>11, <1>12, <1>13, <1>14, <1>15, <1>16 DEF Research

LEMMA EndsKeeps ==
  ASSUME Prompt, TypeOK, TypeOK', Research, NEW h \in Finishers, NEW t \in Ids,
         NEW p \in {"complete", "judge"}, AgentEnds(h, t, p)
  PROVE  Research'
<1> DEFINE g0 == [fin[h] EXCEPT !.pc = p, !.t = t]
<1>1. /\ t \in live /\ live' = live \ {t} /\ UNCHANGED row
      /\ \A g \in Finishers : t \notin fin[g].seen
      /\ fin[h].pc = "idle" /\ Goes(h, g0)
  BY DEF AgentEnds, Begin, At
<1>2. fin'[h] = g0 /\ Others(h)
  <2> HIDE DEF g0
  <2> QED BY <1>1, PutsThread DEF TypeOK
<1>3. fin[h] = Idle
  BY <1>1 DEF Research, Ways, Way
<1>4. g0.pc = p /\ g0.t = t /\ g0.then = "idle"
  BY <1>3 DEF Idle
<1> HIDE DEF g0
<1>5. ~Handled(t) /\ t # NoTask /\ row[t].st \notin {"absent", "pending"}
  BY <1>1, Constants DEF Research, OneHand, Origins
<1>6. \A u \in Ids : Handled(u)' <=> Handled(u) \/ u = t
  <2>1. fin'[h].t = t /\ fin[h].t = NoTask
    BY <1>2, <1>3, <1>4 DEF Idle
  <2> QED BY <1>2, <2>1, Constants DEF Others, Handled, About
<1>7. \A f \in Ids : Out(f)' <=> Out(f)
  BY <1>1, <1>6 DEF Out
<1>8. SameFeeders
  BY <1>1, <1>7 DEF SameFeeders, Feeder
<1>9. \A g \in Finishers, u \in Ids : u # t /\ fin'[g].t = u => fin'[g] = fin[g]
  BY <1>2, <1>4 DEF Others
<1>10. Origins'
  <2>1. Origins
    BY DEF Research
  <2> QED BY <1>1, <1>5, <1>6, <2>1 DEF Origins, Feeds
<1>11. OneHand'
  <2>1. OneHand
    BY DEF Research
  <2>2. \A u \in Ids : row'[u].st = "pending" => u \notin live' /\ ~Handled(u)'
    BY <1>1, <1>5, <1>6, <2>1 DEF OneHand
  <2>3. \A u \in live' : ~Handled(u)'
    BY <1>1, <1>6, <2>1 DEF OneHand, TypeOK
  <2>4. \A k, g \in Finishers : fin'[k].t = fin'[g].t /\ fin'[k].t # NoTask => k = g
    <3>1. \A g \in Finishers \ {h} : fin'[g] = fin[g] /\ fin[g].t # t
      BY <1>2, <1>5 DEF Others, Handled, About
    <3> QED BY <1>2, <1>4, <2>1, <3>1 DEF OneHand
  <2>5. \A g \in Finishers : fin'[g].pc \notin {"idle", "complete", "judge"} =>
          row'[fin'[g].t].st # "in_progress"
    BY <1>1, <1>2, <1>4, <2>1 DEF OneHand, Others
  <2>6. \A f \in live' : row'[f].role = "feeder" => row'[f].st = "in_progress"
    BY <1>1, <2>1 DEF OneHand
  <2> QED BY <2>2, <2>3, <2>4, <2>5, <2>6 DEF OneHand
<1>12. Ways'
  <2>1. \A g \in Finishers \ {h} : Way(g)'
    BY <1>1, <1>2, OtherWaysKept DEF SameOrigin
  <2>2. Way(h)'
    BY <1>2, <1>4 DEF Way
  <2> QED BY <2>1, <2>2 DEF Ways
<1>13. Succeeded'
  <2> SUFFICES ASSUME NEW b \in Ids, NEW u \in Ids,
                      row[b].role \in {"bug", "continuation"}, row[b].of = u
               PROVE  /\ u \notin live' /\ row[u].st \notin {"pending", "in_progress"}
                      /\ \A f \in Ids : Feeder(f, u) => ~Out(f)
                      /\ \A g \in Finishers : About(g, u)' =>
                           fin'[g].pc \in {"reparent", "review", "prune", "cancel"}
    BY <1>1, <1>8 DEF Succeeded, SameFeeders
  <2>1. /\ u \notin live /\ row[u].st \notin {"pending", "in_progress"}
        /\ \A f \in Ids : Feeder(f, u) => ~Out(f)
        /\ \A g \in Finishers : About(g, u) =>
             fin[g].pc \in {"reparent", "review", "prune", "cancel"}
    BY DEF Research, Succeeded
  <2> QED BY <1>1, <1>9, <2>1 DEF About
<1>14. OneOut'
  <2> SUFFICES ASSUME NEW u \in Ids, NEW f \in Ids, Feeder(f, u), Out(f)
               PROVE  /\ \A g \in Ids : Feeder(g, u) /\ Out(g) => g = f
                      /\ u \notin live' /\ row[u].st \notin {"in_progress", "completed"}
                      /\ row[u].st = "pending" => f \in row[u].deps
                      /\ \A g \in Finishers : About(g, u)' =>
                           /\ fin'[g].pc = "hold" /\ fin'[g].x = f /\ ~Handled(f)'
                           /\ f \in live' => f \in fin'[g].seen
    BY <1>1, <1>8 DEF OneOut, SameFeeders
  <2>1. /\ \A g \in Ids : Feeder(g, u) /\ Out(g) => g = f
        /\ u \notin live /\ row[u].st \notin {"in_progress", "completed"}
        /\ row[u].st = "pending" => f \in row[u].deps
        /\ \A g \in Finishers : About(g, u) =>
             /\ fin[g].pc = "hold" /\ fin[g].x = f /\ ~Handled(f)
             /\ f \in live => f \in fin[g].seen
    BY DEF Research, OneOut
  <2>2. \A g \in Finishers : About(g, u)' => About(g, u) /\ fin'[g] = fin[g]
    BY <1>1, <1>9, <2>1 DEF About
  <2>3. \A g \in Finishers : About(g, u) => f # t
    BY <1>1, <2>1
  <2> QED BY <1>1, <1>6, <2>1, <2>2, <2>3
<1>15. Holds'
  <2> SUFFICES ASSUME NEW g \in Finishers, fin'[g].pc = "hold"
               PROVE  /\ fin'[g].x \in Ids /\ row[fin'[g].x].role = "feeder"
                      /\ row[fin'[g].x].of = fin'[g].t =>
                           row[fin'[g].x].st \in {"pending", "in_progress"}
    BY <1>1 DEF Holds, Feeder
  <2>1. fin'[g] = fin[g]
    BY <1>2, <1>4 DEF Others
  <2> QED BY <2>1 DEF Research, Holds, Feeder
<1>16. Injects'
  <2> SUFFICES ASSUME NEW g \in Finishers PROVE Inject(g)'
    BY DEF Injects
  <2>1. fin'[g].pc = "inject" => SameThread(g)
    BY <1>2, <1>4 DEF Others, SameThread
  <2> QED BY <1>1, <2>1, InjectKept DEF SameOrigin, Feeder
<1>17. Counted'
  BY <1>1, <1>8, CountKept DEF TypeOK
<1>18. Released'
  BY <1>1, <1>7 DEF Research, Released, Feeder
<1> QED BY <1>10, <1>11, <1>12, <1>13, <1>14, <1>15, <1>16, <1>17, <1>18 DEF Research

-------------------------------------------------------------------------------
(* Every step.                                                             *)

LEMMA StepKeeps ==
  ASSUME Prompt, TypeOK, TypeOK', ResultsWritable, Research, NEW h \in Finishers, Step(h)
  PROVE  Research'
<1>1. fin[h].pc # "idle"
  BY DEF Step, Reparented, Complete, Credit, ValidationPasses, ValidationFails, ApplyRead,
         ApplyWrite, Judge, Exhaust, SoftComplete, Feed, CreateFeeder, Hold, CheckDependents,
         Cancel, ReviewRead, Adopt, CreateRecovery, Terminal, Sweep, SetHead, Reparent,
         CancelStale, Prune, At
<1>2. CASE \/ \E u \in Ids : Reparent(h, u) \/ CancelStale(h, u) \/ Prune(h, u)
           \/ Reparented(h) \/ Complete(h) \/ Credit(h) \/ ValidationPasses(h)
           \/ Judge(h) \/ Exhaust(h) \/ SoftComplete(h) \/ Cancel(h) \/ CheckDependents(h)
           \/ ApplyRead(h)
  <2>1. PlainStep(h) \/ FeederStep(h)
    BY <1>2, TransferSteps, OutcomeSteps, JudgeSteps, FailureSteps, ReadSteps
  <2> QED BY <1>1, <2>1, PlainKeeps, FeederKeeps
<1>3. CASE \/ ValidationFails(h) \/ Feed(h) \/ Hold(h) \/ ReviewRead(h) \/ Adopt(h)
           \/ CreateRecovery(h) \/ Terminal(h)
  <2>1. PlainStep(h) \/ MakeStep(h)
    BY <1>3, BugSteps, ResearchSteps, ReviewSteps, RecoverySteps
  <2> QED BY <1>1, <2>1, PlainKeeps, MakeKeeps
<1>4. CASE ApplyWrite(h)
  BY <1>4, WriteKeeps
<1>5. CASE CreateFeeder(h)
  BY <1>5, FeedKeeps
<1>6. CASE Sweep(h) \/ SetHead(h)
  BY <1>6 DEF Sweep, SetHead, At, Research, Ways, Way
<1> QED BY <1>2, <1>3, <1>4, <1>5, <1>6 DEF Step

LEMMA ResearchSame ==
  ASSUME Research, UNCHANGED <<row, fin, live>> PROVE Research'
<1>1. Origins' /\ OneHand'
  BY DEF Research, Origins, OneHand, Feeds, Handled, About
<1>2. Ways'
  BY DEF Research, Ways, Way, Feeds
<1>3. \A f, u \in Ids : (Feeder(f, u)' <=> Feeder(f, u)) /\ (Out(f)' <=> Out(f))
  BY DEF Feeder, Out, Handled, About
<1>4. Succeeded' /\ OneOut'
  BY <1>3 DEF Research, Succeeded, OneOut, Feeder, Handled, About
<1>5. Holds' /\ Injects'
  BY DEF Research, Holds, Injects, Inject, Feeder
<1>6. \A u \in Ids : Back(u)' = Back(u) /\ AllOf(u)' = AllOf(u)
  BY <1>3 DEF Back, AllOf
<1>7. Counted' /\ Released'
  BY <1>3, <1>6 DEF Research, Counted, Released
<1> QED BY <1>1, <1>2, <1>4, <1>5, <1>7 DEF Research

LEMMA CalmBefore ==
  ASSUME TypeOK, [Next]_vars, Calm'
  PROVE  /\ Calm
         /\ \/ \E h \in Finishers : Step(h)
            \/ \E t \in Ids : Spawn(t) \/ Ends(t)
            \/ UNCHANGED <<row, fin, live>>
<1> USE DEF Calm, TypeOK
<1>1. CASE UNCHANGED vars
  BY <1>1 DEF vars
<1>2. ASSUME NEW h \in Finishers, Step(h) PROVE Else
  BY <1>2 DEF Step, Reparented, Complete, Credit, ValidationPasses, ValidationFails, ApplyRead,
         ApplyWrite, Judge, Exhaust, SoftComplete, Feed, CreateFeeder, Hold, CheckDependents,
         Cancel, ReviewRead, Adopt, CreateRecovery, Terminal, Sweep, SetHead, Reparent,
         CancelStale, Prune
<1>3. ASSUME NEW t \in Ids, Spawn(t) \/ Ends(t) PROVE Calm
  BY <1>3 DEF Spawn, Ends, AgentSucceeds, AgentFails, AgentEnds, bounds
<1>4. ASSUME NEW t \in Ids, ResetRequest(t) PROVE FALSE
  BY <1>4 DEF ResetRequest
<1>5. ASSUME NEW h \in Finishers, NEW t \in Ids, CleanupRequest(h, t) PROVE FALSE
  BY <1>5 DEF CleanupRequest
<1>6. ~Restart
  BY DEF Restart
<1>7. PauseRequest => Calm /\ UNCHANGED <<row, fin, live>>
  BY DEF PauseRequest
<1> QED BY <1>1, <1>2, <1>3, <1>4, <1>5, <1>6, <1>7 DEF Next, Else, bounds

LEMMA ResearchKept ==
  ASSUME Prompt
  PROVE  TypeOK /\ TypeOK' /\ ResultsWritable /\ (Calm => Research) /\ [Next]_vars
           => (Calm => Research)'
<1> SUFFICES ASSUME TypeOK, TypeOK', ResultsWritable, Calm => Research, [Next]_vars, Calm'
             PROVE  Research'
  BY DEF Calm
<1>1. /\ Research
      /\ \/ \E h \in Finishers : Step(h)
         \/ \E t \in Ids : Spawn(t) \/ Ends(t)
         \/ UNCHANGED <<row, fin, live>>
  BY CalmBefore
<1>2. ASSUME NEW t \in Ids, Ends(t) PROVE Research'
  BY <1>1, <1>2, EndsKeeps DEF Ends, AgentSucceeds, AgentFails
<1> QED BY <1>1, <1>2, StepKeeps, SpawnKeeps, ResearchSame

LEMMA ResearchAtFirst == Init => Research
<1> SUFFICES ASSUME Init PROVE Research
  OBVIOUS
<1>1. /\ \A t \in Ids : row[t].role = "plain" /\ row[t].root = NoTask
      /\ \A t \in Tasks : row[t].st = "pending"
      /\ live = {} /\ \A h \in Finishers : fin[h] = Idle
  BY Constants DEF Init, Task, Absent
<1>2. \A t \in Ids : ~Handled(t)
  BY <1>1, Constants DEF Handled, About, Idle
<1>3. \A f, t \in Ids : ~Feeder(f, t)
  BY <1>1 DEF Feeder
<1>4. Origins
  BY <1>1, <1>2, Constants DEF Origins
<1>5. /\ \A h \in Finishers : /\ fin[h].pc = "idle" /\ fin[h].t = NoTask
                             /\ fin[h].then = "idle" /\ fin[h].todo = {}
  BY <1>1 DEF Idle
<1>6. OneHand /\ Succeeded /\ OneOut /\ Released
  BY <1>1, <1>2, <1>3, <1>5 DEF OneHand, Succeeded, OneOut, Released
<1>7. Ways /\ Holds /\ Injects
  BY <1>1, <1>5, Constants DEF Ways, Way, Holds, Injects, Inject
<1>8. Counted
  <2>1. \A t \in Ids : Back(t) = {} /\ AllOf(t) = {} /\ row[t].cycles \in Nat
    BY <1>3, InitTypes, RowOf DEF Back, AllOf, TypeOK
  <2> QED BY <2>1, FS_EmptySet, Constants DEF Counted
<1> QED BY <1>4, <1>6, <1>7, <1>8 DEF Research

LEMMA CapInResearch == Research => FeederCap
<1> SUFFICES ASSUME Research, NEW t \in Ids
             PROVE  Cardinality({f \in Rows : row[f].role = "feeder" /\ row[f].of = t})
                      <= MAX_RESEARCH_FEEDER_CYCLES
  BY DEF FeederCap
<1>1. {f \in Rows : row[f].role = "feeder" /\ row[f].of = t} = AllOf(t)
  BY DEF Rows, AllOf, Feeder, Research, Origins
<1> QED BY <1>1 DEF Research, Counted

(* A task is never given more feeders than MAX_RESEARCH_FEEDER_CYCLES      *)
(* ("cap on how many feeders one task can spawn"), whatever the tasks and  *)
(* the other threads are, until an operator resets or cleans up or the     *)
(* process restarts: _apply_research_feeder_result counts each that is     *)
(* back before _spawn_research_feeder reads the count again.  A result     *)
(* whose write would close a cycle is refused, and not counted.            *)
THEOREM FeedersAreBounded ==
  ASSUME Prompt PROVE Spec /\ []ResultsWritable => []FeedersBounded
<1>1. Init => (Calm => Research)
  BY ResearchAtFirst
<1>2. (Calm => Research) => FeedersBounded
  BY CapInResearch DEF Calm, FeedersBounded
<1> QED BY <1>1, <1>2, ResearchKept, TypeCorrect, PTL DEF Spec

(* When no finish thread is at work, no pending task waits for research    *)
(* that failed or was cancelled, though _apply_research_feeder_result      *)
(* writes what it read of the task before: a feeder that is not out any    *)
(* more is complete, or not among the dependencies of its task.            *)
THEOREM FeedersRelease ==
  ASSUME Prompt PROVE Spec /\ []ResultsWritable => [](cleanups = 0 => FeederReleases)
<1>1. Init => (Calm => Research)
  BY ResearchAtFirst
<1>2. TypeOK /\ (Calm => Research) => (cleanups = 0 => FeederReleases)
  <2> SUFFICES ASSUME TypeOK, Research, Quiet, NEW f \in Rows,
                      row[f].role = "feeder", f \in row[row[f].of].deps
               PROVE  row[f].st \notin {"failed", "cancelled"}
    BY DEF Calm, FeederReleases
  <2>1. f \in Ids /\ row[f].of \in Ids /\ Feeder(f, row[f].of)
    BY DEF Rows, Feeder, Research, Origins
  <2>2. ~Handled(f)
    BY <2>1, Constants DEF Quiet, At, Handled, About, TypeOK, ThreadsOK
  <2>3. Out(f) \/ row[f].st = "completed"
    BY <2>1 DEF Research, Released
  <2>4. f \in live => row[f].st = "in_progress"
    BY DEF Research, OneHand
  <2> QED BY <2>2, <2>3, <2>4 DEF Out
<1> QED BY <1>1, <1>2, ResearchKept, TypeCorrect, PTL DEF Spec

===============================================================================
