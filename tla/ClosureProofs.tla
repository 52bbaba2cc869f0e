----------------------------- MODULE ClosureProofs -----------------------------
(***************************************************************************)
(* Proofs about the closure loop, for every set of checks, every budget    *)
(* and threshold, and however often checks break, agents fail and runs are *)
(* requested.                                                              *)
(***************************************************************************)
EXTENDS Closure, FiniteSetTheorems, SequenceTheorems, WellFoundedInduction, TLAPS

LEMMA Limits ==
  /\ StallThreshold \in Nat /\ StallThreshold > 0 /\ Budget \in Nat
  /\ MaxBreaks \in Nat /\ MaxFails \in Nat /\ MaxRounds \in Nat
  /\ MaxRequests \in Nat /\ MaxRestarts \in Nat
  /\ Cardinality(Fingerprints) \in Nat
BY ConstantsAssumption, FS_CardinalityType

-------------------------------------------------------------------------------
(* What the counts of the summary are.                                     *)

LEMMA MaxInRange ==
  ASSUME NEW n \in Nat, NEW S \in SUBSET (0..n), S # {}
  PROVE  Max(S) \in S
<1> DEFINE below == {n - x : x \in S}
<1>1. below \subseteq Nat /\ below # {}
  <2> PICK x \in S : TRUE
    OBVIOUS
  <2>1. n - x \in below
    OBVIOUS
  <2>2. \A y \in S : n - y \in Nat
    OBVIOUS
  <2> QED BY <2>1, <2>2
<1>2. \E d \in below : \A e \in below : ~ (<<e, d>> \in OpToRel(<, Nat))
  BY <1>1, NatLessThanWellFounded, WFMin, Zenon
<1>3. PICK d \in below : \A e \in below : ~ (e < d)
  BY <1>1, <1>2, Zenon DEF OpToRel
<1>4. PICK x \in S : d = n - x
  BY <1>3
<1>5. \A y \in S : x >= y
  <2> TAKE y \in S
  <2>1. ~ (n - y < n - x)
    BY <1>3, <1>4
  <2> QED BY <2>1
<1> QED BY <1>5 DEF Max

LEMMA OpenIsCounted ==
  Cardinality(Open) \in 0..Cardinality(Fingerprints)
<1>1. IsFiniteSet(Open) /\ Cardinality(Open) <= Cardinality(Fingerprints)
  BY ConstantsAssumption, FS_Subset DEF Open
<1> QED BY <1>1, Limits, FS_CardinalityType

LEMMA SummaryType ==
  ASSUME reg \in [Fingerprints -> RegRecords]
  PROVE  /\ Summary.open \in 0..Cardinality(Fingerprints)
         /\ Summary.stall \in 0..StallThreshold
<1> DEFINE S == {0} \cup {reg[f].occ : f \in Open}
<1>1. S \in SUBSET (0..StallThreshold) /\ S # {}
  BY Limits DEF Open, RegRecords
<1>2. Max(S) \in 0..StallThreshold
  BY <1>1, MaxInRange, Limits
<1> QED BY <1>2, OpenIsCounted DEF Summary

LEMMA RefreshedType ==
  ASSUME proj \in ProjRecords, NEW n \in 0..Cardinality(Fingerprints),
         NEW s \in 0..StallThreshold
  PROVE  Refreshed(n, s) \in ProjRecords
<1> DEFINE status == IF n = 0 /\ proj.status \in {"stalled", "frozen"} THEN "green" ELSE proj.status
<1>1. status \in {"yellow", "green", "frozen", "stalled"}
  BY DEF ProjRecords
<1>2. Refreshed(n, s) = [proj EXCEPT !.open = n, !.stall = s, !.status = status]
  BY DEF Refreshed, ProjRecords
<1> QED BY <1>1, <1>2 DEF ProjRecords

-------------------------------------------------------------------------------
(* The records the threads start from and pass on.                         *)

LEMMA NoLinks == [f \in Fingerprints |-> Unlinked] \in [Fingerprints -> Nat]
BY DEF Unlinked

LEMMA VerIdleType == VerIdle \in VerRecords
<1>1. \A b \in BOOLEAN :
        [pc |-> "idle", failing |-> {}, todo |-> {},
         links |-> [f \in Fingerprints |-> Unlinked], f |-> {}, round |-> 0,
         open |-> 0, stall |-> 0, route |-> b] \in VerRecords
  BY NoLinks, Limits DEF VerRecords, VerPcs
<1> QED BY <1>1, Zenon DEF VerIdle

LEMMA FinIdleType == FinIdle \in FinRecords
<1>1. \A b \in BOOLEAN :
        [pc |-> "idle", f |-> {}, r |-> 0, again |-> b, open |-> 0, stall |-> 0] \in FinRecords
  BY Limits DEF FinRecords
<1> QED BY <1>1, Zenon DEF FinIdle

LEMMA PlannedType ==
  ASSUME NEW t \in VerRecords
  PROVE  Planned(t) \in VerRecords
<1>1. [t EXCEPT !.pc = "plan", !.f = {}, !.round = 0] \in VerRecords
  BY DEF VerRecords, VerPcs
<1> DEFINE idle == VerIdle
<1>2. idle \in VerRecords /\ t.failing \in SUBSET Fingerprints
  BY VerIdleType DEF VerRecords
<1> HIDE DEF idle
<1>3. [idle EXCEPT !.pc = "derive", !.failing = t.failing] \in VerRecords
  BY <1>2 DEF VerRecords, VerPcs
<1>4. [VerIdle EXCEPT !.pc = "derive", !.failing = t.failing] \in VerRecords
  BY <1>3, Zenon DEF idle
<1> QED BY <1>1, <1>4, VerIdleType DEF Planned

(* A task set in its place: the others and their number stay.              *)
LEMMA TaskWritten ==
  ASSUME tasks \in [Fingerprints -> Seq(TaskRecords)], NEW f \in Fingerprints,
         NEW r \in 1..Len(tasks[f]), NEW t \in TaskRecords
  PROVE  /\ [tasks EXCEPT ![f][r] = t] \in [Fingerprints -> Seq(TaskRecords)]
         /\ \A g \in Fingerprints : Len([tasks EXCEPT ![f][r] = t][g]) = Len(tasks[g])
<1>1. [tasks[f] EXCEPT ![r] = t] \in Seq(TaskRecords) /\ Len([tasks[f] EXCEPT ![r] = t]) = Len(tasks[f])
  BY ExceptSeq
<1> QED BY <1>1

LEMMA TaskAppended ==
  ASSUME tasks \in [Fingerprints -> Seq(TaskRecords)], NEW f \in Fingerprints,
         NEW t \in TaskRecords
  PROVE  /\ [tasks EXCEPT ![f] = Append(@, t)] \in [Fingerprints -> Seq(TaskRecords)]
         /\ \A g \in Fingerprints :
              Len([tasks EXCEPT ![f] = Append(@, t)][g]) = IF g = f THEN Len(tasks[g]) + 1 ELSE Len(tasks[g])
<1>1. Append(tasks[f], t) \in Seq(TaskRecords) /\ Len(Append(tasks[f], t)) = Len(tasks[f]) + 1
  BY AppendProperties
<1> QED BY <1>1

-------------------------------------------------------------------------------
(* The types, without the links.                                           *)
Shape ==
  /\ broken \subseteq Fingerprints
  /\ reg \in [Fingerprints -> RegRecords]
  /\ tasks \in [Fingerprints -> Seq(TaskRecords)]
  /\ feature \in {"none", "pending", "running"}
  /\ proj \in ProjRecords /\ active \subseteq RunTypes
  /\ ver \in [RunTypes -> VerRecords] /\ fin \in FinRecords
  /\ breaks \in 0..MaxBreaks /\ fails \in 0..MaxFails
  /\ requests \in 0..MaxRequests /\ restarts \in 0..MaxRestarts

LEMMA TypeParts == TypeOK <=> Shape /\ LinksLead
BY DEF TypeOK, Shape

LEMMA Lengths ==
  ASSUME Shape, NEW f \in Fingerprints
  PROVE  /\ Len(tasks[f]) \in Nat /\ DOMAIN tasks[f] = 1..Len(tasks[f])
         /\ \A r \in 1..Len(tasks[f]) : tasks[f][r] \in TaskRecords
<1>1. tasks[f] \in Seq(TaskRecords)
  BY DEF Shape
<1> QED BY <1>1, LenProperties, ElementOfSeq

(* Tasks are never taken out of the table.                                 *)
Kept == \A g \in Fingerprints : Len(tasks'[g]) >= Len(tasks[g])

LEMMA CancelTasks ==
  ASSUME TypeOK, NEW v \in RunTypes, NEW f \in Fingerprints, Cancel(v, f)
  PROVE  tasks' \in [Fingerprints -> Seq(TaskRecords)] /\ Kept
<1> DEFINE r == ver[v].links[f]
<1>1. CASE r # Unlinked /\ tasks[f][r].st \in Active
  <2>1. r \in 1..Len(tasks[f])
    BY <1>1, Lengths, TypeParts DEF Shape, LinksLead, ThreadLeads, VerRecords, Unlinked
  <2>2. [tasks[f][r] EXCEPT !.st = "ended"] \in TaskRecords
    BY <2>1, Lengths, TypeParts DEF TaskRecords
  <2>3. tasks' = [tasks EXCEPT ![f][r] = [tasks[f][r] EXCEPT !.st = "ended"]]
    BY <1>1 DEF Cancel
  <2> QED BY <2>1, <2>2, <2>3, TaskWritten, Lengths, TypeParts DEF Shape, Kept
<1>2. CASE ~(r # Unlinked /\ tasks[f][r].st \in Active)
  BY <1>2, Lengths, TypeParts DEF Cancel, Shape, Kept
<1> QED BY <1>1, <1>2

LEMMA PlanTaskTasks ==
  ASSUME TypeOK, NEW v \in RunTypes, NEW f \in Fingerprints, PlanTask(v, f)
  PROVE  /\ tasks' \in [Fingerprints -> Seq(TaskRecords)] /\ Kept
         /\ ver[v].round <= Len(tasks'[f])
<1> DEFINE r == ver[v].round
           t == [triage |-> r > Budget, st |-> "pending", run |-> FALSE]
<1>1. r \in Nat /\ r > 0 /\ r <= Len(tasks[f]) + 1
  BY TypeParts DEF Shape, LinksLead, ThreadLeads, VerRecords, PlanTask
<1>2. CASE r \in DOMAIN tasks[f]
  <2>1. r \in 1..Len(tasks[f])
    BY <1>2, Lengths, TypeParts
  <2>2. [tasks[f][r] EXCEPT !.st = "pending"] \in TaskRecords
    BY <2>1, Lengths, TypeParts DEF TaskRecords, Active
  <2>3. tasks' = [tasks EXCEPT ![f][r] = [tasks[f][r] EXCEPT !.st = "pending"]]
    BY <1>2 DEF PlanTask
  <2> QED BY <1>1, <2>1, <2>2, <2>3, TaskWritten, Lengths, TypeParts DEF Shape, Kept
<1>3. CASE r \notin DOMAIN tasks[f]
  <2>1. \A b, c \in BOOLEAN : [triage |-> b, st |-> "pending", run |-> c] \in TaskRecords
    BY DEF TaskRecords, Active
  <2>2. (r > Budget) \in BOOLEAN /\ FALSE \in BOOLEAN
    BY <1>1, Limits
  <2>3. t \in TaskRecords
    BY <2>1, <2>2, Zenon
  <2>4. tasks' = [tasks EXCEPT ![f] = Append(@, t)]
    BY <1>3, Zenon DEF PlanTask
  <2> HIDE DEF t
  <2>5. r = Len(tasks[f]) + 1
    BY <1>1, <1>3, Lengths, TypeParts
  <2> QED BY <2>3, <2>4, <2>5, TaskAppended, Lengths, TypeParts DEF Shape, Kept
<1> QED BY <1>2, <1>3

LEMMA AgentTasks ==
  ASSUME TypeOK, NEW f \in Fingerprints, Agent(f)
  PROVE  tasks' \in [Fingerprints -> Seq(TaskRecords)] /\ Kept
<1>1. PICK r \in DOMAIN tasks[f] : RepairStart(f, r) \/ RepairDone(f, r) \/ RepairFails(f, r)
  BY DEF Agent
<1>2. r \in 1..Len(tasks[f]) /\ tasks[f][r] \in TaskRecords
  BY Lengths, TypeParts
<1>3. \A s \in Active \cup {"ended"}, b \in BOOLEAN :
        [tasks[f][r] EXCEPT !.st = s, !.run = b] \in TaskRecords
  BY <1>2 DEF TaskRecords
<1>4. \E s \in Active \cup {"ended"}, b \in BOOLEAN :
        tasks' = [tasks EXCEPT ![f][r] = [tasks[f][r] EXCEPT !.st = s, !.run = b]]
  <2>1. \A s \in {"pending", "in_progress", "ended"}, b \in BOOLEAN :
          [tasks EXCEPT ![f][r].st = s, ![f][r].run = b]
            = [tasks EXCEPT ![f][r] = [tasks[f][r] EXCEPT !.st = s, !.run = b]]
    BY <1>2, Lengths, TypeParts DEF Shape, TaskRecords
  <2>2. CASE RepairStart(f, r)
    BY <2>1, <2>2, Zenon DEF RepairStart, Active
  <2>3. CASE RepairDone(f, r)
    BY <2>1, <2>3, Zenon DEF RepairDone
  <2>4. CASE RepairFails(f, r)
    <3>1. PICK s \in {"pending", "ended"} : tasks' = [tasks EXCEPT ![f][r].st = s, ![f][r].run = FALSE]
      BY <2>4, Zenon DEF RepairFails
    <3>2. s \in {"pending", "in_progress", "ended"} /\ s \in Active \cup {"ended"}
      BY DEF Active
    <3> QED BY <2>1, <3>1, <3>2, Zenon
  <2> QED BY <1>1, <2>2, <2>3, <2>4
<1>5. PICK t \in TaskRecords : tasks' = [tasks EXCEPT ![f][r] = t]
  BY <1>3, <1>4, Zenon
<1>6. tasks \in [Fingerprints -> Seq(TaskRecords)]
  BY TypeParts DEF Shape
<1> QED BY <1>2, <1>5, <1>6, TaskWritten, Lengths, TypeParts DEF Kept

LEMMA RestartTasks ==
  ASSUME TypeOK, Restart
  PROVE  tasks' \in [Fingerprints -> Seq(TaskRecords)] /\ Kept
<1> DEFINE put(t) == [t EXCEPT !.st = IF @ = "in_progress" THEN "pending" ELSE @, !.run = FALSE]
<1>1. ASSUME NEW t \in TaskRecords PROVE put(t) \in TaskRecords
  <2>1. \A b \in BOOLEAN : [t EXCEPT !.st = IF @ = "in_progress" THEN "pending" ELSE @, !.run = b] \in TaskRecords
    BY DEF TaskRecords, Active
  <2> QED BY <2>1, Zenon
<1> HIDE DEF put
<1>2. ASSUME NEW f \in Fingerprints
      PROVE  /\ [r \in DOMAIN tasks[f] |-> put(tasks[f][r])] \in Seq(TaskRecords)
             /\ Len([r \in DOMAIN tasks[f] |-> put(tasks[f][r])]) = Len(tasks[f])
  <2> DEFINE s == [r \in 1..Len(tasks[f]) |-> put(tasks[f][r])]
  <2>1. s \in [1..Len(tasks[f]) -> TaskRecords] /\ Len(tasks[f]) \in Nat
    BY <1>1, Lengths, TypeParts
  <2>2. s \in Seq(TaskRecords)
    BY <2>1, SeqDef
  <2>3. DOMAIN s = 1..Len(s) /\ Len(s) \in Nat /\ DOMAIN s = 1..Len(tasks[f])
    BY <2>2, LenProperties
  <2> HIDE DEF s
  <2>4. Len(s) = Len(tasks[f])
    BY <2>1, <2>3
  <2> QED BY <2>2, <2>4, Lengths, TypeParts DEF s
<1>3. tasks' = [f \in Fingerprints |-> [r \in DOMAIN tasks[f] |-> put(tasks[f][r])]]
  BY Zenon DEF Restart, put
<1> QED BY <1>2, <1>3, Lengths, TypeParts DEF Kept

LEMMA TasksStep ==
  ASSUME TypeOK, [Next]_vars
  PROVE  tasks' \in [Fingerprints -> Seq(TaskRecords)] /\ Kept
<1>1. CASE tasks' = tasks
  BY <1>1, Lengths, TypeParts DEF Shape, Kept
<1>2. CASE \E v \in RunTypes : Start(v) \/ Run(v) \/ RepairRoute(v)
  <2>1. PICK v \in RunTypes : Start(v) \/ Run(v) \/ RepairRoute(v)
    BY <1>2
  <2>2. CASE Start(v) \/ RepairRoute(v)
    BY <1>1, <2>2 DEF Start, RepairRoute
  <2>3. CASE Checks(v) \/ RefreshRead(v) \/ RefreshWrite(v) \/ PlanList(v) \/ Derive(v)
    BY <1>1, <2>3 DEF Checks, RefreshRead, RefreshWrite, PlanList, Derive
  <2>4. CASE \E f \in Fingerprints :
               \/ Upsert(v, f) \/ Resolve(v, f) \/ Cancel(v, f)
               \/ PlanOne(v, f) \/ PlanTask(v, f) \/ PlanLink(v, f)
    <3>1. PICK f \in Fingerprints : \/ Upsert(v, f) \/ Resolve(v, f) \/ Cancel(v, f)
                                    \/ PlanOne(v, f) \/ PlanTask(v, f) \/ PlanLink(v, f)
      BY <2>4
    <3>2. CASE Upsert(v, f) \/ Resolve(v, f) \/ PlanOne(v, f) \/ PlanLink(v, f)
      BY <1>1, <3>2 DEF Upsert, Resolve, PlanOne, PlanLink
    <3> QED BY <3>1, <3>2, CancelTasks, PlanTaskTasks
  <2> QED BY <2>1, <2>2, <2>3, <2>4 DEF Run
<1>3. CASE Next
  BY <1>1, <1>2, <1>3, AgentTasks, RestartTasks
     DEF Next, Break, FeatureComes, FeatureStart, FeatureDone, FinishThread, FinGate,
         FinRead, FinWrite, FinResolve
<1> QED BY <1>1, <1>3 DEF vars

-------------------------------------------------------------------------------
(* Who changes what.                                                       *)

LEMMA RegMoves ==
  ASSUME [Next]_vars
  PROVE  \/ reg' = reg
         \/ \E v \in RunTypes, f \in Fingerprints : Upsert(v, f) \/ Resolve(v, f) \/ PlanLink(v, f)
         \/ \E f \in Fingerprints : FinResolve(f)
<1>1. CASE \E v \in RunTypes : Start(v) \/ Run(v) \/ RepairRoute(v)
  <2>1. PICK v \in RunTypes : Start(v) \/ Run(v) \/ RepairRoute(v)
    BY <1>1
  <2>2. CASE Start(v) \/ RepairRoute(v)
    BY <2>2 DEF Start, RepairRoute
  <2>3. CASE Checks(v) \/ RefreshRead(v) \/ RefreshWrite(v) \/ PlanList(v) \/ Derive(v)
    BY <2>3 DEF Checks, RefreshRead, RefreshWrite, PlanList, Derive
  <2>4. CASE \E f \in Fingerprints :
               \/ Upsert(v, f) \/ Resolve(v, f) \/ Cancel(v, f)
               \/ PlanOne(v, f) \/ PlanTask(v, f) \/ PlanLink(v, f)
    <3>1. PICK f \in Fingerprints : \/ Upsert(v, f) \/ Resolve(v, f) \/ Cancel(v, f)
                                    \/ PlanOne(v, f) \/ PlanTask(v, f) \/ PlanLink(v, f)
      BY <2>4
    <3>2. CASE Cancel(v, f) \/ PlanTask(v, f) \/ PlanOne(v, f)
      BY <3>2 DEF Cancel, PlanTask, PlanOne
    <3> QED BY <3>1, <3>2
  <2> QED BY <2>1, <2>2, <2>3, <2>4 DEF Run
<1>2. CASE \E f \in Fingerprints : Break(f) \/ Agent(f)
  BY <1>2, ZenonT(60) DEF Break, Agent, RepairStart, RepairDone, RepairFails
<1>3. CASE FeatureComes \/ FeatureStart \/ FeatureDone \/ FinGate \/ FinRead \/ FinWrite \/ Restart
  BY <1>3 DEF FeatureComes, FeatureStart, FeatureDone, FinGate, FinRead, FinWrite, Restart
<1> QED BY <1>1, <1>2, <1>3 DEF Next, FinishThread, vars

LEMMA ProjMoves ==
  ASSUME [Next]_vars
  PROVE  \/ proj' = proj
         \/ \E v \in RunTypes : Checks(v) \/ RefreshWrite(v) \/ Derive(v)
         \/ FinWrite
<1>1. CASE \E v \in RunTypes : Start(v) \/ Run(v) \/ RepairRoute(v)
  <2>1. PICK v \in RunTypes : Start(v) \/ Run(v) \/ RepairRoute(v)
    BY <1>1
  <2>2. CASE Start(v) \/ RepairRoute(v)
    BY <2>2 DEF Start, RepairRoute
  <2>3. CASE RefreshRead(v) \/ PlanList(v)
    BY <2>3 DEF RefreshRead, PlanList
  <2>4. CASE \E f \in Fingerprints :
               \/ Upsert(v, f) \/ Resolve(v, f) \/ Cancel(v, f)
               \/ PlanOne(v, f) \/ PlanTask(v, f) \/ PlanLink(v, f)
    BY <2>4 DEF Upsert, Resolve, Cancel, PlanOne, PlanTask, PlanLink
  <2> QED BY <2>1, <2>2, <2>3, <2>4 DEF Run
<1>2. CASE \E f \in Fingerprints : Break(f) \/ Agent(f)
  BY <1>2, ZenonT(60) DEF Break, Agent, RepairStart, RepairDone, RepairFails
<1>3. CASE FeatureComes \/ FeatureStart \/ FeatureDone \/ FinGate \/ FinRead \/ Restart
  BY <1>3 DEF FeatureComes, FeatureStart, FeatureDone, FinGate, FinRead, Restart
<1>4. CASE \E f \in Fingerprints : FinResolve(f)
  BY <1>4 DEF FinResolve
<1> QED BY <1>1, <1>2, <1>3, <1>4 DEF Next, FinishThread, vars

LEMMA VerMoves ==
  ASSUME [Next]_vars
  PROVE  \/ ver' = ver
         \/ \E v \in RunTypes : Start(v) \/ Run(v) \/ RepairRoute(v)
         \/ Restart
<1>1. CASE \E f \in Fingerprints : Break(f) \/ Agent(f)
  BY <1>1, ZenonT(60) DEF Break, Agent, RepairStart, RepairDone, RepairFails
<1>2. CASE FeatureComes \/ FeatureStart \/ FeatureDone \/ FinGate \/ FinRead \/ FinWrite
  BY <1>2 DEF FeatureComes, FeatureStart, FeatureDone, FinGate, FinRead, FinWrite
<1>3. CASE \E f \in Fingerprints : FinResolve(f)
  BY <1>3 DEF FinResolve
<1> QED BY <1>1, <1>2, <1>3 DEF Next, FinishThread, vars

-------------------------------------------------------------------------------
(* The table of regressions, the projects row, the rest.                   *)

LEMMA RegStep ==
  ASSUME TypeOK, [Next]_vars
  PROVE  /\ reg' \in [Fingerprints -> RegRecords]
         /\ \A f \in Fingerprints : reg'[f].link <= Len(tasks'[f])
<1>0. /\ reg \in [Fingerprints -> RegRecords] /\ ver \in [RunTypes -> VerRecords]
      /\ \A f \in Fingerprints : /\ reg[f].link <= Len(tasks[f]) /\ reg[f].link \in Nat
                                 /\ Len(tasks[f]) \in Nat /\ Len(tasks'[f]) \in Nat
                                 /\ Len(tasks'[f]) >= Len(tasks[f])
  <2>1. \A f \in Fingerprints : Len(tasks[f]) \in Nat /\ Len(tasks'[f]) \in Nat
    BY TypeParts, TasksStep, Lengths, LenProperties
  <2> QED BY <2>1, TypeParts, TasksStep DEF Shape, LinksLead, Kept, RegRecords
<1>1. CASE reg' = reg
  BY <1>0, <1>1
<1>2. ASSUME NEW v \in RunTypes, NEW f \in Fingerprints, Upsert(v, f)
      PROVE  /\ reg' \in [Fingerprints -> RegRecords]
             /\ \A g \in Fingerprints : reg'[g].link <= Len(tasks'[g])
  <2>1. CASE reg[f].st = "open"
    <3> DEFINE n == IF reg[f].occ < StallThreshold THEN reg[f].occ + 1 ELSE reg[f].occ
    <3>1. n \in 0..StallThreshold
      BY <1>0, Limits DEF RegRecords
    <3> DEFINE row == [reg[f] EXCEPT !.src = v, !.occ = n]
    <3>2. reg' = [reg EXCEPT ![f] = row]
      BY <1>2, <2>1 DEF Upsert
    <3> HIDE DEF n
    <3>3. row \in RegRecords /\ row.link = reg[f].link
      BY <1>0, <3>1 DEF RegRecords
    <3> HIDE DEF row
    <3> QED BY <1>0, <3>2, <3>3
  <2>2. CASE reg[f].st # "open"
    <3>1. reg' = [reg EXCEPT ![f] = [st |-> "open", occ |-> 1, src |-> v, link |-> Unlinked]]
      BY <1>0, <1>2, <2>2 DEF Upsert
    <3> QED BY <1>0, <3>1, Limits DEF RegRecords, Unlinked
  <2> QED BY <2>1, <2>2
<1>3. ASSUME NEW v \in RunTypes, NEW f \in Fingerprints, Resolve(v, f)
      PROVE  /\ reg' \in [Fingerprints -> RegRecords]
             /\ \A g \in Fingerprints : reg'[g].link <= Len(tasks'[g])
  BY <1>0, <1>3 DEF Resolve, RegRecords
<1>4. ASSUME NEW v \in RunTypes, NEW f \in Fingerprints, PlanLink(v, f)
      PROVE  /\ reg' \in [Fingerprints -> RegRecords]
             /\ \A g \in Fingerprints : reg'[g].link <= Len(tasks'[g])
  <2>1. ver[v].round \in Nat /\ ver[v].round <= Len(tasks[f]) /\ ver[v].pc = "link"
    BY <1>0, <1>4, TypeParts DEF PlanLink, LinksLead, ThreadLeads, VerRecords
  <2> DEFINE s == IF ver[v].round > Budget THEN "stalled" ELSE reg[f].st
  <2>2. s \in {"none", "open", "stalled", "resolved"}
    BY <1>0 DEF RegRecords
  <2> DEFINE row == [reg[f] EXCEPT !.link = ver[v].round, !.st = s]
  <2>3. reg' = [reg EXCEPT ![f] = row]
    BY <1>0, <1>4 DEF PlanLink
  <2> HIDE DEF s
  <2>4. row \in RegRecords /\ row.link = ver[v].round
    BY <1>0, <2>1, <2>2 DEF RegRecords
  <2> HIDE DEF row
  <2> QED BY <1>0, <2>1, <2>3, <2>4
<1>5. ASSUME NEW f \in Fingerprints, FinResolve(f)
      PROVE  /\ reg' \in [Fingerprints -> RegRecords]
             /\ \A g \in Fingerprints : reg'[g].link <= Len(tasks'[g])
  <2> DEFINE row == [reg[f] EXCEPT !.st = "resolved"]
  <2>1. reg' = reg \/ reg' = [reg EXCEPT ![f] = row]
    BY <1>5 DEF FinResolve
  <2>2. row \in RegRecords /\ row.link = reg[f].link
    BY <1>0 DEF RegRecords
  <2> HIDE DEF row
  <2> QED BY <1>0, <2>1, <2>2, SMTT(30)
<1> QED BY <1>1, <1>2, <1>3, <1>4, <1>5, RegMoves

LEMMA ProjStep ==
  ASSUME TypeOK, [Next]_vars
  PROVE  proj' \in ProjRecords
<1>0. proj \in ProjRecords /\ ver \in [RunTypes -> VerRecords] /\ fin \in FinRecords
  BY TypeParts DEF Shape
<1>1. ASSUME NEW v \in RunTypes, Checks(v) PROVE proj' \in ProjRecords
  <2>1. \A b \in BOOLEAN : [proj EXCEPT !.seen = b] \in ProjRecords
    BY <1>0 DEF ProjRecords
  <2> QED BY <1>1, <2>1, Zenon DEF Checks
<1>2. ASSUME NEW v \in RunTypes, RefreshWrite(v) PROVE proj' \in ProjRecords
  <2>1. ver[v].open \in 0..Cardinality(Fingerprints) /\ ver[v].stall \in 0..StallThreshold
    BY <1>0 DEF VerRecords
  <2> QED BY <1>0, <1>2, <2>1, RefreshedType DEF RefreshWrite
<1>3. ASSUME NEW v \in RunTypes, Derive(v) PROVE proj' \in ProjRecords
  BY <1>0, <1>3 DEF Derive, derive_closure_status, ProjRecords
<1>4. CASE FinWrite
  <2>1. fin.open \in 0..Cardinality(Fingerprints) /\ fin.stall \in 0..StallThreshold
    BY <1>0 DEF FinRecords
  <2> QED BY <1>0, <1>4, <2>1, RefreshedType DEF FinWrite
<1> QED BY <1>0, <1>1, <1>2, <1>3, <1>4, ProjMoves

LEMMA FinStep ==
  ASSUME TypeOK, [Next]_vars
  PROVE  fin' \in FinRecords
<1>0. /\ fin \in FinRecords /\ FinIdle \in FinRecords
      /\ Summary.open \in 0..Cardinality(Fingerprints) /\ Summary.stall \in 0..StallThreshold
  BY TypeParts, FinIdleType, SummaryType DEF Shape
<1> DEFINE idle == FinIdle
<1> HIDE DEF idle
<1>1. \A p \in {"idle", "gate", "resolve", "read", "write"}, b \in BOOLEAN :
        \A r \in Nat, F \in SUBSET Fingerprints :
          /\ [idle EXCEPT !.pc = p, !.f = F, !.r = r] \in FinRecords
          /\ [idle EXCEPT !.pc = p, !.again = b] \in FinRecords
          /\ [idle EXCEPT !.pc = p] \in FinRecords
  <2>1. idle \in FinRecords
    BY <1>0, Zenon DEF idle
  <2> QED BY <2>1 DEF FinRecords
<1>2. ASSUME NEW f \in Fingerprints, NEW r \in DOMAIN tasks[f], RepairDone(f, r)
      PROVE  fin' \in FinRecords
  <2>1. r \in Nat /\ {f} \in SUBSET Fingerprints
    BY Lengths, TypeParts
  <2> QED BY <1>1, <1>2, <2>1, Zenon DEF RepairDone, idle
<1>3. CASE FeatureDone
  BY <1>1, <1>3, Zenon DEF FeatureDone, idle
<1>4. CASE FinGate
  <2>1. \A p \in {"read", "resolve"} : [fin EXCEPT !.pc = p] \in FinRecords
    BY <1>0 DEF FinRecords
  <2> QED BY <1>0, <1>4, <2>1 DEF FinGate
<1>5. ASSUME NEW f \in Fingerprints, FinResolve(f)
      PROVE  fin' \in FinRecords
  <2>1. (reg[f].st = "open" /\ reg[f].link = fin.r) \in BOOLEAN
    OBVIOUS
  <2> QED BY <1>1, <1>5, <2>1, Zenon DEF FinResolve, idle
<1>6. CASE FinRead
  BY <1>0, <1>6 DEF FinRead, FinRecords
<1>7. CASE FinWrite
  BY <1>0, <1>1, <1>7, Zenon DEF FinWrite, idle
<1>8. CASE Restart
  BY <1>0, <1>8 DEF Restart
<1>9. CASE fin' = fin
  BY <1>0, <1>9
<1>10. CASE \E v \in RunTypes : Start(v) \/ Run(v) \/ RepairRoute(v)
  <2>1. PICK v \in RunTypes : Start(v) \/ Run(v) \/ RepairRoute(v)
    BY <1>10
  <2>2. CASE Start(v) \/ RepairRoute(v)
    BY <1>9, <2>2 DEF Start, RepairRoute
  <2>3. CASE Checks(v) \/ RefreshRead(v) \/ RefreshWrite(v) \/ PlanList(v) \/ Derive(v)
    BY <1>9, <2>3 DEF Checks, RefreshRead, RefreshWrite, PlanList, Derive
  <2>4. CASE \E f \in Fingerprints :
               \/ Upsert(v, f) \/ Resolve(v, f) \/ Cancel(v, f)
               \/ PlanOne(v, f) \/ PlanTask(v, f) \/ PlanLink(v, f)
    BY <1>9, <2>4 DEF Upsert, Resolve, Cancel, PlanOne, PlanTask, PlanLink
  <2> QED BY <2>1, <2>2, <2>3, <2>4 DEF Run
<1>11. CASE \E f \in Fingerprints : Break(f) \/ Agent(f)
  <2>1. PICK f \in Fingerprints : Break(f) \/ Agent(f)
    BY <1>11
  <2>2. CASE Break(f)
    BY <1>9, <2>2 DEF Break
  <2>3. CASE Agent(f)
    BY <1>2, <1>9, <2>3 DEF Agent, RepairStart, RepairFails
  <2> QED BY <2>1, <2>2, <2>3
<1>12. CASE FeatureComes \/ FeatureStart
  BY <1>9, <1>12 DEF FeatureComes, FeatureStart
<1> QED BY <1>3, <1>4, <1>5, <1>6, <1>7, <1>8, <1>9, <1>10, <1>11, <1>12
        DEF Next, FinishThread, vars

-------------------------------------------------------------------------------
(* The verification threads.                                               *)

LEMMA LeadsOn ==
  ASSUME TypeOK, [Next]_vars, NEW t \in VerRecords, ThreadLeads(t, tasks)
  PROVE  ThreadLeads(t, tasks')
<1>1. \A f \in Fingerprints : /\ Len(tasks[f]) \in Nat /\ Len(tasks'[f]) \in Nat
                              /\ Len(tasks'[f]) >= Len(tasks[f])
  BY TypeParts, TasksStep, Lengths, LenProperties DEF Kept
<1>2. t.links \in [Fingerprints -> Nat] /\ t.round \in Nat /\ t.f \subseteq Fingerprints
  BY DEF VerRecords
<1> QED BY <1>1, <1>2, SMTT(30) DEF ThreadLeads

(* A thread that has no task in hand needs no more than its links.         *)
LEMMA EmptyHanded ==
  ASSUME NEW t \in VerRecords, t.pc \notin {"cancel", "task", "link"},
         \A f \in Fingerprints : t.links[f] <= Len(tasks[f])
  PROVE  ThreadLeads(t, tasks)
BY DEF ThreadLeads

LEMMA Idle ==
  ASSUME Shape
  PROVE  ThreadLeads(VerIdle, tasks) /\ VerIdle.links = [f \in Fingerprints |-> Unlinked]
BY Lengths DEF VerIdle, ThreadLeads, Unlinked

LEMMA PlannedLeads ==
  ASSUME Shape, NEW t \in VerRecords, \A f \in Fingerprints : t.links[f] <= Len(tasks[f])
  PROVE  ThreadLeads(Planned(t), tasks)
<1>1. CASE t.todo # {}
  <2>1. Planned(t).pc = "plan" /\ Planned(t).links = t.links
    BY <1>1 DEF Planned, VerRecords
  <2> QED BY <2>1, PlannedType, EmptyHanded
<1>2. CASE t.todo = {} /\ t.route
  BY <1>2, Idle DEF Planned
<1>3. CASE t.todo = {} /\ ~t.route
  <2>1. Planned(t).pc = "derive" /\ Planned(t).links = VerIdle.links
    BY <1>3, VerIdleType DEF Planned, VerIdle
  <2> QED BY <2>1, PlannedType, EmptyHanded, Idle DEF ThreadLeads
<1> QED BY <1>1, <1>2, <1>3

(* Where each step of a thread leaves it.                                  *)
LEMMA ThreadMoves ==
  ASSUME TypeOK, NEW v \in RunTypes, Start(v) \/ Run(v) \/ RepairRoute(v)
  PROVE  \/ \E w \in RunTypes, t \in VerRecords :
              ThreadLeads(t, tasks) /\ ver' = [ver EXCEPT ![w] = t]
         \/ \E f \in Fingerprints : PlanTask(v, f)
<1>0. /\ ver[v] \in VerRecords /\ ThreadLeads(ver[v], tasks) /\ Shape
      /\ \A f \in Fingerprints : ver[v].links[f] <= Len(tasks[f])
      /\ broken \in SUBSET Fingerprints /\ Open \in SUBSET Fingerprints
      /\ ver \in [RunTypes -> VerRecords]
  BY TypeParts DEF Shape, LinksLead, ThreadLeads, Open
<1> DEFINE Result == \E w \in RunTypes, t \in VerRecords :
                       ThreadLeads(t, tasks) /\ ver' = [ver EXCEPT ![w] = t]
           idle == VerIdle
<1> HIDE DEF idle
<1>i. /\ idle \in VerRecords /\ ThreadLeads(idle, tasks)
      /\ \A f \in Fingerprints : idle.links[f] <= Len(tasks[f])
  BY <1>0, Idle, VerIdleType DEF idle, ThreadLeads
<1>1. ASSUME NEW w \in RunTypes, NEW t \in VerRecords, t.pc \notin {"cancel", "task", "link"},
             \A f \in Fingerprints : t.links[f] <= Len(tasks[f]),
             ver' = [ver EXCEPT ![w] = t]
      PROVE  Result
  BY <1>1, EmptyHanded, Zenon
<1>2. CASE Start(v)
  <2>1. ver' = [ver EXCEPT ![v] = [idle EXCEPT !.pc = "checks"]]
    BY <1>2 DEF Start, idle
  <2> DEFINE t == [idle EXCEPT !.pc = "checks"]
  <2>2. t \in VerRecords /\ t.pc = "checks" /\ t.links = idle.links
    BY <1>i DEF VerRecords, VerPcs
  <2> HIDE DEF t
  <2> QED BY <1>1, <1>i, <2>1, <2>2 DEF t
<1>3. CASE Checks(v)
  <2>1. CASE broken # {}
    <3> DEFINE t == [idle EXCEPT !.pc = "upsert", !.failing = broken, !.todo = broken]
    <3>1. ver' = [ver EXCEPT ![v] = t]
      BY <1>3, <2>1 DEF Checks, idle
    <3>2. t \in VerRecords /\ t.pc = "upsert" /\ t.links = idle.links
      BY <1>0, <1>i DEF VerRecords, VerPcs
    <3> HIDE DEF t
    <3> QED BY <1>1, <1>i, <3>1, <3>2
  <2>2. CASE broken = {} /\ Open = {}
    <3> DEFINE t == [idle EXCEPT !.pc = "derive"]
    <3>1. ver' = [ver EXCEPT ![v] = t]
      BY <1>3, <2>2 DEF Checks, idle
    <3>2. t \in VerRecords /\ t.pc = "derive" /\ t.links = idle.links
      BY <1>i DEF VerRecords, VerPcs
    <3> HIDE DEF t
    <3> QED BY <1>1, <1>i, <3>1, <3>2
  <2>3. CASE broken = {} /\ Open # {}
    <3> DEFINE ls == [f \in Fingerprints |-> reg[f].link]
               t == [idle EXCEPT !.pc = "resolve", !.todo = Open, !.links = ls]
    <3>1. ver' = [ver EXCEPT ![v] = t]
      BY <1>3, <2>3 DEF Checks, idle
    <3>2. ls \in [Fingerprints -> Nat] /\ \A f \in Fingerprints : ls[f] <= Len(tasks[f])
      BY TypeParts DEF Shape, RegRecords, LinksLead
    <3> HIDE DEF ls
    <3>3. t \in VerRecords /\ t.pc = "resolve" /\ t.links = ls
      BY <1>0, <1>i, <3>2 DEF VerRecords, VerPcs
    <3> HIDE DEF t
    <3> QED BY <1>1, <3>1, <3>2, <3>3
  <2> QED BY <2>1, <2>2, <2>3
<1>4. ASSUME NEW f \in Fingerprints, Upsert(v, f)
      PROVE  Result
  <2> DEFINE p == IF ver[v].todo = {f} THEN "read" ELSE ver[v].pc
             t == [ver[v] EXCEPT !.todo = @ \ {f}, !.pc = p]
  <2>1. ver' = [ver EXCEPT ![v] = t] /\ p \in {"read", "upsert"}
    BY <1>0, <1>4 DEF Upsert
  <2> HIDE DEF p
  <2>2. t \in VerRecords /\ t.pc = p /\ t.links = ver[v].links
    BY <1>0, <2>1 DEF VerRecords, VerPcs
  <2> HIDE DEF t
  <2> QED BY <1>0, <1>1, <2>1, <2>2
<1>5. ASSUME NEW f \in Fingerprints, Resolve(v, f)
      PROVE  Result
  <2> DEFINE t == [ver[v] EXCEPT !.todo = @ \ {f}, !.f = {f}, !.pc = "cancel"]
  <2>1. ver' = [ver EXCEPT ![v] = t]
    BY <1>0, <1>5 DEF Resolve
  <2>2. t \in VerRecords /\ t.pc = "cancel" /\ t.links = ver[v].links /\ t.f = {f}
    BY <1>0 DEF VerRecords, VerPcs
  <2> HIDE DEF t
  <2>3. ThreadLeads(t, tasks)
    BY <1>0, <2>2 DEF ThreadLeads
  <2> QED BY <2>1, <2>2, <2>3
<1>6. ASSUME NEW f \in Fingerprints, Cancel(v, f)
      PROVE  Result
  <2> DEFINE p == IF ver[v].todo = {} THEN "read" ELSE "resolve"
             t == [ver[v] EXCEPT !.f = {}, !.pc = p]
  <2>1. ver' = [ver EXCEPT ![v] = t] /\ p \in {"read", "resolve"}
    BY <1>0, <1>6 DEF Cancel
  <2> HIDE DEF p
  <2>2. t \in VerRecords /\ t.pc = p /\ t.links = ver[v].links
    BY <1>0, <2>1 DEF VerRecords, VerPcs
  <2> HIDE DEF t
  <2> QED BY <1>0, <1>1, <2>1, <2>2
<1>7. CASE RefreshRead(v)
  <2> DEFINE n == Summary.open
             s == Summary.stall
             t == [ver[v] EXCEPT !.pc = "write", !.open = n, !.stall = s]
  <2>1. ver' = [ver EXCEPT ![v] = t]
    BY <1>0, <1>7 DEF RefreshRead
  <2>2. n \in 0..Cardinality(Fingerprints) /\ s \in 0..StallThreshold
    BY <1>0, SummaryType DEF Shape
  <2> HIDE DEF n, s
  <2>3. t \in VerRecords /\ t.pc = "write" /\ t.links = ver[v].links
    BY <1>0, <2>2 DEF VerRecords, VerPcs
  <2> HIDE DEF t
  <2> QED BY <1>0, <1>1, <2>1, <2>3
<1>8. CASE RefreshWrite(v)
  <2> DEFINE p == IF ver[v].failing = {} THEN "derive" ELSE "list"
             t == [ver[v] EXCEPT !.open = 0, !.stall = 0, !.pc = p]
  <2>1. ver' = [ver EXCEPT ![v] = t] /\ p \in {"derive", "list"}
    BY <1>0, <1>8 DEF RefreshWrite
  <2> HIDE DEF p
  <2>2. 0 \in 0..Cardinality(Fingerprints) /\ 0 \in 0..StallThreshold /\ p \in VerPcs
    BY <2>1, Limits DEF VerPcs
  <2>3. t \in VerRecords
    BY <1>0, <2>2 DEF VerRecords
  <2>4. t.pc = p /\ t.links = ver[v].links
    BY <1>0 DEF VerRecords
  <2> HIDE DEF t
  <2> QED BY <1>0, <1>1, <2>1, <2>3, <2>4
<1>9. CASE PlanList(v)
  <2> DEFINE todo == {f \in Open : reg[f].src = v}
             t == [ver[v] EXCEPT !.todo = todo]
  <2>1. ver' = [ver EXCEPT ![v] = Planned(t)] /\ todo \in SUBSET Fingerprints
    BY <1>0, <1>9 DEF PlanList
  <2> HIDE DEF todo
  <2>2. t \in VerRecords /\ t.links = ver[v].links
    BY <1>0, <2>1 DEF VerRecords
  <2> HIDE DEF t
  <2> QED BY <1>0, <2>1, <2>2, PlannedType, PlannedLeads
<1>10. CASE RepairRoute(v)
  <2> DEFINE todo == {f \in Open : reg[f].src = v}
             t == [idle EXCEPT !.pc = "plan", !.todo = todo, !.route = TRUE]
  <2>1. ver' = [ver EXCEPT !["manual"] = t] /\ todo \in SUBSET Fingerprints /\ "manual" \in RunTypes
    BY <1>0, <1>10 DEF RepairRoute, idle
  <2> HIDE DEF todo
  <2>2. t \in VerRecords /\ t.pc = "plan" /\ t.links = idle.links
    <3>1. \A b \in BOOLEAN : LET u == [idle EXCEPT !.pc = "plan", !.todo = todo, !.route = b]
                             IN  u \in VerRecords /\ u.pc = "plan" /\ u.links = idle.links
      BY <1>i, <2>1 DEF VerRecords, VerPcs
    <3> QED BY <3>1, Zenon
  <2> HIDE DEF t
  <2> QED BY <1>1, <1>i, <2>1, <2>2
<1>11. ASSUME NEW f \in Fingerprints, PlanOne(v, f)
      PROVE  Result
  <2> DEFINE t == [ver[v] EXCEPT !.todo = @ \ {f}]
             n == Len(tasks[f]) + 1
             u == [t EXCEPT !.pc = "task", !.f = {f}, !.round = n]
  <2>1. t \in VerRecords /\ t.links = ver[v].links
    BY <1>0 DEF VerRecords
  <2>2. n \in Nat /\ n > 0 /\ n <= Len(tasks[f]) + 1
    BY <1>0, Lengths
  <2>3. ver' = [ver EXCEPT ![v] = IF NeedsRepair(f) THEN u ELSE Planned(t)]
    BY <1>11 DEF PlanOne
  <2> HIDE DEF t, n
  <2>4. u \in VerRecords /\ u.pc = "task" /\ u.links = ver[v].links /\ u.round = n /\ u.f = {f}
    BY <1>0, <2>1, <2>2 DEF VerRecords, VerPcs
  <2> HIDE DEF u
  <2>5. ThreadLeads(u, tasks)
    BY <1>0, <2>2, <2>4 DEF ThreadLeads
  <2>6. Planned(t) \in VerRecords /\ ThreadLeads(Planned(t), tasks)
    BY <1>0, <2>1, PlannedType, PlannedLeads
  <2> QED BY <2>3, <2>4, <2>5, <2>6
<1>12. ASSUME NEW f \in Fingerprints, PlanLink(v, f)
      PROVE  Result
  BY <1>0, <1>12, PlannedType, PlannedLeads DEF PlanLink
<1>13. CASE Derive(v)
  BY <1>13, <1>i DEF Derive, idle
<1> QED BY <1>2, <1>3, <1>4, <1>5, <1>6, <1>7, <1>8, <1>9, <1>10, <1>11, <1>12, <1>13 DEF Run

LEMMA VerStep ==
  ASSUME TypeOK, [Next]_vars
  PROVE  /\ ver' \in [RunTypes -> VerRecords]
         /\ \A v \in RunTypes : ThreadLeads(ver'[v], tasks')
<1>0. /\ ver \in [RunTypes -> VerRecords] /\ Shape
      /\ \A v \in RunTypes : ThreadLeads(ver[v], tasks) /\ ThreadLeads(ver[v], tasks')
  BY TypeParts, LeadsOn DEF Shape, LinksLead
<1>1. CASE ver' = ver
  BY <1>0, <1>1
<1>2. ASSUME NEW v \in RunTypes, NEW f \in Fingerprints, PlanTask(v, f)
      PROVE  /\ ver' \in [RunTypes -> VerRecords]
             /\ \A w \in RunTypes : ThreadLeads(ver'[w], tasks')
  <2> DEFINE t == [ver[v] EXCEPT !.pc = "link"]
  <2>1. ver' = [ver EXCEPT ![v] = t]
    BY <1>0, <1>2 DEF PlanTask
  <2>2. t \in VerRecords
    BY <1>0 DEF VerRecords, VerPcs
  <2>3. /\ t.pc = "link" /\ t.links = ver[v].links /\ t.f = ver[v].f /\ t.round = ver[v].round
        /\ ver[v].pc = "task" /\ ver[v].f = {f}
    BY <1>0, <1>2 DEF VerRecords, PlanTask, ThreadLeads
  <2> HIDE DEF t
  <2>4. ver[v].round <= Len(tasks'[f])
    BY <1>2, PlanTaskTasks
  <2>5. ThreadLeads(t, tasks')
    BY <1>0, <2>3, <2>4 DEF ThreadLeads
  <2> QED BY <1>0, <2>1, <2>2, <2>5
<1>3. CASE Restart
  BY <1>0, <1>3, VerIdleType, Idle, LeadsOn DEF Restart
<1>4. ASSUME NEW w \in RunTypes, NEW t \in VerRecords, ThreadLeads(t, tasks),
             ver' = [ver EXCEPT ![w] = t]
      PROVE  /\ ver' \in [RunTypes -> VerRecords]
             /\ \A v \in RunTypes : ThreadLeads(ver'[v], tasks')
  BY <1>0, <1>4, LeadsOn
<1> QED BY <1>1, <1>2, <1>3, <1>4, VerMoves, ThreadMoves

-------------------------------------------------------------------------------
LEMMA ShapeStep ==
  ASSUME TypeOK, [Next]_vars
  PROVE  Shape'
<1>0. Shape
  BY TypeParts
<1>1. /\ tasks' \in [Fingerprints -> Seq(TaskRecords)] /\ reg' \in [Fingerprints -> RegRecords]
      /\ proj' \in ProjRecords /\ fin' \in FinRecords /\ ver' \in [RunTypes -> VerRecords]
  BY TasksStep, RegStep, ProjStep, FinStep, VerStep
<1> DEFINE Rest == /\ broken \subseteq Fingerprints
                   /\ feature \in {"none", "pending", "running"} /\ active \subseteq RunTypes
                   /\ breaks \in 0..MaxBreaks /\ fails \in 0..MaxFails
                   /\ requests \in 0..MaxRequests /\ restarts \in 0..MaxRestarts
<1>2. Rest'
  <2>0. Rest
    BY <1>0 DEF Shape
  <2>1. CASE \E v \in RunTypes : Start(v) \/ Run(v) \/ RepairRoute(v)
    <3>1. PICK v \in RunTypes : Start(v) \/ Run(v) \/ RepairRoute(v)
      BY <2>1
    <3>2. CASE Start(v) \/ RepairRoute(v)
      BY <2>0, <3>2, Limits DEF Start, RepairRoute, NewRequest
    <3>3. CASE Checks(v) \/ RefreshRead(v) \/ RefreshWrite(v) \/ PlanList(v) \/ Derive(v)
      BY <2>0, <3>3 DEF Checks, RefreshRead, RefreshWrite, PlanList, Derive, bounds
    <3>4. CASE \E f \in Fingerprints :
                 \/ Upsert(v, f) \/ Resolve(v, f) \/ Cancel(v, f)
                 \/ PlanOne(v, f) \/ PlanTask(v, f) \/ PlanLink(v, f)
      BY <2>0, <3>4 DEF Upsert, Resolve, Cancel, PlanOne, PlanTask, PlanLink, bounds
    <3> QED BY <3>1, <3>2, <3>3, <3>4 DEF Run
  <2>2. CASE \E f \in Fingerprints : Break(f) \/ Agent(f)
    <3>1. PICK f \in Fingerprints : Break(f) \/ Agent(f)
      BY <2>2
    <3>2. CASE Break(f)
      BY <2>0, <3>2, Limits DEF Break
    <3>3. ASSUME NEW r \in DOMAIN tasks[f], RepairStart(f, r)
          PROVE  Rest'
      BY <2>0, <3>3 DEF RepairStart, bounds
    <3>4. ASSUME NEW r \in DOMAIN tasks[f], RepairDone(f, r)
          PROVE  Rest'
      BY <2>0, <3>4, Limits DEF RepairDone
    <3>5. ASSUME NEW r \in DOMAIN tasks[f], RepairFails(f, r)
          PROVE  Rest'
      BY <2>0, <3>5, Limits DEF RepairFails
    <3> QED BY <3>1, <3>2, <3>3, <3>4, <3>5 DEF Agent
  <2>3. CASE FeatureComes \/ FeatureStart \/ FeatureDone
    BY <2>0, <2>3 DEF FeatureComes, FeatureStart, FeatureDone, bounds
  <2>4. CASE FinishThread
    BY <2>0, <2>4 DEF FinishThread, FinGate, FinRead, FinWrite, FinResolve, bounds
  <2>5. CASE Restart
    <3>1. feature' \in {"none", "pending", "running"}
      BY <2>0, <2>5, Zenon DEF Restart
    <3>2. restarts' \in 0..MaxRestarts
      <4>1. restarts < MaxRestarts /\ restarts' = restarts + 1
        BY <2>5, Zenon DEF Restart
      <4> QED BY <2>0, <4>1, Limits
    <3>3. /\ broken' = broken /\ active' = active /\ breaks' = breaks /\ fails' = fails
          /\ requests' = requests
      BY <2>5, Zenon DEF Restart
    <3> QED BY <2>0, <3>1, <3>2, <3>3
  <2>6. CASE UNCHANGED vars
    BY <2>0, <2>6 DEF vars
  <2> QED BY <2>1, <2>2, <2>3, <2>4, <2>5, <2>6 DEF Next
<1> QED BY <1>1, <1>2 DEF Shape

LEMMA InitType == Init => TypeOK
<1>1. ASSUME Init
      PROVE  Shape
  <2>1. NoReg \in RegRecords
    BY Limits DEF NoReg, RegRecords, Unlinked
  <2>2. \A b \in BOOLEAN : [open |-> 0, stall |-> 0, status |-> "yellow", seen |-> b] \in ProjRecords
    BY Limits DEF ProjRecords
  <2>3. proj \in ProjRecords
    BY <1>1, <2>2, Zenon DEF Init
  <2>4. tasks \in [Fingerprints -> Seq(TaskRecords)]
    <3>1. <<>> \in Seq(TaskRecords)
      BY EmptySeq
    <3> QED BY <1>1, <3>1 DEF Init
  <2> HIDE DEF NoReg, VerIdle, FinIdle
  <2> QED BY <1>1, <2>1, <2>3, <2>4, VerIdleType, FinIdleType, Limits DEF Init, Shape
<1>2. ASSUME Init
      PROVE  LinksLead
  <2>1. Shape
    BY <1>1, <1>2
  <2>2. \A f \in Fingerprints : reg[f].link = 0 /\ Len(tasks[f]) \in Nat
    BY <1>2, <2>1, Lengths DEF Init, NoReg, Unlinked
  <2> QED BY <1>2, <2>1, <2>2, Idle DEF Init, LinksLead
<1> QED BY <1>1, <1>2, TypeParts

LEMMA TypeStep ==
  ASSUME TypeOK, [Next]_vars
  PROVE  TypeOK'
<1>1. Shape'
  BY ShapeStep
<1>2. LinksLead'
  BY RegStep, VerStep DEF LinksLead
<1> QED BY <1>1, <1>2 DEF TypeOK, Shape

(* Every reachable state has its types; a link, and the round a planner    *)
(* has in hand, lead to a task there is: a planner or a canceller that     *)
(* comes late finds the row it looked up.                                  *)
THEOREM TypeCorrect == Spec => []TypeOK
BY InitType, TypeStep, PTL DEF Spec

-------------------------------------------------------------------------------
(* Every open regression that no task is linked to is some thread's to     *)
(* plan: of the run that saw it last, until its list is made, then of the  *)
(* thread that has it on its list or in hand.                              *)
Owes(v, f) ==
  \/ ver[v].pc \in {"upsert", "read", "write", "list"} /\ ver[v].failing # {} /\ reg[f].src = v
  \/ ver[v].pc \in {"plan", "task", "link"} /\ f \in ver[v].todo
  \/ ver[v].pc \in {"task", "link"} /\ f \in ver[v].f

Failing == \A v \in RunTypes : ver[v].pc \in {"upsert", "list"} => ver[v].failing # {}

Owed == restarts = 0 => \A f \in Open : reg[f].link = Unlinked => \E v \in RunTypes : Owes(v, f)

PlanInv == TypeOK /\ Failing /\ Owed

LEMMA PlannedGoesOn ==
  ASSUME NEW t \in VerRecords
  PROVE  /\ Planned(t).pc \in {"plan", "idle", "derive"}
         /\ t.todo # {} => Planned(t).pc = "plan" /\ Planned(t).todo = t.todo
<1>1. CASE t.todo # {}
  BY <1>1 DEF Planned, VerRecords
<1>2. CASE t.todo = {} /\ t.route
  BY <1>2 DEF Planned, VerIdle
<1>3. CASE t.todo = {} /\ ~t.route
  BY <1>3 DEF Planned, VerIdle
<1> QED BY <1>1, <1>2, <1>3

(* A step of a thread: what it owed before it, it owes after it, unless it *)
(* has just linked it; no other thread's record changes.                   *)
LEMMA ThreadStep ==
  ASSUME PlanInv, NEW v \in RunTypes, Start(v) \/ Run(v) \/ RepairRoute(v)
  PROVE  /\ Failing'
         /\ \A w \in RunTypes, f \in Fingerprints :
              \/ ~Owes(w, f)
              \/ Owes(w, f)'
              \/ f \notin Open \/ reg[f].link # Unlinked
              \/ reg'[f].link # Unlinked
              \/ \E u \in RunTypes : Owes(u, f)'
<1>0. /\ ver \in [RunTypes -> VerRecords] /\ reg \in [Fingerprints -> RegRecords] /\ Shape
      /\ ver[v] \in VerRecords /\ ThreadLeads(ver[v], tasks) /\ Failing
  BY TypeParts DEF PlanInv, Shape, LinksLead
<1> DEFINE Kept1 == \A w \in RunTypes, f \in Fingerprints :
                      \/ ~Owes(w, f)
                      \/ Owes(w, f)'
                      \/ f \notin Open \/ reg[f].link # Unlinked
                      \/ reg'[f].link # Unlinked
                      \/ \E u \in RunTypes : Owes(u, f)'
<1>1. CASE Start(v)
  <2>1. reg' = reg /\ ver[v].pc = "idle" /\ ver' = [ver EXCEPT ![v] = [VerIdle EXCEPT !.pc = "checks"]]
    BY <1>1 DEF Start
  <2>2. ver'[v].pc = "checks" /\ \A w \in RunTypes : w # v => ver'[w] = ver[w]
    BY <1>0, <2>1 DEF VerIdle
  <2> QED BY <1>0, <2>1, <2>2 DEF Owes, Failing
<1>2. CASE Checks(v)
  <2>1. reg' = reg /\ ver[v].pc = "checks"
    BY <1>2 DEF Checks
  <2>2. /\ \A w \in RunTypes : w # v => ver'[w] = ver[w]
        /\ ver'[v].pc \in {"upsert", "list"} => ver'[v].failing # {}
    BY <1>0, <1>2 DEF Checks, VerIdle
  <2> QED BY <1>0, <2>1, <2>2 DEF Owes, Failing
<1>3. ASSUME NEW g \in Fingerprints, Upsert(v, g)
      PROVE  Failing' /\ Kept1
  <2>1. /\ ver[v].pc = "upsert" /\ ver'[v].pc \in {"upsert", "read"}
        /\ ver'[v].failing = ver[v].failing /\ ver[v].failing # {}
        /\ \A w \in RunTypes : w # v => ver'[w] = ver[w]
    BY <1>0, <1>3 DEF Upsert, VerRecords, Failing
  <2>2. reg'[g].src = v /\ \A f \in Fingerprints : f # g => reg'[f] = reg[f]
    BY <1>0, <1>3 DEF Upsert, RegRecords
  <2>3. Owes(v, g)'
    BY <2>1, <2>2 DEF Owes
  <2> QED BY <1>0, <2>1, <2>2, <2>3 DEF Owes, Failing
<1>4. ASSUME NEW g \in Fingerprints, Resolve(v, g)
      PROVE  Failing' /\ Kept1
  <2>1. /\ ver[v].pc = "resolve" /\ ver'[v].pc = "cancel"
        /\ \A w \in RunTypes : w # v => ver'[w] = ver[w]
    BY <1>0, <1>4 DEF Resolve, VerRecords
  <2>2. \A f \in Fingerprints : reg'[f].src = reg[f].src
    BY <1>0, <1>4 DEF Resolve, RegRecords
  <2> QED BY <1>0, <2>1, <2>2 DEF Owes, Failing
<1>5. ASSUME NEW g \in Fingerprints, Cancel(v, g)
      PROVE  Failing' /\ Kept1
  <2>1. /\ ver[v].pc = "cancel" /\ ver'[v].pc \in {"read", "resolve"} /\ reg' = reg
        /\ \A w \in RunTypes : w # v => ver'[w] = ver[w]
    BY <1>0, <1>5 DEF Cancel, VerRecords
  <2> QED BY <1>0, <2>1 DEF Owes, Failing
<1>6. CASE RefreshRead(v)
  <2>1. /\ ver[v].pc = "read" /\ ver'[v].pc = "write" /\ ver'[v].failing = ver[v].failing /\ reg' = reg
        /\ \A w \in RunTypes : w # v => ver'[w] = ver[w]
    BY <1>0, <1>6 DEF RefreshRead, VerRecords
  <2> QED BY <1>0, <2>1 DEF Owes, Failing
<1>7. CASE RefreshWrite(v)
  <2>1. /\ ver[v].pc = "write" /\ ver'[v].failing = ver[v].failing /\ reg' = reg
        /\ ver'[v].pc = IF ver[v].failing = {} THEN "derive" ELSE "list"
        /\ \A w \in RunTypes : w # v => ver'[w] = ver[w]
    BY <1>0, <1>7 DEF RefreshWrite, VerRecords
  <2> QED BY <1>0, <2>1 DEF Owes, Failing
<1>8. CASE PlanList(v)
  <2> DEFINE todo == {f \in Open : reg[f].src = v}
             t == [ver[v] EXCEPT !.todo = todo]
  <2>1. ver' = [ver EXCEPT ![v] = Planned(t)] /\ todo \in SUBSET Fingerprints
        /\ reg' = reg /\ ver[v].pc = "list"
    BY <1>0, <1>8 DEF PlanList, Open
  <2>2. \A f \in Open : reg[f].src = v => f \in todo
    OBVIOUS
  <2> HIDE DEF todo
  <2>3. t \in VerRecords /\ t.todo = todo
    BY <1>0, <2>1 DEF VerRecords
  <2> HIDE DEF t
  <2>4. /\ Planned(t).pc \in {"plan", "idle", "derive"}
        /\ todo # {} => Planned(t).pc = "plan" /\ Planned(t).todo = todo
    BY <2>3, PlannedGoesOn
  <2>5. ver'[v] = Planned(t) /\ \A w \in RunTypes : w # v => ver'[w] = ver[w]
    BY <1>0, <2>1
  <2> QED BY <1>0, <2>1, <2>2, <2>4, <2>5 DEF Owes, Failing
<1>9. CASE RepairRoute(v)
  <2>1. "manual" \in RunTypes /\ ver["manual"].pc = "idle" /\ reg' = reg
    BY <1>9 DEF RepairRoute
  <2>2. ver'["manual"].pc = "plan" /\ \A w \in RunTypes : w # "manual" => ver'[w] = ver[w]
    BY <1>0, <1>9 DEF RepairRoute, VerIdle
  <2> QED BY <1>0, <2>1, <2>2 DEF Owes, Failing
<1>10. ASSUME NEW g \in Fingerprints, PlanOne(v, g)
       PROVE  Failing' /\ Kept1
  <2> DEFINE t == [ver[v] EXCEPT !.todo = @ \ {g}]
             u == [t EXCEPT !.pc = "task", !.f = {g}, !.round = Len(tasks[g]) + 1]
  <2>1. /\ ver' = [ver EXCEPT ![v] = IF NeedsRepair(g) THEN u ELSE Planned(t)]
        /\ reg' = reg /\ ver[v].pc = "plan"
    BY <1>10 DEF PlanOne
  <2>2. t \in VerRecords /\ t.todo = ver[v].todo \ {g}
    BY <1>0 DEF VerRecords
  <2> HIDE DEF t
  <2>3. u.pc = "task" /\ u.f = {g} /\ u.todo = t.todo
    BY <2>2 DEF VerRecords
  <2> HIDE DEF u
  <2>4. /\ Planned(t).pc \in {"plan", "idle", "derive"}
        /\ t.todo # {} => Planned(t).pc = "plan" /\ Planned(t).todo = t.todo
    BY <2>2, PlannedGoesOn
  <2>5. /\ ver'[v] = IF NeedsRepair(g) THEN u ELSE Planned(t)
        /\ \A w \in RunTypes : w # v => ver'[w] = ver[w]
    BY <1>0, <2>1
  <2>6. g \in Open /\ reg[g].link = Unlinked => NeedsRepair(g)
    BY DEF NeedsRepair, Open
  <2> HIDE DEF t, u
  <2> QED BY <1>0, <2>1, <2>2, <2>3, <2>4, <2>5, <2>6 DEF Owes, Failing
<1>11. ASSUME NEW g \in Fingerprints, PlanTask(v, g)
       PROVE  Failing' /\ Kept1
  <2>1. /\ ver[v].pc = "task" /\ ver'[v].pc = "link" /\ reg' = reg
        /\ ver'[v].todo = ver[v].todo /\ ver'[v].f = ver[v].f
        /\ \A w \in RunTypes : w # v => ver'[w] = ver[w]
    BY <1>0, <1>11 DEF PlanTask, VerRecords
  <2> QED BY <1>0, <2>1 DEF Owes, Failing
<1>12. ASSUME NEW g \in Fingerprints, PlanLink(v, g)
       PROVE  Failing' /\ Kept1
  <2>1. /\ ver[v].pc = "link" /\ ver[v].f = {g} /\ ver[v].round > 0 /\ ver[v].round \in Nat
        /\ \A w \in RunTypes : w # v => ver'[w] = ver[w]
        /\ ver'[v] = Planned(ver[v])
    BY <1>0, <1>12 DEF PlanLink, ThreadLeads, VerRecords
  <2>2. reg'[g].link = ver[v].round /\ \A f \in Fingerprints : reg'[f].src = reg[f].src
    BY <1>0, <1>12 DEF PlanLink, RegRecords
  <2>3. reg'[g].link # Unlinked
    BY <2>1, <2>2 DEF Unlinked
  <2>4. /\ ver'[v].pc \in {"plan", "idle", "derive"}
        /\ ver[v].todo # {} => ver'[v].pc = "plan" /\ ver'[v].todo = ver[v].todo
    BY <1>0, <2>1, PlannedGoesOn
  <2> QED BY <1>0, <2>1, <2>2, <2>3, <2>4 DEF Owes, Failing
<1>13. CASE Derive(v)
  <2>1. ver[v].pc = "derive" /\ reg' = reg
        /\ ver'[v].pc = "idle" /\ \A w \in RunTypes : w # v => ver'[w] = ver[w]
    BY <1>0, <1>13 DEF Derive, VerIdle
  <2> QED BY <1>0, <2>1 DEF Owes, Failing
<1> QED BY <1>1, <1>2, <1>3, <1>4, <1>5, <1>6, <1>7, <1>8, <1>9, <1>10, <1>11, <1>12, <1>13
        DEF Run

(* A regression that is open without a link was so before, or an upsert    *)
(* has just made it so.                                                    *)
LEMMA NewlyOwed ==
  ASSUME PlanInv, [Next]_vars, NEW f \in Fingerprints, f \in Open', reg'[f].link = Unlinked
  PROVE  \/ f \in Open /\ reg[f].link = Unlinked
         \/ \E v \in RunTypes : Upsert(v, f)
<1>0. reg \in [Fingerprints -> RegRecords] /\ ver \in [RunTypes -> VerRecords]
      /\ \A v \in RunTypes : ThreadLeads(ver[v], tasks)
  BY TypeParts DEF PlanInv, Shape, LinksLead
<1>1. CASE reg' = reg
  BY <1>1 DEF Open
<1>2. ASSUME NEW v \in RunTypes, NEW g \in Fingerprints, Upsert(v, g) \/ Resolve(v, g) \/ PlanLink(v, g)
      PROVE  \/ f \in Open /\ reg[f].link = Unlinked
             \/ \E u \in RunTypes : Upsert(u, f)
  <2>1. CASE Upsert(v, g)
    BY <1>0, <2>1 DEF Upsert, Open
  <2>2. CASE Resolve(v, g)
    BY <1>0, <2>2 DEF Resolve, Open, RegRecords
  <2>3. CASE PlanLink(v, g)
    <3>1. ver[v].round > 0 /\ ver[v].round \in Nat
      BY <1>0, <2>3 DEF PlanLink, ThreadLeads, VerRecords
    <3>2. reg'[g].link = ver[v].round /\ \A h \in Fingerprints : h # g => reg'[h] = reg[h]
      BY <1>0, <2>3 DEF PlanLink, RegRecords
    <3> QED BY <3>1, <3>2 DEF Open, Unlinked
  <2> QED BY <1>2, <2>1, <2>2, <2>3
<1>3. ASSUME NEW g \in Fingerprints, FinResolve(g)
      PROVE  f \in Open /\ reg[f].link = Unlinked
  BY <1>0, <1>3 DEF FinResolve, Open, RegRecords
<1> QED BY <1>1, <1>2, <1>3, RegMoves

LEMMA UpsertMoves ==
  ASSUME PlanInv, NEW v \in RunTypes, NEW f \in Fingerprints, Upsert(v, f)
  PROVE  ver' # ver
<1>0. ver \in [RunTypes -> VerRecords]
  BY TypeParts DEF PlanInv, Shape
<1>1. ver'[v].todo = ver[v].todo \ {f}
  BY <1>0 DEF Upsert, VerRecords
<1>2. f \in ver[v].todo
  BY DEF Upsert
<1> QED BY <1>1, <1>2

LEMMA SourcesStay ==
  ASSUME PlanInv, [Next]_vars, ver' = ver
  PROVE  \A w \in RunTypes, f \in Fingerprints : Owes(w, f) => Owes(w, f)'
<1>0. reg \in [Fingerprints -> RegRecords] /\ ver \in [RunTypes -> VerRecords]
  BY TypeParts DEF PlanInv, Shape
<1>1. \A f \in Fingerprints : reg'[f].src = reg[f].src
  <2>1. CASE reg' = reg
    BY <2>1
  <2>2. ASSUME NEW v \in RunTypes, NEW g \in Fingerprints, Upsert(v, g)
        PROVE  FALSE
    BY <2>2, UpsertMoves
  <2>3. ASSUME NEW v \in RunTypes, NEW g \in Fingerprints, Resolve(v, g) \/ PlanLink(v, g)
        PROVE  \A f \in Fingerprints : reg'[f].src = reg[f].src
    BY <1>0, <2>3 DEF Resolve, PlanLink, RegRecords
  <2>4. ASSUME NEW g \in Fingerprints, FinResolve(g)
        PROVE  \A f \in Fingerprints : reg'[f].src = reg[f].src
    BY <1>0, <2>4 DEF FinResolve, RegRecords
  <2> QED BY <2>1, <2>2, <2>3, <2>4, RegMoves
<1> QED BY <1>1 DEF Owes

LEMMA RestartsGrow ==
  ASSUME [Next]_vars
  PROVE  restarts' = restarts \/ restarts' = restarts + 1
<1>1. CASE \E v \in RunTypes : Start(v) \/ Run(v) \/ RepairRoute(v)
  <2>1. PICK v \in RunTypes : Start(v) \/ Run(v) \/ RepairRoute(v)
    BY <1>1
  <2>2. CASE Start(v) \/ RepairRoute(v)
    BY <2>2 DEF Start, RepairRoute
  <2>3. CASE Checks(v) \/ RefreshRead(v) \/ RefreshWrite(v) \/ PlanList(v) \/ Derive(v)
    BY <2>3 DEF Checks, RefreshRead, RefreshWrite, PlanList, Derive, bounds
  <2>4. CASE \E f \in Fingerprints :
               \/ Upsert(v, f) \/ Resolve(v, f) \/ Cancel(v, f)
               \/ PlanOne(v, f) \/ PlanTask(v, f) \/ PlanLink(v, f)
    BY <2>4 DEF Upsert, Resolve, Cancel, PlanOne, PlanTask, PlanLink, bounds
  <2> QED BY <2>1, <2>2, <2>3, <2>4 DEF Run
<1>2. CASE \E f \in Fingerprints : Break(f) \/ Agent(f)
  BY <1>2, ZenonT(60) DEF Break, Agent, RepairStart, RepairDone, RepairFails, bounds
<1>3. CASE FeatureComes \/ FeatureStart \/ FeatureDone
  BY <1>3 DEF FeatureComes, FeatureStart, FeatureDone, bounds
<1>4. CASE FinishThread
  BY <1>4 DEF FinishThread, FinGate, FinRead, FinWrite, FinResolve, bounds
<1>5. CASE Restart
  BY <1>5, Zenon DEF Restart
<1> QED BY <1>1, <1>2, <1>3, <1>4, <1>5 DEF Next, vars

(* The run that sees a failure has it to plan.                             *)
LEMMA UpsertOwes ==
  ASSUME PlanInv, NEW v \in RunTypes, NEW f \in Fingerprints, Upsert(v, f)
  PROVE  Owes(v, f)'
<1>0. reg \in [Fingerprints -> RegRecords] /\ ver \in [RunTypes -> VerRecords] /\ Failing
  BY TypeParts DEF PlanInv, Shape
<1>1. ver'[v].pc \in {"upsert", "read"} /\ ver'[v].failing # {}
  BY <1>0 DEF Upsert, VerRecords, Failing
<1>2. reg'[f].src = v
  BY <1>0 DEF Upsert, RegRecords
<1> QED BY <1>1, <1>2 DEF Owes

LEMMA OwedStep ==
  ASSUME PlanInv, [Next]_vars
  PROVE  Failing' /\ Owed'
<1>0. restarts \in Nat /\ ver \in [RunTypes -> VerRecords]
  BY TypeParts, Limits DEF PlanInv, Shape
<1>1. CASE ver' = ver
  <2>1. restarts' = 0 => restarts = 0
    <3>1. restarts' = restarts \/ restarts' = restarts + 1
      BY RestartsGrow
    <3> QED BY <1>0, <3>1
  <2>2. ASSUME NEW v \in RunTypes, NEW f \in Fingerprints, Upsert(v, f)
        PROVE  FALSE
    BY <1>1, <2>2, UpsertMoves
  <2>3. Failing'
    BY <1>1 DEF PlanInv, Failing
  <2> QED BY <1>1, <2>1, <2>2, <2>3, NewlyOwed, SourcesStay DEF PlanInv, Owed, Open
<1>2. ASSUME NEW v \in RunTypes, Start(v) \/ Run(v) \/ RepairRoute(v)
      PROVE  Failing' /\ Owed'
  <2>1. restarts' = 0 => restarts = 0
    <3>1. restarts' = restarts \/ restarts' = restarts + 1
      BY RestartsGrow
    <3> QED BY <1>0, <3>1
  <2>2. ASSUME NEW u \in RunTypes, NEW f \in Fingerprints, Upsert(u, f)
        PROVE  Owes(u, f)'
    BY UpsertOwes, <2>2
  <2>3. Failing'
    BY <1>2, ThreadStep
  <2>4. ASSUME restarts' = 0, NEW f \in Fingerprints, f \in Open', reg'[f].link = Unlinked
        PROVE  \E u \in RunTypes : Owes(u, f)'
    <3>1. CASE f \in Open /\ reg[f].link = Unlinked
      <4>1. PICK w \in RunTypes : Owes(w, f)
        BY <2>1, <2>4, <3>1 DEF PlanInv, Owed
      <4> QED BY <1>2, <2>4, <3>1, <4>1, ThreadStep
    <3> QED BY <2>2, <2>4, <3>1, NewlyOwed
  <2> QED BY <2>3, <2>4 DEF Owed, Open
<1>3. CASE Restart
  <2>1. restarts' = restarts + 1 /\ ver' = [v \in RunTypes |-> VerIdle]
    BY <1>3, Zenon DEF Restart
  <2> QED BY <1>0, <2>1 DEF Failing, Owed, VerIdle
<1> QED BY <1>1, <1>2, <1>3, VerMoves

(* No failure is left that nobody planned for, however runs, requests and  *)
(* finish threads overlap: with all threads done, and no restart, every    *)
(* open regression has its repair task.                                    *)
THEOREM OpenRegressionsAreLinked == Spec => []OpenIsLinked
<1>1. Init => PlanInv
  <2>1. Init => TypeOK
    BY InitType
  <2>2. ASSUME Init
        PROVE  Failing /\ Owed
    BY <2>2 DEF Init, Failing, Owed, Open, NoReg, VerIdle
  <2> QED BY <2>1, <2>2 DEF PlanInv
<1>2. PlanInv /\ [Next]_vars => PlanInv'
  BY TypeStep, OwedStep DEF PlanInv
<1>3. PlanInv => OpenIsLinked
  BY DEF PlanInv, Owed, OpenIsLinked, Quiet, Owes
<1> QED BY <1>1, <1>2, <1>3, PTL DEF Spec
===============================================================================
