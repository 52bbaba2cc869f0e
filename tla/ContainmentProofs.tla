--------------------------- MODULE ContainmentProofs ---------------------------
(***************************************************************************)
(* What holds of the containment breaker for every number of agents and    *)
(* tasks, every threshold, and any number of requests, quota outages and   *)
(* restarts.                                                               *)
(***************************************************************************)
EXTENDS Containment, TLAPS

USE ConstantsAssumption

-------------------------------------------------------------------------------
(* The parts of TypeOK and the variables each of them reads.               *)
LEMMA AgentFrame ==
  AgentTypes /\ UNCHANGED <<procVars, logVars>> => AgentTypes'
BY DEF AgentTypes, procVars, logVars

LEMMA FinFrame == FinTypes /\ UNCHANGED <<taskOf, finVars>> => FinTypes'
BY DEF FinTypes, finVars

LEMMA TaskFrame == TaskTypes /\ UNCHANGED taskVars => TaskTypes'
BY DEF TaskTypes, taskVars

LEMMA ControlFrame == ControlTypes /\ UNCHANGED ctlVars => ControlTypes'
BY DEF ControlTypes, ctlVars

LEMMA MonFrame == MonTypes /\ UNCHANGED <<signals, mon>> => MonTypes'
BY DEF MonTypes

LEMMA OpFrame == OpTypes /\ UNCHANGED <<signals, op>> => OpTypes'
BY DEF OpTypes

LEMMA QuotaFrame == QuotaTypes /\ UNCHANGED quota => QuotaTypes'
BY DEF QuotaTypes

(* The records of the monitor and of a request, over the signals rows S.   *)
MonRecords(S) ==
  [pc : MonPcs, found : SUBSET S, todo : SUBSET Agents, live : SUBSET Agents,
   epoch : 0..MaxRequests, task : Tasks \cup {NoTask}]

OpRecords(S) ==
  [pc : OpPcs, known : SUBSET S, counts : [Agents -> 0..MaxBlocked],
   task : Tasks \cup {NoTask}, agent : Agents \cup {NoAgent}]

LEMMA MonIdleType ==
  ASSUME NEW S PROVE /\ MonIdle \in MonRecords(S)
                     /\ MonIdle.pc = "idle" /\ MonIdle.epoch = 0
BY DEF MonIdle, MonRecords, MonPcs

LEMMA OpIdleType ==
  ASSUME NEW S PROVE OpIdle \in OpRecords(S) /\ OpIdle.pc = "idle"
<1> DEFINE Z == [a \in Agents |-> 0]
<1>1. Z \in [Agents -> 0..MaxBlocked] OBVIOUS
<1>2. {} \in SUBSET S /\ "idle" \in OpPcs BY DEF OpPcs
<1>3. OpIdle = [pc |-> "idle", known |-> {}, counts |-> Z, task |-> NoTask,
                agent |-> NoAgent]
  BY DEF OpIdle
<1> HIDE DEF Z
<1>4. QED BY <1>1, <1>2, <1>3 DEF OpRecords

(* A request is counted, and leaves room for an acknowledgement.           *)
LEMMA RequestCounted ==
  ASSUME TypeOK, NewRequest
  PROVE  /\ requests' \in 0..MaxRequests
         /\ acks \in 0..requests' /\ acks + 1 \in 0..requests'
BY DEF TypeOK, ControlTypes, NewRequest

(* spawn_agent gives a fresh agent a task.                                 *)
LEMMA Spawned ==
  ASSUME TypeOK, NEW t \in Tasks, NEW a \in Agents, SpawnAgent(t, a),
         UNCHANGED <<logVars, finVars>>
  PROVE  AgentTypes' /\ FinTypes' /\ TaskTypes'
<1>1. AgentTypes' BY DEF TypeOK, AgentTypes, SpawnAgent, logVars
<1>2. FinTypes' BY DEF TypeOK, AgentTypes, FinTypes, SpawnAgent, finVars
<1>3. TaskTypes' BY DEF TypeOK, TaskTypes, SpawnAgent
<1>4. QED BY <1>1, <1>2, <1>3

-------------------------------------------------------------------------------
(* The monitor's steps.                                                    *)
LEMMA TickBeginTypes == ASSUME TypeOK, TickBegin PROVE TypeOK'
<1>1. MonTypes'
  <2>1. acks \in 0..MaxRequests BY DEF TypeOK, ControlTypes
  <2>2. signals \ out \in SUBSET signals' /\ signals' = signals BY DEF TickBegin, logVars
  <2>3. QED BY <2>1, <2>2 DEF TickBegin, MonTypes, MonIdle, MonPcs
<1>2. QED
  BY <1>1, AgentFrame, FinFrame, TaskFrame, ControlFrame, OpFrame,
     QuotaFrame DEF TickBegin, TypeOK, procVars, logVars, finVars,
     taskVars, ctlVars, threadVars

LEMMA TickEvaluateTypes == ASSUME TypeOK, TickEvaluate PROVE TypeOK'
<1>1. MonTypes'
  <2>1. signals' = signals BY DEF TickEvaluate, logVars
  <2>2. PICK S \in SUBSET Agents : \/ mon' = [mon EXCEPT !.pc = "flag", !.todo = S, !.found = {}, !.live = S \ mon.found]
                             \/ mon' = [MonIdle EXCEPT !.pc = "gate"]
    <3> DEFINE rows == mon.found \cup _live_rows(mon.found)
               S == {a \in rows : _unreviewed(a) > 0}
    <3>1. S \in SUBSET Agents BY DEF TypeOK, MonTypes, AgentTypes, _live_rows
    <3>2. \/ mon' = [mon EXCEPT !.pc = "flag", !.todo = S, !.found = {}, !.live = S \ mon.found]
          \/ mon' = [MonIdle EXCEPT !.pc = "gate"]
      BY DEF TickEvaluate
    <3> HIDE DEF S
    <3>3. QED BY <3>1, <3>2
  <2>3. CASE mon' = [mon EXCEPT !.pc = "flag", !.todo = S, !.found = {}, !.live = S \ mon.found] BY <2>1, <2>3 DEF TypeOK, MonTypes, MonPcs
  <2>4. CASE mon' = [MonIdle EXCEPT !.pc = "gate"] BY <2>4 DEF MonTypes, MonIdle, MonPcs
  <2>5. QED BY <2>2, <2>3, <2>4
<1>2. QED
  BY <1>1, AgentFrame, FinFrame, TaskFrame, ControlFrame, OpFrame,
     QuotaFrame DEF TickEvaluate, TypeOK, procVars, logVars, finVars,
     taskVars, ctlVars, threadVars

LEMMA TickFlagTypes == ASSUME TypeOK, NEW a \in Agents, TickFlag(a) PROVE TypeOK'
<1>1. TaskTypes'
  BY DEF TickFlag, TaskTypes, AgentTypes, Hold, MonTypes, procVars,
     taskVars, TypeOK
<1>2. MonTypes'
  BY DEF TickFlag, MonTypes, MonPcs, MonIdle, logVars, threadVars, TypeOK
<1>3. QED
  BY <1>1, <1>2, AgentFrame, FinFrame, ControlFrame, OpFrame, QuotaFrame
     DEF TickFlag, TypeOK, procVars, logVars, finVars, taskVars, ctlVars,
     threadVars

LEMMA FreezeSignalTypes == ASSUME TypeOK, NEW a \in Agents, FreezeSignal(a) PROVE TypeOK'
<1>1. AgentTypes'
  BY DEF FreezeSignal, AgentTypes, procVars, logVars, TypeOK
<1>2. MonTypes'
  <2>1. signals' = signals BY DEF FreezeSignal, logVars
  <2>2. CASE mon' = [mon EXCEPT !.pc = "mark", !.todo = {a}] BY <2>1, <2>2 DEF TypeOK, MonTypes, MonPcs
  <2>3. CASE mon' = [mon EXCEPT !.live = @ \ {a}] BY <2>1, <2>3 DEF TypeOK, MonTypes, MonPcs
  <2>4. QED BY <2>2, <2>3 DEF FreezeSignal
<1>3. QED
  BY <1>1, <1>2, FinFrame, TaskFrame, ControlFrame, OpFrame, QuotaFrame DEF
     FreezeSignal, TypeOK, procVars, logVars, finVars, taskVars, ctlVars,
     threadVars

LEMMA FreezeMarkTypes == ASSUME TypeOK, FreezeMark PROVE TypeOK'
<1>1. AgentTypes'
  BY DEF FreezeMark, AgentTypes, MonTypes, procVars, logVars, TypeOK
<1>2. MonTypes'
  BY DEF FreezeMark, MonTypes, MonPcs, MonIdle, logVars, threadVars, TypeOK
<1>3. QED
  BY <1>1, <1>2, FinFrame, TaskFrame, ControlFrame, OpFrame, QuotaFrame DEF
     FreezeMark, TypeOK, procVars, logVars, finVars, taskVars, ctlVars,
     threadVars

LEMMA TickSuspendTypes == ASSUME TypeOK, TickSuspend PROVE TypeOK'
<1>1. ControlTypes'
  BY DEF TickSuspend, ControlTypes, ctlVars, TypeOK
<1>2. MonTypes'
  BY DEF TickSuspend, MonTypes, MonPcs, MonIdle, logVars, threadVars,
     TypeOK
<1>3. QED
  BY <1>1, <1>2, AgentFrame, FinFrame, TaskFrame, OpFrame, QuotaFrame DEF
     TickSuspend, TypeOK, procVars, logVars, finVars, taskVars, ctlVars,
     threadVars

LEMMA MonSelectTypes == ASSUME TypeOK, MonSelect PROVE TypeOK'
<1>1. MonTypes'
  <2>1. ASSUME NEW t \in Tasks, mon' = [MonIdle EXCEPT !.pc = "spawn", !.task = t] PROVE MonTypes'
    BY <2>1, MonIdleType DEF MonPcs, MonTypes, MonRecords
  <2>2. CASE mon' = MonIdle BY <2>2, MonIdleType DEF MonTypes, MonRecords
  <2>3. QED BY <2>1, <2>2 DEF MonSelect
<1>2. QED
  BY <1>1, AgentFrame, FinFrame, TaskFrame, ControlFrame, OpFrame,
     QuotaFrame DEF MonSelect, TypeOK, procVars, logVars, finVars,
     taskVars, ctlVars, threadVars

LEMMA MonSpawnTypes == ASSUME TypeOK, MonSpawn PROVE TypeOK'
<1>1. mon.task \in Tasks BY DEF TypeOK, MonTypes, MonSpawn
<1>2. AgentTypes' /\ FinTypes' /\ TaskTypes'
  <2>1. ASSUME NEW a \in Agents, SpawnAgent(mon.task, a) PROVE AgentTypes' /\ FinTypes' /\ TaskTypes'
    BY <1>1, <2>1, Spawned DEF MonSpawn
  <2>2. CASE SpawnRefused(mon.task)
    BY <2>2, AgentFrame, FinFrame, TaskFrame DEF MonSpawn, SpawnRefused, TypeOK, procVars
  <2>3. QED BY <2>1, <2>2 DEF MonSpawn
<1>3. MonTypes'
  BY DEF MonSpawn, SpawnAgent, SpawnRefused, MonTypes, MonPcs, MonIdle,
     logVars, threadVars, TypeOK
<1>4. QED
  BY <1>2, <1>3, ControlFrame, OpFrame, QuotaFrame DEF MonSpawn, TypeOK,
     procVars, logVars, finVars, taskVars, ctlVars, threadVars

(* The operator's requests and their later steps.                          *)
LEMMA AckSnapshotTypes == ASSUME TypeOK, AckSnapshot PROVE TypeOK'
<1>1. OpTypes'
  <2> DEFINE C == [a \in Agents |-> IF row[a] = "active" THEN blocked[a] ELSE 0]
  <2>1. C \in [Agents -> 0..MaxBlocked] BY DEF TypeOK, AgentTypes
  <2>2. op' = [op EXCEPT !.pc = "config", !.counts = C] /\ signals' = signals BY DEF AckSnapshot, logVars
  <2> HIDE DEF C
  <2>3. QED BY <2>1, <2>2 DEF TypeOK, OpTypes, OpPcs
<1>2. QED
  BY <1>1, AgentFrame, FinFrame, TaskFrame, ControlFrame, MonFrame,
     QuotaFrame DEF AckSnapshot, TypeOK, procVars, logVars, finVars,
     taskVars, ctlVars, threadVars

LEMMA AckConfigTypes == ASSUME TypeOK, AckConfig PROVE TypeOK'
<1>1. AgentTypes'
  BY DEF AckConfig, AgentTypes, OpTypes, procVars, logVars, TypeOK
<1>2. ControlTypes'
  BY DEF AckConfig, ControlTypes, OpTypes, ctlVars, TypeOK
<1>3. OpTypes'
  BY DEF AckConfig, OpTypes, OpPcs, OpIdle, logVars, threadVars, TypeOK
<1>4. QED
  BY <1>1, <1>2, <1>3, FinFrame, TaskFrame, MonFrame, QuotaFrame DEF
     AckConfig, TypeOK, procVars, logVars, finVars, taskVars, ctlVars,
     threadVars

LEMMA OpSelectTypes == ASSUME TypeOK, OpSelect PROVE TypeOK'
<1>1. OpTypes'
  <2>1. ASSUME NEW t \in Tasks, op' = [OpIdle EXCEPT !.pc = "spawn", !.task = t] PROVE OpTypes'
    BY <2>1, OpIdleType DEF OpPcs, OpTypes, OpRecords
  <2>2. CASE op' = OpIdle
    BY <2>2, OpIdleType DEF OpTypes, OpRecords
  <2>3. QED BY <2>1, <2>2 DEF OpSelect
<1>2. QED
  BY <1>1, AgentFrame, FinFrame, TaskFrame, ControlFrame, MonFrame,
     QuotaFrame DEF OpSelect, TypeOK, procVars, logVars, finVars, taskVars,
     ctlVars, threadVars

LEMMA OpSpawnTypes == ASSUME TypeOK, OpSpawn PROVE TypeOK'
<1>1. op.task \in Tasks BY DEF TypeOK, OpTypes, OpSpawn
<1>2. AgentTypes' /\ FinTypes' /\ TaskTypes'
  <2>1. ASSUME NEW a \in Agents, SpawnAgent(op.task, a) PROVE AgentTypes' /\ FinTypes' /\ TaskTypes'
    BY <1>1, <2>1, Spawned DEF OpSpawn
  <2>2. CASE SpawnRefused(op.task)
    BY <2>2, AgentFrame, FinFrame, TaskFrame DEF OpSpawn, SpawnRefused, TypeOK, procVars
  <2>3. QED BY <2>1, <2>2 DEF OpSpawn
<1>3. OpTypes'
  BY DEF OpSpawn, SpawnAgent, SpawnRefused, OpTypes, OpPcs, OpIdle,
     logVars, threadVars, TypeOK
<1>4. QED
  BY <1>2, <1>3, ControlFrame, MonFrame, QuotaFrame DEF OpSpawn, TypeOK,
     procVars, logVars, finVars, taskVars, ctlVars, threadVars

LEMMA ThawTypes == ASSUME TypeOK, Thaw PROVE TypeOK'
<1>1. AgentTypes'
  BY DEF Thaw, Continue, AgentTypes, procVars, logVars, TypeOK
<1>2. OpTypes'
  BY DEF Thaw, Continue, OpTypes, OpPcs, OpIdle, logVars, threadVars,
     TypeOK
<1>3. QED
  BY <1>1, <1>2, FinFrame, TaskFrame, ControlFrame, MonFrame, QuotaFrame
     DEF Thaw, TypeOK, procVars, logVars, finVars, taskVars, ctlVars,
     threadVars

LEMMA UnmarkTypes == ASSUME TypeOK, Unmark PROVE TypeOK'
<1>1. AgentTypes'
  BY DEF Unmark, AgentTypes, procVars, logVars, TypeOK
<1>2. OpTypes'
  BY DEF Unmark, OpTypes, OpPcs, OpIdle, logVars, threadVars, TypeOK
<1>3. QED
  BY <1>1, <1>2, FinFrame, TaskFrame, ControlFrame, MonFrame, QuotaFrame
     DEF Unmark, TypeOK, procVars, logVars, finVars, taskVars, ctlVars,
     threadVars

LEMMA AutoOnTypes == ASSUME TypeOK, AutoOn PROVE TypeOK'
<1>1. ControlTypes'
  <2>1. auto' \in [enabled : BOOLEAN, quota : BOOLEAN, contain : BOOLEAN, userOff : BOOLEAN]
    BY DEF TypeOK, ControlTypes, AutoOn
  <2>2. config' \in [enabled : BOOLEAN, ack : 0..MaxRequests, counts : [Agents -> 0..MaxBlocked]]
    BY DEF TypeOK, ControlTypes, AutoOn
  <2>3. QED BY <2>1, <2>2, RequestCounted DEF TypeOK, ControlTypes, AutoOn
<1>2. OpTypes'
  <2>0. signals' = signals BY DEF AutoOn, logVars
  <2>1. CASE op' = [OpIdle EXCEPT !.pc = "snapshot", !.known = signals]
    BY <2>0, <2>1, OpIdleType DEF OpPcs, OpTypes, OpRecords
  <2>2. CASE op' = [OpIdle EXCEPT !.pc = "fill"]
    BY <2>2, OpIdleType DEF OpPcs, OpTypes, OpRecords
  <2>3. QED BY <2>1, <2>2 DEF AutoOn
<1>3. QED
  BY <1>1, <1>2, AgentFrame, FinFrame, TaskFrame, MonFrame, QuotaFrame DEF
     AutoOn, TypeOK, procVars, logVars, finVars, taskVars, ctlVars,
     threadVars

LEMMA AutoOffTypes == ASSUME TypeOK, AutoOff PROVE TypeOK'
<1>1. ControlTypes'
  <2>1. auto' \in [enabled : BOOLEAN, quota : BOOLEAN, contain : BOOLEAN, userOff : BOOLEAN]
    BY DEF TypeOK, ControlTypes, AutoOff
  <2>2. config' \in [enabled : BOOLEAN, ack : 0..MaxRequests, counts : [Agents -> 0..MaxBlocked]]
    BY DEF TypeOK, ControlTypes, AutoOff
  <2>3. QED BY <2>1, <2>2, RequestCounted DEF TypeOK, ControlTypes, AutoOff
<1>2. QED
  BY <1>1, AgentFrame, FinFrame, TaskFrame, MonFrame, OpFrame, QuotaFrame
     DEF AutoOff, TypeOK, procVars, logVars, finVars, taskVars, ctlVars,
     threadVars

LEMMA SpawnRouteTypes == ASSUME TypeOK, NEW t \in Tasks, SpawnRoute(t) PROVE TypeOK'
<1>1. TaskTypes'
  BY DEF SpawnRoute, NewRequest, TaskTypes, AgentTypes, Hold, procVars,
     taskVars, TypeOK
<1>2. ControlTypes'
  BY DEF SpawnRoute, NewRequest, ControlTypes, ctlVars, TypeOK
<1>3. OpTypes'
  BY OpIdleType DEF SpawnRoute, OpPcs, OpTypes, OpRecords
<1>4. QED
  BY <1>1, <1>2, <1>3, AgentFrame, FinFrame, MonFrame, QuotaFrame DEF
     SpawnRoute, TypeOK, procVars, logVars, finVars, taskVars, ctlVars,
     threadVars

LEMMA ReleaseTypes == ASSUME TypeOK, NEW t \in Tasks, Release(t) PROVE TypeOK'
<1>1. TaskTypes'
  BY ZenonT(60) DEF Release, NewRequest, TaskTypes, AgentTypes, Hold, procVars,
     taskVars, TypeOK
<1>2. ControlTypes'
  BY DEF Release, NewRequest, ControlTypes, TaskTypes, Hold, ctlVars,
     TypeOK
<1>3. OpTypes'
  <2>1. meta[t].agent \in Agents \cup {NoAgent} BY DEF TypeOK, TaskTypes, Hold
  <2>2. QED BY <2>1, OpIdleType DEF Release, OpPcs, OpTypes, OpRecords
<1>4. QED
  BY <1>1, <1>2, <1>3, AgentFrame, FinFrame, MonFrame, QuotaFrame DEF
     Release, TypeOK, procVars, logVars, finVars, taskVars, ctlVars,
     threadVars

LEMMA ChatAutoModeTypes == ASSUME TypeOK, NEW on \in BOOLEAN, ChatAutoMode(on) PROVE TypeOK'
<1>1. ControlTypes'
  <2>1. auto' \in [enabled : BOOLEAN, quota : BOOLEAN, contain : BOOLEAN, userOff : BOOLEAN]
    BY DEF TypeOK, ControlTypes, ChatAutoMode
  <2>3. QED BY <2>1, RequestCounted DEF TypeOK, ControlTypes, ChatAutoMode
<1>2. QED
  BY <1>1, AgentFrame, FinFrame, TaskFrame, MonFrame, OpFrame, QuotaFrame
     DEF ChatAutoMode, TypeOK, procVars, logVars, finVars, taskVars,
     ctlVars, threadVars

(* The quota watcher.                                                      *)
LEMMA QuotaSuspendTypes == ASSUME TypeOK, QuotaSuspend PROVE TypeOK'
<1>1. ControlTypes'
  BY DEF QuotaSuspend, ControlTypes, ctlVars, TypeOK
<1>2. QED
  BY <1>1, AgentFrame, FinFrame, TaskFrame, MonFrame, OpFrame, QuotaFrame
     DEF QuotaSuspend, TypeOK, procVars, logVars, finVars, taskVars,
     ctlVars, threadVars

LEMMA QuotaResumeTypes == ASSUME TypeOK, QuotaResume PROVE TypeOK'
<1>1. ControlTypes'
  BY DEF QuotaResume, ControlTypes, ctlVars, TypeOK
<1>2. QED
  BY <1>1, AgentFrame, FinFrame, TaskFrame, MonFrame, OpFrame, QuotaFrame
     DEF QuotaResume, TypeOK, procVars, logVars, finVars, taskVars,
     ctlVars, threadVars

LEMMA QuotaCollectTypes == ASSUME TypeOK, QuotaCollect PROVE TypeOK'
<1>1. QuotaTypes'
  BY DEF QuotaCollect, QuotaTargets, QuotaTypes, threadVars, TypeOK
<1>2. QED
  BY <1>1, AgentFrame, FinFrame, TaskFrame, ControlFrame, MonFrame, OpFrame
     DEF QuotaCollect, TypeOK, procVars, logVars, finVars, taskVars,
     ctlVars, threadVars

LEMMA QuotaSignalTypes == ASSUME TypeOK, QuotaSignal PROVE TypeOK'
<1>1. AgentTypes'
  BY DEF QuotaSignal, Continue, AgentTypes, procVars, logVars, TypeOK
<1>2. QuotaTypes'
  BY DEF QuotaSignal, Continue, QuotaTypes, threadVars, TypeOK
<1>3. QED
  BY <1>1, <1>2, FinFrame, TaskFrame, ControlFrame, MonFrame, OpFrame DEF
     QuotaSignal, TypeOK, procVars, logVars, finVars, taskVars, ctlVars,
     threadVars

LEMMA QuotaRunsOutTypes == ASSUME TypeOK, QuotaRunsOut PROVE TypeOK'
<1>1. QuotaTypes'
  <2>1. quota.left - 1 \in 0..MaxQuota BY DEF TypeOK, QuotaTypes, QuotaRunsOut
  <2>2. QED BY <2>1 DEF TypeOK, QuotaTypes, QuotaRunsOut
<1>2. QED
  BY <1>1, AgentFrame, FinFrame, TaskFrame, ControlFrame, MonFrame, OpFrame
     DEF QuotaRunsOut, TypeOK, procVars, logVars, finVars, taskVars,
     ctlVars, threadVars

LEMMA QuotaIsBackTypes == ASSUME TypeOK, QuotaIsBack PROVE TypeOK'
<1>1. QuotaTypes'
  BY DEF QuotaIsBack, QuotaTypes, threadVars, TypeOK
<1>2. QED
  BY <1>1, AgentFrame, FinFrame, TaskFrame, ControlFrame, MonFrame, OpFrame
     DEF QuotaIsBack, TypeOK, procVars, logVars, finVars, taskVars,
     ctlVars, threadVars

(* The agents and their finish threads.                                    *)
LEMMA BlockTypes == ASSUME TypeOK, NEW a \in Agents, Block(a) PROVE TypeOK'
<1>1. AgentTypes'
  BY DEF Block, AgentTypes, procVars, logVars, TypeOK
<1>2. QED
  BY <1>1, FinFrame, TaskFrame, ControlFrame, MonFrame, OpFrame, QuotaFrame
     DEF Block, TypeOK, procVars, logVars, finVars, taskVars, ctlVars,
     threadVars

LEMMA ExitTypes == ASSUME TypeOK, NEW a \in Agents, Exit(a) PROVE TypeOK'
<1>1. AgentTypes'
  BY DEF Exit, AgentTypes, procVars, logVars, TypeOK
<1>2. QED
  BY <1>1, FinFrame, TaskFrame, ControlFrame, MonFrame, OpFrame, QuotaFrame
     DEF Exit, TypeOK, procVars, logVars, finVars, taskVars, ctlVars,
     threadVars

LEMMA TimeoutTypes == ASSUME TypeOK, NEW a \in Agents, Timeout(a) PROVE TypeOK'
<1>1. AgentTypes'
  BY DEF Timeout, AgentTypes, procVars, logVars, TypeOK
<1>2. QED
  BY <1>1, FinFrame, TaskFrame, ControlFrame, MonFrame, OpFrame, QuotaFrame
     DEF Timeout, TypeOK, procVars, logVars, finVars, taskVars, ctlVars,
     threadVars

LEMMA ExpireTypes == ASSUME TypeOK, NEW a \in Agents, Expire(a) PROVE TypeOK'
<1>1. AgentTypes'
  BY DEF Expire, AgentTypes, procVars, logVars, TypeOK
<1>2. QED
  BY <1>1, FinFrame, TaskFrame, ControlFrame, MonFrame, OpFrame, QuotaFrame
     DEF Expire, TypeOK, procVars, logVars, finVars, taskVars, ctlVars,
     threadVars

LEMMA FinishCloseTypes == ASSUME TypeOK, NEW a \in Agents, FinishClose(a) PROVE TypeOK'
<1>1. AgentTypes'
  BY DEF FinishClose, AgentTypes, procVars, logVars, TypeOK
<1>2. FinTypes'
  BY DEF FinishClose, FinTypes, FinPcs, AgentTypes, procVars, finVars,
     TypeOK
<1>3. QED
  BY <1>1, <1>2, TaskFrame, ControlFrame, MonFrame, OpFrame, QuotaFrame DEF
     FinishClose, TypeOK, procVars, logVars, finVars, taskVars, ctlVars,
     threadVars

LEMMA FinishReadTypes == ASSUME TypeOK, NEW a \in Agents, FinishRead(a) PROVE TypeOK'
<1>1. FinTypes'
  BY DEF FinishRead, FinTypes, FinPcs, AgentTypes, NoHold, Hold, TaskTypes,
     procVars, finVars, TypeOK
<1>2. QED
  BY <1>1, AgentFrame, TaskFrame, ControlFrame, MonFrame, OpFrame,
     QuotaFrame DEF FinishRead, TypeOK, procVars, logVars, finVars,
     taskVars, ctlVars, threadVars

LEMMA FinishWriteTypes == ASSUME TypeOK, NEW a \in Agents, FinishWrite(a) PROVE TypeOK'
<1>1. TaskTypes'
  <2>1. snap[a] \in Hold /\ taskOf[a] \in Tasks BY DEF TypeOK, FinTypes, FinishWrite
  <2>2. PICK s \in {"pending", "done"} : status' = [status EXCEPT ![taskOf[a]] = s] BY DEF FinishWrite
  <2>3. meta' = meta \/ meta' = [meta EXCEPT ![taskOf[a]] = snap[a]] BY DEF FinishWrite
  <2>4. QED BY <2>1, <2>2, <2>3 DEF TypeOK, TaskTypes
<1>2. FinTypes'
  BY DEF FinishWrite, FinTypes, FinPcs, AgentTypes, NoHold, Hold, procVars,
     finVars, TypeOK
<1>3. QED
  BY <1>1, <1>2, AgentFrame, ControlFrame, MonFrame, OpFrame, QuotaFrame
     DEF FinishWrite, TypeOK, procVars, logVars, finVars, taskVars,
     ctlVars, threadVars

LEMMA FinishSignalsTypes == ASSUME TypeOK, NEW a \in Agents, FinishSignals(a) PROVE TypeOK'
<1>1. AgentTypes'
  BY DEF FinishSignals, AgentTypes, procVars, logVars, TypeOK
<1>2. FinTypes'
  BY DEF FinishSignals, FinTypes, FinPcs, AgentTypes, procVars, finVars,
     TypeOK
<1>3. MonTypes'
  BY DEF FinishSignals, MonTypes, MonPcs, MonIdle, logVars, threadVars,
     TypeOK
<1>4. OpTypes'
  BY DEF FinishSignals, OpTypes, OpPcs, OpIdle, logVars, threadVars, TypeOK
<1>5. QED
  BY <1>1, <1>2, <1>3, <1>4, TaskFrame, ControlFrame, QuotaFrame DEF
     FinishSignals, TypeOK, procVars, logVars, finVars, taskVars, ctlVars,
     threadVars

(* A restart.                                                              *)
LEMMA RestartTypes == ASSUME TypeOK, Restart PROVE TypeOK'
<1>1. AgentTypes'
  BY DEF Restart, AgentTypes, procVars, logVars, TypeOK
<1>2. FinTypes'
  BY DEF Restart, FinTypes, FinPcs, AgentTypes, NoHold, Hold, procVars,
     finVars, TypeOK
<1>3. TaskTypes'
  BY DEF Restart, TaskTypes, AgentTypes, Hold, procVars, taskVars, TypeOK
<1>4. ControlTypes'
  BY DEF Restart, ControlTypes, ctlVars, TypeOK
<1>5. MonTypes'
  BY DEF Restart, MonTypes, MonPcs, MonIdle, logVars, threadVars, TypeOK
<1>6. OpTypes'
  BY DEF Restart, OpTypes, OpPcs, OpIdle, logVars, threadVars, TypeOK
<1>7. QuotaTypes'
  BY DEF Restart, QuotaTypes, threadVars, TypeOK
<1>8. QED
  BY <1>1, <1>2, <1>3, <1>4, <1>5, <1>6, <1>7 DEF Restart, TypeOK,
     procVars, logVars, finVars, taskVars, ctlVars, threadVars

(* Every step of every thread keeps the types.                             *)
LEMMA TypeStep == TypeOK /\ [Next]_vars => TypeOK'
<1> SUFFICES ASSUME TypeOK, [Next]_vars PROVE TypeOK' OBVIOUS
<1>1. CASE Monitor
  BY <1>1, TickBeginTypes, TickEvaluateTypes, TickFlagTypes, FreezeSignalTypes,
     FreezeMarkTypes, TickSuspendTypes, MonSelectTypes, MonSpawnTypes
     DEF Monitor
<1>2. CASE OpSteps
  BY <1>2, AckSnapshotTypes, AckConfigTypes, OpSelectTypes, OpSpawnTypes,
     ThawTypes, UnmarkTypes DEF OpSteps
<1>3. CASE Request
  BY <1>3, AutoOnTypes, AutoOffTypes, SpawnRouteTypes, ReleaseTypes,
     ChatAutoModeTypes DEF Request
<1>4. CASE QuotaWatcher
  BY <1>4, QuotaSuspendTypes, QuotaResumeTypes, QuotaCollectTypes,
     QuotaSignalTypes DEF QuotaWatcher
<1>5. CASE Restart BY <1>5, RestartTypes
<1>6. CASE QuotaRunsOut \/ QuotaIsBack
  BY <1>6, QuotaRunsOutTypes, QuotaIsBackTypes
<1>7. ASSUME NEW a \in Agents,
             Block(a) \/ Exit(a) \/ Timeout(a) \/ Finish(a) \/ Expire(a)
      PROVE  TypeOK'
  BY <1>7, BlockTypes, ExitTypes, TimeoutTypes, ExpireTypes, FinishCloseTypes,
     FinishReadTypes, FinishWriteTypes, FinishSignalsTypes DEF Finish
<1>8. CASE UNCHANGED vars
  BY <1>8, AgentFrame, FinFrame, TaskFrame, ControlFrame, MonFrame, OpFrame,
     QuotaFrame DEF vars, procVars, logVars, finVars, taskVars, ctlVars, TypeOK
<1>9. QED BY <1>1, <1>2, <1>3, <1>4, <1>5, <1>6, <1>7, <1>8 DEF Next

LEMMA TypeInit == Init => TypeOK
<1> SUFFICES ASSUME Init PROVE TypeOK OBVIOUS
<1>1. NoHold \in Hold BY DEF NoHold, Hold
<1>2. AgentTypes BY DEF Init, AgentTypes
<1>3. FinTypes BY <1>1 DEF Init, FinTypes, FinPcs
<1>4. TaskTypes BY <1>1 DEF Init, TaskTypes
<1>5. ControlTypes BY DEF Init, ControlTypes
<1>6. MonTypes BY MonIdleType DEF Init, MonTypes, MonRecords
<1>7. OpTypes BY OpIdleType DEF Init, OpTypes, OpRecords
<1>8. QED BY <1>2, <1>3, <1>4, <1>5, <1>6, <1>7 DEF Init, QuotaTypes, TypeOK

(* The state always has the shape TypeOK gives it.                         *)
THEOREM TypeCorrect == Spec => []TypeOK
<1>1. Init => TypeOK BY TypeInit
<1>2. TypeOK /\ [Next]_vars => TypeOK' BY TypeStep
<1>3. QED BY <1>1, <1>2, PTL DEF Spec

-------------------------------------------------------------------------------
(* A trip that nobody acknowledged.  Holds are copied (a finish thread     *)
(* reads one and writes it back later), so the invariant speaks of the     *)
(* epochs of all copies: it is a moment that has begun, the current moment *)
(* is one of a suspension or of a trip in progress, and so is every moment *)
(* from the acknowledged one on, unless it is being acknowledged.          *)
OnHold(n) ==
  \/ \E t \in Tasks : meta[t].held /\ meta[t].epoch = n
  \/ \E a \in Agents : snap[a].held /\ snap[a].epoch = n

Covered(n) ==
  /\ n <= acks
  /\ n = acks => auto.contain \/ Tripping
  /\ n >= config.ack => auto.contain \/ Tripping \/ Acknowledging

HoldsAreCovered == \A n \in 0..MaxRequests : OnHold(n) => Covered(n)

EpochsBegan == mon.epoch <= acks /\ config.ack <= acks

HoldInv == TypeOK /\ HoldsAreCovered /\ EpochsBegan

(* Who writes a hold or reads one.                                         *)
LEMMA HoldWriters ==
  ASSUME [Next]_vars
  PROVE  \/ UNCHANGED <<meta, snap>>
         \/ \E a \in Agents : TickFlag(a) \/ FinishRead(a) \/ FinishWrite(a)
         \/ \E t \in Tasks : Release(t)
         \/ Restart
<1> DEFINE Writers == \/ UNCHANGED <<meta, snap>>
                      \/ \E a \in Agents : TickFlag(a) \/ FinishRead(a) \/ FinishWrite(a)
                      \/ \E t \in Tasks : Release(t)
                      \/ Restart
<1>1. CASE Monitor
  BY <1>1 DEF Monitor, TickBegin, TickEvaluate, FreezeSignal, FreezeMark,
     TickSuspend, MonSelect, MonSpawn, SpawnAgent, SpawnRefused, taskVars, finVars
<1>2. CASE OpSteps
  BY <1>2 DEF OpSteps, AckSnapshot, AckConfig, OpSelect, OpSpawn, Thaw, Unmark,
     SpawnAgent, SpawnRefused, taskVars, finVars
<1>3. CASE Request
  BY <1>3 DEF Request, AutoOn, AutoOff, SpawnRoute, ChatAutoMode, taskVars, finVars
<1>4. CASE QuotaWatcher \/ QuotaRunsOut \/ QuotaIsBack
  BY <1>4 DEF QuotaWatcher, QuotaSuspend, QuotaResume, QuotaCollect, QuotaSignal,
     QuotaRunsOut, QuotaIsBack, taskVars, finVars
<1>5. ASSUME NEW a \in Agents,
             Block(a) \/ Exit(a) \/ Timeout(a) \/ Finish(a) \/ Expire(a)
      PROVE  Writers
  BY <1>5 DEF Block, Exit, Timeout, Finish, FinishClose, FinishSignals, Expire,
     taskVars, finVars
<1>6. CASE UNCHANGED vars BY <1>6 DEF vars
<1>7. QED BY <1>1, <1>2, <1>3, <1>4, <1>5, <1>6 DEF Next

(* Only flag_tasks makes a hold; everyone else drops or copies one.        *)
LEMMA HoldsCopied ==
  ASSUME TypeOK, [Next]_vars, ~\E a \in Agents : TickFlag(a),
         NEW n \in 0..MaxRequests, OnHold(n)'
  PROVE  OnHold(n)
<1>1. CASE UNCHANGED <<meta, snap>> BY <1>1 DEF OnHold
<1>2. ASSUME NEW a \in Agents, FinishRead(a) PROVE OnHold(n)
  BY <1>2 DEF OnHold, FinishRead, TypeOK, FinTypes, taskVars
<1>3. ASSUME NEW a \in Agents, FinishWrite(a) PROVE OnHold(n)
  <2>1. taskOf[a] \in Tasks BY <1>3 DEF FinishWrite, TypeOK, FinTypes
  <2>2. meta' = meta \/ meta' = [meta EXCEPT ![taskOf[a]] = snap[a]]
    BY <1>3 DEF FinishWrite
  <2>3. snap' = [snap EXCEPT ![a] = NoHold] BY <1>3 DEF FinishWrite
  <2>4. QED BY <2>1, <2>2, <2>3 DEF OnHold, NoHold, TypeOK, FinTypes, TaskTypes
<1>4. ASSUME NEW t \in Tasks, Release(t) PROVE OnHold(n)
  BY <1>4 DEF OnHold, Release, TypeOK, TaskTypes, Hold, finVars
<1>5. CASE Restart
  BY <1>5 DEF OnHold, Restart, NoHold
<1>6. QED BY HoldWriters, <1>1, <1>2, <1>3, <1>4, <1>5

(* Who touches the suspension, the acknowledgements and the two program    *)
(* counters Covered reads.                                                 *)
ControlKept ==
  /\ acks' = acks /\ config'.ack = config.ack
  /\ auto'.contain = auto.contain
  /\ Tripping => Tripping'
  /\ Acknowledging => Acknowledging'

LEMMA ControlWriters ==
  ASSUME TypeOK, [Next]_vars
  PROVE  ControlKept \/ TickSuspend \/ AutoOn \/ AckConfig \/ Restart
<1> USE DEF ControlKept, Tripping, Acknowledging
<1>1. CASE Monitor
  <2>1. CASE TickBegin \/ TickEvaluate
    BY <2>1 DEF TickBegin, TickEvaluate, ctlVars
  <2>2. ASSUME NEW a \in Agents, TickFlag(a) PROVE ControlKept
    BY <2>2 DEF TickFlag, ctlVars, TypeOK, MonTypes
  <2>3. ASSUME NEW a \in Agents, FreezeSignal(a) PROVE ControlKept
    BY <2>3 DEF FreezeSignal, ctlVars, TypeOK, MonTypes
  <2>4. CASE FreezeMark
    BY <2>4 DEF FreezeMark, ctlVars, TypeOK, MonTypes
  <2>5. CASE MonSelect \/ MonSpawn
    BY <2>5 DEF MonSelect, MonSpawn, ctlVars
  <2>6. QED BY <1>1, <2>1, <2>2, <2>3, <2>4, <2>5 DEF Monitor
<1>2. CASE OpSteps
  BY <1>2 DEF OpSteps, AckSnapshot, OpSelect, OpSpawn, Thaw, Unmark, ctlVars,
     TypeOK, OpTypes
<1>3. CASE Request
  BY <1>3 DEF Request, AutoOff, SpawnRoute, Release, ChatAutoMode, threadVars,
     TypeOK, ControlTypes
<1>4. CASE QuotaWatcher \/ QuotaRunsOut \/ QuotaIsBack
  BY <1>4 DEF QuotaWatcher, QuotaSuspend, QuotaResume, QuotaCollect, QuotaSignal,
     QuotaRunsOut, QuotaIsBack, ctlVars, threadVars, TypeOK, ControlTypes
<1>5. ASSUME NEW a \in Agents,
             Block(a) \/ Exit(a) \/ Timeout(a) \/ Finish(a) \/ Expire(a)
      PROVE  ControlKept
  BY <1>5 DEF Block, Exit, Timeout, Finish, FinishClose, FinishRead, FinishWrite,
     FinishSignals, Expire, ctlVars, threadVars
<1>6. CASE UNCHANGED vars BY <1>6 DEF vars
<1>7. QED BY <1>1, <1>2, <1>3, <1>4, <1>5, <1>6 DEF Next

(* Every step keeps the invariant.                                         *)
LEMMA EpochsStep == HoldInv /\ [Next]_vars => EpochsBegan'
<1> SUFFICES ASSUME HoldInv, [Next]_vars PROVE EpochsBegan' OBVIOUS
<1>1. /\ acks \in Nat /\ mon.epoch \in Nat /\ config.ack \in Nat
      /\ mon.epoch <= acks /\ config.ack <= acks
  BY DEF HoldInv, EpochsBegan, TypeOK, ControlTypes, MonTypes
<1>2. acks' >= acks /\ (config'.ack <= acks' \/ config'.ack = config.ack)
  BY ControlWriters, <1>1 DEF ControlKept, TickSuspend, AutoOn, AckConfig,
     Restart, HoldInv, TypeOK, ControlTypes
<1>3. mon'.epoch \in {mon.epoch, acks, 0}
  <2>1. CASE Monitor
    <3> USE DEF HoldInv, TypeOK, MonTypes
    <3>1. CASE TickBegin BY <3>1, MonIdleType DEF TickBegin, MonRecords
    <3>2. CASE TickEvaluate BY <3>2, MonIdleType DEF TickEvaluate, MonRecords
    <3>3. ASSUME NEW a \in Agents, TickFlag(a) PROVE mon'.epoch = mon.epoch
      BY <3>3 DEF TickFlag
    <3>4. ASSUME NEW a \in Agents, FreezeSignal(a) PROVE mon'.epoch = mon.epoch
      BY <3>4 DEF FreezeSignal
    <3>5. CASE FreezeMark BY <3>5 DEF FreezeMark
    <3>6. CASE TickSuspend BY <3>6, MonIdleType DEF TickSuspend, MonRecords
    <3>7. CASE MonSelect
      <4>1. ASSUME NEW t \in Tasks,
                   mon' = [MonIdle EXCEPT !.pc = "spawn", !.task = t]
            PROVE  mon'.epoch = 0
        BY <4>1, MonIdleType DEF MonRecords
      <4>2. QED BY <3>7, <4>1, MonIdleType DEF MonSelect
    <3>8. CASE MonSpawn BY <3>8, MonIdleType DEF MonSpawn
    <3>9. QED
      BY <2>1, <3>1, <3>2, <3>3, <3>4, <3>5, <3>6, <3>7, <3>8 DEF Monitor
  <2>2. CASE Restart BY <2>2 DEF Restart, MonIdle
  <2>3. CASE OpSteps \/ Request
    BY <2>3 DEF OpSteps, AckSnapshot, AckConfig, OpSelect, OpSpawn, Thaw, Unmark,
       Request, AutoOn, AutoOff, SpawnRoute, Release, ChatAutoMode, threadVars
  <2>4. CASE QuotaWatcher \/ QuotaRunsOut \/ QuotaIsBack
    BY <2>4 DEF QuotaWatcher, QuotaSuspend, QuotaResume, QuotaCollect,
       QuotaSignal, QuotaRunsOut, QuotaIsBack, threadVars
  <2>5. ASSUME NEW a \in Agents,
               Block(a) \/ Exit(a) \/ Timeout(a) \/ Finish(a) \/ Expire(a)
        PROVE  mon' = mon
    BY <2>5 DEF Block, Exit, Timeout, Finish, FinishClose, FinishRead,
       FinishWrite, FinishSignals, Expire, threadVars
  <2>6. CASE UNCHANGED vars BY <2>6 DEF vars
  <2>7. QED BY <2>1, <2>2, <2>3, <2>4, <2>5, <2>6 DEF Next
<1>4. acks' \in Nat /\ config'.ack \in Nat
  BY TypeStep DEF HoldInv, TypeOK, ControlTypes
<1>5. QED BY <1>1, <1>2, <1>3, <1>4 DEF EpochsBegan

LEMMA HoldStep == HoldInv /\ [Next]_vars => HoldInv'
<1> SUFFICES ASSUME HoldInv, [Next]_vars PROVE HoldInv' OBVIOUS
<1>1. TypeOK' BY TypeStep DEF HoldInv
<1>2. EpochsBegan' BY EpochsStep
<1>3. /\ acks \in Nat /\ mon.epoch \in Nat /\ config.ack \in Nat
      /\ mon.epoch <= acks /\ config.ack <= acks
  BY DEF HoldInv, EpochsBegan, TypeOK, ControlTypes, MonTypes
<1>4. ASSUME NEW n \in 0..MaxRequests, OnHold(n)' PROVE Covered(n)'
  <2>1. ASSUME NEW a \in Agents, TickFlag(a) PROVE Covered(n)'
    <3>1. mon'.pc \in {"flag", "freeze"} /\ UNCHANGED <<acks, config>>
      BY <2>1 DEF TickFlag, ctlVars, HoldInv, TypeOK, MonTypes
    <3>2. OnHold(n) \/ n = mon.epoch
      BY <2>1, <1>4 DEF TickFlag, OnHold, finVars, HoldInv, TypeOK, TaskTypes
    <3>3. n <= acks BY <3>2, <1>3 DEF HoldInv, HoldsAreCovered, Covered
    <3>4. QED BY <3>1, <3>3 DEF Covered, Tripping
  <2>2. CASE ~\E a \in Agents : TickFlag(a)
    <3>1. OnHold(n) BY <2>2, <1>4, HoldsCopied DEF HoldInv
    <3>2. Covered(n) BY <3>1 DEF HoldInv, HoldsAreCovered
    <3>3. CASE ControlKept BY <3>2, <3>3 DEF Covered, ControlKept
    <3>4. CASE TickSuspend
      BY <3>2, <3>4 DEF Covered, TickSuspend, HoldInv, TypeOK, ControlTypes
    <3>5. CASE AutoOn
      <4>1. op.pc = "idle" /\ mon' = mon BY <3>5 DEF AutoOn
      <4>2. CASE auto.contain
        <5>1. acks' = acks + 1 /\ config' = config BY <3>5, <4>2 DEF AutoOn
        <5>2. op' = [OpIdle EXCEPT !.pc = "snapshot", !.known = signals]
          BY <3>5, <4>2 DEF AutoOn
        <5>3. Acknowledging' BY <5>2 DEF Acknowledging, OpIdle
        <5>4. QED BY <3>2, <1>3, <5>1, <5>3 DEF Covered
      <4>3. CASE ~auto.contain
        <5>1. acks' = acks /\ config'.ack = config.ack
          BY <3>5, <4>3 DEF AutoOn, HoldInv, TypeOK, ControlTypes
        <5>2. QED BY <3>2, <4>1, <4>3, <5>1 DEF Covered, Tripping, Acknowledging
      <4>4. QED BY <4>2, <4>3
    <3>6. CASE AckConfig
      BY <3>2, <3>6, <1>3 DEF Covered, AckConfig, Tripping
    <3>7. CASE Restart
      <4>1. n <= acks' /\ acks' = acks /\ config' = config
        BY <3>2, <3>7 DEF Covered, Restart
      <4>2. ASSUME n >= config.ack PROVE auto'.contain
        <5>1. PICK t \in Tasks : meta[t].held /\ meta[t].epoch = n
          BY <1>4, <3>7 DEF OnHold, Restart, NoHold
        <5>2. t \in recovered BY <4>2, <5>1 DEF recovered, unacked, is_held
        <5>3. QED BY <3>7, <5>2 DEF Restart
      <4>3. QED BY <4>1, <4>2, <1>3 DEF Covered
    <3>8. QED BY <3>3, <3>4, <3>5, <3>6, <3>7, ControlWriters DEF HoldInv
  <2>3. QED BY <2>1, <2>2
<1>5. QED BY <1>1, <1>2, <1>4 DEF HoldInv, HoldsAreCovered

(* A trip nobody acknowledged keeps auto-mode suspended, whatever finish   *)
(* threads write over the task rows, whatever the quota watcher, the chat  *)
(* and releases do, and across restarts (UnackedIsSuspended).              *)
THEOREM UnackedStaysSuspended == Spec => []UnackedIsSuspended
<1>1. Init => HoldInv
  <2> SUFFICES ASSUME Init PROVE HoldInv OBVIOUS
  <2>1. HoldsAreCovered BY DEF Init, HoldsAreCovered, OnHold, NoHold
  <2>2. EpochsBegan BY DEF Init, EpochsBegan, MonIdle
  <2>3. QED BY <2>1, <2>2, TypeInit DEF HoldInv
<1>2. HoldInv /\ [Next]_vars => HoldInv' BY HoldStep
<1>3. HoldInv => UnackedIsSuspended
  BY DEF HoldInv, HoldsAreCovered, OnHold, Covered, UnackedIsSuspended, unacked,
     is_held, TypeOK, TaskTypes, Hold
<1>4. QED BY <1>1, <1>2, <1>3, PTL DEF Spec

-------------------------------------------------------------------------------
(* The monitor starts no held task.  A run is engaged with its task while  *)
(* its row is active or its finish thread has yet to write the task; the   *)
(* task is busy then and has no other such run, so no finish thread writes *)
(* a row between the pick of a pending task and its spawn, and the other   *)
(* spawner is kept out by the slots.                                       *)
Engaged(a) == row[a] = "active" \/ fin[a] \in {"closed", "write"}

FinishClosed ==
  \A a \in Agents : /\ fin[a] # "idle" => row[a] = "closed"
                    /\ proc[a] = "unborn" => row[a] = "none"

RunsAreBusy == \A a \in Agents : Engaged(a) => status[taskOf[a]] = "busy"

OneRunPerTask ==
  \A a, b \in Agents : Engaged(a) /\ Engaged(b) /\ taskOf[a] = taskOf[b] => a = b

OneSpawn == ~(mon.pc = "spawn" /\ op.pc = "spawn")

PickedIsFree ==
  mon.pc = "spawn" => status[mon.task] = "pending" /\ ~is_held(mon.task)

RunInv ==
  /\ TypeOK
  /\ FinishClosed /\ RunsAreBusy /\ OneRunPerTask /\ OneSpawn /\ PickedIsFree

(* An engaged run has a task.                                              *)
LEMMA EngagedTask ==
  ASSUME TypeOK, NEW a \in Agents, Engaged(a) PROVE taskOf[a] \in Tasks
BY DEF TypeOK, AgentTypes, FinTypes, Engaged

(* Who writes what runs and tasks are told by.                             *)
RunsKept ==
  /\ UNCHANGED <<row, taskOf, fin, status>>
  /\ \A a \in Agents : proc'[a] = "unborn" => proc[a] = "unborn"

LEMMA RunWriters ==
  ASSUME TypeOK, [Next]_vars
  PROVE  \/ RunsKept \/ MonSpawn \/ OpSpawn \/ Restart
         \/ \E t \in Tasks : SpawnRoute(t)
         \/ \E a \in Agents : Finish(a)
<1> DEFINE Writers == \/ MonSpawn \/ OpSpawn \/ Restart
                      \/ \E t \in Tasks : SpawnRoute(t)
                      \/ \E a \in Agents : Finish(a)
<1> USE DEF RunsKept
<1>1. CASE Monitor
  <2>1. ASSUME NEW a \in Agents, FreezeSignal(a) PROVE RunsKept
    BY <2>1 DEF FreezeSignal, finVars, taskVars, TypeOK, AgentTypes
  <2>2. QED
    BY <1>1, <2>1 DEF Monitor, TickBegin, TickEvaluate, TickFlag, FreezeMark,
       TickSuspend, MonSelect, procVars, finVars, taskVars
<1>2. CASE OpSteps
  <2>1. CASE Thaw
    BY <2>1 DEF Thaw, Continue, finVars, taskVars, TypeOK, AgentTypes
  <2>2. QED
    BY <1>2, <2>1 DEF OpSteps, AckSnapshot, AckConfig, OpSelect, Unmark,
       procVars, finVars, taskVars
<1>3. CASE Request
  BY <1>3 DEF Request, AutoOn, AutoOff, Release, ChatAutoMode, procVars, finVars,
     taskVars
<1>4. CASE QuotaWatcher
  <2>1. CASE QuotaSignal
    BY <2>1 DEF QuotaSignal, Continue, finVars, taskVars, TypeOK, AgentTypes
  <2>2. QED
    BY <1>4, <2>1 DEF QuotaWatcher, QuotaSuspend, QuotaResume, QuotaCollect,
       procVars, finVars, taskVars
<1>5. CASE QuotaRunsOut \/ QuotaIsBack
  BY <1>5 DEF QuotaRunsOut, QuotaIsBack, procVars, finVars, taskVars
<1>6. ASSUME NEW a \in Agents, Block(a) \/ Exit(a) \/ Timeout(a) \/ Expire(a)
      PROVE  RunsKept
  BY <1>6 DEF Block, Exit, Timeout, Expire, procVars, finVars, taskVars, TypeOK,
     AgentTypes
<1>7. CASE UNCHANGED vars BY <1>7 DEF vars
<1>8. QED BY <1>1, <1>2, <1>3, <1>4, <1>5, <1>6, <1>7 DEF Next

(* spawn_agent engages a fresh agent with a task no run is engaged with.   *)
LEMMA SpawnRuns ==
  ASSUME RunInv, NEW t \in Tasks, NEW a \in Agents, SpawnAgent(t, a), fin' = fin
  PROVE  (FinishClosed /\ RunsAreBusy /\ OneRunPerTask)'
<1>1. row[a] = "none" /\ fin[a] = "idle" /\ status[t] = "pending"
  BY DEF SpawnAgent, RunInv, FinishClosed
<1>2. /\ proc' = [proc EXCEPT ![a] = "running"]
      /\ row' = [row EXCEPT ![a] = "active"]
      /\ taskOf' = [taskOf EXCEPT ![a] = t]
      /\ status' = [status EXCEPT ![t] = "busy"]
  BY DEF SpawnAgent
<1>3. FinishClosed'
  BY <1>1, <1>2 DEF FinishClosed, RunInv, TypeOK, AgentTypes
<1>4. ASSUME NEW b \in Agents, Engaged(b)', b # a
      PROVE  Engaged(b) /\ taskOf'[b] = taskOf[b] /\ taskOf[b] # t
  <2>1. Engaged(b) /\ taskOf'[b] = taskOf[b]
    BY <1>2, <1>4 DEF Engaged, RunInv, TypeOK, AgentTypes
  <2>2. status[taskOf[b]] = "busy" BY <2>1 DEF RunInv, RunsAreBusy
  <2>3. QED BY <1>1, <2>1, <2>2
<1>5. RunsAreBusy'
  BY <1>2, <1>4, EngagedTask DEF RunsAreBusy, RunInv, TypeOK, AgentTypes, TaskTypes
<1>6. OneRunPerTask'
  BY <1>2, <1>4 DEF OneRunPerTask, RunInv, TypeOK, AgentTypes
<1>7. QED BY <1>3, <1>5, <1>6

(* Every step keeps what relates runs and tasks.                           *)
LEMMA RunStep ==
  ASSUME RunInv, [Next]_vars
  PROVE  (FinishClosed /\ RunsAreBusy /\ OneRunPerTask)'
<1> DEFINE Goal == (FinishClosed /\ RunsAreBusy /\ OneRunPerTask)'
<1> USE DEF RunInv
<1>1. CASE RunsKept
  BY <1>1 DEF RunsKept, FinishClosed, RunsAreBusy, OneRunPerTask, Engaged
<1>2. CASE MonSpawn
  <2>1. mon.task \in Tasks /\ fin' = fin
    BY <1>2 DEF MonSpawn, finVars, TypeOK, MonTypes
  <2>2. CASE SpawnRefused(mon.task)
    BY <2>1, <2>2 DEF SpawnRefused, procVars, taskVars, FinishClosed, RunsAreBusy,
       OneRunPerTask, Engaged
  <2>3. QED BY <1>2, <2>1, <2>2, SpawnRuns DEF MonSpawn
<1>3. CASE OpSpawn
  <2>1. op.task \in Tasks /\ fin' = fin
    BY <1>3 DEF OpSpawn, finVars, TypeOK, OpTypes
  <2>2. CASE SpawnRefused(op.task)
    BY <2>1, <2>2 DEF SpawnRefused, procVars, taskVars, FinishClosed, RunsAreBusy,
       OneRunPerTask, Engaged
  <2>3. QED BY <1>3, <2>1, <2>2, SpawnRuns DEF OpSpawn
<1>4. CASE Restart
  <2>1. /\ UNCHANGED taskOf
        /\ \A a \in Agents : /\ fin'[a] = (IF fin[a] = "idle" THEN "idle" ELSE "done")
                             /\ proc'[a] = "unborn" => proc[a] = "unborn"
    BY <1>4 DEF Restart
  <2>2. PICK old \in SUBSET {a \in Agents : row[a] = "active" /\ ~is_held(taskOf[a])} :
          /\ row' = [a \in Agents |-> IF a \in old THEN "closed" ELSE row[a]]
          /\ status' = [t \in Tasks |->
               IF status[t] = "busy"
                    /\ \A a \in Agents : taskOf[a] = t
                         => [b \in Agents |-> IF b \in old THEN "closed" ELSE row[b]][a]
                              # "active"
                 THEN "pending" ELSE status[t]]
    BY <1>4 DEF Restart
  <2>3. FinishClosed' BY <2>1, <2>2 DEF FinishClosed, TypeOK, AgentTypes
  <2>4. ASSUME NEW a \in Agents, Engaged(a)'
        PROVE  Engaged(a) /\ row'[a] = "active"
    BY <2>1, <2>2, <2>4 DEF Engaged
  <2>5. RunsAreBusy'
    <3> SUFFICES ASSUME NEW a \in Agents, Engaged(a)' PROVE status'[taskOf'[a]] = "busy"
      BY DEF RunsAreBusy
    <3>1. taskOf[a] \in Tasks /\ status[taskOf[a]] = "busy" /\ row'[a] = "active"
      BY <2>4, EngagedTask DEF RunsAreBusy
    <3>2. QED BY <3>1, <2>1, <2>2
  <2>6. OneRunPerTask' BY <2>1, <2>4 DEF OneRunPerTask
  <2>7. QED BY <2>3, <2>5, <2>6
<1>5. ASSUME NEW t \in Tasks, SpawnRoute(t) PROVE Goal
  <2>1. /\ status[t] # "busy" /\ status' = [status EXCEPT ![t] = "pending"]
        /\ UNCHANGED <<proc, row, taskOf, fin>>
    BY <1>5 DEF SpawnRoute, procVars, finVars
  <2>2. RunsAreBusy'
    BY <2>1, EngagedTask DEF RunsAreBusy, Engaged, TypeOK, TaskTypes
  <2>3. QED BY <2>1, <2>2 DEF FinishClosed, OneRunPerTask, Engaged
<1>6. ASSUME NEW a \in Agents, Finish(a) PROVE Goal
  <2>1. CASE FinishClose(a)
    BY <2>1 DEF FinishClose, taskVars, FinishClosed, RunsAreBusy, OneRunPerTask,
       Engaged, TypeOK, AgentTypes, FinTypes
  <2>2. CASE FinishRead(a) \/ FinishSignals(a)
    BY <2>2 DEF FinishRead, FinishSignals, procVars, taskVars, FinishClosed,
       RunsAreBusy, OneRunPerTask, Engaged, TypeOK, FinTypes
  <2>3. CASE FinishWrite(a)
    <3>1. /\ fin[a] = "write" /\ fin' = [fin EXCEPT ![a] = "signals"]
          /\ UNCHANGED <<proc, row, taskOf>>
      BY <2>3 DEF FinishWrite, procVars
    <3>2. \E s : status' = [status EXCEPT ![taskOf[a]] = s]
      BY <2>3 DEF FinishWrite
    <3>3. ASSUME NEW b \in Agents, Engaged(b)'
          PROVE  b # a /\ Engaged(b) /\ taskOf[b] # taskOf[a]
      <4>1. b # a /\ Engaged(b)
        BY <3>1, <3>3 DEF Engaged, FinishClosed, TypeOK, FinTypes
      <4>2. QED BY <4>1, <3>1 DEF OneRunPerTask, Engaged
    <3>4. FinishClosed' BY <3>1 DEF FinishClosed, TypeOK, FinTypes
    <3>5. RunsAreBusy'
      BY <3>1, <3>2, <3>3, EngagedTask DEF RunsAreBusy, TypeOK, TaskTypes
    <3>6. OneRunPerTask' BY <3>1, <3>3 DEF OneRunPerTask
    <3>7. QED BY <3>4, <3>5, <3>6
  <2>4. QED BY <1>6, <2>1, <2>2, <2>3 DEF Finish
<1>7. QED BY RunWriters, <1>1, <1>2, <1>3, <1>4, <1>5, <1>6

(* One spawner at a time: both look at the slots before they pick.         *)
LEMMA OneSpawnStep == ASSUME RunInv, [Next]_vars PROVE OneSpawn'
<1> USE DEF OneSpawn
<1>1. ASSUME mon'.pc = "spawn", mon.pc # "spawn"
      PROVE  MonSelect /\ op.pc # "spawn"
  <2>1. CASE Monitor
    <3> USE MonIdleType DEF MonRecords, RunInv, TypeOK, MonTypes
    <3>1. ~TickBegin BY <1>1 DEF TickBegin
    <3>2. ~TickEvaluate BY <1>1, ZenonT(60) DEF TickEvaluate
    <3>3. ASSUME NEW a \in Agents, TickFlag(a) PROVE FALSE
      BY <1>1, <3>3 DEF TickFlag
    <3>4. ASSUME NEW a \in Agents, FreezeSignal(a) PROVE FALSE
      BY <1>1, <3>4 DEF FreezeSignal
    <3>5. ~FreezeMark BY <1>1 DEF FreezeMark
    <3>6. ~TickSuspend BY <1>1 DEF TickSuspend
    <3>7. ~MonSpawn BY <1>1 DEF MonSpawn
    <3>8. MonSelect
      BY <2>1, <3>1, <3>2, <3>3, <3>4, <3>5, <3>6, <3>7 DEF Monitor
    <3>9. mon' # MonIdle BY <1>1
    <3>10. QED BY <3>8, <3>9 DEF MonSelect, SlotsFree
  <2>2. CASE Restart BY <1>1, <2>2, MonIdleType DEF Restart
  <2>3. CASE OpSteps \/ Request
    BY <1>1, <2>3 DEF OpSteps, AckSnapshot, AckConfig, OpSelect, OpSpawn, Thaw,
       Unmark, Request, AutoOn, AutoOff, SpawnRoute, Release, ChatAutoMode,
       threadVars
  <2>4. CASE QuotaWatcher \/ QuotaRunsOut \/ QuotaIsBack
    BY <1>1, <2>4 DEF QuotaWatcher, QuotaSuspend, QuotaResume, QuotaCollect,
       QuotaSignal, QuotaRunsOut, QuotaIsBack, threadVars
  <2>5. ASSUME NEW a \in Agents,
               Block(a) \/ Exit(a) \/ Timeout(a) \/ Finish(a) \/ Expire(a)
        PROVE  mon' = mon
    BY <2>5 DEF Block, Exit, Timeout, Finish, FinishClose, FinishRead,
       FinishWrite, FinishSignals, Expire, threadVars
  <2>6. CASE UNCHANGED vars BY <1>1, <2>6 DEF vars
  <2>7. QED BY <1>1, <2>1, <2>2, <2>3, <2>4, <2>5, <2>6 DEF Next
<1>2. ASSUME op'.pc = "spawn", op.pc # "spawn"
      PROVE  mon.pc # "spawn" /\ mon' = mon
  <2>1. CASE OpSteps
    <3> USE OpIdleType DEF OpRecords, RunInv, TypeOK, OpTypes
    <3>1. ~AckSnapshot BY <1>2 DEF AckSnapshot
    <3>2. ~AckConfig BY <1>2 DEF AckConfig
    <3>3. ~OpSpawn BY <1>2 DEF OpSpawn
    <3>4. ~Thaw BY <1>2 DEF Thaw
    <3>5. ~Unmark BY <1>2 DEF Unmark
    <3>6. OpSelect BY <2>1, <3>1, <3>2, <3>3, <3>4, <3>5 DEF OpSteps
    <3>7. op' # OpIdle BY <1>2
    <3>8. QED BY <3>6, <3>7 DEF OpSelect, SlotsFree
  <2>2. CASE Request
    <3> USE OpIdleType DEF OpRecords
    <3>1. ~AutoOn BY <1>2 DEF AutoOn
    <3>2. ~AutoOff BY <1>2 DEF AutoOff, threadVars
    <3>3. ASSUME NEW t \in Tasks, Release(t) PROVE FALSE
      BY <1>2, <3>3 DEF Release
    <3>4. ASSUME NEW on \in BOOLEAN, ChatAutoMode(on) PROVE FALSE
      BY <1>2, <3>4 DEF ChatAutoMode, threadVars
    <3>5. PICK t \in Tasks : SpawnRoute(t)
      BY <2>2, <3>1, <3>2, <3>3, <3>4 DEF Request
    <3>6. QED BY <3>5 DEF SpawnRoute, SlotsFree
  <2>3. CASE Restart BY <1>2, <2>3, OpIdleType DEF Restart
  <2>4. CASE Monitor
    BY <1>2, <2>4 DEF Monitor, TickBegin, TickEvaluate, TickFlag, FreezeSignal,
       FreezeMark, TickSuspend, MonSelect, MonSpawn
  <2>5. CASE QuotaWatcher \/ QuotaRunsOut \/ QuotaIsBack
    BY <1>2, <2>5 DEF QuotaWatcher, QuotaSuspend, QuotaResume, QuotaCollect,
       QuotaSignal, QuotaRunsOut, QuotaIsBack, threadVars
  <2>6. ASSUME NEW a \in Agents,
               Block(a) \/ Exit(a) \/ Timeout(a) \/ Finish(a) \/ Expire(a)
        PROVE  op' = op
    BY <2>6 DEF Block, Exit, Timeout, Finish, FinishClose, FinishRead,
       FinishWrite, FinishSignals, Expire, threadVars
  <2>7. CASE UNCHANGED vars BY <1>2, <2>7 DEF vars
  <2>8. QED BY <1>2, <2>1, <2>2, <2>3, <2>4, <2>5, <2>6, <2>7 DEF Next
<1>3. MonSelect => op' = op BY DEF MonSelect
<1>4. QED BY <1>1, <1>2, <1>3 DEF RunInv

(* Between the pick and the spawn nobody touches the task.                 *)
LEMMA PickedStep == ASSUME RunInv, [Next]_vars PROVE PickedIsFree'
<1> SUFFICES ASSUME mon'.pc = "spawn"
             PROVE  status'[mon'.task] = "pending" /\ ~meta'[mon'.task].held
  BY DEF PickedIsFree, is_held
<1>1. CASE MonSelect
  <2>1. PICK t \in Tasks : Selectable(t) /\ mon' = [MonIdle EXCEPT !.pc = "spawn", !.task = t]
    BY <1>1, MonIdleType DEF MonSelect
  <2>2. mon'.task = t BY <2>1, MonIdleType DEF MonRecords
  <2>3. QED BY <1>1, <2>1, <2>2 DEF MonSelect, Selectable, is_held, taskVars
<1>2. CASE ~MonSelect
  <2>1. mon' = mon /\ mon.pc = "spawn" /\ ~MonSpawn
    <3> USE MonIdleType DEF MonRecords, RunInv, TypeOK, MonTypes
    <3>1. CASE Monitor
      <4>1. ~TickBegin BY DEF TickBegin
      <4>2. ~TickEvaluate BY ZenonT(60) DEF TickEvaluate
      <4>3. ASSUME NEW a \in Agents, TickFlag(a) PROVE FALSE BY <4>3 DEF TickFlag
      <4>4. ASSUME NEW a \in Agents, FreezeSignal(a) PROVE FALSE
        BY <4>4 DEF FreezeSignal
      <4>5. ~FreezeMark BY DEF FreezeMark
      <4>6. ~TickSuspend BY DEF TickSuspend
      <4>7. ~MonSpawn BY DEF MonSpawn
      <4>8. QED
        BY <1>2, <3>1, <4>1, <4>2, <4>3, <4>4, <4>5, <4>6, <4>7 DEF Monitor
    <3>2. ~MonSpawn BY DEF MonSpawn
    <3>3. ~Restart BY DEF Restart
    <3>4. CASE OpSteps \/ Request
      BY <3>2, <3>4 DEF OpSteps, AckSnapshot, AckConfig, OpSelect, OpSpawn, Thaw,
         Unmark, Request, AutoOn, AutoOff, SpawnRoute, Release, ChatAutoMode,
         threadVars
    <3>5. CASE QuotaWatcher \/ QuotaRunsOut \/ QuotaIsBack
      BY <3>2, <3>5 DEF QuotaWatcher, QuotaSuspend, QuotaResume, QuotaCollect,
         QuotaSignal, QuotaRunsOut, QuotaIsBack, threadVars
    <3>6. ASSUME NEW a \in Agents,
                 Block(a) \/ Exit(a) \/ Timeout(a) \/ Finish(a) \/ Expire(a)
          PROVE  mon' = mon
      BY <3>6 DEF Block, Exit, Timeout, Finish, FinishClose, FinishRead,
         FinishWrite, FinishSignals, Expire, threadVars
    <3>7. CASE UNCHANGED vars BY <3>2, <3>7 DEF vars
    <3>8. QED BY <3>1, <3>2, <3>3, <3>4, <3>5, <3>6, <3>7 DEF Next
  <2>2. /\ mon.task \in Tasks /\ status[mon.task] = "pending"
        /\ ~meta[mon.task].held /\ op.pc # "spawn"
    BY <2>1 DEF RunInv, PickedIsFree, is_held, OneSpawn, TypeOK, MonTypes
  <2>3. status'[mon.task] = "pending"
    <3>1. ~Restart BY <2>1, MonIdleType DEF Restart
    <3>2. ~OpSpawn BY <2>2 DEF OpSpawn
    <3>3. ASSUME NEW t \in Tasks, SpawnRoute(t) PROVE FALSE
      BY <2>1, <3>3 DEF SpawnRoute, SlotsFree
    <3>4. ASSUME NEW a \in Agents, Finish(a) PROVE status'[mon.task] = "pending"
      <4>1. CASE FinishWrite(a)
        <5>1. Engaged(a) BY <4>1 DEF FinishWrite, Engaged
        <5>2. taskOf[a] # mon.task BY <5>1, <2>2 DEF RunInv, RunsAreBusy
        <5>3. \E s : status' = [status EXCEPT ![taskOf[a]] = s]
          BY <4>1 DEF FinishWrite
        <5>4. QED BY <2>2, <5>2, <5>3 DEF RunInv, TypeOK, TaskTypes
      <4>2. QED
        BY <3>4, <4>1, <2>2 DEF Finish, FinishClose, FinishRead, FinishSignals, taskVars
    <3>5. CASE RunsKept BY <3>5, <2>2 DEF RunsKept
    <3>6. QED BY <2>1, <3>1, <3>2, <3>3, <3>4, <3>5, RunWriters DEF RunInv
  <2>4. ~meta'[mon.task].held
    <3>1. ~Restart BY <2>1, MonIdleType DEF Restart
    <3>2. ASSUME NEW a \in Agents, TickFlag(a) PROVE FALSE
      BY <2>1, <3>2 DEF TickFlag
    <3>3. ASSUME NEW a \in Agents, FinishRead(a) PROVE meta' = meta
      BY <3>3 DEF FinishRead, taskVars
    <3>4. ASSUME NEW a \in Agents, FinishWrite(a) PROVE ~meta'[mon.task].held
      <4>1. Engaged(a) BY <3>4 DEF FinishWrite, Engaged
      <4>2. taskOf[a] # mon.task BY <4>1, <2>2 DEF RunInv, RunsAreBusy
      <4>3. meta' = meta \/ meta' = [meta EXCEPT ![taskOf[a]] = snap[a]]
        BY <3>4 DEF FinishWrite
      <4>4. QED BY <2>2, <4>2, <4>3 DEF RunInv, TypeOK, TaskTypes
    <3>5. ASSUME NEW t \in Tasks, Release(t) PROVE ~meta'[mon.task].held
      BY <2>2, <3>5 DEF Release, RunInv, TypeOK, TaskTypes, Hold
    <3>6. QED BY <2>2, <3>1, <3>2, <3>3, <3>4, <3>5, HoldWriters
  <2>5. QED BY <2>1, <2>3, <2>4
<1>3. QED BY <1>1, <1>2

(* The scheduler starts no held task: from the pick of a task to the spawn *)
(* of its agent no hold appears on it, not even one a finish thread brings *)
(* back (MonitorPicksNoHeld).                                              *)
THEOREM PicksNoHeldTask == Spec => []MonitorPicksNoHeld
<1>1. Init => RunInv
  <2> SUFFICES ASSUME Init PROVE RunInv OBVIOUS
  <2>1. FinishClosed /\ RunsAreBusy /\ OneRunPerTask
    BY DEF Init, FinishClosed, RunsAreBusy, OneRunPerTask, Engaged
  <2>2. OneSpawn /\ PickedIsFree
    BY MonIdleType DEF Init, OneSpawn, PickedIsFree
  <2>3. QED BY <2>1, <2>2, TypeInit DEF RunInv
<1>2. RunInv /\ [Next]_vars => RunInv'
  BY TypeStep, RunStep, OneSpawnStep, PickedStep DEF RunInv
<1>3. RunInv => MonitorPicksNoHeld
  BY DEF RunInv, PickedIsFree, MonitorPicksNoHeld
<1>4. QED BY <1>1, <1>2, <1>3, PTL DEF Spec
===============================================================================
