-------------------------- MODULE LifecycleProofs --------------------------
(***************************************************************************)
(* Theorems about Lifecycle: what is true of any number of components and  *)
(* requests, with any faults.                                              *)
(***************************************************************************)
EXTENDS Lifecycle, TLAPS

\* A step of one slot on one of its components.
CompStep(s, c) ==
  \/ Launch(s, c) \/ Acquire(s, c) \/ Launched(s, c) \/ Check(s, c)
  \/ Passed(s, c) \/ Retire(s, c) \/ Failed(s, c) \/ RestartDrop(s, c) \/ StopKill(s, c)

OpRecord == [kind : Kinds, comps : SUBSET Comps, pc : Points,
             row : {"fresh", "claimed"}]

LEMMA SlotFacts == Callers \subseteq Slots /\ Dog \in Slots
BY DEF Slots

-----------------------------------------------------------------------------
(* The pieces that the actions share keep the shape of what they write.      *)
LEMMA DoingType ==
  ASSUME NEW kind \in Kinds, NEW D \in SUBSET Comps, NEW pc \in Points
  PROVE  Doing(kind, D, pc) \in OpRecord
BY DEF Doing, OpRecord

LEMMA IdleType == Idle \in OpRecord
BY DoingType DEF Idle, Kinds, Points

LEMMA OpType ==
  ASSUME TypeOK, NEW s \in Slots
  PROVE  op \in [Slots -> OpRecord] /\ op[s] \in OpRecord /\ op[s].comps \in SUBSET Comps
BY DEF TypeOK, OpRecord

LEMMA GotoType ==
  ASSUME TypeOK, NEW s \in Slots, NEW pc \in Points, Goto(s, pc)
  PROVE  op' \in [Slots -> OpRecord]
BY OpType DEF Goto, OpRecord

LEMMA SetAtType ==
  ASSUME TypeOK, NEW s \in Slots, NEW c \in Comps, NEW phase \in Phases, SetAt(s, c, phase)
  PROVE  at' \in [Slots -> [Comps -> Phases]]
<1>1. at[s] \in [Comps -> Phases]
  BY DEF TypeOK
<1>2. [at[s] EXCEPT ![c] = phase] \in [Comps -> Phases]
  BY <1>1
<1> QED  BY <1>2 DEF SetAt, TypeOK

LEMMA SetAllType ==
  ASSUME TypeOK, NEW s \in Slots, NEW phase \in Phases, SetAll(s, phase)
  PROVE  at' \in [Slots -> [Comps -> Phases]]
<1> DEFINE f == [c \in Comps |-> IF c \in op[s].comps THEN phase ELSE "none"]
<1>1. f \in [Comps -> Phases]
  BY DEF Phases
<1>2. at' = [at EXCEPT ![s] = f]
  BY DEF SetAll
<1> HIDE DEF f
<1> QED  BY <1>1, <1>2 DEF TypeOK

LEMMA SetStatusType ==
  ASSUME TypeOK, NEW D, NEW K, NEW status \in Statuses, SetStatus(D, K, status)
  PROVE  st' \in [Comps -> [Colours -> Statuses]]
BY DEF SetStatus, TypeOK

LEMMA MarkTargetsType ==
  ASSUME TypeOK, NEW s \in Slots, NEW D, MarkTargets(s, D)
  PROVE  st' \in [Comps -> [Colours -> Statuses]]
<1>1. ASSUME NEW c \in Comps
      PROVE  [st[c] EXCEPT ![to[s][c]] = "starting"] \in [Colours -> Statuses]
  <2>1. st[c] \in [Colours -> Statuses]
    BY DEF TypeOK
  <2> QED  BY <2>1 DEF Statuses, InProgress
<1> QED  BY <1>1 DEF MarkTargets, TypeOK

LEMMA DeleteProcessType ==
  ASSUME TypeOK, NEW D, NEW K, DeleteProcess(D, K)
  PROVE  proc' \in [Comps -> SUBSET Colours]
BY DEF DeleteProcess, TypeOK

LEMMA EventType == ASSUME TypeOK, Event PROVE events' \in 0 .. EventCap
BY LifecycleAssumption DEF Event, TypeOK

LEMMA FaultType == ASSUME TypeOK, Fault PROVE events' \in 0 .. EventCap
BY EventType DEF Fault

Written == st' \in [Comps -> [Colours -> Statuses]] /\ events' \in 0 .. EventCap

LEMMA RefusedType ==
  ASSUME TypeOK, NEW D, NEW K, NEW status \in Statuses, Refused(D, K, status)
  PROVE  Written
<1>1. PICK E \in SUBSET D : SetStatus(E, K, status)
  BY DEF Refused
<1> QED  BY <1>1, SetStatusType, FaultType DEF Refused, Written

LEMMA WriteStatusType ==
  ASSUME TypeOK, NEW D, NEW K, NEW status \in Statuses, WriteStatus(D, K, status)
  PROVE  Written
<1>1. CASE SetStatus(D, K, status) /\ UNCHANGED events
  BY <1>1, SetStatusType DEF Written, TypeOK
<1>2. CASE Refused(D, K, status)
  BY <1>2, RefusedType
<1> QED  BY <1>1, <1>2 DEF WriteStatus

Histories == kept' \in [Comps -> BOOLEAN] /\ muddled' \in [Comps -> BOOLEAN]

LEMMA BeginType ==
  ASSUME TypeOK, NEW s, NEW D, NEW keeps, Begin(s, D, keeps) PROVE Histories
BY DEF Begin, Histories, TypeOK

LEMMA MuddleType == ASSUME TypeOK, NEW D, Muddle(D) PROVE Histories
BY DEF Muddle, Histories, TypeOK

LEMMA RestType == ASSUME TypeOK, NEW D, Rest(D) PROVE Histories
BY DEF Rest, Histories, TypeOK

Freed ==
  /\ op' \in [Slots -> OpRecord] /\ at' \in [Slots -> [Comps -> Phases]]
  /\ to' \in [Slots -> [Comps -> Colours]]
  /\ queue' \in SUBSET Comps /\ pending' \in SUBSET Comps
  /\ snap' \in [Comps -> Verdicts] /\ since' \in [Comps -> 0 .. 4]

LEMMA NowhereType == Nowhere \in [Comps -> Phases]
BY DEF Nowhere, Phases

LEMMA LeaveType == ASSUME TypeOK, NEW s \in Slots, Leave(s) PROVE Freed
<1>1. op' \in [Slots -> OpRecord]
  BY OpType, IdleType DEF Leave
<1>2. at' \in [Slots -> [Comps -> Phases]]
  BY NowhereType DEF Leave, TypeOK
<1>3. to' \in [Slots -> [Comps -> Colours]]
  BY DEF Leave, TypeOK, Colours
<1>4. since' \in [Comps -> 0 .. 4]
  BY DEF Leave, TypeOK
<1> QED  BY <1>1, <1>2, <1>3, <1>4 DEF Leave, Freed, TypeOK

LEMMA ThrowType == ASSUME TypeOK, NEW s \in Slots, Throw(s) PROVE Freed /\ Histories
<1> DEFINE failed == {c \in Comps : \E k \in Colours : st[c][k] = "error"}
<1>1. Doing("retry", failed, "clear") \in OpRecord
  BY DoingType DEF Kinds, Points
<1>2. CASE s = Dog /\ op[s].kind = "start" /\ failed # {}
  <2>1. /\ op' = [op EXCEPT ![s] = Doing("retry", failed, "clear")]
        /\ at' = [at EXCEPT ![s] = Nowhere]
        /\ Begin(s, failed, FALSE) /\ UNCHANGED <<to, watch>>
    BY <1>2 DEF Throw
  <2> HIDE DEF failed
  <2>2. op' \in [Slots -> OpRecord]
    BY <1>1, <2>1, OpType
  <2> QED  BY <2>1, <2>2, BeginType, NowhereType DEF Freed, TypeOK, watch
<1>3. CASE ~(s = Dog /\ op[s].kind = "start" /\ failed # {})
  <2>1. Leave(s) /\ Rest(op[s].comps)
    BY <1>3 DEF Throw
  <2> QED  BY <2>1, LeaveType, RestType
<1> QED  BY <1>2, <1>3

-----------------------------------------------------------------------------
(* Each action keeps the type.                                              *)
LEMMA CallType ==
  ASSUME TypeOK, NEW s \in Callers, NEW kind \in Kinds \ {"none", "retry"},
         NEW D \in SUBSET Comps, Call(s, kind, D)
  PROVE  TypeOK'
<1> DEFINE pc == CASE kind = "start" -> "clear" [] kind = "restart" -> "queued"
                   [] OTHER -> "mark"
<1>1. Doing(kind, D, pc) \in OpRecord
  <2>1. pc \in Points
    BY DEF Points
  <2> HIDE DEF pc
  <2> QED  BY <2>1, DoingType
<1>2. op' = [op EXCEPT ![s] = Doing(kind, D, pc)]
  BY DEF Call
<1>3. op' \in [Slots -> OpRecord]
  <2> HIDE DEF pc
  <2> QED  BY <1>1, <1>2, OpType, SlotFacts
<1>4. Histories
  BY BeginType DEF Call, history, Histories, TypeOK
<1>5. events' \in 0 .. EventCap
  BY EventType DEF Call
<1> QED  BY <1>3, <1>4, <1>5 DEF Call, Histories, watch, TypeOK, OpRecord

LEMMA StartClearType == ASSUME TypeOK, NEW s \in Slots, StartClear(s) PROVE TypeOK'
<1>1. op' \in [Slots -> OpRecord]
  BY GotoType DEF StartClear, Points
<1>2. proc' \in [Comps -> SUBSET Colours]
  BY DeleteProcessType DEF StartClear, TypeOK
<1>3. Histories
  BY MuddleType DEF StartClear, Histories, history, TypeOK
<1>4. events' \in 0 .. EventCap
  BY FaultType DEF StartClear, TypeOK
<1> QED  BY <1>1, <1>2, <1>3, <1>4 DEF StartClear, Histories, watch, TypeOK, OpRecord

LEMMA StartGreenType == ASSUME TypeOK, NEW s \in Slots, StartGreen(s) PROVE TypeOK'
<1>1. op' \in [Slots -> OpRecord]
  BY GotoType DEF StartGreen, Points
<1>2. Written
  BY WriteStatusType DEF StartGreen, Statuses
<1> QED  BY <1>1, <1>2 DEF StartGreen, Written, watch, history, TypeOK, OpRecord

LEMMA StartMarkType == ASSUME TypeOK, NEW s \in Slots, StartMark(s) PROVE TypeOK'
<1>1. op' \in [Slots -> OpRecord]
  BY GotoType DEF StartMark, Points
<1>2. st' \in [Comps -> [Colours -> Statuses]]
  BY SetStatusType DEF StartMark, Statuses, InProgress
<1>3. at' \in [Slots -> [Comps -> Phases]]
  BY SetAllType DEF StartMark, Phases
<1> QED  BY <1>1, <1>2, <1>3 DEF StartMark, watch, history, TypeOK, OpRecord

LEMMA StartThrowsType == ASSUME TypeOK, NEW s \in Slots, StartThrows(s) PROVE TypeOK'
<1>1. op' \in [Slots -> OpRecord]
  BY GotoType DEF StartThrows, Points
<1>2. Written
  <2>1. CASE Refused(op[s].comps, {"blue"}, "starting")
    BY <2>1, RefusedType DEF Statuses, InProgress
  <2>2. CASE Fault /\ UNCHANGED st
    BY <2>2, FaultType DEF Written, TypeOK
  <2> QED  BY <2>1, <2>2 DEF StartThrows
<1> QED  BY <1>1, <1>2 DEF StartThrows, Written, watch, history, TypeOK, OpRecord

LEMMA RestartChooseType == ASSUME TypeOK, NEW s \in Slots, RestartChoose(s) PROVE TypeOK'
<1>1. op' \in [Slots -> OpRecord]
  BY GotoType DEF RestartChoose, Points
<1>2. to' \in [Slots -> [Comps -> Colours]]
  BY DEF RestartChoose, TypeOK, Colours
<1>3. Histories
  BY BeginType DEF RestartChoose
<1> QED  BY <1>1, <1>2, <1>3 DEF RestartChoose, Histories, watch, TypeOK, OpRecord

LEMMA RestartMarkType == ASSUME TypeOK, NEW s \in Slots, RestartMark(s) PROVE TypeOK'
<1>1. op' \in [Slots -> OpRecord]
  BY GotoType DEF RestartMark, Points
<1>2. st' \in [Comps -> [Colours -> Statuses]]
  BY MarkTargetsType DEF RestartMark
<1>3. at' \in [Slots -> [Comps -> Phases]]
  BY SetAllType DEF RestartMark, Phases
<1> QED  BY <1>1, <1>2, <1>3 DEF RestartMark, watch, history, TypeOK, OpRecord

LEMMA RestartThrowsType == ASSUME TypeOK, NEW s \in Slots, RestartThrows(s) PROVE TypeOK'
<1>1. st' \in [Comps -> [Colours -> Statuses]]
  BY MarkTargetsType DEF RestartThrows
<1>2. events' \in 0 .. EventCap
  BY FaultType DEF RestartThrows
<1>3. Freed
  BY LeaveType DEF RestartThrows
<1> QED  BY <1>1, <1>2, <1>3 DEF RestartThrows, Freed, history, TypeOK, OpRecord

LEMMA LaunchType ==
  ASSUME TypeOK, NEW s \in Slots, NEW c \in Comps, Launch(s, c) PROVE TypeOK'
<1>1. at' \in [Slots -> [Comps -> Phases]]
  <2>1. PICK next \in {"acquire", "check"} : SetAt(s, c, next)
    BY DEF Launch
  <2> QED  BY <2>1, SetAtType DEF Phases
<1> QED  BY <1>1 DEF Launch, watch, history, TypeOK, OpRecord

LEMMA AcquireType ==
  ASSUME TypeOK, NEW s \in Slots, NEW c \in Comps, Acquire(s, c) PROVE TypeOK'
<1>1. at' \in [Slots -> [Comps -> Phases]]
  BY SetAtType DEF Acquire, Phases
<1>2. lock' \in [Comps -> Slots \cup {None}]
  BY DEF Acquire, TypeOK
<1> QED  BY <1>1, <1>2 DEF Acquire, watch, history, TypeOK, OpRecord

LEMMA LaunchedType ==
  ASSUME TypeOK, NEW s \in Slots, NEW c \in Comps, Launched(s, c) PROVE TypeOK'
<1>1. at' \in [Slots -> [Comps -> Phases]]
  BY SetAtType DEF Launched, Phases
<1>2. lock' \in [Comps -> Slots \cup {None}]
  BY DEF Launched, TypeOK
<1>3. proc' \in [Comps -> SUBSET Colours]
  <2>1. proc[c] \cup {to[s][c]} \in SUBSET Colours
    BY DEF TypeOK
  <2> QED  BY <2>1 DEF Launched, TypeOK
<1>4. events' \in 0 .. EventCap
  BY FaultType DEF Launched, TypeOK
<1> QED  BY <1>1, <1>2, <1>3, <1>4 DEF Launched, watch, history, TypeOK, OpRecord

LEMMA CheckType ==
  ASSUME TypeOK, NEW s \in Slots, NEW c \in Comps, Check(s, c) PROVE TypeOK'
<1>1. at' \in [Slots -> [Comps -> Phases]]
  BY SetAtType DEF Check, Phases
<1>2. events' \in 0 .. EventCap
  BY FaultType DEF Check, TypeOK
<1> QED  BY <1>1, <1>2 DEF Check, watch, history, TypeOK, OpRecord

LEMMA WriteType ==
  ASSUME TypeOK, NEW c \in Comps, NEW result \in Results, Write(c, result)
  PROVE  writes' \in [Comps -> SUBSET Results]
<1>1. writes[c] \cup {result} \in SUBSET Results
  BY DEF TypeOK
<1> QED  BY <1>1 DEF Write, TypeOK

LEMMA PassedType ==
  ASSUME TypeOK, NEW s \in Slots, NEW c \in Comps, Passed(s, c) PROVE TypeOK'
<1>1. at' \in [Slots -> [Comps -> Phases]]
  <2>1. PICK next \in {"done", "switch"} : SetAt(s, c, next)
    BY DEF Passed
  <2> QED  BY <2>1, SetAtType DEF Phases
<1>2. CASE IsStart(s) /\ Write(c, "running") /\ UNCHANGED <<st, events, history>>
  <2>1. writes' \in [Comps -> SUBSET Results]
    BY <1>2, WriteType DEF Results
  <2> QED  BY <1>1, <1>2, <2>1 DEF Passed, watch, history, TypeOK, OpRecord
<1>3. CASE /\ st' = [st EXCEPT ![c] = SwitchTo(c, to[s][c])] /\ UNCHANGED writes
           /\ UNCHANGED <<events, history>>
  <2>1. SwitchTo(c, to[s][c]) \in [Colours -> Statuses]
    <3>1. st[c] \in [Colours -> Statuses]
      BY DEF TypeOK
    <3> QED  BY <3>1 DEF SwitchTo, Statuses
  <2>2. st' \in [Comps -> [Colours -> Statuses]]
    BY <1>3, <2>1 DEF TypeOK
  <2> QED  BY <1>1, <1>3, <2>2 DEF Passed, watch, history, TypeOK, OpRecord
<1>4. CASE /\ Fault /\ kept' = [kept EXCEPT ![c] = FALSE] /\ UNCHANGED <<st, muddled>>
           /\ UNCHANGED writes
  <2>1. kept' \in [Comps -> BOOLEAN]
    BY <1>4, Zenon DEF TypeOK
  <2>2. events' \in 0 .. EventCap
    BY <1>4, FaultType
  <2> QED  BY <1>1, <1>4, <2>1, <2>2 DEF Passed, watch, TypeOK, OpRecord
<1> QED  BY <1>2, <1>3, <1>4 DEF Passed

LEMMA RetireType ==
  ASSUME TypeOK, NEW s \in Slots, NEW c \in Comps, Retire(s, c) PROVE TypeOK'
<1>1. at' \in [Slots -> [Comps -> Phases]]
  BY SetAtType DEF Retire, Phases
<1>2. proc' \in [Comps -> SUBSET Colours]
  BY DeleteProcessType DEF Retire, TypeOK
<1>3. Histories
  BY MuddleType DEF Retire, Histories, history, TypeOK
<1>4. events' \in 0 .. EventCap
  BY FaultType DEF Retire, TypeOK
<1> QED  BY <1>1, <1>2, <1>3, <1>4 DEF Retire, Histories, watch, TypeOK, OpRecord

LEMMA FailedType ==
  ASSUME TypeOK, NEW s \in Slots, NEW c \in Comps, Failed(s, c) PROVE TypeOK'
<1>1. at' \in [Slots -> [Comps -> Phases]]
  BY SetAtType DEF Failed, Phases
<1>2. CASE IsStart(s) /\ Write(c, "error") /\ UNCHANGED <<st, events>>
  <2>1. writes' \in [Comps -> SUBSET Results]
    BY <1>2, WriteType DEF Results
  <2> QED  BY <1>1, <1>2, <2>1 DEF Failed, watch, history, TypeOK, OpRecord
<1>3. CASE WriteStatus({c}, {to[s][c]}, "error") /\ UNCHANGED writes
  <2>1. Written
    BY <1>3, WriteStatusType DEF Statuses
  <2> QED  BY <1>1, <1>3, <2>1 DEF Failed, Written, watch, history, TypeOK, OpRecord
<1> QED  BY <1>2, <1>3 DEF Failed

LEMMA LandType ==
  ASSUME TypeOK, NEW c \in Comps, NEW result \in Results, Land(c, result)
  PROVE  TypeOK'
<1>1. writes' \in [Comps -> SUBSET Results]
  <2>1. writes[c] \ {result} \in SUBSET Results
    BY DEF TypeOK
  <2> QED  BY <2>1 DEF Land, TypeOK
<1>2. Written
  BY WriteStatusType DEF Land, Results, Statuses
<1>3. Histories
  BY RestType DEF Land
<1> QED  BY <1>1, <1>2, <1>3 DEF Land, Written, Histories, watch, TypeOK, OpRecord

LEMMA RestartDropType ==
  ASSUME TypeOK, NEW s \in Slots, NEW c \in Comps, RestartDrop(s, c) PROVE TypeOK'
<1>1. at' \in [Slots -> [Comps -> Phases]]
  BY SetAtType DEF RestartDrop, Phases
<1>2. proc' \in [Comps -> SUBSET Colours]
  BY DeleteProcessType DEF RestartDrop, TypeOK
<1>3. Histories
  BY MuddleType DEF RestartDrop, Histories, history, TypeOK
<1>4. events' \in 0 .. EventCap
  BY FaultType DEF RestartDrop, TypeOK
<1> QED  BY <1>1, <1>2, <1>3, <1>4 DEF RestartDrop, Histories, watch, TypeOK, OpRecord

LEMMA StopKillType ==
  ASSUME TypeOK, NEW s \in Slots, NEW c \in Comps, StopKill(s, c) PROVE TypeOK'
<1>1. at' \in [Slots -> [Comps -> Phases]]
  BY SetAtType DEF StopKill, Phases
<1>2. proc' \in [Comps -> SUBSET Colours]
  BY DeleteProcessType DEF StopKill, TypeOK
<1>3. Histories
  BY MuddleType DEF StopKill, Histories, history, TypeOK
<1>4. events' \in 0 .. EventCap
  BY FaultType DEF StopKill, TypeOK
<1> QED  BY <1>1, <1>2, <1>3, <1>4 DEF StopKill, Histories, watch, TypeOK, OpRecord

LEMMA RestartEndType == ASSUME TypeOK, NEW s \in Slots, RestartEnd(s) PROVE TypeOK'
<1>1. Freed /\ Histories
  BY LeaveType, RestType DEF RestartEnd
<1> QED  BY <1>1 DEF RestartEnd, Freed, Histories, TypeOK, OpRecord

LEMMA StartEndType == ASSUME TypeOK, NEW s \in Slots, StartEnd(s) PROVE TypeOK'
<1>1. Freed /\ Histories
  BY LeaveType, RestType DEF StartEnd
<1>2. proc' \in [Comps -> SUBSET Colours]
  BY DeleteProcessType DEF StartEnd
<1> QED  BY <1>1, <1>2 DEF StartEnd, Freed, Histories, TypeOK, OpRecord

LEMMA StartEndFailsType == ASSUME TypeOK, NEW s \in Slots, StartEndFails(s) PROVE TypeOK'
<1>1. op' \in [Slots -> OpRecord]
  BY GotoType DEF StartEndFails, Points
<1>2. Histories
  BY MuddleType DEF StartEndFails
<1>3. events' \in 0 .. EventCap
  BY FaultType DEF StartEndFails
<1> QED  BY <1>1, <1>2, <1>3 DEF StartEndFails, Histories, watch, TypeOK, OpRecord

LEMMA StartEndThrowsType == ASSUME TypeOK, NEW s \in Slots, StartEndThrows(s) PROVE TypeOK'
<1>1. Freed /\ Histories
  BY ThrowType DEF StartEndThrows
<1> QED  BY <1>1 DEF StartEndThrows, Freed, Histories, TypeOK, OpRecord

LEMMA StopMarkType == ASSUME TypeOK, NEW s \in Slots, StopMark(s) PROVE TypeOK'
<1>1. op' \in [Slots -> OpRecord]
  BY GotoType DEF StopMark, Points
<1>2. st' \in [Comps -> [Colours -> Statuses]]
  BY SetStatusType DEF StopMark, Statuses, InProgress
<1>3. at' \in [Slots -> [Comps -> Phases]]
  BY SetAllType DEF StopMark, Phases
<1> QED  BY <1>1, <1>2, <1>3 DEF StopMark, watch, history, TypeOK, OpRecord

LEMMA StopThrowsType == ASSUME TypeOK, NEW s \in Slots, StopThrows(s) PROVE TypeOK'
<1>1. Freed /\ Histories
  BY LeaveType, RestType DEF StopThrows
<1>2. Written
  BY RefusedType DEF StopThrows, Statuses, InProgress
<1> QED  BY <1>1, <1>2 DEF StopThrows, Freed, Histories, Written, TypeOK, OpRecord

LEMMA StopEndType == ASSUME TypeOK, NEW s \in Slots, StopEnd(s) PROVE TypeOK'
<1>1. Freed /\ Histories
  BY LeaveType, RestType DEF StopEnd
<1>2. Written
  <2>1. PICK status \in {"error", "stopped"} : WriteStatus(op[s].comps, Colours, status)
    BY DEF StopEnd
  <2> QED  BY <2>1, WriteStatusType DEF Statuses
<1> QED  BY <1>1, <1>2 DEF StopEnd, Freed, Histories, Written, TypeOK, OpRecord

LEMMA ReloadType == ASSUME TypeOK, NEW s \in Slots, Reload(s) PROVE TypeOK'
<1>1. op' \in [Slots -> OpRecord]
  BY GotoType DEF Reload, Points
<1> QED  BY <1>1 DEF Reload, watch, history, TypeOK, OpRecord

LEMMA ReloadThrowsType == ASSUME TypeOK, NEW s \in Slots, ReloadThrows(s) PROVE TypeOK'
<1>1. Freed /\ Histories
  BY LeaveType, RestType DEF ReloadThrows
<1> QED  BY <1>1 DEF ReloadThrows, Freed, Histories, TypeOK, OpRecord

LEMMA ReloadedType == ASSUME TypeOK, NEW s \in Slots, Reloaded(s) PROVE TypeOK'
<1>1. Freed /\ Histories
  BY LeaveType, RestType DEF Reloaded
<1>2. Written
  BY WriteStatusType DEF Reloaded, Statuses
<1> QED  BY <1>1, <1>2 DEF Reloaded, Freed, Histories, Written, TypeOK, OpRecord

LEMMA VerdictType == ASSUME TypeOK, NEW c \in Comps PROVE Verdict(c) \in Verdicts
BY DEF TypeOK, Verdict, Verdicts, Patience, Colours, InProgress, Routed

LEMMA GetRunningType == ASSUME TypeOK, GetRunning PROVE TypeOK'
<1>1. snap' \in [Comps -> Verdicts]
  BY VerdictType DEF GetRunning
<1>2. since' \in [Comps -> 0 .. 4]
  BY DEF GetRunning, TypeOK
<1> QED  BY <1>1, <1>2 DEF GetRunning, work, history, TypeOK, OpRecord

LEMMA PatienceType == \A v \in DOMAIN Patience : Patience[v] \in 0 .. 4
BY DEF Patience

LEMMA UnreadType == Unread \in [Comps -> Verdicts]
BY DEF Unread, Verdicts

LEMMA GetFakeType == ASSUME TypeOK, GetFake PROVE TypeOK'
<1>1. since' \in [Comps -> 0 .. 4]
  <2>1. ASSUME NEW c \in Comps, snap[c] \in DOMAIN Patience, since[c] < Patience[snap[c]]
        PROVE  since[c] + 1 \in 0 .. 4
    <3>1. Patience[snap[c]] \in 0 .. 4 /\ since[c] \in 0 .. 4
      BY <2>1, PatienceType DEF TypeOK
    <3> QED  BY <2>1, <3>1
  <2> QED  BY <2>1 DEF GetFake, TypeOK
<1>2. queue' \in SUBSET Comps
  <2> DEFINE F == {c \in Comps : Fake(c)}
  <2>1. AddToQueue(F) /\ F \in SUBSET Comps
    BY DEF GetFake
  <2> HIDE DEF F
  <2> QED  BY <2>1 DEF AddToQueue, TypeOK
<1>3. snap' \in [Comps -> Verdicts]
  BY UnreadType DEF GetFake
<1> QED  BY <1>1, <1>2, <1>3 DEF GetFake, work, history, TypeOK, OpRecord

LEMMA TakeEntryType == ASSUME TypeOK, TakeEntry PROVE TypeOK'
<1>1. Doing("start", queue, "clear") \in OpRecord
  BY DoingType DEF TypeOK, Kinds, Points
<1>2. op' \in [Slots -> OpRecord]
  BY <1>1, OpType, SlotFacts DEF TakeEntry
<1>3. Histories
  BY BeginType DEF TakeEntry
<1> QED  BY <1>2, <1>3 DEF TakeEntry, Histories, TypeOK, OpRecord

LEMMA ProcessDiesType ==
  ASSUME TypeOK, NEW c \in Comps, NEW k \in Colours, ProcessDies(c, k)
  PROVE  TypeOK'
<1>1. proc' \in [Comps -> SUBSET Colours]
  BY DEF ProcessDies, TypeOK
<1>2. kept' \in [Comps -> BOOLEAN]
  BY Zenon DEF ProcessDies, TypeOK
<1>3. events' \in 0 .. EventCap
  BY FaultType DEF ProcessDies
<1> QED  BY <1>1, <1>2, <1>3 DEF ProcessDies, work, watch, TypeOK, OpRecord

LEMMA DaemonDiesType == ASSUME TypeOK, DaemonDies PROVE TypeOK'
<1>1. op' \in [Slots -> OpRecord]
  <2>1. PICK over \in SUBSET Slots :
          op' = [s \in Slots |->
                  IF op[s].kind # "restart" THEN Idle
                  ELSE [op[s] EXCEPT !.pc = IF s \in over THEN "parked" ELSE "queued",
                                     !.row = "claimed"]]
    BY DEF DaemonDies
  <2>2. ASSUME NEW s \in Slots, NEW pc \in {"parked", "queued"}
        PROVE  [op[s] EXCEPT !.pc = pc, !.row = "claimed"] \in OpRecord
    BY OpType DEF OpRecord, Points
  <2> QED  BY <2>1, <2>2, IdleType
<1>2. muddled' \in [Comps -> BOOLEAN]
  BY DEF DaemonDies
<1>3. /\ at' \in [Slots -> [Comps -> Phases]]
      /\ to' \in [Slots -> [Comps -> Colours]]
      /\ snap' \in [Comps -> Verdicts]
  BY NowhereType, UnreadType DEF DaemonDies, Colours
<1>4. events' \in 0 .. EventCap
  BY FaultType DEF DaemonDies
<1>5. since' \in [Comps -> 0 .. 4]
  <2>1. since' = [c \in Comps |-> 0]
    BY Zenon DEF DaemonDies
  <2> QED  BY <2>1
<1>6. writes' \in [Comps -> SUBSET Results] /\ lock' \in [Comps -> Slots \cup {None}]
  BY DEF DaemonDies
<1> QED  BY <1>1, <1>2, <1>3, <1>4, <1>5, <1>6 DEF DaemonDies, TypeOK, OpRecord

LEMMA InitType == Init => TypeOK
<1> SUFFICES ASSUME Init PROVE TypeOK
  OBVIOUS
<1>1. /\ [blue |-> "running", green |-> "stopped"] \in [Colours -> Statuses]
      /\ [blue |-> "stopped", green |-> "running"] \in [Colours -> Statuses]
      /\ [blue |-> "stopped", green |-> "stopped"] \in [Colours -> Statuses]
  BY DEF Colours, Statuses
<1>2. st \in [Comps -> [Colours -> Statuses]]
  BY <1>1 DEF Init
<1>3. op \in [Slots -> OpRecord]
  BY IdleType DEF Init
<1>4. /\ at \in [Slots -> [Comps -> Phases]]
      /\ to \in [Slots -> [Comps -> Colours]]
      /\ snap \in [Comps -> Verdicts]
  BY NowhereType, UnreadType DEF Init, Colours
<1>5. /\ proc \in [Comps -> SUBSET Colours] /\ lock \in [Comps -> Slots \cup {None}]
      /\ writes \in [Comps -> SUBSET Results]
  BY DEF Init
<1>6. kept \in [Comps -> BOOLEAN] /\ muddled \in [Comps -> BOOLEAN]
  BY DEF Init, Runs
<1>7. /\ since \in [Comps -> 0 .. 4]
      /\ events \in 0 .. EventCap
  BY LifecycleAssumption DEF Init
<1> QED  BY <1>2, <1>3, <1>4, <1>5, <1>6, <1>7 DEF Init, TypeOK, OpRecord

LEMMA StutterType == ASSUME TypeOK, UNCHANGED vars PROVE TypeOK'
BY DEF TypeOK, vars

LEMMA CompStepType ==
  ASSUME TypeOK, NEW s \in Slots, NEW c \in Comps, CompStep(s, c)
  PROVE  TypeOK'
BY LaunchType, AcquireType, LaunchedType, CheckType, PassedType, RetireType, FailedType,
   RestartDropType, StopKillType DEF CompStep

LEMMA SlotStepType == ASSUME TypeOK, NEW s \in Slots, SlotStep(s) PROVE TypeOK'
<1>1. CASE \E c \in Comps : CompStep(s, c)
  BY <1>1, CompStepType
<1>2. CASE ~ \E c \in Comps : CompStep(s, c)
  BY <1>2, StartClearType, StartGreenType, StartMarkType, StartThrowsType,
     RestartChooseType, RestartMarkType, RestartThrowsType, RestartEndType,
     StartEndType, StartEndFailsType, StartEndThrowsType, StopMarkType,
     StopThrowsType, StopEndType, ReloadType, ReloadThrowsType, ReloadedType
  DEF SlotStep, CompStep
<1> QED  BY <1>1, <1>2

(* Whatever the components and the requests, the state keeps its shape: a    *)
(* slot is at a point of its handler and at a phase with each component, and *)
(* a patience counter is at most the longest patience.                       *)
THEOREM LifecycleTypeCorrect == Spec => []TypeOK
<1>1. TypeOK /\ [Next]_vars => TypeOK'
  <2> SUFFICES ASSUME TypeOK, [Next]_vars PROVE TypeOK'
    OBVIOUS
  <2>1. CASE Next
    <3>1. ASSUME NEW s \in Callers, NEW kind \in Kinds \ {"none", "retry"},
                 NEW D \in SUBSET Comps, Call(s, kind, D)
          PROVE  TypeOK'
      BY <3>1, CallType
    <3>2. ASSUME NEW s \in Slots, SlotStep(s) PROVE TypeOK'
      BY <3>2, SlotStepType
    <3>3. ASSUME NEW c \in Comps, NEW k \in Colours, ProcessDies(c, k) PROVE TypeOK'
      BY <3>3, ProcessDiesType
    <3>4. CASE WatchStep \/ TakeEntry \/ DaemonDies
      BY <3>4, GetRunningType, GetFakeType, TakeEntryType, DaemonDiesType DEF WatchStep
    <3>5. CASE LandStep
      BY <3>5, LandType DEF LandStep
    <3> QED  BY <2>1, <3>1, <3>2, <3>3, <3>4, <3>5 DEF Next
  <2>2. CASE UNCHANGED vars
    BY <2>2, StutterType
  <2> QED  BY <2>1, <2>2
<1> QED  BY InitType, <1>1, PTL DEF Spec

-----------------------------------------------------------------------------
(* Zero downtime.  What makes it inductive: a component that is kept is      *)
(* served, no status of an earlier start is on its way, and whoever works on *)
(* it is the only one, is a restart, and works on the colour that is not     *)
(* routed until it has switched.                                             *)
Before == {"wait", "acquire", "launch", "check", "passed", "failed", "drop"}

Alone(s, c) == \A t \in Slots : Engaged(t, c) => t = s

OffRoute(s, c) ==
  /\ op[s].kind = "restart" /\ Alone(s, c)
  /\ \/ op[s].pc = "mark" /\ to[s][c] # Routed(c)
     \/ /\ op[s].pc = "run" /\ at[s][c] \in Before
        /\ to[s][c] # Routed(c)
        /\ at[s][c] = "passed" => to[s][c] \in proc[c]
     \/ op[s].pc = "run" /\ at[s][c] = "switch" /\ to[s][c] = Routed(c)
     \/ op[s].pc = "run" /\ at[s][c] = "done"

Kept(c) ==
  kept[c] =>
    writes[c] = {} /\ Serving(c) /\ \A s \in Slots : Engaged(s, c) => OffRoute(s, c)

KeptInv == \A c \in Comps : Kept(c)

\* what a step does not change of component c
SameState(c) == st'[c] = st[c] /\ proc'[c] = proc[c] /\ writes'[c] = writes[c]
SameSlot(s, c) ==
  /\ op'[s].kind = op[s].kind /\ op'[s].pc = op[s].pc
  /\ (c \in op'[s].comps) = (c \in op[s].comps)
  /\ at'[s][c] = at[s][c] /\ to'[s][c] = to[s][c]
Left(s, c) == ~(c \in op'[s].comps /\ op'[s].pc \notin {"queued", "parked"})

(* A step that leaves a component and its slots alone, or ends with it,      *)
(* keeps it.                                                                 *)
LEMMA FrameKept ==
  ASSUME NEW c \in Comps, Kept(c), kept'[c] => kept[c], SameState(c),
         \A s \in Slots : Left(s, c) \/ SameSlot(s, c)
  PROVE  Kept(c)'
<1> SUFFICES ASSUME kept'[c] PROVE Kept(c)'
  BY DEF Kept
<1>1. /\ kept[c] /\ writes[c] = {} /\ Serving(c)
      /\ \A s \in Slots : Engaged(s, c) => OffRoute(s, c)
  BY DEF Kept
<1>2. Serving(c)' /\ Routed(c)' = Routed(c)
  BY <1>1 DEF SameState, Serving, Routed, Runs
<1>3. ASSUME NEW s \in Slots, Engaged(s, c)' PROVE Engaged(s, c) /\ SameSlot(s, c)
  BY <1>3 DEF Left, Engaged, SameSlot
<1>4. ASSUME NEW s \in Slots, Engaged(s, c)' PROVE OffRoute(s, c)'
  <2>1. OffRoute(s, c) /\ SameSlot(s, c)
    BY <1>1, <1>3, <1>4
  <2>2. Alone(s, c)'
    BY <1>3, <2>1 DEF OffRoute, Alone
  <2> QED  BY <1>2, <2>1, <2>2 DEF OffRoute, SameSlot, SameState
<1> QED  BY <1>1, <1>2, <1>4 DEF Kept, SameState

(* A request other than a restart works on no component that is kept.        *)
LEMMA OthersKept ==
  ASSUME NEW c \in Comps, Kept(c), NEW s \in Slots, Engaged(s, c),
         op[s].kind # "restart"
  PROVE  ~kept[c]
BY DEF Kept, OffRoute

(* So does such a request's step, on whatever it works.                      *)
LEMMA RequestKept ==
  ASSUME NEW c \in Comps, Kept(c), NEW s \in Slots,
         op[s].kind # "restart", op[s].pc \notin {"queued", "parked"}, kept'[c] => kept[c],
         c \notin op[s].comps => SameState(c) /\ Left(s, c),
         \A t \in Slots \ {s} : SameSlot(t, c)
  PROVE  Kept(c)'
<1>1. CASE c \in op[s].comps
  BY <1>1, OthersKept DEF Engaged, Kept
<1>2. CASE c \notin op[s].comps
  BY <1>2, FrameKept
<1> QED  BY <1>1, <1>2

(* A component that rests in order is kept from here.                        *)
LEMMA RestKept ==
  ASSUME NEW c \in Comps, NEW D, Rest(D), kept'[c], ~kept[c]
  PROVE  Kept(c)'
<1>1. ~Busy(c)' /\ Serving(c)'
  BY DEF Rest
<1>2. writes'[c] = {} /\ \A s \in Slots : ~Engaged(s, c)'
  BY <1>1 DEF Busy
<1> QED  BY <1>1, <1>2 DEF Kept

LEMMA LeaveSlots ==
  ASSUME TypeOK, NEW s \in Slots, Leave(s), NEW c \in Comps
  PROVE  Left(s, c) /\ \A t \in Slots \ {s} : SameSlot(t, c)
<1>1. op' = [op EXCEPT ![s] = Idle] /\ op \in [Slots -> OpRecord]
  BY OpType DEF Leave
<1>2. op'[s].comps = {}
  BY <1>1 DEF Idle, Doing
<1>3. \A t \in Slots \ {s} : op'[t] = op[t] /\ at'[t] = at[t] /\ to'[t] = to[t]
  BY <1>1 DEF Leave, TypeOK
<1> QED  BY <1>2, <1>3 DEF Left, SameSlot

LEMMA LeaveKept ==
  ASSUME TypeOK, NEW c \in Comps, Kept(c), NEW s \in Slots, NEW D,
         Leave(s), Rest(D), kept[c] => SameState(c)
  PROVE  Kept(c)'
<1>1. Left(s, c) /\ \A t \in Slots \ {s} : SameSlot(t, c)
  BY LeaveSlots
<1>2. CASE kept[c]
  BY <1>1, <1>2, FrameKept
<1>3. CASE ~kept[c] /\ kept'[c]
  BY <1>3, RestKept
<1>4. CASE ~kept'[c]
  BY <1>4 DEF Kept
<1> QED  BY <1>2, <1>3, <1>4

(* What the shared pieces leave alone.                                       *)
LEMMA SetStatusOthers ==
  ASSUME NEW D, NEW K, NEW status, TypeOK, SetStatus(D, K, status),
         NEW c \in Comps, c \notin D
  PROVE  st'[c] = st[c]
<1>1. st'[c] = [k \in Colours |-> st[c][k]] /\ st[c] \in [Colours -> Statuses]
  BY DEF SetStatus, TypeOK
<1> QED  BY <1>1

LEMMA RefusedOthers ==
  ASSUME NEW D, NEW K, NEW status, TypeOK, Refused(D, K, status),
         NEW c \in Comps, c \notin D
  PROVE  st'[c] = st[c]
<1>1. PICK E \in SUBSET D : SetStatus(E, K, status)
  BY DEF Refused
<1> QED  BY <1>1, SetStatusOthers

LEMMA WriteStatusOthers ==
  ASSUME NEW D, NEW K, NEW status, TypeOK, WriteStatus(D, K, status),
         NEW c \in Comps, c \notin D
  PROVE  st'[c] = st[c]
BY SetStatusOthers, RefusedOthers DEF WriteStatus

LEMMA MarkTargetsOthers ==
  ASSUME TypeOK, NEW s, NEW D, MarkTargets(s, D), NEW c \in Comps, c \notin D
  PROVE  st'[c] = st[c]
BY DEF MarkTargets

LEMMA DeleteProcessOthers ==
  ASSUME NEW D, NEW K, DeleteProcess(D, K), NEW c \in Comps, c \notin D
  PROVE  proc'[c] = proc[c]
BY DEF DeleteProcess

LEMMA GotoSlots ==
  ASSUME TypeOK, NEW s \in Slots, NEW pc, Goto(s, pc)
  PROVE  /\ op'[s] = [op[s] EXCEPT !.pc = pc]
         /\ op'[s].kind = op[s].kind /\ op'[s].comps = op[s].comps /\ op'[s].pc = pc
         /\ \A t \in Slots \ {s} : op'[t] = op[t]
<1>1. op' = [op EXCEPT ![s] = [op[s] EXCEPT !.pc = pc]]
  BY OpType DEF Goto
<1>2. op'[s] = [op[s] EXCEPT !.pc = pc] /\ \A t \in Slots \ {s} : op'[t] = op[t]
  BY <1>1, OpType
<1> QED  BY <1>2, OpType DEF OpRecord

LEMMA SetAtSlots ==
  ASSUME TypeOK, NEW s \in Slots, NEW c \in Comps, NEW phase, SetAt(s, c, phase)
  PROVE  /\ at'[s][c] = phase
         /\ \A d \in Comps \ {c} : at'[s][d] = at[s][d]
         /\ \A t \in Slots \ {s} : at'[t] = at[t]
<1>1. at' = [at EXCEPT ![s] = [at[s] EXCEPT ![c] = phase]]
  BY DEF SetAt
<1>2. at'[s] = [at[s] EXCEPT ![c] = phase] /\ \A t \in Slots \ {s} : at'[t] = at[t]
  BY <1>1 DEF TypeOK
<1>3. at[s] \in [Comps -> Phases]
  BY DEF TypeOK
<1> QED  BY <1>2, <1>3

LEMMA SetAllSlots ==
  ASSUME TypeOK, NEW s \in Slots, NEW phase, SetAll(s, phase)
  PROVE  /\ \A c \in op[s].comps : at'[s][c] = phase
         /\ \A t \in Slots \ {s} : at'[t] = at[t]
<1> DEFINE f == [c \in Comps |-> IF c \in op[s].comps THEN phase ELSE "none"]
<1>1. at' = [at EXCEPT ![s] = f] /\ \A c \in op[s].comps : f[c] = phase
  BY OpType DEF SetAll
<1> HIDE DEF f
<1> QED  BY <1>1 DEF TypeOK

(* Another slot than s, and a component nobody else works on.                *)
LEMMA OthersSlots ==
  ASSUME NEW s \in Slots, NEW c,
         \A t \in Slots \ {s} : op'[t] = op[t] /\ at'[t] = at[t] /\ to'[t] = to[t]
  PROVE  \A t \in Slots \ {s} : SameSlot(t, c)
BY DEF SameSlot

-----------------------------------------------------------------------------
(* Each action keeps what is kept.                                          *)
LEMMA CallKept ==
  ASSUME TypeOK, NEW c \in Comps, Kept(c), NEW s \in Callers,
         NEW kind \in Kinds \ {"none", "retry"}, NEW D \in SUBSET Comps, Call(s, kind, D)
  PROVE  Kept(c)'
<1> DEFINE pc == CASE kind = "start" -> "clear" [] kind = "restart" -> "queued"
                   [] OTHER -> "mark"
<1>1. op' = [op EXCEPT ![s] = Doing(kind, D, pc)] /\ s \in Slots
  BY SlotFacts DEF Call
<1>2. \A t \in Slots \ {s} : SameSlot(t, c)
  <2>1. \A t \in Slots \ {s} : op'[t] = op[t]
    <3> HIDE DEF pc
    <3> QED  BY <1>1, OpType
  <2> QED  BY <2>1, OthersSlots, <1>1 DEF Call
<1>3. SameState(c)
  BY DEF Call, SameState
<1>4. op'[s].comps = D /\ op'[s].pc = pc
  <2> HIDE DEF pc
  <2> QED  BY <1>1, OpType DEF Doing
<1>5. CASE kind = "restart"
  <2>1. Left(s, c)
    BY <1>4, <1>5 DEF Left
  <2>2. kept' = kept
    BY <1>5 DEF Call, history
  <2> QED  BY <1>1, <1>2, <1>3, <2>1, <2>2, FrameKept
<1>6. CASE kind # "restart"
  <2>1. Begin(s, D, FALSE)
    BY <1>6 DEF Call
  <2>2. CASE c \in D
    BY <2>1, <2>2 DEF Begin, Kept
  <2>3. CASE c \notin D
    <3>1. kept'[c] => kept[c]
      BY <2>1 DEF Begin
    <3>2. Left(s, c)
      BY <1>4, <2>3 DEF Left
    <3> QED  BY <1>1, <1>2, <1>3, <3>1, <3>2, FrameKept
  <2> QED  BY <2>2, <2>3
<1> QED  BY <1>5, <1>6

LEMMA StartClearKept ==
  ASSUME TypeOK, NEW c \in Comps, Kept(c), NEW s \in Slots, StartClear(s)
  PROVE  Kept(c)'
<1>1. PICK pc \in Points : Goto(s, pc)
  BY DEF StartClear, Points
<1>2. \A t \in Slots \ {s} : SameSlot(t, c)
  BY <1>1, GotoSlots, OthersSlots DEF StartClear
<1>3. kept'[c] => kept[c]
  BY DEF StartClear, history, Muddle
<1>4. c \notin op[s].comps => SameState(c) /\ Left(s, c)
  BY <1>1, GotoSlots, DeleteProcessOthers DEF StartClear, SameState, Left
<1> QED  BY <1>2, <1>3, <1>4, RequestKept DEF StartClear, IsStart

LEMMA StartGreenKept ==
  ASSUME TypeOK, NEW c \in Comps, Kept(c), NEW s \in Slots, StartGreen(s)
  PROVE  Kept(c)'
<1>1. Goto(s, "mark") /\ kept' = kept
  BY DEF StartGreen, history
<1>2. \A t \in Slots \ {s} : SameSlot(t, c)
  BY <1>1, GotoSlots, OthersSlots DEF StartGreen
<1>3. c \notin op[s].comps => SameState(c) /\ Left(s, c)
  BY <1>1, GotoSlots, WriteStatusOthers DEF StartGreen, SameState, Left
<1> QED  BY <1>1, <1>2, <1>3, RequestKept DEF StartGreen, IsStart

LEMMA StartMarkKept ==
  ASSUME TypeOK, NEW c \in Comps, Kept(c), NEW s \in Slots, StartMark(s)
  PROVE  Kept(c)'
<1>1. Goto(s, "run") /\ SetAll(s, "wait") /\ kept' = kept
  BY DEF StartMark, history
<1>2. \A t \in Slots \ {s} : SameSlot(t, c)
  BY <1>1, GotoSlots, SetAllSlots, OthersSlots DEF StartMark
<1>3. c \notin op[s].comps => SameState(c) /\ Left(s, c)
  BY <1>1, GotoSlots, SetStatusOthers DEF StartMark, SameState, Left
<1> QED  BY <1>1, <1>2, <1>3, RequestKept DEF StartMark, IsStart

LEMMA ThrowKept ==
  ASSUME TypeOK, NEW c \in Comps, Kept(c), NEW s \in Slots, Throw(s),
         SameState(c), IsStart(s), op[s].pc \notin {"queued", "parked"}
  PROVE  Kept(c)'
<1> DEFINE failed == {d \in Comps : \E k \in Colours : st[d][k] = "error"}
<1>1. CASE s = Dog /\ op[s].kind = "start" /\ failed # {}
  <2>1. /\ op' = [op EXCEPT ![s] = Doing("retry", failed, "clear")]
        /\ at' = [at EXCEPT ![s] = Nowhere] /\ to' = to
        /\ Begin(s, failed, FALSE)
    BY <1>1 DEF Throw
  <2> HIDE DEF failed
  <2>2. op'[s].comps = failed
    BY <2>1, OpType DEF Doing
  <2>3. \A t \in Slots \ {s} : SameSlot(t, c)
    <3>1. \A t \in Slots \ {s} : op'[t] = op[t]
      BY <2>1, OpType
    <3>2. \A t \in Slots \ {s} : at'[t] = at[t] /\ to'[t] = to[t]
      BY <2>1 DEF TypeOK
    <3> QED  BY <3>1, <3>2, OthersSlots
  <2>4. CASE c \in failed
    BY <2>1, <2>4 DEF Begin, Kept
  <2>5. CASE c \notin failed
    <3>1. kept'[c] => kept[c]
      BY <2>1 DEF Begin
    <3>2. Left(s, c)
      BY <2>2, <2>5 DEF Left
    <3> QED  BY <2>3, <3>1, <3>2, FrameKept
  <2> QED  BY <2>4, <2>5
<1>2. CASE ~(s = Dog /\ op[s].kind = "start" /\ failed # {})
  <2>1. Leave(s) /\ Rest(op[s].comps)
    BY <1>2 DEF Throw
  <2> QED  BY <2>1, LeaveKept
<1> QED  BY <1>1, <1>2

LEMMA StartThrowsKept ==
  ASSUME TypeOK, NEW c \in Comps, Kept(c), NEW s \in Slots, StartThrows(s)
  PROVE  Kept(c)'
<1>1. Goto(s, "final") /\ kept' = kept
  BY DEF StartThrows, history
<1>2. \A t \in Slots \ {s} : SameSlot(t, c)
  BY <1>1, GotoSlots, OthersSlots DEF StartThrows
<1>3. c \notin op[s].comps => SameState(c) /\ Left(s, c)
  <2> SUFFICES ASSUME c \notin op[s].comps PROVE SameState(c) /\ Left(s, c)
    OBVIOUS
  <2>1. st'[c] = st[c]
    BY RefusedOthers DEF StartThrows
  <2> QED  BY <1>1, <2>1, GotoSlots DEF StartThrows, SameState, Left
<1> QED  BY <1>1, <1>2, <1>3, RequestKept DEF StartThrows, IsStart

LEMMA StartEndThrowsKept ==
  ASSUME TypeOK, NEW c \in Comps, Kept(c), NEW s \in Slots, StartEndThrows(s)
  PROVE  Kept(c)'
BY ThrowKept DEF StartEndThrows, SameState

LEMMA RestartChooseKept ==
  ASSUME TypeOK, NEW c \in Comps, Kept(c), NEW s \in Slots, RestartChoose(s)
  PROVE  Kept(c)'
<1> DEFINE active == \E d \in Comps, k \in Colours : st[d][k] \in {"running", "starting"}
<1> DEFINE f == [d \in Comps |->
                   IF d \in op[s].comps /\ active /\ st[d]["green"] # "running"
                     THEN "green" ELSE "blue"]
<1>1. /\ to' = [to EXCEPT ![s] = f] /\ Goto(s, "mark") /\ Begin(s, op[s].comps, TRUE)
      /\ SameState(c) /\ at' = at
  BY DEF RestartChoose, SameState
<1>2. \A t \in Slots \ {s} : SameSlot(t, c)
  <2>1. \A t \in Slots \ {s} : to'[t] = to[t]
    <3> HIDE DEF f
    <3> QED  BY <1>1 DEF TypeOK
  <2> QED  BY <1>1, <2>1, GotoSlots, OthersSlots
<1>3. CASE c \notin op[s].comps
  <2>1. Left(s, c)
    BY <1>1, <1>3, GotoSlots DEF Left
  <2>2. kept'[c] => kept[c]
    BY <1>1 DEF Begin
  <2> QED  BY <1>1, <1>2, <2>1, <2>2, FrameKept
<1>4. CASE c \in op[s].comps
  <2> SUFFICES ASSUME kept'[c] PROVE Kept(c)'
    BY DEF Kept
  <2>1. kept[c] /\ writes[c] = {} /\ \A t \in Slots \ {s} : ~Engaged(t, c)
    BY <1>1, <1>4 DEF Begin
  <2>2. Serving(c) /\ Serving(c)' /\ Routed(c)' = Routed(c)
    BY <1>1, <2>1 DEF Kept, SameState, Serving, Routed, Runs
  <2>3. \A t \in Slots \ {s} : ~Engaged(t, c)'
    BY <1>2, <2>1 DEF SameSlot, Engaged
  <2>4. active
    BY <2>2 DEF Serving, Runs
  <2>5. f[c] # Routed(c)
    BY <1>4, <2>4 DEF Routed
  <2>6. to'[s][c] = f[c]
    <3> HIDE DEF f
    <3> QED  BY <1>1 DEF TypeOK
  <2>7. op'[s].kind = "restart" /\ op'[s].pc = "mark"
    BY <1>1, GotoSlots DEF RestartChoose
  <2>8. OffRoute(s, c)'
    <3> HIDE DEF f
    <3> QED  BY <2>2, <2>3, <2>5, <2>6, <2>7 DEF OffRoute, Alone
  <2> QED  BY <1>1, <2>1, <2>2, <2>3, <2>8 DEF Kept, SameState
<1> QED  BY <1>3, <1>4

\* marking the colours of a restart does not touch the routed one
LEMMA MarkedKept ==
  ASSUME TypeOK, NEW c \in Comps, NEW s \in Slots, NEW D, MarkTargets(s, D),
         Serving(c), c \in D => to[s][c] # Routed(c), proc' = proc
  PROVE  Serving(c)' /\ Routed(c)' = Routed(c)
<1>1. st[c] \in [Colours -> Statuses] /\ to[s][c] \in Colours
  BY DEF TypeOK
<1>2. st'[c] = IF c \in D THEN [st[c] EXCEPT ![to[s][c]] = "starting"] ELSE st[c]
  BY DEF MarkTargets
<1>3. CASE c \notin D
  BY <1>2, <1>3 DEF Serving, Routed, Runs
<1>4. CASE c \in D /\ Routed(c) = "green"
  <2>1. to[s][c] = "blue" /\ st[c]["green"] = "running"
    BY <1>1, <1>4 DEF Routed, Colours
  <2>2. st'[c]["green"] = "running"
    BY <1>1, <1>2, <1>4, <2>1 DEF Colours
  <2> QED  BY <1>4, <2>2 DEF Serving, Routed, Runs, Colours
<1>5. CASE c \in D /\ Routed(c) = "blue"
  <2>1. to[s][c] = "green" /\ st[c]["green"] # "running" /\ st[c]["blue"] = "running"
    BY <1>1, <1>5 DEF Routed, Colours, Serving, Runs
  <2>2. st'[c]["blue"] = "running" /\ st'[c]["green"] = "starting"
    BY <1>1, <1>2, <1>5, <2>1 DEF Colours
  <2> QED  BY <1>5, <2>2 DEF Serving, Routed, Runs, Colours
<1> QED  BY <1>3, <1>4, <1>5 DEF Routed

LEMMA RestartMarkKept ==
  ASSUME TypeOK, NEW c \in Comps, Kept(c), NEW s \in Slots, RestartMark(s)
  PROVE  Kept(c)'
<1>1. /\ MarkTargets(s, op[s].comps) /\ Goto(s, "run") /\ SetAll(s, "wait")
      /\ kept' = kept /\ proc' = proc /\ to' = to /\ writes' = writes
  BY DEF RestartMark, history
<1>2. \A t \in Slots \ {s} : SameSlot(t, c)
  BY <1>1, GotoSlots, SetAllSlots, OthersSlots
<1>3. CASE c \notin op[s].comps
  <2>1. Left(s, c) /\ SameState(c)
    BY <1>1, <1>3, GotoSlots, MarkTargetsOthers DEF Left, SameState
  <2> QED  BY <1>1, <1>2, <2>1, FrameKept
<1>4. CASE c \in op[s].comps
  <2> SUFFICES ASSUME kept'[c] PROVE Kept(c)'
    BY DEF Kept
  <2>1. Engaged(s, c) /\ op[s].pc = "mark"
    BY <1>4 DEF RestartMark, Engaged
  <2>2. writes[c] = {} /\ Serving(c) /\ Alone(s, c) /\ to[s][c] # Routed(c)
    BY <1>1, <2>1 DEF Kept, OffRoute
  <2>3. Serving(c)' /\ Routed(c)' = Routed(c)
    BY <1>1, <2>2, MarkedKept
  <2>4. \A t \in Slots \ {s} : ~Engaged(t, c)'
    BY <1>2, <2>2 DEF SameSlot, Engaged, Alone
  <2>5. op'[s].kind = "restart" /\ op'[s].pc = "run" /\ at'[s][c] = "wait"
    BY <1>1, <1>4, GotoSlots, SetAllSlots DEF RestartMark
  <2>6. OffRoute(s, c)'
    BY <1>1, <2>2, <2>3, <2>4, <2>5 DEF OffRoute, Alone, Before
  <2> QED  BY <1>1, <2>2, <2>3, <2>4, <2>6 DEF Kept
<1> QED  BY <1>3, <1>4

LEMMA RestartThrowsKept ==
  ASSUME TypeOK, NEW c \in Comps, Kept(c), NEW s \in Slots, RestartThrows(s)
  PROVE  Kept(c)'
<1>1. PICK D \in SUBSET op[s].comps : MarkTargets(s, D)
  BY DEF RestartThrows
<1>2. kept' = kept /\ proc' = proc /\ writes' = writes
  BY DEF RestartThrows, history
<1>3. Left(s, c) /\ \A t \in Slots \ {s} : SameSlot(t, c)
  BY LeaveSlots DEF RestartThrows
<1>4. CASE c \notin D
  <2>1. SameState(c)
    BY <1>1, <1>2, <1>4, MarkTargetsOthers DEF SameState
  <2> QED  BY <1>2, <1>3, <2>1, FrameKept
<1>5. CASE c \in D
  <2> SUFFICES ASSUME kept'[c] PROVE Kept(c)'
    BY DEF Kept
  <2>1. Engaged(s, c) /\ op[s].pc = "mark"
    BY <1>2, <1>5 DEF RestartThrows, Engaged
  <2>2. writes[c] = {} /\ Serving(c) /\ Alone(s, c) /\ to[s][c] # Routed(c)
    BY <1>2, <2>1 DEF Kept, OffRoute
  <2>3. Serving(c)'
    BY <1>1, <1>2, <2>2, MarkedKept
  <2>4. \A t \in Slots : ~Engaged(t, c)'
    BY <1>3, <2>2 DEF Left, SameSlot, Engaged, Alone
  <2> QED  BY <1>2, <2>2, <2>3, <2>4 DEF Kept
<1> QED  BY <1>4, <1>5

(* A step with one component.                                                *)
LEMMA CompFrameKept ==
  ASSUME TypeOK, NEW c \in Comps, NEW d \in Comps \ {c}, Kept(c), NEW s \in Slots,
         NEW phase, SetAt(s, d, phase), op' = op, to' = to,
         SameState(c), kept'[c] => kept[c]
  PROVE  Kept(c)'
<1>1. \A t \in Slots : SameSlot(t, c)
  BY SetAtSlots DEF SameSlot
<1> QED  BY <1>1, FrameKept

LEMMA LiveKept ==
  ASSUME NEW c \in Comps, Kept(c), kept[c], NEW s \in Slots, NEW phase, Live(s, c, phase)
  PROVE  /\ writes[c] = {} /\ Serving(c) /\ Engaged(s, c) /\ op[s].kind = "restart" /\ Alone(s, c)
         /\ phase \in Before \cup {"switch", "done"}
         /\ phase \in Before => to[s][c] # Routed(c)
         /\ phase = "passed" => to[s][c] \in proc[c]
         /\ phase = "switch" => to[s][c] = Routed(c)
<1>1. Engaged(s, c) /\ op[s].pc = "run" /\ at[s][c] = phase
  BY DEF Live, Engaged
<1>2. writes[c] = {} /\ Serving(c) /\ OffRoute(s, c)
  BY <1>1 DEF Kept
<1> QED  BY <1>1, <1>2 DEF OffRoute, Before

LEMMA OnlyKept ==
  ASSUME NEW c \in Comps, NEW s \in Slots, Alone(s, c), op' = op,
         writes'[c] = {}, Serving(c)', OffRoute(s, c)'
  PROVE  Kept(c)'
BY DEF Alone, Engaged, Kept

\* a step before the switch that leaves the routed colour alone
LEMMA BeforeKept ==
  ASSUME TypeOK, NEW c \in Comps, Kept(c), kept[c], NEW s \in Slots,
         NEW phase \in Before, Live(s, c, phase),
         NEW next \in Before \cup {"done"}, SetAt(s, c, next), op' = op, to' = to,
         writes'[c] = writes[c], Serving(c)', Routed(c)' = Routed(c),
         next = "passed" => to[s][c] \in proc'[c]
  PROVE  Kept(c)'
<1>1. /\ op[s].kind = "restart" /\ Alone(s, c) /\ to[s][c] # Routed(c)
      /\ writes'[c] = {}
  BY LiveKept
<1>2. at'[s][c] = next /\ op[s].pc = "run"
  BY SetAtSlots DEF Live
<1>3. Alone(s, c)'
  BY <1>1 DEF Alone, Engaged
<1>4. OffRoute(s, c)'
  BY <1>1, <1>2, <1>3 DEF OffRoute
<1> QED  BY <1>1, <1>4, OnlyKept

LEMMA SameServing ==
  ASSUME NEW c \in Comps, Serving(c), st'[c] = st[c],
         Routed(c) \in proc[c] => Routed(c) \in proc'[c]
  PROVE  Serving(c)' /\ Routed(c)' = Routed(c)
BY DEF Serving, Routed, Runs

LEMMA LaunchKept ==
  ASSUME TypeOK, NEW c \in Comps, Kept(c), NEW s \in Slots, NEW d \in Comps, Launch(s, d)
  PROVE  Kept(c)'
<1>1. PICK next \in {"acquire", "check"} : SetAt(s, d, next)
  BY DEF Launch
<1>2. /\ Live(s, d, "wait") /\ SameState(c) /\ SameState(d)
      /\ kept' = kept /\ op' = op /\ to' = to
  BY DEF Launch, SameState, history
<1>3. CASE c # d
  BY <1>1, <1>2, <1>3, CompFrameKept
<1>4. CASE c = d /\ kept[c]
  <2>1. Serving(c)' /\ Routed(c)' = Routed(c)
    BY <1>2, <1>4, LiveKept, SameServing DEF SameState
  <2> QED  BY <1>1, <1>2, <1>4, <2>1, BeforeKept DEF Before, SameState
<1> QED  BY <1>2, <1>3, <1>4 DEF Kept

LEMMA AcquireKept ==
  ASSUME TypeOK, NEW c \in Comps, Kept(c), NEW s \in Slots, NEW d \in Comps, Acquire(s, d)
  PROVE  Kept(c)'
<1>1. PICK next \in {"launch"} : SetAt(s, d, next)
  BY DEF Acquire
<1>2. /\ Live(s, d, "acquire") /\ SameState(c) /\ SameState(d)
      /\ kept' = kept /\ op' = op /\ to' = to
  BY DEF Acquire, SameState, history
<1>3. CASE c # d
  BY <1>1, <1>2, <1>3, CompFrameKept
<1>4. CASE c = d /\ kept[c]
  <2>1. Serving(c)' /\ Routed(c)' = Routed(c)
    BY <1>2, <1>4, LiveKept, SameServing DEF SameState
  <2> QED  BY <1>1, <1>2, <1>4, <2>1, BeforeKept DEF Before, SameState
<1> QED  BY <1>2, <1>3, <1>4 DEF Kept

LEMMA LaunchedKept ==
  ASSUME TypeOK, NEW c \in Comps, Kept(c), NEW s \in Slots, NEW d \in Comps, Launched(s, d)
  PROVE  Kept(c)'
<1>1. PICK next \in {"check", "failed"} : SetAt(s, d, next)
  BY DEF Launched
<1>2. /\ Live(s, d, "launch") /\ st' = st /\ writes' = writes /\ kept' = kept /\ op' = op /\ to' = to
      /\ proc[c] \subseteq proc'[c] /\ (c # d => proc'[c] = proc[c])
  BY DEF Launched, TypeOK, history
<1>3. CASE c # d
  BY <1>1, <1>2, <1>3, CompFrameKept DEF SameState
<1>4. CASE c = d /\ kept[c]
  <2>1. Serving(c)' /\ Routed(c)' = Routed(c)
    BY <1>2, <1>4, LiveKept, SameServing
  <2> QED  BY <1>1, <1>2, <1>4, <2>1, BeforeKept DEF Before, SameState
<1> QED  BY <1>2, <1>3, <1>4 DEF Kept

LEMMA CheckKept ==
  ASSUME TypeOK, NEW c \in Comps, Kept(c), NEW s \in Slots, NEW d \in Comps, Check(s, d)
  PROVE  Kept(c)'
<1>1. PICK next \in {"passed", "failed"} :
        SetAt(s, d, next) /\ (next = "passed" => to[s][d] \in proc[d])
  BY DEF Check
<1>2. /\ Live(s, d, "check") /\ SameState(c) /\ SameState(d) /\ proc' = proc
      /\ kept' = kept /\ op' = op /\ to' = to
  BY DEF Check, SameState, history
<1>3. CASE c # d
  BY <1>1, <1>2, <1>3, CompFrameKept
<1>4. CASE c = d /\ kept[c]
  <2>1. Serving(c)' /\ Routed(c)' = Routed(c)
    BY <1>2, <1>4, LiveKept, SameServing DEF SameState
  <2> QED  BY <1>1, <1>2, <1>4, <2>1, BeforeKept DEF Before, SameState
<1> QED  BY <1>2, <1>3, <1>4 DEF Kept

\* the switch: the routed colour is the new one, whose process is up
LEMMA SwitchedKept ==
  ASSUME TypeOK, NEW c \in Comps, Kept(c), kept[c], NEW s \in Slots, Live(s, c, "passed"),
         st' = [st EXCEPT ![c] = SwitchTo(c, to[s][c])], SetAt(s, c, "switch"),
         UNCHANGED <<proc, writes, op, to>>
  PROVE  Kept(c)'
<1>1. /\ op[s].kind = "restart" /\ Alone(s, c) /\ to[s][c] \in proc[c]
      /\ writes[c] = {}
  BY LiveKept
<1>2. st[c] \in [Colours -> Statuses] /\ to[s][c] \in Colours
  BY DEF TypeOK
<1>3. st'[c] = SwitchTo(c, to[s][c])
  BY DEF TypeOK
<1>4. st'[c][to[s][c]] = "running" /\ st'[c][Other(to[s][c])] = "stopped"
  BY <1>2, <1>3 DEF SwitchTo, Other, Colours
<1>5. Routed(c)' = to[s][c] /\ Serving(c)'
  BY <1>1, <1>2, <1>4 DEF Routed, Serving, Runs, Other, Colours
<1>6. at'[s][c] = "switch" /\ op[s].pc = "run"
  BY SetAtSlots DEF Live
<1>7. Alone(s, c)'
  BY <1>1 DEF Alone, Engaged
<1>8. OffRoute(s, c)'
  BY <1>1, <1>5, <1>6, <1>7 DEF OffRoute
<1> QED  BY <1>1, <1>5, <1>8, OnlyKept

LEMMA PassedKept ==
  ASSUME TypeOK, NEW c \in Comps, Kept(c), NEW s \in Slots, NEW d \in Comps, Passed(s, d)
  PROVE  Kept(c)'
<1>1. Live(s, d, "passed") /\ proc' = proc /\ op' = op /\ to' = to
  BY DEF Passed
<1>2. PICK next : SetAt(s, d, next)
  BY DEF Passed
<1>3. CASE IsStart(s) /\ Write(d, "running") /\ UNCHANGED <<st, events, history>>
  <2>1. CASE c = d
    <3>1. ~kept[c]
      BY <1>1, <1>3, <2>1, LiveKept DEF IsStart
    <3> QED  BY <1>3, <3>1 DEF Kept, history
  <2>2. CASE c # d
    <3>1. SameState(c) /\ kept' = kept
      BY <1>1, <1>3, <2>2 DEF SameState, Write, history, TypeOK
    <3> QED  BY <1>1, <1>2, <2>2, <3>1, CompFrameKept
  <2> QED  BY <2>1, <2>2
<1>4. CASE /\ st' = [st EXCEPT ![d] = SwitchTo(d, to[s][d])] /\ SetAt(s, d, "switch")
           /\ UNCHANGED writes /\ UNCHANGED <<events, history>>
  <2>1. CASE c # d
    <3>1. SameState(c) /\ kept' = kept
      BY <1>1, <1>4, <2>1 DEF SameState, history, TypeOK
    <3> QED  BY <1>1, <1>2, <2>1, <3>1, CompFrameKept
  <2>2. CASE c = d /\ kept[c]
    BY <1>1, <1>4, <2>2, SwitchedKept
  <2>3. CASE ~kept[c]
    BY <1>4, <2>3 DEF Kept, history
  <2> QED  BY <2>1, <2>2, <2>3
<1>5. CASE kept' = [kept EXCEPT ![d] = FALSE] /\ UNCHANGED <<st, muddled>> /\ UNCHANGED writes
  <2>1. kept \in [Comps -> BOOLEAN]
    BY DEF TypeOK
  <2>2. CASE c = d
    <3>1. ~kept'[c]
      BY <1>5, <2>1, <2>2, Zenon
    <3> QED  BY <3>1 DEF Kept
  <2>3. CASE c # d
    <3>1. kept'[c] => kept[c]
      BY <1>5, <2>1, <2>3, Zenon
    <3>2. SameState(c)
      BY <1>1, <1>5 DEF SameState
    <3> QED  BY <1>1, <1>2, <2>3, <3>1, <3>2, CompFrameKept
  <2> QED  BY <2>2, <2>3
<1> QED  BY <1>3, <1>4, <1>5 DEF Passed

LEMMA RetireKept ==
  ASSUME TypeOK, NEW c \in Comps, Kept(c), NEW s \in Slots, NEW d \in Comps, Retire(s, d)
  PROVE  Kept(c)'
<1>1. /\ Live(s, d, "switch") /\ st' = st /\ writes' = writes /\ op' = op /\ to' = to
      /\ kept'[c] => kept[c]
  BY DEF Retire, history, Muddle
<1>2. CASE c # d
  <2>1. PICK next : SetAt(s, d, next)
    BY DEF Retire
  <2>2. proc'[c] = proc[c]
    BY <1>2, DeleteProcessOthers DEF Retire
  <2> QED  BY <1>1, <1>2, <2>1, <2>2, CompFrameKept DEF SameState
<1>3. CASE c = d /\ kept'[c]
  <2>1. SetAt(s, c, "done") /\ DeleteProcess({c}, {Other(to[s][c])})
    BY <1>3 DEF Retire, Muddle
  <2>2. /\ op[s].kind = "restart" /\ Alone(s, c) /\ to[s][c] = Routed(c) /\ Serving(c)
        /\ writes[c] = {}
    BY <1>1, <1>3, LiveKept
  <2>3. Serving(c)'
    BY <1>1, <2>1, <2>2, SameServing DEF DeleteProcess, Other, Routed
  <2>4. at'[s][c] = "done" /\ op[s].pc = "run"
    BY <1>1, <1>3, <2>1, SetAtSlots DEF Live
  <2>5. Alone(s, c)'
    BY <1>1, <2>2 DEF Alone, Engaged
  <2>6. OffRoute(s, c)'
    BY <1>1, <2>2, <2>4, <2>5 DEF OffRoute
  <2> QED  BY <1>1, <2>2, <2>3, <2>6, OnlyKept
<1> QED  BY <1>2, <1>3 DEF Kept

\* an error of the colour that is not routed
LEMMA ErrorKept ==
  ASSUME TypeOK, NEW c \in Comps, Kept(c), kept[c], NEW s \in Slots, Live(s, c, "failed"),
         NEW E \in SUBSET {c}, SetStatus(E, {to[s][c]}, "error"), SetAt(s, c, "drop"),
         UNCHANGED <<proc, writes, op, to>>
  PROVE  Kept(c)'
<1>1. to[s][c] # Routed(c) /\ Serving(c)
  BY LiveKept DEF Before
<1>2. \A k \in Colours : k # to[s][c] => st'[c][k] = st[c][k]
  BY DEF SetStatus
<1>3. st'[c][to[s][c]] \in {"error", st[c][to[s][c]]}
  BY DEF SetStatus, TypeOK
<1>4. Serving(c)' /\ Routed(c)' = Routed(c)
  <2>1. st'[c][Routed(c)] = st[c][Routed(c)] /\ to[s][c] \in Colours
    BY <1>1, <1>2 DEF Routed, Colours, TypeOK
  <2> QED  BY <1>1, <1>2, <1>3, <2>1 DEF Serving, Routed, Runs, Colours
<1> QED  BY <1>4, BeforeKept DEF Before

LEMMA FailedKept ==
  ASSUME TypeOK, NEW c \in Comps, Kept(c), NEW s \in Slots, NEW d \in Comps, Failed(s, d)
  PROVE  Kept(c)'
<1>1. /\ Live(s, d, "failed") /\ SetAt(s, d, "drop")
      /\ proc' = proc /\ kept' = kept /\ op' = op /\ to' = to
  BY DEF Failed, history
<1>2. CASE IsStart(s) /\ Write(d, "error") /\ UNCHANGED <<st, events>>
  <2>1. CASE c = d
    <3>1. ~kept[c]
      BY <1>1, <1>2, <2>1, LiveKept DEF IsStart
    <3> QED  BY <1>1, <3>1 DEF Kept
  <2>2. CASE c # d
    <3>1. SameState(c)
      BY <1>1, <1>2, <2>2 DEF SameState, Write, TypeOK
    <3> QED  BY <1>1, <2>2, <3>1, CompFrameKept
  <2> QED  BY <2>1, <2>2
<1>3. CASE WriteStatus({d}, {to[s][d]}, "error") /\ UNCHANGED writes
  <2>1. CASE c # d
    <3>1. SameState(c)
      BY <1>1, <1>3, <2>1, WriteStatusOthers DEF SameState
    <3> QED  BY <1>1, <2>1, <3>1, CompFrameKept
  <2>2. CASE c = d /\ kept[c]
    <3>1. PICK E \in SUBSET {d} : SetStatus(E, {to[s][d]}, "error")
      BY <1>3 DEF WriteStatus, Refused
    <3> QED  BY <1>1, <1>3, <2>2, <3>1, ErrorKept
  <2>3. CASE ~kept[c]
    BY <1>1, <2>3 DEF Kept
  <2> QED  BY <2>1, <2>2, <2>3
<1> QED  BY <1>2, <1>3 DEF Failed

(* A status arrives at a component that is not kept.                         *)
LEMMA LandKept ==
  ASSUME TypeOK, NEW c \in Comps, Kept(c), NEW d \in Comps, NEW result \in Results,
         Land(d, result)
  PROVE  Kept(c)'
<1>1. CASE ~kept[c] /\ kept'[c]
  BY <1>1, RestKept DEF Land
<1>2. CASE kept[c]
  <2>1. c # d
    BY <1>2 DEF Land, Kept
  <2>2. SameState(c)
    <3>1. st'[c] = st[c]
      BY <2>1, WriteStatusOthers DEF Land
    <3>2. writes'[c] = writes[c] /\ proc'[c] = proc[c]
      BY <2>1 DEF Land, TypeOK
    <3> QED  BY <3>1, <3>2 DEF SameState
  <2>3. \A s \in Slots : SameSlot(s, c)
    BY DEF Land, SameSlot
  <2> QED  BY <1>2, <2>2, <2>3, FrameKept
<1> QED  BY <1>1, <1>2 DEF Kept

LEMMA RestartDropKept ==
  ASSUME TypeOK, NEW c \in Comps, Kept(c), NEW s \in Slots, NEW d \in Comps,
         RestartDrop(s, d)
  PROVE  Kept(c)'
<1>1. /\ Live(s, d, "drop") /\ SetAt(s, d, "done") /\ st' = st /\ writes' = writes
      /\ op' = op /\ to' = to
      /\ kept'[c] => kept[c]
  BY DEF RestartDrop, history, Muddle
<1>2. CASE c # d
  <2>1. proc'[c] = proc[c]
    BY <1>2, DeleteProcessOthers DEF RestartDrop
  <2> QED  BY <1>1, <1>2, <2>1, CompFrameKept DEF SameState
<1>3. CASE c = d /\ kept'[c]
  <2>1. DeleteProcess({c}, {to[s][c]})
    BY <1>3 DEF RestartDrop, Muddle
  <2>2. to[s][c] # Routed(c) /\ Serving(c)
    BY <1>1, <1>3, LiveKept DEF Before
  <2>3. Serving(c)' /\ Routed(c)' = Routed(c)
    BY <1>1, <2>1, <2>2, SameServing DEF DeleteProcess
  <2> QED  BY <1>1, <1>3, <2>3, BeforeKept DEF Before
<1> QED  BY <1>2, <1>3 DEF Kept

LEMMA StopKillKept ==
  ASSUME TypeOK, NEW c \in Comps, Kept(c), NEW s \in Slots, NEW d \in Comps, StopKill(s, d)
  PROVE  Kept(c)'
<1>1. /\ Live(s, d, "kill") /\ st' = st /\ writes' = writes /\ op' = op /\ to' = to
      /\ kept'[c] => kept[c]
  BY DEF StopKill, history, Muddle
<1>2. CASE c # d
  <2>1. proc'[c] = proc[c]
    BY <1>2, DeleteProcessOthers DEF StopKill
  <2>2. PICK next : SetAt(s, d, next)
    BY DEF StopKill
  <2> QED  BY <1>1, <1>2, <2>1, <2>2, CompFrameKept DEF SameState
<1>3. CASE c = d
  <2>1. ~kept[c]
    BY <1>1, <1>3, LiveKept DEF Before
  <2> QED  BY <1>1, <2>1 DEF Kept
<1> QED  BY <1>2, <1>3

LEMMA RestartEndKept ==
  ASSUME TypeOK, NEW c \in Comps, Kept(c), NEW s \in Slots, RestartEnd(s)
  PROVE  Kept(c)'
BY LeaveKept DEF RestartEnd, SameState

LEMMA StartEndKept ==
  ASSUME TypeOK, NEW c \in Comps, Kept(c), NEW s \in Slots, StartEnd(s)
  PROVE  Kept(c)'
<1> DEFINE dropped == {d \in op[s].comps : at[s][d] = "drop"}
<1>1. /\ DeleteProcess(dropped, {"blue"}) /\ Leave(s) /\ Rest(op[s].comps)
      /\ st' = st /\ writes' = writes /\ IsStart(s) /\ op[s].pc = "run"
  BY DEF StartEnd
<1>2. kept[c] => c \notin dropped
  BY <1>1, OthersKept DEF Engaged, IsStart
<1>3. kept[c] => SameState(c)
  BY <1>1, <1>2, DeleteProcessOthers DEF SameState
<1> HIDE DEF dropped
<1> QED  BY <1>1, <1>3, LeaveKept

LEMMA StartEndFailsKept ==
  ASSUME TypeOK, NEW c \in Comps, Kept(c), NEW s \in Slots, StartEndFails(s)
  PROVE  Kept(c)'
<1>1. Goto(s, "final") /\ (kept'[c] => kept[c])
  BY DEF StartEndFails, Muddle
<1>2. \A t \in Slots \ {s} : SameSlot(t, c)
  BY <1>1, GotoSlots, OthersSlots DEF StartEndFails
<1>3. c \notin op[s].comps => SameState(c) /\ Left(s, c)
  BY <1>1, GotoSlots DEF StartEndFails, SameState, Left
<1> QED  BY <1>1, <1>2, <1>3, RequestKept DEF StartEndFails, IsStart

LEMMA StopMarkKept ==
  ASSUME TypeOK, NEW c \in Comps, Kept(c), NEW s \in Slots, StopMark(s)
  PROVE  Kept(c)'
<1>1. Goto(s, "run") /\ SetAll(s, "kill") /\ kept' = kept
  BY DEF StopMark, history
<1>2. \A t \in Slots \ {s} : SameSlot(t, c)
  BY <1>1, GotoSlots, SetAllSlots, OthersSlots, ZenonT(60) DEF StopMark
<1>3. c \notin op[s].comps => SameState(c) /\ Left(s, c)
  BY <1>1, GotoSlots, SetStatusOthers DEF StopMark, SameState, Left
<1> QED  BY <1>1, <1>2, <1>3, RequestKept DEF StopMark

\* a request that ends after statuses were written on what it worked on
LEMMA WrittenKept ==
  ASSUME TypeOK, NEW c \in Comps, Kept(c), NEW s \in Slots, op[s].kind # "restart",
         op[s].pc \notin {"queued", "parked"}, Leave(s), Rest(op[s].comps),
         c \notin op[s].comps => st'[c] = st[c], UNCHANGED <<proc, writes>>
  PROVE  Kept(c)'
<1>1. kept[c] => SameState(c)
  BY OthersKept DEF Engaged, SameState
<1> QED  BY <1>1, LeaveKept

LEMMA StopThrowsKept ==
  ASSUME TypeOK, NEW c \in Comps, Kept(c), NEW s \in Slots, StopThrows(s)
  PROVE  Kept(c)'
BY WrittenKept, RefusedOthers DEF StopThrows

LEMMA StopEndKept ==
  ASSUME TypeOK, NEW c \in Comps, Kept(c), NEW s \in Slots, StopEnd(s)
  PROVE  Kept(c)'
<1>1. PICK status : WriteStatus(op[s].comps, Colours, status)
  BY DEF StopEnd
<1> QED  BY <1>1, WrittenKept, WriteStatusOthers DEF StopEnd

LEMMA ReloadKept ==
  ASSUME TypeOK, NEW c \in Comps, Kept(c), NEW s \in Slots, Reload(s)
  PROVE  Kept(c)'
<1>1. Goto(s, "run")
  BY DEF Reload
<1>2. \A t \in Slots \ {s} : SameSlot(t, c)
  BY <1>1, GotoSlots, OthersSlots DEF Reload
<1>3. kept' = kept /\ (c \notin op[s].comps => SameState(c) /\ Left(s, c))
  BY <1>1, GotoSlots DEF Reload, SameState, Left, history
<1> QED  BY <1>2, <1>3, RequestKept DEF Reload

LEMMA ReloadThrowsKept ==
  ASSUME TypeOK, NEW c \in Comps, Kept(c), NEW s \in Slots, ReloadThrows(s)
  PROVE  Kept(c)'
BY LeaveKept DEF ReloadThrows, SameState

LEMMA ReloadedKept ==
  ASSUME TypeOK, NEW c \in Comps, Kept(c), NEW s \in Slots, Reloaded(s)
  PROVE  Kept(c)'
BY WrittenKept, WriteStatusOthers DEF Reloaded

LEMMA WatchKept ==
  ASSUME TypeOK, NEW c \in Comps, Kept(c), WatchStep
  PROVE  Kept(c)'
<1>1. kept' = kept /\ SameState(c) /\ \A s \in Slots : SameSlot(s, c)
  BY DEF WatchStep, GetRunning, GetFake, SameState, SameSlot, work, history
<1> QED  BY <1>1, FrameKept

LEMMA TakeEntryKept ==
  ASSUME TypeOK, NEW c \in Comps, Kept(c), TakeEntry
  PROVE  Kept(c)'
<1>1. /\ op' = [op EXCEPT ![Dog] = Doing("start", queue, "clear")]
      /\ Begin(Dog, queue, FALSE) /\ at' = at /\ to' = to /\ Dog \in Slots
  BY SlotFacts DEF TakeEntry
<1>2. op'[Dog].comps = queue /\ \A t \in Slots \ {Dog} : op'[t] = op[t]
  BY <1>1, OpType DEF Doing
<1>3. \A t \in Slots \ {Dog} : SameSlot(t, c)
  BY <1>1, <1>2, OthersSlots
<1>4. CASE c \in queue
  BY <1>1, <1>4 DEF Begin, Kept
<1>5. CASE c \notin queue
  <2>1. SameState(c) /\ Left(Dog, c)
    BY <1>2, <1>5 DEF TakeEntry, SameState, Left
  <2>2. kept'[c] => kept[c]
    BY <1>1 DEF Begin
  <2> QED  BY <1>3, <2>1, <2>2, FrameKept
<1> QED  BY <1>4, <1>5

LEMMA ProcessDiesKept ==
  ASSUME TypeOK, NEW c \in Comps, Kept(c), NEW d \in Comps, NEW k \in Colours,
         ProcessDies(d, k)
  PROVE  Kept(c)'
<1>1. kept' = [kept EXCEPT ![d] = FALSE] /\ kept \in [Comps -> BOOLEAN]
  BY Zenon DEF ProcessDies, TypeOK
<1>2. CASE c = d
  <2>1. ~kept'[c]
    BY <1>1, <1>2, Zenon
  <2> QED  BY <2>1 DEF Kept
<1>3. CASE c # d
  <2>1. kept'[c] => kept[c]
    BY <1>1, <1>3, Zenon
  <2>2. SameState(c) /\ \A s \in Slots : SameSlot(s, c)
    BY <1>3 DEF ProcessDies, SameState, SameSlot, work, TypeOK
  <2> QED  BY <2>1, <2>2, FrameKept
<1> QED  BY <1>2, <1>3

LEMMA DaemonDiesKept ==
  ASSUME TypeOK, NEW c \in Comps, Kept(c), DaemonDies
  PROVE  Kept(c)'
<1>1. PICK over \in SUBSET Slots :
        op' = [s \in Slots |->
                IF op[s].kind # "restart" THEN Idle
                ELSE [op[s] EXCEPT !.pc = IF s \in over THEN "parked" ELSE "queued",
                                   !.row = "claimed"]]
  BY DEF DaemonDies
<1>2. \A s \in Slots : Left(s, c)
  <2> TAKE s \in Slots
  <2>1. CASE op[s].kind = "restart"
    <3>1. PICK pc \in {"queued", "parked"} :
            op'[s] = [op[s] EXCEPT !.pc = pc, !.row = "claimed"]
      BY <1>1, <2>1
    <3> QED  BY <3>1, OpType DEF Left, OpRecord
  <2>2. CASE op[s].kind # "restart"
    <3>1. op'[s] = Idle
      BY <1>1, <2>2
    <3> QED  BY <3>1 DEF Left, Idle, Doing
  <2> QED  BY <2>1, <2>2
<1>3. CASE kept[c]
  <2>1. kept' = kept /\ SameState(c)
    BY <1>3 DEF DaemonDies, SameState, Kept
  <2> QED  BY <1>2, <2>1, FrameKept
<1>4. CASE ~kept[c]
  BY <1>4 DEF DaemonDies, Kept
<1> QED  BY <1>3, <1>4

LEMMA CompStepKept ==
  ASSUME TypeOK, NEW c \in Comps, Kept(c), NEW s \in Slots, NEW d \in Comps, CompStep(s, d)
  PROVE  Kept(c)'
BY LaunchKept, AcquireKept, LaunchedKept, CheckKept, PassedKept, RetireKept, FailedKept,
   RestartDropKept, StopKillKept DEF CompStep

LEMMA SlotStepKept ==
  ASSUME TypeOK, NEW c \in Comps, Kept(c), NEW s \in Slots, SlotStep(s)
  PROVE  Kept(c)'
<1>1. CASE \E d \in Comps : CompStep(s, d)
  BY <1>1, CompStepKept
<1>2. CASE ~ \E d \in Comps : CompStep(s, d)
  BY <1>2, StartClearKept, StartGreenKept, StartMarkKept, StartThrowsKept,
     RestartChooseKept, RestartMarkKept, RestartThrowsKept, RestartEndKept,
     StartEndKept, StartEndFailsKept, StartEndThrowsKept, StopMarkKept,
     StopThrowsKept, StopEndKept, ReloadKept, ReloadThrowsKept, ReloadedKept
  DEF SlotStep, CompStep
<1> QED  BY <1>1, <1>2

LEMMA InitKept == Init => KeptInv
<1> SUFFICES ASSUME Init, NEW c \in Comps, kept[c] PROVE Kept(c)
  BY DEF KeptInv, Kept
<1>1. Runs(c) /\ writes[c] = {}
  <2>1. kept[c] = Runs(c)
    BY Zenon DEF Init
  <2> QED  BY <2>1 DEF Init
<1>2. st[c] \in {[blue |-> "running", green |-> "stopped"],
                [blue |-> "stopped", green |-> "running"],
                [blue |-> "stopped", green |-> "stopped"]}
  BY DEF Init
<1>3. Routed(c) \in proc[c]
  <2>1. st[c][Routed(c)] = "running" /\ Routed(c) \in Colours
    BY <1>1, <1>2 DEF Runs, Routed, Colours
  <2> QED  BY <2>1 DEF Init
<1>4. \A s \in Slots : ~Engaged(s, c)
  BY DEF Init, Idle, Doing, Engaged
<1> QED  BY <1>1, <1>3, <1>4 DEF Kept, Serving

(* Whatever restarts of whatever components are under way, whichever of their*)
(* launches and checks fail and whenever the daemon dies: a component with   *)
(* which nothing but single restarts was done since it last served at rest   *)
(* has a running colour that the router looks at, and its process is up.     *)
(* Not covered is the component whose process died, whose retired process    *)
(* could not be deleted, or whose switch the store refused to write.         *)
THEOREM ZeroDowntimeAlways == Spec => []ZeroDowntime
<1>1. TypeOK /\ KeptInv /\ [Next]_vars => KeptInv'
  <2> SUFFICES ASSUME TypeOK, KeptInv, [Next]_vars, NEW c \in Comps PROVE Kept(c)'
    BY DEF KeptInv
  <2>1. Kept(c)
    BY DEF KeptInv
  <2>2. CASE Next
    <3>1. ASSUME NEW s \in Callers, NEW kind \in Kinds \ {"none", "retry"},
                 NEW D \in SUBSET Comps, Call(s, kind, D)
          PROVE  Kept(c)'
      BY <2>1, <3>1, CallKept
    <3>2. ASSUME NEW s \in Slots, SlotStep(s) PROVE Kept(c)'
      BY <2>1, <3>2, SlotStepKept
    <3>3. ASSUME NEW d \in Comps, NEW k \in Colours, ProcessDies(d, k) PROVE Kept(c)'
      BY <2>1, <3>3, ProcessDiesKept
    <3>4. CASE WatchStep \/ TakeEntry \/ DaemonDies
      BY <2>1, <3>4, WatchKept, TakeEntryKept, DaemonDiesKept
    <3>5. CASE LandStep
      BY <2>1, <3>5, LandKept DEF LandStep
    <3> QED  BY <2>2, <3>1, <3>2, <3>3, <3>4, <3>5 DEF Next
  <2>3. CASE UNCHANGED vars
    <3>1. kept' = kept /\ SameState(c) /\ \A s \in Slots : SameSlot(s, c)
      BY <2>3 DEF vars, SameState, SameSlot
    <3> QED  BY <2>1, <3>1, FrameKept
  <2> QED  BY <2>2, <2>3
<1>2. KeptInv => ZeroDowntime
  BY DEF KeptInv, Kept, ZeroDowntime
<1> QED  BY InitKept, <1>1, <1>2, LifecycleTypeCorrect, PTL DEF Spec
=============================================================================
