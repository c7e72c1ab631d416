------------------------ MODULE LifecycleStrayProofs ------------------------
(***************************************************************************)
(* NoStray, for any number of components and requests, with any faults.    *)
(* What makes it inductive: a component whose history is in order is at    *)
(* rest and tidy, or exactly one slot is engaged with it, and what that    *)
(* slot has written and launched so far fits the point it has reached; and *)
(* a status that is still on its way was written by a start that is done   *)
(* with the component, and calls no running process failed.                *)
(***************************************************************************)
EXTENDS LifecycleProofs

Early == Before \ {"drop"}
Launches(s) == IsStart(s) \/ op[s].kind = "restart"

\* where a handler leaves a component as it may rest
Resting(s, c) ==
  \/ op[s].pc \in {"clear", "mark", "final"} \/ op[s].kind = "reload"
  \/ op[s].pc = "run" /\ at[s][c] = "done" /\ op[s].kind # "stop"

TidyBut(c, k) == Other(k) \in proc[c] => st[c][Other(k)] \notin {"stopped", "error"}

Ordered(s, c) ==
  \/ Resting(s, c) /\ Tidy(c)
  \/ op[s].pc = "green" /\ Tidy(c) /\ "green" \notin proc[c]
  \/ /\ Launches(s) /\ op[s].pc = "run"
     /\ \/ at[s][c] \in Early /\ st[c][to[s][c]] = "starting" /\ Tidy(c)
        \/ at[s][c] = "switch" /\ st[c][to[s][c]] \in {"running", "starting"}
        \/ at[s][c] = "drop" /\ TidyBut(c, to[s][c])
  \/ /\ op[s].kind = "stop" /\ op[s].pc = "run"
     /\ \/ at[s][c] = "kill" /\ \A k \in Colours : st[c][k] = "stopping"
        \/ at[s][c] = "done" /\ proc[c] = {}

\* the statuses on their way
Wrote(s, c) ==
  IsStart(s) /\ \/ op[s].pc = "final"
                \/ op[s].pc = "run" /\ at[s][c] \in {"done", "drop"}
Harmless(c) == "error" \in writes[c] => "blue" \notin proc[c]
Owing(s, c) ==
  /\ writes[c] # {} => Wrote(s, c)
  /\ ~(IsStart(s) /\ op[s].pc = "run" /\ at[s][c] = "drop") => Harmless(c)

InOrder(s, c) == Ordered(s, c) /\ Owing(s, c)
Manned(s, c) == Engaged(s, c) /\ Alone(s, c) /\ InOrder(s, c)
Unmanned(c) == \A s \in Slots : ~Engaged(s, c)
Rests(c) == Tidy(c) /\ Harmless(c)
Neat(c) == ~muddled[c] => (Unmanned(c) /\ Rests(c)) \/ \E s \in Slots : Manned(s, c)

\* a slot that restarts nothing works on blue, and one that launches or stops
\* nothing has got nowhere
Plain(s, c) ==
  /\ op[s].kind # "restart" => to[s][c] = "blue"
  /\ op[s].kind \in {"none", "reload"} => at[s][c] = "none"

NeatInv == \A c \in Comps : Neat(c) /\ \A s \in Slots : Plain(s, c)

-----------------------------------------------------------------------------
(* Steps that leave a component alone, ...                                   *)
Apart(s, c) == ~Engaged(s, c) /\ Left(s, c)

LEMMA SameSlotNeat ==
  ASSUME NEW c, NEW s, SameSlot(s, c), SameState(c)
  PROVE  Engaged(s, c)' = Engaged(s, c) /\ (InOrder(s, c) => InOrder(s, c)')
<1>1. Engaged(s, c)' = Engaged(s, c)
  BY DEF SameSlot, Engaged
<1>2. Tidy(c)' = Tidy(c) /\ TidyBut(c, to[s][c])' = TidyBut(c, to[s][c])
  BY DEF SameSlot, SameState, Tidy, TidyBut
<1>3. Resting(s, c)' = Resting(s, c) /\ Launches(s)' = Launches(s)
  BY DEF SameSlot, Resting, Launches, IsStart
<1>4. Ordered(s, c) => Ordered(s, c)'
  BY <1>2, <1>3 DEF Ordered, SameSlot, SameState
<1>5. Owing(s, c) => Owing(s, c)'
  BY DEF Owing, Wrote, Harmless, IsStart, SameSlot, SameState
<1> QED  BY <1>1, <1>4, <1>5 DEF InOrder

LEMMA FrameNeat ==
  ASSUME NEW c \in Comps, Neat(c), muddled[c] => muddled'[c], SameState(c),
         \A s \in Slots : Apart(s, c) \/ SameSlot(s, c)
  PROVE  Neat(c)'
<1> SUFFICES ASSUME ~muddled'[c]
             PROVE  (Unmanned(c) /\ Rests(c))' \/ \E s \in Slots : Manned(s, c)'
  BY DEF Neat
<1>1. \A s \in Slots : Engaged(s, c)' = Engaged(s, c)
  <2> TAKE s \in Slots
  <2>1. CASE Apart(s, c)
    BY <2>1 DEF Apart, Left, Engaged
  <2>2. CASE SameSlot(s, c)
    BY <2>2, SameSlotNeat
  <2> QED  BY <2>1, <2>2
<1>2. CASE Unmanned(c) /\ Rests(c)
  <2>1. Unmanned(c)'
    BY <1>1, <1>2 DEF Unmanned
  <2>2. Rests(c)'
    BY <1>2 DEF Rests, Harmless, Tidy, SameState
  <2> QED  BY <2>1, <2>2
<1>3. CASE \E s \in Slots : Manned(s, c)
  <2>1. PICK s \in Slots : Manned(s, c)
    BY <1>3
  <2>2. SameSlot(s, c)
    BY <2>1 DEF Manned, Apart
  <2>3. InOrder(s, c)'
    BY <2>1, <2>2, SameSlotNeat DEF Manned
  <2>4. Engaged(s, c)' /\ Alone(s, c)'
    BY <1>1, <2>1 DEF Manned, Alone
  <2> QED  BY <2>3, <2>4 DEF Manned
<1> QED  BY <1>2, <1>3 DEF Neat

(* ... and steps of the slot that is engaged with it.                        *)
LEMMA WorkNeat ==
  ASSUME NEW c \in Comps, Neat(c), muddled[c] => muddled'[c], NEW s \in Slots,
         Engaged(s, c), \A t \in Slots \ {s} : SameSlot(t, c),
         ~muddled'[c] /\ InOrder(s, c) =>
           \/ Left(s, c) /\ Rests(c)'
           \/ Engaged(s, c)' /\ InOrder(s, c)'
  PROVE  Neat(c)'
<1> SUFFICES ASSUME ~muddled'[c]
             PROVE  (Unmanned(c) /\ Rests(c))' \/ \E t \in Slots : Manned(t, c)'
  BY DEF Neat
<1>1. PICK t \in Slots : Manned(t, c)
  BY DEF Neat, Unmanned
<1>2. t = s
  BY <1>1 DEF Manned, Alone
<1>3. \A u \in Slots \ {s} : ~Engaged(u, c)'
  BY <1>1, <1>2 DEF Manned, Alone, SameSlot, Engaged
<1>4. CASE Left(s, c) /\ Rests(c)'
  BY <1>3, <1>4 DEF Left, Unmanned, Engaged
<1>5. CASE Engaged(s, c)' /\ InOrder(s, c)'
  BY <1>3, <1>5 DEF Manned, Alone
<1> QED  BY <1>1, <1>2, <1>4, <1>5 DEF Manned

(* A request's step: apart from what it works on, nothing changes.           *)
LEMMA StepNeat ==
  ASSUME NEW c \in Comps, Neat(c), muddled[c] => muddled'[c], NEW s \in Slots,
         op[s].pc \notin {"queued", "parked"}, \A t \in Slots \ {s} : SameSlot(t, c),
         c \notin op[s].comps => SameState(c) /\ Left(s, c),
         c \in op[s].comps /\ ~muddled'[c] /\ InOrder(s, c) =>
           \/ Left(s, c) /\ Rests(c)'
           \/ Engaged(s, c)' /\ InOrder(s, c)'
  PROVE  Neat(c)'
<1>1. CASE c \in op[s].comps
  BY <1>1, WorkNeat DEF Engaged
<1>2. CASE c \notin op[s].comps
  BY <1>2, FrameNeat DEF Apart, Engaged
<1> QED  BY <1>1, <1>2

(* A slot begins to work on components that rest.                            *)
LEMMA BeginNeat ==
  ASSUME NEW c \in Comps, Neat(c), NEW s \in Slots, NEW D, NEW keeps,
         Begin(s, D, keeps), c \in D, SameState(c),
         Engaged(s, c) /\ InOrder(s, c) => Tidy(c),
         \A t \in Slots \ {s} : SameSlot(t, c),
         Engaged(s, c)', op'[s].pc \in {"clear", "mark"}
  PROVE  Neat(c)'
<1> SUFFICES ASSUME ~muddled'[c] PROVE \E t \in Slots : Manned(t, c)'
  BY DEF Neat
<1>1. ~muddled[c] /\ writes[c] = {} /\ \A t \in Slots \ {s} : ~Engaged(t, c)
  BY DEF Begin
<1>2. Tidy(c)
  <2>1. CASE Unmanned(c) /\ Rests(c)
    BY <2>1 DEF Rests
  <2>2. CASE \E t \in Slots : Manned(t, c)
    BY <1>1, <2>2 DEF Manned
  <2> QED  BY <1>1, <2>1, <2>2 DEF Neat
<1>3. InOrder(s, c)'
  <2>1. Ordered(s, c)'
    BY <1>2 DEF Ordered, Resting, Tidy, SameState
  <2>2. Owing(s, c)'
    BY <1>1 DEF Owing, Harmless, SameState
  <2> QED  BY <2>1, <2>2 DEF InOrder
<1>4. Alone(s, c)'
  BY <1>1 DEF Alone, SameSlot, Engaged
<1> QED  BY <1>3, <1>4 DEF Manned

LEMMA BeginMuddles ==
  ASSUME NEW c \in Comps, NEW s, NEW D, NEW keeps, Begin(s, D, keeps)
  PROVE  muddled[c] => muddled'[c]
BY DEF Begin

LEMMA MuddleMuddles ==
  ASSUME NEW c \in Comps, NEW D, Muddle(D)
  PROVE  (muddled[c] => muddled'[c]) /\ (c \in D => muddled'[c])
BY DEF Muddle

(* A slot leaves.                                                            *)
LEMMA RestNeat ==
  ASSUME NEW c \in Comps, NEW D, Rest(D), muddled[c], ~muddled'[c]
  PROVE  Neat(c)'
<1>1. ~Busy(c)' /\ Tidy(c)'
  BY DEF Rest
<1>2. Unmanned(c)' /\ writes'[c] = {}
  BY <1>1 DEF Busy, Unmanned
<1> QED  BY <1>1, <1>2 DEF Neat, Rests, Harmless

LEMMA LeaveNeat ==
  ASSUME TypeOK, NEW c \in Comps, Neat(c), NEW s \in Slots,
         op[s].pc \notin {"queued", "parked"}, NEW D, Leave(s), Rest(D),
         c \notin op[s].comps => SameState(c),
         c \in op[s].comps /\ InOrder(s, c) => Rests(c)'
  PROVE  Neat(c)'
<1>1. Left(s, c) /\ \A t \in Slots \ {s} : SameSlot(t, c)
  BY LeaveSlots
<1>2. CASE muddled[c] => muddled'[c]
  BY <1>1, <1>2, StepNeat
<1>3. CASE muddled[c] /\ ~muddled'[c]
  BY <1>3, RestNeat
<1> QED  BY <1>2, <1>3

-----------------------------------------------------------------------------
(* What the shared pieces write.                                             *)
LEMMA ProcColours == ASSUME TypeOK, NEW c \in Comps PROVE proc[c] \subseteq Colours
BY DEF TypeOK

LEMMA SetStatusGives ==
  ASSUME TypeOK, NEW D, NEW K \in SUBSET Colours, NEW status, SetStatus(D, K, status),
         NEW c \in D, c \in Comps
  PROVE  \A k \in Colours : st'[c][k] = IF k \in K THEN status ELSE st[c][k]
BY DEF SetStatus

\* ... or what it held, when the store refuses a statement
LEMMA RefusedGives ==
  ASSUME TypeOK, NEW D, NEW K \in SUBSET Colours, NEW status, Refused(D, K, status),
         NEW c \in Comps
  PROVE  \A k \in Colours : st'[c][k] = st[c][k] \/ (k \in K /\ st'[c][k] = status)
<1>1. PICK E \in SUBSET D : SetStatus(E, K, status)
  BY DEF Refused
<1> QED  BY <1>1 DEF SetStatus

LEMMA WriteStatusGives ==
  ASSUME TypeOK, NEW D, NEW K \in SUBSET Colours, NEW status, WriteStatus(D, K, status),
         NEW c \in Comps
  PROVE  \A k \in Colours : st'[c][k] = st[c][k] \/ (k \in K /\ st'[c][k] = status)
<1>1. CASE SetStatus(D, K, status)
  BY <1>1 DEF SetStatus
<1>2. CASE Refused(D, K, status)
  BY <1>2, RefusedGives
<1> QED  BY <1>1, <1>2 DEF WriteStatus

\* statuses that are neither stopped nor error leave a component tidy
LEMMA StaysTidy ==
  ASSUME TypeOK, NEW c \in Comps, Tidy(c), NEW status \in Statuses \ {"stopped", "error"},
         \A k \in Colours : st'[c][k] \in {st[c][k], status}, proc'[c] \subseteq proc[c]
  PROVE  Tidy(c)'
BY ProcColours DEF Tidy

LEMMA DeleteProcessGives ==
  ASSUME TypeOK, NEW D, NEW K, DeleteProcess(D, K), NEW c \in D, c \in Comps
  PROVE  proc'[c] = proc[c] \ K
BY DEF DeleteProcess

LEMMA MarkTargetsGives ==
  ASSUME TypeOK, NEW s \in Slots, NEW D, MarkTargets(s, D), NEW c \in Comps
  PROVE  /\ \A k \in Colours : st'[c][k] = st[c][k] \/ st'[c][k] = "starting"
         /\ c \in D => st'[c][to[s][c]] = "starting"
<1>1. st[c] \in [Colours -> Statuses] /\ to[s][c] \in Colours
  BY DEF TypeOK
<1>2. st'[c] = IF c \in D THEN [st[c] EXCEPT ![to[s][c]] = "starting"] ELSE st[c]
  BY DEF MarkTargets
<1> QED  BY <1>1, <1>2

-----------------------------------------------------------------------------
(* Each action keeps what is in order.                                       *)
LEMMA Silent ==
  ASSUME NEW c, NEW s, InOrder(s, c), ~Wrote(s, c) PROVE Ordered(s, c) /\ writes[c] = {}
BY DEF InOrder, Owing

LEMMA SilentInOrder ==
  ASSUME NEW c, NEW s, Ordered(s, c)', writes'[c] = {} PROVE InOrder(s, c)'
BY DEF InOrder, Owing, Harmless

LEMMA SilentRests == ASSUME NEW c, Tidy(c)', writes'[c] = {} PROVE Rests(c)'
BY DEF Rests, Harmless

LEMMA CallNeat ==
  ASSUME TypeOK, NEW c \in Comps, Neat(c), NEW s \in Callers,
         NEW kind \in Kinds \ {"none", "retry"}, NEW D \in SUBSET Comps, Call(s, kind, D)
  PROVE  Neat(c)'
<1> DEFINE pc == CASE kind = "start" -> "clear" [] kind = "restart" -> "queued"
                   [] OTHER -> "mark"
<1>1. op' = [op EXCEPT ![s] = Doing(kind, D, pc)] /\ s \in Slots
  BY SlotFacts DEF Call
<1>2. \A t \in Slots \ {s} : SameSlot(t, c)
  <2>1. \A t \in Slots \ {s} : op'[t] = op[t]
    <3> HIDE DEF pc
    <3> QED  BY <1>1, OpType
  <2> QED  BY <2>1, OthersSlots, <1>1 DEF Call
<1>3. SameState(c) /\ ~Engaged(s, c)
  BY DEF Call, SameState, Engaged, Idle, Doing
<1>4. op'[s].comps = D /\ op'[s].pc = pc
  <2> HIDE DEF pc
  <2> QED  BY <1>1, OpType DEF Doing
<1>5. CASE kind = "restart"
  <2>1. Apart(s, c)
    BY <1>3, <1>4, <1>5 DEF Left, Apart
  <2>2. muddled' = muddled
    BY <1>5 DEF Call, history
  <2> QED  BY <1>1, <1>2, <1>3, <2>1, <2>2, FrameNeat
<1>6. CASE kind # "restart"
  <2>1. Begin(s, D, FALSE)
    BY <1>6 DEF Call
  <2>2. CASE c \in D
    <3>1. Engaged(s, c)' /\ op'[s].pc \in {"clear", "mark"}
      BY <1>4, <1>6, <2>2 DEF Engaged
    <3> QED  BY <1>1, <1>2, <1>3, <2>1, <2>2, <3>1, BeginNeat
  <2>3. CASE c \notin D
    <3>1. Apart(s, c)
      BY <1>3, <1>4, <2>3 DEF Left, Apart
    <3> QED  BY <1>1, <1>2, <1>3, <2>1, <3>1, BeginMuddles, FrameNeat
  <2> QED  BY <2>2, <2>3
<1> QED  BY <1>5, <1>6

LEMMA StartClearNeat ==
  ASSUME TypeOK, NEW c \in Comps, Neat(c), NEW s \in Slots, StartClear(s)
  PROVE  Neat(c)'
<1>1. PICK pc \in {"green", "mark"} : Goto(s, pc)
  BY DEF StartClear
<1>2. \A t \in Slots \ {s} : SameSlot(t, c)
  BY <1>1, GotoSlots, OthersSlots DEF StartClear
<1>3. muddled[c] => muddled'[c]
  BY MuddleMuddles DEF StartClear, history
<1>4. c \notin op[s].comps => SameState(c) /\ Left(s, c)
  BY <1>1, GotoSlots, DeleteProcessOthers DEF StartClear, SameState, Left
<1>5. ASSUME c \in op[s].comps, ~muddled'[c], InOrder(s, c)
      PROVE  Engaged(s, c)' /\ InOrder(s, c)'
  <2>1. DeleteProcess(op[s].comps, {"green"}) /\ Goto(s, "green") /\ st' = st
    BY <1>5, MuddleMuddles DEF StartClear
  <2>2. proc'[c] = proc[c] \ {"green"}
    BY <1>5, <2>1, DeleteProcessGives
  <2>3. Tidy(c) /\ writes'[c] = {}
    BY <1>5, Silent DEF Ordered, Wrote, StartClear
  <2>4. op'[s].pc = "green" /\ c \in op'[s].comps
    BY <1>5, <2>1, GotoSlots
  <2>5. Ordered(s, c)'
    BY <2>1, <2>2, <2>3, <2>4 DEF Ordered, Tidy
  <2> QED  BY <2>3, <2>4, <2>5, SilentInOrder DEF Engaged
<1> QED  BY <1>2, <1>3, <1>4, <1>5, StepNeat DEF StartClear

LEMMA StartGreenNeat ==
  ASSUME TypeOK, NEW c \in Comps, Neat(c), NEW s \in Slots, StartGreen(s)
  PROVE  Neat(c)'
<1>1. /\ Goto(s, "mark") /\ muddled' = muddled
      /\ WriteStatus(op[s].comps, {"green"}, "stopped")
  BY DEF StartGreen, history
<1>2. \A t \in Slots \ {s} : SameSlot(t, c)
  BY <1>1, GotoSlots, OthersSlots DEF StartGreen
<1>3. c \notin op[s].comps => SameState(c) /\ Left(s, c)
  BY <1>1, GotoSlots, WriteStatusOthers DEF StartGreen, SameState, Left
<1>4. ASSUME c \in op[s].comps, InOrder(s, c)
      PROVE  Engaged(s, c)' /\ InOrder(s, c)'
  <2>1. Tidy(c) /\ "green" \notin proc[c] /\ writes'[c] = {}
    BY <1>4, Silent DEF Ordered, Wrote, Resting, StartGreen, IsStart
  <2>2. \A k \in Colours : st'[c][k] = st[c][k] \/ k = "green"
    BY <1>1, WriteStatusGives DEF Colours
  <2>3. Tidy(c)'
    BY <2>1, <2>2, ProcColours DEF Tidy, StartGreen
  <2>4. op'[s].pc = "mark" /\ c \in op'[s].comps
    BY <1>1, <1>4, GotoSlots
  <2> QED  BY <2>1, <2>3, <2>4, SilentInOrder DEF Ordered, Resting, Engaged
<1> QED  BY <1>1, <1>2, <1>3, <1>4, StepNeat DEF StartGreen

LEMMA StartMarkNeat ==
  ASSUME TypeOK, NEW c \in Comps, Neat(c), NEW s \in Slots, StartMark(s), Plain(s, c)
  PROVE  Neat(c)'
<1>1. /\ Goto(s, "run") /\ SetAll(s, "wait") /\ muddled' = muddled /\ to' = to
      /\ SetStatus(op[s].comps, {"blue"}, "starting") /\ proc' = proc /\ writes' = writes
  BY DEF StartMark, history
<1>2. \A t \in Slots \ {s} : SameSlot(t, c)
  BY <1>1, GotoSlots, SetAllSlots, OthersSlots
<1>3. c \notin op[s].comps => SameState(c) /\ Left(s, c)
  BY <1>1, GotoSlots, SetStatusOthers DEF SameState, Left
<1>4. ASSUME c \in op[s].comps, InOrder(s, c)
      PROVE  Engaged(s, c)' /\ InOrder(s, c)'
  <2>1. Tidy(c) /\ writes'[c] = {}
    BY <1>1, <1>4, Silent DEF Ordered, Wrote, StartMark
  <2>2. \A k \in Colours : st'[c][k] = IF k \in {"blue"} THEN "starting" ELSE st[c][k]
    BY <1>1, <1>4, SetStatusGives DEF Colours
  <2>3. Tidy(c)' /\ st'[c]["blue"] = "starting"
    BY <1>1, <2>1, <2>2, ProcColours DEF Tidy, Colours
  <2>4. op'[s].pc = "run" /\ c \in op'[s].comps /\ op'[s].kind = op[s].kind /\ at'[s][c] = "wait"
    <3>1. op'[s].pc = "run" /\ c \in op'[s].comps /\ op'[s].kind = op[s].kind
      BY <1>1, <1>4, GotoSlots
    <3>2. at'[s][c] = "wait"
      BY <1>1, <1>4, SetAllSlots DEF Phases
    <3> QED  BY <3>1, <3>2
  <2>5. to'[s][c] = "blue" /\ Launches(s)'
    BY <1>1, <2>4 DEF Plain, StartMark, IsStart, Launches
  <2> QED  BY <2>1, <2>3, <2>4, <2>5, SilentInOrder DEF Ordered, Engaged, Early, Before
<1> QED  BY <1>1, <1>2, <1>3, <1>4, StepNeat DEF StartMark

LEMMA RestartMarkNeat ==
  ASSUME TypeOK, NEW c \in Comps, Neat(c), NEW s \in Slots, RestartMark(s)
  PROVE  Neat(c)'
<1>1. /\ Goto(s, "run") /\ SetAll(s, "wait") /\ muddled' = muddled /\ to' = to
      /\ MarkTargets(s, op[s].comps) /\ proc' = proc /\ writes' = writes
  BY DEF RestartMark, history
<1>2. \A t \in Slots \ {s} : SameSlot(t, c)
  BY <1>1, GotoSlots, SetAllSlots, OthersSlots
<1>3. c \notin op[s].comps => SameState(c) /\ Left(s, c)
  BY <1>1, GotoSlots, MarkTargetsOthers DEF SameState, Left
<1>4. ASSUME c \in op[s].comps, InOrder(s, c)
      PROVE  Engaged(s, c)' /\ InOrder(s, c)'
  <2>1. Tidy(c) /\ writes'[c] = {}
    BY <1>1, <1>4, Silent DEF Ordered, Wrote, RestartMark
  <2>2. Tidy(c)' /\ st'[c][to[s][c]] = "starting"
    BY <1>1, <1>4, <2>1, MarkTargetsGives, ProcColours DEF Tidy
  <2>3. op'[s].pc = "run" /\ c \in op'[s].comps /\ op'[s].kind = op[s].kind /\ at'[s][c] = "wait"
    <3>1. op'[s].pc = "run" /\ c \in op'[s].comps /\ op'[s].kind = op[s].kind
      BY <1>1, <1>4, GotoSlots
    <3>2. at'[s][c] = "wait"
      BY <1>1, <1>4, SetAllSlots DEF Phases
    <3> QED  BY <3>1, <3>2
  <2>4. Ordered(s, c)'
    BY <1>1, <2>2, <2>3 DEF Ordered, Early, Before, RestartMark, Launches
  <2> QED  BY <2>1, <2>3, <2>4, SilentInOrder DEF Engaged
<1> QED  BY <1>1, <1>2, <1>3, <1>4, StepNeat DEF RestartMark

LEMMA RestartThrowsNeat ==
  ASSUME TypeOK, NEW c \in Comps, Neat(c), NEW s \in Slots, RestartThrows(s)
  PROVE  Neat(c)'
<1>1. PICK D \in SUBSET op[s].comps : MarkTargets(s, D)
  BY DEF RestartThrows
<1>2. muddled' = muddled /\ proc' = proc /\ writes' = writes
  BY DEF RestartThrows, history
<1>3. Left(s, c) /\ \A t \in Slots \ {s} : SameSlot(t, c)
  BY LeaveSlots DEF RestartThrows
<1>4. c \notin op[s].comps => SameState(c)
  BY <1>1, <1>2, MarkTargetsOthers DEF SameState
<1>5. ASSUME c \in op[s].comps, InOrder(s, c) PROVE Rests(c)'
  <2>1. Tidy(c) /\ writes'[c] = {}
    BY <1>2, <1>5, Silent DEF Ordered, Wrote, RestartThrows
  <2>2. Tidy(c)'
    BY <1>1, <1>2, <2>1, MarkTargetsGives, ProcColours DEF Tidy
  <2> QED  BY <2>1, <2>2, SilentRests
<1> QED  BY <1>2, <1>3, <1>4, <1>5, StepNeat DEF RestartThrows

LEMMA RestartChooseNeat ==
  ASSUME TypeOK, NEW c \in Comps, Neat(c), NEW s \in Slots, RestartChoose(s)
  PROVE  Neat(c)'
<1>1. PICK f : to' = [to EXCEPT ![s] = f]
  BY DEF RestartChoose
<1>2. /\ Goto(s, "mark") /\ Begin(s, op[s].comps, TRUE) /\ SameState(c) /\ at' = at
      /\ op[s].pc = "queued"
  BY DEF RestartChoose, SameState
<1>3. \A t \in Slots \ {s} : SameSlot(t, c)
  BY <1>1, <1>2, GotoSlots, OthersSlots DEF TypeOK
<1>4. ~Engaged(s, c) /\ op'[s].pc = "mark" /\ op'[s].comps = op[s].comps
  BY <1>2, GotoSlots DEF Engaged
<1>5. CASE c \in op[s].comps
  BY <1>2, <1>3, <1>4, <1>5, BeginNeat DEF Engaged
<1>6. CASE c \notin op[s].comps
  BY <1>2, <1>3, <1>4, <1>6, BeginMuddles, FrameNeat DEF Apart, Left
<1> QED  BY <1>5, <1>6

LEMMA ThrowNeat ==
  ASSUME TypeOK, NEW c \in Comps, Neat(c), NEW s \in Slots, Throw(s),
         SameState(c), op[s].pc \notin {"queued", "parked"},
         c \in op[s].comps /\ InOrder(s, c) => Rests(c)
  PROVE  Neat(c)'
<1> DEFINE failed == {d \in Comps : \E k \in Colours : st[d][k] = "error"}
<1>0. Rests(c)' = Rests(c)
  BY DEF Rests, Harmless, Tidy, SameState
<1>1. CASE s = Dog /\ op[s].kind = "start" /\ failed # {}
  <2>1. /\ op' = [op EXCEPT ![s] = Doing("retry", failed, "clear")]
        /\ at' = [at EXCEPT ![s] = Nowhere] /\ to' = to
        /\ Begin(s, failed, FALSE)
    BY <1>1 DEF Throw
  <2> HIDE DEF failed
  <2>2. op'[s].comps = failed /\ op'[s].pc = "clear"
    BY <2>1, OpType DEF Doing
  <2>3. \A t \in Slots \ {s} : SameSlot(t, c)
    <3>1. \A t \in Slots \ {s} : op'[t] = op[t]
      BY <2>1, OpType
    <3>2. \A t \in Slots \ {s} : at'[t] = at[t] /\ to'[t] = to[t]
      BY <2>1 DEF TypeOK
    <3> QED  BY <3>1, <3>2, OthersSlots
  <2>4. CASE c \in failed
    BY <2>1, <2>2, <2>3, <2>4, BeginNeat DEF Engaged, Rests
  <2>5. CASE c \notin failed
    <3>1. Left(s, c)
      BY <2>2, <2>5 DEF Left
    <3> QED  BY <1>0, <2>1, <2>3, <3>1, BeginMuddles, StepNeat
  <2> QED  BY <2>4, <2>5
<1>2. CASE ~(s = Dog /\ op[s].kind = "start" /\ failed # {})
  <2>1. Leave(s) /\ Rest(op[s].comps)
    BY <1>2 DEF Throw
  <2> QED  BY <1>0, <2>1, LeaveNeat
<1> QED  BY <1>1, <1>2

LEMMA StartThrowsNeat ==
  ASSUME TypeOK, NEW c \in Comps, Neat(c), NEW s \in Slots, StartThrows(s)
  PROVE  Neat(c)'
<1>1. /\ Goto(s, "final") /\ muddled' = muddled /\ to' = to /\ at' = at
      /\ proc' = proc /\ writes' = writes
  BY DEF StartThrows, history
<1>2. \A t \in Slots \ {s} : SameSlot(t, c)
  BY <1>1, GotoSlots, OthersSlots
<1>3. st'[c] = st[c] \/ (c \in op[s].comps /\ Refused(op[s].comps, {"blue"}, "starting"))
  BY RefusedOthers DEF StartThrows
<1>4. c \notin op[s].comps => SameState(c) /\ Left(s, c)
  BY <1>1, <1>3, GotoSlots DEF SameState, Left
<1>5. ASSUME c \in op[s].comps, InOrder(s, c)
      PROVE  Engaged(s, c)' /\ InOrder(s, c)'
  <2>1. Tidy(c) /\ writes'[c] = {}
    BY <1>1, <1>5, Silent DEF StartThrows, Wrote, Ordered, Resting, IsStart
  <2>2. \A k \in Colours : st'[c][k] \in {st[c][k], "starting"}
    BY <1>3, RefusedGives DEF Colours
  <2>3. Tidy(c)'
    BY <1>1, <2>1, <2>2, StaysTidy DEF Statuses, InProgress
  <2>4. op'[s].pc = "final" /\ c \in op'[s].comps
    BY <1>1, <1>5, GotoSlots
  <2> QED  BY <2>1, <2>3, <2>4, SilentInOrder DEF Ordered, Resting, Engaged
<1> QED  BY <1>1, <1>2, <1>4, <1>5, StepNeat DEF StartThrows

LEMMA StartEndThrowsNeat ==
  ASSUME TypeOK, NEW c \in Comps, Neat(c), NEW s \in Slots, StartEndThrows(s)
  PROVE  Neat(c)'
<1>1. c \in op[s].comps /\ InOrder(s, c) => Rests(c)
  BY DEF StartEndThrows, InOrder, Ordered, Owing, Rests
<1> QED  BY <1>1, ThrowNeat DEF StartEndThrows, SameState

(* A step with one component.                                                *)
LEMMA CompNeat ==
  ASSUME TypeOK, NEW c \in Comps, NEW d \in Comps, Neat(c), NEW s \in Slots,
         NEW phase, Live(s, d, phase), NEW next, SetAt(s, d, next), op' = op, to' = to,
         muddled[c] => muddled'[c], c # d => SameState(c),
         c = d /\ ~muddled'[c] /\ InOrder(s, c) => InOrder(s, c)'
  PROVE  Neat(c)'
<1>1. CASE c # d
  <2>1. \A t \in Slots : SameSlot(t, c)
    BY <1>1, SetAtSlots DEF SameSlot
  <2> QED  BY <1>1, <2>1, FrameNeat
<1>2. CASE c = d
  <2>1. \A t \in Slots \ {s} : SameSlot(t, c)
    BY SetAtSlots DEF SameSlot
  <2>2. Engaged(s, c) /\ Engaged(s, c)'
    BY <1>2 DEF Live, Engaged
  <2> QED  BY <1>2, <2>1, <2>2, WorkNeat
<1> QED  BY <1>1, <1>2

LEMMA LiveEarly ==
  ASSUME NEW c, NEW s, NEW phase \in Early, Live(s, c, phase), InOrder(s, c), Plain(s, c)
  PROVE  Launches(s) /\ st[c][to[s][c]] = "starting" /\ Tidy(c) /\ writes[c] = {}
<1>1. at[s][c] \in Early /\ op[s].pc = "run"
  BY DEF Live
<1>2. ~Wrote(s, c)
  BY <1>1 DEF Wrote, Early, Before
<1> QED  BY <1>1, <1>2, Silent DEF Ordered, Plain, Early, Before, Resting

LEMMA EarlyGoes ==
  ASSUME TypeOK, NEW c \in Comps, NEW s \in Slots, Launches(s), op[s].pc = "run",
         NEW next \in Early, SetAt(s, c, next), op' = op, to' = to,
         st'[c][to[s][c]] = "starting", Tidy(c)', writes'[c] = {}
  PROVE  InOrder(s, c)'
<1>1. at'[s][c] \in Early
  BY SetAtSlots
<1>2. Launches(s)'
  BY DEF Launches, IsStart
<1> QED  BY <1>1, <1>2, SilentInOrder DEF Ordered

LEMMA LaunchNeat ==
  ASSUME TypeOK, NEW c \in Comps, Neat(c), NEW s \in Slots, Plain(s, c), NEW d \in Comps,
         Launch(s, d)
  PROVE  Neat(c)'
<1>1. PICK next \in {"acquire", "check"} : SetAt(s, d, next)
  BY DEF Launch
<1>2. /\ Live(s, d, "wait") /\ SameState(c) /\ muddled' = muddled /\ op' = op /\ to' = to
      /\ op[s].pc = "run"
  BY DEF Launch, SameState, history, Live
<1>3. ASSUME c = d, InOrder(s, c) PROVE InOrder(s, c)'
  <2>1. Launches(s) /\ st[c][to[s][c]] = "starting" /\ Tidy(c) /\ writes[c] = {}
    BY <1>2, <1>3, LiveEarly DEF Early, Before
  <2> QED  BY <1>1, <1>2, <1>3, <2>1, EarlyGoes DEF Early, Before, SameState, Tidy
<1> QED  BY <1>1, <1>2, <1>3, CompNeat

LEMMA AcquireNeat ==
  ASSUME TypeOK, NEW c \in Comps, Neat(c), NEW s \in Slots, Plain(s, c), NEW d \in Comps,
         Acquire(s, d)
  PROVE  Neat(c)'
<1>1. PICK next \in {"launch"} : SetAt(s, d, next)
  BY DEF Acquire
<1>2. /\ Live(s, d, "acquire") /\ SameState(c) /\ muddled' = muddled /\ op' = op /\ to' = to
      /\ op[s].pc = "run"
  BY DEF Acquire, SameState, history, Live
<1>3. ASSUME c = d, InOrder(s, c) PROVE InOrder(s, c)'
  <2>1. Launches(s) /\ st[c][to[s][c]] = "starting" /\ Tidy(c) /\ writes[c] = {}
    BY <1>2, <1>3, LiveEarly DEF Early, Before
  <2> QED  BY <1>1, <1>2, <1>3, <2>1, EarlyGoes DEF Early, Before, SameState, Tidy
<1> QED  BY <1>1, <1>2, <1>3, CompNeat

LEMMA LaunchedNeat ==
  ASSUME TypeOK, NEW c \in Comps, Neat(c), NEW s \in Slots, Plain(s, c), NEW d \in Comps,
         Launched(s, d)
  PROVE  Neat(c)'
<1>1. PICK next \in {"check", "failed"} : SetAt(s, d, next)
  BY DEF Launched
<1>2. /\ Live(s, d, "launch") /\ muddled' = muddled /\ op' = op /\ to' = to /\ st' = st
      /\ op[s].pc = "run" /\ writes' = writes
  BY DEF Launched, history, Live
<1>3. proc' = proc \/ proc' = [proc EXCEPT ![d] = proc[d] \cup {to[s][d]}]
  BY DEF Launched
<1>4. c # d => SameState(c)
  BY <1>2, <1>3 DEF SameState, TypeOK
<1>5. ASSUME c = d, InOrder(s, c) PROVE InOrder(s, c)'
  <2>1. Launches(s) /\ st[c][to[s][c]] = "starting" /\ Tidy(c) /\ writes[c] = {}
    BY <1>2, <1>5, LiveEarly DEF Early, Before
  <2>2. proc'[c] \subseteq proc[c] \cup {to[s][c]}
    BY <1>3, <1>5 DEF TypeOK
  <2>3. Tidy(c)'
    BY <1>2, <2>1, <2>2 DEF Tidy
  <2> QED  BY <1>1, <1>2, <1>5, <2>1, <2>3, EarlyGoes DEF Early, Before
<1> QED  BY <1>1, <1>2, <1>4, <1>5, CompNeat

LEMMA CheckNeat ==
  ASSUME TypeOK, NEW c \in Comps, Neat(c), NEW s \in Slots, Plain(s, c), NEW d \in Comps,
         Check(s, d)
  PROVE  Neat(c)'
<1>1. PICK next \in {"passed", "failed"} : SetAt(s, d, next)
  BY DEF Check
<1>2. /\ Live(s, d, "check") /\ SameState(c) /\ muddled' = muddled /\ op' = op /\ to' = to
      /\ op[s].pc = "run"
  BY DEF Check, SameState, history, Live
<1>3. ASSUME c = d, InOrder(s, c) PROVE InOrder(s, c)'
  <2>1. Launches(s) /\ st[c][to[s][c]] = "starting" /\ Tidy(c) /\ writes[c] = {}
    BY <1>2, <1>3, LiveEarly DEF Early, Before
  <2> QED  BY <1>1, <1>2, <1>3, <2>1, EarlyGoes DEF Early, Before, SameState, Tidy
<1> QED  BY <1>1, <1>2, <1>3, CompNeat

LEMMA PassedNeat ==
  ASSUME TypeOK, NEW c \in Comps, Neat(c), NEW s \in Slots, Plain(s, c), NEW d \in Comps,
         Passed(s, d)
  PROVE  Neat(c)'
<1>1. PICK next : SetAt(s, d, next)
  BY DEF Passed
<1>2. /\ Live(s, d, "passed") /\ muddled' = muddled /\ op' = op /\ to' = to /\ proc' = proc
      /\ op[s].pc = "run"
  BY DEF Passed, history, Live
<1>3. c # d => SameState(c)
  BY <1>2 DEF Passed, Write, SameState, TypeOK
<1>4. ASSUME c = d, InOrder(s, c) PROVE InOrder(s, c)'
  <2>1. /\ Launches(s) /\ Tidy(c) /\ Launches(s)' /\ writes[c] = {}
        /\ st[c][to[s][c]] = "starting"
    BY <1>2, <1>4, LiveEarly DEF Early, Before, Launches, IsStart
  <2>2. CASE IsStart(s) /\ Write(c, "running") /\ SetAt(s, c, "done") /\ UNCHANGED st
    <3>1. Tidy(c)'
      BY <1>2, <2>1, <2>2 DEF Tidy
    <3>2. at'[s][c] = "done"
      BY <2>2, SetAtSlots
    <3>3. "error" \notin writes'[c]
      <4>1. writes'[c] = {"running"}
        BY <2>1, <2>2 DEF Write, TypeOK
      <4> QED  BY <4>1
    <3>4. Ordered(s, c)'
      BY <1>2, <2>2, <3>1, <3>2 DEF Ordered, Resting, IsStart
    <3>5. Owing(s, c)'
      BY <1>2, <2>2, <3>2, <3>3 DEF Owing, Wrote, Harmless, IsStart
    <3> QED  BY <3>4, <3>5 DEF InOrder
  <2>3. CASE /\ SetAt(s, c, "switch") /\ UNCHANGED writes
             /\ \/ st' = [st EXCEPT ![c] = SwitchTo(c, to[s][c])]
                \/ st' = st
    <3>1. st[c] \in [Colours -> Statuses] /\ to[s][c] \in Colours
      BY DEF TypeOK
    <3>2. st'[c][to[s][c]] \in {"running", "starting"}
      <4>1. CASE st' = [st EXCEPT ![c] = SwitchTo(c, to[s][c])]
        <5>1. st'[c] = SwitchTo(c, to[s][c])
          BY <4>1 DEF TypeOK
        <5> QED  BY <3>1, <5>1 DEF SwitchTo, Other, Colours
      <4>2. CASE st' = st
        BY <2>1, <4>2
      <4> QED  BY <2>3, <4>1, <4>2
    <3>3. at'[s][c] = "switch"
      BY <2>3, SetAtSlots
    <3>4. Ordered(s, c)'
      BY <1>2, <2>1, <3>2, <3>3 DEF Ordered
    <3> QED  BY <2>1, <2>3, <3>4, SilentInOrder
  <2> QED  BY <1>4, <2>2, <2>3 DEF Passed
<1> QED  BY <1>1, <1>2, <1>3, <1>4, CompNeat

LEMMA RetireNeat ==
  ASSUME TypeOK, NEW c \in Comps, Neat(c), NEW s \in Slots, Plain(s, c), NEW d \in Comps,
         Retire(s, d)
  PROVE  Neat(c)'
<1>1. PICK next : SetAt(s, d, next)
  BY DEF Retire
<1>2. /\ Live(s, d, "switch") /\ op' = op /\ to' = to /\ st' = st /\ op[s].pc = "run"
      /\ writes' = writes
      /\ (muddled[c] => muddled'[c])
  BY MuddleMuddles DEF Retire, history, Live
<1>3. c # d => SameState(c)
  BY <1>2, DeleteProcessOthers DEF Retire, SameState
<1>4. ASSUME c = d, ~muddled'[c], InOrder(s, c) PROVE InOrder(s, c)'
  <2>1. SetAt(s, c, "done") /\ DeleteProcess({c}, {Other(to[s][c])})
    BY <1>4, MuddleMuddles DEF Retire
  <2>2. /\ Launches(s) /\ st[c][to[s][c]] \in {"running", "starting"}
        /\ writes'[c] = {}
    <3>1. at[s][c] = "switch" /\ ~Wrote(s, c)
      BY <1>2, <1>4 DEF Live, Wrote
    <3> QED  BY <1>2, <1>4, <3>1, Silent DEF Ordered, Resting, Plain, Early, Before
  <2>3. proc'[c] \subseteq {to[s][c]}
    <3>1. proc'[c] = proc[c] \ {Other(to[s][c])}
      BY <2>1, DeleteProcessGives
    <3>2. to[s][c] \in Colours /\ proc[c] \subseteq Colours
      BY DEF TypeOK
    <3> QED  BY <3>1, <3>2 DEF Other, Colours
  <2>4. Tidy(c)'
    BY <1>2, <2>2, <2>3 DEF Tidy
  <2>5. at'[s][c] = "done"
    BY <2>1, SetAtSlots
  <2>6. Ordered(s, c)'
    BY <1>2, <2>2, <2>4, <2>5 DEF Ordered, Resting, Launches, IsStart
  <2> QED  BY <2>2, <2>6, SilentInOrder
<1> QED  BY <1>1, <1>2, <1>3, <1>4, CompNeat

LEMMA FailedNeat ==
  ASSUME TypeOK, NEW c \in Comps, Neat(c), NEW s \in Slots, Plain(s, c), NEW d \in Comps,
         Failed(s, d)
  PROVE  Neat(c)'
<1>1. /\ Live(s, d, "failed") /\ SetAt(s, d, "drop") /\ muddled' = muddled
      /\ op' = op /\ to' = to /\ proc' = proc /\ op[s].pc = "run"
  BY DEF Failed, history, Live
<1>2. ASSUME c # d PROVE SameState(c)
  <2>1. writes'[c] = writes[c]
    BY <1>2 DEF Failed, Write, TypeOK
  <2>2. st'[c] = st[c]
    <3>1. CASE WriteStatus({d}, {to[s][d]}, "error")
      BY <1>2, <3>1, WriteStatusOthers
    <3>2. CASE UNCHANGED st
      BY <3>2
    <3> QED  BY <3>1, <3>2 DEF Failed
  <2> QED  BY <1>1, <2>1, <2>2 DEF SameState
<1>3. ASSUME c = d, InOrder(s, c) PROVE InOrder(s, c)'
  <2>1. Launches(s) /\ Tidy(c) /\ Launches(s)' /\ writes[c] = {}
    BY <1>1, <1>3, LiveEarly DEF Early, Before, Launches, IsStart
  <2>2. to[s][c] \in Colours
    BY DEF TypeOK
  <2>3. st'[c][Other(to[s][c])] = st[c][Other(to[s][c])]
    <3>1. CASE UNCHANGED st
      BY <3>1
    <3>2. CASE WriteStatus({d}, {to[s][d]}, "error")
      BY <1>3, <2>2, <3>2, WriteStatusGives DEF Other, Colours
    <3> QED  BY <3>1, <3>2 DEF Failed
  <2>4. TidyBut(c, to[s][c])'
    BY <1>1, <2>1, <2>2, <2>3 DEF TidyBut, Tidy, Other, Colours
  <2>5. at'[s][c] = "drop"
    BY <1>1, <1>3, SetAtSlots
  <2>6. Ordered(s, c)'
    BY <1>1, <2>1, <2>4, <2>5 DEF Ordered
  <2>7. Owing(s, c)'
    <3>1. CASE IsStart(s)
      BY <1>1, <2>5, <3>1 DEF Owing, Wrote, IsStart
    <3>2. CASE ~IsStart(s)
      <4>1. writes'[c] = {}
        BY <2>1, <3>2 DEF Failed
      <4> QED  BY <4>1 DEF Owing, Harmless
    <3> QED  BY <3>1, <3>2
  <2> QED  BY <2>6, <2>7 DEF InOrder
<1> QED  BY <1>1, <1>2, <1>3, CompNeat

LEMMA RestartDropNeat ==
  ASSUME TypeOK, NEW c \in Comps, Neat(c), NEW s \in Slots, Plain(s, c), NEW d \in Comps,
         RestartDrop(s, d)
  PROVE  Neat(c)'
<1>1. /\ Live(s, d, "drop") /\ SetAt(s, d, "done") /\ op[s].kind = "restart"
      /\ op' = op /\ to' = to /\ st' = st /\ writes' = writes /\ op[s].pc = "run"
      /\ (muddled[c] => muddled'[c])
  BY MuddleMuddles DEF RestartDrop, history, Live
<1>2. c # d => SameState(c)
  BY <1>1, DeleteProcessOthers DEF RestartDrop, SameState
<1>3. ASSUME c = d, ~muddled'[c], InOrder(s, c) PROVE InOrder(s, c)'
  <2>1. DeleteProcess({c}, {to[s][c]})
    BY <1>3, MuddleMuddles DEF RestartDrop
  <2>2. TidyBut(c, to[s][c]) /\ writes'[c] = {}
    <3>1. at[s][c] = "drop" /\ ~Wrote(s, c)
      BY <1>1, <1>3 DEF Live, Wrote, IsStart
    <3> QED  BY <1>1, <1>3, <3>1, Silent DEF Ordered, Resting, Early, Before
  <2>3. proc'[c] = proc[c] \ {to[s][c]} /\ to[s][c] \in Colours /\ proc[c] \subseteq Colours
    <3>1. proc'[c] = proc[c] \ {to[s][c]}
      BY <2>1, DeleteProcessGives
    <3>2. to[s][c] \in Colours /\ proc[c] \subseteq Colours
      BY DEF TypeOK
    <3> QED  BY <3>1, <3>2
  <2>4. Tidy(c)'
    BY <1>1, <2>2, <2>3 DEF Tidy, TidyBut, Other, Colours
  <2>5. at'[s][c] = "done"
    BY <1>1, <1>3, SetAtSlots
  <2> QED  BY <1>1, <2>2, <2>4, <2>5, SilentInOrder DEF Ordered, Resting
<1> QED  BY <1>1, <1>2, <1>3, CompNeat

LEMMA StopKillNeat ==
  ASSUME TypeOK, NEW c \in Comps, Neat(c), NEW s \in Slots, Plain(s, c), NEW d \in Comps,
         StopKill(s, d)
  PROVE  Neat(c)'
<1>1. PICK next : SetAt(s, d, next)
  BY DEF StopKill
<1>2. /\ Live(s, d, "kill") /\ op' = op /\ to' = to /\ st' = st /\ op[s].pc = "run"
      /\ writes' = writes
      /\ (muddled[c] => muddled'[c])
  BY MuddleMuddles DEF StopKill, history, Live
<1>3. c # d => SameState(c)
  BY <1>2, DeleteProcessOthers DEF StopKill, SameState
<1>4. ASSUME c = d, ~muddled'[c], InOrder(s, c) PROVE InOrder(s, c)'
  <2>1. SetAt(s, c, "done") /\ DeleteProcess({c}, Colours)
    BY <1>4, MuddleMuddles DEF StopKill
  <2>2. op[s].kind = "stop" /\ writes'[c] = {}
    <3>1. at[s][c] = "kill" /\ ~Wrote(s, c)
      BY <1>2, <1>4 DEF Live, Wrote
    <3> QED  BY <1>2, <1>4, <3>1, Silent DEF Ordered, Resting, Plain, Early, Before
  <2>3. proc'[c] = {}
    BY <2>1, DeleteProcessGives, ProcColours
  <2>4. at'[s][c] = "done"
    BY <2>1, SetAtSlots
  <2> QED  BY <1>2, <2>2, <2>3, <2>4, SilentInOrder DEF Ordered
<1> QED  BY <1>1, <1>2, <1>3, <1>4, CompNeat

LEMMA RestartEndNeat ==
  ASSUME TypeOK, NEW c \in Comps, Neat(c), NEW s \in Slots, RestartEnd(s)
  PROVE  Neat(c)'
<1>1. /\ SameState(c) /\ Leave(s) /\ Rest(op[s].comps)
      /\ op[s].pc \notin {"queued", "parked"}
  BY DEF RestartEnd, SameState
<1>2. ASSUME c \in op[s].comps, InOrder(s, c) PROVE Rests(c)'
  <2>1. Ordered(s, c) /\ writes'[c] = {} /\ at[s][c] = "done"
    BY <1>1, <1>2, Silent DEF RestartEnd, Wrote, IsStart, SameState
  <2>2. Tidy(c)'
    BY <1>1, <2>1 DEF RestartEnd, Ordered, Tidy, SameState, Early, Before
  <2> QED  BY <2>1, <2>2, SilentRests
<1> QED  BY <1>1, <1>2, LeaveNeat

LEMMA StartEndNeat ==
  ASSUME TypeOK, NEW c \in Comps, Neat(c), NEW s \in Slots, Plain(s, c), StartEnd(s)
  PROVE  Neat(c)'
<1> DEFINE dropped == {d \in op[s].comps : at[s][d] = "drop"}
<1>1. /\ DeleteProcess(dropped, {"blue"}) /\ Leave(s) /\ Rest(op[s].comps)
      /\ st' = st /\ writes' = writes /\ IsStart(s) /\ op[s].pc = "run"
  BY DEF StartEnd
<1>2. c \notin dropped => SameState(c)
  BY <1>1, DeleteProcessOthers DEF SameState
<1>3. ASSUME c \in op[s].comps, InOrder(s, c) PROVE Rests(c)'
  <2>1. CASE c \in dropped
    <3>1. TidyBut(c, "blue")
      BY <1>1, <1>3, <2>1 DEF InOrder, Ordered, Resting, Plain, IsStart, Early, Before
    <3>2. proc'[c] = proc[c] \ {"blue"} /\ proc[c] \subseteq Colours
      <4> HIDE DEF dropped
      <4> QED  BY <1>1, <2>1, DeleteProcessGives, ProcColours
    <3> QED  BY <1>1, <3>1, <3>2 DEF Rests, Harmless, Tidy, TidyBut, Other, Colours
  <2>2. CASE c \notin dropped
    <3>1. at[s][c] = "done"
      BY <1>3, <2>2 DEF StartEnd
    <3>2. Tidy(c)
      BY <1>1, <1>3, <3>1 DEF InOrder, Ordered, Early, Before, IsStart
    <3>3. Harmless(c)
      BY <1>3, <3>1 DEF InOrder, Owing
    <3> QED  BY <1>2, <2>2, <3>2, <3>3 DEF Rests, Harmless, Tidy, SameState
  <2> QED  BY <2>1, <2>2
<1>4. op[s].pc \notin {"queued", "parked"} /\ (c \notin op[s].comps => SameState(c))
  BY <1>1, <1>2
<1> HIDE DEF dropped
<1> QED  BY <1>1, <1>3, <1>4, LeaveNeat

LEMMA StartEndFailsNeat ==
  ASSUME TypeOK, NEW c \in Comps, Neat(c), NEW s \in Slots, StartEndFails(s)
  PROVE  Neat(c)'
<1>0. Goto(s, "final") /\ at' = at /\ to' = to
  BY DEF StartEndFails
<1>1. Goto(s, "final") /\ Muddle({d \in op[s].comps : at[s][d] = "drop"}) /\ SameState(c)
  BY DEF StartEndFails, SameState
<1>2. \A t \in Slots \ {s} : SameSlot(t, c)
  BY <1>0, GotoSlots, OthersSlots
<1>3. c \notin op[s].comps => Left(s, c)
  BY <1>1, GotoSlots DEF Left
<1>4. ASSUME c \in op[s].comps, ~muddled'[c], InOrder(s, c)
      PROVE  Engaged(s, c)' /\ InOrder(s, c)'
  <2>1. at[s][c] = "done"
    BY <1>1, <1>4, MuddleMuddles DEF StartEndFails
  <2>2. Tidy(c)'
    BY <1>1, <1>4, <2>1
    DEF StartEndFails, InOrder, Ordered, Early, Before, IsStart, Tidy, SameState
  <2>3. /\ op'[s].pc = "final" /\ c \in op'[s].comps /\ op'[s].kind = op[s].kind
        /\ IsStart(s)
    BY <1>1, <1>4, GotoSlots DEF StartEndFails
  <2>4. Ordered(s, c)'
    BY <2>2, <2>3 DEF Ordered, Resting
  <2>5. Harmless(c)'
    BY <1>1, <1>4, <2>1 DEF InOrder, Owing, Harmless, SameState
  <2>6. Owing(s, c)'
    BY <2>3, <2>5 DEF Owing, Wrote, IsStart
  <2> QED  BY <2>3, <2>4, <2>6 DEF InOrder, Engaged
<1> QED  BY <1>1, <1>2, <1>3, <1>4, MuddleMuddles, StepNeat DEF StartEndFails

LEMMA StopMarkNeat ==
  ASSUME TypeOK, NEW c \in Comps, Neat(c), NEW s \in Slots, StopMark(s)
  PROVE  Neat(c)'
<1>1. /\ Goto(s, "run") /\ SetAll(s, "kill") /\ muddled' = muddled /\ to' = to
      /\ SetStatus(op[s].comps, Colours, "stopping") /\ proc' = proc /\ writes' = writes
  BY DEF StopMark, history
<1>2. \A t \in Slots \ {s} : SameSlot(t, c)
  BY <1>1, GotoSlots, SetAllSlots, OthersSlots
<1>3. c \notin op[s].comps => SameState(c) /\ Left(s, c)
  BY <1>1, GotoSlots, SetStatusOthers DEF SameState, Left
<1>4. ASSUME c \in op[s].comps, InOrder(s, c) PROVE Engaged(s, c)' /\ InOrder(s, c)'
  <2>0. writes'[c] = {}
    BY <1>1, <1>4, Silent DEF StopMark, Wrote, IsStart
  <2>1. \A k \in Colours : st'[c][k] = "stopping"
    BY <1>1, <1>4, SetStatusGives
  <2>2. op'[s].pc = "run" /\ c \in op'[s].comps /\ op'[s].kind = "stop"
    BY <1>1, <1>4, GotoSlots DEF StopMark
  <2>3. at'[s][c] = "kill"
    BY <1>1, <1>4, SetAllSlots
  <2> QED  BY <2>0, <2>1, <2>2, <2>3, SilentInOrder DEF Ordered, Engaged
<1> QED  BY <1>1, <1>2, <1>3, <1>4, StepNeat DEF StopMark

LEMMA StopThrowsNeat ==
  ASSUME TypeOK, NEW c \in Comps, Neat(c), NEW s \in Slots, StopThrows(s)
  PROVE  Neat(c)'
<1>1. /\ Refused(op[s].comps, Colours, "stopping") /\ proc' = proc /\ writes' = writes
      /\ Leave(s) /\ Rest(op[s].comps) /\ op[s].pc = "mark" /\ op[s].kind = "stop"
  BY DEF StopThrows
<1>2. c \notin op[s].comps => SameState(c)
  BY <1>1, RefusedOthers DEF SameState
<1>3. ASSUME c \in op[s].comps, InOrder(s, c) PROVE Rests(c)'
  <2>1. Tidy(c) /\ writes'[c] = {}
    BY <1>1, <1>3, Silent DEF Ordered, Wrote, IsStart
  <2>2. \A k \in Colours : st'[c][k] \in {st[c][k], "stopping"}
    BY <1>1, RefusedGives
  <2>3. Tidy(c)'
    BY <1>1, <2>1, <2>2, StaysTidy DEF Statuses, InProgress
  <2> QED  BY <2>1, <2>3, SilentRests
<1> QED  BY <1>1, <1>2, <1>3, LeaveNeat

LEMMA StopEndNeat ==
  ASSUME TypeOK, NEW c \in Comps, Neat(c), NEW s \in Slots, StopEnd(s)
  PROVE  Neat(c)'
<1>1. PICK status : WriteStatus(op[s].comps, Colours, status)
  BY DEF StopEnd
<1>2. /\ proc' = proc /\ writes' = writes /\ Leave(s) /\ Rest(op[s].comps)
      /\ op[s].kind = "stop" /\ op[s].pc = "run"
  BY DEF StopEnd
<1>3. c \notin op[s].comps => SameState(c)
  BY <1>1, <1>2, WriteStatusOthers DEF SameState
<1>4. ASSUME c \in op[s].comps, InOrder(s, c) PROVE Rests(c)'
  <2>1. Ordered(s, c) /\ writes'[c] = {}
    BY <1>2, <1>4, Silent DEF Wrote, IsStart
  <2>2. at[s][c] \in {"done", "failed"}
    BY <1>4 DEF StopEnd
  <2>3. proc[c] = {}
    BY <1>2, <2>1, <2>2 DEF Ordered, Resting, Launches, IsStart
  <2>4. Tidy(c)'
    BY <1>2, <2>3 DEF Tidy
  <2> QED  BY <2>1, <2>4, SilentRests
<1> QED  BY <1>2, <1>3, <1>4, LeaveNeat

LEMMA ReloadTidy ==
  ASSUME NEW c, NEW s, op[s].kind = "reload", InOrder(s, c), op[s].pc \in {"mark", "run"}
  PROVE  Tidy(c) /\ writes[c] = {}
BY Silent DEF Wrote, Ordered, Launches, IsStart

LEMMA ReloadNeat ==
  ASSUME TypeOK, NEW c \in Comps, Neat(c), NEW s \in Slots, Reload(s)
  PROVE  Neat(c)'
<1>1. Goto(s, "run")
  BY DEF Reload
<1>2. SameState(c) /\ muddled' = muddled /\ to' = to /\ at' = at
  BY DEF Reload, SameState, history
<1>3. \A t \in Slots \ {s} : SameSlot(t, c)
  BY <1>1, <1>2, GotoSlots, OthersSlots
<1>4. c \notin op[s].comps => Left(s, c)
  BY <1>1, GotoSlots DEF Left
<1>5. ASSUME c \in op[s].comps, InOrder(s, c) PROVE Engaged(s, c)' /\ InOrder(s, c)'
  <2>1. Tidy(c)' /\ writes'[c] = {}
    BY <1>2, <1>5, ReloadTidy DEF Reload, Tidy, SameState
  <2>2. op'[s].kind = "reload" /\ op'[s].pc = "run" /\ c \in op'[s].comps
    BY <1>1, <1>5, GotoSlots DEF Reload
  <2> QED  BY <2>1, <2>2, SilentInOrder DEF Ordered, Resting, Engaged
<1> QED  BY <1>2, <1>3, <1>4, <1>5, StepNeat DEF Reload

LEMMA ReloadThrowsNeat ==
  ASSUME TypeOK, NEW c \in Comps, Neat(c), NEW s \in Slots, ReloadThrows(s)
  PROVE  Neat(c)'
<1>1. /\ SameState(c) /\ Leave(s) /\ Rest(op[s].comps)
      /\ op[s].pc = "mark" /\ op[s].kind = "reload"
  BY DEF ReloadThrows, SameState
<1>2. ASSUME c \in op[s].comps, InOrder(s, c) PROVE Rests(c)'
  BY <1>1, <1>2, ReloadTidy, SilentRests DEF Tidy, SameState
<1> QED  BY <1>1, <1>2, LeaveNeat

LEMMA ReloadedNeat ==
  ASSUME TypeOK, NEW c \in Comps, Neat(c), NEW s \in Slots, Reloaded(s)
  PROVE  Neat(c)'
<1>1. /\ WriteStatus(op[s].comps, {"blue"}, "running") /\ proc' = proc /\ writes' = writes
      /\ Leave(s) /\ Rest(op[s].comps) /\ op[s].pc = "run" /\ op[s].kind = "reload"
  BY DEF Reloaded
<1>2. c \notin op[s].comps => SameState(c)
  BY <1>1, WriteStatusOthers DEF SameState
<1>3. ASSUME c \in op[s].comps, InOrder(s, c) PROVE Rests(c)'
  <2>1. Tidy(c) /\ writes'[c] = {}
    BY <1>1, <1>3, ReloadTidy
  <2>2. \A k \in Colours : st'[c][k] \in {st[c][k], "running"}
    BY <1>1, WriteStatusGives DEF Colours
  <2>3. Tidy(c)'
    BY <1>1, <2>1, <2>2, StaysTidy DEF Statuses
  <2> QED  BY <2>1, <2>3, SilentRests
<1> QED  BY <1>1, <1>2, <1>3, LeaveNeat

(* A status arrives: running harms nobody, and error finds no process or one *)
(* that is about to be deleted.                                              *)
LEMMA LandedTidy ==
  ASSUME TypeOK, NEW c \in Comps, NEW result \in Results, Land(c, result), Rests(c)
  PROVE  Rests(c)'
<1>1. writes'[c] \subseteq writes[c] /\ result \in writes[c] /\ proc' = proc
  BY DEF Land, TypeOK
<1>2. \A k \in Colours : st'[c][k] \in {st[c][k], result} /\ (k # "blue" => st'[c][k] = st[c][k])
  BY WriteStatusGives DEF Land, Colours
<1>3. Tidy(c)'
  <2>1. CASE result = "running"
    BY <1>1, <1>2, <2>1, StaysTidy DEF Rests, Statuses
  <2>2. CASE result = "error"
    BY <1>1, <1>2, <2>2, ProcColours DEF Rests, Harmless, Tidy
  <2> QED  BY <2>1, <2>2 DEF Results
<1> QED  BY <1>1, <1>3 DEF Rests, Harmless

LEMMA LandedInOrder ==
  ASSUME TypeOK, NEW c \in Comps, NEW result \in Results, Land(c, result),
         NEW s \in Slots, Plain(s, c), InOrder(s, c)
  PROVE  InOrder(s, c)'
<1>1. /\ writes'[c] \subseteq writes[c] /\ result \in writes[c]
      /\ UNCHANGED <<proc, op, at, to>>
  BY DEF Land, TypeOK
<1>2. Wrote(s, c) /\ Wrote(s, c)'
  BY <1>1 DEF InOrder, Owing, Wrote, IsStart
<1>3. CASE op[s].pc = "run" /\ at[s][c] = "drop"
  <2>1. TidyBut(c, "blue") /\ to[s][c] = "blue"
    BY <1>2, <1>3 DEF InOrder, Ordered, Wrote, Resting, Plain, IsStart, Early, Before
  <2>2. st'[c]["green"] = st[c]["green"]
    BY WriteStatusGives DEF Land, Colours
  <2>3. TidyBut(c, to[s][c])'
    BY <1>1, <2>1, <2>2 DEF TidyBut, Other
  <2>4. Ordered(s, c)'
    BY <1>1, <1>2, <1>3, <2>3 DEF Ordered, Launches, Wrote
  <2>5. Owing(s, c)'
    BY <1>1, <1>2, <1>3 DEF Owing, Wrote, IsStart
  <2> QED  BY <2>4, <2>5 DEF InOrder
<1>4. CASE ~(op[s].pc = "run" /\ at[s][c] = "drop")
  <2>1. Harmless(c)
    BY <1>4 DEF InOrder, Owing
  <2>2. Tidy(c)
    BY <1>2, <1>4 DEF InOrder, Ordered, Wrote, Resting, IsStart, Early, Before
  <2>3. Rests(c)'
    BY <2>1, <2>2, LandedTidy DEF Rests
  <2>4. Ordered(s, c)'
    BY <1>1, <1>2, <1>4, <2>3 DEF Ordered, Resting, Rests, Wrote, IsStart
  <2>5. Owing(s, c)'
    BY <1>2, <2>3 DEF Owing, Rests
  <2> QED  BY <2>4, <2>5 DEF InOrder
<1> QED  BY <1>3, <1>4

LEMMA LandNeat ==
  ASSUME TypeOK, NEW c \in Comps, Neat(c), \A s \in Slots : Plain(s, c),
         NEW d \in Comps, NEW result \in Results, Land(d, result)
  PROVE  Neat(c)'
<1>1. op' = op /\ at' = at /\ to' = to /\ Rest({d})
  BY DEF Land
<1>2. \A s \in Slots : Engaged(s, c)' = Engaged(s, c) /\ SameSlot(s, c)
  BY <1>1 DEF Engaged, SameSlot
<1>3. CASE muddled[c]
  <2>1. CASE muddled'[c]
    BY <2>1 DEF Neat
  <2> QED  BY <1>1, <1>3, <2>1, RestNeat
<1>4. CASE ~muddled[c] /\ c # d
  <2>1. st'[c] = st[c]
    BY <1>4, WriteStatusOthers DEF Land
  <2>2. writes'[c] = writes[c] /\ proc'[c] = proc[c]
    BY <1>4 DEF Land, TypeOK
  <2> QED  BY <1>2, <1>4, <2>1, <2>2, FrameNeat DEF SameState
<1>5. CASE ~muddled[c] /\ c = d
  <2>1. CASE Unmanned(c) /\ Rests(c)
    BY <1>2, <1>5, <2>1, LandedTidy DEF Neat, Unmanned
  <2>2. CASE \E s \in Slots : Manned(s, c)
    <3>1. PICK s \in Slots : Manned(s, c)
      BY <2>2
    <3>2. InOrder(s, c)'
      BY <1>5, <3>1, LandedInOrder DEF Manned
    <3>3. Engaged(s, c)' /\ Alone(s, c)'
      BY <1>2, <3>1 DEF Manned, Alone
    <3> QED  BY <3>2, <3>3 DEF Neat, Manned
  <2> QED  BY <1>5, <2>1, <2>2 DEF Neat
<1> QED  BY <1>3, <1>4, <1>5

LEMMA WatchNeat ==
  ASSUME TypeOK, NEW c \in Comps, Neat(c), WatchStep
  PROVE  Neat(c)'
<1>1. muddled' = muddled /\ SameState(c) /\ \A s \in Slots : SameSlot(s, c)
  BY DEF WatchStep, GetRunning, GetFake, SameState, SameSlot, work, history
<1> QED  BY <1>1, FrameNeat

LEMMA TakeEntryNeat ==
  ASSUME TypeOK, NEW c \in Comps, Neat(c), TakeEntry
  PROVE  Neat(c)'
<1>1. /\ op' = [op EXCEPT ![Dog] = Doing("start", queue, "clear")] /\ op[Dog] = Idle
      /\ Begin(Dog, queue, FALSE) /\ at' = at /\ to' = to /\ Dog \in Slots /\ SameState(c)
  BY SlotFacts DEF TakeEntry, SameState
<1>2. op'[Dog].comps = queue /\ op'[Dog].pc = "clear" /\ \A t \in Slots \ {Dog} : op'[t] = op[t]
  BY <1>1, OpType DEF Doing
<1>3. \A t \in Slots \ {Dog} : SameSlot(t, c)
  BY <1>1, <1>2, OthersSlots
<1>4. ~Engaged(Dog, c)
  BY <1>1 DEF Engaged, Idle, Doing
<1>5. CASE c \in queue
  BY <1>1, <1>2, <1>3, <1>4, <1>5, BeginNeat DEF Engaged
<1>6. CASE c \notin queue
  <2>1. Apart(Dog, c)
    BY <1>2, <1>4, <1>6 DEF Left, Apart
  <2> QED  BY <1>1, <1>3, <2>1, BeginMuddles, FrameNeat
<1> QED  BY <1>5, <1>6

LEMMA ProcessDiesNeat ==
  ASSUME TypeOK, NEW c \in Comps, Neat(c), NEW d \in Comps, NEW k \in Colours,
         ProcessDies(d, k)
  PROVE  Neat(c)'
<1>1. /\ st' = st /\ op' = op /\ at' = at /\ to' = to /\ muddled' = muddled
      /\ writes' = writes /\ proc' = [proc EXCEPT ![d] = proc[d] \ {k}]
  BY DEF ProcessDies, work
<1>2. proc'[c] \subseteq proc[c]
  BY <1>1 DEF TypeOK
<1>3. Tidy(c) => Tidy(c)'
  BY <1>1, <1>2 DEF Tidy
<1>4. \A s \in Slots : Engaged(s, c)' = Engaged(s, c) /\ (InOrder(s, c) => InOrder(s, c)')
  <2> TAKE s \in Slots
  <2>1. Engaged(s, c)' = Engaged(s, c) /\ Launches(s)' = Launches(s)
        /\ Resting(s, c)' = Resting(s, c)
    BY <1>1 DEF Engaged, Launches, IsStart, Resting
  <2>2. TidyBut(c, to[s][c]) => TidyBut(c, to[s][c])'
    BY <1>1, <1>2 DEF TidyBut
  <2>3. "green" \notin proc[c] => "green" \notin proc'[c]
    BY <1>2
  <2>4. proc[c] = {} => proc'[c] = {}
    BY <1>2
  <2>5. Ordered(s, c) => Ordered(s, c)'
    BY <1>1, <1>3, <2>1, <2>2, <2>3, <2>4 DEF Ordered
  <2>6. Owing(s, c) => Owing(s, c)'
    BY <1>1, <1>2 DEF Owing, Wrote, Harmless, IsStart
  <2> QED  BY <2>1, <2>5, <2>6 DEF InOrder
<1>5. Rests(c) => Rests(c)'
  BY <1>1, <1>2, <1>3 DEF Rests, Harmless
<1> QED  BY <1>1, <1>4, <1>5 DEF Neat, Manned, Alone, Unmanned

LEMMA DaemonDiesNeat ==
  ASSUME TypeOK, NEW c \in Comps, Neat(c), DaemonDies
  PROVE  Neat(c)'
<1> SUFFICES ASSUME ~muddled'[c] PROVE Unmanned(c)' /\ Rests(c)'
  BY DEF Neat
<1>1. muddled' = [d \in Comps |-> muddled[d] \/ Busy(d)]
  BY Zenon DEF DaemonDies
<1>2. ~muddled[c] /\ ~Busy(c)
  BY <1>1
<1>3. st' = st /\ proc' = proc /\ writes'[c] = {}
  BY DEF DaemonDies
<1>4. Rests(c)'
  <2>1. Tidy(c)
    BY <1>2 DEF Neat, Manned, Busy, Rests
  <2> QED  BY <1>3, <2>1 DEF Rests, Harmless, Tidy
<1>5. PICK over \in SUBSET Slots :
        op' = [s \in Slots |->
                IF op[s].kind # "restart" THEN Idle
                ELSE [op[s] EXCEPT !.pc = IF s \in over THEN "parked" ELSE "queued",
                                   !.row = "claimed"]]
  BY DEF DaemonDies
<1>6. ASSUME NEW s \in Slots PROVE ~Engaged(s, c)'
  <2>1. CASE op[s].kind = "restart"
    <3>1. PICK pc \in {"queued", "parked"} :
            op'[s] = [op[s] EXCEPT !.pc = pc, !.row = "claimed"]
      BY <1>5, <2>1
    <3> QED  BY <3>1, OpType DEF Engaged, OpRecord
  <2>2. CASE op[s].kind # "restart"
    <3>1. op'[s] = Idle
      BY <1>5, <2>2
    <3> QED  BY <3>1 DEF Engaged, Idle, Doing
  <2> QED  BY <2>1, <2>2
<1> QED  BY <1>4, <1>6 DEF Unmanned

-----------------------------------------------------------------------------
(* Each action keeps plain what is plain.                                    *)
AllPlain(c) == \A s \in Slots : Plain(s, c)

LEMMA OthersPlain ==
  ASSUME NEW c, AllPlain(c), NEW s \in Slots, \A t \in Slots \ {s} : SameSlot(t, c),
         Plain(s, c)'
  PROVE  AllPlain(c)'
BY DEF AllPlain, Plain, SameSlot

LEMMA GotoPlain ==
  ASSUME TypeOK, NEW c \in Comps, AllPlain(c), NEW s \in Slots, NEW pc, Goto(s, pc),
         to' = to, at' = at
  PROVE  AllPlain(c)'
<1>1. \A t \in Slots \ {s} : SameSlot(t, c)
  BY GotoSlots, OthersSlots
<1>2. Plain(s, c)'
  BY GotoSlots DEF AllPlain, Plain
<1> QED  BY <1>1, <1>2, OthersPlain

LEMMA SetAllPlain ==
  ASSUME TypeOK, NEW c \in Comps, AllPlain(c), NEW s \in Slots, NEW pc, Goto(s, pc),
         NEW phase, SetAll(s, phase), to' = to, op[s].kind \notin {"none", "reload"}
  PROVE  AllPlain(c)'
<1>1. \A t \in Slots \ {s} : SameSlot(t, c)
  BY GotoSlots, SetAllSlots, OthersSlots, ZenonT(60)
<1>2. Plain(s, c)'
  BY GotoSlots DEF AllPlain, Plain
<1> QED  BY <1>1, <1>2, OthersPlain

LEMMA SetAtPlain ==
  ASSUME TypeOK, NEW c \in Comps, AllPlain(c), NEW s \in Slots, NEW d \in Comps,
         NEW phase \in Phases \ {"none"}, Live(s, d, phase),
         NEW next, SetAt(s, d, next), op' = op, to' = to
  PROVE  AllPlain(c)'
<1>1. \A t \in Slots \ {s} : SameSlot(t, c)
  BY SetAtSlots, OthersSlots
<1>2. Plain(s, c)'
  BY SetAtSlots DEF AllPlain, Plain, Live
<1> QED  BY <1>1, <1>2, OthersPlain

LEMMA LeavePlain ==
  ASSUME TypeOK, NEW c \in Comps, AllPlain(c), NEW s \in Slots, Leave(s)
  PROVE  AllPlain(c)'
<1>1. \A t \in Slots \ {s} : SameSlot(t, c)
  BY LeaveSlots
<1>2. at'[s][c] = "none" /\ to'[s][c] = "blue"
  BY DEF Leave, TypeOK, Nowhere
<1> QED  BY <1>1, <1>2, OthersPlain DEF Plain

LEMMA IdlePlain ==
  ASSUME TypeOK, NEW c \in Comps, AllPlain(c), NEW s \in Slots, op[s] = Idle,
         NEW r, op' = [op EXCEPT ![s] = r], at' = at, to' = to
  PROVE  AllPlain(c)'
<1>1. \A t \in Slots \ {s} : op'[t] = op[t]
  BY OpType
<1>2. \A t \in Slots \ {s} : SameSlot(t, c)
  BY <1>1, OthersSlots
<1>3. Plain(s, c)'
  BY DEF AllPlain, Plain, Idle, Doing
<1> QED  BY <1>2, <1>3, OthersPlain

LEMMA ThrowPlain ==
  ASSUME TypeOK, NEW c \in Comps, AllPlain(c), NEW s \in Slots, Throw(s)
  PROVE  AllPlain(c)'
<1> DEFINE failed == {d \in Comps : \E k \in Colours : st[d][k] = "error"}
<1>1. CASE s = Dog /\ op[s].kind = "start" /\ failed # {}
  <2>1. /\ op' = [op EXCEPT ![s] = Doing("retry", failed, "clear")]
        /\ at' = [at EXCEPT ![s] = Nowhere] /\ to' = to
    BY <1>1 DEF Throw
  <2> HIDE DEF failed
  <2>2. \A t \in Slots \ {s} : op'[t] = op[t] /\ at'[t] = at[t] /\ to'[t] = to[t]
    BY <2>1, OpType DEF TypeOK
  <2>3. \A t \in Slots \ {s} : SameSlot(t, c)
    BY <2>2, OthersSlots
  <2>4. op'[s].kind = "retry"
    BY <2>1, OpType DEF Doing
  <2>5. Plain(s, c)'
    BY <1>1, <2>1, <2>4 DEF AllPlain, Plain
  <2> QED  BY <2>3, <2>5, OthersPlain
<1>2. CASE ~(s = Dog /\ op[s].kind = "start" /\ failed # {})
  BY <1>2, LeavePlain DEF Throw
<1> QED  BY <1>1, <1>2

LEMMA RestartChoosePlain ==
  ASSUME TypeOK, NEW c \in Comps, AllPlain(c), NEW s \in Slots, RestartChoose(s)
  PROVE  AllPlain(c)'
<1>1. PICK f : to' = [to EXCEPT ![s] = f]
  BY DEF RestartChoose
<1>2. Goto(s, "mark") /\ at' = at /\ op[s].kind = "restart"
  BY DEF RestartChoose
<1>3. \A t \in Slots \ {s} : SameSlot(t, c)
  BY <1>1, <1>2, GotoSlots, OthersSlots DEF TypeOK
<1>4. Plain(s, c)'
  BY <1>2, GotoSlots DEF Plain
<1> QED  BY <1>3, <1>4, OthersPlain

LEMMA DaemonDiesPlain ==
  ASSUME NEW c \in Comps, AllPlain(c), DaemonDies PROVE AllPlain(c)'
<1>1. \A s \in Slots : to'[s][c] = "blue" /\ at'[s][c] = "none"
  <2>1. /\ at' = [s \in Slots |-> Nowhere]
        /\ to' = [s \in Slots |-> [d \in Comps |-> "blue"]]
    BY Zenon DEF DaemonDies
  <2> QED  BY <2>1 DEF Nowhere
<1> QED  BY <1>1 DEF AllPlain, Plain

LEMMA CompStepPlain ==
  ASSUME TypeOK, NEW c \in Comps, AllPlain(c), NEW s \in Slots, NEW d \in Comps,
         CompStep(s, d)
  PROVE  AllPlain(c)'
<1>1. PICK phase \in Phases \ {"none"} : Live(s, d, phase)
  BY DEF CompStep, Launch, Acquire, Launched, Check, Passed, Retire, Failed, RestartDrop,
         StopKill, Phases
<1>2. \E next : SetAt(s, d, next)
  BY DEF CompStep, Launch, Acquire, Launched, Check, Passed, Retire, Failed, RestartDrop,
         StopKill
<1>3. op' = op /\ to' = to
  BY DEF CompStep, Launch, Acquire, Launched, Check, Passed, Retire, Failed, RestartDrop,
         StopKill
<1> QED  BY <1>1, <1>2, <1>3, SetAtPlain

LEMMA SlotStepPlain ==
  ASSUME TypeOK, NEW c \in Comps, AllPlain(c), NEW s \in Slots, SlotStep(s)
  PROVE  AllPlain(c)'
<1>1. CASE \E d \in Comps : CompStep(s, d)
  BY <1>1, CompStepPlain
<1>2. CASE StartClear(s) \/ StartGreen(s) \/ StartThrows(s) \/ StartEndFails(s) \/ Reload(s)
  BY <1>2, GotoPlain DEF StartClear, StartGreen, StartThrows, StartEndFails, Reload
<1>3. CASE StartMark(s) \/ RestartMark(s) \/ StopMark(s)
  BY <1>3, SetAllPlain DEF StartMark, RestartMark, StopMark, IsStart
<1>4. CASE RestartEnd(s) \/ StartEnd(s) \/ RestartThrows(s) \/ ReloadThrows(s)
  BY <1>4, LeavePlain DEF RestartEnd, StartEnd, RestartThrows, ReloadThrows
<1>5. CASE StopThrows(s) \/ StopEnd(s) \/ Reloaded(s)
  BY <1>5, LeavePlain DEF StopThrows, StopEnd, Reloaded
<1>6. CASE StartEndThrows(s) \/ RestartChoose(s)
  BY <1>6, ThrowPlain, RestartChoosePlain DEF StartEndThrows
<1> QED  BY <1>1, <1>2, <1>3, <1>4, <1>5, <1>6 DEF SlotStep, CompStep

LEMMA OtherStepsPlain ==
  ASSUME TypeOK, NEW c \in Comps, AllPlain(c)
  PROVE  /\ \A s \in Callers, kind \in Kinds \ {"none", "retry"}, D \in SUBSET Comps :
              Call(s, kind, D) => AllPlain(c)'
         /\ WatchStep => AllPlain(c)'
         /\ LandStep => AllPlain(c)'
         /\ TakeEntry => AllPlain(c)'
         /\ \A d \in Comps, k \in Colours : ProcessDies(d, k) => AllPlain(c)'
         /\ DaemonDies => AllPlain(c)'
         /\ UNCHANGED vars => AllPlain(c)'
<1>1. ASSUME op' = op, at' = at, to' = to PROVE AllPlain(c)'
  BY <1>1 DEF AllPlain, Plain
<1>2. ASSUME NEW s \in Callers, NEW kind \in Kinds \ {"none", "retry"},
             NEW D \in SUBSET Comps, Call(s, kind, D)
      PROVE  AllPlain(c)'
  BY <1>2, SlotFacts, IdlePlain DEF Call
<1>3. WatchStep => AllPlain(c)'
  BY <1>1 DEF WatchStep, GetRunning, GetFake, work
<1>4. TakeEntry => AllPlain(c)'
  BY SlotFacts, IdlePlain DEF TakeEntry
<1>5. \A d \in Comps, k \in Colours : ProcessDies(d, k) => AllPlain(c)'
  BY <1>1 DEF ProcessDies, work
<1>6. DaemonDies => AllPlain(c)'
  BY DaemonDiesPlain
<1>7. UNCHANGED vars => AllPlain(c)'
  BY <1>1 DEF vars
<1>8. LandStep => AllPlain(c)'
  BY <1>1 DEF LandStep, Land
<1> QED  BY <1>2, <1>3, <1>4, <1>5, <1>6, <1>7, <1>8

-----------------------------------------------------------------------------
LEMMA CompStepNeat ==
  ASSUME TypeOK, NEW c \in Comps, Neat(c), NEW s \in Slots, Plain(s, c), NEW d \in Comps,
         CompStep(s, d)
  PROVE  Neat(c)'
BY LaunchNeat, AcquireNeat, LaunchedNeat, CheckNeat, PassedNeat, RetireNeat, FailedNeat,
   RestartDropNeat, StopKillNeat DEF CompStep

LEMMA SlotStepNeat ==
  ASSUME TypeOK, NEW c \in Comps, Neat(c), NEW s \in Slots, Plain(s, c), SlotStep(s)
  PROVE  Neat(c)'
<1>1. CASE \E d \in Comps : CompStep(s, d)
  BY <1>1, CompStepNeat
<1>2. CASE ~ \E d \in Comps : CompStep(s, d)
  BY <1>2, StartClearNeat, StartGreenNeat, StartMarkNeat, StartThrowsNeat,
     RestartChooseNeat, RestartMarkNeat, RestartThrowsNeat, RestartEndNeat,
     StartEndNeat, StartEndFailsNeat, StartEndThrowsNeat, StopMarkNeat,
     StopThrowsNeat, StopEndNeat, ReloadNeat, ReloadThrowsNeat, ReloadedNeat
  DEF SlotStep, CompStep
<1> QED  BY <1>1, <1>2

LEMMA InitNeat == Init => NeatInv
<1> SUFFICES ASSUME Init, NEW c \in Comps PROVE Neat(c) /\ \A s \in Slots : Plain(s, c)
  BY DEF NeatInv
<1>1. Tidy(c)
  BY DEF Init, Tidy
<1>2. Unmanned(c) /\ Harmless(c)
  BY DEF Init, Unmanned, Harmless, Engaged, Idle, Doing
<1>3. \A s \in Slots : Plain(s, c)
  BY DEF Init, Plain, Nowhere
<1> QED  BY <1>1, <1>2, <1>3 DEF Neat, Rests

(* Whatever starts, restarts, reloads and stops are under way with other     *)
(* components, whatever of them fails and whenever processes die: a component*)
(* whose requests did not overlap, met no failed deletion and no crash, and  *)
(* that nobody works on, has no process of a colour that is said to have     *)
(* stopped or failed.                                                        *)
THEOREM NoStrayAlways == Spec => []NoStray
<1>1. TypeOK /\ NeatInv /\ [Next]_vars => NeatInv'
  <2> SUFFICES ASSUME TypeOK, NeatInv, [Next]_vars, NEW c \in Comps
               PROVE  Neat(c)' /\ AllPlain(c)'
    BY DEF NeatInv, AllPlain
  <2>1. Neat(c) /\ AllPlain(c) /\ \A s \in Slots : Plain(s, c)
    BY DEF NeatInv, AllPlain
  <2>2. CASE Next
    <3>1. ASSUME NEW s \in Callers, NEW kind \in Kinds \ {"none", "retry"},
                 NEW D \in SUBSET Comps, Call(s, kind, D)
          PROVE  Neat(c)' /\ AllPlain(c)'
      BY <2>1, <3>1, CallNeat, OtherStepsPlain
    <3>2. ASSUME NEW s \in Slots, SlotStep(s) PROVE Neat(c)' /\ AllPlain(c)'
      BY <2>1, <3>2, SlotStepNeat, SlotStepPlain
    <3>3. ASSUME NEW d \in Comps, NEW k \in Colours, ProcessDies(d, k)
          PROVE  Neat(c)' /\ AllPlain(c)'
      BY <2>1, <3>3, ProcessDiesNeat, OtherStepsPlain
    <3>4. CASE WatchStep \/ TakeEntry \/ DaemonDies
      BY <2>1, <3>4, WatchNeat, TakeEntryNeat, DaemonDiesNeat, OtherStepsPlain
    <3>5. CASE LandStep
      BY <2>1, <3>5, LandNeat, OtherStepsPlain DEF LandStep
    <3> QED  BY <2>2, <3>1, <3>2, <3>3, <3>4, <3>5 DEF Next
  <2>3. CASE UNCHANGED vars
    <3>1. muddled' = muddled /\ SameState(c) /\ \A s \in Slots : SameSlot(s, c)
      BY <2>3 DEF vars, SameState, SameSlot
    <3> QED  BY <2>1, <2>3, <3>1, FrameNeat, OtherStepsPlain
  <2> QED  BY <2>2, <2>3
<1>2. NeatInv => NoStray
  BY DEF NeatInv, Neat, Manned, Rests, Busy, NoStray
<1> QED  BY InitNeat, <1>1, <1>2, LifecycleTypeCorrect, PTL DEF Spec
=============================================================================
