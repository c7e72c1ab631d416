----------------------- MODULE WebhookDeliveryProofs -----------------------
(***************************************************************************)
(* Proofs about WebhookDelivery, for every number of events, endpoints,    *)
(* places and attempts: types, and what pendingWebhooks stands for.        *)
(***************************************************************************)
EXTENDS WebhookDelivery, FiniteSetTheorems, TLAPS

LEMMA ZeroOneNat == 0 \in Nat /\ 1 \in Nat
  OBVIOUS

LEMMA IdleType == Idle \in Job
  BY DEF Idle, Job, Stages, Queue

LEMMA NewJobType ==
  ASSUME NEW e \in Event, NEW w \in Hook, NEW q \in Queue, NEW b \in BOOLEAN
  PROVE  NewJob(e, w, q, b) \in Job
  BY DEF NewJob, Idle, Job, Stages, Queue

LEMMA DelayedType ==
  ASSUME NEW j \in Job PROVE Delayed(j) \in Job
  BY DEF Delayed, Idle, Job, Stages, Queue

\* What a handler or a loop does to a task changes one or two of its fields.
LEMMA StageType ==
  ASSUME NEW j \in Job, NEW st \in Stages, NEW n \in Nat
  PROVE  /\ [j EXCEPT !.st = st] \in Job
         /\ [j EXCEPT !.st = st, !.pending = n] \in Job
         /\ [j EXCEPT !.st = st, !.count = n] \in Job
         /\ [j EXCEPT !.st = st, !.fails = n, !.landed = FALSE] \in Job
         /\ [j EXCEPT !.landed = TRUE, !.fails = n] \in Job
         /\ \A m \in Nat : [j EXCEPT !.st = st, !.fails = n, !.count = m] \in Job
         /\ \A q \in Queue : [j EXCEPT !.st = st, !.queue = q] \in Job
  BY DEF Job

LEMMA EventRowTypes ==
  ASSUME NEW r \in EventRow, NEW n \in Nat, NEW ws \in SUBSET Hook,
         NEW st \in {"queued", "handled", "lost"}
  PROVE  /\ [r EXCEPT !.st = st, !.pending = n] \in EventRow
         /\ [r EXCEPT !.st = st] \in EventRow
         /\ [r EXCEPT !.pending = n] \in EventRow
         /\ [r EXCEPT !.plan = ws] \in EventRow
         /\ [r EXCEPT !.plan = ws, !.st = st] \in EventRow
         /\ [st |-> st, pending |-> n, plan |-> ws] \in EventRow
  BY DEF EventRow

LEMMA HookRowTypes ==
  ASSUME NEW r \in HookRow, NEW n \in Nat, NEW status \in {"enabled", "disabled"}
  PROVE  /\ [r EXCEPT !.failed = n] \in HookRow
         /\ [r EXCEPT !.fails = n] \in HookRow
         /\ [r EXCEPT !.status = status] \in HookRow
         /\ [r EXCEPT !.status = status, !.fails = n] \in HookRow
  BY DEF HookRow

LEMMA RecordType ==
  ASSUME TypeOK, NEW e \in Event, NEW w \in Hook, NEW c \in Nat, NEW n \in Nat,
         Record(e, w, c, n)
  PROVE  rows' \in [Event -> [Hook -> Attempts]]
<1>1. rows[e][w] \in Attempts
  BY DEF TypeOK
<1>2. [last |-> Larger(rows[e][w].last, c), succeeded |-> rows[e][w].succeeded + n,
       uncounted |-> rows[e][w].uncounted] \in Attempts
  BY <1>1 DEF Attempts, Larger
<1>. QED  BY <1>2 DEF Record, TypeOK

\* A place is empty, or it holds a job of an event that has been handled.
Placed(j) ==
  \/ j = Idle
  \/ /\ j.st # "idle" /\ j.event \in Event /\ j.hook \in Hook
     /\ event[j.event].st = "handled"

Sound ==
  /\ \A t \in Task : Placed(task[t])
  /\ \A e \in Event : event[e].st # "handled" =>
       event[e].plan = {} /\ \A w \in Hook : rows[e][w].last = 0
  /\ \A q \in Queue : \A f \in todo[q] : event[f.event].st = "handled"

LEMMA RestartedType ==
  ASSUME NEW j \in Job, Placed(j)
  PROVE  Restarted(j) \in Job
<1>1. CASE j = Idle
  BY <1>1, IdleType DEF Restarted, Idle
<1>2. CASE j # Idle
  <2>1. j.queue \in Queue
    BY DEF Job
  <2>. QED  BY <1>2, <2>1, IdleType, NewJobType, StageType DEF Restarted, Placed, Stages
<1>. QED  BY <1>1, <1>2

\* What a statement that the store refuses leaves of a handler's job.
LEMMA StoreShape ==
  ASSUME TypeOK, NEW t \in Task, StoreFails(t)
  PROVE  /\ event' = event /\ hook' = hook /\ todo' = todo /\ extra' = extra
         /\ \A u \in Task \ {t} : task'[u] = task[u]
         /\ \/ task'[t] = Idle /\ task[t].st \in Running
            \/ /\ task[t].st \in Running
               /\ \E st \in {"refused", "again"} : task'[t] = [task[t] EXCEPT !.st = st]
            \/ task'[t] = [task[t] EXCEPT !.landed = TRUE, !.fails = 0] /\ ~task[t].landed
         /\ \/ rows' = rows
            \/ Record(task[t].event, task[t].hook, task[t].count, 0) /\ task[t].st \in Running
            \/ CountRefused(t) /\ task[t].st \in Running
<1>1. event' = event /\ hook' = hook /\ todo' = todo /\ extra' = extra
  BY DEF StoreFails
<1>2. CASE SuccessRefused(t) \/ CountRefused(t)
  BY <1>1, <1>2 DEF SuccessRefused, CountRefused, Thrown, Running, TypeOK
<1>3. CASE JobDropped(t)
  BY <1>1, <1>3 DEF JobDropped, Running, TypeOK
<1>4. CASE DelayRefused(t)
  BY <1>1, <1>4 DEF DelayRefused, Running, TypeOK
<1>5. CASE UpdateRefused(t)
  BY <1>1, <1>5 DEF UpdateRefused, TypeOK
<1>. QED  BY <1>2, <1>3, <1>4, <1>5 DEF StoreFails

LEMMA StoreBusy ==
  ASSUME NEW t \in Task, StoreFails(t)
  PROVE  task[t] # Idle
<1>1. Idle.st = "idle" /\ Idle.landed
  BY Zenon DEF Idle
<1>2. task[t].st # "idle" \/ ~task[t].landed
  BY DEF StoreFails, SuccessRefused, CountRefused, JobDropped, DelayRefused, UpdateRefused
<1>. QED  BY <1>1, <1>2, Zenon

LEMMA UncountedType ==
  ASSUME TypeOK, NEW t \in Task, CountRefused(t), task[t].event \in Event, task[t].hook \in Hook
  PROVE  rows' \in [Event -> [Hook -> Attempts]]
<1>1. rows[task[t].event][task[t].hook] \in Attempts
  BY DEF TypeOK
<1>2. [rows[task[t].event][task[t].hook] EXCEPT
         !.uncounted = rows[task[t].event][task[t].hook].uncounted + 1] \in Attempts
  BY <1>1 DEF Attempts
<1>. QED  BY <1>2 DEF CountRefused, TypeOK
-----------------------------------------------------------------------------
(* Types.  Each action changes one task; what is left to show is the type   *)
(* of what it puts there.                                                   *)

LEMMA HandlerTyped ==
  ASSUME TypeOK, Sound, NEW t \in Task,
         HandlerStep(t) \/ ApplyUpdate(t) \/ StoreFails(t)
  PROVE  TypeOK'
<1>. USE WebhookAssumption DEF TypeOK
<1>0. task[t] \in Job
  OBVIOUS
<1>1. CASE Take(t)
  <2>1. task[t].st # "idle"
    BY <1>1 DEF Take
  <2>2. task[t].event \in Event
    BY <2>1 DEF Sound, Placed, Idle
  <2>4. event[task[t].event].pending \in Nat
    BY <2>2, SMTT(40) DEF EventRow
  <2>3. [task[t] EXCEPT !.st = "read", !.pending = event[task[t].event].pending] \in Job
    BY <1>0, <2>4, StageType, ZenonT(60) DEF Stages
  <2>. QED  BY <1>1, <2>3 DEF Take
<1>2. CASE Look(t)
  <2>1. task[t].event \in Event /\ task[t].hook \in Hook
    BY <1>2 DEF Look, Sound, Placed, Idle
  <2>2. NextCount(rows[task[t].event][task[t].hook].last) \in Nat
    BY <2>1 DEF NextCount, Attempts
  <2>4. hook[task[t].hook].fails \in Nat
    BY <2>1, SMTT(40) DEF HookRow
  <2>3. [task[t] EXCEPT !.st = "post", !.fails = hook[task[t].hook].fails,
                        !.count = NextCount(rows[task[t].event][task[t].hook].last)] \in Job
    BY <1>0, <2>2, <2>4, StageType, ZenonT(60) DEF Stages
  <2>. QED  BY <1>2, <2>3, IdleType DEF Look
<1>3. CASE Answer(t)
  <2>1. [task[t] EXCEPT !.st = "acked", !.fails = 0, !.landed = FALSE] \in Job
    BY <1>0, StageType DEF Stages
  <2>. QED  BY <1>3, <2>1 DEF Answer
<1>4. CASE Fail(t)
  <2>1. task[t].hook \in Hook /\ task[t].fails + 1 \in Nat
    BY <1>0, <1>4, SMTT(40) DEF Fail, Sound, Placed, Idle, Job
  <2>2. [task[t] EXCEPT !.st = "refused", !.fails = task[t].fails + 1, !.landed = FALSE] \in Job
    BY <1>0, <2>1, StageType DEF Stages
  <2>3. hook' \in [Hook -> HookRow]
    <3>1. /\ hook[task[t].hook] \in HookRow
          /\ OneMore(hook[task[t].hook].failed) \in Nat
      BY <2>1, SMTT(40) DEF HookRow, OneMore
    <3>2. [hook[task[t].hook] EXCEPT !.failed = OneMore(hook[task[t].hook].failed)] \in HookRow
      BY <3>1, HookRowTypes
    <3>. QED  BY <1>4, <2>1, <3>2 DEF Fail
  <2>. QED  BY <1>4, <2>2, <2>3 DEF Fail
<1>5. CASE ApplyUpdate(t)
  <2>1. task[t].hook \in Hook /\ task[t].fails \in Nat
    BY <1>0, <1>5, SMTT(40) DEF ApplyUpdate, Sound, Placed, Idle, Job
  <2>2. [task[t] EXCEPT !.landed = TRUE, !.fails = 0] \in Job
    BY <1>0, StageType DEF Stages
  <2>3. hook' \in [Hook -> HookRow]
    <3>1. hook[task[t].hook] \in HookRow
      BY <2>1, SMTT(40)
    <3>2. PICK r \in HookRow : hook' = [hook EXCEPT ![task[t].hook] = r]
      BY <1>5, <2>1, <3>1, HookRowTypes DEF ApplyUpdate
    <3>. QED  BY <2>1, <3>2
  <2>. QED  BY <1>5, <2>2, <2>3 DEF ApplyUpdate
<1>6. CASE StoreFails(t)
  <2>1. task[t] # Idle
    BY <1>6, StoreBusy
  <2>2. task[t].event \in Event /\ task[t].hook \in Hook /\ task[t].count \in Nat
    BY <1>0, <2>1, SMTT(40) DEF Sound, Placed, Job
  <2>3. task'[t] \in Job
    <3>1. \A st \in {"refused", "again"} : [task[t] EXCEPT !.st = st] \in Job
      BY <1>0, StageType, ZeroOneNat, ZenonT(60) DEF Stages
    <3>2. [task[t] EXCEPT !.landed = TRUE, !.fails = 0] \in Job
      BY <1>0, StageType DEF Stages
    <3>. QED  BY <1>6, <3>1, <3>2, StoreShape, IdleType, Zenon
  <2>4. rows' \in [Event -> [Hook -> Attempts]]
    BY <1>6, <2>2, StoreShape, RecordType, UncountedType
  <2>5. task' \in [Task -> Job]
    <3>1. \E j : task' = [task EXCEPT ![t] = j]
      BY <1>6, Zenon DEF StoreFails, SuccessRefused, CountRefused, Thrown, JobDropped,
         DelayRefused, UpdateRefused
    <3>2. DOMAIN task' = Task /\ task' = [u \in Task |-> task'[u]]
      BY <3>1
    <3>. QED  BY <1>6, <2>3, <3>2, StoreShape
  <2>6. did' \subseteq Env
    BY <1>6 DEF StoreFails, Happens
  <2>. QED  BY <1>6, <2>4, <2>5, <2>6, StoreShape
<1>7. ASSUME SaveSucceeded(t) \/ SaveFailed(t)
      PROVE  /\ task[t].event \in Event /\ task[t].hook \in Hook /\ task[t].count \in Nat
             /\ [task[t] EXCEPT !.st = "settle", !.count = 0] \in Job
             /\ [task[t] EXCEPT !.st = "saved"] \in Job
             /\ Delayed(task[t]) \in Job
  <2>1. task[t].event \in Event /\ task[t].hook \in Hook /\ task[t].count \in Nat
    BY <1>0, <1>7, SMTT(30) DEF SaveSucceeded, SaveFailed, Sound, Placed, Idle, Job
  <2>. QED  BY <1>0, <2>1, StageType, DelayedType DEF Stages
<1>8. CASE SaveSucceeded(t)
  <2>1. rows' \in [Event -> [Hook -> Attempts]]
    BY <1>7, <1>8, RecordType DEF SaveSucceeded
  <2>. QED  BY <1>7, <1>8, <2>1 DEF SaveSucceeded, AfterAnswer
<1>9. CASE SaveFailed(t)
  <2>1. rows' \in [Event -> [Hook -> Attempts]]
    BY <1>7, <1>9, RecordType DEF SaveFailed
  <2>. QED  BY <1>7, <1>9, <2>1 DEF SaveFailed
<1>10. CASE Settle(t)
  <2>1. task[t].event \in Event /\ task[t].pending \in Nat
    BY <1>0, <1>10 DEF Settle, Sound, Placed, Idle, Job
  <2>2. Decremented(task[t].pending) \in Nat
    BY <2>1 DEF Decremented
  <2>3. [event[task[t].event] EXCEPT !.pending = Decremented(task[t].pending)] \in EventRow
    BY <2>1, <2>2, EventRowTypes
  <2>. QED  BY <1>10, <2>1, <2>3, IdleType DEF Settle
<1>. QED  BY <1>1, <1>2, <1>3, <1>4, <1>5, <1>6, <1>8, <1>9, <1>10 DEF HandlerStep

LEMMA EventTyped ==
  ASSUME TypeOK, Sound, NEW e \in Event,
         \/ Accept(e) \/ HandleEvent(e) \/ EventDropped(e)
         \/ \E w \in Hook : TurnDropped(e, w)
         \/ \E w \in Hook, t \in Task : Schedule(e, w, t) \/ Retry(e, w, t)
  PROVE  TypeOK'
<1>. USE WebhookAssumption DEF TypeOK
<1>1. CASE Accept(e)
  <2>1. [event[e] EXCEPT !.st = "queued", !.pending = DefaultPending] \in EventRow
    BY EventRowTypes
  <2>. QED  BY <1>1, <2>1 DEF Accept
<1>2. CASE HandleEvent(e)
  <2>1. EventHooks(e) \in SUBSET Hook /\ Outstanding(EventHooks(e)) \in Nat
    BY FS_Subset, FS_CardinalityType DEF EventHooks, Outstanding
  <2>2. [event[e] EXCEPT !.st = "handled"] \in EventRow
    BY EventRowTypes
  <2>3. [st |-> "handled", pending |-> Outstanding(EventHooks(e)),
         plan |-> EventHooks(e)] \in EventRow
    BY <2>1 DEF EventRow
  <2>4. event' \in [Event -> EventRow]
    BY <1>2, <2>2, <2>3 DEF HandleEvent
  <2>. QED  BY <1>2, <2>4 DEF HandleEvent
<1>3. ASSUME NEW w \in Hook, NEW t \in Task, Schedule(e, w, t)
      PROVE  TypeOK'
  <2>1. NewJob(e, w, "bus", FALSE) \in Job
    BY NewJobType DEF Queue
  <2>2. event[e] \in EventRow /\ event[e].plan \in SUBSET Hook
    BY DEF EventRow
  <2>3. [event[e] EXCEPT !.plan = event[e].plan \ {w}] \in EventRow
    BY <2>2, EventRowTypes
  <2>4. event' \in [Event -> EventRow]
    BY <1>3, <2>3 DEF Schedule
  <2>5. task' \in [Task -> Job]
    BY <1>3, <2>1 DEF Schedule
  <2>. QED  BY <1>3, <2>4, <2>5 DEF Schedule
<1>4. ASSUME NEW w \in Hook, NEW t \in Task, Retry(e, w, t)
      PROVE  TypeOK'
  <2>1. NewJob(e, w, "api", TRUE) \in Job
    BY NewJobType DEF Queue
  <2>2. rows' \in [Event -> [Hook -> Attempts]]
    BY <1>4, RecordType DEF Retry
  <2>3. extra' \in [Event -> Nat]
    BY <1>4 DEF Retry
  <2>. QED  BY <1>4, <2>1, <2>2, <2>3 DEF Retry, Happens
<1>5. CASE EventDropped(e)
  <2>1. [event[e] EXCEPT !.st = "lost"] \in EventRow
    BY EventRowTypes
  <2>. QED  BY <1>5, <2>1 DEF EventDropped, Happens
<1>6. ASSUME NEW w \in Hook, TurnDropped(e, w)
      PROVE  TypeOK'
  <2>1. event[e] \in EventRow /\ event[e].plan \in SUBSET Hook
    BY DEF EventRow
  <2>2. [event[e] EXCEPT !.plan = event[e].plan \ {w}] \in EventRow
    BY <2>1, EventRowTypes
  <2>. QED  BY <1>6, <2>2 DEF TurnDropped, Happens
<1>. QED  BY <1>1, <1>2, <1>3, <1>4, <1>5, <1>6

LEMMA LoopTyped ==
  ASSUME TypeOK, Sound, NEW q \in Queue,
         Fetch(q) \/ \E f \in todo[q], t \in Task : PushDue(q, f, t)
  PROVE  TypeOK'
<1>. USE DEF TypeOK
<1>1. CASE Fetch(q)
  <2>1. PICK due \in SUBSET {t \in Task : task[t].st = "later"} :
          /\ task' = [t \in Task |-> IF t \in due THEN [task[t] EXCEPT !.st = "marked"]
                                     ELSE task[t]]
          /\ todo' = [todo EXCEPT ![q] =
               {[task |-> t, event |-> task[t].event, hook |-> task[t].hook] :
                  t \in due \cup {u \in Task : task[u].st = "marked"}}]
    BY <1>1 DEF Fetch
  <2>2. task' \in [Task -> Job]
    BY <2>1, StageType DEF Stages
  <2>3. \A t \in due \cup {u \in Task : task[u].st = "marked"} :
          [task |-> t, event |-> task[t].event, hook |-> task[t].hook] \in Fetched
    BY DEF Fetched, Sound, Placed, Idle
  <2>. QED  BY <1>1, <2>1, <2>2, <2>3 DEF Fetch
<1>2. ASSUME NEW f \in todo[q], NEW t \in Task, PushDue(q, f, t)
      PROVE  TypeOK'
  <2>1. f.task \in Task /\ f.event \in Event /\ f.hook \in Hook
    BY SMTT(40) DEF Fetched
  <2>2. /\ [task[f.task] EXCEPT !.st = "queued", !.queue = q] \in Job
        /\ NewJob(f.event, f.hook, q, FALSE) \in Job
    BY <2>1, StageType, NewJobType DEF Stages
  <2>3. todo' \in [Queue -> SUBSET Fetched]
    BY <1>2 DEF PushDue
  <2>4. task' \in [Task -> Job]
    BY <1>2, <2>1, <2>2 DEF PushDue
  <2>5. extra' \in [Event -> Nat]
    <3>1. extra' = extra \/ extra' = [extra EXCEPT ![f.event] = extra[f.event] + 1]
      BY <1>2, Zenon DEF PushDue
    <3>. QED  BY <2>1, <3>1
  <2>. QED  BY <1>2, <2>3, <2>4, <2>5 DEF PushDue
<1>. QED  BY <1>1, <1>2

LEMMA OutsideTyped ==
  ASSUME TypeOK, Sound, Restart \/ \E w \in Hook, status \in {"enabled", "disabled"} : SetStatus(w, status)
  PROVE  TypeOK'
<1>. USE WebhookAssumption DEF TypeOK
<1>1. CASE Restart
  <2>1. task' \in [Task -> Job]
    BY <1>1, RestartedType DEF Restart, Sound
  <2>2. \A e \in Event : Cardinality(Rerun(e)) \in Nat
    BY FS_Subset, FS_CardinalityType DEF Rerun, Tokens
  <2>3. event' \in [Event -> EventRow]
    <3>1. ASSUME NEW e \in Event
          PROVE  [event[e] EXCEPT !.plan = {},
                    !.st = IF @ = "queued" THEN "lost" ELSE @] \in EventRow
      BY ZenonT(60) DEF EventRow
    <3>. QED  BY <1>1, <3>1 DEF Restart
  <2>4. extra' \in [Event -> Nat]
    <3>1. \A e \in Event : extra[e] + Cardinality(Rerun(e)) \in Nat
      BY <2>2
    <3>. QED  BY <1>1, <3>1, Zenon DEF Restart
  <2>. QED  BY <1>1, <2>1, <2>3, <2>4 DEF Restart, Happens
<1>2. ASSUME NEW w \in Hook, NEW status \in {"enabled", "disabled"}, SetStatus(w, status)
      PROVE  TypeOK'
  <2>1. [hook[w] EXCEPT !.status = status] \in HookRow
    BY HookRowTypes
  <2>. QED  BY <1>2, <2>1 DEF SetStatus, Happens
<1>. QED  BY <1>1, <1>2
-----------------------------------------------------------------------------
(* What an action does to the jobs of each event.                           *)

Level(e) == Cardinality(Tokens(e)) + Cardinality(event[e].plan)

LEMMA Finite ==
  ASSUME TypeOK, NEW e \in Event
  PROVE  /\ IsFiniteSet(Tokens(e)) /\ Cardinality(Tokens(e)) \in Nat
         /\ IsFiniteSet(event[e].plan) /\ Cardinality(event[e].plan) \in Nat
<1>1. Tokens(e) \subseteq Task /\ event[e].plan \subseteq Hook
  BY DEF Tokens, TypeOK, EventRow
<1>. QED  BY <1>1, WebhookAssumption, FS_Subset, FS_CardinalityType

LEMMA SameTokens ==
  ASSUME \A t \in Task : task'[t].event = task[t].event
  PROVE  \A e \in Event : Tokens(e)' = Tokens(e)
  BY DEF Tokens

LEMMA TokenAdded ==
  ASSUME TypeOK, NEW t \in Task, NEW e \in Event, task[t].event \notin Event,
         task'[t].event = e, \A u \in Task \ {t} : task'[u].event = task[u].event
  PROVE  /\ Cardinality(Tokens(e)') = Cardinality(Tokens(e)) + 1
         /\ \A d \in Event \ {e} : Tokens(d)' = Tokens(d)
<1>1. Tokens(e)' = Tokens(e) \cup {t} /\ t \notin Tokens(e)
  BY DEF Tokens
<1>2. \A d \in Event \ {e} : Tokens(d)' = Tokens(d)
  BY DEF Tokens
<1>. QED  BY <1>1, <1>2, Finite, FS_AddElement, ZenonT(60)

LEMMA TokenRemoved ==
  ASSUME TypeOK, NEW t \in Task, NEW e \in Event, task[t].event = e,
         task'[t].event \notin Event, \A u \in Task \ {t} : task'[u].event = task[u].event
  PROVE  /\ Cardinality(Tokens(e)') = Cardinality(Tokens(e)) - 1
         /\ \A d \in Event \ {e} : Tokens(d)' = Tokens(d)
<1>1. Tokens(e)' = Tokens(e) \ {t} /\ t \in Tokens(e)
  BY DEF Tokens
<1>2. \A d \in Event \ {e} : Tokens(d)' = Tokens(d)
  BY DEF Tokens
<1>. QED  BY <1>1, <1>2, Finite, FS_RemoveElement, ZenonT(60)

LEMMA IdleOutside == Idle.event \notin Event /\ Idle.st = "idle"
  BY WebhookAssumption DEF Idle
-----------------------------------------------------------------------------
(* Where jobs and fetched rows may be. *)

LEMMA HandlerShape ==
  ASSUME TypeOK, Sound, NEW t \in Task,
         HandlerStep(t) \/ ApplyUpdate(t) \/ StoreFails(t)
  PROVE  /\ task[t].st # "idle" /\ task[t].event \in Event /\ task[t].hook \in Hook
         /\ event[task[t].event].st = "handled"
         /\ \A u \in Task \ {t} : task'[u] = task[u]
         /\ \/ task'[t] = Idle
            \/ /\ task'[t].st # "idle" /\ task'[t].event = task[t].event
               /\ task'[t].hook = task[t].hook
         /\ \A e \in Event : event'[e].st = event[e].st /\ event'[e].plan = event[e].plan
         /\ todo' = todo
<1>0. task[t] \in Job /\ event \in [Event -> EventRow] /\ task \in [Task -> Job]
  BY DEF TypeOK
<1>1. task[t].st # "idle"
  <2>1. ApplyUpdate(t) => task[t] # Idle
    BY DEF ApplyUpdate, Idle
  <2>2. StoreFails(t) => task[t] # Idle
    BY StoreBusy
  <2>. QED  BY <2>1, <2>2 DEF HandlerStep, Take, Look, Answer, Fail,
              SaveSucceeded, SaveFailed, Settle, Sound, Placed
<1>2. /\ task[t].event \in Event /\ task[t].hook \in Hook
      /\ event[task[t].event].st = "handled"
  BY <1>1, IdleOutside DEF Sound, Placed
<1>. DEFINE Kept == /\ task'[t].st # "idle" /\ task'[t].event = task[t].event
                    /\ task'[t].hook = task[t].hook
            Others == \A u \in Task \ {t} : task'[u] = task[u]
<1>. USE <1>0
<1>3. CASE Take(t)
  BY <1>1, <1>2, <1>3 DEF Take, Job
<1>4. CASE Look(t)
  <2>1. Others /\ (task'[t] = Idle \/ Kept)
    BY <1>4 DEF Look, Job
  <2>. QED  BY <1>1, <1>2, <1>4, <2>1 DEF Look
<1>5. CASE Answer(t)
  BY <1>1, <1>2, <1>5 DEF Answer, Job
<1>6. CASE Fail(t)
  BY <1>1, <1>2, <1>6 DEF Fail, Job
<1>7. CASE ApplyUpdate(t)
  BY <1>1, <1>2, <1>7 DEF ApplyUpdate, Job
<1>8. CASE StoreFails(t)
  <2>1. task'[t] = Idle \/ Kept
    BY <1>1, <1>8, StoreShape DEF Job
  <2>. QED  BY <1>1, <1>2, <1>8, <2>1, StoreShape
<1>9. CASE SaveSucceeded(t)
  BY <1>1, <1>2, <1>9 DEF SaveSucceeded, AfterAnswer, Job
<1>10. CASE SaveFailed(t)
  <2>1. Others /\ Kept
    <3>1. CASE Retries(task[t].count)
      <4>1. task' = [task EXCEPT ![t] = Delayed(task[t])]
        BY <1>10, <3>1 DEF SaveFailed
      <4>. QED  BY <4>1 DEF Delayed, Idle, Job
    <3>2. CASE ~Retries(task[t].count)
      <4>1. task' = [task EXCEPT ![t] = [task[t] EXCEPT !.st = "settle", !.count = 0]]
        BY <1>10, <3>2 DEF SaveFailed
      <4>. QED  BY <4>1 DEF Job
    <3>. QED  BY <3>1, <3>2
  <2>. QED  BY <1>1, <1>2, <1>10, <2>1 DEF SaveFailed
<1>11. CASE Settle(t)
  <2>1. \A e \in Event : event'[e].st = event[e].st /\ event'[e].plan = event[e].plan
    BY <1>2, <1>11 DEF Settle, EventRow
  <2>. QED  BY <1>1, <1>2, <1>11, <2>1 DEF Settle
<1>. QED  BY <1>3, <1>4, <1>5, <1>6, <1>7, <1>8, <1>9, <1>10, <1>11 DEF HandlerStep

LEMMA HandlerSound ==
  ASSUME TypeOK, Sound, NEW t \in Task,
         HandlerStep(t) \/ ApplyUpdate(t) \/ StoreFails(t)
  PROVE  Sound'
<1>1. \A u \in Task : Placed(task[u])'
  <2>1. ASSUME NEW u \in Task, u # t  PROVE Placed(task[u])'
    <3>1. task'[u] = task[u] /\ Placed(task[u])
      BY <2>1, HandlerShape DEF Sound
    <3>. QED  BY <3>1, HandlerShape DEF Placed
  <2>2. Placed(task[t])'
    BY HandlerShape DEF Placed
  <2>. QED  BY <2>1, <2>2
<1>2. \A e \in Event : event[e].st # "handled" => rows'[e] = rows[e]
  <2>1. \/ rows' = rows \/ CountRefused(t)
        \/ \E c, n \in Nat : Record(task[t].event, task[t].hook, c, n)
    <3>1. task[t].count \in Nat
      BY DEF TypeOK, Job
    <3>2. CASE StoreFails(t)
      BY <3>1, <3>2, StoreShape, ZeroOneNat, Zenon
    <3>3. CASE ~StoreFails(t)
      BY <3>1, <3>3, HandlerShape, ZeroOneNat DEF HandlerStep, ApplyUpdate, Take, Look,
         Answer, Fail, SaveSucceeded, SaveFailed, Settle
    <3>. QED  BY <3>2, <3>3
  <2>. QED  BY <2>1, HandlerShape, ZenonT(60) DEF Record, CountRefused, TypeOK
<1>3. \A e \in Event : event'[e].st # "handled" =>
        event'[e].plan = {} /\ \A w \in Hook : rows'[e][w].last = 0
  BY <1>2, HandlerShape DEF Sound
<1>4. \A q \in Queue : \A f \in todo'[q] : event'[f.event].st = "handled"
  <2>1. ASSUME NEW q \in Queue, NEW f \in todo[q]  PROVE f.event \in Event
    BY DEF TypeOK, Fetched
  <2>. QED  BY <2>1, HandlerShape DEF Sound
<1>. QED  BY <1>1, <1>3, <1>4 DEF Sound

\* A new job takes an empty place.
LEMMA NewJobPlaced ==
  ASSUME TypeOK, Sound, NEW t \in Task, NEW e \in Event, NEW w \in Hook,
         NEW q \in Queue, NEW b \in BOOLEAN, event[e].st = "handled",
         \A d \in Event : event[d].st = "handled" => event'[d].st = "handled",
         task' = [task EXCEPT ![t] = NewJob(e, w, q, b)]
  PROVE  \A u \in Task : Placed(task[u])'
<1>1. NewJob(e, w, q, b).st = "queued" /\ NewJob(e, w, q, b).event = e
      /\ NewJob(e, w, q, b).hook = w
  BY DEF NewJob, Idle
<1>2. Placed(task[t])'
  BY <1>1 DEF Placed, TypeOK
<1>3. ASSUME NEW u \in Task, u # t  PROVE Placed(task[u])'
  <2>1. task'[u] = task[u] /\ Placed(task[u])
    BY <1>3 DEF Sound, TypeOK
  <2>. QED  BY <2>1 DEF Placed
<1>. QED  BY <1>2, <1>3

LEMMA TodoSound ==
  ASSUME TypeOK, Sound, todo' = todo,
         \A d \in Event : event[d].st = "handled" => event'[d].st = "handled"
  PROVE  \A q \in Queue : \A f \in todo'[q] : event'[f.event].st = "handled"
  BY DEF Sound, TypeOK, Fetched

LEMMA PlacedStays ==
  ASSUME TypeOK, Sound, task' = task,
         \A d \in Event : event[d].st = "handled" => event'[d].st = "handled"
  PROVE  \A u \in Task : Placed(task[u])'
  BY DEF Sound, Placed

LEMMA EventSound ==
  ASSUME TypeOK, Sound, NEW e \in Event,
         \/ Accept(e) \/ HandleEvent(e) \/ EventDropped(e)
         \/ \E w \in Hook : TurnDropped(e, w)
         \/ \E w \in Hook, t \in Task : Schedule(e, w, t) \/ Retry(e, w, t)
  PROVE  Sound'
<1>. USE DEF TypeOK, EventRow
<1>1. CASE Accept(e)
  <2>1. /\ task' = task /\ todo' = todo /\ rows' = rows
        /\ \A d \in Event : event'[d].plan = event[d].plan /\
             (event'[d].st = "handled" <=> event[d].st = "handled")
    BY <1>1 DEF Accept
  <2>. QED  BY <2>1, TodoSound, PlacedStays DEF Sound
<1>2. CASE HandleEvent(e)
  <2>1. /\ task' = task /\ todo' = todo /\ rows' = rows
        /\ \A d \in Event \ {e} : event'[d] = event[d]
        /\ event'[e].st = "handled"
    BY <1>2 DEF HandleEvent
  <2>2. \A d \in Event : event[d].st = "handled" => event'[d].st = "handled"
    BY <2>1
  <2>. QED  BY <2>1, <2>2, TodoSound, PlacedStays DEF Sound
<1>3. ASSUME NEW w \in Hook, NEW t \in Task, Schedule(e, w, t)  PROVE Sound'
  <2>1. /\ todo' = todo /\ rows' = rows
        /\ \A d \in Event : event'[d].st = event[d].st /\ event'[d].plan \subseteq event[d].plan
    BY <1>3 DEF Schedule
  <2>2. event[e].st = "handled"
    BY <1>3 DEF Schedule, Sound
  <2>3. task' = task \/ task' = [task EXCEPT ![t] = NewJob(e, w, "bus", FALSE)]
    BY <1>3 DEF Schedule
  <2>4. \A u \in Task : Placed(task[u])'
    BY <2>1, <2>2, <2>3, PlacedStays, NewJobPlaced DEF Queue
  <2>. QED  BY <2>1, <2>4, TodoSound DEF Sound
<1>4. ASSUME NEW w \in Hook, NEW t \in Task, Retry(e, w, t)  PROVE Sound'
  <2>1. /\ todo' = todo /\ event' = event /\ event[e].st = "handled"
    BY <1>4 DEF Retry, Sound, Attempts
  <2>2. task' = [task EXCEPT ![t] = NewJob(e, w, "api", TRUE)]
    BY <1>4 DEF Retry
  <2>3. \A u \in Task : Placed(task[u])'
    BY <2>1, <2>2, NewJobPlaced DEF Queue
  <2>4. \A d \in Event \ {e} : rows'[d] = rows[d]
    BY <1>4 DEF Retry, Record
  <2>. QED  BY <2>1, <2>3, <2>4, TodoSound DEF Sound
<1>5. ASSUME EventDropped(e) \/ \E w \in Hook : TurnDropped(e, w)  PROVE Sound'
  <2>1. task' = task /\ todo' = todo /\ rows' = rows
    BY <1>5, Zenon DEF EventDropped, TurnDropped
  <2>2. \A d \in Event : event'[d].plan \subseteq event[d].plan /\
             (event'[d].st = "handled" <=> event[d].st = "handled")
    <3>1. CASE EventDropped(e)
      BY <3>1 DEF EventDropped
    <3>2. CASE \E w \in Hook : TurnDropped(e, w)
      BY <3>2 DEF TurnDropped
    <3>. QED  BY <1>5, <3>1, <3>2
  <2>. QED  BY <2>1, <2>2, TodoSound, PlacedStays DEF Sound
<1>. QED  BY <1>1, <1>2, <1>3, <1>4, <1>5

LEMMA LoopSound ==
  ASSUME TypeOK, Sound, NEW q \in Queue,
         Fetch(q) \/ \E f \in todo[q], t \in Task : PushDue(q, f, t)
  PROVE  Sound'
<1>. USE DEF TypeOK
<1>1. CASE Fetch(q)
  <2>1. PICK due \in SUBSET {t \in Task : task[t].st = "later"} :
          /\ task' = [t \in Task |-> IF t \in due THEN [task[t] EXCEPT !.st = "marked"]
                                     ELSE task[t]]
          /\ todo' = [todo EXCEPT ![q] =
               {[task |-> t, event |-> task[t].event, hook |-> task[t].hook] :
                  t \in due \cup {u \in Task : task[u].st = "marked"}}]
    BY <1>1 DEF Fetch
  <2>2. event' = event /\ rows' = rows
    BY <1>1 DEF Fetch
  <2>3. \A t \in due \cup {u \in Task : task[u].st = "marked"} :
          event[task[t].event].st = "handled"
    BY DEF Sound, Placed, Idle
  <2>4. \A p \in Queue : \A f \in todo'[p] : event'[f.event].st = "handled"
    BY <2>1, <2>2, <2>3 DEF Sound
  <2>5. ASSUME NEW u \in Task  PROVE Placed(task[u])'
    <3>1. CASE u \in due
      <4>1. task[u].event \in Event /\ task[u].hook \in Hook
            /\ event[task[u].event].st = "handled"
        BY <3>1 DEF Sound, Placed, Idle
      <4>2. task'[u].st = "marked" /\ task'[u].event = task[u].event
            /\ task'[u].hook = task[u].hook
        BY <2>1, <3>1 DEF Job
      <4>. QED  BY <2>2, <4>1, <4>2 DEF Placed
    <3>2. CASE u \notin due
      BY <2>1, <2>2, <3>2 DEF Sound, Placed
    <3>. QED  BY <3>1, <3>2
  <2>. QED  BY <2>2, <2>4, <2>5 DEF Sound
<1>2. ASSUME NEW f \in todo[q], NEW t \in Task, PushDue(q, f, t)  PROVE Sound'
  <2>1. /\ f.task \in Task /\ f.event \in Event /\ f.hook \in Hook
        /\ event[f.event].st = "handled" /\ event' = event /\ rows' = rows
    BY <1>2 DEF PushDue, Sound, Fetched
  <2>2. \A p \in Queue : todo'[p] \subseteq todo[p]
    BY <1>2 DEF PushDue
  <2>3. CASE task[f.task].st = "marked"
    <3>1. task' = [task EXCEPT ![f.task] = [task[f.task] EXCEPT !.st = "queued", !.queue = q]]
      BY <1>2, <2>1, <2>3 DEF PushDue
    <3>2. Placed(task[f.task])'
      <4>1. task[f.task] # Idle
        BY <2>3 DEF Idle
      <4>2. task'[f.task].st = "queued" /\ task'[f.task].event = task[f.task].event
            /\ task'[f.task].hook = task[f.task].hook
        BY <2>1, <3>1 DEF Job
      <4>. QED  BY <2>1, <4>1, <4>2 DEF Sound, Placed
    <3>3. ASSUME NEW u \in Task, u # f.task  PROVE Placed(task[u])'
      <4>1. task'[u] = task[u]
        BY <3>1, <3>3
      <4>. QED  BY <2>1, <4>1 DEF Sound, Placed
    <3>. QED  BY <2>1, <2>2, <3>2, <3>3 DEF Sound
  <2>4. CASE task[f.task].st # "marked"
    <3>1. task' = [task EXCEPT ![t] = NewJob(f.event, f.hook, q, FALSE)]
      BY <1>2, <2>4 DEF PushDue
    <3>2. \A u \in Task : Placed(task[u])'
      BY <2>1, <3>1, NewJobPlaced
    <3>. QED  BY <2>1, <2>2, <3>2 DEF Sound
  <2>. QED  BY <2>3, <2>4
<1>. QED  BY <1>1, <1>2

LEMMA RestartShape ==
  ASSUME TypeOK, Sound, Restart, NEW t \in Task
  PROVE  \/ task'[t] = Idle
         \/ /\ task'[t].st \in {"later", "queued"} /\ task[t].st # "idle"
            /\ task'[t].event = task[t].event /\ task'[t].hook = task[t].hook
<1>1. task'[t] = Restarted(task[t]) /\ task[t] \in Job
  BY DEF Restart, TypeOK
<1>2. task[t] = Idle => Restarted(task[t]) = Idle
  BY DEF Restarted, Idle
<1>3. task[t].st = "idle" => task[t] = Idle
  BY DEF Sound, Placed
<1>. QED  BY <1>1, <1>2, <1>3 DEF Restarted, NewJob, Idle, Job

LEMMA OutsideSound ==
  ASSUME TypeOK, Sound,
         Restart \/ \E w \in Hook, status \in {"enabled", "disabled"} : SetStatus(w, status)
  PROVE  Sound'
<1>1. CASE Restart
  <2>1. rows' = rows /\ \A q \in Queue : todo'[q] = {}
    BY <1>1 DEF Restart
  <2>4. \A e \in Event : event'[e].st = "handled" <=> event[e].st = "handled"
    BY <1>1 DEF Restart, TypeOK, EventRow
  <2>5. \A e \in Event : event'[e].plan = {} \/ event'[e].plan = event[e].plan
    BY <1>1 DEF Restart, TypeOK, EventRow
  <2>2. ASSUME NEW u \in Task  PROVE Placed(task[u])'
    <3>1. CASE task'[u] = Idle
      BY <3>1 DEF Placed
    <3>2. CASE task'[u] # Idle
      <4>1. /\ task'[u].st # "idle" /\ task[u].st # "idle"
            /\ task'[u].event = task[u].event /\ task'[u].hook = task[u].hook
        BY <1>1, <3>2, RestartShape
      <4>2. /\ task[u].event \in Event /\ task[u].hook \in Hook
            /\ event[task[u].event].st = "handled"
        BY <4>1, IdleOutside DEF Sound, Placed
      <4>. QED  BY <2>4, <4>1, <4>2 DEF Placed
    <3>. QED  BY <3>1, <3>2
  <2>3. \A e \in Event : event'[e].st # "handled" =>
          event'[e].plan = {} /\ \A w \in Hook : rows'[e][w].last = 0
    BY <2>1, <2>4, <2>5 DEF Sound
  <2>. QED  BY <2>1, <2>2, <2>3 DEF Sound
<1>2. ASSUME NEW w \in Hook, NEW status \in {"enabled", "disabled"}, SetStatus(w, status)
      PROVE  Sound'
  BY <1>2 DEF SetStatus, Sound, Placed
<1>. QED  BY <1>1, <1>2
LEMMA InitSound == Init => TypeOK /\ Sound
<1>. SUFFICES ASSUME Init PROVE TypeOK /\ Sound
  OBVIOUS
<1>1. TypeOK
  BY IdleType, WebhookAssumption DEF Init, TypeOK, EventRow, HookRow, Attempts
<1>2. Sound
  BY DEF Init, Sound, Placed
<1>. QED  BY <1>1, <1>2

\* The actions, by the lemma that is about them.
LEMMA NextCases ==
  ASSUME Next
  PROVE  \/ \E t \in Task : HandlerStep(t) \/ ApplyUpdate(t) \/ StoreFails(t)
         \/ \E e \in Event : \/ Accept(e) \/ HandleEvent(e) \/ EventDropped(e)
                             \/ \E w \in Hook : TurnDropped(e, w)
                             \/ \E w \in Hook, t \in Task : Schedule(e, w, t) \/ Retry(e, w, t)
         \/ \E q \in Queue : Fetch(q) \/ \E f \in todo[q], t \in Task : PushDue(q, f, t)
         \/ Restart \/ \E w \in Hook, status \in {"enabled", "disabled"} : SetStatus(w, status)
  BY WebhookAssumption DEF Next, Progress

LEMMA StepSound == TypeOK /\ Sound /\ [Next]_vars => TypeOK' /\ Sound'
<1>. SUFFICES ASSUME TypeOK, Sound, [Next]_vars PROVE TypeOK' /\ Sound'
  OBVIOUS
<1>1. CASE Next
  BY <1>1, NextCases, HandlerTyped, EventTyped, LoopTyped, OutsideTyped, HandlerSound,
     EventSound, LoopSound, OutsideSound, Zenon
<1>2. CASE UNCHANGED vars
  BY <1>2 DEF vars, TypeOK, Sound, Placed
<1>. QED  BY <1>1, <1>2

\* Every variable keeps its type, and jobs exist only for events that the event
\* queue has handled: what queues.js reads of an event or an endpoint is there.
THEOREM TypeCorrect == Spec => []TypeOK
<1>. QED  BY InitSound, StepSound, PTL DEF Spec
-----------------------------------------------------------------------------
(* PendingCovers.  A decrement is written from a count that was read earlier, *)
(* so the count alone is not inductive: what a handler in its run has read    *)
(* covers the jobs of its event too.                                          *)

Snapshots ==
  \A t \in Task : task[t].st \in Running =>
    task[t].pending + extra[task[t].event] >= Level(task[t].event)

Covers ==
  /\ \A e \in Event : event[e].st = "handled" => event[e].pending + extra[e] >= Level(e)
  /\ Snapshots

LEMMA LevelNat == TypeOK => \A e \in Event : Level(e) \in Nat
  BY Finite DEF Level

LEMMA LevelNatNext == (TypeOK => \A e \in Event : Level(e) \in Nat)'
  BY LevelNat, PTL

\* A step that raises no event's Level above what it adds to extra, and takes no
\* count but the one the event has.
LEMMA Quiet ==
  ASSUME TypeOK, TypeOK', Sound, Sound', Covers,
         \A e \in Event : Level(e)' + extra[e] <= Level(e) + extra'[e],
         \A e \in Event : event'[e].st = "handled" =>
           event[e].st = "handled" /\ event'[e].pending = event[e].pending,
         \A t \in Task : task'[t].st \in Running =>
           /\ task'[t].event = task[t].event
           /\ \/ task[t].st \in Running /\ task'[t].pending = task[t].pending
              \/ /\ task[t].st # "idle"
                 /\ task'[t].pending = event[task[t].event].pending
  PROVE  Covers'
<1>1. \A e \in Event : Level(e) \in Nat /\ Level(e)' \in Nat
  BY LevelNat, LevelNatNext
<1>2. \A e \in Event : extra[e] \in Nat /\ extra'[e] \in Nat /\ event[e].pending \in Nat
  BY DEF TypeOK, EventRow
<1>3. ASSUME NEW e \in Event, event'[e].st = "handled"
      PROVE  event'[e].pending + extra'[e] >= Level(e)'
  <2>1. event[e].pending + extra[e] >= Level(e) /\ event'[e].pending = event[e].pending
    BY <1>3 DEF Covers
  <2>. QED  BY <1>1, <1>2, <2>1
<1>4. ASSUME NEW t \in Task, task'[t].st \in Running
      PROVE  (task[t].pending + extra[task[t].event] >= Level(task[t].event))'
  <2>1. task'[t].event = task[t].event /\ task[t].st # "idle"
    BY <1>4 DEF Running
  <2>2. task[t].event \in Event /\ event[task[t].event].st = "handled"
    BY <2>1, IdleOutside DEF Sound, Placed
  <2>3. PICK e \in Event : e = task[t].event
    BY <2>2
  <2>4. task'[t].pending + extra[e] >= Level(e) /\ task'[t].pending \in Nat
    <3>1. task'[t].pending \in Nat
      BY DEF TypeOK, Job
    <3>2. CASE task[t].st \in Running /\ task'[t].pending = task[t].pending
      BY <2>3, <3>1, <3>2 DEF Covers, Snapshots
    <3>3. CASE task'[t].pending = event[e].pending
      BY <2>2, <2>3, <3>1, <3>3 DEF Covers
    <3>. QED  BY <1>4, <2>3, <3>1, <3>2, <3>3
  <2>5. task'[t].pending + extra'[e] >= Level(e)'
    BY <1>1, <1>2, <2>4
  <2>6. e = task'[t].event
    BY <2>1, <2>3
  <2>. QED  BY <2>5, <2>6
<1>. QED  BY <1>3, <1>4 DEF Covers, Snapshots

LEMMA SameLevel ==
  ASSUME NEW e \in Event, Tokens(e)' = Tokens(e), event'[e].plan = event[e].plan
  PROVE  Level(e)' = Level(e)
  BY DEF Level

LEMMA HandlerLevel ==
  ASSUME TypeOK, TypeOK', Sound, NEW t \in Task, NEW e \in Event, task[t].event = e,
         HandlerStep(t) \/ ApplyUpdate(t) \/ StoreFails(t)
  PROVE  /\ \A d \in Event : Level(d)' <= Level(d)
         /\ task'[t] = Idle => Level(e)' = Level(e) - 1
         /\ extra' = extra
<1>1. extra' = extra
  BY StoreShape DEF HandlerStep, ApplyUpdate, Take, Look, Answer, Fail,
     SaveSucceeded, SaveFailed, Settle
<1>2. \A d \in Event : event'[d].plan = event[d].plan
  BY HandlerShape
<1>3. CASE task'[t] = Idle
  <2>1. task'[t].event \notin Event /\ \A u \in Task \ {t} : task'[u].event = task[u].event
    BY <1>3, HandlerShape, IdleOutside
  <2>2. /\ Cardinality(Tokens(e)') = Cardinality(Tokens(e)) - 1
        /\ \A d \in Event \ {e} : Tokens(d)' = Tokens(d)
    BY <2>1, TokenRemoved
  <2>3. Level(e)' = Level(e) - 1
    BY <1>2, <2>2, Finite DEF Level
  <2>4. \A d \in Event \ {e} : Level(d)' = Level(d)
    BY <1>2, <2>2, SameLevel
  <2>. QED  BY <1>1, <2>3, <2>4, LevelNat
<1>4. CASE task'[t] # Idle
  <2>1. \A u \in Task : task'[u].event = task[u].event
    BY <1>4, HandlerShape
  <2>2. \A d \in Event : Level(d)' = Level(d)
    BY <1>2, <2>1, SameTokens, SameLevel
  <2>. QED  BY <1>1, <1>4, <2>2, LevelNat
<1>. QED  BY <1>3, <1>4

LEMMA HandlerCovers ==
  ASSUME TypeOK, TypeOK', Sound, Sound', Covers, NEW t \in Task,
         HandlerStep(t) \/ ApplyUpdate(t) \/ StoreFails(t)
  PROVE  Covers'
<1>0. /\ task \in [Task -> Job] /\ task[t] \in Job /\ event \in [Event -> EventRow]
      /\ extra \in [Event -> Nat]
  BY DEF TypeOK
<1>. PICK e \in Event : task[t].event = e
  BY HandlerShape
<1>1. \A d \in Event : Level(d)' + extra[d] <= Level(d) + extra'[d]
  <2>1. \A d \in Event : Level(d) \in Nat /\ Level(d)' \in Nat
    BY LevelNat, LevelNatNext
  <2>. QED  BY <1>0, <2>1, HandlerLevel
<1>2. CASE ~Settle(t)
  <2>1. event' = event
    BY <1>2, StoreShape DEF HandlerStep, ApplyUpdate, Take, Look, Answer, Fail,
       SaveSucceeded, SaveFailed
  <2>2. \/ task'[t].st \notin Running
        \/ task[t].st \in Running /\ task'[t].pending = task[t].pending
        \/ task'[t].pending = event[task[t].event].pending
    <3>1. CASE Take(t)
      BY <1>0, <3>1 DEF Take, Job
    <3>2. CASE Look(t)
      BY <1>0, <3>2 DEF Look, Job, Running, Idle
    <3>3. CASE Answer(t) \/ Fail(t)
      BY <1>0, <3>3 DEF Answer, Fail, Job, Running
    <3>7. CASE StoreFails(t)
      <4>1. CASE task'[t] = Idle
        BY <4>1 DEF Idle, Running
      <4>2. CASE \E st \in {"refused", "again"} : task'[t] = [task[t] EXCEPT !.st = st]
        BY <1>0, <3>7, <4>2, StoreBusy, StoreShape DEF Job, Running
      <4>3. CASE task'[t] = [task[t] EXCEPT !.landed = TRUE, !.fails = 0]
        BY <1>0, <4>3 DEF Job, Running
      <4>. QED  BY <3>7, <4>1, <4>2, <4>3, StoreShape
    <3>4. CASE ApplyUpdate(t)
      BY <1>0, <3>4 DEF ApplyUpdate, Job, Running
    <3>5. CASE SaveSucceeded(t)
      BY <1>0, <3>5 DEF SaveSucceeded, AfterAnswer, Job, Running
    <3>6. CASE SaveFailed(t)
      <4>1. CASE Retries(task[t].count)
        <5>1. task'[t] = Delayed(task[t])
          BY <1>0, <3>6, <4>1 DEF SaveFailed
        <5>. QED  BY <5>1 DEF Delayed, Idle, Running
      <4>2. CASE ~Retries(task[t].count)
        <5>1. task'[t] = [task[t] EXCEPT !.st = "settle", !.count = 0]
          BY <1>0, <3>6, <4>2 DEF SaveFailed
        <5>. QED  BY <1>0, <3>6, <5>1 DEF SaveFailed, Job, Running
      <4>. QED  BY <4>1, <4>2
    <3>. QED  BY <1>2, <3>1, <3>2, <3>3, <3>4, <3>5, <3>6, <3>7 DEF HandlerStep
  <2>3. \A u \in Task : task'[u].st \in Running =>
          /\ task'[u].event = task[u].event
          /\ \/ task[u].st \in Running /\ task'[u].pending = task[u].pending
             \/ /\ task[u].st # "idle"
                /\ task'[u].pending = event[task[u].event].pending
    <3>1. task'[t].st \in Running => task'[t].event = task[t].event /\ task[t].st # "idle"
      BY HandlerShape DEF Idle, Running
    <3>. QED  BY <2>2, <3>1, HandlerShape
  <2>. QED  BY <1>1, <2>1, <2>3, Quiet
<1>3. CASE Settle(t)
  <2>. DEFINE n == task[t].pending
  <2>1. /\ task[t].st \in Running /\ n \in Nat /\ task'[t] = Idle
        /\ extra[e] \in Nat /\ extra' = extra
    BY <1>0, <1>3, HandlerShape DEF Settle, Running, Job
  <2>2. /\ Level(e)' = Level(e) - 1 /\ n + extra[e] >= Level(e) /\ Level(e) \in Nat
    BY <2>1, HandlerLevel, LevelNat DEF Covers, Snapshots
  <2>3. event'[e].pending = Decremented(n)
    BY <1>0, <1>3, <2>1 DEF Settle, EventRow
  <2>4. Decremented(n) + extra[e] >= Level(e)'
    BY <2>1, <2>2 DEF Decremented
  <2>5. ASSUME NEW d \in Event, event'[d].st = "handled"
        PROVE  event'[d].pending + extra'[d] >= Level(d)'
    <3>1. CASE d = e
      BY <2>1, <2>3, <2>4, <3>1
    <3>2. CASE d # e
      <4>1. event'[d] = event[d]
        BY <1>0, <1>3, <3>2 DEF Settle
      <4>2. event[d].pending + extra[d] >= Level(d) /\ Level(d)' <= Level(d)
        BY <2>5, <4>1, HandlerLevel DEF Covers
      <4>3. Level(d) \in Nat /\ Level(d)' \in Nat /\ extra[d] \in Nat /\ event[d].pending \in Nat
        BY <1>0, LevelNat, LevelNatNext DEF EventRow
      <4>. QED  BY <2>1, <4>1, <4>2, <4>3
    <3>. QED  BY <3>1, <3>2
  <2>6. ASSUME NEW u \in Task, task'[u].st \in Running
        PROVE  (task[u].pending + extra[task[u].event] >= Level(task[u].event))'
    <3>1. u # t /\ task'[u] = task[u]
      BY <2>1, <2>6, HandlerShape DEF Idle, Running
    <3>2. task[u].event \in Event /\ task[u].pending \in Nat
      BY <1>0, <2>6, <3>1, IdleOutside DEF Sound, Placed, Running, Job
    <3>3. PICK d \in Event : task[u].event = d
      BY <3>2
    <3>4. task[u].pending + extra[d] >= Level(d) /\ Level(d)' <= Level(d)
      BY <2>6, <3>1, <3>3, HandlerLevel DEF Covers, Snapshots
    <3>5. Level(d) \in Nat /\ Level(d)' \in Nat /\ extra[d] \in Nat
      BY <1>0, LevelNat, LevelNatNext
    <3>6. task'[u].pending + extra'[d] >= Level(d)'
      BY <2>1, <3>1, <3>2, <3>4, <3>5
    <3>. QED  BY <3>1, <3>3, <3>6
  <2>. QED  BY <2>5, <2>6 DEF Covers, Snapshots
<1>. QED  BY <1>2, <1>3

LEMMA NewJobLevel ==
  ASSUME TypeOK, Sound, NEW t \in Task, NEW e \in Event, NEW w \in Hook, NEW q \in Queue,
         NEW b \in BOOLEAN, Free(t), task' = [task EXCEPT ![t] = NewJob(e, w, q, b)]
  PROVE  /\ Cardinality(Tokens(e)') = Cardinality(Tokens(e)) + 1
         /\ \A d \in Event \ {e} : Tokens(d)' = Tokens(d)
         /\ \A u \in Task \ {t} : task'[u] = task[u]
         /\ task'[t].st \notin Running
<1>1. task[t].event \notin Event
  BY IdleOutside DEF Free, Sound, Placed
<1>2. task'[t].event = e /\ task'[t].st = "queued" /\ \A u \in Task \ {t} : task'[u] = task[u]
  BY DEF NewJob, Idle, TypeOK
<1>. QED  BY <1>1, <1>2, TokenAdded DEF Running

\* Running jobs are those that ran, and they keep the count they had read.
SameRuns ==
  \A u \in Task : task'[u].st \in Running => task'[u] = task[u]

LEMMA QuietRuns ==
  ASSUME TypeOK, TypeOK', Sound, Sound', Covers, SameRuns,
         \A e \in Event : Level(e)' + extra[e] <= Level(e) + extra'[e],
         \A e \in Event : event'[e].st = "handled" =>
           event[e].st = "handled" /\ event'[e].pending = event[e].pending
  PROVE  Covers'
  BY Quiet DEF SameRuns

LEMMA EventCovers ==
  ASSUME TypeOK, TypeOK', Sound, Sound', Covers, NEW e \in Event,
         \/ Accept(e) \/ HandleEvent(e) \/ EventDropped(e)
         \/ \E w \in Hook : TurnDropped(e, w)
         \/ \E w \in Hook, t \in Task : Schedule(e, w, t) \/ Retry(e, w, t)
  PROVE  Covers'
<1>0. /\ task \in [Task -> Job] /\ event \in [Event -> EventRow] /\ extra \in [Event -> Nat]
      /\ \A d \in Event : Level(d) \in Nat /\ Level(d)' \in Nat
  BY LevelNat, LevelNatNext DEF TypeOK
<1>1. CASE Accept(e)
  <2>1. /\ task' = task /\ extra' = extra
        /\ \A d \in Event : event'[d].plan = event[d].plan
        /\ \A d \in Event : event'[d].st = "handled" =>
             event[d].st = "handled" /\ event'[d].pending = event[d].pending
    BY <1>0, <1>1 DEF Accept, EventRow
  <2>2. \A d \in Event : Level(d)' = Level(d)
    BY <2>1, SameTokens, SameLevel
  <2>. QED  BY <1>0, <2>1, <2>2, QuietRuns DEF SameRuns
<1>2. CASE HandleEvent(e)
  <2>1. /\ task' = task /\ extra' = extra
        /\ \A d \in Event \ {e} : event'[d] = event[d]
        /\ event[e].st = "queued" /\ event[e].plan = {}
    BY <1>0, <1>2 DEF HandleEvent, Sound
  <2>2. Tokens(e) = {} /\ \A t \in Task : task[t].event # e
    BY <2>1, IdleOutside DEF Tokens, Sound, Placed
  <2>3. \A d \in Event : Tokens(d)' = Tokens(d)
    BY <2>1, SameTokens
  <2>4. event'[e].pending + extra'[e] >= Level(e)'
    <3>1. Level(e)' = Cardinality({}) + Cardinality(event'[e].plan)
      BY <2>2, <2>3 DEF Level
    <3>2. Cardinality({}) = 0 /\ extra[e] \in Nat /\ event'[e] \in EventRow
      BY <1>0, FS_EmptySet DEF TypeOK
    <3>3. CASE event[e].pending = 0
      <4>1. event'[e] = [event[e] EXCEPT !.st = "handled"]
        BY <1>0, <1>2, <3>3 DEF HandleEvent
      <4>2. event'[e].plan = {}
        BY <1>0, <2>1, <4>1 DEF EventRow
      <4>. QED  BY <2>1, <3>1, <3>2, <4>2 DEF EventRow
    <3>4. CASE event[e].pending # 0
      <4>1. event'[e] = [st |-> "handled", pending |-> Outstanding(EventHooks(e)),
                         plan |-> EventHooks(e)]
        BY <1>0, <1>2, <3>4 DEF HandleEvent
      <4>2. event'[e].pending = Cardinality(event'[e].plan)
        BY <4>1 DEF Outstanding
      <4>. QED  BY <2>1, <3>1, <3>2, <4>2 DEF EventRow
    <3>. QED  BY <3>3, <3>4
  <2>5. \A d \in Event \ {e} : Level(d)' = Level(d)
    BY <2>1, <2>3, SameLevel
  <2>6. \A d \in Event : event'[d].st = "handled" => event'[d].pending + extra'[d] >= Level(d)'
    BY <2>1, <2>4, <2>5 DEF Covers
  <2>7. ASSUME NEW u \in Task, task'[u].st \in Running
        PROVE  (task[u].pending + extra[task[u].event] >= Level(task[u].event))'
    <3>1. task[u].event \in Event \ {e} /\ task' = task
      BY <2>1, <2>2, <2>7, IdleOutside DEF Sound, Placed, Running
    <3>2. PICK d \in Event \ {e} : task[u].event = d
      BY <3>1
    <3>. QED  BY <2>1, <2>5, <2>7, <3>1, <3>2 DEF Covers, Snapshots
  <2>. QED  BY <2>6, <2>7 DEF Covers, Snapshots
<1>3. ASSUME NEW w \in Hook, NEW t \in Task, Schedule(e, w, t)  PROVE Covers'
  <2>1. /\ extra' = extra /\ w \in event[e].plan
        /\ \A d \in Event : event'[d].st = event[d].st /\ event'[d].pending = event[d].pending
        /\ event'[e].plan = event[e].plan \ {w}
        /\ \A d \in Event \ {e} : event'[d].plan = event[d].plan
    BY <1>0, <1>3 DEF Schedule, EventRow
  <2>2. Cardinality(event'[e].plan) = Cardinality(event[e].plan) - 1
    <3>1. IsFiniteSet(event[e].plan) /\ w \in event[e].plan
      BY <2>1, Finite
    <3>2. Cardinality(event[e].plan \ {w}) = Cardinality(event[e].plan) - 1
      BY <3>1, FS_RemoveElement
    <3>. QED  BY <2>1, <3>2
  <2>3. CASE task' = task
    <3>1. \A d \in Event : Tokens(d)' = Tokens(d)
      BY <2>3, SameTokens
    <3>2. \A d \in Event \ {e} : Level(d)' = Level(d)
      BY <2>1, <3>1, SameLevel
    <3>3. Level(e)' = Level(e) - 1
      BY <2>2, <3>1, Finite DEF Level
    <3>. QED  BY <1>0, <2>1, <2>3, <3>2, <3>3, QuietRuns DEF SameRuns
  <2>4. CASE Free(t) /\ task' = [task EXCEPT ![t] = NewJob(e, w, "bus", FALSE)]
    <3>1. /\ Cardinality(Tokens(e)') = Cardinality(Tokens(e)) + 1
          /\ \A d \in Event \ {e} : Tokens(d)' = Tokens(d)
          /\ SameRuns
      BY <2>4, NewJobLevel DEF Queue, SameRuns
    <3>2. \A d \in Event \ {e} : Level(d)' = Level(d)
      BY <2>1, <3>1, SameLevel
    <3>3. Level(e)' = Level(e)
      BY <2>2, <3>1, Finite DEF Level
    <3>. QED  BY <1>0, <2>1, <3>1, <3>2, <3>3, QuietRuns
  <2>. QED  BY <1>3, <2>3, <2>4 DEF Schedule, IsPlace
<1>4. ASSUME NEW w \in Hook, NEW t \in Task, Retry(e, w, t)  PROVE Covers'
  <2>1. /\ event' = event /\ extra' = [extra EXCEPT ![e] = extra[e] + 1] /\ Free(t)
        /\ task' = [task EXCEPT ![t] = NewJob(e, w, "api", TRUE)]
    BY <1>4 DEF Retry, IsPlace
  <2>2. /\ Cardinality(Tokens(e)') = Cardinality(Tokens(e)) + 1
        /\ \A d \in Event \ {e} : Tokens(d)' = Tokens(d)
        /\ SameRuns
    BY <2>1, NewJobLevel DEF Queue, SameRuns
  <2>3. \A d \in Event \ {e} : Level(d)' = Level(d)
    BY <2>1, <2>2, SameLevel
  <2>4. Level(e)' = Level(e) + 1
    BY <2>1, <2>2, Finite DEF Level
  <2>. QED  BY <1>0, <2>1, <2>2, <2>3, <2>4, QuietRuns
<1>5. CASE EventDropped(e)
  <2>1. /\ task' = task /\ extra' = extra
        /\ \A d \in Event : event'[d].plan = event[d].plan
        /\ \A d \in Event : event'[d].st = "handled" =>
             event[d].st = "handled" /\ event'[d].pending = event[d].pending
    BY <1>0, <1>5 DEF EventDropped, EventRow
  <2>2. \A d \in Event : Level(d)' = Level(d)
    BY <2>1, SameTokens, SameLevel
  <2>. QED  BY <1>0, <2>1, <2>2, QuietRuns DEF SameRuns
<1>6. ASSUME NEW w \in Hook, TurnDropped(e, w)  PROVE Covers'
  <2>1. /\ task' = task /\ extra' = extra /\ w \in event[e].plan
        /\ \A d \in Event : event'[d].st = event[d].st /\ event'[d].pending = event[d].pending
        /\ event'[e].plan = event[e].plan \ {w}
        /\ \A d \in Event \ {e} : event'[d].plan = event[d].plan
    BY <1>0, <1>6 DEF TurnDropped, EventRow
  <2>2. Cardinality(event[e].plan \ {w}) = Cardinality(event[e].plan) - 1
    <3>1. IsFiniteSet(event[e].plan)
      BY Finite
    <3>. QED  BY <2>1, <3>1, FS_RemoveElement
  <2>3. \A d \in Event : Tokens(d)' = Tokens(d)
    BY <2>1, SameTokens
  <2>4. \A d \in Event \ {e} : Level(d)' = Level(d)
    BY <2>1, <2>3, SameLevel
  <2>5. Level(e)' = Level(e) - 1
    BY <2>1, <2>2, <2>3, Finite DEF Level
  <2>. QED  BY <1>0, <2>1, <2>4, <2>5, QuietRuns DEF SameRuns
<1>. QED  BY <1>1, <1>2, <1>3, <1>4, <1>5, <1>6

LEMMA LoopCovers ==
  ASSUME TypeOK, TypeOK', Sound, Sound', Covers, NEW q \in Queue,
         Fetch(q) \/ \E f \in todo[q], t \in Task : PushDue(q, f, t)
  PROVE  Covers'
<1>0. /\ task \in [Task -> Job] /\ extra \in [Event -> Nat]
      /\ \A d \in Event : Level(d) \in Nat /\ Level(d)' \in Nat
  BY LevelNat, LevelNatNext DEF TypeOK
<1>1. CASE Fetch(q)
  <2>1. PICK due \in SUBSET {t \in Task : task[t].st = "later"} :
          task' = [t \in Task |-> IF t \in due THEN [task[t] EXCEPT !.st = "marked"]
                                  ELSE task[t]]
    BY <1>1 DEF Fetch
  <2>2. \A t \in Task : task'[t].event = task[t].event
    BY <1>0, <2>1 DEF Job
  <2>3. SameRuns
    BY <1>0, <2>1 DEF SameRuns, Running, Job
  <2>4. event' = event /\ extra' = extra
    BY <1>1 DEF Fetch
  <2>5. \A d \in Event : Level(d)' = Level(d)
    BY <2>2, <2>4, SameTokens, SameLevel
  <2>. QED  BY <1>0, <2>3, <2>4, <2>5, QuietRuns
<1>2. ASSUME NEW f \in todo[q], NEW t \in Task, PushDue(q, f, t)  PROVE Covers'
  <2>1. f.task \in Task /\ f.event \in Event /\ f.hook \in Hook /\ event' = event
    BY <1>2 DEF PushDue, TypeOK, Fetched
  <2>2. CASE task[f.task].st = "marked"
    <3>1. /\ task' = [task EXCEPT ![f.task] = [task[f.task] EXCEPT !.st = "queued", !.queue = q]]
          /\ extra' = extra
      BY <1>0, <1>2, <2>1, <2>2 DEF PushDue
    <3>2. (\A u \in Task : task'[u].event = task[u].event) /\ SameRuns
      BY <1>0, <2>1, <3>1 DEF Job, SameRuns, Running
    <3>3. \A d \in Event : Level(d)' = Level(d)
      BY <2>1, <3>2, SameTokens, SameLevel
    <3>. QED  BY <1>0, <2>1, <3>1, <3>2, <3>3, QuietRuns
  <2>3. CASE task[f.task].st # "marked"
    <3>0. PICK e \in Event, w \in Hook : e = f.event /\ w = f.hook
      BY <2>1
    <3>1. /\ task' = [task EXCEPT ![t] = NewJob(e, w, q, FALSE)] /\ Free(t)
          /\ extra' = [extra EXCEPT ![e] = extra[e] + 1]
      BY <1>2, <2>3, <3>0 DEF PushDue, IsPlace
    <3>2. /\ Cardinality(Tokens(e)') = Cardinality(Tokens(e)) + 1
          /\ \A d \in Event \ {e} : Tokens(d)' = Tokens(d)
          /\ SameRuns
      BY <3>1, NewJobLevel DEF SameRuns
    <3>3. \A d \in Event \ {e} : Level(d)' = Level(d)
      BY <2>1, <3>2, SameLevel
    <3>4. Level(e)' = Level(e) + 1
      BY <2>1, <3>2, Finite DEF Level
    <3>. QED  BY <1>0, <2>1, <3>1, <3>2, <3>3, <3>4, QuietRuns
  <2>. QED  BY <2>2, <2>3
<1>. QED  BY <1>1, <1>2

LEMMA OutsideCovers ==
  ASSUME TypeOK, TypeOK', Sound, Sound', Covers,
         Restart \/ \E w \in Hook, status \in {"enabled", "disabled"} : SetStatus(w, status)
  PROVE  Covers'
<1>0. /\ task \in [Task -> Job] /\ event \in [Event -> EventRow] /\ extra \in [Event -> Nat]
      /\ \A d \in Event : Level(d) \in Nat /\ Level(d)' \in Nat
  BY LevelNat, LevelNatNext DEF TypeOK
<1>1. CASE Restart
  <2>1. \A e \in Event : event'[e].st = "handled" =>
          event[e].st = "handled" /\ event'[e].pending = event[e].pending
    BY <1>0, <1>1 DEF Restart, EventRow
  <2>2. SameRuns
    BY <1>1, RestartShape, IdleOutside DEF SameRuns, Running
  <2>3. ASSUME NEW e \in Event  PROVE Level(e)' + extra[e] <= Level(e) + extra'[e]
    <3>1. Tokens(e)' \subseteq Tokens(e)
      BY <1>1, RestartShape, IdleOutside DEF Tokens
    <3>2. Cardinality(Tokens(e)') <= Cardinality(Tokens(e)) /\ Cardinality(Tokens(e)') \in Nat
      BY <3>1, Finite, FS_Subset, FS_CardinalityType
    <3>3. event'[e].plan = {} \/ event'[e].plan = event[e].plan
      BY <1>0, <1>1 DEF Restart, EventRow
    <3>4. Cardinality(event'[e].plan) <= Cardinality(event[e].plan)
          /\ Cardinality(event'[e].plan) \in Nat
      <4>1. Cardinality(event[e].plan) \in Nat /\ Cardinality({}) = 0
        BY Finite, FS_EmptySet
      <4>2. CASE event'[e].plan = {}
        BY <4>1, <4>2
      <4>3. CASE event'[e].plan = event[e].plan
        BY <4>1, <4>3
      <4>. QED  BY <3>3, <4>2, <4>3
    <3>5. extra'[e] = extra[e] + Cardinality(Rerun(e))
      BY <1>1 DEF Restart
    <3>6. Cardinality(Rerun(e)) \in Nat
      BY WebhookAssumption, FS_Subset, FS_CardinalityType DEF Rerun, Tokens
    <3>. QED  BY <1>0, <3>2, <3>4, <3>5, <3>6, Finite DEF Level
  <2>. QED  BY <2>1, <2>2, <2>3, QuietRuns
<1>2. ASSUME NEW w \in Hook, NEW status \in {"enabled", "disabled"}, SetStatus(w, status)
      PROVE  Covers'
  <2>1. task' = task /\ event' = event /\ extra' = extra
    BY <1>2 DEF SetStatus
  <2>2. \A d \in Event : Level(d)' = Level(d)
    BY <2>1, SameTokens, SameLevel
  <2>. QED  BY <1>0, <2>1, <2>2, QuietRuns DEF SameRuns
<1>. QED  BY <1>1, <1>2

LEMMA InitCovers == Init => Covers
<1>. SUFFICES ASSUME Init PROVE Covers
  OBVIOUS
<1>. QED  BY DEF Init, Covers, Snapshots, Running, Idle

LEMMA StepCovers ==
  TypeOK /\ TypeOK' /\ Sound /\ Sound' /\ Covers /\ [Next]_vars => Covers'
<1>. SUFFICES ASSUME TypeOK, TypeOK', Sound, Sound', Covers, [Next]_vars PROVE Covers'
  OBVIOUS
<1>1. CASE Next
  BY <1>1, NextCases, HandlerCovers, EventCovers, LoopCovers, OutsideCovers, Zenon
<1>2. CASE UNCHANGED vars
  BY <1>2 DEF vars, Covers, Snapshots, Level, Tokens
<1>. QED  BY <1>1, <1>2

LEMMA CoversPending == Covers => PendingCovers
  BY DEF Covers, PendingCovers, Level

\* However attempts of one event interleave between the read of pendingWebhooks
\* and the write of its decrement, the count of a handled event stays at least
\* the number of endpoints whose attempts are not over, up to attempts that a
\* user, a restart or the second queue began: an event is never closed early.
THEOREM PendingCoversAlways == Spec => []PendingCovers
<1>. QED  BY InitSound, StepSound, InitCovers, StepCovers, CoversPending, PTL DEF Spec
=============================================================================
