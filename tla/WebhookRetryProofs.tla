------------------------- MODULE WebhookRetryProofs -------------------------
(***************************************************************************)
(* RetryCap, AnsweredOnce and DisabledByFailures of WebhookDelivery, for   *)
(* every number of events, endpoints, jobs and attempts.  What makes the   *)
(* first two inductive is a budget: what is left of the attempts of an     *)
(* event to an endpoint covers all the jobs that may still begin one.  The *)
(* third needs that every copy of a failure counter is backed by failures. *)
(***************************************************************************)
EXTENDS WebhookDeliveryProofs

\* An attempt is over when nothing but its count is left to do, or when what is
\* left of it is a recorded attempt that was the last one allowed.
Over(j) == j.st = "settle" \/ (j.st \in {"saved", "again"} /\ j.count >= MaxRetryCount)

\* The jobs that may still record another attempt, and the turn of the forEach
\* that has not come yet.
Alive(t, e, w) == task[t].event = e /\ task[t].hook = w /\ ~Over(task[t])
Live(e, w) == {t \in Task : Alive(t, e, w)}
Waiting(e, w) == IF w \in event[e].plan THEN 1 ELSE 0
Load(e, w) == Cardinality(Live(e, w)) + Waiting(e, w)

\* The jobs that AnsweredOnce is about.
Unheard(t, e, w) ==
  task[t].event = e /\ task[t].hook = w /\ task[t].st \notin {"saved", "settle"}
Callers(e, w) == {t \in Task : Unheard(t, e, w)}

\* An attempt counts only from the last one that is allowed.
Spent(n) == IF n >= MaxRetryCount THEN n ELSE MaxRetryCount - 1

Budget(e, w) == Spent(rows[e][w].last) + Load(e, w) <= MaxRetryCount + extra[e]

\* Nothing is left to call an endpoint that has answered and been counted.
Silenced(e, w) ==
  extra[e] = 0 =>
    /\ rows[e][w].succeeded <= rows[e][w].uncounted + 1
    /\ rows[e][w].succeeded > rows[e][w].uncounted => Callers(e, w) = {}

Within(e, w) == Budget(e, w) /\ Silenced(e, w)

\* The count a handler has computed is at most one more than what is recorded,
\* and no more once it is recorded itself.
Called == {"post", "acked", "refused"}
Written == {"saved", "again"}
Looked ==
  \A t \in Task :
    /\ task[t].st \in Called =>
         task[t].count <= rows[task[t].event][task[t].hook].last + 1
    /\ task[t].st \in Written =>
         task[t].count <= rows[task[t].event][task[t].hook].last

Bounded == (\A e \in Event, w \in Hook : Within(e, w)) /\ Looked
-----------------------------------------------------------------------------
LEMMA LiveFinite ==
  ASSUME NEW e, NEW w
  PROVE  IsFiniteSet(Live(e, w)) /\ Cardinality(Live(e, w)) \in Nat
<1>1. Live(e, w) \subseteq Task
  BY DEF Live
<1>. QED  BY <1>1, WebhookAssumption, FS_Subset, FS_CardinalityType

LEMMA LiveFiniteNext ==
  ASSUME NEW e, NEW w
  PROVE  IsFiniteSet(Live(e, w)') /\ Cardinality(Live(e, w)') \in Nat
<1>1. Live(e, w)' \subseteq Task
  BY DEF Live
<1>. QED  BY <1>1, WebhookAssumption, FS_Subset, FS_CardinalityType

LEMMA RowNat ==
  ASSUME TypeOK, NEW e \in Event, NEW w \in Hook
  PROVE  /\ rows[e][w].last \in Nat /\ rows[e][w].succeeded \in Nat
         /\ rows[e][w].uncounted \in Nat /\ extra[e] \in Nat
BY DEF TypeOK, Attempts

LEMMA RowNatNext ==
  ASSUME TypeOK', NEW e \in Event, NEW w \in Hook
  PROVE  /\ rows'[e][w].last \in Nat /\ rows'[e][w].succeeded \in Nat
         /\ rows'[e][w].uncounted \in Nat /\ extra'[e] \in Nat
BY DEF TypeOK, Attempts

LEMMA SpentNat == ASSUME NEW n \in Nat PROVE Spent(n) \in Nat
BY WebhookAssumption DEF Spent

\* One endpoint of one event: the budget holds after a step that records
\* nothing there and adds no more to its load than to extra.
LEMMA BudgetAt ==
  ASSUME TypeOK, TypeOK', NEW e \in Event, NEW w \in Hook, Budget(e, w),
         rows'[e][w].last = rows[e][w].last,
         Cardinality(Live(e, w)') + Waiting(e, w)' + extra[e]
           <= Cardinality(Live(e, w)) + Waiting(e, w) + extra'[e]
  PROVE  Budget(e, w)'
<1>1. /\ Spent(rows[e][w].last) \in Nat /\ extra[e] \in Nat /\ extra'[e] \in Nat
      /\ Cardinality(Live(e, w)) \in Nat /\ Cardinality(Live(e, w)') \in Nat
  BY RowNat, RowNatNext, SpentNat, LiveFinite, LiveFiniteNext
<1>2. Waiting(e, w) \in Nat /\ Waiting(e, w)' \in Nat
  BY DEF Waiting
<1>3. Spent(rows[e][w].last) + (Cardinality(Live(e, w)) + Waiting(e, w))
        <= MaxRetryCount + extra[e]
  BY DEF Budget, Load
<1>4. Spent(rows[e][w].last) + (Cardinality(Live(e, w)') + Waiting(e, w)')
        <= MaxRetryCount + extra'[e]
  BY <1>1, <1>2, <1>3, WebhookAssumption
<1>5. Spent(rows[e][w].last)' = Spent(rows[e][w].last)
  BY DEF Spent
<1>. QED  BY <1>4, <1>5 DEF Budget, Load

\* A step that records nothing and after which no more jobs are alive.
LEMMA ShrinkAt ==
  ASSUME TypeOK, TypeOK', NEW e \in Event, NEW w \in Hook, Within(e, w),
         rows'[e][w] = rows[e][w], extra[e] <= extra'[e], Live(e, w)' \subseteq Live(e, w),
         Callers(e, w)' \subseteq Callers(e, w),
         w \in event'[e].plan => w \in event[e].plan
  PROVE  Within(e, w)'
<1>1. Cardinality(Live(e, w)') <= Cardinality(Live(e, w))
  BY LiveFinite, FS_Subset
<1>2. Waiting(e, w)' <= Waiting(e, w) /\ Waiting(e, w) \in Nat /\ Waiting(e, w)' \in Nat
  BY DEF Waiting
<1>3. /\ Cardinality(Live(e, w)) \in Nat /\ Cardinality(Live(e, w)') \in Nat
      /\ extra[e] \in Nat /\ extra'[e] \in Nat
  BY LiveFinite, LiveFiniteNext, RowNat, RowNatNext
<1>4. Cardinality(Live(e, w)') + Waiting(e, w)' + extra[e]
        <= Cardinality(Live(e, w)) + Waiting(e, w) + extra'[e]
  BY <1>1, <1>2, <1>3
<1>5. Budget(e, w)'
  BY <1>4, BudgetAt DEF Within
<1>6. Silenced(e, w)'
  <2>1. extra'[e] = 0 => extra[e] = 0
    BY <1>3
  <2>. QED  BY <2>1 DEF Within, Silenced
<1>. QED  BY <1>5, <1>6 DEF Within

LEMMA Shrink ==
  ASSUME TypeOK, TypeOK', \A e \in Event, w \in Hook : Within(e, w),
         \A e \in Event, w \in Hook :
           /\ rows'[e][w] = rows[e][w] /\ extra[e] <= extra'[e]
           /\ Live(e, w)' \subseteq Live(e, w) /\ Callers(e, w)' \subseteq Callers(e, w)
           /\ w \in event'[e].plan => w \in event[e].plan
  PROVE  \A e \in Event, w \in Hook : Within(e, w)'
BY ShrinkAt

\* A new job in an empty place is alive for its own endpoint only.
LEMMA Grow ==
  ASSUME TypeOK, Sound, NEW t \in Task, NEW e \in Event, NEW w \in Hook, NEW q \in Queue,
         NEW b \in BOOLEAN, Free(t), task' = [task EXCEPT ![t] = NewJob(e, w, q, b)]
  PROVE  /\ Cardinality(Live(e, w)') = Cardinality(Live(e, w)) + 1
         /\ \A d \in Event, v \in Hook : (d # e \/ v # w) =>
              Live(d, v)' = Live(d, v) /\ Callers(d, v)' = Callers(d, v)
<1>1. task[t].event \notin Event
  BY IdleOutside DEF Free, Sound, Placed
<1>2. task'[t] = NewJob(e, w, q, b) /\ \A u \in Task \ {t} : task'[u] = task[u]
  BY DEF TypeOK
<1>3. task'[t].event = e /\ task'[t].hook = w /\ task'[t].st = "queued"
  <2>1. NewJob(e, w, q, b).event = e /\ NewJob(e, w, q, b).hook = w
        /\ NewJob(e, w, q, b).st = "queued"
    BY DEF NewJob, Idle
  <2>. QED  BY <1>2, <2>1
<1>4. Live(e, w)' = Live(e, w) \cup {t} /\ t \notin Live(e, w)
  BY <1>1, <1>2, <1>3 DEF Live, Alive, Over
<1>5. \A d \in Event, v \in Hook : (d # e \/ v # w) =>
        Live(d, v)' = Live(d, v) /\ Callers(d, v)' = Callers(d, v)
  BY <1>1, <1>2, <1>3 DEF Live, Alive, Callers, Unheard
<1>. QED  BY <1>4, <1>5, LiveFinite, FS_AddElement

\* Handlers that began to call have the same count, and the last attempts of
\* their endpoints are no fewer.
LEMMA LookedStays ==
  ASSUME TypeOK, TypeOK', Sound, Looked,
         \A e \in Event, w \in Hook : rows'[e][w].last >= rows[e][w].last,
         \A t \in Task : task'[t].st \in Called \cup Written => task'[t] = task[t]
  PROVE  Looked'
<1>. SUFFICES ASSUME NEW t \in Task, task'[t].st \in Called \cup Written
     PROVE  /\ task'[t].st \in Called =>
                 task'[t].count <= rows'[task'[t].event][task'[t].hook].last + 1
            /\ task'[t].st \in Written =>
                 task'[t].count <= rows'[task'[t].event][task'[t].hook].last
  BY DEF Looked
<1>1. task'[t] = task[t] /\ task[t].count \in Nat
  BY DEF TypeOK, Job
<1>2. task[t].event \in Event /\ task[t].hook \in Hook
  BY <1>1 DEF Sound, Placed, Idle, Called, Written
<1>3. PICK e \in Event, w \in Hook : e = task[t].event /\ w = task[t].hook
  BY <1>2
<1>4. /\ task[t].st \in Called => task[t].count <= rows[e][w].last + 1
      /\ task[t].st \in Written => task[t].count <= rows[e][w].last
  BY <1>3 DEF Looked
<1>5. rows'[e][w].last \in Nat /\ rows[e][w].last \in Nat /\ rows'[e][w].last >= rows[e][w].last
  BY RowNat, RowNatNext
<1>6. /\ task[t].st \in Called => task[t].count <= rows'[e][w].last + 1
      /\ task[t].st \in Written => task[t].count <= rows'[e][w].last
  BY <1>1, <1>4, <1>5
<1>. QED  BY <1>1, <1>3, <1>6
-----------------------------------------------------------------------------
(* What a handler does to its job: it keeps it for the same endpoint without *)
(* recording an attempt, or it records one.                                  *)

Saves(t) == SaveSucceeded(t) \/ SaveFailed(t) \/ (StoreFails(t) /\ DelayRefused(t))

LEMMA HandlerKeeps ==
  ASSUME TypeOK, TypeOK', Sound, NEW t \in Task,
         HandlerStep(t) \/ ApplyUpdate(t) \/ StoreFails(t), ~Saves(t)
  PROVE  /\ rows' = rows \/ (CountRefused(t) /\ task'[t] = [task[t] EXCEPT !.st = "again"])
         /\ extra' = extra
         /\ task'[t] = Idle \/ (Over(task[t]) => Over(task'[t]))
         /\ \/ task'[t] = Idle \/ CountRefused(t)
            \/ (task[t].st \in {"saved", "settle"} => task'[t].st \in {"saved", "settle"})
         /\ task'[t].st \in Called =>
              \/ task[t].st \in Called /\ task'[t].count = task[t].count
              \/ task'[t].count = rows[task[t].event][task[t].hook].last + 1
         /\ task'[t].st \in Written =>
              task[t].st \in Written /\ task'[t].count = task[t].count
<1>0. task[t] \in Job /\ task \in [Task -> Job]
  BY DEF TypeOK
<1>. USE <1>0
<1>1. CASE Take(t)
  BY <1>1 DEF Take, Job, Called, Written, Over
<1>2. CASE Look(t)
  <2>1. CASE hook[task[t].hook].status # "enabled"
    <3>1. task'[t] = Idle
      BY <1>2, <2>1 DEF Look
    <3>. QED  BY <1>2, <3>1 DEF Look, Idle, Called, Written
  <2>2. CASE hook[task[t].hook].status = "enabled"
    <3>1. task' = [task EXCEPT ![t] =
            [task[t] EXCEPT !.st = "post", !.fails = hook[task[t].hook].fails,
                            !.count = NextCount(rows[task[t].event][task[t].hook].last)]]
      BY <1>2, <2>2 DEF Look
    <3>2. /\ task'[t].st = "post"
          /\ task'[t].count = rows[task[t].event][task[t].hook].last + 1
      BY <3>1 DEF Job, NextCount
    <3>. QED  BY <1>2, <3>2 DEF Look, Over, Written
  <2>. QED  BY <2>1, <2>2
<1>3. CASE Answer(t)
  BY <1>3 DEF Answer, Job, Called, Written, Over
<1>4. CASE Fail(t)
  BY <1>4 DEF Fail, Job, Called, Written, Over
<1>5. CASE ApplyUpdate(t)
  BY <1>5 DEF ApplyUpdate, Job, Called, Written, Over
<1>6. CASE StoreFails(t)
  <2>0. extra' = extra
    BY <1>6, StoreShape
  <2>1. CASE SuccessRefused(t)
    BY <2>0, <2>1 DEF SuccessRefused, Thrown, Job, Called, Written, Over
  <2>2. CASE CountRefused(t)
    BY <2>0, <2>2 DEF CountRefused, Thrown, Job, Called, Written, Over
  <2>3. CASE JobDropped(t)
    <3>1. task'[t] = Idle /\ rows' = rows
      BY <2>3 DEF JobDropped
    <3>. QED  BY <2>0, <3>1 DEF Idle, Called, Written
  <2>4. CASE UpdateRefused(t)
    BY <2>0, <2>4 DEF UpdateRefused, Job, Called, Written, Over
  <2>. QED  BY <1>6, <2>1, <2>2, <2>3, <2>4 DEF StoreFails, Saves
<1>7. CASE Settle(t)
  <2>1. task'[t] = Idle
    BY <1>7 DEF Settle
  <2>. QED  BY <1>7, <2>1 DEF Settle, Idle, Called, Written
<1>. QED
  BY <1>1, <1>2, <1>3, <1>4, <1>5, <1>6, <1>7 DEF HandlerStep, Saves

\* No endpoint of any event has more jobs alive after it.
LEMMA KeepsLive ==
  ASSUME TypeOK, TypeOK', Sound, NEW t \in Task,
         HandlerStep(t) \/ ApplyUpdate(t) \/ StoreFails(t), ~Saves(t),
         NEW e \in Event, NEW w \in Hook
  PROVE  /\ Live(e, w)' \subseteq Live(e, w)
         /\ ~CountRefused(t) => Callers(e, w)' \subseteq Callers(e, w)
         /\ task[t].event # e \/ task[t].hook # w => Callers(e, w)' \subseteq Callers(e, w)
<1>1. /\ task'[t] = Idle \/ (task'[t].event = task[t].event /\ task'[t].hook = task[t].hook)
      /\ \A u \in Task \ {t} : task'[u] = task[u]
  BY HandlerShape
<1>2. Alive(t, e, w)' => Alive(t, e, w)
  BY <1>1, HandlerKeeps, IdleOutside DEF Alive
<1>3. \A u \in Task \ {t} : (Alive(u, e, w)' => Alive(u, e, w)) /\ (Unheard(u, e, w)' => Unheard(u, e, w))
  BY <1>1 DEF Alive, Over, Unheard
<1>4. ~CountRefused(t) \/ task[t].event # e \/ task[t].hook # w =>
        (Unheard(t, e, w)' => Unheard(t, e, w))
  BY <1>1, HandlerKeeps, IdleOutside DEF Unheard
<1>. QED  BY <1>2, <1>3, <1>4 DEF Live, Callers

LEMMA KeepsBounded ==
  ASSUME TypeOK, TypeOK', Sound, Sound', Bounded, NEW t \in Task,
         HandlerStep(t) \/ ApplyUpdate(t) \/ StoreFails(t), ~Saves(t)
  PROVE  Bounded'
<1>0. (\A e \in Event, w \in Hook : Within(e, w)) /\ Looked
  BY DEF Bounded
<1>1. /\ task'[t] = Idle \/ (task'[t].event = task[t].event /\ task'[t].hook = task[t].hook)
      /\ \A u \in Task \ {t} : task'[u] = task[u]
      /\ \A e \in Event : event'[e].plan = event[e].plan
      /\ extra' = extra
  BY HandlerShape, HandlerKeeps
<1>2. \A e \in Event : extra[e] <= extra'[e]
  BY <1>1 DEF TypeOK
<1>3. PICK d \in Event, v \in Hook : d = task[t].event /\ v = task[t].hook
  BY HandlerShape
<1>4. /\ \A e \in Event, w \in Hook : (e # d \/ w # v) => rows'[e][w] = rows[e][w]
      /\ rows'[d][v].last = rows[d][v].last
      /\ \/ rows'[d][v] = rows[d][v] /\ ~CountRefused(t)
         \/ /\ rows'[d][v].succeeded = rows[d][v].succeeded
            /\ rows'[d][v].uncounted = rows[d][v].uncounted + 1
  <2>1. CASE CountRefused(t)
    <3>1. rows' = [rows EXCEPT ![d] = [rows[d] EXCEPT ![v] =
                     [rows[d][v] EXCEPT !.uncounted = rows[d][v].uncounted + 1]]]
      BY <1>3, <2>1 DEF CountRefused
    <3>2. rows[d][v] \in Attempts
      BY DEF TypeOK
    <3>3. PICK r : r = [rows[d][v] EXCEPT !.uncounted = rows[d][v].uncounted + 1]
      OBVIOUS
    <3>4. /\ rows'[d][v] = r
          /\ \A e \in Event, w \in Hook : (e # d \/ w # v) => rows'[e][w] = rows[e][w]
      BY <3>1, <3>3 DEF TypeOK
    <3>5. /\ r.last = rows[d][v].last /\ r.succeeded = rows[d][v].succeeded
          /\ r.uncounted = rows[d][v].uncounted + 1
      BY <3>2, <3>3 DEF Attempts
    <3>. QED  BY <3>4, <3>5
  <2>2. CASE ~CountRefused(t)
    BY <2>2, HandlerKeeps
  <2>. QED  BY <2>1, <2>2
<1>5. ASSUME NEW e \in Event, NEW w \in Hook  PROVE Within(e, w)'
  <2>0. /\ w \in event'[e].plan => w \in event[e].plan
        /\ Live(e, w)' \subseteq Live(e, w)
        /\ Within(e, w) /\ extra[e] <= extra'[e]
    BY <1>0, <1>1, <1>2, KeepsLive
  <2>1. CASE (e # d \/ w # v) \/ ~CountRefused(t)
    <3>1. rows'[e][w] = rows[e][w]
      BY <1>4, <2>1, HandlerKeeps
    <3>2. Callers(e, w)' \subseteq Callers(e, w)
      BY <1>3, <2>1, KeepsLive
    <3>. QED  BY <2>0, <3>1, <3>2, ShrinkAt
  <2>2. CASE e = d /\ w = v /\ CountRefused(t)
    <3>1. /\ rows'[e][w].succeeded = rows[e][w].succeeded
          /\ rows'[e][w].uncounted = rows[e][w].uncounted + 1
          /\ rows'[e][w].last = rows[e][w].last
      <4>1. rows'[d][v] # rows[d][v] \/ ~CountRefused(t) \/ rows[d][v].uncounted + 1 = rows[d][v].uncounted
              \/ rows'[d][v].uncounted = rows[d][v].uncounted + 1
        BY <1>4
      <4>. QED  BY <1>4, <2>2
    <3>2. Silenced(e, w)'
      <4>1. extra[e] = 0 => rows[e][w].succeeded <= rows[e][w].uncounted + 1
        BY <2>0 DEF Within, Silenced
      <4>2. rows[e][w].succeeded \in Nat /\ rows[e][w].uncounted \in Nat
        BY RowNat
      <4>3. extra'[e] = 0 => /\ rows'[e][w].succeeded <= rows'[e][w].uncounted
                             /\ rows'[e][w].succeeded <= rows'[e][w].uncounted + 1
        BY <1>1, <3>1, <4>1, <4>2
      <4>4. extra'[e] = 0 => ~(rows'[e][w].succeeded > rows'[e][w].uncounted)
        BY <3>1, <4>2, <4>3
      <4>. QED  BY <4>3, <4>4 DEF Silenced
    <3>3. Budget(e, w)'
      <4>1. Cardinality(Live(e, w)') <= Cardinality(Live(e, w))
        BY <2>0, LiveFinite, FS_Subset
      <4>2. Waiting(e, w)' = Waiting(e, w) /\ Waiting(e, w) \in Nat
        BY <1>1 DEF Waiting
      <4>3. Cardinality(Live(e, w)') + Waiting(e, w)' + extra[e]
              <= Cardinality(Live(e, w)) + Waiting(e, w) + extra'[e]
        BY <1>1, <4>1, <4>2, LiveFinite, LiveFiniteNext, RowNat
      <4>. QED  BY <2>0, <3>1, <4>3, BudgetAt DEF Within
    <3>. QED  BY <3>2, <3>3 DEF Within
  <2>. QED  BY <2>1, <2>2
<1>6. Looked'
  <2>. SUFFICES ASSUME NEW u \in Task
       PROVE  /\ task'[u].st \in Called =>
                   task'[u].count <= rows'[task'[u].event][task'[u].hook].last + 1
              /\ task'[u].st \in Written =>
                   task'[u].count <= rows'[task'[u].event][task'[u].hook].last
    BY DEF Looked
  <2>0. \A e \in Event, w \in Hook : rows'[e][w].last = rows[e][w].last
    BY <1>4
  <2>1. CASE u # t
    <3>1. task'[u] = task[u]
      BY <1>1, <2>1
    <3>2. CASE task[u].st \in Called \cup Written
      <4>1. task[u].event \in Event /\ task[u].hook \in Hook
        BY <3>2 DEF Sound, Placed, Idle, Called, Written
      <4>. QED  BY <1>0, <2>0, <3>1, <4>1 DEF Looked
    <3>. QED  BY <3>1, <3>2
  <2>2. CASE u = t
    <3>1. /\ rows'[d][v].last = rows[d][v].last /\ rows[d][v].last \in Nat
          /\ task'[t] = Idle \/ (task'[t].event = d /\ task'[t].hook = v)
      BY <1>1, <1>3, <1>4, RowNat
    <3>2. task'[t] = Idle => task'[t].st \notin Called \cup Written
      BY DEF Idle, Called, Written
    <3>3. /\ task'[t].st \in Called =>
              \/ task[t].st \in Called /\ task'[t].count = task[t].count
              \/ task'[t].count = rows[d][v].last + 1
          /\ task'[t].st \in Written =>
               task[t].st \in Written /\ task'[t].count = task[t].count
      BY <1>3, HandlerKeeps
    <3>4. /\ task[t].st \in Called => task[t].count <= rows[d][v].last + 1
          /\ task[t].st \in Written => task[t].count <= rows[d][v].last
      BY <1>0, <1>3 DEF Looked
    <3>5. /\ task'[t].st \in Called => task'[t].count <= rows[d][v].last + 1
          /\ task'[t].st \in Written => task'[t].count <= rows[d][v].last
      BY <3>1, <3>3, <3>4
    <3>. QED  BY <2>2, <3>1, <3>2, <3>5
  <2>. QED  BY <2>1, <2>2
<1>. QED  BY <1>5, <1>6 DEF Bounded

\* An attempt that is recorded either leaves the budget alone, because it was
\* not the last and the job goes on, or takes one from it and ends its job.
LEMMA SavesShape ==
  ASSUME TypeOK, Sound, NEW t \in Task, Saves(t)
  PROVE  /\ task[t].st \in Called \cup Written /\ task[t].st # "saved"
         /\ task[t].count \in Nat /\ extra' = extra
         /\ \/ /\ task[t].st = "acked" /\ Record(task[t].event, task[t].hook, task[t].count, 1)
               /\ task'[t] = [task[t] EXCEPT !.st = "saved"]
            \/ /\ Record(task[t].event, task[t].hook, task[t].count, 0)
               /\ \/ task'[t] = Delayed(task[t]) /\ task[t].count < MaxRetryCount
                  \/ /\ task'[t] = [task[t] EXCEPT !.st = "settle", !.count = 0]
                     /\ task[t].count >= MaxRetryCount
                  \/ task'[t] = Idle
<1>0. task[t] \in Job /\ task \in [Task -> Job] /\ task[t].count \in Nat
  BY DEF TypeOK, Job
<1>1. CASE SaveSucceeded(t)
  <2>1. task' = [task EXCEPT ![t] = [task[t] EXCEPT !.st = "saved"]]
    BY <1>1 DEF SaveSucceeded, AfterAnswer
  <2>2. task'[t] = [task[t] EXCEPT !.st = "saved"]
    BY <1>0, <2>1
  <2>3. /\ Record(task[t].event, task[t].hook, task[t].count, 1)
        /\ task[t].st = "acked" /\ extra' = extra
    BY <1>1 DEF SaveSucceeded
  <2>. QED  BY <1>0, <2>2, <2>3 DEF Called
<1>2. CASE SaveFailed(t)
  <2>1. /\ Record(task[t].event, task[t].hook, task[t].count, 0)
        /\ task[t].st \in {"refused", "again"} /\ extra' = extra
    BY <1>2 DEF SaveFailed
  <2>2. CASE Retries(task[t].count)
    <3>1. task'[t] = Delayed(task[t])
      BY <1>0, <1>2, <2>2 DEF SaveFailed
    <3>. QED  BY <1>0, <2>1, <2>2, <3>1 DEF Retries, Called, Written
  <2>3. CASE ~Retries(task[t].count)
    <3>1. task'[t] = [task[t] EXCEPT !.st = "settle", !.count = 0]
      BY <1>0, <1>2, <2>3 DEF SaveFailed
    <3>2. task[t].count >= MaxRetryCount
      BY <1>0, <2>3, WebhookAssumption DEF Retries
    <3>. QED  BY <1>0, <2>1, <3>1, <3>2 DEF Called, Written
  <2>. QED  BY <2>2, <2>3
<1>3. CASE StoreFails(t) /\ DelayRefused(t)
  <2>1. /\ Record(task[t].event, task[t].hook, task[t].count, 0) /\ task'[t] = Idle
        /\ task[t].st \in {"refused", "again"}
    BY <1>0, <1>3 DEF DelayRefused
  <2>2. extra' = extra
    BY <1>3, StoreShape
  <2>. QED  BY <1>0, <2>1, <2>2 DEF Called, Written
<1>. QED  BY <1>1, <1>2, <1>3 DEF Saves

LEMMA RecordShape ==
  ASSUME TypeOK, NEW e \in Event, NEW w \in Hook, NEW c \in Nat, NEW n \in Nat,
         Record(e, w, c, n)
  PROVE  /\ rows'[e][w] = [last |-> Larger(rows[e][w].last, c),
                           succeeded |-> rows[e][w].succeeded + n,
                           uncounted |-> rows[e][w].uncounted]
         /\ \A d \in Event, v \in Hook : (d # e \/ v # w) => rows'[d][v] = rows[d][v]
<1> DEFINE r == [last |-> Larger(rows[e][w].last, c), succeeded |-> rows[e][w].succeeded + n,
                 uncounted |-> rows[e][w].uncounted]
<1>1. rows' = [rows EXCEPT ![e] = [rows[e] EXCEPT ![w] = r]]
  BY DEF Record
<1> HIDE DEF r
<1>2. /\ rows'[e][w] = r
      /\ \A d \in Event, v \in Hook : (d # e \/ v # w) => rows'[d][v] = rows[d][v]
  BY <1>1 DEF TypeOK
<1>. QED  BY <1>2 DEF r

LEMMA SpentSteps ==
  ASSUME NEW n \in Nat, NEW c \in Nat, c <= n + 1
  PROVE  /\ Spent(Larger(n, c)) <= Spent(n) + 1
         /\ c < MaxRetryCount \/ c <= n => Spent(Larger(n, c)) = Spent(n)
         /\ Larger(n, c) >= n /\ Larger(n, c) >= c /\ Larger(n, c) \in Nat
         /\ Spent(n) >= MaxRetryCount - 1
BY WebhookAssumption DEF Spent, Larger

\* A job that is alive while nothing was begun outside the chain is the only one.
LEMMA OnlyOne ==
  ASSUME TypeOK, Looked, NEW e \in Event, NEW w \in Hook, Budget(e, w), extra[e] = 0,
         NEW t \in Task, Alive(t, e, w), NEW u \in Task, Unheard(u, e, w)
  PROVE  u = t
<1>1. /\ rows[e][w].last \in Nat /\ Cardinality(Live(e, w)) \in Nat /\ IsFiniteSet(Live(e, w))
      /\ Waiting(e, w) \in Nat
  BY RowNat, LiveFinite DEF Waiting
<1>2. Spent(rows[e][w].last) + (Cardinality(Live(e, w)) + Waiting(e, w)) <= MaxRetryCount
  BY WebhookAssumption DEF Budget, Load
<1>3. Spent(rows[e][w].last) \in Nat /\ Spent(rows[e][w].last) >= MaxRetryCount - 1
  BY <1>1, SpentNat, WebhookAssumption DEF Spent
<1>4. Cardinality(Live(e, w)) <= 1
  BY <1>1, <1>2, <1>3, WebhookAssumption
<1>5. t \in Live(e, w)
  BY DEF Live
<1>6. u \in Live(e, w)
  <2>. SUFFICES ASSUME Over(task[u]) PROVE FALSE
    BY DEF Live, Alive, Unheard
  <2>1. task[u].st = "again" /\ task[u].count >= MaxRetryCount /\ task[u].count \in Nat
    BY DEF Over, Unheard, TypeOK, Job
  <2>2. task[u].count <= rows[e][w].last
    BY <2>1 DEF Looked, Written, Unheard
  <2>3. Spent(rows[e][w].last) >= MaxRetryCount
    BY <1>1, <2>1, <2>2, WebhookAssumption DEF Spent
  <2>4. Cardinality(Live(e, w)) = 0
    <3>1. MaxRetryCount \in Nat
      BY WebhookAssumption
    <3>2. \A m, a, n, b \in Nat : m >= a /\ m + (n + b) <= a => n = 0
      OBVIOUS
    <3>. QED  BY <1>1, <1>2, <1>3, <2>3, <3>1, <3>2
  <2>. QED  BY <1>1, <1>5, <2>4, FS_EmptySet
<1>7. CASE u # t
  <2>1. Cardinality({t, u}) = 2
    <3>1. IsFiniteSet({t}) /\ Cardinality({t}) = 1 /\ u \notin {t}
      BY <1>7, FS_Singleton
    <3>2. Cardinality({t} \cup {u}) = 2
      <4>1. Cardinality({t} \cup {u}) = Cardinality({t}) + 1
        BY <3>1, FS_AddElement
      <4>. QED  BY <3>1, <4>1
    <3>3. {t} \cup {u} = {t, u}
      OBVIOUS
    <3>. QED  BY <3>2, <3>3
  <2>2. {t, u} \subseteq Live(e, w)
    BY <1>5, <1>6
  <2>3. Cardinality({t, u}) <= Cardinality(Live(e, w))
    BY <1>1, <2>2, FS_Subset
  <2>. QED  BY <1>1, <1>4, <2>1, <2>3
<1>. QED  BY <1>7

LEMMA SavesBounded ==
  ASSUME TypeOK, TypeOK', Sound, Sound', Bounded, NEW t \in Task, Saves(t)
  PROVE  Bounded'
<1>0. (\A e \in Event, w \in Hook : Within(e, w)) /\ Looked /\ extra' = extra
  BY SavesShape DEF Bounded
<1>. HandlerStep(t) \/ ApplyUpdate(t) \/ StoreFails(t)
  BY DEF Saves, HandlerStep
<1>1. PICK e \in Event, w \in Hook : e = task[t].event /\ w = task[t].hook
  BY HandlerShape
<1>. DEFINE c == task[t].count
            last == rows[e][w].last
<1>2. /\ c \in Nat /\ last \in Nat /\ c <= last + 1 /\ extra[e] \in Nat
      /\ rows[e][w].succeeded \in Nat /\ rows[e][w].uncounted \in Nat
      /\ task[t].st = "again" => c <= last
  <2>1. c \in Nat /\ last \in Nat /\ task[t].st \in Called \cup Written
    BY SavesShape, RowNat
  <2>2. /\ task[t].st \in Called => c <= last + 1
        /\ task[t].st \in Written => c <= last
    BY <1>0, <1>1 DEF Looked
  <2>. QED  BY <2>1, <2>2, RowNat DEF Written
<1>3. /\ \A u \in Task \ {t} : task'[u] = task[u]
      /\ \A d \in Event : event'[d].plan = event[d].plan
      /\ task'[t] = Idle \/ (task'[t].event = e /\ task'[t].hook = w)
  BY <1>1, HandlerShape
<1>4. \A d \in Event, v \in Hook : (d # e \/ v # w) =>
        Live(d, v)' \subseteq Live(d, v) /\ Callers(d, v)' \subseteq Callers(d, v)
  BY <1>1, <1>3, IdleOutside DEF Live, Alive, Callers, Unheard
<1>5. task[t] \in Job /\ task[t].st # "saved" /\ task[t].st # "settle"
  BY SavesShape DEF Called, Written, TypeOK
<1>6. PICK n \in {0, 1} :
        /\ Record(e, w, c, n)
        /\ \/ n = 1 /\ task[t].st = "acked" /\ task'[t] = [task[t] EXCEPT !.st = "saved"]
           \/ /\ n = 0
              /\ \/ task'[t] = Delayed(task[t]) /\ c < MaxRetryCount
                 \/ /\ task'[t] = [task[t] EXCEPT !.st = "settle", !.count = 0]
                    /\ c >= MaxRetryCount
                 \/ task'[t] = Idle
  BY <1>1, SavesShape
<1>7. /\ rows'[e][w].last = Larger(last, c)
      /\ rows'[e][w].succeeded = rows[e][w].succeeded + n
      /\ rows'[e][w].uncounted = rows[e][w].uncounted
      /\ \A d \in Event, v \in Hook : (d # e \/ v # w) => rows'[d][v] = rows[d][v]
  <2>1. c \in Nat /\ n \in Nat /\ Record(e, w, c, n)
    BY <1>2, <1>6
  <2>2. /\ rows'[e][w] = [last |-> Larger(last, c), succeeded |-> rows[e][w].succeeded + n,
                          uncounted |-> rows[e][w].uncounted]
        /\ \A d \in Event, v \in Hook : (d # e \/ v # w) => rows'[d][v] = rows[d][v]
    <3>. HIDE DEF c
    <3>. QED  BY <2>1, RecordShape
  <2>. QED  BY <2>2
<1>8. /\ task'[t].st = "later" \/ task'[t] = Idle
           \/ (task'[t].st = "saved" /\ task'[t].count = c) \/ task'[t].st = "settle"
      /\ task'[t].st = "later" => c < MaxRetryCount
      /\ task'[t].st = "settle" => c >= MaxRetryCount
  <2>1. CASE task'[t] = Delayed(task[t]) /\ c < MaxRetryCount
    <3>1. task'[t].st = "later"
      BY <2>1 DEF Delayed, Idle
    <3>. QED  BY <2>1, <3>1
  <2>2. CASE task'[t] = [task[t] EXCEPT !.st = "settle", !.count = 0] /\ c >= MaxRetryCount
    <3>1. task'[t].st = "settle"
      BY <1>5, <2>2 DEF Job
    <3>. QED  BY <2>2, <3>1
  <2>3. CASE task'[t] = [task[t] EXCEPT !.st = "saved"]
    BY <1>5, <2>3 DEF Job
  <2>4. CASE task'[t] = Idle
    BY <2>4, IdleOutside
  <2>. QED  BY <1>6, <2>1, <2>2, <2>3, <2>4
<1>9. Live(e, w)' \subseteq Live(e, w)
  <2>1. Alive(t, e, w)' => Alive(t, e, w)
    <3>1. CASE task'[t].st = "later"
      BY <1>1, <1>2, <1>5, <1>8, <3>1, WebhookAssumption DEF Alive, Over
    <3>2. CASE task'[t].st = "saved" /\ task'[t].count = c
      BY <1>1, <1>5, <3>2 DEF Alive, Over
    <3>3. CASE task'[t].st = "settle"
      BY <3>3 DEF Alive, Over
    <3>4. CASE task'[t] = Idle
      BY <3>4, IdleOutside DEF Alive
    <3>. QED  BY <1>8, <3>1, <3>2, <3>3, <3>4
  <2>. QED  BY <1>3, <2>1 DEF Live, Alive
<1>10. Budget(e, w)'
  <2>1. /\ Cardinality(Live(e, w)) \in Nat /\ Cardinality(Live(e, w)') \in Nat
        /\ Waiting(e, w)' = Waiting(e, w) /\ Waiting(e, w) \in Nat
        /\ Spent(last) \in Nat /\ Spent(Larger(last, c)) \in Nat
        /\ Cardinality(Live(e, w)') <= Cardinality(Live(e, w))
    BY <1>2, <1>3, <1>9, SpentNat, SpentSteps, LiveFinite, LiveFiniteNext, FS_Subset DEF Waiting
  <2>2. Spent(last) + (Cardinality(Live(e, w)) + Waiting(e, w)) <= MaxRetryCount + extra[e]
    BY <1>0 DEF Within, Budget, Load
  <2>3. Spent(Larger(last, c)) + Cardinality(Live(e, w)') <= Spent(last) + Cardinality(Live(e, w))
    <3>1. CASE c < MaxRetryCount \/ c <= last
      <4>1. Spent(Larger(last, c)) = Spent(last)
        BY <1>2, <3>1, SpentSteps
      <4>. QED  BY <2>1, <4>1
    <3>2. CASE ~(c < MaxRetryCount \/ c <= last)
      <4>1. t \in Live(e, w)
        BY <1>1, <1>2, <1>5, <3>2 DEF Live, Alive, Over
      <4>2. t \notin Live(e, w)'
        <5>1. CASE task'[t] = Idle
          BY <5>1, IdleOutside DEF Live, Alive
        <5>2. CASE task'[t].st = "settle"
          BY <5>2 DEF Live, Alive, Over
        <5>3. CASE task'[t].st = "saved" /\ task'[t].count = c
          BY <1>2, <3>2, <5>3, WebhookAssumption DEF Live, Alive, Over
        <5>. QED  BY <1>8, <3>2, <5>1, <5>2, <5>3
      <4>3. Live(e, w)' \subseteq Live(e, w) \ {t} /\ IsFiniteSet(Live(e, w))
        BY <1>9, <4>2, LiveFinite
      <4>4. /\ Cardinality(Live(e, w) \ {t}) = Cardinality(Live(e, w)) - 1
            /\ IsFiniteSet(Live(e, w) \ {t})
        BY <4>1, <4>3, FS_RemoveElement
      <4>5. Cardinality(Live(e, w)') <= Cardinality(Live(e, w)) - 1
        <5>1. Cardinality(Live(e, w)') <= Cardinality(Live(e, w) \ {t})
          BY <4>3, <4>4, FS_Subset
        <5>. QED  BY <4>4, <5>1
      <4>6. Spent(Larger(last, c)) <= Spent(last) + 1
        BY <1>2, SpentSteps
      <4>. HIDE DEF last, c
      <4>. QED  BY <2>1, <4>5, <4>6
    <3>. QED  BY <3>1, <3>2
  <2>4. Spent(rows'[e][w].last) + (Cardinality(Live(e, w)') + Waiting(e, w)')
          <= MaxRetryCount + extra'[e]
    <3>. HIDE DEF last, c
    <3>. QED  BY <1>0, <1>2, <1>7, <2>1, <2>2, <2>3, WebhookAssumption
  <2>. QED  BY <2>4 DEF Budget, Load, Spent
<1>11. Silenced(e, w)'
  <2>. SUFFICES ASSUME extra[e] = 0
       PROVE  /\ rows'[e][w].succeeded <= rows'[e][w].uncounted + 1
              /\ rows'[e][w].succeeded > rows'[e][w].uncounted => Callers(e, w)' = {}
    BY <1>0 DEF Silenced
  <2>1. t \in Callers(e, w)
    BY <1>1, <1>5 DEF Callers, Unheard
  <2>2. rows[e][w].succeeded <= rows[e][w].uncounted
    <3>1. ~(rows[e][w].succeeded > rows[e][w].uncounted)
      BY <1>0, <2>1 DEF Within, Silenced
    <3>. QED  BY <1>2, <3>1
  <2>3. CASE n = 0
    BY <1>2, <1>7, <2>2, <2>3
  <2>4. CASE n = 1
    <3>1. task[t].st = "acked" /\ task'[t].st = "saved"
      BY <1>5, <1>6, <2>4 DEF Job
    <3>2. Alive(t, e, w)
      BY <1>1, <3>1 DEF Alive, Over
    <3>3. \A u \in Task : Unheard(u, e, w) => u = t
      BY <1>0, <3>2, OnlyOne DEF Within
    <3>4. Callers(e, w)' = {}
      BY <1>3, <3>1, <3>3 DEF Callers, Unheard
    <3>. QED  BY <1>2, <1>7, <2>2, <2>4, <3>4
  <2>. QED  BY <1>6, <2>3, <2>4
<1>12. \A d \in Event, v \in Hook : Within(d, v)'
  <2>1. ASSUME NEW d \in Event, NEW v \in Hook, d # e \/ v # w
        PROVE  Within(d, v)'
    <3>1. /\ rows'[d][v] = rows[d][v] /\ extra[d] <= extra'[d]
          /\ Live(d, v)' \subseteq Live(d, v) /\ Callers(d, v)' \subseteq Callers(d, v)
          /\ (v \in event'[d].plan => v \in event[d].plan)
      BY <1>0, <1>3, <1>4, <1>7, <2>1, RowNat
    <3>. QED  BY <1>0, <3>1, ShrinkAt
  <2>2. Within(e, w)'
    BY <1>10, <1>11 DEF Within
  <2>. QED  BY <2>1, <2>2
<1>13. Looked'
  <2>1. ASSUME NEW d \in Event, NEW v \in Hook PROVE rows'[d][v].last >= rows[d][v].last
    <3>1. CASE d = e /\ v = w
      <4>1. Larger(last, c) >= last
        BY <1>2, SpentSteps
      <4>. QED  BY <1>7, <3>1, <4>1
    <3>2. CASE d # e \/ v # w
      <4>1. rows[d][v].last \in Nat
        BY RowNat
      <4>. QED  BY <1>7, <3>2, <4>1
    <3>. QED  BY <3>1, <3>2
  <2>. SUFFICES ASSUME NEW u \in Task
       PROVE  /\ task'[u].st \in Called =>
                   task'[u].count <= rows'[task'[u].event][task'[u].hook].last + 1
              /\ task'[u].st \in Written =>
                   task'[u].count <= rows'[task'[u].event][task'[u].hook].last
    BY DEF Looked
  <2>2. CASE u = t
    <3>1. CASE task'[t].st = "saved" /\ task'[t].count = c
      <4>1. task'[t].event = e /\ task'[t].hook = w
        BY <1>3, <3>1, IdleOutside
      <4>2. c <= Larger(last, c)
        BY <1>2, SpentSteps
      <4>. QED  BY <1>7, <2>2, <3>1, <4>1, <4>2 DEF Called
    <3>2. CASE task'[t].st \in {"later", "settle"} \/ task'[t] = Idle
      BY <2>2, <3>2, IdleOutside DEF Called, Written
    <3>. QED  BY <1>8, <3>1, <3>2
  <2>3. CASE u # t /\ task[u].st \in Called \cup Written
    <3>1. task'[u] = task[u] /\ task[u].count \in Nat
      BY <1>3, <2>3 DEF TypeOK, Job
    <3>2. PICK d \in Event, v \in Hook : d = task[u].event /\ v = task[u].hook
      BY <2>3 DEF Sound, Placed, Idle, Called, Written
    <3>3. /\ task[u].st \in Called => task[u].count <= rows[d][v].last + 1
          /\ task[u].st \in Written => task[u].count <= rows[d][v].last
      BY <1>0, <3>2 DEF Looked
    <3>4. rows'[d][v].last >= rows[d][v].last /\ rows'[d][v].last \in Nat /\ rows[d][v].last \in Nat
      BY <2>1, RowNat, RowNatNext
    <3>5. /\ task[u].st \in Called => task[u].count <= rows'[d][v].last + 1
          /\ task[u].st \in Written => task[u].count <= rows'[d][v].last
      BY <3>1, <3>3, <3>4
    <3>. QED  BY <3>1, <3>2, <3>5
  <2>4. CASE u # t /\ task[u].st \notin Called \cup Written
    BY <1>3, <2>4
  <2>. QED  BY <2>2, <2>3, <2>4
<1>. QED  BY <1>12, <1>13 DEF Bounded

-----------------------------------------------------------------------------
(* The other steps: new jobs are paid for by the turn of the forEach or by   *)
(* extra, and what users and crashes do adds none that is not.               *)

LEMMA SameJobs ==
  ASSUME TypeOK, TypeOK', Sound, Bounded, rows' = rows,
         \A e \in Event : extra[e] <= extra'[e],
         \A t \in Task :
           task'[t] = Idle \/ /\ task'[t].event = task[t].event /\ task'[t].hook = task[t].hook
                              /\ task[t].st \in Running => task'[t] = task[t],
         \A t \in Task : task'[t].st \in Called \cup Written => task'[t] = task[t],
         \A e \in Event : event'[e].plan \subseteq event[e].plan
  PROVE  Bounded'
<1>1. (\A e \in Event, w \in Hook : Within(e, w)) /\ Looked
  BY DEF Bounded
<1>2. ASSUME NEW e \in Event, NEW w \in Hook
      PROVE  Live(e, w)' \subseteq Live(e, w) /\ Callers(e, w)' \subseteq Callers(e, w)
  <2>1. ASSUME NEW t \in Task, task'[t] # Idle
        PROVE  /\ task'[t].event = task[t].event /\ task'[t].hook = task[t].hook
               /\ Over(task[t]) => task'[t] = task[t]
               /\ task[t].st \in {"saved", "settle"} => task'[t] = task[t]
    BY <2>1 DEF Over, Running
  <2>. QED  BY <2>1, IdleOutside DEF Live, Alive, Callers, Unheard
<1>3. \A e \in Event, w \in Hook : Within(e, w)'
  BY <1>1, <1>2, Shrink
<1>4. Looked'
  <2>1. \A e \in Event, w \in Hook : rows'[e][w].last >= rows[e][w].last
    BY RowNat
  <2>. QED  BY <1>1, <2>1, LookedStays
<1>. QED  BY <1>3, <1>4 DEF Bounded

\* One more job for an endpoint of an event.
LEMMA OneMoreJob ==
  ASSUME TypeOK, TypeOK', Sound, Bounded, NEW t \in Task, NEW e \in Event, NEW w \in Hook,
         NEW q \in Queue, NEW b \in BOOLEAN, Free(t),
         task' = [task EXCEPT ![t] = NewJob(e, w, q, b)], rows' = rows,
         \A d \in Event \ {e} : extra'[d] = extra[d],
         \A d \in Event, v \in Hook : (d # e \/ v # w) =>
           (v \in event'[d].plan <=> v \in event[d].plan),
         \/ /\ extra'[e] = extra[e] + 1 /\ event' = event
         \/ /\ extra'[e] = extra[e] /\ w \in event[e].plan /\ w \notin event'[e].plan
            /\ rows[e][w].succeeded = 0
  PROVE  Bounded'
<1>1. (\A d \in Event, v \in Hook : Within(d, v)) /\ Looked
  BY DEF Bounded
<1>2. /\ Cardinality(Live(e, w)') = Cardinality(Live(e, w)) + 1
      /\ \A d \in Event, v \in Hook : (d # e \/ v # w) =>
           Live(d, v)' = Live(d, v) /\ Callers(d, v)' = Callers(d, v)
  BY Grow
<1>3. /\ extra[e] \in Nat /\ extra'[e] \in Nat /\ Cardinality(Live(e, w)) \in Nat
      /\ \A d \in Event : extra[d] <= extra'[d]
  <2>1. \A d \in Event : extra[d] \in Nat
    BY DEF TypeOK
  <2>2. extra'[e] \in Nat
    BY DEF TypeOK
  <2>3. extra'[e] >= extra[e]
    BY <2>1
  <2>4. \A d \in Event : extra[d] <= extra'[d]
    BY <2>1, <2>3
  <2>. QED  BY <2>1, <2>2, <2>4, LiveFinite
<1>4. Within(e, w)'
  <2>1. Cardinality(Live(e, w)') + Waiting(e, w)' + extra[e]
          <= Cardinality(Live(e, w)) + Waiting(e, w) + extra'[e]
    <3>1. CASE extra'[e] = extra[e] + 1 /\ event' = event
      <4>1. Waiting(e, w)' = Waiting(e, w) /\ Waiting(e, w) \in Nat
        BY <3>1 DEF Waiting
      <4>. QED  BY <1>2, <1>3, <3>1, <4>1
    <3>2. CASE extra'[e] = extra[e] /\ w \in event[e].plan /\ w \notin event'[e].plan
      <4>1. Waiting(e, w)' = 0 /\ Waiting(e, w) = 1
        BY <3>2 DEF Waiting
      <4>. QED  BY <1>2, <1>3, <3>2, <4>1
    <3>. QED  BY <3>1, <3>2
  <2>2. Budget(e, w)'
    BY <1>1, <2>1, BudgetAt DEF Within
  <2>3. Silenced(e, w)'
    <3>1. extra'[e] = 0 => rows[e][w].succeeded = 0
      BY <1>3
    <3>2. rows[e][w].uncounted \in Nat
      BY RowNat
    <3>. QED  BY <3>1, <3>2 DEF Silenced
  <2>. QED  BY <2>2, <2>3 DEF Within
<1>5. \A d \in Event, v \in Hook : Within(d, v)'
  <2>1. ASSUME NEW d \in Event, NEW v \in Hook, d # e \/ v # w
        PROVE  Within(d, v)'
    <3>1. /\ rows'[d][v] = rows[d][v] /\ extra[d] <= extra'[d]
          /\ Live(d, v)' \subseteq Live(d, v) /\ Callers(d, v)' \subseteq Callers(d, v)
          /\ (v \in event'[d].plan => v \in event[d].plan)
      BY <1>2, <1>3, <2>1
    <3>. QED  BY <1>1, <3>1, ShrinkAt
  <2>. QED  BY <1>4, <2>1
<1>6. Looked'
  <2>1. \A d \in Event, v \in Hook : rows'[d][v].last >= rows[d][v].last
    BY RowNat
  <2>2. NewJob(e, w, q, b).st = "queued"
    BY DEF NewJob, Idle
  <2>3. \A u \in Task : task'[u].st \in Called \cup Written => task'[u] = task[u]
    BY <2>2 DEF TypeOK, Called, Written
  <2>. QED  BY <1>1, <2>1, <2>3, LookedStays
<1>. QED  BY <1>5, <1>6 DEF Bounded

LEMMA HandleEventBounded ==
  ASSUME TypeOK, TypeOK', Sound, Bounded, NEW e \in Event, HandleEvent(e)
  PROVE  Bounded'
<1>0. (\A d \in Event, w \in Hook : Within(d, w)) /\ Looked
  BY DEF Bounded
<1>1. /\ task' = task /\ rows' = rows /\ extra' = extra /\ event[e].st = "queued"
      /\ \A d \in Event \ {e} : event'[d] = event[d]
  BY DEF HandleEvent, TypeOK
<1>2. \A d \in Event, w \in Hook : Live(d, w)' = Live(d, w) /\ Callers(d, w)' = Callers(d, w)
  BY <1>1 DEF Live, Alive, Callers, Unheard
<1>3. ASSUME NEW w \in Hook
      PROVE  Within(e, w)'
  <2>1. rows[e][w].last = 0 /\ Live(e, w) = {}
    BY <1>1, IdleOutside DEF Sound, Placed, Live, Alive
  <2>2. Cardinality(Live(e, w)') = 0
    BY <1>2, <2>1, FS_EmptySet
  <2>3. Waiting(e, w)' <= 1 /\ Waiting(e, w)' \in Nat /\ extra'[e] \in Nat
    BY RowNatNext DEF Waiting
  <2>4. Spent(rows'[e][w].last) = MaxRetryCount - 1
    BY <1>1, <2>1, WebhookAssumption DEF Spent
  <2>5. Spent(rows'[e][w].last) + (Cardinality(Live(e, w)') + Waiting(e, w)')
          <= MaxRetryCount + extra'[e]
    BY <2>2, <2>3, <2>4, WebhookAssumption
  <2>6. Silenced(e, w)'
    BY <1>0, <1>1, <1>2 DEF Within, Silenced
  <2>. QED  BY <2>5, <2>6 DEF Within, Budget, Load, Spent
<1>4. ASSUME NEW d \in Event, NEW w \in Hook, d # e
      PROVE  Within(d, w)'
  <2>1. /\ rows'[d][w] = rows[d][w] /\ extra[d] <= extra'[d]
        /\ Live(d, w)' \subseteq Live(d, w) /\ Callers(d, w)' \subseteq Callers(d, w)
        /\ (w \in event'[d].plan => w \in event[d].plan)
    BY <1>1, <1>2, <1>4, RowNat
  <2>. QED  BY <1>0, <2>1, ShrinkAt
<1>6. Looked'
  <2>1. \A d \in Event, w \in Hook : rows'[d][w].last >= rows[d][w].last
    BY <1>1, RowNat
  <2>. QED  BY <1>0, <1>1, <2>1, LookedStays
<1>. QED  BY <1>3, <1>4, <1>6 DEF Bounded

\* A user's retry records a first attempt, which is not more than there is.
LEMMA RetryRows ==
  ASSUME TypeOK, NEW e \in Event, NEW w \in Hook, NEW t \in Task, Retry(e, w, t)
  PROVE  rows' = rows
<1>1. rows[e][w] \in Attempts /\ rows[e][w].last > 0
  BY DEF TypeOK, Retry
<1>2. /\ Larger(rows[e][w].last, 1) = rows[e][w].last
      /\ rows[e][w].succeeded + 0 = rows[e][w].succeeded
  BY <1>1 DEF Larger, Attempts
<1>3. [last |-> Larger(rows[e][w].last, 1), succeeded |-> rows[e][w].succeeded + 0,
       uncounted |-> rows[e][w].uncounted] = rows[e][w]
  BY <1>1, <1>2 DEF Attempts
<1>4. rows' = [rows EXCEPT ![e] = [rows[e] EXCEPT ![w] = rows[e][w]]]
  BY <1>3 DEF Retry, Record
<1>. QED  BY <1>4 DEF TypeOK

LEMMA ScheduleBounded ==
  ASSUME TypeOK, TypeOK', Sound, Bounded, NEW e \in Event, NEW w \in Hook, NEW t \in Task,
         Schedule(e, w, t)
  PROVE  Bounded'
<1>0. event \in [Event -> EventRow] /\ extra \in [Event -> Nat]
  BY DEF TypeOK
<1>1. /\ rows' = rows /\ extra' = extra /\ w \in event[e].plan
      /\ event'[e].plan = event[e].plan \ {w}
      /\ \A d \in Event \ {e} : event'[d] = event[d]
  BY <1>0 DEF Schedule, EventRow
<1>2. CASE rows[e][w].succeeded > 0
  <2>1. task' = task
    BY <1>2 DEF Schedule
  <2>2. \A d \in Event : event'[d].plan \subseteq event[d].plan
    BY <1>1
  <2>. QED  BY <1>0, <1>1, <2>1, <2>2, SameJobs
<1>3. CASE ~(rows[e][w].succeeded > 0)
  <2>1. rows[e][w].succeeded = 0
    BY <1>3, RowNat
  <2>2. Free(t) /\ task' = [task EXCEPT ![t] = NewJob(e, w, "bus", FALSE)]
    BY <1>3 DEF Schedule, IsPlace
  <2>3. \A d \in Event, v \in Hook : (d # e \/ v # w) =>
          (v \in event'[d].plan <=> v \in event[d].plan)
    BY <1>1
  <2>4. "bus" \in Queue /\ FALSE \in BOOLEAN
    BY DEF Queue
  <2>5. \A d \in Event \ {e} : extra'[d] = extra[d]
    BY <1>1
  <2>6. /\ extra'[e] = extra[e] /\ w \in event[e].plan /\ w \notin event'[e].plan
        /\ rows[e][w].succeeded = 0 /\ rows' = rows
    BY <1>1, <2>1
  <2>. QED  BY <2>2, <2>3, <2>4, <2>5, <2>6, OneMoreJob, ZenonT(60)
<1>. QED  BY <1>2, <1>3

LEMMA EventBounded ==
  ASSUME TypeOK, TypeOK', Sound, Bounded, NEW e \in Event,
         \/ Accept(e) \/ HandleEvent(e) \/ EventDropped(e)
         \/ \E w \in Hook : TurnDropped(e, w)
         \/ \E w \in Hook, t \in Task : Schedule(e, w, t) \/ Retry(e, w, t)
  PROVE  Bounded'
<1>0. event \in [Event -> EventRow] /\ extra \in [Event -> Nat]
  BY DEF TypeOK
<1>1. CASE Accept(e)
  <2>1. /\ task' = task /\ rows' = rows /\ extra' = extra
        /\ \A d \in Event : event'[d].plan = event[d].plan
    BY <1>0, <1>1 DEF Accept, EventRow
  <2>. QED  BY <1>0, <2>1, SameJobs
<1>2. CASE HandleEvent(e)
  BY <1>2, HandleEventBounded
<1>3. ASSUME NEW w \in Hook, NEW t \in Task, Schedule(e, w, t)  PROVE Bounded'
  BY <1>3, ScheduleBounded
<1>4. ASSUME NEW w \in Hook, NEW t \in Task, Retry(e, w, t)  PROVE Bounded'
  <2>1. /\ event' = event /\ extra' = [extra EXCEPT ![e] = extra[e] + 1] /\ Free(t)
        /\ task' = [task EXCEPT ![t] = NewJob(e, w, "api", TRUE)]
    BY <1>4 DEF Retry, IsPlace
  <2>2. extra'[e] = extra[e] + 1 /\ \A d \in Event \ {e} : extra'[d] = extra[d]
    BY <1>0, <2>1
  <2>3. "api" \in Queue /\ TRUE \in BOOLEAN /\ rows' = rows
    BY <1>4, RetryRows DEF Queue
  <2>. QED  BY <2>1, <2>2, <2>3, OneMoreJob
<1>5. ASSUME EventDropped(e) \/ \E w \in Hook : TurnDropped(e, w)  PROVE Bounded'
  <2>1. task' = task /\ rows' = rows /\ extra' = extra
    BY <1>5, Zenon DEF EventDropped, TurnDropped
  <2>2. \A d \in Event : event'[d].plan \subseteq event[d].plan
    <3>1. CASE EventDropped(e)
      BY <1>0, <3>1 DEF EventDropped, EventRow
    <3>2. CASE \E w \in Hook : TurnDropped(e, w)
      BY <1>0, <3>2 DEF TurnDropped, EventRow
    <3>. QED  BY <1>5, <3>1, <3>2
  <2>. QED  BY <1>0, <2>1, <2>2, SameJobs
<1>. QED  BY <1>1, <1>2, <1>3, <1>4, <1>5

LEMMA LoopBounded ==
  ASSUME TypeOK, TypeOK', Sound, Bounded, NEW q \in Queue,
         Fetch(q) \/ \E f \in todo[q], t \in Task : PushDue(q, f, t)
  PROVE  Bounded'
<1>0. task \in [Task -> Job] /\ extra \in [Event -> Nat]
  BY DEF TypeOK
<1>1. CASE Fetch(q)
  <2>1. PICK due \in SUBSET {t \in Task : task[t].st = "later"} :
          task' = [t \in Task |-> IF t \in due THEN [task[t] EXCEPT !.st = "marked"]
                                  ELSE task[t]]
    BY <1>1 DEF Fetch
  <2>2. event' = event /\ extra' = extra /\ rows' = rows
    BY <1>1 DEF Fetch
  <2>3. ASSUME NEW t \in Task
        PROVE  /\ task'[t].event = task[t].event /\ task'[t].hook = task[t].hook
               /\ task[t].st \in Running => task'[t] = task[t]
               /\ task'[t].st \in Called \cup Written => task'[t] = task[t]
    <3>1. CASE t \in due
      <4>1. task'[t] = [task[t] EXCEPT !.st = "marked"] /\ task[t].st = "later"
        BY <2>1, <3>1
      <4>2. /\ task'[t].st = "marked" /\ task'[t].event = task[t].event
            /\ task'[t].hook = task[t].hook
        BY <1>0, <4>1 DEF Job
      <4>. QED  BY <4>1, <4>2 DEF Called, Written, Running
    <3>2. CASE t \notin due
      BY <2>1, <3>2
    <3>. QED  BY <3>1, <3>2
  <2>. QED  BY <1>0, <2>2, <2>3, SameJobs
<1>2. ASSUME NEW f \in todo[q], NEW t \in Task, PushDue(q, f, t)  PROVE Bounded'
  <2>1. /\ f.task \in Task /\ f.event \in Event /\ f.hook \in Hook
        /\ event' = event /\ rows' = rows
    BY <1>2 DEF PushDue, TypeOK, Fetched
  <2>2. CASE task[f.task].st = "marked"
    <3>1. /\ task' = [task EXCEPT ![f.task] = [task[f.task] EXCEPT !.st = "queued", !.queue = q]]
          /\ extra' = extra
      BY <1>0, <1>2, <2>1, <2>2 DEF PushDue
    <3>2. /\ task'[f.task].st = "queued" /\ task'[f.task].event = task[f.task].event
          /\ task'[f.task].hook = task[f.task].hook
          /\ \A u \in Task \ {f.task} : task'[u] = task[u]
      BY <1>0, <2>1, <3>1 DEF Job
    <3>3. \A u \in Task :
            /\ task'[u].event = task[u].event /\ task'[u].hook = task[u].hook
            /\ task[u].st \in Running => task'[u] = task[u]
            /\ task'[u].st \in Called \cup Written => task'[u] = task[u]
      BY <2>2, <3>2 DEF Called, Written, Running
    <3>. QED  BY <1>0, <2>1, <3>1, <3>3, SameJobs
  <2>3. CASE task[f.task].st # "marked"
    <3>1. PICK e \in Event, w \in Hook : e = f.event /\ w = f.hook
      BY <2>1
    <3>2. /\ task' = [task EXCEPT ![t] = NewJob(e, w, q, FALSE)] /\ Free(t)
          /\ extra' = [extra EXCEPT ![e] = extra[e] + 1]
      BY <1>2, <2>3, <3>1 DEF PushDue, IsPlace
    <3>3. extra'[e] = extra[e] + 1 /\ \A d \in Event \ {e} : extra'[d] = extra[d]
      BY <1>0, <3>2
    <3>. QED  BY <2>1, <3>2, <3>3, OneMoreJob
  <2>. QED  BY <2>2, <2>3
<1>. QED  BY <1>1, <1>2

\* A restart brings back only jobs that were alive, and those that a user had
\* asked for and that a handler had begun: they are counted in extra.
LEMMA RestartBounded ==
  ASSUME TypeOK, TypeOK', Sound, Bounded, Restart
  PROVE  Bounded'
<1>0. (\A e \in Event, w \in Hook : Within(e, w)) /\ Looked /\ rows' = rows
  BY DEF Bounded, Restart
<1>1. ASSUME NEW e \in Event
      PROVE  /\ IsFiniteSet(Rerun(e)) /\ Cardinality(Rerun(e)) \in Nat
             /\ extra'[e] = extra[e] + Cardinality(Rerun(e))
             /\ event'[e].plan \subseteq event[e].plan
  <2>1. Rerun(e) \subseteq Task
    BY DEF Rerun, Tokens
  <2>2. extra'[e] = extra[e] + Cardinality(Rerun(e))
    BY DEF Restart
  <2>3. event'[e].plan \subseteq event[e].plan
    <3>1. event'[e].plan = {} \/ event'[e].plan = event[e].plan
      <4>1. event \in [Event -> EventRow]
        BY DEF TypeOK
      <4>. QED  BY <4>1 DEF Restart, EventRow
    <3>. QED  BY <3>1
  <2>. QED  BY <2>1, <2>2, <2>3, WebhookAssumption, FS_Subset, FS_CardinalityType
<1>2. ASSUME NEW e \in Event, NEW w \in Hook
      PROVE  /\ Live(e, w)' \subseteq Live(e, w) \cup Rerun(e)
             /\ Callers(e, w)' \subseteq Callers(e, w) \cup Rerun(e)
  <2>1. ASSUME NEW t \in Task, task'[t] # Idle, task'[t].event = e, task'[t].hook = w
        PROVE  /\ task[t].event = e /\ task[t].hook = w
               /\ Over(task[t]) \/ task[t].st \in {"saved", "settle"} => t \in Rerun(e)
    <3>1. task[t].event = e /\ task[t].hook = w
      BY <2>1, RestartShape
    <3>2. CASE Over(task[t]) \/ task[t].st \in {"saved", "settle"}
      <4>1. task'[t] = Restarted(task[t])
        BY DEF Restart
      <4>2. task[t].st \in {"saved", "again", "settle"}
        BY <3>2 DEF Over
      <4>3. task[t].asked
        BY <2>1, <4>1, <4>2 DEF Restarted
      <4>. QED  BY <3>1, <4>2, <4>3 DEF Rerun, Tokens, Running
    <3>. QED  BY <3>1, <3>2
  <2>. QED  BY <2>1, IdleOutside DEF Live, Alive, Callers, Unheard
<1>3. ASSUME NEW e \in Event, NEW w \in Hook
      PROVE  Within(e, w)'
  <2>. DEFINE L == Live(e, w)
              R == Rerun(e)
  <2>1. /\ IsFiniteSet(L) /\ IsFiniteSet(R) /\ Cardinality(L) \in Nat /\ Cardinality(R) \in Nat
        /\ Cardinality(L') \in Nat /\ extra[e] \in Nat /\ extra'[e] = extra[e] + Cardinality(R)
    BY <1>1, LiveFinite, LiveFiniteNext, RowNat
  <2>2. Cardinality(L') <= Cardinality(L) + Cardinality(R)
    <3>1. L' \subseteq L \cup R
      BY <1>2
    <3>. HIDE DEF L, R
    <3>2. /\ IsFiniteSet(L \cup R)
          /\ Cardinality(L \cup R) = Cardinality(L) + Cardinality(R) - Cardinality(L \cap R)
      BY <2>1, FS_Union
    <3>3. Cardinality(L \cap R) \in Nat
      <4>1. L \cap R \subseteq L
        OBVIOUS
      <4>. QED  BY <2>1, <4>1, FS_Subset, FS_CardinalityType
    <3>4. Cardinality(L') <= Cardinality(L \cup R)
      BY <3>1, <3>2, FS_Subset
    <3>. QED  BY <2>1, <3>2, <3>3, <3>4
  <2>3. Waiting(e, w)' <= Waiting(e, w) /\ Waiting(e, w) \in Nat /\ Waiting(e, w)' \in Nat
    BY <1>1 DEF Waiting
  <2>4. Cardinality(L') + Waiting(e, w)' + extra[e]
          <= Cardinality(L) + Waiting(e, w) + extra'[e]
    <3>. HIDE DEF L, R
    <3>. QED  BY <2>1, <2>2, <2>3
  <2>5. Budget(e, w)'
    BY <1>0, <2>4, BudgetAt DEF Within
  <2>6. Silenced(e, w)'
    <3>. SUFFICES ASSUME extra'[e] = 0
         PROVE  /\ rows[e][w].succeeded <= rows[e][w].uncounted + 1
                /\ rows[e][w].succeeded > rows[e][w].uncounted => Callers(e, w)' = {}
      BY <1>0 DEF Silenced
    <3>1. extra[e] = 0 /\ Cardinality(R) = 0
      <4>. HIDE DEF R
      <4>. QED  BY <2>1
    <3>2. /\ rows[e][w].succeeded <= rows[e][w].uncounted + 1
          /\ rows[e][w].succeeded > rows[e][w].uncounted => Callers(e, w) = {}
      BY <1>0, <3>1 DEF Within, Silenced
    <3>3. R = {}
      <4>. HIDE DEF R
      <4>. QED  BY <2>1, <3>1, FS_EmptySet
    <3>. QED  BY <1>2, <3>2, <3>3
  <2>. QED  BY <2>5, <2>6 DEF Within
<1>4. Looked'
  <2>1. \A e \in Event, w \in Hook : rows'[e][w].last >= rows[e][w].last
    BY <1>0, RowNat
  <2>2. \A t \in Task : task'[t].st \in Called \cup Written => task'[t] = task[t]
    BY RestartShape, IdleOutside DEF Called, Written
  <2>. QED  BY <1>0, <2>1, <2>2, LookedStays
<1>. QED  BY <1>3, <1>4 DEF Bounded

LEMMA OutsideBounded ==
  ASSUME TypeOK, TypeOK', Sound, Bounded,
         Restart \/ \E w \in Hook, status \in {"enabled", "disabled"} : SetStatus(w, status)
  PROVE  Bounded'
<1>1. CASE Restart
  BY <1>1, RestartBounded
<1>2. ASSUME NEW w \in Hook, NEW status \in {"enabled", "disabled"}, SetStatus(w, status)
      PROVE  Bounded'
  <2>1. task' = task /\ event' = event /\ extra' = extra /\ rows' = rows
    BY <1>2 DEF SetStatus
  <2>2. \A e \in Event : extra[e] \in Nat
    BY DEF TypeOK
  <2>. QED  BY <2>1, <2>2, SameJobs
<1>. QED  BY <1>1, <1>2

LEMMA InitBounded == Init => Bounded
<1>. SUFFICES ASSUME Init PROVE Bounded
  OBVIOUS
<1>1. \A e \in Event, w \in Hook :
        /\ Live(e, w) = {} /\ Waiting(e, w) = 0 /\ rows[e][w].last = 0
        /\ rows[e][w].succeeded = 0 /\ rows[e][w].uncounted = 0 /\ extra[e] = 0
  BY WebhookAssumption DEF Init, Live, Alive, Idle, Waiting
<1>2. Spent(0) = MaxRetryCount - 1
  BY WebhookAssumption DEF Spent
<1>3. \A e \in Event, w \in Hook : Load(e, w) = 0
  <2>1. \A e \in Event, w \in Hook : Cardinality(Live(e, w)) = 0
    BY <1>1, FS_EmptySet
  <2>. QED  BY <1>1, <2>1 DEF Load
<1>4. \A e \in Event, w \in Hook : Within(e, w)
  BY <1>1, <1>2, <1>3, WebhookAssumption DEF Within, Budget, Silenced
<1>. QED  BY <1>4 DEF Bounded, Looked, Init, Idle, Called, Written

LEMMA StepBounded ==
  TypeOK /\ TypeOK' /\ Sound /\ Sound' /\ Bounded /\ [Next]_vars => Bounded'
<1>. SUFFICES ASSUME TypeOK, TypeOK', Sound, Sound', Bounded, [Next]_vars PROVE Bounded'
  OBVIOUS
<1>1. CASE \E t \in Task : HandlerStep(t) \/ ApplyUpdate(t) \/ StoreFails(t)
  BY <1>1, KeepsBounded, SavesBounded
<1>2. CASE Next
  BY <1>1, <1>2, NextCases, EventBounded, LoopBounded, OutsideBounded, Zenon
<1>3. CASE UNCHANGED vars
  BY <1>3 DEF vars, Bounded, Within, Budget, Looked, Silenced, Load, Live, Alive, Over,
     Callers, Unheard, Waiting, Spent
<1>. QED  BY <1>2, <1>3
-----------------------------------------------------------------------------
LEMMA BoundedCap == TypeOK /\ Bounded => RetryCap
<1>. SUFFICES ASSUME TypeOK, Bounded, NEW e \in Event, NEW w \in Hook
     PROVE  rows[e][w].last <= MaxRetryCount + extra[e]
  BY DEF RetryCap
<1>1. Spent(rows[e][w].last) + Load(e, w) <= MaxRetryCount + extra[e]
  BY DEF Bounded, Within, Budget
<1>2. /\ Load(e, w) \in Nat /\ rows[e][w].last \in Nat /\ extra[e] \in Nat
      /\ Spent(rows[e][w].last) \in Nat
  BY LiveFinite, RowNat, SpentNat DEF Load, Waiting
<1>3. rows[e][w].last <= Spent(rows[e][w].last)
  BY <1>2, WebhookAssumption DEF Spent
<1>. QED  BY <1>1, <1>2, <1>3, WebhookAssumption

LEMMA BoundedOnce == TypeOK /\ Sound /\ Bounded => AnsweredOnce
<1>. SUFFICES ASSUME TypeOK, Sound, Bounded, NEW t \in Task,
                     task[t].st \in Stages \ {"idle", "saved", "settle"},
                     rows[task[t].event][task[t].hook].succeeded
                       > rows[task[t].event][task[t].hook].uncounted
     PROVE  extra[task[t].event] > 0
  BY DEF AnsweredOnce
<1>1. task[t].event \in Event /\ task[t].hook \in Hook
  BY IdleOutside DEF Sound, Placed
<1>2. t \in Callers(task[t].event, task[t].hook)
  BY DEF Callers, Unheard
<1>3. extra[task[t].event] # 0
  BY <1>1, <1>2 DEF Bounded, Within, Silenced
<1>. QED  BY <1>1, <1>3 DEF TypeOK

\* However attempts of the two queues, of users and of restarts interleave, an
\* event is sent to an endpoint MaxRetryCount times, and once more for each
\* attempt that was begun outside its chain.
THEOREM RetryCapAlways == Spec => []RetryCap
<1>. QED  BY InitSound, StepSound, InitBounded, StepBounded, BoundedCap, PTL DEF Spec

\* When an attempt has been recorded as answered and the store has refused the
\* count of none of the recorded answers, no job that could call the endpoint
\* for that event is left, in a queue or in the table, if none was begun outside
\* its chain.  A refused count is not such a case: the code then calls again.
THEOREM AnsweredOnceAlways == Spec => []AnsweredOnce
<1>. QED  BY InitSound, StepSound, InitBounded, StepBounded, BoundedOnce, PTL DEF Spec
-----------------------------------------------------------------------------
(* Failures.  Every copy of an endpoint's counter, the stale ones that        *)
(* handlers hold included, is backed by that many calls that did fail.        *)

Backed(n, failed) == n <= failed \/ Threshold <= failed
Honest ==
  /\ \A w \in Hook : Backed(hook[w].fails, hook[w].failed)
  /\ \A t \in Task :
       task[t].hook \in Hook => Backed(task[t].fails, hook[task[t].hook].failed)

LEMMA FailsNat ==
  ASSUME TypeOK
  PROVE  /\ \A w \in Hook : hook[w].fails \in Nat /\ hook[w].failed \in Nat
         /\ \A t \in Task : task[t].fails \in Nat
BY DEF TypeOK, HookRow, Job

LEMMA FailsNatNext ==
  ASSUME TypeOK'
  PROVE  /\ \A w \in Hook : hook'[w].fails \in Nat /\ hook'[w].failed \in Nat
         /\ \A t \in Task : task'[t].fails \in Nat
BY DEF TypeOK, HookRow, Job

LEMMA HonestStays ==
  ASSUME TypeOK, TypeOK', Honest,
         \A w \in Hook :
           /\ hook'[w].failed = hook[w].failed
           /\ hook'[w].fails = 0 \/ Backed(hook'[w].fails, hook[w].failed),
         \A t \in Task :
           \/ task'[t].fails = 0 \/ task'[t] = Idle
           \/ /\ task'[t].hook = task[t].hook
              /\ task'[t].fails = task[t].fails \/ Backed(task'[t].fails, hook[task[t].hook].failed)
  PROVE  Honest'
<1>1. \A w \in Hook : Backed(0, hook'[w].failed)
  BY FailsNatNext DEF Backed
<1>2. \A w \in Hook : Backed(hook'[w].fails, hook'[w].failed)
  BY <1>1, FailsNat, FailsNatNext DEF Backed
<1>3. ASSUME NEW t \in Task, task'[t].hook \in Hook
      PROVE  Backed(task'[t].fails, hook'[task'[t].hook].failed)
  <2>1. task'[t] # Idle
    BY <1>3, WebhookAssumption DEF Idle
  <2>2. CASE task'[t].fails = 0
    BY <1>1, <1>3, <2>2
  <2>3. CASE task'[t].fails # 0
    <3>1. task'[t].hook = task[t].hook /\ Backed(task'[t].fails, hook[task[t].hook].failed)
      BY <1>3, <2>1, <2>3 DEF Honest
    <3>. QED  BY <1>3, <3>1, FailsNat, FailsNatNext DEF Backed
  <2>. QED  BY <2>2, <2>3
<1>. QED  BY <1>2, <1>3 DEF Honest

LEMMA FailHonest ==
  ASSUME TypeOK, TypeOK', Sound, Honest, NEW t \in Task, Fail(t)
  PROVE  Honest'
<1>0. /\ task[t] \in Job /\ task \in [Task -> Job] /\ hook \in [Hook -> HookRow]
      /\ task[t].hook \in Hook
  BY HandlerShape DEF TypeOK, HandlerStep
<1>1. PICK w \in Hook : w = task[t].hook
  BY <1>0
<1>2. /\ hook'[w].failed = OneMore(hook[w].failed)
      /\ \A v \in Hook : hook'[v].fails = hook[v].fails
      /\ \A v \in Hook \ {w} : hook'[v] = hook[v]
  <2>1. hook' = [hook EXCEPT ![w] = [hook[w] EXCEPT !.failed = OneMore(hook[w].failed)]]
    BY <1>1 DEF Fail
  <2>. QED  BY <1>0, <2>1 DEF HookRow
<1>3. /\ task'[t].hook = w /\ task'[t].fails = task[t].fails + 1
      /\ \A u \in Task \ {t} : task'[u] = task[u]
  BY <1>0, <1>1 DEF Fail, Job
<1>4. \A v \in Hook : hook'[v].failed >= hook[v].failed
  <2>1. OneMore(hook[w].failed) >= hook[w].failed
    BY FailsNat DEF OneMore
  <2>2. \A v \in Hook : hook[v].failed \in Nat
    BY FailsNat
  <2>. QED  BY <1>2, <2>1, <2>2
<1>5. ASSUME NEW v \in Hook, NEW n \in Nat, Backed(n, hook[v].failed)
      PROVE  Backed(n, hook'[v].failed)
  BY <1>4, <1>5, FailsNat, FailsNatNext, WebhookAssumption DEF Backed
<1>6. \A v \in Hook : Backed(hook'[v].fails, hook'[v].failed)
  BY <1>2, <1>5, FailsNat DEF Honest
<1>7. ASSUME NEW u \in Task, task'[u].hook \in Hook
      PROVE  Backed(task'[u].fails, hook'[task'[u].hook].failed)
  <2>1. CASE u # t
    BY <1>3, <1>5, <1>7, <2>1, FailsNat DEF Honest
  <2>2. CASE u = t
    <3>1. task[t].fails <= hook[w].failed \/ Threshold <= hook[w].failed
      BY <1>1 DEF Honest, Backed
    <3>2. task[t].fails + 1 <= OneMore(hook[w].failed) \/ Threshold <= OneMore(hook[w].failed)
      BY <3>1, FailsNat, WebhookAssumption DEF OneMore
    <3>. QED  BY <1>2, <1>3, <2>2, <3>2 DEF Backed
  <2>. QED  BY <2>1, <2>2
<1>. QED  BY <1>6, <1>7 DEF Honest

LEMMA HandlerHonest ==
  ASSUME TypeOK, TypeOK', Sound, Honest, NEW t \in Task,
         HandlerStep(t) \/ ApplyUpdate(t) \/ StoreFails(t)
  PROVE  Honest'
<1>0. /\ task[t] \in Job /\ task \in [Task -> Job] /\ hook \in [Hook -> HookRow]
      /\ task[t].hook \in Hook
  BY HandlerShape DEF TypeOK
<1>1. CASE Fail(t)
  BY <1>1, FailHonest
<1>2. CASE ~Fail(t)
  <2>1. \A w \in Hook :
          /\ hook'[w].failed = hook[w].failed
          /\ hook'[w].fails = 0 \/ Backed(hook'[w].fails, hook[w].failed)
    <3>1. CASE ApplyUpdate(t)
      <4>1. PICK w \in Hook : w = task[t].hook
        BY <1>0
      <4>2. \/ hook' = [hook EXCEPT ![w] = [hook[w] EXCEPT !.status = "disabled", !.fails = 0]]
            \/ hook' = [hook EXCEPT ![w] = [hook[w] EXCEPT !.fails = task[t].fails]]
        BY <3>1, <4>1 DEF ApplyUpdate
      <4>3. /\ \A v \in Hook : hook'[v].failed = hook[v].failed
            /\ \A v \in Hook \ {w} : hook'[v] = hook[v]
            /\ hook'[w].fails = 0 \/ hook'[w].fails = task[t].fails
        <5>1. CASE hook' = [hook EXCEPT ![w] = [hook[w] EXCEPT !.status = "disabled", !.fails = 0]]
          <6>1. hook'[w] = [hook[w] EXCEPT !.status = "disabled", !.fails = 0]
            BY <1>0, <5>1
          <6>2. hook'[w].failed = hook[w].failed /\ hook'[w].fails = 0
            BY <1>0, <6>1 DEF HookRow
          <6>. QED  BY <1>0, <5>1, <6>2
        <5>2. CASE hook' = [hook EXCEPT ![w] = [hook[w] EXCEPT !.fails = task[t].fails]]
          <6>1. hook'[w] = [hook[w] EXCEPT !.fails = task[t].fails]
            BY <1>0, <5>2
          <6>2. hook'[w].failed = hook[w].failed /\ hook'[w].fails = task[t].fails
            BY <1>0, <6>1 DEF HookRow
          <6>. QED  BY <1>0, <5>2, <6>2
        <5>. QED  BY <4>2, <5>1, <5>2
      <4>4. Backed(task[t].fails, hook[w].failed) /\ \A v \in Hook : Backed(hook[v].fails, hook[v].failed)
        BY <4>1 DEF Honest
      <4>. QED  BY <4>3, <4>4
    <3>2. CASE ~ApplyUpdate(t)
      <4>1. hook' = hook
        BY <1>2, <3>2, StoreShape DEF HandlerStep, Take, Look, Answer, SaveSucceeded,
           SaveFailed, Settle
      <4>. QED  BY <4>1 DEF Honest
    <3>. QED  BY <3>1, <3>2
  <2>2. \/ task'[t].fails = 0 \/ task'[t] = Idle \/ task'[t].fails = task[t].fails
        \/ task'[t].fails = hook[task[t].hook].fails
    <3>1. CASE Take(t)
      BY <1>0, <3>1 DEF Take, Job
    <3>7. CASE StoreFails(t)
      <4>1. CASE \E st \in {"refused", "again"} : task'[t] = [task[t] EXCEPT !.st = st]
        BY <1>0, <4>1 DEF Job
      <4>2. CASE task'[t] = [task[t] EXCEPT !.landed = TRUE, !.fails = 0]
        BY <1>0, <4>2 DEF Job
      <4>. QED  BY <3>7, <4>1, <4>2, StoreShape
    <3>2. CASE Look(t)
      BY <1>0, <3>2 DEF Look, Job
    <3>3. CASE Answer(t) \/ ApplyUpdate(t)
      BY <1>0, <3>3 DEF Answer, ApplyUpdate, Job
    <3>4. CASE SaveSucceeded(t)
      BY <1>0, <3>4 DEF SaveSucceeded, AfterAnswer, Job
    <3>5. CASE SaveFailed(t)
      <4>1. CASE Retries(task[t].count)
        <5>1. task'[t] = Delayed(task[t])
          BY <1>0, <3>5, <4>1 DEF SaveFailed
        <5>. QED  BY <5>1 DEF Delayed, Idle
      <4>2. CASE ~Retries(task[t].count)
        <5>1. task'[t] = [task[t] EXCEPT !.st = "settle", !.count = 0]
          BY <1>0, <3>5, <4>2 DEF SaveFailed
        <5>. QED  BY <1>0, <5>1 DEF Job
      <4>. QED  BY <4>1, <4>2
    <3>6. CASE Settle(t)
      BY <1>0, <3>6 DEF Settle
    <3>. QED  BY <1>2, <3>1, <3>2, <3>3, <3>4, <3>5, <3>6, <3>7 DEF HandlerStep
  <2>3. /\ task'[t] = Idle \/ task'[t].hook = task[t].hook
        /\ \A u \in Task \ {t} : task'[u] = task[u]
    BY HandlerShape
  <2>4. Backed(hook[task[t].hook].fails, hook[task[t].hook].failed)
    BY <1>0 DEF Honest
  <2>5. \A u \in Task :
          \/ task'[u].fails = 0 \/ task'[u] = Idle
          \/ /\ task'[u].hook = task[u].hook
             /\ task'[u].fails = task[u].fails \/ Backed(task'[u].fails, hook[task[u].hook].failed)
    BY <2>2, <2>3, <2>4
  <2>. QED  BY <2>1, <2>5, HonestStays
<1>. QED  BY <1>1, <1>2

\* The other actions leave the failures of jobs and endpoints alone.
LEMMA OthersHonest ==
  ASSUME TypeOK, TypeOK', Sound, Honest, Next,
         ~ \E t \in Task : HandlerStep(t) \/ ApplyUpdate(t) \/ StoreFails(t)
  PROVE  Honest'
<1>0. task \in [Task -> Job] /\ hook \in [Hook -> HookRow]
  BY DEF TypeOK
<1>1. \A w \in Hook : hook'[w].failed = hook[w].failed /\ hook'[w].fails = hook[w].fails
  <2>1. CASE \E w \in Hook, status \in {"enabled", "disabled"} : SetStatus(w, status)
    BY <1>0, <2>1 DEF SetStatus, HookRow
  <2>2. CASE ~ \E w \in Hook, status \in {"enabled", "disabled"} : SetStatus(w, status)
    <3>1. hook' = hook
      BY <2>2, NextCases DEF Accept, HandleEvent, Schedule, Retry, Fetch, PushDue, Restart,
         EventDropped, TurnDropped
    <3>. QED  BY <3>1
  <2>. QED  BY <2>1, <2>2
<1>2. \A e, w, q, b : NewJob(e, w, q, b).fails = 0
  BY DEF NewJob, Idle
<1>3. ASSUME NEW u \in Task
      PROVE  \/ task'[u].fails = 0 \/ task'[u] = Idle
             \/ task'[u].hook = task[u].hook /\ task'[u].fails = task[u].fails
  <2>1. CASE task' = task
    BY <2>1
  <2>2. CASE \E t \in Task, e \in Event, w \in Hook, q \in Queue, b \in BOOLEAN :
               task' = [task EXCEPT ![t] = NewJob(e, w, q, b)]
    BY <1>0, <1>2, <2>2
  <2>3. CASE \E q \in Queue : Fetch(q)
    BY <1>0, <2>3 DEF Fetch, Job
  <2>4. CASE \E q \in Queue : \E f \in todo[q] :
               task' = [task EXCEPT ![f.task].st = "queued", ![f.task].queue = q]
    BY <1>0, <2>4 DEF Job
  <2>5. CASE Restart
    <3>1. task'[u] = Restarted(task[u])
      BY <2>5 DEF Restart
    <3>2. CASE task[u].st \in {"later", "marked"}
      <4>1. task'[u] = [task[u] EXCEPT !.st = "later"]
        BY <3>1, <3>2 DEF Restarted
      <4>. QED  BY <1>0, <4>1 DEF Job
    <3>3. CASE task[u].st \notin {"later", "marked"}
      <4>1. \/ task'[u] = Idle
            \/ task'[u] = NewJob(task[u].event, task[u].hook, task[u].queue, TRUE)
        BY <3>1, <3>3 DEF Restarted
      <4>. QED  BY <4>1 DEF NewJob, Idle
    <3>. QED  BY <3>2, <3>3
  <2>6. \/ task' = task
        \/ \E t \in Task, e \in Event, w \in Hook, q \in Queue, b \in BOOLEAN :
             task' = [task EXCEPT ![t] = NewJob(e, w, q, b)]
        \/ \E q \in Queue : Fetch(q)
        \/ \E q \in Queue : \E f \in todo[q] :
             task' = [task EXCEPT ![f.task].st = "queued", ![f.task].queue = q]
        \/ Restart
    <3>1. ASSUME NEW e \in Event, NEW w \in Hook, NEW t \in Task, Schedule(e, w, t) \/ Retry(e, w, t)
          PROVE  \/ task' = task
                 \/ \E q \in Queue, b \in BOOLEAN : task' = [task EXCEPT ![t] = NewJob(e, w, q, b)]
      BY <3>1 DEF Schedule, Retry, Queue
    <3>2. ASSUME NEW q \in Queue, NEW f \in todo[q], NEW t \in Task, PushDue(q, f, t)
          PROVE  \/ task' = [task EXCEPT ![f.task].st = "queued", ![f.task].queue = q]
                 \/ \E e \in Event, w \in Hook, b \in BOOLEAN :
                      task' = [task EXCEPT ![t] = NewJob(e, w, q, b)]
      <4>1. f.event \in Event /\ f.hook \in Hook
        BY DEF TypeOK, Fetched
      <4>. QED  BY <3>2, <4>1 DEF PushDue
    <3>3. \A e \in Event : Accept(e) \/ HandleEvent(e) => task' = task
      BY DEF Accept, HandleEvent
    <3>4. \A w \in Hook, status \in {"enabled", "disabled"} : SetStatus(w, status) => task' = task
      BY DEF SetStatus
    <3>8. \A e \in Event : EventDropped(e) \/ (\E w \in Hook : TurnDropped(e, w)) => task' = task
      BY DEF EventDropped, TurnDropped
    <3>5. \/ \E e \in Event : Accept(e) \/ HandleEvent(e)
          \/ \E e \in Event : EventDropped(e) \/ (\E w \in Hook : TurnDropped(e, w))
          \/ \E e \in Event, w \in Hook, t \in Task : Schedule(e, w, t) \/ Retry(e, w, t)
          \/ \E q \in Queue : Fetch(q)
          \/ \E q \in Queue : \E f \in todo[q], t \in Task : PushDue(q, f, t)
          \/ \E w \in Hook, status \in {"enabled", "disabled"} : SetStatus(w, status)
          \/ Restart
      BY NextCases, Zenon
    <3>6. CASE \E e \in Event, w \in Hook, t \in Task : Schedule(e, w, t) \/ Retry(e, w, t)
      <4>1. PICK e \in Event, w \in Hook, t \in Task : Schedule(e, w, t) \/ Retry(e, w, t)
        BY <3>6
      <4>2. CASE \E q \in Queue, b \in BOOLEAN : task' = [task EXCEPT ![t] = NewJob(e, w, q, b)]
        <5>1. PICK q \in Queue, b \in BOOLEAN : task' = [task EXCEPT ![t] = NewJob(e, w, q, b)]
          BY <4>2
        <5>2. \E tt \in Task, ee \in Event, ww \in Hook, qq \in Queue, bb \in BOOLEAN :
                task' = [task EXCEPT ![tt] = NewJob(ee, ww, qq, bb)]
          BY <5>1, Zenon
        <5>. QED  BY <5>2, Zenon
      <4>. QED  BY <3>1, <4>1, <4>2, Zenon
    <3>7. CASE \E q \in Queue : \E f \in todo[q], t \in Task : PushDue(q, f, t)
      <4>1. PICK q \in Queue : \E f \in todo[q], t \in Task : PushDue(q, f, t)
        BY <3>7
      <4>2. PICK f \in todo[q], t \in Task : PushDue(q, f, t)
        BY <4>1
      <4>3. CASE task' = [task EXCEPT ![f.task].st = "queued", ![f.task].queue = q]
        BY <4>3, Zenon
      <4>4. CASE \E e \in Event, w \in Hook, b \in BOOLEAN :
                   task' = [task EXCEPT ![t] = NewJob(e, w, q, b)]
        <5>1. PICK e \in Event, w \in Hook, b \in BOOLEAN :
                task' = [task EXCEPT ![t] = NewJob(e, w, q, b)]
          BY <4>4
        <5>2. \E tt \in Task, ee \in Event, ww \in Hook, qq \in Queue, bb \in BOOLEAN :
                task' = [task EXCEPT ![tt] = NewJob(ee, ww, qq, bb)]
          BY <5>1, Zenon
        <5>. QED  BY <5>2, Zenon
      <4>5. \/ task' = [task EXCEPT ![f.task].st = "queued", ![f.task].queue = q]
            \/ \E e \in Event, w \in Hook, b \in BOOLEAN :
                 task' = [task EXCEPT ![t] = NewJob(e, w, q, b)]
        BY <3>2, <4>2
      <4>. QED  BY <4>3, <4>4, <4>5, Zenon
    <3>. QED  BY <3>3, <3>4, <3>5, <3>6, <3>7, <3>8, Zenon
  <2>. QED  BY <2>1, <2>2, <2>3, <2>4, <2>5, <2>6
<1>. QED  BY <1>1, <1>3, HonestStays DEF Honest

LEMMA InitHonest == Init => Honest
BY WebhookAssumption DEF Init, Honest, Backed, Idle

LEMMA StepHonest ==
  TypeOK /\ TypeOK' /\ Sound /\ Honest /\ [Next]_vars => Honest'
<1>. SUFFICES ASSUME TypeOK, TypeOK', Sound, Honest, [Next]_vars PROVE Honest'
  OBVIOUS
<1>1. CASE Next
  BY <1>1, HandlerHonest, OthersHonest
<1>2. CASE UNCHANGED vars
  BY <1>2 DEF vars, Honest, Backed
<1>. QED  BY <1>1, <1>2

\* The step that disables an endpoint on its own is the update of a handler
\* whose counter has reached Threshold, and that counter is backed.
LEMMA HonestDisables ==
  ASSUME TypeOK, Sound, Honest, Next, NEW w \in Hook,
         hook[w].status = "enabled", hook'[w].status = "disabled", did' = did
  PROVE  hook[w].failed >= Threshold
<1>0. task \in [Task -> Job] /\ hook \in [Hook -> HookRow]
  BY DEF TypeOK
<1>1. ASSUME NEW v \in Hook, NEW status \in {"enabled", "disabled"}, SetStatus(v, status)
      PROVE  FALSE
  BY <1>1 DEF SetStatus, Happens
<1>2. \E t \in Task : ApplyUpdate(t) \/ Fail(t)
  <2>1. ASSUME NEW t \in Task, HandlerStep(t) \/ StoreFails(t), ~Fail(t)
        PROVE  hook' = hook
    BY <2>1 DEF HandlerStep, StoreFails, Take, Look, Answer, SaveSucceeded, SaveFailed, Settle
  <2>2. ASSUME NEW e \in Event, NEW v \in Hook, NEW t \in Task,
               Accept(e) \/ HandleEvent(e) \/ Schedule(e, v, t) \/ Retry(e, v, t)
        PROVE  hook' = hook
    BY <2>2 DEF Accept, HandleEvent, Schedule, Retry
  <2>3. ASSUME NEW e \in Event, Accept(e) \/ HandleEvent(e)  PROVE hook' = hook
    BY <2>3 DEF Accept, HandleEvent
  <2>4. ASSUME NEW q \in Queue, Fetch(q)  PROVE hook' = hook
    BY <2>4 DEF Fetch
  <2>5. ASSUME NEW q \in Queue, NEW f \in todo[q], NEW t \in Task, PushDue(q, f, t)
        PROVE  hook' = hook
    BY <2>5 DEF PushDue
  <2>6. Restart => hook' = hook
    BY DEF Restart
  <2>8. \A e \in Event : EventDropped(e) \/ (\E v \in Hook : TurnDropped(e, v)) => hook' = hook
    BY DEF EventDropped, TurnDropped
  <2>7. hook' # hook
    OBVIOUS
  <2>. QED  BY <1>1, <2>1, <2>2, <2>3, <2>4, <2>5, <2>6, <2>7, <2>8, NextCases, Zenon
<1>3. PICK t \in Task : ApplyUpdate(t) \/ Fail(t)
  BY <1>2
<1>4. CASE Fail(t)
  <2>1. task[t].hook \in Hook
    BY <1>4, HandlerShape DEF HandlerStep
  <2>2. PICK v \in Hook : v = task[t].hook
    BY <2>1
  <2>3. hook' = [hook EXCEPT ![v] = [hook[v] EXCEPT !.failed = OneMore(hook[v].failed)]]
    BY <1>4, <2>2 DEF Fail
  <2>4. hook'[v].status = hook[v].status /\ \A u \in Hook \ {v} : hook'[u] = hook[u]
    BY <1>0, <2>3 DEF HookRow
  <2>. QED  BY <2>4
<1>5. CASE ApplyUpdate(t)
  <2>1. task[t].hook \in Hook
    BY <1>5, HandlerShape
  <2>2. TooMany(task[t].fails) /\ task[t].hook = w
    BY <1>0, <1>5, <2>1 DEF ApplyUpdate, HookRow
  <2>3. Backed(task[t].fails, hook[w].failed)
    BY <2>2 DEF Honest
  <2>. QED  BY <2>2, <2>3, FailsNat, WebhookAssumption DEF Backed, TooMany
<1>. QED  BY <1>3, <1>4, <1>5

\* The service disables an endpoint only after Threshold failed calls to it,
\* whatever the concurrent attempts had read of its counter.
THEOREM DisabledByFailuresAlways == Spec => DisabledByFailures
<1>1. ASSUME TypeOK, Sound, Honest, [Next]_vars
      PROVE  [\A w \in Hook :
                (hook[w].status = "enabled" /\ hook'[w].status = "disabled" /\ did' = did)
                  => hook[w].failed >= Threshold]_vars
  <2>1. CASE Next
    BY <1>1, <2>1, HonestDisables
  <2>2. CASE UNCHANGED vars
    BY <2>2
  <2>. QED  BY <1>1, <2>1, <2>2
<1>. QED  BY <1>1, InitSound, StepSound, InitHonest, StepHonest, PTL DEF Spec, DisabledByFailures
=============================================================================
