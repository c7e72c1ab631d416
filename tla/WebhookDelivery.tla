--------------------------- MODULE WebhookDelivery ---------------------------
(***************************************************************************)
(* Delivery of a blocklet's events to its webhook endpoints: event-bus.js, *)
(* queues.js and retryWebhookAttempt of blocklet/webhook/index.js, with    *)
(* the three tables they share (events, endpoints, attempts) and the two   *)
(* endpoint queues that init() creates in one process, once for the event  *)
(* bus and once for WebhooksAPI, over the same rows of the jobs table.     *)
(*                                                                         *)
(* A step is what runs between two awaits.  What a handler read before an  *)
(* await stays in its task and is used after it.                           *)
(***************************************************************************)
EXTENDS Naturals, FiniteSets

CONSTANTS
  Event, Hook,     \* events accepted by the bus, webhook endpoints
  Task,            \* places for endpoint jobs (bounds how many exist at once)
  NoEvent, NoHook,
  Matches,         \* the endpoints whose enabledEvents contain the event
  DefaultPending,  \* DEFAULT_PENDING_WEBHOOKS
  MaxRetryCount,   \* MAX_RETRY_COUNT
  Threshold,       \* WEBHOOK_CONSECUTIVE_FAILURES_THRESHOLD
  Concurrency,     \* options.concurrency of an endpoint queue
  Env,             \* what the environment may do
  UserHook,        \* bound: the endpoints that users act on
  EnvCap           \* bound: how many of them happen, each at most once

ASSUME WebhookAssumption ==
  /\ IsFiniteSet(Event) /\ IsFiniteSet(Hook) /\ IsFiniteSet(Task)
  /\ NoEvent \notin Event /\ NoHook \notin Hook
  /\ Matches \in [Event -> SUBSET Hook]
  /\ DefaultPending \in Nat \ {0} /\ MaxRetryCount \in Nat \ {0}
  /\ Threshold \in Nat \ {0} /\ Concurrency \in Nat \ {0}
  /\ Env \subseteq {"manual", "admin", "crash", "storeFail"}
  /\ UserHook \subseteq Hook /\ EnvCap \in Nat

VARIABLES
  event,   \* rows of the events table, and how far the event queue is with each
  hook,    \* rows of the endpoints table
  rows,    \* the attempts table, per event and endpoint
  task,    \* endpoint jobs: rows of the jobs table and jobs in a queue
  todo,    \* the rows that the scheduled loop of a queue has fetched
  extra,   \* history: attempts of an event begun outside its chains
  did      \* history: what the environment has done

vars == <<event, hook, rows, task, todo, extra, did>>
-----------------------------------------------------------------------------
\* The queue created for the event bus and the one created for WebhooksAPI.
Queue == {"bus", "api"}

\* "saved": the success is recorded, its count is not; "again": the store has
\* refused that count, and the catch of the handler takes over.
Stages == {"idle", "later", "marked", "queued", "read", "post", "acked", "refused",
           "saved", "again", "settle"}
Running == {"read", "post", "acked", "refused", "saved", "again", "settle"}

Job == [st : Stages, event : Event \cup {NoEvent}, hook : Hook \cup {NoHook},
        queue : Queue, asked : BOOLEAN,
        pending : Nat, fails : Nat, landed : BOOLEAN, count : Nat]
Idle == [st |-> "idle", event |-> NoEvent, hook |-> NoHook, queue |-> "bus",
         asked |-> FALSE, pending |-> 0, fails |-> 0, landed |-> TRUE, count |-> 0]
NewJob(e, w, q, asked) ==
  [Idle EXCEPT !.st = "queued", !.event = e, !.hook = w, !.queue = q, !.asked = asked]
\* The delayed row: another process or queue may pick it up.
Delayed(j) == [Idle EXCEPT !.st = "later", !.event = j.event, !.hook = j.hook]
EventRow == [st : {"none", "queued", "handled", "lost"}, pending : Nat, plan : SUBSET Hook]
HookRow == [status : {"enabled", "disabled"}, fails : Nat, failed : Nat]
\* The highest retryCount, how often an attempt was recorded as succeeded, and
\* (history) how often the store then refused the count of such a success.
Attempts == [last : Nat, succeeded : Nat, uncounted : Nat]
Fetched == [task : Task, event : Event, hook : Hook]

TypeOK ==
  /\ event \in [Event -> EventRow]
  /\ hook \in [Hook -> HookRow]
  /\ rows \in [Event -> [Hook -> Attempts]]
  /\ task \in [Task -> Job]
  /\ todo \in [Queue -> SUBSET Fetched]
  /\ extra \in [Event -> Nat]
  /\ did \subseteq Env

\* Jobs of an event that have not settled its count yet.
Tokens(e) == {t \in Task : task[t].event = e}
Reserved(t) == \E q \in Queue : \E f \in todo[q] : f.task = t
Free(t) == task[t].st = "idle" /\ ~Reserved(t)
\* Which place a new job takes does not matter.
Place == CHOOSE t \in Task : Free(t)
IsPlace(t) == Free(t) /\ t = Place
Busy(q) == {t \in Task : task[t].queue = q /\ task[t].st \in Running}

Init ==
  /\ event = [e \in Event |-> [st |-> "none", pending |-> 0, plan |-> {}]]
  /\ hook = [w \in Hook |-> [status |-> "enabled", fails |-> 0, failed |-> 0]]
  /\ rows = [e \in Event |-> [w \in Hook |-> [last |-> 0, succeeded |-> 0, uncounted |-> 0]]]
  /\ task = [t \in Task |-> Idle]
  /\ todo = [q \in Queue |-> {}]
  /\ extra = [e \in Event |-> 0]
  /\ did = {}
\* What users, the store or a failure of the process do; bound: EnvCap.
Happens(what) ==
  /\ what \in Env \ did /\ Cardinality(did) < EnvCap
  /\ did' = did \cup {what}
-----------------------------------------------------------------------------
(* The event bus *)

\* handleEventBusEvent of a running blocklet: the row and the job in memory.
Accept(e) ==
  /\ event[e].st = "none"
  /\ event' = [event EXCEPT ![e] = [@ EXCEPT !.st = "queued", !.pending = DefaultPending]]
  /\ UNCHANGED <<hook, rows, task, todo, extra, did>>

EventHooks(e) == {w \in Matches[e] : hook[w].status = "enabled"}

\* (fault) only whether anybody waits for the event is counted
Outstanding_One(ws) == IF ws = {} THEN 0 ELSE 1
Outstanding(ws) == Cardinality(ws)

\* handleWebhookEvent up to its forEach; an event that nobody waits for ends.
HandleEvent(e) ==
  /\ event[e].st = "queued"
  /\ event' = [event EXCEPT ![e] =
       IF event[e].pending = 0 THEN [@ EXCEPT !.st = "handled"]
       ELSE [st |-> "handled", pending |-> Outstanding(EventHooks(e)),
             plan |-> EventHooks(e)]]
  /\ UNCHANGED <<hook, rows, task, todo, extra, did>>

\* One turn of the forEach: no row of success yet, so the attempt is queued.
\* No job is ever found under jobId: push ignores the `id` it is given.
Schedule(e, w, t) ==
  /\ w \in event[e].plan
  /\ event' = [event EXCEPT ![e].plan = @ \ {w}]
  /\ IF rows[e][w].succeeded > 0
       THEN UNCHANGED task
       ELSE IsPlace(t) /\ task' = [task EXCEPT ![t] = NewJob(e, w, "bus", FALSE)]
  /\ UNCHANGED <<hook, rows, todo, extra, did>>
-----------------------------------------------------------------------------
(* handleWebhookEndpoint *)

\* A slot takes the job; the event is read, with the count it has now.
Take(t) ==
  LET j == task[t] IN
  /\ j.st = "queued"
  /\ Cardinality(Busy(j.queue)) < Concurrency
  /\ task' = [task EXCEPT ![t].st = "read", ![t].pending = event[j.event].pending]
  /\ UNCHANGED <<event, hook, rows, todo, extra, did>>

NextCount(last) == last + 1

\* The endpoint is read and the highest retryCount of its attempts; the job of
\* a disabled endpoint ends, and the count of the event is left as it is.
Look(t) ==
  LET j == task[t] IN
  /\ j.st = "read"
  /\ task' = [task EXCEPT ![t] =
       IF hook[j.hook].status # "enabled" THEN Idle
       ELSE [@ EXCEPT !.st = "post", !.fails = hook[j.hook].fails,
                      !.count = NextCount(rows[j.event][j.hook].last)]]
  /\ UNCHANGED <<event, hook, rows, todo, extra, did>>

\* axios.post answers 2xx, or fails; either way the update of the endpoint's
\* counter is launched, from the value read before the call, and not awaited.
Answer(t) ==
  /\ task[t].st = "post"
  /\ task' = [task EXCEPT ![t].st = "acked", ![t].fails = 0, ![t].landed = FALSE]
  /\ UNCHANGED <<event, hook, rows, todo, extra, did>>

\* The history of failed calls is not counted past Threshold.
OneMore(n) == IF n < Threshold THEN n + 1 ELSE n
Fail(t) ==
  /\ task[t].st = "post"
  /\ task' = [task EXCEPT ![t].st = "refused", ![t].fails = @ + 1, ![t].landed = FALSE]
  /\ hook' = [hook EXCEPT ![task[t].hook].failed = OneMore(@)]
  /\ UNCHANGED <<event, rows, todo, extra, did>>

\* (fault) one failure too few disables the endpoint
TooMany_Early(fails) == fails + 1 >= Threshold
TooMany(fails) == fails >= Threshold

\* updateWebhook: what it writes when it disables resets the counter.
ApplyUpdate(t) ==
  LET n == task[t].fails IN
  /\ ~task[t].landed
  /\ task' = [task EXCEPT ![t].landed = TRUE, ![t].fails = 0]
  /\ hook' = [hook EXCEPT ![task[t].hook] =
       IF TooMany(n) THEN [@ EXCEPT !.status = "disabled", !.fails = 0]
       ELSE [@ EXCEPT !.fails = n]]
  /\ UNCHANGED <<event, rows, todo, extra, did>>

Larger(a, b) == IF a >= b THEN a ELSE b
Record(e, w, count, n) ==
  rows' = [rows EXCEPT ![e][w] =
             [last |-> Larger(@.last, count), succeeded |-> @.succeeded + n,
              uncounted |-> @.uncounted]]

\* (fault) the attempt that was answered is scheduled again
AfterAnswer_Again(j) == IF j.count < MaxRetryCount THEN Delayed(j) ELSE [j EXCEPT !.st = "saved"]
AfterAnswer(j) == [j EXCEPT !.st = "saved"]

\* Bound, here and in SaveFailed: the launched update lands before the row.
SaveSucceeded(t) ==
  LET j == task[t] IN
  /\ j.st = "acked" /\ j.landed
  /\ Record(j.event, j.hook, j.count, 1)
  /\ task' = [task EXCEPT ![t] = AfterAnswer(j)]
  /\ UNCHANGED <<event, hook, todo, extra, did>>

\* (faults) one attempt more, one attempt fewer
Retries_OneMore(count) == count <= MaxRetryCount
Retries_OneFewer(count) == count + 1 < MaxRetryCount
Retries(count) == count < MaxRetryCount

\* The catch of the handler: the row of the failed attempt, and the delayed job
\* of the next one.  (The row of a user's retry whose success was recorded is
\* overwritten; succeeded goes on counting it, nothing reads it any more.)
SaveFailed(t) ==
  LET j == task[t] IN
  /\ j.st \in {"refused", "again"} /\ j.landed
  /\ Record(j.event, j.hook, j.count, 0)
  /\ task' = [task EXCEPT ![t] =
                IF Retries(j.count) THEN Delayed(j) ELSE [j EXCEPT !.st = "settle", !.count = 0]]
  /\ UNCHANGED <<event, hook, todo, extra, did>>

\* (fault) Math.max is forgotten
Decremented_NoFloor(n) == n - 1
Decremented(n) == IF n = 0 THEN 0 ELSE n - 1

\* The event's count, after a success or after the last failure, from the value
\* read when the job was taken.
Settle(t) ==
  LET j == task[t] IN
  /\ j.st \in {"saved", "settle"}
  /\ event' = [event EXCEPT ![j.event].pending = Decremented(j.pending)]
  /\ task' = [task EXCEPT ![t] = Idle]
  /\ UNCHANGED <<hook, rows, todo, extra, did>>
-----------------------------------------------------------------------------
(* A statement that the store refuses, once each in a behaviour.  A throw     *)
(* inside the try of the handler goes to its catch; one outside it, in the    *)
(* catch or in handleWebhookEvent ends the job, and the queue drops it: it    *)
(* has no row, or its row has had the one attempt that maxRetries allows.     *)

Thrown(t, st) == task' = [task EXCEPT ![t].st = st]

\* The row of a call that was answered.
SuccessRefused(t) ==
  task[t].st = "acked" /\ Thrown(t, "refused") /\ UNCHANGED rows

\* The count of a success that is recorded: the attempt is made to fail.
CountRefused(t) ==
  /\ task[t].st = "saved" /\ Thrown(t, "again")
  /\ rows' = [rows EXCEPT ![task[t].event][task[t].hook].uncounted = @ + 1]

\* What a handler reads before its call, the row of a failure, or the count
\* after the last one.
JobDropped(t) ==
  LET j == task[t] IN
  /\ j.st \in {"read", "settle"} \/ (j.st \in {"refused", "again"} /\ j.landed)
  /\ task' = [task EXCEPT ![t] = Idle]
  /\ UNCHANGED rows

\* The row of the delayed job, after that of the failure: nobody waits for it.
DelayRefused(t) ==
  LET j == task[t] IN
  /\ j.st \in {"refused", "again"} /\ j.landed /\ Retries(j.count)
  /\ Record(j.event, j.hook, j.count, 0)
  /\ task' = [task EXCEPT ![t] = Idle]

\* The counter of the endpoint: updateWebhookEndpointState swallows it.
UpdateRefused(t) ==
  /\ ~task[t].landed
  /\ task' = [task EXCEPT ![t].landed = TRUE, ![t].fails = 0]
  /\ UNCHANGED rows

StoreFails(t) ==
  /\ Happens("storeFail")
  /\ \/ SuccessRefused(t) \/ CountRefused(t) \/ JobDropped(t)
     \/ DelayRefused(t) \/ UpdateRefused(t)
  /\ UNCHANGED <<event, hook, todo, extra>>

\* A statement of handleWebhookEvent: the job in memory was all there was.
EventDropped(e) ==
  /\ event[e].st = "queued" /\ Happens("storeFail")
  /\ event' = [event EXCEPT ![e].st = "lost"]
  /\ UNCHANGED <<hook, rows, task, todo, extra>>

\* The count query of one turn of the forEach.  The rejection is not handled:
\* a busy database is logged, and anything else ends the process (Restart).
TurnDropped(e, w) ==
  /\ w \in event[e].plan /\ Happens("storeFail")
  /\ event' = [event EXCEPT ![e].plan = @ \ {w}]
  /\ UNCHANGED <<hook, rows, task, todo, extra>>
-----------------------------------------------------------------------------
(* The scheduled loop of each queue.  Rows that fell due are marked; the    *)
(* query that follows returns every row this process has marked and nobody  *)
(* has cancelled yet, those that the loop of the other queue has in hand    *)
(* among them.                                                              *)
Fetch(q) ==
  /\ todo[q] = {}
  /\ \E due \in SUBSET {t \in Task : task[t].st = "later"} :
       /\ due # {}
       /\ task' = [t \in Task |-> IF t \in due THEN [task[t] EXCEPT !.st = "marked"]
                                  ELSE task[t]]
       /\ todo' = [todo EXCEPT ![q] =
            {[task |-> t, event |-> task[t].event, hook |-> task[t].hook] :
               t \in due \cup {u \in Task : task[u].st = "marked"}}]
  /\ UNCHANGED <<event, hook, rows, extra, did>>

\* cancel(x.id), push(x.job, x.id, false): first for this row, or after the
\* other loop did the same, and then the job exists twice.
PushDue(q, f, t) ==
  /\ f \in todo[q]
  /\ todo' = [todo EXCEPT ![q] = @ \ {f}]
  /\ IF task[f.task].st = "marked"
       THEN /\ task' = [task EXCEPT ![f.task].st = "queued", ![f.task].queue = q]
            /\ UNCHANGED extra
       ELSE /\ IsPlace(t)
            /\ task' = [task EXCEPT ![t] = NewJob(f.event, f.hook, q, FALSE)]
            /\ extra' = [extra EXCEPT ![f.event] = @ + 1]
  /\ UNCHANGED <<event, hook, rows, did>>
-----------------------------------------------------------------------------
(* Users, and the process *)

\* retryWebhookAttempt: a pending row with retryCount 1 and a persisted job.
Retry(e, w, t) ==
  /\ Happens("manual")
  /\ rows[e][w].last > 0
  /\ IsPlace(t)
  /\ Record(e, w, 1, 0)
  /\ task' = [task EXCEPT ![t] = NewJob(e, w, "api", TRUE)]
  /\ extra' = [extra EXCEPT ![e] = @ + 1]
  /\ UNCHANGED <<event, hook, todo>>

\* updateWebhookEndpoint with a status.
SetStatus(w, status) ==
  /\ Happens("admin")
  /\ hook[w].status # status
  /\ hook' = [hook EXCEPT ![w].status = status]
  /\ UNCHANGED <<event, rows, task, todo, extra>>

\* What is in memory is gone.  Of the rows, those not cancelled are due again,
\* and the persisted job of a user's retry is populated.
Restarted(j) ==
  IF j.st \in {"later", "marked"} THEN [j EXCEPT !.st = "later"]
  ELSE IF j.asked THEN NewJob(j.event, j.hook, j.queue, TRUE)
  ELSE Idle

Rerun(e) == {t \in Tokens(e) : task[t].asked /\ task[t].st \in Running}

Restart ==
  /\ Happens("crash")
  /\ event' = [e \in Event |-> IF event[e].st = "none" THEN event[e]
       ELSE [event[e] EXCEPT !.plan = {},
                             !.st = IF @ = "queued" THEN "lost" ELSE @]]
  /\ task' = [t \in Task |-> Restarted(task[t])]
  /\ extra' = [e \in Event |-> extra[e] + Cardinality(Rerun(e))]
  /\ todo' = [q \in Queue |-> {}]
  /\ UNCHANGED <<hook, rows>>
-----------------------------------------------------------------------------
HandlerStep(t) ==
  \/ Take(t) \/ Look(t) \/ Answer(t) \/ Fail(t)
  \/ SaveSucceeded(t) \/ SaveFailed(t) \/ Settle(t)

\* What the process does by itself: Node runs what is ready, the loops wake every
\* five seconds, a call ends after at most AXIOS_TIMEOUT.  Some of it goes on as
\* long as there is any; nothing makes a user, the store or a crash act.
Progress ==
  \/ \E e \in Event : HandleEvent(e)
  \/ \E e \in Event, w \in Hook, t \in Task : Schedule(e, w, t)
  \/ \E t \in Task : HandlerStep(t) \/ ApplyUpdate(t)
  \/ \E q \in Queue : Fetch(q) \/ \E f \in todo[q], t \in Task : PushDue(q, f, t)

Next ==
  \/ Progress
  \/ \E e \in Event : Accept(e)
  \/ \E e \in Event, w \in UserHook, t \in Task : Retry(e, w, t)
  \/ \E t \in Task : StoreFails(t)
  \/ \E e \in Event : EventDropped(e) \/ \E w \in Hook : TurnDropped(e, w)
  \/ \E w \in UserHook, status \in {"enabled", "disabled"} : SetStatus(w, status)
  \/ Restart

Spec == Init /\ [][Next]_vars
FairSpec == Spec /\ WF_vars(Progress)
-----------------------------------------------------------------------------
(* Properties *)

\* The count of a handled event is never below the number of its endpoints
\* whose attempts are not over, but for attempts begun outside its chains: the
\* stale decrements of queues.js:136 and 186 lose updates only upwards.
PendingCovers ==
  \A e \in Event : event[e].st = "handled" =>
    event[e].pending + extra[e] >= Cardinality(Tokens(e)) + Cardinality(event[e].plan)

\* The four attempts of queues.js:172: a chain passes retryCount MaxRetryCount
\* only by attempts that were begun outside it.
RetryCap ==
  \A e \in Event, w \in Hook : rows[e][w].last <= MaxRetryCount + extra[e]

\* Once an attempt is recorded as succeeded and none of these successes had its
\* count refused by the store (queues.js:137: the catch below it then schedules
\* the answered endpoint again), no job is left that would call the endpoint for
\* that event, unless a user, a restart or the second queue began an attempt.
AnsweredOnce ==
  \A t \in Task :
    task[t].st \in Stages \ {"idle", "saved", "settle"} =>
      LET row == rows[task[t].event][task[t].hook] IN
      row.succeeded > row.uncounted => extra[task[t].event] > 0

\* The service disables an endpoint only after Threshold failed calls to it,
\* whatever counters concurrent attempts had read.
DisabledByFailures ==
  [][\A w \in Hook :
       (hook[w].status = "enabled" /\ hook'[w].status = "disabled" /\ did' = did)
         => hook[w].failed >= Threshold]_vars

\* Without a restart and a statement that the store refuses, each endpoint that
\* an accepted event matches is reached, or all its attempts have failed, or it
\* is disabled.
Reached ==
  \A e \in Event : \A w \in Matches[e] :
    (event[e].st = "queued") ~>
      \/ rows[e][w].succeeded > 0 \/ rows[e][w].last >= MaxRetryCount
      \/ hook[w].status = "disabled" \/ did \cap {"crash", "storeFail"} # {}
=============================================================================
