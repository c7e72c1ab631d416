------------------------------ MODULE JobQueue ------------------------------
(***************************************************************************)
(* The persistent job queue of core/queue (createQueue over fastq) with    *)
(* the table-backed store of store/sequelize.js, as every daemon and       *)
(* service worker of a cluster uses it: durable rows in one shared table,  *)
(* and in each process a fastq instance whose entries are closures made by *)
(* `push`.                                                                 *)
(*                                                                         *)
(* A step is what runs between two awaits.  Each store operation is one    *)
(* statement of the table (getJob and getJobs claim rows and then read     *)
(* back what they claimed, which no other process may change).             *)
(***************************************************************************)
EXTENDS Naturals, FiniteSets, Sequences

CONSTANTS
  Pid,                \* process ids: a restarted process has a new one
  Task,               \* places for closures of push (bounds how many exist at once)
  Job,                \* job ids
  NoPid, NoJob, NoRow,
  Concurrency,        \* options.concurrency
  MaxRetries,         \* options.maxRetries
  EnableScheduledJob, \* options.enableScheduledJob
  Modes,              \* the ways of push in use: persisted, delayed, not persisted
  Api,                \* calls made on the queue besides push
  Env,                \* what the environment may do
  RunCap, LateCap     \* bounds of the two counters of executions

ASSUME QueueAssumption ==
  /\ IsFiniteSet(Task)
  /\ NoPid \notin Pid /\ NoJob \notin Job
  /\ Concurrency \in Nat \ {0}
  /\ MaxRetries \in Nat
  /\ EnableScheduledJob \in BOOLEAN
  /\ Modes \subseteq {"now", "delayed", "volatile"}
  /\ Api \subseteq {"get", "cancel", "restore", "delete"}
  /\ Env \subseteq {"overlap", "crash", "expire", "timeout", "storeFail", "loopFail", "earlyPush"}
  /\ RunCap \in Nat \ {0} /\ LateCap \in Nat

VARIABLES
  proc,   \* the life of each process
  row,    \* the jobs table
  task,   \* closures of push and where each one is
  fifo,   \* fastq's waiting list of each process
  api,    \* the call of cancel, restoreCancelled or delete in progress in a process
  loop,   \* the scheduled-job loop of a process
  late    \* bodies of onJob that go on after tryWithTimeout gave up on them

vars == <<proc, row, task, fifo, api, loop, late>>
-----------------------------------------------------------------------------
States == {"idle", "tick", "wait", "check", "run", "claim", "update", "backoff", "clear"}

Row == [retryCount : Nat, cancelled : BOOLEAN, delay : {"none", "later", "due"},
        by : Pid \cup {NoPid}, fresh : BOOLEAN, ran : 0 .. RunCap]
ASSUME RowAssumption == NoRow \notin Row

Closure == [st : States, pid : Pid \cup {NoPid}, job : Job \cup {NoJob},
            persist : BOOLEAN, seen : Nat]

IdleTask == [st |-> "idle", pid |-> NoPid, job |-> NoJob, persist |-> FALSE, seen |-> 0]
NewTask(p, j, persist) ==
  [st |-> "tick", pid |-> p, job |-> j, persist |-> persist, seen |-> 0]
NewRow(delay) ==
  [retryCount |-> 1, cancelled |-> FALSE, delay |-> delay, by |-> NoPid,
   fresh |-> FALSE, ran |-> 0]
NoCall == [op |-> "none", job |-> NoJob, at |-> "idle"]
LoopAsleep == [todo |-> {}, job |-> NoJob, at |-> "idle"]

TypeOK ==
  /\ proc \in [Pid -> {"new", "starting", "up", "dead"}]
  /\ row \in [Job -> Row \cup {NoRow}]
  /\ task \in [Task -> Closure]
  /\ fifo \in [Pid -> Seq(Task)]
  /\ api \in [Pid -> [op : {"none", "cancel", "restore", "delete"},
                      job : Job \cup {NoJob},
                      at : {"idle", "get", "update", "remove"}]]
  /\ loop \in [Pid -> [todo : SUBSET Job, job : Job \cup {NoJob},
                       at : {"idle", "update", "push"}]]
  /\ late \in [Pid -> [Job -> Nat]]

Live(p) == proc[p] \in {"starting", "up"}
Present(j) == row[j] # NoRow
Active(t) == task[t].st # "idle"
Busy(p) == {t \in Task : task[t].pid = p /\ task[t].st \in {"check", "run"}}

\* (fault) the owner is not looked at
Claimable_AnyOwner(p, j) == Present(j)

\* A row that no other process holds: unclaimed, one's own, or claimed more
\* than timeoutMs ago (`fresh` is processingAt >= now - timeoutMs).
Claimable(p, j) == Present(j) /\ (row[j].by = p \/ ~row[j].fresh)
\* (fault) a claim rewrites the whole row
Claimed_NewRow(p, r) == [NewRow(r.delay) EXCEPT !.by = p, !.fresh = TRUE]
Claimed(p, r) == [r EXCEPT !.by = p, !.fresh = TRUE]

ClaimRow(p, j) ==
  row' = IF Claimable(p, j) THEN [row EXCEPT ![j] = Claimed(p, @)] ELSE row

\* _getAndMarkJobs over the candidate rows C: what it marks, what it returns.
\* (fault) rows that another process holds are taken too
Marked_All(C) == C
Marked(C) == {j \in C : ~row[j].fresh}
Fetched(p, C) ==
  IF Marked(C) = {} THEN {} ELSE Marked(C) \cup {j \in C : row[j].by = p}
MarkRows(p, C) ==
  row' = [j \in Job |-> IF j \in Marked(C) THEN Claimed(p, row[j]) ELSE row[j]]
-----------------------------------------------------------------------------
(* fastq: a free slot takes the entry at once, otherwise it waits. *)
Free(p) == Cardinality(Busy(p)) < Concurrency

Enqueue(t, closure, line) ==
  LET p == closure.pid IN
  IF Free(p)
    THEN /\ task' = [task EXCEPT ![t] = [closure EXCEPT !.st = "check"]]
         /\ UNCHANGED fifo
    ELSE /\ task' = [task EXCEPT ![t] = [closure EXCEPT !.st = "wait"]]
         /\ fifo' = [fifo EXCEPT ![p] = line]

\* The worker's callback: onJobComplete starts on its first store call `next`
\* and the entry at the head of the list takes the slot.
Release(t, next) ==
  LET p == task[t].pid IN
  IF fifo[p] = <<>>
    THEN /\ task' = [task EXCEPT ![t].st = next]
         /\ UNCHANGED fifo
    ELSE /\ task' = [task EXCEPT ![t].st = next, ![Head(fifo[p])].st = "check"]
         /\ fifo' = [fifo EXCEPT ![p] = Tail(@)]

Forget(t) == task' = [task EXCEPT ![t] = IdleTask]
MoveTo(t, st) == task' = [task EXCEPT ![t].st = st]
-----------------------------------------------------------------------------
(* Processes *)
Start(p) ==
  /\ proc[p] = "new"
  /\ "overlap" \in Env \/ \A q \in Pid : ~Live(q)
  /\ proc' = [proc EXCEPT ![p] = "starting"]
  /\ UNCHANGED <<row, task, fifo, api, loop, late>>

\* "Populate the queue on startup": every job got is pushed with persist = false.
Populate(p) ==
  LET C == {j \in Job : Present(j) /\ row[j].delay = "none"} IN
  /\ proc[p] = "starting"
  /\ \E got \in [Task -> Fetched(p, C) \cup {NoJob}] :
       /\ \A j \in Fetched(p, C) : \E t \in Task : got[t] = j
       /\ \A t, u \in Task : got[t] = got[u] /\ t # u => got[t] = NoJob
       /\ \A t \in Task : got[t] # NoJob => ~Active(t)
       /\ task' = [t \in Task |->
                     IF got[t] = NoJob THEN task[t] ELSE NewTask(p, got[t], FALSE)]
  /\ MarkRows(p, C)
  /\ proc' = [proc EXCEPT ![p] = "up"]
  /\ UNCHANGED <<fifo, api, loop, late>>

PopulateFails(p) ==
  /\ "storeFail" \in Env
  /\ proc[p] = "starting"
  /\ proc' = [proc EXCEPT ![p] = "up"]
  /\ UNCHANGED <<row, task, fifo, api, loop, late>>

Crash(p) ==
  /\ "crash" \in Env
  /\ Live(p)
  /\ proc' = [proc EXCEPT ![p] = "dead"]
  /\ task' = [t \in Task |-> IF task[t].pid = p THEN IdleTask ELSE task[t]]
  /\ fifo' = [fifo EXCEPT ![p] = <<>>]
  /\ api' = [api EXCEPT ![p] = NoCall]
  /\ loop' = [loop EXCEPT ![p] = LoopAsleep]
  /\ late' = [late EXCEPT ![p] = [j \in Job |-> 0]]
  /\ UNCHANGED row
-----------------------------------------------------------------------------
(* push.  A duplicate id is refused by addJob and leaves nothing behind. *)
CanPush(p) == proc[p] = "up" \/ (proc[p] = "starting" /\ "earlyPush" \in Env)

\* (fault) addJob does not look for the id
Push_NoDuplicateCheck(p, t, j) ==
  /\ "now" \in Modes
  /\ CanPush(p) /\ ~Active(t)
  /\ row' = [row EXCEPT ![j] = NewRow("none")]
  /\ task' = [task EXCEPT ![t] = NewTask(p, j, TRUE)]
  /\ UNCHANGED <<proc, fifo, api, loop, late>>

Push(p, t, j) ==
  /\ "now" \in Modes
  /\ CanPush(p) /\ ~Active(t)
  /\ ~Present(j)
  /\ row' = [row EXCEPT ![j] = NewRow("none")]
  /\ task' = [task EXCEPT ![t] = NewTask(p, j, TRUE)]
  /\ UNCHANGED <<proc, fifo, api, loop, late>>

PushDelayed(p, j) ==
  /\ EnableScheduledJob /\ "delayed" \in Modes
  /\ CanPush(p)
  /\ ~Present(j)
  /\ row' = [row EXCEPT ![j] = NewRow("later")]
  /\ UNCHANGED <<proc, task, fifo, api, loop, late>>

PushVolatile(p, t, j) ==
  /\ "volatile" \in Modes
  /\ CanPush(p) /\ ~Active(t)
  /\ task' = [task EXCEPT ![t] = NewTask(p, j, FALSE)]
  /\ UNCHANGED <<proc, row, fifo, api, loop, late>>

\* queueJob: setImmediate, then queue.push.
QueueJob(t) ==
  /\ task[t].st = "tick"
  /\ Enqueue(t, task[t], Append(fifo[task[t].pid], t))
  /\ UNCHANGED <<proc, row, api, loop, late>>
-----------------------------------------------------------------------------
(* The worker function of an entry that holds a slot. *)
\* (fault) isCancelled answers whether the row is there
StoredCancel_AnyRow(t) == task[t].persist /\ Present(task[t].job)

StoredCancel(t) ==
  task[t].persist /\ Present(task[t].job) /\ row[task[t].job].cancelled

CheckCancelled(t) ==
  /\ task[t].st = "check"
  /\ StoredCancel(t)
  /\ Release(t, "clear")
  /\ UNCHANGED <<proc, row, api, loop, late>>

CheckFails(t) ==
  /\ "storeFail" \in Env
  /\ task[t].st = "check" /\ task[t].persist
  /\ Release(t, "claim")
  /\ UNCHANGED <<proc, row, api, loop, late>>

\* `ran` counts the executions since the row was inserted (an auxiliary count).
CountRun(j) ==
  row' = IF Present(j) /\ row[j].ran < RunCap THEN [row EXCEPT ![j].ran = @ + 1] ELSE row

Begin(t) ==
  /\ task[t].st = "check"
  /\ ~StoredCancel(t)
  /\ CountRun(task[t].job)
  /\ MoveTo(t, "run")
  /\ UNCHANGED <<proc, fifo, api, loop, late>>

Succeed(t) ==
  /\ task[t].st = "run"
  /\ Release(t, "clear")
  /\ UNCHANGED <<proc, row, api, loop, late>>

\* (fault) the worker's callback is not called
Fail_NoCallback(t) ==
  /\ task[t].st = "run"
  /\ MoveTo(t, "claim")
  /\ UNCHANGED <<proc, row, fifo, api, loop, late>>

Fail(t) ==
  /\ task[t].st = "run"
  /\ Release(t, "claim")
  /\ UNCHANGED <<proc, row, api, loop, late>>

\* tryWithTimeout rejects, and the body of onJob goes on.
TimeOut(t) ==
  /\ "timeout" \in Env
  /\ task[t].st = "run"
  /\ late[task[t].pid][task[t].job] < LateCap
  /\ late' = [late EXCEPT ![task[t].pid][task[t].job] = @ + 1]
  /\ Release(t, "claim")
  /\ UNCHANGED <<proc, row, api, loop>>

LateEnd(p, j) ==
  /\ late[p][j] > 0
  /\ late' = [late EXCEPT ![p][j] = @ - 1]
  /\ UNCHANGED <<proc, row, task, fifo, api, loop>>
-----------------------------------------------------------------------------
(* onJobComplete *)
\* deleteJob asks nobody whose row it is.
Clear(t) ==
  /\ task[t].st = "clear"
  /\ row' = [row EXCEPT ![task[t].job] = NoRow]
  /\ Forget(t)
  /\ UNCHANGED <<proc, fifo, api, loop, late>>

\* (fault) nobody catches what clearJob throws
ClearFails_Unhandled(t) ==
  /\ "storeFail" \in Env
  /\ task[t].st = "clear"
  /\ MoveTo(t, "thrown")
  /\ UNCHANGED <<proc, row, fifo, api, loop, late>>

ClearFails(t) ==
  /\ "storeFail" \in Env
  /\ task[t].st = "clear"
  /\ Forget(t)
  /\ UNCHANGED <<proc, row, fifo, api, loop, late>>

\* (fault) any failure is reported as final, the row left behind
Disown_Always(t) ==
  /\ task[t].st = "claim"
  /\ Forget(t)
  /\ UNCHANGED <<proc, row, fifo, api, loop, late>>

\* getJob returned nothing: 'failed' is emitted and the row is left as it is.
Disown(t) ==
  /\ task[t].st = "claim"
  /\ ~Claimable(task[t].pid, task[t].job)
  /\ Forget(t)
  /\ UNCHANGED <<proc, row, fifo, api, loop, late>>

\* (fault) the last failure does not clear the job
GiveUp_KeepsRow(t) ==
  /\ task[t].st = "claim"
  /\ Claimable(task[t].pid, task[t].job)
  /\ row[task[t].job].retryCount >= MaxRetries
  /\ ClaimRow(task[t].pid, task[t].job)
  /\ Forget(t)
  /\ UNCHANGED <<proc, fifo, api, loop, late>>

GiveUp(t) ==
  /\ task[t].st = "claim"
  /\ Claimable(task[t].pid, task[t].job)
  /\ row[task[t].job].retryCount >= MaxRetries
  /\ ClaimRow(task[t].pid, task[t].job)
  /\ MoveTo(t, "clear")
  /\ UNCHANGED <<proc, fifo, api, loop, late>>

\* (fault) one retry too many
PlanRetry_OffByOne(t) ==
  LET j == task[t].job IN
  /\ task[t].st = "claim"
  /\ Claimable(task[t].pid, j)
  /\ row[j].retryCount <= MaxRetries
  /\ ClaimRow(task[t].pid, j)
  /\ task' = [task EXCEPT ![t].st = "update", ![t].seen = row[j].retryCount]
  /\ UNCHANGED <<proc, fifo, api, loop, late>>

PlanRetry(t) ==
  LET j == task[t].job IN
  /\ task[t].st = "claim"
  /\ Claimable(task[t].pid, j)
  /\ row[j].retryCount < MaxRetries
  /\ ClaimRow(task[t].pid, j)
  /\ task' = [task EXCEPT ![t].st = "update", ![t].seen = row[j].retryCount]
  /\ UNCHANGED <<proc, fifo, api, loop, late>>

\* (fault) the attempt is not counted
SaveRetry_NotCounted(t) ==
  LET p == task[t].pid
      j == task[t].job IN
  /\ task[t].st = "update"
  /\ Claimable(p, j)
  /\ row' = [row EXCEPT ![j] = [Claimed(p, @) EXCEPT !.retryCount = task[t].seen]]
  /\ task' = [task EXCEPT ![t].st = "backoff", ![t].seen = 0]
  /\ UNCHANGED <<proc, fifo, api, loop, late>>

\* updateJob with the count read before, then setTimeout.
SaveRetry(t) ==
  LET p == task[t].pid
      j == task[t].job IN
  /\ task[t].st = "update"
  /\ Claimable(p, j)
  /\ row' = [row EXCEPT ![j] = [Claimed(p, @) EXCEPT !.retryCount = task[t].seen + 1]]
  /\ task' = [task EXCEPT ![t].st = "backoff", ![t].seen = 0]
  /\ UNCHANGED <<proc, fifo, api, loop, late>>

\* updateJob throws: the catch clears the job.
SaveRetryRefused(t) ==
  /\ task[t].st = "update"
  /\ ~Claimable(task[t].pid, task[t].job)
  /\ MoveTo(t, "clear")
  /\ UNCHANGED <<proc, row, fifo, api, loop, late>>

CompleteFails(t) ==
  /\ "storeFail" \in Env
  /\ task[t].st \in {"claim", "update"}
  /\ MoveTo(t, "clear")
  /\ UNCHANGED <<proc, row, fifo, api, loop, late>>

\* The retry goes to the head of the list, and without its `persist` flag.
Retry(t) ==
  /\ task[t].st = "backoff"
  /\ Enqueue(t, [task[t] EXCEPT !.persist = FALSE], <<t>> \o fifo[task[t].pid])
  /\ UNCHANGED <<proc, row, api, loop, late>>
-----------------------------------------------------------------------------
(* get, cancel, restoreCancelled and delete, one call at a time per process. *)
\* get answers from getJob, which claims the row it reads.
GetJob(p, j) ==
  /\ "get" \in Api /\ Live(p)
  /\ Claimable(p, j)
  /\ ClaimRow(p, j)
  /\ UNCHANGED <<proc, task, fifo, api, loop, late>>

\* The first getJob found the row: cancel and restoreCancelled go on to
\* updateJob, delete to the getJob of the cancel it calls.
ApiCall(p, op, j) ==
  /\ op \in Api /\ Live(p) /\ api[p] = NoCall
  /\ Claimable(p, j)
  /\ ClaimRow(p, j)
  /\ api' = [api EXCEPT ![p] = [op |-> op, job |-> j,
                                at |-> IF op = "delete" THEN "get" ELSE "update"]]
  /\ UNCHANGED <<proc, task, fifo, loop, late>>

DeleteGet(p) ==
  /\ api[p].at = "get"
  /\ ClaimRow(p, api[p].job)
  /\ api' = [api EXCEPT ![p].at =
               IF Claimable(p, api[p].job) THEN "update" ELSE "remove"]
  /\ UNCHANGED <<proc, task, fifo, loop, late>>

\* (fault) updateJob without the owner condition
SetCancelled_AnyOwner(p, j, flag) ==
  row' = IF Present(j)
           THEN [row EXCEPT ![j] = [Claimed(p, @) EXCEPT !.cancelled = flag]]
           ELSE row

SetCancelled(p, j, flag) ==
  row' = IF Claimable(p, j)
           THEN [row EXCEPT ![j] = [Claimed(p, @) EXCEPT !.cancelled = flag]]
           ELSE row

\* When updateJob throws, the call rejects.
ApiUpdate(p) ==
  LET j == api[p].job IN
  /\ api[p].at = "update"
  /\ SetCancelled(p, j, api[p].op # "restore")
  /\ api' = IF api[p].op = "delete" /\ Claimable(p, j)
              THEN [api EXCEPT ![p].at = "remove"]
              ELSE [api EXCEPT ![p] = NoCall]
  /\ UNCHANGED <<proc, task, fifo, loop, late>>

ApiRemove(p) ==
  /\ api[p].at = "remove"
  /\ row' = [row EXCEPT ![api[p].job] = NoRow]
  /\ api' = [api EXCEPT ![p] = NoCall]
  /\ UNCHANGED <<proc, task, fifo, loop, late>>

\* A store call throws: the call rejects, what it wrote so far stays.
ApiFails(p) ==
  /\ "storeFail" \in Env
  /\ api[p].at # "idle"
  /\ api' = [api EXCEPT ![p] = NoCall]
  /\ UNCHANGED <<proc, row, task, fifo, loop, late>>
-----------------------------------------------------------------------------
(* The scheduled-job loop: fetch the due rows, then cancel and push each. *)
FallDue(j) ==
  /\ Present(j) /\ row[j].delay = "later"
  /\ row' = [row EXCEPT ![j].delay = "due"]
  /\ UNCHANGED <<proc, task, fifo, api, loop, late>>

Scan(p) ==
  LET C == {j \in Job : Present(j) /\ row[j].delay = "due" /\ ~row[j].cancelled} IN
  /\ EnableScheduledJob
  /\ Live(p) /\ loop[p] = LoopAsleep
  /\ Marked(C) # {}
  /\ MarkRows(p, C)
  /\ loop' = [loop EXCEPT ![p].todo = Fetched(p, C)]
  /\ UNCHANGED <<proc, task, fifo, api, late>>

\* cancel's getJob: nothing found ends the cancel, not the push after it.
LoopCancel(p, j) ==
  /\ loop[p].at = "idle" /\ j \in loop[p].todo
  /\ ClaimRow(p, j)
  /\ loop' = [loop EXCEPT ![p].job = j,
                          ![p].at = IF Claimable(p, j) THEN "update" ELSE "push"]
  /\ UNCHANGED <<proc, task, fifo, api, late>>

\* (fault) a job that was just cancelled is skipped
LoopUpdate_Skips(p) ==
  LET j == loop[p].job IN
  /\ loop[p].at = "update"
  /\ SetCancelled(p, j, TRUE)
  /\ loop' = [loop EXCEPT ![p] = [LoopAsleep EXCEPT !.todo = loop[p].todo \ {j}]]
  /\ UNCHANGED <<proc, task, fifo, api, late>>

\* cancel's updateJob: when it throws, the rest of the batch is dropped.
LoopUpdate(p) ==
  LET j == loop[p].job IN
  /\ loop[p].at = "update"
  /\ SetCancelled(p, j, TRUE)
  /\ loop' = IF Claimable(p, j) THEN [loop EXCEPT ![p].at = "push"]
                                ELSE [loop EXCEPT ![p] = LoopAsleep]
  /\ UNCHANGED <<proc, task, fifo, api, late>>

LoopPush(p, t) ==
  /\ loop[p].at = "push" /\ ~Active(t)
  /\ task' = [task EXCEPT ![t] = NewTask(p, loop[p].job, FALSE)]
  /\ loop' = [loop EXCEPT ![p].todo = @ \ {loop[p].job},
                          ![p].job = NoJob, ![p].at = "idle"]
  /\ UNCHANGED <<proc, row, fifo, api, late>>

\* A store call of the pass throws, before its statement (and nothing of it is
\* stored) or in the read after it: the catch ends the pass, and the jobs it had
\* fetched and not yet pushed stay claimed, the one in hand perhaps cancelled.
LoopFails(p) ==
  /\ "loopFail" \in Env
  /\ loop[p] # LoopAsleep
  /\ loop' = [loop EXCEPT ![p] = LoopAsleep]
  /\ UNCHANGED <<proc, row, task, fifo, api, late>>

\* timeoutMs pass without the owner touching the row.
Expire(j) ==
  /\ "expire" \in Env
  /\ Present(j) /\ row[j].fresh
  /\ row' = [row EXCEPT ![j].fresh = FALSE]
  /\ UNCHANGED <<proc, task, fifo, api, loop, late>>
-----------------------------------------------------------------------------
Init ==
  /\ proc = [p \in Pid |-> "new"]
  /\ row = [j \in Job |-> NoRow]
  /\ task = [t \in Task |-> IdleTask]
  /\ fifo = [p \in Pid |-> <<>>]
  /\ api = [p \in Pid |-> NoCall]
  /\ loop = [p \in Pid |-> LoopAsleep]
  /\ late = [p \in Pid |-> [j \in Job |-> 0]]

ProcessStep(p) == Start(p) \/ Populate(p) \/ PopulateFails(p) \/ Crash(p)

PushStep(p) ==
  \E j \in Job : \/ PushDelayed(p, j)
                 \/ \E t \in Task : Push(p, t, j) \/ PushVolatile(p, t, j)

WorkerStep(t) ==
  \/ QueueJob(t) \/ CheckCancelled(t) \/ CheckFails(t) \/ Begin(t)
  \/ Succeed(t) \/ Fail(t) \/ TimeOut(t)

CompleteStep(t) ==
  \/ Clear(t) \/ ClearFails(t) \/ Disown(t) \/ GiveUp(t) \/ PlanRetry(t)
  \/ SaveRetry(t) \/ SaveRetryRefused(t) \/ CompleteFails(t) \/ Retry(t)

ApiStep(p) ==
  \/ \E j \in Job : GetJob(p, j) \/ \E op \in {"cancel", "restore", "delete"} : ApiCall(p, op, j)
  \/ DeleteGet(p) \/ ApiUpdate(p) \/ ApiRemove(p) \/ ApiFails(p)

LoopStep(p) ==
  \/ Scan(p) \/ LoopUpdate(p) \/ LoopFails(p)
  \/ \E j \in Job : LoopCancel(p, j)
  \/ \E t \in Task : LoopPush(p, t)

TimeStep == \/ \E j \in Job : FallDue(j) \/ Expire(j)
            \/ \E p \in Pid, j \in Job : LateEnd(p, j)

Next ==
  \/ \E p \in Pid : ProcessStep(p) \/ PushStep(p) \/ ApiStep(p) \/ LoopStep(p)
  \/ \E t \in Task : WorkerStep(t) \/ CompleteStep(t)
  \/ TimeStep

Spec == Init /\ [][Next]_vars
-----------------------------------------------------------------------------
(* What the event loop and the timers of a live process guarantee: promises
   settle, setImmediate and setTimeout fire, tryWithTimeout ends every slot,
   a scheduled time comes, a claim left alone expires, the loop wakes up. *)
Fairness ==
  /\ \A p \in Pid : /\ WF_vars(Populate(p))
                    /\ WF_vars(LoopStep(p))
                    /\ WF_vars(DeleteGet(p) \/ ApiUpdate(p) \/ ApiRemove(p))
  /\ \A t \in Task : /\ WF_vars(WorkerStep(t))
                     /\ WF_vars(CompleteStep(t))
  /\ \A j \in Job : WF_vars(FallDue(j)) /\ WF_vars(Expire(j))

FairSpec == Spec /\ Fairness
-----------------------------------------------------------------------------
(* Properties *)

\* fastq never gives out more slots than options.concurrency, and leaves none
\* unused while an entry waits (index.js:87-115).
SlotsUsed ==
  \A p \in Pid : /\ Cardinality(Busy(p)) <= Concurrency
                 /\ fifo[p] # <<>> => Cardinality(Busy(p)) = Concurrency

\* However the reads and the writes of retryCount interleave, the count of a
\* row never passes maxRetries (index.js:201-208).
RetryBounded ==
  \A j \in Job : Present(j) => row[j].retryCount <= (IF MaxRetries = 0 THEN 1 ELSE MaxRetries)

Bodies(j) == {t \in Task : task[t].st = "run" /\ task[t].job = j}

\* Two executions of one job never overlap, in one process or in two.
NoOverlap ==
  \A j \in Job : /\ Cardinality(Bodies(j)) <= 1
                 /\ \A p \in Pid : late[p][j] > 0 => Bodies(j) = {}

Dead == {p \in Pid : proc[p] = "dead"}
Deaths == Cardinality(Dead)

\* A job is started at most maxRetries times (once if that is 0), and once more
\* for every process that died with it.
RunBound ==
  \A j \in Job : Present(j) =>
    row[j].ran <= (IF MaxRetries = 0 THEN 1 ELSE MaxRetries) + Deaths

\* A row leaves the table only after its job was executed at least once, or
\* after its cancellation: no completion removes a job nobody has run.
AtLeastOnce ==
  [][\A j \in Job : Present(j) /\ row'[j] = NoRow => row[j].ran > 0 \/ row[j].cancelled]_vars

\* Within the 60 s of a claim no other process takes the row over: only its
\* deletion ends the claim early (sequelize.js:17-127).
ClaimRespected ==
  [][\A j \in Job : Present(j) /\ row[j].fresh /\ row'[j] # NoRow => row'[j].by = row[j].by]_vars

Carries(p, j) == \E t \in Task : task[t].pid = p /\ task[t].job = j

\* A job that a live process has claimed is in that process's hands: some
\* closure of it will finish, retry or give up the job.
ClaimCarried ==
  \A j \in Job : \A p \in Pid :
    Present(j) /\ row[j].delay = "none" /\ row[j].by = p /\ Live(p) => Carries(p, j)

\* While no process has died, every job of the table that is not scheduled is
\* in the hands of some process.
NoOrphan ==
  (\A p \in Pid : proc[p] # "dead") =>
    \A j \in Job : Present(j) /\ row[j].delay = "none" => \E p \in Pid : Carries(p, j)

\* A retry count never goes back while the row stays: no attempt is forgotten.
RetryMonotone ==
  [][\A j \in Job : Present(j) /\ row'[j] # NoRow => row'[j].retryCount >= row[j].retryCount]_vars

\* A scheduled job is taken into memory by one closure of one process only.
ScheduledOnce ==
  \A j \in Job : Present(j) /\ row[j].delay # "none" =>
    Cardinality({t \in Task : task[t].job = j}) <= 1

\* A job in the table is executed, cancelled or given up in the end, and its
\* row removed.
EveryJobSettles == \A j \in Job : Present(j) ~> ~Present(j)

\* What the table and the memory of the processes mean to those who push jobs.
LedgerState ==
  [j \in Job |-> IF ~Present(j) THEN "absent" ELSE IF Bodies(j) # {} THEN "running" ELSE "pending"]
LedgerRuns == [j \in Job |-> IF Present(j) THEN row[j].ran ELSE 0]
LedgerWithdrawn == [j \in Job |-> IF Present(j) THEN row[j].cancelled ELSE FALSE]

Ledger == INSTANCE JobLedger WITH
  Attempts <- IF MaxRetries = 0 THEN 1 ELSE MaxRetries, Cap <- RunCap,
  state <- LedgerState, runs <- LedgerRuns, withdrawn <- LedgerWithdrawn, deaths <- Deaths

\* With one process at a time, the queue keeps the promise of JobLedger: each job
\* accepted goes through executions that never overlap and are bounded, and is
\* removed only after one of them or its cancellation (index.js:117-258).
LedgerSpec == Ledger!Spec
=============================================================================
