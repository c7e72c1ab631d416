------------------------ MODULE JobQueueSafetyProofs ------------------------
(***************************************************************************)
(* What the jobs of JobQueue can rely on: which process has a job in hand, *)
(* how often it is run, when its row may go.  Each result is proved for    *)
(* every number of processes, jobs and closures under the assumption on    *)
(* the queue's users and surroundings that its name stands for.            *)
(***************************************************************************)
EXTENDS JobQueueProofs

(* How the closures move: one step takes one closure on, and at most one    *)
(* that waited gets the slot that was released.                             *)
Stands(u) ==
  /\ task'[u].pid = task[u].pid /\ task'[u].job = task[u].job
  /\ task'[u].seen = task[u].seen
  /\ task'[u] = task[u] \/ (task[u].st = "wait" /\ task'[u].st = "check")

Moved(t, next) ==
  /\ task'[t].st \in next
  /\ task'[t].pid = task[t].pid /\ task'[t].job = task[t].job
  /\ \A u \in Task \ {t} : Stands(u)

\* The closure is no more, the others stand.
Gone(t) == task'[t] = IdleTask /\ \A u \in Task \ {t} : task'[u] = task[u]

\* A place that was free has a new closure, the others stand.
Begun(t, p, j) ==
  /\ ~Active(t) /\ task'[t].st = "tick" /\ task'[t].pid = p /\ task'[t].job = j
  /\ \A u \in Task \ {t} : task'[u] = task[u]

LEMMA MoveToMoves ==
  ASSUME TypeOK, NEW t \in Task, NEW st \in States, MoveTo(t, st)
  PROVE  Moved(t, {st})
<1>1. task[t] \in Closure /\ task \in [Task -> Closure]
  BY DEF TypeOK
<1>2. \A u \in Task : task'[u] = IF u = t THEN [task[t] EXCEPT !.st = st] ELSE task[u]
  BY <1>1, SMT DEF MoveTo
<1>3. /\ [task[t] EXCEPT !.st = st].st = st
      /\ [task[t] EXCEPT !.st = st].pid = task[t].pid
      /\ [task[t] EXCEPT !.st = st].job = task[t].job
  BY <1>1, SMT DEF Closure
<1>. QED  BY <1>2, <1>3, Zenon DEF Moved, Stands

LEMMA ForgetGoes ==
  ASSUME TypeOK, NEW t \in Task, Forget(t)
  PROVE  Gone(t)
BY SMT DEF TypeOK, Forget, Gone

LEMMA NewBegins ==
  ASSUME TypeOK, NEW t \in Task, NEW p, NEW j, NEW b, ~Active(t),
         task' = [task EXCEPT ![t] = NewTask(p, j, b)]
  PROVE  Begun(t, p, j)
<1>1. \A u \in Task : task'[u] = IF u = t THEN NewTask(p, j, b) ELSE task[u]
  BY SMT DEF TypeOK
<1>2. NewTask(p, j, b).st = "tick" /\ NewTask(p, j, b).pid = p /\ NewTask(p, j, b).job = j
  BY DEF NewTask
<1>. QED  BY <1>1, <1>2, Zenon DEF Begun

LEMMA EnqueueMoves ==
  ASSUME TypeOK, NEW t \in Task, NEW c \in Closure, NEW line,
         c.pid = task[t].pid, c.job = task[t].job, Enqueue(t, c, line)
  PROVE  Moved(t, {"check", "wait"})
<1>1. /\ \A st \in States : [c EXCEPT !.st = st].st = st /\ [c EXCEPT !.st = st].pid = c.pid
                            /\ [c EXCEPT !.st = st].job = c.job
  BY SMT DEF Closure
<1>2. PICK st \in {"check", "wait"} : task' = [task EXCEPT ![t] = [c EXCEPT !.st = st]]
  BY Zenon DEF Enqueue
<1>3. \A u \in Task : task'[u] = IF u = t THEN [c EXCEPT !.st = st] ELSE task[u]
  BY <1>2, SMT DEF TypeOK
<1>4. st \in States
  BY <1>2 DEF States
<1>. QED  BY <1>1, <1>2, <1>3, <1>4, Zenon DEF Moved, Stands

LEMMA ReleaseMoves ==
  ASSUME Inv, NEW t \in Task, Seated(task[t]), NEW next \in {"clear", "claim"}, Release(t, next)
  PROVE  Moved(t, {next})
<1>1. /\ task \in [Task -> Closure] /\ fifo \in [Pid -> Seq(Task)] /\ next \in States
      /\ task[t].pid \in Pid /\ TypeOK
  BY DEF Inv, TypeOK, Shape, TaskOwned, Active, Seated, States
<1>2. CASE fifo[task[t].pid] = <<>>
  BY <1>1, <1>2, MoveToMoves, Zenon DEF Release, MoveTo
<1>3. CASE fifo[task[t].pid] # <<>>
  <2>1. /\ Head(fifo[task[t].pid]) \in Task
        /\ task[Head(fifo[task[t].pid])].st = "wait"
    <3>1. /\ Head(fifo[task[t].pid]) = fifo[task[t].pid][1]
          /\ fifo[task[t].pid][1] \in Task /\ 1 \in 1 .. Len(fifo[task[t].pid])
      BY <1>1, <1>3, SMT
    <3>2. task[fifo[task[t].pid][1]].st = "wait"
      BY <1>1, <3>1 DEF Inv, Shape, QueueShape
    <3>. QED  BY <3>1, <3>2, Zenon
  <2>2. PICK h \in Task : h = Head(fifo[task[t].pid])
    BY <2>1, Zenon
  <2>3. h # t
    BY <2>1, <2>2 DEF Seated
  <2>4. task' = [task EXCEPT ![t].st = next, ![h].st = "check"]
    BY <1>3, <2>2, Zenon DEF Release
  <2>5. \A u \in Task : task'[u] = IF u = h THEN [task[h] EXCEPT !.st = "check"]
                                   ELSE IF u = t THEN [task[t] EXCEPT !.st = next] ELSE task[u]
    BY <1>1, <2>3, <2>4, SMT
  <2>6. /\ task'[t].st = next /\ task'[t].pid = task[t].pid /\ task'[t].job = task[t].job
    <3>1. task'[t] = [task[t] EXCEPT !.st = next]
      BY <2>3, <2>5, Zenon
    <3>2. task[t] \in Closure
      BY <1>1
    <3>. QED  BY <1>1, <3>1, <3>2, SMT DEF Closure
  <2>7. \A u \in Task \ {t} : Stands(u)
    <3>1. \A u \in Task \ {t, h} : task'[u] = task[u]
      BY <2>5, Zenon
    <3>2. task'[h] = [task[h] EXCEPT !.st = "check"] /\ task[h].st = "wait"
      BY <2>1, <2>2, <2>5, Zenon
    <3>3. task[h] \in Closure /\ "check" \in States
      BY <1>1 DEF States
    <3>4. /\ task'[h].pid = task[h].pid /\ task'[h].job = task[h].job
          /\ task'[h].seen = task[h].seen /\ task'[h].st = "check"
      BY <3>2, <3>3, SMT DEF Closure
    <3>5. Stands(h)
      BY <3>2, <3>4, Zenon DEF Stands
    <3>. QED  BY <3>1, <3>5, Zenon DEF Stands
  <2>. QED  BY <2>6, <2>7, Zenon DEF Moved
<1>. QED  BY <1>2, <1>3

\* What the steps of the worker function do.
LEMMA WorkerMoves ==
  ASSUME Inv, NEW t \in Task, WorkerStep(t)
  PROVE  /\ UNCHANGED <<proc, api, loop>>
         /\ Active(t) /\ task[t].pid \in Pid /\ task[t].job \in Job
         /\ \/ row' = row /\ task[t].st = "tick" /\ Moved(t, {"check", "wait"})
            \/ row' = row /\ task[t].st = "check" /\ StoredCancel(t) /\ Moved(t, {"clear"})
            \/ row' = row /\ task[t].st = "check" /\ "storeFail" \in Env /\ Moved(t, {"claim"})
            \/ CountRun(task[t].job) /\ task[t].st = "check" /\ Moved(t, {"run"})
            \/ row' = row /\ task[t].st = "run" /\ Moved(t, {"clear", "claim"})
<1>1. task[t].st \in {"tick", "check", "run"} /\ UNCHANGED <<proc, api, loop>>
  BY Zenon DEF WorkerStep, QueueJob, CheckCancelled, CheckFails, Begin, Succeed, Fail, TimeOut
<1>2. Active(t) /\ TypeOK /\ task[t] \in Closure
  BY <1>1 DEF Active, Inv, TypeOK
<1>3. task[t].pid \in Pid /\ task[t].job \in Job
  BY <1>2 DEF Inv, Shape, TaskOwned
<1>4. CASE QueueJob(t)
  <2>1. Moved(t, {"check", "wait"})
    BY <1>2, <1>4, EnqueueMoves, Zenon DEF QueueJob
  <2>. QED  BY <1>1, <1>2, <1>3, <1>4, <2>1, Zenon DEF QueueJob
<1>5. CASE CheckCancelled(t)
  <2>1. Moved(t, {"clear"})
    BY <1>5, ReleaseMoves DEF CheckCancelled, Seated
  <2>. QED  BY <1>1, <1>2, <1>3, <1>5, <2>1, Zenon DEF CheckCancelled
<1>6. CASE CheckFails(t)
  <2>1. Moved(t, {"claim"})
    BY <1>6, ReleaseMoves DEF CheckFails, Seated
  <2>. QED  BY <1>1, <1>2, <1>3, <1>6, <2>1, Zenon DEF CheckFails
<1>7. CASE Begin(t)
  <2>1. Moved(t, {"run"})
    BY <1>2, <1>7, MoveToMoves DEF Begin, States
  <2>. QED  BY <1>1, <1>2, <1>3, <1>7, <2>1, Zenon DEF Begin
<1>8. CASE Succeed(t)
  <2>1. Moved(t, {"clear"})
    BY <1>8, ReleaseMoves DEF Succeed, Seated
  <2>. QED  BY <1>1, <1>2, <1>3, <1>8, <2>1, Zenon DEF Succeed, Moved
<1>9. CASE Fail(t) \/ TimeOut(t)
  <2>1. Moved(t, {"claim"}) /\ task[t].st = "run" /\ row' = row
    BY <1>9, ReleaseMoves DEF Fail, TimeOut, Seated
  <2>. QED  BY <1>1, <1>2, <1>3, <2>1, Zenon DEF Moved
<1>. QED  BY <1>4, <1>5, <1>6, <1>7, <1>8, <1>9 DEF WorkerStep

\* What the steps of onJobComplete do.
LEMMA CompleteMoves ==
  ASSUME Inv, NEW t \in Task, CompleteStep(t)
  PROVE  /\ UNCHANGED <<proc, api, loop, late>>
         /\ Active(t) /\ task[t].pid \in Pid /\ task[t].job \in Job
         /\ \/ Clear(t) /\ Gone(t)
            \/ ClearFails(t) /\ Gone(t)
            \/ Disown(t) /\ Gone(t)
            \/ GiveUp(t) /\ Moved(t, {"clear"})
            \/ /\ PlanRetry(t) /\ Moved(t, {"update"})
               /\ task'[t].seen = row[task[t].job].retryCount
            \/ SaveRetry(t) /\ Moved(t, {"backoff"})
            \/ SaveRetryRefused(t) /\ Moved(t, {"clear"})
            \/ CompleteFails(t) /\ Moved(t, {"clear"})
            \/ row' = row /\ task[t].st = "backoff" /\ Moved(t, {"check", "wait"})
<1>. USE DEF Clear, ClearFails, Disown, GiveUp, PlanRetry, SaveRetry, SaveRetryRefused,
             CompleteFails, Retry
<1>1. task[t].st \in {"clear", "claim", "update", "backoff"} /\ UNCHANGED <<proc, api, loop, late>>
  BY Zenon DEF CompleteStep
<1>2. Active(t) /\ TypeOK /\ task[t] \in Closure /\ task \in [Task -> Closure]
  BY <1>1 DEF Active, Inv, TypeOK
<1>3. task[t].pid \in Pid /\ task[t].job \in Job
  BY <1>2 DEF Inv, Shape, TaskOwned
<1>. USE <1>1, <1>2, <1>3
<1>4. CASE Clear(t) \/ ClearFails(t) \/ Disown(t)
  BY <1>4, ForgetGoes, Zenon
<1>5. CASE GiveUp(t) \/ SaveRetryRefused(t) \/ CompleteFails(t)
  <2>1. Moved(t, {"clear"})
    BY <1>5, MoveToMoves DEF States
  <2>. QED  BY <1>5, <2>1, Zenon
<1>6. CASE PlanRetry(t)
  <2>. DEFINE n == row[task[t].job].retryCount
              c == [[task[t] EXCEPT !.st = "update"] EXCEPT !.seen = n]
  <2>1. task' = [task EXCEPT ![t] = c]
    BY <1>6, Zenon
  <2>2. \A m : LET d == [[task[t] EXCEPT !.st = "update"] EXCEPT !.seen = m] IN
          d.st = "update" /\ d.pid = task[t].pid /\ d.job = task[t].job /\ d.seen = m
    BY SMT DEF Closure
  <2>3. c.st = "update" /\ c.pid = task[t].pid /\ c.job = task[t].job /\ c.seen = n
    BY <2>2, Zenon
  <2>. HIDE DEF c, n
  <2>4. \A u \in Task : task'[u] = IF u = t THEN c ELSE task[u]
    BY <2>1, SMT
  <2>5. Moved(t, {"update"}) /\ task'[t].seen = n
    BY <2>3, <2>4, Zenon DEF Moved, Stands
  <2>. QED  BY <1>6, <2>5, Zenon DEF n
<1>7. CASE SaveRetry(t)
  <2>. DEFINE c == [[task[t] EXCEPT !.st = "backoff"] EXCEPT !.seen = 0]
  <2>1. task' = [task EXCEPT ![t] = c]
    BY <1>7, Zenon
  <2>2. c.st = "backoff" /\ c.pid = task[t].pid /\ c.job = task[t].job
    BY SMT DEF Closure
  <2>. HIDE DEF c
  <2>3. \A u \in Task : task'[u] = IF u = t THEN c ELSE task[u]
    BY <2>1, SMT
  <2>4. Moved(t, {"backoff"})
    BY <2>2, <2>3, Zenon DEF Moved, Stands
  <2>. QED  BY <1>7, <2>4, Zenon
<1>8. CASE Retry(t)
  <2>1. PICK c \in Closure : c = [task[t] EXCEPT !.persist = FALSE]
    <3>1. \A d \in Closure, b \in BOOLEAN : [d EXCEPT !.persist = b] \in Closure
      BY SMT DEF Closure
    <3>. QED  BY <3>1, Zenon
  <2>2. c.pid = task[t].pid /\ c.job = task[t].job
    BY <2>1, SMT DEF Closure
  <2>3. Enqueue(t, c, <<t>> \o fifo[task[t].pid]) /\ row' = row /\ task[t].st = "backoff"
    BY <1>8, <2>1, Zenon
  <2>4. Moved(t, {"check", "wait"})
    BY <2>2, <2>3, EnqueueMoves, Zenon
  <2>. QED  BY <2>3, <2>4, Zenon
<1>. QED  BY <1>4, <1>5, <1>6, <1>7, <1>8 DEF CompleteStep

\* The jobs that a starting process loads, each into a closure of its own.
Startable == {j \in Job : Present(j) /\ row[j].delay = "none"}
Loaded(t, p, j) ==
  /\ ~Active(t) /\ task'[t].st = "tick" /\ task'[t].pid = p /\ task'[t].job = j

LEMMA PopulateMoves ==
  ASSUME Inv, NEW p \in Pid, Populate(p)
  PROVE  /\ proc[p] = "starting" /\ proc' = [proc EXCEPT ![p] = "up"]
         /\ MarkRows(p, Startable) /\ UNCHANGED <<fifo, api, loop, late>>
         /\ Startable \in SUBSET Job /\ Fetched(p, Startable) \in SUBSET Startable
         /\ \A t \in Task : \/ task'[t] = task[t]
                            \/ \E j \in Fetched(p, Startable) : Loaded(t, p, j)
         /\ \A j \in Fetched(p, Startable) : \E t \in Task : Loaded(t, p, j)
         /\ \A t, u \in Task :
              t # u /\ task'[t] # task[t] /\ task'[u] # task[u] => task'[t].job # task'[u].job
<1>1. /\ proc[p] = "starting" /\ proc' = [proc EXCEPT ![p] = "up"]
      /\ MarkRows(p, Startable) /\ UNCHANGED <<fifo, api, loop, late>>
  BY Zenon DEF Populate, Startable
<1>2. PICK got \in [Task -> Fetched(p, Startable) \cup {NoJob}] :
        /\ \A j \in Fetched(p, Startable) : \E t \in Task : got[t] = j
        /\ \A t, u \in Task : got[t] = got[u] /\ t # u => got[t] = NoJob
        /\ \A t \in Task : got[t] # NoJob => ~Active(t)
        /\ task' = [t \in Task |-> IF got[t] = NoJob THEN task[t] ELSE NewTask(p, got[t], FALSE)]
  BY Zenon DEF Populate, Startable
<1>3. Startable \in SUBSET Job /\ Fetched(p, Startable) \in SUBSET Startable
  BY DEF Startable, Fetched, Marked
<1>4. NoJob \notin Fetched(p, Startable)
  BY <1>3, QueueAssumption
<1>5. \A t \in Task : task'[t] = IF got[t] = NoJob THEN task[t] ELSE NewTask(p, got[t], FALSE)
  BY <1>2, Zenon
<1>6. \A j : NewTask(p, j, FALSE).st = "tick" /\ NewTask(p, j, FALSE).pid = p
             /\ NewTask(p, j, FALSE).job = j
  BY DEF NewTask
<1>7. \A t \in Task : got[t] # NoJob => got[t] \in Fetched(p, Startable) /\ Loaded(t, p, got[t])
  BY <1>2, <1>5, <1>6, Zenon DEF Loaded
<1>8. \A t \in Task : \/ task'[t] = task[t]
                      \/ \E j \in Fetched(p, Startable) : Loaded(t, p, j)
  BY <1>5, <1>7, Zenon
<1>9. \A j \in Fetched(p, Startable) : \E t \in Task : Loaded(t, p, j)
  BY <1>2, <1>4, <1>7, Zenon
<1>10. ASSUME NEW t \in Task, NEW u \in Task, t # u, task'[t] # task[t], task'[u] # task[u]
       PROVE  task'[t].job # task'[u].job
  <2>1. got[t] # NoJob /\ got[u] # NoJob
    BY <1>5, <1>10, Zenon
  <2>2. task'[t].job = got[t] /\ task'[u].job = got[u]
    BY <1>7, <2>1, Zenon DEF Loaded
  <2>. QED  BY <1>2, <1>10, <2>1, <2>2, Zenon
<1>. QED  BY <1>1, <1>3, <1>8, <1>9, <1>10, Zenon
-----------------------------------------------------------------------------
(* Who is alive: a dead process has nothing in memory, and a place that is   *)
(* not in use holds nothing.                                                *)
Vacant == \A t \in Task : ~Active(t) => task[t] = IdleTask
Alive == /\ \A t \in Task : Active(t) => Live(task[t].pid)
         /\ \A p \in Pid : ~Live(p) => loop[p] = LoopAsleep /\ api[p] = NoCall
Sane == Vacant /\ Alive

Lives(p) == proc'[p] \in {"starting", "up"}

\* A step changes a place by taking its closure on, ending it or beginning one.
Passes(t) ==
  \/ task'[t] = task[t] \/ task'[t] = IdleTask
  \/ task'[t].st # "idle" /\ task'[t].pid = task[t].pid /\ Active(t)
  \/ task'[t].st # "idle" /\ Lives(task'[t].pid)

LEMMA IdleIdle == IdleTask.st = "idle" /\ IdleTask.pid = NoPid /\ IdleTask.job = NoJob
BY DEF IdleTask

LEMMA PassesVacant ==
  ASSUME Vacant, \A t \in Task : Passes(t)
  PROVE  Vacant'
BY Zenon DEF Vacant, Passes, Active

LEMMA MovedPasses ==
  ASSUME NEW t \in Task, Active(t), NEW next, Moved(t, next), "idle" \notin next
  PROVE  \A u \in Task : Passes(u)
<1>1. Passes(t)
  BY Zenon DEF Passes, Moved
<1>2. ASSUME NEW u \in Task \ {t}  PROVE Passes(u)
  BY <1>2, Zenon DEF Moved, Stands, Passes, Active
<1>. QED  BY <1>1, <1>2

LEMMA ClosurePasses ==
  ASSUME Inv, NEW t \in Task, WorkerStep(t) \/ CompleteStep(t)
  PROVE  UNCHANGED <<proc, api, loop>> /\ \A u \in Task : Passes(u)
<1>1. CASE WorkerStep(t)
  <2>1. UNCHANGED <<proc, api, loop>> /\ Active(t)
    BY <1>1, WorkerMoves
  <2>2. PICK next \in SUBSET {"check", "wait", "clear", "claim", "run"} : Moved(t, next)
    BY <1>1, WorkerMoves
  <2>. QED  BY <2>1, <2>2, MovedPasses
<1>2. CASE CompleteStep(t)
  <2>1. UNCHANGED <<proc, api, loop>> /\ Active(t)
    BY <1>2, CompleteMoves
  <2>2. CASE Gone(t)
    BY <2>1, <2>2, Zenon DEF Gone, Passes
  <2>3. CASE \E next \in SUBSET {"check", "wait", "clear", "update", "backoff"} : Moved(t, next)
    BY <2>1, <2>3, MovedPasses
  <2>. QED  BY <1>2, <2>1, <2>2, <2>3, CompleteMoves
<1>. QED  BY <1>1, <1>2

\* The processes that live go on, or one of them dies with all it has.
LEMMA AliveStays ==
  ASSUME Inv, Sane, \A t \in Task : Passes(t), \A q \in Pid : Live(q) => Lives(q),
         \A q \in Pid : Live(q) \/ (loop'[q] = loop[q] /\ api'[q] = api[q])
  PROVE  Sane'
<1>1. Vacant'
  BY PassesVacant DEF Sane
<1>2. ASSUME NEW t \in Task, task'[t].st # "idle"  PROVE Lives(task'[t].pid)
  <2>1. CASE Active(t) /\ task'[t].pid = task[t].pid
    <3>1. Live(task[t].pid) /\ task[t].pid \in Pid
      BY <2>1 DEF Sane, Alive, Inv, Shape, TaskOwned
    <3>. QED  BY <2>1, <3>1
  <2>2. CASE Lives(task'[t].pid)
    BY <2>2
  <2>3. Active(t) \/ task'[t] # task[t]
    BY <1>2 DEF Active
  <2>. QED  BY <1>2, <2>1, <2>2, <2>3, IdleIdle, Zenon DEF Passes
<1>3. ASSUME NEW q \in Pid, ~Lives(q)  PROVE loop'[q] = LoopAsleep /\ api'[q] = NoCall
  BY <1>3, Zenon DEF Sane, Alive
<1>. QED  BY <1>1, <1>2, <1>3, Zenon DEF Sane, Alive, Active, Live, Lives

LEMMA BegunPasses ==
  ASSUME Inv, NEW t \in Task, NEW p \in Pid, NEW j, Begun(t, p, j), Lives(p)
  PROVE  \A u \in Task : Passes(u)
BY Zenon DEF Begun, Passes

LEMMA ProcessSane ==
  ASSUME Inv, Sane, NEW p \in Pid, ProcessStep(p)
  PROVE  Sane'
<1>1. proc \in [Pid -> {"new", "starting", "up", "dead"}]
  BY DEF Inv, TypeOK
<1>2. CASE Start(p) \/ PopulateFails(p)
  <2>1. \A q \in Pid : Live(q) => Lives(q)
    BY <1>1, <1>2 DEF Start, PopulateFails, Live, Lives
  <2>2. UNCHANGED <<task, loop, api>>
    BY <1>2 DEF Start, PopulateFails
  <2>. QED  BY <2>1, <2>2, AliveStays, Zenon DEF Passes
<1>3. CASE Populate(p)
  <2>1. proc' = [proc EXCEPT ![p] = "up"] /\ UNCHANGED <<api, loop>>
    BY <1>3, PopulateMoves
  <2>2. (\A q \in Pid : Live(q) => Lives(q)) /\ Lives(p)
    BY <1>1, <2>1 DEF Live, Lives
  <2>3. \A t \in Task : task'[t] = task[t] \/ \E j \in Fetched(p, Startable) : Loaded(t, p, j)
    BY <1>3, PopulateMoves
  <2>4. \A t \in Task : Passes(t)
    BY <2>2, <2>3, Zenon DEF Passes, Loaded
  <2>. QED  BY <2>1, <2>2, <2>4, AliveStays, Zenon
<1>4. CASE Crash(p)
  <2>1. \A t \in Task : task'[t] = IF task[t].pid = p THEN IdleTask ELSE task[t]
    BY <1>4, Zenon DEF Crash
  <2>2. \A q \in Pid \ {p} : proc'[q] = proc[q] /\ loop'[q] = loop[q] /\ api'[q] = api[q]
    BY <1>1, <1>4, SMT DEF Crash, Inv, TypeOK
  <2>3. loop'[p] = LoopAsleep /\ api'[p] = NoCall
    BY <1>1, <1>4, SMT DEF Crash, Inv, TypeOK
  <2>4. Vacant'
    BY <2>1, PassesVacant, Zenon DEF Passes, Sane
  <2>5. ASSUME NEW t \in Task, task'[t].st # "idle"  PROVE Lives(task'[t].pid)
    <3>1. task[t].pid # p /\ task'[t] = task[t]
      BY <2>1, <2>5, IdleIdle, Zenon
    <3>2. Live(task[t].pid) /\ task[t].pid \in Pid
      BY <2>5, <3>1 DEF Sane, Alive, Inv, Shape, TaskOwned, Active
    <3>. QED  BY <2>2, <3>1, <3>2 DEF Live, Lives
  <2>6. ASSUME NEW q \in Pid, ~Lives(q)  PROVE loop'[q] = LoopAsleep /\ api'[q] = NoCall
    <3>1. CASE q = p
      BY <2>3, <3>1
    <3>2. CASE q # p
      <4>1. ~Live(q)
        BY <2>2, <2>6, <3>2 DEF Live, Lives
      <4>. QED  BY <2>2, <3>2, <4>1 DEF Sane, Alive
    <3>. QED  BY <3>1, <3>2
  <2>. QED  BY <2>4, <2>5, <2>6, Zenon DEF Sane, Alive, Active, Live, Lives
<1>. QED  BY <1>2, <1>3, <1>4 DEF ProcessStep

LEMMA PushSane ==
  ASSUME Inv, Sane, NEW p \in Pid, PushStep(p)
  PROVE  Sane'
<1>1. UNCHANGED <<proc, api, loop>> /\ Live(p)
  BY Zenon DEF PushStep, Push, PushDelayed, PushVolatile, CanPush, Live
<1>2. CASE task' = task
  BY <1>1, <1>2, AliveStays, Zenon DEF Passes, Live, Lives
<1>3. CASE \E t \in Task, j \in Job, b \in BOOLEAN :
             ~Active(t) /\ task' = [task EXCEPT ![t] = NewTask(p, j, b)]
  <2>1. PICK t \in Task, j \in Job, b \in BOOLEAN :
          ~Active(t) /\ task' = [task EXCEPT ![t] = NewTask(p, j, b)]
    BY <1>3
  <2>2. Begun(t, p, j)
    BY <2>1, NewBegins DEF Inv
  <2>3. \A u \in Task : Passes(u)
    BY <1>1, <2>2, BegunPasses DEF Live, Lives
  <2>. QED  BY <1>1, <2>3, AliveStays, Zenon DEF Live, Lives
<1>. QED  BY <1>2, <1>3, Zenon DEF PushStep, Push, PushDelayed, PushVolatile

\* Only a process that lives has a call or the loop awake.
LEMMA ApiSane ==
  ASSUME Inv, Sane, NEW p \in Pid, ApiStep(p)
  PROVE  Sane'
<1>1. UNCHANGED <<proc, task, loop>>
  BY Zenon DEF ApiStep, GetJob, ApiCall, DeleteGet, ApiUpdate, ApiRemove, ApiFails
<1>2. Live(p)
  <2>1. Live(p) \/ api[p].at # "idle"
    BY SMT DEF ApiStep, GetJob, ApiCall, DeleteGet, ApiUpdate, ApiRemove, ApiFails
  <2>. QED  BY <2>1 DEF Sane, Alive, NoCall
<1>3. \A q \in Pid \ {p} : api'[q] = api[q]
  <2>1. api' = api \/ \E c : api' = [api EXCEPT ![p] = c]
    BY Zenon DEF ApiStep, GetJob, ApiCall, DeleteGet, ApiUpdate, ApiRemove, ApiFails
  <2>. QED  BY <2>1, SMT DEF Inv, TypeOK
<1>. QED  BY <1>1, <1>2, <1>3, AliveStays, Zenon DEF Passes, Live, Lives

\* What the steps of the scheduled loop do.
Due == {j \in Job : Present(j) /\ row[j].delay = "due" /\ ~row[j].cancelled}

LoopScans(p) ==
  /\ loop[p] = LoopAsleep /\ MarkRows(p, Due) /\ task' = task
  /\ loop'[p].todo = Fetched(p, Due) /\ loop'[p].at = "idle"
LoopCancels(p, j) ==
  /\ loop[p].at = "idle" /\ j \in loop[p].todo /\ ClaimRow(p, j) /\ task' = task
  /\ loop'[p].todo = loop[p].todo /\ loop'[p].job = j
  /\ Claimable(p, j) => loop'[p].at = "update"
LoopUpdates(p) ==
  /\ loop[p].at = "update" /\ SetCancelled(p, loop[p].job, TRUE) /\ task' = task
  /\ \/ loop'[p] = LoopAsleep
     \/ /\ Claimable(p, loop[p].job)
        /\ loop'[p].todo = loop[p].todo /\ loop'[p].job = loop[p].job
LoopPushes(p, t) ==
  /\ loop[p].at = "push" /\ loop[p].job \in Job /\ row' = row /\ Begun(t, p, loop[p].job)
  /\ loop'[p].todo = loop[p].todo \ {loop[p].job} /\ loop'[p].at = "idle"
LoopStops(p) ==
  loop[p] # LoopAsleep /\ loop'[p] = LoopAsleep /\ row' = row /\ task' = task

LEMMA LoopMoves ==
  ASSUME Inv, NEW p \in Pid, LoopStep(p)
  PROVE  /\ UNCHANGED <<proc, fifo, api, late>>
         /\ \A q \in Pid \ {p} : loop'[q] = loop[q]
         /\ \/ LoopScans(p) \/ LoopUpdates(p) \/ LoopStops(p)
            \/ \E j \in Job : LoopCancels(p, j)
            \/ \E t \in Task : LoopPushes(p, t)
<1>. USE DEF Scan, LoopCancel, LoopUpdate, LoopPush, LoopFails
<1>1. UNCHANGED <<proc, fifo, api, late>>
  BY Zenon DEF LoopStep
<1>2. loop \in [Pid -> Loops] /\ loop[p] \in Loops /\ Inv /\ TypeOK
  BY DEF Inv, TypeOK, Loops
<1>3. ASSUME NEW l, loop' = [loop EXCEPT ![p] = l]
      PROVE  loop'[p] = l /\ \A q \in Pid \ {p} : loop'[q] = loop[q]
  BY <1>2, <1>3, SMT
<1>4. CASE Scan(p)
  <2>1. /\ loop[p] = LoopAsleep /\ MarkRows(p, Due) /\ task' = task
        /\ loop' = [loop EXCEPT ![p] = [loop[p] EXCEPT !.todo = Fetched(p, Due)]]
    BY <1>4, Zenon DEF Due
  <2>2. /\ loop'[p] = [loop[p] EXCEPT !.todo = Fetched(p, Due)]
        /\ \A q \in Pid \ {p} : loop'[q] = loop[q]
    BY <1>3, <2>1, Zenon
  <2>3. loop'[p].todo = Fetched(p, Due) /\ loop'[p].at = "idle"
    BY <2>1, <2>2, SMT DEF LoopAsleep
  <2>. QED  BY <1>1, <2>1, <2>2, <2>3, Zenon DEF LoopScans
<1>5. ASSUME NEW j \in Job, LoopCancel(p, j)
      PROVE  LoopCancels(p, j) /\ \A q \in Pid \ {p} : loop'[q] = loop[q]
  <2>. DEFINE next == IF Claimable(p, j) THEN "update" ELSE "push"
  <2>1. loop' = [loop EXCEPT ![p] = [[loop[p] EXCEPT !.job = j] EXCEPT !.at = next]]
    BY <1>5, Zenon
  <2>2. Claimable(p, j) => next = "update"
    BY Zenon
  <2>. HIDE DEF next
  <2>3. /\ loop'[p] = [[loop[p] EXCEPT !.job = j] EXCEPT !.at = next]
        /\ \A q \in Pid \ {p} : loop'[q] = loop[q]
    BY <1>3, <2>1, Zenon
  <2>4. loop'[p].todo = loop[p].todo /\ loop'[p].job = j /\ loop'[p].at = next
    BY <1>2, <2>3, SMT DEF Loops
  <2>. QED  BY <1>5, <2>2, <2>3, <2>4, Zenon DEF LoopCancels
<1>6. CASE LoopUpdate(p)
  <2>1. CASE Claimable(p, loop[p].job)
    <3>1. loop' = [loop EXCEPT ![p] = [loop[p] EXCEPT !.at = "push"]]
      BY <1>6, <2>1, Zenon
    <3>2. /\ loop'[p] = [loop[p] EXCEPT !.at = "push"]
          /\ \A q \in Pid \ {p} : loop'[q] = loop[q]
      BY <1>3, <3>1, Zenon
    <3>3. loop'[p].todo = loop[p].todo /\ loop'[p].job = loop[p].job
      BY <1>2, <3>2, SMT DEF Loops
    <3>. QED  BY <1>1, <1>6, <2>1, <3>2, <3>3, Zenon DEF LoopUpdates
  <2>2. CASE ~Claimable(p, loop[p].job)
    <3>1. loop' = [loop EXCEPT ![p] = LoopAsleep]
      BY <1>6, <2>2, Zenon
    <3>2. loop'[p] = LoopAsleep /\ \A q \in Pid \ {p} : loop'[q] = loop[q]
      BY <1>3, <3>1, Zenon
    <3>. QED  BY <1>1, <1>6, <3>2, Zenon DEF LoopUpdates
  <2>. QED  BY <2>1, <2>2
<1>7. ASSUME NEW t \in Task, LoopPush(p, t)
      PROVE  LoopPushes(p, t) /\ \A q \in Pid \ {p} : loop'[q] = loop[q]
  <2>. DEFINE rest == loop[p].todo \ {loop[p].job}
  <2>1. loop' = [loop EXCEPT ![p] =
                   [[[loop[p] EXCEPT !.todo = rest] EXCEPT !.job = NoJob] EXCEPT !.at = "idle"]]
    BY <1>7, Zenon
  <2>. HIDE DEF rest
  <2>2. /\ loop'[p] = [[[loop[p] EXCEPT !.todo = rest] EXCEPT !.job = NoJob] EXCEPT !.at = "idle"]
        /\ \A q \in Pid \ {p} : loop'[q] = loop[q]
    BY <1>3, <2>1, Zenon
  <2>3. loop'[p].todo = rest /\ loop'[p].at = "idle"
    BY <1>2, <2>2, SMT DEF Loops
  <2>4. Begun(t, p, loop[p].job)
    BY <1>2, <1>7, NewBegins
  <2>5. loop[p].job \in Job
    BY <1>2, <1>7 DEF Inv, Named
  <2>. QED  BY <1>7, <2>2, <2>3, <2>4, <2>5, Zenon DEF LoopPushes, rest
<1>8. CASE LoopFails(p)
  <2>1. loop'[p] = LoopAsleep /\ \A q \in Pid \ {p} : loop'[q] = loop[q]
    BY <1>3, <1>8, Zenon
  <2>. QED  BY <1>1, <1>8, <2>1, Zenon DEF LoopStops
<1>. QED  BY <1>1, <1>2, <1>4, <1>5, <1>6, <1>7, <1>8, Zenon DEF LoopStep

LEMMA LoopSane ==
  ASSUME Inv, Sane, NEW p \in Pid, LoopStep(p)
  PROVE  Sane'
<1>1. UNCHANGED <<proc, api>> /\ \A q \in Pid \ {p} : loop'[q] = loop[q]
  BY LoopMoves
<1>2. Live(p)
  <2>1. Live(p) \/ loop[p].at # "idle" \/ loop[p].todo # {} \/ loop[p] # LoopAsleep
    BY Zenon DEF LoopStep, Scan, LoopCancel, LoopUpdate, LoopPush, LoopFails
  <2>. QED  BY <2>1 DEF Sane, Alive, LoopAsleep
<1>3. \A u \in Task : Passes(u)
  <2>1. CASE task' = task
    BY <2>1, Zenon DEF Passes
  <2>2. CASE \E t \in Task : LoopPushes(p, t)
    BY <1>1, <1>2, <2>2, BegunPasses DEF Live, Lives, LoopPushes
  <2>. QED  BY <2>1, <2>2, LoopMoves DEF LoopScans, LoopUpdates, LoopCancels, LoopStops
<1>. QED  BY <1>1, <1>2, <1>3, AliveStays, Zenon DEF Live, Lives

LEMMA NextSane == Inv /\ Sane /\ [Next]_vars => Sane'
<1>. SUFFICES ASSUME Inv, Sane, [Next]_vars PROVE Sane'
  OBVIOUS
<1>1. ASSUME NEW t \in Task, WorkerStep(t) \/ CompleteStep(t)  PROVE Sane'
  BY <1>1, ClosurePasses, AliveStays, Zenon DEF Live, Lives
<1>2. CASE TimeStep \/ UNCHANGED vars
  <2>1. UNCHANGED <<proc, task, api, loop>>
    BY <1>2 DEF TimeStep, FallDue, Expire, LateEnd, vars
  <2>. QED  BY <2>1, AliveStays, Zenon DEF Passes, Live, Lives
<1>. QED  BY <1>1, <1>2, ProcessSane, PushSane, ApiSane, LoopSane DEF Next

LEMMA InitSane == Init => Sane
BY IdleIdle, Zenon DEF Init, Sane, Vacant, Alive, Active
-----------------------------------------------------------------------------
(* What the store's statements write, field by field. *)

\* The rows of other jobs stand.
Only(j) == \A i \in Job \ {j} : row'[i] = row[i]

\* The row stays; its fields but for the ones named.
KeepsCount(j) == row'[j].retryCount = row[j].retryCount
KeepsFlags(j) == row'[j].cancelled = row[j].cancelled /\ row'[j].delay = row[j].delay
KeepsRuns(j) == row'[j].ran = row[j].ran
KeepsClaim(j) == row'[j].by = row[j].by /\ row'[j].fresh = row[j].fresh
Stays(j) == row[j] \in Row /\ row[j] # NoRow /\ row'[j] \in Row /\ row'[j] # NoRow

\* The row is claimed by a process and otherwise as it was.
Taken(p, j) == /\ Stays(j) /\ row'[j].by = p /\ row'[j].fresh = TRUE
               /\ KeepsCount(j) /\ KeepsFlags(j) /\ KeepsRuns(j)

LEMMA PresentRow ==
  ASSUME TypeOK, NEW j \in Job
  PROVE  Present(j) <=> row[j] \in Row
BY RowAssumption, SMT DEF TypeOK, Present

LEMMA ClaimedTakes ==
  ASSUME NEW p \in Pid, NEW r \in Row
  PROVE  /\ Claimed(p, r) \in Row /\ Claimed(p, r) # NoRow
         /\ Claimed(p, r).by = p /\ Claimed(p, r).fresh = TRUE
         /\ Claimed(p, r).retryCount = r.retryCount /\ Claimed(p, r).cancelled = r.cancelled
         /\ Claimed(p, r).delay = r.delay /\ Claimed(p, r).ran = r.ran
<1>1. Claimed(p, r) \in Row
  BY RecordTypes, Zenon
<1>2. /\ Claimed(p, r).by = p /\ Claimed(p, r).fresh = TRUE
      /\ Claimed(p, r).retryCount = r.retryCount /\ Claimed(p, r).cancelled = r.cancelled
      /\ Claimed(p, r).delay = r.delay /\ Claimed(p, r).ran = r.ran
  <2>1. PICK s \in Row : s = [r EXCEPT !.by = p] /\ s.by = p /\ s.retryCount = r.retryCount
                         /\ s.delay = r.delay /\ s.ran = r.ran /\ s.cancelled = r.cancelled
    <3>1. [r EXCEPT !.by = p] \in Row
      BY SMT DEF Row
    <3>2. LET s == [r EXCEPT !.by = p] IN
            /\ s.by = p /\ s.retryCount = r.retryCount
            /\ s.delay = r.delay /\ s.ran = r.ran /\ s.cancelled = r.cancelled
      BY SMT DEF Row
    <3>. QED  BY <3>1, <3>2, Zenon
  <2>2. LET c == [s EXCEPT !.fresh = TRUE] IN
          /\ c.fresh = TRUE /\ c.by = s.by /\ c.retryCount = s.retryCount
          /\ c.delay = s.delay /\ c.ran = s.ran /\ c.cancelled = s.cancelled
    BY SMT DEF Row
  <2>3. Claimed(p, r) = [s EXCEPT !.fresh = TRUE]
    BY <2>1, Zenon DEF Claimed
  <2>. QED  BY <2>1, <2>2, <2>3, Zenon
<1>. QED  BY <1>1, <1>2, RowAssumption, Zenon

LEMMA RowTakes ==
  ASSUME NEW p \in Pid, NEW j \in Job, row[j] \in Row, row'[j] = Claimed(p, row[j])
  PROVE  Taken(p, j)
<1>1. PICK r \in Row : r = row[j]
  OBVIOUS
<1>2. PICK c : c = Claimed(p, r)
  OBVIOUS
<1>3. /\ c \in Row /\ c # NoRow /\ c.by = p /\ c.fresh = TRUE
      /\ c.retryCount = r.retryCount /\ c.cancelled = r.cancelled
      /\ c.delay = r.delay /\ c.ran = r.ran
  BY <1>2, ClaimedTakes, ZenonT(60)
<1>4. row'[j] = c /\ row[j] = r /\ r # NoRow
  BY <1>1, <1>2, RowAssumption
<1>5. Stays(j) /\ KeepsCount(j) /\ KeepsFlags(j) /\ KeepsRuns(j)
  BY <1>1, <1>3, <1>4 DEF Stays, KeepsCount, KeepsFlags, KeepsRuns
<1>. QED  BY <1>3, <1>4, <1>5 DEF Taken

LEMMA ClaimRowMoves ==
  ASSUME TypeOK, NEW p \in Pid, NEW j \in Job, ClaimRow(p, j)
  PROVE  /\ Only(j)
         /\ Claimable(p, j) => Taken(p, j)
         /\ ~Claimable(p, j) => row' = row
<1>1. CASE Claimable(p, j)
  <2>1. row[j] \in Row /\ row[j] # NoRow
    BY <1>1, PresentRow DEF Claimable, Present
  <2>2. row' = [row EXCEPT ![j] = Claimed(p, row[j])]
    BY <1>1, Zenon DEF ClaimRow
  <2>3. row'[j] = Claimed(p, row[j]) /\ Only(j)
    BY <2>2, SMT DEF TypeOK, Only
  <2>4. Taken(p, j)
    BY <2>1, <2>3, RowTakes
  <2>. QED  BY <1>1, <2>3, <2>4
<1>2. CASE ~Claimable(p, j)
  <2>1. row' = row
    BY <1>2, Zenon DEF ClaimRow
  <2>. QED  BY <1>2, <2>1, Zenon DEF Only
<1>. QED  BY <1>1, <1>2

LEMMA MarkRowsMoves ==
  ASSUME TypeOK, NEW p \in Pid, NEW C \in SUBSET Job, \A j \in C : Present(j), MarkRows(p, C)
  PROVE  /\ \A j \in Marked(C) : Taken(p, j) /\ row[j].fresh = FALSE
         /\ \A j \in Job \ Marked(C) : row'[j] = row[j]
         /\ Marked(C) \subseteq C
<1>1. Marked(C) \subseteq C
  BY DEF Marked
<1>2. \A j \in Job : row'[j] = IF j \in Marked(C) THEN Claimed(p, row[j]) ELSE row[j]
  BY Zenon DEF MarkRows
<1>3. ASSUME NEW j \in Marked(C)  PROVE Taken(p, j) /\ row[j].fresh = FALSE
  <2>1. j \in Job /\ row[j] \in Row /\ row[j] # NoRow
    BY <1>1, PresentRow DEF Present
  <2>2. row'[j] = Claimed(p, row[j])
    BY <1>2, <2>1, Zenon
  <2>3. row[j].fresh \in BOOLEAN /\ ~row[j].fresh
    BY <2>1, Zenon DEF Marked, Row
  <2>4. Taken(p, j)
    BY <2>1, <2>2, RowTakes
  <2>. QED  BY <2>3, <2>4, Zenon
<1>. QED  BY <1>1, <1>2, <1>3, Zenon

\* updateJob of a row that may be claimed: its flag, or its count of retries.
Flagged(p, j, b) == /\ Stays(j) /\ row'[j].by = p /\ row'[j].fresh = TRUE
                    /\ KeepsCount(j) /\ KeepsRuns(j)
                    /\ row'[j].cancelled = b /\ row'[j].delay = row[j].delay

LEMMA SetCancelledMoves ==
  ASSUME TypeOK, NEW p \in Pid, NEW j \in Job, NEW b \in BOOLEAN, SetCancelled(p, j, b)
  PROVE  /\ Only(j)
         /\ Claimable(p, j) => Flagged(p, j, b)
         /\ ~Claimable(p, j) => row' = row
<1>1. CASE Claimable(p, j)
  <2>1. row[j] \in Row /\ row[j] # NoRow
    BY <1>1, PresentRow DEF Claimable, Present
  <2>2. PICK c \in Row : /\ c = Claimed(p, row[j]) /\ c.by = p /\ c.fresh = TRUE
                         /\ c.retryCount = row[j].retryCount /\ c.delay = row[j].delay
                         /\ c.ran = row[j].ran
    <3>1. PICK r \in Row : r = row[j]
      BY <2>1
    <3>2. PICK d : d = Claimed(p, r)
      OBVIOUS
    <3>3. /\ d \in Row /\ d.by = p /\ d.fresh = TRUE
          /\ d.retryCount = r.retryCount /\ d.delay = r.delay /\ d.ran = r.ran
      BY <3>2, ClaimedTakes, Zenon
    <3>. QED  BY <3>1, <3>2, <3>3, Zenon
  <2>3. PICK d : d = [c EXCEPT !.cancelled = b]
    OBVIOUS
  <2>4. /\ d \in Row /\ d.by = c.by /\ d.fresh = c.fresh /\ d.retryCount = c.retryCount
        /\ d.delay = c.delay /\ d.ran = c.ran /\ d.cancelled = b
    BY <2>3, SMT DEF Row
  <2>5. row' = [row EXCEPT ![j] = d]
    BY <1>1, <2>2, <2>3, Zenon DEF SetCancelled
  <2>6. row'[j] = d /\ Only(j)
    BY <2>5, SMT DEF TypeOK, Only
  <2>7. d # NoRow
    BY <2>4, RowAssumption
  <2>8. Flagged(p, j, b)
    BY <2>1, <2>2, <2>4, <2>6, <2>7 DEF Flagged, Stays, KeepsCount, KeepsRuns
  <2>. QED  BY <1>1, <2>6, <2>8
<1>2. CASE ~Claimable(p, j)
  <2>1. row' = row
    BY <1>2, Zenon DEF SetCancelled
  <2>. QED  BY <1>2, <2>1, Zenon DEF Only
<1>. QED  BY <1>1, <1>2

Counts(p, j, n) == /\ Stays(j) /\ row'[j].by = p /\ row'[j].fresh = TRUE
                   /\ row'[j].retryCount = n /\ KeepsFlags(j) /\ KeepsRuns(j)

LEMMA SaveRetryMoves ==
  ASSUME TypeOK, NEW t \in Task, task[t].pid \in Pid, task[t].job \in Job, SaveRetry(t)
  PROVE  Only(task[t].job) /\ Counts(task[t].pid, task[t].job, task[t].seen + 1)
<1>. DEFINE p == task[t].pid
            j == task[t].job
<1>1. row[j] \in Row /\ row[j] # NoRow
  BY PresentRow DEF SaveRetry, Claimable, Present
<1>2. PICK c \in Row : /\ c = Claimed(p, row[j]) /\ c.by = p /\ c.fresh = TRUE
                       /\ c.cancelled = row[j].cancelled /\ c.delay = row[j].delay
                       /\ c.ran = row[j].ran
  <2>1. PICK r \in Row : r = row[j]
    BY <1>1
  <2>2. PICK d : d = Claimed(p, r)
    OBVIOUS
  <2>3. /\ d \in Row /\ d.by = p /\ d.fresh = TRUE
        /\ d.cancelled = r.cancelled /\ d.delay = r.delay /\ d.ran = r.ran
    BY <2>2, ClaimedTakes, Zenon
  <2>. QED  BY <2>1, <2>2, <2>3, Zenon
<1>3. PICK n \in Nat : n = task[t].seen + 1
  <2>1. task[t].seen \in Nat
    BY DEF TypeOK, Closure
  <2>. QED  BY <2>1
<1>4. PICK d : d = [c EXCEPT !.retryCount = n]
  OBVIOUS
<1>5. /\ d \in Row /\ d.by = c.by /\ d.fresh = c.fresh /\ d.retryCount = n
      /\ d.delay = c.delay /\ d.ran = c.ran /\ d.cancelled = c.cancelled
  BY <1>4, SMT DEF Row
<1>6. row' = [row EXCEPT ![j] = d]
  BY <1>2, <1>3, <1>4, Zenon DEF SaveRetry
<1>7. row'[j] = d /\ Only(j)
  BY <1>6, SMT DEF TypeOK, Only
<1>8. d # NoRow
  BY <1>5, RowAssumption
<1>9. Counts(p, j, n)
  BY <1>1, <1>2, <1>5, <1>7, <1>8 DEF Counts, Stays, KeepsFlags, KeepsRuns
<1>. QED  BY <1>3, <1>7, <1>9

\* One more execution, up to the bound of the count.
Runs(j) == /\ Stays(j) /\ KeepsClaim(j) /\ KeepsCount(j) /\ KeepsFlags(j)
           /\ row'[j].ran > 0
           /\ row'[j].ran = IF row[j].ran < RunCap THEN row[j].ran + 1 ELSE row[j].ran

LEMMA CountRunMoves ==
  ASSUME TypeOK, NEW j \in Job, CountRun(j)
  PROVE  /\ Only(j)
         /\ Present(j) => Runs(j)
         /\ ~Present(j) => row' = row
<1>1. CASE Present(j)
  <2>1. row[j] \in Row /\ row[j] # NoRow /\ row[j].ran \in 0 .. RunCap /\ RunCap \in Nat \ {0}
    BY <1>1, PresentRow, QueueAssumption DEF Present, Row
  <2>2. CASE row[j].ran < RunCap
    <3>1. PICK n \in 0 .. RunCap : n = row[j].ran + 1
      BY <2>1, <2>2
    <3>2. PICK d : d = [row[j] EXCEPT !.ran = n]
      OBVIOUS
    <3>3. /\ d \in Row /\ d.by = row[j].by /\ d.fresh = row[j].fresh
          /\ d.retryCount = row[j].retryCount
          /\ d.delay = row[j].delay /\ d.ran = n /\ d.cancelled = row[j].cancelled
      BY <2>1, <3>2, SMT DEF Row
    <3>4. row' = [row EXCEPT ![j] = d]
      BY <1>1, <2>2, <3>1, <3>2, Zenon DEF CountRun
    <3>5. row'[j] = d /\ Only(j)
      BY <3>4, SMT DEF TypeOK, Only
    <3>6. d # NoRow /\ n > 0
      BY <2>1, <3>1, <3>3, RowAssumption
    <3>7. Runs(j)
      BY <2>1, <3>1, <3>3, <3>5, <3>6
         DEF Runs, Stays, KeepsClaim, KeepsCount, KeepsFlags
    <3>. QED  BY <1>1, <3>5, <3>7
  <2>3. CASE ~(row[j].ran < RunCap)
    <3>1. row' = row
      BY <2>3, Zenon DEF CountRun
    <3>2. row[j].ran > 0
      BY <2>1, <2>3
    <3>3. row'[j].ran = IF row[j].ran < RunCap THEN row[j].ran + 1 ELSE row[j].ran
      BY <2>3, <3>1, Zenon
    <3>4. Runs(j) /\ Only(j)
      BY <2>1, <3>1, <3>2, <3>3, Zenon DEF Runs, Stays, KeepsClaim, KeepsCount, KeepsFlags, Only
    <3>. QED  BY <1>1, <3>4
  <2>. QED  BY <2>2, <2>3
<1>2. CASE ~Present(j)
  <2>1. row' = row
    BY <1>2, Zenon DEF CountRun
  <2>. QED  BY <1>2, <2>1, Zenon DEF Only
<1>. QED  BY <1>1, <1>2

\* addJob and deleteJob.
Added(j, delay) ==
  /\ ~Present(j) /\ row'[j] \in Row /\ row'[j] # NoRow
  /\ row'[j].retryCount = 1 /\ row'[j].ran = 0 /\ row'[j].by = NoPid
  /\ row'[j].fresh = FALSE /\ row'[j].cancelled = FALSE /\ row'[j].delay = delay

LEMMA AddMoves ==
  ASSUME TypeOK, NEW j \in Job, NEW delay \in {"none", "later"}, ~Present(j),
         row' = [row EXCEPT ![j] = NewRow(delay)]
  PROVE  Only(j) /\ Added(j, delay)
<1>1. row'[j] = NewRow(delay) /\ Only(j)
  BY SMT DEF TypeOK, Only
<1>2. NewRow(delay) \in Row /\ NewRow(delay) # NoRow
  BY RecordTypes, RowAssumption
<1>3. /\ NewRow(delay).retryCount = 1 /\ NewRow(delay).ran = 0 /\ NewRow(delay).by = NoPid
      /\ NewRow(delay).fresh = FALSE /\ NewRow(delay).cancelled = FALSE
      /\ NewRow(delay).delay = delay
  BY DEF NewRow
<1>. QED  BY <1>1, <1>2, <1>3, Zenon DEF Added

LEMMA DeleteMoves ==
  ASSUME TypeOK, NEW j \in Job, row' = [row EXCEPT ![j] = NoRow]
  PROVE  Only(j) /\ row'[j] = NoRow
BY SMT DEF TypeOK, Only

\* A scheduled time comes, a claim runs out.
LEMMA FallDueMoves ==
  ASSUME TypeOK, NEW j \in Job, FallDue(j)
  PROVE  /\ Only(j) /\ Stays(j) /\ KeepsClaim(j) /\ KeepsCount(j) /\ KeepsRuns(j)
         /\ row[j].delay = "later" /\ row'[j].delay = "due" /\ row'[j].cancelled = row[j].cancelled
<1>1. row[j] \in Row /\ row[j] # NoRow
  BY PresentRow DEF FallDue, Present
<1>2. PICK d : d = [row[j] EXCEPT !.delay = "due"]
  OBVIOUS
<1>3. /\ d \in Row /\ d.by = row[j].by /\ d.fresh = row[j].fresh /\ d.ran = row[j].ran
      /\ d.retryCount = row[j].retryCount /\ d.delay = "due" /\ d.cancelled = row[j].cancelled
  BY <1>1, <1>2, SMT DEF Row
<1>4. row'[j] = d /\ Only(j)
  <2>1. row' = [row EXCEPT ![j] = d]
    BY <1>2, Zenon DEF FallDue
  <2>. QED  BY <2>1, SMT DEF TypeOK, Only
<1>5. d # NoRow /\ row[j].delay = "later"
  BY <1>3, RowAssumption DEF FallDue
<1>. QED  BY <1>1, <1>3, <1>4, <1>5 DEF Stays, KeepsClaim, KeepsCount, KeepsRuns

LEMMA ExpireMoves ==
  ASSUME TypeOK, NEW j \in Job, Expire(j)
  PROVE  /\ Only(j) /\ Stays(j) /\ KeepsFlags(j) /\ KeepsCount(j) /\ KeepsRuns(j)
         /\ "expire" \in Env /\ row'[j].by = row[j].by /\ row'[j].fresh = FALSE
<1>1. row[j] \in Row /\ row[j] # NoRow
  BY PresentRow DEF Expire, Present
<1>0. PICK b \in BOOLEAN : b = FALSE
  OBVIOUS
<1>2. PICK d : d = [row[j] EXCEPT !.fresh = b]
  OBVIOUS
<1>3. /\ d \in Row /\ d.by = row[j].by /\ d.fresh = FALSE /\ d.ran = row[j].ran
      /\ d.retryCount = row[j].retryCount /\ d.delay = row[j].delay
      /\ d.cancelled = row[j].cancelled
  <2>1. d \in Row /\ d.fresh = b
    BY <1>1, <1>2, RowFields, SMT DEF Row
  <2>2. /\ d.by = row[j].by /\ d.ran = row[j].ran /\ d.retryCount = row[j].retryCount
        /\ d.delay = row[j].delay /\ d.cancelled = row[j].cancelled
    BY <1>1, <1>2, SMT DEF Row
  <2>. QED  BY <1>0, <2>1, <2>2, Zenon
<1>4. row'[j] = d /\ Only(j)
  <2>1. row' = [row EXCEPT ![j] = d]
    BY <1>0, <1>2, Zenon DEF Expire
  <2>. QED  BY <2>1, SMT DEF TypeOK, Only
<1>5. d # NoRow /\ "expire" \in Env
  BY <1>3, RowAssumption DEF Expire
<1>. QED  BY <1>1, <1>3, <1>4, <1>5 DEF Stays, KeepsFlags, KeepsCount, KeepsRuns
-----------------------------------------------------------------------------
(* Jobs that run at once, on any number of processes: every row that a live *)
(* process has claimed is in its hands.                                     *)

\* Nobody schedules a job, calls the queue besides push, or loses the store:
\* what the queue does by itself, with processes that overlap and crash and
\* claims that run out.
ImmediateOnly ==
  /\ ~EnableScheduledJob \/ "delayed" \notin Modes
  /\ Api = {} /\ "storeFail" \notin Env

Immediate ==
  /\ \A j \in Job : Present(j) => row[j].delay = "none"
  /\ \A p \in Pid : loop[p] = LoopAsleep /\ api[p] = NoCall
\* A process that has not started has claimed nothing.
Unborn == \A p \in Pid, j \in Job : proc[p] = "new" /\ Present(j) => row[j].by # p
Owned == \A j \in Job : Present(j) /\ row[j].fresh => row[j].by \in Pid
InHands == Immediate /\ Unborn /\ Owned /\ ClaimCarried /\ NoOrphan

Keeps(u) == task'[u].pid = task[u].pid /\ task'[u].job = task[u].job
HeldBy(p, j) == \E u \in Task : task'[u].pid = p /\ task'[u].job = j

\* What a step may do to a row and leave it in the hands it was in.
HandedOn(j) ==
  \/ row'[j] = NoRow
  \/ row'[j] = row[j]
  \/ /\ Stays(j) /\ row'[j].delay = row[j].delay /\ row'[j].by = row[j].by
     /\ row'[j].fresh => row[j].fresh
  \/ /\ Stays(j) /\ row'[j].delay = row[j].delay
     /\ row'[j].by \in Pid /\ proc'[row'[j].by] # "new" /\ HeldBy(row'[j].by, j)
  \/ /\ Added(j, "none") /\ \E p \in Pid : HeldBy(p, j)

LEMMA HandsStay ==
  ASSUME Inv, Sane, InHands,
         \A q \in Pid : /\ Lives(q) => Live(q) \/ proc[q] = "new"
                        /\ proc'[q] = "new" => proc[q] = "new"
                        /\ proc[q] = "dead" => proc'[q] = "dead",
         \A u \in Task : Active(u) /\ row'[task[u].job] # NoRow => Keeps(u),
         \A j \in Job : HandedOn(j),
         UNCHANGED <<loop, api>>
  PROVE  InHands'
<1>1. \A j \in Job, p \in Pid : Carries(p, j) /\ row'[j] # NoRow => HeldBy(p, j)
  <2>. SUFFICES ASSUME NEW j \in Job, NEW p \in Pid, Carries(p, j), row'[j] # NoRow
                PROVE  HeldBy(p, j)
    OBVIOUS
  <2>1. PICK u \in Task : task[u].pid = p /\ task[u].job = j
    BY Zenon DEF Carries
  <2>2. Active(u)
    BY <2>1, IdleIdle, QueueAssumption DEF Sane, Vacant
  <2>3. Keeps(u)
    BY <2>1, <2>2, Zenon
  <2>. QED  BY <2>1, <2>3, Zenon DEF Keeps, HeldBy
<1>2. Immediate'
  <2>1. ASSUME NEW j \in Job, row'[j] # NoRow  PROVE row'[j].delay = "none"
    <3>1. row[j] # NoRow => row[j].delay = "none"
      BY DEF InHands, Immediate, Present
    <3>. QED  BY <2>1, <3>1, Zenon DEF HandedOn, Stays, Added
  <2>. QED  BY <2>1, Zenon DEF InHands, Immediate, Present
<1>3. Unborn'
  <2>1. ASSUME NEW p \in Pid, NEW j \in Job, proc'[p] = "new", row'[j] # NoRow, row'[j].by = p
        PROVE  FALSE
    <3>1. proc[p] = "new" /\ (row[j] # NoRow => row[j].by # p)
      BY <2>1 DEF InHands, Unborn, Present
    <3>2. NoPid # p
      BY QueueAssumption
    <3>. QED  BY <2>1, <3>1, <3>2, Zenon DEF HandedOn, Stays, Added
  <2>. QED  BY <2>1, Zenon DEF Unborn, Present
<1>4. Owned'
  <2>1. ASSUME NEW j \in Job, row'[j] # NoRow, row'[j].fresh  PROVE row'[j].by \in Pid
    <3>1. row[j] # NoRow /\ row[j].fresh => row[j].by \in Pid
      BY DEF InHands, Owned, Present
    <3>. QED  BY <2>1, <3>1, Zenon DEF HandedOn, Stays, Added
  <2>. QED  BY <2>1, Zenon DEF Owned, Present
<1>5. ClaimCarried'
  <2>1. ASSUME NEW j \in Job, NEW p \in Pid, row'[j] # NoRow, row'[j].by = p, Lives(p)
        PROVE  HeldBy(p, j)
    <3>1. CASE row[j] # NoRow /\ row[j].by = p
      <4>1. Live(p)
        BY <2>1, <3>1 DEF InHands, Unborn, Present
      <4>2. Carries(p, j)
        BY <3>1, <4>1 DEF InHands, Immediate, ClaimCarried, Present
      <4>. QED  BY <1>1, <2>1, <4>2, Zenon
    <3>2. CASE ~(row[j] # NoRow /\ row[j].by = p)
      <4>1. NoPid # p
        BY QueueAssumption
      <4>. QED  BY <2>1, <3>2, <4>1, Zenon DEF HandedOn, Stays, Added
    <3>. QED  BY <3>1, <3>2
  <2>. QED  BY <2>1, Zenon DEF ClaimCarried, Present, Live, Lives, Carries, HeldBy
<1>6. NoOrphan'
  <2>1. ASSUME \A q \in Pid : proc'[q] # "dead", NEW j \in Job, row'[j] # NoRow
        PROVE  \E p \in Pid : HeldBy(p, j)
    <3>1. CASE row[j] # NoRow
      <4>1. \E p \in Pid : Carries(p, j)
        BY <2>1, <3>1 DEF InHands, Immediate, NoOrphan, Present
      <4>. QED  BY <1>1, <2>1, <4>1, Zenon
    <3>2. CASE row[j] = NoRow
      BY <2>1, <3>2, Zenon DEF HandedOn, Stays, Added
    <3>. QED  BY <3>1, <3>2
  <2>. QED  BY <2>1, Zenon DEF NoOrphan, Present, Carries, HeldBy
<1>. QED  BY <1>2, <1>3, <1>4, <1>5, <1>6, Zenon DEF InHands

LEMMA ProcessHands ==
  ASSUME Inv, Sane, InHands, ImmediateOnly, NEW p \in Pid, ProcessStep(p)
  PROVE  InHands'
<1>1. proc \in [Pid -> {"new", "starting", "up", "dead"}]
  BY DEF Inv, TypeOK
<1>2. CASE Start(p)
  <2>1. UNCHANGED <<row, task, loop, api>> /\ \A q \in Pid \ {p} : proc'[q] = proc[q]
    BY <1>1, <1>2 DEF Start
  <2>2. proc[p] = "new" /\ proc'[p] = "starting"
    BY <1>1, <1>2 DEF Start
  <2>3. \A q \in Pid : /\ Lives(q) => Live(q) \/ proc[q] = "new"
                       /\ proc'[q] = "new" => proc[q] = "new"
                       /\ proc[q] = "dead" => proc'[q] = "dead"
    BY <2>1, <2>2 DEF Live, Lives
  <2>. QED  BY <2>1, <2>3, HandsStay, Zenon DEF Keeps, HandedOn
<1>3. CASE Populate(p)
  <2>1. /\ proc[p] = "starting" /\ proc' = [proc EXCEPT ![p] = "up"]
        /\ UNCHANGED <<loop, api>> /\ MarkRows(p, Startable)
        /\ Startable \in SUBSET Job /\ Fetched(p, Startable) \in SUBSET Startable
        /\ \A t \in Task : \/ task'[t] = task[t]
                           \/ \E j \in Fetched(p, Startable) : Loaded(t, p, j)
        /\ \A j \in Fetched(p, Startable) : \E t \in Task : Loaded(t, p, j)
    BY <1>3, PopulateMoves, Zenon
  <2>2. \A q \in Pid : /\ Lives(q) => Live(q) \/ proc[q] = "new"
                       /\ proc'[q] = "new" => proc[q] = "new"
                       /\ proc[q] = "dead" => proc'[q] = "dead"
    BY <1>1, <2>1 DEF Live, Lives
  <2>3. \A u \in Task : Active(u) => Keeps(u)
    BY <2>1, Zenon DEF Loaded, Keeps
  <2>4. /\ \A j \in Marked(Startable) : Taken(p, j)
        /\ \A j \in Job \ Marked(Startable) : row'[j] = row[j]
    <3>1. \A j \in Startable : Present(j)
      BY DEF Startable
    <3>. QED  BY <2>1, <3>1, MarkRowsMoves DEF Inv
  <2>5. ASSUME NEW j \in Job  PROVE HandedOn(j)
    <3>1. CASE j \in Marked(Startable)
      <4>1. j \in Fetched(p, Startable)
        BY <3>1, Zenon DEF Fetched
      <4>2. HeldBy(p, j)
        BY <2>1, <4>1, Zenon DEF Loaded, HeldBy
      <4>3. proc'[p] # "new"
        BY <1>1, <2>1
      <4>. QED  BY <2>4, <3>1, <4>2, <4>3, Zenon DEF Taken, KeepsFlags, HandedOn
    <3>2. CASE j \notin Marked(Startable)
      BY <2>4, <3>2, Zenon DEF HandedOn
    <3>. QED  BY <3>1, <3>2
  <2>. QED  BY <2>1, <2>2, <2>3, <2>5, HandsStay, Zenon
<1>4. CASE Crash(p)
  <2>1. row' = row /\ \A t \in Task : task'[t] = IF task[t].pid = p THEN IdleTask ELSE task[t]
    BY <1>4, Zenon DEF Crash
  <2>2. \A q \in Pid \ {p} : proc'[q] = proc[q] /\ loop'[q] = loop[q] /\ api'[q] = api[q]
    BY <1>1, <1>4, SMT DEF Crash, Inv, TypeOK
  <2>3. loop'[p] = LoopAsleep /\ api'[p] = NoCall /\ proc'[p] = "dead"
    BY <1>1, <1>4, SMT DEF Crash, Inv, TypeOK
  <2>4. Immediate'
    BY <2>1, <2>2, <2>3, Zenon DEF InHands, Immediate, Present
  <2>5. Unborn' /\ Owned'
    <3>1. \A q \in Pid : proc'[q] = "new" => proc[q] = "new"
      BY <2>2, <2>3
    <3>. QED  BY <2>1, <3>1, Zenon DEF InHands, Unborn, Owned, Present
  <2>6. ClaimCarried'
    <3>1. ASSUME NEW j \in Job, NEW q \in Pid, row[j] # NoRow, row[j].by = q, Lives(q)
          PROVE  HeldBy(q, j)
      <4>1. q # p /\ Live(q)
        BY <2>2, <2>3, <3>1 DEF Live, Lives
      <4>2. Carries(q, j)
        BY <3>1, <4>1 DEF InHands, Immediate, ClaimCarried, Present
      <4>. QED  BY <2>1, <4>1, <4>2, Zenon DEF Carries, HeldBy
    <3>. QED  BY <2>1, <3>1, Zenon DEF ClaimCarried, Present, Live, Lives, Carries, HeldBy
  <2>7. NoOrphan'
    BY <2>3, Zenon DEF NoOrphan
  <2>. QED  BY <2>4, <2>5, <2>6, <2>7, Zenon DEF InHands
<1>. QED  BY <1>2, <1>3, <1>4 DEF ProcessStep, PopulateFails, ImmediateOnly

LEMMA PushHands ==
  ASSUME Inv, Sane, InHands, ImmediateOnly, NEW p \in Pid, PushStep(p)
  PROVE  InHands'
<1>1. UNCHANGED <<proc, api, loop>>
  BY Zenon DEF PushStep, Push, PushDelayed, PushVolatile
<1>2. \A q \in Pid : /\ Lives(q) => Live(q) \/ proc[q] = "new"
                     /\ proc'[q] = "new" => proc[q] = "new"
                     /\ proc[q] = "dead" => proc'[q] = "dead"
  BY <1>1, Zenon DEF Live, Lives
<1>3. ASSUME NEW t \in Task, NEW j \in Job, Begun(t, p, j), \A i \in Job : HandedOn(i)
      PROVE  InHands'
  <2>1. \A u \in Task : Active(u) => Keeps(u)
    BY <1>3, Zenon DEF Begun, Keeps
  <2>. QED  BY <1>1, <1>2, <1>3, <2>1, HandsStay, Zenon
<1>4. ASSUME NEW t \in Task, NEW j \in Job, Push(p, t, j)  PROVE InHands'
  <2>1. Begun(t, p, j)
    BY <1>4, NewBegins DEF Push, Inv
  <2>2. Only(j) /\ Added(j, "none")
    BY <1>4, AddMoves DEF Push, Inv
  <2>3. HeldBy(p, j)
    BY <2>1, Zenon DEF Begun, HeldBy
  <2>. QED  BY <1>3, <2>1, <2>2, <2>3, Zenon DEF Only, HandedOn
<1>5. ASSUME NEW t \in Task, NEW j \in Job, PushVolatile(p, t, j)  PROVE InHands'
  <2>1. Begun(t, p, j)
    BY <1>5, NewBegins DEF PushVolatile, Inv
  <2>. QED  BY <1>3, <1>5, <2>1, Zenon DEF PushVolatile, HandedOn
<1>6. ~\E j \in Job : PushDelayed(p, j)
  BY DEF ImmediateOnly, PushDelayed
<1>. QED  BY <1>4, <1>5, <1>6 DEF PushStep

LEMMA MovedKeeps ==
  ASSUME NEW t \in Task, NEW next, Moved(t, next)
  PROVE  \A u \in Task : Keeps(u)
BY Zenon DEF Moved, Stands, Keeps

\* Steps of a closure: its process and the other processes go on.
LEMMA ClosureHands ==
  ASSUME Inv, Sane, InHands, UNCHANGED <<proc, api, loop>>,
         \A u \in Task : Active(u) /\ row'[task[u].job] # NoRow => Keeps(u),
         \A j \in Job : HandedOn(j)
  PROVE  InHands'
<1>1. \A q \in Pid : /\ Lives(q) => Live(q) \/ proc[q] = "new"
                     /\ proc'[q] = "new" => proc[q] = "new"
                     /\ proc[q] = "dead" => proc'[q] = "dead"
  BY Zenon DEF Live, Lives
<1>. QED  BY <1>1, HandsStay, Zenon

LEMMA WorkerHands ==
  ASSUME Inv, Sane, InHands, NEW t \in Task, WorkerStep(t)
  PROVE  InHands'
<1>1. /\ UNCHANGED <<proc, api, loop>> /\ task[t].job \in Job
      /\ row' = row \/ CountRun(task[t].job)
      /\ \E next : Moved(t, next)
  BY WorkerMoves, Zenon
<1>2. \A u \in Task : Keeps(u)
  BY <1>1, MovedKeeps
<1>3. CASE row' = row
  BY <1>1, <1>2, <1>3, ClosureHands, Zenon DEF HandedOn
<1>4. CASE CountRun(task[t].job)
  <2>1. PICK j \in Job : CountRun(j)
    BY <1>1, <1>4
  <2>2. Only(j) /\ (Present(j) => Runs(j)) /\ (~Present(j) => row' = row)
    BY <2>1, CountRunMoves DEF Inv
  <2>3. \A i \in Job : HandedOn(i)
    BY <2>2, Zenon DEF Only, Runs, KeepsClaim, KeepsFlags, HandedOn
  <2>. QED  BY <1>1, <1>2, <2>3, ClosureHands, Zenon
<1>. QED  BY <1>1, <1>3, <1>4

LEMMA CompleteHands ==
  ASSUME Inv, Sane, InHands, ImmediateOnly, NEW t \in Task, CompleteStep(t)
  PROVE  InHands'
<1>1. /\ UNCHANGED <<proc, api, loop>> /\ Active(t)
      /\ task[t].pid \in Pid /\ task[t].job \in Job
  BY CompleteMoves, Zenon
<1>2. PICK p \in Pid, j \in Job : p = task[t].pid /\ j = task[t].job
  BY <1>1
<1>3. proc'[p] # "new"
  BY <1>1, <1>2 DEF Sane, Alive, Live
<1>4. CASE Clear(t) /\ Gone(t)
  <2>1. Only(j) /\ row'[j] = NoRow
    BY <1>2, <1>4, DeleteMoves DEF Clear, Inv
  <2>2. \A u \in Task : Active(u) /\ row'[task[u].job] # NoRow => Keeps(u)
    BY <1>2, <1>4, <2>1, Zenon DEF Gone, Keeps
  <2>3. \A i \in Job : HandedOn(i)
    BY <2>1, Zenon DEF Only, HandedOn
  <2>. QED  BY <1>1, <2>2, <2>3, ClosureHands, Zenon
<1>5. CASE Disown(t) /\ Gone(t)
  <2>1. row' = row /\ ~Claimable(p, j)
    BY <1>2, <1>5, Zenon DEF Disown
  <2>2. \A u \in Task \ {t} : task'[u] = task[u]
    BY <1>5, Zenon DEF Gone
  <2>3. Immediate' /\ Unborn' /\ Owned'
    BY <1>1, <2>1, Zenon DEF InHands, Immediate, Unborn, Owned, Present
  <2>4. ASSUME NEW i \in Job, NEW q \in Pid, row[i] # NoRow, row[i].by = q, Live(q)
        PROVE  HeldBy(q, i)
    <3>1. PICK u \in Task : task[u].pid = q /\ task[u].job = i
      BY <2>4 DEF InHands, Immediate, ClaimCarried, Present, Carries
    <3>2. u # t
      BY <1>2, <2>1, <2>4, <3>1 DEF Claimable, Present
    <3>. QED  BY <2>2, <3>1, <3>2, Zenon DEF HeldBy
  <2>5. ClaimCarried'
    BY <1>1, <2>1, <2>4, Zenon DEF ClaimCarried, Present, Live, Carries, HeldBy
  <2>6. ASSUME \A q \in Pid : proc[q] # "dead", NEW i \in Job, row[i] # NoRow
        PROVE  \E q \in Pid : HeldBy(q, i)
    <3>1. PICK q \in Pid : Carries(q, i)
      BY <2>6 DEF InHands, Immediate, NoOrphan, Present
    <3>2. PICK u \in Task : task[u].pid = q /\ task[u].job = i
      BY <3>1 DEF Carries
    <3>3. CASE u # t
      BY <2>2, <3>2, <3>3, Zenon DEF HeldBy
    <3>4. CASE u = t
      <4>1. i = j /\ row[i].fresh
        BY <1>2, <2>1, <2>6, <3>2, <3>4 DEF Claimable, Present
      <4>2. row[i].by \in Pid
        BY <2>6, <4>1 DEF InHands, Owned, Present
      <4>3. Live(row[i].by)
        BY <2>6, <4>2 DEF InHands, Unborn, Present, Inv, TypeOK, Live
      <4>. QED  BY <2>4, <2>6, <4>2, <4>3
    <3>. QED  BY <3>3, <3>4
  <2>7. NoOrphan'
    BY <1>1, <2>1, <2>6, Zenon DEF NoOrphan, Present, Carries, HeldBy
  <2>. QED  BY <2>3, <2>5, <2>7, Zenon DEF InHands
<1>6. ASSUME \E next : Moved(t, next),
             row' = row \/ (Only(j) /\ row'[j].by = p /\ Stays(j) /\ KeepsFlags(j))
      PROVE  InHands'
  <2>1. \A u \in Task : Keeps(u)
    BY <1>6, MovedKeeps
  <2>2. HeldBy(p, j)
    BY <1>2, <2>1, Zenon DEF Keeps, HeldBy
  <2>3. \A i \in Job : HandedOn(i)
    BY <1>3, <1>6, <2>2, Zenon DEF Only, KeepsFlags, HandedOn
  <2>. QED  BY <1>1, <2>1, <2>3, ClosureHands, Zenon
<1>7. CASE (GiveUp(t) /\ Moved(t, {"clear"})) \/ (PlanRetry(t) /\ Moved(t, {"update"}))
  <2>1. ClaimRow(p, j) /\ Claimable(p, j)
    BY <1>2, <1>7, Zenon DEF GiveUp, PlanRetry
  <2>2. Only(j) /\ Taken(p, j)
    BY <2>1, ClaimRowMoves DEF Inv
  <2>. QED  BY <1>6, <1>7, <2>2, Zenon DEF Taken
<1>8. CASE SaveRetry(t) /\ Moved(t, {"backoff"})
  <2>1. Only(j) /\ Counts(p, j, task[t].seen + 1)
    BY <1>1, <1>2, <1>8, SaveRetryMoves DEF Inv
  <2>. QED  BY <1>6, <1>8, <2>1, Zenon DEF Counts
<1>9. CASE \/ SaveRetryRefused(t) /\ Moved(t, {"clear"})
           \/ row' = row /\ Moved(t, {"check", "wait"})
  BY <1>6, <1>9, Zenon DEF SaveRetryRefused
<1>. QED  BY <1>4, <1>5, <1>7, <1>8, <1>9, CompleteMoves, Zenon
          DEF ImmediateOnly, ClearFails, CompleteFails

LEMMA NextHands == ASSUME ImmediateOnly PROVE Inv /\ Sane /\ InHands /\ [Next]_vars => InHands'
<1>. SUFFICES ASSUME Inv, Sane, InHands, [Next]_vars PROVE InHands'
  OBVIOUS
<1>1. ASSUME NEW p \in Pid  PROVE ~ApiStep(p)
  <2>1. api[p].at = "idle"
    BY DEF InHands, Immediate, NoCall
  <2>. QED  BY <2>1, SMT DEF ApiStep, GetJob, ApiCall, DeleteGet, ApiUpdate, ApiRemove, ApiFails,
                            ImmediateOnly
<1>2. ASSUME NEW p \in Pid  PROVE ~LoopStep(p)
  <2>1. loop[p] = LoopAsleep /\ loop[p].at = "idle" /\ loop[p].todo = {}
    BY DEF InHands, Immediate, LoopAsleep
  <2>2. Marked(Due) = {}
    BY DEF InHands, Immediate, Due, Marked
  <2>3. ~Scan(p)
    BY <2>2, Zenon DEF Scan, Due
  <2>. QED  BY <2>1, <2>3 DEF LoopStep, LoopCancel, LoopUpdate, LoopPush, LoopFails
<1>3. CASE TimeStep \/ UNCHANGED vars
  <2>1. UNCHANGED <<proc, task, api, loop>>
    BY <1>3 DEF TimeStep, FallDue, Expire, LateEnd, vars
  <2>2. ASSUME NEW j \in Job, Expire(j)  PROVE \A i \in Job : HandedOn(i)
    <3>1. Only(j) /\ Stays(j) /\ KeepsFlags(j) /\ row'[j].by = row[j].by /\ row'[j].fresh = FALSE
      BY <2>2, ExpireMoves DEF Inv
    <3>. QED  BY <3>1, Zenon DEF Only, KeepsFlags, HandedOn
  <2>3. ASSUME NEW j \in Job  PROVE ~FallDue(j)
    BY DEF FallDue, InHands, Immediate
  <2>4. row' = row \/ \E j \in Job : Expire(j)
    BY <1>3, <2>3, Zenon DEF TimeStep, LateEnd, vars
  <2>5. \A i \in Job : HandedOn(i)
    BY <2>2, <2>4, Zenon DEF HandedOn
  <2>6. \A u \in Task : Keeps(u)
    BY <2>1, Zenon DEF Keeps
  <2>. QED  BY <2>1, <2>5, <2>6, ClosureHands, Zenon
<1>. QED  BY <1>1, <1>2, <1>3, ProcessHands, PushHands, WorkerHands, CompleteHands DEF Next

LEMMA InitHands == Init => InHands
<1>. SUFFICES ASSUME Init PROVE InHands
  OBVIOUS
<1>1. \A j \in Job : ~Present(j)
  BY DEF Init, Present
<1>. QED  BY <1>1, Zenon DEF Init, InHands, Immediate, Unborn, Owned, ClaimCarried, NoOrphan

LEMMA HandsHold == ASSUME ImmediateOnly PROVE Spec => []InHands
<1>1. Init => Sane /\ InHands
  BY InitSane, InitHands
<1>2. Inv /\ (Sane /\ InHands) /\ [Next]_vars => (Sane /\ InHands)'
  BY NextSane, NextHands
<1>. QED  BY <1>1, <1>2, Invariance, PTL DEF Spec

\* A row that a live process has claimed is in the hands of one of its closures:
\* GiveUp, SaveRetry and the clearing of a job are only ever left to someone who
\* still has it (index.js:117-215, sequelize.js:17-127).
THEOREM ClaimsCarried == ASSUME ImmediateOnly PROVE Spec => []ClaimCarried
<1>1. InHands => ClaimCarried
  BY DEF InHands
<1>. QED  BY <1>1, HandsHold, PTL

\* While no process has died every row of the table has a closure in memory that
\* will finish it, also where processes populate, take over and disown each
\* other's rows (index.js:168-215).
THEOREM NothingOrphaned == ASSUME ImmediateOnly PROVE Spec => []NoOrphan
<1>1. InHands => NoOrphan
  BY DEF InHands
<1>. QED  BY <1>1, HandsHold, PTL
-----------------------------------------------------------------------------
(* The calls besides push, where nobody deletes a job: each one claims the   *)
(* row it finds, and writes its flag.                                       *)
Called ==
  \A p \in Pid : \/ api[p].op = "none" /\ api[p].at = "idle"
                 \/ api[p].op \in Api /\ api[p].at = "update"

\* A process has claimed a row, and its flag is set, or lifted by restoreCancelled.
Touched(p, j) ==
  /\ Claimable(p, j) /\ Stays(j) /\ row'[j].by = p /\ row'[j].fresh = TRUE
  /\ KeepsCount(j) /\ KeepsRuns(j) /\ row'[j].delay = row[j].delay
  /\ \/ row'[j].cancelled = row[j].cancelled \/ row'[j].cancelled = TRUE
     \/ "restore" \in Api

LEMMA ClaimTouches ==
  ASSUME Inv, NEW p \in Pid, NEW j \in Job, ClaimRow(p, j)
  PROVE  row' = row \/ (Only(j) /\ Touched(p, j))
<1>1. CASE Claimable(p, j)
  <2>1. Only(j) /\ Taken(p, j)
    BY <1>1, ClaimRowMoves DEF Inv
  <2>. QED  BY <1>1, <2>1, Zenon DEF Taken, KeepsFlags, Touched
<1>2. CASE ~Claimable(p, j)
  BY <1>2, ClaimRowMoves DEF Inv
<1>. QED  BY <1>1, <1>2

LEMMA CancelTouches ==
  ASSUME Inv, NEW p \in Pid, NEW j \in Job, NEW b \in BOOLEAN, SetCancelled(p, j, b),
         b = TRUE \/ "restore" \in Api
  PROVE  row' = row \/ (Only(j) /\ Touched(p, j))
<1>1. CASE Claimable(p, j)
  <2>1. Only(j) /\ Flagged(p, j, b)
    BY <1>1, SetCancelledMoves DEF Inv
  <2>. QED  BY <1>1, <2>1, Zenon DEF Flagged, Touched
<1>2. CASE ~Claimable(p, j)
  BY <1>2, SetCancelledMoves DEF Inv
<1>. QED  BY <1>1, <1>2

LEMMA ApiMoves ==
  ASSUME Inv, Called, "delete" \notin Api, NEW p \in Pid, ApiStep(p)
  PROVE  /\ UNCHANGED <<proc, task, fifo, loop, late>> /\ Called'
         /\ row' = row \/ \E j \in Job : Only(j) /\ Touched(p, j)
<1>. USE DEF GetJob, ApiCall, DeleteGet, ApiUpdate, ApiRemove, ApiFails
<1>1. UNCHANGED <<proc, task, fifo, loop, late>>
  BY Zenon DEF ApiStep
<1>2. api[p].at \in {"idle", "update"}
  BY DEF Called
<1>3. ASSUME NEW c, api' = [api EXCEPT ![p] = c],
             \/ c.op = "none" /\ c.at = "idle"
             \/ c.op \in Api /\ c.at = "update"
      PROVE  Called'
  <2>1. api'[p] = c /\ \A q \in Pid \ {p} : api'[q] = api[q]
    BY <1>3, SMT DEF Inv, TypeOK
  <2>. QED  BY <1>3, <2>1, Zenon DEF Called
<1>4. NoCall.op = "none" /\ NoCall.at = "idle"
  BY DEF NoCall
<1>5. ASSUME NEW j \in Job, GetJob(p, j)
      PROVE  Called' /\ (row' = row \/ \E i \in Job : Only(i) /\ Touched(p, i))
  BY <1>5, ClaimTouches, Zenon DEF Called
<1>6. ASSUME NEW j \in Job, NEW op \in {"cancel", "restore", "delete"}, ApiCall(p, op, j)
      PROVE  Called' /\ (row' = row \/ \E i \in Job : Only(i) /\ Touched(p, i))
  <2>1. op \in Api /\ op # "delete" /\ ClaimRow(p, j)
    BY <1>6, Zenon
  <2>2. PICK c : c = [op |-> op, job |-> j, at |-> IF op = "delete" THEN "get" ELSE "update"]
    OBVIOUS
  <2>3. c.op = op /\ c.at = "update"
    BY <2>1, <2>2
  <2>4. Called'
    BY <1>3, <1>6, <2>1, <2>2, <2>3, Zenon
  <2>. QED  BY <2>1, <2>4, ClaimTouches, Zenon
<1>7. ~DeleteGet(p) /\ ~ApiRemove(p)
  BY <1>2
<1>8. CASE ApiUpdate(p)
  <2>1. api[p].op \in Api /\ api[p].op # "delete" /\ api[p].job \in Job
    BY <1>8 DEF Called, Inv, Named
  <2>2. PICK b \in BOOLEAN : b <=> api[p].op # "restore"
    OBVIOUS
  <2>3. PICK j \in Job : j = api[p].job
    BY <2>1
  <2>4. SetCancelled(p, j, b)
    <3>1. (api[p].op # "restore") = b
      BY <2>2, Zenon
    <3>. QED  BY <1>8, <2>3, <3>1, Zenon
  <2>5. b = TRUE \/ "restore" \in Api
    BY <2>1, <2>2, Zenon
  <2>6. Called'
    BY <1>3, <1>4, <1>8, <2>1, Zenon
  <2>7. row' = row \/ (Only(j) /\ Touched(p, j))
    BY <2>4, <2>5, CancelTouches
  <2>. QED  BY <1>1, <2>6, <2>7, Zenon
<1>9. CASE ApiFails(p)
  BY <1>3, <1>4, <1>9, Zenon
<1>. QED  BY <1>1, <1>5, <1>6, <1>7, <1>8, <1>9, Zenon DEF ApiStep

LEMMA NextCalled ==
  ASSUME "delete" \notin Api
  PROVE  Inv /\ Called /\ [Next]_vars => Called'
<1>. SUFFICES ASSUME Inv, Called, [Next]_vars PROVE Called'
  OBVIOUS
<1>1. ASSUME NEW p \in Pid, Crash(p)  PROVE Called'
  <2>1. api'[p] = NoCall /\ \A q \in Pid \ {p} : api'[q] = api[q]
    BY <1>1, SMT DEF Crash, Inv, TypeOK
  <2>2. NoCall.op = "none" /\ NoCall.at = "idle"
    BY DEF NoCall
  <2>. QED  BY <2>1, <2>2, Zenon DEF Called
<1>2. CASE api' = api
  BY <1>2, Zenon DEF Called
<1>3. ASSUME NEW p \in Pid, ProcessStep(p) \/ PushStep(p) \/ LoopStep(p)  PROVE Called'
  <2>1. api' = api \/ Crash(p)
    BY <1>3, Zenon DEF ProcessStep, Start, Populate, PopulateFails, PushStep, Push, PushDelayed,
         PushVolatile, LoopStep, Scan, LoopUpdate, LoopCancel, LoopPush, LoopFails
  <2>. QED  BY <1>1, <1>2, <2>1
<1>4. ASSUME NEW t \in Task, WorkerStep(t) \/ CompleteStep(t)  PROVE Called'
  BY <1>2, <1>4, WorkerMoves, CompleteMoves
<1>5. CASE TimeStep \/ UNCHANGED vars
  BY <1>2, <1>5 DEF TimeStep, FallDue, Expire, LateEnd, vars
<1>. QED  BY <1>3, <1>4, <1>5, ApiMoves DEF Next
-----------------------------------------------------------------------------
(* Scheduled jobs, on any number of processes: the claim of the scan keeps   *)
(* every row in one closure.                                                *)

\* Every job is scheduled, none is restored or deleted, and no claim runs out
\* while its process is at work.
ScheduledOnly ==
  Modes \subseteq {"delayed"} /\ Api \subseteq {"get", "cancel"} /\ "expire" \notin Env

Scheduled == \A j \in Job : Present(j) => row[j].delay # "none"
\* A closure has a row that its process has claimed and cancelled, out of every batch.
TakenUp ==
  \A t \in Task : Active(t) =>
    /\ Present(task[t].job) /\ row[task[t].job].cancelled
    /\ row[task[t].job].fresh /\ row[task[t].job].by = task[t].pid
    /\ \A p \in Pid : task[t].job \notin loop[p].todo
Distinct ==
  \A t, u \in Task : Active(t) /\ Active(u) /\ t # u => task[t].job # task[u].job
\* A batch holds rows that its process has claimed.
Batched ==
  \A p \in Pid : /\ \A j \in loop[p].todo : Present(j) /\ row[j].fresh /\ row[j].by = p
                 /\ loop[p].at # "idle" => loop[p].job \in loop[p].todo
                 /\ loop[p].at = "push" => row[loop[p].job].cancelled
Once == Scheduled /\ TakenUp /\ Distinct /\ Batched

\* A row may go, come, or stay claimed and cancelled as it was.
Secure(j) ==
  \/ row'[j] = NoRow
  \/ /\ row'[j] # NoRow /\ row'[j].delay # "none"
     /\ Present(j) => /\ row[j].cancelled => row'[j].cancelled
                      /\ row[j].fresh => row'[j].fresh /\ row'[j].by = row[j].by

LEMMA SameSecure ==
  ASSUME Once, NEW j \in Job, row'[j] = row[j]
  PROVE  Secure(j)
BY Zenon DEF Once, Scheduled, Secure, Present

LEMMA TouchedSecure ==
  ASSUME Once, "restore" \notin Api, NEW p \in Pid, NEW j \in Job, Touched(p, j)
  PROVE  Secure(j)
<1>1. row[j].delay # "none" /\ (row[j].fresh => row[j].by = p)
  BY DEF Once, Scheduled, Touched, Claimable
<1>. QED  BY <1>1, Zenon DEF Touched, Stays, Secure

LEMMA OnlySecure ==
  ASSUME Once, NEW j \in Job, Only(j), Secure(j)
  PROVE  \A i \in Job : Secure(i)
BY SameSecure, Zenon DEF Only

\* The closures go on or end, the batches stay or shrink.
LEMMA OnceStays ==
  ASSUME Inv, Once, \A j \in Job : Secure(j),
         \A u \in Task : \/ task'[u].st = "idle"
                         \/ Active(u) /\ Keeps(u) /\ row'[task[u].job] # NoRow,
         \A q \in Pid : /\ \A j \in loop'[q].todo : j \in loop[q].todo /\ row'[j] # NoRow
                        /\ loop'[q].at # "idle" => loop'[q].job \in loop'[q].todo
                        /\ loop'[q].at = "push" => row'[loop'[q].job].cancelled
  PROVE  Once'
<1>1. \A u \in Task : Active(u) => task[u].job \in Job
  BY DEF Inv, Shape, TaskOwned
<1>2. \A q \in Pid : loop[q].todo \subseteq Job
  BY DEF Inv, TypeOK
<1>3. Scheduled'
  BY Zenon DEF Secure, Scheduled, Present
<1>4. TakenUp'
  <2>. SUFFICES ASSUME NEW u \in Task, task'[u].st # "idle"
                PROVE  /\ row'[task'[u].job] # NoRow /\ row'[task'[u].job].cancelled
                       /\ row'[task'[u].job].fresh /\ row'[task'[u].job].by = task'[u].pid
                       /\ \A p \in Pid : task'[u].job \notin loop'[p].todo
    BY Zenon DEF TakenUp, Active, Present
  <2>1. /\ Active(u) /\ row'[task[u].job] # NoRow
        /\ task'[u].job = task[u].job /\ task'[u].pid = task[u].pid
    BY Zenon DEF Keeps
  <2>2. PICK j \in Job : j = task[u].job
    BY <1>1, <2>1
  <2>3. /\ Present(j) /\ row[j].cancelled /\ row[j].fresh /\ row[j].by = task[u].pid
        /\ \A p \in Pid : j \notin loop[p].todo
    BY <2>1, <2>2 DEF Once, TakenUp
  <2>4. row'[j].cancelled /\ row'[j].fresh /\ row'[j].by = task[u].pid
    BY <2>1, <2>2, <2>3, Zenon DEF Secure
  <2>. QED  BY <2>1, <2>2, <2>3, <2>4, Zenon
<1>5. Distinct'
  <2>1. \A u \in Task : task'[u].st # "idle" => Active(u) /\ task'[u].job = task[u].job
    BY Zenon DEF Keeps
  <2>. QED  BY <2>1, Zenon DEF Once, Distinct, Active
<1>6. Batched'
  <2>. SUFFICES ASSUME NEW q \in Pid, NEW j \in loop'[q].todo
                PROVE  row'[j] # NoRow /\ row'[j].fresh /\ row'[j].by = q
    BY Zenon DEF Batched, Present
  <2>1. j \in loop[q].todo /\ row'[j] # NoRow /\ j \in Job
    BY <1>2
  <2>2. Present(j) /\ row[j].fresh /\ row[j].by = q
    BY <2>1 DEF Once, Batched
  <2>. QED  BY <2>1, <2>2, Zenon DEF Secure
<1>. QED  BY <1>3, <1>4, <1>5, <1>6, Zenon DEF Once

\* Steps that take closures on, write the row of one job and touch no batch.
LEMMA OnceClosures ==
  ASSUME Inv, Once, UNCHANGED loop, \A u \in Task : Keeps(u) \/ task'[u].st = "idle",
         \A u \in Task : task'[u].st # "idle" => Active(u),
         \A j \in Job : Secure(j) /\ (Present(j) => row'[j] # NoRow)
  PROVE  Once'
<1>1. \A u \in Task : Active(u) => Present(task[u].job) /\ task[u].job \in Job
  BY DEF Once, TakenUp, Inv, Shape, TaskOwned
<1>2. \A u \in Task : task'[u].st = "idle" \/ (Active(u) /\ Keeps(u) /\ row'[task[u].job] # NoRow)
  BY <1>1, Zenon
<1>3. ASSUME NEW q \in Pid
      PROVE  /\ \A j \in loop'[q].todo : j \in loop[q].todo /\ row'[j] # NoRow
             /\ loop'[q].at # "idle" => loop'[q].job \in loop'[q].todo
             /\ loop'[q].at = "push" => row'[loop'[q].job].cancelled
  <2>1. loop[q].todo \subseteq Job /\ \A j \in loop[q].todo : Present(j)
    BY DEF Once, Batched, Inv, TypeOK
  <2>2. loop[q].at = "push" => loop[q].job \in Job /\ Present(loop[q].job)
                               /\ row[loop[q].job].cancelled
    BY <2>1 DEF Once, Batched
  <2>3. loop[q].at = "push" => row'[loop[q].job].cancelled
    BY <2>2, Zenon DEF Secure
  <2>. QED  BY <2>1, <2>3, Zenon DEF Once, Batched
<1>. QED  BY <1>2, <1>3, OnceStays, Zenon

\* The case where only rows change, and none goes.
LEMMA OnceRows ==
  ASSUME Inv, Once, UNCHANGED <<task, loop>>,
         \A j \in Job : Secure(j) /\ (Present(j) => row'[j] # NoRow)
  PROVE  Once'
<1>1. \A u \in Task : Keeps(u) /\ (task'[u].st # "idle" => Active(u))
  BY Zenon DEF Keeps, Active
<1>. QED  BY <1>1, OnceClosures, Zenon

LEMMA ProcessOnce ==
  ASSUME Inv, Once, NEW p \in Pid, ProcessStep(p)
  PROVE  Once'
<1>1. CASE Start(p) \/ PopulateFails(p)
  BY <1>1, OnceRows, SameSecure, Zenon DEF Start, PopulateFails, Present
<1>2. CASE Populate(p)
  <2>1. Startable = {}
    BY DEF Startable, Once, Scheduled
  <2>2. Marked(Startable) = {} /\ Fetched(p, Startable) = {}
    BY <2>1 DEF Marked, Fetched
  <2>3. UNCHANGED loop /\ \A t \in Task : task'[t] = task[t]
    BY <1>2, <2>2, PopulateMoves, Zenon
  <2>4. \A j \in Job : row'[j] = row[j]
    <3>1. MarkRows(p, Startable)
      BY <1>2, PopulateMoves
    <3>. QED  BY <2>2, <3>1, Zenon DEF MarkRows
  <2>5. task' = task
    <3>1. task' \in [Task -> Closure] /\ task \in [Task -> Closure]
      BY <1>2, ProcessInv DEF Inv, TypeOK, ProcessStep
    <3>. QED  BY <2>3, <3>1, SMT
  <2>. QED  BY <2>3, <2>4, <2>5, OnceRows, SameSecure, Zenon DEF Present
<1>3. CASE Crash(p)
  <2>1. row' = row /\ \A t \in Task : task'[t] = IF task[t].pid = p THEN IdleTask ELSE task[t]
    BY <1>3, Zenon DEF Crash
  <2>2. loop'[p] = LoopAsleep /\ \A q \in Pid \ {p} : loop'[q] = loop[q]
    BY <1>3, SMT DEF Crash, Inv, TypeOK
  <2>3. LoopAsleep.todo = {} /\ LoopAsleep.at = "idle"
    BY DEF LoopAsleep
  <2>4. \A u \in Task : task'[u].st = "idle" \/ (Active(u) /\ Keeps(u) /\ row'[task[u].job] # NoRow)
    BY <2>1, IdleIdle, Zenon DEF Once, TakenUp, Active, Keeps, Present
  <2>5. \A j \in Job : Secure(j)
    BY <2>1, SameSecure, Zenon
  <2>6. \A q \in Pid : /\ \A j \in loop'[q].todo : j \in loop[q].todo /\ row'[j] # NoRow
                       /\ loop'[q].at # "idle" => loop'[q].job \in loop'[q].todo
                       /\ loop'[q].at = "push" => row'[loop'[q].job].cancelled
    BY <2>1, <2>2, <2>3 DEF Once, Batched, Present
  <2>. QED  BY <2>4, <2>5, <2>6, OnceStays, Zenon
<1>. QED  BY <1>1, <1>2, <1>3 DEF ProcessStep

LEMMA MovedOn ==
  ASSUME NEW t \in Task, NEW next, Active(t), Moved(t, next)
  PROVE  \A u \in Task : Keeps(u) /\ (task'[u].st # "idle" => Active(u))
BY Zenon DEF Moved, Stands, Keeps, Active

LEMMA PushOnce ==
  ASSUME Inv, Once, ScheduledOnly, NEW p \in Pid, PushStep(p)
  PROVE  Once'
<1>1. PICK j \in Job : PushDelayed(p, j)
  BY DEF PushStep, Push, PushVolatile, ScheduledOnly
<1>2. UNCHANGED <<task, loop>> /\ Only(j) /\ Added(j, "later")
  BY <1>1, AddMoves DEF PushDelayed, Inv
<1>3. Secure(j) /\ row'[j] # NoRow
  BY <1>2, Zenon DEF Added, Secure
<1>4. \A i \in Job : Secure(i) /\ (Present(i) => row'[i] # NoRow)
  BY <1>2, <1>3, OnlySecure, Zenon DEF Only, Present
<1>. QED  BY <1>2, <1>4, OnceRows, Zenon

LEMMA WorkerOnce ==
  ASSUME Inv, Once, NEW t \in Task, WorkerStep(t)
  PROVE  Once'
<1>1. /\ UNCHANGED loop /\ Active(t) /\ task[t].job \in Job
      /\ row' = row \/ CountRun(task[t].job)
      /\ \E next : Moved(t, next)
  BY WorkerMoves, Zenon
<1>2. \A u \in Task : Keeps(u) /\ (task'[u].st # "idle" => Active(u))
  BY <1>1, MovedOn
<1>3. \A i \in Job : Secure(i) /\ (Present(i) => row'[i] # NoRow)
  <2>1. CASE row' = row
    BY <2>1, SameSecure, Zenon DEF Present
  <2>2. CASE CountRun(task[t].job)
    <3>1. PICK j \in Job : j = task[t].job
      BY <1>1
    <3>2. Only(j) /\ Present(j) /\ Runs(j)
      BY <1>1, <2>2, <3>1, CountRunMoves DEF Inv, Once, TakenUp
    <3>3. Secure(j) /\ row'[j] # NoRow
      BY <3>2, Zenon DEF Runs, Stays, KeepsClaim, KeepsFlags, Secure, Once, Scheduled
    <3>. QED  BY <3>2, <3>3, OnlySecure, Zenon DEF Only, Present
  <2>. QED  BY <1>1, <2>1, <2>2
<1>. QED  BY <1>1, <1>2, <1>3, OnceClosures, Zenon

LEMMA CompleteOnce ==
  ASSUME Inv, Once, NEW t \in Task, CompleteStep(t)
  PROVE  Once'
<1>1. UNCHANGED loop /\ Active(t) /\ task[t].pid \in Pid /\ task[t].job \in Job
  BY CompleteMoves, Zenon
<1>2. PICK p \in Pid, j \in Job : p = task[t].pid /\ j = task[t].job
  BY <1>1
<1>3. /\ Present(j) /\ row[j].cancelled /\ row[j].fresh /\ row[j].by = p
      /\ \A q \in Pid : j \notin loop[q].todo
  BY <1>1, <1>2 DEF Once, TakenUp
<1>4. CASE Clear(t) /\ Gone(t)
  <2>1. Only(j) /\ row'[j] = NoRow
    BY <1>2, <1>4, DeleteMoves DEF Clear, Inv
  <2>2. \A i \in Job : Secure(i)
    BY <2>1, OnlySecure, Zenon DEF Secure
  <2>3. \A i \in Job \ {j} : row'[i] = row[i]
    BY <2>1 DEF Only
  <2>4. ASSUME NEW u \in Task
        PROVE  task'[u].st = "idle" \/ (Active(u) /\ Keeps(u) /\ row'[task[u].job] # NoRow)
    <3>1. CASE u = t \/ ~Active(u)
      BY <1>4, <3>1, IdleIdle, Zenon DEF Gone, Active
    <3>2. CASE u # t /\ Active(u)
      <4>1. task[u].job # j
        BY <1>1, <1>2, <3>2 DEF Once, Distinct
      <4>2. row[task[u].job] # NoRow /\ task[u].job \in Job
        BY <3>2 DEF Once, TakenUp, Present, Inv, Shape, TaskOwned
      <4>. QED  BY <1>4, <2>3, <3>2, <4>1, <4>2, Zenon DEF Gone, Keeps
    <3>. QED  BY <3>1, <3>2
  <2>5. ASSUME NEW q \in Pid
        PROVE  /\ \A i \in loop'[q].todo : i \in loop[q].todo /\ row'[i] # NoRow
               /\ loop'[q].at # "idle" => loop'[q].job \in loop'[q].todo
               /\ loop'[q].at = "push" => row'[loop'[q].job].cancelled
    <3>1. \A i \in loop[q].todo : row'[i] = row[i]
      BY <1>3, <2>3 DEF Inv, TypeOK
    <3>. QED  BY <1>1, <3>1, Zenon DEF Once, Batched, Present
  <2>. QED  BY <2>2, <2>4, <2>5, OnceStays, Zenon
<1>5. ASSUME \/ Gone(t) \/ \E next : Moved(t, next),
             row' = row \/ (Only(j) /\ Stays(j) /\ KeepsFlags(j) /\ row'[j].by = p /\ row'[j].fresh = TRUE)
      PROVE  Once'
  <2>1. \A u \in Task : Keeps(u) \/ task'[u].st = "idle"
    BY <1>1, <1>5, MovedOn, IdleIdle, Zenon DEF Gone, Keeps
  <2>2. \A u \in Task : task'[u].st # "idle" => Active(u)
    BY <1>1, <1>5, MovedOn, IdleIdle, Zenon DEF Gone, Active
  <2>3. \A i \in Job : Secure(i) /\ (Present(i) => row'[i] # NoRow)
    <3>1. CASE row' = row
      BY <3>1, SameSecure, Zenon DEF Present
    <3>2. CASE Only(j) /\ Stays(j) /\ KeepsFlags(j) /\ row'[j].by = p /\ row'[j].fresh = TRUE
      <4>1. Secure(j)
        BY <1>3, <3>2, Zenon DEF Stays, KeepsFlags, Secure, Once, Scheduled
      <4>. QED  BY <3>2, <4>1, OnlySecure, Zenon DEF Only, Present, Stays
    <3>. QED  BY <1>5, <3>1, <3>2
  <2>. QED  BY <1>1, <2>1, <2>2, <2>3, OnceClosures, Zenon
<1>6. CASE (GiveUp(t) /\ Moved(t, {"clear"})) \/ (PlanRetry(t) /\ Moved(t, {"update"}))
  <2>1. ClaimRow(p, j) /\ Claimable(p, j)
    BY <1>2, <1>6, Zenon DEF GiveUp, PlanRetry
  <2>2. Only(j) /\ Taken(p, j)
    BY <2>1, ClaimRowMoves DEF Inv
  <2>. QED  BY <1>5, <1>6, <2>2, Zenon DEF Taken
<1>7. CASE SaveRetry(t) /\ Moved(t, {"backoff"})
  <2>1. Only(j) /\ Counts(p, j, task[t].seen + 1)
    BY <1>1, <1>2, <1>7, SaveRetryMoves DEF Inv
  <2>. QED  BY <1>5, <1>7, <2>1, Zenon DEF Counts
<1>8. CASE \/ SaveRetryRefused(t) /\ Moved(t, {"clear"})
           \/ CompleteFails(t) /\ Moved(t, {"clear"})
           \/ row' = row /\ Moved(t, {"check", "wait"})
  BY <1>5, <1>8, Zenon DEF SaveRetryRefused, CompleteFails
<1>9. CASE (ClearFails(t) \/ Disown(t)) /\ Gone(t)
  BY <1>5, <1>9, Zenon DEF ClearFails, Disown
<1>. QED  BY <1>4, <1>6, <1>7, <1>8, <1>9, CompleteMoves, Zenon

LEMMA ApiOnce ==
  ASSUME Inv, Called, Once, ScheduledOnly, NEW p \in Pid, ApiStep(p)
  PROVE  Once'
<1>1. "delete" \notin Api /\ "restore" \notin Api
  BY DEF ScheduledOnly
<1>2. UNCHANGED <<task, loop>> /\ (row' = row \/ \E j \in Job : Only(j) /\ Touched(p, j))
  BY <1>1, ApiMoves
<1>3. \A i \in Job : Secure(i) /\ (Present(i) => row'[i] # NoRow)
  <2>1. CASE row' = row
    BY <2>1, SameSecure, Zenon DEF Present
  <2>2. ASSUME NEW j \in Job, Only(j), Touched(p, j)
        PROVE  \A i \in Job : Secure(i) /\ (Present(i) => row'[i] # NoRow)
    <3>1. Secure(j)
      BY <1>1, <2>2, TouchedSecure
    <3>. QED  BY <2>2, <3>1, OnlySecure, Zenon DEF Only, Present, Touched, Stays
  <2>. QED  BY <1>2, <2>1, <2>2
<1>. QED  BY <1>2, <1>3, OnceRows, Zenon

\* The scan claims the rows of its batch, and no closure has one of them.
LEMMA ScanOnce ==
  ASSUME Inv, Once, NEW p \in Pid, LoopScans(p), \A q \in Pid \ {p} : loop'[q] = loop[q]
  PROVE  Once'
<1>1. /\ task' = task /\ loop'[p].todo = Fetched(p, Due) /\ loop'[p].at = "idle"
      /\ MarkRows(p, Due)
  BY Zenon DEF LoopScans
<1>2. Due \in SUBSET Job /\ (\A j \in Due : Present(j) /\ ~row[j].cancelled)
  BY DEF Due
<1>3. /\ \A j \in Marked(Due) : Taken(p, j) /\ row[j].fresh = FALSE
      /\ \A j \in Job \ Marked(Due) : row'[j] = row[j]
      /\ Marked(Due) \subseteq Due
  BY <1>1, <1>2, MarkRowsMoves DEF Inv
<1>4. Scheduled'
  <2>1. ASSUME NEW j \in Job, row'[j] # NoRow  PROVE row'[j].delay # "none"
    <3>1. row[j] # NoRow => row[j].delay # "none"
      BY DEF Once, Scheduled, Present
    <3>. QED  BY <1>3, <2>1, <3>1, Zenon DEF Taken, Stays, KeepsFlags
  <2>. QED  BY <2>1, Zenon DEF Scheduled, Present
<1>5. \A j \in Job : Present(j) /\ row[j].fresh => row'[j] = row[j]
  BY <1>3, Zenon
<1>6. TakenUp'
  <2>. SUFFICES ASSUME NEW u \in Task, Active(u)
                PROVE  /\ row'[task[u].job] # NoRow /\ row'[task[u].job].cancelled
                       /\ row'[task[u].job].fresh /\ row'[task[u].job].by = task[u].pid
                       /\ \A q \in Pid : task[u].job \notin loop'[q].todo
    BY <1>1, Zenon DEF TakenUp, Active, Present
  <2>1. PICK j \in Job : j = task[u].job
    BY DEF Inv, Shape, TaskOwned
  <2>2. /\ Present(j) /\ row[j].cancelled /\ row[j].fresh /\ row[j].by = task[u].pid
        /\ \A q \in Pid : j \notin loop[q].todo
    BY <2>1 DEF Once, TakenUp
  <2>3. j \notin Fetched(p, Due)
    BY <1>2, <1>3, <2>2 DEF Fetched
  <2>. QED  BY <1>1, <1>5, <2>1, <2>2, <2>3, Zenon DEF Present
<1>7. Distinct'
  BY <1>1, Zenon DEF Once, Distinct, Active
<1>8. Batched'
  <2>1. ASSUME NEW j \in Fetched(p, Due)  PROVE row'[j] # NoRow /\ row'[j].fresh /\ row'[j].by = p
    <3>1. CASE j \in Marked(Due)
      BY <1>3, <3>1, Zenon DEF Taken, Stays
    <3>2. CASE j \notin Marked(Due)
      <4>1. j \in Job /\ Present(j) /\ row[j].fresh /\ row[j].by = p
        BY <1>2, <1>3, <2>1, <3>2 DEF Fetched, Marked
      <4>. QED  BY <1>5, <4>1, Zenon DEF Present
    <3>. QED  BY <3>1, <3>2
  <2>2. ASSUME NEW q \in Pid \ {p}
        PROVE  /\ \A j \in loop[q].todo : row'[j] # NoRow /\ row'[j].fresh /\ row'[j].by = q
               /\ loop[q].at # "idle" => loop[q].job \in loop[q].todo
               /\ loop[q].at = "push" => row'[loop[q].job].cancelled
    <3>1. \A j \in loop[q].todo : j \in Job /\ Present(j) /\ row[j].fresh /\ row[j].by = q
      BY DEF Once, Batched, Inv, TypeOK
    <3>2. \A j \in loop[q].todo : row'[j] = row[j]
      BY <1>5, <3>1, Zenon
    <3>3. /\ loop[q].at # "idle" => loop[q].job \in loop[q].todo
          /\ loop[q].at = "push" => row[loop[q].job].cancelled
      BY DEF Once, Batched
    <3>. QED  BY <3>1, <3>2, <3>3 DEF Present
  <2>3. loop'[p].at # "push"
    BY <1>1
  <2>4. ASSUME NEW q \in Pid
        PROVE  /\ \A j \in loop'[q].todo : row'[j] # NoRow /\ row'[j].fresh /\ row'[j].by = q
               /\ loop'[q].at # "idle" => loop'[q].job \in loop'[q].todo
               /\ loop'[q].at = "push" => row'[loop'[q].job].cancelled
    <3>1. CASE q = p
      BY <1>1, <2>1, <2>3, <3>1, Zenon
    <3>2. CASE q # p
      BY <2>2, <3>2, Zenon
    <3>. QED  BY <3>1, <3>2
  <2>. QED  BY <2>4, Zenon DEF Batched, Present
<1>. QED  BY <1>4, <1>6, <1>7, <1>8, Zenon DEF Once

\* The loop hands a row of its batch to one closure.
LEMMA LoopPushOnce ==
  ASSUME Inv, Once, NEW p \in Pid, NEW t \in Task, LoopPushes(p, t),
         \A q \in Pid \ {p} : loop'[q] = loop[q]
  PROVE  Once'
<1>1. PICK j \in Job : j = loop[p].job
  BY DEF LoopPushes
<1>2. /\ loop[p].at = "push" /\ row' = row /\ Begun(t, p, j)
      /\ loop'[p].todo = loop[p].todo \ {j} /\ loop'[p].at = "idle"
  BY <1>1, Zenon DEF LoopPushes
<1>3. Present(j) /\ row[j].fresh /\ row[j].by = p /\ row[j].cancelled /\ j \in loop[p].todo
  BY <1>1, <1>2 DEF Once, Batched
<1>4. /\ task'[t].st = "tick" /\ task'[t].pid = p /\ task'[t].job = j
      /\ \A u \in Task \ {t} : task'[u] = task[u]
  BY <1>2, Zenon DEF Begun
<1>5. \A q \in Pid : loop'[q].todo \subseteq loop[q].todo /\ j \notin loop'[q].todo
  BY <1>2, <1>3 DEF Once, Batched
<1>6. TakenUp'
  <2>1. ASSUME NEW u \in Task \ {t}, Active(u)
        PROVE  \A q \in Pid : task[u].job \notin loop'[q].todo
    BY <1>5, <2>1 DEF Once, TakenUp
  <2>2. ASSUME NEW u \in Task, task'[u].st # "idle"
        PROVE  /\ Present(task'[u].job) /\ row[task'[u].job].cancelled
               /\ row[task'[u].job].fresh /\ row[task'[u].job].by = task'[u].pid
               /\ \A q \in Pid : task'[u].job \notin loop'[q].todo
    <3>1. CASE u = t
      BY <1>3, <1>4, <1>5, <3>1, Zenon
    <3>2. CASE u # t
      <4>1. task'[u] = task[u] /\ Active(u)
        BY <1>4, <2>2, <3>2, Zenon DEF Active
      <4>. QED  BY <2>1, <3>2, <4>1, Zenon DEF Once, TakenUp
    <3>. QED  BY <3>1, <3>2
  <2>. QED  BY <1>2, <2>2, Zenon DEF TakenUp, Active, Present
<1>7. Distinct'
  <2>1. \A u \in Task : Active(u) => task[u].job # j
    BY <1>3 DEF Once, TakenUp
  <2>2. ASSUME NEW u \in Task, NEW v \in Task, u # v, task'[u].st # "idle", task'[v].st # "idle"
        PROVE  task'[u].job # task'[v].job
    <3>1. CASE u # t /\ v # t
      BY <1>4, <2>2, <3>1, Zenon DEF Once, Distinct, Active
    <3>2. CASE u = t \/ v = t
      BY <1>4, <2>1, <2>2, <3>2, Zenon DEF Active
    <3>. QED  BY <3>1, <3>2
  <2>. QED  BY <2>2, Zenon DEF Distinct, Active
<1>8. Batched'
  <2>1. loop'[p].at # "push"
    BY <1>2
  <2>2. ASSUME NEW q \in Pid, NEW i \in loop'[q].todo
        PROVE  row'[i] # NoRow /\ row'[i].fresh /\ row'[i].by = q
    BY <1>2, <1>5 DEF Once, Batched, Present
  <2>3. ASSUME NEW q \in Pid \ {p}
        PROVE  /\ loop'[q].at # "idle" => loop'[q].job \in loop'[q].todo
               /\ loop'[q].at = "push" => row'[loop'[q].job].cancelled
    BY <1>2, Zenon DEF Once, Batched
  <2>. QED  BY <1>2, <2>1, <2>2, <2>3, Zenon DEF Batched, Present
<1>9. Scheduled'
  BY <1>2, Zenon DEF Once, Scheduled, Present
<1>. QED  BY <1>6, <1>7, <1>8, <1>9, Zenon DEF Once

LEMMA LoopOnce ==
  ASSUME Inv, Once, "restore" \notin Api, NEW p \in Pid, LoopStep(p)
  PROVE  Once'
<1>1. \A q \in Pid \ {p} : loop'[q] = loop[q]
  BY LoopMoves
<1>2. ASSUME NEW j \in loop[p].todo, task' = task, Only(j), Touched(p, j),
             \/ loop'[p] = LoopAsleep
             \/ /\ loop'[p].todo = loop[p].todo /\ loop'[p].job = j
                /\ loop'[p].at = "push" => row'[j].cancelled
      PROVE  Once'
  <2>1. j \in Job
    BY DEF Inv, TypeOK
  <2>2. Secure(j)
    BY <1>2, <2>1, TouchedSecure
  <2>3. \A i \in Job : Secure(i)
    BY <1>2, <2>1, <2>2, OnlySecure
  <2>4. \A i \in Job : Present(i) => row'[i] # NoRow
    BY <1>2, <2>1, Zenon DEF Only, Present, Touched, Stays
  <2>5. \A u \in Task : task'[u].st = "idle" \/ (Active(u) /\ Keeps(u) /\ row'[task[u].job] # NoRow)
    <3>1. \A u \in Task : Active(u) => Present(task[u].job) /\ task[u].job \in Job
      BY DEF Once, TakenUp, Inv, Shape, TaskOwned
    <3>. QED  BY <1>2, <2>4, <3>1, Zenon DEF Active, Keeps
  <2>6. ASSUME NEW q \in Pid
        PROVE  /\ \A i \in loop'[q].todo : i \in loop[q].todo /\ row'[i] # NoRow
               /\ loop'[q].at # "idle" => loop'[q].job \in loop'[q].todo
               /\ loop'[q].at = "push" => row'[loop'[q].job].cancelled
    <3>1. \A i \in loop[q].todo : i \in Job /\ Present(i)
      BY DEF Once, Batched, Inv, TypeOK
    <3>2. CASE q = p
      <4>1. LoopAsleep.todo = {} /\ LoopAsleep.at = "idle"
        BY DEF LoopAsleep
      <4>. QED  BY <1>2, <2>4, <3>1, <3>2, <4>1
    <3>3. CASE q # p
      <4>1. loop[q].at = "push" => row'[loop[q].job].cancelled
        <5>1. loop[q].at = "push" => loop[q].job \in Job /\ Present(loop[q].job)
                                     /\ row[loop[q].job].cancelled
          BY <3>1 DEF Once, Batched
        <5>. QED  BY <2>3, <2>4, <5>1, Zenon DEF Secure, Present
      <4>. QED  BY <1>1, <2>4, <3>1, <3>3, <4>1 DEF Once, Batched
    <3>. QED  BY <3>2, <3>3
  <2>. QED  BY <2>3, <2>5, <2>6, OnceStays, Zenon
<1>3. ASSUME NEW j \in Job, LoopCancels(p, j)  PROVE Once'
  <2>1. /\ j \in loop[p].todo /\ ClaimRow(p, j) /\ task' = task
        /\ loop'[p].todo = loop[p].todo /\ loop'[p].job = j
        /\ Claimable(p, j) => loop'[p].at = "update"
    BY <1>3, Zenon DEF LoopCancels
  <2>2. Claimable(p, j)
    BY <2>1 DEF Once, Batched, Claimable
  <2>3. Only(j) /\ Taken(p, j)
    BY <2>1, <2>2, ClaimRowMoves DEF Inv
  <2>4. Touched(p, j)
    BY <2>2, <2>3, Zenon DEF Taken, Touched, KeepsFlags
  <2>. QED  BY <1>2, <2>1, <2>2, <2>3, <2>4
<1>4. CASE LoopUpdates(p)
  <2>1. PICK j \in loop[p].todo : j = loop[p].job /\ j \in Job
    BY <1>4 DEF LoopUpdates, Once, Batched, Inv, TypeOK
  <2>2. /\ SetCancelled(p, j, TRUE) /\ task' = task
        /\ loop'[p] = LoopAsleep \/ (loop'[p].todo = loop[p].todo /\ loop'[p].job = j)
    BY <1>4, <2>1, Zenon DEF LoopUpdates
  <2>3. Claimable(p, j)
    BY <2>1 DEF Once, Batched, Claimable
  <2>4. Only(j) /\ Flagged(p, j, TRUE)
    <3>1. PICK b \in BOOLEAN : b = TRUE
      OBVIOUS
    <3>2. SetCancelled(p, j, b)
      BY <2>2, <3>1, Zenon
    <3>3. Only(j) /\ Flagged(p, j, b)
      BY <2>1, <2>3, <3>2, SetCancelledMoves DEF Inv
    <3>. QED  BY <3>1, <3>3, Zenon
  <2>5. Touched(p, j) /\ row'[j].cancelled
    BY <2>3, <2>4, Zenon DEF Flagged, Touched
  <2>. QED  BY <1>2, <2>2, <2>4, <2>5
<1>5. CASE LoopStops(p)
  <2>1. \A i \in Job : Secure(i) /\ (Present(i) => row'[i] # NoRow)
    BY <1>5, SameSecure, Zenon DEF LoopStops, Present
  <2>2. \A u \in Task : task'[u].st = "idle" \/ (Active(u) /\ Keeps(u) /\ row'[task[u].job] # NoRow)
    <3>1. \A u \in Task : Active(u) => Present(task[u].job) /\ task[u].job \in Job
      BY DEF Once, TakenUp, Inv, Shape, TaskOwned
    <3>. QED  BY <1>5, <2>1, <3>1, Zenon DEF LoopStops, Active, Keeps
  <2>3. ASSUME NEW q \in Pid
        PROVE  /\ \A i \in loop'[q].todo : i \in loop[q].todo /\ row'[i] # NoRow
               /\ loop'[q].at # "idle" => loop'[q].job \in loop'[q].todo
               /\ loop'[q].at = "push" => row'[loop'[q].job].cancelled
    <3>1. CASE q = p
      BY <1>5, <3>1 DEF LoopStops, LoopAsleep
    <3>2. CASE q # p
      <4>1. loop'[q] = loop[q] /\ row' = row
        BY <1>1, <1>5, <3>2 DEF LoopStops
      <4>. QED  BY <4>1 DEF Once, Batched, Present
    <3>. QED  BY <3>1, <3>2
  <2>. QED  BY <2>1, <2>2, <2>3, OnceStays, Zenon
<1>. QED  BY <1>1, <1>3, <1>4, <1>5, LoopMoves, ScanOnce, LoopPushOnce

LEMMA NextOnce ==
  ASSUME ScheduledOnly
  PROVE  Inv /\ Called /\ Once /\ [Next]_vars => Once'
<1>. SUFFICES ASSUME Inv, Called, Once, [Next]_vars PROVE Once'
  OBVIOUS
<1>1. "restore" \notin Api /\ "expire" \notin Env
  BY DEF ScheduledOnly
<1>2. CASE TimeStep \/ UNCHANGED vars
  <2>1. UNCHANGED <<task, loop>>
    BY <1>2 DEF TimeStep, FallDue, Expire, LateEnd, vars
  <2>2. row' = row \/ \E j \in Job : FallDue(j)
    BY <1>1, <1>2, Zenon DEF TimeStep, Expire, LateEnd, vars
  <2>3. \A i \in Job : Secure(i) /\ (Present(i) => row'[i] # NoRow)
    <3>1. CASE row' = row
      BY <3>1, SameSecure, Zenon DEF Present
    <3>2. ASSUME NEW j \in Job, FallDue(j)
          PROVE  \A i \in Job : Secure(i) /\ (Present(i) => row'[i] # NoRow)
      <4>1. /\ Only(j) /\ Stays(j) /\ KeepsClaim(j)
            /\ row'[j].delay = "due" /\ row'[j].cancelled = row[j].cancelled
        BY <3>2, FallDueMoves DEF Inv
      <4>2. Secure(j)
        <5>1. "due" # "none"
          OBVIOUS
        <5>. QED  BY <4>1, <5>1, Zenon DEF Secure, Stays, KeepsClaim
      <4>. QED  BY <4>1, <4>2, OnlySecure, Zenon DEF Only, Present, Stays
    <3>. QED  BY <2>2, <3>1, <3>2
  <2>. QED  BY <2>1, <2>3, OnceRows, Zenon
<1>. QED  BY <1>1, <1>2, ProcessOnce, PushOnce, WorkerOnce, CompleteOnce, ApiOnce, LoopOnce DEF Next

LEMMA InitOnce == Init => Called /\ Once
<1>. SUFFICES ASSUME Init PROVE Called /\ Once
  OBVIOUS
<1>1. \A j \in Job : ~Present(j)
  BY DEF Init, Present
<1>2. \A t \in Task : ~Active(t)
  BY IdleIdle DEF Init, Active
<1>3. \A p \in Pid : loop[p].todo = {} /\ loop[p].at = "idle"
  BY DEF Init, LoopAsleep
<1>4. Called
  BY DEF Init, Called, NoCall
<1>. QED  BY <1>1, <1>2, <1>3, <1>4 DEF Once, Scheduled, TakenUp, Distinct, Batched

\* A set of which any two members are the same has one at most.
LEMMA AtMostOne ==
  ASSUME NEW S, \A x, y \in S : x = y
  PROVE  IsFiniteSet(S) /\ Cardinality(S) <= 1
<1>1. CASE S = {}
  BY <1>1, FS_EmptySet
<1>2. CASE S # {}
  <2>1. PICK x \in S : S = {x}
    BY <1>2
  <2>2. IsFiniteSet({x}) /\ Cardinality({x}) = 1
    BY FS_Singleton, Zenon
  <2>. QED  BY <2>1, <2>2
<1>. QED  BY <1>1, <1>2

\* A scheduled job is taken into memory by one closure of one process, however
\* the scans of several processes interleave: the claim of _getAndMarkJobs and
\* the cancellation before the push keep every other scan away
\* (index.js:217-258, sequelize.js:69-127).
THEOREM TakenOnce == ASSUME ScheduledOnly PROVE Spec => []ScheduledOnce
<1>1. Inv /\ Sane /\ Once => ScheduledOnce
  <2>. SUFFICES ASSUME Inv, Sane, Once, NEW j \in Job
                PROVE  Cardinality({t \in Task : task[t].job = j}) <= 1
    BY DEF ScheduledOnce
  <2>1. \A t \in Task : task[t].job = j => Active(t)
    BY IdleIdle, QueueAssumption DEF Sane, Vacant
  <2>2. \A t, u \in {v \in Task : task[v].job = j} : t = u
    BY <2>1 DEF Once, Distinct
  <2>. QED  BY <2>2, AtMostOne
<1>2. "delete" \notin Api
  BY DEF ScheduledOnly
<1>3. Init => Sane /\ Called /\ Once
  BY InitSane, InitOnce
<1>4. Inv /\ (Sane /\ Called /\ Once) /\ [Next]_vars => (Sane /\ Called /\ Once)'
  BY <1>2, NextSane, NextCalled, NextOnce
<1>. QED  BY <1>1, <1>3, <1>4, Invariance, PTL DEF Spec
-----------------------------------------------------------------------------
(* One process at a time, restarted when it dies: every job of the table has *)
(* one closure at most.                                                     *)

\* A process starts when the one before has died, nothing is pushed before the
\* table was read, the store answers, every job is persisted, and a scheduled job
\* is not restored once it was taken off the schedule.
Serial ==
  /\ Env \cap {"overlap", "earlyPush", "storeFail"} = {}
  /\ "volatile" \notin Modes /\ "delete" \notin Api
  /\ "restore" \in Api => "delayed" \notin Modes

Alone == \A p, q \in Pid : Live(p) /\ Live(q) => p = q
Plain == "delayed" \notin Modes => \A j \in Job : Present(j) => row[j].delay = "none"
InTable == \A t \in Task : Active(t) => Present(task[t].job)
\* A scheduled job is cancelled before a closure takes it.
Withdrawn ==
  \A t \in Task : Active(t) /\ row[task[t].job].delay # "none" => row[task[t].job].cancelled
\* A batch of the loop holds due rows of its process that no closure has.
InBatch ==
  \A p \in Pid : /\ \A j \in loop[p].todo : Present(j) /\ row[j].delay = "due" /\ row[j].by = p
                 /\ \A j \in loop[p].todo, t \in Task : Active(t) => task[t].job # j
                 /\ loop[p].at # "idle" => loop[p].job \in loop[p].todo
                 /\ loop[p].at = "push" => row[loop[p].job].cancelled
\* Before the table was read, only scheduled jobs are in memory.
Unloaded ==
  (\A p \in Pid : proc[p] # "up") =>
    \A t \in Task : Active(t) => row[task[t].job].delay # "none"
Sole == Alone /\ Plain /\ InTable /\ Distinct /\ Withdrawn /\ InBatch /\ Unloaded

\* What a step may do to a row: let it fall due, cancel it, restore it.
Onward(r, s) ==
  /\ s.delay = r.delay \/ (r.delay = "later" /\ s.delay = "due")
  /\ r.cancelled => s.cancelled \/ "restore" \in Api
Settled(j) ==
  \/ row'[j] = NoRow
  \/ row'[j] = row[j]
  \/ Added(j, "none") \/ (Added(j, "later") /\ "delayed" \in Modes)
  \/ /\ Stays(j) /\ Onward(row[j], row'[j])
     /\ row'[j].by = row[j].by \/ \E p \in Pid : Live(p) /\ row'[j].by = p

\* Fields of a row that stays.
LEMMA SettledStays ==
  ASSUME NEW j \in Job, Settled(j), Present(j), row'[j] # NoRow
  PROVE  /\ Onward(row[j], row'[j])
         /\ row'[j].by = row[j].by \/ \E p \in Pid : Live(p) /\ row'[j].by = p
BY Zenon DEF Settled, Added, Onward

LEMMA OnlySettled ==
  ASSUME NEW j \in Job, Only(j), Settled(j)
  PROVE  \A i \in Job : Settled(i)
BY Zenon DEF Only, Settled

\* In a batch, the rows stay due and claimed.
LEMMA BatchStays ==
  ASSUME Inv, Sane, Sole, Serial, NEW q \in Pid, NEW j \in loop[q].todo, Settled(j), row'[j] # NoRow
  PROVE  /\ row'[j].delay = "due" /\ row'[j].by = q
         /\ row[j].cancelled => row'[j].cancelled
<1>1. j \in Job /\ Present(j) /\ row[j].delay = "due" /\ row[j].by = q
  BY DEF Sole, InBatch, Inv, TypeOK
<1>2. "restore" \notin Api
  BY <1>1 DEF Sole, Plain, Serial
<1>3. Onward(row[j], row'[j]) /\ (row'[j].by = row[j].by \/ \E p \in Pid : Live(p) /\ row'[j].by = p)
  BY <1>1, SettledStays
<1>4. Live(q)
  BY DEF Sane, Alive, LoopAsleep
<1>5. row'[j].by = q
  BY <1>1, <1>3, <1>4 DEF Sole, Alone
<1>. QED  BY <1>1, <1>2, <1>3, <1>5 DEF Onward

LEMMA SoleStays ==
  ASSUME Inv, Sane, Sole, Serial, UNCHANGED proc, \A j \in Job : Settled(j),
         \A u \in Task : \/ task'[u].st = "idle"
                         \/ Active(u) /\ Keeps(u) /\ row'[task[u].job] # NoRow,
         \A q \in Pid : /\ \A j \in loop'[q].todo : j \in loop[q].todo /\ row'[j] # NoRow
                        /\ loop'[q].at # "idle" => loop'[q].job \in loop'[q].todo
                        /\ loop'[q].at = "push" => row'[loop'[q].job].cancelled
  PROVE  Sole'
<1>1. \A u \in Task : Active(u) => task[u].job \in Job
  BY DEF Inv, Shape, TaskOwned
<1>2. \A q \in Pid : loop[q].todo \subseteq Job
  BY DEF Inv, TypeOK
<1>3. Alone'
  BY Zenon DEF Sole, Alone, Live
<1>4. Plain'
  <2>1. ASSUME "delayed" \notin Modes, NEW j \in Job, row'[j] # NoRow
        PROVE  row'[j].delay = "none"
    <3>1. Present(j) => row[j].delay = "none"
      BY <2>1 DEF Sole, Plain
    <3>2. CASE Present(j)
      BY <2>1, <3>1, <3>2, SettledStays DEF Onward
    <3>3. CASE ~Present(j)
      BY <2>1, <3>3, Zenon DEF Settled, Added, Stays, Present
    <3>. QED  BY <3>2, <3>3
  <2>. QED  BY <2>1, Zenon DEF Plain, Present
<1>5. ASSUME NEW u \in Task, task'[u].st # "idle"
      PROVE  \E j \in Job : /\ j = task[u].job /\ Active(u) /\ Keeps(u) /\ row'[j] # NoRow
                            /\ Present(j) /\ Onward(row[j], row'[j])
  <2>1. PICK j \in Job : j = task[u].job /\ Active(u) /\ Keeps(u) /\ row'[j] # NoRow
    BY <1>1, <1>5, Zenon
  <2>2. Present(j)
    BY <2>1 DEF Sole, InTable
  <2>. QED  BY <2>1, <2>2, SettledStays
<1>6. InTable'
  BY <1>5, Zenon DEF InTable, Active, Present, Keeps
<1>7. Distinct'
  <2>1. \A u \in Task : task'[u].st # "idle" => Active(u) /\ task'[u].job = task[u].job
    BY Zenon DEF Keeps
  <2>. QED  BY <2>1, Zenon DEF Sole, Distinct, Active
<1>8. Withdrawn'
  <2>1. ASSUME NEW u \in Task, task'[u].st # "idle", row'[task'[u].job].delay # "none"
        PROVE  row'[task'[u].job].cancelled
    <3>1. PICK j \in Job : /\ j = task[u].job /\ Active(u) /\ Keeps(u) /\ row'[j] # NoRow
                           /\ Present(j) /\ Onward(row[j], row'[j])
      BY <1>5, <2>1
    <3>2. row[j].delay # "none"
      BY <2>1, <3>1 DEF Onward, Keeps
    <3>3. row[j].cancelled /\ "restore" \notin Api
      BY <3>1, <3>2 DEF Sole, Withdrawn, Plain, Serial
    <3>. QED  BY <3>1, <3>3, Zenon DEF Onward, Keeps
  <2>. QED  BY <2>1, Zenon DEF Withdrawn, Active
<1>9. InBatch'
  <2>1. ASSUME NEW q \in Pid, NEW j \in loop'[q].todo
        PROVE  /\ row'[j] # NoRow /\ row'[j].delay = "due" /\ row'[j].by = q
               /\ \A t \in Task : task'[t].st # "idle" => task'[t].job # j
    <3>1. j \in loop[q].todo /\ row'[j] # NoRow /\ j \in Job
      BY <1>2
    <3>2. row'[j].delay = "due" /\ row'[j].by = q
      BY <3>1, BatchStays
    <3>3. \A t \in Task : Active(t) => task[t].job # j
      BY <3>1 DEF Sole, InBatch
    <3>. QED  BY <1>5, <3>1, <3>2, <3>3, Zenon DEF Keeps
  <2>. QED  BY <2>1, Zenon DEF InBatch, Present, Active
<1>10. Unloaded'
  <2>1. ASSUME \A p \in Pid : proc[p] # "up", NEW u \in Task, task'[u].st # "idle"
        PROVE  row'[task'[u].job].delay # "none"
    <3>1. PICK j \in Job : /\ j = task[u].job /\ Active(u) /\ Keeps(u) /\ row'[j] # NoRow
                           /\ Present(j) /\ Onward(row[j], row'[j])
      BY <1>5, <2>1
    <3>2. row[j].delay # "none"
      BY <2>1, <3>1 DEF Sole, Unloaded
    <3>. QED  BY <3>1, <3>2 DEF Onward, Keeps
  <2>. QED  BY <2>1, Zenon DEF Unloaded, Active
<1>. QED  BY <1>3, <1>4, <1>6, <1>7, <1>8, <1>9, <1>10, Zenon DEF Sole

\* Steps that leave the batches alone, and every row of the table there.
LEMMA SoleRows ==
  ASSUME Inv, Sane, Sole, Serial, UNCHANGED <<proc, loop>>,
         \A j \in Job : Settled(j) /\ (Present(j) => row'[j] # NoRow),
         \A u \in Task : Keeps(u) \/ task'[u].st = "idle",
         \A u \in Task : task'[u].st # "idle" => Active(u)
  PROVE  Sole'
<1>1. \A u \in Task : task'[u].st = "idle" \/ (Active(u) /\ Keeps(u) /\ row'[task[u].job] # NoRow)
  <2>1. \A u \in Task : Active(u) => Present(task[u].job) /\ task[u].job \in Job
    BY DEF Sole, InTable, Inv, Shape, TaskOwned
  <2>. QED  BY <2>1, Zenon
<1>2. ASSUME NEW q \in Pid
      PROVE  /\ \A j \in loop'[q].todo : j \in loop[q].todo /\ row'[j] # NoRow
             /\ loop'[q].at # "idle" => loop'[q].job \in loop'[q].todo
             /\ loop'[q].at = "push" => row'[loop'[q].job].cancelled
  <2>1. \A j \in loop[q].todo : j \in Job /\ row'[j] # NoRow
    BY DEF Sole, InBatch, Inv, TypeOK
  <2>2. loop[q].at = "push" => row'[loop[q].job].cancelled
    <3>1. loop[q].at = "push" => loop[q].job \in loop[q].todo /\ row[loop[q].job].cancelled
      BY DEF Sole, InBatch
    <3>. QED  BY <2>1, <3>1, BatchStays
  <2>. QED  BY <2>1, <2>2, Zenon DEF Sole, InBatch
<1>. QED  BY <1>1, <1>2, SoleStays, Zenon

LEMMA StartSole ==
  ASSUME Inv, Sane, Sole, Serial, NEW p \in Pid, Start(p)
  PROVE  Sole'
<1>1. \A q \in Pid : ~Live(q)
  BY DEF Start, Serial
<1>2. UNCHANGED <<row, task, loop>> /\ \A q \in Pid \ {p} : proc'[q] = proc[q]
  BY DEF Start, Inv, TypeOK
<1>3. \A t \in Task : ~Active(t)
  BY <1>1 DEF Sane, Alive, Inv, Shape, TaskOwned
<1>4. Alone'
  BY <1>1, <1>2, Zenon DEF Alone, Live
<1>5. Plain' /\ InTable' /\ Distinct' /\ Withdrawn' /\ InBatch'
  <2>1. Plain' /\ InTable' /\ Distinct'
    BY <1>2, Zenon DEF Sole, Plain, InTable, Distinct, Present, Active
  <2>2. Withdrawn'
    BY <1>2, Zenon DEF Sole, Withdrawn, Active
  <2>3. InBatch'
    BY <1>2, ZenonT(60) DEF Sole, InBatch, Present, Active
  <2>. QED  BY <2>1, <2>2, <2>3
<1>6. Unloaded'
  BY <1>2, <1>3, Zenon DEF Unloaded, Active
<1>. QED  BY <1>4, <1>5, <1>6, Zenon DEF Sole

LEMMA CrashSole ==
  ASSUME Inv, Sane, Sole, NEW p \in Pid, Crash(p)
  PROVE  Sole' /\ \A t \in Task : task'[t] = IdleTask
<1>1. Live(p) /\ row' = row /\ \A t \in Task : task'[t] = IF task[t].pid = p THEN IdleTask ELSE task[t]
  BY Zenon DEF Crash
<1>2. proc'[p] = "dead" /\ \A q \in Pid \ {p} : proc'[q] = proc[q]
  BY SMT DEF Crash, Inv, TypeOK
<1>3. loop'[p] = LoopAsleep /\ \A q \in Pid \ {p} : loop'[q] = loop[q]
  BY SMT DEF Crash, Inv, TypeOK
<1>4. \A t \in Task : task'[t] = IdleTask
  <2>1. ASSUME NEW t \in Task, Active(t)  PROVE task[t].pid = p
    BY <1>1, <2>1 DEF Sane, Alive, Sole, Alone, Inv, Shape, TaskOwned
  <2>. QED  BY <1>1, <2>1, Zenon DEF Sane, Vacant
<1>5. \A q \in Pid : loop'[q] = LoopAsleep
  <2>1. \A q \in Pid \ {p} : ~Live(q)
    BY <1>1 DEF Sole, Alone
  <2>. QED  BY <1>3, <2>1 DEF Sane, Alive
<1>6. \A t \in Task : task'[t].st = "idle"
  BY <1>4, IdleIdle, Zenon
<1>7. LoopAsleep.todo = {} /\ LoopAsleep.at = "idle"
  BY DEF LoopAsleep
<1>8. Alone'
  <2>1. \A q \in Pid : Lives(q) => Live(q)
    BY <1>2 DEF Live, Lives
  <2>. QED  BY <2>1, Zenon DEF Sole, Alone, Live, Lives
<1>9. Plain'
  BY <1>1, Zenon DEF Sole, Plain, Present
<1>10. InTable' /\ Distinct' /\ Withdrawn' /\ Unloaded'
  BY <1>6, Zenon DEF InTable, Distinct, Withdrawn, Unloaded, Active
<1>11. InBatch'
  <2>1. \A q \in Pid : loop'[q].todo = {} /\ loop'[q].at = "idle"
    BY <1>5, <1>7, Zenon
  <2>. QED  BY <2>1 DEF InBatch
<1>. QED  BY <1>4, <1>8, <1>9, <1>10, <1>11, Zenon DEF Sole

\* A starting process is alone and has loaded nothing yet: the jobs it finds
\* in the table have no closure.
LEMMA PopulateSole ==
  ASSUME Inv, Sane, Sole, NEW p \in Pid, Populate(p)
  PROVE  /\ Sole'
         /\ \A q \in Pid : proc[q] # "up"
         /\ \A t \in Task : Active(t) => task'[t] = task[t] /\ row'[task[t].job] = row[task[t].job]
<1>1. /\ proc[p] = "starting" /\ proc' = [proc EXCEPT ![p] = "up"] /\ UNCHANGED loop
      /\ MarkRows(p, Startable)
      /\ Startable \in SUBSET Job /\ Fetched(p, Startable) \in SUBSET Startable
      /\ \A t \in Task : \/ task'[t] = task[t]
                         \/ \E j \in Fetched(p, Startable) : Loaded(t, p, j)
      /\ \A t, u \in Task :
           t # u /\ task'[t] # task[t] /\ task'[u] # task[u] => task'[t].job # task'[u].job
  BY PopulateMoves, Zenon
<1>2. \A j \in Startable : j \in Job /\ Present(j) /\ row[j].delay = "none"
  BY DEF Startable
<1>3. /\ \A j \in Marked(Startable) : Taken(p, j)
      /\ \A j \in Job \ Marked(Startable) : row'[j] = row[j]
      /\ Marked(Startable) \subseteq Startable
  BY <1>1, <1>2, MarkRowsMoves DEF Inv
<1>4. \A q \in Pid : proc[q] # "up"
  BY <1>1 DEF Sole, Alone, Live
<1>5. /\ proc'[p] = "up" /\ \A q \in Pid : Lives(q) => Live(q)
  BY <1>1 DEF Inv, TypeOK, Live, Lives
<1>6. ASSUME NEW t \in Task, Active(t)
      PROVE  /\ task[t].job \in Job \ Startable /\ task'[t] = task[t]
             /\ row'[task[t].job] = row[task[t].job]
  <2>1. row[task[t].job].delay # "none" /\ task[t].job \in Job
    BY <1>4, <1>6 DEF Sole, Unloaded, Inv, Shape, TaskOwned
  <2>2. task[t].job \notin Startable
    BY <1>2, <2>1
  <2>3. task'[t] = task[t]
    BY <1>1, <1>6, Zenon DEF Loaded
  <2>. QED  BY <1>3, <2>1, <2>2, <2>3
<1>7. ASSUME NEW t \in Task, task'[t].st # "idle", ~Active(t)
      PROVE  \E j \in Startable : j \in Job /\ task'[t].job = j /\ row'[j] # NoRow /\ row'[j].delay = "none"
  <2>1. PICK j \in Fetched(p, Startable) : Loaded(t, p, j)
    BY <1>1, <1>7, Zenon DEF Active
  <2>2. j \in Startable /\ j \in Job /\ task'[t].job = j
    BY <1>1, <2>1 DEF Loaded
  <2>3. row'[j] # NoRow /\ row'[j].delay = "none"
    <3>1. Present(j) /\ row[j].delay = "none"
      BY <1>2, <2>2
    <3>2. row'[j] = row[j] \/ Taken(p, j)
      BY <1>3, <2>2
    <3>. QED  BY <3>1, <3>2, Zenon DEF Taken, Stays, KeepsFlags, Present
  <2>. QED  BY <2>2, <2>3
<1>8. Alone'
  BY <1>5, Zenon DEF Sole, Alone, Live, Lives
<1>9. Plain'
  <2>1. ASSUME "delayed" \notin Modes, NEW j \in Job, row'[j] # NoRow
        PROVE  row'[j].delay = "none"
    <3>1. row[j] # NoRow => row[j].delay = "none"
      BY <2>1 DEF Sole, Plain, Present
    <3>. QED  BY <1>3, <2>1, <3>1, Zenon DEF Taken, Stays, KeepsFlags
  <2>. QED  BY <2>1, Zenon DEF Plain, Present
<1>10. InTable'
  BY <1>6, <1>7, Zenon DEF Sole, InTable, Present, Active
<1>11. Distinct'
  <2>. SUFFICES ASSUME NEW t \in Task, NEW u \in Task, t # u, task'[t].st # "idle", task'[u].st # "idle",
                       task'[t].job = task'[u].job
                PROVE  FALSE
    BY Zenon DEF Distinct, Active
  <2>1. CASE Active(t) /\ Active(u)
    BY <1>6, <2>1, Zenon DEF Sole, Distinct
  <2>2. CASE Active(t) /\ ~Active(u)
    BY <1>6, <1>7, <2>2
  <2>3. CASE ~Active(t) /\ Active(u)
    BY <1>6, <1>7, <2>3
  <2>4. CASE ~Active(t) /\ ~Active(u)
    BY <1>1, <2>4, Zenon DEF Active
  <2>. QED  BY <2>1, <2>2, <2>3, <2>4
<1>12. Withdrawn'
  <2>1. ASSUME NEW t \in Task, task'[t].st # "idle", row'[task'[t].job].delay # "none"
        PROVE  row'[task'[t].job].cancelled
    <3>1. CASE Active(t)
      BY <1>6, <2>1, <3>1, Zenon DEF Sole, Withdrawn
    <3>2. CASE ~Active(t)
      BY <1>7, <2>1, <3>2, Zenon
    <3>. QED  BY <3>1, <3>2
  <2>. QED  BY <2>1, Zenon DEF Withdrawn, Active
<1>13. InBatch'
  <2>1. ASSUME NEW q \in Pid, NEW j \in loop[q].todo
        PROVE  j \notin Startable /\ row'[j] = row[j] /\ Present(j) /\ j \in Job
    <3>1. j \in Job /\ Present(j) /\ row[j].delay = "due"
      BY DEF Sole, InBatch, Inv, TypeOK
    <3>2. j \notin Startable
      BY <1>2, <3>1
    <3>. QED  BY <1>3, <3>1, <3>2
  <2>2. ASSUME NEW q \in Pid, NEW j \in loop[q].todo, NEW t \in Task, task'[t].st # "idle"
        PROVE  task'[t].job # j
    <3>1. CASE Active(t)
      BY <1>6, <3>1 DEF Sole, InBatch
    <3>2. CASE ~Active(t)
      BY <1>7, <2>1, <2>2, <3>2, Zenon
    <3>. QED  BY <3>1, <3>2
  <2>3. ASSUME NEW q \in Pid
        PROVE  /\ \A j \in loop[q].todo : row'[j] # NoRow /\ row'[j].delay = "due" /\ row'[j].by = q
               /\ loop[q].at # "idle" => loop[q].job \in loop[q].todo
               /\ loop[q].at = "push" => row'[loop[q].job].cancelled
    <3>1. /\ loop[q].at # "idle" => loop[q].job \in loop[q].todo
          /\ loop[q].at = "push" => loop[q].job \in loop[q].todo /\ row[loop[q].job].cancelled
          /\ \A j \in loop[q].todo : row[j].delay = "due" /\ row[j].by = q
      BY DEF Sole, InBatch
    <3>. QED  BY <2>1, <3>1, Zenon DEF Present
  <2>. QED  BY <1>1, <2>2, <2>3, Zenon DEF InBatch, Present, Active
<1>14. Unloaded'
  BY <1>5, Zenon DEF Unloaded
<1>. QED  BY <1>4, <1>6, <1>8, <1>9, <1>10, <1>11, <1>12, <1>13, <1>14, Zenon DEF Sole

\* A new closure for a job that none has: one just put into the table, or one
\* that leaves a batch.
LEMMA BegunSole ==
  ASSUME Inv, Sane, Sole, Serial, NEW p \in Pid, NEW t \in Task, NEW j \in Job,
         Begun(t, p, j), Only(j), UNCHANGED <<proc, loop>>, proc[p] = "up", Added(j, "none")
  PROVE  Sole'
<1>1. /\ task'[t].st = "tick" /\ task'[t].job = j
      /\ \A u \in Task \ {t} : task'[u] = task[u]
  BY Zenon DEF Begun
<1>2. /\ ~Present(j) /\ row'[j] # NoRow /\ row'[j].delay = "none"
      /\ \A i \in Job \ {j} : row'[i] = row[i]
  BY Zenon DEF Added, Only
<1>3. \A u \in Task : Active(u) => task[u].job \in Job \ {j} /\ u # t
  BY <1>2 DEF Sole, InTable, Inv, Shape, TaskOwned, Begun
<1>4. \A q \in Pid : \A i \in loop[q].todo : i \in Job \ {j} /\ row'[i] = row[i]
  BY <1>2 DEF Sole, InBatch, Inv, TypeOK
<1>5. ASSUME NEW u \in Task, task'[u].st # "idle"
      PROVE  \/ u = t
             \/ u # t /\ Active(u) /\ task'[u] = task[u] /\ row'[task[u].job] = row[task[u].job]
  BY <1>1, <1>2, <1>3, <1>5, Zenon DEF Active
<1>6. Alone' /\ Unloaded'
  BY Zenon DEF Sole, Alone, Live, Unloaded
<1>7. Plain'
  BY <1>2, Zenon DEF Sole, Plain, Present
<1>8. InTable'
  <2>1. ASSUME NEW u \in Task, task'[u].st # "idle"  PROVE row'[task'[u].job] # NoRow
    <3>1. CASE u = t
      BY <1>1, <1>2, <3>1, Zenon
    <3>2. CASE u # t
      BY <1>5, <2>1, <3>2, Zenon DEF Sole, InTable, Present
    <3>. QED  BY <3>1, <3>2
  <2>. QED  BY <2>1, Zenon DEF InTable, Present, Active
<1>9. Distinct'
  <2>. SUFFICES ASSUME NEW u \in Task, NEW v \in Task, u # v, task'[u].st # "idle", task'[v].st # "idle"
                PROVE  task'[u].job # task'[v].job
    BY Zenon DEF Distinct, Active
  <2>1. CASE u # t /\ v # t
    BY <1>5, <2>1, Zenon DEF Sole, Distinct
  <2>2. CASE u = t \/ v = t
    BY <1>1, <1>3, <1>5, <2>2
  <2>. QED  BY <2>1, <2>2
<1>10. Withdrawn'
  <2>1. ASSUME NEW u \in Task, task'[u].st # "idle", row'[task'[u].job].delay # "none"
        PROVE  row'[task'[u].job].cancelled
    <3>1. CASE u = t
      BY <1>1, <1>2, <2>1, <3>1, Zenon
    <3>2. CASE u # t
      BY <1>5, <2>1, <3>2, Zenon DEF Sole, Withdrawn
    <3>. QED  BY <3>1, <3>2
  <2>. QED  BY <2>1, Zenon DEF Withdrawn, Active
<1>11. InBatch'
  <2>1. ASSUME NEW q \in Pid, NEW i \in loop[q].todo, NEW u \in Task, task'[u].st # "idle"
        PROVE  task'[u].job # i
    <3>1. i # j /\ (Active(u) => task[u].job # i)
      BY <1>4 DEF Sole, InBatch
    <3>. QED  BY <1>1, <1>5, <2>1, <3>1, Zenon
  <2>2. ASSUME NEW q \in Pid
        PROVE  /\ \A i \in loop[q].todo : row'[i] # NoRow /\ row'[i].delay = "due" /\ row'[i].by = q
               /\ loop[q].at # "idle" => loop[q].job \in loop[q].todo
               /\ loop[q].at = "push" => row'[loop[q].job].cancelled
    <3>1. /\ loop[q].at # "idle" => loop[q].job \in loop[q].todo
          /\ loop[q].at = "push" => loop[q].job \in loop[q].todo /\ row[loop[q].job].cancelled
          /\ \A i \in loop[q].todo : Present(i) /\ row[i].delay = "due" /\ row[i].by = q
      BY DEF Sole, InBatch
    <3>. QED  BY <1>4, <3>1, Zenon DEF Present
  <2>. QED  BY <2>1, <2>2, Zenon DEF InBatch, Present, Active
<1>. QED  BY <1>6, <1>7, <1>8, <1>9, <1>10, <1>11, Zenon DEF Sole

LEMMA PushSole ==
  ASSUME Inv, Sane, Sole, Serial, NEW p \in Pid, PushStep(p)
  PROVE  Sole'
<1>1. ASSUME NEW t \in Task, NEW j \in Job, Push(p, t, j)  PROVE Sole'
  <2>1. UNCHANGED <<proc, loop>> /\ proc[p] = "up"
    BY <1>1 DEF Push, CanPush, Serial
  <2>2. Begun(t, p, j)
    BY <1>1, NewBegins DEF Push, Inv
  <2>3. Only(j) /\ Added(j, "none")
    BY <1>1, AddMoves DEF Push, Inv
  <2>. QED  BY <2>1, <2>2, <2>3, BegunSole
<1>2. ASSUME NEW j \in Job, PushDelayed(p, j)  PROVE Sole'
  <2>1. UNCHANGED <<proc, task, loop>> /\ "delayed" \in Modes
    BY <1>2 DEF PushDelayed
  <2>2. Only(j) /\ Added(j, "later")
    BY <1>2, AddMoves DEF PushDelayed, Inv
  <2>3. Settled(j) /\ row'[j] # NoRow
    BY <2>1, <2>2, Zenon DEF Settled, Added
  <2>4. \A i \in Job : Settled(i) /\ (Present(i) => row'[i] # NoRow)
    BY <2>2, <2>3, OnlySettled, Zenon DEF Only, Present
  <2>5. \A u \in Task : Keeps(u) /\ (task'[u].st # "idle" => Active(u))
    BY <2>1, Zenon DEF Keeps, Active
  <2>. QED  BY <2>1, <2>4, <2>5, SoleRows, Zenon
<1>3. \A t \in Task, j \in Job : ~PushVolatile(p, t, j)
  BY DEF PushVolatile, Serial
<1>. QED  BY <1>1, <1>2, <1>3 DEF PushStep

LEMMA WorkerSole ==
  ASSUME Inv, Sane, Sole, Serial, NEW t \in Task, WorkerStep(t)
  PROVE  Sole'
<1>1. /\ UNCHANGED <<proc, loop>> /\ Active(t) /\ task[t].job \in Job
      /\ row' = row \/ CountRun(task[t].job)
      /\ \E next : Moved(t, next)
  BY WorkerMoves, Zenon
<1>2. \A u \in Task : Keeps(u) /\ (task'[u].st # "idle" => Active(u))
  BY <1>1, MovedOn
<1>3. \A i \in Job : Settled(i) /\ (Present(i) => row'[i] # NoRow)
  <2>1. CASE row' = row
    BY <2>1, Zenon DEF Settled, Present
  <2>2. CASE CountRun(task[t].job)
    <3>1. PICK j \in Job : j = task[t].job
      BY <1>1
    <3>2. Only(j) /\ Present(j) /\ Runs(j)
      BY <1>1, <2>2, <3>1, CountRunMoves DEF Inv, Sole, InTable
    <3>3. Settled(j) /\ row'[j] # NoRow
      BY <3>2, Zenon DEF Runs, Stays, KeepsClaim, KeepsFlags, Settled, Onward
    <3>. QED  BY <3>2, <3>3, OnlySettled, Zenon DEF Only, Present
  <2>. QED  BY <1>1, <2>1, <2>2
<1>. QED  BY <1>1, <1>2, <1>3, SoleRows, Zenon

LEMMA CompleteSole ==
  ASSUME Inv, Sane, Sole, Serial, NEW t \in Task, CompleteStep(t)
  PROVE  Sole'
<1>1. UNCHANGED <<proc, loop>> /\ Active(t) /\ task[t].pid \in Pid /\ task[t].job \in Job
  BY CompleteMoves, Zenon
<1>2. PICK p \in Pid, j \in Job : p = task[t].pid /\ j = task[t].job
  BY <1>1
<1>3. /\ Present(j) /\ Live(p)
      /\ \A q \in Pid : j \notin loop[q].todo
  BY <1>1, <1>2 DEF Sole, InTable, InBatch, Sane, Alive
<1>4. CASE Clear(t) /\ Gone(t)
  <2>1. Only(j) /\ row'[j] = NoRow
    BY <1>2, <1>4, DeleteMoves DEF Clear, Inv
  <2>2. \A i \in Job : Settled(i)
    BY <2>1, OnlySettled, Zenon DEF Settled
  <2>3. \A i \in Job \ {j} : row'[i] = row[i]
    BY <2>1 DEF Only
  <2>4. ASSUME NEW u \in Task
        PROVE  task'[u].st = "idle" \/ (Active(u) /\ Keeps(u) /\ row'[task[u].job] # NoRow)
    <3>1. CASE u = t \/ ~Active(u)
      BY <1>4, <3>1, IdleIdle, Zenon DEF Gone, Active
    <3>2. CASE u # t /\ Active(u)
      <4>1. task[u].job # j
        BY <1>1, <1>2, <3>2 DEF Sole, Distinct
      <4>2. row[task[u].job] # NoRow /\ task[u].job \in Job
        BY <3>2 DEF Sole, InTable, Present, Inv, Shape, TaskOwned
      <4>. QED  BY <1>4, <2>3, <3>2, <4>1, <4>2, Zenon DEF Gone, Keeps
    <3>. QED  BY <3>1, <3>2
  <2>5. ASSUME NEW q \in Pid
        PROVE  /\ \A i \in loop'[q].todo : i \in loop[q].todo /\ row'[i] # NoRow
               /\ loop'[q].at # "idle" => loop'[q].job \in loop'[q].todo
               /\ loop'[q].at = "push" => row'[loop'[q].job].cancelled
    <3>1. \A i \in loop[q].todo : row'[i] = row[i]
      BY <1>3, <2>3 DEF Inv, TypeOK
    <3>2. /\ loop[q].at # "idle" => loop[q].job \in loop[q].todo
          /\ loop[q].at = "push" => loop[q].job \in loop[q].todo /\ row[loop[q].job].cancelled
          /\ \A i \in loop[q].todo : Present(i)
      BY DEF Sole, InBatch
    <3>. QED  BY <1>1, <3>1, <3>2, Zenon DEF Present
  <2>. QED  BY <1>1, <2>2, <2>4, <2>5, SoleStays, Zenon
<1>5. ASSUME \/ Gone(t) \/ \E next : Moved(t, next),
             row' = row \/ (Only(j) /\ Stays(j) /\ KeepsFlags(j) /\ row'[j].by = p)
      PROVE  Sole'
  <2>1. \A u \in Task : Keeps(u) \/ task'[u].st = "idle"
    BY <1>1, <1>5, MovedOn, IdleIdle, Zenon DEF Gone, Keeps
  <2>2. \A u \in Task : task'[u].st # "idle" => Active(u)
    BY <1>1, <1>5, MovedOn, IdleIdle, Zenon DEF Gone, Active
  <2>3. \A i \in Job : Settled(i) /\ (Present(i) => row'[i] # NoRow)
    <3>1. CASE row' = row
      BY <3>1, Zenon DEF Settled, Present
    <3>2. CASE Only(j) /\ Stays(j) /\ KeepsFlags(j) /\ row'[j].by = p
      <4>1. Settled(j)
        BY <1>3, <3>2, Zenon DEF Stays, KeepsFlags, Settled, Onward
      <4>. QED  BY <3>2, <4>1, OnlySettled, Zenon DEF Only, Present, Stays
    <3>. QED  BY <1>5, <3>1, <3>2
  <2>. QED  BY <1>1, <2>1, <2>2, <2>3, SoleRows, Zenon
<1>6. CASE (GiveUp(t) /\ Moved(t, {"clear"})) \/ (PlanRetry(t) /\ Moved(t, {"update"}))
  <2>1. ClaimRow(p, j) /\ Claimable(p, j)
    BY <1>2, <1>6, Zenon DEF GiveUp, PlanRetry
  <2>2. Only(j) /\ Taken(p, j)
    BY <2>1, ClaimRowMoves DEF Inv
  <2>. QED  BY <1>5, <1>6, <2>2, Zenon DEF Taken
<1>7. CASE SaveRetry(t) /\ Moved(t, {"backoff"})
  <2>1. Only(j) /\ Counts(p, j, task[t].seen + 1)
    BY <1>1, <1>2, <1>7, SaveRetryMoves DEF Inv
  <2>. QED  BY <1>5, <1>7, <2>1, Zenon DEF Counts
<1>8. CASE \/ SaveRetryRefused(t) /\ Moved(t, {"clear"})
           \/ row' = row /\ Moved(t, {"check", "wait"})
  BY <1>5, <1>8, Zenon DEF SaveRetryRefused
<1>9. CASE Disown(t) /\ Gone(t)
  BY <1>5, <1>9, Zenon DEF Disown
<1>10. ~ClearFails(t) /\ ~CompleteFails(t)
  BY DEF ClearFails, CompleteFails, Serial
<1>. QED  BY <1>4, <1>6, <1>7, <1>8, <1>9, <1>10, CompleteMoves, Zenon

LEMMA TouchedSettled ==
  ASSUME NEW p \in Pid, NEW j \in Job, Live(p), Touched(p, j)
  PROVE  Settled(j) /\ row'[j] # NoRow
BY Zenon DEF Touched, Stays, Settled, Onward

LEMMA ApiActs ==
  ASSUME Inv, Sane, NEW p \in Pid, ApiStep(p)
  PROVE  Live(p)
<1>1. Live(p) \/ api[p].at # "idle"
  BY SMT DEF ApiStep, GetJob, ApiCall, DeleteGet, ApiUpdate, ApiRemove, ApiFails
<1>. QED  BY <1>1 DEF Sane, Alive, NoCall

LEMMA ApiSole ==
  ASSUME Inv, Sane, Called, Sole, Serial, NEW p \in Pid, ApiStep(p)
  PROVE  Sole'
<1>1. "delete" \notin Api /\ Live(p)
  BY ApiActs DEF Serial
<1>2. UNCHANGED <<proc, task, loop>> /\ (row' = row \/ \E j \in Job : Only(j) /\ Touched(p, j))
  BY <1>1, ApiMoves
<1>3. \A i \in Job : Settled(i) /\ (Present(i) => row'[i] # NoRow)
  <2>1. CASE row' = row
    BY <2>1, Zenon DEF Settled, Present
  <2>2. ASSUME NEW j \in Job, Only(j), Touched(p, j)
        PROVE  \A i \in Job : Settled(i) /\ (Present(i) => row'[i] # NoRow)
    <3>1. Settled(j) /\ row'[j] # NoRow
      BY <1>1, <2>2, TouchedSettled
    <3>. QED  BY <2>2, <3>1, OnlySettled, Zenon DEF Only, Present
  <2>. QED  BY <1>2, <2>1, <2>2
<1>4. \A u \in Task : Keeps(u) /\ (task'[u].st # "idle" => Active(u))
  BY <1>2, Zenon DEF Keeps, Active
<1>. QED  BY <1>2, <1>3, <1>4, SoleRows, Zenon

LEMMA ScanSole ==
  ASSUME Inv, Sane, Sole, Serial, NEW p \in Pid, Live(p), LoopScans(p), UNCHANGED proc,
         \A q \in Pid \ {p} : loop'[q] = loop[q]
  PROVE  Sole' /\ \A j \in Job : row'[j] = row[j] \/ (j \in Due /\ Taken(p, j))
<1>1. /\ task' = task /\ loop'[p].todo = Fetched(p, Due) /\ loop'[p].at = "idle"
      /\ MarkRows(p, Due)
  BY Zenon DEF LoopScans
<1>2. Due \in SUBSET Job /\ (\A j \in Due : Present(j) /\ row[j].delay = "due" /\ ~row[j].cancelled)
  BY DEF Due
<1>3. /\ \A j \in Marked(Due) : Taken(p, j) /\ row[j].fresh = FALSE
      /\ \A j \in Job \ Marked(Due) : row'[j] = row[j]
      /\ Marked(Due) \subseteq Due
  BY <1>1, <1>2, MarkRowsMoves DEF Inv
<1>4. \A j \in Job : row'[j] = row[j] \/ (j \in Due /\ Taken(p, j))
  BY <1>3, Zenon
<1>5. \A j \in Job : Present(j) => /\ row'[j] # NoRow /\ row'[j].delay = row[j].delay
                                   /\ row'[j].cancelled = row[j].cancelled
  BY <1>4, Zenon DEF Taken, Stays, KeepsFlags, Present
<1>6. \A j \in Job : ~Present(j) => row'[j] = NoRow
  BY <1>2, <1>4, Zenon DEF Present
<1>7. \A u \in Task : Active(u) => Present(task[u].job) /\ task[u].job \in Job \ Due
  <2>1. \A u \in Task : Active(u) => Present(task[u].job) /\ task[u].job \in Job
    BY DEF Sole, InTable, Inv, Shape, TaskOwned
  <2>. QED  BY <1>2, <2>1 DEF Sole, Withdrawn
<1>8. Plain'
  BY <1>5, <1>6, Zenon DEF Sole, Plain, Present
<1>9. InTable'
  BY <1>1, <1>5, <1>7, Zenon DEF InTable, Present, Active
<1>10. Distinct' /\ Alone'
  BY <1>1, Zenon DEF Sole, Distinct, Alone, Active, Live
<1>11. Withdrawn'
  <2>1. ASSUME NEW u \in Task, Active(u), row'[task[u].job].delay # "none"
        PROVE  row'[task[u].job].cancelled
    <3>1. row[task[u].job].delay # "none" => row[task[u].job].cancelled
      BY <2>1 DEF Sole, Withdrawn
    <3>. QED  BY <1>5, <1>7, <2>1, <3>1, Zenon
  <2>. QED  BY <1>1, <2>1, Zenon DEF Withdrawn, Active
<1>12. Unloaded'
  <2>1. ASSUME \A q \in Pid : proc[q] # "up", NEW u \in Task, Active(u)
        PROVE  row'[task[u].job].delay # "none"
    <3>1. row[task[u].job].delay # "none"
      BY <2>1 DEF Sole, Unloaded
    <3>. QED  BY <1>5, <1>7, <2>1, <3>1, Zenon
  <2>. QED  BY <1>1, <2>1, Zenon DEF Unloaded, Active
<1>13. InBatch'
  <2>1. ASSUME NEW j \in Fetched(p, Due)
        PROVE  /\ row'[j] # NoRow /\ row'[j].delay = "due" /\ row'[j].by = p
               /\ \A t \in Task : Active(t) => task[t].job # j
    <3>1. j \in Due /\ j \in Job /\ (j \in Marked(Due) \/ row[j].by = p)
      BY <1>2, <1>3 DEF Fetched
    <3>2. row'[j].by = p
      BY <1>3, <3>1, Zenon DEF Taken
    <3>. QED  BY <1>2, <1>5, <1>7, <3>1, <3>2
  <2>2. ASSUME NEW q \in Pid \ {p}  PROVE loop[q] = LoopAsleep
    <3>1. ~Live(q)
      BY DEF Sole, Alone
    <3>. QED  BY <3>1 DEF Sane, Alive
  <2>3. LoopAsleep.todo = {} /\ LoopAsleep.at = "idle"
    BY DEF LoopAsleep
  <2>4. loop'[p].at # "push"
    BY <1>1
  <2>5. ASSUME NEW q \in Pid
        PROVE  /\ \A j \in loop'[q].todo : row'[j] # NoRow /\ row'[j].delay = "due" /\ row'[j].by = q
               /\ \A j \in loop'[q].todo, t \in Task : Active(t) => task[t].job # j
               /\ loop'[q].at # "idle" => loop'[q].job \in loop'[q].todo
               /\ loop'[q].at = "push" => row'[loop'[q].job].cancelled
    <3>1. CASE q = p
      BY <1>1, <2>1, <2>4, <3>1, Zenon
    <3>2. CASE q # p
      BY <2>2, <2>3, <3>2
    <3>. QED  BY <3>1, <3>2
  <2>. QED  BY <1>1, <2>5, Zenon DEF InBatch, Present, Active
<1>. QED  BY <1>4, <1>8, <1>9, <1>10, <1>11, <1>12, <1>13, Zenon DEF Sole

LEMMA LoopPushSole ==
  ASSUME Inv, Sane, Sole, NEW p \in Pid, NEW t \in Task, LoopPushes(p, t), UNCHANGED proc,
         \A q \in Pid \ {p} : loop'[q] = loop[q]
  PROVE  Sole'
<1>1. PICK j \in Job : j = loop[p].job
  BY DEF LoopPushes
<1>2. /\ loop[p].at = "push" /\ row' = row /\ Begun(t, p, j)
      /\ loop'[p].todo = loop[p].todo \ {j} /\ loop'[p].at = "idle"
  BY <1>1, Zenon DEF LoopPushes
<1>3. /\ Present(j) /\ row[j].delay = "due" /\ row[j].by = p /\ row[j].cancelled
      /\ j \in loop[p].todo /\ \A u \in Task : Active(u) => task[u].job # j
  BY <1>1, <1>2 DEF Sole, InBatch
<1>4. /\ task'[t].st = "tick" /\ task'[t].job = j
      /\ \A u \in Task \ {t} : task'[u] = task[u]
  BY <1>2, Zenon DEF Begun
<1>5. \A q \in Pid : loop'[q].todo \subseteq loop[q].todo /\ j \notin loop'[q].todo
  BY <1>2, <1>3 DEF Sole, InBatch
<1>6. ASSUME NEW u \in Task, task'[u].st # "idle"
      PROVE  u = t \/ (u # t /\ Active(u) /\ task'[u] = task[u] /\ task[u].job # j)
  BY <1>3, <1>4, <1>6, Zenon DEF Active
<1>7. Alone' /\ Plain'
  BY <1>2, Zenon DEF Sole, Alone, Plain, Live, Present
<1>8. InTable'
  <2>1. ASSUME NEW u \in Task, task'[u].st # "idle"  PROVE Present(task'[u].job)
    <3>1. CASE u = t
      BY <1>3, <1>4, <3>1, Zenon
    <3>2. CASE u # t
      BY <1>6, <2>1, <3>2, Zenon DEF Sole, InTable
    <3>. QED  BY <3>1, <3>2
  <2>. QED  BY <1>2, <2>1, Zenon DEF InTable, Present, Active
<1>9. Distinct'
  <2>. SUFFICES ASSUME NEW u \in Task, NEW v \in Task, u # v, task'[u].st # "idle", task'[v].st # "idle"
                PROVE  task'[u].job # task'[v].job
    BY Zenon DEF Distinct, Active
  <2>1. CASE u # t /\ v # t
    BY <1>6, <2>1, Zenon DEF Sole, Distinct
  <2>2. CASE u = t \/ v = t
    BY <1>4, <1>6, <2>2
  <2>. QED  BY <2>1, <2>2
<1>10. Withdrawn'
  <2>1. ASSUME NEW u \in Task, task'[u].st # "idle", row[task'[u].job].delay # "none"
        PROVE  row[task'[u].job].cancelled
    <3>1. CASE u = t
      BY <1>3, <1>4, <3>1, Zenon
    <3>2. CASE u # t
      BY <1>6, <2>1, <3>2, Zenon DEF Sole, Withdrawn
    <3>. QED  BY <3>1, <3>2
  <2>. QED  BY <1>2, <2>1, Zenon DEF Withdrawn, Active
<1>11. Unloaded'
  <2>1. row[j].delay # "none"
    BY <1>3
  <2>2. ASSUME \A q \in Pid : proc[q] # "up", NEW u \in Task, task'[u].st # "idle"
        PROVE  row[task'[u].job].delay # "none"
    <3>1. CASE u = t
      BY <1>4, <2>1, <3>1, Zenon
    <3>2. CASE u # t
      BY <1>6, <2>2, <3>2, Zenon DEF Sole, Unloaded
    <3>. QED  BY <3>1, <3>2
  <2>. QED  BY <1>2, <2>2, Zenon DEF Unloaded, Active
<1>12. InBatch'
  <2>1. loop'[p].at # "push"
    BY <1>2
  <2>2. ASSUME NEW q \in Pid
        PROVE  /\ \A i \in loop'[q].todo : Present(i) /\ row[i].delay = "due" /\ row[i].by = q
               /\ \A i \in loop'[q].todo, u \in Task : Active(u) => task[u].job # i
    BY <1>5 DEF Sole, InBatch
  <2>3. ASSUME NEW q \in Pid
        PROVE  /\ loop'[q].at # "idle" => loop'[q].job \in loop'[q].todo
               /\ loop'[q].at = "push" => row[loop'[q].job].cancelled
    <3>1. CASE q = p
      BY <1>2, <2>1, <3>1, Zenon
    <3>2. CASE q # p
      BY <3>2, Zenon DEF Sole, InBatch
    <3>. QED  BY <3>1, <3>2
  <2>4. ASSUME NEW q \in Pid, NEW i \in loop'[q].todo, NEW u \in Task, task'[u].st # "idle"
        PROVE  task'[u].job # i
    <3>1. CASE u = t
      BY <1>4, <1>5, <3>1, Zenon
    <3>2. CASE u # t
      BY <1>6, <2>2, <2>4, <3>2, Zenon
    <3>. QED  BY <3>1, <3>2
  <2>. QED  BY <1>2, <2>2, <2>3, <2>4, Zenon DEF InBatch, Present, Active
<1>. QED  BY <1>7, <1>8, <1>9, <1>10, <1>11, <1>12, Zenon DEF Sole

\* The loop cancels a job of its batch.
LEMMA LoopTouches ==
  ASSUME Inv, Sane, Sole, NEW p \in Pid,
         LoopUpdates(p) \/ \E j \in Job : LoopCancels(p, j)
  PROVE  \E j \in loop[p].todo :
           /\ j \in Job /\ task' = task /\ Only(j) /\ Touched(p, j)
           /\ \/ loop'[p] = LoopAsleep
              \/ /\ loop'[p].todo = loop[p].todo /\ loop'[p].job = j
                 /\ loop'[p].at = "push" => row'[j].cancelled
<1>1. ASSUME NEW j \in Job, LoopCancels(p, j)
      PROVE  /\ j \in loop[p].todo /\ task' = task /\ Only(j) /\ Touched(p, j)
             /\ loop'[p].todo = loop[p].todo /\ loop'[p].job = j /\ loop'[p].at # "push"
  <2>1. /\ j \in loop[p].todo /\ ClaimRow(p, j) /\ task' = task
        /\ loop'[p].todo = loop[p].todo /\ loop'[p].job = j
        /\ Claimable(p, j) => loop'[p].at = "update"
    BY <1>1, Zenon DEF LoopCancels
  <2>2. Claimable(p, j)
    BY <2>1 DEF Sole, InBatch, Claimable
  <2>3. Only(j) /\ Taken(p, j)
    BY <2>1, <2>2, ClaimRowMoves DEF Inv
  <2>4. Touched(p, j)
    BY <2>2, <2>3, Zenon DEF Taken, Touched, KeepsFlags
  <2>. QED  BY <2>1, <2>2, <2>3, <2>4
<1>2. CASE LoopUpdates(p)
  <2>1. PICK j \in loop[p].todo : j = loop[p].job /\ j \in Job
    BY <1>2 DEF LoopUpdates, Sole, InBatch, Inv, TypeOK
  <2>2. /\ SetCancelled(p, j, TRUE) /\ task' = task
        /\ loop'[p] = LoopAsleep \/ (loop'[p].todo = loop[p].todo /\ loop'[p].job = j)
    BY <1>2, <2>1, Zenon DEF LoopUpdates
  <2>3. Claimable(p, j)
    BY <2>1 DEF Sole, InBatch, Claimable
  <2>4. Only(j) /\ Flagged(p, j, TRUE)
    <3>1. PICK b \in BOOLEAN : b = TRUE
      OBVIOUS
    <3>2. SetCancelled(p, j, b)
      BY <2>2, <3>1, Zenon
    <3>3. Only(j) /\ Flagged(p, j, b)
      BY <2>1, <2>3, <3>2, SetCancelledMoves DEF Inv
    <3>. QED  BY <3>1, <3>3, Zenon
  <2>5. Touched(p, j) /\ row'[j].cancelled
    BY <2>3, <2>4, Zenon DEF Flagged, Touched
  <2>. QED  BY <2>1, <2>2, <2>4, <2>5, Zenon
<1>. QED  BY <1>1, <1>2, Zenon

LEMMA LoopActs ==
  ASSUME Inv, Sane, NEW p \in Pid, LoopStep(p)
  PROVE  Live(p)
<1>1. Live(p) \/ loop[p].at # "idle" \/ loop[p].todo # {} \/ loop[p] # LoopAsleep
  BY Zenon DEF LoopStep, Scan, LoopCancel, LoopUpdate, LoopPush, LoopFails
<1>. QED  BY <1>1 DEF Sane, Alive, LoopAsleep

LEMMA LoopSole ==
  ASSUME Inv, Sane, Sole, Serial, NEW p \in Pid, LoopStep(p)
  PROVE  Sole'
<1>1. Live(p) /\ UNCHANGED proc /\ \A q \in Pid \ {p} : loop'[q] = loop[q]
  BY LoopMoves, LoopActs
<1>2. CASE LoopUpdates(p) \/ \E j \in Job : LoopCancels(p, j)
  <2>1. PICK j \in loop[p].todo :
           /\ j \in Job /\ task' = task /\ Only(j) /\ Touched(p, j)
           /\ \/ loop'[p] = LoopAsleep
              \/ /\ loop'[p].todo = loop[p].todo /\ loop'[p].job = j
                 /\ loop'[p].at = "push" => row'[j].cancelled
    BY <1>2, LoopTouches
  <2>2. Settled(j) /\ row'[j] # NoRow
    BY <1>1, <2>1, TouchedSettled
  <2>3. \A i \in Job : Settled(i)
    BY <2>1, <2>2, OnlySettled
  <2>4. \A i \in Job : Present(i) => row'[i] # NoRow
    BY <2>1, <2>2, Zenon DEF Only, Present
  <2>5. \A u \in Task : task'[u].st = "idle" \/ (Active(u) /\ Keeps(u) /\ row'[task[u].job] # NoRow)
    <3>1. \A u \in Task : Active(u) => Present(task[u].job) /\ task[u].job \in Job
      BY DEF Sole, InTable, Inv, Shape, TaskOwned
    <3>. QED  BY <2>1, <2>4, <3>1, Zenon DEF Active, Keeps
  <2>6. ASSUME NEW q \in Pid
        PROVE  /\ \A i \in loop'[q].todo : i \in loop[q].todo /\ row'[i] # NoRow
               /\ loop'[q].at # "idle" => loop'[q].job \in loop'[q].todo
               /\ loop'[q].at = "push" => row'[loop'[q].job].cancelled
    <3>1. \A i \in loop[q].todo : i \in Job /\ row'[i] # NoRow
      BY <2>4 DEF Sole, InBatch, Inv, TypeOK
    <3>2. CASE q = p
      <4>1. LoopAsleep.todo = {} /\ LoopAsleep.at = "idle"
        BY DEF LoopAsleep
      <4>. QED  BY <2>1, <3>1, <3>2, <4>1
    <3>3. CASE q # p
      <4>1. ~Live(q)
        BY <1>1, <3>3 DEF Sole, Alone
      <4>2. loop'[q].todo = {} /\ loop'[q].at = "idle"
        BY <1>1, <3>3, <4>1 DEF Sane, Alive, LoopAsleep
      <4>. QED  BY <4>2
    <3>. QED  BY <3>2, <3>3
  <2>. QED  BY <1>1, <2>3, <2>5, <2>6, SoleStays, Zenon
<1>3. CASE LoopStops(p)
  <2>1. \A i \in Job : Settled(i) /\ (Present(i) => row'[i] # NoRow)
    BY <1>3, Zenon DEF LoopStops, Settled, Present
  <2>2. \A u \in Task : task'[u].st = "idle" \/ (Active(u) /\ Keeps(u) /\ row'[task[u].job] # NoRow)
    <3>1. \A u \in Task : Active(u) => Present(task[u].job) /\ task[u].job \in Job
      BY DEF Sole, InTable, Inv, Shape, TaskOwned
    <3>. QED  BY <1>3, <2>1, <3>1, Zenon DEF LoopStops, Active, Keeps
  <2>3. ASSUME NEW q \in Pid
        PROVE  loop'[q].todo = {} /\ loop'[q].at = "idle"
    <3>1. CASE q = p
      BY <1>3, <3>1 DEF LoopStops, LoopAsleep
    <3>2. CASE q # p
      <4>1. ~Live(q)
        BY <1>1, <3>2 DEF Sole, Alone
      <4>. QED  BY <1>1, <3>2, <4>1 DEF Sane, Alive, LoopAsleep
    <3>. QED  BY <3>1, <3>2
  <2>4. ASSUME NEW q \in Pid
        PROVE  /\ \A i \in loop'[q].todo : i \in loop[q].todo /\ row'[i] # NoRow
               /\ loop'[q].at # "idle" => loop'[q].job \in loop'[q].todo
               /\ loop'[q].at = "push" => row'[loop'[q].job].cancelled
    BY <2>3
  <2>. QED  BY <1>1, <2>1, <2>2, <2>4, SoleStays, Zenon
<1>. QED  BY <1>1, <1>2, <1>3, LoopMoves, ScanSole, LoopPushSole

LEMMA TimeRows ==
  ASSUME Inv, TimeStep \/ UNCHANGED vars
  PROVE  /\ UNCHANGED <<proc, task, loop>>
         /\ \/ row' = row
            \/ \E j \in Job : /\ Only(j) /\ Stays(j) /\ KeepsCount(j) /\ KeepsRuns(j)
                              /\ row'[j].by = row[j].by /\ row'[j].cancelled = row[j].cancelled
                              /\ \/ row'[j].delay = row[j].delay
                                 \/ row[j].delay = "later" /\ row'[j].delay = "due"
<1>1. UNCHANGED <<proc, task, loop>>
  BY DEF TimeStep, FallDue, Expire, LateEnd, vars
<1>2. row' = row \/ \E j \in Job : FallDue(j) \/ Expire(j)
  BY Zenon DEF TimeStep, LateEnd, vars
<1>3. ASSUME NEW j \in Job, FallDue(j)
      PROVE  /\ Only(j) /\ Stays(j) /\ KeepsCount(j) /\ KeepsRuns(j)
             /\ row'[j].by = row[j].by /\ row'[j].cancelled = row[j].cancelled
             /\ row[j].delay = "later" /\ row'[j].delay = "due"
  <2>1. /\ Only(j) /\ Stays(j) /\ KeepsClaim(j) /\ KeepsCount(j) /\ KeepsRuns(j)
        /\ row[j].delay = "later" /\ row'[j].delay = "due"
        /\ row'[j].cancelled = row[j].cancelled
    BY <1>3, FallDueMoves DEF Inv
  <2>. QED  BY <2>1, Zenon DEF KeepsClaim
<1>4. ASSUME NEW j \in Job, Expire(j)
      PROVE  /\ Only(j) /\ Stays(j) /\ KeepsCount(j) /\ KeepsRuns(j)
             /\ row'[j].by = row[j].by /\ row'[j].cancelled = row[j].cancelled
             /\ row'[j].delay = row[j].delay
  <2>1. /\ Only(j) /\ Stays(j) /\ KeepsFlags(j) /\ KeepsCount(j) /\ KeepsRuns(j)
        /\ row'[j].by = row[j].by
    BY <1>4, ExpireMoves DEF Inv
  <2>. QED  BY <2>1, Zenon DEF KeepsFlags
<1>. QED  BY <1>1, <1>2, <1>3, <1>4, Zenon

LEMMA NextSole ==
  ASSUME Serial
  PROVE  Inv /\ Sane /\ Called /\ Sole /\ [Next]_vars => Sole'
<1>. SUFFICES ASSUME Inv, Sane, Called, Sole, [Next]_vars PROVE Sole'
  OBVIOUS
<1>1. CASE TimeStep \/ UNCHANGED vars
  <2>1. UNCHANGED <<proc, task, loop>>
    BY <1>1, TimeRows
  <2>2. \A i \in Job : Settled(i) /\ (Present(i) => row'[i] # NoRow)
    <3>1. CASE row' = row
      BY <3>1, Zenon DEF Settled, Present
    <3>2. ASSUME NEW j \in Job, Only(j), Stays(j), row'[j].by = row[j].by,
                 row'[j].cancelled = row[j].cancelled,
                 row'[j].delay = row[j].delay \/ (row[j].delay = "later" /\ row'[j].delay = "due")
          PROVE  \A i \in Job : Settled(i) /\ (Present(i) => row'[i] # NoRow)
      <4>1. Settled(j) /\ row'[j] # NoRow
        BY <3>2, Zenon DEF Settled, Onward, Stays
      <4>. QED  BY <3>2, <4>1, OnlySettled, Zenon DEF Only, Present
    <3>. QED  BY <1>1, <3>1, <3>2, TimeRows, Zenon
  <2>3. \A u \in Task : Keeps(u) /\ (task'[u].st # "idle" => Active(u))
    BY <2>1, Zenon DEF Keeps, Active
  <2>. QED  BY <2>1, <2>2, <2>3, SoleRows, Zenon
<1>2. ASSUME NEW p \in Pid, ProcessStep(p)  PROVE Sole'
  BY <1>2, StartSole, PopulateSole, CrashSole DEF ProcessStep, PopulateFails, Serial
<1>. QED  BY <1>1, <1>2, PushSole, WorkerSole, CompleteSole, ApiSole, LoopSole DEF Next

LEMMA InitSole == Init => Sole
<1>. SUFFICES ASSUME Init PROVE Sole
  OBVIOUS
<1>1. \A j \in Job : ~Present(j)
  BY DEF Init, Present
<1>2. \A t \in Task : ~Active(t)
  BY IdleIdle DEF Init, Active
<1>3. \A p \in Pid : loop[p].todo = {} /\ loop[p].at = "idle" /\ ~Live(p)
  BY DEF Init, LoopAsleep, Live
<1>. QED  BY <1>1, <1>2, <1>3
          DEF Sole, Alone, Plain, InTable, Distinct, Withdrawn, InBatch, Unloaded

LEMMA SoleHolds == ASSUME Serial PROVE Spec => [](Sane /\ Called /\ Sole)
<1>1. Init => Sane /\ Called /\ Sole
  BY InitSane, InitOnce, InitSole
<1>2. "delete" \notin Api
  BY DEF Serial
<1>3. Inv /\ (Sane /\ Called /\ Sole) /\ [Next]_vars => (Sane /\ Called /\ Sole)'
  BY <1>2, NextSane, NextCalled, NextSole
<1>. QED  BY <1>1, <1>3, Invariance, PTL DEF Spec

\* Where onJob answers in time, no execution goes on after its slot was released.
Punctual == \A p \in Pid, j \in Job : late[p][j] = 0

LEMMA NextPunctual ==
  ASSUME "timeout" \notin Env
  PROVE  Inv /\ Punctual /\ [Next]_vars => Punctual'
<1>. SUFFICES ASSUME Inv, Punctual, [Next]_vars PROVE Punctual'
  OBVIOUS
<1>1. CASE late' = late
  BY <1>1, Zenon DEF Punctual
<1>2. ASSUME NEW p \in Pid, Crash(p)  PROVE Punctual'
  <2>1. late \in [Pid -> [Job -> Nat]] /\ late' = [late EXCEPT ![p] = [j \in Job |-> 0]]
    BY <1>2 DEF Crash, Inv, TypeOK
  <2>2. late'[p] = [j \in Job |-> 0] /\ \A q \in Pid \ {p} : late'[q] = late[q]
    BY <2>1, SMT
  <2>. QED  BY <2>2 DEF Punctual
<1>3. ASSUME NEW p \in Pid, ProcessStep(p) \/ PushStep(p) \/ ApiStep(p) \/ LoopStep(p)
      PROVE  Punctual'
  <2>1. late' = late \/ Crash(p)
    BY <1>3, Zenon DEF ProcessStep, Start, Populate, PopulateFails, PushStep, Push, PushDelayed,
         PushVolatile, ApiStep, GetJob, ApiCall, DeleteGet, ApiUpdate, ApiRemove, ApiFails,
         LoopStep, Scan, LoopUpdate, LoopCancel, LoopPush, LoopFails
  <2>. QED  BY <1>1, <1>2, <2>1
<1>4. ASSUME NEW t \in Task, WorkerStep(t) \/ CompleteStep(t)  PROVE Punctual'
  <2>1. ~TimeOut(t)
    BY DEF TimeOut
  <2>2. late' = late
    BY <1>4, <2>1, CompleteMoves, Zenon
       DEF WorkerStep, QueueJob, CheckCancelled, CheckFails, Begin, Succeed, Fail
  <2>. QED  BY <1>1, <2>2
<1>5. CASE TimeStep
  <2>1. ASSUME NEW p \in Pid, NEW j \in Job  PROVE ~LateEnd(p, j)
    BY DEF LateEnd, Punctual
  <2>2. late' = late
    BY <1>5, <2>1 DEF TimeStep, FallDue, Expire
  <2>. QED  BY <1>1, <2>2
<1>6. CASE UNCHANGED vars
  BY <1>1, <1>6 DEF vars
<1>. QED  BY <1>3, <1>4, <1>5, <1>6 DEF Next

\* Two executions of a job never overlap, whatever crashes, restarts, retries and
\* expired claims come between them: each row has one closure at most, and the
\* loop that reads the table leaves out what is in memory (index.js:87-258).
THEOREM RunsAlone ==
  ASSUME Serial, "timeout" \notin Env
  PROVE  Spec => []NoOverlap
<1>1. Sole /\ Punctual => NoOverlap
  <2>. SUFFICES ASSUME Sole, Punctual, NEW j \in Job
                PROVE  /\ Cardinality(Bodies(j)) <= 1
                       /\ \A p \in Pid : ~(late[p][j] > 0)
    BY DEF NoOverlap
  <2>1. \A t, u \in Bodies(j) : t = u
    BY DEF Bodies, Sole, Distinct, Active
  <2>. QED  BY <2>1, AtMostOne DEF Punctual
<1>2. Init => Punctual
  BY DEF Init, Punctual
<1>. QED  BY <1>1, <1>2, SoleHolds, NextPunctual, Invariance, PTL DEF Spec
-----------------------------------------------------------------------------
(* What is counted, one process at a time: the executions of a job against   *)
(* its retries and the processes that died.                                  *)
\* One more execution is allowed.
Spare(r, d) == r.ran + 1 <= r.retryCount + d
Within(r, d) == r.retryCount >= 1 /\ r.ran <= r.retryCount + d
\* A job that is still scheduled was never run.
Unrun(r) == r.delay # "none" /\ ~r.cancelled => r.ran = 0
\* What a closure knows of its row.
Fits(c, r, d) ==
  /\ c.st = "update" => r.retryCount = c.seen
  /\ c.st \in {"run", "claim", "update", "backoff"} => r.ran > 0
  /\ c.st = "clear" => r.ran > 0 \/ r.cancelled \/ "restore" \in Api
  /\ c.st \in {"tick", "wait", "check", "backoff"} => Spare(r, d)

Tally ==
  /\ IsFiniteSet(Dead)
  /\ \A j \in Job : Present(j) => Within(row[j], Deaths) /\ Unrun(row[j])
  /\ \A t \in Task : Active(t) => Fits(task[t], row[task[t].job], Deaths)
  /\ \A p \in Pid : \A j \in loop[p].todo : row[j].ran = 0
  /\ (\A p \in Pid : proc[p] # "up") =>
        \A j \in Job : Present(j) /\ row[j].delay = "none" => Spare(row[j], Deaths)

\* The row's flags and schedule move on, its counts stand.
Amended(r, s) == s.retryCount = r.retryCount /\ s.ran = r.ran /\ Onward(r, s)

LEMMA AmendedSame == \A r : Amended(r, r)
BY Zenon DEF Amended, Onward

LEMMA FitsOn ==
  ASSUME NEW c, NEW b, NEW r, NEW s, NEW d, Fits(c, r, d), Amended(r, s),
         b.seen = c.seen, b.st = c.st
  PROVE  Fits(b, s, d)
<1>1. Spare(r, d) => Spare(s, d)
  BY Zenon DEF Spare, Amended
<1>2. r.ran > 0 => s.ran > 0
  BY Zenon DEF Amended
<1>3. s.retryCount = r.retryCount /\ (r.cancelled => s.cancelled \/ "restore" \in Api)
  BY Zenon DEF Amended, Onward
<1>. QED  BY <1>1, <1>2, <1>3, Zenon DEF Fits

LEMMA FitsSame ==
  ASSUME NEW c, NEW r, NEW s, NEW d, Fits(c, r, d), Amended(r, s)  PROVE Fits(c, s, d)
BY FitsOn

LEMMA FitsLike ==
  ASSUME NEW c, NEW b, NEW r, NEW d, Fits(c, r, d), b.seen = c.seen, b.st = c.st
  PROVE  Fits(b, r, d)
BY FitsOn, AmendedSame

\* An entry that waited takes a slot.
LEMMA FitsNext ==
  ASSUME NEW c, NEW b, NEW r, NEW d, Fits(c, r, d),
         c.st \in {"tick", "wait", "backoff"}, b.st \in {"wait", "check"}
  PROVE  Fits(b, r, d)
<1>1. Spare(r, d)
  BY DEF Fits
<1>. QED  BY <1>1 DEF Fits

LEMMA WithinOn ==
  ASSUME NEW r, NEW s, NEW d, Amended(r, s), "restore" \in Api => r.delay = "none"
  PROVE  /\ Within(r, d) => Within(s, d)
         /\ Unrun(r) => Unrun(s)
         /\ Spare(r, d) => Spare(s, d)
<1>1. (Within(r, d) => Within(s, d)) /\ (Spare(r, d) => Spare(s, d))
  BY Zenon DEF Amended, Within, Spare
<1>2. s.delay # "none" => r.delay # "none"
  BY DEF Amended, Onward
<1>3. Unrun(r) => Unrun(s)
  BY <1>2, Zenon DEF Amended, Onward, Unrun
<1>. QED  BY <1>1, <1>3

LEMMA DeathsNat ==
  ASSUME Tally  PROVE Deaths \in Nat
BY FS_CardinalityType DEF Tally, Deaths

\* The processes that die are counted one by one.
LEMMA SameDeaths ==
  ASSUME Tally, \A p \in Pid : proc'[p] = "dead" <=> proc[p] = "dead"
  PROVE  Deaths' = Deaths /\ IsFiniteSet(Dead)'
<1>1. Dead' = Dead
  BY DEF Dead
<1>. QED  BY <1>1, Zenon DEF Tally, Deaths

\* Steps in which only rows are amended, and batches take rows never run.
LEMMA TallyRows ==
  ASSUME Inv, Sole, Serial, Tally, UNCHANGED <<proc, task>>,
         \A j \in Job : row'[j] = row[j] \/ (Stays(j) /\ Amended(row[j], row'[j])),
         \A q \in Pid : \A j \in loop'[q].todo :
           j \in loop[q].todo \/ (j \in Job /\ row[j].ran = 0)
  PROVE  Tally'
<1>1. Deaths' = Deaths /\ IsFiniteSet(Dead)'
  BY SameDeaths
<1>2. \A j \in Job : Amended(row[j], row'[j])
  BY AmendedSame, Zenon
<1>3. \A j \in Job : row'[j] # NoRow => Present(j)
  BY Zenon DEF Stays, Present
<1>4. \A j \in Job : Present(j) => ("restore" \in Api => row[j].delay = "none")
  BY DEF Sole, Plain, Serial
<1>5. ASSUME NEW j \in Job, row'[j] # NoRow
      PROVE  /\ Within(row'[j], Deaths) /\ Unrun(row'[j])
             /\ Spare(row[j], Deaths) => Spare(row'[j], Deaths)
             /\ row'[j].delay = "none" => row[j].delay = "none"
  <2>1. Within(row[j], Deaths) /\ Unrun(row[j])
    BY <1>3, <1>5 DEF Tally
  <2>2. Amended(row[j], row'[j]) /\ ("restore" \in Api => row[j].delay = "none")
    BY <1>2, <1>3, <1>4, <1>5
  <2>3. row'[j].delay = "none" => row[j].delay = "none"
    BY <2>2 DEF Amended, Onward
  <2>. QED  BY <2>1, <2>2, <2>3, WithinOn, Zenon
<1>6. ASSUME NEW t \in Task, Active(t)  PROVE Fits(task[t], row'[task[t].job], Deaths)
  <2>1. task[t].job \in Job /\ Fits(task[t], row[task[t].job], Deaths)
    BY <1>6 DEF Tally, Inv, Shape, TaskOwned
  <2>. QED  BY <1>2, <2>1, FitsSame, Zenon
<1>7. ASSUME NEW q \in Pid, NEW j \in loop'[q].todo  PROVE row'[j].ran = 0
  <2>1. j \in Job /\ row[j].ran = 0
    BY DEF Tally, Inv, TypeOK
  <2>. QED  BY <1>2, <2>1, Zenon DEF Amended
<1>8. ASSUME \A p \in Pid : proc[p] # "up", NEW j \in Job, row'[j] # NoRow, row'[j].delay = "none"
      PROVE  Spare(row'[j], Deaths)
  <2>1. Present(j) /\ row[j].delay = "none"
    BY <1>3, <1>5, <1>8
  <2>2. Spare(row[j], Deaths)
    BY <1>8, <2>1 DEF Tally
  <2>. QED  BY <1>5, <1>8, <2>2
<1>. QED  BY <1>1, <1>5, <1>6, <1>7, <1>8, Zenon DEF Tally, Present, Active

\* Steps that take one closure on, or end it, and write the row of its job.
LEMMA TallyActs ==
  ASSUME Inv, Sole, Serial, Tally, UNCHANGED <<proc, loop>>,
         NEW t \in Task, NEW j \in Job, Active(t), task[t].job = j, Only(j),
         \/ row'[j] = NoRow
         \/ /\ row'[j] # NoRow /\ Within(row'[j], Deaths) /\ Unrun(row'[j])
            /\ row'[j].delay = row[j].delay,
         \/ task'[t].st = "idle"
         \/ task'[t].job = j /\ Fits(task'[t], row'[j], Deaths),
         \A u \in Task \ {t} : Stands(u)
  PROVE  Tally'
<1>1. Deaths' = Deaths /\ IsFiniteSet(Dead)'
  BY SameDeaths
<1>2. \A i \in Job \ {j} : row'[i] = row[i]
  BY DEF Only
<1>3. ASSUME NEW i \in Job, row'[i] # NoRow  PROVE Within(row'[i], Deaths) /\ Unrun(row'[i])
  BY <1>2, <1>3, Zenon DEF Tally, Present
<1>4. ASSUME NEW u \in Task, task'[u].st # "idle"
      PROVE  Fits(task'[u], row'[task'[u].job], Deaths)
  <2>1. CASE u = t
    BY <1>4, <2>1, Zenon
  <2>2. CASE u # t
    <3>1. /\ Active(u) /\ task'[u].job = task[u].job /\ task'[u].seen = task[u].seen
          /\ task'[u].st = task[u].st \/ (task[u].st = "wait" /\ task'[u].st = "check")
      BY <1>4, <2>2 DEF Stands, Active
    <3>2. task[u].job \in Job \ {j} /\ Fits(task[u], row[task[u].job], Deaths)
      BY <2>2, <3>1 DEF Tally, Sole, Distinct, Inv, Shape, TaskOwned
    <3>3. Amended(row[task[u].job], row'[task[u].job])
      BY <1>2, <3>2, AmendedSame, Zenon
    <3>4. Fits(task[u], row'[task[u].job], Deaths)
      BY <3>2, <3>3, FitsSame, Zenon
    <3>5. CASE task'[u].st = task[u].st
      BY <3>1, <3>4, <3>5, FitsLike, Zenon
    <3>6. CASE task[u].st = "wait" /\ task'[u].st = "check"
      BY <3>1, <3>4, <3>6, FitsNext
    <3>. QED  BY <3>1, <3>5, <3>6
  <2>. QED  BY <2>1, <2>2
<1>5. ASSUME NEW q \in Pid, NEW i \in loop[q].todo  PROVE row'[i].ran = 0
  <2>1. i \in Job \ {j} /\ row[i].ran = 0
    BY DEF Tally, Sole, InBatch, Inv, TypeOK
  <2>. QED  BY <1>2, <2>1, Zenon
<1>6. ASSUME \A p \in Pid : proc[p] # "up", NEW i \in Job, row'[i] # NoRow, row'[i].delay = "none"
      PROVE  Spare(row'[i], Deaths)
  <2>1. row[j].delay # "none"
    BY <1>6 DEF Sole, Unloaded
  <2>2. i # j
    BY <1>6, <2>1
  <2>. QED  BY <1>2, <1>6, <2>2, Zenon DEF Tally, Present
<1>. QED  BY <1>1, <1>3, <1>4, <1>5, <1>6, Zenon DEF Tally, Present, Active

\* A closure that has yet to run its job, and a row whose job was never run.
LEMMA NewFits ==
  ASSUME NEW c, NEW r, NEW d, c.st \in {"tick", "wait", "check"}, Spare(r, d)
  PROVE  Fits(c, r, d)
BY DEF Fits

LEMMA UnrunRow ==
  ASSUME NEW r, NEW d \in Nat, r.retryCount \in Nat, r.retryCount >= 1, r.ran = 0
  PROVE  Within(r, d) /\ Unrun(r) /\ Spare(r, d)
<1>1. Within(r, d) /\ Spare(r, d)
  BY SMT DEF Within, Spare
<1>2. Unrun(r)
  BY Zenon DEF Unrun
<1>. QED  BY <1>1, <1>2

\* A new closure for a job that was never run.
LEMMA TallyBegins ==
  ASSUME Inv, Sole, Tally, UNCHANGED proc, NEW p \in Pid, NEW t \in Task, NEW j \in Job,
         Begun(t, p, j), Only(j), row'[j] \in Row, row'[j].ran = 0, row'[j].retryCount >= 1,
         \A u \in Task : Active(u) => row'[task[u].job] = row[task[u].job],
         \A q \in Pid : loop'[q].todo \subseteq loop[q].todo
  PROVE  Tally'
<1>1. Deaths' = Deaths /\ IsFiniteSet(Dead)'
  BY SameDeaths
<1>2. Deaths \in Nat
  BY DeathsNat
<1>3. row'[j].retryCount \in Nat
  BY Zenon DEF Row
<1>4. Within(row'[j], Deaths) /\ Unrun(row'[j]) /\ Spare(row'[j], Deaths)
  BY <1>2, <1>3, UnrunRow
<1>5. \A i \in Job \ {j} : row'[i] = row[i]
  BY DEF Only
<1>6. ASSUME NEW i \in Job, row'[i] # NoRow
      PROVE  /\ Within(row'[i], Deaths) /\ Unrun(row'[i])
             /\ (\A q \in Pid : proc[q] # "up") /\ row'[i].delay = "none" => Spare(row'[i], Deaths)
  <2>1. CASE i = j
    BY <1>4, <2>1
  <2>2. CASE i # j
    BY <1>5, <1>6, <2>2, Zenon DEF Tally, Present
  <2>. QED  BY <2>1, <2>2
<1>7. ASSUME NEW u \in Task, task'[u].st # "idle"
      PROVE  Fits(task'[u], row'[task'[u].job], Deaths)
  <2>1. CASE u = t
    <3>1. task'[u].st = "tick" /\ task'[u].job = j
      BY <2>1, Zenon DEF Begun
    <3>. QED  BY <1>4, <3>1, NewFits
  <2>2. CASE u # t
    BY <1>7, <2>2, Zenon DEF Begun, Tally, Active
  <2>. QED  BY <2>1, <2>2
<1>8. ASSUME NEW q \in Pid, NEW i \in loop'[q].todo  PROVE row'[i].ran = 0
  <2>1. i \in loop[q].todo /\ i \in Job
    BY DEF Inv, TypeOK
  <2>. QED  BY <1>5, <2>1, Zenon DEF Tally
<1>. QED  BY <1>1, <1>6, <1>7, <1>8, Zenon DEF Tally, Present, Active

LEMMA PushTally ==
  ASSUME Inv, Sole, Serial, Tally, NEW p \in Pid, PushStep(p)
  PROVE  Tally'
<1>1. \A u \in Task : Active(u) => Present(task[u].job) /\ task[u].job \in Job
  BY DEF Sole, InTable, Inv, Shape, TaskOwned
<1>2. ASSUME NEW t \in Task, NEW j \in Job, Push(p, t, j)  PROVE Tally'
  <2>1. UNCHANGED <<proc, loop>>
    BY <1>2 DEF Push
  <2>2. Begun(t, p, j)
    BY <1>2, NewBegins DEF Push, Inv
  <2>3. Only(j) /\ Added(j, "none")
    BY <1>2, AddMoves DEF Push, Inv
  <2>4. row'[j] \in Row /\ row'[j].ran = 0 /\ row'[j].retryCount >= 1 /\ ~Present(j)
    BY <2>3 DEF Added
  <2>5. \A u \in Task : Active(u) => row'[task[u].job] = row[task[u].job]
    BY <1>1, <2>3, <2>4 DEF Only
  <2>. QED  BY <2>1, <2>2, <2>3, <2>4, <2>5, TallyBegins
<1>3. ASSUME NEW j \in Job, PushDelayed(p, j)  PROVE Tally'
  <2>1. UNCHANGED <<proc, task, loop>>
    BY <1>3 DEF PushDelayed
  <2>2. Only(j) /\ Added(j, "later")
    BY <1>3, AddMoves DEF PushDelayed, Inv
  <2>3. Deaths' = Deaths /\ IsFiniteSet(Dead)' /\ Deaths \in Nat
    BY <2>1, SameDeaths, DeathsNat
  <2>4. /\ row'[j] \in Row /\ row'[j].ran = 0 /\ row'[j].retryCount >= 1 /\ ~Present(j)
        /\ row'[j].delay # "none" /\ \A i \in Job \ {j} : row'[i] = row[i]
    BY <2>2 DEF Added, Only
  <2>5. row'[j].retryCount \in Nat
    BY <2>4, Zenon DEF Row
  <2>6. Within(row'[j], Deaths) /\ Unrun(row'[j])
    BY <2>3, <2>4, <2>5, UnrunRow
  <2>7. ASSUME NEW i \in Job, row'[i] # NoRow
        PROVE  /\ Within(row'[i], Deaths) /\ Unrun(row'[i])
               /\ (\A q \in Pid : proc[q] # "up") /\ row'[i].delay = "none" => Spare(row'[i], Deaths)
    <3>1. CASE i = j
      BY <2>4, <2>6, <3>1
    <3>2. CASE i # j
      BY <2>4, <2>7, <3>2, Zenon DEF Tally, Present
    <3>. QED  BY <3>1, <3>2
  <2>8. \A u \in Task : Active(u) => Fits(task[u], row'[task[u].job], Deaths)
    <3>1. \A u \in Task : Active(u) => row'[task[u].job] = row[task[u].job]
      BY <1>1, <2>4
    <3>. QED  BY <3>1, Zenon DEF Tally
  <2>9. ASSUME NEW q \in Pid, NEW i \in loop[q].todo  PROVE row'[i].ran = 0
    <3>1. i \in Job /\ row[i].ran = 0
      BY DEF Tally, Inv, TypeOK
    <3>. QED  BY <2>4, <3>1, Zenon
  <2>. QED  BY <2>1, <2>3, <2>7, <2>8, <2>9, Zenon DEF Tally, Present, Active
<1>4. \A t \in Task, j \in Job : ~PushVolatile(p, t, j)
  BY DEF PushVolatile, Serial
<1>. QED  BY <1>2, <1>3, <1>4 DEF PushStep

LEMMA TouchedAmends ==
  ASSUME NEW p \in Pid, NEW j \in Job, Touched(p, j)
  PROVE  Stays(j) /\ Amended(row[j], row'[j])
BY Zenon DEF Touched, KeepsCount, KeepsRuns, Amended, Onward

LEMMA OnlyAmends ==
  ASSUME NEW j \in Job, Only(j), Stays(j), Amended(row[j], row'[j])
  PROVE  \A i \in Job : row'[i] = row[i] \/ (Stays(i) /\ Amended(row[i], row'[i]))
BY Zenon DEF Only

LEMMA ApiTally ==
  ASSUME Inv, Sane, Called, Sole, Serial, Tally, NEW p \in Pid, ApiStep(p)
  PROVE  Tally'
<1>1. "delete" \notin Api
  BY DEF Serial
<1>2. UNCHANGED <<proc, task, loop>> /\ (row' = row \/ \E j \in Job : Only(j) /\ Touched(p, j))
  BY <1>1, ApiMoves
<1>3. \A i \in Job : row'[i] = row[i] \/ (Stays(i) /\ Amended(row[i], row'[i]))
  BY <1>2, TouchedAmends, OnlyAmends, Zenon
<1>4. \A q \in Pid : \A j \in loop'[q].todo : j \in loop[q].todo
  BY <1>2, Zenon
<1>. QED  BY <1>2, <1>3, <1>4, TallyRows

LEMMA TimeTally ==
  ASSUME Inv, Sole, Serial, Tally, TimeStep \/ UNCHANGED vars
  PROVE  Tally'
<1>1. UNCHANGED <<proc, task, loop>>
  BY TimeRows
<1>2. ASSUME NEW j \in Job, Only(j), Stays(j), KeepsCount(j), KeepsRuns(j),
             row'[j].cancelled = row[j].cancelled,
             row'[j].delay = row[j].delay \/ (row[j].delay = "later" /\ row'[j].delay = "due")
      PROVE  \A i \in Job : row'[i] = row[i] \/ (Stays(i) /\ Amended(row[i], row'[i]))
  <2>1. Amended(row[j], row'[j])
    BY <1>2, Zenon DEF KeepsCount, KeepsRuns, Amended, Onward
  <2>. QED  BY <1>2, <2>1, OnlyAmends
<1>3. \A i \in Job : row'[i] = row[i] \/ (Stays(i) /\ Amended(row[i], row'[i]))
  BY <1>2, TimeRows, Zenon
<1>4. \A q \in Pid : \A j \in loop'[q].todo : j \in loop[q].todo
  BY <1>1, Zenon
<1>. QED  BY <1>1, <1>3, <1>4, TallyRows

LEMMA LoopTally ==
  ASSUME Inv, Sane, Sole, Serial, Tally, NEW p \in Pid, LoopStep(p)
  PROVE  Tally'
<1>1. Live(p) /\ UNCHANGED proc /\ \A q \in Pid \ {p} : loop'[q] = loop[q]
  BY LoopMoves, LoopActs
<1>2. CASE LoopUpdates(p) \/ \E j \in Job : LoopCancels(p, j)
  <2>1. PICK j \in loop[p].todo :
           /\ j \in Job /\ task' = task /\ Only(j) /\ Touched(p, j)
           /\ loop'[p] = LoopAsleep \/ loop'[p].todo = loop[p].todo
    BY <1>2, LoopTouches, Zenon
  <2>2. \A i \in Job : row'[i] = row[i] \/ (Stays(i) /\ Amended(row[i], row'[i]))
    BY <2>1, TouchedAmends, OnlyAmends
  <2>3. \A q \in Pid : loop'[q].todo \subseteq loop[q].todo
    BY <1>1, <2>1 DEF LoopAsleep
  <2>. QED  BY <1>1, <2>1, <2>2, <2>3, TallyRows
<1>3. CASE LoopScans(p)
  <2>1. \A j \in Job : row'[j] = row[j] \/ (j \in Due /\ Taken(p, j))
    BY <1>1, <1>3, ScanSole
  <2>2. \A j \in Job : row'[j] = row[j] \/ (Stays(j) /\ Amended(row[j], row'[j]))
    BY <2>1, Zenon DEF Taken, KeepsCount, KeepsFlags, KeepsRuns, Amended, Onward
  <2>3. \A j \in Due : j \in Job /\ row[j].ran = 0
    BY DEF Due, Tally, Unrun
  <2>4. task' = task /\ loop'[p].todo = Fetched(p, Due)
    BY <1>3, Zenon DEF LoopScans
  <2>5. loop'[p].todo \subseteq Due
    BY <2>4 DEF Fetched, Marked
  <2>6. \A q \in Pid : \A j \in loop'[q].todo :
          j \in loop[q].todo \/ (j \in Job /\ row[j].ran = 0)
    BY <1>1, <2>3, <2>5
  <2>. QED  BY <1>1, <2>2, <2>4, <2>6, TallyRows
<1>4. ASSUME NEW t \in Task, LoopPushes(p, t)  PROVE Tally'
  <2>1. PICK j \in Job : j = loop[p].job
    BY <1>4 DEF LoopPushes
  <2>2. /\ loop[p].at = "push" /\ row' = row /\ Begun(t, p, j)
        /\ loop'[p].todo = loop[p].todo \ {j}
    BY <1>4, <2>1, Zenon DEF LoopPushes
  <2>3. j \in loop[p].todo /\ Present(j)
    BY <2>1, <2>2 DEF Sole, InBatch
  <2>4. row[j] \in Row /\ row[j].ran = 0 /\ row[j].retryCount >= 1
    BY <2>3, PresentRow DEF Tally, Within, Inv
  <2>5. \A q \in Pid : loop'[q].todo \subseteq loop[q].todo
    BY <1>1, <2>2
  <2>6. Only(j)
    BY <2>2 DEF Only
  <2>. QED  BY <1>1, <2>2, <2>4, <2>5, <2>6, TallyBegins
<1>5. CASE LoopStops(p)
  <2>1. row' = row /\ task' = task
    BY <1>5 DEF LoopStops
  <2>2. \A i \in Job : row'[i] = row[i] \/ (Stays(i) /\ Amended(row[i], row'[i]))
    BY <2>1, Zenon
  <2>3. \A q \in Pid : loop'[q].todo \subseteq loop[q].todo
    BY <1>1, <1>5 DEF LoopStops, LoopAsleep
  <2>. QED  BY <1>1, <2>1, <2>2, <2>3, TallyRows
<1>. QED  BY <1>2, <1>3, <1>4, <1>5, LoopMoves

LEMMA PopulateTally ==
  ASSUME Inv, Sane, Sole, Serial, Tally, NEW p \in Pid, Populate(p)
  PROVE  Tally'
<1>1. /\ proc[p] = "starting" /\ proc' = [proc EXCEPT ![p] = "up"] /\ UNCHANGED loop
      /\ MarkRows(p, Startable)
      /\ Startable \in SUBSET Job /\ Fetched(p, Startable) \in SUBSET Startable
      /\ \A t \in Task : \/ task'[t] = task[t]
                         \/ \E j \in Fetched(p, Startable) : Loaded(t, p, j)
  BY PopulateMoves, Zenon
<1>2. /\ \A q \in Pid : proc[q] # "up"
      /\ \A t \in Task : Active(t) => task'[t] = task[t] /\ row'[task[t].job] = row[task[t].job]
  BY PopulateSole
<1>3. \A j \in Startable : j \in Job /\ Present(j) /\ row[j].delay = "none"
  BY DEF Startable
<1>4. \A j \in Job : row'[j] = row[j] \/ (Stays(j) /\ Amended(row[j], row'[j]))
  <2>1. \A j \in Job : row'[j] = row[j] \/ Taken(p, j)
    BY <1>1, <1>3, MarkRowsMoves DEF Inv
  <2>. QED  BY <2>1, Zenon DEF Taken, KeepsCount, KeepsFlags, KeepsRuns, Amended, Onward
<1>5. \A j \in Job : Amended(row[j], row'[j])
  BY <1>4, AmendedSame, Zenon
<1>6. proc'[p] = "up" /\ \A q \in Pid : proc'[q] = "dead" <=> proc[q] = "dead"
  BY <1>1 DEF Inv, TypeOK
<1>7. Deaths' = Deaths /\ IsFiniteSet(Dead)'
  BY <1>6, SameDeaths
<1>8. ASSUME NEW j \in Job, row'[j] # NoRow
      PROVE  /\ Within(row'[j], Deaths) /\ Unrun(row'[j])
             /\ Spare(row[j], Deaths) => Spare(row'[j], Deaths)
  <2>1. Present(j)
    BY <1>4, <1>8, Zenon DEF Stays, Present
  <2>2. Within(row[j], Deaths) /\ Unrun(row[j])
    BY <2>1 DEF Tally
  <2>3. Amended(row[j], row'[j]) /\ ("restore" \in Api => row[j].delay = "none")
    BY <1>5, <2>1 DEF Sole, Plain, Serial
  <2>. QED  BY <2>2, <2>3, WithinOn, Zenon
<1>9. ASSUME NEW t \in Task, task'[t].st # "idle"
      PROVE  Fits(task'[t], row'[task'[t].job], Deaths)
  <2>1. CASE Active(t)
    BY <1>2, <2>1, Zenon DEF Tally
  <2>2. CASE ~Active(t)
    <3>1. PICK j \in Fetched(p, Startable) : Loaded(t, p, j)
      BY <1>1, <1>9, <2>2, Zenon DEF Active
    <3>2. j \in Job /\ Spare(row[j], Deaths) /\ row'[j] # NoRow
      <4>1. j \in Job /\ Present(j) /\ row[j].delay = "none"
        BY <1>1, <1>3, <3>1
      <4>2. row'[j] # NoRow
        BY <1>4, <4>1, Zenon DEF Stays, Present
      <4>. QED  BY <1>2, <4>1, <4>2 DEF Tally
    <3>3. task'[t].st = "tick" /\ task'[t].job = j
      BY <3>1, Zenon DEF Loaded
    <3>. QED  BY <1>8, <3>2, <3>3, NewFits
  <2>. QED  BY <2>1, <2>2
<1>10. ASSUME NEW q \in Pid, NEW j \in loop[q].todo  PROVE row'[j].ran = 0
  <2>1. j \in Job /\ row[j].ran = 0
    BY DEF Tally, Inv, TypeOK
  <2>. QED  BY <1>5, <2>1, Zenon DEF Amended
<1>. QED  BY <1>1, <1>6, <1>7, <1>8, <1>9, <1>10, Zenon DEF Tally, Present, Active

\* A process that dies while it runs a job leaves one more execution to its successor.
LEMMA CrashTally ==
  ASSUME Inv, Sane, Sole, Tally, NEW p \in Pid, Crash(p)
  PROVE  Tally'
<1>1. row' = row /\ \A t \in Task : task'[t].st = "idle"
  BY CrashSole, IdleIdle, Zenon DEF Crash
<1>2. Live(p) /\ proc'[p] = "dead" /\ \A q \in Pid \ {p} : proc'[q] = proc[q]
  BY SMT DEF Crash, Inv, TypeOK
<1>3. Dead' = Dead \cup {p} /\ p \notin Dead
  BY <1>2 DEF Dead, Live
<1>4. IsFiniteSet(Dead') /\ Cardinality(Dead') = Deaths + 1
  BY <1>3, FS_AddElement DEF Tally, Deaths
<1>5. PICK d \in Nat : d = Deaths /\ Deaths' = d + 1
  BY <1>4, DeathsNat DEF Deaths
<1>6. \A q \in Pid : loop'[q].todo \subseteq loop[q].todo
  BY SMT DEF Crash, Inv, TypeOK, LoopAsleep
<1>7. ASSUME NEW j \in Job, Present(j)
      PROVE  Within(row[j], d + 1) /\ Unrun(row[j]) /\ Spare(row[j], d + 1)
  <2>1. Within(row[j], d) /\ Unrun(row[j])
    BY <1>5, <1>7 DEF Tally
  <2>2. row[j].retryCount \in Nat /\ row[j].ran \in 0 .. RunCap /\ RunCap \in Nat
    <3>1. row[j] \in Row
      BY <1>7, PresentRow DEF Inv
    <3>. QED  BY <3>1, QueueAssumption, Zenon DEF Row
  <2>3. Within(row[j], d + 1) /\ Spare(row[j], d + 1)
    BY <2>1, <2>2, SMT DEF Within, Spare
  <2>. QED  BY <2>1, <2>3
<1>8. ASSUME NEW q \in Pid, NEW j \in loop'[q].todo  PROVE row[j].ran = 0
  BY <1>6 DEF Tally
<1>9. \A j \in Job : row'[j] # NoRow => /\ Within(row'[j], Deaths') /\ Unrun(row'[j])
                                        /\ Spare(row'[j], Deaths')
  BY <1>1, <1>5, <1>7, Zenon DEF Present
<1>. QED  BY <1>1, <1>4, <1>8, <1>9, Zenon DEF Tally, Present, Active

LEMMA ProcessTally ==
  ASSUME Inv, Sane, Sole, Serial, Tally, NEW p \in Pid, ProcessStep(p)
  PROVE  Tally'
<1>1. CASE Start(p)
  <2>1. /\ UNCHANGED <<row, task, loop>> /\ \A q \in Pid : proc'[q] = "dead" <=> proc[q] = "dead"
        /\ (\A q \in Pid : proc'[q] # "up") => \A q \in Pid : proc[q] # "up"
    BY <1>1 DEF Start, Inv, TypeOK
  <2>2. Deaths' = Deaths /\ IsFiniteSet(Dead)'
    BY <2>1, SameDeaths
  <2>. QED  BY <2>1, <2>2, Zenon DEF Tally, Present, Active
<1>2. ~PopulateFails(p)
  BY DEF PopulateFails, Serial
<1>. QED  BY <1>1, <1>2, PopulateTally, CrashTally DEF ProcessStep

\* A closure after its job was run, and one that clears its job.
LEMMA RunFits ==
  ASSUME NEW c, NEW r, NEW d, c.st \in {"run", "claim"}, r.ran > 0
  PROVE  Fits(c, r, d)
BY DEF Fits

LEMMA ClearFits ==
  ASSUME NEW c, NEW r, NEW d, c.st = "clear", r.ran > 0 \/ r.cancelled
  PROVE  Fits(c, r, d)
<1>1. c.st \notin {"run", "claim", "update", "backoff", "tick", "wait", "check"}
  OBVIOUS
<1>. QED  BY <1>1 DEF Fits

\* What a closure at work finds.
LEMMA AtWork ==
  ASSUME Inv, Sole, Tally, NEW t \in Task, NEW j \in Job, Active(t), task[t].job = j
  PROVE  /\ Present(j) /\ row[j] # NoRow /\ Within(row[j], Deaths) /\ Unrun(row[j])
         /\ Fits(task[t], row[j], Deaths)
         /\ row[j].delay # "none" => row[j].cancelled
         /\ row[j].retryCount \in Nat /\ row[j].ran \in Nat
<1>1. Present(j)
  BY DEF Sole, InTable
<1>2. row[j].retryCount \in Nat /\ row[j].ran \in Nat
  <2>1. row[j] \in Row
    BY <1>1, PresentRow DEF Inv
  <2>2. row[j].retryCount \in Nat /\ row[j].ran \in 0 .. RunCap /\ RunCap \in Nat
    BY <2>1, QueueAssumption, Zenon DEF Row
  <2>. QED  BY <2>2
<1>3. row[j].delay # "none" => row[j].cancelled
  BY DEF Sole, Withdrawn
<1>4. Fits(task[t], row[j], Deaths)
  BY Zenon DEF Tally
<1>. QED  BY <1>1, <1>2, <1>3, <1>4, Zenon DEF Tally, Present

LEMMA WorkerTally ==
  ASSUME Inv, Sole, Serial, Tally, NEW t \in Task, WorkerStep(t)
  PROVE  Tally'
<1>1. /\ UNCHANGED <<proc, loop>> /\ Active(t) /\ task[t].job \in Job
      /\ \/ row' = row /\ task[t].st = "tick" /\ Moved(t, {"check", "wait"})
         \/ row' = row /\ task[t].st = "check" /\ StoredCancel(t) /\ Moved(t, {"clear"})
         \/ CountRun(task[t].job) /\ task[t].st = "check" /\ Moved(t, {"run"})
         \/ row' = row /\ task[t].st = "run" /\ Moved(t, {"clear", "claim"})
  BY WorkerMoves DEF Serial
<1>2. PICK j \in Job : j = task[t].job
  BY <1>1
<1>3. PICK d \in Nat : d = Deaths
  BY DeathsNat
<1>4. /\ Present(j) /\ row[j] # NoRow /\ Within(row[j], d) /\ Unrun(row[j])
      /\ Fits(task[t], row[j], d)
      /\ row[j].delay # "none" => row[j].cancelled
      /\ row[j].retryCount \in Nat /\ row[j].ran \in Nat
  BY <1>1, <1>2, <1>3, AtWork, Zenon
<1>5. ASSUME row' = row, NEW next, Moved(t, next), Fits(task'[t], row[j], d)
      PROVE  Tally'
  <2>1. task'[t].job = j /\ Only(j) /\ \A u \in Task \ {t} : Stands(u)
    BY <1>2, <1>5, Zenon DEF Moved, Only
  <2>2. row'[j] # NoRow /\ Within(row'[j], d) /\ Unrun(row'[j]) /\ row'[j].delay = row[j].delay
        /\ Fits(task'[t], row'[j], d)
    BY <1>4, <1>5, Zenon
  <2>. QED  BY <1>1, <1>2, <1>3, <2>1, <2>2, TallyActs
<1>6. CASE row' = row /\ task[t].st = "tick" /\ Moved(t, {"check", "wait"})
  <2>1. task'[t].st \in {"check", "wait"}
    BY <1>6, Zenon DEF Moved
  <2>2. Fits(task'[t], row[j], d)
    BY <1>4, <1>6, <2>1, FitsNext
  <2>. QED  BY <1>5, <1>6, <2>2
<1>7. CASE row' = row /\ task[t].st = "check" /\ StoredCancel(t) /\ Moved(t, {"clear"})
  <2>1. task'[t].st = "clear" /\ row[j].cancelled
    BY <1>2, <1>7, Zenon DEF Moved, StoredCancel
  <2>2. Fits(task'[t], row[j], d)
    BY <2>1, ClearFits
  <2>. QED  BY <1>5, <1>7, <2>2
<1>8. CASE row' = row /\ task[t].st = "run" /\ Moved(t, {"clear", "claim"})
  <2>1. task'[t].st \in {"clear", "claim"}
    BY <1>8, Zenon DEF Moved
  <2>2. row[j].ran > 0
    BY <1>4, <1>8 DEF Fits
  <2>3. Fits(task'[t], row[j], d)
    BY <2>1, <2>2, ClearFits, RunFits
  <2>. QED  BY <1>5, <1>8, <2>3
<1>9. CASE CountRun(task[t].job) /\ task[t].st = "check" /\ Moved(t, {"run"})
  <2>1. Only(j) /\ Runs(j)
    BY <1>2, <1>4, <1>9, CountRunMoves DEF Inv
  <2>2. /\ row'[j] # NoRow /\ row'[j].retryCount = row[j].retryCount
        /\ row'[j].delay = row[j].delay /\ row'[j].cancelled = row[j].cancelled
        /\ row'[j].ran > 0
        /\ row'[j].ran = row[j].ran \/ row'[j].ran = row[j].ran + 1
    BY <2>1, Zenon DEF Runs, Stays, KeepsCount, KeepsFlags
  <2>3. Spare(row[j], d)
    BY <1>4, <1>9 DEF Fits
  <2>4. Within(row'[j], d)
    BY <1>4, <2>2, <2>3, SMT DEF Within, Spare
  <2>5. Unrun(row'[j])
    BY <1>4, <2>2, Zenon DEF Unrun
  <2>6. task'[t].st = "run" /\ task'[t].job = j /\ \A u \in Task \ {t} : Stands(u)
    BY <1>2, <1>9, Zenon DEF Moved
  <2>7. Fits(task'[t], row'[j], d)
    BY <2>2, <2>6, RunFits
  <2>8. row'[j] # NoRow /\ Within(row'[j], Deaths) /\ Unrun(row'[j]) /\ row'[j].delay = row[j].delay
        /\ Fits(task'[t], row'[j], Deaths)
    BY <1>3, <2>2, <2>4, <2>5, <2>7, Zenon
  <2>. QED  BY <1>1, <1>2, <2>1, <2>6, <2>8, TallyActs
<1>. QED  BY <1>1, <1>6, <1>7, <1>8, <1>9

LEMMA CompleteTally ==
  ASSUME Inv, Sole, Serial, Tally, NEW t \in Task, CompleteStep(t)
  PROVE  Tally'
<1>1. UNCHANGED <<proc, loop>> /\ Active(t) /\ task[t].pid \in Pid /\ task[t].job \in Job
  BY CompleteMoves, Zenon
<1>2. PICK p \in Pid, j \in Job : p = task[t].pid /\ j = task[t].job
  BY <1>1
<1>3. PICK d \in Nat : d = Deaths
  BY DeathsNat
<1>4. /\ Present(j) /\ row[j] # NoRow /\ Within(row[j], d) /\ Unrun(row[j])
      /\ Fits(task[t], row[j], d)
      /\ row[j].retryCount \in Nat /\ row[j].ran \in Nat
  BY <1>1, <1>2, <1>3, AtWork, Zenon
<1>5. task[t].st \in {"claim", "update", "backoff"} => row[j].ran > 0
  BY <1>4 DEF Fits
\* The row stands or is claimed, and the closure ends or goes on.
<1>6. ASSUME row' = row \/ (Only(j) /\ Taken(p, j)),
             \/ Gone(t)
             \/ \E next : Moved(t, next) /\ Fits(task'[t], row'[j], d)
      PROVE  Tally'
  <2>1. /\ Only(j) /\ row'[j] # NoRow /\ row'[j].delay = row[j].delay
        /\ Within(row'[j], d) /\ Unrun(row'[j])
    <3>1. CASE row' = row
      BY <1>4, <3>1, Zenon DEF Only
    <3>2. CASE Only(j) /\ Taken(p, j)
      BY <1>4, <3>2, Zenon
         DEF Taken, Stays, KeepsCount, KeepsFlags, KeepsRuns, Within, Unrun
    <3>. QED  BY <1>6, <3>1, <3>2
  <2>2. /\ task'[t].st = "idle" \/ (task'[t].job = j /\ Fits(task'[t], row'[j], d))
        /\ \A u \in Task \ {t} : Stands(u)
    BY <1>2, <1>6, IdleIdle, Zenon DEF Gone, Moved, Stands
  <2>. QED  BY <1>1, <1>2, <1>3, <2>1, <2>2, TallyActs
<1>7. CASE Clear(t) /\ Gone(t)
  <2>1. Only(j) /\ row'[j] = NoRow
    BY <1>2, <1>7, DeleteMoves DEF Clear, Inv
  <2>2. task'[t].st = "idle" /\ \A u \in Task \ {t} : Stands(u)
    BY <1>7, IdleIdle, Zenon DEF Gone, Stands
  <2>. QED  BY <1>1, <1>2, <2>1, <2>2, TallyActs
<1>8. CASE Disown(t) /\ Gone(t)
  BY <1>6, <1>8, Zenon DEF Disown
<1>9. CASE GiveUp(t) /\ Moved(t, {"clear"})
  <2>1. Only(j) /\ Taken(p, j)
    BY <1>2, <1>9, ClaimRowMoves DEF GiveUp, Inv
  <2>2. row'[j].ran > 0 /\ task'[t].st = "clear"
    BY <1>5, <1>9, <2>1 DEF GiveUp, Taken, KeepsRuns, Moved
  <2>3. Fits(task'[t], row'[j], d)
    BY <2>2, ClearFits
  <2>. QED  BY <1>6, <1>9, <2>1, <2>3
<1>10. CASE PlanRetry(t) /\ Moved(t, {"update"}) /\ task'[t].seen = row[task[t].job].retryCount
  <2>1. Only(j) /\ Taken(p, j)
    <3>1. ClaimRow(p, j) /\ Claimable(p, j)
      BY <1>2, <1>10, Zenon DEF PlanRetry
    <3>. QED  BY <3>1, ClaimRowMoves DEF Inv
  <2>2. row'[j].ran > 0
    <3>1. row[j].ran > 0
      BY <1>5, <1>10 DEF PlanRetry
    <3>. QED  BY <2>1, <3>1, Zenon DEF Taken, KeepsRuns
  <2>3. task'[t].st = "update" /\ row'[j].retryCount = task'[t].seen
    BY <1>2, <1>10, <2>1, Zenon DEF Taken, KeepsCount, Moved
  <2>4. Fits(task'[t], row'[j], d)
    BY <2>2, <2>3 DEF Fits
  <2>. QED  BY <1>6, <1>10, <2>1, <2>4
<1>11. CASE SaveRetry(t) /\ Moved(t, {"backoff"})
  <2>1. Only(j) /\ Counts(p, j, task[t].seen + 1)
    BY <1>1, <1>2, <1>11, SaveRetryMoves DEF Inv
  <2>2. row[j].retryCount = task[t].seen /\ row[j].ran > 0
    BY <1>4, <1>5, <1>11 DEF Fits, SaveRetry
  <2>3. /\ row'[j] # NoRow /\ row'[j].retryCount = row[j].retryCount + 1
        /\ row'[j].ran = row[j].ran /\ row'[j].delay = row[j].delay
        /\ row'[j].cancelled = row[j].cancelled
    BY <2>1, <2>2, Zenon DEF Counts, Stays, KeepsFlags, KeepsRuns
  <2>4. Within(row'[j], d) /\ Spare(row'[j], d)
    BY <1>4, <2>3, SMT DEF Within, Spare
  <2>5. Unrun(row'[j])
    BY <1>4, <2>3, Zenon DEF Unrun
  <2>6. task'[t].st = "backoff" /\ task'[t].job = j /\ \A u \in Task \ {t} : Stands(u)
    BY <1>2, <1>11, Zenon DEF Moved
  <2>7. Fits(task'[t], row'[j], d)
    BY <2>2, <2>3, <2>4, <2>6 DEF Fits
  <2>8. row'[j] # NoRow /\ Within(row'[j], Deaths) /\ Unrun(row'[j]) /\ row'[j].delay = row[j].delay
        /\ Fits(task'[t], row'[j], Deaths)
    BY <1>3, <2>3, <2>4, <2>5, <2>7, Zenon
  <2>. QED  BY <1>1, <1>2, <2>1, <2>6, <2>8, TallyActs
<1>12. CASE SaveRetryRefused(t) /\ Moved(t, {"clear"})
  <2>1. row' = row /\ row[j].ran > 0
    BY <1>5, <1>12 DEF SaveRetryRefused
  <2>2. task'[t].st = "clear" /\ row'[j].ran > 0
    BY <1>12, <2>1, Zenon DEF Moved
  <2>3. Fits(task'[t], row'[j], d)
    BY <2>2, ClearFits
  <2>. QED  BY <1>6, <1>12, <2>1, <2>3
<1>13. CASE row' = row /\ task[t].st = "backoff" /\ Moved(t, {"check", "wait"})
  <2>1. task'[t].st \in {"check", "wait"}
    BY <1>13, Zenon DEF Moved
  <2>2. Fits(task'[t], row[j], d)
    BY <1>4, <1>13, <2>1, FitsNext
  <2>. QED  BY <1>6, <1>13, <2>2, Zenon
<1>14. ~ClearFails(t) /\ ~CompleteFails(t)
  BY DEF ClearFails, CompleteFails, Serial
<1>. QED  BY <1>7, <1>8, <1>9, <1>10, <1>11, <1>12, <1>13, <1>14, CompleteMoves, Zenon

LEMMA NextTally ==
  ASSUME Serial
  PROVE  Inv /\ Sane /\ Called /\ Sole /\ Tally /\ [Next]_vars => Tally'
BY ProcessTally, PushTally, WorkerTally, CompleteTally, ApiTally, LoopTally, TimeTally DEF Next

LEMMA InitTally == Init => Tally
<1>. SUFFICES ASSUME Init PROVE Tally
  OBVIOUS
<1>1. Dead = {}
  BY DEF Init, Dead
<1>2. IsFiniteSet(Dead)
  BY <1>1, FS_EmptySet
<1>3. \A j \in Job : ~Present(j)
  BY DEF Init, Present
<1>4. \A t \in Task : ~Active(t)
  BY IdleIdle DEF Init, Active
<1>5. \A p \in Pid : loop[p].todo = {}
  BY DEF Init, LoopAsleep
<1>. QED  BY <1>2, <1>3, <1>4, <1>5 DEF Tally

LEMMA TallyHolds == ASSUME Serial PROVE Spec => [](Sane /\ Called /\ Sole /\ Tally)
<1>1. Init => Sane /\ Called /\ Sole /\ Tally
  BY InitSane, InitOnce, InitSole, InitTally
<1>2. "delete" \notin Api
  BY DEF Serial
<1>3. Inv /\ (Sane /\ Called /\ Sole /\ Tally) /\ [Next]_vars => (Sane /\ Called /\ Sole /\ Tally)'
  <2>1. Inv /\ (Sane /\ Called /\ Sole /\ Tally) /\ [Next]_vars => Sane' /\ Called' /\ Sole' /\ Tally'
    BY <1>2, NextSane, NextCalled, NextSole, NextTally
  <2>. QED  BY <2>1
<1>. QED  BY <1>1, <1>3, Invariance, PTL DEF Spec

\* A job is started at most maxRetries times, and once more for every process
\* that died with it: a restart runs a job again without a count of its own
\* (index.js:201-230).
THEOREM RunsBounded == ASSUME Serial PROVE Spec => []RunBound
<1>1. Inv /\ Tally /\ RetryBounded => RunBound
  <2>. SUFFICES ASSUME Inv, Tally, RetryBounded, NEW j \in Job, Present(j)
                PROVE  row[j].ran <= Bound + Deaths
    BY DEF RunBound, Bound
  <2>1. PICK d \in Nat : d = Deaths
    BY DeathsNat
  <2>2. row[j].retryCount \in Nat /\ row[j].ran \in 0 .. RunCap /\ RunCap \in Nat
    <3>1. row[j] \in Row
      BY PresentRow DEF Inv
    <3>. QED  BY <3>1, QueueAssumption, Zenon DEF Row
  <2>3. row[j].retryCount <= Bound /\ Bound \in Nat
    BY QueueAssumption DEF RetryBounded, Bound
  <2>4. Within(row[j], d)
    BY <2>1 DEF Tally
  <2>5. row[j].ran <= Bound + d
    BY <2>2, <2>3, <2>4, SMT DEF Within
  <2>. QED  BY <2>1, <2>5
<1>. QED  BY <1>1, TallyHolds, Invariance, RetriesCorrect, PTL

\* A retry count never goes back: the count that updateJob writes is one more than
\* the count in the row, since no other closure has written it (index.js:201-208).
THEOREM RetriesCounted == ASSUME Serial PROVE Spec => RetryMonotone
<1>. DEFINE Climbs ==
       \A j \in Job : Present(j) /\ row'[j] # NoRow => row'[j].retryCount >= row[j].retryCount
<1>1. Inv /\ (\A j \in Job : RowKept(j)) => Climbs
  <2>. SUFFICES ASSUME Inv, NEW j \in Job, Present(j), row'[j] # NoRow, RowKept(j)
                PROVE  row'[j].retryCount >= row[j].retryCount
    BY Zenon
  <2>1. row[j].retryCount \in Nat
    <3>1. row[j] \in Row
      BY PresentRow DEF Inv
    <3>. QED  BY <3>1, Zenon DEF Row
  <2>2. row'[j].retryCount = row[j].retryCount
    BY Zenon DEF RowKept
  <2>. QED  BY <2>1, <2>2
<1>2. Inv /\ (Sane /\ Called /\ Sole /\ Tally) /\ [Next]_vars => [Climbs]_vars
  <2>. SUFFICES ASSUME Inv, Sole, Tally, Next PROVE Climbs
    OBVIOUS
  <2>1. CASE Kept
    BY <1>1, <2>1 DEF Kept
  <2>2. ASSUME NEW t \in Task, PlanRetry(t)  PROVE Climbs
    BY <1>1, <2>2, PlanRetrySeen
  <2>3. ASSUME NEW t \in Task, SaveRetry(t)  PROVE Climbs
    <3>1. PICK i \in Job : i = task[t].job /\ Active(t) /\ task[t].st = "update"
      BY <2>3 DEF Inv, Shape, TaskOwned, Active, SaveRetry
    <3>2. row'[i].retryCount = task[t].seen + 1 /\ \A j \in Job \ {i} : RowKept(j)
      BY <2>3, <3>1, SaveRetryWrites, Zenon
    <3>3. row[i].retryCount \in Nat /\ task[t].seen = row[i].retryCount
      <4>1. Fits(task[t], row[i], Deaths) /\ row[i].retryCount \in Nat
        BY <3>1, AtWork
      <4>. QED  BY <3>1, <4>1 DEF Fits
    <3>4. row'[i].retryCount >= row[i].retryCount
      BY <3>2, <3>3
    <3>5. ASSUME NEW j \in Job \ {i}, Present(j), row'[j] # NoRow
          PROVE  row'[j].retryCount >= row[j].retryCount
      <4>1. row[j].retryCount \in Nat
        <5>1. row[j] \in Row
          BY <3>5, PresentRow DEF Inv
        <5>. QED  BY <5>1, Zenon DEF Row
      <4>2. row'[j].retryCount = row[j].retryCount
        BY <3>2, <3>5, Zenon DEF RowKept
      <4>. QED  BY <4>1, <4>2
    <3>. QED  BY <3>4, <3>5
  <2>. QED  BY <2>1, <2>2, <2>3, ProcessKept, PushKept, WorkerKept, CompleteKept, ApiKept,
               LoopKept, TimeKept, Zenon DEF Next
<1>. QED  BY <1>2, TallyHolds, Invariance, PTL DEF Spec, RetryMonotone

\* Rows that are in the table stay there.
Remain == \A j \in Job : Present(j) => row'[j] # NoRow

LEMMA OneRemains ==
  ASSUME NEW j \in Job, Only(j), row'[j] # NoRow
  PROVE  Remain
BY Zenon DEF Remain, Only, Present

LEMMA MarkRemain ==
  ASSUME Inv, NEW p \in Pid, NEW C \in SUBSET Job, \A j \in C : Present(j), MarkRows(p, C)
  PROVE  Remain
<1>1. \A j \in Job : row'[j] = row[j] \/ Taken(p, j)
  BY MarkRowsMoves DEF Inv
<1>. QED  BY <1>1, Zenon DEF Remain, Present, Taken, Stays

\* Where nobody deletes a job, its row goes only when a closure clears it.
LEMMA RowsRemain ==
  ASSUME Inv, Sane, Called, Sole, Serial, Next
  PROVE  Remain \/ \E t \in Task : Clear(t)
<1>1. row' = row => Remain
  BY Zenon DEF Remain, Present
<1>2. ASSUME NEW p \in Pid, ProcessStep(p)  PROVE Remain
  <2>1. CASE Populate(p)
    <3>1. Startable \in SUBSET Job /\ (\A j \in Startable : Present(j)) /\ MarkRows(p, Startable)
      BY <2>1, PopulateMoves DEF Startable
    <3>. QED  BY <3>1, MarkRemain
  <2>. QED  BY <1>1, <1>2, <2>1 DEF ProcessStep, Start, PopulateFails, Crash
<1>3. ASSUME NEW p \in Pid, PushStep(p)  PROVE Remain
  <2>1. ASSUME NEW j \in Job, NEW d \in {"none", "later"}, ~Present(j),
               row' = [row EXCEPT ![j] = NewRow(d)]
        PROVE  Remain
    <3>1. Only(j) /\ row'[j] # NoRow
      BY <2>1, AddMoves DEF Inv, Added
    <3>. QED  BY <3>1, OneRemains
  <2>. QED  BY <1>1, <1>3, <2>1 DEF PushStep, Push, PushDelayed, PushVolatile
<1>4. ASSUME NEW t \in Task, WorkerStep(t)  PROVE Remain
  <2>1. row' = row \/ CountRun(task[t].job)
    BY <1>4, WorkerMoves, Zenon
  <2>2. PICK j \in Job : j = task[t].job
    BY <1>4, WorkerMoves
  <2>3. CASE CountRun(j)
    <3>1. row' = row \/ (Only(j) /\ Runs(j))
      BY <2>3, CountRunMoves DEF Inv
    <3>. QED  BY <1>1, <3>1, OneRemains DEF Runs, Stays
  <2>. QED  BY <1>1, <2>1, <2>2, <2>3
<1>5. ASSUME NEW t \in Task, CompleteStep(t)  PROVE Remain \/ Clear(t)
  <2>1. PICK p \in Pid, j \in Job : p = task[t].pid /\ j = task[t].job
    BY <1>5, CompleteMoves
  <2>2. CASE GiveUp(t) \/ PlanRetry(t)
    <3>1. ClaimRow(p, j)
      BY <2>1, <2>2, Zenon DEF GiveUp, PlanRetry
    <3>2. row' = row \/ (Only(j) /\ Taken(p, j))
      BY <3>1, ClaimRowMoves DEF Inv
    <3>. QED  BY <1>1, <3>2, OneRemains DEF Taken, Stays
  <2>3. CASE SaveRetry(t)
    <3>1. Only(j) /\ Counts(p, j, task[t].seen + 1)
      BY <2>1, <2>3, SaveRetryMoves DEF Inv
    <3>. QED  BY <3>1, OneRemains DEF Counts, Stays
  <2>. QED  BY <1>1, <1>5, <2>2, <2>3
            DEF CompleteStep, ClearFails, Disown, SaveRetryRefused, CompleteFails, Retry
<1>6. ASSUME NEW p \in Pid, ApiStep(p)  PROVE Remain
  <2>1. row' = row \/ \E j \in Job : Only(j) /\ Touched(p, j)
    BY <1>6, ApiMoves DEF Serial
  <2>. QED  BY <1>1, <2>1, OneRemains DEF Touched, Stays
<1>7. ASSUME NEW p \in Pid, LoopStep(p)  PROVE Remain
  <2>1. CASE LoopUpdates(p) \/ \E j \in Job : LoopCancels(p, j)
    <3>1. PICK j \in Job : Only(j) /\ Touched(p, j)
      BY <2>1, LoopTouches, Zenon
    <3>. QED  BY <3>1, OneRemains DEF Touched, Stays
  <2>2. CASE LoopScans(p)
    <3>1. Due \in SUBSET Job /\ (\A j \in Due : Present(j)) /\ MarkRows(p, Due)
      BY <2>2 DEF LoopScans, Due
    <3>. QED  BY <3>1, MarkRemain
  <2>3. ASSUME NEW t \in Task, LoopPushes(p, t)  PROVE Remain
    BY <1>1, <2>3 DEF LoopPushes
  <2>4. CASE LoopStops(p)
    BY <1>1, <2>4 DEF LoopStops
  <2>. QED  BY <1>7, <2>1, <2>2, <2>3, <2>4, LoopMoves
<1>8. CASE TimeStep
  <2>1. row' = row \/ \E j \in Job : Only(j) /\ Stays(j)
    BY <1>8, TimeRows, Zenon
  <2>. QED  BY <1>1, <2>1, OneRemains DEF Stays
<1>. QED  BY <1>2, <1>3, <1>4, <1>5, <1>6, <1>7, <1>8 DEF Next

\* No completion removes a job that nobody has run, crashes, refused updates and
\* lost claims included (index.js:178-258).  A job restored while its
\* cancellation is being carried out would be lost: such calls are left out.
THEOREM RunBeforeRemoved ==
  ASSUME Serial, "restore" \notin Api
  PROVE  Spec => AtLeastOnce
<1>. DEFINE Earned ==
       \A j \in Job : Present(j) /\ row'[j] = NoRow => row[j].ran > 0 \/ row[j].cancelled
<1>1. Inv /\ (Sane /\ Called /\ Sole /\ Tally) /\ [Next]_vars => [Earned]_vars
  <2>. SUFFICES ASSUME Inv, Sane, Called, Sole, Tally, Next PROVE Earned
    OBVIOUS
  <2>1. CASE Remain
    BY <2>1, Zenon DEF Remain
  <2>2. ASSUME NEW t \in Task, Clear(t)  PROVE Earned
    <3>1. Active(t) /\ task[t].st = "clear" /\ row' = [row EXCEPT ![task[t].job] = NoRow]
      BY <2>2 DEF Clear, Active
    <3>2. PICK i \in Job : i = task[t].job
      BY <3>1 DEF Inv, Shape, TaskOwned
    <3>3. Only(i)
      BY <3>1, <3>2, DeleteMoves DEF Inv
    <3>4. Fits(task[t], row[i], Deaths)
      BY <3>1, <3>2, Zenon DEF Tally
    <3>5. row[i].ran > 0 \/ row[i].cancelled
      BY <3>1, <3>4, Zenon DEF Fits
    <3>6. \A j \in Job \ {i} : Present(j) => row'[j] # NoRow
      BY <3>3, Zenon DEF Only, Present
    <3>. QED  BY <3>5, <3>6, Zenon
  <2>. QED  BY <2>1, <2>2, RowsRemain
<1>. QED  BY <1>1, TallyHolds, Invariance, PTL DEF Spec, AtLeastOnce
-----------------------------------------------------------------------------
(* What the queue promises to those who push jobs: JobLedger, with the table  *)
(* and the memory of the processes for its state.                            *)
LedgerVars == <<LedgerState, LedgerRuns, LedgerWithdrawn, Deaths>>

\* The execution that the queue waits for, before and after a step.
RunsNow(j) == \E t \in Task : task[t].st = "run" /\ task[t].job = j
RunsNext(j) == \E t \in Task : task'[t].st = "run" /\ task'[t].job = j

\* An entry of the ledger, before and after a step.
LEMMA EntryNow ==
  ASSUME NEW j \in Job
  PROVE  /\ ~Present(j) => /\ LedgerState[j] = "absent" /\ LedgerRuns[j] = 0
                           /\ LedgerWithdrawn[j] = FALSE
         /\ Present(j) => /\ LedgerState[j] = IF RunsNow(j) THEN "running" ELSE "pending"
                          /\ LedgerRuns[j] = row[j].ran /\ LedgerWithdrawn[j] = row[j].cancelled
<1>1. Bodies(j) # {} <=> RunsNow(j)
  BY DEF Bodies, RunsNow
<1>. QED  BY <1>1, Zenon DEF LedgerState, LedgerRuns, LedgerWithdrawn

LEMMA EntryNext ==
  ASSUME NEW j \in Job
  PROVE  /\ row'[j] = NoRow => /\ LedgerState'[j] = "absent" /\ LedgerRuns'[j] = 0
                               /\ LedgerWithdrawn'[j] = FALSE
         /\ row'[j] # NoRow => /\ LedgerState'[j] = IF RunsNext(j) THEN "running" ELSE "pending"
                               /\ LedgerRuns'[j] = row'[j].ran /\ LedgerWithdrawn'[j] = row'[j].cancelled
<1>1. Bodies(j)' # {} <=> RunsNext(j)
  BY DEF Bodies, RunsNext
<1>. QED  BY <1>1, Zenon DEF LedgerState, LedgerRuns, LedgerWithdrawn, Present

SameEntry(j) ==
  /\ LedgerState'[j] = LedgerState[j] /\ LedgerRuns'[j] = LedgerRuns[j]
  /\ LedgerWithdrawn'[j] = LedgerWithdrawn[j]
LikeRow(j) ==
  row'[j] = row[j] \/ (Stays(j) /\ KeepsRuns(j) /\ row'[j].cancelled = row[j].cancelled)
LikeBody(j) == RunsNext(j) <=> RunsNow(j)

LEMMA LikeEntry ==
  ASSUME NEW j \in Job, LikeRow(j), LikeBody(j)
  PROVE  SameEntry(j)
<1>1. CASE Present(j)
  <2>1. row'[j] # NoRow /\ row'[j].ran = row[j].ran /\ row'[j].cancelled = row[j].cancelled
    BY <1>1, Zenon DEF LikeRow, Stays, KeepsRuns, Present
  <2>. QED  BY <1>1, <2>1, EntryNow, EntryNext, Zenon DEF SameEntry, LikeBody
<1>2. CASE ~Present(j)
  <2>1. row'[j] = NoRow
    BY <1>2, Zenon DEF LikeRow, Stays, Present
  <2>2. /\ LedgerState[j] = "absent" /\ LedgerRuns[j] = 0 /\ LedgerWithdrawn[j] = FALSE
        /\ LedgerState'[j] = "absent" /\ LedgerRuns'[j] = 0 /\ LedgerWithdrawn'[j] = FALSE
    BY <1>2, <2>1, EntryNow, EntryNext
  <2>. QED  BY <2>2 DEF SameEntry
<1>. QED  BY <1>1, <1>2

\* Two functions that agree, everywhere or but for one argument.
LEMMA FunctionSame ==
  ASSUME NEW S, NEW f, NEW g, f = [i \in S |-> f[i]], g = [i \in S |-> g[i]],
         \A i \in S : g[i] = f[i]
  PROVE  g = f
<1>1. [i \in S |-> g[i]] = [i \in S |-> f[i]]
  BY Zenon
<1>. QED  BY <1>1, Zenon

LEMMA FunctionExcept ==
  ASSUME NEW S, NEW f, NEW g, f = [i \in S |-> f[i]], g = [i \in S |-> g[i]],
         NEW j \in S, NEW v, g[j] = v, \A i \in S \ {j} : g[i] = f[i]
  PROVE  g = [f EXCEPT ![j] = v]
BY SMT

LEMMA LedgerFunctions ==
  /\ LedgerState = [i \in Job |-> LedgerState[i]] /\ LedgerState' = [i \in Job |-> LedgerState'[i]]
  /\ LedgerRuns = [i \in Job |-> LedgerRuns[i]] /\ LedgerRuns' = [i \in Job |-> LedgerRuns'[i]]
  /\ LedgerWithdrawn = [i \in Job |-> LedgerWithdrawn[i]]
  /\ LedgerWithdrawn' = [i \in Job |-> LedgerWithdrawn'[i]]
BY Zenon DEF LedgerState, LedgerRuns, LedgerWithdrawn

\* A step in which one entry of the ledger changes, or none.
LEMMA OneEntry ==
  ASSUME NEW j \in Job, \A i \in Job \ {j} : SameEntry(i)
  PROVE  /\ \A v : LedgerState'[j] = v => LedgerState' = [LedgerState EXCEPT ![j] = v]
         /\ \A v : LedgerRuns'[j] = v => LedgerRuns' = [LedgerRuns EXCEPT ![j] = v]
         /\ \A v : LedgerWithdrawn'[j] = v => LedgerWithdrawn' = [LedgerWithdrawn EXCEPT ![j] = v]
         /\ LedgerState'[j] = LedgerState[j] => LedgerState' = LedgerState
         /\ LedgerRuns'[j] = LedgerRuns[j] => LedgerRuns' = LedgerRuns
         /\ LedgerWithdrawn'[j] = LedgerWithdrawn[j] => LedgerWithdrawn' = LedgerWithdrawn
<1>1. /\ \A v : LedgerState'[j] = v => LedgerState' = [LedgerState EXCEPT ![j] = v]
      /\ \A v : LedgerRuns'[j] = v => LedgerRuns' = [LedgerRuns EXCEPT ![j] = v]
      /\ \A v : LedgerWithdrawn'[j] = v => LedgerWithdrawn' = [LedgerWithdrawn EXCEPT ![j] = v]
  BY LedgerFunctions, FunctionExcept, ZenonT(60) DEF SameEntry
<1>2. /\ LedgerState'[j] = LedgerState[j] => LedgerState' = LedgerState
      /\ LedgerRuns'[j] = LedgerRuns[j] => LedgerRuns' = LedgerRuns
      /\ LedgerWithdrawn'[j] = LedgerWithdrawn[j] => LedgerWithdrawn' = LedgerWithdrawn
  BY LedgerFunctions, FunctionSame, Zenon DEF SameEntry
<1>. QED  BY <1>1, <1>2, Zenon

LEMMA NoEntry ==
  ASSUME \A i \in Job : SameEntry(i)
  PROVE  UNCHANGED <<LedgerState, LedgerRuns, LedgerWithdrawn>>
BY LedgerFunctions, FunctionSame, Zenon DEF SameEntry

LEMMA QuietLedger ==
  ASSUME \A i \in Job : LikeRow(i) /\ LikeBody(i), Deaths' = Deaths
  PROVE  UNCHANGED LedgerVars
BY LikeEntry, NoEntry, Zenon DEF LedgerVars

\* A closure that goes on or ends is the only one of its job: it alone says
\* whether the job is being executed.
LEMMA OwnBody ==
  ASSUME Inv, Sole, NEW t \in Task, NEW j \in Job, Active(t), task[t].job = j,
         task'[t].job = j \/ task'[t].st = "idle",
         \A u \in Task \ {t} : Stands(u)
  PROVE  /\ RunsNow(j) <=> task[t].st = "run"
         /\ RunsNext(j) <=> task'[t].st = "run"
         /\ \A i \in Job \ {j} : LikeBody(i)
<1>1. \A u \in Task \ {t} : /\ task'[u].job = task[u].job
                            /\ task'[u].st = "run" <=> task[u].st = "run"
  BY SMT DEF Stands
<1>2. \A u \in Task \ {t} : task[u].st = "run" => task[u].job # j
  BY DEF Sole, Distinct, Active
<1>3. "idle" # "run"
  OBVIOUS
<1>4. (RunsNow(j) <=> task[t].st = "run") /\ (RunsNext(j) <=> task'[t].st = "run")
  BY <1>1, <1>2, <1>3, Zenon DEF RunsNow, RunsNext
<1>5. \A i \in Job \ {j} : LikeBody(i)
  BY <1>1, <1>3, Zenon DEF RunsNow, RunsNext, LikeBody
<1>. QED  BY <1>4, <1>5

\* Closures that begin execute nothing yet.
LEMMA FreshBody ==
  ASSUME \A u \in Task : task'[u] = task[u] \/ (~Active(u) /\ task'[u].st = "tick")
  PROVE  \A i \in Job : LikeBody(i)
<1>1. "idle" # "run" /\ "tick" # "run"
  OBVIOUS
<1>. QED  BY <1>1, Zenon DEF RunsNow, RunsNext, LikeBody, Active

\* The closure's own step that neither begins nor ends an execution, and leaves
\* the count and the flag of the job as they are.
LEMMA QuietMoves ==
  ASSUME Inv, Sole, UNCHANGED proc, NEW t \in Task, NEW j \in Job, Active(t), task[t].job = j,
         task'[t].job = j \/ task'[t].st = "idle",
         \A u \in Task \ {t} : Stands(u),
         task'[t].st = "run" <=> task[t].st = "run",
         Only(j), LikeRow(j)
  PROVE  UNCHANGED LedgerVars
<1>1. \A i \in Job : LikeBody(i)
  BY OwnBody, Zenon DEF LikeBody
<1>2. \A i \in Job : LikeRow(i)
  BY Zenon DEF Only, LikeRow
<1>3. Deaths' = Deaths
  BY Zenon DEF Deaths, Dead
<1>. QED  BY <1>1, <1>2, <1>3, QuietLedger

\* push.
LEMMA PushLedger ==
  ASSUME Inv, Sane, Sole, Serial, NEW p \in Pid, PushStep(p)
  PROVE  \E j \in Job : Ledger!Accept(j)
<1>1. ASSUME NEW j \in Job, UNCHANGED proc, Only(j), ~Present(j), row'[j] # NoRow,
             row'[j].ran = 0, row'[j].cancelled = FALSE,
             \A u \in Task : task'[u] = task[u] \/ (~Active(u) /\ task'[u].st = "tick")
      PROVE  Ledger!Accept(j)
  <2>1. \A i \in Job : LikeBody(i)
    BY <1>1, FreshBody
  <2>2. \A i \in Job \ {j} : SameEntry(i)
    BY <1>1, <2>1, LikeEntry, Zenon DEF Only, LikeRow
  <2>3. ~RunsNow(j)
    BY <1>1 DEF RunsNow, Sole, InTable, Active
  <2>4. /\ LedgerState[j] = "absent" /\ LedgerRuns[j] = 0 /\ LedgerWithdrawn[j] = FALSE
        /\ LedgerState'[j] = "pending" /\ LedgerRuns'[j] = 0 /\ LedgerWithdrawn'[j] = FALSE
    BY <1>1, <2>1, <2>3, EntryNow, EntryNext DEF LikeBody
  <2>5. /\ LedgerState' = [LedgerState EXCEPT ![j] = "pending"]
        /\ LedgerRuns' = LedgerRuns /\ LedgerWithdrawn' = LedgerWithdrawn
    BY <2>2, <2>4, OneEntry
  <2>6. Deaths' = Deaths
    BY <1>1, Zenon DEF Deaths, Dead
  <2>. QED  BY <2>4, <2>5, <2>6, Zenon DEF Ledger!Accept
<1>2. ASSUME NEW t \in Task, NEW j \in Job, Push(p, t, j)  PROVE Ledger!Accept(j)
  <2>1. UNCHANGED proc /\ Begun(t, p, j) /\ ~Present(j)
    BY <1>2, NewBegins DEF Push, Inv
  <2>2. Only(j) /\ Added(j, "none")
    BY <1>2, AddMoves DEF Push, Inv
  <2>3. \A u \in Task : task'[u] = task[u] \/ (~Active(u) /\ task'[u].st = "tick")
    BY <2>1, Zenon DEF Begun
  <2>. QED  BY <1>1, <2>1, <2>2, <2>3, Zenon DEF Added
<1>3. ASSUME NEW j \in Job, PushDelayed(p, j)  PROVE Ledger!Accept(j)
  <2>1. UNCHANGED <<proc, task>> /\ ~Present(j)
    BY <1>3 DEF PushDelayed
  <2>2. Only(j) /\ Added(j, "later")
    BY <1>3, AddMoves DEF PushDelayed, Inv
  <2>. QED  BY <1>1, <2>1, <2>2, Zenon DEF Added
<1>4. \A t \in Task, j \in Job : ~PushVolatile(p, t, j)
  BY DEF PushVolatile, Serial
<1>. QED  BY <1>2, <1>3, <1>4 DEF PushStep

\* A process that starts brings nothing to the ledger, one that dies ends the
\* executions.
LEMMA ProcessLedger ==
  ASSUME Inv, Sane, Sole, Serial, Tally, NEW p \in Pid, ProcessStep(p)
  PROVE  UNCHANGED LedgerVars \/ Ledger!Die
<1>1. CASE Start(p)
  <2>1. UNCHANGED <<row, task>> /\ \A q \in Pid : proc'[q] = "dead" <=> proc[q] = "dead"
    BY <1>1 DEF Start, Inv, TypeOK
  <2>2. Deaths' = Deaths
    BY <2>1, SameDeaths
  <2>3. \A i \in Job : LikeRow(i) /\ LikeBody(i)
    BY <2>1, FreshBody, Zenon DEF LikeRow
  <2>. QED  BY <2>2, <2>3, QuietLedger
<1>2. CASE Populate(p)
  <2>1. /\ proc[p] = "starting" /\ proc' = [proc EXCEPT ![p] = "up"]
        /\ MarkRows(p, Startable) /\ Startable \in SUBSET Job
        /\ \A t \in Task : \/ task'[t] = task[t]
                           \/ \E j \in Fetched(p, Startable) : Loaded(t, p, j)
    BY <1>2, PopulateMoves, Zenon
  <2>2. \A q \in Pid : proc'[q] = "dead" <=> proc[q] = "dead"
    BY <2>1 DEF Inv, TypeOK
  <2>3. Deaths' = Deaths
    BY <2>2, SameDeaths
  <2>4. \A i \in Job : row'[i] = row[i] \/ Taken(p, i)
    BY <2>1, MarkRowsMoves DEF Inv, Startable
  <2>5. \A i \in Job : LikeRow(i)
    BY <2>4, Zenon DEF Taken, KeepsFlags, LikeRow
  <2>6. \A i \in Job : LikeBody(i)
    BY <2>1, FreshBody, Zenon DEF Loaded
  <2>. QED  BY <2>3, <2>5, <2>6, QuietLedger
<1>3. CASE Crash(p)
  <2>1. row' = row /\ \A t \in Task : task'[t].st = "idle"
    BY <1>3, CrashSole, IdleIdle, Zenon DEF Crash
  <2>2. Live(p) /\ proc'[p] = "dead" /\ \A q \in Pid \ {p} : proc'[q] = proc[q]
    BY <1>3, SMT DEF Crash, Inv, TypeOK
  <2>3. Dead' = Dead \cup {p} /\ p \notin Dead
    BY <2>2 DEF Dead, Live
  <2>4. Deaths' = Deaths + 1
    BY <2>3, FS_AddElement DEF Tally, Deaths
  <2>5. ASSUME NEW i \in Job
        PROVE  /\ LedgerState'[i] = IF LedgerState[i] = "running" THEN "pending" ELSE LedgerState[i]
               /\ LedgerRuns'[i] = LedgerRuns[i] /\ LedgerWithdrawn'[i] = LedgerWithdrawn[i]
    <3>1. ~RunsNext(i)
      BY <2>1 DEF RunsNext
    <3>2. CASE Present(i)
      <4>1. /\ LedgerState[i] = IF RunsNow(i) THEN "running" ELSE "pending"
            /\ LedgerState'[i] = "pending"
            /\ LedgerRuns'[i] = LedgerRuns[i] /\ LedgerWithdrawn'[i] = LedgerWithdrawn[i]
        BY <2>1, <3>1, <3>2, EntryNow, EntryNext, Zenon DEF Present
      <4>. QED  BY <4>1
    <3>3. CASE ~Present(i)
      BY <2>1, <3>3, EntryNow, EntryNext DEF Present
    <3>. QED  BY <3>2, <3>3
  <2>6. LedgerState' = [i \in Job |-> IF LedgerState[i] = "running" THEN "pending" ELSE LedgerState[i]]
    BY <2>5, LedgerFunctions, Zenon
  <2>7. LedgerRuns' = LedgerRuns /\ LedgerWithdrawn' = LedgerWithdrawn
    BY <2>5, LedgerFunctions, FunctionSame, Zenon
  <2>. QED  BY <2>4, <2>6, <2>7, Zenon DEF Ledger!Die
<1>4. ~PopulateFails(p)
  BY DEF PopulateFails, Serial
<1>. QED  BY <1>1, <1>2, <1>3, <1>4 DEF ProcessStep

\* onJob begins, answers, or is no longer waited for.
LEMMA WorkerLedger ==
  ASSUME Inv, Sole, Serial, Tally, RetryBounded, NEW t \in Task, WorkerStep(t)
  PROVE  UNCHANGED LedgerVars \/ \E j \in Job : Ledger!Execute(j) \/ Ledger!Finish(j)
<1>1. /\ UNCHANGED proc /\ Active(t) /\ task[t].job \in Job
      /\ \/ row' = row /\ task[t].st = "tick" /\ Moved(t, {"check", "wait"})
         \/ row' = row /\ task[t].st = "check" /\ Moved(t, {"clear"})
         \/ CountRun(task[t].job) /\ task[t].st = "check" /\ Moved(t, {"run"})
         \/ row' = row /\ task[t].st = "run" /\ Moved(t, {"clear", "claim"})
  BY WorkerMoves DEF Serial
<1>2. PICK j \in Job : j = task[t].job
  BY <1>1
<1>3. task'[t].job = j /\ \A u \in Task \ {t} : Stands(u)
  BY <1>1, <1>2, Zenon DEF Moved
<1>4. /\ RunsNow(j) <=> task[t].st = "run"
      /\ RunsNext(j) <=> task'[t].st = "run"
      /\ \A i \in Job \ {j} : LikeBody(i)
  BY <1>1, <1>2, <1>3, OwnBody
<1>5. Deaths' = Deaths
  BY <1>1, Zenon DEF Deaths, Dead
<1>6. PICK d \in Nat : d = Deaths
  BY DeathsNat
<1>7. /\ Present(j) /\ row[j] # NoRow /\ Fits(task[t], row[j], d)
      /\ row[j].retryCount \in Nat /\ row[j].ran \in Nat
  BY <1>1, <1>2, <1>6, AtWork, Zenon
<1>8. CASE /\ row' = row
           /\ \/ task[t].st = "tick" /\ Moved(t, {"check", "wait"})
              \/ task[t].st = "check" /\ Moved(t, {"clear"})
  <2>1. task[t].st # "run" /\ task'[t].st # "run"
    BY <1>8 DEF Moved
  <2>2. Only(j) /\ LikeRow(j)
    BY <1>8, Zenon DEF Only, LikeRow
  <2>. QED  BY <1>1, <1>2, <1>3, <2>1, <2>2, QuietMoves
<1>9. CASE CountRun(task[t].job) /\ task[t].st = "check" /\ Moved(t, {"run"})
  <2>1. Only(j) /\ Runs(j)
    BY <1>2, <1>7, <1>9, CountRunMoves DEF Inv
  <2>2. row'[j] # NoRow /\ row'[j].cancelled = row[j].cancelled
    BY <2>1, Zenon DEF Runs, Stays, KeepsFlags
  <2>3. \A i \in Job \ {j} : SameEntry(i)
    BY <1>4, <2>1, LikeEntry, Zenon DEF Only, LikeRow
  <2>4. task'[t].st = "run" /\ task[t].st # "run"
    BY <1>9 DEF Moved
  <2>5. /\ LedgerState[j] = "pending" /\ LedgerRuns[j] = row[j].ran
        /\ LedgerState'[j] = "running" /\ LedgerRuns'[j] = row'[j].ran
        /\ LedgerWithdrawn'[j] = LedgerWithdrawn[j]
    BY <1>4, <1>7, <2>2, <2>4, EntryNow, EntryNext, Zenon
  <2>6. row[j].ran < Bound + d
    <3>1. Spare(row[j], d)
      BY <1>7, <1>9 DEF Fits
    <3>2. row[j].retryCount <= Bound /\ Bound \in Nat
      BY <1>7, QueueAssumption DEF RetryBounded, Bound
    <3>. QED  BY <1>7, <3>1, <3>2, SMT DEF Spare
  <2>7. LedgerRuns[j] < (IF MaxRetries = 0 THEN 1 ELSE MaxRetries) + Deaths
    BY <1>6, <2>5, <2>6, Zenon DEF Bound
  <2>8. LedgerRuns'[j] = IF LedgerRuns[j] < RunCap THEN LedgerRuns[j] + 1 ELSE LedgerRuns[j]
    BY <2>1, <2>5, Zenon DEF Runs
  <2>9. /\ LedgerState' = [LedgerState EXCEPT ![j] = "running"]
        /\ LedgerRuns' = [LedgerRuns EXCEPT ![j] = IF @ < RunCap THEN @ + 1 ELSE @]
        /\ LedgerWithdrawn' = LedgerWithdrawn
    BY <2>3, <2>5, <2>8, OneEntry, Zenon
  <2>10. Ledger!Execute(j)
    BY <1>5, <2>5, <2>7, <2>9, Zenon DEF Ledger!Execute
  <2>. QED  BY <2>10
<1>10. CASE row' = row /\ task[t].st = "run" /\ Moved(t, {"clear", "claim"})
  <2>1. task'[t].st # "run" /\ row'[j] # NoRow
    BY <1>7, <1>10 DEF Moved
  <2>2. \A i \in Job \ {j} : SameEntry(i)
    BY <1>4, <1>10, LikeEntry, Zenon DEF LikeRow
  <2>3. /\ LedgerState[j] = "running" /\ LedgerState'[j] = "pending"
        /\ LedgerRuns'[j] = LedgerRuns[j] /\ LedgerWithdrawn'[j] = LedgerWithdrawn[j]
    BY <1>4, <1>7, <1>10, <2>1, EntryNow, EntryNext, Zenon
  <2>4. /\ LedgerState' = [LedgerState EXCEPT ![j] = "pending"]
        /\ LedgerRuns' = LedgerRuns /\ LedgerWithdrawn' = LedgerWithdrawn
    BY <2>2, <2>3, OneEntry, Zenon
  <2>5. Ledger!Finish(j)
    BY <1>5, <2>3, <2>4, Zenon DEF Ledger!Finish
  <2>. QED  BY <2>5
<1>. QED  BY <1>1, <1>8, <1>9, <1>10

\* onJobComplete: the job is removed when it was executed or withdrawn.
LEMMA CompleteLedger ==
  ASSUME Inv, Sole, Serial, Tally, "restore" \notin Api, NEW t \in Task, CompleteStep(t)
  PROVE  UNCHANGED LedgerVars \/ \E j \in Job : Ledger!Remove(j)
<1>1. UNCHANGED proc /\ Active(t) /\ task[t].pid \in Pid /\ task[t].job \in Job
  BY CompleteMoves, Zenon
<1>2. PICK p \in Pid, j \in Job : p = task[t].pid /\ j = task[t].job
  BY <1>1
<1>3. Present(j) /\ Fits(task[t], row[j], Deaths)
  BY <1>1, <1>2, AtWork, Zenon
<1>4. task[t].st \in {"clear", "claim", "update", "backoff"}
  BY Zenon DEF CompleteStep, Clear, ClearFails, Disown, GiveUp, PlanRetry, SaveRetry,
               SaveRetryRefused, CompleteFails, Retry
<1>5. Deaths' = Deaths
  BY <1>1, Zenon DEF Deaths, Dead
<1>6. CASE Clear(t) /\ Gone(t)
  <2>1. Only(j) /\ row'[j] = NoRow
    BY <1>2, <1>6, DeleteMoves DEF Clear, Inv
  <2>2. task'[t].st = "idle" /\ \A u \in Task \ {t} : Stands(u)
    BY <1>6, IdleIdle, Zenon DEF Gone, Stands
  <2>3. ~RunsNow(j) /\ \A i \in Job \ {j} : LikeBody(i)
    BY <1>1, <1>2, <1>4, <2>2, OwnBody
  <2>4. \A i \in Job \ {j} : SameEntry(i)
    BY <2>1, <2>3, LikeEntry, Zenon DEF Only, LikeRow
  <2>5. row[j].ran > 0 \/ row[j].cancelled
    <3>1. task[t].st = "clear"
      BY <1>6 DEF Clear
    <3>. QED  BY <1>3, <3>1, Zenon DEF Fits
  <2>6. /\ LedgerState[j] = "pending" /\ LedgerRuns[j] = row[j].ran
        /\ LedgerWithdrawn[j] = row[j].cancelled
    BY <1>3, <2>3, EntryNow, Zenon
  <2>7. LedgerState'[j] = "absent" /\ LedgerRuns'[j] = 0 /\ LedgerWithdrawn'[j] = FALSE
    BY <2>1, EntryNext
  <2>8. /\ LedgerState' = [LedgerState EXCEPT ![j] = "absent"]
        /\ LedgerRuns' = [LedgerRuns EXCEPT ![j] = 0]
        /\ LedgerWithdrawn' = [LedgerWithdrawn EXCEPT ![j] = FALSE]
    BY <2>4, <2>7, OneEntry, Zenon
  <2>9. LedgerRuns[j] > 0 \/ LedgerWithdrawn[j]
    BY <2>5, <2>6, Zenon
  <2>10. Ledger!Remove(j)
    BY <1>5, <2>6, <2>8, <2>9, Zenon DEF Ledger!Remove
  <2>. QED  BY <2>10
<1>7. ASSUME Gone(t) \/ \E next \in SUBSET {"check", "wait", "clear", "update", "backoff"} : Moved(t, next),
             Only(j), LikeRow(j)
      PROVE  UNCHANGED LedgerVars
  <2>1. /\ task'[t].job = j \/ task'[t].st = "idle"
        /\ \A u \in Task \ {t} : Stands(u)
    BY <1>2, <1>7, IdleIdle, Zenon DEF Gone, Moved, Stands
  <2>2. task[t].st # "run" /\ task'[t].st # "run"
    BY <1>4, <1>7, IdleIdle DEF Gone, Moved
  <2>. QED  BY <1>1, <1>2, <1>7, <2>1, <2>2, QuietMoves
<1>8. row' = row => Only(j) /\ LikeRow(j)
  BY Zenon DEF Only, LikeRow
<1>9. CASE (GiveUp(t) /\ Moved(t, {"clear"})) \/ (PlanRetry(t) /\ Moved(t, {"update"}))
  <2>1. ClaimRow(p, j) /\ Claimable(p, j)
    BY <1>2, <1>9, Zenon DEF GiveUp, PlanRetry
  <2>2. Only(j) /\ Taken(p, j)
    BY <2>1, ClaimRowMoves DEF Inv
  <2>3. LikeRow(j)
    BY <2>2, Zenon DEF Taken, KeepsFlags, LikeRow
  <2>. QED  BY <1>7, <1>9, <2>2, <2>3
<1>10. CASE SaveRetry(t) /\ Moved(t, {"backoff"})
  <2>1. Only(j) /\ Counts(p, j, task[t].seen + 1)
    BY <1>1, <1>2, <1>10, SaveRetryMoves DEF Inv
  <2>2. LikeRow(j)
    BY <2>1, Zenon DEF Counts, KeepsFlags, LikeRow
  <2>. QED  BY <1>7, <1>10, <2>1, <2>2
<1>11. CASE \/ SaveRetryRefused(t) /\ Moved(t, {"clear"})
            \/ row' = row /\ Moved(t, {"check", "wait"})
            \/ Disown(t) /\ Gone(t)
  BY <1>7, <1>8, <1>11 DEF SaveRetryRefused, Disown
<1>12. ~ClearFails(t) /\ ~CompleteFails(t)
  BY DEF ClearFails, CompleteFails, Serial
<1>. QED  BY <1>6, <1>9, <1>10, <1>11, <1>12, CompleteMoves, Zenon

\* Reading a row, or writing its flag, withdraws the job or does nothing.
LEMMA TouchLedger ==
  ASSUME Inv, "restore" \notin Api, UNCHANGED <<proc, task>>, NEW p \in Pid, NEW j \in Job,
         Only(j), Touched(p, j)
  PROVE  UNCHANGED LedgerVars \/ Ledger!Withdraw(j)
<1>1. \A i \in Job : LikeBody(i)
  BY FreshBody
<1>2. Deaths' = Deaths
  BY Zenon DEF Deaths, Dead
<1>3. CASE row'[j].cancelled = row[j].cancelled
  <2>1. LikeRow(j)
    BY <1>3, Zenon DEF Touched, LikeRow
  <2>2. \A i \in Job : LikeRow(i)
    BY <2>1, Zenon DEF Only, LikeRow
  <2>. QED  BY <1>1, <1>2, <2>2, QuietLedger
<1>4. CASE row'[j].cancelled = TRUE
  <2>1. \A i \in Job \ {j} : SameEntry(i)
    BY <1>1, LikeEntry, Zenon DEF Only, LikeRow
  <2>2. Present(j) /\ row'[j] # NoRow /\ row'[j].ran = row[j].ran
    BY Zenon DEF Touched, Stays, KeepsRuns, Present
  <2>3. /\ LedgerState[j] # "absent" /\ LedgerState'[j] = LedgerState[j]
        /\ LedgerRuns'[j] = LedgerRuns[j] /\ LedgerWithdrawn'[j] = TRUE
    <3>1. LedgerState[j] = IF RunsNow(j) THEN "running" ELSE "pending"
      BY <2>2, EntryNow, Zenon
    <3>2. /\ LedgerState'[j] = LedgerState[j]
          /\ LedgerRuns'[j] = LedgerRuns[j] /\ LedgerWithdrawn'[j] = TRUE
      BY <1>1, <1>4, <2>2, EntryNow, EntryNext, Zenon DEF LikeBody
    <3>. QED  BY <3>1, <3>2
  <2>4. /\ LedgerState' = LedgerState /\ LedgerRuns' = LedgerRuns
        /\ LedgerWithdrawn' = [LedgerWithdrawn EXCEPT ![j] = TRUE]
    BY <2>1, <2>3, OneEntry, Zenon
  <2>. QED  BY <1>2, <2>3, <2>4, Zenon DEF Ledger!Withdraw
<1>. QED  BY <1>3, <1>4, Zenon DEF Touched

LEMMA ApiLedger ==
  ASSUME Inv, Called, Serial, "restore" \notin Api, NEW p \in Pid, ApiStep(p)
  PROVE  UNCHANGED LedgerVars \/ \E j \in Job : Ledger!Withdraw(j)
<1>1. UNCHANGED <<proc, task>> /\ (row' = row \/ \E j \in Job : Only(j) /\ Touched(p, j))
  BY ApiMoves DEF Serial
<1>2. CASE row' = row
  <2>1. \A i \in Job : LikeRow(i) /\ LikeBody(i)
    BY <1>1, <1>2, FreshBody, Zenon DEF LikeRow
  <2>2. Deaths' = Deaths
    BY <1>1, Zenon DEF Deaths, Dead
  <2>. QED  BY <2>1, <2>2, QuietLedger
<1>. QED  BY <1>1, <1>2, TouchLedger

\* The loop cancels what it takes up; time passes without a trace.
LEMMA LoopLedger ==
  ASSUME Inv, Sane, Sole, Serial, "restore" \notin Api, NEW p \in Pid, LoopStep(p)
  PROVE  UNCHANGED LedgerVars \/ \E j \in Job : Ledger!Withdraw(j)
<1>1. Live(p) /\ UNCHANGED proc /\ \A q \in Pid \ {p} : loop'[q] = loop[q]
  BY LoopMoves, LoopActs
<1>2. Deaths' = Deaths
  BY <1>1, Zenon DEF Deaths, Dead
<1>3. CASE LoopUpdates(p) \/ \E j \in Job : LoopCancels(p, j)
  <2>1. PICK j \in Job : task' = task /\ Only(j) /\ Touched(p, j)
    BY <1>3, LoopTouches, Zenon
  <2>. QED  BY <1>1, <2>1, TouchLedger
<1>4. CASE LoopScans(p)
  <2>1. \A j \in Job : row'[j] = row[j] \/ Taken(p, j)
    BY <1>1, <1>4, ScanSole, Zenon
  <2>2. \A j \in Job : LikeRow(j)
    BY <2>1, Zenon DEF Taken, KeepsFlags, LikeRow
  <2>3. \A i \in Job : LikeBody(i)
    BY <1>4, FreshBody DEF LoopScans
  <2>. QED  BY <1>2, <2>2, <2>3, QuietLedger
<1>5. ASSUME NEW t \in Task, LoopPushes(p, t)  PROVE UNCHANGED LedgerVars
  <2>1. \A i \in Job : LikeRow(i)
    BY <1>5, Zenon DEF LoopPushes, LikeRow
  <2>2. \A i \in Job : LikeBody(i)
    BY <1>5, FreshBody, Zenon DEF LoopPushes, Begun
  <2>. QED  BY <1>2, <2>1, <2>2, QuietLedger
<1>6. CASE LoopStops(p)
  <2>1. \A i \in Job : LikeRow(i) /\ LikeBody(i)
    BY <1>6, FreshBody, Zenon DEF LoopStops, LikeRow
  <2>. QED  BY <1>2, <2>1, QuietLedger
<1>. QED  BY <1>3, <1>4, <1>5, <1>6, LoopMoves

LEMMA TimeLedger ==
  ASSUME Inv, TimeStep \/ UNCHANGED vars
  PROVE  UNCHANGED LedgerVars
<1>1. UNCHANGED <<proc, task>>
  BY TimeRows
<1>2. \A i \in Job : LikeRow(i)
  BY TimeRows, Zenon DEF Only, LikeRow
<1>3. \A i \in Job : LikeBody(i)
  BY <1>1, FreshBody
<1>4. Deaths' = Deaths
  BY <1>1, Zenon DEF Deaths, Dead
<1>. QED  BY <1>2, <1>3, <1>4, QuietLedger

LEMMA InitLedger == Init => Ledger!Init
<1>. SUFFICES ASSUME Init PROVE Ledger!Init
  OBVIOUS
<1>1. \A j \in Job : ~Present(j)
  BY DEF Init, Present
<1>2. /\ LedgerState = [j \in Job |-> "absent"] /\ LedgerRuns = [j \in Job |-> 0]
      /\ LedgerWithdrawn = [j \in Job |-> FALSE]
  BY <1>1, Zenon DEF LedgerState, LedgerRuns, LedgerWithdrawn
<1>3. Dead = {}
  BY DEF Init, Dead
<1>4. Deaths = 0
  BY <1>3, FS_EmptySet DEF Deaths
<1>. QED  BY <1>2, <1>4, Zenon DEF Ledger!Init

\* With one process at a time, the queue keeps the promise of JobLedger, whatever
\* crashes, times out, is cancelled, scheduled or retried: each job accepted goes
\* through executions that never overlap and are bounded, and is removed only
\* after one of them or its cancellation (index.js:87-258).
THEOREM LedgerKept ==
  ASSUME Serial, "restore" \notin Api
  PROVE  Spec => LedgerSpec
<1>1. Inv /\ (Sane /\ Called /\ Sole /\ Tally) /\ RetryBounded /\ [Next]_vars
        => [Ledger!Next]_LedgerVars
  <2>. SUFFICES ASSUME Inv, Sane, Called, Sole, Tally, RetryBounded, [Next]_vars
                PROVE  Ledger!Next \/ UNCHANGED LedgerVars
    OBVIOUS
  <2>1. ASSUME NEW p \in Pid, ProcessStep(p)  PROVE Ledger!Next \/ UNCHANGED LedgerVars
    BY <2>1, ProcessLedger, Zenon DEF Ledger!Next
  <2>2. ASSUME NEW p \in Pid, PushStep(p)  PROVE Ledger!Next \/ UNCHANGED LedgerVars
    BY <2>2, PushLedger, Zenon DEF Ledger!Next
  <2>3. ASSUME NEW p \in Pid, ApiStep(p)  PROVE Ledger!Next \/ UNCHANGED LedgerVars
    BY <2>3, ApiLedger, Zenon DEF Ledger!Next
  <2>4. ASSUME NEW p \in Pid, LoopStep(p)  PROVE Ledger!Next \/ UNCHANGED LedgerVars
    BY <2>4, LoopLedger, Zenon DEF Ledger!Next
  <2>5. ASSUME NEW t \in Task, WorkerStep(t)  PROVE Ledger!Next \/ UNCHANGED LedgerVars
    BY <2>5, WorkerLedger, Zenon DEF Ledger!Next
  <2>6. ASSUME NEW t \in Task, CompleteStep(t)  PROVE Ledger!Next \/ UNCHANGED LedgerVars
    BY <2>6, CompleteLedger, Zenon DEF Ledger!Next
  <2>7. CASE TimeStep \/ UNCHANGED vars
    BY <2>7, TimeLedger
  <2>. QED  BY <2>1, <2>2, <2>3, <2>4, <2>5, <2>6, <2>7, Zenon DEF Next
<1>2. [Ledger!Next]_LedgerVars => [Ledger!Next]_(Ledger!ledger)
  BY Zenon DEF LedgerVars, Ledger!ledger
<1>. QED  BY <1>1, <1>2, InitLedger, TallyHolds, Invariance, RetriesCorrect,
             PTL DEF Spec, LedgerSpec, Ledger!Spec
=============================================================================
