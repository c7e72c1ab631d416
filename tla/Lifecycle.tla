----------------------------- MODULE Lifecycle -----------------------------
(* The components of one blocklet and what starts, restarts, reloads and     *)
(* stops them: the requests of users and the watchdog that restarts what     *)
(* should run and does not.  A component has two colours: the blue and the   *)
(* green instance, each with a status in the table blocklet_children and a   *)
(* process under pm2.  A start works on blue; a restart starts the colour    *)
(* that is not in use, switches to it and then deletes the other             *)
(* (blue-green deployment).  Every await of these handlers is a place where  *)
(* another handler, a dying process or a dying daemon may come in between.   *)
(*                                                                           *)
(* Sources: core/state/lib/blocklet/manager/ensure-blocklet-running.js,      *)
(* disk/start-manager.js, disk/stop-restart-manager.js,                      *)
(* helper/blue-green-start-blocklet.js, states/blocklet-child.js.            *)
EXTENDS Naturals, FiniteSets

CONSTANTS Comps,     \* the components of the blocklet, all with an engine
          Callers,   \* requests that can be under way at the same time
          Dog,       \* the worker of the watchdog's restart queue
          None,      \* nobody
          EventCap   \* bound on the requests and faults of a behaviour

ASSUME LifecycleAssumption ==
  /\ Dog \notin Callers
  /\ None \notin Callers \cup {Dog}
  /\ EventCap \in Nat

Slots == Callers \cup {Dog}
Colours == {"blue", "green"}
Other(k) == IF k = "blue" THEN "green" ELSE "blue"
InProgress == {"starting", "stopping"}
Statuses == InProgress \cup {"stopped", "running", "error"}
Kinds == {"none", "start", "retry", "restart", "reload", "stop"}
Points == {"idle", "clear", "green", "queued", "parked", "mark", "run", "final"}
Results == {"running", "error"}
Phases == {"none", "wait", "acquire", "launch", "check", "passed",
           "switch", "failed", "drop", "kill", "done"}
Patience == [stopping |-> 1, starting |-> 2, other |-> 4]
Verdicts == DOMAIN Patience \cup Colours \cup {"none"}

VARIABLES
  st,       \* status of each component and colour (blocklet_children)
  proc,     \* the colours of each component whose process is up and healthy
  lock,     \* startLock of each component: who is launching it
  writes,   \* statuses of blue that starts are writing and do not wait for
  op,       \* what each slot is doing: kind, components, point reached
  at,       \* how far each slot is with each component
  to,       \* the colour each slot starts of each component
  queue,    \* restartQueue: the components to restart, {}: no entry
  pending,  \* pendingJobs: the components being restarted, {}: no job
  snap,     \* what getRunningBlocklets read of each component
  since,    \* progressBlockletsTime, in checks; 0: not recorded
  events,   \* the requests and faults so far
  kept,     \* (history) served when last at rest, and only restarts since
  muddled   \* (history) overlapping requests, a failed deletion or a crash

vars == <<st, proc, lock, writes, op, at, to, queue, pending, snap, since,
          events, kept, muddled>>
work == <<op, at, to>>
watch == <<queue, pending, snap, since>>
history == <<kept, muddled>>

\* row: has a daemon that died since claimed the row of the job of a restart?
Doing(kind, D, pc) == [kind |-> kind, comps |-> D, pc |-> pc, row |-> "fresh"]
Idle == Doing("none", {}, "idle")
Nowhere == [c \in Comps |-> "none"]
Unread == [c \in Comps |-> "none"]

\* the colour the router and the watchdog look at
Routed(c) == IF st[c]["green"] = "running" THEN "green" ELSE "blue"
Runs(c) == \E k \in Colours : st[c][k] = "running"
Moving(c) == \E k \in Colours : st[c][k] \in InProgress
Serving(c) == Runs(c) /\ Routed(c) \in proc[c]
Tidy(c) == \A k \in proc[c] : st[c][k] \notin {"stopped", "error"}
Engaged(s, c) == c \in op[s].comps /\ op[s].pc \notin {"queued", "parked"}
Busy(c) == writes[c] # {} \/ \E s \in Slots : Engaged(s, c)
IsStart(s) == op[s].kind \in {"start", "retry"}

----------------------------------------------------------------------------
Init ==
  /\ st \in [Comps -> {[blue |-> "running", green |-> "stopped"],
                       [blue |-> "stopped", green |-> "running"],
                       [blue |-> "stopped", green |-> "stopped"]}]
  /\ proc = [c \in Comps |-> {k \in Colours : st[c][k] = "running"}]
  /\ lock = [c \in Comps |-> None]
  /\ writes = [c \in Comps |-> {}]
  /\ op = [s \in Slots |-> Idle]
  /\ at = [s \in Slots |-> Nowhere]
  /\ to = [s \in Slots |-> [c \in Comps |-> "blue"]]
  /\ queue = {} /\ pending = {} /\ snap = Unread
  /\ since = [c \in Comps |-> 0]
  /\ events = 0
  /\ kept = [c \in Comps |-> Runs(c)]
  /\ muddled = [c \in Comps |-> FALSE]

(* Steps that are part of several operations.                                *)
Event == events < EventCap /\ events' = events + 1
Fault == Event

\* slot s starts to work on the components of D
Begin(s, D, keeps) ==
  LET free(c) == writes[c] = {} /\ \A t \in Slots \ {s} : ~Engaged(t, c) IN
  /\ kept' = [c \in Comps |-> kept[c] /\ (c \in D => keeps /\ free(c))]
  /\ muddled' = [c \in Comps |-> muddled[c] \/ (c \in D /\ ~free(c))]

Muddle(D) ==
  /\ kept' = [c \in Comps |-> kept[c] /\ c \notin D]
  /\ muddled' = [c \in Comps |-> muddled[c] \/ c \in D]

Goto(s, pc) == op' = [op EXCEPT ![s].pc = pc]
SetAt(s, c, phase) == at' = [at EXCEPT ![s][c] = phase]
SetAll(s, phase) ==
  at' = [at EXCEPT ![s] = [c \in Comps |->
           IF c \in op[s].comps THEN phase ELSE "none"]]

\* setBlockletStatus of the components of D, one status for the colours of K
SetStatus(D, K, status) ==
  st' = [c \in Comps |-> [k \in Colours |->
           IF c \in D /\ k \in K THEN status ELSE st[c][k]]]

\* It writes one component after another; the store may refuse any statement.
Refused(D, K, status) == Fault /\ \E E \in SUBSET D : SetStatus(E, K, status)
WriteStatus(D, K, status) ==
  \/ SetStatus(D, K, status) /\ UNCHANGED events
  \/ Refused(D, K, status)

DeleteProcess(D, K) == proc' = [c \in Comps |-> IF c \in D THEN proc[c] \ K ELSE proc[c]]

\* (fault) the job stays pending
Leave_Pending(s) ==
  /\ op' = [op EXCEPT ![s] = Idle]
  /\ at' = [at EXCEPT ![s] = Nowhere]
  /\ to' = [to EXCEPT ![s] = [c \in Comps |-> "blue"]]
  /\ UNCHANGED watch

\* the end of restartBlockletFromQueue (its finally), or of a request
Leave(s) ==
  /\ op' = [op EXCEPT ![s] = Idle]
  /\ at' = [at EXCEPT ![s] = Nowhere]
  /\ to' = [to EXCEPT ![s] = [c \in Comps |-> "blue"]]
  /\ IF s = Dog
       THEN /\ pending' = {}
            /\ since' = [c \in Comps |-> IF c \in pending THEN 0 ELSE since[c]]
       ELSE UNCHANGED <<pending, since>>
  /\ UNCHANGED <<queue, snap>>

\* the histories of the components of D with which nobody is busy any more
Rest(D) ==
  /\ kept' = [c \in Comps |-> kept[c] \/ (c \in D /\ ~Busy(c)' /\ Serving(c)')]
  /\ muddled' = [c \in Comps |-> muddled[c] /\ ~(c \in D /\ ~Busy(c)' /\ Tidy(c)')]

\* start throws: the watchdog tries the components in error once more
Throw(s) ==
  LET failed == {c \in Comps : \E k \in Colours : st[c][k] = "error"} IN
  \/ /\ s = Dog /\ op[s].kind = "start" /\ failed # {}
     /\ op' = [op EXCEPT ![s] = Doing("retry", failed, "clear")]
     /\ at' = [at EXCEPT ![s] = Nowhere]
     /\ Begin(s, failed, FALSE)
     /\ UNCHANGED <<to, watch>>
  \/ /\ ~(s = Dog /\ op[s].kind = "start" /\ failed # {})
     /\ Leave(s) /\ Rest(op[s].comps)

----------------------------------------------------------------------------
(* A request reaches the server: start, stop, reload or restart of some      *)
(* components.  A restart only pushes a job to the start queue; its          *)
(* components are chosen now.  A reload works on those that run on blue.     *)
Call(s, kind, D) ==
  /\ op[s] = Idle /\ Event
  /\ kind = "reload" => \A c \in D : st[c]["blue"] = "running"
  /\ op' = [op EXCEPT ![s] = Doing(kind, D,
              CASE kind = "start" -> "clear" [] kind = "restart" -> "queued"
                [] OTHER -> "mark")]
  /\ IF kind = "restart" THEN UNCHANGED history ELSE Begin(s, D, FALSE)
  /\ UNCHANGED <<st, proc, lock, writes, at, to, watch>>

(* start: the green process goes first; a failure to delete it is ignored.   *)
StartClear(s) ==
  /\ IsStart(s) /\ op[s].pc = "clear"
  /\ \/ /\ DeleteProcess(op[s].comps, {"green"}) /\ Goto(s, "green")
        /\ UNCHANGED <<events, history>>
     \/ /\ Fault /\ Goto(s, "mark") /\ Muddle(op[s].comps) /\ UNCHANGED proc
  /\ UNCHANGED <<st, lock, writes, at, to, watch>>

StartGreen(s) ==
  /\ IsStart(s) /\ op[s].pc = "green"
  /\ WriteStatus(op[s].comps, {"green"}, "stopped")
  /\ Goto(s, "mark")
  /\ UNCHANGED <<proc, lock, writes, at, to, watch, history>>

StartMark(s) ==
  /\ IsStart(s) /\ op[s].pc = "mark"
  /\ SetStatus(op[s].comps, {"blue"}, "starting")
  /\ Goto(s, "run") /\ SetAll(s, "wait")
  /\ UNCHANGED <<proc, lock, writes, to, watch, events, history>>

\* checkControllerStatus, the statement that writes starting or, after it, the
\* validation throws
StartThrows(s) ==
  /\ IsStart(s)
  /\ \/ op[s].pc = "mark" /\ Refused(op[s].comps, {"blue"}, "starting")
     \/ /\ op[s].pc = "run" /\ \A c \in op[s].comps : at[s][c] = "wait"
        /\ Fault /\ UNCHANGED st
  /\ Goto(s, "final")
  /\ UNCHANGED <<proc, lock, writes, at, to, watch, history>>

(* The job of a restart (blueGreenStartBlocklet): while anything of the      *)
(* blocklet is in use, a component is started on the colour it does not run. *)
RestartChoose(s) ==
  LET active == \E c \in Comps, k \in Colours : st[c][k] \in {"running", "starting"} IN
  /\ op[s].kind = "restart" /\ op[s].pc = "queued"
  /\ to' = [to EXCEPT ![s] = [c \in Comps |->
              IF c \in op[s].comps /\ active /\ st[c]["green"] # "running"
                THEN "green" ELSE "blue"]]
  /\ Goto(s, "mark") /\ Begin(s, op[s].comps, TRUE)
  /\ UNCHANGED <<st, proc, lock, writes, at, watch, events>>

MarkTargets(s, D) ==
  st' = [c \in Comps |-> IF c \in D THEN [st[c] EXCEPT ![to[s][c]] = "starting"] ELSE st[c]]

RestartMark(s) ==
  /\ op[s].kind = "restart" /\ op[s].pc = "mark"
  /\ MarkTargets(s, op[s].comps)
  /\ Goto(s, "run") /\ SetAll(s, "wait")
  /\ UNCHANGED <<proc, lock, writes, to, watch, events, history>>

\* It throws: the store refuses a status, or ensureAppPortsNotOccupied does so
\* after a group of colours, the blue one first.  The queue gives the job up.
RestartThrows(s) ==
  /\ op[s].kind = "restart" /\ op[s].pc = "mark" /\ Fault
  /\ \E D \in SUBSET op[s].comps :
       /\ (\E c \in D : to[s][c] = "green") =>
            \A c \in op[s].comps : to[s][c] = "blue" => c \in D
       /\ MarkTargets(s, D)
  /\ Leave(s)
  /\ UNCHANGED <<proc, lock, writes, history>>

(* One component of a start or a restart.                                    *)
Live(s, c, phase) == op[s].pc = "run" /\ c \in op[s].comps /\ at[s][c] = phase

\* startBlockletProcess takes the lock of every component of the blocklet for a
\* moment, selected or not, and leaves out one whose lock somebody else holds, ...
Launching(t, d) == \E phase \in {"wait", "acquire", "launch"} : Live(t, d, phase)
LeftOut(s, c) ==
  \/ lock[c] # None
  \/ \E t \in Slots, d \in Comps \ {c} : Launching(t, d)

Launch(s, c) ==
  /\ Live(s, c, "wait")
  /\ \/ lock[c] = None /\ SetAt(s, c, "acquire")
     \/ LeftOut(s, c) /\ SetAt(s, c, "check")
  /\ UNCHANGED <<st, proc, lock, writes, op, to, watch, events, history>>

\* ... else takes the lock, and waits if somebody else has been faster
Acquire(s, c) ==
  /\ Live(s, c, "acquire") /\ lock[c] = None
  /\ lock' = [lock EXCEPT ![c] = s] /\ SetAt(s, c, "launch")
  /\ UNCHANGED <<st, proc, writes, op, to, watch, events, history>>

Launched(s, c) ==
  /\ Live(s, c, "launch")
  /\ lock' = [lock EXCEPT ![c] = None]
  /\ \/ /\ proc' = [proc EXCEPT ![c] = @ \cup {to[s][c]}]
        /\ SetAt(s, c, "check") /\ UNCHANGED events
     \/ Fault /\ SetAt(s, c, "failed") /\ UNCHANGED proc
  /\ UNCHANGED <<st, writes, op, to, watch, history>>

\* _onCheckIfStarted
Check(s, c) ==
  /\ Live(s, c, "check")
  /\ \/ to[s][c] \in proc[c] /\ SetAt(s, c, "passed") /\ UNCHANGED events
     \/ to[s][c] \notin proc[c] /\ SetAt(s, c, "failed") /\ UNCHANGED events
     \/ to[s][c] \in proc[c] /\ Fault /\ SetAt(s, c, "failed")
  /\ UNCHANGED <<st, proc, lock, writes, op, to, watch, history>>

\* updateChildStatusRunning of a restart writes both colours at once
SwitchTo(c, k) == [st[c] EXCEPT ![k] = "running", ![Other(k)] = "stopped"]

\* a start does not wait for the statuses it writes
Write(c, result) == writes' = [writes EXCEPT ![c] = @ \cup {result}]

\* ... a restart waits, but goes on when the store refuses the write
Passed(s, c) ==
  /\ Live(s, c, "passed")
  /\ \/ /\ IsStart(s) /\ Write(c, "running") /\ SetAt(s, c, "done")
        /\ UNCHANGED <<st, events, history>>
     \/ /\ op[s].kind = "restart" /\ SetAt(s, c, "switch") /\ UNCHANGED writes
        /\ \/ /\ st' = [st EXCEPT ![c] = SwitchTo(c, to[s][c])]
              /\ UNCHANGED <<events, history>>
           \/ /\ Fault /\ kept' = [kept EXCEPT ![c] = FALSE]
              /\ UNCHANGED <<st, muddled>>
  /\ UNCHANGED <<proc, lock, op, to, watch>>

\* the colour that was in use goes; if that fails, the new one is to blame
Retire(s, c) ==
  /\ Live(s, c, "switch")
  /\ \/ /\ DeleteProcess({c}, {Other(to[s][c])}) /\ SetAt(s, c, "done")
        /\ UNCHANGED <<events, history>>
     \/ Fault /\ SetAt(s, c, "failed") /\ Muddle({c}) /\ UNCHANGED proc
  /\ UNCHANGED <<st, lock, writes, op, to, watch>>

Failed(s, c) ==
  /\ Live(s, c, "failed") /\ op[s].kind # "stop" /\ SetAt(s, c, "drop")
  /\ \/ IsStart(s) /\ Write(c, "error") /\ UNCHANGED <<st, events>>
     \/ /\ op[s].kind = "restart" /\ WriteStatus({c}, {to[s][c]}, "error")
        /\ UNCHANGED writes
  /\ UNCHANGED <<proc, lock, op, to, watch, history>>

\* the status that a start wrote arrives, if the store takes it
Land(c, result) ==
  /\ result \in writes[c]
  /\ writes' = [writes EXCEPT ![c] = @ \ {result}]
  /\ WriteStatus({c}, {"blue"}, result)
  /\ UNCHANGED <<proc, lock, op, at, to, watch>>
  /\ Rest({c})

\* (fault) deletes the colour that is in use
RestartDrop_Other(s, c) ==
  /\ op[s].kind = "restart" /\ Live(s, c, "drop") /\ SetAt(s, c, "done")
  /\ DeleteProcess({c}, {Other(to[s][c])}) /\ UNCHANGED <<events, history>>
  /\ UNCHANGED <<st, lock, writes, op, to, watch>>

\* a restart deletes what it failed to start
RestartDrop(s, c) ==
  /\ op[s].kind = "restart" /\ Live(s, c, "drop") /\ SetAt(s, c, "done")
  /\ \/ DeleteProcess({c}, {to[s][c]}) /\ UNCHANGED <<events, history>>
     \/ Fault /\ Muddle({c}) /\ UNCHANGED proc
  /\ UNCHANGED <<st, lock, writes, op, to, watch>>

RestartEnd(s) ==
  /\ op[s].kind = "restart" /\ op[s].pc = "run"
  /\ \A c \in op[s].comps : at[s][c] = "done"
  /\ UNCHANGED <<st, proc, lock, writes, events>>
  /\ Leave(s) /\ Rest(op[s].comps)

\* (fault) leaves the processes of what it failed to start
StartEnd_Keeps(s) ==
  /\ IsStart(s) /\ op[s].pc = "run"
  /\ \A c \in op[s].comps : at[s][c] \in {"done", "drop"}
  /\ UNCHANGED <<st, proc, lock, writes, events>>
  /\ Leave(s) /\ Rest(op[s].comps)

\* start deletes all it failed to start once every component has been tried
StartEnd(s) ==
  LET dropped == {c \in op[s].comps : at[s][c] = "drop"} IN
  /\ IsStart(s) /\ op[s].pc = "run"
  /\ \A c \in op[s].comps : at[s][c] \in {"done", "drop"}
  /\ DeleteProcess(dropped, {"blue"})
  /\ UNCHANGED <<st, lock, writes, events>>
  /\ Leave(s) /\ Rest(op[s].comps)

\* ... and throws when that deletion, or a statement before it, fails
StartEndFails(s) ==
  LET dropped == {c \in op[s].comps : at[s][c] = "drop"} IN
  /\ IsStart(s) /\ op[s].pc = "run" /\ Fault
  /\ \A c \in op[s].comps : at[s][c] \in {"done", "drop"}
  /\ Goto(s, "final") /\ Muddle(dropped)
  /\ UNCHANGED <<st, proc, lock, writes, at, to, watch>>

StartEndThrows(s) ==
  /\ IsStart(s) /\ op[s].pc = "final"
  /\ UNCHANGED <<st, proc, lock, writes, events>>
  /\ Throw(s)

(* stop works on both colours.                                               *)
StopMark(s) ==
  /\ op[s].kind = "stop" /\ op[s].pc = "mark"
  /\ SetStatus(op[s].comps, Colours, "stopping")
  /\ Goto(s, "run") /\ SetAll(s, "kill")
  /\ UNCHANGED <<proc, lock, writes, to, watch, events, history>>

StopThrows(s) ==
  /\ op[s].kind = "stop" /\ op[s].pc = "mark"
  /\ Refused(op[s].comps, Colours, "stopping")
  /\ UNCHANGED <<proc, lock, writes>>
  /\ Leave(s) /\ Rest(op[s].comps)

StopKill(s, c) ==
  /\ Live(s, c, "kill")
  /\ \/ DeleteProcess({c}, Colours) /\ SetAt(s, c, "done") /\ UNCHANGED <<events, history>>
     \/ Fault /\ SetAt(s, c, "failed") /\ Muddle({c}) /\ UNCHANGED proc
  /\ UNCHANGED <<st, lock, writes, op, to, watch>>

StopEnd(s) ==
  LET failed == \E c \in op[s].comps : at[s][c] = "failed" IN
  /\ op[s].kind = "stop" /\ op[s].pc = "run"
  /\ \A c \in op[s].comps : at[s][c] \in {"done", "failed"}
  /\ WriteStatus(op[s].comps, Colours, IF failed THEN "error" ELSE "stopped")
  /\ UNCHANGED <<proc, lock, writes>>
  /\ Leave(s) /\ Rest(op[s].comps)

(* reload restarts the blue processes in place, if they are there, and writes*)
(* running.                                                                  *)
Reload(s) ==
  /\ op[s].kind = "reload" /\ op[s].pc = "mark"
  /\ \A c \in op[s].comps : "blue" \in proc[c]
  /\ Goto(s, "run")
  /\ UNCHANGED <<st, proc, lock, writes, at, to, watch, events, history>>

ReloadThrows(s) ==
  /\ op[s].kind = "reload" /\ op[s].pc = "mark"
  /\ \E c \in op[s].comps : "blue" \notin proc[c]
  /\ UNCHANGED <<st, proc, lock, writes, events>>
  /\ Leave(s) /\ Rest(op[s].comps)

Reloaded(s) ==
  /\ op[s].kind = "reload" /\ op[s].pc = "run"
  /\ WriteStatus(op[s].comps, {"blue"}, "running")
  /\ UNCHANGED <<proc, lock, writes>>
  /\ Leave(s) /\ Rest(op[s].comps)

----------------------------------------------------------------------------
(* The watchdog: checkAndFix reads all statuses, ...                         *)
\* (fault) the status of blue, whichever colour is in progress
Verdict_Blue(c) ==
  IF Moving(c) THEN st[c]["blue"]
  ELSE IF Runs(c) THEN Routed(c) ELSE "none"

Verdict(c) ==
  IF Moving(c) THEN IF st[c]["blue"] \in InProgress THEN st[c]["blue"] ELSE "other"
  ELSE IF Runs(c) THEN Routed(c) ELSE "none"

Stopped(c) == \A k \in Colours : st[c][k] = "stopped"

\* checks come minutes apart: no statement is still on its way when one begins
GetRunning ==
  /\ snap = Unread /\ \A c \in Comps : writes[c] = {}
  /\ snap' = [c \in Comps |-> Verdict(c)]
  /\ since' = [c \in Comps |-> IF Runs(c) \/ Stopped(c) THEN 0 ELSE since[c]]
  /\ UNCHANGED <<st, proc, lock, writes, work, queue, pending, events, history>>

(* ... and later judges what it read: what is in progress is given some      *)
(* checks' time, the port of what runs is tried now.  A fake running         *)
(* component is queued unless the blocklet is queued or being restarted.     *)
Fake(c) ==
  \/ snap[c] \in DOMAIN Patience /\ since[c] >= Patience[snap[c]]
  \/ snap[c] \in Colours /\ snap[c] \notin proc[c]

AddToQueue(D) ==
  queue' = IF queue = {} /\ pending = {} THEN D ELSE queue

GetFake ==
  /\ snap # Unread /\ snap' = Unread
  /\ since' = [c \in Comps |->
       IF snap[c] \in DOMAIN Patience /\ since[c] < Patience[snap[c]]
         THEN since[c] + 1 ELSE since[c]]
  /\ AddToQueue({c \in Comps : Fake(c)})
  /\ UNCHANGED <<st, proc, lock, writes, work, pending, events, history>>

(* The worker takes the entry and starts its components.                     *)
TakeEntry ==
  /\ op[Dog] = Idle /\ queue # {}
  /\ queue' = {} /\ pending' = queue
  /\ op' = [op EXCEPT ![Dog] = Doing("start", queue, "clear")]
  /\ Begin(Dog, queue, FALSE)
  /\ UNCHANGED <<st, proc, lock, writes, at, to, snap, since, events>>

----------------------------------------------------------------------------
(* The environment: a process dies or hangs; ...                             *)
ProcessDies(c, k) ==
  /\ k \in proc[c] /\ Fault
  /\ proc' = [proc EXCEPT ![c] = @ \ {k}]
  /\ kept' = [kept EXCEPT ![c] = FALSE]
  /\ UNCHANGED <<st, lock, writes, work, watch, muddled>>

(* ... the daemon dies and comes back.  The processes live on; what was      *)
(* under way is lost, save the rows of restarts.  The next daemon claims a   *)
(* row and delivers it again; one that a dead daemon claimed less than a     *)
(* minute ago it may pass over, for one of its successors to find.           *)
DaemonDies ==
  /\ Fault
  /\ lock' = [c \in Comps |-> None]
  /\ writes' = [c \in Comps |-> {}]
  /\ \E over \in SUBSET {s \in Slots : op[s].row = "claimed"} :
       op' = [s \in Slots |->
               IF op[s].kind # "restart" THEN Idle
               ELSE [op[s] EXCEPT !.pc = IF s \in over THEN "parked" ELSE "queued",
                                  !.row = "claimed"]]
  /\ at' = [s \in Slots |-> Nowhere]
  /\ to' = [s \in Slots |-> [c \in Comps |-> "blue"]]
  /\ queue' = {} /\ pending' = {} /\ snap' = Unread
  /\ since' = [c \in Comps |-> 0]
  /\ muddled' = [c \in Comps |-> muddled[c] \/ Busy(c)]
  /\ UNCHANGED <<st, proc, kept>>

----------------------------------------------------------------------------
SlotStep(s) ==
  \/ StartClear(s) \/ StartGreen(s) \/ StartMark(s) \/ StartThrows(s)
  \/ RestartChoose(s) \/ RestartMark(s) \/ RestartThrows(s)
  \/ \E c \in Comps :
       \/ Launch(s, c) \/ Acquire(s, c) \/ Launched(s, c) \/ Check(s, c)
       \/ Passed(s, c) \/ Retire(s, c) \/ Failed(s, c) \/ RestartDrop(s, c) \/ StopKill(s, c)
  \/ RestartEnd(s) \/ StartEnd(s) \/ StartEndFails(s) \/ StartEndThrows(s)
  \/ StopMark(s) \/ StopThrows(s) \/ StopEnd(s)
  \/ Reload(s) \/ ReloadThrows(s) \/ Reloaded(s)

LandStep == \E c \in Comps, result \in Results : Land(c, result)
WatchStep == GetRunning \/ GetFake

Next ==
  \/ \E s \in Callers, kind \in Kinds \ {"none", "retry"}, D \in (SUBSET Comps) \ {{}} :
       Call(s, kind, D)
  \/ \E s \in Slots : SlotStep(s)
  \/ LandStep
  \/ WatchStep \/ TakeEntry
  \/ \E c \in Comps, k \in Colours : ProcessDies(c, k)
  \/ DaemonDies

Spec == Init /\ [][Next]_vars

\* handlers run on, statements end, jobs are taken, the check comes round again
LiveSpec ==
  /\ Spec
  /\ \A s \in Slots : WF_vars(SlotStep(s))
  /\ WF_vars(LandStep) /\ WF_vars(WatchStep) /\ WF_vars(TakeEntry)

----------------------------------------------------------------------------
\* The state has its shape, and no recorded time passes the longest patience.
TypeOK ==
  /\ st \in [Comps -> [Colours -> Statuses]]
  /\ proc \in [Comps -> SUBSET Colours]
  /\ lock \in [Comps -> Slots \cup {None}]
  /\ writes \in [Comps -> SUBSET Results]
  /\ op \in [Slots -> [kind : Kinds, comps : SUBSET Comps, pc : Points,
                     row : {"fresh", "claimed"}]]
  /\ at \in [Slots -> [Comps -> Phases]]
  /\ to \in [Slots -> [Comps -> Colours]]
  /\ queue \in SUBSET Comps /\ pending \in SUBSET Comps
  /\ snap \in [Comps -> Verdicts]
  /\ since \in [Comps -> 0 .. 4]
  /\ events \in 0 .. EventCap
  /\ kept \in [Comps -> BOOLEAN] /\ muddled \in [Comps -> BOOLEAN]

(* Zero downtime: a component that served when it was last at rest, and with *)
(* which nothing but restarts, one at a time, was done since, serves now: at *)
(* every moment of a restart the colour the router looks at is running and   *)
(* its process is up, whether the restart succeeds, fails or is cut short by *)
(* a crash of the daemon and delivered again.  The exceptions are a dying    *)
(* process, a failed deletion of the retired one, and a switch whose status  *)
(* the store refuses: that error is swallowed (blue-green-start-blocklet.js: *)
(* 254), and the colour that the router still looks at is deleted.           *)
ZeroDowntime == \A c \in Comps : kept[c] => Serving(c)

(* No stray process: when nothing is under way with a component, no process  *)
(* of a colour is left whose status says stopped or error, where the watchdog*)
(* would not look.  Requests that overlapped, a failed deletion and a crash  *)
(* of the daemon are the exceptions, until the component rests in order.     *)
NoStray ==
  \A c \in Comps : ~Busy(c) /\ ~muddled[c] => Tidy(c)

Mixed(c) == Runs(c) /\ Moving(c)
Settled(c) == ~Moving(c) /\ (Runs(c) => Serving(c))

(* The watchdog repairs: once requests and faults cease, a component that is *)
(* said to run has its process, and none is left starting or stopping.       *)
(* Components with one colour running and the other in progress are the      *)
(* exception: the check skips them for ever (see Repaired).                  *)
Healed == <>[](\A c \in Comps : Settled(c) \/ Mixed(c))

(* What ensure-blocklet-running.js:311 says, that something in progress for  *)
(* longer than its threshold counts as fake running: nothing is left behind. *)
Repaired == <>[](\A c \in Comps : Settled(c))
=============================================================================
