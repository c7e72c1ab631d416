-------------------------------- MODULE Cache --------------------------------
(***************************************************************************)
(* A group of the cache of db-cache over SQLite, as the short cache of     *)
(* blocklet information uses it in every worker of the daemon:             *)
(* autoCacheGroup of single-flight-db-cache.ts with its map _pending, the  *)
(* table kvcache of sqlite-adapter.ts, the LRU layer of each worker        *)
(* (lru-cache.ts) with the messages that keep the layers alike, and the    *)
(* two ways in which the group is invalidated: del on an event of the      *)
(* blocklet (all workers), groupDel on a request with ?nocache=1 (one).    *)
(*                                                                         *)
(* A step is what runs between two awaits.  A copy carries the time it has *)
(* left instead of its expiresAt, so no clock has to be bounded.           *)
(***************************************************************************)
EXTENDS Naturals, Sequences

CONSTANTS
  Worker,      \* processes, each with its own _pending and LRU layer
  Sub,         \* sub-keys of the group
  Task,        \* places for calls of autoCacheGroup (bounds how many run)
  None,
  Life,        \* ttl, in ticks
  MaxVersion,  \* bound: changes of what the cache is computed from
  BusCap,      \* bound: messages on their way to one worker
  Faults,      \* what may fail
  DidCap       \* bound: calls, forced requests, evictions, flushes and faults

ASSUME CacheAssumption ==
  /\ Life \in Nat \ {0} /\ MaxVersion \in Nat /\ BusCap \in Nat /\ DidCap \in Nat
  /\ Faults \subseteq {"compute", "sql", "crash"}
  /\ None \notin Task
  /\ None \notin [val : Nat, left : Nat, age : Nat]
  /\ "group" \notin Sub

VARIABLES
  version,  \* what computations read: the state of the blocklet
  table,    \* rows of kvcache
  lru,      \* the group in the LRU layer of each worker
  grouped,  \* the workers whose groupCaches has the group, be it empty
  bus,      \* messages of the event hub on their way to each worker
  pending,  \* _pending of each worker
  task,     \* calls of autoCacheGroup that found nothing pending
  owed,     \* events of the blocklet that each worker has still to handle
  wipe,     \* DELETE statements of each worker that have not run yet
  swept,    \* history: del met no call and no message, and none began since
  did       \* how many of these there have been

vars == <<version, table, lru, grouped, bus, pending, task, owed, wipe, swept, did>>
-----------------------------------------------------------------------------
\* age is history: how long ago expiresAt was fixed.
Copy == [val : Nat, left : Nat, age : Nat]
\* (fault) groupSet forgets the default ttl.
NewCopy_NoTtl(v) == [val |-> v, left |-> None, age |-> 0]
NewCopy(v) == [val |-> v, left |-> Life, age |-> 0]
\* (fault) groupGet of the LRU layer does not look at expiresAt.
Expired_Never(c) == FALSE
Expired(c) == c.left = 0

\* Time passes for every copy; an expired one grows no older.
Older(c) == IF c = None THEN None
            ELSE IF c.left = 0 THEN c
            ELSE [val |-> c.val, left |-> c.left - 1, age |-> c.age + 1]

Stages == {"idle", "select", "row", "expire", "compute", "upsert", "fill"}
TaskState == [st : Stages, worker : Worker \cup {None}, sub : Sub \cup {None},
              copy : Copy \cup {None}, read : Nat]
Idle == [st |-> "idle", worker |-> None, sub |-> None, copy |-> None, read |-> 0]
Running(t) == task[t].st # "idle"

SyncMsg(s, c) == [kind |-> "sync", sub |-> s, copy |-> c]
DelMsg == [kind |-> "del", sub |-> None, copy |-> None]
DelSubMsg(s) == [kind |-> "delsub", sub |-> s, copy |-> None]
Message == [kind : {"sync", "del", "delsub"}, sub : Sub \cup {None},
            copy : Copy \cup {None}]

NoCopies == [s \in Sub |-> None]

TypeOK ==
  /\ version \in Nat
  /\ table \in [Sub -> Copy \cup {None}]
  /\ lru \in [Worker -> [Sub -> Copy \cup {None}]]
  /\ grouped \in SUBSET Worker
  /\ bus \in [Worker -> Seq(Message)]
  /\ pending \in [Worker -> [Sub -> Task \cup {None}]]
  /\ task \in [Task -> TaskState]
  /\ owed \in [Worker -> Nat]
  /\ wipe \in [Worker -> SUBSET (Sub \cup {"group"})]
  /\ swept \in BOOLEAN
  /\ did \in Nat

Init ==
  /\ version = 0
  /\ table = NoCopies
  /\ lru = [w \in Worker |-> NoCopies]
  /\ grouped = {}
  /\ bus = [w \in Worker |-> <<>>]
  /\ pending = [w \in Worker |-> [s \in Sub |-> None]]
  /\ task = [t \in Task |-> Idle]
  /\ owed = [w \in Worker |-> 0]
  /\ wipe = [w \in Worker |-> {}]
  /\ swept = FALSE
  /\ did = 0
-----------------------------------------------------------------------------
\* The hub hands a broadcast to all workers but the sender, in order.
Broadcast(w, m) ==
  /\ \A u \in Worker \ {w} : Len(bus[u]) < BusCap
  /\ bus' = [u \in Worker |-> IF u = w THEN bus[u] ELSE Append(bus[u], m)]

\* LruCache.groupSet.
LruGroupSet(w, s, c) ==
  /\ lru' = [lru EXCEPT ![w] = [@ EXCEPT ![s] = c]]
  /\ grouped' = grouped \cup {w}
  /\ Broadcast(w, SyncMsg(s, c))

\* LruCache.groupDel: without the group nothing is broadcast.
LruGroupDel(w, s) ==
  /\ lru' = [lru EXCEPT ![w] = [@ EXCEPT ![s] = None]]
  /\ UNCHANGED grouped
  /\ IF w \in grouped THEN Broadcast(w, DelSubMsg(s)) ELSE UNCHANGED bus

\* LruCache.del drops the whole group, and always says so.
LruDel(w) ==
  /\ lru' = [lru EXCEPT ![w] = NoCopies]
  /\ grouped' = grouped \ {w}
  /\ Broadcast(w, DelMsg)

\* The listeners of _setupSyncListener.
\* (fault) the listener for deletions forgets the groups.
Heard_KeepsGroup(copies, m) ==
  IF m.kind = "del" THEN copies ELSE [copies EXCEPT ![m.sub] = m.copy]
Heard(copies, m) ==
  IF m.kind = "del" THEN NoCopies ELSE [copies EXCEPT ![m.sub] = m.copy]
GroupsAfter(w, m) ==
  IF m.kind = "sync" THEN grouped \cup {w}
  ELSE IF m.kind = "del" THEN grouped \ {w} ELSE grouped

Listen(w) ==
  /\ bus[w] # <<>>
  /\ lru' = [lru EXCEPT ![w] = Heard(@, Head(bus[w]))]
  /\ grouped' = GroupsAfter(w, Head(bus[w]))
  /\ bus' = [bus EXCEPT ![w] = Tail(@)]
  /\ UNCHANGED <<version, table, pending, task, owed, wipe, swept, did>>
-----------------------------------------------------------------------------
\* autoCacheGroup.  A caller that finds the key pending changes nothing and is
\* given the answer of that task; so does one that finds it in the LRU layer,
\* which groupGet asks first and which drops what has expired.
InLru(w, s) == lru[w][s] # None /\ ~Expired(lru[w][s])

\* Calls, forced requests, evictions, flushes and faults are bounded together.
Counted == did < DidCap /\ did' = did + 1

Start(t, w, s) ==
  /\ ~Running(t)
  /\ pending[w][s] = None
  /\ ~InLru(w, s)
  /\ pending' = [pending EXCEPT ![w] = [@ EXCEPT ![s] = t]]
  /\ task' = [task EXCEPT ![t] = [Idle EXCEPT !.st = "select", !.worker = w, !.sub = s]]
  /\ lru' = [lru EXCEPT ![w] = [@ EXCEPT ![s] = None]]
  /\ swept' = FALSE /\ Counted
  /\ UNCHANGED <<version, table, grouped, bus, owed, wipe>>

\* The finally of the task: the answer, or the error, goes to all who asked.
\* (fault) a task that has ended leaves its key pending.
Forget_Lost(w, s) == UNCHANGED pending
Forget(w, s) == pending' = [pending EXCEPT ![w] = [@ EXCEPT ![s] = None]]
Finish(t) ==
  /\ Forget(task[t].worker, task[t].sub)
  /\ task' = [task EXCEPT ![t] = Idle]

Goto(t, st) == task' = [task EXCEPT ![t].st = st]
GotoWith(t, st, c) == task' = [task EXCEPT ![t].st = st, ![t].copy = c]

\* The SELECT; what was read is looked at when the answer arrives.
Select(t) ==
  /\ task[t].st = "select"
  /\ GotoWith(t, IF table[task[t].sub] = None THEN "compute" ELSE "row", table[task[t].sub])
  /\ UNCHANGED <<version, table, lru, grouped, bus, pending, owed, wipe, swept, did>>

ExpiredRow(t) ==
  /\ task[t].st = "row" /\ Expired(task[t].copy)
  /\ LruGroupDel(task[t].worker, task[t].sub)
  /\ GotoWith(t, "expire", None)
  /\ UNCHANGED <<version, table, pending, owed, wipe, swept, did>>

\* (fault) the LRU layer counts the ttl from the moment it is written
ToLru_Renewed(t) == [task[t].copy EXCEPT !.left = Life]
ToLru(t) == task[t].copy

RefillLru(t) ==
  /\ task[t].st = "row" /\ ~Expired(task[t].copy)
  /\ LruGroupSet(task[t].worker, task[t].sub, ToLru(t))
  /\ Finish(t)
  /\ UNCHANGED <<version, table, owed, wipe, swept, did>>

DeleteExpired(t) ==
  /\ task[t].st = "expire"
  /\ table' = [table EXCEPT ![task[t].sub] = None]
  /\ Goto(t, "compute")
  /\ UNCHANGED <<version, lru, grouped, bus, pending, owed, wipe, swept, did>>

\* fn reads the state of the blocklet; its result comes back later.
Compute(t) ==
  /\ task[t].st = "compute"
  /\ task' = [task EXCEPT ![t].st = "upsert", ![t].read = version]
  /\ UNCHANGED <<version, table, lru, grouped, bus, pending, owed, wipe, swept, did>>

\* groupSet: expiresAt is fixed and the row written, then the LRU layer.
Upsert(t) ==
  /\ task[t].st = "upsert"
  /\ task' = [task EXCEPT ![t] = [@ EXCEPT !.st = "fill", !.read = 0,
                                            !.copy = NewCopy(task[t].read)]]
  /\ table' = [table EXCEPT ![task[t].sub] = NewCopy(task[t].read)]
  /\ UNCHANGED <<version, lru, grouped, bus, pending, owed, wipe, swept, did>>

FillLru(t) ==
  /\ task[t].st = "fill"
  /\ LruGroupSet(task[t].worker, task[t].sub, ToLru(t))
  /\ Finish(t)
  /\ UNCHANGED <<version, table, owed, wipe, swept, did>>

\* A statement fails for good, or fn throws: the callers get the error.
Fail(t) ==
  /\ Counted
  /\ \/ task[t].st \in {"select", "expire", "upsert"} /\ "sql" \in Faults
     \/ task[t].st = "compute" /\ "compute" \in Faults
  /\ Finish(t)
  /\ UNCHANGED <<version, table, lru, grouped, bus, owed, wipe, swept>>
-----------------------------------------------------------------------------
\* The blocklet changes, and every process will hear of it.
Change ==
  /\ version < MaxVersion
  /\ version' = version + 1
  /\ owed' = [w \in Worker |-> owed[w] + 1]
  /\ UNCHANGED <<table, lru, grouped, bus, pending, task, wipe, swept, did>>

Silent == \A w \in Worker : bus[w] = <<>>
NoTask == \A t \in Task : ~Running(t)

\* del(key): the LRU layer at once, then the DELETE of the whole group.
Invalidate(w) ==
  /\ owed[w] > 0 /\ "group" \notin wipe[w]
  /\ owed' = [owed EXCEPT ![w] = @ - 1]
  /\ LruDel(w)
  /\ wipe' = [wipe EXCEPT ![w] = @ \cup {"group"}]
  /\ swept' = (swept \/ (NoTask /\ Silent))
  /\ UNCHANGED <<version, table, pending, task, did>>

\* groupDel(key, subKey) of a request with ?force=1 or ?nocache=1.
ForceDel(w, s) ==
  /\ Counted
  /\ s \notin wipe[w]
  /\ LruGroupDel(w, s)
  /\ wipe' = [wipe EXCEPT ![w] = @ \cup {s}]
  /\ UNCHANGED <<version, table, pending, task, owed, swept>>

Deleted(d) == [s \in Sub |-> IF d \in {s, "group"} THEN None ELSE table[s]]

DeleteRows(w, d) ==
  /\ d \in wipe[w]
  /\ table' = Deleted(d)
  /\ wipe' = [wipe EXCEPT ![w] = @ \ {d}]
  /\ UNCHANGED <<version, lru, grouped, bus, pending, task, owed, swept, did>>

\* clearBlockletInfoCache logs the error and goes on.
DeleteFails(w, d) ==
  /\ Counted
  /\ "sql" \in Faults
  /\ d \in wipe[w]
  /\ wipe' = [wipe EXCEPT ![w] = @ \ {d}]
  /\ swept' = FALSE
  /\ UNCHANGED <<version, table, lru, grouped, bus, pending, task, owed>>

\* The LRU layer holds a bounded number of entries and may drop any of them.
Evict(w, s) ==
  /\ Counted
  /\ lru[w][s] # None
  /\ lru' = [lru EXCEPT ![w] = [@ EXCEPT ![s] = None]]
  /\ UNCHANGED <<version, table, grouped, bus, pending, task, owed, wipe, swept>>

\* The cleanup timer of the adapter.
Cleanup ==
  /\ \E s \in Sub : table[s] # None /\ Expired(table[s])
  /\ table' = [s \in Sub |-> IF table[s] # None /\ Expired(table[s]) THEN None ELSE table[s]]
  /\ UNCHANGED <<version, lru, grouped, bus, pending, task, owed, wipe, swept, did>>

\* clearDBCache: flushAll of an instance of its own, which has no LRU layer.
FlushAll ==
  /\ Counted
  /\ table # NoCopies
  /\ table' = NoCopies
  /\ UNCHANGED <<version, lru, grouped, bus, pending, task, owed, wipe, swept>>

OfWorker(t, w) == Running(t) /\ task[t].worker = w

Crash(w) ==
  /\ Counted
  /\ "crash" \in Faults
  /\ lru' = [lru EXCEPT ![w] = NoCopies]
  /\ grouped' = grouped \ {w}
  /\ bus' = [bus EXCEPT ![w] = <<>>]
  /\ pending' = [pending EXCEPT ![w] = [s \in Sub |-> None]]
  /\ task' = [t \in Task |-> IF OfWorker(t, w) THEN Idle ELSE task[t]]
  /\ owed' = [owed EXCEPT ![w] = 0]
  /\ wipe' = [wipe EXCEPT ![w] = {}]
  /\ swept' = (swept /\ "group" \notin wipe[w])
  /\ UNCHANGED <<version, table>>

AgedMsg(m) == [m EXCEPT !.copy = Older(@)]

Tick ==
  /\ table' = [s \in Sub |-> Older(table[s])]
  /\ lru' = [w \in Worker |-> [s \in Sub |-> Older(lru[w][s])]]
  /\ bus' = [w \in Worker |-> [i \in DOMAIN bus[w] |-> AgedMsg(bus[w][i])]]
  /\ task' = [t \in Task |-> [task[t] EXCEPT !.copy = Older(@)]]
  /\ UNCHANGED <<version, grouped, pending, owed, wipe, swept, did>>
-----------------------------------------------------------------------------
TaskStep(t) ==
  \/ Select(t) \/ ExpiredRow(t) \/ RefillLru(t) \/ DeleteExpired(t)
  \/ Compute(t) \/ Upsert(t) \/ FillLru(t)

Next ==
  \/ \E t \in Task : TaskStep(t) \/ Fail(t)
  \/ \E t \in Task, w \in Worker, s \in Sub : Start(t, w, s)
  \/ \E w \in Worker : Listen(w) \/ Invalidate(w) \/ Crash(w)
  \/ \E w \in Worker, s \in Sub : ForceDel(w, s) \/ Evict(w, s)
  \/ \E w \in Worker : \E d \in wipe[w] : DeleteRows(w, d) \/ DeleteFails(w, d)
  \/ Change \/ Cleanup \/ FlushAll \/ Tick

Spec == Init /\ [][Next]_vars

FairSpec ==
  /\ Spec
  /\ \A t \in Task : WF_vars(TaskStep(t))
  /\ \A w \in Worker : WF_vars(Listen(w))
  /\ WF_vars(Tick)
-----------------------------------------------------------------------------
\* A key is pending in a worker exactly while one task of that worker computes
\* it, however the task ends: no two computations of a key at a time in one
\* worker, and no key stays pending after an error (autoCacheGroup, the
\* finally of single-flight-db-cache.ts:89).
OneFlight ==
  \A t \in Task :
    /\ Running(t) => pending[task[t].worker][task[t].sub] = t
    /\ \A w \in Worker, s \in Sub :
         pending[w][s] = t => Running(t) /\ task[t].worker = w /\ task[t].sub = s

Sent == {m \in UNION {{bus[w][i] : i \in DOMAIN bus[w]} : w \in Worker} : m.copy # None}
Copies ==
  {table[s] : s \in Sub} \cup (UNION {{lru[w][s] : s \in Sub} : w \in Worker})
    \cup {task[t].copy : t \in Task} \cup {m.copy : m \in Sent}

\* Wherever a value travels, from row to LRU layer to another worker, it
\* keeps the expiry of the computation that stored it: none outlives its ttl
\* by being copied (groupGet refills the LRU layer with row.expiresAt).
LifeKept == \A c \in Copies \ {None} : c.left + c.age <= Life

\* When the event of a blocklet meets no call in flight, nothing of the group
\* is left once the messages are heard and the DELETE has run: neither a row
\* nor an entry of the LRU layer of any worker, evicted, forced and crashed
\* ones included.
Swept ==
  swept /\ Silent /\ (\A w \in Worker : "group" \notin wipe[w])
    => /\ table = NoCopies
       /\ \A w \in Worker : lru[w] = NoCopies

\* Stale values die out: once the blocklet has stopped changing there comes a
\* time after which no LRU layer answers with an earlier state, although a
\* computation that overlaps an invalidation does store what it read before.
FreshInTheEnd ==
  <>[](\A w \in Worker, s \in Sub : InLru(w, s) => lru[w][s].val = version)
=============================================================================
