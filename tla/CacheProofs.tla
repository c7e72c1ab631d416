----------------------------- MODULE CacheProofs -----------------------------
(***************************************************************************)
(* Theorems about Cache: what is true of any number of workers, sub-keys   *)
(* and calls, with any faults.                                             *)
(***************************************************************************)
EXTENDS Cache, SequenceTheorems, TLAPS

Env == Change \/ Cleanup \/ FlushAll \/ Tick
WorkerStep(w) ==
  \/ Listen(w) \/ Invalidate(w) \/ Crash(w)
  \/ \E s \in Sub : ForceDel(w, s) \/ Evict(w, s)
  \/ \E d \in wipe[w] : DeleteRows(w, d) \/ DeleteFails(w, d)
CallStep(t) == TaskStep(t) \/ Fail(t) \/ \E w \in Worker, s \in Sub : Start(t, w, s)

LEMMA NextSplit ==
  Next <=> \/ \E t \in Task : CallStep(t)
           \/ \E w \in Worker : WorkerStep(w)
           \/ Env
BY DEF Next, CallStep, WorkerStep, Env
-----------------------------------------------------------------------------
\* Copies and messages keep their shape.
LEMMA OlderType == ASSUME NEW c \in Copy \cup {None} PROVE Older(c) \in Copy \cup {None}
BY CacheAssumption DEF Older, Copy

LEMMA NewCopyType == ASSUME NEW v \in Nat PROVE NewCopy(v) \in Copy
BY CacheAssumption DEF NewCopy, Copy

LEMMA MessageType ==
  ASSUME NEW s \in Sub, NEW c \in Copy \cup {None}
  PROVE  SyncMsg(s, c) \in Message /\ DelMsg \in Message /\ DelSubMsg(s) \in Message
BY DEF SyncMsg, DelMsg, DelSubMsg, Message

LEMMA BroadcastType ==
  ASSUME NEW w \in Worker, NEW m \in Message, bus \in [Worker -> Seq(Message)],
         Broadcast(w, m)
  PROVE  bus' \in [Worker -> Seq(Message)]
BY DEF Broadcast

LEMMA LruSetType ==
  ASSUME TypeOK, NEW w \in Worker, NEW s \in Sub, NEW c \in Copy \cup {None}
  PROVE  [lru EXCEPT ![w] = [@ EXCEPT ![s] = c]] \in [Worker -> [Sub -> Copy \cup {None}]]
<1>1. [lru[w] EXCEPT ![s] = c] \in [Sub -> Copy \cup {None}]
  BY DEF TypeOK
<1> QED  BY <1>1 DEF TypeOK

LEMMA LruGroupSetType ==
  ASSUME TypeOK, NEW w \in Worker, NEW s \in Sub, NEW c \in Copy, LruGroupSet(w, s, c)
  PROVE  /\ lru' \in [Worker -> [Sub -> Copy \cup {None}]]
         /\ grouped' \in SUBSET Worker
         /\ bus' \in [Worker -> Seq(Message)]
<1>1. bus' \in [Worker -> Seq(Message)]
  BY MessageType, BroadcastType DEF LruGroupSet, TypeOK
<1> QED  BY <1>1, LruSetType DEF LruGroupSet, TypeOK

LEMMA LruGroupDelType ==
  ASSUME TypeOK, NEW w \in Worker, NEW s \in Sub, LruGroupDel(w, s)
  PROVE  /\ lru' \in [Worker -> [Sub -> Copy \cup {None}]]
         /\ grouped' \in SUBSET Worker
         /\ bus' \in [Worker -> Seq(Message)]
<1>1. bus' \in [Worker -> Seq(Message)]
  BY MessageType, BroadcastType DEF LruGroupDel, TypeOK
<1> QED  BY <1>1, LruSetType DEF LruGroupDel, TypeOK

LEMMA NoCopiesType == NoCopies \in [Sub -> Copy \cup {None}]
BY DEF NoCopies

LEMMA IdleType == Idle \in TaskState
BY DEF Idle, TaskState, Stages

LEMMA ToLruType ==
  ASSUME TypeOK, NEW t \in Task, task[t].copy # None
  PROVE  ToLru(t) \in Copy
BY DEF TypeOK, TaskState, ToLru

\* A running task knows its worker and its key, and holds the copy that its
\* next step works with.
Placed ==
  \A t \in Task :
    /\ Running(t) => task[t].worker \in Worker /\ task[t].sub \in Sub
    /\ task[t].st \in {"row", "fill"} => task[t].copy # None

LEMMA RunningStages ==
  ASSUME TypeOK, NEW t \in Task
  PROVE  task[t].st \in Stages /\ (Running(t) <=> task[t].st \in Stages \ {"idle"})
BY DEF TypeOK, TaskState, Running

\* What a step of a call does to the type and to the place of the task: all
\* the other tasks stay as they are.
LEMMA TaskOnly ==
  ASSUME TypeOK, Placed, NEW t \in Task, NEW r \in TaskState,
         task' = [task EXCEPT ![t] = r],
         r.st # "idle" => r.worker \in Worker /\ r.sub \in Sub,
         r.st \in {"row", "fill"} => r.copy # None
  PROVE  task' \in [Task -> TaskState] /\ Placed'
<1>1. task' \in [Task -> TaskState]
  BY DEF TypeOK
<1>2. \A u \in Task : task'[u] = IF u = t THEN r ELSE task[u]
  BY DEF TypeOK
<1>3. Placed'
  BY <1>2 DEF Placed, Running
<1> QED  BY <1>1, <1>3

LEMMA GotoType ==
  ASSUME TypeOK, Placed, NEW t \in Task, Running(t), NEW st \in Stages, Goto(t, st),
         st \in {"row", "fill"} => task[t].copy # None
  PROVE  task' \in [Task -> TaskState] /\ Placed'
<1> DEFINE r == [task[t] EXCEPT !.st = st]
<1>1. r \in TaskState /\ r.worker = task[t].worker /\ r.sub = task[t].sub
      /\ r.copy = task[t].copy /\ r.st = st
  BY DEF TypeOK, TaskState
<1>2. task' = [task EXCEPT ![t] = r]
  BY DEF Goto
<1> HIDE DEF r
<1> QED  BY <1>1, <1>2, TaskOnly DEF Placed

LEMMA GotoWithType ==
  ASSUME TypeOK, Placed, NEW t \in Task, Running(t), NEW st \in Stages,
         NEW c \in Copy \cup {None}, GotoWith(t, st, c), st \in {"row", "fill"} => c # None
  PROVE  task' \in [Task -> TaskState] /\ Placed'
<1> DEFINE r == [task[t] EXCEPT !.st = st, !.copy = c]
<1>1. r \in TaskState /\ r.worker = task[t].worker /\ r.sub = task[t].sub
      /\ r.copy = c /\ r.st = st
  BY DEF TypeOK, TaskState
<1>2. task' = [task EXCEPT ![t] = r]
  BY DEF GotoWith
<1> HIDE DEF r
<1> QED  BY <1>1, <1>2, TaskOnly DEF Placed

LEMMA PendingType ==
  ASSUME TypeOK, NEW w \in Worker, NEW s \in Sub, NEW x \in Task \cup {None}
  PROVE  [pending EXCEPT ![w] = [@ EXCEPT ![s] = x]]
           \in [Worker -> [Sub -> Task \cup {None}]]
<1>1. [pending[w] EXCEPT ![s] = x] \in [Sub -> Task \cup {None}]
  BY DEF TypeOK
<1> QED  BY <1>1 DEF TypeOK

LEMMA FinishType ==
  ASSUME TypeOK, Placed, NEW t \in Task, Running(t), Finish(t)
  PROVE  /\ task' \in [Task -> TaskState] /\ Placed'
         /\ pending' \in [Worker -> [Sub -> Task \cup {None}]]
<1>1. task' \in [Task -> TaskState] /\ Placed'
  <2>1. Idle.st = "idle" /\ task' = [task EXCEPT ![t] = Idle]
    BY DEF Idle, Finish
  <2> QED  BY <2>1, IdleType, TaskOnly
<1>2. pending' \in [Worker -> [Sub -> Task \cup {None}]]
  BY PendingType DEF Finish, Forget, Placed
<1> QED  BY <1>1, <1>2

LEMMA CallType ==
  ASSUME TypeOK, Placed, NEW t \in Task, CallStep(t)
  PROVE  TypeOK' /\ Placed'
<1>1. CASE \E w \in Worker, s \in Sub : Start(t, w, s)
  <2>1. PICK w \in Worker, s \in Sub : Start(t, w, s)
    BY <1>1
  <2> DEFINE r == [Idle EXCEPT !.st = "select", !.worker = w, !.sub = s]
  <2>2. r \in TaskState /\ r.st = "select" /\ r.worker = w /\ r.sub = s
    BY DEF Idle, TaskState, Stages
  <2>3. task' = [task EXCEPT ![t] = r]
    BY <2>1 DEF Start
  <2> HIDE DEF r
  <2>4. task' \in [Task -> TaskState] /\ Placed'
    BY <2>2, <2>3, TaskOnly
  <2>5. did' \in Nat /\ swept' \in BOOLEAN
    <3>1. did' \in Nat
      BY <2>1 DEF Start, Counted, TypeOK
    <3>2. swept' \in BOOLEAN
      BY <2>1, Zenon DEF Start
    <3> QED  BY <3>1, <3>2
  <2>6. pending' \in [Worker -> [Sub -> Task \cup {None}]]
    BY <2>1, PendingType DEF Start
  <2>7. lru' \in [Worker -> [Sub -> Copy \cup {None}]]
    BY <2>1, LruSetType DEF Start
  <2> QED  BY <2>1, <2>4, <2>5, <2>6, <2>7 DEF Start, TypeOK
<1>2. CASE Select(t)
  <2>1. Running(t) /\ task[t].sub \in Sub
    BY <1>2 DEF Select, Running, Placed
  <2> DEFINE c == table[task[t].sub]
  <2>2. c \in Copy \cup {None}
    BY <2>1 DEF TypeOK
  <2>3. task' \in [Task -> TaskState] /\ Placed'
    <3>1. CASE c = None
      BY <1>2, <2>1, <2>2, <3>1, GotoWithType DEF Select, Stages
    <3>2. CASE c # None
      BY <1>2, <2>1, <2>2, <3>2, GotoWithType DEF Select, Stages
    <3> QED  BY <3>1, <3>2
  <2> QED  BY <1>2, <2>3 DEF Select, TypeOK
<1>3. CASE ExpiredRow(t)
  <2>1. Running(t) /\ task[t].worker \in Worker /\ task[t].sub \in Sub
    BY <1>3 DEF ExpiredRow, Running, Placed
  <2>2. task' \in [Task -> TaskState] /\ Placed'
    BY <1>3, <2>1, GotoWithType DEF ExpiredRow, Stages
  <2> QED  BY <1>3, <2>1, <2>2, LruGroupDelType DEF ExpiredRow, TypeOK
<1>4. CASE RefillLru(t)
  <2>1. Running(t) /\ task[t].worker \in Worker /\ task[t].sub \in Sub /\ task[t].copy # None
    BY <1>4 DEF RefillLru, Running, Placed
  <2>2. ToLru(t) \in Copy
    BY <2>1, ToLruType
  <2> QED  BY <1>4, <2>1, <2>2, FinishType, LruGroupSetType DEF RefillLru, TypeOK
<1>5. CASE DeleteExpired(t)
  <2>1. Running(t) /\ task[t].sub \in Sub
    BY <1>5 DEF DeleteExpired, Running, Placed
  <2>2. task' \in [Task -> TaskState] /\ Placed'
    BY <1>5, <2>1, GotoType DEF DeleteExpired, Stages
  <2> QED  BY <1>5, <2>1, <2>2 DEF DeleteExpired, TypeOK
<1>6. CASE Compute(t)
  <2> DEFINE r == [task[t] EXCEPT !.st = "upsert", !.read = version]
  <2>1. Running(t)
    BY <1>6 DEF Compute, Running
  <2>2. r \in TaskState /\ r.st = "upsert" /\ r.worker = task[t].worker /\ r.sub = task[t].sub
    BY DEF TypeOK, TaskState, Stages
  <2>3. task' = [task EXCEPT ![t] = r]
    BY <1>6 DEF Compute
  <2> HIDE DEF r
  <2>4. task' \in [Task -> TaskState] /\ Placed'
    BY <2>1, <2>2, <2>3, TaskOnly DEF Placed
  <2> QED  BY <1>6, <2>4 DEF Compute, TypeOK
<1>7. CASE Upsert(t)
  <2> DEFINE c == NewCopy(task[t].read)
             r == [task[t] EXCEPT !.st = "fill", !.read = 0, !.copy = c]
  <2>1. Running(t) /\ task[t].sub \in Sub
    BY <1>7 DEF Upsert, Running, Placed
  <2>2. c \in Copy /\ c # None
    <3>1. task[t].read \in Nat
      BY DEF TypeOK, TaskState
    <3>2. None \notin Copy
      BY CacheAssumption DEF Copy
    <3> QED  BY <3>1, <3>2, NewCopyType
  <2>3. task' = [task EXCEPT ![t] = r] /\ table' = [table EXCEPT ![task[t].sub] = c]
    BY <1>7 DEF Upsert
  <2> HIDE DEF c
  <2>4. r \in TaskState /\ r.st = "fill" /\ r.worker = task[t].worker
        /\ r.sub = task[t].sub /\ r.copy = c
    BY <2>2 DEF TypeOK, TaskState, Stages
  <2> HIDE DEF r
  <2>5. task' \in [Task -> TaskState] /\ Placed'
    BY <2>1, <2>2, <2>3, <2>4, TaskOnly DEF Placed
  <2> QED  BY <1>7, <2>1, <2>2, <2>3, <2>5 DEF Upsert, TypeOK
<1>8. CASE FillLru(t)
  <2>1. Running(t) /\ task[t].worker \in Worker /\ task[t].sub \in Sub /\ task[t].copy # None
    BY <1>8 DEF FillLru, Running, Placed
  <2>2. ToLru(t) \in Copy
    BY <2>1, ToLruType
  <2> QED  BY <1>8, <2>1, <2>2, FinishType, LruGroupSetType DEF FillLru, TypeOK
<1>9. CASE Fail(t)
  <2>1. Running(t)
    BY <1>9 DEF Fail, Running
  <2> QED  BY <1>9, <2>1, FinishType DEF Fail, Counted, TypeOK
<1> QED
  BY <1>1, <1>2, <1>3, <1>4, <1>5, <1>6, <1>7, <1>8, <1>9 DEF CallStep, TaskStep

LEMMA LruDelType ==
  ASSUME TypeOK, NEW w \in Worker, LruDel(w)
  PROVE  /\ lru' \in [Worker -> [Sub -> Copy \cup {None}]]
         /\ grouped' \in SUBSET Worker
         /\ bus' \in [Worker -> Seq(Message)]
<1>1. bus' \in [Worker -> Seq(Message)]
  <2>1. DelMsg \in Message
    BY DEF DelMsg, Message
  <2> QED  BY <2>1, BroadcastType DEF LruDel, TypeOK
<1> QED  BY <1>1, NoCopiesType DEF LruDel, TypeOK

LEMMA HeardType ==
  ASSUME NEW copies \in [Sub -> Copy \cup {None}], NEW m \in Message
  PROVE  Heard(copies, m) \in [Sub -> Copy \cup {None}]
BY NoCopiesType DEF Heard, Message

LEMMA WorkerType ==
  ASSUME TypeOK, Placed, NEW w \in Worker, WorkerStep(w)
  PROVE  TypeOK' /\ Placed'
<1>1. CASE Listen(w)
  <2>1. bus[w] \in Seq(Message) /\ bus[w] # <<>>
    BY <1>1 DEF Listen, TypeOK
  <2>2. Head(bus[w]) \in Message /\ Tail(bus[w]) \in Seq(Message)
    BY <2>1, HeadTailProperties
  <2>3. Heard(lru[w], Head(bus[w])) \in [Sub -> Copy \cup {None}]
    BY <2>2, HeardType DEF TypeOK
  <2>4. lru' \in [Worker -> [Sub -> Copy \cup {None}]]
    BY <1>1, <2>3 DEF Listen, TypeOK
  <2>5. bus' \in [Worker -> Seq(Message)]
    BY <1>1, <2>2 DEF Listen, TypeOK
  <2>6. grouped' \in SUBSET Worker
    BY <1>1 DEF Listen, GroupsAfter, TypeOK
  <2>7. TypeOK'
    BY <1>1, <2>4, <2>5, <2>6 DEF Listen, TypeOK
  <2>8. Placed'
    BY <1>1 DEF Listen, Placed, Running
  <2> QED  BY <2>7, <2>8
<1>2. CASE Invalidate(w)
  <2>1. owed' \in [Worker -> Nat]
    BY <1>2 DEF Invalidate, TypeOK
  <2>2. wipe' \in [Worker -> SUBSET (Sub \cup {"group"})]
    BY <1>2 DEF Invalidate, TypeOK
  <2>3. swept' \in BOOLEAN
    BY <1>2, Zenon DEF Invalidate
  <2>4. LruDel(w)
    BY <1>2 DEF Invalidate
  <2>5. TypeOK'
    BY <1>2, <2>1, <2>2, <2>3, <2>4, LruDelType DEF Invalidate, TypeOK
  <2>6. Placed'
    BY <1>2 DEF Invalidate, Placed, Running
  <2> QED  BY <2>5, <2>6
<1>3. CASE Crash(w)
  <2>1. lru' \in [Worker -> [Sub -> Copy \cup {None}]]
    BY <1>3, NoCopiesType DEF Crash, TypeOK
  <2>2. bus' \in [Worker -> Seq(Message)]
    BY <1>3 DEF Crash, TypeOK
  <2>3. pending' \in [Worker -> [Sub -> Task \cup {None}]]
    BY <1>3 DEF Crash, TypeOK
  <2>4. task' \in [Task -> TaskState] /\ Placed'
    <3>1. \A t \in Task : task'[t] = IF OfWorker(t, w) THEN Idle ELSE task[t]
      BY <1>3 DEF Crash
    <3>2. task' \in [Task -> TaskState]
      BY <1>3, IdleType DEF Crash, TypeOK
    <3>3. Placed'
      BY <3>1 DEF Placed, Running, Idle
    <3> QED  BY <3>2, <3>3
  <2>5. owed' \in [Worker -> Nat] /\ grouped' \in SUBSET Worker
    BY <1>3 DEF Crash, TypeOK
  <2>6. wipe' \in [Worker -> SUBSET (Sub \cup {"group"})]
    BY <1>3 DEF Crash, TypeOK
  <2>7. swept' \in BOOLEAN
    BY <1>3, Zenon DEF Crash
  <2>8. did' \in Nat
    BY <1>3 DEF Crash, Counted, TypeOK
  <2> QED
    BY <1>3, <2>1, <2>2, <2>3, <2>4, <2>5, <2>6, <2>7, <2>8 DEF Crash, TypeOK
<1>4. CASE \E s \in Sub : ForceDel(w, s)
  <2>1. PICK s \in Sub : ForceDel(w, s)
    BY <1>4
  <2>2. wipe' \in [Worker -> SUBSET (Sub \cup {"group"})]
    BY <2>1 DEF ForceDel, TypeOK
  <2>3. did' \in Nat
    BY <2>1 DEF ForceDel, Counted, TypeOK
  <2>4. LruGroupDel(w, s)
    BY <2>1 DEF ForceDel
  <2>5. TypeOK'
    BY <2>1, <2>2, <2>3, <2>4, LruGroupDelType DEF ForceDel, TypeOK
  <2>6. Placed'
    BY <2>1 DEF ForceDel, Placed, Running
  <2> QED  BY <2>5, <2>6
<1>5. CASE \E s \in Sub : Evict(w, s)
  <2>1. PICK s \in Sub : Evict(w, s)
    BY <1>5
  <2>2. lru' \in [Worker -> [Sub -> Copy \cup {None}]]
    BY <2>1, LruSetType DEF Evict
  <2>3. did' \in Nat
    BY <2>1 DEF Evict, Counted, TypeOK
  <2>4. TypeOK'
    BY <2>1, <2>2, <2>3 DEF Evict, TypeOK
  <2>5. Placed'
    BY <2>1 DEF Evict, Placed, Running
  <2> QED  BY <2>4, <2>5
<1>6. CASE \E d \in wipe[w] : DeleteRows(w, d)
  <2>1. PICK d \in wipe[w] : DeleteRows(w, d)
    BY <1>6
  <2>2. table' \in [Sub -> Copy \cup {None}]
    BY <2>1 DEF DeleteRows, Deleted, TypeOK
  <2>3. wipe' \in [Worker -> SUBSET (Sub \cup {"group"})]
    BY <2>1 DEF DeleteRows, TypeOK
  <2>4. TypeOK'
    BY <2>1, <2>2, <2>3 DEF DeleteRows, TypeOK
  <2>5. Placed'
    BY <2>1 DEF DeleteRows, Placed, Running
  <2> QED  BY <2>4, <2>5
<1>7. CASE \E d \in wipe[w] : DeleteFails(w, d)
  <2>1. PICK d \in wipe[w] : DeleteFails(w, d)
    BY <1>7
  <2>2. wipe' \in [Worker -> SUBSET (Sub \cup {"group"})]
    BY <2>1 DEF DeleteFails, TypeOK
  <2>3. did' \in Nat
    BY <2>1 DEF DeleteFails, Counted, TypeOK
  <2>4. swept' \in BOOLEAN
    BY <2>1, Zenon DEF DeleteFails
  <2>5. TypeOK'
    BY <2>1, <2>2, <2>3, <2>4 DEF DeleteFails, TypeOK
  <2>6. Placed'
    BY <2>1 DEF DeleteFails, Placed, Running
  <2> QED  BY <2>5, <2>6
<1> QED
  BY <1>1, <1>2, <1>3, <1>4, <1>5, <1>6, <1>7 DEF WorkerStep

LEMMA EnvType ==
  ASSUME TypeOK, Placed, Env
  PROVE  TypeOK' /\ Placed'
<1>1. CASE Change
  <2>1. version' \in Nat /\ owed' \in [Worker -> Nat]
    BY <1>1 DEF Change, TypeOK
  <2> QED  BY <1>1, <2>1 DEF Change, TypeOK, Placed, Running
<1>2. CASE Cleanup
  <2>1. table' \in [Sub -> Copy \cup {None}]
    BY <1>2 DEF Cleanup, TypeOK
  <2> QED  BY <1>2, <2>1 DEF Cleanup, TypeOK, Placed, Running
<1>3. CASE FlushAll
  <2>1. table' \in [Sub -> Copy \cup {None}]
    BY <1>3, NoCopiesType DEF FlushAll
  <2>2. did' \in Nat
    BY <1>3 DEF FlushAll, Counted, TypeOK
  <2> QED  BY <1>3, <2>1, <2>2 DEF FlushAll, TypeOK, Placed, Running
<1>4. CASE Tick
  <2>1. table' \in [Sub -> Copy \cup {None}]
    BY <1>4, OlderType DEF Tick, TypeOK
  <2>2. lru' \in [Worker -> [Sub -> Copy \cup {None}]]
    <3>1. \A w \in Worker, s \in Sub : lru[w][s] \in Copy \cup {None}
      BY DEF TypeOK
    <3> QED  BY <1>4, <3>1, OlderType DEF Tick
  <2>3. bus' \in [Worker -> Seq(Message)]
    <3>1. ASSUME NEW m \in Message PROVE AgedMsg(m) \in Message
      BY OlderType DEF AgedMsg, Message
    <3>2. ASSUME NEW w \in Worker
          PROVE  [i \in DOMAIN bus[w] |-> AgedMsg(bus[w][i])] \in Seq(Message)
      <4>1. bus[w] \in Seq(Message)
        BY DEF TypeOK
      <4>2. DOMAIN bus[w] = 1 .. Len(bus[w]) /\ Len(bus[w]) \in Nat
            /\ \A i \in DOMAIN bus[w] : bus[w][i] \in Message
        BY <4>1
      <4>3. [i \in 1 .. Len(bus[w]) |-> AgedMsg(bus[w][i])] \in [1 .. Len(bus[w]) -> Message]
        BY <3>1, <4>2
      <4> QED  BY <4>2, <4>3
    <3> QED  BY <1>4, <3>2 DEF Tick
  <2>4. task' \in [Task -> TaskState] /\ Placed'
    <3>1. ASSUME NEW t \in Task
          PROVE  /\ task'[t] \in TaskState
                 /\ task'[t].st = task[t].st /\ task'[t].worker = task[t].worker
                 /\ task'[t].sub = task[t].sub
                 /\ task[t].copy # None => task'[t].copy # None
      <4>1. task[t] \in TaskState /\ task'[t] = [task[t] EXCEPT !.copy = Older(@)]
        BY <1>4 DEF Tick, TypeOK
      <4>2. Older(task[t].copy) \in Copy \cup {None}
        BY <4>1, OlderType DEF TaskState
      <4>3. task[t].copy # None => Older(task[t].copy) \in Copy
        BY <4>1 DEF TaskState, Older, Copy
      <4>4. None \notin Copy
        BY CacheAssumption DEF Copy
      <4>5. task'[t].copy = Older(task[t].copy)
        BY <4>1 DEF TaskState
      <4> QED  BY <4>1, <4>2, <4>3, <4>4, <4>5 DEF TaskState
    <3>2. task' \in [Task -> TaskState]
      BY <1>4, <3>1 DEF Tick
    <3>3. Placed'
      BY <3>1 DEF Placed, Running
    <3> QED  BY <3>2, <3>3
  <2> QED  BY <1>4, <2>1, <2>2, <2>3, <2>4 DEF Tick, TypeOK
<1> QED  BY <1>1, <1>2, <1>3, <1>4 DEF Env
-----------------------------------------------------------------------------
LEMMA InitSound == Init => TypeOK /\ Placed
<1> SUFFICES ASSUME Init PROVE TypeOK /\ Placed
  OBVIOUS
<1>1. TypeOK
  <2>1. version \in Nat /\ did \in Nat /\ grouped \in SUBSET Worker
    BY DEF Init
  <2>2. table \in [Sub -> Copy \cup {None}] /\ lru \in [Worker -> [Sub -> Copy \cup {None}]]
    BY NoCopiesType DEF Init
  <2>3. bus \in [Worker -> Seq(Message)]
    BY DEF Init
  <2>4. pending \in [Worker -> [Sub -> Task \cup {None}]] /\ task \in [Task -> TaskState]
    BY IdleType DEF Init
  <2>5. owed \in [Worker -> Nat] /\ wipe \in [Worker -> SUBSET (Sub \cup {"group"})]
    BY DEF Init
  <2>6. swept \in BOOLEAN
    BY Zenon DEF Init
  <2> QED  BY <2>1, <2>2, <2>3, <2>4, <2>5, <2>6 DEF TypeOK
<1>2. Placed
  BY DEF Init, Placed, Running, Idle
<1> QED  BY <1>1, <1>2

LEMMA StepSound == TypeOK /\ Placed /\ [Next]_vars => (TypeOK /\ Placed)'
<1> SUFFICES ASSUME TypeOK, Placed, [Next]_vars PROVE TypeOK' /\ Placed'
  OBVIOUS
<1>1. CASE Next
  BY <1>1, NextSplit, CallType, WorkerType, EnvType
<1>2. CASE UNCHANGED vars
  BY <1>2 DEF vars, TypeOK, Placed, Running
<1> QED  BY <1>1, <1>2

\* Rows, entries, messages and calls have their types whatever happens, and a
\* call that has come to its row or its fill holds a copy to work with.
THEOREM CacheTypeCorrect == Spec => []TypeOK
<1>1. Spec => [](TypeOK /\ Placed)
  BY InitSound, StepSound, PTL DEF Spec
<1> QED  BY <1>1, PTL
-----------------------------------------------------------------------------
(* No key is computed twice at a time in one worker.                         *)

LEMMA FinishFlight ==
  ASSUME TypeOK, Placed, OneFlight, NEW t \in Task, Running(t), Finish(t)
  PROVE  OneFlight'
<1> DEFINE w == task[t].worker
           s == task[t].sub
<1>1. w \in Worker /\ s \in Sub
  BY DEF Placed
<1>2. \A v \in Worker, r \in Sub :
        pending'[v][r] = IF v = w /\ r = s THEN None ELSE pending[v][r]
  <2>1. pending' = [pending EXCEPT ![w] = [pending[w] EXCEPT ![s] = None]]
    BY DEF Finish, Forget
  <2> HIDE DEF w, s
  <2> QED  BY <1>1, <2>1 DEF TypeOK
<1>3. pending[w][s] = t /\ None \notin Task
  BY CacheAssumption DEF OneFlight
<1>4. \A u \in Task : task'[u] = IF u = t THEN Idle ELSE task[u]
  BY DEF Finish, TypeOK
<1>5. Idle.st = "idle"
  BY DEF Idle
<1> HIDE DEF w, s
<1>6. ASSUME NEW u \in Task, Running(u)' PROVE (pending[task[u].worker][task[u].sub] = u)'
  <2>1. u # t /\ task'[u] = task[u] /\ Running(u)
    BY <1>4, <1>5, <1>6 DEF Running
  <2>2. pending[task[u].worker][task[u].sub] = u
    BY <2>1 DEF OneFlight
  <2>3. task[u].worker \in Worker /\ task[u].sub \in Sub
    BY <2>1 DEF Placed
  <2>4. ~(task[u].worker = w /\ task[u].sub = s)
    BY <1>3, <2>1, <2>2
  <2> QED  BY <1>2, <2>1, <2>2, <2>3, <2>4
<1>7. ASSUME NEW u \in Task, NEW v \in Worker, NEW r \in Sub, pending'[v][r] = u
      PROVE  (Running(u) /\ task[u].worker = v /\ task[u].sub = r)'
  <2>1. ~(v = w /\ r = s) /\ pending[v][r] = u
    BY <1>2, <1>3, <1>7
  <2>2. Running(u) /\ task[u].worker = v /\ task[u].sub = r
    BY <2>1 DEF OneFlight
  <2>3. u # t
    BY <2>1, <2>2 DEF w, s
  <2>4. task'[u] = task[u]
    BY <1>4, <2>3
  <2> QED  BY <2>2, <2>4 DEF Running
<1> QED  BY <1>6, <1>7 DEF OneFlight

\* A step that leaves the map alone and moves the task on in its place.
LEMMA SamePlaceFlight ==
  ASSUME TypeOK, OneFlight, NEW t \in Task, Running(t), pending' = pending,
         NEW r, task' = [task EXCEPT ![t] = r], r.st # "idle",
         r.worker = task[t].worker, r.sub = task[t].sub
  PROVE  OneFlight'
<1>1. \A u \in Task : task'[u] = IF u = t THEN r ELSE task[u]
  BY DEF TypeOK
<1>2. \A u \in Task : /\ Running(u)' <=> Running(u)
                      /\ task'[u].worker = task[u].worker
                      /\ task'[u].sub = task[u].sub
  BY <1>1 DEF Running
<1> QED  BY <1>2 DEF OneFlight

LEMMA GotoFlight ==
  ASSUME TypeOK, OneFlight, NEW t \in Task, Running(t), pending' = pending,
         NEW st, st # "idle", Goto(t, st) \/ \E c : GotoWith(t, st, c)
  PROVE  OneFlight'
<1>1. CASE Goto(t, st)
  <2> DEFINE r == [task[t] EXCEPT !.st = st]
  <2>1. r.st # "idle" /\ r.worker = task[t].worker /\ r.sub = task[t].sub
    BY DEF TypeOK, TaskState
  <2>2. task' = [task EXCEPT ![t] = r]
    BY <1>1 DEF Goto
  <2> HIDE DEF r
  <2> QED  BY <2>1, <2>2, SamePlaceFlight
<1>2. CASE \E c : GotoWith(t, st, c)
  <2>1. PICK c : GotoWith(t, st, c)
    BY <1>2
  <2> DEFINE r == [task[t] EXCEPT !.st = st, !.copy = c]
  <2>2. r.st # "idle" /\ r.worker = task[t].worker /\ r.sub = task[t].sub
    BY DEF TypeOK, TaskState
  <2>3. task' = [task EXCEPT ![t] = r]
    BY <2>1 DEF GotoWith
  <2> HIDE DEF r
  <2> QED  BY <2>2, <2>3, SamePlaceFlight
<1> QED  BY <1>1, <1>2

LEMMA CallFlight ==
  ASSUME TypeOK, Placed, OneFlight, NEW t \in Task, CallStep(t)
  PROVE  OneFlight'
<1>1. CASE \E w \in Worker, s \in Sub : Start(t, w, s)
  <2>1. PICK w \in Worker, s \in Sub : Start(t, w, s)
    BY <1>1
  <2>2. \A v \in Worker, r \in Sub :
          pending'[v][r] = IF v = w /\ r = s THEN t ELSE pending[v][r]
    <3>1. pending' = [pending EXCEPT ![w] = [pending[w] EXCEPT ![s] = t]]
      BY <2>1 DEF Start
    <3> QED  BY <3>1 DEF TypeOK
  <2> DEFINE r0 == [Idle EXCEPT !.st = "select", !.worker = w, !.sub = s]
  <2>3. r0.st = "select" /\ r0.worker = w /\ r0.sub = s
    BY DEF Idle
  <2>4. \A u \in Task : task'[u] = IF u = t THEN r0 ELSE task[u]
    BY <2>1 DEF Start, TypeOK
  <2> HIDE DEF r0
  <2>5. ~Running(t) /\ pending[w][s] = None /\ None \notin Task
    BY <2>1, CacheAssumption DEF Start
  <2>6. ASSUME NEW u \in Task, Running(u)' PROVE (pending[task[u].worker][task[u].sub] = u)'
    <3>1. CASE u = t
      BY <2>2, <2>3, <2>4, <3>1
    <3>2. CASE u # t
      <4>1. task'[u] = task[u] /\ Running(u)
        BY <2>4, <2>6, <3>2 DEF Running
      <4>2. pending[task[u].worker][task[u].sub] = u
        BY <4>1 DEF OneFlight
      <4>3. task[u].worker \in Worker /\ task[u].sub \in Sub
        BY <4>1 DEF Placed
      <4>4. ~(task[u].worker = w /\ task[u].sub = s)
        BY <2>5, <4>2
      <4> QED  BY <2>2, <4>1, <4>2, <4>3, <4>4
    <3> QED  BY <3>1, <3>2
  <2>7. ASSUME NEW u \in Task, NEW v \in Worker, NEW r \in Sub, pending'[v][r] = u
        PROVE  (Running(u) /\ task[u].worker = v /\ task[u].sub = r)'
    <3>1. CASE v = w /\ r = s
      <4>1. u = t
        BY <2>2, <2>7, <3>1
      <4> QED  BY <2>3, <2>4, <3>1, <4>1 DEF Running
    <3>2. CASE ~(v = w /\ r = s)
      <4>1. pending[v][r] = u
        BY <2>2, <2>7, <3>2
      <4>2. Running(u) /\ task[u].worker = v /\ task[u].sub = r
        BY <4>1 DEF OneFlight
      <4>3. task'[u] = task[u]
        BY <2>4, <2>5, <4>2
      <4> QED  BY <4>2, <4>3 DEF Running
    <3> QED  BY <3>1, <3>2
  <2> QED  BY <2>6, <2>7 DEF OneFlight
<1>2. CASE Select(t)
  <2>1. Running(t) /\ pending' = pending
    BY <1>2 DEF Select, Running
  <2>2. CASE table[task[t].sub] = None
    <3>1. GotoWith(t, "compute", table[task[t].sub])
      BY <1>2, <2>2 DEF Select
    <3> QED  BY <2>1, <3>1, GotoFlight
  <2>3. CASE table[task[t].sub] # None
    <3>1. GotoWith(t, "row", table[task[t].sub])
      BY <1>2, <2>3 DEF Select
    <3> QED  BY <2>1, <3>1, GotoFlight
  <2> QED  BY <2>2, <2>3
<1>3. CASE ExpiredRow(t)
  <2>1. Running(t) /\ pending' = pending /\ GotoWith(t, "expire", None)
    BY <1>3 DEF ExpiredRow, Running
  <2> QED  BY <2>1, GotoFlight
<1>4. CASE RefillLru(t) \/ FillLru(t) \/ Fail(t)
  <2>1. Running(t) /\ Finish(t)
    BY <1>4 DEF RefillLru, FillLru, Fail, Running
  <2> QED  BY <2>1, FinishFlight
<1>5. CASE DeleteExpired(t)
  <2>1. Running(t) /\ pending' = pending /\ Goto(t, "compute")
    BY <1>5 DEF DeleteExpired, Running
  <2> QED  BY <2>1, GotoFlight
<1>6. CASE Compute(t)
  <2> DEFINE r == [task[t] EXCEPT !.st = "upsert", !.read = version]
  <2>1. Running(t) /\ pending' = pending /\ task' = [task EXCEPT ![t] = r]
    BY <1>6 DEF Compute, Running
  <2>2. r.st # "idle" /\ r.worker = task[t].worker /\ r.sub = task[t].sub
    BY DEF TypeOK, TaskState
  <2> HIDE DEF r
  <2> QED  BY <2>1, <2>2, SamePlaceFlight
<1>7. CASE Upsert(t)
  <2> DEFINE r == [task[t] EXCEPT !.st = "fill", !.read = 0, !.copy = NewCopy(task[t].read)]
  <2>1. Running(t) /\ pending' = pending /\ task' = [task EXCEPT ![t] = r]
    BY <1>7 DEF Upsert, Running
  <2>2. r.st # "idle" /\ r.worker = task[t].worker /\ r.sub = task[t].sub
    BY DEF TypeOK, TaskState
  <2> HIDE DEF r
  <2> QED  BY <2>1, <2>2, SamePlaceFlight
<1> QED
  BY <1>1, <1>2, <1>3, <1>4, <1>5, <1>6, <1>7 DEF CallStep, TaskStep

LEMMA CrashFlight ==
  ASSUME TypeOK, Placed, OneFlight, NEW w \in Worker, Crash(w)
  PROVE  OneFlight'
<1>1. \A v \in Worker, r \in Sub :
        pending'[v][r] = IF v = w THEN None ELSE pending[v][r]
  BY DEF Crash, TypeOK
<1>2. \A u \in Task : task'[u] = IF OfWorker(u, w) THEN Idle ELSE task[u]
  BY DEF Crash
<1>3. None \notin Task /\ Idle.st = "idle"
  BY CacheAssumption DEF Idle
<1>4. ASSUME NEW u \in Task, Running(u)' PROVE (pending[task[u].worker][task[u].sub] = u)'
  <2>1. task'[u] = task[u] /\ Running(u) /\ task[u].worker # w
    BY <1>2, <1>3, <1>4 DEF Running, OfWorker
  <2>2. pending[task[u].worker][task[u].sub] = u
    BY <2>1 DEF OneFlight
  <2>3. task[u].worker \in Worker /\ task[u].sub \in Sub
    BY <2>1 DEF Placed
  <2> QED  BY <1>1, <2>1, <2>2, <2>3
<1>5. ASSUME NEW u \in Task, NEW v \in Worker, NEW r \in Sub, pending'[v][r] = u
      PROVE  (Running(u) /\ task[u].worker = v /\ task[u].sub = r)'
  <2>1. v # w /\ pending[v][r] = u
    BY <1>1, <1>3, <1>5
  <2>2. Running(u) /\ task[u].worker = v /\ task[u].sub = r
    BY <2>1 DEF OneFlight
  <2>3. task'[u] = task[u]
    BY <1>2, <2>1, <2>2 DEF OfWorker
  <2> QED  BY <2>2, <2>3 DEF Running
<1> QED  BY <1>4, <1>5 DEF OneFlight

LEMMA OtherFlight ==
  ASSUME TypeOK, OneFlight, pending' = pending,
         \A u \in Task : /\ task'[u].st = task[u].st
                         /\ task'[u].worker = task[u].worker
                         /\ task'[u].sub = task[u].sub
  PROVE  OneFlight'
BY DEF OneFlight, Running

LEMMA StepFlight == TypeOK /\ Placed /\ OneFlight /\ [Next]_vars => OneFlight'
<1> SUFFICES ASSUME TypeOK, Placed, OneFlight, [Next]_vars PROVE OneFlight'
  OBVIOUS
<1>1. CASE \E t \in Task : CallStep(t)
  BY <1>1, CallFlight
<1>2. CASE \E w \in Worker : WorkerStep(w)
  <2>1. PICK w \in Worker : WorkerStep(w)
    BY <1>2
  <2>2. CASE Crash(w)
    BY <2>2, CrashFlight
  <2>3. CASE ~Crash(w)
    <3>1. pending' = pending /\ task' = task
      BY <2>1, <2>3 DEF WorkerStep, Listen, Invalidate, ForceDel, Evict, DeleteRows, DeleteFails
    <3> QED  BY <3>1, OtherFlight
  <2> QED  BY <2>2, <2>3
<1>3. CASE Env
  <2>1. CASE Tick
    <3>1. pending' = pending /\ task' = [t \in Task |-> [task[t] EXCEPT !.copy = Older(@)]]
      BY <2>1 DEF Tick
    <3>2. \A t \in Task : task[t] \in TaskState
      BY DEF TypeOK
    <3> QED  BY <3>1, <3>2, OtherFlight DEF TaskState
  <2>2. CASE ~Tick
    <3>1. pending' = pending /\ task' = task
      BY <1>3, <2>2 DEF Env, Change, Cleanup, FlushAll
    <3> QED  BY <3>1, OtherFlight
  <2> QED  BY <2>1, <2>2
<1>4. CASE UNCHANGED vars
  BY <1>4, OtherFlight DEF vars
<1> QED  BY <1>1, <1>2, <1>3, <1>4, NextSplit

\* In any number of workers, for any keys and calls, whatever fails or
\* crashes: a key is pending exactly while one call computes it.
THEOREM OneFlightAlways == Spec => []OneFlight
<1>1. Init => OneFlight
  <2> SUFFICES ASSUME Init PROVE OneFlight
    OBVIOUS
  <2>1. None \notin Task
    BY CacheAssumption
  <2> QED  BY <2>1 DEF Init, OneFlight, Running, Idle
<1>2. Init => TypeOK /\ Placed /\ OneFlight
  BY <1>1, InitSound
<1>3. TypeOK /\ Placed /\ OneFlight /\ [Next]_vars => (TypeOK /\ Placed /\ OneFlight)'
  BY StepSound, StepFlight
<1>4. Spec => [](TypeOK /\ Placed /\ OneFlight)
  BY <1>2, <1>3, PTL DEF Spec
<1> QED  BY <1>4, PTL
-----------------------------------------------------------------------------
(* An undisturbed invalidation leaves nothing behind.                        *)

\* While swept holds, no message carries a copy, an LRU layer that still has
\* copies is about to be told, and so is a table that still has rows.
Mute == \A w \in Worker : \A i \in DOMAIN bus[w] : bus[w][i].copy = None
DelComing(w) == \E i \in DOMAIN bus[w] : bus[w][i].kind = "del"
LayersGo == \A w \in Worker : lru[w] = NoCopies \/ DelComing(w)
RowsGo == table = NoCopies \/ \E w \in Worker : "group" \in wipe[w]
Sweep == swept => NoTask /\ Mute /\ LayersGo /\ RowsGo

LEMMA SweepGoal == Sweep => Swept
BY DEF Sweep, Swept, LayersGo, DelComing, RowsGo, Silent

\* Telling the others of a deletion puts off none that is under way.
LEMMA BroadcastMute ==
  ASSUME TypeOK, Mute, NEW w \in Worker, NEW m \in Message, m.copy = None,
         Broadcast(w, m)
  PROVE  /\ Mute'
         /\ \A u \in Worker : DelComing(u) => DelComing(u)'
         /\ m.kind = "del" => \A u \in Worker \ {w} : DelComing(u)'
<1>1. ASSUME NEW u \in Worker
      PROVE  /\ \A i \in DOMAIN bus'[u] : bus'[u][i].copy = None
             /\ DelComing(u) => \E i \in DOMAIN bus'[u] : bus'[u][i].kind = "del"
             /\ m.kind = "del" /\ u # w => \E i \in DOMAIN bus'[u] : bus'[u][i].kind = "del"
  <2>1. CASE u = w
    <3>1. bus'[u] = bus[u]
      BY <2>1 DEF Broadcast
    <3> QED  BY <2>1, <3>1 DEF Mute, DelComing
  <2>2. CASE u # w
    <3>1. bus[u] \in Seq(Message) /\ bus'[u] = Append(bus[u], m)
      BY <2>2 DEF Broadcast, TypeOK
    <3>2. /\ DOMAIN bus[u] = 1 .. Len(bus[u]) /\ Len(bus[u]) \in Nat
          /\ DOMAIN bus'[u] = 1 .. Len(bus[u]) + 1
          /\ \A i \in 1 .. Len(bus[u]) : bus'[u][i] = bus[u][i]
          /\ bus'[u][Len(bus[u]) + 1] = m
      BY <3>1
    <3>3. \A i \in DOMAIN bus'[u] : i \in DOMAIN bus[u] \/ i = Len(bus[u]) + 1
      BY <3>2
    <3>4. \A i \in DOMAIN bus'[u] : bus'[u][i].copy = None
      BY <3>2, <3>3 DEF Mute
    <3>5. \A i \in DOMAIN bus[u] : i \in DOMAIN bus'[u] /\ bus'[u][i] = bus[u][i]
      BY <3>2
    <3>6. Len(bus[u]) + 1 \in DOMAIN bus'[u]
      BY <3>2
    <3> QED  BY <3>2, <3>4, <3>5, <3>6 DEF DelComing
  <2> QED  BY <2>1, <2>2
<1> QED  BY <1>1 DEF Mute, DelComing

LEMMA GroupKey == "group" \notin Sub
BY CacheAssumption

LEMMA ClearedEntry ==
  ASSUME TypeOK, NEW w \in Worker, NEW s \in Sub,
         lru' = [lru EXCEPT ![w] = [@ EXCEPT ![s] = None]], NEW u \in Worker,
         lru[u] = NoCopies
  PROVE  lru'[u] = NoCopies
<1>1. lru'[u] = IF u = w THEN [lru[w] EXCEPT ![s] = None] ELSE lru[u]
  BY DEF TypeOK
<1>2. [NoCopies EXCEPT ![s] = None] = NoCopies
  BY DEF NoCopies
<1> QED  BY <1>1, <1>2

LEMMA ListenSweep ==
  ASSUME TypeOK, NoTask, Mute, LayersGo, RowsGo, NEW w \in Worker, Listen(w)
  PROVE  Mute' /\ LayersGo'
<1> DEFINE m == Head(bus[w])
<1>1. /\ bus[w] \in Seq(Message) /\ bus[w] # <<>>
      /\ bus' = [bus EXCEPT ![w] = Tail(@)] /\ lru' = [lru EXCEPT ![w] = Heard(@, m)]
  BY DEF Listen, TypeOK
<1>2. /\ Len(bus[w]) \in Nat /\ Len(bus[w]) > 0 /\ m = bus[w][1] /\ m \in Message
      /\ DOMAIN bus[w] = 1 .. Len(bus[w])
      /\ DOMAIN Tail(bus[w]) = 1 .. Len(bus[w]) - 1
      /\ \A i \in 1 .. Len(bus[w]) - 1 : Tail(bus[w])[i] = bus[w][i + 1]
  BY <1>1
<1>3. bus'[w] = Tail(bus[w]) /\ lru'[w] = Heard(lru[w], m)
  BY <1>1 DEF TypeOK
<1>4. \A u \in Worker \ {w} : bus'[u] = bus[u] /\ lru'[u] = lru[u]
  BY <1>1 DEF TypeOK
<1>5. m.copy = None
  BY <1>2 DEF Mute
<1>6. Mute'
  <2>1. \A i \in DOMAIN bus'[w] : bus'[w][i].copy = None
    <3>1. ASSUME NEW i \in 1 .. Len(bus[w]) - 1 PROVE bus[w][i + 1].copy = None
      <4>1. i + 1 \in DOMAIN bus[w]
        BY <1>2
      <4> QED  BY <4>1 DEF Mute
    <3> QED  BY <1>2, <1>3, <3>1
  <2> QED  BY <1>4, <2>1 DEF Mute
<1>7. CASE m.kind = "del"
  <2>1. lru'[w] = NoCopies
    BY <1>3, <1>7 DEF Heard
  <2> QED  BY <1>4, <1>6, <2>1 DEF LayersGo, DelComing
<1>8. CASE m.kind # "del"
  <2>1. lru[w] = NoCopies => lru'[w] = NoCopies
    <3>1. [NoCopies EXCEPT ![m.sub] = None] = NoCopies
      BY DEF NoCopies
    <3> QED  BY <1>3, <1>5, <1>8, <3>1 DEF Heard
  <2>2. DelComing(w) => DelComing(w)'
    <3>1. ASSUME NEW i \in DOMAIN bus[w], bus[w][i].kind = "del"
          PROVE  i - 1 \in DOMAIN bus'[w] /\ bus'[w][i - 1].kind = "del"
      <4>1. i # 1
        BY <1>2, <1>8, <3>1
      <4>2. i - 1 \in 1 .. Len(bus[w]) - 1 /\ (i - 1) + 1 = i
        BY <1>2, <4>1
      <4> QED  BY <1>2, <1>3, <3>1, <4>2
    <3> QED  BY <3>1 DEF DelComing
  <2> QED  BY <1>4, <1>6, <2>1, <2>2 DEF LayersGo, DelComing
<1> QED  BY <1>7, <1>8

LEMMA WorkerSweep ==
  ASSUME TypeOK, Sweep, NEW w \in Worker, WorkerStep(w)
  PROVE  Sweep'
<1>1. CASE Listen(w)
  <2> SUFFICES ASSUME swept' PROVE (NoTask /\ Mute /\ LayersGo /\ RowsGo)'
    BY DEF Sweep
  <2>1. swept /\ UNCHANGED <<table, task, wipe>>
    BY <1>1 DEF Listen
  <2>2. NoTask /\ Mute /\ LayersGo /\ RowsGo
    BY <2>1 DEF Sweep
  <2>3. NoTask' /\ RowsGo'
    BY <2>1, <2>2 DEF NoTask, Running, RowsGo
  <2> QED  BY <1>1, <2>2, <2>3, ListenSweep
<1>2. CASE Invalidate(w)
  <2> SUFFICES ASSUME swept' PROVE (NoTask /\ Mute /\ LayersGo /\ RowsGo)'
    BY DEF Sweep
  <2>1. /\ swept' = (swept \/ (NoTask /\ Silent)) /\ LruDel(w)
        /\ UNCHANGED <<table, task>> /\ wipe' = [wipe EXCEPT ![w] = @ \cup {"group"}]
    BY <1>2 DEF Invalidate
  <2>2. NoTask /\ Mute
    <3>1. CASE swept
      BY <3>1 DEF Sweep
    <3>2. CASE NoTask /\ Silent
      BY <3>2 DEF Silent, Mute
    <3> QED  BY <2>1, <3>1, <3>2
  <2>3. NoTask'
    BY <2>1, <2>2 DEF NoTask, Running
  <2>4. RowsGo'
    <3>1. "group" \in wipe'[w]
      BY <2>1 DEF TypeOK
    <3> QED  BY <3>1 DEF RowsGo
  <2>5. DelMsg \in Message /\ DelMsg.copy = None /\ DelMsg.kind = "del" /\ Broadcast(w, DelMsg)
    BY <2>1 DEF DelMsg, Message, LruDel
  <2>6. Mute' /\ \A u \in Worker \ {w} : DelComing(u)'
    BY <2>2, <2>5, BroadcastMute
  <2>7. lru'[w] = NoCopies
    BY <2>1 DEF LruDel, TypeOK
  <2>8. LayersGo'
    BY <2>6, <2>7 DEF LayersGo
  <2> QED  BY <2>3, <2>4, <2>6, <2>8
<1>3. CASE Crash(w)
  <2> SUFFICES ASSUME swept' PROVE (NoTask /\ Mute /\ LayersGo /\ RowsGo)'
    BY DEF Sweep
  <2>1. swept /\ "group" \notin wipe[w] /\ UNCHANGED table
    BY <1>3 DEF Crash
  <2>2. NoTask /\ Mute /\ LayersGo /\ RowsGo
    BY <2>1 DEF Sweep
  <2>3. /\ bus'[w] = <<>> /\ lru'[w] = NoCopies
        /\ \A u \in Worker \ {w} : bus'[u] = bus[u] /\ lru'[u] = lru[u] /\ wipe'[u] = wipe[u]
    BY <1>3 DEF Crash, TypeOK
  <2>4. NoTask'
    BY <1>3, <2>2 DEF Crash, NoTask, Running, Idle
  <2>5. Mute'
    BY <2>2, <2>3 DEF Mute
  <2>6. LayersGo'
    BY <2>2, <2>3 DEF LayersGo, DelComing
  <2>7. RowsGo'
    BY <2>1, <2>2, <2>3 DEF RowsGo
  <2> QED  BY <2>4, <2>5, <2>6, <2>7
<1>4. CASE \E s \in Sub : ForceDel(w, s)
  <2> SUFFICES ASSUME swept' PROVE (NoTask /\ Mute /\ LayersGo /\ RowsGo)'
    BY DEF Sweep
  <2>1. PICK s \in Sub : ForceDel(w, s)
    BY <1>4
  <2>2. swept /\ UNCHANGED <<table, task>> /\ wipe' = [wipe EXCEPT ![w] = @ \cup {s}]
    BY <2>1 DEF ForceDel
  <2>3. NoTask /\ Mute /\ LayersGo /\ RowsGo
    BY <2>2 DEF Sweep
  <2>4. NoTask'
    BY <2>2, <2>3 DEF NoTask, Running
  <2>5. RowsGo'
    <3>1. \A u \in Worker : wipe[u] \subseteq wipe'[u]
      BY <2>2 DEF TypeOK
    <3> QED  BY <2>2, <2>3, <3>1 DEF RowsGo
  <2>6. Mute' /\ \A u \in Worker : DelComing(u) => DelComing(u)'
    <3>1. CASE w \in grouped
      <4>1. DelSubMsg(s) \in Message /\ DelSubMsg(s).copy = None /\ Broadcast(w, DelSubMsg(s))
        BY <2>1, <3>1 DEF DelSubMsg, Message, ForceDel, LruGroupDel
      <4> QED  BY <2>3, <4>1, BroadcastMute
    <3>2. CASE w \notin grouped
      <4>1. bus' = bus
        BY <2>1, <3>2 DEF ForceDel, LruGroupDel
      <4> QED  BY <2>3, <4>1 DEF Mute, DelComing
    <3> QED  BY <3>1, <3>2
  <2>7. lru' = [lru EXCEPT ![w] = [@ EXCEPT ![s] = None]]
    BY <2>1 DEF ForceDel, LruGroupDel
  <2>8. LayersGo'
    BY <2>3, <2>6, <2>7, ClearedEntry DEF LayersGo
  <2> QED  BY <2>4, <2>5, <2>6, <2>8
<1>5. CASE \E s \in Sub : Evict(w, s)
  <2> SUFFICES ASSUME swept' PROVE (NoTask /\ Mute /\ LayersGo /\ RowsGo)'
    BY DEF Sweep
  <2>1. PICK s \in Sub : Evict(w, s)
    BY <1>5
  <2>2. swept /\ UNCHANGED <<table, task, wipe, bus>>
        /\ lru' = [lru EXCEPT ![w] = [@ EXCEPT ![s] = None]]
    BY <2>1 DEF Evict
  <2>3. NoTask /\ Mute /\ LayersGo /\ RowsGo
    BY <2>2 DEF Sweep
  <2>4. NoTask' /\ Mute' /\ RowsGo'
    BY <2>2, <2>3 DEF NoTask, Running, Mute, RowsGo
  <2>5. LayersGo'
    BY <2>2, <2>3, ClearedEntry DEF LayersGo, DelComing
  <2> QED  BY <2>4, <2>5
<1>6. CASE \E d \in wipe[w] : DeleteRows(w, d)
  <2> SUFFICES ASSUME swept' PROVE (NoTask /\ Mute /\ LayersGo /\ RowsGo)'
    BY DEF Sweep
  <2>1. PICK d \in wipe[w] : DeleteRows(w, d)
    BY <1>6
  <2>2. /\ swept /\ UNCHANGED <<task, bus, lru>> /\ table' = Deleted(d)
        /\ wipe' = [wipe EXCEPT ![w] = @ \ {d}]
    BY <2>1 DEF DeleteRows
  <2>3. NoTask /\ Mute /\ LayersGo /\ RowsGo
    BY <2>2 DEF Sweep
  <2>4. NoTask' /\ Mute' /\ LayersGo'
    BY <2>2, <2>3 DEF NoTask, Running, Mute, LayersGo, DelComing
  <2>5. RowsGo'
    <3>1. CASE d = "group" \/ table = NoCopies
      BY <2>2, <3>1 DEF RowsGo, Deleted, NoCopies
    <3>2. CASE d # "group" /\ table # NoCopies
      <4>1. PICK u \in Worker : "group" \in wipe[u]
        BY <2>3, <3>2 DEF RowsGo
      <4>2. "group" \in wipe'[u]
        BY <2>2, <3>2, <4>1 DEF TypeOK
      <4> QED  BY <4>2 DEF RowsGo
    <3> QED  BY <3>1, <3>2
  <2> QED  BY <2>4, <2>5
<1>7. CASE \E d \in wipe[w] : DeleteFails(w, d)
  BY <1>7 DEF DeleteFails, Sweep
<1> QED
  BY <1>1, <1>2, <1>3, <1>4, <1>5, <1>6, <1>7 DEF WorkerStep

LEMMA CallSweep ==
  ASSUME Sweep, NEW t \in Task, CallStep(t)
  PROVE  Sweep'
<1>1. CASE \E w \in Worker, s \in Sub : Start(t, w, s)
  BY <1>1 DEF Start, Sweep
<1>2. CASE ~\E w \in Worker, s \in Sub : Start(t, w, s)
  <2>1. Running(t) /\ swept' = swept
    BY <1>2 DEF CallStep, TaskStep, Running, Select, ExpiredRow, RefillLru, DeleteExpired,
                Compute, Upsert, FillLru, Fail
  <2>2. ~swept
    BY <2>1 DEF Sweep, NoTask
  <2> QED  BY <2>1, <2>2 DEF Sweep
<1> QED  BY <1>1, <1>2

LEMMA EnvSweep ==
  ASSUME TypeOK, Sweep, Env
  PROVE  Sweep'
<1> SUFFICES ASSUME swept' PROVE (NoTask /\ Mute /\ LayersGo /\ RowsGo)'
  BY DEF Sweep
<1>1. swept /\ wipe' = wipe
  BY DEF Env, Change, Cleanup, FlushAll, Tick
<1>2. NoTask /\ Mute /\ LayersGo /\ RowsGo
  BY <1>1 DEF Sweep
<1>3. CASE Tick
  <2>1. NoTask'
    BY <1>2, <1>3 DEF Tick, NoTask, Running, TypeOK, TaskState
  <2>2. /\ table' = [s \in Sub |-> Older(table[s])]
        /\ lru' = [w \in Worker |-> [s \in Sub |-> Older(lru[w][s])]]
        /\ bus' = [w \in Worker |-> [i \in DOMAIN bus[w] |-> AgedMsg(bus[w][i])]]
    BY <1>3 DEF Tick
  <2>3. Older(None) = None
    BY DEF Older
  <2>4. ASSUME NEW w \in Worker, NEW i \in DOMAIN bus[w]
        PROVE  AgedMsg(bus[w][i]).kind = bus[w][i].kind /\ AgedMsg(bus[w][i]).copy = None
    <3>1. bus[w] \in Seq(Message) /\ bus[w][i].copy = None
      BY <1>2 DEF TypeOK, Mute
    <3>2. bus[w][i] \in Message
      BY <3>1, ElementOfSeq
    <3> QED  BY <2>3, <3>1, <3>2 DEF AgedMsg, Message
  <2>5. \A w \in Worker : DOMAIN bus'[w] = DOMAIN bus[w]
    BY <2>2
  <2>6. Mute'
    BY <2>2, <2>4, <2>5 DEF Mute
  <2>7. \A w \in Worker : DelComing(w) => DelComing(w)'
    BY <2>2, <2>4, <2>5 DEF DelComing
  <2>8. \A w \in Worker : lru[w] = NoCopies => lru'[w] = NoCopies
    BY <2>2, <2>3 DEF NoCopies
  <2>9. LayersGo'
    BY <1>2, <2>7, <2>8 DEF LayersGo
  <2>10. RowsGo'
    BY <1>1, <1>2, <2>2, <2>3 DEF RowsGo, NoCopies
  <2> QED  BY <2>1, <2>6, <2>9, <2>10
<1>4. CASE Change \/ Cleanup \/ FlushAll
  <2>1. lru' = lru /\ bus' = bus /\ task' = task
    BY <1>4 DEF Change, Cleanup, FlushAll
  <2>2. table = NoCopies => table' = NoCopies
    BY <1>4 DEF Change, Cleanup, FlushAll, NoCopies
  <2> QED
    BY <1>1, <1>2, <2>1, <2>2 DEF NoTask, Running, Mute, LayersGo, DelComing, RowsGo
<1> QED  BY <1>3, <1>4 DEF Env

LEMMA StepSweep == TypeOK /\ Sweep /\ [Next]_vars => Sweep'
<1> SUFFICES ASSUME TypeOK, Sweep, [Next]_vars PROVE Sweep'
  OBVIOUS
<1>1. CASE Next
  BY <1>1, NextSplit, CallSweep, WorkerSweep, EnvSweep
<1>2. CASE UNCHANGED vars
  BY <1>2 DEF vars, Sweep, NoTask, Running, Mute, LayersGo, DelComing, RowsGo
<1> QED  BY <1>1, <1>2

\* For any number of workers and keys: one process that handles the event of a
\* blocklet, with no call and no message under way, clears the group in the
\* table and in the LRU layers of all, whatever is evicted, forced, flushed or
\* crashes meanwhile.
THEOREM SweptAlways == Spec => []Swept
<1>1. Init => TypeOK /\ Placed /\ Sweep
  BY InitSound DEF Init, Sweep
<1>2. TypeOK /\ Placed /\ Sweep /\ [Next]_vars => (TypeOK /\ Placed /\ Sweep)'
  BY StepSound, StepSweep
<1>3. Spec => [](TypeOK /\ Placed /\ Sweep)
  BY <1>1, <1>2, PTL DEF Spec
<1> QED  BY <1>3, SweepGoal, PTL
-----------------------------------------------------------------------------
(* No value outlives its ttl by being copied.                                *)

\* What LifeKept says of each place that a copy can be in.
Young(c) == c # None => c.left + c.age <= Life
YoungRows == \A s \in Sub : Young(table[s])
YoungLayers == \A w \in Worker, s \in Sub : Young(lru[w][s])
YoungBus == \A w \in Worker : \A i \in DOMAIN bus[w] : Young(bus[w][i].copy)
YoungTasks == \A t \in Task : Young(task[t].copy)
AllYoung == YoungRows /\ YoungLayers /\ YoungBus /\ YoungTasks

LEMMA YoungGoal == AllYoung => LifeKept
<1> SUFFICES ASSUME AllYoung, NEW c \in Copies, c # None PROVE c.left + c.age <= Life
  BY DEF LifeKept
<1>1. Young(c)
  <2>1. CASE c \in {table[s] : s \in Sub}
    BY <2>1 DEF AllYoung, YoungRows
  <2>2. CASE c \in UNION {{lru[w][s] : s \in Sub} : w \in Worker}
    BY <2>2 DEF AllYoung, YoungLayers
  <2>3. CASE c \in {task[t].copy : t \in Task}
    BY <2>3 DEF AllYoung, YoungTasks
  <2>4. CASE c \in {m.copy : m \in Sent}
    <3>1. PICK m \in Sent : c = m.copy
      BY <2>4
    <3>2. PICK w \in Worker : \E i \in DOMAIN bus[w] : m = bus[w][i]
      BY <3>1 DEF Sent
    <3>3. PICK i \in DOMAIN bus[w] : m = bus[w][i]
      BY <3>2
    <3>4. Young(bus[w][i].copy)
      BY DEF AllYoung, YoungBus
    <3> QED  BY <3>1, <3>3, <3>4
  <2>5. \/ c \in {table[s] : s \in Sub} \/ c \in UNION {{lru[w][s] : s \in Sub} : w \in Worker}
        \/ c \in {task[t].copy : t \in Task} \/ c \in {m.copy : m \in Sent}
    BY Zenon DEF Copies
  <2> QED  BY <2>1, <2>2, <2>3, <2>4, <2>5
<1> QED  BY <1>1 DEF Young

LEMMA NoneYoung == Young(None)
BY DEF Young

LEMMA OlderYoung ==
  ASSUME NEW c \in Copy \cup {None}, Young(c)
  PROVE  Young(Older(c))
<1>1. CASE c = None
  BY <1>1, NoneYoung DEF Older
<1>2. CASE c # None
  <2>1. c \in Copy /\ c.left \in Nat /\ c.age \in Nat /\ c.left + c.age <= Life
    BY <1>2 DEF Copy, Young
  <2>2. CASE c.left = 0
    BY <1>2, <2>2 DEF Older
  <2>3. CASE c.left # 0
    <3>1. Older(c) = [val |-> c.val, left |-> c.left - 1, age |-> c.age + 1]
      BY <1>2, <2>3 DEF Older
    <3>2. Older(c).left + Older(c).age <= Life
      BY <2>1, <3>1, CacheAssumption
    <3> QED  BY <3>2 DEF Young
  <2> QED  BY <2>2, <2>3
<1> QED  BY <1>1, <1>2

LEMMA NewYoung == ASSUME NEW v \in Nat PROVE Young(NewCopy(v))
BY CacheAssumption DEF Young, NewCopy

LEMMA SentYoung ==
  ASSUME TypeOK, YoungBus, NEW w \in Worker, NEW m \in Message, Young(m.copy),
         Broadcast(w, m)
  PROVE  YoungBus'
<1>1. ASSUME NEW u \in Worker PROVE \A i \in DOMAIN bus'[u] : Young(bus'[u][i].copy)
  <2>1. CASE u = w
    <3>1. bus'[u] = bus[u]
      BY <2>1 DEF Broadcast
    <3> QED  BY <3>1 DEF YoungBus
  <2>2. CASE u # w
    <3>1. bus[u] \in Seq(Message) /\ bus'[u] = Append(bus[u], m)
      BY <2>2 DEF Broadcast, TypeOK
    <3>2. /\ DOMAIN bus[u] = 1 .. Len(bus[u]) /\ Len(bus[u]) \in Nat
          /\ DOMAIN bus'[u] = 1 .. Len(bus[u]) + 1
          /\ \A i \in 1 .. Len(bus[u]) : bus'[u][i] = bus[u][i]
          /\ bus'[u][Len(bus[u]) + 1] = m
      BY <3>1
    <3>3. \A i \in DOMAIN bus'[u] : i \in DOMAIN bus[u] \/ i = Len(bus[u]) + 1
      BY <3>2
    <3> QED  BY <3>2, <3>3 DEF YoungBus
  <2> QED  BY <2>1, <2>2
<1> QED  BY <1>1 DEF YoungBus

LEMMA LayerYoung ==
  ASSUME TypeOK, YoungLayers, NEW w \in Worker, NEW s \in Sub, NEW c, Young(c),
         lru' = [lru EXCEPT ![w] = [@ EXCEPT ![s] = c]]
  PROVE  YoungLayers'
<1>1. \A v \in Worker, r \in Sub :
        lru'[v][r] = IF v = w /\ r = s THEN c ELSE lru[v][r]
  BY DEF TypeOK
<1> QED  BY <1>1 DEF YoungLayers

LEMMA ClearedYoung ==
  ASSUME TypeOK, YoungLayers, NEW w \in Worker, lru' = [lru EXCEPT ![w] = NoCopies]
  PROVE  YoungLayers'
<1>1. \A v \in Worker, r \in Sub :
        lru'[v][r] = IF v = w THEN None ELSE lru[v][r]
  BY DEF TypeOK, NoCopies
<1> QED  BY <1>1, NoneYoung DEF YoungLayers

LEMMA TaskYoung ==
  ASSUME TypeOK, YoungTasks, NEW t \in Task, NEW r, Young(r.copy),
         task' = [task EXCEPT ![t] = r]
  PROVE  YoungTasks'
<1>1. \A u \in Task : task'[u] = IF u = t THEN r ELSE task[u]
  BY DEF TypeOK
<1> QED  BY <1>1 DEF YoungTasks

LEMMA RowYoung ==
  ASSUME TypeOK, YoungRows, NEW s \in Sub, NEW c, Young(c),
         table' = [table EXCEPT ![s] = c]
  PROVE  YoungRows'
<1>1. \A r \in Sub : table'[r] = IF r = s THEN c ELSE table[r]
  BY DEF TypeOK
<1> QED  BY <1>1 DEF YoungRows

LEMMA GotoYoung ==
  ASSUME TypeOK, YoungTasks, NEW t \in Task, NEW st,
         Goto(t, st) \/ \E c : Young(c) /\ GotoWith(t, st, c)
  PROVE  YoungTasks'
<1>1. CASE Goto(t, st)
  <2> DEFINE r == [task[t] EXCEPT !.st = st]
  <2>1. r.copy = task[t].copy /\ Young(task[t].copy)
    BY DEF TypeOK, TaskState, YoungTasks
  <2>2. task' = [task EXCEPT ![t] = r]
    BY <1>1 DEF Goto
  <2> HIDE DEF r
  <2> QED  BY <2>1, <2>2, TaskYoung
<1>2. CASE \E c : Young(c) /\ GotoWith(t, st, c)
  <2>1. PICK c : Young(c) /\ GotoWith(t, st, c)
    BY <1>2
  <2> DEFINE r == [task[t] EXCEPT !.st = st, !.copy = c]
  <2>2. r.copy = c
    BY DEF TypeOK, TaskState
  <2>3. task' = [task EXCEPT ![t] = r]
    BY <2>1 DEF GotoWith
  <2> HIDE DEF r
  <2> QED  BY <2>1, <2>2, <2>3, TaskYoung
<1> QED  BY <1>1, <1>2

LEMMA FinishYoung ==
  ASSUME TypeOK, YoungTasks, NEW t \in Task, Finish(t)
  PROVE  YoungTasks'
<1>1. Idle.copy = None /\ task' = [task EXCEPT ![t] = Idle]
  BY DEF Idle, Finish
<1> QED  BY <1>1, NoneYoung, TaskYoung

\* Storing in the LRU layer and telling the others.
LEMMA LruGroupSetYoung ==
  ASSUME TypeOK, YoungLayers, YoungBus, NEW w \in Worker, NEW s \in Sub, NEW c \in Copy,
         Young(c), LruGroupSet(w, s, c)
  PROVE  YoungLayers' /\ YoungBus'
<1>1. SyncMsg(s, c) \in Message /\ SyncMsg(s, c).copy = c
  BY DEF SyncMsg, Message
<1>2. YoungBus'
  BY <1>1, SentYoung DEF LruGroupSet
<1>3. YoungLayers'
  BY LayerYoung DEF LruGroupSet
<1> QED  BY <1>2, <1>3

LEMMA LruGroupDelYoung ==
  ASSUME TypeOK, YoungLayers, YoungBus, NEW w \in Worker, NEW s \in Sub, LruGroupDel(w, s)
  PROVE  YoungLayers' /\ YoungBus'
<1>1. DelSubMsg(s) \in Message /\ DelSubMsg(s).copy = None
  BY DEF DelSubMsg, Message
<1>2. YoungBus'
  <2>1. CASE w \in grouped
    <3>1. Broadcast(w, DelSubMsg(s))
      BY <2>1 DEF LruGroupDel
    <3> QED  BY <1>1, <3>1, NoneYoung, SentYoung
  <2>2. CASE w \notin grouped
    BY <2>2 DEF LruGroupDel, YoungBus
  <2> QED  BY <2>1, <2>2
<1>3. YoungLayers'
  BY NoneYoung, LayerYoung DEF LruGroupDel
<1> QED  BY <1>2, <1>3

LEMMA CallYoung ==
  ASSUME TypeOK, Placed, AllYoung, NEW t \in Task, CallStep(t)
  PROVE  AllYoung'
<1>0. YoungRows /\ YoungLayers /\ YoungBus /\ YoungTasks /\ Young(task[t].copy)
  BY DEF AllYoung, YoungTasks
<1>1. CASE \E w \in Worker, s \in Sub : Start(t, w, s)
  <2>1. PICK w \in Worker, s \in Sub : Start(t, w, s)
    BY <1>1
  <2> DEFINE r == [Idle EXCEPT !.st = "select", !.worker = w, !.sub = s]
  <2>2. r.copy = None
    BY DEF Idle
  <2>3. /\ task' = [task EXCEPT ![t] = r] /\ UNCHANGED <<table, bus>>
        /\ lru' = [lru EXCEPT ![w] = [@ EXCEPT ![s] = None]]
    BY <2>1 DEF Start
  <2> HIDE DEF r
  <2>4. YoungTasks'
    BY <1>0, <2>2, <2>3, NoneYoung, TaskYoung
  <2>5. YoungLayers'
    BY <1>0, <2>3, NoneYoung, LayerYoung
  <2> QED  BY <1>0, <2>3, <2>4, <2>5 DEF AllYoung, YoungRows, YoungBus
<1>2. CASE Select(t)
  <2> DEFINE c == table[task[t].sub]
  <2>1. Young(c)
    BY <1>0, <1>2 DEF Placed, Running, Select, YoungRows
  <2>2. UNCHANGED <<table, lru, bus>>
    BY <1>2 DEF Select
  <2>3. \E st : GotoWith(t, st, c)
    BY <1>2 DEF Select
  <2> HIDE DEF c
  <2>4. YoungTasks'
    BY <1>0, <2>1, <2>3, GotoYoung
  <2> QED  BY <1>0, <2>2, <2>4 DEF AllYoung, YoungRows, YoungLayers, YoungBus
<1>3. CASE ExpiredRow(t)
  <2>1. task[t].worker \in Worker /\ task[t].sub \in Sub
    BY <1>3 DEF ExpiredRow, Running, Placed
  <2>2. /\ LruGroupDel(task[t].worker, task[t].sub) /\ GotoWith(t, "expire", None)
        /\ UNCHANGED table
    BY <1>3 DEF ExpiredRow
  <2>3. YoungTasks'
    BY <1>0, <2>2, NoneYoung, GotoYoung
  <2>4. YoungLayers' /\ YoungBus'
    BY <1>0, <2>1, <2>2, LruGroupDelYoung
  <2> QED  BY <1>0, <2>2, <2>3, <2>4 DEF AllYoung, YoungRows
<1>4. CASE RefillLru(t) \/ FillLru(t)
  <2>1. task[t].worker \in Worker /\ task[t].sub \in Sub /\ task[t].copy # None
    BY <1>4 DEF RefillLru, FillLru, Running, Placed
  <2>2. ToLru(t) \in Copy /\ Young(ToLru(t))
    BY <1>0, <2>1, ToLruType DEF ToLru
  <2>3. /\ LruGroupSet(task[t].worker, task[t].sub, ToLru(t)) /\ Finish(t)
        /\ UNCHANGED table
    BY <1>4 DEF RefillLru, FillLru
  <2>4. YoungTasks'
    BY <1>0, <2>3, FinishYoung
  <2>5. YoungLayers' /\ YoungBus'
    BY <1>0, <2>1, <2>2, <2>3, LruGroupSetYoung
  <2> QED  BY <1>0, <2>3, <2>4, <2>5 DEF AllYoung, YoungRows
<1>5. CASE DeleteExpired(t)
  <2>1. task[t].sub \in Sub
    BY <1>5 DEF DeleteExpired, Running, Placed
  <2>2. /\ table' = [table EXCEPT ![task[t].sub] = None] /\ Goto(t, "compute")
        /\ UNCHANGED <<lru, bus>>
    BY <1>5 DEF DeleteExpired
  <2>3. YoungTasks'
    BY <1>0, <2>2, GotoYoung
  <2>4. YoungRows'
    BY <1>0, <2>1, <2>2, NoneYoung, RowYoung
  <2> QED  BY <1>0, <2>2, <2>3, <2>4 DEF AllYoung, YoungLayers, YoungBus
<1>6. CASE Compute(t)
  <2> DEFINE r == [task[t] EXCEPT !.st = "upsert", !.read = version]
  <2>1. r.copy = task[t].copy
    BY DEF TypeOK, TaskState
  <2>2. task' = [task EXCEPT ![t] = r] /\ UNCHANGED <<table, lru, bus>>
    BY <1>6 DEF Compute
  <2> HIDE DEF r
  <2>3. YoungTasks'
    BY <1>0, <2>1, <2>2, TaskYoung
  <2> QED  BY <1>0, <2>2, <2>3 DEF AllYoung, YoungRows, YoungLayers, YoungBus
<1>7. CASE Upsert(t)
  <2> DEFINE c == NewCopy(task[t].read)
             r == [task[t] EXCEPT !.st = "fill", !.read = 0, !.copy = c]
  <2>1. task[t].sub \in Sub
    BY <1>7 DEF Upsert, Running, Placed
  <2>2. Young(c)
    <3>1. task[t].read \in Nat
      BY DEF TypeOK, TaskState
    <3> QED  BY <3>1, NewYoung
  <2>3. /\ task' = [task EXCEPT ![t] = r] /\ table' = [table EXCEPT ![task[t].sub] = c]
        /\ UNCHANGED <<lru, bus>>
    BY <1>7 DEF Upsert
  <2> HIDE DEF c
  <2>4. r.copy = c
    BY DEF TypeOK, TaskState
  <2> HIDE DEF r
  <2>5. YoungTasks'
    BY <1>0, <2>2, <2>3, <2>4, TaskYoung
  <2>6. YoungRows'
    BY <1>0, <2>1, <2>2, <2>3, RowYoung
  <2> QED  BY <1>0, <2>3, <2>5, <2>6 DEF AllYoung, YoungLayers, YoungBus
<1>8. CASE Fail(t)
  <2>1. Finish(t) /\ UNCHANGED <<table, lru, bus>>
    BY <1>8 DEF Fail
  <2>2. YoungTasks'
    BY <1>0, <2>1, FinishYoung
  <2> QED  BY <1>0, <2>1, <2>2 DEF AllYoung, YoungRows, YoungLayers, YoungBus
<1> QED
  BY <1>1, <1>2, <1>3, <1>4, <1>5, <1>6, <1>7, <1>8 DEF CallStep, TaskStep

LEMMA ListenYoung ==
  ASSUME TypeOK, YoungLayers, YoungBus, NEW w \in Worker, Listen(w)
  PROVE  YoungLayers' /\ YoungBus'
<1> DEFINE m == Head(bus[w])
<1>1. /\ bus[w] \in Seq(Message) /\ bus[w] # <<>>
      /\ bus' = [bus EXCEPT ![w] = Tail(@)] /\ lru' = [lru EXCEPT ![w] = Heard(@, m)]
  BY DEF Listen, TypeOK
<1>2. /\ Len(bus[w]) \in Nat /\ Len(bus[w]) > 0 /\ m = bus[w][1]
      /\ DOMAIN bus[w] = 1 .. Len(bus[w])
      /\ DOMAIN Tail(bus[w]) = 1 .. Len(bus[w]) - 1
      /\ \A i \in 1 .. Len(bus[w]) - 1 : Tail(bus[w])[i] = bus[w][i + 1]
  BY <1>1
<1>3. bus'[w] = Tail(bus[w]) /\ lru'[w] = Heard(lru[w], m)
  BY <1>1 DEF TypeOK
<1>4. \A u \in Worker \ {w} : bus'[u] = bus[u] /\ lru'[u] = lru[u]
  BY <1>1 DEF TypeOK
<1>5. Young(m.copy)
  BY <1>2 DEF YoungBus
<1> HIDE DEF m
<1>6. YoungBus'
  <2>1. \A i \in DOMAIN bus'[w] : Young(bus'[w][i].copy)
    <3>1. ASSUME NEW i \in 1 .. Len(bus[w]) - 1 PROVE Young(bus[w][i + 1].copy)
      <4>1. i + 1 \in DOMAIN bus[w]
        BY <1>2
      <4> QED  BY <4>1 DEF YoungBus
    <3> QED  BY <1>2, <1>3, <3>1
  <2> QED  BY <1>4, <2>1 DEF YoungBus
<1>7. ASSUME NEW s \in Sub PROVE Young(lru'[w][s])
  <2>1. CASE m.kind = "del"
    BY <1>3, <2>1, NoneYoung DEF Heard, NoCopies
  <2>2. CASE m.kind # "del"
    <3>1. lru'[w] = [lru[w] EXCEPT ![m.sub] = m.copy]
      BY <1>3, <2>2 DEF Heard
    <3>2. lru'[w][s] = m.copy \/ lru'[w][s] = lru[w][s]
      BY <3>1 DEF TypeOK
    <3> QED  BY <1>5, <3>2 DEF YoungLayers
  <2> QED  BY <2>1, <2>2
<1> QED  BY <1>4, <1>6, <1>7 DEF YoungLayers

LEMMA WorkerYoung ==
  ASSUME TypeOK, AllYoung, NEW w \in Worker, WorkerStep(w)
  PROVE  AllYoung'
<1>0. YoungRows /\ YoungLayers /\ YoungBus /\ YoungTasks
  BY DEF AllYoung
<1>1. CASE Listen(w)
  <2>1. UNCHANGED <<table, task>>
    BY <1>1 DEF Listen
  <2>2. YoungLayers' /\ YoungBus'
    BY <1>0, <1>1, ListenYoung
  <2> QED  BY <1>0, <2>1, <2>2 DEF AllYoung, YoungRows, YoungTasks
<1>2. CASE Invalidate(w)
  <2>1. LruDel(w) /\ UNCHANGED <<table, task>>
    BY <1>2 DEF Invalidate
  <2>2. YoungLayers'
    BY <1>0, <2>1, ClearedYoung DEF LruDel
  <2>3. DelMsg \in Message /\ DelMsg.copy = None /\ Broadcast(w, DelMsg)
    BY <2>1 DEF DelMsg, Message, LruDel
  <2>4. YoungBus'
    BY <1>0, <2>3, NoneYoung, SentYoung
  <2> QED  BY <1>0, <2>1, <2>2, <2>4 DEF AllYoung, YoungRows, YoungTasks
<1>3. CASE Crash(w)
  <2>1. YoungLayers'
    BY <1>0, <1>3, ClearedYoung DEF Crash
  <2>2. YoungBus'
    <3>1. bus'[w] = <<>> /\ \A u \in Worker \ {w} : bus'[u] = bus[u]
      BY <1>3 DEF Crash, TypeOK
    <3> QED  BY <1>0, <3>1 DEF YoungBus
  <2>3. YoungTasks'
    <3>1. \A t \in Task : task'[t] = Idle \/ task'[t] = task[t]
      BY <1>3 DEF Crash
    <3> QED  BY <1>0, <3>1, NoneYoung DEF YoungTasks, Idle
  <2> QED  BY <1>0, <1>3, <2>1, <2>2, <2>3 DEF AllYoung, YoungRows, Crash
<1>4. CASE \E s \in Sub : ForceDel(w, s)
  <2>1. PICK s \in Sub : ForceDel(w, s)
    BY <1>4
  <2>2. LruGroupDel(w, s) /\ UNCHANGED <<table, task>>
    BY <2>1 DEF ForceDel
  <2>3. YoungLayers' /\ YoungBus'
    BY <1>0, <2>2, LruGroupDelYoung
  <2> QED  BY <1>0, <2>2, <2>3 DEF AllYoung, YoungRows, YoungTasks
<1>5. CASE \E s \in Sub : Evict(w, s)
  <2>1. PICK s \in Sub : Evict(w, s)
    BY <1>5
  <2>2. YoungLayers' /\ UNCHANGED <<table, task, bus>>
    BY <1>0, <2>1, NoneYoung, LayerYoung DEF Evict
  <2> QED  BY <1>0, <2>2 DEF AllYoung, YoungRows, YoungBus, YoungTasks
<1>6. CASE \E d \in wipe[w] : DeleteRows(w, d)
  <2>1. PICK d \in wipe[w] : DeleteRows(w, d)
    BY <1>6
  <2>2. table' = Deleted(d) /\ UNCHANGED <<lru, bus, task>>
    BY <2>1 DEF DeleteRows
  <2>3. \A s \in Sub : table'[s] = None \/ table'[s] = table[s]
    BY <2>2 DEF Deleted
  <2>4. YoungRows'
    BY <1>0, <2>3, NoneYoung DEF YoungRows
  <2> QED  BY <1>0, <2>2, <2>4 DEF AllYoung, YoungLayers, YoungBus, YoungTasks
<1>7. CASE \E d \in wipe[w] : DeleteFails(w, d)
  BY <1>0, <1>7
  DEF DeleteFails, AllYoung, YoungRows, YoungLayers, YoungBus, YoungTasks
<1> QED
  BY <1>1, <1>2, <1>3, <1>4, <1>5, <1>6, <1>7 DEF WorkerStep

LEMMA TickYoung ==
  ASSUME TypeOK, AllYoung, Tick
  PROVE  AllYoung'
<1>1. YoungRows'
  BY OlderYoung DEF Tick, TypeOK, AllYoung, YoungRows
<1>2. YoungLayers'
  <2>1. ASSUME NEW w \in Worker, NEW s \in Sub PROVE Young(lru'[w][s])
    <3>1. lru[w][s] \in Copy \cup {None} /\ Young(lru[w][s])
      BY DEF TypeOK, AllYoung, YoungLayers
    <3>2. lru'[w][s] = Older(lru[w][s])
      BY DEF Tick
    <3> QED  BY <3>1, <3>2, OlderYoung
  <2> QED  BY <2>1 DEF YoungLayers
<1>3. YoungBus'
  <2>1. \A w \in Worker : bus'[w] = [i \in DOMAIN bus[w] |-> AgedMsg(bus[w][i])]
    BY DEF Tick
  <2>2. ASSUME NEW w \in Worker, NEW i \in DOMAIN bus[w]
        PROVE  Young(AgedMsg(bus[w][i]).copy)
    <3>1. bus[w] \in Seq(Message) /\ Young(bus[w][i].copy)
      BY DEF TypeOK, AllYoung, YoungBus
    <3>2. bus[w][i] \in Message
      BY <3>1, ElementOfSeq
    <3>3. bus[w][i].copy \in Copy \cup {None}
      BY <3>2 DEF Message
    <3>4. AgedMsg(bus[w][i]).copy = Older(bus[w][i].copy)
      BY <3>2 DEF AgedMsg, Message
    <3> QED  BY <3>1, <3>3, <3>4, OlderYoung
  <2> QED  BY <2>1, <2>2 DEF YoungBus
<1>4. YoungTasks'
  <2>1. ASSUME NEW t \in Task PROVE Young(task'[t].copy)
    <3>1. task[t] \in TaskState /\ Young(task[t].copy)
      BY DEF TypeOK, AllYoung, YoungTasks
    <3>2. task'[t] = [task[t] EXCEPT !.copy = Older(@)]
      BY DEF Tick
    <3>3. task'[t].copy = Older(task[t].copy) /\ task[t].copy \in Copy \cup {None}
      BY <3>1, <3>2 DEF TaskState
    <3> QED  BY <3>1, <3>3, OlderYoung
  <2> QED  BY <2>1 DEF YoungTasks
<1> QED  BY <1>1, <1>2, <1>3, <1>4 DEF AllYoung

LEMMA StepYoung == TypeOK /\ Placed /\ AllYoung /\ [Next]_vars => AllYoung'
<1> SUFFICES ASSUME TypeOK, Placed, AllYoung, [Next]_vars PROVE AllYoung'
  OBVIOUS
<1>1. CASE \E t \in Task : CallStep(t)
  BY <1>1, CallYoung
<1>2. CASE \E w \in Worker : WorkerStep(w)
  BY <1>2, WorkerYoung
<1>3. CASE Tick
  BY <1>3, TickYoung
<1>4. CASE Change \/ Cleanup \/ FlushAll
  <2>1. UNCHANGED <<lru, bus, task>>
    BY <1>4 DEF Change, Cleanup, FlushAll
  <2>2. \A s \in Sub : table'[s] = None \/ table'[s] = table[s]
    BY <1>4 DEF Change, Cleanup, FlushAll, NoCopies
  <2>3. YoungRows'
    BY <2>2, NoneYoung DEF AllYoung, YoungRows
  <2> QED  BY <2>1, <2>3 DEF AllYoung, YoungLayers, YoungBus, YoungTasks
<1>5. CASE UNCHANGED vars
  BY <1>5 DEF vars, AllYoung, YoungRows, YoungLayers, YoungBus, YoungTasks
<1> QED  BY <1>1, <1>2, <1>3, <1>4, <1>5, NextSplit DEF Env

\* For any ttl and any number of workers: however a value travels between the
\* table, the calls, the LRU layers and the messages, late ones included, it
\* is gone, or has expired, once it is a ttl old.
THEOREM LifeKeptAlways == Spec => []LifeKept
<1>1. Init => AllYoung
  BY NoneYoung DEF Init, AllYoung, YoungRows, YoungLayers, YoungBus, YoungTasks, NoCopies, Idle
<1>2. Init => TypeOK /\ Placed /\ AllYoung
  BY <1>1, InitSound
<1>3. TypeOK /\ Placed /\ AllYoung /\ [Next]_vars => (TypeOK /\ Placed /\ AllYoung)'
  BY StepSound, StepYoung
<1>4. Spec => [](TypeOK /\ Placed /\ AllYoung)
  BY <1>2, <1>3, PTL DEF Spec
<1> QED  BY <1>4, YoungGoal, PTL
=============================================================================
