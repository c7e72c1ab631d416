--------------------------- MODULE JobQueueProofs ---------------------------
(***************************************************************************)
(* Theorems about JobQueue for every number of processes, jobs, closures,  *)
(* slots and retries, and for every choice of Api, Modes and Env.          *)
(***************************************************************************)
EXTENDS JobQueue, FiniteSetTheorems, SequenceTheorems, TLAPS

-----------------------------------------------------------------------------
(* Type correctness *)

\* The records that the actions build have the types of the variables.
LEMMA RecordTypes ==
  /\ IdleTask \in Closure
  /\ \A p \in Pid, j \in Job, b \in BOOLEAN : NewTask(p, j, b) \in Closure
  /\ \A d \in {"none", "later", "due"} : NewRow(d) \in Row
  /\ \A p \in Pid, r \in Row : Claimed(p, r) \in Row
<1>1. IdleTask \in Closure
  BY SMT DEF IdleTask, Closure, States
<1>2. \A p \in Pid, j \in Job, b \in BOOLEAN : NewTask(p, j, b) \in Closure
  BY SMT DEF NewTask, Closure, States
<1>3. \A d \in {"none", "later", "due"} : NewRow(d) \in Row
  BY QueueAssumption, SMT DEF NewRow, Row
<1>4. \A p \in Pid, r \in Row : Claimed(p, r) \in Row
  <2>. SUFFICES ASSUME NEW p \in Pid, NEW r \in Row PROVE Claimed(p, r) \in Row
    OBVIOUS
  <2>. DEFINE s == [r EXCEPT !.by = p]
  <2>1. s \in Row
    BY SMT DEF Row
  <2>2. \A q \in Row, b \in BOOLEAN : [q EXCEPT !.fresh = b] \in Row
    BY SMT DEF Row
  <2>3. [s EXCEPT !.fresh = TRUE] \in Row
    BY <2>1, <2>2, Zenon
  <2>. QED  BY <2>3, Zenon DEF Claimed
<1>. QED  BY <1>1, <1>2, <1>3, <1>4

\* A closure that moves to another state of the queue keeps its type.
LEMMA ClosureMoves ==
  \A c \in Closure, s \in States : [c EXCEPT !.st = s] \in Closure
BY SMT DEF Closure

\* Reading a row that is there, and writing one.
LEMMA RowUpdate ==
  ASSUME NEW j \in Job, NEW r \in Row \cup {NoRow}, row \in [Job -> Row \cup {NoRow}]
  PROVE  [row EXCEPT ![j] = r] \in [Job -> Row \cup {NoRow}]
BY SMT

\* Claiming a row, or not finding it, keeps the table's type.
LEMMA ClaimRowType ==
  ASSUME NEW p \in Pid, NEW j \in Job, row \in [Job -> Row \cup {NoRow}], ClaimRow(p, j)
  PROVE  row' \in [Job -> Row \cup {NoRow}]
<1>1. Claimable(p, j) => row[j] \in Row
  BY SMT DEF Claimable, Present
<1>2. Claimable(p, j) => Claimed(p, row[j]) \in Row
  BY <1>1, RecordTypes, Zenon
<1>. QED  BY <1>2, SMT DEF ClaimRow

\* Marking a set of rows keeps the table's type.
LEMMA MarkRowsType ==
  ASSUME NEW p \in Pid, NEW C \in SUBSET Job, \A j \in C : Present(j),
         row \in [Job -> Row \cup {NoRow}], MarkRows(p, C)
  PROVE  row' \in [Job -> Row \cup {NoRow}]
<1>1. \A j \in Marked(C) : j \in C /\ row[j] \in Row
  BY SMT DEF Marked, Present
<1>2. \A j \in Marked(C) : Claimed(p, row[j]) \in Row
  BY <1>1, RecordTypes, Zenon
<1>. QED  BY <1>2, SMT DEF MarkRows

\* The two ways in which an entry moves through fastq keep the types.
LEMMA EnqueueType ==
  ASSUME TypeOK, NEW t \in Task, NEW c \in Closure, c.pid \in Pid,
         NEW line \in Seq(Task), Enqueue(t, c, line)
  PROVE  task' \in [Task -> Closure] /\ fifo' \in [Pid -> Seq(Task)]
<1>1. [c EXCEPT !.st = "check"] \in Closure /\ [c EXCEPT !.st = "wait"] \in Closure
  BY ClosureMoves DEF States
<1>2. task \in [Task -> Closure] /\ fifo \in [Pid -> Seq(Task)]
  BY DEF TypeOK
<1>3. CASE Free(c.pid)
  BY <1>1, <1>2, <1>3, Zenon DEF Enqueue
<1>4. CASE ~Free(c.pid)
  <2>1. task' = [task EXCEPT ![t] = [c EXCEPT !.st = "wait"]]
        /\ fifo' = [fifo EXCEPT ![c.pid] = line]
    BY <1>4, Zenon DEF Enqueue
  <2>. QED  BY <1>1, <1>2, <2>1, SMT
<1>. QED  BY <1>3, <1>4

LEMMA ReleaseType ==
  ASSUME TypeOK, NEW t \in Task, task[t].pid \in Pid, NEW next \in States, Release(t, next)
  PROVE  task' \in [Task -> Closure] /\ fifo' \in [Pid -> Seq(Task)]
<1>. DEFINE p == task[t].pid
<1>1. task \in [Task -> Closure] /\ fifo \in [Pid -> Seq(Task)]
  BY DEF TypeOK
<1>2. [task EXCEPT ![t].st = next] \in [Task -> Closure]
  BY <1>1, ClosureMoves, SMT DEF Closure
<1>3. CASE fifo[p] = <<>>
  BY <1>1, <1>2, <1>3, Zenon DEF Release
<1>4. CASE fifo[p] # <<>>
  <2>1. Head(fifo[p]) \in Task /\ Tail(fifo[p]) \in Seq(Task)
    BY <1>1, <1>4, SMT
  <2>2. task' = [task EXCEPT ![t].st = next, ![Head(fifo[p])].st = "check"]
    BY <1>4, Zenon DEF Release
  <2>. DEFINE moved == [task EXCEPT ![t].st = next]
              h == Head(fifo[p])
  <2>3. task' = [moved EXCEPT ![h] = [moved[h] EXCEPT !.st = "check"]]
    BY <2>2, Zenon
  <2>4. moved[h] \in Closure
    BY <1>2, <2>1, Zenon
  <2>5. [moved[h] EXCEPT !.st = "check"] \in Closure
    BY <2>4, ClosureMoves, Zenon DEF States
  <2>. HIDE DEF moved
  <2>6. task' \in [Task -> Closure]
    BY <1>2, <2>1, <2>3, <2>5, SMT DEF moved
  <2>7. fifo' = [fifo EXCEPT ![p] = Tail(fifo[p])]
    BY <1>4, Zenon DEF Release
  <2>8. fifo' \in [Pid -> Seq(Task)]
    BY <1>1, <2>1, <2>7, Zenon
  <2>. QED  BY <2>6, <2>8
<1>. QED  BY <1>3, <1>4
-----------------------------------------------------------------------------
(* The shape of fastq's state: the inductive invariant of SlotsUsed *)

\* A closure in use belongs to a process and to a job.
TaskOwned == \A t \in Task : Active(t) => task[t].pid \in Pid /\ task[t].job \in Job

\* The entries of a waiting list wait, in their own process, once each.
QueueShape ==
  \A p \in Pid : \A i \in 1 .. Len(fifo[p]) :
    /\ task[fifo[p][i]].st = "wait"
    /\ task[fifo[p][i]].pid = p
    /\ \A k \in 1 .. Len(fifo[p]) : fifo[p][i] = fifo[p][k] => i = k

Shape == TaskOwned /\ QueueShape /\ SlotsUsed

Seated(c) == c.st \in {"check", "run"}

\* Busy is a finite set: it is counted by a natural number.
LEMMA BusyFinite ==
  \A p \in Pid : IsFiniteSet(Busy(p)) /\ Cardinality(Busy(p)) \in Nat
<1>1. \A p \in Pid : Busy(p) \subseteq Task
  BY DEF Busy
<1>2. \A p \in Pid : IsFiniteSet(Busy(p))
  BY <1>1, FS_Subset, QueueAssumption, Zenon
<1>. QED  BY <1>2, FS_CardinalityType

\* A step that seats and unseats nobody and touches no waiting entry keeps the
\* shape: everything but fastq's own moves is of this kind.
LEMMA OffQueue ==
  ASSUME TypeOK, Shape, task' \in [Task -> Closure], fifo' = fifo,
         \A t \in Task :
           \/ task'[t] = task[t]
           \/ /\ task[t].st # "wait" /\ task'[t].st # "wait"
              /\ ~Seated(task[t]) /\ ~Seated(task'[t])
              /\ task'[t].st = "idle" \/ (task'[t].pid \in Pid /\ task'[t].job \in Job)
           \/ /\ Seated(task[t]) /\ Seated(task'[t])
              /\ task'[t].pid = task[t].pid /\ task'[t].job = task[t].job
  PROVE  Shape'
<1>. USE DEF Seated
<1>1. task \in [Task -> Closure] /\ fifo \in [Pid -> Seq(Task)]
  BY DEF TypeOK
<1>2. TaskOwned'
  BY SMT DEF Shape, TaskOwned, Active
<1>3. QueueShape'
  <2>1. \A p \in Pid : \A i \in 1 .. Len(fifo[p]) : fifo[p][i] \in Task
    BY <1>1, SMT
  <2>. QED  BY <2>1, SMT DEF Shape, QueueShape
<1>4. \A p \in Pid : Busy(p)' = Busy(p)
  BY SMT DEF Busy
<1>5. SlotsUsed'
  BY <1>4, Zenon DEF Shape, SlotsUsed
<1>. QED  BY <1>2, <1>3, <1>5 DEF Shape

\* An entry that comes to fastq takes a free slot, or waits at either end.
LEMMA EnqueueShape ==
  ASSUME TypeOK, Shape, NEW t \in Task, NEW c \in Closure, NEW line \in Seq(Task),
         c.pid \in Pid, c.job \in Job,
         task[t].st # "wait", ~Seated(task[t]),
         line = Append(fifo[c.pid], t) \/ line = <<t>> \o fifo[c.pid],
         Enqueue(t, c, line)
  PROVE  Shape'
<1>. DEFINE p == c.pid
<1>1. task \in [Task -> Closure] /\ fifo \in [Pid -> Seq(Task)]
  BY DEF TypeOK
<1>2. \A q \in Pid : \A i \in 1 .. Len(fifo[q]) : fifo[q][i] \in Task /\ fifo[q][i] # t
  BY <1>1, SMT DEF Shape, QueueShape
<1>3. IsFiniteSet(Busy(p)) /\ Cardinality(Busy(p)) \in Nat /\ Concurrency \in Nat
  BY BusyFinite, QueueAssumption
<1>4. t \notin Busy(p)
  BY DEF Busy, Seated
<1>5. CASE Free(p)
  <2>1. task' = [task EXCEPT ![t] = [c EXCEPT !.st = "check"]] /\ fifo' = fifo
    BY <1>5, Zenon DEF Enqueue
  <2>2. /\ task'[t].st = "check" /\ task'[t].pid = p /\ task'[t].job = c.job
        /\ \A u \in Task \ {t} : task'[u] = task[u]
    BY <1>1, <2>1, SMT DEF Closure
  <2>3. TaskOwned'
    BY <2>2, SMT DEF Shape, TaskOwned, Active
  <2>4. QueueShape'
    BY <1>2, <2>1, <2>2, SMT DEF Shape, QueueShape
  <2>5. Busy(p)' = Busy(p) \cup {t} /\ \A q \in Pid \ {p} : Busy(q)' = Busy(q)
    BY <2>2, SMT DEF Busy, Seated
  <2>6. Cardinality(Busy(p)') = Cardinality(Busy(p)) + 1
    BY <1>3, <1>4, <2>5, FS_AddElement, Zenon
  <2>7. SlotsUsed'
    <3>1. Cardinality(Busy(p)) < Concurrency /\ fifo[p] = <<>>
      BY <1>3, <1>5, SMT DEF Shape, SlotsUsed, Free
    <3>2. Cardinality(Busy(p)') <= Concurrency /\ fifo'[p] = <<>>
      BY <1>3, <2>1, <2>6, <3>1, SMT
    <3>3. \A q \in Pid \ {p} :
            /\ Cardinality(Busy(q)') <= Concurrency
            /\ fifo'[q] # <<>> => Cardinality(Busy(q)') = Concurrency
      BY <2>1, <2>5, Zenon DEF Shape, SlotsUsed
    <3>. QED  BY <3>2, <3>3, Zenon DEF SlotsUsed
  <2>. QED  BY <2>3, <2>4, <2>7 DEF Shape
<1>6. CASE ~Free(p)
  <2>1. task' = [task EXCEPT ![t] = [c EXCEPT !.st = "wait"]]
        /\ fifo' = [fifo EXCEPT ![p] = line]
    BY <1>6, Zenon DEF Enqueue
  <2>2. /\ task'[t].st = "wait" /\ task'[t].pid = p /\ task'[t].job = c.job
        /\ \A u \in Task \ {t} : task'[u] = task[u]
    BY <1>1, <2>1, SMT DEF Closure
  <2>3. TaskOwned'
    BY <2>2, SMT DEF Shape, TaskOwned, Active
  <2>4. /\ fifo'[p] = line
        /\ \A q \in Pid \ {p} : fifo'[q] = fifo[q]
    BY <1>1, <2>1, SMT
  <2>5. \A i \in 1 .. Len(line) :
          /\ task'[line[i]].st = "wait" /\ task'[line[i]].pid = p
          /\ \A k \in 1 .. Len(line) : line[i] = line[k] => i = k
    <3>1. CASE line = Append(fifo[p], t)
      BY <1>1, <1>2, <2>2, <3>1, SMT DEF Shape, QueueShape
    <3>2. CASE line = <<t>> \o fifo[p]
      <4>. DEFINE old == fifo[p]
      <4>0. old \in Seq(Task) /\ Len(old) \in Nat
        BY <1>1, SMT
      <4>1. Len(line) = Len(old) + 1 /\ line[1] = t
            /\ \A i \in 2 .. Len(line) : line[i] = old[i - 1]
        BY <3>2, <4>0, ConcatProperties, <<t>> \in Seq(Task), SMT
      <4>3. \A m \in 1 .. Len(old) :
              /\ old[m] \in Task \ {t}
              /\ task'[old[m]].st = "wait" /\ task'[old[m]].pid = p
              /\ \A n \in 1 .. Len(old) : old[m] = old[n] => m = n
        BY <1>2, <2>2, SMT DEF Shape, QueueShape
      <4>. HIDE DEF old
      <4>2. \A i \in 1 .. Len(line) : i # 1 => i - 1 \in 1 .. Len(old) /\ line[i] = old[i - 1]
        <5>. SUFFICES ASSUME NEW i \in 1 .. Len(line), i # 1
                      PROVE  i - 1 \in 1 .. Len(old) /\ line[i] = old[i - 1]
          OBVIOUS
        <5>1. i \in 2 .. Len(line) /\ i - 1 \in 1 .. Len(old)
          BY <4>0, <4>1, SMT
        <5>. QED  BY <4>1, <5>1, Zenon
      <4>4. \A i \in 1 .. Len(line) : task'[line[i]].st = "wait" /\ task'[line[i]].pid = p
        <5>. SUFFICES ASSUME NEW i \in 1 .. Len(line)
                      PROVE  task'[line[i]].st = "wait" /\ task'[line[i]].pid = p
          OBVIOUS
        <5>1. CASE i = 1
          BY <2>2, <4>1, <5>1, Zenon
        <5>2. CASE i # 1
          <6>1. PICK m \in 1 .. Len(old) : line[i] = old[m]
            BY <4>2, <5>2, Zenon
          <6>2. task'[old[m]].st = "wait" /\ task'[old[m]].pid = p
            BY <4>3, Zenon
          <6>. QED  BY <6>1, <6>2, Zenon
        <5>. QED  BY <5>1, <5>2
      <4>5. ASSUME NEW i \in 1 .. Len(line), NEW k \in 1 .. Len(line), line[i] = line[k]
            PROVE  i = k
        <5>1. i = 1 <=> k = 1
          BY <4>1, <4>2, <4>3, <4>5, SMT
        <5>2. CASE i # 1
          <6>1. i - 1 = k - 1
            BY <4>2, <4>3, <4>5, <5>1, <5>2, SMT
          <6>. QED  BY <6>1, SMT
        <5>. QED  BY <5>1, <5>2
      <4>. QED  BY <4>4, <4>5
    <3>. QED  BY <3>1, <3>2
  <2>6. QueueShape'
    BY <1>2, <2>2, <2>4, <2>5, SMT DEF Shape, QueueShape
  <2>7. \A q \in Pid : Busy(q)' = Busy(q)
    BY <2>2, SMT DEF Busy, Seated
  <2>8. SlotsUsed'
    BY <1>3, <1>6, <2>4, <2>7, SMT DEF Shape, SlotsUsed, Free
  <2>. QED  BY <2>3, <2>6, <2>8 DEF Shape
<1>. QED  BY <1>5, <1>6

\* An entry that ends gives its slot to the head of the waiting list.
LEMMA ReleaseShape ==
  ASSUME TypeOK, Shape, NEW t \in Task, Seated(task[t]),
         NEW next \in {"clear", "claim"}, Release(t, next)
  PROVE  Shape'
<1>1. task \in [Task -> Closure] /\ fifo \in [Pid -> Seq(Task)]
  BY DEF TypeOK
<1>2. PICK p \in Pid : p = task[t].pid
  BY DEF Shape, TaskOwned, Active, Seated
<1>3. task[t].job \in Job
  BY DEF Shape, TaskOwned, Active, Seated
<1>4. \A q \in Pid : \A i \in 1 .. Len(fifo[q]) : fifo[q][i] \in Task /\ fifo[q][i] # t
  BY <1>1, SMT DEF Shape, QueueShape, Seated
<1>5. /\ IsFiniteSet(Busy(p)) /\ Cardinality(Busy(p)) \in Nat /\ Concurrency \in Nat
      /\ t \in Busy(p)
  BY <1>2, BusyFinite, QueueAssumption DEF Busy, Seated
<1>6. Cardinality(Busy(p) \ {t}) = Cardinality(Busy(p)) - 1 /\ IsFiniteSet(Busy(p) \ {t})
  BY <1>5, FS_RemoveElement, Zenon
<1>7. PICK moved \in [Task -> Closure] : moved = [task EXCEPT ![t].st = next]
  <2>1. task[t] \in Closure /\ next \in States
    BY <1>1, SMT DEF States
  <2>2. [task[t] EXCEPT !.st = next] \in Closure
    BY <2>1, ClosureMoves, Zenon
  <2>3. [task EXCEPT ![t] = [task[t] EXCEPT !.st = next]] \in [Task -> Closure]
    BY <1>1, <2>2, SMT
  <2>. QED  BY <2>3, Zenon
<1>8. /\ moved[t].st = next /\ moved[t].pid = p /\ moved[t].job = task[t].job
      /\ \A u \in Task \ {t} : moved[u] = task[u]
  <2>1. moved[t] = [task[t] EXCEPT !.st = next] /\ task[t] \in Closure
    BY <1>1, <1>7, SMT
  <2>2. \A u \in Task \ {t} : moved[u] = task[u]
    BY <1>1, <1>7, SMT
  <2>. QED  BY <1>2, <2>1, <2>2, SMT DEF Closure
<1>9. CASE fifo[p] = <<>>
  <2>1. task' = moved /\ fifo' = fifo
    BY <1>2, <1>7, <1>9, Zenon DEF Release
  <2>2. TaskOwned'
    BY <1>3, <1>8, <2>1, SMT DEF Shape, TaskOwned, Active
  <2>3. QueueShape'
    BY <1>4, <1>8, <2>1, SMT DEF Shape, QueueShape
  <2>4. Busy(p)' = Busy(p) \ {t} /\ \A q \in Pid \ {p} : Busy(q)' = Busy(q)
    BY <1>5, <1>8, <2>1, SMT DEF Busy
  <2>5. SlotsUsed'
    <3>1. Cardinality(Busy(p)) <= Concurrency
      BY Zenon DEF Shape, SlotsUsed
    <3>2. Cardinality(Busy(p)') <= Concurrency
      BY <1>5, <1>6, <2>4, <3>1, SMT
    <3>3. \A q \in Pid \ {p} :
            /\ Cardinality(Busy(q)') <= Concurrency
            /\ fifo'[q] # <<>> => Cardinality(Busy(q)') = Concurrency
      BY <2>1, <2>4, Zenon DEF Shape, SlotsUsed
    <3>4. fifo'[p] = <<>>
      BY <1>9, <2>1
    <3>. QED  BY <3>2, <3>3, <3>4, Zenon DEF SlotsUsed
  <2>. QED  BY <2>2, <2>3, <2>5 DEF Shape
<1>10. CASE fifo[p] # <<>>
  <2>1. PICK line \in Seq(Task) : line = fifo[p] /\ line # <<>>
    BY <1>1, <1>10
  <2>2. PICK rest \in Seq(Task) : rest = Tail(line)
    BY <2>1, HeadTailProperties, Zenon
  <2>3. PICK h \in Task : h = Head(line) /\ h = line[1]
    <3>1. Len(line) \in Nat /\ Len(line) # 0
      BY <2>1, EmptySeq, Zenon
    <3>2. 1 \in 1 .. Len(line)
      BY <3>1, SMT
    <3>3. line[1] \in Task
      BY <3>2, ElementOfSeq, Zenon
    <3>4. Head(line) = line[1]
      BY <2>1, SMT
    <3>. QED  BY <3>3, <3>4, Zenon
  <2>4. /\ Len(line) \in Nat \ {0} /\ Len(rest) = Len(line) - 1
        /\ \A i \in 1 .. Len(rest) : i + 1 \in 1 .. Len(line) /\ rest[i] = line[i + 1]
    BY <2>1, <2>2, SMT
  <2>5. \A m \in 1 .. Len(line) :
          /\ line[m] \in Task \ {t}
          /\ task[line[m]].st = "wait" /\ task[line[m]].pid = p
          /\ \A n \in 1 .. Len(line) : line[m] = line[n] => m = n
    BY <1>4, <2>1, SMT DEF Shape, QueueShape
  <2>6. h # t /\ task[h].st = "wait" /\ task[h].pid = p
    BY <2>3, <2>4, <2>5, SMT
  <2>7. /\ task' = [moved EXCEPT ![h] = [moved[h] EXCEPT !.st = "check"]]
        /\ fifo' = [fifo EXCEPT ![p] = rest]
    <3>1. task' = [task EXCEPT ![t].st = next, ![h].st = "check"]
      BY <1>2, <1>10, <2>1, <2>3, Zenon DEF Release
    <3>2. task' = [moved EXCEPT ![h] = [moved[h] EXCEPT !.st = "check"]]
      BY <1>7, <3>1, Zenon
    <3>3. fifo' = [fifo EXCEPT ![p] = Tail(fifo[p])]
      BY <1>2, <1>10, Zenon DEF Release
    <3>. QED  BY <2>1, <2>2, <3>2, <3>3, Zenon
  <2>8. /\ fifo'[p] = rest /\ \A q \in Pid \ {p} : fifo'[q] = fifo[q]
    BY <1>1, <2>7, SMT
  <2>9. /\ task'[h].st = "check" /\ task'[h].pid = p /\ task'[h].job = task[h].job
        /\ task'[t] = moved[t]
        /\ \A u \in Task \ {t, h} : task'[u] = task[u]
    BY <1>8, <2>6, <2>7, SMT DEF Closure
  <2>10. TaskOwned'
    BY <1>3, <1>8, <2>6, <2>9, SMT DEF Shape, TaskOwned, Active
  <2>11. \A i \in 1 .. Len(rest) :
          /\ rest[i] \in Task \ {t, h}
          /\ task'[rest[i]].st = "wait" /\ task'[rest[i]].pid = p
          /\ \A k \in 1 .. Len(rest) : rest[i] = rest[k] => i = k
    <3>1. \A i \in 1 .. Len(rest) : rest[i] \in Task \ {t, h}
      BY <2>3, <2>4, <2>5, SMT
    <3>2. \A i \in 1 .. Len(rest) : task'[rest[i]].st = "wait" /\ task'[rest[i]].pid = p
      <4>. SUFFICES ASSUME NEW i \in 1 .. Len(rest)
                    PROVE  task'[rest[i]].st = "wait" /\ task'[rest[i]].pid = p
        OBVIOUS
      <4>1. task'[rest[i]] = task[line[i + 1]] /\ i + 1 \in 1 .. Len(line)
        BY <2>4, <2>9, <3>1, Zenon
      <4>. QED  BY <2>5, <4>1, Zenon
    <3>3. ASSUME NEW i \in 1 .. Len(rest), NEW k \in 1 .. Len(rest), rest[i] = rest[k]
          PROVE  i = k
      <4>1. i + 1 \in 1 .. Len(line) /\ k + 1 \in 1 .. Len(line)
        BY <2>4, Zenon
      <4>2. line[i + 1] = line[k + 1]
        BY <2>4, <3>3, Zenon
      <4>3. i + 1 = k + 1
        BY <2>5, <4>1, <4>2, Zenon
      <4>. QED  BY <4>3, SMT
    <3>. QED  BY <3>1, <3>2, <3>3
  <2>12. QueueShape'
    <3>1. ASSUME NEW q \in Pid \ {p}, NEW i \in 1 .. Len(fifo'[q])
          PROVE  /\ task'[fifo'[q][i]].st = "wait"
                 /\ task'[fifo'[q][i]].pid = q
                 /\ \A k \in 1 .. Len(fifo'[q]) : fifo'[q][i] = fifo'[q][k] => i = k
      <4>1. fifo'[q] = fifo[q] /\ i \in 1 .. Len(fifo[q])
        BY <2>8, <3>1, Zenon
      <4>2. /\ task[fifo[q][i]].st = "wait" /\ task[fifo[q][i]].pid = q
            /\ \A k \in 1 .. Len(fifo[q]) : fifo[q][i] = fifo[q][k] => i = k
        BY <4>1, Zenon DEF Shape, QueueShape
      <4>3. fifo[q][i] \in Task \ {t, h}
        BY <1>4, <2>6, <4>1, <4>2, Zenon
      <4>4. task'[fifo[q][i]] = task[fifo[q][i]]
        BY <2>9, <4>3, Zenon
      <4>. QED  BY <4>1, <4>2, <4>4, Zenon
    <3>2. ASSUME NEW i \in 1 .. Len(fifo'[p])
          PROVE  /\ task'[fifo'[p][i]].st = "wait"
                 /\ task'[fifo'[p][i]].pid = p
                 /\ \A k \in 1 .. Len(fifo'[p]) : fifo'[p][i] = fifo'[p][k] => i = k
      BY <2>8, <2>11, <3>2, Zenon
    <3>. QED  BY <3>1, <3>2, Zenon DEF QueueShape
  <2>13. /\ Busy(p)' = (Busy(p) \ {t}) \cup {h}
         /\ \A q \in Pid \ {p} : Busy(q)' = Busy(q)
    BY <1>5, <1>8, <2>6, <2>9, SMT DEF Busy
  <2>14. Cardinality(Busy(p)') = Cardinality(Busy(p))
    <3>1. h \notin Busy(p) \ {t}
      BY <2>6 DEF Busy
    <3>2. Cardinality((Busy(p) \ {t}) \cup {h}) = Cardinality(Busy(p) \ {t}) + 1
      BY <1>6, <3>1, FS_AddElement, Zenon
    <3>. QED  BY <1>5, <1>6, <2>13, <3>2, SMT
  <2>15. SlotsUsed'
    <3>1. Cardinality(Busy(p)) = Concurrency /\ Concurrency <= Concurrency
      BY <1>5, <1>10, SMT DEF Shape, SlotsUsed
    <3>2. \A q \in Pid \ {p} :
            /\ Cardinality(Busy(q)') <= Concurrency
            /\ fifo'[q] # <<>> => Cardinality(Busy(q)') = Concurrency
      BY <2>8, <2>13, Zenon DEF Shape, SlotsUsed
    <3>. QED  BY <2>14, <3>1, <3>2, Zenon DEF SlotsUsed
  <2>. QED  BY <2>10, <2>12, <2>15 DEF Shape
<1>. QED  BY <1>9, <1>10

\* A step that touches neither the closures nor the waiting lists.
LEMMA QueueStands ==
  ASSUME Shape, task' = task, fifo' = fifo
  PROVE  Shape'
<1>1. \A p \in Pid : Busy(p)' = Busy(p)
  BY DEF Busy
<1>2. SlotsUsed'
  BY <1>1, Zenon DEF Shape, SlotsUsed
<1>3. TaskOwned' /\ QueueShape'
  BY SMT DEF Shape, TaskOwned, Active, QueueShape
<1>. QED  BY <1>2, <1>3 DEF Shape

\* A step that gives one closure the value c and leaves the waiting lists alone.
LEMMA OneClosure ==
  ASSUME TypeOK, Shape, NEW t \in Task, NEW c \in Closure,
         task' = [task EXCEPT ![t] = c], fifo' = fifo,
         \/ /\ task[t].st # "wait" /\ ~Seated(task[t])
            /\ c.st # "wait" /\ ~Seated(c)
            /\ c.st = "idle" \/ (c.pid \in Pid /\ c.job \in Job)
         \/ /\ Seated(task[t]) /\ Seated(c)
            /\ c.pid = task[t].pid /\ c.job = task[t].job
  PROVE  task' \in [Task -> Closure] /\ Shape'
<1>1. task \in [Task -> Closure]
  BY DEF TypeOK
<1>2. task' \in [Task -> Closure]
  BY <1>1, SMT
<1>3. task'[t] = c /\ \A u \in Task \ {t} : task'[u] = task[u]
  BY <1>1, SMT
<1>4. \A u \in Task :
        \/ task'[u] = task[u]
        \/ /\ task[u].st # "wait" /\ task'[u].st # "wait"
           /\ ~Seated(task[u]) /\ ~Seated(task'[u])
           /\ task'[u].st = "idle" \/ (task'[u].pid \in Pid /\ task'[u].job \in Job)
        \/ /\ Seated(task[u]) /\ Seated(task'[u])
           /\ task'[u].pid = task[u].pid /\ task'[u].job = task[u].job
  <2>. SUFFICES ASSUME NEW u \in Task
                PROVE  \/ task'[u] = task[u]
                       \/ /\ task[u].st # "wait" /\ task'[u].st # "wait"
                          /\ ~Seated(task[u]) /\ ~Seated(task'[u])
                          /\ task'[u].st = "idle" \/ (task'[u].pid \in Pid /\ task'[u].job \in Job)
                       \/ /\ Seated(task[u]) /\ Seated(task'[u])
                          /\ task'[u].pid = task[u].pid /\ task'[u].job = task[u].job
    OBVIOUS
  <2>1. CASE u = t
    BY <1>3, <2>1, Zenon
  <2>2. CASE u # t
    BY <1>3, <2>2, Zenon
  <2>. QED  BY <2>1, <2>2
<1>5. Shape'
  BY <1>2, <1>4, OffQueue, Zenon
<1>. QED  BY <1>2, <1>5

\* The death of a process empties its waiting list and frees its closures.
LEMMA CrashShape ==
  ASSUME TypeOK, Shape, NEW p \in Pid, Crash(p)
  PROVE  task' \in [Task -> Closure] /\ Shape'
<1>1. task \in [Task -> Closure] /\ fifo \in [Pid -> Seq(Task)] /\ IdleTask \in Closure
  BY RecordTypes DEF TypeOK
<1>2. /\ task' = [t \in Task |-> IF task[t].pid = p THEN IdleTask ELSE task[t]]
      /\ fifo' = [fifo EXCEPT ![p] = <<>>]
  BY DEF Crash
<1>3. task' \in [Task -> Closure]
  BY <1>1, <1>2, SMT
<1>4. /\ \A t \in Task : task[t].pid = p => task'[t] = IdleTask
      /\ \A t \in Task : task[t].pid # p => task'[t] = task[t]
      /\ fifo'[p] = <<>> /\ \A q \in Pid \ {p} : fifo'[q] = fifo[q]
  BY <1>1, <1>2, SMT
<1>5. IdleTask.st = "idle" /\ IdleTask.pid = NoPid /\ NoPid \notin Pid
  BY QueueAssumption DEF IdleTask
<1>6. TaskOwned'
  BY <1>4, <1>5, SMT DEF Shape, TaskOwned, Active
<1>7. QueueShape'
  <2>1. \A q \in Pid : \A i \in 1 .. Len(fifo[q]) : fifo[q][i] \in Task
    BY <1>1, SMT
  <2>2. \A q \in Pid \ {p} : \A i \in 1 .. Len(fifo[q]) : task'[fifo[q][i]] = task[fifo[q][i]]
    BY <1>4, <2>1, SMT DEF Shape, QueueShape
  <2>3. \A q \in Pid \ {p} : \A i \in 1 .. Len(fifo'[q]) :
          /\ task'[fifo'[q][i]].st = "wait"
          /\ task'[fifo'[q][i]].pid = q
          /\ \A k \in 1 .. Len(fifo'[q]) : fifo'[q][i] = fifo'[q][k] => i = k
    BY <1>4, <2>2, SMT DEF Shape, QueueShape
  <2>4. \A i \in 1 .. Len(fifo'[p]) : FALSE
    BY <1>4, SMT
  <2>. QED  BY <2>3, <2>4, Zenon DEF QueueShape
<1>8. Busy(p)' = {} /\ \A q \in Pid \ {p} : Busy(q)' = Busy(q)
  BY <1>4, <1>5, SMT DEF Busy
<1>9. SlotsUsed'
  <2>1. Cardinality(Busy(p)') <= Concurrency /\ fifo'[p] = <<>>
    BY <1>4, <1>8, FS_EmptySet, QueueAssumption, SMT
  <2>2. \A q \in Pid \ {p} :
          /\ Cardinality(Busy(q)') <= Concurrency
          /\ fifo'[q] # <<>> => Cardinality(Busy(q)') = Concurrency
    BY <1>4, <1>8, Zenon DEF Shape, SlotsUsed
  <2>. QED  BY <2>1, <2>2, Zenon DEF SlotsUsed
<1>. QED  BY <1>3, <1>6, <1>7, <1>9 DEF Shape
-----------------------------------------------------------------------------
(* The inductive invariant, one lemma for each group of actions *)

\* A call and the loop are past their first read only for a job.
Named ==
  \A p \in Pid : /\ loop[p].at # "idle" => loop[p].job \in Job
                 /\ api[p].at # "idle" => api[p].job \in Job

Inv == TypeOK /\ Shape /\ Named

\* Writing one field of a row keeps it a row.
LEMMA RowFields ==
  /\ \A r \in Row, b \in BOOLEAN : [r EXCEPT !.cancelled = b] \in Row
  /\ \A r \in Row, b \in BOOLEAN : [r EXCEPT !.fresh = b] \in Row
  /\ \A r \in Row, n \in Nat : [r EXCEPT !.retryCount = n] \in Row
  /\ \A r \in Row, d \in {"none", "later", "due"} : [r EXCEPT !.delay = d] \in Row
  /\ \A r \in Row, n \in 0 .. RunCap : [r EXCEPT !.ran = n] \in Row
BY SMT DEF Row

LEMMA InitInv == Init => Inv
<1>. SUFFICES ASSUME Init PROVE Inv
  OBVIOUS
<1>1. TypeOK
  <2>1. proc \in [Pid -> {"new", "starting", "up", "dead"}]
        /\ row \in [Job -> Row \cup {NoRow}]
    BY SMT DEF Init
  <2>2. task \in [Task -> Closure]
    BY RecordTypes, SMT DEF Init
  <2>3. fifo \in [Pid -> Seq(Task)]
    BY SMT DEF Init
  <2>4. api \in [Pid -> [op : {"none", "cancel", "restore", "delete"},
                          job : Job \cup {NoJob},
                          at : {"idle", "get", "update", "remove"}]]
    BY SMT DEF Init, NoCall
  <2>5. loop \in [Pid -> [todo : SUBSET Job, job : Job \cup {NoJob},
                           at : {"idle", "update", "push"}]]
    BY SMT DEF Init, LoopAsleep
  <2>6. late \in [Pid -> [Job -> Nat]]
    BY SMT DEF Init
  <2>. QED  BY <2>1, <2>2, <2>3, <2>4, <2>5, <2>6 DEF TypeOK
<1>2. \A p \in Pid : Busy(p) = {} /\ fifo[p] = <<>>
  <2>1. \A t \in Task : task[t].st = "idle"
    BY SMT DEF Init, IdleTask
  <2>2. \A p \in Pid : Busy(p) = {}
    BY <2>1 DEF Busy
  <2>. QED  BY <2>2, SMT DEF Init
<1>3. SlotsUsed
  <2>1. Cardinality({}) = 0 /\ 0 <= Concurrency
    BY FS_EmptySet, QueueAssumption
  <2>. QED  BY <1>2, <2>1, Zenon DEF SlotsUsed
<1>4. TaskOwned
  BY SMT DEF Init, TaskOwned, Active, IdleTask
<1>5. QueueShape
  BY <1>2, SMT DEF QueueShape
<1>6. Named
  BY Zenon DEF Init, Named, LoopAsleep, NoCall
<1>. QED  BY <1>1, <1>3, <1>4, <1>5, <1>6 DEF Inv, Shape

LEMMA ProcessInv ==
  ASSUME Inv, NEW p \in Pid, ProcessStep(p)
  PROVE  Inv'
<1>. USE DEF Inv
<1>1. proc' \in [Pid -> {"new", "starting", "up", "dead"}]
  <2>1. PICK life \in {"starting", "up", "dead"} : proc' = [proc EXCEPT ![p] = life]
    BY Zenon DEF ProcessStep, Start, Populate, PopulateFails, Crash
  <2>. QED  BY <2>1, SMT DEF TypeOK
<1>2. CASE Start(p)
  <2>1. TypeOK'
    BY <1>1, <1>2, SMT DEF Start, TypeOK
  <2>. QED  BY <1>2, <2>1, QueueStands DEF Start, Named
<1>3. CASE Populate(p)
  <2>. DEFINE C == {j \in Job : Present(j) /\ row[j].delay = "none"}
  <2>1. C \in SUBSET Job /\ \A j \in C : Present(j)
    OBVIOUS
  <2>2. MarkRows(p, C) /\ UNCHANGED <<fifo, api, loop, late>>
    BY <1>3, Zenon DEF Populate
  <2>3. PICK got \in [Task -> Fetched(p, C) \cup {NoJob}] :
          /\ \A t \in Task : got[t] # NoJob => ~Active(t)
          /\ task' = [t \in Task |-> IF got[t] = NoJob THEN task[t] ELSE NewTask(p, got[t], FALSE)]
    BY <1>3, Zenon DEF Populate
  <2>4. Fetched(p, C) \in SUBSET Job
    BY <2>1 DEF Fetched, Marked
  <2>. HIDE DEF C
  <2>5. row' \in [Job -> Row \cup {NoRow}]
    BY <2>1, <2>2, MarkRowsType, Zenon DEF TypeOK
  <2>6. \A t \in Task : got[t] # NoJob =>
          /\ got[t] \in Job /\ task[t].st = "idle"
          /\ NewTask(p, got[t], FALSE) \in Closure
    <3>1. \A t \in Task : got[t] # NoJob => got[t] \in Job /\ task[t].st = "idle"
      BY <2>3, <2>4, SMT DEF Active
    <3>2. \A j \in Job : NewTask(p, j, FALSE) \in Closure
      BY RecordTypes
    <3>. QED  BY <3>1, <3>2, Zenon
  <2>7. task \in [Task -> Closure]
    BY DEF TypeOK
  <2>8. \A t \in Task : task'[t] = IF got[t] = NoJob THEN task[t] ELSE NewTask(p, got[t], FALSE)
    BY <2>3, Zenon
  <2>9. task' \in [Task -> Closure]
    <3>1. \A t \in Task : (IF got[t] = NoJob THEN task[t] ELSE NewTask(p, got[t], FALSE)) \in Closure
      BY <2>6, <2>7, Zenon
    <3>. QED  BY <2>3, <3>1, Zenon
  <2>10. \A j : NewTask(p, j, FALSE).st = "tick" /\ NewTask(p, j, FALSE).pid = p
                /\ NewTask(p, j, FALSE).job = j
    BY SMT DEF NewTask
  <2>11. \A t \in Task :
           \/ task'[t] = task[t]
           \/ /\ task[t].st = "idle" /\ task'[t].st = "tick"
              /\ task'[t].pid \in Pid /\ task'[t].job \in Job
    <3>. SUFFICES ASSUME NEW t \in Task, task'[t] # task[t]
                  PROVE  /\ task[t].st = "idle" /\ task'[t].st = "tick"
                         /\ task'[t].pid \in Pid /\ task'[t].job \in Job
      OBVIOUS
    <3>1. got[t] # NoJob /\ task'[t] = NewTask(p, got[t], FALSE)
      BY <2>8, Zenon
    <3>2. task'[t].st = "tick" /\ task'[t].pid = p /\ task'[t].job = got[t]
      BY <2>10, <3>1, Zenon
    <3>. QED  BY <2>6, <3>1, <3>2, Zenon
  <2>12. \A t \in Task :
           \/ task'[t] = task[t]
           \/ /\ task[t].st # "wait" /\ task'[t].st # "wait"
              /\ ~Seated(task[t]) /\ ~Seated(task'[t])
              /\ task'[t].st = "idle" \/ (task'[t].pid \in Pid /\ task'[t].job \in Job)
    BY <2>11, SMT DEF Seated
  <2>13. Shape'
    BY <2>2, <2>9, <2>12, OffQueue, Zenon
  <2>14. TypeOK'
    BY <1>1, <2>2, <2>5, <2>9, SMT DEF TypeOK
  <2>. QED  BY <2>2, <2>13, <2>14, Zenon DEF Named
<1>4. CASE PopulateFails(p)
  <2>1. TypeOK'
    BY <1>1, <1>4, SMT DEF PopulateFails, TypeOK
  <2>. QED  BY <1>4, <2>1, QueueStands DEF PopulateFails, Named
<1>5. CASE Crash(p)
  <2>1. task' \in [Task -> Closure] /\ Shape'
    BY <1>5, CrashShape, Zenon
  <2>2. fifo' \in [Pid -> Seq(Task)] /\ row' = row
    BY <1>5, SMT DEF Crash, TypeOK
  <2>3. api' \in [Pid -> [op : {"none", "cancel", "restore", "delete"},
                          job : Job \cup {NoJob},
                          at : {"idle", "get", "update", "remove"}]]
    BY <1>5, SMT DEF Crash, TypeOK, NoCall
  <2>4. /\ loop' \in [Pid -> [todo : SUBSET Job, job : Job \cup {NoJob},
                              at : {"idle", "update", "push"}]]
        /\ Named'
    BY <1>5, SMT DEF Crash, TypeOK, LoopAsleep, NoCall, Named
  <2>5. late' \in [Pid -> [Job -> Nat]]
    BY <1>5, SMT DEF Crash, TypeOK
  <2>6. TypeOK'
    BY <1>1, <2>1, <2>2, <2>3, <2>4, <2>5, SMT DEF TypeOK
  <2>. QED  BY <2>1, <2>4, <2>6
<1>. QED  BY <1>2, <1>3, <1>4, <1>5 DEF ProcessStep

\* A new closure takes a place that is not in use.
LEMMA NewClosure ==
  ASSUME TypeOK, Shape, NEW p \in Pid, NEW t \in Task, NEW j \in Job, NEW b \in BOOLEAN,
         ~Active(t), task' = [task EXCEPT ![t] = NewTask(p, j, b)], fifo' = fifo
  PROVE  task' \in [Task -> Closure] /\ Shape'
<1>1. task[t].st = "idle" /\ NewTask(p, j, b) \in Closure
  BY RecordTypes, Zenon DEF Active
<1>2. /\ NewTask(p, j, b).st = "tick" /\ NewTask(p, j, b).pid = p
      /\ NewTask(p, j, b).job = j
  BY SMT DEF NewTask
<1>3. /\ task[t].st # "wait" /\ ~Seated(task[t])
      /\ NewTask(p, j, b).st # "wait" /\ ~Seated(NewTask(p, j, b))
  BY <1>1, <1>2, SMT DEF Seated
<1>. QED  BY <1>1, <1>2, <1>3, OneClosure, Zenon

LEMMA PushInv ==
  ASSUME Inv, NEW p \in Pid, PushStep(p)
  PROVE  Inv'
<1>. USE DEF Inv
<1>. PICK j \in Job :
       PushDelayed(p, j) \/ \E t \in Task : Push(p, t, j) \/ PushVolatile(p, t, j)
  BY Zenon DEF PushStep
<1>1. NewRow("later") \in Row /\ NewRow("none") \in Row
  BY RecordTypes, SMT
<1>2. CASE PushDelayed(p, j)
  <2>1. row' \in [Job -> Row \cup {NoRow}]
    BY <1>1, <1>2, RowUpdate DEF PushDelayed, TypeOK
  <2>2. UNCHANGED <<proc, task, fifo, api, loop, late>>
    BY <1>2 DEF PushDelayed
  <2>3. TypeOK' /\ Named'
    BY <2>1, <2>2, SMT DEF TypeOK, Named
  <2>. QED  BY <2>2, <2>3, QueueStands
<1>3. ASSUME NEW t \in Task, Push(p, t, j)  PROVE Inv'
  <2>1. row' \in [Job -> Row \cup {NoRow}]
    BY <1>1, <1>3, RowUpdate DEF Push, TypeOK
  <2>2. task' \in [Task -> Closure] /\ Shape'
    BY <1>3, NewClosure, Zenon DEF Push
  <2>3. UNCHANGED <<proc, fifo, api, loop, late>>
    BY <1>3 DEF Push
  <2>4. TypeOK' /\ Named'
    BY <2>1, <2>2, <2>3, SMT DEF TypeOK, Named
  <2>. QED  BY <2>2, <2>4
<1>4. ASSUME NEW t \in Task, PushVolatile(p, t, j)  PROVE Inv'
  <2>1. task' \in [Task -> Closure] /\ Shape'
    BY <1>4, NewClosure, Zenon DEF PushVolatile
  <2>2. UNCHANGED <<proc, row, fifo, api, loop, late>>
    BY <1>4 DEF PushVolatile
  <2>3. TypeOK' /\ Named'
    BY <2>1, <2>2, SMT DEF TypeOK, Named
  <2>. QED  BY <2>1, <2>3
<1>. QED  BY <1>2, <1>3, <1>4

\* What a step of a closure leaves alone but for the table, the closures, the
\* waiting lists and the bodies left behind.
LEMMA Others ==
  ASSUME TypeOK, Named, UNCHANGED <<proc, api, loop>>,
         row' \in [Job -> Row \cup {NoRow}], late' \in [Pid -> [Job -> Nat]],
         task' \in [Task -> Closure], fifo' \in [Pid -> Seq(Task)]
  PROVE  TypeOK' /\ Named'
BY SMT DEF TypeOK, Named

LEMMA CountRunType ==
  ASSUME TypeOK, NEW j \in Job, CountRun(j)
  PROVE  row' \in [Job -> Row \cup {NoRow}]
<1>1. row \in [Job -> Row \cup {NoRow}]
  BY DEF TypeOK
<1>2. CASE Present(j) /\ row[j].ran < RunCap
  <2>1. row[j] \in Row
    BY <1>1, <1>2, SMT DEF Present
  <2>2. row[j].ran + 1 \in 0 .. RunCap
    BY <1>2, <2>1, QueueAssumption, SMT DEF Row
  <2>3. [row[j] EXCEPT !.ran = row[j].ran + 1] \in Row
    BY <2>1, <2>2, RowFields, Zenon
  <2>4. row' = [row EXCEPT ![j] = [row[j] EXCEPT !.ran = row[j].ran + 1]]
    BY <1>2, Zenon DEF CountRun
  <2>5. [row[j] EXCEPT !.ran = row[j].ran + 1] \in Row \cup {NoRow}
    BY <2>3, Zenon
  <2>. QED  BY <1>1, <2>4, <2>5, RowUpdate, Zenon
<1>3. CASE ~(Present(j) /\ row[j].ran < RunCap)
  BY <1>1, <1>3, Zenon DEF CountRun
<1>. QED  BY <1>2, <1>3

LEMMA WorkerInv ==
  ASSUME Inv, NEW t \in Task, WorkerStep(t)
  PROVE  Inv'
<1>. USE DEF Inv
<1>1. /\ task \in [Task -> Closure] /\ fifo \in [Pid -> Seq(Task)] /\ task[t] \in Closure
      /\ row \in [Job -> Row \cup {NoRow}] /\ late \in [Pid -> [Job -> Nat]]
  BY DEF TypeOK
<1>2. task[t].pid \in Pid /\ task[t].job \in Job
  BY DEF Shape, TaskOwned, Active, WorkerStep, QueueJob, CheckCancelled, CheckFails, Begin,
         Succeed, Fail, TimeOut
<1>3. UNCHANGED <<proc, api, loop>>
  BY Zenon DEF WorkerStep, QueueJob, CheckCancelled, CheckFails, Begin, Succeed, Fail, TimeOut
<1>4. CASE QueueJob(t)
  <2>1. /\ Append(fifo[task[t].pid], t) \in Seq(Task)
        /\ Enqueue(t, task[t], Append(fifo[task[t].pid], t))
        /\ task[t].st = "tick" /\ UNCHANGED <<row, late>>
    <3>1. Append(fifo[task[t].pid], t) \in Seq(Task)
      BY <1>1, <1>2, AppendProperties, Zenon
    <3>. QED  BY <1>4, <3>1, ZenonT(60) DEF QueueJob
  <2>2. task' \in [Task -> Closure] /\ fifo' \in [Pid -> Seq(Task)]
    BY <1>1, <1>2, <2>1, EnqueueType, Zenon
  <2>3. task[t].st # "wait" /\ ~Seated(task[t])
    BY <2>1, SMT DEF Seated
  <2>4. Shape'
    BY <1>1, <1>2, <2>1, <2>3, EnqueueShape, Zenon
  <2>. QED  BY <1>1, <1>3, <2>1, <2>2, <2>4, Others, Zenon
<1>5. CASE \E next \in {"clear", "claim"} :
             Release(t, next) /\ Seated(task[t]) /\ UNCHANGED <<row, late>>
  <2>1. PICK next \in {"clear", "claim"} :
          Release(t, next) /\ Seated(task[t]) /\ UNCHANGED <<row, late>>
    BY <1>5, Zenon
  <2>2. next \in States
    BY DEF States
  <2>3. task' \in [Task -> Closure] /\ fifo' \in [Pid -> Seq(Task)]
    BY <1>2, <2>1, <2>2, ReleaseType, Zenon
  <2>4. Shape'
    BY <2>1, ReleaseShape, Zenon
  <2>. QED  BY <1>1, <1>3, <2>1, <2>3, <2>4, Others, Zenon
<1>6. CASE CheckCancelled(t) \/ CheckFails(t) \/ Succeed(t) \/ Fail(t)
  BY <1>5, <1>6 DEF CheckCancelled, CheckFails, Succeed, Fail, Seated
<1>7. CASE TimeOut(t)
  <2>1. Release(t, "claim") /\ Seated(task[t]) /\ row' = row
    BY <1>7 DEF TimeOut, Seated
  <2>2. late' \in [Pid -> [Job -> Nat]]
    BY <1>1, <1>2, <1>7, SMT DEF TimeOut
  <2>3. task' \in [Task -> Closure] /\ fifo' \in [Pid -> Seq(Task)]
    BY <1>2, <2>1, ReleaseType, Zenon DEF States
  <2>4. Shape'
    BY <2>1, ReleaseShape, Zenon
  <2>. QED  BY <1>1, <1>3, <2>1, <2>2, <2>3, <2>4, Others, Zenon
<1>8. CASE Begin(t)
  <2>. DEFINE c == [task[t] EXCEPT !.st = "run"]
  <2>1. /\ CountRun(task[t].job) /\ task[t].st = "check"
        /\ UNCHANGED <<fifo, late>>
    BY <1>8 DEF Begin
  <2>2. row' \in [Job -> Row \cup {NoRow}]
    BY <1>2, <2>1, CountRunType, Zenon
  <2>3. c \in Closure
    BY <1>1, ClosureMoves, Zenon DEF States
  <2>4. Seated(task[t]) /\ Seated(c) /\ c.pid = task[t].pid /\ c.job = task[t].job
    BY <1>1, <2>1, SMT DEF Seated, Closure
  <2>5. task' = [task EXCEPT ![t] = c]
    BY <1>8, Zenon DEF Begin, MoveTo
  <2>. HIDE DEF c
  <2>6. task' \in [Task -> Closure] /\ Shape'
    BY <2>1, <2>3, <2>4, <2>5, OneClosure, Zenon
  <2>. QED  BY <1>1, <1>3, <2>1, <2>2, <2>6, Others, Zenon
<1>. QED  BY <1>4, <1>6, <1>7, <1>8 DEF WorkerStep

\* Two ways of changing a row that a process may claim.
LEMMA ClaimedFields ==
  ASSUME NEW p \in Pid, NEW j \in Job, row \in [Job -> Row \cup {NoRow}], Claimable(p, j)
  PROVE  /\ row[j] \in Row /\ row[j].retryCount \in Nat
         /\ \A b \in BOOLEAN : [Claimed(p, row[j]) EXCEPT !.cancelled = b] \in Row
         /\ \A n \in Nat : [Claimed(p, row[j]) EXCEPT !.retryCount = n] \in Row
<1>1. row[j] \in Row
  BY SMT DEF Claimable, Present
<1>2. Claimed(p, row[j]) \in Row
  BY <1>1, RecordTypes, Zenon
<1>3. row[j].retryCount \in Nat
  BY <1>1, SMT DEF Row
<1>. QED  BY <1>1, <1>2, <1>3, RowFields, Zenon

\* A closure that no slot and no waiting list holds moves on, or is forgotten.
LEMMA Moves ==
  ASSUME TypeOK, Shape, NEW t \in Task, NEW st \in {"clear", "update", "backoff"}, NEW n \in Nat,
         Active(t), task[t].st # "wait", ~Seated(task[t]),
         task' = [task EXCEPT ![t] = [[@ EXCEPT !.st = st] EXCEPT !.seen = n]], fifo' = fifo
  PROVE  task' \in [Task -> Closure] /\ fifo' \in [Pid -> Seq(Task)] /\ Shape'
<1>1. task[t] \in Closure /\ task[t].pid \in Pid /\ task[t].job \in Job
  BY DEF TypeOK, Shape, TaskOwned
<1>2. PICK b \in Closure : b = [task[t] EXCEPT !.st = st]
  <2>1. st \in States
    BY DEF States
  <2>. QED  BY <1>1, <2>1, ClosureMoves, Zenon
<1>3. b.st = st /\ b.pid = task[t].pid /\ b.job = task[t].job
  BY <1>1, <1>2, SMT DEF Closure
<1>4. PICK c \in Closure : c = [b EXCEPT !.seen = n]
  <2>1. [b EXCEPT !.seen = n] \in Closure
    BY SMT DEF Closure
  <2>. QED  BY <2>1, Zenon
<1>5. c.st = st /\ c.pid = task[t].pid /\ c.job = task[t].job
  BY <1>3, <1>4, SMT DEF Closure
<1>6. c.st # "wait" /\ ~Seated(c)
  BY <1>5 DEF Seated
<1>7. task' = [task EXCEPT ![t] = c]
  BY <1>2, <1>4, Zenon
<1>8. task' \in [Task -> Closure] /\ Shape'
  BY <1>1, <1>5, <1>6, <1>7, OneClosure, Zenon
<1>. QED  BY <1>8 DEF TypeOK

LEMMA MovesOn ==
  ASSUME TypeOK, Shape, NEW t \in Task, NEW st \in {"clear", "update", "backoff"},
         Active(t), task[t].st # "wait", ~Seated(task[t]), MoveTo(t, st), fifo' = fifo
  PROVE  task' \in [Task -> Closure] /\ fifo' \in [Pid -> Seq(Task)] /\ Shape'
<1>1. task[t] \in Closure /\ task[t].pid \in Pid /\ task[t].job \in Job /\ st \in States
  BY DEF TypeOK, Shape, TaskOwned, States
<1>2. PICK c \in Closure : c = [task[t] EXCEPT !.st = st]
  BY <1>1, ClosureMoves, Zenon
<1>3. c.st = st /\ c.pid = task[t].pid /\ c.job = task[t].job
  BY <1>1, <1>2, SMT DEF Closure
<1>4. c.st # "wait" /\ ~Seated(c)
  BY <1>3 DEF Seated
<1>5. task' = [task EXCEPT ![t] = c]
  BY <1>2, Zenon DEF MoveTo
<1>6. task' \in [Task -> Closure] /\ Shape'
  BY <1>1, <1>3, <1>4, <1>5, OneClosure, Zenon
<1>. QED  BY <1>6 DEF TypeOK

LEMMA Forgets ==
  ASSUME TypeOK, Shape, NEW t \in Task, task[t].st # "wait", ~Seated(task[t]),
         Forget(t), fifo' = fifo
  PROVE  task' \in [Task -> Closure] /\ fifo' \in [Pid -> Seq(Task)] /\ Shape'
<1>1. IdleTask.st = "idle" /\ IdleTask.st # "wait" /\ ~Seated(IdleTask)
  BY DEF IdleTask, Seated
<1>2. IdleTask \in Closure
  BY RecordTypes
<1>3. task' = [task EXCEPT ![t] = IdleTask]
  BY DEF Forget
<1>4. task' \in [Task -> Closure] /\ Shape'
  BY <1>1, <1>2, <1>3, OneClosure, Zenon
<1>. QED  BY <1>4 DEF TypeOK

LEMMA CompleteInv ==
  ASSUME Inv, NEW t \in Task, CompleteStep(t)
  PROVE  Inv'
<1>. USE DEF Inv
<1>. USE DEF Clear, ClearFails, Disown, GiveUp, PlanRetry, SaveRetry, SaveRetryRefused,
             CompleteFails, Retry
<1>1. /\ task \in [Task -> Closure] /\ fifo \in [Pid -> Seq(Task)] /\ task[t] \in Closure
      /\ row \in [Job -> Row \cup {NoRow}] /\ late \in [Pid -> [Job -> Nat]]
  BY DEF TypeOK
<1>2. task[t].st \in {"clear", "claim", "update", "backoff"}
  BY Zenon DEF CompleteStep
<1>3. Active(t) /\ task[t].st # "wait" /\ ~Seated(task[t])
  BY <1>2 DEF Active, Seated
<1>4. task[t].pid \in Pid /\ task[t].job \in Job
  BY <1>3 DEF Shape, TaskOwned
<1>5. UNCHANGED <<proc, api, loop, late>>
  BY Zenon DEF CompleteStep
<1>6. SUFFICES /\ row' \in [Job -> Row \cup {NoRow}] /\ task' \in [Task -> Closure]
               /\ fifo' \in [Pid -> Seq(Task)] /\ Shape'
  BY <1>1, <1>5, Others, Zenon
<1>7. CASE Clear(t)
  <2>1. row' \in [Job -> Row \cup {NoRow}]
    BY <1>1, <1>4, <1>7, RowUpdate
  <2>. QED  BY <1>3, <1>7, <2>1, Forgets, Zenon
<1>8. CASE ClearFails(t) \/ Disown(t)
  BY <1>1, <1>3, <1>8, Forgets, Zenon
<1>9. CASE GiveUp(t)
  <2>1. row' \in [Job -> Row \cup {NoRow}]
    BY <1>1, <1>4, <1>9, ClaimRowType
  <2>. QED  BY <1>3, <1>9, <2>1, MovesOn
<1>10. CASE PlanRetry(t)
  <2>1. row' \in [Job -> Row \cup {NoRow}]
    BY <1>1, <1>4, <1>10, ClaimRowType
  <2>2. PICK n \in Nat : n = row[task[t].job].retryCount
    BY <1>1, <1>4, <1>10, ClaimedFields, Zenon
  <2>3. task' = [task EXCEPT ![t] = [[@ EXCEPT !.st = "update"] EXCEPT !.seen = n]]
    BY <1>1, <1>10, <2>2, Zenon
  <2>. QED  BY <1>3, <1>10, <2>1, <2>3, Moves
<1>11. CASE SaveRetry(t)
  <2>1. task[t].seen + 1 \in Nat
    BY <1>1, SMT DEF Closure
  <2>2. row' = [row EXCEPT ![task[t].job] =
                  [Claimed(task[t].pid, row[task[t].job]) EXCEPT !.retryCount = task[t].seen + 1]]
    BY <1>11, Zenon
  <2>3. [Claimed(task[t].pid, row[task[t].job]) EXCEPT !.retryCount = task[t].seen + 1]
          \in Row \cup {NoRow}
    BY <1>1, <1>4, <1>11, <2>1, ClaimedFields, Zenon
  <2>4. row' \in [Job -> Row \cup {NoRow}]
    BY <1>1, <1>4, <2>2, <2>3, RowUpdate, Zenon
  <2>5. task' = [task EXCEPT ![t] = [[@ EXCEPT !.st = "backoff"] EXCEPT !.seen = 0]]
    BY <1>11, Zenon
  <2>. QED  BY <1>3, <1>11, <2>4, <2>5, Moves
<1>12. CASE SaveRetryRefused(t) \/ CompleteFails(t)
  BY <1>1, <1>3, <1>12, MovesOn, Zenon
<1>13. CASE Retry(t)
  <2>1. PICK c \in Closure : c = [task[t] EXCEPT !.persist = FALSE]
    <3>1. \A d \in Closure, b \in BOOLEAN : [d EXCEPT !.persist = b] \in Closure
      BY SMT DEF Closure
    <3>. QED  BY <1>1, <3>1, Zenon
  <2>2. c.pid = task[t].pid /\ c.job = task[t].job
    BY <1>1, <2>1, SMT DEF Closure
  <2>3. PICK line \in Seq(Task) : line = <<t>> \o fifo[task[t].pid]
    <3>1. fifo[task[t].pid] \in Seq(Task)
      BY <1>1, <1>4, Zenon
    <3>2. <<t>> \in Seq(Task)
      BY SMT
    <3>. QED  BY <3>1, <3>2, ConcatProperties, Zenon
  <2>4. Enqueue(t, c, line) /\ line = <<t>> \o fifo[c.pid] /\ row' = row
    BY <1>13, <2>1, <2>2, <2>3, Zenon
  <2>5. task' \in [Task -> Closure] /\ fifo' \in [Pid -> Seq(Task)]
    BY <1>4, <2>2, <2>4, EnqueueType, Zenon
  <2>6. Shape'
    BY <1>3, <1>4, <2>2, <2>4, EnqueueShape, Zenon
  <2>. QED  BY <1>1, <2>4, <2>5, <2>6
<1>. QED  BY <1>7, <1>8, <1>9, <1>10, <1>11, <1>12, <1>13 DEF CompleteStep

LEMMA SetCancelledType ==
  ASSUME TypeOK, NEW p \in Pid, NEW j \in Job, NEW b \in BOOLEAN, SetCancelled(p, j, b)
  PROVE  row' \in [Job -> Row \cup {NoRow}]
<1>1. row \in [Job -> Row \cup {NoRow}]
  BY DEF TypeOK
<1>2. CASE Claimable(p, j)
  <2>1. [Claimed(p, row[j]) EXCEPT !.cancelled = b] \in Row \cup {NoRow}
    BY <1>1, <1>2, ClaimedFields, Zenon
  <2>2. row' = [row EXCEPT ![j] = [Claimed(p, row[j]) EXCEPT !.cancelled = b]]
    BY <1>2, Zenon DEF SetCancelled
  <2>. QED  BY <1>1, <2>1, <2>2, RowUpdate, Zenon
<1>3. CASE ~Claimable(p, j)
  BY <1>1, <1>3, Zenon DEF SetCancelled
<1>. QED  BY <1>2, <1>3

LEMMA ApiInv ==
  ASSUME Inv, NEW p \in Pid, ApiStep(p)
  PROVE  Inv'
<1>. USE DEF Inv, GetJob, ApiCall, DeleteGet, ApiUpdate, ApiRemove, ApiFails
<1>1. row \in [Job -> Row \cup {NoRow}]
  BY DEF TypeOK
<1>2. UNCHANGED <<proc, task, fifo, loop, late>>
  BY Zenon DEF ApiStep
<1>3. Shape'
  BY <1>2, QueueStands
<1>4. SUFFICES /\ row' \in [Job -> Row \cup {NoRow}]
               /\ api' \in [Pid -> [op : {"none", "cancel", "restore", "delete"},
                                    job : Job \cup {NoJob},
                                    at : {"idle", "get", "update", "remove"}]]
               /\ \A q \in Pid : api'[q].at # "idle" => api'[q].job \in Job
  BY <1>2, <1>3, SMT DEF TypeOK, Named
<1>. DEFINE Calls == [op : {"none", "cancel", "restore", "delete"}, job : Job \cup {NoJob},
                      at : {"idle", "get", "update", "remove"}]
<1>. DEFINE Good == {c \in Calls : c.at # "idle" => c.job \in Job}
<1>5. api \in [Pid -> Good] /\ NoCall \in Good
  BY DEF TypeOK, Named, NoCall
<1>6. SUFFICES row' \in [Job -> Row \cup {NoRow}] /\ \E call \in Good : api' = [api EXCEPT ![p] = call]
  <2>1. api' \in [Pid -> Good]
    BY <1>5, <1>6, SMT
  <2>. QED  BY <1>6, <2>1, Zenon
<1>7. \A at \in {"idle", "get", "update", "remove"} :
        api[p].job \in Job => [api[p] EXCEPT !.at = at] \in Good
  <2>1. api[p] \in Calls
    BY <1>5
  <2>. QED  BY <2>1, SMT
<1>8. ASSUME NEW j \in Job, GetJob(p, j)
      PROVE  row' \in [Job -> Row \cup {NoRow}] /\ \E call \in Good : api' = [api EXCEPT ![p] = call]
  <2>1. row' \in [Job -> Row \cup {NoRow}] /\ api' = api
    BY <1>1, <1>8, ClaimRowType
  <2>2. api = [api EXCEPT ![p] = api[p]] /\ api[p] \in Good
    BY <1>5, SMT
  <2>. QED  BY <2>1, <2>2, Zenon
<1>9. ASSUME NEW j \in Job, NEW op \in {"cancel", "restore", "delete"}, ApiCall(p, op, j)
      PROVE  row' \in [Job -> Row \cup {NoRow}] /\ \E call \in Good : api' = [api EXCEPT ![p] = call]
  <2>1. row' \in [Job -> Row \cup {NoRow}]
    BY <1>1, <1>9, ClaimRowType
  <2>2. [op |-> op, job |-> j, at |-> IF op = "delete" THEN "get" ELSE "update"] \in Good
    BY SMT
  <2>. QED  BY <1>9, <2>1, <2>2, Zenon
<1>10. CASE DeleteGet(p)
  <2>1. api[p].job \in Job
    BY <1>10 DEF Named
  <2>2. row' \in [Job -> Row \cup {NoRow}]
    BY <1>1, <1>10, <2>1, ClaimRowType
  <2>3. (IF Claimable(p, api[p].job) THEN "update" ELSE "remove")
           \in {"idle", "get", "update", "remove"}
    BY Zenon
  <2>4. [api[p] EXCEPT !.at = IF Claimable(p, api[p].job) THEN "update" ELSE "remove"] \in Good
    BY <1>7, <2>1, <2>3, Zenon
  <2>. QED  BY <1>10, <2>2, <2>4, Zenon
<1>11. CASE ApiUpdate(p)
  <2>1. api[p].job \in Job /\ (api[p].op # "restore") \in BOOLEAN
    BY <1>11 DEF Named
  <2>2. row' \in [Job -> Row \cup {NoRow}]
    BY <1>11, <2>1, SetCancelledType, Zenon
  <2>3. [api[p] EXCEPT !.at = "remove"] \in Good
    BY <1>7, <2>1, Zenon
  <2>. QED  BY <1>5, <1>11, <2>2, <2>3, Zenon
<1>12. CASE ApiRemove(p)
  <2>1. api[p].job \in Job
    BY <1>12 DEF Named
  <2>2. row' \in [Job -> Row \cup {NoRow}]
    BY <1>1, <1>12, <2>1, RowUpdate
  <2>. QED  BY <1>5, <1>12, <2>2, Zenon
<1>13. CASE ApiFails(p)
  BY <1>1, <1>5, <1>13, Zenon
<1>. QED  BY <1>8, <1>9, <1>10, <1>11, <1>12, <1>13, Zenon DEF ApiStep

\* Writing one field of a loop's state.
Loops == [todo : SUBSET Job, job : Job \cup {NoJob}, at : {"idle", "update", "push"}]

LEMMA LoopFields ==
  /\ \A l \in Loops, J \in SUBSET Job : [l EXCEPT !.todo = J] \in Loops
  /\ \A l \in Loops, j \in Job \cup {NoJob} :
       [l EXCEPT !.job = j] \in Loops /\ [l EXCEPT !.job = j].job = j
  /\ \A l \in Loops, at \in {"idle", "update", "push"} :
       /\ [l EXCEPT !.at = at] \in Loops
       /\ [l EXCEPT !.at = at].at = at /\ [l EXCEPT !.at = at].job = l.job
BY SMT DEF Loops

LEMMA LoopInv ==
  ASSUME Inv, NEW p \in Pid, LoopStep(p)
  PROVE  Inv'
<1>. USE DEF Inv, Scan, LoopCancel, LoopUpdate, LoopPush, LoopFails
<1>1. row \in [Job -> Row \cup {NoRow}]
  BY DEF TypeOK
<1>2. UNCHANGED <<proc, fifo, api, late>>
  BY Zenon DEF LoopStep
<1>. DEFINE Good == {l \in Loops : l.at # "idle" => l.job \in Job}
<1>3. loop \in [Pid -> Good] /\ LoopAsleep \in Good
  BY DEF TypeOK, Named, LoopAsleep, Loops
<1>4. loop[p] \in Loops /\ loop[p].todo \in SUBSET Job
  BY <1>3 DEF Loops
<1>5. SUFFICES /\ row' \in [Job -> Row \cup {NoRow}] /\ task' \in [Task -> Closure] /\ Shape'
               /\ \E l \in Good : loop' = [loop EXCEPT ![p] = l]
  <2>1. loop' \in [Pid -> Good]
    BY <1>3, <1>5, SMT
  <2>2. loop' \in [Pid -> Loops] /\ \A q \in Pid : loop'[q].at # "idle" => loop'[q].job \in Job
    BY <2>1, SMT
  <2>. HIDE DEF Good
  <2>. QED  BY <1>2, <1>5, <2>2, SMT DEF TypeOK, Named, Loops
<1>6. CASE Scan(p)
  <2>. DEFINE C == {j \in Job : Present(j) /\ row[j].delay = "due" /\ ~row[j].cancelled}
  <2>1. C \in SUBSET Job /\ (\A j \in C : Present(j)) /\ Fetched(p, C) \in SUBSET Job
    BY DEF Fetched, Marked
  <2>2. /\ MarkRows(p, C) /\ loop' = [loop EXCEPT ![p].todo = Fetched(p, C)]
        /\ loop[p] = LoopAsleep /\ task' = task
    BY <1>6, Zenon
  <2>. HIDE DEF C
  <2>3. row' \in [Job -> Row \cup {NoRow}]
    BY <1>1, <2>1, <2>2, MarkRowsType, Zenon
  <2>4. [LoopAsleep EXCEPT !.todo = Fetched(p, C)] \in Good
    BY <2>1, SMT DEF LoopAsleep, Loops
  <2>5. loop' = [loop EXCEPT ![p] = [LoopAsleep EXCEPT !.todo = Fetched(p, C)]]
    BY <2>2, Zenon
  <2>. QED  BY <1>2, <2>2, <2>3, <2>4, <2>5, QueueStands, Zenon DEF TypeOK
<1>7. ASSUME NEW j \in Job, LoopCancel(p, j)
      PROVE  /\ row' \in [Job -> Row \cup {NoRow}] /\ task' \in [Task -> Closure] /\ Shape'
             /\ \E l \in Good : loop' = [loop EXCEPT ![p] = l]
  <2>1. row' \in [Job -> Row \cup {NoRow}] /\ task' = task
    BY <1>1, <1>7, ClaimRowType
  <2>. DEFINE next == IF Claimable(p, j) THEN "update" ELSE "push"
  <2>2. next \in {"idle", "update", "push"}
    BY Zenon
  <2>3. loop' = [loop EXCEPT ![p] = [[@ EXCEPT !.job = j] EXCEPT !.at = next]]
    BY <1>7, Zenon
  <2>. HIDE DEF next
  <2>4. [[loop[p] EXCEPT !.job = j] EXCEPT !.at = next] \in Good
    <3>1. PICK l \in Loops : l = [loop[p] EXCEPT !.job = j] /\ l.job = j
      <4>1. [loop[p] EXCEPT !.job = j] \in Loops /\ [loop[p] EXCEPT !.job = j].job = j
        BY <1>4, LoopFields, SMT
      <4>. QED  BY <4>1, Zenon
    <3>2. [l EXCEPT !.at = next] \in Loops /\ [l EXCEPT !.at = next].job = l.job
      BY <2>2, LoopFields, Zenon
    <3>3. PICK n \in Loops : n = [l EXCEPT !.at = next] /\ n.job \in Job
      BY <3>1, <3>2, Zenon
    <3>4. n \in Good
      BY <3>3
    <3>. QED  BY <3>1, <3>3, <3>4, Zenon
  <2>. QED  BY <1>2, <2>1, <2>3, <2>4, QueueStands, Zenon DEF TypeOK
<1>8. CASE LoopUpdate(p)
  <2>1. loop[p].job \in Job /\ loop[p].at = "update"
    BY <1>8 DEF Named
  <2>2. row' \in [Job -> Row \cup {NoRow}]
    BY <1>8, <2>1, SetCancelledType
  <2>3. [loop[p] EXCEPT !.at = "push"] \in Good
    BY <1>4, <2>1, LoopFields, Zenon
  <2>. HIDE DEF Good
  <2>. QED  BY <1>2, <1>3, <1>8, <2>2, <2>3, QueueStands, Zenon DEF TypeOK
<1>9. ASSUME NEW t \in Task, LoopPush(p, t)
      PROVE  /\ row' \in [Job -> Row \cup {NoRow}] /\ task' \in [Task -> Closure] /\ Shape'
             /\ \E l \in Good : loop' = [loop EXCEPT ![p] = l]
  <2>1. loop[p].job \in Job /\ row' = row
    BY <1>9 DEF Named
  <2>2. task' \in [Task -> Closure] /\ Shape'
    BY <1>2, <1>9, <2>1, NewClosure, Zenon
  <2>. DEFINE rest == loop[p].todo \ {loop[p].job}
  <2>3. loop' = [loop EXCEPT ![p] =
                   [[[loop[p] EXCEPT !.todo = rest] EXCEPT !.job = NoJob] EXCEPT !.at = "idle"]]
    BY <1>9, Zenon
  <2>4. rest \in SUBSET Job
    BY <1>4
  <2>. HIDE DEF rest
  <2>5. PICK l \in Loops : l = [loop[p] EXCEPT !.todo = rest]
    BY <1>4, <2>4, LoopFields, Zenon
  <2>6. PICK m \in Loops : m = [l EXCEPT !.job = NoJob]
    <3>1. NoJob \in Job \cup {NoJob}
      OBVIOUS
    <3>2. [l EXCEPT !.job = NoJob] \in Loops
      BY <3>1, LoopFields, Zenon
    <3>. QED  BY <3>2, Zenon
  <2>7. [m EXCEPT !.at = "idle"] \in Loops /\ [m EXCEPT !.at = "idle"].at = "idle"
    BY LoopFields, Zenon
  <2>8. PICK n \in Loops : n = [m EXCEPT !.at = "idle"] /\ n.at = "idle"
    BY <2>7, Zenon
  <2>9. n \in Good
    BY <2>8
  <2>10. loop' = [loop EXCEPT ![p] = n]
    BY <2>3, <2>5, <2>6, <2>8, Zenon
  <2>11. row' \in [Job -> Row \cup {NoRow}]
    BY <1>1, <2>1
  <2>. HIDE DEF Good
  <2>12. \E g \in Good : loop' = [loop EXCEPT ![p] = g]
    BY <2>9, <2>10, Zenon
  <2>. QED  BY <2>2, <2>11, <2>12
<1>10. CASE LoopFails(p)
  <2>. HIDE DEF Good
  <2>. QED  BY <1>1, <1>2, <1>3, <1>10, QueueStands, Zenon DEF TypeOK
<1>. QED  BY <1>6, <1>7, <1>8, <1>9, <1>10, Zenon DEF LoopStep

LEMMA TimeInv ==
  ASSUME Inv, TimeStep
  PROVE  Inv'
<1>. USE DEF Inv
<1>1. row \in [Job -> Row \cup {NoRow}] /\ late \in [Pid -> [Job -> Nat]]
  BY DEF TypeOK
<1>2. UNCHANGED <<proc, task, fifo, api, loop>>
  BY Zenon DEF TimeStep, FallDue, Expire, LateEnd
<1>3. Shape'
  BY <1>2, QueueStands
<1>4. SUFFICES row' \in [Job -> Row \cup {NoRow}] /\ late' \in [Pid -> [Job -> Nat]]
  BY <1>2, <1>3, SMT DEF TypeOK, Named
<1>5. ASSUME NEW j \in Job, FallDue(j)
      PROVE  row' \in [Job -> Row \cup {NoRow}] /\ late' \in [Pid -> [Job -> Nat]]
  <2>1. row[j] \in Row
    BY <1>1, <1>5, SMT DEF FallDue, Present
  <2>2. [row[j] EXCEPT !.delay = "due"] \in Row \cup {NoRow}
    <3>1. "due" \in {"none", "later", "due"}
      OBVIOUS
    <3>. QED  BY <2>1, <3>1, RowFields, Zenon
  <2>3. row' = [row EXCEPT ![j] = [row[j] EXCEPT !.delay = "due"]] /\ late' = late
    BY <1>5, Zenon DEF FallDue
  <2>. QED  BY <1>1, <2>2, <2>3, RowUpdate, Zenon
<1>6. ASSUME NEW j \in Job, Expire(j)
      PROVE  row' \in [Job -> Row \cup {NoRow}] /\ late' \in [Pid -> [Job -> Nat]]
  <2>1. row[j] \in Row
    BY <1>1, <1>6, SMT DEF Expire, Present
  <2>2. [row[j] EXCEPT !.fresh = FALSE] \in Row \cup {NoRow}
    BY <2>1, RowFields, Zenon
  <2>3. row' = [row EXCEPT ![j] = [row[j] EXCEPT !.fresh = FALSE]] /\ late' = late
    BY <1>6, Zenon DEF Expire
  <2>. QED  BY <1>1, <2>2, <2>3, RowUpdate, Zenon
<1>7. ASSUME NEW p \in Pid, NEW j \in Job, LateEnd(p, j)
      PROVE  row' \in [Job -> Row \cup {NoRow}] /\ late' \in [Pid -> [Job -> Nat]]
  <2>1. late[p][j] \in Nat /\ late[p][j] > 0
    BY <1>1, <1>7 DEF LateEnd
  <2>. QED  BY <1>1, <1>7, <2>1, SMT DEF LateEnd
<1>. QED  BY <1>5, <1>6, <1>7, Zenon DEF TimeStep

LEMMA NextInv == Inv /\ [Next]_vars => Inv'
<1>. SUFFICES ASSUME Inv, [Next]_vars PROVE Inv'
  OBVIOUS
<1>1. CASE UNCHANGED vars
  BY <1>1, QueueStands, SMT DEF vars, Inv, TypeOK, Named
<1>2. CASE Next
  BY <1>2, ProcessInv, PushInv, WorkerInv, CompleteInv, ApiInv, LoopInv, TimeInv, Zenon DEF Next
<1>. QED  BY <1>1, <1>2

\* The inductive invariant holds in every reachable state.
LEMMA Invariance == Spec => []Inv
BY InitInv, NextInv, PTL DEF Spec

\* Every variable keeps its type, for any number of processes, jobs and closures
\* and under every fault the environment may bring (index.js:35-491).
THEOREM TypeCorrect == Spec => []TypeOK
<1>1. Inv => TypeOK
  BY DEF Inv
<1>. QED  BY <1>1, Invariance, PTL

\* fastq never gives out more slots than the concurrency, and leaves none unused
\* while an entry waits, whatever crashes, times out or is retried.
THEOREM SlotsCorrect == Spec => []SlotsUsed
<1>1. Inv => SlotsUsed
  BY DEF Inv, Shape
<1>. QED  BY <1>1, Invariance, PTL
-----------------------------------------------------------------------------
(* What a step does to a row: the claim of another process and the count of
   retries stand in every action but SaveRetry, which writes a count below the
   bound. *)
Bound == IF MaxRetries = 0 THEN 1 ELSE MaxRetries

RowKept(j) ==
  \/ row'[j] = NoRow
  \/ /\ Present(j)
     /\ row'[j].retryCount = row[j].retryCount
     /\ row[j].fresh => row'[j].by = row[j].by
  \/ ~Present(j) /\ row'[j].retryCount = 1

LEMMA SameRows ==
  ASSUME row' = row  PROVE \A j \in Job : RowKept(j)
BY Zenon DEF RowKept, Present

\* It is enough to look at the row that is written.
LEMMA OneRow ==
  ASSUME TypeOK, NEW j \in Job, NEW r, row' = [row EXCEPT ![j] = r],
         \/ r = NoRow
         \/ /\ Present(j) /\ r.retryCount = row[j].retryCount
            /\ row[j].fresh => r.by = row[j].by
         \/ ~Present(j) /\ r.retryCount = 1
  PROVE  \A i \in Job : RowKept(i)
<1>. SUFFICES ASSUME NEW i \in Job PROVE RowKept(i)
  OBVIOUS
<1>1. row'[i] = IF i = j THEN r ELSE row[i]
  BY SMT DEF TypeOK
<1>. QED  BY <1>1, Zenon DEF RowKept, Present

\* The claim is refused while another process holds the row.
LEMMA ClaimedRow ==
  ASSUME TypeOK, NEW p \in Pid, NEW j \in Job, Claimable(p, j)
  PROVE  /\ Present(j) /\ row[j] \in Row /\ Claimed(p, row[j]) \in Row
         /\ Claimed(p, row[j]).retryCount = row[j].retryCount
         /\ row[j].fresh => Claimed(p, row[j]).by = row[j].by
<1>1. Present(j) /\ row[j] \in Row /\ (row[j].fresh => row[j].by = p)
  BY SMT DEF TypeOK, Claimable, Present
<1>2. PICK s \in Row : s = [row[j] EXCEPT !.by = p]
  <2>1. [row[j] EXCEPT !.by = p] \in Row
    BY <1>1, SMT DEF Row
  <2>. QED  BY <2>1, Zenon
<1>3. s.retryCount = row[j].retryCount /\ s.by = p
  BY <1>1, <1>2, SMT DEF Row
<1>4. Claimed(p, row[j]) = [s EXCEPT !.fresh = TRUE]
  BY <1>2, Zenon DEF Claimed
<1>5. Claimed(p, row[j]).retryCount = s.retryCount /\ Claimed(p, row[j]).by = s.by
  BY <1>4, SMT DEF Row
<1>6. Claimed(p, row[j]) \in Row
  BY <1>1, RecordTypes, Zenon
<1>. QED  BY <1>1, <1>3, <1>5, <1>6, Zenon

LEMMA ClaimRowKept ==
  ASSUME TypeOK, NEW p \in Pid, NEW j \in Job, ClaimRow(p, j)
  PROVE  \A i \in Job : RowKept(i)
<1>1. CASE Claimable(p, j)
  <2>1. row' = [row EXCEPT ![j] = Claimed(p, row[j])]
    BY <1>1, Zenon DEF ClaimRow
  <2>. QED  BY <1>1, <2>1, ClaimedRow, OneRow, Zenon
<1>2. CASE ~Claimable(p, j)
  BY <1>2, SameRows, Zenon DEF ClaimRow
<1>. QED  BY <1>1, <1>2

LEMMA SetCancelledKept ==
  ASSUME TypeOK, NEW p \in Pid, NEW j \in Job, NEW b \in BOOLEAN, SetCancelled(p, j, b)
  PROVE  \A i \in Job : RowKept(i)
<1>1. CASE Claimable(p, j)
  <2>1. \A s \in Row, c \in BOOLEAN : /\ [s EXCEPT !.cancelled = c].retryCount = s.retryCount
                                      /\ [s EXCEPT !.cancelled = c].by = s.by
    BY SMT DEF Row
  <2>2. row' = [row EXCEPT ![j] = [Claimed(p, row[j]) EXCEPT !.cancelled = b]]
    BY <1>1, Zenon DEF SetCancelled
  <2>3. PICK c \in Row : c = Claimed(p, row[j])
    BY <1>1, ClaimedRow, Zenon
  <2>4. c.retryCount = row[j].retryCount /\ (row[j].fresh => c.by = row[j].by)
    BY <1>1, <2>3, ClaimedRow, Zenon
  <2>5. PICK d : d = [c EXCEPT !.cancelled = b]
    OBVIOUS
  <2>6. d.retryCount = row[j].retryCount /\ (row[j].fresh => d.by = row[j].by)
    BY <2>1, <2>4, <2>5, Zenon
  <2>7. row' = [row EXCEPT ![j] = d] /\ Present(j)
    BY <1>1, <2>2, <2>3, <2>5, Zenon DEF Claimable
  <2>. QED  BY <2>6, <2>7, OneRow, Zenon
<1>2. CASE ~Claimable(p, j)
  BY <1>2, SameRows, Zenon DEF SetCancelled
<1>. QED  BY <1>1, <1>2

LEMMA MarkRowsKept ==
  ASSUME TypeOK, NEW p \in Pid, NEW C \in SUBSET Job, \A j \in C : Present(j), MarkRows(p, C)
  PROVE  \A i \in Job : RowKept(i)
<1>. SUFFICES ASSUME NEW i \in Job PROVE RowKept(i)
  OBVIOUS
<1>1. CASE i \in Marked(C)
  <2>1. Claimable(p, i) /\ row'[i] = Claimed(p, row[i])
    BY <1>1, Zenon DEF Marked, MarkRows, Claimable
  <2>. QED  BY <2>1, ClaimedRow, Zenon DEF RowKept
<1>2. CASE i \notin Marked(C)
  BY <1>2, Zenon DEF MarkRows, RowKept, Present
<1>. QED  BY <1>1, <1>2

LEMMA CountRunKept ==
  ASSUME TypeOK, NEW j \in Job, CountRun(j)
  PROVE  \A i \in Job : RowKept(i)
<1>1. CASE Present(j) /\ row[j].ran < RunCap
  <2>1. row' = [row EXCEPT ![j] = [row[j] EXCEPT !.ran = row[j].ran + 1]]
    BY <1>1, Zenon DEF CountRun
  <2>2. row[j] \in Row
    BY <1>1, SMT DEF TypeOK, Present
  <2>3. \A s \in Row, n \in Nat :
          /\ [s EXCEPT !.ran = n].retryCount = s.retryCount
          /\ [s EXCEPT !.ran = n].by = s.by
    BY SMT DEF Row
  <2>4. row[j].ran + 1 \in Nat
    BY <2>2, SMT DEF Row
  <2>. QED  BY <1>1, <2>1, <2>2, <2>3, <2>4, OneRow, Zenon
<1>2. CASE ~(Present(j) /\ row[j].ran < RunCap)
  BY <1>2, SameRows, Zenon DEF CountRun
<1>. QED  BY <1>1, <1>2

\* A count of retries on its way to the table was read by this closure before.
SeenKept(t) ==
  task'[t].st = "update" => task[t].st = "update" /\ task'[t].seen = task[t].seen

Kept == (\A j \in Job : RowKept(j)) /\ (\A t \in Task : SeenKept(t))

LEMMA OneSeen ==
  ASSUME TypeOK, NEW t \in Task, NEW c, task' = [task EXCEPT ![t] = c], c.st # "update"
  PROVE  \A u \in Task : SeenKept(u)
<1>1. \A u \in Task : task'[u] = IF u = t THEN c ELSE task[u]
  BY SMT DEF TypeOK
<1>. QED  BY <1>1, Zenon DEF SeenKept

LEMMA SameSeen ==
  ASSUME task' = task  PROVE \A u \in Task : SeenKept(u)
BY Zenon DEF SeenKept

LEMMA NewSeen == \A p, j, b : NewTask(p, j, b).st # "update"
BY DEF NewTask

LEMMA MoveSeen ==
  ASSUME TypeOK, NEW t \in Task, NEW st \in States \ {"update"}, MoveTo(t, st)
  PROVE  \A u \in Task : SeenKept(u)
<1>1. [task[t] EXCEPT !.st = st].st # "update"
  BY SMT DEF TypeOK, Closure
<1>2. task' = [task EXCEPT ![t] = [task[t] EXCEPT !.st = st]]
  BY Zenon DEF MoveTo
<1>. QED  BY <1>1, <1>2, OneSeen, Zenon

LEMMA ForgetSeen ==
  ASSUME TypeOK, NEW t \in Task, Forget(t)
  PROVE  \A u \in Task : SeenKept(u)
<1>1. IdleTask.st # "update"
  BY DEF IdleTask
<1>. QED  BY <1>1, OneSeen, Zenon DEF Forget

LEMMA EnqueueSeen ==
  ASSUME TypeOK, NEW t \in Task, NEW c \in Closure, NEW line, Enqueue(t, c, line)
  PROVE  \A u \in Task : SeenKept(u)
<1>1. [c EXCEPT !.st = "check"].st # "update" /\ [c EXCEPT !.st = "wait"].st # "update"
  BY SMT DEF Closure
<1>2. task' = [task EXCEPT ![t] = [c EXCEPT !.st = "check"]]
      \/ task' = [task EXCEPT ![t] = [c EXCEPT !.st = "wait"]]
  BY Zenon DEF Enqueue
<1>. QED  BY <1>1, <1>2, OneSeen, Zenon

LEMMA ReleaseSeen ==
  ASSUME TypeOK, NEW t \in Task, task[t].pid \in Pid, NEW next \in {"clear", "claim"},
         Release(t, next)
  PROVE  \A u \in Task : SeenKept(u)
<1>1. task \in [Task -> Closure] /\ fifo \in [Pid -> Seq(Task)]
  BY DEF TypeOK
<1>2. CASE fifo[task[t].pid] = <<>>
  BY <1>2, MoveSeen, Zenon DEF Release, MoveTo, States
<1>3. CASE fifo[task[t].pid] # <<>>
  <2>1. Head(fifo[task[t].pid]) \in Task
    BY <1>1, <1>3, HeadTailProperties, Zenon
  <2>2. PICK h \in Task : h = Head(fifo[task[t].pid])
    BY <2>1, Zenon
  <2>3. PICK b \in Closure : b = [task[t] EXCEPT !.st = next] /\ b.st = next
    <3>1. task[t] \in Closure /\ next \in States
      BY <1>1 DEF States
    <3>2. [task[t] EXCEPT !.st = next] \in Closure
      BY <3>1, ClosureMoves, Zenon
    <3>3. [task[t] EXCEPT !.st = next].st = next
      BY <3>1, SMT DEF Closure
    <3>. QED  BY <3>2, <3>3, Zenon
  <2>4. PICK moved \in [Task -> Closure] : moved = [task EXCEPT ![t] = b]
    BY <1>1
  <2>5. PICK c : c = [moved[h] EXCEPT !.st = "check"] /\ c.st = "check"
    <3>1. moved[h] \in Closure
      BY <2>4, Zenon
    <3>2. [moved[h] EXCEPT !.st = "check"].st = "check"
      BY <3>1, SMT DEF Closure
    <3>. QED  BY <3>2, Zenon
  <2>6. task' = [moved EXCEPT ![h] = c]
    <3>1. task' = [task EXCEPT ![t].st = next, ![h].st = "check"]
      BY <1>3, <2>2, Zenon DEF Release
    <3>2. moved = [task EXCEPT ![t].st = next]
      BY <2>3, <2>4, Zenon
    <3>3. task' = [moved EXCEPT ![h] = [moved[h] EXCEPT !.st = "check"]]
      BY <3>1, <3>2, Zenon
    <3>. QED  BY <2>5, <3>3, Zenon
  <2>7. \A u \in Task : task'[u] = IF u = h THEN c ELSE IF u = t THEN b ELSE task[u]
    BY <1>1, <2>4, <2>6, SMT
  <2>8. c.st # "update" /\ b.st # "update"
    BY <2>3, <2>5
  <2>. QED  BY <2>7, <2>8, Zenon DEF SeenKept
<1>. QED  BY <1>2, <1>3

LEMMA ProcessKept ==
  ASSUME Inv, NEW p \in Pid, ProcessStep(p)
  PROVE  Kept
<1>. USE DEF Inv
<1>1. CASE Start(p) \/ PopulateFails(p)
  BY <1>1, SameRows, SameSeen DEF Start, PopulateFails, Kept
<1>2. CASE Populate(p)
  <2>. DEFINE C == {j \in Job : Present(j) /\ row[j].delay = "none"}
  <2>1. C \in SUBSET Job /\ (\A j \in C : Present(j)) /\ MarkRows(p, C)
    BY <1>2, Zenon DEF Populate
  <2>. HIDE DEF C
  <2>2. PICK got : task' = [t \in Task |-> IF got[t] = NoJob THEN task[t] ELSE NewTask(p, got[t], FALSE)]
    BY <1>2, Zenon DEF Populate
  <2>3. \A t \in Task : task'[t] = task[t] \/ task'[t].st # "update"
    BY <2>2, NewSeen, Zenon
  <2>. QED  BY <2>1, <2>3, MarkRowsKept, Zenon DEF Kept, SeenKept
<1>3. CASE Crash(p)
  <2>1. IdleTask.st # "update"
    BY DEF IdleTask
  <2>2. row' = row /\ task' = [t \in Task |-> IF task[t].pid = p THEN IdleTask ELSE task[t]]
    BY <1>3 DEF Crash
  <2>3. \A t \in Task : task'[t] = task[t] \/ task'[t].st # "update"
    BY <2>1, <2>2, Zenon
  <2>. QED  BY <2>2, <2>3, SameRows, Zenon DEF Kept, SeenKept
<1>. QED  BY <1>1, <1>2, <1>3 DEF ProcessStep

LEMMA PushKept ==
  ASSUME Inv, NEW p \in Pid, PushStep(p)
  PROVE  Kept
<1>. USE DEF Inv
<1>. PICK j \in Job :
       PushDelayed(p, j) \/ \E t \in Task : Push(p, t, j) \/ PushVolatile(p, t, j)
  BY Zenon DEF PushStep
<1>1. \A d : NewRow(d).retryCount = 1
  BY DEF NewRow
<1>2. CASE PushDelayed(p, j)
  BY <1>1, <1>2, OneRow, SameSeen, Zenon DEF PushDelayed, Kept
<1>3. ASSUME NEW t \in Task, Push(p, t, j)  PROVE Kept
  BY <1>1, <1>3, OneRow, NewSeen, OneSeen, Zenon DEF Push, Kept
<1>4. ASSUME NEW t \in Task, PushVolatile(p, t, j)  PROVE Kept
  BY <1>4, SameRows, NewSeen, OneSeen, Zenon DEF PushVolatile, Kept
<1>. QED  BY <1>2, <1>3, <1>4

LEMMA WorkerKept ==
  ASSUME Inv, NEW t \in Task, WorkerStep(t)
  PROVE  Kept
<1>. USE DEF Inv
<1>1. task[t] \in Closure
  BY DEF TypeOK
<1>2. task[t].pid \in Pid /\ task[t].job \in Job
  BY DEF Shape, TaskOwned, Active, WorkerStep, QueueJob, CheckCancelled, CheckFails, Begin,
         Succeed, Fail, TimeOut
<1>3. CASE QueueJob(t)
  <2>1. row' = row /\ Enqueue(t, task[t], Append(fifo[task[t].pid], t))
    BY <1>3 DEF QueueJob
  <2>. QED  BY <1>1, <2>1, SameRows, EnqueueSeen, Zenon DEF Kept
<1>4. CASE \E next \in {"clear", "claim"} : Release(t, next) /\ row' = row
  BY <1>2, <1>4, SameRows, ReleaseSeen, Zenon DEF Kept
<1>5. CASE CheckCancelled(t) \/ CheckFails(t) \/ Succeed(t) \/ Fail(t) \/ TimeOut(t)
  BY <1>4, <1>5 DEF CheckCancelled, CheckFails, Succeed, Fail, TimeOut
<1>6. CASE Begin(t)
  BY <1>2, <1>6, CountRunKept, MoveSeen DEF Begin, Kept, States
<1>. QED  BY <1>3, <1>5, <1>6 DEF WorkerStep

LEMMA ApiKept ==
  ASSUME Inv, NEW p \in Pid, ApiStep(p)
  PROVE  Kept
<1>. USE DEF Inv, GetJob, ApiCall, DeleteGet, ApiUpdate, ApiRemove, ApiFails
<1>1. task' = task
  BY Zenon DEF ApiStep
<1>2. SUFFICES \A j \in Job : RowKept(j)
  BY <1>1, SameSeen DEF Kept
<1>3. ASSUME NEW j \in Job, GetJob(p, j) \/ \E op \in {"cancel", "restore", "delete"} : ApiCall(p, op, j)
      PROVE  \A i \in Job : RowKept(i)
  BY <1>3, ClaimRowKept
<1>4. CASE DeleteGet(p)
  BY <1>4, ClaimRowKept DEF Named
<1>5. CASE ApiUpdate(p)
  <2>1. api[p].job \in Job /\ (api[p].op # "restore") \in BOOLEAN
    BY <1>5 DEF Named
  <2>. QED  BY <1>5, <2>1, SetCancelledKept, Zenon
<1>6. CASE ApiRemove(p)
  <2>1. api[p].job \in Job
    BY <1>6 DEF Named
  <2>. QED  BY <1>6, <2>1, OneRow
<1>7. CASE ApiFails(p)
  BY <1>7, SameRows
<1>. QED  BY <1>3, <1>4, <1>5, <1>6, <1>7, Zenon DEF ApiStep

LEMMA LoopKept ==
  ASSUME Inv, NEW p \in Pid, LoopStep(p)
  PROVE  Kept
<1>. USE DEF Inv, Scan, LoopCancel, LoopUpdate, LoopPush, LoopFails
<1>1. CASE Scan(p)
  <2>. DEFINE C == {j \in Job : Present(j) /\ row[j].delay = "due" /\ ~row[j].cancelled}
  <2>1. C \in SUBSET Job /\ (\A j \in C : Present(j)) /\ MarkRows(p, C) /\ task' = task
    BY <1>1, Zenon
  <2>. HIDE DEF C
  <2>. QED  BY <2>1, MarkRowsKept, SameSeen, Zenon DEF Kept
<1>2. ASSUME NEW j \in Job, LoopCancel(p, j)  PROVE Kept
  BY <1>2, ClaimRowKept, SameSeen DEF Kept
<1>3. CASE LoopUpdate(p)
  <2>1. loop[p].job \in Job /\ task' = task /\ SetCancelled(p, loop[p].job, TRUE)
    BY <1>3 DEF Named
  <2>. QED  BY <2>1, SetCancelledKept, SameSeen DEF Kept
<1>4. ASSUME NEW t \in Task, LoopPush(p, t)  PROVE Kept
  BY <1>4, SameRows, NewSeen, OneSeen, Zenon DEF Kept
<1>5. CASE LoopFails(p)
  BY <1>5, SameRows, SameSeen DEF Kept
<1>. QED  BY <1>1, <1>2, <1>3, <1>4, <1>5, Zenon DEF LoopStep

LEMMA TimeKept ==
  ASSUME Inv, TimeStep
  PROVE  Kept
<1>. USE DEF Inv
<1>1. task' = task
  BY Zenon DEF TimeStep, FallDue, Expire, LateEnd
<1>2. SUFFICES \A j \in Job : RowKept(j)
  BY <1>1, SameSeen DEF Kept
<1>3. /\ \A r \in Row : \A d : /\ [r EXCEPT !.delay = d].retryCount = r.retryCount
                                /\ [r EXCEPT !.delay = d].by = r.by
      /\ \A r \in Row : \A b : /\ [r EXCEPT !.fresh = b].retryCount = r.retryCount
                                /\ [r EXCEPT !.fresh = b].by = r.by
  BY SMT DEF Row
<1>4. ASSUME NEW j \in Job, FallDue(j)  PROVE \A i \in Job : RowKept(i)
  <2>1. row[j] \in Row /\ row' = [row EXCEPT ![j] = [row[j] EXCEPT !.delay = "due"]]
    BY <1>4, SMT DEF FallDue, TypeOK, Present
  <2>. QED  BY <1>3, <1>4, <2>1, OneRow, Zenon DEF FallDue
<1>5. ASSUME NEW j \in Job, Expire(j)  PROVE \A i \in Job : RowKept(i)
  <2>1. row[j] \in Row
    BY <1>5, SMT DEF Expire, TypeOK, Present
  <2>2. row' = [row EXCEPT ![j] = [row[j] EXCEPT !.fresh = FALSE]]
    BY <1>5, Zenon DEF Expire
  <2>. QED  BY <1>3, <1>5, <2>1, <2>2, OneRow, Zenon DEF Expire
<1>6. ASSUME NEW p \in Pid, NEW j \in Job, LateEnd(p, j)  PROVE \A i \in Job : RowKept(i)
  BY <1>6, SameRows DEF LateEnd
<1>. QED  BY <1>4, <1>5, <1>6, Zenon DEF TimeStep

LEMMA CompleteKept ==
  ASSUME Inv, NEW t \in Task, CompleteStep(t), ~PlanRetry(t), ~SaveRetry(t)
  PROVE  Kept
<1>. USE DEF Inv
<1>1. task[t] \in Closure
  BY DEF TypeOK
<1>2. Active(t)
  BY Zenon DEF Active, CompleteStep, Clear, ClearFails, Disown, GiveUp, PlanRetry, SaveRetry,
               SaveRetryRefused, CompleteFails, Retry
<1>3. task[t].pid \in Pid /\ task[t].job \in Job
  BY <1>2 DEF Shape, TaskOwned
<1>4. CASE Clear(t)
  BY <1>3, <1>4, OneRow, ForgetSeen DEF Clear, Kept
<1>5. CASE ClearFails(t) \/ Disown(t)
  BY <1>5, SameRows, ForgetSeen DEF ClearFails, Disown, Kept
<1>6. CASE GiveUp(t)
  BY <1>3, <1>6, ClaimRowKept, MoveSeen DEF GiveUp, Kept, States
<1>7. CASE SaveRetryRefused(t) \/ CompleteFails(t)
  BY <1>7, SameRows, MoveSeen DEF SaveRetryRefused, CompleteFails, Kept, States
<1>8. CASE Retry(t)
  <2>1. PICK c \in Closure : c = [task[t] EXCEPT !.persist = FALSE]
    <3>1. \A d \in Closure, b \in BOOLEAN : [d EXCEPT !.persist = b] \in Closure
      BY SMT DEF Closure
    <3>. QED  BY <1>1, <3>1, Zenon
  <2>2. Enqueue(t, c, <<t>> \o fifo[task[t].pid]) /\ row' = row
    BY <1>8, <2>1, Zenon DEF Retry
  <2>. QED  BY <2>2, SameRows, EnqueueSeen, Zenon DEF Kept
<1>. QED  BY <1>4, <1>5, <1>6, <1>7, <1>8, Zenon DEF CompleteStep

\* The count that PlanRetry read is below the bound.
LEMMA PlanRetrySeen ==
  ASSUME Inv, NEW t \in Task, PlanRetry(t)
  PROVE  /\ \A j \in Job : RowKept(j)
         /\ \A u \in Task : SeenKept(u) \/ (task'[u].st = "update" => task'[u].seen < MaxRetries)
<1>. USE DEF Inv
<1>1. task \in [Task -> Closure] /\ task[t].pid \in Pid /\ task[t].job \in Job
  BY DEF TypeOK, Shape, TaskOwned, Active, PlanRetry
<1>2. \A j \in Job : RowKept(j)
  BY <1>1, ClaimRowKept DEF PlanRetry
<1>3. PICK n \in Nat : n = row[task[t].job].retryCount /\ n < MaxRetries
  BY <1>1, ClaimedFields, Zenon DEF PlanRetry, TypeOK
<1>4. PICK b \in Closure : b = [task[t] EXCEPT !.st = "update"]
  <2>1. task[t] \in Closure /\ "update" \in States
    BY <1>1 DEF States
  <2>. QED  BY <2>1, ClosureMoves, Zenon
<1>5. PICK c : c = [b EXCEPT !.seen = n] /\ c.seen = n
  <2>1. [b EXCEPT !.seen = n].seen = n
    BY SMT DEF Closure
  <2>. QED  BY <2>1, Zenon
<1>6. task' = [task EXCEPT ![t] = c]
  BY <1>1, <1>3, <1>4, <1>5, Zenon DEF PlanRetry
<1>7. \A u \in Task : task'[u] = IF u = t THEN c ELSE task[u]
  BY <1>1, <1>6, SMT
<1>. QED  BY <1>2, <1>3, <1>5, <1>7, Zenon DEF SeenKept

\* The only count that is written: one more than the count read.
LEMMA SaveRetryWrites ==
  ASSUME Inv, NEW t \in Task, SaveRetry(t)
  PROVE  LET j == task[t].job IN
         /\ j \in Job /\ task[t].seen \in Nat
         /\ \A i \in Job \ {j} : RowKept(i)
         /\ row'[j].retryCount = task[t].seen + 1
         /\ row[j].fresh => row'[j].by = row[j].by
         /\ \A u \in Task : SeenKept(u)
<1>. USE DEF Inv
<1>1. task \in [Task -> Closure] /\ task[t].pid \in Pid /\ task[t].seen \in Nat
  BY SMT DEF TypeOK, Shape, TaskOwned, Active, SaveRetry, Closure
<1>2. PICK j \in Job : j = task[t].job
  BY DEF Shape, TaskOwned, Active, SaveRetry
<1>3. PICK p \in Pid : p = task[t].pid
  BY <1>1
<1>4. PICK s \in Row : s = Claimed(p, row[j]) /\ (row[j].fresh => s.by = row[j].by)
  BY <1>2, <1>3, ClaimedRow, Zenon DEF SaveRetry
<1>5. PICK r : /\ r = [s EXCEPT !.retryCount = task[t].seen + 1]
               /\ r.retryCount = task[t].seen + 1 /\ r.by = s.by
  <2>1. \A n \in Nat : [s EXCEPT !.retryCount = n].retryCount = n
                       /\ [s EXCEPT !.retryCount = n].by = s.by
    BY SMT DEF Row
  <2>2. task[t].seen + 1 \in Nat
    BY <1>1
  <2>. QED  BY <2>1, <2>2, Zenon
<1>6. row' = [row EXCEPT ![j] = r]
  BY <1>2, <1>3, <1>4, <1>5, Zenon DEF SaveRetry
<1>7. \A i \in Job : row'[i] = IF i = j THEN r ELSE row[i]
  BY <1>6, SMT DEF TypeOK
<1>8. \A i \in Job \ {j} : RowKept(i)
  BY <1>7, Zenon DEF RowKept, Present
<1>9. \A u \in Task : SeenKept(u)
  <2>1. PICK b \in Closure : b = [task[t] EXCEPT !.st = "backoff"] /\ b.st = "backoff"
    <3>1. task[t] \in Closure /\ "backoff" \in States
      BY <1>1 DEF States
    <3>2. [task[t] EXCEPT !.st = "backoff"] \in Closure
      BY <3>1, ClosureMoves, Zenon
    <3>3. [task[t] EXCEPT !.st = "backoff"].st = "backoff"
      BY <3>1, SMT DEF Closure
    <3>. QED  BY <3>2, <3>3, Zenon
  <2>2. PICK c : c = [b EXCEPT !.seen = 0] /\ c.st # "update"
    <3>1. [b EXCEPT !.seen = 0].st # "update"
      BY <2>1, SMT DEF Closure
    <3>. QED  BY <3>1, Zenon
  <2>3. task' = [task EXCEPT ![t] = c]
    BY <2>1, <2>2, Zenon DEF SaveRetry
  <2>. QED  BY <2>2, <2>3, OneSeen, Zenon
<1>. QED  BY <1>1, <1>2, <1>4, <1>5, <1>7, <1>8, <1>9, Zenon
-----------------------------------------------------------------------------
(* The bound on retries, and the claims *)

\* RetryBounded is inductive once the counts that closures carry from their
\* read to their write are bounded too.
Counted ==
  /\ RetryBounded
  /\ \A t \in Task : task[t].st = "update" => task[t].seen < MaxRetries

LEMMA KeptCounted ==
  ASSUME Inv, Counted, \A j \in Job : RowKept(j),
         \A u \in Task : SeenKept(u) \/ (task'[u].st = "update" => task'[u].seen < MaxRetries)
  PROVE  Counted'
<1>1. 1 <= Bound
  BY QueueAssumption, SMT DEF Bound
<1>2. ASSUME NEW j \in Job, Present(j)'  PROVE row'[j].retryCount <= Bound
  BY <1>1, <1>2, Zenon DEF Counted, RetryBounded, RowKept, Present, Bound
<1>3. ASSUME NEW t \in Task, task'[t].st = "update"  PROVE task'[t].seen < MaxRetries
  BY <1>3, Zenon DEF Counted, SeenKept
<1>. QED  BY <1>2, <1>3, Zenon DEF Counted, RetryBounded, Bound

LEMMA NextCounted == Inv /\ Counted /\ [Next]_vars => Counted'
<1>. SUFFICES ASSUME Inv, Counted, [Next]_vars PROVE Counted'
  OBVIOUS
<1>1. CASE Kept
  BY <1>1, KeptCounted, Zenon DEF Kept
<1>2. ASSUME NEW t \in Task, PlanRetry(t)  PROVE Counted'
  BY <1>2, PlanRetrySeen, KeptCounted, Zenon
<1>3. ASSUME NEW t \in Task, SaveRetry(t)  PROVE Counted'
  <2>1. task[t].seen < MaxRetries /\ task[t].seen \in Nat
    BY <1>3, SaveRetryWrites, Zenon DEF Counted, SaveRetry
  <2>2. task[t].seen + 1 <= Bound /\ 1 <= Bound
    BY <2>1, QueueAssumption, SMT DEF Bound
  <2>3. ASSUME NEW i \in Job, Present(i)'  PROVE row'[i].retryCount <= Bound
    <3>1. CASE i = task[t].job
      BY <1>3, <2>2, <3>1, SaveRetryWrites, Zenon
    <3>2. CASE i # task[t].job
      <4>1. RowKept(i)
        BY <1>3, <3>2, SaveRetryWrites, Zenon
      <4>. QED  BY <2>2, <2>3, <4>1, Zenon DEF Counted, RetryBounded, RowKept, Present, Bound
    <3>. QED  BY <3>1, <3>2
  <2>4. ASSUME NEW u \in Task, task'[u].st = "update"  PROVE task'[u].seen < MaxRetries
    BY <1>3, <2>4, SaveRetryWrites, Zenon DEF Counted, SeenKept
  <2>. QED  BY <2>3, <2>4, Zenon DEF Counted, RetryBounded, Bound
<1>4. CASE UNCHANGED vars
  <2>1. Kept
    BY <1>4, SameRows, SameSeen DEF vars, Kept
  <2>. QED  BY <1>1, <2>1
<1>5. CASE Next
  BY <1>1, <1>2, <1>3, <1>5, ProcessKept, PushKept, WorkerKept, CompleteKept, ApiKept,
     LoopKept, TimeKept, Zenon DEF Next
<1>. QED  BY <1>4, <1>5

\* However the reads and the writes of retryCount of several processes
\* interleave, the count of a row never passes maxRetries.
THEOREM RetriesCorrect == Spec => []RetryBounded
<1>1. Init => Counted
  <2>. SUFFICES ASSUME Init PROVE Counted
    OBVIOUS
  <2>1. \A j \in Job : ~Present(j)
    BY SMT DEF Init, Present
  <2>2. \A t \in Task : task[t].st # "update"
    BY SMT DEF Init, IdleTask
  <2>. QED  BY <2>1, <2>2, Zenon DEF Counted, RetryBounded
<1>2. Counted => RetryBounded
  BY DEF Counted
<1>. QED  BY <1>1, <1>2, Invariance, NextCounted, PTL DEF Spec

\* Within the 60 s of a claim no other process takes the row over, whatever the
\* processes do: only its deletion ends the claim early.
THEOREM ClaimsCorrect == Spec => ClaimRespected
<1>. DEFINE Respects ==
       \A j \in Job : Present(j) /\ row[j].fresh /\ row'[j] # NoRow => row'[j].by = row[j].by
<1>1. (\A j \in Job : RowKept(j)) => Respects
  BY Zenon DEF RowKept
<1>2. Inv /\ [Next]_vars => [Respects]_vars
  <2>. SUFFICES ASSUME Inv, Next PROVE Respects
    OBVIOUS
  <2>1. CASE Kept
    BY <1>1, <2>1 DEF Kept
  <2>2. ASSUME NEW t \in Task, PlanRetry(t)  PROVE Respects
    BY <1>1, <2>2, PlanRetrySeen
  <2>3. ASSUME NEW t \in Task, SaveRetry(t)  PROVE Respects
    <3>. SUFFICES ASSUME NEW j \in Job, Present(j), row[j].fresh, row'[j] # NoRow
                  PROVE  row'[j].by = row[j].by
      OBVIOUS
    <3>1. CASE j = task[t].job
      BY <2>3, <3>1, SaveRetryWrites, Zenon
    <3>2. CASE j # task[t].job
      BY <2>3, <3>2, SaveRetryWrites, Zenon DEF RowKept
    <3>. QED  BY <3>1, <3>2
  <2>. QED  BY <2>1, <2>2, <2>3, ProcessKept, PushKept, WorkerKept, CompleteKept, ApiKept,
               LoopKept, TimeKept, Zenon DEF Next
<1>. QED  BY <1>2, Invariance, PTL DEF Spec, ClaimRespected
=============================================================================
