------------------------------- MODULE DBLock -------------------------------
(***************************************************************************)
(* One lock of core/db-cache (LockDBCache over the Redis or the SQLite     *)
(* adapter) and the processes that take it: createLock, waitUnLock,        *)
(* acquire, hasExpired and releaseLock, with what their callers do around  *)
(* them.                                                                   *)
(*                                                                         *)
(* A step is one command of the store together with the code that runs     *)
(* when its answer arrives.  Time is abstract: a lease, an in-flight mark  *)
(* or a wait may run out at any moment the environment allows.             *)
(***************************************************************************)
EXTENDS Naturals, FiniteSets

CONSTANTS
  Proc,          \* processes; each has its own map of creations in flight
  Caller,        \* concurrent uses of the lock
  Home,          \* the process each caller runs in
  Guarded,       \* the callers that ask hasExpired first and skip a taken lock
  Free, Orphan,  \* no entry; an entry whose creator gave it up
  Adapter,       \* the store behind DBCache
  Env,           \* what the environment may do
  Sweeps         \* bound: late deletions a caller's polls may have pending

ASSUME LockAssumption ==
  /\ Home \in [Caller -> Proc]
  /\ Guarded \subseteq Caller
  /\ Free \notin Caller /\ Orphan \notin Caller /\ Free # Orphan
  /\ Adapter \in {"redis", "sqlite"}
  /\ Env \subseteq {"crash", "storeFail", "resend", "slow", "leak", "overrun"}
  /\ Sweeps \in Nat

VARIABLES
  owner,    \* who created the entry of the lock in the store
  stale,    \* the entry is past its expiresAt but still in the table (SQLite)
  flight,   \* the in-flight mark of each process
  pc,       \* where each caller is
  lease,    \* whether a caller's ttl has run out since it got the lock
  sweep     \* DELETEs that a caller's polls issued and that have not run yet

vars == <<owner, stale, flight, pc, lease, sweep>>
-----------------------------------------------------------------------------
Steps == {"idle", "guard", "purge", "try", "set", "ghost", "select", "write",
          "wait", "held", "release"}

TypeOK ==
  /\ owner \in Caller \cup {Free, Orphan}
  /\ stale \in BOOLEAN
  /\ flight \in [Proc -> {"none", "fresh", "old"}]
  /\ pc \in [Caller -> Steps]
  /\ lease \in [Caller -> {"none", "live", "lapsed"}]
  /\ sweep \in [Caller -> 0 .. Sweeps]

Holding(c) == pc[c] \in {"held", "release"}

Init ==
  /\ owner = Free /\ stale = FALSE
  /\ flight = [p \in Proc |-> "none"]
  /\ pc = [c \in Caller |-> "idle"]
  /\ lease = [c \in Caller |-> "none"]
  /\ sweep = [c \in Caller |-> 0]

Goto(c, step) == pc' = [pc EXCEPT ![c] = step]

\* del of the adapter: the entry of the key, whoever created it.
Delete == owner' = Free /\ stale' = FALSE

\* What c had in the store is nobody's from now on, and waits for its expiry.
GiveUpEntry(c) == owner' = IF owner = c THEN Orphan ELSE owner

\* createLock's finally.
Unmark(c) == flight' = [flight EXCEPT ![Home[c]] = "none"]
-----------------------------------------------------------------------------
(* Before the lock: callers that skip the work when the lock is taken. *)
Call(c) ==
  /\ pc[c] = "idle"
  /\ Goto(c, IF c \in Guarded THEN "guard" ELSE "try")
  /\ UNCHANGED <<owner, stale, flight, lease, sweep>>

\* hasExpired: an existing entry ends the call.
GuardTaken(c) ==
  /\ pc[c] = "guard"
  /\ owner # Free /\ ~stale
  /\ Goto(c, "idle")
  /\ UNCHANGED <<owner, stale, flight, lease, sweep>>

\* An expired row is deleted first, by a statement of its own.
GuardOpen(c) ==
  /\ pc[c] = "guard"
  /\ owner = Free \/ stale
  /\ Goto(c, IF stale THEN "purge" ELSE "try")
  /\ UNCHANGED <<owner, stale, flight, lease, sweep>>

Purge(c) ==
  /\ pc[c] = "purge"
  /\ Delete
  /\ Goto(c, "try")
  /\ UNCHANGED <<flight, lease, sweep>>
-----------------------------------------------------------------------------
(* createLock *)
Refused(c) ==
  /\ pc[c] = "try"
  /\ flight[Home[c]] = "fresh"
  /\ Goto(c, "wait")
  /\ UNCHANGED <<owner, stale, flight, lease, sweep>>

Begin(c) ==
  /\ pc[c] = "try"
  /\ flight[Home[c]] # "fresh"
  /\ flight' = [flight EXCEPT ![Home[c]] = "fresh"]
  /\ Goto(c, IF Adapter = "redis" THEN "set" ELSE "select")
  /\ UNCHANGED <<owner, stale, lease, sweep>>

\* The set is on its way for longer than the ttl.
Age(p) ==
  /\ "slow" \in Env
  /\ flight[p] = "fresh"
  /\ flight' = [flight EXCEPT ![p] = "old"]
  /\ UNCHANGED <<owner, stale, pc, lease, sweep>>

\* (fault) the entry is written whether or not there is one
SetNX_Overwrites(c) ==
  /\ pc[c] = "set"
  /\ owner' = c /\ stale' = FALSE
  /\ lease' = [lease EXCEPT ![c] = "live"]
  /\ Goto(c, "held") /\ Unmark(c)
  /\ UNCHANGED sweep

SetNX(c) ==
  /\ pc[c] = "set" /\ owner = Free
  /\ owner' = c /\ stale' = FALSE
  /\ lease' = [lease EXCEPT ![c] = "live"]
  /\ Goto(c, "held") /\ Unmark(c)
  /\ UNCHANGED sweep

\* SET NX took effect, its answer is lost and the client sends it again.
SetLost(c) ==
  /\ "resend" \in Env
  /\ pc[c] = "set" /\ owner = Free
  /\ owner' = c
  /\ UNCHANGED <<stale, flight, pc, lease, sweep>>

SetRefused(c) ==
  /\ pc[c] = "set" /\ owner # Free
  /\ Goto(c, "ghost")
  /\ UNCHANGED <<owner, stale, flight, lease, sweep>>

\* "ghost success": the value found is the one this call wrote.
Ghost(c) ==
  /\ pc[c] = "ghost" /\ owner = c
  /\ lease' = [lease EXCEPT ![c] = "live"]
  /\ Goto(c, "held") /\ Unmark(c)
  /\ UNCHANGED <<owner, stale, sweep>>

\* (fault) any value found is taken for the caller's own
NoGhost_AnyValue(c) ==
  /\ pc[c] = "ghost" /\ owner # c
  /\ lease' = [lease EXCEPT ![c] = "live"]
  /\ Goto(c, "held") /\ Unmark(c)
  /\ UNCHANGED <<owner, stale, sweep>>

NoGhost(c) ==
  /\ pc[c] = "ghost" /\ owner # c
  /\ Goto(c, "wait") /\ Unmark(c)
  /\ UNCHANGED <<owner, stale, lease, sweep>>

\* SQLite: the SELECT of nx sees an expired row like any other.
Select(c) ==
  /\ pc[c] = "select"
  /\ IF owner = Free THEN Goto(c, "write") /\ UNCHANGED flight
                     ELSE Goto(c, "wait") /\ Unmark(c)
  /\ UNCHANGED <<owner, stale, lease, sweep>>

\* The row is inserted or replaced.  Its expiresAt was computed before the
\* SELECT: a slow write may store a row that has expired already.
Upsert(c) ==
  /\ pc[c] = "write"
  /\ \E expired \in IF "slow" \in Env THEN BOOLEAN ELSE {FALSE} :
       /\ stale' = expired
       /\ lease' = [lease EXCEPT ![c] = IF expired THEN "lapsed" ELSE "live"]
  /\ owner' = c
  /\ Goto(c, "held") /\ Unmark(c)
  /\ UNCHANGED sweep

\* (fault) no finally: the mark stays when set throws
SetFails_KeepsMark(c) ==
  /\ "storeFail" \in Env
  /\ pc[c] \in {"set", "ghost", "select", "write"}
  /\ GiveUpEntry(c)
  /\ Goto(c, "idle")
  /\ UNCHANGED <<stale, flight, lease, sweep>>

\* (fault) the rejection is not passed on to the caller
SetFails_Unhandled(c) ==
  /\ "storeFail" \in Env
  /\ pc[c] \in {"set", "ghost", "select", "write"}
  /\ GiveUpEntry(c)
  /\ Goto(c, "rejected") /\ Unmark(c)
  /\ UNCHANGED <<stale, lease, sweep>>

\* The store rejects, and acquire with it.  Redis may have run the command.
SetFails(c) ==
  /\ "storeFail" \in Env
  /\ pc[c] \in {"set", "ghost", "select", "write"}
  /\ \/ GiveUpEntry(c)
     \/ pc[c] = "set" /\ owner = Free /\ owner' = Orphan
  /\ Goto(c, "idle") /\ Unmark(c)
  /\ UNCHANGED <<stale, lease, sweep>>
-----------------------------------------------------------------------------
(* waitUnLock: has() every 100 ms until the entry is gone or the ttl passes. *)
PollFree(c) ==
  /\ pc[c] = "wait"
  /\ owner = Free
  /\ Goto(c, "try")
  /\ UNCHANGED <<owner, stale, flight, lease, sweep>>

\* (fault) has() answers that an expired row is gone and leaves it there
PollStale_Leaves(c) ==
  /\ Adapter = "sqlite"
  /\ pc[c] = "wait"
  /\ stale
  /\ Goto(c, "try")
  /\ UNCHANGED <<owner, stale, flight, lease, sweep>>

\* has() of SQLite found an expired row and deletes the key.  A tick does not
\* wait for the one before it.
PollStale(c) ==
  /\ Adapter = "sqlite"
  /\ pc[c] = "wait"
  /\ stale /\ sweep[c] < Sweeps
  /\ sweep' = [sweep EXCEPT ![c] = @ + 1]
  /\ UNCHANGED <<owner, stale, flight, pc, lease>>

Sweep(c) ==
  /\ sweep[c] > 0
  /\ Delete
  /\ sweep' = [sweep EXCEPT ![c] = @ - 1]
  /\ Goto(c, IF pc[c] = "wait" THEN "try" ELSE pc[c])
  /\ UNCHANGED <<flight, lease>>

\* (fault) who has waited long enough breaks the lock
PollTimeout_Breaks(c) ==
  /\ pc[c] = "wait"
  /\ owner # Free /\ ~stale
  /\ Delete
  /\ Goto(c, "try")
  /\ UNCHANGED <<flight, lease, sweep>>

PollTimeout(c) ==
  /\ pc[c] = "wait"
  /\ owner # Free /\ ~stale
  /\ Goto(c, "try")
  /\ UNCHANGED <<owner, stale, flight, lease, sweep>>
-----------------------------------------------------------------------------
(* The holder. *)
Finish(c) ==
  /\ pc[c] = "held"
  /\ Goto(c, "release")
  /\ UNCHANGED <<owner, stale, flight, lease, sweep>>

Release(c) ==
  /\ pc[c] = "release"
  /\ Delete
  /\ lease' = [lease EXCEPT ![c] = "none"]
  /\ Goto(c, "idle")
  /\ UNCHANGED <<flight, sweep>>

\* The store rejects the DELETE, or the caller throws between acquire and try.
Leak(c) ==
  /\ \/ "storeFail" \in Env /\ pc[c] = "release"
     \/ "leak" \in Env /\ pc[c] = "held"
  /\ GiveUpEntry(c)
  /\ lease' = [lease EXCEPT ![c] = "none"]
  /\ Goto(c, "idle")
  /\ UNCHANGED <<stale, flight, sweep>>
-----------------------------------------------------------------------------
(* Time and the store. *)
\* (fault) the key is stored without a ttl
Expire_Never == FALSE /\ UNCHANGED vars

\* The ttl passes.  A holder is faster than that, unless "overrun".
Expire ==
  /\ owner # Free /\ ~stale
  /\ owner \in Caller /\ Holding(owner) => "overrun" \in Env
  /\ IF Adapter = "redis" THEN Delete ELSE stale' = TRUE /\ UNCHANGED owner
  /\ lease' = [c \in Caller |-> IF c = owner /\ Holding(c) THEN "lapsed" ELSE lease[c]]
  /\ UNCHANGED <<flight, pc, sweep>>

\* cleanup, every 5 minutes.
Cleanup ==
  /\ Adapter = "sqlite" /\ stale
  /\ Delete
  /\ UNCHANGED <<flight, pc, lease, sweep>>

Crash(p) ==
  LET Gone == {c \in Caller : Home[c] = p} IN
  /\ "crash" \in Env
  /\ owner' = IF owner \in Gone THEN Orphan ELSE owner
  /\ flight' = [flight EXCEPT ![p] = "none"]
  /\ pc' = [c \in Caller |-> IF c \in Gone THEN "idle" ELSE pc[c]]
  /\ lease' = [c \in Caller |-> IF c \in Gone THEN "none" ELSE lease[c]]
  /\ sweep' = [c \in Caller |-> IF c \in Gone THEN 0 ELSE sweep[c]]
  /\ UNCHANGED stale
-----------------------------------------------------------------------------
GuardStep(c) == GuardTaken(c) \/ GuardOpen(c) \/ Purge(c)

CreateStep(c) ==
  \/ Refused(c) \/ Begin(c) \/ SetNX(c) \/ SetRefused(c) \/ Ghost(c) \/ NoGhost(c)
  \/ Select(c) \/ Upsert(c)

WaitStep(c) == PollFree(c) \/ PollStale(c) \/ PollTimeout(c)

HolderStep(c) == Finish(c) \/ Release(c) \/ Leak(c)

Next ==
  \/ \E c \in Caller : \/ Call(c) \/ GuardStep(c) \/ CreateStep(c) \/ WaitStep(c)
                       \/ Sweep(c) \/ HolderStep(c) \/ SetLost(c) \/ SetFails(c)
  \/ \E p \in Proc : Age(p) \/ Crash(p)
  \/ Expire \/ Cleanup

Spec == Init /\ [][Next]_vars

\* Answers of the store arrive, intervals tick, holders finish, time passes;
\* nothing makes a caller want the lock.
Fairness ==
  /\ \A c \in Caller : /\ WF_vars(GuardStep(c)) /\ WF_vars(CreateStep(c))
                       /\ WF_vars(WaitStep(c)) /\ WF_vars(Sweep(c))
                       /\ WF_vars(HolderStep(c))
  /\ WF_vars(Expire)

FairSpec == Spec /\ Fairness
-----------------------------------------------------------------------------
(* Properties *)

Inside(c) == pc[c] = "held" /\ lease[c] = "live"

\* No two callers whose lease runs are inside the section at once, whatever
\* process they are in (lock-db-cache.ts:26-31).
LiveExclusion ==
  \A c, d \in Caller : Inside(c) /\ Inside(d) => c = d

\* While a caller is in its section and its lease runs, nobody deletes or
\* replaces its entry: no late poll, no waiter, no other holder's release.
EntryKept ==
  [][\A c \in Caller :
       Inside(c) /\ owner = c => owner' = c \/ pc'[c] # "held" \/ lease'[c] = "lapsed"]_vars

\* Nobody dies and the store neither rejects a set nor loses its answer.
Calm == /\ \A p \in Proc : ~Crash(p)
        /\ \A c \in Caller : ~SetFails(c) /\ ~SetLost(c)

\* A lock that somebody waits for and nobody uses is taken in the end, also
\* when its creator died, leaked it or could not release it - unless the
\* faults go on for ever (lock-db-cache.ts:76-126).
Served ==
  <>[][Calm]_vars =>
    ((\E c \in Caller : pc[c] = "wait") /\ (\A c \in Caller : ~Holding(c))
       ~> (\E c \in Caller : Holding(c)) \/ (\A c \in Caller : pc[c] = "idle"))

Creating(c) == pc[c] \in {"set", "ghost", "select", "write"}

\* An in-flight mark never outlives the createLock that set it, however calls
\* fail, overtake each other or die: a mark left behind would refuse every
\* other caller of its process for a ttl (lock-db-cache.ts:24-41).
MarkAnswered ==
  \A p \in Proc : flight[p] # "none" => \E c \in Caller : Home[c] = p /\ Creating(c)

M == INSTANCE Mutex WITH holders <- {c \in Caller : Holding(c)}

\* The lock over Redis implements the abstract mutex (with leases long enough).
MutexSpec == M!Spec
=============================================================================
