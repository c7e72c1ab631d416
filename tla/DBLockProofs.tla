---------------------------- MODULE DBLockProofs ----------------------------
(*************************************************************************)
(* Proofs about DBLock, for any callers, processes and kinds of fault:   *)
(* its types, and that no in-flight mark is left behind; over Redis, with*)
(* leases that last, exclusion and the refinement of Mutex; over SQLite, *)
(* exclusion in one process.                                             *)
(*************************************************************************)
EXTENDS DBLock, TLAPS

CallerStep(c) ==
  \/ Call(c) \/ GuardStep(c) \/ CreateStep(c) \/ WaitStep(c)
  \/ Sweep(c) \/ HolderStep(c) \/ SetLost(c) \/ SetFails(c)

OtherStep ==
  \/ \E p \in Proc : Age(p) \/ Crash(p)
  \/ Expire \/ Cleanup

LEMMA NextCases ==
  ASSUME Next
  PROVE  (\E c \in Caller : CallerStep(c)) \/ OtherStep
BY Zenon DEF Next, CallerStep, OtherStep
-----------------------------------------------------------------------------
(* Types *)

LEMMA CallerTyped ==
  ASSUME TypeOK, NEW c \in Caller, CallerStep(c)
  PROVE  TypeOK'
<1>. USE LockAssumption DEF TypeOK, Steps, Goto, Unmark, Delete, GiveUpEntry
<1>1. CASE Call(c) \/ GuardStep(c)
  BY <1>1 DEF Call, GuardStep, GuardTaken, GuardOpen, Purge
<1>2. CASE Refused(c)
  BY <1>2 DEF Refused
<1>11. CASE SetNX(c)
  <2>1. pc' \in [Caller -> Steps] /\ lease' \in [Caller -> {"none", "live", "lapsed"}]
    BY <1>11 DEF SetNX
  <2>2. flight' \in [Proc -> {"none", "fresh", "old"}]
    BY <1>11, SMT DEF SetNX
  <2>. QED  BY <1>11, <2>1, <2>2 DEF SetNX
<1>10. CASE Begin(c)
  <2>1. pc' \in [Caller -> Steps]
    BY <1>10 DEF Begin
  <2>2. flight' \in [Proc -> {"none", "fresh", "old"}]
    BY <1>10, SMT DEF Begin
  <2>. QED  BY <1>10, <2>1, <2>2 DEF Begin
<1>3. CASE SetRefused(c) \/ Ghost(c) \/ NoGhost(c)
  BY <1>3 DEF SetRefused, Ghost, NoGhost
<1>4. CASE Select(c)
  BY <1>4 DEF Select
<1>5. CASE Upsert(c)
  BY <1>5 DEF Upsert
<1>6. CASE WaitStep(c)
  BY <1>6 DEF WaitStep, PollFree, PollStale, PollTimeout
<1>7. CASE Sweep(c)
  <2>1. pc' \in [Caller -> Steps]
    BY <1>7 DEF Sweep
  <2>2. sweep' \in [Caller -> 0 .. Sweeps]
    BY <1>7, SMT DEF Sweep
  <2>. QED  BY <1>7, <2>1, <2>2 DEF Sweep
<1>8. CASE HolderStep(c)
  BY <1>8 DEF HolderStep, Finish, Release, Leak
<1>9. CASE SetLost(c) \/ SetFails(c)
  BY <1>9 DEF SetLost, SetFails
<1>. QED
  BY <1>1, <1>2, <1>3, <1>4, <1>5, <1>6, <1>7, <1>8, <1>9, <1>10, <1>11, Zenon DEF CallerStep, CreateStep

LEMMA OtherTyped ==
  ASSUME TypeOK, OtherStep
  PROVE  TypeOK'
<1>. USE LockAssumption DEF TypeOK, Delete
<1>1. ASSUME NEW p \in Proc, Age(p)  PROVE TypeOK'
  BY <1>1 DEF Age
<1>2. ASSUME NEW p \in Proc, Crash(p)  PROVE TypeOK'
  BY <1>2 DEF Crash, Steps
<1>3. CASE Expire
  BY <1>3 DEF Expire
<1>4. CASE Cleanup
  BY <1>4 DEF Cleanup
<1>. QED  BY <1>1, <1>2, <1>3, <1>4, Zenon DEF OtherStep

\* Every reachable state is well typed: whatever a store call answers, each
\* caller is at a place of the code that goes on from there.
THEOREM LockTypeCorrect == Spec => []TypeOK
<1>1. Init => TypeOK
  <2>1. ASSUME Init  PROVE sweep \in [Caller -> 0 .. Sweeps]
    BY <2>1, LockAssumption, SMT DEF Init
  <2>. QED  BY <2>1 DEF Init, TypeOK, Steps
<1>2. TypeOK /\ [Next]_vars => TypeOK'
  <2>1. CASE Next
    BY <2>1, NextCases, CallerTyped, OtherTyped, Zenon
  <2>2. CASE UNCHANGED vars
    BY <2>2 DEF TypeOK, vars
  <2>. QED  BY <2>1, <2>2
<1>. QED  BY <1>1, <1>2, PTL DEF Spec
-----------------------------------------------------------------------------
(* In-flight marks *)

\* The three ways a caller's step may treat the mark of its process.
MarkStep(c) ==
  \/ flight' = flight /\ (Creating(c) => Creating(c)')
  \/ flight' = [flight EXCEPT ![Home[c]] = "none"]
  \/ flight' = [flight EXCEPT ![Home[c]] = "fresh"] /\ Creating(c)'

OnlyMoves(c) == \A d \in Caller \ {c} : pc'[d] = pc[d]

LEMMA MarkKept ==
  ASSUME TypeOK, MarkAnswered, NEW c \in Caller, MarkStep(c), OnlyMoves(c)
  PROVE  MarkAnswered'
<1>1. SUFFICES ASSUME NEW p \in Proc, flight'[p] # "none"
               PROVE  \E d \in Caller : Home[d] = p /\ Creating(d)'
  BY Zenon DEF MarkAnswered
<1>2. CASE p = Home[c] /\ Creating(c)'
  BY <1>2, Zenon
<1>3. CASE flight[p] # "none" /\ ~(p = Home[c] /\ ~Creating(c)')
  <2>1. PICK d \in Caller : Home[d] = p /\ Creating(d)
    BY <1>3, Zenon DEF MarkAnswered
  <2>2. d = c => Creating(d)'
    BY <1>3, <2>1, Zenon
  <2>3. d # c => Creating(d)'
    BY <2>1, Zenon DEF OnlyMoves, Creating
  <2>. QED  BY <2>1, <2>2, <2>3, Zenon
<1>4. CASE flight[p] = "none"
  BY <1>1, <1>2, <1>4 DEF MarkStep, TypeOK
<1>5. CASE flight[p] # "none" /\ p = Home[c] /\ ~Creating(c)'
  <2>1. flight' = flight /\ ~Creating(c)
    BY <1>1, <1>5 DEF MarkStep, TypeOK
  <2>2. PICK d \in Caller : Home[d] = p /\ Creating(d)
    BY <1>5, Zenon DEF MarkAnswered
  <2>3. Creating(d)'
    BY <2>1, <2>2, Zenon DEF OnlyMoves, Creating
  <2>. QED  BY <2>2, <2>3, Zenon
<1>. QED  BY <1>2, <1>3, <1>4, <1>5, Zenon

LEMMA CallerMarks ==
  ASSUME TypeOK, NEW c \in Caller, CallerStep(c)
  PROVE  MarkStep(c) /\ OnlyMoves(c)
<1>. USE DEF TypeOK, Goto, Unmark, MarkStep, OnlyMoves, Creating
<1>1. CASE Call(c) \/ GuardStep(c)
  BY <1>1 DEF Call, GuardStep, GuardTaken, GuardOpen, Purge
<1>2. CASE Refused(c) \/ SetNX(c) \/ SetRefused(c)
  BY <1>2 DEF Refused, SetNX, SetRefused
<1>3. CASE Begin(c)
  BY <1>3 DEF Begin
<1>4. CASE Ghost(c) \/ NoGhost(c) \/ Select(c)
  BY <1>4 DEF Ghost, NoGhost, Select
<1>5. CASE Upsert(c)
  BY <1>5 DEF Upsert
<1>6. CASE WaitStep(c)
  BY <1>6 DEF WaitStep, PollFree, PollStale, PollTimeout
<1>7. CASE Sweep(c)
  BY <1>7 DEF Sweep
<1>8. CASE HolderStep(c)
  BY <1>8 DEF HolderStep, Finish, Release, Leak
<1>9. CASE SetLost(c) \/ SetFails(c)
  BY <1>9 DEF SetLost, SetFails
<1>. QED
  BY <1>1, <1>2, <1>3, <1>4, <1>5, <1>6, <1>7, <1>8, <1>9, Zenon DEF CallerStep, CreateStep

LEMMA OtherMarks ==
  ASSUME TypeOK, MarkAnswered, OtherStep
  PROVE  MarkAnswered'
<1>1. ASSUME NEW p \in Proc, Age(p)  PROVE MarkAnswered'
  <2>1. pc' = pc /\ \A q \in Proc : flight'[q] # "none" => flight[q] # "none"
    BY <1>1 DEF Age, TypeOK
  <2>. QED  BY <2>1, Zenon DEF MarkAnswered, Creating
<1>2. ASSUME NEW p \in Proc, Crash(p)  PROVE MarkAnswered'
  <2>1. /\ \A q \in Proc : flight'[q] # "none" => q # p /\ flight[q] # "none"
        /\ \A c \in Caller : Home[c] # p => pc'[c] = pc[c]
    BY <1>2 DEF Crash, TypeOK
  <2>2. SUFFICES ASSUME NEW q \in Proc, flight'[q] # "none"
                 PROVE  \E c \in Caller : Home[c] = q /\ Creating(c)'
    BY Zenon DEF MarkAnswered
  <2>3. PICK c \in Caller : Home[c] = q /\ Creating(c)
    BY <2>1, <2>2, Zenon DEF MarkAnswered
  <2>4. pc'[c] = pc[c]
    BY <2>1, <2>2, <2>3, Zenon
  <2>5. Creating(c)'
    BY <2>3, <2>4, Zenon DEF Creating
  <2>. QED  BY <2>3, <2>5, Zenon
<1>3. CASE Expire \/ Cleanup
  <2>1. pc' = pc /\ flight' = flight
    BY <1>3, Zenon DEF Expire, Cleanup
  <2>. QED  BY <2>1, Zenon DEF MarkAnswered, Creating
<1>. QED  BY <1>1, <1>2, <1>3, Zenon DEF OtherStep

\* However calls of createLock fail, overtake each other or die, a mark is set
\* only while one of them is on its way in that process.
THEOREM MarksCorrect == Spec => []MarkAnswered
<1>1. Init => MarkAnswered
  BY DEF Init, MarkAnswered
<1>2. TypeOK /\ MarkAnswered /\ [Next]_vars => MarkAnswered'
  <2>1. CASE Next
    BY <2>1, NextCases, CallerMarks, MarkKept, OtherMarks, Zenon
  <2>2. ASSUME UNCHANGED vars, MarkAnswered  PROVE MarkAnswered'
    BY <2>2, Zenon DEF MarkAnswered, Creating, vars
  <2>. QED  BY <2>1, <2>2
<1>. QED  BY <1>1, <1>2, LockTypeCorrect, PTL DEF Spec
-----------------------------------------------------------------------------
(* Exclusion over Redis *)

\* The store is Redis and no holder outlasts its lease.
Reliable == Adapter = "redis" /\ "overrun" \notin Env

\* Nothing of the SQLite adapter happens, and a holder owns the entry.
Owned ==
  /\ stale = FALSE
  /\ \A c \in Caller :
       /\ sweep[c] = 0
       /\ pc[c] \notin {"purge", "select", "write"}
       /\ Holding(c) => owner = c /\ lease[c] = "live"

LEMMA CallerOwned ==
  ASSUME Reliable, TypeOK, Owned, NEW c \in Caller, CallerStep(c)
  PROVE  Owned'
<1>. USE LockAssumption DEF Reliable, TypeOK, Owned, Holding, Goto, Delete, GiveUpEntry
<1>1. CASE Call(c) \/ GuardStep(c)
  BY <1>1 DEF Call, GuardStep, GuardTaken, GuardOpen, Purge
<1>2. CASE Refused(c) \/ Begin(c)
  BY <1>2 DEF Refused, Begin
<1>3. CASE SetNX(c)
  BY <1>3 DEF SetNX
<1>4. CASE SetRefused(c) \/ NoGhost(c)
  BY <1>4 DEF SetRefused, NoGhost
<1>5. CASE Ghost(c)
  BY <1>5 DEF Ghost
<1>6. CASE Select(c) \/ Upsert(c) \/ Sweep(c)
  <2>1. pc[c] \notin {"select", "write"} /\ sweep[c] = 0
    OBVIOUS
  <2>2. ~Select(c) /\ ~Upsert(c)
    BY <2>1, Zenon DEF Select, Upsert
  <2>3. ~Sweep(c)
    BY <2>1, SMT DEF Sweep
  <2>. QED  BY <1>6, <2>2, <2>3, Zenon
<1>7. CASE WaitStep(c)
  BY <1>7 DEF WaitStep, PollFree, PollStale, PollTimeout
<1>8. CASE HolderStep(c)
  BY <1>8 DEF HolderStep, Finish, Release, Leak
<1>9. CASE SetLost(c)
  BY <1>9 DEF SetLost
<1>10. CASE SetFails(c)
  BY <1>10 DEF SetFails
<1>. QED
  BY <1>1, <1>2, <1>3, <1>4, <1>5, <1>6, <1>7, <1>8, <1>9, <1>10, Zenon
     DEF CallerStep, CreateStep

LEMMA OtherOwned ==
  ASSUME Reliable, TypeOK, Owned, OtherStep
  PROVE  Owned'
<1>. USE LockAssumption DEF Reliable, TypeOK, Owned, Holding, Delete
<1>1. ASSUME NEW p \in Proc, Age(p)  PROVE Owned'
  BY <1>1 DEF Age
<1>2. ASSUME NEW p \in Proc, Crash(p)  PROVE Owned'
  BY <1>2 DEF Crash
<1>3. CASE Expire
  BY <1>3 DEF Expire
<1>4. CASE Cleanup
  BY <1>4 DEF Cleanup
<1>. QED  BY <1>1, <1>2, <1>3, <1>4, Zenon DEF OtherStep

LEMMA OwnedAlways ==
  ASSUME Reliable
  PROVE  Spec => []Owned
<1>1. Init => Owned
  BY DEF Init, Owned, Holding
<1>2. TypeOK /\ Owned /\ [Next]_vars => Owned'
  <2>1. CASE Next
    BY <2>1, NextCases, CallerOwned, OtherOwned, Zenon
  <2>2. ASSUME UNCHANGED vars, Owned  PROVE Owned'
    BY <2>2, Zenon DEF Owned, Holding, vars
  <2>. QED  BY <2>1, <2>2
<1>. QED  BY <1>1, <1>2, LockTypeCorrect, PTL DEF Spec

\* Over Redis, no two callers of any processes are inside the section at once.
THEOREM ExclusionCorrect ==
  ASSUME Reliable
  PROVE  Spec => []LiveExclusion
<1>1. Owned => LiveExclusion
  BY DEF Owned, LiveExclusion, Inside, Holding
<1>. QED  BY <1>1, OwnedAlways, PTL

\* Over Redis, the entry of a caller stays its own until it releases it.
THEOREM EntryCorrect ==
  ASSUME Reliable
  PROVE  Spec => EntryKept
<1>1. Owned /\ Owned' /\ [Next]_vars =>
        [\A c \in Caller :
           Inside(c) /\ owner = c => owner' = c \/ pc'[c] # "held" \/ lease'[c] = "lapsed"]_vars
  BY DEF Owned, Inside, Holding
<1>. QED  BY <1>1, OwnedAlways, PTL DEF Spec, EntryKept
-----------------------------------------------------------------------------
(* Exclusion over SQLite, in one process *)

\* One process, and an environment without any of its faults.
Alone ==
  /\ Adapter = "sqlite" /\ Env = {}
  /\ \A c, d \in Caller : Home[c] = Home[d]

\* One creation is on its way at most, under the mark; an entry has a holder.
Marked ==
  /\ stale = FALSE
  /\ owner # Free => owner \in Caller /\ Holding(owner)
  /\ \A c \in Caller :
       /\ sweep[c] = 0
       /\ pc[c] \notin {"purge", "set", "ghost"}
       /\ pc[c] = "write" => owner = Free
       /\ Holding(c) => owner = c /\ lease[c] = "live"
       /\ Creating(c) => flight[Home[c]] = "fresh"
  /\ \A c, d \in Caller : Creating(c) /\ Creating(d) => c = d

LEMMA CallerMarked ==
  ASSUME Alone, TypeOK, Marked, NEW c \in Caller, CallerStep(c)
  PROVE  Marked'
<1>. USE LockAssumption DEF Alone, TypeOK, Marked, Holding, Creating, Goto, Delete, Unmark
<1>1. CASE Call(c) \/ GuardStep(c)
  BY <1>1 DEF Call, GuardStep, GuardTaken, GuardOpen, Purge
<1>2. CASE Refused(c)
  BY <1>2 DEF Refused
<1>3. CASE Begin(c)
  BY <1>3 DEF Begin
<1>4. CASE Select(c)
  BY <1>4 DEF Select
<1>5. CASE Upsert(c)
  BY <1>5 DEF Upsert
<1>6. CASE SetNX(c) \/ SetRefused(c) \/ Ghost(c) \/ NoGhost(c) \/ SetLost(c) \/ SetFails(c)
  <2>1. pc[c] \notin {"set", "ghost"} /\ "storeFail" \notin Env
    OBVIOUS
  <2>. QED
    BY <1>6, <2>1, Zenon DEF SetNX, SetRefused, Ghost, NoGhost, SetLost, SetFails
<1>7. CASE WaitStep(c)
  BY <1>7 DEF WaitStep, PollFree, PollStale, PollTimeout
<1>8. CASE Sweep(c)
  <2>1. sweep[c] = 0
    OBVIOUS
  <2>. QED  BY <1>8, <2>1, SMT DEF Sweep
<1>9. CASE HolderStep(c)
  BY <1>9 DEF HolderStep, Finish, Release, Leak
<1>. QED
  BY <1>1, <1>2, <1>3, <1>4, <1>5, <1>6, <1>7, <1>8, <1>9, Zenon DEF CallerStep, CreateStep

LEMMA OtherMarked ==
  ASSUME Alone, TypeOK, Marked, OtherStep
  PROVE  Marked'
<1>1. "slow" \notin Env /\ "crash" \notin Env /\ "overrun" \notin Env /\ stale = FALSE
  BY DEF Alone, Marked
<1>2. ~Expire
  BY <1>1 DEF Expire, Marked
<1>3. ~Cleanup /\ \A p \in Proc : ~Age(p) /\ ~Crash(p)
  BY <1>1, Zenon DEF Cleanup, Age, Crash
<1>. QED  BY <1>2, <1>3, Zenon DEF OtherStep

\* Over SQLite, the in-flight mark alone makes the SELECT and the write of
\* createLock safe: one process has at most one caller inside.
THEOREM OneProcessExclusion ==
  ASSUME Alone
  PROVE  Spec => []LiveExclusion
<1>1. Init => Marked
  BY DEF Init, Marked, Holding, Creating
<1>2. TypeOK /\ Marked /\ [Next]_vars => Marked'
  <2>1. CASE Next
    BY <2>1, NextCases, CallerMarked, OtherMarked, Zenon
  <2>2. ASSUME UNCHANGED vars, Marked  PROVE Marked'
    BY <2>2, Zenon DEF Marked, Holding, Creating, vars
  <2>. QED  BY <2>1, <2>2
<1>3. Marked => LiveExclusion
  BY DEF Marked, LiveExclusion, Inside, Holding
<1>. QED  BY <1>1, <1>2, <1>3, LockTypeCorrect, PTL DEF Spec
-----------------------------------------------------------------------------
(* Refinement *)

Holders == {c \in Caller : Holding(c)}

\* What a step of a caller does to the set of holders.
LEMMA CallerHolders ==
  ASSUME Reliable, TypeOK, Owned, NEW c \in Caller, CallerStep(c)
  PROVE  Holders' = Holders \/ M!Take(c) \/ M!Leave(c)
<1>. USE LockAssumption DEF Reliable, TypeOK, Owned, Holding, Goto, Delete
<1>1. CASE Call(c) \/ GuardStep(c) \/ Refused(c) \/ Begin(c)
  <2>1. \A d \in Caller : Holding(d)' <=> Holding(d)
    BY <1>1 DEF Call, GuardStep, GuardTaken, GuardOpen, Purge, Refused, Begin
  <2>. QED  BY <2>1, Zenon DEF Holders
<1>2. CASE SetRefused(c) \/ NoGhost(c) \/ WaitStep(c) \/ SetLost(c) \/ SetFails(c)
  <2>1. \A d \in Caller : Holding(d)' <=> Holding(d)
    BY <1>2 DEF SetRefused, NoGhost, WaitStep, PollFree, PollStale, PollTimeout, SetLost, SetFails
  <2>. QED  BY <2>1, Zenon DEF Holders
<1>3. CASE SetNX(c) \/ Ghost(c)
  <2>1. \A d \in Caller : ~Holding(d)
    BY <1>3 DEF SetNX, Ghost
  <2>2. \A d \in Caller : Holding(d)' <=> d = c
    BY <1>3, <2>1 DEF SetNX, Ghost
  <2>. QED  BY <2>1, <2>2 DEF M!Take
<1>4. CASE Release(c) \/ Leak(c)
  <2>1. \A d \in Caller : Holding(d) <=> d = c
    BY <1>4 DEF Release, Leak
  <2>2. \A d \in Caller : ~Holding(d)'
    BY <1>4, <2>1 DEF Release, Leak
  <2>. QED  BY <2>1, <2>2 DEF M!Leave
<1>5. CASE Finish(c)
  <2>1. \A d \in Caller : Holding(d)' <=> Holding(d)
    BY <1>5 DEF Finish
  <2>. QED  BY <2>1, Zenon DEF Holders
<1>6. CASE Select(c) \/ Upsert(c) \/ Sweep(c)
  <2>1. pc[c] \notin {"select", "write"} /\ sweep[c] = 0
    OBVIOUS
  <2>2. ~Select(c) /\ ~Upsert(c)
    BY <2>1, Zenon DEF Select, Upsert
  <2>3. ~Sweep(c)
    BY <2>1, SMT DEF Sweep
  <2>. QED  BY <1>6, <2>2, <2>3, Zenon
<1>. QED
  BY <1>1, <1>2, <1>3, <1>4, <1>5, <1>6, Zenon DEF CallerStep, CreateStep, HolderStep

\* A process that dies takes its holder with it; nothing else here moves one.
LEMMA OtherHolders ==
  ASSUME Reliable, TypeOK, Owned, OtherStep
  PROVE  Holders' = Holders \/ \E c \in Caller : M!Leave(c)
<1>. USE DEF TypeOK, Owned, Holding
<1>1. ASSUME NEW p \in Proc, Crash(p)
      PROVE  Holders' = Holders \/ \E c \in Caller : M!Leave(c)
  <2>1. \A d \in Caller : Holding(d)' <=> Holding(d) /\ Home[d] # p
    BY <1>1 DEF Crash
  <2>2. CASE \E c \in Caller : Holding(c) /\ Home[c] = p
    <3>1. PICK c \in Caller : Holding(c) /\ Home[c] = p
      BY <2>2, Zenon
    <3>2. \A d \in Caller : Holding(d) <=> d = c
      BY <3>1
    <3>3. \A d \in Caller : ~Holding(d)'
      BY <2>1, <3>1, <3>2, Zenon
    <3>. QED  BY <3>2, <3>3 DEF M!Leave
  <2>3. CASE \A c \in Caller : Holding(c) => Home[c] # p
    <3>1. \A d \in Caller : Holding(d)' <=> Holding(d)
      BY <2>1, <2>3, Zenon
    <3>. QED  BY <3>1, Zenon DEF Holders
  <2>. QED  BY <2>2, <2>3, Zenon
<1>2. CASE \/ \E p \in Proc : Age(p)
           \/ Expire \/ Cleanup
  <2>1. pc' = pc
    BY <1>2, Zenon DEF Age, Expire, Cleanup
  <2>. QED  BY <2>1, Zenon DEF Holders
<1>. QED  BY <1>1, <1>2, Zenon DEF OtherStep

\* Over Redis, acquire and releaseLock implement the mutex of Mutex.tla.
THEOREM MutexImplemented ==
  ASSUME Reliable
  PROVE  Spec => MutexSpec
<1>1. Init => M!Init
  BY DEF Init, M!Init, Holding
<1>2. TypeOK /\ Owned /\ [Next]_vars => [M!Next]_Holders
  <2>1. CASE Next
    BY <2>1, NextCases, CallerHolders, OtherHolders, Zenon DEF M!Next
  <2>2. CASE UNCHANGED vars
    BY <2>2, Zenon DEF vars, Holders, Holding
  <2>. QED  BY <2>1, <2>2
<1>3. [M!Next]_Holders => [M!Next]_{c \in Caller : Holding(c)}
  BY DEF Holders
<1>. QED  BY <1>1, <1>2, <1>3, LockTypeCorrect, OwnedAlways, PTL DEF Spec, MutexSpec, M!Spec
=============================================================================
