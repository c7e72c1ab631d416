----------------------------- MODULE JobLedger -----------------------------
(***************************************************************************)
(* What a job queue of core/queue promises to those who push jobs: a job   *)
(* that was accepted is executed one execution at a time, a bounded number *)
(* of times, and is not removed before it was executed or withdrawn.       *)
(***************************************************************************)
EXTENDS Naturals

CONSTANTS
  Job,
  Attempts,   \* how often a job is executed if nobody dies
  Cap         \* executions are counted up to here

VARIABLES
  state,      \* "absent", "pending" or "running"
  runs,       \* executions of a job since it was accepted
  withdrawn,  \* its pusher has cancelled it
  deaths      \* processes that died

ledger == <<state, runs, withdrawn, deaths>>

Init ==
  /\ state = [j \in Job |-> "absent"]
  /\ runs = [j \in Job |-> 0]
  /\ withdrawn = [j \in Job |-> FALSE]
  /\ deaths = 0

\* push: an id that is in use is refused.
Accept(j) ==
  /\ state[j] = "absent"
  /\ state' = [state EXCEPT ![j] = "pending"]
  /\ UNCHANGED <<runs, withdrawn, deaths>>

Withdraw(j) ==
  /\ state[j] # "absent"
  /\ withdrawn' = [withdrawn EXCEPT ![j] = TRUE]
  /\ UNCHANGED <<state, runs, deaths>>

\* Every death may cost one execution that nobody counted.
Execute(j) ==
  /\ state[j] = "pending"
  /\ runs[j] < Attempts + deaths
  /\ state' = [state EXCEPT ![j] = "running"]
  /\ runs' = [runs EXCEPT ![j] = IF @ < Cap THEN @ + 1 ELSE @]
  /\ UNCHANGED <<withdrawn, deaths>>

\* onJob answers, or the queue no longer waits for it.
Finish(j) ==
  /\ state[j] = "running"
  /\ state' = [state EXCEPT ![j] = "pending"]
  /\ UNCHANGED <<runs, withdrawn, deaths>>

Remove(j) ==
  /\ state[j] = "pending"
  /\ runs[j] > 0 \/ withdrawn[j]
  /\ state' = [state EXCEPT ![j] = "absent"]
  /\ runs' = [runs EXCEPT ![j] = 0]
  /\ withdrawn' = [withdrawn EXCEPT ![j] = FALSE]
  /\ UNCHANGED deaths

\* The jobs stay, their executions end.
Die ==
  /\ state' = [j \in Job |-> IF state[j] = "running" THEN "pending" ELSE state[j]]
  /\ deaths' = deaths + 1
  /\ UNCHANGED <<runs, withdrawn>>

Next ==
  \/ \E j \in Job : Accept(j) \/ Withdraw(j) \/ Execute(j) \/ Finish(j) \/ Remove(j)
  \/ Die

Spec == Init /\ [][Next]_ledger
=============================================================================
