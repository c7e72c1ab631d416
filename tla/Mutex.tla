------------------------------- MODULE Mutex -------------------------------
(***************************************************************************)
(* What a lock of core/db-cache promises its callers: at most one of them  *)
(* is between acquire and the end of releaseLock (or of its own life).     *)
(***************************************************************************)
CONSTANT Caller

VARIABLE holders     \* the callers to whom acquire has returned

Init == holders = {}

Take(c) == holders = {} /\ holders' = {c}

\* The holder releases, or its process dies.
Leave(c) == holders = {c} /\ holders' = {}

Next == \E c \in Caller : Take(c) \/ Leave(c)

Spec == Init /\ [][Next]_holders
=============================================================================
