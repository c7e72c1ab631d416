------------------------------ MODULE MCDBLock ------------------------------
(* DBLock for TLC: which process each caller runs in.                     *)
EXTENDS DBLock, TLC

CONSTANTS p1, p2, c1, c2, c3, c4

TwoProcs == c1 :> p1 @@ c2 :> p1 @@ c3 :> p2
TwoPairs == TwoProcs @@ c4 :> p2
OneProc == c1 :> p1 @@ c2 :> p1 @@ c3 :> p1
=============================================================================
