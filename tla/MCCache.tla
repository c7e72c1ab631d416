------------------------------- MODULE MCCache -------------------------------
(* An instance of Cache for TLC: two workers, two calls at a time, one key.  *)
EXTENDS Cache, TLC

CONSTANTS t1, t2, w1, w2
=============================================================================
