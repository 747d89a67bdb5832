----------------------------- MODULE MCBreaker -----------------------------
(***************************************************************************)
(* CircuitBreaker with three callers, so that two of them can outlive the  *)
(* closed breaker that admitted them while a third runs the trial.         *)
(***************************************************************************)
EXTENDS CircuitBreaker

CONSTANTS c1, c2, c3
=============================================================================
