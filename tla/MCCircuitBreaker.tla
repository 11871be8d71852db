-------------------------- MODULE MCCircuitBreaker --------------------------
(***************************************************************************)
(* Small instances of CircuitBreaker for TLC: the cfgs give the requests   *)
(* as model values and the configuration in ticks.                         *)
(***************************************************************************)
EXTENDS CircuitBreaker
=============================================================================
