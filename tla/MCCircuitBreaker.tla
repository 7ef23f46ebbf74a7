-------------------------- MODULE MCCircuitBreaker --------------------------
(* CircuitBreaker for TLC: three callers, so that a straggler of the closed *)
(* state can fall between the two probes of a half-open episode.            *)
EXTENDS CircuitBreaker
CONSTANTS c1, c2, c3
MCCallers == {c1, c2, c3}
=============================================================================
