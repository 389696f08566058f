-------------------------- MODULE MCCircuitBreaker --------------------------
(* Instances of CircuitBreaker for TLC. *)
EXTENDS CircuitBreaker

CONSTANTS r1, r2, r3, r4, t1, t2

\* r4 has a target of its own.
MCTargetOf == [r \in Call |-> IF r = r4 THEN t2 ELSE t1]
=============================================================================
