-------------------------- MODULE MCReplayRuntime ---------------------------
(* Instances of ReplayRuntime for TLC. *)
EXTENDS ReplayRuntime, TLC

CONSTANTS c1, c2, c3, k1, k2, t1

\* c2 repeats the key of c1; c3, if there is one, has another key.
MCKeyOf == [c \in Call |-> IF c \in {c1, c2} THEN k1 ELSE k2]

MCTargetOf == [c \in Call |-> t1]
=============================================================================
