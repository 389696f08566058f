---------------------------- MODULE MCProjector ----------------------------
(* Instances of Projector for TLC. *)
EXTENDS Projector

CONSTANT v1

\* Every replay executes one version.
MCVersionOf == [r \in ReplayRun |-> v1]
=============================================================================
