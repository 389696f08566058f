------------------------------ MODULE MCOutbox ------------------------------
(* Instances of Outbox for TLC. *)
EXTENDS Outbox

\* One correlation.
MCCorrOne == [r \in 1..NumRows |-> 0]
=============================================================================
