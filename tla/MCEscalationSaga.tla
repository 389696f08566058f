-------------------------- MODULE MCEscalationSaga --------------------------
(* Instances of EscalationSaga for TLC: one saga, requests of each kind. *)
EXTENDS EscalationSaga

CONSTANTS s1, open1, claim1, claim2, act1, act2, rel1, rel2

MCKindOf == [r \in Request |->
    CASE r = open1 -> "intervene"
      [] r \in {claim1, claim2} -> "claim"
      [] r \in {act1, act2} -> "act"
      [] r \in {rel1, rel2} -> "release"]

MCSagaOf == [r \in Request |-> s1]
=============================================================================
