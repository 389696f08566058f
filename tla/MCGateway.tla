----------------------------- MODULE MCGateway ------------------------------
(* Instances of Gateway for TLC. *)
EXTENDS Gateway, TLC

CONSTANTS i1, i2, i3, o1, w1, b1, k1

MCKindOf ==
    [c \in Request |->
        CASE c = i1 -> "invoke_hard"
          [] c \in {i2, i3} -> "invoke_ok"
          [] c = o1 -> "claim_act"
          [] c = w1 -> "watch"
          [] c = b1 -> "compile"]

MCSize == [p \in Pool |-> CASE p = "rest" -> 3 [] OTHER -> 1]

\* The successful invocations are alike.
Alike == Permutations({i2, i3})

MCKeyOf == [c \in Request |-> k1]
=============================================================================
