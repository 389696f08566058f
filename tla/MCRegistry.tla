----------------------------- MODULE MCRegistry -----------------------------
(* Instances of Registry for TLC. *)
EXTENDS Registry

CONSTANTS k1, k2, c1, c2, c3, c4, c5, q1, q2, q3, a, b

\* Four compiles of one capability, which add, remove, change and repeat, and one
\* of another capability.
MCCapOf == [c \in Compile |-> IF c = c4 THEN k2 ELSE k1]

Face(i, o, ch) == [inputs |-> i, outputs |-> o, checkpoints |-> ch]
MCInterfaceOf ==
    [c \in Compile |->
        CASE c \in {c1, c5} -> Face({a}, {}, {a})
          [] c = c2 -> Face({a, b}, {a}, {a})
          [] c = c3 -> Face({a, b}, {a}, {b})
          [] OTHER -> Face({a}, {}, {})]

MCTargetOf == [q \in Replay |-> k1]
MCWanted == [q \in Replay |-> IF q = q3 THEN 1 ELSE 0]
=============================================================================
