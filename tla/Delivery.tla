------------------------------ MODULE Delivery ------------------------------
(***************************************************************************)
(* What the outbox promises the services that enqueue into it, without     *)
(* batches, retries, dispatchers or crashes: every accepted row appears in *)
(* the log at most once, and after the rows of its correlation that were   *)
(* both numbered and accepted before it, except that a row which is        *)
(* excused (because an append of it has failed) may be overtaken.          *)
(***************************************************************************)
EXTENDS Naturals, Sequences, Functions

CONSTANTS Row,          \* the rows, numbered by created_at_ms
          Corr,         \* Corr[r]: the correlation id of row r
          Deliverable   \* the rows the log can take

VARIABLES accepted,     \* the rows committed to the outbox table
          delivered,    \* the log: a sequence of rows
          excused,      \* the rows that may be overtaken
          ahead         \* ahead[r]: the rows that r must not overtake

vars == <<accepted, delivered, excused, ahead>>

Init ==
    /\ accepted = {}
    /\ delivered = <<>>
    /\ excused = {}
    /\ ahead = [r \in Row |-> {}]

Accept(r) ==
    /\ r \in Row \ accepted
    /\ accepted' = accepted \cup {r}
    /\ ahead' = [ahead EXCEPT ![r] = {i \in accepted : i < r /\ Corr[i] = Corr[r]}]
    /\ UNCHANGED <<delivered, excused>>

Deliver(r) ==
    /\ r \in (accepted \cap Deliverable) \ Range(delivered)
    /\ (ahead[r] \cap Deliverable) \ excused \subseteq Range(delivered)
    /\ delivered' = Append(delivered, r)
    /\ UNCHANGED <<accepted, excused, ahead>>

Excuse(r) ==
    /\ r \in accepted
    /\ excused' = excused \cup {r}
    /\ UNCHANGED <<accepted, delivered, ahead>>

Next == \E r \in Row : Accept(r) \/ Deliver(r) \/ Excuse(r)

SafeSpec == Init /\ [][Next]_vars
=============================================================================
