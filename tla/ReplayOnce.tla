----------------------------- MODULE ReplayOnce -----------------------------
(***************************************************************************)
(* What an idempotency key promises the callers of SubmitReplay: one run   *)
(* owns the key for good, the bank is touched by that run only and at most *)
(* once, and every caller that gets an answer is told that run.            *)
(***************************************************************************)
CONSTANTS Key, Run, None

VARIABLES owner,     \* owner[k]: the run recorded for key k, or None
          touched,   \* the runs that have begun to act on the bank
          told       \* told[k]: the runs that callers with key k were told

vars == <<owner, touched, told>>

Init ==
    /\ owner = [k \in Key |-> None]
    /\ touched = {}
    /\ told = [k \in Key |-> {}]

Claim(k, r) ==
    /\ owner[k] = None
    /\ \A j \in Key : owner[j] # r
    /\ owner' = [owner EXCEPT ![k] = r]
    /\ UNCHANGED <<touched, told>>

Touch(k) ==
    /\ owner[k] # None
    /\ owner[k] \notin touched
    /\ touched' = touched \cup {owner[k]}
    /\ UNCHANGED <<owner, told>>

Tell(k) ==
    /\ owner[k] # None
    /\ told' = [told EXCEPT ![k] = {owner[k]}]
    /\ UNCHANGED <<owner, touched>>

Next == \E k \in Key : Touch(k) \/ Tell(k) \/ \E r \in Run : Claim(k, r)

Spec == Init /\ [][Next]_vars
=============================================================================
