--------------------------- MODULE CircuitBreaker ---------------------------
(***************************************************************************)
(* The circuit breaker of services/replay_runtime/circuit_breaker.py, one  *)
(* row of circuit_breakers per target (tenant and capability), as the      *)
(* SubmitReplay handlers use it: before_run, then the replay, which takes  *)
(* time, then record_success or record_failure -- or neither, when the     *)
(* handler raises in between.  Each method runs under the breaker's lock,  *)
(* so that it is one step here; the rows survive a restart of the process. *)
(***************************************************************************)
EXTENDS Integers

CONSTANTS Target,       \* the keys "tenant:capability"
          Call,         \* the SubmitReplay calls, each with a thread of its own
          TargetOf,     \* TargetOf[r]: the target that call r replays against
          Threshold,    \* FAILURE_THRESHOLD (3)
          Cooldown,     \* COOLDOWN_S in ticks of the clock
          MaxFailures   \* where the model stops counting failures

ASSUME BreakerAssumption ==
    /\ TargetOf \in [Call -> Target]
    /\ Threshold \in Nat \ {0}
    /\ Cooldown \in Nat \ {0}
    /\ MaxFailures \in Nat /\ MaxFailures >= Threshold

VARIABLES state,        \* column state
          failures,     \* column consecutive_failures, up to MaxFailures
          cool,         \* cooldown_until_ms - now, down to 0
          running,      \* the runs admitted and not finished
          stale,        \* history: runs under way when the breaker last tripped
          rescued       \* history: has one of those succeeded since

breaker == <<state, failures, cool, running, stale, rescued>>

BreakerTypeOK ==
    /\ state \in [Target -> {"CLOSED", "OPEN", "HALF_OPEN"}]
    /\ failures \in [Target -> 0..MaxFailures]
    /\ cool \in [Target -> 0..Cooldown]
    /\ running \subseteq Call
    /\ stale \in [Target -> SUBSET Call]
    /\ rescued \in [Target -> BOOLEAN]

BreakerInit ==
    /\ state = [t \in Target |-> "CLOSED"]
    /\ failures = [t \in Target |-> 0]
    /\ cool = [t \in Target |-> 0]
    /\ running = {}
    /\ stale = [t \in Target |-> {}]
    /\ rescued = [t \in Target |-> FALSE]

-----------------------------------------------------------------------------
\* Mutant: now_ms <= cooldown_until_ms for a countdown that stops at 0.
NeverCool(t) == state[t] = "OPEN" /\ cool[t] >= 0

\* before_run raises CircuitOpenError: open, and now_ms < cooldown_until_ms.
CoolingDown(t) == state[t] = "OPEN" /\ cool[t] > 0

\* Mutant: before_run admits any caller once the breaker is HALF_OPEN or OPEN.
BeforeRunUnchecked(r) ==
    LET t == TargetOf[r] IN
    /\ r \notin running
    /\ state' = [state EXCEPT ![t] = IF @ = "OPEN" THEN "HALF_OPEN" ELSE @]
    /\ running' = running \cup {r}
    /\ UNCHANGED <<failures, cool, stale, rescued>>

\* before_run returns.  The first caller after the cooldown makes the breaker
\* HALF_OPEN; HALF_OPEN holds nobody back.
BeforeRun(r) ==
    LET t == TargetOf[r] IN
    /\ r \notin running
    /\ ~CoolingDown(t)
    /\ state' = [state EXCEPT ![t] = IF @ = "OPEN" THEN "HALF_OPEN" ELSE @]
    /\ running' = running \cup {r}
    /\ UNCHANGED <<failures, cool, stale, rescued>>

\* Mutant: the counter survives a success.
RecordSuccessKeepsCount(r) ==
    LET t == TargetOf[r] IN
    /\ r \in running
    /\ running' = running \ {r}
    /\ state' = [state EXCEPT ![t] = "CLOSED"]
    /\ rescued' = [rescued EXCEPT ![t] = @ \/ r \in stale[t]]
    /\ stale' = [stale EXCEPT ![t] = @ \ {r}]
    /\ UNCHANGED <<failures, cool>>

\* record_success: CLOSED from any state; cooldown_until_ms is left alone.
RecordSuccess(r) ==
    LET t == TargetOf[r] IN
    /\ r \in running
    /\ running' = running \ {r}
    /\ state' = [state EXCEPT ![t] = "CLOSED"]
    /\ failures' = [failures EXCEPT ![t] = 0]
    /\ rescued' = [rescued EXCEPT ![t] = @ \/ r \in stale[t]]
    /\ stale' = [stale EXCEPT ![t] = @ \ {r}]
    /\ UNCHANGED cool

\* The counter after one more failure (the code only compares it with the
\* threshold, so that counting stops at MaxFailures).
OneMore(n) == IF n < MaxFailures THEN n + 1 ELSE n

\* record_failure below the threshold.
RecordFailure(r) ==
    LET t == TargetOf[r] IN
    /\ r \in running
    /\ failures[t] + 1 < Threshold
    /\ running' = running \ {r}
    /\ failures' = [failures EXCEPT ![t] = OneMore(@)]
    /\ stale' = [stale EXCEPT ![t] = @ \ {r}]
    /\ UNCHANGED <<state, cool, rescued>>

\* record_failure at the threshold or above it, whatever the state: the
\* breaker opens, or its cooldown starts again.
Trip(r) ==
    LET t == TargetOf[r] IN
    /\ r \in running
    /\ failures[t] + 1 >= Threshold
    /\ running' = running \ {r}
    /\ failures' = [failures EXCEPT ![t] = OneMore(@)]
    /\ state' = [state EXCEPT ![t] = "OPEN"]
    /\ cool' = [cool EXCEPT ![t] = Cooldown]
    /\ stale' = [stale EXCEPT ![t] = {s \in running' : TargetOf[s] = t}]
    /\ rescued' = [rescued EXCEPT ![t] = FALSE]

\* The handler raises between before_run and record_*: nothing is recorded.
BreakerAbort(r) ==
    LET t == TargetOf[r] IN
    /\ r \in running
    /\ running' = running \ {r}
    /\ stale' = [stale EXCEPT ![t] = @ \ {r}]
    /\ UNCHANGED <<state, failures, cool, rescued>>

\* The process restarts: the runs are gone, the rows are not.
BreakerRestart ==
    /\ running' = {}
    /\ stale' = [t \in Target |-> {}]
    /\ UNCHANGED <<state, failures, cool, rescued>>

\* The wall clock moves on.
BreakerTick ==
    /\ \E t \in Target : cool[t] > 0
    /\ cool' = [t \in Target |-> IF cool[t] > 0 THEN cool[t] - 1 ELSE 0]
    /\ UNCHANGED <<state, failures, running, stale, rescued>>

Finish(r) == RecordSuccess(r) \/ RecordFailure(r) \/ Trip(r) \/ BreakerAbort(r)

BreakerNext ==
    \/ \E r \in Call : BeforeRun(r) \/ Finish(r)
    \/ BreakerRestart
    \/ BreakerTick

\* Time passes, runs end (each wait for the browser has a timeout; that the registry
\* answers is assumed, its RPC has no deadline), and replays of every target keep
\* being asked for.
BreakerFairness ==
    /\ WF_breaker(BreakerTick)
    /\ \A r \in Call : WF_breaker(Finish(r)) /\ WF_breaker(BeforeRun(r))

BreakerSafeSpec == BreakerInit /\ [][BreakerNext]_breaker
BreakerSpec == BreakerSafeSpec /\ BreakerFairness

-----------------------------------------------------------------------------
\* The breaker is closed exactly while fewer than Threshold failures have been
\* recorded in a row: whatever order overlapping runs report in, it neither
\* stays closed past the threshold nor leaves HALF_OPEN with a count that a
\* single failing probe would not re-open.
ClosedBelowThreshold ==
    \A t \in Target : state[t] = "CLOSED" <=> failures[t] < Threshold

\* Within the cooldown the breaker holds everybody back, unless a run that was
\* already under way when it tripped has succeeded since.
WindowHolds ==
    \A t \in Target : cool[t] > 0 /\ ~rescued[t] => state[t] = "OPEN"

\* Makes WindowHolds inductive: until such a rescue, only runs that were under
\* way at the trip are running.
OnlyStaleRun ==
    \A r \in running :
        LET t == TargetOf[r] IN cool[t] > 0 /\ ~rescued[t] => r \in stale[t]

BreakerInv == BreakerTypeOK /\ ClosedBelowThreshold /\ WindowHolds /\ OnlyStaleRun

\* "fails fast for a cooldown window": no run is admitted against a target
\* between a trip and the end of its cooldown.
CooldownHonoured ==
    [][\A r \in Call : r \in running' \ running => cool[TargetOf[r]] = 0]_breaker

\* An open breaker does not stay open for ever: failures that come in late may
\* restart the cooldown, but only as often as there were runs under way.
Recovers ==
    \A t \in Target : state[t] = "OPEN" ~> state[t] # "OPEN"
=============================================================================
