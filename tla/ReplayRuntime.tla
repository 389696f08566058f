--------------------------- MODULE ReplayRuntime ----------------------------
(***************************************************************************)
(* SubmitReplay of services/replay_runtime/server.py: concurrent calls,    *)
(* step by step, over the table replay_runs (store.py), the local outbox,  *)
(* the circuit breaker (module CircuitBreaker), the live browser sessions, *)
(* and the RPCs to the registry, the event log and the escalation saga.    *)
(* Every step is one transaction, one RPC or one use of the browser; other *)
(* calls, a failing service and a crash of the process fit in between.     *)
(*                                                                         *)
(* A run is named by the call that created it.  What is published from the *)
(* outbox is the business of module Outbox: `events' holds committed rows. *)
(* The branch for RECOVERABLE outcomes is left out: executor.run never     *)
(* returns one.                                                            *)
(***************************************************************************)
EXTENDS CircuitBreaker, FiniteSets

\* The calls, retries included, what they replay and the breaker's limits are
\* constants of CircuitBreaker, its row the variables that this module adds to.
CONSTANTS Key,           \* idempotency keys
          KeyOf,         \* KeyOf[c]: the key that c carries
          NoKey,         \* the empty key
          ServicesFail,  \* whether RPCs and the browser may raise
          MaxCrashes     \* bound on crashes of the process

ASSUME CallAssumption ==
    /\ KeyOf \in [Call -> Key]
    /\ ServicesFail \in BOOLEAN
    /\ MaxCrashes \in Nat
    /\ Call \cap {"none", "error"} = {}

VARIABLES
    pc,           \* where each call is in SubmitReplay
    rows,         \* replay_runs: the outcome column of each call's run
    result,       \* what executor.run returned to the call
    answer,       \* the run named in the reply
    events,       \* outbox rows: <<run, event type>>
    executed,     \* the runs that have begun to act on the bank
    live,         \* _live_sessions: runs whose browser is kept open
    deadLetters,  \* the runs dead-lettered in the event log
    sagas,        \* the runs the escalation service opened a saga for
    released,     \* history: runs whose session an operator released
    txn,          \* the store's connection has left a transaction open
    crashes       \* crashes so far

handler == <<pc, rows, result, answer>>
evidence == <<events, executed, live, deadLetters, sagas, released>>
effects == <<evidence, txn>>
vars == <<handler, effects, crashes, breaker>>

Business == "BUSINESS_OUTCOME"
Hard == "HARD_FAILURE"

Over == {"done", "failed"}
Steps == {"create", "request", "admit", "reject", "rejected", "resolve",
          "start", "run", "steps", "record", "deadletter", "hardevent",
          "escalate", "succeed", "complete"}

HasRow(c) == rows[c] # "absent"
SameKey(c, d) == KeyOf[c] = KeyOf[d]
Emitted(c, type) == <<c, type>> \in events

TypeOK ==
    /\ pc \in [Call -> {"idle"} \cup Steps \cup Over]
    /\ rows \in [Call -> {"absent", "PENDING", Business, Hard}]
    /\ result \in [Call -> {"none", Business, Hard}]
    /\ answer \in [Call -> Call \cup {"none", "error"}]
    /\ events \subseteq Call \X {"ReplayRequested", "ReplayStepExecuted",
                                 "ReplaySucceeded", "ReplayHardFailure"}
    /\ executed \subseteq Call
    /\ live \subseteq Call
    /\ deadLetters \subseteq Call
    /\ sagas \subseteq Call
    /\ released \subseteq Call
    /\ txn \in {"none", "open"}
    /\ crashes \in 0..MaxCrashes
    /\ BreakerTypeOK

Init ==
    /\ pc = [c \in Call |-> "idle"]
    /\ rows = [c \in Call |-> "absent"]
    /\ result = [c \in Call |-> "none"]
    /\ answer = [c \in Call |-> "none"]
    /\ events = {} /\ executed = {} /\ live = {}
    /\ deadLetters = {} /\ sagas = {} /\ released = {}
    /\ txn = "none"
    /\ crashes = 0
    /\ BreakerInit

-----------------------------------------------------------------------------
\* Control moves on within the handler.
Goto(c, next) == pc' = [pc EXCEPT ![c] = next] /\ UNCHANGED answer

\* The handler returns a ReplayAck that names run d.
Return(c, d) ==
    /\ pc' = [pc EXCEPT ![c] = "done"]
    /\ answer' = [answer EXCEPT ![c] = d]

\* The handler raises: the caller gets an RPC error, the rest is skipped.
Raise(c) ==
    /\ pc' = [pc EXCEPT ![c] = "failed"]
    /\ answer' = [answer EXCEPT ![c] = "error"]

\* _emit: one outbox row, in a transaction of its own; its commit ends whatever
\* the connection had open.
Emit(c, type) ==
    /\ events' = events \cup {<<c, type>>}
    /\ txn' = "none"
    /\ UNCHANGED <<executed, live, deadLetters, sagas, released>>

\* Mutant: a recorded run is matched whatever its key.
LookupAnyKey(c) ==
    /\ pc[c] = "idle"
    /\ LET cached == {d \in Call : HasRow(d)}
       IN  IF KeyOf[c] # NoKey /\ cached # {}
           THEN \E d \in cached : Return(c, d)
           ELSE Goto(c, "create")
    /\ UNCHANGED <<rows, result, effects, crashes, breaker>>

\* find_by_idempotency_key: a recorded run answers the call; the empty key is
\* not looked up.
Lookup(c) ==
    /\ pc[c] = "idle"
    /\ LET cached == {d \in Call : HasRow(d) /\ SameKey(c, d)}
       IN  IF KeyOf[c] # NoKey /\ cached # {}
           THEN \E d \in cached : Return(c, d)
           ELSE Goto(c, "create")
    /\ UNCHANGED <<rows, result, effects, crashes, breaker>>

\* Mutant: the table has no UNIQUE constraint on idempotency_key.
CreateNotUnique(c) ==
    /\ pc[c] = "create"
    /\ rows' = [rows EXCEPT ![c] = "PENDING"] /\ txn' = "none"
    /\ Goto(c, "request")
    /\ UNCHANGED <<result, evidence, crashes, breaker>>

\* create_pending.  The key (the empty one too) is UNIQUE: the INSERT raises
\* IntegrityError when another call has got in since the lookup, and leaves the
\* transaction that it began.
Create(c) ==
    /\ pc[c] = "create"
    /\ IF \E d \in Call : HasRow(d) /\ SameKey(c, d)
       THEN Raise(c) /\ txn' = "open" /\ UNCHANGED rows
       ELSE Goto(c, "request") /\ txn' = "none" /\ rows' = [rows EXCEPT ![c] = "PENDING"]
    /\ UNCHANGED <<result, evidence, crashes, breaker>>

EmitRequested(c) ==
    /\ pc[c] = "request"
    /\ Emit(c, "ReplayRequested")
    /\ Goto(c, "admit")
    /\ UNCHANGED <<rows, result, crashes, breaker>>

\* Mutant: the handler goes on when before_run has raised CircuitOpenError.
AdmitUnchecked(c) ==
    /\ pc[c] = "admit"
    /\ running' = running \cup {c}
    /\ Goto(c, "resolve")
    /\ UNCHANGED <<rows, result, effects, crashes,
                   state, failures, cool, stale, rescued>>

\* before_run lets the call pass.
Admit(c) ==
    /\ pc[c] = "admit"
    /\ BeforeRun(c)
    /\ Goto(c, "resolve")
    /\ UNCHANGED <<rows, result, effects, crashes>>

\* before_run raises CircuitOpenError.
Refuse(c) ==
    /\ pc[c] = "admit"
    /\ CoolingDown(TargetOf[c])
    /\ Goto(c, "reject")
    /\ UNCHANGED <<rows, result, effects, crashes, breaker>>

\* The refused run is completed as a hard failure ...
CompleteRefused(c) ==
    /\ pc[c] = "reject"
    /\ rows' = [rows EXCEPT ![c] = Hard] /\ txn' = "none"
    /\ Goto(c, "rejected")
    /\ UNCHANGED <<result, evidence, crashes, breaker>>

\* ... and only then its event is emitted, and the call returns.
EmitRefused(c) ==
    /\ pc[c] = "rejected"
    /\ Emit(c, "ReplayHardFailure")
    /\ Return(c, c)
    /\ UNCHANGED <<rows, result, crashes, breaker>>

\* resolve_for_tenant and model_validate.
Resolve(c) ==
    /\ pc[c] = "resolve"
    /\ Goto(c, "start")
    /\ UNCHANGED <<rows, result, effects, crashes, breaker>>

\* A browser is started and executor.run begins to act on the bank.
Start(c) ==
    /\ pc[c] = "start"
    /\ executed' = executed \cup {c}
    /\ Goto(c, "run")
    /\ UNCHANGED <<rows, result, events, live, deadLetters, sagas, released,
                   txn, crashes, breaker>>

\* Mutant: the browser is kept whatever the outcome.
ExecuteKeepsAll(c, outcome) ==
    /\ pc[c] = "run"
    /\ result' = [result EXCEPT ![c] = outcome]
    /\ live' = live \cup {c}
    /\ Goto(c, "steps")
    /\ UNCHANGED <<rows, events, executed, deadLetters, sagas, released,
                   txn, crashes, breaker>>

\* executor.run returns.  The session of a hard failure is kept for the
\* operator, any other one is closed.
Execute(c, outcome) ==
    /\ pc[c] = "run"
    /\ result' = [result EXCEPT ![c] = outcome]
    /\ live' = IF outcome = Hard THEN live \cup {c} ELSE live
    /\ Goto(c, "steps")
    /\ UNCHANGED <<rows, events, executed, deadLetters, sagas, released,
                   txn, crashes, breaker>>

EmitSteps(c) ==
    /\ pc[c] = "steps"
    /\ Emit(c, "ReplayStepExecuted")
    /\ Goto(c, "record")
    /\ UNCHANGED <<rows, result, crashes, breaker>>

\* record_failure or record_success.
Record(c) ==
    /\ pc[c] = "record"
    /\ \/ result[c] = Hard /\ (RecordFailure(c) \/ Trip(c)) /\ Goto(c, "deadletter")
       \/ result[c] = Business /\ RecordSuccess(c) /\ Goto(c, "succeed")
    /\ UNCHANGED <<rows, result, effects, crashes>>

\* Mutant: the run's outcome is saved before its evidence is.
CompleteFirst(c) ==
    /\ pc[c] = "deadletter"
    /\ rows' = [rows EXCEPT ![c] = Hard]
    /\ deadLetters' = deadLetters \cup {c}
    /\ Goto(c, "hardevent")
    /\ UNCHANGED <<result, events, executed, live, sagas, released,
                   txn, crashes, breaker>>

\* Mutant: the intervention is requested before the event is emitted.
EscalateFirst(c) ==
    /\ pc[c] = "deadletter"
    /\ deadLetters' = deadLetters \cup {c}
    /\ sagas' = sagas \cup {c}
    /\ Goto(c, "hardevent")
    /\ UNCHANGED <<rows, result, events, executed, live, released,
                   txn, crashes, breaker>>

\* event_log.dead_letter.
DeadLetter(c) ==
    /\ pc[c] = "deadletter"
    /\ deadLetters' = deadLetters \cup {c}
    /\ Goto(c, "hardevent")
    /\ UNCHANGED <<rows, result, events, executed, live, sagas, released,
                   txn, crashes, breaker>>

EmitHardFailure(c) ==
    /\ pc[c] = "hardevent"
    /\ Emit(c, "ReplayHardFailure")
    /\ Goto(c, "escalate")
    /\ UNCHANGED <<rows, result, crashes, breaker>>

\* request_intervention: from here on an operator may use the session.
Escalate(c) ==
    /\ pc[c] = "escalate"
    /\ sagas' = sagas \cup {c}
    /\ Goto(c, "complete")
    /\ UNCHANGED <<rows, result, events, executed, live, deadLetters, released,
                   txn, crashes, breaker>>

EmitSucceeded(c) ==
    /\ pc[c] = "succeed"
    /\ Emit(c, "ReplaySucceeded")
    /\ Goto(c, "complete")
    /\ UNCHANGED <<rows, result, crashes, breaker>>

\* Mutant: the reply is sent, the row is not updated.
CompleteUnsaved(c) ==
    /\ pc[c] = "complete"
    /\ Return(c, c)
    /\ UNCHANGED <<rows, result, effects, crashes, breaker>>

\* dispatch_once, then complete(), then the reply.
Complete(c) ==
    /\ pc[c] = "complete"
    /\ rows' = [rows EXCEPT ![c] = result[c]] /\ txn' = "none"
    /\ Return(c, c)
    /\ UNCHANGED <<result, evidence, crashes, breaker>>

-----------------------------------------------------------------------------
\* The registry, the browser or the executor raises before anything is
\* recorded with the breaker.  (A browser that was started stays open, but it
\* is in nobody's table.)
FailEarly(c) ==
    /\ ServicesFail
    /\ pc[c] \in {"resolve", "start", "run"}
    /\ Raise(c)
    /\ BreakerAbort(c)
    /\ UNCHANGED <<rows, result, effects, crashes>>

\* The DeadLetter or the RequestIntervention RPC raises, before or after the
\* other side has acted on it.
FailLate(c) ==
    /\ ServicesFail
    /\ pc[c] \in {"deadletter", "escalate"}
    /\ Raise(c)
    /\ deadLetters' \in IF pc[c] = "deadletter"
                        THEN {deadLetters, deadLetters \cup {c}} ELSE {deadLetters}
    /\ sagas' \in IF pc[c] = "escalate" THEN {sagas, sagas \cup {c}} ELSE {sagas}
    /\ UNCHANGED <<rows, result, events, executed, live, released, txn, crashes, breaker>>

\* replay_runtime.db gives an error (it is full, or locked by one of the other
\* connections for too long): an INSERT, an event or an UPDATE raises, at the end
\* possibly within dispatch_once.  The connection's transaction is rolled back.
FailStore(c) ==
    /\ ServicesFail
    /\ pc[c] \in {"create", "request", "reject", "rejected", "steps", "hardevent",
                  "succeed", "complete"}
    /\ Raise(c)
    /\ txn' = "none"
    /\ IF pc[c] = "steps" THEN BreakerAbort(c) ELSE UNCHANGED breaker
    /\ UNCHANGED <<rows, result, evidence, crashes>>

\* The breaker has a connection of its own to the same file: while the store's has
\* a transaction open, its writes wait until sqlite3 gives up.  before_run writes
\* when it makes a row (when that was is not kept) or lets a probe pass.
FailLocked(c) ==
    /\ txn = "open"
    /\ \/ /\ pc[c] = "admit"
          /\ ~CoolingDown(TargetOf[c]) /\ state[TargetOf[c]] # "HALF_OPEN"
          /\ UNCHANGED breaker
       \/ pc[c] = "record" /\ BreakerAbort(c)
    /\ Raise(c)
    /\ UNCHANGED <<rows, result, effects, crashes>>

\* ReleaseLiveSession, which the saga service calls for an operator.
ReleaseLiveSession(c) ==
    /\ c \in sagas
    /\ live' = live \ {c}
    /\ released' = released \cup {c}
    /\ UNCHANGED <<handler, events, executed, deadLetters, sagas, txn, crashes, breaker>>

\* The process dies and starts again: handlers and sessions are gone, the
\* tables of replay_runtime.db and the other services are not.
Crash ==
    /\ crashes < MaxCrashes
    /\ crashes' = crashes + 1
    /\ pc' = [c \in Call |-> IF pc[c] \in Steps THEN "failed" ELSE pc[c]]
    /\ answer' = [c \in Call |-> IF pc[c] \in Steps THEN "error" ELSE answer[c]]
    /\ live' = {} /\ txn' = "none"
    /\ BreakerRestart
    /\ UNCHANGED <<rows, result, events, executed, deadLetters, sagas, released>>

Fail(c) == FailEarly(c) \/ FailLate(c) \/ FailStore(c) \/ FailLocked(c)

Tick == BreakerTick /\ UNCHANGED <<handler, effects, crashes>>

\* The steps of SubmitReplay in the absence of failures.
Submit(c) ==
    \/ Lookup(c) \/ Create(c) \/ EmitRequested(c)
    \/ Admit(c) \/ Refuse(c) \/ CompleteRefused(c) \/ EmitRefused(c)
    \/ Resolve(c) \/ Start(c) \/ Execute(c, Business) \/ Execute(c, Hard)
    \/ EmitSteps(c) \/ Record(c)
    \/ DeadLetter(c) \/ EmitHardFailure(c) \/ Escalate(c)
    \/ EmitSucceeded(c) \/ Complete(c)

Next ==
    \/ \E c \in Call : Submit(c) \/ Fail(c) \/ ReleaseLiveSession(c)
    \/ Crash
    \/ Tick

SafeSpec == Init /\ [][Next]_vars

\* Where the handler waits for another service, without a deadline.
RpcWait == {"resolve", "deadletter", "escalate"}

\* A handler that has begun does not stop between two steps, unless it waits for
\* a service that may never answer.
Spec == SafeSpec /\ \A c \in Call : WF_vars(pc[c] \notin {"idle"} \cup RpcWait /\ Submit(c))

-----------------------------------------------------------------------------
\* Two calls with one idempotency key never both act on the bank, although the
\* lookup and the insert are two transactions and callers retry.
AtMostOneExecution ==
    \A c, d \in executed : SameKey(c, d) => c = d

\* Whatever is retried and whoever races, the callers with one key that get an
\* answer all get the same run.
AnswersAgree ==
    \A c, d \in Call : SameKey(c, d) /\ {answer[c], answer[d]} \subseteq Call
                         => answer[c] = answer[d]

\* A saga never starts from half a failure: when an operator can see it, the
\* dead letter and the event are there, the run is no longer one that the breaker
\* waits for, and its browser is open (unless released, or lost with the process).
SagaBacked ==
    \A c \in sagas :
        /\ c \in deadLetters
        /\ Emitted(c, "ReplayHardFailure")
        /\ c \notin running
        /\ crashes = 0 => c \in live \cup released

\* The outcome column never runs ahead of the evidence: a run that was executed
\* shows its outcome only after the one event of that outcome -- and, for a hard
\* failure, the dead letter and the saga -- is durable.  A run that the breaker
\* refused shows a hard failure before its event is there, but not any more when
\* its caller has been given the run.
OutcomeEvidenced ==
    \A c \in Call :
        /\ rows[c] = Business => /\ Emitted(c, "ReplaySucceeded")
                                 /\ ~Emitted(c, "ReplayHardFailure")
        /\ rows[c] = Hard => ~Emitted(c, "ReplaySucceeded")
        /\ rows[c] = Hard /\ (c \in executed \/ answer[c] = c) => Emitted(c, "ReplayHardFailure")
        /\ rows[c] = Hard /\ c \in executed => c \in deadLetters \cap sagas

\* What makes the above inductive: the key's row belongs to one call for good,
RowInv ==
    /\ \A c, d \in Call : HasRow(c) /\ HasRow(d) /\ SameKey(c, d) => c = d
    /\ \A c \in Call :
          /\ pc[c] \in {"idle", "create"} => ~HasRow(c)
          /\ pc[c] \in Steps \ {"create"} => HasRow(c)
          /\ c \in executed => HasRow(c)
          /\ answer[c] \in Call => HasRow(answer[c]) /\ SameKey(c, answer[c])
          /\ pc[c] \in Steps \cup {"idle"} => answer[c] = "none"

\* the breaker has exactly the runs between admission and record,
RunningInv ==
    \A c \in Call : c \in running <=> pc[c] \in {"resolve", "start", "run", "steps", "record"}

\* a call only knows an outcome after it has acted on the bank,
ResultInv ==
    \A c \in Call :
        /\ pc[c] \in {"idle", "create", "request", "admit", "reject", "rejected",
                      "resolve", "start"} => c \notin executed
        /\ pc[c] = "run" => c \in executed /\ result[c] = "none"
        /\ c \notin executed => result[c] = "none"
        /\ pc[c] \in {"steps", "record", "complete"} => result[c] # "none"
        /\ pc[c] \in {"deadletter", "hardevent", "escalate"} => result[c] = Hard
        /\ pc[c] = "succeed" => result[c] = Business
        /\ rows[c] \in {Business, Hard} =>
              /\ pc[c] \in {"rejected"} \cup Over
              /\ c \in executed => rows[c] = result[c]
              /\ c \notin executed => rows[c] = Hard

\* and leaves evidence of it in a fixed order.
EvidenceInv ==
    \A c \in Call :
        /\ pc[c] \in {"idle", "create", "request", "admit", "resolve", "start"}
              => ~Emitted(c, "ReplayHardFailure")
        /\ Emitted(c, "ReplaySucceeded") => result[c] = Business
        /\ Emitted(c, "ReplayHardFailure") /\ c \in executed => result[c] = Hard
        /\ pc[c] \in {"hardevent", "escalate"} => c \in deadLetters
        /\ pc[c] = "escalate" => Emitted(c, "ReplayHardFailure")
        /\ pc[c] = "complete" /\ result[c] = Hard => c \in sagas
        /\ pc[c] = "complete" /\ result[c] = Business => Emitted(c, "ReplaySucceeded")
        /\ result[c] = Hard /\ crashes = 0 => c \in live \cup released
        /\ c \in sagas => c \in executed /\ result[c] = Hard

\* The inductive invariant of SubmitReplay.
Inv ==
    /\ TypeOK
    /\ AtMostOneExecution /\ AnswersAgree /\ SagaBacked /\ OutcomeEvidenced
    /\ RowInv /\ RunningInv /\ ResultInv /\ EvidenceInv

\* A browser that is kept when its call is over has a saga through which an
\* operator can release it -- or the call raised on its way to the saga.  Such a
\* browser is in nobody's hands until the process ends; its run can be told from
\* the row, which is still PENDING.
KeptForOperator ==
    \A c \in live : pc[c] \in Over =>
        c \in sagas \/ (pc[c] = "failed" /\ answer[c] = "error" /\ rows[c] = "PENDING")

\* A recorded run gets its outcome or its caller an error, whoever races and
\* whatever fails, when every RPC that its handler makes returns or raises at last.
\* (After an error the row stays PENDING: nobody finishes the run, and a retry
\* with the key is told this run for ever.)
ResolvesOrRaises ==
    \A c \in Call : []<>(pc[c] \notin RpcWait) =>
        (rows[c] = "PENDING" ~> rows[c] \in {Business, Hard} \/ pc[c] = "failed")

\* The key's owner: the call whose row carries the key.
OwnerOf(k) == IF \E c \in Call : HasRow(c) /\ KeyOf[c] = k
              THEN CHOOSE c \in Call : HasRow(c) /\ KeyOf[c] = k ELSE "none"

\* What the callers with key k were told.
ToldTo(k) == {answer[c] : c \in {d \in Call : KeyOf[d] = k /\ answer[d] \in Call}}

O == INSTANCE ReplayOnce WITH
        Run <- Call, None <- "none",
        owner <- [k \in Key |-> OwnerOf(k)],
        touched <- executed,
        told <- [k \in Key |-> ToldTo(k)]

\* SubmitReplay implements the promise of an idempotency key.
ImplementsOnce == O!Spec

\* "a repeated key returns the already-recorded run": no call is answered with
\* an error when no service fails.
RepeatedKeyAnswered == \A c \in Call : answer[c] # "error"
=============================================================================
