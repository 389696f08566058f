--------------------------- MODULE EscalationSaga ---------------------------
(***************************************************************************)
(* The hand-over of a hard-failed run to a human: the handlers of          *)
(* services/escalation_saga/server.py over its table sagas, and the live   *)
(* browser session that replay_runtime keeps for the run, with its single  *)
(* worker thread (ActOnLiveSession, ReleaseLiveSession, _PlaywrightSession *)
(* in services/replay_runtime/server.py).  Requests overlap; an RPC to     *)
(* replay_runtime may fail for its caller before or after it took effect;  *)
(* either process may crash.  There is one saga per hard-failed run.       *)
(***************************************************************************)
EXTENDS Naturals, Sequences, FiniteSets, Functions

CONSTANTS Saga,
          Request,      \* the RPCs that the saga service gets
          KindOf,       \* intervene, claim, act or release
          SagaOf,       \* the saga a request is about
          Workers,      \* max_workers of the saga server (8)
          Faults        \* whether RPCs fail and processes crash

Kind == {"intervene", "claim", "act", "release"}

ASSUME RequestAssumption ==
    /\ KindOf \in [Request -> Kind]
    /\ SagaOf \in [Request -> Saga]
    /\ Workers \in Nat \ {0}
    /\ Faults \in BOOLEAN

VARIABLES
    status,      \* column status of table sagas; "none": no row
    recorded,    \* rows of human_actions, named by their request
    emitted,     \* outbox rows, named by the request that emitted them
    pc,          \* where each request is
    live,        \* _live_sessions of replay_runtime
    open,        \* sessions whose browser runs
    queue,       \* jobs of each session's worker thread
    acted,       \* requests whose action was performed on the page
    raised       \* history: sessions whose close has raised

sagaService == <<status, recorded, emitted>>
runtime == <<live, open, queue, acted, raised>>
vars == <<sagaService, pc, runtime>>

Closed == {"RESUMED", "TERMINATED"}
Status == {"none", "INTERVENTION_REQUESTED", "HUMAN_CONTROLLED"} \cup Closed

\* Requests that hold a worker of the saga server.  At "lost" only replay_runtime
\* still works for the request.
Active == {r \in Request : pc[r] \notin {"idle", "lost", "done", "failed"}}

TypeOK ==
    /\ status \in [Saga -> Status]
    /\ recorded \subseteq Request
    /\ emitted \subseteq Request
    /\ pc \in [Request -> {"idle", "send", "pop", "submit", "lost", "queued",
                           "returned", "emit", "done", "failed"}]
    /\ live \subseteq Saga
    /\ open \subseteq Saga
    /\ queue \in [Saga -> Seq(Request)]
    /\ acted \subseteq Request
    /\ raised \subseteq Saga

Init ==
    /\ status = [s \in Saga |-> "none"]
    /\ recorded = {} /\ emitted = {} /\ acted = {} /\ raised = {}
    /\ pc = [r \in Request |-> "idle"]
    /\ live = Saga /\ open = Saga
    /\ queue = [s \in Saga |-> <<>>]

Goto(r, next) == pc' = [pc EXCEPT ![r] = next]

\* A worker of the saga server takes request r.
Take(r, kind) ==
    /\ pc[r] = "idle"
    /\ KindOf[r] = kind
    /\ Cardinality(Active) < Workers

-----------------------------------------------------------------------------
\* RequestIntervention: create().
RequestIntervention(r) ==
    LET s == SagaOf[r] IN
    /\ Take(r, "intervene")
    /\ status[s] = "none"
    /\ status' = [status EXCEPT ![s] = "INTERVENTION_REQUESTED"]
    /\ Goto(r, "emit")
    /\ UNCHANGED <<recorded, emitted, runtime>>

\* Any other handler, for a saga that does not exist: NOT_FOUND.
NotFound(r) ==
    /\ Take(r, KindOf[r])
    /\ KindOf[r] # "intervene"
    /\ status[SagaOf[r]] = "none"
    /\ Goto(r, "failed")
    /\ UNCHANGED <<sagaService, runtime>>

\* ClaimSession: get() and claim().  Neither the status nor the session is
\* looked at.
ClaimSession(r) ==
    LET s == SagaOf[r] IN
    /\ Take(r, "claim")
    /\ status[s] # "none"
    /\ status' = [status EXCEPT ![s] = "HUMAN_CONTROLLED"]
    /\ Goto(r, "emit")
    /\ UNCHANGED <<recorded, emitted, runtime>>

\* Mutant: the page is acted on first, the row is inserted with the event.
RecordHumanActionLate(r) ==
    /\ Take(r, "act")
    /\ status[SagaOf[r]] # "none"
    /\ Goto(r, "send")
    /\ UNCHANGED <<sagaService, runtime>>

\* RecordHumanAction: get() and record_human_action().
RecordHumanAction(r) ==
    /\ Take(r, "act")
    /\ status[SagaOf[r]] # "none"
    /\ recorded' = recorded \cup {r}
    /\ Goto(r, "send")
    /\ UNCHANGED <<status, emitted, runtime>>

\* ActOnLiveSession looks the session up, to submit the action to its worker
\* thread in the next step.
ActOnLiveSession(r) ==
    /\ pc[r] = "send"
    /\ Goto(r, IF SagaOf[r] \in live THEN "submit" ELSE "failed")
    /\ UNCHANGED <<sagaService, runtime>>

\* ReleaseControl: get().
ReleaseControl(r) ==
    /\ Take(r, "release")
    /\ status[SagaOf[r]] # "none"
    /\ Goto(r, "pop")
    /\ UNCHANGED <<sagaService, runtime>>

\* Mutant: the session is popped, its browser is not closed.
PopOnly(r) ==
    /\ pc[r] = "pop"
    /\ live' = live \ {SagaOf[r]}
    /\ Goto(r, "returned")
    /\ UNCHANGED <<sagaService, open, queue, acted, raised>>

\* ReleaseLiveSession pops the session, to submit its close in the next step, or
\* replies at once when there is none (any more).
ReleaseLiveSession(r) ==
    LET s == SagaOf[r] IN
    /\ pc[r] = "pop"
    /\ live' = live \ {s}
    /\ Goto(r, IF s \in live THEN "submit" ELSE "returned")
    /\ UNCHANGED <<sagaService, open, queue, acted, raised>>

\* Mutant: the job is not submitted when nobody waits for it any more.
SubmitIfAwaited(r) ==
    /\ pc[r] \in {"submit", "lost"}
    /\ queue' = IF pc[r] = "submit" THEN [queue EXCEPT ![SagaOf[r]] = Append(@, r)] ELSE queue
    /\ Goto(r, IF pc[r] = "submit" THEN "queued" ELSE "failed")
    /\ UNCHANGED <<sagaService, live, open, acted, raised>>

\* The job, an action or the close, goes to the session's worker thread, whether
\* or not the saga service still waits for it.
Submit(r) ==
    /\ pc[r] \in {"submit", "lost"}
    /\ queue' = [queue EXCEPT ![SagaOf[r]] = Append(@, r)]
    /\ Goto(r, IF pc[r] = "submit" THEN "queued" ELSE "failed")
    /\ UNCHANGED <<sagaService, live, open, acted, raised>>

\* The session's worker thread takes its next job: an action on the page ...
Perform(s) ==
    /\ queue[s] # <<>>
    /\ LET r == Head(queue[s]) IN
       /\ KindOf[r] = "act"
       /\ s \in open
       /\ acted' = acted \cup {r}
       /\ pc' = IF pc[r] = "queued" THEN [pc EXCEPT ![r] = "emit"] ELSE pc
    /\ queue' = [queue EXCEPT ![s] = Tail(@)]
    /\ UNCHANGED <<sagaService, live, open, raised>>

\* ... which raises if it times out or if the browser is closed ...
PerformFails(s) ==
    /\ queue[s] # <<>>
    /\ LET r == Head(queue[s]) IN
       /\ KindOf[r] = "act"
       /\ pc' = IF pc[r] = "queued" THEN [pc EXCEPT ![r] = "failed"] ELSE pc
    /\ queue' = [queue EXCEPT ![s] = Tail(@)]
    /\ UNCHANGED <<sagaService, live, open, acted, raised>>

\* ... or the close ...
Close(s) ==
    /\ queue[s] # <<>>
    /\ LET r == Head(queue[s]) IN
       /\ KindOf[r] = "release"
       /\ open' = open \ {s}
       /\ pc' = IF pc[r] = "queued" THEN [pc EXCEPT ![r] = "returned"] ELSE pc
    /\ queue' = [queue EXCEPT ![s] = Tail(@)]
    /\ UNCHANGED <<sagaService, live, acted, raised>>

\* ... in which browser.close() raises, or playwright.stop() after it.
CloseFails(s) ==
    /\ Faults
    /\ queue[s] # <<>>
    /\ LET r == Head(queue[s]) IN
       /\ KindOf[r] = "release"
       /\ open' \in {open, open \ {s}}
       /\ pc' = IF pc[r] = "queued" THEN [pc EXCEPT ![r] = "failed"] ELSE pc
    /\ queue' = [queue EXCEPT ![s] = Tail(@)]
    /\ raised' = raised \cup {s}
    /\ UNCHANGED <<sagaService, live, acted>>

\* ReleaseControl goes on: release() with RESUMED or TERMINATED.
ReturnControl(r) ==
    /\ pc[r] = "returned"
    /\ \E new \in Closed : status' = [status EXCEPT ![SagaOf[r]] = new]
    /\ Goto(r, "emit")
    /\ UNCHANGED <<recorded, emitted, runtime>>

\* _emit in a transaction of its own, then the reply.
Emit(r) ==
    /\ pc[r] = "emit"
    /\ emitted' = emitted \cup {r}
    /\ Goto(r, "done")
    /\ UNCHANGED <<status, recorded, runtime>>

\* The saga service drops request r: replay_runtime carries on with what it has
\* begun for it.
Dropped(r) == IF pc[r] = "submit" THEN "lost" ELSE "failed"

\* The RPC to replay_runtime fails for the saga service.
RpcFails(r) ==
    /\ Faults
    /\ pc[r] \in {"send", "pop", "submit", "queued"}
    /\ Goto(r, Dropped(r))
    /\ UNCHANGED <<sagaService, runtime>>

\* The saga service restarts: its handlers are gone, its tables are not.
SagaCrash ==
    /\ Faults
    /\ Active # {}
    /\ pc' = [r \in Request |-> IF r \in Active THEN Dropped(r) ELSE pc[r]]
    /\ UNCHANGED <<sagaService, runtime>>

\* replay_runtime restarts: all sessions are gone, and so are the RPCs to it.
RuntimeCrash ==
    /\ Faults
    /\ open # {} \/ live # {}
    /\ live' = {} /\ open' = {}
    /\ queue' = [s \in Saga |-> <<>>]
    /\ pc' = [r \in Request |-> IF pc[r] \in {"submit", "lost", "queued"} THEN "failed"
                             ELSE pc[r]]
    /\ UNCHANGED <<sagaService, acted, raised>>

Handle(r) ==
    \/ RequestIntervention(r) \/ NotFound(r) \/ ClaimSession(r)
    \/ RecordHumanAction(r) \/ ActOnLiveSession(r)
    \/ ReleaseControl(r) \/ ReleaseLiveSession(r) \/ Submit(r)
    \/ ReturnControl(r) \/ Emit(r)

Work(s) == Perform(s) \/ PerformFails(s) \/ Close(s) \/ CloseFails(s)

Next ==
    \/ \E r \in Request : Handle(r) \/ RpcFails(r)
    \/ \E s \in Saga : Work(s)
    \/ SagaCrash
    \/ RuntimeCrash

SafeSpec == Init /\ [][Next]_vars

\* A handler of replay_runtime that has the session goes on to submit, and the
\* sessions' worker threads do their jobs (every action on the page has a timeout).
Spec ==
    /\ SafeSpec
    /\ \A r \in Request : WF_vars(Submit(r))
    /\ \A s \in Saga : WF_vars(Work(s))

-----------------------------------------------------------------------------
\* Nothing is done to the page without an audit row that was durable before,
\* and no HumanActed event speaks of an action that did not happen.
AuditedActions ==
    /\ acted \subseteq recorded
    /\ \A r \in emitted : KindOf[r] = "act" => r \in acted

\* When ReleaseControl has got its reply from replay_runtime, no human action,
\* queued or late, can reach the page any more -- unless another release of the
\* saga has taken the session first, and its close is still to come or has raised.
ClosedWhenReturned ==
    \A r \in Request :
        KindOf[r] = "release" /\ pc[r] \in {"returned", "emit", "done"}
            => \/ SagaOf[r] \notin open
               \/ \E q \in Request \ {r} :
                     /\ KindOf[q] = "release" /\ SagaOf[q] = SagaOf[r]
                     /\ pc[q] \in {"submit", "lost", "queued", "failed"}

\* What makes them inductive: where a request can be, given its kind ...
PlaceInv ==
    \A r \in Request :
        /\ pc[r] = "send" => KindOf[r] = "act"
        /\ pc[r] \in {"pop", "returned"} => KindOf[r] = "release"
        /\ pc[r] \in {"submit", "lost", "queued"} => KindOf[r] \in {"act", "release"}
        /\ KindOf[r] = "act" /\ pc[r] \in {"send", "submit", "lost", "queued"} => r \in recorded
        /\ KindOf[r] = "act" /\ pc[r] \in {"emit", "done"} => r \in acted
        /\ KindOf[r] = "release" /\ pc[r] \notin {"idle", "pop", "failed"}
              => SagaOf[r] \notin live

\* ... what a worker thread's queue holds: recorded actions, and closes ...
QueueInv ==
    \A s \in Saga : \A i \in DOMAIN queue[s] :
        LET r == queue[s][i] IN
        /\ SagaOf[r] = s
        /\ KindOf[r] = "act" => r \in recorded

\* ... and that a session which was popped and is still open has a release that
\* took it and has not returned.
TakenInv ==
    \A s \in open \ live :
        \E q \in Request : /\ KindOf[q] = "release" /\ SagaOf[q] = s
                           /\ pc[q] \in {"submit", "lost", "queued", "failed"}

\* The inductive invariant, behind AuditedActions and ClosedWhenReturned.
Inv == TypeOK /\ AuditedActions /\ PlaceInv /\ QueueInv /\ TakenInv

\* A browser whose session was popped is closed in the end, behind whatever is
\* queued, even if nobody waits for it any more -- unless its close raises.
PoppedCloses == \A s \in Saga : s \notin live ~> s \notin open \/ s \in raised

\* At most one ReleaseControl is sent for a saga.
SingleRelease ==
    \A r, q \in Request :
        KindOf[r] = "release" /\ KindOf[q] = "release" /\ SagaOf[r] = SagaOf[q] => r = q

\* "ReleaseControl closes that session": the browser is closed when it returns.
ClosedAtReturn ==
    \A r \in Request :
        KindOf[r] = "release" /\ pc[r] \in {"returned", "emit", "done"}
            => SagaOf[r] \notin open
=============================================================================
