------------------------ MODULE EscalationSaga_proofs -----------------------
(***************************************************************************)
(* Proofs about EscalationSaga for any number of sagas and requests, which *)
(* overlap, fail and crash in every way the specification allows.          *)
(***************************************************************************)
EXTENDS EscalationSaga, TLAPS

LEMMA InitInv == Init => Inv
BY DEF Init, Inv, TypeOK, AuditedActions, PlaceInv, QueueInv, TakenInv, Status, Closed

\* Steps that touch neither a queue, nor a session, nor an action.
LEMMA SagaStepInv ==
    ASSUME Inv, NEW r \in Request,
           RequestIntervention(r) \/ NotFound(r) \/ ClaimSession(r) \/ RecordHumanAction(r)
              \/ ActOnLiveSession(r) \/ ReleaseControl(r) \/ ReturnControl(r) \/ Emit(r)
    PROVE  Inv'
<1> USE DEF Inv, Goto, Take
<1>1. TypeOK'
  BY DEF TypeOK, Status, Closed, RequestIntervention, NotFound, ClaimSession,
         RecordHumanAction, ActOnLiveSession, ReleaseControl, ReturnControl, Emit, runtime,
         sagaService
<1>2. AuditedActions'
  BY DEF TypeOK, AuditedActions, PlaceInv, RequestIntervention, NotFound, ClaimSession,
         RecordHumanAction, ActOnLiveSession, ReleaseControl, ReturnControl, Emit, runtime,
         sagaService
<1>3. PlaceInv'
  BY DEF TypeOK, PlaceInv, RequestIntervention, NotFound, ClaimSession,
         RecordHumanAction, ActOnLiveSession, ReleaseControl, ReturnControl, Emit, runtime,
         sagaService
<1>4. /\ queue' = queue /\ live' = live /\ open' = open
      /\ recorded \subseteq recorded'
      /\ \A q \in Request \ {r} : pc'[q] = pc[q]
      /\ pc[r] \notin {"submit", "lost", "queued", "failed"}
  BY DEF TypeOK, RequestIntervention, NotFound, ClaimSession,
         RecordHumanAction, ActOnLiveSession, ReleaseControl, ReturnControl, Emit, runtime,
         sagaService
<1>5. \A s \in Saga : \A i \in DOMAIN queue[s] : queue[s][i] \in Request
  BY DEF TypeOK
<1>6. QueueInv' /\ TakenInv'
  BY <1>4, <1>5 DEF QueueInv, TakenInv
<1> QED BY <1>1, <1>2, <1>3, <1>6

\* What an entry appended to one queue is, and what a queue loses with its head.
LEMMA Appended ==
    ASSUME NEW q \in [Saga -> Seq(Request)], NEW s \in Saga, NEW r \in Request,
           NEW p, p = [q EXCEPT ![s] = Append(@, r)]
    PROVE  /\ p \in [Saga -> Seq(Request)]
           /\ \A t \in Saga \ {s} : p[t] = q[t]
           /\ DOMAIN p[s] = DOMAIN q[s] \cup {Len(q[s]) + 1}
           /\ p[s][Len(q[s]) + 1] = r
           /\ \A i \in DOMAIN q[s] : p[s][i] = q[s][i]
<1>1. q[s] \in Seq(Request) /\ p[s] = Append(q[s], r)
  OBVIOUS
<1>2. Append(q[s], r) \in Seq(Request) /\ Len(Append(q[s], r)) = Len(q[s]) + 1
  BY <1>1
<1>3. DOMAIN p[s] = 1..(Len(q[s]) + 1) /\ DOMAIN q[s] = 1..Len(q[s]) /\ Len(q[s]) \in Nat
  BY <1>1, <1>2
<1>4. \A i \in DOMAIN q[s] : p[s][i] = q[s][i]
  BY <1>1, <1>3
<1>5. p[s][Len(q[s]) + 1] = r
  BY <1>1
<1>6. p \in [Saga -> Seq(Request)] /\ \A t \in Saga \ {s} : p[t] = q[t]
  BY <1>1, <1>2
<1> QED BY <1>3, <1>4, <1>5, <1>6

LEMMA Taken ==
    ASSUME NEW q \in [Saga -> Seq(Request)], NEW s \in Saga, q[s] # <<>>,
           NEW p, p = [q EXCEPT ![s] = Tail(@)]
    PROVE  /\ p \in [Saga -> Seq(Request)]
           /\ \A t \in Saga \ {s} : p[t] = q[t]
           /\ Head(q[s]) \in Request /\ 1 \in DOMAIN q[s] /\ Head(q[s]) = q[s][1]
           /\ \A i \in DOMAIN p[s] : i + 1 \in DOMAIN q[s] /\ p[s][i] = q[s][i + 1]
           /\ \A i \in DOMAIN q[s] : i # 1 => i - 1 \in DOMAIN p[s] /\ p[s][i - 1] = q[s][i]
<1>1. q[s] \in Seq(Request) /\ p[s] = Tail(q[s])
  OBVIOUS
<1>2. Len(q[s]) \in Nat \ {0} /\ DOMAIN q[s] = 1..Len(q[s])
  BY <1>1
<1>3. Tail(q[s]) \in Seq(Request) /\ DOMAIN Tail(q[s]) = 1..(Len(q[s]) - 1)
  BY <1>1, <1>2
<1>4. \A i \in 1..(Len(q[s]) - 1) : Tail(q[s])[i] = q[s][i + 1]
  BY <1>1, <1>2
<1>5. p \in [Saga -> Seq(Request)] /\ \A t \in Saga \ {s} : p[t] = q[t]
  BY <1>3
<1>6. Head(q[s]) \in Request /\ 1 \in DOMAIN q[s] /\ Head(q[s]) = q[s][1]
  BY <1>1, <1>2
<1>7. \A i \in DOMAIN p[s] : i + 1 \in DOMAIN q[s] /\ p[s][i] = q[s][i + 1]
  BY <1>1, <1>2, <1>3, <1>4
<1>8. \A i \in DOMAIN q[s] : i # 1 => i - 1 \in DOMAIN p[s] /\ p[s][i - 1] = q[s][i]
  BY <1>1, <1>2, <1>3, <1>4
<1> QED BY <1>5, <1>6, <1>7, <1>8

\* A job is queued behind what the worker thread has to do already.
LEMMA SubmitInv == ASSUME Inv, NEW r \in Request, Submit(r) PROVE Inv'
<1> DEFINE s == SagaOf[r]
<1> USE DEF Inv
<1>1. /\ s \in Saga /\ pc[r] \in {"submit", "lost"} /\ KindOf[r] \in {"act", "release"}
      /\ KindOf[r] = "act" => r \in recorded
      /\ pc' = [pc EXCEPT ![r] = "queued"] \/ pc' = [pc EXCEPT ![r] = "failed"]
      /\ queue' = [queue EXCEPT ![s] = Append(@, r)]
      /\ UNCHANGED <<status, recorded, emitted, live, open, acted, raised>>
  BY RequestAssumption DEF PlaceInv, Submit, Goto, sagaService
<1>2. /\ queue' \in [Saga -> Seq(Request)]
      /\ \A t \in Saga \ {s} : queue'[t] = queue[t]
      /\ DOMAIN queue'[s] = DOMAIN queue[s] \cup {Len(queue[s]) + 1}
      /\ queue'[s][Len(queue[s]) + 1] = r
      /\ \A i \in DOMAIN queue[s] : queue'[s][i] = queue[s][i]
  <2> HIDE DEF s
  <2> QED BY <1>1, Appended DEF TypeOK
<1>3. QueueInv'
  <2> HIDE DEF s
  <2> QED BY <1>1, <1>2 DEF QueueInv, s
<1>4. PICK next \in {"queued", "failed"} : pc' = [pc EXCEPT ![r] = next]
  BY <1>1
<1>5. pc'[r] = next /\ \A q \in Request \ {r} : pc'[q] = pc[q]
  BY <1>4 DEF TypeOK
<1>6. TypeOK' /\ AuditedActions'
  BY <1>1, <1>2, <1>4 DEF TypeOK, AuditedActions
<1>7. PlaceInv'
  BY <1>1, <1>5 DEF PlaceInv
<1>8. TakenInv'
  BY <1>1, <1>5 DEF TakenInv
<1> QED BY <1>3, <1>6, <1>7, <1>8

\* The session is popped: its close is to come, from this request.
LEMMA PopInv == ASSUME Inv, NEW r \in Request, ReleaseLiveSession(r) PROVE Inv'
<1> DEFINE s == SagaOf[r]
<1> USE DEF Inv
<1>1. /\ s \in Saga /\ pc[r] = "pop" /\ KindOf[r] = "release" /\ live' = live \ {s}
      /\ pc' = [pc EXCEPT ![r] = IF s \in live THEN "submit" ELSE "returned"]
      /\ UNCHANGED <<status, recorded, emitted, open, queue, acted, raised>>
  BY RequestAssumption DEF PlaceInv, ReleaseLiveSession, Goto, sagaService
<1>2. TypeOK' /\ AuditedActions' /\ PlaceInv' /\ QueueInv'
  BY <1>1 DEF TypeOK, AuditedActions, PlaceInv, QueueInv
<1>3. ASSUME NEW t \in open' \ live'
      PROVE  \E q \in Request : /\ KindOf[q] = "release" /\ SagaOf[q] = t
                                /\ pc'[q] \in {"submit", "lost", "queued", "failed"}
  <2>1. CASE t \in live
    BY <1>1, <1>3, <2>1 DEF TypeOK
  <2>2. CASE t \notin live
    BY <1>1, <1>3, <2>2 DEF TypeOK, TakenInv
  <2> QED BY <2>1, <2>2
<1> QED BY <1>2, <1>3 DEF TakenInv

\* The worker thread's next job: an action, performed or given up, or the close,
\* after which the browser is gone or the release fails.
LEMMA WorkInv == ASSUME Inv, NEW s \in Saga, Work(s) PROVE Inv'
<1> USE DEF Inv
<1>1. queue \in [Saga -> Seq(Request)] /\ queue[s] # <<>>
  BY DEF TypeOK, Work, Perform, PerformFails, Close, CloseFails
<1>2. PICK r \in Request : r = Head(queue[s])
  <2> HIDE DEF Inv
  <2> QED BY <1>1, Taken
<1>3. /\ queue' = [queue EXCEPT ![s] = Tail(@)]
      /\ UNCHANGED <<status, recorded, emitted, live>>
      /\ raised' \subseteq raised \cup {s}
  BY DEF Work, Perform, PerformFails, Close, CloseFails, sagaService
<1>4. /\ queue' \in [Saga -> Seq(Request)]
      /\ \A t \in Saga \ {s} : queue'[t] = queue[t]
      /\ 1 \in DOMAIN queue[s] /\ r = queue[s][1]
      /\ \A i \in DOMAIN queue'[s] : i + 1 \in DOMAIN queue[s] /\ queue'[s][i] = queue[s][i + 1]
  <2> HIDE DEF Inv
  <2> QED BY <1>1, <1>2, <1>3, Taken
<1>5. SagaOf[r] = s /\ (KindOf[r] = "act" => r \in recorded)
  BY <1>4 DEF QueueInv
<1>6. \/ /\ KindOf[r] = "act" /\ open' = open /\ acted' = acted \cup {r}
         /\ pc' = IF pc[r] = "queued" THEN [pc EXCEPT ![r] = "emit"] ELSE pc
      \/ /\ KindOf[r] = "act" /\ open' = open /\ acted' = acted
         /\ pc' = IF pc[r] = "queued" THEN [pc EXCEPT ![r] = "failed"] ELSE pc
      \/ /\ KindOf[r] = "release" /\ open' = open \ {s} /\ acted' = acted
         /\ pc' = IF pc[r] = "queued" THEN [pc EXCEPT ![r] = "returned"] ELSE pc
      \/ /\ KindOf[r] = "release" /\ open' \in {open, open \ {s}} /\ acted' = acted
         /\ pc' = IF pc[r] = "queued" THEN [pc EXCEPT ![r] = "failed"] ELSE pc
  BY <1>2 DEF Work, Perform, PerformFails, Close, CloseFails
<1>7. TypeOK'
  BY <1>3, <1>4, <1>6 DEF TypeOK
<1>8. AuditedActions'
  BY <1>3, <1>5, <1>6 DEF TypeOK, AuditedActions
<1>9. PlaceInv'
  BY <1>3, <1>5, <1>6 DEF TypeOK, PlaceInv
<1>10. ASSUME NEW t \in Saga, NEW i \in DOMAIN queue'[t]
       PROVE  /\ SagaOf[queue'[t][i]] = t
              /\ KindOf[queue'[t][i]] = "act" => queue'[t][i] \in recorded'
  BY <1>3, <1>4, <1>10 DEF QueueInv
<1>11. TakenInv'
  BY <1>3, <1>5, <1>6 DEF TypeOK, TakenInv
<1> QED BY <1>7, <1>8, <1>9, <1>10, <1>11 DEF QueueInv

\* Failing RPCs and crashes: handlers give up, what replay_runtime has begun goes
\* on or is gone together with the browser.
LEMMA FaultInv ==
    ASSUME Inv, (\E r \in Request : RpcFails(r)) \/ SagaCrash \/ RuntimeCrash
    PROVE  Inv'
<1> USE DEF Inv
<1>1. ASSUME NEW D \in SUBSET Request, \A r \in D : pc[r] \notin {"idle", "lost", "done"},
             pc' = [r \in Request |-> IF r \in D THEN Dropped(r) ELSE pc[r]],
             UNCHANGED <<status, recorded, emitted, live, open, queue, acted, raised>>
      PROVE  Inv'
  <2>1. TypeOK' /\ AuditedActions'
    BY <1>1 DEF TypeOK, AuditedActions, Dropped
  <2>2. PlaceInv'
    BY <1>1 DEF TypeOK, PlaceInv, Dropped
  <2>3. QueueInv'
    BY <1>1 DEF QueueInv
  <2>4. TakenInv'
    BY <1>1 DEF TypeOK, TakenInv, Dropped
  <2> QED BY <2>1, <2>2, <2>3, <2>4
<1>2. ASSUME NEW r \in Request, RpcFails(r) PROVE Inv'
  <2>1. /\ pc' = [q \in Request |-> IF q \in {r} THEN Dropped(q) ELSE pc[q]]
        /\ pc[r] \notin {"idle", "lost", "done"}
        /\ UNCHANGED <<status, recorded, emitted, live, open, queue, acted, raised>>
    BY <1>2 DEF RpcFails, Goto, sagaService, runtime, TypeOK
  <2> HIDE DEF Inv
  <2> QED BY <1>1, <2>1
<1>3. CASE SagaCrash
  <2>1. /\ pc' = [r \in Request |-> IF r \in Active THEN Dropped(r) ELSE pc[r]]
        /\ Active \subseteq Request /\ \A r \in Active : pc[r] \notin {"idle", "lost", "done"}
        /\ UNCHANGED <<status, recorded, emitted, live, open, queue, acted, raised>>
    BY <1>3 DEF SagaCrash, Active, sagaService, runtime
  <2> HIDE DEF Inv
  <2> QED BY <1>1, <2>1
<1>4. CASE RuntimeCrash
  <2>1. /\ pc' = [r \in Request |-> IF pc[r] \in {"submit", "lost", "queued"} THEN "failed"
                                    ELSE pc[r]]
        /\ live' = {} /\ open' = {} /\ queue' = [s \in Saga |-> <<>>]
        /\ UNCHANGED <<status, recorded, emitted, acted, raised>>
    BY <1>4 DEF RuntimeCrash, sagaService
  <2>2. TypeOK'
    BY <2>1 DEF TypeOK
  <2>3. AuditedActions' /\ PlaceInv' /\ QueueInv' /\ TakenInv'
    BY <2>1 DEF TypeOK, AuditedActions, PlaceInv, QueueInv, TakenInv
  <2> QED BY <2>2, <2>3
<1> QED BY <1>2, <1>3, <1>4

LEMMA StutterInv == ASSUME Inv, UNCHANGED vars PROVE Inv'
BY DEF Inv, TypeOK, AuditedActions, PlaceInv, QueueInv, TakenInv, vars, sagaService, runtime

LEMMA NextInv == ASSUME Inv, [Next]_vars PROVE Inv'
<1>1. ASSUME NEW r \in Request, Handle(r) PROVE Inv'
  BY <1>1, SagaStepInv, SubmitInv, PopInv DEF Handle
<1>2. ASSUME NEW s \in Saga, Work(s) PROVE Inv'
  BY <1>2, WorkInv
<1> QED BY <1>1, <1>2, FaultInv, StutterInv DEF Next

\* Where requests, sessions and queues can be stays consistent, for any number
\* of overlapping requests, failing RPCs and crashes of both processes.
THEOREM Invariance == SafeSpec => []Inv
BY InitInv, NextInv, PTL DEF SafeSpec

\* Nothing is done to the page without its row in human_actions, and no
\* HumanActed event is about an action that was not performed.
THEOREM Audited == SafeSpec => []AuditedActions
<1>1. Inv => AuditedActions
  BY DEF Inv
<1> QED BY <1>1, Invariance, PTL

\* A release that returned has taken the page from everybody, or there is another
\* one that has not returned.
LEMMA ReleasedState == Inv => ClosedWhenReturned
<1> SUFFICES ASSUME Inv, NEW r \in Request, KindOf[r] = "release",
                    pc[r] \in {"returned", "emit", "done"}, SagaOf[r] \in open
             PROVE  \E q \in Request \ {r} :
                        /\ KindOf[q] = "release" /\ SagaOf[q] = SagaOf[r]
                        /\ pc[q] \in {"submit", "lost", "queued", "failed"}
  BY DEF ClosedWhenReturned
<1>1. SagaOf[r] \in open \ live
  BY DEF Inv, PlaceInv
<1> QED BY <1>1 DEF Inv, TakenInv

\* When a release has returned, the browser is closed, or another release took it
\* whose close is to come or has raised.
THEOREM Released == SafeSpec => []ClosedWhenReturned
BY Invariance, ReleasedState, PTL

\* What REPORT.md says of ReleaseControl holds as long as each saga is released
\* once: the browser is closed by the time the release returns.
THEOREM ReleasedOnce == SingleRelease => (SafeSpec => []ClosedAtReturn)
<1>1. SingleRelease /\ ClosedWhenReturned => ClosedAtReturn
  BY DEF SingleRelease, ClosedWhenReturned, ClosedAtReturn
<1> SUFFICES ASSUME SingleRelease PROVE SafeSpec => []ClosedAtReturn
  OBVIOUS
<1>2. ClosedWhenReturned => ClosedAtReturn
  BY <1>1
<1> QED BY <1>2, Released, PTL
=============================================================================
