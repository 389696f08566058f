------------------------ MODULE ReplayRuntime_proofs ------------------------
(***************************************************************************)
(* Proofs about CircuitBreaker and ReplayRuntime, which uses it, for any   *)
(* number of concurrent calls, keys and targets, any failing service and   *)
(* any number of crashes.                                                  *)
(***************************************************************************)
EXTENDS ReplayRuntime, TLAPS

(***************************************************************************)
(* The circuit breaker, for every set of targets and of calls, every       *)
(* threshold and every cooldown.                                           *)
(***************************************************************************)

LEMMA BreakerInitInv == BreakerInit => BreakerInv
BY BreakerAssumption
   DEF BreakerInit, BreakerInv, BreakerTypeOK, ClosedBelowThreshold, WindowHolds, OnlyStaleRun

LEMMA BeforeRunInv ==
    ASSUME BreakerInv, NEW r \in Call, BeforeRun(r)
    PROVE  BreakerInv'
<1> DEFINE t == TargetOf[r]
<1> USE BreakerAssumption DEF BreakerInv
<1>1. t \in Target
  OBVIOUS
<1>2. BreakerTypeOK'
  BY <1>1 DEF BreakerTypeOK, BeforeRun
<1>3. ClosedBelowThreshold'
  BY <1>1 DEF BreakerTypeOK, ClosedBelowThreshold, BeforeRun
<1>4. ASSUME cool[t] > 0, ~rescued[t] PROVE FALSE
  BY <1>1, <1>4 DEF WindowHolds, BeforeRun, CoolingDown
<1>5. WindowHolds'
  BY <1>1, <1>4 DEF BreakerTypeOK, WindowHolds, BeforeRun
<1>6. OnlyStaleRun'
  <2>1. ASSUME NEW s \in running', cool[TargetOf[s]] > 0, ~rescued[TargetOf[s]]
        PROVE  s \in stale[TargetOf[s]]
    <3>1. s \in running
      BY <2>1, <1>4 DEF BeforeRun
    <3> QED BY <3>1, <2>1 DEF OnlyStaleRun
  <2> QED BY <2>1 DEF OnlyStaleRun, BeforeRun
<1> QED BY <1>2, <1>3, <1>5, <1>6

LEMMA RecordSuccessInv ==
    ASSUME BreakerInv, NEW r \in Call, RecordSuccess(r)
    PROVE  BreakerInv'
<1> DEFINE t == TargetOf[r]
<1> USE BreakerAssumption DEF BreakerInv
<1>1. t \in Target
  OBVIOUS
<1>2. BreakerTypeOK'
  BY <1>1 DEF BreakerTypeOK, RecordSuccess
<1>3. ClosedBelowThreshold'
  BY <1>1 DEF BreakerTypeOK, ClosedBelowThreshold, RecordSuccess
<1>4. cool[t] > 0 /\ ~rescued[t] => r \in stale[t]
  BY DEF OnlyStaleRun, RecordSuccess
<1>5. WindowHolds'
  BY <1>1, <1>4 DEF BreakerTypeOK, WindowHolds, RecordSuccess
<1>6. OnlyStaleRun'
  BY <1>1 DEF BreakerTypeOK, OnlyStaleRun, RecordSuccess
<1> QED BY <1>2, <1>3, <1>5, <1>6

LEMMA RecordFailureInv ==
    ASSUME BreakerInv, NEW r \in Call, RecordFailure(r)
    PROVE  BreakerInv'
<1> DEFINE t == TargetOf[r]
<1> USE BreakerAssumption DEF BreakerInv
<1>1. t \in Target
  OBVIOUS
<1>2. BreakerTypeOK'
  BY <1>1 DEF BreakerTypeOK, RecordFailure, OneMore
<1>3. ClosedBelowThreshold'
  BY <1>1 DEF BreakerTypeOK, ClosedBelowThreshold, RecordFailure, OneMore
<1>4. WindowHolds'
  BY <1>1 DEF BreakerTypeOK, WindowHolds, RecordFailure
<1>5. OnlyStaleRun'
  BY <1>1 DEF BreakerTypeOK, OnlyStaleRun, RecordFailure
<1> QED BY <1>2, <1>3, <1>4, <1>5

LEMMA TripInv ==
    ASSUME BreakerInv, NEW r \in Call, Trip(r)
    PROVE  BreakerInv'
<1> DEFINE t == TargetOf[r]
<1> USE BreakerAssumption DEF BreakerInv
<1>1. t \in Target
  OBVIOUS
<1>2. BreakerTypeOK'
  BY <1>1 DEF BreakerTypeOK, Trip, OneMore
<1>3. ClosedBelowThreshold'
  BY <1>1 DEF BreakerTypeOK, ClosedBelowThreshold, Trip, OneMore
<1>4. WindowHolds'
  BY <1>1 DEF BreakerTypeOK, WindowHolds, Trip
<1>5. OnlyStaleRun'
  <2>1. ASSUME NEW s \in running', cool'[TargetOf[s]] > 0, ~rescued'[TargetOf[s]]
        PROVE  s \in stale'[TargetOf[s]]
    <3>1. s \in running /\ s \in Call /\ TargetOf[s] \in Target
      BY <2>1 DEF Trip, BreakerTypeOK
    <3>2. CASE TargetOf[s] = t
      BY <3>2, <2>1, <1>1 DEF Trip, BreakerTypeOK
    <3>3. CASE TargetOf[s] # t
      BY <3>1, <3>3, <2>1, <1>1 DEF Trip, BreakerTypeOK, OnlyStaleRun
    <3> QED BY <3>2, <3>3
  <2> QED BY <2>1 DEF OnlyStaleRun
<1> QED BY <1>2, <1>3, <1>4, <1>5

LEMMA BreakerAbortInv ==
    ASSUME BreakerInv, NEW r \in Call, BreakerAbort(r)
    PROVE  BreakerInv'
<1> USE BreakerAssumption DEF BreakerInv
<1>1. BreakerTypeOK'
  BY DEF BreakerTypeOK, BreakerAbort
<1>2. ClosedBelowThreshold' /\ WindowHolds'
  BY DEF ClosedBelowThreshold, WindowHolds, BreakerAbort
<1>3. OnlyStaleRun'
  BY DEF BreakerTypeOK, OnlyStaleRun, BreakerAbort
<1> QED BY <1>1, <1>2, <1>3

LEMMA BreakerTickInv == ASSUME BreakerInv, BreakerTick PROVE BreakerInv'
<1> USE BreakerAssumption DEF BreakerInv
<1>1. \A t \in Target : cool'[t] > 0 => cool[t] > 0
  BY DEF BreakerTypeOK, BreakerTick
<1>2. BreakerTypeOK'
  BY DEF BreakerTypeOK, BreakerTick
<1>3. ClosedBelowThreshold'
  BY DEF ClosedBelowThreshold, BreakerTick
<1>4. WindowHolds'
  BY <1>1 DEF WindowHolds, BreakerTick
<1>5. OnlyStaleRun'
  BY <1>1 DEF BreakerTypeOK, OnlyStaleRun, BreakerTick
<1> QED BY <1>2, <1>3, <1>4, <1>5

\* Inv is inductive.
LEMMA BreakerNextInv == BreakerInv /\ [BreakerNext]_breaker => BreakerInv'
<1> SUFFICES ASSUME BreakerInv, [BreakerNext]_breaker PROVE BreakerInv'
  OBVIOUS
<1>1. ASSUME NEW r \in Call, BeforeRun(r) PROVE BreakerInv'
  BY <1>1, BeforeRunInv
<1>2. ASSUME NEW r \in Call, Finish(r) PROVE BreakerInv'
  BY <1>2, RecordSuccessInv, RecordFailureInv, TripInv, BreakerAbortInv DEF Finish
<1>3. CASE BreakerRestart
  BY <1>3 DEF BreakerRestart, BreakerInv, BreakerTypeOK, ClosedBelowThreshold,
                WindowHolds, OnlyStaleRun
<1>4. CASE BreakerTick
  BY <1>4, BreakerTickInv
<1>5. CASE UNCHANGED breaker
  BY <1>5 DEF breaker, BreakerInv, BreakerTypeOK, ClosedBelowThreshold, WindowHolds,
              OnlyStaleRun
<1> QED BY <1>1, <1>2, <1>3, <1>4, <1>5 DEF BreakerNext

\* The inductive invariant holds at every step, with any number of overlapping
\* runs on any number of targets.
THEOREM BreakerInvariance == BreakerSafeSpec => []BreakerInv
<1>1. BreakerInit => BreakerInv
  BY BreakerInitInv
<1>2. BreakerInv /\ [BreakerNext]_breaker => BreakerInv'
  BY BreakerNextInv
<1> QED BY <1>1, <1>2, PTL DEF BreakerSafeSpec

\* The state column and the failure counter never contradict each other.
THEOREM StateMatchesCount == BreakerSafeSpec => []ClosedBelowThreshold
<1>1. BreakerInv => ClosedBelowThreshold
  BY DEF BreakerInv
<1> QED BY <1>1, BreakerInvariance, PTL

\* Only the success of a run that was under way at the trip ends a cooldown
\* before its time.
THEOREM WindowInvariance == BreakerSafeSpec => []WindowHolds
<1>1. BreakerInv => WindowHolds
  BY DEF BreakerInv
<1> QED BY <1>1, BreakerInvariance, PTL

-----------------------------------------------------------------------------
\* No two handlers replay against the same target.
Serial == \A r, s \in Call : TargetOf[r] = TargetOf[s] => r = s

\* Without overlap nobody is under way at a trip, so that nobody can rescue.
NoRescue == \A t \in Target : stale[t] = {} /\ (cool[t] > 0 => ~rescued[t])

LEMMA NoRescueInv ==
    Serial /\ BreakerInv /\ BreakerInv' /\ NoRescue /\ [BreakerNext]_breaker => NoRescue'
<1> SUFFICES ASSUME Serial, BreakerInv, NoRescue, [BreakerNext]_breaker PROVE NoRescue'
  OBVIOUS
<1> USE BreakerAssumption
<1>1. ASSUME NEW r \in Call, BeforeRun(r) \/ BreakerAbort(r) \/ RecordFailure(r) PROVE NoRescue'
  BY <1>1 DEF BeforeRun, BreakerAbort, RecordFailure, NoRescue, BreakerInv, BreakerTypeOK
<1>2. ASSUME NEW r \in Call, RecordSuccess(r) PROVE NoRescue'
  BY <1>2 DEF RecordSuccess, NoRescue, BreakerInv, BreakerTypeOK
<1>3. ASSUME NEW r \in Call, Trip(r) PROVE NoRescue'
  <2>1. {s \in running' : TargetOf[s] = TargetOf[r]} = {}
    BY <1>3 DEF Trip, Serial, BreakerInv, BreakerTypeOK
  <2> QED BY <1>3, <2>1 DEF Trip, NoRescue, BreakerInv, BreakerTypeOK
<1>4. CASE BreakerRestart
  BY <1>4 DEF BreakerRestart, NoRescue
<1>5. CASE BreakerTick
  <2>1. \A t \in Target : cool'[t] > 0 => cool[t] > 0
    BY <1>5 DEF BreakerInv, BreakerTypeOK, BreakerTick
  <2> QED BY <1>5, <2>1 DEF BreakerTick, NoRescue
<1>6. CASE UNCHANGED breaker
  BY <1>6 DEF breaker, NoRescue
<1> QED BY <1>1, <1>2, <1>3, <1>4, <1>5, <1>6 DEF BreakerNext, Finish

\* When the runs of a target never overlap, the cooldown window holds without
\* exception: nobody is admitted between a trip and its end.
THEOREM SerialCooldown == Serial => (BreakerSafeSpec => CooldownHonoured)
<1> SUFFICES ASSUME Serial PROVE BreakerSafeSpec => CooldownHonoured
  OBVIOUS
<1> DEFINE Admission == \A r \in Call : r \in running' \ running => cool[TargetOf[r]] = 0
<1>1. BreakerInit => NoRescue
  BY DEF BreakerInit, NoRescue
<1>2. ASSUME BreakerInv, NoRescue, [BreakerNext]_breaker PROVE [Admission]_breaker
  <2> SUFFICES ASSUME NEW r \in Call, r \in running' \ running PROVE cool[TargetOf[r]] = 0
    OBVIOUS
  <2>1. BeforeRun(r)
    BY <1>2 DEF BreakerNext, Finish, BeforeRun, RecordSuccess, RecordFailure, Trip, BreakerAbort,
                BreakerRestart, BreakerTick, breaker
  <2>2. ~CoolingDown(TargetOf[r]) /\ TargetOf[r] \in Target
    BY <2>1, BreakerAssumption DEF BeforeRun
  <2> QED BY <1>2, <2>2 DEF CoolingDown, BreakerInv, BreakerTypeOK, WindowHolds, NoRescue
<1>3. BreakerSafeSpec => []NoRescue
  <2>1. BreakerInv /\ BreakerInv' /\ NoRescue /\ [BreakerNext]_breaker => NoRescue'
    BY NoRescueInv
  <2> QED BY <1>1, <2>1, BreakerInvariance, PTL DEF BreakerSafeSpec
<1> QED BY <1>2, <1>3, BreakerInvariance, PTL DEF BreakerSafeSpec, CooldownHonoured

-----------------------------------------------------------------------------
(***************************************************************************)
(* SubmitReplay.                                                           *)
(***************************************************************************)

\* The conjuncts of Inv that every step has to keep; the other two follow.
Core ==
    /\ TypeOK /\ RowInv /\ RunningInv /\ ResultInv /\ EvidenceInv
    /\ SagaBacked /\ OutcomeEvidenced

\* A row belongs to one key and one call: hence one execution and one answer.
LEMMA CoreInv == Core => Inv
<1> SUFFICES ASSUME Core PROVE AtMostOneExecution /\ AnswersAgree
  BY DEF Core, Inv
<1>1. AtMostOneExecution
  BY DEF Core, TypeOK, RowInv, AtMostOneExecution
<1>2. ASSUME NEW c \in Call, NEW d \in Call, SameKey(c, d),
             answer[c] \in Call, answer[d] \in Call
      PROVE  answer[c] = answer[d]
  <2>1. /\ HasRow(answer[c]) /\ SameKey(c, answer[c])
        /\ HasRow(answer[d]) /\ SameKey(d, answer[d])
    BY <1>2 DEF Core, RowInv
  <2>2. SameKey(answer[c], answer[d])
    BY <1>2, <2>1 DEF SameKey
  <2> QED BY <1>2, <2>1, <2>2 DEF Core, RowInv
<1>3. AnswersAgree
  BY <1>2 DEF AnswersAgree
<1> QED BY <1>1, <1>3

LEMMA InitCore == Init => Core
BY CallAssumption, BreakerAssumption
   DEF Init, Core, TypeOK, RowInv, RunningInv, ResultInv, EvidenceInv, SagaBacked,
       OutcomeEvidenced, Emitted, BreakerInit, BreakerTypeOK, HasRow, Steps, Over, Business, Hard

-----------------------------------------------------------------------------
\* The handlers use the breaker by its own operations.
LEMMA BreakerStep == [Next]_vars => [BreakerNext]_breaker
<1> SUFFICES ASSUME [Next]_vars PROVE [BreakerNext]_breaker
  OBVIOUS
<1>1. ASSUME NEW c \in Call, Submit(c) PROVE [BreakerNext]_breaker
  <2>1. CASE Admit(c)
    BY <2>1 DEF Admit, BreakerNext
  <2>2. CASE Record(c)
    BY <2>2 DEF Record, BreakerNext, Finish
  <2> QED BY <1>1, <2>1, <2>2
          DEF Submit, Lookup, Create, EmitRequested, Refuse, CompleteRefused, EmitRefused,
              Resolve, Start, Execute, EmitSteps, DeadLetter, EmitHardFailure, Escalate,
              EmitSucceeded, Complete, breaker
<1>2. ASSUME NEW c \in Call, Fail(c) \/ ReleaseLiveSession(c)
      PROVE  [BreakerNext]_breaker
  BY <1>2 DEF Fail, FailEarly, FailLate, FailStore, FailLocked, ReleaseLiveSession, BreakerNext, Finish
<1>3. CASE Crash
  BY <1>3 DEF Crash, BreakerNext
<1>4. CASE Tick
  BY <1>4 DEF Tick, BreakerNext
<1>5. CASE UNCHANGED vars
  BY <1>5 DEF vars
<1> QED BY <1>1, <1>2, <1>3, <1>4, <1>5 DEF Next

LEMMA BreakerType == ASSUME BreakerTypeOK, [BreakerNext]_breaker PROVE BreakerTypeOK'
<1> USE BreakerAssumption DEF BreakerTypeOK
<1>1. ASSUME NEW c \in Call, BeforeRun(c) PROVE BreakerTypeOK'
  BY <1>1 DEF BeforeRun
<1>2. ASSUME NEW c \in Call, RecordSuccess(c) PROVE BreakerTypeOK'
  BY <1>2 DEF RecordSuccess
<1>3. ASSUME NEW c \in Call, RecordFailure(c) PROVE BreakerTypeOK'
  BY <1>3 DEF RecordFailure, OneMore
<1>4. ASSUME NEW c \in Call, Trip(c) PROVE BreakerTypeOK'
  BY <1>4 DEF Trip, OneMore
<1>5. ASSUME NEW c \in Call, BreakerAbort(c) PROVE BreakerTypeOK'
  BY <1>5 DEF BreakerAbort
<1>6. CASE BreakerRestart
  BY <1>6 DEF BreakerRestart
<1>7. CASE BreakerTick
  BY <1>7 DEF BreakerTick
<1>8. CASE UNCHANGED breaker
  BY <1>8 DEF breaker
<1> QED BY <1>1, <1>2, <1>3, <1>4, <1>5, <1>6, <1>7, <1>8 DEF BreakerNext, Finish

LEMMA EmitFact ==
    ASSUME NEW c, NEW type, Emit(c, type)
    PROVE  \A d, t : Emitted(d, t)' <=> Emitted(d, t) \/ (d = c /\ t = type)
<1> SUFFICES ASSUME NEW d, NEW t
             PROVE  Emitted(d, t)' <=> Emitted(d, t) \/ (d = c /\ t = type)
  OBVIOUS
<1>1. <<d, t>> \in events' <=> <<d, t>> \in events \/ <<d, t>> = <<c, type>>
  BY DEF Emit
<1>2. <<d, t>> = <<c, type>> <=> (d = c /\ t = type)
  OBVIOUS
<1> QED BY <1>1, <1>2 DEF Emitted

\* Before the breaker is asked, and when it refuses: nothing acts on the bank.
LEMMA EarlyCore ==
    ASSUME Core, NEW c \in Call, BreakerTypeOK',
           Lookup(c) \/ Create(c) \/ Refuse(c) \/ CompleteRefused(c)
    PROVE  Core'
<1> USE CallAssumption
    DEF Core, HasRow, SameKey, Goto, Return, Raise, Steps, Over, Business, Hard
<1>1. \A d, t : Emitted(d, t)' <=> Emitted(d, t)
  BY DEF Emitted, effects, evidence, Lookup, Create, Refuse, CompleteRefused
<1>2. TypeOK'
  BY DEF TypeOK, ResultInv, handler, effects, evidence, breaker, Lookup, Create, Refuse,
         CompleteRefused
<1>3. RowInv'
  BY DEF TypeOK, RowInv, ResultInv, handler, effects, evidence, breaker, Lookup, Create,
         Refuse, CompleteRefused
<1>4. RunningInv'
  BY DEF TypeOK, RunningInv, ResultInv, handler, effects, evidence, breaker, Lookup, Create,
         Refuse, CompleteRefused
<1>5. ResultInv'
  BY DEF TypeOK, RowInv, ResultInv, handler, effects, evidence, breaker, Lookup, Create,
         Refuse, CompleteRefused
<1>6. EvidenceInv'
  BY <1>1 DEF TypeOK, RowInv, ResultInv, EvidenceInv, handler, effects, evidence, breaker,
              Lookup, Create, Refuse, CompleteRefused
<1>7. SagaBacked'
  BY <1>1 DEF TypeOK, RunningInv, ResultInv, EvidenceInv, SagaBacked, handler, effects,
              evidence, breaker, Lookup, Create, Refuse, CompleteRefused
<1>8. OutcomeEvidenced'
  BY <1>1 DEF TypeOK, RowInv, ResultInv, EvidenceInv, SagaBacked, OutcomeEvidenced, handler,
              effects, evidence, breaker, Lookup, Create, Refuse, CompleteRefused
<1> QED BY <1>2, <1>3, <1>4, <1>5, <1>6, <1>7, <1>8

\* The event of the run that was just recorded.
LEMMA EmitRequestedCore ==
    ASSUME Core, NEW c \in Call, BreakerTypeOK',
           EmitRequested(c)
    PROVE  Core'
<1> USE CallAssumption
    DEF Core, HasRow, SameKey, Goto, Return, Raise, Steps, Over, Business, Hard
<1>1. /\ UNCHANGED <<executed, live, deadLetters, sagas, released>>
      /\ \A d \in Call :
            /\ Emitted(d, "ReplaySucceeded")' <=> Emitted(d, "ReplaySucceeded")
            /\ Emitted(d, "ReplayHardFailure")' <=> Emitted(d, "ReplayHardFailure")
  <2> HIDE DEF Core, HasRow, SameKey, Goto, Return, Raise, Steps, Over, Business, Hard
  <2>1. Emit(c, "ReplayRequested")
    BY DEF EmitRequested
  <2>2. \A d, t : Emitted(d, t)' <=> Emitted(d, t) \/ (d = c /\ t = "ReplayRequested")
    BY <2>1, EmitFact
  <2> QED BY <2>1, <2>2 DEF Emit
<1>2. TypeOK'
  BY DEF TypeOK, ResultInv, Emit, handler, effects, evidence, breaker, EmitRequested
<1>3. RowInv'
  BY DEF TypeOK, RowInv, ResultInv, Emit, handler, effects, evidence, breaker, EmitRequested
<1>4. RunningInv'
  BY DEF TypeOK, RunningInv, ResultInv, Emit, handler, effects, evidence, breaker,
         EmitRequested
<1>5. ResultInv'
  BY DEF TypeOK, RowInv, ResultInv, Emit, handler, effects, evidence, breaker, EmitRequested
<1>6. EvidenceInv'
  BY <1>1 DEF TypeOK, RowInv, ResultInv, EvidenceInv, handler, effects, evidence, breaker,
              EmitRequested
<1>7. SagaBacked'
  BY <1>1 DEF TypeOK, RunningInv, ResultInv, EvidenceInv, SagaBacked, handler, effects,
              evidence, breaker, EmitRequested
<1>8. OutcomeEvidenced'
  BY <1>1 DEF TypeOK, RowInv, ResultInv, EvidenceInv, SagaBacked, OutcomeEvidenced, handler,
              effects, evidence, breaker, EmitRequested
<1> QED BY <1>2, <1>3, <1>4, <1>5, <1>6, <1>7, <1>8

\* The event of a refused run, which has not acted on the bank.
LEMMA EmitRefusedCore ==
    ASSUME Core, NEW c \in Call, BreakerTypeOK',
           EmitRefused(c)
    PROVE  Core'
<1> USE CallAssumption
    DEF Core, HasRow, SameKey, Goto, Return, Raise, Steps, Over, Business, Hard
<1>1. /\ UNCHANGED <<executed, live, deadLetters, sagas, released>>
      /\ \A d \in Call :
            /\ Emitted(d, "ReplaySucceeded")' <=> Emitted(d, "ReplaySucceeded")
            /\ Emitted(d, "ReplayHardFailure")' <=> Emitted(d, "ReplayHardFailure") \/ d = c
  <2> HIDE DEF Core, HasRow, SameKey, Goto, Return, Raise, Steps, Over, Business, Hard
  <2>1. Emit(c, "ReplayHardFailure")
    BY DEF EmitRefused
  <2>2. \A d, t : Emitted(d, t)' <=> Emitted(d, t) \/ (d = c /\ t = "ReplayHardFailure")
    BY <2>1, EmitFact
  <2> QED BY <2>1, <2>2 DEF Emit
<1>2. TypeOK'
  BY DEF TypeOK, ResultInv, Emit, handler, effects, evidence, breaker, EmitRefused
<1>3. RowInv'
  BY DEF TypeOK, RowInv, ResultInv, Emit, handler, effects, evidence, breaker, EmitRefused
<1>4. RunningInv'
  BY DEF TypeOK, RunningInv, ResultInv, Emit, handler, effects, evidence, breaker, EmitRefused
<1>5. ResultInv'
  BY DEF TypeOK, RowInv, ResultInv, Emit, handler, effects, evidence, breaker, EmitRefused
<1>6. EvidenceInv'
  BY <1>1 DEF TypeOK, RowInv, ResultInv, EvidenceInv, handler, effects, evidence, breaker,
              EmitRefused
<1>7. SagaBacked'
  BY <1>1 DEF TypeOK, RunningInv, ResultInv, EvidenceInv, SagaBacked, handler, effects,
              evidence, breaker, EmitRefused
<1>8. OutcomeEvidenced'
  BY <1>1 DEF TypeOK, RowInv, ResultInv, EvidenceInv, SagaBacked, OutcomeEvidenced, handler,
              effects, evidence, breaker, EmitRefused
<1> QED BY <1>2, <1>3, <1>4, <1>5, <1>6, <1>7, <1>8

\* Admission.
LEMMA AdmitCore ==
    ASSUME Core, NEW c \in Call, BreakerTypeOK',
           Admit(c)
    PROVE  Core'
<1> USE CallAssumption
    DEF Core, HasRow, SameKey, Goto, Return, Raise, Steps, Over, Business, Hard
<1>1. \A d, t : Emitted(d, t)' <=> Emitted(d, t)
  BY DEF Emitted, effects, evidence, Admit
<1>2. TypeOK'
  BY DEF TypeOK, ResultInv, handler, effects, evidence, breaker, Admit, BeforeRun
<1>3. RowInv'
  BY DEF TypeOK, RowInv, ResultInv, handler, effects, evidence, breaker, Admit, BeforeRun
<1>4. RunningInv'
  BY DEF TypeOK, RunningInv, ResultInv, handler, effects, evidence, breaker, Admit,
         BeforeRun
<1>5. ResultInv'
  BY DEF TypeOK, RowInv, ResultInv, handler, effects, evidence, breaker, Admit, BeforeRun
<1>6. EvidenceInv'
  BY <1>1 DEF TypeOK, RowInv, ResultInv, EvidenceInv, handler, effects, evidence, breaker,
              Admit, BeforeRun
<1>7. SagaBacked'
  BY <1>1 DEF TypeOK, RunningInv, ResultInv, EvidenceInv, SagaBacked, handler, effects,
              evidence, breaker, Admit, BeforeRun
<1>8. OutcomeEvidenced'
  BY <1>1 DEF TypeOK, RowInv, ResultInv, EvidenceInv, SagaBacked, OutcomeEvidenced, handler,
              effects, evidence, breaker, Admit, BeforeRun
<1> QED BY <1>2, <1>3, <1>4, <1>5, <1>6, <1>7, <1>8

\* The capability is resolved, then the bank is acted on.
LEMMA StartCore ==
    ASSUME Core, NEW c \in Call, BreakerTypeOK',
           Resolve(c) \/ Start(c)
    PROVE  Core'
<1> USE CallAssumption
    DEF Core, HasRow, SameKey, Goto, Return, Raise, Steps, Over, Business, Hard
<1>1. \A d, t : Emitted(d, t)' <=> Emitted(d, t)
  BY DEF Emitted, effects, evidence, Resolve, Start
<1>2. TypeOK'
  BY DEF TypeOK, ResultInv, handler, effects, evidence, breaker, Resolve, Start
<1>3. RowInv'
  BY DEF TypeOK, RowInv, ResultInv, handler, effects, evidence, breaker, Resolve, Start
<1>4. RunningInv'
  BY DEF TypeOK, RunningInv, ResultInv, handler, effects, evidence, breaker, Resolve, Start
<1>5. ResultInv'
  BY DEF TypeOK, RowInv, ResultInv, handler, effects, evidence, breaker, Resolve, Start
<1>6. EvidenceInv'
  BY <1>1 DEF TypeOK, RowInv, ResultInv, EvidenceInv, handler, effects, evidence, breaker,
              Resolve, Start
<1>7. SagaBacked'
  BY <1>1 DEF TypeOK, RunningInv, ResultInv, EvidenceInv, SagaBacked, handler, effects,
              evidence, breaker, Resolve, Start
<1>8. OutcomeEvidenced'
  BY <1>1 DEF TypeOK, RowInv, ResultInv, EvidenceInv, SagaBacked, OutcomeEvidenced, handler,
              effects, evidence, breaker, Resolve, Start
<1> QED BY <1>2, <1>3, <1>4, <1>5, <1>6, <1>7, <1>8

\* The outcome is known to the handler alone.
LEMMA ExecuteCore ==
    ASSUME Core, NEW c \in Call, NEW o \in {Business, Hard}, BreakerTypeOK',
           Execute(c, o)
    PROVE  Core'
<1> USE CallAssumption
    DEF Core, HasRow, SameKey, Goto, Return, Raise, Steps, Over, Business, Hard
<1>1. \A d, t : Emitted(d, t)' <=> Emitted(d, t)
  BY DEF Emitted, effects, evidence, Execute
<1>2. TypeOK'
  BY DEF TypeOK, ResultInv, handler, effects, evidence, breaker, Execute
<1>3. RowInv'
  BY DEF TypeOK, RowInv, ResultInv, handler, effects, evidence, breaker, Execute
<1>4. RunningInv'
  BY DEF TypeOK, RunningInv, ResultInv, handler, effects, evidence, breaker, Execute
<1>5. ResultInv'
  BY DEF TypeOK, RowInv, ResultInv, handler, effects, evidence, breaker, Execute
<1>6. EvidenceInv'
  BY <1>1 DEF TypeOK, RowInv, ResultInv, EvidenceInv, handler, effects, evidence, breaker,
              Execute
<1>7. SagaBacked'
  BY <1>1 DEF TypeOK, RunningInv, ResultInv, EvidenceInv, SagaBacked, handler, effects,
              evidence, breaker, Execute
<1>8. OutcomeEvidenced'
  BY <1>1 DEF TypeOK, RowInv, ResultInv, EvidenceInv, SagaBacked, OutcomeEvidenced, handler,
              effects, evidence, breaker, Execute
<1> QED BY <1>2, <1>3, <1>4, <1>5, <1>6, <1>7, <1>8

\* The steps' events are no evidence of an outcome.
LEMMA EmitStepsCore ==
    ASSUME Core, NEW c \in Call, BreakerTypeOK',
           EmitSteps(c)
    PROVE  Core'
<1> USE CallAssumption
    DEF Core, HasRow, SameKey, Goto, Return, Raise, Steps, Over, Business, Hard
<1>1. /\ UNCHANGED <<executed, live, deadLetters, sagas, released>>
      /\ \A d \in Call :
            /\ Emitted(d, "ReplaySucceeded")' <=> Emitted(d, "ReplaySucceeded")
            /\ Emitted(d, "ReplayHardFailure")' <=> Emitted(d, "ReplayHardFailure")
  <2> HIDE DEF Core, HasRow, SameKey, Goto, Return, Raise, Steps, Over, Business, Hard
  <2>1. Emit(c, "ReplayStepExecuted")
    BY DEF EmitSteps
  <2>2. \A d, t : Emitted(d, t)' <=> Emitted(d, t) \/ (d = c /\ t = "ReplayStepExecuted")
    BY <2>1, EmitFact
  <2> QED BY <2>1, <2>2 DEF Emit
<1>2. TypeOK'
  BY DEF TypeOK, ResultInv, Emit, handler, effects, evidence, breaker, EmitSteps
<1>3. RowInv'
  BY DEF TypeOK, RowInv, ResultInv, Emit, handler, effects, evidence, breaker, EmitSteps
<1>4. RunningInv'
  BY DEF TypeOK, RunningInv, ResultInv, Emit, handler, effects, evidence, breaker, EmitSteps
<1>5. ResultInv'
  BY DEF TypeOK, RowInv, ResultInv, Emit, handler, effects, evidence, breaker, EmitSteps
<1>6. EvidenceInv'
  BY <1>1 DEF TypeOK, RowInv, ResultInv, EvidenceInv, handler, effects, evidence, breaker,
              EmitSteps
<1>7. SagaBacked'
  BY <1>1 DEF TypeOK, RunningInv, ResultInv, EvidenceInv, SagaBacked, handler, effects,
              evidence, breaker, EmitSteps
<1>8. OutcomeEvidenced'
  BY <1>1 DEF TypeOK, RowInv, ResultInv, EvidenceInv, SagaBacked, OutcomeEvidenced, handler,
              effects, evidence, breaker, EmitSteps
<1> QED BY <1>2, <1>3, <1>4, <1>5, <1>6, <1>7, <1>8

\* The breaker counts the run before anybody can see its outcome.
LEMMA RecordCore ==
    ASSUME Core, NEW c \in Call, BreakerTypeOK',
           Record(c)
    PROVE  Core'
<1> USE CallAssumption
    DEF Core, HasRow, SameKey, Goto, Return, Raise, Steps, Over, Business, Hard
<1>1. \A d, t : Emitted(d, t)' <=> Emitted(d, t)
  BY DEF Emitted, effects, evidence, Record
<1>2. TypeOK'
  BY DEF TypeOK, ResultInv, handler, effects, evidence, breaker, Record, RecordSuccess,
         RecordFailure, Trip
<1>3. RowInv'
  BY DEF TypeOK, RowInv, ResultInv, handler, effects, evidence, breaker, Record,
         RecordSuccess, RecordFailure, Trip
<1>4. RunningInv'
  BY DEF TypeOK, RunningInv, ResultInv, handler, effects, evidence, breaker, Record,
         RecordSuccess, RecordFailure, Trip
<1>5. ResultInv'
  BY DEF TypeOK, RowInv, ResultInv, handler, effects, evidence, breaker, Record,
         RecordSuccess, RecordFailure, Trip
<1>6. EvidenceInv'
  BY <1>1 DEF TypeOK, RowInv, ResultInv, EvidenceInv, handler, effects, evidence, breaker,
              Record, RecordSuccess, RecordFailure, Trip
<1>7. SagaBacked'
  BY <1>1 DEF TypeOK, RunningInv, ResultInv, EvidenceInv, SagaBacked, handler, effects,
              evidence, breaker, Record, RecordSuccess, RecordFailure, Trip
<1>8. OutcomeEvidenced'
  BY <1>1 DEF TypeOK, RowInv, ResultInv, EvidenceInv, SagaBacked, OutcomeEvidenced, handler,
              effects, evidence, breaker, Record, RecordSuccess, RecordFailure, Trip
<1> QED BY <1>2, <1>3, <1>4, <1>5, <1>6, <1>7, <1>8

\* A hard failure: dead letter, then the operator's saga.
LEMMA EscalateCore ==
    ASSUME Core, NEW c \in Call, BreakerTypeOK',
           DeadLetter(c) \/ Escalate(c)
    PROVE  Core'
<1> USE CallAssumption
    DEF Core, HasRow, SameKey, Goto, Return, Raise, Steps, Over, Business, Hard
<1>1. \A d, t : Emitted(d, t)' <=> Emitted(d, t)
  BY DEF Emitted, effects, evidence, DeadLetter, Escalate
<1>2. TypeOK'
  BY DEF TypeOK, ResultInv, handler, effects, evidence, breaker, DeadLetter, Escalate
<1>3. RowInv'
  BY DEF TypeOK, RowInv, ResultInv, handler, effects, evidence, breaker, DeadLetter, Escalate
<1>4. RunningInv'
  BY DEF TypeOK, RunningInv, ResultInv, handler, effects, evidence, breaker, DeadLetter,
         Escalate
<1>5. ResultInv'
  BY DEF TypeOK, RowInv, ResultInv, handler, effects, evidence, breaker, DeadLetter, Escalate
<1>6. EvidenceInv'
  BY <1>1 DEF TypeOK, RowInv, ResultInv, EvidenceInv, handler, effects, evidence, breaker,
              DeadLetter, Escalate
<1>7. SagaBacked'
  BY <1>1 DEF TypeOK, RunningInv, ResultInv, EvidenceInv, SagaBacked, handler, effects,
              evidence, breaker, DeadLetter, Escalate
<1>8. OutcomeEvidenced'
  BY <1>1 DEF TypeOK, RowInv, ResultInv, EvidenceInv, SagaBacked, OutcomeEvidenced, handler,
              effects, evidence, breaker, DeadLetter, Escalate
<1> QED BY <1>2, <1>3, <1>4, <1>5, <1>6, <1>7, <1>8

\* Its event comes in between.
LEMMA EmitHardFailureCore ==
    ASSUME Core, NEW c \in Call, BreakerTypeOK',
           EmitHardFailure(c)
    PROVE  Core'
<1> USE CallAssumption
    DEF Core, HasRow, SameKey, Goto, Return, Raise, Steps, Over, Business, Hard
<1>1. /\ UNCHANGED <<executed, live, deadLetters, sagas, released>>
      /\ \A d \in Call :
            /\ Emitted(d, "ReplaySucceeded")' <=> Emitted(d, "ReplaySucceeded")
            /\ Emitted(d, "ReplayHardFailure")' <=> Emitted(d, "ReplayHardFailure") \/ d = c
  <2> HIDE DEF Core, HasRow, SameKey, Goto, Return, Raise, Steps, Over, Business, Hard
  <2>1. Emit(c, "ReplayHardFailure")
    BY DEF EmitHardFailure
  <2>2. \A d, t : Emitted(d, t)' <=> Emitted(d, t) \/ (d = c /\ t = "ReplayHardFailure")
    BY <2>1, EmitFact
  <2> QED BY <2>1, <2>2 DEF Emit
<1>2. TypeOK'
  BY DEF TypeOK, ResultInv, Emit, handler, effects, evidence, breaker, EmitHardFailure
<1>3. RowInv'
  BY DEF TypeOK, RowInv, ResultInv, Emit, handler, effects, evidence, breaker, EmitHardFailure
<1>4. RunningInv'
  BY DEF TypeOK, RunningInv, ResultInv, Emit, handler, effects, evidence, breaker,
         EmitHardFailure
<1>5. ResultInv'
  BY DEF TypeOK, RowInv, ResultInv, Emit, handler, effects, evidence, breaker, EmitHardFailure
<1>6. EvidenceInv'
  BY <1>1 DEF TypeOK, RowInv, ResultInv, EvidenceInv, handler, effects, evidence, breaker,
              EmitHardFailure
<1>7. SagaBacked'
  BY <1>1 DEF TypeOK, RunningInv, ResultInv, EvidenceInv, SagaBacked, handler, effects,
              evidence, breaker, EmitHardFailure
<1>8. OutcomeEvidenced'
  BY <1>1 DEF TypeOK, RowInv, ResultInv, EvidenceInv, SagaBacked, OutcomeEvidenced, handler,
              effects, evidence, breaker, EmitHardFailure
<1> QED BY <1>2, <1>3, <1>4, <1>5, <1>6, <1>7, <1>8

\* The event of a business outcome.
LEMMA EmitSucceededCore ==
    ASSUME Core, NEW c \in Call, BreakerTypeOK',
           EmitSucceeded(c)
    PROVE  Core'
<1> USE CallAssumption
    DEF Core, HasRow, SameKey, Goto, Return, Raise, Steps, Over, Business, Hard
<1>1. /\ UNCHANGED <<executed, live, deadLetters, sagas, released>>
      /\ \A d \in Call :
            /\ Emitted(d, "ReplaySucceeded")' <=> Emitted(d, "ReplaySucceeded") \/ d = c
            /\ Emitted(d, "ReplayHardFailure")' <=> Emitted(d, "ReplayHardFailure")
  <2> HIDE DEF Core, HasRow, SameKey, Goto, Return, Raise, Steps, Over, Business, Hard
  <2>1. Emit(c, "ReplaySucceeded")
    BY DEF EmitSucceeded
  <2>2. \A d, t : Emitted(d, t)' <=> Emitted(d, t) \/ (d = c /\ t = "ReplaySucceeded")
    BY <2>1, EmitFact
  <2> QED BY <2>1, <2>2 DEF Emit
<1>2. TypeOK'
  BY DEF TypeOK, ResultInv, Emit, handler, effects, evidence, breaker, EmitSucceeded
<1>3. RowInv'
  BY DEF TypeOK, RowInv, ResultInv, Emit, handler, effects, evidence, breaker, EmitSucceeded
<1>4. RunningInv'
  BY DEF TypeOK, RunningInv, ResultInv, Emit, handler, effects, evidence, breaker,
         EmitSucceeded
<1>5. ResultInv'
  BY DEF TypeOK, RowInv, ResultInv, Emit, handler, effects, evidence, breaker, EmitSucceeded
<1>6. EvidenceInv'
  BY <1>1 DEF TypeOK, RowInv, ResultInv, EvidenceInv, handler, effects, evidence, breaker,
              EmitSucceeded
<1>7. SagaBacked'
  BY <1>1 DEF TypeOK, RunningInv, ResultInv, EvidenceInv, SagaBacked, handler, effects,
              evidence, breaker, EmitSucceeded
<1>8. OutcomeEvidenced'
  BY <1>1 DEF TypeOK, RowInv, ResultInv, EvidenceInv, SagaBacked, OutcomeEvidenced, handler,
              effects, evidence, breaker, EmitSucceeded
<1> QED BY <1>2, <1>3, <1>4, <1>5, <1>6, <1>7, <1>8

\* The outcome column comes last.
LEMMA CompleteCore ==
    ASSUME Core, NEW c \in Call, BreakerTypeOK',
           Complete(c)
    PROVE  Core'
<1> USE CallAssumption
    DEF Core, HasRow, SameKey, Goto, Return, Raise, Steps, Over, Business, Hard
<1>1. \A d, t : Emitted(d, t)' <=> Emitted(d, t)
  BY DEF Emitted, effects, evidence, Complete
<1>2. TypeOK'
  BY DEF TypeOK, ResultInv, handler, effects, evidence, breaker, Complete
<1>3. RowInv'
  BY DEF TypeOK, RowInv, ResultInv, handler, effects, evidence, breaker, Complete
<1>4. RunningInv'
  BY DEF TypeOK, RunningInv, ResultInv, handler, effects, evidence, breaker, Complete
<1>5. ResultInv'
  BY DEF TypeOK, RowInv, ResultInv, handler, effects, evidence, breaker, Complete
<1>6. EvidenceInv'
  BY <1>1 DEF TypeOK, RowInv, ResultInv, EvidenceInv, handler, effects, evidence, breaker,
              Complete
<1>7. SagaBacked'
  BY <1>1 DEF TypeOK, RunningInv, ResultInv, EvidenceInv, SagaBacked, handler, effects,
              evidence, breaker, Complete
<1>8. OutcomeEvidenced'
  BY <1>1 DEF TypeOK, RowInv, ResultInv, EvidenceInv, SagaBacked, OutcomeEvidenced, handler,
              effects, evidence, breaker, Complete
<1> QED BY <1>2, <1>3, <1>4, <1>5, <1>6, <1>7, <1>8

\* The handler raises, early or late.
LEMMA FailCore ==
    ASSUME Core, NEW c \in Call, BreakerTypeOK',
           Fail(c)
    PROVE  Core'
<1> USE CallAssumption
    DEF Core, HasRow, SameKey, Goto, Return, Raise, Steps, Over, Business, Hard
<1>1. \A d, t : Emitted(d, t)' <=> Emitted(d, t)
  BY DEF Emitted, effects, evidence, Fail, FailEarly, FailLate, FailStore, FailLocked
<1>2. TypeOK'
  BY DEF TypeOK, ResultInv, handler, effects, evidence, breaker, Fail, FailEarly, FailLate,
         FailStore, FailLocked, BreakerAbort
<1>3. RowInv'
  BY DEF TypeOK, RowInv, ResultInv, handler, effects, evidence, breaker, Fail, FailEarly,
         FailLate, FailStore, FailLocked, BreakerAbort
<1>4. RunningInv'
  BY DEF TypeOK, RunningInv, ResultInv, handler, effects, evidence, breaker, Fail, FailEarly,
         FailLate, FailStore, FailLocked, BreakerAbort
<1>5. ResultInv'
  BY DEF TypeOK, RowInv, ResultInv, handler, effects, evidence, breaker, Fail, FailEarly,
         FailLate, FailStore, FailLocked, BreakerAbort
<1>6. EvidenceInv'
  BY <1>1 DEF TypeOK, RowInv, ResultInv, EvidenceInv, handler, effects, evidence, breaker,
              Fail, FailEarly, FailLate, FailStore, FailLocked, BreakerAbort
<1>7. SagaBacked'
  BY <1>1 DEF TypeOK, RunningInv, ResultInv, EvidenceInv, SagaBacked, handler, effects,
              evidence, breaker, Fail, FailEarly, FailLate, FailStore, FailLocked, BreakerAbort
<1>8. OutcomeEvidenced'
  BY <1>1 DEF TypeOK, RowInv, ResultInv, EvidenceInv, SagaBacked, OutcomeEvidenced, handler,
              effects, evidence, breaker, Fail, FailEarly, FailLate, FailStore, FailLocked, BreakerAbort
<1> QED BY <1>2, <1>3, <1>4, <1>5, <1>6, <1>7, <1>8

\* The operator's release.
LEMMA ReleaseCore ==
    ASSUME Core, NEW c \in Call, BreakerTypeOK',
           ReleaseLiveSession(c)
    PROVE  Core'
<1> USE CallAssumption
    DEF Core, HasRow, SameKey, Goto, Return, Raise, Steps, Over, Business, Hard
<1>1. \A d, t : Emitted(d, t)' <=> Emitted(d, t)
  BY DEF Emitted, effects, evidence, ReleaseLiveSession
<1>2. TypeOK'
  BY DEF TypeOK, ResultInv, handler, effects, evidence, breaker, ReleaseLiveSession
<1>3. RowInv'
  BY DEF TypeOK, RowInv, ResultInv, handler, effects, evidence, breaker, ReleaseLiveSession
<1>4. RunningInv'
  BY DEF TypeOK, RunningInv, ResultInv, handler, effects, evidence, breaker,
         ReleaseLiveSession
<1>5. ResultInv'
  BY DEF TypeOK, RowInv, ResultInv, handler, effects, evidence, breaker, ReleaseLiveSession
<1>6. EvidenceInv'
  BY <1>1 DEF TypeOK, RowInv, ResultInv, EvidenceInv, handler, effects, evidence, breaker,
              ReleaseLiveSession
<1>7. SagaBacked'
  BY <1>1 DEF TypeOK, RunningInv, ResultInv, EvidenceInv, SagaBacked, handler, effects,
              evidence, breaker, ReleaseLiveSession
<1>8. OutcomeEvidenced'
  BY <1>1 DEF TypeOK, RowInv, ResultInv, EvidenceInv, SagaBacked, OutcomeEvidenced, handler,
              effects, evidence, breaker, ReleaseLiveSession
<1> QED BY <1>2, <1>3, <1>4, <1>5, <1>6, <1>7, <1>8

\* The wall clock.
LEMMA TickCore ==
    ASSUME Core, BreakerTypeOK',
           Tick
    PROVE  Core'
<1> USE CallAssumption
    DEF Core, HasRow, SameKey, Goto, Return, Raise, Steps, Over, Business, Hard
<1>1. \A d, t : Emitted(d, t)' <=> Emitted(d, t)
  BY DEF Emitted, effects, evidence, Tick
<1>2. TypeOK'
  BY DEF TypeOK, ResultInv, handler, effects, evidence, breaker, Tick, BreakerTick
<1>3. RowInv'
  BY DEF TypeOK, RowInv, ResultInv, handler, effects, evidence, breaker, Tick, BreakerTick
<1>4. RunningInv'
  BY DEF TypeOK, RunningInv, ResultInv, handler, effects, evidence, breaker, Tick, BreakerTick
<1>5. ResultInv'
  BY DEF TypeOK, RowInv, ResultInv, handler, effects, evidence, breaker, Tick, BreakerTick
<1>6. EvidenceInv'
  BY <1>1 DEF TypeOK, RowInv, ResultInv, EvidenceInv, handler, effects, evidence, breaker,
              Tick, BreakerTick
<1>7. SagaBacked'
  BY <1>1 DEF TypeOK, RunningInv, ResultInv, EvidenceInv, SagaBacked, handler, effects,
              evidence, breaker, Tick, BreakerTick
<1>8. OutcomeEvidenced'
  BY <1>1 DEF TypeOK, RowInv, ResultInv, EvidenceInv, SagaBacked, OutcomeEvidenced, handler,
              effects, evidence, breaker, Tick, BreakerTick
<1> QED BY <1>2, <1>3, <1>4, <1>5, <1>6, <1>7, <1>8

\* A restart: the handlers, their admissions and the browsers are gone.
LEMMA CrashCore ==
    ASSUME Core, BreakerTypeOK',
           Crash
    PROVE  Core'
<1> USE CallAssumption
    DEF Core, HasRow, SameKey, Goto, Return, Raise, Steps, Over, Business, Hard
<1>1. \A d, t : Emitted(d, t)' <=> Emitted(d, t)
  BY DEF Emitted, effects, evidence, Crash
<1>2. TypeOK'
  BY DEF TypeOK, ResultInv, handler, effects, evidence, breaker, Crash, BreakerRestart
<1>3. RowInv'
  BY DEF TypeOK, RowInv, ResultInv, handler, effects, evidence, breaker, Crash, BreakerRestart
<1>4. RunningInv'
  BY DEF TypeOK, RunningInv, ResultInv, handler, effects, evidence, breaker, Crash, BreakerRestart
<1>5. ResultInv'
  BY DEF TypeOK, RowInv, ResultInv, handler, effects, evidence, breaker, Crash, BreakerRestart
<1>6. EvidenceInv'
  BY <1>1 DEF TypeOK, RowInv, ResultInv, EvidenceInv, handler, effects, evidence, breaker,
              Crash, BreakerRestart
<1>7. SagaBacked'
  BY <1>1 DEF TypeOK, RunningInv, ResultInv, EvidenceInv, SagaBacked, handler, effects,
              evidence, breaker, Crash, BreakerRestart
<1>8. OutcomeEvidenced'
  BY <1>1 DEF TypeOK, RowInv, ResultInv, EvidenceInv, SagaBacked, OutcomeEvidenced, handler,
              effects, evidence, breaker, Crash, BreakerRestart
<1> QED BY <1>2, <1>3, <1>4, <1>5, <1>6, <1>7, <1>8

LEMMA StutterCore == ASSUME Core, UNCHANGED vars PROVE Core'
BY DEF Core, TypeOK, RowInv, RunningInv, ResultInv, EvidenceInv, SagaBacked, OutcomeEvidenced,
       HasRow, SameKey, Emitted, BreakerTypeOK, vars, handler, effects, evidence, breaker

LEMMA NextCore == ASSUME Core, [Next]_vars PROVE Core'
<1>1. BreakerTypeOK'
  BY BreakerStep, BreakerType DEF Core, TypeOK
<1>2. ASSUME NEW c \in Call, Submit(c) PROVE Core'
  <2>1. CASE Lookup(c) \/ Create(c) \/ Refuse(c) \/ CompleteRefused(c)
    BY <1>1, <2>1, EarlyCore
  <2>2. CASE EmitRequested(c) \/ EmitRefused(c) \/ EmitSteps(c) \/ EmitHardFailure(c)
             \/ EmitSucceeded(c)
    BY <1>1, <2>2, EmitRequestedCore, EmitRefusedCore, EmitStepsCore, EmitHardFailureCore,
       EmitSucceededCore
  <2>3. CASE Admit(c) \/ Resolve(c) \/ Start(c) \/ Record(c)
    BY <1>1, <2>3, AdmitCore, StartCore, RecordCore
  <2>4. CASE Execute(c, Business) \/ Execute(c, Hard)
    BY <1>1, <2>4, ExecuteCore
  <2>5. CASE DeadLetter(c) \/ Escalate(c) \/ Complete(c)
    BY <1>1, <2>5, EscalateCore, CompleteCore
  <2> QED BY <1>2, <2>1, <2>2, <2>3, <2>4, <2>5 DEF Submit
<1>3. ASSUME NEW c \in Call, Fail(c) \/ ReleaseLiveSession(c) PROVE Core'
  BY <1>1, <1>3, FailCore, ReleaseCore
<1> QED BY <1>1, <1>2, <1>3, TickCore, CrashCore, StutterCore DEF Next

LEMMA AlwaysCore == SafeSpec => []Core
BY InitCore, NextCore, PTL DEF SafeSpec

-----------------------------------------------------------------------------
\* The table, the breaker, the evidence and the handlers stay consistent, for
\* any number of calls, failing services and crashes.
THEOREM Invariance == SafeSpec => []Inv
BY AlwaysCore, CoreInv, PTL

\* No two calls with one idempotency key ever both act on the bank.
THEOREM OneExecution == SafeSpec => []AtMostOneExecution
<1>1. Inv => AtMostOneExecution
  BY DEF Inv
<1> QED BY <1>1, Invariance, PTL

\* All callers with one key that get an answer get the same run.
THEOREM OneAnswer == SafeSpec => []AnswersAgree
<1>1. Inv => AnswersAgree
  BY DEF Inv
<1> QED BY <1>1, Invariance, PTL

\* An operator's saga has all of its evidence, and its browser.
THEOREM SagasBacked == SafeSpec => []SagaBacked
<1>1. Inv => SagaBacked
  BY DEF Inv
<1> QED BY <1>1, Invariance, PTL

\* An outcome in replay_runs is preceded by the evidence for it.
THEOREM EvidenceFirst == SafeSpec => []OutcomeEvidenced
<1>1. Inv => OutcomeEvidenced
  BY DEF Inv
<1> QED BY <1>1, Invariance, PTL

\* SubmitReplay changes the breaker's row by the breaker's operations only.
LEMMA UsesBreaker == SafeSpec => BreakerSafeSpec
<1>1. Init => BreakerInit
  BY DEF Init
<1>2. [Next]_vars => [BreakerNext]_breaker
  BY BreakerStep
<1> QED BY <1>1, <1>2, PTL DEF SafeSpec, BreakerSafeSpec

\* So what the breaker guarantees holds among SubmitReplay's handlers, too, with
\* their exceptions, locked databases and crashes: state and count agree, and only
\* the success of a run from before the trip lets a call through in a cooldown.
THEOREM BreakerHolds == SafeSpec => [](ClosedBelowThreshold /\ WindowHolds)
<1>1. BreakerInv => ClosedBelowThreshold /\ WindowHolds
  BY DEF BreakerInv
<1> QED BY <1>1, UsesBreaker, BreakerInvariance, PTL

-----------------------------------------------------------------------------
\* Only hard failures are kept; no call returns before its saga is opened, and one
\* that raises leaves its row as it was.
KeptInv ==
    \A c \in live :
        /\ result[c] = Hard
        /\ pc[c] = "done" => c \in sagas
        /\ pc[c] = "failed" => answer[c] = "error" /\ (c \in sagas \/ rows[c] = "PENDING")

LEMMA NextKept == ASSUME Core, KeptInv, [Next]_vars PROVE KeptInv'
<1> USE CallAssumption DEF Business, Hard
<1>1. ASSUME NEW c \in Call,
             \/ Lookup(c) \/ Create(c) \/ Refuse(c) \/ CompleteRefused(c) \/ EmitRefused(c)
             \/ Complete(c)
      PROVE  KeptInv'
  <2>1. UNCHANGED <<result, live, sagas>>
    BY <1>1 DEF Lookup, Create, Refuse, CompleteRefused, EmitRefused, Complete, Emit, effects,
                evidence
  <2>2. \A d \in Call \ {c} : pc'[d] = pc[d] /\ rows'[d] = rows[d] /\ answer'[d] = answer[d]
    BY <1>1 DEF Lookup, Create, Refuse, CompleteRefused, EmitRefused, Complete, Goto, Return,
                Raise, Core, TypeOK
  <2>3. result[c] = Hard => pc'[c] = "done" /\ c \in sagas
    BY <1>1 DEF Lookup, Create, Refuse, CompleteRefused, EmitRefused, Complete,
                Return, Core, TypeOK, ResultInv, EvidenceInv
  <2>4. live \subseteq Call
    BY DEF Core, TypeOK
  <2> QED BY <2>1, <2>2, <2>3, <2>4 DEF KeptInv
<1>2. ASSUME NEW c \in Call, NEW o \in {Business, Hard}, Execute(c, o) PROVE KeptInv'
  <2>1. result[c] = "none" /\ result \in [Call -> {"none", Business, Hard}]
    BY <1>2 DEF Execute, Core, TypeOK, ResultInv
  <2>2. c \notin live
    BY <2>1 DEF KeptInv
  <2>3. /\ pc' = [pc EXCEPT ![c] = "steps"] /\ live \subseteq Call
        /\ UNCHANGED <<sagas, rows, answer>>
    BY <1>2 DEF Execute, Goto, Core, TypeOK
  <2>4. pc \in [Call -> {"idle"} \cup Steps \cup Over]
    BY DEF Core, TypeOK
  <2> QED BY <1>2, <2>1, <2>2, <2>3, <2>4 DEF Execute, KeptInv
<1>3. ASSUME NEW c \in Call,
             \/ EmitRequested(c) \/ Admit(c) \/ Resolve(c) \/ Start(c) \/ EmitSteps(c)
             \/ Record(c) \/ DeadLetter(c) \/ EmitHardFailure(c) \/ Escalate(c)
             \/ EmitSucceeded(c) \/ ReleaseLiveSession(c)
      PROVE  KeptInv'
  <2>1. /\ UNCHANGED <<result, rows, answer>>
        /\ live' \subseteq live
        /\ sagas \subseteq sagas'
    BY <1>3 DEF EmitRequested, Admit, Resolve, Start, EmitSteps, Record, DeadLetter,
                EmitHardFailure, Escalate, EmitSucceeded, ReleaseLiveSession, Emit, Goto,
                handler, effects, evidence
  <2>2. \A d \in Call : pc'[d] \in {"done", "failed"} => pc[d] = pc'[d]
    BY <1>3 DEF EmitRequested, Admit, Resolve, Start, EmitSteps, Record, DeadLetter,
                EmitHardFailure, Escalate, EmitSucceeded, ReleaseLiveSession, Goto, handler,
                Core, TypeOK
  <2>3. live \subseteq Call
    BY DEF Core, TypeOK
  <2> QED BY <2>1, <2>2, <2>3 DEF KeptInv
<1>6. ASSUME NEW c \in Call, Fail(c) PROVE KeptInv'
  <2>1. /\ UNCHANGED <<result, rows, live>>
        /\ sagas \subseteq sagas'
    BY <1>6 DEF Fail, FailEarly, FailLate, FailStore, FailLocked, effects, evidence
  <2>2. pc[c] \in Steps \ {"rejected"} \/ result[c] # Hard
    BY <1>6 DEF Fail, FailEarly, FailLate, FailStore, FailLocked, Steps, Core, ResultInv
  <2>3. result[c] = Hard => rows[c] = "PENDING"
    <3>1. result[c] = Hard => c \in executed /\ HasRow(c)
      BY DEF Core, ResultInv, RowInv
    <3>2. rows[c] \in {Business, Hard} => pc[c] \notin Steps \ {"rejected"}
      BY DEF Core, ResultInv, Steps, Over
    <3> QED BY <2>2, <3>1, <3>2 DEF HasRow, Core, TypeOK
  <2>4. Raise(c) /\ pc \in [Call -> {"idle"} \cup Steps \cup Over]
        /\ answer \in [Call -> Call \cup {"none", "error"}] /\ live \subseteq Call
    BY <1>6 DEF Fail, FailEarly, FailLate, FailStore, FailLocked, Core, TypeOK
  <2> QED BY <2>1, <2>3, <2>4 DEF Raise, KeptInv
<1>4. CASE Crash
  BY <1>4 DEF Crash, KeptInv
<1>5. CASE Tick \/ UNCHANGED vars
  BY <1>5 DEF Tick, vars, handler, effects, evidence, KeptInv
<1> QED BY <1>1, <1>2, <1>3, <1>4, <1>5, <1>6 DEF Next, Submit

\* A browser that is kept when its call is over has a saga through which an
\* operator can release it, or the call has raised and its row is PENDING.
THEOREM KeptSessions == SafeSpec => []KeptForOperator
<1>1. Init => KeptInv
  BY DEF Init, KeptInv
<1>2. KeptInv => KeptForOperator
  BY DEF KeptInv, KeptForOperator, Over
<1>3. Core /\ KeptInv /\ [Next]_vars => KeptInv'
  BY NextKept
<1> QED BY <1>1, <1>2, <1>3, AlwaysCore, PTL DEF SafeSpec

-----------------------------------------------------------------------------
\* SubmitReplay implements ReplayOnce.

\* A key's owner is the one call that has a row with this key.
OwnerOK ==
    /\ \A c \in Call : HasRow(c) => OwnerOf(KeyOf[c]) = c
    /\ \A k \in Key : OwnerOf(k) = "none" \/ (OwnerOf(k) \in Call /\ HasRow(OwnerOf(k)))

LEMMA OwnerUnique == Core => OwnerOK
<1> SUFFICES ASSUME Core PROVE OwnerOK
  OBVIOUS
<1>1. ASSUME NEW k \in Key, NEW c \in Call, HasRow(c), KeyOf[c] = k
      PROVE  OwnerOf(k) = c
  <2> DEFINE P(d) == HasRow(d) /\ KeyOf[d] = k
  <2>1. \A d \in Call : P(d) <=> d = c
    BY <1>1 DEF Core, RowInv, SameKey
  <2>2. OwnerOf(k) = CHOOSE d \in Call : P(d)
    BY <1>1, <2>1 DEF OwnerOf
  <2>3. (CHOOSE d \in Call : P(d)) = c
    <3> HIDE DEF P
    <3> QED BY <2>1
  <2> QED BY <2>2, <2>3
<1>2. ASSUME NEW k \in Key, ~ \E c \in Call : HasRow(c) /\ KeyOf[c] = k
      PROVE  OwnerOf(k) = "none"
  BY <1>2 DEF OwnerOf
<1> QED BY <1>1, <1>2, CallAssumption DEF OwnerOK

\* A key that is answered is answered with its owner.
ToldOK ==
    \A k \in Key :
        /\ \A x \in ToldTo(k) : x \in Call /\ x = OwnerOf(k)
        /\ \A c \in Call : KeyOf[c] = k /\ answer[c] \in Call => answer[c] \in ToldTo(k)

LEMMA ToldOwner == Core => ToldOK
<1> SUFFICES ASSUME Core PROVE ToldOK
  OBVIOUS
<1>1. OwnerOK
  BY OwnerUnique
<1>2. ASSUME NEW k \in Key, NEW c \in Call, KeyOf[c] = k, answer[c] \in Call
      PROVE  answer[c] = OwnerOf(k)
  <2>1. HasRow(answer[c]) /\ KeyOf[answer[c]] = k
    BY <1>2 DEF Core, RowInv, SameKey
  <2> QED BY <1>1, <1>2, <2>1 DEF OwnerOK
<1> QED BY <1>2 DEF ToldOK, ToldTo

\* Rows, answers and executions are all that ReplayOnce sees.
LEMMA OwnerChange ==
    ASSUME Core, Core', NEW k \in Key,
           \A c \in Call : KeyOf[c] = k => (HasRow(c)' <=> HasRow(c))
    PROVE  OwnerOf(k)' = OwnerOf(k)
<1>1. OwnerOK /\ OwnerOK'
  BY OwnerUnique, PTL
<1>2. CASE \E c \in Call : HasRow(c) /\ KeyOf[c] = k
  BY <1>1, <1>2 DEF OwnerOK
<1>3. CASE ~ \E c \in Call : HasRow(c) /\ KeyOf[c] = k
  <2>1. OwnerOf(k) = "none"
    BY <1>3 DEF OwnerOf
  <2>2. ~ \E c \in Call : HasRow(c)' /\ KeyOf[c] = k
    BY <1>3
  <2>3. OwnerOf(k)' = "none"
    BY <2>2 DEF OwnerOf
  <2> QED BY <2>1, <2>3
<1> QED BY <1>2, <1>3

LEMMA ToldChange ==
    ASSUME NEW k \in Key,
           \A c \in Call : KeyOf[c] = k /\ {answer[c], answer'[c]} \cap Call # {}
                            => answer'[c] = answer[c]
    PROVE  ToldTo(k)' = ToldTo(k)
BY DEF ToldTo

\* A step that keeps the rows, the answers and the executions is a stutter.
LEMMA Quiet ==
    ASSUME Core, Core', executed' = executed,
           \A c \in Call : HasRow(c)' <=> HasRow(c),
           \A c \in Call : {answer[c], answer'[c]} \cap Call # {} => answer'[c] = answer[c]
    PROVE  UNCHANGED O!vars
<1>1. \A k \in Key : OwnerOf(k)' = OwnerOf(k) /\ ToldTo(k)' = ToldTo(k)
  BY OwnerChange, ToldChange
<1> QED BY <1>1 DEF O!vars

\* A reply tells the caller the owner of its key.
LEMMA Tells ==
    ASSUME Core, Core', NEW c \in Call, NEW d \in Call, HasRow(d), SameKey(c, d),
           Return(c, d), executed' = executed, \A e \in Call : HasRow(e)' <=> HasRow(e)
    PROVE  O!Tell(KeyOf[c])
<1> DEFINE k == KeyOf[c]
<1>1. k \in Key /\ d # "none"
  BY CallAssumption
<1>2. OwnerOK /\ ToldOK /\ OwnerOK' /\ ToldOK'
  BY OwnerUnique, ToldOwner, PTL
<1>3. OwnerOf(k) = d
  BY <1>2 DEF OwnerOK, SameKey
<1>4. \A j \in Key : OwnerOf(j)' = OwnerOf(j)
  BY OwnerChange
<1>5. answer' = [answer EXCEPT ![c] = d] /\ answer \in [Call -> Call \cup {"none", "error"}]
  BY DEF Return, Core, TypeOK
<1>6. \A j \in Key \ {k} : ToldTo(j)' = ToldTo(j)
  BY <1>5, ToldChange
<1>7. ToldTo(k)' = {d}
  BY <1>1, <1>2, <1>3, <1>4, <1>5 DEF ToldOK
<1>8. [j \in Key |-> ToldTo(j)'] = [[j \in Key |-> ToldTo(j)] EXCEPT ![k] = {d}]
  BY <1>6, <1>7
<1> HIDE DEF k
<1>9. [j \in Key |-> OwnerOf(j)][k] = d
  BY <1>1, <1>3
<1> QED BY <1>1, <1>4, <1>8, <1>9 DEF O!Tell, k

\* The INSERT claims the key ...
LEMMA Claims ==
    ASSUME Core, Core', NEW c \in Call, Create(c), ~ \E d \in Call : HasRow(d) /\ SameKey(c, d)
    PROVE  O!Claim(KeyOf[c], c)
<1> DEFINE k == KeyOf[c]
<1>1. /\ k \in Key /\ ~HasRow(c) /\ rows' = [rows EXCEPT ![c] = "PENDING"]
      /\ answer' = answer /\ executed' = executed
  BY CallAssumption DEF Core, RowInv, Create, Goto, effects, evidence
<1>2. OwnerOK /\ OwnerOK'
  BY OwnerUnique, PTL
<1>3. HasRow(c)' /\ \A d \in Call \ {c} : HasRow(d)' <=> HasRow(d)
  BY <1>1 DEF HasRow, Core, TypeOK
<1>4. OwnerOf(k) = "none"
  BY DEF OwnerOf, SameKey
<1>5. OwnerOf(k)' = c
  BY <1>2, <1>3 DEF OwnerOK
<1>6. \A j \in Key \ {k} : OwnerOf(j)' = OwnerOf(j)
  BY <1>3, OwnerChange
<1>7. \A j \in Key : OwnerOf(j) # c
  BY <1>1, <1>2, CallAssumption DEF OwnerOK
<1>8. \A j \in Key : ToldTo(j)' = ToldTo(j)
  BY <1>1, ToldChange
<1>9. [j \in Key |-> OwnerOf(j)'] = [[j \in Key |-> OwnerOf(j)] EXCEPT ![k] = c]
  BY <1>5, <1>6
<1> HIDE DEF k
<1> QED BY <1>1, <1>4, <1>7, <1>8, <1>9 DEF O!Claim, k

\* ... and only the key's owner acts on the bank, once.
LEMMA Touches ==
    ASSUME Core, Core', NEW c \in Call, Start(c)
    PROVE  O!Touch(KeyOf[c])
<1> DEFINE k == KeyOf[c]
<1>1. /\ k \in Key /\ HasRow(c) /\ c \notin executed /\ c # "none"
      /\ rows' = rows /\ answer' = answer /\ executed' = executed \cup {c}
  BY CallAssumption DEF Core, RowInv, ResultInv, Steps, Start, Goto
<1>2. OwnerOf(k) = c
  BY <1>1, OwnerUnique DEF OwnerOK
<1>3. \A j \in Key : OwnerOf(j)' = OwnerOf(j) /\ ToldTo(j)' = ToldTo(j)
  BY <1>1, OwnerChange, ToldChange DEF HasRow
<1> HIDE DEF k
<1>4. [j \in Key |-> OwnerOf(j)][k] = c
  BY <1>1, <1>2
<1> QED BY <1>1, <1>3, <1>4 DEF O!Touch, k

LEMMA InitOnce == Init => O!Init
<1> SUFFICES ASSUME Init PROVE O!Init
  OBVIOUS
<1>1. \A k \in Key : OwnerOf(k) = "none"
  BY DEF Init, OwnerOf, HasRow
<1>2. \A k \in Key : ToldTo(k) = {}
  BY CallAssumption DEF Init, ToldTo
<1> QED BY <1>1, <1>2 DEF Init, O!Init

LEMMA StepOnce == ASSUME Core, Core', [Next]_vars PROVE [O!Next]_(O!vars)
<1> USE CallAssumption
<1>1. ASSUME NEW c \in Call, Lookup(c) PROVE [O!Next]_(O!vars)
  <2>1. rows' = rows /\ executed' = executed
    BY <1>1 DEF Lookup, effects, evidence
  <2>2. CASE Goto(c, "create")
    BY <2>1, <2>2, Quiet DEF Goto, HasRow
  <2>3. CASE \E d \in Call : HasRow(d) /\ SameKey(c, d) /\ Return(c, d)
    BY <2>1, <2>3, Tells DEF HasRow, O!Next
  <2> QED BY <1>1, <2>2, <2>3 DEF Lookup
<1>2. ASSUME NEW c \in Call, Create(c) PROVE [O!Next]_(O!vars)
  <2>1. CASE \E d \in Call : HasRow(d) /\ SameKey(c, d)
    <3>1. /\ rows' = rows /\ executed' = executed
          /\ answer' = [answer EXCEPT ![c] = "error"] /\ answer[c] = "none"
      BY <1>2, <2>1 DEF Create, Raise, effects, evidence, Core, RowInv, Steps
    <3> QED BY <3>1, Quiet DEF HasRow, Core, TypeOK
  <2>2. CASE ~ \E d \in Call : HasRow(d) /\ SameKey(c, d)
    BY <1>2, <2>2, Claims DEF O!Next
  <2> QED BY <2>1, <2>2
<1>3. ASSUME NEW c \in Call, EmitRefused(c) \/ Complete(c) PROVE [O!Next]_(O!vars)
  <2>1. /\ HasRow(c) /\ SameKey(c, c) /\ Return(c, c) /\ executed' = executed
    BY <1>3 DEF EmitRefused, Complete, Emit, effects, evidence, Core, RowInv, SameKey, Steps
  <2>2. \A e \in Call : HasRow(e)' <=> HasRow(e)
    BY <1>3 DEF EmitRefused, Complete, HasRow, Core, TypeOK, RowInv, ResultInv, Steps,
                Business, Hard
  <2> QED BY <2>1, <2>2, Tells DEF O!Next
<1>4. ASSUME NEW c \in Call, Start(c) PROVE [O!Next]_(O!vars)
  BY <1>4, Touches DEF O!Next
<1>5. ASSUME NEW c \in Call, CompleteRefused(c) PROVE [O!Next]_(O!vars)
  <2>1. \A e \in Call : HasRow(e)' <=> HasRow(e)
    BY <1>5 DEF CompleteRefused, HasRow, Core, TypeOK, RowInv, Steps, Hard
  <2> QED BY <1>5, <2>1, Quiet DEF CompleteRefused, Goto, effects, evidence
<1>6. ASSUME NEW c \in Call,
             \/ EmitRequested(c) \/ Admit(c) \/ Refuse(c) \/ Resolve(c)
             \/ Execute(c, Business) \/ Execute(c, Hard) \/ EmitSteps(c) \/ Record(c)
             \/ DeadLetter(c) \/ EmitHardFailure(c) \/ Escalate(c) \/ EmitSucceeded(c)
             \/ ReleaseLiveSession(c)
      PROVE  [O!Next]_(O!vars)
  <2>1. rows' = rows /\ answer' = answer /\ executed' = executed
    BY <1>6 DEF EmitRequested, Admit, Refuse, Resolve, Execute, EmitSteps, Record, DeadLetter,
                EmitHardFailure, Escalate, EmitSucceeded, ReleaseLiveSession, Emit, Goto,
                handler, effects, evidence
  <2> QED BY <2>1, Quiet DEF HasRow
<1>7. ASSUME NEW c \in Call, Fail(c) PROVE [O!Next]_(O!vars)
  <2>1. /\ rows' = rows /\ executed' = executed
        /\ answer' = [answer EXCEPT ![c] = "error"] /\ answer[c] = "none"
    BY <1>7 DEF Fail, FailEarly, FailLate, FailStore, FailLocked, Raise, effects, evidence, Core, RowInv,
                Steps
  <2> QED BY <2>1, Quiet DEF HasRow, Core, TypeOK
<1>8. CASE Crash
  <2>1. rows' = rows /\ executed' = executed
    BY <1>8 DEF Crash
  <2>2. \A c \in Call : answer'[c] = answer[c] \/ (answer[c] = "none" /\ answer'[c] = "error")
    BY <1>8 DEF Crash, Core, RowInv
  <2> QED BY <2>1, <2>2, Quiet DEF HasRow
<1>9. CASE Tick \/ UNCHANGED vars
  <2>1. rows' = rows /\ answer' = answer /\ executed' = executed
    BY <1>9 DEF Tick, vars, handler, effects, evidence
  <2> QED BY <2>1, Quiet DEF HasRow
<1> QED BY <1>1, <1>2, <1>3, <1>4, <1>5, <1>6, <1>7, <1>8, <1>9 DEF Next, Submit

\* What an idempotency key promises holds whoever races, retries, fails or
\* crashes: one owner, one execution, one answer.
THEOREM Refinement == SafeSpec => ImplementsOnce
<1>1. Core /\ Core' /\ [Next]_vars => [O!Next]_(O!vars)
  BY StepOnce
<1> QED BY <1>1, AlwaysCore, InitOnce, PTL DEF SafeSpec, ImplementsOnce, O!Spec
=============================================================================
