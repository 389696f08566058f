------------------------------ MODULE Gateway -------------------------------
(***************************************************************************)
(* How a request travels through the processes: the gateway's threads      *)
(* (rest.py), the rate limiter, and the fixed pools of worker threads of   *)
(* the gRPC servers (serve() of each service).  A call holds one worker in  *)
(* every server that it is inside of, and no call has a deadline.           *)
(*                                                                         *)
(* What the handlers do is the business of the other modules.  An RPC whose *)
(* handler calls no further service is one step: it needs a free worker.    *)
(***************************************************************************)
EXTENDS Integers, Sequences, FiniteSets

CONSTANTS Request,      \* requests from outside, those of one operator in sequence
          KindOf,       \* KindOf[c]: what c asks for
          Size,         \* Size[p]: max_workers of pool p
          Key, KeyOf, Window, MaxRequests, MaxDelay, MaxTime  \* see RateLimiter

VARIABLES at,  \* how many instructions of its plan a request has done
          clock, stamp, hits, admitted   \* the rate limiter

limiter == <<clock, stamp, hits, admitted>>
vars == <<at, limiter>>

Limiter == INSTANCE RateLimiter WITH Caller <- Request

Pool == {"rest", "replay", "saga", "log", "registry"}

-----------------------------------------------------------------------------
(* What each server registers (grpc_stubs/*_pb2_grpc.py).                  *)

EventLogMethods == {"Append", "Fetch", "CommitOffset", "StreamTopic", "DeadLetter"}

RegistryMethods ==
    {"CompileCapability", "GetCapability", "ResolveForTenant", "ListCapabilities",
     "GetVersionHistory"}

ReplayMethods ==
    {"SubmitReplay", "GetReplayStatus", "GetCircuitBreakerState", "ActOnLiveSession",
     "ReleaseLiveSession"}

SagaMethods ==
    {"RequestIntervention", "ClaimSession", "RecordHumanAction", "ReleaseControl",
     "GetSagaState", "ListSagas"}

\* The endpoints of rest.py are plain functions: each takes a thread.
PoolOf(method) ==
    CASE method \in EventLogMethods -> "log"
      [] method \in RegistryMethods -> "registry"
      [] method \in ReplayMethods -> "replay"
      [] method \in SagaMethods -> "saga"
      [] OTHER -> "rest"

Enter(method) == <<"enter", PoolOf(method)>>
Leave(method) == <<"leave", PoolOf(method)>>
Use(method) == <<"use", PoolOf(method)>>

-----------------------------------------------------------------------------
(* The calls that each request makes, in order.                            *)

\* invoke_capability: the limiter, then SubmitReplay up to its outcome.
Invoke == <<Enter("invoke_capability"), <<"clock", "rest">>, <<"check", "rest">>,
            Enter("SubmitReplay"), Use("ResolveForTenant")>>
\* Mutant: the worker of SubmitReplay is not given back.
AnsweredLeaks == <<Use("Append"), Leave("invoke_capability")>>

Answered == <<Use("Append"), Leave("SubmitReplay"), Leave("invoke_capability")>>

InvokeSucceeds == Invoke \o Answered

\* RequestIntervention: its _emit dispatches before it returns.
Intervention == <<Enter("RequestIntervention"), Use("Append"), Leave("RequestIntervention")>>

InvokeFails == Invoke \o <<Use("DeadLetter")>> \o Intervention \o Answered

\* claim_escalation.
Claim == <<Enter("claim_escalation"), Enter("ClaimSession"), Use("Append"),
           Leave("ClaimSession"), Leave("claim_escalation")>>

\* act_on_escalation: RecordHumanAction, and ActOnLiveSession inside of it.
Act == <<Enter("act_on_escalation"), Enter("RecordHumanAction"), Use("ActOnLiveSession"),
         Use("Append"), Leave("RecordHumanAction"), Leave("act_on_escalation")>>

\* release_escalation: ReleaseControl, and ReleaseLiveSession inside of it.
Release == <<Enter("release_escalation"), Enter("ReleaseControl"), Use("ReleaseLiveSession"),
             Use("Append"), Leave("ReleaseControl"), Leave("release_escalation")>>

\* /stream/{topic}: StreamTopic has a worker until its client goes away.
Watch == <<Enter("StreamTopic"), Leave("StreamTopic")>>

CompileCapability == <<Enter("CompileCapability"), Use("Fetch"), Leave("CompileCapability")>>

PlanOf(kind) ==
    CASE kind = "invoke_ok" -> InvokeSucceeds
      [] kind = "invoke_hard" -> InvokeFails
      [] kind = "claim_act" -> Claim \o Act
      [] kind = "release" -> Release
      [] kind = "watch" -> Watch
      [] kind = "compile" -> CompileCapability

Kinds == {"invoke_ok", "invoke_hard", "claim_act", "release", "watch", "compile"}

ASSUME ConstantsAssumption ==
    /\ IsFiniteSet(Request)
    /\ KindOf \in [Request -> Kinds]
    /\ Size \in [Pool -> Nat \ {0}]

ASSUME LimiterAssumption ==
    /\ KeyOf \in [Request -> Key]
    /\ Window \in Nat /\ MaxDelay \in Nat /\ MaxTime \in Nat
    /\ MaxRequests \in Nat \ {0}

Plan == [c \in Request |-> PlanOf(KindOf[c])]

Init == at = [c \in Request |-> 0] /\ Limiter!Init

Finished(c) == at[c] = Len(Plan[c])
Next1(c, op) == ~Finished(c) /\ Plan[c][at[c] + 1][1] = op
NextPool(c) == Plan[c][at[c] + 1][2]

\* c is inside of a call to pool p: it has entered, and not left since.
Holds(c, p) ==
    \E i \in 1..at[c] :
        /\ Plan[c][i] = <<"enter", p>>
        /\ \A j \in (i + 1)..at[c] : Plan[c][j] # <<"leave", p>>

FreeWorker(p) == Cardinality({c \in Request : Holds(c, p)}) < Size[p]

GoOn(c) == at' = [at EXCEPT ![c] = @ + 1]

EnterPool(c) == Next1(c, "enter") /\ FreeWorker(NextPool(c)) /\ GoOn(c) /\ UNCHANGED limiter
LeavePool(c) == Next1(c, "leave") /\ GoOn(c) /\ UNCHANGED limiter
UsePool(c) == Next1(c, "use") /\ FreeWorker(NextPool(c)) /\ GoOn(c) /\ UNCHANGED limiter

ReadClock(c) == Next1(c, "clock") /\ GoOn(c) /\ Limiter!ReadClock(c)
Admitted(c) == Next1(c, "check") /\ GoOn(c) /\ Limiter!Admit(c)

\* 429: the endpoint returns.
Refused(c) ==
    /\ Next1(c, "check") /\ Limiter!Refuse(c)
    /\ at' = [at EXCEPT ![c] = Len(Plan[c])]

Step(c) ==
    \/ EnterPool(c) \/ LeavePool(c) \/ UsePool(c)
    \/ ReadClock(c) \/ Admitted(c) \/ Refused(c)

Tick == Limiter!Tick /\ UNCHANGED at

Next == (\E c \in Request : Step(c)) \/ Tick

Spec == Init /\ [][Next]_vars

-----------------------------------------------------------------------------
(* Properties.                                                             *)

Waits(c, p) == (Next1(c, "enter") \/ Next1(c, "use")) /\ NextPool(c) = p

\* The workers of p are all taken by requests that wait for q.
TakenBy(p, q) == Cardinality({c \in Request : Holds(c, p) /\ Waits(c, q)}) >= Size[p]

\* All replay workers wait for the saga service, all of its workers for them.
Gridlock == TakenBy("replay", "saga") /\ TakenBy("saga", "replay")

\* All workers of the event log serve streams.
LogTaken == Cardinality({c \in Request : KindOf[c] = "watch" /\ Holds(c, "log")}) >= Size["log"]

CanGoOn(c) ==
    /\ ~Finished(c)
    /\ (Next1(c, "enter") \/ Next1(c, "use")) => FreeWorker(NextPool(c))

Served == {c \in Request : KindOf[c] # "watch"}

\* As long as a request other than a stream is not answered, one of them can go
\* on, in whatever order the pools have taken them (so that in the end all are
\* answered, for plans are finite); unless the replay and the saga workers wait
\* for each other, or streams have all workers of the event log
\* (replay_runtime/server.py:232, escalation_saga/server.py:109,
\* event_log/server.py:44-51).
StuckExplained ==
    (\E c \in Served : ~Finished(c)) =>
        (\E c \in Served : CanGoOn(c)) \/ Gridlock \/ LogTaken

\* The limiter keeps its promise whatever holds up its callers (RateLimiter).
RateHonoured == Limiter!RateHonoured

TypeOK ==
    /\ at \in [Request -> Nat] /\ \A c \in Request : at[c] <= Len(Plan[c])
    /\ clock \in 0..MaxTime
    /\ stamp \in [Request -> {-1} \cup (0..MaxTime)]
    /\ hits \in [Key -> Seq(0..MaxTime)] /\ admitted \in [Key -> Seq(0..MaxTime)]
=============================================================================
