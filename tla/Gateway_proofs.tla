--------------------------- MODULE Gateway_proofs ---------------------------
(***************************************************************************)
(* That the rate limiter keeps its promise, for any requests, pools, keys, *)
(* window and limit, and for whatever holds its callers up; and that the   *)
(* pools of workers stop for two reasons only.                             *)
(***************************************************************************)
EXTENDS Gateway, SequenceTheorems, FiniteSetTheorems, TLAPS

\* A time stamp in the hands of a caller is no older than it may be.
StampInv ==
    \A c \in Request : stamp[c] # -1 => stamp[c] <= clock /\ clock - stamp[c] <= MaxDelay

\* At time t, a deque d fits the admissions a: it holds the stamps of the last
\* ones, each at most MaxDelay older than its admission; the admissions before
\* them are a window ago.
Fits(d, a, t) ==
    /\ Len(d) <= Len(a)
    /\ \A j \in 1..Len(d) : d[j] >= a[Len(a) - Len(d) + j] - MaxDelay
    /\ \A i \in 1..(Len(a) - Len(d)) : t - a[i] > Window - MaxDelay

DequeInv == \A k \in Key : Fits(hits[k], admitted[k], clock)

\* RateHonoured of one key.
Honoured(a) ==
    \A i \in DOMAIN a : i + MaxRequests \in DOMAIN a => a[i + MaxRequests] - a[i] > Window - MaxDelay

LimiterType ==
    /\ clock \in 0..MaxTime
    /\ stamp \in [Request -> {-1} \cup (0..MaxTime)]
    /\ hits \in [Key -> Seq(0..MaxTime)]
    /\ admitted \in [Key -> Seq(0..MaxTime)]

LInv == LimiterType /\ StampInv /\ DequeInv /\ RateHonoured

-----------------------------------------------------------------------------
\* One deque, and the admissions it stands for.

\* It goes on to fit when time passes.
LEMMA FitsLater ==
    ASSUME NEW d \in Seq(0..MaxTime), NEW a \in Seq(0..MaxTime), NEW t \in Nat, Fits(d, a, t)
    PROVE  Fits(d, a, t + 1)
<1>1. Len(d) \in Nat /\ Len(a) \in Nat /\ Window \in Nat /\ MaxDelay \in Nat /\ MaxTime \in Nat
  BY LimiterAssumption
<1>2. ASSUME NEW i \in 1..(Len(a) - Len(d)) PROVE t + 1 - a[i] > Window - MaxDelay
  <2>1. i \in 1..Len(a)
    BY <1>1
  <2>2. a[i] \in Int
    BY <1>1, <2>1, ElementOfSeq
  <2>3. t - a[i] > Window - MaxDelay
    BY DEF Fits
  <2>4. \A x \in Int : t - x > Window - MaxDelay => t + 1 - x > Window - MaxDelay
    BY <1>1
  <2> QED BY <2>2, <2>3, <2>4
<1> QED BY <1>1, <1>2 DEF Fits

\* It fits when the first n stamps are taken out of it, if they are old enough.
LEMMA FitsPruned ==
    ASSUME NEW d \in Seq(0..MaxTime), NEW a \in Seq(0..MaxTime), NEW t \in Nat,
           Fits(d, a, t), NEW n \in 0..Len(d), NEW s \in Nat, s <= t,
           \A i \in 1..n : s - d[i] > Window
    PROVE  /\ SubSeq(d, n + 1, Len(d)) \in Seq(0..MaxTime)
           /\ Len(SubSeq(d, n + 1, Len(d))) = Len(d) - n
           /\ Fits(SubSeq(d, n + 1, Len(d)), a, t)
<1> DEFINE r == SubSeq(d, n + 1, Len(d))
<1>1. Len(d) \in Nat /\ Len(a) \in Nat /\ Window \in Nat /\ MaxDelay \in Nat /\ MaxTime \in Nat
  BY LimiterAssumption
<1>2. /\ r \in Seq(0..MaxTime)
      /\ Len(r) = Len(d) - n
      /\ \A j \in 1..(Len(d) - n) : r[j] = d[n + j]
  BY <1>1
<1>3. Len(d) <= Len(a)
  BY DEF Fits
<1> HIDE DEF r
<1>4. ASSUME NEW j \in 1..Len(r) PROVE r[j] >= a[Len(a) - Len(r) + j] - MaxDelay
  <2>1. n + j \in 1..Len(d) /\ Len(a) - Len(r) + j = Len(a) - Len(d) + (n + j)
    BY <1>1, <1>2
  <2>2. d[n + j] >= a[Len(a) - Len(d) + (n + j)] - MaxDelay
    BY <2>1 DEF Fits
  <2> QED BY <1>2, <2>1, <2>2
<1>5. ASSUME NEW j \in 1..n PROVE t - a[Len(a) - Len(d) + j] > Window - MaxDelay
  <2> DEFINE x == d[j]
             y == a[Len(a) - Len(d) + j]
  <2>1. j \in 1..Len(d) /\ Len(a) - Len(d) + j \in 1..Len(a)
    BY <1>1, <1>3
  <2>2. x \in 0..MaxTime /\ y \in 0..MaxTime
    BY <2>1, ElementOfSeq
  <2>3. x >= y - MaxDelay
    BY <2>1 DEF Fits
  <2>4. s - x > Window
    OBVIOUS
  <2> HIDE DEF x, y
  <2>5. t - y > Window - MaxDelay
    BY <1>1, <2>2, <2>3, <2>4
  <2> QED BY <2>5 DEF y
<1>6. ASSUME NEW i \in 1..(Len(a) - Len(r)) PROVE t - a[i] > Window - MaxDelay
  <2> DEFINE m == Len(a) - Len(d)
  <2>1. m \in Nat /\ i \in 1..(m + n)
    BY <1>1, <1>2, <1>3
  <2>2. CASE i \in 1..m
    BY <2>2 DEF Fits
  <2>3. CASE i - m \in 1..n
    <3>1. m + (i - m) = i
      BY <2>1
    <3> QED BY <1>5, <2>3, <3>1
  <2> HIDE DEF m
  <2>4. i \in 1..m \/ i - m \in 1..n
    BY <2>1
  <2> QED BY <2>2, <2>3, <2>4
<1>7. Fits(r, a, t)
  BY <1>1, <1>2, <1>3, <1>4, <1>6 DEF Fits
<1> QED BY <1>2, <1>7 DEF r

\* It fits when a call is admitted whose stamp is not too old.
LEMMA FitsAppended ==
    ASSUME NEW d \in Seq(0..MaxTime), NEW a \in Seq(0..MaxTime), NEW t \in 0..MaxTime,
           Fits(d, a, t), NEW s \in 0..MaxTime, t - s <= MaxDelay
    PROVE  Fits(Append(d, s), Append(a, t), t)
<1> DEFINE e == Append(d, s)
           b == Append(a, t)
<1>1. Len(d) \in Nat /\ Len(a) \in Nat /\ MaxDelay \in Nat /\ MaxTime \in Nat
  BY LimiterAssumption
<1>2. /\ Len(e) = Len(d) + 1 /\ Len(b) = Len(a) + 1
      /\ \A j \in 1..Len(d) : e[j] = d[j]
      /\ \A i \in 1..Len(a) : b[i] = a[i]
      /\ e[Len(d) + 1] = s /\ b[Len(a) + 1] = t
  BY <1>1
<1>3. Len(d) <= Len(a)
  BY DEF Fits
<1> HIDE DEF e, b
<1>4. Len(b) - Len(e) = Len(a) - Len(d)
  BY <1>1, <1>2
<1>5. ASSUME NEW j \in 1..Len(e) PROVE e[j] >= b[Len(b) - Len(e) + j] - MaxDelay
  <2>1. CASE j \in 1..Len(d)
    <3>1. Len(a) - Len(d) + j \in 1..Len(a)
      BY <1>1, <1>3, <2>1
    <3>2. d[j] >= a[Len(a) - Len(d) + j] - MaxDelay
      BY <2>1 DEF Fits
    <3> QED BY <1>2, <1>4, <2>1, <3>1, <3>2
  <2>2. CASE j = Len(d) + 1
    <3>1. Len(b) - Len(e) + j = Len(a) + 1
      BY <1>1, <1>2, <2>2
    <3>2. s >= t - MaxDelay
      BY <1>1
    <3> QED BY <1>2, <2>2, <3>1, <3>2
  <2> QED BY <1>1, <1>2, <2>1, <2>2
<1>6. ASSUME NEW i \in 1..(Len(b) - Len(e)) PROVE t - b[i] > Window - MaxDelay
  <2>1. i \in 1..Len(a) /\ i \in 1..(Len(a) - Len(d))
    BY <1>1, <1>4
  <2> QED BY <1>2, <2>1 DEF Fits
<1>7. Fits(e, b, t)
  BY <1>1, <1>2, <1>3, <1>5, <1>6 DEF Fits
<1> QED BY <1>7 DEF e, b

\* A call admitted with fewer than MaxRequests stamps in the deque keeps the limit.
LEMMA HonouredAppended ==
    ASSUME NEW d \in Seq(0..MaxTime), NEW a \in Seq(0..MaxTime), NEW t \in 0..MaxTime,
           Fits(d, a, t), Len(d) < MaxRequests, Honoured(a)
    PROVE  Honoured(Append(a, t))
<1> DEFINE b == Append(a, t)
<1>1. Len(d) \in Nat /\ Len(a) \in Nat /\ MaxRequests \in Nat \ {0}
  BY LimiterAssumption
<1>2. /\ DOMAIN b = 1..(Len(a) + 1) /\ DOMAIN a = 1..Len(a)
      /\ \A i \in 1..Len(a) : b[i] = a[i]
      /\ b[Len(a) + 1] = t
  BY <1>1
<1> HIDE DEF b
<1>3. SUFFICES ASSUME NEW i \in DOMAIN b, i + MaxRequests \in DOMAIN b
      PROVE  b[i + MaxRequests] - b[i] > Window - MaxDelay
  BY DEF Honoured, b
<1>4. i \in 1..(Len(a) + 1) /\ i + MaxRequests \in 1..(Len(a) + 1)
  BY <1>2, <1>3
<1>5. CASE i + MaxRequests <= Len(a)
  <2>1. i \in 1..Len(a) /\ i + MaxRequests \in 1..Len(a)
    BY <1>1, <1>4, <1>5
  <2> QED BY <1>2, <2>1 DEF Honoured
<1>6. CASE i + MaxRequests = Len(a) + 1
  <2>1. i \in 1..Len(a) /\ i \in 1..(Len(a) - Len(d))
    BY <1>1, <1>4, <1>6
  <2>2. t - a[i] > Window - MaxDelay
    BY <2>1 DEF Fits
  <2> QED BY <1>2, <1>6, <2>1, <2>2
<1> QED BY <1>1, <1>4, <1>5, <1>6

-----------------------------------------------------------------------------
\* The limiter's steps keep its invariant.
LEMMA LimiterInit == Limiter!Init => LInv
BY LimiterAssumption
   DEF Limiter!Init, LInv, LimiterType, StampInv, DequeInv, Fits, RateHonoured,
       Limiter!RateHonoured

LEMMA TickKeeps == LInv /\ Limiter!Tick => LInv'
<1> SUFFICES ASSUME LInv, Limiter!Tick PROVE LInv'
  OBVIOUS
<1> USE LimiterAssumption DEF LInv
<1>1. LimiterType'
  BY DEF LimiterType, Limiter!Tick
<1>2. StampInv'
  BY DEF LimiterType, StampInv, Limiter!Tick, Limiter!Late
<1>3. DequeInv'
  <2>1. clock \in Nat /\ hits \in [Key -> Seq(0..MaxTime)] /\ admitted \in [Key -> Seq(0..MaxTime)]
    BY DEF LimiterType
  <2>2. \A k \in Key : Fits(hits[k], admitted[k], clock + 1)
    BY <2>1, FitsLater DEF DequeInv
  <2> QED BY <2>2 DEF DequeInv, Limiter!Tick
<1>4. RateHonoured'
  BY DEF RateHonoured, Limiter!RateHonoured, Limiter!Tick
<1> QED BY <1>1, <1>2, <1>3, <1>4

LEMMA ReadClockKeeps == \A c \in Request : LInv /\ Limiter!ReadClock(c) => LInv'
<1> SUFFICES ASSUME NEW c \in Request, LInv, Limiter!ReadClock(c) PROVE LInv'
  OBVIOUS
<1> USE LimiterAssumption DEF LInv, Limiter!ReadClock
<1>1. LimiterType'
  BY DEF LimiterType
<1>2. StampInv'
  BY DEF LimiterType, StampInv
<1>3. DequeInv'
  BY DEF DequeInv
<1>4. RateHonoured'
  BY DEF RateHonoured, Limiter!RateHonoured
<1> QED BY <1>1, <1>2, <1>3, <1>4

\* What a check that takes n stamps out of the deque leaves there.
LEMMA CheckPrunes ==
    ASSUME LInv, NEW c \in Request, stamp[c] # -1,
           NEW n \in 0..Len(hits[KeyOf[c]]), Limiter!PopsOff(c, n)
    PROVE  /\ Limiter!Kept(c, n) \in Seq(0..MaxTime)
           /\ Len(Limiter!Kept(c, n)) = Len(hits[KeyOf[c]]) - n
           /\ Fits(Limiter!Kept(c, n), admitted[KeyOf[c]], clock)
<1> DEFINE k == KeyOf[c]
<1>1. k \in Key /\ hits[k] \in Seq(0..MaxTime) /\ admitted[k] \in Seq(0..MaxTime)
  BY LimiterAssumption DEF LInv, LimiterType
<1>2. clock \in Nat /\ stamp[c] \in Nat /\ stamp[c] <= clock
  BY LimiterAssumption DEF LInv, LimiterType, StampInv
<1>3. Fits(hits[k], admitted[k], clock)
  BY <1>1 DEF LInv, DequeInv
<1>4. \A i \in 1..n : stamp[c] - hits[k][i] > Window
  BY DEF Limiter!PopsOff
<1> QED BY <1>1, <1>2, <1>3, <1>4, FitsPruned DEF Limiter!Kept

LEMMA AdmitKeeps == \A c \in Request : LInv /\ Limiter!Admit(c) => LInv'
<1> SUFFICES ASSUME NEW c \in Request, LInv, Limiter!Admit(c) PROVE LInv'
  OBVIOUS
<1> DEFINE k == KeyOf[c]
<1>1. PICK n \in 0..Len(hits[k]) :
          /\ Limiter!PopsOff(c, n)
          /\ Len(hits[k]) - n < MaxRequests
          /\ hits' = [hits EXCEPT ![k] = Append(Limiter!Kept(c, n), stamp[c])]
  BY DEF Limiter!Admit
<1>2. /\ stamp[c] # -1
      /\ admitted' = [admitted EXCEPT ![k] = Append(@, clock)]
      /\ stamp' = [stamp EXCEPT ![c] = -1]
      /\ clock' = clock
  BY DEF Limiter!Admit
<1> DEFINE kept == Limiter!Kept(c, n)
<1>3. kept \in Seq(0..MaxTime) /\ Len(kept) < MaxRequests /\ Fits(kept, admitted[k], clock)
  BY <1>1, <1>2, CheckPrunes
<1> HIDE DEF kept
<1>4. /\ k \in Key /\ admitted[k] \in Seq(0..MaxTime)
      /\ stamp[c] \in 0..MaxTime /\ clock \in 0..MaxTime
      /\ clock - stamp[c] <= MaxDelay
  BY <1>2, LimiterAssumption DEF LInv, LimiterType, StampInv
<1>5. hits' = [hits EXCEPT ![k] = Append(kept, stamp[c])]
  BY <1>1 DEF kept
<1>6. LimiterType'
  <2>1. Append(kept, stamp[c]) \in Seq(0..MaxTime) /\ Append(admitted[k], clock) \in Seq(0..MaxTime)
    BY <1>3, <1>4
  <2> QED BY <1>2, <1>4, <1>5, <2>1 DEF LInv, LimiterType
<1>7. StampInv'
  BY <1>2 DEF LInv, StampInv, LimiterType
<1>8. DequeInv'
  <2>1. Fits(Append(kept, stamp[c]), Append(admitted[k], clock), clock)
    BY <1>3, <1>4, FitsAppended
  <2> QED BY <1>2, <1>4, <1>5, <2>1 DEF LInv, DequeInv, LimiterType
<1>9. RateHonoured'
  <2>1. Honoured(admitted[k])
    BY <1>4 DEF LInv, RateHonoured, Limiter!RateHonoured, Honoured
  <2>2. Honoured(Append(admitted[k], clock))
    BY <1>3, <1>4, <2>1, HonouredAppended
  <2>3. \A q \in Key : Honoured(admitted'[q])
    <3>1. \A q \in Key : Honoured(admitted[q])
      BY DEF LInv, RateHonoured, Limiter!RateHonoured, Honoured
    <3> QED BY <1>2, <1>4, <2>2, <3>1 DEF LInv, LimiterType
  <2> QED BY <2>3 DEF RateHonoured, Limiter!RateHonoured, Honoured
<1> QED BY <1>6, <1>7, <1>8, <1>9 DEF LInv

LEMMA RefuseKeeps == \A c \in Request : LInv /\ Limiter!Refuse(c) => LInv'
<1> SUFFICES ASSUME NEW c \in Request, LInv, Limiter!Refuse(c) PROVE LInv'
  OBVIOUS
<1> DEFINE k == KeyOf[c]
<1>1. PICK n \in 0..Len(hits[k]) :
          Limiter!PopsOff(c, n) /\ hits' = [hits EXCEPT ![k] = Limiter!Kept(c, n)]
  BY DEF Limiter!Refuse
<1>2. /\ stamp[c] # -1
      /\ stamp' = [stamp EXCEPT ![c] = -1]
      /\ clock' = clock /\ admitted' = admitted
  BY DEF Limiter!Refuse
<1> DEFINE kept == Limiter!Kept(c, n)
<1>3. kept \in Seq(0..MaxTime) /\ Fits(kept, admitted[k], clock)
  BY <1>1, <1>2, CheckPrunes
<1> HIDE DEF kept
<1>4. k \in Key
  BY LimiterAssumption
<1>5. hits' = [hits EXCEPT ![k] = kept]
  BY <1>1 DEF kept
<1>6. LimiterType'
  BY <1>2, <1>3, <1>4, <1>5 DEF LInv, LimiterType
<1>7. StampInv'
  BY <1>2 DEF LInv, StampInv, LimiterType
<1>8. DequeInv'
  BY <1>2, <1>3, <1>4, <1>5 DEF LInv, DequeInv, LimiterType
<1>9. RateHonoured'
  BY <1>2 DEF LInv, RateHonoured, Limiter!RateHonoured
<1> QED BY <1>6, <1>7, <1>8, <1>9 DEF LInv

-----------------------------------------------------------------------------
LEMMA NextKeeps == LInv /\ [Next]_vars => LInv'
<1> SUFFICES ASSUME LInv, [Next]_vars PROVE LInv'
  OBVIOUS
<1>1. ASSUME UNCHANGED limiter PROVE LInv'
  BY <1>1 DEF limiter, LInv, LimiterType, StampInv, DequeInv, RateHonoured,
              Limiter!RateHonoured
<1>2. ASSUME NEW c \in Request, Step(c) PROVE LInv'
  <2>1. CASE EnterPool(c) \/ LeavePool(c) \/ UsePool(c)
    BY <1>1, <2>1 DEF EnterPool, LeavePool, UsePool
  <2>2. CASE ReadClock(c)
    BY <2>2, ReadClockKeeps DEF ReadClock
  <2>3. CASE Admitted(c)
    BY <2>3, AdmitKeeps DEF Admitted
  <2>4. CASE Refused(c)
    BY <2>4, RefuseKeeps DEF Refused
  <2> QED BY <1>2, <2>1, <2>2, <2>3, <2>4 DEF Step
<1>3. CASE Tick
  BY <1>3, TickKeeps DEF Tick
<1>4. CASE UNCHANGED vars
  BY <1>1, <1>4 DEF vars
<1> QED BY <1>2, <1>3, <1>4 DEF Next

\* A request goes through its plan, and no further.
AtInv == at \in [Request -> Nat] /\ \A c \in Request : at[c] <= Len(Plan[c])

LEMMA PlanLength == \A c \in Request : Len(Plan[c]) \in Nat
<1> SUFFICES ASSUME NEW kind \in Kinds PROVE Len(PlanOf(kind)) \in Nat
  BY ConstantsAssumption DEF Plan
<1> DEFINE Instruction == {"enter", "leave", "use", "clock", "check"} \X Pool
<1>1. \A m : /\ Enter(m) \in Instruction /\ Leave(m) \in Instruction
             /\ Use(m) \in Instruction
  BY DEF Enter, Leave, Use, PoolOf, Pool
<1>2. <<"clock", "rest">> \in Instruction /\ <<"check", "rest">> \in Instruction
  BY DEF Pool
<1> HIDE DEF Instruction
<1>3. /\ Invoke \in Seq(Instruction) /\ Answered \in Seq(Instruction)
      /\ Intervention \in Seq(Instruction) /\ <<Use("DeadLetter")>> \in Seq(Instruction)
      /\ Claim \in Seq(Instruction) /\ Act \in Seq(Instruction) /\ Release \in Seq(Instruction)
      /\ Watch \in Seq(Instruction) /\ CompileCapability \in Seq(Instruction)
  BY <1>1, <1>2 DEF Invoke, Answered, Intervention, Claim, Act, Release, Watch, CompileCapability
<1>4. InvokeSucceeds \in Seq(Instruction) /\ Claim \o Act \in Seq(Instruction)
  BY <1>3 DEF InvokeSucceeds
<1>5. InvokeFails \in Seq(Instruction)
  BY <1>3 DEF InvokeFails
<1> QED BY <1>3, <1>4, <1>5 DEF Kinds, PlanOf

LEMMA NextAt == AtInv /\ [Next]_vars => AtInv'
<1> SUFFICES ASSUME AtInv, [Next]_vars PROVE AtInv'
  OBVIOUS
<1>1. \A c \in Request : Len(Plan[c]) \in Nat
  BY PlanLength
<1>2. ASSUME NEW c \in Request, ~Finished(c), GoOn(c) PROVE AtInv'
  BY <1>1, <1>2 DEF AtInv, Finished, GoOn
<1>3. ASSUME NEW c \in Request, Step(c) PROVE AtInv'
  <2>1. CASE Refused(c)
    BY <1>1, <2>1 DEF AtInv, Refused
  <2>2. CASE ~Refused(c)
    BY <1>2, <1>3, <2>2
       DEF Step, EnterPool, LeavePool, UsePool, ReadClock, Admitted, Next1
  <2> QED BY <2>1, <2>2
<1>4. CASE Tick \/ UNCHANGED vars
  BY <1>4 DEF Tick, vars, AtInv
<1> QED BY <1>3, <1>4 DEF Next

LEMMA AlwaysLInv == Spec => []LInv
<1>1. Init => LInv
  BY LimiterInit DEF Init
<1> QED BY <1>1, NextKeeps, PTL DEF Spec

\* The types: no request does more than its plan, and the limiter's stamps are
\* times of the clock.
THEOREM TypeCorrect == Spec => []TypeOK
<1>1. Init => AtInv
  BY PlanLength DEF Init, AtInv
<1>2. LInv /\ AtInv => TypeOK
  BY DEF LInv, LimiterType, AtInv, TypeOK
<1> QED BY <1>1, <1>2, NextAt, AlwaysLInv, PTL DEF Spec

\* The limiter lets no more calls through than it says, though they read the
\* clock before they take its lock and wait for workers in between (rate_limit.py:
\* 31-41): for any pools, requests and keys, and any limit and window.
THEOREM LimitHonoured == Spec => []RateHonoured
<1>1. LInv => RateHonoured
  BY DEF LInv
<1> QED BY <1>1, AlwaysLInv, PTL

-----------------------------------------------------------------------------
(* Where a plan can go from inside of a call.                              *)

\* The plans, instruction by instruction.
LEMMA Instructions ==
    /\ Enter("invoke_capability") = <<"enter", "rest">> /\ Leave("invoke_capability") = <<"leave", "rest">>
    /\ Enter("claim_escalation") = <<"enter", "rest">> /\ Leave("claim_escalation") = <<"leave", "rest">>
    /\ Enter("act_on_escalation") = <<"enter", "rest">> /\ Leave("act_on_escalation") = <<"leave", "rest">>
    /\ Enter("release_escalation") = <<"enter", "rest">> /\ Leave("release_escalation") = <<"leave", "rest">>
    /\ Enter("SubmitReplay") = <<"enter", "replay">> /\ Leave("SubmitReplay") = <<"leave", "replay">>
    /\ Enter("RequestIntervention") = <<"enter", "saga">> /\ Leave("RequestIntervention") = <<"leave", "saga">>
    /\ Enter("ClaimSession") = <<"enter", "saga">> /\ Leave("ClaimSession") = <<"leave", "saga">>
    /\ Enter("RecordHumanAction") = <<"enter", "saga">> /\ Leave("RecordHumanAction") = <<"leave", "saga">>
    /\ Enter("ReleaseControl") = <<"enter", "saga">> /\ Leave("ReleaseControl") = <<"leave", "saga">>
    /\ Enter("StreamTopic") = <<"enter", "log">> /\ Leave("StreamTopic") = <<"leave", "log">>
    /\ Enter("CompileCapability") = <<"enter", "registry">> /\ Leave("CompileCapability") = <<"leave", "registry">>
    /\ Use("ResolveForTenant") = <<"use", "registry">>
    /\ Use("Append") = <<"use", "log">> /\ Use("DeadLetter") = <<"use", "log">> /\ Use("Fetch") = <<"use", "log">>
    /\ Use("ActOnLiveSession") = <<"use", "replay">> /\ Use("ReleaseLiveSession") = <<"use", "replay">>
BY DEF Enter, Leave, Use, PoolOf, EventLogMethods, RegistryMethods, ReplayMethods, SagaMethods

\* a is inside of a call to p, as Holds says of a request.
Inside(P, a, p) ==
    \E i \in 1..a : P[i] = <<"enter", p>> /\ \A j \in (i + 1)..a : P[j] # <<"leave", p>>

After(p) ==
    CASE p = "rest" -> Pool \ {"rest"}
      [] p = "replay" -> {"registry", "log", "saga"}
      [] p = "saga" -> {"log", "replay"}
      [] p = "registry" -> {"log"}
      [] OTHER -> {}

GoesOn(P, a, p) ==
    /\ a < Len(P)
    /\ P[a + 1][1] \in {"enter", "use"} => P[a + 1][2] \in After(p)

LEMMA InvokeOkPlan ==
    LET P == PlanOf("invoke_ok") IN
    /\ Len(P) = 8
    /\ P[1] = <<"enter", "rest">> /\ P[2] = <<"clock", "rest">> /\ P[3] = <<"check", "rest">>
    /\ P[4] = <<"enter", "replay">> /\ P[5] = <<"use", "registry">> /\ P[6] = <<"use", "log">>
    /\ P[7] = <<"leave", "replay">> /\ P[8] = <<"leave", "rest">>
BY Instructions DEF PlanOf, InvokeSucceeds, Invoke, Answered

LEMMA InvokeOkGoesOn ==
    ASSUME NEW a \in 0..Len(PlanOf("invoke_ok")), NEW p \in Pool, Inside(PlanOf("invoke_ok"), a, p)
    PROVE  GoesOn(PlanOf("invoke_ok"), a, p) /\ p # "log"
<1> DEFINE P == PlanOf("invoke_ok")
<1>1. /\ Len(P) = 8
      /\ P[1] = <<"enter", "rest">> /\ P[2] = <<"clock", "rest">> /\ P[3] = <<"check", "rest">>
      /\ P[4] = <<"enter", "replay">> /\ P[5] = <<"use", "registry">> /\ P[6] = <<"use", "log">>
      /\ P[7] = <<"leave", "replay">> /\ P[8] = <<"leave", "rest">>
  BY InvokeOkPlan
<1> HIDE DEF P
<1>2. PICK i \in 1..a : P[i] = <<"enter", p>> /\ \A j \in (i + 1)..a : P[j] # <<"leave", p>>
  BY DEF Inside, P
<1>3. i \in 1..8 /\ a \in i..8
  <2>1. Len(P) = 8
    BY <1>1
  <2> QED BY <1>2, <2>1 DEF P
<1>4. i = 1 \/ i = 4
  BY <1>1, <1>2, <1>3
<1>5. CASE i = 1
  <2>1. p = "rest" /\ P[8] = <<"leave", p>>
    BY <1>1, <1>2, <1>5
  <2>2. 8 \notin (i + 1)..a
    BY <1>2, <2>1
  <2>3. a \in 1..7
    BY <1>3, <1>5, <2>2
  <2>4. a = 1 \/ a = 2 \/ a = 3 \/ a = 4 \/ a = 5 \/ a = 6 \/ a = 7
    BY <2>3
  <2>5. After(p) = {"replay", "saga", "log", "registry"}
    BY <2>1 DEF After, Pool
  <2>6. P[a + 1][1] \in {"enter", "use"} => P[a + 1][2] \in {"replay", "saga", "log", "registry"}
    BY <1>1, <2>4
  <2> QED BY <1>1, <2>1, <2>3, <2>5, <2>6 DEF GoesOn, P
<1>6. CASE i = 4
  <2>1. p = "replay" /\ P[7] = <<"leave", p>>
    BY <1>1, <1>2, <1>6
  <2>2. 7 \notin (i + 1)..a
    BY <1>2, <2>1
  <2>3. a \in 4..6
    BY <1>3, <1>6, <2>2
  <2>4. a = 4 \/ a = 5 \/ a = 6
    BY <2>3
  <2>5. After(p) = {"registry", "log", "saga"}
    BY <2>1 DEF After, Pool
  <2>6. P[a + 1][1] \in {"enter", "use"} => P[a + 1][2] \in {"registry", "log", "saga"}
    BY <1>1, <2>4
  <2> QED BY <1>1, <2>1, <2>3, <2>5, <2>6 DEF GoesOn, P
<1> QED BY <1>4, <1>5, <1>6

LEMMA InvokeHardPlan ==
    LET P == PlanOf("invoke_hard") IN
    /\ Len(P) = 12
    /\ P[1] = <<"enter", "rest">> /\ P[2] = <<"clock", "rest">> /\ P[3] = <<"check", "rest">>
    /\ P[4] = <<"enter", "replay">> /\ P[5] = <<"use", "registry">> /\ P[6] = <<"use", "log">>
    /\ P[7] = <<"enter", "saga">> /\ P[8] = <<"use", "log">> /\ P[9] = <<"leave", "saga">>
    /\ P[10] = <<"use", "log">> /\ P[11] = <<"leave", "replay">> /\ P[12] = <<"leave", "rest">>
<1> USE Instructions DEF InvokeFails, Invoke, Intervention, Answered
<1>1. Len(InvokeFails) = 12
  OBVIOUS
<1>2. /\ InvokeFails[1] = <<"enter", "rest">>
      /\ InvokeFails[2] = <<"clock", "rest">>
      /\ InvokeFails[3] = <<"check", "rest">>
  OBVIOUS
<1>3. /\ InvokeFails[4] = <<"enter", "replay">>
      /\ InvokeFails[5] = <<"use", "registry">>
      /\ InvokeFails[6] = <<"use", "log">>
  OBVIOUS
<1>4. /\ InvokeFails[7] = <<"enter", "saga">>
      /\ InvokeFails[8] = <<"use", "log">>
      /\ InvokeFails[9] = <<"leave", "saga">>
  OBVIOUS
<1>5. /\ InvokeFails[10] = <<"use", "log">>
      /\ InvokeFails[11] = <<"leave", "replay">>
      /\ InvokeFails[12] = <<"leave", "rest">>
  OBVIOUS
<1>6. PlanOf("invoke_hard") = InvokeFails
  BY DEF PlanOf
<1> HIDE DEF InvokeFails
<1> QED BY <1>1, <1>2, <1>3, <1>4, <1>5, <1>6

LEMMA InvokeHardGoesOn ==
    ASSUME NEW a \in 0..Len(PlanOf("invoke_hard")), NEW p \in Pool, Inside(PlanOf("invoke_hard"), a, p)
    PROVE  GoesOn(PlanOf("invoke_hard"), a, p) /\ p # "log"
<1> DEFINE P == PlanOf("invoke_hard")
<1>1. /\ Len(P) = 12
      /\ P[1] = <<"enter", "rest">> /\ P[2] = <<"clock", "rest">> /\ P[3] = <<"check", "rest">>
      /\ P[4] = <<"enter", "replay">> /\ P[5] = <<"use", "registry">> /\ P[6] = <<"use", "log">>
      /\ P[7] = <<"enter", "saga">> /\ P[8] = <<"use", "log">> /\ P[9] = <<"leave", "saga">>
      /\ P[10] = <<"use", "log">> /\ P[11] = <<"leave", "replay">>
      /\ P[12] = <<"leave", "rest">>
  BY InvokeHardPlan
<1> HIDE DEF P
<1>2. PICK i \in 1..a : P[i] = <<"enter", p>> /\ \A j \in (i + 1)..a : P[j] # <<"leave", p>>
  BY DEF Inside, P
<1>3. i \in 1..12 /\ a \in i..12
  <2>1. Len(P) = 12
    BY <1>1
  <2> QED BY <1>2, <2>1 DEF P
<1>4. i = 1 \/ i = 4 \/ i = 7
  BY <1>1, <1>2, <1>3
<1>5. CASE i = 1
  <2>1. p = "rest" /\ P[12] = <<"leave", p>>
    BY <1>1, <1>2, <1>5
  <2>2. 12 \notin (i + 1)..a
    BY <1>2, <2>1
  <2>3. a \in 1..11
    BY <1>3, <1>5, <2>2
  <2>4. a = 1 \/ a = 2 \/ a = 3 \/ a = 4 \/ a = 5 \/ a = 6 \/ a = 7 \/ a = 8 \/ a = 9 \/ a = 10 \/ a = 11
    BY <2>3
  <2>5. After(p) = {"replay", "saga", "log", "registry"}
    BY <2>1 DEF After, Pool
  <2>6. P[a + 1][1] \in {"enter", "use"} => P[a + 1][2] \in {"replay", "saga", "log", "registry"}
    BY <1>1, <2>4
  <2> QED BY <1>1, <2>1, <2>3, <2>5, <2>6 DEF GoesOn, P
<1>6. CASE i = 4
  <2>1. p = "replay" /\ P[11] = <<"leave", p>>
    BY <1>1, <1>2, <1>6
  <2>2. 11 \notin (i + 1)..a
    BY <1>2, <2>1
  <2>3. a \in 4..10
    BY <1>3, <1>6, <2>2
  <2>4. a = 4 \/ a = 5 \/ a = 6 \/ a = 7 \/ a = 8 \/ a = 9 \/ a = 10
    BY <2>3
  <2>5. After(p) = {"registry", "log", "saga"}
    BY <2>1 DEF After, Pool
  <2>6. P[a + 1][1] \in {"enter", "use"} => P[a + 1][2] \in {"registry", "log", "saga"}
    BY <1>1, <2>4
  <2> QED BY <1>1, <2>1, <2>3, <2>5, <2>6 DEF GoesOn, P
<1>7. CASE i = 7
  <2>1. p = "saga" /\ P[9] = <<"leave", p>>
    BY <1>1, <1>2, <1>7
  <2>2. 9 \notin (i + 1)..a
    BY <1>2, <2>1
  <2>3. a \in 7..8
    BY <1>3, <1>7, <2>2
  <2>4. a = 7 \/ a = 8
    BY <2>3
  <2>5. After(p) = {"log", "replay"}
    BY <2>1 DEF After, Pool
  <2>6. P[a + 1][1] \in {"enter", "use"} => P[a + 1][2] \in {"log", "replay"}
    BY <1>1, <2>4
  <2> QED BY <1>1, <2>1, <2>3, <2>5, <2>6 DEF GoesOn, P
<1> QED BY <1>4, <1>5, <1>6, <1>7

LEMMA ClaimActPlan ==
    LET P == PlanOf("claim_act") IN
    /\ Len(P) = 11
    /\ P[1] = <<"enter", "rest">> /\ P[2] = <<"enter", "saga">> /\ P[3] = <<"use", "log">>
    /\ P[4] = <<"leave", "saga">> /\ P[5] = <<"leave", "rest">> /\ P[6] = <<"enter", "rest">>
    /\ P[7] = <<"enter", "saga">> /\ P[8] = <<"use", "replay">> /\ P[9] = <<"use", "log">>
    /\ P[10] = <<"leave", "saga">> /\ P[11] = <<"leave", "rest">>
BY Instructions DEF PlanOf, Claim, Act

LEMMA ClaimActGoesOn ==
    ASSUME NEW a \in 0..Len(PlanOf("claim_act")), NEW p \in Pool, Inside(PlanOf("claim_act"), a, p)
    PROVE  GoesOn(PlanOf("claim_act"), a, p) /\ p # "log"
<1> DEFINE P == PlanOf("claim_act")
<1>1. /\ Len(P) = 11
      /\ P[1] = <<"enter", "rest">> /\ P[2] = <<"enter", "saga">> /\ P[3] = <<"use", "log">>
      /\ P[4] = <<"leave", "saga">> /\ P[5] = <<"leave", "rest">> /\ P[6] = <<"enter", "rest">>
      /\ P[7] = <<"enter", "saga">> /\ P[8] = <<"use", "replay">> /\ P[9] = <<"use", "log">>
      /\ P[10] = <<"leave", "saga">> /\ P[11] = <<"leave", "rest">>
  BY ClaimActPlan
<1> HIDE DEF P
<1>2. PICK i \in 1..a : P[i] = <<"enter", p>> /\ \A j \in (i + 1)..a : P[j] # <<"leave", p>>
  BY DEF Inside, P
<1>3. i \in 1..11 /\ a \in i..11
  <2>1. Len(P) = 11
    BY <1>1
  <2> QED BY <1>2, <2>1 DEF P
<1>4. i = 1 \/ i = 2 \/ i = 6 \/ i = 7
  BY <1>1, <1>2, <1>3
<1>5. CASE i = 1
  <2>1. p = "rest" /\ P[5] = <<"leave", p>>
    BY <1>1, <1>2, <1>5
  <2>2. 5 \notin (i + 1)..a
    BY <1>2, <2>1
  <2>3. a \in 1..4
    BY <1>3, <1>5, <2>2
  <2>4. a = 1 \/ a = 2 \/ a = 3 \/ a = 4
    BY <2>3
  <2>5. After(p) = {"replay", "saga", "log", "registry"}
    BY <2>1 DEF After, Pool
  <2>6. P[a + 1][1] \in {"enter", "use"} => P[a + 1][2] \in {"replay", "saga", "log", "registry"}
    BY <1>1, <2>4
  <2> QED BY <1>1, <2>1, <2>3, <2>5, <2>6 DEF GoesOn, P
<1>6. CASE i = 2
  <2>1. p = "saga" /\ P[4] = <<"leave", p>>
    BY <1>1, <1>2, <1>6
  <2>2. 4 \notin (i + 1)..a
    BY <1>2, <2>1
  <2>3. a \in 2..3
    BY <1>3, <1>6, <2>2
  <2>4. a = 2 \/ a = 3
    BY <2>3
  <2>5. After(p) = {"log", "replay"}
    BY <2>1 DEF After, Pool
  <2>6. P[a + 1][1] \in {"enter", "use"} => P[a + 1][2] \in {"log", "replay"}
    BY <1>1, <2>4
  <2> QED BY <1>1, <2>1, <2>3, <2>5, <2>6 DEF GoesOn, P
<1>7. CASE i = 6
  <2>1. p = "rest" /\ P[11] = <<"leave", p>>
    BY <1>1, <1>2, <1>7
  <2>2. 11 \notin (i + 1)..a
    BY <1>2, <2>1
  <2>3. a \in 6..10
    BY <1>3, <1>7, <2>2
  <2>4. a = 6 \/ a = 7 \/ a = 8 \/ a = 9 \/ a = 10
    BY <2>3
  <2>5. After(p) = {"replay", "saga", "log", "registry"}
    BY <2>1 DEF After, Pool
  <2>6. P[a + 1][1] \in {"enter", "use"} => P[a + 1][2] \in {"replay", "saga", "log", "registry"}
    BY <1>1, <2>4
  <2> QED BY <1>1, <2>1, <2>3, <2>5, <2>6 DEF GoesOn, P
<1>8. CASE i = 7
  <2>1. p = "saga" /\ P[10] = <<"leave", p>>
    BY <1>1, <1>2, <1>8
  <2>2. 10 \notin (i + 1)..a
    BY <1>2, <2>1
  <2>3. a \in 7..9
    BY <1>3, <1>8, <2>2
  <2>4. a = 7 \/ a = 8 \/ a = 9
    BY <2>3
  <2>5. After(p) = {"log", "replay"}
    BY <2>1 DEF After, Pool
  <2>6. P[a + 1][1] \in {"enter", "use"} => P[a + 1][2] \in {"log", "replay"}
    BY <1>1, <2>4
  <2> QED BY <1>1, <2>1, <2>3, <2>5, <2>6 DEF GoesOn, P
<1> QED BY <1>4, <1>5, <1>6, <1>7, <1>8

LEMMA ReleasePlan ==
    LET P == PlanOf("release") IN
    /\ Len(P) = 6
    /\ P[1] = <<"enter", "rest">> /\ P[2] = <<"enter", "saga">> /\ P[3] = <<"use", "replay">>
    /\ P[4] = <<"use", "log">> /\ P[5] = <<"leave", "saga">> /\ P[6] = <<"leave", "rest">>
BY Instructions DEF PlanOf, Release

LEMMA ReleaseGoesOn ==
    ASSUME NEW a \in 0..Len(PlanOf("release")), NEW p \in Pool, Inside(PlanOf("release"), a, p)
    PROVE  GoesOn(PlanOf("release"), a, p) /\ p # "log"
<1> DEFINE P == PlanOf("release")
<1>1. /\ Len(P) = 6
      /\ P[1] = <<"enter", "rest">> /\ P[2] = <<"enter", "saga">> /\ P[3] = <<"use", "replay">>
      /\ P[4] = <<"use", "log">> /\ P[5] = <<"leave", "saga">> /\ P[6] = <<"leave", "rest">>
  BY ReleasePlan
<1> HIDE DEF P
<1>2. PICK i \in 1..a : P[i] = <<"enter", p>> /\ \A j \in (i + 1)..a : P[j] # <<"leave", p>>
  BY DEF Inside, P
<1>3. i \in 1..6 /\ a \in i..6
  <2>1. Len(P) = 6
    BY <1>1
  <2> QED BY <1>2, <2>1 DEF P
<1>4. i = 1 \/ i = 2
  BY <1>1, <1>2, <1>3
<1>5. CASE i = 1
  <2>1. p = "rest" /\ P[6] = <<"leave", p>>
    BY <1>1, <1>2, <1>5
  <2>2. 6 \notin (i + 1)..a
    BY <1>2, <2>1
  <2>3. a \in 1..5
    BY <1>3, <1>5, <2>2
  <2>4. a = 1 \/ a = 2 \/ a = 3 \/ a = 4 \/ a = 5
    BY <2>3
  <2>5. After(p) = {"replay", "saga", "log", "registry"}
    BY <2>1 DEF After, Pool
  <2>6. P[a + 1][1] \in {"enter", "use"} => P[a + 1][2] \in {"replay", "saga", "log", "registry"}
    BY <1>1, <2>4
  <2> QED BY <1>1, <2>1, <2>3, <2>5, <2>6 DEF GoesOn, P
<1>6. CASE i = 2
  <2>1. p = "saga" /\ P[5] = <<"leave", p>>
    BY <1>1, <1>2, <1>6
  <2>2. 5 \notin (i + 1)..a
    BY <1>2, <2>1
  <2>3. a \in 2..4
    BY <1>3, <1>6, <2>2
  <2>4. a = 2 \/ a = 3 \/ a = 4
    BY <2>3
  <2>5. After(p) = {"log", "replay"}
    BY <2>1 DEF After, Pool
  <2>6. P[a + 1][1] \in {"enter", "use"} => P[a + 1][2] \in {"log", "replay"}
    BY <1>1, <2>4
  <2> QED BY <1>1, <2>1, <2>3, <2>5, <2>6 DEF GoesOn, P
<1> QED BY <1>4, <1>5, <1>6

LEMMA WatchPlan ==
    LET P == PlanOf("watch") IN
    /\ Len(P) = 2
    /\ P[1] = <<"enter", "log">> /\ P[2] = <<"leave", "log">>
BY Instructions DEF PlanOf, Watch

LEMMA WatchGoesOn ==
    ASSUME NEW a \in 0..Len(PlanOf("watch")), NEW p \in Pool, Inside(PlanOf("watch"), a, p)
    PROVE  GoesOn(PlanOf("watch"), a, p) /\ p = "log"
<1> DEFINE P == PlanOf("watch")
<1>1. /\ Len(P) = 2
      /\ P[1] = <<"enter", "log">> /\ P[2] = <<"leave", "log">>
  BY WatchPlan
<1> HIDE DEF P
<1>2. PICK i \in 1..a : P[i] = <<"enter", p>> /\ \A j \in (i + 1)..a : P[j] # <<"leave", p>>
  BY DEF Inside, P
<1>3. i \in 1..2 /\ a \in i..2
  <2>1. Len(P) = 2
    BY <1>1
  <2> QED BY <1>2, <2>1 DEF P
<1>4. i = 1
  BY <1>1, <1>2, <1>3
<1>5. CASE i = 1
  <2>1. p = "log" /\ P[2] = <<"leave", p>>
    BY <1>1, <1>2, <1>5
  <2>2. 2 \notin (i + 1)..a
    BY <1>2, <2>1
  <2>3. a \in 1..1
    BY <1>3, <1>5, <2>2
  <2>4. a = 1
    BY <2>3
  <2>5. After(p) = {}
    BY <2>1 DEF After, Pool
  <2>6. P[a + 1][1] \in {"enter", "use"} => P[a + 1][2] \in {}
    BY <1>1, <2>4
  <2> QED BY <1>1, <2>1, <2>3, <2>5, <2>6 DEF GoesOn, P
<1> QED BY <1>4, <1>5

LEMMA CompilePlan ==
    LET P == PlanOf("compile") IN
    /\ Len(P) = 3
    /\ P[1] = <<"enter", "registry">> /\ P[2] = <<"use", "log">>
    /\ P[3] = <<"leave", "registry">>
BY Instructions DEF PlanOf, CompileCapability

LEMMA CompileGoesOn ==
    ASSUME NEW a \in 0..Len(PlanOf("compile")), NEW p \in Pool, Inside(PlanOf("compile"), a, p)
    PROVE  GoesOn(PlanOf("compile"), a, p) /\ p # "log"
<1> DEFINE P == PlanOf("compile")
<1>1. /\ Len(P) = 3
      /\ P[1] = <<"enter", "registry">> /\ P[2] = <<"use", "log">>
      /\ P[3] = <<"leave", "registry">>
  BY CompilePlan
<1> HIDE DEF P
<1>2. PICK i \in 1..a : P[i] = <<"enter", p>> /\ \A j \in (i + 1)..a : P[j] # <<"leave", p>>
  BY DEF Inside, P
<1>3. i \in 1..3 /\ a \in i..3
  <2>1. Len(P) = 3
    BY <1>1
  <2> QED BY <1>2, <2>1 DEF P
<1>4. i = 1
  BY <1>1, <1>2, <1>3
<1>5. CASE i = 1
  <2>1. p = "registry" /\ P[3] = <<"leave", p>>
    BY <1>1, <1>2, <1>5
  <2>2. 3 \notin (i + 1)..a
    BY <1>2, <2>1
  <2>3. a \in 1..2
    BY <1>3, <1>5, <2>2
  <2>4. a = 1 \/ a = 2
    BY <2>3
  <2>5. After(p) = {"log"}
    BY <2>1 DEF After, Pool
  <2>6. P[a + 1][1] \in {"enter", "use"} => P[a + 1][2] \in {"log"}
    BY <1>1, <2>4
  <2> QED BY <1>1, <2>1, <2>3, <2>5, <2>6 DEF GoesOn, P
<1> QED BY <1>4, <1>5
LEMMA PlanGoesOn ==
    ASSUME NEW kind \in Kinds, NEW a \in 0..Len(PlanOf(kind)), NEW p \in Pool,
           Inside(PlanOf(kind), a, p)
    PROVE  GoesOn(PlanOf(kind), a, p) /\ (p = "log" <=> kind = "watch")
BY InvokeOkGoesOn, InvokeHardGoesOn, ClaimActGoesOn, ReleaseGoesOn, WatchGoesOn, CompileGoesOn
   DEF Kinds

\* A request inside of a call to p has a next step, which needs no worker or one
\* of a pool that calls to p use; only streams stay inside of the event log.
LEMMA HolderGoesOn ==
    ASSUME AtInv, NEW c \in Request, NEW p \in Pool, Holds(c, p)
    PROVE  /\ ~Finished(c)
           /\ Next1(c, "enter") \/ Next1(c, "use") => NextPool(c) \in After(p)
           /\ p = "log" <=> KindOf[c] = "watch"
<1>1. KindOf[c] \in Kinds /\ Plan[c] = PlanOf(KindOf[c])
  BY ConstantsAssumption DEF Plan
<1>2. at[c] \in 0..Len(Plan[c])
  BY PlanLength DEF AtInv
<1>3. Inside(Plan[c], at[c], p)
  BY DEF Holds, Inside
<1>4. GoesOn(Plan[c], at[c], p) /\ (p = "log" <=> KindOf[c] = "watch")
  BY <1>1, <1>2, <1>3, PlanGoesOn
<1>5. ~Finished(c)
  BY <1>2, <1>4, PlanLength DEF GoesOn, Finished
<1> QED BY <1>4, <1>5 DEF GoesOn, Next1, NextPool

\* The next instruction of a plan that needs a worker names a pool.
LEMMA NextPoolInPool ==
    ASSUME AtInv, NEW c \in Request, ~Finished(c)
    PROVE  NextPool(c) \in Pool
<1>1. KindOf[c] \in Kinds /\ Plan[c] = PlanOf(KindOf[c])
  BY ConstantsAssumption DEF Plan
<1>2. at[c] \in 0..(Len(Plan[c]) - 1)
  BY PlanLength DEF AtInv, Finished
<1>3. ASSUME NEW kind \in Kinds, NEW a \in 0..(Len(PlanOf(kind)) - 1)
      PROVE  PlanOf(kind)[a + 1][2] \in Pool
  <2>1. CASE kind = "invoke_ok"
    BY <2>1, InvokeOkPlan DEF Pool
  <2>2. CASE kind = "invoke_hard"
    BY <2>2, InvokeHardPlan DEF Pool
  <2>3. CASE kind = "claim_act"
    BY <2>3, ClaimActPlan DEF Pool
  <2>4. CASE kind = "release"
    BY <2>4, ReleasePlan DEF Pool
  <2>5. CASE kind = "watch"
    BY <2>5, WatchPlan DEF Pool
  <2>6. CASE kind = "compile"
    BY <2>6, CompilePlan DEF Pool
  <2> QED BY <2>1, <2>2, <2>3, <2>4, <2>5, <2>6 DEF Kinds
<1> QED BY <1>1, <1>2, <1>3 DEF NextPool

\* A pool without a free worker has a request inside.
LEMMA TakenPool ==
    ASSUME NEW p \in Pool
    PROVE  /\ Cardinality({c \in Request : Holds(c, p)}) \in Nat /\ Size[p] \in Nat \ {0}
           /\ ~FreeWorker(p) => Cardinality({c \in Request : Holds(c, p)}) >= Size[p]
           /\ ~FreeWorker(p) => \E c \in Request : Holds(c, p)
<1> DEFINE H == {c \in Request : Holds(c, p)}
<1>1. H \in SUBSET Request /\ IsFiniteSet(Request)
  BY ConstantsAssumption
<1> HIDE DEF H
<1>2. IsFiniteSet(H) /\ Cardinality(H) \in Nat
  BY <1>1, FS_Subset, FS_CardinalityType
<1>3. Size[p] \in Nat \ {0}
  BY ConstantsAssumption
<1>4. ~FreeWorker(p) => Cardinality(H) >= Size[p]
  BY <1>2, <1>3 DEF FreeWorker, H
<1>5. Cardinality(H) # 0 => H # {}
  BY FS_EmptySet
<1>6. ~FreeWorker(p) => H # {}
  BY <1>2, <1>3, <1>4, <1>5
<1> QED BY <1>2, <1>3, <1>4, <1>6 DEF H

LEMMA StuckOnlySo == AtInv => StuckExplained
<1> SUFFICES ASSUME AtInv, NEW c0 \in Served, ~Finished(c0),
                    \A c \in Served : ~CanGoOn(c), ~LogTaken
             PROVE  Gridlock
  BY DEF StuckExplained
<1>0. /\ "rest" \in Pool /\ "replay" \in Pool /\ "saga" \in Pool /\ "log" \in Pool
      /\ "registry" \in Pool
  BY DEF Pool
<1>1. ASSUME NEW c \in Served, ~Finished(c)
      PROVE  (Next1(c, "enter") \/ Next1(c, "use")) /\ ~FreeWorker(NextPool(c)) /\ c \in Request
  BY <1>1 DEF CanGoOn, Served
<1>2. ASSUME NEW c \in Request, NEW p \in Pool, p # "log", Holds(c, p)
      PROVE  c \in Served /\ NextPool(c) \in After(p) /\ ~FreeWorker(NextPool(c))
             /\ (Next1(c, "enter") \/ Next1(c, "use"))
  <2>1. c \in Served /\ ~Finished(c)
    BY <1>2, HolderGoesOn DEF Served
  <2> QED BY <2>1, <1>1, <1>2, HolderGoesOn
\* The event log serves nobody for long but streams.
<1>3. FreeWorker("log")
  <2>1. {c \in Request : Holds(c, "log")} = {c \in Request : KindOf[c] = "watch" /\ Holds(c, "log")}
    BY <1>0, HolderGoesOn
  <2>2. ~(Cardinality({c \in Request : Holds(c, "log")}) >= Size["log"])
    BY <2>1 DEF LogTaken
  <2> QED BY <1>0, <2>2, TakenPool
\* Whoever is inside of the registry waits for the event log at most.
<1>4. FreeWorker("registry")
  <2> SUFFICES ASSUME ~FreeWorker("registry") PROVE FALSE
    OBVIOUS
  <2>1. PICK c \in Request : Holds(c, "registry")
    BY <1>0, TakenPool
  <2>2. NextPool(c) \in After("registry") /\ ~FreeWorker(NextPool(c))
    BY <1>0, <1>2, <2>1
  <2> QED BY <2>2, <1>3 DEF After
\* So whoever is inside of the replay runtime waits for the saga service, and
\* whoever is inside of the saga service for the replay runtime.
<1>5. ASSUME NEW c \in Request, Holds(c, "replay") PROVE Waits(c, "saga") /\ ~FreeWorker("saga")
  <2>1. NextPool(c) \in {"registry", "log", "saga"} /\ ~FreeWorker(NextPool(c))
        /\ (Next1(c, "enter") \/ Next1(c, "use"))
    BY <1>0, <1>2, <1>5 DEF After
  <2>2. NextPool(c) = "saga"
    BY <2>1, <1>3, <1>4
  <2> QED BY <2>1, <2>2 DEF Waits
<1>6. ASSUME NEW c \in Request, Holds(c, "saga") PROVE Waits(c, "replay") /\ ~FreeWorker("replay")
  <2>1. NextPool(c) \in {"log", "replay"} /\ ~FreeWorker(NextPool(c))
        /\ (Next1(c, "enter") \/ Next1(c, "use"))
    BY <1>0, <1>2, <1>6 DEF After
  <2>2. NextPool(c) = "replay"
    BY <2>1, <1>3
  <2> QED BY <2>1, <2>2 DEF Waits
\* One of the two has no free worker, for c0 waits for it or for a thread of
\* the gateway that does; so neither has.
<1>7. ~FreeWorker("replay") \/ ~FreeWorker("saga")
  <2>1. NextPool(c0) \in Pool /\ ~FreeWorker(NextPool(c0))
    BY <1>1, NextPoolInPool
  <2>2. CASE NextPool(c0) = "rest"
    <3>1. PICK c \in Request : Holds(c, "rest")
      BY <1>0, <2>1, <2>2, TakenPool
    <3>2. NextPool(c) \in Pool \ {"rest"} /\ ~FreeWorker(NextPool(c))
      BY <1>0, <1>2, <3>1 DEF After
    <3> QED BY <3>2, <1>3, <1>4 DEF Pool
  <2> QED BY <2>1, <2>2, <1>3, <1>4 DEF Pool
<1>8. ~FreeWorker("replay") /\ ~FreeWorker("saga")
  BY <1>0, <1>5, <1>6, <1>7, TakenPool
<1>9. /\ {c \in Request : Holds(c, "replay") /\ Waits(c, "saga")} = {c \in Request : Holds(c, "replay")}
      /\ {c \in Request : Holds(c, "saga") /\ Waits(c, "replay")} = {c \in Request : Holds(c, "saga")}
  BY <1>5, <1>6
<1>10. /\ Cardinality({c \in Request : Holds(c, "replay")}) >= Size["replay"]
       /\ Cardinality({c \in Request : Holds(c, "saga")}) >= Size["saga"]
  BY <1>0, <1>8, TakenPool
<1> QED BY <1>9, <1>10 DEF Gridlock, TakenBy

\* The pools stop only for the two known reasons: for any requests, plans of the
\* six kinds, pool sizes and order of service, as long as a request other than a
\* stream is unanswered one can go on, unless the replay and saga workers wait for
\* each other or streams have every worker of the event log.
THEOREM StuckOnlyExplained == Spec => []StuckExplained
<1>1. Init => AtInv
  BY PlanLength DEF Init, AtInv
<1> QED BY <1>1, NextAt, StuckOnlySo, PTL DEF Spec
=============================================================================
