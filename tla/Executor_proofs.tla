--------------------------- MODULE Executor_proofs ---------------------------
(***************************************************************************)
(* That what a replay reports is true at the bank, for any artifacts and   *)
(* inputs, any number of runs side by side, and any number of retries.     *)
(***************************************************************************)
EXTENDS Executor, FiniteSetTheorems, FunctionTheorems, TLAPS

\* A sub-account is there under the id of its POST, and each stored POST's id has
\* one; the bank numbers nothing that it refuses.
AccountsInv ==
    /\ \A p \in Post : posts[p] \in {"read", "bumped", "numbered", "stored"} =>
           ~Bank!Refused(call[p[1]].member, call[p[1]].valid)
    /\ \A p \in Post : posts[p] = "stored" => issued[p] \in DOMAIN accounts
    /\ \A i \in DOMAIN accounts : posts[accounts[i]] = "stored" /\ issued[accounts[i]] = i

\* A POST that has its id, which it took while no other POST was taking one.
Alone(p) == posts[p] \in {"numbered", "stored"} /\ p \notin crossed

\* Two POSTs that are taking ids have crossed.  Once a POST has taken its id alone,
\* the counter is never below it, nor is what another POST has read; the counter
\* is above it when one has written alone; so two that took theirs alone differ.
SeqInv ==
    /\ \A p, q \in Post :
           p # q /\ posts[p] \in Bank!Numbering /\ posts[q] \in Bank!Numbering => p \in crossed
    /\ \A p \in Post : Alone(p) =>
           /\ issued[p] <= seq
           /\ \A q \in Post : posts[q] = "read" => issued[p] <= issued[q]
           /\ \A q \in Post : posts[q] = "bumped" /\ q \notin crossed => issued[p] < seq
           /\ \A q \in Post : Alone(q) /\ issued[q] = issued[p] => p = q

BankInv == AccountsInv /\ SeqInv

\* What a page shows is so at the bank.
Shown(r) ==
    /\ page[r] = "confirm" => Stored(r)
    /\ page[r] = "detail" => call[r].member = "active"
    /\ page[r] = "notfound" => call[r].member = "unknown" \/ call[r].inject = "notfound"
    /\ page[r] = "denied" => call[r].member = "restricted" \/ call[r].inject = "permission"

\* A step that has succeeded has left what it stands for.
Passed(r) ==
    /\ pos[r] <= Len(Steps(r)) + 1
    /\ pc[r] \in {"act", "look"} => pos[r] <= Len(Steps(r))
    /\ outputs[r] = {i \in DOMAIN Steps(r) : i < pos[r] /\ Steps(r)[i].kind = "extract"}
    /\ \A i \in DOMAIN Steps(r) : i < pos[r] =>
           /\ Steps(r)[i].kind = "extract" /\ Steps(r)[i].on = {"detail"}
                  => call[r].member = "active"
           /\ Steps(r)[i].kind = "assert" /\ Steps(r)[i].on = {"confirm"} => Stored(r)

\* A run without a marker has got to its end; a marker was on the page.
Reported(r) ==
    /\ pc[r] # "ended" => outcome[r] = "none"
    /\ outcome[r] = "BUSINESS_OUTCOME" /\ marker[r] = "none" => pos[r] > Len(Steps(r))
    /\ marker[r] = "notfound" => call[r].member = "unknown" \/ call[r].inject = "notfound"
    /\ marker[r] = "denied" => call[r].member = "restricted" \/ call[r].inject = "permission"

\* A try that is still to come has not sent the form.
Fresh(r) ==
    /\ pc[r] # "ended" => attempt[r] <= MaxRetries
    /\ \A n \in Tries : posts[<<r, n>>] # "none" =>
           \E i \in PostSteps(r) : i < pos[r] \/ (i = pos[r] /\ n <= attempt[r])

RunInv(r) == Shown(r) /\ Passed(r) /\ Reported(r) /\ Fresh(r)

RunsInv == \A r \in Run : RunInv(r)

IInv == TypeOK /\ BankInv /\ RunsInv

LEMMA InitInv == Init => IInv
<1> SUFFICES ASSUME Init PROVE IInv
  OBVIOUS
<1> USE ConstantsAssumption DEF Init, Bank!Init
<1>1. TypeOK
  BY DEF TypeOK, Bank!Pages, Requests
<1>2. BankInv
  BY DEF BankInv, AccountsInv, SeqInv, Alone, Bank!Numbering
<1>3. ASSUME NEW r \in Run PROVE Shown(r) /\ Passed(r) /\ Reported(r) /\ Fresh(r)
  <2>1. Steps(r) \in Seq(Step) /\ Len(Steps(r)) \in Nat /\ DOMAIN Steps(r) = 1..Len(Steps(r))
    BY DEF Steps, CallType
  <2>2. Passed(r)
    BY <2>1 DEF Passed
  <2> QED BY <2>2 DEF Shown, Reported, Fresh, Post
<1> QED BY <1>1, <1>2, <1>3 DEF IInv, RunsInv, RunInv

-----------------------------------------------------------------------------
\* Types.
LEMMA CallTyped ==
    ASSUME TypeOK, NEW r \in Run
    PROVE  /\ call[r] \in CallType
           /\ Steps(r) \in Seq(Step) /\ Len(Steps(r)) \in Nat
           /\ DOMAIN Steps(r) = 1..Len(Steps(r))
BY ConstantsAssumption DEF TypeOK, CallType, Steps

LEMMA HereTyped ==
    ASSUME TypeOK, NEW r \in Run, pos[r] <= Len(Steps(r))
    PROVE  pos[r] \in DOMAIN Steps(r) /\ Here(r) \in Step
<1>1. pos[r] \in Nat \ {0}
  BY DEF TypeOK
<1>2. pos[r] \in 1..Len(Steps(r))
  BY <1>1, CallTyped
<1> QED BY <1>2, CallTyped DEF Here

LEMMA CallStays == [Next]_vars => call' = call
BY DEF Next, Execute, Navigate, Locate, Click, Fill, Extract, Assert, Look, Finish, Answer,
       Serve, vars

\* The pages that a browser gets.
LEMMA PageTyped ==
    ASSUME TypeOK, NEW r \in Run
    PROVE  /\ \A q \in Gets : PagesFor(r, q) \subseteq Bank!Pages
           /\ \A p \in Post : Bank!PostPage(p, call[r].member) \in Bank!Pages
BY CallTyped DEF Gets, PagesFor, Bank!MemberPage, Bank!PostPage, Bank!Pages, Bank!ErrorPages

LEMMA EndsTyped ==
    ASSUME TypeOK, NEW r \in Run, attempt[r] <= MaxRetries,
           \/ Succeed(r) \/ HardFailure(r) \/ Recoverable(r)
           \/ \E text \in {"notfound", "denied"} : BusinessOutcome(r, text)
           \/ Finish(r)
    PROVE  /\ pc' \in [Run -> {"step", "act", "look", "ended"}]
           /\ pos' \in [Run -> Nat \ {0}]
           /\ attempt' \in [Run -> 0..(MaxRetries + 1)]
           /\ retries' \in [Run -> Nat]
           /\ log' \in [Run -> Seq((Nat \ {0}) \X
                  {"success", "recoverable_retry", "business_outcome", "hard_failure"})]
           /\ outcome' \in [Run -> {"none", "BUSINESS_OUTCOME", "HARD_FAILURE"}]
           /\ marker' \in [Run -> {"none", "notfound", "denied"}]
<1> DEFINE Words == {"success", "recoverable_retry", "business_outcome", "hard_failure"}
<1> USE ConstantsAssumption DEF TypeOK
<1>1. \A w \in Words : Log(r, w) => log' \in [Run -> Seq((Nat \ {0}) \X Words)]
  BY DEF Log
<1> HIDE DEF Words
<1>2. CASE Succeed(r)
  BY <1>1, <1>2 DEF Succeed, result, Words
<1>3. CASE HardFailure(r)
  BY <1>1, <1>3 DEF HardFailure, Return, Words
<1>4. CASE Recoverable(r)
  <2>1. attempt' \in [Run -> 0..(MaxRetries + 1)] /\ retries' \in [Run -> Nat] /\ pos' = pos
    BY <1>4 DEF Recoverable
  <2>2. CASE attempt[r] < MaxRetries
    <3>1. Log(r, "recoverable_retry") /\ pc' = [pc EXCEPT ![r] = "step"] /\ UNCHANGED result
      BY <1>4, <2>2 DEF Recoverable
    <3>2. log' \in [Run -> Seq((Nat \ {0}) \X Words)]
      BY <1>1, <3>1 DEF Words
    <3> QED BY <2>1, <3>1, <3>2 DEF result, Words
  <2>3. CASE ~(attempt[r] < MaxRetries)
    <3>1. Log(r, "hard_failure") /\ Return(r, "HARD_FAILURE", "none")
      BY <1>4, <2>3 DEF Recoverable
    <3>2. log' \in [Run -> Seq((Nat \ {0}) \X Words)]
      BY <1>1, <3>1 DEF Words
    <3> QED BY <2>1, <3>1, <3>2 DEF Return, Words
  <2> QED BY <2>2, <2>3
<1>5. CASE \E text \in {"notfound", "denied"} : BusinessOutcome(r, text)
  BY <1>1, <1>5 DEF BusinessOutcome, Return, Words
<1>6. CASE Finish(r)
  BY <1>6 DEF Finish, Return, progress, Words
<1> QED BY <1>2, <1>3, <1>4, <1>5, <1>6

LEMMA SendTyped ==
    ASSUME TypeOK, NEW r \in Run, attempt[r] <= MaxRetries, NEW q \in Requests,
           Send(r, q) \/ UNCHANGED <<browser, bank>>
    PROVE  /\ page' \in [Run -> Bank!Pages] /\ pending' \in [Run -> Requests]
           /\ posts' \in [Post -> {"none", "sent", "refused", "read", "bumped", "numbered", "stored"}]
           /\ UNCHANGED <<issued, seq, accounts, crossed>>
<1>1. <<r, attempt[r] + 1>> \in Post
  BY ConstantsAssumption DEF TypeOK, Post, Tries
<1>2. CASE UNCHANGED <<browser, bank>>
  BY <1>2 DEF TypeOK, browser, bank
<1>3. CASE Send(r, q)
  <2>1. UNCHANGED <<page, issued, seq, accounts, crossed>>
    BY <1>3 DEF Send, Bank!Send, bank
  <2>2. posts' \in [Post -> {"none", "sent", "refused", "read", "bumped", "numbered", "stored"}]
    BY <1>1, <1>3 DEF TypeOK, Send, Bank!Send, bank
  <2>3. pending' \in [Run -> Requests]
    BY <1>3 DEF TypeOK, Send
  <2> QED BY <2>1, <2>2, <2>3 DEF TypeOK
<1> QED BY <1>2, <1>3

\* What the bank does with a POST.
LEMMA ServeCases ==
    ASSUME IInv, NEW p \in Post, Serve(p)
    PROVE  /\ UNCHANGED <<call, pc, progress, result, browser>>
           /\ \/ posts[p] = "sent" /\ posts' = [posts EXCEPT ![p] = "refused"]
                 /\ UNCHANGED <<issued, seq, accounts, crossed>>
              \/ /\ posts[p] = "sent" /\ posts' = [posts EXCEPT ![p] = "read"]
                 /\ ~Bank!Refused(call[p[1]].member, call[p[1]].valid)
                 /\ issued' = [issued EXCEPT ![p] = seq] /\ UNCHANGED <<seq, accounts>>
                 /\ crossed' = crossed \cup Bank!Others(p) \cup {q \in {p} : Bank!Others(p) # {}}
              \/ Bank!WriteSeq(p) \/ Bank!TakeId(p) \/ Bank!Store(p)
<1>1. PICK valid \in Forms(p[1]) : Bank!Handle(p, call[p[1]].member, valid)
  BY DEF Serve
<1>2. ~Bank!Refused(call[p[1]].member, valid) => ~Bank!Refused(call[p[1]].member, call[p[1]].valid)
  BY <1>1 DEF Forms, Bank!Refused
<1>3. UNCHANGED <<call, pc, progress, result, browser>>
  BY DEF Serve
<1> QED BY <1>1, <1>2, <1>3 DEF Bank!Handle, Bank!Refuse, Bank!ReadSeq

LEMMA TypeStep == ASSUME IInv, Next PROVE TypeOK'
<1> USE DEF IInv
<1>1. ASSUME NEW r \in Run, Execute(r) PROVE TypeOK'
  <2>1. pc[r] # "ended" /\ attempt[r] <= MaxRetries
    BY <1>1 DEF Execute, Navigate, Locate, Click, Fill, Extract, Assert, Look, Finish, Running,
                RunsInv, RunInv, Fresh
  <2>2. CASE Navigate(r)
    <3>1. Here(r) \in Step /\ Here(r).kind = "navigate"
      BY <2>2, HereTyped DEF Navigate, Running
    <3>2. Here(r).to \in Gets
      BY <3>1 DEF Step
    <3>3. PagesFor(r, Here(r).to) \subseteq Bank!Pages /\ Here(r).to \in Requests
      BY <3>2, PageTyped DEF Requests
    <3>4. CASE HardFailure(r) /\ UNCHANGED <<browser, bank>>
      BY <2>1, <2>2, <3>4, EndsTyped DEF Navigate, TypeOK, browser, bank
    <3>5. CASE /\ \E got \in PagesFor(r, Here(r).to) : page' = [page EXCEPT ![r] = got]
               /\ pending' = [pending EXCEPT ![r] = "none"]
               /\ Succeed(r) /\ UNCHANGED bank
      <4>1. page' \in [Run -> Bank!Pages]
        BY <3>3, <3>5 DEF TypeOK
      <4>2. pending' \in [Run -> Requests]
        BY <3>5 DEF TypeOK, Requests
      <4>3. UNCHANGED <<call, outputs, posts, issued, seq, accounts, crossed>>
        BY <2>2, <3>5 DEF Navigate, bank
      <4> HIDE DEF IInv
      <4>4. TypeOK
        BY DEF IInv
      <4> QED BY <2>1, <3>5, <4>1, <4>2, <4>3, <4>4, EndsTyped DEF TypeOK
    <3>6. CASE /\ Recoverable(r)
               /\ Send(r, Here(r).to) \/ UNCHANGED <<browser, bank>>
      <4>1. /\ page' \in [Run -> Bank!Pages] /\ pending' \in [Run -> Requests]
            /\ posts' \in [Post -> {"none", "sent", "refused", "read", "bumped", "numbered", "stored"}]
            /\ UNCHANGED <<issued, seq, accounts, crossed>>
        BY <2>1, <3>3, <3>6, SendTyped
      <4> QED BY <2>1, <2>2, <3>6, <4>1, EndsTyped DEF Navigate, TypeOK
    <3> QED BY <2>2, <3>4, <3>5, <3>6 DEF Navigate
  <2>3. CASE Locate(r)
    BY <2>3 DEF Locate, TypeOK, progress, result, browser, bank
  <2>4. CASE Click(r)
    <3>1. Here(r) \in Step
      BY <2>4, HereTyped DEF Click, RunsInv, RunInv, Passed
    <3>2. \A request \in Here(r).sends[page[r]] : request \in Requests
      BY <2>4, <3>1 DEF Click, Step, TypeOK
    <3>3. /\ page' \in [Run -> Bank!Pages] /\ pending' \in [Run -> Requests]
          /\ posts' \in [Post -> {"none", "sent", "refused", "read", "bumped", "numbered", "stored"}]
          /\ UNCHANGED <<issued, seq, accounts, crossed>>
      <4>1. \/ UNCHANGED <<browser, bank>>
            \/ \E request \in Here(r).sends[page[r]] : Send(r, request)
        BY <2>4 DEF Click
      <4>2. CASE UNCHANGED <<browser, bank>>
        BY <4>2 DEF TypeOK, browser, bank
      <4>3. ASSUME NEW request \in Here(r).sends[page[r]], Send(r, request),
                   Here(r).sends[page[r]] \subseteq Requests
            PROVE  /\ page' \in [Run -> Bank!Pages] /\ pending' \in [Run -> Requests]
                   /\ posts' \in [Post -> {"none", "sent", "refused", "read", "bumped", "numbered", "stored"}]
                   /\ UNCHANGED <<issued, seq, accounts, crossed>>
        BY <2>1, <4>3, SendTyped
      <4> QED BY <3>2, <4>1, <4>2, <4>3
    <3> QED BY <2>1, <2>4, <3>3, EndsTyped DEF Click, TypeOK
  <2>5. CASE Fill(r)
    BY <2>1, <2>5, EndsTyped DEF Fill, TypeOK, browser, bank
  <2>6. CASE Extract(r)
    <3>1. outputs' \in [Run -> SUBSET Nat]
      <4>1. pos[r] \in Nat /\ outputs \in [Run -> SUBSET Nat]
        BY DEF TypeOK
      <4>2. outputs[r] \cup {pos[r]} \in SUBSET Nat
        BY <4>1
      <4>3. \/ outputs' = [outputs EXCEPT ![r] = outputs[r] \cup {pos[r]}]
            \/ outputs' = outputs
        BY <2>6 DEF Extract
      <4> QED BY <4>1, <4>2, <4>3
    <3> QED BY <2>1, <2>6, <3>1, EndsTyped DEF Extract, TypeOK, browser, bank
  <2>7. CASE Assert(r)
    BY <2>1, <2>7, EndsTyped DEF Assert, TypeOK, browser, bank, result
  <2>8. CASE Look(r)
    BY <2>1, <2>8, EndsTyped DEF Look, TypeOK, browser, bank
  <2>9. CASE Finish(r)
    BY <2>1, <2>9, EndsTyped DEF Finish, TypeOK, progress, browser, bank
  <2> QED BY <1>1, <2>2, <2>3, <2>4, <2>5, <2>6, <2>7, <2>8, <2>9 DEF Execute
<1>2. ASSUME NEW r \in Run, Answer(r) PROVE TypeOK'
  <2>1. pending[r] \in Requests \ {"none"}
    BY <1>2 DEF Answer, TypeOK
  <2>2. page' \in [Run -> Bank!Pages]
    <3>1. CASE /\ pending[r] # "post"
               /\ \E got \in PagesFor(r, pending[r]) : page' = [page EXCEPT ![r] = got]
      BY <2>1, <3>1, PageTyped DEF Requests, TypeOK
    <3>2. CASE \E n \in Tries : page' = [page EXCEPT ![r] = Bank!PostPage(<<r, n>>, call[r].member)]
      <4>1. PICK n \in Tries : page' = [page EXCEPT ![r] = Bank!PostPage(<<r, n>>, call[r].member)]
        BY <3>2
      <4>2. Bank!PostPage(<<r, n>>, call[r].member) \in Bank!Pages
        BY PageTyped DEF Post
      <4> QED BY <4>1, <4>2 DEF TypeOK
    <3> QED BY <1>2, <3>1, <3>2 DEF Answer
  <2> QED BY <1>2, <2>2 DEF Answer, TypeOK, progress, result, bank, Requests
<1>3. ASSUME NEW p \in Post, Serve(p) PROVE TypeOK'
  <2>1. UNCHANGED <<call, pc, progress, result, browser>>
    BY <1>3 DEF Serve
  <2>2. /\ posts' \in [Post -> {"none", "sent", "refused", "read", "bumped", "numbered", "stored"}]
        /\ issued' \in [Post -> Nat] /\ seq' \in Nat /\ crossed' \subseteq Post
    <3>1. Bank!Others(p) \subseteq Post
      BY DEF Bank!Others
    <3>2. CASE Bank!WriteSeq(p) \/ Bank!TakeId(p) \/ Bank!Store(p)
      <4>1. CASE Bank!WriteSeq(p)
        BY <4>1 DEF TypeOK, Bank!WriteSeq
      <4>2. CASE Bank!TakeId(p)
        BY <4>2 DEF TypeOK, Bank!TakeId
      <4>3. CASE Bank!Store(p)
        BY <4>3 DEF TypeOK, Bank!Store
      <4> QED BY <3>2, <4>1, <4>2, <4>3
    <3>3. CASE UNCHANGED <<issued, seq, accounts, crossed>> /\ posts' = [posts EXCEPT ![p] = "refused"]
      BY <3>3 DEF TypeOK
    <3>4. CASE /\ posts' = [posts EXCEPT ![p] = "read"]
               /\ issued' = [issued EXCEPT ![p] = seq] /\ UNCHANGED <<seq, accounts>>
               /\ crossed' = crossed \cup Bank!Others(p) \cup {q \in {p} : Bank!Others(p) # {}}
      BY <3>1, <3>4 DEF TypeOK
    <3> QED BY <1>3, <3>2, <3>3, <3>4, ServeCases
  <2>3. accounts' \in [DOMAIN accounts' -> Post] /\ DOMAIN accounts' \subseteq Nat
    <3>1. CASE accounts' = accounts
      BY <3>1 DEF TypeOK
    <3>2. CASE Bank!Store(p)
      BY <3>2 DEF Bank!Store, TypeOK
    <3> QED BY <1>3, <3>1, <3>2, ServeCases DEF Bank!WriteSeq, Bank!TakeId
  <2> QED BY <2>1, <2>2, <2>3 DEF TypeOK, progress, result, browser
<1> QED BY <1>1, <1>2, <1>3 DEF Next

-----------------------------------------------------------------------------
\* The bank.

\* No try sends what another one has sent: the bank meets each POST once.
LEMMA SendsFresh ==
    ASSUME IInv, NEW r \in Run, attempt[r] <= MaxRetries, pos[r] <= Len(Steps(r)),
           Submits(Here(r))
    PROVE  <<r, attempt[r] + 1>> \in Post /\ posts[<<r, attempt[r] + 1>>] = "none"
<1> DEFINE n == attempt[r] + 1
<1>1. n \in Tries /\ attempt[r] \in Nat /\ pos[r] \in PostSteps(r)
  <2>1. TypeOK
    BY DEF IInv
  <2>2. attempt[r] \in Nat /\ MaxRetries \in Nat
    BY <2>1, ConstantsAssumption DEF TypeOK
  <2>3. n \in Tries
    BY <2>2 DEF Tries
  <2>4. pos[r] \in DOMAIN Steps(r)
    BY <2>1, HereTyped
  <2> QED BY <2>2, <2>3, <2>4 DEF PostSteps, Here
<1>2. ASSUME NEW i \in PostSteps(r) PROVE i = pos[r]
  BY <1>1, <1>2, ConstantsAssumption DEF PostSteps, Steps, IInv, TypeOK
<1>3. ~ \E i \in PostSteps(r) : i < pos[r] \/ (i = pos[r] /\ n <= attempt[r])
  BY <1>1, <1>2 DEF IInv, TypeOK
<1>4. posts[<<r, n>>] = "none"
  BY <1>1, <1>3 DEF IInv, RunsInv, RunInv, Fresh
<1> QED BY <1>1, <1>4 DEF Post

\* What the executor does to the bank: it sends the form, in this try.
Sends(r) ==
    /\ pos[r] \in PostSteps(r)
    /\ posts[<<r, attempt[r] + 1>>] = "none" /\ <<r, attempt[r] + 1>> \in Post
    /\ posts' = [posts EXCEPT ![<<r, attempt[r] + 1>>] = "sent"]
    /\ Succeed(r) \/ Recoverable(r)

LEMMA ExecuteSends ==
    ASSUME IInv, NEW r \in Run, Execute(r)
    PROVE  UNCHANGED <<issued, seq, accounts, crossed>> /\ (Sends(r) \/ UNCHANGED posts)
<1>1. pc[r] # "ended" /\ attempt[r] <= MaxRetries
  BY DEF Execute, Navigate, Locate, Click, Fill, Extract, Assert, Look, Finish, Running,
         IInv, RunsInv, RunInv, Fresh
<1>2. ASSUME NEW request, Send(r, request), request = "post" => Submits(Here(r)),
             pos[r] <= Len(Steps(r)), Succeed(r) \/ Recoverable(r)
      PROVE  UNCHANGED <<issued, seq, accounts, crossed>> /\ (Sends(r) \/ UNCHANGED posts)
  <2>1. CASE request = "post"
    <3>1. pos[r] \in PostSteps(r)
      BY <1>2, <2>1, HereTyped DEF IInv, PostSteps, Here
    <3> QED BY <1>1, <1>2, <2>1, <3>1, SendsFresh DEF Send, Bank!Send, Sends
  <2> QED BY <1>2, <2>1 DEF Send, bank
<1>3. CASE Navigate(r)
  <2>1. Here(r) \in Step /\ Here(r).kind = "navigate"
    BY <1>3, HereTyped DEF Navigate, Running, IInv
  <2>2. Here(r).to # "post"
    BY <2>1 DEF Step, Gets
  <2> QED BY <1>2, <1>3, <2>2 DEF Navigate, Running, bank
<1>4. CASE Click(r)
  <2>1. pos[r] <= Len(Steps(r)) /\ Here(r).kind = "click"
    BY <1>4 DEF Click, IInv, RunsInv, RunInv, Passed
  <2>2. ASSUME Matches(r), NEW request \in Here(r).sends[page[r]]
        PROVE  request = "post" => Submits(Here(r))
    BY <2>1, <2>2 DEF Matches, Submits
  <2> QED BY <1>2, <1>4, <2>1, <2>2 DEF Click, bank
<1> QED BY <1>3, <1>4 DEF Execute, Locate, Fill, Extract, Assert, Look, Finish, bank

\* The bank's own steps, and the browser's, send nothing; what is stored stays.
LEMMA StoredStays ==
    ASSUME IInv, Next, NEW r \in Run, Stored(r) PROVE Stored(r)'
<1>1. PICK n \in Tries : posts[<<r, n>>] = "stored"
  BY DEF Stored
<1>2. <<r, n>> \in Post /\ posts \in [Post -> {"none", "sent", "refused", "read", "bumped", "numbered", "stored"}]
  BY DEF Post, IInv, TypeOK
<1>3. ASSUME NEW q \in Run, Execute(q) PROVE posts'[<<r, n>>] = "stored"
  BY <1>1, <1>2, <1>3, ExecuteSends DEF Sends
<1>4. ASSUME NEW q \in Run, Answer(q) PROVE posts'[<<r, n>>] = "stored"
  BY <1>1, <1>4 DEF Answer, bank
<1>5. ASSUME NEW p \in Post, Serve(p) PROVE posts'[<<r, n>>] = "stored"
  BY <1>1, <1>2, <1>5, ServeCases DEF Bank!WriteSeq, Bank!TakeId, Bank!Store
<1> QED BY <1>3, <1>4, <1>5 DEF Next, Stored

\* A step that takes no id and stores nothing.
LEMMA BankQuiet ==
    ASSUME IInv, Next, UNCHANGED <<issued, seq, accounts, crossed>>,
           \A p \in Post : posts'[p] = posts[p]
                            \/ {posts[p], posts'[p]} \subseteq {"none", "sent", "refused"}
    PROVE  BankInv'
<1>1. call' = call /\ \A i \in DOMAIN accounts : accounts[i] \in Post
  BY CallStays DEF IInv, TypeOK
<1>2. AccountsInv'
  BY <1>1 DEF IInv, BankInv, AccountsInv
<1>3. \A p \in Post : Alone(p)' => Alone(p)
  BY DEF Alone
<1>4. \A p \in Post : posts'[p] \in {"read", "bumped"} => posts[p] = posts'[p]
  OBVIOUS
<1>5. SeqInv'
  BY <1>3, <1>4 DEF IInv, BankInv, SeqInv, Bank!Numbering
<1> QED BY <1>2, <1>5 DEF BankInv

LEMMA BankStep == ASSUME IInv, Next PROVE BankInv'
<1> USE DEF IInv
<1>1. call' = call
  BY CallStays
<1>2. /\ posts \in [Post -> {"none", "sent", "refused", "read", "bumped", "numbered", "stored"}]
      /\ issued \in [Post -> Nat] /\ seq \in Nat /\ crossed \subseteq Post
      /\ \A i \in DOMAIN accounts : accounts[i] \in Post
  BY DEF TypeOK
<1>3. AccountsInv /\ SeqInv
  BY DEF BankInv
<1>4. ASSUME NEW r \in Run, Execute(r) PROVE BankInv'
  BY <1>2, <1>4, ExecuteSends, BankQuiet DEF Sends
<1>5. ASSUME NEW r \in Run, Answer(r) PROVE BankInv'
  BY <1>5, BankQuiet DEF Answer, bank
<1>6. ASSUME NEW x \in Post, Serve(x) PROVE BankInv'
  <2>1. CASE posts[x] = "sent" /\ posts' = [posts EXCEPT ![x] = "refused"]
             /\ UNCHANGED <<issued, seq, accounts, crossed>>
    BY <1>2, <2>1, BankQuiet
  <2>2. CASE /\ posts[x] = "sent" /\ posts' = [posts EXCEPT ![x] = "read"]
             /\ ~Bank!Refused(call[x[1]].member, call[x[1]].valid)
             /\ issued' = [issued EXCEPT ![x] = seq] /\ UNCHANGED <<seq, accounts>>
             /\ crossed' = crossed \cup Bank!Others(x) \cup {q \in {x} : Bank!Others(x) # {}}
    <3>1. /\ \A q \in Post \ {x} : posts'[q] = posts[q] /\ issued'[q] = issued[q]
          /\ posts'[x] = "read" /\ issued'[x] = seq
      BY <1>2, <2>2
    <3>2. AccountsInv'
      BY <1>1, <1>2, <1>3, <2>2, <3>1 DEF AccountsInv
    <3>3. \A q \in Post : Alone(q)' => Alone(q) /\ q # x
      BY <2>2, <3>1 DEF Alone
    <3>4. \A p, q \in Post : p # q /\ posts'[p] \in Bank!Numbering /\ posts'[q] \in Bank!Numbering
              => p \in crossed'
      BY <1>3, <2>2, <3>1 DEF SeqInv, Bank!Numbering, Bank!Others
    <3>5. SeqInv'
      BY <1>2, <1>3, <2>2, <3>1, <3>3, <3>4 DEF SeqInv, Bank!Numbering
    <3> QED BY <3>2, <3>5 DEF BankInv
  <2>3. CASE Bank!WriteSeq(x)
    <3>1. /\ \A q \in Post \ {x} : posts'[q] = posts[q]
          /\ posts[x] = "read" /\ posts'[x] = "bumped" /\ seq' = issued[x] + 1
          /\ UNCHANGED <<issued, accounts, crossed>>
      BY <1>2, <2>3 DEF Bank!WriteSeq
    <3>2. AccountsInv'
      BY <1>1, <1>2, <1>3, <3>1 DEF AccountsInv
    <3>3. \A q \in Post : Alone(q)' => Alone(q)
      BY <3>1 DEF Alone
    <3>4. \A q \in Post : posts'[q] \in Bank!Numbering => posts[q] \in Bank!Numbering
      BY <3>1 DEF Bank!Numbering
    <3>5. \A p \in Post : Alone(p) => issued[p] < seq' /\ issued[p] \in Nat
      BY <1>2, <1>3, <3>1 DEF SeqInv
    <3>6. seq' \in Nat
      BY <1>2, <3>1
    <3>7. SeqInv'
      BY <1>3, <3>1, <3>3, <3>4, <3>5, <3>6 DEF SeqInv
    <3> QED BY <3>2, <3>7 DEF BankInv
  <2>4. CASE Bank!TakeId(x)
    <3>1. /\ \A q \in Post \ {x} : posts'[q] = posts[q] /\ issued'[q] = issued[q]
          /\ posts[x] = "bumped" /\ posts'[x] = "numbered" /\ issued'[x] = seq
          /\ UNCHANGED <<seq, accounts, crossed>>
      BY <1>2, <2>4 DEF Bank!TakeId
    <3>2. AccountsInv'
      BY <1>1, <1>2, <1>3, <3>1 DEF AccountsInv
    <3>3. \A q \in Post : Alone(q)' /\ q # x => Alone(q)
      BY <3>1 DEF Alone
    <3>4. \A q \in Post : posts'[q] \in Bank!Numbering => q # x /\ posts'[q] = posts[q]
      BY <3>1 DEF Bank!Numbering
    <3>5. Alone(x)' => \A q \in Post \ {x} : posts[q] \notin Bank!Numbering
      BY <1>3, <3>1 DEF SeqInv, Alone, Bank!Numbering
    <3>6. Alone(x)' => \A q \in Post : Alone(q) => issued[q] < seq
      BY <1>3, <3>1 DEF SeqInv, Alone
    <3>7. ASSUME NEW p \in Post, Alone(p)', p = x
          PROVE  /\ issued'[p] <= seq'
                 /\ \A q \in Post : posts'[q] \notin Bank!Numbering
                 /\ \A q \in Post : Alone(q)' /\ issued'[q] = issued'[p] => p = q
      BY <1>2, <3>1, <3>3, <3>4, <3>5, <3>6, <3>7
    <3>8. ASSUME NEW p \in Post, Alone(p)', p # x
          PROVE  /\ issued'[p] <= seq'
                 /\ \A q \in Post : posts'[q] = "read" => issued'[p] <= issued'[q]
                 /\ \A q \in Post : posts'[q] = "bumped" /\ q \notin crossed' => issued'[p] < seq'
                 /\ \A q \in Post : Alone(q)' /\ issued'[q] = issued'[p] => p = q
      BY <1>2, <1>3, <3>1, <3>3, <3>6, <3>8 DEF SeqInv
    <3>9. \A p, q \in Post : p # q /\ posts'[p] \in Bank!Numbering /\ posts'[q] \in Bank!Numbering
              => p \in crossed'
      BY <1>3, <3>1, <3>4 DEF SeqInv
    <3>10. SeqInv'
      BY <3>7, <3>8, <3>9 DEF SeqInv, Bank!Numbering
    <3> QED BY <3>2, <3>10 DEF BankInv
  <2>5. CASE Bank!Store(x)
    <3>1. /\ \A q \in Post \ {x} : posts'[q] = posts[q]
          /\ posts[x] = "numbered" /\ posts'[x] = "stored" /\ UNCHANGED <<issued, seq, crossed>>
          /\ DOMAIN accounts' = DOMAIN accounts \cup {issued[x]}
          /\ \A i \in DOMAIN accounts' :
                 accounts'[i] = IF i = issued[x] THEN x ELSE accounts[i]
      BY <1>2, <2>5 DEF Bank!Store
    <3>2. AccountsInv'
      BY <1>1, <1>2, <1>3, <3>1 DEF AccountsInv
    <3>3. \A q \in Post : Alone(q)' => Alone(q)
      BY <3>1 DEF Alone
    <3>4. \A q \in Post : posts'[q] \in {"read", "bumped"} => posts'[q] = posts[q]
      BY <3>1
    <3>5. SeqInv'
      BY <1>3, <3>1, <3>3, <3>4 DEF SeqInv, Bank!Numbering
    <3> QED BY <3>2, <3>5 DEF BankInv
  <2> QED BY <1>6, <2>1, <2>2, <2>3, <2>4, <2>5, ServeCases
<1> QED BY <1>4, <1>5, <1>6 DEF Next

-----------------------------------------------------------------------------
\* The runs.

\* A run that nothing happens to.
LEMMA Undisturbed ==
    ASSUME IInv, Next, NEW r \in Run,
           /\ pc'[r] = pc[r] /\ pos'[r] = pos[r] /\ attempt'[r] = attempt[r]
           /\ outputs'[r] = outputs[r] /\ outcome'[r] = outcome[r] /\ marker'[r] = marker[r],
           \A n \in Tries : posts'[<<r, n>>] # "none" => posts[<<r, n>>] # "none"
    PROVE  /\ Passed(r)' /\ Reported(r)' /\ Fresh(r)'
           /\ page'[r] = page[r] => Shown(r)'
<1>1. call' = call /\ Steps(r)' = Steps(r)
  BY CallStays DEF Steps
<1>2. Stored(r) => Stored(r)'
  BY StoredStays
<1>3. Passed(r) /\ Reported(r) /\ Fresh(r) /\ Shown(r)
  BY DEF IInv, RunsInv, RunInv
<1>4. Passed(r)'
  BY <1>1, <1>2, <1>3 DEF Passed
<1>5. Reported(r)'
  BY <1>1, <1>3 DEF Reported
<1>6. Fresh(r)'
  BY <1>1, <1>3 DEF Fresh, PostSteps
<1>7. page'[r] = page[r] => Shown(r)'
  BY <1>1, <1>2, <1>3 DEF Shown
<1> QED BY <1>4, <1>5, <1>6, <1>7

\* The bank's pages tell of the member that they are about.
LEMMA PageTells ==
    ASSUME TypeOK, NEW r \in Run
    PROVE  /\ \A q \in Gets :
                  \A got \in PagesFor(r, q) :
                  /\ got # "confirm"
                  /\ got = "detail" => call[r].member = "active"
                  /\ got = "notfound" => call[r].member = "unknown" \/ call[r].inject = "notfound"
                  /\ got = "denied" => call[r].member = "restricted" \/ call[r].inject = "permission"
           /\ \A p \in Post :
                  LET got == Bank!PostPage(p, call[r].member) IN
                  /\ got \in {"confirm", "notfound", "form"}
                  /\ got = "confirm" => posts[p] = "stored"
                  /\ got = "notfound" => call[r].member = "unknown"
BY CallTyped DEF CallType, Gets, PagesFor, Bank!MemberPage, Bank!PostPage

LEMMA AnswerKeeps == ASSUME IInv, Next, NEW r \in Run, Answer(r) PROVE RunsInv'
<1>1. UNCHANGED <<call, pc, progress, result, bank>> /\ page \in [Run -> Bank!Pages]
  BY DEF Answer, IInv, TypeOK
<1>2. ASSUME NEW q \in Run PROVE Passed(q)' /\ Reported(q)' /\ Fresh(q)'
                                  /\ (page'[q] = page[q] => Shown(q)')
  BY <1>1, <1>2, Undisturbed DEF progress, result, bank
<1>3. \A q \in Run \ {r} : page'[q] = page[q]
  BY <1>1 DEF Answer
<1>4. Shown(r)'
  <2>1. CASE /\ pending[r] # "post"
             /\ \E got \in PagesFor(r, pending[r]) : page' = [page EXCEPT ![r] = got]
    <3>1. pending[r] \in Gets
      BY <2>1 DEF Answer, IInv, TypeOK, Requests
    <3>2. page'[r] \in PagesFor(r, pending[r])
      BY <1>1, <2>1
    <3> QED BY <1>1, <3>1, <3>2, PageTells DEF Shown, IInv
  <2>2. CASE \E n \in Tries : page' = [page EXCEPT ![r] = Bank!PostPage(<<r, n>>, call[r].member)]
    <3>1. PICK n \in Tries : page'[r] = Bank!PostPage(<<r, n>>, call[r].member)
      BY <1>1, <2>2
    <3>2. <<r, n>> \in Post
      BY DEF Post
    <3>3. page'[r] = "confirm" => Stored(r)'
      BY <1>1, <3>1, <3>2, PageTells DEF Stored, bank, IInv
    <3>4. page'[r] \in {"confirm", "notfound", "form"} /\ (page'[r] = "notfound" => call[r].member = "unknown")
      BY <3>1, <3>2, PageTells DEF IInv
    <3> QED BY <1>1, <3>3, <3>4 DEF Shown
  <2> QED BY <2>1, <2>2 DEF Answer
<1> QED BY <1>2, <1>3, <1>4 DEF RunsInv, RunInv

LEMMA ServeKeeps == ASSUME IInv, Next, NEW p \in Post, Serve(p) PROVE RunsInv'
<1>1. UNCHANGED <<call, pc, progress, result, browser>>
  BY DEF Serve
<1>2. ASSUME NEW q \in Run, NEW n \in Tries, posts'[<<q, n>>] # "none"
      PROVE  posts[<<q, n>>] # "none"
  <2>1. <<q, n>> \in Post /\ posts \in [Post -> {"none", "sent", "refused", "read", "bumped", "numbered", "stored"}]
    BY DEF Post, IInv, TypeOK
  <2> QED BY <1>2, <2>1, ServeCases DEF Bank!WriteSeq, Bank!TakeId, Bank!Store
<1>3. ASSUME NEW q \in Run PROVE RunInv(q)'
  BY <1>1, <1>2, <1>3, Undisturbed DEF progress, result, browser, RunInv
<1> QED BY <1>3 DEF RunsInv

\* The ways in which a step of the executor ends.
Goes(r) ==
    /\ Succeed(r) /\ pos[r] <= Len(Steps(r))
    /\ outputs' = [outputs EXCEPT ![r] = IF Here(r).kind = "extract" THEN @ \cup {pos[r]} ELSE @]
    /\ Here(r).kind \in {"extract", "assert"} => page[r] \in Here(r).on

Turns(r) ==
    /\ pos[r] <= Len(Steps(r)) /\ pc[r] # "ended"
    /\ pc' = [pc EXCEPT ![r] = "act"] \/ pc' = [pc EXCEPT ![r] = "look"]
    /\ UNCHANGED <<pos, attempt, result>>

Answers(r) == page[r] \in {"notfound", "denied"} /\ BusinessOutcome(r, page[r])

LEMMA ExecuteEnds ==
    ASSUME IInv, NEW r \in Run, Execute(r)
    PROVE  \/ Goes(r)
           \/ outputs' = outputs /\ (Recoverable(r) \/ Turns(r) \/ HardFailure(r) \/ Answers(r))
           \/ Finish(r)
<1>1. outputs \in [Run -> SUBSET Nat] /\ pc \in [Run -> {"step", "act", "look", "ended"}]
  BY DEF IInv, TypeOK
<1>2. pc[r] \in {"act", "look"} => pos[r] <= Len(Steps(r))
  BY DEF IInv, RunsInv, RunInv, Passed
<1>3. outputs' = outputs /\ Here(r).kind # "extract" =>
          outputs' = [outputs EXCEPT ![r] = IF Here(r).kind = "extract" THEN @ \cup {pos[r]} ELSE @]
  BY <1>1
<1>4. CASE Navigate(r)
  BY <1>3, <1>4 DEF Navigate, Running, Goes
<1>5. CASE Locate(r)
  BY <1>5 DEF Locate, Running, Turns, progress, result
<1>6. CASE Click(r)
  BY <1>2, <1>3, <1>6 DEF Click, Goes
<1>7. CASE Fill(r)
  BY <1>2, <1>3, <1>7 DEF Fill, Goes
<1>8. CASE Extract(r)
  BY <1>1, <1>2, <1>8 DEF Extract, Goes, Matches
<1>9. CASE Assert(r)
  BY <1>3, <1>9 DEF Assert, Running, Goes, Turns, result, Matches
<1>10. CASE Look(r)
  BY <1>10 DEF Look, Answers
<1> QED BY <1>4, <1>5, <1>6, <1>7, <1>8, <1>9, <1>10 DEF Execute

\* Nothing happens to the other runs.
LEMMA OthersStay ==
    ASSUME IInv, NEW r \in Run, Execute(r), NEW q \in Run \ {r}
    PROVE  /\ pc'[q] = pc[q] /\ pos'[q] = pos[q] /\ attempt'[q] = attempt[q]
           /\ outputs'[q] = outputs[q] /\ outcome'[q] = outcome[q] /\ marker'[q] = marker[q]
           /\ page'[q] = page[q] /\ log'[q] = log[q]
           /\ \A n \in Tries : posts'[<<q, n>>] = posts[<<q, n>>]
<1>1. /\ pc'[q] = pc[q] /\ pos'[q] = pos[q] /\ attempt'[q] = attempt[q]
      /\ outputs'[q] = outputs[q] /\ outcome'[q] = outcome[q] /\ marker'[q] = marker[q]
  <2>1. /\ pc \in [Run -> {"step", "act", "look", "ended"}] /\ pos \in [Run -> Nat \ {0}]
        /\ attempt \in [Run -> 0..(MaxRetries + 1)] /\ outputs \in [Run -> SUBSET Nat]
        /\ outcome \in [Run -> {"none", "BUSINESS_OUTCOME", "HARD_FAILURE"}]
        /\ marker \in [Run -> {"none", "notfound", "denied"}]
    BY DEF IInv, TypeOK
  <2>2. CASE Goes(r)
    BY <2>1, <2>2 DEF Goes, Succeed, result
  <2>3. CASE outputs' = outputs /\ Recoverable(r)
    BY <2>1, <2>3 DEF Recoverable, Return, result
  <2>4. CASE outputs' = outputs /\ Turns(r)
    BY <2>1, <2>4 DEF Turns, result
  <2>5. CASE outputs' = outputs /\ (HardFailure(r) \/ Answers(r))
    BY <2>1, <2>5 DEF HardFailure, Answers, BusinessOutcome, Return
  <2>6. CASE Finish(r)
    BY <2>1, <2>6 DEF Finish, Return, progress
  <2> QED BY <2>2, <2>3, <2>4, <2>5, <2>6, ExecuteEnds
<1>2. page'[q] = page[q]
  BY DEF Execute, Navigate, Locate, Click, Fill, Extract, Assert, Look, Finish, Send, browser,
         IInv, TypeOK
<1>3. log'[q] = log[q]
  <2>1. log \in [Run -> Seq((Nat \ {0}) \X
            {"success", "recoverable_retry", "business_outcome", "hard_failure"})]
    BY DEF IInv, TypeOK
  <2> QED BY <2>1 DEF Execute, Navigate, Locate, Click, Fill, Extract, Assert, Look, Finish,
               Succeed, Recoverable, HardFailure, BusinessOutcome, Log, progress
<1>4. \A n \in Tries : posts'[<<q, n>>] = posts[<<q, n>>]
  <2>1. \A n \in Tries : <<q, n>> # <<r, attempt[r] + 1>>
    OBVIOUS
  <2>2. posts \in [Post -> {"none", "sent", "refused", "read", "bumped", "numbered", "stored"}]
    BY DEF IInv, TypeOK
  <2> QED BY <2>1, <2>2, ExecuteSends DEF Sends, Post
<1> QED BY <1>1, <1>2, <1>3, <1>4

LEMMA OthersKeep ==
    ASSUME IInv, Next, NEW r \in Run, Execute(r), NEW q \in Run \ {r}
    PROVE  RunInv(q)'
BY OthersStay, Undisturbed DEF RunInv

\* The four parts of the invariant, for the run that has made the step.
LEMMA ShownKept ==
    ASSUME IInv, Next, NEW r \in Run, Execute(r) PROVE Shown(r)'
<1>1. call' = call /\ (Stored(r) => Stored(r)') /\ Shown(r) /\ page \in [Run -> Bank!Pages]
  BY CallStays, StoredStays DEF IInv, RunsInv, RunInv, TypeOK
<1>2. CASE page' = page
  BY <1>1, <1>2 DEF Shown
<1>3. CASE page' # page
  <2>1. /\ Navigate(r)
        /\ \E got \in PagesFor(r, Here(r).to) : page' = [page EXCEPT ![r] = got]
    BY <1>3 DEF Execute, Navigate, Locate, Click, Fill, Extract, Assert, Look, Finish, Send,
                browser
  <2>2. Here(r) \in Step /\ Here(r).kind = "navigate"
    BY <2>1, HereTyped DEF Navigate, Running, IInv
  <2>3. Here(r).to \in Gets
    BY <2>2 DEF Step
  <2>4. page'[r] \in PagesFor(r, Here(r).to)
    BY <1>1, <2>1
  <2> QED BY <1>1, <2>3, <2>4, PageTells DEF Shown, IInv
<1> QED BY <1>2, <1>3

LEMMA FreshKept ==
    ASSUME IInv, Next, NEW r \in Run, Execute(r) PROVE Fresh(r)'
<1>1. call' = call /\ Steps(r)' = Steps(r) /\ PostSteps(r)' = PostSteps(r)
  BY CallStays DEF Steps, PostSteps
<1>2. /\ pc \in [Run -> {"step", "act", "look", "ended"}] /\ pos \in [Run -> Nat \ {0}]
      /\ attempt \in [Run -> 0..(MaxRetries + 1)] /\ MaxRetries \in Nat
      /\ posts \in [Post -> {"none", "sent", "refused", "read", "bumped", "numbered", "stored"}]
  BY ConstantsAssumption DEF IInv, TypeOK
<1>3. Fresh(r) /\ pc[r] # "ended"
  BY DEF IInv, RunsInv, RunInv, Execute, Navigate, Locate, Click, Fill, Extract, Assert, Look,
         Finish, Running
<1>4. \/ pos'[r] = pos[r] + 1 /\ attempt'[r] = 0
      \/ pos'[r] = pos[r] /\ attempt'[r] = attempt[r] + 1
                         /\ (pc'[r] # "ended" => attempt[r] < MaxRetries)
      \/ pos'[r] = pos[r] /\ attempt'[r] = attempt[r]
  <2>1. CASE Goes(r)
    BY <1>2, <2>1 DEF Goes, Succeed
  <2>2. CASE Recoverable(r)
    BY <1>2, <2>2 DEF Recoverable, Return
  <2>3. CASE Turns(r) \/ HardFailure(r) \/ Answers(r)
    BY <1>2, <2>3 DEF Turns, HardFailure, Answers, BusinessOutcome
  <2>4. CASE Finish(r)
    BY <2>4 DEF Finish, progress
  <2> QED BY <2>1, <2>2, <2>3, <2>4, ExecuteEnds
<1>5. pc'[r] # "ended" => attempt'[r] <= MaxRetries
  BY <1>2, <1>3, <1>4 DEF Fresh
<1>6. ASSUME NEW n \in Tries, posts'[<<r, n>>] # "none"
      PROVE  \E i \in PostSteps(r) : i < pos'[r] \/ (i = pos'[r] /\ n <= attempt'[r])
  <2>0. n \in Nat /\ \A i \in PostSteps(r) : i \in Nat
    BY <1>2, CallTyped DEF Tries, PostSteps, IInv
  <2>1. CASE posts[<<r, n>>] # "none"
    <3>1. PICK i \in PostSteps(r) : i < pos[r] \/ (i = pos[r] /\ n <= attempt[r])
      BY <1>3, <2>1 DEF Fresh
    <3>2. i < pos'[r] \/ (i = pos'[r] /\ n <= attempt'[r])
      BY <1>2, <1>4, <2>0, <3>1
    <3> QED BY <3>2
  <2>2. CASE posts[<<r, n>>] = "none"
    <3>1. Sends(r) /\ <<r, n>> = <<r, attempt[r] + 1>>
      <4>1. <<r, n>> \in Post
        BY DEF Post
      <4>2. posts' # posts
        BY <1>6, <2>2
      <4>3. Sends(r)
        BY <4>2, ExecuteSends
      <4>4. posts' = [posts EXCEPT ![<<r, attempt[r] + 1>>] = "sent"]
        BY <4>3 DEF Sends
      <4> QED BY <1>2, <1>6, <2>2, <4>1, <4>3, <4>4
    <3>2. n = attempt[r] + 1 /\ pos[r] \in PostSteps(r)
      BY <3>1 DEF Sends
    <3>3. \/ pos'[r] = pos[r] + 1
          \/ pos'[r] = pos[r] /\ attempt'[r] = attempt[r] + 1
      BY <1>2, <3>1 DEF Sends, Succeed, Recoverable
    <3> QED BY <1>2, <3>2, <3>3
  <2> QED BY <2>1, <2>2
<1> QED BY <1>1, <1>5, <1>6 DEF Fresh

LEMMA ReportedKept ==
    ASSUME IInv, Next, NEW r \in Run, Execute(r) PROVE Reported(r)'
<1>1. call' = call /\ Steps(r)' = Steps(r)
  BY CallStays DEF Steps
<1>2. /\ pc \in [Run -> {"step", "act", "look", "ended"}] /\ pos \in [Run -> Nat \ {0}]
      /\ outcome \in [Run -> {"none", "BUSINESS_OUTCOME", "HARD_FAILURE"}]
      /\ marker \in [Run -> {"none", "notfound", "denied"}]
  BY DEF IInv, TypeOK
<1>3. Reported(r) /\ Shown(r) /\ pc[r] # "ended"
  BY DEF IInv, RunsInv, RunInv, Execute, Navigate, Locate, Click, Fill, Extract, Assert, Look,
         Finish, Running
<1>4. outcome[r] = "none"
  BY <1>3 DEF Reported
<1>5. ASSUME outcome' = outcome, marker' = marker PROVE Reported(r)'
  BY <1>1, <1>3, <1>4, <1>5 DEF Reported
<1>6. ASSUME NEW kind, Return(r, kind, "none"), kind = "BUSINESS_OUTCOME" => pos'[r] > Len(Steps(r))
      PROVE  Reported(r)'
  BY <1>1, <1>2, <1>6 DEF Return, Reported
<1>7. CASE Goes(r) \/ Turns(r)
  BY <1>5, <1>7 DEF Goes, Turns, Succeed, result
<1>8. CASE Recoverable(r) \/ HardFailure(r)
  BY <1>5, <1>6, <1>8 DEF Recoverable, HardFailure, result
<1>9. CASE Answers(r)
  BY <1>1, <1>2, <1>3, <1>9 DEF Answers, BusinessOutcome, Return, Reported, Shown
<1>10. CASE Finish(r)
  BY <1>6, <1>10 DEF Finish, progress
<1> QED BY <1>7, <1>8, <1>9, <1>10, ExecuteEnds

LEMMA PassedKept ==
    ASSUME IInv, Next, NEW r \in Run, Execute(r) PROVE Passed(r)'
<1>1. call' = call /\ Steps(r)' = Steps(r) /\ (Stored(r) => Stored(r)')
  BY CallStays, StoredStays DEF Steps
<1>2. /\ pc \in [Run -> {"step", "act", "look", "ended"}] /\ pos \in [Run -> Nat \ {0}]
      /\ outputs \in [Run -> SUBSET Nat]
      /\ Len(Steps(r)) \in Nat /\ DOMAIN Steps(r) = 1..Len(Steps(r))
  BY CallTyped DEF IInv, TypeOK
<1>3. Passed(r) /\ Shown(r)
  BY DEF IInv, RunsInv, RunInv
<1>4. ASSUME pos' = pos, outputs' = outputs, pc'[r] \in {"act", "look"} => pos[r] <= Len(Steps(r))
      PROVE  Passed(r)'
  BY <1>1, <1>3, <1>4 DEF Passed
<1>5. CASE Goes(r)
  <2>1. /\ pos'[r] = pos[r] + 1 /\ pc'[r] = "step" /\ pos[r] \in DOMAIN Steps(r)
        /\ outputs'[r] = IF Here(r).kind = "extract" THEN outputs[r] \cup {pos[r]} ELSE outputs[r]
    BY <1>2, <1>5 DEF Goes, Succeed
  <2>2. \A i \in DOMAIN Steps(r) : i < pos'[r] <=> i < pos[r] \/ i = pos[r]
    BY <1>2, <2>1
  <2>3. outputs'[r] = {i \in DOMAIN Steps(r) : i < pos'[r] /\ Steps(r)[i].kind = "extract"}
    BY <1>2, <1>3, <2>1, <2>2 DEF Passed, Here
  <2>4. /\ Here(r).kind = "extract" /\ Here(r).on = {"detail"} => call[r].member = "active"
        /\ Here(r).kind = "assert" /\ Here(r).on = {"confirm"} => Stored(r)
    BY <1>3, <1>5 DEF Goes, Shown
  <2>5. ASSUME NEW i \in DOMAIN Steps(r), i < pos'[r]
        PROVE  /\ Steps(r)[i].kind = "extract" /\ Steps(r)[i].on = {"detail"}
                      => call[r].member = "active"
               /\ Steps(r)[i].kind = "assert" /\ Steps(r)[i].on = {"confirm"} => Stored(r)'
    <3>1. CASE i < pos[r]
      BY <1>1, <1>3, <3>1 DEF Passed
    <3>2. CASE i = pos[r]
      BY <1>1, <2>4, <3>2 DEF Here
    <3> QED BY <2>2, <2>5, <3>1, <3>2
  <2>6. pos'[r] <= Len(Steps(r)) + 1
    BY <1>2, <2>1
  <2> QED BY <1>1, <2>1, <2>3, <2>5, <2>6 DEF Passed
<1>6. CASE outputs' = outputs /\ (Recoverable(r) \/ HardFailure(r) \/ Answers(r))
  <2>1. pos' = pos /\ pc'[r] \in {"step", "ended"}
    BY <1>2, <1>6 DEF Recoverable, HardFailure, Answers, BusinessOutcome, Return
  <2> QED BY <1>4, <1>6, <2>1
<1>7. CASE outputs' = outputs /\ Turns(r)
  BY <1>4, <1>7 DEF Turns
<1>8. CASE Finish(r)
  BY <1>2, <1>4, <1>8 DEF Finish, Return, progress
<1> QED BY <1>5, <1>6, <1>7, <1>8, ExecuteEnds

LEMMA NextInv == ASSUME IInv, [Next]_vars PROVE IInv'
<1>1. CASE UNCHANGED vars
  <2> USE <1>1 DEF vars, progress, result, browser, bank
  <2>1. TypeOK' /\ BankInv'
    BY DEF IInv, TypeOK, BankInv, AccountsInv, SeqInv, Alone
  <2>2. ASSUME NEW r \in Run PROVE RunInv(r)'
    <3>1. Steps(r)' = Steps(r) /\ PostSteps(r)' = PostSteps(r) /\ Stored(r)' = Stored(r)
      BY DEF Steps, PostSteps, Stored
    <3>2. RunInv(r)
      BY DEF IInv, RunsInv
    <3>3. Shown(r)' /\ Reported(r)'
      BY <3>1, <3>2 DEF RunInv, Shown, Reported
    <3>4. Passed(r)'
      BY <3>1, <3>2 DEF RunInv, Passed
    <3>5. Fresh(r)'
      BY <3>1, <3>2 DEF RunInv, Fresh
    <3> QED BY <3>3, <3>4, <3>5 DEF RunInv
  <2> QED BY <2>1, <2>2 DEF IInv, RunsInv
<1>2. CASE Next
  <2>1. TypeOK' /\ BankInv'
    BY <1>2, TypeStep, BankStep
  <2>2. ASSUME NEW r \in Run, Execute(r) PROVE RunsInv'
    BY <1>2, <2>2, OthersKeep, ShownKept, FreshKept, ReportedKept, PassedKept
       DEF RunsInv, RunInv
  <2>3. RunsInv'
    BY <1>2, <2>2, AnswerKeeps, ServeKeeps DEF Next
  <2> QED BY <2>1, <2>3 DEF IInv
<1> QED BY <1>1, <1>2

\* The logged retries of the form's step keep up with the tries that sent it.
Counted(r) ==
    /\ IsFiniteSet(Again(r))
    /\ pc[r] # "ended" /\ pos[r] \in PostSteps(r) => attempt[r] <= Cardinality(Again(r))
    /\ \A n \in Tries : posts[<<r, n>>] # "none" => n <= 1 + Cardinality(Again(r))

LEMMA InitCounted == Init => \A r \in Run : Counted(r)
<1> SUFFICES ASSUME Init, NEW r \in Run PROVE Counted(r)
  OBVIOUS
<1>1. log[r] = <<>> /\ attempt[r] = 0 /\ \A n \in Tries : posts[<<r, n>>] = "none"
  BY DEF Init, Bank!Init, Post
<1>2. Again(r) = {}
  BY <1>1 DEF Again, Entries
<1> QED BY <1>1, <1>2, FS_EmptySet DEF Counted

\* The log only grows; a retry of the form's step makes it one longer.
LEMMA AgainGrows ==
    ASSUME IInv, Next, NEW r \in Run, Counted(r)
    PROVE  /\ IsFiniteSet(Again(r)')
           /\ Cardinality(Again(r)) \in Nat /\ Cardinality(Again(r)') \in Nat
           /\ Cardinality(Again(r)) <= Cardinality(Again(r)')
           /\ (Recoverable(r) /\ attempt[r] < MaxRetries /\ pos[r] \in PostSteps(r)) =>
                  Cardinality(Again(r)') = Cardinality(Again(r)) + 1
<1> DEFINE Words == {"success", "recoverable_retry", "business_outcome", "hard_failure"}
           N == Len(log[r]) + 1
<1>1. /\ log \in [Run -> Seq((Nat \ {0}) \X Words)] /\ Len(log[r]) \in Nat
      /\ DOMAIN log[r] = 1..Len(log[r]) /\ N \notin DOMAIN log[r]
  BY DEF IInv, TypeOK
<1>2. call' = call /\ PostSteps(r)' = PostSteps(r)
  BY CallStays DEF Steps, PostSteps
<1>3. IsFiniteSet(Again(r)) /\ Cardinality(Again(r)) \in Nat /\ N \notin Again(r)
  BY <1>1, FS_CardinalityType DEF Counted, Again, Entries
<1>4. ASSUME NEW w, Log(r, w)
      PROVE  /\ Again(r)' = IF w = "recoverable_retry" /\ pos[r] \in PostSteps(r)
                            THEN Again(r) \cup {N} ELSE Again(r)
  <2>1. log'[r] = Append(log[r], <<pos[r], w>>)
    BY <1>1, <1>4 DEF Log
  <2>2. /\ DOMAIN log'[r] = 1..N
        /\ \A i \in DOMAIN log[r] : log'[r][i] = log[r][i]
        /\ log'[r][N] = <<pos[r], w>>
    BY <1>1, <2>1
  <2>3. \A i \in 1..N : i \in DOMAIN log[r] \/ i = N
    BY <1>1
  <2>4. DOMAIN log[r] \subseteq 1..N /\ N \in 1..N
    BY <1>1
  <2> HIDE DEF N
  <2> QED BY <1>2, <2>2, <2>3, <2>4 DEF Again, Entries
<1>5. /\ \/ Again(r)' = Again(r) \/ Again(r)' = Again(r) \cup {N}
      /\ (Recoverable(r) /\ attempt[r] < MaxRetries /\ pos[r] \in PostSteps(r)) =>
             Again(r)' = Again(r) \cup {N}
  <2>1. ASSUME log'[r] = log[r] PROVE Again(r)' = Again(r)
    BY <1>2, <2>1 DEF Again, Entries
  <2>2. \/ log'[r] = log[r] /\ ~Recoverable(r)
        \/ \E w : Log(r, w)
    <3>1. CASE Execute(r)
      <4>1. CASE Goes(r) \/ HardFailure(r) \/ Answers(r) \/ Recoverable(r)
        BY <4>1 DEF Goes, Succeed, HardFailure, Answers, BusinessOutcome, Recoverable
      <4>2. CASE Turns(r) \/ Finish(r)
        <5>1. log' = log /\ attempt' = attempt /\ attempt[r] \in Nat
          BY <3>1, <4>2 DEF Execute, Turns, Finish, progress, Navigate, Locate, Click, Fill, Extract,
                     Assert, Look, Succeed, Recoverable, HardFailure, BusinessOutcome, Return,
                     Running, IInv, TypeOK
        <5> QED BY <5>1 DEF Recoverable, IInv, TypeOK
      <4> QED BY <3>1, <4>1, <4>2, ExecuteEnds
    <3>2. ASSUME log'[r] = log[r], attempt'[r] = attempt[r]
          PROVE  log'[r] = log[r] /\ ~Recoverable(r)
      <4>1. attempt[r] \in Nat /\ attempt \in [Run -> 0..(MaxRetries + 1)]
        BY ConstantsAssumption DEF IInv, TypeOK
      <4> QED BY <3>2, <4>1 DEF Recoverable
    <3>3. ASSUME NEW q \in Run, q # r, Execute(q) PROVE log'[r] = log[r] /\ attempt'[r] = attempt[r]
      BY <3>3, OthersStay
    <3>4. ASSUME NEW q \in Run, Answer(q) PROVE log'[r] = log[r] /\ attempt'[r] = attempt[r]
      BY <3>4 DEF Answer, progress
    <3>5. ASSUME NEW p \in Post, Serve(p) PROVE log'[r] = log[r] /\ attempt'[r] = attempt[r]
      BY <3>5 DEF Serve, progress
    <3> QED BY <3>1, <3>2, <3>3, <3>4, <3>5 DEF Next
  <2>3. Recoverable(r) /\ attempt[r] < MaxRetries => Log(r, "recoverable_retry")
    BY DEF Recoverable
  <2> QED BY <1>4, <2>1, <2>2, <2>3
<1>6. /\ IsFiniteSet(Again(r) \cup {N})
      /\ Cardinality(Again(r) \cup {N}) = Cardinality(Again(r)) + 1
  BY <1>3, FS_AddElement
<1> HIDE DEF N
<1> QED BY <1>3, <1>5, <1>6

LEMMA NextCounted ==
    ASSUME IInv, [Next]_vars, NEW r \in Run, Counted(r) PROVE Counted(r)'
<1>1. CASE UNCHANGED vars
  <2>1. Again(r)' = Again(r) /\ PostSteps(r)' = PostSteps(r)
    BY <1>1 DEF Again, Entries, PostSteps, Steps, vars, progress
  <2> QED BY <1>1, <2>1 DEF Counted, vars, progress, bank
<1>2. CASE Next
  <2> DEFINE k == Cardinality(Again(r))
             m == Cardinality(Again(r)')
  <2>1. /\ IsFiniteSet(Again(r)') /\ k \in Nat /\ m \in Nat /\ k <= m
        /\ (Recoverable(r) /\ attempt[r] < MaxRetries /\ pos[r] \in PostSteps(r)) => m = k + 1
    BY <1>2, AgainGrows
  <2>2. PostSteps(r)' = PostSteps(r)
    BY CallStays DEF Steps, PostSteps
  <2>3. /\ pc[r] # "ended" /\ pos[r] \in PostSteps(r) => attempt[r] <= k
        /\ \A n \in Tries : posts[<<r, n>>] # "none" => n <= 1 + k
    BY DEF Counted
  <2>4. /\ pc \in [Run -> {"step", "act", "look", "ended"}] /\ pos \in [Run -> Nat \ {0}]
        /\ attempt \in [Run -> 0..(MaxRetries + 1)] /\ MaxRetries \in Nat
        /\ posts \in [Post -> {"none", "sent", "refused", "read", "bumped", "numbered", "stored"}]
        /\ \A n \in Tries : n \in Nat /\ <<r, n>> \in Post
    BY ConstantsAssumption DEF IInv, TypeOK, Tries, Post
  <2> HIDE DEF k, m
  <2>5. ASSUME /\ pc'[r] = pc[r] /\ pos'[r] = pos[r] /\ attempt'[r] = attempt[r]
               /\ \A n \in Tries : posts'[<<r, n>>] # "none" => posts[<<r, n>>] # "none"
        PROVE  /\ pc'[r] # "ended" /\ pos'[r] \in PostSteps(r) => attempt'[r] <= m
               /\ \A n \in Tries : posts'[<<r, n>>] # "none" => n <= 1 + m
    BY <2>1, <2>3, <2>4, <2>5
  <2>6. ASSUME Execute(r)
        PROVE  /\ pc'[r] # "ended" /\ pos'[r] \in PostSteps(r) => attempt'[r] <= m
               /\ \A n \in Tries : posts'[<<r, n>>] # "none" => n <= 1 + m
    <3>1. pc[r] # "ended"
      BY <2>6 DEF Execute, Navigate, Locate, Click, Fill, Extract, Assert, Look, Finish, Running
    <3>2. pc'[r] # "ended" /\ pos'[r] \in PostSteps(r) => attempt'[r] <= m
      <4>1. CASE Goes(r)
        BY <2>1, <2>4, <4>1 DEF Goes, Succeed
      <4>2. CASE Recoverable(r)
        <5>1. pos' = pos /\ attempt'[r] = attempt[r] + 1
          BY <2>4, <4>2 DEF Recoverable
        <5>2. ~(attempt[r] < MaxRetries) => pc'[r] = "ended"
          BY <2>4, <4>2 DEF Recoverable, Return
        <5> QED BY <2>1, <2>3, <2>4, <3>1, <4>2, <5>1, <5>2
      <4>3. CASE Turns(r)
        BY <2>1, <2>3, <2>4, <3>1, <4>3 DEF Turns
      <4>4. CASE HardFailure(r) \/ Answers(r) \/ Finish(r)
        BY <2>4, <4>4 DEF HardFailure, Answers, BusinessOutcome, Finish, Return
      <4> QED BY <2>6, <4>1, <4>2, <4>3, <4>4, ExecuteEnds
    <3>3. ASSUME NEW n \in Tries, posts'[<<r, n>>] # "none" PROVE n <= 1 + m
      <4>1. CASE posts[<<r, n>>] # "none"
        BY <2>1, <2>3, <2>4, <4>1
      <4>2. CASE posts[<<r, n>>] = "none"
        <5>1. Sends(r)
          BY <2>6, <3>3, <4>2, ExecuteSends
        <5>2. <<r, n>> = <<r, attempt[r] + 1>> /\ pos[r] \in PostSteps(r)
          BY <2>4, <3>3, <4>2, <5>1 DEF Sends
        <5>3. n = attempt[r] + 1
          BY <5>2
        <5> QED BY <2>1, <2>3, <2>4, <3>1, <5>2, <5>3
      <4> QED BY <4>1, <4>2
    <3> QED BY <3>2, <3>3
  <2>7. ASSUME NEW q \in Run, q # r, Execute(q)
        PROVE  /\ pc'[r] = pc[r] /\ pos'[r] = pos[r] /\ attempt'[r] = attempt[r]
               /\ \A n \in Tries : posts'[<<r, n>>] # "none" => posts[<<r, n>>] # "none"
    BY <2>7, OthersStay
  <2>8. ASSUME NEW q \in Run, Answer(q)
        PROVE  /\ pc'[r] = pc[r] /\ pos'[r] = pos[r] /\ attempt'[r] = attempt[r]
               /\ \A n \in Tries : posts'[<<r, n>>] # "none" => posts[<<r, n>>] # "none"
    BY <2>8 DEF Answer, progress, bank
  <2>9. ASSUME NEW p \in Post, Serve(p)
        PROVE  /\ pc'[r] = pc[r] /\ pos'[r] = pos[r] /\ attempt'[r] = attempt[r]
               /\ \A n \in Tries : posts'[<<r, n>>] # "none" => posts[<<r, n>>] # "none"
    BY <2>4, <2>9, ServeCases DEF progress, Bank!WriteSeq, Bank!TakeId, Bank!Store
  <2>10. /\ pc'[r] # "ended" /\ pos'[r] \in PostSteps(r) => attempt'[r] <= m
         /\ \A n \in Tries : posts'[<<r, n>>] # "none" => n <= 1 + m
    BY <1>2, <2>5, <2>6, <2>7, <2>8, <2>9 DEF Next
  <2> QED BY <2>1, <2>2, <2>10 DEF Counted, m
<1> QED BY <1>1, <1>2

\* Each sub-account of a run is of another try of it.
LEMMA AccountsCounted ==
    ASSUME IInv, NEW r \in Run, Counted(r)
    PROVE  Cardinality(Accounts(r)) <= 1 + Cardinality(Again(r))
<1> DEFINE k == Cardinality(Again(r))
           tryOf == [i \in Accounts(r) |-> accounts[i][2]]
<1>1. k \in Nat
  BY FS_CardinalityType DEF Counted
<1>2. ASSUME NEW i \in Accounts(r)
      PROVE  /\ i \in DOMAIN accounts /\ accounts[i] = <<r, accounts[i][2]>>
             /\ accounts[i][2] \in Tries
  BY DEF Accounts
<1>3. ASSUME NEW i \in Accounts(r) PROVE posts[accounts[i]] = "stored" /\ issued[accounts[i]] = i
  BY <1>2 DEF IInv, BankInv, AccountsInv
<1>4. ASSUME NEW i \in Accounts(r) PROVE accounts[i][2] \in 1..(1 + k)
  <2>1. accounts[i][2] \in Tries /\ posts[<<r, accounts[i][2]>>] = "stored"
    BY <1>2, <1>3
  <2>2. accounts[i][2] <= 1 + k
    BY <2>1 DEF Counted
  <2>3. accounts[i][2] \in Nat /\ accounts[i][2] >= 1
    BY <2>1, ConstantsAssumption DEF Tries
  <2> DEFINE n == accounts[i][2]
  <2> HIDE DEF k, n
  <2>4. n \in Nat /\ n >= 1 /\ n <= 1 + k => n \in 1..(1 + k)
    BY <1>1
  <2> QED BY <2>2, <2>3, <2>4 DEF n
<1>5. tryOf \in [Accounts(r) -> 1..(1 + k)]
  BY <1>4
<1>6. \A i, j \in Accounts(r) : tryOf[i] = tryOf[j] => i = j
  BY <1>2, <1>3
<1> HIDE DEF tryOf, k
<1>7. tryOf \in Injection(Accounts(r), 1..(1 + k))
  BY <1>5, <1>6, Fun_IsInj
<1>8. IsFiniteSet(1..(1 + k)) /\ Cardinality(1..(1 + k)) = 1 + k
  BY <1>1, FS_Interval
<1>9. Cardinality(Accounts(r)) <= Cardinality(1..(1 + k))
  BY <1>7, <1>8, FS_Injection
<1> QED BY <1>8, <1>9 DEF k

LEMMA InvExplains == IInv /\ (\A r \in Run : Counted(r)) => DuplicatesExplained
BY AccountsCounted DEF DuplicatesExplained

\* Who is replaced has the id of who is there.
LEMMA InvRaces == IInv => ReplacedByRace
<1> SUFFICES ASSUME IInv, NEW p \in Post, posts[p] = "stored", accounts[issued[p]] # p
    PROVE  {p, accounts[issued[p]]} \cap crossed # {}
  BY DEF ReplacedByRace
<1> DEFINE q == accounts[issued[p]]
<1>1. issued[p] \in DOMAIN accounts /\ q \in Post /\ posts[q] = "stored" /\ issued[q] = issued[p]
  BY DEF IInv, TypeOK, BankInv, AccountsInv
<1>2. ~(Alone(p) /\ Alone(q))
  BY <1>1 DEF IInv, BankInv, SeqInv
<1> QED BY <1>1, <1>2 DEF Alone

LEMMA InvTells == IInv => OutcomeTrue
<1> SUFFICES ASSUME IInv, NEW r \in Run, outcome[r] = "BUSINESS_OUTCOME"
    PROVE  /\ (marker[r] = "none" /\ Confirmed(r)) =>
                  (Stored(r) /\ call[r].valid /\ call[r].member # "unknown")
           /\ (marker[r] = "none") =>
                  outputs[r] = {i \in DOMAIN Steps(r) : Steps(r)[i].kind = "extract"}
           /\ \A i \in outputs[r] :
                  (Steps(r)[i].on = {"detail"}) => (call[r].member = "active")
           /\ (marker[r] = "notfound") =>
                  (call[r].member = "unknown" \/ call[r].inject = "notfound")
           /\ (marker[r] = "denied") =>
                  (call[r].member = "restricted" \/ call[r].inject = "permission")
  BY DEF OutcomeTrue
<1>1. Passed(r) /\ Reported(r) /\ pos[r] \in Nat /\ Len(Steps(r)) \in Nat
      /\ DOMAIN Steps(r) = 1..Len(Steps(r))
  BY CallTyped DEF IInv, RunsInv, RunInv, TypeOK
<1>2. marker[r] = "none" => \A i \in DOMAIN Steps(r) : i < pos[r]
  BY <1>1 DEF Reported
<1>3. ASSUME Stored(r)
      PROVE  call[r].valid /\ call[r].member # "unknown"
  <2>1. PICK n \in Tries : posts[<<r, n>>] = "stored"
    BY <1>3 DEF Stored
  <2>2. <<r, n>> \in Post /\ <<r, n>>[1] = r
    BY DEF Post
  <2>3. ~Bank!Refused(call[r].member, call[r].valid)
    BY <2>1, <2>2 DEF IInv, BankInv, AccountsInv
  <2> QED BY <2>3 DEF Bank!Refused
<1>4. marker[r] = "none" /\ Confirmed(r) => Stored(r)
  BY <1>1, <1>2 DEF Confirmed, Passed
<1> QED BY <1>1, <1>2, <1>3, <1>4 DEF Passed, Reported

-----------------------------------------------------------------------------
\* The types, the bank and each run stay consistent, for any artifacts, inputs,
\* runs and retries.
THEOREM Invariance == Spec => []IInv
BY InitInv, NextInv, PTL DEF Spec

\* What a replay reports is true at the bank, as far as its steps can tell the pages
\* apart (executor.py:68-95, 154-226).
THEOREM OutcomesTrue == Spec => []OutcomeTrue
BY Invariance, InvTells, PTL

\* No sub-account replaces another one unless one of the two took its id while
\* another POST was taking one (data.py:54-56, main.py:130-134).
THEOREM ReplacementsRaced == Spec => []ReplacedByRace
BY Invariance, InvRaces, PTL

\* A run leaves no two sub-accounts without the logged retry that explains it
\* (executor.py:187-203).
THEOREM NoSilentDuplicate == Spec => []DuplicatesExplained
<1> DEFINE AllCounted == \A r \in Run : Counted(r)
<1>1. IInv /\ AllCounted /\ [Next]_vars => AllCounted'
  BY NextCounted
<1>2. Init => AllCounted
  BY InitCounted
<1>3. IInv /\ AllCounted => DuplicatesExplained
  BY InvExplains
<1> HIDE DEF AllCounted
<1> QED BY <1>1, <1>2, <1>3, Invariance, PTL DEF Spec
=============================================================================
