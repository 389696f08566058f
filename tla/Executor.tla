------------------------------ MODULE Executor -------------------------------
(***************************************************************************)
(* run of services/replay_runtime/executor.py: the steps of an artifact,   *)
(* one after the other, each tried up to MAX_RETRIES_PER_STEP + 1 times, on *)
(* a page of the mock bank (module MockBank).  Every look at the page is a  *)
(* step: the bank answers when it likes, a click whose request has left may *)
(* time out all the same, and runs go on side by side.                      *)
(*                                                                         *)
(* A step has the pages on which its locators find something or its        *)
(* checkpoint holds: the page that it was made for, and any other that      *)
(* happens to match, and what a click requests there.                       *)
(***************************************************************************)
EXTENDS Naturals, Sequences, FiniteSets

CONSTANTS Run,        \* calls of run, each with a page of its own
          Calls,      \* the artifacts and inputs they may be called with, together
          MaxRetries  \* MAX_RETRIES_PER_STEP

Tries == 1..(MaxRetries + 1)

\* A POST is named by its run and by the try that sent it: an artifact has one
\* click that may submit the form.
Post == Run \X Tries

VARIABLES call,      \* what run was called with
          pc,        \* step, act, look, ended
          pos,       \* the step of the artifact
          attempt,
          retries,   \* total_retries
          log,       \* step_log: <<position, outcome>>
          outputs,   \* the positions whose text was extracted
          outcome,   \* ReplayResult.outcome, "none" while it runs
          marker,    \* outputs["business_outcome"], "none" without
          page,      \* what the browser shows
          pending,   \* the request it waits for, "none" without
          posts, issued, seq, accounts, crossed  \* the bank

Bank == INSTANCE MockBank

progress == <<pos, attempt, retries, log, outputs>>
result == <<outcome, marker>>
browser == <<page, pending>>
bank == <<posts, issued, seq, accounts, crossed>>
vars == <<call, pc, progress, result, browser, bank>>

\* A navigation gets a page; a click may request something else on each page, and
\* something else by each locator of its chain; the others send nothing.
Gets == {"search", "lookup", "link", "form"}
Requests == Gets \cup {"none", "post"}
Step ==
    [kind : {"navigate"}, to : Gets, bound : BOOLEAN]
    \cup [kind : {"click"}, on : SUBSET Bank!Pages, sends : [Bank!Pages -> SUBSET Requests]]
    \cup [kind : {"fill", "select", "extract", "assert"}, on : SUBSET Bank!Pages, bound : BOOLEAN]

Submits(step) == step.kind = "click" /\ \E shown \in step.on : "post" \in step.sends[shown]

CallType == [artifact : Seq(Step),
             member : {"active", "restricted", "unknown"},
             inject : {"none", "timeout", "notfound", "permission"},
             valid : BOOLEAN]

ASSUME ConstantsAssumption ==
    /\ MaxRetries \in Nat
    /\ \A f \in Calls :
           /\ f \in [Run -> CallType]
           /\ \A r \in Run : \A i, j \in DOMAIN f[r].artifact :
                  (Submits(f[r].artifact[i]) /\ Submits(f[r].artifact[j])) => i = j

Init ==
    /\ call \in Calls
    /\ pc = [r \in Run |-> "step"]
    /\ pos = [r \in Run |-> 1]
    /\ attempt = [r \in Run |-> 0]
    /\ retries = [r \in Run |-> 0]
    /\ log = [r \in Run |-> <<>>]
    /\ outputs = [r \in Run |-> {}]
    /\ outcome = [r \in Run |-> "none"]
    /\ marker = [r \in Run |-> "none"]
    /\ page = [r \in Run |-> "blank"]
    /\ pending = [r \in Run |-> "none"]
    /\ Bank!Init

Steps(r) == call[r].artifact
Here(r) == Steps(r)[pos[r]]
Running(r, kinds) ==
    /\ pc[r] = "step" /\ pos[r] <= Len(Steps(r)) /\ Here(r).kind \in kinds

-----------------------------------------------------------------------------
(* How a try ends.                                                         *)

Log(r, word) == log' = [log EXCEPT ![r] = Append(@, <<pos[r], word>>)]

Return(r, kind, text) ==
    /\ pc' = [pc EXCEPT ![r] = "ended"]
    /\ outcome' = [outcome EXCEPT ![r] = kind]
    /\ marker' = [marker EXCEPT ![r] = text]

Succeed(r) ==
    /\ Log(r, "success")
    /\ pos' = [pos EXCEPT ![r] = @ + 1]
    /\ attempt' = [attempt EXCEPT ![r] = 0]
    /\ pc' = [pc EXCEPT ![r] = "step"]
    /\ UNCHANGED <<retries, result>>

\* HardFailureError, and any other exception.
HardFailure(r) ==
    /\ Log(r, "hard_failure")
    /\ Return(r, "HARD_FAILURE", "none")
    /\ UNCHANGED <<pos, attempt, retries>>

\* Mutant: every recoverable error is retried.
RecoverableForever(r) ==
    /\ retries' = [retries EXCEPT ![r] = IF attempt[r] < MaxRetries THEN @ + 1 ELSE @]
    /\ attempt' = [attempt EXCEPT ![r] = IF attempt[r] < MaxRetries THEN @ + 1 ELSE @]
    /\ pc' = [pc EXCEPT ![r] = "step"]
    /\ UNCHANGED <<pos, log, result>>

\* Mutant: a retry is not logged.
RecoverableUnlogged(r) ==
    /\ attempt' = [attempt EXCEPT ![r] = @ + 1]
    /\ retries' = [retries EXCEPT ![r] = @ + 1]
    /\ UNCHANGED pos
    /\ IF attempt[r] < MaxRetries
       THEN pc' = [pc EXCEPT ![r] = "step"] /\ UNCHANGED <<log, result>>
       ELSE Log(r, "hard_failure") /\ Return(r, "HARD_FAILURE", "none")

\* RecoverableError: the step is tried again, MaxRetries times.
Recoverable(r) ==
    /\ attempt' = [attempt EXCEPT ![r] = @ + 1]
    /\ retries' = [retries EXCEPT ![r] = @ + 1]
    /\ UNCHANGED pos
    /\ IF attempt[r] < MaxRetries
       THEN /\ Log(r, "recoverable_retry")
            /\ pc' = [pc EXCEPT ![r] = "step"] /\ UNCHANGED result
       ELSE Log(r, "hard_failure") /\ Return(r, "HARD_FAILURE", "none")

\* BusinessOutcomeSignal.
BusinessOutcome(r, text) ==
    /\ Log(r, "business_outcome")
    /\ Return(r, "BUSINESS_OUTCOME", text)
    /\ UNCHANGED <<pos, attempt, retries>>

-----------------------------------------------------------------------------
(* The browser: a request leaves and the page stays as it is until it is   *)
(* answered; the browser waits for the last request only.                  *)

Send(r, request) ==
    /\ pending' = [pending EXCEPT ![r] = IF request = "none" THEN @ ELSE request]
    /\ IF request = "post" THEN Bank!Send(<<r, attempt[r] + 1>>) ELSE UNCHANGED bank
    /\ UNCHANGED page

\* The pages that may answer a request that is not a POST; a link carries inject,
\* and a search without a member leads back to the search page.
PagesFor(r, request) ==
    CASE request = "lookup" -> {Bank!MemberPage(call[r].member, "none"), "search"}
      [] request = "link" -> {Bank!MemberPage(call[r].member, call[r].inject)}
      [] OTHER -> {request}

\* Mutant: a POST is answered before its handler has ended.
AnswerEarly(r) ==
    /\ pending[r] # "none" /\ pc[r] # "ended"
    /\ \E got \in IF pending[r] = "post" THEN {"confirm"} ELSE PagesFor(r, pending[r]) :
           page' = [page EXCEPT ![r] = got]
    /\ pending' = [pending EXCEPT ![r] = "none"]
    /\ UNCHANGED <<call, pc, progress, result, bank>>

\* An answer arrives, while run still looks at the page; for a form that was sent
\* several times, the last one's.
Answer(r) ==
    /\ pending[r] # "none" /\ pc[r] # "ended"
    /\ \/ /\ pending[r] # "post"
          /\ \E got \in PagesFor(r, pending[r]) : page' = [page EXCEPT ![r] = got]
       \/ /\ pending[r] = "post"
          /\ \E n \in Tries :
                /\ posts[<<r, n>>] \in {"stored", "refused"}
                /\ \A m \in Tries : m > n => posts[<<r, m>>] = "none"
                /\ page' = [page EXCEPT ![r] = Bank!PostPage(<<r, n>>, call[r].member)]
    /\ pending' = [pending EXCEPT ![r] = "none"]
    /\ UNCHANGED <<call, pc, progress, result, bank>>

-----------------------------------------------------------------------------
(* _execute_step.                                                          *)

\* No input for the url is a hard failure at once.  goto returns when the page
\* has loaded; when it raises, the request may have left or not.
Navigate(r) ==
    /\ Running(r, {"navigate"})
    /\ \/ /\ ~Here(r).bound
          /\ HardFailure(r) /\ UNCHANGED <<browser, bank>>
       \/ /\ Here(r).bound
          /\ \E got \in PagesFor(r, Here(r).to) : page' = [page EXCEPT ![r] = got]
          /\ pending' = [pending EXCEPT ![r] = "none"]
          /\ Succeed(r) /\ UNCHANGED bank
       \/ /\ Here(r).bound
          /\ Recoverable(r)
          /\ Send(r, Here(r).to) \/ UNCHANGED <<browser, bank>>
    /\ UNCHANGED <<call, outputs>>

\* What the step looks for may be on the page that is shown, which need not be
\* the page that the step was made for.
Matches(r) == page[r] \in Here(r).on

\* _resolve_locator takes the first of the chain that finds something; it may find
\* nothing even there.
Locate(r) ==
    /\ Running(r, {"click", "fill", "select", "extract"})
    /\ \/ Matches(r) /\ pc' = [pc EXCEPT ![r] = "act"]
       \/ pc' = [pc EXCEPT ![r] = "look"]
    /\ UNCHANGED <<call, progress, result, browser, bank>>

\* The click, if its locator finds something still, sends what that requests; and
\* then returns or times out.
Click(r) ==
    /\ pc[r] = "act" /\ Here(r).kind = "click"
    /\ \/ /\ Matches(r) /\ (Succeed(r) \/ Recoverable(r))
          /\ \E request \in Here(r).sends[page[r]] : Send(r, request)
       \/ UNCHANGED <<browser, bank>> /\ Recoverable(r)
    /\ UNCHANGED <<call, outputs>>

\* A missing input raises HardFailureError inside the try, which turns it into a
\* RecoverableError.
Fill(r) ==
    /\ pc[r] = "act" /\ Here(r).kind \in {"fill", "select"}
    /\ \/ Here(r).bound /\ Matches(r) /\ Succeed(r)
       \/ Recoverable(r)
    /\ UNCHANGED <<call, outputs, browser, bank>>

Extract(r) ==
    /\ pc[r] = "act" /\ Here(r).kind = "extract"
    /\ \/ /\ Matches(r)
          /\ outputs' = [outputs EXCEPT ![r] = @ \cup {pos[r]}]
          /\ Succeed(r)
       \/ Recoverable(r) /\ UNCHANGED outputs
    /\ UNCHANGED <<call, browser, bank>>

\* _run_assertion looks at the page that is shown, be it the last one still.  It
\* may fail even where it should hold (it may compare with a text that the log
\* keeps redacted), and its evaluation may raise.  Without a checkpoint registered
\* for the step it is a hard failure.
Assert(r) ==
    /\ Running(r, {"assert"})
    /\ \/ Here(r).bound /\ Matches(r) /\ Succeed(r)
       \/ Here(r).bound /\ pc' = [pc EXCEPT ![r] = "look"]
                        /\ UNCHANGED <<pos, attempt, retries, log, result>>
       \/ HardFailure(r)
    /\ UNCHANGED <<call, outputs, browser, bank>>

\* _matches_business_outcome; without a marker, or when the body cannot be read,
\* a checkpoint has failed and a locator is looked for again.
Look(r) ==
    /\ pc[r] = "look"
    /\ \/ page[r] \in {"notfound", "denied"} /\ BusinessOutcome(r, page[r])
       \/ Here(r).kind = "assert" /\ HardFailure(r)
       \/ Here(r).kind # "assert" /\ Recoverable(r)
    /\ UNCHANGED <<call, outputs, browser, bank>>

\* The last step has succeeded.
Finish(r) ==
    /\ pc[r] = "step" /\ pos[r] > Len(Steps(r))
    /\ Return(r, "BUSINESS_OUTCOME", "none")
    /\ UNCHANGED <<call, progress, browser, bank>>

Execute(r) ==
    \/ Navigate(r) \/ Locate(r) \/ Click(r) \/ Fill(r) \/ Extract(r)
    \/ Assert(r) \/ Look(r) \/ Finish(r)

\* The bank goes on with the POSTs it has received, whatever became of the run.
\* A form may come without what a fill has put elsewhere.
Forms(r) == {call[r].valid} \cup {FALSE : i \in {j \in DOMAIN Steps(r) : Steps(r)[j].kind = "fill"}}

Serve(p) ==
    /\ \E valid \in Forms(p[1]) : Bank!Handle(p, call[p[1]].member, valid)
    /\ UNCHANGED <<call, pc, progress, result, browser>>

Next ==
    \/ \E r \in Run : Execute(r) \/ Answer(r)
    \/ \E p \in Post : Serve(p)

\* Every try ends: each wait for the page has a timeout.  Nothing is assumed of
\* the bank.
Spec == Init /\ [][Next]_vars /\ \A r \in Run : WF_vars(Execute(r))

-----------------------------------------------------------------------------
(* Properties.                                                             *)

Entries(r, word) == {i \in DOMAIN log[r] : log[r][i][2] = word}
Accounts(r) == {i \in DOMAIN accounts : accounts[i] \in {r} \X Tries}
Stored(r) == \E n \in Tries : posts[<<r, n>>] = "stored"
PostSteps(r) == {i \in DOMAIN Steps(r) : Submits(Steps(r)[i])}

\* The logged retries of the step that submits the form.
Again(r) == {j \in Entries(r, "recoverable_retry") : log[r][j][1] \in PostSteps(r)}

\* A checkpoint that holds on the confirmation and nowhere else.
Confirmed(r) ==
    \E j \in DOMAIN Steps(r) : Steps(r)[j].kind = "assert" /\ Steps(r)[j].on = {"confirm"}

\* What a run reports is true at the bank, as far as its steps can tell the pages
\* apart: a success with a checkpoint that holds on the confirmation only has had
\* its sub-account stored, for inputs the bank accepts; what was extracted by
\* locators that match on the member's page only is of a member that may be seen;
\* and a business outcome is the bank's own answer for that member.  A checkpoint
\* that also holds on the page before, or on an error page, confirms nothing
\* (executor.py:68-95, 154-226).
OutcomeTrue ==
    \A r \in Run : outcome[r] = "BUSINESS_OUTCOME" =>
        /\ (marker[r] = "none" /\ Confirmed(r)) =>
               (Stored(r) /\ call[r].valid /\ call[r].member # "unknown")
        /\ (marker[r] = "none") =>
               outputs[r] = {i \in DOMAIN Steps(r) : Steps(r)[i].kind = "extract"}
        /\ \A i \in outputs[r] :
               (Steps(r)[i].on = {"detail"}) => (call[r].member = "active")
        /\ (marker[r] = "notfound") =>
               (call[r].member = "unknown" \/ call[r].inject = "notfound")
        /\ (marker[r] = "denied") =>
               (call[r].member = "restricted" \/ call[r].inject = "permission")

\* A run leaves two sub-accounts behind only if it has logged a retry of the step
\* that submits the form, one for each that is too many (executor.py:187-203).
DuplicatesExplained ==
    \A r \in Run : Cardinality(Accounts(r)) <= 1 + Cardinality(Again(r))

\* A sub-account gives way to another one with its id only if one of the two took
\* that id while yet another POST was taking one: the two need not have met
\* each other, since a late write sets the counter back (data.py:54-56,
\* main.py:130-134).
ReplacedByRace ==
    \A p \in Post : posts[p] = "stored" =>
        accounts[issued[p]] = p \/ {p, accounts[issued[p]]} \cap crossed # {}

\* Every run ends, even if the bank never answers.
Ends == \A r \in Run : <>(outcome[r] # "none")

TypeOK ==
    /\ call \in Calls
    /\ pc \in [Run -> {"step", "act", "look", "ended"}]
    /\ pos \in [Run -> Nat \ {0}]
    /\ attempt \in [Run -> 0..(MaxRetries + 1)]
    /\ retries \in [Run -> Nat]
    /\ log \in [Run -> Seq((Nat \ {0}) \X
           {"success", "recoverable_retry", "business_outcome", "hard_failure"})]
    /\ outputs \in [Run -> SUBSET Nat]
    /\ outcome \in [Run -> {"none", "BUSINESS_OUTCOME", "HARD_FAILURE"}]
    /\ marker \in [Run -> {"none", "notfound", "denied"}]
    /\ page \in [Run -> Bank!Pages]
    /\ pending \in [Run -> Requests]
    /\ posts \in [Post -> {"none", "sent", "refused", "read", "bumped", "numbered", "stored"}]
    /\ issued \in [Post -> Nat] /\ seq \in Nat /\ crossed \subseteq Post
    /\ accounts \in [DOMAIN accounts -> Post] /\ DOMAIN accounts \subseteq Nat
=============================================================================
