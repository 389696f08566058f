------------------------------ MODULE Discovery ------------------------------
(***************************************************************************)
(* A discovery run (services/discovery_plane/loop.py, actor.py) from its    *)
(* entry navigation to its last event, the way of its events through the   *)
(* outbox (what module Delivery promises) into the topic discovery.events, *)
(* and what compile_capability makes of them (module Compiler), at any      *)
(* time, for any tenant.                                                    *)
(*                                                                         *)
(* Events are numbered in the order the run emits them.  Other runs write   *)
(* to the same topic; the compiler reads no more than its first 10,000      *)
(* events: `room' is how many of this run's are among them.                 *)
(***************************************************************************)
EXTENDS Integers, Compiler

CONSTANTS Action,       \* what the planner may answer
          Locator,      \* locator candidates
          Text,         \* what an assertion expects
          Param,        \* names of the string parameters of actions
          Input,        \* names of the run's inputs, which parameters are bound to
          Secret,       \* the locators and texts that redact replaces ...
          Redacted,     \* ... by this
          Overlay,      \* of a tenant: its locators and its params, each by step
          MaxSteps,     \* MAX_STEPS
          BatchLimit,   \* rows that one dispatch_once takes
          Crowd,        \* how many of those rows may be of other runs
          MaxFailures,  \* bound: appends that fail
          Room,         \* how many events of the run a fetch may return
          None

EntryAction == [type |-> "navigate", risky |-> FALSE, binds |-> [url |-> "entry_url"],
                candidates |-> <<>>, expected |-> None, error |-> FALSE]

ActionTypes == {"navigate", "click", "fill", "select", "extract", "assert", "finish"}
Bindings == UNION {[P -> Input] : P \in SUBSET Param}
ActionType == [type : ActionTypes, risky : BOOLEAN, binds : Bindings,
               candidates : Seq(Locator), expected : Text \cup {None}, error : BOOLEAN]

ASSUME ConstantsAssumption ==
    /\ Action \subseteq ActionType
    /\ MaxSteps \in Nat \ {0}
    /\ BatchLimit \in Nat \ {0}
    /\ Crowd \subseteq 0..BatchLimit
    /\ MaxFailures \in Nat
    /\ Room \subseteq Nat

\* Three events for the entry, up to four for a step, and the last one.
MaxRows == 3 + 4 * MaxSteps + 1
Row == 1..MaxRows

VARIABLES pc,        \* where the run is in execute
          step,      \* step_index
          action,    \* the action decided on
          page,      \* where the page is
          result,    \* outcome and locator of the action that was executed
          events,    \* the rows the run has put into the outbox
          log,       \* the topic: its rows, in the order of their offsets
          excused,   \* rows an append of which has failed
          room,      \* how many of them a fetch returns at most
          due,       \* the rows of the run that the last dispatch_once has taken
          crowd,     \* how many of other runs it has taken with them
          artifact,  \* what the last compile gave, None before
          served     \* what a tenant was given, None before

run == <<pc, step, action, page, result>>
topic == <<log, excused, room, due, crowd>>
vars == <<run, events, topic, artifact, served>>

\* One thread emits the rows of a run and commits them one by one.
Ahead == [r \in Row |-> IF r \in DOMAIN events THEN 1..(r - 1) ELSE {}]

\* What becomes of the rows, each of them committed after all before it.
D == INSTANCE Delivery WITH
        Row <- Row, Corr <- [r \in Row |-> "run"], Deliverable <- Row,
        accepted <- DOMAIN events, delivered <- log, excused <- excused, ahead <- Ahead

Init ==
    /\ pc = "entry" /\ step = 0 /\ action = EntryAction /\ page = "hostless"
    /\ result = [outcome |-> "none", used |-> NoLocator]
    /\ events = <<>> /\ log = <<>> /\ excused = {} /\ room \in Room
    /\ due = {} /\ crowd = 0
    /\ artifact = None /\ served = None

-----------------------------------------------------------------------------
(* safety.py                                                               *)

\* On a host of the allowlist, on another one, or without any (about:blank); or
\* the browser is closed.
Pages == {"listed", "elsewhere", "hostless"}

\* check_allowlist of urlparse(page.url).hostname or "localhost": all action types
\* are listed for each listed host, and a page without a host counts as one.  It
\* is the page that is looked at, not where a navigation leads.
Allowed(p) == p \in {"listed", "hostless"}

Redact(x) == IF x \in Secret THEN Redacted ELSE x

\* redact_payload goes through the strings of a payload and of its lists.
RedactAction(a) ==
    [a EXCEPT !.candidates = [i \in DOMAIN a.candidates |-> Redact(a.candidates[i])],
              !.expected = Redact(a.expected)]

-----------------------------------------------------------------------------
(* execute: each action up to the next event.                              *)

\* _emit: one row, redacted, in a transaction of its own.
EmitEvent(type, a, used) ==
    events' = Append(events, [type |-> type, step |-> step, action |-> RedactAction(a),
                              used |-> Redact(used)])
Emit(type) == EmitEvent(type, action, NoLocator)

Unmoved == UNCHANGED <<topic, artifact, served>>

\* A page may navigate by itself (a redirect, a timer), between any two steps.
PageMoves ==
    /\ pc \in {"observe", "decide", "gate", "act", "acted"}
    /\ page' \in Pages
    /\ UNCHANGED <<pc, step, action, result, events>> /\ Unmoved

\* Step 0 is decided without the planner, and not gated.
DecideEntry ==
    /\ pc = "entry" /\ pc' = "goto"
    /\ Emit("ActionDecided")
    /\ UNCHANGED <<step, action, page, result>> /\ Unmoved

\* page.goto(base_url) raises or lands somewhere.
Goto ==
    /\ pc = "goto" /\ pc' = "acted"
    /\ page' \in Pages
    /\ result' = [outcome |-> "success", used |-> NoLocator]
    /\ Emit("ActionExecuted")
    /\ UNCHANGED <<step, action>> /\ Unmoved

\* Mutant: the number of steps is not bounded.
ObserveAlways ==
    /\ pc = "observe" /\ pc' = "decide"
    /\ Emit("ObservationCaptured")
    /\ UNCHANGED <<step, action, page, result>> /\ Unmoved

Observe ==
    /\ pc = "observe" /\ step < MaxSteps
    /\ pc' = "decide"
    /\ Emit("ObservationCaptured")
    /\ UNCHANGED <<step, action, page, result>> /\ Unmoved

\* The loop is over: "max steps exceeded".
Exhausted ==
    /\ pc = "observe" /\ step = MaxSteps
    /\ pc' = "ended"
    /\ UNCHANGED <<step, action, page, result, events>> /\ Unmoved

Decide ==
    /\ pc = "decide" /\ pc' = "gate"
    /\ \E a \in Action : action' = a /\ EmitEvent("ActionDecided", a, NoLocator)
    /\ UNCHANGED <<step, page, result>> /\ Unmoved

\* The page is looked at once, before the action.
Gate ==
    /\ pc = "gate" /\ Allowed(page) /\ pc' = "act"
    /\ UNCHANGED <<step, action, page, result, events>> /\ Unmoved

\* Mutant: what is blocked is done all the same.
BlockThenAct ==
    /\ pc = "gate" /\ ~Allowed(page)
    /\ pc' = "act"
    /\ Emit("ActionBlocked")
    /\ UNCHANGED <<step, action, page, result>> /\ Unmoved

Block ==
    /\ pc = "gate" /\ ~Allowed(page)
    /\ pc' = "ended"
    /\ Emit("ActionBlocked")
    /\ UNCHANGED <<step, action, page, result>> /\ Unmoved

\* finish: the planner reports success, or an error.
Finish ==
    /\ pc = "act" /\ action.type = "finish"
    /\ \/ action.error /\ pc' = "ended" /\ UNCHANGED <<page, events>>
       \/ ~action.error /\ pc' = "flush" /\ page' = "closed" /\ Emit("RunSucceeded")
    /\ UNCHANGED <<step, action, result>> /\ Unmoved

\* actor.execute: the first candidate that resolves is used; a navigation and an
\* assertion need none; anything may fail.
Results(a) ==
    {[outcome |-> "error", used |-> NoLocator]}
    \cup IF a.type \in {"navigate", "assert"}
         THEN {[outcome |-> "success", used |-> NoLocator]}
         ELSE {[outcome |-> o, used |-> a.candidates[i]] : o \in {"success"}, i \in DOMAIN a.candidates}

\* On whatever page is there by now.
Act ==
    /\ pc = "act" /\ action.type # "finish"
    /\ pc' = "acted"
    /\ result' \in Results(action)
    /\ page' \in IF action.type \in {"navigate", "click"} THEN Pages ELSE {page}
    /\ EmitEvent("ActionExecuted", action, result'.used)
    /\ UNCHANGED <<step, action>> /\ Unmoved

StepSucceeded ==
    /\ pc = "acted" /\ result.outcome = "success"
    /\ pc' = "observe" /\ step' = step + 1
    /\ Emit("StepSucceeded")
    /\ UNCHANGED <<action, page, result>> /\ Unmoved

StepFailed ==
    /\ pc = "acted" /\ result.outcome = "error"
    /\ pc' = "ended"
    /\ Emit("StepFailed")
    /\ UNCHANGED <<step, action, page, result>> /\ Unmoved

RunFailed ==
    /\ pc = "ended" /\ pc' = "flush" /\ page' = "closed"
    /\ Emit("RunFailed")
    /\ UNCHANGED <<step, action, result>> /\ Unmoved

\* An exception (the entry page, the planner, the snapshot) or a crash of the
\* process: no further event.
Die ==
    /\ pc \notin {"returned", "dead"}
    /\ pc' = "dead" /\ page' = "closed"
    /\ UNCHANGED <<step, action, result, events>> /\ Unmoved

-----------------------------------------------------------------------------
(* The outbox, and _flush_and_stop.                                        *)

Pending == DOMAIN events \ ToSet(log)

\* dispatch_once begins: the oldest rows of the table, which all runs share, as
\* many as it takes.  Some of them may be of other runs.
Flush ==
    /\ pc = "flush" /\ pc' = "flushing"
    /\ crowd' \in Crowd
    /\ due' = {r \in Pending : Cardinality({q \in Pending : q < r}) < BatchLimit - crowd'}
    /\ UNCHANGED <<step, action, page, result, events, log, excused, room, artifact, served>>

\* Mutant: it is not waited for.
ReturnAtOnce ==
    /\ pc = "flushing" /\ pc' = "returned"
    /\ UNCHANGED <<step, action, page, result, events, topic, artifact, served>>

\* It ends when each of them is in the log, or has failed.
Return ==
    /\ pc = "flushing" /\ pc' = "returned"
    /\ due \subseteq ToSet(log) \cup excused
    /\ UNCHANGED <<step, action, page, result, events, topic, artifact, served>>

\* A row reaches the topic, by this or another run's dispatcher, or fails to.
Deliver(r) ==
    /\ UNCHANGED <<run, events, room, due, crowd, artifact, served>>
    /\ D!Deliver(r)

\* Rows are tried oldest first.
DeliveryFails(r) ==
    /\ Cardinality(excused) < MaxFailures /\ r \in Pending
    /\ \A q \in Pending : q < r => q \in excused
    /\ UNCHANGED <<run, events, room, due, crowd, artifact, served>>
    /\ D!Excuse(r)

-----------------------------------------------------------------------------
(* The registry.                                                           *)

\* This run's first n events in the topic.
First(n) == [p \in 1..n |-> events[log[p]]]

\* fetch(DISCOVERY_TOPIC, ...) of a new consumer group, this run's events.
Fetched == First(IF room < Len(log) THEN room ELSE Len(log))

\* Nothing is compiled without RunSucceeded: a ValueError, which nothing catches.
CompileCapability ==
    /\ Compilable(Fetched)
    /\ artifact' = Compile(Fetched)
    /\ UNCHANGED <<run, events, topic, served>>

ResolveForTenant ==
    /\ artifact # None
    /\ served' = Resolve(artifact, Overlay)
    /\ UNCHANGED <<run, events, topic, artifact>>

Execute ==
    \/ DecideEntry \/ Goto \/ Observe \/ Exhausted \/ Decide \/ Gate \/ Block \/ Finish \/ Act
    \/ StepSucceeded \/ StepFailed \/ RunFailed \/ Flush \/ Return

Next ==
    \/ Execute \/ PageMoves \/ Die
    \/ \E r \in Row : Deliver(r) \/ DeliveryFails(r)
    \/ CompileCapability \/ ResolveForTenant

Spec == Init /\ [][Next]_vars

-----------------------------------------------------------------------------
(* Properties.                                                             *)

Emitted(type) == {r \in DOMAIN events : events[r].type = type}
StepsOf(type) == {events[r].step : r \in Emitted(type)}

\* The run executed step i with that locator; step 0 included.
Used(i) == LastAt(events, "ActionExecuted", i).used
Replayable == {i \in StepsOf("StepSucceeded") : DecidedAction(events, i).type # "finish"}

\* An artifact is of a run that succeeded and has only steps that succeeded in
\* it; a step is missing only if the append of its ActionDecided has failed; the
\* locator that worked, as its event has it, is tried first, unless the append of
\* ActionExecuted has failed (what is tried first is of no use when it was
\* redacted); and a checkpoint always has its step (compiler.py:96-98), for every
\* tenant (overlay.py:10-23).
CompiledSound ==
    artifact # None =>
        /\ Emitted("RunSucceeded") # {}
        /\ DOMAIN artifact.steps \subseteq Replayable
        /\ \A i \in Replayable \ DOMAIN artifact.steps : At(events, "ActionDecided", i) \subseteq excused
        /\ \A i \in DOMAIN artifact.steps :
              (Used(i) # NoLocator /\ At(events, "ActionExecuted", i) \cap excused = {}) =>
                  Head(artifact.steps[i].strategy_chain) = Used(i)
        /\ DOMAIN artifact.checkpoints \subseteq DOMAIN artifact.steps
        /\ served # None => (DOMAIN served.checkpoints \subseteq DOMAIN served.steps)

\* A run that has returned as a success can be compiled, with all its steps, if
\* no append has failed, all its events fit the last dispatch_once beside the rows
\* of other runs, and the topic still has room (loop.py:186-190, outbox.py:85-88,
\* compiler.py:50).
CompiledComplete ==
    (/\ pc = "returned" /\ Emitted("RunSucceeded") # {}
     /\ excused = {} /\ Len(events) <= room /\ Len(events) + crowd <= BatchLimit) =>
        /\ Compilable(Fetched)
        /\ DOMAIN Compile(Fetched).steps = Replayable

\* What the events say of a run adds up: a run that returned has one terminal
\* event, its last; RunSucceeded only if every step that was executed succeeded
\* and none was blocked; nothing is executed after a failure or after an action
\* that the allowlist blocked (loop.py:125-133, 153-171).
EventsTell ==
    LET ends == Emitted("RunSucceeded") \cup Emitted("RunFailed") IN
    /\ (pc \in {"flush", "flushing", "returned"}) => ends = {Len(events)}
    /\ (Emitted("RunSucceeded") # {}) =>
           /\ StepsOf("ActionExecuted") = StepsOf("StepSucceeded")
           /\ Emitted("ActionBlocked") \cup Emitted("StepFailed") = {}
    /\ \A r \in Emitted("ActionBlocked") \cup Emitted("StepFailed") :
           Emitted("ActionExecuted") \subseteq 1..r

\* A row of the outbox.
EventTypes == {"ObservationCaptured", "ActionDecided", "ActionBlocked", "ActionExecuted",
               "StepSucceeded", "StepFailed", "RunSucceeded", "RunFailed"}
EventRow == [type : EventTypes, step : 0..MaxSteps,
             action : {RedactAction(a) : a \in Action \cup {EntryAction}},
             used : Locator \cup {NoLocator, Redacted}]

\* The types; no run has more than MAX_STEPS steps (loop.py:26, 99), nor more
\* rows than those make.
TypeOK ==
    /\ pc \in {"entry", "goto", "observe", "decide", "gate", "act", "acted", "ended",
               "flush", "flushing", "returned", "dead"}
    /\ step \in 0..MaxSteps /\ action \in Action \cup {EntryAction}
    /\ page \in Pages \cup {"closed"}
    /\ result \in [outcome : {"none", "success", "error"}, used : Locator \cup {NoLocator}]
    /\ events \in Seq(EventRow) /\ Len(events) <= MaxRows
    /\ log \in Seq(DOMAIN events) /\ excused \subseteq DOMAIN events
    /\ room \in Room /\ due \subseteq DOMAIN events /\ crowd \in 0..BatchLimit

-----------------------------------------------------------------------------
(* What makes the properties inductive.                                    *)

Before == {"entry", "observe", "decide"}   \* the step is not decided yet
After == {"flush", "flushing", "returned"} \* the run has ended
Stops == Emitted("ActionBlocked") \cup Emitted("StepFailed")
Ends == Emitted("RunSucceeded") \cup Emitted("RunFailed")

\* Up to four rows for a step: what is there of the current one.
LengthInv ==
    /\ pc \in {"entry", "goto"} => step = 0
    /\ pc = "observe" => step > 0
    /\ pc \in {"entry", "goto", "decide", "gate", "act", "acted"} => step < MaxSteps
    /\ pc = "entry" => Len(events) = 0
    /\ pc = "goto" => Len(events) = 1
    /\ pc = "observe" => Len(events) <= 4 * step - 1
    /\ pc = "decide" => Len(events) <= 4 * step
    /\ pc \in {"gate", "act"} => Len(events) <= 4 * step + 1
    /\ pc = "acted" => Len(events) <= 4 * step + 2
    /\ pc = "ended" => Len(events) <= 4 * step + 3

\* The steps before the current one are decided, executed and succeeded, each once.
StepInv ==
    /\ StepsOf("StepSucceeded") = 0..(step - 1)
    /\ \A type \in {"ActionDecided", "ActionExecuted"} :
           0..(step - 1) \subseteq StepsOf(type) /\ StepsOf(type) \subseteq 0..step
    /\ pc \in Before => step \notin StepsOf("ActionDecided")
    /\ pc \in Before \cup {"goto", "gate", "act"} => step \notin StepsOf("ActionExecuted")
    /\ pc = "acted" => step \in StepsOf("ActionDecided") \cap StepsOf("ActionExecuted")
    /\ pc \in {"goto", "gate", "act"} => step \in StepsOf("ActionDecided")

OncePerStep ==
    \A type \in {"ActionDecided", "ActionExecuted"} : \A q, r \in Emitted(type) :
        events[q].step = events[r].step => q = r

\* The current step was decided on the current action; a run that succeeded has
\* decided to finish, and not executed that.
DecidedInv ==
    \A r \in Emitted("ActionDecided") : events[r].step = step =>
        /\ pc \in {"gate", "act"} => events[r].action.type = action.type
        /\ Emitted("RunSucceeded") # {} => events[r].action.type = "finish"

\* A run ends once, and nothing is executed after it was stopped.
EndInv ==
    /\ pc \in After => Ends = {Len(events)}
    /\ pc = "dead" => Ends \subseteq {Len(events)}
    /\ pc \notin After \cup {"dead"} => Ends = {}
    /\ Stops # {} => pc \in After \cup {"ended", "dead"}
    /\ Emitted("RunSucceeded") # {} => Stops = {} /\ step \notin StepsOf("ActionExecuted")
    /\ \A r \in Stops : Emitted("ActionExecuted") \subseteq 1..r

\* What Delivery promises: each row once, after all earlier ones but excused ones.
LogInv ==
    /\ \A p, q \in DOMAIN log : log[p] = log[q] => p = q
    /\ Cardinality(ToSet(log)) = Len(log)
    /\ \A p \in DOMAIN log : \A r \in 1..(log[p] - 1) :
           r \in excused \/ \E q \in 1..(p - 1) : log[q] = r

\* A flush that takes all rows ends when all are in the log or have failed.
FlushInv ==
    Len(events) + crowd <= BatchLimit =>
        /\ pc = "flushing" => DOMAIN events \subseteq due \cup ToSet(log)
        /\ pc = "returned" => DOMAIN events \subseteq ToSet(log) \cup excused

\* An artifact is of the first events of a topic that has grown since.
ArtifactInv ==
    /\ artifact # None =>
           \E n \in 0..Len(log) : Compilable(First(n)) /\ artifact = Compile(First(n))
    /\ served # None => DOMAIN served.checkpoints \subseteq DOMAIN served.steps

RunInv == LengthInv /\ StepInv /\ OncePerStep /\ DecidedInv /\ EndInv

Inv == TypeOK /\ RunInv /\ LogInv /\ FlushInv /\ ArtifactInv
=============================================================================
