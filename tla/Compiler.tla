------------------------------ MODULE Compiler -------------------------------
(***************************************************************************)
(* compile_capability (services/capability_registry/compiler.py) as a      *)
(* function of the events it has fetched, and overlay.resolve (overlay.py).*)
(* Versions and their labels are in module Registry.                       *)
(*                                                                         *)
(* An event carries what the compiler reads of its payload: its type, the  *)
(* step_index, the action decided, the locator used.                       *)
(***************************************************************************)
EXTENDS Naturals, Sequences, FiniteSets, SequencesExt

CONSTANTS NoLocator  \* locator_used is None

\* Positions of the events of a type, for one step.
At(events, type, i) == {p \in DOMAIN events : events[p].type = type /\ events[p].step = i}

\* decided_by_step and executed_by_step: a later event replaces an earlier one.
LastAt(events, type, i) ==
    events[CHOOSE p \in At(events, type, i) : \A q \in At(events, type, i) : q <= p]

DecidedSteps(events) == {events[p].step : p \in {q \in DOMAIN events : events[q].type = "ActionDecided"}}
DecidedAction(events, i) == LastAt(events, "ActionDecided", i).action

\* The other candidates.
Without(candidates, used) == SelectSeq(candidates, LAMBDA c : c # used)

\* The locator that worked comes first, the others in the order they were in.
Chain(events, i) ==
    LET candidates == DecidedAction(events, i).candidates
        used == IF At(events, "ActionExecuted", i) = {} THEN NoLocator
                ELSE LastAt(events, "ActionExecuted", i).used
    IN  IF used = NoLocator THEN candidates
        ELSE <<used>> \o Without(candidates, used)

CompiledStep(events, i) ==
    LET a == DecidedAction(events, i) IN
    [action_type |-> a.type, strategy_chain |-> Chain(events, i),
     risky |-> a.risky, param_bindings |-> a.binds]

\* param_bindings.values()
ToInputs(binds) == {binds[p] : p \in DOMAIN binds}

\* Mutant: assertions become checkpoints only.
NoAssertSteps(events) ==
    {i \in DecidedSteps(events) : DecidedAction(events, i).type \notin {"finish", "assert"}}

\* The terminal action is not a step.
ReplayableSteps(events) ==
    {i \in DecidedSteps(events) : DecidedAction(events, i).type # "finish"}

OfType(events, type) ==
    {i \in ReplayableSteps(events) : DecidedAction(events, i).type = type}

\* compile_capability: steps by their index; without RunSucceeded there is
\* nothing to compile.
Compilable(events) == \E p \in DOMAIN events : events[p].type = "RunSucceeded"

Compile(events) ==
    LET kept == ReplayableSteps(events)
        checks == {i \in DecidedSteps(events) : DecidedAction(events, i).type = "assert"}
        risky == {i \in kept : DecidedAction(events, i).risky}
    IN  [steps |-> [i \in kept |-> CompiledStep(events, i)],
         checkpoints |-> [i \in checks |-> DecidedAction(events, i).expected],
         outputs |-> OfType(events, "extract"),
         input_params |-> UNION {ToInputs(DecidedAction(events, i).binds) : i \in kept},
         risky_step_count |-> Cardinality(risky)]

\* overlay.resolve: an overlay replaces the locators of some steps and adds to or
\* replaces the bindings of some, in a copy; the rest is as compiled.
OverlaidStep(s, i, overlay) ==
    [s EXCEPT
        !.strategy_chain = IF i \in DOMAIN overlay.locators THEN overlay.locators[i] ELSE @,
        !.param_bindings = IF i \in DOMAIN overlay.params THEN overlay.params[i] @@ @ ELSE @]

Resolve(artifact, overlay) ==
    [artifact EXCEPT !.steps = [i \in DOMAIN @ |-> OverlaidStep(@[i], i, overlay)]]
=============================================================================
